--------------------------- MODULE MCRemoteAccess ---------------------------
\* Model-checking instances of RemoteAccess: three ports (22, the panel's and
\* one more), up to two requests in flight.
EXTENDS RemoteAccess, TLC

Symmetry == Permutations(Keys) \cup Permutations(Requests)
=============================================================================
