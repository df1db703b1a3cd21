----------------------------- MODULE MCAccounts -----------------------------
\* Model-checking instance of Accounts: three ids, one cookie, and up to two
\* requests in flight, so that handlers run one after another in some behaviours
\* and interleave in others.
EXTENDS Accounts, TLC

\* No action orders accounts, cookies or slots, and no property is a liveness one.
Symmetry == Permutations(Users) \cup Permutations(Tokens) \cup Permutations(Requests)
=============================================================================
