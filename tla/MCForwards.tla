----------------------------- MODULE MCForwards -----------------------------
\* Model-checking instance of Forwards alone, as small as it gets: what a rule that
\* outlives its row takes.  The larger instance is part of MCVpn.
EXTENDS Forwards
=============================================================================
