------------------------------ MODULE MCSignIn ------------------------------
\* Model-checking instance of the two ways to sign in: passwords and the lock they
\* run into, on a clock of half seconds over nearly two windows of time, and the
\* codes of the single sign-on, with two projects, one account, two codes and two
\* requests interleaved statement by statement.
\*
\* LoginLockout and OAuth share no variable: their runs are put side by side, and a
\* behaviour moves one of them.
EXTENDS LoginLockout, OAuth, TLC

VARIABLE moving \* which of the two
SignInVars == <<moving, lockoutVars, vars>>

SignInInit == moving \in {"lockout", "oauth"} /\ LockoutInit /\ Init

SignInNext ==
  \/ moving = "lockout" /\ LockoutNext /\ UNCHANGED <<moving, vars>>
  \/ moving = "oauth" /\ Next /\ UNCHANGED <<moving, lockoutVars>>

SignInSpec == SignInInit /\ [][SignInNext]_SignInVars

\* The instance gives the slots of both the same names.
Symmetry == Permutations(Requests) \cup Permutations(Codes) \cup Permutations(Clients)
=============================================================================
