--------------------------- MODULE MCServiceDesk ---------------------------
\* Model-checking instance of the service desk and of the directory it takes
\* people from: up to two requests in flight, so that handlers run one after
\* another in some behaviours and interleave in others, and crashes.
\*
\* ServiceDesk, SupportQueue and Departments share no variable: their runs are put
\* side by side, and a behaviour moves one of them while the other two rest.
EXTENDS ServiceDesk, SupportQueue, Departments, TLC

VARIABLE moving \* which of the three
DeskVars == <<moving, vars, queueVars, orgVars>>

DeskInit ==
  /\ moving \in {"desk", "queue", "departments"}
  /\ Init /\ QueueInit /\ OrgInit
  /\ moving # "desk" => rows = [u \in Users |-> NewUser("admin", {})]
  /\ moving # "queue" => member = [u \in Agents |-> NoLine]

DeskNext ==
  \/ moving = "desk" /\ Next /\ UNCHANGED <<moving, queueVars, orgVars>>
  \/ moving = "queue" /\ QueueNext /\ UNCHANGED <<moving, vars, orgVars>>
  \/ moving = "departments" /\ OrgNext /\ UNCHANGED <<moving, vars, queueVars>>

DeskSpec == DeskInit /\ [][DeskNext]_DeskVars

\* The ranks are far apart in the table; only their order matters.
RankOfLines == "line1" :> 10 @@ "line2" :> 20

\* No action orders accounts, tickets or slots, which the instances share; no
\* liveness property is checked.
Symmetry == Permutations(Users) \cup Permutations(Tickets) \cup Permutations(Requests)
=============================================================================
