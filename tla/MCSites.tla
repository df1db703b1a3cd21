------------------------------ MODULE MCSites ------------------------------
\* Model-checking instances of what the panel generates for other daemons and of
\* its own port: up to two requests in flight, failing steps, vhosts broken by
\* hand and crashes of the daemon.
\*
\* Sites, GeneratedFiles and PanelPort share no variable: their runs are put side
\* by side, and a behaviour moves one of them.
EXTENDS Sites, GeneratedFiles, PanelPort, TLC

VARIABLE moving \* which of the three
AllVars == <<moving, vars, filesVars, panelVars>>

AllInit ==
  /\ moving \in {"sites", "files", "panel"}
  /\ Init /\ FilesInit /\ PanelInit
  /\ moving # "files" => service = "cron"
  /\ moving # "panel" => ~ufw

AllNext ==
  \/ moving = "sites" /\ Next /\ UNCHANGED <<moving, filesVars, panelVars>>
  \/ moving = "files" /\ FilesNext /\ UNCHANGED <<moving, vars, panelVars>>
  \/ moving = "panel" /\ PanelNext /\ UNCHANGED <<moving, vars, filesVars>>

AllSpec == AllInit /\ [][AllNext]_AllVars

\* What rows are about, by service.
NamesOfServices == [cron |-> {"m1"}, dns |-> {"n1", "n2"}, mail |-> {"m1"}]

\* The instances give the rows and the slots of all three the same names.
Symmetry == Permutations(Ids) \cup Permutations(Requests)
=============================================================================
