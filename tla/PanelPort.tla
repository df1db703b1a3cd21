----------------------------- MODULE PanelPort -----------------------------
(***************************************************************************)
(* The panel's own way in: the port kursord listens on                     *)
(* (paneladmin/paneladmin.go, server/panelsettings.go), the firewall in    *)
(* front of it (server/ports.go) and the list of addresses it answers      *)
(* (server/panelaccess.go, store/panelsettings.go).                        *)
(*                                                                         *)
(* The port is in three places: systemd's unit file, what systemd has      *)
(* loaded of it, and the socket of the running process.  A change of the   *)
(* port opens the firewall, writes the file, has systemd load it, answers, *)
(* and 1.5 seconds later a goroutine restarts the process it runs in.      *)
(***************************************************************************)
EXTENDS FiniteSets

CONSTANTS PanelPorts,
          Installed,  \* the port scripts/install.sh chose
          NoPort,     \* not listening: systemd tries again and again
          Visitors,   \* addresses browsers come from
          Loopback,   \* what the panel sees of those behind its proxy or a tunnel
          Changes, NoChange

ASSUME InstalledIsPort == Installed \in PanelPorts /\ NoPort \notin PanelPorts
ASSUME LoopbackIsLocal == Loopback \notin Visitors

VARIABLES unit, loaded, listening,
          ufw,        \* the firewall is active
          through,    \* ports it lets through
          allowed_ips, saver, \* the list, {} for everybody, and who saved it
          change,     \* port changes at work
          closed,     \* history: ports closed by hand since they were opened
          hasty,      \* history: ufw was enabled with a change of port under way
          mangled     \* history: two changes met, or one was cut short, or its way
              \* back failed

panelVars == <<unit, loaded, listening, ufw, through, allowed_ips, saver, change,
               closed, hasty, mangled>>

Changing == [pc: {"detect", "open", "read", "write", "reload", "undo", "unload", "restart"},
             port: PanelPorts, fw: BOOLEAN, old: PanelPorts]
ASSUME NoChangeIsNone == NoChange \notin Changing

PanelTypeOK ==
  /\ unit \in PanelPorts /\ loaded \in PanelPorts
  /\ listening \in PanelPorts \cup {NoPort}
  /\ ufw \in BOOLEAN
  /\ through \subseteq PanelPorts
  /\ allowed_ips \subseteq Visitors
  /\ saver \in Visitors \cup {Loopback}
  /\ change \in [Changes -> Changing \cup {NoChange}]
  /\ closed \subseteq PanelPorts
  /\ hasty \in BOOLEAN /\ mangled \in BOOLEAN

\* As installed: the installer opens the port in a firewall that is active.
PanelInit ==
  /\ unit = Installed /\ loaded = Installed /\ listening = Installed
  /\ ufw \in BOOLEAN
  /\ through = IF ufw THEN {Installed} ELSE {}
  /\ allowed_ips = {} /\ saver = Loopback
  /\ change = [c \in Changes |-> NoChange]
  /\ closed = {}
  /\ hasty = FALSE /\ mangled = FALSE

Reachable(p) == ufw => p \in through

\* ipAllowed: an empty list allows everybody, loopback always passes.
Admitted(ip, list) == list = {} \/ ip = Loopback \/ ip \in list

\* The network up to requirePanelIPAllowed, which lets everybody pass when it cannot
\* read the list: nobody is kept out for sure.
GetsIn(ip) == listening # NoPort /\ (ip = Loopback \/ Reachable(listening))

ChangeAt(c, pc) == change[c] # NoChange /\ change[c].pc = pc
Step(c, pc)     == change' = [change EXCEPT ![c] = [@ EXCEPT !.pc = pc]]
End(c)          == change' = [change EXCEPT ![c] = NoChange]
Settle(c, pc)   == change' = [change EXCEPT ![c] = [@ EXCEPT !.pc = pc, !.port = Installed,
                                                             !.old = Installed]]
Working         == {c \in Changes : change[c] # NoChange}

-----------------------------------------------------------------------------
(* handlePanelPortChange.                                                  *)

AskForPort(c) ==
  /\ change[c] = NoChange
  /\ \E ip \in Visitors \cup {Loopback} : GetsIn(ip)
  /\ \E p \in PanelPorts :
       change' = [change EXCEPT ![c] =
         [pc |-> "detect", port |-> p, fw |-> FALSE, old |-> Installed]]
  /\ mangled' = (mangled \/ Working # {})
  /\ UNCHANGED <<unit, loaded, listening, ufw, through, allowed_ips, saver, closed, hasty>>

DetectFirewall(c) ==
  /\ ChangeAt(c, "detect")
  /\ change' = [change EXCEPT ![c] = [@ EXCEPT !.pc = "open", !.fw = ufw]]
  /\ UNCHANGED <<unit, loaded, listening, ufw, through, allowed_ips, saver, closed,
                 hasty, mangled>>

\* OpenPort; an error ends the request.  Without ufw nothing that matters here.
OpenFirst(c) ==
  /\ ChangeAt(c, "open")
  /\ \/ /\ through' = IF change[c].fw THEN through \cup {change[c].port} ELSE through
        /\ closed' = IF change[c].fw THEN closed \ {change[c].port} ELSE closed
        /\ change' = [change EXCEPT ![c] = [@ EXCEPT !.pc = "read", !.fw = FALSE]]
     \/ UNCHANGED <<through, closed>> /\ End(c)
  /\ UNCHANGED <<unit, loaded, listening, ufw, allowed_ips, saver, hasty, mangled>>

\* SetPort: the file is read, for the rollback too, ...
ReadUnit(c) ==
  /\ ChangeAt(c, "read")
  /\ \/ change' = [change EXCEPT ![c] = [@ EXCEPT !.pc = "write", !.old = unit]]
     \/ End(c)
  /\ UNCHANGED <<unit, loaded, listening, ufw, through, allowed_ips, saver, closed,
                 hasty, mangled>>

\* ... written ...
WriteUnit(c) ==
  /\ ChangeAt(c, "write")
  /\ \/ unit' = change[c].port /\ Step(c, "reload")
     \/ UNCHANGED unit /\ End(c)
  /\ UNCHANGED <<loaded, listening, ufw, through, allowed_ips, saver, closed, hasty,
                 mangled>>

\* Mutant: a rejected file stays.
DaemonReload_NoRollback(c) ==
  /\ ChangeAt(c, "reload")
  /\ \/ loaded' = unit /\ Settle(c, "restart")
     \/ UNCHANGED loaded /\ End(c)
  /\ UNCHANGED <<unit, listening, ufw, through, allowed_ips, saver, closed, hasty,
                 mangled>>

\* ... and loaded.  Then the answer, and a goroutine.
DaemonReload(c) ==
  /\ ChangeAt(c, "reload")
  /\ \/ loaded' = unit /\ Settle(c, "restart")
     \/ UNCHANGED loaded /\ Step(c, "undo")
  /\ UNCHANGED <<unit, listening, ufw, through, allowed_ips, saver, closed, hasty,
                 mangled>>

\* Both errors of the way back are dropped.
WriteBack(c) ==
  /\ ChangeAt(c, "undo")
  /\ \/ unit' = change[c].old /\ UNCHANGED mangled
     \/ UNCHANGED unit /\ mangled' = TRUE
  /\ Step(c, "unload")
  /\ UNCHANGED <<loaded, listening, ufw, through, allowed_ips, saver, closed, hasty>>

ReloadBack(c) ==
  /\ ChangeAt(c, "unload")
  /\ loaded' \in {loaded, unit}
  /\ End(c)
  /\ UNCHANGED <<unit, listening, ufw, through, allowed_ips, saver, closed, hasty,
                 mangled>>

\* ListenAndServe, or log.Fatal on a port that another program has.
Started == listening' \in {loaded, NoPort}

\* systemctl restart: every request at work goes with the process.  Its error is
\* dropped.
RestartPanel(c) ==
  /\ ChangeAt(c, "restart")
  /\ \/ /\ Started
        /\ change' = [d \in Changes |-> NoChange]
        /\ mangled' = (mangled \/ Working # {c})
     \/ UNCHANGED listening /\ End(c) /\ mangled' = TRUE
  /\ UNCHANGED <<unit, loaded, ufw, through, allowed_ips, saver, closed, hasty>>

-----------------------------------------------------------------------------
(* What else touches the way in.                                           *)

\* Mutant: the list in force is asked instead of the new one.
SaveAllowedIPs_OldList ==
  \E ip \in Visitors \cup {Loopback}, list \in SUBSET Visitors :
    /\ GetsIn(ip)
    /\ Admitted(ip, allowed_ips)
    /\ allowed_ips' = list
    /\ saver' = ip
    /\ UNCHANGED <<unit, loaded, listening, ufw, through, change, closed, hasty, mangled>>

\* handlePanelAllowedIPsUpdate: "refuse to save a list that would lock out the
\* very request submitting it".
SaveAllowedIPs ==
  \E ip \in Visitors \cup {Loopback}, list \in SUBSET Visitors :
    /\ GetsIn(ip)
    /\ Admitted(ip, list)
    /\ allowed_ips' = list
    /\ saver' = ip
    /\ UNCHANGED <<unit, loaded, listening, ufw, through, change, closed, hasty, mangled>>

\* handlePortsEnableUFW opens the port the process listens on, not the one it is
\* about to move to.
EnableFirewall ==
  /\ ~ufw /\ listening # NoPort
  /\ ufw' = TRUE
  /\ through' = through \cup {listening}
  /\ closed' = closed \ {listening}
  /\ hasty' = (hasty \/ Working # {} \/ unit # listening \/ loaded # listening)
  /\ UNCHANGED <<unit, loaded, listening, allowed_ips, saver, change, mangled>>

\* handlePortOpen and handlePortClose, which know nothing of the panel's port.
OpenByHand(p) ==
  /\ ufw /\ listening # NoPort
  /\ through' = through \cup {p} /\ closed' = closed \ {p}
  /\ UNCHANGED <<unit, loaded, listening, ufw, allowed_ips, saver, change, hasty, mangled>>
CloseByHand(p) ==
  /\ ufw /\ listening # NoPort
  /\ through' = through \ {p} /\ closed' = closed \cup {p}
  /\ UNCHANGED <<unit, loaded, listening, ufw, allowed_ips, saver, change, hasty, mangled>>

\* kursord dies; Restart=on-failure brings it back, with what systemd has loaded.
Respawn ==
  /\ Started
  /\ change' = [c \in Changes |-> NoChange]
  /\ mangled' = (mangled \/ \E c \in Working : change[c].pc \notin {"detect", "open", "read", "restart"})
  /\ UNCHANGED <<unit, loaded, ufw, through, allowed_ips, saver, closed, hasty>>

ChangePort(c) ==
  \/ AskForPort(c) \/ DetectFirewall(c) \/ OpenFirst(c) \/ ReadUnit(c) \/ WriteUnit(c)
  \/ DaemonReload(c) \/ WriteBack(c) \/ ReloadBack(c) \/ RestartPanel(c)

PanelNext ==
  \/ \E c \in Changes : ChangePort(c)
  \/ \E p \in PanelPorts : OpenByHand(p) \/ CloseByHand(p)
  \/ SaveAllowedIPs \/ EnableFirewall \/ Respawn

PanelSpec == PanelInit /\ [][PanelNext]_panelVars

-----------------------------------------------------------------------------
(* Properties.                                                             *)

\* "required to open the new port in the firewall BEFORE calling SetPort"
\* (package paneladmin), "refuse to save a list that would lock out the very
\* request submitting it" (handlePanelAllowedIPsUpdate): whatever changes of port
\* race, fail or are cut short, whoever saved the list in force still gets in
\* where the panel listens, unless its port was closed by hand or ufw was enabled
\* with a change under way.
SaverGetsIn ==
  ~hasty /\ listening \notin closed /\ listening # NoPort =>
    /\ Reachable(listening)
    /\ Admitted(saver, allowed_ips)

\* A change of port that ran alone to its end, neither cut short nor denied its way
\* back, is in force or was rolled back: file, systemd and the process agree, unless
\* the port is taken.
PortTakesEffect ==
  Working = {} /\ ~mangled => unit = loaded /\ listening \in {loaded, NoPort}
=============================================================================
