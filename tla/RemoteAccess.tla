---------------------------- MODULE RemoteAccess ----------------------------
(***************************************************************************)
(* The way into the box: sshd_config and root's authorized_keys            *)
(* (sshadmin/sshadmin.go, server/sshadmin.go) and the ports ufw lets       *)
(* through (firewall/firewall.go, server/ports.go), on a host with ufw.    *)
(*                                                                         *)
(* None of this is in the database: handlers read files, run commands and  *)
(* write files, a step each, and nothing keeps two of them apart.  While   *)
(* ufw is inactive every port is reachable and the port handlers talk to   *)
(* iptables, which changes nothing modelled here.                          *)
(***************************************************************************)
EXTENDS FiniteSets

CONSTANTS Keys,       \* lines of authorized_keys
          Ports,      \* tcp ports
          SSHPort,    \* 22: sshd's default, and the port EnableUFW names
          PanelPort,  \* the port kursord listens on
          Requests, NoReq

ASSUME PortsArePorts == {SSHPort, PanelPort} \subseteq Ports

VARIABLES file,     \* sshd_config
          sshd,     \* what the running sshd has read
          keys,     \* root's authorized_keys
          active,   \* ufw status
          allowed,  \* tcp ports with an ALLOW rule in ufw
          req,      \* requests in flight
          trouble   \* history, the worst so far: "failed" for a reload that failed or
                    \* the daemon dying before it, "overlapped" for two requests in
                    \* flight at once

vars == <<file, sshd, keys, active, allowed, req, trouble>>

\* GetConfig: the two directives the panel knows.
Config == [port: Ports, password: BOOLEAN]

Ops == {"port", "password", "unkey", "open", "close", "enable"}

\* A request: its argument, whether it found ufw active, the keys and the file
\* it read, the file to go back to, and the ports it still has to allow; what it
\* will not look at again is blanked.
InFlight ==
  [pc: {"detect", "firewall", "guard", "read", "previous", "write", "test", "reload",
        "rewrite", "allow"},
   op: Ops, port: Ports, on: BOOLEAN, ufw: BOOLEAN,
   list: SUBSET Keys, new: Config, old: Config, todo: SUBSET Ports]
ASSUME NoReqIsNoReq == NoReq \notin InFlight

TypeOK ==
  /\ file \in Config
  /\ sshd \in Config
  /\ keys \subseteq Keys
  /\ active \in BOOLEAN
  /\ allowed \subseteq Ports
  /\ req \in [Requests -> InFlight \cup {NoReq}]
  /\ trouble \in {"none", "failed", "overlapped"}

Defaults == [port |-> SSHPort, password |-> TRUE]

\* A host as the installer finds it.
Init ==
  /\ file = Defaults
  /\ sshd = file
  /\ keys \in SUBSET Keys
  /\ active = FALSE
  /\ allowed = {}
  /\ req = [r \in Requests |-> NoReq]
  /\ trouble = "none"

Overlap(others) ==
  trouble' = IF \E q \in others : req[q] # NoReq THEN "overlapped" ELSE trouble
Failure == trouble' = IF trouble = "none" THEN "failed" ELSE trouble

At(r, pc) == req[r] # NoReq /\ req[r].pc = pc
Go(r, pc) == req' = [req EXCEPT ![r] = [@ EXCEPT !.pc = pc]]
Done(r)   == req' = [req EXCEPT ![r] = NoReq]

\* Mutant: SetPasswordAuth starts without its guard.
FirstStep_NoGuard(op, on) ==
  CASE op \in {"port", "open", "close"} -> "detect"
    [] op = "password" -> "read"
    [] op = "unkey"    -> "guard"
    [] op = "enable"   -> "allow"

\* What the handler of op does first.
FirstStep(op, on) ==
  CASE op \in {"port", "open", "close"} -> "detect"
    [] op = "password" -> IF on THEN "read" ELSE "guard"
    [] op = "unkey"    -> "guard"
    [] op = "enable"   -> "allow"

Receive(r) ==
  /\ req[r] = NoReq
  /\ \E op \in Ops, p \in Ports, on \in BOOLEAN :
       /\ op \notin {"port", "open", "close"} => p = SSHPort
       /\ op # "password" => on
       /\ req' = [req EXCEPT ![r] =
            [pc |-> FirstStep(op, on), op |-> op, port |-> p, on |-> on, ufw |-> FALSE,
             list |-> {}, new |-> Defaults, old |-> Defaults,
             todo |-> IF op = "enable" THEN {SSHPort, PanelPort} ELSE {}]]
  /\ Overlap(Requests \ {r})
  /\ UNCHANGED <<file, sshd, keys, active, allowed>>

-----------------------------------------------------------------------------
(* The firewall.                                                           *)

DetectBackend(r) ==
  /\ At(r, "detect")
  /\ req' = [req EXCEPT ![r] = [@ EXCEPT !.pc = "firewall", !.ufw = active]]
  /\ UNCHANGED <<file, sshd, keys, active, allowed, trouble>>

\* Mutant: the firewall page's handler, for the SSH port as well.
ApplyRule_ClosesOld(r) ==
  /\ At(r, "firewall")
  /\ allowed' = IF ~req[r].ufw THEN allowed
                ELSE IF req[r].op = "open" THEN allowed \cup {req[r].port}
                ELSE allowed \ {req[r].port}
  /\ IF req[r].op = "port" THEN Go(r, "read") ELSE Done(r)
  /\ UNCHANGED <<file, sshd, keys, active, trouble>>

\* OpenPort or ClosePort, through the backend detected.  An error ends the
\* request, a change of the SSH port included.
ApplyRule(r) ==
  /\ At(r, "firewall")
  /\ \/ /\ allowed' = IF ~req[r].ufw THEN allowed
                      ELSE IF req[r].op = "close" THEN allowed \ {req[r].port}
                      ELSE allowed \cup {req[r].port}
        /\ IF req[r].op = "port" THEN Go(r, "read") ELSE Done(r)
     \/ UNCHANGED allowed /\ Done(r)
  /\ UNCHANGED <<file, sshd, keys, active, trouble>>

\* Mutant: ufw is turned on before the ports it must allow.
EnableUFW_TooEarly(r) ==
  /\ At(r, "allow")
  /\ active' = TRUE
  /\ Done(r)
  /\ UNCHANGED <<file, sshd, keys, allowed, trouble>>

\* EnableUFW: one command per port (in the order of a Go map), then the switch.
EnableUFW(r) ==
  /\ At(r, "allow")
  /\ \/ \E p \in req[r].todo :
          /\ allowed' = allowed \cup {p}
          /\ req' = [req EXCEPT ![r].todo = @ \ {p}]
          /\ UNCHANGED active
     \/ req[r].todo = {} /\ active' = TRUE /\ Done(r) /\ UNCHANGED allowed
     \/ UNCHANGED <<allowed, active>> /\ Done(r)
  /\ UNCHANGED <<file, sshd, keys, trouble>>

-----------------------------------------------------------------------------
(* authorized_keys.                                                        *)

\* AddAuthorizedKey appends, whatever else is going on.
AddAuthorizedKey(k) ==
  /\ k \notin keys
  /\ keys' = keys \cup {k}
  /\ Overlap(Requests)
  /\ UNCHANGED <<file, sshd, active, allowed, req>>

\* ListAuthorizedKeys, for a removal or for SetPasswordAuth's guard.
ListAuthorizedKeys(r) ==
  /\ At(r, "guard")
  /\ \/ req[r].op = "unkey" /\ req' = [req EXCEPT ![r] = [@ EXCEPT !.pc = "rewrite", !.list = keys]]
     \/ req[r].op = "password" /\ keys # {} /\ Go(r, "read")
     \/ req[r].op = "password" /\ keys = {} /\ Done(r)
  /\ UNCHANGED <<file, sshd, keys, active, allowed, trouble>>

\* RemoveAuthorizedKey writes back what it read, but one.
RemoveAuthorizedKey(r) ==
  /\ At(r, "rewrite")
  /\ \E k \in Keys : keys' = req[r].list \ {k}
  /\ Done(r)
  /\ UNCHANGED <<file, sshd, active, allowed, trouble>>

-----------------------------------------------------------------------------
(* sshd_config: SetPort and SetPasswordAuth.                               *)

\* replaceOrAppend.
Replace(r, c) ==
  IF req[r].op = "port" THEN [c EXCEPT !.port = req[r].port]
  ELSE [c EXCEPT !.password = req[r].on]

ReadConfig(r) ==
  /\ At(r, "read")
  /\ req' = [req EXCEPT ![r] = [@ EXCEPT !.pc = "previous", !.new = Replace(r, file),
                                            !.port = SSHPort, !.on = TRUE, !.ufw = FALSE]]
  /\ UNCHANGED <<file, sshd, keys, active, allowed, trouble>>

\* testAndReload reads the file once more.
ReadPrevious(r) ==
  /\ At(r, "previous")
  /\ req' = [req EXCEPT ![r] = [@ EXCEPT !.pc = "write", !.old = file]]
  /\ UNCHANGED <<file, sshd, keys, active, allowed, trouble>>

\* Mutant: the file is made from the defaults, not from what it said.
WriteConfig_Regenerates(r) ==
  /\ At(r, "write")
  /\ file' = IF req[r].op = "port" THEN [Defaults EXCEPT !.port = req[r].new.port]
             ELSE [Defaults EXCEPT !.password = req[r].new.password]
  /\ Go(r, "test")
  /\ UNCHANGED <<sshd, keys, active, allowed, trouble>>

WriteConfig(r) ==
  /\ At(r, "write")
  /\ file' = req[r].new
  /\ req' = [req EXCEPT ![r] = [@ EXCEPT !.pc = "test", !.new = Defaults]]
  /\ UNCHANGED <<sshd, keys, active, allowed, trouble>>

\* Mutant: a rejected file stays.
TestConfig_NoRollback(r) ==
  /\ At(r, "test")
  /\ Go(r, "reload") \/ Done(r)
  /\ UNCHANGED <<file, sshd, keys, active, allowed, trouble>>

\* sshd -t; a rejection puts the previous file back.
TestConfig(r) ==
  /\ At(r, "test")
  /\ \/ /\ req' = [req EXCEPT ![r] = [@ EXCEPT !.pc = "reload", !.old = Defaults]]
        /\ UNCHANGED file
     \/ file' = req[r].old /\ Done(r)
  /\ UNCHANGED <<sshd, keys, active, allowed, trouble>>

\* systemctl reload; a failure is reported and nothing is put back.
ReloadSSHD(r) ==
  /\ At(r, "reload")
  /\ \/ sshd' = file /\ UNCHANGED trouble
     \/ UNCHANGED sshd /\ Failure
  /\ Done(r)
  /\ UNCHANGED <<file, keys, active, allowed>>

\* An error that changes nothing, up to the first write of sshd_config, and a
\* crash after it.
GiveUp(r) ==
  /\ req[r] # NoReq
  /\ IF req[r].pc \in {"test", "reload"} THEN Failure ELSE UNCHANGED trouble
  /\ Done(r)
  /\ UNCHANGED <<file, sshd, keys, active, allowed>>

Handle(r) ==
  \/ DetectBackend(r) \/ ApplyRule(r)    \/ EnableUFW(r)
  \/ ListAuthorizedKeys(r) \/ RemoveAuthorizedKey(r)
  \/ ReadConfig(r)    \/ ReadPrevious(r) \/ WriteConfig(r) \/ TestConfig(r) \/ ReloadSSHD(r)
  \/ GiveUp(r)

Next ==
  \/ \E r \in Requests : Receive(r) \/ Handle(r)
  \/ \E k \in Keys : AddAuthorizedKey(k)

Spec == Init /\ [][Next]_vars

-----------------------------------------------------------------------------
(* Properties.                                                             *)

\* "not left to the operator to remember" (EnableUFW), "Never let enabling ufw
\* cut off the panel itself" (handlePortsEnableUFW): whoever interleaves, ufw
\* only becomes active with the panel's port and port 22 open.
EnabledWithPanelOpen ==
  [][~active /\ active' => {SSHPort, PanelPort} \subseteq allowed']_vars

\* "so a config change that succeeds never leaves the operator unable to
\* actually reach the new port" (handleSSHPortUpdate): sshd moves only to a port
\* ufw lets through.
NewPortReachable ==
  [][trouble = "none" /\ sshd'.port # sshd.port /\ active => sshd'.port \in allowed]_vars

\* SetPasswordAuth "refuses to turn password auth off unless the target user
\* already has at least one authorized key": still true when sshd is told, as
\* long as nothing overlaps and reloads work.  (The last key can be removed
\* afterwards: no handler asks the other way round.)
KeyBeforePasswordOff ==
  [][trouble = "none" /\ sshd.password /\ ~sshd'.password => keys # {}]_vars

\* "sshd -t rejected the change, rolled back": with nobody at work the file is
\* what sshd runs.
FileIsRunning ==
  trouble = "none" /\ (\A r \in Requests : req[r] = NoReq) => file = sshd

\* "a single directive is found-and-replaced ... leaving everything else in the
\* file exactly as it was" (package comment).  (Overlapped, the whole file that
\* was read is written back over somebody else's directive.)
OneDirective ==
  [][trouble # "overlapped" => \A r \in Requests :
       At(r, "write") /\ At(r, "test")' =>
         IF req[r].op = "port" THEN file'.password = file.password
         ELSE file'.port = file.port]_vars

\* "the port that warning is about (SSH) is guaranteed allowed before enable
\* ever runs" (EnableUFW): the port sshd really listens on.
EnabledWithSSHOpen == [][~active /\ active' => sshd.port \in allowed']_vars
=============================================================================
