---------------------------- MODULE Reach_proofs -----------------------------
(***************************************************************************)
(* Theorems about the ways into the box: SSH administration, the panel's   *)
(* own port, the terminal.                                                 *)
(***************************************************************************)
EXTENDS RemoteAccess, PanelPort, Terminal, TLAPS

(***************************************************************************)
(* SSH administration, for any set of ports and addresses and any number   *)
(* of requests at work on the firewall and in sshd_config.                 *)
(*                                                                         *)
(* SwitchInv says what the handler that enables ufw has allowed by then,   *)
(* whoever interleaves. The promises about sshd are made as long as        *)
(* nothing overlaps or fails: TurnInv says how far a request on its own    *)
(* has come, which port is open and which key is there when it reloads     *)
(* sshd.                                                                   *)
(***************************************************************************)

-----------------------------------------------------------------------------
(* Slots.                                                                  *)

Slots == [Requests -> InFlight \cup {NoReq}]

\* How the slot of a request that goes on changes, step by step.
Advance(r) ==
  LET q == req[r]
      n == req'[r]
  IN /\ n.op = q.op
     /\ \/ /\ DetectBackend(r)
           /\ q.pc = "detect" /\ n.pc = "firewall" /\ n.ufw = active /\ n.port = q.port
        \/ /\ ApplyRule(r)
           /\ q.pc = "firewall" /\ q.op = "port"
           /\ n.pc = "read" /\ n.ufw = q.ufw /\ n.port = q.port
        \/ /\ EnableUFW(r)
           /\ q.pc = "allow" /\ n.pc = "allow" /\ n.ufw = q.ufw
           /\ allowed \cup q.todo \subseteq allowed' \cup n.todo
        \/ /\ ListAuthorizedKeys(r)
           /\ q.pc = "guard" /\ q.op = "unkey" /\ n.pc = "rewrite" /\ n.ufw = q.ufw
        \/ /\ ListAuthorizedKeys(r)
           /\ q.pc = "guard" /\ q.op = "password" /\ keys # {}
           /\ n.pc = "read" /\ n.ufw = q.ufw
        \/ /\ ReadConfig(r)
           /\ q.pc = "read" /\ n.pc = "previous" /\ n.new = Replace(r, file) /\ ~n.ufw
        \/ /\ ReadPrevious(r)
           /\ q.pc = "previous" /\ n.pc = "write" /\ n.new = q.new /\ n.old = file /\ n.ufw = q.ufw
        \/ /\ WriteConfig(r)
           /\ q.pc = "write" /\ n.pc = "test" /\ n.old = q.old /\ n.ufw = q.ufw
        \/ /\ TestConfig(r)
           /\ q.pc = "test" /\ n.pc = "reload" /\ n.ufw = q.ufw /\ file' = file

\* The steps a request can end with.
Finish(r) ==
  /\ req'[r] = NoReq
  /\ \/ ApplyRule(r) \/ EnableUFW(r) \/ ListAuthorizedKeys(r) \/ RemoveAuthorizedKey(r)
     \/ TestConfig(r) /\ file' = req[r].old
     \/ ReloadSSHD(r) \/ GiveUp(r)

LEMMA SlotFields ==
  ASSUME TypeOK, NEW r \in Requests, req[r] # NoReq
  PROVE  /\ req[r] \in InFlight
         /\ req[r].op \in Ops /\ req[r].port \in Ports /\ req[r].on \in BOOLEAN
         /\ req[r].list \subseteq Keys /\ req[r].todo \subseteq Ports
         /\ req[r].new \in Config /\ req[r].old \in Config
BY DEF TypeOK, InFlight

LEMMA SSHPortIsPort == SSHPort \in Ports /\ PanelPort \in Ports /\ Defaults \in Config
BY PortsArePorts DEF Defaults, Config

LEMMA ReplaceType ==
  ASSUME TypeOK, NEW r \in Requests, req[r] # NoReq, NEW c \in Config
  PROVE  /\ Replace(r, c) \in Config
         /\ req[r].op = "port" => Replace(r, c).port = req[r].port /\ Replace(r, c).password = c.password
         /\ req[r].op # "port" => Replace(r, c).port = c.port /\ Replace(r, c).password = req[r].on
BY SlotFields DEF Replace, Config

\* A step of a handler: its own slot only, and in one of these ways.
LEMMA HandleSlots ==
  ASSUME TypeOK, NEW r \in Requests, Handle(r)
  PROVE  /\ req[r] # NoReq /\ req' \in Slots
         /\ \A s \in Requests \ {r} : req'[s] = req[s]
         /\ Finish(r) \/ (req'[r] # NoReq /\ Advance(r))
<1>1. req[r] # NoReq /\ req[r] \in InFlight /\ NoReq \notin InFlight
  BY SlotFields, NoReqIsNoReq
  DEF Handle, DetectBackend, ApplyRule, EnableUFW, ListAuthorizedKeys, RemoveAuthorizedKey,
      ReadConfig, ReadPrevious, WriteConfig, TestConfig, ReloadSSHD, GiveUp, At
<1>2. /\ req \in Slots /\ file \in Config /\ keys \subseteq Keys /\ active \in BOOLEAN
      /\ req[r].todo \subseteq Ports
  BY <1>1, SlotFields DEF TypeOK, Slots
<1>3. ASSUME Done(r)
      PROVE  req' \in Slots /\ (\A s \in Requests \ {r} : req'[s] = req[s]) /\ req'[r] = NoReq
  BY <1>2, <1>3 DEF Done, Slots
<1>4. ASSUME NEW q \in InFlight, req' = [req EXCEPT ![r] = q]
      PROVE  req' \in Slots /\ (\A s \in Requests \ {r} : req'[s] = req[s]) /\ req'[r] = q
  BY <1>2, <1>4 DEF Slots
<1>5. CASE DetectBackend(r)
  <2> DEFINE q == [req[r] EXCEPT !.pc = "firewall", !.ufw = active]
  <2>1. /\ q \in InFlight /\ q.op = req[r].op /\ q.pc = "firewall" /\ q.ufw = active
        /\ q.port = req[r].port
    BY <1>1, <1>2 DEF InFlight
  <2>2. req' = [req EXCEPT ![r] = q] /\ req[r].pc = "detect"
    BY <1>5 DEF DetectBackend, At
  <2> HIDE DEF q
  <2> QED BY <1>1, <1>4, <1>5, <2>1, <2>2 DEF Advance, Finish
<1>6. CASE ApplyRule(r)
  <2> DEFINE q == [req[r] EXCEPT !.pc = "read"]
  <2>1. /\ q \in InFlight /\ q.op = req[r].op /\ q.pc = "read" /\ q.ufw = req[r].ufw
        /\ q.port = req[r].port
    BY <1>1 DEF InFlight
  <2>2. /\ req[r].pc = "firewall"
        /\ \/ Done(r)
           \/ req[r].op = "port" /\ req' = [req EXCEPT ![r] = q]
    BY <1>6 DEF ApplyRule, At, Go
  <2> HIDE DEF q
  <2> QED BY <1>1, <1>3, <1>4, <1>6, <2>1, <2>2 DEF Advance, Finish
<1>7. CASE EnableUFW(r)
  <2>1. CASE Done(r)
    BY <1>1, <1>3, <1>7, <2>1 DEF Finish
  <2>2. CASE ~Done(r)
    <3>1. PICK p \in req[r].todo :
            /\ allowed' = allowed \cup {p}
            /\ req' = [req EXCEPT ![r].todo = @ \ {p}]
      BY <1>7, <2>2 DEF EnableUFW
    <3> DEFINE q == [req[r] EXCEPT !.todo = @ \ {p}]
    <3>2. /\ q \in InFlight /\ q.op = req[r].op /\ q.pc = req[r].pc /\ q.ufw = req[r].ufw
          /\ q.todo = req[r].todo \ {p}
      BY <1>1, <1>2 DEF InFlight
    <3>3. req' = [req EXCEPT ![r] = q] /\ req[r].pc = "allow"
      BY <1>1, <1>7, <3>1 DEF EnableUFW, At
    <3> HIDE DEF q
    <3> QED BY <1>1, <1>4, <1>7, <3>1, <3>2, <3>3 DEF Advance, Finish
  <2> QED BY <2>1, <2>2
<1>8. CASE ListAuthorizedKeys(r)
  <2> DEFINE q == [req[r] EXCEPT !.pc = "rewrite", !.list = keys]
             p == [req[r] EXCEPT !.pc = "read"]
  <2>1. /\ q \in InFlight /\ q.op = req[r].op /\ q.pc = "rewrite" /\ q.ufw = req[r].ufw
        /\ p \in InFlight /\ p.op = req[r].op /\ p.pc = "read" /\ p.ufw = req[r].ufw
    BY <1>1, <1>2 DEF InFlight
  <2>2. /\ req[r].pc = "guard"
        /\ \/ Done(r)
           \/ req[r].op = "unkey" /\ req' = [req EXCEPT ![r] = q]
           \/ req[r].op = "password" /\ keys # {} /\ req' = [req EXCEPT ![r] = p]
    BY <1>8 DEF ListAuthorizedKeys, At, Go
  <2> HIDE DEF q, p
  <2> QED BY <1>1, <1>3, <1>4, <1>8, <2>1, <2>2 DEF Advance, Finish
<1>9. CASE ReadConfig(r)
  <2> DEFINE q == [req[r] EXCEPT !.pc = "previous", !.new = Replace(r, file),
                                 !.port = SSHPort, !.on = TRUE, !.ufw = FALSE]
  <2>1. /\ q \in InFlight /\ q.op = req[r].op /\ q.pc = "previous" /\ ~q.ufw
        /\ q.new = Replace(r, file)
    BY <1>1, <1>2, ReplaceType, SSHPortIsPort DEF InFlight
  <2>2. req' = [req EXCEPT ![r] = q] /\ req[r].pc = "read"
    BY <1>9 DEF ReadConfig, At
  <2> HIDE DEF q
  <2> QED BY <1>1, <1>4, <1>9, <2>1, <2>2 DEF Advance, Finish
<1>10. CASE ReadPrevious(r)
  <2> DEFINE q == [req[r] EXCEPT !.pc = "write", !.old = file]
  <2>1. /\ q \in InFlight /\ q.op = req[r].op /\ q.pc = "write" /\ q.ufw = req[r].ufw
        /\ q.new = req[r].new /\ q.old = file
    BY <1>1, <1>2 DEF InFlight
  <2>2. req' = [req EXCEPT ![r] = q] /\ req[r].pc = "previous"
    BY <1>10 DEF ReadPrevious, At
  <2> HIDE DEF q
  <2> QED BY <1>1, <1>4, <1>10, <2>1, <2>2 DEF Advance, Finish
<1>11. CASE WriteConfig(r)
  <2> DEFINE q == [req[r] EXCEPT !.pc = "test", !.new = Defaults]
  <2>1. /\ q \in InFlight /\ q.op = req[r].op /\ q.pc = "test" /\ q.ufw = req[r].ufw
        /\ q.old = req[r].old
    BY <1>1, SSHPortIsPort DEF InFlight
  <2>2. req' = [req EXCEPT ![r] = q] /\ req[r].pc = "write"
    BY <1>11 DEF WriteConfig, At
  <2> HIDE DEF q
  <2> QED BY <1>1, <1>4, <1>11, <2>1, <2>2 DEF Advance, Finish
<1>12. CASE TestConfig(r)
  <2> DEFINE q == [req[r] EXCEPT !.pc = "reload", !.old = Defaults]
  <2>1. q \in InFlight /\ q.op = req[r].op /\ q.pc = "reload" /\ q.ufw = req[r].ufw
    BY <1>1, SSHPortIsPort DEF InFlight
  <2>2. /\ req[r].pc = "test"
        /\ \/ Done(r) /\ file' = req[r].old
           \/ req' = [req EXCEPT ![r] = q] /\ file' = file
    BY <1>12 DEF TestConfig, At
  <2> HIDE DEF q
  <2> QED BY <1>1, <1>3, <1>4, <1>12, <2>1, <2>2 DEF Advance, Finish
<1>13. CASE RemoveAuthorizedKey(r) \/ ReloadSSHD(r) \/ GiveUp(r)
  BY <1>1, <1>3, <1>13 DEF RemoveAuthorizedKey, ReloadSSHD, GiveUp, Finish
<1> QED
  BY <1>1, <1>5, <1>6, <1>7, <1>8, <1>9, <1>10, <1>11, <1>12, <1>13 DEF Handle

\* The request a panel starts on.
LEMMA ReceiveSlots ==
  ASSUME TypeOK, NEW r \in Requests, Receive(r)
  PROVE  /\ req[r] = NoReq /\ req' \in Slots
         /\ \A s \in Requests \ {r} : req'[s] = req[s]
         /\ req'[r] # NoReq
         /\ LET n == req'[r] IN
              /\ n.pc = FirstStep(n.op, n.on) /\ n.op \in Ops /\ n.on \in BOOLEAN /\ ~n.ufw
              /\ n.op = "enable" => n.todo = {SSHPort, PanelPort}
<1>1. PICK op \in Ops, p \in Ports, on \in BOOLEAN :
        req' = [req EXCEPT ![r] =
            [pc |-> FirstStep(op, on), op |-> op, port |-> p, on |-> on, ufw |-> FALSE,
             list |-> {}, new |-> Defaults, old |-> Defaults,
             todo |-> IF op = "enable" THEN {SSHPort, PanelPort} ELSE {}]]
  BY DEF Receive
<1> DEFINE n == [pc |-> FirstStep(op, on), op |-> op, port |-> p, on |-> on, ufw |-> FALSE,
                 list |-> {}, new |-> Defaults, old |-> Defaults,
                 todo |-> IF op = "enable" THEN {SSHPort, PanelPort} ELSE {}]
<1>2. FirstStep(op, on) \in {"detect", "read", "guard", "allow"}
  BY DEF FirstStep, Ops
<1>3. n \in InFlight
  BY <1>2, SSHPortIsPort DEF InFlight
<1>4. /\ n.pc = FirstStep(n.op, n.on) /\ n.op \in Ops /\ n.on \in BOOLEAN /\ ~n.ufw
      /\ n.op = "enable" => n.todo = {SSHPort, PanelPort}
  OBVIOUS
<1>5. req' = [req EXCEPT ![r] = n] /\ req[r] = NoReq
  BY <1>1 DEF Receive
<1> HIDE DEF n
<1> QED
  BY <1>3, <1>4, <1>5, NoReqIsNoReq DEF TypeOK, Slots

LEMMA RemoteTypes == TypeOK /\ [Next]_vars => TypeOK'
<1> SUFFICES ASSUME TypeOK, [Next]_vars PROVE TypeOK'
  OBVIOUS
<1>1. req' \in [Requests -> InFlight \cup {NoReq}]
  BY HandleSlots, ReceiveSlots DEF Next, AddAuthorizedKey, vars, Slots, TypeOK
<1>2. ASSUME NEW r \in Requests, Handle(r)
      PROVE  /\ file' \in Config /\ sshd' \in Config /\ keys' \subseteq Keys /\ active' \in BOOLEAN
             /\ allowed' \subseteq Ports /\ trouble' \in {"none", "failed", "overlapped"}
  <2>1. req[r] # NoReq
    BY <1>2, HandleSlots
  <2>2. /\ req[r].port \in Ports /\ req[r].list \subseteq Keys /\ req[r].todo \subseteq Ports
        /\ req[r].new \in Config /\ req[r].old \in Config
    BY <2>1, SlotFields
  <2> QED
    BY <1>2, <2>2
    DEF Handle, DetectBackend, ApplyRule, EnableUFW, ListAuthorizedKeys, RemoveAuthorizedKey,
        ReadConfig, ReadPrevious, WriteConfig, TestConfig, ReloadSSHD, GiveUp, Failure, TypeOK
<1>3. ASSUME NEW r \in Requests, Receive(r)
      PROVE  /\ file' \in Config /\ sshd' \in Config /\ keys' \subseteq Keys /\ active' \in BOOLEAN
             /\ allowed' \subseteq Ports /\ trouble' \in {"none", "failed", "overlapped"}
  BY <1>3 DEF Receive, Overlap, TypeOK
<1>4. ASSUME NEW k \in Keys, AddAuthorizedKey(k)
      PROVE  /\ file' \in Config /\ sshd' \in Config /\ keys' \subseteq Keys /\ active' \in BOOLEAN
             /\ allowed' \subseteq Ports /\ trouble' \in {"none", "failed", "overlapped"}
  BY <1>4 DEF AddAuthorizedKey, Overlap, TypeOK
<1> QED
  BY <1>1, <1>2, <1>3, <1>4 DEF Next, vars, TypeOK

-----------------------------------------------------------------------------
(* Turning the firewall on, whatever interleaves.                          *)

\* Nobody who looked while ufw was inactive will close a port in it, and whoever is
\* about to turn it on has allowed the ports he is done with.
BeforeTheSwitch(q) == ~q.ufw /\ (q.pc = "allow" => {SSHPort, PanelPort} \subseteq allowed \cup q.todo)

SwitchInv ==
  /\ TypeOK
  /\ ~active => \A r \in Requests : req[r] # NoReq => BeforeTheSwitch(req[r])

LEMMA SwitchStart == Init => SwitchInv
BY SSHPortIsPort DEF Init, SwitchInv, TypeOK

LEMMA SwitchNext == SwitchInv /\ [Next]_vars => SwitchInv'
<1> SUFFICES ASSUME SwitchInv, [Next]_vars, ~active', NEW s \in Requests, req'[s] # NoReq
             PROVE  BeforeTheSwitch(req[s])'
  BY RemoteTypes DEF SwitchInv
<1>1. TypeOK
  BY DEF SwitchInv
<1>2. ~active
  BY DEF Next, Receive, AddAuthorizedKey, Handle, DetectBackend, ApplyRule, EnableUFW,
         ListAuthorizedKeys, RemoveAuthorizedKey, ReadConfig, ReadPrevious, WriteConfig,
         TestConfig, ReloadSSHD, GiveUp, vars
<1>3. req[s] # NoReq => BeforeTheSwitch(req[s])
  BY <1>2 DEF SwitchInv
<1>4. CASE UNCHANGED vars \/ \E k \in Keys : AddAuthorizedKey(k)
  BY <1>3, <1>4 DEF AddAuthorizedKey, vars, BeforeTheSwitch
<1>5. ASSUME NEW r \in Requests, Receive(r) PROVE BeforeTheSwitch(req[s])'
  <2>1. allowed' = allowed
    BY <1>5 DEF Receive
  <2>2. CASE s = r
    <3>1. ~req'[s].ufw /\ (req'[s].pc = "allow" => req'[s].todo = {SSHPort, PanelPort})
      BY <1>1, <1>5, <2>2, ReceiveSlots DEF FirstStep, Ops
    <3> QED BY <3>1 DEF BeforeTheSwitch
  <2>3. CASE s # r
    BY <1>1, <1>3, <1>5, <2>1, <2>3, ReceiveSlots DEF BeforeTheSwitch
  <2> QED BY <2>2, <2>3
<1>6. ASSUME NEW r \in Requests, Handle(r) PROVE BeforeTheSwitch(req[s])'
  <2>1. req[r] # NoReq /\ ~req[r].ufw
    BY <1>1, <1>2, <1>6, HandleSlots DEF SwitchInv, BeforeTheSwitch
  <2>2. allowed \subseteq allowed'
    BY <1>6, <2>1
    DEF Handle, DetectBackend, ApplyRule, EnableUFW, ListAuthorizedKeys, RemoveAuthorizedKey,
        ReadConfig, ReadPrevious, WriteConfig, TestConfig, ReloadSSHD, GiveUp
  <2>3. CASE s = r
    BY <1>1, <1>2, <1>3, <1>6, <2>1, <2>3, HandleSlots DEF Advance, Finish, BeforeTheSwitch
  <2>4. CASE s # r
    BY <1>1, <1>3, <1>6, <2>2, <2>4, HandleSlots DEF BeforeTheSwitch
  <2> QED BY <2>3, <2>4
<1> QED BY <1>4, <1>5, <1>6 DEF Next

\* Type correctness of the way into the box.
THEOREM RemoteTypeCorrect == Spec => []TypeOK
BY SwitchStart, RemoteTypes, PTL DEF Spec, SwitchInv

\* Whoever interleaves, ufw only becomes active with port 22 and the panel's port open.
THEOREM AlwaysEnabledWithPanelOpen == Spec => EnabledWithPanelOpen
<1>1. SwitchInv /\ [Next]_vars => (~active /\ active' => {SSHPort, PanelPort} \subseteq allowed')
  <2> SUFFICES ASSUME SwitchInv, [Next]_vars, ~active, active'
               PROVE  {SSHPort, PanelPort} \subseteq allowed'
    OBVIOUS
  <2>1. PICK r \in Requests : /\ At(r, "allow") /\ req[r].todo = {} /\ allowed' = allowed
    BY DEF Next, Receive, AddAuthorizedKey, Handle, DetectBackend, ApplyRule, EnableUFW,
           ListAuthorizedKeys, RemoveAuthorizedKey, ReadConfig, ReadPrevious, WriteConfig,
           TestConfig, ReloadSSHD, GiveUp, vars
  <2> QED BY <2>1 DEF SwitchInv, BeforeTheSwitch, At
<1> QED BY <1>1, SwitchStart, SwitchNext, PTL DEF Spec, EnabledWithPanelOpen

-----------------------------------------------------------------------------
(* One request after another.                                              *)

OthersIdle(r) == \A s \in Requests \ {r} : req[s] = NoReq

\* Only the two handlers of sshd_config come to its steps.
Route(q) ==
  /\ q.pc \in {"detect", "firewall"} => q.op \in {"port", "open", "close"}
  /\ q.pc \in {"read", "previous", "write", "test", "reload"} => q.op \in {"port", "password"}

\* What is about to be written differs from the file in the directive asked for only.
OwnDirective(q) ==
  q.pc \in {"previous", "write"} =>
    IF q.op = "port" THEN q.new.password = file.password ELSE q.new.port = file.port

\* How far a request on its own has come, with nothing gone wrong before: a new port
\* waits behind an open firewall, a file without passwords behind a key, and until
\* sshd -t accepts the file there is the running one to go back to.
SoFar(q) ==
  /\ q.pc \notin {"test", "reload"} => file = sshd
  /\ q.pc \in {"write", "test"} => q.old = sshd
  /\ q.pc = "firewall" => q.ufw = active
  /\ q.op = "port" =>
       /\ q.pc = "read" /\ active => q.port \in allowed
       /\ q.pc \in {"previous", "write"} /\ active => q.new.port \in allowed
       /\ q.pc \in {"test", "reload"} =>
            file.password = sshd.password /\ (active => file.port \in allowed)
  /\ q.op = "password" =>
       /\ q.pc = "read" /\ ~q.on => keys # {}
       /\ q.pc \in {"previous", "write"} /\ ~q.new.password => keys # {}
       /\ q.pc \in {"test", "reload"} =>
            file.port = sshd.port /\ (~file.password => keys # {})

TurnInv ==
  /\ TypeOK
  /\ \A r \in Requests : req[r] # NoReq => Route(req[r])
  /\ trouble # "overlapped" =>
       \A r \in Requests : req[r] # NoReq => OthersIdle(r) /\ OwnDirective(req[r])
  /\ trouble = "none" => \A r \in Requests : req[r] # NoReq => SoFar(req[r])
  /\ FileIsRunning

LEMMA TurnStart == Init => TurnInv
BY SSHPortIsPort DEF Init, TurnInv, TypeOK, FileIsRunning

\* The directive a request does not ask for.
LEMMA DirectiveNext ==
  ASSUME TypeOK, NEW r \in Requests, Handle(r), req'[r] # NoReq,
         Route(req[r]), OwnDirective(req[r])
  PROVE  Route(req'[r]) /\ OwnDirective(req[r])'
<1>1. req[r] # NoReq /\ Advance(r)
  BY HandleSlots DEF Finish
<1>2. /\ req[r].op # "port" => Replace(r, file).port = file.port
      /\ req[r].op = "port" => Replace(r, file).password = file.password
  BY <1>1, ReplaceType DEF TypeOK
<1>3. Route(req'[r])
  BY <1>1 DEF Advance, Route
<1>4. OwnDirective(req[r])'
  <2>1. CASE ReadConfig(r) \/ ReadPrevious(r)
    BY <1>1, <1>2, <2>1 DEF Advance, OwnDirective, ReadConfig, ReadPrevious, At
  <2>2. CASE ~ReadConfig(r) /\ ~ReadPrevious(r)
    BY <1>1, <2>2 DEF Advance, OwnDirective
  <2> QED BY <2>1, <2>2
<1> QED BY <1>3, <1>4

\* A request on its own keeps its reasons.
LEMMA SoFarNext ==
  ASSUME TypeOK, NEW r \in Requests, Handle(r), req'[r] # NoReq,
         Route(req[r]), OwnDirective(req[r]), SoFar(req[r])
  PROVE  SoFar(req[r])'
<1>1. req[r] # NoReq /\ Advance(r)
  BY HandleSlots DEF Finish
<1>2. /\ Replace(r, file) \in Config
      /\ req[r].op # "port" => /\ Replace(r, file).port = file.port
                               /\ Replace(r, file).password = req[r].on
      /\ req[r].op = "port" => /\ Replace(r, file).password = file.password
                               /\ Replace(r, file).port = req[r].port
  BY <1>1, ReplaceType DEF TypeOK
<1>3. ~Done(r)
  BY DEF Done, TypeOK
<1>4. CASE DetectBackend(r)
  BY <1>1, <1>4 DEF DetectBackend, At, Advance, SoFar
<1>5. CASE ApplyRule(r)
  BY <1>1, <1>3, <1>5 DEF ApplyRule, At, Advance, SoFar
<1>6. CASE EnableUFW(r)
  BY <1>1, <1>3, <1>6 DEF EnableUFW, At, Advance, SoFar
<1>7. CASE ListAuthorizedKeys(r)
  BY <1>1, <1>3, <1>7 DEF ListAuthorizedKeys, At, Advance, SoFar
<1>8. CASE ReadConfig(r)
  BY <1>1, <1>2, <1>8 DEF ReadConfig, At, Advance, SoFar, Route
<1>9. CASE ReadPrevious(r)
  BY <1>1, <1>9 DEF ReadPrevious, At, Advance, SoFar
<1>10. CASE WriteConfig(r)
  BY <1>1, <1>10 DEF WriteConfig, At, Advance, SoFar, OwnDirective
<1>11. CASE TestConfig(r)
  BY <1>1, <1>3, <1>11 DEF TestConfig, At, Advance, SoFar
<1> QED
  BY <1>3, <1>4, <1>5, <1>6, <1>7, <1>8, <1>9, <1>10, <1>11
  DEF Handle, RemoveAuthorizedKey, ReloadSSHD, GiveUp

\* When the last request ends without trouble, the file is what sshd runs.
LEMMA DoneRunning ==
  ASSUME TypeOK, NEW r \in Requests, Handle(r), req'[r] = NoReq, SoFar(req[r]), trouble' = "none"
  PROVE  file' = sshd'
<1>1. Finish(r)
  BY HandleSlots
<1>2. CASE ApplyRule(r) \/ EnableUFW(r) \/ ListAuthorizedKeys(r) \/ RemoveAuthorizedKey(r)
  BY <1>2 DEF ApplyRule, EnableUFW, ListAuthorizedKeys, RemoveAuthorizedKey, At, SoFar
<1>3. CASE TestConfig(r) /\ file' = req[r].old
  BY <1>3 DEF TestConfig, At, SoFar
<1>4. CASE ReloadSSHD(r)
  BY <1>4 DEF ReloadSSHD, Failure
<1>5. CASE GiveUp(r)
  BY <1>5 DEF GiveUp, Failure, SoFar
<1> QED BY <1>1, <1>2, <1>3, <1>4, <1>5 DEF Finish

LEMMA TurnNext == TurnInv /\ [Next]_vars => TurnInv'
<1> SUFFICES ASSUME TurnInv, [Next]_vars PROVE TurnInv'
  OBVIOUS
<1>1. TypeOK /\ TypeOK'
  BY RemoteTypes DEF TurnInv
<1>2. /\ trouble' # "overlapped" => trouble # "overlapped"
      /\ trouble' = "none" => trouble = "none"
  BY DEF Next, Receive, AddAuthorizedKey, Handle, DetectBackend, ApplyRule, EnableUFW,
         ListAuthorizedKeys, RemoveAuthorizedKey, ReadConfig, ReadPrevious, WriteConfig,
         TestConfig, ReloadSSHD, GiveUp, Overlap, Failure, vars
<1> DEFINE Ok(r) ==
             /\ Route(req[r])
             /\ trouble # "overlapped" => OthersIdle(r) /\ OwnDirective(req[r])
             /\ trouble = "none" => SoFar(req[r])
           NobodyNext == (\A r \in Requests : req'[r] = NoReq) /\ trouble' = "none" => file' = sshd'
<1>3. \A r \in Requests : req[r] # NoReq => Ok(r)
  BY DEF TurnInv
<1>4. (\A r \in Requests : req'[r] # NoReq => Ok(r)') /\ NobodyNext => TurnInv'
  BY <1>1 DEF TurnInv, FileIsRunning
<1>5. CASE UNCHANGED vars
  BY <1>5 DEF TurnInv, vars, FileIsRunning, TypeOK, Route, OthersIdle, OwnDirective, SoFar
<1>6. ASSUME NEW k \in Keys, AddAuthorizedKey(k)
      PROVE  (\A r \in Requests : req'[r] # NoReq => Ok(r)') /\ NobodyNext
  <2>1. /\ req' = req /\ file' = file /\ sshd' = sshd
        /\ trouble' = IF \E q \in Requests : req[q] # NoReq THEN "overlapped" ELSE trouble
    BY <1>6 DEF AddAuthorizedKey, Overlap
  <2>2. \A r \in Requests : req'[r] # NoReq => Ok(r)'
    BY <1>3, <2>1
  <2> QED
    BY <1>2, <2>1, <2>2 DEF TurnInv, FileIsRunning
<1>7. ASSUME NEW r \in Requests, Receive(r)
      PROVE  (\A q \in Requests : req'[q] # NoReq => Ok(q)') /\ NobodyNext
  <2>1. /\ req[r] = NoReq /\ req'[r] # NoReq
        /\ \A s \in Requests \ {r} : req'[s] = req[s]
        /\ req'[r].pc = FirstStep(req'[r].op, req'[r].on) /\ req'[r].op \in Ops
        /\ req'[r].on \in BOOLEAN
    BY <1>1, <1>7, ReceiveSlots
  <2>2. /\ file' = file /\ sshd' = sshd
        /\ trouble' = IF \E q \in Requests \ {r} : req[q] # NoReq THEN "overlapped" ELSE trouble
    BY <1>7 DEF Receive, Overlap
  <2>3. /\ Route(req'[r]) /\ OwnDirective(req[r])'
        /\ req'[r].pc \in {"detect", "read", "guard", "allow"}
        /\ req'[r].pc = "read" => req'[r].op = "password" /\ req'[r].on
    BY <2>1 DEF FirstStep, Ops, Route, OwnDirective
  <2>4. trouble' = "none" => file' = sshd'
    BY <2>1, <2>2 DEF TurnInv, FileIsRunning
  <2>5. trouble' = "none" => SoFar(req[r])'
    BY <2>3, <2>4 DEF SoFar
  <2>6. trouble' # "overlapped" => \A s \in Requests \ {r} : req'[s] = NoReq
    BY <2>1, <2>2
  <2>7. ASSUME NEW q \in Requests, req'[q] # NoReq PROVE Ok(q)'
    <3>1. CASE q = r
      BY <2>3, <2>5, <2>6, <3>1 DEF OthersIdle
    <3>2. CASE q # r
      BY <1>2, <1>3, <2>1, <2>2, <2>6, <2>7, <3>2
    <3> QED BY <3>1, <3>2
  <2> QED BY <2>1, <2>7
<1>8. ASSUME NEW r \in Requests, Handle(r)
      PROVE  (\A q \in Requests : req'[q] # NoReq => Ok(q)') /\ NobodyNext
  <2>1. req[r] # NoReq /\ \A s \in Requests \ {r} : req'[s] = req[s]
    BY <1>1, <1>8, HandleSlots
  <2>2. Ok(r)
    BY <1>3, <2>1
  <2>3. req'[r] # NoReq => Route(req'[r])
    <3>1. req'[r] # NoReq => Advance(r)
      BY <1>1, <1>8, HandleSlots DEF Finish
    <3> QED BY <2>2, <3>1 DEF Advance, Route
  <2>4. trouble' # "overlapped" /\ req'[r] # NoReq => OwnDirective(req[r])'
    BY <1>1, <1>2, <1>8, <2>2, DirectiveNext
  <2>5. trouble' = "none" /\ req'[r] # NoReq => SoFar(req[r])'
    BY <1>1, <1>2, <1>8, <2>2, SoFarNext
  <2>6. trouble' = "none" /\ req'[r] = NoReq => file' = sshd'
    BY <1>1, <1>2, <1>8, <2>2, DoneRunning
  <2>7. ASSUME NEW q \in Requests, req'[q] # NoReq PROVE Ok(q)'
    <3>1. CASE q = r
      BY <1>2, <2>1, <2>2, <2>3, <2>4, <2>5, <2>7, <3>1 DEF OthersIdle
    <3>2. CASE q # r
      <4>1. trouble = "overlapped" /\ trouble' = "overlapped" /\ Route(req[q])
        BY <1>2, <1>3, <2>1, <2>2, <2>7, <3>2 DEF OthersIdle
      <4> QED BY <2>1, <3>2, <4>1
    <3> QED BY <3>1, <3>2
  <2> QED BY <2>6, <2>7
<1> QED
  BY <1>4, <1>5, <1>6, <1>7, <1>8 DEF Next

\* With nobody at work and no trouble so far, the file is what sshd runs.
THEOREM FileAlwaysRunning == Spec => []FileIsRunning
<1>1. TurnInv => FileIsRunning
  BY DEF TurnInv
<1> QED BY <1>1, TurnStart, TurnNext, PTL DEF Spec

\* Nothing but a reload changes what sshd runs.
LEMMA OnlyReload ==
  ASSUME [Next]_vars, sshd' # sshd
  PROVE  \E r \in Requests : ReloadSSHD(r) /\ sshd' = file
BY DEF Next, Receive, AddAuthorizedKey, Handle, DetectBackend, ApplyRule, EnableUFW,
       ListAuthorizedKeys, RemoveAuthorizedKey, ReadConfig, ReadPrevious, WriteConfig,
       TestConfig, ReloadSSHD, GiveUp, vars

\* sshd moves only to a port the firewall lets through.
THEOREM NewPortAlwaysReachable == Spec => NewPortReachable
<1>1. TurnInv /\ [Next]_vars =>
        (trouble = "none" /\ sshd'.port # sshd.port /\ active => sshd'.port \in allowed)
  <2> SUFFICES ASSUME TurnInv, [Next]_vars, trouble = "none", sshd'.port # sshd.port, active
               PROVE  sshd'.port \in allowed
    OBVIOUS
  <2>1. PICK r \in Requests : ReloadSSHD(r) /\ sshd' = file
    BY OnlyReload
  <2>2. req[r] # NoReq /\ req[r].pc = "reload"
    BY <2>1 DEF ReloadSSHD, At
  <2>3. Route(req[r]) /\ SoFar(req[r])
    BY <2>2 DEF TurnInv
  <2> QED BY <2>1, <2>2, <2>3 DEF Route, SoFar
<1> QED BY <1>1, TurnStart, TurnNext, PTL DEF Spec, NewPortReachable

\* sshd stops taking passwords only while root has a key.
THEOREM KeyAlwaysBeforePasswordOff == Spec => KeyBeforePasswordOff
<1>1. TurnInv /\ [Next]_vars =>
        (trouble = "none" /\ sshd.password /\ ~sshd'.password => keys # {})
  <2> SUFFICES ASSUME TurnInv, [Next]_vars, trouble = "none", sshd.password, ~sshd'.password
               PROVE  keys # {}
    OBVIOUS
  <2>1. PICK r \in Requests : ReloadSSHD(r) /\ sshd' = file
    BY OnlyReload
  <2>2. req[r] # NoReq /\ req[r].pc = "reload"
    BY <2>1 DEF ReloadSSHD, At
  <2>3. Route(req[r]) /\ SoFar(req[r])
    BY <2>2 DEF TurnInv
  <2> QED BY <2>1, <2>2, <2>3 DEF Route, SoFar
<1> QED BY <1>1, TurnStart, TurnNext, PTL DEF Spec, KeyBeforePasswordOff

\* As long as requests come one after another, a write changes the directive asked for only.
THEOREM AlwaysOneDirective == Spec => OneDirective
<1>1. TurnInv /\ [Next]_vars =>
        (trouble # "overlapped" => \A r \in Requests :
           At(r, "write") /\ At(r, "test")' =>
             IF req[r].op = "port" THEN file'.password = file.password
             ELSE file'.port = file.port)
  <2> SUFFICES ASSUME TurnInv, [Next]_vars, trouble # "overlapped", NEW r \in Requests,
                      At(r, "write"), At(r, "test")'
               PROVE  IF req[r].op = "port" THEN file'.password = file.password
                      ELSE file'.port = file.port
    OBVIOUS
  <2>1. TypeOK /\ OthersIdle(r) /\ OwnDirective(req[r])
    BY DEF TurnInv, At
  <2>2. Handle(r)
    <3>1. ASSUME NEW s \in Requests, Receive(s) PROVE FALSE
      BY <2>1, <3>1, ReceiveSlots DEF At
    <3>2. ASSUME NEW s \in Requests, Handle(s) PROVE s = r
      BY <2>1, <3>2, HandleSlots DEF OthersIdle
    <3> QED BY <3>1, <3>2 DEF Next, AddAuthorizedKey, At, vars
  <2>3. WriteConfig(r)
    <3>1. Advance(r)
      BY <2>1, <2>2, HandleSlots DEF At, Finish
    <3> QED BY <3>1 DEF Advance, At
  <2> QED BY <2>1, <2>3 DEF WriteConfig, OwnDirective, At
<1> QED BY <1>1, TurnStart, TurnNext, PTL DEF Spec, OneDirective

(***************************************************************************)
(* Theorems about the panel's own way in, for any number of ports,         *)
(* addresses and changes of port at work.                                  *)
(*                                                                         *)
(* SaverGetsIn speaks of the port the process listens on, but a port gets  *)
(* there through a request, systemd's file and what systemd has loaded of  *)
(* it, and back again when a change is undone: WayOpen asks for an open    *)
(* firewall of all of them.  PortTakesEffect speaks of the time when no    *)
(* change is at work: Progress says how far a change on its own has come.  *)
(***************************************************************************)

\* The firewall lets p through, or somebody closed it.
Opened(p) == ufw => p \in through \cup closed

\* Every port the process may find itself on is open, or was closed by hand.
WayOpen ==
  ~hasty =>
    /\ Opened(unit) /\ Opened(loaded)
    /\ listening # NoPort => Opened(listening)
    /\ \A c \in Changes : change[c] # NoChange =>
         /\ change[c].pc = "open" /\ ufw => change[c].fw
         /\ change[c].pc \in {"read", "write"} => Opened(change[c].port)
         /\ change[c].pc \in {"write", "reload", "undo"} => Opened(change[c].old)

WayIn == WayOpen /\ Admitted(saver, allowed_ips)

\* How far the change c has come, on its own.
Progress(c) ==
  /\ change[c].pc \in {"detect", "open", "read", "write", "unload", "restart"} => unit = loaded
  /\ change[c].pc \in {"write", "reload", "undo"} => change[c].old = loaded
  /\ change[c].pc # "restart" => listening \in {loaded, NoPort}

InForce ==
  ~mangled =>
    /\ \A c, d \in Working : c = d
    /\ Working = {} => unit = loaded /\ listening \in {loaded, NoPort}
    /\ \A c \in Working : Progress(c)

-----------------------------------------------------------------------------
(* Types.                                                                  *)

LEMMA ChangeFields ==
  ASSUME PanelTypeOK, NEW c \in Changes, change[c] # NoChange
  PROVE  /\ change[c] \in Changing
         /\ change[c].port \in PanelPorts /\ change[c].old \in PanelPorts
         /\ change[c].pc \in {"detect", "open", "read", "write", "reload", "undo", "unload", "restart"}
BY DEF PanelTypeOK, Changing

LEMMA SettleFields ==
  ASSUME PanelTypeOK, NEW c \in Changes, change[c] # NoChange, Settle(c, "restart")
  PROVE  /\ change' \in [Changes -> Changing \cup {NoChange}]
         /\ change'[c] # NoChange /\ change'[c].pc = "restart"
         /\ \A d \in Changes \ {c} : change'[d] = change[d]
<1>1. [change[c] EXCEPT !.pc = "restart", !.port = Installed, !.old = Installed] \in Changing
  BY ChangeFields, InstalledIsPort DEF Changing
<1>2. change[c] \in Changing
  BY ChangeFields
<1>3. [change[c] EXCEPT !.pc = "restart", !.port = Installed, !.old = Installed].pc = "restart"
  BY <1>2 DEF Changing
<1> QED BY <1>1, <1>3, NoChangeIsNone DEF Settle, PanelTypeOK

LEMMA StepFields ==
  ASSUME PanelTypeOK, NEW c \in Changes, change[c] # NoChange,
         NEW pc \in {"write", "reload", "undo", "unload"}, Step(c, pc)
  PROVE  /\ change' \in [Changes -> Changing \cup {NoChange}]
         /\ change'[c] # NoChange /\ change'[c].pc = pc
         /\ change'[c].port = change[c].port /\ change'[c].old = change[c].old
         /\ \A d \in Changes \ {c} : change'[d] = change[d]
<1>1. change[c] \in Changing
  BY ChangeFields
<1>2. [change[c] EXCEPT !.pc = pc] \in Changing
  BY <1>1 DEF Changing
<1> QED BY <1>1, <1>2, NoChangeIsNone DEF Step, PanelTypeOK, Changing

LEMMA PanelTypes ==
  ASSUME PanelTypeOK, [PanelNext]_panelVars
  PROVE  PanelTypeOK'
<1> USE DEF PanelTypeOK
<1>1. ASSUME NEW c \in Changes, ChangePort(c) PROVE PanelTypeOK'
  <2>1. CASE AskForPort(c)
    BY <2>1, InstalledIsPort DEF AskForPort, Changing
  <2>2. CASE DetectFirewall(c)
    BY <2>2 DEF DetectFirewall, ChangeAt, Changing
  <2>3. CASE OpenFirst(c)
    <3>1. change' \in [Changes -> Changing \cup {NoChange}]
      <4>1. CASE End(c)
        BY <4>1 DEF End
      <4>2. CASE change' = [change EXCEPT ![c] = [@ EXCEPT !.pc = "read", !.fw = FALSE]]
        <5>1. change[c] # NoChange
          BY <2>3 DEF OpenFirst, ChangeAt
        <5>2. [change[c] EXCEPT !.pc = "read", !.fw = FALSE] \in Changing
          BY <5>1, ChangeFields DEF Changing
        <5> QED BY <4>2, <5>2
      <4> QED BY <2>3, <4>1, <4>2 DEF OpenFirst
    <3>2. through' \subseteq PanelPorts /\ closed' \subseteq PanelPorts
      BY <2>3 DEF OpenFirst, ChangeAt, Changing
    <3> QED BY <2>3, <3>1, <3>2 DEF OpenFirst
  <2>4. CASE ReadUnit(c)
    BY <2>4 DEF ReadUnit, ChangeAt, End, Changing
  <2>5. CASE WriteUnit(c)
    BY <2>5 DEF WriteUnit, ChangeAt, Step, End, Changing
  <2>6. CASE DaemonReload(c)
    BY <2>6, SettleFields, StepFields DEF DaemonReload, ChangeAt
  <2>7. CASE WriteBack(c)
    BY <2>7, StepFields, ChangeFields DEF WriteBack, ChangeAt
  <2>8. CASE ReloadBack(c)
    BY <2>8 DEF ReloadBack, End
  <2>9. CASE RestartPanel(c)
    BY <2>9 DEF RestartPanel, Started, End
  <2> QED BY <1>1, <2>1, <2>2, <2>3, <2>4, <2>5, <2>6, <2>7, <2>8, <2>9 DEF ChangePort
<1>2. ASSUME NEW p \in PanelPorts, OpenByHand(p) \/ CloseByHand(p) PROVE PanelTypeOK'
  BY <1>2 DEF OpenByHand, CloseByHand
<1>3. CASE SaveAllowedIPs
  BY <1>3 DEF SaveAllowedIPs
<1>4. CASE EnableFirewall
  BY <1>4 DEF EnableFirewall
<1>5. CASE Respawn
  BY <1>5 DEF Respawn, Started
<1>6. CASE UNCHANGED panelVars
  BY <1>6 DEF panelVars
<1> QED BY <1>1, <1>2, <1>3, <1>4, <1>5, <1>6 DEF PanelNext

\* The theorem of types: every variable of PanelPort keeps its type.
THEOREM PanelTypeCorrect == PanelSpec => []PanelTypeOK
<1>1. PanelInit => PanelTypeOK
  BY InstalledIsPort DEF PanelInit, PanelTypeOK
<1> QED BY <1>1, PanelTypes, PTL DEF PanelSpec

-----------------------------------------------------------------------------
(* The way in.                                                             *)

\* A change of port on its way keeps the ports open that it passes on.
LEMMA ChangeKeepsWay ==
  ASSUME PanelTypeOK, WayOpen, NEW c \in Changes, ChangePort(c)
  PROVE  WayOpen'
<1> SUFFICES ASSUME ~hasty' PROVE WayOpen'
  BY DEF WayOpen
<1>1. ~hasty /\ hasty' = hasty /\ ufw' = ufw
  BY DEF ChangePort, AskForPort, DetectFirewall, OpenFirst, ReadUnit, WriteUnit, DaemonReload,
         WriteBack, ReloadBack, RestartPanel
<1> USE DEF WayOpen, Opened, PanelTypeOK
<1>2. CASE AskForPort(c)
  BY <1>1, <1>2 DEF AskForPort
<1>3. CASE DetectFirewall(c)
  BY <1>1, <1>3 DEF DetectFirewall, ChangeAt, Changing
<1>4. CASE OpenFirst(c)
  <2>1. unit' = unit /\ loaded' = loaded /\ listening' = listening
    BY <1>4 DEF OpenFirst
  <2>2. through \cup closed \subseteq through' \cup closed'
    BY <1>4 DEF OpenFirst
  <2>3. ASSUME NEW d \in Changes, change'[d] # NoChange, d # c
        PROVE  change'[d] = change[d]
    BY <1>4, <2>3 DEF OpenFirst, End
  <2>4. change'[c] # NoChange =>
          /\ change'[c].pc = "read" /\ change'[c].port = change[c].port
          /\ ufw => change[c].port \in through'
    BY <1>1, <1>4 DEF OpenFirst, ChangeAt, End, Changing
  <2> QED BY <1>1, <2>1, <2>2, <2>3, <2>4
<1>5. CASE ReadUnit(c)
  <2>1. ufw' = ufw /\ unit' = unit /\ loaded' = loaded /\ listening' = listening
        /\ through' = through /\ closed' = closed
    BY <1>5 DEF ReadUnit
  <2>2. ASSUME NEW d \in Changes, change'[d] # NoChange, d # c
        PROVE  change'[d] = change[d]
    BY <1>5, <2>2 DEF ReadUnit, End
  <2>3. change'[c] # NoChange => /\ change[c].pc = "read" /\ change[c] # NoChange
                                 /\ change'[c].pc = "write" /\ change'[c].port = change[c].port
                                 /\ change'[c].old = unit
    BY <1>5, ChangeFields DEF ReadUnit, ChangeAt, End, Changing
  <2> QED BY <1>1, <2>1, <2>2, <2>3
<1>6. CASE WriteUnit(c)
  BY <1>1, <1>6 DEF WriteUnit, ChangeAt, Step, End, Changing
<1>7. CASE DaemonReload(c)
  <2>1. /\ ufw' = ufw /\ unit' = unit /\ loaded' \in {loaded, unit} /\ listening' = listening
        /\ through' = through /\ closed' = closed
        /\ change[c] # NoChange /\ change[c].pc = "reload"
    BY <1>7 DEF DaemonReload, ChangeAt
  <2>2. CASE Settle(c, "restart")
    BY <1>1, <2>1, <2>2, SettleFields
  <2>3. CASE Step(c, "undo")
    BY <1>1, <2>1, <2>3, StepFields
  <2> QED BY <1>7, <2>2, <2>3 DEF DaemonReload
<1>8. CASE WriteBack(c)
  BY <1>1, <1>8 DEF WriteBack, ChangeAt, Step, Changing
<1>9. CASE ReloadBack(c)
  BY <1>1, <1>9 DEF ReloadBack, End
<1>10. CASE RestartPanel(c)
  BY <1>1, <1>10 DEF RestartPanel, Started, End
<1> QED BY <1>2, <1>3, <1>4, <1>5, <1>6, <1>7, <1>8, <1>9, <1>10 DEF ChangePort

LEMMA WayInStep ==
  ASSUME PanelTypeOK, WayIn, [PanelNext]_panelVars
  PROVE  WayIn'
<1> USE DEF WayIn
<1>1. ASSUME NEW c \in Changes, ChangePort(c) PROVE WayIn'
  <2>1. allowed_ips' = allowed_ips /\ saver' = saver
    BY <1>1 DEF ChangePort, AskForPort, DetectFirewall, OpenFirst, ReadUnit, WriteUnit,
                DaemonReload, WriteBack, ReloadBack, RestartPanel
  <2> QED BY <1>1, <2>1, ChangeKeepsWay DEF Admitted
<1>2. ASSUME NEW p \in PanelPorts, OpenByHand(p) \/ CloseByHand(p) PROVE WayIn'
  BY <1>2 DEF OpenByHand, CloseByHand, WayOpen, Opened, Admitted
<1>3. CASE SaveAllowedIPs
  BY <1>3 DEF SaveAllowedIPs, WayOpen, Opened, Admitted
<1>4. CASE EnableFirewall
  BY <1>4 DEF EnableFirewall, Working, WayOpen, Opened, Admitted
<1>5. CASE Respawn
  BY <1>5 DEF Respawn, Started, WayOpen, Opened, Admitted
<1>6. CASE UNCHANGED panelVars
  BY <1>6 DEF panelVars, WayOpen, Opened, Admitted
<1> QED BY <1>1, <1>2, <1>3, <1>4, <1>5, <1>6 DEF PanelNext

\* "required to open the new port in the firewall BEFORE calling SetPort" (package
\* paneladmin), "refuse to save a list that would lock out the very request submitting
\* it" (handlePanelAllowedIPsUpdate): however changes of port race, fail or are cut
\* short, whoever saved the list in force gets in where the panel listens.
THEOREM SaverAlwaysGetsIn == PanelSpec => []SaverGetsIn
<1>1. PanelInit => WayIn
  BY DEF PanelInit, WayIn, WayOpen, Opened, Admitted
<1>2. PanelTypeOK /\ WayIn /\ [PanelNext]_panelVars => WayIn'
  BY WayInStep
<1>3. WayIn => SaverGetsIn
  BY DEF WayIn, WayOpen, Opened, SaverGetsIn, Reachable
<1> QED BY <1>1, <1>2, <1>3, PanelTypeCorrect, PTL DEF PanelSpec

-----------------------------------------------------------------------------
(* A change on its own.                                                    *)

LEMMA ChangeKeepsForce ==
  ASSUME PanelTypeOK, InForce, NEW c \in Changes, ChangePort(c)
  PROVE  InForce'
<1> SUFFICES ASSUME ~mangled' PROVE InForce'
  BY DEF InForce
<1>1. CASE AskForPort(c)
  <2>1. ~mangled /\ Working = {} /\ Working' = {c} /\ change'[c].pc = "detect"
    <3>1. ~mangled /\ Working = {} /\ change[c] = NoChange
      BY <1>1 DEF AskForPort
    <3>2. PICK p \in PanelPorts :
            change' = [change EXCEPT ![c] = [pc |-> "detect", port |-> p, fw |-> FALSE, old |-> Installed]]
      BY <1>1 DEF AskForPort
    <3>3. change'[c] = [pc |-> "detect", port |-> p, fw |-> FALSE, old |-> Installed]
          /\ \A d \in Changes \ {c} : change'[d] = NoChange
      BY <3>1, <3>2 DEF PanelTypeOK, Working
    <3>4. change'[c] # NoChange
      <4>1. [pc |-> "detect", port |-> p, fw |-> FALSE, old |-> Installed] \in Changing
        BY InstalledIsPort DEF Changing
      <4> QED BY <3>3, <4>1, NoChangeIsNone
    <3> QED BY <3>1, <3>3, <3>4 DEF Working
  <2>2. unit' = unit /\ loaded' = loaded /\ listening' = listening
    BY <1>1 DEF AskForPort
  <2> QED BY <2>1, <2>2 DEF InForce, Progress
<1>2. CASE RestartPanel(c)
  BY <1>2 DEF RestartPanel, ChangeAt, Started, InForce, Progress, Working
<1>3. CASE ChangePort(c) /\ ~AskForPort(c) /\ ~RestartPanel(c)
  <2>1. ~mangled /\ c \in Working /\ Progress(c) /\ Working = {c}
    <3>1. ~mangled /\ change[c] # NoChange
      BY <1>3 DEF ChangePort, DetectFirewall, OpenFirst, ReadUnit, WriteUnit, DaemonReload,
                  WriteBack, ReloadBack, ChangeAt
    <3> QED BY <3>1 DEF InForce, Working
  <2>2. \A d \in Changes \ {c} : change'[d] = NoChange
    <3>1. \A d \in Changes \ {c} : change'[d] = change[d]
      <4>1. CASE DetectFirewall(c) \/ OpenFirst(c)
        BY <4>1 DEF DetectFirewall, OpenFirst, End, PanelTypeOK
      <4>2. CASE ReadUnit(c) \/ WriteUnit(c)
        BY <4>2 DEF ReadUnit, WriteUnit, Step, End, PanelTypeOK
      <4>3. CASE DaemonReload(c) \/ WriteBack(c) \/ ReloadBack(c)
        BY <4>3 DEF DaemonReload, WriteBack, ReloadBack, Settle, Step, End, PanelTypeOK
      <4> QED BY <1>3, <4>1, <4>2, <4>3 DEF ChangePort
    <3> QED BY <2>1, <3>1 DEF Working
  <2>3. \/ Working' = {c} /\ Progress(c)'
        \/ Working' = {} /\ unit' = loaded' /\ listening' \in {loaded', NoPort}
    <3> USE <2>1, <2>2 DEF PanelTypeOK, Progress, Working, ChangeAt, Step, Settle, End, Changing
    <3>1. CASE DetectFirewall(c)
      BY <3>1 DEF DetectFirewall
    <3>2. CASE OpenFirst(c)
      BY <3>2 DEF OpenFirst
    <3>3. CASE ReadUnit(c)
      BY <3>3 DEF ReadUnit
    <3>4. CASE WriteUnit(c)
      <4>1. CASE unit' = unit /\ End(c)
        BY <3>4, <4>1 DEF WriteUnit
      <4>2. CASE Step(c, "reload")
        <5>1. change[c] # NoChange /\ change[c].pc = "write" /\ loaded' = loaded /\ listening' = listening
          BY <3>4, <4>2 DEF WriteUnit
        <5>2. change'[c] # NoChange /\ change'[c].pc = "reload" /\ change'[c].old = change[c].old
          BY <4>2, <5>1, StepFields
        <5> QED BY <5>1, <5>2
      <4> QED BY <3>4, <4>1, <4>2 DEF WriteUnit
    <3>5. CASE DaemonReload(c)
      <4>1. change[c] # NoChange /\ change[c].pc = "reload" /\ unit' = unit /\ listening' = listening
        BY <3>5 DEF DaemonReload
      <4>2. CASE loaded' = unit /\ Settle(c, "restart")
        <5>1. change'[c] # NoChange /\ change'[c].pc = "restart"
          BY <4>1, <4>2, SettleFields
        <5> QED BY <4>1, <4>2, <5>1
      <4>3. CASE loaded' = loaded /\ Step(c, "undo")
        <5>1. change'[c] # NoChange /\ change'[c].pc = "undo" /\ change'[c].old = change[c].old
          BY <4>1, <4>3, StepFields
        <5> QED BY <4>1, <4>3, <5>1
      <4> QED BY <3>5, <4>2, <4>3 DEF DaemonReload
    <3>6. CASE WriteBack(c)
      BY <3>6 DEF WriteBack
    <3>7. CASE ReloadBack(c)
      BY <3>7 DEF ReloadBack
    <3> QED BY <1>3, <3>1, <3>2, <3>3, <3>4, <3>5, <3>6, <3>7 DEF ChangePort
  <2> QED BY <2>3 DEF InForce
<1> QED BY <1>1, <1>2, <1>3

LEMMA InForceStep ==
  ASSUME PanelTypeOK, InForce, [PanelNext]_panelVars
  PROVE  InForce'
<1>1. ASSUME NEW c \in Changes, ChangePort(c) PROVE InForce'
  BY <1>1, ChangeKeepsForce
<1>2. ASSUME NEW p \in PanelPorts, OpenByHand(p) \/ CloseByHand(p) PROVE InForce'
  BY <1>2 DEF OpenByHand, CloseByHand, InForce, Progress, Working
<1>3. CASE SaveAllowedIPs \/ EnableFirewall
  BY <1>3 DEF SaveAllowedIPs, EnableFirewall, InForce, Progress, Working
<1>4. CASE Respawn
  <2>1. Working' = {} /\ unit' = unit /\ loaded' = loaded /\ listening' \in {loaded, NoPort}
    BY <1>4 DEF Respawn, Started, Working
  <2>2. ~mangled' => ~mangled /\ \A c \in Working : change[c].pc \in {"detect", "open", "read", "restart"}
    BY <1>4 DEF Respawn
  <2> QED BY <2>1, <2>2 DEF InForce, Progress
<1>5. CASE UNCHANGED panelVars
  BY <1>5 DEF panelVars, InForce, Progress, Working
<1> QED BY <1>1, <1>2, <1>3, <1>4, <1>5 DEF PanelNext

\* "systemctl daemon-reload rejected the change, rolled back" (SetPort): a change of
\* port that ran alone to its end is in force in the file, in systemd and in the
\* process, or in none.
THEOREM PortAlwaysTakesEffect == PanelSpec => []PortTakesEffect
<1>1. PanelInit => InForce
  BY DEF PanelInit, InForce, Progress, Working
<1>2. PanelTypeOK /\ InForce /\ [PanelNext]_panelVars => InForce'
  BY InForceStep
<1>3. InForce => PortTakesEffect
  BY DEF InForce, PortTakesEffect
<1> QED BY <1>1, <1>2, <1>3, PanelTypeCorrect, PTL DEF PanelSpec

(***************************************************************************)
(* What a terminal leaves behind, for queues of any size.  That sessions   *)
(* end (SessionsEnd) is liveness and stays with TLC; that an ended one has *)
(* left no shell and no open PTY is a matter of the order of the deferred  *)
(* calls, and so is that none of them has to wait for the shell.           *)
(***************************************************************************)

\* Which of shell and PTY there is at each step of the handler.
Teardown ==
  /\ TerminalTypeOK
  /\ shell = "none" <=> handler \in {"none", "hangup"}
  /\ handler \in {"close", "wait"} => shell = "exited"
  /\ pty = "open" <=> handler \in {"read", "write", "kill", "close"}

LEMMA TeardownInit == TerminalInit => Teardown
BY QueuesHoldSomething DEF TerminalInit, Teardown, TerminalTypeOK

LEMMA TeardownNext == Teardown /\ [TerminalNext]_terminalVars => Teardown'
<1> SUFFICES ASSUME Teardown, [TerminalNext]_terminalVars PROVE Teardown'
  OBVIOUS
<1>1. InCapacity \in Nat \ {0} /\ OutCapacity \in Nat \ {0} /\ MaxTyped \in Nat \ {0}
  BY QueuesHoldSomething
<1> USE DEF Teardown, TerminalTypeOK
<1>2. CASE OpenTerminal
  BY <1>1, <1>2 DEF OpenTerminal
<1>3. CASE ReadMessage
  BY <1>1, <1>3 DEF ReadMessage
<1>4. CASE WriteInput
  BY <1>1, <1>4 DEF WriteInput
<1>5. CASE Kill \/ ClosePTY \/ WaitForShell \/ CloseConn
  BY <1>1, <1>5 DEF Kill, ClosePTY, WaitForShell, CloseConn
<1>6. CASE Reader
  BY <1>1, <1>6 DEF Reader, ReadOutput, SendOutput
<1>7. CASE Type \/ CloseTab
  BY <1>1, <1>7 DEF Type, CloseTab
<1>8. CASE ShellReads \/ ShellWrites \/ ShellExits
  BY <1>1, <1>8 DEF ShellReads, ShellWrites, ShellExits
<1>9. CASE UNCHANGED terminalVars
  BY <1>9 DEF terminalVars
<1> QED BY <1>2, <1>3, <1>4, <1>5, <1>6, <1>7, <1>8, <1>9 DEF TerminalNext, Handler

\* The types of Terminal.
THEOREM TerminalTypeCorrect == TerminalSpec => []TerminalTypeOK
<1>1. Teardown => TerminalTypeOK
  BY DEF Teardown
<1> QED BY <1>1, TeardownInit, TeardownNext, PTL DEF TerminalSpec

\* "Closing the PTY (below) makes the reader goroutine's Read return an error on its own, so it
\* cleans itself up" (handleTerminalWS), the safety half of it: when the handler is done
\* there is neither shell nor zombie nor open PTY, and when it waits for the shell,
\* Process.Kill has left it nothing to wait for.
THEOREM NothingOutlivesTheHandler ==
  TerminalSpec => [](/\ handler = "none" => shell = "none" /\ pty = "closed"
                     /\ handler = "wait" => shell = "exited" /\ pty = "closed")
<1>1. Teardown => /\ handler = "none" => shell = "none" /\ pty = "closed"
                  /\ handler = "wait" => shell = "exited" /\ pty = "closed"
  BY DEF Teardown, TerminalTypeOK
<1> QED BY <1>1, TeardownInit, TeardownNext, PTL DEF TerminalSpec
=============================================================================
