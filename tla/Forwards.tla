------------------------------ MODULE Forwards ------------------------------
(***************************************************************************)
(* Port forwarding: a row per forward (store/firewall.go), and the rules   *)
(* the host's firewall keeps for it (firewall/forwarding.go), changed by   *)
(* handlePortForwardCreate and handlePortForwardDelete (server/ports.go).  *)
(*                                                                         *)
(* Every request asks Detect which firewall is in charge, and speaks to    *)
(* that one alone.  With ufw the rules are a block of lines in             *)
(* before.rules that is read, changed and written back; firewalld keeps a  *)
(* set and iptables a list that commands add to and remove from.  Each     *)
(* keeps its own when another takes charge.  No lock, no rollback.         *)
(***************************************************************************)
EXTENDS Naturals, FiniteSets

CONSTANTS Targets,         \* what a forward says: ports, protocol, address
          V4,              \* those with an IPv4 address
          ForwardIds, NoTarget,
          Askers, NoAsk,
          MaxCopies,       \* bound: copies of one rule in iptables
          MaxChanges       \* bound: how often the host changes its firewalls

ASSUME V4AreTargets == V4 \subseteq Targets /\ NoTarget \notin Targets \cup ForwardIds
ASSUME BoundsAreNat == MaxCopies \in Nat /\ MaxChanges \in Nat
ASSUME RowsAreFinite == IsFiniteSet(ForwardIds) /\ IsFiniteSet(Askers)

VARIABLES backend,    \* what Detect finds
          port_forwards, \* the table
          block,      \* ufw: the lines between the markers
          zone,       \* firewalld: the forward ports of its permanent configuration
          copies,     \* iptables: how many rules there are of each forward
          forwarding, \* who lets forwarded packets pass: the kernel, ufw's policy
          ask,        \* requests in flight
          changes,    \* history: changes of the host, handlePortsEnableUFW aside
          stranded,   \* history: forwards whose removal passed by a rule of theirs
          harm        \* history, the worst so far: "broken" for a step that failed or
                      \* the daemon dying, "disturbed" for a rule that went for another
                      \* reason than its own removal

forwardVars ==
  <<backend, changes, port_forwards, block, zone, copies, forwarding, ask, stranded, harm>>

host  == <<backend, changes>>
rules == <<block, zone, copies>>

Backends == {"ufw", "firewalld", "iptables", "none"}

Asked == [pc: {"lookup", "detect", "sysctl", "policy", "read", "write", "reload", "command",
               "row"},
          id: ForwardIds \cup {NoTarget}, target: Targets \cup {NoTarget},
          adding: BOOLEAN, via: Backends, list: SUBSET Targets]
ASSUME NoAskIsNone == NoAsk \notin Asked

ForwardsTypeOK ==
  /\ backend \in Backends
  /\ port_forwards \in [ForwardIds -> Targets \cup {NoTarget}]
  /\ block \subseteq Targets /\ zone \subseteq Targets /\ stranded \subseteq Targets
  /\ copies \in [Targets -> 0 .. MaxCopies]
  /\ forwarding \subseteq {"kernel", "policy"}
  /\ changes \in 0 .. MaxChanges
  /\ ask \in [Askers -> Asked \cup {NoAsk}]
  /\ harm \in {"none", "broken", "disturbed"}

\* 0018_firewall: an empty table.
ForwardsInit ==
  /\ backend \in Backends
  /\ port_forwards = [i \in ForwardIds |-> NoTarget]
  /\ changes = 0
  /\ block = {} /\ zone = {} /\ stranded = {}
  /\ copies = [t \in Targets |-> 0]
  /\ forwarding = {}
  /\ ask = [a \in Askers |-> NoAsk]
  /\ harm = "none"

Asking(a, pc) == ask[a] # NoAsk /\ ask[a].pc = pc
Advance(a, pc) == ask' = [ask EXCEPT ![a] = [@ EXCEPT !.pc = pc]]
Settle(a, pc)  == ask' = [ask EXCEPT ![a] = [@ EXCEPT !.pc = pc, !.via = "none", !.list = {}]]
Remove(a)      == ask' = [ask EXCEPT ![a] = [@ EXCEPT !.pc = "row", !.target = NoTarget,
                                                      !.via = "none", !.list = {}]]
Answer(a)      == ask' = [ask EXCEPT ![a] = NoAsk]

Listed == {i \in ForwardIds : port_forwards[i] # NoTarget}

\* What any firewall keeps, and what those other than v do.
Rules == block \cup zone \cup {t \in Targets : copies[t] > 0}
Elsewhere(v) ==
  (IF v = "ufw" THEN {} ELSE block) \cup (IF v = "firewalld" THEN {} ELSE zone)
    \cup (IF v = "iptables" THEN {} ELSE {t \in Targets : copies[t] > 0})

Break      == harm' = IF harm = "none" THEN "broken" ELSE harm
Disturb(p) == harm' = IF p THEN "disturbed" ELSE harm

\* The rule of a removal has gone from v: wherever else there is one, it stays.
Strand(a, v) ==
  stranded' = IF ask[a].adding THEN stranded
              ELSE stranded \cup ({ask[a].target} \cap Elsewhere(v))

\* An error ends a creation; a removal goes on to its row.
Trouble(a) ==
  /\ IF ask[a].adding THEN Answer(a) ELSE Remove(a)
  /\ Break
  /\ UNCHANGED stranded

-----------------------------------------------------------------------------
(* The handlers.                                                           *)

AskForForward(a) ==
  /\ ask[a] = NoAsk
  /\ \E t \in Targets :
       ask' = [ask EXCEPT ![a] =
         [pc |-> "detect", id |-> NoTarget, target |-> t,
          adding |-> TRUE, via |-> "none", list |-> {}]]
  /\ UNCHANGED <<host, port_forwards, rules, forwarding, stranded, harm>>

AskForRemoval(a) ==
  /\ ask[a] = NoAsk
  /\ \E i \in Listed :
       ask' = [ask EXCEPT ![a] =
         [pc |-> "lookup", id |-> i, target |-> NoTarget, adding |-> FALSE,
          via |-> "none", list |-> {}]]
  /\ UNCHANGED <<host, port_forwards, rules, forwarding, stranded, harm>>

\* handlePortForwardDelete looks for the row; its absence is no error.
LookUp(a) ==
  /\ Asking(a, "lookup")
  /\ IF ask[a].id \in Listed
     THEN ask' = [ask EXCEPT ![a] = [@ EXCEPT !.pc = "detect",
                                               !.target = port_forwards[ask[a].id]]]
     ELSE Answer(a)
  /\ UNCHANGED <<host, port_forwards, rules, forwarding, stranded, harm>>

\* The firewall Detect finds is the one a request speaks to.
DetectForwarder(a) ==
  /\ Asking(a, "detect") /\ backend # "none"
  /\ ask' = [ask EXCEPT ![a] = [@ EXCEPT !.via = backend,
       !.pc = IF ask[a].adding /\ backend # "firewalld" THEN "sysctl"
              ELSE IF backend = "ufw" THEN "read" ELSE "command"]]
  /\ UNCHANGED <<host, port_forwards, rules, forwarding, stranded, harm>>

\* Mutant: a creation is not refused where nothing can be told about it.
DetectNone_Accepts(a) ==
  /\ Asking(a, "detect") /\ backend = "none"
  /\ IF ask[a].adding THEN Settle(a, "row") ELSE Remove(a)
  /\ Strand(a, "none")
  /\ UNCHANGED <<host, port_forwards, rules, forwarding, harm>>

\* With none a creation is refused, and a removal touches no rule.
DetectNone(a) ==
  /\ Asking(a, "detect") /\ backend = "none"
  /\ IF ask[a].adding THEN Answer(a) ELSE Remove(a)
  /\ Strand(a, "none")
  /\ UNCHANGED <<host, port_forwards, rules, forwarding, harm>>

\* CreatePortForward.  (AUTOINCREMENT: the id is one no request knows.)
CreatePortForward(a) ==
  /\ Asking(a, "row") /\ ask[a].adding
  /\ \/ /\ \E i \in ForwardIds \ Listed :
             /\ \A b \in Askers : ask[b] # NoAsk /\ ~ask[b].adding => ask[b].id # i
             /\ port_forwards' = [port_forwards EXCEPT ![i] = ask[a].target]
        /\ UNCHANGED harm
     \/ UNCHANGED port_forwards /\ Break
  /\ Answer(a)
  /\ UNCHANGED <<host, rules, forwarding, stranded>>

\* DeletePortForward; an error is dropped, and leaves a row without its rule.
DeletePortForward(a) ==
  /\ Asking(a, "row") /\ ~ask[a].adding
  /\ \/ /\ port_forwards' = [port_forwards EXCEPT ![ask[a].id] = NoTarget]
        /\ UNCHANGED harm
     \/ UNCHANGED port_forwards /\ Disturb(TRUE)
  /\ Answer(a)
  /\ UNCHANGED <<host, rules, forwarding, stranded>>

-----------------------------------------------------------------------------
(* AddForward and RemoveForward with ufw.                                  *)

\* EnableIPForwarding, for ufw and iptables.
EnableIPForwarding(a) ==
  /\ Asking(a, "sysctl")
  /\ \/ /\ forwarding' = forwarding \cup {"kernel"}
        /\ Advance(a, IF ask[a].via = "ufw" THEN "policy" ELSE "command")
        /\ UNCHANGED <<stranded, harm>>
     \/ UNCHANGED forwarding /\ Trouble(a)
  /\ UNCHANGED <<host, port_forwards, rules>>

\* setUFWForwardPolicy: ufw drops what is forwarded, by default.
SetUFWForwardPolicy(a) ==
  /\ Asking(a, "policy")
  /\ \/ /\ forwarding' = forwarding \cup {"policy"}
        /\ Advance(a, "read")
        /\ UNCHANGED <<stranded, harm>>
     \/ UNCHANGED forwarding /\ Trouble(a)
  /\ UNCHANGED <<host, port_forwards, rules>>

\* readUFWForwards: parseUFWNatBlock knows IPv4 addresses only.
ReadUFWForwards(a) ==
  /\ Asking(a, "read")
  /\ \/ /\ ask' = [ask EXCEPT ![a] = [@ EXCEPT !.pc = "write", !.list = block \cap V4]]
        /\ UNCHANGED <<stranded, harm>>
     \/ Trouble(a)
  /\ UNCHANGED <<host, port_forwards, rules, forwarding>>

\* Some other row says the same, or is about to.
Twin(a) ==
  \/ \E i \in Listed : i # ask[a].id /\ port_forwards[i] = ask[a].target
  \/ \E b \in Askers : /\ Asking(b, "reload") \/ Asking(b, "row")
                       /\ ask[b].adding /\ ask[b].target = ask[a].target

\* Another request is removing this very row, or has.
TwiceRemoved(a) ==
  \/ ask[a].id \notin Listed
  \/ \E b \in Askers \ {a} : ask[b] # NoAsk /\ ~ask[b].adding /\ ask[b].id = ask[a].id

\* Lines of others lost, or brought back, by writing what was read.
Overwritten(a) ==
  ((block \ ask[a].list) \cup (ask[a].list \ block)) \ {ask[a].target} # {}

\* Mutant: a forward is known by its port alone, and here they share it.
WriteUFWForwards_ByPort(a) ==
  /\ Asking(a, "write")
  /\ \/ /\ block' = IF ask[a].adding THEN ask[a].list \cup {ask[a].target} ELSE {}
        /\ Disturb(Overwritten(a) \/ (~ask[a].adding /\ Twin(a)))
        /\ Settle(a, "reload") /\ Strand(a, "ufw")
     \/ UNCHANGED block /\ Trouble(a)
  /\ UNCHANGED <<host, port_forwards, zone, copies, forwarding>>

\* The whole block is written from the list that was read: a line changed since,
\* or not understood, is lost, and so is the line of a twin.
WriteUFWForwards(a) ==
  /\ Asking(a, "write")
  /\ \/ /\ block' = IF ask[a].adding THEN ask[a].list \cup {ask[a].target}
                    ELSE ask[a].list \ {ask[a].target}
        /\ Disturb(Overwritten(a) \/ (~ask[a].adding /\ Twin(a)))
        /\ Settle(a, "reload") /\ Strand(a, "ufw")
     \/ UNCHANGED block /\ Trouble(a)
  /\ UNCHANGED <<host, port_forwards, zone, copies, forwarding>>

\* ufw reload.
ReloadUFW(a) ==
  /\ Asking(a, "reload")
  /\ \/ /\ IF ask[a].adding THEN Settle(a, "row") ELSE Remove(a)
        /\ UNCHANGED <<stranded, harm>>
     \/ Trouble(a)
  /\ UNCHANGED <<host, port_forwards, rules, forwarding>>

-----------------------------------------------------------------------------
(* The commands of firewalld and of iptables; a later one of AddForward    *)
(* may fail when the first has added its rule.                             *)

Commanding(a, v) == Asking(a, "command") /\ ask[a].via = v

\* --add-forward-port, and --add-masquerade, which has the kernel forward.
AddForwardPort(a) ==
  /\ Commanding(a, "firewalld") /\ ask[a].adding
  /\ LET with == zone \cup {ask[a].target}
     IN \/ /\ zone' = with /\ forwarding' = forwarding \cup {"kernel"}
           /\ Settle(a, "row")
           /\ UNCHANGED <<stranded, harm>>
        \/ /\ zone' \in {zone, with}
           /\ forwarding' \in {forwarding, forwarding \cup {"kernel"}}
           /\ Trouble(a)
  /\ UNCHANGED <<host, port_forwards, block, copies>>

\* --remove-forward-port: there is one for all twins.  What the reload after it says
\* is not looked at.
RemoveForwardPort(a) ==
  /\ Commanding(a, "firewalld") /\ ~ask[a].adding
  /\ \/ /\ zone' = zone \ {ask[a].target}
        /\ Disturb(Twin(a))
        /\ Remove(a) /\ Strand(a, "firewalld")
     \/ UNCHANGED zone /\ Trouble(a)
  /\ UNCHANGED <<host, port_forwards, block, copies, forwarding>>

\* iptables -A.
AppendRule(a) ==
  /\ Commanding(a, "iptables") /\ ask[a].adding
  /\ LET t == ask[a].target
         with == [copies EXCEPT ![t] = @ + 1]
     IN /\ copies[t] < MaxCopies
        /\ \/ copies' = with /\ Settle(a, "row") /\ UNCHANGED <<stranded, harm>>
           \/ copies' \in {copies, with} /\ Trouble(a)
  /\ UNCHANGED <<host, port_forwards, block, zone, forwarding>>

\* iptables -D takes one copy; what it says is not looked at.
DropRule(a) ==
  /\ Commanding(a, "iptables") /\ ~ask[a].adding
  /\ \/ /\ copies' = [copies EXCEPT ![ask[a].target] = IF @ = 0 THEN 0 ELSE @ - 1]
        /\ Disturb(TwiceRemoved(a))
        /\ Remove(a) /\ Strand(a, "iptables")
     \/ UNCHANGED copies /\ Trouble(a)
  /\ UNCHANGED <<host, port_forwards, block, zone, forwarding>>

-----------------------------------------------------------------------------
(* Around them.                                                            *)

\* handlePortsEnableUFW.
UFWComesUp ==
  /\ backend # "ufw" /\ backend' = "ufw"
  /\ UNCHANGED <<changes, port_forwards, rules, forwarding, ask, stranded, harm>>

\* The host: a firewall is stopped, started or installed.
FirewallsChange ==
  /\ changes < MaxChanges /\ changes' = changes + 1
  /\ \E b \in Backends \ {backend} : backend' = b
  /\ UNCHANGED <<port_forwards, rules, forwarding, ask, stranded, harm>>

\* kursord dies; a removal between its rule and its row leaves the row.
ForwarderDies ==
  /\ \E a \in Askers : ask[a] # NoAsk
  /\ ask' = [a \in Askers |-> NoAsk]
  /\ IF \E a \in Askers : (Asking(a, "reload") \/ Asking(a, "row")) /\ ~ask[a].adding
     THEN Disturb(TRUE) ELSE Break
  /\ UNCHANGED <<host, port_forwards, rules, forwarding, stranded>>

HandleForward(a) ==
  \/ LookUp(a) \/ DetectForwarder(a) \/ DetectNone(a)
  \/ EnableIPForwarding(a) \/ SetUFWForwardPolicy(a)
  \/ ReadUFWForwards(a) \/ WriteUFWForwards(a) \/ ReloadUFW(a)
  \/ AddForwardPort(a) \/ RemoveForwardPort(a) \/ AppendRule(a) \/ DropRule(a)
  \/ CreatePortForward(a) \/ DeletePortForward(a)

ForwardsNext ==
  \/ \E a \in Askers : AskForForward(a) \/ AskForRemoval(a) \/ HandleForward(a)
  \/ UFWComesUp \/ FirewallsChange \/ ForwarderDies

ForwardsSpec == ForwardsInit /\ [][ForwardsNext]_forwardVars

-----------------------------------------------------------------------------
(* Properties.                                                             *)

BeingRemoved == {i \in ForwardIds :
  \E a \in Askers : ask[a] # NoAsk /\ ~ask[a].adding /\ ask[a].id = i}

Resting == \A a \in Askers : ask[a] = NoAsk

\* "applies a DNAT rule and records it so the page can list/remove it later"
\* (handlePortForwardCreate): whatever fails and whichever firewall is in charge
\* when, a row not being removed has its rule in one of them; and a rule of any of
\* them hides from the page only when a step failed, or when a removal took the row
\* and asked another firewall than the rule's.  (Exempt: a line lost to an
\* overlapping write, to the removal of a twin or to its IPv6 address, and a row
\* whose own removal stopped halfway.)
RowsHaveRules ==
  harm # "disturbed" =>
    /\ \A i \in Listed \ BeingRemoved :
         /\ port_forwards[i] \in Rules
         /\ "kernel" \in forwarding
         /\ port_forwards[i] \in block => "policy" \in forwarding
    /\ harm = "none" /\ Resting =>
         Rules \ stranded \subseteq {port_forwards[i] : i \in Listed}

\* The same comment, as it stands: with nothing failing, every rule is one the page
\* can list and remove.
RulesAreListed ==
  harm = "none" /\ Resting => Rules \subseteq {port_forwards[i] : i \in Listed}
=============================================================================
