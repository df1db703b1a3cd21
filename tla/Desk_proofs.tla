----------------------------- MODULE Desk_proofs -----------------------------
(***************************************************************************)
(* Theorems about the service desk (fulfilment of tickets, and support     *)
(* groups) and about departments and positions.                            *)
(***************************************************************************)
EXTENDS ServiceDesk, SupportQueue, Departments, UserStore_proofs, WellFoundedInduction

(***************************************************************************)
(* Fulfilment, for any number of accounts, tickets and requests in flight. *)
(*                                                                         *)
(* TicketInv holds in every interleaving: what a ticket says of itself,    *)
(* and what a request can rely on because no step takes it back. TurnInv   *)
(* adds, as long as requests do not overlap, that a row and a ticket still *)
(* are what the one request at work has read.                              *)
(***************************************************************************)

-----------------------------------------------------------------------------
(* Requests and tickets, whatever interleaves.                             *)

\* What every ticket in the table says of itself: a decision has an author, and so
\* has what was carried out; the mark set is the one of the ticket's kind.
Consistent(t) ==
  /\ t.approval \in {"approved", "rejected"} => t.approver # NoUser
  /\ t.applied \/ t.created # NoUser => t.approver # NoUser
  /\ t.kind = "new_account" => ~t.applied
  /\ t.kind # "new_account" => t.created = NoUser

\* What a request in flight can rely on: a ticket never goes away or changes what it
\* asks for, and once it was decided on, it was.
Relies(q) ==
  LET t == tickets[q.ticket] IN
    /\ q.op = "open" => q.pc = "load"
    /\ q.op # "open" => t # NoTicket
    /\ q.op \in Clicks /\ q.pc # "load" =>
         /\ t.kind = q.op
         /\ t.approver # NoUser
         /\ q.op # "new_account" => t.target # NoUser
    /\ q.pc = "effect" /\ q.op = "grant_access" => q.seen # NoRow
    /\ q.pc = "stamp" /\ q.op = "new_account" => q.made # NoUser

TicketInv ==
  /\ TypeOK
  /\ \A k \in Tickets : tickets[k] # NoTicket => Consistent(tickets[k])
  /\ \A r \in Requests : req[r] # NoReq => Relies(req[r])

LEMMA InFlightFields ==
  ASSUME TypeOK, NEW r \in Requests, req[r] # NoReq
  PROVE  /\ req[r] \in InFlight
         /\ req[r].op \in Ops /\ req[r].by \in Users /\ req[r].ticket \in Tickets
         /\ req[r].seen \in UserRow \cup {NoRow} /\ req[r].made \in Users \cup {NoUser}
BY DEF TypeOK, InFlight

LEMMA TicketFields ==
  ASSUME TypeOK, NEW k \in Tickets, tickets[k] # NoTicket
  PROVE  /\ tickets[k] \in Ticket
         /\ tickets[k].kind \in Kinds /\ tickets[k].target \in Users \cup {NoUser}
         /\ tickets[k].want \in SUBSET Modules
BY DEF TypeOK, Ticket

\* A step of a request changes its own slot, and leaves a request of its own op.
Slots == [Requests -> InFlight \cup {NoReq}]

LEMMA GoType ==
  ASSUME TypeOK, NEW r \in Requests, req[r] # NoReq,
         NEW pc \in {"load", "target", "count", "effect", "stamp", "resolve"},
         NEW seen \in UserRow \cup {NoRow}, Go(r, pc, seen)
  PROVE  /\ req' \in Slots
         /\ req' = [req EXCEPT ![r] = [req[r] EXCEPT !.pc = pc, !.seen = seen]]
         /\ req'[r] \in InFlight
BY DEF TypeOK, Go, InFlight, Slots

LEMMA AnswerType ==
  ASSUME TypeOK, NEW r \in Requests, Answer(r)
  PROVE  req' \in Slots
BY DEF TypeOK, Answer, Slots

\* A write to one ticket that is in the table.
LEMMA TicketWrite ==
  ASSUME TypeOK, NEW k \in Tickets, NEW t \in Ticket,
         tickets' = [tickets EXCEPT ![k] = t]
  PROVE  tickets' \in [Tickets -> Ticket \cup {NoTicket}]
BY DEF TypeOK

LEMMA NewTicketType ==
  ASSUME NEW kind \in Kinds, NEW u \in Users, NEW target \in Users \cup {NoUser},
         NEW want \in SUBSET Modules
  PROVE  NewTicket(kind, u, target, want) \in Ticket
BY DEF NewTicket, Ticket

\* The writes of a row.
ByDecision(t, d, u)          == [t EXCEPT !.approval = d, !.approver = u]
WithAccount(t, u)            == [t EXCEPT !.created = u]
AsApplied(t)                 == [t EXCEPT !.applied = TRUE]
WithStatus(t, status, stamp) == [t EXCEPT !.status = status, !.resolvedAt = stamp]

\* The four ways a ticket's row is written.
Opened(k) == \E r \in Requests : 
  /\ OpenTicket(r) /\ req[r].ticket = k /\ tickets[k] = NoTicket
  /\ \E kind \in Kinds, target \in Users \cup {NoUser}, want \in SUBSET Modules :
       tickets'[k] = NewTicket(kind, req[r].by, target, want)
Judged(k) == \E r \in Requests : 
  /\ DecideTicket(r) /\ req[r].ticket = k /\ tickets[k] # NoTicket
  /\ \E d \in Decisions :
       tickets'[k] = ByDecision(tickets[k], d, req[r].by)
Stamped(k) == \E r \in Requests : 
  /\ Stamp(r) /\ req[r].ticket = k /\ tickets[k] # NoTicket
  /\ tickets'[k] = IF req[r].op = "new_account"
                   THEN WithAccount(tickets[k], req[r].made)
                   ELSE AsApplied(tickets[k])
Moved(k) == 
  /\ tickets[k] # NoTicket
  /\ \E status \in {"open", "done"}, resolved \in BOOLEAN :
       tickets'[k] = WithStatus(tickets[k], status, resolved)

LEMMA TicketsStep ==
  ASSUME TicketInv, [Next]_vars, NEW k \in Tickets, tickets'[k] # tickets[k]
  PROVE  Opened(k) \/ Judged(k) \/ Stamped(k) \/ Moved(k)
<1>1. tickets \in [Tickets -> Ticket \cup {NoTicket}]
  BY DEF TicketInv, TypeOK
<1>6. ASSUME NEW r \in Requests, req[r] # NoReq, req[r].op # "open"
      PROVE  tickets[req[r].ticket] # NoTicket
  BY <1>6 DEF TicketInv, Relies
<1>2. ASSUME NEW r \in Requests, OpenTicket(r) PROVE Opened(k)
  BY <1>1, <1>2 DEF OpenTicket, Opened
<1>3. ASSUME NEW r \in Requests, DecideTicket(r) PROVE Judged(k)
  BY <1>1, <1>3, <1>6 DEF DecideTicket, SetTicketApproval, At, Judged, ByDecision
<1>4. ASSUME NEW r \in Requests, Stamp(r) PROVE Stamped(k)
  BY <1>1, <1>4, <1>6 DEF Stamp, At, Clicks, Stamped, WithAccount, AsApplied
<1>5. ASSUME NEW r \in Requests, Resolve(r) \/ SetStatus(r) PROVE Moved(k)
  <2>1. PICK status \in {"open", "done"} : UpdateTicketStatus(req[r].ticket, status)
    BY <1>5 DEF Resolve, SetStatus
  <2>2. req[r].ticket = k
    BY <1>1, <2>1 DEF UpdateTicketStatus
  <2> DEFINE resolved == tickets[k].resolvedAt \/ status = "done"
  <2>3. tickets'[k] = WithStatus(tickets[k], status, resolved)
    BY <1>1, <2>1, <2>2 DEF UpdateTicketStatus, WithStatus
  <2>4. resolved \in BOOLEAN
    OBVIOUS
  <2>5. tickets[k] # NoTicket
    BY <1>5, <1>6, <2>2 DEF Resolve, SetStatus, At, Clicks
  <2> HIDE DEF resolved
  <2> QED BY <2>3, <2>4, <2>5 DEF Moved
<1> QED
  BY <1>2, <1>3, <1>4, <1>5
  DEF Next, Handle, Receive, AccountsPage, LoadTicket, LoadTarget, CountTheAdmins, GrantAccess,
      TerminateTarget, MakeAccount, GiveUp, vars

LEMMA DeskStart == Init => TicketInv
BY DEF Init, TicketInv, TypeOK

\* What a ticket asks for stays, and so does the fact that somebody decided.
Continues(old, new) ==
  /\ new.kind = old.kind /\ new.target = old.target /\ new.want = old.want
  /\ old.approver # NoUser => new.approver # NoUser

\* Each write of a row, on the row alone.
LEMMA WriteDecision ==
  ASSUME NEW t \in Ticket, NEW u \in Users, NEW d \in Decisions
  PROVE  LET new == ByDecision(t, d, u) IN
           new \in Ticket /\ Continues(t, new) /\ (Consistent(t) => Consistent(new))
<1> DEFINE new == ByDecision(t, d, u)
<1>1. new \in Ticket
  BY DEF ByDecision, Ticket, Decisions
<1>2. Continues(t, new)
  BY NoUserIsNobody DEF ByDecision, Ticket, Continues
<1>3. Consistent(t) => Consistent(new)
  BY NoUserIsNobody DEF ByDecision, Ticket, Consistent
<1> QED BY <1>1, <1>2, <1>3

LEMMA WriteCreated ==
  ASSUME NEW t \in Ticket, NEW u \in Users \cup {NoUser}
  PROVE  LET new == WithAccount(t, u) IN
           /\ new \in Ticket /\ Continues(t, new)
           /\ Consistent(t) /\ t.kind = "new_account" /\ t.approver # NoUser => Consistent(new)
<1> DEFINE new == WithAccount(t, u)
<1>1. new \in Ticket /\ Continues(t, new)
  BY DEF WithAccount, Ticket, Continues
<1>2. Consistent(t) /\ t.kind = "new_account" /\ t.approver # NoUser => Consistent(new)
  BY DEF WithAccount, Ticket, Consistent
<1> QED BY <1>1, <1>2

LEMMA WriteApplied ==
  ASSUME NEW t \in Ticket
  PROVE  LET new == AsApplied(t) IN
           /\ new \in Ticket /\ Continues(t, new)
           /\ Consistent(t) /\ t.kind # "new_account" /\ t.approver # NoUser => Consistent(new)
<1> DEFINE new == AsApplied(t)
<1>1. new \in Ticket /\ Continues(t, new)
  BY DEF AsApplied, Ticket, Continues
<1>2. Consistent(t) /\ t.kind # "new_account" /\ t.approver # NoUser => Consistent(new)
  BY DEF AsApplied, Ticket, Consistent
<1> QED BY <1>1, <1>2

LEMMA WriteStatus ==
  ASSUME NEW t \in Ticket, NEW status \in {"open", "done"}, NEW resolved \in BOOLEAN
  PROVE  LET new == WithStatus(t, status, resolved) IN
           new \in Ticket /\ Continues(t, new) /\ (Consistent(t) => Consistent(new))
<1> DEFINE new == WithStatus(t, status, resolved)
<1>1. new \in Ticket /\ Continues(t, new)
  BY DEF WithStatus, Ticket, Continues
<1>2. Consistent(t) => Consistent(new)
  BY DEF WithStatus, Ticket, Consistent
<1> QED BY <1>1, <1>2

LEMMA TicketsNext ==
  ASSUME TicketInv, [Next]_vars, NEW k \in Tickets
  PROVE  /\ tickets'[k] \in Ticket \cup {NoTicket}
         /\ tickets[k] # NoTicket => tickets'[k] # NoTicket /\ Continues(tickets[k], tickets'[k])
         /\ tickets'[k] # NoTicket => Consistent(tickets'[k])
<1>1. /\ tickets[k] \in Ticket \cup {NoTicket} /\ NoTicket \notin Ticket
      /\ tickets[k] # NoTicket => Consistent(tickets[k])
      /\ TypeOK
  BY NoTicketIsNoTicket DEF TicketInv, TypeOK
<1>2. CASE tickets'[k] = tickets[k]
  BY <1>1, <1>2 DEF Continues
<1>3. CASE Opened(k)
  <2>1. PICK r \in Requests, kind \in Kinds, target \in Users \cup {NoUser}, want \in SUBSET Modules :
          /\ req[r] # NoReq /\ tickets[k] = NoTicket
          /\ tickets'[k] = NewTicket(kind, req[r].by, target, want)
    BY <1>3 DEF Opened, OpenTicket, At
  <2>2. tickets'[k] \in Ticket
    BY <1>1, <2>1, InFlightFields, NewTicketType
  <2> QED
    BY <1>1, <2>1, <2>2 DEF NewTicket, Consistent
<1>4. CASE Judged(k)
  <2>1. PICK r \in Requests, d \in Decisions :
          /\ req[r] # NoReq /\ tickets[k] # NoTicket
          /\ tickets'[k] = ByDecision(tickets[k], d, req[r].by)
    BY <1>4 DEF Judged, DecideTicket, At
  <2>2. req[r].by \in Users
    BY <1>1, <2>1, InFlightFields
  <2> QED
    BY <1>1, <2>1, <2>2, WriteDecision
<1>5. CASE Stamped(k)
  <2>1. PICK r \in Requests :
          /\ At(r, "stamp", Clicks) /\ req[r].ticket = k /\ tickets[k] # NoTicket
          /\ tickets'[k] = IF req[r].op = "new_account"
                           THEN WithAccount(tickets[k], req[r].made)
                           ELSE AsApplied(tickets[k])
    BY <1>5 DEF Stamped, Stamp
  <2>2. tickets[k].kind = req[r].op /\ tickets[k].approver # NoUser
    BY <2>1 DEF TicketInv, Relies, At, Clicks
  <2>3. req[r].made \in Users \cup {NoUser}
    BY <1>1, <2>1, InFlightFields DEF At
  <2>4. CASE req[r].op = "new_account"
    BY <1>1, <2>1, <2>2, <2>3, <2>4, WriteCreated
  <2>5. CASE req[r].op # "new_account"
    BY <1>1, <2>1, <2>2, <2>5, WriteApplied
  <2> QED
    BY <2>4, <2>5
<1>6. CASE Moved(k)
  BY <1>1, <1>6, WriteStatus DEF Moved
<1> QED
  BY <1>2, <1>3, <1>4, <1>5, <1>6, TicketsStep

\* What a request relies on stays true while others move.
LEMMA RelianceStays ==
  ASSUME TicketInv, [Next]_vars, NEW r \in Requests, req[r] # NoReq, req'[r] = req[r]
  PROVE  Relies(req[r])'
<1>1. Relies(req[r]) /\ req[r].ticket \in Tickets
  BY InFlightFields DEF TicketInv
<1>2. /\ tickets[req[r].ticket] # NoTicket => tickets'[req[r].ticket] # NoTicket
      /\ tickets[req[r].ticket] # NoTicket => Continues(tickets[req[r].ticket], tickets'[req[r].ticket])
  BY <1>1, TicketsNext
<1> QED
  BY <1>1, <1>2 DEF Relies, Continues, Clicks

\* A request that goes on with its ticket.
LEMMA GoesOn ==
  ASSUME TicketInv, NEW r \in Requests, req[r] # NoReq, req[r].op # "open",
         NEW pc \in {"load", "target", "count", "effect", "stamp", "resolve"},
         NEW seen \in UserRow \cup {NoRow}, Go(r, pc, seen),
         /\ tickets[req[r].ticket] # NoTicket => tickets'[req[r].ticket] # NoTicket
         /\ tickets[req[r].ticket] # NoTicket =>
               Continues(tickets[req[r].ticket], tickets'[req[r].ticket]),
         req[r].op \in Clicks /\ req[r].pc = "load" =>
           MayCarryOut(tickets[req[r].ticket], req[r].op),
         pc = "effect" /\ req[r].op = "grant_access" => seen # NoRow,
         pc = "stamp" => req[r].op # "new_account"
  PROVE  req'[r] \in InFlight /\ Relies(req[r])'
<1> DEFINE k == req[r].ticket
<1>1. k \in Tickets /\ tickets[k] # NoTicket /\ Relies(req[r]) /\ TypeOK
  BY InFlightFields DEF TicketInv, Relies
<1>2. req'[r] = [req[r] EXCEPT !.pc = pc, !.seen = seen] /\ req[r] \in InFlight
  BY <1>1 DEF Go, TypeOK
<1>3. /\ req'[r].pc = pc /\ req'[r].seen = seen /\ req'[r].op = req[r].op
      /\ req'[r].ticket = k /\ req'[r].made = req[r].made /\ req'[r] \in InFlight
  BY <1>2 DEF InFlight
<1>4. req[r].op \in Clicks =>
        /\ tickets[k].kind = req[r].op
        /\ tickets[k].approver # NoUser
        /\ req[r].op # "new_account" => tickets[k].target # NoUser
  BY <1>1 DEF Relies, MayCarryOut, RequiresApproval, TicketInv, Consistent
<1>5. tickets'[k] # NoTicket /\ Continues(tickets[k], tickets'[k])
  BY <1>1
<1> QED
  BY <1>2, <1>3, <1>4, <1>5 DEF Relies, Continues

LEMMA SlotNext ==
  ASSUME TicketInv, [Next]_vars, NEW r \in Requests
  PROVE  req'[r] \in InFlight \cup {NoReq} /\ (req'[r] # NoReq => Relies(req[r])')
<1>1. TypeOK /\ req[r] \in InFlight \cup {NoReq}
  BY DEF TicketInv, TypeOK
<1>2. CASE req'[r] = NoReq
  BY <1>2
<1>3. CASE req'[r] = req[r] /\ req'[r] # NoReq
  BY <1>1, <1>3, RelianceStays
<1>4. CASE req'[r] # req[r] /\ req'[r] # NoReq
  <2>1. ASSUME NEW s \in Requests, Receive(s)
        PROVE  req'[r] \in InFlight /\ Relies(req[r])'
    <3>1. PICK op \in Ops, by \in Users, k \in Tickets :
            /\ (tickets[k] = NoTicket) <=> (op = "open")
            /\ req' = [req EXCEPT ![s] =
                 [pc |-> IF op = "approval" THEN "effect" ELSE "load", op |-> op,
                  by |-> by, agent |-> HasModule(rows[by], ServiceDesk), ticket |-> k,
                  seen |-> NoRow, made |-> NoUser]]
      BY <2>1 DEF Receive
    <3>2. HasModule(rows[by], ServiceDesk) \in BOOLEAN
      BY DEF HasModule
    <3>3. r = s
      BY <1>1, <1>4, <3>1 DEF TypeOK
    <3> DEFINE q == [pc |-> IF op = "approval" THEN "effect" ELSE "load", op |-> op,
                     by |-> by, agent |-> HasModule(rows[by], ServiceDesk), ticket |-> k,
                     seen |-> NoRow, made |-> NoUser]
    <3>4. req'[r] = q
      BY <1>1, <3>1, <3>3 DEF TypeOK
    <3>5. q \in InFlight
      BY <3>2 DEF InFlight
    <3>6. tickets' = tickets
      BY <2>1 DEF Receive
    <3> QED
      BY <3>1, <3>4, <3>5, <3>6 DEF Relies, Clicks
  <2>2. ASSUME NEW s \in Requests, Handle(s) PROVE req'[r] \in InFlight /\ Relies(req[r])'
    <3>1. req[s] # NoReq /\ req[s] \in InFlight /\ r = s
      <4>1. r # s => req'[r] = req[r]
        BY <1>1, <2>2
        DEF Handle, OpenTicket, DecideTicket, LoadTicket, LoadTarget, CountTheAdmins, GrantAccess,
            TerminateTarget, MakeAccount, Stamp, Resolve, SetStatus, GiveUp, Go, Answer, TypeOK
      <4>2. req[s] # NoReq
        BY <2>2
        DEF Handle, OpenTicket, DecideTicket, LoadTicket, LoadTarget, CountTheAdmins, GrantAccess,
            TerminateTarget, MakeAccount, Stamp, Resolve, SetStatus, GiveUp, At
      <4> QED BY <1>1, <1>4, <4>1, <4>2 DEF TypeOK
    <3>2. ~Answer(s)
      BY <1>1, <1>4, <3>1 DEF Answer, TypeOK
    <3>3. Relies(req[r]) /\ req[r].ticket \in Tickets
      BY <1>1, <3>1, InFlightFields DEF TicketInv
    <3>4. tickets[req[r].ticket] # NoTicket =>
            /\ tickets'[req[r].ticket] # NoTicket
            /\ Continues(tickets[req[r].ticket], tickets'[req[r].ticket])
      BY <3>3, TicketsNext
    <3>11. ASSUME req[r].op # "open",
                  NEW pc \in {"load", "target", "count", "effect", "stamp", "resolve"},
                  NEW seen \in UserRow \cup {NoRow}, Go(r, pc, seen),
                  req[r].op \in Clicks /\ req[r].pc = "load" =>
                    MayCarryOut(tickets[req[r].ticket], req[r].op),
                  pc = "effect" /\ req[r].op = "grant_access" => seen # NoRow,
                  pc = "stamp" => req[r].op # "new_account"
           PROVE  req'[r] \in InFlight /\ Relies(req[r])'
      BY <3>1, <3>4, <3>11, GoesOn
    <3>5. CASE LoadTicket(r)
      <4>1. /\ req[r].op \in Clicks \cup {"status"}
            /\ req[r].op \in Clicks => MayCarryOut(GetTicket(req[r].ticket), req[r].op)
            /\ GetTicket(req[r].ticket) # NoTicket
            /\ \/ Go(r, "effect", NoRow) /\ req[r].op \in {"status", "new_account"}
               \/ Go(r, "target", NoRow)
        BY <3>1, <3>2, <3>5 DEF LoadTicket, At, Clicks
      <4>2. GetTicket(req[r].ticket) = tickets[req[r].ticket]
        BY <4>1 DEF GetTicket
      <4> QED
        BY <3>11, <4>1, <4>2 DEF Clicks
    <3>6. CASE LoadTarget(r)
      <4>1. rows[tickets[req[r].ticket].target] \in UserRow \cup {NoRow}
        BY <1>1, <3>3, <3>6, TicketFields DEF LoadTarget, At, Relies, Clicks, TypeOK, UsersTable
      <4>2. /\ req[r].op \in {"grant_access", "terminate"} /\ req[r].pc = "target"
            /\ \E pc \in {"count", "effect"} : \E seen \in UserRow : Go(r, pc, seen)
        BY <3>1, <3>2, <3>6, <4>1 DEF LoadTarget, At
      <4> QED
        BY <3>11, <4>2, NoRowIsNoRow DEF Clicks
    <3>7. CASE CountTheAdmins(r)
      <4>1. /\ req[r].op = "terminate" /\ req[r].pc = "count"
            /\ Go(r, "effect", req[r].seen)
        BY <3>1, <3>2, <3>7 DEF CountTheAdmins, At
      <4> QED
        BY <1>1, <3>1, <3>11, <4>1, InFlightFields DEF Clicks
    <3>8. CASE GrantAccess(r) \/ TerminateTarget(r)
      <4>1. /\ req[r].op \in {"grant_access", "terminate"} /\ req[r].pc = "effect"
            /\ Go(r, "stamp", NoRow)
        BY <3>8 DEF GrantAccess, TerminateTarget, At
      <4> QED
        BY <3>11, <4>1 DEF Clicks
    <3>9. CASE Stamp(r)
      <4>1. req[r].op \in Clicks /\ req[r].pc = "stamp" /\ Go(r, "resolve", NoRow)
        BY <3>9 DEF Stamp, At
      <4> QED
        BY <3>11, <4>1 DEF Clicks
    <3>10. CASE MakeAccount(r)
      <4>1. PICK u \in Users : req' = [req EXCEPT ![r] = [@ EXCEPT !.pc = "stamp", !.made = u]]
        BY <3>10 DEF MakeAccount
      <4>2. req'[r] = [req[r] EXCEPT !.pc = "stamp", !.made = u]
        BY <1>1, <4>1 DEF TypeOK
      <4>3. req'[r] \in InFlight
        BY <3>1, <4>2 DEF InFlight
      <4>4. /\ req'[r].pc = "stamp" /\ req'[r].made = u /\ req'[r].op = "new_account"
            /\ req'[r].ticket = req[r].ticket /\ tickets' = tickets /\ req[r].pc = "effect"
            /\ req[r].op = "new_account"
        BY <3>1, <3>10, <4>2 DEF InFlight, MakeAccount, At
      <4> QED
        BY <3>3, <4>3, <4>4, NoUserIsNobody DEF Relies, Clicks
    <3> QED
      BY <2>2, <3>1, <3>2, <3>5, <3>6, <3>7, <3>8, <3>9, <3>10
      DEF Handle, OpenTicket, DecideTicket, Resolve, SetStatus, GiveUp
  <2> QED
    BY <1>4, <2>1, <2>2 DEF Next, AccountsPage, vars
<1> QED BY <1>2, <1>3, <1>4

\* What a handler writes to the users table.
LEMMA RowsWritten ==
  ASSUME TicketInv, NEW r \in Requests, Handle(r), rows' # rows
  PROVE  /\ req[r] # NoReq /\ req[r].pc = "effect"
         /\ \/ /\ GrantAccess(r)
               /\ tickets[req[r].ticket].target \in Users
               /\ req[r].seen.perms \cup tickets[req[r].ticket].want \in SUBSET Modules
               /\ rows' = SetUserPermissions(rows, tickets[req[r].ticket].target,
                            req[r].seen.perms \cup tickets[req[r].ticket].want)
            \/ /\ TerminateTarget(r)
               /\ tickets[req[r].ticket].target \in Users
               /\ rows' = Terminate(rows, tickets[req[r].ticket].target)
            \/ /\ MakeAccount(r)
               /\ \E u \in Users \ used : rows' = CreateUser(rows, u, "member", {})
<1>1. GrantAccess(r) \/ TerminateTarget(r) \/ MakeAccount(r)
  BY DEF Handle, OpenTicket, DecideTicket, LoadTicket, LoadTarget, CountTheAdmins, Stamp, Resolve,
         SetStatus, GiveUp
<1>2. /\ TypeOK /\ req[r] # NoReq /\ req[r].pc = "effect"
      /\ Relies(req[r]) /\ req[r].ticket \in Tickets /\ req[r].seen \in UserRow \cup {NoRow}
  BY <1>1, InFlightFields DEF TicketInv, GrantAccess, TerminateTarget, MakeAccount, At
<1>3. CASE GrantAccess(r)
  <2>1. req[r].op = "grant_access" /\ req[r].seen \in UserRow
    BY <1>2, <1>3 DEF GrantAccess, At, Relies
  <2>2. /\ tickets[req[r].ticket].target \in Users
        /\ tickets[req[r].ticket].want \in SUBSET Modules
    BY <1>2, <2>1, TicketFields DEF Relies, Clicks
  <2>3. req[r].seen.perms \in SUBSET Modules
    BY <2>1 DEF UserRow
  <2> QED
    BY <1>2, <1>3, <2>2, <2>3 DEF GrantAccess
<1>4. CASE TerminateTarget(r)
  <2>1. req[r].op = "terminate"
    BY <1>4 DEF TerminateTarget, At
  <2>2. tickets[req[r].ticket].target \in Users
    BY <1>2, <2>1, TicketFields DEF Relies, Clicks
  <2> QED
    BY <1>2, <1>4, <2>2 DEF TerminateTarget
<1>5. CASE MakeAccount(r)
  BY <1>2, <1>5 DEF MakeAccount
<1> QED BY <1>1, <1>3, <1>4, <1>5

LEMMA RowsNext ==
  ASSUME TicketInv, [Next]_vars
  PROVE  rows' \in UsersTable /\ used' \subseteq Users
<1>1. rows \in UsersTable /\ used \subseteq Users
  BY DEF TicketInv, TypeOK
<1>2. "member" \in Roles /\ "disabled" \in Statuses /\ "active" \in Statuses /\ {} \in SUBSET Modules
  BY DEF Roles, Statuses
<1>3. ASSUME NEW r \in Requests, Handle(r) PROVE rows' \in UsersTable
  <2>1. CASE rows' = rows
    BY <1>1, <2>1
  <2>2. CASE rows' # rows
    BY <1>1, <1>2, <1>3, <2>2, RowsWritten, StoreTypes
  <2> QED BY <2>1, <2>2
<1>4. ASSUME NEW r \in Requests, AccountsPage(r) PROVE rows' \in UsersTable
  <2>1. PICK u \in Users :
          \/ \E role \in Roles, perms \in SUBSET Modules :
               rows' = UpdateProfile(rows, u, role, perms)
          \/ \E status \in Statuses : rows' = UpdateUserStatus(rows, u, status)
          \/ rows' = DeleteUser(rows, u)
    BY <1>4 DEF AccountsPage
  <2> QED
    BY <1>1, <1>2, <2>1, StoreTypes
<1> QED
  BY <1>1, <1>3, <1>4
  DEF Next, Receive, AccountsPage, Handle, OpenTicket, DecideTicket, LoadTicket, LoadTarget,
      CountTheAdmins, GrantAccess, TerminateTarget, MakeAccount, Stamp, Resolve, SetStatus,
      GiveUp, vars

LEMMA TicketInvNext == TicketInv /\ [Next]_vars => TicketInv'
<1> SUFFICES ASSUME TicketInv, [Next]_vars PROVE TicketInv'
  OBVIOUS
<1>1. /\ tickets' \in [Tickets -> Ticket \cup {NoTicket}]
      /\ req' \in [Requests -> InFlight \cup {NoReq}]
      /\ overlapped' \in BOOLEAN
  <2>1. tickets' = [k \in Tickets |-> tickets'[k]]
    BY DEF Next, Receive, AccountsPage, Handle, OpenTicket, DecideTicket, LoadTicket, LoadTarget,
           CountTheAdmins, GrantAccess, TerminateTarget, MakeAccount, Stamp, Resolve, SetStatus,
           SetTicketApproval, UpdateTicketStatus, GiveUp, vars, TicketInv, TypeOK
  <2>2. req' = [r \in Requests |-> req'[r]]
    BY DEF Next, Receive, AccountsPage, Handle, OpenTicket, DecideTicket, LoadTicket, LoadTarget,
           CountTheAdmins, GrantAccess, TerminateTarget, MakeAccount, Stamp, Resolve, SetStatus,
           Go, Answer, GiveUp, vars, TicketInv, TypeOK
  <2>3. overlapped' \in BOOLEAN
    BY DEF Next, Receive, AccountsPage, Handle, OpenTicket, DecideTicket, LoadTicket, LoadTarget,
           CountTheAdmins, GrantAccess, TerminateTarget, MakeAccount, Stamp, Resolve, SetStatus,
           Overlap, GiveUp, vars, TicketInv, TypeOK
  <2> QED BY <2>1, <2>2, <2>3, TicketsNext, SlotNext
<1>2. \A k \in Tickets : tickets'[k] # NoTicket => Consistent(tickets'[k])
  BY TicketsNext
<1>3. \A r \in Requests : req'[r] # NoReq => Relies(req[r])'
  BY SlotNext
<1> QED
  BY <1>1, <1>2, <1>3, RowsNext DEF TicketInv, TypeOK, Consistent

\* Type correctness of the service desk.
THEOREM DeskTypeCorrect == Spec => []TypeOK
BY DeskStart, TicketInvNext, PTL DEF Spec, TicketInv

\* Nothing is carried out that no admin decided on, however requests interleave.
THEOREM AlwaysSomeoneDecided == Spec => []SomeoneDecided
<1>1. TicketInv => SomeoneDecided
  BY DEF TicketInv, Consistent, SomeoneDecided
<1> QED BY <1>1, DeskStart, TicketInvNext, PTL DEF Spec

-----------------------------------------------------------------------------
(* One request after another.                                              *)

OthersIdle(r) == \A s \in Requests \ {r} : req[s] = NoReq

\* A request alone: the ticket still says what it said when it was loaded, the target
\* is as it was loaded, one about to take an admin away leaves another, and what was
\* done to the account is still done when it is stamped.
Alone(q) ==
  LET t == tickets[q.ticket] IN
    q.op \in Clicks =>
      /\ q.pc \in {"target", "count", "effect"} =>
           t.approval = "approved" /\ t.created = NoUser /\ ~t.applied
      /\ q.op # "new_account" /\ q.pc \in {"count", "effect"} =>
           q.seen # NoRow /\ q.seen = rows[t.target]
      /\ q.op = "terminate" /\ q.pc = "effect" /\ q.seen.role = "admin" => CountAdmins(rows) > 1
      /\ q.pc = "stamp" =>
           /\ q.op = "grant_access" => t.want \subseteq rows[t.target].perms
           /\ q.op = "terminate" => rows[t.target].status = "disabled"
           /\ q.op = "new_account" => Exists(rows, q.made)

TurnInv ==
  /\ TicketInv
  /\ \A u \in Users : Exists(rows, u) => u \in used
  /\ ~overlapped =>
       /\ ActiveAdmins(rows) # {}
       /\ \A r \in Requests : req[r] # NoReq => OthersIdle(r) /\ Alone(req[r])

LEMMA TurnStart == Init => TurnInv
BY DeskStart DEF Init, TurnInv

\* A row only appears under an id that counts as used from then on.
LEMMA RowsAreUsed ==
  ASSUME TurnInv, [Next]_vars
  PROVE  \A u \in Users : Exists(rows', u) => u \in used'
<1>1. TicketInv /\ rows \in UsersTable
  BY DEF TurnInv, TicketInv, TypeOK
<1>2. used \subseteq used'
  BY DEF Next, Receive, AccountsPage, Handle, OpenTicket, DecideTicket, LoadTicket, LoadTarget,
         CountTheAdmins, GrantAccess, TerminateTarget, MakeAccount, Stamp, Resolve, SetStatus,
         GiveUp, vars
<1>3. "member" \in Roles /\ "disabled" \in Statuses /\ "active" \in Statuses /\ {} \in SUBSET Modules
  BY DEF Roles, Statuses
<1>4. CASE rows' = rows
  BY <1>2, <1>4 DEF TurnInv
<1>5. ASSUME NEW r \in Requests, AccountsPage(r)
      PROVE  \A u \in Users : Exists(rows', u) => u \in used'
  <2>1. PICK x \in Users :
          \/ \E role \in Roles, perms \in SUBSET Modules :
               rows' = UpdateProfile(rows, x, role, perms)
          \/ \E status \in Statuses : rows' = UpdateUserStatus(rows, x, status)
          \/ rows' = DeleteUser(rows, x)
    BY <1>5 DEF AccountsPage
  <2>2. \A u \in Users : Exists(rows', u) => Exists(rows, u)
    BY <1>1, <1>3, <2>1, StatementsKeepRows
  <2> QED BY <1>2, <2>2 DEF TurnInv
<1>6. ASSUME NEW r \in Requests, Handle(r), rows' # rows
      PROVE  \A u \in Users : Exists(rows', u) => u \in used'
  <2>1. CASE MakeAccount(r)
    <3>1. PICK x \in Users \ used : rows' = CreateUser(rows, x, "member", {}) /\ used' = used \cup {x}
      BY <2>1 DEF MakeAccount
    <3> QED BY <1>1, <1>3, <3>1, StatementsKeepRows DEF TurnInv
  <2>2. CASE ~MakeAccount(r)
    <3>1. \/ \E x \in Users, perms \in SUBSET Modules : rows' = SetUserPermissions(rows, x, perms)
          \/ \E x \in Users : rows' = Terminate(rows, x)
      BY <1>1, <1>6, <2>2, RowsWritten
    <3>2. ASSUME NEW x \in Users, NEW perms \in SUBSET Modules, NEW u \in Users
          PROVE  /\ Exists(SetUserPermissions(rows, x, perms), u) => Exists(rows, u)
                 /\ Exists(Terminate(rows, x), u) => Exists(rows, u)
      BY <1>1, <1>3, StatementsKeepRows
    <3>3. \A u \in Users : Exists(rows', u) => Exists(rows, u)
      BY <1>3, <3>1, <3>2
    <3> QED BY <1>2, <3>3 DEF TurnInv
  <2> QED BY <2>1, <2>2
<1> QED
  BY <1>4, <1>5, <1>6 DEF Next, Receive, vars

LEMMA GoFields ==
  ASSUME TypeOK, NEW r \in Requests, req[r] # NoReq,
         NEW pc \in {"load", "target", "count", "effect", "stamp", "resolve"},
         NEW seen \in UserRow \cup {NoRow}, Go(r, pc, seen)
  PROVE  /\ req'[r].pc = pc /\ req'[r].seen = seen
         /\ req'[r].op = req[r].op /\ req'[r].ticket = req[r].ticket /\ req'[r].made = req[r].made
         /\ req'[r] # NoReq
<1>1. req[r] \in InFlight /\ req'[r] = [req[r] EXCEPT !.pc = pc, !.seen = seen]
  BY DEF TypeOK, Go
<1>2. req'[r] \in InFlight
  BY GoType
<1> QED
  BY <1>1, <1>2, NoTicketIsNoTicket DEF InFlight

\* The request that moves is the only one, and stays alone.
LEMMA AloneNext ==
  ASSUME TurnInv, ~overlapped, NEW r \in Requests, Handle(r), req'[r] # NoReq
  PROVE  Alone(req[r])'
<1>1. req[r] # NoReq
  BY DEF Handle, OpenTicket, DecideTicket, LoadTicket, LoadTarget, CountTheAdmins, GrantAccess,
         TerminateTarget, MakeAccount, Stamp, Resolve, SetStatus, GiveUp, At
<1>2. TypeOK /\ Relies(req[r]) /\ Alone(req[r]) /\ req[r] \in InFlight /\ req[r].ticket \in Tickets
  BY <1>1, InFlightFields DEF TurnInv, TicketInv
<1>3. ~Answer(r)
  BY <1>2 DEF Answer, TypeOK
<1> DEFINE t == tickets[req[r].ticket]
<1>4. CASE LoadTicket(r)
  <2>1. /\ req[r].op \in Clicks => MayCarryOut(t, req[r].op)
        /\ t # NoTicket
        /\ \/ Go(r, "effect", NoRow) /\ req[r].op \in {"status", "new_account"}
           \/ Go(r, "target", NoRow) /\ req[r].op # "new_account"
        /\ tickets' = tickets
    BY <1>3, <1>4 DEF LoadTicket, At, Clicks, GetTicket
  <2>2. Consistent(t)
    BY <1>2, <2>1 DEF TurnInv, TicketInv
  <2>3. req[r].op \in Clicks => t.approval = "approved" /\ t.created = NoUser /\ ~t.applied
    BY <2>1, <2>2 DEF MayCarryOut, RequiresApproval, Consistent
  <2>4. /\ req'[r].op = req[r].op /\ req'[r].ticket = req[r].ticket
        /\ req'[r].pc \in {"effect", "target"}
        /\ req'[r].pc = "effect" => req[r].op \in {"status", "new_account"}
    BY <1>1, <1>2, <2>1, GoFields
  <2> QED
    BY <2>1, <2>3, <2>4 DEF Alone, Clicks
<1>5. CASE LoadTarget(r)
  <2>1. rows[t.target] \in UserRow \cup {NoRow}
    BY <1>2, <1>5, TicketFields DEF LoadTarget, At, Relies, Clicks, TypeOK, UsersTable
  <2>2. /\ req[r].op \in {"grant_access", "terminate"} /\ req[r].pc = "target"
        /\ rows[t.target] # NoRow
        /\ Go(r, IF req[r].op = "terminate" /\ rows[t.target].role = "admin"
                 THEN "count" ELSE "effect", rows[t.target])
        /\ tickets' = tickets /\ rows' = rows
    BY <1>3, <1>5 DEF LoadTarget, At
  <2>3. /\ req'[r].op = req[r].op /\ req'[r].ticket = req[r].ticket
        /\ req'[r].seen = rows[t.target]
        /\ req'[r].pc = IF req[r].op = "terminate" /\ rows[t.target].role = "admin"
                        THEN "count" ELSE "effect"
    BY <1>1, <1>2, <2>1, <2>2, GoFields
  <2> QED
    BY <1>2, <2>2, <2>3 DEF Alone, Clicks
<1>6. CASE CountTheAdmins(r)
  <2>1. /\ req[r].op = "terminate" /\ req[r].pc = "count" /\ CountAdmins(rows) > 1
        /\ Go(r, "effect", req[r].seen) /\ tickets' = tickets /\ rows' = rows
    BY <1>3, <1>6 DEF CountTheAdmins, At
  <2>2. /\ req'[r].op = req[r].op /\ req'[r].ticket = req[r].ticket
        /\ req'[r].seen = req[r].seen /\ req'[r].pc = "effect"
    BY <1>1, <1>2, <2>1, GoFields, InFlightFields
  <2> QED
    BY <1>2, <2>1, <2>2 DEF Alone, Clicks
<1>7. CASE GrantAccess(r)
  <2>1. /\ req[r].op = "grant_access" /\ req[r].pc = "effect" /\ Go(r, "stamp", NoRow)
        /\ rows' = SetUserPermissions(rows, t.target, req[r].seen.perms \cup t.want)
        /\ tickets' = tickets
    BY <1>7 DEF GrantAccess, At
  <2>2. /\ req'[r].op = req[r].op /\ req'[r].ticket = req[r].ticket /\ req'[r].pc = "stamp"
    BY <1>1, <1>2, <2>1, GoFields
  <2>3. /\ t.target \in Users /\ t.want \in SUBSET Modules /\ rows \in UsersTable
        /\ req[r].seen \in UserRow /\ Exists(rows, t.target)
    BY <1>2, <2>1, TicketFields DEF Relies, Clicks, Alone, Exists, TypeOK, UsersTable
  <2>4. req[r].seen.perms \cup t.want \in SUBSET Modules
    BY <2>3 DEF UserRow
  <2>5. rows'[t.target] = [rows[t.target] EXCEPT !.perms = req[r].seen.perms \cup t.want]
    BY <2>1, <2>3, <2>4, PermissionsOnly
  <2>6. rows[t.target] \in UserRow
    BY <2>3 DEF UsersTable, Exists
  <2>7. t.want \subseteq rows'[t.target].perms
    BY <2>5, <2>6 DEF UserRow
  <2> QED
    BY <2>1, <2>2, <2>7 DEF Alone, Clicks
<1>8. CASE TerminateTarget(r)
  <2>1. /\ req[r].op = "terminate" /\ req[r].pc = "effect" /\ Go(r, "stamp", NoRow)
        /\ rows' = Terminate(rows, t.target) /\ tickets' = tickets
    BY <1>8 DEF TerminateTarget, At
  <2>2. /\ req'[r].op = req[r].op /\ req'[r].ticket = req[r].ticket /\ req'[r].pc = "stamp"
    BY <1>1, <1>2, <2>1, GoFields
  <2>3. t.target \in Users /\ rows \in UsersTable /\ Exists(rows, t.target)
    BY <1>2, <2>1, TicketFields DEF Relies, Clicks, Alone, Exists, TypeOK
  <2>4. rows'[t.target].status = "disabled"
    BY <2>1, <2>3 DEF Terminate, UpdateUserStatus, Update, UsersTable, UserRow, Exists
  <2> QED
    BY <2>1, <2>2, <2>4 DEF Alone, Clicks
<1>9. CASE MakeAccount(r)
  <2>1. PICK u \in Users \ used :
          /\ rows' = CreateUser(rows, u, "member", {})
          /\ req' = [req EXCEPT ![r] = [@ EXCEPT !.pc = "stamp", !.made = u]]
    BY <1>9 DEF MakeAccount
  <2>2. req[r].op = "new_account" /\ tickets' = tickets
    BY <1>9 DEF MakeAccount, At
  <2>3. req'[r] = [req[r] EXCEPT !.pc = "stamp", !.made = u]
    BY <1>2, <2>1 DEF TypeOK
  <2>4. /\ req'[r].pc = "stamp" /\ req'[r].made = u /\ req'[r].op = "new_account"
        /\ req'[r].ticket = req[r].ticket
    BY <1>2, <2>2, <2>3 DEF InFlight
  <2>5. Exists(rows', u)
    BY <1>2, <2>1, StatementsKeepRows DEF TypeOK, Roles, Statuses
  <2> QED
    BY <2>2, <2>4, <2>5 DEF Alone, Clicks
<1>10. CASE Stamp(r)
  <2>1. Go(r, "resolve", NoRow)
    BY <1>10 DEF Stamp
  <2>2. req'[r].pc = "resolve"
    BY <1>1, <1>2, <2>1, GoFields
  <2> QED
    BY <2>2 DEF Alone
<1> QED
  BY <1>3, <1>4, <1>5, <1>6, <1>7, <1>8, <1>9, <1>10
  DEF Handle, OpenTicket, DecideTicket, Resolve, SetStatus, GiveUp

\* Neither a click nor the accounts page takes the last active admin away.
LEMMA AdminsNext ==
  ASSUME TurnInv, ~overlapped, NEW r \in Requests, Handle(r) \/ AccountsPage(r)
  PROVE  ActiveAdmins(rows') # {}
<1>1. TicketInv /\ TypeOK /\ rows \in UsersTable /\ ActiveAdmins(rows) # {}
  BY DEF TurnInv, TicketInv, TypeOK
<1>2. PICK a \in ActiveAdmins(rows) : TRUE
  BY <1>1
<1>3. /\ "member" \in Roles /\ "disabled" \in Statuses /\ "active" \in Statuses
      /\ {} \in SUBSET Modules
  BY DEF Roles, Statuses
<1>4. CASE AccountsPage(r)
  <2>1. PICK by \in ActiveAdmins(rows), u \in Users :
          /\ u # by
          /\ \/ \E role \in Roles, perms \in SUBSET Modules :
                  rows' = UpdateProfile(rows, u, role, perms)
             \/ \E status \in Statuses : rows' = UpdateUserStatus(rows, u, status)
             \/ rows' = DeleteUser(rows, u)
    BY <1>4 DEF AccountsPage
  <2>2. by \in ActiveAdmins(rows')
    BY <1>1, <1>3, <2>1, OthersKept
  <2> QED BY <2>2
<1>5. CASE Handle(r) /\ rows' = rows
  BY <1>1, <1>5
<1>6. CASE Handle(r) /\ rows' # rows
  <2> DEFINE t == tickets[req[r].ticket]
  <2>1. req[r] # NoReq /\ req[r].pc = "effect" /\ Relies(req[r]) /\ Alone(req[r])
    BY <1>1, <1>6, RowsWritten DEF TurnInv, TicketInv
  <2>2. CASE GrantAccess(r)
    <3>1. PICK x \in Users, perms \in SUBSET Modules : rows' = SetUserPermissions(rows, x, perms)
      BY <2>2, <1>1, <1>6, RowsWritten DEF GrantAccess, TerminateTarget, MakeAccount, At
    <3> QED BY <1>1, <3>1, PermissionsOnly
  <2>3. CASE TerminateTarget(r)
    <3>1. req[r].op = "terminate" /\ t.target \in Users /\ rows' = Terminate(rows, t.target)
      BY <2>3, <1>1, <1>6, RowsWritten DEF TerminateTarget, MakeAccount, GrantAccess, At
    <3>2. req[r].seen = rows[t.target]
      BY <2>1, <3>1 DEF Alone, Clicks
    <3>3. \E b \in ActiveAdmins(rows) : b # t.target
      <4>1. CASE t.target \in ActiveAdmins(rows)
        <5>1. CountAdmins(rows) > 1
          BY <2>1, <3>1, <3>2, <4>1 DEF Alone, Clicks, ActiveAdmins
        <5> QED BY <3>1, <5>1, OneAdminLeft
      <4>2. CASE t.target \notin ActiveAdmins(rows)
        BY <1>2, <4>2
      <4> QED BY <4>1, <4>2
    <3>4. PICK b \in ActiveAdmins(rows) : b # t.target
      BY <3>3
    <3>5. b \in ActiveAdmins(Terminate(rows, t.target))
      BY <1>1, <1>3, <3>1, <3>4, OthersKept
    <3> QED BY <3>1, <3>5
  <2>4. CASE MakeAccount(r)
    <3>1. PICK u \in Users \ used : rows' = CreateUser(rows, u, "member", {})
      BY <2>4 DEF MakeAccount
    <3>2. a # u
      BY <1>2, <3>1 DEF TurnInv, ActiveAdmins
    <3>3. a \in ActiveAdmins(CreateUser(rows, u, "member", {}))
      BY <1>1, <1>3, <3>1, <3>2, OthersKept
    <3> QED BY <3>1, <3>3
  <2> QED
    BY <1>1, <1>6, <2>2, <2>3, <2>4, RowsWritten
<1> QED BY <1>4, <1>5, <1>6

LEMMA TurnNext == TurnInv /\ [Next]_vars => TurnInv'
<1> SUFFICES ASSUME TurnInv, [Next]_vars PROVE TurnInv'
  OBVIOUS
<1>1. TicketInv /\ TicketInv' /\ TypeOK
  BY TicketInvNext DEF TurnInv, TicketInv
<1>2. \A u \in Users : Exists(rows', u) => u \in used'
  BY RowsAreUsed
<1>3. ASSUME ~overlapped'
      PROVE  /\ ActiveAdmins(rows') # {}
             /\ \A q \in Requests : req'[q] # NoReq => OthersIdle(q)' /\ Alone(req[q])'
  <2>1. ~overlapped
    BY <1>3 DEF Next, Receive, AccountsPage, Handle, OpenTicket, DecideTicket, LoadTicket,
                LoadTarget, CountTheAdmins, GrantAccess, TerminateTarget, MakeAccount, Stamp,
                Resolve, SetStatus, Overlap, GiveUp, vars
  <2>2. /\ ActiveAdmins(rows) # {}
        /\ \A q \in Requests : req[q] # NoReq => OthersIdle(q) /\ Alone(req[q])
    BY <2>1 DEF TurnInv
  <2>3. CASE UNCHANGED vars
    BY <2>2, <2>3 DEF vars, OthersIdle, Alone
  <2>4. ASSUME NEW r \in Requests, Receive(r)
        PROVE  /\ ActiveAdmins(rows') # {}
               /\ \A q \in Requests : req'[q] # NoReq => OthersIdle(q)' /\ Alone(req[q])'
    <3>1. \A s \in Requests \ {r} : req[s] = NoReq /\ req'[s] = NoReq
      BY <1>1, <1>3, <2>4 DEF Receive, Overlap, TypeOK
    <3>2. req'[r].op \in Clicks => req'[r].pc = "load"
      BY <1>1, <2>4 DEF Receive, TypeOK, Clicks
    <3>3. Alone(req[r])'
      BY <3>2 DEF Alone
    <3>4. rows' = rows
      BY <2>4 DEF Receive
    <3> QED
      BY <2>2, <3>1, <3>3, <3>4 DEF OthersIdle
  <2>5. ASSUME NEW r \in Requests, AccountsPage(r)
        PROVE  /\ ActiveAdmins(rows') # {}
               /\ \A q \in Requests : req'[q] # NoReq => OthersIdle(q)' /\ Alone(req[q])'
    <3>1. \A s \in Requests : req'[s] = NoReq
      BY <1>3, <2>5 DEF AccountsPage, Overlap
    <3>2. ActiveAdmins(rows') # {}
      BY <2>1, <2>5, AdminsNext
    <3> QED BY <3>1, <3>2
  <2>6. ASSUME NEW r \in Requests, Handle(r)
        PROVE  /\ ActiveAdmins(rows') # {}
               /\ \A q \in Requests : req'[q] # NoReq => OthersIdle(q)' /\ Alone(req[q])'
    <3>1. req[r] # NoReq
      BY <2>6
      DEF Handle, OpenTicket, DecideTicket, LoadTicket, LoadTarget, CountTheAdmins, GrantAccess,
          TerminateTarget, MakeAccount, Stamp, Resolve, SetStatus, GiveUp, At
    <3>2. \A s \in Requests \ {r} : req[s] = NoReq
      BY <2>2, <3>1 DEF OthersIdle
    <3>3. \A s \in Requests \ {r} : req'[s] = NoReq
      BY <1>1, <2>6, <3>2
      DEF Handle, OpenTicket, DecideTicket, LoadTicket, LoadTarget, CountTheAdmins, GrantAccess,
          TerminateTarget, MakeAccount, Stamp, Resolve, SetStatus, GiveUp, Go, Answer, TypeOK
    <3>4. ActiveAdmins(rows') # {}
      BY <2>1, <2>6, AdminsNext
    <3>5. req'[r] # NoReq => Alone(req[r])'
      BY <2>1, <2>6, AloneNext
    <3> QED
      BY <3>3, <3>4, <3>5 DEF OthersIdle
  <2> QED
    BY <2>3, <2>4, <2>5, <2>6 DEF Next
<1> QED
  BY <1>1, <1>2, <1>3 DEF TurnInv

\* One request after another: the panel is never left without an active admin.
THEOREM DeskKeepsAnAdmin == Spec => []SomeActiveAdmin
<1>1. TurnInv => SomeActiveAdmin
  BY DEF TurnInv, SomeActiveAdmin
<1> QED BY <1>1, TurnStart, TurnNext, PTL DEF Spec

\* One request after another: a ticket about to be marked was carried out.
THEOREM StampsAlwaysTellTheTruth == Spec => []StampsTellTheTruth
<1>1. TurnInv => StampsTellTheTruth
  BY DEF TurnInv, Alone, StampsTellTheTruth, At, Clicks
<1> QED BY <1>1, TurnStart, TurnNext, PTL DEF Spec

\* One request after another: the ticket a click carries out is approved at that step,
\* and was not carried out before.
LEMMA CarriedOutAlone ==
  ASSUME TurnInv, ~overlapped, NEW r \in Requests, CarriesOut(r)
  PROVE  LET t == tickets[req[r].ticket] IN
           t.approval = "approved" /\ t.created = NoUser /\ ~t.applied
BY DEF TurnInv, CarriesOut, At, Alone

\* One request after another: only an approved ticket is carried out ("gated by
\* approval", handleTicketCreateAccount), although the approval was read steps before.
THEOREM AlwaysApprovedFirst == Spec => ApprovedFirst
<1>1. TurnInv => (~overlapped => \A r \in Requests :
        CarriesOut(r) => tickets[req[r].ticket].approval = "approved")
  BY CarriedOutAlone
<1> QED BY <1>1, TurnStart, TurnNext, PTL DEF Spec, ApprovedFirst

\* One request after another: no ticket makes two accounts, or is granted twice.
THEOREM AlwaysOncePerTicket == Spec => OncePerTicket
<1>1. TurnInv => (~overlapped => \A r \in Requests :
        CarriesOut(r) => LET t == tickets[req[r].ticket] IN t.created = NoUser /\ ~t.applied)
  BY CarriedOutAlone
<1> QED BY <1>1, TurnStart, TurnNext, PTL DEF Spec, OncePerTicket

\* One request after another: granting takes no permission away.
THEOREM GrantsAlwaysOnlyAdd == Spec => GrantsOnlyAdd
<1>1. ASSUME TurnInv, [Next]_vars, ~overlapped, NEW r \in Requests, CarriesOut(r),
             req[r].op = "grant_access", Exists(rows, tickets[req[r].ticket].target)
      PROVE  LET u == tickets[req[r].ticket].target IN rows[u].perms \subseteq rows'[u].perms
  <2> DEFINE u == tickets[req[r].ticket].target
  <2>1. /\ TypeOK /\ Relies(req[r]) /\ Alone(req[r]) /\ OthersIdle(r)
        /\ req[r] # NoReq /\ req[r].pc = "effect" /\ req'[r] # NoReq /\ req'[r].pc = "stamp"
    BY <1>1 DEF TurnInv, TicketInv, CarriesOut, At
  <2>2. /\ u \in Users /\ req[r].seen = rows[u] /\ rows \in UsersTable /\ Exists(rows, u)
        /\ tickets[req[r].ticket].want \in SUBSET Modules
    BY <1>1, <2>1, InFlightFields, TicketFields DEF Relies, Alone, Clicks, TypeOK
  <2>3. Handle(r)
    <3>1. ASSUME NEW s \in Requests, Receive(s) \/ AccountsPage(s) PROVE req'[r] = req[r]
      BY <2>1, <3>1 DEF Receive, AccountsPage, TypeOK
    <3>2. ASSUME NEW s \in Requests, Handle(s) PROVE s = r
      BY <2>1, <3>2
      DEF Handle, OpenTicket, DecideTicket, LoadTicket, LoadTarget, CountTheAdmins, GrantAccess,
          TerminateTarget, MakeAccount, Stamp, Resolve, SetStatus, GiveUp, At, OthersIdle
    <3> QED
      BY <1>1, <2>1, <3>1, <3>2 DEF Next, vars
  <2>4. GrantAccess(r)
    <3>1. ~Answer(r)
      BY <2>1 DEF Answer, TypeOK
    <3> QED
      BY <1>1, <2>1, <2>3, <3>1
      DEF Handle, OpenTicket, DecideTicket, LoadTicket, LoadTarget, CountTheAdmins,
          TerminateTarget, MakeAccount, Stamp, Resolve, SetStatus, GiveUp, At
  <2>5. rows[u] \in UserRow
    BY <2>2 DEF UsersTable, Exists
  <2>6. rows'[u] = [rows[u] EXCEPT !.perms = rows[u].perms \cup tickets[req[r].ticket].want]
    <3>1. rows[u].perms \cup tickets[req[r].ticket].want \in SUBSET Modules
      BY <2>2, <2>5 DEF UserRow
    <3> QED
      <4>1. rows' = SetUserPermissions(rows, u, rows[u].perms \cup tickets[req[r].ticket].want)
        BY <2>2, <2>4 DEF GrantAccess
      <4> HIDE DEF u
      <4> QED
        BY <2>2, <3>1, <4>1, PermissionsOnly
  <2> QED
    BY <2>5, <2>6 DEF UserRow
<1>2. TurnInv /\ [Next]_vars => (~overlapped => \A r \in Requests :
        CarriesOut(r) /\ req[r].op = "grant_access" =>
          LET u == tickets[req[r].ticket].target IN
            Exists(rows, u) => rows[u].perms \subseteq rows'[u].perms)
  BY <1>1
<1> QED BY <1>2, TurnStart, TurnNext, PTL DEF Spec, GrantsOnlyAdd

(***************************************************************************)
(* Support groups and escalation, for any finite set of lines and any      *)
(* number of tickets: nobody is left untold, and no line is skipped.       *)
(*                                                                         *)
(* ToldInv says that whoever does not know yet has a handler that is going *)
(* to tell them; AloneInv that until handlers have met an escalation still *)
(* goes where the ticket's line, as it is now, sends it. What the fold in  *)
(* NextSupportGroup finds comes first.                                     *)
(***************************************************************************)

-----------------------------------------------------------------------------
(* The next line up.                                                       *)
(*                                                                         *)
(* NextSupportGroup folds over the lines, so what it finds is a matter of  *)
(* induction over finite sets: among the sets for which it goes wrong one  *)
(* would be least.                                                         *)

LEMMA LeastSubset ==
  ASSUME NEW S, IsFiniteSet(S), NEW T, T \subseteq SUBSET S, T # {}
  PROVE  \E s \in T : \A t \in T : t \subseteq s => t = s
<1> DEFINE R == StrictSubsetOrdering(S)
           F == FiniteSubsetsOf(S)
<1>1. IsWellFoundedOn(R, F)
  BY FS_StrictSubsetOrderingWellFounded
<1>2. T \subseteq F
  BY FS_Subset DEF FiniteSubsetsOf
<1>3. PICK s \in T : \A t \in T : ~(<<t, s>> \in R)
  BY <1>1, <1>2, WFMin
<1>4. \A t \in T : t \subseteq s /\ t # s => <<t, s>> \in R
  BY DEF StrictSubsetOrdering
<1> HIDE DEF R
<1>5. \A t \in T : t \subseteq s => t = s
  BY <1>3, <1>4
<1> QED BY <1>5

Any(s) == CHOOSE l \in s : TRUE

\* One turn of the pass.
Better(from, l, best) ==
  IF Rank[l] > from /\ (best = NoLine \/ Rank[l] < Rank[best]) THEN l ELSE best

\* g[s] is what the pass over the lines s finds.
Pass(from, S, g) ==
  g = [s \in SUBSET S |->
         IF s = {} THEN NoLine ELSE Better(from, Any(s), g[s \ {Any(s)}])]

LEMMA PassIsOne ==
  ASSUME NEW from, NEW S, NEW U, IsFiniteSet(S), NEW g, NEW h, Pass(from, S, g), Pass(from, U, h),
         NEW r, r \subseteq S, r \subseteq U
  PROVE  g[r] = h[r]
<1> DEFINE T == {s \in SUBSET S : s \subseteq U /\ g[s] # h[s]}
<1> SUFFICES ASSUME T # {} PROVE FALSE
  OBVIOUS
<1>1. PICK s \in T : \A t \in T : t \subseteq s => t = s
  <2>1. T \subseteq SUBSET S
    OBVIOUS
  <2> HIDE DEF T
  <2> QED BY <2>1, LeastSubset
<1>2. s \subseteq S /\ s \subseteq U /\ g[s] # h[s]
  OBVIOUS
<1>3. s # {}
  BY <1>2 DEF Pass
<1>4. Any(s) \in s
  BY <1>3 DEF Any
<1>5. s \ {Any(s)} \notin T /\ s \ {Any(s)} \subseteq S /\ s \ {Any(s)} \subseteq U
  BY <1>1, <1>2, <1>4
<1>6. g[s \ {Any(s)}] = h[s \ {Any(s)}]
  BY <1>5
<1>7. g[s] = Better(from, Any(s), g[s \ {Any(s)}])
  BY <1>2, <1>3 DEF Pass
<1>8. h[s] = Better(from, Any(s), h[s \ {Any(s)}])
  BY <1>2, <1>3 DEF Pass
<1> QED BY <1>2, <1>6, <1>7, <1>8

LEMMA PassExists ==
  ASSUME NEW from, NEW S, IsFiniteSet(S)
  PROVE  \E g : Pass(from, S, g)
<1> DEFINE T == {s \in SUBSET S : ~\E g : Pass(from, s, g)}
<1> SUFFICES ASSUME T # {} PROVE FALSE
  OBVIOUS
<1>1. PICK s \in T : \A t \in T : t \subseteq s => t = s
  <2>1. T \subseteq SUBSET S
    OBVIOUS
  <2> HIDE DEF T
  <2> QED BY <2>1, LeastSubset
<1>2. s \subseteq S /\ ~\E g : Pass(from, s, g)
  OBVIOUS
<1>3. \A t \in SUBSET s : t # s => \E g : Pass(from, t, g)
  BY <1>1, <1>2
<1> DEFINE Found(t) == (CHOOSE g : Pass(from, t, g))[t]
           g == [t \in SUBSET s |->
                   IF t = {} THEN NoLine ELSE Better(from, Any(t), Found(t \ {Any(t)}))]
<1>4. ASSUME NEW t \in SUBSET s, t # s PROVE g[t] = Found(t)
  <2>1. PICK h : Pass(from, t, h) /\ Found(t) = h[t]
    BY <1>3, <1>4
  <2>2. CASE t = {}
    BY <2>1, <2>2 DEF Pass
  <2>3. CASE t # {}
    <3> DEFINE r == t \ {Any(t)}
    <3>1. Any(t) \in t
      BY <2>3 DEF Any
    <3>2. r \in SUBSET s /\ r # s /\ r \subseteq t
      BY <1>4, <3>1
    <3>3. PICK k : Pass(from, r, k) /\ Found(r) = k[r]
      BY <1>3, <3>2
    <3>4. IsFiniteSet(r)
      BY <1>2, <3>2, FS_Subset
    <3> HIDE DEF r
    <3>5. k[r] = h[r]
      BY <2>1, <3>2, <3>3, <3>4, PassIsOne
    <3>6. h[t] = Better(from, Any(t), h[r])
      BY <2>1, <2>3 DEF Pass, r
    <3>7. g[t] = Better(from, Any(t), Found(r))
      BY <2>3 DEF r
    <3> QED BY <2>1, <3>3, <3>5, <3>6, <3>7
  <2> QED BY <2>2, <2>3
<1>5. ASSUME NEW t \in SUBSET s, t # {}
      PROVE  g[t \ {Any(t)}] = Found(t \ {Any(t)})
  <2>1. Any(t) \in t
    BY <1>5 DEF Any
  <2>2. t \ {Any(t)} \in SUBSET s /\ t \ {Any(t)} # s
    BY <2>1
  <2> QED BY <1>4, <2>2
<1>6. \A t \in SUBSET s :
        g[t] = IF t = {} THEN NoLine ELSE Better(from, Any(t), g[t \ {Any(t)}])
  <2> SUFFICES ASSUME NEW t \in SUBSET s
               PROVE  g[t] = IF t = {} THEN NoLine ELSE Better(from, Any(t), g[t \ {Any(t)}])
    OBVIOUS
  <2>1. g[t] = IF t = {} THEN NoLine ELSE Better(from, Any(t), Found(t \ {Any(t)}))
    OBVIOUS
  <2> HIDE DEF g, Found
  <2> QED BY <1>5, <2>1
<1>7. PICK f : f = g
  OBVIOUS
<1>8. f = [t \in SUBSET s |->
             IF t = {} THEN NoLine ELSE Better(from, Any(t), f[t \ {Any(t)}])]
  BY <1>6, <1>7
<1>9. Pass(from, s, f)
  BY <1>8 DEF Pass
<1> QED BY <1>2, <1>9

\* n is the lowest of the lines s above from; of no lines, none.
Lowest(from, s, n) ==
  /\ n \in s \cup {NoLine}
  /\ n # NoLine => Rank[n] > from
  /\ \A l \in s : Rank[l] > from => n # NoLine /\ Rank[n] <= Rank[l]

\* The pass finds the lowest line above, whatever the lines and their order.
LEMMA NextIsLowest ==
  ASSUME NEW from \in Nat
  PROVE  Lowest(from, Lines, NextSupportGroup(from))
<1>1. PICK g : Pass(from, Lines, g) /\ NextSupportGroup(from) = g[Lines]
  <2>1. \E g : Pass(from, Lines, g)
    BY PassExists, LinesAreRanked
  <2>2. NextSupportGroup(from) = (CHOOSE g : Pass(from, Lines, g))[Lines]
    BY DEF NextSupportGroup, FoldSet, MapThenFoldSet, Better, Pass, Any
  <2> QED BY <2>1, <2>2
<1> DEFINE T == {s \in SUBSET Lines : ~Lowest(from, s, g[s])}
<1> SUFFICES ASSUME T # {} PROVE FALSE
  BY <1>1
<1>2. PICK s \in T : \A t \in T : t \subseteq s => t = s
  <2>1. T \subseteq SUBSET Lines
    OBVIOUS
  <2> HIDE DEF T
  <2> QED BY <2>1, LeastSubset, LinesAreRanked
<1>3. s \subseteq Lines /\ ~Lowest(from, s, g[s])
  OBVIOUS
<1>4. CASE s = {}
  <2>1. g[s] = NoLine
    BY <1>1, <1>4 DEF Pass
  <2> QED BY <1>3, <1>4, <2>1 DEF Lowest
<1>5. CASE s # {}
  <2> DEFINE l == Any(s)
             r == s \ {l}
             n == g[r]
  <2>1. l \in s
    BY <1>5 DEF Any
  <2>2. Lowest(from, r, n)
    BY <1>2, <1>3, <2>1
  <2>3. g[s] = Better(from, l, n)
    BY <1>1, <1>3, <1>5 DEF Pass
  <2> HIDE DEF l, n
  <2>4. \A m \in s : Rank[m] \in Nat /\ m # NoLine
    BY <1>3, LinesAreRanked
  <2>5. \A m \in s : m = l \/ m \in r
    OBVIOUS
  <2>6. Lowest(from, s, Better(from, l, n))
    <3>1. CASE Rank[l] > from /\ (n = NoLine \/ Rank[l] < Rank[n])
      <4>1. Better(from, l, n) = l
        BY <3>1 DEF Better
      <4>2. \A m \in s : Rank[m] > from => Rank[l] <= Rank[m]
        BY <2>1, <2>2, <2>4, <2>5, <3>1 DEF Lowest
      <4> QED BY <2>1, <2>4, <3>1, <4>1, <4>2 DEF Lowest
    <3>2. CASE ~(Rank[l] > from /\ (n = NoLine \/ Rank[l] < Rank[n]))
      <4>1. Better(from, l, n) = n
        BY <3>2 DEF Better
      <4>2. n \in s \cup {NoLine} /\ (n # NoLine => Rank[n] > from)
        BY <2>2 DEF Lowest
      <4>3. \A m \in s : Rank[m] > from => n # NoLine /\ Rank[n] <= Rank[m]
        BY <2>1, <2>2, <2>4, <2>5, <3>2, <4>2 DEF Lowest
      <4> QED BY <4>1, <4>2, <4>3 DEF Lowest
    <3> QED BY <3>1, <3>2
  <2> QED BY <1>3, <2>3, <2>6
<1> QED BY <1>4, <1>5

-----------------------------------------------------------------------------
(* Types.                                                                  *)

LEMMA NextIsALine ==
  ASSUME QueueTypeOK, NextSupportGroup(RankOf(line)) # NoLine
  PROVE  NextSupportGroup(RankOf(line)) \in Lines
<1>1. RankOf(line) \in Nat
  BY LinesAreRanked DEF QueueTypeOK, RankOf
<1> QED BY <1>1, NextIsLowest DEF Lowest

LEMMA OrderFields ==
  ASSUME QueueTypeOK, NEW o \in Orders, order[o] # NoOrder
  PROVE  /\ order[o] \in Order
         /\ order[o].by \in Agents /\ order[o].to \in Lines \cup {NoLine}
         /\ order[o].whom \in Agents \cup {Nobody} /\ order[o].todo \subseteq Agents
BY DEF QueueTypeOK, Order

OrderPcs == {"load", "line", "list", "notify", "assign", "tell"}

\* A handler goes on: what its step makes of its slot, and leaves of the others'.
Moves(o, pc, to, whom, todo) ==
  /\ order' \in [Orders -> Order \cup {NoOrder}]
  /\ order'[o] # NoOrder /\ order'[o].pc = pc /\ order'[o].to = to
  /\ order'[o].whom = whom /\ order'[o].todo = todo
  /\ order'[o].op = order[o].op /\ order'[o].by = order[o].by
  /\ \A p \in Orders \ {o} : order'[p] = order[p]

LEMMA RecordMoves ==
  ASSUME QueueTypeOK, NEW o \in Orders, order[o] # NoOrder, NEW n \in Order,
         order' = [order EXCEPT ![o] = n], n.op = order[o].op, n.by = order[o].by
  PROVE  Moves(o, n.pc, n.to, n.whom, n.todo)
BY NoOrderIsNone DEF QueueTypeOK, Moves

LEMMA ContinueMoves ==
  ASSUME QueueTypeOK, NEW o \in Orders, order[o] # NoOrder, NEW pc \in OrderPcs, Continue(o, pc)
  PROVE  Moves(o, pc, order[o].to, order[o].whom, order[o].todo)
<1> DEFINE n == [order[o] EXCEPT !.pc = pc]
<1>1. /\ n \in Order /\ n.op = order[o].op /\ n.by = order[o].by /\ n.pc = pc
      /\ n.to = order[o].to /\ n.whom = order[o].whom /\ n.todo = order[o].todo
  BY OrderFields DEF Order, OrderPcs
<1>2. order' = [order EXCEPT ![o] = n]
  BY DEF Continue, QueueTypeOK
<1> HIDE DEF n
<1>3. Moves(o, n.pc, n.to, n.whom, n.todo)
  BY <1>1, <1>2, RecordMoves
<1> QED BY <1>1, <1>3

\* An escalation has found its line.
LEMMA UpMoves ==
  ASSUME QueueTypeOK, NEW o \in Orders, order[o] # NoOrder, NEW to \in Lines,
         order' = [order EXCEPT ![o] = [@ EXCEPT !.pc = "line", !.to = to]]
  PROVE  Moves(o, "line", to, order[o].whom, order[o].todo)
<1> DEFINE n == [order[o] EXCEPT !.pc = "line", !.to = to]
<1>1. /\ n \in Order /\ n.op = order[o].op /\ n.by = order[o].by /\ n.pc = "line"
      /\ n.to = to /\ n.whom = order[o].whom /\ n.todo = order[o].todo
  BY OrderFields DEF Order
<1>2. order' = [order EXCEPT ![o] = n]
  BY DEF QueueTypeOK
<1> HIDE DEF n
<1>3. Moves(o, n.pc, n.to, n.whom, n.todo)
  BY <1>1, <1>2, RecordMoves
<1> QED BY <1>1, <1>3

\* "Assign to me" has found its meaning.
LEMMA MeMoves ==
  ASSUME QueueTypeOK, NEW o \in Orders, order[o] # NoOrder, NEW u \in Agents \cup {Nobody},
         order' = [order EXCEPT ![o] = [@ EXCEPT !.pc = "assign", !.whom = u]]
  PROVE  Moves(o, "assign", order[o].to, u, order[o].todo)
<1> DEFINE n == [order[o] EXCEPT !.pc = "assign", !.whom = u]
<1>1. /\ n \in Order /\ n.op = order[o].op /\ n.by = order[o].by /\ n.pc = "assign"
      /\ n.to = order[o].to /\ n.whom = u /\ n.todo = order[o].todo
  BY OrderFields DEF Order
<1>2. order' = [order EXCEPT ![o] = n]
  BY DEF QueueTypeOK
<1> HIDE DEF n
<1>3. Moves(o, n.pc, n.to, n.whom, n.todo)
  BY <1>1, <1>2, RecordMoves
<1> QED BY <1>1, <1>3

\* The members have been listed.
LEMMA ListMoves ==
  ASSUME QueueTypeOK, NEW o \in Orders, order[o] # NoOrder, NEW us \in SUBSET Agents,
         order' = [order EXCEPT ![o] = [@ EXCEPT !.pc = "notify", !.todo = us]]
  PROVE  Moves(o, "notify", order[o].to, order[o].whom, us)
<1> DEFINE n == [order[o] EXCEPT !.pc = "notify", !.todo = us]
<1>1. /\ n \in Order /\ n.op = order[o].op /\ n.by = order[o].by /\ n.pc = "notify"
      /\ n.to = order[o].to /\ n.whom = order[o].whom /\ n.todo = us
  BY OrderFields DEF Order
<1>2. order' = [order EXCEPT ![o] = n]
  BY DEF QueueTypeOK
<1> HIDE DEF n
<1>3. Moves(o, n.pc, n.to, n.whom, n.todo)
  BY <1>1, <1>2, RecordMoves
<1> QED BY <1>1, <1>3

\* One of them has been told.
LEMMA TellMoves ==
  ASSUME QueueTypeOK, NEW o \in Orders, order[o] # NoOrder, NEW u,
         order' = [order EXCEPT ![o].todo = @ \ {u}]
  PROVE  Moves(o, order[o].pc, order[o].to, order[o].whom, order[o].todo \ {u})
<1> DEFINE n == [order[o] EXCEPT !.todo = @ \ {u}]
<1>1. /\ n \in Order /\ n.op = order[o].op /\ n.by = order[o].by /\ n.pc = order[o].pc
      /\ n.to = order[o].to /\ n.whom = order[o].whom /\ n.todo = order[o].todo \ {u}
  BY OrderFields DEF Order
<1>2. order' = [order EXCEPT ![o] = n]
  BY DEF QueueTypeOK
<1> HIDE DEF n
<1>3. Moves(o, n.pc, n.to, n.whom, n.todo)
  BY <1>1, <1>2, RecordMoves
<1> QED BY <1>1, <1>3

\* Every step of a handler, but its first, ends it or goes on like this.
OrderGoesOn(o) == \E pc, to, whom, todo : Moves(o, pc, to, whom, todo)

LEMMA HandlerSteps ==
  ASSUME QueueTypeOK, NEW o \in Orders, CarryOut(o), ~GiveOrder(o)
  PROVE  order[o] # NoOrder /\ (Done(o) \/ OrderGoesOn(o))
<1>1. order[o] # NoOrder
  BY DEF CarryOut, LoadOrder, SetLine, ListMembers, NotifyMember, SetAssignee, TellAssignee, OrderAt
<1>2. order[o].by \in Agents
  BY <1>1, OrderFields
<1>3. ASSUME NEW pc \in OrderPcs, Continue(o, pc)
      PROVE  OrderGoesOn(o)
  BY <1>1, <1>3, ContinueMoves DEF OrderGoesOn
<1>4. {"line", "assign", "list", "tell"} \subseteq OrderPcs
  BY DEF OrderPcs
<1>5. CASE LoadOrder(o)
  <2> DEFINE next == NextSupportGroup(RankOf(line))
             whom == IF assignee = order[o].by THEN Nobody ELSE order[o].by
  <2>1. \/ Done(o) \/ Continue(o, "line") \/ Continue(o, "assign")
        \/ next # NoLine /\ order' = [order EXCEPT ![o] = [@ EXCEPT !.pc = "line", !.to = next]]
        \/ order' = [order EXCEPT ![o] = [@ EXCEPT !.pc = "assign", !.whom = whom]]
    BY <1>5 DEF LoadOrder
  <2>2. (next # NoLine => next \in Lines) /\ whom \in Agents \cup {Nobody}
    BY <1>2, NextIsALine
  <2> HIDE DEF next, whom
  <2>3. CASE next # NoLine /\ order' = [order EXCEPT ![o] = [@ EXCEPT !.pc = "line", !.to = next]]
    BY <1>1, <2>2, <2>3, UpMoves DEF OrderGoesOn
  <2>4. CASE order' = [order EXCEPT ![o] = [@ EXCEPT !.pc = "assign", !.whom = whom]]
    BY <1>1, <2>2, <2>4, MeMoves DEF OrderGoesOn
  <2> QED BY <1>1, <1>3, <1>4, <2>1, <2>3, <2>4
<1>6. CASE SetLine(o)
  BY <1>1, <1>3, <1>4, <1>6 DEF SetLine
<1>7. CASE ListMembers(o)
  <2> DEFINE us == ListUsersInSupportGroup(order[o].to) \ {order[o].by}
  <2>1. Done(o) \/ order' = [order EXCEPT ![o] = [@ EXCEPT !.pc = "notify", !.todo = us]]
    BY <1>7 DEF ListMembers
  <2>2. us \in SUBSET Agents
    BY DEF ListUsersInSupportGroup
  <2> HIDE DEF us
  <2> QED BY <1>1, <2>1, <2>2, ListMoves DEF OrderGoesOn
<1>8. CASE NotifyMember(o)
  <2>1. Done(o) \/ \E u : order' = [order EXCEPT ![o].todo = @ \ {u}]
    BY <1>8 DEF NotifyMember
  <2> QED BY <1>1, <2>1, TellMoves DEF OrderGoesOn
<1>9. CASE SetAssignee(o) \/ TellAssignee(o)
  BY <1>1, <1>3, <1>4, <1>9 DEF SetAssignee, TellAssignee
<1> QED BY <1>5, <1>6, <1>7, <1>8, <1>9 DEF CarryOut

\* A new order stands in a slot that was empty.
LEMMA GiveOrderFields ==
  ASSUME QueueTypeOK, NEW o \in Orders, GiveOrder(o)
  PROVE  /\ order' \in [Orders -> Order \cup {NoOrder}]
         /\ order[o] = NoOrder /\ order'[o] # NoOrder /\ order'[o].pc = "load"
         /\ \A p \in Orders \ {o} : order'[p] = order[p]
<1>1. PICK op \in {"escalate", "group", "me", "assign"}, by \in Agents,
           l \in Lines \cup {NoLine}, u \in Agents \cup {Nobody} :
             order' = [order EXCEPT ![o] =
               [pc |-> "load", op |-> op, by |-> by, to |-> l, whom |-> u, todo |-> {}]]
  BY DEF GiveOrder
<1>2. [pc |-> "load", op |-> op, by |-> by, to |-> l, whom |-> u, todo |-> {}] \in Order
  BY DEF Order
<1> QED BY <1>1, <1>2, NoOrderIsNone DEF GiveOrder, QueueTypeOK

LEMMA DoneFields ==
  ASSUME QueueTypeOK, NEW o \in Orders, Done(o)
  PROVE  /\ order' \in [Orders -> Order \cup {NoOrder}]
         /\ order'[o] = NoOrder
         /\ \A p \in Orders \ {o} : order'[p] = order[p]
BY DEF QueueTypeOK, Done

\* Whatever a handler does, it does to its own slot.
LEMMA OthersStay ==
  ASSUME QueueTypeOK, NEW o \in Orders, CarryOut(o)
  PROVE  /\ order' \in [Orders -> Order \cup {NoOrder}]
         /\ \A p \in Orders \ {o} : order'[p] = order[p]
<1>1. CASE GiveOrder(o)
  BY <1>1, GiveOrderFields
<1>2. CASE ~GiveOrder(o)
  BY <1>2, HandlerSteps, DoneFields DEF OrderGoesOn, Moves
<1> QED BY <1>1, <1>2

LEMMA QueueTypeInit == QueueInit => QueueTypeOK
BY DEF QueueInit, QueueTypeOK

LEMMA QueueTypeNext == QueueTypeOK /\ [QueueNext]_queueVars => QueueTypeOK'
<1> SUFFICES ASSUME QueueTypeOK, [QueueNext]_queueVars PROVE QueueTypeOK'
  OBVIOUS
<1>1. CASE DaemonDies
  BY <1>1 DEF DaemonDies, QueueTypeOK
<1>2. ASSUME NEW o \in Orders, CarryOut(o) PROVE QueueTypeOK'
  <2>1. order' \in [Orders -> Order \cup {NoOrder}]
    BY <1>2, OthersStay
  <2>2. member' = member
    BY <1>2 DEF CarryOut, GiveOrder, LoadOrder, SetLine, ListMembers, NotifyMember, SetAssignee,
                TellAssignee
  <2>3. order[o] # NoOrder =>
          /\ order[o].by \in Agents /\ order[o].to \in Lines \cup {NoLine}
          /\ order[o].whom \in Agents \cup {Nobody} /\ order[o].todo \subseteq Agents
    BY OrderFields
  <2>4. /\ line' \in Lines \cup {NoLine} /\ assignee' \in Agents \cup {Nobody}
        /\ knows' \subseteq Agents /\ heard' \in BOOLEAN /\ met' \in BOOLEAN
    <3>1. CASE GiveOrder(o)
      BY <3>1 DEF GiveOrder, QueueTypeOK
    <3>2. CASE LoadOrder(o) \/ SetLine(o) \/ ListMembers(o)
      BY <2>3, <3>2 DEF LoadOrder, SetLine, ListMembers, QueueTypeOK, OrderAt
    <3>3. CASE NotifyMember(o)
      BY <2>3, <3>3 DEF NotifyMember, QueueTypeOK, OrderAt
    <3>4. CASE SetAssignee(o)
      <4>1. \/ assignee' = order[o].whom /\ heard' = (order[o].whom \in {Nobody, order[o].by})
            \/ UNCHANGED <<assignee, heard>>
        BY <3>4 DEF SetAssignee
      <4>2. heard' \in BOOLEAN
        <5>1. (order[o].whom \in {Nobody, order[o].by}) \in BOOLEAN /\ heard \in BOOLEAN
          BY DEF QueueTypeOK
        <5>2. heard' = (order[o].whom \in {Nobody, order[o].by}) \/ heard' = heard
          BY <4>1, Zenon
        <5> QED BY <5>1, <5>2, Zenon
      <4> QED BY <2>3, <3>4, <4>1, <4>2 DEF SetAssignee, QueueTypeOK, OrderAt
    <3>5. CASE TellAssignee(o)
      BY <2>3, <3>5 DEF TellAssignee, QueueTypeOK, OrderAt
    <3> QED BY <1>2, <3>1, <3>2, <3>3, <3>4, <3>5 DEF CarryOut
  <2> QED BY <2>1, <2>2, <2>4 DEF QueueTypeOK
<1>3. ASSUME NEW u \in Agents, ChangeLine(u) PROVE QueueTypeOK'
  BY <1>3 DEF ChangeLine, QueueTypeOK
<1>4. CASE UNCHANGED queueVars
  BY <1>4 DEF queueVars, QueueTypeOK
<1> QED BY <1>1, <1>2, <1>3, <1>4 DEF QueueNext

\* Type correctness: the line a ticket is escalated to is a line, whoever clicks when.
THEOREM QueueTypeCorrect == QueueSpec => []QueueTypeOK
BY QueueTypeInit, QueueTypeNext, PTL DEF QueueSpec

-----------------------------------------------------------------------------
(* Whoever has the ticket on their desk is told.                           *)
(*                                                                         *)
(* EveryoneKnows speaks of the time when no handler is at work.  Until     *)
(* then whoever does not know has a handler that is going to tell them.    *)

WillTell(o, u) ==
  /\ order[o] # NoOrder /\ order[o].to = line /\ order[o].by # u
  /\ order[o].pc = "list" \/ (order[o].pc = "notify" /\ u \in order[o].todo)

ToldInv ==
  /\ QueueTypeOK
  /\ \A u \in Agents : line # NoLine /\ member[u] = line /\ u \notin knows =>
       \E o \in Orders : WillTell(o, u)
  /\ heard \/ \E o \in Orders : OrderAt(o, "tell") /\ order[o].whom = assignee

LEMMA ToldInit == QueueInit => ToldInv
BY QueueTypeInit DEF QueueInit, ToldInv

LEMMA ToldNext == ToldInv /\ [QueueNext]_queueVars => ToldInv'
<1> SUFFICES ASSUME ToldInv, [QueueNext]_queueVars
             PROVE  /\ \A u \in Agents : (line # NoLine /\ member[u] = line /\ u \notin knows)' =>
                         \E o \in Orders : WillTell(o, u)'
                    /\ (heard \/ \E o \in Orders : OrderAt(o, "tell") /\ order[o].whom = assignee)'
  BY QueueTypeNext DEF ToldInv
<1>1. /\ QueueTypeOK
      /\ \A u \in Agents : line # NoLine /\ member[u] = line /\ u \notin knows =>
           \E o \in Orders : WillTell(o, u)
      /\ heard \/ \E o \in Orders : OrderAt(o, "tell") /\ order[o].whom = assignee
  BY DEF ToldInv
<1>2. CASE DaemonDies
  BY <1>2 DEF DaemonDies
<1>3. CASE UNCHANGED queueVars
  BY <1>1, <1>3 DEF queueVars, WillTell, OrderAt
<1>4. ASSUME NEW w \in Agents, ChangeLine(w)
      PROVE  /\ \A u \in Agents : (line # NoLine /\ member[u] = line /\ u \notin knows)' =>
                  \E o \in Orders : WillTell(o, u)'
             /\ (heard \/ \E o \in Orders : OrderAt(o, "tell") /\ order[o].whom = assignee)'
  <2>1. UNCHANGED <<line, assignee, order, heard>> /\ w \in knows'
    BY <1>4 DEF ChangeLine
  <2>2. \A u \in Agents \ {w} : member'[u] = member[u] /\ (u \in knows' <=> u \in knows)
    BY <1>1, <1>4 DEF ChangeLine, QueueTypeOK
  <2> QED BY <1>1, <2>1, <2>2 DEF WillTell, OrderAt
<1>5. ASSUME NEW o \in Orders, CarryOut(o),
             NEW u \in Agents, (line # NoLine /\ member[u] = line /\ u \notin knows)'
      PROVE  \E p \in Orders : WillTell(p, u)'
  <2>1. \A p \in Orders \ {o} : order'[p] = order[p]
    BY <1>1, <1>5, OthersStay
  <2>2. member' = member
    BY <1>5 DEF CarryOut, GiveOrder, LoadOrder, SetLine, ListMembers, NotifyMember, SetAssignee,
                TellAssignee
  <2>3. CASE SetLine(o) /\ line' = order[o].to /\ knows' = {order[o].by}
    <3>1. order[o] # NoOrder /\ Continue(o, "list") /\ order[o].by # u
      BY <1>5, <2>3 DEF SetLine, OrderAt
    <3>2. /\ order'[o] # NoOrder /\ order'[o].pc = "list"
          /\ order'[o].to = order[o].to /\ order'[o].by = order[o].by
      BY <1>1, <3>1, ContinueMoves DEF Moves, OrderPcs
    <3> QED BY <2>3, <3>1, <3>2 DEF WillTell
  <2>4. CASE ~(SetLine(o) /\ line' = order[o].to /\ knows' = {order[o].by})
    <3>1. line' = line /\ knows \subseteq knows'
      BY <1>1, <1>5, <2>4 DEF CarryOut, GiveOrder, LoadOrder, SetLine, ListMembers, NotifyMember,
                              SetAssignee, TellAssignee, QueueTypeOK
    <3>2. PICK p \in Orders : WillTell(p, u)
      BY <1>1, <1>5, <2>2, <3>1
    <3>3. CASE p # o
      BY <2>1, <3>1, <3>2, <3>3 DEF WillTell
    <3>4. CASE p = o
      <4>1. /\ order[o] # NoOrder /\ order[o].to = line /\ order[o].by # u
            /\ order[o].pc = "list" \/ (order[o].pc = "notify" /\ u \in order[o].todo)
        BY <3>2, <3>4 DEF WillTell
      <4>2. CASE ListMembers(o)
        <5>1. order' = [order EXCEPT ![o] = [@ EXCEPT !.pc = "notify",
                !.todo = ListUsersInSupportGroup(order[o].to) \ {order[o].by}]]
          BY <1>5, <4>2 DEF ListMembers
        <5>2. u \in ListUsersInSupportGroup(order[o].to) \ {order[o].by}
          BY <1>5, <2>2, <3>1, <4>1 DEF ListUsersInSupportGroup
        <5>3. ListUsersInSupportGroup(order[o].to) \ {order[o].by} \in SUBSET Agents
          BY DEF ListUsersInSupportGroup
        <5>4. /\ order'[o] # NoOrder /\ order'[o].pc = "notify"
              /\ order'[o].todo = ListUsersInSupportGroup(order[o].to) \ {order[o].by}
              /\ order'[o].to = order[o].to /\ order'[o].by = order[o].by
          BY <1>1, <4>1, <5>1, <5>3, ListMoves DEF Moves
        <5> QED BY <3>1, <4>1, <5>2, <5>4 DEF WillTell
      <4>3. CASE NotifyMember(o)
        <5>1. order[o].pc = "notify" /\ u \in order[o].todo
          BY <4>1, <4>3 DEF NotifyMember, OrderAt
        <5>2. PICK v \in order[o].todo : /\ order' = [order EXCEPT ![o].todo = @ \ {v}]
                                         /\ knows' = knows \cup {v}
          BY <4>1, <4>3, <5>1 DEF NotifyMember
        <5>3. u # v /\ order[o].todo \ {v} \in SUBSET Agents
          BY <1>1, <1>5, <4>1, <5>2, OrderFields
        <5>4. /\ order'[o] # NoOrder /\ order'[o].pc = "notify"
              /\ order'[o].todo = order[o].todo \ {v}
              /\ order'[o].to = order[o].to /\ order'[o].by = order[o].by
          BY <1>1, <4>1, <5>1, <5>2, TellMoves DEF Moves
        <5> QED BY <3>1, <4>1, <5>1, <5>3, <5>4 DEF WillTell
      <4> QED BY <1>5, <4>1, <4>2, <4>3 DEF CarryOut, GiveOrder, LoadOrder, SetLine, SetAssignee,
                                            TellAssignee, OrderAt
    <3> QED BY <3>3, <3>4
  <2> QED BY <2>3, <2>4
<1>6. ASSUME NEW o \in Orders, CarryOut(o)
      PROVE  (heard \/ \E p \in Orders : OrderAt(p, "tell") /\ order[p].whom = assignee)'
  <2>1. \A p \in Orders \ {o} : order'[p] = order[p]
    BY <1>1, <1>6, OthersStay
  <2>2. CASE /\ SetAssignee(o) /\ assignee' = order[o].whom
             /\ heard' = (order[o].whom \in {Nobody, order[o].by})
    <3>1. CASE order[o].whom \in {Nobody, order[o].by}
      BY <2>2, <3>1
    <3>2. CASE order[o].whom \notin {Nobody, order[o].by}
      <4>1. order[o] # NoOrder /\ Continue(o, "tell")
        BY <2>2, <3>2 DEF SetAssignee, OrderAt
      <4>2. order'[o] # NoOrder /\ order'[o].pc = "tell" /\ order'[o].whom = order[o].whom
        BY <1>1, <4>1, ContinueMoves DEF Moves, OrderPcs
      <4> QED BY <2>2, <4>2 DEF OrderAt
    <3> QED BY <3>1, <3>2
  <2>3. CASE TellAssignee(o)
    <3>1. assignee' = assignee /\ heard' = (heard \/ assignee = order[o].whom)
      BY <2>3 DEF TellAssignee
    <3>2. heard \/ assignee = order[o].whom
             \/ \E p \in Orders \ {o} : OrderAt(p, "tell") /\ order[p].whom = assignee
      BY <1>1
    <3> QED BY <2>1, <3>1, <3>2 DEF OrderAt
  <2>4. CASE ~TellAssignee(o) /\ UNCHANGED <<assignee, heard>>
    <3>1. ~OrderAt(o, "tell")
      BY <1>6, <2>4 DEF CarryOut, GiveOrder, LoadOrder, SetLine, ListMembers, NotifyMember,
                        SetAssignee, TellAssignee, OrderAt
    <3> QED BY <1>1, <2>1, <2>4, <3>1 DEF OrderAt
  <2> QED BY <1>6, <2>2, <2>3, <2>4 DEF CarryOut, GiveOrder, LoadOrder, SetLine, ListMembers,
                                        NotifyMember, SetAssignee
<1> QED BY <1>2, <1>3, <1>4, <1>5, <1>6 DEF QueueNext

\* Once the handlers are done everybody in the ticket's line, and its assignee, has
\* been told, for any number of agents, lines and handlers at work.
THEOREM EveryoneAlwaysKnows == QueueSpec => []EveryoneKnows
<1>1. ToldInv => EveryoneKnows
  BY DEF ToldInv, EveryoneKnows, WillTell, OrderAt
<1> QED BY <1>1, ToldInit, ToldNext, PTL DEF QueueSpec

-----------------------------------------------------------------------------
(* Escalations go up one line.                                             *)

\* Until handlers have met there is one at most, and where it takes the ticket is
\* still where the ticket says.
AloneInv ==
  /\ QueueTypeOK
  /\ ~met => /\ \A o, p \in Orders : order[o] # NoOrder /\ order[p] # NoOrder => o = p
             /\ \A o \in Orders : OrderAt(o, "line") /\ order[o].op = "escalate" =>
                  order[o].to = NextSupportGroup(RankOf(line)) /\ order[o].to # NoLine

LEMMA AloneInit == QueueInit => AloneInv
BY QueueTypeInit DEF QueueInit, AloneInv, OrderAt

LEMMA QueueAloneNext == AloneInv /\ [QueueNext]_queueVars => AloneInv'
<1> SUFFICES ASSUME AloneInv, [QueueNext]_queueVars, ~met'
             PROVE  /\ \A o, p \in Orders : order'[o] # NoOrder /\ order'[p] # NoOrder => o = p
                    /\ \A o \in Orders : OrderAt(o, "line")' /\ order'[o].op = "escalate" =>
                         order'[o].to = NextSupportGroup(RankOf(line))' /\ order'[o].to # NoLine
  BY QueueTypeNext DEF AloneInv
<1>1. QueueTypeOK /\ ~met
  BY DEF AloneInv, QueueTypeOK, QueueNext, DaemonDies, ChangeLine, CarryOut, GiveOrder, LoadOrder,
         SetLine, ListMembers, NotifyMember, SetAssignee, TellAssignee, queueVars
<1>2. /\ \A o, p \in Orders : order[o] # NoOrder /\ order[p] # NoOrder => o = p
      /\ \A o \in Orders : OrderAt(o, "line") /\ order[o].op = "escalate" =>
           order[o].to = NextSupportGroup(RankOf(line)) /\ order[o].to # NoLine
  BY <1>1 DEF AloneInv
<1>3. CASE UNCHANGED <<order, line>>
  BY <1>2, <1>3 DEF OrderAt
<1>4. CASE DaemonDies
  BY <1>4 DEF DaemonDies, OrderAt
<1>5. ASSUME NEW o \in Orders, CarryOut(o)
      PROVE  /\ \A p, r \in Orders : order'[p] # NoOrder /\ order'[r] # NoOrder => p = r
             /\ \A p \in Orders : OrderAt(p, "line")' /\ order'[p].op = "escalate" =>
                  order'[p].to = NextSupportGroup(RankOf(line))' /\ order'[p].to # NoLine
  <2>1. \A p \in Orders \ {o} : order'[p] = order[p]
    BY <1>1, <1>5, OthersStay
  <2>2. \A p \in Orders \ {o} : order[p] = NoOrder
    <3>1. CASE GiveOrder(o)
      BY <1>1, <1>5, <3>1, GiveOrderFields DEF GiveOrder
    <3>2. CASE ~GiveOrder(o)
      BY <1>1, <1>2, <1>5, <3>2, HandlerSteps
    <3> QED BY <3>1, <3>2
  <2>3. ASSUME OrderAt(o, "line")', order'[o].op = "escalate"
        PROVE  order'[o].to = NextSupportGroup(RankOf(line))' /\ order'[o].to # NoLine
    <3>1. ~GiveOrder(o)
      BY <1>1, <2>3, GiveOrderFields DEF OrderAt
    <3>2. order[o] # NoOrder /\ order[o].op = "escalate" /\ ~Done(o)
      BY <1>1, <1>5, <2>3, <3>1, HandlerSteps, DoneFields DEF OrderGoesOn, Moves, OrderAt
    <3>3. ASSUME NEW pc \in OrderPcs, Continue(o, pc)
          PROVE  pc = "line"
      BY <1>1, <2>3, <3>2, <3>3, ContinueMoves DEF Moves, OrderAt
    <3>4. ~NotifyMember(o) /\ ~ListMembers(o)
      <4>1. CASE NotifyMember(o)
        <5>1. PICK u \in order[o].todo : order' = [order EXCEPT ![o].todo = @ \ {u}]
          BY <3>2, <4>1 DEF NotifyMember
        <5>2. order[o].pc = "notify" /\ order[o].todo \ {u} \in SUBSET Agents
          BY <1>1, <3>2, <4>1, OrderFields DEF NotifyMember, OrderAt
        <5>3. order'[o].pc = "notify"
          BY <1>1, <3>2, <5>1, <5>2, TellMoves DEF Moves
        <5> QED BY <2>3, <5>3 DEF OrderAt
      <4>2. CASE ListMembers(o)
        <5>1. PICK us \in SUBSET Agents :
                order' = [order EXCEPT ![o] = [@ EXCEPT !.pc = "notify", !.todo = us]]
          BY <3>2, <4>2 DEF ListMembers, ListUsersInSupportGroup
        <5>2. order'[o].pc = "notify"
          BY <1>1, <3>2, <5>1, ListMoves DEF Moves
        <5> QED BY <2>3, <5>2 DEF OrderAt
      <4> QED BY <4>1, <4>2
    <3>5. LoadOrder(o)
      BY <1>5, <3>1, <3>2, <3>3, <3>4 DEF CarryOut, SetLine, SetAssignee, TellAssignee, OrderPcs
    <3>6. /\ NextSupportGroup(RankOf(line)) # NoLine
          /\ order' = [order EXCEPT ![o] = [@ EXCEPT !.pc = "line",
                                                     !.to = NextSupportGroup(RankOf(line))]]
      BY <3>2, <3>5 DEF LoadOrder
    <3>7. order'[o].to = NextSupportGroup(RankOf(line))
      BY <1>1, <3>2, <3>6, NextIsALine, UpMoves DEF Moves
    <3>8. line' = line
      BY <3>5 DEF LoadOrder
    <3> QED BY <3>6, <3>7, <3>8
  <2> QED BY <2>1, <2>2, <2>3 DEF OrderAt
<1>6. ASSUME NEW u \in Agents, ChangeLine(u) PROVE UNCHANGED <<order, line>>
  BY <1>6 DEF ChangeLine
<1>7. CASE UNCHANGED queueVars
  BY <1>3, <1>7 DEF queueVars
<1> QED BY <1>3, <1>4, <1>5, <1>6, <1>7 DEF QueueNext

\* As long as handlers run one after another an escalation goes up, and over no line's
\* head, for any number of lines in any order.
THEOREM NoLineEverSkipped == QueueSpec => NoLineSkipped
<1>1. AloneInv /\ [QueueNext]_queueVars =>
        [~met => \A o \in Orders :
           OrderAt(o, "line") /\ order[o].op = "escalate" /\ line' # line =>
             /\ RankOf(line) < RankOf(line')
             /\ \A l \in Lines : ~(RankOf(line) < Rank[l] /\ Rank[l] < RankOf(line'))]_queueVars
  <2> SUFFICES ASSUME AloneInv, QueueNext, ~met, NEW o \in Orders,
                      OrderAt(o, "line"), order[o].op = "escalate", line' # line
               PROVE  /\ RankOf(line) < RankOf(line')
                      /\ \A l \in Lines : ~(RankOf(line) < Rank[l] /\ Rank[l] < RankOf(line'))
    BY DEF queueVars
  <2>1. PICK p \in Orders : SetLine(p) /\ line' = order[p].to
    BY DEF QueueNext, DaemonDies, ChangeLine, CarryOut, GiveOrder, LoadOrder, SetLine, ListMembers,
           NotifyMember, SetAssignee, TellAssignee
  <2>2. p = o
    BY <2>1 DEF AloneInv, SetLine, OrderAt
  <2>3. line' = NextSupportGroup(RankOf(line)) /\ line' # NoLine
    BY <2>1, <2>2 DEF AloneInv
  <2>4. RankOf(line) \in Nat
    BY LinesAreRanked DEF AloneInv, QueueTypeOK, RankOf
  <2>5. Lowest(RankOf(line), Lines, line')
    BY <2>3, <2>4, NextIsLowest
  <2>6. line' \in Lines /\ RankOf(line') = Rank[line'] /\ Rank[line'] \in Nat
    BY <2>3, <2>5, LinesAreRanked DEF Lowest, RankOf
  <2> QED BY <2>3, <2>4, <2>5, <2>6, LinesAreRanked DEF Lowest
<1> QED BY <1>1, AloneInit, QueueAloneNext, PTL DEF QueueSpec, NoLineSkipped

(***************************************************************************)
(* No account and no department points at a row that is not there, for any *)
(* number of units, people and deletions at work.                          *)
(*                                                                         *)
(* ReferencesHold is not inductive: deleting a row must not orphan what    *)
(* points at it.  Cleared says that by then nothing does, except what a    *)
(* form named in the meantime.                                             *)
(***************************************************************************)

\* What the statements before pc have cleared stays clear.
Cleared ==
  \A d \in Deletions : deletion[d] # NoDeletion =>
    /\ deletion[d].pc \in {"people", "row"} =>
         \A i \in Units : units[i] # NoUnit /\ units[i].parent = deletion[d].unit =>
           deletion[d].unit \in named
    /\ deletion[d].pc = "row" =>
         \A x \in People \X Sorts : belongs[x] = deletion[d].unit => deletion[d].unit \in named

OrgInv == OrgTypeOK /\ ReferencesHold /\ Cleared

\* After the step.
WillBe(i, sort) == units'[i] # NoUnit /\ units'[i].sort = sort

-----------------------------------------------------------------------------
LEMMA OrgInit_ == OrgInit => OrgInv
BY NoUnitIsNone, NoneOfBoth DEF OrgInit, OrgInv, OrgTypeOK, ReferencesHold, Cleared

LEMMA NameGrows ==
  ASSUME NEW i, NEW sort, Name(i, sort)
  PROVE  named \subseteq named'
BY DEF Name

LEMMA OrgTypes ==
  ASSUME OrgTypeOK, [OrgNext]_orgVars
  PROVE  OrgTypeOK'
<1>1. CASE \E i \in Units, sort \in Sorts, j \in Units \cup {NoUnit} : CreateUnit(i, sort, j)
  BY <1>1 DEF OrgTypeOK, CreateUnit, Name, Unit
<1>2. CASE \E p \in People, sort \in Sorts, i \in Units \cup {NoUnit} : PlacePerson(p, sort, i)
  <2>1. PICK p \in People, sort \in Sorts, i \in Units \cup {NoUnit} : PlacePerson(p, sort, i)
    BY <1>2
  <2>2. belongs' \in [People \X Sorts -> Units \cup {NoUnit}]
    BY <2>1 DEF PlacePerson, OrgTypeOK
  <2>3. named' \subseteq Units
    BY <2>1 DEF PlacePerson, OrgTypeOK, Name
  <2> QED BY <2>1, <2>2, <2>3 DEF PlacePerson, OrgTypeOK
<1>3. ASSUME NEW d \in Deletions,
             \/ \E i \in Units : AskToDelete(d, i)
             \/ ClearChildren(d) \/ ClearPeople(d) \/ DeleteRow(d) \/ BreakOff(d)
      PROVE  OrgTypeOK'
  <2>1. CASE \E i \in Units : AskToDelete(d, i)
    BY <2>1 DEF OrgTypeOK, AskToDelete, Deletion
  <2>2. CASE ClearChildren(d)
    <3>1. units' \in [Units -> Unit \cup {NoUnit}]
      BY <2>2 DEF ClearChildren, OrgTypeOK, Unit
    <3>2. deletion' \in [Deletions -> Deletion \cup {NoDeletion}]
      BY <2>2 DEF ClearChildren, Work, Then, OrgTypeOK, Deletion
    <3> QED BY <2>2, <3>1, <3>2 DEF ClearChildren, OrgTypeOK
  <2>3. CASE ClearPeople(d)
    <3>1. deletion' \in [Deletions -> Deletion \cup {NoDeletion}]
      BY <2>3 DEF ClearPeople, Work, Then, OrgTypeOK, Deletion
    <3> QED BY <2>3, <3>1 DEF ClearPeople, OrgTypeOK
  <2>4. CASE DeleteRow(d)
    BY <2>4 DEF DeleteRow, Work, Over, OrgTypeOK, Deletion
  <2>5. CASE BreakOff(d)
    BY <2>5 DEF BreakOff, Over, OrgTypeOK
  <2> QED BY <1>3, <2>1, <2>2, <2>3, <2>4, <2>5
<1>4. CASE UNCHANGED orgVars
  BY <1>4 DEF orgVars, OrgTypeOK
<1> QED BY <1>1, <1>2, <1>3, <1>4 DEF OrgNext

\* A department or position appears: nothing could mean its id before.
LEMMA CreateKeeps ==
  ASSUME OrgInv, NEW k \in Units, NEW sort \in Sorts, NEW j \in Units \cup {NoUnit},
         CreateUnit(k, sort, j)
  PROVE  (ReferencesHold /\ Cleared)'
<1> USE DEF OrgInv
<1>1. units' = [units EXCEPT ![k] = [sort |-> sort, parent |-> j]]
      /\ belongs' = belongs /\ deletion' = deletion /\ units[k] = NoUnit /\ k \notin named
      /\ (\A d \in Deletions : deletion[d] # NoDeletion => deletion[d].unit # k)
  BY DEF CreateUnit, Leaving
<1>2. named \subseteq named' /\ (j # NoUnit /\ ~IsA(j, sort) => j \in named')
      /\ (\A d \in Deletions :
             deletion[d] # NoDeletion /\ deletion[d].unit = j /\ j # NoUnit => j \in named')
  BY DEF CreateUnit, Name, Leaving
<1>3. sort = "position" => j = NoUnit
  BY DEF CreateUnit
<1>4. [sort |-> sort, parent |-> j] # NoUnit
  BY NoneOfBoth DEF Unit
<1>5. \A i \in Units : units'[i] # NoUnit /\ units'[i].parent \notin named' \cup {NoUnit} =>
        WillBe(units'[i].parent, "department")
  <2> SUFFICES ASSUME NEW i \in Units, units'[i] # NoUnit,
                      units'[i].parent \notin named' \cup {NoUnit}
               PROVE  WillBe(units'[i].parent, "department")
    OBVIOUS
  <2>1. CASE i = k
    <3>1. units'[i].parent = j
      BY <1>1, <2>1 DEF OrgTypeOK
    <3>2. sort = "department" /\ IsA(j, "department")
      BY <1>2, <1>3, <3>1 DEF Sorts
    <3>3. j # k
      BY <1>1, <3>2 DEF IsA
    <3> QED BY <1>1, <3>1, <3>2, <3>3 DEF IsA, WillBe, OrgTypeOK
  <2>2. CASE i # k
    <3>1. units'[i] = units[i]
      BY <1>1, <2>2 DEF OrgTypeOK
    <3>2. IsA(units[i].parent, "department")
      BY <1>2, <3>1 DEF ReferencesHold
    <3>3. units[i].parent # k
      BY <1>1, <3>2 DEF IsA
    <3> QED BY <1>1, <3>1, <3>2, <3>3 DEF IsA, WillBe, OrgTypeOK
  <2> QED BY <2>1, <2>2
<1>6. \A x \in People \X Sorts : belongs'[x] \notin named' \cup {NoUnit} => WillBe(belongs'[x], x[2])
  <2> SUFFICES ASSUME NEW x \in People \X Sorts, belongs[x] \notin named' \cup {NoUnit}
               PROVE  WillBe(belongs[x], x[2])
    BY <1>1
  <2>1. IsA(belongs[x], x[2])
    BY <1>2 DEF ReferencesHold
  <2>2. belongs[x] # k
    BY <1>1, <2>1 DEF IsA
  <2> QED BY <1>1, <2>1, <2>2 DEF IsA, WillBe, OrgTypeOK
<1>7. Cleared'
  <2> SUFFICES ASSUME NEW d \in Deletions, deletion[d] # NoDeletion
               PROVE  /\ deletion[d].pc \in {"people", "row"} =>
                           \A i \in Units : units'[i] # NoUnit /\ units'[i].parent = deletion[d].unit =>
                             deletion[d].unit \in named'
                      /\ deletion[d].pc = "row" =>
                           \A x \in People \X Sorts : belongs[x] = deletion[d].unit =>
                             deletion[d].unit \in named'
    BY <1>1 DEF Cleared
  <2>1. deletion[d].unit # NoUnit
    BY NoUnitIsNone DEF OrgTypeOK, Deletion
  <2>2. ASSUME NEW i \in Units, deletion[d].pc \in {"people", "row"}, units'[i] # NoUnit,
               units'[i].parent = deletion[d].unit
        PROVE  deletion[d].unit \in named'
    <3>1. CASE i = k
      BY <1>1, <1>2, <2>1, <2>2, <3>1 DEF OrgTypeOK
    <3>2. CASE i # k
      <4>1. units'[i] = units[i]
        BY <1>1, <3>2 DEF OrgTypeOK
      <4> QED BY <1>2, <2>2, <4>1 DEF Cleared
    <3> QED BY <3>1, <3>2
  <2> QED BY <1>2, <2>2 DEF Cleared
<1> QED BY <1>5, <1>6, <1>7 DEF ReferencesHold, IsA, WillBe

\* A form names a unit for somebody.
LEMMA PlaceKeeps ==
  ASSUME OrgInv, NEW p \in People, NEW sort \in Sorts, NEW j \in Units \cup {NoUnit},
         PlacePerson(p, sort, j)
  PROVE  (ReferencesHold /\ Cleared)'
<1> USE DEF OrgInv
<1>1. belongs' = [belongs EXCEPT ![<<p, sort>>] = j] /\ units' = units /\ deletion' = deletion
  BY DEF PlacePerson
<1>2. named \subseteq named' /\ (j # NoUnit /\ ~IsA(j, sort) => j \in named')
      /\ (\A d \in Deletions :
             deletion[d] # NoDeletion /\ deletion[d].unit = j /\ j # NoUnit => j \in named')
  BY DEF PlacePerson, Name, Leaving
<1>3. \A x \in People \X Sorts : belongs'[x] = IF x = <<p, sort>> THEN j ELSE belongs[x]
  BY <1>1 DEF OrgTypeOK
<1>4. ReferencesHold'
  <2>1. \A i \in Units : units[i] # NoUnit /\ units[i].parent \notin named' \cup {NoUnit} =>
          IsA(units[i].parent, "department")
    BY <1>2 DEF ReferencesHold
  <2>2. ASSUME NEW x \in People \X Sorts, belongs'[x] \notin named' \cup {NoUnit}
        PROVE  IsA(belongs'[x], x[2])
    <3>1. CASE x = <<p, sort>>
      BY <1>2, <1>3, <2>2, <3>1
    <3>2. CASE x # <<p, sort>>
      BY <1>2, <1>3, <2>2, <3>2 DEF ReferencesHold
    <3> QED BY <3>1, <3>2
  <2> QED BY <1>1, <2>1, <2>2 DEF ReferencesHold, IsA
<1>5. Cleared'
  <2> SUFFICES ASSUME NEW d \in Deletions, deletion[d] # NoDeletion
               PROVE  /\ deletion[d].pc \in {"people", "row"} =>
                           \A i \in Units : units[i] # NoUnit /\ units[i].parent = deletion[d].unit =>
                             deletion[d].unit \in named'
                      /\ deletion[d].pc = "row" =>
                           \A x \in People \X Sorts : belongs'[x] = deletion[d].unit =>
                             deletion[d].unit \in named'
    BY <1>1 DEF Cleared
  <2>1. deletion[d].unit # NoUnit
    BY NoUnitIsNone DEF OrgTypeOK, Deletion
  <2>2. ASSUME NEW x \in People \X Sorts, deletion[d].pc = "row", belongs'[x] = deletion[d].unit
        PROVE  deletion[d].unit \in named'
    <3>1. CASE x = <<p, sort>>
      BY <1>2, <1>3, <2>1, <2>2, <3>1
    <3>2. CASE x # <<p, sort>>
      BY <1>2, <1>3, <2>2, <3>2 DEF Cleared
    <3> QED BY <3>1, <3>2
  <2> QED BY <1>2, <2>2 DEF Cleared
<1> QED BY <1>4, <1>5

\* The statements of a deletion, and its end.
LEMMA DeletionKeeps ==
  ASSUME OrgInv, NEW d \in Deletions,
         \/ \E i \in Units : AskToDelete(d, i)
         \/ ClearChildren(d) \/ ClearPeople(d) \/ DeleteRow(d) \/ BreakOff(d)
  PROVE  (ReferencesHold /\ Cleared)'
<1> USE DEF OrgInv
<1>1. CASE \E i \in Units : AskToDelete(d, i)
  <2>1. PICK u \in Units : AskToDelete(d, u)
    BY <1>1
  <2>2. units' = units /\ belongs' = belongs /\ named' = named /\ units[u] # NoUnit
        /\ deletion' = [deletion EXCEPT ![d] =
             [unit |-> u, pc |-> IF units[u].sort = "department" THEN "children" ELSE "people"]]
    BY <2>1 DEF AskToDelete
  <2>3. ASSUME NEW i \in Units, units[i] # NoUnit, units[i].parent = u,
               units[u].sort # "department"
        PROVE  u \in named
    BY <2>3, NoUnitIsNone DEF ReferencesHold, IsA
  <2>4. ASSUME NEW e \in Deletions, deletion'[e] # NoDeletion,
               deletion'[e].pc \in {"people", "row"},
               NEW i \in Units, units[i] # NoUnit, units[i].parent = deletion'[e].unit
        PROVE  deletion'[e].unit \in named
    <3>1. CASE e = d
      BY <2>2, <2>3, <2>4, <3>1 DEF OrgTypeOK
    <3>2. CASE e # d
      BY <2>2, <2>4, <3>2 DEF OrgTypeOK, Cleared
    <3> QED BY <3>1, <3>2
  <2>5. ASSUME NEW e \in Deletions, deletion'[e] # NoDeletion, deletion'[e].pc = "row",
               NEW x \in People \X Sorts, belongs[x] = deletion'[e].unit
        PROVE  deletion'[e].unit \in named
    <3>1. e # d
      BY <2>2, <2>5 DEF OrgTypeOK
    <3> QED BY <2>2, <2>5, <3>1 DEF OrgTypeOK, Cleared
  <2> QED BY <2>2, <2>4, <2>5 DEF ReferencesHold, IsA, Cleared
<1>2. CASE ClearChildren(d)
  <2>1. belongs' = belongs /\ named' = named /\ deletion[d] # NoDeletion
        /\ deletion' = [deletion EXCEPT ![d] = [@ EXCEPT !.pc = "people"]]
    BY <1>2 DEF ClearChildren, Then, Work
  <2>2. \A i \in Units : /\ units'[i] # NoUnit <=> units[i] # NoUnit
                         /\ units[i] # NoUnit => /\ units'[i].sort = units[i].sort
                                                 /\ units'[i].parent \in {units[i].parent, NoUnit}
                                                 /\ units'[i].parent # deletion[d].unit
    <3> SUFFICES ASSUME NEW i \in Units, units[i] # NoUnit
                 PROVE  /\ units'[i] # NoUnit
                        /\ units'[i].sort = units[i].sort
                        /\ units'[i].parent \in {units[i].parent, NoUnit}
                        /\ units'[i].parent # deletion[d].unit
      BY <1>2 DEF ClearChildren
    <3>1. units[i] \in Unit /\ deletion[d].unit # NoUnit
      BY <2>1, NoUnitIsNone DEF OrgTypeOK, Deletion
    <3>2. CASE units[i].parent = deletion[d].unit
      <4>1. units'[i] = [units[i] EXCEPT !.parent = NoUnit]
        BY <1>2, <3>2 DEF ClearChildren
      <4> QED BY <3>1, <4>1, NoneOfBoth DEF Unit
    <3>3. CASE units[i].parent # deletion[d].unit
      BY <1>2, <3>3 DEF ClearChildren
    <3> QED BY <3>2, <3>3
  <2>3. ReferencesHold'
    <3>1. ASSUME NEW i \in Units, units'[i] # NoUnit, units'[i].parent \notin named \cup {NoUnit}
          PROVE  WillBe(units'[i].parent, "department")
      <4>1. units[i] # NoUnit /\ units'[i].parent = units[i].parent
        BY <2>2, <3>1
      <4>2. units[i].parent \in Units /\ IsA(units[i].parent, "department")
        BY <3>1, <4>1 DEF ReferencesHold, OrgTypeOK, Unit
      <4> QED BY <2>2, <4>1, <4>2 DEF IsA, WillBe
    <3>2. ASSUME NEW x \in People \X Sorts, belongs[x] \notin named \cup {NoUnit}
          PROVE  WillBe(belongs[x], x[2])
      <4>1. belongs[x] \in Units /\ IsA(belongs[x], x[2])
        BY <3>2 DEF ReferencesHold, OrgTypeOK
      <4> QED BY <2>2, <4>1 DEF IsA, WillBe
    <3> QED BY <2>1, <3>1, <3>2 DEF ReferencesHold, IsA, WillBe
  <2>4. \A e \in Deletions : deletion'[e] # NoDeletion =>
          /\ deletion[e] # NoDeletion /\ deletion'[e].unit = deletion[e].unit
          /\ e # d => deletion'[e].pc = deletion[e].pc
          /\ e = d => deletion'[e].pc = "people"
    BY <2>1 DEF OrgTypeOK, Deletion
  <2>5. ASSUME NEW e \in Deletions, deletion'[e] # NoDeletion,
               deletion'[e].pc \in {"people", "row"},
               NEW i \in Units, units'[i] # NoUnit, units'[i].parent = deletion'[e].unit
        PROVE  deletion'[e].unit \in named
    <3>1. deletion[e].unit # NoUnit
      BY <2>4, <2>5, NoUnitIsNone DEF OrgTypeOK, Deletion
    <3> QED BY <2>2, <2>4, <2>5, <3>1 DEF Cleared
  <2>6. ASSUME NEW e \in Deletions, deletion'[e] # NoDeletion, deletion'[e].pc = "row",
               NEW x \in People \X Sorts, belongs[x] = deletion'[e].unit
        PROVE  deletion'[e].unit \in named
    BY <2>4, <2>6 DEF Cleared
  <2> QED BY <2>1, <2>3, <2>5, <2>6 DEF Cleared
<1>3. CASE ClearPeople(d)
  <2>1. units' = units /\ named' = named /\ deletion[d] # NoDeletion /\ deletion[d].pc = "people"
        /\ deletion' = [deletion EXCEPT ![d] = [@ EXCEPT !.pc = "row"]]
    BY <1>3 DEF ClearPeople, Then, Work
  <2>2. \A x \in People \X Sorts : /\ belongs'[x] \in {belongs[x], NoUnit}
                                   /\ belongs'[x] # deletion[d].unit
    BY <1>3, <2>1, NoUnitIsNone DEF ClearPeople, OrgTypeOK, Deletion
  <2>3. ReferencesHold'
    BY <2>1, <2>2 DEF ReferencesHold, IsA
  <2>4. \A e \in Deletions : deletion'[e] # NoDeletion =>
          /\ deletion[e] # NoDeletion /\ deletion'[e].unit = deletion[e].unit
          /\ e # d => deletion'[e].pc = deletion[e].pc
    BY <2>1 DEF OrgTypeOK, Deletion
  <2>5. ASSUME NEW e \in Deletions, deletion'[e] # NoDeletion,
               deletion'[e].pc \in {"people", "row"},
               NEW i \in Units, units[i] # NoUnit, units[i].parent = deletion'[e].unit
        PROVE  deletion'[e].unit \in named
    BY <2>1, <2>4, <2>5 DEF Cleared
  <2>6. ASSUME NEW e \in Deletions, deletion'[e] # NoDeletion, deletion'[e].pc = "row",
               NEW x \in People \X Sorts, belongs'[x] = deletion'[e].unit
        PROVE  deletion'[e].unit \in named
    <3>1. deletion[e].unit # NoUnit
      BY <2>4, <2>6, NoUnitIsNone DEF OrgTypeOK, Deletion
    <3> QED BY <2>2, <2>4, <2>6, <3>1 DEF Cleared
  <2> QED BY <2>1, <2>3, <2>5, <2>6 DEF Cleared
<1>4. CASE DeleteRow(d)
  <2>1. belongs' = belongs /\ named' = named /\ deletion[d] # NoDeletion /\ deletion[d].pc = "row"
        /\ deletion' = [deletion EXCEPT ![d] = NoDeletion]
        /\ units' = [units EXCEPT ![deletion[d].unit] = NoUnit]
    BY <1>4 DEF DeleteRow, Over, Work
  <2>2. \A i \in Units : units'[i] # NoUnit => units'[i] = units[i]
    BY <2>1 DEF OrgTypeOK
  <2>3. \A i \in Units : i # deletion[d].unit => units'[i] = units[i]
    BY <2>1 DEF OrgTypeOK
  <2>4. ASSUME NEW i \in Units, units'[i] # NoUnit, units'[i].parent \notin named \cup {NoUnit}
        PROVE  WillBe(units'[i].parent, "department")
    <3>1. units'[i] = units[i] /\ IsA(units[i].parent, "department")
      BY <2>2, <2>4 DEF ReferencesHold
    <3>2. units[i].parent # deletion[d].unit
      BY <2>1, <2>4, <3>1 DEF Cleared
    <3>3. units[i].parent \in Units
      BY <2>4, <3>1 DEF OrgTypeOK, Unit
    <3> QED BY <2>3, <3>1, <3>2, <3>3 DEF IsA, WillBe
  <2>5. ASSUME NEW x \in People \X Sorts, belongs[x] \notin named \cup {NoUnit}
        PROVE  WillBe(belongs[x], x[2])
    <3>1. IsA(belongs[x], x[2]) /\ belongs[x] \in Units
      BY <2>5 DEF ReferencesHold, OrgTypeOK
    <3>2. belongs[x] # deletion[d].unit
      BY <2>1, <2>5 DEF Cleared
    <3> QED BY <2>3, <3>1, <3>2 DEF IsA, WillBe
  <2>6. \A e \in Deletions : deletion'[e] # NoDeletion => deletion'[e] = deletion[e]
    BY <2>1 DEF OrgTypeOK
  <2> QED BY <2>1, <2>2, <2>4, <2>5, <2>6 DEF ReferencesHold, IsA, WillBe, Cleared
<1>5. CASE BreakOff(d)
  <2>1. \A e \in Deletions : deletion'[e] # NoDeletion => deletion'[e] = deletion[e]
    BY <1>5 DEF BreakOff, Over, OrgTypeOK
  <2> QED BY <1>5, <2>1 DEF BreakOff, ReferencesHold, IsA, Cleared
<1> QED BY <1>1, <1>2, <1>3, <1>4, <1>5

LEMMA OrgStep == OrgInv /\ [OrgNext]_orgVars => OrgInv'
<1> SUFFICES ASSUME OrgInv, [OrgNext]_orgVars
             PROVE  (ReferencesHold /\ Cleared)'
  BY OrgTypes DEF OrgInv
<1>1. CASE UNCHANGED orgVars
  BY <1>1 DEF orgVars, OrgInv, ReferencesHold, IsA, Cleared
<1> QED BY <1>1, CreateKeeps, PlaceKeeps, DeletionKeeps DEF OrgNext

-----------------------------------------------------------------------------
LEMMA OrgInvariant == OrgSpec => []OrgInv
<1>1. OrgInit => OrgInv
  BY OrgInit_
<1>2. OrgInv /\ [OrgNext]_orgVars => OrgInv'
  BY OrgStep
<1> QED BY <1>1, <1>2, PTL DEF OrgSpec

\* The types of Departments.
THEOREM OrgTypeCorrect == OrgSpec => []OrgTypeOK
<1>1. OrgInv => OrgTypeOK
  BY DEF OrgInv
<1> QED BY <1>1, OrgInvariant, PTL

\* However deletions race, fail or are cut short (DeleteDepartment, DeletePosition),
\* nothing points at a row they removed, unless a form named it when it was gone or
\* going.
THEOREM ReferencesAlwaysHold == OrgSpec => []ReferencesHold
<1>1. OrgInv => ReferencesHold
  BY DEF OrgInv
<1> QED BY <1>1, OrgInvariant, PTL
=============================================================================
