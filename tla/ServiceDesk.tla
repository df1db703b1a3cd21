---------------------------- MODULE ServiceDesk ----------------------------
(***************************************************************************)
(* Request fulfilment in the service desk (server/servicedesk.go, mirrored *)
(* by server/portal.go; store/tickets.go): somebody opens a ticket that    *)
(* asks for an account, for access or for an offboarding, an admin signs   *)
(* it off, and an agent carries it out with one click that writes the      *)
(* users table.                                                            *)
(*                                                                         *)
(* As in Accounts, a request is a process that keeps what it has read.     *)
(* The click is five statements: load the ticket, load its target, write   *)
(* the users table, stamp the ticket, resolve the ticket.  A crash can     *)
(* come between any two of them.                                           *)
(***************************************************************************)
EXTENDS UserStore

CONSTANTS Tickets,      \* ids the tickets table can hand out
          ServiceDesk,  \* the module key that makes a member an agent
          NoUser, NoTicket,
          Requests, NoReq,
          Kinds         \* bound: the kinds of ticket that get opened

ASSUME KindsAreKinds == Kinds \subseteq {"plain", "new_account", "grant_access", "terminate"}
ASSUME DeskIsAModule == ServiceDesk \in Modules
ASSUME NoUserIsNobody == NoUser \notin Users

VARIABLES rows,     \* the users table
          used,     \* user ids handed out, for ever
          tickets,  \* the tickets table
          req,      \* requests in flight
          overlapped \* history: two requests have been in flight at once

vars == <<rows, used, tickets, req, overlapped>>

\* A ticket: what it asks for, how far it got.  Of the four statuses, "open"
\* stands for new and in_progress, "done" for resolved and closed; resolvedAt
\* says whether the resolved_at column holds a time; created and applied are the
\* one-shot marks.
Ticket ==
  [kind: Kinds, requester: Users, target: Users \cup {NoUser}, want: SUBSET Modules,
   status: {"open", "done"},
   approval: {"none", "pending", "approved", "rejected"}, approver: Users \cup {NoUser},
   created: Users \cup {NoUser}, applied: BOOLEAN, resolvedAt: BOOLEAN]

\* Clicks that end in a change of the users table, and everything else.
Clicks == {"new_account", "grant_access", "terminate"}
Ops    == Clicks \cup {"open", "approval", "status"}

\* agent is what the session said when the request arrived, seen the target's
\* row, made the id CreateUser returned.  Kind, target and want never change once
\* a ticket is open, so a request in flight need not remember them.
InFlight ==
  [pc: {"load", "target", "count", "effect", "stamp", "resolve"}, op: Ops,
   by: Users, agent: BOOLEAN, ticket: Tickets, seen: UserRow \cup {NoRow},
   made: Users \cup {NoUser}]
ASSUME NoTicketIsNoTicket == NoTicket \notin Ticket /\ NoReq \notin InFlight

TypeOK ==
  /\ rows \in UsersTable
  /\ used \subseteq Users
  /\ tickets \in [Tickets -> Ticket \cup {NoTicket}]
  /\ req \in [Requests -> InFlight \cup {NoReq}]
  /\ overlapped \in BOOLEAN

\* A started panel (Accounts.Boot): at least one active admin.
Init ==
  /\ rows \in UsersTable
  /\ ActiveAdmins(rows) # {}
  /\ used = {u \in Users : Exists(rows, u)}
  /\ tickets = [k \in Tickets |-> NoTicket]
  /\ req = [r \in Requests |-> NoReq]
  /\ overlapped = FALSE

-----------------------------------------------------------------------------
(* The tickets table.                                                      *)

RequiresApproval(kind) == kind \in Clicks

NewTicket(kind, requester, target, want) ==
  [kind |-> kind, requester |-> requester, target |-> target, want |-> want,
   status |-> "open",
   approval |-> IF RequiresApproval(kind) THEN "pending" ELSE "none",
   approver |-> NoUser, created |-> NoUser, applied |-> FALSE, resolvedAt |-> FALSE]

\* GetTicket joins the requester's row: once that account is deleted the
\* ticket is in the table but no handler can load it.
GetTicket(k) ==
  IF tickets[k] = NoTicket THEN NoTicket
  ELSE IF Exists(rows, tickets[k].requester) THEN tickets[k] ELSE NoTicket

\* resolved_at is stamped on the way into "resolved" and otherwise kept.
UpdateTicketStatus(k, status) ==
  LET t == tickets[k] IN
    tickets' = [tickets EXCEPT
      ![k] = [t EXCEPT !.status = status, !.resolvedAt = t.resolvedAt \/ status = "done"]]

-----------------------------------------------------------------------------
(* Requests.                                                               *)

Go(r, pc, seen) == req' = [req EXCEPT ![r] = [@ EXCEPT !.pc = pc, !.seen = seen]]
Answer(r)       == req' = [req EXCEPT ![r] = NoReq]
At(r, pc, ops)  == req[r] # NoReq /\ req[r].pc = pc /\ req[r].op \in ops

\* Does r start while another request is in flight?
Overlap(r) == overlapped' = (overlapped \/ \E s \in Requests \ {r} : req[s] # NoReq)

\* requireAuth; approvals sit behind requireAdmin.
Receive(r) ==
  /\ req[r] = NoReq
  /\ \E op \in Ops, by \in Users, k \in Tickets :
       /\ Exists(rows, by)
       /\ rows[by].status = "active"
       /\ op = "approval" => rows[by].role = "admin"
       /\ (tickets[k] = NoTicket) <=> (op = "open")
       /\ req' = [req EXCEPT ![r] =
            [pc |-> IF op = "approval" THEN "effect" ELSE "load", op |-> op,
             by |-> by, agent |-> HasModule(rows[by], ServiceDesk), ticket |-> k,
             seen |-> NoRow, made |-> NoUser]]
  /\ Overlap(r)
  /\ UNCHANGED <<rows, used, tickets>>

\* newTicketFromForm: a target is looked up by name.
FromForm(kind, target, want) ==
  /\ kind \in {"plain", "new_account"} => target = NoUser
  /\ kind # "grant_access" => want = {}
  /\ target # NoUser => Exists(rows, target)

\* Mutant: the requester's word is enough.
OpenTicket_NoApproval(r) ==
  /\ At(r, "load", {"open"})
  /\ tickets[req[r].ticket] = NoTicket
  /\ \E kind \in Kinds, target \in Users \cup {NoUser}, want \in SUBSET Modules :
       /\ FromForm(kind, target, want)
       /\ tickets' = [tickets EXCEPT ![req[r].ticket] =
            [NewTicket(kind, req[r].by, target, want) EXCEPT !.approval = "approved"]]
  /\ Answer(r)
  /\ UNCHANGED <<rows, used, overlapped>>

\* CreateTicket; the target may be gone before the insert as well as after it.
OpenTicket(r) ==
  /\ At(r, "load", {"open"})
  /\ tickets[req[r].ticket] = NoTicket
  /\ \E kind \in Kinds, target \in Users \cup {NoUser}, want \in SUBSET Modules :
       /\ FromForm(kind, target, want)
       /\ tickets' = [tickets EXCEPT
            ![req[r].ticket] = NewTicket(kind, req[r].by, target, want)]
  /\ Answer(r)
  /\ UNCHANGED <<rows, used, overlapped>>

\* What the form of an approval may say, and its UPDATE.
Decisions == {"approved", "rejected"}
SetTicketApproval(k, decision, by) ==
  tickets' = [tickets EXCEPT ![k] = [@ EXCEPT !.approval = decision, !.approver = by]]

\* handleTicketApproval: whatever the ticket is, whoever opened it, however
\* often it was decided before.
DecideTicket(r) ==
  /\ At(r, "effect", {"approval"})
  /\ \E decision \in Decisions : SetTicketApproval(req[r].ticket, decision, req[r].by)
  /\ Answer(r)
  /\ UNCHANGED <<rows, used, overlapped>>

\* Mutants: the approval is not asked for; the mark is not looked at.
MayCarryOut_Unapproved(t, op) ==
  /\ t.kind = op
  /\ IF op = "new_account" THEN t.created = NoUser
     ELSE t.target # NoUser /\ ~t.applied
  /\ RequiresApproval(t.kind) => t.approval # "rejected"
MayCarryOut_Repeated(t, op) ==
  /\ t.kind = op
  /\ op # "new_account" => t.target # NoUser
  /\ RequiresApproval(t.kind) => t.approval = "approved"

\* The guards of one click, on the ticket as loaded.
MayCarryOut(t, op) ==
  /\ t.kind = op
  /\ IF op = "new_account" THEN t.created = NoUser
     ELSE t.target # NoUser /\ ~t.applied
  /\ RequiresApproval(t.kind) => t.approval = "approved"

\* loadTicket, then the handler's own guards.
LoadTicket(r) ==
  /\ At(r, "load", Clicks \cup {"status"})
  /\ LET q == req[r]
         t == GetTicket(q.ticket)
     IN  \/ (t = NoTicket \/ ~q.agent) /\ Answer(r)
         \/ /\ t # NoTicket
            /\ q.agent
            /\ \/ q.op = "status" /\ Go(r, "effect", NoRow)
               \/ q.op \in Clicks /\ ~MayCarryOut(t, q.op) /\ Answer(r)
               \/ /\ q.op \in Clicks
                  /\ MayCarryOut(t, q.op)
                  /\ Go(r, IF q.op = "new_account" THEN "effect" ELSE "target", NoRow)
  /\ UNCHANGED <<rows, used, tickets, overlapped>>

\* GetUserByID, and the half of canDeactivate that needs no count.
LoadTarget(r) ==
  /\ At(r, "target", {"grant_access", "terminate"})
  /\ LET u   == tickets[req[r].ticket].target
         row == rows[u]
     IN  \/ /\ \/ row = NoRow
               \/ req[r].op = "terminate" /\ u = req[r].by
            /\ Answer(r)
         \/ /\ row # NoRow
            /\ req[r].op = "terminate" => u # req[r].by
            /\ Go(r, IF req[r].op = "terminate" /\ row.role = "admin"
                     THEN "count" ELSE "effect", row)
  /\ UNCHANGED <<rows, used, tickets, overlapped>>

\* Mutant: < 1 for <= 1.
CountTheAdmins_OffByOne(r) ==
  /\ At(r, "count", {"terminate"})
  /\ \/ CountAdmins(rows) < 1 /\ Answer(r)
     \/ CountAdmins(rows) >= 1 /\ Go(r, "effect", req[r].seen)
  /\ UNCHANGED <<rows, used, tickets, overlapped>>

CountTheAdmins(r) ==
  /\ At(r, "count", {"terminate"})
  /\ \/ CountAdmins(rows) <= 1 /\ Answer(r)
     \/ CountAdmins(rows) > 1  /\ Go(r, "effect", req[r].seen)
  /\ UNCHANGED <<rows, used, tickets, overlapped>>

\* Mutant: the permissions asked for replace those the target has.
GrantAccess_Replaces(r) ==
  /\ At(r, "effect", {"grant_access"})
  /\ LET t == tickets[req[r].ticket] IN rows' = SetUserPermissions(rows, t.target, t.want)
  /\ Go(r, "stamp", NoRow)
  /\ UNCHANGED <<used, tickets, overlapped>>

\* SetUserPermissions: the union of the permissions LOADED and those asked for.
GrantAccess(r) ==
  /\ At(r, "effect", {"grant_access"})
  /\ LET t == tickets[req[r].ticket] IN
       rows' = SetUserPermissions(rows, t.target, req[r].seen.perms \cup t.want)
  /\ Go(r, "stamp", NoRow)
  /\ UNCHANGED <<used, tickets, overlapped>>

\* Mutant: the last day is recorded and the account stays active.
TerminateTarget_DateOnly(r) ==
  /\ At(r, "effect", {"terminate"})
  /\ Go(r, "stamp", NoRow)
  /\ UNCHANGED <<rows, used, tickets, overlapped>>

TerminateTarget(r) ==
  /\ At(r, "effect", {"terminate"})
  /\ rows' = Terminate(rows, tickets[req[r].ticket].target)
  /\ Go(r, "stamp", NoRow)
  /\ UNCHANGED <<used, tickets, overlapped>>

\* A member, under the first free name (a name taken in between is an error,
\* see GiveUp).  The new id is handed to the stamp.
MakeAccount(r) ==
  /\ At(r, "effect", {"new_account"})
  /\ \E u \in Users \ used :
       /\ rows' = CreateUser(rows, u, "member", {})
       /\ used' = used \cup {u}
       /\ req' = [req EXCEPT ![r] = [@ EXCEPT !.pc = "stamp", !.made = u]]
  /\ UNCHANGED <<tickets, overlapped>>

\* SetTicketCreatedAccount or SetTicketActionApplied.
Stamp(r) ==
  /\ At(r, "stamp", Clicks)
  /\ tickets' = [tickets EXCEPT ![req[r].ticket] =
       IF req[r].op = "new_account" THEN [@ EXCEPT !.created = req[r].made]
       ELSE [@ EXCEPT !.applied = TRUE]]
  /\ Go(r, "resolve", NoRow)
  /\ UNCHANGED <<rows, used, overlapped>>

Resolve(r) ==
  /\ At(r, "resolve", Clicks)
  /\ UpdateTicketStatus(req[r].ticket, "done")
  /\ Answer(r)
  /\ UNCHANGED <<rows, used, overlapped>>

\* handleTicketStatus: an agent sets any status.
SetStatus(r) ==
  /\ At(r, "effect", {"status"})
  /\ \E status \in {"open", "done"} : UpdateTicketStatus(req[r].ticket, status)
  /\ Answer(r)
  /\ UNCHANGED <<rows, used, overlapped>>

\* Every other way a request ends: bad form, an error, a crash of the daemon.
\* Past the effect only a crash ends it early.
GiveUp(r) ==
  /\ req[r] # NoReq
  /\ Answer(r)
  /\ UNCHANGED <<rows, used, tickets, overlapped>>

Handle(r) ==
  \/ OpenTicket(r)     \/ DecideTicket(r)    \/ LoadTicket(r)  \/ LoadTarget(r)
  \/ CountTheAdmins(r) \/ GrantAccess(r)     \/ TerminateTarget(r)
  \/ MakeAccount(r)    \/ Stamp(r)           \/ Resolve(r)     \/ SetStatus(r)
  \/ GiveUp(r)

\* The accounts page (Accounts.tla): what an admin can do there to another
\* account, each request taken whole, in a slot of its own.
AccountsPage(r) ==
  /\ req[r] = NoReq
  /\ \E by \in ActiveAdmins(rows) : \E u \in Users \ {by} :
       /\ Exists(rows, u)
       /\ \/ \E role \in Roles, perms \in SUBSET Modules :
               rows' = UpdateProfile(rows, u, role, perms)
          \/ \E status \in Statuses : rows' = UpdateUserStatus(rows, u, status)
          \/ rows' = DeleteUser(rows, u)
  /\ Overlap(r)
  /\ UNCHANGED <<used, tickets, req>>

Next == \E r \in Requests : Receive(r) \/ Handle(r) \/ AccountsPage(r)

Spec == Init /\ [][Next]_vars

-----------------------------------------------------------------------------
(* Properties.  Those that ask for ~overlapped hold as long as handlers run *)
(* one after another, with crashes anywhere; the others for every           *)
(* interleaving.                                                            *)

\* The step in which request r changes the users table for its ticket.
CarriesOut(r) == At(r, "effect", Clicks) /\ At(r, "stamp", Clicks)'

\* "never remove the last active admin" (canDeactivate), for the offboarding
\* click as for the accounts page.
SomeActiveAdmin == ~overlapped => ActiveAdmins(rows) # {}

\* "gated by approval when the ticket required it" (handleTicketCreateAccount;
\* the other two clicks say "guarded the same way"): at the very step that
\* changes an account, the ticket stands approved.  (Overlapped, the approval
\* may have been taken back since the ticket was loaded.)
ApprovedFirst ==
  [][~overlapped => \A r \in Requests :
       CarriesOut(r) => tickets[req[r].ticket].approval = "approved"]_vars

\* SetTicketActionApplied: "so a repeat click can never re-run it";
\* SetTicketCreatedAccount: "so the button only ever runs once per ticket".
\* True of repeats; two clicks at once both run (and a crash between the effect
\* and the stamp is a ticket that was carried out and does not say so).
OncePerTicket ==
  [][~overlapped => \A r \in Requests :
       CarriesOut(r) => LET t == tickets[req[r].ticket] IN t.created = NoUser /\ ~t.applied]_vars

\* A stamp tells the truth: when a ticket is about to be marked as carried
\* out, its target has the permissions asked for, or can no longer sign in, or
\* the account exists.
StampsTellTheTruth ==
  ~overlapped => \A r \in Requests : At(r, "stamp", Clicks) =>
    LET t == tickets[req[r].ticket] IN
      CASE req[r].op = "grant_access" -> t.want \subseteq rows[t.target].perms
        [] req[r].op = "terminate"    -> rows[t.target].status = "disabled"
        [] req[r].op = "new_account"  -> Exists(rows, req[r].made)

\* handleTicketGrantAccess "unions the checkboxes the requester picked into the
\* target user's existing permissions": granting never takes anything away.
\* (Overlapped, the union is with what the target had when it was loaded.)
GrantsOnlyAdd ==
  [][~overlapped => \A r \in Requests :
       CarriesOut(r) /\ req[r].op = "grant_access" =>
         LET u == tickets[req[r].ticket].target IN
           Exists(rows, u) => rows[u].perms \subseteq rows'[u].perms]_vars

\* Nothing is carried out that no admin ever decided on, however the requests
\* interleave.
SomeoneDecided ==
  \A k \in Tickets :
    tickets[k] # NoTicket /\ (tickets[k].applied \/ tickets[k].created # NoUser)
      => tickets[k].approver # NoUser
=============================================================================
