------------------------------ MODULE Accounts ------------------------------
(***************************************************************************)
(* Account administration (server/accounts.go), sessions (auth/auth.go,    *)
(* store.go) and the bootstrap of the first admin (auth.EnsureAdmin).      *)
(*                                                                         *)
(* Every HTTP request runs in its own goroutine and talks to the database  *)
(* one statement at a time, so a handler is a small process: it is         *)
(* received (the middleware reads the session), loads the account it is    *)
(* about, perhaps counts the active admins, and finally writes, taking     *)
(* every decision on what it read EARLIER.  A request in flight is a       *)
(* record that keeps what it read; the set Requests bounds how many are in *)
(* flight at once.                                                         *)
(***************************************************************************)
EXTENDS UserStore

CONSTANTS Tokens,    \* session cookies
          NoUser,    \* a token that opens no session
          Requests,  \* slots for requests in flight
          NoReq      \* an unused slot

ASSUME NoUserIsNoUser == NoUser \notin Users

VARIABLES rows,      \* the users table
          used,      \* ids AUTOINCREMENT has handed out, for ever
          sessions,  \* the sessions table: token -> account
          keyed,     \* accounts an api_keys row refers to (created_by)
          req,       \* requests in flight
          up,        \* kursord has finished starting and serves requests
          overlapped \* history: two requests have been in flight at once

vars == <<rows, used, sessions, keyed, req, up, overlapped>>

Ops == {"create", "edit", "status", "terminate", "delete", "login", "apikey"}

\* The fields of the create and edit forms that matter here; the other
\* requests carry none.
Forms     == [role: Roles, perms: SUBSET Modules]
BlankForm == [role |-> "member", perms |-> {}]
FormsOf(op) == IF op \in {"create", "edit"} THEN Forms ELSE {BlankForm}

InFlight ==
  [pc: {"load", "count", "write"}, op: Ops, by: Users \cup {NoUser}, target: Users,
   form: Forms, seen: UserRow \cup {NoRow}]
ASSUME NoReqIsNoReq == NoReq \notin InFlight

TypeOK ==
  /\ rows \in UsersTable
  /\ used \subseteq Users
  /\ sessions \in [Tokens -> Users \cup {NoUser}]
  /\ keyed \subseteq Users
  /\ req \in [Requests -> InFlight \cup {NoReq}]
  /\ \A r \in Requests : req[r] # NoReq /\ req[r].op # "login" => req[r].by \in Users
  /\ up \in BOOLEAN
  /\ overlapped \in BOOLEAN

Init ==
  /\ rows = [u \in Users |-> NoRow]
  /\ used = {}
  /\ sessions = [t \in Tokens |-> NoUser]
  /\ keyed = {}
  /\ req = [r \in Requests |-> NoReq]
  /\ up = FALSE
  /\ overlapped = FALSE

-----------------------------------------------------------------------------
(* Start and stop of the daemon.                                           *)

\* main: EnsureAdmin creates the first admin of an empty table, then serve.
Boot ==
  /\ ~up
  /\ up' = TRUE
  /\ \/ /\ CountUsers(rows) > 0
        /\ UNCHANGED <<rows, used>>
     \/ /\ CountUsers(rows) = 0
        /\ \E u \in Users \ used :
             /\ rows' = CreateUser(rows, u, "admin", {})
             /\ used' = used \cup {u}
  /\ UNCHANGED <<sessions, keyed, req, overlapped>>

\* The process dies: requests are lost wherever they stand, the database stays.
Crash ==
  /\ up
  /\ up' = FALSE
  /\ req' = [r \in Requests |-> NoReq]
  /\ UNCHANGED <<rows, used, sessions, keyed, overlapped>>

-----------------------------------------------------------------------------
(* Sessions.                                                               *)

\* GetSession joins the live row: a disabled account's session is no session.
SessionOf(t, u) ==
  /\ sessions[t] = u
  /\ u # NoUser
  /\ Exists(rows, u)
  /\ rows[u].status = "active"

\* Logout (DeleteSession) or the session's TTL running out.
EndSession(t) ==
  /\ sessions[t] # NoUser
  /\ sessions' = [sessions EXCEPT ![t] = NoUser]
  /\ UNCHANGED <<rows, used, keyed, req, up, overlapped>>

-----------------------------------------------------------------------------
(* A request: received, loaded, counted, written, answered.                *)

Go(r, pc, seen) == req' = [req EXCEPT ![r] = [@ EXCEPT !.pc = pc, !.seen = seen]]
Answer(r)       == req' = [req EXCEPT ![r] = NoReq]
At(r, pc, ops)  == req[r] # NoReq /\ req[r].pc = pc /\ req[r].op \in ops

\* requireAuth then requireAdmin: the role is the one the session had HERE.
\* The login form has no session yet.
Receive(r) ==
  /\ up
  /\ req[r] = NoReq
  /\ \E op \in Ops, by \in Users \cup {NoUser}, target \in Users : \E form \in FormsOf(op) :
       /\ op \in {"create", "apikey"} => target = by  \* they name no account
       /\ \/ op = "login" /\ by = NoUser
          \/ /\ op # "login"
             /\ by # NoUser
             /\ \E t \in Tokens : SessionOf(t, by)
             /\ rows[by].role = "admin"
       /\ req' = [req EXCEPT ![r] =
            [pc |-> IF op \in {"create", "apikey"} THEN "write" ELSE "load",
             op |-> op, by |-> by, target |-> target, form |-> form, seen |-> NoRow]]
  /\ overlapped' = (overlapped \/ \E s \in Requests \ {r} : req[s] # NoReq)
  /\ UNCHANGED <<rows, used, sessions, keyed, up>>

\* Mutants: anyone may act on their own account; admins are not counted.
Verdict_NoOwnCheck(r, row) == IF row.role = "admin" THEN "count" ELSE "free"
Verdict_NoCount(r, row) == IF req[r].target = req[r].by THEN "own" ELSE "free"

\* canDeactivate up to the count: "own" refuses, "free" allows, "count" asks.
Verdict(r, row) ==
  IF req[r].target = req[r].by THEN "own"
  ELSE IF row.role = "admin" THEN "count" ELSE "free"

\* What the edit, status, terminate and delete handlers do with the row loaded.
LoadAccount(r) ==
  /\ At(r, "load", {"edit", "status", "terminate", "delete"})
  /\ LET q   == req[r]
         row == rows[q.target]
         deactivates == q.op # "edit" /\ ~(q.op = "status" /\ row.status = "disabled")
     IN  \/ Exists(rows, q.target) = FALSE /\ Answer(r)
         \/ /\ Exists(rows, q.target)
            /\ \/ deactivates /\ Verdict(r, row) = "own"   /\ Answer(r)
               \/ deactivates /\ Verdict(r, row) = "count" /\ Go(r, "count", row)
               \/ deactivates /\ Verdict(r, row) = "free"  /\ Go(r, "write", row)
               \/ q.op = "status" /\ ~deactivates          /\ Go(r, "write", row)
               \/ /\ q.op = "edit"
                  /\ IF row.role = "admin" /\ q.form.role # "admin"
                     THEN Go(r, "count", row)
                     ELSE Go(r, "write", row)
  /\ UNCHANGED <<rows, used, sessions, keyed, up, overlapped>>

\* Mutant: < 1 for <= 1.
CountTheAdmins_OffByOne(r) ==
  /\ At(r, "count", Ops)
  /\ \/ CountAdmins(rows) < 1  /\ Answer(r)
     \/ CountAdmins(rows) >= 1 /\ Go(r, "write", req[r].seen)
  /\ UNCHANGED <<rows, used, sessions, keyed, up, overlapped>>

\* CountAdmins <= 1 refuses to demote, disable, terminate or delete an admin.
CountTheAdmins(r) ==
  /\ At(r, "count", Ops)
  /\ \/ CountAdmins(rows) <= 1 /\ Answer(r)
     \/ CountAdmins(rows) > 1  /\ Go(r, "write", req[r].seen)
  /\ UNCHANGED <<rows, used, sessions, keyed, up, overlapped>>

EditAccount(r) ==
  /\ At(r, "write", {"edit"})
  /\ LET q == req[r] IN
       rows' = UpdateProfile(rows, q.target, q.form.role, q.form.perms)
  /\ Answer(r)
  /\ UNCHANGED <<used, sessions, keyed, up, overlapped>>

\* The toggle: the new status is the opposite of the LOADED one.
ToggleStatus(r) ==
  /\ At(r, "write", {"status"})
  /\ rows' = UpdateUserStatus(rows, req[r].target,
               IF req[r].seen.status = "disabled" THEN "active" ELSE "disabled")
  /\ Answer(r)
  /\ UNCHANGED <<used, sessions, keyed, up, overlapped>>

TerminateAccount(r) ==
  /\ At(r, "write", {"terminate"})
  /\ rows' = Terminate(rows, req[r].target)
  /\ Answer(r)
  /\ UNCHANGED <<used, sessions, keyed, up, overlapped>>

\* Mutant: no ON DELETE CASCADE on sessions.
DeleteAccount_NoCascade(r) ==
  /\ At(r, "write", {"delete"})
  /\ rows' = IF req[r].target \in keyed THEN rows ELSE DeleteUser(rows, req[r].target)
  /\ Answer(r)
  /\ UNCHANGED <<used, sessions, keyed, up, overlapped>>

\* Sessions cascade; an api_keys row refuses the DELETE, and the error is dropped.
DeleteAccount(r) ==
  /\ At(r, "write", {"delete"})
  /\ LET u == req[r].target IN
       IF u \in keyed
       THEN UNCHANGED <<rows, sessions>>
       ELSE /\ rows' = DeleteUser(rows, u)
            /\ sessions' = [t \in Tokens |-> IF sessions[t] = u THEN NoUser ELSE sessions[t]]
  /\ Answer(r)
  /\ UNCHANGED <<used, keyed, up, overlapped>>

\* Mutant: INTEGER PRIMARY KEY without AUTOINCREMENT.
CreateAccount_ReusesIds(r) ==
  /\ At(r, "write", {"create"})
  /\ \E u \in {v \in Users : ~Exists(rows, v)} :
       /\ rows' = CreateUser(rows, u, req[r].form.role, req[r].form.perms)
       /\ used' = used \cup {u}
  /\ Answer(r)
  /\ UNCHANGED <<sessions, keyed, up, overlapped>>

CreateAccount(r) ==
  /\ At(r, "write", {"create"})
  /\ \E u \in Users \ used :
       /\ rows' = CreateUser(rows, u, req[r].form.role, req[r].form.perms)
       /\ used' = used \cup {u}
  /\ Answer(r)
  /\ UNCHANGED <<sessions, keyed, up, overlapped>>

\* handleAPIKeyCreate: created_by must refer to a row (foreign key).
CreateAPIKey(r) ==
  /\ At(r, "write", {"apikey"})
  /\ keyed' = IF Exists(rows, req[r].by) THEN keyed \cup {req[r].by} ELSE keyed
  /\ Answer(r)
  /\ UNCHANGED <<rows, used, sessions, up, overlapped>>

\* handleLoginSubmit, password right: the status is checked on the row loaded.
LoginLoad(r) ==
  /\ At(r, "load", {"login"})
  /\ LET row == rows[req[r].target] IN
       IF row # NoRow /\ row.status = "active" THEN Go(r, "write", row) ELSE Answer(r)
  /\ UNCHANGED <<rows, used, sessions, keyed, up, overlapped>>

\* StartSession; the foreign key refuses a session of a row deleted meanwhile.
StartSession(r) ==
  /\ At(r, "write", {"login"})
  /\ IF Exists(rows, req[r].target)
     THEN \E t \in Tokens : sessions[t] = NoUser
                            /\ sessions' = [sessions EXCEPT ![t] = req[r].target]
     ELSE UNCHANGED sessions
  /\ Answer(r)
  /\ UNCHANGED <<rows, used, keyed, up, overlapped>>

\* Every other early return: bad form, bad CSRF token, username taken, DB error.
GiveUp(r) ==
  /\ req[r] # NoReq
  /\ Answer(r)
  /\ UNCHANGED <<rows, used, sessions, keyed, up, overlapped>>

Handle(r) ==
  \/ LoadAccount(r)   \/ CountTheAdmins(r)
  \/ EditAccount(r)   \/ ToggleStatus(r)  \/ TerminateAccount(r) \/ DeleteAccount(r)
  \/ CreateAccount(r) \/ CreateAPIKey(r)  \/ LoginLoad(r)        \/ StartSession(r)
  \/ GiveUp(r)

Next ==
  \/ Boot
  \/ Crash
  \/ \E t \in Tokens : EndSession(t)
  \/ \E r \in Requests : Receive(r) \/ Handle(r)

Spec == Init /\ [][Next]_vars

-----------------------------------------------------------------------------
(* Properties.                                                             *)

\* "never remove the last active admin -- either would lock everyone out"
\* (accounts.go, canDeactivate): once the panel has started, somebody can
\* administer it.
LastAdminStays == up => ActiveAdmins(rows) # {}

\* It holds as long as handlers run one after another, demotions and crashes
\* included.
SomeActiveAdmin == ~overlapped => LastAdminStays

\* What a request about to write would do to an admin it loaded.
TakesAdminAway(q) ==
  /\ q.seen.role = "admin"
  /\ \/ q.op = "edit" /\ q.form.role # "admin"
     \/ q.op = "status" /\ q.seen.status # "disabled"
     \/ q.op \in {"terminate", "delete"}

\* As long as handlers run one after another, a decision is still right when it
\* is carried out: the row loaded is the row in the table, and a request that is
\* about to take an admin away leaves another active one.  (Two requests in
\* flight break exactly this, and with it LastAdminStays.)
DecisionsHold ==
  ~overlapped => \A r \in Requests :
    req[r] # NoReq /\ req[r].op \in {"edit", "status", "terminate", "delete"}
                   /\ req[r].pc # "load" =>
      /\ Exists(rows, req[r].target)
      /\ req[r].seen = rows[req[r].target]
      /\ req[r].pc = "write" /\ TakesAdminAway(req[r]) => CountAdmins(rows) > 1

\* The foreign keys (foreign_keys(1), ON DELETE CASCADE): whatever races with
\* a deletion, a session and an API key always belong to an account that exists.
OwnersExist ==
  /\ \A t \in Tokens : sessions[t] # NoUser => Exists(rows, sessions[t])
  /\ \A u \in keyed : Exists(rows, u)

\* oauth_codes, tickets and vpn_peers keep user ids without, or after, a
\* foreign key, so an id must never come to mean another person: a request that
\* loaded the row before the deletion does not bring it back, and AUTOINCREMENT
\* never hands the id out again.
IdsNeverReused ==
  [][\A u \in used : ~Exists(rows, u) => ~Exists(rows', u)]_vars

\* "never act on your own account" (accounts.go, canDeactivate): whoever loses
\* access loses it to a request somebody else made about them.
NobodyRemovesThemselves ==
  [][\A u \in Users :
       (/\ Exists(rows, u)
        /\ rows[u].status = "active"
        /\ ~(Exists(rows', u) /\ rows'[u].status = "active"))
       => \E r \in Requests : req[r] # NoReq /\ req[r].target = u /\ req[r].by # u]_vars
=============================================================================
