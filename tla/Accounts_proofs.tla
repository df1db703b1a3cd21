--------------------------- MODULE Accounts_proofs ---------------------------
(***************************************************************************)
(* Theorems about Accounts, for every value of its constants: any finite   *)
(* number of accounts, any number of cookies and of requests in flight.    *)
(*                                                                         *)
(* AdminInv is about handlers one after another: what one has read is what *)
(* the table says, and its decision follows.  JudgedInv holds in every     *)
(* interleaving: what is about to end an account's access was asked for by *)
(* somebody else.                                                          *)
(***************************************************************************)
EXTENDS Accounts, UserStore_proofs

-----------------------------------------------------------------------------
(* Steps of a request keep the slots well typed.                           *)

ReqTyped ==
  /\ req \in [Requests -> InFlight \cup {NoReq}]
  /\ \A r \in Requests : req[r] # NoReq /\ req[r].op # "login" => req[r].by \in Users

LEMMA GoType ==
  ASSUME ReqTyped, NEW r \in Requests, req[r] # NoReq,
         NEW pc \in {"load", "count", "write"}, NEW seen \in UserRow \cup {NoRow},
         Go(r, pc, seen)
  PROVE  ReqTyped'
BY DEF ReqTyped, Go, InFlight

LEMMA AnswerType ==
  ASSUME ReqTyped, NEW r \in Requests, Answer(r)
  PROVE  ReqTyped'
BY DEF ReqTyped, Answer

LEMMA InFlightFields ==
  ASSUME TypeOK, NEW r \in Requests, req[r] # NoReq
  PROVE  /\ req[r] \in InFlight
         /\ req[r].target \in Users
         /\ req[r].by \in Users \cup {NoUser}
         /\ req[r].form \in Forms
         /\ req[r].seen \in UserRow \cup {NoRow}
BY DEF TypeOK, InFlight

-----------------------------------------------------------------------------
(* Types.                                                                  *)

LEMMA TypeInit == Init => TypeOK
BY DEF Init, TypeOK, UsersTable

LEMMA TypeNext == TypeOK /\ [Next]_vars => TypeOK'
<1> SUFFICES ASSUME TypeOK, [Next]_vars PROVE TypeOK'
  OBVIOUS
<1>1. CASE Boot
  <2>1. {} \in SUBSET Modules /\ "admin" \in Roles /\ "active" \in Statuses
    BY DEF Roles, Statuses
  <2> QED
    BY <1>1, <2>1, StoreTypes DEF Boot, TypeOK
<1>2. CASE Crash
  BY <1>2 DEF Crash, TypeOK
<1>3. ASSUME NEW t \in Tokens, EndSession(t) PROVE TypeOK'
  BY <1>3 DEF EndSession, TypeOK
<1>4. ASSUME NEW r \in Requests, Receive(r) PROVE TypeOK'
  <2>1. PICK op \in Ops, by \in Users \cup {NoUser}, target \in Users :
          /\ op # "login" => by \in Users
          /\ \E form \in FormsOf(op) :
               req' = [req EXCEPT ![r] =
                 [pc |-> IF op \in {"create", "apikey"} THEN "write" ELSE "load",
                  op |-> op, by |-> by, target |-> target, form |-> form, seen |-> NoRow]]
    BY <1>4 DEF Receive
  <2>2. PICK form \in FormsOf(op) : req' = [req EXCEPT ![r] =
            [pc |-> IF op \in {"create", "apikey"} THEN "write" ELSE "load",
             op |-> op, by |-> by, target |-> target, form |-> form, seen |-> NoRow]]
    BY <2>1
  <2>3. form \in Forms
    BY DEF FormsOf, Forms, BlankForm, Roles
  <2>4. ReqTyped'
    BY <2>1, <2>2, <2>3 DEF TypeOK, ReqTyped, InFlight
  <2> QED
    BY <1>4, <2>4 DEF Receive, TypeOK, ReqTyped
<1>5. ASSUME NEW r \in Requests, Handle(r) PROVE TypeOK'
  <2>1. CASE LoadAccount(r)
    <3>1. req[r] # NoReq /\ rows[req[r].target] \in UserRow \cup {NoRow}
      BY <2>1, InFlightFields DEF LoadAccount, At, TypeOK, UsersTable
    <3>2. \/ Answer(r)
          \/ Go(r, "count", rows[req[r].target])
          \/ Go(r, "write", rows[req[r].target])
      BY <2>1 DEF LoadAccount
    <3> QED
      BY <2>1, <3>1, <3>2, GoType, AnswerType DEF LoadAccount, TypeOK, ReqTyped
  <2>2. CASE CountTheAdmins(r)
    BY <2>2, InFlightFields, GoType, AnswerType DEF CountTheAdmins, At, TypeOK, ReqTyped
  <2>3. CASE EditAccount(r)
    BY <2>3, InFlightFields, AnswerType, StoreTypes
    DEF EditAccount, At, TypeOK, ReqTyped, Forms, Statuses
  <2>4. CASE ToggleStatus(r)
    <3>1. "active" \in Statuses /\ "disabled" \in Statuses /\ "member" \in Roles
          /\ {} \in SUBSET Modules
      BY DEF Statuses, Roles
    <3> QED
      BY <2>4, <3>1, InFlightFields, AnswerType, StoreTypes DEF ToggleStatus, At, TypeOK, ReqTyped
  <2>5. CASE TerminateAccount(r)
    BY <2>5, InFlightFields, AnswerType, StoreTypes
    DEF TerminateAccount, At, TypeOK, ReqTyped, Forms, Statuses
  <2>6. CASE DeleteAccount(r)
    <3>1. rows' \in UsersTable
      BY <2>6, InFlightFields DEF DeleteAccount, At, TypeOK, DeleteUser, UsersTable
    <3>2. sessions' \in [Tokens -> Users \cup {NoUser}]
      BY <2>6 DEF DeleteAccount, TypeOK
    <3> QED
      BY <2>6, <3>1, <3>2, AnswerType DEF DeleteAccount, TypeOK, ReqTyped
  <2>7. CASE CreateAccount(r)
    BY <2>7, InFlightFields, AnswerType, StoreTypes
    DEF CreateAccount, At, TypeOK, ReqTyped, Forms, Statuses
  <2>8. CASE CreateAPIKey(r)
    BY <2>8, InFlightFields, AnswerType, NoRowIsNoRow DEF CreateAPIKey, At, TypeOK, ReqTyped, Exists
  <2>9. CASE LoginLoad(r)
    BY <2>9, InFlightFields, GoType, AnswerType DEF LoginLoad, At, TypeOK, ReqTyped, UsersTable
  <2>10. CASE StartSession(r)
    BY <2>10, InFlightFields, AnswerType DEF StartSession, At, TypeOK, ReqTyped
  <2>11. CASE GiveUp(r)
    BY <2>11, AnswerType DEF GiveUp, TypeOK, ReqTyped
  <2> QED
    BY <1>5, <2>1, <2>2, <2>3, <2>4, <2>5, <2>6, <2>7, <2>8, <2>9, <2>10, <2>11 DEF Handle
<1>6. CASE UNCHANGED vars
  BY <1>6 DEF vars, TypeOK
<1> QED
  BY <1>1, <1>2, <1>3, <1>4, <1>5, <1>6 DEF Next

\* Type correctness: the tables and the requests in flight keep their types.
THEOREM TypeCorrect == Spec => []TypeOK
BY TypeInit, TypeNext, PTL DEF Spec

-----------------------------------------------------------------------------
(* Which rows a statement can make appear or vanish.                       *)

\* What one step can do to the existence of a row.
LEMMA RowsStep ==
  ASSUME TypeOK, [Next]_vars, NEW x \in Users
  PROVE  /\ Exists(rows', x) /\ ~Exists(rows, x) => x \notin used /\ x \in used'
         /\ Exists(rows, x) /\ ~Exists(rows', x) =>
              x \notin keyed /\ \A t \in Tokens : sessions'[t] # x \/ sessions'[t] = NoUser
         /\ used \subseteq used'
<1> USE StatementsKeepRows DEF TypeOK
<1>0. "admin" \in Roles /\ "member" \in Roles /\ "active" \in Statuses
      /\ "disabled" \in Statuses /\ {} \in SUBSET Modules
  BY DEF Roles, Statuses
<1>1. CASE Boot
  BY <1>0, <1>1 DEF Boot
<1>2. CASE Crash
  BY <1>2 DEF Crash
<1>3. ASSUME NEW t \in Tokens, EndSession(t)
      PROVE  rows' = rows /\ used' = used
  BY <1>3 DEF EndSession
<1>4. ASSUME NEW r \in Requests, Receive(r)
      PROVE  rows' = rows /\ used' = used
  BY <1>4 DEF Receive
<1>5. ASSUME NEW r \in Requests, Handle(r)
      PROVE  /\ Exists(rows', x) /\ ~Exists(rows, x) => x \notin used /\ x \in used'
             /\ Exists(rows, x) /\ ~Exists(rows', x) =>
                  x \notin keyed /\ \A t \in Tokens : sessions'[t] # x \/ sessions'[t] = NoUser
             /\ used \subseteq used'
  <2>1. CASE rows' = rows /\ used' = used
    BY <2>1
  <2>2. CASE EditAccount(r)
    BY <1>0, <2>2, InFlightFields DEF EditAccount, At, Forms
  <2>3. CASE ToggleStatus(r)
    BY <1>0, <2>3, InFlightFields DEF ToggleStatus, At
  <2>4. CASE TerminateAccount(r)
    <3>1. rows' = Terminate(rows, req[r].target) /\ used' = used /\ req[r].target \in Users
      BY <2>4, InFlightFields DEF TerminateAccount, At
    <3>2. Exists(rows', x) <=> Exists(rows, x)
      BY <1>0, <3>1
    <3> QED
      BY <3>1, <3>2
  <2>5. CASE DeleteAccount(r)
    BY <1>0, <2>5, InFlightFields DEF DeleteAccount, At
  <2>6. CASE CreateAccount(r)
    BY <1>0, <2>6, InFlightFields DEF CreateAccount, At, Forms
  <2> QED
    BY <1>5, <2>1, <2>2, <2>3, <2>4, <2>5, <2>6
    DEF Handle, LoadAccount, CountTheAdmins, CreateAPIKey, LoginLoad, StartSession, GiveUp
<1>6. CASE UNCHANGED vars
  BY <1>6 DEF vars
<1> QED
  BY <1>1, <1>2, <1>3, <1>4, <1>5, <1>6 DEF Next, Crash

\* An id that lost its row never gets one again, however requests interleave.
THEOREM NoIdReuse == Spec => IdsNeverReused
<1>1. TypeOK /\ [Next]_vars =>
        [\A u \in used : ~Exists(rows, u) => ~Exists(rows', u)]_vars
  BY RowsStep DEF TypeOK
<1> QED
  BY <1>1, TypeInit, TypeNext, PTL DEF Spec, IdsNeverReused

-----------------------------------------------------------------------------
(* Sessions and API keys never outlive their account.                      *)

LEMMA OwnersNext == TypeOK /\ OwnersExist /\ [Next]_vars => OwnersExist'
<1> SUFFICES ASSUME TypeOK, OwnersExist, [Next]_vars PROVE OwnersExist'
  OBVIOUS
<1> USE DEF TypeOK
<1>1. \A u \in keyed : Exists(rows', u)
  BY RowsStep DEF OwnersExist
<1>2. \A t \in Tokens : sessions'[t] = sessions[t] /\ sessions[t] # NoUser => Exists(rows', sessions'[t])
  BY RowsStep DEF OwnersExist
<1>3. CASE sessions' = sessions /\ keyed' = keyed
  BY <1>1, <1>2, <1>3 DEF OwnersExist
<1>4. ASSUME NEW t \in Tokens, EndSession(t) PROVE OwnersExist'
  BY <1>4 DEF EndSession, OwnersExist
<1>5. ASSUME NEW r \in Requests, StartSession(r) PROVE OwnersExist'
  BY <1>5, InFlightFields DEF StartSession, At, OwnersExist
<1>6. ASSUME NEW r \in Requests, CreateAPIKey(r) PROVE OwnersExist'
  BY <1>6 DEF CreateAPIKey, OwnersExist
<1>7. ASSUME NEW r \in Requests, DeleteAccount(r) PROVE OwnersExist'
  <2>1. \A t \in Tokens : sessions'[t] = sessions[t] \/ sessions'[t] = NoUser
    BY <1>7 DEF DeleteAccount
  <2> QED
    BY <1>1, <1>2, <1>7, <2>1 DEF DeleteAccount, OwnersExist
<1> QED
  BY <1>3, <1>4, <1>5, <1>6, <1>7
  DEF Next, Handle, Boot, Crash, Receive, LoadAccount, CountTheAdmins, EditAccount, ToggleStatus,
      TerminateAccount, CreateAccount, LoginLoad, GiveUp, vars

\* Referential integrity of sessions and API keys, whatever races with a deletion.
THEOREM OwnersAlwaysExist == Spec => []OwnersExist
<1>1. Init => OwnersExist
  BY DEF Init, OwnersExist
<1> QED
  BY <1>1, TypeInit, TypeNext, OwnersNext, PTL DEF Spec

-----------------------------------------------------------------------------
(* The last admin, as long as requests do not overlap.                     *)
(*                                                                         *)
(* SomeActiveAdmin is not inductive.  The invariant adds that a request in *)
(* flight is alone until two overlap, that the panel only runs on a        *)
(* non-empty table, that a non-empty table has an active admin even while  *)
(* the panel is down (EnsureAdmin looks at CountUsers only, so a restart   *)
(* repairs nothing), and DecisionsHold: the count a handler took still     *)
(* stands when it writes.                                                  *)

OthersIdle(r) == \A s \in Requests \ {r} : req[s] = NoReq

Calm ==
  /\ \A r \in Requests : req[r] # NoReq => OthersIdle(r)
  /\ (\E u \in Users : Exists(rows, u)) => ActiveAdmins(rows) # {}
  /\ up => \E u \in Users : Exists(rows, u)

AdminInv ==
  /\ TypeOK
  /\ ~overlapped => Calm
  /\ DecisionsHold
  /\ ~up => \A r \in Requests : req[r] = NoReq
  /\ \A u \in Users : Exists(rows, u) => u \in used

LEMMA EmptyTable == CountUsers(rows) = 0 <=> \A u \in Users : ~Exists(rows, u)
<1> DEFINE S == {u \in Users : Exists(rows, u)}
<1>1. IsFiniteSet(S)
  BY UsersFinite, FS_Subset
<1> QED
  BY <1>1, FS_EmptySet DEF CountUsers

LEMMA AdminInit == Init => AdminInv
BY TypeInit DEF Init, AdminInv, Calm, OthersIdle, DecisionsHold, Exists

\* Every write of a handler leaves an active admin.
LEMMA WritesKeepAnAdmin ==
  ASSUME AdminInv, ~overlapped, NEW r \in Requests,
         EditAccount(r) \/ ToggleStatus(r) \/ TerminateAccount(r) \/ DeleteAccount(r)
           \/ CreateAccount(r)
  PROVE  ActiveAdmins(rows') # {}
<1> DEFINE q == req[r]
<1> DEFINE u == req[r].target
<1>1. q # NoReq /\ q.pc = "write" /\ u \in Users /\ q.form \in Forms /\ rows \in UsersTable
  BY InFlightFields
  DEF AdminInv, TypeOK, EditAccount, ToggleStatus, TerminateAccount, DeleteAccount, CreateAccount, At
<1>2. ActiveAdmins(rows) # {}
  <2>1. up
    BY <1>1 DEF AdminInv
  <2> QED
    BY <2>1 DEF AdminInv, Calm
<1>3. q.form.role \in Roles /\ q.form.perms \in SUBSET Modules /\ "active" \in Statuses
      /\ "disabled" \in Statuses
  BY <1>1 DEF Forms, Statuses
<1>4. CASE CreateAccount(r)
  <2>1. PICK a \in ActiveAdmins(rows) : TRUE
    BY <1>2
  <2>2. PICK n \in Users \ used : rows' = CreateUser(rows, n, q.form.role, q.form.perms)
    BY <1>4 DEF CreateAccount
  <2>3. a # n
    BY <2>1, <2>2 DEF AdminInv, ActiveAdmins
  <2> QED
    BY <1>1, <1>3, <2>2, <2>3, OthersKept
<1>5. CASE ~CreateAccount(r)
  <2>1. q.op \in {"edit", "status", "terminate", "delete"}
    BY <1>5 DEF EditAccount, ToggleStatus, TerminateAccount, DeleteAccount, At
  <2>2. Exists(rows, u) /\ q.seen = rows[u] /\ (TakesAdminAway(q) => CountAdmins(rows) > 1)
    BY <1>1, <2>1 DEF AdminInv, DecisionsHold
  <2>3. \/ rows' = rows
        \/ q.op = "edit" /\ rows' = UpdateProfile(rows, u, q.form.role, q.form.perms)
        \/ q.op = "status" /\ rows' = UpdateUserStatus(rows, u,
                                  IF q.seen.status = "disabled" THEN "active" ELSE "disabled")
        \/ q.op = "terminate" /\ rows' = Terminate(rows, u)
        \/ q.op = "delete" /\ rows' = DeleteUser(rows, u)
    BY <1>5 DEF EditAccount, ToggleStatus, TerminateAccount, DeleteAccount, At
  <2>4. ASSUME NEW a \in ActiveAdmins(rows), a # u PROVE a \in ActiveAdmins(rows')
    BY <1>1, <1>3, <2>3, <2>4, OthersKept
  <2>5. CASE TakesAdminAway(q)
    BY <1>1, <2>2, <2>4, <2>5, OneAdminLeft
  <2>6. CASE ~TakesAdminAway(q)
    <3>1. PICK a \in ActiveAdmins(rows) : TRUE
      BY <1>2
    <3>2. CASE a = u
      <4>1. rows[u].role = "admin" /\ rows[u].status = "active" /\ rows[u] \in UserRow
        BY <1>1, <2>2, <3>2 DEF ActiveAdmins, Exists, UsersTable
      <4>2. \/ rows' = rows
            \/ q.form.role = "admin" /\ rows' = UpdateProfile(rows, u, q.form.role, q.form.perms)
        BY <2>2, <2>3, <2>6, <4>1 DEF TakesAdminAway
      <4>3. rows'[u].role = "admin" /\ rows'[u].status = "active" /\ rows'[u] \in UserRow
        BY <1>1, <1>3, <2>2, <4>1, <4>2 DEF UpdateProfile, Update, UsersTable, UserRow
      <4> QED
        BY <1>1, <4>3, NoRowIsNoRow DEF ActiveAdmins, Exists
    <3> QED
      BY <2>4, <3>1, <3>2
  <2> QED
    BY <2>5, <2>6
<1> QED
  BY <1>4, <1>5

\* A slot that does not change, or that nothing but the row it is about could
\* falsify, keeps DecisionsHold.
LEMMA AnsweredDecisions ==
  ASSUME AdminInv, ~overlapped, NEW r \in Requests, req[r] # NoReq, Answer(r)
  PROVE  DecisionsHold'
<1>1. \A s \in Requests : req'[s] = NoReq
  BY DEF AdminInv, Calm, OthersIdle, Answer, TypeOK
<1> QED
  BY <1>1 DEF DecisionsHold

\* What a handler stores for its later steps is what the tables hold now.
LEMMA DecisionsTaken ==
  ASSUME AdminInv, ~overlapped, NEW r \in Requests, LoadAccount(r) \/ CountTheAdmins(r)
  PROVE  DecisionsHold'
<1>1. req[r] # NoReq /\ req[r] \in InFlight /\ req \in [Requests -> InFlight \cup {NoReq}]
      /\ rows \in UsersTable /\ OthersIdle(r) /\ rows' = rows
  BY InFlightFields DEF AdminInv, Calm, TypeOK, LoadAccount, CountTheAdmins, At
<1>2. CASE Answer(r)
  BY <1>1, <1>2, AnsweredDecisions
<1>3. CASE LoadAccount(r) /\ ~Answer(r)
  <2> DEFINE row == rows[req[r].target]
  <2>1. /\ Exists(rows, req[r].target)
        /\ req[r].op \in {"edit", "status", "terminate", "delete"}
        /\ \/ Go(r, "count", row)
           \/ Go(r, "write", row) /\ ~TakesAdminAway([req[r] EXCEPT !.seen = row])
    BY <1>1, <1>3 DEF LoadAccount, At, Verdict, TakesAdminAway, InFlight
  <2>2. CASE Go(r, "count", row)
    BY <1>1, <2>1, <2>2 DEF Go, DecisionsHold, InFlight, OthersIdle
  <2>3. CASE Go(r, "write", row) /\ ~TakesAdminAway([req[r] EXCEPT !.seen = row])
    BY <1>1, <2>1, <2>3 DEF Go, DecisionsHold, InFlight, TakesAdminAway, OthersIdle
  <2> QED
    BY <2>1, <2>2, <2>3
<1>4. CASE CountTheAdmins(r) /\ ~Answer(r)
  <2>1. /\ CountAdmins(rows) > 1
        /\ Go(r, "write", req[r].seen)
        /\ req[r].pc = "count"
    BY <1>4 DEF CountTheAdmins, At
  <2> QED
    BY <1>1, <2>1 DEF AdminInv, Go, DecisionsHold, InFlight, OthersIdle
<1> QED
  BY <1>2, <1>3, <1>4

\* What no step of a handler touches.
LEMMA HandleFrame ==
  ASSUME NEW r \in Requests, Handle(r)
  PROVE  req[r] # NoReq /\ up' = up /\ overlapped' = overlapped
BY DEF Handle, LoadAccount, CountTheAdmins, EditAccount, ToggleStatus, TerminateAccount,
   DeleteAccount, CreateAccount, CreateAPIKey, LoginLoad, StartSession, GiveUp, At

\* A step of a request in flight, under no overlap: only its own slot changes.
LEMMA CalmHandle ==
  ASSUME AdminInv, ~overlapped, NEW r \in Requests, Handle(r)
  PROVE  Calm' /\ DecisionsHold'
<1>1. req[r] # NoReq /\ up /\ up' /\ OthersIdle(r) /\ TypeOK /\ Calm
  BY HandleFrame DEF AdminInv, Calm
<1>2. \A s \in Requests \ {r} : req'[s] = NoReq
  <2>1. Answer(r) \/ \E pc \in {"count", "write"} : \E seen \in UserRow \cup {NoRow} : Go(r, pc, seen)
    BY <1>1, InFlightFields
    DEF Handle, LoadAccount, CountTheAdmins, EditAccount, ToggleStatus, TerminateAccount,
        DeleteAccount, CreateAccount, CreateAPIKey, LoginLoad, StartSession, GiveUp, TypeOK,
        UsersTable
  <2> QED
    BY <1>1, <2>1 DEF OthersIdle, Answer, Go, TypeOK
<1>3. \A s \in Requests : req'[s] # NoReq => OthersIdle(s)'
  BY <1>2 DEF OthersIdle
<1>4. CASE rows' = rows /\ DecisionsHold'
  BY <1>1, <1>3, <1>4 DEF Calm, Exists, ActiveAdmins
<1>5. CASE LoadAccount(r) \/ CountTheAdmins(r)
  BY <1>4, <1>5, DecisionsTaken DEF LoadAccount, CountTheAdmins
<1>6. CASE EditAccount(r) \/ ToggleStatus(r) \/ TerminateAccount(r) \/ DeleteAccount(r)
             \/ CreateAccount(r)
  <2>1. ActiveAdmins(rows') # {}
    BY <1>6, WritesKeepAnAdmin
  <2>2. DecisionsHold'
    BY <1>1, <1>6, AnsweredDecisions
    DEF EditAccount, ToggleStatus, TerminateAccount, DeleteAccount, CreateAccount
  <2> QED
    BY <1>1, <1>3, <2>1, <2>2 DEF Calm, ActiveAdmins
<1>7. CASE CreateAPIKey(r) \/ StartSession(r) \/ GiveUp(r)
  BY <1>1, <1>4, <1>7, AnsweredDecisions DEF CreateAPIKey, StartSession, GiveUp
<1>8. CASE LoginLoad(r)
  <2>1. req[r] \in InFlight /\ req[r].op = "login" /\ rows' = rows
    BY <1>1, <1>8, InFlightFields DEF LoginLoad, At
  <2>2. req'[r] = NoReq \/ req'[r].op = "login"
    <3>1. Answer(r) \/ Go(r, "write", rows[req[r].target])
      BY <1>8 DEF LoginLoad
    <3> QED
      BY <1>1, <2>1, <3>1 DEF Go, Answer, TypeOK, InFlight
  <2> QED
    BY <1>2, <1>4, <2>1, <2>2 DEF DecisionsHold
<1> QED
  BY <1>5, <1>6, <1>7, <1>8 DEF Handle

LEMMA AdminNext == AdminInv /\ [Next]_vars => AdminInv'
<1> SUFFICES ASSUME AdminInv, [Next]_vars PROVE AdminInv'
  OBVIOUS
<1>1. TypeOK /\ TypeOK'
  BY TypeNext DEF AdminInv
<1>2. \A u \in Users : Exists(rows', u) => u \in used'
  BY <1>1, RowsStep DEF AdminInv
<1>3. ~up' => \A s \in Requests : req'[s] = NoReq
  <2>1. ASSUME NEW r \in Requests, Handle(r) PROVE up'
    BY <2>1, HandleFrame DEF AdminInv
  <2> QED
    BY <2>1 DEF AdminInv, Next, Boot, Crash, EndSession, Receive, vars
<1>4. ~overlapped' => ~overlapped
  BY HandleFrame DEF Next, Boot, Crash, EndSession, Receive, vars
<1>5. SUFFICES ASSUME ~overlapped, ~overlapped' PROVE Calm' /\ DecisionsHold'
  BY <1>1, <1>2, <1>3, <1>4 DEF AdminInv, DecisionsHold
<1>6. Calm
  BY <1>5 DEF AdminInv
<1>7. CASE Boot
  <2>1. (\A s \in Requests : req'[s] = NoReq) /\ DecisionsHold'
    BY <1>7 DEF Boot, AdminInv, DecisionsHold
  <2>2. CASE CountUsers(rows) > 0 /\ rows' = rows
    <3>1. \E u \in Users : Exists(rows, u)
      BY <2>2, EmptyTable
    <3> QED
      BY <1>6, <2>1, <2>2, <3>1 DEF Calm, ActiveAdmins, Exists
  <2>3. CASE \E u \in Users \ used : rows' = CreateUser(rows, u, "admin", {})
    <3>1. PICK u \in Users \ used : rows' = CreateUser(rows, u, "admin", {})
      BY <2>3
    <3>2. rows'[u] = [role |-> "admin", status |-> "active", perms |-> {}] /\ rows'[u] # NoRow
      BY <1>1, <3>1, NoRowIsNoRow
      DEF CreateUser, NewUser, TypeOK, UsersTable, UserRow, Roles, Statuses
    <3>3. u \in ActiveAdmins(rows') /\ Exists(rows', u)
      BY <3>2 DEF ActiveAdmins, Exists
    <3> QED
      BY <2>1, <3>3 DEF Calm
  <2> QED
    BY <1>7, <2>2, <2>3 DEF Boot
<1>8. CASE Crash
  BY <1>6, <1>8 DEF Crash, Calm, DecisionsHold, Exists, ActiveAdmins
<1>9. ASSUME NEW t \in Tokens, EndSession(t) PROVE Calm' /\ DecisionsHold'
  BY <1>6, <1>9
  DEF EndSession, AdminInv, Calm, OthersIdle, DecisionsHold, Exists, ActiveAdmins, CountAdmins
<1>10. ASSUME NEW r \in Requests, Receive(r) PROVE Calm' /\ DecisionsHold'
  <2>1. req'[r].pc = "load" \/ req'[r].op \in {"create", "apikey"}
    BY <1>1, <1>10 DEF Receive, TypeOK
  <2>2. \A s \in Requests \ {r} : req'[s] = NoReq
    BY <1>1, <1>5, <1>10 DEF Receive, TypeOK
  <2>3. DecisionsHold'
    BY <2>1, <2>2 DEF DecisionsHold
  <2> QED
    BY <1>6, <1>10, <2>2, <2>3 DEF Receive, Calm, OthersIdle, Exists, ActiveAdmins
<1>11. ASSUME NEW r \in Requests, Handle(r) PROVE Calm' /\ DecisionsHold'
  BY <1>5, <1>11, CalmHandle
<1>12. CASE UNCHANGED vars
  BY <1>6, <1>12
  DEF vars, AdminInv, Calm, OthersIdle, DecisionsHold, Exists, ActiveAdmins, CountAdmins
<1> QED
  BY <1>7, <1>8, <1>9, <1>10, <1>11, <1>12 DEF Next

\* As long as no two requests have been in flight at once, somebody can
\* administer a running panel, and every decision a handler took on what it read
\* still holds when it writes.  (MCAccounts_race shows that overlapping requests
\* do end in a panel without an admin.)
THEOREM AdminStays == Spec => [](SomeActiveAdmin /\ DecisionsHold)
<1>1. AdminInv => SomeActiveAdmin /\ DecisionsHold
  BY DEF AdminInv, Calm, SomeActiveAdmin, LastAdminStays
<1> QED
  BY <1>1, AdminInit, AdminNext, PTL DEF Spec

\* As long as handlers run one after another, the row a handler has loaded is the
\* row in the table, and one about to take an admin away leaves another.
THEOREM DecisionsStand == Spec => []DecisionsHold
BY AdminStays, PTL

-----------------------------------------------------------------------------
(* Nobody takes their own access away.                                     *)
(*                                                                         *)
(* The verdict is given on the row loaded; what it must leave behind for   *)
(* the steps that follow is that a request past its loading that would     *)
(* take access away is about somebody else.                                *)

OfSomebodyElse(q) ==
  q.pc # "load" =>
    /\ q.op \in {"terminate", "delete"} => q.target # q.by
    /\ q.op = "status" => q.target # q.by \/ q.seen.status = "disabled"

JudgedInv == TypeOK /\ \A r \in Requests : req[r] # NoReq => OfSomebodyElse(req[r])

\* A slot that goes on keeps what it is about.
LEMMA GoesOn ==
  ASSUME TypeOK, NEW r \in Requests, req[r] # NoReq, NEW pc \in {"load", "count", "write"},
         NEW seen \in UserRow \cup {NoRow}, Go(r, pc, seen)
  PROVE  /\ req'[r].pc = pc /\ req'[r].seen = seen /\ req'[r].op = req[r].op
         /\ req'[r].target = req[r].target /\ req'[r].by = req[r].by
         /\ \A s \in Requests \ {r} : req'[s] = req[s]
<1> DEFINE q == [req[r] EXCEPT !.pc = pc, !.seen = seen]
<1>1. /\ q.pc = pc /\ q.seen = seen /\ q.op = req[r].op
      /\ q.target = req[r].target /\ q.by = req[r].by
  BY InFlightFields DEF InFlight
<1>2. req' = [req EXCEPT ![r] = q]
  BY DEF Go
<1> HIDE DEF q
<1> QED BY <1>1, <1>2 DEF TypeOK

LEMMA JudgedHandle ==
  ASSUME JudgedInv, NEW r \in Requests, Handle(r)
  PROVE  \A s \in Requests : req'[s] # NoReq => OfSomebodyElse(req'[s])
<1>1. TypeOK /\ req[r] # NoReq /\ OfSomebodyElse(req[r]) /\ req[r].target \in Users
      /\ req[r].seen \in UserRow \cup {NoRow} /\ rows[req[r].target] \in UserRow \cup {NoRow}
  BY HandleFrame, InFlightFields DEF JudgedInv, TypeOK, UsersTable
<1>2. CASE Answer(r)
  BY <1>1, <1>2 DEF Answer, JudgedInv, TypeOK
<1>3. ASSUME NEW pc \in {"count", "write"}, NEW seen \in UserRow \cup {NoRow}, Go(r, pc, seen),
             /\ req[r].op \in {"terminate", "delete"} => req[r].target # req[r].by
             /\ req[r].op = "status" => req[r].target # req[r].by \/ seen.status = "disabled"
      PROVE  \A s \in Requests : req'[s] # NoReq => OfSomebodyElse(req'[s])
  <2>1. OfSomebodyElse(req'[r]) /\ \A s \in Requests \ {r} : req'[s] = req[s]
    BY <1>1, <1>3, GoesOn DEF OfSomebodyElse
  <2> QED BY <2>1 DEF JudgedInv
<1>4. CASE LoadAccount(r) /\ ~Answer(r)
  <2> DEFINE row == rows[req[r].target]
  <2>1. PICK pc \in {"count", "write"} : Go(r, pc, row)
    BY <1>4 DEF LoadAccount
  <2>2. req[r].op \in {"terminate", "delete"} => req[r].target # req[r].by
    BY <1>4 DEF LoadAccount, Verdict
  <2>3. req[r].op = "status" => req[r].target # req[r].by \/ row.status = "disabled"
    BY <1>4 DEF LoadAccount, Verdict
  <2> HIDE DEF row
  <2>4. row \in UserRow \cup {NoRow}
    BY <1>1 DEF row
  <2> QED BY <1>3, <2>1, <2>2, <2>3, <2>4
<1>5. CASE CountTheAdmins(r) /\ ~Answer(r)
  <2>1. Go(r, "write", req[r].seen) /\ req[r].pc = "count"
    BY <1>5 DEF CountTheAdmins, At
  <2> QED BY <1>1, <1>3, <2>1 DEF OfSomebodyElse
<1>6. CASE LoginLoad(r) /\ ~Answer(r)
  <2>1. Go(r, "write", rows[req[r].target]) /\ req[r].op = "login"
    BY <1>6 DEF LoginLoad, At
  <2> QED BY <1>1, <1>3, <2>1
<1> QED
  BY <1>2, <1>4, <1>5, <1>6
  DEF Handle, LoadAccount, CountTheAdmins, LoginLoad, EditAccount, ToggleStatus, TerminateAccount,
      DeleteAccount, CreateAccount, CreateAPIKey, StartSession, GiveUp

LEMMA JudgedNext == JudgedInv /\ [Next]_vars => JudgedInv'
<1> SUFFICES ASSUME JudgedInv, [Next]_vars PROVE JudgedInv'
  OBVIOUS
<1>1. TypeOK'
  BY TypeNext DEF JudgedInv
<1>2. CASE req' = req
  BY <1>1, <1>2 DEF JudgedInv
<1>3. CASE Crash
  BY <1>1, <1>3 DEF Crash, JudgedInv
<1>4. ASSUME NEW r \in Requests, Receive(r) PROVE JudgedInv'
  <2>1. /\ req'[r].pc = "load" \/ req'[r].op \in {"create", "apikey"}
        /\ \A s \in Requests \ {r} : req'[s] = req[s]
    BY <1>4 DEF Receive, JudgedInv, TypeOK
  <2> QED BY <1>1, <2>1 DEF JudgedInv, OfSomebodyElse
<1>5. ASSUME NEW r \in Requests, Handle(r) PROVE JudgedInv'
  BY <1>1, <1>5, JudgedHandle DEF JudgedInv
<1> QED BY <1>2, <1>3, <1>4, <1>5 DEF Next, Boot, EndSession, vars

\* What a write leaves of an account it is not about, or does not mean to disable.
LEMMA WhoLosesAccess ==
  ASSUME JudgedInv, NEW r \in Requests, Handle(r), NEW u \in Users,
         Exists(rows, u), rows[u].status = "active",
         ~(Exists(rows', u) /\ rows'[u].status = "active")
  PROVE  req[r].target = u /\ req[r].by # u
<1>1. /\ TypeOK /\ req[r] # NoReq /\ OfSomebodyElse(req[r]) /\ req[r].target \in Users
      /\ rows \in UsersTable /\ rows[u] \in UserRow
  BY HandleFrame, InFlightFields DEF JudgedInv, TypeOK, UsersTable, Exists
<1>2. CASE rows' = rows
  BY <1>2
<1>3. CASE CreateAccount(r)
  <2>1. PICK v \in Users : rows' = CreateUser(rows, v, req[r].form.role, req[r].form.perms)
    BY <1>3 DEF CreateAccount
  <2>2. req[r].form.role \in Roles /\ req[r].form.perms \in SUBSET Modules
    BY <1>1, InFlightFields DEF Forms
  <2>3. rows'[u] = rows[u] \/ rows'[u] = NewUser(req[r].form.role, req[r].form.perms)
    BY <1>1, <2>1 DEF CreateUser, UsersTable
  <2>4. /\ NewUser(req[r].form.role, req[r].form.perms) \in UserRow
        /\ NewUser(req[r].form.role, req[r].form.perms).status = "active"
    BY <2>2 DEF NewUser, UserRow, Statuses
  <2> QED BY <2>3, <2>4, NoRowIsNoRow DEF Exists
<1>4. CASE EditAccount(r)
  <2> DEFINE row == [rows[req[r].target] EXCEPT !.role = req[r].form.role, !.perms = req[r].form.perms]
  <2>1. rows' = IF Exists(rows, req[r].target) THEN [rows EXCEPT ![req[r].target] = row] ELSE rows
    BY <1>4 DEF EditAccount, UpdateProfile, Update
  <2>2. CASE req[r].target = u
    <3>1. row.status = "active" /\ row \in UserRow
      BY <1>1, <1>4, <2>2, InFlightFields DEF UserRow, Forms
    <3> HIDE DEF row
    <3> QED BY <1>1, <2>1, <2>2, <3>1, NoRowIsNoRow DEF Exists, UsersTable
  <2>3. CASE req[r].target # u
    <3> HIDE DEF row
    <3> QED BY <1>1, <2>1, <2>3 DEF Exists, UsersTable
  <2> QED BY <2>2, <2>3
<1>5. CASE ToggleStatus(r)
  <2> DEFINE st == IF req[r].seen.status = "disabled" THEN "active" ELSE "disabled"
             row == [rows[req[r].target] EXCEPT !.status = st]
  <2>1. /\ rows' = IF Exists(rows, req[r].target) THEN [rows EXCEPT ![req[r].target] = row] ELSE rows
        /\ req[r].pc = "write" /\ req[r].op = "status"
    BY <1>5 DEF ToggleStatus, UpdateUserStatus, Update, At
  <2>2. req[r].target = u
    <3> HIDE DEF row
    <3> QED BY <1>1, <2>1 DEF Exists, UsersTable
  <2>3. req[r].seen.status # "disabled"
    <3> SUFFICES ASSUME st = "active" PROVE FALSE
      OBVIOUS
    <3>1. row.status = "active" /\ row \in UserRow
      BY <1>1, <2>2 DEF UserRow, Statuses
    <3> HIDE DEF row
    <3> QED BY <1>1, <2>1, <2>2, <3>1, NoRowIsNoRow DEF Exists, UsersTable
  <2> QED BY <1>1, <2>1, <2>2, <2>3 DEF OfSomebodyElse
<1>6. CASE TerminateAccount(r) \/ DeleteAccount(r)
  <2>1. req[r].pc = "write" /\ req[r].op \in {"terminate", "delete"}
    BY <1>6 DEF TerminateAccount, DeleteAccount, At
  <2>2. req[r].target = u
    BY <1>1, <1>6
    DEF TerminateAccount, DeleteAccount, Terminate, UpdateUserStatus, Update, DeleteUser, Exists, UsersTable
  <2> QED BY <1>1, <2>1, <2>2 DEF OfSomebodyElse
<1> QED
  BY <1>2, <1>3, <1>4, <1>5, <1>6
  DEF Handle, LoadAccount, CountTheAdmins, CreateAPIKey, LoginLoad, StartSession, GiveUp

\* "never act on your own account" (accounts.go, canDeactivate): whoever loses access
\* loses it to a request somebody else made about them, however requests interleave.
THEOREM NobodyEverRemovesThemselves == Spec => NobodyRemovesThemselves
<1> DEFINE A == \A u \in Users :
                  /\ Exists(rows, u)
                  /\ rows[u].status = "active"
                  /\ ~(Exists(rows', u) /\ rows'[u].status = "active")
                  => \E r \in Requests : req[r] # NoReq /\ req[r].target = u /\ req[r].by # u
<1>1. JudgedInv /\ [Next]_vars => [A]_vars
  <2> SUFFICES ASSUME JudgedInv, Next, NEW u \in Users, Exists(rows, u), rows[u].status = "active",
                      ~(Exists(rows', u) /\ rows'[u].status = "active")
               PROVE  \E r \in Requests : req[r] # NoReq /\ req[r].target = u /\ req[r].by # u
    OBVIOUS
  <2>1. CASE rows' = rows
    BY <2>1
  <2>2. CASE Boot /\ ~UNCHANGED rows
    <3>1. PICK v \in Users : rows' = CreateUser(rows, v, "admin", {})
      BY <2>2 DEF Boot
    <3>2. /\ NewUser("admin", {}) \in UserRow /\ NewUser("admin", {}).status = "active"
          /\ rows \in UsersTable
      BY DEF NewUser, UserRow, Statuses, Roles, JudgedInv, TypeOK
    <3> QED BY <3>1, <3>2, NoRowIsNoRow DEF CreateUser, Exists, UsersTable
  <2>3. ASSUME NEW r \in Requests, Handle(r)
        PROVE  \E s \in Requests : req[s] # NoReq /\ req[s].target = u /\ req[s].by # u
    BY <2>3, WhoLosesAccess, HandleFrame
  <2> QED BY <2>1, <2>2, <2>3 DEF Next, Crash, EndSession, Receive
<1>2. Init => JudgedInv
  BY TypeInit DEF Init, JudgedInv
<1> QED BY <1>1, <1>2, JudgedNext, PTL DEF Spec, NobodyRemovesThemselves
=============================================================================
