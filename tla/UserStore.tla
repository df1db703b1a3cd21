----------------------------- MODULE UserStore -----------------------------
(***************************************************************************)
(* The users table of the panel's SQLite database (internal/store): the    *)
(* row of one account, the read the handlers take decisions on             *)
(* (CountAdmins) and what each statement that writes the table does.       *)
(* Every function of internal/store is ONE SQL statement on a pool of one  *)
(* connection, so each operator below is applied in one atomic step.       *)
(***************************************************************************)
EXTENDS Integers, FiniteSets

CONSTANTS Users,    \* the ids the users table can hand out
          Modules,  \* module keys an account can be granted (permissions)
          NoRow     \* an id with no row: not handed out yet, or deleted

Roles    == {"admin", "member"}
Statuses == {"active", "disabled"}

\* A row, reduced to the columns some handler decides on (terminated_at, the
\* last working day, is shown and never read back).
UserRow == [role: Roles, status: Statuses, perms: SUBSET Modules]

ASSUME UsersFinite == IsFiniteSet(Users)
ASSUME NoRowIsNoRow == NoRow \notin UserRow

UsersTable == [Users -> UserRow \cup {NoRow}]

Exists(rows, u)   == rows[u] # NoRow
ActiveAdmins(rows) ==
  {u \in Users : Exists(rows, u) /\ rows[u].role = "admin" /\ rows[u].status = "active"}
CountAdmins(rows) == Cardinality(ActiveAdmins(rows))
CountUsers(rows)  == Cardinality({u \in Users : Exists(rows, u)})

NewUser(role, perms) == [role |-> role, status |-> "active", perms |-> perms]

CreateUser(rows, u, role, perms) == [rows EXCEPT ![u] = NewUser(role, perms)]

\* UPDATE ... WHERE id = u changes nothing when the row is gone.
Update(rows, u, row) == IF Exists(rows, u) THEN [rows EXCEPT ![u] = row] ELSE rows

UpdateProfile(rows, u, role, perms) ==
  Update(rows, u, [rows[u] EXCEPT !.role = role, !.perms = perms])
SetUserPermissions(rows, u, perms) ==
  Update(rows, u, [rows[u] EXCEPT !.perms = perms])
UpdateUserStatus(rows, u, status) ==
  Update(rows, u, [rows[u] EXCEPT !.status = status])
Terminate(rows, u) == UpdateUserStatus(rows, u, "disabled")
DeleteUser(rows, u) == [rows EXCEPT ![u] = NoRow]

HasModule(row, key) == row.role = "admin" \/ key \in row.perms
=============================================================================
