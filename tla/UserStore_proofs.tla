-------------------------- MODULE UserStore_proofs --------------------------
(***************************************************************************)
(* What the statements on the users table do to any table and any account: *)
(* the lemmas that account administration and the service desk share.      *)
(***************************************************************************)
EXTENDS UserStore, FiniteSetTheorems, TLAPS

\* Every statement maps a users table to a users table.
LEMMA StoreTypes ==
  ASSUME NEW t \in UsersTable, NEW u \in Users,
         NEW role \in Roles, NEW status \in Statuses, NEW perms \in SUBSET Modules
  PROVE  /\ CreateUser(t, u, role, perms) \in UsersTable
         /\ UpdateProfile(t, u, role, perms) \in UsersTable
         /\ SetUserPermissions(t, u, perms) \in UsersTable
         /\ UpdateUserStatus(t, u, status) \in UsersTable
         /\ Terminate(t, u) \in UsersTable
         /\ DeleteUser(t, u) \in UsersTable
<1>1. CreateUser(t, u, role, perms) \in UsersTable
  BY DEF CreateUser, NewUser, UsersTable, UserRow, Statuses
<1>2. UpdateProfile(t, u, role, perms) \in UsersTable /\ SetUserPermissions(t, u, perms) \in UsersTable
  BY DEF UpdateProfile, SetUserPermissions, Update, Exists, UsersTable, UserRow
<1>3. \A st \in Statuses : UpdateUserStatus(t, u, st) \in UsersTable
  BY DEF UpdateUserStatus, Update, Exists, UsersTable, UserRow
<1>4. DeleteUser(t, u) \in UsersTable
  BY DEF DeleteUser, UsersTable
<1>5. QED
  BY <1>1, <1>2, <1>3, <1>4 DEF Terminate, Statuses

\* Which rows a statement can make appear or vanish.
LEMMA StatementsKeepRows ==
  ASSUME NEW t \in UsersTable, NEW u \in Users, NEW x \in Users,
         NEW role \in Roles, NEW status \in Statuses, NEW perms \in SUBSET Modules
  PROVE  /\ Exists(UpdateProfile(t, u, role, perms), x) <=> Exists(t, x)
         /\ Exists(SetUserPermissions(t, u, perms), x) <=> Exists(t, x)
         /\ Exists(UpdateUserStatus(t, u, status), x) <=> Exists(t, x)
         /\ Exists(Terminate(t, u), x) <=> Exists(t, x)
         /\ Exists(DeleteUser(t, u), x) <=> Exists(t, x) /\ x # u
         /\ Exists(CreateUser(t, u, role, perms), x) <=> Exists(t, x) \/ x = u
<1>1. /\ Exists(UpdateProfile(t, u, role, perms), x) <=> Exists(t, x)
      /\ Exists(SetUserPermissions(t, u, perms), x) <=> Exists(t, x)
      /\ \A st \in Statuses : Exists(UpdateUserStatus(t, u, st), x) <=> Exists(t, x)
  BY NoRowIsNoRow
  DEF UpdateProfile, SetUserPermissions, UpdateUserStatus, Update, Exists, UsersTable, UserRow
<1>2. Exists(DeleteUser(t, u), x) <=> Exists(t, x) /\ x # u
  BY DEF DeleteUser, Exists, UsersTable
<1>3. NewUser(role, perms) # NoRow
  BY NoRowIsNoRow DEF NewUser, UserRow, Statuses
<1>4. Exists(CreateUser(t, u, role, perms), x) <=> Exists(t, x) \/ x = u
  BY <1>3 DEF CreateUser, Exists, UsersTable
<1> QED
  BY <1>1, <1>2, <1>4 DEF Terminate, Statuses

\* CountAdmins is a number.
LEMMA AdminsFinite ==
  ASSUME NEW t
  PROVE  IsFiniteSet(ActiveAdmins(t)) /\ CountAdmins(t) \in Nat
BY UsersFinite, FS_Subset, FS_CardinalityType DEF ActiveAdmins, CountAdmins

\* One of two active admins can go.
LEMMA OneAdminLeft ==
  ASSUME NEW t, NEW u \in Users, CountAdmins(t) > 1
  PROVE  \E a \in ActiveAdmins(t) : a # u
<1>1. SUFFICES ASSUME ActiveAdmins(t) \subseteq {u} PROVE FALSE
  OBVIOUS
<1>2. CountAdmins(t) <= Cardinality({u})
  BY <1>1, FS_Subset, FS_Singleton DEF CountAdmins
<1> QED
  BY <1>2, FS_Singleton, AdminsFinite

\* A write about account u keeps every other active admin.
LEMMA OthersKept ==
  ASSUME NEW t \in UsersTable, NEW u \in Users, NEW a \in ActiveAdmins(t), a # u,
         NEW role \in Roles, NEW status \in Statuses, NEW perms \in SUBSET Modules
  PROVE  /\ a \in ActiveAdmins(UpdateProfile(t, u, role, perms))
         /\ a \in ActiveAdmins(SetUserPermissions(t, u, perms))
         /\ a \in ActiveAdmins(UpdateUserStatus(t, u, status))
         /\ a \in ActiveAdmins(Terminate(t, u))
         /\ a \in ActiveAdmins(DeleteUser(t, u))
         /\ a \in ActiveAdmins(CreateUser(t, u, role, perms))
BY DEF ActiveAdmins, UpdateProfile, SetUserPermissions, UpdateUserStatus, Terminate, DeleteUser,
       CreateUser, Update, Exists, UsersTable, Statuses

\* Granting permissions takes nothing from anybody's role or status.
LEMMA PermissionsOnly ==
  ASSUME NEW t \in UsersTable, NEW u \in Users, NEW perms \in SUBSET Modules
  PROVE  /\ ActiveAdmins(SetUserPermissions(t, u, perms)) = ActiveAdmins(t)
         /\ Exists(t, u) => SetUserPermissions(t, u, perms)[u] = [t[u] EXCEPT !.perms = perms]
BY NoRowIsNoRow DEF ActiveAdmins, SetUserPermissions, Update, Exists, UsersTable, UserRow
=============================================================================
