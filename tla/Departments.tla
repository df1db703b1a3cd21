---------------------------- MODULE Departments ----------------------------
(***************************************************************************)
(* Departments and positions (store/org.go, server/org.go) and the         *)
(* accounts that name them.  "No FK constraints declared ... referential   *)
(* integrity is enforced in application code instead" (migration 0005): a  *)
(* deletion first clears what points at the row, statement by statement.   *)
(***************************************************************************)
EXTENDS FiniteSets

CONSTANTS Units,   \* ids departments and positions can get
          People, NoUnit,
          Deletions, NoDeletion

ASSUME NoUnitIsNone == NoUnit \notin Units

VARIABLES units,    \* both tables: sort of each row, and the parent of a department
          belongs,  \* users.department_id and users.position_id
          deletion, \* deletions at work
          named     \* history: units that were named while they were not in the
                    \* table, or on their way out of it

orgVars == <<units, belongs, deletion, named>>

Sorts == {"department", "position"}
Unit  == [sort: Sorts, parent: Units \cup {NoUnit}]
Deletion == [pc: {"children", "people", "row"}, unit: Units]
ASSUME NoneOfBoth == NoUnit \notin Unit /\ NoDeletion \notin Deletion

OrgTypeOK ==
  /\ units \in [Units -> Unit \cup {NoUnit}]
  /\ belongs \in [People \X Sorts -> Units \cup {NoUnit}]
  /\ deletion \in [Deletions -> Deletion \cup {NoDeletion}]
  /\ named \subseteq Units

OrgInit ==
  /\ units = [i \in Units |-> NoUnit]
  /\ belongs = [x \in People \X Sorts |-> NoUnit]
  /\ deletion = [d \in Deletions |-> NoDeletion]
  /\ named = {}

IsA(i, sort) == units[i] # NoUnit /\ units[i].sort = sort
Leaving == {deletion[d].unit : d \in {e \in Deletions : deletion[e] # NoDeletion}}

\* Forms name any id: nobody looks whether it is still there.
Name(i, sort) == named' = IF i # NoUnit /\ (~IsA(i, sort) \/ i \in Leaving) THEN named \cup {i} ELSE named

-----------------------------------------------------------------------------
(* Operations.                                                             *)

\* CreateDepartment and CreatePosition.  An id that anything may still mean is not
\* handed out again (AUTOINCREMENT).
CreateUnit(i, sort, parent) ==
  /\ units[i] = NoUnit /\ i \notin named \cup Leaving
  /\ sort = "position" => parent = NoUnit
  /\ units' = [units EXCEPT ![i] = [sort |-> sort, parent |-> parent]]
  /\ Name(parent, sort)
  /\ UNCHANGED <<belongs, deletion>>

\* CreateUser and UpdateProfile, from a form or from a ticket written long ago.
PlacePerson(p, sort, i) ==
  /\ belongs' = [belongs EXCEPT ![<<p, sort>>] = i]
  /\ Name(i, sort)
  /\ UNCHANGED <<units, deletion>>

Work(d, pc)  == deletion[d] # NoDeletion /\ deletion[d].pc = pc
Then(d, pc)  == deletion' = [deletion EXCEPT ![d] = [@ EXCEPT !.pc = pc]]
Over(d)      == deletion' = [deletion EXCEPT ![d] = NoDeletion]

AskToDelete(d, i) ==
  /\ deletion[d] = NoDeletion /\ units[i] # NoUnit
  /\ deletion' = [deletion EXCEPT ![d] =
       [unit |-> i, pc |-> IF units[i].sort = "department" THEN "children" ELSE "people"]]
  /\ UNCHANGED <<units, belongs, named>>

\* Mutant: sub-departments are forgotten.
ClearChildren_Forgotten(d) ==
  /\ Work(d, "children")
  /\ Then(d, "people")
  /\ UNCHANGED <<units, belongs, named>>

\* Sub-departments are promoted to the top level; an error ends it, here and below.
ClearChildren(d) ==
  /\ Work(d, "children")
  /\ units' = [i \in Units |->
       IF units[i] # NoUnit /\ units[i].parent = deletion[d].unit
       THEN [units[i] EXCEPT !.parent = NoUnit] ELSE units[i]]
  /\ Then(d, "people")
  /\ UNCHANGED <<belongs, named>>

ClearPeople(d) ==
  /\ Work(d, "people")
  /\ belongs' = [x \in People \X Sorts |->
       IF belongs[x] = deletion[d].unit THEN NoUnit ELSE belongs[x]]
  /\ Then(d, "row")
  /\ UNCHANGED <<units, named>>

DeleteRow(d) ==
  /\ Work(d, "row")
  /\ units' = [units EXCEPT ![deletion[d].unit] = NoUnit]
  /\ Over(d)
  /\ UNCHANGED <<belongs, named>>

\* An error, which the handler drops, or the end of the daemon.
BreakOff(d) ==
  /\ deletion[d] # NoDeletion
  /\ Over(d)
  /\ UNCHANGED <<units, belongs, named>>

OrgNext ==
  \/ \E i \in Units, sort \in Sorts, j \in Units \cup {NoUnit} : CreateUnit(i, sort, j)
  \/ \E p \in People, sort \in Sorts, i \in Units \cup {NoUnit} : PlacePerson(p, sort, i)
  \/ \E d \in Deletions :
       \/ \E i \in Units : AskToDelete(d, i)
       \/ ClearChildren(d) \/ ClearPeople(d) \/ DeleteRow(d) \/ BreakOff(d)

OrgSpec == OrgInit /\ [][OrgNext]_orgVars

-----------------------------------------------------------------------------
(* Properties.                                                             *)

\* "accounts pointing at it have department_id cleared", "Children are promoted
\* to top-level" (DeleteDepartment): whatever deletions race, fail or are cut
\* short, no account and no department points at a row that is not there, unless
\* a form named it when it was gone or going.
ReferencesHold ==
  /\ \A i \in Units : units[i] # NoUnit /\ units[i].parent \notin named \cup {NoUnit} =>
       IsA(units[i].parent, "department")
  /\ \A x \in People \X Sorts : belongs[x] \notin named \cup {NoUnit} => IsA(belongs[x], x[2])
=============================================================================
