SPECIFICATION Spec
CONSTANTS
  Users = {u1, u2, u3}
  Modules = {}
  NoRow = NoRow
  Tokens = {t1}
  NoUser = NoUser
  Requests = {r1, r2}
  NoReq = NoReq
SYMMETRY Symmetry
INVARIANTS SomeActiveAdmin DecisionsHold OwnersExist
PROPERTIES IdsNeverReused NobodyRemovesThemselves
\* With no active account left nobody can send a request: the system stops.
CHECK_DEADLOCK FALSE
