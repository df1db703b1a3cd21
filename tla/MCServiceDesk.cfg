SPECIFICATION DeskSpec
CONSTANTS
  Users = {u1, u2}
  Modules = {desk}
  NoRow = NoRow
  Tickets = {k1}
  ServiceDesk = desk
  NoUser = NoUser
  NoTicket = NoTicket
  Requests = {r1, r2}
  NoReq = NoReq
  Kinds = {"new_account", "grant_access", "terminate"}
  Agents = {u1, u2}
  Lines = {"line1", "line2"}
  Rank <- RankOfLines
  NoLine = NoLine
  Nobody = Nobody
  Orders = {r1, r2}
  NoOrder = NoOrder
  Units = {i1, i2}
  People = {u1, u2}
  NoUnit = NoUnit
  Deletions = {r1, r2}
  NoDeletion = NoDeletion
SYMMETRY Symmetry
INVARIANTS SomeActiveAdmin StampsTellTheTruth SomeoneDecided EveryoneKnows ReferencesHold
PROPERTIES ApprovedFirst OncePerTicket GrantsOnlyAdd NoLineSkipped
\* With no active account left nobody can send a request: the system stops.
CHECK_DEADLOCK FALSE
