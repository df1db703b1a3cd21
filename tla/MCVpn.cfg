SPECIFICATION AllSpec
CONSTANTS
  Peers = {p1, p2}
  Hosts = {2, 3}
  Ports = {o1, o2}
  Tokens = {t1}
  Requests = {r1, r2}
  NoReq = NoReq
  NoPeer = NoPeer
  NoConf = NoConf
  Targets = {t4, t6}
  V4 = {t4}
  ForwardIds = {p1, p2}
  NoTarget = NoTarget
  Askers = {r1, r2}
  NoAsk = NoAsk
  MaxCopies = 2
  MaxChanges = 1
SYMMETRY Symmetry
INVARIANTS UniqueAddresses RowsHaveRules
PROPERTIES AppliedIsView OnlyEnabledWritten
