SPECIFICATION AllSpec
CONSTANTS
  Peers = {p1, p2}
  Hosts = {2, 3}
  Ports = {o1}
  Tokens = {t1}
  Requests = {r1}
  NoReq = NoReq
  NoPeer = NoPeer
  NoConf = NoConf
  Targets = {t4}
  V4 = {t4}
  ForwardIds = {p1, p2}
  NoTarget = NoTarget
  Askers = {r1}
  NoAsk = NoAsk
  MaxCopies = 1
  MaxChanges = 0
SYMMETRY Symmetry
PROPERTIES RollbackIsWhole
