SPECIFICATION AllSpec
CONSTANTS
  Domains = {d1}
  Panel = Panel
  Ids = {i1}
  NoRow = NoRow
  Requests = {r1}
  NoReq = NoReq
  Items = {i1}
  NamesOf <- NamesOfServices
  NoItem = NoItem
  NoFile = NoFile
  Calls = {r1}
  NoCall = NoCall
  Overlapping = {}
  PanelPorts = {q1, q2}
  Installed = q1
  NoPort = NoPort
  Visitors = {v1}
  Loopback = Loopback
  Changes = {r1}
  NoChange = NoChange
SYMMETRY Symmetry
INVARIANTS PanelStaysUp
