SPECIFICATION AllSpec
CONSTANTS
  Domains = {d1}
  Panel = Panel
  Ids = {i1, i2}
  NoRow = NoRow
  Requests = {r1, r2}
  NoReq = NoReq
  Items = {i1, i2}
  NamesOf <- NamesOfServices
  NoItem = NoItem
  NoFile = NoFile
  Calls = {r1, r2}
  NoCall = NoCall
  Overlapping = {"cron", "dns"}
  PanelPorts = {q1, q2}
  Installed = q1
  NoPort = NoPort
  Visitors = {v1, v2}
  Loopback = Loopback
  Changes = {r1, r2}
  NoChange = NoChange
SYMMETRY Symmetry
INVARIANTS RowsMatchVhosts OursIsSound SyncRepairs NoSilentLies DnsStaysSound SaverGetsIn PortTakesEffect
