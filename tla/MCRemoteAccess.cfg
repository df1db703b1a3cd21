SPECIFICATION Spec
CONSTANTS
  Keys = {k1}
  Ports = {ssh, panel, other}
  SSHPort = ssh
  PanelPort = panel
  Requests = {r1, r2}
  NoReq = NoReq
SYMMETRY Symmetry
INVARIANTS FileIsRunning
PROPERTIES EnabledWithPanelOpen NewPortReachable KeyBeforePasswordOff OneDirective
