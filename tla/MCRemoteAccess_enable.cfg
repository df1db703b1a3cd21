SPECIFICATION Spec
CONSTANTS
  Keys = {k1}
  Ports = {ssh, panel, other}
  SSHPort = ssh
  PanelPort = panel
  Requests = {r1}
  NoReq = NoReq
SYMMETRY Symmetry
PROPERTIES EnabledWithSSHOpen
