CONSTANTS
  Ports = {1, 2, 3}
  Vids = {0, 1, 2}
  Keys = {1, 2}
  Absent = Absent
  Wrong = Wrong
  AllPorts = AllPorts
  Nan = Nan
  Docs <- MCDocs
  LateDocs <- MCLateDocs
SPECIFICATION Spec
INVARIANTS
  PortsFollowEthernet
  VlansFollowInterfaces
  TableHoldsRoutes
  SwitchHoldsTable
