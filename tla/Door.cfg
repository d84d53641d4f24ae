SPECIFICATION DoorSpec
CONSTANTS
  default = default
  k1 = k1
  all = all
  keysOnly = keysOnly
  guard = guard
  memory = memory
  r1 = r1
  r2 = r2
  Ids = {default, k1}
  Default = default
  Settings = {all, keysOnly}
  AllScopes = all
  MaxFaults = 1
  Layers = {guard, memory}
  DefaultLayers <- MCDefaults
  Requests = {r1, r2}
  Granted <- MCGranted
  Patches <- MCPatches
  Openings = {TRUE, FALSE}
SYMMETRY Alike
INVARIANTS
  AckedDurable
  LayersAsTold
PROPERTIES
  StrangersStayOut
  OpenedByRevoking
