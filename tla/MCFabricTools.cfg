SPECIFICATION ToolsSpec
CONSTANTS
  Instances = {i1, i2}
  Graphs <- SmallGraphs
  Terms = {"A", "B", "red", "vr", "web"}
  Everyone = everyone
  Nothing = nothing
  Copies = {c1, c2}
  Items = {1, 2}
  Keys = {k1}
  Contents <- SmallContents
  NoKey = nokey
  Missing = missing
  MaxEdits = 1
  Links = {"l1", "l2"}
  Ends <- TwoLinkEnds
  Role <- TwoLinkRoles
  Unassigned = {"w3"}
  Configs <- SixConfigs
  InetMtus = {9050, 9170}
  Focus <- AllOrW1
  Unknown = unknown
  Switches <- ThreeSwitches
  Peerings <- ThreePeerings
  Routes = {"r1", "r2", "r3"}
  Chains <- ThreeChains
  Reasons <- OneReason
  Null = null
  MaxChanges = 1
  RaiseSets <- SmallWindows
  Gaps = {1, 2}
  MinSizes = {1, 2}
  Layer <- SmallLayers
  NoOne = noone
  Sites = {1}
  Site <- OneSite
  Home <- ThreeHomes
  Hostname <- ThreeNames
  Nameless = {3}
  Troubles <- AllTroubles
  MaxTurns = 1
  MaxRefusals = 1
  Refused = refused
INVARIANTS
  ReadsAgree
  DriftHonest
  OkCarries
  BlameRejects
  AuditOnePeer
  ClustersFaithful
  TriageSees
CHECK_DEADLOCK FALSE
