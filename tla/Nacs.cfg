SPECIFICATION Spec
CONSTANTS
  w = w
  b = b
  gone = gone
  tool1 = tool1
  tool2 = tool2
  NoSet = NoSet
  Tools = {tool1, tool2}
  Commits <- Configurations
  MaxMagic = 4
  Ipsets = {w, b}
  MemberOf = {w, b}
  Flow <- FlowEnds
  NpRules <- Apps
INVARIANTS
  Current
  RefsBalanced
SYMMETRY Symmetry
