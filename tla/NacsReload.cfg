SPECIFICATION Spec
CONSTANTS
  w = w
  b = b
  gone = gone
  tool1 = tool1
  tool2 = tool2
  NoSet = NoSet
  Tools = {tool1}
  Commits <- OneRule
  MaxMagic = 1
  Ipsets = {w, b}
  MemberOf = {w, b}
  Flow <- FlowEnds
  NpRules <- Apps
INVARIANTS
  Enforced
