SPECIFICATION ClientSpec
CONSTANTS
  a1 = a1
  a2 = a2
  App = {a1, a2}
  MaxOps = 4
  MaxMonitor = 3
  LogoutAlone = TRUE

  Caller = {a1, a2}
  NoCaller = NoCaller
  label = label
  Label = {label}
  Position <- MCPosition
  MaxRules = 3
  MaxOutside = 1
  MaxDeletes = 1

  Assigner = {a1, a2}
  NoAssigner = NoAssigner
  s1 = s1
  s2 = s2
  System = {s1, s2}
  t1 = t1
  t2 = t2
  ConfigTemplate = {t1, t2}
  NoTemplate = NoTemplate
  MaxForeign = 1

  ObjId = {1, 2}
  nA = nA
  nB = nB
  ObjName = {nA, nB}
  NoName = NoName
  MaxOthers = 2

  p1 = p1
  p2 = p2
  Point = {p1, p2}
  vlan = vlan
  Ct = {vlan}
  NoCt = NoCt
  PageSize = 1
  MaxChanges = 2

  ctA = ctA
  Template = {ctA}
  Primitive = {1, 2, 3, 4}
  Home <- MCHome
  Gone = Gone
  NoPolicy = NoPolicy
  Unset = Unset
  MaxEdits = 2
INVARIANTS
  TokenMeansMonitor NoTokenNoChannel NoPanic NoAuthErrWhileTokensLive
  AssignmentsSerial TablesInvert NoRuleLost ReadsWhatWasWritten TreesUnfold
PROPERTIES
  RulePlaced LookupHonest PagedReadComplete FieldsSurvive
SYMMETRY Symmetry
CHECK_DEADLOCK FALSE
