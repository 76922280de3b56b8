SPECIFICATION Spec
CONSTANTS
  s1 = s1
  s2 = s2
  t1 = t1
  t2 = t2
  e1 = e1
  e2 = e2
  e3 = e3
  e4 = e4
  f1 = f1
  x1 = x1
  Marker = Marker
  Trigger = Trigger
  Segment = Segment
  Transition = Transition
  Components = {s1, s2, t1}
  Kind <- MCKind
  Length <- MCLength
  Position <- MCPosition
  NoLength = NoLength
  Foreign = {}
  MayRemoveUnloaded = FALSE
PROPERTIES
  FailureChangesNothing
