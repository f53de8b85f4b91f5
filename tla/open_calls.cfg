SPECIFICATION Spec
CONSTANTS
  o1 = o1
  o2 = o2
  o3 = o3
  o4 = o4
  f1 = f1
  f2 = f2
  p1 = p1
  p2 = p2
  Openers = {o1, o2, o3, o4}
  Files = {f1, f2}
  FileOf <- Target
  ProcOf <- Home
  Kinds <- AnyKind
  MaxAllocs <- Allowed
SYMMETRY Alike
INVARIANTS OneSession FreshPages OpenedRecovered PagesAccountedFor StaysOpenable
CHECK_DEADLOCK FALSE
