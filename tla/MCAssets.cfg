SPECIFICATION Spec
CONSTANTS
  p1 = p1
  p2 = p2
  t1 = t1
  t2 = t2
  t3 = t3
  e1 = e1
  Members = {p1, p2}
  Founders = {p1}
  Tasks = {t1, t2, t3}
  Owner <- MCOwner
  Entries = {e1}
  Contents = {1, 2}
  SegmentBytes = 2
  MaxSize = 3
  Times = {1, 2}
  Limits <- MCLimits
INVARIANTS TypeOK   ExportIsWhole
PROPERTIES AttachSupersedes
CHECK_DEADLOCK FALSE
