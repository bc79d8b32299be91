SPECIFICATION Spec
CONSTANTS
  t1 = t1
  t2 = t2
  NoThread = NoThread
  Threads = {t1, t2}
  MaxEntries = 3
  TrimCount = 2
  Window = 1
  MaxTime = 2
  MaxLogged = 6
SYMMETRY Symmetry
INVARIANTS TypeOK BoundedLog NewestSuffix ReportExact
PROPERTIES EnumerationStable Atomic
