SPECIFICATION Spec
CONSTANTS
  Tabs = {t1, t2}
  Edits = {e1, e2, e3}
  Replans = {r1, r2}
  NoTrip = NoTrip
  MaxHistory = 2
  MaxVersion = 5
INVARIANTS
  HistoryIsChain
  VersionNamesTrip
  IInv
PROPERTIES
  EditsKept
  UndoTakesOne
SYMMETRY Symmetric
