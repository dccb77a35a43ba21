SPECIFICATION Spec
CONSTANTS
  Pages = {p1, p2}
  MaxEvents = 4
  MaxReloads = 0
INVARIANTS
  IInv
  StreamIsNext
  StoppedIsCurrent
SYMMETRY Symmetric
