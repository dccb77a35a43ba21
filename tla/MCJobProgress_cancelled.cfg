SPECIFICATION Spec
CONSTANTS
  Pages = {p1}
  MaxEvents = 5
  MaxReloads = 1
PROPERTY
  CancelledStaysShown
