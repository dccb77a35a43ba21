SPECIFICATION EditsSpec
CONSTANTS
  BaseTrip <- MCTrip
  Changes <- MCChanges
  Windows <- MCWindows
  MaxVersion = 3
INVARIANT
  BookingsAreReached
CHECK_DEADLOCK FALSE
