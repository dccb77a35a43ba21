SPECIFICATION FairSpec
CONSTANTS
  Pages = {p1}
  MaxEvents = 5
  MaxReloads = 1
PROPERTY
  ResultNotLost
