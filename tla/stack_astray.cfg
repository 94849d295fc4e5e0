SPECIFICATION Spec
CONSTANTS
  Home = Home
  Details = Details
  Name = {Home, Details}
  MaxMounts = 2
  MaxTimers = 1
  MaxSwipes = 0
INVARIANT FocusExists
CHECK_DEADLOCK FALSE
