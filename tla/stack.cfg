SPECIFICATION Spec
CONSTANTS
  Home = Home
  Details = Details
  Name = {Home, Details}
  MaxMounts = 4
  MaxTimers = 2
  MaxSwipes = 2
INVARIANTS
  MarkedAreGone
  SidesAgree
  MarksEnd
PROPERTIES
  FocusKept
  NoDoublePop
CHECK_DEADLOCK FALSE
