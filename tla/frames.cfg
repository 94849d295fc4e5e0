SPECIFICATION FairSpec
CONSTANTS
  Main = Main
  Surface = {Main, Portal}
  Listener = {l1}
  MaxRoots = 1
  MaxCommits = 2
INVARIANTS
  OneFramePosted
  NoneLeftWaiting
PROPERTIES
  FirstFrameIsReal
  FlushCleans
  FirstFrameComes
CHECK_DEADLOCK FALSE
