SPECIFICATION FairSpec
CONSTANTS
  n1 = n1
  n2 = n2
  n3 = n3
  Node <- ThreeNodes
  Links <- Line
  Everyone = Everyone
  Senders = {n1}
  Ttl = {1, 3}
  MaxTtl = 2
  DedupeSize = 1
  MaxQueue = 1
  Faults = {"late", "lost", "expire", "stop", "crowd", "overlap"}
  MaxMessages = 1
  MaxInAir = 1
  MaxFaults = 2
INVARIANTS
  AtMostOnce
PROPERTIES
  
  StormsEnd
CHECK_DEADLOCK FALSE
