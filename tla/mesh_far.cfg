SPECIFICATION FairSpec
CONSTANTS
  n1 = n1
  n2 = n2
  n3 = n3
  Node <- ThreeNodes
  Links <- Line
  Everyone = Everyone
  Senders = {n1}
  Ttl = {3}
  MaxTtl = 2
  DedupeSize = 1
  MaxQueue = 1
  Faults = {}
  MaxMessages = 1
  MaxInAir = 1
  MaxFaults = 0
PROPERTIES
  FarNodeHears
CHECK_DEADLOCK FALSE
