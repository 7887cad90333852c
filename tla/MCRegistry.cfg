\* Three nodes and two faults.
CONSTANTS
  n1 = n1  n2 = n2  n3 = n3
  Node = {n1, n2, n3}
  Steady = {n1}
  Fallback = {n3}
  MaxAge = 2
  CheckEvery = 2
  Listing = 2
  Limit = 1
  MaxFaults = 2
SPECIFICATION FairSpec
PROPERTIES ListSettles FindsPeers
