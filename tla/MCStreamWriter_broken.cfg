SPECIFICATION Spec
CONSTANTS
  k1 = k1
  k2 = k2
  k3 = k3
  Values <- MCValues
  Tree <- MCTree
  KeyLen <- MCKeyLen
  Umax <- MCUmax
  Smin <- MCSmin
INVARIANT SuccessMeansDelivered
