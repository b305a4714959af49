SPECIFICATION SystemSpec
CONSTANTS
  k1 = k1
  k2 = k2
  k3 = k3
  Values <- MCValues
  Tree <- MCTree
  KeyLen <- MCKeyLen
  Umax <- MCUmax
  Smin <- MCSmin
  Bytes <- MCBytes
  Keys = {k1, k2}
  MaxCount = 15
  Uint8Code = 73
  HomoEndCode = 41
  max_value_depth = 2
  max_object_size = 266
INVARIANTS TypeOK BytesCounted CleanSucceeds ReadsBack InSync
CHECK_DEADLOCK FALSE
