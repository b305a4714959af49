SPECIFICATION Spec
CONSTANTS
  Bytes = {"{", "}", "(", ")", "[", "]", "W", "I", "n", "s"}
  Keys = {"a", "b"}
  KeySize <- MCKeySize
  MaxCount = 2
  Uint8Code = 2
  HomoEndCode = 1
  Roots <- MCRoots
  max_value_depth = 2
  max_object_size = 11
INVARIANTS TypeOK ItemsPaidFor ThrowsOnlyForRoot DepthBounded ItemsAsAnnounced
PROPERTY Termination
