SPECIFICATION Spec
CONSTANTS
  Bytes = {"{", "}", "[", "]", "W", "I", "n", "x"}
  Keys = {"", "a"}
  KeySize <- MCKeySize
  MaxCount = 2
  Uint8Code = 2
  HomoEndCode = 1
  Roots <- MCRoots
  max_value_depth = 2
  max_object_size = 12
INVARIANT NoTruncatedSuccess
