SPECIFICATION Spec
CONSTANTS
  Bytes = {"{", "}", "(", ")", "[", "]", "I", "J", "n", "c", "s"}
  Keys = {""}
  KeySize <- MCKeySize
  MaxCount = 2
  Uint8Code = 2
  HomoEndCode = 1
  Roots <- NullRoot
  max_value_depth = 2
  max_object_size = 11
PROPERTY HomoErrorMeansEmpty
