SPECIFICATION Spec
CONSTANTS
  Named = {a, b}
  Heap = {h1, h2, h3}
  Keys <- MCKeys
  Payloads = {p1}
  Tmp = tmp
  Arg = arg
  Uptr = uptr
  Free = free
  Stray = stray
  NoData = nodata
  Client = "exact"
  AllocMayFail = TRUE
SYMMETRY Symmetry
INVARIANT NoLeak
