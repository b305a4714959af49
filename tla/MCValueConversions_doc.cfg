SPECIFICATION Spec
CONSTANTS
  LL = 16
  II = 2
  CC = 2
  One = 4
  Doubles <- MCDoubles
  Infinity <- MCInfinity
  NaN = NaN
  Nearest <- MCNearest
  Epsilon = 2
  Grain = 2
  Zero = 1
  Texts <- MCTexts
  NoNumber = NoNumber
  MaxItems = 2
INVARIANT NumberOrZero
