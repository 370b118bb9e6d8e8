\* What to_vec says of the 64-bit integers it reads as floats.
SPECIFICATION Spec
CONSTANTS
  Size <- MCSize
  FloatValues <- MCFloatValues
  Round <- MCRound
  HalfValue <- MCHalfValue
  One <- MCOne
  Numbers <- MCNumbers
  Built <- MCBuilt
  Foreign <- MCForeign
INVARIANT NoSilentLoss
