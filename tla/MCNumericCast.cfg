\* Numbers narrowed, cast and widened in any order.
SPECIFICATION Spec
CONSTANTS
  Size <- MCSize
  FloatValues <- MCFloatValues
  Round <- MCRound
  HalfValue <- MCHalfValue
  One <- MCOne
  Numbers <- MCNumbers
  Built <- MCBuilt
  Foreign <- MCForeign
INVARIANTS
  TypeOK
  AcceptedIsExact
  RefusalNamesFirstLoss
  StoredSurvives
