\* What the builder's claims and the validation guarantee together.
SPECIFICATION DerivedSpec
CONSTANTS
  ValueName <- MCValueName
  OpType <- MCOpType
  Domain <- MCDomain
  Stem <- MCStem
  Signature <- MCSignature
  DeclaredInputs <- MCDeclaredInputs
  DeclaredOutputs <- MCDeclaredOutputs
  TensorNames <- MCTensorNames
  NodeInputs <- MCNodeInputs
  EmittedTensors <- MCEmittedTensors
  EmittedOutputs <- MCEmittedOutputs
  Compositions <- MCCompositions
  DefaultInput <- x
  DeclaredVersions = {}
  GraphNamed = {TRUE, FALSE}
  MaxNodes = 2
  MaxOutputs = 1
  MaxDeclared = 2
  MaxInitializers = 1
INVARIANTS
  ExportedIsOrdered
  BuilderCollidesNowhere
  CyclesUseUndefinedValues
  DerivedStructsExport
CHECK_DEADLOCK FALSE
