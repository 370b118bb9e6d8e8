\* Every sequence of builder calls over a few names, failed calls included.
SPECIFICATION Spec
CONSTANTS
  ValueName <- MCValueName
  OpType <- MCOpType
  Domain <- MCDomain
  Stem <- MCStem
  Signature <- MCSignature
  DeclaredInputs <- MCDeclaredInputs
  DeclaredOutputs <- MCDeclaredOutputs
  TensorNames <- MCTensorNames
  NodeInputs <- MCNodeInputs
  EmittedTensors <- MCEmittedTensors
  EmittedOutputs <- MCEmittedOutputs
  DeclaredVersions = {3, 22}
  MaxNodes = 2
  MaxOutputs = 2
  MaxDeclared = 1
  MaxInitializers = 2
  GraphNamed = {TRUE}
INVARIANTS
  TypeOK
  GraphIsSingleAssignment
  DefinitionsAreClaimed
  NextNodeNamesAreFree
  OpsetsCoverNodes
PROPERTIES
  OpsetsOnlyRise
  FailuresAreContained
  ImplementsValueTable
