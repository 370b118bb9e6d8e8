\* The 19 operators, from struct to node to file and back.
SPECIFICATION Spec
CONSTANTS
  Structs <- MCStructs
  Files <- MCFiles
  FieldContents <- MCFieldContents
  Declarations <- MCDeclarations
  OwnContents <- MCOwnContents
  MaxEdits = 2
  I32Size = 64
INVARIANTS
  TypeOK
  ConversionLossless
  RecognisedSurvives
  RecognitionKeepsAttributes
CHECK_DEADLOCK FALSE
