SPECIFICATION Spec
CONSTANTS
  Domains <- MCDomains
  Own = "own"
  Names <- MCNames
  Root = 1
  Files <- MCFiles
  MaxDepth = 6
INVARIANTS
  TypeOK
  MarkedCircular
  NoSchemaInsideItself
  EverySchemaExpanded
PROPERTIES
  AnswersOnlyImprove
