SPECIFICATION Spec
CONSTANTS
  Resources <- MCResources
  Extractions <- MCExtractions
  OrderDepths = {2}
  Unknown <- MCUnknown
  Target = 1
  Existings <- MCExistings
  MaxDepths = {1, 10}
INVARIANTS
  TypeOK
  RequiredByAnyOperation
  CreationOrderSound
  CreationOrderMatchesDependents
  CyclesAreFound
  OrderRespectsPrerequisites
  EachOnce
  WalkIsComplete
  OmissionsExplained
  PlanAgreesWithCreationOrder
PROPERTIES
  PlanningEnds
CHECK_DEADLOCK FALSE
