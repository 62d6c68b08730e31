SPECIFICATION Spec
CONSTANTS
  Resources <- MCResources
  Target = 1
  Graphs <- Acyclic
  Existings = {{}}
  MaxDepths = {10}
CHECK_DEADLOCK FALSE
INVARIANTS
  PlanIsComplete
