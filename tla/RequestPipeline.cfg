SPECIFICATION Spec
INVARIANTS
  HandlersFindDB
CHECK_DEADLOCK FALSE
