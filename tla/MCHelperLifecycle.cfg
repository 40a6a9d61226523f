SPECIFICATION Spec
CONSTANTS
  Evidence = {e1, e2}
  Failures = {"ATTEMPT_ADMISSION", "READY_ADMISSION", "f1", "f2"}
  NoFailure = "none"
  ReturnCodes = {0, 1}
  MaxFailures = 3
CHECK_DEADLOCK FALSE
INVARIANTS
  TypeOK
  FailuresKeepTheirOrder
PROPERTIES
  EstablishedFailureStands
