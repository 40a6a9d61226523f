SPECIFICATION Spec
CONSTANTS
  Evidence = {"listening"}
  Failures = {"REMOTE_SIGNAL", "CONTROLLER_LEASE_LOST", "OBSERVER_FAILURE",
    "STARTUP_FAILURE", "SPAWN_FAILURE", "STARTUP_EXIT", "READINESS_TIMEOUT",
    "READINESS_ARTIFACT_FAILURE", "CLEANUP_FAILURE", "SESSION_CREATED_ADMISSION",
    "ATTEMPT_ADMISSION", "READY_ADMISSION", "CHILD_OUTPUT_ADMISSION",
    "TERMINAL_DELIVERY"}
  NoFailure = "none"
  ReturnCodes = {0, 1}
  Worlds <- UnansweredWorlds
  Streams = {"stdout"}
  QueueBound = 1
  LogBuffer = 1
INVARIANTS
  LogReportFollowsStart
