\* A fourth job on the list: an ID is given out twice.
CONSTANTS
  MaxJobs = 5
  Pids    = {1, 2, 3, 4}
  MaxLive = 4
  MaxJid  = 9
SPECIFICATION Spec
INVARIANTS
  JidNamesJob
CHECK_DEADLOCK FALSE
