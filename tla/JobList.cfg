\* Three jobs at a time on a list of five slots.
CONSTANTS
  MaxJobs = 5
  Pids    = {1, 2, 3, 4}
  MaxLive = 3
  MaxJid  = 9
SPECIFICATION Spec
INVARIANTS
  JidNamesJob
CHECK_DEADLOCK FALSE
