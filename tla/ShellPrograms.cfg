\* Programs only, in the foreground and in the background; fair scheduling.
CONSTANTS
  MaxJobs = 2
  Pids = {1, 2}
  Typed = {"run_fg", "run_bg"}
  MaxJid = 2
  MaxEvents = 2
SPECIFICATION FairSpec
INVARIANTS
  OneForeground
  StopIsMarked
PROPERTIES
  ZombiesReaped
  ForegroundEnds
  InterruptReturns
