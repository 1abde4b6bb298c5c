\* Every command, a list with one slot for two children.
CONSTANTS
  MaxJobs = 1
  Pids = {1, 2}
  Typed = {"run_fg", "run_bg", "fg", "bg"}
  MaxJid = 2
  MaxEvents = 2
SPECIFICATION Spec
INVARIANTS
  CrashOnlyUnlisted
