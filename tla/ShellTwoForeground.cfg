\* The command fg makes a second job the foreground job.
CONSTANTS
  MaxJobs = 2
  Pids = {1, 2}
  Typed = {"run_fg", "run_bg", "fg", "bg"}
  MaxJid = 3
  MaxEvents = 1
SPECIFICATION Spec
INVARIANT OneForeground
