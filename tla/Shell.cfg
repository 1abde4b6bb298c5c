\* Every command, two jobs on a list of two slots.
CONSTANTS
  MaxJobs = 2
  Pids = {1, 2}
  Typed = {"run_fg", "run_bg", "fg", "bg"}
  MaxJid = 2
  MaxEvents = 2
SPECIFICATION Spec
INVARIANTS
  TypeOK
  ChildAccounted
  JobsAreChildren
  NoLostChild
  
PROPERTY
  ImplementsLifecycle
