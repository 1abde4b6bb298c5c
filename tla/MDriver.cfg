\* Two blocks on a heap of six bytes, two traces.
CONSTANTS
  Ids = {0, 1}
  Sizes = {1, 4}
  MaxOps = 3
  Traces <- AllTraces
  NumTraces = 2
  Pointers = {0, 2, 4, 5, 6, 8}
  HeapLo = 4
  MaxBrk = 10
  Brks = {8, 10}
  ALIGNMENT = 2
SPECIFICATION Spec
INVARIANTS
  TypeOK
  RangesAreLive
  OverlapsEnclose
  LossNoticed
  UtilizationAtMostOne

  
CHECK_DEADLOCK FALSE
