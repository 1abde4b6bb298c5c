\* Counters of two words of sixteen values, f of up to two cycles, an interrupt of
\* four cycles after every third or fourth.
CONSTANTS
  Base = 16
  NEVENT = 2
  THRESHOLD = 2
  RECORDTHRESH = 3
  Cost = 4
  MinGap = 3
  MaxGap = 4
  MaxWork = 2
  Starts = {0, 253}
  Configs <- SmallConfigs
  EpsDen = 2
  NoBuf = NoBuf
SPECIFICATION Spec
INVARIANTS
  TypeOK
  ReadingExact
  KBest
  
PROPERTY
  Returns
CHECK_DEADLOCK FALSE
