\* Every puzzle of the lab on its own, and three in a row that may hang.
CONSTANTS
  TEST_RANGE = 4
  Randoms <- SomeWords
  Calls <- SomeCalls
  None = None
  AllTests = AllTests
SPECIFICATION Spec
INVARIANTS
  TypeOK
  OnlyStubsFail
  AlarmsAreOwn
  LimitHolds
CHECK_DEADLOCK FALSE
