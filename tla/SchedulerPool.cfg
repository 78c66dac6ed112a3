SPECIFICATION FairSpec
CONSTANTS
  j1 = j1
  j2 = j2
  j3 = j3
  NoJob = NoJob
  Jobs <- ThreeJobs
  KindOf <- AllKinds
  WaitsFor <- Chain
  Faults = TRUE
CHECK_DEADLOCK FALSE
INVARIANTS TypeOK OneBlockingJob ListsAreRight InOnePlace NoneBehind
PROPERTY EveryJobFinishes
