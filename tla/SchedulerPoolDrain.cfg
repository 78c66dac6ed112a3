SPECIFICATION FairSpec
CONSTANTS
  j1 = j1
  j2 = j2
  j3 = j3
  NoJob = NoJob
  Jobs <- TwoJobs
  KindOf <- TwoBlocking
  WaitsFor <- NoTwoWaits
  Faults = FALSE
CHECK_DEADLOCK FALSE
PROPERTY DrainedJobsRun
