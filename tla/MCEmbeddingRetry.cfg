SPECIFICATION FairSpec
CONSTANTS
  Objects = {o1, o2, o3}
  Foreign = {o3}
  Workers = {w1, w2}
  BatchLimit = 2
  Lease = 2
  JobTime = 1
  MaxAttempts = 3
  Backoff <- MCCrowded
  MaxWait = 7
INVARIANTS
  FailuresAreNotForgotten
  OneWorkerPerJob
  ClaimsStayTrue
  DueJobsAreClaimedInTime
PROPERTIES
  CompletedJobsStayGone
  PendingJobsAreRetried
