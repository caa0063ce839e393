SPECIFICATION FairSpec
CONSTANTS
  Replicas = {p1, p2}
  Newest = 2
  OnDisk <- MCSynthetic
  Parsed <- MCSynthetic
  Stoppable = {p1}
  MaxKills = 1
INVARIANTS
  OnlyMissedVersionsAreLacking
  OnlyTheUnjoinedAreRefused
PROPERTIES
  StoppedProcessesExit
