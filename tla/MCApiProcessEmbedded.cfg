SPECIFICATION FairSpec
CONSTANTS
  Replicas = {p1}
  Newest = 2
  OnDisk <- MCAsEmbedded
  Parsed <- MCAsEmbedded
  Stoppable = {}
  MaxKills = 1
PROPERTIES
  StartedProcessesServe
