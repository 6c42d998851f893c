SPECIFICATION FairSpec
CONSTANTS
  n1 = n1
  n2 = n2
  Node <- MCNode
  MaxFaults = 3
  MaxChanges = 6
CHECK_DEADLOCK FALSE
INVARIANT TypeOK
INVARIANT NoCleanerBesideExtension
INVARIANT MonitoringGone
PROPERTY CleanWhenGone
PROPERTY Monitored
PROPERTY DeletionCompletes
