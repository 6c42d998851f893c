SPECIFICATION Spec
CONSTANTS
  n1 = n1
  n2 = n2
  Node <- MCNode
  MaxFaults = 1
  MaxChanges = 2
CHECK_DEADLOCK FALSE
INVARIANT CleanerGoneWithExtension
