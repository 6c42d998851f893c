SPECIFICATION Spec
CONSTANTS
  n1 = n1
  n2 = n2
  None = None
  Garbage = Garbage
  Node <- MCNode
  Target <- MCTarget
  Peer <- MCPeer
  ProgramName <- MCProgramName
  Regex <- MCRegex
  Matches <- MCMatches
  Message <- MCMessage
  RuleLists <- MCRuleLists
  Window = 3
  For = 2
  MaxMessages = 2
  MaxFaults = 2
INVARIANT FailuresNoticed
