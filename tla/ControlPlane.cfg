SPECIFICATION FairSpec
CONSTANTS
  None = None
  Garbage = Garbage
  Target <- MCTarget
  Peer <- MCPeer
  ProgramName <- MCProgramName
  Regex <- MCRegex
  DefaultRules = "default"
  Object <- MCObject
  Content <- MCContent
  Submitted <- MCSubmitted
  MaxChanges = 3
  MaxFaults = 1
INVARIANT TypeOK
INVARIANT OnlyAdmittedConfigs
INVARIANT AdmittedRenders
INVARIANT UnitHasScript
PROPERTY Converges
