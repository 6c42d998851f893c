SPECIFICATION NodeFairSpec
CONSTANTS
  dot = dot
  Dot = dot
  Name <- MCName
  Content <- MCContent
  Orig <- MCOrig
  Desired <- MCDesired
  Bad <- MCBad
  Plugins <- MCPlugins
  MaxFaults = 1
  MaxUpdates = 1
  Conf = {"tls"}
  TlsName = {"crt"}
  TlsVersion = {"v"}
  Setups <- MCSetups
  Installed <- Both
INVARIANT TakeTurns
INVARIANT CleanedNode
PROPERTY RsyslogConfigured
CHECK_DEADLOCK FALSE
