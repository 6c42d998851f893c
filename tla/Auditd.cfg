SPECIFICATION FairSpec
CONSTANTS
  n1 = n1
  n2 = n2
  c0 = c0
  c1 = c1
  cbad = cbad
  dot = dot
  Dot = dot
  Name <- MCName
  Content <- MCContent
  Orig <- MCOrig
  Desired <- MCDesired
  Bad <- MCBad
  Plugins <- MCPlugins
  MaxFaults = 2
  MaxUpdates = 2
INVARIANT TypeOK
INVARIANT OriginalsKept
INVARIANT RulesLoaded
INVARIANT MetricHonest
INVARIANT ForwardingFollowsPlugins
INVARIANT NoDuplicateFeed
PROPERTY WipesOnlyWithBackup
PROPERTY Settles
PROPERTY HandsOver
