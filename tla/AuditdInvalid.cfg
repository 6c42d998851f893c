SPECIFICATION Spec
CONSTANTS
  n1 = n1
  n2 = n2
  c0 = c0
  c1 = c1
  cbad = cbad
  dot = dot
  Dot = dot
  Name <- MCName
  Content <- MCContent
  Orig <- MCOrig
  Desired <- MCDesired
  Bad <- MCBad
  Plugins <- MCPlugins
  MaxFaults = 0
  MaxUpdates = 1
INVARIANT InvalidRulesReported
