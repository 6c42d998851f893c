SPECIFICATION FairSpec
CONSTANTS
  crt = crt
  key = key
  v1 = v1
  v2 = v2
  Conf <- MCConf
  Name <- MCName
  Version <- MCVersion
  Desired <- MCDesired
  MaxFaults = 2
  MaxUpdates = 2
INVARIANT TypeOK
INVARIANT RunsInstalledConf
INVARIANT RunsInstalledTls
PROPERTY Installs
PROPERTY HandsOver
