SPECIFICATION FairSpec
CONSTANTS
  a = a
  b = b
  s1 = s1
  s2 = s2
  s3 = s3
  NoSid = NoSid
  Codes <- MCCodes
  Sids <- MCSids
  Catalogues <- MCCatalogues
  InitialMap <- MCInitialMap
  MaxRevision = 1
  MaxSession = 2
  MaxInstall = 1
  MaxFrames = 1
INVARIANTS
  RefreshNotForgotten
PROPERTIES
  IntentSpec
  
