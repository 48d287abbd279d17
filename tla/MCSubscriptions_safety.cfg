SPECIFICATION Spec
CONSTANTS
  a = a
  b = b
  s1 = s1
  s2 = s2
  s3 = s3
  NoSid = NoSid
  Codes <- MCCodes
  Sids <- MCSids
  Catalogues <- MCCatalogues
  InitialMap <- MCKnownMap
  MaxRevision = 2
  MaxSession = 2
  MaxInstall = 0
  MaxFrames = 2
INVARIANTS
  NoLostIntent
  OneStatus
  
  ServedIsKnown
