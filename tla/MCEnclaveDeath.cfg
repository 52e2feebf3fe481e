\* The death of the enclave and the idle check of the event loop.
SPECIFICATION FairSpec
CONSTANTS
  k1 = k1
  k2 = k2
  bad = bad
  s1 = s1
  PublicKey <- MCPublicKey
  InvalidKey = bad
  ServerKey <- MCServerKey
  MAX_KEYS = 2
  Ip <- MCIp
PROPERTIES
  DeathNoticed
CHECK_DEADLOCK FALSE
