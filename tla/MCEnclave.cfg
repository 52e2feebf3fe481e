\* The server process and its enclave: setup, IPC, signals, crashes, cleanup.
SPECIFICATION FairSpec
CONSTANTS
  k1 = k1
  k2 = k2
  bad = bad
  s1 = s1
  PublicKey <- MCPublicKey
  InvalidKey = bad
  ServerKey <- MCServerKey
  MAX_KEYS = 2
  Ip <- MCIp
INVARIANTS
  TypeOK
  NothingLeftBehind
  OrderlyUnlessDisturbed
PROPERTIES
  CallsAreAtomic
  SignalEndsServer
CHECK_DEADLOCK FALSE
