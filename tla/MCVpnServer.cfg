CONSTANTS
  Addr = {a1, a2}
  PublicKey = {k1, k2}
  InvalidKey = bad
  ServerKey = {s1}
  MAX_CLIENTS = 2
  FIRST_IP = 2
  LAST_IP = 3
  CLIENT_TIMEOUT = 1
  CHECK_INTERVAL = 1
  MAX_KEYS = 2
SPECIFICATION Spec
SYMMETRY Symmetry
INVARIANTS
  TypeOK
  CountsMatch
  OneEntryPerAddr
  VpnIpUniqueBeforeWrap
  KeyAgreementUnlessIncident
  TrafficUnderGrantedKey
PROPERTIES
  RemovedOnlyByOwner
