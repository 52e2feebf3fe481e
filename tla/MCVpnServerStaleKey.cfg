CONSTANTS
  Addr = {a1, a2}
  PublicKey = {k1, k2}
  InvalidKey = bad
  ServerKey = {s1}
  MAX_CLIENTS = 1
  FIRST_IP = 2
  LAST_IP = 2
  CLIENT_TIMEOUT = 1
  CHECK_INTERVAL = 1
  MAX_KEYS = 3
SPECIFICATION Spec
INVARIANTS
  KeyAgreementUnlessRekey
