CONSTANTS
  Addr = {a1, a2}
  PublicKey = {k1}
  InvalidKey = bad
  ServerKey = {s1}
  MAX_CLIENTS = 2
  FIRST_IP = 2
  LAST_IP = 3
  CLIENT_TIMEOUT = 1
  CHECK_INTERVAL = 1
  MAX_KEYS = 1
SPECIFICATION FairSpec
PROPERTIES
  SilentClientDropped
