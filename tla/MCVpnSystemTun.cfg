\* A client that reconnects, and the address of its TUN device.
SPECIFICATION Spec
CONSTANTS
  Addr = {a1, a2}
  PublicKey = {k1}
  InvalidKey = bad
  ServerKey = {s1}
  client_public_key = k1
  Repeatable = {"CONNECT_REQ"}
  MAX_CLIENTS = 2
  FIRST_IP = 2
  LAST_IP = 3
  CLIENT_TIMEOUT = 5
  CHECK_INTERVAL = 0
  MAX_KEYS = 3
  MaxAttempts = {3}
  KEEPALIVE = 2
  PONG_TIMEOUT = 3
  INITIAL_BACKOFF = 1
  MAX_BACKOFF = 1
  CONNECT_TIMEOUT = 1
  DELAY = 1
  INBOX = 1
INVARIANTS
  ReachableAtTunAddress
CHECK_DEADLOCK FALSE
CONSTRAINT NoIncident
SYMMETRY Symmetry
