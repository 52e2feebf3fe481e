CONSTANTS
  VpnIp = {2, 3}
  MaxAttempts = {0, 3}
  KEEPALIVE = 2
  PONG_TIMEOUT = 3
  INITIAL_BACKOFF = 1
  MAX_BACKOFF = 3
  CONNECT_TIMEOUT = 2
  DELAY = 1
  INBOX = 2
SPECIFICATION FairSpec
CHECK_DEADLOCK FALSE
INVARIANTS
  TypeOK
  LossNoticed
  NoFalseAlarm
  
PROPERTIES
  SignalEnds
  LossHandled
