\* Concurrent requests to the VM service, failures and expiring tickets.
SPECIFICATION Spec
CONSTANTS
  Thread = {t1, t2}
  FIRST_IP = 9
  LAST_IP = 10
  FIRST_VMID = 100
  TEMPLATE = 102
  EXISTING = 1
  MAX_CREATED = 3
  MAX_EXPIRED = 1
INVARIANTS
  TypeOK
  
  
  
CONSTRAINT NoIncident
SYMMETRY Symmetry
CHECK_DEADLOCK FALSE
