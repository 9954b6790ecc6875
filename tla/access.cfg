SPECIFICATION Spec
CONSTANTS
  Tenants = {alice}
  Root = root
  Keys = {k1, k2}
  Objects = {o}
  Threads = {t1, t2}
  MaxRequests = 5
  MaxHistories = 3
  MaxLives = 2
SYMMETRY Symmetric
CHECK_DEADLOCK FALSE
INVARIANTS TypeOK OwnerReads 
 
