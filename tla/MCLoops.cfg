SPECIFICATION LoopsSpec
CONSTANTS
  Clients = {c1, c2, c3}
  Tokens = {t1, t2, t3, t4}
  Null = Null
  NoLockToken = NoLockToken
  Ttls <- MCTtls
  Schedulers = {s1, s2}
  Sources = {a}
  MaxTime = 3
  MaxJobs = 1
  MaxBreaks = 2
  Browsers = {b1, b2, b3}
  MaxAlerts = 2
  MaxConnects = 4
INVARIANTS LoopsTypeOK OncePerNight
PROPERTIES ImplementsLease OrphanFreed DueIsHandled 
CHECK_DEADLOCK FALSE
