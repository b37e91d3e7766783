SPECIFICATION Spec
CONSTANTS
  t1 = t1
  t2 = t2
  c1 = c1
  c2 = c2
  NULL = NULL
  Thread = {t1, t2}
  Main = t1
  Conn = {c1, c2}
  PoolOf <- OnePool
  N = 2
  MaxFd = 4
PROPERTIES NeverOverwritten
CHECK_DEADLOCK FALSE
