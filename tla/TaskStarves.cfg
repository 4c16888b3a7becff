SPECIFICATION Spec
CONSTANTS
  Tasks = {t1, t2, t3}
  Callers = {c1, c2}
  Nobody = Nobody
  MaxTasks = 2
  StaleRemovals = FALSE
PROPERTIES BlockedUntilATaskFinishes
