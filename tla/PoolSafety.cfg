\* A pool of two threads that does not grow; two clients call every operation
\* and tasks queue further tasks.
SPECIFICATION Spec
CONSTANTS
  w1 = w1  w2 = w2  w3 = w3
  owner = owner  client = client
  t1 = t1  t2 = t2  t3 = t3
  NoTask = NoTask
  Clients <- TwoClients
  Owner = owner
  Workers <- TwoWorkers
  Initial <- TwoWorkers
  Tasks <- ThreeTasks
  Dynamic = FALSE
  Uses <- AllUses
SYMMETRY PoolSymmetry
INVARIANTS TypeOK BusyCounted NoLostWakeup StopWakesAll TaskOwnership
PROPERTIES JoinSettles ImplementsService
\* The object's life ends, and a pool nobody uses may rest for ever.
CHECK_DEADLOCK FALSE
