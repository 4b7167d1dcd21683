\* A pool of two threads whose owner waits and destroys it, a client that stops
\* it, and tasks that queue tasks.
SPECIFICATION FairSpec
CONSTANTS
  w1 = w1  w2 = w2  w3 = w3
  owner = owner  client = client
  t1 = t1  t2 = t2  t3 = t3
  NoTask = NoTask
  Clients <- TwoClients
  Owner = owner
  Workers <- TwoWorkers
  Initial <- TwoWorkers
  Tasks <- ThreeTasks
  Dynamic = FALSE
  Uses <- LifecycleUses
INVARIANT WaiterNotForgotten
PROPERTIES CallsReturn WorkersExit DestroySettles
\* The object's life ends, and a pool nobody uses may rest for ever.
CHECK_DEADLOCK FALSE
