\* A pool that starts its threads on demand, from none: used, joined and
\* destroyed while tasks queue tasks.
SPECIFICATION FairSpec
CONSTANTS
  w1 = w1  w2 = w2  w3 = w3
  owner = owner  client = client
  t1 = t1  t2 = t2  t3 = t3
  NoTask = NoTask
  Clients <- TwoClients
  Owner = owner
  Workers <- ThreeWorkers
  Initial <- NoWorkers
  Tasks <- ThreeTasks
  Dynamic = TRUE
  Uses <- DynamicUses
PROPERTIES TasksSettle DestroyEnds
\* The object's life ends, and a pool nobody uses may rest for ever.
CHECK_DEADLOCK FALSE
