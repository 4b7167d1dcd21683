\* Four calls, one of which throws, and a handle destroyed at any moment.
SPECIFICATION FairSpec
CONSTANTS
  t1 = t1  t2 = t2  t3 = t3  t4 = t4
  Tasks <- FourTasks
  Throwing <- OneThrows
INVARIANTS TypeOK InOrder StateOutlives
PROPERTIES TasksAnswered DestroySettles
\* The handle and the thread end.
CHECK_DEADLOCK FALSE
