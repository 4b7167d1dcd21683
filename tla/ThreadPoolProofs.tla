-------------------------- MODULE ThreadPoolProofs --------------------------
(***************************************************************************)
(* Safety of ThreadPool for any set of workers, clients and tasks, fixed   *)
(* or dynamic, whatever operations are called: the counter and the         *)
(* wakeups; every task in one place until it has one result; the waiter    *)
(* for finished tasks; and the implementation of TaskService.              *)
(***************************************************************************)
EXTENDS ThreadPool, FiniteSetTheorems, TLAPS

\* A worker holds a task exactly while it runs it, and a caller exactly while
\* it is inside AddWhenAvailable and has not queued it.
HandsFull ==
  /\ \A w \in Workers : wpc[w] = "run" <=> hand[w] # NoTask
  /\ \A c \in Callers : call[c] \in {"awaLock", "awaWait"} <=> arg[c] # NoTask

\* What is inductive together.
IInv == TypeOK /\ HandsFull /\ BusyCounted /\ NoLostWakeup /\ StopWakesAll

\* Sets of threads are finite, and their cardinality goes up and down by one
\* with the member added or removed.
LEMMA CardinalityStep ==
  ASSUME NEW T, IsFiniteSet(T), NEW S \in SUBSET T, NEW x \in T
  PROVE  /\ IsFiniteSet(S) /\ Cardinality(S) \in Nat
         /\ x \notin S => Cardinality(S \cup {x}) = Cardinality(S) + 1
         /\ x \in S => Cardinality(S \ {x}) = Cardinality(S) - 1
         /\ x \in S => Cardinality(S) # 0
<1>1. IsFiniteSet(S) /\ Cardinality(S) \in Nat
  BY FS_Subset, FS_CardinalityType
<1>2. QED
  BY <1>1, FS_AddElement, FS_RemoveElement, FS_EmptySet

\* The callers are the clients and the workers, both finite.
LEMMA CallersFinite == IsFiniteSet(Callers)
BY WorkersAssumption, ClientsAssumption, FS_Union DEF Callers

\* The pool starts with no task, no caller and every initial worker at its first
\* lock.
LEMMA InitInv == Init => IInv
<1> SUFFICES ASSUME Init PROVE IInv
  OBVIOUS
<1>1. TypeOK
  <2>1. wpc \in [Workers -> WorkerStates] /\ m_Threads = {w \in Workers : wpc[w] # "none"}
    BY WorkersAssumption DEF Init, WorkerStates
  <2>2. m_Tasks \in Seq(Tasks) /\ joinList \in SUBSET Workers
    BY DEF Init
  <2>3. /\ call \in [Callers -> CallStates] /\ arg \in [Callers -> Tasks \cup {NoTask}]
        /\ hand \in [Workers -> Tasks \cup {NoTask}]
        /\ future \in [Tasks -> Settled \cup {"none", "pending"}]
    BY DEF Init, CallStates
  <2>4. QED
    BY <2>1, <2>2, <2>3 DEF Init, TypeOK, Phases
<1>2. HandsFull
  BY DEF Init, HandsFull
<1>3. BusyCounted
  <2>1. Busy = {}
    BY DEF Init, Busy
  <2>2. QED
    BY <2>1, FS_EmptySet DEF Init, BusyCounted
<1>4. NoLostWakeup /\ StopWakesAll
  <2>1. Sleeping = {}
    BY DEF Init, Sleeping
  <2>2. QED
    BY <2>1 DEF NoLostWakeup, StopWakesAll
<1>5. QED
  BY <1>1, <1>2, <1>3, <1>4 DEF IInv

\* notify_one and notify_all change program counters within their type, and
\* neither makes a thread start or stop holding a task.
LEMMA NotifyFinishedType ==
  ASSUME TypeOK, NotifyFinished
  PROVE  /\ call' \in [Callers -> CallStates]
         /\ \A c \in Callers :
              \/ call'[c] = call[c]
              \/ call[c] = "awaWait" /\ call'[c] = "awaLock"
              \/ call[c] = "joinWait" /\ call'[c] = "joinLock"
BY DEF TypeOK, NotifyFinished, FinishedSleepers, Relock, CallStates

\* The same of the notifications on m_TaskAvailableConditional.
LEMMA NotifyAvailableType ==
  ASSUME TypeOK, NotifyAvailable \/ NotifyAllAvailable
  PROVE  /\ wpc' \in [Workers -> WorkerStates]
         /\ \A w \in Workers :
              \/ wpc'[w] = wpc[w]
              \/ wpc[w] = "wait" /\ wpc'[w] = "lock"
BY DEF TypeOK, NotifyAvailable, NotifyAllAvailable, Sleeping, WorkerStates

-----------------------------------------------------------------------------
\* Every step keeps the types.  Only NotBusy needs more than types: the counter
\* is not zero when a worker is counted.  AddWhenAvailable needs HandsFull.
LEMMA TypeStep == IInv /\ [Next]_vars => TypeOK'
<1> SUFFICES ASSUME IInv, [Next]_vars PROVE TypeOK'
  OBVIOUS
<1> USE DEF IInv
<1>1. ASSUME NEW w \in Workers, Top(w) PROVE TypeOK'
  BY <1>1 DEF Top, TypeOK, WorkerStates
<1>2. ASSUME NEW w \in Workers, Wait(w) PROVE TypeOK'
  BY <1>2 DEF Wait, TypeOK, WorkerStates
<1>3. ASSUME NEW w \in Workers, Quit(w) PROVE TypeOK'
  BY <1>3, NotifyFinishedType DEF Quit, TypeOK, WorkerStates
<1>4. ASSUME NEW w \in Workers, Take(w) PROVE TypeOK'
  <2>1. Head(m_Tasks) \in Tasks /\ Tail(m_Tasks) \in Seq(Tasks)
    BY <1>4 DEF Take, TypeOK
  <2>2. QED
    BY <1>4, <2>1 DEF Take, TypeOK, WorkerStates
<1>5. ASSUME NEW w \in Workers, Run(w) PROVE TypeOK'
  BY <1>5 DEF Run, TypeOK, WorkerStates, Settled
<1>6. ASSUME NEW w \in Workers, NotBusy(w) PROVE TypeOK'
  <2>1. w \in Busy /\ Busy \in SUBSET Workers
    BY <1>6 DEF NotBusy, Busy
  <2>2. Cardinality(Busy) \in Nat \ {0}
    BY <2>1, CardinalityStep, WorkersAssumption
  <2>3. m_BusyThreads - 1 \in Nat
    BY <2>2 DEF BusyCounted
  <2>4. QED
    BY <1>6, <2>3 DEF NotBusy, TypeOK, WorkerStates
<1>7. ASSUME NEW w \in Workers, Finish(w) PROVE TypeOK'
  BY <1>7, NotifyFinishedType DEF Finish, TypeOK, WorkerStates
<1>8. ASSUME NEW w \in Workers, Leave(w) PROVE TypeOK'
  BY <1>8, NotifyFinishedType DEF Leave, TypeOK, WorkerStates
<1>9. ASSUME NEW w \in Workers, SpuriousAvailable(w) PROVE TypeOK'
  BY <1>9 DEF SpuriousAvailable, TypeOK, WorkerStates
<1>10. ASSUME NEW c \in Callers, SpuriousFinished(c) PROVE TypeOK'
  BY <1>10 DEF SpuriousFinished, FinishedSleepers, Relock, TypeOK, CallStates
<1>11. ASSUME NEW c \in Callers, NEW t \in Tasks, AddTask(c, t) PROVE TypeOK'
  <2>1. m_Tasks' \in Seq(Tasks)
    BY <1>11 DEF AddTask, TypeOK
  <2>2. /\ wpc' \in [Workers -> WorkerStates]
        /\ m_Threads' = {w \in Workers : wpc'[w] # "none"}
    BY SMTT(30), <1>11 DEF AddTask, TypeOK, WorkerStates
  <2>3. QED
    BY <1>11, <2>1, <2>2 DEF AddTask, TypeOK, CallStates
<1>12. ASSUME NEW c \in Callers, NotifyAdded(c) PROVE TypeOK'
  BY <1>12, NotifyAvailableType DEF NotifyAdded, TypeOK, CallStates
<1>13. ASSUME NEW c \in Callers, NEW t \in Tasks, CallAddWhenAvailable(c, t) PROVE TypeOK'
  BY <1>13 DEF CallAddWhenAvailable, TypeOK, CallStates
<1>14. ASSUME NEW c \in Callers, WaitAvailable(c) PROVE TypeOK'
  BY <1>14 DEF WaitAvailable, TypeOK, CallStates
<1>15. ASSUME NEW c \in Callers, AddWhenAvailable(c) PROVE TypeOK'
  <2>1. arg[c] \in Tasks
    BY <1>15 DEF AddWhenAvailable, HandsFull, TypeOK
  <2>2. m_Tasks' \in Seq(Tasks)
    BY <1>15, <2>1 DEF AddWhenAvailable, TypeOK
  <2>3. QED
    BY <1>15, <2>2 DEF AddWhenAvailable, TypeOK, CallStates
<1>16. ASSUME NEW c \in Callers, CallJoin(c) PROVE TypeOK'
  BY <1>16 DEF CallJoin, TypeOK, CallStates
<1>17. ASSUME NEW c \in Callers, WaitJoin(c) PROVE TypeOK'
  BY <1>17 DEF WaitJoin, TypeOK, CallStates
<1>18. ASSUME NEW c \in Callers, JoinReturns(c) PROVE TypeOK'
  BY <1>18 DEF JoinReturns, TypeOK, CallStates
<1>19. ASSUME NEW c \in Callers, CallStop(c) PROVE TypeOK'
  BY <1>19 DEF CallStop, TypeOK, CallStates
<1>20. ASSUME NEW c \in Callers, Destroy(c) PROVE TypeOK'
  BY <1>20 DEF Destroy, TypeOK, CallStates, Phases
<1>21. ASSUME NEW c \in Callers, StopSection(c) PROVE TypeOK'
  <2>1. BreakQueued \in [Tasks -> Settled \cup {"none", "pending"}]
    BY DEF BreakQueued, TypeOK, Settled
  <2>2. <<>> \in Seq(Tasks)
    OBVIOUS
  <2>3. QED
    BY <1>21, <2>1, <2>2, NotifyAvailableType DEF StopSection, TypeOK, CallStates
<1>22. ASSUME NEW c \in Callers, BeginJoin(c) PROVE TypeOK'
  BY <1>22 DEF BeginJoin, TypeOK, CallStates
<1>23. ASSUME NEW c \in Callers, EndDestroy(c) PROVE TypeOK'
  <2>1. BreakQueued \in [Tasks -> Settled \cup {"none", "pending"}]
    BY DEF BreakQueued, TypeOK, Settled
  <2>2. <<>> \in Seq(Tasks)
    OBVIOUS
  <2>3. QED
    BY <1>23, <2>1, <2>2 DEF EndDestroy, TypeOK, CallStates, Phases
<1>24. CASE UNCHANGED vars
  BY <1>24 DEF vars, TypeOK
<1>25. QED
  BY <1>1, <1>2, <1>3, <1>4, <1>5, <1>6, <1>7, <1>8, <1>9, <1>10, <1>11, <1>12,
     <1>13, <1>14, <1>15, <1>16, <1>17, <1>18, <1>19, <1>20, <1>21, <1>22, <1>23,
     <1>24
  DEF Next, WorkerStep, Begin, CallStep

\* No step makes a thread hold a task, or let go of one, out of step with its
\* program counter.
LEMMA HandsStep == IInv /\ [Next]_vars => HandsFull'
<1> SUFFICES ASSUME IInv, [Next]_vars PROVE HandsFull'
  OBVIOUS
<1> USE DEF IInv, HandsFull
<1>1. ASSUME NEW w \in Workers, Top(w) PROVE HandsFull'
  BY <1>1 DEF Top, TypeOK
<1>2. ASSUME NEW w \in Workers, Wait(w) PROVE HandsFull'
  BY <1>2 DEF Wait, TypeOK
<1>3. ASSUME NEW w \in Workers, Quit(w) PROVE HandsFull'
  BY <1>3, NotifyFinishedType DEF Quit, TypeOK
<1>4. ASSUME NEW w \in Workers, Take(w) PROVE HandsFull'
  <2>1. Head(m_Tasks) \in Tasks
    BY <1>4 DEF Take, TypeOK
  <2>2. QED
    BY <1>4, <2>1, TasksAssumption DEF Take, TypeOK
<1>5. ASSUME NEW w \in Workers, Run(w) PROVE HandsFull'
  BY <1>5 DEF Run, TypeOK
<1>6. ASSUME NEW w \in Workers, NotBusy(w) PROVE HandsFull'
  BY <1>6 DEF NotBusy, TypeOK
<1>7. ASSUME NEW w \in Workers, Finish(w) PROVE HandsFull'
  BY <1>7, NotifyFinishedType DEF Finish, TypeOK
<1>8. ASSUME NEW w \in Workers, Leave(w) PROVE HandsFull'
  BY <1>8, NotifyFinishedType DEF Leave, TypeOK
<1>9. ASSUME NEW w \in Workers, SpuriousAvailable(w) PROVE HandsFull'
  BY <1>9 DEF SpuriousAvailable, TypeOK
<1>10. ASSUME NEW c \in Callers, SpuriousFinished(c) PROVE HandsFull'
  BY <1>10 DEF SpuriousFinished, FinishedSleepers, Relock, TypeOK
<1>11. ASSUME NEW c \in Callers, NEW t \in Tasks, AddTask(c, t) PROVE HandsFull'
  BY <1>11 DEF AddTask, MayCall, TypeOK
<1>12. ASSUME NEW c \in Callers, NotifyAdded(c) PROVE HandsFull'
  BY <1>12, NotifyAvailableType DEF NotifyAdded, TypeOK
<1>13. ASSUME NEW c \in Callers, NEW t \in Tasks, CallAddWhenAvailable(c, t) PROVE HandsFull'
  BY <1>13, TasksAssumption DEF CallAddWhenAvailable, TypeOK
<1>14. ASSUME NEW c \in Callers, WaitAvailable(c) PROVE HandsFull'
  BY <1>14 DEF WaitAvailable, TypeOK
<1>15. ASSUME NEW c \in Callers, AddWhenAvailable(c) PROVE HandsFull'
  BY <1>15 DEF AddWhenAvailable, TypeOK
<1>16. ASSUME NEW c \in Callers, CallJoin(c) PROVE HandsFull'
  BY <1>16 DEF CallJoin, MayCall, TypeOK
<1>17. ASSUME NEW c \in Callers, WaitJoin(c) PROVE HandsFull'
  BY <1>17 DEF WaitJoin, TypeOK
<1>18. ASSUME NEW c \in Callers, JoinReturns(c) PROVE HandsFull'
  BY <1>18 DEF JoinReturns, TypeOK
<1>19. ASSUME NEW c \in Callers, CallStop(c) PROVE HandsFull'
  BY <1>19 DEF CallStop, MayCall, TypeOK
<1>20. ASSUME NEW c \in Callers, Destroy(c) PROVE HandsFull'
  BY <1>20 DEF Destroy, MayCall, TypeOK
<1>21. ASSUME NEW c \in Callers, StopSection(c) PROVE HandsFull'
  BY <1>21, NotifyAvailableType DEF StopSection, TypeOK
<1>22. ASSUME NEW c \in Callers, BeginJoin(c) PROVE HandsFull'
  BY <1>22 DEF BeginJoin, TypeOK
<1>23. ASSUME NEW c \in Callers, EndDestroy(c) PROVE HandsFull'
  BY <1>23 DEF EndDestroy, TypeOK
<1>24. CASE UNCHANGED vars
  BY <1>24 DEF vars
<1>25. QED
  BY <1>1, <1>2, <1>3, <1>4, <1>5, <1>6, <1>7, <1>8, <1>9, <1>10, <1>11,
     <1>12, <1>13, <1>14, <1>15, <1>16, <1>17, <1>18, <1>19, <1>20, <1>21,
     <1>22, <1>23, <1>24
  DEF Next, WorkerStep, Begin, CallStep

\* Only Take and NotBusy change the counter or the set of busy workers.
LEMMA BusyStep == IInv /\ [Next]_vars => BusyCounted'
<1> SUFFICES ASSUME IInv, [Next]_vars PROVE BusyCounted'
  OBVIOUS
<1> USE DEF IInv
<1>1. ASSUME NEW w \in Workers, Top(w) PROVE BusyCounted'
  <2>1. Busy' = Busy
    BY <1>1 DEF Top, Busy, TypeOK
  <2>2. QED
    BY <1>1, <2>1 DEF Top, BusyCounted
<1>2. ASSUME NEW w \in Workers, Wait(w) PROVE BusyCounted'
  <2>1. Busy' = Busy
    BY <1>2 DEF Wait, Busy, TypeOK
  <2>2. QED
    BY <1>2, <2>1 DEF Wait, BusyCounted
<1>3. ASSUME NEW w \in Workers, Quit(w) PROVE BusyCounted'
  <2>1. Busy' = Busy
    BY <1>3 DEF Quit, Busy, TypeOK
  <2>2. QED
    BY <1>3, <2>1 DEF Quit, BusyCounted
<1>4. ASSUME NEW w \in Workers, Take(w) PROVE BusyCounted'
  <2>1. Busy \in SUBSET Workers /\ w \notin Busy /\ Busy' = Busy \cup {w}
    BY <1>4 DEF Take, Busy, TypeOK
  <2>2. Cardinality(Busy') = Cardinality(Busy) + 1
    BY <2>1, CardinalityStep, WorkersAssumption
  <2>3. QED
    BY <1>4, <2>2 DEF Take, BusyCounted
<1>5. ASSUME NEW w \in Workers, Run(w) PROVE BusyCounted'
  <2>1. Busy' = Busy
    BY <1>5 DEF Run, Busy, TypeOK
  <2>2. QED
    BY <1>5, <2>1 DEF Run, BusyCounted
<1>6. ASSUME NEW w \in Workers, NotBusy(w) PROVE BusyCounted'
  <2>1. Busy \in SUBSET Workers /\ w \in Busy /\ Busy' = Busy \ {w}
    BY <1>6 DEF NotBusy, Busy, TypeOK
  <2>2. Cardinality(Busy') = Cardinality(Busy) - 1
    BY <2>1, CardinalityStep, WorkersAssumption
  <2>3. QED
    BY <1>6, <2>2 DEF NotBusy, BusyCounted
<1>7. ASSUME NEW w \in Workers, Finish(w) PROVE BusyCounted'
  <2>1. Busy' = Busy
    BY <1>7 DEF Finish, Busy, TypeOK
  <2>2. QED
    BY <1>7, <2>1 DEF Finish, BusyCounted
<1>8. ASSUME NEW w \in Workers, Leave(w) PROVE BusyCounted'
  <2>1. Busy' = Busy
    BY <1>8 DEF Leave, Busy, TypeOK
  <2>2. QED
    BY <1>8, <2>1 DEF Leave, BusyCounted
<1>9. ASSUME NEW w \in Workers, SpuriousAvailable(w) PROVE BusyCounted'
  <2>1. Busy' = Busy
    BY <1>9 DEF SpuriousAvailable, Busy, TypeOK
  <2>2. QED
    BY <1>9, <2>1 DEF SpuriousAvailable, BusyCounted
<1>10. ASSUME NEW c \in Callers, SpuriousFinished(c) PROVE BusyCounted'
  <2>1. Busy' = Busy
    BY <1>10 DEF SpuriousFinished, Busy, TypeOK
  <2>2. QED
    BY <1>10, <2>1 DEF SpuriousFinished, BusyCounted
<1>11. ASSUME NEW c \in Callers, NEW t \in Tasks, AddTask(c, t) PROVE BusyCounted'
  <2>1. Busy' = Busy
    BY <1>11 DEF AddTask, Busy, TypeOK
  <2>2. QED
    BY <1>11, <2>1 DEF AddTask, BusyCounted
<1>12. ASSUME NEW c \in Callers, NotifyAdded(c) PROVE BusyCounted'
  <2>1. Busy' = Busy
    BY <1>12, NotifyAvailableType DEF NotifyAdded, Busy, TypeOK
  <2>2. QED
    BY <1>12, <2>1 DEF NotifyAdded, BusyCounted
<1>13. ASSUME NEW c \in Callers, NEW t \in Tasks, CallAddWhenAvailable(c, t) PROVE BusyCounted'
  <2>1. Busy' = Busy
    BY <1>13 DEF CallAddWhenAvailable, Busy, TypeOK
  <2>2. QED
    BY <1>13, <2>1 DEF CallAddWhenAvailable, BusyCounted
<1>14. ASSUME NEW c \in Callers, WaitAvailable(c) PROVE BusyCounted'
  <2>1. Busy' = Busy
    BY <1>14 DEF WaitAvailable, Busy, TypeOK
  <2>2. QED
    BY <1>14, <2>1 DEF WaitAvailable, BusyCounted
<1>15. ASSUME NEW c \in Callers, AddWhenAvailable(c) PROVE BusyCounted'
  <2>1. Busy' = Busy
    BY <1>15 DEF AddWhenAvailable, Busy, TypeOK
  <2>2. QED
    BY <1>15, <2>1 DEF AddWhenAvailable, BusyCounted
<1>16. ASSUME NEW c \in Callers, CallJoin(c) PROVE BusyCounted'
  <2>1. Busy' = Busy
    BY <1>16 DEF CallJoin, Busy, TypeOK
  <2>2. QED
    BY <1>16, <2>1 DEF CallJoin, BusyCounted
<1>17. ASSUME NEW c \in Callers, WaitJoin(c) PROVE BusyCounted'
  <2>1. Busy' = Busy
    BY <1>17 DEF WaitJoin, Busy, TypeOK
  <2>2. QED
    BY <1>17, <2>1 DEF WaitJoin, BusyCounted
<1>18. ASSUME NEW c \in Callers, JoinReturns(c) PROVE BusyCounted'
  <2>1. Busy' = Busy
    BY <1>18 DEF JoinReturns, Busy, TypeOK
  <2>2. QED
    BY <1>18, <2>1 DEF JoinReturns, BusyCounted
<1>19. ASSUME NEW c \in Callers, CallStop(c) PROVE BusyCounted'
  <2>1. Busy' = Busy
    BY <1>19 DEF CallStop, Busy, TypeOK
  <2>2. QED
    BY <1>19, <2>1 DEF CallStop, BusyCounted
<1>20. ASSUME NEW c \in Callers, Destroy(c) PROVE BusyCounted'
  <2>1. Busy' = Busy
    BY <1>20 DEF Destroy, Busy, TypeOK
  <2>2. QED
    BY <1>20, <2>1 DEF Destroy, BusyCounted
<1>21. ASSUME NEW c \in Callers, StopSection(c) PROVE BusyCounted'
  <2>1. Busy' = Busy
    BY <1>21, NotifyAvailableType DEF StopSection, Busy, TypeOK
  <2>2. QED
    BY <1>21, <2>1 DEF StopSection, BusyCounted
<1>22. ASSUME NEW c \in Callers, BeginJoin(c) PROVE BusyCounted'
  <2>1. Busy' = Busy
    BY <1>22 DEF BeginJoin, Busy, TypeOK
  <2>2. QED
    BY <1>22, <2>1 DEF BeginJoin, BusyCounted
<1>23. ASSUME NEW c \in Callers, EndDestroy(c) PROVE BusyCounted'
  <2>1. Busy' = Busy
    BY <1>23 DEF EndDestroy, Busy, TypeOK
  <2>2. QED
    BY <1>23, <2>1 DEF EndDestroy, BusyCounted
<1>24. CASE UNCHANGED vars
  BY <1>24 DEF vars, Busy, BusyCounted
<1>25. QED
  BY <1>1, <1>2, <1>3, <1>4, <1>5, <1>6, <1>7, <1>8, <1>9, <1>10, <1>11,
     <1>12, <1>13, <1>14, <1>15, <1>16, <1>17, <1>18, <1>19, <1>20, <1>21,
     <1>22, <1>23, <1>24
  DEF Next, WorkerStep, Begin, CallStep

\* The sets of threads NoLostWakeup counts are finite.
LEMMA CountsAreNat ==
  ASSUME TypeOK
  PROVE  /\ AtLock \in SUBSET Workers /\ Notifying \in SUBSET Callers
         /\ Cardinality(AtLock) \in Nat /\ Cardinality(Notifying) \in Nat
         /\ Len(m_Tasks) \in Nat
<1>1. AtLock \in SUBSET Workers /\ Notifying \in SUBSET Callers
  BY DEF AtLock, Notifying
<1>2. Cardinality(AtLock) \in Nat
  BY <1>1, WorkersAssumption, FS_Subset, FS_CardinalityType
<1>3. Cardinality(Notifying) \in Nat
  BY <1>1, CallersFinite, FS_Subset, FS_CardinalityType
<1>4. Len(m_Tasks) \in Nat
  BY DEF TypeOK
<1>5. QED
  BY <1>1, <1>2, <1>3, <1>4

\* A queued task comes with a notification still to be sent, which brings a
\* sleeping worker to the mutex; a worker leaves the mutex with a task, or sleeps
\* because the queue is empty.
LEMMA WakeupStep == IInv /\ [Next]_vars => NoLostWakeup'
<1> SUFFICES ASSUME IInv, [Next]_vars PROVE NoLostWakeup'
  OBVIOUS
<1> USE DEF IInv
<1>1. ASSUME NEW w \in Workers, Top(w) PROVE NoLostWakeup'
  <2>1. CASE m_Stopping
    BY <1>1, <2>1 DEF Top, NoLostWakeup
  <2>2. CASE ~m_Stopping
    <3>1. w \notin AtLock /\ AtLock' = AtLock \cup {w} /\ Notifying' = Notifying
      BY <1>1, <2>2 DEF Top, AtLock, Notifying, TypeOK
    <3>2. Cardinality(AtLock') = Cardinality(AtLock) + 1
      BY <3>1, CountsAreNat, CardinalityStep, WorkersAssumption
    <3>3. Sleeping' = Sleeping
      BY <1>1 DEF Top, Sleeping, TypeOK
    <3>4. QED
      BY <1>1, <3>1, <3>2, <3>3, CountsAreNat DEF Top, NoLostWakeup
  <2>3. QED
    BY <2>1, <2>2
<1>2. ASSUME NEW w \in Workers, Wait(w) PROVE NoLostWakeup'
  <2>1. TypeOK' /\ Len(m_Tasks') = 0
    BY <1>2, TypeStep DEF Wait
  <2>2. Cardinality(AtLock') \in Nat /\ Cardinality(Notifying') \in Nat
    <3>1. AtLock' \in SUBSET Workers /\ Notifying' \in SUBSET Callers
      BY DEF AtLock, Notifying
    <3>2. QED
      BY <3>1, WorkersAssumption, CallersFinite, FS_Subset, FS_CardinalityType
  <2>3. QED
    BY <2>1, <2>2 DEF NoLostWakeup
<1>3. ASSUME NEW w \in Workers, Quit(w) PROVE NoLostWakeup'
  BY <1>3 DEF Quit, NoLostWakeup
<1>4. ASSUME NEW w \in Workers, Take(w) PROVE NoLostWakeup'
  <2>1. w \in AtLock /\ AtLock' = AtLock \ {w}
    BY <1>4 DEF Take, AtLock, TypeOK
  <2>2. Notifying' = Notifying /\ Sleeping' = Sleeping
    BY <1>4 DEF Take, Notifying, Sleeping, TypeOK
  <2>3. Cardinality(AtLock') = Cardinality(AtLock) - 1
    BY <2>1, CountsAreNat, CardinalityStep, WorkersAssumption
  <2>4. Len(m_Tasks') = Len(m_Tasks) - 1
    BY <1>4 DEF Take, TypeOK
  <2>5. QED
    BY <1>4, <2>2, <2>3, <2>4, CountsAreNat DEF Take, NoLostWakeup
<1>5. ASSUME NEW w \in Workers, Run(w) PROVE NoLostWakeup'
  <2>1. AtLock' = AtLock /\ Notifying' = Notifying /\ Sleeping' = Sleeping
    BY <1>5 DEF Run, AtLock, Notifying, Sleeping, TypeOK
  <2>2. QED
    BY <1>5, <2>1 DEF Run, NoLostWakeup
<1>6. ASSUME NEW w \in Workers, NotBusy(w) PROVE NoLostWakeup'
  <2>1. AtLock' = AtLock /\ Notifying' = Notifying /\ Sleeping' = Sleeping
    BY <1>6 DEF NotBusy, AtLock, Notifying, Sleeping, TypeOK
  <2>2. QED
    BY <1>6, <2>1 DEF NotBusy, NoLostWakeup
<1>7. ASSUME NEW w \in Workers, Finish(w) PROVE NoLostWakeup'
  <2>1. AtLock' = AtLock /\ Sleeping' = Sleeping
    BY <1>7 DEF Finish, AtLock, Sleeping, TypeOK
  <2>2. Notifying' = Notifying
    BY <1>7, NotifyFinishedType DEF Finish, Notifying, TypeOK
  <2>3. QED
    BY <1>7, <2>1, <2>2 DEF Finish, NoLostWakeup
<1>8. ASSUME NEW w \in Workers, Leave(w) PROVE NoLostWakeup'
  <2>1. AtLock' = AtLock /\ Sleeping' = Sleeping
    BY <1>8 DEF Leave, AtLock, Sleeping, TypeOK
  <2>2. Notifying' = Notifying
    BY <1>8, NotifyFinishedType DEF Leave, Notifying, TypeOK
  <2>3. QED
    BY <1>8, <2>1, <2>2 DEF Leave, NoLostWakeup
<1>9. ASSUME NEW w \in Workers, SpuriousAvailable(w) PROVE NoLostWakeup'
  <2>1. w \notin AtLock /\ AtLock' = AtLock \cup {w} /\ Notifying' = Notifying
    BY <1>9 DEF SpuriousAvailable, AtLock, Notifying, TypeOK
  <2>2. Cardinality(AtLock') = Cardinality(AtLock) + 1
    BY <2>1, CountsAreNat, CardinalityStep, WorkersAssumption
  <2>3. Sleeping' \subseteq Sleeping
    BY <1>9 DEF SpuriousAvailable, Sleeping, TypeOK
  <2>4. QED
    BY <1>9, <2>1, <2>2, <2>3, CountsAreNat DEF SpuriousAvailable, NoLostWakeup
<1>10. ASSUME NEW c \in Callers, SpuriousFinished(c) PROVE NoLostWakeup'
  <2>1. AtLock' = AtLock /\ Notifying' = Notifying /\ Sleeping' = Sleeping
    BY <1>10 DEF SpuriousFinished, FinishedSleepers, Relock, AtLock, Notifying,
               Sleeping, TypeOK
  <2>2. QED
    BY <1>10, <2>1 DEF SpuriousFinished, NoLostWakeup
<1>11. ASSUME NEW c \in Callers, NEW t \in Tasks, AddTask(c, t) PROVE NoLostWakeup'
  <2>1. c \notin Notifying /\ Notifying' = Notifying \cup {c}
    BY <1>11 DEF AddTask, MayCall, Notifying, TypeOK
  <2>2. AtLock' = AtLock /\ Sleeping' = Sleeping
    BY <1>11 DEF AddTask, AtLock, Sleeping, TypeOK
  <2>3. Cardinality(Notifying') = Cardinality(Notifying) + 1
    BY <2>1, CountsAreNat, CardinalityStep, CallersFinite
  <2>4. Len(m_Tasks') = Len(m_Tasks) + 1
    BY <1>11 DEF AddTask, TypeOK
  <2>5. QED
    BY <1>11, <2>2, <2>3, <2>4, CountsAreNat DEF AddTask, NoLostWakeup
<1>12. ASSUME NEW c \in Callers, NotifyAdded(c) PROVE NoLostWakeup'
  <2>1. CASE Sleeping = {}
    <3>1. Sleeping' = {}
      BY <1>12, <2>1 DEF NotifyAdded, NotifyAvailable, Sleeping, TypeOK
    <3>2. QED
      BY <3>1 DEF NoLostWakeup
  <2>2. CASE Sleeping # {}
    <3>1. PICK w \in Sleeping : wpc' = [wpc EXCEPT ![w] = "lock"]
      BY <1>12, <2>2 DEF NotifyAdded, NotifyAvailable
    <3>2. w \in Workers /\ w \notin AtLock /\ AtLock' = AtLock \cup {w}
      BY <3>1 DEF AtLock, Sleeping, TypeOK
    <3>3. c \in Notifying /\ Notifying' = Notifying \ {c}
      BY <1>12 DEF NotifyAdded, Notifying, TypeOK
    <3>4. Cardinality(AtLock') = Cardinality(AtLock) + 1
      BY <3>2, CountsAreNat, CardinalityStep, WorkersAssumption
    <3>5. Cardinality(Notifying') = Cardinality(Notifying) - 1
      BY <3>3, CountsAreNat, CardinalityStep, CallersFinite
    <3>6. QED
      BY <1>12, <2>2, <3>4, <3>5, CountsAreNat DEF NotifyAdded, NoLostWakeup
  <2>3. QED
    BY <2>1, <2>2
<1>13. ASSUME NEW c \in Callers, NEW t \in Tasks, CallAddWhenAvailable(c, t) PROVE NoLostWakeup'
  <2>1. AtLock' = AtLock /\ Notifying' = Notifying /\ Sleeping' = Sleeping
    BY <1>13 DEF CallAddWhenAvailable, MayCall, AtLock, Notifying, Sleeping, TypeOK
  <2>2. QED
    BY <1>13, <2>1 DEF CallAddWhenAvailable, NoLostWakeup
<1>14. ASSUME NEW c \in Callers, WaitAvailable(c) PROVE NoLostWakeup'
  <2>1. AtLock' = AtLock /\ Notifying' = Notifying /\ Sleeping' = Sleeping
    BY <1>14 DEF WaitAvailable, AtLock, Notifying, Sleeping, TypeOK
  <2>2. QED
    BY <1>14, <2>1 DEF WaitAvailable, NoLostWakeup
<1>15. ASSUME NEW c \in Callers, AddWhenAvailable(c) PROVE NoLostWakeup'
  <2>1. c \notin Notifying /\ Notifying' = Notifying \cup {c}
    BY <1>15 DEF AddWhenAvailable, MayCall, Notifying, TypeOK
  <2>2. AtLock' = AtLock /\ Sleeping' = Sleeping
    BY <1>15 DEF AddWhenAvailable, AtLock, Sleeping, TypeOK
  <2>3. Cardinality(Notifying') = Cardinality(Notifying) + 1
    BY <2>1, CountsAreNat, CardinalityStep, CallersFinite
  <2>4. Len(m_Tasks') = Len(m_Tasks) + 1
    BY <1>15 DEF AddWhenAvailable, TypeOK
  <2>5. QED
    BY <1>15, <2>2, <2>3, <2>4, CountsAreNat DEF AddWhenAvailable, NoLostWakeup
<1>16. ASSUME NEW c \in Callers, CallJoin(c) PROVE NoLostWakeup'
  <2>1. AtLock' = AtLock /\ Notifying' = Notifying /\ Sleeping' = Sleeping
    BY <1>16 DEF CallJoin, MayCall, AtLock, Notifying, Sleeping, TypeOK
  <2>2. QED
    BY <1>16, <2>1 DEF CallJoin, NoLostWakeup
<1>17. ASSUME NEW c \in Callers, WaitJoin(c) PROVE NoLostWakeup'
  <2>1. AtLock' = AtLock /\ Notifying' = Notifying /\ Sleeping' = Sleeping
    BY <1>17 DEF WaitJoin, AtLock, Notifying, Sleeping, TypeOK
  <2>2. QED
    BY <1>17, <2>1 DEF WaitJoin, NoLostWakeup
<1>18. ASSUME NEW c \in Callers, JoinReturns(c) PROVE NoLostWakeup'
  <2>1. AtLock' = AtLock /\ Notifying' = Notifying /\ Sleeping' = Sleeping
    BY <1>18 DEF JoinReturns, AtLock, Notifying, Sleeping, TypeOK
  <2>2. QED
    BY <1>18, <2>1 DEF JoinReturns, NoLostWakeup
<1>19. ASSUME NEW c \in Callers, CallStop(c) PROVE NoLostWakeup'
  BY <1>19 DEF CallStop, NoLostWakeup
<1>20. ASSUME NEW c \in Callers, Destroy(c) PROVE NoLostWakeup'
  BY <1>20 DEF Destroy, NoLostWakeup
<1>21. ASSUME NEW c \in Callers, StopSection(c) PROVE NoLostWakeup'
  <2>1. Sleeping' = {}
    BY <1>21 DEF StopSection, NotifyAllAvailable, Sleeping, TypeOK
  <2>2. QED
    BY <2>1 DEF NoLostWakeup
<1>22. ASSUME NEW c \in Callers, BeginJoin(c) PROVE NoLostWakeup'
  <2>1. AtLock' = AtLock /\ Notifying' = Notifying /\ Sleeping' = Sleeping
    BY <1>22 DEF BeginJoin, AtLock, Notifying, Sleeping, TypeOK
  <2>2. QED
    BY <1>22, <2>1 DEF BeginJoin, NoLostWakeup
<1>23. ASSUME NEW c \in Callers, EndDestroy(c) PROVE NoLostWakeup'
  <2>1. AtLock' = AtLock /\ Notifying' = Notifying /\ Sleeping' = Sleeping
    BY <1>23 DEF EndDestroy, AtLock, Notifying, Sleeping, TypeOK
  <2>2. Len(m_Tasks') <= Len(m_Tasks)
    BY <1>23, CountsAreNat DEF EndDestroy
  <2>3. QED
    BY <1>23, <2>1, <2>2, CountsAreNat, TypeStep DEF EndDestroy, NoLostWakeup
<1>24. CASE UNCHANGED vars
  BY <1>24 DEF vars, AtLock, Notifying, Sleeping, NoLostWakeup
<1>25. QED
  BY <1>1, <1>2, <1>3, <1>4, <1>5, <1>6, <1>7, <1>8, <1>9, <1>10, <1>11,
     <1>12, <1>13, <1>14, <1>15, <1>16, <1>17, <1>18, <1>19, <1>20, <1>21,
     <1>22, <1>23, <1>24
  DEF Next, WorkerStep, Begin, CallStep

\* A worker goes to sleep only if it has seen m_Stopping unset under the mutex,
\* and a caller leaves "stopLock" only with every worker awake.
LEMMA StopStep == IInv /\ [Next]_vars => StopWakesAll'
<1> SUFFICES ASSUME IInv, [Next]_vars PROVE StopWakesAll'
  OBVIOUS
<1> USE DEF IInv
<1>1. ASSUME NEW w \in Workers, Top(w) PROVE StopWakesAll'
  <2>1. Sleeping' \subseteq Sleeping /\ m_Stopping' = m_Stopping
    BY <1>1 DEF Top, Sleeping, TypeOK
  <2>2. \A d \in Callers : call[d] = "stopLock" => call'[d] = "stopLock"
    BY <1>1 DEF Top, MayCall, TypeOK
  <2>3. QED
    BY <2>1, <2>2 DEF StopWakesAll
<1>2. ASSUME NEW w \in Workers, Wait(w) PROVE StopWakesAll'
  BY <1>2 DEF Wait, StopWakesAll
<1>3. ASSUME NEW w \in Workers, Quit(w) PROVE StopWakesAll'
  <2>1. Sleeping' \subseteq Sleeping /\ m_Stopping' = m_Stopping
    BY <1>3 DEF Quit, Sleeping, TypeOK
  <2>2. \A d \in Callers : call[d] = "stopLock" => call'[d] = "stopLock"
    BY <1>3, NotifyFinishedType DEF Quit
  <2>3. QED
    BY <2>1, <2>2 DEF StopWakesAll
<1>4. ASSUME NEW w \in Workers, Take(w) PROVE StopWakesAll'
  <2>1. Sleeping' \subseteq Sleeping /\ m_Stopping' = m_Stopping
    BY <1>4 DEF Take, Sleeping, TypeOK
  <2>2. \A d \in Callers : call[d] = "stopLock" => call'[d] = "stopLock"
    BY <1>4 DEF Take, MayCall, TypeOK
  <2>3. QED
    BY <2>1, <2>2 DEF StopWakesAll
<1>5. ASSUME NEW w \in Workers, Run(w) PROVE StopWakesAll'
  <2>1. Sleeping' \subseteq Sleeping /\ m_Stopping' = m_Stopping
    BY <1>5 DEF Run, Sleeping, TypeOK
  <2>2. \A d \in Callers : call[d] = "stopLock" => call'[d] = "stopLock"
    BY <1>5 DEF Run, MayCall, TypeOK
  <2>3. QED
    BY <2>1, <2>2 DEF StopWakesAll
<1>6. ASSUME NEW w \in Workers, NotBusy(w) PROVE StopWakesAll'
  <2>1. Sleeping' \subseteq Sleeping /\ m_Stopping' = m_Stopping
    BY <1>6 DEF NotBusy, Sleeping, TypeOK
  <2>2. \A d \in Callers : call[d] = "stopLock" => call'[d] = "stopLock"
    BY <1>6 DEF NotBusy, MayCall, TypeOK
  <2>3. QED
    BY <2>1, <2>2 DEF StopWakesAll
<1>7. ASSUME NEW w \in Workers, Finish(w) PROVE StopWakesAll'
  <2>1. Sleeping' \subseteq Sleeping /\ m_Stopping' = m_Stopping
    BY <1>7 DEF Finish, Sleeping, TypeOK
  <2>2. \A d \in Callers : call[d] = "stopLock" => call'[d] = "stopLock"
    BY <1>7, NotifyFinishedType DEF Finish
  <2>3. QED
    BY <2>1, <2>2 DEF StopWakesAll
<1>8. ASSUME NEW w \in Workers, Leave(w) PROVE StopWakesAll'
  <2>1. Sleeping' \subseteq Sleeping /\ m_Stopping' = m_Stopping
    BY <1>8 DEF Leave, Sleeping, TypeOK
  <2>2. \A d \in Callers : call[d] = "stopLock" => call'[d] = "stopLock"
    BY <1>8, NotifyFinishedType DEF Leave
  <2>3. QED
    BY <2>1, <2>2 DEF StopWakesAll
<1>9. ASSUME NEW w \in Workers, SpuriousAvailable(w) PROVE StopWakesAll'
  <2>1. Sleeping' \subseteq Sleeping /\ m_Stopping' = m_Stopping
    BY <1>9 DEF SpuriousAvailable, Sleeping, TypeOK
  <2>2. \A d \in Callers : call[d] = "stopLock" => call'[d] = "stopLock"
    BY <1>9 DEF SpuriousAvailable, MayCall, TypeOK
  <2>3. QED
    BY <2>1, <2>2 DEF StopWakesAll
<1>10. ASSUME NEW c \in Callers, SpuriousFinished(c) PROVE StopWakesAll'
  <2>1. Sleeping' \subseteq Sleeping /\ m_Stopping' = m_Stopping
    BY <1>10 DEF SpuriousFinished, Sleeping, TypeOK
  <2>2. \A d \in Callers : call[d] = "stopLock" => call'[d] = "stopLock"
    BY <1>10 DEF SpuriousFinished, FinishedSleepers, Relock, TypeOK
  <2>3. QED
    BY <2>1, <2>2 DEF StopWakesAll
<1>11. ASSUME NEW c \in Callers, NEW t \in Tasks, AddTask(c, t) PROVE StopWakesAll'
  <2>1. Sleeping' \subseteq Sleeping /\ m_Stopping' = m_Stopping
    BY <1>11 DEF AddTask, Sleeping, TypeOK
  <2>2. \A d \in Callers : call[d] = "stopLock" => call'[d] = "stopLock"
    BY <1>11 DEF AddTask, MayCall, TypeOK
  <2>3. QED
    BY <2>1, <2>2 DEF StopWakesAll
<1>12. ASSUME NEW c \in Callers, NotifyAdded(c) PROVE StopWakesAll'
  <2>1. Sleeping' \subseteq Sleeping /\ m_Stopping' = m_Stopping
    BY <1>12, NotifyAvailableType DEF NotifyAdded, Sleeping, TypeOK
  <2>2. \A d \in Callers : call[d] = "stopLock" => call'[d] = "stopLock"
    BY <1>12 DEF NotifyAdded, TypeOK
  <2>3. QED
    BY <2>1, <2>2 DEF StopWakesAll
<1>13. ASSUME NEW c \in Callers, NEW t \in Tasks, CallAddWhenAvailable(c, t) PROVE StopWakesAll'
  <2>1. Sleeping' \subseteq Sleeping /\ m_Stopping' = m_Stopping
    BY <1>13 DEF CallAddWhenAvailable, Sleeping, TypeOK
  <2>2. \A d \in Callers : call[d] = "stopLock" => call'[d] = "stopLock"
    BY <1>13 DEF CallAddWhenAvailable, MayCall, TypeOK
  <2>3. QED
    BY <2>1, <2>2 DEF StopWakesAll
<1>14. ASSUME NEW c \in Callers, WaitAvailable(c) PROVE StopWakesAll'
  <2>1. Sleeping' \subseteq Sleeping /\ m_Stopping' = m_Stopping
    BY <1>14 DEF WaitAvailable, Sleeping, TypeOK
  <2>2. \A d \in Callers : call[d] = "stopLock" => call'[d] = "stopLock"
    BY <1>14 DEF WaitAvailable, MayCall, TypeOK
  <2>3. QED
    BY <2>1, <2>2 DEF StopWakesAll
<1>15. ASSUME NEW c \in Callers, AddWhenAvailable(c) PROVE StopWakesAll'
  <2>1. Sleeping' \subseteq Sleeping /\ m_Stopping' = m_Stopping
    BY <1>15 DEF AddWhenAvailable, Sleeping, TypeOK
  <2>2. \A d \in Callers : call[d] = "stopLock" => call'[d] = "stopLock"
    BY <1>15 DEF AddWhenAvailable, MayCall, TypeOK
  <2>3. QED
    BY <2>1, <2>2 DEF StopWakesAll
<1>16. ASSUME NEW c \in Callers, CallJoin(c) PROVE StopWakesAll'
  <2>1. Sleeping' \subseteq Sleeping /\ m_Stopping' = m_Stopping
    BY <1>16 DEF CallJoin, Sleeping, TypeOK
  <2>2. \A d \in Callers : call[d] = "stopLock" => call'[d] = "stopLock"
    BY <1>16 DEF CallJoin, MayCall, TypeOK
  <2>3. QED
    BY <2>1, <2>2 DEF StopWakesAll
<1>17. ASSUME NEW c \in Callers, WaitJoin(c) PROVE StopWakesAll'
  <2>1. Sleeping' \subseteq Sleeping /\ m_Stopping' = m_Stopping
    BY <1>17 DEF WaitJoin, Sleeping, TypeOK
  <2>2. \A d \in Callers : call[d] = "stopLock" => call'[d] = "stopLock"
    BY <1>17 DEF WaitJoin, MayCall, TypeOK
  <2>3. QED
    BY <2>1, <2>2 DEF StopWakesAll
<1>18. ASSUME NEW c \in Callers, JoinReturns(c) PROVE StopWakesAll'
  <2>1. Sleeping' \subseteq Sleeping /\ m_Stopping' = m_Stopping
    BY <1>18 DEF JoinReturns, Sleeping, TypeOK
  <2>2. \A d \in Callers : call[d] = "stopLock" => call'[d] = "stopLock"
    BY <1>18 DEF JoinReturns, MayCall, TypeOK
  <2>3. QED
    BY <2>1, <2>2 DEF StopWakesAll
<1>19. ASSUME NEW c \in Callers, CallStop(c) PROVE StopWakesAll'
  BY <1>19 DEF CallStop, StopWakesAll, TypeOK
<1>20. ASSUME NEW c \in Callers, Destroy(c) PROVE StopWakesAll'
  BY <1>20 DEF Destroy, StopWakesAll, TypeOK
<1>21. ASSUME NEW c \in Callers, StopSection(c) PROVE StopWakesAll'
  <2>1. Sleeping' = {}
    BY <1>21 DEF StopSection, NotifyAllAvailable, Sleeping, TypeOK
  <2>2. QED
    BY <2>1 DEF StopWakesAll
<1>22. ASSUME NEW c \in Callers, BeginJoin(c) PROVE StopWakesAll'
  <2>1. Sleeping' \subseteq Sleeping /\ m_Stopping' = m_Stopping
    BY <1>22 DEF BeginJoin, Sleeping, TypeOK
  <2>2. \A d \in Callers : call[d] = "stopLock" => call'[d] = "stopLock"
    BY <1>22 DEF BeginJoin, MayCall, TypeOK
  <2>3. QED
    BY <2>1, <2>2 DEF StopWakesAll
<1>23. ASSUME NEW c \in Callers, EndDestroy(c) PROVE StopWakesAll'
  <2>1. Sleeping' \subseteq Sleeping /\ m_Stopping' = m_Stopping
    BY <1>23 DEF EndDestroy, Sleeping, TypeOK
  <2>2. \A d \in Callers : call[d] = "stopLock" => call'[d] = "stopLock"
    BY <1>23 DEF EndDestroy, MayCall, TypeOK
  <2>3. QED
    BY <2>1, <2>2 DEF StopWakesAll
<1>24. CASE UNCHANGED vars
  BY <1>24 DEF vars, Sleeping, StopWakesAll
<1>25. QED
  BY <1>1, <1>2, <1>3, <1>4, <1>5, <1>6, <1>7, <1>8, <1>9, <1>10, <1>11,
     <1>12, <1>13, <1>14, <1>15, <1>16, <1>17, <1>18, <1>19, <1>20, <1>21,
     <1>22, <1>23, <1>24
  DEF Next, WorkerStep, Begin, CallStep

-----------------------------------------------------------------------------
\* The invariant holds in every state the pool can reach.
LEMMA Invariance == Spec => []IInv
<1>1. Init => IInv
  BY InitInv
<1>2. IInv /\ [Next]_vars => IInv'
  BY TypeStep, HandsStep, BusyStep, WakeupStep, StopStep DEF IInv
<1>3. QED
  BY <1>1, <1>2, PTL DEF Spec

\* Every variable of the pool always has its type: the counter, raised inside
\* the mutex and lowered outside it, never goes below zero.
THEOREM TypeCorrect == Spec => []TypeOK
<1>1. IInv => TypeOK
  BY DEF IInv
<1>2. QED
  BY <1>1, Invariance, PTL

\* m_BusyThreads is always the number of workers between fetch_add(1) and
\* fetch_add(-1).
THEOREM CounterCorrect == Spec => []BusyCounted
<1>1. IInv => BusyCounted
  BY DEF IInv
<1>2. QED
  BY <1>1, Invariance, PTL

\* AddTask and AddWhenAvailable, which notify after the unlock, never leave a
\* task in the queue of a running pool with a worker asleep and nobody to wake it.
THEOREM NoWakeupLost == Spec => []NoLostWakeup
<1>1. IInv => NoLostWakeup
  BY DEF IInv
<1>2. QED
  BY <1>1, Invariance, PTL

\* Stop, which sets the flag before it takes the mutex, leaves no worker asleep
\* once its notify_all is made.
THEOREM StopReachesSleepers == Spec => []StopWakesAll
<1>1. IInv => StopWakesAll
  BY DEF IInv
<1>2. QED
  BY <1>1, Invariance, PTL
-----------------------------------------------------------------------------
(* The tasks                                                               *)

InQueue(t) == \E i \in 1..Len(m_Tasks) : m_Tasks[i] = t
InHand(t) == \E w \in Workers : hand[w] = t
InArg(t) == \E c \in Callers : arg[c] = t

\* TaskOwnership, place by place.
OneEach ==
  /\ \A i, j \in 1..Len(m_Tasks) : m_Tasks[i] = m_Tasks[j] => i = j
  /\ \A v, w \in Workers : hand[v] = hand[w] /\ hand[v] # NoTask => v = w
  /\ \A c, d \in Callers : arg[c] = arg[d] /\ arg[c] # NoTask => c = d
  /\ \A t \in Tasks : /\ ~(InQueue(t) /\ InHand(t))
                      /\ ~(InQueue(t) /\ InArg(t))
                      /\ ~(InHand(t) /\ InArg(t))
  /\ \A t \in Tasks : future[t] = "pending" <=> InQueue(t) \/ InHand(t) \/ InArg(t)

\* Only a pool told to stop drops its queue.
StopFirst ==
  \A c \in Callers : call[c] \in {"stopLock", "beginJoin", "joining"} => m_Stopping

PInv == IInv /\ OneEach /\ StopFirst

\* At first no task is anywhere, and nobody stops the pool.
LEMMA PInitInv == Init => PInv
<1> SUFFICES ASSUME Init PROVE PInv
  OBVIOUS
<1>1. Len(m_Tasks) = 0 /\ 1..Len(m_Tasks) = {}
  BY DEF Init
<1>2. \A t \in Tasks : ~InQueue(t) /\ ~InHand(t) /\ ~InArg(t) /\ future[t] = "none"
  BY <1>1, TasksAssumption DEF Init, InQueue, InHand, InArg
<1>3. OneEach
  BY <1>1, <1>2 DEF Init, OneEach
<1>4. StopFirst
  BY DEF Init, StopFirst
<1> QED
  BY <1>3, <1>4, InitInv DEF PInv

\* What a caller does next to its flag and its tasks.
LEMMA StopFirstStep == PInv /\ [Next]_vars => StopFirst'
<1> SUFFICES ASSUME PInv, [Next]_vars PROVE StopFirst'
  OBVIOUS
<1> USE DEF PInv, IInv, StopFirst, TypeOK
<1>1. ASSUME NEW w \in Workers, WorkerStep(w) PROVE StopFirst'
  <2>1. m_Stopping' = m_Stopping
        /\ (UNCHANGED call \/ NotifyFinished)
    BY <1>1 DEF WorkerStep, Top, Wait, Quit, Take, Run, NotBusy, Finish, Leave
  <2> QED
    BY <2>1, NotifyFinishedType
<1>2. ASSUME NEW w \in Workers, SpuriousAvailable(w) PROVE StopFirst'
  BY <1>2 DEF SpuriousAvailable
<1>3. ASSUME NEW c \in Callers, SpuriousFinished(c) PROVE StopFirst'
  BY <1>3 DEF SpuriousFinished, FinishedSleepers, Relock
<1>4. ASSUME NEW c \in Callers, Begin(c) PROVE StopFirst'
  BY <1>4 DEF Begin, AddTask, CallAddWhenAvailable, CallJoin, CallStop, Destroy
<1>5. ASSUME NEW c \in Callers, CallStep(c) PROVE StopFirst'
  BY <1>5 DEF CallStep, NotifyAdded, WaitAvailable, AddWhenAvailable, WaitJoin,
              JoinReturns, StopSection, BeginJoin, EndDestroy
<1>6. CASE UNCHANGED vars
  BY <1>6 DEF vars
<1> QED
  BY <1>1, <1>2, <1>3, <1>4, <1>5, <1>6 DEF Next

\* The steps that move no task.
LEMMA QuietKeeps ==
  ASSUME OneEach, UNCHANGED <<m_Tasks, hand, arg, future>> PROVE OneEach'
BY DEF OneEach, InQueue, InHand, InArg

\* From nowhere, or from the argument of its caller, a task goes to the end of the queue.
LEMMA AppendKeeps ==
  ASSUME TypeOK, OneEach, NEW t \in Tasks, ~InQueue(t), ~InHand(t),
         m_Tasks' = Append(m_Tasks, t), hand' = hand,
         arg' \in [Callers -> Tasks \cup {NoTask}],
         \A c \in Callers : arg'[c] = IF arg[c] = t THEN NoTask ELSE arg[c],
         \A u \in Tasks : future'[u] = IF u = t THEN "pending" ELSE future[u]
  PROVE  OneEach'
<1>1. /\ Len(m_Tasks) \in Nat /\ Len(m_Tasks') = Len(m_Tasks) + 1
      /\ \A i \in 1..Len(m_Tasks) : m_Tasks'[i] = m_Tasks[i]
      /\ m_Tasks'[Len(m_Tasks) + 1] = t
  BY DEF TypeOK
<1>2. 1..Len(m_Tasks') = 1..Len(m_Tasks) \cup {Len(m_Tasks) + 1}
      /\ Len(m_Tasks) + 1 \notin 1..Len(m_Tasks)
  BY <1>1
<1>3. \A u \in Tasks : InQueue(u)' <=> InQueue(u) \/ u = t
  BY <1>1, <1>2 DEF InQueue
<1>4. \A u \in Tasks : InHand(u)' <=> InHand(u)
  BY DEF InHand
<1>5. \A u \in Tasks : InArg(u)' <=> InArg(u) /\ u # t
  BY TasksAssumption DEF InArg
<1>6. \A i, j \in 1..Len(m_Tasks') : m_Tasks'[i] = m_Tasks'[j] => i = j
  BY <1>1, <1>2 DEF OneEach, InQueue
<1>7. \A v, w \in Workers : hand'[v] = hand'[w] /\ hand'[v] # NoTask => v = w
  BY DEF OneEach
<1>8. \A c, d \in Callers : arg'[c] = arg'[d] /\ arg'[c] # NoTask => c = d
  BY DEF OneEach
<1>9. \A u \in Tasks : /\ ~(InQueue(u)' /\ InHand(u)')
                       /\ ~(InQueue(u)' /\ InArg(u)')
                       /\ ~(InHand(u)' /\ InArg(u)')
  BY <1>3, <1>4, <1>5 DEF OneEach
<1>10. \A u \in Tasks : future'[u] = "pending" <=> InQueue(u)' \/ InHand(u)' \/ InArg(u)'
  BY <1>3, <1>4, <1>5 DEF OneEach
<1> QED
  BY <1>6, <1>7, <1>8, <1>9, <1>10 DEF OneEach

\* The queue is dropped, and its futures broken.
LEMMA DropKeeps ==
  ASSUME TypeOK, OneEach, m_Tasks' = <<>>, future' = BreakQueued, UNCHANGED <<hand, arg>>
  PROVE  OneEach'
<1>1. 1..Len(m_Tasks') = {} /\ DOMAIN m_Tasks = 1..Len(m_Tasks)
  BY DEF TypeOK
<1>2. \A u \in Tasks : ~InQueue(u)' /\ (InHand(u)' <=> InHand(u)) /\ (InArg(u)' <=> InArg(u))
  BY <1>1 DEF InQueue, InHand, InArg
<1>3. \A u \in Tasks : future'[u] = IF InQueue(u) THEN "broken" ELSE future[u]
  BY <1>1 DEF BreakQueued, InQueue
<1>4. \A u \in Tasks : future'[u] = "pending" <=> InQueue(u)' \/ InHand(u)' \/ InArg(u)'
  BY <1>2, <1>3 DEF OneEach
<1> QED
  BY <1>1, <1>2, <1>4 DEF OneEach

\* The oldest task goes from the queue into a hand.
LEMMA TakeKeeps == ASSUME PInv, NEW w \in Workers, Take(w) PROVE OneEach'
<1> USE DEF PInv, IInv
<1>1. /\ m_Tasks # <<>> /\ m_Tasks' = Tail(m_Tasks) /\ hand' = [hand EXCEPT ![w] = Head(m_Tasks)]
      /\ hand[w] = NoTask /\ UNCHANGED <<arg, future>>
  BY DEF Take, HandsFull
<1>2. /\ Len(m_Tasks) \in Nat /\ Len(m_Tasks) >= 1 /\ Len(m_Tasks') = Len(m_Tasks) - 1
      /\ \A i \in 1..Len(m_Tasks') : m_Tasks'[i] = m_Tasks[i + 1] /\ i + 1 \in 1..Len(m_Tasks)
      /\ Head(m_Tasks) = m_Tasks[1] /\ 1 \in 1..Len(m_Tasks) /\ Head(m_Tasks) \in Tasks
  BY <1>1 DEF TypeOK
<1> DEFINE h == Head(m_Tasks)
<1>3. \A v \in Workers : hand'[v] = IF v = w THEN h ELSE hand[v]
  BY <1>1 DEF TypeOK
<1>4. h = m_Tasks[1] /\ h \in Tasks /\ InQueue(h) /\ ~InHand(h) /\ ~InArg(h)
  BY <1>2 DEF OneEach, InQueue
<1> HIDE DEF h
<1>5. \A u \in Tasks : InQueue(u)' <=> InQueue(u) /\ u # h
  <2>1. ASSUME NEW u \in Tasks, InQueue(u)' PROVE InQueue(u) /\ u # h
    <3>1. PICK i \in 1..Len(m_Tasks') : m_Tasks'[i] = u
      BY <2>1 DEF InQueue
    <3>2. i + 1 \in 1..Len(m_Tasks) /\ m_Tasks[i + 1] = u /\ i + 1 # 1
      BY <1>2, <3>1
    <3> QED
      BY <1>2, <1>4, <3>2 DEF InQueue, OneEach
  <2>2. ASSUME NEW u \in Tasks, InQueue(u), u # h PROVE InQueue(u)'
    <3>1. PICK i \in 1..Len(m_Tasks) : m_Tasks[i] = u
      BY <2>2 DEF InQueue
    <3>2. i # 1
      BY <1>4, <2>2, <3>1
    <3>3. i - 1 \in 1..Len(m_Tasks') /\ (i - 1) + 1 = i
      BY <1>2, <3>1, <3>2
    <3>4. m_Tasks'[i - 1] = u
      BY <1>2, <3>1, <3>3
    <3> QED
      BY <3>3, <3>4 DEF InQueue
  <2> QED
    BY <2>1, <2>2
<1>6. \A u \in Tasks : InHand(u)' <=> InHand(u) \/ u = h
  BY <1>1, <1>3, TasksAssumption DEF InHand
<1>7. \A u \in Tasks : InArg(u)' <=> InArg(u)
  BY <1>1 DEF InArg
<1>8. \A i, j \in 1..Len(m_Tasks') : m_Tasks'[i] = m_Tasks'[j] => i = j
  <2>1. ASSUME NEW i \in 1..Len(m_Tasks'), NEW j \in 1..Len(m_Tasks'), m_Tasks'[i] = m_Tasks'[j]
        PROVE  i = j
    <3>1. i + 1 = j + 1
      BY <1>2, <2>1 DEF OneEach
    <3> QED
      BY <1>2, <3>1
  <2> QED
    BY <2>1
<1>9. \A u, v \in Workers : hand'[u] = hand'[v] /\ hand'[u] # NoTask => u = v
  BY <1>3, <1>4 DEF OneEach, InHand
<1>10. \A c, d \in Callers : arg'[c] = arg'[d] /\ arg'[c] # NoTask => c = d
  BY <1>1 DEF OneEach
<1>11. \A u \in Tasks : /\ ~(InQueue(u)' /\ InHand(u)')
                        /\ ~(InQueue(u)' /\ InArg(u)')
                        /\ ~(InHand(u)' /\ InArg(u)')
  BY <1>4, <1>5, <1>6, <1>7 DEF OneEach
<1>12. \A u \in Tasks : future'[u] = "pending" <=> InQueue(u)' \/ InHand(u)' \/ InArg(u)'
  BY <1>1, <1>4, <1>5, <1>6, <1>7 DEF OneEach
<1> QED
  BY <1>8, <1>9, <1>10, <1>11, <1>12 DEF OneEach

\* A task that has run is in no hand, and settled.
LEMMA RunKeeps == ASSUME PInv, NEW w \in Workers, Run(w) PROVE OneEach'
<1> USE DEF PInv, IInv
<1>1. /\ hand[w] # NoTask /\ hand[w] \in Tasks /\ UNCHANGED <<m_Tasks, arg>>
      /\ hand' = [hand EXCEPT ![w] = NoTask]
      /\ \E o \in {"value", "exception"} : future' = [future EXCEPT ![hand[w]] = o]
  BY DEF Run, HandsFull, TypeOK
<1> DEFINE h == hand[w]
<1>2. \A v \in Workers : hand'[v] = IF v = w THEN NoTask ELSE hand[v]
  BY <1>1 DEF TypeOK
<1>3. \A u \in Tasks : IF u = h THEN future'[u] # "pending" ELSE future'[u] = future[u]
  BY <1>1 DEF TypeOK
<1>4. InHand(h) /\ ~InQueue(h) /\ ~InArg(h) /\ h \in Tasks
  BY <1>1 DEF OneEach, InHand
<1>5. \A v \in Workers : hand[v] = h => v = w
  BY <1>1 DEF OneEach
<1> HIDE DEF h
<1>6. \A u \in Tasks : InHand(u)' <=> InHand(u) /\ u # h
  BY <1>2, <1>5, TasksAssumption DEF InHand, h
<1>7. \A u \in Tasks : (InQueue(u)' <=> InQueue(u)) /\ (InArg(u)' <=> InArg(u))
  BY <1>1 DEF InQueue, InArg
<1>8. \A u, v \in Workers : hand'[u] = hand'[v] /\ hand'[u] # NoTask => u = v
  BY <1>2 DEF OneEach
<1>9. \A u \in Tasks : future'[u] = "pending" <=> InQueue(u)' \/ InHand(u)' \/ InArg(u)'
  BY <1>3, <1>4, <1>6, <1>7 DEF OneEach
<1> QED
  BY <1>1, <1>6, <1>7, <1>8, <1>9 DEF OneEach

\* Every step leaves each task in one place.
LEMMA OneEachStep == PInv /\ [Next]_vars => OneEach'
<1> SUFFICES ASSUME PInv, [Next]_vars PROVE OneEach'
  OBVIOUS
<1> USE DEF PInv, IInv
<1>1. ASSUME NEW w \in Workers, WorkerStep(w) PROVE OneEach'
  <2>1. CASE Take(w)
    BY <2>1, TakeKeeps
  <2>2. CASE Run(w)
    BY <2>2, RunKeeps
  <2>3. CASE Top(w) \/ Wait(w) \/ Quit(w) \/ NotBusy(w) \/ Finish(w) \/ Leave(w)
    BY <2>3, QuietKeeps DEF Top, Wait, Quit, NotBusy, Finish, Leave
  <2> QED
    BY <1>1, <2>1, <2>2, <2>3 DEF WorkerStep
<1>2. ASSUME NEW w \in Workers, SpuriousAvailable(w) PROVE OneEach'
  BY <1>2, QuietKeeps DEF SpuriousAvailable
<1>3. ASSUME NEW c \in Callers, SpuriousFinished(c) PROVE OneEach'
  BY <1>3, QuietKeeps DEF SpuriousFinished
<1>4. ASSUME NEW c \in Callers, NEW t \in Tasks, AddTask(c, t) PROVE OneEach'
  <2>1. /\ m_Tasks' = Append(m_Tasks, t) /\ hand' = hand /\ arg' = arg
        /\ future' = [future EXCEPT ![t] = "pending"] /\ future[t] = "none"
    BY <1>4 DEF AddTask
  <2>2. ~InQueue(t) /\ ~InHand(t) /\ ~InArg(t)
    BY <2>1 DEF OneEach
  <2>3. \A d \in Callers : arg'[d] = IF arg[d] = t THEN NoTask ELSE arg[d]
    BY <2>1, <2>2 DEF InArg
  <2>4. \A u \in Tasks : future'[u] = IF u = t THEN "pending" ELSE future[u]
    BY <2>1 DEF TypeOK
  <2>5. arg' \in [Callers -> Tasks \cup {NoTask}]
    BY <2>1 DEF TypeOK
  <2> QED
    BY <2>1, <2>2, <2>3, <2>4, <2>5, AppendKeeps
<1>5. ASSUME NEW c \in Callers, NEW t \in Tasks, CallAddWhenAvailable(c, t) PROVE OneEach'
  <2>1. /\ UNCHANGED <<m_Tasks, hand>> /\ arg' = [arg EXCEPT ![c] = t]
        /\ future' = [future EXCEPT ![t] = "pending"] /\ future[t] = "none"
        /\ call[c] = "idle"
    BY <1>5 DEF CallAddWhenAvailable, MayCall
  <2>2. ~InQueue(t) /\ ~InHand(t) /\ ~InArg(t) /\ arg[c] = NoTask
    BY <2>1 DEF OneEach, HandsFull
  <2>3. \A d \in Callers : arg'[d] = IF d = c THEN t ELSE arg[d]
    BY <2>1 DEF TypeOK
  <2>4. \A u \in Tasks : future'[u] = IF u = t THEN "pending" ELSE future[u]
    BY <2>1 DEF TypeOK
  <2>5. \A u \in Tasks : /\ InQueue(u)' <=> InQueue(u)
                         /\ InHand(u)' <=> InHand(u)
    BY <2>1 DEF InQueue, InHand
  <2>6. \A u \in Tasks : InArg(u)' <=> InArg(u) \/ u = t
    BY <2>2, <2>3, TasksAssumption DEF InArg
  <2>7. \A d, e \in Callers : arg'[d] = arg'[e] /\ arg'[d] # NoTask => d = e
    BY <2>2, <2>3 DEF OneEach, InArg
  <2>8. \A u \in Tasks : future'[u] = "pending" <=> InQueue(u)' \/ InHand(u)' \/ InArg(u)'
    BY <2>4, <2>5, <2>6 DEF OneEach
  <2> QED
    BY <2>1, <2>2, <2>5, <2>6, <2>7, <2>8 DEF OneEach
<1>6. ASSUME NEW c \in Callers, AddWhenAvailable(c) PROVE OneEach'
  <2>1. /\ m_Tasks' = Append(m_Tasks, arg[c]) /\ hand' = hand /\ future' = future
        /\ arg' = [arg EXCEPT ![c] = NoTask] /\ arg[c] \in Tasks /\ arg[c] # NoTask
    BY <1>6 DEF AddWhenAvailable, HandsFull, TypeOK
  <2>2. InArg(arg[c]) /\ ~InQueue(arg[c]) /\ ~InHand(arg[c]) /\ future[arg[c]] = "pending"
    BY <2>1 DEF OneEach, InArg
  <2>3. \A d \in Callers : arg'[d] = IF arg[d] = arg[c] THEN NoTask ELSE arg[d]
    BY <2>1 DEF OneEach, TypeOK
  <2>4. \A u \in Tasks : future'[u] = IF u = arg[c] THEN "pending" ELSE future[u]
    BY <2>1, <2>2
  <2>5. arg' \in [Callers -> Tasks \cup {NoTask}]
    BY <2>1 DEF TypeOK
  <2> QED
    BY <2>1, <2>2, <2>3, <2>4, <2>5, AppendKeeps
<1>7. ASSUME NEW c \in Callers, StopSection(c) PROVE OneEach'
  BY <1>7, DropKeeps DEF StopSection
<1>8. ASSUME NEW c \in Callers, EndDestroy(c) PROVE OneEach'
  BY <1>8, DropKeeps, QuietKeeps DEF EndDestroy
<1>9. ASSUME NEW c \in Callers, CallJoin(c) \/ CallStop(c) \/ Destroy(c) PROVE OneEach'
  BY <1>9, QuietKeeps DEF CallJoin, CallStop, Destroy
<1>10. ASSUME NEW c \in Callers,
              NotifyAdded(c) \/ WaitAvailable(c) \/ WaitJoin(c) \/ JoinReturns(c) \/ BeginJoin(c)
       PROVE  OneEach'
  BY <1>10, QuietKeeps DEF NotifyAdded, WaitAvailable, WaitJoin, JoinReturns, BeginJoin
<1>11. CASE UNCHANGED vars
  BY <1>11, QuietKeeps DEF vars
<1> QED
  BY <1>1, <1>2, <1>3, <1>4, <1>5, <1>6, <1>7, <1>8, <1>9, <1>10, <1>11
  DEF Next, Begin, CallStep

\* All of it is kept by every step.
LEMMA PInvStep == PInv /\ [Next]_vars => PInv'
BY TypeStep, HandsStep, BusyStep, WakeupStep, StopStep, OneEachStep, StopFirstStep
DEF PInv, IInv

\* What is inductive together, in every state.
LEMMA PInvariance == Spec => []PInv
BY PInitInv, PInvStep, PTL DEF Spec

\* A task that is pending is in exactly one place, and a settled one in none,
\* however many threads take, run, queue and drop tasks: none runs twice.
THEOREM TasksOwned == Spec => []TaskOwnership
<1>1. PInv => TaskOwnership
  <2> SUFFICES ASSUME PInv, NEW t \in Tasks
               PROVE  /\ future[t] = "pending" <=> Places(t) # {}
                      /\ \A p, q \in Places(t) : p = q
    BY DEF TaskOwnership
  <2>1. DOMAIN m_Tasks = 1..Len(m_Tasks)
    BY DEF PInv, IInv, TypeOK
  <2>2. t # NoTask
    BY TasksAssumption
  <2>3. ASSUME NEW p \in Places(t)
        PROVE  \/ \E i \in 1..Len(m_Tasks) : p = <<"queue", i>> /\ m_Tasks[i] = t
               \/ \E w \in Workers : p = <<"hand", w>> /\ hand[w] = t
               \/ \E c \in Callers : p = <<"arg", c>> /\ arg[c] = t
    BY <2>1 DEF Places
  <2>4. future[t] = "pending" <=> InQueue(t) \/ InHand(t) \/ InArg(t)
    BY DEF PInv, OneEach
  <2>5. InQueue(t) \/ InHand(t) \/ InArg(t) => Places(t) # {}
    <3>1. ASSUME NEW i \in 1..Len(m_Tasks), m_Tasks[i] = t PROVE <<"queue", i>> \in Places(t)
      BY <2>1, <3>1 DEF Places
    <3>2. ASSUME NEW w \in Workers, hand[w] = t PROVE <<"hand", w>> \in Places(t)
      BY <3>2 DEF Places
    <3>3. ASSUME NEW c \in Callers, arg[c] = t PROVE <<"arg", c>> \in Places(t)
      BY <3>3 DEF Places
    <3> QED
      BY <3>1, <3>2, <3>3 DEF InQueue, InHand, InArg
  <2>6. Places(t) # {} => InQueue(t) \/ InHand(t) \/ InArg(t)
    BY <2>3 DEF InQueue, InHand, InArg
  <2>7. ASSUME NEW p \in Places(t), NEW q \in Places(t) PROVE p = q
    <3>1. CASE InQueue(t)
      <4>1. ~InHand(t) /\ ~InArg(t)
        BY <3>1 DEF PInv, OneEach
      <4> QED
        BY <2>3, <4>1 DEF InHand, InArg, PInv, OneEach
    <3>2. CASE InHand(t)
      <4>1. ~InQueue(t) /\ ~InArg(t)
        BY <3>2 DEF PInv, OneEach
      <4> QED
        BY <2>2, <2>3, <4>1 DEF InQueue, InArg, PInv, OneEach
    <3>3. CASE InArg(t)
      <4>1. ~InQueue(t) /\ ~InHand(t)
        BY <3>3 DEF PInv, OneEach
      <4> QED
        BY <2>2, <2>3, <4>1 DEF InQueue, InHand, PInv, OneEach
    <3> QED
      BY <2>6, <3>1, <3>2, <3>3
  <2> QED
    BY <2>4, <2>5, <2>6, <2>7
<1> QED
  BY PInvariance, <1>1, PTL

\* With an empty queue and a counter of zero nobody holds a task but callers of
\* AddWhenAvailable.
LEMMA IdleMeansDone ==
  ASSUME PInv, JoinReady
  PROVE  /\ \A w \in Workers : hand[w] = NoTask
         /\ \A t \in Tasks : future[t] = "pending" => InArg(t)
<1>1. Cardinality(Busy) = 0 /\ Busy \in SUBSET Workers
  BY DEF PInv, IInv, BusyCounted, JoinReady, Busy
<1>2. \A w \in Workers : w \notin Busy
  BY <1>1, CardinalityStep, WorkersAssumption
<1>3. \A w \in Workers : hand[w] = NoTask
  BY <1>2 DEF Busy, PInv, IInv, HandsFull
<1>4. 1..Len(m_Tasks) = {}
  BY DEF JoinReady
<1> QED
  BY <1>3, <1>4, TasksAssumption DEF PInv, OneEach, InQueue, InHand

\* When Join returns, everything queued before has run or was dropped.
THEOREM JoinWaitsForAll == Spec => JoinSettles
<1>1. PInv /\ [Next]_vars =>
        [\A c \in Callers : JoinReturns(c) =>
           \A t \in Tasks : future[t] = "pending" => \E d \in Callers : arg[d] = t]_vars
  BY IdleMeansDone DEF JoinReturns, InArg
<1> QED
  BY PInvariance, <1>1, PTL DEF Spec, JoinSettles

-----------------------------------------------------------------------------
(* The waiter on m_TaskFinishedConditional                                 *)

\* Who is inside Join or AddWhenAvailable may call it.
WaitersUse ==
  \A c \in Callers : call[c] \in {"joinLock", "joinWait", "awaLock", "awaWait"} =>
                       Uses[c] \cap {"Join", "AddWhenAvailable"} # {}

\* What a sleeper waits for.
Ready(c) == IF call[c] = "joinWait" THEN JoinReady ELSE ~Dynamic /\ ~AllBusy

WInv == PInv /\ WaitersUse /\ WaiterNotForgotten

\* The conclusion of WaiterNotForgotten, of one sleeper.
LEMMA WaiterByOne ==
  /\ WaiterNotForgotten <=>
       (OneWaiter /\ ~m_Stopping =>
          \A c \in FinishedSleepers : Ready(c) => \E w \in Workers : wpc[w] = "finish")
  /\ WaiterNotForgotten' <=>
       (OneWaiter /\ ~m_Stopping' =>
          \A c \in FinishedSleepers' : Ready(c)' => \E w \in Workers : wpc'[w] = "finish")
BY DEF WaiterNotForgotten, OneWaiter, Ready

\* Nobody sleeps at first.
LEMMA WInitInv == Init => WInv
<1> SUFFICES ASSUME Init PROVE WInv
  OBVIOUS
<1>1. WaitersUse /\ WaiterNotForgotten
  BY DEF Init, WaitersUse, WaiterNotForgotten, FinishedSleepers
<1> QED
  BY <1>1, PInitInv DEF WInv

\* Join and AddWhenAvailable are entered only by who may call them.
LEMMA WaitersUseStep == WInv /\ [Next]_vars => WaitersUse'
<1> SUFFICES ASSUME WInv, [Next]_vars PROVE WaitersUse'
  OBVIOUS
<1> USE DEF WInv, PInv, IInv, WaitersUse, TypeOK
<1>1. ASSUME NEW w \in Workers, WorkerStep(w) PROVE WaitersUse'
  <2>1. UNCHANGED call \/ NotifyFinished
    BY <1>1 DEF WorkerStep, Top, Wait, Quit, Take, Run, NotBusy, Finish, Leave
  <2> QED
    BY <2>1, NotifyFinishedType
<1>2. ASSUME NEW w \in Workers, SpuriousAvailable(w) PROVE WaitersUse'
  BY <1>2 DEF SpuriousAvailable
<1>3. ASSUME NEW c \in Callers, SpuriousFinished(c) PROVE WaitersUse'
  BY <1>3 DEF SpuriousFinished, FinishedSleepers, Relock
<1>4. ASSUME NEW c \in Callers, Begin(c) PROVE WaitersUse'
  BY <1>4 DEF Begin, AddTask, CallAddWhenAvailable, CallJoin, CallStop, Destroy, MayCall
<1>5. ASSUME NEW c \in Callers, CallStep(c) PROVE WaitersUse'
  BY <1>5 DEF CallStep, NotifyAdded, WaitAvailable, AddWhenAvailable, WaitJoin,
              JoinReturns, StopSection, BeginJoin, EndDestroy
<1>6. CASE UNCHANGED vars
  BY <1>6 DEF vars
<1> QED
  BY <1>1, <1>2, <1>3, <1>4, <1>5, <1>6 DEF Next

\* A step that makes no sleeper ready and takes no worker away from its notification.
LEMMA WaiterKept ==
  ASSUME WaiterNotForgotten, m_Stopping' = m_Stopping,
         \A c \in FinishedSleepers' : c \in FinishedSleepers /\ (Ready(c)' => Ready(c)),
         \A w \in Workers : wpc[w] = "finish" => wpc'[w] = "finish"
  PROVE  WaiterNotForgotten'
BY WaiterByOne

\* Where what a sleeper waits for stays as it was.
LEMMA SleepersStay ==
  ASSUME TypeOK, UNCHANGED <<m_Threads, m_Tasks, m_BusyThreads>>,
         call' = call \/ NotifyFinished
  PROVE  \A c \in FinishedSleepers' : c \in FinishedSleepers /\ (Ready(c)' => Ready(c))
<1>1. JoinReady' = JoinReady /\ AllBusy' = AllBusy
  BY DEF JoinReady, AllBusy
<1>2. \A c \in FinishedSleepers' : c \in FinishedSleepers /\ call'[c] = call[c]
  BY NotifyFinishedType DEF FinishedSleepers
<1> QED
  BY <1>1, <1>2 DEF Ready


\* A worker that holds no task leaves room in the pool.
LEMMA IdleLeavesRoom ==
  ASSUME IInv, NEW w \in Workers, wpc[w] = "lock"
  PROVE  ~AllBusy
<1>1. /\ m_Threads \in SUBSET Workers /\ w \in m_Threads
      /\ Busy \in SUBSET (m_Threads \ {w})
  BY DEF IInv, TypeOK, Busy
<1>2. IsFiniteSet(m_Threads) /\ IsFiniteSet(m_Threads \ {w})
  BY <1>1, WorkersAssumption, FS_Subset, FS_RemoveElement
<1>3. /\ Cardinality(m_Threads) \in Nat
      /\ Cardinality(m_Threads \ {w}) = Cardinality(m_Threads) - 1
  BY <1>1, <1>2, FS_RemoveElement, FS_CardinalityType
<1>4. Cardinality(Busy) \in Nat /\ Cardinality(Busy) <= Cardinality(m_Threads \ {w})
  BY <1>1, <1>2, FS_Subset, FS_CardinalityType
<1>5. m_BusyThreads = Cardinality(Busy)
  BY DEF IInv, BusyCounted
<1> QED
  BY <1>3, <1>4, <1>5 DEF AllBusy

\* The one waiter is the one that is woken.
LEMMA FinishWakesWaiter ==
  ASSUME WInv, OneWaiter, NotifyFinished
  PROVE  FinishedSleepers' = {}
<1>1. \A c, d \in FinishedSleepers : c = d
  BY DEF WInv, WaitersUse, OneWaiter, FinishedSleepers
<1>2. CASE FinishedSleepers = {}
  BY <1>2 DEF NotifyFinished, FinishedSleepers
<1>3. CASE FinishedSleepers # {}
  <2>1. PICK c \in FinishedSleepers : call' = [call EXCEPT ![c] = Relock(@)]
    BY <1>3 DEF NotifyFinished
  <2>2. \A d \in Callers : d # c => d \notin FinishedSleepers /\ call'[d] = call[d]
    BY <1>1, <2>1 DEF WInv, PInv, IInv, TypeOK
  <2>3. call'[c] \in {"joinLock", "awaLock"}
    BY <2>1 DEF WInv, PInv, IInv, TypeOK, FinishedSleepers, Relock
  <2> QED
    BY <2>2, <2>3 DEF FinishedSleepers
<1> QED
  BY <1>2, <1>3

\* A sleeper becomes ready only by a fetch_add(-1), which is announced next.
LEMMA WaiterStep == WInv /\ [Next]_vars => WaiterNotForgotten'
<1> SUFFICES ASSUME WInv, [Next]_vars PROVE WaiterNotForgotten'
  OBVIOUS
<1>0. TypeOK /\ IInv /\ StopFirst /\ WaiterNotForgotten
  BY DEF WInv, PInv, IInv
<1>1. ASSUME m_Stopping' PROVE WaiterNotForgotten'
  BY <1>1 DEF WaiterNotForgotten
<1>2. ASSUME NEW w \in Workers, Top(w) \/ Wait(w) \/ Quit(w) \/ Run(w) \/ Leave(w)
      PROVE  WaiterNotForgotten'
  <2>1. /\ UNCHANGED <<m_Stopping, m_Threads, m_Tasks, m_BusyThreads>>
        /\ call' = call \/ NotifyFinished
    BY <1>2 DEF Top, Wait, Quit, Run, Leave
  <2>2. \A v \in Workers : wpc[v] = "finish" => wpc'[v] = "finish"
    BY <1>0, <1>2 DEF Top, Wait, Quit, Run, Leave, TypeOK
  <2> QED
    BY <1>0, <2>1, <2>2, SleepersStay, WaiterKept
<1>3. ASSUME NEW w \in Workers, Take(w) PROVE WaiterNotForgotten'
  <2>1. /\ wpc[w] = "lock" /\ UNCHANGED <<m_Stopping, call>>
        /\ m_BusyThreads' = m_BusyThreads + 1 /\ m_BusyThreads \in Nat
    BY <1>0, <1>3 DEF Take, TypeOK
  <2>2. ~JoinReady'
    <3>1. m_BusyThreads + 1 # 0
      BY <2>1
    <3> QED
      BY <2>1, <3>1 DEF JoinReady
  <2>3. ~AllBusy
    BY <1>0, <2>1, IdleLeavesRoom
  <2>4. \A c \in FinishedSleepers' : c \in FinishedSleepers /\ (Ready(c)' => Ready(c))
    BY <2>1, <2>2, <2>3 DEF FinishedSleepers, Ready
  <2>5. \A v \in Workers : wpc[v] = "finish" => wpc'[v] = "finish"
    BY <1>0, <1>3 DEF Take, TypeOK
  <2> QED
    BY <1>0, <2>1, <2>4, <2>5, WaiterKept
<1>4. ASSUME NEW w \in Workers, NotBusy(w) PROVE WaiterNotForgotten'
  <2>1. wpc'[w] = "finish"
    BY <1>0, <1>4 DEF NotBusy, TypeOK
  <2> QED
    BY <2>1, WaiterByOne
<1>5. ASSUME NEW w \in Workers, Finish(w) PROVE WaiterNotForgotten'
  <2>1. OneWaiter => FinishedSleepers' = {}
    BY <1>5, FinishWakesWaiter DEF Finish
  <2> QED
    BY <2>1, WaiterByOne
<1>6. ASSUME NEW w \in Workers, SpuriousAvailable(w) PROVE WaiterNotForgotten'
  <2>1. UNCHANGED <<m_Stopping, m_Threads, m_Tasks, m_BusyThreads, call>>
    BY <1>6 DEF SpuriousAvailable
  <2>2. \A v \in Workers : wpc[v] = "finish" => wpc'[v] = "finish"
    BY <1>0, <1>6 DEF SpuriousAvailable, TypeOK
  <2> QED
    BY <1>0, <2>1, <2>2, SleepersStay, WaiterKept
<1>7. ASSUME NEW c \in Callers, SpuriousFinished(c) PROVE WaiterNotForgotten'
  <2>1. UNCHANGED <<m_Stopping, m_Threads, m_Tasks, m_BusyThreads, wpc>> /\ NotifyFinished
    BY <1>7 DEF SpuriousFinished, NotifyFinished
  <2> QED
    BY <1>0, <2>1, SleepersStay, WaiterKept
<1>8. ASSUME NEW c \in Callers, NEW t \in Tasks, AddTask(c, t) PROVE WaiterNotForgotten'
  <2>1. /\ m_Tasks' = Append(m_Tasks, t) /\ UNCHANGED <<m_Stopping, m_BusyThreads>>
        /\ call[c] = "idle" /\ call' = [call EXCEPT ![c] = "notify"]
        /\ ~Dynamic => UNCHANGED m_Threads
    BY <1>8 DEF AddTask, MayCall, NeedsThread
  <2>2. ~JoinReady'
    <3>1. Append(m_Tasks, t) # <<>>
      BY <1>0 DEF TypeOK
    <3> QED
      BY <2>1, <3>1 DEF JoinReady
  <2>3. \A d \in FinishedSleepers' : d \in FinishedSleepers /\ call'[d] = call[d]
    BY <1>0, <2>1 DEF FinishedSleepers, TypeOK
  <2>4. \A d \in FinishedSleepers' : Ready(d)' => Ready(d)
    BY <2>1, <2>2, <2>3 DEF Ready, AllBusy
  <2>5. \A v \in Workers : wpc[v] = "finish" => wpc'[v] = "finish"
    BY <1>0, <1>8 DEF AddTask, TypeOK
  <2> QED
    BY <1>0, <2>1, <2>3, <2>4, <2>5, WaiterKept
<1>9. ASSUME NEW c \in Callers, NEW t \in Tasks, CallAddWhenAvailable(c, t)
      PROVE  WaiterNotForgotten'
  <2>1. /\ UNCHANGED <<m_Stopping, m_Threads, m_Tasks, m_BusyThreads, wpc>>
        /\ \A d \in FinishedSleepers' : d \in FinishedSleepers /\ call'[d] = call[d]
    BY <1>0, <1>9 DEF CallAddWhenAvailable, FinishedSleepers, TypeOK
  <2>2. \A d \in FinishedSleepers' : Ready(d)' => Ready(d)
    BY <2>1 DEF Ready, JoinReady, AllBusy
  <2> QED
    BY <1>0, <2>1, <2>2, WaiterKept
<1>10. ASSUME NEW c \in Callers, CallJoin(c) \/ NotifyAdded(c) \/ JoinReturns(c)
       PROVE  WaiterNotForgotten'
  <2>1. /\ UNCHANGED <<m_Stopping, m_Threads, m_Tasks, m_BusyThreads>>
        /\ \A d \in FinishedSleepers' : d \in FinishedSleepers /\ call'[d] = call[d]
    BY <1>0, <1>10 DEF CallJoin, NotifyAdded, JoinReturns, FinishedSleepers, TypeOK
  <2>2. \A d \in FinishedSleepers' : Ready(d)' => Ready(d)
    BY <2>1 DEF Ready, JoinReady, AllBusy
  <2>3. \A v \in Workers : wpc[v] = "finish" => wpc'[v] = "finish"
    <3>1. UNCHANGED wpc \/ NotifyAvailable
      BY <1>10 DEF CallJoin, NotifyAdded, JoinReturns
    <3> QED
      BY <1>0, <3>1, NotifyAvailableType
  <2> QED
    BY <1>0, <2>1, <2>2, <2>3, WaiterKept
<1>11. ASSUME NEW c \in Callers, WaitAvailable(c) \/ WaitJoin(c) PROVE WaiterNotForgotten'
  <2>1. /\ UNCHANGED <<m_Stopping, m_Threads, m_Tasks, m_BusyThreads, wpc>>
        /\ \A d \in FinishedSleepers' : d # c => d \in FinishedSleepers /\ call'[d] = call[d]
    BY <1>0, <1>11 DEF WaitAvailable, WaitJoin, FinishedSleepers, TypeOK
  <2>2. JoinReady' = JoinReady /\ AllBusy' = AllBusy
    BY <2>1 DEF JoinReady, AllBusy
  <2>3. ~Ready(c)'
    BY <1>0, <1>11, <2>2 DEF WaitAvailable, WaitJoin, Ready, TypeOK
  <2>4. \A d \in FinishedSleepers' : Ready(d)' => d \in FinishedSleepers /\ Ready(d)
    BY <2>1, <2>2, <2>3 DEF Ready
  <2> QED
    BY <1>0, <2>1, <2>4, WaiterByOne
<1>12. ASSUME NEW c \in Callers, AddWhenAvailable(c) PROVE WaiterNotForgotten'
  <2>1. /\ m_Tasks' # <<>> /\ UNCHANGED <<m_Stopping, m_Threads, m_BusyThreads, wpc>>
        /\ \A d \in FinishedSleepers' : d \in FinishedSleepers /\ call'[d] = call[d]
    <3>1. \A t : Append(m_Tasks, t) # <<>>
      BY <1>0 DEF TypeOK
    <3> QED
      BY <1>0, <1>12, <3>1 DEF AddWhenAvailable, FinishedSleepers, TypeOK
  <2>2. \A d \in FinishedSleepers' : Ready(d)' => Ready(d)
    BY <2>1 DEF Ready, JoinReady, AllBusy
  <2> QED
    BY <1>0, <2>1, <2>2, WaiterKept
<1>13. ASSUME NEW c \in Callers,
              CallStop(c) \/ Destroy(c) \/ StopSection(c) \/ BeginJoin(c) \/ EndDestroy(c)
       PROVE  WaiterNotForgotten'
  <2>1. m_Stopping'
    BY <1>0, <1>13 DEF CallStop, Destroy, StopSection, BeginJoin, EndDestroy, StopFirst
  <2> QED
    BY <1>1, <2>1
<1>14. CASE UNCHANGED vars
  BY <1>0, <1>14, SleepersStay, WaiterKept DEF vars
<1> QED
  BY <1>2, <1>3, <1>4, <1>5, <1>6, <1>7, <1>8, <1>9, <1>10, <1>11, <1>12, <1>13, <1>14
  DEF Next, WorkerStep, Begin, CallStep

\* The caller that waits for tasks to finish, if only one ever does, does not sleep on
\* when its wait is over: a worker is then about to notify, although the counter goes
\* down outside the mutex and notify_one wakes a single thread.
THEOREM WaiterRemembered == Spec => []WaiterNotForgotten
<1>1. Init => WInv
  BY WInitInv
<1>2. WInv /\ [Next]_vars => WInv'
  BY PInvStep, WaitersUseStep, WaiterStep DEF WInv
<1>3. WInv => WaiterNotForgotten
  BY DEF WInv
<1> QED
  BY <1>1, <1>2, <1>3, PTL DEF Spec

-----------------------------------------------------------------------------
(* The implementation of TaskService                                       *)

Held    == {arg[c] : c \in Callers} \ {NoTask}
Running == {hand[w] : w \in Workers} \ {NoTask}
Results == [t \in Tasks |-> IF future[t] \in Settled THEN future[t] ELSE "none"]
Joining == {c \in Callers : call[c] \in {"joinLock", "joinWait"}}

\* Steps that the service does not see.
LEMMA Stutter ==
  ASSUME UNCHANGED <<m_Tasks, hand, arg, future, m_Stopping>>,
         \A c \in Callers : call'[c] \in {"joinLock", "joinWait"} <=>
                            call[c] \in {"joinLock", "joinWait"}
  PROVE  UNCHANGED Service!vars
<1>1. Held' = Held /\ Running' = Running /\ Results' = Results
  BY DEF Held, Running, Results
<1>2. Joining' = Joining
  BY DEF Joining
<1> QED
  BY <1>1, <1>2 DEF Service!vars, Held, Running, Results, Joining

\* Where a task is, as the service says it.
LEMMA Seen ==
  ASSUME PInv
  PROVE  /\ \A t \in Tasks : t \in Service!Queued <=> InQueue(t)
         /\ \A t \in Tasks : t \in Running <=> InHand(t)
         /\ \A t \in Tasks : t \in Held <=> InArg(t)
         /\ Running \subseteq Tasks /\ Held \subseteq Tasks
<1>1. DOMAIN m_Tasks = 1..Len(m_Tasks)
  BY DEF PInv, IInv, TypeOK
<1>2. \A t \in Tasks : t \in Service!Queued <=> InQueue(t)
  BY <1>1 DEF Service!Queued, InQueue
<1>3. \A t \in Tasks : (t \in Running <=> InHand(t)) /\ (t \in Held <=> InArg(t))
  BY TasksAssumption DEF Running, Held, InHand, InArg
<1>4. Running \subseteq Tasks /\ Held \subseteq Tasks
  BY DEF Running, Held, PInv, IInv, TypeOK
<1> QED
  BY <1>2, <1>3, <1>4

\* A worker that takes a task has room for it in the service.
LEMMA Room ==
  ASSUME PInv, NEW w \in Workers, hand[w] = NoTask
  PROVE  Cardinality(Running) < Cardinality(Workers)
<1> DEFINE S == {v \in Workers : hand[v] # NoTask}
           f == [v \in S |-> hand[v]]
<1>1. S \in SUBSET (Workers \ {w}) /\ IsFiniteSet(Workers)
  BY WorkersAssumption
<1>2. /\ IsFiniteSet(Workers \ {w})
      /\ Cardinality(Workers \ {w}) = Cardinality(Workers) - 1
      /\ Cardinality(Workers) \in Nat
  BY <1>1, FS_RemoveElement, FS_CardinalityType
<1>3. IsFiniteSet(S) /\ Cardinality(S) <= Cardinality(Workers \ {w}) /\ Cardinality(S) \in Nat
  BY <1>1, <1>2, FS_Subset, FS_CardinalityType
<1>4. f \in Surjection(S, Running)
  <2>1. \A v \in S : hand[v] \in Running
    BY DEF Running
  <2>2. \A t \in Running : \E v \in S : hand[v] = t
    BY DEF Running
  <2> QED
    BY <2>1, <2>2 DEF Surjection
<1> HIDE DEF S, f
<1>5. IsFiniteSet(Running) /\ Cardinality(Running) <= Cardinality(S)
  BY <1>3, <1>4, FS_Surjection
<1>6. Cardinality(Running) \in Nat
  BY <1>5, FS_CardinalityType
<1> QED
  BY <1>2, <1>3, <1>5, <1>6

\* A worker that takes the oldest task starts it.
LEMMA TakeStarts == ASSUME PInv, NEW w \in Workers, Take(w) PROVE Service!Next
<1>1. /\ ~m_Stopping /\ m_Tasks # <<>> /\ hand' = [hand EXCEPT ![w] = Head(m_Tasks)]
      /\ m_Tasks' = Tail(m_Tasks) /\ hand[w] = NoTask
      /\ UNCHANGED <<m_Stopping, arg, future, call>>
  BY DEF Take, PInv, IInv, HandsFull
<1>2. Head(m_Tasks) \in Tasks
  BY <1>1 DEF PInv, IInv, TypeOK
<1>3. \A v \in Workers : hand'[v] = IF v = w THEN Head(m_Tasks) ELSE hand[v]
  BY <1>1 DEF PInv, IInv, TypeOK
<1>4. Running' = Running \cup {Head(m_Tasks)}
  BY <1>1, <1>2, <1>3, TasksAssumption DEF Running
<1>5. Held' = Held /\ Results' = Results /\ Joining' = Joining
  BY <1>1 DEF Held, Results, Joining
<1>6. Cardinality(Running) < Cardinality(Workers)
  BY <1>1, Room
<1>7. Service!Start <=>
        /\ ~m_Stopping /\ m_Tasks # <<>> /\ Cardinality(Running) < Cardinality(Workers)
        /\ Running' = Running \cup {Head(m_Tasks)}
        /\ m_Tasks' = Tail(m_Tasks)
        /\ UNCHANGED <<Held, Results, Joining, m_Stopping>>
  BY Zenon DEF Service!Start, Service!Cardinality, Cardinality, Held, Running, Results, Joining
<1>8. Service!Start
  BY <1>1, <1>4, <1>5, <1>6, <1>7
<1> QED
  BY <1>8 DEF Service!Next

\* A task that ends is completed, with the result its future gets.
LEMMA RunCompletes == ASSUME PInv, NEW w \in Workers, Run(w) PROVE Service!Next
<1>0. PICK t \in Tasks : t = hand[w]
  BY DEF Run, PInv, IInv, HandsFull, TypeOK
<1>1. /\ t \in Tasks /\ t # NoTask /\ hand' = [hand EXCEPT ![w] = NoTask]
      /\ UNCHANGED <<m_Stopping, m_Tasks, arg, call>>
  BY <1>0 DEF Run, PInv, IInv, HandsFull, TypeOK
<1>2. PICK o \in {"value", "exception"} : future' = [future EXCEPT ![t] = o]
  BY <1>0 DEF Run
<1>3. \A v \in Workers : hand'[v] = IF v = w THEN NoTask ELSE hand[v]
  BY <1>0, <1>1 DEF PInv, IInv, TypeOK
<1>4. \A v \in Workers : hand[v] = t => v = w
  BY <1>0, <1>1 DEF PInv, OneEach
<1>5. \A u \in Tasks : future'[u] = IF u = t THEN o ELSE future[u]
  BY <1>2 DEF PInv, IInv, TypeOK
<1>6. t \in Running
  BY <1>0, <1>1 DEF Running
<1>7. Running' = Running \ {t}
  <2>1. \A v \in Workers : hand'[v] # NoTask => hand[v] = hand'[v] /\ v # w
    BY <1>3
  <2>2. hand[w] = t
    BY <1>0
  <2>3. \A v \in Workers : v # w => hand'[v] = hand[v] /\ hand[v] # t
    BY <1>3, <1>4
  <2>4. ASSUME NEW u PROVE u \in Running' <=> u \in Running \ {t}
    BY <1>3, <2>1, <2>2, <2>3 DEF Running
  <2> QED
    BY <2>4
<1>8. Results' = [Results EXCEPT ![t] = o]
  BY <1>5 DEF Results, Settled
<1>9. Held' = Held /\ Joining' = Joining
  BY <1>1 DEF Held, Joining
<1>10. Service!Complete(t)
  BY <1>1, <1>6, <1>7, <1>8, <1>9 DEF Service!Complete, Held, Running, Results, Joining
<1>11. \E u \in Tasks : Service!Complete(u)
  BY <1>1, <1>10
<1> QED
  BY <1>11, Zenon DEF Service!Next

\* A task that is new is fresh to the service.
LEMMA NewIsFresh ==
  ASSUME PInv, NEW t \in Tasks, future[t] = "none"
  PROVE  Service!Fresh(t) /\ ~InQueue(t) /\ ~InHand(t) /\ ~InArg(t)
<1>1. ~InQueue(t) /\ ~InHand(t) /\ ~InArg(t)
  BY DEF PInv, OneEach
<1>2. t \notin Service!Queued /\ t \notin Held /\ t \notin Running
  BY <1>1, Seen
<1>3. Results[t] = "none"
  BY DEF Results, Settled
<1> QED
  BY <1>1, <1>2, <1>3 DEF Service!Fresh, Held, Running, Results

\* AddTask submits a task that is new.
LEMMA AddTaskSubmits ==
  ASSUME PInv, NEW c \in Callers, NEW t \in Tasks, AddTask(c, t) PROVE Service!Next
<1>1. /\ m_Tasks' = Append(m_Tasks, t) /\ UNCHANGED <<m_Stopping, hand, arg>>
      /\ future' = [future EXCEPT ![t] = "pending"] /\ future[t] = "none"
      /\ call[c] = "idle" /\ call' = [call EXCEPT ![c] = "notify"]
  BY DEF AddTask, MayCall
<1>2. Service!Fresh(t)
  BY <1>1, NewIsFresh
<1>3. Held' = Held /\ Running' = Running
  BY <1>1 DEF Held, Running
<1>4. Results' = Results
  BY <1>1 DEF Results, Settled, PInv, IInv, TypeOK
<1>5. Joining' = Joining
  BY <1>1 DEF Joining, PInv, IInv, TypeOK
<1>6. Service!Submit(t)
  BY <1>1, <1>2, <1>3, <1>4, <1>5 DEF Service!Submit, Held, Running, Results, Joining
<1> QED
  BY <1>6 DEF Service!Next

\* AddWhenAvailable holds a task that is new ...
LEMMA AddWhenAvailableHolds ==
  ASSUME PInv, NEW c \in Callers, NEW t \in Tasks, CallAddWhenAvailable(c, t)
  PROVE  Service!Next
<1>1. /\ arg' = [arg EXCEPT ![c] = t] /\ UNCHANGED <<m_Stopping, m_Tasks, hand>>
      /\ future' = [future EXCEPT ![t] = "pending"] /\ future[t] = "none"
      /\ call[c] = "idle" /\ call' = [call EXCEPT ![c] = "awaLock"] /\ arg[c] = NoTask
  BY DEF CallAddWhenAvailable, MayCall, PInv, IInv, HandsFull
<1>2. Service!Fresh(t)
  BY <1>1, NewIsFresh
<1>3. \A d \in Callers : arg'[d] = IF d = c THEN t ELSE arg[d]
  BY <1>1 DEF PInv, IInv, TypeOK
<1>4. Held' = Held \cup {t}
  BY <1>1, <1>3, TasksAssumption DEF Held
<1>5. Running' = Running
  BY <1>1 DEF Running
<1>6. Results' = Results
  BY <1>1 DEF Results, Settled, PInv, IInv, TypeOK
<1>7. Joining' = Joining
  BY <1>1 DEF Joining, PInv, IInv, TypeOK
<1>8. Service!Hold(t)
  BY <1>1, <1>2, <1>4, <1>5, <1>6, <1>7 DEF Service!Hold, Held, Running, Results, Joining
<1> QED
  BY <1>8 DEF Service!Next

\* ... until a thread is free for it.
LEMMA AddWhenAvailableReleases ==
  ASSUME PInv, NEW c \in Callers, AddWhenAvailable(c) PROVE Service!Next
<1>0. PICK t \in Tasks : t = arg[c]
  BY DEF AddWhenAvailable, PInv, IInv, HandsFull, TypeOK
<1>1. /\ m_Tasks' = Append(m_Tasks, t) /\ UNCHANGED <<m_Stopping, hand, future>>
      /\ arg' = [arg EXCEPT ![c] = NoTask] /\ t \in Tasks /\ t # NoTask
      /\ call[c] = "awaLock" /\ call' = [call EXCEPT ![c] = "notify"]
  BY <1>0 DEF AddWhenAvailable, PInv, IInv, HandsFull, TypeOK
<1>2. \A d \in Callers : arg'[d] = IF d = c THEN NoTask ELSE arg[d]
  BY <1>1 DEF PInv, IInv, TypeOK
<1>3. \A d \in Callers : arg[d] = t <=> d = c
  BY <1>0, <1>1 DEF PInv, OneEach
<1>4. t \in Held
  BY <1>0, <1>1 DEF Held
<1>5. Held' = Held \ {t}
  <2>1. \A d \in Callers : d # c => arg'[d] = arg[d] /\ arg[d] # t
    BY <1>2, <1>3
  <2>2. arg[c] = t /\ arg'[c] = NoTask
    BY <1>0, <1>2
  <2>3. ASSUME NEW u PROVE u \in Held' <=> u \in Held \ {t}
    BY <2>1, <2>2 DEF Held
  <2> QED
    BY <2>3
<1>6. Running' = Running /\ Results' = Results
  BY <1>1 DEF Running, Results
<1>7. Joining' = Joining
  BY <1>1 DEF Joining, PInv, IInv, TypeOK
<1>8. Service!Release(t)
  BY <1>1, <1>4, <1>5, <1>6, <1>7 DEF Service!Release, Held, Running, Results, Joining
<1>9. \E u \in Tasks : Service!Release(u)
  BY <1>1, <1>8
<1> QED
  BY <1>9, Zenon DEF Service!Next

\* Dropping the queue, in a pool that was told to stop.
LEMMA DropDrops ==
  ASSUME PInv, m_Stopping, m_Tasks' = <<>>, future' = BreakQueued,
         UNCHANGED <<m_Stopping, hand, arg>>, Joining' = Joining
  PROVE  Service!Next
<1>1. \A t \in Tasks : future'[t] = IF t \in Service!Queued THEN "broken" ELSE future[t]
  BY DEF BreakQueued, Service!Queued
<1>2. Results' = [t \in Tasks |-> IF t \in Service!Queued THEN "broken" ELSE Results[t]]
  BY <1>1 DEF Results, Settled
<1>3. Held' = Held /\ Running' = Running
  BY DEF Held, Running
<1>4. Service!Drop
  BY <1>2, <1>3 DEF Service!Drop, Held, Running, Results, Joining
<1> QED
  BY <1>4 DEF Service!Next

\* Join is called, and returns when nothing is queued or runs.
LEMMA JoinSteps ==
  ASSUME PInv, NEW c \in Callers, CallJoin(c) \/ JoinReturns(c) PROVE Service!Next
<1>1. UNCHANGED <<m_Stopping, m_Tasks, hand, arg, future>>
  BY DEF CallJoin, JoinReturns
<1>2. Held' = Held /\ Running' = Running /\ Results' = Results
  BY <1>1 DEF Held, Running, Results
<1>3. CASE CallJoin(c)
  <2>1. c \notin Joining /\ Joining' = Joining \cup {c}
    BY <1>3 DEF CallJoin, MayCall, Joining, PInv, IInv, TypeOK
  <2>2. Service!CallJoin(c)
    BY <1>1, <1>2, <2>1 DEF Service!CallJoin, Held, Running, Results, Joining
  <2> QED
    BY <2>2 DEF Service!Next
<1>4. CASE JoinReturns(c)
  <2>1. c \in Joining /\ Joining' = Joining \ {c}
    BY <1>4 DEF JoinReturns, Joining, PInv, IInv, TypeOK
  <2>2. m_Tasks = <<>> /\ Running = {}
    BY <1>4, IdleMeansDone DEF JoinReturns, JoinReady, Running
  <2>3. Service!ReturnJoin(c)
    BY <1>1, <1>2, <2>1, <2>2
    DEF Service!ReturnJoin, Service!Idle, Held, Running, Results, Joining
  <2> QED
    BY <2>3 DEF Service!Next
<1> QED
  BY <1>3, <1>4

\* Stop, and the destructor, stop the service.
LEMMA StopStops ==
  ASSUME PInv, NEW c \in Callers, CallStop(c) \/ Destroy(c) PROVE Service!Next
<1>1. /\ UNCHANGED <<m_Tasks, hand, arg, future>> /\ m_Stopping' = TRUE
      /\ call[c] = "idle" /\ call' = [call EXCEPT ![c] = "stopLock"]
  BY DEF CallStop, Destroy, MayCall
<1>2. Held' = Held /\ Running' = Running /\ Results' = Results
  BY <1>1 DEF Held, Running, Results
<1>3. Joining' = Joining
  BY <1>1 DEF Joining, PInv, IInv, TypeOK
<1>4. Service!Stop
  BY <1>1, <1>2, <1>3 DEF Service!Stop, Held, Running, Results, Joining
<1> QED
  BY <1>4 DEF Service!Next

\* Every step of the pool is a step of the service, or none.
LEMMA StepImplements == PInv /\ [Next]_vars => [Service!Next]_(Service!vars)
<1> SUFFICES ASSUME PInv, [Next]_vars PROVE Service!Next \/ UNCHANGED Service!vars
  OBVIOUS
<1>t. TypeOK
  BY DEF PInv, IInv
<1>1. ASSUME NEW w \in Workers, WorkerStep(w)
      PROVE  Service!Next \/ UNCHANGED Service!vars
  <2>1. CASE Take(w)
    BY <2>1, TakeStarts
  <2>2. CASE Run(w)
    BY <2>2, RunCompletes
  <2>3. CASE Top(w) \/ Wait(w) \/ Quit(w) \/ NotBusy(w) \/ Finish(w) \/ Leave(w)
    <3>1. /\ UNCHANGED <<m_Tasks, hand, arg, future, m_Stopping>>
          /\ UNCHANGED call \/ NotifyFinished
      BY <2>3 DEF Top, Wait, Quit, NotBusy, Finish, Leave
    <3>2. \A c \in Callers : call'[c] \in {"joinLock", "joinWait"} <=>
                             call[c] \in {"joinLock", "joinWait"}
      BY <1>t, <3>1, NotifyFinishedType
    <3> QED
      BY <3>1, <3>2, Stutter
  <2> QED
    BY <1>1, <2>1, <2>2, <2>3 DEF WorkerStep
<1>2. ASSUME NEW w \in Workers, SpuriousAvailable(w) PROVE UNCHANGED Service!vars
  BY <1>2, Stutter DEF SpuriousAvailable
<1>3. ASSUME NEW c \in Callers, SpuriousFinished(c) PROVE UNCHANGED Service!vars
  BY <1>3, <1>t, Stutter DEF SpuriousFinished, FinishedSleepers, Relock, TypeOK
<1>4. ASSUME NEW c \in Callers, Begin(c) PROVE Service!Next
  BY <1>4, AddTaskSubmits, AddWhenAvailableHolds, JoinSteps, StopStops DEF Begin
<1>5. ASSUME NEW c \in Callers, StopSection(c) PROVE Service!Next
  <2>1. m_Stopping
    BY <1>5 DEF StopSection, PInv, StopFirst
  <2>2. Joining' = Joining
    BY <1>5, <1>t DEF StopSection, Joining, TypeOK
  <2> QED
    BY <1>5, <2>1, <2>2, DropDrops DEF StopSection
<1>6. ASSUME NEW c \in Callers, EndDestroy(c)
      PROVE  Service!Next \/ UNCHANGED Service!vars
  <2>1. m_Stopping /\ UNCHANGED <<m_Stopping, hand, arg>>
    BY <1>6 DEF EndDestroy, PInv, StopFirst
  <2>2. \A d \in Callers : call'[d] \in {"joinLock", "joinWait"} <=>
                           call[d] \in {"joinLock", "joinWait"}
    BY <1>6, <1>t DEF EndDestroy, TypeOK
  <2>3. Joining' = Joining
    BY <2>2 DEF Joining
  <2>4. CASE future' = BreakQueued /\ m_Tasks' = <<>>
    BY <2>1, <2>3, <2>4, DropDrops
  <2>5. CASE UNCHANGED <<future, m_Tasks>>
    BY <2>1, <2>2, <2>5, Stutter
  <2> QED
    BY <1>6, <2>4, <2>5 DEF EndDestroy
<1>7. ASSUME NEW c \in Callers, NotifyAdded(c) \/ WaitAvailable(c) \/ WaitJoin(c) \/ BeginJoin(c)
      PROVE  UNCHANGED Service!vars
  BY <1>7, <1>t, Stutter DEF NotifyAdded, WaitAvailable, WaitJoin, BeginJoin, TypeOK
<1>8. CASE UNCHANGED vars
  BY <1>8, Stutter DEF vars
<1> QED
  BY <1>1, <1>2, <1>3, <1>4, <1>5, <1>6, <1>7, <1>8, AddWhenAvailableReleases, JoinSteps
  DEF Next, CallStep

\* A pool starts as a service without tasks.
LEMMA InitImplements == Init => Service!Init
<1> SUFFICES ASSUME Init PROVE Service!Init
  OBVIOUS
<1>1. Held = {} /\ Running = {} /\ Joining = {}
  BY DEF Init, Held, Running, Joining
<1>2. Results = [t \in Tasks |-> "none"]
  BY DEF Init, Results, Settled
<1> QED
  BY <1>1, <1>2 DEF Init, Service!Init, Held, Running, Results, Joining

\* To its users the pool behaves as the service, for any number of threads, tasks
\* and callers: first in, first out, one result each, nothing started after a stop.
THEOREM PoolImplementsService == Spec => ImplementsService
BY InitImplements, StepImplements, PInvariance, PTL DEF Spec, ImplementsService, Service!Spec
=============================================================================
