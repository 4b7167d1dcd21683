----------------------------- MODULE ThreadPool -----------------------------
(***************************************************************************)
(* MBUtility::ThreadPool (ThreadPool.h): worker threads that take tasks    *)
(* from one queue, the clients that queue tasks, wait for the pool to be   *)
(* idle, stop it and destroy it.                                           *)
(*                                                                         *)
(* Every critical section of m_TaskMutex is one action.  What the code     *)
(* does outside the mutex is an action of its own: the loop test of        *)
(* m_Stopping, the store of m_Stopping, the execution of a task, the       *)
(* decrement of m_BusyThreads and the notifications made after the unlock. *)
(* A section reads each of the two atomics in a way that an unlocked store *)
(* in the middle of it can be moved before or after the section.           *)
(*                                                                         *)
(* A sleeping thread is one whose program counter is a "...Wait" state (of *)
(* m_TaskFinishedConditional) or "wait" (of m_TasksAvailableConditional).  *)
(* notify_one moves one sleeper, of the scheduler's choice, to the state   *)
(* where it takes the mutex again.                                         *)
(***************************************************************************)
EXTENDS Naturals, Sequences, FiniteSets

CONSTANTS
  Workers,   \* identities of all the threads the pool may ever start
  Initial,   \* the threads the constructor starts
  Clients,   \* threads outside the pool that call it
  Owner,     \* the client that destroys the pool
  Tasks,     \* the tasks that may be queued, each at most once
  NoTask,    \* "no task", for an empty hand
  Dynamic,   \* the constructor's second argument
  Uses       \* the operations each client, and each task on a worker, calls

Operations == {"AddTask", "AddWhenAvailable", "Join", "Stop", "Destroy"}
Callers == Clients \cup Workers

ASSUME WorkersAssumption == IsFiniteSet(Workers) /\ Initial \subseteq Workers
ASSUME ClientsAssumption == /\ IsFiniteSet(Clients) /\ Owner \in Clients
                            /\ Clients \cap Workers = {}
ASSUME TasksAssumption   == IsFiniteSet(Tasks) /\ NoTask \notin Tasks
ASSUME DynamicAssumption == Dynamic \in BOOLEAN
\* Only the owner destroys the pool, and a task does not destroy its pool.
ASSUME UsesAssumption ==
  /\ Uses \in [Callers -> SUBSET Operations]
  /\ \A c \in Callers \ {Owner} : "Destroy" \notin Uses[c]
\* The bound on threads never keeps a dynamic pool from starting one.
ASSUME SpawnAssumption ==
  Dynamic => Cardinality(Workers) >= Cardinality(Initial) + Cardinality(Tasks)

VARIABLES
  m_Stopping,     \* std::atomic<bool>
  m_Threads,      \* the threads started, std::vector<std::thread>
  m_Tasks,        \* the queue, std::deque
  m_BusyThreads,  \* std::atomic<int>
  wpc,            \* where each worker is in p_TaskThread
  hand,           \* the task a worker executes
  call,           \* where each caller is in the operation it is in
  arg,            \* the task an AddWhenAvailable still holds
  future,         \* what the std::future of a task holds
  phase,          \* the life of the object
  joinList        \* the threads the destructor's loop joins

vars == <<m_Stopping, m_Threads, m_Tasks, m_BusyThreads, wpc, hand, call, arg,
          future, phase, joinList>>

WorkerStates == {"none", "top", "lock", "wait", "run", "ran", "finish",
                 "leave", "exited"}
CallStates == {"idle", "notify", "awaLock", "awaWait", "joinLock", "joinWait",
               "stopLock", "beginJoin", "joining"}
Settled == {"value", "exception", "broken"}
Phases == {"alive", "destroying", "destroyed", "terminated"}

Init ==
  /\ m_Stopping = FALSE
  /\ m_Threads = Initial
  /\ m_Tasks = <<>>
  /\ m_BusyThreads = 0
  /\ wpc = [w \in Workers |-> IF w \in Initial THEN "top" ELSE "none"]
  /\ hand = [w \in Workers |-> NoTask]
  /\ call = [c \in Callers |-> "idle"]
  /\ arg = [c \in Callers |-> NoTask]
  /\ future = [t \in Tasks |-> "none"]
  /\ phase = "alive"
  /\ joinList = {}
-----------------------------------------------------------------------------
(* The two condition variables.                                            *)

\* Threads asleep on m_TasksAvailableConditional and m_TaskFinishedConditional.
Sleeping == {w \in Workers : wpc[w] = "wait"}
FinishedSleepers == {c \in Callers : call[c] \in {"awaWait", "joinWait"}}

\* A thread that waited on m_TaskFinishedConditional takes the mutex again.
Relock(pc) == IF pc = "joinWait" THEN "joinLock" ELSE "awaLock"

\* m_TaskFinishedConditional.notify_one()
NotifyFinished ==
  \/ FinishedSleepers = {} /\ UNCHANGED call
  \/ \E c \in FinishedSleepers : call' = [call EXCEPT ![c] = Relock(@)]

\* m_TasksAvailableConditional.notify_one()
NotifyAvailable ==
  \/ Sleeping = {} /\ UNCHANGED wpc
  \/ \E w \in Sleeping : wpc' = [wpc EXCEPT ![w] = "lock"]

\* m_TasksAvailableConditional.notify_all()
NotifyAllAvailable ==
  wpc' = [w \in Workers |-> IF w \in Sleeping THEN "lock" ELSE wpc[w]]

\* A condition variable may wake a sleeper for no reason.
SpuriousAvailable(w) ==
  /\ wpc[w] = "wait"
  /\ wpc' = [wpc EXCEPT ![w] = "lock"]
  /\ UNCHANGED <<m_Stopping, m_Threads, m_Tasks, m_BusyThreads, hand, call,
                 arg, future, phase, joinList>>

SpuriousFinished(c) ==
  /\ c \in FinishedSleepers
  /\ call' = [call EXCEPT ![c] = Relock(@)]
  /\ UNCHANGED <<m_Stopping, m_Threads, m_Tasks, m_BusyThreads, wpc, hand,
                 arg, future, phase, joinList>>
-----------------------------------------------------------------------------
(* p_TaskThread                                                            *)

\* while(!m_Stopping.load()), read without the mutex.
Top(w) ==
  /\ wpc[w] = "top"
  /\ wpc' = [wpc EXCEPT ![w] = IF m_Stopping THEN "leave" ELSE "lock"]
  /\ UNCHANGED <<m_Stopping, m_Threads, m_Tasks, m_BusyThreads, hand, call,
                 arg, future, phase, joinList>>

\* Mutant of Wait: the flag is not read under the mutex.
WaitThoughStopping(w) ==
  /\ wpc[w] = "lock" /\ m_Tasks = <<>>
  /\ wpc' = [wpc EXCEPT ![w] = "wait"]
  /\ UNCHANGED <<m_Stopping, m_Threads, m_Tasks, m_BusyThreads, hand, call,
                 arg, future, phase, joinList>>

\* Nothing to do: sleep, which releases the mutex.
Wait(w) ==
  /\ wpc[w] = "lock" /\ ~m_Stopping /\ m_Tasks = <<>>
  /\ wpc' = [wpc EXCEPT ![w] = "wait"]
  /\ UNCHANGED <<m_Stopping, m_Threads, m_Tasks, m_BusyThreads, hand, call,
                 arg, future, phase, joinList>>

\* The pool is stopping: leave the loop.
Quit(w) ==
  /\ wpc[w] = "lock" /\ m_Stopping
  /\ wpc' = [wpc EXCEPT ![w] = "leave"]
  /\ NotifyFinished
  /\ UNCHANGED <<m_Stopping, m_Threads, m_Tasks, m_BusyThreads, hand, arg,
                 future, phase, joinList>>

\* Mutants of Take: no fetch_add, no pop_front, the newest task instead of the
\* oldest, the flag not read again after the wait.
TakeWith(w, task, rest, busy) ==
  /\ wpc[w] = "lock" /\ m_Tasks # <<>>
  /\ m_BusyThreads' = busy
  /\ hand' = [hand EXCEPT ![w] = task]
  /\ m_Tasks' = rest
  /\ wpc' = [wpc EXCEPT ![w] = "run"]
  /\ UNCHANGED <<m_Stopping, m_Threads, call, arg, future, phase, joinList>>
TakeUncounted(w) ==
  ~m_Stopping /\ TakeWith(w, Head(m_Tasks), Tail(m_Tasks), m_BusyThreads)
TakeWithoutPop(w) ==
  ~m_Stopping /\ TakeWith(w, Head(m_Tasks), m_Tasks, m_BusyThreads + 1)
TakeNewest(w) ==
  LET last == Len(m_Tasks)
  IN ~m_Stopping /\ TakeWith(w, m_Tasks[last], SubSeq(m_Tasks, 1, last - 1), m_BusyThreads + 1)
TakeThoughStopping(w) ==
  TakeWith(w, Head(m_Tasks), Tail(m_Tasks), m_BusyThreads + 1)

\* Count the worker as busy and pop the oldest task, in one section.
Take(w) ==
  /\ wpc[w] = "lock" /\ ~m_Stopping /\ m_Tasks # <<>>
  /\ m_BusyThreads' = m_BusyThreads + 1
  /\ hand' = [hand EXCEPT ![w] = Head(m_Tasks)]
  /\ m_Tasks' = Tail(m_Tasks)
  /\ wpc' = [wpc EXCEPT ![w] = "run"]
  /\ UNCHANGED <<m_Stopping, m_Threads, call, arg, future, phase, joinList>>

\* TaskToExecute() ends, after any call to the pool the task itself made: the
\* promise gets the result, or the exception the wrapper of the task caught.
Run(w) ==
  /\ wpc[w] = "run" /\ call[w] = "idle"
  /\ \E outcome \in {"value", "exception"} :
        future' = [future EXCEPT ![hand[w]] = outcome]
  /\ hand' = [hand EXCEPT ![w] = NoTask]
  /\ wpc' = [wpc EXCEPT ![w] = "ran"]
  /\ UNCHANGED <<m_Stopping, m_Threads, m_Tasks, m_BusyThreads, call, arg,
                 phase, joinList>>

\* Mutants of NotBusy: no fetch_add(-1), and no notification after it.
NotBusyKept(w) ==
  /\ wpc[w] = "ran"
  /\ wpc' = [wpc EXCEPT ![w] = "finish"]
  /\ UNCHANGED <<m_Stopping, m_Threads, m_Tasks, m_BusyThreads, hand, call,
                 arg, future, phase, joinList>>
NotBusySilent(w) ==
  /\ wpc[w] = "ran"
  /\ m_BusyThreads' = m_BusyThreads - 1
  /\ wpc' = [wpc EXCEPT ![w] = "top"]
  /\ UNCHANGED <<m_Stopping, m_Threads, m_Tasks, hand, call, arg, future,
                 phase, joinList>>

\* m_BusyThreads.fetch_add(-1), without the mutex.
NotBusy(w) ==
  /\ wpc[w] = "ran"
  /\ m_BusyThreads' = m_BusyThreads - 1
  /\ wpc' = [wpc EXCEPT ![w] = "finish"]
  /\ UNCHANGED <<m_Stopping, m_Threads, m_Tasks, hand, call, arg, future,
                 phase, joinList>>

\* Lock and notify one thread that waits for a task to finish.
Finish(w) ==
  /\ wpc[w] = "finish"
  /\ wpc' = [wpc EXCEPT ![w] = "top"]
  /\ NotifyFinished
  /\ UNCHANGED <<m_Stopping, m_Threads, m_Tasks, m_BusyThreads, hand, arg,
                 future, phase, joinList>>

\* The notification after the loop; the thread ends.
Leave(w) ==
  /\ wpc[w] = "leave"
  /\ wpc' = [wpc EXCEPT ![w] = "exited"]
  /\ NotifyFinished
  /\ UNCHANGED <<m_Stopping, m_Threads, m_Tasks, m_BusyThreads, hand, arg,
                 future, phase, joinList>>
-----------------------------------------------------------------------------
(* The public operations                                                   *)

\* A client calls while the pool lives; a task calls while a worker runs it.
MayCall(c, op) ==
  /\ op \in Uses[c]
  /\ call[c] = "idle"
  /\ IF c \in Workers THEN wpc[c] = "run" ELSE phase = "alive"

\* Mutant of NeedsThread: off by one.
NeedsThreadLate(queue) == Dynamic /\ Len(queue) > m_BusyThreads + 1

\* A dynamic pool starts a thread when the queue is longer than the number of
\* busy threads.
NeedsThread(queue) == Dynamic /\ Len(queue) > m_BusyThreads

\* Mutant of AddTask: no notification.
AddTaskSilent(c, t) ==
  /\ MayCall(c, "AddTask") /\ future[t] = "none"
  /\ future' = [future EXCEPT ![t] = "pending"]
  /\ m_Tasks' = Append(m_Tasks, t)
  /\ UNCHANGED <<m_Stopping, m_Threads, m_BusyThreads, wpc, hand, call, arg,
                 phase, joinList>>

\* The section of AddTask: queue the task, perhaps start a thread.
AddTask(c, t) ==
  /\ MayCall(c, "AddTask") /\ future[t] = "none"
  /\ future' = [future EXCEPT ![t] = "pending"]
  /\ m_Tasks' = Append(m_Tasks, t)
  /\ \/ /\ ~NeedsThread(m_Tasks')
        /\ UNCHANGED <<m_Threads, wpc>>
     \/ /\ NeedsThread(m_Tasks')
        /\ \E w \in Workers \ m_Threads :
             /\ m_Threads' = m_Threads \cup {w}
             /\ wpc' = [wpc EXCEPT ![w] = "top"]
  /\ call' = [call EXCEPT ![c] = "notify"]
  /\ UNCHANGED <<m_Stopping, m_BusyThreads, hand, arg, phase, joinList>>

\* The notify_one after the section of AddTask or AddWhenAvailable.
NotifyAdded(c) ==
  /\ call[c] = "notify"
  /\ NotifyAvailable
  /\ call' = [call EXCEPT ![c] = "idle"]
  /\ UNCHANGED <<m_Stopping, m_Threads, m_Tasks, m_BusyThreads, hand, arg,
                 future, phase, joinList>>

\* AddWhenAvailable creates the promise before it takes the mutex.
CallAddWhenAvailable(c, t) ==
  /\ MayCall(c, "AddWhenAvailable") /\ future[t] = "none"
  /\ future' = [future EXCEPT ![t] = "pending"]
  /\ arg' = [arg EXCEPT ![c] = t]
  /\ call' = [call EXCEPT ![c] = "awaLock"]
  /\ UNCHANGED <<m_Stopping, m_Threads, m_Tasks, m_BusyThreads, wpc, hand,
                 phase, joinList>>

AllBusy == m_BusyThreads = Cardinality(m_Threads)

WaitAvailable(c) ==
  /\ call[c] = "awaLock" /\ AllBusy
  /\ call' = [call EXCEPT ![c] = "awaWait"]
  /\ UNCHANGED <<m_Stopping, m_Threads, m_Tasks, m_BusyThreads, wpc, hand,
                 arg, future, phase, joinList>>

AddWhenAvailable(c) ==
  /\ call[c] = "awaLock" /\ ~AllBusy
  /\ m_Tasks' = Append(m_Tasks, arg[c])
  /\ arg' = [arg EXCEPT ![c] = NoTask]
  /\ call' = [call EXCEPT ![c] = "notify"]
  /\ UNCHANGED <<m_Stopping, m_Threads, m_BusyThreads, wpc, hand, future,
                 phase, joinList>>

CallJoin(c) ==
  /\ MayCall(c, "Join")
  /\ call' = [call EXCEPT ![c] = "joinLock"]
  /\ UNCHANGED <<m_Stopping, m_Threads, m_Tasks, m_BusyThreads, wpc, hand,
                 arg, future, phase, joinList>>

\* Mutant of JoinReady: a task that runs is not waited for.
JoinReadyQueue == m_Tasks = <<>>

\* The condition Join waits for.
JoinReady == m_Tasks = <<>> /\ m_BusyThreads = 0

WaitJoin(c) ==
  /\ call[c] = "joinLock" /\ ~JoinReady
  /\ call' = [call EXCEPT ![c] = "joinWait"]
  /\ UNCHANGED <<m_Stopping, m_Threads, m_Tasks, m_BusyThreads, wpc, hand,
                 arg, future, phase, joinList>>

JoinReturns(c) ==
  /\ call[c] = "joinLock" /\ JoinReady
  /\ call' = [call EXCEPT ![c] = "idle"]
  /\ UNCHANGED <<m_Stopping, m_Threads, m_Tasks, m_BusyThreads, wpc, hand,
                 arg, future, phase, joinList>>

\* Stop first sets the flag, without the mutex ...
CallStop(c) ==
  /\ MayCall(c, "Stop")
  /\ m_Stopping' = TRUE
  /\ call' = [call EXCEPT ![c] = "stopLock"]
  /\ UNCHANGED <<m_Threads, m_Tasks, m_BusyThreads, wpc, hand, arg, future,
                 phase, joinList>>

\* The destructor calls Stop.  No other client may be in a call: that is the
\* caller's duty for every C++ object.  Tasks may still call.
Destroy(c) ==
  /\ MayCall(c, "Destroy")
  /\ \A d \in Clients : call[d] = "idle"
  /\ phase' = "destroying"
  /\ m_Stopping' = TRUE
  /\ call' = [call EXCEPT ![c] = "stopLock"]
  /\ UNCHANGED <<m_Threads, m_Tasks, m_BusyThreads, wpc, hand, arg, future,
                 joinList>>

\* Mutant of BreakQueued: the dropped tasks' futures are left as they are.
BreakNothing == future

\* What the futures hold once the tasks in the queue are destroyed.
BreakQueued ==
  [t \in Tasks |-> IF \E i \in DOMAIN m_Tasks : m_Tasks[i] = t THEN "broken"
                                                               ELSE future[t]]

Destroying(c) == c = Owner /\ phase = "destroying"

\* ... then drops the queue and wakes every idle worker, in one section.
StopSection(c) ==
  /\ call[c] = "stopLock"
  /\ future' = BreakQueued
  /\ m_Tasks' = <<>>
  /\ NotifyAllAvailable
  /\ call' = [call EXCEPT ![c] = IF Destroying(c) THEN "beginJoin" ELSE "idle"]
  /\ UNCHANGED <<m_Stopping, m_Threads, m_BusyThreads, hand, arg, phase,
                 joinList>>

\* The destructor's loop takes the vector's bounds once, without the mutex.
BeginJoin(c) ==
  /\ call[c] = "beginJoin"
  /\ joinList' = m_Threads
  /\ call' = [call EXCEPT ![c] = "joining"]
  /\ UNCHANGED <<m_Stopping, m_Threads, m_Tasks, m_BusyThreads, wpc, hand,
                 arg, future, phase>>

\* Every thread of the loop has ended.  The members are destroyed, the queue
\* with whatever a task added after Stop.  A thread the loop did not join ends
\* the program in ~thread ("terminated", which also stands for the undefined
\* outcomes of growing the vector under the loop).
EndDestroy(c) ==
  /\ call[c] = "joining"
  /\ \A w \in joinList : wpc[w] = "exited"
  /\ call' = [call EXCEPT ![c] = "idle"]
  /\ \/ /\ m_Threads = joinList
        /\ phase' = "destroyed"
        /\ future' = BreakQueued
        /\ m_Tasks' = <<>>
     \/ /\ m_Threads # joinList
        /\ phase' = "terminated"
        /\ UNCHANGED <<future, m_Tasks>>
  /\ UNCHANGED <<m_Stopping, m_Threads, m_BusyThreads, wpc, hand, arg,
                 joinList>>
-----------------------------------------------------------------------------
WorkerStep(w) ==
  \/ Top(w) \/ Wait(w) \/ Quit(w) \/ Take(w) \/ Run(w) \/ NotBusy(w)
  \/ Finish(w) \/ Leave(w)

\* A caller begins an operation.
Begin(c) ==
  \/ \E t \in Tasks : AddTask(c, t) \/ CallAddWhenAvailable(c, t)
  \/ CallJoin(c) \/ CallStop(c) \/ Destroy(c)

\* A caller goes on with the operation it is in.
CallStep(c) ==
  \/ NotifyAdded(c) \/ WaitAvailable(c) \/ AddWhenAvailable(c) \/ WaitJoin(c)
  \/ JoinReturns(c) \/ StopSection(c) \/ BeginJoin(c) \/ EndDestroy(c)

Next ==
  /\ phase # "terminated"
  /\ \/ \E w \in Workers : WorkerStep(w) \/ SpuriousAvailable(w)
     \/ \E c \in Callers : Begin(c) \/ CallStep(c) \/ SpuriousFinished(c)

Spec == Init /\ [][Next]_vars

\* The scheduler runs every thread that can go on, the mutex is granted in the
\* end to every thread that asks for it, and every task returns.  No operation
\* has to be called, and nothing is assumed of spurious wakeups.
Fairness ==
  /\ \A w \in Workers : WF_vars(phase # "terminated" /\ WorkerStep(w))
  /\ \A c \in Callers : WF_vars(phase # "terminated" /\ CallStep(c))

FairSpec == Spec /\ Fairness
-----------------------------------------------------------------------------
(* Properties                                                              *)

\* Every variable has its type, and the threads started are those with a
\* program counter in p_TaskThread.
TypeOK ==
  /\ m_Stopping \in BOOLEAN
  /\ m_Threads = {w \in Workers : wpc[w] # "none"}
  /\ m_Tasks \in Seq(Tasks)
  /\ m_BusyThreads \in Nat
  /\ wpc \in [Workers -> WorkerStates]
  /\ hand \in [Workers -> Tasks \cup {NoTask}]
  /\ call \in [Callers -> CallStates]
  /\ arg \in [Callers -> Tasks \cup {NoTask}]
  /\ future \in [Tasks -> Settled \cup {"none", "pending"}]
  /\ phase \in Phases
  /\ joinList \in SUBSET Workers

\* The workers between fetch_add(1) and fetch_add(-1).
Busy == {w \in Workers : wpc[w] \in {"run", "ran"}}

\* m_BusyThreads counts the workers that took a task and have not announced
\* its end, although it goes up inside the mutex and down outside it.  Join,
\* AddWhenAvailable and the choice to start a thread all trust the counter.
BusyCounted == m_BusyThreads = Cardinality(Busy)

\* Threads that will look at the queue: workers about to take the mutex, and
\* callers about to notify.
AtLock == {w \in Workers : wpc[w] = "lock"}
Notifying == {c \in Callers : call[c] = "notify"}

\* While the pool runs and a worker sleeps, every queued task has a worker on
\* its way to the queue or a notification still to be sent: a wakeup may be
\* taken by a thread that was not asleep, and is sent after the unlock, but is
\* never lost.
NoLostWakeup ==
  ~m_Stopping /\ Sleeping # {} =>
    Len(m_Tasks) <= Cardinality(AtLock) + Cardinality(Notifying)

\* Once m_Stopping is set, outside the mutex, a worker may sleep only as long
\* as some Stop has still to make its notify_all.
StopWakesAll ==
  m_Stopping /\ Sleeping # {} => \E c \in Callers : call[c] = "stopLock"

\* A task whose future is pending is in exactly one place: once in the queue,
\* in the hand of one worker, or held by one blocked AddWhenAvailable.  A task
\* whose future is settled is nowhere: no task runs twice or is forgotten.
Places(t) ==
  (({"queue"} \X {i \in DOMAIN m_Tasks : m_Tasks[i] = t}) \cup
   ({"hand"} \X {w \in Workers : hand[w] = t})) \cup
   ({"arg"} \X {c \in Callers : arg[c] = t})

TaskOwnership ==
  \A t \in Tasks :
    /\ future[t] = "pending" <=> Places(t) # {}
    /\ \A p, q \in Places(t) : p = q

\* When Join returns, every task anyone queued before has run or was dropped by
\* Stop: the only pending futures are of tasks some AddWhenAvailable still
\* holds.  Join itself only looks at the queue's length and at the counter.
JoinSettles ==
  [][\A c \in Callers : JoinReturns(c) =>
       \A t \in Tasks : future[t] = "pending" => \E d \in Callers : arg[d] = t]_vars

\* At most one caller ever waits on m_TaskFinishedConditional.
OneWaiter ==
  \A c, d \in Callers :
    /\ Uses[c] \cap {"Join", "AddWhenAvailable"} # {}
    /\ Uses[d] \cap {"Join", "AddWhenAvailable"} # {}
    => c = d

\* With one waiter and no Stop, the waiter is not forgotten: if it sleeps while
\* what it waits for is already true, a worker is about to notify.  The counter
\* goes down outside the mutex, before the notification.  (An AddWhenAvailable
\* of a dynamic pool may also find room in a thread just started.)
WaiterNotForgotten ==
  OneWaiter /\ ~m_Stopping =>
    \A c \in FinishedSleepers :
      (IF call[c] = "joinWait" THEN JoinReady ELSE ~Dynamic /\ ~AllBusy) =>
        \E w \in Workers : wpc[w] = "finish"

\* Every accepted task is settled in the end, unless the pool is stopped.
TasksSettle ==
  \A t \in Tasks : future[t] = "pending" ~> (future[t] # "pending" \/ m_Stopping)

\* A pool told to stop has only ended threads in the end.
WorkersExit == m_Stopping ~> \A w \in m_Threads : wpc[w] = "exited"

\* The destructor returns, with every thread joined, unless a task of a dynamic
\* pool has started a thread after the destructor's loop began.
DestroyEnds ==
  phase = "destroying" ~>
    phase = "destroyed" \/ (phase = "terminated" /\ Dynamic /\ m_Threads # joinList)

\* A task that is pending when its pool is destroyed is settled in the end,
\* queued after Stop's clear or not.
DestroySettles ==
  \A t \in Tasks :
    phase = "destroying" /\ future[t] = "pending" ~> future[t] \in Settled

\* Every call returns.  Join and AddWhenAvailable wait on one condition variable
\* that is only ever notified one thread at a time, so this needs OneWaiter; and
\* a Join that sleeps when Stop empties the queue may sleep for ever.
CallsReturn ==
  OneWaiter =>
    \A c \in Callers :
      call[c] # "idle" ~> call[c] = "idle" \/ (m_Stopping /\ call[c] = "joinWait")

\* The pool implements TaskService: queue and flag are its own, a task runs
\* while it is in a hand, and a future has the result once it is settled.
Service == INSTANCE TaskService WITH
  Tasks <- Tasks, Users <- Callers, Capacity <- Cardinality(Workers),
  queue <- m_Tasks,
  held <- {arg[c] : c \in Callers} \ {NoTask},
  running <- {hand[w] : w \in Workers} \ {NoTask},
  result <- [t \in Tasks |-> IF future[t] \in Settled THEN future[t] ELSE "none"],
  joining <- {c \in Callers : call[c] \in {"joinLock", "joinWait"}},
  stopped <- m_Stopping

\* To a user who sees only tasks, results and calls, the pool behaves as the
\* service: first in first out, one result each, nothing started after a stop,
\* and no Join that returns while a task is queued or runs.
ImplementsService == Service!Spec
=============================================================================
