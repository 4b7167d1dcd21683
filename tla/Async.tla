-------------------------------- MODULE Async --------------------------------
(***************************************************************************)
(* MBUtility::Async (Async.h): an object whose member functions run, one   *)
(* after the other, on a thread of its own.  The thread is detached and    *)
(* shares the state with the handle: whoever lets go of it last destroys   *)
(* it, with the tasks still in it.                                         *)
(*                                                                         *)
(* A critical section of TaskMutex is one action; AddTask notifies inside  *)
(* its section.                                                            *)
(***************************************************************************)
EXTENDS Naturals, Sequences, FiniteSets

CONSTANTS
  Tasks,     \* the calls queued with AddTask, each at most once
  Throwing   \* those whose member function throws

ASSUME TasksAssumption == Throwing \subseteq Tasks

VARIABLES
  Stopping,
  Queue,      \* SharedState::Tasks
  pc,         \* where the thread is in p_TaskThread
  running,    \* the task it runs, as a set of at most one
  future,     \* what the std::future of each task holds
  owners,     \* who holds a shared_ptr to the state
  accepted    \* the tasks in the order AddTask queued them

vars == <<Stopping, Queue, pc, running, future, owners, accepted>>

\* "terminated": the whole program has ended.
States == {"top", "lock", "wait", "run", "ended", "terminated"}

Init ==
  /\ Stopping = FALSE /\ Queue = <<>> /\ accepted = <<>>
  /\ pc = "top" /\ running = {}
  /\ future = [t \in Tasks |-> "none"]
  /\ owners = {"handle", "thread"}

\* TaskAddedConditional.notify_one(); only the thread ever waits.
Notify == pc' = IF pc = "wait" THEN "lock" ELSE pc

Contains(seq, t) == \E i \in DOMAIN seq : seq[i] = t
-----------------------------------------------------------------------------
\* Mutant of AddTask: no notification.
AddTaskUnnotified(t) ==
  /\ ~Stopping /\ future[t] = "none"
  /\ Queue' = Append(Queue, t)
  /\ accepted' = Append(accepted, t)
  /\ future' = [future EXCEPT ![t] = "pending"]
  /\ UNCHANGED <<Stopping, pc, running, owners>>

\* The handle lives, so that the thread has not been told to stop.
AddTask(t) ==
  /\ ~Stopping /\ future[t] = "none"
  /\ Queue' = Append(Queue, t)
  /\ accepted' = Append(accepted, t)
  /\ future' = [future EXCEPT ![t] = "pending"]
  /\ Notify
  /\ UNCHANGED <<Stopping, running, owners>>

\* Mutant of Destroy: the thread is told to stop and not woken.
DestroySilent ==
  /\ ~Stopping
  /\ Stopping' = TRUE
  /\ UNCHANGED <<Queue, pc, running, future, owners, accepted>>

\* The body of ~Async: stop, notify, detach.
Destroy ==
  /\ ~Stopping
  /\ Stopping' = TRUE
  /\ Notify
  /\ UNCHANGED <<Queue, running, future, owners, accepted>>

\* The futures once the tasks left in the queue are destroyed.
BreakQueued ==
  [t \in Tasks |-> IF Contains(Queue, t) THEN "broken" ELSE future[t]]

\* Mutant of LetGo: the thread does not share the state.
LetGoUnshared(owner) ==
  /\ owners' = {}
  /\ future' = BreakQueued /\ Queue' = <<>>

\* An owner lets go of the state; the last one destroys it, with its queue.
LetGo(owner) ==
  /\ owners' = owners \ {owner}
  /\ IF owners = {owner}
     THEN future' = BreakQueued /\ Queue' = <<>>
     ELSE UNCHANGED <<future, Queue>>

\* m_State goes after the destructor's body.
Release ==
  /\ Stopping /\ "handle" \in owners
  /\ LetGo("handle")
  /\ UNCHANGED <<Stopping, pc, running, accepted>>
-----------------------------------------------------------------------------
\* The loop test, without the mutex.
Top ==
  /\ pc = "top"
  /\ IF Stopping THEN pc' = "ended" /\ LetGo("thread")
                 ELSE pc' = "lock" /\ UNCHANGED <<Queue, future, owners>>
  /\ UNCHANGED <<Stopping, running, accepted>>

Wait ==
  /\ pc = "lock" /\ ~Stopping /\ Queue = <<>>
  /\ pc' = "wait"
  /\ UNCHANGED <<Stopping, Queue, running, future, owners, accepted>>

Spurious ==
  /\ pc = "wait"
  /\ pc' = "lock"
  /\ UNCHANGED <<Stopping, Queue, running, future, owners, accepted>>

\* break, with tasks perhaps still in the queue; the thread ends.
Quit ==
  /\ pc = "lock" /\ Stopping
  /\ pc' = "ended"
  /\ LetGo("thread")
  /\ UNCHANGED <<Stopping, running, accepted>>

\* Mutant of Take: the newest task first.
TakeNewest ==
  /\ pc = "lock" /\ ~Stopping /\ Queue # <<>>
  /\ running' = {Queue[Len(Queue)]}
  /\ Queue' = SubSeq(Queue, 1, Len(Queue) - 1)
  /\ pc' = "run"
  /\ UNCHANGED <<Stopping, future, owners, accepted>>

Take ==
  /\ pc = "lock" /\ ~Stopping /\ Queue # <<>>
  /\ running' = {Head(Queue)}
  /\ Queue' = Tail(Queue)
  /\ pc' = "run"
  /\ UNCHANGED <<Stopping, future, owners, accepted>>

\* Mutant of Run: the thread keeps the task it has run.
RunKept(t) ==
  /\ pc = "run" /\ t \in running
  /\ pc' = "top"
  /\ future' = [future EXCEPT ![t] = "value"]
  /\ UNCHANGED <<Stopping, Queue, running, owners, accepted>>

\* Task(State->Object).  Nobody catches what the member function throws.
Run(t) ==
  /\ pc = "run" /\ t \in running
  /\ \/ /\ t \in Throwing
        /\ pc' = "terminated"
        /\ UNCHANGED <<running, future>>
     \/ /\ t \notin Throwing
        /\ running' = {}
        /\ pc' = "top"
        /\ future' = [future EXCEPT ![t] = "value"]
  /\ UNCHANGED <<Stopping, Queue, owners, accepted>>

ThreadStep == Top \/ Wait \/ Quit \/ Take \/ \E t \in Tasks : Run(t)

Next ==
  /\ pc # "terminated"
  /\ \/ \E t \in Tasks : AddTask(t)
     \/ Destroy \/ Release \/ ThreadStep \/ Spurious

Spec == Init /\ [][Next]_vars

\* The thread goes on whenever it can, every task returns, and a destructor that
\* has begun ends.
Fairness == WF_vars(ThreadStep) /\ WF_vars(Release)

FairSpec == Spec /\ Fairness
-----------------------------------------------------------------------------
\* Every variable has its type; the thread runs one task at a time.
TypeOK ==
  /\ Stopping \in BOOLEAN /\ Queue \in Seq(Tasks) /\ accepted \in Seq(Tasks)
  /\ pc \in States
  /\ running \in SUBSET Tasks /\ (pc \in {"run", "terminated"} <=> running # {})
  /\ future \in [Tasks -> {"none", "pending", "value", "broken"}]
  /\ owners \subseteq {"handle", "thread"}

\* Calls take effect in the order they were queued: no task has a result while
\* one queued before it is still pending.
InOrder ==
  \A i, j \in DOMAIN accepted :
    i < j /\ future[accepted[j]] = "value" => future[accepted[i]] = "value"

\* The state outlives its users: the thread runs no task on a destroyed object,
\* and exactly the tasks queued or running, in a state somebody still owns, are
\* pending.  Handle and thread let go in either order, tasks left or not.
StateOutlives ==
  /\ pc \in {"top", "lock", "wait", "run"} => "thread" \in owners
  /\ \A t \in Tasks :
       future[t] = "pending" <=> owners # {} /\ (Contains(Queue, t) \/ t \in running)

\* Every call is answered while the handle lives, unless one of them throws.
TasksAnswered ==
  \A t \in Tasks :
    future[t] = "pending" ~> future[t] # "pending" \/ Stopping \/ pc = "terminated"

\* Once the handle is being destroyed, thread and handle let go of the state in
\* the end and every future is settled, although nobody joins the thread.
DestroySettles ==
  Stopping ~> \/ owners = {} /\ \A t \in Tasks : future[t] # "pending"
              \/ pc = "terminated"
=============================================================================
