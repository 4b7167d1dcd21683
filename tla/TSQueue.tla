------------------------------- MODULE TSQueue -------------------------------
(***************************************************************************)
(* MBUtility::TSQueue (TSQueue.h): a queue whose consumers block, with or  *)
(* without a time limit, until a value is there.                           *)
(*                                                                         *)
(* A critical section of m_DataMutex is one action.  wait_for computes a   *)
(* deadline, tests its predicate under the mutex, sleeps while it is       *)
(* false, and after each wakeup tests it again, for the last time if the   *)
(* deadline has passed.  The limit of the PopFront without a duration,     *)
(* 2^31-1 seconds, is taken as no limit.                                   *)
(***************************************************************************)
EXTENDS Naturals, Sequences, FiniteSets

CONSTANTS
  Consumers,  \* threads that call PopFront
  Timed,      \* those of them that pass a duration
  Values,
  NoValue,    \* what PopFront has for its caller when it returns false
  MaxLength   \* bound on the queue, for model checking

ASSUME ConsumersAssumption == IsFiniteSet(Consumers) /\ Timed \subseteq Consumers
ASSUME ValuesAssumption == NoValue \notin Values
ASSUME MaxLengthAssumption == MaxLength \in Nat

VARIABLES
  m_Data,     \* std::deque
  pc,         \* where each consumer is in PopFront
  late,       \* whether the deadline of its PopFront has passed
  out         \* OutValue of the last PopFront of each consumer

vars == <<m_Data, pc, late, out>>

\* "relock": awake after a sleep, and about to take the mutex again.
States == {"idle", "lock", "wait", "relock"}

Init ==
  /\ m_Data = <<>>
  /\ pc = [c \in Consumers |-> "idle"]
  /\ late = [c \in Consumers |-> FALSE]
  /\ out = [c \in Consumers |-> NoValue]

Sleeping == {c \in Consumers : pc[c] = "wait"}

\* m_DataConditional.notify_one()
Notify ==
  \/ Sleeping = {} /\ UNCHANGED pc
  \/ \E c \in Sleeping : pc' = [pc EXCEPT ![c] = "relock"]

\* Mutant of Emplace: it notifies only when the queue was empty.
EmplaceNotifyFirst(v) ==
  /\ Len(m_Data) < MaxLength
  /\ m_Data' = Append(m_Data, v)
  /\ IF m_Data = <<>> THEN Notify ELSE UNCHANGED pc
  /\ UNCHANGED <<late, out>>

\* Enqueue and Emplace: one section, with the notification in it.
Emplace(v) ==
  /\ Len(m_Data) < MaxLength
  /\ m_Data' = Append(m_Data, v)
  /\ Notify
  /\ UNCHANGED <<late, out>>

CallPopFront(c) ==
  /\ pc[c] = "idle"
  /\ pc' = [pc EXCEPT ![c] = "lock"]
  /\ late' = [late EXCEPT ![c] = FALSE]
  /\ out' = [out EXCEPT ![c] = NoValue]
  /\ UNCHANGED m_Data

InMutex(c) == pc[c] \in {"lock", "relock"}

\* Mutant of TimedOut: the result of the wait is not looked at.
NotTimedOut(c) == FALSE

\* A wakeup after the deadline was the last one.
TimedOut(c) == pc[c] = "relock" /\ late[c]

\* The predicate is false: sleep, which releases the mutex.
Wait(c) ==
  /\ InMutex(c) /\ m_Data = <<>> /\ ~TimedOut(c)
  /\ pc' = [pc EXCEPT ![c] = "wait"]
  /\ UNCHANGED <<m_Data, late, out>>

\* Mutant of PopValue: the value is moved out, its slot is not popped.
PopValueKept(c) ==
  /\ InMutex(c) /\ m_Data # <<>>
  /\ out' = [out EXCEPT ![c] = Head(m_Data)]
  /\ m_Data' = [m_Data EXCEPT ![1] = NoValue]
  /\ pc' = [pc EXCEPT ![c] = "idle"]
  /\ UNCHANGED late

PopValue(c) ==
  /\ InMutex(c) /\ m_Data # <<>>
  /\ out' = [out EXCEPT ![c] = Head(m_Data)]
  /\ m_Data' = Tail(m_Data)
  /\ pc' = [pc EXCEPT ![c] = "idle"]
  /\ UNCHANGED late

\* Mutant of PopNothing: wait_for without a predicate.
PopNothingWoken(c) ==
  /\ pc[c] = "relock" /\ m_Data = <<>>
  /\ pc' = [pc EXCEPT ![c] = "idle"]
  /\ UNCHANGED <<m_Data, late, out>>

\* PopFront returns false.
PopNothing(c) ==
  /\ TimedOut(c) /\ m_Data = <<>>
  /\ pc' = [pc EXCEPT ![c] = "idle"]
  /\ UNCHANGED <<m_Data, late, out>>

\* The deadline passes, at any moment of the call.
Deadline(c) ==
  /\ c \in Timed /\ pc[c] # "idle" /\ ~late[c]
  /\ late' = [late EXCEPT ![c] = TRUE]
  /\ UNCHANGED <<m_Data, pc, out>>

\* The deadline wakes a sleeper.
Expire(c) ==
  /\ pc[c] = "wait" /\ late[c]
  /\ pc' = [pc EXCEPT ![c] = "relock"]
  /\ UNCHANGED <<m_Data, late, out>>

Spurious(c) ==
  /\ pc[c] = "wait"
  /\ pc' = [pc EXCEPT ![c] = "relock"]
  /\ UNCHANGED <<m_Data, late, out>>

\* A consumer goes on with its PopFront.
Step(c) == Wait(c) \/ PopValue(c) \/ PopNothing(c) \/ Expire(c)

Next ==
  \/ \E v \in Values : Emplace(v)
  \/ \E c \in Consumers : CallPopFront(c) \/ Step(c) \/ Deadline(c) \/ Spurious(c)

Spec == Init /\ [][Next]_vars

\* A consumer that is not asleep gets the mutex in the end, and time goes on.
\* Nobody has to call, and nothing is assumed of spurious wakeups.
Fairness == \A c \in Consumers : WF_vars(Step(c)) /\ WF_vars(Deadline(c))

FairSpec == Spec /\ Fairness
-----------------------------------------------------------------------------
\* Every variable has its type.
TypeOK ==
  /\ m_Data \in Seq(Values)
  /\ pc \in [Consumers -> States]
  /\ late \in [Consumers -> BOOLEAN]
  /\ out \in [Consumers -> Values \cup {NoValue}]

\* While a consumer sleeps, every value in the queue has a consumer on its way
\* to it.  The value a consumer was woken for may be taken by one that never
\* slept, and a consumer may be woken for a value just as its time runs out.
OnTheirWay == {c \in Consumers : InMutex(c)}
NoLostWakeup == Sleeping # {} => Len(m_Data) <= Cardinality(OnTheirWay)

\* PopFront returns false only to a caller whose time has run out: a value that
\* another consumer took in the meantime sends the caller back to sleep.
FalseMeansTimeout ==
  [][\A c \in Consumers :
       pc[c] # "idle" /\ pc'[c] = "idle" /\ out'[c] = NoValue => late[c]]_vars

\* Every PopFront with a limit returns.
TimedReturns == \A c \in Timed : pc[c] # "idle" ~> pc[c] = "idle"
=============================================================================
