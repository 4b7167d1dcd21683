------------------------------- MODULE Future -------------------------------
(***************************************************************************)
(* MBUtility::Promise and MBUtility::Future (Future.h): one promise, the   *)
(* threads that wait for its value, and the callbacks registered with Then *)
(* and OnError.                                                            *)
(*                                                                         *)
(* ValueSet and ValueNotPossible are atomics that Wait, ValueAvailable and *)
(* ~Promise read without the mutex, so a section that stores one of them   *)
(* is two actions: up to the store, and the rest.  Every other section of  *)
(* ValueMutex is one action, possible while nobody is inside a section.    *)
(*                                                                         *)
(* WaitContext is left out: its m_State is never given a value, so that    *)
(* MultiWaiter stays null and Notify is the notify_one alone.              *)
(***************************************************************************)
EXTENDS Naturals, FiniteSets

CONSTANTS
  Waiters,      \* threads that call Get, GetRef, Wait or WaitFor
  Operation,    \* the operation of each: "Get", "Wait" or "WaitFor"
  Listeners,    \* threads that call Then
  ErrListeners, \* threads that call OnError
  Nobody,       \* no listener
  MaxCalls      \* bound on the calls of SetValue and SetInvalid by hand

ASSUME WaitersAssumption ==
  IsFiniteSet(Waiters) /\ Operation \in [Waiters -> {"Get", "Wait", "WaitFor"}]
ASSUME ListenersAssumption ==
  Nobody \notin Listeners \cup ErrListeners /\ Listeners \cap ErrListeners = {}
ASSUME PromiseAssumption == MaxCalls \in Nat

VARIABLES
  ValueSet, ValueNotPossible,  \* the atomics
  Assigned,      \* whether Value has been assigned
  ThenFunc,      \* whose callback ThenFunc is
  OnErrorFunc,   \* whose callback OnError is
  calls,         \* how often each listener's callback has run
  promise,       \* where the promise's thread is
  sets,          \* the calls of SetValue it has made
  invalids,      \* the calls of SetInvalid it has made, by hand
  pc,            \* where each waiter is
  result         \* how each waiter's Get ended

vars == <<ValueSet, ValueNotPossible, Assigned, ThenFunc, OnErrorFunc, calls,
          promise, sets, invalids, pc, result>>

AllListeners == Listeners \cup ErrListeners
Shared == <<ValueSet, ValueNotPossible, Assigned>>
made == <<sets, invalids>>
Callbacks == <<ThenFunc, OnErrorFunc, calls>>
WaiterStates == {"idle", "poll", "lock", "asleep", "relock", "get", "done"}
\* "setting", "failing" and "dying": inside a section, after its store.
PromiseStates == {"open", "setting", "failing", "destroying", "dying", "gone"}

Init ==
  /\ ValueSet = FALSE /\ ValueNotPossible = FALSE /\ Assigned = FALSE
  /\ ThenFunc = Nobody /\ OnErrorFunc = Nobody
  /\ calls = [l \in AllListeners |-> 0]
  /\ promise = "open" /\ sets = 0 /\ invalids = 0
  /\ pc = [w \in Waiters |-> "idle"]
  /\ result = [w \in Waiters |-> "none"]

\* Only the promise's thread is ever inside a section between two actions.
MutexFree == promise \notin {"setting", "failing", "dying"}
Decided == ValueSet \/ ValueNotPossible
Asleep == {w \in Waiters : pc[w] = "asleep"}

\* Mutant of Notify: nobody is woken.
NotifyNobody == UNCHANGED pc

\* SharedFutureState::Notify, ValueSetConditional.notify_one()
Notify ==
  \/ Asleep = {} /\ UNCHANGED pc
  \/ \E w \in Asleep : pc' = [pc EXCEPT ![w] = "relock"]

\* A callback runs, in the thread and inside the section of the caller.
Called(l) == [calls EXCEPT ![l] = @ + 1]
-----------------------------------------------------------------------------
(* Promise                                                                 *)

BeginSetValue ==
  /\ promise = "open" /\ sets + invalids < MaxCalls
  /\ ValueSet' = TRUE
  /\ promise' = "setting" /\ sets' = sets + 1
  /\ UNCHANGED <<invalids, ValueNotPossible, Assigned, Callbacks, pc, result>>

EndSetValue ==
  /\ promise = "setting"
  /\ Assigned' = TRUE
  /\ Notify
  /\ calls' = IF ThenFunc = Nobody THEN calls ELSE Called(ThenFunc)
  /\ promise' = "open"
  /\ UNCHANGED <<ValueSet, ValueNotPossible, ThenFunc, OnErrorFunc, made, result>>

BeginSetInvalid ==
  /\ promise = "open" /\ sets + invalids < MaxCalls
  /\ ValueNotPossible' = TRUE
  /\ promise' = "failing" /\ invalids' = invalids + 1
  /\ UNCHANGED <<sets, ValueSet, Assigned, Callbacks, pc, result>>

\* Mutant of BeginDestroy: the destructor does not look at ValueSet.
BeginDestroyAlways ==
  /\ promise = "open"
  /\ promise' = "destroying"
  /\ UNCHANGED <<Shared, Callbacks, made, pc, result>>

\* ~Promise reads ValueSet without the mutex.
BeginDestroy ==
  /\ promise = "open"
  /\ promise' = IF ValueSet THEN "gone" ELSE "destroying"
  /\ UNCHANGED <<Shared, Callbacks, made, pc, result>>

\* The SetInvalid of ~Promise.
DestroySetInvalid ==
  /\ promise = "destroying"
  /\ ValueNotPossible' = TRUE
  /\ promise' = "dying"
  /\ UNCHANGED <<ValueSet, Assigned, Callbacks, made, pc, result>>

EndSetInvalid ==
  /\ promise \in {"failing", "dying"}
  /\ Notify
  /\ calls' = IF OnErrorFunc = Nobody THEN calls ELSE Called(OnErrorFunc)
  /\ promise' = IF promise = "dying" THEN "gone" ELSE "open"
  /\ UNCHANGED <<Shared, ThenFunc, OnErrorFunc, made, result>>
-----------------------------------------------------------------------------
(* Future                                                                  *)

\* Wait and Get begin with Wait's loop test, WaitFor with the mutex.
Call(w) ==
  /\ pc[w] = "idle"
  /\ pc' = [pc EXCEPT ![w] = IF Operation[w] = "WaitFor" THEN "lock" ELSE "poll"]
  /\ UNCHANGED <<Shared, Callbacks, promise, made, result>>

\* The loop test of Wait, without the mutex.
Poll(w) ==
  /\ pc[w] = "poll"
  /\ pc' = [pc EXCEPT ![w] =
              IF ~Decided THEN "lock" ELSE IF Operation[w] = "Get" THEN "get" ELSE "done"]
  /\ UNCHANGED <<Shared, Callbacks, promise, made, result>>

\* Mutant of Waited: Get waits once, without Wait's loop.
WaitedOnce(w) == IF Operation[w] = "Get" THEN "get" ELSE "done"

\* After WaitFor: the loop of Wait goes on, a call of WaitFor is over.
Waited(w) == IF Operation[w] = "WaitFor" THEN "done" ELSE "poll"

\* Mutant of WaitFor: it does not look at the flags under the mutex.
WaitForUnchecked(w) ==
  /\ pc[w] = "lock" /\ MutexFree
  /\ pc' = [pc EXCEPT ![w] = "asleep"]
  /\ UNCHANGED <<Shared, Callbacks, promise, made, result>>

\* The section of WaitFor up to the sleep, which releases the mutex.
WaitFor(w) ==
  /\ pc[w] = "lock" /\ MutexFree
  /\ pc' = [pc EXCEPT ![w] = IF Decided THEN Waited(w) ELSE "asleep"]
  /\ UNCHANGED <<Shared, Callbacks, promise, made, result>>

\* The rest of WaitFor after a wakeup: no predicate is tested.
Relock(w) ==
  /\ pc[w] = "relock" /\ MutexFree
  /\ pc' = [pc EXCEPT ![w] = Waited(w)]
  /\ UNCHANGED <<Shared, Callbacks, promise, made, result>>

\* The duration of a WaitFor runs out; Wait's, 2^31-1 seconds, never does.
Timeout(w) ==
  /\ pc[w] = "asleep" /\ Operation[w] = "WaitFor"
  /\ pc' = [pc EXCEPT ![w] = "relock"]
  /\ UNCHANGED <<Shared, Callbacks, promise, made, result>>

Spurious(w) ==
  /\ pc[w] = "asleep"
  /\ pc' = [pc EXCEPT ![w] = "relock"]
  /\ UNCHANGED <<Shared, Callbacks, promise, made, result>>

\* What Get does inside its section: it copies Value, or throws.
GetResult == IF ~ValueSet THEN "throws" ELSE IF Assigned THEN "value" ELSE "unassigned"

\* Mutant of Get: the mutex is not taken after Wait.
GetUnlocked(w) ==
  /\ pc[w] = "get"
  /\ result' = [result EXCEPT ![w] = GetResult]
  /\ pc' = [pc EXCEPT ![w] = "done"]
  /\ UNCHANGED <<Shared, Callbacks, promise, made>>

\* The section of Get and GetRef.
Get(w) ==
  /\ pc[w] = "get" /\ MutexFree
  /\ result' = [result EXCEPT ![w] = GetResult]
  /\ pc' = [pc EXCEPT ![w] = "done"]
  /\ UNCHANGED <<Shared, Callbacks, promise, made>>

\* A thread registers its callback once.
Unregistered(l) == calls[l] = 0 /\ l \notin {ThenFunc, OnErrorFunc}

\* Mutant of Then: it only ever registers.
ThenStored(l) ==
  /\ MutexFree /\ Unregistered(l)
  /\ ThenFunc' = l
  /\ UNCHANGED <<Shared, OnErrorFunc, calls, promise, made, pc, result>>

\* Then: call at once, or take the place of the callback registered before.
Then(l) ==
  /\ MutexFree /\ Unregistered(l)
  /\ IF ValueSet THEN calls' = Called(l) /\ UNCHANGED ThenFunc
                 ELSE ThenFunc' = l /\ UNCHANGED calls
  /\ UNCHANGED <<Shared, OnErrorFunc, promise, made, pc, result>>

\* Mutant of OnError: it takes the slot of Then.
OnErrorInThen(l) ==
  /\ MutexFree /\ Unregistered(l)
  /\ ThenFunc' = l
  /\ UNCHANGED <<Shared, OnErrorFunc, calls, promise, made, pc, result>>

OnError(l) ==
  /\ MutexFree /\ Unregistered(l)
  /\ IF ValueNotPossible THEN calls' = Called(l) /\ UNCHANGED OnErrorFunc
                         ELSE OnErrorFunc' = l /\ UNCHANGED calls
  /\ UNCHANGED <<Shared, ThenFunc, promise, made, pc, result>>
-----------------------------------------------------------------------------
\* The promise's thread inside a call.
PromiseStep == EndSetValue \/ DestroySetInvalid \/ EndSetInvalid

\* A waiter inside a call.
WaiterStep(w) == Poll(w) \/ WaitFor(w) \/ Relock(w) \/ Timeout(w) \/ Get(w)

Next ==
  \/ BeginSetValue \/ BeginSetInvalid \/ BeginDestroy \/ PromiseStep
  \/ \E w \in Waiters : Call(w) \/ WaiterStep(w) \/ Spurious(w)
  \/ \E l \in Listeners : Then(l)
  \/ \E l \in ErrListeners : OnError(l)

Spec == Init /\ [][Next]_vars

\* Threads inside a call go on, and the promise is destroyed in the end, as
\* every object of a terminating scope is.  Nobody has to call anything else.
Fairness ==
  /\ WF_vars(PromiseStep) /\ WF_vars(BeginDestroy)
  /\ \A w \in Waiters : WF_vars(WaiterStep(w))

FairSpec == Spec /\ Fairness
-----------------------------------------------------------------------------
\* Every variable has its type.
TypeOK ==
  /\ ValueSet \in BOOLEAN /\ ValueNotPossible \in BOOLEAN /\ Assigned \in BOOLEAN
  /\ ThenFunc \in Listeners \cup {Nobody}
  /\ OnErrorFunc \in ErrListeners \cup {Nobody}
  /\ calls \in [AllListeners -> Nat]
  /\ promise \in PromiseStates
  /\ sets \in Nat /\ invalids \in Nat /\ sets + invalids <= MaxCalls
  /\ pc \in [Waiters -> WaiterStates]
  /\ result \in [Waiters -> {"none", "value", "throws", "unassigned"}]

\* Get never returns a Value that has not been assigned, although Wait may see
\* ValueSet before the assignment.
GetSeesValue == \A w \in Waiters : result[w] # "unassigned"

\* A promise that was only ever set, or never, has waiters that agree: none
\* throws while another has the value.
WaitersAgree ==
  sets = 0 \/ invalids = 0 =>
    \A v, w \in Waiters : result[v] = "value" => result[w] # "throws"

\* The callback of a Then runs when the value is there, if no other Then took
\* its place: registered before or after SetValue, it has run once (outside of
\* sections, for a promise set at most once).
ThenOnce ==
  sets <= 1 =>
    /\ \A l \in Listeners : calls[l] <= 1
    /\ MutexFree /\ ValueSet /\ ThenFunc # Nobody => calls[ThenFunc] = 1

\* The same for OnError and a promise that nobody has invalidated by hand; once
\* the value is set, no error callback runs.
OnErrorOnce ==
  invalids = 0 =>
    \A l \in ErrListeners :
      /\ calls[l] <= 1
      /\ ValueSet => calls[l] = 0
      /\ promise = "gone" /\ OnErrorFunc = l /\ ~ValueSet => calls[l] = 1

\* Whatever callbacks race with the promise, each runs once, in its case.
CallbacksOnce == ThenOnce /\ OnErrorOnce

\* No other waiter has made its call.
Alone(w) == \A v \in Waiters \ {w} : pc[v] = "idle"

\* notify_one is enough for one waiter: if it sleeps when the promise is
\* decided, the notification is still to come.
WaiterNotForgotten == \A w \in Asleep : Decided /\ Alone(w) => ~MutexFree

\* Every Get and Wait returns, unless there is another waiter.
WaiterReturns == \A w \in Waiters : pc[w] # "idle" ~> pc[w] = "done" \/ ~Alone(w)
=============================================================================
