---------------------------- MODULE FutureProofs ----------------------------
(***************************************************************************)
(* Safety of Promise and Future for any set of waiters and listeners.      *)
(***************************************************************************)
EXTENDS Future, FiniteSetTheorems, TLAPS

ByDestructorOnly == invalids = 0

\* The value is missing only while SetValue is inside its section; a waiter
\* that is past Wait has seen one of the flags; a result agrees with them.
Flags ==
  /\ ValueSet /\ ~Assigned => promise = "setting"
  /\ promise = "setting" => ValueSet
  /\ promise \in {"destroying", "dying"} => ~ValueSet
  /\ \A w \in Waiters :
       /\ pc[w] = "get" => Decided
       /\ result[w] = "value" => ValueSet
       /\ result[w] = "throws" => ValueNotPossible

\* Without SetInvalid by hand, the destructor's is the only failure.
Failure ==
  ByDestructorOnly =>
    /\ promise # "failing"
    /\ ValueNotPossible => ~ValueSet /\ promise \in {"dying", "gone"}
    /\ promise = "dying" => ValueNotPossible
    /\ promise = "gone" => ValueSet \/ ValueNotPossible

\* Which callbacks have run, at each stage of a promise set at most once.
ThenStages ==
  /\ sets = 0 => ~ValueSet
  /\ sets <= 1 =>
    /\ ~ValueSet \/ promise = "setting" => \A l \in Listeners : calls[l] = 0
    /\ ValueSet /\ promise # "setting" /\ ThenFunc # Nobody => calls[ThenFunc] = 1

\* Which error callbacks have run, at each stage of a promise that only its
\* destructor invalidates.
ErrorStages ==
  ByDestructorOnly =>
    \A l \in ErrListeners :
      /\ promise # "gone" \/ ValueSet => calls[l] = 0
      /\ promise = "gone" /\ ~ValueSet /\ OnErrorFunc = l => calls[l] = 1

IInv == /\ TypeOK /\ Flags /\ GetSeesValue /\ Failure
        /\ ThenStages /\ ThenOnce /\ ErrorStages /\ OnErrorOnce

\* The initial state satisfies the invariant.
LEMMA InitInv == Init => IInv
<1> SUFFICES ASSUME Init PROVE IInv
  OBVIOUS
<1>1. TypeOK
  <2>1. sets \in Nat /\ invalids \in Nat /\ sets + invalids <= MaxCalls
    BY PromiseAssumption DEF Init
  <2>2. QED
    BY <2>1 DEF Init, TypeOK, PromiseStates, WaiterStates
<1>2. Flags /\ GetSeesValue /\ Failure
  BY DEF Init, Flags, GetSeesValue, Failure
<1>3. ThenStages /\ ThenOnce /\ ErrorStages /\ OnErrorOnce
  BY DEF Init, ThenStages, ThenOnce, ErrorStages, OnErrorOnce, AllListeners
<1>4. QED
  BY <1>1, <1>2, <1>3 DEF IInv

\* A notification changes no more than one sleeper's program counter.
LEMMA NotifyType ==
  ASSUME TypeOK, Notify
  PROVE  /\ pc' \in [Waiters -> WaiterStates]
         /\ \A w \in Waiters : pc'[w] = "get" => pc[w] = "get"
BY DEF TypeOK, Notify, Asleep, WaiterStates

\* A callback that runs counts once more for its listener, and nothing else.
LEMMA CalledType ==
  ASSUME TypeOK, NEW l \in AllListeners
  PROVE  /\ Called(l) \in [AllListeners -> Nat]
         /\ Called(l)[l] = calls[l] + 1
         /\ \A k \in AllListeners \ {l} : Called(l)[k] = calls[k]
BY DEF TypeOK, Called


\* Every operation keeps the types.
LEMMA TypeStep == IInv /\ [Next]_vars => TypeOK'
<1> SUFFICES ASSUME IInv, [Next]_vars PROVE TypeOK'
  OBVIOUS
<1> USE DEF IInv, made
<1>1. CASE BeginSetValue
  BY <1>1, PromiseAssumption DEF BeginSetValue, Shared, Callbacks, TypeOK, PromiseStates
<1>2. CASE EndSetValue
  <2>1. calls' \in [AllListeners -> Nat]
    BY <1>2, CalledType DEF EndSetValue, TypeOK, AllListeners
  <2>2. QED
    BY <1>2, <2>1, NotifyType DEF EndSetValue, TypeOK, PromiseStates
<1>3. CASE BeginSetInvalid
  BY <1>3, PromiseAssumption DEF BeginSetInvalid, Shared, Callbacks, TypeOK, PromiseStates
<1>4. CASE BeginDestroy
  BY <1>4 DEF BeginDestroy, Shared, Callbacks, Waited, TypeOK, PromiseStates, WaiterStates
<1>5. CASE DestroySetInvalid
  BY <1>5 DEF DestroySetInvalid, Shared, Callbacks, Waited, TypeOK, PromiseStates, WaiterStates
<1>6. CASE EndSetInvalid
  <2>1. calls' \in [AllListeners -> Nat]
    BY <1>6, CalledType DEF EndSetInvalid, TypeOK, AllListeners
  <2>2. QED
    BY <1>6, <2>1, NotifyType DEF EndSetInvalid, Shared, TypeOK, PromiseStates
<1>7. ASSUME NEW w \in Waiters, Call(w) PROVE TypeOK'
  BY <1>7 DEF Call, Shared, Callbacks, Waited, TypeOK, PromiseStates, WaiterStates
<1>8. ASSUME NEW w \in Waiters, Poll(w) PROVE TypeOK'
  BY <1>8 DEF Poll, Shared, Callbacks, Waited, TypeOK, PromiseStates, WaiterStates
<1>9. ASSUME NEW w \in Waiters, WaitFor(w) PROVE TypeOK'
  BY <1>9 DEF WaitFor, Shared, Callbacks, Waited, TypeOK, PromiseStates, WaiterStates
<1>10. ASSUME NEW w \in Waiters, Relock(w) PROVE TypeOK'
  BY <1>10 DEF Relock, Shared, Callbacks, Waited, TypeOK, PromiseStates, WaiterStates
<1>11. ASSUME NEW w \in Waiters, Timeout(w) PROVE TypeOK'
  BY <1>11 DEF Timeout, Shared, Callbacks, Waited, TypeOK, PromiseStates, WaiterStates
<1>12. ASSUME NEW w \in Waiters, Get(w) PROVE TypeOK'
  BY <1>12 DEF Get, GetResult, Shared, Callbacks, TypeOK, WaiterStates
<1>13. ASSUME NEW w \in Waiters, Spurious(w) PROVE TypeOK'
  BY <1>13 DEF Spurious, Shared, Callbacks, Waited, TypeOK, PromiseStates, WaiterStates
<1>14. ASSUME NEW l \in Listeners, Then(l) PROVE TypeOK'
  <2>1. calls' \in [AllListeners -> Nat]
    BY <1>14, CalledType DEF Then, TypeOK, AllListeners
  <2>2. QED
    BY <1>14, <2>1 DEF Then, Shared, TypeOK
<1>15. ASSUME NEW l \in ErrListeners, OnError(l) PROVE TypeOK'
  <2>1. calls' \in [AllListeners -> Nat]
    BY <1>15, CalledType DEF OnError, TypeOK, AllListeners
  <2>2. QED
    BY <1>15, <2>1 DEF OnError, Shared, TypeOK
<1>16. CASE UNCHANGED vars
  BY <1>16 DEF vars, TypeOK
<1>17. QED
  BY <1>1, <1>2, <1>3, <1>4, <1>5, <1>6, <1>7, <1>8,
     <1>9, <1>10, <1>11, <1>12, <1>13, <1>14, <1>15, <1>16
  DEF Next, PromiseStep, WaiterStep

\* The flags are only ever raised, and Get looks at them under the mutex.
LEMMA FlagsStep == IInv /\ [Next]_vars => Flags' /\ GetSeesValue'
<1> SUFFICES ASSUME IInv, [Next]_vars PROVE Flags' /\ GetSeesValue'
  OBVIOUS
<1> USE DEF IInv, made
<1>1. CASE BeginSetValue
  BY <1>1 DEF BeginSetValue, Shared, Waited, Decided, TypeOK, Flags, GetSeesValue
<1>2. CASE EndSetValue
  BY <1>2, NotifyType DEF EndSetValue, Decided, Flags, GetSeesValue
<1>3. CASE BeginSetInvalid
  BY <1>3 DEF BeginSetInvalid, Shared, Waited, Decided, TypeOK, Flags, GetSeesValue
<1>4. CASE BeginDestroy
  BY <1>4 DEF BeginDestroy, Shared, Waited, Decided, TypeOK, Flags, GetSeesValue
<1>5. CASE DestroySetInvalid
  BY <1>5 DEF DestroySetInvalid, Shared, Waited, Decided, TypeOK, Flags, GetSeesValue
<1>6. CASE EndSetInvalid
  BY <1>6, NotifyType DEF EndSetInvalid, Shared, Decided, Flags, GetSeesValue
<1>7. ASSUME NEW w \in Waiters, Call(w) PROVE Flags' /\ GetSeesValue'
  BY <1>7 DEF Call, Shared, Waited, Decided, TypeOK, Flags, GetSeesValue
<1>8. ASSUME NEW w \in Waiters, Poll(w) PROVE Flags' /\ GetSeesValue'
  BY <1>8 DEF Poll, Shared, Waited, Decided, TypeOK, Flags, GetSeesValue
<1>9. ASSUME NEW w \in Waiters, WaitFor(w) PROVE Flags' /\ GetSeesValue'
  BY <1>9 DEF WaitFor, Shared, Waited, Decided, TypeOK, Flags, GetSeesValue
<1>10. ASSUME NEW w \in Waiters, Relock(w) PROVE Flags' /\ GetSeesValue'
  BY <1>10 DEF Relock, Shared, Waited, Decided, TypeOK, Flags, GetSeesValue
<1>11. ASSUME NEW w \in Waiters, Timeout(w) PROVE Flags' /\ GetSeesValue'
  BY <1>11 DEF Timeout, Shared, Waited, Decided, TypeOK, Flags, GetSeesValue
<1>12. ASSUME NEW w \in Waiters, Get(w) PROVE Flags' /\ GetSeesValue'
  BY <1>12 DEF Get, GetResult, MutexFree, Shared, Decided, TypeOK, Flags, GetSeesValue
<1>13. ASSUME NEW w \in Waiters, Spurious(w) PROVE Flags' /\ GetSeesValue'
  BY <1>13 DEF Spurious, Shared, Waited, Decided, TypeOK, Flags, GetSeesValue
<1>14. ASSUME NEW l \in Listeners, Then(l) PROVE Flags' /\ GetSeesValue'
  BY <1>14 DEF Then, Shared, Waited, Decided, TypeOK, Flags, GetSeesValue
<1>15. ASSUME NEW l \in ErrListeners, OnError(l) PROVE Flags' /\ GetSeesValue'
  BY <1>15 DEF OnError, Shared, Waited, Decided, TypeOK, Flags, GetSeesValue
<1>16. CASE UNCHANGED vars
  BY <1>16 DEF vars, Decided, Flags, GetSeesValue
<1>17. QED
  BY <1>1, <1>2, <1>3, <1>4, <1>5, <1>6, <1>7, <1>8,
     <1>9, <1>10, <1>11, <1>12, <1>13, <1>14, <1>15, <1>16
  DEF Next, PromiseStep, WaiterStep

\* Only the destructor fails a promise that nobody invalidates by hand.
LEMMA FailureStep == IInv /\ [Next]_vars => Failure'
<1> SUFFICES ASSUME IInv, [Next]_vars PROVE Failure'
  OBVIOUS
<1> USE DEF IInv, made
<1>1. CASE BeginSetValue
  BY <1>1 DEF BeginSetValue, Shared, Failure, ByDestructorOnly
<1>2. CASE EndSetValue
  BY <1>2 DEF EndSetValue, Shared, Failure, ByDestructorOnly
<1>3. CASE BeginSetInvalid
  <2>1. invalids' # 0
    BY <1>3 DEF BeginSetInvalid, TypeOK
  <2>2. QED
    BY <2>1 DEF Failure, ByDestructorOnly
<1>4. CASE BeginDestroy
  BY <1>4 DEF BeginDestroy, Shared, Failure, ByDestructorOnly
<1>5. CASE DestroySetInvalid
  BY <1>5 DEF DestroySetInvalid, Flags, Failure, ByDestructorOnly
<1>6. CASE EndSetInvalid
  BY <1>6 DEF EndSetInvalid, Shared, Failure, ByDestructorOnly
<1>7. ASSUME NEW w \in Waiters, Call(w) PROVE Failure'
  BY <1>7 DEF Call, Shared, Failure, ByDestructorOnly
<1>8. ASSUME NEW w \in Waiters, Poll(w) PROVE Failure'
  BY <1>8 DEF Poll, Shared, Failure, ByDestructorOnly
<1>9. ASSUME NEW w \in Waiters, WaitFor(w) PROVE Failure'
  BY <1>9 DEF WaitFor, Shared, Failure, ByDestructorOnly
<1>10. ASSUME NEW w \in Waiters, Relock(w) PROVE Failure'
  BY <1>10 DEF Relock, Shared, Failure, ByDestructorOnly
<1>11. ASSUME NEW w \in Waiters, Timeout(w) PROVE Failure'
  BY <1>11 DEF Timeout, Shared, Failure, ByDestructorOnly
<1>12. ASSUME NEW w \in Waiters, Get(w) PROVE Failure'
  BY <1>12 DEF Get, Shared, Failure, ByDestructorOnly
<1>13. ASSUME NEW w \in Waiters, Spurious(w) PROVE Failure'
  BY <1>13 DEF Spurious, Shared, Failure, ByDestructorOnly
<1>14. ASSUME NEW l \in Listeners, Then(l) PROVE Failure'
  BY <1>14 DEF Then, Shared, Failure, ByDestructorOnly
<1>15. ASSUME NEW l \in ErrListeners, OnError(l) PROVE Failure'
  BY <1>15 DEF OnError, Shared, Failure, ByDestructorOnly
<1>16. CASE UNCHANGED vars
  BY <1>16 DEF vars, Failure, ByDestructorOnly
<1>17. QED
  BY <1>1, <1>2, <1>3, <1>4, <1>5, <1>6, <1>7, <1>8,
     <1>9, <1>10, <1>11, <1>12, <1>13, <1>14, <1>15, <1>16
  DEF Next, PromiseStep, WaiterStep

\* A promise set at most once runs the registered callback when it is set, and
\* later ones when they are registered.
LEMMA ThenStep == IInv /\ [Next]_vars => ThenStages' /\ ThenOnce'
<1> SUFFICES ASSUME IInv, [Next]_vars PROVE ThenStages' /\ ThenOnce'
  OBVIOUS
<1> USE DEF IInv, made
<1>1. CASE BeginSetValue
  BY <1>1 DEF BeginSetValue, Shared, Callbacks, MutexFree, ThenStages, ThenOnce, TypeOK
<1>2. CASE EndSetValue
  <2>1. CASE sets <= 1
    <3>1. ValueSet /\ \A k \in Listeners : calls[k] = 0
      BY <1>2, <2>1 DEF EndSetValue, Flags, ThenStages
    <3>2. \A k \in Listeners : calls'[k] = IF k = ThenFunc THEN 1 ELSE 0
      BY <1>2, <3>1, CalledType, ListenersAssumption DEF EndSetValue, TypeOK, AllListeners
    <3>3. ThenFunc # Nobody => ThenFunc \in Listeners
      BY DEF TypeOK
    <3>4. QED
      BY <1>2, <2>1, <3>1, <3>2, <3>3 DEF EndSetValue, ThenStages, ThenOnce
  <2>2. CASE ~(sets <= 1)
    BY <1>2, <2>2 DEF EndSetValue, ThenStages, ThenOnce
  <2>3. QED
    BY <2>1, <2>2
<1>3. CASE BeginSetInvalid
  BY <1>3 DEF BeginSetInvalid, Shared, Callbacks, MutexFree, ThenStages, ThenOnce, TypeOK
<1>4. CASE BeginDestroy
  BY <1>4 DEF BeginDestroy, Shared, Callbacks, MutexFree, ThenStages, ThenOnce, TypeOK
<1>5. CASE DestroySetInvalid
  BY <1>5 DEF DestroySetInvalid, Shared, Callbacks, MutexFree, ThenStages, ThenOnce, TypeOK
<1>6. CASE EndSetInvalid
  <2>1. \A k \in Listeners : calls'[k] = calls[k]
    BY <1>6, CalledType, ListenersAssumption DEF EndSetInvalid, TypeOK, AllListeners
  <2>2. QED
    BY <1>6, <2>1 DEF EndSetInvalid, Shared, MutexFree, ThenStages, ThenOnce, TypeOK
<1>7. ASSUME NEW w \in Waiters, Call(w) PROVE ThenStages' /\ ThenOnce'
  BY <1>7 DEF Call, Shared, Callbacks, MutexFree, ThenStages, ThenOnce, TypeOK
<1>8. ASSUME NEW w \in Waiters, Poll(w) PROVE ThenStages' /\ ThenOnce'
  BY <1>8 DEF Poll, Shared, Callbacks, MutexFree, ThenStages, ThenOnce, TypeOK
<1>9. ASSUME NEW w \in Waiters, WaitFor(w) PROVE ThenStages' /\ ThenOnce'
  BY <1>9 DEF WaitFor, Shared, Callbacks, MutexFree, ThenStages, ThenOnce, TypeOK
<1>10. ASSUME NEW w \in Waiters, Relock(w) PROVE ThenStages' /\ ThenOnce'
  BY <1>10 DEF Relock, Shared, Callbacks, MutexFree, ThenStages, ThenOnce, TypeOK
<1>11. ASSUME NEW w \in Waiters, Timeout(w) PROVE ThenStages' /\ ThenOnce'
  BY <1>11 DEF Timeout, Shared, Callbacks, MutexFree, ThenStages, ThenOnce, TypeOK
<1>12. ASSUME NEW w \in Waiters, Get(w) PROVE ThenStages' /\ ThenOnce'
  BY <1>12 DEF Get, Shared, Callbacks, MutexFree, ThenStages, ThenOnce, TypeOK
<1>13. ASSUME NEW w \in Waiters, Spurious(w) PROVE ThenStages' /\ ThenOnce'
  BY <1>13 DEF Spurious, Shared, Callbacks, MutexFree, ThenStages, ThenOnce, TypeOK
<1>14. ASSUME NEW l \in Listeners, Then(l) PROVE ThenStages' /\ ThenOnce'
  <2>1. CASE ValueSet
    BY <1>14, <2>1, CalledType, ListenersAssumption
    DEF Then, Shared, MutexFree, Unregistered, ThenStages, ThenOnce, TypeOK, AllListeners
  <2>2. CASE ~ValueSet
    BY <1>14, <2>2 DEF Then, Shared, MutexFree, ThenStages, ThenOnce, TypeOK
  <2>3. QED
    BY <2>1, <2>2
<1>15. ASSUME NEW l \in ErrListeners, OnError(l) PROVE ThenStages' /\ ThenOnce'
  <2>1. \A k \in Listeners : calls'[k] = calls[k]
    BY <1>15, CalledType, ListenersAssumption DEF OnError, TypeOK, AllListeners
  <2>2. QED
    BY <1>15, <2>1 DEF OnError, Shared, MutexFree, ThenStages, ThenOnce, TypeOK
<1>16. CASE UNCHANGED vars
  BY <1>16 DEF vars, MutexFree, ThenStages, ThenOnce
<1>17. QED
  BY <1>1, <1>2, <1>3, <1>4, <1>5, <1>6, <1>7, <1>8,
     <1>9, <1>10, <1>11, <1>12, <1>13, <1>14, <1>15, <1>16
  DEF Next, PromiseStep, WaiterStep

\* A promise its destructor fails runs the registered error callback then, and
\* later ones when they are registered; no other promise runs any.
LEMMA ErrorStep == IInv /\ [Next]_vars => ErrorStages' /\ OnErrorOnce'
<1> SUFFICES ASSUME IInv, [Next]_vars PROVE ErrorStages' /\ OnErrorOnce'
  OBVIOUS
<1> USE DEF IInv, made
<1>1. CASE BeginSetValue
  BY <1>1 DEF BeginSetValue, Shared, Callbacks, Failure, Flags, ErrorStages, OnErrorOnce, ByDestructorOnly
<1>2. CASE EndSetValue
  <2>1. \A k \in ErrListeners : calls'[k] = calls[k]
    BY <1>2, CalledType, ListenersAssumption DEF EndSetValue, TypeOK, AllListeners
  <2>2. QED
    BY <1>2, <2>1 DEF EndSetValue, ErrorStages, OnErrorOnce, ByDestructorOnly
<1>3. CASE BeginSetInvalid
  <2>1. invalids' # 0
    BY <1>3 DEF BeginSetInvalid, TypeOK
  <2>2. QED
    BY <2>1 DEF ErrorStages, OnErrorOnce, ByDestructorOnly
<1>4. CASE BeginDestroy
  BY <1>4 DEF BeginDestroy, Shared, Callbacks, Failure, Flags, ErrorStages, OnErrorOnce, ByDestructorOnly
<1>5. CASE DestroySetInvalid
  BY <1>5 DEF DestroySetInvalid, Shared, Callbacks, Failure, Flags, ErrorStages, OnErrorOnce, ByDestructorOnly
<1>6. CASE EndSetInvalid
  <2>1. CASE ByDestructorOnly
    <3>1. promise = "dying" /\ ~ValueSet
      BY <1>6, <2>1 DEF EndSetInvalid, Failure, Flags
    <3>2. CASE OnErrorFunc = Nobody
      BY <1>6, <3>1, <3>2, ListenersAssumption
      DEF EndSetInvalid, Shared, ErrorStages, OnErrorOnce, ByDestructorOnly
    <3>3. CASE OnErrorFunc # Nobody
      <4>1. OnErrorFunc \in ErrListeners
        BY <3>3 DEF TypeOK
      <4>2. \A k \in ErrListeners : calls[k] = 0
        BY <2>1, <3>1 DEF ErrorStages
      <4>3. \A k \in ErrListeners : calls'[k] = IF k = OnErrorFunc THEN 1 ELSE 0
        BY <1>6, <3>3, <4>1, <4>2, CalledType DEF EndSetInvalid, AllListeners
      <4>4. QED
        BY <1>6, <2>1, <3>1, <4>3
        DEF EndSetInvalid, Shared, ErrorStages, OnErrorOnce, ByDestructorOnly
    <3>4. QED
      BY <3>2, <3>3
  <2>2. CASE ~ByDestructorOnly
    BY <1>6, <2>2 DEF EndSetInvalid, ErrorStages, OnErrorOnce, ByDestructorOnly
  <2>3. QED
    BY <2>1, <2>2
<1>7. ASSUME NEW w \in Waiters, Call(w) PROVE ErrorStages' /\ OnErrorOnce'
  BY <1>7 DEF Call, Shared, Callbacks, Failure, Flags, ErrorStages, OnErrorOnce, ByDestructorOnly
<1>8. ASSUME NEW w \in Waiters, Poll(w) PROVE ErrorStages' /\ OnErrorOnce'
  BY <1>8 DEF Poll, Shared, Callbacks, Failure, Flags, ErrorStages, OnErrorOnce, ByDestructorOnly
<1>9. ASSUME NEW w \in Waiters, WaitFor(w) PROVE ErrorStages' /\ OnErrorOnce'
  BY <1>9 DEF WaitFor, Shared, Callbacks, Failure, Flags, ErrorStages, OnErrorOnce, ByDestructorOnly
<1>10. ASSUME NEW w \in Waiters, Relock(w) PROVE ErrorStages' /\ OnErrorOnce'
  BY <1>10 DEF Relock, Shared, Callbacks, Failure, Flags, ErrorStages, OnErrorOnce, ByDestructorOnly
<1>11. ASSUME NEW w \in Waiters, Timeout(w) PROVE ErrorStages' /\ OnErrorOnce'
  BY <1>11 DEF Timeout, Shared, Callbacks, Failure, Flags, ErrorStages, OnErrorOnce, ByDestructorOnly
<1>12. ASSUME NEW w \in Waiters, Get(w) PROVE ErrorStages' /\ OnErrorOnce'
  BY <1>12 DEF Get, Shared, Callbacks, Failure, Flags, ErrorStages, OnErrorOnce, ByDestructorOnly
<1>13. ASSUME NEW w \in Waiters, Spurious(w) PROVE ErrorStages' /\ OnErrorOnce'
  BY <1>13 DEF Spurious, Shared, Callbacks, Failure, Flags, ErrorStages, OnErrorOnce, ByDestructorOnly
<1>14. ASSUME NEW l \in Listeners, Then(l) PROVE ErrorStages' /\ OnErrorOnce'
  <2>1. \A k \in ErrListeners : calls'[k] = calls[k]
    BY <1>14, CalledType, ListenersAssumption DEF Then, TypeOK, AllListeners
  <2>2. QED
    BY <1>14, <2>1 DEF Then, Shared, ErrorStages, OnErrorOnce, ByDestructorOnly
<1>15. ASSUME NEW l \in ErrListeners, OnError(l) PROVE ErrorStages' /\ OnErrorOnce'
  <2>1. CASE ValueNotPossible
    BY <1>15, <2>1, CalledType, ListenersAssumption
    DEF OnError, Shared, MutexFree, Unregistered, Failure, ErrorStages,
        OnErrorOnce, ByDestructorOnly, TypeOK, AllListeners
  <2>2. CASE ~ValueNotPossible
    BY <1>15, <2>2
    DEF OnError, Shared, Failure, ErrorStages, OnErrorOnce, ByDestructorOnly
  <2>3. QED
    BY <2>1, <2>2
<1>16. CASE UNCHANGED vars
  BY <1>16 DEF vars, ErrorStages, OnErrorOnce, ByDestructorOnly
<1>17. QED
  BY <1>1, <1>2, <1>3, <1>4, <1>5, <1>6, <1>7, <1>8,
     <1>9, <1>10, <1>11, <1>12, <1>13, <1>14, <1>15, <1>16
  DEF Next, PromiseStep, WaiterStep

-----------------------------------------------------------------------------
\* The invariant holds in every state of the promise.
LEMMA Invariance == Spec => []IInv
<1>1. IInv /\ [Next]_vars => IInv'
  BY TypeStep, FlagsStep, FailureStep, ThenStep, ErrorStep DEF IInv
<1>2. QED
  BY <1>1, InitInv, PTL DEF Spec

\* Every variable of promise, waiters and listeners always has its type.
THEOREM TypeCorrect == Spec => []TypeOK
BY Invariance, PTL DEF IInv

\* Get returns a value only after it was assigned, for any number of waiters
\* and whatever the promise's thread calls.
THEOREM GetReturnsAssigned == Spec => []GetSeesValue
BY Invariance, PTL DEF IInv

\* Unless both SetValue and SetInvalid are called, either no waiter gets the value or none throws.
THEOREM Agreement == Spec => []WaitersAgree
<1>1. IInv => WaitersAgree
  BY DEF IInv, Flags, Failure, ThenStages, WaitersAgree, ByDestructorOnly
<1>2. QED
  BY <1>1, Invariance, PTL

\* A callback of Then runs once, whether it is registered before or after the
\* value is set, unless another took its place.
THEOREM ThenRunsOnce == Spec => []ThenOnce
BY Invariance, PTL DEF IInv

\* A callback of OnError runs once if the promise is destroyed without a value,
\* and never if it has one.
THEOREM OnErrorRunsOnce == Spec => []OnErrorOnce
BY Invariance, PTL DEF IInv

\* Both: however Then and OnError race with SetValue, SetInvalid and the destructor.
THEOREM CallbacksRunOnce == Spec => []CallbacksOnce
<1>1. IInv => CallbacksOnce
  BY DEF IInv, CallbacksOnce
<1>2. QED
  BY <1>1, Invariance, PTL

\* A notification wakes a waiter that is alone.
LEMMA NotifyWakesAlone ==
  ASSUME TypeOK, Notify, NEW w \in Asleep', Alone(w)'
  PROVE  FALSE
<1>1. w \in Waiters /\ w \in Asleep
  BY DEF Asleep, Notify, TypeOK
<1>2. \A v \in Waiters \ {w} : v \notin Asleep
  BY <1>1 DEF Alone, Asleep, Notify, TypeOK
<1>3. QED
  BY <1>1, <1>2 DEF Notify, Asleep, TypeOK

\* A waiter falls asleep only outside the promise's sections and undecided.
LEMMA ForgottenStep == TypeOK /\ WaiterNotForgotten /\ [Next]_vars => WaiterNotForgotten'
<1> SUFFICES ASSUME TypeOK, WaiterNotForgotten, [Next]_vars,
                    NEW x \in Asleep', Decided', Alone(x)'
             PROVE  ~MutexFree'
  BY DEF WaiterNotForgotten
<1> USE DEF made
<1>1. CASE BeginSetValue \/ BeginSetInvalid \/ DestroySetInvalid
  BY <1>1 DEF BeginSetValue, BeginSetInvalid, DestroySetInvalid, MutexFree
<1>2. CASE EndSetValue \/ EndSetInvalid
  BY <1>2, NotifyWakesAlone DEF EndSetValue, EndSetInvalid
<1>3. CASE BeginDestroy
  BY <1>3 DEF BeginDestroy, Shared, MutexFree, Decided, Asleep, Alone, WaiterNotForgotten
<1>4. ASSUME NEW w \in Waiters, WaitFor(w), Decided
      PROVE  ~MutexFree'
  <2>1. x \in Asleep /\ x # w
    BY <1>4 DEF WaitFor, Waited, Asleep, TypeOK
  <2>2. pc'[w] # "idle"
    BY <1>4 DEF WaitFor, Waited, TypeOK
  <2>3. QED
    BY <1>4, <2>1, <2>2 DEF Alone
<1>5. ASSUME NEW w \in Waiters, WaitFor(w), ~Decided
      PROVE  ~MutexFree'
  BY <1>5 DEF WaitFor, Shared, Decided
<1>6. ASSUME NEW w \in Waiters,
             Call(w) \/ Poll(w) \/ Relock(w) \/ Timeout(w) \/ Get(w) \/ Spurious(w)
      PROVE  ~MutexFree'
  <2>1. x \in Asleep /\ x # w /\ x \in Waiters
    BY <1>6 DEF Call, Poll, Relock, Waited, Timeout, Get, Spurious, Asleep, TypeOK
  <2>2. pc'[w] # "idle"
    BY <1>6 DEF Call, Poll, Relock, Waited, Timeout, Get, Spurious, TypeOK
  <2>3. QED
    BY <2>1, <2>2 DEF Alone
<1>7. ASSUME NEW l, Then(l) \/ OnError(l)
      PROVE  ~MutexFree'
  BY <1>7 DEF Then, OnError, Shared, MutexFree, Decided, Asleep, Alone, WaiterNotForgotten
<1>8. CASE UNCHANGED vars
  BY <1>8 DEF vars, MutexFree, Decided, Asleep, Alone, WaiterNotForgotten
<1>9. QED
  BY <1>1, <1>2, <1>3, <1>4, <1>5, <1>6, <1>7, <1>8 DEF Next, PromiseStep, WaiterStep

\* Notify, which wakes one thread, is enough for a waiter that is alone: it
\* never sleeps on after the promise has been decided and has notified.
THEOREM LoneWaiterIsWoken == Spec => []WaiterNotForgotten
<1>1. Init => WaiterNotForgotten
  BY DEF Init, WaiterNotForgotten, Decided
<1>2. QED
  BY <1>1, TypeCorrect, ForgottenStep, PTL DEF Spec
=============================================================================
