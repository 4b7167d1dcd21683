---------------------------- MODULE TSQueueProofs ----------------------------
(***************************************************************************)
(* Safety of TSQueue for any set of consumers, with and without limits,    *)
(* any values and any bound on the queue.                                  *)
(***************************************************************************)
EXTENDS TSQueue, FiniteSetTheorems, TLAPS

IInv == TypeOK /\ NoLostWakeup

\* The consumers on their way are a finite set; one more or one less changes
\* their number by one.
LEMMA OnTheirWayCount ==
  /\ OnTheirWay \in SUBSET Consumers
  /\ Cardinality(OnTheirWay) \in Nat
  /\ \A c \in Consumers :
       /\ c \notin OnTheirWay =>
            Cardinality(OnTheirWay \cup {c}) = Cardinality(OnTheirWay) + 1
       /\ c \in OnTheirWay =>
            Cardinality(OnTheirWay \ {c}) = Cardinality(OnTheirWay) - 1
<1>1. OnTheirWay \in SUBSET Consumers
  BY DEF OnTheirWay
<1>2. IsFiniteSet(OnTheirWay) /\ Cardinality(OnTheirWay) \in Nat
  BY <1>1, ConsumersAssumption, FS_Subset, FS_CardinalityType
<1>3. QED
  BY <1>1, <1>2, FS_AddElement, FS_RemoveElement

\* The initial state satisfies the invariant: nobody sleeps.
LEMMA InitInv == Init => IInv
<1> SUFFICES ASSUME Init PROVE IInv
  OBVIOUS
<1>1. TypeOK
  BY DEF Init, TypeOK, States
<1>2. Sleeping = {}
  BY DEF Init, Sleeping
<1>3. QED
  BY <1>1, <1>2 DEF IInv, NoLostWakeup

\* Every operation keeps the types.
LEMMA TypeStep == TypeOK /\ [Next]_vars => TypeOK'
<1> SUFFICES ASSUME TypeOK, [Next]_vars PROVE TypeOK'
  OBVIOUS
<1> USE DEF TypeOK, States
<1>1. ASSUME NEW v \in Values, Emplace(v) PROVE TypeOK'
  BY <1>1 DEF Emplace, Notify, Sleeping
<1>2. ASSUME NEW c \in Consumers, CallPopFront(c) PROVE TypeOK'
  BY <1>2 DEF CallPopFront
<1>3. ASSUME NEW c \in Consumers, Wait(c) PROVE TypeOK'
  BY <1>3 DEF Wait
<1>4. ASSUME NEW c \in Consumers, PopValue(c) PROVE TypeOK'
  <2>1. Head(m_Data) \in Values /\ Tail(m_Data) \in Seq(Values)
    BY <1>4 DEF PopValue
  <2>2. QED
    BY <1>4, <2>1 DEF PopValue
<1>5. ASSUME NEW c \in Consumers, PopNothing(c) PROVE TypeOK'
  BY <1>5 DEF PopNothing
<1>6. ASSUME NEW c \in Consumers, Expire(c) PROVE TypeOK'
  BY <1>6 DEF Expire
<1>7. ASSUME NEW c \in Consumers, Deadline(c) PROVE TypeOK'
  BY <1>7 DEF Deadline
<1>8. ASSUME NEW c \in Consumers, Spurious(c) PROVE TypeOK'
  BY <1>8 DEF Spurious
<1>9. CASE UNCHANGED vars
  BY <1>9 DEF vars
<1>10. QED
  BY <1>1, <1>2, <1>3, <1>4, <1>5, <1>6, <1>7, <1>8, <1>9 DEF Next, Step

\* A value is added together with a sleeper's wakeup, and a consumer leaves the
\* mutex with a value or because there is none.
LEMMA WakeupStep == IInv /\ [Next]_vars => NoLostWakeup'
<1> SUFFICES ASSUME IInv, [Next]_vars PROVE NoLostWakeup'
  OBVIOUS
<1> USE DEF IInv
<1>a. Len(m_Data) \in Nat
  BY DEF TypeOK
<1>b. OnTheirWay' \in SUBSET Consumers /\ Cardinality(OnTheirWay') \in Nat
  <2>1. OnTheirWay' \in SUBSET Consumers
    BY DEF OnTheirWay
  <2>2. QED
    BY <2>1, ConsumersAssumption, FS_Subset, FS_CardinalityType
\* One more consumer on its way, the same queue, no new sleeper.
<1>c. ASSUME NEW c \in Consumers, c \notin OnTheirWay,
             OnTheirWay' = OnTheirWay \cup {c}, m_Data' = m_Data,
             Sleeping' \subseteq Sleeping
      PROVE  NoLostWakeup'
  <2>1. Cardinality(OnTheirWay') = Cardinality(OnTheirWay) + 1
    BY <1>c, OnTheirWayCount
  <2>2. QED
    BY <1>a, <1>c, <2>1, OnTheirWayCount DEF NoLostWakeup
<1>1. ASSUME NEW v \in Values, Emplace(v) PROVE NoLostWakeup'
  <2>1. CASE Sleeping = {}
    <3>1. Sleeping' = {}
      BY <1>1, <2>1 DEF Emplace, Notify, Sleeping
    <3>2. QED
      BY <3>1 DEF NoLostWakeup
  <2>2. CASE Sleeping # {}
    <3>1. PICK c \in Sleeping : pc' = [pc EXCEPT ![c] = "relock"]
      BY <1>1, <2>2 DEF Emplace, Notify
    <3>2. /\ c \in Consumers /\ c \notin OnTheirWay
          /\ OnTheirWay' = OnTheirWay \cup {c}
      BY <3>1 DEF OnTheirWay, InMutex, Sleeping, TypeOK
    <3>3. Cardinality(OnTheirWay') = Cardinality(OnTheirWay) + 1
      BY <3>2, OnTheirWayCount
    <3>4. Len(m_Data') = Len(m_Data) + 1
      BY <1>1 DEF Emplace, TypeOK
    <3>5. QED
      BY <1>a, <2>2, <3>3, <3>4, OnTheirWayCount DEF NoLostWakeup
  <2>3. QED
    BY <2>1, <2>2
<1>2. ASSUME NEW c \in Consumers, CallPopFront(c) PROVE NoLostWakeup'
  <2>1. /\ c \notin OnTheirWay /\ OnTheirWay' = OnTheirWay \cup {c}
        /\ Sleeping' \subseteq Sleeping /\ m_Data' = m_Data
    BY <1>2 DEF CallPopFront, OnTheirWay, InMutex, Sleeping, TypeOK
  <2>2. QED
    BY <2>1, <1>c
<1>3. ASSUME NEW c \in Consumers, Wait(c) PROVE NoLostWakeup'
  <2>1. Len(m_Data') = 0
    BY <1>3 DEF Wait
  <2>2. QED
    BY <2>1, <1>b DEF NoLostWakeup
<1>4. ASSUME NEW c \in Consumers, PopValue(c) PROVE NoLostWakeup'
  <2>1. /\ c \in OnTheirWay /\ OnTheirWay' = OnTheirWay \ {c}
        /\ Sleeping' = Sleeping
    BY <1>4 DEF PopValue, OnTheirWay, InMutex, Sleeping, TypeOK
  <2>2. Cardinality(OnTheirWay') = Cardinality(OnTheirWay) - 1
    BY <2>1, OnTheirWayCount
  <2>3. Len(m_Data') = Len(m_Data) - 1
    BY <1>4 DEF PopValue, TypeOK
  <2>4. QED
    BY <1>a, <2>1, <2>2, <2>3, OnTheirWayCount DEF NoLostWakeup
<1>5. ASSUME NEW c \in Consumers, PopNothing(c) PROVE NoLostWakeup'
  <2>1. Len(m_Data') = 0
    BY <1>5 DEF PopNothing
  <2>2. QED
    BY <2>1, <1>b DEF NoLostWakeup
<1>6. ASSUME NEW c \in Consumers, Expire(c) \/ Spurious(c) PROVE NoLostWakeup'
  <2>1. /\ c \notin OnTheirWay /\ OnTheirWay' = OnTheirWay \cup {c}
        /\ Sleeping' \subseteq Sleeping /\ m_Data' = m_Data
    BY <1>6 DEF Expire, Spurious, OnTheirWay, InMutex, Sleeping, TypeOK
  <2>2. QED
    BY <2>1, <1>c
<1>7. ASSUME NEW c \in Consumers, Deadline(c) PROVE NoLostWakeup'
  BY <1>7 DEF Deadline, OnTheirWay, InMutex, Sleeping, NoLostWakeup
<1>8. CASE UNCHANGED vars
  BY <1>8 DEF vars, OnTheirWay, InMutex, Sleeping, NoLostWakeup
<1>9. QED
  BY <1>1, <1>2, <1>3, <1>4, <1>5, <1>6, <1>7, <1>8 DEF Next, Step

\* The invariant holds in every state the queue can reach.
LEMMA Invariance == Spec => []IInv
<1>1. IInv /\ [Next]_vars => IInv'
  BY TypeStep, WakeupStep DEF IInv
<1>2. QED
  BY <1>1, InitInv, PTL DEF Spec

\* Every variable of the queue always has its type.
THEOREM TypeCorrect == Spec => []TypeOK
BY Invariance, PTL DEF IInv

\* Emplace and PopFront never leave a value in the queue with a consumer asleep
\* and nobody on the way to it, however wakeups, limits and other consumers race.
THEOREM NoWakeupLost == Spec => []NoLostWakeup
BY Invariance, PTL DEF IInv

\* PopFront returns false only after its deadline.
THEOREM FalseOnlyLate == Spec => FalseMeansTimeout
<1>1. TypeOK /\ [Next]_vars =>
        [\A c \in Consumers :
           pc[c] # "idle" /\ pc'[c] = "idle" /\ out'[c] = NoValue => late[c]]_vars
  <2> SUFFICES ASSUME TypeOK, Next, NEW c \in Consumers,
                      pc[c] # "idle", pc'[c] = "idle", out'[c] = NoValue
               PROVE  late[c]
    OBVIOUS
  <2> USE DEF TypeOK, States
  <2>1. ASSUME NEW v \in Values, Emplace(v) PROVE FALSE
    BY <2>1 DEF Emplace, Notify, Sleeping
  <2>2. ASSUME NEW d \in Consumers, PopValue(d) PROVE FALSE
    <3>1. Head(m_Data) \in Values
      BY <2>2 DEF PopValue
    <3>2. QED
      BY <2>2, <3>1, ValuesAssumption DEF PopValue
  <2>3. ASSUME NEW d \in Consumers, PopNothing(d) PROVE late[c]
    BY <2>3 DEF PopNothing, TimedOut
  <2>4. ASSUME NEW d \in Consumers,
               CallPopFront(d) \/ Wait(d) \/ Expire(d) \/ Deadline(d) \/ Spurious(d)
        PROVE  FALSE
    BY <2>4 DEF CallPopFront, Wait, Expire, Deadline, Spurious
  <2>5. QED
    BY <2>1, <2>2, <2>3, <2>4 DEF Next, Step
<1>2. QED
  BY <1>1, TypeCorrect, PTL DEF Spec, FalseMeansTimeout
=============================================================================
