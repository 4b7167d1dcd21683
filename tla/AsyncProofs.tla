----------------------------- MODULE AsyncProofs -----------------------------
(***************************************************************************)
(* Safety of Async for any set of tasks.  The argument: the queue is what  *)
(* is left of the list of accepted tasks, the running task is the one      *)
(* before it, and all tasks before that have their results.                *)
(***************************************************************************)
EXTENDS Async, Integers, TLAPS

\* How many of the accepted tasks have left the queue.
Started == Len(accepted) - Len(Queue)

\* No task is accepted twice, and only tasks that are accepted have a future.
AcceptedOnce ==
  /\ \A i, j \in 1..Len(accepted) : accepted[i] = accepted[j] => i = j
  /\ \A t \in Tasks : future[t] = "none" <=> \A i \in 1..Len(accepted) : accepted[i] # t

\* Who shares the state; nothing is left of it when nobody does.
Ownership ==
  /\ pc # "ended" <=> "thread" \in owners
  /\ ~Stopping => "handle" \in owners
  /\ owners = {} => Queue = <<>>

\* The queue is the rest of the accepted tasks, and the running one comes before it.
Rest ==
  owners # {} =>
    /\ Started >= 0
    /\ \A i \in 1..Len(Queue) : Queue[i] = accepted[Started + i]
    /\ running # {} => Started >= 1 /\ running = {accepted[Started]}
    /\ \A i \in 1..Len(accepted) :
         IF i > Started \/ accepted[i] \in running
         THEN future[accepted[i]] = "pending"
         ELSE future[accepted[i]] = "value"

\* Of a destroyed state nothing is pending, and what was broken had been queued last.
Destroyed ==
  owners = {} => \A t \in Tasks : future[t] # "pending"

IInv == TypeOK /\ AcceptedOnce /\ Ownership /\ Rest /\ Destroyed /\ InOrder

\* An empty queue, and no task.
LEMMA InitInv == Init => IInv
<1> SUFFICES ASSUME Init PROVE IInv
  OBVIOUS
<1>1. Queue = <<>> /\ accepted = <<>> /\ Len(accepted) = 0 /\ Len(Queue) = 0
  BY DEF Init
<1>2. TypeOK
  <2>1. Queue \in Seq(Tasks) /\ accepted \in Seq(Tasks)
    BY <1>1
  <2>2. Stopping \in BOOLEAN
    BY DEF Init
  <2>3. future \in [Tasks -> {"none", "pending", "value", "broken"}]
    BY DEF Init
  <2> QED
    BY <2>1, <2>2, <2>3 DEF Init, TypeOK, States
<1>3. AcceptedOnce /\ Ownership /\ Destroyed /\ InOrder
  BY <1>1 DEF Init, AcceptedOnce, Ownership, Destroyed, InOrder
<1>4. Rest
  BY <1>1 DEF Init, Rest, Started
<1> QED
  BY <1>2, <1>3, <1>4 DEF IInv

\* What the other lemmas need of the types.
LEMMA Lengths ==
  ASSUME TypeOK
  PROVE  /\ Len(Queue) \in Nat /\ Len(accepted) \in Nat /\ Started \in Int
         /\ \A i \in 1..Len(accepted) : accepted[i] \in Tasks
         /\ \A i \in 1..Len(Queue) : Queue[i] \in Tasks
BY DEF TypeOK, Started

\* The sections that change neither tasks nor owners.
LEMMA QuietKeeps ==
  ASSUME IInv, UNCHANGED <<Queue, running, future, owners, accepted>>
  PROVE  AcceptedOnce' /\ Rest' /\ Destroyed' /\ InOrder' /\ (owners' = {} => Queue' = <<>>)
<1>1. AcceptedOnce'
  BY DEF IInv, AcceptedOnce
<1>2. Rest'
  BY DEF IInv, Rest, Started
<1>3. Destroyed' /\ InOrder' /\ (owners' = {} => Queue' = <<>>)
  BY DEF IInv, Destroyed, InOrder, Ownership
<1> QED
  BY <1>1, <1>2, <1>3

\* Letting go: the last owner breaks the futures of the queue, which are those of
\* the tasks accepted last.
LEMMA LetGoKeeps ==
  ASSUME IInv, NEW owner \in owners, LetGo(owner), running = {},
         UNCHANGED <<running, accepted>>
  PROVE  /\ Queue' \in Seq(Tasks) /\ owners' \subseteq {"handle", "thread"}
         /\ future' \in [Tasks -> {"none", "pending", "value", "broken"}]
         /\ AcceptedOnce' /\ Rest' /\ Destroyed' /\ InOrder'
         /\ (owners' = {} => Queue' = <<>>)
<1>1. CASE owners # {owner}
  <2>1. owners' # {} /\ UNCHANGED <<Queue, future>> /\ owners' \subseteq owners
    BY <1>1 DEF LetGo
  <2>2. owners # {}
    OBVIOUS
  <2>3. AcceptedOnce' /\ Destroyed' /\ InOrder'
    BY <2>1 DEF IInv, AcceptedOnce, Destroyed, InOrder
  <2>4. Rest'
    BY <2>1, <2>2 DEF IInv, Rest, Started
  <2> QED
    BY <2>1, <2>3, <2>4 DEF IInv, TypeOK
<1>2. CASE owners = {owner}
  <2>1. owners' = {} /\ Queue' = <<>> /\ future' = BreakQueued
    BY <1>2 DEF LetGo
  <2>2. future' \in [Tasks -> {"none", "pending", "value", "broken"}]
    BY <2>1 DEF BreakQueued, IInv, TypeOK
  <2>3. ASSUME NEW t \in Tasks
        PROVE  /\ Contains(Queue, t) => future[t] = "pending" /\ future'[t] = "broken"
               /\ ~Contains(Queue, t) => future[t] # "pending" /\ future'[t] = future[t]
    <3>1. CASE Contains(Queue, t)
      <4>1. PICK i \in 1..Len(Queue) : Queue[i] = t
        BY <3>1 DEF Contains, IInv, TypeOK
      <4>2. Started + i \in 1..Len(accepted) /\ Started + i > Started
            /\ accepted[Started + i] = t
        BY <1>2, <4>1, Lengths DEF IInv, Rest, Started
      <4>3. future[t] = "pending"
        BY <1>2, <4>2 DEF IInv, Rest
      <4> QED
        BY <2>1, <3>1, <4>3 DEF BreakQueued
    <3>2. CASE ~Contains(Queue, t)
      <4>1. future'[t] = future[t]
        BY <2>1, <3>2 DEF BreakQueued
      <4>2. ASSUME future[t] = "pending" PROVE FALSE
        <5>1. PICK i \in 1..Len(accepted) : accepted[i] = t
          BY <4>2 DEF IInv, AcceptedOnce
        <5>2. i > Started
          BY <1>2, <4>2, <5>1 DEF IInv, Rest
        <5>3. i - Started \in 1..Len(Queue) /\ i = Started + (i - Started)
          BY <5>1, <5>2, Lengths DEF IInv, Started
        <5>4. Queue[i - Started] = t
          BY <1>2, <5>1, <5>3 DEF IInv, Rest
        <5> QED
          BY <3>2, <5>3, <5>4 DEF Contains, IInv, TypeOK
      <4> QED
        BY <3>2, <4>1, <4>2
    <3> QED
      BY <3>1, <3>2
  <2>4. AcceptedOnce'
    <3>1. \A t \in Tasks : future'[t] = "none" <=> future[t] = "none"
      BY <2>3
    <3> QED
      BY <3>1 DEF IInv, AcceptedOnce
  <2>5. Destroyed'
    BY <2>3 DEF Destroyed
  <2>6. InOrder'
    <3>1. \A t \in Tasks : future'[t] = "value" <=> future[t] = "value"
      BY <2>3
    <3>2. \A i \in DOMAIN accepted : accepted[i] \in Tasks
      BY DEF IInv, TypeOK
    <3> QED
      BY <3>1, <3>2 DEF IInv, InOrder
  <2> QED
    BY <2>1, <2>2, <2>4, <2>5, <2>6 DEF Rest
<1> QED
  BY <1>1, <1>2

\* A task is accepted.
LEMMA AddTaskKeeps == ASSUME IInv, NEW t \in Tasks, AddTask(t) PROVE IInv'
<1> DEFINE n == Len(accepted)
<1>1. /\ Len(Queue) \in Nat /\ n \in Nat /\ Started \in Int
      /\ \A i \in 1..n : accepted[i] \in Tasks
      /\ owners # {} /\ "handle" \in owners
  BY Lengths DEF IInv, AddTask, Ownership
<1>2. /\ Queue' = Append(Queue, t) /\ accepted' = Append(accepted, t)
      /\ future' = [future EXCEPT ![t] = "pending"] /\ future[t] = "none"
      /\ UNCHANGED <<Stopping, running, owners>> /\ Notify
  BY DEF AddTask
<1>3. TypeOK'
  BY <1>2 DEF IInv, TypeOK, Notify, States
<1>4. /\ Len(Queue') = Len(Queue) + 1 /\ Len(accepted') = n + 1 /\ Started' = Started
      /\ \A i \in 1..n : accepted'[i] = accepted[i] /\ accepted'[i] # t
      /\ accepted'[n + 1] = t
      /\ \A i \in 1..Len(Queue) : Queue'[i] = Queue[i]
      /\ Queue'[Len(Queue) + 1] = t
  <2>1. /\ Len(Queue') = Len(Queue) + 1 /\ Len(accepted') = n + 1
        /\ \A i \in 1..n : accepted'[i] = accepted[i]
        /\ accepted'[n + 1] = t
        /\ \A i \in 1..Len(Queue) : Queue'[i] = Queue[i]
        /\ Queue'[Len(Queue) + 1] = t
    BY <1>2 DEF IInv, TypeOK
  <2>2. Started' = Started
    BY <1>1, <2>1 DEF Started
  <2>3. \A i \in 1..n : accepted[i] # t
    BY <1>2 DEF IInv, AcceptedOnce
  <2> QED
    BY <2>1, <2>2, <2>3
<1>5. \A u \in Tasks : future'[u] = IF u = t THEN "pending" ELSE future[u]
  BY <1>2 DEF IInv, TypeOK
<1> HIDE DEF n
<1>6. 1..Len(accepted') = 1..n \cup {n + 1} /\ n + 1 \notin 1..n
  BY <1>1, <1>4
<1>7. AcceptedOnce'
  <2>1. ASSUME NEW i \in 1..Len(accepted'), NEW j \in 1..Len(accepted'),
               accepted'[i] = accepted'[j]
        PROVE  i = j
    <3>1. \A k, l \in 1..n : accepted[k] = accepted[l] => k = l
      BY DEF IInv, AcceptedOnce, n
    <3> QED
      BY <1>4, <1>6, <2>1, <3>1
  <2>2. ASSUME NEW u \in Tasks
        PROVE  future'[u] = "none" <=> \A i \in 1..Len(accepted') : accepted'[i] # u
    <3>1. future[u] = "none" <=> \A i \in 1..n : accepted[i] # u
      BY DEF IInv, AcceptedOnce, n
    <3> QED
      BY <1>4, <1>5, <1>6, <3>1
  <2> QED
    BY <2>1, <2>2 DEF AcceptedOnce
<1>8. Ownership'
  BY <1>1, <1>2 DEF IInv, Ownership, Notify
<1>9. Rest'
  <2>1. /\ Started >= 0 /\ \A i \in 1..Len(Queue) : Queue[i] = accepted[Started + i]
        /\ running # {} => Started >= 1 /\ running = {accepted[Started]}
        /\ \A i \in 1..n : IF i > Started \/ accepted[i] \in running
                           THEN future[accepted[i]] = "pending"
                           ELSE future[accepted[i]] = "value"
    BY <1>1 DEF IInv, Rest, n
  <2>2. n = Started + Len(Queue)
    BY <1>1 DEF Started, n
  <2>3. ASSUME NEW i \in 1..Len(Queue') PROVE Queue'[i] = accepted'[Started + i]
    <3>1. CASE i \in 1..Len(Queue)
      <4>1. Started + i \in 1..n
        BY <1>1, <2>1, <2>2, <3>1
      <4> QED
        BY <1>4, <2>1, <3>1, <4>1
    <3>2. CASE i = Len(Queue) + 1
      BY <1>1, <1>4, <2>2, <3>2
    <3> QED
      BY <1>1, <1>4, <3>1, <3>2
  <2>4. running # {} => Started \in 1..n
    BY <1>1, <2>1, <2>2
  <2>5. ASSUME NEW i \in 1..Len(accepted')
        PROVE  IF i > Started \/ accepted'[i] \in running
               THEN future'[accepted'[i]] = "pending"
               ELSE future'[accepted'[i]] = "value"
    <3>1. CASE i \in 1..n
      BY <1>1, <1>4, <1>5, <2>1, <3>1
    <3>2. CASE i = n + 1
      BY <1>1, <1>4, <1>5, <2>2, <3>2
    <3> QED
      BY <1>6, <3>1, <3>2
  <2> QED
    BY <1>2, <1>4, <2>1, <2>3, <2>4, <2>5 DEF Rest
<1>10. Destroyed'
  BY <1>1, <1>2 DEF Destroyed
<1>11. InOrder'
  <2>1. DOMAIN accepted' = 1..Len(accepted') /\ DOMAIN accepted = 1..n
    BY <1>2 DEF IInv, TypeOK, n
  <2>2. ASSUME NEW i \in 1..Len(accepted'), NEW j \in 1..Len(accepted'), i < j,
               future'[accepted'[j]] = "value"
        PROVE  future'[accepted'[i]] = "value"
    <3>1. j \in 1..n
      BY <1>4, <1>5, <1>6, <2>2
    <3>2. i \in 1..n
      BY <1>1, <1>6, <2>2, <3>1
    <3> QED
      BY ZenonT(40), <1>1, <1>4, <1>5, <2>1, <2>2, <3>1, <3>2 DEF IInv, InOrder
  <2> QED
    BY <2>1, <2>2 DEF InOrder
<1> QED
  BY <1>3, <1>7, <1>8, <1>9, <1>10, <1>11 DEF IInv

\* The thread takes the oldest task.
LEMMA TakeKeeps == ASSUME IInv, Take PROVE IInv'
<1> DEFINE n == Len(accepted)
<1>1. /\ Len(Queue) \in Nat /\ n \in Nat /\ Started \in Int
      /\ pc = "lock" /\ Queue # <<>> /\ running = {} /\ "thread" \in owners
  BY Lengths DEF IInv, Take, Ownership, TypeOK
<1>2. /\ running' = {Head(Queue)} /\ Queue' = Tail(Queue) /\ pc' = "run"
      /\ UNCHANGED <<Stopping, future, owners, accepted>>
  BY DEF Take
<1>3. /\ Len(Queue) >= 1 /\ Len(Queue') = Len(Queue) - 1 /\ Queue' \in Seq(Tasks)
      /\ Head(Queue) = Queue[1] /\ Head(Queue) \in Tasks
      /\ \A i \in 1..Len(Queue') : Queue'[i] = Queue[i + 1]
  BY <1>1, <1>2 DEF IInv, TypeOK
<1>4. TypeOK'
  BY <1>2, <1>3 DEF IInv, TypeOK, States
<1>5. Started' = Started + 1
  BY <1>1, <1>2, <1>3 DEF Started
<1>6. /\ Started >= 0 /\ \A i \in 1..Len(Queue) : Queue[i] = accepted[Started + i]
      /\ \A i \in 1..n : IF i > Started THEN future[accepted[i]] = "pending"
                                        ELSE future[accepted[i]] = "value"
  BY <1>1 DEF IInv, Rest
<1>7. Head(Queue) = accepted[Started + 1] /\ Started + 1 \in 1..n
  <2>1. n = Started + Len(Queue)
    BY <1>1 DEF Started
  <2> QED
    BY <1>1, <1>3, <1>6, <2>1
<1>8. Rest'
  <2>1. \A i \in 1..Len(Queue') : Queue'[i] = accepted[Started + 1 + i]
    <3>1. ASSUME NEW i \in 1..Len(Queue')
          PROVE  i + 1 \in 1..Len(Queue) /\ Started + (i + 1) = Started + 1 + i
      BY <1>1, <1>3
    <3> QED
      BY <1>3, <1>6, <3>1
  <2>2. \A i \in 1..n : accepted[i] = accepted[Started + 1] => i = Started + 1
    BY <1>7 DEF IInv, AcceptedOnce
  <2>3. ASSUME NEW i \in 1..n
        PROVE  IF i > Started + 1 \/ accepted[i] \in {accepted[Started + 1]}
               THEN future[accepted[i]] = "pending"
               ELSE future[accepted[i]] = "value"
    BY <1>1, <1>6, <2>2
  <2> QED
    BY <1>1, <1>2, <1>5, <1>6, <1>7, <2>1, <2>3 DEF Rest
<1>9. AcceptedOnce' /\ Ownership' /\ Destroyed' /\ InOrder'
  BY <1>1, <1>2 DEF IInv, AcceptedOnce, Ownership, Destroyed, InOrder
<1> QED
  BY <1>4, <1>8, <1>9 DEF IInv

\* The running task ends, or ends the program.
LEMMA RunKeeps == ASSUME IInv, NEW t \in Tasks, Run(t) PROVE IInv'
<1>1. /\ pc = "run" /\ t \in running /\ "thread" \in owners
      /\ UNCHANGED <<Stopping, Queue, owners, accepted>>
  BY DEF IInv, Run, Ownership
<1>2. CASE pc' = "terminated" /\ UNCHANGED <<running, future>>
  <2>1. AcceptedOnce' /\ Rest' /\ Destroyed' /\ InOrder'
    BY <1>1, <1>2, QuietKeeps
  <2>2. TypeOK' /\ Ownership'
    BY <1>1, <1>2 DEF IInv, TypeOK, States, Ownership
  <2> QED
    BY <2>1, <2>2 DEF IInv
<1>3. CASE running' = {} /\ pc' = "top" /\ future' = [future EXCEPT ![t] = "value"]
  <2> DEFINE n == Len(accepted)
  <2>1. Len(Queue) \in Nat /\ n \in Nat /\ Started \in Int
        /\ \A i \in 1..n : accepted[i] \in Tasks
    BY Lengths DEF IInv
  <2>2. TypeOK'
    BY <1>1, <1>3 DEF IInv, TypeOK, States
  <2>3. \A u \in Tasks : future'[u] = IF u = t THEN "value" ELSE future[u]
    BY <1>3 DEF IInv, TypeOK
  <2>4. /\ Started >= 1 /\ running = {accepted[Started]} /\ t = accepted[Started]
        /\ Started \in 1..n
        /\ \A i \in 1..n : IF i > Started \/ accepted[i] \in running
                           THEN future[accepted[i]] = "pending"
                           ELSE future[accepted[i]] = "value"
    <3>1. n = Started + Len(Queue)
      BY <2>1 DEF Started
    <3> QED
      BY <1>1, <2>1, <3>1 DEF IInv, Rest
  <2>5. \A i \in 1..n : accepted[i] = t => i = Started
    BY <2>4 DEF IInv, AcceptedOnce
  <2>6. ASSUME NEW i \in 1..n
        PROVE  IF i > Started THEN future'[accepted[i]] = "pending"
                              ELSE future'[accepted[i]] = "value"
    BY <2>1, <2>3, <2>4, <2>5
  <2>7. Rest'
    <3>1. Started' = Started
      BY <1>1 DEF Started
    <3>2. \A i \in 1..Len(Queue) : Queue[i] = accepted[Started + i]
      BY <1>1 DEF IInv, Rest
    <3> QED
      BY <1>1, <1>3, <2>1, <2>4, <2>6, <3>1, <3>2 DEF Rest
  <2>8. AcceptedOnce'
    <3>1. future[t] # "none"
      BY <2>4
    <3>2. \A u \in Tasks : future'[u] = "none" <=> future[u] = "none"
      BY <2>3, <3>1
    <3> QED
      BY <1>1, <3>2 DEF IInv, AcceptedOnce
  <2>9. InOrder'
    <3>1. DOMAIN accepted' = 1..n
      BY <1>1 DEF IInv, TypeOK
    <3>2. ASSUME NEW i \in 1..n, NEW j \in 1..n, i < j, future'[accepted[j]] = "value"
          PROVE  future'[accepted[i]] = "value"
      BY <2>1, <2>6, <3>2
    <3> QED
      BY <1>1, <3>1, <3>2 DEF InOrder
  <2>10. Ownership' /\ Destroyed'
    BY <1>1, <1>3 DEF IInv, Ownership, Destroyed
  <2> QED
    BY <2>2, <2>7, <2>8, <2>9, <2>10 DEF IInv
<1> QED
  BY <1>2, <1>3 DEF Run

\* An owner that has nothing running lets go.
LEMMA EndKeeps ==
  ASSUME IInv, Top \/ Quit, pc' = "ended", LetGo("thread")
  PROVE  IInv'
<1>1. pc \in {"top", "lock"} /\ Stopping /\ running = {} /\ "thread" \in owners
      /\ UNCHANGED <<Stopping, running, accepted>>
  BY DEF IInv, TypeOK, Ownership, Top, Quit
<1>2. /\ Queue' \in Seq(Tasks) /\ owners' \subseteq {"handle", "thread"}
      /\ future' \in [Tasks -> {"none", "pending", "value", "broken"}]
      /\ AcceptedOnce' /\ Rest' /\ Destroyed' /\ InOrder'
      /\ (owners' = {} => Queue' = <<>>)
  BY <1>1, LetGoKeeps
<1>3. TypeOK'
  BY <1>1, <1>2 DEF IInv, TypeOK, States
<1>4. Ownership'
  BY <1>1, <1>2 DEF Ownership, LetGo
<1> QED
  BY <1>2, <1>3, <1>4 DEF IInv

\* The handle lets go of the state; if it is the last owner, nothing pending is left.
LEMMA ReleaseKeeps == ASSUME IInv, Release PROVE IInv'
<1>1. Stopping /\ "handle" \in owners /\ LetGo("handle")
      /\ UNCHANGED <<Stopping, pc, running, accepted>>
  BY DEF Release
<1>2. CASE running = {}
  <2>1. /\ Queue' \in Seq(Tasks) /\ owners' \subseteq {"handle", "thread"}
        /\ future' \in [Tasks -> {"none", "pending", "value", "broken"}]
        /\ AcceptedOnce' /\ Rest' /\ Destroyed' /\ InOrder'
        /\ (owners' = {} => Queue' = <<>>)
    BY <1>1, <1>2, LetGoKeeps
  <2>2. TypeOK'
    BY <1>1, <2>1 DEF IInv, TypeOK
  <2>3. Ownership'
    BY <1>1, <2>1 DEF IInv, Ownership, LetGo
  <2> QED
    BY <2>1, <2>2, <2>3 DEF IInv
<1>3. CASE running # {}
  <2>1. pc # "ended" /\ "thread" \in owners
    BY <1>3 DEF IInv, TypeOK, Ownership
  <2>2. owners # {} /\ owners' # {} /\ owners' \subseteq owners
        /\ "thread" \in owners' /\ UNCHANGED <<Queue, future>>
    BY <1>1, <2>1 DEF LetGo
  <2>3. AcceptedOnce' /\ Destroyed' /\ InOrder'
    BY <1>1, <2>2 DEF IInv, AcceptedOnce, Destroyed, InOrder
  <2>4. Rest'
    BY <1>1, <2>2 DEF IInv, Rest, Started
  <2>5. TypeOK' /\ Ownership'
    BY <1>1, <2>1, <2>2 DEF IInv, TypeOK, Ownership
  <2> QED
    BY <2>3, <2>4, <2>5 DEF IInv
<1> QED
  BY <1>2, <1>3

\* Sections of the thread and the handle that only move on.
LEMMA QuietSteps ==
  ASSUME IInv, Destroy \/ (Top /\ pc' = "lock") \/ Wait \/ Spurious PROVE IInv'
<1>1. UNCHANGED <<Queue, running, future, owners, accepted>>
  BY DEF Destroy, Top, Wait, Spurious
<1>2. AcceptedOnce' /\ Rest' /\ Destroyed' /\ InOrder' /\ (owners' = {} => Queue' = <<>>)
  BY <1>1, QuietKeeps
<1>3. TypeOK' /\ Ownership'
  BY <1>1 DEF IInv, TypeOK, States, Ownership, Destroy, Top, Wait, Spurious, Notify
<1> QED
  BY <1>2, <1>3 DEF IInv

THEOREM Invariance == Spec => []IInv
<1>1. IInv /\ [Next]_vars => IInv'
  <2> SUFFICES ASSUME IInv, [Next]_vars PROVE IInv'
    OBVIOUS
  <2>1. ASSUME NEW t \in Tasks, AddTask(t) PROVE IInv'
    BY <2>1, AddTaskKeeps
  <2>2. ASSUME NEW t \in Tasks, Run(t) PROVE IInv'
    BY <2>2, RunKeeps
  <2>3. CASE Top
    <3>1. CASE Stopping
      BY <2>3, <3>1, EndKeeps DEF Top
    <3>2. CASE ~Stopping
      BY <2>3, <3>2, QuietSteps DEF Top
    <3> QED
      BY <3>1, <3>2
  <2>4. CASE Quit
    BY <2>4, EndKeeps DEF Quit
  <2>5. CASE Destroy \/ Wait \/ Spurious
    BY <2>5, QuietSteps
  <2>6. CASE Take \/ Release
    BY <2>6, TakeKeeps, ReleaseKeeps
  <2>7. CASE UNCHANGED vars
    <3>1. AcceptedOnce' /\ Rest' /\ Destroyed' /\ InOrder'
      BY <2>7, QuietKeeps DEF vars
    <3> QED
      BY <2>7, <3>1 DEF IInv, TypeOK, Ownership, vars
  <2> QED
    BY <2>1, <2>2, <2>3, <2>4, <2>5, <2>6, <2>7 DEF Next, ThreadStep
<1> QED
  BY InitInv, <1>1, PTL DEF Spec

\* Every variable of an Async always has its type, and its thread runs one task.
THEOREM TypeCorrect == Spec => []TypeOK
BY Invariance, PTL DEF IInv

\* Calls on the object take effect in the order AddTask queued them, however many.
THEOREM CallsInOrder == Spec => []InOrder
BY Invariance, PTL DEF IInv

\* In whichever order handle and thread let go of the state, it outlives the tasks
\* in it, and no future of it stays pending when it is gone.
THEOREM StateOutlivesUsers == Spec => []StateOutlives
<1>1. IInv => StateOutlives
  <2> SUFFICES ASSUME IInv PROVE StateOutlives
    OBVIOUS
  <2>1. pc \in {"top", "lock", "wait", "run"} => "thread" \in owners
    BY DEF IInv, Ownership
  <2>2. ASSUME NEW t \in Tasks, future[t] = "pending"
        PROVE  owners # {} /\ (Contains(Queue, t) \/ t \in running)
    <3>1. owners # {}
      BY <2>2 DEF IInv, Destroyed
    <3>2. PICK i \in 1..Len(accepted) : accepted[i] = t
      BY <2>2 DEF IInv, AcceptedOnce
    <3>3. i > Started \/ t \in running
      BY <2>2, <3>1, <3>2 DEF IInv, Rest
    <3>4. CASE i > Started
      <4>1. i - Started \in 1..Len(Queue) /\ i = Started + (i - Started)
        BY <3>2, <3>4, Lengths DEF IInv, Started
      <4>2. Queue[i - Started] = t
        BY <3>1, <3>2, <4>1 DEF IInv, Rest
      <4> QED
        BY <3>1, <4>1, <4>2 DEF Contains, IInv, TypeOK
    <3> QED
      BY <3>1, <3>3, <3>4
  <2>3. ASSUME NEW t \in Tasks, owners # {}, Contains(Queue, t)
        PROVE  future[t] = "pending"
    <3>1. PICK i \in 1..Len(Queue) : Queue[i] = t
      BY <2>3 DEF Contains, IInv, TypeOK
    <3>2. Started + i \in 1..Len(accepted) /\ Started + i > Started
          /\ accepted[Started + i] = t
      BY <2>3, <3>1, Lengths DEF IInv, Rest, Started
    <3> QED
      BY <2>3, <3>2 DEF IInv, Rest
  <2>4. ASSUME NEW t \in Tasks, owners # {}, t \in running
        PROVE  future[t] = "pending"
    <3>1. Started \in 1..Len(accepted) /\ t = accepted[Started]
      BY <2>4, Lengths DEF IInv, Rest, Started
    <3> QED
      BY <2>4, <3>1 DEF IInv, Rest
  <2> QED
    BY <2>1, <2>2, <2>3, <2>4 DEF StateOutlives
<1> QED
  BY Invariance, <1>1, PTL
=============================================================================
