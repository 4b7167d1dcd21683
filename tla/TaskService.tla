----------------------------- MODULE TaskService -----------------------------
(***************************************************************************)
(* What ThreadPool promises its users, with no thread, mutex, condition    *)
(* variable or counter in it: tasks start in the order they were queued, a *)
(* bounded number at a time, each started task gets one result, a stopped  *)
(* service starts nothing and drops what is queued, and a Join returns     *)
(* only at a moment when nothing is queued and nothing runs.               *)
(***************************************************************************)
EXTENDS Naturals, Sequences, FiniteSets

CONSTANTS Tasks, Users, Capacity

VARIABLES
  queue,    \* tasks accepted and not started, oldest first
  held,     \* tasks submitted by users who still wait for room
  running,  \* tasks that have started and have no result
  result,   \* the result of each task, "none" before it has one
  joining,  \* users who wait for the service to be idle
  stopped

vars == <<queue, held, running, result, joining, stopped>>

Queued == {queue[i] : i \in DOMAIN queue}
Fresh(t) == t \notin Queued \cup held \cup running /\ result[t] = "none"
Idle == queue = <<>> /\ running = {}

Init ==
  /\ queue = <<>> /\ held = {} /\ running = {} /\ joining = {}
  /\ result = [t \in Tasks |-> "none"]
  /\ stopped = FALSE

Submit(t) ==
  /\ Fresh(t)
  /\ queue' = Append(queue, t)
  /\ UNCHANGED <<held, running, result, joining, stopped>>

\* A submission in two steps, for a user that waits for room first.
Hold(t) ==
  /\ Fresh(t)
  /\ held' = held \cup {t}
  /\ UNCHANGED <<queue, running, result, joining, stopped>>

Release(t) ==
  /\ t \in held
  /\ held' = held \ {t}
  /\ queue' = Append(queue, t)
  /\ UNCHANGED <<running, result, joining, stopped>>

Start ==
  /\ ~stopped /\ queue # <<>> /\ Cardinality(running) < Capacity
  /\ running' = running \cup {Head(queue)}
  /\ queue' = Tail(queue)
  /\ UNCHANGED <<held, result, joining, stopped>>

Complete(t) ==
  /\ t \in running
  /\ running' = running \ {t}
  /\ \E r \in {"value", "exception"} : result' = [result EXCEPT ![t] = r]
  /\ UNCHANGED <<queue, held, joining, stopped>>

CallJoin(u) ==
  /\ u \notin joining
  /\ joining' = joining \cup {u}
  /\ UNCHANGED <<queue, held, running, result, stopped>>

ReturnJoin(u) ==
  /\ u \in joining /\ Idle
  /\ joining' = joining \ {u}
  /\ UNCHANGED <<queue, held, running, result, stopped>>

Stop ==
  /\ stopped' = TRUE
  /\ UNCHANGED <<queue, held, running, result, joining>>

Drop ==
  /\ stopped
  /\ queue' = <<>>
  /\ result' = [t \in Tasks |-> IF t \in Queued THEN "broken" ELSE result[t]]
  /\ UNCHANGED <<held, running, joining, stopped>>

Next ==
  \/ \E t \in Tasks : Submit(t) \/ Hold(t) \/ Release(t) \/ Complete(t)
  \/ \E u \in Users : CallJoin(u) \/ ReturnJoin(u)
  \/ Start \/ Stop \/ Drop

Spec == Init /\ [][Next]_vars
=============================================================================
