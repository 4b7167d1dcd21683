---------------------------- MODULE MCThreadPool ----------------------------
(* Instances of ThreadPool for TLC.                                        *)
EXTENDS ThreadPool, TLC

CONSTANTS w1, w2, w3, owner, client, t1, t2, t3

Everything == {"AddTask", "AddWhenAvailable", "Join", "Stop", "Destroy"}

NoWorkers == {}
TwoWorkers == {w1, w2}
ThreeWorkers == {w1, w2, w3}
TwoClients == {owner, client}
ThreeTasks == {t1, t2, t3}
Everyone == TwoClients \cup Workers

\* What the owner, the other client and the tasks call.
UsesOf(byOwner, byClient, byTasks) ==
  [c \in Everyone |-> CASE c = owner -> byOwner
                        [] c = client -> byClient
                        [] OTHER -> byTasks]

\* Two clients call everything, and tasks queue tasks.
AllUses == UsesOf(Everything, Everything \ {"Destroy"}, {"AddTask"})

\* Only the owner waits, with either operation, and destroys the pool; the
\* client may stop it.
LifecycleUses == UsesOf({"AddTask", "AddWhenAvailable", "Join", "Destroy"}, {"AddTask", "Stop"}, {"AddTask"})

\* Only the owner calls, not AddWhenAvailable, which may wait for ever in a pool that
\* has no thread yet.
DynamicUses == UsesOf({"AddTask", "Join", "Destroy"}, {}, {"AddTask"})

\* The instances treat the threads of a pool alike, and the tasks alike.
PoolSymmetry == Permutations(Workers) \cup Permutations(ThreeTasks)
=============================================================================
