---------------------------- MODULE MCTaskStore ----------------------------
(* TLC instances of the task store. *)
EXTENDS TaskStore, TLC

CONSTANTS t1, t2, k1

(* Two tasks of one key, the first of them restartable. *)
KeyedPair == (t1 :> k1) @@ (t2 :> k1)
NoKeys == [t \in TaskIds |-> None]
OneRestart == [t \in TaskIds |-> 1]
AllTasks == {TaskIds}

WorkerSymmetry == Permutations(WorkerIds)

(* Sound where tasks differ neither in key nor in restartability. *)
HandoffSymmetry == Permutations(TaskIds) \cup Permutations(ClaimIds)
============================================================================
