---------------------------- MODULE MCTaskQueue ----------------------------
(* Small instances of TaskQueue: tasks and runtimes are interchangeable.   *)
EXTENDS TaskQueue, TLC

TaskRuntimeSymmetry == Permutations(TaskIds) \cup Permutations(Runtimes)
=============================================================================
