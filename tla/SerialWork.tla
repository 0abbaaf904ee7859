----------------------------- MODULE SerialWork -----------------------------
(***************************************************************************)
(* What the task queue promises about the tasks of issues, with no mention *)
(* of statements, snapshots or runtimes: a job has a key (an issue and an  *)
(* agent), it waits, it is granted when no other job of its key is active, *)
(* and any number of jobs may end in one step, granted or not.             *)
(***************************************************************************)
CONSTANTS Jobs, Keys, NoKey
VARIABLES phase, key

vars == <<phase, key>>

Phases == {"absent", "waiting", "active", "done"}

Init ==
    /\ phase = [j \in Jobs |-> "absent"]
    /\ key = [j \in Jobs |-> NoKey]

\* A job enters the queue under its key.
Submit(j, k) ==
    /\ phase[j] = "absent"
    /\ phase' = [phase EXCEPT ![j] = "waiting"]
    /\ key' = [key EXCEPT ![j] = k]

\* A job starts only when its key is free.
Grant(j) ==
    /\ phase[j] = "waiting"
    /\ \A i \in Jobs : phase[i] = "active" => key[i] # key[j]
    /\ phase' = [phase EXCEPT ![j] = "active"]
    /\ UNCHANGED key

\* Jobs end: completed, failed, expired or cancelled.
End(S) ==
    /\ \A j \in S : phase[j] \in {"waiting", "active"}
    /\ phase' = [j \in Jobs |-> IF j \in S THEN "done" ELSE phase[j]]
    /\ UNCHANGED key

Next ==
    \/ \E j \in Jobs, k \in Keys : Submit(j, k)
    \/ \E j \in Jobs : Grant(j)
    \/ \E S \in SUBSET Jobs : End(S)

Spec == Init /\ [][Next]_vars
=============================================================================
