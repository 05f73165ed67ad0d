------------------------------ MODULE TaskBarrier ------------------------------
(***************************************************************************)
(* What a ThreadPool promises its owner: a workload is handed over as a    *)
(* whole, every task of it runs exactly once, in any order, and the owner  *)
(* gets the pool back when, and only when, all of them have run.           *)
(***************************************************************************)

CONSTANT Tasks  \* the positions a task may have in a workload

VARIABLES phase,  \* "free": the owner has the pool; "running": the workers do
          todo    \* the tasks of the workload that did not run yet

vars == <<phase, todo>>

Init == phase = "free" /\ todo = {}

(* A workload is accepted.                                                 *)
Submit(S) ==
    /\ phase = "free" /\ S # {}
    /\ phase' = "running" /\ todo' = S

(* Some worker runs a task.                                                *)
Run(i) ==
    /\ phase = "running" /\ i \in todo
    /\ todo' = todo \ {i} /\ UNCHANGED phase

(* The future becomes ready.                                               *)
Resolve ==
    /\ phase = "running" /\ todo = {}
    /\ phase' = "free" /\ UNCHANGED todo

Next ==
    \/ \E S \in SUBSET Tasks : Submit(S)
    \/ \E i \in todo : Run(i)
    \/ Resolve

Spec == Init /\ [][Next]_vars
=============================================================================
