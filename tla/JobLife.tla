------------------------------ MODULE JobLife ------------------------------
(***************************************************************************)
(* What a queue promises about its jobs, whatever attempts, stalls and     *)
(* executions there are: a job is added once and then waits, runs, or has  *)
(* ended for good; it is started a bounded number of times; it is given up *)
(* by an error only when no start is left but the one kept for a stop of   *)
(* the server; and a stop leaves nothing running.                          *)
(***************************************************************************)
EXTENDS Naturals

CONSTANTS Jobs, MaxStarts

VARIABLES
    state,   \* "none", "waiting", "running", "completed" or "failed", for each job
    left     \* how often each job may still be started

Init ==
    /\ state = [j \in Jobs |-> "none"]
    /\ left = [j \in Jobs |-> 0]

Moves(j, from, to, n) ==
    /\ state[j] = from
    /\ state' = [state EXCEPT ![j] = to]
    /\ left' = [left EXCEPT ![j] = n]

Add(j) == \E n \in 1..MaxStarts : Moves(j, "none", "waiting", n)

Start(j) == left[j] > 0 /\ Moves(j, "waiting", "running", left[j] - 1)

Complete(j) == Moves(j, "running", "completed", 0)

Return(j) == left[j] > 0 /\ Moves(j, "running", "waiting", left[j])

GiveUp(j) == left[j] <= 1 /\ Moves(j, "running", "failed", 0)

Running == {j \in Jobs : state[j] = "running"}

(* The jobs that were running and may be started again wait, or some do. *)
Stop ==
    \E back \in SUBSET {j \in Running : left[j] > 0} :
        /\ state' = [j \in Jobs |-> CASE j \in back           -> "waiting"
                                      [] j \in Running \ back -> "failed"
                                      [] OTHER                -> state[j]]
        /\ left' = [j \in Jobs |-> IF j \in Running \ back THEN 0 ELSE left[j]]

Next ==
    \/ \E j \in Jobs : Add(j) \/ Start(j) \/ Complete(j) \/ Return(j) \/ GiveUp(j)
    \/ Stop

Spec == Init /\ [][Next]_<<state, left>>

=============================================================================
