------------------------------ MODULE JobQueue ------------------------------
(***************************************************************************)
(* What Bull does with a job that does not complete.  The queues are those *)
(* of replication, compression and deduplication; the services add their   *)
(* jobs with `attempts: 3`, and processUploadedFile with Bull's one.       *)
(* `attempts` and `stalls` count what is left of Bull's limits.            *)
(***************************************************************************)
EXTENDS Naturals

NoJob == [state |-> "none"]

JobStates == {"waiting", "active", "completed", "failed"}
Attempts  == 1..3
Stalls    == 0..1    \* maxStalledCount is 1

(* Two mistakes in the place of Retried. *)
RetriedForEver(job) == [job EXCEPT !.state = "waiting"]
RetriedOnceMore(job) ==
    IF job.attempts > 0 THEN [job EXCEPT !.state = "waiting", !.attempts = @ - 1]
                        ELSE [job EXCEPT !.state = "failed"]

(* A job whose handler throws waits again while it has attempts left; the  *)
(* backoff only delays it.                                                 *)
Retried(job) ==
    IF job.attempts > 1 THEN [job EXCEPT !.state = "waiting", !.attempts = @ - 1]
                        ELSE [job EXCEPT !.state = "failed"]

(* A job whose worker is gone waits again once, at no cost to its attempts. *)
Stalled(job) ==
    IF job.stalls > 0 THEN [job EXCEPT !.state = "waiting", !.stalls = @ - 1]
                      ELSE [job EXCEPT !.state = "failed"]

(* A mistake in the place of StallActive: nobody looks for stalled jobs. *)
StallActiveNever(jobs) == jobs

StallActive(jobs) ==
    [j \in DOMAIN jobs |-> IF jobs[j].state = "active" THEN Stalled(jobs[j]) ELSE jobs[j]]

(* How often a job may still be started. *)
StartsLeft(job) ==
    CASE job.state = "waiting" -> job.attempts + job.stalls
      [] job.state = "active"  -> job.attempts + job.stalls - 1
      [] OTHER                 -> 0

=============================================================================
