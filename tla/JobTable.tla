------------------------------ MODULE JobTable ------------------------------
(***************************************************************************)
(* The row of the `jobs` table (backend/app/models.py, class Job) as the   *)
(* lifecycle code reads and writes it, and what each service function      *)
(* assigns to a row.  Only the four columns that steer the lifecycle are   *)
(* kept: status, attempt_count, claimed_by_worker_id and whether run_at    *)
(* has been reached.                                                       *)
(*                                                                         *)
(* Handlers are SQLAlchemy sessions: they load a row, assign attributes to *)
(* the loaded object, and at commit() the session emits                    *)
(*     UPDATE jobs SET <columns whose value differs from the LOADED value> *)
(*     WHERE id = ...                                                      *)
(* with no version check.  Flush is that write: a column the session did   *)
(* not change keeps whatever another transaction has stored meanwhile.     *)
(***************************************************************************)
EXTENDS Integers

CONSTANTS
    Job,        \* job submissions; each becomes at most one row
    Worker,     \* registered workers (rows of the `workers` table)
    NULL        \* SQL NULL, and the absence of a job, slot or worker

ASSUME NullAssumption == NULL \notin Job \cup Worker

\* JobStatus without FAILED and RETRYING, which no code assigns to a job
\* (only executions become FAILED); "absent": the row is not inserted yet.
Status == {"absent", "blocked", "scheduled", "queued",
           "claimed", "running", "completed", "dead"}

Row == [status: Status, attempt: Nat, owner: Worker \cup {NULL}, due: BOOLEAN]

NoRow == [status |-> "absent", attempt |-> 0, owner |-> NULL, due |-> FALSE]

\* What counts against Queue.concurrency_limit and what the reaper looks at.
Active == {"claimed", "running"}

-----------------------------------------------------------------------------
(* What each service function assigns to the row it loaded.                *)

\* create_job: the initial lifecycle state.
Ready(due) == IF due THEN "queued" ELSE "scheduled"

\* Mistaken variant: run_at decides before the dependencies do.
NewRowByTime(unmet, due) ==
    [NoRow EXCEPT !.status = IF unmet /\ due THEN "blocked" ELSE Ready(due),
                  !.due = due]

NewRow(unmet, due) ==
    [NoRow EXCEPT !.status = IF unmet THEN "blocked" ELSE Ready(due),
                  !.due = due]

\* Mistaken variant: the attempt is not counted.
ClaimedUncounted(row, w) == [row EXCEPT !.status = "claimed", !.owner = w]

\* claim_next_job, the SET clause of the atomic UPDATE.
Claimed(row, w) ==
    [row EXCEPT !.status = "claimed", !.owner = w, !.attempt = @ + 1]

\* mark_running, mark_completed, cancel_job and the DEAD branch of mark_failed
\* assign nothing but the status (and columns not modelled).
WithStatus(row, s) == [row EXCEPT !.status = s]

\* The retry branch of mark_failed, and reap_stale_jobs: back to the queue,
\* the owner cleared, the attempt count kept.
Requeued(row) == [row EXCEPT !.status = "queued", !.owner = NULL]

\* manual_retry_job and replay_dlq_entry: the attempt count restarts too.
Restarted(row) == [Requeued(row) EXCEPT !.attempt = 0]

-----------------------------------------------------------------------------
(* The session's write at commit.                                          *)

Flush(cur, old, new) ==
    [cur EXCEPT
        !.status  = IF new.status  # old.status  THEN new.status  ELSE @,
        !.attempt = IF new.attempt # old.attempt THEN new.attempt ELSE @,
        !.owner   = IF new.owner   # old.owner   THEN new.owner   ELSE @]

\* run_at is a fresh timestamp whenever it is assigned, so it is always written.
FlushRunAt(cur, old, new, due) == [Flush(cur, old, new) EXCEPT !.due = due]
=============================================================================
