--------------------------- MODULE JobProperties ---------------------------
(***************************************************************************)
(* What the job lifecycle should guarantee, and what the documentation     *)
(* says it does.  Which failures and operator requests each property       *)
(* survives is what the runs tell; the comments name the limits.           *)
(***************************************************************************)
EXTENDS JobLifecycle

-----------------------------------------------------------------------------
(* Types.                                                                  *)

\* A thread past its claim has a job, a request in progress is about a job,
\* and a worker's request says which worker.  TypeOK needs it to be inductive.
Assigned ==
    /\ \A s \in Slot : slot[s].job = NULL <=> slot[s].pc \in {"free", "claim"}
    /\ \A h \in Handler : handler[h].op # "idle" => handler[h].job # NULL
    /\ \A h \in Handler : handler[h].op \in Waiting \cup {"update"}
                           => handler[h].worker # NULL

TypeInv == TypeOK /\ Assigned

-----------------------------------------------------------------------------
(* Workflow dependencies.                                                  *)

Runnable == {"scheduled", "queued", "claimed", "running", "completed"}

Released(j) == DependsOn[j] \subseteq everDone \/ j \in forced

\* A job leaves BLOCKED only after every dependency it was submitted with has
\* reached COMPLETED, unless an operator forced it (retry or replay): whatever
\* promotions, ticks, reaps, late starts and failures come in between.
DependenciesFirst ==
    \A j \in Job : jobs[j].status \in Runnable => Released(j)

\* The parts that make it inductive: what is already on its way to a write
\* concerns released jobs only.
CompletedIsDone == \A j \in Job : jobs[j].status = "completed" => j \in everDone
SlotsReleased == \A s \in Slot : slot[s].job # NULL => Released(slot[s].job)
ReportsReleased ==
    \A h \in Handler : handler[h].op \in {"start", "complete", "edges", "fail"}
                       => Released(handler[h].job)
PlansReleased ==
    \A h \in Handler : /\ handler[h].op # "count" => handler[h].dep = NULL
                       /\ \A d \in Job : /\ handler[h].plan[d] \in {"queued", "scheduled"}
                                         /\ d # handler[h].dep
                                         => Released(d)
CreatesReleased ==
    \A h \in Handler : handler[h].op = "create" =>
        /\ handler[h].snap.status # "completed"
        /\ handler[h].snap.status \in Runnable => Released(handler[h].job)
BatchReleased == \A j \in sched.batch : Released(j)

\* DependenciesFirst and everything it rests on, as one inductive invariant:
\* rows, executor threads, handlers and the scheduler's batch never carry an
\* unreleased job towards a runnable status.
DependencyInv ==
    /\ DependenciesFirst
    /\ CompletedIsDone
    /\ SlotsReleased
    /\ ReportsReleased
    /\ PlansReleased
    /\ CreatesReleased
    /\ BatchReleased

\* Handler h has still to look at dependent d, or has decided to promote it.
WillPromote(h, d) ==
    LET r == handler[h] IN
    \/ r.op = "edges" /\ r.job \in DependsOn[d]
    \/ r.op \in {"scan", "count"} /\ r.plan[d] # "keep"

\* A BLOCKED job whose dependencies are all COMPLETED has a handler that is
\* about to promote it, whichever of several completions was the last and
\* whatever the others have seen: no promotion is left to nobody.  (One can be,
\* when a dependent is created meanwhile or a handler dies: LostPromotion.)
NoPromotionLost ==
    \A d \in Job : jobs[d].status = "blocked" /\ Remaining(d) = {}
                  => \E h \in Handler : WillPromote(h, d)

-----------------------------------------------------------------------------
(* Claims and ownership.                                                   *)

\* No two executor threads, of one worker or of two, are working on the same
\* job: through crashes and reaping, lost replies, API restarts and database
\* errors, as long as a live worker's heartbeats arrive in time and the requests
\* of a dead one are over when it times out.
SoleRunner ==
    \A s, t \in Slot : slot[s].job # NULL /\ slot[s].job = slot[t].job => s = t

\* While a thread has a job, from the claim to its report, the table says so:
\* the row is CLAIMED or RUNNING and owned by the thread's worker.
RunnerOwnsJob ==
    \A s \in Slot : slot[s].pc \in {"hold", "start", "run", "raised"} =>
        /\ jobs[slot[s].job].status \in Active
        /\ jobs[slot[s].job].owner = WorkerOf[s]

\* A job that is CLAIMED or RUNNING is in the hands of a thread of its owner,
\* from the claim to the report, or its owner is dead and will be reaped: no
\* worker that lives has forgotten it.  Said of jobs with at most one
\* dependency, as EveryJobSettles is, and without lost answers and errors.
NothingForgotten ==
    \A j \in Job : Cardinality(DependsOn[j]) <= 1 /\ jobs[j].status \in Active =>
        \/ jobs[j].owner \in Worker \ up
        \/ \E s \in Slot : slot[s].job = j /\ WorkerOf[s] = jobs[j].owner

\* A job is attempted at most max_retries times (once when that is 0), plus
\* once for every worker that crashed under it.
ClaimsWithinBudget ==
    \A j \in Job : claims[j] <= (IF RetryLimit[j] = 0 THEN 1 ELSE RetryLimit[j])
                                + Cardinality(Worker \ up)

\* concurrency_limit is exceeded only by claims that counted the running jobs
\* before another's commit, and a worker makes one claim at a time: of the jobs
\* a queue runs, those too many are fewer than the workers that run them, so a
\* worker alone never exceeds a limit and a limit of 0 lets nothing run.
\* (Patched down, a limit is below what already runs; a start handled late or
\* after a cancellation counts nothing.)
LimitOvershoot ==
    \A q \in Queue :
        Cardinality(ActiveIn(q)) > limit[q]
        => Cardinality(ActiveIn(q)) < limit[q] + Cardinality({jobs[j].owner : j \in ActiveIn(q)})

-----------------------------------------------------------------------------
(* Attempts, executions and the dead letter queue.                         *)

\* Each attempt has at most one execution row and its number is one the job
\* has reached, so "the latest execution" is the row of the attempt reported
\* ("one row per attempt", models.py).  When an answer is lost, a start handled
\* late can add a second row to a later attempt.
OneExecutionPerAttempt ==
    \A j \in Job :
        /\ \A i, k \in DOMAIN execs[j] : execs[j][i].attempt = execs[j][k].attempt => i = k
        /\ \A i \in DOMAIN execs[j] : execs[j][i].attempt \in 1..jobs[j].attempt

\* When a job is back in the queue, completed or dead, no execution row of it
\* is left RUNNING but those of workers that crashed: a report closes the row
\* of its own attempt.
NoExecutionLeftOpen ==
    \A j \in Job : jobs[j].status \notin Active =>
        \A i \in DOMAIN execs[j] : execs[j][i].status = "running" => execs[j][i].worker \notin up

\* DEAD means "exhausted retries -> moved to Dead Letter Queue" (models.py):
\* the attempts are used up and the entry is there.
DeadIsExplained ==
    \A j \in Job : jobs[j].status = "dead" =>
        dlq[j] = "open" /\ jobs[j].attempt >= RetryLimit[j]

-----------------------------------------------------------------------------
(* The abstract specification this one implements.                         *)

Phase(row) ==
    CASE row.status = "absent"    -> "unborn"
      [] row.status \in Active    -> "held"
      [] row.status = "completed" -> "done"
      [] row.status = "dead"      -> "failed"
      [] OTHER                    -> "waiting"

Contract == INSTANCE JobContract WITH
    phase  <- [j \in Job |-> Phase(jobs[j])],
    holder <- [j \in Job |-> IF jobs[j].status \in Active THEN jobs[j].owner ELSE NULL]

\* With crashes and database errors, but no lost reply, no silent live worker
\* and no operator request other than create, every step is a step of the
\* contract or leaves it alone: one holder at a time, one outcome.
ImplementsContract == Contract!Spec

-----------------------------------------------------------------------------
(* Liveness, under FairSpec.                                               *)

\* A claimable job ends COMPLETED or DEAD, also when workers crash under it.
\* It is said of jobs with at most one dependency: two completions can promote
\* a job twice, and then it may exhaust its retries twice, which cannot be
\* recorded (ReplayedRunEnds).
EveryJobSettles ==
    \A j \in Job : Cardinality(DependsOn[j]) <= 1 =>
        (jobs[j].status = "queued" ~> jobs[j].status \in {"completed", "dead"})

\* No job stays CLAIMED or RUNNING for ever ("jobs no longer stay stuck
\* forever if their worker dies", reap_stale_jobs).
NothingStaysActive ==
    \A j \in Job : jobs[j].status \in Active ~> jobs[j].status \notin Active

\* A run of a job that was retried or replayed ends too, one way or the other
\* ("Requeue for another full attempt cycle", docs/API_DOCUMENTATION.md).
ReplayedRunEnds ==
    \A j \in Job : (j \in forced /\ jobs[j].status \in Active) ~> jobs[j].status \notin Active

\* A blocked job is promoted once every job it depends on has completed
\* (docs/API_DOCUMENTATION.md, "Workflow Dependencies").
DependentsReleased ==
    \A d \in Job : (jobs[d].status = "blocked" /\ Remaining(d) = {})
                   ~> jobs[d].status # "blocked"

=============================================================================
