---------------------------- MODULE JobLifecycle ----------------------------
(***************************************************************************)
(* The life of a job: the API's handlers (backend/app/routers/jobs.py and  *)
(* workers.py over services/job_service.py), the executor threads of the   *)
(* worker processes that call them (backend/app/worker.py), one elected    *)
(* scheduler (services/scheduler_service.py) and the operator's requests,  *)
(* over one shared database.                                               *)
(*                                                                         *)
(* Every handler is a database session in a thread of its own.  Its reads  *)
(* see the latest committed rows and its commit is atomic, but anything    *)
(* may commit between the two, so a handler is a read step and a commit    *)
(* step, and `handler` holds what it has read.  Sending a request is       *)
(* merged with the handler's first read: until that read nothing of the    *)
(* request can be observed.  A request whose caller gave up can be read    *)
(* arbitrarily later (LateRead).                                           *)
(***************************************************************************)
EXTENDS JobTable, Sequences, FiniteSets

CONSTANTS
    Slot,          \* executor threads of all workers (--concurrency of each)
    WorkerOf,      \* the worker a slot belongs to
    Serves,        \* jobs a worker's queue list and shard filter let through
    Handler,       \* request-handling threads of the API
    Queue,
    QueueOf,       \* Job.queue_id
    Priority,      \* Job.priority
    RetryLimit,    \* Job.max_retries
    DependsOn,     \* JobDependency rows a submission asks for
    Delayed,       \* submissions whose run_at is in the future
    Key,           \* idempotency_key, NULL when not given
    Preloaded,     \* jobs inserted before the behaviour starts
    Limits,        \* values Queue.concurrency_limit is given
    Ops,           \* operator requests this instance makes
    Faults,        \* failures this instance suffers
    Mortal,        \* workers that may crash
    MaxClaims      \* bound: how often one job is claimed

AllOps    == {"create", "cancel", "retry", "replay", "drain", "list", "pause", "patch"}
AllFaults == {"silence", "lost_reply", "api_crash", "db_error"}

ASSUME SlotAssumption == /\ NULL \notin Slot
                         /\ WorkerOf \in [Slot -> Worker]
                         /\ Serves \in [Worker -> SUBSET Job]
ASSUME JobAssumption == /\ QueueOf \in [Job -> Queue]
                        /\ Priority \in [Job -> Int]
                        /\ RetryLimit \in [Job -> Nat]
                        /\ DependsOn \in [Job -> SUBSET Job]
                        /\ Delayed \subseteq Job
                        /\ Preloaded \subseteq Job
                        /\ \A j \in Preloaded : DependsOn[j] \subseteq Preloaded
ASSUME InstanceAssumption == /\ Limits \subseteq Nat
                             /\ Ops \subseteq AllOps
                             /\ Faults \subseteq AllFaults
                             /\ Mortal \subseteq Worker
                             /\ MaxClaims \in Nat

VARIABLES
    jobs,       \* the jobs table
    execs,      \* job_executions of each job, in insertion order
    dlq,        \* the dead_letter_queue entry of each job (job_id is UNIQUE)
    handler,    \* what each API thread is doing and has read
    slot,       \* what each executor thread is doing
    up,         \* worker processes that are alive
    stale,      \* workers whose last_seen_at is past the heartbeat timeout
    draining,   \* workers whose status column is DRAINING
    paused,     \* queues with is_paused
    limit,      \* Queue.concurrency_limit
    sched,      \* the elected scheduler's pass and the rows it has loaded
    claims,     \* history: successful claims of each job
    everDone,   \* history: jobs whose COMPLETED was committed at some time
    forced      \* history: jobs an operator retried or replayed

tables  == <<jobs, execs, dlq>>
fleet   == <<slot, up, stale, draining>>
queues  == <<paused, limit>>
history == <<claims, everDone, forced>>
vars    == <<jobs, execs, dlq, handler, slot, up, stale, draining, paused, limit,
             sched, claims, everDone, forced>>

-----------------------------------------------------------------------------
(* Types.                                                                  *)

Execution == [worker: Worker, attempt: Nat, status: {"running", "completed", "failed"}]

\* What the loop of promote_ready_dependents decided about each job: not
\* looked at yet, leave it, or the status assigned to the loaded row.
Decision == {"todo", "keep", "queued", "scheduled"}
NoPlan == [d \in Job |-> "keep"]

HandlerOp == {"idle", "claim", "update", "start", "complete", "edges", "scan",
              "count", "fail", "create", "cancel", "retry", "replay"}

HandlerState ==
    [op: HandlerOp,
     job: Job \cup {NULL},
     slot: Slot \cup {NULL},        \* who waits for the reply; NULL: nobody
     worker: Worker \cup {NULL},
     snap: Row,                     \* the job row as loaded
     exec: Nat,                     \* the loaded execution row, 0 for none
     seen: {"none", "running", "completed", "failed"},  \* its status as loaded
     plan: [Job -> Decision],
     dep: Job \cup {NULL}]          \* the dependent whose edges are being counted

Idle == [op |-> "idle", job |-> NULL, slot |-> NULL, worker |-> NULL, snap |-> NoRow,
         exec |-> 0, seen |-> "none", plan |-> NoPlan, dep |-> NULL]

SlotState == [pc: {"free", "claim", "hold", "start", "run", "complete", "raised", "fail"},
              job: Job \cup {NULL}]
FreeSlot == [pc |-> "free", job |-> NULL]

SchedState == [pass: {"promote", "promoting", "reap", "reaping"}, batch: SUBSET Job]

TypeOK ==
    /\ jobs \in [Job -> Row]
    /\ execs \in [Job -> Seq(Execution)]
    /\ dlq \in [Job -> {"none", "open", "replayed"}]
    /\ handler \in [Handler -> HandlerState]
    /\ slot \in [Slot -> SlotState]
    /\ up \subseteq Worker /\ stale \subseteq Worker /\ draining \subseteq Worker
    /\ paused \subseteq Queue
    /\ limit \in [Queue -> Nat]
    /\ sched \in SchedState
    /\ claims \in [Job -> Nat]
    /\ everDone \subseteq Job /\ forced \subseteq Job

-----------------------------------------------------------------------------
(* Init: the tables after the preloaded submissions, all workers registered *)

Init ==
    /\ jobs = [j \in Job |-> IF j \in Preloaded
                             THEN NewRow(DependsOn[j] # {}, j \notin Delayed)
                             ELSE NoRow]
    /\ execs = [j \in Job |-> <<>>]
    /\ dlq = [j \in Job |-> "none"]
    /\ handler = [h \in Handler |-> Idle]
    /\ slot = [s \in Slot |-> FreeSlot]
    /\ up = Worker
    /\ stale = {} /\ draining = {} /\ paused = {}
    /\ limit \in [Queue -> Limits]
    /\ sched = [pass |-> "promote", batch |-> {}]
    /\ claims = [j \in Job |-> 0]
    /\ everDone = {} /\ forced = {}

-----------------------------------------------------------------------------
(* Requests and replies.                                                   *)

Waiting == {"claim", "start", "complete", "fail"}

\* _execute and _claim after an answer: start's status code is never looked
\* at, a refused claim and any report end the thread's work on the job.
AfterReply(t) == IF t.pc = "start" THEN [t EXCEPT !.pc = "run"] ELSE FreeSlot

\* ... and after requests raised: start and complete are inside the try block
\* whose handler posts /fail; a failed claim or fail only frees the thread.
AfterNoReply(t) ==
    IF t.pc \in {"start", "complete"} THEN [t EXCEPT !.pc = "raised"] ELSE FreeSlot

\* The handler returns (whatever the status code).
Reply(h) ==
    /\ handler' = [handler EXCEPT ![h] = Idle]
    /\ slot' = [s \in Slot |-> IF s = handler[h].slot THEN AfterReply(slot[s]) ELSE slot[s]]

\* A request of an executor thread, with the job row as it is now.
Request(op, j, s, row) ==
    [Idle EXCEPT !.op = op, !.job = j, !.slot = s, !.worker = WorkerOf[s], !.snap = row]

\* A request of the dashboard or another API client.
UserRequest(op, j, row) == [Idle EXCEPT !.op = op, !.job = j, !.snap = row]

Send(h, s, pc, j, request) ==
    /\ handler[h] = Idle
    /\ handler' = [handler EXCEPT ![h] = request]
    /\ slot' = [slot EXCEPT ![s] = [pc |-> pc, job |-> j]]

-----------------------------------------------------------------------------
(* Claiming: Worker.poll_loop, POST /workers/{id}/claim, claim_next_job.   *)

Eligible(w) ==
    {j \in Serves[w] : /\ jobs[j].status = "queued"
                       /\ jobs[j].due
                       /\ QueueOf[j] \notin paused}

\* ORDER BY priority DESC; the order of equal priorities (run_at) is left open.
Candidates(w) ==
    {j \in Eligible(w) : \A k \in Eligible(w) : Priority[j] >= Priority[k]}

ActiveIn(q) == {j \in Job : QueueOf[j] = q /\ jobs[j].status \in Active}

\* Mistaken variant: one more than the limit.
HasRoomOneMore(q) == Cardinality(ActiveIn(q)) <= limit[q]

HasRoom(q) == Cardinality(ActiveIn(q)) < limit[q]

\* The main thread polls while a thread is free, one claim at a time; the
\* handler refuses a DRAINING worker and selects one candidate.
Poll(h, s) ==
    LET w == WorkerOf[s] IN
    /\ w \in up
    /\ w \notin draining
    /\ slot[s].pc = "free"
    /\ \A t \in Slot : WorkerOf[t] = w => slot[t].pc # "claim"
    /\ \E j \in Candidates(w) :
          /\ claims[j] < MaxClaims
          /\ Send(h, s, "claim", NULL, Request("claim", j, s, NoRow))
    /\ UNCHANGED <<tables, up, stale, draining, queues, sched, history>>

\* The running count of the candidate's queue is below its limit ...
WithinLimit(h) ==
    /\ handler[h].op = "claim"
    /\ HasRoom(QueueOf[handler[h].job])
    /\ handler' = [handler EXCEPT ![h].op = "update"]
    /\ UNCHANGED <<tables, fleet, queues, sched, history>>

\* ... or the handler answers "nothing to do" without trying another job.
AtLimit(h) ==
    /\ handler[h].op = "claim"
    /\ ~ HasRoom(QueueOf[handler[h].job])
    /\ Reply(h)
    /\ UNCHANGED <<tables, up, stale, draining, queues, sched, history>>

\* Mistaken variants: the UPDATE forgets the status, or also takes over
\* claims not started yet.
ClaimableAlways(row) == TRUE
ClaimableUnstarted(row) == row.status \in {"queued", "claimed"}

\* UPDATE ... WHERE id = candidate AND status = 'queued': one row changed.
Claimable(row) == row.status = "queued"

\* The claim is committed before the row is read again, the log written and
\* committed, and the answer sent: one of these may fail, and the worker hears
\* that nothing was claimed.
ClaimAnswers(j) ==
    {[pc |-> "hold", job |-> j]}
        \cup (IF Faults \cap {"db_error", "api_crash"} = {} THEN {} ELSE {FreeSlot})

WinClaim(h) ==
    LET j == handler[h].job IN
    /\ handler[h].op = "update"
    /\ Claimable(jobs[j])
    /\ jobs' = [jobs EXCEPT ![j] = Claimed(@, handler[h].worker)]
    /\ claims' = [claims EXCEPT ![j] = @ + 1]
    /\ handler' = [handler EXCEPT ![h] = Idle]
    /\ \E answer \in ClaimAnswers(j) :
          slot' = [s \in Slot |-> IF s = handler[h].slot THEN answer ELSE slot[s]]
    /\ UNCHANGED <<execs, dlq, up, stale, draining, queues, sched, everDone, forced>>

\* No row changed: another transaction claimed it first.
LoseClaim(h) ==
    /\ handler[h].op = "update"
    /\ ~ Claimable(jobs[handler[h].job])
    /\ Reply(h)
    /\ UNCHANGED <<tables, up, stale, draining, queues, sched, history>>

-----------------------------------------------------------------------------
(* Starting: Worker._execute, POST /jobs/{id}/start, mark_running.         *)

PostStart(h, s) ==
    LET j == slot[s].job IN
    /\ slot[s].pc = "hold"
    /\ Send(h, s, "start", j, Request("start", j, s, jobs[j]))
    /\ UNCHANGED <<tables, up, stale, draining, queues, sched, history>>

NewExecution(h) == [worker |-> handler[h].worker,
                    attempt |-> handler[h].snap.attempt,
                    status |-> "running"]

\* No look at the status or the owner: whatever was loaded becomes RUNNING.
CommitStart(h) ==
    LET j == handler[h].job
        row == handler[h].snap IN
    /\ handler[h].op = "start"
    /\ jobs' = [jobs EXCEPT ![j] = Flush(@, row, WithStatus(row, "running"))]
    /\ execs' = [execs EXCEPT ![j] = Append(@, NewExecution(h))]
    /\ Reply(h)
    /\ UNCHANGED <<dlq, up, stale, draining, queues, sched, history>>

\* run_task raises: TaskFailure, an unknown task name, any exception.
TaskFails(s) ==
    /\ slot[s].pc = "run"
    /\ slot' = [slot EXCEPT ![s].pc = "raised"]
    /\ UNCHANGED <<tables, handler, up, stale, draining, queues, sched, history>>

-----------------------------------------------------------------------------
(* Reporting: POST /jobs/{id}/complete and /fail, mark_completed, mark_failed *)

\* Mistaken variant: ascending order.
Earliest(j) ==
    {i \in DOMAIN execs[j] :
        \A k \in DOMAIN execs[j] : execs[j][i].attempt <= execs[j][k].attempt}

\* ORDER BY attempt_number DESC, first row; equal numbers are left open.
Latest(j) ==
    {i \in DOMAIN execs[j] :
        \A k \in DOMAIN execs[j] : execs[j][i].attempt >= execs[j][k].attempt}

Report(op, j, s, i) ==
    [Request(op, j, s, jobs[j]) EXCEPT !.exec = i, !.seen = execs[j][i].status]

PostReport(h, s) ==
    \E op \in {"complete", "fail"} :
        /\ slot[s].pc = (IF op = "complete" THEN "run" ELSE "raised")
        /\ \E i \in Latest(slot[s].job) :
              Send(h, s, op, slot[s].job, Report(op, slot[s].job, s, i))
        /\ UNCHANGED <<tables, up, stale, draining, queues, sched, history>>

\* 400 "No execution in progress": the worker does not look at the answer.
ReportRefused(s) ==
    /\ slot[s].pc \in {"run", "raised"}
    /\ execs[slot[s].job] = <<>>
    /\ slot' = [slot EXCEPT ![s] = FreeSlot]
    /\ UNCHANGED <<tables, handler, up, stale, draining, queues, sched, history>>

\* Mistaken variant: the execution gets the job's next status.
FinishExecutionAsJob(h, st) ==
    [execs EXCEPT ![handler[h].job][handler[h].exec].status =
        IF st = "failed" THEN "dead" ELSE st]

\* execution.status is written when it differs from the status loaded.
FinishExecution(h, st) ==
    [execs EXCEPT ![handler[h].job][handler[h].exec].status =
        IF handler[h].seen # st THEN st ELSE @]

\* mark_completed up to its commit; the promotion of dependents follows in a
\* transaction of its own, before the reply.
CommitComplete(h) ==
    LET j == handler[h].job
        row == handler[h].snap IN
    /\ handler[h].op = "complete"
    /\ jobs' = [jobs EXCEPT ![j] = Flush(@, row, WithStatus(row, "completed"))]
    /\ execs' = FinishExecution(h, "completed")
    /\ everDone' = everDone \cup {j}
    /\ handler' = [handler EXCEPT ![h].op = "edges"]
    /\ UNCHANGED <<dlq, fleet, queues, sched, claims, forced>>

\* Mistaken variants: one attempt too many, one too few.
AttemptsLeftOneMore(row, j) == row.attempt <= RetryLimit[j]
AttemptsLeftOneLess(row, j) == row.attempt + 1 < RetryLimit[j]

AttemptsLeft(row, j) == row.attempt < RetryLimit[j]

\* mark_failed, attempts left: back to the queue after a backoff delay.
CommitRequeue(h) ==
    LET j == handler[h].job
        row == handler[h].snap IN
    /\ handler[h].op = "fail"
    /\ AttemptsLeft(row, j)
    /\ jobs' = [jobs EXCEPT ![j] = FlushRunAt(@, row, Requeued(row), FALSE)]
    /\ execs' = FinishExecution(h, "failed")
    /\ Reply(h)
    /\ UNCHANGED <<dlq, up, stale, draining, queues, sched, history>>

\* mark_failed, attempts exhausted: DEAD with a dead letter queue entry.
CommitDead(h) ==
    LET j == handler[h].job
        row == handler[h].snap IN
    /\ handler[h].op = "fail"
    /\ ~ AttemptsLeft(row, j)
    /\ dlq[j] = "none"
    /\ jobs' = [jobs EXCEPT ![j] = Flush(@, row, WithStatus(row, "dead"))]
    /\ execs' = FinishExecution(h, "failed")
    /\ dlq' = [dlq EXCEPT ![j] = "open"]
    /\ Reply(h)
    /\ UNCHANGED <<up, stale, draining, queues, sched, history>>

\* The job already has an entry: dead_letter_queue.job_id is UNIQUE, the
\* commit raises, everything is rolled back and the answer is a 500.
DuplicateDeadLetter(h) ==
    /\ handler[h].op = "fail"
    /\ ~ AttemptsLeft(handler[h].snap, handler[h].job)
    /\ dlq[handler[h].job] # "none"
    /\ Reply(h)
    /\ UNCHANGED <<tables, up, stale, draining, queues, sched, history>>

-----------------------------------------------------------------------------
(* promote_ready_dependents: a loop over the edges of the completed job    *)
(* that loads one dependent and counts its unfinished dependencies, then   *)
(* one commit for all the promotions.                                      *)

ReadEdges(h) ==
    /\ handler[h].op = "edges"
    /\ handler' = [handler EXCEPT
          ![h].op = "scan",
          ![h].plan = [d \in Job |-> IF /\ handler[h].job \in DependsOn[d]
                                        /\ jobs[d].status # "absent"
                                     THEN "todo" ELSE "keep"]]
    /\ UNCHANGED <<tables, fleet, queues, sched, history>>

\* Mistaken variant: a dependent whose run_at is in the future is skipped.
ReadDependentDue(h) ==
    /\ handler[h].op = "scan"
    /\ \E d \in Job :
          /\ handler[h].plan[d] = "todo"
          /\ IF jobs[d].status = "blocked" /\ jobs[d].due
             THEN handler' = [handler EXCEPT ![h].op = "count", ![h].dep = d,
                                             ![h].plan[d] = "queued"]
             ELSE handler' = [handler EXCEPT ![h].plan[d] = "keep"]
    /\ UNCHANGED <<tables, fleet, queues, sched, history>>

\* The dependent is loaded: skipped unless BLOCKED; run_at is compared.
ReadDependent(h) ==
    /\ handler[h].op = "scan"
    /\ \E d \in Job :
          /\ handler[h].plan[d] = "todo"
          /\ IF jobs[d].status = "blocked"
             THEN handler' = [handler EXCEPT ![h].op = "count", ![h].dep = d,
                                             ![h].plan[d] = Ready(jobs[d].due)]
             ELSE handler' = [handler EXCEPT ![h].plan[d] = "keep"]
    /\ UNCHANGED <<tables, fleet, queues, sched, history>>

\* Mistaken variant: a DEAD dependency counts as finished.
RemainingAlive(d) == {k \in DependsOn[d] : jobs[k].status \notin {"completed", "dead"}}

\* `remaining`: dependencies of d that are not COMPLETED.
Remaining(d) == {k \in DependsOn[d] : jobs[k].status # "completed"}

CountRemaining(h) ==
    LET d == handler[h].dep IN
    /\ handler[h].op = "count"
    /\ handler' = [handler EXCEPT
          ![h].op = "scan", ![h].dep = NULL,
          ![h].plan[d] = IF Remaining(d) = {} THEN @ ELSE "keep"]
    /\ UNCHANGED <<tables, fleet, queues, sched, history>>

\* The loop is over: one commit of every promotion (none: no commit), reply.
CommitPromote(h) ==
    LET plan == handler[h].plan IN
    /\ handler[h].op = "scan"
    /\ \A d \in Job : plan[d] # "todo"
    /\ jobs' = [d \in Job |-> IF plan[d] = "keep" THEN jobs[d]
                              ELSE WithStatus(jobs[d], plan[d])]
    /\ Reply(h)
    /\ UNCHANGED <<execs, dlq, up, stale, draining, queues, sched, history>>

-----------------------------------------------------------------------------
(* Creating: POST /jobs and /jobs/batch, create_job.                       *)

\* The row with this (queue_id, idempotency_key), if there is one.
KeyHolders(j) ==
    {k \in Job : /\ Key[j] # NULL /\ Key[k] = Key[j] /\ QueueOf[k] = QueueOf[j]
                 /\ jobs[k].status # "absent"}

\* No row has the key and every dependency exists: the initial state is
\* chosen from what the dependencies are now.  (A known key returns the
\* existing row and an unknown dependency is refused: nothing changes.)
BeginCreate(h, j) ==
    /\ "create" \in Ops
    /\ handler[h] = Idle
    /\ jobs[j].status = "absent"
    /\ \A g \in Handler : ~ (handler[g].op = "create" /\ handler[g].job = j)
    /\ KeyHolders(j) = {}
    /\ \A k \in DependsOn[j] : jobs[k].status # "absent"
    /\ handler' = [handler EXCEPT ![h] =
          UserRequest("create", j, NewRow(Remaining(j) # {}, j \notin Delayed))]
    /\ UNCHANGED <<tables, fleet, queues, sched, history>>

CommitCreate(h) ==
    /\ handler[h].op = "create"
    /\ KeyHolders(handler[h].job) = {}
    /\ jobs' = [jobs EXCEPT ![handler[h].job] = handler[h].snap]
    /\ Reply(h)
    /\ UNCHANGED <<execs, dlq, up, stale, draining, queues, sched, history>>

\* uq_job_idempotency_per_queue: the INSERT raises and the answer is a 500.
DuplicateKey(h) ==
    /\ handler[h].op = "create"
    /\ KeyHolders(handler[h].job) # {}
    /\ Reply(h)
    /\ UNCHANGED <<tables, up, stale, draining, queues, sched, history>>

-----------------------------------------------------------------------------
(* The operator: cancel, retry, replay, drain, pause, PATCH of the limit.  *)

\* cancel_job refuses COMPLETED and RUNNING; manual_retry_job refuses
\* nothing; replay needs an entry, replayed before or not.
Accepts(op, j) ==
    /\ jobs[j].status # "absent"
    /\ op = "cancel" => jobs[j].status \notin {"completed", "running"}
    /\ op = "replay" => dlq[j] # "none"

BeginOperation(h, op, j) ==
    /\ op \in Ops
    /\ handler[h] = Idle
    /\ Accepts(op, j)
    /\ handler' = [handler EXCEPT ![h] = UserRequest(op, j, jobs[j])]
    /\ UNCHANGED <<tables, fleet, queues, sched, history>>

CommitCancel(h) ==
    LET j == handler[h].job
        row == handler[h].snap IN
    /\ handler[h].op = "cancel"
    /\ jobs' = [jobs EXCEPT ![j] = Flush(@, row, WithStatus(row, "dead"))]
    /\ Reply(h)
    /\ UNCHANGED <<execs, dlq, up, stale, draining, queues, sched, history>>

\* replay_dlq_entry is the retry plus the entry's replayed flag.
CommitRestart(h) ==
    LET j == handler[h].job
        row == handler[h].snap IN
    /\ handler[h].op \in {"retry", "replay"}
    /\ jobs' = [jobs EXCEPT ![j] = FlushRunAt(@, row, Restarted(row), TRUE)]
    /\ dlq' = IF handler[h].op = "replay" THEN [dlq EXCEPT ![j] = "replayed"] ELSE dlq
    /\ forced' = forced \cup {j}
    /\ Reply(h)
    /\ UNCHANGED <<execs, up, stale, draining, queues, sched, claims, everDone>>

\* The remaining requests are one statement each and are single steps; like
\* any request they need a thread of the API.
ThreadFree == \E h \in Handler : handler[h] = Idle

Drain(w) ==
    /\ "drain" \in Ops
    /\ ThreadFree
    /\ draining' = draining \cup {w}
    /\ UNCHANGED <<tables, handler, slot, up, stale, queues, sched, history>>

\* list_workers marks silent workers OFFLINE, whatever their status was.
ListWorkers ==
    /\ "list" \in Ops
    /\ ThreadFree
    /\ draining' = draining \ stale
    /\ UNCHANGED <<tables, handler, slot, up, stale, queues, sched, history>>

SetPaused(q, p) ==
    /\ "pause" \in Ops
    /\ ThreadFree
    /\ paused' = IF p THEN paused \cup {q} ELSE paused \ {q}
    /\ UNCHANGED <<tables, handler, fleet, limit, sched, history>>

PatchLimit(q, n) ==
    /\ "patch" \in Ops
    /\ ThreadFree
    /\ limit' = [limit EXCEPT ![q] = n]
    /\ UNCHANGED <<tables, handler, fleet, paused, sched, history>>

-----------------------------------------------------------------------------
(* The elected scheduler's tick: promote the due jobs, then reap the stuck *)
(* ones, each a load of rows and a commit (none loaded: no commit).        *)

DueJobs == {j \in Job : jobs[j].status = "scheduled" /\ jobs[j].due}

\* Mistaken variants: finished jobs keep their owner column and are reaped
\* too, or claims that were not started are not.
StuckAnyStatus == {j \in Job : jobs[j].owner \in stale}
StuckRunning == {j \in Job : jobs[j].status = "running" /\ jobs[j].owner \in stale}

\* Inner join with workers on claimed_by_worker_id: no owner, no match.
StuckJobs == {j \in Job : jobs[j].status \in Active /\ jobs[j].owner \in stale}

Load(pass, rows, next) ==
    sched' = IF rows = {} THEN [pass |-> next, batch |-> {}]
             ELSE [pass |-> pass, batch |-> rows]

ReadDueJobs ==
    /\ sched.pass = "promote"
    /\ Load("promoting", DueJobs, "reap")
    /\ UNCHANGED <<tables, handler, fleet, queues, history>>

CommitDueJobs ==
    /\ sched.pass = "promoting"
    /\ jobs' = [j \in Job |-> IF j \in sched.batch
                              THEN WithStatus(jobs[j], "queued") ELSE jobs[j]]
    /\ sched' = [pass |-> "reap", batch |-> {}]
    /\ UNCHANGED <<execs, dlq, handler, fleet, queues, history>>

ReadStuckJobs ==
    /\ sched.pass = "reap"
    /\ Load("reaping", StuckJobs, "promote")
    /\ UNCHANGED <<tables, handler, fleet, queues, history>>

\* Status and owner differ from what was loaded and run_at is new, so all
\* three columns are written.
CommitReap ==
    /\ sched.pass = "reaping"
    /\ jobs' = [j \in Job |-> IF j \in sched.batch
                              THEN [Requeued(jobs[j]) EXCEPT !.due = TRUE] ELSE jobs[j]]
    /\ sched' = [pass |-> "promote", batch |-> {}]
    /\ UNCHANGED <<execs, dlq, handler, fleet, queues, history>>

-----------------------------------------------------------------------------
(* Time and heartbeats.                                                    *)

\* run_at is reached.
TimePasses(j) ==
    /\ jobs[j].status # "absent"
    /\ ~ jobs[j].due
    /\ jobs' = [jobs EXCEPT ![j].due = TRUE]
    /\ UNCHANGED <<execs, dlq, handler, fleet, queues, sched, history>>

\* heartbeat: last_seen_at is now, and the status column is overwritten with
\* ACTIVE or IDLE whatever it was.
StatusAfterHeartbeat(w) == draining \ {w}

Heartbeat(w) ==
    /\ w \in up
    /\ w \in stale \cup draining
    /\ ThreadFree
    /\ stale' = stale \ {w}
    /\ draining' = StatusAfterHeartbeat(w)
    /\ UNCHANGED <<tables, handler, slot, up, queues, sched, history>>

\* The heartbeat timeout passes.  Unless "silence" is among the faults, that
\* takes a crash, and the API has ended the requests the worker had sent.  Both
\* are assumptions about time, which nothing in the code enforces: failed
\* heartbeats make a live worker stale, and the 10 s after which a client gives
\* up do not end the handler.  With "silence" neither is assumed.
GoStale(w) ==
    /\ w \notin stale
    /\ \/ "silence" \in Faults
       \/ w \notin up /\ \A h \in Handler : handler[h].worker # w
    /\ stale' = stale \cup {w}
    /\ UNCHANGED <<tables, handler, slot, up, draining, queues, sched, history>>

-----------------------------------------------------------------------------
(* Failures.                                                               *)

\* The worker process dies; what it had sent is still handled.
WorkerCrash(w) ==
    /\ w \in up \cap Mortal
    /\ up' = up \ {w}
    /\ slot' = [s \in Slot |-> IF WorkerOf[s] = w THEN FreeSlot ELSE slot[s]]
    /\ handler' = [h \in Handler |-> IF handler[h].worker = w
                                     THEN [handler[h] EXCEPT !.slot = NULL]
                                     ELSE handler[h]]
    /\ UNCHANGED <<tables, stale, draining, queues, sched, history>>

\* The caller gives up (timeout, broken connection); the handler goes on.
LoseReply(h) ==
    /\ "lost_reply" \in Faults
    /\ handler[h].slot # NULL
    /\ slot' = [slot EXCEPT ![handler[h].slot] = AfterNoReply(@)]
    /\ handler' = [handler EXCEPT ![h].slot = NULL]
    /\ UNCHANGED <<tables, up, stale, draining, queues, sched, history>>

\* A request nobody waits for any more had not been read yet: its first read
\* happens now.
LateRead(h) ==
    LET j == handler[h].job IN
    /\ handler[h].op \in Waiting
    /\ handler[h].slot = NULL
    /\ \/ /\ handler[h].op = "claim"
          /\ handler[h].worker \notin draining
          /\ \E k \in Candidates(handler[h].worker) :
                /\ claims[k] < MaxClaims
                /\ handler' = [handler EXCEPT ![h].job = k]
       \/ /\ handler[h].op = "start"
          /\ handler' = [handler EXCEPT ![h].snap = jobs[j]]
       \/ /\ handler[h].op \in {"complete", "fail"}
          /\ \E i \in Latest(j) :
                handler' = [handler EXCEPT ![h].snap = jobs[j], ![h].exec = i,
                                           ![h].seen = execs[j][i].status]
    /\ UNCHANGED <<tables, fleet, queues, sched, history>>

\* The API process dies and is restarted: every handler and its uncommitted
\* work is gone, every caller sees a connection error.
ApiCrash ==
    /\ "api_crash" \in Faults
    /\ \E h \in Handler : handler[h] # Idle
    /\ handler' = [h \in Handler |-> Idle]
    /\ slot' = [s \in Slot |-> IF slot[s].pc \in Waiting
                               THEN AfterNoReply(slot[s]) ELSE slot[s]]
    /\ UNCHANGED <<tables, up, stale, draining, queues, sched, history>>

\* A statement raises (database locked or unreachable): rollback and a 500.
DbError(h) ==
    /\ "db_error" \in Faults
    /\ handler[h].op # "idle"
    /\ Reply(h)
    /\ UNCHANGED <<tables, up, stale, draining, queues, sched, history>>

\* The same in a tick: logged, and the next tick starts over.
TickError ==
    /\ "db_error" \in Faults
    /\ sched.pass \in {"promoting", "reaping"}
    /\ sched' = [pass |-> "promote", batch |-> {}]
    /\ UNCHANGED <<tables, handler, fleet, queues, history>>

-----------------------------------------------------------------------------
ClaimStep(h) == WithinLimit(h) \/ AtLimit(h) \/ WinClaim(h) \/ LoseClaim(h)

ReportStep(h) == \/ CommitStart(h) \/ CommitComplete(h)
                 \/ CommitRequeue(h) \/ CommitDead(h) \/ DuplicateDeadLetter(h)

PromoteStep(h) == \/ ReadEdges(h) \/ ReadDependent(h)
                  \/ CountRemaining(h) \/ CommitPromote(h)

OperatorStep(h) == \/ CommitCreate(h) \/ DuplicateKey(h)
                   \/ CommitCancel(h) \/ CommitRestart(h)

HandlerStep(h) == ClaimStep(h) \/ ReportStep(h) \/ PromoteStep(h) \/ OperatorStep(h)

SlotStep(s) ==
    \/ \E h \in Handler : Poll(h, s) \/ PostStart(h, s) \/ PostReport(h, s)
    \/ TaskFails(s)
    \/ ReportRefused(s)

SchedulerStep == ReadDueJobs \/ CommitDueJobs \/ ReadStuckJobs \/ CommitReap

OperatorRequest ==
    \/ \E h \in Handler, j \in Job :
          \/ BeginCreate(h, j)
          \/ \E op \in {"cancel", "retry", "replay"} : BeginOperation(h, op, j)
    \/ \E w \in Worker : Drain(w)
    \/ ListWorkers
    \/ \E q \in Queue : \/ \E p \in BOOLEAN : SetPaused(q, p)
                        \/ \E n \in Limits : PatchLimit(q, n)

Failure ==
    \/ \E w \in Worker : WorkerCrash(w)
    \/ \E h \in Handler : LoseReply(h) \/ LateRead(h) \/ DbError(h)
    \/ ApiCrash
    \/ TickError

Clock == \/ \E j \in Job : TimePasses(j)
         \/ \E w \in Worker : Heartbeat(w) \/ GoStale(w)

Next ==
    \/ \E h \in Handler : HandlerStep(h)
    \/ \E s \in Slot : SlotStep(s)
    \/ SchedulerStep
    \/ OperatorRequest
    \/ Clock
    \/ Failure

Spec == Init /\ [][Next]_vars

(***************************************************************************)
(* Fairness: threads of the API are scheduled, an executor thread goes on  *)
(* with its job and a free one is polled for (time.sleep(poll_interval) in *)
(* a loop), the scheduler ticks, clocks advance and a crashed worker's     *)
(* heartbeat times out.  Nothing forces a failure, an operator request or  *)
(* a task to fail.                                                         *)
(***************************************************************************)
SlotProgress(s) ==
    \/ \E h \in Handler : Poll(h, s) \/ PostStart(h, s) \/ PostReport(h, s)
    \/ ReportRefused(s)

Fairness ==
    /\ \A h \in Handler : WF_vars(HandlerStep(h))
    /\ \A s \in Slot : WF_vars(SlotProgress(s))
    /\ WF_vars(SchedulerStep)
    /\ \A j \in Job : WF_vars(TimePasses(j))
    /\ \A w \in Worker : WF_vars(Heartbeat(w)) /\ WF_vars(GoStale(w) /\ w \notin up)

FairSpec == Spec /\ Fairness

=============================================================================
