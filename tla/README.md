# Verification of the distributed job scheduler

TLA+ models of the scheduler in `backend/app`, checked with TLC on small
instances and proved, where it says so below, with TLAPS for every instance.
`PROJECT.json` lists the runs, the mutants of each property, the source lines
each definition stands for, the findings and the hazards.

## The system

An API process (FastAPI, one thread per request), any number of worker
processes and one or more scheduler processes share one SQL database. They
interact only through it: workers and users call the API, the scheduler uses
the database directly. There are no messages other than HTTP requests, and no
locks other than the database's own and the scheduler's lease.

| Component | State it keeps | Operations | What is hard | What makes it correct |
|---|---|---|---|---|
| job lifecycle (`services/job_service.py`, `routers/jobs.py`) | `jobs`, `job_executions`, `dead_letter_queue`, `job_dependencies` | create, batch, claim, start, complete (with promotion of dependents), fail (retry or dead letter), cancel, retry, replay | every handler reads, decides and commits in separate statements with no row version; reports can be late, lost or repeated; promotion is a second transaction | one runner per job, dependencies first, attempts in budget, executions closed, dead letters recorded, every job settles |
| queues (`routers/queues.py`) | limit, pause flag, shards | create, PATCH, pause, resume, stats | the limit is counted outside the claim | limit respected, paused queues not claimed from |
| workers, API side (`routers/workers.py`) | status, `last_seen_at` | register, heartbeat, drain, claim, list | one status column written by three handlers | drain sticks, silent workers are noticed |
| worker process (`worker.py`) | active count under a lock, thread pool, shutdown event | poll, claim, execute, heartbeat, drain and shutdown | a request that times out may still be executed; the signal handler runs on the polling thread | within its capacity; works on its own jobs; what it leaves comes back; shutdown ends |
| scheduler (`scheduler.py`, `services/scheduler_service.py`) | lease row, `scheduled_jobs` | tick: lease, promote due jobs, materialize recurring jobs, reap; shutdown | a tick can outlast its lease; a reap can hit a slow worker | one leader, each occurrence once, due schedules move on, a dead leader is replaced |
| backoff (`services/retry_service.py`) | none | delay | caps | within `max_delay` |
| live updates (`routers/websocket.py`, `routers/dashboard.py`) | list of sockets | broadcast, counts | iteration across `await`; counts of different moments | no client twice, none left out for good |
| accounts, projects, rate limit, schemas, settings, tasks, summaries, frontend | no lifecycle state | | | not modelled |

The hard-to-test behaviours, at their lines, are the `hazards` of
`PROJECT.json`; each names the properties that cover it or why none does.

## Modules

| Module | What it is |
|---|---|
| `JobTable` | a row of `jobs`, what each service function assigns to it, and `Flush`, the write of a SQLAlchemy session: only the columns whose value differs from the loaded one |
| `JobLifecycle` | the state machine: API threads, executor threads, one elected scheduler, operators, clocks, failures |
| `JobProperties` | what should hold of it, and what the documentation says |
| `JobContract` | abstract: a job waits, is held by one worker at a time, may be given back, is finished once |
| `SchedulerLock` | redundant scheduler processes, the leased lock, recurring schedules |
| `CronContract` | abstract: a schedule's cursor only moves on, and an occurrence gets at most one job |
| `WorkerProcess` | the threads of one worker process, their lock and the SIGTERM handler |
| `LiveUpdates` | the broadcast over the list of sockets |
| `JobLifecycleProofs`, `JobOwnershipProofs`, `JobAttemptsProofs`, `JobStepsProofs` | theorems about `JobLifecycle`: types and dependencies; ownership and the contract; attempts and executions; then what each kind of step can do, with ownership and attempts under faults, the limit of a queue, promotions on their way and jobs nobody may forget |
| `SchedulerLockProofs`, `CronContractProofs`, `WorkerProcessProofs`, `LiveUpdatesProofs` | theorems about the modules they are named after |
| `MCWorkflow`, `MCFleet`, `MCScheduler`, `MCWorkerProcess`, `MCLiveUpdates` | instances for TLC |

How they compose: `JobLifecycle` takes one elected scheduler for granted, which
`SchedulerLock` establishes (`LeadersAreAlone`); the two share the tick, whose
passes over jobs are steps of the first and whose election and recurring pass
are steps of the second. `JobLifecycle` has every worker as a set of executor
threads that poll one claim at a time; `WorkerProcess` opens one of them and
has the API and the reaper as its environment.

### State and actions of `JobLifecycle`

- `jobs`, `execs`, `dlq` are the tables; `draining`, `stale`, `paused`, `limit`
  are the columns of workers and queues that are read. `job_logs`, timestamps,
  results and error texts are left out; time is one bit per job (`due`:
  `run_at` is reached) and one per worker (`stale`: heartbeat timed out).
- `handler[h]` is a thread of the API in the middle of a request, with the rows
  it has loaded. `slot[s]` is one thread of a worker's pool, from the claim
  (`claim`, `hold`) through `/start`, `run`, and `/complete` or `/fail`.
- A handler is a read step and a commit step, because every handler queries,
  decides in Python and commits; whatever commits in between is not noticed.
  Requests are sent and first read in one step: nothing can be observed of a
  request before its first read. `LateRead` covers the exception, a request
  whose caller has given up before it is read.
- `claim_next_job` is three steps: the candidate (`Poll`), the count
  (`WithinLimit`, `AtLimit`), the atomic UPDATE (`WinClaim`, `LoseClaim`). The
  UPDATE is committed before the row is read again, the log committed and the
  answer sent: where the database or the API can fail, the worker may be told
  that nothing was claimed (`ClaimAnswers`).
- `/complete` is the commit of the completion (`CommitComplete`), then
  `promote_ready_dependents`: the edges (`ReadEdges`), for each the dependent
  (`ReadDependent`) and the count of what it waits for (`CountRemaining`), then
  one commit of all promotions (`CommitPromote`). `run_at` is compared when the
  dependent is loaded.
- `/fail` commits one of `CommitRequeue`, `CommitDead`, or fails as a whole
  (`DuplicateDeadLetter`).
- The scheduler alternates the two passes over jobs, each a load and a commit.
- Single-statement requests (drain, list, pause, resume, PATCH, heartbeat) are
  single steps; like any request they need an idle thread of the API.
- Failures: a worker dies (`WorkerCrash`), an answer is lost or late
  (`LoseReply`, `LateRead`), the API restarts (`ApiCrash`), a statement raises
  (`DbError`, `TickError`), heartbeats of a live worker are late
  (`GoStale` with "silence"). Without "silence", `GoStale` waits for a crash and
  for the API's requests of the dead worker to be over. Both are assumptions
  about time that the code does not enforce: a client gives up after 10 s and
  the heartbeat timeout is 30 s, but the handler of a request given up goes on
  as long as it takes. `Faults` and `Ops` say which of them, and which
  operator requests, an instance has; every run states its own.
- `claims`, `everDone` and `forced` are history variables.

### State and actions of `SchedulerLock`

- `clock` is time in small steps, the same for every instance (they and the
  API are taken to have synchronized clocks). `lock` is the `scheduler_locks`
  row, `cursor` the `next_run_at` of each schedule, `paused` the queues.
- `instance[i]` is where a process is in its tick: `Wake` reads the clock and
  looks for the row (the `now` of `try_acquire_lock`), `InsertRow` inserts it
  or rolls back, `Acquire` and `StandBy` are the UPDATE that matches or not,
  with the times read at `Wake`. Then `Promote` and `Reap` stand for the passes
  of `JobLifecycle`, and `process_recurring_jobs` is `LoadSchedules` (its own
  clock, the due rows), `Decide` for each row (the queue is read) and
  `Materialize` (one commit of jobs and cursors that looks at nothing again).
- `Stop` is SIGTERM at any of these points: the handler releases the lock in a
  session of its own, and SystemExit drops the tick's. `Crash` releases
  nothing. `TickError` is any exception of a tick; it is also what becomes of a
  stop whose release raises while a tick is running, because `main` catches it.
- `croniter` is the constant `NextAfter`, of which only "later than the moment
  given" is assumed. `Prompt` says whether a tick ends within its lease.
- `runs` counts the jobs of each occurrence: a history variable.

### State and actions of `WorkerProcess`

- `main` is the place of the polling thread and the job in its hand, `thread[t]`
  each executor thread, `backlog` the executor's queue, `beat` the heartbeat
  thread, `active` is `active_jobs`. The main thread holds `active_lock` at
  `test`, `nap` (the sleep at capacity) and `add`; the other threads take and
  leave it in one step, when `LockFree`. It leaves the lock (`ReleaseLock`)
  before it enters `executor.submit` (`EnterSubmit`, `Submit`, `LeaveSubmit`),
  which has a lock of its own (`InsideSubmit`).
- `Signal` is SIGTERM wherever the main thread is. The handler runs on it and
  never returns, so the main thread's actions end there; a claim that was being
  answered is still answered by the API (`ServeClaim`). `Exit` is the end of
  `executor.shutdown(wait=True)`, which a handler inside `submit` never reaches.
- `status` and `mine` are what the rows say of this worker's jobs. `Post` is a
  report that is answered, with an error perhaps, which the worker does not look
  at; `PostRaises` one that raises, with the except branches of `_execute`.
- A request that raises was served, is lost, or stays in `late` and is served at
  any later time (`ServeLate`, `ServeLateClaim`), after the `/fail` that follows
  it, in a later attempt, or when the process has gone.
- `missed` counts heartbeats lost in a row. The row is stale (`Timeout`) when
  the worker is `Unheard`: its heartbeats have ended, `Patience` of them were
  lost, or the thread waits for `active_lock` while the main thread sleeps with
  it. So a live worker that claims, starts and runs jobs can be reaped (`Reap`).
- `strays` is a history variable: jobs reaped while the worker had them, and
  jobs a late report touched when it was too late to be harmless (`InTime`).

### State and actions of `LiveUpdates`

- `active` is `manager.active`, `at` and `target` the index of the iteration in
  `broadcast` and the socket whose send is awaited. Python's list iterator keeps
  an index, so a removal before it shifts the list under it (`MoveOn`).
- `Connect`, `Notice` (the disconnect is seen), `HandlerDies` (any other
  exception: nobody removes the socket) happen at any await; `Sent` and
  `SendRaises` are the two ends of a send.

The definitions called "mistaken variant" are the bugs used to test the
properties: each property of a passing run is violated when the definition
that follows is replaced by the variant.

## Runs

### Runs that pass

| Run | Instance | States | Shows |
|---|---|---|---|
| `Workflow` | c waits for a and b and is scheduled for later; two workers, one may crash; fair | 96 k | c never leaves BLOCKED early; it is promoted once both have completed, also when they complete at once, and at every moment before somebody is on the way to do it; no live worker forgets a job; a and b end COMPLETED or DEAD though their worker may crash |
| `Overrides` | c waits for a and is being submitted; retry and replay of both, late heartbeats, drain, list | 1.8 M | the inductive invariant `DependencyInv`; forced jobs are excepted |
| `Failures` | two submissions of one key; crash, lost replies, API restarts, database errors, cancel, pause, PATCH of the limit | 1.1 M | one thread per job, attempts within budget |
| `Crashes` | a (two attempts), b and c (`max_retries` 0, delayed, being submitted); three threads of two workers; a limit of 0 or 1; crash, database errors | 584 k | table and threads agree, attempts within budget, one execution row per attempt, closed in the end, dead letters there, the jobs beyond a limit fewer than the workers that run them, and `JobContract` is implemented |
| `Schedulers` | two instances, one may stop, crash or get errors; two schedules of different periods; fair | 169 k | one leader, `CronContract` implemented, due schedules move on, a lock left behind is taken over |
| `WorkerShutdown` | one job that comes back, two threads; requests and heartbeats lost, served late or failed, SIGTERM; fair | 232 k | capacity, ownership unless reaped or touched by a late report, what a stopped worker held comes back, the shutdown ends when it did not begin inside a lock, heartbeats go on while claims do |
| `LiveUpdates` | four connections; fair | 149 k | no snapshot twice, one skip per removal at most, everyone served in the end, dead sockets removed |

Bounds of `JobLifecycle`: two or three jobs, one or two workers with one to
three threads between them, two API threads (the races of this code are between two requests, so
two handlers and the scheduler suffice to interleave any pair of commits),
`max_retries` 0, 1 or 2, and `MaxClaims` claims of one job: more than its
retries and crashes can use in `Workflow` and `Failures`, just as many in
`Crashes`; in `Overrides`, where the operator restarts jobs without end, one.
`Crashes` has three jobs and a worker with two threads because `LimitOvershoot`
needs them: two workers and a limit of 1 may run two jobs at once and must not
run three, and a worker alone must not run two. A limit of 0 is one of its
values (the endpoint accepts it). Handler threads are symmetric in the safety
runs, and in `Crashes` the two threads of a worker and the two jobs that are
alike. `SchedulerLock`: `MaxTime` 5 is two leases
and a tick, so that a lock can be held, left and taken over twice; `LastFault`
2 leaves time to recover from the last fault before the clock stops.
`WorkerProcess`: a job that failed, was reaped or is taken for another by a late
report is claimed again by the same worker, so that one job occupies both
threads, the backlog and the main thread at once. `Patience` 1 lets a worker be
stale whenever a larger one does, since every heartbeat may be lost; `MaxLate` 1
is one request before the API besides the one a thread waits for.
`ShutdownStuck` needs no failure: two jobs and one thread. `LiveUpdates`: four sockets are the fewest
with one before, one at and two after the index. Deadlock is checked except in
`WorkerShutdown`, `ShutdownStuck` and `LiveUpdates`, where the process has
ended, hangs, or every connection has.

`EveryJobSettles` and `NothingForgotten` are stated of jobs with at most one
dependency: in `Workflow` of a and b. A job with two may be promoted twice (`DoublePromotion`), exhaust its retries on both runs,
and then its second failure cannot be recorded (`SecondDeadLetter`): it stays
RUNNING, and TLC finds that when the restriction is lifted.

### Runs that show a disagreement

The quotes are in `PROJECT.json`.

| Run | What the code does |
|---|---|
| `DoublePromotion` | two completions promote one dependent twice; it runs on two threads |
| `LostPromotion` | a dependency completes while a dependent is being created; the dependent stays BLOCKED |
| `SecondDeadLetter` | a replayed job that exhausts its retries again stays RUNNING: its second dead letter violates UNIQUE |
| `OrphanedRun` | a start after a reap makes a RUNNING job without owner, which is never reaped |
| `ShutdownStuck` | SIGTERM to a full worker, asleep inside `active_lock`: the handler waits for a thread that waits for the lock |

What they mean for the passing runs: `SoleRunner` is checked where no two
dependencies complete at once and no live worker is silent;
`DependentsReleased` and `NoPromotionLost` where dependents are not created
during a completion; the
contract where no reply is lost and no operator intervenes;
`FreeShutdownEnds` where `active_lock` was free and the main thread not inside
`executor.submit`; `KeepsItsJobs` and `LeftoversComeBack` leave out strays,
whose rows a late start may have left without owner as in `OrphanedRun`. Each of
these limits is necessary: without it the property fails.

### Seen while modelling

Jobs:

- Two claims count the running jobs of a queue before either commits, and both
  claim: a queue runs more than `concurrency_limit`, where `models.py:162` says
  "max jobs running at once". The excess is smaller than the number of workers
  that run them (`LimitOvershoot`), and larger when a late `/start`, or one after
  a cancel, makes a job RUNNING without counting.
- Of two simultaneous submissions with one idempotency key the second commits
  into the UNIQUE constraint: its caller gets an IntegrityError and a 500, where
  `job_service.py:58-59` says the existing job is returned. The step is
  `DuplicateKey`, which the `Failures` run takes; that no key has two rows is the
  constraint's doing and no property here.
- A live worker whose heartbeats fail for 30 s is reaped while it claims and
  runs jobs, and these run twice: `SoleRunner` is stated without it.
- A `/complete` that times out but is committed is followed by `/fail`, which
  requeues the COMPLETED job.
- A `/start` that times out and is handled late, after its worker's `/fail` has
  requeued the job and the next claim has counted an attempt, inserts a second
  execution row for that attempt, where `models.py:247` and
  `docs/ER_DIAGRAM.md:145` say "one row per attempt". It takes `max_retries` 3
  and four claims; `OneExecutionPerAttempt` is therefore stated without lost
  answers.
- A claim UPDATE looks at the status only. Between the candidate's selection
  and the UPDATE the job may have been claimed, failed and requeued with a
  backoff: it is claimed at once and the backoff is lost.
- A `/fail` that cannot be delivered leaves the job RUNNING under a live
  worker that has forgotten it, as does a claim whose answer is lost (CLAIMED):
  the reaper looks at silent workers only.
- A drained worker's next heartbeat overwrites DRAINING with ACTIVE or IDLE
  (`routers/workers.py`, `heartbeat`), and `list_workers` overwrites it with
  OFFLINE if heartbeats are late; the worker is given jobs again.
- `manual_retry_job` queues a job of any status, a BLOCKED one included, which
  then runs before its dependencies.
- `claim_next_job` chooses the candidate before it looks at the limit of its
  queue: a job of a full queue hides claimable jobs of other queues, which the
  comment above the query says it avoids.
- Retry and replay reset `attempt_count` and keep the execution rows, so the
  count no longer "mirrors len(executions)" (`models.py`, `JobExecution`).
- A claimed job can be cancelled, but the claiming thread's `/start` does not
  look at the status and runs it.
- An API that dies between a completion and its promotions leaves the
  dependents BLOCKED, for the same reason as `LostPromotion`.

Worker:

- Heartbeats end with the start of the shutdown, so a drain that lasts longer
  than the heartbeat timeout is reaped, and its jobs run a second time while
  the first run still goes on. For `KeepsItsJobs` such a job is a stray.
- The shutdown's own request to `/drain` has no token; the endpoint requires an
  ADMIN's, so the worker is never DRAINING.
- The main thread of a full worker releases `active_lock` only to take it
  again, and `threading.Lock` is not fair: nothing in the code makes the finished
  threads and the heartbeat ever get it. No property claims that they do; the
  heartbeat that waits this long is one of the ways to be `Unheard`.
- SIGTERM inside `executor.submit` meets the executor's own lock, which
  `shutdown` needs: the same deadlock through a library's lock.

Scheduler:

- Without `Prompt` both `LeadersAreAlone` and `ImplementsCron` are violated: the
  lease is neither renewed nor looked at during a tick, so a tick that takes
  longer (many due rows, a slow database) overlaps the next leader's, and an
  occurrence is materialized twice.
- A release that raises inside the signal handler during a tick is caught by
  `main`'s `except Exception`, and the process goes on as if not stopped.
- A stop between the UPDATE of `try_acquire_lock` and its commit makes
  `release_lock` wait, on a database with row locks, for the transaction of
  the very tick it has interrupted.
- Recurring jobs are inserted on shard 0 whatever the queue's `shard_count`.

Live updates: a disconnect during a round costs the next socket that snapshot;
the counts of a snapshot are separate statements, so "offline" can even be
negative for a moment when a worker registers between two of them.

## Fairness

`FairSpec` of `JobLifecycle` assumes that API threads are scheduled
(`HandlerStep`), that an executor thread goes on and the main thread keeps
polling (`poll_loop` is an endless loop with a sleep), that a task which does
not raise returns, that the scheduler keeps ticking (its loop catches every
exception), that clocks advance and heartbeats of live workers are sent and
those of dead ones time out. Weak fairness suffices: in the fair instances
there are as many API threads as executor threads, so a thread that wants to
send a request is not shut out for ever by others. No failure, operator
request or task failure is forced.

`SchedulerLock`: each process that runs goes on with its loop, and time passes.
`DueHandled` needs nothing more because one instance is not `Mortal`.

`WorkerProcess`: threads go on, tasks end, an API that is asked answers, the
reaper reaps. `active_lock` goes to a thread that wants it if it stays free
(weak fairness of `Finish` and `ReadActive`), and also if the main thread leaves
it again and again for the length of a request or of a sleep (strong fairness,
but of these steps at such moments only, `LockLeft`): the thread waits the whole
time for a lock nobody holds. For the moments between two rounds at capacity,
when the main thread takes it back at once, nothing is assumed. That requests
given up on are ever served is not assumed either.

`LiveUpdates`: the task wakes up and every send ends. A send that never ends
would stop all updates; the code has no timeout.

## Proofs

All are for every value of the constants that satisfies the modules'
assumptions (NULL is nobody, functions have their types, sets of threads are
finite where they are counted), with every failure and request enabled, unless
a theorem states an assumption of its own.

`JobLifecycleProofs`, for any sets of jobs, workers, threads, queues and API
threads and any dependency relation:

- `TypeCorrect`: `Spec => []TypeInv`. `TypeOK` alone is not inductive: a report
  or start could be about no job. `Assigned` adds that a thread past its claim
  has a job and a request in progress names one, with its worker.
- `DependenciesTracked`: `Spec => []DependencyInv`, and from it
  `DependenciesComeFirst`: `Spec => []DependenciesFirst`. A status read long ago
  can be written now, so the property has to cover everything on its way to a
  row: executor threads that hold a job, loaded rows of starts and reports, the
  scheduler's batch, creations whose initial state is chosen, and the plans of
  promotions. The central step is `CountRemaining`: a dependent stays in a plan
  only if every dependency was seen COMPLETED, and `everDone` remembers that
  even if a late `/fail` undoes a completion. `FlushedStatus` is why stale
  sessions do no harm here: a flush writes the assigned status or leaves
  the stored one.

`JobOwnershipProofs` and `JobAttemptsProofs`, for any number of jobs, workers,
threads, API threads and queues, assume `Reliable`: workers crash and statements raise, but no answer is lost, the API is not
restarted, heartbeats of live workers arrive in time, the requests of a dead one
are over when it times out (`GoStale`), the operator creates, pauses,
patches, drains and lists but does not cancel, retry or replay, and no job
waits for two others. Each part is needed for some of these theorems: the runs
that fail and the notes above show what goes wrong without it.

- `CustodyKept`: `Spec => []Custody`, the invariant of the others. Nothing
  that was read is stale when it is used: a thread at work belongs to a live
  worker that owns its job in the table; a handler that reports has a thread
  that waits for it, or a dead worker, and the row it loaded has the status and
  the owner that the table has; planned dependents are still BLOCKED; the
  scheduler's batch still is what it selected; and no two handlers report for
  one job. None of this can be seen from a single action: a report is safe only
  because the reaper takes jobs of silent workers alone, and a silent worker
  has no request in progress. A step keeps `Custody` when every row it changes
  is its own (`Alone`, `Step`), so each action needs to show only whose row it
  writes.
- `OneRunner`, `RunnerIsOwner`: `Spec => []SoleRunner`, `Spec => []RunnerOwnsJob`.
- `LifecycleImplements`: `Spec => ImplementsContract`. By `Custody` the row a
  commit overwrites is one its worker holds, so a report is a `Finish` or a
  `GiveBack` of the contract, the reaper's commit one `GiveBack` of its whole
  batch, and every other step stutters.
- `ClaimsAreBounded`, `DeadForAReason` (with finitely many workers): a job in
  the queue has an attempt left, or a worker has fallen silent: attempts are
  counted against what `max_retries` allows plus the silent workers, not
  counting the one that has the job, which the reaper will account for when it
  gives the job back (`WithinBudget`, `BudgetKept`). A claim counts an attempt
  exactly once and a report sees the attempt it is about (`SnapCounts`).
- `OneRowPerAttempt`, `ExecutionsAreClosed`: `Spec => []OneExecutionPerAttempt`
  and `Spec => []NoExecutionLeftOpen`. `Recorded` adds that a claim not started
  yet has no execution row, and that a row a live worker left RUNNING is of the
  present attempt: so the latest row, which a report closes, is its own.

`JobStepsProofs` sums up what a step can do to a handler (it returns, goes on,
loses its caller, reads late, or takes a request), to a thread, to a row, to the
fleet and to the scheduler's batch (`Moves`, proved once over all actions), and
argues with these few kinds of step instead of with every action:

- `AnswersFindTheirThreads`: `Spec => [](TypeInv /\ Attendance)`, with every
  failure and request. A handler with somebody to answer serves the request its
  thread waits for, and no thread waits for two: an answer never reaches a thread
  that has given up and gone on to another request.
- `TenureKept` and from it `OneRunnerDespiteFaults`: `Spec => []SoleRunner` for
  independent jobs, assuming `Undisturbed`: heartbeats of live workers arrive, the
  requests of a dead one are over when it times out (`GoStale`), and nobody
  retries or replays. Answers may be lost, requests handled late, the API
  restarted, commits refused and jobs cancelled under their threads. `Custody` is
  false here: the job may be COMPLETED or DEAD behind its thread's back, and a
  report may be about an earlier status. What stays true is weaker (`Tenure`): a
  thread at work is the one thread with its job, of the worker the row names,
  which a completion and a cancellation leave there; only the failure report of
  this thread or the death of its worker puts the job back in the queue, and a
  failure report that lost its caller has no thread left to rob. Each exclusion is
  one of the ways to run a job twice: a late heartbeat (`OrphanedRun`), an
  operator's retry of a running job, two promotions (`DoublePromotion`).
- `OvershootIsBounded`, assuming `Reliable`, no PATCH and finitely many workers:
  `Spec => []LimitOvershoot`. The bound is inductive only with the claims that
  have counted and not committed (`Room`): jobs that run plus claimants are fewer
  than the limit plus the workers that have one of either (`Crew`), for a claim
  that counts sees room for all of them, and claimants are of different workers
  (`ClaimsApart`), because `poll_loop` waits for the answer. A job that leaves
  takes at most one worker out of the crew with it (`CrewShrinks`).
- `PromotionsAreUnderway`: `Spec => []NoPromotionLost`, for any dependency
  relation and with answers lost, requests late, retries, cancels and replays.
  The invariant is its own strengthening, because `WillPromote` names every stage
  of a promotion: a handler that has committed a completion looks for edges next;
  it finds the dependent in its plan unless that is BLOCKED no more; and it drops
  it from the plan only when another dependency is not COMPLETED at that moment,
  and then whoever completes that one later is the one on the way. Excluded are a
  creation (`LostPromotion`) and a handler that ends between its two commits (an
  API crash, a commit that raises): each leaves the dependent BLOCKED.
- `NobodyForgets`, assuming `Reliable` and no failure but crashes of workers:
  `Spec => []NothingForgotten`. `Attached` needs that a thread lets go of a job
  only when its report is committed or nothing was claimed, so that no report is
  refused (`Reportable`): it finds the execution row its start inserted, and a job
  that is in somebody's hands has no dead letter. `SecondDeadLetter` and the notes
  on lost answers are what it excludes.
- `BudgetDespiteFaults`, assuming `Undisturbed`, independent jobs and finitely
  many workers: `Spec => []ClaimsWithinBudget`, which `ClaimsAreBounded` states
  without lost answers. `Custody` is not there to say that a failure report knows
  the attempt it is about; `Tenure` is: the worker of such a report, whether it
  still has a caller or not, is the job's holder until it commits, and nobody
  claims a job that is held, so no attempt is counted behind its back. `Spent`
  says of a job without owner that an attempt is left or a worker is silent, and
  does not count the owner of any other.

`SchedulerLockProofs` and `CronContractProofs`:

- `SchedulerTypes`: `Spec => []TypeInv`.
- `OneLeader`, assuming `Prompt`: `Spec => []LeadersAreAlone`. The invariant
  ties the lock row to the tick that wrote it: an instance that leads is the
  holder and the row's expiry is its own `began` plus the lease. Whoever wins
  with the expiry in the past began after it, when, by `Prompt`, the leader's
  tick was over; nobody's `began` lies in the future.
- `RefinesCron`, assuming `Prompt`: `Spec => ImplementsCron`. What a leader has
  loaded is still what the table says, because nobody else leads; so
  `Materialize` moves every loaded cursor on from the occurrence it gives a job
  to, and every other step stutters or defines a schedule.
- `NoOccurrenceTwice`: under `CronContract` no occurrence gets two jobs,
  because occurrences that have one are behind the cursor.

`WorkerProcessProofs`, whichever requests are lost, failed or late:

- `WorkerTypes`, `WithinCapacity`: `Spec => []TypeOK`, `Spec => []CapacityRespected`.
  The invariant `Counts` adds the place of the main thread: between the check
  and the count of a claimed job `active` may only fall, so it is still below
  the capacity when the job is counted.
- `WorksOnItsOwn`: `Spec => []KeepsItsJobs`, without an assumption about
  heartbeats: jobs that were reaped in the worker's hands or touched by a late
  report are excepted one by one (`strays`), the others not. The invariant `Owns`
  says that such a job is in one place only, among threads, backlog and main
  thread (`OnePlace`), that it is held in the table while it waits or runs, and
  that it is not back in the queue before its last report (`StillHeld`): otherwise
  the worker could be given it a second time.

`LiveUpdatesProofs`, for any finite set of connections:

- `BroadcastTypes`, `NobodyGetsItTwice`, `RemovalsCostOne`: `Spec => []TypeOK`,
  `Spec => []NobodyTwice`, `Spec => []OneSkipPerRemoval`. `Ahead` says that
  nothing behind the index has been dealt with. The sockets passed over alone are
  not inductive: a removal that leaves the list shorter than the index opens
  places that the next connections fill, unserved, so `Gaps` counts empty places
  too, and a removal opens at most one (the injection in `NoticeKeeps`).
- The loops over lists are recursive functions (`WithoutDead`); that one leaves a
  list without duplicates of sockets that were there (`DeadLeave`) is proved by
  the least place where it fails (`LeastNumber`), because the library's induction
  theorems cannot be instantiated here.

Every invariant that a passing run checks, and both refinements, are stated by
theorems whose assumptions the run's instance satisfies, but for one:
`NobodyForgets` assumes that no job has two dependencies, and `Workflow` has one
that does, so that there `NothingForgotten` goes beyond the theorem. Only model-checked are
the liveness properties, which are out of the prover's reach: `EveryJobSettles`,
`DependentsReleased`, `DueHandled`, `TakenOver`, `LeftoversComeBack`,
`FreeShutdownEnds`, `HeartbeatsGoOn`, `EveryoneServed`, `ClosedAreRemoved`.

## What could be added

`SoleRunner` with dependents and faults together; `WorkerProcess` composed with
several API threads instead of single answers.

## Not modelled, and why

Accounts, tokens, roles and rate limits (request checks without shared
lifecycle state), failure summaries and logs (text), task bodies (they return
or raise), the backoff delays (`services/retry_service.py`, a pure function
whose cases its tests list; the lifecycle only needs "not due yet"), request
schemas, settings, the frontend (its requests are the operator requests of the
model), the dashboard's counts (reads only), the creation of queues, policies
and workers (inserts that race with nothing the models contain), and a change
of `shard_count`, which moves no job. SQLite's own locking appears as
`DbError`; statements are atomic and read the latest commit, as pysqlite's
autocommitted SELECTs and Postgres' READ COMMITTED do.
