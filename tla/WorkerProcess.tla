--------------------------- MODULE WorkerProcess ---------------------------
(***************************************************************************)
(* The threads of one worker process (backend/app/worker.py): the main     *)
(* thread that polls, the executor's threads that run jobs, the heartbeat  *)
(* thread, and the SIGTERM handler, which runs on the main thread at       *)
(* whatever point that is and never goes back to it.  They share           *)
(* active_jobs under active_lock, which the main thread keeps while it     *)
(* sleeps at capacity.                                                     *)
(*                                                                         *)
(* Of the API the worker sees only answers; a request it gave up on may be *)
(* served later, or never.  Of the rows there are their status and whether *)
(* this worker owns them.  The reaper is the scheduler's (JobLifecycle has *)
(* the whole of both, and the other workers).                              *)
(***************************************************************************)
EXTENDS Naturals, FiniteSets, Sequences

CONSTANTS
    Job,        \* jobs this worker may claim
    Thread,     \* the executor's threads, as many as `concurrency`
    Patience,   \* heartbeats lost in a row until last_seen_at is too old
    MaxLate,    \* requests given up on that the API still has before it, at most
    Faults,     \* "lost": a request raises, served or not; "error": a report is
                \* answered with an error, which the worker does not look at
    NULL        \* no job

ASSUME ThreadAssumption == IsFiniteSet(Thread) /\ Thread # {}
ASSUME NullAssumption == NULL \notin Job
ASSUME PatienceAssumption == Patience \in Nat \ {0}

VARIABLES
    status,     \* jobs.status of each job
    mine,       \* rows whose claimed_by_worker_id is this worker
    main,       \* where poll_loop is, and the job it has in hand
    request,    \* the claim request under way: "none", "sent" or "answered"
    active,     \* active_jobs
    backlog,    \* the executor's queue: submitted, not yet taken by a thread
    thread,     \* the executor's threads
    beat,       \* the heartbeat thread
    missed,     \* heartbeats lost since the last one that was served
    signal,     \* "none", the handler "wait"s for the executor, "exited"
    stale,      \* last_seen_at is older than the heartbeat timeout
    late,       \* requests the worker gave up on, not yet served
    strays      \* history: jobs that were taken away, or touched by a late
                \* request, while the worker had moved on or still had them

rows == <<status, mine>>
lateness == <<late, strays>>
rest == <<beat, missed, signal, stale>>
vars == <<status, mine, main, request, active, backlog, thread, beat, missed, signal,
          stale, late, strays>>

-----------------------------------------------------------------------------
Concurrency == Cardinality(Thread)
Held == {"claimed", "running"}

MainPc == {"check", "test", "nap", "asked", "count", "add", "submit", "inside", "put", "idle"}
ThreadPc == {"idle", "start", "run", "complete", "fail", "finally"}
Reports == {"start", "complete", "fail"}
Requests == [job: Job, pc: Reports] \cup [job: {NULL}, pc: {"claim"}]

TypeOK ==
    /\ status \in [Job -> {"queued", "claimed", "running", "ended"}]
    /\ mine \subseteq Job
    /\ main \in [pc: MainPc, job: Job \cup {NULL}]
    /\ request \in {"none", "sent", "answered"}
    /\ active \in Nat
    /\ backlog \in Seq(Job)
    /\ thread \in [Thread -> [pc: ThreadPc, job: Job \cup {NULL}]]
    /\ beat \in {"check", "wait", "post", "ended"}
    /\ missed \in 0..Patience
    /\ signal \in {"none", "wait", "exited"}
    /\ stale \in BOOLEAN
    /\ late \subseteq Requests
    /\ strays \subseteq Job

IdleThread == [pc |-> "idle", job |-> NULL]

\* After run(): registered, the heartbeat thread started, nothing claimed.
Init ==
    /\ status = [j \in Job |-> "queued"]
    /\ mine = {}
    /\ main = [pc |-> "check", job |-> NULL]
    /\ request = "none"
    /\ active = 0
    /\ backlog = <<>>
    /\ thread = [t \in Thread |-> IdleThread]
    /\ beat = "check"
    /\ missed = 0
    /\ signal = "none"
    /\ stale = FALSE
    /\ late = {}
    /\ strays = {}

\* Where the main thread is inside `with self.active_lock`.  The other threads
\* leave it again without anything to wait for, so they take it in one step.
LockFree == main.pc \notin {"test", "nap", "add"}

MainAt(pc) == main.pc = pc /\ signal = "none"
MainGoto(pc) == main' = [main EXCEPT !.pc = pc]

\* A request that was not served is lost, or stays before the API.
MaybeLate(r) ==
    \/ UNCHANGED late
    \/ Cardinality(late \cup {r}) <= MaxLate /\ late' = late \cup {r}

-----------------------------------------------------------------------------
(* poll_loop.                                                              *)

TakeLock ==
    /\ MainAt("check")
    /\ MainGoto("test")
    /\ UNCHANGED <<rows, request, active, backlog, thread, rest, lateness>>

\* A mistaken variant: one job more.
AtCapacityLate == active > Concurrency

AtCapacity == active >= Concurrency

\* With room the lock is released and a claim is sent; without, the thread
\* sleeps with the lock in its hands.
Test ==
    /\ MainAt("test")
    /\ \/ AtCapacity /\ MainGoto("nap") /\ UNCHANGED request
       \/ ~AtCapacity /\ MainGoto("asked") /\ request' = "sent"
    /\ UNCHANGED <<rows, active, backlog, thread, rest, lateness>>

WakeUp ==
    /\ (MainAt("nap") \/ MainAt("idle"))
    /\ MainGoto("check")
    /\ UNCHANGED <<rows, request, active, backlog, thread, rest, lateness>>

\* The API's side of a claim, which goes on when the client has been
\* interrupted: one of the queued jobs, or none for this worker.
ServeClaim(j) ==
    /\ request = "sent"
    /\ request' = "answered"
    /\ \/ /\ j \in Job /\ status[j] = "queued"
          /\ status' = [status EXCEPT ![j] = "claimed"]
          /\ mine' = mine \cup {j}
       \/ j = NULL /\ UNCHANGED rows
    /\ main' = [main EXCEPT !.job = j]
    /\ UNCHANGED <<active, backlog, thread, rest, lateness>>

Answered ==
    /\ MainAt("asked") /\ request = "answered"
    /\ request' = "none"
    /\ MainGoto(IF main.job = NULL THEN "idle" ELSE "count")
    /\ UNCHANGED <<rows, active, backlog, thread, rest, lateness>>

\* The request raises: its answer, if there is one, is dropped.
ClaimRaises ==
    /\ "lost" \in Faults
    /\ MainAt("asked")
    /\ request' = "none"
    /\ main' = [pc |-> "idle", job |-> NULL]
    /\ IF request = "sent" THEN MaybeLate([job |-> NULL, pc |-> "claim"]) ELSE UNCHANGED late
    /\ UNCHANGED <<rows, active, backlog, thread, rest, strays>>

Count ==
    /\ MainAt("count")
    /\ active' = active + 1
    /\ MainGoto("add")
    /\ UNCHANGED <<rows, request, backlog, thread, rest, lateness>>

ReleaseLock ==
    /\ MainAt("add")
    /\ MainGoto("submit")
    /\ UNCHANGED <<rows, request, active, backlog, thread, rest, lateness>>

\* executor.submit has a lock of its own, which executor.shutdown takes too.
EnterSubmit ==
    /\ MainAt("submit")
    /\ MainGoto("inside")
    /\ UNCHANGED <<rows, request, active, backlog, thread, rest, lateness>>

Submit ==
    /\ MainAt("inside")
    /\ backlog' = Append(backlog, main.job)
    /\ main' = [pc |-> "put", job |-> NULL]
    /\ UNCHANGED <<rows, request, active, thread, rest, lateness>>

LeaveSubmit ==
    /\ MainAt("put")
    /\ MainGoto("check")
    /\ UNCHANGED <<rows, request, active, backlog, thread, rest, lateness>>

-----------------------------------------------------------------------------
(* _execute, on a thread of the executor.                                  *)

Running == signal # "exited"
ThreadAt(t, pc) == thread[t].pc = pc /\ Running
ThreadGoto(t, pc) == thread' = [thread EXCEPT ![t].pc = pc]

Pick(t) ==
    /\ ThreadAt(t, "idle") /\ backlog # <<>>
    /\ backlog' = Tail(backlog)
    /\ thread' = [thread EXCEPT ![t] = [pc |-> "start", job |-> Head(backlog)]]
    /\ UNCHANGED <<rows, main, request, active, rest, lateness>>

\* run_task returns or raises.
RunTask(t) ==
    /\ ThreadAt(t, "run")
    /\ (ThreadGoto(t, "complete") \/ ThreadGoto(t, "fail"))
    /\ UNCHANGED <<rows, main, request, active, backlog, rest, lateness>>

\* The three reports as the API commits them: mark_running and mark_completed
\* look at nothing, mark_failed requeues or gives up.  COMPLETED and DEAD are
\* "ended": the row keeps its worker.
Commit(j, pc) ==
    \/ pc = "start" /\ status' = [status EXCEPT ![j] = "running"] /\ UNCHANGED mine
    \/ pc \in {"complete", "fail"} /\ status' = [status EXCEPT ![j] = "ended"] /\ UNCHANGED mine
    \/ pc = "fail" /\ status' = [status EXCEPT ![j] = "queued"] /\ mine' = mine \ {j}

\* Only the transport raises: an answer that says 500 passes for a good one.
Post(t, pc) ==
    /\ ThreadAt(t, pc)
    /\ Commit(thread[t].job, pc) \/ ("error" \in Faults /\ UNCHANGED rows)
    /\ ThreadGoto(t, IF pc = "start" THEN "run" ELSE "finally")
    /\ UNCHANGED <<main, request, active, backlog, rest, lateness>>

\* A report that raises was served, is lost, or stays before the API.
GivenUp(j, pc) ==
    \/ Commit(j, pc) /\ UNCHANGED late
    \/ UNCHANGED rows /\ MaybeLate([job |-> j, pc |-> pc])

\* A mistaken variant: the report is sent again.
PostRaisesAgain(t, pc) ==
    /\ "lost" \in Faults
    /\ ThreadAt(t, pc)
    /\ GivenUp(thread[t].job, pc)
    /\ UNCHANGED <<main, request, active, backlog, thread, rest, strays>>

\* A /start or /complete that raises leads to /fail; a /fail that raises leaves
\* _execute through its finally block.
PostRaises(t, pc) ==
    /\ "lost" \in Faults
    /\ ThreadAt(t, pc)
    /\ GivenUp(thread[t].job, pc)
    /\ ThreadGoto(t, IF pc = "fail" THEN "finally" ELSE "fail")
    /\ UNCHANGED <<main, request, active, backlog, rest, strays>>

\* A mistaken variant: a job that failed is counted off in both places.
FinishTwice(t) ==
    /\ ThreadAt(t, "finally")
    /\ LockFree
    /\ active' = active - 2
    /\ thread' = [thread EXCEPT ![t] = IdleThread]
    /\ UNCHANGED <<rows, main, request, backlog, rest, lateness>>

\* A mistaken variant: the handler waits inside active_lock.
FinishBeforeDrain(t) ==
    /\ ThreadAt(t, "finally")
    /\ LockFree /\ signal = "none"
    /\ active' = active - 1
    /\ thread' = [thread EXCEPT ![t] = IdleThread]
    /\ UNCHANGED <<rows, main, request, backlog, rest, lateness>>

Finish(t) ==
    /\ ThreadAt(t, "finally")
    /\ LockFree
    /\ active' = active - 1
    /\ thread' = [thread EXCEPT ![t] = IdleThread]
    /\ UNCHANGED <<rows, main, request, backlog, rest, lateness>>

\* The jobs the worker still has before it.
InHand(j) ==
    \/ main.job = j
    \/ \E i \in DOMAIN backlog : backlog[i] = j
    \/ \E t \in Thread : thread[t].job = j /\ thread[t].pc \notin {"idle", "finally"}

\* A late /start or /complete does no harm before the /fail that follows it, a
\* late /fail none before the job is claimed again.
InTime(r) ==
    IF r.pc = "fail" THEN ~InHand(r.job)
    ELSE \E t \in Thread : thread[t] = [pc |-> "fail", job |-> r.job]

\* The API serves a report the worker has given up on.
ServeLate(r) ==
    /\ r \in late /\ r.pc \in Reports
    /\ Commit(r.job, r.pc)
    /\ late' = late \ {r}
    /\ strays' = IF InTime(r) THEN strays ELSE strays \cup {r.job}
    /\ UNCHANGED <<main, request, active, backlog, thread, rest>>

\* Or a claim: nobody will hear of the job.
ServeLateClaim(j) ==
    /\ [job |-> NULL, pc |-> "claim"] \in late
    /\ status[j] = "queued"
    /\ status' = [status EXCEPT ![j] = "claimed"]
    /\ mine' = mine \cup {j}
    /\ late' = late \ {[job |-> NULL, pc |-> "claim"]}
    /\ UNCHANGED <<main, request, active, backlog, thread, rest, strays>>

-----------------------------------------------------------------------------
(* heartbeat_loop.                                                         *)

BeatAgain ==
    /\ beat = "check" /\ Running
    /\ beat' = IF signal = "none" THEN "wait" ELSE "ended"
    /\ UNCHANGED <<rows, main, request, active, backlog, thread, missed, signal, stale, lateness>>

ReadActive ==
    /\ beat = "wait" /\ Running
    /\ LockFree
    /\ beat' = "post"
    /\ UNCHANGED <<rows, main, request, active, backlog, thread, missed, signal, stale, lateness>>

PostBeat ==
    /\ beat = "post" /\ Running
    /\ stale' = FALSE /\ missed' = 0
    /\ beat' = "check"
    /\ UNCHANGED <<rows, main, request, active, backlog, thread, signal, lateness>>

\* A mistaken variant: nothing catches the exception.
BeatRaisesEnds ==
    /\ "lost" \in Faults
    /\ beat = "post" /\ Running
    /\ missed' = IF missed < Patience THEN missed + 1 ELSE missed
    /\ beat' = "ended"
    /\ UNCHANGED <<rows, main, request, active, backlog, thread, signal, stale, lateness>>

\* The exception is caught in the loop, and an answer that says 500 is not looked
\* at.  (One that was served before it raised is PostBeat.)
BeatRaises ==
    /\ "lost" \in Faults
    /\ beat = "post" /\ Running
    /\ missed' = IF missed < Patience THEN missed + 1 ELSE missed
    /\ beat' = "check"
    /\ UNCHANGED <<rows, main, request, active, backlog, thread, signal, stale, lateness>>

-----------------------------------------------------------------------------
(* drain_and_shutdown.                                                     *)

\* The handler interrupts the main thread: shutting_down is set, the request to
\* drain has no token and is refused, whatever its answer, and
\* executor.shutdown(wait=True) waits.
Signal ==
    /\ signal = "none"
    /\ signal' = "wait"
    /\ UNCHANGED <<rows, main, request, active, backlog, thread, beat, missed, stale, lateness>>

Busy == {t \in Thread : thread[t].pc # "idle"}

\* The handler has interrupted executor.submit inside the lock it needs itself.
InsideSubmit == main.pc \in {"inside", "put"}

Exit ==
    /\ signal = "wait"
    /\ ~InsideSubmit
    /\ backlog = <<>> /\ Busy = {}
    /\ signal' = "exited"
    /\ UNCHANGED <<rows, main, request, active, backlog, thread, beat, missed, stale, lateness>>

-----------------------------------------------------------------------------
(* The scheduler's view.                                                   *)

\* last_seen_at may be 30 s old: heartbeats have ended, enough of them were lost
\* in a row, or the thread waits for active_lock while the main thread sleeps
\* with it, round after round, or has stopped for good inside it.
Unheard ==
    \/ beat = "ended" \/ ~Running
    \/ missed >= Patience
    \/ beat = "wait" /\ ~LockFree /\ (main.pc = "nap" \/ signal = "wait")

Timeout ==
    /\ Unheard /\ ~stale
    /\ stale' = TRUE
    /\ UNCHANGED <<rows, main, request, active, backlog, thread, beat, missed, signal, lateness>>

\* A mistaken variant: jobs that have not started are left out.
ReapableRunning(j) == stale /\ j \in mine /\ status[j] = "running"

\* reap_stale_jobs: its statuses, and jobs joined to a worker that is stale.
Reapable(j) == stale /\ j \in mine /\ status[j] \in Held

Reap(j) ==
    /\ Reapable(j)
    /\ status' = [status EXCEPT ![j] = "queued"]
    /\ mine' = mine \ {j}
    /\ strays' = IF InHand(j) THEN strays \cup {j} ELSE strays
    /\ UNCHANGED <<main, request, active, backlog, thread, rest, late>>

-----------------------------------------------------------------------------
MainStep ==
    \/ TakeLock \/ Test \/ WakeUp \/ Answered \/ Count
    \/ ReleaseLock \/ EnterSubmit \/ Submit \/ LeaveSubmit

ThreadStep(t) ==
    \/ Pick(t)
    \/ RunTask(t)
    \/ \E pc \in Reports : Post(t, pc)

Next ==
    \/ MainStep \/ ClaimRaises
    \/ \E j \in Job \cup {NULL} : ServeClaim(j)
    \/ \E t \in Thread : ThreadStep(t) \/ Finish(t)
    \/ \E t \in Thread, pc \in Reports : PostRaises(t, pc)
    \/ \E r \in late : ServeLate(r)
    \/ \E j \in Job : ServeLateClaim(j)
    \/ BeatAgain \/ ReadActive \/ PostBeat \/ BeatRaises
    \/ Signal \/ Exit
    \/ Timeout \/ \E j \in Job : Reap(j)

Spec == Init /\ [][Next]_vars

\* The main thread waits, without active_lock, for an answer or for the next poll.
LockLeft == main.pc \in {"asked", "idle"}

\* Threads go on, tasks end, the API answers a client that waits.  A thread that
\* needs active_lock gets it if it stays free, or if the main thread again and
\* again leaves it for as long as a request or a sleep takes; nothing makes a
\* main thread that takes it back at once, as it does at capacity, give it away.
FairSpec ==
    /\ Spec
    /\ WF_vars(MainStep)
    /\ WF_vars(MainAt("asked") /\ \E j \in Job \cup {NULL} : ServeClaim(j))
    /\ \A t \in Thread : /\ WF_vars(ThreadStep(t)) /\ WF_vars(Finish(t))
                         /\ SF_vars(LockLeft /\ Finish(t))
    /\ WF_vars(BeatAgain) /\ WF_vars(PostBeat) /\ WF_vars(ReadActive)
    /\ SF_vars(LockLeft /\ ReadActive)
    /\ WF_vars(Exit)
    /\ WF_vars(Timeout) /\ \A j \in Job : WF_vars(Reap(j))

-----------------------------------------------------------------------------
(* Properties.                                                             *)

\* The worker never has more jobs than `concurrency`, counting the one the main
\* thread has been given, though it looks at active_jobs before it claims and
\* counts the job after, and active_jobs is what it has.
CapacityRespected ==
    /\ active = Len(backlog) + Cardinality(Busy)
                + (IF main.pc \in {"add", "submit", "inside"} THEN 1 ELSE 0)
    /\ Len(backlog) + Cardinality(Busy) + (IF main.job # NULL THEN 1 ELSE 0)
       <= Concurrency

\* The job a thread is about to start, runs, or is about to complete is this
\* worker's in the table, and no other thread's: whatever requests are lost or
\* answered with an error, in a shutdown too.  Only two things take it away: the
\* reaper while the worker has it, when heartbeats were lost, starved or ended,
\* and a report of an earlier attempt that is served when the job is back here.
KeepsItsJobs ==
    \A t \in Thread :
        (thread[t].pc \in {"start", "run", "complete"} /\ thread[t].job \notin strays) =>
            /\ thread[t].job \in mine /\ status[thread[t].job] \in Held
            /\ \A u \in Busy \ {t} : thread[u].job = thread[t].job => thread[u].pc = "finally"

\* What the worker holds when it is told to stop does not stay CLAIMED or
\* RUNNING for ever, also what it had claimed and not submitted, what the API
\* gives it later, even to a process that has gone, and what it holds in a
\* shutdown that never ends.  Strays are left out: a report served after its job
\* was reaped or failed leaves a row that nobody owns (OrphanedRun).
LeftoversComeBack ==
    \A j \in Job :
        (signal # "none" /\ status[j] \in Held) ~> (status[j] \notin Held \/ j \in strays)

\* The shutdown ends if the handler did not interrupt the main thread inside
\* active_lock or inside executor.submit.
FreeShutdownEnds ==
    (signal = "wait" /\ LockFree /\ ~InsideSubmit) ~> signal = "exited"

\* A worker that goes on asking for jobs goes on sending heartbeats, however
\* many of them raise.
HeartbeatsGoOn == []<>(main.pc = "asked" /\ signal = "none") => []<>(beat = "post")

\* "On SIGINT/SIGTERM, stops claiming new jobs, waits for in-flight jobs to
\* finish, then exits" (worker.py, module docstring); also if the signal never
\* meets the executor's own lock.
ShutdownEnds == (signal = "wait" /\ ~InsideSubmit) ~> signal = "exited"
=============================================================================
