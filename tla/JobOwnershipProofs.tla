------------------------- MODULE JobOwnershipProofs -------------------------
(***************************************************************************)
(* Proofs that one worker at a time has a job, and that JobLifecycle       *)
(* implements JobContract, for any number of jobs, workers, executor       *)
(* threads, API threads and queues.  They need what the runs that fail     *)
(* show to be needed: see Reliable.                                        *)
(***************************************************************************)
EXTENDS JobLifecycleProofs

\* Workers crash and statements raise, but no answer is lost, the API is not
\* restarted, the operator does not override the lifecycle, and no job waits for
\* two others (DoublePromotion).  Without "silence", heartbeats of live workers
\* arrive in time and the requests of a dead one are over when it times out
\* (GoStale).
Reliable ==
    /\ Faults \subseteq {"db_error"}
    /\ Ops \cap {"cancel", "retry", "replay"} = {}
    /\ \A j \in Job : \A k, l \in DependsOn[j] : k = l

-----------------------------------------------------------------------------
(* The inductive invariant.                                                *)

Claiming  == {"claim", "update"}
Reporting == {"start", "complete", "fail"}
Promoting == {"edges", "scan", "count"}

\* The table says that worker w has job j.
With(j, w) == jobs[j].status \in Active /\ jobs[j].owner = w

\* A thread at work belongs to a live worker and has its job in the table,
\* unless the completion is committed and only its answer is awaited.
SlotHolds(s) ==
    /\ slot[s].pc # "free" => WorkerOf[s] \in up
    /\ slot[s].job # NULL =>
          \/ With(slot[s].job, WorkerOf[s])
          \/ slot[s].pc = "complete" /\ jobs[slot[s].job].status = "completed"

\* Where the thread a handler works for waits.
PcOf(op) == IF op \in Claiming THEN "claim" ELSE IF op \in Promoting THEN "complete" ELSE op

\* A handler in the middle of a worker's request: its thread waits for it, or
\* its worker is dead; a silent worker has none.
CallerWaits(h) ==
    LET r == handler[h] IN
    \/ r.op \in {"idle", "create"} /\ r.slot = NULL /\ r.worker = NULL
    \/ /\ r.op \in Claiming \cup Reporting \cup Promoting
       /\ r.worker \notin stale
       /\ \/ r.slot = NULL /\ r.worker \notin up
          \/ /\ r.slot # NULL
             /\ r.worker = WorkerOf[r.slot]
             /\ slot[r.slot].pc = PcOf(r.op)
             /\ r.op \notin Claiming => slot[r.slot].job = r.job

\* What a handler has loaded is still so.
LoadHolds(h) ==
    LET r == handler[h] IN
    /\ r.op \in Reporting => /\ With(r.job, r.worker)
                             /\ r.snap.status \in Active
                             /\ r.snap.owner = r.worker
    /\ r.op \in Promoting => jobs[r.job].status = "completed"
    /\ r.op = "create" => /\ jobs[r.job].status = "absent"
                          /\ r.snap.status \in {"blocked", "scheduled", "queued"}

\* The promotions a handler plans are of dependents of its job that are still
\* blocked.
PlanHolds(h) ==
    \A d \in Job :
        /\ handler[h].plan[d] # "keep" => /\ handler[h].op \in {"scan", "count"}
                                          /\ handler[h].job \in DependsOn[d]
        /\ handler[h].plan[d] \in {"queued", "scheduled"} => jobs[d].status = "blocked"

HandlerHolds(h) == CallerWaits(h) /\ LoadHolds(h) /\ PlanHolds(h)

\* Two handlers never report or promote for the same job, create the same job
\* or answer the same thread.
Apart(g, h) ==
    /\ handler[g].op \in Reporting \cup Promoting /\ handler[h].op \in Reporting \cup Promoting
          => handler[g].job # handler[h].job
    /\ handler[g].op = "create" /\ handler[h].op = "create" => handler[g].job # handler[h].job
    /\ handler[g].slot # NULL => handler[g].slot # handler[h].slot

HandledOnce == \A g, h \in Handler : g # h => Apart(g, h)

\* The scheduler's batch is as it was loaded, and silent workers are dead.
BatchHolds ==
    /\ stale \cap up = {}
    /\ sched.pass \in {"promote", "reap"} => sched.batch = {}
    /\ sched.pass = "promoting" => \A j \in sched.batch : jobs[j].status = "scheduled"
    /\ sched.pass = "reaping" =>
          \A j \in sched.batch : jobs[j].status \in Active /\ jobs[j].owner \in stale

Custody ==
    /\ SoleRunner
    /\ \A s \in Slot : SlotHolds(s)
    /\ \A h \in Handler : HandlerHolds(h)
    /\ HandledOnce
    /\ BatchHolds

-----------------------------------------------------------------------------
(* What a step may change.                                                 *)

\* The row is as it was, but for its time.
Same(j) == jobs'[j].status = jobs[j].status /\ jobs'[j].owner = jobs[j].owner

\* Nobody but the handlers of H and the threads of T has to do with job j.
Alone(j, H, T) ==
    /\ \A s \in Slot \ T : slot[s].job # j
    /\ \A g \in Handler \ H :
          /\ handler[g].op \in Reporting \cup Promoting \cup {"create"} => handler[g].job # j
          /\ handler[g].plan[j] \notin {"queued", "scheduled"}

\* ... nor the scheduler.
Ours(j, H, T) == Alone(j, H, T) /\ j \notin sched.batch

\* The threads and requests a step leaves alone are not affected by it.
Bystanders(H, T) ==
    /\ \A s \in Slot \ T : slot'[s] = slot[s] /\ (WorkerOf[s] \in up => WorkerOf[s] \in up')
    /\ \A g \in Handler \ H :
          /\ handler'[g] = handler[g]
          /\ handler[g].slot \notin T
          /\ handler[g].worker \notin stale => handler[g].worker \notin stale'
    /\ up' \subseteq up

\* A step keeps Custody when its own handlers and threads do and each row it
\* changes is theirs alone.
LEMMA Step ==
    ASSUME TypeInv, TypeInv', Custody, NEW H \in SUBSET Handler, NEW T \in SUBSET Slot,
           Bystanders(H, T),
           \A j \in Job : Same(j) \/ Alone(j, H, T),
           \A s \in T : /\ SlotHolds(s)'
                        /\ \A t \in Slot : slot'[s].job # NULL /\ slot'[s].job = slot'[t].job
                                           => s = t,
           \A h \in H : HandlerHolds(h)' /\ \A g \in Handler : g # h => Apart(g, h)',
           BatchHolds'
    PROVE  Custody'
<1> USE DEF Bystanders
<1>a. /\ \A s \in Slot : /\ slot[s].job \in Job \cup {NULL}
                         /\ slot[s].job # NULL => slot[s].job \in Job
      /\ \A g \in Handler : /\ handler[g].op # "idle" => handler[g].job \in Job
                            /\ handler[g].slot \in Slot \cup {NULL}
                            /\ handler[g].op \in HandlerOp
  BY NullAssumption DEF TypeInv, TypeOK, Assigned, SlotState, HandlerState
<1>1. SoleRunner'
  BY DEF SoleRunner, Custody
<1>2. ASSUME NEW s \in Slot PROVE SlotHolds(s)'
  <2>1. CASE s \in T
    BY <2>1
  <2>2. CASE s \notin T
    <3>1. slot'[s] = slot[s] /\ SlotHolds(s)
      BY <2>2 DEF Custody
    <3>2. slot[s].job # NULL => Same(slot[s].job)
      BY <2>2, <1>a DEF Alone
    <3> QED
      BY <2>2, <3>1, <3>2 DEF SlotHolds, With, Same
  <2> QED
    BY <2>1, <2>2
<1>3. ASSUME NEW g \in Handler PROVE HandlerHolds(g)'
  <2>1. CASE g \in H
    BY <2>1
  <2>2. CASE g \notin H
    <3> DEFINE r == handler[g]
    <3>1. handler'[g] = r /\ CallerWaits(g) /\ LoadHolds(g) /\ PlanHolds(g)
      BY <2>2 DEF Custody, HandlerHolds
    <3>2. r.op \in Reporting \cup Promoting \cup {"create"} => Same(r.job)
      BY <2>2, <1>a DEF Alone, Reporting, Promoting
    <3>3. \A d \in Job : r.plan[d] \in {"queued", "scheduled"} => Same(d)
      BY <2>2 DEF Alone
    <3>4. r.slot # NULL => slot'[r.slot] = slot[r.slot]
      BY <2>2, <1>a
    <3>5. CallerWaits(g)'
      BY <2>2, <3>1, <3>4 DEF CallerWaits
    <3>6. LoadHolds(g)'
      BY <2>2, <3>1, <3>2 DEF LoadHolds, With, Same
    <3>7. PlanHolds(g)'
      BY <2>2, <3>1, <3>3 DEF PlanHolds, Same
    <3> QED
      BY <3>5, <3>6, <3>7 DEF HandlerHolds
  <2> QED
    BY <2>1, <2>2
<1>4. HandledOnce'
  <2> SUFFICES ASSUME NEW g \in Handler, NEW h \in Handler, g # h PROVE Apart(g, h)'
    BY DEF HandledOnce
  <2>1. CASE h \in H
    BY <2>1
  <2>2. CASE g \in H
    <3>1. Apart(h, g)'
      BY <2>2
    <3> QED
      BY <3>1 DEF Apart
  <2>3. CASE g \notin H /\ h \notin H
    <3>1. Apart(g, h) /\ handler'[g] = handler[g] /\ handler'[h] = handler[h]
      BY <2>3 DEF Custody, HandledOnce
    <3> QED
      BY <3>1 DEF Apart
  <2> QED
    BY <2>1, <2>2, <2>3
<1> QED
  BY <1>1, <1>2, <1>3, <1>4 DEF Custody

\* The batch is of rows that are not the step's.
LEMMA BatchKept ==
    ASSUME TypeInv, Custody, NEW H, NEW T,
           \A j \in Job : Same(j) \/ Ours(j, H, T), UNCHANGED <<up, stale, sched>>
    PROVE  BatchHolds'
<1>1. sched.batch \subseteq Job /\ BatchHolds
  BY DEF TypeInv, TypeOK, SchedState, Custody
<1>2. \A j \in sched.batch : Same(j)
  BY <1>1 DEF Ours
<1> QED
  BY <1>1, <1>2 DEF BatchHolds, Same

\* A step of one handler, and of the thread it works for (none: {}).
LEMMA HandlerChange ==
    ASSUME TypeInv, TypeInv', Custody, NEW h \in Handler, NEW T \in SUBSET Slot,
           \A g \in Handler : g # h => handler'[g] = handler[g] /\ handler[g].slot \notin T,
           \A s \in Slot \ T : slot'[s] = slot[s],
           UNCHANGED <<up, stale, sched>>,
           \A j \in Job : Same(j) \/ Ours(j, {h}, T),
           \A s \in T : /\ SlotHolds(s)'
                        /\ \A t \in Slot : slot'[s].job # NULL /\ slot'[s].job = slot'[t].job
                                           => s = t,
           HandlerHolds(h)', \A g \in Handler : g # h => Apart(g, h)'
    PROVE  Custody'
<1>1. Bystanders({h}, T)
  BY DEF Bystanders
<1>2. BatchHolds'
  BY BatchKept
<1> QED
  BY <1>1, <1>2, Step DEF Ours

\* An idle handler has nothing to keep.
LEMMA IdleHolds ==
    ASSUME NEW h \in Handler, handler'[h] = Idle
    PROVE  HandlerHolds(h)' /\ \A g \in Handler : Apart(g, h)'
<1>1. /\ Idle.op = "idle" /\ Idle.slot = NULL /\ Idle.worker = NULL
      /\ \A d \in Job : Idle.plan[d] = "keep"
  BY DEF Idle, NoPlan
<1> QED
  BY <1>1 DEF HandlerHolds, CallerWaits, LoadHolds, PlanHolds, Apart, Reporting, Promoting

\* The thread a handler answers is no other handler's.
LEMMA ThreadApart ==
    ASSUME Custody, NEW h \in Handler, NEW g \in Handler, g # h, handler[h].slot # NULL
    PROVE  handler[g].slot # handler[h].slot
BY DEF Custody, HandledOnce, Apart

LEMMA AnswerKept ==
    ASSUME TypeInv, TypeInv', Custody, NEW h \in Handler, Reply(h),
           UNCHANGED <<up, stale, sched>>,
           \A j \in Job : Same(j) \/ Ours(j, {h}, {handler[h].slot} \cap Slot),
           \A j \in Job : handler[h].op = "start" /\ j = handler[h].job
                          => /\ jobs'[j].status \in Active
                             /\ jobs'[j].owner = handler[h].worker
    PROVE  Custody'
<1>1. PICK t : t = handler[h].slot
  OBVIOUS
<1> DEFINE T == {t} \cap Slot
<1>a. /\ t \in Slot \cup {NULL} /\ NULL \notin Slot
      /\ slot \in [Slot -> SlotState] /\ handler \in [Handler -> HandlerState]
  BY <1>1, SlotAssumption DEF TypeInv, TypeOK, HandlerState
<1>2. \A g \in Handler : g # h => handler'[g] = handler[g] /\ handler[g].slot \notin T
  <2>1. ASSUME NEW g \in Handler, g # h PROVE handler[g].slot \notin T
    BY <1>1, <1>a, <2>1, ThreadApart
  <2> QED
    BY <2>1, <1>a DEF Reply
<1>3. \A s \in Slot \ T : slot'[s] = slot[s]
  BY <1>1 DEF Reply
<1>4. ASSUME t \in Slot PROVE SlotHolds(t)'
  <2>1. slot'[t] = AfterReply(slot[t])
    BY <1>1, <1>4 DEF Reply
  <2>2. SlotHolds(t) /\ CallerWaits(h) /\ up' = up
    BY <1>4 DEF Custody, HandlerHolds
  <2>3. CASE slot[t].pc = "start"
    <3>1. /\ handler[h].op = "start" /\ slot[t].job = handler[h].job
          /\ handler[h].worker = WorkerOf[t]
      BY <1>1, <1>4, <1>a, <2>2, <2>3
      DEF CallerWaits, PcOf, Claiming, Reporting, Promoting
    <3>2. slot'[t].job = slot[t].job /\ slot'[t].pc = "run"
      BY <1>a, <1>4, <2>1, <2>3 DEF AfterReply, SlotState
    <3>3. handler[h].job \in Job
      BY <1>a, <3>1 DEF TypeInv, Assigned, HandlerState
    <3> QED
      BY <2>2, <2>3, <3>1, <3>2, <3>3 DEF SlotHolds, With
  <2>4. CASE slot[t].pc # "start"
    BY <2>1, <2>4 DEF AfterReply, FreeSlot, SlotHolds
  <2> QED
    BY <2>3, <2>4
<1>5. \A s \in Slot : slot'[s].job \in {slot[s].job, NULL}
  BY <1>a DEF Reply, AfterReply, FreeSlot, SlotState
<1>6. \A s \in T : /\ SlotHolds(s)'
                   /\ \A u \in Slot : slot'[s].job # NULL /\ slot'[s].job = slot'[u].job
                                      => s = u
  BY <1>4, <1>5 DEF Custody, SoleRunner
<1>7. handler'[h] = Idle
  BY <1>a DEF Reply
<1>8. \A j \in Job : Same(j) \/ Ours(j, {h}, T)
  BY <1>1
<1>9. T \in SUBSET Slot
  OBVIOUS
<1> HIDE DEF T
<1> QED
  BY <1>2, <1>3, <1>6, <1>7, <1>8, <1>9, IdleHolds, HandlerChange

\* A handler goes on with its request, without writing.
LEMMA GoesOn ==
    ASSUME TypeInv, TypeInv', Custody, NEW h \in Handler, NEW next \in HandlerState,
           handler' = [handler EXCEPT ![h] = next],
           UNCHANGED <<jobs, slot, up, stale, sched>>,
           next.slot = handler[h].slot, next.op # "create",
           next.op \in Reporting \cup Promoting =>
               next.job = handler[h].job /\ handler[h].op \in Reporting \cup Promoting,
           HandlerHolds(h)'
    PROVE  Custody'
<1>a. /\ handler'[h] = next
      /\ \A g \in Handler : g # h => handler'[g] = handler[g] /\ Apart(g, h)
  BY DEF Custody, HandledOnce, TypeInv, TypeOK
<1>1. \A g \in Handler : g # h => handler'[g] = handler[g] /\ Apart(g, h)'
  BY <1>a DEF Apart
<1>2. \A j \in Job : Same(j)
  BY DEF Same
<1>3. PICK T \in SUBSET Slot : T = {}
  OBVIOUS
<1> QED
  BY <1>1, <1>2, <1>3, HandlerChange

-----------------------------------------------------------------------------
(* Who has to do with a job, by its status.                                *)

\* A job that nobody has been given: what a handler may be creating or
\* promoting, and what the scheduler may be promoting.
LEMMA NobodysJob ==
    ASSUME TypeInv, Custody, NEW j \in Job, NEW H \in SUBSET Handler, NEW T \in SUBSET Slot,
           jobs[j].status \in {"absent", "blocked", "scheduled", "queued"},
           jobs[j].status = "absent" =>
               \A g \in Handler \ H : handler[g].op = "create" => handler[g].job # j,
           jobs[j].status = "blocked" =>
               \A g \in Handler \ H : handler[g].plan[j] \notin {"queued", "scheduled"}
    PROVE  Alone(j, H, T) /\ (jobs[j].status # "scheduled" => j \notin sched.batch)
<1>1. \A s \in Slot \ T : slot[s].job # j
  BY NullAssumption DEF Custody, SlotHolds, With, Active
<1>2. ASSUME NEW g \in Handler \ H
      PROVE  /\ handler[g].op \in Reporting \cup Promoting \cup {"create"} => handler[g].job # j
             /\ handler[g].plan[j] \notin {"queued", "scheduled"}
  <2>1. LoadHolds(g) /\ PlanHolds(g)
    BY DEF Custody, HandlerHolds
  <2> QED
    BY <2>1 DEF LoadHolds, PlanHolds, With, Active
<1>3. jobs[j].status # "scheduled" => j \notin sched.batch
  BY DEF Custody, BatchHolds, TypeInv, TypeOK, SchedState, Active
<1> QED
  BY <1>1, <1>2, <1>3 DEF Alone

\* A job of a silent worker: nobody but the scheduler can have it.
LEMMA SilentJob ==
    ASSUME TypeInv, Custody, NEW j \in Job,
           jobs[j].status \in Active, jobs[j].owner \in stale
    PROVE  Alone(j, {}, {})
<1>0. BatchHolds
  BY DEF Custody
<1>1. ASSUME NEW s \in Slot PROVE slot[s].job # j
  <2>1. SlotHolds(s) /\ (slot[s].job = j => slot[s].pc # "free")
    BY NullAssumption DEF Custody, TypeInv, Assigned
  <2> QED
    BY <1>0, <2>1, NullAssumption DEF SlotHolds, With, BatchHolds, Active
<1>2. ASSUME NEW g \in Handler
      PROVE  /\ handler[g].op \in Reporting \cup Promoting \cup {"create"} => handler[g].job # j
             /\ handler[g].plan[j] \notin {"queued", "scheduled"}
  <2>1. LoadHolds(g) /\ PlanHolds(g) /\ CallerWaits(g)
    BY DEF Custody, HandlerHolds
  <2> QED
    BY <2>1 DEF LoadHolds, PlanHolds, CallerWaits, With, Active, Reporting
<1> QED
  BY <1>1, <1>2 DEF Alone

\* A job a handler is reporting on or promoting for: the handler's and its
\* thread's only.
LEMMA ReportedJob ==
    ASSUME TypeInv, Custody, NEW h \in Handler, handler[h].op \in Reporting
    PROVE  Ours(handler[h].job, {h}, {handler[h].slot} \cap Slot)
<1> DEFINE j == handler[h].job
           w == handler[h].worker
<1>1. /\ j \in Job /\ handler[h].slot \in Slot \cup {NULL}
      /\ w \notin stale /\ With(j, w)
      /\ handler[h].slot = NULL => w \notin up
      /\ handler[h].slot # NULL => slot[handler[h].slot].job = j
  <2>1. handler[h].op # "idle" /\ handler[h] \in HandlerState
    BY DEF Reporting, TypeInv, TypeOK
  <2>2. j \in Job /\ handler[h].slot \in Slot \cup {NULL}
    BY <2>1 DEF TypeInv, Assigned, HandlerState
  <2>3. CallerWaits(h) /\ LoadHolds(h)
    BY DEF Custody, HandlerHolds
  <2> QED
    BY <2>2, <2>3 DEF CallerWaits, LoadHolds, Reporting, Claiming
<1>2. ASSUME NEW s \in Slot, slot[s].job = j
      PROVE  s = handler[h].slot
  <2>1. SlotHolds(s) /\ slot[s].pc # "free"
    BY <1>1, <1>2, NullAssumption DEF Custody, TypeInv, Assigned
  <2>2. With(j, WorkerOf[s]) /\ WorkerOf[s] \in up
    BY <1>1, <1>2, <2>1, NullAssumption DEF SlotHolds, With, Active
  <2>3. handler[h].slot # NULL
    BY <1>1, <2>2 DEF With
  <2> QED
    BY <1>1, <1>2, <2>3, NullAssumption DEF Custody, SoleRunner
<1>3. ASSUME NEW g \in Handler, g # h
      PROVE  /\ handler[g].op \in Reporting \cup Promoting \cup {"create"} => handler[g].job # j
             /\ handler[g].plan[j] \notin {"queued", "scheduled"}
  <2>1. LoadHolds(g) /\ PlanHolds(g) /\ Apart(g, h)
    BY <1>3 DEF Custody, HandlerHolds, HandledOnce
  <2> QED
    BY <1>1, <2>1 DEF LoadHolds, PlanHolds, Apart, With, Active
<1>4. j \notin sched.batch
  BY <1>1 DEF Custody, BatchHolds, With, Active, TypeInv, TypeOK, SchedState
<1> QED
  BY <1>2, <1>3, <1>4 DEF Ours, Alone

-----------------------------------------------------------------------------
(* One lemma per group of actions.                                         *)

\* A claim or a thread's request has made no plan.
LEMMA NoPlanYet ==
    ASSUME Custody, NEW h \in Handler, handler[h].op \notin {"scan", "count"}
    PROVE  \A d \in Job : handler[h].plan[d] = "keep"
BY DEF Custody, HandlerHolds, PlanHolds

LEMMA CustodyClaim ==
    ASSUME TypeInv, TypeInv', Custody, NEW h \in Handler, ClaimStep(h)
    PROVE  Custody'
<1> USE DEF tables, fleet, queues, history
<1>a. /\ HandlerHolds(h) /\ handler \in [Handler -> HandlerState]
      /\ \A g \in Handler : g # h => Apart(g, h)
  BY DEF Custody, HandledOnce, TypeInv, TypeOK
<1>1. CASE WithinLimit(h)
  <2>1. handler'[h] = [handler[h] EXCEPT !.op = "update"]
    BY <1>1, <1>a DEF WithinLimit
  <2>2. /\ handler[h].op = "claim" /\ handler'[h].op = "update"
        /\ handler'[h].job = handler[h].job /\ handler'[h].slot = handler[h].slot
        /\ handler'[h].worker = handler[h].worker /\ handler'[h].plan = handler[h].plan
    BY <1>1, <1>a, <2>1 DEF WithinLimit, HandlerState
  <2>3. UNCHANGED <<jobs, slot, up, stale, sched>>
    BY <1>1 DEF WithinLimit
  <2>4. HandlerHolds(h)'
    BY <1>a, <2>2, <2>3
    DEF HandlerHolds, CallerWaits, LoadHolds, PlanHolds, PcOf, Claiming, Reporting, Promoting
  <2>5. handler'[h] \in HandlerState /\ handler' = [handler EXCEPT ![h] = handler'[h]]
    BY <1>1, <1>a, <2>1 DEF WithinLimit, TypeInv, TypeOK
  <2> QED
    BY <2>2, <2>3, <2>4, <2>5, GoesOn DEF Reporting, Promoting
<1>2. CASE AtLimit(h)
  BY <1>2, AnswerKept DEF AtLimit, Same
<1>3. CASE WinClaim(h)
  <2>0. PICK t, j, w : t = handler[h].slot /\ j = handler[h].job /\ w = handler[h].worker
    OBVIOUS
  <2> DEFINE T == {t} \cap Slot
  <2>1. /\ j \in Job /\ w \in Worker /\ t \in Slot \cup {NULL} /\ NULL \notin Slot
        /\ jobs[j] \in Row /\ jobs[j].status = "queued"
        /\ jobs \in [Job -> Row] /\ slot \in [Slot -> SlotState]
    BY <1>3, <1>a, <2>0, SlotAssumption
    DEF WinClaim, Claimable, TypeInv, TypeOK, HandlerState, Assigned, Waiting
  <2>2. /\ jobs'[j].status = "claimed" /\ jobs'[j].owner = w
        /\ \A k \in Job : k # j => Same(k)
    BY <1>3, <2>0, <2>1 DEF WinClaim, Claimed, Row, Same
  <2>3. UNCHANGED <<up, stale, sched>> /\ handler'[h] = Idle
    BY <1>3, <1>a DEF WinClaim
  <2>4. T \in SUBSET Slot /\ {h} \in SUBSET Handler
    OBVIOUS
  <2>5. \A k \in Job : Same(k) \/ Ours(k, {h}, T)
    <3> HIDE DEF T
    <3> QED
      BY <2>1, <2>2, <2>4, NobodysJob DEF Ours
  <2>6. \A g \in Handler : g # h => handler'[g] = handler[g] /\ handler[g].slot \notin T
    <3>1. ASSUME NEW g \in Handler, g # h PROVE handler[g].slot \notin T
      BY <2>0, <2>1, <3>1, ThreadApart
    <3> QED
      BY <1>3, <1>a, <3>1 DEF WinClaim
  <2>a. PICK answer \in ClaimAnswers(j) :
           \A s \in Slot : slot'[s] = IF s = t THEN answer ELSE slot[s]
    BY <1>3, <2>0 DEF WinClaim
  <2>7. \/ answer.pc = "hold" /\ answer.job = j
        \/ answer.pc = "free" /\ answer.job = NULL
    BY DEF ClaimAnswers, FreeSlot
  <2>8. ASSUME t \in Slot PROVE SlotHolds(t)'
    <3>1. w = WorkerOf[t] /\ slot[t].pc = "claim" /\ SlotHolds(t)
      BY <1>3, <1>a, <2>0, <2>1, <2>8
      DEF WinClaim, HandlerHolds, CallerWaits, PcOf, Claiming, Custody
    <3> QED
      BY <2>1, <2>2, <2>3, <2>a, <2>7, <2>8, <3>1 DEF SlotHolds, With, Active
  <2>9. ASSUME t \in Slot, NEW s \in Slot, slot'[t].job # NULL, slot'[t].job = slot'[s].job
        PROVE  t = s
    <3>1. s # t => SlotHolds(s) /\ slot[s].job = j
      BY <2>a, <2>7, <2>9 DEF Custody
    <3> QED
      BY <2>1, <3>1, NullAssumption DEF SlotHolds, With, Active
  <2>10. \A s \in T : /\ SlotHolds(s)'
                      /\ \A u \in Slot : slot'[s].job # NULL /\ slot'[s].job = slot'[u].job
                                         => s = u
    BY <2>8, <2>9
  <2>11. \A s \in Slot \ T : slot'[s] = slot[s]
    BY <2>a
  <2> HIDE DEF T
  <2> QED
    BY <2>3, <2>4, <2>5, <2>6, <2>10, <2>11, IdleHolds, HandlerChange
<1>4. CASE LoseClaim(h)
  BY <1>4, AnswerKept DEF LoseClaim, Same
<1> QED
  BY <1>1, <1>2, <1>3, <1>4 DEF ClaimStep

\* What a handler knows when it commits a report.
LEMMA ReportKnows ==
    ASSUME TypeInv, Custody, NEW h \in Handler, handler[h].op \in Reporting
    PROVE  LET j == handler[h].job  row == handler[h].snap IN
           /\ j \in Job /\ handler[h].worker \in Worker
           /\ jobs[j] \in Row /\ row \in Row
           /\ jobs[j].status \in Active /\ jobs[j].owner = handler[h].worker
           /\ row.status \in Active /\ row.owner = handler[h].worker
BY DEF TypeInv, TypeOK, HandlerState, Assigned, Reporting, Waiting, Custody, HandlerHolds,
       LoadHolds, With

LEMMA CustodyReport ==
    ASSUME TypeInv, TypeInv', Custody, NEW h \in Handler, ReportStep(h)
    PROVE  Custody'
<1> USE DEF tables, fleet, queues, history
<1>a. handler[h].op \in Reporting
  BY DEF ReportStep, CommitStart, CommitComplete, CommitRequeue, CommitDead,
         DuplicateDeadLetter, Reporting
<1>b. PICK j, w, row : /\ j = handler[h].job /\ w = handler[h].worker /\ row = handler[h].snap
                       /\ j \in Job /\ w \in Worker /\ jobs[j] \in Row /\ row \in Row
                       /\ jobs[j].status \in Active /\ jobs[j].owner = w
                       /\ row.status \in Active /\ row.owner = w
  BY <1>a, ReportKnows
<1>c. /\ jobs \in [Job -> Row] /\ handler \in [Handler -> HandlerState]
      /\ Ours(j, {h}, {handler[h].slot} \cap Slot)
  BY <1>a, <1>b, ReportedJob DEF TypeInv, TypeOK
\* Writing the row of the job only.
<1>d. ASSUME NEW new, jobs' = [jobs EXCEPT ![j] = new]
      PROVE  /\ jobs'[j] = new
             /\ \A k \in Job : Same(k) \/ Ours(k, {h}, {handler[h].slot} \cap Slot)
  BY <1>b, <1>c, <1>d DEF Same
<1>1. CASE CommitStart(h)
  <2>1. jobs' = [jobs EXCEPT ![j] = Flush(jobs[j], row, WithStatus(row, "running"))]
    BY <1>1, <1>b DEF CommitStart
  <2>2. jobs'[j].status \in Active /\ jobs'[j].owner = w
    <3>1. PICK new : new = Flush(jobs[j], row, WithStatus(row, "running"))
      OBVIOUS
    <3>2. new.status \in Active /\ new.owner = w
      BY <1>b, <3>1 DEF Row, Flush, WithStatus, Active
    <3> QED
      BY <1>d, <2>1, <3>1, <3>2
  <2>3. Reply(h) /\ UNCHANGED <<up, stale, sched>>
    BY <1>1 DEF CommitStart
  <2> QED
    BY <1>b, <1>d, <2>1, <2>2, <2>3, AnswerKept
<1>2. CASE CommitComplete(h)
  <2>1. jobs' = [jobs EXCEPT ![j] = Flush(jobs[j], row, WithStatus(row, "completed"))]
    BY <1>2, <1>b DEF CommitComplete
  <2>2. jobs'[j].status = "completed"
    <3>1. PICK new : new = Flush(jobs[j], row, WithStatus(row, "completed"))
      OBVIOUS
    <3>2. new.status = "completed"
      BY <1>b, <3>1 DEF Row, Flush, WithStatus, Active
    <3> QED
      BY <1>d, <2>1, <3>1, <3>2
  <2>3. /\ handler[h].op = "complete" /\ UNCHANGED <<slot, up, stale, sched>>
        /\ handler' = [handler EXCEPT ![h] = [handler[h] EXCEPT !.op = "edges"]]
    BY <1>2 DEF CommitComplete
  <2>4. /\ handler'[h].op = "edges" /\ handler'[h].job = j /\ handler'[h].worker = w
        /\ handler'[h].slot = handler[h].slot /\ handler'[h].plan = handler[h].plan
        /\ \A g \in Handler : g # h => handler'[g] = handler[g]
    BY <1>b, <1>c, <2>3 DEF HandlerState
  <2>5. PICK t : t = handler[h].slot
    OBVIOUS
  <2>6. HandlerHolds(h)'
    <3>1. CallerWaits(h) /\ \A d \in Job : handler[h].plan[d] = "keep"
      BY <2>3, NoPlanYet DEF Custody, HandlerHolds
    <3>2. CallerWaits(h)'
      BY <1>b, <2>3, <2>4, <3>1
      DEF CallerWaits, PcOf, Claiming, Reporting, Promoting
    <3> QED
      BY <2>2, <2>4, <3>1, <3>2 DEF HandlerHolds, LoadHolds, PlanHolds, Reporting, Promoting
  <2>7. \A g \in Handler : g # h => Apart(g, h)'
    <3> SUFFICES ASSUME NEW g \in Handler, g # h PROVE Apart(g, h)'
      OBVIOUS
    <3>1. Apart(g, h) /\ handler'[g] = handler[g]
      BY <2>4 DEF Custody, HandledOnce
    <3> QED
      BY <1>b, <2>3, <2>4, <3>1 DEF Apart, Reporting, Promoting
  <2>8. \A g \in Handler : g # h => handler'[g] = handler[g]
                                    /\ handler[g].slot \notin {t} \cap Slot
    BY <2>4, <2>5, ThreadApart, SlotAssumption
  <2>9. ASSUME t \in Slot PROVE SlotHolds(t)'
    <3>1. SlotHolds(t) /\ slot[t].pc = "complete" /\ slot[t].job = j
      BY <1>b, <2>3, <2>5, <2>9, SlotAssumption
      DEF Custody, HandlerHolds, CallerWaits, PcOf, Claiming, Reporting, Promoting
    <3> QED
      BY <2>2, <2>3, <3>1 DEF SlotHolds
  <2>10. \A s \in {t} \cap Slot :
            /\ SlotHolds(s)'
            /\ \A u \in Slot : slot'[s].job # NULL /\ slot'[s].job = slot'[u].job => s = u
    BY <2>3, <2>9 DEF Custody, SoleRunner
  <2>11. PICK T \in SUBSET Slot : T = {t} \cap Slot
    OBVIOUS
  <2>12. \A k \in Job : Same(k) \/ Ours(k, {h}, T)
    BY <1>d, <2>1, <2>5, <2>11
  <2> QED
    BY <2>3, <2>6, <2>7, <2>8, <2>10, <2>11, <2>12, HandlerChange
<1>3. CASE CommitRequeue(h)
  <2>1. jobs' = [jobs EXCEPT ![j] = FlushRunAt(jobs[j], row, Requeued(row), FALSE)]
    BY <1>3, <1>b DEF CommitRequeue
  <2>2. Reply(h) /\ UNCHANGED <<up, stale, sched>> /\ handler[h].op = "fail"
    BY <1>3 DEF CommitRequeue
  <2> QED
    BY <1>d, <2>1, <2>2, AnswerKept
<1>4. CASE CommitDead(h)
  <2>1. jobs' = [jobs EXCEPT ![j] = Flush(jobs[j], row, WithStatus(row, "dead"))]
    BY <1>4, <1>b DEF CommitDead
  <2>2. Reply(h) /\ UNCHANGED <<up, stale, sched>> /\ handler[h].op = "fail"
    BY <1>4 DEF CommitDead
  <2> QED
    BY <1>d, <2>1, <2>2, AnswerKept
<1>5. CASE DuplicateDeadLetter(h)
  BY <1>5, AnswerKept DEF DuplicateDeadLetter, Same
<1> QED
  BY <1>1, <1>2, <1>3, <1>4, <1>5 DEF ReportStep

\* A promoting handler goes on reading: its plan stays about blocked dependents.
LEMMA PromoteReads ==
    ASSUME TypeInv, TypeInv', Custody, NEW h \in Handler, NEW op \in {"scan", "count"},
           NEW plan \in [Job -> Decision], NEW dep \in Job \cup {NULL},
           handler[h].op \in Promoting,
           handler' = [handler EXCEPT ![h] = [handler[h] EXCEPT !.op = op, !.plan = plan,
                                                                !.dep = dep]],
           UNCHANGED <<jobs, slot, up, stale, sched>>,
           \A d \in Job : /\ plan[d] # "keep" => handler[h].job \in DependsOn[d]
                          /\ plan[d] \in {"queued", "scheduled"} => jobs[d].status = "blocked"
    PROVE  Custody'
<1>1. PICK next : next = [handler[h] EXCEPT !.op = op, !.plan = plan, !.dep = dep]
  OBVIOUS
<1>2. /\ handler[h] \in HandlerState /\ HandlerHolds(h)
      /\ handler' = [handler EXCEPT ![h] = next] /\ handler'[h] = next
  BY <1>1 DEF TypeInv, TypeOK, Custody
<1>3. /\ next \in HandlerState
      /\ next.op = op /\ next.plan = plan /\ next.job = handler[h].job
      /\ next.slot = handler[h].slot /\ next.worker = handler[h].worker
  BY <1>1, <1>2 DEF HandlerState, HandlerOp
<1>4. CallerWaits(h)'
  BY <1>2, <1>3 DEF HandlerHolds, CallerWaits, PcOf, Claiming, Reporting, Promoting
<1>5. LoadHolds(h)' /\ PlanHolds(h)'
  BY <1>2, <1>3 DEF HandlerHolds, LoadHolds, PlanHolds, Reporting, Promoting
<1> QED
  BY <1>2, <1>3, <1>4, <1>5, GoesOn DEF HandlerHolds, Promoting

LEMMA CustodyPromote ==
    ASSUME Reliable, TypeInv, TypeInv', Custody, NEW h \in Handler, PromoteStep(h)
    PROVE  Custody'
<1> USE DEF tables, fleet, queues, history
<1>a. /\ handler[h] \in HandlerState /\ jobs \in [Job -> Row]
      /\ LoadHolds(h) /\ PlanHolds(h)
  BY DEF TypeInv, TypeOK, Custody, HandlerHolds
<1>1. CASE ReadEdges(h)
  <2> DEFINE plan == [d \in Job |-> IF /\ handler[h].job \in DependsOn[d]
                                       /\ jobs[d].status # "absent"
                                    THEN "todo" ELSE "keep"]
  <2>1. plan \in [Job -> Decision]
    BY DEF Decision
  <2>2. handler' = [handler EXCEPT ![h] = [handler[h] EXCEPT !.op = "scan", !.plan = plan,
                                                             !.dep = handler[h].dep]]
    BY <1>1, <1>a DEF ReadEdges, HandlerState
  <2>3. \A d \in Job : /\ plan[d] # "keep" => handler[h].job \in DependsOn[d]
                       /\ plan[d] \in {"queued", "scheduled"} => jobs[d].status = "blocked"
    OBVIOUS
  <2>4. handler[h].dep \in Job \cup {NULL}
    BY <1>a DEF HandlerState
  <2>5. handler[h].op \in Promoting /\ UNCHANGED <<jobs, slot, up, stale, sched>>
    BY <1>1 DEF ReadEdges, Promoting
  <2> HIDE DEF plan
  <2> QED
    BY <2>1, <2>2, <2>3, <2>4, <2>5, PromoteReads
<1>2. CASE ReadDependent(h)
  <2>1. PICK d \in Job :
          /\ handler[h].plan[d] = "todo"
          /\ IF jobs[d].status = "blocked"
             THEN handler' = [handler EXCEPT ![h].op = "count", ![h].dep = d,
                                             ![h].plan[d] = Ready(jobs[d].due)]
             ELSE handler' = [handler EXCEPT ![h].plan[d] = "keep"]
    BY <1>2 DEF ReadDependent
  <2>2. PICK op \in {"scan", "count"}, dep \in Job \cup {NULL}, st \in Decision :
          /\ handler' = [handler EXCEPT ![h] =
                [handler[h] EXCEPT !.op = op, !.plan = [handler[h].plan EXCEPT ![d] = st],
                                   !.dep = dep]]
          /\ st \in {"queued", "scheduled"} => jobs[d].status = "blocked"
    <3>1. CASE jobs[d].status = "blocked"
      <4>1. handler' = [handler EXCEPT ![h] =
                [handler[h] EXCEPT !.op = "count",
                                   !.plan = [handler[h].plan EXCEPT ![d] = Ready(jobs[d].due)],
                                   !.dep = d]]
        <5>1. handler' = [handler EXCEPT ![h] = [handler[h] EXCEPT
                              !.op = "count", !.dep = d, !.plan[d] = Ready(jobs[d].due)]]
          BY <2>1, <3>1
        <5>2. [handler[h] EXCEPT !.op = "count", !.dep = d, !.plan[d] = Ready(jobs[d].due)]
              = [handler[h] EXCEPT
                     !.op = "count",
                     !.plan = [handler[h].plan EXCEPT ![d] = Ready(jobs[d].due)],
                     !.dep = d]
          BY <1>a DEF HandlerState
        <5> QED
          BY <5>1, <5>2
      <4>2. Ready(jobs[d].due) \in Decision
        BY DEF Ready, Decision
      <4> QED
        BY <3>1, <4>1, <4>2
    <3>2. CASE jobs[d].status # "blocked"
      <4>1. handler' = [handler EXCEPT ![h] =
                [handler[h] EXCEPT !.plan = [handler[h].plan EXCEPT ![d] = "keep"]]]
        BY <2>1, <3>2
      <4>2. handler[h].op = "scan" /\ "keep" \in Decision /\ handler[h].dep \in Job \cup {NULL}
        BY <1>2, <1>a DEF ReadDependent, Decision, HandlerState
      <4>3. [handler[h] EXCEPT !.plan = [handler[h].plan EXCEPT ![d] = "keep"]]
            = [handler[h] EXCEPT !.op = "scan",
                                 !.plan = [handler[h].plan EXCEPT ![d] = "keep"],
                                 !.dep = handler[h].dep]
        BY <1>a, <4>2 DEF HandlerState
      <4> QED
        BY <4>1, <4>2, <4>3
    <3> QED
      BY <3>1, <3>2
  <2>3. PICK plan : plan = [handler[h].plan EXCEPT ![d] = st]
    OBVIOUS
  <2>4. plan \in [Job -> Decision]
    BY <1>a, <2>3 DEF HandlerState
  <2>5. \A e \in Job : /\ plan[e] # "keep" => handler[h].job \in DependsOn[e]
                       /\ plan[e] \in {"queued", "scheduled"} => jobs[e].status = "blocked"
    BY <1>a, <2>1, <2>2, <2>3 DEF PlanHolds, HandlerState
  <2>6. handler[h].op \in Promoting /\ UNCHANGED <<jobs, slot, up, stale, sched>>
    BY <1>2 DEF ReadDependent, Promoting
  <2>7. handler' = [handler EXCEPT ![h] = [handler[h] EXCEPT !.op = op, !.plan = plan,
                                                             !.dep = dep]]
    BY <2>2, <2>3
  <2> QED
    BY <2>4, <2>5, <2>6, <2>7, PromoteReads
<1>3. CASE CountRemaining(h)
  <2> DEFINE d == handler[h].dep
             plan == [handler[h].plan EXCEPT ![d] = IF Remaining(d) = {} THEN @ ELSE "keep"]
  <2>1. plan \in [Job -> Decision]
    BY <1>a DEF HandlerState, Decision
  <2>2. handler' = [handler EXCEPT ![h] = [handler[h] EXCEPT !.op = "scan", !.plan = plan,
                                                             !.dep = NULL]]
    BY <1>3, <1>a DEF CountRemaining, HandlerState
  <2>3. \A e \in Job : /\ plan[e] # "keep" => handler[h].job \in DependsOn[e]
                       /\ plan[e] \in {"queued", "scheduled"} => jobs[e].status = "blocked"
    BY <1>a DEF PlanHolds, HandlerState
  <2>4. handler[h].op \in Promoting /\ UNCHANGED <<jobs, slot, up, stale, sched>>
    BY <1>3 DEF CountRemaining, Promoting
  <2> HIDE DEF plan
  <2> QED
    BY <2>1, <2>2, <2>3, <2>4, PromoteReads
<1>4. CASE CommitPromote(h)
  <2> DEFINE plan == handler[h].plan
  <2>1. /\ handler[h].op = "scan" /\ Reply(h) /\ UNCHANGED <<up, stale, sched>>
        /\ \A d \in Job : plan[d] # "todo"
        /\ jobs' = [d \in Job |-> IF plan[d] = "keep" THEN jobs[d]
                                  ELSE WithStatus(jobs[d], plan[d])]
    BY <1>4 DEF CommitPromote
  <2>2. ASSUME NEW d \in Job, plan[d] # "keep"
        PROVE  Ours(d, {h}, {handler[h].slot} \cap Slot)
    <3>1. jobs[d].status = "blocked" /\ handler[h].job \in DependsOn[d]
      BY <1>a, <2>1, <2>2 DEF PlanHolds, HandlerState, Decision
    <3>2. ASSUME NEW g \in Handler \ {h}
          PROVE  handler[g].plan[d] \notin {"queued", "scheduled"}
      <4>1. PlanHolds(g) /\ Apart(g, h)
        BY DEF Custody, HandlerHolds, HandledOnce
      <4> QED
        BY <2>1, <3>1, <4>1 DEF PlanHolds, Apart, Promoting, Reliable
    <3> QED
      BY <3>1, <3>2, NobodysJob DEF Ours
  <2>3. \A d \in Job : Same(d) \/ Ours(d, {h}, {handler[h].slot} \cap Slot)
    BY <2>1, <2>2 DEF Same
  <2> HIDE DEF plan
  <2> QED
    BY <2>1, <2>3, AnswerKept
<1> QED
  BY <1>1, <1>2, <1>3, <1>4 DEF PromoteStep

LEMMA CustodyOperator ==
    ASSUME TypeInv, TypeInv', Custody, NEW h \in Handler, OperatorStep(h)
    PROVE  Custody'
<1> USE DEF tables, fleet, queues, history
<1>1. CASE CommitCreate(h)
  <2>1. PICK j : j = handler[h].job
    OBVIOUS
  <2>2. /\ handler[h].op = "create" /\ j \in Job /\ jobs[j].status = "absent"
        /\ jobs' = [jobs EXCEPT ![j] = handler[h].snap]
        /\ Reply(h) /\ UNCHANGED <<up, stale, sched>>
    BY <1>1, <2>1
    DEF CommitCreate, Custody, HandlerHolds, LoadHolds, TypeInv, TypeOK, HandlerState, Assigned
  <2>3. \A g \in Handler \ {h} : handler[g].op = "create" => handler[g].job # j
    BY <2>1, <2>2 DEF Custody, HandledOnce, Apart
  <2>4. Ours(j, {h}, {handler[h].slot} \cap Slot)
    BY <2>2, <2>3, NobodysJob DEF Ours
  <2>5. \A k \in Job : Same(k) \/ Ours(k, {h}, {handler[h].slot} \cap Slot)
    BY <2>2, <2>4 DEF Same, TypeInv, TypeOK
  <2> QED
    BY <2>2, <2>5, AnswerKept
<1>2. CASE DuplicateKey(h)
  BY <1>2, AnswerKept DEF DuplicateKey, Same
<1>3. CASE CommitCancel(h) \/ CommitRestart(h)
  BY <1>3
  DEF CommitCancel, CommitRestart, Custody, HandlerHolds, CallerWaits, Claiming, Reporting,
      Promoting
<1> QED
  BY <1>1, <1>2, <1>3 DEF OperatorStep

\* No handler works for a thread that does not wait.
LEMMA NotWaiting ==
    ASSUME Custody, NEW s \in Slot, slot[s].pc \in {"free", "hold", "run", "raised"}
    PROVE  \A g \in Handler : handler[g].slot # s
<1> SUFFICES ASSUME NEW g \in Handler, handler[g].slot = s PROVE FALSE
  OBVIOUS
<1>1. CallerWaits(g)
  BY DEF Custody, HandlerHolds
<1> QED
  BY <1>1, SlotAssumption DEF CallerWaits, PcOf, Claiming, Reporting, Promoting

\* A thread sends a request about the job it has, or for a new one.
LEMMA SendKept ==
    ASSUME TypeInv, TypeInv', Custody, NEW h \in Handler, NEW s \in Slot,
           NEW op \in {"claim", "start", "complete", "fail"}, NEW j \in Job \cup {NULL},
           NEW request \in HandlerState,
           Send(h, s, op, j, request), UNCHANGED <<jobs, up, stale, sched>>,
           slot[s].pc \in {"free", "hold", "run", "raised"}, WorkerOf[s] \in up,
           request.op = op, request.slot = s, request.worker = WorkerOf[s],
           request.plan = NoPlan,
           op = "claim" => j = NULL,
           op # "claim" => /\ j # NULL /\ j = slot[s].job /\ request.job = j
                           /\ request.snap = jobs[j]
    PROVE  Custody'
<1>a. /\ handler'[h] = request /\ slot'[s] = [pc |-> op, job |-> j]
      /\ \A g \in Handler : g # h => handler'[g] = handler[g]
      /\ \A t \in Slot : t # s => slot'[t] = slot[t]
      /\ \A t \in Slot : slot'[t].job \in {slot[t].job, NULL}
      /\ \A g \in Handler : handler[g].slot # s
  BY NotWaiting DEF Send, TypeInv, TypeOK, SlotState
<1>b. /\ WorkerOf[s] \notin stale /\ s # NULL
      /\ op # "claim" => With(j, WorkerOf[s])
  BY SlotAssumption DEF Custody, BatchHolds, SlotHolds
<1>1. SlotHolds(s)'
  BY <1>a, <1>b DEF SlotHolds, With
<1>2. \A t \in Slot : slot'[s].job # NULL /\ slot'[s].job = slot'[t].job => s = t
  BY <1>a DEF Custody, SoleRunner
<1>3. HandlerHolds(h)'
  <2>1. CallerWaits(h)'
    BY <1>a, <1>b DEF CallerWaits, PcOf, Claiming, Reporting, Promoting
  <2>2. LoadHolds(h)' /\ PlanHolds(h)'
    BY <1>a, <1>b DEF LoadHolds, PlanHolds, NoPlan, With, Reporting, Promoting
  <2> QED
    BY <2>1, <2>2 DEF HandlerHolds
<1>4. ASSUME NEW g \in Handler, g # h PROVE Apart(g, h)'
  <2>1. LoadHolds(g) /\ CallerWaits(g)
    BY DEF Custody, HandlerHolds
  <2>2. ASSUME op # "claim", handler[g].op \in Reporting \cup Promoting PROVE handler[g].job # j
    <3> SUFFICES ASSUME handler[g].job = j PROVE FALSE
      OBVIOUS
    <3>1. handler[g].op \in Reporting
      BY <1>b, <2>1, <2>2 DEF LoadHolds, With, Active
    <3>2. handler[g].worker = WorkerOf[s]
      BY <1>b, <2>1, <2>2, <3>1 DEF LoadHolds, With
    <3>3. /\ handler[g].slot # NULL /\ slot[handler[g].slot].job = j
          /\ handler[g].slot \in Slot
      BY <2>1, <3>1, <3>2
      DEF CallerWaits, Reporting, Claiming, TypeInv, TypeOK, HandlerState
    <3> QED
      BY <1>a, <2>2, <3>3 DEF Custody, SoleRunner
  <2> QED
    BY <1>a, <2>2, <1>4 DEF Apart, Reporting, Promoting
<1>5. \A k \in Job : Same(k)
  BY DEF Same
<1>6. PICK T \in SUBSET Slot : T = {s}
  OBVIOUS
<1>7. /\ \A g \in Handler : g # h => handler'[g] = handler[g] /\ handler[g].slot \notin T
      /\ \A t \in Slot \ T : slot'[t] = slot[t]
  BY <1>a, <1>6
<1>8. \A r \in T : /\ SlotHolds(r)'
                   /\ \A t \in Slot : slot'[r].job # NULL /\ slot'[r].job = slot'[t].job
                                      => r = t
  BY <1>1, <1>2, <1>6
<1> QED
  BY <1>3, <1>4, <1>5, <1>7, <1>8, HandlerChange

LEMMA SentFields ==
    ASSUME NEW op \in HandlerOp \ {"idle"}, NEW j \in Job, NEW s \in Slot, NEW row \in Row
    PROVE  Request(op, j, s, row).slot = s /\ Request(op, j, s, row).snap = row
BY DEF Request, Idle

LEMMA ReportedFields ==
    ASSUME TypeInv, NEW op \in {"complete", "fail"}, NEW j \in Job, NEW s \in Slot, NEW i
    PROVE  Report(op, j, s, i).slot = s /\ Report(op, j, s, i).snap = jobs[j]
BY DEF Report, Request, Idle

\* A step of a thread on its own: it goes on with its job or drops it.
LEMMA ThreadKept ==
    ASSUME TypeInv, TypeInv', Custody, NEW s \in Slot, NEW next \in SlotState,
           slot' = [slot EXCEPT ![s] = next], UNCHANGED <<jobs, handler, up, stale, sched>>,
           slot[s].pc \in {"run", "raised"},
           next = FreeSlot \/ next.job = slot[s].job
    PROVE  Custody'
<1>a. /\ slot'[s] = next /\ \A t \in Slot : t # s => slot'[t] = slot[t]
      /\ next.job \in {slot[s].job, NULL}
  BY DEF TypeInv, TypeOK, FreeSlot
<1>1. SlotHolds(s)'
  BY <1>a DEF Custody, SlotHolds, With, FreeSlot
<1>2. \A t \in Slot : slot'[s].job # NULL /\ slot'[s].job = slot'[t].job => s = t
  BY <1>a DEF Custody, SoleRunner
<1>3. \A k \in Job : Same(k)
  BY DEF Same
<1>4. PICK H \in SUBSET Handler, T \in SUBSET Slot : H = {} /\ T = {s}
  OBVIOUS
<1>5. Bystanders(H, T)
  BY <1>a, <1>4, NotWaiting DEF Bystanders
<1>6. BatchHolds'
  BY <1>3, BatchKept
<1> QED
  BY <1>1, <1>2, <1>3, <1>4, <1>5, <1>6, Step

LEMMA CustodySlot ==
    ASSUME TypeInv, TypeInv', Custody, NEW s \in Slot, SlotStep(s)
    PROVE  Custody'
<1> USE DEF tables, fleet, queues, history
<1>a. /\ slot[s] \in SlotState
      /\ slot[s].pc # "free" => WorkerOf[s] \in up
      /\ slot[s].pc \notin {"free", "claim"} => slot[s].job \in Job /\ slot[s].job # NULL
  BY NullAssumption DEF TypeInv, TypeOK, Assigned, SlotState, Custody, SlotHolds
<1>1. ASSUME NEW h \in Handler, Poll(h, s) PROVE Custody'
  <2>1. PICK j \in Candidates(WorkerOf[s]) :
          Send(h, s, "claim", NULL, Request("claim", j, s, NoRow))
    BY <1>1 DEF Poll
  <2>2. j \in Job /\ NoRow \in Row /\ "claim" \in HandlerOp \ {"idle"}
    BY SlotAssumption DEF Candidates, Eligible, NoRow, Row, Status, HandlerOp
  <2>3. PICK request \in HandlerState : request = Request("claim", j, s, NoRow)
    BY <2>2, RequestType
  <2>4. /\ request.op = "claim" /\ request.slot = s /\ request.worker = WorkerOf[s]
        /\ request.plan = NoPlan
    BY <2>2, <2>3, RequestType, RequestFields, SentFields
  <2>5. /\ slot[s].pc = "free" /\ WorkerOf[s] \in up /\ UNCHANGED <<jobs, up, stale, sched>>
    BY <1>1 DEF Poll
  <2> QED
    BY <2>1, <2>3, <2>4, <2>5, SendKept
<1>2. ASSUME NEW h \in Handler, PostStart(h, s) PROVE Custody'
  <2>1. PICK j \in Job : j = slot[s].job /\ j # NULL
    BY <1>a, <1>2 DEF PostStart
  <2>2. jobs[j] \in Row /\ "start" \in HandlerOp \ {"idle"}
    BY DEF TypeInv, TypeOK, HandlerOp
  <2>3. PICK request \in HandlerState : request = Request("start", j, s, jobs[j])
    BY <2>2, RequestType
  <2>4. /\ request.op = "start" /\ request.job = j /\ request.slot = s
        /\ request.worker = WorkerOf[s]
        /\ request.plan = NoPlan /\ request.snap = jobs[j]
    BY <2>2, <2>3, RequestType, RequestFields, SentFields
  <2>5. /\ slot[s].pc = "hold" /\ UNCHANGED <<jobs, up, stale, sched>>
        /\ Send(h, s, "start", j, request)
    BY <1>2, <2>1, <2>3 DEF PostStart
  <2> QED
    BY <1>a, <2>1, <2>4, <2>5, SendKept
<1>3. ASSUME NEW h \in Handler, PostReport(h, s) PROVE Custody'
  <2>1. PICK op \in {"complete", "fail"} :
          /\ slot[s].pc = (IF op = "complete" THEN "run" ELSE "raised")
          /\ \E i \in Latest(slot[s].job) :
                Send(h, s, op, slot[s].job, Report(op, slot[s].job, s, i))
          /\ UNCHANGED <<jobs, up, stale, sched>>
    BY <1>3 DEF PostReport
  <2>2. PICK j \in Job : j = slot[s].job /\ j # NULL
    BY <1>a, <2>1
  <2>3. PICK i \in Latest(j) : Send(h, s, op, j, Report(op, j, s, i))
    BY <2>1, <2>2
  <2>4. PICK request \in HandlerState : request = Report(op, j, s, i)
    BY <2>3, ReportType
  <2>5. /\ request.op = op /\ request.job = j /\ request.slot = s
        /\ request.worker = WorkerOf[s]
        /\ request.plan = NoPlan /\ request.snap = jobs[j]
    BY <2>3, <2>4, ReportType, ReportedFields
  <2> QED
    BY <1>a, <2>1, <2>2, <2>3, <2>4, <2>5, SendKept
<1>4. CASE TaskFails(s)
  <2>1. PICK next : next = [slot[s] EXCEPT !.pc = "raised"]
    OBVIOUS
  <2>2. next \in SlotState /\ next.job = slot[s].job
    BY <1>a, <2>1 DEF SlotState
  <2>3. /\ slot' = [slot EXCEPT ![s] = next] /\ slot[s].pc = "run"
        /\ UNCHANGED <<jobs, handler, up, stale, sched>>
    BY <1>4, <2>1 DEF TaskFails
  <2> QED
    BY <2>2, <2>3, ThreadKept
<1>5. CASE ReportRefused(s)
  BY <1>5, IdleType, ThreadKept DEF ReportRefused
<1> QED
  BY <1>1, <1>2, <1>3, <1>4, <1>5 DEF SlotStep

\* A step that writes no row, and touches no handler or thread.
LEMMA NothingMoves ==
    ASSUME TypeInv, TypeInv', Custody, UNCHANGED <<handler, slot, up>>,
           \A g \in Handler : handler[g].worker \notin stale => handler[g].worker \notin stale',
           \A j \in Job : Same(j) \/ Alone(j, {}, {}),
           BatchHolds'
    PROVE  Custody'
<1>1. PICK H \in SUBSET Handler, T \in SUBSET Slot : H = {} /\ T = {}
  OBVIOUS
<1>2. Bystanders(H, T)
  BY <1>1 DEF Bystanders
<1> QED
  BY <1>1, <1>2, Step

LEMMA CustodyScheduler ==
    ASSUME TypeInv, TypeInv', Custody, SchedulerStep
    PROVE  Custody'
<1> USE DEF tables, fleet, queues, history
<1>a. UNCHANGED <<handler, slot, up, stale>> /\ BatchHolds
  BY DEF SchedulerStep, ReadDueJobs, CommitDueJobs, ReadStuckJobs, CommitReap, Custody
<1> SUFFICES (\A j \in Job : Same(j) \/ Alone(j, {}, {})) /\ BatchHolds'
  BY <1>a, NothingMoves
<1>1. CASE ReadDueJobs
  BY <1>1, <1>a DEF ReadDueJobs, Load, DueJobs, BatchHolds, Same
<1>2. CASE CommitDueJobs
  <2>1. ASSUME NEW j \in Job PROVE Same(j) \/ Alone(j, {}, {})
    <3>1. CASE j \in sched.batch
      <4>1. jobs[j].status = "scheduled"
        BY <1>2, <1>a, <3>1 DEF CommitDueJobs, BatchHolds
      <4>2. PICK H \in SUBSET Handler, T \in SUBSET Slot : H = {} /\ T = {}
        OBVIOUS
      <4> QED
        BY <4>1, <4>2, NobodysJob
    <3>2. CASE j \notin sched.batch
      BY <1>2, <3>2 DEF CommitDueJobs, Same
    <3> QED
      BY <3>1, <3>2
  <2> QED
    BY <1>2, <1>a, <2>1 DEF CommitDueJobs, BatchHolds
<1>3. CASE ReadStuckJobs
  BY <1>3, <1>a DEF ReadStuckJobs, Load, StuckJobs, BatchHolds, Same
<1>4. CASE CommitReap
  <2>1. ASSUME NEW j \in Job PROVE Same(j) \/ Alone(j, {}, {})
    <3>1. CASE j \in sched.batch
      BY <1>4, <1>a, <3>1, SilentJob DEF CommitReap, BatchHolds
    <3>2. CASE j \notin sched.batch
      BY <1>4, <3>2 DEF CommitReap, Same
    <3> QED
      BY <3>1, <3>2
  <2> QED
    BY <1>4, <1>a, <2>1 DEF CommitReap, BatchHolds
<1> QED
  BY <1>1, <1>2, <1>3, <1>4 DEF SchedulerStep

LEMMA CustodyRequest ==
    ASSUME Reliable, TypeInv, TypeInv', Custody, OperatorRequest
    PROVE  Custody'
<1> USE DEF tables, fleet, queues, history
<1>1. ASSUME NEW h \in Handler, NEW j \in Job, BeginCreate(h, j) PROVE Custody'
  <2>1. PICK row \in Row : /\ row = NewRow(Remaining(j) # {}, j \notin Delayed)
                           /\ row.status \in {"blocked", "scheduled", "queued"}
    BY NewRowType
  <2>2. PICK request \in HandlerState : request = UserRequest("create", j, row)
    BY RequestType DEF HandlerOp
  <2>3. /\ request.op = "create" /\ request.job = j /\ request.snap = row
        /\ request.slot = NULL /\ request.worker = NULL /\ request.plan = NoPlan
    BY <2>2 DEF UserRequest, Idle
  <2>4. /\ handler' = [handler EXCEPT ![h] = request]
        /\ UNCHANGED <<jobs, slot, up, stale, sched>>
        /\ jobs[j].status = "absent"
        /\ \A g \in Handler : ~ (handler[g].op = "create" /\ handler[g].job = j)
    BY <1>1, <2>1, <2>2 DEF BeginCreate
  <2>5. /\ handler'[h] = request /\ \A g \in Handler : g # h => handler'[g] = handler[g]
    BY <2>4 DEF TypeInv, TypeOK
  <2>6. HandlerHolds(h)'
    BY <2>1, <2>3, <2>4, <2>5
    DEF HandlerHolds, CallerWaits, LoadHolds, PlanHolds, NoPlan, Reporting, Promoting
  <2>7. \A g \in Handler : g # h => Apart(g, h)'
    BY <2>3, <2>4, <2>5 DEF Apart, Reporting, Promoting
  <2>8. \A k \in Job : Same(k)
    BY <2>4 DEF Same
  <2>9. PICK T \in SUBSET Slot : T = {}
    OBVIOUS
  <2> QED
    BY <2>4, <2>5, <2>6, <2>7, <2>8, <2>9, HandlerChange
<1>2. ASSUME NEW h \in Handler, NEW j \in Job, NEW op \in {"cancel", "retry", "replay"},
             BeginOperation(h, op, j)
      PROVE  FALSE
  BY <1>2 DEF BeginOperation, Reliable
<1>3. ASSUME UNCHANGED <<jobs, handler, slot, up, stale, sched>> PROVE Custody'
  BY <1>3, NothingMoves DEF Same, Custody, BatchHolds
<1> QED
  BY <1>1, <1>2, <1>3 DEF OperatorRequest, Drain, ListWorkers, SetPaused, PatchLimit

LEMMA CustodyClock ==
    ASSUME Reliable, TypeInv, TypeInv', Custody, Clock
    PROVE  Custody'
<1> USE DEF tables, fleet, queues, history
<1>a. BatchHolds
  BY DEF Custody
<1>1. ASSUME NEW j \in Job, TimePasses(j) PROVE Custody'
  <2>1. \A k \in Job : Same(k)
    BY <1>1 DEF TimePasses, Same, TypeInv, TypeOK, Row
  <2>2. UNCHANGED <<handler, slot, up, stale, sched>>
    BY <1>1 DEF TimePasses
  <2>3. BatchHolds'
    BY <2>1, <2>2, BatchKept
  <2> QED
    BY <2>1, <2>2, <2>3, NothingMoves
<1>2. ASSUME NEW w \in Worker, Heartbeat(w) PROVE Custody'
  <2>1. BatchHolds'
    BY <1>2, <1>a DEF Heartbeat, BatchHolds
  <2> QED
    BY <1>2, <2>1, NothingMoves DEF Heartbeat, Same
<1>3. ASSUME NEW w \in Worker, GoStale(w) PROVE Custody'
  <2>1. w \notin up /\ \A h \in Handler : handler[h].worker # w
    BY <1>3 DEF GoStale, Reliable
  <2>2. BatchHolds'
    BY <1>3, <1>a, <2>1 DEF GoStale, BatchHolds
  <2> QED
    BY <1>3, <2>1, <2>2, NothingMoves DEF GoStale, Same
<1> QED
  BY <1>1, <1>2, <1>3 DEF Clock

LEMMA CustodyCrash ==
    ASSUME TypeInv, TypeInv', Custody, NEW w \in Worker, WorkerCrash(w)
    PROVE  Custody'
<1> USE DEF tables, fleet, queues, history
<1>1. PICK H \in SUBSET Handler, T \in SUBSET Slot :
        /\ H = {h \in Handler : handler[h].worker = w}
        /\ T = {s \in Slot : WorkerOf[s] = w}
  OBVIOUS
<1>2. /\ UNCHANGED <<jobs, stale, sched>> /\ up' = up \ {w} /\ w \in up
      /\ \A s \in Slot : slot'[s] = IF s \in T THEN FreeSlot ELSE slot[s]
      /\ \A h \in Handler : handler'[h] = IF h \in H THEN [handler[h] EXCEPT !.slot = NULL]
                                                     ELSE handler[h]
  BY <1>1 DEF WorkerCrash
<1>3. \A g \in Handler \ H : handler[g].slot \notin T
  BY <1>1, SlotAssumption DEF Custody, HandlerHolds, CallerWaits
<1>4. Bystanders(H, T)
  BY <1>1, <1>2, <1>3 DEF Bystanders
<1>5. \A s \in T : /\ SlotHolds(s)'
                   /\ \A t \in Slot : slot'[s].job # NULL /\ slot'[s].job = slot'[t].job => s = t
  BY <1>2 DEF SlotHolds, FreeSlot
<1>6. ASSUME NEW h \in H PROVE HandlerHolds(h)'
  <2>1. /\ handler'[h].slot = NULL /\ handler'[h].op = handler[h].op
        /\ handler'[h].job = handler[h].job /\ handler'[h].worker = w
        /\ handler'[h].snap = handler[h].snap /\ handler'[h].plan = handler[h].plan
        /\ handler[h].worker = w /\ w # NULL
    BY <1>1, <1>2, NullAssumption DEF TypeInv, TypeOK, HandlerState
  <2>2. HandlerHolds(h)
    BY DEF Custody
  <2>3. CallerWaits(h)'
    BY <1>2, <2>1, <2>2 DEF HandlerHolds, CallerWaits
  <2>4. LoadHolds(h)' /\ PlanHolds(h)'
    BY <1>2, <2>1, <2>2 DEF HandlerHolds, LoadHolds, PlanHolds, With
  <2> QED
    BY <2>3, <2>4 DEF HandlerHolds
<1>7. ASSUME NEW g \in Handler, NEW h \in Handler, g # h PROVE Apart(g, h)'
  <2>1. \A k \in Handler : /\ handler'[k].op = handler[k].op /\ handler'[k].job = handler[k].job
                           /\ handler'[k].slot \in {handler[k].slot, NULL}
    BY <1>2 DEF TypeInv, TypeOK, HandlerState
  <2>2. Apart(g, h)
    BY <1>7 DEF Custody, HandledOnce
  <2> QED
    BY <2>1, <2>2 DEF Apart
<1>8. BatchHolds' /\ \A j \in Job : Same(j)
  BY <1>2 DEF Custody, BatchHolds, Same
<1> QED
  BY <1>4, <1>5, <1>6, <1>7, <1>8, Step

\* What a late read changes: the job of a claim, or the rows a report has loaded.
LEMMA LateReadLoads ==
    ASSUME TypeInv, TypeInv', NEW h \in Handler, LateRead(h), NEW next, next = handler'[h]
    PROVE  LET r == handler[h] IN
           /\ handler' = [handler EXCEPT ![h] = next] /\ next \in HandlerState
           /\ next.op = r.op /\ next.slot = r.slot /\ next.worker = r.worker
           /\ next.plan = r.plan
           /\ r.op # "claim" => next.job = r.job /\ next.snap = jobs[r.job]
           /\ r.op \in Waiting
           /\ UNCHANGED <<jobs, slot, up, stale, sched>>
<1> USE DEF tables, fleet, queues, history
<1> DEFINE r == handler[h]
<1>1. r \in HandlerState /\ next \in HandlerState /\ handler' = [handler EXCEPT ![h] = next]
  BY DEF LateRead, TypeInv, TypeOK
<1>2. r.op \in Waiting /\ UNCHANGED <<jobs, slot, up, stale, sched>>
  BY DEF LateRead
<1>3. \/ r.op = "claim" /\ \E k : next = [r EXCEPT !.job = k]
      \/ r.op = "start" /\ next = [r EXCEPT !.snap = jobs[r.job]]
      \/ /\ r.op \in {"complete", "fail"}
         /\ \E i, st : next = [r EXCEPT !.snap = jobs[r.job], !.exec = i, !.seen = st]
  <2>1. handler \in [Handler -> HandlerState]
    BY DEF TypeInv, TypeOK
  <2>2. CASE r.op = "claim"
    BY <2>1, <2>2 DEF LateRead
  <2>3. CASE r.op = "start"
    BY <2>1, <2>3 DEF LateRead
  <2>4. CASE r.op \in {"complete", "fail"}
    <3>1. PICK i : handler' = [handler EXCEPT ![h].snap = jobs[r.job], ![h].exec = i,
                                              ![h].seen = execs[r.job][i].status]
      BY <2>4 DEF LateRead
    <3>2. next = [r EXCEPT !.snap = jobs[r.job], !.exec = i, !.seen = execs[r.job][i].status]
      BY <2>1, <3>1
    <3> QED
      BY <2>4, <3>2
  <2> QED
    BY <1>2, <2>2, <2>3, <2>4 DEF Waiting
<1> QED
  BY <1>1, <1>2, <1>3 DEF HandlerState

\* The request of a worker that died is read late: by then nobody else has
\* anything to do with its job either.
LEMMA CustodyLateRead ==
    ASSUME TypeInv, TypeInv', Custody, NEW h \in Handler, LateRead(h)
    PROVE  Custody'
<1> DEFINE r == handler[h]
<1>1. PICK next : next = handler'[h]
  OBVIOUS
<1>2. /\ handler' = [handler EXCEPT ![h] = next] /\ next \in HandlerState
      /\ next.op = r.op /\ next.slot = r.slot /\ next.worker = r.worker /\ next.plan = r.plan
      /\ r.op # "claim" => next.job = r.job /\ next.snap = jobs[r.job]
      /\ r.op \in Waiting
      /\ UNCHANGED <<jobs, slot, up, stale, sched>>
  BY <1>1, LateReadLoads
<1>3. HandlerHolds(h) /\ handler'[h] = next
  BY <1>1 DEF Custody
<1>4. CallerWaits(h)'
  BY <1>2, <1>3 DEF HandlerHolds, CallerWaits, PcOf, Claiming, Waiting
<1>5. LoadHolds(h)' /\ PlanHolds(h)'
  BY <1>2, <1>3 DEF HandlerHolds, LoadHolds, PlanHolds, With, Waiting, Reporting, Promoting
<1> QED
  BY <1>2, <1>4, <1>5, GoesOn DEF HandlerHolds, Waiting, Reporting, Promoting

LEMMA CustodyFailure ==
    ASSUME Reliable, TypeInv, TypeInv', Custody, Failure
    PROVE  Custody'
<1> USE DEF tables, fleet, queues, history
<1>1. ASSUME NEW h \in Handler, DbError(h) PROVE Custody'
  <2>1. Reply(h) /\ UNCHANGED <<jobs, up, stale, sched>>
    BY <1>1 DEF DbError
  <2>2. handler[h].op = "start" => /\ jobs[handler[h].job].status \in Active
                                   /\ jobs[handler[h].job].owner = handler[h].worker
    BY DEF Custody, HandlerHolds, LoadHolds, With, Reporting
  <2> QED
    BY <2>1, <2>2, AnswerKept DEF Same
<1>2. CASE TickError
  BY <1>2, NothingMoves DEF TickError, Same, Custody, BatchHolds
<1>3. ~ ApiCrash /\ \A h \in Handler : ~ LoseReply(h)
  BY DEF ApiCrash, LoseReply, Reliable
<1> QED
  BY <1>1, <1>2, <1>3, CustodyCrash, CustodyLateRead DEF Failure

-----------------------------------------------------------------------------
(* One worker at a time.                                                   *)

LEMMA CustodyInit == Init => Custody
<1> SUFFICES ASSUME Init PROVE Custody
  OBVIOUS
<1>1. /\ \A s \in Slot : slot[s].pc = "free" /\ slot[s].job = NULL
      /\ \A h \in Handler : /\ handler[h].op = "idle" /\ handler[h].slot = NULL
                            /\ handler[h].worker = NULL
                            /\ \A d \in Job : handler[h].plan[d] = "keep"
  BY DEF Init, FreeSlot, Idle, NoPlan
<1>2. SoleRunner /\ (\A s \in Slot : SlotHolds(s)) /\ HandledOnce
  BY <1>1 DEF SoleRunner, SlotHolds, HandledOnce, Apart, Reporting, Promoting
<1>3. \A h \in Handler : HandlerHolds(h)
  BY <1>1 DEF HandlerHolds, CallerWaits, LoadHolds, PlanHolds, Reporting, Promoting
<1>4. BatchHolds
  BY DEF Init, BatchHolds
<1> QED
  BY <1>2, <1>3, <1>4 DEF Custody

LEMMA CustodyStep == Reliable /\ TypeInv /\ Custody /\ [Next]_vars => Custody'
<1> SUFFICES ASSUME Reliable, TypeInv, Custody, [Next]_vars PROVE Custody'
  OBVIOUS
<1>0. TypeInv'
  BY TypeStep
<1>1. ASSUME NEW h \in Handler, HandlerStep(h) PROVE Custody'
  BY <1>0, <1>1, CustodyClaim, CustodyReport, CustodyPromote, CustodyOperator DEF HandlerStep
<1>2. ASSUME NEW s \in Slot, SlotStep(s) PROVE Custody'
  BY <1>0, <1>2, CustodySlot
<1>3. CASE SchedulerStep
  BY <1>0, <1>3, CustodyScheduler
<1>4. CASE OperatorRequest
  BY <1>0, <1>4, CustodyRequest
<1>5. CASE Clock
  BY <1>0, <1>5, CustodyClock
<1>6. CASE Failure
  BY <1>0, <1>6, CustodyFailure
<1>7. CASE UNCHANGED vars
  BY <1>0, <1>7, NothingMoves DEF vars, Same, Custody, BatchHolds
<1> QED
  BY <1>1, <1>2, <1>3, <1>4, <1>5, <1>6, <1>7 DEF Next

\* What the table, the handlers and the scheduler's batch know of a job that is
\* with a worker stays true until its report is committed.
THEOREM CustodyKept == ASSUME Reliable PROVE Spec => []Custody
<1>1. Init => TypeInv /\ Custody
  BY TypeInit, CustodyInit
<1>2. (TypeInv /\ Custody) /\ [Next]_vars => (TypeInv /\ Custody)'
  BY TypeStep, CustodyStep
<1> QED
  BY <1>1, <1>2, PTL DEF Spec

\* With crashes and database errors, no two executor threads ever have the
\* same job.
THEOREM OneRunner == ASSUME Reliable PROVE Spec => []SoleRunner
<1>1. Custody => SoleRunner
  BY DEF Custody
<1> QED
  BY <1>1, CustodyKept, PTL

\* ... and a thread that has a job, from the claim to its report, is with the
\* worker the table names as the job's owner.
THEOREM RunnerIsOwner == ASSUME Reliable PROVE Spec => []RunnerOwnsJob
<1>1. TypeInv /\ Custody => RunnerOwnsJob
  <2> SUFFICES ASSUME TypeInv, Custody, NEW s \in Slot,
                      slot[s].pc \in {"hold", "start", "run", "raised"}
               PROVE  jobs[slot[s].job].status \in Active /\ jobs[slot[s].job].owner = WorkerOf[s]
    BY DEF RunnerOwnsJob
  <2>1. SlotHolds(s) /\ slot[s].job # NULL
    BY DEF Custody, TypeInv, Assigned
  <2> QED
    BY <2>1 DEF SlotHolds, With
<1> QED
  BY <1>1, CustodyKept, TypeCorrect, PTL

-----------------------------------------------------------------------------
(* JobLifecycle implements JobContract.                                    *)

\* A job's phase and holder in the contract.
AbstractPhase == [j \in Job |-> Phase(jobs[j])]
AbstractHolder == [j \in Job |-> IF jobs[j].status \in Active THEN jobs[j].owner ELSE NULL]

LEMMA PhaseOfStatus ==
    ASSUME NEW row
    PROVE  /\ row.status = "absent" => Phase(row) = "unborn"
           /\ row.status \in Active => Phase(row) = "held"
           /\ row.status = "completed" => Phase(row) = "done"
           /\ row.status = "dead" => Phase(row) = "failed"
           /\ row.status \in {"blocked", "scheduled", "queued"} => Phase(row) = "waiting"
BY DEF Phase, Active

ContractUnchanged == UNCHANGED <<AbstractPhase, AbstractHolder>>

\* A row whose phase and holder stay.
Unnoticed(k) ==
    \/ Same(k)
    \/ /\ jobs[k].status \in {"blocked", "scheduled", "queued"}
       /\ jobs'[k].status \in {"blocked", "scheduled", "queued"}
    \/ /\ jobs[k].status \in Active /\ jobs'[k].status \in Active
       /\ jobs'[k].owner = jobs[k].owner

LEMMA NothingNoticed ==
    ASSUME \A k \in Job : Unnoticed(k)
    PROVE  ContractUnchanged
<1>1. ASSUME NEW k \in Job
      PROVE  /\ Phase(jobs'[k]) = Phase(jobs[k])
             /\ (IF jobs'[k].status \in Active THEN jobs'[k].owner ELSE NULL)
                = (IF jobs[k].status \in Active THEN jobs[k].owner ELSE NULL)
  <2>1. CASE Same(k)
    BY <2>1 DEF Same, Phase
  <2>2. CASE ~ Same(k)
    BY <2>2, PhaseOfStatus DEF Unnoticed, Active
  <2> QED
    BY <2>1, <2>2
<1> QED
  BY <1>1 DEF ContractUnchanged, AbstractPhase, AbstractHolder

\* Writing the row of one job.
LEMMA OneNoticed ==
    ASSUME TypeInv, NEW j \in Job, NEW new, jobs' = [jobs EXCEPT ![j] = new]
    PROVE  /\ AbstractPhase' = [AbstractPhase EXCEPT ![j] = Phase(new)]
           /\ AbstractHolder' = [AbstractHolder EXCEPT ![j] =
                 IF new.status \in Active THEN new.owner ELSE NULL]
BY DEF AbstractPhase, AbstractHolder, TypeInv, TypeOK

LEMMA ContractTakes ==
    ASSUME TypeInv, Custody, NEW h \in Handler, WinClaim(h)
    PROVE  Contract!Next
<1> USE DEF tables, fleet, queues, history
<1>1. PICK j \in Job, w \in Worker : j = handler[h].job /\ w = handler[h].worker
  BY DEF WinClaim, TypeInv, TypeOK, HandlerState, Assigned, Waiting
<1>2. PICK new : new = Claimed(jobs[j], w)
  OBVIOUS
<1>3. /\ jobs[j].status = "queued" /\ jobs' = [jobs EXCEPT ![j] = new]
      /\ new.status = "claimed" /\ new.owner = w
  BY <1>1, <1>2 DEF WinClaim, Claimable, Claimed, TypeInv, TypeOK, Row
<1>4. /\ AbstractPhase[j] = "waiting"
      /\ AbstractPhase' = [AbstractPhase EXCEPT ![j] = "held"]
      /\ AbstractHolder' = [AbstractHolder EXCEPT ![j] = w]
  BY <1>3, PhaseOfStatus, OneNoticed DEF AbstractPhase, Active
<1>5. Contract!Take(j, w)
  BY <1>4 DEF Contract!Take, AbstractPhase, AbstractHolder
<1> QED
  BY <1>5 DEF Contract!Next

LEMMA ContractReports ==
    ASSUME TypeInv, Custody, NEW h \in Handler, ReportStep(h)
    PROVE  Contract!Next \/ ContractUnchanged
<1> USE DEF tables, fleet, queues, history
<1>a. handler[h].op \in Reporting
  BY DEF ReportStep, CommitStart, CommitComplete, CommitRequeue, CommitDead,
         DuplicateDeadLetter, Reporting
<1>b. PICK j, w, row : /\ j = handler[h].job /\ w = handler[h].worker /\ row = handler[h].snap
                       /\ j \in Job /\ w \in Worker /\ jobs[j] \in Row /\ row \in Row
                       /\ jobs[j].status \in Active /\ jobs[j].owner = w
                       /\ row.status \in Active /\ row.owner = w
  BY <1>a, ReportKnows
<1>c. AbstractPhase[j] = "held"
  BY <1>b, PhaseOfStatus DEF AbstractPhase
\* The commit writes a row that is no longer active.
<1>d. ASSUME NEW new, jobs' = [jobs EXCEPT ![j] = new], new.status \notin Active
      PROVE  /\ AbstractPhase' = [AbstractPhase EXCEPT ![j] = Phase(new)]
             /\ AbstractHolder' = [AbstractHolder EXCEPT ![j] = NULL]
  BY <1>b, <1>d, OneNoticed
<1>1. CASE CommitStart(h)
  <2>1. PICK new : new = Flush(jobs[j], row, WithStatus(row, "running"))
    OBVIOUS
  <2>2. new.status \in Active /\ new.owner = w
    BY <1>b, <2>1 DEF Row, Flush, WithStatus, Active
  <2>3. jobs' = [jobs EXCEPT ![j] = new]
    BY <1>1, <1>b, <2>1 DEF CommitStart
  <2>4. \A k \in Job : Unnoticed(k)
    BY <1>b, <2>2, <2>3 DEF Unnoticed, Same, TypeInv, TypeOK
  <2> QED
    BY <2>4, NothingNoticed
<1>2. CASE CommitComplete(h)
  <2>1. PICK new : new = Flush(jobs[j], row, WithStatus(row, "completed"))
    OBVIOUS
  <2>2. new.status = "completed" /\ new.status \notin Active /\ Phase(new) = "done"
    <3>1. new.status = "completed"
      BY <1>b, <2>1 DEF Row, Flush, WithStatus, Active
    <3> QED
      BY <3>1, PhaseOfStatus DEF Active
  <2>3. jobs' = [jobs EXCEPT ![j] = new]
    BY <1>2, <1>b, <2>1 DEF CommitComplete
  <2>4. Contract!Finish(j, "done")
    BY <1>c, <1>d, <2>2, <2>3 DEF Contract!Finish, AbstractPhase, AbstractHolder
  <2> QED
    BY <1>b, <2>4 DEF Contract!Next
<1>3. CASE CommitRequeue(h)
  <2>1. PICK new : new = FlushRunAt(jobs[j], row, Requeued(row), FALSE)
    OBVIOUS
  <2>2. new.status = "queued" /\ new.status \notin Active /\ Phase(new) = "waiting"
    <3>1. new.status = "queued"
      BY <1>b, <2>1 DEF Row, Flush, FlushRunAt, Requeued, Active
    <3> QED
      BY <3>1, PhaseOfStatus DEF Active
  <2>3. jobs' = [jobs EXCEPT ![j] = new]
    BY <1>3, <1>b, <2>1 DEF CommitRequeue
  <2>4. /\ AbstractPhase' = [k \in Job |-> IF k \in {j} THEN "waiting" ELSE AbstractPhase[k]]
        /\ AbstractHolder' = [k \in Job |-> IF k \in {j} THEN NULL ELSE AbstractHolder[k]]
    <3>1. /\ AbstractPhase' = [AbstractPhase EXCEPT ![j] = "waiting"]
          /\ AbstractHolder' = [AbstractHolder EXCEPT ![j] = NULL]
      BY <1>d, <2>2, <2>3
    <3> QED
      BY <3>1 DEF AbstractPhase, AbstractHolder
  <2>5. Contract!GiveBack({j})
    BY <1>c, <2>4 DEF Contract!GiveBack, AbstractPhase, AbstractHolder
  <2> QED
    BY <1>b, <2>5 DEF Contract!Next
<1>4. CASE CommitDead(h)
  <2>1. PICK new : new = Flush(jobs[j], row, WithStatus(row, "dead"))
    OBVIOUS
  <2>2. new.status = "dead" /\ new.status \notin Active /\ Phase(new) = "failed"
    <3>1. new.status = "dead"
      BY <1>b, <2>1 DEF Row, Flush, WithStatus, Active
    <3> QED
      BY <3>1, PhaseOfStatus DEF Active
  <2>3. jobs' = [jobs EXCEPT ![j] = new]
    BY <1>4, <1>b, <2>1 DEF CommitDead
  <2>4. Contract!Finish(j, "failed")
    BY <1>c, <1>d, <2>2, <2>3 DEF Contract!Finish, AbstractPhase, AbstractHolder
  <2> QED
    BY <1>b, <2>4 DEF Contract!Next
<1>5. CASE DuplicateDeadLetter(h)
  BY <1>5, NothingNoticed DEF DuplicateDeadLetter, Unnoticed, Same
<1> QED
  BY <1>1, <1>2, <1>3, <1>4, <1>5 DEF ReportStep

LEMMA ContractHandlers ==
    ASSUME TypeInv, Custody, NEW h \in Handler, HandlerStep(h)
    PROVE  Contract!Next \/ ContractUnchanged
<1> USE DEF tables, fleet, queues, history
<1>0. ASSUME jobs' = jobs PROVE ContractUnchanged
  BY <1>0, NothingNoticed DEF Unnoticed, Same
<1>1. CASE ClaimStep(h)
  BY <1>0, <1>1, ContractTakes DEF ClaimStep, WithinLimit, AtLimit, LoseClaim
<1>2. CASE ReportStep(h)
  BY <1>2, ContractReports
<1>3. CASE PromoteStep(h)
  <2>1. CASE CommitPromote(h)
    <3> DEFINE plan == handler[h].plan
    <3>1. ASSUME NEW d \in Job PROVE Unnoticed(d)
      <4>1. plan[d] \in {"keep", "queued", "scheduled"} /\ PlanHolds(h) /\ jobs[d] \in Row
        BY <2>1 DEF CommitPromote, TypeInv, TypeOK, HandlerState, Decision, Custody, HandlerHolds
      <4>2. CASE plan[d] = "keep"
        BY <2>1, <4>2 DEF CommitPromote, Unnoticed, Same
      <4>3. CASE plan[d] # "keep"
        <5>1. jobs'[d] = WithStatus(jobs[d], plan[d]) /\ jobs[d].status = "blocked"
          BY <2>1, <4>1, <4>3 DEF CommitPromote, PlanHolds
        <5>2. jobs'[d].status = plan[d]
          BY <4>1, <5>1 DEF WithStatus, Row
        <5> QED
          BY <4>1, <4>3, <5>1, <5>2 DEF Unnoticed
      <4> QED
        BY <4>2, <4>3
    <3> QED
      BY <3>1, NothingNoticed
  <2>2. CASE ~ CommitPromote(h)
    BY <1>0, <1>3, <2>2 DEF PromoteStep, ReadEdges, ReadDependent, CountRemaining
  <2> QED
    BY <2>1, <2>2
<1>4. CASE OperatorStep(h)
  <2>1. CASE CommitCreate(h)
    <3>1. PICK j, new : /\ j \in Job /\ j = handler[h].job /\ new = handler[h].snap
                        /\ jobs[j].status = "absent"
                        /\ new.status \in {"blocked", "scheduled", "queued"}
      BY <2>1 DEF CommitCreate, TypeInv, TypeOK, HandlerState, Assigned, Custody, HandlerHolds,
                  LoadHolds
    <3>2. /\ AbstractPhase[j] = "unborn" /\ AbstractHolder[j] = NULL
          /\ Phase(new) = "waiting" /\ new.status \notin Active
      BY <3>1, PhaseOfStatus DEF AbstractPhase, AbstractHolder, Active
    <3>3. jobs' = [jobs EXCEPT ![j] = new]
      BY <2>1, <3>1 DEF CommitCreate
    <3>4. /\ AbstractPhase' = [AbstractPhase EXCEPT ![j] = "waiting"]
          /\ AbstractHolder' = [AbstractHolder EXCEPT ![j] = NULL]
      <4>1. /\ AbstractPhase' = [AbstractPhase EXCEPT ![j] = Phase(new)]
            /\ AbstractHolder' = [AbstractHolder EXCEPT ![j] =
                  IF new.status \in Active THEN new.owner ELSE NULL]
        BY <3>1, <3>3, OneNoticed
      <4> QED
        BY <3>2, <4>1
    <3>5. AbstractHolder' = AbstractHolder
      BY <3>2, <3>4 DEF AbstractHolder
    <3>6. Contract!Submit(j)
      BY <3>2, <3>4, <3>5 DEF Contract!Submit, AbstractPhase, AbstractHolder
    <3> QED
      BY <3>1, <3>6 DEF Contract!Next
  <2>2. CASE DuplicateKey(h)
    BY <1>0, <2>2 DEF DuplicateKey
  <2>3. CASE CommitCancel(h) \/ CommitRestart(h)
    BY <2>3
    DEF CommitCancel, CommitRestart, Custody, HandlerHolds, CallerWaits, Claiming, Reporting,
        Promoting
  <2> QED
    BY <1>4, <2>1, <2>2, <2>3 DEF OperatorStep
<1> QED
  BY <1>1, <1>2, <1>3, <1>4 DEF HandlerStep

LEMMA ContractScheduler ==
    ASSUME TypeInv, Custody, SchedulerStep
    PROVE  Contract!Next \/ ContractUnchanged
<1> USE DEF tables, fleet, queues, history
<1>0. /\ BatchHolds /\ sched.batch \subseteq Job /\ jobs \in [Job -> Row]
  BY DEF Custody, TypeInv, TypeOK, SchedState
<1>1. CASE ReadDueJobs \/ ReadStuckJobs
  BY <1>1, NothingNoticed DEF ReadDueJobs, ReadStuckJobs, Unnoticed, Same
<1>2. CASE CommitDueJobs
  <2>1. ASSUME NEW k \in Job PROVE Unnoticed(k)
    BY <1>0, <1>2 DEF CommitDueJobs, BatchHolds, WithStatus, Row, Unnoticed, Same
  <2> QED
    BY <2>1, NothingNoticed
<1>3. CASE CommitReap
  <2>1. PICK S \in SUBSET Job : S = sched.batch
    BY <1>0
  <2>2. \A j \in S : jobs[j].status \in Active /\ AbstractPhase[j] = "held"
    BY <1>0, <1>3, <2>1, PhaseOfStatus DEF CommitReap, BatchHolds, AbstractPhase
  <2>3. ASSUME NEW k \in Job
        PROVE  /\ AbstractPhase'[k] = IF k \in S THEN "waiting" ELSE AbstractPhase[k]
               /\ AbstractHolder'[k] = IF k \in S THEN NULL ELSE AbstractHolder[k]
    <3>1. CASE k \in S
      <4>1. jobs'[k].status = "queued"
        BY <1>0, <1>3, <2>1, <3>1 DEF CommitReap, Requeued, Row
      <4>2. Phase(jobs'[k]) = "waiting" /\ jobs'[k].status \notin Active
        BY <4>1, PhaseOfStatus DEF Active
      <4> QED
        BY <3>1, <4>2 DEF AbstractPhase, AbstractHolder
    <3>2. CASE k \notin S
      BY <1>3, <2>1, <3>2 DEF CommitReap, AbstractPhase, AbstractHolder
    <3> QED
      BY <3>1, <3>2
  <2>4. /\ AbstractPhase' = [k \in Job |-> IF k \in S THEN "waiting" ELSE AbstractPhase[k]]
        /\ AbstractHolder' = [k \in Job |-> IF k \in S THEN NULL ELSE AbstractHolder[k]]
    BY <2>3 DEF AbstractPhase, AbstractHolder
  <2>5. Contract!GiveBack(S)
    BY <2>2, <2>4 DEF Contract!GiveBack, AbstractPhase, AbstractHolder
  <2> QED
    BY <2>5 DEF Contract!Next
<1> QED
  BY <1>1, <1>2, <1>3 DEF SchedulerStep

LEMMA ContractInit == Init => Contract!Init
<1> SUFFICES ASSUME Init PROVE Contract!Init
  OBVIOUS
<1>1. ASSUME NEW j \in Job
      PROVE  jobs[j].status \in {"absent", "blocked", "scheduled", "queued"}
  BY NewRowType DEF Init, NoRow
<1>2. \A j \in Job : /\ Phase(jobs[j]) \in {"unborn", "waiting"}
                     /\ jobs[j].status \notin Active
  BY <1>1, PhaseOfStatus DEF Active
<1> QED
  BY <1>2 DEF Contract!Init

LEMMA ContractStep ==
    ASSUME Reliable, TypeInv, Custody, [Next]_vars
    PROVE  [Contract!Next]_(Contract!contractVars)
<1> USE DEF tables, fleet, queues, history
<1> SUFFICES Contract!Next \/ ContractUnchanged
  BY DEF ContractUnchanged, AbstractPhase, AbstractHolder, Contract!contractVars
<1>0. ASSUME jobs' = jobs PROVE ContractUnchanged
  BY <1>0, NothingNoticed DEF Unnoticed, Same
<1>1. ASSUME NEW h \in Handler, HandlerStep(h) PROVE Contract!Next \/ ContractUnchanged
  BY <1>1, ContractHandlers
<1>2. ASSUME NEW s \in Slot, SlotStep(s) PROVE ContractUnchanged
  BY <1>0, <1>2 DEF SlotStep, Poll, PostStart, PostReport, TaskFails, ReportRefused
<1>3. CASE SchedulerStep
  BY <1>3, ContractScheduler
<1>4. CASE OperatorRequest
  BY <1>0, <1>4 DEF OperatorRequest, BeginCreate, BeginOperation, Drain, ListWorkers,
                    SetPaused, PatchLimit
<1>5. CASE Clock
  <2>1. ASSUME NEW j \in Job, TimePasses(j) PROVE ContractUnchanged
    <3>1. \A k \in Job : Same(k)
      BY <2>1 DEF TimePasses, Same, TypeInv, TypeOK, Row
    <3> QED
      BY <3>1, NothingNoticed DEF Unnoticed
  <2> QED
    BY <1>0, <1>5, <2>1 DEF Clock, Heartbeat, GoStale
<1>6. CASE Failure
  BY <1>0, <1>6 DEF Failure, WorkerCrash, LoseReply, LateRead, DbError, ApiCrash, TickError
<1>7. CASE UNCHANGED vars
  BY <1>0, <1>7 DEF vars
<1> QED
  BY <1>1, <1>2, <1>3, <1>4, <1>5, <1>6, <1>7 DEF Next

\* Every behaviour of the API, the workers and the scheduler, seen through the
\* status and owner columns, is a behaviour of JobContract: a job is with one
\* worker at a time, goes back to the queue or ends once, and stays ended.
THEOREM LifecycleImplements == ASSUME Reliable PROVE Spec => ImplementsContract
<1>1. TypeInv /\ Custody /\ [Next]_vars => [Contract!Next]_(Contract!contractVars)
  BY ContractStep
<1> QED
  BY <1>1, ContractInit, TypeCorrect, CustodyKept, PTL
  DEF Spec, ImplementsContract, Contract!Spec

=============================================================================
