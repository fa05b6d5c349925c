-------------------------- MODULE JobStepsProofs ---------------------------
(***************************************************************************)
(* What a step of JobLifecycle can do to a handler, a thread, a row, the   *)
(* fleet and the scheduler's batch, stated and proved once (Moves), and    *)
(* invariants that follow from it.                                         *)
(*                                                                         *)
(* When answers are lost, the API is restarted, statements raise and       *)
(* workers crash, all at once and at any moment: no two threads have the   *)
(* same job, and no job is claimed more often than its retries and the     *)
(* crashes explain, if GoStale is right about time (Undisturbed).          *)
(*                                                                         *)
(* Under the assumptions of JobOwnershipProofs, or weaker ones: a queue's  *)
(* limit is exceeded by fewer jobs than workers run them, a blocked job    *)
(* whose dependencies are done is being promoted, and an active job is in  *)
(* the hands of a thread or of the reaper.                                 *)
(***************************************************************************)
EXTENDS JobOwnershipProofs, FiniteSetTheorems

-----------------------------------------------------------------------------
(* Who waits for whom.                                                     *)

\* A handler with somebody to answer serves the request its thread waits for.
Attended(h) ==
    LET r == handler[h] IN
    r.slot # NULL => /\ r.op \in Claiming \cup Reporting \cup Promoting
                     /\ r.worker = WorkerOf[r.slot]
                     /\ slot[r.slot].pc = PcOf(r.op)
                     /\ r.op \notin Claiming => slot[r.slot].job = r.job

\* Threads at work belong to live workers, and each waits for one handler at most.
Attendance ==
    /\ \A s \in Slot : slot[s].pc # "free" => WorkerOf[s] \in up
    /\ \A h \in Handler : Attended(h)
    /\ \A g, h \in Handler : g # h /\ handler[g].slot # NULL => handler[g].slot # handler[h].slot

-----------------------------------------------------------------------------
(* What a step can do.                                                     *)

Present(j) == jobs[j].status # "absent"

\* ... to a handler: nothing; it returns; it goes on; its caller gives up; it
\* reads late; or it takes a request of a thread or of an operator.
Stays(h) == handler'[h] = handler[h]

Returns(h) == handler'[h] = Idle

Proceeds(h) ==
    LET r == handler[h]
        n == handler'[h] IN
    /\ n.job = r.job /\ n.worker = r.worker /\ n.slot = r.slot
    /\ \/ r.op = "claim" /\ n.op = "update" /\ HasRoom(QueueOf[r.job])
       \/ r.op \in {"complete"} \cup Promoting /\ n.op \in Promoting
    /\ \A d \in Job : \/ n.plan[d] = "keep"
                      \/ r.plan[d] # "keep"
                      \/ r.job \in DependsOn[d] /\ Present(d)
    /\ slot' = slot

GivenUp(h) ==
    LET r == handler[h] IN
    /\ r.slot # NULL
    /\ handler'[h] = [r EXCEPT !.slot = NULL]
    /\ slot'[r.slot] \in {AfterNoReply(slot[r.slot]), FreeSlot}
    /\ UNCHANGED jobs

Rereads(h) ==
    LET r == handler[h]
        n == handler'[h] IN
    /\ r.op \in Waiting
    /\ r.slot = NULL /\ n.slot = NULL
    /\ n.op = r.op /\ n.worker = r.worker /\ n.plan = r.plan
    /\ r.op = "claim" => Present(n.job)
    /\ r.op # "claim" => n.job = r.job /\ n.snap = jobs[r.job]
    /\ UNCHANGED <<jobs, slot>>

Sends(h, s) ==
    LET n == handler'[h] IN
    /\ n.op \in Waiting /\ n.slot = s /\ n.worker = WorkerOf[s]
    /\ slot[s].pc \notin Waiting
    /\ slot' = [slot EXCEPT ![s] = [pc |-> n.op, job |-> IF n.op = "claim" THEN NULL ELSE n.job]]
    /\ n.op = "claim" => /\ WorkerOf[s] \in up /\ Present(n.job)
                         /\ \A t \in Slot : WorkerOf[t] = WorkerOf[s] => slot[t].pc # "claim"
    /\ n.op # "claim" => /\ slot[s].pc # "free" /\ slot[s].job = n.job
                         /\ n.snap = jobs[n.job]

Asks(h) ==
    LET n == handler'[h] IN
    /\ slot' = slot
    /\ n.slot = NULL /\ n.worker = NULL
    /\ \/ n.op \in {"cancel", "retry", "replay"} \cap Ops /\ Present(n.job)
       \/ /\ "create" \in Ops /\ n.op = "create" /\ ~ Present(n.job)
          /\ n.snap.status \in {"blocked", "scheduled", "queued"}
          /\ n.snap.owner = NULL /\ n.snap.attempt = 0
          /\ \A g \in Handler : ~ (handler[g].op = "create" /\ handler[g].job = n.job)

Arrives(h) ==
    /\ handler[h] = Idle /\ handler'[h].plan = NoPlan
    /\ \A g \in Handler : g # h => Stays(g)
    /\ UNCHANGED jobs
    /\ Asks(h) \/ \E s \in Slot : Sends(h, s)

HandlerMoves(h) ==
    Stays(h) \/ Returns(h) \/ Proceeds(h) \/ GivenUp(h) \/ Rereads(h) \/ Arrives(h)

\* ... to a thread: it loses its job or wins one, and it goes on only when
\* nobody has it waiting any more.
ThreadMoves(s) ==
    /\ slot'[s].pc # "free" => WorkerOf[s] \in up'
    /\ \/ slot'[s].job \in {slot[s].job, NULL}
       \/ \E h \in Handler : WinClaim(h) /\ handler[h].slot = s /\ slot'[s].job = handler[h].job
    /\ \/ slot'[s] = slot[s]
       \/ slot[s].pc \notin Waiting
       \/ \A h \in Handler : handler[h].slot = s => handler'[h].slot # s

\* ... to a row: at most a report or a cancellation moves it on, with its owner
\* and its attempts, or one of the actions that change its owner or put it in the queue.
MovesOn(j) ==
    /\ jobs'[j].owner = jobs[j].owner /\ jobs'[j].attempt = jobs[j].attempt
    /\ \/ jobs'[j].status = jobs[j].status
       \/ /\ jobs'[j].status \in {"running", "completed", "dead"}
          /\ \E h \in Handler : handler[h].op \in Reporting \cup {"cancel"} /\ handler[h].job = j

RowMoves(j) ==
    \/ MovesOn(j)
    \/ \E h \in Handler :
          \/ handler[h].job = j /\ (WinClaim(h) \/ CommitRequeue(h) \/ CommitRestart(h) \/ CommitCreate(h))
          \/ CommitPromote(h) /\ handler[h].plan[j] # "keep"
    \/ j \in sched.batch /\ (CommitDueJobs \/ CommitReap)

\* ... to the fleet and the batch.
FleetMoves ==
    /\ up' \subseteq up
    /\ stale \ stale' \subseteq up
    /\ \A w \in stale' \ stale : \/ "silence" \in Faults
                                 \/ /\ w \notin up /\ UNCHANGED handler
                                    /\ \A h \in Handler : handler[h].worker # w

BatchMoves ==
    \/ sched' = sched
    \/ sched'.batch = {} /\ sched'.pass \in {"promote", "reap"}
    \/ /\ UNCHANGED jobs
       /\ \/ sched'.pass = "promoting" /\ sched'.batch = DueJobs
          \/ sched'.pass = "reaping" /\ sched'.batch = StuckJobs

Moves ==
    /\ \A h \in Handler : HandlerMoves(h)
    /\ \A s \in Slot : ThreadMoves(s)
    /\ \A j \in Job : RowMoves(j)
    /\ FleetMoves
    /\ BatchMoves

-----------------------------------------------------------------------------
(* One lemma per group of actions.                                         *)

LEMMA NobodyWaits ==
    ASSUME Attendance, NEW s \in Slot, slot[s].pc \notin Waiting
    PROVE  \A g \in Handler : handler[g].slot # s
BY SlotAssumption
DEF Attendance, Attended, PcOf, Claiming, Reporting, Promoting, Waiting

\* The answer of a handler.
LEMMA ReplyMoves ==
    ASSUME TypeInv, Attendance, NEW h \in Handler, Reply(h), up' = up
    PROVE  (\A g \in Handler : HandlerMoves(g)) /\ (\A s \in Slot : ThreadMoves(s))
<1>a. slot \in [Slot -> SlotState] /\ handler \in [Handler -> HandlerState]
  BY DEF TypeInv, TypeOK
<1>1. \A g \in Handler : Stays(g) \/ Returns(g)
  BY <1>a DEF Reply, Stays, Returns
<1>2. ASSUME NEW s \in Slot PROVE ThreadMoves(s)
  <2>1. CASE s # handler[h].slot
    BY <1>a, <2>1 DEF Reply, ThreadMoves, Attendance
  <2>2. CASE s = handler[h].slot
    <3>1. slot'[s] = AfterReply(slot[s]) /\ handler'[h].slot = NULL /\ s # NULL
      BY <1>a, <2>2, SlotAssumption DEF Reply, Idle
    <3>2. \A g \in Handler : handler[g].slot = s => handler'[g].slot # s
      BY <2>2, <3>1 DEF Attendance
    <3>3. slot'[s].job \in {slot[s].job, NULL} /\ (slot'[s].pc # "free" => slot[s].pc # "free")
      BY <1>a, <3>1 DEF AfterReply, FreeSlot, SlotState
    <3> QED
      BY <3>2, <3>3 DEF ThreadMoves, Attendance
  <2> QED
    BY <2>1, <2>2
<1> QED
  BY <1>1, <1>2 DEF HandlerMoves

\* The threads, when none of them moves.
LEMMA ThreadsStay ==
    ASSUME Attendance, slot' = slot, up' = up
    PROVE  \A s \in Slot : ThreadMoves(s)
BY DEF ThreadMoves, Attendance

\* The other handlers, when one goes on.
LEMMA OneMoves ==
    ASSUME TypeInv, Attendance, NEW h \in Handler, NEW next,
           handler' = [handler EXCEPT ![h] = next], HandlerMoves(h)
    PROVE  \A g \in Handler : HandlerMoves(g)
BY DEF TypeInv, TypeOK, HandlerMoves, Stays

LEMMA NobodyReplaced ==
    ASSUME UNCHANGED <<up, stale, sched>>
    PROVE  FleetMoves /\ BatchMoves
BY DEF FleetMoves, BatchMoves

\* The rows, when only that of a handler's job is written.
LEMMA OneRowMoves ==
    ASSUME TypeInv, NEW j \in Job, NEW row, jobs' = [jobs EXCEPT ![j] = row], RowMoves(j)
    PROVE  \A k \in Job : RowMoves(k)
BY DEF TypeInv, TypeOK, RowMoves, MovesOn

LEMMA RowsStay ==
    ASSUME UNCHANGED jobs
    PROVE  \A j \in Job : RowMoves(j)
BY DEF RowMoves, MovesOn

LEMMA ClaimMoves ==
    ASSUME TypeInv, Attendance, NEW h \in Handler, ClaimStep(h)
    PROVE  Moves
<1> USE DEF tables, fleet, queues, history
<1>a. slot \in [Slot -> SlotState] /\ handler \in [Handler -> HandlerState]
  BY DEF TypeInv, TypeOK
<1>1. FleetMoves /\ BatchMoves
  BY NobodyReplaced DEF ClaimStep, WithinLimit, AtLimit, WinClaim, LoseClaim
<1>2. CASE WithinLimit(h)
  <2>1. PICK next : /\ next = [handler[h] EXCEPT !.op = "update"]
                    /\ handler' = [handler EXCEPT ![h] = next]
    BY <1>a, <1>2 DEF WithinLimit
  <2>2. Proceeds(h)
    BY <1>a, <1>2, <2>1 DEF WithinLimit, Proceeds, HandlerState
  <2> QED
    BY <1>1, <1>2, <2>1, <2>2, OneMoves, ThreadsStay, RowsStay
    DEF WithinLimit, Moves, HandlerMoves
<1>3. CASE AtLimit(h) \/ LoseClaim(h)
  BY <1>1, <1>3, ReplyMoves, RowsStay DEF AtLimit, LoseClaim, Moves
<1>4. CASE WinClaim(h)
  <2> DEFINE j == handler[h].job
  <2>1. j \in Job
    BY <1>a, <1>4 DEF WinClaim, TypeInv, Assigned, HandlerState
  <2>2. RowMoves(j) /\ jobs' = [jobs EXCEPT ![j] = Claimed(@, handler[h].worker)]
    BY <1>4 DEF RowMoves, WinClaim
  <2>3. \A k \in Job : RowMoves(k)
    BY <2>1, <2>2, OneRowMoves
  <2>4. handler'[h] = Idle /\ \A g \in Handler : Stays(g) \/ Returns(g)
    BY <1>a, <1>4 DEF WinClaim, Stays, Returns
  <2>5. ASSUME NEW s \in Slot PROVE ThreadMoves(s)
    <3>0. /\ \A t \in Slot : t # handler[h].slot => slot'[t] = slot[t]
          /\ s = handler[h].slot => \/ slot'[s].pc = "hold" /\ slot'[s].job = j
                                    \/ slot'[s] = FreeSlot
          /\ up' = up
      BY <1>4 DEF WinClaim, ClaimAnswers
    <3>1. CASE s # handler[h].slot
      BY <3>0, <3>1 DEF ThreadMoves, Attendance
    <3>2. CASE s = handler[h].slot
      <4>1. /\ \/ slot'[s].pc = "hold" /\ slot'[s].job = j
               \/ slot'[s] = FreeSlot
            /\ s # NULL
        BY <3>0, <3>2, SlotAssumption
      <4>2. WorkerOf[s] \in up
        BY <1>4, <3>2, <4>1
        DEF Attendance, Attended, WinClaim, PcOf, Claiming
      <4>3. \A g \in Handler : handler[g].slot = s => handler'[g].slot # s
        BY <2>4, <3>2, <4>1 DEF Attendance, Idle
      <4> QED
        BY <1>4, <3>0, <3>2, <4>1, <4>2, <4>3 DEF ThreadMoves, FreeSlot
    <3> QED
      BY <3>1, <3>2
  <2> QED
    BY <1>1, <2>3, <2>4, <2>5 DEF Moves, HandlerMoves
<1> QED
  BY <1>2, <1>3, <1>4 DEF ClaimStep

\* A session that assigns the status only leaves the rest alone.
LEMMA StatusFlushed ==
    ASSUME NEW cur \in Row, NEW old \in Row, NEW st \in Status
    PROVE  /\ Flush(cur, old, WithStatus(old, st)).owner = cur.owner
           /\ Flush(cur, old, WithStatus(old, st)).attempt = cur.attempt
           /\ Flush(cur, old, WithStatus(old, st)).status \in {cur.status, st}
BY DEF Flush, WithStatus, Row

LEMMA StatusMoves ==
    ASSUME TypeInv, NEW h \in Handler, handler[h].op \in Reporting \cup {"cancel"},
           NEW st \in {"running", "completed", "dead"},
           jobs' = [jobs EXCEPT ![handler[h].job] =
                       Flush(@, handler[h].snap, WithStatus(handler[h].snap, st))]
    PROVE  \A k \in Job : RowMoves(k)
<1> DEFINE j == handler[h].job
           row == handler[h].snap
<1>1. j \in Job /\ row \in Row /\ jobs \in [Job -> Row]
  BY DEF TypeInv, TypeOK, Assigned, HandlerState, Reporting
<1>2. jobs' = [jobs EXCEPT ![j] = Flush(jobs[j], row, WithStatus(row, st))]
  OBVIOUS
<1>3. MovesOn(j)
  <2>1. jobs'[j] = Flush(jobs[j], row, WithStatus(row, st)) /\ jobs[j] \in Row
    BY <1>1, <1>2
  <2> QED
    BY <1>1, <2>1, StatusFlushed DEF MovesOn, Status
<1>4. RowMoves(j)
  BY <1>3 DEF RowMoves
<1> QED
  BY <1>1, <1>2, <1>4, OneRowMoves

LEMMA ReportMoves ==
    ASSUME TypeInv, Attendance, NEW h \in Handler, ReportStep(h)
    PROVE  Moves
<1> USE DEF tables, fleet, queues, history
<1>a. slot \in [Slot -> SlotState] /\ handler \in [Handler -> HandlerState]
  BY DEF TypeInv, TypeOK
<1>1. FleetMoves /\ BatchMoves
  BY NobodyReplaced
  DEF ReportStep, CommitStart, CommitComplete, CommitRequeue, CommitDead, DuplicateDeadLetter
<1>2. CASE CommitStart(h)
  BY <1>1, <1>2, ReplyMoves, StatusMoves DEF CommitStart, Moves, Reporting
<1>3. CASE CommitComplete(h)
  <2>1. PICK next : /\ next = [handler[h] EXCEPT !.op = "edges"]
                    /\ handler' = [handler EXCEPT ![h] = next]
    BY <1>a, <1>3 DEF CommitComplete
  <2>2. Proceeds(h)
    BY <1>a, <1>3, <2>1 DEF CommitComplete, Proceeds, Promoting, HandlerState
  <2>3. \A g \in Handler : HandlerMoves(g)
    BY <2>1, <2>2, OneMoves DEF HandlerMoves
  <2>4. \A k \in Job : RowMoves(k)
    BY <1>3, StatusMoves DEF CommitComplete, Reporting
  <2> QED
    BY <1>1, <1>3, <2>3, <2>4, ThreadsStay DEF CommitComplete, Moves
<1>4. CASE CommitRequeue(h)
  <2> DEFINE j == handler[h].job
  <2>1. j \in Job /\ RowMoves(j)
    BY <1>a, <1>4 DEF CommitRequeue, TypeInv, Assigned, HandlerState, RowMoves
  <2>2. PICK row : jobs' = [jobs EXCEPT ![j] = row]
    BY <1>4 DEF CommitRequeue
  <2>3. \A k \in Job : RowMoves(k)
    BY <2>1, <2>2, OneRowMoves
  <2> QED
    BY <1>1, <1>4, <2>3, ReplyMoves DEF CommitRequeue, Moves
<1>5. CASE CommitDead(h)
  BY <1>1, <1>5, ReplyMoves, StatusMoves DEF CommitDead, Moves, Reporting
<1>6. CASE DuplicateDeadLetter(h)
  BY <1>1, <1>6, ReplyMoves, RowsStay DEF DuplicateDeadLetter, Moves
<1> QED
  BY <1>2, <1>3, <1>4, <1>5, <1>6 DEF ReportStep

LEMMA PromoteMoves ==
    ASSUME TypeInv, Attendance, NEW h \in Handler, PromoteStep(h)
    PROVE  Moves
<1> USE DEF tables, fleet, queues, history
<1>a. slot \in [Slot -> SlotState] /\ handler \in [Handler -> HandlerState]
  BY DEF TypeInv, TypeOK
<1>1. FleetMoves /\ BatchMoves
  BY NobodyReplaced
  DEF PromoteStep, ReadEdges, ReadDependent, CountRemaining, CommitPromote
<1>2. CASE ReadEdges(h) \/ ReadDependent(h) \/ CountRemaining(h)
  <2>1. Proceeds(h) /\ \E next : handler' = [handler EXCEPT ![h] = next]
    <3>1. CASE ReadEdges(h)
      <4>1. PICK plan : /\ \A d \in Job : \/ plan[d] = "keep"
                                          \/ handler[h].job \in DependsOn[d] /\ Present(d)
                        /\ handler' = [handler EXCEPT ![h].op = "scan", ![h].plan = plan]
        <5>1. PICK plan : plan = [d \in Job |-> IF /\ handler[h].job \in DependsOn[d]
                                                   /\ jobs[d].status # "absent"
                                                THEN "todo" ELSE "keep"]
          OBVIOUS
        <5> QED
          BY <3>1, <5>1 DEF ReadEdges, Present
      <4>2. PICK next : /\ next = [handler[h] EXCEPT !.op = "scan", !.plan = plan]
                        /\ handler' = [handler EXCEPT ![h] = next]
        BY <1>a, <4>1
      <4>3. /\ handler'[h] = next /\ next.op = "scan" /\ next.plan = plan
            /\ next.job = handler[h].job /\ next.slot = handler[h].slot
            /\ next.worker = handler[h].worker
        BY <1>a, <4>2 DEF HandlerState
      <4>4. handler[h].op = "edges" /\ slot' = slot
        BY <3>1 DEF ReadEdges
      <4>5. \A d \in Job : \/ next.plan[d] = "keep"
                           \/ handler[h].job \in DependsOn[d] /\ Present(d)
        BY <4>1, <4>3
      <4> QED
        BY <4>2, <4>3, <4>4, <4>5 DEF Proceeds, Promoting
    <3>2. CASE ReadDependent(h)
      <4>1. PICK d \in Job :
              /\ handler[h].plan[d] = "todo"
              /\ IF jobs[d].status = "blocked"
                 THEN handler' = [handler EXCEPT ![h].op = "count", ![h].dep = d,
                                                 ![h].plan[d] = Ready(jobs[d].due)]
                 ELSE handler' = [handler EXCEPT ![h].plan[d] = "keep"]
        BY <3>2 DEF ReadDependent
      <4>2. PICK next : /\ handler' = [handler EXCEPT ![h] = next]
                        /\ next.op \in {"scan", "count"}
                        /\ next.job = handler[h].job /\ next.slot = handler[h].slot
                        /\ next.worker = handler[h].worker
                        /\ \A k \in Job : k # d => next.plan[k] = handler[h].plan[k]
        <5>1. CASE jobs[d].status = "blocked"
          <6>1. PICK next : next = [handler[h] EXCEPT !.op = "count", !.dep = d,
                                                      !.plan[d] = Ready(jobs[d].due)]
            OBVIOUS
          <6>2. handler' = [handler EXCEPT ![h] = next]
            BY <4>1, <5>1, <6>1
          <6>3. /\ next.op = "count"
                /\ next.job = handler[h].job /\ next.slot = handler[h].slot
                /\ next.worker = handler[h].worker
                /\ \A k \in Job : k # d => next.plan[k] = handler[h].plan[k]
            BY <1>a, <6>1 DEF HandlerState
          <6> QED
            BY <6>2, <6>3
        <5>2. CASE jobs[d].status # "blocked"
          <6>1. PICK next : next = [handler[h] EXCEPT !.plan[d] = "keep"]
            OBVIOUS
          <6>2. handler' = [handler EXCEPT ![h] = next]
            BY <1>a, <4>1, <5>2, <6>1
          <6>3. /\ next.op = "scan"
                /\ next.job = handler[h].job /\ next.slot = handler[h].slot
                /\ next.worker = handler[h].worker
                /\ \A k \in Job : k # d => next.plan[k] = handler[h].plan[k]
            BY <1>a, <3>2, <6>1 DEF ReadDependent, HandlerState
          <6> QED
            BY <6>2, <6>3
        <5> QED
          BY <5>1, <5>2
      <4>3. handler'[h] = next /\ handler[h].op = "scan" /\ slot' = slot
        BY <1>a, <3>2, <4>2 DEF ReadDependent
      <4> QED
        BY <4>1, <4>2, <4>3 DEF Proceeds, Promoting
    <3>3. CASE CountRemaining(h)
      <4>1. PICK d, dec : d = handler[h].dep
                          /\ dec = IF Remaining(d) = {} THEN handler[h].plan[d] ELSE "keep"
        OBVIOUS
      <4>2. PICK next : next = [handler[h] EXCEPT !.op = "scan", !.dep = NULL,
                                                  !.plan = [@ EXCEPT ![d] = dec]]
        OBVIOUS
      <4>3. handler' = [handler EXCEPT ![h] = next] /\ handler[h].op = "count" /\ slot' = slot
        BY <1>a, <3>3, <4>1, <4>2 DEF CountRemaining
      <4>4. /\ handler'[h] = next /\ next.op = "scan"
            /\ next.job = handler[h].job /\ next.slot = handler[h].slot
            /\ next.worker = handler[h].worker
            /\ \A k \in Job : next.plan[k] \in {handler[h].plan[k], "keep"}
        BY <1>a, <4>1, <4>2, <4>3 DEF HandlerState
      <4> QED
        BY <4>3, <4>4 DEF Proceeds, Promoting
    <3> QED
      BY <1>2, <3>1, <3>2, <3>3
  <2>2. \A g \in Handler : HandlerMoves(g)
    BY <2>1, OneMoves DEF HandlerMoves
  <2> QED
    BY <1>1, <1>2, <2>2, ThreadsStay, RowsStay
    DEF ReadEdges, ReadDependent, CountRemaining, Moves
<1>3. CASE CommitPromote(h)
  <2>1. \A k \in Job : RowMoves(k)
    BY <1>3 DEF CommitPromote, RowMoves, MovesOn
  <2> QED
    BY <1>1, <1>3, <2>1, ReplyMoves DEF CommitPromote, Moves
<1> QED
  BY <1>2, <1>3 DEF PromoteStep

LEMMA OperatorMoves ==
    ASSUME TypeInv, Attendance, NEW h \in Handler, OperatorStep(h)
    PROVE  Moves
<1> USE DEF tables, fleet, queues, history
<1>0. Reply(h) /\ UNCHANGED <<up, stale, sched>>
  BY DEF OperatorStep, CommitCreate, DuplicateKey, CommitCancel, CommitRestart
<1>1. FleetMoves /\ BatchMoves
  BY <1>0, NobodyReplaced
<1>2. (\A g \in Handler : HandlerMoves(g)) /\ (\A s \in Slot : ThreadMoves(s))
  BY <1>0, ReplyMoves
<1>4. \A k \in Job : RowMoves(k)
  <2>1. CASE CommitCancel(h)
    BY <2>1, StatusMoves DEF CommitCancel
  <2>2. CASE DuplicateKey(h)
    BY <2>2, RowsStay DEF DuplicateKey
  <2>3. CASE CommitCreate(h) \/ CommitRestart(h)
    <3> DEFINE j == handler[h].job
    <3>1. j \in Job /\ RowMoves(j)
      BY <2>3 DEF CommitCreate, CommitRestart, TypeInv, TypeOK, Assigned, HandlerState, RowMoves
    <3>2. PICK row : jobs' = [jobs EXCEPT ![j] = row]
      BY <2>3 DEF CommitCreate, CommitRestart
    <3> QED
      BY <3>1, <3>2, OneRowMoves
  <2> QED
    BY <2>1, <2>2, <2>3 DEF OperatorStep
<1> QED
  BY <1>1, <1>2, <1>4 DEF Moves

\* A thread sends a request, with what the database holds.
LEMMA SendMoves ==
    ASSUME TypeInv, Attendance, NEW h \in Handler, NEW s \in Slot,
           NEW op \in Waiting, NEW j \in Job \cup {NULL}, NEW request,
           Send(h, s, op, j, request), UNCHANGED <<jobs, up, stale, sched>>,
           slot[s].pc \notin Waiting, WorkerOf[s] \in up,
           request.op = op, request.slot = s, request.worker = WorkerOf[s],
           request.plan = NoPlan,
           op = "claim" => /\ j = NULL /\ Present(request.job)
                           /\ \A t \in Slot : WorkerOf[t] = WorkerOf[s] => slot[t].pc # "claim",
           op # "claim" => /\ slot[s].pc # "free" /\ slot[s].job = j
                           /\ request.job = j /\ request.snap = jobs[j]
    PROVE  Moves
<1>1. /\ handler'[h] = request /\ handler[h] = Idle
      /\ \A g \in Handler : g # h => handler'[g] = handler[g]
      /\ slot' = [slot EXCEPT ![s] = [pc |-> op, job |-> j]]
  BY DEF Send, TypeInv, TypeOK
<1>2. Sends(h, s)
  BY <1>1 DEF Sends
<1>3. \A g \in Handler : HandlerMoves(g)
  BY <1>1, <1>2 DEF HandlerMoves, Arrives, Stays
<1>4. ASSUME NEW t \in Slot PROVE ThreadMoves(t)
  <2>1. CASE t = s
    BY <1>1, <2>1 DEF ThreadMoves, TypeInv, TypeOK
  <2>2. CASE t # s
    BY <1>1, <2>2 DEF ThreadMoves, TypeInv, TypeOK, Attendance
  <2> QED
    BY <2>1, <2>2
<1> QED
  BY <1>3, <1>4, NobodyReplaced, RowsStay DEF Moves

LEMMA SlotMoves ==
    ASSUME TypeInv, Attendance, NEW s \in Slot, SlotStep(s)
    PROVE  Moves
<1> USE DEF tables, fleet, queues, history
<1>a. /\ slot \in [Slot -> SlotState] /\ jobs \in [Job -> Row]
      /\ slot[s].pc # "free" => WorkerOf[s] \in up
      /\ slot[s].pc \notin {"free", "claim"} => slot[s].job \in Job /\ slot[s].job # NULL
  BY NullAssumption DEF TypeInv, TypeOK, Assigned, SlotState, Attendance
<1>1. ASSUME NEW h \in Handler, Poll(h, s) PROVE Moves
  <2>1. PICK j \in Candidates(WorkerOf[s]) :
          Send(h, s, "claim", NULL, Request("claim", j, s, NoRow))
    BY <1>1 DEF Poll
  <2>2. j \in Job /\ Present(j) /\ NoRow \in Row /\ "claim" \in HandlerOp \ {"idle"}
    BY SlotAssumption DEF Candidates, Eligible, Present, NoRow, Row, Status, HandlerOp
  <2>3. PICK request \in HandlerState : request = Request("claim", j, s, NoRow)
    BY <2>2, RequestType
  <2>4. /\ request.op = "claim" /\ request.slot = s /\ request.worker = WorkerOf[s]
        /\ request.plan = NoPlan /\ request.job = j
    BY <2>2, <2>3, RequestType, RequestFields, SentFields
  <2>5. /\ slot[s].pc = "free" /\ WorkerOf[s] \in up /\ UNCHANGED <<jobs, up, stale, sched>>
        /\ \A t \in Slot : WorkerOf[t] = WorkerOf[s] => slot[t].pc # "claim"
    BY <1>1 DEF Poll
  <2> QED
    BY <2>1, <2>2, <2>3, <2>4, <2>5, SendMoves DEF Waiting
<1>2. ASSUME NEW h \in Handler, PostStart(h, s) PROVE Moves
  <2>1. PICK j \in Job : j = slot[s].job /\ j # NULL
    BY <1>a, <1>2 DEF PostStart
  <2>2. jobs[j] \in Row /\ "start" \in HandlerOp \ {"idle"}
    BY <1>a DEF HandlerOp
  <2>3. PICK request \in HandlerState : request = Request("start", j, s, jobs[j])
    BY <2>2, RequestType
  <2>4. /\ request.op = "start" /\ request.job = j /\ request.slot = s
        /\ request.worker = WorkerOf[s]
        /\ request.plan = NoPlan /\ request.snap = jobs[j]
    BY <2>2, <2>3, RequestType, RequestFields, SentFields
  <2>5. /\ slot[s].pc = "hold" /\ UNCHANGED <<jobs, up, stale, sched>>
        /\ Send(h, s, "start", j, request)
    BY <1>2, <2>1, <2>3 DEF PostStart
  <2> QED
    BY <1>a, <2>1, <2>4, <2>5, SendMoves DEF Waiting
<1>3. ASSUME NEW h \in Handler, PostReport(h, s) PROVE Moves
  <2>1. PICK op \in {"complete", "fail"} :
          /\ slot[s].pc = (IF op = "complete" THEN "run" ELSE "raised")
          /\ \E i \in Latest(slot[s].job) :
                Send(h, s, op, slot[s].job, Report(op, slot[s].job, s, i))
          /\ UNCHANGED <<jobs, up, stale, sched>>
    BY <1>3 DEF PostReport
  <2>2. PICK j \in Job : j = slot[s].job /\ j # NULL
    BY <1>a, <2>1
  <2>3. PICK i \in Latest(j) : Send(h, s, op, j, Report(op, j, s, i))
    BY <2>1, <2>2
  <2>4. PICK request \in HandlerState : request = Report(op, j, s, i)
    BY <2>3, ReportType
  <2>5. /\ request.op = op /\ request.job = j /\ request.slot = s
        /\ request.worker = WorkerOf[s]
        /\ request.plan = NoPlan /\ request.snap = jobs[j]
    BY <2>3, <2>4, ReportType, ReportedFields
  <2>6. op \in Waiting /\ op # "claim" /\ slot[s].pc \notin Waiting /\ slot[s].pc # "free"
    BY <2>1 DEF Waiting
  <2> QED
    BY <1>a, <2>1, <2>2, <2>3, <2>4, <2>5, <2>6, SendMoves
<1>4. CASE TaskFails(s) \/ ReportRefused(s)
  <2>1. /\ UNCHANGED <<jobs, handler, up, stale, sched>>
        /\ slot[s].pc \in {"run", "raised"}
        /\ \A t \in Slot : t # s => slot'[t] = slot[t]
        /\ slot'[s].job \in {slot[s].job, NULL}
    BY <1>4, <1>a DEF TaskFails, ReportRefused, FreeSlot, SlotState
  <2>2. \A t \in Slot : ThreadMoves(t)
    BY <1>a, <2>1 DEF ThreadMoves, Waiting, Attendance
  <2> QED
    BY <2>1, <2>2, NobodyReplaced, RowsStay DEF Moves, HandlerMoves, Stays
<1> QED
  BY <1>1, <1>2, <1>3, <1>4 DEF SlotStep

LEMMA SchedulerMoves ==
    ASSUME TypeInv, Attendance, SchedulerStep
    PROVE  Moves
<1> USE DEF tables, fleet, queues, history
<1>1. UNCHANGED <<handler, slot, up, stale>>
  BY DEF SchedulerStep, ReadDueJobs, CommitDueJobs, ReadStuckJobs, CommitReap
<1>2. (\A h \in Handler : HandlerMoves(h)) /\ (\A s \in Slot : ThreadMoves(s)) /\ FleetMoves
  BY <1>1, ThreadsStay DEF HandlerMoves, Stays, FleetMoves
<1>3. BatchMoves
  BY DEF SchedulerStep, ReadDueJobs, CommitDueJobs, ReadStuckJobs, CommitReap, Load, BatchMoves
<1>4. ASSUME NEW j \in Job PROVE RowMoves(j)
  <2>1. CASE UNCHANGED jobs
    BY <2>1, RowsStay
  <2>2. CASE CommitDueJobs \/ CommitReap
    BY <2>2 DEF CommitDueJobs, CommitReap, RowMoves, MovesOn
  <2> QED
    BY <2>1, <2>2 DEF SchedulerStep, ReadDueJobs, ReadStuckJobs
<1> QED
  BY <1>2, <1>3, <1>4 DEF Moves

LEMMA RequestMoves ==
    ASSUME TypeInv, Attendance, OperatorRequest
    PROVE  Moves
<1> USE DEF tables, fleet, queues, history
<1>1. ASSUME NEW h \in Handler, NEW j \in Job, NEW op \in HandlerOp \ {"idle"}, NEW row \in Row,
             handler[h] = Idle, handler' = [handler EXCEPT ![h] = UserRequest(op, j, row)],
             UNCHANGED <<jobs, slot, up, stale, sched>>,
             \/ op \in {"cancel", "retry", "replay"} \cap Ops /\ Present(j)
             \/ /\ "create" \in Ops /\ op = "create" /\ ~ Present(j)
                /\ row.status \in {"blocked", "scheduled", "queued"}
                /\ row.owner = NULL /\ row.attempt = 0
                /\ \A g \in Handler : ~ (handler[g].op = "create" /\ handler[g].job = j)
      PROVE  Moves
  <2>1. PICK request : request = UserRequest(op, j, row)
    OBVIOUS
  <2>2. /\ request.op = op /\ request.job = j /\ request.snap = row /\ request.plan = NoPlan
        /\ request.slot = NULL /\ request.worker = NULL
    BY <2>1, RequestType, RequestFields DEF UserRequest, Idle
  <2>3. handler'[h] = request /\ \A g \in Handler : g # h => Stays(g)
    BY <1>1, <2>1 DEF TypeInv, TypeOK, Stays
  <2>4. Asks(h)
    BY <1>1, <2>2, <2>3 DEF Asks
  <2>5. \A g \in Handler : HandlerMoves(g)
    BY <1>1, <2>2, <2>3, <2>4 DEF HandlerMoves, Arrives
  <2> QED
    BY <1>1, <2>5, ThreadsStay, NobodyReplaced, RowsStay DEF Moves
<1>2. ASSUME NEW h \in Handler, NEW j \in Job, BeginCreate(h, j) PROVE Moves
  <2>1. PICK row : row = NewRow(Remaining(j) # {}, j \notin Delayed)
    OBVIOUS
  <2>2. /\ row \in Row /\ row.status \in {"blocked", "scheduled", "queued"}
        /\ row.owner = NULL /\ row.attempt = 0
    BY <2>1, NewRowType DEF NewRow, NoRow
  <2> QED
    BY <1>1, <1>2, <2>1, <2>2 DEF BeginCreate, HandlerOp, Present
<1>3. ASSUME NEW h \in Handler, NEW j \in Job, NEW op \in {"cancel", "retry", "replay"},
             BeginOperation(h, op, j)
      PROVE  Moves
  <2>1. jobs[j] \in Row
    BY DEF TypeInv, TypeOK
  <2> QED
    BY <1>1, <1>3, <2>1 DEF BeginOperation, Accepts, HandlerOp, Present
<1>4. CASE UNCHANGED <<jobs, handler, slot, up, stale, sched>>
  BY <1>4, ThreadsStay, NobodyReplaced, RowsStay DEF Moves, HandlerMoves, Stays
<1> QED
  BY <1>2, <1>3, <1>4 DEF OperatorRequest, Drain, ListWorkers, SetPaused, PatchLimit

LEMMA ClockMoves ==
    ASSUME TypeInv, Attendance, Clock
    PROVE  Moves
<1> USE DEF tables, fleet, queues, history
<1>1. UNCHANGED <<handler, slot, up, sched>>
  BY DEF Clock, TimePasses, Heartbeat, GoStale
<1>2. /\ \A h \in Handler : HandlerMoves(h)
      /\ \A s \in Slot : ThreadMoves(s)
      /\ BatchMoves
  BY <1>1, ThreadsStay DEF HandlerMoves, Stays, BatchMoves
<1>3. \A j \in Job : RowMoves(j)
  <2>1. ASSUME NEW k \in Job, TimePasses(k) PROVE \A j \in Job : RowMoves(j)
    <3>1. \A j \in Job : MovesOn(j)
      BY <2>1 DEF TimePasses, MovesOn, TypeInv, TypeOK, Row
    <3> QED
      BY <3>1 DEF RowMoves
  <2>2. CASE UNCHANGED jobs
    BY <2>2, RowsStay
  <2> QED
    BY <2>1, <2>2 DEF Clock, Heartbeat, GoStale
<1>4. FleetMoves
  BY <1>1 DEF Clock, TimePasses, Heartbeat, GoStale, FleetMoves
<1> QED
  BY <1>2, <1>3, <1>4 DEF Moves

LEMMA CrashMoves ==
    ASSUME TypeInv, Attendance, NEW w \in Worker, WorkerCrash(w)
    PROVE  Moves
<1> USE DEF tables, fleet, queues, history
<1>a. slot \in [Slot -> SlotState] /\ handler \in [Handler -> HandlerState]
  BY DEF TypeInv, TypeOK
<1>1. /\ UNCHANGED <<jobs, stale, sched>> /\ up' = up \ {w}
      /\ \A s \in Slot : slot'[s] = IF WorkerOf[s] = w THEN FreeSlot ELSE slot[s]
      /\ \A h \in Handler : handler'[h] = IF handler[h].worker = w
                                          THEN [handler[h] EXCEPT !.slot = NULL]
                                          ELSE handler[h]
  BY DEF WorkerCrash
<1>2. ASSUME NEW h \in Handler PROVE HandlerMoves(h)
  <2>1. CASE handler[h].worker # w
    BY <1>1, <2>1 DEF HandlerMoves, Stays
  <2>2. CASE handler[h].slot = NULL
    <3>1. [handler[h] EXCEPT !.slot = NULL] = handler[h]
      BY <1>a, <2>2 DEF HandlerState
    <3> QED
      BY <1>1, <3>1 DEF HandlerMoves, Stays
  <2>3. CASE handler[h].slot # NULL /\ handler[h].worker = w
    <3>1. handler[h].slot \in Slot /\ WorkerOf[handler[h].slot] = w
      BY <1>a, <2>3 DEF Attendance, Attended, HandlerState
    <3> QED
      BY <1>1, <2>3, <3>1 DEF HandlerMoves, GivenUp
  <2> QED
    BY <2>1, <2>2, <2>3
<1>3. ASSUME NEW s \in Slot PROVE ThreadMoves(s)
  <2>1. CASE WorkerOf[s] # w
    BY <1>1, <2>1 DEF ThreadMoves, Attendance
  <2>2. CASE WorkerOf[s] = w
    <3>1. slot'[s].pc = "free" /\ slot'[s].job = NULL
      BY <1>1, <2>2 DEF FreeSlot
    <3>2. ASSUME NEW h \in Handler, handler[h].slot = s PROVE handler'[h].slot # s
      <4>1. handler[h].worker = w /\ s # NULL
        BY <2>2, <3>2, SlotAssumption DEF Attendance, Attended
      <4>2. handler'[h].slot = NULL
        BY <1>1, <1>a, <4>1 DEF HandlerState
      <4> QED
        BY <4>1, <4>2
    <3> QED
      BY <3>1, <3>2 DEF ThreadMoves
  <2> QED
    BY <2>1, <2>2
<1>4. FleetMoves /\ BatchMoves
  BY <1>1 DEF FleetMoves, BatchMoves
<1> QED
  BY <1>1, <1>2, <1>3, <1>4, RowsStay DEF Moves

LEMMA GiveUpMoves ==
    ASSUME TypeInv, Attendance, NEW h \in Handler, LoseReply(h)
    PROVE  Moves
<1> USE DEF tables, fleet, queues, history
<1>a. slot \in [Slot -> SlotState] /\ handler \in [Handler -> HandlerState]
  BY DEF TypeInv, TypeOK
<1> DEFINE t == handler[h].slot
<1>1. /\ t \in Slot /\ t # NULL
      /\ UNCHANGED <<jobs, up, stale, sched>>
      /\ slot' = [slot EXCEPT ![t] = AfterNoReply(slot[t])]
      /\ handler' = [handler EXCEPT ![h] = [handler[h] EXCEPT !.slot = NULL]]
  BY <1>a DEF LoseReply, HandlerState
<1>2. slot'[t] = AfterNoReply(slot[t]) /\ \A s \in Slot : s # t => slot'[s] = slot[s]
  BY <1>1, <1>a
<1>3. /\ handler'[h] = [handler[h] EXCEPT !.slot = NULL] /\ handler'[h].slot = NULL
      /\ \A g \in Handler : g # h => handler'[g] = handler[g]
  BY <1>1, <1>a DEF HandlerState
<1>4. \A g \in Handler : HandlerMoves(g)
  BY <1>1, <1>2, <1>3 DEF HandlerMoves, Stays, GivenUp
<1>5. ASSUME NEW s \in Slot PROVE ThreadMoves(s)
  <2>1. CASE s # t
    BY <1>1, <1>2, <2>1 DEF ThreadMoves, Attendance
  <2>2. CASE s = t
    <3>1. /\ slot'[s].job \in {slot[s].job, NULL}
          /\ slot'[s].pc # "free" => slot[s].pc # "free"
      BY <1>a, <1>2, <2>2 DEF AfterNoReply, FreeSlot, SlotState
    <3>2. \A g \in Handler : handler[g].slot = s => handler'[g].slot # s
      BY <1>1, <1>3, <2>2 DEF Attendance
    <3> QED
      BY <1>1, <3>1, <3>2 DEF ThreadMoves, Attendance
  <2> QED
    BY <2>1, <2>2
<1> QED
  BY <1>1, <1>4, <1>5, NobodyReplaced, RowsStay DEF Moves

LEMMA LateReadMoves ==
    ASSUME TypeInv, TypeInv', Attendance, NEW h \in Handler, LateRead(h)
    PROVE  Moves
<1> DEFINE r == handler[h]
<1>1. PICK next : next = handler'[h]
  OBVIOUS
<1>2. /\ handler' = [handler EXCEPT ![h] = next]
      /\ next.op = r.op /\ next.slot = r.slot /\ next.worker = r.worker /\ next.plan = r.plan
      /\ r.op # "claim" => next.job = r.job /\ next.snap = jobs[r.job]
      /\ r.op \in Waiting
      /\ UNCHANGED <<jobs, slot, up, stale, sched>>
  BY <1>1, LateReadLoads
<1>3. ASSUME r.op = "claim" PROVE Present(next.job)
  <2>1. PICK k \in Candidates(r.worker) : handler' = [handler EXCEPT ![h].job = k]
    BY <1>3 DEF LateRead
  <2>2. next.job = k
    BY <1>1, <2>1 DEF TypeInv, TypeOK, HandlerState
  <2> QED
    BY <2>2 DEF Candidates, Eligible, Present
<1>4. r.slot = NULL
  BY DEF LateRead
<1>5. Rereads(h)
  BY <1>1, <1>2, <1>3, <1>4 DEF Rereads
<1>6. \A g \in Handler : HandlerMoves(g)
  BY <1>2, <1>5, OneMoves DEF HandlerMoves
<1> QED
  BY <1>2, <1>6, ThreadsStay, NobodyReplaced, RowsStay DEF Moves

LEMMA FailureMoves ==
    ASSUME TypeInv, TypeInv', Attendance, Failure
    PROVE  Moves
<1> USE DEF tables, fleet, queues, history
<1>1. ASSUME NEW h \in Handler, DbError(h) PROVE Moves
  BY <1>1, ReplyMoves, NobodyReplaced, RowsStay DEF DbError, Moves
<1>2. CASE TickError
  <2>1. BatchMoves /\ FleetMoves
    BY <1>2 DEF TickError, BatchMoves, FleetMoves
  <2> QED
    BY <1>2, <2>1, ThreadsStay, RowsStay DEF TickError, Moves, HandlerMoves, Stays
<1>3. CASE ApiCrash
  <2>1. /\ \A h \in Handler : Returns(h) /\ handler'[h].slot = NULL
        /\ UNCHANGED <<jobs, up, stale, sched>>
    BY <1>3 DEF ApiCrash, Returns, Idle
  <2>2. ASSUME NEW s \in Slot PROVE ThreadMoves(s)
    <3>1. /\ slot'[s].job \in {slot[s].job, NULL}
          /\ slot'[s].pc # "free" => slot[s].pc # "free"
      BY <1>3 DEF ApiCrash, AfterNoReply, FreeSlot, TypeInv, TypeOK, SlotState
    <3> QED
      BY <2>1, <3>1, SlotAssumption DEF ThreadMoves, Attendance
  <2> QED
    BY <2>1, <2>2, NobodyReplaced, RowsStay DEF Moves, HandlerMoves
<1> QED
  BY <1>1, <1>2, <1>3, CrashMoves, GiveUpMoves, LateReadMoves DEF Failure

LEMMA MovesStep == TypeInv /\ Attendance /\ [Next]_vars => Moves
<1> SUFFICES ASSUME TypeInv, Attendance, [Next]_vars PROVE Moves
  OBVIOUS
<1>0. TypeInv'
  BY TypeStep
<1>1. ASSUME NEW h \in Handler, HandlerStep(h) PROVE Moves
  BY <1>1, ClaimMoves, ReportMoves, PromoteMoves, OperatorMoves DEF HandlerStep
<1>2. CASE UNCHANGED vars
  BY <1>2, ThreadsStay, NobodyReplaced, RowsStay DEF vars, Moves, HandlerMoves, Stays
<1> QED
  BY <1>0, <1>1, <1>2, SlotMoves, SchedulerMoves, RequestMoves, ClockMoves, FailureMoves DEF Next

-----------------------------------------------------------------------------
(* Every handler that has somebody to answer serves the right thread.      *)

LEMMA AttendanceInit == Init => Attendance
BY DEF Init, Attendance, Attended, FreeSlot, Idle

LEMMA AttendanceStep == TypeInv /\ Attendance /\ Moves => Attendance'
<1> SUFFICES ASSUME TypeInv, Attendance, Moves PROVE Attendance'
  OBVIOUS
<1>a. slot \in [Slot -> SlotState] /\ handler \in [Handler -> HandlerState] /\ Idle.slot = NULL
  BY DEF TypeInv, TypeOK, Idle
<1>b. \A h \in Handler : handler[h].slot \in Slot \cup {NULL}
  BY <1>a DEF HandlerState
\* Whom a handler has to answer after the step, it had to answer before, or has
\* just taken a request from.
<1>1. ASSUME NEW h \in Handler, handler'[h].slot # NULL
      PROVE  \/ /\ Stays(h) /\ slot'[handler[h].slot] = slot[handler[h].slot]
             \/ Proceeds(h)
             \/ Arrives(h) /\ \E s \in Slot : Sends(h, s)
  <2>1. HandlerMoves(h)
    BY DEF Moves
  <2>2. CASE Stays(h)
    <3>1. handler[h].slot \in Slot /\ slot[handler[h].slot].pc \in Waiting
      BY <1>1, <1>b, <2>2
      DEF Stays, Attendance, Attended, PcOf, Claiming, Reporting, Promoting, Waiting
    <3> QED
      BY <1>1, <2>2, <3>1 DEF Moves, ThreadMoves, Stays
  <2>3. ~ Returns(h) /\ ~ GivenUp(h) /\ ~ Rereads(h)
    BY <1>1, <1>a DEF Returns, GivenUp, Rereads, HandlerState
  <2> QED
    BY <1>1, <2>1, <2>2, <2>3 DEF HandlerMoves, Arrives, Asks
<1>2. ASSUME NEW h \in Handler PROVE Attended(h)'
  <2> SUFFICES ASSUME handler'[h].slot # NULL PROVE Attended(h)'
    BY DEF Attended
  <2>1. CASE Stays(h) /\ slot'[handler[h].slot] = slot[handler[h].slot]
    BY <2>1 DEF Attendance, Attended, Stays
  <2>2. CASE Proceeds(h)
    <3>1. Attended(h)
      BY DEF Attendance
    <3> QED
      BY <2>2, <3>1 DEF Attended, Proceeds, PcOf, Claiming, Reporting, Promoting
  <2>3. ASSUME NEW s \in Slot, Sends(h, s) PROVE Attended(h)'
    BY <2>3, <1>a DEF Sends, Attended, PcOf, Claiming, Reporting, Promoting, Waiting
  <2> QED
    BY <1>1, <2>1, <2>2, <2>3
<1>3. ASSUME NEW h \in Handler, handler'[h].slot # NULL
      PROVE  \/ handler'[h].slot = handler[h].slot
             \/ /\ \A g \in Handler : handler[g].slot # handler'[h].slot
                /\ \A g \in Handler : g # h => Stays(g)
  <2>1. CASE Stays(h) \/ Proceeds(h)
    BY <2>1 DEF Stays, Proceeds
  <2>2. ASSUME NEW s \in Slot, Sends(h, s), Arrives(h)
        PROVE  /\ \A g \in Handler : handler[g].slot # handler'[h].slot
               /\ \A g \in Handler : g # h => Stays(g)
    BY <2>2, NobodyWaits DEF Sends, Arrives
  <2> QED
    BY <1>1, <1>3, <2>1, <2>2
<1>4. \A g, h \in Handler : g # h /\ handler'[g].slot # NULL => handler'[g].slot # handler'[h].slot
  <2> SUFFICES ASSUME NEW g \in Handler, NEW h \in Handler, g # h, handler'[g].slot # NULL,
                      handler'[g].slot = handler'[h].slot
               PROVE  FALSE
    OBVIOUS
  <2> QED
    BY <1>3 DEF Attendance, Stays
<1>5. \A s \in Slot : slot'[s].pc # "free" => WorkerOf[s] \in up'
  BY DEF Moves, ThreadMoves
<1> QED
  BY <1>2, <1>4, <1>5 DEF Attendance

\* Whatever answers are lost and whatever crashes, an API handler that still
\* has a caller answers the thread that sent this request, about this job; no
\* thread is answered twice, and none of a dead worker waits.
THEOREM AnswersFindTheirThreads == Spec => [](TypeInv /\ Attendance)
<1>1. Init => TypeInv /\ Attendance
  BY TypeInit, AttendanceInit
<1>2. (TypeInv /\ Attendance) /\ [Next]_vars => (TypeInv /\ Attendance)'
  BY TypeStep, MovesStep, AttendanceStep
<1> QED
  BY <1>1, <1>2, PTL DEF Spec

-----------------------------------------------------------------------------
(* Rows that exist.                                                        *)

\* Threads, handlers, plans and the batch are about rows that exist; what a
\* handler is about to insert does not, and nobody else is inserting it.
Presence ==
    /\ \A s \in Slot : slot[s].job # NULL => Present(slot[s].job)
    /\ \A h \in Handler : handler[h].op \notin {"idle", "create"} => Present(handler[h].job)
    /\ \A h \in Handler, d \in Job : handler[h].plan[d] # "keep" => Present(d)
    /\ \A h \in Handler : handler[h].op = "create" =>
          /\ ~ Present(handler[h].job)
          /\ handler[h].snap.status \in {"blocked", "scheduled", "queued"}
          /\ handler[h].snap.owner = NULL /\ handler[h].snap.attempt = 0
    /\ \A g, h \in Handler : /\ g # h
                             /\ handler[g].op = "create" /\ handler[h].op = "create"
                             => handler[g].job # handler[h].job
    /\ \A j \in sched.batch : Present(j)

\* A row once inserted is never removed, and only create_job inserts one.
Inserts(j) == \E h \in Handler : CommitCreate(h) /\ handler[h].job = j

LEMMA PresentStays ==
    ASSUME TypeInv, Presence, Moves, NEW j \in Job
    PROVE  Present(j)' <=> Present(j) \/ Inserts(j)
<1>a. /\ handler \in [Handler -> HandlerState] /\ jobs \in [Job -> Row]
      /\ RowMoves(j)
      /\ \A h \in Handler : handler[h].op # "idle" => handler[h].job \in Job
  BY DEF TypeInv, TypeOK, Assigned, HandlerState, Moves
<1>1. CASE MovesOn(j)
  <2>1. ~ Inserts(j)
    BY <1>1, <1>a DEF MovesOn, Inserts, CommitCreate, Presence, Present, Reporting
  <2> QED
    BY <1>1, <2>1 DEF MovesOn, Present, Presence, Reporting
<1>2. ASSUME NEW h \in Handler, handler[h].job = j, WinClaim(h) \/ CommitRequeue(h) \/ CommitRestart(h)
      PROVE  Present(j) /\ Present(j)'
  <2>1. Present(j)
    BY <1>2 DEF WinClaim, CommitRequeue, CommitRestart, Presence
  <2>2. CASE WinClaim(h)
    <3>1. jobs'[j] = Claimed(jobs[j], handler[h].worker) /\ jobs[j] \in Row
      BY <1>2, <1>a, <2>2 DEF WinClaim
    <3>2. jobs'[j].status = "claimed"
      BY <3>1 DEF Claimed, Row
    <3> QED
      BY <2>1, <3>2 DEF Present
  <2>3. CASE CommitRequeue(h) \/ CommitRestart(h)
    <3>0. PICK old \in Row : old = handler[h].snap
      BY <1>a DEF HandlerState
    <3>1. PICK new \in Row : /\ new.status = "queued"
                             /\ \E due \in BOOLEAN :
                                  jobs' = [jobs EXCEPT ![j] = FlushRunAt(jobs[j], old, new, due)]
      <4>1. Requeued(old) \in Row /\ Restarted(old) \in Row
            /\ Requeued(old).status = "queued" /\ Restarted(old).status = "queued"
        BY RowOperators, AssignedStatus
      <4>2. CASE CommitRequeue(h)
        BY <1>2, <3>0, <4>1, <4>2 DEF CommitRequeue
      <4>3. CASE CommitRestart(h)
        BY <1>2, <3>0, <4>1, <4>3 DEF CommitRestart
      <4> QED
        BY <2>3, <4>2, <4>3
    <3>2. PICK due \in BOOLEAN : jobs' = [jobs EXCEPT ![j] = FlushRunAt(jobs[j], old, new, due)]
      BY <3>1
    <3>3. jobs'[j].status \in {jobs[j].status, "queued"}
      <4>1. jobs[j] \in Row /\ jobs'[j] = FlushRunAt(jobs[j], old, new, due)
        BY <1>a, <3>2
      <4>2. FlushRunAt(jobs[j], old, new, due).status \in {jobs[j].status, new.status}
        BY <4>1, FlushRow
      <4> QED
        BY <3>1, <4>1, <4>2
    <3> QED
      BY <2>1, <3>3 DEF Present
  <2> QED
    BY <1>2, <2>1, <2>2, <2>3
<1>3. ASSUME NEW h \in Handler, handler[h].job = j, CommitCreate(h)
      PROVE  Present(j)' /\ Inserts(j)
  BY <1>3, <1>a DEF CommitCreate, Presence, Present, Inserts
<1>4. ASSUME NEW h \in Handler, CommitPromote(h), handler[h].plan[j] # "keep"
      PROVE  Present(j)' /\ Present(j)
  <2>1. /\ handler[h].plan[j] \notin {"keep", "todo", "absent"} /\ Present(j)
        /\ jobs'[j] = WithStatus(jobs[j], handler[h].plan[j])
    BY <1>4, <1>a DEF CommitPromote, Presence, HandlerState, Decision
  <2> QED
    BY <1>a, <2>1 DEF Present, WithStatus, Row
<1>5. ASSUME j \in sched.batch, CommitDueJobs \/ CommitReap
      PROVE  Present(j)' /\ Present(j)
  <2>1. Present(j) /\ jobs[j] \in Row
    BY <1>5, <1>a DEF Presence
  <2>2. jobs'[j].status = "queued"
    <3>1. CASE CommitDueJobs
      BY <1>5, <3>1, <1>a, <2>1 DEF CommitDueJobs, WithStatus, Row
    <3>2. CASE CommitReap
      BY <1>5, <3>2, <1>a, <2>1 DEF CommitReap, Requeued, Row
    <3> QED
      BY <1>5, <3>1, <3>2
  <2> QED
    BY <2>1, <2>2 DEF Present
<1> QED
  BY <1>1, <1>2, <1>3, <1>4, <1>5, <1>a DEF RowMoves

LEMMA PresenceInit == Init => Presence
BY DEF Init, Presence, FreeSlot, Idle, NoPlan

LEMMA PresenceStep == TypeInv /\ TypeInv' /\ Presence /\ Moves => Presence'
<1> SUFFICES ASSUME TypeInv, TypeInv', Presence, Moves PROVE Presence'
  OBVIOUS
<1>a. /\ slot \in [Slot -> SlotState] /\ handler \in [Handler -> HandlerState]
      /\ slot' \in [Slot -> SlotState] /\ handler' \in [Handler -> HandlerState]
      /\ \A h \in Handler : handler[h].op # "idle" => handler[h].job \in Job
      /\ \A h \in Handler : handler'[h].op # "idle" => handler'[h].job \in Job
      /\ Idle.op = "idle" /\ \A d \in Job : Idle.plan[d] = "keep" /\ NoPlan[d] = "keep"
      /\ sched.batch \subseteq Job
  BY DEF TypeInv, TypeOK, Assigned, HandlerState, SchedState, Idle, NoPlan
<1>b. \A j \in Job : Present(j) => jobs'[j].status # "absent"
  BY PresentStays DEF Present
<1>1. ASSUME NEW s \in Slot, slot'[s].job # NULL PROVE jobs'[slot'[s].job].status # "absent"
  <2>1. slot'[s].job \in Job
    BY <1>1, <1>a DEF SlotState
  <2>2. Present(slot'[s].job)
    BY <1>1 DEF Moves, ThreadMoves, Presence, WinClaim
  <2> QED
    BY <1>b, <2>1, <2>2
\* What a handler is about after the step: it was about it before, or has just
\* read it.
<1>2. ASSUME NEW h \in Handler, handler'[h].op \notin {"idle", "create"}
      PROVE  jobs'[handler'[h].job].status # "absent"
  <2>1. handler'[h].job \in Job /\ HandlerMoves(h) /\ ~ Returns(h)
    BY <1>2, <1>a DEF Moves, Returns
  <2>2. CASE Stays(h) \/ GivenUp(h)
    <3>1. handler'[h].op = handler[h].op /\ handler'[h].job = handler[h].job
      BY <1>a, <2>2 DEF Stays, GivenUp, HandlerState
    <3> QED
      BY <1>2, <1>b, <2>1, <3>1 DEF Presence
  <2>3. CASE Proceeds(h) \/ Rereads(h)
    <3>1. Present(handler'[h].job)
      BY <2>3 DEF Proceeds, Rereads, Presence, Promoting, Waiting
    <3> QED
      BY <1>b, <2>1, <3>1
  <2>4. CASE Arrives(h)
    <3>1. Present(handler'[h].job)
      <4>1. CASE Asks(h)
        BY <1>2, <4>1 DEF Asks
      <4>2. ASSUME NEW s \in Slot, Sends(h, s) PROVE Present(handler'[h].job)
        BY <4>2, <2>1, NullAssumption DEF Sends, Presence
      <4> QED
        BY <2>4, <4>1, <4>2 DEF Arrives
    <3> QED
      BY <1>b, <2>1, <3>1
  <2> QED
    BY <2>1, <2>2, <2>3, <2>4 DEF HandlerMoves
<1>3. ASSUME NEW h \in Handler, NEW d \in Job, handler'[h].plan[d] # "keep"
      PROVE  Present(d)'
  <2>1. HandlerMoves(h) /\ ~ Returns(h) /\ ~ Arrives(h)
    BY <1>3, <1>a DEF Moves, Returns, Arrives
  <2>2. handler[h].plan[d] # "keep" \/ Present(d)
    <3>1. CASE Proceeds(h)
      BY <1>3, <3>1 DEF Proceeds
    <3>2. CASE Stays(h) \/ GivenUp(h) \/ Rereads(h)
      <4>1. handler'[h].plan = handler[h].plan
        BY <1>a, <3>2 DEF Stays, GivenUp, Rereads, HandlerState
      <4> QED
        BY <1>3, <4>1
    <3> QED
      BY <2>1, <3>1, <3>2 DEF HandlerMoves
  <2> QED
    BY <1>b, <2>2 DEF Presence, Present
<1>4. ASSUME NEW h \in Handler, handler'[h].op = "create"
      PROVE  \/ /\ Stays(h) \/ GivenUp(h)
                /\ handler[h].op = "create" /\ handler'[h].job = handler[h].job
                /\ handler'[h].snap = handler[h].snap
             \/ Arrives(h) /\ Asks(h)
  <2>1. HandlerMoves(h) /\ ~ Returns(h) /\ ~ Proceeds(h) /\ ~ Rereads(h)
        /\ \A s \in Slot : ~ Sends(h, s)
    BY <1>4, <1>a DEF Moves, Returns, Proceeds, Promoting, Rereads, Sends, Waiting
  <2>2. CASE Stays(h) \/ GivenUp(h)
    BY <1>4, <1>a, <2>2 DEF Stays, GivenUp, HandlerState
  <2> QED
    BY <2>1, <2>2 DEF HandlerMoves, Arrives
<1>5. ASSUME NEW h \in Handler, handler'[h].op = "create"
      PROVE  /\ jobs'[handler'[h].job].status = "absent"
             /\ handler'[h].snap.status \in {"blocked", "scheduled", "queued"}
             /\ handler'[h].snap.owner = NULL /\ handler'[h].snap.attempt = 0
  <2> DEFINE j == handler'[h].job
  <2>1. j \in Job
    BY <1>5, <1>a
  <2>2. CASE Arrives(h) /\ Asks(h)
    BY <1>5, <2>2 DEF Arrives, Asks, Present
  <2>3. CASE (Stays(h) \/ GivenUp(h)) /\ handler[h].op = "create" /\ j = handler[h].job
             /\ handler'[h].snap = handler[h].snap
    <3>1. ~ Present(j) /\ handler[h].snap.status \in {"blocked", "scheduled", "queued"}
          /\ handler[h].snap.owner = NULL /\ handler[h].snap.attempt = 0
      BY <2>3 DEF Presence
    <3>2. ~ Inserts(j)
      <4> SUFFICES ASSUME NEW g \in Handler, CommitCreate(g), handler[g].job = j PROVE FALSE
        BY DEF Inserts
      <4>1. g # h
        BY <1>5, <1>a DEF CommitCreate, Reply
      <4> QED
        BY <2>3, <4>1 DEF CommitCreate, Presence
    <3>3. ~ Present(j) /\ ~ Inserts(j) => jobs'[j].status = "absent"
      BY <2>1, <2>3, PresentStays DEF Present
    <3> QED
      BY <2>1, <2>3, <3>1, <3>2, <3>3
  <2> QED
    BY <1>4, <1>5, <2>2, <2>3
<1>6. ASSUME NEW g \in Handler, NEW h \in Handler, g # h,
             handler'[g].op = "create", handler'[h].op = "create"
      PROVE  handler'[g].job # handler'[h].job
  <2>1. CASE Asks(g) /\ Arrives(g)
    BY <1>6, <2>1 DEF Asks, Arrives, Stays
  <2>2. CASE Asks(h) /\ Arrives(h)
    BY <1>6, <2>2 DEF Asks, Arrives, Stays
  <2> QED
    BY <1>4, <1>6, <2>1, <2>2 DEF Presence
<1>7. ASSUME NEW j \in sched'.batch PROVE Present(j)'
  <2>1. j \in Job /\ BatchMoves /\ j \in sched'.batch
    BY <1>7 DEF TypeInv, TypeOK, SchedState, Moves
  <2>2. Present(j)
    BY <2>1 DEF BatchMoves, Presence, DueJobs, StuckJobs, Present, Active
  <2> QED
    BY <1>b, <2>1, <2>2 DEF Present
<1> QED
  BY <1>1, <1>2, <1>3, <1>5, <1>6, <1>7 DEF Presence, Present

-----------------------------------------------------------------------------
(* One thread at a time.                                                   *)

\* A live worker is never taken for a silent one, nor a dead one while the API
\* still works on a request of it (GoStale), and nobody forces a job back into
\* the queue.
Undisturbed == "silence" \notin Faults /\ Ops \cap {"retry", "replay"} = {}

Orderly ==
    /\ stale \cap up = {}
    /\ \A h \in Handler : handler[h].worker \notin stale /\ handler[h].op \notin {"retry", "replay"}
    /\ sched.pass \in {"promote", "reap"} => sched.batch = {}

\* Worker w was the last to claim job j, and nothing has put it back in the
\* queue: the owner stays in the row after a report or a cancellation.
Taken == {"claimed", "running", "completed", "dead"}
Holds(j, w) == jobs[j].status \in Taken /\ jobs[j].owner = w

\* A failure report is of the worker that holds the job, and when nobody waits
\* for it any more no thread has the job.
FailHolds(h, j) ==
    LET r == handler[h] IN
    r.op = "fail" /\ r.job = j => /\ Holds(j, r.worker)
                                  /\ r.snap.status \in Taken /\ r.snap.owner = r.worker
                                  /\ r.slot = NULL => \A s \in Slot : slot[s].job # j

\* What the batch holds of a job: still unclaimed, or a silent worker's.
BatchKnows(j) ==
    j \in sched.batch => IF sched.pass = "promoting"
                         THEN jobs[j].owner = NULL /\ jobs[j].status # "queued"
                         ELSE jobs[j].owner \in stale

\* From its claim to the report of its failure, a job without dependencies is
\* with one thread.
Tenure(j) ==
    /\ jobs[j].status \notin Taken => jobs[j].owner = NULL
    /\ \A s \in Slot : slot[s].job = j => Holds(j, WorkerOf[s])
    /\ \A s, t \in Slot : slot[s].job = j /\ slot[t].job = j => s = t
    /\ \A h \in Handler : FailHolds(h, j)
    /\ \A g, h \in Handler : /\ handler[g].op = "fail" /\ handler[g].job = j
                             /\ handler[h].op = "fail" /\ handler[h].job = j
                             => g = h
    /\ \A h \in Handler : handler[h].plan[j] = "keep"
    /\ BatchKnows(j)

Tenured == \A j \in Job : DependsOn[j] = {} => Tenure(j)

LEMMA OrderlyStep ==
    Undisturbed /\ TypeInv /\ TypeInv' /\ Attendance /\ Orderly /\ Moves => Orderly'
<1> SUFFICES ASSUME Undisturbed, TypeInv, TypeInv', Attendance, Orderly, Moves PROVE Orderly'
  OBVIOUS
<1>a. /\ stale' \subseteq Worker /\ NULL \notin Worker /\ FleetMoves /\ BatchMoves
      /\ Idle.op = "idle" /\ Idle.worker = NULL
      /\ handler \in [Handler -> HandlerState]
  BY NullAssumption DEF TypeInv, TypeOK, Moves, Idle
<1>1. stale' \cap up' = {}
  BY <1>a DEF FleetMoves, Orderly, Undisturbed
<1>2. ASSUME NEW h \in Handler
      PROVE  handler'[h].worker \notin stale' /\ handler'[h].op \notin {"retry", "replay"}
  <2>1. HandlerMoves(h)
    BY DEF Moves
  <2>2. handler'[h].op \notin {"retry", "replay"}
    <3>1. CASE Stays(h) \/ Returns(h) \/ GivenUp(h)
      BY <1>a, <3>1 DEF Stays, Returns, GivenUp, Orderly, HandlerState
    <3>2. CASE Proceeds(h) \/ Rereads(h) \/ Arrives(h)
      BY <3>2 DEF Proceeds, Rereads, Arrives, Asks, Sends, Promoting, Waiting, Undisturbed
    <3> QED
      BY <2>1, <3>1, <3>2 DEF HandlerMoves
  <2>3. \/ handler'[h].worker \in {handler[h].worker, NULL}
        \/ handler'[h].worker \in up
    <3>1. CASE Stays(h) \/ Returns(h) \/ GivenUp(h) \/ Proceeds(h) \/ Rereads(h)
      BY <1>a, <3>1 DEF Stays, Returns, GivenUp, Proceeds, Rereads, HandlerState
    <3>2. CASE Arrives(h)
      BY <3>2 DEF Arrives, Asks, Sends, Attendance
    <3> QED
      BY <2>1, <3>1, <3>2 DEF HandlerMoves
  <2>4. handler'[h].worker \notin stale
    BY <1>a, <2>3 DEF Orderly, TypeInv, TypeOK
  <2>5. handler'[h].worker \notin stale' \ stale
    BY <1>a DEF FleetMoves, Undisturbed
  <2> QED
    BY <2>2, <2>4, <2>5
<1>3. sched'.pass \in {"promote", "reap"} => sched'.batch = {}
  BY <1>a DEF BatchMoves, Orderly
<1> QED
  BY <1>1, <1>2, <1>3 DEF Orderly

\* Reports of a failure after a step: they were there before, or have just been
\* read.
LEMMA FailsMove ==
    ASSUME TypeInv, Moves, NEW j \in Job, NEW h \in Handler,
           handler'[h].op = "fail", handler'[h].job = j
    PROVE  \/ Stays(h)
           \/ GivenUp(h) /\ handler[h].op = "fail" /\ handler[h].job = j
              /\ handler'[h].worker = handler[h].worker /\ handler'[h].snap = handler[h].snap
           \/ Rereads(h) /\ handler[h].op = "fail" /\ handler[h].job = j
              /\ handler'[h].worker = handler[h].worker /\ handler'[h].snap = jobs[j]
           \/ \E s \in Slot : Sends(h, s) /\ Arrives(h) /\ slot[s].job = j /\ handler'[h].snap = jobs[j]
<1>1. HandlerMoves(h)
  BY DEF Moves
<1>2. CASE GivenUp(h)
  BY <1>2 DEF GivenUp, TypeInv, TypeOK, HandlerState
<1>3. CASE Rereads(h)
  BY <1>3 DEF Rereads
<1>4. CASE Arrives(h)
  BY <1>4 DEF Arrives, Asks, Sends
<1>5. ~ Returns(h) /\ ~ Proceeds(h)
  BY DEF Returns, Idle, Proceeds, Promoting
<1> QED
  BY <1>1, <1>2, <1>3, <1>4, <1>5 DEF HandlerMoves

LEMMA FailsKept ==
    ASSUME TypeInv, Attendance, Moves, NEW j \in Job, Tenure(j),
           \A s \in Slot : slot'[s].job = j => slot[s].job = j /\ Holds(j, WorkerOf[s])',
           \A h \in Handler : /\ handler[h].op = "fail" /\ handler[h].job = j
                              /\ handler'[h].op = "fail" /\ handler'[h].job = j
                              => /\ jobs'[j].status \in Taken
                                 /\ jobs'[j].owner = handler[h].worker
    PROVE  /\ \A h \in Handler : FailHolds(h, j)'
           /\ \A g, h \in Handler : /\ handler'[g].op = "fail" /\ handler'[g].job = j
                                    /\ handler'[h].op = "fail" /\ handler'[h].job = j
                                    => g = h
<1>a. handler \in [Handler -> HandlerState] /\ slot \in [Slot -> SlotState] /\ j # NULL
  BY NullAssumption DEF TypeInv, TypeOK
<1>1. ASSUME NEW h \in Handler, handler'[h].op = "fail", handler'[h].job = j
      PROVE  FailHolds(h, j)'
  <2>a. /\ FailHolds(h, j) /\ \A s \in Slot : slot'[s].job = j => slot[s].job = j
        /\ handler[h].op = "fail" /\ handler[h].job = j
           => /\ jobs'[j].status \in Taken
              /\ jobs'[j].owner = handler[h].worker
    BY <1>1 DEF Tenure
  <2>1. CASE Stays(h)
    BY <1>1, <2>a, <2>1 DEF Stays, FailHolds, Holds
  <2>2. CASE GivenUp(h) /\ handler[h].op = "fail" /\ handler[h].job = j
             /\ handler'[h].worker = handler[h].worker /\ handler'[h].snap = handler[h].snap
    <3> DEFINE t == handler[h].slot
    <3>1. t \in Slot /\ slot[t].pc = "fail" /\ slot[t].job = j
      BY <1>a, <2>2 DEF GivenUp, Attendance, Attended, HandlerState, PcOf, Claiming, Promoting
    <3>2. slot'[t].job = NULL
      BY <2>2, <3>1 DEF GivenUp, AfterNoReply, FreeSlot
    <3>3. \A s \in Slot : slot'[s].job # j
      BY <1>a, <3>1, <3>2 DEF Tenure
    <3> QED
      BY <1>1, <2>a, <2>2, <3>3 DEF FailHolds, Holds
  <2>3. CASE Rereads(h) /\ handler[h].op = "fail" /\ handler[h].job = j
             /\ handler'[h].worker = handler[h].worker /\ handler'[h].snap = jobs[j]
    BY <1>1, <2>3 DEF Rereads, Tenure, FailHolds, Holds
  <2>4. ASSUME NEW s \in Slot, Sends(h, s), Arrives(h), slot[s].job = j, handler'[h].snap = jobs[j]
        PROVE  FailHolds(h, j)'
    <3>1. Holds(j, WorkerOf[s]) /\ UNCHANGED jobs /\ handler'[h].worker = WorkerOf[s]
          /\ handler'[h].slot = s /\ s # NULL
      BY <2>4, SlotAssumption DEF Tenure, Arrives, Sends
    <3> QED
      BY <2>4, <3>1 DEF FailHolds, Holds
  <2> QED
    BY <1>1, <2>1, <2>2, <2>3, <2>4, FailsMove
<1>2. ASSUME NEW g \in Handler, NEW h \in Handler, g # h,
             handler'[g].op = "fail", handler'[g].job = j,
             handler'[h].op = "fail", handler'[h].job = j
      PROVE  FALSE
  <2>1. ASSUME NEW k \in Handler, handler'[k].op = "fail", handler'[k].job = j
        PROVE  \/ handler[k].op = "fail" /\ handler[k].job = j
               \/ \E s \in Slot : Sends(k, s) /\ Arrives(k) /\ slot[s].job = j
    BY <2>1, FailsMove DEF Stays
  <2>2. ASSUME NEW k \in Handler, NEW l \in Handler, k # l, NEW s \in Slot,
               Sends(k, s), Arrives(k), slot[s].job = j,
               handler'[l].op = "fail", handler'[l].job = j
        PROVE  FALSE
    <3>1. handler[l].op = "fail" /\ handler[l].job = j
      BY <2>2 DEF Arrives, Stays
    <3>2. handler[l].slot # NULL
      BY <2>2, <3>1 DEF Tenure, FailHolds
    <3>3. handler[l].slot \in Slot /\ slot[handler[l].slot].pc = "fail" /\ slot[handler[l].slot].job = j
      BY <1>a, <3>1, <3>2 DEF Attendance, Attended, HandlerState, PcOf, Claiming, Promoting
    <3> QED
      BY <2>2, <3>3 DEF Tenure, Sends, Waiting
  <2> QED
    BY <1>2, <2>1, <2>2 DEF Tenure
<1> QED
  BY <1>1, <1>2 DEF FailHolds

\* Nobody plans to promote a job without dependencies.
LEMMA NeverPlanned ==
    ASSUME TypeInv, Moves, NEW j \in Job, DependsOn[j] = {}, Tenure(j)
    PROVE  \A h \in Handler : handler'[h].plan[j] = "keep"
<1> SUFFICES ASSUME NEW h \in Handler PROVE handler'[h].plan[j] = "keep"
  OBVIOUS
<1>1. handler[h].plan[j] = "keep" /\ HandlerMoves(h) /\ NoPlan[j] = "keep" /\ Idle.plan = NoPlan
  BY DEF Tenure, Moves, NoPlan, Idle
<1>2. CASE Proceeds(h)
  BY <1>1, <1>2 DEF Proceeds
<1>3. CASE Stays(h) \/ GivenUp(h) \/ Rereads(h)
  <2>1. handler'[h].plan = handler[h].plan
    BY <1>3 DEF Stays, GivenUp, Rereads, TypeInv, TypeOK, HandlerState
  <2> QED
    BY <1>1, <2>1
<1>4. CASE Returns(h) \/ Arrives(h)
  BY <1>1, <1>4 DEF Returns, Arrives
<1> QED
  BY <1>1, <1>2, <1>3, <1>4 DEF HandlerMoves

\* The threads that have a job keep it, or leave it, when no claim is won.
LEMMA NoClaim ==
    ASSUME Moves, NEW j \in Job, \A h \in Handler : ~ (WinClaim(h) /\ handler[h].job = j)
    PROVE  \A s \in Slot : slot'[s].job = j => slot[s].job = j
BY NullAssumption DEF Moves, ThreadMoves

LEMMA TenureStep ==
    ASSUME TypeInv, TypeInv', Attendance, Presence, Orderly, Moves, Undisturbed,
           NEW j \in Job, DependsOn[j] = {}, Tenure(j)
    PROVE  Tenure(j)'
<1> USE DEF tables, fleet, queues, history
<1>a. /\ handler \in [Handler -> HandlerState] /\ slot \in [Slot -> SlotState]
      /\ jobs \in [Job -> Row] /\ j # NULL /\ NULL \notin stale /\ NULL \notin Worker
      /\ RowMoves(j) /\ FleetMoves /\ BatchMoves
      /\ \A s \in Slot : WorkerOf[s] \in Worker
  BY NullAssumption, SlotAssumption DEF TypeInv, TypeOK, Moves
<1>b. \A s \in Slot : slot[s].job = j => Holds(j, WorkerOf[s]) /\ WorkerOf[s] \in up
  BY <1>a DEF Tenure, Attendance, TypeInv, Assigned
<1>c. stale \subseteq stale'
  BY <1>a DEF FleetMoves, Orderly
\* It is enough to follow the holder.
<1>d. ASSUME jobs'[j].status \notin Taken => jobs'[j].owner = NULL,
             \A s \in Slot : slot'[s].job = j => slot[s].job = j /\ Holds(j, WorkerOf[s])',
             \A h \in Handler : /\ handler[h].op = "fail" /\ handler[h].job = j
                                /\ handler'[h].op = "fail" /\ handler'[h].job = j
                                => /\ jobs'[j].status \in Taken
                                 /\ jobs'[j].owner = handler[h].worker,
             BatchKnows(j)'
      PROVE  Tenure(j)'
  BY <1>d, FailsKept, NeverPlanned DEF Tenure
<1>1. CASE MovesOn(j)
  <2>1. \A w : Holds(j, w) => Holds(j, w)'
    BY <1>1 DEF MovesOn, Holds, Taken
  <2>2. \A h \in Handler : ~ (WinClaim(h) /\ handler[h].job = j)
    <3> SUFFICES ASSUME NEW h \in Handler, WinClaim(h), handler[h].job = j PROVE FALSE
      OBVIOUS
    <3>1. /\ jobs[j] \in Row /\ jobs[j].status = "queued"
          /\ jobs'[j] = Claimed(jobs[j], handler[h].worker)
      BY <1>a DEF WinClaim, Claimable
    <3>2. jobs'[j].status = "claimed"
      BY <3>1 DEF Claimed, Row
    <3> QED
      BY <1>1, <3>1, <3>2 DEF MovesOn
  <2>3. BatchKnows(j)'
    <3>1. CASE sched' = sched
      BY <1>1, <1>c, <3>1 DEF Tenure, BatchKnows, MovesOn
    <3>2. CASE UNCHANGED jobs /\ sched'.pass = "promoting" /\ sched'.batch = DueJobs
      BY <3>2 DEF Tenure, BatchKnows, DueJobs, Taken
    <3>3. CASE UNCHANGED jobs /\ sched'.pass = "reaping" /\ sched'.batch = StuckJobs
      BY <1>c, <3>3 DEF BatchKnows, StuckJobs
    <3> QED
      BY <1>a, <3>1, <3>2, <3>3 DEF BatchMoves, BatchKnows
  <2>4. jobs'[j].status \notin Taken => jobs'[j].owner = NULL
    BY <1>1 DEF MovesOn, Tenure, Taken
  <2>5. \A s \in Slot : slot'[s].job = j => slot[s].job = j /\ Holds(j, WorkerOf[s])'
    BY <1>b, <2>1, <2>2, NoClaim
  <2>6. ASSUME NEW h \in Handler, handler[h].op = "fail", handler[h].job = j
        PROVE  jobs'[j].status \in Taken /\ jobs'[j].owner = handler[h].worker
    <3>1. Holds(j, handler[h].worker)
      BY <2>6 DEF Tenure, FailHolds
    <3> QED
      BY <1>1, <3>1 DEF MovesOn, Holds, Taken
  <2> QED
    BY <1>d, <2>3, <2>4, <2>5, <2>6
<1>2. ASSUME NEW h \in Handler, handler[h].job = j, WinClaim(h) PROVE Tenure(j)'
  <2>1. jobs[j].status = "queued" /\ jobs[j].owner = NULL
    BY <1>2 DEF WinClaim, Claimable, Tenure, Taken
  <2>2. \A w : ~ Holds(j, w)
    BY <2>1 DEF Holds, Taken
  <2>3. j \notin sched.batch
    BY <1>a, <2>1 DEF Tenure, BatchKnows
  <2>4. jobs'[j].status = "claimed" /\ jobs'[j].owner = handler[h].worker
    BY <1>2, <1>a DEF WinClaim, Claimed, Row
  <2>5. \A s \in Slot : slot'[s].job = j => s = handler[h].slot
    BY <1>2, <1>b, <2>2 DEF WinClaim
  <2>6. \A s \in Slot : s = handler[h].slot => WorkerOf[s] = handler[h].worker
    BY SlotAssumption DEF Attendance, Attended
  <2>7. \A g \in Handler : ~ (handler'[g].op = "fail" /\ handler'[g].job = j)
    BY <1>2, <1>a, <2>2 DEF WinClaim, Tenure, FailHolds, Idle
  <2>8. sched' = sched
    BY <1>2 DEF WinClaim
  <2> QED
    BY <2>3, <2>4, <2>5, <2>6, <2>7, <2>8, NeverPlanned
    DEF Tenure, FailHolds, BatchKnows, Holds, Taken
\* Those that put the job in the queue: nobody has it then.
<1>3. ASSUME jobs'[j].status \in {"blocked", "scheduled", "queued"}, jobs'[j].owner = NULL,
             \A s \in Slot : slot'[s].job = j => FALSE,
             \A h \in Handler : handler'[h] = handler[h] =>
                ~ (handler[h].op = "fail" /\ handler[h].job = j),
             j \notin sched'.batch,
             ~ UNCHANGED jobs,
             \A h \in Handler : ~ (WinClaim(h) /\ handler[h].job = j)
      PROVE  Tenure(j)'
  <2>1. ASSUME NEW h \in Handler, handler'[h].op = "fail", handler'[h].job = j PROVE FALSE
    BY <1>3, <2>1, FailsMove DEF Stays, GivenUp, Rereads, Arrives
  <2> QED
    BY <1>3, <2>1, NeverPlanned DEF Tenure, FailHolds, BatchKnows, Taken
<1>4. ASSUME NEW h \in Handler, handler[h].job = j, CommitRequeue(h) PROVE Tenure(j)'
  <2> DEFINE old == handler[h].snap
             w == handler[h].worker
  <2>1. /\ handler[h].op = "fail" /\ Reply(h) /\ sched' = sched /\ old \in Row
        /\ jobs' = [jobs EXCEPT ![j] = FlushRunAt(jobs[j], old, Requeued(old), FALSE)]
    BY <1>4, <1>a DEF CommitRequeue, HandlerState
  <2>2. Holds(j, w) /\ old.status \in Taken /\ old.owner = w
    BY <1>4, <2>1 DEF Tenure, FailHolds
  <2>3. w # NULL /\ w \notin stale
    BY <1>a, <2>1 DEF TypeInv, Assigned, Waiting, Orderly
  <2>4. jobs'[j].status = "queued" /\ jobs'[j].owner = NULL
    <3>1. jobs[j] \in Row /\ jobs'[j] = FlushRunAt(jobs[j], old, Requeued(old), FALSE)
      BY <1>a, <2>1
    <3>2. PICK new : new = Requeued(old)
      OBVIOUS
    <3>3. new.status = "queued" /\ new.owner = NULL
      BY <2>1, <3>2 DEF Requeued, Row
    <3>4. old.status # "queued" /\ old.owner # NULL
      BY <2>2, <2>3 DEF Taken
    <3>5. /\ FlushRunAt(jobs[j], old, new, FALSE).status = new.status
          /\ FlushRunAt(jobs[j], old, new, FALSE).owner = new.owner
      BY <3>1, <3>3, <3>4 DEF FlushRunAt, Flush, Row
    <3> QED
      BY <3>1, <3>2, <3>3, <3>5
  <2>5. ASSUME NEW s \in Slot, slot'[s].job = j PROVE FALSE
    <3>1. slot[s].job = j
      BY <2>1, <2>5, <1>a DEF Reply, AfterReply, FreeSlot, SlotState
    <3>2. handler[h].slot \in Slot /\ slot[handler[h].slot].job = j
          /\ slot[handler[h].slot].pc = "fail"
      BY <1>4, <1>a, <2>1, <3>1
      DEF Tenure, FailHolds, Attendance, Attended, HandlerState, PcOf, Claiming, Promoting
    <3>3. s = handler[h].slot
      BY <3>1, <3>2 DEF Tenure
    <3> QED
      BY <1>a, <2>1, <2>5, <3>2, <3>3 DEF Reply, AfterReply, FreeSlot
  <2>6. j \notin sched.batch
    BY <2>2, <2>3 DEF Tenure, BatchKnows, Holds
  <2>7. \A g \in Handler : handler'[g] = handler[g] => ~ (handler[g].op = "fail" /\ handler[g].job = j)
    BY <1>4, <1>a, <2>1 DEF Reply, Idle, Tenure
  <2>8. jobs[j].status # "queued" /\ ~ UNCHANGED jobs
    BY <2>2, <2>4 DEF Holds, Taken
  <2>9. \A g \in Handler : ~ (WinClaim(g) /\ handler[g].job = j)
    BY <2>8 DEF WinClaim, Claimable
  <2> QED
    BY <1>3, <2>1, <2>4, <2>5, <2>6, <2>7, <2>8, <2>9
<1>5. ASSUME NEW h \in Handler, handler[h].job = j, CommitCreate(h) PROVE Tenure(j)'
  <2>1. /\ ~ Present(j) /\ handler[h].op = "create"
        /\ jobs'[j].status \in {"blocked", "scheduled", "queued"} /\ jobs'[j].owner = NULL
        /\ sched' = sched
    BY <1>5, <1>a DEF CommitCreate, Presence
  <2>2. jobs[j].status = "absent" /\ \A w : ~ Holds(j, w)
    BY <2>1 DEF Present, Holds, Taken
  <2>3. \A g \in Handler : ~ (WinClaim(g) /\ handler[g].job = j)
    BY <2>2 DEF WinClaim, Claimable
  <2>4. j \notin sched.batch /\ ~ UNCHANGED jobs
    BY <2>1, <2>2 DEF Presence
  <2> QED
    BY <1>3, <1>b, <2>1, <2>2, <2>3, <2>4, NoClaim DEF Tenure, FailHolds
<1>6. ASSUME j \in sched.batch, CommitDueJobs PROVE Tenure(j)'
  <2>1. /\ jobs[j].owner = NULL /\ jobs[j].status # "queued" /\ UNCHANGED <<handler, slot>>
        /\ jobs'[j].status = "queued" /\ jobs'[j].owner = NULL /\ sched'.batch = {}
    BY <1>6, <1>a DEF CommitDueJobs, Tenure, BatchKnows, WithStatus, Row
  <2>2. \A s \in Slot : slot'[s].job # j
    BY <1>a, <1>b, <2>1 DEF Holds
  <2>3. \A h \in Handler : ~ (handler[h].op = "fail" /\ handler[h].job = j)
    BY <1>a, <2>1 DEF Tenure, FailHolds, Holds, TypeInv, Assigned, Waiting
  <2>4. \A g \in Handler : ~ (WinClaim(g) /\ handler[g].job = j)
    BY <2>1 DEF WinClaim, Claimable
  <2>5. ~ UNCHANGED jobs
    BY <2>1
  <2> QED
    BY <1>3, <2>1, <2>2, <2>3, <2>4, <2>5
<1>7. ASSUME j \in sched.batch, CommitReap PROVE Tenure(j)'
  <2>1. /\ jobs[j].owner \in stale /\ UNCHANGED <<handler, slot>>
        /\ jobs'[j].status = "queued" /\ jobs'[j].owner = NULL /\ sched'.batch = {}
    BY <1>7, <1>a DEF CommitReap, Tenure, BatchKnows, Requeued, Row
  <2>2. \A s \in Slot : slot'[s].job # j
    BY <1>b, <2>1 DEF Holds, Orderly
  <2>3. \A h \in Handler : ~ (handler[h].op = "fail" /\ handler[h].job = j)
    BY <2>1 DEF Tenure, FailHolds, Holds, Orderly
  <2>4. \A g \in Handler : ~ (WinClaim(g) /\ handler[g].job = j)
    BY <1>a, <2>1 DEF WinClaim, Claimable, Tenure, Taken
  <2>5. ~ UNCHANGED jobs
    BY <1>a, <2>1
  <2> QED
    BY <1>3, <2>1, <2>2, <2>3, <2>4, <2>5
<1>8. \A h \in Handler : ~ CommitRestart(h) /\ handler[h].plan[j] = "keep"
  BY DEF CommitRestart, Orderly, Tenure
<1> QED
  BY <1>a, <1>1, <1>2, <1>4, <1>5, <1>6, <1>7, <1>8 DEF RowMoves

LEMMA TenureInit == Init => Orderly /\ Tenured
<1> SUFFICES ASSUME Init PROVE Orderly /\ Tenured
  OBVIOUS
<1>1. Orderly
  BY DEF Init, Orderly, Idle
<1>2. ASSUME NEW j \in Job PROVE Tenure(j)
  <2>1. jobs[j].owner = NULL
    BY DEF Init, NewRow, NoRow
  <2> QED
    BY <2>1, NullAssumption
    DEF Init, Tenure, FailHolds, BatchKnows, Idle, NoPlan, FreeSlot
<1> QED
  BY <1>1, <1>2 DEF Tenured

\* ... as one inductive invariant, whatever answers are lost, statements raise
\* and processes crash or are restarted.
THEOREM TenureKept == ASSUME Undisturbed PROVE Spec => [](Orderly /\ Tenured)
<1>1. Init => Presence /\ Orderly /\ Tenured
  BY PresenceInit, TenureInit
<1>2. (TypeInv /\ Attendance) /\ (TypeInv /\ Attendance)' /\ (Presence /\ Orderly /\ Tenured)
      /\ [Next]_vars => (Presence /\ Orderly /\ Tenured)'
  <2> SUFFICES ASSUME TypeInv, Attendance, TypeInv', Presence, Orderly, Tenured, [Next]_vars
               PROVE  (Presence /\ Orderly /\ Tenured)'
    OBVIOUS
  <2>1. Moves
    BY MovesStep
  <2> QED
    BY <2>1, PresenceStep, OrderlyStep, TenureStep DEF Tenured
<1> QED
  BY <1>1, <1>2, AnswersFindTheirThreads, PTL DEF Spec

\* No two executor threads ever work on one job: also when answers are lost and
\* their requests repeated or handled late, when the API restarts or a commit
\* raises, when workers crash and are reaped, and when jobs are cancelled under
\* them.  The jobs are independent, for two completions can promote a dependent
\* twice (DoublePromotion), and heartbeats of live workers arrive in time.
THEOREM OneRunnerDespiteFaults ==
    ASSUME Undisturbed, \A j \in Job : DependsOn[j] = {}
    PROVE  Spec => []SoleRunner
<1>1. TypeInv /\ Tenured => SoleRunner
  <2> SUFFICES ASSUME TypeInv, Tenured, NEW s \in Slot, NEW t \in Slot,
                      slot[s].job # NULL, slot[s].job = slot[t].job
               PROVE  s = t
    BY DEF SoleRunner
  <2>1. slot[s].job \in Job
    BY DEF TypeInv, TypeOK, SlotState
  <2>2. Tenure(slot[s].job)
    BY <2>1 DEF Tenured
  <2> QED
    BY <2>2 DEF Tenure
<1> QED
  BY <1>1, TypeCorrect, TenureKept, PTL

-----------------------------------------------------------------------------
(* The limit of a queue.                                                   *)

LEMMA LimitsStay == "patch" \notin Ops /\ [Next]_vars => limit' = limit
<1> USE DEF tables, fleet, queues, history
<1> SUFFICES ASSUME "patch" \notin Ops, Next PROVE limit' = limit
  BY DEF vars
<1>1. ASSUME NEW h \in Handler, HandlerStep(h) PROVE limit' = limit
  <2>1. CASE ClaimStep(h)
    BY <2>1 DEF ClaimStep, WithinLimit, AtLimit, WinClaim, LoseClaim
  <2>2. CASE ReportStep(h)
    BY <2>2 DEF ReportStep, CommitStart, CommitComplete, CommitRequeue, CommitDead, DuplicateDeadLetter
  <2>3. CASE PromoteStep(h)
    BY <2>3 DEF PromoteStep, ReadEdges, ReadDependent, CountRemaining, CommitPromote
  <2>4. CASE OperatorStep(h)
    BY <2>4 DEF OperatorStep, CommitCreate, DuplicateKey, CommitCancel, CommitRestart
  <2> QED
    BY <1>1, <2>1, <2>2, <2>3, <2>4 DEF HandlerStep
<1>2. ASSUME NEW s \in Slot, SlotStep(s) PROVE limit' = limit
  BY <1>2 DEF SlotStep, Poll, PostStart, PostReport, TaskFails, ReportRefused
<1>3. CASE SchedulerStep
  BY <1>3 DEF SchedulerStep, ReadDueJobs, CommitDueJobs, ReadStuckJobs, CommitReap
<1>4. CASE OperatorRequest
  BY <1>4 DEF OperatorRequest, BeginCreate, BeginOperation, Drain, ListWorkers, SetPaused, PatchLimit
<1>5. CASE Clock
  BY <1>5 DEF Clock, TimePasses, Heartbeat, GoStale
<1>6. CASE Failure
  BY <1>6 DEF Failure, WorkerCrash, LoseReply, LateRead, ApiCrash, DbError, TickError
<1> QED
  BY <1>1, <1>2, <1>3, <1>4, <1>5, <1>6 DEF Next

\* Only the UPDATE of a claim makes a job active.
LEMMA ActiveByClaim ==
    ASSUME TypeInv, Custody, Moves, NEW j \in Job,
           jobs'[j].status \in Active, jobs[j].status \notin Active
    PROVE  \E h \in Handler : WinClaim(h) /\ handler[h].job = j
<1>a. /\ handler \in [Handler -> HandlerState] /\ jobs \in [Job -> Row]
      /\ \A h \in Handler : /\ handler[h].op \notin {"cancel", "retry", "replay"}
                            /\ handler[h].op \in Reporting => jobs[handler[h].job].status \in Active
  BY DEF TypeInv, TypeOK, Custody, HandlerHolds, CallerWaits, LoadHolds, With,
         Claiming, Reporting, Promoting
<1>1. ~ MovesOn(j)
  BY <1>a DEF MovesOn
<1>2. ASSUME NEW h \in Handler, handler[h].job = j PROVE ~ CommitRequeue(h) /\ ~ CommitRestart(h)
  BY <1>a, <1>2 DEF CommitRequeue, CommitRestart, Reporting
<1>3. ASSUME NEW h \in Handler, handler[h].job = j PROVE ~ CommitCreate(h)
  BY <1>a, <1>3 DEF CommitCreate, Custody, HandlerHolds, LoadHolds, Active
<1>4. ASSUME NEW h \in Handler, handler[h].plan[j] # "keep" PROVE ~ CommitPromote(h)
  <2>1. handler[h].plan[j] \in Decision
    BY <1>a DEF HandlerState
  <2> QED
    BY <1>a, <1>4, <2>1 DEF CommitPromote, Decision, WithStatus, Row, Active
<1>5. j \in sched.batch => ~ CommitDueJobs /\ ~ CommitReap
  <2>1. ASSUME j \in sched.batch, CommitDueJobs PROVE FALSE
    BY <1>a, <2>1 DEF CommitDueJobs, WithStatus, Row, Active
  <2>2. ASSUME j \in sched.batch, CommitReap PROVE FALSE
    BY <1>a, <2>2 DEF CommitReap, Requeued, Row, Active
  <2> QED
    BY <2>1, <2>2
<1>6. RowMoves(j)
  BY DEF Moves
<1> QED
  BY <1>1, <1>2, <1>3, <1>4, <1>5, <1>6 DEF RowMoves

\* A job that stays CLAIMED or RUNNING keeps its owner.
LEMMA OwnerStays ==
    ASSUME TypeInv, Custody, Moves, NEW j \in Job,
           jobs[j].status \in Active, jobs'[j].status \in Active
    PROVE  jobs'[j].owner = jobs[j].owner
<1>a. /\ handler \in [Handler -> HandlerState] /\ jobs \in [Job -> Row]
      /\ \A h \in Handler : /\ handler[h].op \notin {"retry", "replay"}
                            /\ handler[h].op \in Reporting => handler[h].snap.status \in Active
                            /\ handler[h].op = "create" => jobs[handler[h].job].status = "absent"
                            /\ handler[h].plan[j] \notin {"queued", "scheduled"}
  BY DEF TypeInv, TypeOK, Custody, HandlerHolds, CallerWaits, LoadHolds, PlanHolds,
         Claiming, Reporting, Promoting, Active
<1>1. ASSUME NEW h \in Handler, handler[h].job = j
      PROVE  ~ (WinClaim(h) \/ CommitRestart(h) \/ CommitCreate(h))
  BY <1>1, <1>a DEF WinClaim, Claimable, CommitRestart, CommitCreate, Active
<1>2. ASSUME NEW h \in Handler, handler[h].job = j, CommitRequeue(h) PROVE FALSE
  BY <1>2, <1>a DEF CommitRequeue, Reporting, Requeued, Row, Flush, FlushRunAt, HandlerState, Active
<1>3. ASSUME NEW h \in Handler, CommitPromote(h), handler[h].plan[j] # "keep" PROVE FALSE
  <2>1. handler[h].plan[j] \in Decision
    BY <1>a DEF HandlerState
  <2> QED
    BY <1>3, <1>a, <2>1 DEF CommitPromote, Decision
<1>4. j \in sched.batch => ~ CommitDueJobs
  BY DEF Custody, BatchHolds, CommitDueJobs, Active
<1>5. ASSUME j \in sched.batch, CommitReap PROVE FALSE
  <2>1. jobs'[j] = [Requeued(jobs[j]) EXCEPT !.due = TRUE] /\ jobs[j] \in Row
    BY <1>a, <1>5 DEF CommitReap
  <2>2. jobs'[j].status = "queued"
    BY <2>1 DEF Requeued, Row
  <2> QED
    BY <2>2 DEF Active
<1>6. RowMoves(j)
  BY DEF Moves
<1> QED
  BY <1>1, <1>2, <1>3, <1>4, <1>5, <1>6 DEF RowMoves, MovesOn

\* Claims being served are of different workers: the main thread of each waits
\* for one answer at a time, and nobody gives up before it.
ClaimsApart ==
    \A g, h \in Handler : /\ g # h
                          /\ handler[g].op \in Claiming /\ handler[h].op \in Claiming
                          => handler[g].worker # handler[h].worker

LEMMA ClaimsApartStep ==
    TypeInv /\ Custody /\ ClaimsApart /\ Moves => ClaimsApart'
<1> SUFFICES ASSUME TypeInv, Custody, ClaimsApart, Moves PROVE ClaimsApart'
  OBVIOUS
<1>a. /\ handler \in [Handler -> HandlerState]
      /\ \A h \in Handler : HandlerMoves(h) /\ CallerWaits(h)
  BY DEF TypeInv, TypeOK, Moves, Custody, HandlerHolds
<1>1. ASSUME NEW h \in Handler, handler'[h].op \in Claiming
      PROVE  \/ handler[h].op \in Claiming /\ handler'[h].worker = handler[h].worker
             \/ Arrives(h) /\ \E s \in Slot : Sends(h, s)
  <2>1. CASE Stays(h) \/ Returns(h) \/ Proceeds(h) \/ GivenUp(h) \/ Rereads(h)
    BY <1>a, <1>1, <2>1 DEF Stays, Returns, Idle, Proceeds, Promoting, GivenUp, Rereads,
                            Claiming, Waiting, HandlerState
  <2>2. CASE Arrives(h)
    BY <1>1, <2>2 DEF Arrives, Asks, Claiming
  <2> QED
    BY <1>a, <2>1, <2>2 DEF HandlerMoves
<1>2. ASSUME NEW h \in Handler, NEW s \in Slot, Arrives(h), Sends(h, s),
             handler'[h].op \in Claiming,
             NEW g \in Handler, g # h, handler'[g].op \in Claiming
      PROVE  handler'[g].worker # handler'[h].worker
  <2>1. handler'[g] = handler[g] /\ handler[g].op \in Claiming
    BY <1>2 DEF Arrives, Stays
  <2>2. /\ handler'[h].worker = WorkerOf[s] /\ WorkerOf[s] \in up
        /\ \A t \in Slot : WorkerOf[t] = WorkerOf[s] => slot[t].pc # "claim"
    BY <1>2 DEF Sends, Claiming, Waiting
  <2>3. \/ handler[g].worker \notin up
        \/ /\ handler[g].slot # NULL /\ handler[g].worker = WorkerOf[handler[g].slot]
           /\ slot[handler[g].slot].pc = "claim"
    BY <1>a, <2>1 DEF CallerWaits, PcOf, Claiming, Reporting, Promoting
  <2> QED
    BY <1>a, <2>1, <2>2, <2>3 DEF HandlerState
<1>3. ASSUME NEW g \in Handler, NEW h \in Handler, g # h,
             handler'[g].op \in Claiming, handler'[h].op \in Claiming
      PROVE  handler'[g].worker # handler'[h].worker
  <2>1. CASE handler[g].op \in Claiming /\ handler'[g].worker = handler[g].worker
    <3>1. CASE handler[h].op \in Claiming /\ handler'[h].worker = handler[h].worker
      BY <1>3, <2>1, <3>1 DEF ClaimsApart
    <3>2. CASE Arrives(h) /\ \E s \in Slot : Sends(h, s)
      BY <1>2, <1>3, <3>2
    <3> QED
      BY <1>1, <1>3, <3>1, <3>2
  <2>2. CASE Arrives(g) /\ \E s \in Slot : Sends(g, s)
    BY <1>2, <1>3, <2>2
  <2> QED
    BY <1>1, <1>3, <2>1, <2>2
<1> QED
  BY <1>3 DEF ClaimsApart

\* The workers whose claim of a job of queue q has counted and not committed,
\* those that have one of its jobs, and both.
Claimants(q) ==
    {w \in Worker : \E h \in Handler : /\ handler[h].op = "update"
                                       /\ handler[h].worker = w
                                       /\ QueueOf[handler[h].job] = q}
Owners(q) == {jobs[j].owner : j \in ActiveIn(q)}
Crew(q) == Claimants(q) \cup Owners(q)

\* A claim in progress takes the room of a job and counts as its worker.  What
\* is too much is less than the crew: one of the excess claims counted last,
\* when all the others had, each of a worker of its own, and left room.
Occupied(q) == Cardinality(ActiveIn(q)) + Cardinality(Claimants(q))
Room(q) ==
    /\ IsFiniteSet(ActiveIn(q))
    /\ Occupied(q) > limit[q] => Occupied(q) < limit[q] + Cardinality(Crew(q))

LEMMA SmallUnion ==
    ASSUME NEW S, NEW T, IsFiniteSet(S), IsFiniteSet(T)
    PROVE  /\ IsFiniteSet(S \cup T)
           /\ Cardinality(S \cup T) <= Cardinality(S) + Cardinality(T)
<1>1. /\ IsFiniteSet(S \cup T)
      /\ Cardinality(S \cup T) = Cardinality(S) + Cardinality(T) - Cardinality(S \cap T)
  BY FS_Union
<1>2. IsFiniteSet(S \cap T) /\ Cardinality(S \cap T) \in Nat
  <2>1. S \cap T \subseteq S
    OBVIOUS
  <2> QED
    BY <2>1, FS_Subset, FS_CardinalityType
<1> QED
  BY <1>1, <1>2, FS_CardinalityType

\* What is named by the members of a finite set is no larger than the set.
LEMMA NamesAreFewer ==
    ASSUME NEW S, IsFiniteSet(S), NEW T, NEW f, \A t \in T : \E s \in S : f[s] = t
    PROVE  IsFiniteSet(T) /\ Cardinality(T) <= Cardinality(S)
<1> DEFINE S0 == {s \in S : f[s] \in T}
           g == [s \in S0 |-> f[s]]
<1>1. /\ IsFiniteSet(S0) /\ Cardinality(S0) <= Cardinality(S)
      /\ Cardinality(S0) \in Nat /\ Cardinality(S) \in Nat
  BY FS_Subset, FS_CardinalityType
<1>2. g \in Surjection(S0, T)
  BY DEF Surjection
<1>3. IsFiniteSet(T) /\ Cardinality(T) <= Cardinality(S0)
  BY <1>1, <1>2, FS_Surjection
<1>4. Cardinality(T) \in Nat
  BY <1>3, FS_CardinalityType
<1> QED
  BY <1>1, <1>3, <1>4

LEMMA CrewIsFinite ==
    ASSUME TypeInv, IsFiniteSet(Worker), NEW q \in Queue, IsFiniteSet(ActiveIn(q))
    PROVE  /\ IsFiniteSet(Claimants(q)) /\ IsFiniteSet(Owners(q)) /\ IsFiniteSet(Crew(q))
           /\ Cardinality(Claimants(q)) \in Nat /\ Cardinality(Owners(q)) \in Nat
           /\ Cardinality(Crew(q)) \in Nat /\ Cardinality(ActiveIn(q)) \in Nat
           /\ limit[q] \in Nat
<1>1. Claimants(q) \subseteq Worker
  BY DEF Claimants
<1>2. IsFiniteSet(Claimants(q))
  BY <1>1, FS_Subset
<1>3. IsFiniteSet(Owners(q))
  <2> DEFINE f == [j \in Job |-> jobs[j].owner]
  <2>1. \A t \in Owners(q) : \E j \in ActiveIn(q) : f[j] = t
    BY DEF Owners, ActiveIn
  <2> HIDE DEF f
  <2> QED
    BY <2>1, NamesAreFewer
<1>4. IsFiniteSet(Crew(q))
  BY <1>2, <1>3, FS_Union DEF Crew
<1> QED
  BY <1>2, <1>3, <1>4, FS_CardinalityType DEF TypeInv, TypeOK

\* What leaves the crew has left a job or a claim behind.
LEMMA CrewShrinks ==
    ASSUME TypeInv, TypeInv', IsFiniteSet(Worker), NEW q \in Queue, IsFiniteSet(ActiveIn(q)),
           ActiveIn(q)' \subseteq ActiveIn(q), Claimants(q)' \subseteq Claimants(q),
           \A j \in ActiveIn(q)' : jobs'[j].owner = jobs[j].owner
    PROVE  /\ IsFiniteSet(ActiveIn(q)')
           /\ Cardinality(ActiveIn(q)') <= Cardinality(ActiveIn(q))
           /\ Cardinality(Claimants(q)') <= Cardinality(Claimants(q))
           /\ Cardinality(Crew(q)) - Cardinality(Crew(q)')
                <= (Cardinality(ActiveIn(q)) - Cardinality(ActiveIn(q)'))
                   + (Cardinality(Claimants(q)) - Cardinality(Claimants(q)'))
<1> DEFINE A == ActiveIn(q)
           B == ActiveIn(q)'
           C == Claimants(q)
           D == Claimants(q)'
           Gone == {jobs[j].owner : j \in A \ B}
<1>1. /\ IsFiniteSet(B) /\ Cardinality(B) <= Cardinality(A)
      /\ Cardinality(A \ B) = Cardinality(A) - Cardinality(B)
      /\ IsFiniteSet(A \ B)
  <2>1. IsFiniteSet(B) /\ Cardinality(B) <= Cardinality(A) /\ IsFiniteSet(A \ B)
    BY FS_Subset
  <2>2. Cardinality(A) = Cardinality(B) + Cardinality(A \ B) - Cardinality({})
    <3>1. B \cup (A \ B) = A /\ B \cap (A \ B) = {}
      OBVIOUS
    <3> QED
      BY <2>1, <3>1, FS_Union
  <2> QED
    BY <2>1, <2>2, FS_EmptySet, FS_CardinalityType
<1>2. /\ IsFiniteSet(C) /\ IsFiniteSet(D) /\ Cardinality(D) <= Cardinality(C)
      /\ Cardinality(C \ D) = Cardinality(C) - Cardinality(D)
      /\ IsFiniteSet(C \ D)
  <2>1. IsFiniteSet(C)
    BY CrewIsFinite
  <2>2. IsFiniteSet(D) /\ Cardinality(D) <= Cardinality(C) /\ IsFiniteSet(C \ D)
    BY <2>1, FS_Subset
  <2>3. Cardinality(C) = Cardinality(D) + Cardinality(C \ D) - Cardinality({})
    <3>1. D \cup (C \ D) = C /\ D \cap (C \ D) = {}
      OBVIOUS
    <3> QED
      BY <2>2, <3>1, FS_Union
  <2> QED
    BY <2>1, <2>2, <2>3, FS_EmptySet, FS_CardinalityType
<1>3. IsFiniteSet(Gone) /\ Cardinality(Gone) <= Cardinality(A \ B)
  <2> DEFINE f == [j \in Job |-> jobs[j].owner]
  <2>1. \A t \in Gone : \E j \in A \ B : f[j] = t
    BY DEF ActiveIn
  <2> HIDE DEF f, Gone
  <2> QED
    BY <1>1, <2>1, NamesAreFewer
<1>4. Crew(q) \subseteq Crew(q)' \cup (Gone \cup (C \ D))
  <2>1. ASSUME NEW j \in A PROVE jobs[j].owner \in Owners(q)' \cup Gone
    BY <2>1 DEF Owners
  <2>2. Owners(q) \subseteq Owners(q)' \cup Gone
    BY <2>1 DEF Owners
  <2> HIDE DEF Gone
  <2> QED
    BY <2>2 DEF Crew
<1>5. /\ IsFiniteSet(Crew(q)) /\ IsFiniteSet(Crew(q)')
      /\ Cardinality(Crew(q)) \in Nat /\ Cardinality(Crew(q)') \in Nat
  <2>1. IsFiniteSet(Crew(q)) /\ Cardinality(Crew(q)) \in Nat
    BY CrewIsFinite
  <2>2. Crew(q)' \subseteq Crew(q)
    BY DEF Crew, Owners
  <2> QED
    BY <2>1, <2>2, FS_Subset, FS_CardinalityType
<1> HIDE DEF A, B, C, D, Gone
<1>6. /\ IsFiniteSet(Gone \cup (C \ D))
      /\ Cardinality(Gone \cup (C \ D)) <= Cardinality(A \ B) + Cardinality(C \ D)
  <2>1. /\ IsFiniteSet(Gone \cup (C \ D))
        /\ Cardinality(Gone \cup (C \ D)) <= Cardinality(Gone) + Cardinality(C \ D)
    BY <1>2, <1>3, SmallUnion
  <2>2. /\ Cardinality(Gone \cup (C \ D)) \in Nat /\ Cardinality(Gone) \in Nat
        /\ Cardinality(A \ B) \in Nat /\ Cardinality(C \ D) \in Nat
    BY <1>1, <1>2, <1>3, <2>1, FS_CardinalityType
  <2> QED
    BY <1>3, <2>1, <2>2
<1>7. Cardinality(Crew(q)) <= Cardinality(Crew(q)') + Cardinality(Gone \cup (C \ D))
  <2>1. /\ IsFiniteSet(Crew(q)' \cup (Gone \cup (C \ D)))
        /\ Cardinality(Crew(q)' \cup (Gone \cup (C \ D)))
             <= Cardinality(Crew(q)') + Cardinality(Gone \cup (C \ D))
    BY <1>5, <1>6, SmallUnion, FS_CardinalityType
  <2> QED
    BY <1>4, <1>5, <1>6, <2>1, FS_Subset, FS_CardinalityType
<1> QED
  BY <1>1, <1>2, <1>5, <1>6, <1>7, FS_CardinalityType DEF A, B, C, D

\* Jobs and claims are over, or claims have counted and found room.
LEMMA RoomKept ==
    ASSUME TypeInv, TypeInv', IsFiniteSet(Worker), NEW q \in Queue, Room(q), limit' = limit,
           ActiveIn(q)' \subseteq ActiveIn(q),
           \A j \in ActiveIn(q)' : jobs'[j].owner = jobs[j].owner,
           Claimants(q)' \subseteq Claimants(q) \/ HasRoom(q)
    PROVE  Room(q)'
<1>1. IsFiniteSet(ActiveIn(q)) /\ IsFiniteSet(ActiveIn(q)')
      /\ Cardinality(ActiveIn(q)') <= Cardinality(ActiveIn(q))
  BY FS_Subset DEF Room
<1>2. /\ Cardinality(Claimants(q)) \in Nat /\ Cardinality(Crew(q)) \in Nat
      /\ Cardinality(ActiveIn(q)) \in Nat /\ limit[q] \in Nat
  BY <1>1, CrewIsFinite
<1>3. IsFiniteSet(Claimants(q)') /\ IsFiniteSet(Owners(q)') /\ IsFiniteSet(Crew(q)')
  <2>1. Claimants(q)' \subseteq Worker
    BY DEF Claimants, TypeInv
  <2>2. IsFiniteSet(Claimants(q)')
    BY <2>1, FS_Subset
  <2>3. IsFiniteSet(Owners(q)')
    <3> DEFINE f == [j \in Job |-> jobs[j].owner]
    <3>1. \A t \in Owners(q)' : \E j \in ActiveIn(q)' : f[j] = t
      BY DEF Owners, ActiveIn
    <3> HIDE DEF f
    <3> QED
      BY <1>1, <3>1, NamesAreFewer
  <2> QED
    BY <2>2, <2>3, FS_Union DEF Crew
<1>4. /\ Cardinality(Claimants(q)') \in Nat /\ Cardinality(Crew(q)') \in Nat
      /\ Cardinality(ActiveIn(q)') \in Nat
      /\ Cardinality(Claimants(q)') <= Cardinality(Crew(q)')
  <2>1. Claimants(q)' \subseteq Crew(q)'
    BY DEF Crew
  <2> QED
    BY <1>1, <1>3, <2>1, FS_Subset, FS_CardinalityType
<1>5. CASE Claimants(q)' \subseteq Claimants(q)
  <2>1. /\ Cardinality(Claimants(q)') <= Cardinality(Claimants(q))
        /\ Cardinality(Crew(q)) - Cardinality(Crew(q)')
             <= (Cardinality(ActiveIn(q)) - Cardinality(ActiveIn(q)'))
                + (Cardinality(Claimants(q)) - Cardinality(Claimants(q)'))
    BY <1>1, <1>5, CrewShrinks
  <2>2. Occupied(q) > limit[q] => Occupied(q) < limit[q] + Cardinality(Crew(q))
    BY DEF Room
  <2>3. Occupied(q)' > limit[q] => Occupied(q)' < limit[q] + Cardinality(Crew(q)')
    BY <1>1, <1>2, <1>4, <2>1, <2>2 DEF Occupied
  <2> QED
    BY <1>1, <2>3 DEF Room
<1>6. CASE HasRoom(q)
  <2>1. Cardinality(ActiveIn(q)) < limit[q]
    BY <1>6 DEF HasRoom
  <2>2. Occupied(q)' < limit[q] + Cardinality(Crew(q)')
    BY <1>1, <1>2, <1>4, <2>1 DEF Occupied
  <2> QED
    BY <1>1, <2>2 DEF Room
<1> QED
  BY <1>5, <1>6

\* A claim that commits has one job more, one claimant less and the same crew.
LEMMA RoomClaimed ==
    ASSUME TypeInv, ClaimsApart, IsFiniteSet(Worker), NEW q \in Queue, Room(q), limit' = limit,
           NEW h \in Handler, WinClaim(h), QueueOf[handler[h].job] = q
    PROVE  Room(q)'
<1> DEFINE j == handler[h].job
           w == handler[h].worker
<1>a. handler \in [Handler -> HandlerState] /\ jobs \in [Job -> Row]
  BY DEF TypeInv, TypeOK
<1>1. /\ handler[h].op = "update" /\ j \in Job /\ w \in Worker
      /\ handler' = [handler EXCEPT ![h] = Idle]
      /\ jobs[j].status = "queued"
      /\ jobs' = [jobs EXCEPT ![j] = Claimed(@, w)]
  BY <1>a DEF WinClaim, Claimable, TypeInv, Assigned, HandlerState
<1>2. /\ jobs'[j].status = "claimed" /\ jobs'[j].owner = w
      /\ \A k \in Job : k # j => jobs'[k] = jobs[k]
  BY <1>a, <1>1 DEF Claimed, Row
<1>3. ActiveIn(q)' = ActiveIn(q) \cup {j} /\ j \notin ActiveIn(q)
  BY <1>1, <1>2 DEF ActiveIn, Active
<1>4. w \in Claimants(q)
  BY <1>1 DEF Claimants
<1>5. Claimants(q)' = Claimants(q) \ {w}
  <2>1. ASSUME NEW g \in Handler, g # h
        PROVE  handler'[g] = handler[g] /\ (handler[g].op = "update" => handler[g].worker # w)
    BY <1>a, <1>1, <2>1 DEF ClaimsApart, Claiming
  <2>2. handler'[h].op # "update"
    BY <1>a, <1>1 DEF Idle
  <2> QED
    BY <1>1, <2>1, <2>2 DEF Claimants
<1>6. Owners(q)' = Owners(q) \cup {w}
  <2>1. \A k \in ActiveIn(q) : jobs'[k].owner = jobs[k].owner
    BY <1>2, <1>3 DEF ActiveIn
  <2>2. Owners(q)' = {jobs'[k].owner : k \in ActiveIn(q) \cup {j}}
    BY <1>3 DEF Owners
  <2>3. {jobs'[k].owner : k \in ActiveIn(q) \cup {j}}
        = {jobs'[k].owner : k \in ActiveIn(q)} \cup {jobs'[j].owner}
    OBVIOUS
  <2>4. {jobs'[k].owner : k \in ActiveIn(q)} = {jobs[k].owner : k \in ActiveIn(q)}
    BY <2>1
  <2> QED
    BY <1>2, <2>2, <2>3, <2>4 DEF Owners
<1>7. Crew(q)' = Crew(q)
  BY <1>4, <1>5, <1>6 DEF Crew
<1>8. /\ IsFiniteSet(ActiveIn(q)) /\ IsFiniteSet(Claimants(q))
      /\ Cardinality(ActiveIn(q)) \in Nat /\ Cardinality(Claimants(q)) \in Nat
  BY CrewIsFinite DEF Room
<1>9. /\ IsFiniteSet(ActiveIn(q)')
      /\ Cardinality(ActiveIn(q)') = Cardinality(ActiveIn(q)) + 1
  <2>1. /\ IsFiniteSet(ActiveIn(q) \cup {j})
        /\ Cardinality(ActiveIn(q) \cup {j}) = Cardinality(ActiveIn(q)) + 1
    <3> HIDE DEF j
    <3> QED
      BY <1>3, <1>8, FS_AddElement
  <2> QED
    BY <1>3, <2>1
<1>10. Cardinality(Claimants(q)') = Cardinality(Claimants(q)) - 1
  BY <1>4, <1>5, <1>8, FS_RemoveElement
<1>11. Occupied(q)' = Occupied(q)
  BY <1>8, <1>9, <1>10 DEF Occupied
<1> QED
  BY <1>7, <1>9, <1>11 DEF Room

LEMMA RoomStep ==
    ASSUME TypeInv, TypeInv', Custody, ClaimsApart, Moves, IsFiniteSet(Worker), limit' = limit,
           NEW q \in Queue, Room(q)
    PROVE  Room(q)'
<1>a. handler \in [Handler -> HandlerState] /\ \A h \in Handler : HandlerMoves(h)
  BY DEF TypeInv, TypeOK, Moves
<1>1. ASSUME NEW h \in Handler, WinClaim(h), QueueOf[handler[h].job] = q PROVE Room(q)'
  BY <1>1, RoomClaimed
<1>2. ASSUME \A h \in Handler : ~ (WinClaim(h) /\ QueueOf[handler[h].job] = q)
      PROVE  Room(q)'
  <2>1. ActiveIn(q)' \subseteq ActiveIn(q)
    BY <1>2, ActiveByClaim DEF ActiveIn
  <2>2. ASSUME NEW h \in Handler, handler'[h].op = "update", ~ HasRoom(q),
               QueueOf[handler'[h].job] = q
        PROVE  /\ handler[h].op = "update" /\ handler[h].worker = handler'[h].worker
               /\ handler[h].job = handler'[h].job
    <3>1. ~ Returns(h) /\ ~ Rereads(h) /\ ~ Arrives(h)
      BY <2>2 DEF Returns, Idle, Rereads, Arrives, Asks, Sends, Waiting
    <3>2. ~ Proceeds(h)
      BY <2>2 DEF Proceeds, Promoting
    <3>3. CASE Stays(h) \/ GivenUp(h)
      BY <1>a, <2>2, <3>3 DEF Stays, GivenUp, HandlerState
    <3> QED
      BY <1>a, <3>1, <3>2, <3>3 DEF HandlerMoves
  <2>3. Claimants(q)' \subseteq Claimants(q) \/ HasRoom(q)
    BY <2>2 DEF Claimants
  <2>4. \A j \in ActiveIn(q)' : jobs'[j].owner = jobs[j].owner
    BY <2>1, OwnerStays DEF ActiveIn
  <2> QED
    BY <2>1, <2>3, <2>4, RoomKept
<1> QED
  BY <1>1, <1>2

\* A queue has more jobs CLAIMED or RUNNING than its limit only by claims that
\* race: the jobs too many are fewer than the workers that run them.  For any
\* finite number of workers, whatever crashes, is reaped or raises: a worker
\* alone keeps the limit, and a limit of 0 lets nothing run.  The limit is not
\* patched, and answers arrive (Reliable), for a start handled after its job was
\* taken away makes it RUNNING without counting.
THEOREM OvershootIsBounded ==
    ASSUME Reliable, "patch" \notin Ops, IsFiniteSet(Worker)
    PROVE  Spec => []LimitOvershoot
<1> DEFINE Inv == ClaimsApart /\ \A q \in Queue : Room(q)
<1>1. Init /\ TypeInv => Inv
  <2> SUFFICES ASSUME Init, TypeInv PROVE Inv
    OBVIOUS
  <2>1. ClaimsApart
    BY DEF Init, ClaimsApart, Idle, Claiming
  <2>2. ASSUME NEW q \in Queue PROVE Room(q)
    <3>1. ActiveIn(q) = {} /\ Claimants(q) = {}
      BY DEF Init, ActiveIn, Claimants, Idle, NewRow, NoRow, Ready, Active
    <3>2. limit[q] \in Nat
      BY DEF TypeInv, TypeOK
    <3> QED
      BY <3>1, <3>2, FS_EmptySet DEF Room, Occupied
  <2> QED
    BY <2>1, <2>2
<1>2. (TypeInv /\ Attendance /\ Custody) /\ TypeInv' /\ Inv /\ [Next]_vars => Inv'
  <2> SUFFICES ASSUME TypeInv, TypeInv', Attendance, Custody, Inv, [Next]_vars PROVE Inv'
    OBVIOUS
  <2>1. Moves /\ limit' = limit
    BY MovesStep, LimitsStay
  <2>2. ClaimsApart'
    BY <2>1, ClaimsApartStep
  <2>3. ASSUME NEW q \in Queue PROVE Room(q)'
    BY <2>1, RoomStep
  <2> QED
    BY <2>2, <2>3
<1>3. TypeInv /\ Inv => LimitOvershoot
  <2> SUFFICES ASSUME TypeInv, Inv, NEW q \in Queue, Cardinality(ActiveIn(q)) > limit[q]
               PROVE  Cardinality(ActiveIn(q)) < limit[q] + Cardinality(Owners(q))
    BY DEF LimitOvershoot, Owners
  <2>1. /\ IsFiniteSet(Claimants(q)) /\ IsFiniteSet(Owners(q))
        /\ Cardinality(Claimants(q)) \in Nat /\ Cardinality(Owners(q)) \in Nat
        /\ Cardinality(Crew(q)) \in Nat /\ Cardinality(ActiveIn(q)) \in Nat
        /\ limit[q] \in Nat
    BY CrewIsFinite DEF Room
  <2>2. Cardinality(Crew(q)) <= Cardinality(Claimants(q)) + Cardinality(Owners(q))
    BY <2>1, SmallUnion DEF Crew
  <2> QED
    BY <2>1, <2>2 DEF Room, Occupied
<1> QED
  BY <1>1, <1>2, <1>3, AnswersFindTheirThreads, CustodyKept, PTL DEF Spec

-----------------------------------------------------------------------------
(* Promotions.                                                             *)

\* Where a row may get its status from.
BlockedStays(d)  == jobs'[d].status = "blocked" => jobs[d].status = "blocked"
CompletedByReport(d) ==
    jobs'[d].status = "completed" /\ jobs[d].status # "completed"
        => \E h \in Handler : CommitComplete(h) /\ handler[h].job = d

NothingIsCreated == \A h \in Handler : handler[h].op # "create"

LEMMA StatusSources ==
    ASSUME TypeInv, NothingIsCreated, Next
    PROVE  \A d \in Job : BlockedStays(d) /\ CompletedByReport(d)
<1> USE DEF tables, fleet, queues, history
<1>a. /\ jobs \in [Job -> Row] /\ handler \in [Handler -> HandlerState]
      /\ \A h \in Handler : handler[h].op # "idle" => handler[h].job \in Job
      /\ \A h \in Handler : handler[h].snap \in Row
  BY DEF TypeInv, TypeOK, Assigned, HandlerState
<1>b. ASSUME UNCHANGED jobs PROVE \A d \in Job : BlockedStays(d) /\ CompletedByReport(d)
  BY <1>b DEF BlockedStays, CompletedByReport
\* One row is written, and gets one of two statuses.
<1>c. ASSUME NEW h \in Handler, NEW row, handler[h].job \in Job,
             jobs' = [jobs EXCEPT ![handler[h].job] = row],
             NEW st, st # "blocked", row.status \in {jobs[handler[h].job].status, st},
             st = "completed" => CommitComplete(h)
      PROVE  \A d \in Job : BlockedStays(d) /\ CompletedByReport(d)
  BY <1>a, <1>c DEF BlockedStays, CompletedByReport
<1>1. ASSUME NEW h \in Handler, ClaimStep(h) PROVE \A d \in Job : BlockedStays(d) /\ CompletedByReport(d)
  <2>1. CASE WinClaim(h)
    <3>1. /\ handler[h].job \in Job
          /\ jobs' = [jobs EXCEPT ![handler[h].job] = Claimed(jobs[handler[h].job], handler[h].worker)]
          /\ Claimed(jobs[handler[h].job], handler[h].worker).status = "claimed"
      BY <1>a, <2>1 DEF WinClaim, Claimed, Row
    <3> QED
      BY <1>c, <3>1
  <2>2. CASE ~ WinClaim(h)
    BY <1>1, <1>b, <2>2 DEF ClaimStep, WithinLimit, AtLimit, LoseClaim
  <2> QED
    BY <2>1, <2>2
<1>2. ASSUME NEW h \in Handler, ReportStep(h) PROVE \A d \in Job : BlockedStays(d) /\ CompletedByReport(d)
  <2> DEFINE j == handler[h].job
             row == handler[h].snap
  <2>a. ASSUME j \in Job, NEW st \in Status
        PROVE  /\ WithStatus(row, st) \in Row /\ WithStatus(row, st).status = st
               /\ Flush(jobs[j], row, WithStatus(row, st)).status \in {jobs[j].status, st}
    <3>1. jobs[j] \in Row /\ row \in Row
      BY <1>a, <2>a
    <3>2. WithStatus(row, st) \in Row /\ WithStatus(row, st).status = st
      BY <3>1 DEF WithStatus, Row
    <3> QED
      BY <3>1, <3>2, FlushRow
  <2>1. CASE CommitStart(h)
    <3>1. j \in Job /\ jobs' = [jobs EXCEPT ![j] = Flush(jobs[j], row, WithStatus(row, "running"))]
      BY <1>a, <2>1 DEF CommitStart
    <3> QED
      BY <1>c, <2>a, <3>1 DEF Status
  <2>2. CASE CommitComplete(h)
    <3>1. j \in Job /\ jobs' = [jobs EXCEPT ![j] = Flush(jobs[j], row, WithStatus(row, "completed"))]
      BY <1>a, <2>2 DEF CommitComplete
    <3> QED
      BY <1>c, <2>2, <2>a, <3>1 DEF Status
  <2>3. CASE CommitRequeue(h)
    <3>1. PICK new : new = Requeued(row)
      OBVIOUS
    <3>2. new \in Row /\ new.status = "queued"
      BY <1>a, <3>1, RowOperators, AssignedStatus
    <3>3. j \in Job /\ jobs' = [jobs EXCEPT ![j] = FlushRunAt(jobs[j], row, new, FALSE)]
      BY <1>a, <2>3, <3>1 DEF CommitRequeue
    <3>4. jobs[j] \in Row /\ row \in Row
      BY <1>a, <3>3
    <3>5. \A due \in BOOLEAN : FlushRunAt(jobs[j], row, new, due).status \in {jobs[j].status, new.status}
      BY <3>2, <3>4, FlushRow, Zenon
    <3>6. FlushRunAt(jobs[j], row, new, FALSE).status \in {jobs[j].status, "queued"}
      BY <3>2, <3>5
    <3> QED
      BY <1>c, <3>3, <3>6
  <2>4. CASE CommitDead(h)
    <3>1. j \in Job /\ jobs' = [jobs EXCEPT ![j] = Flush(jobs[j], row, WithStatus(row, "dead"))]
      BY <1>a, <2>4 DEF CommitDead
    <3> QED
      BY <1>c, <2>a, <3>1 DEF Status
  <2>5. CASE DuplicateDeadLetter(h)
    BY <1>b, <2>5 DEF DuplicateDeadLetter
  <2> QED
    BY <1>2, <2>1, <2>2, <2>3, <2>4, <2>5 DEF ReportStep
<1>3. ASSUME NEW h \in Handler, PromoteStep(h) PROVE \A d \in Job : BlockedStays(d) /\ CompletedByReport(d)
  <2>1. CASE CommitPromote(h)
    <3>1. \A d \in Job : handler[h].plan[d] \in {"keep", "queued", "scheduled"}
      BY <1>a, <2>1 DEF CommitPromote, HandlerState, Decision
    <3> QED
      BY <1>a, <2>1, <3>1
      DEF CommitPromote, BlockedStays, CompletedByReport, WithStatus, Row
  <2>2. CASE ~ CommitPromote(h)
    BY <1>3, <1>b, <2>2 DEF PromoteStep, ReadEdges, ReadDependent, CountRemaining
  <2> QED
    BY <2>1, <2>2
<1>4. ASSUME NEW h \in Handler, OperatorStep(h) PROVE \A d \in Job : BlockedStays(d) /\ CompletedByReport(d)
  <2> DEFINE j == handler[h].job
             row == handler[h].snap
  <2>1. CASE DuplicateKey(h)
    BY <1>b, <2>1 DEF DuplicateKey
  <2>2. CASE CommitCancel(h)
    <3>1. j \in Job /\ jobs' = [jobs EXCEPT ![j] = Flush(jobs[j], row, WithStatus(row, "dead"))]
      BY <1>a, <2>2 DEF CommitCancel
    <3>2. WithStatus(row, "dead") \in Row /\ WithStatus(row, "dead").status = "dead"
      BY <1>a DEF WithStatus, Row, Status
    <3>3. Flush(jobs[j], row, WithStatus(row, "dead")).status \in {jobs[j].status, "dead"}
      BY <1>a, <3>1, <3>2, FlushRow
    <3> QED
      BY <1>c, <3>1, <3>3
  <2>3. CASE CommitRestart(h)
    <3>1. PICK new : new = Restarted(row)
      OBVIOUS
    <3>2. new \in Row /\ new.status = "queued"
      BY <1>a, <3>1, RowOperators, AssignedStatus
    <3>3. j \in Job /\ jobs' = [jobs EXCEPT ![j] = FlushRunAt(jobs[j], row, new, TRUE)]
      BY <1>a, <2>3, <3>1 DEF CommitRestart
    <3>4. jobs[j] \in Row /\ row \in Row
      BY <1>a, <3>3
    <3>5. \A due \in BOOLEAN : FlushRunAt(jobs[j], row, new, due).status \in {jobs[j].status, new.status}
      BY <3>2, <3>4, FlushRow, Zenon
    <3>6. FlushRunAt(jobs[j], row, new, TRUE).status \in {jobs[j].status, "queued"}
      BY <3>2, <3>5
    <3> QED
      BY <1>c, <3>3, <3>6
  <2> QED
    BY <1>4, <2>1, <2>2, <2>3 DEF OperatorStep, CommitCreate, NothingIsCreated
<1>5. ASSUME NEW s \in Slot, SlotStep(s) PROVE \A d \in Job : BlockedStays(d) /\ CompletedByReport(d)
  BY <1>5, <1>b DEF SlotStep, Poll, PostStart, PostReport, TaskFails, ReportRefused
<1>6. CASE SchedulerStep
  <2>1. CASE CommitDueJobs \/ CommitReap
    <3>1. ASSUME NEW d \in Job
          PROVE  jobs'[d] = jobs[d] \/ jobs'[d].status = "queued"
      <4>1. CASE CommitDueJobs
        <5>1. WithStatus(jobs[d], "queued").status = "queued"
          BY <1>a DEF WithStatus, Row
        <5> QED
          BY <4>1, <5>1 DEF CommitDueJobs
      <4>2. CASE CommitReap
        <5>1. [Requeued(jobs[d]) EXCEPT !.due = TRUE].status = "queued"
          BY <1>a DEF Requeued, Row
        <5> QED
          BY <4>2, <5>1 DEF CommitReap
      <4> QED
        BY <2>1, <4>1, <4>2
    <3> QED
      BY <3>1 DEF BlockedStays, CompletedByReport
  <2>2. CASE ~ (CommitDueJobs \/ CommitReap)
    BY <1>6, <1>b, <2>2 DEF SchedulerStep, ReadDueJobs, ReadStuckJobs
  <2> QED
    BY <2>1, <2>2
<1>7. CASE OperatorRequest
  BY <1>7, <1>b DEF OperatorRequest, BeginCreate, BeginOperation, Drain, ListWorkers, SetPaused, PatchLimit
<1>8. CASE Clock
  <2>1. ASSUME NEW j \in Job, TimePasses(j) PROVE \A d \in Job : BlockedStays(d) /\ CompletedByReport(d)
    BY <1>a, <2>1 DEF TimePasses, BlockedStays, CompletedByReport, Row
  <2>2. ASSUME NEW w \in Worker, Heartbeat(w) \/ GoStale(w) PROVE UNCHANGED jobs
    BY <2>2 DEF Heartbeat, GoStale
  <2> QED
    BY <1>8, <1>b, <2>1, <2>2 DEF Clock
<1>9. CASE Failure
  BY <1>9, <1>b DEF Failure, WorkerCrash, LoseReply, LateRead, ApiCrash, DbError, TickError
<1> QED
  BY <1>1, <1>2, <1>3, <1>4, <1>5, <1>6, <1>7, <1>8, <1>9 DEF Next, HandlerStep

LEMMA NothingComesToCreate ==
    ASSUME TypeInv, NothingIsCreated, Moves, "create" \notin Ops
    PROVE  NothingIsCreated'
<1> SUFFICES ASSUME NEW h \in Handler PROVE handler'[h].op # "create"
  BY DEF NothingIsCreated
<1>1. handler[h] \in HandlerState /\ handler[h].op # "create" /\ HandlerMoves(h)
  BY DEF TypeInv, TypeOK, NothingIsCreated, Moves
<1>2. CASE Stays(h) \/ Returns(h) \/ Proceeds(h) \/ GivenUp(h) \/ Rereads(h)
  BY <1>1, <1>2 DEF Stays, Returns, Idle, Proceeds, Promoting, GivenUp, Rereads, HandlerState
<1>3. CASE Arrives(h)
  BY <1>3 DEF Arrives, Asks, Sends, Waiting
<1> QED
  BY <1>1, <1>2, <1>3 DEF HandlerMoves

\* A handler that will promote d goes on until it does.
LEMMA PromiseKept ==
    ASSUME TypeInv, Next, Faults \cap {"db_error", "api_crash"} = {},
           NEW h \in Handler, NEW d \in Job, WillPromote(h, d),
           jobs[d].status = "blocked", Remaining(d) = {}, jobs'[d].status = "blocked"
    PROVE  WillPromote(h, d)'
<1> USE DEF tables, fleet, queues, history
<1>a. /\ jobs \in [Job -> Row] /\ handler \in [Handler -> HandlerState]
      /\ handler[h].op \in {"edges", "scan", "count"} /\ Idle.op = "idle"
  BY DEF TypeInv, TypeOK, WillPromote, Idle
<1>b. ASSUME handler'[h].op = handler[h].op, handler'[h].job = handler[h].job,
             handler'[h].plan = handler[h].plan
      PROVE  WillPromote(h, d)'
  BY <1>b DEF WillPromote
<1>c. ASSUME NEW g \in Handler, g # h, NEW next, handler' = [handler EXCEPT ![g] = next]
      PROVE  WillPromote(h, d)'
  BY <1>a, <1>b, <1>c
<1>1. ASSUME NEW g \in Handler, ClaimStep(g) PROVE WillPromote(h, d)'
  BY <1>1, <1>a, <1>c
  DEF ClaimStep, WithinLimit, AtLimit, WinClaim, LoseClaim, Reply
<1>2. ASSUME NEW g \in Handler, ReportStep(g) PROVE WillPromote(h, d)'
  BY <1>2, <1>a, <1>c
  DEF ReportStep, CommitStart, CommitComplete, CommitRequeue, CommitDead, DuplicateDeadLetter, Reply
<1>3. ASSUME NEW g \in Handler, PromoteStep(g) PROVE WillPromote(h, d)'
  <2>1. CASE g # h
    <3>1. CASE ReadDependent(g)
      BY <1>c, <2>1, <3>1 DEF ReadDependent
    <3>2. CASE ReadEdges(g) \/ CountRemaining(g) \/ CommitPromote(g)
      BY <1>c, <2>1, <3>2 DEF ReadEdges, CountRemaining, CommitPromote, Reply
    <3> QED
      BY <1>3, <3>1, <3>2 DEF PromoteStep
  <2>2. CASE g = h /\ ReadEdges(h)
    <3>1. handler[h].job \in DependsOn[d] /\ jobs[d].status # "absent"
      BY <2>2 DEF ReadEdges, WillPromote
    <3>2. handler'[h].op = "scan" /\ handler'[h].plan[d] = "todo"
      BY <1>a, <2>2, <3>1 DEF ReadEdges, HandlerState
    <3> QED
      BY <3>2 DEF WillPromote
  <2>3. CASE g = h /\ ReadDependent(h)
    <3>1. PICK k \in Job :
             /\ handler[h].op = "scan" /\ handler[h].plan[k] = "todo"
             /\ IF jobs[k].status = "blocked"
                THEN handler' = [handler EXCEPT ![h].op = "count", ![h].dep = k,
                                                ![h].plan[k] = Ready(jobs[k].due)]
                ELSE handler' = [handler EXCEPT ![h].plan[k] = "keep"]
      BY <2>3 DEF ReadDependent
    <3>2. handler[h].plan \in [Job -> Decision] /\ handler[h].plan[d] # "keep"
      BY <1>a, <3>1 DEF HandlerState, WillPromote
    <3>3. /\ handler'[h].op \in {"scan", "count"}
          /\ handler'[h].plan[d] \in {handler[h].plan[d], Ready(jobs[d].due)}
      BY <1>a, <3>1, <3>2 DEF HandlerState
    <3> QED
      BY <3>2, <3>3 DEF WillPromote, Ready
  <2>4. CASE g = h /\ CountRemaining(h)
    <3>1. /\ handler[h].plan \in [Job -> Decision] /\ handler[h].plan[d] # "keep"
          /\ handler[h].op = "count"
      BY <1>a, <2>4 DEF HandlerState, WillPromote, CountRemaining
    <3>2. handler'[h].op = "scan" /\ handler'[h].plan[d] = handler[h].plan[d]
      BY <1>a, <2>4, <3>1 DEF CountRemaining, HandlerState
    <3> QED
      BY <3>1, <3>2 DEF WillPromote
  <2>5. CASE g = h /\ CommitPromote(h)
    <3>1. handler[h].plan[d] \in {"queued", "scheduled"}
      BY <1>a, <2>5 DEF CommitPromote, WillPromote, HandlerState, Decision
    <3>2. jobs'[d].status = handler[h].plan[d]
      BY <1>a, <2>5, <3>1 DEF CommitPromote, WithStatus, Row
    <3> QED
      BY <3>1, <3>2
  <2> QED
    BY <1>3, <2>1, <2>2, <2>3, <2>4, <2>5 DEF PromoteStep
<1>4. ASSUME NEW g \in Handler, OperatorStep(g) PROVE WillPromote(h, d)'
  BY <1>4, <1>a, <1>c
  DEF OperatorStep, CommitCreate, DuplicateKey, CommitCancel, CommitRestart, Reply
<1>5. ASSUME NEW s \in Slot, SlotStep(s) PROVE WillPromote(h, d)'
  BY <1>5, <1>a, <1>b, <1>c
  DEF SlotStep, Poll, PostStart, PostReport, TaskFails, ReportRefused, Send
<1>6. CASE SchedulerStep
  BY <1>6, <1>b DEF SchedulerStep, ReadDueJobs, CommitDueJobs, ReadStuckJobs, CommitReap
<1>7. CASE OperatorRequest
  BY <1>7, <1>a, <1>b, <1>c
  DEF OperatorRequest, BeginCreate, BeginOperation, Drain, ListWorkers, SetPaused, PatchLimit
<1>8. CASE Clock
  BY <1>8, <1>b DEF Clock, TimePasses, Heartbeat, GoStale
<1>9. CASE Failure
  <2>1. ASSUME NEW w \in Worker, WorkerCrash(w) PROVE WillPromote(h, d)'
    <3>1. \/ handler'[h] = handler[h]
          \/ handler'[h] = [handler[h] EXCEPT !.slot = NULL]
      BY <1>a, <2>1 DEF WorkerCrash
    <3> QED
      BY <1>a, <1>b, <3>1 DEF HandlerState
  <2>2. ASSUME NEW g \in Handler, LoseReply(g) PROVE WillPromote(h, d)'
    <3>1. \/ handler'[h] = handler[h]
          \/ handler'[h] = [handler[h] EXCEPT !.slot = NULL]
      BY <1>a, <2>2 DEF LoseReply
    <3> QED
      BY <1>a, <1>b, <3>1 DEF HandlerState
  <2>3. ASSUME NEW g \in Handler, LateRead(g) PROVE WillPromote(h, d)'
    <3>1. g # h
      BY <1>a, <2>3 DEF LateRead, Waiting
    <3>2. handler'[h] = handler[h]
      BY <1>a, <2>3, <3>1 DEF LateRead
    <3> QED
      BY <1>b, <3>2
  <2>4. CASE TickError
    BY <1>b, <2>4 DEF TickError
  <2> QED
    BY <1>9, <2>1, <2>2, <2>3, <2>4 DEF Failure, ApiCrash, DbError
<1> QED
  BY <1>1, <1>2, <1>3, <1>4, <1>5, <1>6, <1>7, <1>8, <1>9 DEF Next, HandlerStep

\* A BLOCKED job whose last dependency completes, in whatever order reports
\* commit and whatever else happens to the jobs, is always on the way to being
\* promoted.  No handler may die of an API restart or an error in between, and no
\* dependent be created meanwhile (LostPromotion).
THEOREM PromotionsAreUnderway ==
    ASSUME "create" \notin Ops, Faults \cap {"db_error", "api_crash"} = {}
    PROVE  Spec => []NoPromotionLost
<1> DEFINE Inv == NothingIsCreated /\ NoPromotionLost
<1>1. Init => Inv
  <2> SUFFICES ASSUME Init PROVE Inv
    OBVIOUS
  <2>1. NothingIsCreated
    BY DEF Init, Idle, NothingIsCreated
  <2>2. ASSUME NEW d \in Job, jobs[d].status = "blocked" PROVE Remaining(d) # {}
    <3>1. \A j \in Job : jobs[j].status # "completed"
      BY DEF Init, NewRow, NoRow, Ready
    <3>2. DependsOn[d] # {}
      BY <2>2 DEF Init, NewRow, NoRow, Ready
    <3>3. DependsOn[d] \subseteq Job
      BY JobAssumption
    <3> QED
      BY <3>1, <3>2, <3>3 DEF Remaining
  <2> QED
    BY <2>1, <2>2 DEF NoPromotionLost
<1>2. TypeInv /\ Attendance /\ Inv /\ [Next]_vars => Inv'
  <2> SUFFICES ASSUME TypeInv, Attendance, Inv, [Next]_vars PROVE Inv'
    OBVIOUS
  <2>1. CASE UNCHANGED vars
    BY <2>1 DEF vars, NothingIsCreated, NoPromotionLost, Remaining, WillPromote
  <2>2. CASE Next
    <3>1. NothingIsCreated'
      BY MovesStep, NothingComesToCreate
    <3>2. ASSUME NEW d \in Job, jobs'[d].status = "blocked", Remaining(d)' = {}
          PROVE  \E h \in Handler : WillPromote(h, d)'
      <4>1. jobs[d].status = "blocked"
        BY <2>2, <3>2, StatusSources DEF BlockedStays
      <4>2. CASE Remaining(d) = {}
        <5>1. PICK h \in Handler : WillPromote(h, d)
          BY <4>1, <4>2 DEF NoPromotionLost
        <5> QED
          BY <2>2, <3>2, <4>1, <4>2, <5>1, PromiseKept
      <4>3. CASE Remaining(d) # {}
        <5>1. PICK k \in DependsOn[d] : jobs[k].status # "completed" /\ jobs'[k].status = "completed"
          BY <3>2, <4>3 DEF Remaining
        <5>2. k \in Job
          BY JobAssumption
        <5>3. PICK h \in Handler : CommitComplete(h) /\ handler[h].job = k
          BY <2>2, <5>1, <5>2, StatusSources DEF CompletedByReport
        <5>4. handler'[h].op = "edges" /\ handler'[h].job = k
          BY <5>3 DEF CommitComplete, TypeInv, TypeOK, HandlerState
        <5> QED
          BY <5>4 DEF WillPromote
      <4> QED
        BY <4>2, <4>3
    <3> QED
      BY <3>1, <3>2 DEF NoPromotionLost
  <2> QED
    BY <2>1, <2>2
<1> QED
  BY <1>1, <1>2, AnswersFindTheirThreads, PTL DEF Spec

-----------------------------------------------------------------------------
(* No active job is forgotten.                                             *)

\* Reports find an execution row, and only DEAD jobs are in the dead letter
\* queue: so no report is refused.
Reported == {"run", "raised", "complete", "fail"}

Reportable ==
    /\ \A s \in Slot : slot[s].pc \in Reported => execs[slot[s].job] # <<>>
    /\ \A j \in Job : dlq[j] # "none" => jobs[j].status = "dead"

\* A thread of the owner has the job, or the owner is dead.
Attached(j) ==
    jobs[j].status \in Active =>
        \/ jobs[j].owner \in Worker \ up
        \/ \E s \in Slot : slot[s].job = j /\ WorkerOf[s] = jobs[j].owner

LEMMA DeadStays ==
    ASSUME TypeInv, Custody, Moves, NEW j \in Job, jobs[j].status = "dead"
    PROVE  jobs'[j].status = "dead"
<1>a. /\ handler \in [Handler -> HandlerState] /\ jobs \in [Job -> Row]
      /\ \A h \in Handler : /\ handler[h].op \notin {"cancel", "retry", "replay"}
                            /\ handler[h].op \in Reporting => jobs[handler[h].job].status \in Active
                            /\ handler[h].op = "create" => jobs[handler[h].job].status = "absent"
                            /\ handler[h].plan[j] \notin {"queued", "scheduled"}
  BY DEF TypeInv, TypeOK, Custody, HandlerHolds, CallerWaits, LoadHolds, PlanHolds, With,
         Claiming, Reporting, Promoting
<1>1. CASE MovesOn(j)
  BY <1>1, <1>a DEF MovesOn, Active
<1>2. ASSUME NEW h \in Handler, handler[h].job = j
      PROVE  ~ (WinClaim(h) \/ CommitRequeue(h) \/ CommitRestart(h) \/ CommitCreate(h))
  BY <1>2, <1>a DEF WinClaim, Claimable, CommitRequeue, CommitRestart, CommitCreate, Reporting, Active
<1>3. ASSUME NEW h \in Handler, CommitPromote(h), handler[h].plan[j] # "keep" PROVE FALSE
  <2>1. handler[h].plan[j] \in Decision
    BY <1>a DEF HandlerState
  <2> QED
    BY <1>3, <1>a, <2>1 DEF CommitPromote, Decision
<1>4. j \in sched.batch => ~ (CommitDueJobs \/ CommitReap)
  BY DEF Custody, BatchHolds, CommitDueJobs, CommitReap, Active
<1>5. RowMoves(j)
  BY DEF Moves
<1> QED
  BY <1>1, <1>2, <1>3, <1>4, <1>5 DEF RowMoves

\* Execution rows stay, and a thread comes to run by the answer to its start.
LEMMA RowsFound ==
    ASSUME TypeInv, TypeInv', Attendance, Reportable, Faults = {}, Next, NEW s \in Slot
    PROVE  slot'[s].pc \in Reported => execs'[slot'[s].job] # <<>>
<1> USE DEF tables, fleet, queues, history
<1>a. /\ slot \in [Slot -> SlotState] /\ handler \in [Handler -> HandlerState]
      /\ slot' \in [Slot -> SlotState]
      /\ execs \in [Job -> Seq(Execution)]
      /\ \A t \in Slot : slot[t].pc \in Reported => slot[t].job \in Job
  BY DEF TypeInv, TypeOK, Assigned, Reported, SlotState
<1>b. \A h \in Handler : handler[h].slot # NULL => Attended(h)
  BY DEF Attendance
\* The thread had a row for its job, and execution rows stay.
<1>c. ASSUME slot[s].pc \in Reported, slot'[s].job = slot[s].job,
             \A j \in Job : execs'[j] = <<>> => execs[j] = <<>>
      PROVE  execs'[slot'[s].job] # <<>>
  BY <1>a, <1>c DEF Reportable
<1>d. ASSUME NEW h \in Handler, NEW st, execs' = FinishExecution(h, st), handler[h].job \in Job
      PROVE  \A j \in Job : execs'[j] = <<>> => execs[j] = <<>>
  <2>1. DOMAIN execs[handler[h].job] = DOMAIN execs'[handler[h].job]
    BY <1>a, <1>d DEF FinishExecution
  <2>2. \A j \in Job : j # handler[h].job => execs'[j] = execs[j]
    BY <1>a, <1>d DEF FinishExecution
  <2>3. ASSUME execs'[handler[h].job] = <<>> PROVE execs[handler[h].job] = <<>>
    <3>1. PICK rows \in Seq(Execution) : rows = execs[handler[h].job]
      BY <1>a, <1>d
    <3>2. DOMAIN <<>> = {}
      OBVIOUS
    <3>3. DOMAIN rows = {}
      BY <2>1, <2>3, <3>1, <3>2
    <3>4. Len(rows) \in Nat /\ (Len(rows) # 0 => 1 \in DOMAIN rows)
      BY LenProperties, Z3
    <3>5. Len(rows) = 0
      BY <3>3, <3>4
    <3>6. rows = <<>>
      BY <3>5, EmptySeq
    <3> QED
      BY <3>1, <3>6
  <2> QED
    BY <2>2, <2>3
\* An answer, but to a start.
<1>e. ASSUME NEW h \in Handler, Reply(h), handler[h].op # "start",
             slot'[s].pc \in Reported
      PROVE  slot[s].pc \in Reported /\ slot'[s].job = slot[s].job
  <2>1. CASE s # handler[h].slot
    BY <1>a, <1>e, <2>1 DEF Reply
  <2>2. CASE s = handler[h].slot
    <3>1. slot[s].pc = PcOf(handler[h].op) /\ slot[s].pc # "start"
      BY <1>b, <1>e, <2>2, SlotAssumption
      DEF Attended, PcOf, Claiming, Reporting, Promoting
    <3>2. slot'[s] = FreeSlot
      BY <1>a, <1>e, <2>2, <3>1 DEF Reply, AfterReply
    <3> QED
      BY <1>e, <3>2 DEF FreeSlot, Reported
  <2> QED
    BY <2>1, <2>2
<1> SUFFICES ASSUME slot'[s].pc \in Reported PROVE execs'[slot'[s].job] # <<>>
  OBVIOUS
<1>1. ASSUME NEW h \in Handler, ClaimStep(h) PROVE execs'[slot'[s].job] # <<>>
  <2>1. CASE WinClaim(h)
    BY <1>a, <1>c, <2>1 DEF WinClaim, ClaimAnswers, FreeSlot, Reported
  <2>2. CASE WithinLimit(h)
    BY <1>c, <2>2 DEF WithinLimit
  <2>3. CASE AtLimit(h) \/ LoseClaim(h)
    BY <1>c, <1>e, <2>3 DEF AtLimit, LoseClaim
  <2> QED
    BY <1>1, <2>1, <2>2, <2>3 DEF ClaimStep
<1>2. ASSUME NEW h \in Handler, ReportStep(h) PROVE execs'[slot'[s].job] # <<>>
  <2>a. handler[h].job \in Job
    BY <1>2, <1>a DEF ReportStep, CommitStart, CommitComplete, CommitRequeue, CommitDead,
                      DuplicateDeadLetter, TypeInv, Assigned, HandlerState
  <2>1. CASE CommitStart(h)
    <3> DEFINE j == handler[h].job
    <3>1. /\ execs'[j] = Append(execs[j], NewExecution(h))
          /\ \A k \in Job : k # j => execs'[k] = execs[k]
      BY <1>a, <2>1, <2>a DEF CommitStart
    <3>2. execs'[j] # <<>>
      <4>1. NewExecution(h) \in Execution
        BY <1>a, <2>1
        DEF NewExecution, Execution, CommitStart, TypeInv, Assigned, HandlerState, Row, Waiting
      <4>2. Len(execs'[j]) = Len(execs[j]) + 1 /\ Len(execs[j]) \in Nat
        BY <1>a, <2>a, <3>1, <4>1
      <4>3. Len(execs'[j]) # 0
        BY <4>2
      <4> QED
        BY <4>3
    <3>3. \A k \in Job : execs'[k] = <<>> => execs[k] = <<>>
      BY <3>1, <3>2
    <3>4. CASE s = handler[h].slot
      <4>1. slot[s].job = j /\ slot[s].pc = "start"
        BY <1>b, <2>1, <3>4, SlotAssumption
        DEF CommitStart, Attended, PcOf, Claiming, Reporting, Promoting
      <4>2. slot'[s].job = j
        BY <1>a, <2>1, <3>4, <4>1 DEF CommitStart, Reply, AfterReply, SlotState
      <4> QED
        BY <3>2, <4>2
    <3>5. CASE s # handler[h].slot
      BY <1>a, <1>c, <2>1, <3>3, <3>5 DEF CommitStart, Reply
    <3> QED
      BY <3>4, <3>5
  <2>2. CASE CommitComplete(h)
    BY <1>c, <1>d, <2>2, <2>a DEF CommitComplete
  <2>3. CASE CommitRequeue(h) \/ CommitDead(h)
    BY <1>c, <1>d, <1>e, <2>3, <2>a DEF CommitRequeue, CommitDead
  <2>4. CASE DuplicateDeadLetter(h)
    BY <1>c, <1>e, <2>4 DEF DuplicateDeadLetter
  <2> QED
    BY <1>2, <2>1, <2>2, <2>3, <2>4 DEF ReportStep
<1>3. ASSUME NEW h \in Handler, PromoteStep(h) PROVE execs'[slot'[s].job] # <<>>
  <2>1. CASE CommitPromote(h)
    BY <1>c, <1>e, <2>1 DEF CommitPromote
  <2>2. CASE ~ CommitPromote(h)
    BY <1>3, <1>c, <2>2 DEF PromoteStep, ReadEdges, ReadDependent, CountRemaining
  <2> QED
    BY <2>1, <2>2
<1>4. ASSUME NEW h \in Handler, OperatorStep(h) PROVE execs'[slot'[s].job] # <<>>
  BY <1>4, <1>c, <1>e DEF OperatorStep, CommitCreate, DuplicateKey, CommitCancel, CommitRestart
<1>5. ASSUME NEW t \in Slot, SlotStep(t) PROVE execs'[slot'[s].job] # <<>>
  <2>1. ASSUME NEW h \in Handler, Poll(h, t) \/ PostStart(h, t) PROVE execs'[slot'[s].job] # <<>>
    BY <1>a, <1>c, <2>1 DEF Poll, PostStart, Send, Reported
  <2>2. ASSUME NEW h \in Handler, PostReport(h, t) PROVE execs'[slot'[s].job] # <<>>
    <3>1. slot[t].pc \in {"run", "raised"} /\ UNCHANGED execs
          /\ \/ slot'[s] = slot[s]
             \/ s = t /\ slot'[s].job = slot[s].job
      BY <1>a, <2>2 DEF PostReport, Send
    <3> QED
      BY <1>c, <3>1 DEF Reported
  <2>3. CASE TaskFails(t) \/ ReportRefused(t)
    <3>1. UNCHANGED execs
          /\ \/ slot'[s] = slot[s]
             \/ s = t /\ slot[s].pc \in Reported /\ slot'[s].job = slot[s].job
      BY <1>a, <2>3 DEF TaskFails, ReportRefused, FreeSlot, Reported, SlotState
    <3> QED
      BY <1>c, <3>1
  <2> QED
    BY <1>5, <2>1, <2>2, <2>3 DEF SlotStep
<1>6. CASE SchedulerStep
  BY <1>6, <1>c DEF SchedulerStep, ReadDueJobs, CommitDueJobs, ReadStuckJobs, CommitReap
<1>7. CASE OperatorRequest
  BY <1>7, <1>c DEF OperatorRequest, BeginCreate, BeginOperation, Drain, ListWorkers, SetPaused, PatchLimit
<1>8. CASE Clock
  BY <1>8, <1>c DEF Clock, TimePasses, Heartbeat, GoStale
<1>9. CASE Failure
  <2>1. ASSUME NEW w \in Worker, WorkerCrash(w) PROVE execs'[slot'[s].job] # <<>>
    BY <1>a, <1>c, <2>1 DEF WorkerCrash, FreeSlot, Reported
  <2>2. ASSUME NEW h \in Handler, LateRead(h) PROVE execs'[slot'[s].job] # <<>>
    BY <1>c, <2>2 DEF LateRead
  <2> QED
    BY <1>9, <2>1, <2>2 DEF Failure, LoseReply, ApiCrash, DbError, TickError
<1> QED
  BY <1>1, <1>2, <1>3, <1>4, <1>5, <1>6, <1>7, <1>8, <1>9 DEF Next, HandlerStep

\* Only mark_failed and a replay write an entry.
LEMMA EntriesMove ==
    ASSUME Next
    PROVE  dlq' = dlq \/ \E h \in Handler : CommitDead(h) \/ CommitRestart(h)
<1> USE DEF tables, fleet, queues, history
<1>1. ASSUME NEW h \in Handler, HandlerStep(h), ~ CommitDead(h), ~ CommitRestart(h) PROVE dlq' = dlq
  <2>1. CASE ClaimStep(h)
    BY <2>1 DEF ClaimStep, WithinLimit, AtLimit, WinClaim, LoseClaim
  <2>2. CASE ReportStep(h)
    BY <1>1, <2>2 DEF ReportStep, CommitStart, CommitComplete, CommitRequeue, DuplicateDeadLetter
  <2>3. CASE PromoteStep(h)
    BY <2>3 DEF PromoteStep, ReadEdges, ReadDependent, CountRemaining, CommitPromote
  <2>4. CASE OperatorStep(h)
    BY <1>1, <2>4 DEF OperatorStep, CommitCreate, DuplicateKey, CommitCancel
  <2> QED
    BY <1>1, <2>1, <2>2, <2>3, <2>4 DEF HandlerStep
<1>2. ASSUME NEW s \in Slot, SlotStep(s) PROVE dlq' = dlq
  BY <1>2 DEF SlotStep, Poll, PostStart, PostReport, TaskFails, ReportRefused
<1>3. CASE SchedulerStep
  BY <1>3 DEF SchedulerStep, ReadDueJobs, CommitDueJobs, ReadStuckJobs, CommitReap
<1>4. CASE OperatorRequest
  BY <1>4 DEF OperatorRequest, BeginCreate, BeginOperation, Drain, ListWorkers, SetPaused, PatchLimit
<1>5. CASE Clock
  BY <1>5 DEF Clock, TimePasses, Heartbeat, GoStale
<1>6. CASE Failure
  BY <1>6 DEF Failure, WorkerCrash, LoseReply, LateRead, ApiCrash, DbError, TickError
<1> QED
  BY <1>1, <1>2, <1>3, <1>4, <1>5, <1>6 DEF Next

LEMMA ReportableStep ==
    ASSUME TypeInv, TypeInv', Custody, Attendance, Moves, Faults = {}, Next, Reportable
    PROVE  Reportable'
<1>1. ASSUME NEW j \in Job, dlq'[j] # "none" PROVE jobs'[j].status = "dead"
  <2>a. jobs \in [Job -> Row] /\ dlq \in [Job -> {"none", "open", "replayed"}]
        /\ handler \in [Handler -> HandlerState]
    BY DEF TypeInv, TypeOK
  <2>1. CASE dlq[j] # "none"
    BY <2>1, DeadStays DEF Reportable
  <2>2. CASE dlq[j] = "none"
    <3>1. \A h \in Handler : ~ CommitRestart(h)
      BY DEF CommitRestart, Custody, HandlerHolds, CallerWaits, Claiming, Reporting, Promoting
    <3>2. PICK h \in Handler : CommitDead(h)
      BY <1>1, <2>2, <3>1, EntriesMove
    <3>3. handler[h].job = j /\ handler[h].snap.status \in Active /\ handler[h].snap \in Row
      BY <1>1, <2>a, <2>2, <3>2
      DEF CommitDead, HandlerState, Custody, HandlerHolds, LoadHolds, Reporting
    <3>4. PICK row \in Row : row = handler[h].snap
      BY <3>3
    <3>5. jobs'[j] = Flush(jobs[j], row, WithStatus(row, "dead")) /\ jobs[j] \in Row
      BY <2>a, <3>2, <3>3, <3>4 DEF CommitDead
    <3> QED
      BY <3>3, <3>4, <3>5 DEF Flush, WithStatus, Row, Active
  <2> QED
    BY <2>1, <2>2
<1> QED
  BY <1>1, RowsFound DEF Reportable

\* A thread gives up a job that stays active only by the death of its worker.
LEMMA ThreadLetsGo ==
    ASSUME TypeInv, Custody, Attendance, Reportable, Faults = {}, Next,
           NEW s \in Slot, NEW j \in Job, slot[s].job = j, WorkerOf[s] \in up',
           jobs[j].status \in Active, jobs'[j].status \in Active
    PROVE  slot'[s].job = j
<1> USE DEF tables, fleet, queues, history
<1>a. /\ slot \in [Slot -> SlotState] /\ handler \in [Handler -> HandlerState]
      /\ jobs \in [Job -> Row]
      /\ j # NULL /\ slot[s].pc \notin {"free", "claim"} /\ s # NULL
  BY NullAssumption, SlotAssumption DEF TypeInv, TypeOK, Assigned
\* The request it waits for is about the job.
<1>b. ASSUME NEW h \in Handler, handler[h].slot = s
      PROVE  /\ slot[s].pc = PcOf(handler[h].op)
             /\ handler[h].op \in Reporting \cup Promoting
             /\ handler[h].job = j
  BY <1>a, <1>b DEF Attendance, Attended, PcOf
<1>c. ASSUME NEW h \in Handler, Reply(h), handler[h].slot = s => handler[h].op = "start"
      PROVE  slot'[s].job = j
  <2>1. CASE s # handler[h].slot
    BY <1>a, <1>c, <2>1 DEF Reply
  <2>2. CASE s = handler[h].slot
    <3>1. slot[s].pc = "start"
      BY <1>b, <1>c, <2>2 DEF PcOf, Claiming, Promoting
    <3> QED
      BY <1>a, <1>c, <2>2, <3>1 DEF Reply, AfterReply, SlotState
  <2> QED
    BY <2>1, <2>2
<1>1. ASSUME NEW h \in Handler, ClaimStep(h) PROVE slot'[s].job = j
  <2>1. handler[h].slot # s
    BY <1>1, <1>b DEF ClaimStep, WithinLimit, AtLimit, WinClaim, LoseClaim, Reporting, Promoting
  <2> QED
    BY <1>1, <1>a, <1>c, <2>1 DEF ClaimStep, WithinLimit, AtLimit, WinClaim, LoseClaim
<1>2. ASSUME NEW h \in Handler, ReportStep(h) PROVE slot'[s].job = j
  <2>1. CASE CommitStart(h)
    BY <1>c, <2>1 DEF CommitStart
  <2>2. CASE CommitComplete(h)
    BY <2>2 DEF CommitComplete
  <2>3. CASE CommitRequeue(h) \/ CommitDead(h)
    <3>1. handler[h].slot # s
      <4> SUFFICES ASSUME handler[h].slot = s PROVE FALSE
        OBVIOUS
      <4>1. handler[h].job = j
        BY <1>b
      <4>2. PICK row \in Row : row = handler[h].snap /\ row.status \in Active
        BY <1>a, <2>3
        DEF HandlerState, CommitRequeue, CommitDead, Custody, HandlerHolds, LoadHolds, Reporting
      <4>3. CASE CommitRequeue(h)
        <5>1. jobs'[j] = FlushRunAt(jobs[j], row, Requeued(row), FALSE) /\ jobs[j] \in Row
          BY <1>a, <4>1, <4>2, <4>3 DEF CommitRequeue
        <5>2. jobs'[j].status = "queued"
          BY <4>2, <5>1 DEF FlushRunAt, Flush, Requeued, Row, Active
        <5> QED
          BY <5>2 DEF Active
      <4>4. CASE CommitDead(h)
        <5>1. jobs'[j] = Flush(jobs[j], row, WithStatus(row, "dead")) /\ jobs[j] \in Row
          BY <1>a, <4>1, <4>2, <4>4 DEF CommitDead
        <5>2. jobs'[j].status = "dead"
          BY <4>2, <5>1 DEF Flush, WithStatus, Row, Active
        <5> QED
          BY <5>2 DEF Active
      <4> QED
        BY <2>3, <4>3, <4>4
    <3> QED
      BY <1>c, <2>3, <3>1 DEF CommitRequeue, CommitDead
  <2>4. CASE DuplicateDeadLetter(h)
    <3>1. handler[h].slot # s
      BY <1>b, <2>4 DEF DuplicateDeadLetter, Reportable, Active
    <3> QED
      BY <1>c, <2>4, <3>1 DEF DuplicateDeadLetter
  <2> QED
    BY <1>2, <2>1, <2>2, <2>3, <2>4 DEF ReportStep
<1>3. ASSUME NEW h \in Handler, PromoteStep(h) PROVE slot'[s].job = j
  <2>1. CASE CommitPromote(h)
    <3>1. handler[h].slot # s
      BY <1>b, <2>1 DEF CommitPromote, Custody, HandlerHolds, LoadHolds, Promoting, Active
    <3> QED
      BY <1>c, <2>1, <3>1 DEF CommitPromote
  <2>2. CASE ~ CommitPromote(h)
    BY <1>3, <2>2 DEF PromoteStep, ReadEdges, ReadDependent, CountRemaining
  <2> QED
    BY <2>1, <2>2
<1>4. ASSUME NEW h \in Handler, OperatorStep(h) PROVE slot'[s].job = j
  <2>1. handler[h].slot # s /\ Reply(h)
    BY <1>4, <1>b
    DEF OperatorStep, CommitCreate, DuplicateKey, CommitCancel, CommitRestart, Reporting, Promoting
  <2> QED
    BY <1>c, <2>1
<1>5. ASSUME NEW t \in Slot, SlotStep(t) PROVE slot'[s].job = j
  <2>1. CASE t # s
    BY <1>5, <1>a, <2>1
    DEF SlotStep, Poll, PostStart, PostReport, Send, TaskFails, ReportRefused
  <2>2. CASE t = s
    <3>1. execs[j] # <<>> \/ slot[s].pc \notin Reported
      BY DEF Reportable
    <3>2. ~ ReportRefused(s)
      BY <3>1 DEF ReportRefused, Reported
    <3>3. CASE TaskFails(s)
      BY <1>a, <3>3 DEF TaskFails, SlotState
    <3> QED
      BY <1>5, <1>a, <2>2, <3>2, <3>3 DEF SlotStep, Poll, PostStart, PostReport, Send
  <2> QED
    BY <2>1, <2>2
<1>6. CASE SchedulerStep
  BY <1>6 DEF SchedulerStep, ReadDueJobs, CommitDueJobs, ReadStuckJobs, CommitReap
<1>7. CASE OperatorRequest
  BY <1>7 DEF OperatorRequest, BeginCreate, BeginOperation, Drain, ListWorkers, SetPaused, PatchLimit
<1>8. CASE Clock
  BY <1>8 DEF Clock, TimePasses, Heartbeat, GoStale
<1>9. CASE Failure
  <2>1. ASSUME NEW w \in Worker, WorkerCrash(w) PROVE slot'[s].job = j
    BY <1>a, <2>1 DEF WorkerCrash
  <2>2. ASSUME NEW h \in Handler, LateRead(h) PROVE slot'[s].job = j
    BY <2>2 DEF LateRead
  <2> QED
    BY <1>9, <2>1, <2>2 DEF Failure, LoseReply, ApiCrash, DbError, TickError
<1> QED
  BY <1>1, <1>2, <1>3, <1>4, <1>5, <1>6, <1>7, <1>8, <1>9 DEF Next, HandlerStep

LEMMA AttachedStep ==
    ASSUME TypeInv, Custody, Attendance, Moves, Reportable, Faults = {}, Next,
           NEW j \in Job, Attached(j)
    PROVE  Attached(j)'
<1> SUFFICES ASSUME jobs'[j].status \in Active
             PROVE  \/ jobs'[j].owner \in Worker \ up'
                    \/ \E s \in Slot : slot'[s].job = j /\ WorkerOf[s] = jobs'[j].owner
  BY DEF Attached
<1>a. up' \subseteq up /\ \A s \in Slot : WorkerOf[s] \in Worker
  BY SlotAssumption DEF Moves, FleetMoves
<1>1. CASE jobs[j].status \in Active
  <2>1. jobs'[j].owner = jobs[j].owner
    BY <1>1, OwnerStays
  <2> QED
    BY <1>1, <1>a, <2>1, ThreadLetsGo DEF Attached
<1>2. CASE jobs[j].status \notin Active
  <2>1. PICK h \in Handler : WinClaim(h) /\ handler[h].job = j
    BY <1>2, ActiveByClaim
  <2>2. /\ jobs'[j].owner = handler[h].worker /\ up' = up /\ handler[h].worker \in Worker
        /\ \A s \in Slot : s = handler[h].slot => slot'[s].job = j
    BY <2>1 DEF WinClaim, ClaimAnswers, Claimed, TypeInv, TypeOK, Assigned, Row, HandlerState
  <2>3. \/ handler[h].worker \notin up
        \/ handler[h].slot \in Slot /\ handler[h].worker = WorkerOf[handler[h].slot]
    BY <2>1 DEF WinClaim, Custody, HandlerHolds, CallerWaits, TypeInv, TypeOK, HandlerState
  <2> QED
    BY <2>2, <2>3
<1> QED
  BY <1>1, <1>2

\* A CLAIMED or RUNNING job is in the hands of a thread of its owner, or its
\* owner is dead and the reaper will find it: no claim, start or report leaves
\* it with a live worker that does not work on it, and no report is refused.
\* (A lost answer or a statement that raises does: OrphanedRun.)
THEOREM NobodyForgets ==
    ASSUME Reliable, Faults = {}
    PROVE  Spec => []NothingForgotten
<1> DEFINE Inv == Reportable /\ \A j \in Job : Attached(j)
<1>1. Init => Inv
  <2> SUFFICES ASSUME Init PROVE Inv
    OBVIOUS
  <2>1. \A j \in Job : dlq[j] = "none" /\ jobs[j].status \notin Active
    BY DEF Init, NewRow, NoRow, Ready, Active
  <2>2. \A s \in Slot : slot[s].pc \notin Reported
    BY DEF Init, FreeSlot, Reported
  <2> QED
    BY <2>1, <2>2 DEF Reportable, Attached
<1>2. (TypeInv /\ Attendance /\ Custody) /\ (TypeInv /\ Attendance /\ Custody)' /\ Inv /\ [Next]_vars
      => Inv'
  <2> SUFFICES ASSUME TypeInv, Attendance, Custody, TypeInv', Inv, [Next]_vars PROVE Inv'
    OBVIOUS
  <2>1. CASE UNCHANGED vars
    BY <2>1 DEF vars, Reportable, Attached
  <2>2. CASE Next
    BY <2>2, MovesStep, ReportableStep, AttachedStep
  <2> QED
    BY <2>1, <2>2
<1>3. Inv => NothingForgotten
  BY DEF NothingForgotten, Attached
<1> QED
  BY <1>1, <1>2, <1>3, AnswersFindTheirThreads, CustodyKept, PTL DEF Spec

-----------------------------------------------------------------------------
(* The retry budget.                                                       *)

\* The history counts what the UPDATE of a claim counts.
LEMMA ClaimsMove ==
    ASSUME TypeInv, Next, NEW j \in Job
    PROVE  \/ claims'[j] = claims[j]
           \/ \E h \in Handler : WinClaim(h) /\ handler[h].job = j
<1> USE DEF tables, fleet, queues, history
<1>1. ASSUME NEW h \in Handler, HandlerStep(h), ~ WinClaim(h) PROVE claims' = claims
  <2>1. CASE ClaimStep(h)
    BY <1>1, <2>1 DEF ClaimStep, WithinLimit, AtLimit, LoseClaim
  <2>2. CASE ReportStep(h)
    BY <2>2 DEF ReportStep, CommitStart, CommitComplete, CommitRequeue, CommitDead, DuplicateDeadLetter
  <2>3. CASE PromoteStep(h)
    BY <2>3 DEF PromoteStep, ReadEdges, ReadDependent, CountRemaining, CommitPromote
  <2>4. CASE OperatorStep(h)
    BY <2>4 DEF OperatorStep, CommitCreate, DuplicateKey, CommitCancel, CommitRestart
  <2> QED
    BY <1>1, <2>1, <2>2, <2>3, <2>4 DEF HandlerStep
<1>2. ASSUME NEW s \in Slot, SlotStep(s) PROVE claims' = claims
  BY <1>2 DEF SlotStep, Poll, PostStart, PostReport, TaskFails, ReportRefused
<1>3. CASE SchedulerStep
  BY <1>3 DEF SchedulerStep, ReadDueJobs, CommitDueJobs, ReadStuckJobs, CommitReap
<1>4. CASE OperatorRequest
  BY <1>4 DEF OperatorRequest, BeginCreate, BeginOperation, Drain, ListWorkers, SetPaused, PatchLimit
<1>5. CASE Clock
  BY <1>5 DEF Clock, TimePasses, Heartbeat, GoStale
<1>6. CASE Failure
  BY <1>6 DEF Failure, WorkerCrash, LoseReply, LateRead, ApiCrash, DbError, TickError
<1>7. ASSUME NEW h \in Handler, WinClaim(h)
      PROVE  claims'[j] = claims[j] \/ handler[h].job = j
  BY <1>7 DEF WinClaim, TypeInv, TypeOK
<1> QED
  BY <1>1, <1>2, <1>3, <1>4, <1>5, <1>6, <1>7 DEF Next

\* Attempts are counted as claims are; a job that nobody has can be claimed
\* once more, and one that a worker has may be, if that worker is dead.
Allowed(j) == IF RetryLimit[j] = 0 THEN 1 ELSE RetryLimit[j]

Spent(j) ==
    LET n == jobs[j].attempt IN
    /\ claims[j] = n
    /\ ~ Present(j) => n = 0
    /\ IF jobs[j].owner = NULL THEN n < Allowed(j) + Cardinality(stale)
       ELSE n <= Allowed(j) + Cardinality(stale \ {jobs[j].owner})
    /\ \A h \in Handler : handler[h].op = "fail" /\ handler[h].job = j => handler[h].snap.attempt = n

\* The three ways a row and its claims change.
SameAttempt(j) ==
    /\ jobs'[j].attempt = jobs[j].attempt /\ claims'[j] = claims[j]
    /\ Present(j)' <=> Present(j)
    /\ jobs'[j].owner = jobs[j].owner

OneMore(j) ==
    /\ jobs'[j].attempt = jobs[j].attempt + 1 /\ claims'[j] = claims[j] + 1
    /\ jobs[j].owner = NULL /\ jobs'[j].owner \in Worker \ stale
    /\ UNCHANGED stale
    /\ \A h \in Handler : ~ (handler'[h].op = "fail" /\ handler'[h].job = j)
    /\ Present(j)'

LetGo(j) ==
    /\ jobs'[j].attempt = jobs[j].attempt /\ claims'[j] = claims[j]
    /\ jobs'[j].owner = NULL
    /\ UNCHANGED stale
    /\ ~ Present(j) => jobs[j].attempt = 0
    /\ \/ jobs[j].owner \in stale \cup {NULL}
       \/ jobs[j].attempt < RetryLimit[j]
    /\ Present(j)'

LEMMA AttemptsMove ==
    ASSUME TypeInv, Attendance, Presence, Orderly, Moves, Next,
           NEW j \in Job, Tenure(j), Spent(j)
    PROVE  SameAttempt(j) \/ OneMore(j) \/ LetGo(j)
<1> USE DEF tables, fleet, queues, history
<1>a. /\ handler \in [Handler -> HandlerState] /\ jobs \in [Job -> Row]
      /\ claims \in [Job -> Nat] /\ RowMoves(j) /\ NULL \notin Worker
  BY NullAssumption DEF TypeInv, TypeOK, Moves
<1>1. ASSUME NEW h \in Handler, WinClaim(h), handler[h].job = j PROVE OneMore(j)
  <2>1. jobs[j].owner = NULL /\ jobs[j].status = "queued"
    BY <1>1 DEF WinClaim, Claimable, Tenure, Taken
  <2>2. handler[h].worker \in Worker \ stale
    BY <1>1, <1>a DEF WinClaim, TypeInv, Assigned, HandlerState, Orderly
  <2>3. /\ jobs'[j] = Claimed(jobs[j], handler[h].worker) /\ jobs[j] \in Row
        /\ claims'[j] = claims[j] + 1 /\ UNCHANGED stale
    BY <1>1, <1>a DEF WinClaim
  <2>4. /\ jobs'[j].attempt = jobs[j].attempt + 1 /\ jobs'[j].owner = handler[h].worker
        /\ jobs'[j].status = "claimed"
    BY <2>3 DEF Claimed, Row
  <2>5. ASSUME NEW g \in Handler, handler'[g].op = "fail", handler'[g].job = j PROVE FALSE
    <3>1. handler[g].op = "fail" /\ handler[g].job = j
      BY <1>1, <1>a, <2>5 DEF WinClaim, Idle
    <3> QED
      BY <2>1, <3>1 DEF Tenure, FailHolds, Holds, Taken
  <2> QED
    BY <2>1, <2>2, <2>3, <2>4, <2>5 DEF OneMore, Present
<1> SUFFICES ASSUME \A h \in Handler : ~ (WinClaim(h) /\ handler[h].job = j)
             PROVE  SameAttempt(j) \/ LetGo(j)
  BY <1>1
<1>b. claims'[j] = claims[j]
  BY ClaimsMove
<1>c. Present(j)' <=> Present(j) \/ Inserts(j)
  BY PresentStays
<1>2. CASE MovesOn(j)
  <2>1. ~ Inserts(j) \/ Present(j)
    <3> SUFFICES ASSUME NEW h \in Handler, CommitCreate(h), handler[h].job = j,
                        ~ Present(j)
                 PROVE  FALSE
      BY DEF Inserts
    <3>1. jobs'[j].status \in {"blocked", "scheduled", "queued"}
      BY <1>a DEF CommitCreate, Presence
    <3> QED
      BY <1>2, <3>1 DEF MovesOn, Present
  <2> QED
    BY <1>2, <1>b, <1>c, <2>1 DEF MovesOn, SameAttempt
<1>3. ASSUME NEW h \in Handler, handler[h].job = j, CommitRequeue(h) PROVE LetGo(j)
  <2>1. PICK row \in Row : row = handler[h].snap
    BY <1>a DEF HandlerState
  <2>2. /\ handler[h].op = "fail" /\ row.attempt < RetryLimit[j] /\ UNCHANGED stale
        /\ jobs'[j] = FlushRunAt(jobs[j], row, Requeued(row), FALSE) /\ jobs[j] \in Row
    BY <1>3, <1>a, <2>1 DEF CommitRequeue, AttemptsLeft
  <2>3. row.attempt = jobs[j].attempt /\ row.owner = handler[h].worker /\ row.owner # NULL
    BY <1>3, <2>1, <2>2
    DEF Spent, Tenure, FailHolds, TypeInv, Assigned, Waiting
  <2>4. jobs'[j].attempt = jobs[j].attempt /\ jobs'[j].owner = NULL
    BY <2>2, <2>3 DEF FlushRunAt, Flush, Requeued, Row
  <2>5. Present(j)
    BY <1>3, <2>2 DEF Presence
  <2> QED
    BY <1>b, <1>c, <2>2, <2>3, <2>4, <2>5 DEF LetGo
<1>4. ASSUME NEW h \in Handler, handler[h].job = j, CommitCreate(h) PROVE LetGo(j)
  <2>1. /\ ~ Present(j) /\ jobs'[j].attempt = 0 /\ jobs'[j].owner = NULL /\ UNCHANGED stale
    BY <1>4, <1>a DEF CommitCreate, Presence
  <2>2. jobs[j].attempt = 0 /\ jobs[j].owner = NULL
    BY <2>1 DEF Spent, Tenure, Present, Taken
  <2>3. Inserts(j)
    BY <1>4 DEF Inserts
  <2> QED
    BY <1>b, <1>c, <2>1, <2>2, <2>3 DEF LetGo
<1>5. ASSUME j \in sched.batch, CommitDueJobs PROVE LetGo(j)
  <2>1. /\ jobs[j].owner = NULL /\ UNCHANGED stale
        /\ jobs'[j] = WithStatus(jobs[j], "queued") /\ jobs[j] \in Row
    BY <1>5, <1>a DEF CommitDueJobs, Tenure, BatchKnows
  <2>2. jobs'[j].attempt = jobs[j].attempt /\ jobs'[j].owner = NULL
    BY <2>1 DEF WithStatus, Row
  <2>3. Present(j)
    BY <1>5 DEF Presence
  <2> QED
    BY <1>b, <1>c, <2>1, <2>2, <2>3 DEF LetGo
<1>6. ASSUME j \in sched.batch, CommitReap PROVE LetGo(j)
  <2>1. /\ jobs[j].owner \in stale /\ UNCHANGED stale
        /\ jobs'[j] = [Requeued(jobs[j]) EXCEPT !.due = TRUE] /\ jobs[j] \in Row
    BY <1>6, <1>a DEF CommitReap, Tenure, BatchKnows
  <2>2. jobs'[j].attempt = jobs[j].attempt /\ jobs'[j].owner = NULL
    BY <2>1 DEF Requeued, Row
  <2>3. Present(j)
    BY <1>6 DEF Presence
  <2> QED
    BY <1>b, <1>c, <2>1, <2>2, <2>3 DEF LetGo
<1>7. \A h \in Handler : ~ CommitRestart(h) /\ handler[h].plan[j] = "keep"
  BY DEF CommitRestart, Orderly, Tenure
<1> QED
  BY <1>a, <1>2, <1>3, <1>4, <1>5, <1>6, <1>7 DEF RowMoves

\* A report of a failure knows the attempt: it is of the job's holder, whose
\* hold the next claim would have to end.
LEMMA FailsKnow ==
    ASSUME TypeInv, Moves, NEW j \in Job, Spent(j), jobs'[j].attempt = jobs[j].attempt,
           NEW h \in Handler, handler'[h].op = "fail", handler'[h].job = j
    PROVE  handler'[h].snap.attempt = jobs'[j].attempt
<1>1. CASE Stays(h)
  BY <1>1 DEF Stays, Spent
<1>2. CASE handler[h].op = "fail" /\ handler[h].job = j /\ handler'[h].snap = handler[h].snap
  BY <1>2 DEF Spent
<1>3. CASE handler'[h].snap = jobs[j]
  BY <1>3
<1> QED
  BY <1>1, <1>2, <1>3, FailsMove

LEMMA CountWorkers ==
    ASSUME IsFiniteSet(Worker), NEW X \in SUBSET Worker
    PROVE  /\ IsFiniteSet(X) /\ Cardinality(X) \in Nat
           /\ \A Y \in SUBSET X : Cardinality(Y) <= Cardinality(X)
           /\ \A w \in X : Cardinality(X \ {w}) = Cardinality(X) - 1
           /\ \A w : w \notin X => Cardinality(X \ {w}) = Cardinality(X)
<1>1. IsFiniteSet(X) /\ Cardinality(X) \in Nat
  BY FS_Subset, FS_CardinalityType
<1>2. \A Y \in SUBSET X : Cardinality(Y) <= Cardinality(X)
  BY <1>1, FS_Subset
<1>3. \A w \in X : Cardinality(X \ {w}) = Cardinality(X) - 1
  BY <1>1, FS_RemoveElement
<1>4. \A w : w \notin X => X \ {w} = X
  OBVIOUS
<1> QED
  BY <1>1, <1>2, <1>3, <1>4

LEMMA SpentStep ==
    ASSUME IsFiniteSet(Worker), TypeInv, TypeInv', Attendance, Presence, Orderly, Moves, Next,
           NEW j \in Job, Tenure(j), Spent(j)
    PROVE  Spent(j)'
<1> DEFINE n == jobs[j].attempt
           o == jobs[j].owner
           c == Cardinality(stale)
           d == Cardinality(stale \ {o})
           A == Allowed(j)
<1>a. /\ stale \subseteq Worker /\ stale' \subseteq Worker /\ stale \subseteq stale'
      /\ NULL \notin Worker
  BY NullAssumption DEF TypeInv, TypeOK, Moves, FleetMoves, Orderly
<1>b. /\ n \in Nat /\ A \in Nat /\ A >= 1 /\ RetryLimit[j] \in Nat /\ RetryLimit[j] <= A
  BY JobAssumption DEF TypeInv, TypeOK, Row, Allowed
<1>c. /\ c \in Nat /\ d \in Nat /\ d <= c /\ (o \in stale => d = c - 1)
  <2>1. stale \ {o} \in SUBSET stale /\ stale \ {o} \in SUBSET Worker
    BY <1>a
  <2> QED
    BY <1>a, <2>1, CountWorkers
<1>d. /\ claims[j] = n
      /\ ~ Present(j) => n = 0
      /\ o = NULL => n < A + c
      /\ o # NULL => n <= A + d
  BY DEF Spent
<1>e. ASSUME jobs'[j].attempt = n, claims'[j] = claims[j], ~ Present(j)' => n = 0,
             jobs'[j].owner = NULL => n < A + Cardinality(stale'),
             jobs'[j].owner # NULL => n <= A + Cardinality(stale' \ {jobs'[j].owner})
      PROVE  Spent(j)'
  <2>1. \A h \in Handler : handler'[h].op = "fail" /\ handler'[h].job = j
                           => handler'[h].snap.attempt = jobs'[j].attempt
    BY <1>e, FailsKnow
  <2> QED
    BY <1>d, <1>e, <2>1 DEF Spent, Allowed, Present
<1> HIDE DEF n, o, c, d, A
<1>1. CASE SameAttempt(j)
  <2> DEFINE c1 == Cardinality(stale')
             d1 == Cardinality(stale' \ {jobs'[j].owner})
  <2>1. jobs'[j].owner = o /\ jobs'[j].attempt = n /\ (~ Present(j)' => n = 0)
    BY <1>1, <1>d DEF SameAttempt, o, n
  <2>2. c <= c1 /\ c1 \in Nat
    BY <1>a, CountWorkers DEF c
  <2>3. d <= d1 /\ d1 \in Nat
    <3>1. /\ stale' \ {jobs'[j].owner} \in SUBSET Worker
          /\ stale \ {o} \in SUBSET (stale' \ {jobs'[j].owner})
      BY <1>a, <2>1
    <3> QED
      BY <3>1, CountWorkers DEF d
  <2> HIDE DEF c1, d1
  <2>4. /\ o = NULL => n < A + c1
        /\ o # NULL => n <= A + d1
    BY <1>b, <1>c, <1>d, <2>2, <2>3
  <2> QED
    BY <1>1, <1>e, <2>1, <2>4 DEF SameAttempt, c1, d1
<1>2. CASE OneMore(j)
  <2>1. /\ o = NULL /\ jobs'[j].attempt = n + 1 /\ claims'[j] = claims[j] + 1
        /\ jobs'[j].owner \in Worker /\ jobs'[j].owner \notin stale /\ stale' = stale
        /\ \A h \in Handler : ~ (handler'[h].op = "fail" /\ handler'[h].job = j)
        /\ Present(j)'
    BY <1>2 DEF OneMore, o, n
  <2>2. Cardinality(stale' \ {jobs'[j].owner}) = c
    BY <1>a, <2>1, CountWorkers DEF c
  <2>3. n + 1 <= A + c /\ claims'[j] = n + 1 /\ jobs'[j].owner # NULL
    BY <1>a, <1>b, <1>c, <1>d, <2>1
  <2> QED
    BY <2>1, <2>2, <2>3 DEF Spent, Allowed, Present, A
<1>3. CASE LetGo(j)
  <2>1. /\ jobs'[j].attempt = n /\ claims'[j] = claims[j] /\ jobs'[j].owner = NULL
        /\ stale' = stale /\ Present(j)'
        /\ o \in stale \cup {NULL} \/ n < RetryLimit[j]
    BY <1>3 DEF LetGo, o, n
  <2>2. n < A + c
    <3>1. CASE o = NULL
      BY <1>d, <3>1
    <3>2. CASE o \in stale
      BY <1>a, <1>b, <1>c, <1>d, <3>2
    <3>3. CASE n < RetryLimit[j]
      BY <1>b, <1>c, <3>3
    <3> QED
      BY <2>1, <3>1, <3>2, <3>3
  <2> QED
    BY <1>e, <2>1, <2>2 DEF c
<1> QED
  BY <1>1, <1>2, <1>3, AttemptsMove

\* No job is claimed more often than its retries and the crashes of workers
\* under it explain, whatever answers are lost and reports repeated or handled
\* late: an attempt is never counted twice, nor a retry granted twice.  The jobs
\* are independent (a dependent promoted twice runs again: DoublePromotion).
THEOREM BudgetDespiteFaults ==
    ASSUME Undisturbed, \A j \in Job : DependsOn[j] = {}, IsFiniteSet(Worker)
    PROVE  Spec => []ClaimsWithinBudget
<1> DEFINE Inv == \A j \in Job : Spent(j)
<1>1. Init => Presence /\ Inv
  <2> SUFFICES ASSUME Init, NEW j \in Job PROVE Spent(j)
    BY PresenceInit
  <2>1. /\ jobs[j].attempt = 0 /\ jobs[j].owner = NULL /\ claims[j] = 0 /\ stale = {}
        /\ \A h \in Handler : handler[h].op # "fail"
    BY DEF Init, NewRow, NoRow, Ready, Idle
  <2>2. Cardinality(stale) = 0 /\ Allowed(j) \in Nat /\ Allowed(j) >= 1
    BY <2>1, FS_EmptySet, JobAssumption DEF Allowed
  <2> QED
    BY <2>1, <2>2 DEF Spent
<1>2. /\ TypeInv /\ Attendance /\ Orderly /\ Tenured
      /\ (TypeInv /\ Attendance)' /\ Presence /\ Inv /\ [Next]_vars
      => (Presence /\ Inv)'
  <2> SUFFICES ASSUME TypeInv, Attendance, Orderly, Tenured, TypeInv', Presence, Inv, [Next]_vars
               PROVE  (Presence /\ Inv)'
    OBVIOUS
  <2>1. Moves /\ Presence'
    BY MovesStep, PresenceStep
  <2>2. ASSUME NEW j \in Job PROVE Spent(j)'
    <3>1. CASE UNCHANGED vars
      BY <3>1 DEF vars, Spent, Present
    <3>2. CASE Next
      BY <2>1, <3>2, SpentStep DEF Tenured
    <3> QED
      BY <3>1, <3>2
  <2> QED
    BY <2>1, <2>2
<1>3. TypeInv /\ Orderly /\ Inv => ClaimsWithinBudget
  <2> SUFFICES ASSUME TypeInv, Orderly, Inv, NEW j \in Job
               PROVE  claims[j] <= Allowed(j) + Cardinality(Worker \ up)
    BY DEF ClaimsWithinBudget, Allowed
  <2> DEFINE c == Cardinality(stale)
             d == Cardinality(stale \ {jobs[j].owner})
             e == Cardinality(Worker \ up)
  <2>1. /\ stale \in SUBSET (Worker \ up) /\ stale \ {jobs[j].owner} \in SUBSET (Worker \ up)
        /\ Worker \ up \in SUBSET Worker
    BY DEF Orderly, TypeInv, TypeOK
  <2>2. c \in Nat /\ d \in Nat /\ e \in Nat /\ c <= e /\ d <= e
    BY <2>1, CountWorkers
  <2>3. /\ claims[j] = jobs[j].attempt /\ claims[j] \in Nat /\ Allowed(j) \in Nat
        /\ jobs[j].attempt < Allowed(j) + c \/ jobs[j].attempt <= Allowed(j) + d
    BY JobAssumption DEF Spent, Allowed, TypeInv, TypeOK
  <2> HIDE DEF c, d, e
  <2>4. claims[j] <= Allowed(j) + e
    BY <2>2, <2>3
  <2> QED
    BY <2>4 DEF e
<1> QED
  BY <1>1, <1>2, <1>3, AnswersFindTheirThreads, TenureKept, PTL DEF Spec
=============================================================================
