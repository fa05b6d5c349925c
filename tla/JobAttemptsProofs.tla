------------------------- MODULE JobAttemptsProofs -------------------------
(***************************************************************************)
(* Proofs about the attempts of a job, under the assumptions of            *)
(* JobOwnershipProofs: it is claimed at most as often as its retries and   *)
(* the crashes under it allow, and a DEAD job has used up its attempts and *)
(* is in the dead letter queue (for any finite number of workers); each    *)
(* attempt has at most one execution row, which its own report closes.     *)
(***************************************************************************)
EXTENDS JobOwnershipProofs, FiniteSetTheorems

Waits == {"blocked", "scheduled", "queued"}

-----------------------------------------------------------------------------
(* The attempts: the inductive invariant.                                  *)

\* What max_retries allows: the first attempt is always made.
Allowed(j) == IF RetryLimit[j] = 0 THEN 1 ELSE RetryLimit[j]

\* Attempts so far: one is still allowed to a job in the queue, and one was
\* added for each worker that fell silent, but for the one that has the job now.
WithinBudget(j) ==
    LET row == jobs[j] IN
    /\ row.status = "absent" => row.attempt = 0
    /\ row.status \in Waits => row.attempt < Allowed(j) + Cardinality(stale)
    /\ row.status \in Active => row.attempt <= Allowed(j) + Cardinality(stale \ {row.owner})
    /\ row.status \in {"completed", "dead"} => row.attempt <= Allowed(j) + Cardinality(stale)

\* A report knows the attempt it is about, and a new row has made none.
SnapCounts(h) ==
    handler[h].op \in Reporting \cup {"create"}
    => handler[h].snap.attempt = jobs[handler[h].job].attempt

Counted ==
    /\ \A j \in Job : claims[j] = jobs[j].attempt
    /\ \A j \in Job : WithinBudget(j)
    /\ \A h \in Handler : SnapCounts(h)
    /\ DeadIsExplained

-----------------------------------------------------------------------------
(* What a step may do to a row.                                            *)

Kept(j) == jobs'[j].attempt = jobs[j].attempt /\ claims'[j] = claims[j]

Claims(j) ==
    /\ jobs[j].status = "queued" /\ jobs'[j].status = "claimed"
    /\ jobs'[j].owner \in Worker \ stale
    /\ jobs'[j].attempt = jobs[j].attempt + 1
    /\ claims'[j] = claims[j] + 1

Creates(j) ==
    /\ jobs[j].status = "absent" /\ jobs'[j].status \in Waits
    /\ Kept(j)

Ends(j) ==
    /\ jobs[j].status \in Active /\ jobs'[j].status \in {"completed", "dead"}
    /\ jobs'[j].status = "dead" => jobs[j].attempt >= RetryLimit[j] /\ dlq'[j] = "open"
    /\ Kept(j)

Requeues(j) ==
    /\ jobs[j].status \in Active /\ jobs'[j].status = "queued"
    /\ jobs[j].attempt < RetryLimit[j]
    /\ Kept(j)

Reaps(j) ==
    /\ jobs[j].status \in Active /\ jobs[j].owner \in stale /\ jobs'[j].status = "queued"
    /\ Kept(j)

\* Starting opens a row for the attempt, a report closes the latest row; either
\* way the handler is done with the job.
Opens(j) ==
    \E h \in Handler :
        /\ handler[h].op = "start" /\ handler[h].job = j /\ handler'[h].op = "idle"
        /\ execs'[j] = Append(execs[j], NewExecution(h))

Closes(j) ==
    \E h \in Handler, st \in {"completed", "failed"} :
        /\ handler[h].op \in {"complete", "fail"} /\ handler[h].job = j
        /\ handler'[h].op \in {"idle", "edges"}
        /\ execs' = FinishExecution(h, st)

Moves(j) ==
    \/ Unnoticed(j) /\ Kept(j) /\ (execs'[j] = execs[j] \/ Opens(j))
    \/ UNCHANGED stale /\ execs'[j] = execs[j] /\ (Claims(j) \/ Creates(j) \/ Reaps(j))
    \/ UNCHANGED stale /\ Closes(j) /\ (Ends(j) \/ Requeues(j))

\* Entries of the dead letter queue are never taken back.
EntriesStay == \A j \in Job : dlq[j] = "open" => dlq'[j] = "open"

\* A step that writes no row.
LEMMA NoRowMoves ==
    ASSUME UNCHANGED <<jobs, execs, dlq, claims>>
    PROVE  (\A j \in Job : Moves(j)) /\ EntriesStay
BY DEF Moves, Unnoticed, Same, Kept, EntriesStay

LEMMA MovesReport ==
    ASSUME TypeInv, Custody, Counted, NEW h \in Handler, ReportStep(h)
    PROVE  (\A j \in Job : Moves(j)) /\ EntriesStay
<1> USE DEF tables, fleet, queues, history
<1>a. handler[h].op \in Reporting
  BY DEF ReportStep, CommitStart, CommitComplete, CommitRequeue, CommitDead,
         DuplicateDeadLetter, Reporting
<1>b. PICK j, w, row : /\ j = handler[h].job /\ w = handler[h].worker /\ row = handler[h].snap
                       /\ j \in Job /\ w \in Worker /\ jobs[j] \in Row /\ row \in Row
                       /\ jobs[j].status \in Active /\ jobs[j].owner = w
                       /\ row.status \in Active /\ row.owner = w
  BY <1>a, ReportKnows
<1>c. /\ row.attempt = jobs[j].attempt /\ jobs \in [Job -> Row]
      /\ dlq \in [Job -> {"none", "open", "replayed"}]
  BY <1>a, <1>b DEF Counted, SnapCounts, TypeInv, TypeOK
\* Writing the row of the job only.
<1>d. ASSUME NEW new, jobs' = [jobs EXCEPT ![j] = new], UNCHANGED claims,
             \A k \in Job : k # j => execs'[k] = execs[k]
      PROVE  jobs'[j] = new /\ \A k \in Job : k # j => Moves(k)
  BY <1>b, <1>c, <1>d DEF Moves, Unnoticed, Same, Kept
<1>e. ASSUME NEW st \in {"completed", "failed"}, execs' = FinishExecution(h, st)
      PROVE  \A k \in Job : k # j => execs'[k] = execs[k]
  BY <1>b, <1>e DEF FinishExecution, TypeInv, TypeOK
<1>f. ASSUME Reply(h) PROVE handler'[h].op = "idle"
  BY <1>f DEF Reply, Idle, TypeInv, TypeOK
<1>1. CASE CommitStart(h)
  <2>1. PICK new : new = Flush(jobs[j], row, WithStatus(row, "running"))
    OBVIOUS
  <2>2. new.status \in Active /\ new.owner = w /\ new.attempt = jobs[j].attempt
    BY <1>b, <2>1 DEF Row, Flush, WithStatus, Active
  <2>3. /\ jobs' = [jobs EXCEPT ![j] = new] /\ UNCHANGED <<dlq, claims>>
        /\ execs' = [execs EXCEPT ![j] = Append(@, NewExecution(h))]
    BY <1>1, <1>b, <2>1 DEF CommitStart
  <2>4. /\ \A k \in Job : k # j => execs'[k] = execs[k]
        /\ Opens(j)
    BY <1>1, <1>b, <1>f, <2>3 DEF CommitStart, Opens, TypeInv, TypeOK
  <2>5. jobs'[j] = new /\ \A k \in Job : k # j => Moves(k)
    BY <1>d, <2>3, <2>4
  <2>6. Moves(j)
    BY <1>b, <2>2, <2>3, <2>4, <2>5 DEF Moves, Unnoticed, Kept
  <2> QED
    BY <2>3, <2>5, <2>6 DEF EntriesStay
<1>2. CASE CommitComplete(h)
  <2>1. PICK new : new = Flush(jobs[j], row, WithStatus(row, "completed"))
    OBVIOUS
  <2>2. new.status = "completed" /\ new.attempt = jobs[j].attempt
    BY <1>b, <2>1 DEF Row, Flush, WithStatus, Active
  <2>3. jobs' = [jobs EXCEPT ![j] = new] /\ UNCHANGED <<dlq, claims, stale>>
    BY <1>2, <1>b, <2>1 DEF CommitComplete
  <2>4. execs' = FinishExecution(h, "completed") /\ Closes(j)
    <3>1. execs' = FinishExecution(h, "completed") /\ handler'[h].op = "edges"
      BY <1>2 DEF CommitComplete, TypeInv, TypeOK, HandlerState
    <3> QED
      BY <1>2, <1>b, <3>1 DEF CommitComplete, Closes
  <2>5. jobs'[j] = new /\ \A k \in Job : k # j => Moves(k)
    BY <1>d, <1>e, <2>3, <2>4
  <2>6. Moves(j)
    BY <1>b, <2>2, <2>3, <2>4, <2>5 DEF Moves, Ends, Kept
  <2> QED
    BY <2>3, <2>5, <2>6 DEF EntriesStay
<1>3. CASE CommitRequeue(h)
  <2>1. PICK new : new = FlushRunAt(jobs[j], row, Requeued(row), FALSE)
    OBVIOUS
  <2>2. new.status = "queued" /\ new.attempt = jobs[j].attempt
    BY <1>b, <2>1 DEF Row, Flush, FlushRunAt, Requeued, Active
  <2>3. /\ jobs' = [jobs EXCEPT ![j] = new] /\ UNCHANGED <<dlq, claims, stale>>
        /\ row.attempt < RetryLimit[j]
    BY <1>3, <1>b, <2>1 DEF CommitRequeue, AttemptsLeft
  <2>4. execs' = FinishExecution(h, "failed") /\ Closes(j)
    BY <1>3, <1>b, <1>f DEF CommitRequeue, Closes
  <2>5. jobs'[j] = new /\ \A k \in Job : k # j => Moves(k)
    BY <1>d, <1>e, <2>3, <2>4
  <2>6. Moves(j)
    BY <1>b, <1>c, <2>2, <2>3, <2>4, <2>5 DEF Moves, Requeues, Kept
  <2> QED
    BY <2>3, <2>5, <2>6 DEF EntriesStay
<1>4. CASE CommitDead(h)
  <2>1. PICK new : new = Flush(jobs[j], row, WithStatus(row, "dead"))
    OBVIOUS
  <2>2. new.status = "dead" /\ new.attempt = jobs[j].attempt
    BY <1>b, <2>1 DEF Row, Flush, WithStatus, Active
  <2>3. /\ jobs' = [jobs EXCEPT ![j] = new] /\ UNCHANGED <<claims, stale>>
        /\ dlq' = [dlq EXCEPT ![j] = "open"]
        /\ ~ (row.attempt < RetryLimit[j])
    BY <1>4, <1>b, <2>1 DEF CommitDead, AttemptsLeft
  <2>4. jobs[j].attempt >= RetryLimit[j]
    <3>1. RetryLimit[j] \in Nat
      BY <1>b, JobAssumption
    <3>2. jobs[j].attempt \in Nat
      BY <1>b DEF Row
    <3> QED
      BY <1>c, <2>3, <3>1, <3>2
  <2>5. execs' = FinishExecution(h, "failed") /\ Closes(j)
    BY <1>4, <1>b, <1>f DEF CommitDead, Closes
  <2>6. jobs'[j] = new /\ \A k \in Job : k # j => Moves(k)
    BY <1>d, <1>e, <2>3, <2>5
  <2>7. Moves(j)
    BY <1>b, <1>c, <2>2, <2>3, <2>4, <2>5, <2>6 DEF Moves, Ends, Kept
  <2> QED
    BY <1>c, <2>3, <2>6, <2>7 DEF EntriesStay
<1>5. CASE DuplicateDeadLetter(h)
  BY <1>5, NoRowMoves DEF DuplicateDeadLetter
<1> QED
  BY <1>1, <1>2, <1>3, <1>4, <1>5 DEF ReportStep

LEMMA MovesHandler ==
    ASSUME TypeInv, Custody, Counted, NEW h \in Handler, HandlerStep(h)
    PROVE  (\A j \in Job : Moves(j)) /\ EntriesStay
<1> USE DEF tables, fleet, queues, history
<1>1. CASE WinClaim(h)
  <2>1. PICK j \in Job, w \in Worker : j = handler[h].job /\ w = handler[h].worker
    BY <1>1 DEF WinClaim, TypeInv, TypeOK, HandlerState, Assigned, Waiting
  <2>2. w \notin stale /\ jobs[j] \in Row
    BY <1>1, <2>1 DEF WinClaim, Custody, HandlerHolds, CallerWaits, TypeInv, TypeOK
  <2>3. PICK new : new = Claimed(jobs[j], w)
    OBVIOUS
  <2>4. new.status = "claimed" /\ new.owner = w /\ new.attempt = jobs[j].attempt + 1
    BY <2>2, <2>3 DEF Claimed, Row
  <2>5. /\ jobs[j].status = "queued" /\ jobs' = [jobs EXCEPT ![j] = new]
        /\ claims' = [claims EXCEPT ![j] = claims[j] + 1] /\ UNCHANGED <<execs, dlq, stale>>
    BY <1>1, <2>1, <2>3 DEF WinClaim, Claimable
  <2>6. Moves(j)
    BY <2>1, <2>2, <2>4, <2>5 DEF Moves, Claims, TypeInv, TypeOK
  <2>7. \A k \in Job : k # j => Moves(k)
    BY <2>5 DEF Moves, Unnoticed, Same, Kept, TypeInv, TypeOK
  <2> QED
    BY <2>5, <2>6, <2>7 DEF EntriesStay
<1>2. CASE ReportStep(h)
  BY <1>2, MovesReport
<1>3. CASE CommitPromote(h)
  <2> DEFINE plan == handler[h].plan
  <2>1. ASSUME NEW d \in Job PROVE Moves(d)
    <3>1. plan[d] \in {"keep", "queued", "scheduled"} /\ PlanHolds(h) /\ jobs[d] \in Row
      BY <1>3 DEF CommitPromote, TypeInv, TypeOK, HandlerState, Decision, Custody, HandlerHolds
    <3>2. CASE plan[d] = "keep"
      BY <1>3, <3>2 DEF CommitPromote, Moves, Unnoticed, Same, Kept
    <3>3. CASE plan[d] # "keep"
      <4>1. jobs'[d] = WithStatus(jobs[d], plan[d]) /\ jobs[d].status = "blocked"
            /\ UNCHANGED <<execs, claims>>
        BY <1>3, <3>1, <3>3 DEF CommitPromote, PlanHolds
      <4>2. jobs'[d].status = plan[d] /\ jobs'[d].attempt = jobs[d].attempt
        BY <3>1, <4>1 DEF WithStatus, Row
      <4> QED
        BY <3>1, <3>3, <4>1, <4>2 DEF Moves, Unnoticed, Kept
    <3> QED
      BY <3>2, <3>3
  <2> QED
    BY <1>3, <2>1 DEF CommitPromote, EntriesStay
<1>4. CASE CommitCreate(h)
  <2>1. PICK j, new : /\ j \in Job /\ j = handler[h].job /\ new = handler[h].snap
                      /\ jobs[j].status = "absent" /\ new.status \in Waits
                      /\ new.attempt = jobs[j].attempt
    BY <1>4 DEF CommitCreate, TypeInv, TypeOK, HandlerState, Assigned, Custody, HandlerHolds,
                LoadHolds, Counted, SnapCounts, Waits
  <2>2. jobs' = [jobs EXCEPT ![j] = new] /\ UNCHANGED <<execs, dlq, claims, stale>>
    BY <1>4, <2>1 DEF CommitCreate
  <2>3. Moves(j)
    BY <2>1, <2>2 DEF Moves, Creates, Kept, TypeInv, TypeOK
  <2>4. \A k \in Job : k # j => Moves(k)
    BY <2>2 DEF Moves, Unnoticed, Same, Kept, TypeInv, TypeOK
  <2> QED
    BY <2>2, <2>3, <2>4 DEF EntriesStay
<1>5. CASE CommitCancel(h) \/ CommitRestart(h)
  BY <1>5
  DEF CommitCancel, CommitRestart, Custody, HandlerHolds, CallerWaits, Claiming, Reporting,
      Promoting
<1>6. CASE ~ (WinClaim(h) \/ ReportStep(h) \/ CommitPromote(h) \/ OperatorStep(h))
  BY <1>6, NoRowMoves
  DEF HandlerStep, ClaimStep, WithinLimit, AtLimit, LoseClaim, PromoteStep, ReadEdges,
      ReadDependent, CountRemaining
<1>7. CASE DuplicateKey(h)
  BY <1>7, NoRowMoves DEF DuplicateKey
<1> QED
  BY <1>1, <1>2, <1>3, <1>4, <1>5, <1>6, <1>7 DEF OperatorStep

LEMMA MovesScheduler ==
    ASSUME TypeInv, Custody, SchedulerStep
    PROVE  (\A j \in Job : Moves(j)) /\ EntriesStay
<1> USE DEF tables, fleet, queues, history
<1>0. BatchHolds /\ jobs \in [Job -> Row]
  BY DEF Custody, TypeInv, TypeOK
<1>1. CASE ReadDueJobs \/ ReadStuckJobs
  BY <1>1, NoRowMoves DEF ReadDueJobs, ReadStuckJobs
<1>2. CASE CommitDueJobs
  <2>1. \A k \in Job : Moves(k)
    BY <1>0, <1>2 DEF CommitDueJobs, BatchHolds, WithStatus, Row, Moves, Unnoticed, Same, Kept
  <2> QED
    BY <1>2, <2>1 DEF CommitDueJobs, EntriesStay
<1>3. CASE CommitReap
  <2>1. ASSUME NEW k \in Job PROVE Moves(k)
    <3>1. CASE k \in sched.batch
      <4>1. jobs[k].status \in Active /\ jobs[k].owner \in stale /\ jobs[k] \in Row
        BY <1>0, <1>3, <3>1 DEF CommitReap, BatchHolds
      <4>2. jobs'[k] = [Requeued(jobs[k]) EXCEPT !.due = TRUE]
        BY <1>3, <3>1 DEF CommitReap
      <4>3. jobs'[k].status = "queued" /\ jobs'[k].attempt = jobs[k].attempt
        BY <4>1, <4>2 DEF Requeued, Row
      <4> QED
        BY <1>3, <4>1, <4>3 DEF CommitReap, Moves, Reaps, Kept
    <3>2. CASE k \notin sched.batch
      BY <1>3, <3>2 DEF CommitReap, Moves, Unnoticed, Same, Kept
    <3> QED
      BY <3>1, <3>2
  <2> QED
    BY <1>3, <2>1 DEF CommitReap, EntriesStay
<1> QED
  BY <1>1, <1>2, <1>3 DEF SchedulerStep

\* Every step makes one of these moves with each row.
LEMMA MovesStep ==
    ASSUME Reliable, TypeInv, Custody, Counted, [Next]_vars
    PROVE  (\A j \in Job : Moves(j)) /\ EntriesStay
<1> USE DEF tables, fleet, queues, history
<1>1. ASSUME NEW h \in Handler, HandlerStep(h) PROVE (\A j \in Job : Moves(j)) /\ EntriesStay
  BY <1>1, MovesHandler
<1>2. ASSUME NEW s \in Slot, SlotStep(s) PROVE (\A j \in Job : Moves(j)) /\ EntriesStay
  BY <1>2, NoRowMoves DEF SlotStep, Poll, PostStart, PostReport, TaskFails, ReportRefused
<1>3. CASE SchedulerStep
  BY <1>3, MovesScheduler
<1>4. CASE OperatorRequest
  BY <1>4, NoRowMoves DEF OperatorRequest, BeginCreate, BeginOperation, Drain, ListWorkers,
                          SetPaused, PatchLimit
<1>5. CASE Clock
  <2>1. ASSUME NEW j \in Job, TimePasses(j) PROVE (\A k \in Job : Moves(k)) /\ EntriesStay
    BY <2>1 DEF TimePasses, Moves, Unnoticed, Same, Kept, EntriesStay, TypeInv, TypeOK, Row
  <2> QED
    BY <1>5, <2>1, NoRowMoves DEF Clock, Heartbeat, GoStale
<1>6. CASE Failure
  BY <1>6, NoRowMoves
  DEF Failure, WorkerCrash, LoseReply, LateRead, DbError, ApiCrash, TickError
<1>7. CASE UNCHANGED vars
  BY <1>7, NoRowMoves DEF vars
<1> QED
  BY <1>1, <1>2, <1>3, <1>4, <1>5, <1>6, <1>7 DEF Next

-----------------------------------------------------------------------------
(* The budget.                                                             *)

\* Sets of workers are counted by natural numbers, and larger ones by larger.
LEMMA CountWorkers ==
    ASSUME IsFiniteSet(Worker), NEW X \in SUBSET Worker
    PROVE  /\ IsFiniteSet(X) /\ Cardinality(X) \in Nat
           /\ \A Y \in SUBSET X : Cardinality(Y) <= Cardinality(X)
           /\ \A w \in X : Cardinality(X \ {w}) = Cardinality(X) - 1
           /\ \A w : w \notin X => Cardinality(X \ {w}) = Cardinality(X)
<1>1. IsFiniteSet(X) /\ Cardinality(X) \in Nat
  BY FS_Subset, FS_CardinalityType
<1>2. \A Y \in SUBSET X : Cardinality(Y) <= Cardinality(X)
  BY <1>1, FS_Subset
<1>3. \A w \in X : Cardinality(X \ {w}) = Cardinality(X) - 1
  BY <1>1, FS_RemoveElement
<1>4. \A w : w \notin X => X \ {w} = X
  OBVIOUS
<1> QED
  BY <1>1, <1>2, <1>3, <1>4

LEMMA BudgetKept ==
    ASSUME IsFiniteSet(Worker), TypeInv, stale' \subseteq Worker, stale \subseteq stale',
           NEW j \in Job, WithinBudget(j), Moves(j)
    PROVE  WithinBudget(j)'
<1> DEFINE A == Allowed(j)
           n == jobs[j].attempt
           o == jobs[j].owner
           c == Cardinality(stale)
           d == Cardinality(stale \ {o})
<1>1. A \in Nat /\ A >= 1 /\ RetryLimit[j] \in Nat /\ RetryLimit[j] <= A
  BY JobAssumption DEF Allowed
<1>2. jobs[j] \in Row /\ n \in Nat /\ stale \subseteq Worker
  BY DEF TypeInv, TypeOK, Row
<1>3. c \in Nat /\ d \in Nat /\ d <= c /\ (o \in stale => d = c - 1)
  <2>1. stale \ {o} \in SUBSET stale
    OBVIOUS
  <2>2. stale \ {o} \in SUBSET Worker
    BY <1>2
  <2> QED
    BY <1>2, <2>1, <2>2, CountWorkers
<1>4. /\ n >= 0
      /\ jobs[j].status = "absent" => n = 0
      /\ jobs[j].status \in Waits => n < A + c
      /\ jobs[j].status \in Active => n <= A + d
      /\ jobs[j].status \in {"completed", "dead"} => n <= A + c
  BY <1>2 DEF WithinBudget
<1> HIDE DEF A, n, o, c, d
<1>5. CASE Unnoticed(j) /\ Kept(j)
  <2> DEFINE c1 == Cardinality(stale')
             d1 == Cardinality(stale' \ {jobs'[j].owner})
  <2>1. c1 \in Nat /\ c <= c1
    BY CountWorkers DEF c
  <2>2. d1 \in Nat /\ (jobs'[j].owner = jobs[j].owner => d <= d1)
    <3>1. stale' \ {jobs'[j].owner} \in SUBSET Worker
      OBVIOUS
    <3>2. jobs'[j].owner = o => stale \ {o} \in SUBSET (stale' \ {jobs'[j].owner})
      OBVIOUS
    <3> QED
      BY <3>1, <3>2, CountWorkers DEF d, o
  <2>3. jobs'[j].attempt = n
    BY <1>5 DEF Kept, n
  <2> HIDE DEF c1, d1
  <2>4. jobs'[j].status = "absent" => jobs'[j].attempt = 0
    BY <1>4, <1>5, <2>3 DEF Unnoticed, Same, Active
  <2>5. jobs'[j].status \in Waits => jobs'[j].attempt < A + c1
    <3>1. jobs'[j].status \in Waits => jobs[j].status \in Waits
      BY <1>5 DEF Unnoticed, Same, Active, Waits
    <3> QED
      BY <1>1, <1>2, <1>3, <1>4, <2>1, <2>3, <3>1 DEF n
  <2>6. jobs'[j].status \in Active => jobs'[j].attempt <= A + d1
    <3>1. jobs'[j].status \in Active => jobs[j].status \in Active
                                        /\ jobs'[j].owner = jobs[j].owner
      BY <1>5 DEF Unnoticed, Same, Active
    <3> QED
      BY <1>1, <1>2, <1>3, <1>4, <2>2, <2>3, <3>1 DEF n
  <2>7. jobs'[j].status \in {"completed", "dead"} => jobs'[j].attempt <= A + c1
    <3>1. jobs'[j].status \in {"completed", "dead"} => jobs[j].status \in {"completed", "dead"}
      BY <1>5 DEF Unnoticed, Same, Active
    <3> QED
      BY <1>1, <1>2, <1>3, <1>4, <2>1, <2>3, <3>1 DEF n
  <2> QED
    BY <2>4, <2>5, <2>6, <2>7 DEF WithinBudget, A, c1, d1, Allowed
<1>6. CASE UNCHANGED stale /\ Claims(j)
  <2>1. /\ jobs'[j].status = "claimed" /\ jobs'[j].attempt = n + 1 /\ n < A + c
        /\ jobs'[j].owner \notin stale
    BY <1>4, <1>6 DEF Claims, Waits, n
  <2>2. Cardinality(stale \ {jobs'[j].owner}) = c
    BY <1>2, <2>1, CountWorkers DEF c
  <2>3. n + 1 <= A + c
    BY <1>1, <1>2, <1>3, <2>1 DEF n
  <2> QED
    BY <1>6, <2>1, <2>2, <2>3 DEF WithinBudget, Active, Waits, A, Allowed
<1>7. CASE UNCHANGED stale /\ Creates(j)
  <2>1. jobs'[j].status \in Waits /\ jobs'[j].attempt = 0 /\ 0 < A + c
    BY <1>1, <1>3, <1>4, <1>7 DEF Creates, Kept, n
  <2> QED
    BY <1>7, <2>1 DEF WithinBudget, Active, Waits, A, c, Allowed
<1>8. CASE UNCHANGED stale /\ Ends(j)
  <2>1. jobs'[j].status \in {"completed", "dead"} /\ jobs'[j].attempt = n /\ n <= A + d
    BY <1>4, <1>8 DEF Ends, Kept, n
  <2>2. n <= A + c
    BY <1>1, <1>2, <1>3, <2>1 DEF n
  <2> QED
    BY <1>8, <2>1, <2>2 DEF WithinBudget, Active, Waits, A, c, Allowed
<1>9. CASE UNCHANGED stale /\ Requeues(j)
  <2>1. jobs'[j].status = "queued" /\ jobs'[j].attempt = n /\ n < RetryLimit[j]
    BY <1>9 DEF Requeues, Kept, n
  <2>2. n < A + c
    BY <1>1, <1>2, <1>3, <2>1 DEF n
  <2> QED
    BY <1>9, <2>1, <2>2 DEF WithinBudget, Active, Waits, A, c, Allowed
<1>10. CASE UNCHANGED stale /\ Reaps(j)
  <2>1. /\ jobs'[j].status = "queued" /\ jobs'[j].attempt = n /\ n <= A + d /\ d = c - 1
    BY <1>3, <1>4, <1>10 DEF Reaps, Kept, n, o
  <2>2. n < A + c
    BY <1>1, <1>2, <1>3, <2>1 DEF n
  <2> QED
    BY <1>10, <2>1, <2>2 DEF WithinBudget, Active, Waits, A, c, Allowed
<1> QED
  BY <1>5, <1>6, <1>7, <1>8, <1>9, <1>10 DEF Moves

\* Silence is for ever: the heartbeats of live workers are in time.
LEMMA StaleGrows ==
    ASSUME Reliable, TypeInv, Custody, [Next]_vars
    PROVE  stale \subseteq stale'
<1> USE DEF tables, fleet, queues, history
<1>1. ASSUME NEW w \in Worker, Heartbeat(w) PROVE stale \subseteq stale'
  BY <1>1 DEF Heartbeat, Custody, BatchHolds
<1>2. ASSUME NEW w \in Worker, GoStale(w) PROVE stale \subseteq stale'
  BY <1>2 DEF GoStale
<1>3. ASSUME NEW j \in Job, TimePasses(j) PROVE UNCHANGED stale
  BY <1>3 DEF TimePasses
<1>4. CASE Clock
  BY <1>1, <1>2, <1>3, <1>4 DEF Clock
<1>5. ASSUME NEW h \in Handler, HandlerStep(h) PROVE UNCHANGED stale
  BY <1>5
  DEF HandlerStep, ClaimStep, WithinLimit, AtLimit, WinClaim, LoseClaim, ReportStep,
      CommitStart, CommitComplete, CommitRequeue, CommitDead, DuplicateDeadLetter,
      PromoteStep, ReadEdges, ReadDependent, CountRemaining, CommitPromote,
      OperatorStep, CommitCreate, DuplicateKey, CommitCancel, CommitRestart
<1>6. ASSUME NEW s \in Slot, SlotStep(s) PROVE UNCHANGED stale
  BY <1>6 DEF SlotStep, Poll, PostStart, PostReport, TaskFails, ReportRefused
<1>7. ASSUME SchedulerStep \/ OperatorRequest PROVE UNCHANGED stale
  BY <1>7
  DEF SchedulerStep, ReadDueJobs, CommitDueJobs, ReadStuckJobs, CommitReap, OperatorRequest,
      BeginCreate, BeginOperation, Drain, ListWorkers, SetPaused, PatchLimit
<1>8. ASSUME Failure PROVE UNCHANGED stale
  BY <1>8 DEF Failure, WorkerCrash, LoseReply, LateRead, DbError, ApiCrash, TickError
<1> QED
  BY <1>4, <1>5, <1>6, <1>7, <1>8 DEF Next, vars

\* What a handler has loaded after a step: what it had, or a row as it is.
Loads(h) ==
    handler'[h].op \in Reporting \cup {"create"} =>
        \/ /\ handler[h].op \in Reporting \cup {"create"}
           /\ handler'[h].job = handler[h].job /\ handler'[h].snap = handler[h].snap
        \/ jobs' = jobs /\ handler'[h].snap.attempt = jobs[handler'[h].job].attempt

\* A handler that is unchanged, or is done.
LEMMA IdleLoads ==
    ASSUME NEW h \in Handler,
           handler'[h] = handler[h] \/ handler'[h].op \notin Reporting \cup {"create"}
    PROVE  Loads(h)
BY DEF Loads

LEMMA HandlerLoads ==
    ASSUME TypeInv, NEW g \in Handler, HandlerStep(g), NEW h \in Handler
    PROVE  Loads(h)
<1> USE DEF tables, fleet, queues, history
<1>0. handler \in [Handler -> HandlerState]
  BY DEF TypeInv, TypeOK
<1>1. ASSUME Reply(g) PROVE Loads(h)
  BY <1>0, <1>1, IdleLoads DEF Reply, Idle, Reporting
<1>2. CASE WinClaim(g)
  BY <1>0, <1>2, IdleLoads DEF WinClaim, Idle, Reporting
<1>3. CASE WithinLimit(g) \/ CommitComplete(g) \/ ReadEdges(g) \/ CountRemaining(g)
  BY <1>0, <1>3, IdleLoads
  DEF WithinLimit, CommitComplete, ReadEdges, CountRemaining, Reporting, HandlerState
<1>4. CASE ReadDependent(g)
  BY <1>0, <1>4, IdleLoads DEF ReadDependent, Reporting, HandlerState
<1> QED
  BY <1>1, <1>2, <1>3, <1>4
  DEF HandlerStep, ClaimStep, AtLimit, LoseClaim, ReportStep, CommitStart, CommitRequeue,
      CommitDead, DuplicateDeadLetter, PromoteStep, CommitPromote, OperatorStep, CommitCreate,
      DuplicateKey, CommitCancel, CommitRestart

\* A request that has just been read.
LEMMA FreshLoads ==
    ASSUME TypeInv, NEW g \in Handler, NEW request, handler' = [handler EXCEPT ![g] = request],
           jobs' = jobs,
           request.op \in Reporting \cup {"create"} =>
               request.snap.attempt = jobs[request.job].attempt,
           NEW h \in Handler
    PROVE  Loads(h)
<1>1. handler'[h] = IF h = g THEN request ELSE handler[h]
  BY DEF TypeInv, TypeOK
<1> QED
  BY <1>1 DEF Loads

LEMMA SlotLoads ==
    ASSUME TypeInv, NEW s \in Slot, SlotStep(s), NEW h \in Handler
    PROVE  Loads(h)
<1> USE DEF tables, fleet, queues, history
<1>a. slot[s].pc \notin {"free", "claim"} => slot[s].job \in Job
  BY NullAssumption DEF TypeInv, TypeOK, Assigned, SlotState
<1>1. ASSUME NEW g \in Handler, Poll(g, s) PROVE Loads(h)
  <2>1. PICK j : Send(g, s, "claim", NULL, Request("claim", j, s, NoRow))
    BY <1>1 DEF Poll
  <2>2. Request("claim", j, s, NoRow).op = "claim"
    BY DEF Request, Idle
  <2> QED
    BY <1>1, <2>1, <2>2, FreshLoads DEF Send, Reporting, Poll
<1>2. ASSUME NEW g \in Handler, PostStart(g, s) PROVE Loads(h)
  <2>1. PICK j, request : /\ j = slot[s].job /\ request = Request("start", j, s, jobs[j])
                          /\ handler' = [handler EXCEPT ![g] = request] /\ jobs' = jobs
    BY <1>2 DEF PostStart, Send
  <2>2. request.job = j /\ request.snap = jobs[j]
    BY <2>1 DEF Request, Idle
  <2> QED
    BY <2>1, <2>2, FreshLoads
<1>3. ASSUME NEW g \in Handler, PostReport(g, s) PROVE Loads(h)
  <2>1. PICK op, j, i, request :
           /\ op \in {"complete", "fail"} /\ j = slot[s].job /\ request = Report(op, j, s, i)
           /\ handler' = [handler EXCEPT ![g] = request] /\ jobs' = jobs
    <3>1. PICK op \in {"complete", "fail"}, i \in Latest(slot[s].job) :
             Send(g, s, op, slot[s].job, Report(op, slot[s].job, s, i)) /\ jobs' = jobs
      BY <1>3 DEF PostReport
    <3> QED
      BY <3>1 DEF Send
  <2>2. request.job = j /\ request.snap = jobs[j]
    BY <2>1 DEF Report, Request, Idle
  <2> QED
    BY <2>1, <2>2, FreshLoads
<1>4. CASE TaskFails(s) \/ ReportRefused(s)
  BY <1>4, IdleLoads DEF TaskFails, ReportRefused
<1> QED
  BY <1>1, <1>2, <1>3, <1>4 DEF SlotStep

LEMMA StepLoads ==
    ASSUME Reliable, TypeInv, TypeInv', Counted, [Next]_vars, NEW h \in Handler
    PROVE  Loads(h)
<1> USE DEF tables, fleet, queues, history
<1>0. handler \in [Handler -> HandlerState]
  BY DEF TypeInv, TypeOK
<1>1. ASSUME handler' = handler PROVE Loads(h)
  BY <1>1, IdleLoads
<1>2. ASSUME NEW g \in Handler, NEW j \in Job, BeginCreate(g, j) PROVE Loads(h)
  <2>1. PICK row, request : /\ row = NewRow(Remaining(j) # {}, j \notin Delayed)
                            /\ request = UserRequest("create", j, row)
                            /\ handler' = [handler EXCEPT ![g] = request]
                            /\ jobs' = jobs /\ jobs[j].status = "absent"
    BY <1>2 DEF BeginCreate
  <2>2. row.attempt = 0 /\ request.job = j /\ request.snap = row
    BY <2>1 DEF NewRow, NoRow, UserRequest, Idle
  <2>3. jobs[j].attempt = 0
    BY <2>1 DEF Counted, WithinBudget
  <2> QED
    BY <2>1, <2>2, <2>3, FreshLoads
<1>3. CASE OperatorRequest
  BY <1>1, <1>2, <1>3
  DEF OperatorRequest, BeginOperation, Reliable, Drain, ListWorkers, SetPaused, PatchLimit
<1>4. ASSUME NEW w \in Worker, WorkerCrash(w) PROVE Loads(h)
  BY <1>0, <1>4 DEF WorkerCrash, Loads, HandlerState
<1>5. ASSUME NEW g \in Handler, LateRead(g) PROVE Loads(h)
  <2>1. CASE h = g
    <3>1. PICK next : next = handler'[g]
      OBVIOUS
    <3>2. /\ next.op = handler[g].op /\ jobs' = jobs /\ next.op \in Waiting
          /\ next.op # "claim" => next.job = handler[g].job
                                  /\ next.snap = jobs[handler[g].job]
      BY <1>5, <3>1, LateReadLoads
    <3> QED
      BY <2>1, <3>1, <3>2 DEF Loads, Reporting, Waiting
  <2>2. CASE h # g
    BY <1>0, <1>5, <2>2, IdleLoads DEF LateRead
  <2> QED
    BY <2>1, <2>2
<1>6. ASSUME NEW g \in Handler, DbError(g) PROVE Loads(h)
  BY <1>0, <1>6, IdleLoads DEF DbError, Reply, Idle, Reporting
<1>7. CASE Failure
  BY <1>1, <1>4, <1>5, <1>6, <1>7 DEF Failure, LoseReply, ApiCrash, TickError, Reliable
<1>8. ASSUME SchedulerStep \/ Clock \/ UNCHANGED vars PROVE handler' = handler
  BY <1>8
  DEF SchedulerStep, ReadDueJobs, CommitDueJobs, ReadStuckJobs, CommitReap, Clock, TimePasses,
      Heartbeat, GoStale, vars
<1> QED
  BY <1>1, <1>3, <1>7, <1>8, HandlerLoads, SlotLoads DEF Next

LEMMA CountedInit == ASSUME IsFiniteSet(Worker) PROVE Init => Counted
<1> SUFFICES ASSUME Init PROVE Counted
  OBVIOUS
<1>1. Cardinality(stale) = 0
  BY FS_EmptySet DEF Init
<1>2. ASSUME NEW j \in Job
      PROVE  /\ jobs[j].status \in {"absent", "blocked", "scheduled", "queued"}
             /\ jobs[j].attempt = 0
  BY NewRowType DEF Init, NoRow, NewRow
<1>3. ASSUME NEW j \in Job PROVE Allowed(j) \in Nat /\ Allowed(j) >= 1
  BY JobAssumption DEF Allowed
<1>4. ASSUME NEW j \in Job PROVE WithinBudget(j)
  <2>1. jobs[j].attempt < Allowed(j) + Cardinality(stale)
    BY <1>1, <1>2, <1>3
  <2> QED
    BY <1>2, <2>1 DEF WithinBudget, Active
<1>5. \A h \in Handler : SnapCounts(h)
  BY DEF Init, Idle, SnapCounts, Reporting
<1>6. \A j \in Job : claims[j] = jobs[j].attempt
  BY <1>2 DEF Init
<1> QED
  BY <1>2, <1>4, <1>5, <1>6 DEF Counted, DeadIsExplained

LEMMA CountedStep ==
    ASSUME IsFiniteSet(Worker), Reliable, TypeInv, Custody, Counted, [Next]_vars
    PROVE  Counted'
<1>1. TypeInv' /\ stale \subseteq stale'
  BY TypeStep, StaleGrows
<1>2. EntriesStay /\ \A j \in Job : Moves(j)
  BY MovesStep
<1>3. ASSUME NEW j \in Job PROVE WithinBudget(j)'
  <2>1. stale' \subseteq Worker /\ WithinBudget(j)
    BY <1>1 DEF TypeInv, TypeOK, Counted
  <2> QED
    BY <1>1, <1>2, <2>1, BudgetKept
<1>4. ASSUME NEW j \in Job PROVE claims'[j] = jobs'[j].attempt
  BY <1>2 DEF Counted, Moves, Kept, Claims, Creates, Ends, Requeues, Reaps
\* Attempts change only for rows that no report and no creation is about.
<1>5. ASSUME NEW h \in Handler PROVE SnapCounts(h)'
  <2>1. Loads(h) /\ SnapCounts(h) /\ LoadHolds(h)
    BY <1>1, StepLoads DEF Counted, Custody, HandlerHolds
  <2>2. CASE /\ handler[h].op \in Reporting \cup {"create"}
             /\ handler'[h].job = handler[h].job /\ handler'[h].snap = handler[h].snap
    <3>1. PICK j \in Job : j = handler[h].job
      BY <2>2 DEF TypeInv, TypeOK, HandlerState, Assigned, Reporting
    <3>2. jobs[j].status # "queued"
      BY <2>1, <2>2, <3>1 DEF LoadHolds, With, Active
    <3>3. jobs'[j].attempt = jobs[j].attempt
      BY <1>2, <3>2 DEF Moves, Kept, Claims, Creates, Ends, Requeues, Reaps
    <3> QED
      BY <2>1, <2>2, <3>1, <3>3 DEF SnapCounts
  <2>3. CASE jobs' = jobs /\ handler'[h].snap.attempt = jobs[handler'[h].job].attempt
    BY <2>3 DEF SnapCounts
  <2> QED
    BY <2>1, <2>2, <2>3 DEF Loads, SnapCounts
<1>6. ASSUME NEW j \in Job, jobs'[j].status = "dead"
      PROVE  dlq'[j] = "open" /\ jobs'[j].attempt >= RetryLimit[j]
  <2>1. CASE Unnoticed(j) /\ Kept(j)
    <3>1. jobs[j].status = "dead" /\ jobs'[j].attempt = jobs[j].attempt
      BY <1>6, <2>1 DEF Unnoticed, Same, Kept, Active
    <3> QED
      BY <1>2, <3>1 DEF Counted, DeadIsExplained, EntriesStay
  <2>2. CASE Ends(j)
    BY <1>6, <2>2 DEF Ends, Kept
  <2> QED
    BY <1>2, <1>6, <2>1, <2>2 DEF Moves, Claims, Creates, Requeues, Reaps, Waits
<1> QED
  BY <1>3, <1>4, <1>5, <1>6 DEF Counted, DeadIsExplained

\* Attempts are counted as claims are made, a job's claims are within what
\* max_retries and the silent workers account for, and a job is DEAD for a
\* reason.
THEOREM AttemptsCounted ==
    ASSUME IsFiniteSet(Worker), Reliable
    PROVE  Spec => []Counted
<1>1. Init => TypeInv /\ Custody /\ Counted
  BY TypeInit, CustodyInit, CountedInit
<1>2. (TypeInv /\ Custody /\ Counted) /\ [Next]_vars => (TypeInv /\ Custody /\ Counted)'
  BY TypeStep, CustodyStep, CountedStep
<1> QED
  BY <1>1, <1>2, PTL DEF Spec

\* A job is claimed at most max_retries times (once when that is 0), plus once
\* for every worker that has crashed.
THEOREM ClaimsAreBounded ==
    ASSUME IsFiniteSet(Worker), Reliable
    PROVE  Spec => []ClaimsWithinBudget
<1>1. TypeInv /\ Custody /\ Counted => ClaimsWithinBudget
  <2> SUFFICES ASSUME TypeInv, Custody, Counted, NEW j \in Job
               PROVE  claims[j] <= Allowed(j) + Cardinality(Worker \ up)
    BY DEF ClaimsWithinBudget, Allowed
  <2> DEFINE c == Cardinality(stale)
             d == Cardinality(stale \ {jobs[j].owner})
             e == Cardinality(Worker \ up)
  <2>1. stale \in SUBSET (Worker \ up) /\ Worker \ up \in SUBSET Worker
    BY DEF TypeInv, TypeOK, Custody, BatchHolds
  <2>2. c \in Nat /\ d \in Nat /\ e \in Nat /\ d <= c /\ c <= e
    <3>1. stale \in SUBSET Worker /\ stale \ {jobs[j].owner} \in SUBSET stale
          /\ stale \ {jobs[j].owner} \in SUBSET Worker
      BY <2>1
    <3> QED
      BY <2>1, <3>1, CountWorkers
  <2>3. Allowed(j) \in Nat /\ Allowed(j) >= 1
    BY JobAssumption DEF Allowed
  <2>4. claims[j] = jobs[j].attempt /\ jobs[j].attempt \in Nat /\ jobs[j].status \in Status
    BY DEF Counted, TypeInv, TypeOK, Row
  <2> HIDE DEF c, d, e
  <2>5. claims[j] <= Allowed(j) + c
    <3>1. /\ jobs[j].status = "absent" => jobs[j].attempt = 0
          /\ jobs[j].status \in Waits => jobs[j].attempt < Allowed(j) + c
          /\ jobs[j].status \in Active => jobs[j].attempt <= Allowed(j) + d
          /\ jobs[j].status \in {"completed", "dead"} => jobs[j].attempt <= Allowed(j) + c
      BY DEF Counted, WithinBudget, c, d
    <3>2. jobs[j].status \in {"absent", "completed", "dead"} \cup Waits \cup Active
      BY <2>4 DEF Status, Waits, Active
    <3> QED
      BY <2>2, <2>3, <2>4, <3>1, <3>2
  <2> QED
    BY <2>2, <2>3, <2>4, <2>5 DEF e
<1> QED
  BY <1>1, TypeCorrect, CustodyKept, AttemptsCounted, PTL

\* A DEAD job has made all its attempts and has an entry in the dead letter
\* queue that can be replayed.
THEOREM DeadForAReason ==
    ASSUME IsFiniteSet(Worker), Reliable
    PROVE  Spec => []DeadIsExplained
<1>1. Counted => DeadIsExplained
  BY DEF Counted
<1> QED
  BY <1>1, AttemptsCounted, PTL

-----------------------------------------------------------------------------
(* The rows of job_executions: the inductive invariant.                    *)

\* Job j has no execution row for its present attempt yet.
NotStarted(j) == \A i \in DOMAIN execs[j] : execs[j][i].attempt < jobs[j].attempt

\* The rows of a job are of different attempts it has made, and one that a live
\* worker left RUNNING is of the attempt that worker has now.
RowsHold(j) ==
    /\ jobs[j].status \in Active => jobs[j].attempt >= 1
    /\ \A i, k \in DOMAIN execs[j] : execs[j][i].attempt = execs[j][k].attempt => i = k
    /\ \A i \in DOMAIN execs[j] :
          /\ execs[j][i].attempt \in 1..jobs[j].attempt
          /\ execs[j][i].status = "running" /\ execs[j][i].worker \in up
             => With(j, execs[j][i].worker) /\ execs[j][i].attempt = jobs[j].attempt

\* A start is of an attempt that has no row; a report knows the latest row as
\* it is.
RequestHolds(h) ==
    LET r == handler[h] IN
    /\ r.op = "start" => NotStarted(r.job)
    /\ r.op \in {"complete", "fail"} => /\ r.exec \in Latest(r.job)
                                        /\ r.seen = execs[r.job][r.exec].status

Recorded ==
    /\ \A j \in Job : RowsHold(j)
    /\ \A s \in Slot : slot[s].pc = "hold" => NotStarted(slot[s].job)
    /\ \A h \in Handler : RequestHolds(h)

-----------------------------------------------------------------------------
(* The requests and the threads after a step.                              *)

\* A start or a report after a step: it was there before, or has just been read.
Recalls(h) ==
    LET r == handler[h]
        q == handler'[h] IN
    /\ q.op = "start" =>
          \/ r.op = "start" /\ q.job = r.job
          \/ /\ UNCHANGED <<jobs, execs>>
             /\ \E s \in Slot : slot[s].pc = "hold" /\ slot[s].job = q.job
    /\ q.op \in {"complete", "fail"} =>
          \/ r.op = q.op /\ q.job = r.job /\ q.exec = r.exec /\ q.seen = r.seen
          \/ /\ UNCHANGED <<jobs, execs>>
             /\ q.exec \in Latest(q.job) /\ q.seen = execs[q.job][q.exec].status

LEMMA IdleRecalls ==
    ASSUME NEW h \in Handler,
           handler'[h] = handler[h] \/ handler'[h].op \notin Reporting
    PROVE  Recalls(h)
BY DEF Recalls, Reporting

LEMMA HandlerRecalls ==
    ASSUME TypeInv, NEW g \in Handler, HandlerStep(g), NEW h \in Handler
    PROVE  Recalls(h)
<1> USE DEF tables, fleet, queues, history
<1>0. handler \in [Handler -> HandlerState]
  BY DEF TypeInv, TypeOK
<1>1. ASSUME Reply(g) PROVE Recalls(h)
  BY <1>0, <1>1, IdleRecalls DEF Reply, Idle, Reporting
<1>2. CASE WinClaim(g)
  BY <1>0, <1>2, IdleRecalls DEF WinClaim, Idle, Reporting
<1>3. CASE WithinLimit(g) \/ CommitComplete(g) \/ ReadEdges(g) \/ CountRemaining(g)
  BY <1>0, <1>3, IdleRecalls
  DEF WithinLimit, CommitComplete, ReadEdges, CountRemaining, Reporting, HandlerState
<1>4. CASE ReadDependent(g)
  BY <1>0, <1>4, IdleRecalls DEF ReadDependent, Reporting, HandlerState
<1> QED
  BY <1>1, <1>2, <1>3, <1>4
  DEF HandlerStep, ClaimStep, AtLimit, LoseClaim, ReportStep, CommitStart, CommitRequeue,
      CommitDead, DuplicateDeadLetter, PromoteStep, CommitPromote, OperatorStep, CommitCreate,
      DuplicateKey, CommitCancel, CommitRestart

\* A request that has just been sent.
LEMMA FreshRecalls ==
    ASSUME TypeInv, NEW g \in Handler, NEW request, handler' = [handler EXCEPT ![g] = request],
           UNCHANGED <<jobs, execs>>,
           request.op = "start" => \E s \in Slot : slot[s].pc = "hold"
                                                   /\ slot[s].job = request.job,
           request.op \in {"complete", "fail"} =>
               /\ request.exec \in Latest(request.job)
               /\ request.seen = execs[request.job][request.exec].status,
           NEW h \in Handler
    PROVE  Recalls(h)
<1>1. handler'[h] = IF h = g THEN request ELSE handler[h]
  BY DEF TypeInv, TypeOK
<1> QED
  BY <1>1 DEF Recalls

LEMMA SlotRecalls ==
    ASSUME TypeInv, NEW s \in Slot, SlotStep(s), NEW h \in Handler
    PROVE  Recalls(h)
<1> USE DEF tables, fleet, queues, history
<1>1. ASSUME NEW g \in Handler, Poll(g, s) PROVE Recalls(h)
  <2>1. PICK j : Send(g, s, "claim", NULL, Request("claim", j, s, NoRow))
    BY <1>1 DEF Poll
  <2>2. Request("claim", j, s, NoRow).op = "claim"
    BY DEF Request, Idle
  <2> QED
    BY <1>1, <2>1, <2>2, FreshRecalls DEF Send, Poll
<1>2. ASSUME NEW g \in Handler, PostStart(g, s) PROVE Recalls(h)
  <2>1. PICK j, request : /\ j = slot[s].job /\ request = Request("start", j, s, jobs[j])
                          /\ handler' = [handler EXCEPT ![g] = request]
                          /\ UNCHANGED <<jobs, execs>> /\ slot[s].pc = "hold"
    BY <1>2 DEF PostStart, Send
  <2>2. request.job = slot[s].job /\ request.op = "start"
    BY <2>1 DEF Request, Idle
  <2> QED
    BY <2>1, <2>2, FreshRecalls
<1>3. ASSUME NEW g \in Handler, PostReport(g, s) PROVE Recalls(h)
  <2>1. PICK op, j, i, request :
           /\ op \in {"complete", "fail"} /\ i \in Latest(j) /\ request = Report(op, j, s, i)
           /\ handler' = [handler EXCEPT ![g] = request] /\ UNCHANGED <<jobs, execs>>
    <3>1. PICK op \in {"complete", "fail"}, i \in Latest(slot[s].job) :
             /\ Send(g, s, op, slot[s].job, Report(op, slot[s].job, s, i))
             /\ UNCHANGED <<jobs, execs>>
      BY <1>3 DEF PostReport
    <3> QED
      BY <3>1 DEF Send
  <2>2. /\ request.op = op /\ request.job = j /\ request.exec = i
        /\ request.seen = execs[j][i].status
    BY <2>1 DEF Report, Request, Idle
  <2> QED
    BY <2>1, <2>2, FreshRecalls
<1>4. CASE TaskFails(s) \/ ReportRefused(s)
  BY <1>4, IdleRecalls DEF TaskFails, ReportRefused
<1> QED
  BY <1>1, <1>2, <1>3, <1>4 DEF SlotStep

LEMMA LateReadRecalls ==
    ASSUME TypeInv, NEW g \in Handler, LateRead(g), NEW h \in Handler
    PROVE  Recalls(h)
<1> USE DEF tables, fleet, queues, history
<1> DEFINE r == handler[g]
<1>0. handler \in [Handler -> HandlerState] /\ r \in HandlerState
  BY DEF TypeInv, TypeOK
<1>1. CASE h # g
  BY <1>0, <1>1, IdleRecalls DEF LateRead
<1>2. CASE h = g /\ r.op \in {"claim", "start"}
  <2>1. \/ r.op = "claim" /\ \E k : handler' = [handler EXCEPT ![g].job = k]
        \/ r.op = "start" /\ handler' = [handler EXCEPT ![g].snap = jobs[r.job]]
    <3>1. CASE r.op = "claim"
      BY <3>1 DEF LateRead
    <3>2. CASE r.op = "start"
      BY <3>2 DEF LateRead
    <3> QED
      BY <1>2, <3>1, <3>2
  <2>2. handler'[g].op = r.op /\ (r.op = "start" => handler'[g].job = r.job)
    BY <1>0, <2>1 DEF HandlerState
  <2> QED
    BY <1>2, <2>1, <2>2 DEF Recalls
<1>3. CASE h = g /\ r.op \in {"complete", "fail"}
  <2>1. PICK i \in Latest(r.job) :
           /\ handler' = [handler EXCEPT ![g].snap = jobs[r.job], ![g].exec = i,
                                         ![g].seen = execs[r.job][i].status]
           /\ UNCHANGED <<jobs, execs>>
    BY <1>3 DEF LateRead
  <2>2. handler'[g] = [r EXCEPT !.snap = jobs[r.job], !.exec = i,
                                !.seen = execs[r.job][i].status]
    BY <1>0, <2>1
  <2>3. /\ handler'[g].op = r.op /\ handler'[g].job = r.job /\ handler'[g].exec = i
        /\ handler'[g].seen = execs[r.job][i].status
    BY <1>0, <2>2 DEF HandlerState
  <2> QED
    BY <1>3, <2>1, <2>3 DEF Recalls
<1> QED
  BY <1>0, <1>1, <1>2, <1>3 DEF LateRead, Waiting

LEMMA StepRecalls ==
    ASSUME Reliable, TypeInv, [Next]_vars, NEW h \in Handler
    PROVE  Recalls(h)
<1> USE DEF tables, fleet, queues, history
<1>0. handler \in [Handler -> HandlerState]
  BY DEF TypeInv, TypeOK
<1>1. ASSUME handler' = handler PROVE Recalls(h)
  BY <1>1, IdleRecalls
<1>2. ASSUME NEW g \in Handler, NEW j \in Job, BeginCreate(g, j) PROVE Recalls(h)
  <2>1. PICK row, request : request = UserRequest("create", j, row)
                            /\ handler' = [handler EXCEPT ![g] = request]
    BY <1>2 DEF BeginCreate
  <2>2. request.op = "create"
    BY <2>1 DEF UserRequest, Idle
  <2> QED
    BY <1>0, <2>1, <2>2, IdleRecalls DEF Reporting
<1>3. CASE OperatorRequest
  BY <1>1, <1>2, <1>3
  DEF OperatorRequest, BeginOperation, Reliable, Drain, ListWorkers, SetPaused, PatchLimit
<1>4. ASSUME NEW w \in Worker, WorkerCrash(w) PROVE Recalls(h)
  BY <1>0, <1>4 DEF WorkerCrash, Recalls, HandlerState
<1>5. ASSUME NEW g \in Handler, DbError(g) PROVE Recalls(h)
  BY <1>0, <1>5, IdleRecalls DEF DbError, Reply, Idle, Reporting
<1>6. CASE Failure
  BY <1>1, <1>4, <1>5, <1>6, LateReadRecalls
  DEF Failure, LoseReply, ApiCrash, TickError, Reliable
<1>7. ASSUME SchedulerStep \/ Clock \/ UNCHANGED vars PROVE handler' = handler
  BY <1>7
  DEF SchedulerStep, ReadDueJobs, CommitDueJobs, ReadStuckJobs, CommitReap, Clock, TimePasses,
      Heartbeat, GoStale, vars
<1> QED
  BY <1>1, <1>3, <1>6, <1>7, HandlerRecalls, SlotRecalls DEF Next

\* A thread that holds a claim after a step held it before, or has just won it.
Holds(s) ==
    slot'[s].pc = "hold" =>
        \/ slot'[s] = slot[s]
        \/ /\ slot'[s].job \in Job /\ UNCHANGED execs
           /\ jobs'[slot'[s].job].attempt = jobs[slot'[s].job].attempt + 1

LEMMA AnswerHolds ==
    ASSUME TypeInv, NEW h \in Handler, Reply(h), NEW s \in Slot
    PROVE  Holds(s)
<1>1. slot'[s] = slot[s] \/ slot'[s] = AfterReply(slot[s])
  BY DEF Reply
<1>2. slot[s] \in SlotState
  BY DEF TypeInv, TypeOK
<1>3. AfterReply(slot[s]).pc # "hold"
  BY <1>2 DEF AfterReply, FreeSlot, SlotState
<1> QED
  BY <1>1, <1>3 DEF Holds

LEMMA HandlerSlots ==
    ASSUME TypeInv, NEW h \in Handler, HandlerStep(h), NEW s \in Slot
    PROVE  Holds(s)
<1> USE DEF tables, fleet, queues, history
<1>1. CASE WinClaim(h)
  <2>1. PICK j, w : j \in Job /\ j = handler[h].job /\ w = handler[h].worker
    BY <1>1 DEF WinClaim, TypeInv, TypeOK, HandlerState, Assigned, Waiting
  <2>2. jobs[j] \in Row /\ jobs' = [jobs EXCEPT ![j] = Claimed(jobs[j], w)]
    BY <1>1, <2>1 DEF WinClaim, TypeInv, TypeOK
  <2>3. jobs'[j].attempt = jobs[j].attempt + 1
    BY <2>1, <2>2 DEF Claimed, Row, TypeInv, TypeOK
  <2>4. slot'[s] = slot[s] \/ slot'[s].job = j \/ slot'[s] = FreeSlot
    BY <1>1, <2>1 DEF WinClaim, ClaimAnswers
  <2> QED
    BY <1>1, <2>1, <2>3, <2>4 DEF WinClaim, Holds, FreeSlot
<1>2. ASSUME slot' = slot PROVE Holds(s)
  BY <1>2 DEF Holds
<1> QED
  BY <1>1, <1>2, AnswerHolds
  DEF HandlerStep, ClaimStep, WithinLimit, AtLimit, LoseClaim, ReportStep, CommitStart,
      CommitComplete, CommitRequeue, CommitDead, DuplicateDeadLetter, PromoteStep, ReadEdges,
      ReadDependent, CountRemaining, CommitPromote, OperatorStep, CommitCreate, DuplicateKey,
      CommitCancel, CommitRestart

LEMMA StepHolds ==
    ASSUME Reliable, TypeInv, [Next]_vars, NEW s \in Slot
    PROVE  Holds(s)
<1> USE DEF tables, fleet, queues, history
<1>0. slot \in [Slot -> SlotState]
  BY DEF TypeInv, TypeOK
<1>1. ASSUME slot' = slot PROVE Holds(s)
  BY <1>1 DEF Holds
<1>2. ASSUME NEW t \in Slot, SlotStep(t) PROVE Holds(s)
  BY <1>0, <1>2
  DEF SlotStep, Poll, PostStart, PostReport, TaskFails, ReportRefused, Send, FreeSlot, Holds,
      SlotState
<1>3. ASSUME NEW w \in Worker, WorkerCrash(w) PROVE Holds(s)
  BY <1>3 DEF WorkerCrash, FreeSlot, Holds
<1>4. ASSUME NEW g \in Handler, DbError(g) PROVE Holds(s)
  BY <1>4, AnswerHolds DEF DbError
<1>5. CASE Failure
  BY <1>1, <1>3, <1>4, <1>5 DEF Failure, LoseReply, LateRead, ApiCrash, TickError, Reliable
<1>6. ASSUME SchedulerStep \/ OperatorRequest \/ Clock \/ UNCHANGED vars PROVE slot' = slot
  BY <1>6
  DEF SchedulerStep, ReadDueJobs, CommitDueJobs, ReadStuckJobs, CommitReap, Clock, TimePasses,
      Heartbeat, GoStale, vars, OperatorRequest, BeginCreate, BeginOperation, Drain,
      ListWorkers, SetPaused, PatchLimit
<1> QED
  BY <1>1, <1>2, <1>5, <1>6, HandlerSlots DEF Next

\* Workers do not come back.
LEMMA NoneJoins == ASSUME [Next]_vars PROVE up' \subseteq up
<1> USE DEF tables, fleet, queues, history
<1>1. ASSUME NEW h \in Handler, HandlerStep(h) PROVE up' = up
  BY <1>1
  DEF HandlerStep, ClaimStep, WithinLimit, AtLimit, WinClaim, LoseClaim, ReportStep,
      CommitStart, CommitComplete, CommitRequeue, CommitDead, DuplicateDeadLetter,
      PromoteStep, ReadEdges, ReadDependent, CountRemaining, CommitPromote,
      OperatorStep, CommitCreate, DuplicateKey, CommitCancel, CommitRestart
<1>2. ASSUME NEW s \in Slot, SlotStep(s) PROVE up' = up
  BY <1>2 DEF SlotStep, Poll, PostStart, PostReport, TaskFails, ReportRefused
<1>3. ASSUME SchedulerStep \/ OperatorRequest \/ Clock PROVE up' = up
  BY <1>3
  DEF SchedulerStep, ReadDueJobs, CommitDueJobs, ReadStuckJobs, CommitReap, Clock, TimePasses,
      Heartbeat, GoStale, OperatorRequest, BeginCreate, BeginOperation, Drain, ListWorkers,
      SetPaused, PatchLimit
<1>4. ASSUME Failure PROVE up' \subseteq up
  BY <1>4 DEF Failure, WorkerCrash, LoseReply, LateRead, DbError, ApiCrash, TickError
<1> QED
  BY <1>1, <1>2, <1>3, <1>4 DEF Next, vars

-----------------------------------------------------------------------------
(* Rows and attempts that a step must leave alone.                         *)

Untouched(j) == execs'[j] = execs[j] /\ jobs'[j].attempt = jobs[j].attempt

\* A request that goes on being a start or a report keeps its job untouched.
LEMMA QuietRequest ==
    ASSUME TypeInv, Custody, NEW h \in Handler, handler[h].op \in Reporting,
           handler'[h].op = handler[h].op, \A j \in Job : Moves(j)
    PROVE  Untouched(handler[h].job)
<1>1. PICK j \in Job : j = handler[h].job
  BY ReportKnows
<1>2. jobs[j].status \in Active /\ jobs[j].owner \notin stale
  BY <1>1, ReportKnows
  DEF Custody, HandlerHolds, CallerWaits, Reporting
<1>3. ~ Opens(j) /\ ~ Closes(j)
  <2>1. ASSUME NEW g \in Handler, handler[g].op \in Reporting, handler[g].job = j,
               handler'[g].op \in {"idle", "edges"}
        PROVE  FALSE
    BY <1>1, <2>1 DEF Custody, HandledOnce, Apart, Reporting
  <2> QED
    BY <2>1 DEF Opens, Closes, Reporting
<1> QED
  BY <1>1, <1>2, <1>3 DEF Untouched, Moves, Kept, Claims, Creates, Reaps, Active

\* So does a thread that holds a claim and has not posted the start.
LEMMA QuietThread ==
    ASSUME TypeInv, Custody, NEW s \in Slot, slot[s].pc = "hold", \A j \in Job : Moves(j)
    PROVE  Untouched(slot[s].job)
<1>1. PICK j \in Job : j = slot[s].job
  BY DEF TypeInv, TypeOK, SlotState, Assigned
<1>2. With(j, WorkerOf[s]) /\ WorkerOf[s] \in up /\ WorkerOf[s] \notin stale
  BY <1>1, NullAssumption DEF Custody, SlotHolds, BatchHolds
<1>3. ~ Opens(j) /\ ~ Closes(j)
  <2>1. ASSUME NEW g \in Handler, handler[g].op \in Reporting, handler[g].job = j
        PROVE  FALSE
    <3>1. s = handler[g].slot
      BY <1>1, <2>1, ReportedJob DEF Ours, Alone
    <3>2. slot[s].pc = handler[g].op
      BY <2>1, <3>1, SlotAssumption
      DEF Custody, HandlerHolds, CallerWaits, PcOf, Claiming, Reporting, Promoting
    <3> QED
      BY <2>1, <3>2 DEF Reporting
  <2> QED
    BY <2>1 DEF Opens, Closes, Reporting
<1> QED
  BY <1>1, <1>2, <1>3 DEF Untouched, Moves, Kept, Claims, Creates, Reaps, Active, With

-----------------------------------------------------------------------------
(* Each kind of step keeps the rows of a job.                              *)

\* The rows do not change, and the row of the job does not move to or from a
\* worker that is alive.
LEMMA RowsStay ==
    ASSUME TypeInv, NEW j \in Job, RowsHold(j), Untouched(j), up' \subseteq up,
           jobs'[j].status \in Active => jobs[j].status \in Active,
           \A w \in up : With(j, w) => With(j, w)'
    PROVE  RowsHold(j)'
BY DEF RowsHold, Untouched

LEMMA RowsOpen ==
    ASSUME TypeInv, Custody, Counted, Recorded, up' \subseteq up, NEW j \in Job,
           Unnoticed(j), Kept(j), Opens(j)
    PROVE  RowsHold(j)'
<1>1. PICK h, w, n, new :
         /\ h \in Handler /\ handler[h].op = "start" /\ handler[h].job = j
         /\ w = handler[h].worker /\ n = jobs[j].attempt
         /\ new = [worker |-> w, attempt |-> n, status |-> "running"]
         /\ execs'[j] = Append(execs[j], new)
  <2>1. PICK h \in Handler : /\ handler[h].op = "start" /\ handler[h].job = j
                             /\ execs'[j] = Append(execs[j], NewExecution(h))
    BY DEF Opens
  <2>2. handler[h].snap.attempt = jobs[j].attempt
    BY <2>1 DEF Counted, SnapCounts, Reporting
  <2> QED
    BY <2>1, <2>2 DEF NewExecution
<1>2. With(j, w) /\ With(j, w)' /\ jobs'[j].attempt = n
  BY <1>1 DEF Custody, HandlerHolds, LoadHolds, Reporting, With, Unnoticed, Same, Kept, Active
<1>3. n \in Nat /\ n >= 1 /\ execs[j] \in Seq(Execution)
  BY <1>1, <1>2 DEF With, Recorded, RowsHold, TypeInv, TypeOK, Row
<1>4. RowsHold(j) /\ NotStarted(j)
  BY <1>1 DEF Recorded, RequestHolds
<1>5. PICK rows, l : rows = execs[j] /\ l = Len(rows)
  OBVIOUS
<1>6. /\ l \in Nat /\ DOMAIN rows = 1..l
      /\ DOMAIN execs'[j] = 1..(l + 1)
      /\ execs'[j][l + 1] = new
      /\ \A i \in 1..l : execs'[j][i] = rows[i]
  BY <1>1, <1>3, <1>5
<1>7. \A i \in 1..(l + 1) : i = l + 1 \/ i \in 1..l
  BY <1>6
<1>8. \A i \in 1..l : /\ rows[i].attempt < n /\ rows[i].attempt \in 1..n
                      /\ \A k \in 1..l : rows[i].attempt = rows[k].attempt => i = k
                      /\ ~ (rows[i].status = "running" /\ rows[i].worker \in up)
  <2> SUFFICES ASSUME NEW i \in 1..l
               PROVE  /\ rows[i].attempt < n /\ rows[i].attempt \in 1..n
                      /\ \A k \in 1..l : rows[i].attempt = rows[k].attempt => i = k
                      /\ ~ (rows[i].status = "running" /\ rows[i].worker \in up)
    OBVIOUS
  <2>1. rows[i].attempt < n
    BY <1>1, <1>4, <1>5, <1>6 DEF NotStarted
  <2>2. /\ rows[i].attempt \in 1..n
        /\ \A k \in 1..l : rows[i].attempt = rows[k].attempt => i = k
        /\ rows[i].status = "running" /\ rows[i].worker \in up => rows[i].attempt = n
    BY <1>1, <1>4, <1>5, <1>6 DEF RowsHold
  <2> QED
    BY <1>3, <2>1, <2>2
<1>9. new.attempt = n /\ new.worker = w /\ n \in 1..n /\ ~ (n < n)
  BY <1>1, <1>3
<1>10. ASSUME NEW i \in 1..(l + 1), NEW k \in 1..(l + 1),
              execs'[j][i].attempt = execs'[j][k].attempt
       PROVE  i = k
  BY <1>6, <1>7, <1>8, <1>9, <1>10
<1>11. ASSUME NEW i \in 1..(l + 1)
       PROVE  /\ execs'[j][i].attempt \in 1..n
              /\ execs'[j][i].status = "running" /\ execs'[j][i].worker \in up
                 => execs'[j][i].attempt = n /\ execs'[j][i].worker = w
  BY <1>6, <1>7, <1>8, <1>9
<1> QED
  BY <1>2, <1>3, <1>6, <1>10, <1>11 DEF RowsHold

\* The rows after a report: one status has changed.
LEMMA ReportedRows ==
    ASSUME TypeInv, NEW h \in Handler, NEW j \in Job, j = handler[h].job,
           NEW st, execs' = FinishExecution(h, st), NEW e, e = handler[h].exec,
           e \in DOMAIN execs[j], handler[h].seen = execs[j][e].status
    PROVE  /\ DOMAIN execs'[j] = DOMAIN execs[j]
           /\ \A i \in DOMAIN execs[j] : /\ execs'[j][i].attempt = execs[j][i].attempt
                                         /\ execs'[j][i].worker = execs[j][i].worker
                                         /\ i # e => execs'[j][i] = execs[j][i]
           /\ execs'[j][e].status = st
<1>1. PICK rows, row : rows = execs[j] /\ row = rows[e]
  OBVIOUS
<1>2. /\ execs'[j] = [rows EXCEPT ![e].status =
                         IF handler[h].seen # st THEN st ELSE @]
      /\ rows \in Seq(Execution)
  BY <1>1 DEF FinishExecution, TypeInv, TypeOK
<1>3. execs'[j] = [rows EXCEPT ![e] = [row EXCEPT !.status = st]]
  <2>1. row.status # st => execs'[j] = [rows EXCEPT ![e] = [row EXCEPT !.status = st]]
    BY <1>1, <1>2
  <2>2. row.status = st => execs'[j] = [rows EXCEPT ![e] = [row EXCEPT !.status = st]]
    BY <1>1, <1>2
  <2> QED
    BY <2>1, <2>2
<1>4. row \in Execution
  <2>1. e \in 1..Len(rows) /\ rows \in [1..Len(rows) -> Execution]
    BY <1>1, <1>2
  <2> QED
    BY <1>1, <2>1
<1>5. /\ DOMAIN execs'[j] = DOMAIN rows
      /\ execs'[j][e] = [row EXCEPT !.status = st]
      /\ \A i \in DOMAIN rows : i # e => execs'[j][i] = rows[i]
  BY <1>1, <1>2, <1>3
<1>6. PICK new : new = [row EXCEPT !.status = st]
  OBVIOUS
<1>7. new.attempt = row.attempt /\ new.worker = row.worker /\ new.status = st
  BY <1>4, <1>6 DEF Execution
<1>8. execs'[j][e] = new
  BY <1>5, <1>6
<1>9. ASSUME NEW i \in DOMAIN rows
      PROVE  /\ execs'[j][i].attempt = rows[i].attempt
             /\ execs'[j][i].worker = rows[i].worker
             /\ i # e => execs'[j][i] = rows[i]
  <2>1. CASE i = e
    BY <1>1, <1>7, <1>8, <2>1
  <2>2. CASE i # e
    BY <1>5, <2>2
  <2> QED
    BY <2>1, <2>2
<1>10. DOMAIN execs'[j] = DOMAIN execs[j]
  BY <1>1, <1>5
<1>11. execs'[j][e].status = st
  BY <1>7, <1>8
<1>12. \A i \in DOMAIN execs[j] : /\ execs'[j][i].attempt = execs[j][i].attempt
                                  /\ execs'[j][i].worker = execs[j][i].worker
                                  /\ i # e => execs'[j][i] = execs[j][i]
  BY <1>1, <1>9
<1> QED
  BY <1>10, <1>11, <1>12

LEMMA RowsClose ==
    ASSUME TypeInv, Custody, Counted, Recorded, up' \subseteq up, NEW j \in Job,
           Closes(j), Kept(j), jobs'[j].status \notin Active
    PROVE  RowsHold(j)'
<1>1. PICK h, st, e :
         /\ h \in Handler /\ st \in {"completed", "failed"} /\ handler[h].op \in {"complete", "fail"} /\ handler[h].job = j
         /\ e = handler[h].exec /\ execs' = FinishExecution(h, st)
  BY DEF Closes
<1>2. /\ e \in Latest(j) /\ handler[h].seen = execs[j][e].status
      /\ e \in DOMAIN execs[j]
      /\ \A k \in DOMAIN execs[j] : execs[j][e].attempt >= execs[j][k].attempt
  BY <1>1 DEF Recorded, RequestHolds, Latest
<1>3. /\ DOMAIN execs'[j] = DOMAIN execs[j]
      /\ \A i \in DOMAIN execs[j] : /\ execs'[j][i].attempt = execs[j][i].attempt
                                    /\ execs'[j][i].worker = execs[j][i].worker
                                    /\ i # e => execs'[j][i] = execs[j][i]
      /\ execs'[j][e].status = st
  BY <1>1, <1>2, ReportedRows
<1>4. RowsHold(j) /\ jobs'[j].attempt = jobs[j].attempt
  BY DEF Recorded, Kept
\* A row left RUNNING by a live worker is of the present attempt: the latest.
<1>5. ASSUME NEW i \in DOMAIN execs[j], execs[j][i].status = "running", execs[j][i].worker \in up
      PROVE  i = e
  <2>1. /\ execs[j][i].attempt = jobs[j].attempt
        /\ execs[j][e].attempt \in 1..jobs[j].attempt
        /\ jobs[j].attempt \in Nat
    BY <1>2, <1>4, <1>5 DEF RowsHold, TypeInv, TypeOK, Row
  <2>2. execs[j][e].attempt = execs[j][i].attempt
    BY <1>2, <2>1
  <2> QED
    BY <1>2, <1>4, <2>2 DEF RowsHold
<1>6. ASSUME NEW i \in DOMAIN execs'[j]
      PROVE  ~ (execs'[j][i].status = "running" /\ execs'[j][i].worker \in up')
  BY <1>1, <1>3, <1>5
<1>7. /\ \A i, k \in DOMAIN execs'[j] : execs'[j][i].attempt = execs'[j][k].attempt => i = k
      /\ \A i \in DOMAIN execs'[j] : execs'[j][i].attempt \in 1..jobs'[j].attempt
  BY <1>3, <1>4 DEF RowsHold
<1> QED
  BY <1>6, <1>7 DEF RowsHold

LEMMA RowsStep ==
    ASSUME Reliable, TypeInv, Custody, Counted, Recorded, [Next]_vars, NEW j \in Job
    PROVE  RowsHold(j)'
<1>1. up' \subseteq up /\ Moves(j) /\ RowsHold(j) /\ jobs[j] \in Row
  BY NoneJoins, MovesStep DEF Recorded, TypeInv, TypeOK
<1>2. CASE Unnoticed(j) /\ Kept(j) /\ execs'[j] = execs[j]
  BY <1>1, <1>2, RowsStay DEF Unnoticed, Same, Kept, Untouched, With, Active
<1>3. CASE Unnoticed(j) /\ Kept(j) /\ Opens(j)
  BY <1>1, <1>3, RowsOpen
<1>4. CASE execs'[j] = execs[j] /\ Claims(j)
  <2>1. /\ jobs'[j].attempt = jobs[j].attempt + 1 /\ jobs[j].attempt \in Nat
        /\ jobs[j].status \notin Active
    BY <1>1, <1>4 DEF Claims, Row, Active
  <2>2. \A i \in DOMAIN execs[j] : execs[j][i].attempt \in 1..jobs'[j].attempt
    BY <1>1, <2>1 DEF RowsHold
  <2>3. \A i \in DOMAIN execs[j] : ~ (execs[j][i].status = "running" /\ execs[j][i].worker \in up)
    BY <1>1, <2>1 DEF RowsHold, With
  <2>4. jobs'[j].attempt >= 1
    BY <2>1
  <2> QED
    BY <1>1, <1>4, <2>2, <2>3, <2>4 DEF RowsHold
<1>5. CASE execs'[j] = execs[j] /\ Creates(j)
  BY <1>1, <1>5, RowsStay DEF Creates, Kept, Untouched, With, Active, Waits
<1>6. CASE execs'[j] = execs[j] /\ Reaps(j)
  BY <1>1, <1>6, RowsStay DEF Reaps, Kept, Untouched, With, Active, Custody, BatchHolds
<1>7. CASE Closes(j) /\ (Ends(j) \/ Requeues(j))
  BY <1>1, <1>7, RowsClose DEF Ends, Requeues, Active
<1> QED
  BY <1>1, <1>2, <1>3, <1>4, <1>5, <1>6, <1>7 DEF Moves

-----------------------------------------------------------------------------
LEMMA RecordedInit == Init => Recorded
<1> SUFFICES ASSUME Init PROVE Recorded
  OBVIOUS
<1>1. ASSUME NEW j \in Job
      PROVE  jobs[j].status \notin Active /\ execs[j] = <<>>
  BY <1>1, NewRowType DEF Init, NoRow, NewRow, Active
<1>2. ASSUME NEW j \in Job PROVE RowsHold(j)
  <2>1. \A i \in DOMAIN execs[j] : FALSE
    BY <1>1
  <2> QED
    BY <1>1, <2>1 DEF RowsHold
<1>3. \A s \in Slot : slot[s].pc = "free"
  BY DEF Init, FreeSlot
<1>4. \A h \in Handler : handler[h].op = "idle"
  BY DEF Init, Idle
<1> QED
  BY <1>2, <1>3, <1>4 DEF Recorded, RequestHolds

LEMMA RecordedStep ==
    ASSUME Reliable, TypeInv, Custody, Counted, Recorded, [Next]_vars
    PROVE  Recorded'
<1>0. TypeInv' /\ \A j \in Job : Moves(j)
  BY TypeStep, MovesStep
<1>1. \A j \in Job : RowsHold(j)'
  BY RowsStep
<1>2. ASSUME NEW s \in Slot, slot'[s].pc = "hold" PROVE NotStarted(slot[s].job)'
  <2>1. CASE slot'[s] = slot[s]
    <3>1. PICK j : j = slot[s].job
      OBVIOUS
    <3>2. Untouched(j) /\ NotStarted(j)
      BY <1>0, <1>2, <2>1, <3>1, QuietThread DEF Recorded
    <3>3. NotStarted(j)'
      BY <3>2 DEF Untouched, NotStarted
    <3> QED
      BY <2>1, <3>1, <3>3
  <2>2. CASE /\ slot'[s].job \in Job /\ UNCHANGED execs
             /\ jobs'[slot'[s].job].attempt = jobs[slot'[s].job].attempt + 1
    <3>1. PICK j \in Job : j = slot'[s].job
      BY <2>2
    <3>2. jobs[j].attempt \in Nat /\ RowsHold(j)
      BY DEF Recorded, TypeInv, TypeOK, Row
    <3>3. \A i \in DOMAIN execs[j] : execs[j][i].attempt < jobs[j].attempt + 1
      BY <3>2 DEF RowsHold
    <3>4. NotStarted(j)'
      BY <2>2, <3>1, <3>3 DEF NotStarted
    <3> QED
      BY <3>1, <3>4
  <2> QED
    BY <1>2, <2>1, <2>2, StepHolds DEF Holds
<1>3. ASSUME NEW h \in Handler, handler'[h].op = "start" PROVE NotStarted(handler[h].job)'
  <2>1. PICK j : j = handler'[h].job
    OBVIOUS
  <2>2. CASE handler[h].op = "start" /\ j = handler[h].job
    <3>1. Untouched(j) /\ NotStarted(j)
      BY <1>0, <1>3, <2>2, QuietRequest DEF Reporting, Recorded, RequestHolds
    <3>2. NotStarted(j)'
      BY <3>1 DEF Untouched, NotStarted
    <3> QED
      BY <2>1, <3>2
  <2>3. CASE UNCHANGED <<jobs, execs>> /\ \E s \in Slot : slot[s].pc = "hold" /\ slot[s].job = j
    <3>1. NotStarted(j)'
      BY <2>3 DEF Recorded, NotStarted
    <3> QED
      BY <2>1, <3>1
  <2> QED
    BY <1>3, <2>1, <2>2, <2>3, StepRecalls DEF Recalls
<1>4. ASSUME NEW h \in Handler, handler'[h].op \in {"complete", "fail"} PROVE RequestHolds(h)'
  <2>1. PICK j, e, st : j = handler'[h].job /\ e = handler'[h].exec /\ st = handler'[h].seen
    OBVIOUS
  <2>2. /\ execs'[j] = execs[j]
        /\ e \in Latest(j) /\ st = execs[j][e].status
    <3>1. CASE /\ handler[h].op = handler'[h].op /\ j = handler[h].job
               /\ e = handler[h].exec /\ st = handler[h].seen
      BY <1>0, <1>4, <3>1, QuietRequest DEF Reporting, Recorded, RequestHolds, Untouched
    <3>2. CASE UNCHANGED <<jobs, execs>> /\ e \in Latest(j) /\ st = execs[j][e].status
      BY <3>2
    <3> QED
      BY <1>4, <2>1, <3>1, <3>2, StepRecalls DEF Recalls
  <2>3. e \in Latest(j)' /\ st = execs'[j][e].status
    BY <2>2 DEF Latest
  <2> QED
    BY <1>4, <2>1, <2>3 DEF RequestHolds
<1>5. \A h \in Handler : RequestHolds(h)'
  BY <1>3, <1>4 DEF RequestHolds
<1> QED
  BY <1>1, <1>2, <1>5 DEF Recorded

\* The execution rows of a job are of different attempts; a job claimed and not
\* started has none for the attempt, and a report is about the latest.
THEOREM ExecutionsRecorded ==
    ASSUME IsFiniteSet(Worker), Reliable
    PROVE  Spec => []Recorded
<1>1. Init => TypeInv /\ Custody /\ Counted /\ Recorded
  BY TypeInit, CustodyInit, CountedInit, RecordedInit
<1>2. (TypeInv /\ Custody /\ Counted /\ Recorded) /\ [Next]_vars
      => (TypeInv /\ Custody /\ Counted /\ Recorded)'
  BY TypeStep, CustodyStep, CountedStep, RecordedStep
<1> QED
  BY <1>1, <1>2, PTL DEF Spec

\* Each attempt has at most one execution row, and the attempt is one the job
\* has reached: mark_running never opens a second row for a claim.
THEOREM OneRowPerAttempt ==
    ASSUME IsFiniteSet(Worker), Reliable
    PROVE  Spec => []OneExecutionPerAttempt
<1>1. Recorded => OneExecutionPerAttempt
  BY DEF Recorded, RowsHold, OneExecutionPerAttempt
<1> QED
  BY <1>1, ExecutionsRecorded, PTL

\* A job that no worker has keeps no execution row RUNNING, but those of
\* workers that crashed: a report closes the row of its own attempt.
THEOREM ExecutionsAreClosed ==
    ASSUME IsFiniteSet(Worker), Reliable
    PROVE  Spec => []NoExecutionLeftOpen
<1>1. Recorded => NoExecutionLeftOpen
  BY DEF Recorded, RowsHold, NoExecutionLeftOpen, With
<1> QED
  BY <1>1, ExecutionsRecorded, PTL
=============================================================================
