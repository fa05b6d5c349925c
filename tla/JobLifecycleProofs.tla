------------------------- MODULE JobLifecycleProofs -------------------------
(***************************************************************************)
(* Proofs about JobLifecycle for every value of its constants: any number  *)
(* of jobs, workers, executor threads and API threads, any dependencies,   *)
(* every failure and every operator request at once.                       *)
(***************************************************************************)
EXTENDS JobProperties, SequenceTheorems, TLAPS

-----------------------------------------------------------------------------
(* Lemmas on the operators of JobTable.                                    *)

LEMMA RowOperators ==
    ASSUME NEW row \in Row
    PROVE  /\ \A st \in Status : WithStatus(row, st) \in Row
           /\ Requeued(row) \in Row
           /\ Restarted(row) \in Row
           /\ \A w \in Worker \cup {NULL} : Claimed(row, w) \in Row
           /\ \A due \in BOOLEAN : [Requeued(row) EXCEPT !.due = due] \in Row
<1>1. \A st \in Status : WithStatus(row, st) \in Row
  BY DEF Row, WithStatus
<1>2. Requeued(row) \in Row
  BY DEF Row, Requeued, Status
<1>3. Restarted(row) \in Row
  BY <1>2 DEF Row, Restarted
<1>4. \A w \in Worker \cup {NULL} : Claimed(row, w) \in Row
  <2> TAKE w \in Worker \cup {NULL}
  <2>1. row.attempt + 1 \in Nat
    BY DEF Row
  <2> QED
    BY <2>1 DEF Row, Claimed, Status
<1>5. \A due \in BOOLEAN : [Requeued(row) EXCEPT !.due = due] \in Row
  BY <1>2 DEF Row
<1> QED
  BY <1>1, <1>2, <1>3, <1>4, <1>5

LEMMA NewRowType ==
    ASSUME NEW unmet \in BOOLEAN, NEW due \in BOOLEAN
    PROVE  /\ NewRow(unmet, due) \in Row
           /\ NewRow(unmet, due).status = IF unmet THEN "blocked" ELSE Ready(due)
           /\ Ready(due) \in {"queued", "scheduled"}
BY DEF Row, NewRow, NoRow, Ready, Status

\* What a session's commit leaves in a row: a type-correct row whose status is
\* the one assigned, or the stored one when the session did not change it.
LEMMA FlushRow ==
    ASSUME NEW cur \in Row, NEW old \in Row, NEW new \in Row
    PROVE  /\ Flush(cur, old, new) \in Row
           /\ Flush(cur, old, new).status \in {cur.status, new.status}
           /\ \A due \in BOOLEAN : /\ FlushRunAt(cur, old, new, due) \in Row
                                   /\ FlushRunAt(cur, old, new, due).status
                                        \in {cur.status, new.status}
BY DEF Row, Flush, FlushRunAt

\* Replacing one element keeps a sequence a sequence; outside its domain
\* nothing changes.
LEMMA SeqExcept ==
    ASSUME NEW S, NEW seq \in Seq(S), NEW i, NEW e
    PROVE  /\ i \notin DOMAIN seq => [seq EXCEPT ![i] = e] = seq
           /\ e \in S => [seq EXCEPT ![i] = e] \in Seq(S)
<1>1. i \notin DOMAIN seq => [seq EXCEPT ![i] = e] = seq
  OBVIOUS
<1>2. ASSUME e \in S, i \in DOMAIN seq
      PROVE  [seq EXCEPT ![i] = e] \in Seq(S)
  <2>1. i \in 1..Len(seq)
    BY <1>2
  <2> QED
    BY <1>2, <2>1, ExceptSeq
<1> QED
  BY <1>1, <1>2

-----------------------------------------------------------------------------
(* Type correctness, by groups of variables.                               *)

TablesType == /\ jobs \in [Job -> Row]
              /\ execs \in [Job -> Seq(Execution)]
              /\ dlq \in [Job -> {"none", "open", "replayed"}]

ThreadsType == /\ handler \in [Handler -> HandlerState]
               /\ slot \in [Slot -> SlotState]
               /\ Assigned

FleetType == /\ up \subseteq Worker /\ stale \subseteq Worker /\ draining \subseteq Worker
             /\ paused \subseteq Queue
             /\ limit \in [Queue -> Nat]
             /\ sched \in SchedState

HistoryType == /\ claims \in [Job -> Nat]
               /\ everDone \subseteq Job /\ forced \subseteq Job

LEMMA TypeParts == TypeInv <=> TablesType /\ ThreadsType /\ FleetType /\ HistoryType
BY DEF TypeInv, TypeOK, TablesType, ThreadsType, FleetType, HistoryType

LEMMA IdleType == Idle \in HandlerState /\ FreeSlot \in SlotState
BY DEF Idle, HandlerState, HandlerOp, FreeSlot, SlotState, NoPlan, Decision, NoRow, Row, Status

\* An answered request leaves its handler idle and its thread well-formed.
LEMMA ReplyType ==
    ASSUME TypeInv, NEW h \in Handler, Reply(h)
    PROVE  ThreadsType'
<1> USE DEF TypeInv, TypeOK
<1>1. handler' \in [Handler -> HandlerState]
  BY IdleType DEF Reply
<1>2. ASSUME NEW s \in Slot
      PROVE  /\ AfterReply(slot[s]) \in SlotState
             /\ AfterReply(slot[s]).job = NULL <=> AfterReply(slot[s]).pc \in {"free", "claim"}
  BY IdleType DEF Assigned, AfterReply, FreeSlot, SlotState
<1>3. slot' \in [Slot -> SlotState]
  BY <1>2 DEF Reply
<1>4. \A s \in Slot : slot'[s].job = NULL <=> slot'[s].pc \in {"free", "claim"}
  BY <1>2 DEF Reply, Assigned
<1>5. ASSUME NEW g \in Handler
      PROVE  handler'[g] = handler[g] \/ handler'[g].op = "idle"
  BY DEF Reply, Idle
<1>6. Assigned'
  BY <1>4, <1>5 DEF Assigned, Waiting
<1> QED
  BY <1>1, <1>3, <1>6 DEF ThreadsType

\* What a thread or a client sends is a well-formed request.
LEMMA RequestType ==
    ASSUME NEW op \in HandlerOp \ {"idle"}, NEW j \in Job, NEW row \in Row
    PROVE  /\ \A s \in Slot : /\ Request(op, j, s, row) \in HandlerState
                              /\ Request(op, j, s, row).op = op
                              /\ Request(op, j, s, row).job = j
                              /\ Request(op, j, s, row).worker = WorkerOf[s]
           /\ UserRequest(op, j, row) \in HandlerState
           /\ UserRequest(op, j, row).op = op
           /\ UserRequest(op, j, row).job = j
BY IdleType, SlotAssumption DEF Request, UserRequest, HandlerState, Idle

\* Sending it keeps the threads well-formed.
LEMMA SendType ==
    ASSUME TypeInv, NEW h \in Handler, NEW s \in Slot, NEW request \in HandlerState,
           NEW pc \in {"claim", "start", "complete", "fail"}, NEW j \in Job \cup {NULL},
           j = NULL <=> pc = "claim",
           request.job # NULL, request.worker # NULL,
           Send(h, s, pc, j, request)
    PROVE  ThreadsType'
<1> USE DEF TypeInv, TypeOK, Send
<1>1. handler' \in [Handler -> HandlerState]
  OBVIOUS
<1>2. slot' \in [Slot -> SlotState]
  BY DEF SlotState
<1>3. \A t \in Slot : slot'[t].job = NULL <=> slot'[t].pc \in {"free", "claim"}
  BY DEF Assigned
<1>4. \A g \in Handler : handler'[g] = handler[g] \/ handler'[g] = request
  OBVIOUS
<1>5. Assigned'
  BY <1>3, <1>4 DEF Assigned
<1> QED
  BY <1>1, <1>2, <1>5 DEF ThreadsType

\* A step of a handler that keeps its job, its worker and a busy op.
LEMMA ContinueType ==
    ASSUME TypeInv, NEW h \in Handler, NEW next \in HandlerState,
           handler' = [handler EXCEPT ![h] = next], slot' = slot,
           handler[h].op # "idle",
           next.job = handler[h].job \/ next.job \in Job,
           \/ next.op \notin Waiting \cup {"update"}
           \/ next.worker = handler[h].worker /\ handler[h].op \in Waiting \cup {"update"}
    PROVE  ThreadsType'
<1> USE DEF TypeInv, TypeOK
<1>1. handler' \in [Handler -> HandlerState]
  OBVIOUS
<1>2. next.job # NULL
  BY NullAssumption DEF Assigned
<1>3. next.op \in Waiting \cup {"update"} => next.worker # NULL
  BY DEF Assigned
<1>4. \A g \in Handler : handler'[g] = handler[g] \/ handler'[g] = next
  OBVIOUS
<1>5. Assigned'
  BY <1>2, <1>3, <1>4 DEF Assigned
<1> QED
  BY <1>1, <1>5 DEF ThreadsType

-----------------------------------------------------------------------------
(* One lemma per group of actions.                                         *)

LEMMA RecordExcept ==
    ASSUME NEW r \in HandlerState
    PROVE  /\ \A op \in HandlerOp : [r EXCEPT !.op = op] \in HandlerState
           /\ \A k \in Job : [r EXCEPT !.job = k] \in HandlerState
           /\ \A row \in Row : [r EXCEPT !.snap = row] \in HandlerState
           /\ [r EXCEPT !.slot = NULL] \in HandlerState
           /\ \A row \in Row, i \in Nat, st \in {"running", "completed", "failed"} :
                 [r EXCEPT !.snap = row, !.exec = i, !.seen = st] \in HandlerState
BY DEF HandlerState

LEMMA TypeClaim ==
    ASSUME TypeInv, NEW h \in Handler, ClaimStep(h)
    PROVE  TypeInv'
<1> USE DEF tables, fleet, queues, history
<1> TypeInv /\ TablesType /\ ThreadsType /\ FleetType /\ HistoryType
  BY TypeParts
<1> SUFFICES TablesType' /\ ThreadsType' /\ FleetType' /\ HistoryType'
  BY DEF TypeInv, TypeOK, TablesType, ThreadsType, FleetType, HistoryType
<1>1. CASE WithinLimit(h)
  <2>1. [handler[h] EXCEPT !.op = "update"] \in HandlerState
    BY <1>1, RecordExcept DEF ThreadsType, HandlerOp
  <2>2. handler' = [handler EXCEPT ![h] = [handler[h] EXCEPT !.op = "update"]]
    BY <1>1 DEF WithinLimit
  <2>3. ThreadsType'
    BY <1>1, <2>1, <2>2, ContinueType DEF WithinLimit, ThreadsType, HandlerState, Waiting
  <2> QED
    BY <1>1, <2>3 DEF WithinLimit, TablesType, FleetType, HistoryType
<1>2. CASE AtLimit(h)
  BY <1>2, ReplyType DEF AtLimit, TablesType, FleetType, HistoryType
<1>3. CASE WinClaim(h)
  <2> DEFINE j == handler[h].job
  <2>1. j \in Job /\ handler[h].worker \in Worker
    BY <1>3 DEF WinClaim, ThreadsType, Assigned, HandlerState, Waiting
  <2>2. Claimed(jobs[j], handler[h].worker) \in Row
    BY <2>1, RowOperators DEF TablesType
  <2>3. TablesType'
    BY <1>3, <2>2 DEF WinClaim, TablesType
  <2>4. HistoryType'
    BY <1>3, <2>1 DEF WinClaim, HistoryType
  <2>5. handler' \in [Handler -> HandlerState]
    BY <1>3, IdleType DEF WinClaim, ThreadsType
  <2>a. PICK answer \in ClaimAnswers(j) :
           slot' = [s \in Slot |-> IF s = handler[h].slot THEN answer ELSE slot[s]]
    BY <1>3 DEF WinClaim
  <2>b. answer \in SlotState /\ (answer.job = NULL <=> answer.pc \in {"free", "claim"})
    BY <2>1, NullAssumption DEF ClaimAnswers, FreeSlot, SlotState
  <2>6. slot' \in [Slot -> SlotState]
    BY <2>a, <2>b DEF ThreadsType
  <2>7. \A s \in Slot : slot'[s].job = NULL <=> slot'[s].pc \in {"free", "claim"}
    BY <2>a, <2>b DEF ThreadsType, Assigned
  <2>8. \A g \in Handler : handler'[g] = handler[g] \/ handler'[g].op = "idle"
    BY <1>3 DEF WinClaim, Idle, ThreadsType
  <2>9. Assigned'
    BY <2>7, <2>8 DEF Assigned, Waiting, ThreadsType
  <2> QED
    BY <1>3, <2>3, <2>4, <2>5, <2>6, <2>9 DEF WinClaim, ThreadsType, FleetType
<1>4. CASE LoseClaim(h)
  BY <1>4, ReplyType DEF LoseClaim, TablesType, FleetType, HistoryType
<1> QED
  BY <1>1, <1>2, <1>3, <1>4 DEF ClaimStep

\* Closing an execution row.
LEMMA FinishExecutionType ==
    ASSUME TypeInv, NEW h \in Handler, handler[h].job \in Job,
           NEW st \in {"completed", "failed"}
    PROVE  FinishExecution(h, st) \in [Job -> Seq(Execution)]
<1> DEFINE j == handler[h].job
           i == handler[h].exec
           row == [execs[j][i] EXCEPT !.status = IF handler[h].seen # st THEN st ELSE @]
<1>1. execs \in [Job -> Seq(Execution)]
  BY DEF TypeInv, TypeOK
<1>2. FinishExecution(h, st) = [execs EXCEPT ![j] = [execs[j] EXCEPT ![i] = row]]
  BY DEF FinishExecution
<1>3. [execs[j] EXCEPT ![i] = row] \in Seq(Execution)
  <2>1. CASE i \in DOMAIN execs[j]
    <3>1. execs[j][i] \in Execution
      BY <1>1, <2>1, ElementOfSeq
    <3>2. row \in Execution
      BY <3>1 DEF Execution
    <3>3. execs[j] \in Seq(Execution)
      BY <1>1
    <3> HIDE DEF row, i, j
    <3> QED
      BY <3>2, <3>3, SeqExcept
  <2>2. CASE i \notin DOMAIN execs[j]
    <3>1. execs[j] \in Seq(Execution)
      BY <1>1
    <3> HIDE DEF row, i, j
    <3> QED
      BY <2>2, <3>1, SeqExcept
  <2> QED
    BY <2>1, <2>2
<1> QED
  BY <1>1, <1>2, <1>3

LEMMA TypeReport ==
    ASSUME TypeInv, NEW h \in Handler, ReportStep(h)
    PROVE  TypeInv'
<1> USE DEF tables, fleet, queues, history
<1> DEFINE j == handler[h].job
           row == handler[h].snap
<1>a. TypeInv /\ TablesType /\ ThreadsType /\ FleetType /\ HistoryType
  BY TypeParts
<1> SUFFICES TablesType' /\ ThreadsType' /\ FleetType' /\ HistoryType'
  BY DEF TypeInv, TypeOK, TablesType, ThreadsType, FleetType, HistoryType
<1>b. /\ row \in Row
      /\ jobs \in [Job -> Row]
      /\ handler[h].op # "idle" => j \in Job
      /\ handler[h].op = "start" => handler[h].worker \in Worker
  BY <1>a DEF TablesType, ThreadsType, HandlerState, Assigned, Waiting
<1>c. ASSUME NEW st \in Status, j \in Job
      PROVE  [jobs EXCEPT ![j] = Flush(@, row, WithStatus(row, st))] \in [Job -> Row]
  BY <1>b, <1>c, RowOperators, FlushRow
<1>1. CASE CommitStart(h)
  <2>1. j \in Job /\ handler[h].worker \in Worker
    BY <1>1, <1>b DEF CommitStart
  <2>2. NewExecution(h) \in Execution
    BY <1>b, <2>1 DEF NewExecution, Execution, Row
  <2>3. Append(execs[j], NewExecution(h)) \in Seq(Execution)
    BY <1>a, <2>1, <2>2 DEF TablesType
  <2>4. TablesType'
    BY <1>1, <1>a, <1>c, <2>1, <2>3 DEF CommitStart, TablesType, Status
  <2> QED
    BY <1>1, <1>a, <2>4, ReplyType DEF CommitStart, FleetType, HistoryType
<1>2. CASE CommitComplete(h)
  <2>1. j \in Job
    BY <1>2, <1>b DEF CommitComplete
  <2>2. TablesType'
    BY <1>2, <1>a, <1>c, <2>1, FinishExecutionType DEF CommitComplete, TablesType, Status
  <2>3. [handler[h] EXCEPT !.op = "edges"] \in HandlerState
    BY <1>a, RecordExcept DEF ThreadsType, HandlerOp
  <2>4. handler' = [handler EXCEPT ![h] = [handler[h] EXCEPT !.op = "edges"]]
    BY <1>2 DEF CommitComplete
  <2>5. ThreadsType'
    BY <1>2, <1>a, <2>3, <2>4, ContinueType DEF CommitComplete, ThreadsType, HandlerState, Waiting
  <2> QED
    BY <1>2, <1>a, <2>1, <2>2, <2>5 DEF CommitComplete, FleetType, HistoryType
<1>3. CASE CommitRequeue(h)
  <2>1. j \in Job
    BY <1>3, <1>b DEF CommitRequeue
  <2>2. [jobs EXCEPT ![j] = FlushRunAt(@, row, Requeued(row), FALSE)] \in [Job -> Row]
    BY <1>b, <2>1, RowOperators, FlushRow
  <2>3. TablesType'
    BY <1>3, <1>a, <2>1, <2>2, FinishExecutionType DEF CommitRequeue, TablesType
  <2> QED
    BY <1>3, <1>a, <2>3, ReplyType DEF CommitRequeue, FleetType, HistoryType
<1>4. CASE CommitDead(h)
  <2>1. j \in Job
    BY <1>4, <1>b DEF CommitDead
  <2>2. TablesType'
    BY <1>4, <1>a, <1>c, <2>1, FinishExecutionType DEF CommitDead, TablesType, Status
  <2> QED
    BY <1>4, <1>a, <2>2, ReplyType DEF CommitDead, FleetType, HistoryType
<1>5. CASE DuplicateDeadLetter(h)
  BY <1>5, <1>a, ReplyType DEF DuplicateDeadLetter, TablesType, FleetType, HistoryType
<1> QED
  BY <1>1, <1>2, <1>3, <1>4, <1>5 DEF ReportStep

LEMMA TypePromote ==
    ASSUME TypeInv, NEW h \in Handler, PromoteStep(h)
    PROVE  TypeInv'
<1> USE DEF tables, fleet, queues, history
<1>a. TypeInv /\ TablesType /\ ThreadsType /\ FleetType /\ HistoryType
  BY TypeParts
<1> SUFFICES TablesType' /\ ThreadsType' /\ FleetType' /\ HistoryType'
  BY DEF TypeInv, TypeOK, TablesType, ThreadsType, FleetType, HistoryType
<1>b. handler[h] \in HandlerState
  BY <1>a DEF ThreadsType
\* The three reading steps replace op, plan and dep of this handler only.
<1>c. ASSUME NEW op \in {"scan", "count"}, NEW plan \in [Job -> Decision],
             NEW dep \in Job \cup {NULL},
             handler' = [handler EXCEPT ![h] = [handler[h] EXCEPT !.op = op, !.plan = plan,
                                                                  !.dep = dep]],
             handler[h].op # "idle",
             UNCHANGED <<tables, fleet, queues, sched, history>>
      PROVE  TablesType' /\ ThreadsType' /\ FleetType' /\ HistoryType'
  <2> DEFINE next == [handler[h] EXCEPT !.op = op, !.plan = plan, !.dep = dep]
  <2>1. next \in HandlerState
    BY <1>b DEF HandlerState, HandlerOp
  <2>2. next.job = handler[h].job /\ next.op \notin Waiting \cup {"update"}
    BY <1>b DEF HandlerState, Waiting
  <2>3. ThreadsType'
    BY <1>c, <2>1, <2>2, ContinueType
  <2> QED
    BY <1>a, <1>c, <2>3 DEF TablesType, FleetType, HistoryType
<1>1. CASE ReadEdges(h)
  <2> DEFINE plan == [d \in Job |-> IF /\ handler[h].job \in DependsOn[d]
                                       /\ jobs[d].status # "absent"
                                    THEN "todo" ELSE "keep"]
  <2>1. plan \in [Job -> Decision]
    BY DEF Decision
  <2>2. handler' = [handler EXCEPT ![h] = [handler[h] EXCEPT !.op = "scan", !.plan = plan,
                                                             !.dep = handler[h].dep]]
    BY <1>1, <1>b DEF ReadEdges, HandlerState
  <2> QED
    BY <1>1, <1>b, <1>c, <2>1, <2>2 DEF ReadEdges, HandlerState
<1>2. CASE ReadDependent(h)
  <2>1. PICK d \in Job :
          IF jobs[d].status = "blocked"
          THEN handler' = [handler EXCEPT ![h].op = "count", ![h].dep = d,
                                          ![h].plan[d] = Ready(jobs[d].due)]
          ELSE handler' = [handler EXCEPT ![h].plan[d] = "keep"]
    BY <1>2 DEF ReadDependent
  <2>2. CASE jobs[d].status = "blocked"
    <3> DEFINE plan == [handler[h].plan EXCEPT ![d] = Ready(jobs[d].due)]
    <3>1. plan \in [Job -> Decision]
      BY <1>b DEF HandlerState, Decision, Ready
    <3>2. handler' = [handler EXCEPT ![h] = [handler[h] EXCEPT !.op = "count", !.plan = plan,
                                                               !.dep = d]]
      <4>1. handler' = [handler EXCEPT ![h] = [handler[h] EXCEPT
                            !.op = "count", !.dep = d, !.plan[d] = Ready(jobs[d].due)]]
        BY <2>1, <2>2
      <4>2. [handler[h] EXCEPT !.op = "count", !.dep = d, !.plan[d] = Ready(jobs[d].due)]
            = [handler[h] EXCEPT !.op = "count", !.plan = plan, !.dep = d]
        BY <1>b DEF HandlerState
      <4> QED
        BY <4>1, <4>2
    <3> QED
      BY <1>2, <1>c, <3>1, <3>2 DEF ReadDependent
  <2>3. CASE jobs[d].status # "blocked"
    <3> DEFINE plan == [handler[h].plan EXCEPT ![d] = "keep"]
    <3>1. plan \in [Job -> Decision]
      BY <1>b DEF HandlerState, Decision
    <3>2. handler' = [handler EXCEPT ![h] = [handler[h] EXCEPT !.plan = plan]]
      BY <2>1, <2>3
    <3>3. /\ handler[h].op = "scan"
          /\ [handler[h] EXCEPT !.plan = plan]
             = [handler[h] EXCEPT !.op = "scan", !.plan = plan, !.dep = handler[h].dep]
      BY <1>2, <1>b DEF HandlerState, ReadDependent
    <3> QED
      BY <1>2, <1>b, <1>c, <3>1, <3>2, <3>3 DEF ReadDependent, HandlerState
  <2> QED
    BY <2>2, <2>3
<1>3. CASE CountRemaining(h)
  <2> DEFINE d == handler[h].dep
             plan == [handler[h].plan EXCEPT ![d] = IF Remaining(d) = {} THEN @ ELSE "keep"]
  <2>1. plan \in [Job -> Decision]
    BY <1>b DEF HandlerState, Decision
  <2>2. handler' = [handler EXCEPT ![h] = [handler[h] EXCEPT !.op = "scan", !.plan = plan,
                                                             !.dep = NULL]]
    BY <1>3, <1>b DEF CountRemaining, HandlerState
  <2> QED
    BY <1>3, <1>c, <2>1, <2>2 DEF CountRemaining
<1>4. CASE CommitPromote(h)
  <2>1. handler[h].plan \in [Job -> Decision]
    BY <1>b DEF HandlerState
  <2>2. \A d \in Job : handler[h].plan[d] \in {"keep", "queued", "scheduled"}
    BY <1>4, <2>1 DEF CommitPromote, Decision
  <2>3. \A d \in Job : handler[h].plan[d] # "keep" => WithStatus(jobs[d], handler[h].plan[d]) \in Row
    BY <1>a, <2>2, RowOperators DEF TablesType, Status
  <2>4. jobs' \in [Job -> Row]
    BY <1>4, <1>a, <2>3 DEF CommitPromote, TablesType
  <2> QED
    BY <1>4, <1>a, <2>4, ReplyType DEF CommitPromote, TablesType, FleetType, HistoryType
<1> QED
  BY <1>1, <1>2, <1>3, <1>4 DEF PromoteStep

LEMMA TypeOperator ==
    ASSUME TypeInv, NEW h \in Handler, OperatorStep(h)
    PROVE  TypeInv'
<1> USE DEF tables, fleet, queues, history
<1> DEFINE j == handler[h].job
           row == handler[h].snap
<1>a. TypeInv /\ TablesType /\ ThreadsType /\ FleetType /\ HistoryType
  BY TypeParts
<1> SUFFICES TablesType' /\ ThreadsType' /\ FleetType' /\ HistoryType'
  BY DEF TypeInv, TypeOK, TablesType, ThreadsType, FleetType, HistoryType
<1>b. /\ row \in Row
      /\ jobs \in [Job -> Row]
      /\ handler[h].op # "idle" => j \in Job
  BY <1>a DEF TablesType, ThreadsType, HandlerState, Assigned
<1>1. CASE CommitCreate(h)
  BY <1>1, <1>a, <1>b, ReplyType DEF CommitCreate, TablesType, FleetType, HistoryType
<1>2. CASE DuplicateKey(h)
  BY <1>2, <1>a, ReplyType DEF DuplicateKey, TablesType, FleetType, HistoryType
<1>3. CASE CommitCancel(h)
  <2>1. WithStatus(row, "dead") \in Row
    BY <1>b, RowOperators DEF Status
  <2>2. [jobs EXCEPT ![j] = Flush(@, row, WithStatus(row, "dead"))] \in [Job -> Row]
    BY <1>b, <2>1, FlushRow
  <2> QED
    BY <1>3, <1>a, <2>2, ReplyType DEF CommitCancel, TablesType, FleetType, HistoryType
<1>4. CASE CommitRestart(h)
  <2>1. [jobs EXCEPT ![j] = FlushRunAt(@, row, Restarted(row), TRUE)] \in [Job -> Row]
    BY <1>b, RowOperators, FlushRow
  <2>2. TablesType'
    BY <1>4, <1>a, <2>1 DEF CommitRestart, TablesType
  <2>3. j \in Job
    BY <1>4, <1>b DEF CommitRestart
  <2> QED
    BY <1>4, <1>a, <2>2, <2>3, ReplyType DEF CommitRestart, FleetType, HistoryType
<1> QED
  BY <1>1, <1>2, <1>3, <1>4 DEF OperatorStep

LEMMA ReportType ==
    ASSUME TypeInv, NEW s \in Slot, NEW j \in Job, NEW i \in Latest(j),
           NEW op \in {"complete", "fail"}
    PROVE  /\ Report(op, j, s, i) \in HandlerState
           /\ Report(op, j, s, i).op = op
           /\ Report(op, j, s, i).job = j
           /\ Report(op, j, s, i).worker = WorkerOf[s]
           /\ Report(op, j, s, i).dep = NULL
           /\ Report(op, j, s, i).plan = NoPlan
<1>1. jobs[j] \in Row /\ execs[j] \in Seq(Execution) /\ i \in DOMAIN execs[j]
  BY DEF TypeInv, TypeOK, Latest
<1>2. i \in Nat /\ execs[j][i].status \in {"running", "completed", "failed"}
  <2>1. i \in 1..Len(execs[j])
    BY <1>1
  <2>2. execs[j][i] \in Execution
    BY <1>1, <2>1, ElementOfSeq
  <2> QED
    BY <1>1, <2>1, <2>2 DEF Execution
<1>3. /\ Request(op, j, s, jobs[j]) \in HandlerState
      /\ Request(op, j, s, jobs[j]).op = op
      /\ Request(op, j, s, jobs[j]).job = j
      /\ Request(op, j, s, jobs[j]).worker = WorkerOf[s]
  BY <1>1, RequestType DEF HandlerOp
<1>4. Request(op, j, s, jobs[j]).dep = NULL /\ Request(op, j, s, jobs[j]).plan = NoPlan
  BY DEF Request, Idle
<1> QED
  BY <1>2, <1>3, <1>4 DEF Report, HandlerState

LEMMA TypeSlot ==
    ASSUME TypeInv, NEW s \in Slot, SlotStep(s)
    PROVE  TypeInv'
<1> USE DEF tables, fleet, queues, history
<1>a. TypeInv /\ TablesType /\ ThreadsType /\ FleetType /\ HistoryType
  BY TypeParts
<1> SUFFICES TablesType' /\ ThreadsType' /\ FleetType' /\ HistoryType'
  BY DEF TypeInv, TypeOK, TablesType, ThreadsType, FleetType, HistoryType
<1>b. /\ WorkerOf[s] \in Worker
      /\ WorkerOf[s] # NULL
      /\ slot[s].pc \notin {"free", "claim"} => slot[s].job \in Job /\ slot[s].job # NULL
  BY <1>a, SlotAssumption, NullAssumption DEF ThreadsType, Assigned, SlotState
<1>1. ASSUME NEW h \in Handler, Poll(h, s)
      PROVE  ThreadsType' /\ UNCHANGED <<tables, up, stale, draining, queues, sched, history>>
  <2>1. PICK j \in Candidates(WorkerOf[s]) :
               Send(h, s, "claim", NULL, Request("claim", j, s, NoRow))
    BY <1>1 DEF Poll
  <2>2. j \in Job /\ j # NULL
    BY <1>b, SlotAssumption, NullAssumption DEF Candidates, Eligible
  <2>3. NoRow \in Row
    BY DEF NoRow, Row, Status
  <2>4. /\ Request("claim", j, s, NoRow) \in HandlerState
        /\ Request("claim", j, s, NoRow).job = j
        /\ Request("claim", j, s, NoRow).worker = WorkerOf[s]
    BY <2>2, <2>3, RequestType DEF HandlerOp
  <2>5. ThreadsType'
    BY <1>b, <2>1, <2>2, <2>4, SendType
  <2> QED
    BY <1>1, <2>5 DEF Poll
<1>2. ASSUME NEW h \in Handler, PostStart(h, s)
      PROVE  ThreadsType' /\ UNCHANGED <<tables, up, stale, draining, queues, sched, history>>
  <2> DEFINE j == slot[s].job
  <2>1. j \in Job /\ j # NULL /\ jobs[j] \in Row
    BY <1>a, <1>2, <1>b DEF PostStart, TablesType
  <2>2. /\ Request("start", j, s, jobs[j]) \in HandlerState
        /\ Request("start", j, s, jobs[j]).job = j
        /\ Request("start", j, s, jobs[j]).worker = WorkerOf[s]
    BY <2>1, RequestType DEF HandlerOp
  <2>3. Send(h, s, "start", j, Request("start", j, s, jobs[j]))
    BY <1>2 DEF PostStart
  <2>4. ThreadsType'
    BY <1>b, <2>1, <2>2, <2>3, SendType
  <2> QED
    BY <1>2, <2>4 DEF PostStart
<1>3. ASSUME NEW h \in Handler, PostReport(h, s)
      PROVE  ThreadsType' /\ UNCHANGED <<tables, up, stale, draining, queues, sched, history>>
  <2> DEFINE j == slot[s].job
  <2>1. PICK op \in {"complete", "fail"}, i \in Latest(j) :
           /\ slot[s].pc = (IF op = "complete" THEN "run" ELSE "raised")
           /\ Send(h, s, op, j, Report(op, j, s, i))
    BY <1>3 DEF PostReport
  <2>2. j \in Job /\ j # NULL
    BY <1>b, <2>1
  <2>3. /\ Report(op, j, s, i) \in HandlerState
        /\ Report(op, j, s, i).job = j
        /\ Report(op, j, s, i).worker = WorkerOf[s]
    BY <1>a, <2>2, ReportType
  <2>4. ThreadsType'
    BY <1>b, <2>1, <2>2, <2>3, SendType
  <2> QED
    BY <1>3, <2>4 DEF PostReport
<1>4. CASE TaskFails(s)
  <2>1. slot' \in [Slot -> SlotState]
    BY <1>4, <1>a DEF TaskFails, ThreadsType, SlotState
  <2>2. Assigned'
    BY <1>4, <1>a DEF TaskFails, ThreadsType, Assigned, SlotState
  <2> QED
    BY <1>4, <1>a, <2>1, <2>2 DEF TaskFails, TablesType, ThreadsType, FleetType, HistoryType
<1>5. CASE ReportRefused(s)
  <2>1. slot' \in [Slot -> SlotState]
    BY <1>5, <1>a, IdleType DEF ReportRefused, ThreadsType
  <2>2. Assigned'
    BY <1>5, <1>a DEF ReportRefused, ThreadsType, Assigned, SlotState, FreeSlot
  <2> QED
    BY <1>5, <1>a, <2>1, <2>2 DEF ReportRefused, TablesType, ThreadsType, FleetType, HistoryType
<1>6. ASSUME ThreadsType' /\ UNCHANGED <<tables, up, stale, draining, queues, sched, history>>
      PROVE  TablesType' /\ FleetType' /\ HistoryType'
  BY <1>6, <1>a DEF TablesType, FleetType, HistoryType
<1> QED
  BY <1>1, <1>2, <1>3, <1>4, <1>5, <1>6 DEF SlotStep

LEMMA TypeScheduler ==
    ASSUME TypeInv, SchedulerStep
    PROVE  TypeInv'
<1> USE DEF tables, fleet, queues, history
<1>a. TypeInv /\ TablesType /\ ThreadsType /\ FleetType /\ HistoryType
  BY TypeParts
<1> SUFFICES TablesType' /\ ThreadsType' /\ FleetType' /\ HistoryType'
  BY DEF TypeInv, TypeOK, TablesType, ThreadsType, FleetType, HistoryType
<1>b. ASSUME NEW pass \in {"promoting", "reaping"}, NEW rows \in SUBSET Job,
             NEW next \in {"promote", "reap"}, Load(pass, rows, next)
      PROVE  sched' \in SchedState
  BY <1>b DEF Load, SchedState
<1>1. CASE ReadDueJobs
  <2>1. sched' \in SchedState
    BY <1>1, <1>b DEF ReadDueJobs, DueJobs
  <2> QED
    BY <1>1, <1>a, <2>1 DEF ReadDueJobs, TablesType, ThreadsType, FleetType, HistoryType, Assigned
<1>2. CASE CommitDueJobs
  <2>1. jobs' \in [Job -> Row]
    BY <1>2, <1>a, RowOperators DEF CommitDueJobs, TablesType, Status
  <2>2. sched' \in SchedState
    BY <1>2 DEF CommitDueJobs, SchedState
  <2> QED
    BY <1>2, <1>a, <2>1, <2>2
    DEF CommitDueJobs, TablesType, ThreadsType, FleetType, HistoryType, Assigned
<1>3. CASE ReadStuckJobs
  <2>1. sched' \in SchedState
    BY <1>3, <1>b DEF ReadStuckJobs, StuckJobs
  <2> QED
    BY <1>3, <1>a, <2>1 DEF ReadStuckJobs, TablesType, ThreadsType, FleetType, HistoryType, Assigned
<1>4. CASE CommitReap
  <2>1. jobs' \in [Job -> Row]
    BY <1>4, <1>a, RowOperators DEF CommitReap, TablesType
  <2>2. sched' \in SchedState
    BY <1>4 DEF CommitReap, SchedState
  <2> QED
    BY <1>4, <1>a, <2>1, <2>2
    DEF CommitReap, TablesType, ThreadsType, FleetType, HistoryType, Assigned
<1> QED
  BY <1>1, <1>2, <1>3, <1>4 DEF SchedulerStep

LEMMA TypeRequest ==
    ASSUME TypeInv, OperatorRequest
    PROVE  TypeInv'
<1> USE DEF tables, fleet, queues, history
<1>a. TypeInv /\ TablesType /\ ThreadsType /\ FleetType /\ HistoryType
  BY TypeParts
<1> SUFFICES TablesType' /\ ThreadsType' /\ FleetType' /\ HistoryType'
  BY DEF TypeInv, TypeOK, TablesType, ThreadsType, FleetType, HistoryType
\* A request of a user starts in an idle handler.
<1>b. ASSUME NEW h \in Handler, NEW op \in {"create", "cancel", "retry", "replay"},
             NEW j \in Job, NEW row \in Row,
             handler' = [handler EXCEPT ![h] = UserRequest(op, j, row)],
             UNCHANGED <<tables, fleet, queues, sched, history>>
      PROVE  TablesType' /\ ThreadsType' /\ FleetType' /\ HistoryType'
  <2>1. /\ UserRequest(op, j, row) \in HandlerState
        /\ UserRequest(op, j, row).op = op
        /\ UserRequest(op, j, row).job = j
    BY RequestType DEF HandlerOp
  <2>2. handler' \in [Handler -> HandlerState]
    BY <1>a, <1>b, <2>1 DEF ThreadsType
  <2>3. \A g \in Handler : handler'[g] = handler[g] \/ handler'[g] = UserRequest(op, j, row)
    BY <1>a, <1>b DEF ThreadsType
  <2>4. Assigned'
    BY <1>a, <1>b, <2>1, <2>3, NullAssumption DEF ThreadsType, Assigned, Waiting
  <2> QED
    BY <1>a, <1>b, <2>2, <2>4 DEF TablesType, ThreadsType, FleetType, HistoryType
<1>1. ASSUME NEW h \in Handler, NEW j \in Job, BeginCreate(h, j)
      PROVE  TablesType' /\ ThreadsType' /\ FleetType' /\ HistoryType'
  <2>1. NewRow(Remaining(j) # {}, j \notin Delayed) \in Row
    BY NewRowType
  <2> QED
    BY <1>1, <1>b, <2>1 DEF BeginCreate
<1>2. ASSUME NEW h \in Handler, NEW j \in Job, NEW op \in {"cancel", "retry", "replay"},
             BeginOperation(h, op, j)
      PROVE  TablesType' /\ ThreadsType' /\ FleetType' /\ HistoryType'
  <2>1. jobs[j] \in Row
    BY <1>a DEF TablesType
  <2> QED
    BY <1>2, <1>b, <2>1 DEF BeginOperation
<1>3. ASSUME NEW w \in Worker, Drain(w)
      PROVE  TablesType' /\ ThreadsType' /\ FleetType' /\ HistoryType'
  BY <1>3, <1>a DEF Drain, TablesType, ThreadsType, FleetType, HistoryType, Assigned
<1>4. CASE ListWorkers
  BY <1>4, <1>a DEF ListWorkers, TablesType, ThreadsType, FleetType, HistoryType, Assigned
<1>5. ASSUME NEW q \in Queue, NEW p \in BOOLEAN, SetPaused(q, p)
      PROVE  TablesType' /\ ThreadsType' /\ FleetType' /\ HistoryType'
  BY <1>5, <1>a DEF SetPaused, TablesType, ThreadsType, FleetType, HistoryType, Assigned
<1>6. ASSUME NEW q \in Queue, NEW n \in Limits, PatchLimit(q, n)
      PROVE  TablesType' /\ ThreadsType' /\ FleetType' /\ HistoryType'
  BY <1>6, <1>a, InstanceAssumption
  DEF PatchLimit, TablesType, ThreadsType, FleetType, HistoryType, Assigned
<1> QED
  BY <1>1, <1>2, <1>3, <1>4, <1>5, <1>6 DEF OperatorRequest

LEMMA TypeClock ==
    ASSUME TypeInv, Clock
    PROVE  TypeInv'
<1> USE DEF tables, fleet, queues, history
<1>a. TypeInv /\ TablesType /\ ThreadsType /\ FleetType /\ HistoryType
  BY TypeParts
<1> SUFFICES TablesType' /\ ThreadsType' /\ FleetType' /\ HistoryType'
  BY DEF TypeInv, TypeOK, TablesType, ThreadsType, FleetType, HistoryType
<1>1. ASSUME NEW j \in Job, TimePasses(j)
      PROVE  TablesType' /\ ThreadsType' /\ FleetType' /\ HistoryType'
  <2>1. jobs' \in [Job -> Row]
    BY <1>1, <1>a DEF TimePasses, TablesType, Row
  <2> QED
    BY <1>1, <1>a, <2>1 DEF TimePasses, TablesType, ThreadsType, FleetType, HistoryType, Assigned
<1>2. ASSUME NEW w \in Worker, Heartbeat(w)
      PROVE  TablesType' /\ ThreadsType' /\ FleetType' /\ HistoryType'
  BY <1>2, <1>a
  DEF Heartbeat, StatusAfterHeartbeat, TablesType, ThreadsType, FleetType, HistoryType, Assigned
<1>3. ASSUME NEW w \in Worker, GoStale(w)
      PROVE  TablesType' /\ ThreadsType' /\ FleetType' /\ HistoryType'
  BY <1>3, <1>a DEF GoStale, TablesType, ThreadsType, FleetType, HistoryType, Assigned
<1> QED
  BY <1>1, <1>2, <1>3 DEF Clock

\* The thread a request's answer does not reach.
LEMMA NoReplyType ==
    ASSUME TypeInv, NEW s \in Slot
    PROVE  /\ AfterNoReply(slot[s]) \in SlotState
           /\ AfterNoReply(slot[s]).job = NULL <=> AfterNoReply(slot[s]).pc \in {"free", "claim"}
BY IdleType DEF TypeInv, TypeOK, Assigned, AfterNoReply, FreeSlot, SlotState

LEMMA TypeFailure ==
    ASSUME TypeInv, Failure
    PROVE  TypeInv'
<1> USE DEF tables, fleet, queues, history
<1>a. TypeInv /\ TablesType /\ ThreadsType /\ FleetType /\ HistoryType
  BY TypeParts
<1> SUFFICES TablesType' /\ ThreadsType' /\ FleetType' /\ HistoryType'
  BY DEF TypeInv, TypeOK, TablesType, ThreadsType, FleetType, HistoryType
<1>1. ASSUME NEW w \in Worker, WorkerCrash(w)
      PROVE  TablesType' /\ ThreadsType' /\ FleetType' /\ HistoryType'
  <2>1. handler' \in [Handler -> HandlerState]
    BY <1>1, <1>a, RecordExcept DEF WorkerCrash, ThreadsType
  <2>2. \A g \in Handler : /\ handler'[g].op = handler[g].op
                           /\ handler'[g].job = handler[g].job
                           /\ handler'[g].worker = handler[g].worker
    BY <1>1, <1>a DEF WorkerCrash, ThreadsType, HandlerState
  <2>3. slot' \in [Slot -> SlotState]
    BY <1>1, <1>a, IdleType DEF WorkerCrash, ThreadsType
  <2>4. \A s \in Slot : slot'[s].job = NULL <=> slot'[s].pc \in {"free", "claim"}
    BY <1>1, <1>a DEF WorkerCrash, ThreadsType, Assigned, FreeSlot
  <2>5. Assigned'
    BY <1>a, <2>2, <2>4 DEF ThreadsType, Assigned
  <2>6. UNCHANGED <<tables, stale, draining, queues, sched, history>> /\ up' \subseteq up
    BY <1>1 DEF WorkerCrash
  <2>7. TablesType' /\ FleetType' /\ HistoryType'
    BY <1>a, <2>6 DEF TablesType, FleetType, HistoryType
  <2>8. ThreadsType'
    BY <2>1, <2>3, <2>5 DEF ThreadsType
  <2> QED
    BY <2>7, <2>8
<1>2. ASSUME NEW h \in Handler, LoseReply(h)
      PROVE  TablesType' /\ ThreadsType' /\ FleetType' /\ HistoryType'
  <2>1. handler' \in [Handler -> HandlerState]
    <3>1. [handler[h] EXCEPT !.slot = NULL] \in HandlerState
      BY <1>a DEF ThreadsType, HandlerState
    <3> QED
      BY <1>2, <1>a, <3>1 DEF LoseReply, ThreadsType
  <2>2. \A g \in Handler : /\ handler'[g].op = handler[g].op
                           /\ handler'[g].job = handler[g].job
                           /\ handler'[g].worker = handler[g].worker
    BY <1>2, <1>a DEF LoseReply, ThreadsType, HandlerState
  <2>3. \A s \in Slot : slot'[s] = slot[s] \/ slot'[s] = AfterNoReply(slot[s])
    BY <1>2, <1>a DEF LoseReply, ThreadsType
  <2>4. slot' \in [Slot -> SlotState]
    BY <1>2, <1>a, NoReplyType DEF LoseReply, ThreadsType
  <2>5. \A s \in Slot : slot'[s].job = NULL <=> slot'[s].pc \in {"free", "claim"}
    BY <1>a, <2>3, NoReplyType DEF ThreadsType, Assigned
  <2>6. Assigned'
    BY <1>a, <2>2, <2>5 DEF ThreadsType, Assigned
  <2> QED
    BY <1>2, <1>a, <2>1, <2>4, <2>6 DEF LoseReply, TablesType, ThreadsType, FleetType, HistoryType
<1>3. ASSUME NEW h \in Handler, LateRead(h)
      PROVE  TablesType' /\ ThreadsType' /\ FleetType' /\ HistoryType'
  <2> DEFINE j == handler[h].job
  <2>1. j \in Job /\ handler[h] \in HandlerState /\ handler[h].op \in Waiting
    BY <1>3, <1>a DEF LateRead, ThreadsType, HandlerState, Assigned, Waiting
  <2>2. ASSUME NEW next \in HandlerState, next.op = handler[h].op,
               next.job \in Job, next.worker = handler[h].worker,
               handler' = [handler EXCEPT ![h] = next]
        PROVE  ThreadsType'
    BY <1>3, <1>a, <2>1, <2>2, ContinueType DEF LateRead, Waiting
  <2>3. ASSUME NEW k \in Job, handler' = [handler EXCEPT ![h].job = k]
        PROVE  ThreadsType'
    <3>1. [handler[h] EXCEPT !.job = k] \in HandlerState
      BY <2>1, RecordExcept
    <3>2. handler' = [handler EXCEPT ![h] = [handler[h] EXCEPT !.job = k]]
      BY <2>3
    <3> QED
      BY <2>1, <2>2, <3>1, <3>2 DEF HandlerState
  <2>4. ASSUME handler' = [handler EXCEPT ![h].snap = jobs[j]]
        PROVE  ThreadsType'
    <3>1. [handler[h] EXCEPT !.snap = jobs[j]] \in HandlerState
      BY <1>a, <2>1, RecordExcept DEF TablesType
    <3>2. handler' = [handler EXCEPT ![h] = [handler[h] EXCEPT !.snap = jobs[j]]]
      BY <2>4
    <3> QED
      BY <2>1, <2>2, <3>1, <3>2 DEF HandlerState
  <2>5. ASSUME NEW i \in Latest(j),
               handler' = [handler EXCEPT ![h].snap = jobs[j], ![h].exec = i,
                                          ![h].seen = execs[j][i].status]
        PROVE  ThreadsType'
    <3> DEFINE next == [handler[h] EXCEPT !.snap = jobs[j], !.exec = i,
                                          !.seen = execs[j][i].status]
    <3>1. execs[j] \in Seq(Execution) /\ i \in DOMAIN execs[j]
      BY <1>a, <2>1, <2>5 DEF TablesType, Latest
    <3>2. i \in 1..Len(execs[j])
      BY <3>1
    <3>3. execs[j][i] \in Execution
      BY <3>1, <3>2, ElementOfSeq
    <3>4. next \in HandlerState
      <4>1. jobs[j] \in Row /\ i \in Nat
        BY <1>a, <2>1, <3>2 DEF TablesType
      <4>2. execs[j][i].status \in {"running", "completed", "failed"}
        BY <3>3 DEF Execution
      <4> QED
        BY <2>1, <4>1, <4>2, RecordExcept
    <3>5. handler' = [handler EXCEPT ![h] = next]
      BY <2>5
    <3> QED
      BY <2>1, <2>2, <3>4, <3>5 DEF HandlerState
  <2>6. ThreadsType'
    <3>1. \A w \in Worker : Candidates(w) \subseteq Job
      BY SlotAssumption DEF Candidates, Eligible
    <3>2. CASE handler[h].op = "claim"
      <4>1. handler[h].worker \in Worker
        BY <1>a, <2>1, <3>2 DEF ThreadsType, Assigned, HandlerState
      <4> QED
        BY <1>3, <2>3, <3>1, <3>2, <4>1 DEF LateRead
    <3>3. CASE handler[h].op = "start"
      BY <1>3, <2>4, <3>3 DEF LateRead
    <3>4. CASE handler[h].op \in {"complete", "fail"}
      BY <1>3, <2>5, <3>4 DEF LateRead
    <3> QED
      BY <2>1, <3>2, <3>3, <3>4 DEF Waiting
  <2> QED
    BY <1>3, <1>a, <2>6 DEF LateRead, TablesType, FleetType, HistoryType
<1>4. ASSUME NEW h \in Handler, DbError(h)
      PROVE  TablesType' /\ ThreadsType' /\ FleetType' /\ HistoryType'
  BY <1>4, <1>a, ReplyType DEF DbError, TablesType, FleetType, HistoryType
<1>5. CASE ApiCrash
  <2>1. handler' \in [Handler -> HandlerState] /\ \A g \in Handler : handler'[g].op = "idle"
    BY <1>5, IdleType DEF ApiCrash, Idle
  <2>2. slot' \in [Slot -> SlotState]
    BY <1>5, <1>a, NoReplyType DEF ApiCrash, ThreadsType
  <2>3. \A s \in Slot : slot'[s].job = NULL <=> slot'[s].pc \in {"free", "claim"}
    BY <1>5, <1>a, NoReplyType DEF ApiCrash, ThreadsType, Assigned
  <2>4. Assigned'
    BY <2>1, <2>3 DEF Assigned, Waiting
  <2> QED
    BY <1>5, <1>a, <2>1, <2>2, <2>4 DEF ApiCrash, TablesType, ThreadsType, FleetType, HistoryType
<1>6. CASE TickError
  BY <1>6, <1>a DEF TickError, TablesType, ThreadsType, FleetType, HistoryType, Assigned, SchedState
<1> QED
  BY <1>1, <1>2, <1>3, <1>4, <1>5, <1>6 DEF Failure

-----------------------------------------------------------------------------
(* Type correctness.                                                       *)

LEMMA TypeInit == Init => TypeInv
<1> SUFFICES ASSUME Init PROVE TypeInv
  OBVIOUS
<1>1. jobs \in [Job -> Row]
  <2>1. \A j \in Job : NewRow(DependsOn[j] # {}, j \notin Delayed) \in Row
    BY NewRowType
  <2>2. NoRow \in Row
    BY DEF NoRow, Row, Status
  <2> QED
    BY <2>1, <2>2 DEF Init
<1>2. execs \in [Job -> Seq(Execution)]
  BY DEF Init
<1>3. handler \in [Handler -> HandlerState] /\ slot \in [Slot -> SlotState]
  BY IdleType DEF Init
<1>4. limit \in [Queue -> Nat]
  BY InstanceAssumption DEF Init
<1>5. Assigned
  BY DEF Init, Assigned, Idle, FreeSlot, Waiting
<1>6. sched \in SchedState
  BY DEF Init, SchedState
<1> QED
  BY <1>1, <1>2, <1>3, <1>4, <1>5, <1>6 DEF Init, TypeInv, TypeOK

LEMMA TypeStep == TypeInv /\ [Next]_vars => TypeInv'
<1> SUFFICES ASSUME TypeInv, [Next]_vars PROVE TypeInv'
  OBVIOUS
<1>1. ASSUME NEW h \in Handler, HandlerStep(h) PROVE TypeInv'
  BY <1>1, TypeClaim, TypeReport, TypePromote, TypeOperator DEF HandlerStep
<1>2. ASSUME NEW s \in Slot, SlotStep(s) PROVE TypeInv'
  BY <1>2, TypeSlot
<1>3. CASE SchedulerStep
  BY <1>3, TypeScheduler
<1>4. CASE OperatorRequest
  BY <1>4, TypeRequest
<1>5. CASE Clock
  BY <1>5, TypeClock
<1>6. CASE Failure
  BY <1>6, TypeFailure
<1>7. CASE UNCHANGED vars
  BY <1>7 DEF vars, TypeInv, TypeOK, Assigned
<1> QED
  BY <1>1, <1>2, <1>3, <1>4, <1>5, <1>6, <1>7 DEF Next

\* Type correctness of every reachable state: the tables hold rows of their
\* types, every request in progress concerns a job, and every thread past its
\* claim has one.
THEOREM TypeCorrect == Spec => []TypeInv
BY TypeInit, TypeStep, PTL DEF Spec

-----------------------------------------------------------------------------
(* Dependencies first.                                                     *)

RowsGood == DependenciesFirst /\ CompletedIsDone
HandlersGood == ReportsReleased /\ PlansReleased /\ CreatesReleased

\* Completions and forced restarts are only ever added.
HistoryGrows == everDone \subseteq everDone' /\ forced \subseteq forced'

LEMMA DependencyParts ==
    DependencyInv <=> RowsGood /\ HandlersGood /\ SlotsReleased /\ BatchReleased
BY DEF DependencyInv, RowsGood, HandlersGood

LEMMA ReleasedGrows ==
    ASSUME HistoryGrows, NEW j, Released(j)
    PROVE  Released(j)'
BY DEF HistoryGrows, Released

\* Writing one row: it is enough that the written status is allowed.
LEMMA OneRow ==
    ASSUME TypeInv, RowsGood, HistoryGrows, NEW j \in Job, NEW row \in Row,
           jobs' = [jobs EXCEPT ![j] = row],
           row.status \in Runnable => Released(j)',
           row.status = "completed" => j \in everDone'
    PROVE  RowsGood'
<1> USE DEF TypeInv, TypeOK
<1>1. \A k \in Job : jobs'[k] = IF k = j THEN row ELSE jobs[k]
  OBVIOUS
<1>2. DependenciesFirst'
  BY <1>1, ReleasedGrows DEF RowsGood, DependenciesFirst
<1>3. CompletedIsDone'
  BY <1>1 DEF RowsGood, CompletedIsDone, HistoryGrows
<1> QED
  BY <1>2, <1>3 DEF RowsGood

\* Replacing one handler's state.
LEMMA OneHandler ==
    ASSUME TypeInv, HandlersGood, HistoryGrows, NEW h \in Handler, NEW next \in HandlerState,
           handler' = [handler EXCEPT ![h] = next],
           next.op \in {"start", "complete", "edges", "fail"} => Released(next.job)',
           next.op # "count" => next.dep = NULL,
           \A d \in Job : next.plan[d] \in {"queued", "scheduled"} /\ d # next.dep
                          => Released(d)',
           next.op = "create" => /\ next.snap.status # "completed"
                                 /\ next.snap.status \in Runnable => Released(next.job)'
    PROVE  HandlersGood'
<1> USE DEF TypeInv, TypeOK
<1>1. \A g \in Handler : handler'[g] = IF g = h THEN next ELSE handler[g]
  OBVIOUS
<1>2. ReportsReleased'
  BY <1>1, ReleasedGrows DEF HandlersGood, ReportsReleased
<1>3. PlansReleased'
  BY <1>1, ReleasedGrows DEF HandlersGood, PlansReleased
<1>4. CreatesReleased'
  BY <1>1, ReleasedGrows DEF HandlersGood, CreatesReleased
<1> QED
  BY <1>2, <1>3, <1>4 DEF HandlersGood

LEMMA IdleHandler ==
    ASSUME TypeInv, HandlersGood, HistoryGrows, NEW h \in Handler,
           handler' = [handler EXCEPT ![h] = Idle]
    PROVE  HandlersGood'
<1>1. /\ Idle.op = "idle" /\ Idle.dep = NULL
      /\ \A d \in Job : Idle.plan[d] = "keep"
  BY DEF Idle, NoPlan
<1> QED
  BY <1>1, IdleType, OneHandler

LEMMA ReplyReleased ==
    ASSUME TypeInv, HandlersGood, SlotsReleased, HistoryGrows, NEW h \in Handler, Reply(h)
    PROVE  HandlersGood' /\ SlotsReleased'
<1> USE DEF TypeInv, TypeOK
<1>1. HandlersGood'
  BY IdleHandler DEF Reply
<1>2. \A s \in Slot : slot'[s].job \in {slot[s].job, NULL}
  BY DEF Reply, AfterReply, FreeSlot, SlotState
<1>3. SlotsReleased'
  BY <1>2, ReleasedGrows DEF SlotsReleased
<1> QED
  BY <1>1, <1>3

\* Everything outside the jobs table and the handlers, when it does not change.
LEMMA FrameReleased ==
    ASSUME TypeInv, DependencyInv, HistoryGrows
    PROVE  /\ slot' = slot => SlotsReleased'
           /\ handler' = handler => HandlersGood'
           /\ jobs' = jobs => RowsGood'
           /\ sched' = sched => BatchReleased'
<1>1. slot' = slot => SlotsReleased'
  BY DependencyParts, ReleasedGrows DEF SlotsReleased
<1>2. handler' = handler => HandlersGood'
  BY DependencyParts, ReleasedGrows
  DEF HandlersGood, ReportsReleased, PlansReleased, CreatesReleased
<1>3. jobs' = jobs => RowsGood'
  BY DependencyParts, ReleasedGrows
  DEF RowsGood, DependenciesFirst, CompletedIsDone, HistoryGrows
<1>4. sched' = sched => BatchReleased'
  BY DependencyParts, ReleasedGrows DEF BatchReleased
<1> QED
  BY <1>1, <1>2, <1>3, <1>4

LEMMA DependencyClaim ==
    ASSUME TypeInv, DependencyInv, NEW h \in Handler, ClaimStep(h)
    PROVE  DependencyInv'
<1> USE DEF tables, fleet, queues, history
<1>a. HistoryGrows /\ sched' = sched
  BY DEF ClaimStep, WithinLimit, AtLimit, WinClaim, LoseClaim, HistoryGrows
<1>b. RowsGood /\ HandlersGood /\ SlotsReleased /\ BatchReleased'
  BY <1>a, DependencyParts, FrameReleased
<1> SUFFICES RowsGood' /\ HandlersGood' /\ SlotsReleased'
  BY <1>b DEF DependencyInv, RowsGood, HandlersGood
<1>1. CASE WithinLimit(h)
  <2> DEFINE next == [handler[h] EXCEPT !.op = "update"]
  <2>1. handler[h] \in HandlerState /\ next \in HandlerState
    BY RecordExcept DEF TypeInv, TypeOK, HandlerOp
  <2>2. next.op = "update" /\ next.dep = NULL /\ next.plan = handler[h].plan
    BY <1>1, <1>b, <2>1 DEF WithinLimit, HandlersGood, PlansReleased, HandlerState
  <2>3. \A d \in Job : next.plan[d] \in {"queued", "scheduled"} /\ d # next.dep => Released(d)'
    BY <1>1, <1>a, <1>b, <2>2, ReleasedGrows DEF WithinLimit, HandlersGood, PlansReleased
  <2>4. handler' = [handler EXCEPT ![h] = next]
    BY <1>1 DEF WithinLimit
  <2>5. HandlersGood'
    BY <1>a, <1>b, <2>1, <2>2, <2>3, <2>4, OneHandler
  <2> QED
    BY <1>1, <1>a, <2>5, FrameReleased DEF WithinLimit
<1>2. CASE AtLimit(h)
  BY <1>2, <1>a, <1>b, ReplyReleased, FrameReleased DEF AtLimit
<1>3. CASE WinClaim(h)
  <2> DEFINE j == handler[h].job
             row == Claimed(jobs[j], handler[h].worker)
  <2>1. j \in Job /\ jobs[j] \in Row /\ handler[h].worker \in Worker \cup {NULL}
    BY <1>3 DEF WinClaim, TypeInv, TypeOK, Assigned, HandlerState
  <2>2. row \in Row /\ row.status = "claimed"
    BY <2>1, RowOperators DEF Claimed, Row
  <2>3. Released(j)
    BY <1>3, <1>b, <2>1
    DEF WinClaim, Claimable, RowsGood, DependenciesFirst, Runnable
  <2>4. RowsGood'
    BY <1>3, <1>a, <1>b, <2>1, <2>2, <2>3, ReleasedGrows, OneRow DEF WinClaim
  <2>5. HandlersGood'
    BY <1>3, <1>a, <1>b, IdleHandler DEF WinClaim
  <2>6. \A s \in Slot : slot'[s] = slot[s] \/ slot'[s].job = j \/ slot'[s] = FreeSlot
    BY <1>3 DEF WinClaim, ClaimAnswers
  <2>7. SlotsReleased'
    BY <1>a, <1>b, <2>3, <2>6, ReleasedGrows DEF SlotsReleased, FreeSlot
  <2> QED
    BY <2>4, <2>5, <2>7
<1>4. CASE LoseClaim(h)
  BY <1>4, <1>a, <1>b, ReplyReleased, FrameReleased DEF LoseClaim
<1> QED
  BY <1>1, <1>2, <1>3, <1>4 DEF ClaimStep

\* A row after a session's commit: the status assigned by the session, or the
\* one stored, has to be allowed.
LEMMA WrittenStatus ==
    ASSUME TypeInv, RowsGood, HistoryGrows, NEW j \in Job, NEW row \in Row,
           NEW st \in Status, row.status \in {jobs[j].status, st},
           st = "completed" => j \in everDone',
           st \in Runnable => Released(j)',
           jobs' = [jobs EXCEPT ![j] = row]
    PROVE  RowsGood'
<1>1. row.status \in Runnable => Released(j)'
  BY ReleasedGrows DEF RowsGood, DependenciesFirst
<1>2. row.status = "completed" => j \in everDone'
  BY DEF RowsGood, CompletedIsDone, HistoryGrows
<1> QED
  BY <1>1, <1>2, OneRow

LEMMA FlushedStatus ==
    ASSUME TypeInv, RowsGood, HistoryGrows, NEW j \in Job, NEW old \in Row, NEW new \in Row,
           new.status = "completed" => j \in everDone',
           new.status \in Runnable => Released(j)',
           \/ jobs' = [jobs EXCEPT ![j] = Flush(jobs[j], old, new)]
           \/ \E due \in BOOLEAN :
                 jobs' = [jobs EXCEPT ![j] = FlushRunAt(jobs[j], old, new, due)]
    PROVE  RowsGood'
<1>1. jobs[j] \in Row /\ new.status \in Status
  BY DEF TypeInv, TypeOK, Row
<1>2. CASE jobs' = [jobs EXCEPT ![j] = Flush(jobs[j], old, new)]
  BY <1>1, <1>2, FlushRow, WrittenStatus
<1>3. ASSUME NEW due \in BOOLEAN,
             jobs' = [jobs EXCEPT ![j] = FlushRunAt(jobs[j], old, new, due)]
      PROVE  RowsGood'
  BY <1>1, <1>3, FlushRow, WrittenStatus
<1> QED
  BY <1>2, <1>3

LEMMA AssignedStatus ==
    ASSUME NEW row \in Row
    PROVE  /\ \A st \in Status : WithStatus(row, st).status = st
           /\ Requeued(row).status = "queued"
           /\ Restarted(row).status = "queued"
BY DEF Row, WithStatus, Requeued, Restarted, Status

LEMMA DependencyReport ==
    ASSUME TypeInv, DependencyInv, NEW h \in Handler, ReportStep(h)
    PROVE  DependencyInv'
<1> USE DEF tables, fleet, queues, history
<1>a. HistoryGrows /\ sched' = sched
  BY DEF ReportStep, CommitStart, CommitComplete, CommitRequeue, CommitDead,
         DuplicateDeadLetter, HistoryGrows
<1>b. RowsGood /\ HandlersGood /\ SlotsReleased /\ BatchReleased'
  BY <1>a, DependencyParts, FrameReleased
<1> SUFFICES RowsGood' /\ HandlersGood' /\ SlotsReleased'
  BY <1>b DEF DependencyInv, RowsGood, HandlersGood
<1>c. handler[h].op \in {"start", "complete", "fail"} /\ handler[h] \in HandlerState
  BY DEF ReportStep, CommitStart, CommitComplete, CommitRequeue, CommitDead,
         DuplicateDeadLetter, TypeInv, TypeOK
<1>d. PICK j \in Job, row \in Row : j = handler[h].job /\ row = handler[h].snap
  BY <1>c DEF TypeInv, TypeOK, Assigned, HandlerState
<1>e. Released(j)'
  <2>1. Released(j)
    BY <1>b, <1>c, <1>d DEF HandlersGood, ReportsReleased
  <2> QED
    BY <1>a, <2>1, ReleasedGrows
<1>1. CASE CommitStart(h)
  <2>1. WithStatus(row, "running") \in Row /\ WithStatus(row, "running").status = "running"
    BY RowOperators, AssignedStatus DEF Status
  <2>2. jobs' = [jobs EXCEPT ![j] = Flush(jobs[j], row, WithStatus(row, "running"))]
    BY <1>1, <1>d DEF CommitStart
  <2>3. RowsGood'
    BY <1>a, <1>b, <1>e, <2>1, <2>2, FlushedStatus
  <2> QED
    BY <1>1, <1>a, <1>b, <2>3, ReplyReleased DEF CommitStart
<1>2. CASE CommitComplete(h)
  <2>1. WithStatus(row, "completed") \in Row /\ j \in everDone'
    BY <1>2, <1>d, RowOperators DEF CommitComplete, Status
  <2>2. jobs' = [jobs EXCEPT ![j] = Flush(jobs[j], row, WithStatus(row, "completed"))]
    BY <1>2, <1>d DEF CommitComplete
  <2>3. RowsGood'
    BY <1>a, <1>b, <1>e, <2>1, <2>2, FlushedStatus
  <2>4. PICK next \in HandlerState : next = [handler[h] EXCEPT !.op = "edges"]
    BY <1>c, RecordExcept DEF HandlerOp
  <2>5. next.op = "edges" /\ next.job = j /\ next.dep = NULL /\ next.plan = handler[h].plan
    BY <1>b, <1>c, <1>d, <2>4 DEF HandlersGood, PlansReleased, HandlerState
  <2>6. \A d \in Job : next.plan[d] \in {"queued", "scheduled"} /\ d # next.dep => Released(d)'
    BY <1>a, <1>b, <1>c, <2>5, ReleasedGrows DEF HandlersGood, PlansReleased
  <2>7. handler' = [handler EXCEPT ![h] = next]
    BY <1>2, <2>4 DEF CommitComplete
  <2>8. HandlersGood'
    BY <1>a, <1>b, <1>e, <2>5, <2>6, <2>7, OneHandler
  <2> QED
    BY <1>2, <1>a, <2>3, <2>8, FrameReleased DEF CommitComplete
<1>3. CASE CommitRequeue(h)
  <2>1. Requeued(row) \in Row /\ Requeued(row).status = "queued"
    BY RowOperators, AssignedStatus
  <2>2. jobs' = [jobs EXCEPT ![j] = FlushRunAt(jobs[j], row, Requeued(row), FALSE)]
    BY <1>3, <1>d DEF CommitRequeue
  <2>3. RowsGood'
    BY <1>a, <1>b, <1>e, <2>1, <2>2, FlushedStatus
  <2> QED
    BY <1>3, <1>a, <1>b, <2>3, ReplyReleased DEF CommitRequeue
<1>4. CASE CommitDead(h)
  <2>1. WithStatus(row, "dead") \in Row /\ WithStatus(row, "dead").status = "dead"
    BY RowOperators, AssignedStatus DEF Status
  <2>2. jobs' = [jobs EXCEPT ![j] = Flush(jobs[j], row, WithStatus(row, "dead"))]
    BY <1>4, <1>d DEF CommitDead
  <2>3. RowsGood'
    BY <1>a, <1>b, <1>e, <2>1, <2>2, FlushedStatus
  <2> QED
    BY <1>4, <1>a, <1>b, <2>3, ReplyReleased DEF CommitDead
<1>5. CASE DuplicateDeadLetter(h)
  BY <1>5, <1>a, <1>b, ReplyReleased, FrameReleased DEF DuplicateDeadLetter
<1> QED
  BY <1>1, <1>2, <1>3, <1>4, <1>5 DEF ReportStep

\* The step the invariant is about: a handler keeps a dependent in its plan only
\* if it has seen every dependency of it COMPLETED after marking it.
LEMMA DependencyPromote ==
    ASSUME TypeInv, DependencyInv, NEW h \in Handler, PromoteStep(h)
    PROVE  DependencyInv'
<1> USE DEF tables, fleet, queues, history
<1>a. HistoryGrows /\ sched' = sched
  BY DEF PromoteStep, ReadEdges, ReadDependent, CountRemaining, CommitPromote, HistoryGrows
<1>b. RowsGood /\ HandlersGood /\ SlotsReleased /\ BatchReleased'
  BY <1>a, DependencyParts, FrameReleased
<1> SUFFICES RowsGood' /\ HandlersGood' /\ SlotsReleased'
  BY <1>b DEF DependencyInv, RowsGood, HandlersGood
<1>c. /\ handler[h] \in HandlerState
      /\ handler[h].op # "count" => handler[h].dep = NULL
      /\ \A d \in Job : handler[h].plan[d] \in {"queued", "scheduled"} /\ d # handler[h].dep
                        => Released(d)'
  BY <1>a, <1>b, ReleasedGrows DEF HandlersGood, PlansReleased, TypeInv, TypeOK
\* The reading steps: what has to hold of the plan they leave.
<1>d. ASSUME NEW op \in {"scan", "count"}, NEW plan \in [Job -> Decision],
             NEW dep \in Job \cup {NULL},
             handler' = [handler EXCEPT ![h] = [handler[h] EXCEPT !.op = op, !.plan = plan,
                                                                  !.dep = dep]],
             op = "scan" => dep = NULL,
             \A d \in Job : plan[d] \in {"queued", "scheduled"} /\ d # dep => Released(d)',
             UNCHANGED <<tables, fleet, queues, sched, history>>
      PROVE  RowsGood' /\ HandlersGood' /\ SlotsReleased'
  <2> DEFINE next == [handler[h] EXCEPT !.op = op, !.plan = plan, !.dep = dep]
  <2>1. next \in HandlerState
    BY <1>c DEF HandlerState, HandlerOp
  <2>2. next.op = op /\ next.plan = plan /\ next.dep = dep
    BY <1>c DEF HandlerState
  <2>3. HandlersGood'
    BY <1>a, <1>b, <1>d, <2>1, <2>2, OneHandler
  <2> QED
    BY <1>a, <1>d, <2>3, FrameReleased
<1>1. CASE ReadEdges(h)
  <2> DEFINE plan == [d \in Job |-> IF /\ handler[h].job \in DependsOn[d]
                                       /\ jobs[d].status # "absent"
                                    THEN "todo" ELSE "keep"]
  <2>1. plan \in [Job -> Decision] /\ \A d \in Job : plan[d] \notin {"queued", "scheduled"}
    BY DEF Decision
  <2>2. handler' = [handler EXCEPT ![h] = [handler[h] EXCEPT !.op = "scan", !.plan = plan,
                                                             !.dep = NULL]]
    BY <1>1, <1>c DEF ReadEdges, HandlerState
  <2> QED
    BY <1>1, <1>d, <2>1, <2>2 DEF ReadEdges
<1>2. CASE ReadDependent(h)
  <2>1. PICK d \in Job :
          IF jobs[d].status = "blocked"
          THEN handler' = [handler EXCEPT ![h].op = "count", ![h].dep = d,
                                          ![h].plan[d] = Ready(jobs[d].due)]
          ELSE handler' = [handler EXCEPT ![h].plan[d] = "keep"]
    BY <1>2 DEF ReadDependent
  <2>2. handler[h].op = "scan" /\ handler[h].dep = NULL
        /\ \A k \in Job : handler[h].plan[k] \in {"queued", "scheduled"} => Released(k)'
    BY <1>2, <1>c, NullAssumption DEF ReadDependent
  <2>3. CASE jobs[d].status = "blocked"
    <3> DEFINE plan == [handler[h].plan EXCEPT ![d] = Ready(jobs[d].due)]
    <3>1. plan \in [Job -> Decision]
      BY <1>c DEF HandlerState, Decision, Ready
    <3>2. handler' = [handler EXCEPT ![h] = [handler[h] EXCEPT !.op = "count", !.plan = plan,
                                                               !.dep = d]]
      BY <2>1, <2>3, <1>c DEF HandlerState
    <3>3. \A k \in Job : plan[k] \in {"queued", "scheduled"} /\ k # d => Released(k)'
      BY <1>c, <2>2 DEF HandlerState
    <3> QED
      BY <1>2, <1>d, <3>1, <3>2, <3>3 DEF ReadDependent
  <2>4. CASE jobs[d].status # "blocked"
    <3> DEFINE plan == [handler[h].plan EXCEPT ![d] = "keep"]
    <3>1. plan \in [Job -> Decision]
      BY <1>c DEF HandlerState, Decision
    <3>2. handler' = [handler EXCEPT ![h] = [handler[h] EXCEPT !.plan = plan]]
      BY <2>1, <2>4
    <3>3. [handler[h] EXCEPT !.plan = plan]
          = [handler[h] EXCEPT !.op = "scan", !.plan = plan, !.dep = NULL]
      BY <1>c, <2>2 DEF HandlerState
    <3>4. \A k \in Job : plan[k] \in {"queued", "scheduled"} => Released(k)'
      BY <1>c, <2>2 DEF HandlerState
    <3> QED
      BY <1>2, <1>d, <3>1, <3>2, <3>3, <3>4 DEF ReadDependent
  <2> QED
    BY <2>3, <2>4
<1>3. CASE CountRemaining(h)
  <2> DEFINE d == handler[h].dep
             plan == [handler[h].plan EXCEPT ![d] = IF Remaining(d) = {} THEN @ ELSE "keep"]
  <2>1. plan \in [Job -> Decision]
    BY <1>c DEF HandlerState, Decision
  <2>2. handler' = [handler EXCEPT ![h] = [handler[h] EXCEPT !.op = "scan", !.plan = plan,
                                                             !.dep = NULL]]
    BY <1>3, <1>c DEF CountRemaining, HandlerState
  <2>3. ASSUME NEW k \in Job, plan[k] \in {"queued", "scheduled"}
        PROVE  Released(k)'
    <3>1. CASE k = d
      <4>1. Remaining(k) = {}
        BY <1>c, <2>3, <3>1 DEF HandlerState
      <4>2. DependsOn[k] \subseteq everDone
        BY <1>b, <4>1, JobAssumption DEF Remaining, RowsGood, CompletedIsDone
      <4> QED
        BY <1>a, <4>2, ReleasedGrows DEF Released
    <3>2. CASE k # d
      BY <1>c, <2>3, <3>2 DEF HandlerState
    <3> QED
      BY <3>1, <3>2
  <2> QED
    BY <1>3, <1>d, <2>1, <2>2, <2>3 DEF CountRemaining
<1>4. CASE CommitPromote(h)
  <2> DEFINE plan == handler[h].plan
  <2>1. plan \in [Job -> Decision] /\ \A d \in Job : plan[d] # "todo"
    BY <1>4, <1>c DEF CommitPromote, HandlerState
  <2>2. \A d \in Job : plan[d] # "keep" => plan[d] \in {"queued", "scheduled"} /\ Released(d)'
    BY <1>4, <1>c, <2>1, NullAssumption DEF CommitPromote, Decision
  <2>3. ASSUME NEW d \in Job
        PROVE  \/ jobs'[d] = jobs[d]
               \/ jobs'[d].status \in {"queued", "scheduled"} /\ Released(d)'
    <3>1. jobs'[d] = IF plan[d] = "keep" THEN jobs[d] ELSE WithStatus(jobs[d], plan[d])
      BY <1>4 DEF CommitPromote
    <3>2. jobs[d] \in Row
      BY DEF TypeInv, TypeOK
    <3>3. plan[d] # "keep" => WithStatus(jobs[d], plan[d]).status = plan[d]
      BY <2>2, <3>2, AssignedStatus DEF Status
    <3> QED
      BY <2>2, <3>1, <3>3
  <2>4. RowsGood'
    BY <1>a, <1>b, <2>3, ReleasedGrows
    DEF RowsGood, DependenciesFirst, CompletedIsDone, HistoryGrows
  <2> QED
    BY <1>4, <1>a, <1>b, <2>4, ReplyReleased DEF CommitPromote
<1> QED
  BY <1>1, <1>2, <1>3, <1>4 DEF PromoteStep
LEMMA DependencyOperator ==
    ASSUME TypeInv, DependencyInv, NEW h \in Handler, OperatorStep(h)
    PROVE  DependencyInv'
<1> USE DEF tables, fleet, queues, history
<1>a. HistoryGrows /\ sched' = sched
  BY DEF OperatorStep, CommitCreate, DuplicateKey, CommitCancel, CommitRestart, HistoryGrows
<1>b. RowsGood /\ HandlersGood /\ SlotsReleased /\ BatchReleased'
  BY <1>a, DependencyParts, FrameReleased
<1> SUFFICES RowsGood' /\ HandlersGood' /\ SlotsReleased'
  BY <1>b DEF DependencyInv, RowsGood, HandlersGood
<1>c. Reply(h) /\ handler[h].op \in {"create", "cancel", "retry", "replay"}
  BY DEF OperatorStep, CommitCreate, DuplicateKey, CommitCancel, CommitRestart
<1>d. PICK j \in Job, row \in Row : j = handler[h].job /\ row = handler[h].snap
  BY <1>c DEF TypeInv, TypeOK, Assigned, HandlerState
<1>e. HandlersGood' /\ SlotsReleased'
  BY <1>a, <1>b, <1>c, ReplyReleased
<1>1. CASE CommitCreate(h)
  <2>1. row.status # "completed" /\ (row.status \in Runnable => Released(j))
    BY <1>1, <1>b, <1>d DEF CommitCreate, HandlersGood, CreatesReleased
  <2>2. jobs' = [jobs EXCEPT ![j] = row]
    BY <1>1, <1>d DEF CommitCreate
  <2>3. RowsGood'
    BY <1>a, <1>b, <2>1, <2>2, ReleasedGrows, OneRow
  <2> QED
    BY <1>e, <2>3
<1>2. CASE DuplicateKey(h)
  BY <1>2, <1>a, <1>e, FrameReleased DEF DuplicateKey
<1>3. CASE CommitCancel(h)
  <2>1. WithStatus(row, "dead") \in Row /\ WithStatus(row, "dead").status = "dead"
    BY RowOperators, AssignedStatus DEF Status
  <2>2. jobs' = [jobs EXCEPT ![j] = Flush(jobs[j], row, WithStatus(row, "dead"))]
    BY <1>3, <1>d DEF CommitCancel
  <2>3. RowsGood'
    BY <1>a, <1>b, <2>1, <2>2, FlushedStatus DEF Runnable
  <2> QED
    BY <1>e, <2>3
\* A restarted job may run without its dependencies: it is recorded as forced.
<1>4. CASE CommitRestart(h)
  <2>1. Restarted(row) \in Row /\ Restarted(row).status = "queued"
    BY RowOperators, AssignedStatus
  <2>2. jobs' = [jobs EXCEPT ![j] = FlushRunAt(jobs[j], row, Restarted(row), TRUE)]
    BY <1>4, <1>d DEF CommitRestart
  <2>3. Released(j)'
    BY <1>4, <1>d DEF CommitRestart, Released
  <2>4. RowsGood'
    BY <1>a, <1>b, <2>1, <2>2, <2>3, FlushedStatus
  <2> QED
    BY <1>e, <2>4
<1> QED
  BY <1>1, <1>2, <1>3, <1>4 DEF OperatorStep

\* A new request: it may be about a job that must be released already.
LEMMA SendReleased ==
    ASSUME TypeInv, DependencyInv, HistoryGrows, NEW h \in Handler,
           NEW request \in HandlerState, handler' = [handler EXCEPT ![h] = request],
           request.dep = NULL, request.plan = NoPlan,
           request.op \in {"start", "complete", "edges", "fail"} => Released(request.job)',
           request.op = "create" =>
               /\ request.snap.status # "completed"
               /\ request.snap.status \in Runnable => Released(request.job)'
    PROVE  HandlersGood'
<1>1. HandlersGood /\ \A d \in Job : request.plan[d] = "keep"
  BY DependencyParts DEF NoPlan
<1> QED
  BY <1>1, OneHandler

LEMMA RequestFields ==
    ASSUME NEW op \in HandlerOp \ {"idle"}, NEW j \in Job, NEW row \in Row
    PROVE  /\ \A s \in Slot : /\ Request(op, j, s, row).dep = NULL
                              /\ Request(op, j, s, row).plan = NoPlan
           /\ UserRequest(op, j, row).dep = NULL
           /\ UserRequest(op, j, row).plan = NoPlan
           /\ UserRequest(op, j, row).snap = row
BY DEF Request, UserRequest, Idle

LEMMA DependencySlot ==
    ASSUME TypeInv, DependencyInv, NEW s \in Slot, SlotStep(s)
    PROVE  DependencyInv'
<1> USE DEF tables, fleet, queues, history
<1>a. HistoryGrows /\ sched' = sched /\ jobs' = jobs
  BY DEF SlotStep, Poll, PostStart, PostReport, TaskFails, ReportRefused, HistoryGrows
<1>b. RowsGood' /\ HandlersGood /\ SlotsReleased /\ BatchReleased'
  BY <1>a, DependencyParts, FrameReleased
<1> SUFFICES HandlersGood' /\ SlotsReleased'
  BY <1>b DEF DependencyInv, RowsGood, HandlersGood
<1>c. ASSUME \A t \in Slot : slot'[t].job \in {slot[t].job, NULL}
      PROVE  SlotsReleased'
  BY <1>a, <1>b, <1>c, ReleasedGrows DEF SlotsReleased
<1>1. ASSUME NEW h \in Handler, Poll(h, s)
      PROVE  HandlersGood' /\ SlotsReleased'
  <2>1. PICK j \in Candidates(WorkerOf[s]) :
          Send(h, s, "claim", NULL, Request("claim", j, s, NoRow))
    BY <1>1 DEF Poll
  <2>2. j \in Job /\ NoRow \in Row
    BY SlotAssumption DEF Candidates, Eligible, NoRow, Row, Status
  <2>3. Request("claim", j, s, NoRow) \in HandlerState
    BY <2>2, RequestType DEF HandlerOp
  <2>4. HandlersGood'
    <3>1. Request("claim", j, s, NoRow).op = "claim"
      BY <2>2, RequestType DEF HandlerOp
    <3>2. /\ Request("claim", j, s, NoRow).dep = NULL
          /\ Request("claim", j, s, NoRow).plan = NoPlan
      BY <2>2, RequestFields DEF HandlerOp
    <3> QED
      BY <1>a, <2>1, <2>3, <3>1, <3>2, SendReleased DEF Send
  <2>5. \A t \in Slot : slot'[t].job \in {slot[t].job, NULL}
    BY <2>1 DEF Send, TypeInv, TypeOK
  <2> QED
    BY <2>4, <2>5, <1>c
\* A request of a thread that has a job: the job is released.
<1>d. ASSUME NEW h \in Handler, NEW op \in {"start", "complete", "fail"}, NEW j \in Job,
             NEW request \in HandlerState, j = slot[s].job,
             request.op = op, request.job = j, request.dep = NULL, request.plan = NoPlan,
             Send(h, s, op, j, request)
      PROVE  HandlersGood' /\ SlotsReleased'
  <2>1. Released(j)'
    BY <1>a, <1>b, <1>d, NullAssumption, ReleasedGrows DEF SlotsReleased
  <2>2. HandlersGood'
    BY <1>a, <1>d, <2>1, SendReleased DEF Send
  <2>3. \A t \in Slot : slot'[t].job \in {slot[t].job, NULL}
    BY <1>d DEF Send, TypeInv, TypeOK
  <2> QED
    BY <1>c, <2>2, <2>3
<1>2. ASSUME NEW h \in Handler, PostStart(h, s)
      PROVE  HandlersGood' /\ SlotsReleased'
  <2>1. PICK j \in Job : j = slot[s].job
    BY <1>2 DEF PostStart, TypeInv, TypeOK, Assigned, SlotState
  <2>2. jobs[j] \in Row /\ "start" \in HandlerOp \ {"idle"}
    BY <2>1 DEF TypeInv, TypeOK, HandlerOp
  <2>3. PICK request \in HandlerState : request = Request("start", j, s, jobs[j])
    BY <2>2, RequestType
  <2>4. request.op = "start" /\ request.job = j /\ request.dep = NULL /\ request.plan = NoPlan
    BY <2>2, <2>3, RequestType, RequestFields
  <2> QED
    BY <1>2, <1>d, <2>1, <2>3, <2>4 DEF PostStart
<1>3. ASSUME NEW h \in Handler, PostReport(h, s)
      PROVE  HandlersGood' /\ SlotsReleased'
  <2>1. PICK op \in {"complete", "fail"} :
          /\ slot[s].pc = (IF op = "complete" THEN "run" ELSE "raised")
          /\ \E i \in Latest(slot[s].job) :
                Send(h, s, op, slot[s].job, Report(op, slot[s].job, s, i))
    BY <1>3 DEF PostReport
  <2>2. PICK j \in Job : j = slot[s].job
    BY <2>1 DEF TypeInv, TypeOK, Assigned, SlotState
  <2>3. PICK i \in Latest(j) : Send(h, s, op, j, Report(op, j, s, i))
    BY <2>1, <2>2
  <2>4. PICK request \in HandlerState : request = Report(op, j, s, i)
    BY <2>3, ReportType
  <2>5. request.op = op /\ request.job = j /\ request.dep = NULL /\ request.plan = NoPlan
    BY <2>3, <2>4, ReportType
  <2> QED
    BY <1>d, <2>2, <2>3, <2>4, <2>5
<1>4. CASE TaskFails(s) \/ ReportRefused(s)
  <2>1. PICK next \in SlotState : /\ slot' = [slot EXCEPT ![s] = next]
                                  /\ next.job \in {slot[s].job, NULL}
    <3>1. slot \in [Slot -> SlotState] /\ [slot[s] EXCEPT !.pc = "raised"] \in SlotState
      BY DEF TypeInv, TypeOK, SlotState
    <3>2. [slot[s] EXCEPT !.pc = "raised"].job = slot[s].job /\ FreeSlot.job = NULL
      BY <3>1 DEF SlotState, FreeSlot
    <3>3. CASE TaskFails(s)
      <4>1. slot' = [slot EXCEPT ![s] = [slot[s] EXCEPT !.pc = "raised"]]
        BY <3>3 DEF TaskFails
      <4> QED
        BY <3>1, <3>2, <4>1
    <3>4. CASE ReportRefused(s)
      BY <3>2, <3>4, IdleType DEF ReportRefused
    <3> QED
      BY <1>4, <3>3, <3>4
  <2>2. \A t \in Slot : slot'[t].job \in {slot[t].job, NULL}
    BY <2>1 DEF TypeInv, TypeOK
  <2>3. handler' = handler
    BY <1>4 DEF TaskFails, ReportRefused
  <2> QED
    BY <1>a, <1>c, <2>2, <2>3, FrameReleased
<1> QED
  BY <1>1, <1>2, <1>3, <1>4 DEF SlotStep
LEMMA DependencyScheduler ==
    ASSUME TypeInv, DependencyInv, SchedulerStep
    PROVE  DependencyInv'
<1> USE DEF tables, fleet, queues, history
<1>a. HistoryGrows /\ handler' = handler /\ slot' = slot
  BY DEF SchedulerStep, ReadDueJobs, CommitDueJobs, ReadStuckJobs, CommitReap, HistoryGrows
<1>b. RowsGood /\ BatchReleased /\ HandlersGood' /\ SlotsReleased'
  BY <1>a, DependencyParts, FrameReleased
<1> SUFFICES RowsGood' /\ BatchReleased'
  BY <1>b DEF DependencyInv, RowsGood, HandlersGood
\* A load takes rows of statuses a released job has.
<1>c. ASSUME NEW rows \in SUBSET Job, NEW pass, NEW next, Load(pass, rows, next), jobs' = jobs,
             \A j \in rows : jobs[j].status \in Runnable
      PROVE  RowsGood' /\ BatchReleased'
  <2>1. sched'.batch \subseteq rows
    BY <1>c DEF Load
  <2>2. \A j \in rows : Released(j)'
    BY <1>a, <1>b, <1>c, ReleasedGrows DEF RowsGood, DependenciesFirst
  <2> QED
    BY <1>a, <1>c, <2>1, <2>2, FrameReleased DEF BatchReleased
\* A commit queues the rows of the batch.
<1>d. ASSUME \A j \in Job : \/ jobs'[j] = jobs[j]
                            \/ j \in sched.batch /\ jobs'[j].status = "queued",
             sched'.batch = {}
      PROVE  RowsGood' /\ BatchReleased'
  <2>1. \A j \in sched.batch : Released(j)'
    BY <1>a, <1>b, ReleasedGrows DEF BatchReleased
  <2>2. RowsGood'
    BY <1>a, <1>b, <1>d, <2>1, ReleasedGrows
    DEF RowsGood, DependenciesFirst, CompletedIsDone, HistoryGrows
  <2> QED
    BY <1>d, <2>2 DEF BatchReleased
<1>1. CASE ReadDueJobs
  <2>1. DueJobs \in SUBSET Job /\ \A j \in DueJobs : jobs[j].status \in Runnable
    BY DEF DueJobs, Runnable
  <2> QED
    BY <1>1, <1>c, <2>1 DEF ReadDueJobs
<1>2. CASE CommitDueJobs
  <2>1. \A j \in Job : WithStatus(jobs[j], "queued").status = "queued"
    BY AssignedStatus DEF TypeInv, TypeOK, Status
  <2> QED
    BY <1>2, <1>d, <2>1 DEF CommitDueJobs
<1>3. CASE ReadStuckJobs
  <2>1. StuckJobs \in SUBSET Job /\ \A j \in StuckJobs : jobs[j].status \in Runnable
    BY DEF StuckJobs, Active, Runnable
  <2> QED
    BY <1>3, <1>c, <2>1 DEF ReadStuckJobs
<1>4. CASE CommitReap
  <2>1. \A j \in Job : [Requeued(jobs[j]) EXCEPT !.due = TRUE].status = "queued"
    BY AssignedStatus, RowOperators DEF TypeInv, TypeOK, Row
  <2> QED
    BY <1>4, <1>d, <2>1 DEF CommitReap
<1> QED
  BY <1>1, <1>2, <1>3, <1>4 DEF SchedulerStep

LEMMA DependencyRequest ==
    ASSUME TypeInv, DependencyInv, OperatorRequest
    PROVE  DependencyInv'
<1> USE DEF tables, fleet, queues, history
<1>a. HistoryGrows /\ jobs' = jobs /\ slot' = slot /\ sched' = sched
  BY DEF OperatorRequest, BeginCreate, BeginOperation, Drain, ListWorkers, SetPaused,
         PatchLimit, HistoryGrows
<1>b. RowsGood /\ RowsGood' /\ SlotsReleased' /\ BatchReleased'
  BY <1>a, DependencyParts, FrameReleased
<1> SUFFICES HandlersGood'
  BY <1>b DEF DependencyInv, RowsGood, HandlersGood
\* create_job starts a job past BLOCKED only if it has just read every
\* dependency as COMPLETED.
<1>1. ASSUME NEW h \in Handler, NEW j \in Job, BeginCreate(h, j)
      PROVE  HandlersGood'
  <2>1. PICK row \in Row : /\ row = NewRow(Remaining(j) # {}, j \notin Delayed)
                           /\ row.status # "completed"
                           /\ row.status \in Runnable => Remaining(j) = {}
    BY NewRowType DEF Runnable
  <2>2. PICK request \in HandlerState : request = UserRequest("create", j, row)
    BY RequestType DEF HandlerOp
  <2>3. /\ request.op = "create" /\ request.job = j /\ request.snap = row
        /\ request.dep = NULL /\ request.plan = NoPlan
    BY <2>2, RequestType, RequestFields DEF HandlerOp
  <2>4. Remaining(j) = {} => Released(j)'
    <3>1. Remaining(j) = {} => Released(j)
      BY <1>b, JobAssumption DEF Remaining, RowsGood, CompletedIsDone, Released
    <3> QED
      BY <1>a, <3>1, ReleasedGrows
  <2>5. handler' = [handler EXCEPT ![h] = request]
    BY <1>1, <2>1, <2>2 DEF BeginCreate
  <2> QED
    BY <1>a, <2>1, <2>3, <2>4, <2>5, SendReleased
<1>2. ASSUME NEW h \in Handler, NEW j \in Job, NEW op \in {"cancel", "retry", "replay"},
             BeginOperation(h, op, j)
      PROVE  HandlersGood'
  <2>1. jobs[j] \in Row /\ op \in HandlerOp \ {"idle"}
    BY DEF TypeInv, TypeOK, HandlerOp
  <2>2. PICK request \in HandlerState : request = UserRequest(op, j, jobs[j])
    BY <2>1, RequestType
  <2>3. request.op = op /\ request.dep = NULL /\ request.plan = NoPlan
    BY <2>1, <2>2, RequestType, RequestFields
  <2> QED
    BY <1>2, <1>a, <2>2, <2>3, SendReleased DEF BeginOperation
<1>3. ASSUME handler' = handler
      PROVE  HandlersGood'
  BY <1>3, <1>a, FrameReleased
<1> QED
  BY <1>1, <1>2, <1>3 DEF OperatorRequest, Drain, ListWorkers, SetPaused, PatchLimit

LEMMA DependencyClock ==
    ASSUME TypeInv, DependencyInv, Clock
    PROVE  DependencyInv'
<1> USE DEF tables, fleet, queues, history
<1>a. HistoryGrows /\ handler' = handler /\ slot' = slot /\ sched' = sched
  BY DEF Clock, TimePasses, Heartbeat, GoStale, HistoryGrows
<1>b. RowsGood /\ HandlersGood' /\ SlotsReleased' /\ BatchReleased'
  BY <1>a, DependencyParts, FrameReleased
<1>c. \A j \in Job : jobs'[j].status = jobs[j].status
  <2>1. ASSUME NEW k \in Job, TimePasses(k), NEW j \in Job
        PROVE  jobs'[j].status = jobs[j].status
    <3>1. jobs \in [Job -> Row] /\ [jobs[k] EXCEPT !.due = TRUE].status = jobs[k].status
      BY DEF TypeInv, TypeOK, Row
    <3>2. jobs' = [jobs EXCEPT ![k] = [jobs[k] EXCEPT !.due = TRUE]]
      BY <2>1 DEF TimePasses
    <3> QED
      BY <3>1, <3>2
  <2> QED
    BY <2>1 DEF Clock, Heartbeat, GoStale
<1>d. RowsGood'
  BY <1>a, <1>b, <1>c, ReleasedGrows
  DEF RowsGood, DependenciesFirst, CompletedIsDone, HistoryGrows
<1> QED
  BY <1>b, <1>d DEF DependencyInv, RowsGood, HandlersGood

\* A handler that loses its caller, or reads its rows again, stays committed to
\* the same job and plan.
LEMMA SameDuty ==
    ASSUME HandlersGood, HistoryGrows,
           \A h \in Handler :
              /\ handler'[h].op = handler[h].op
              /\ handler'[h].dep = handler[h].dep
              /\ handler'[h].plan = handler[h].plan
              /\ handler[h].op # "claim" => handler'[h].job = handler[h].job
              /\ handler[h].op = "create" => handler'[h].snap = handler[h].snap
    PROVE  HandlersGood'
<1>1. ReportsReleased'
  BY ReleasedGrows DEF HandlersGood, ReportsReleased
<1>2. PlansReleased'
  BY ReleasedGrows DEF HandlersGood, PlansReleased
<1>3. CreatesReleased'
  BY ReleasedGrows DEF HandlersGood, CreatesReleased
<1> QED
  BY <1>1, <1>2, <1>3 DEF HandlersGood

LEMMA DependencyFailure ==
    ASSUME TypeInv, DependencyInv, Failure
    PROVE  DependencyInv'
<1> USE DEF tables, fleet, queues, history
<1>a. HistoryGrows /\ jobs' = jobs
  BY DEF Failure, WorkerCrash, LoseReply, LateRead, DbError, ApiCrash, TickError, HistoryGrows
<1>b. RowsGood' /\ HandlersGood /\ SlotsReleased
  BY <1>a, DependencyParts, FrameReleased
<1> SUFFICES HandlersGood' /\ SlotsReleased' /\ BatchReleased'
  BY <1>b DEF DependencyInv, RowsGood, HandlersGood
<1>c. handler \in [Handler -> HandlerState] /\ slot \in [Slot -> SlotState]
  BY DEF TypeInv, TypeOK
<1>d. ASSUME \A s \in Slot : slot'[s].job \in {slot[s].job, NULL}
      PROVE  SlotsReleased'
  BY <1>a, <1>b, <1>d, ReleasedGrows DEF SlotsReleased
<1>e. \A s \in Slot : AfterNoReply(slot[s]).job \in {slot[s].job, NULL} /\ FreeSlot.job = NULL
  BY <1>c DEF AfterNoReply, FreeSlot, SlotState
<1>1. ASSUME NEW w \in Worker, WorkerCrash(w)
      PROVE  HandlersGood' /\ SlotsReleased' /\ BatchReleased'
  <2>1. HandlersGood'
    BY <1>1, <1>a, <1>b, <1>c, SameDuty DEF WorkerCrash, HandlerState
  <2>2. SlotsReleased'
    BY <1>1, <1>d, <1>e DEF WorkerCrash
  <2> QED
    BY <1>1, <1>a, <2>1, <2>2, FrameReleased DEF WorkerCrash
<1>2. ASSUME NEW h \in Handler, LoseReply(h)
      PROVE  HandlersGood' /\ SlotsReleased' /\ BatchReleased'
  <2>1. HandlersGood'
    BY <1>2, <1>a, <1>b, <1>c, SameDuty DEF LoseReply, HandlerState
  <2>2. SlotsReleased'
    BY <1>2, <1>c, <1>d, <1>e DEF LoseReply
  <2> QED
    BY <1>2, <1>a, <2>1, <2>2, FrameReleased DEF LoseReply
<1>3. ASSUME NEW h \in Handler, LateRead(h)
      PROVE  HandlersGood' /\ SlotsReleased' /\ BatchReleased'
  <2>1. HandlersGood'
    <3>1. \A g \in Handler \ {h} : handler'[g] = handler[g]
      BY <1>3, <1>c DEF LateRead
    <3>2. handler[h].op # "create"
      BY <1>3 DEF LateRead, Waiting
    <3>3. \/ handler[h].op = "claim" /\ \E k \in Job : handler'[h] = [handler[h] EXCEPT !.job = k]
          \/ \E row \in Row : handler'[h] = [handler[h] EXCEPT !.snap = row]
          \/ \E row, i, st : handler'[h] = [handler[h] EXCEPT !.snap = row, !.exec = i, !.seen = st]
      <4>1. CASE handler[h].op = "claim"
        <5>1. handler[h].worker \in Worker /\ \A w \in Worker : Candidates(w) \subseteq Job
          BY <1>c, <4>1, SlotAssumption
          DEF TypeInv, Assigned, Waiting, HandlerState, Candidates, Eligible
        <5> QED
          BY <1>3, <1>c, <4>1, <5>1 DEF LateRead
      <4>2. CASE handler[h].op = "start"
        <5>1. jobs[handler[h].job] \in Row
          BY <4>2 DEF TypeInv, TypeOK, Assigned, HandlerState
        <5> QED
          BY <1>3, <1>c, <4>2, <5>1 DEF LateRead
      <4>3. CASE handler[h].op \in {"complete", "fail"}
        <5>1. PICK i \in Latest(handler[h].job) :
                handler' = [handler EXCEPT ![h].snap = jobs[handler[h].job], ![h].exec = i,
                              ![h].seen = execs[handler[h].job][i].status]
          BY <1>3, <4>3 DEF LateRead
        <5>2. handler'[h] = [handler[h] EXCEPT !.snap = jobs[handler[h].job], !.exec = i,
                               !.seen = execs[handler[h].job][i].status]
          BY <1>c, <5>1
        <5> QED
          BY <5>2
      <4> QED
        BY <1>3, <4>1, <4>2, <4>3 DEF LateRead, Waiting
    <3>4. /\ handler'[h].op = handler[h].op
          /\ handler'[h].dep = handler[h].dep
          /\ handler'[h].plan = handler[h].plan
          /\ handler[h].op # "claim" => handler'[h].job = handler[h].job
      BY <1>c, <3>3 DEF HandlerState
    <3> QED
      BY <1>a, <1>b, <3>1, <3>2, <3>4, SameDuty
  <2> QED
    BY <1>3, <1>a, <2>1, FrameReleased DEF LateRead
<1>4. ASSUME NEW h \in Handler, DbError(h)
      PROVE  HandlersGood' /\ SlotsReleased' /\ BatchReleased'
  BY <1>4, <1>a, <1>b, ReplyReleased, FrameReleased DEF DbError
<1>5. CASE ApiCrash
  <2>1. \A h \in Handler : handler'[h] = Idle
    BY <1>5 DEF ApiCrash
  <2>2. /\ Idle.op = "idle" /\ Idle.dep = NULL
        /\ \A d \in Job : Idle.plan[d] = "keep"
    BY DEF Idle, NoPlan
  <2>3. HandlersGood'
    BY <2>1, <2>2 DEF HandlersGood, ReportsReleased, PlansReleased, CreatesReleased
  <2>4. SlotsReleased'
    BY <1>5, <1>d, <1>e DEF ApiCrash
  <2> QED
    BY <1>5, <1>a, <2>3, <2>4, FrameReleased DEF ApiCrash
<1>6. CASE TickError
  BY <1>6, <1>a, FrameReleased DEF TickError, BatchReleased
<1> QED
  BY <1>1, <1>2, <1>3, <1>4, <1>5, <1>6 DEF Failure

LEMMA DependencyInit == Init => DependencyInv
<1> SUFFICES ASSUME Init PROVE DependencyInv
  OBVIOUS
<1>1. ASSUME NEW j \in Job
      PROVE  /\ jobs[j].status # "completed"
             /\ jobs[j].status \in Runnable => Released(j)
  <2>1. CASE j \in Preloaded
    <3>1. jobs[j] = NewRow(DependsOn[j] # {}, j \notin Delayed)
      BY <2>1 DEF Init
    <3>2. jobs[j].status = IF DependsOn[j] # {} THEN "blocked" ELSE Ready(j \notin Delayed)
      BY <3>1, NewRowType
    <3>3. Ready(j \notin Delayed) \in {"queued", "scheduled"}
      BY NewRowType
    <3> QED
      BY <3>2, <3>3 DEF Runnable, Released
  <2>2. CASE j \notin Preloaded
    BY <2>2 DEF Init, NoRow, Runnable
  <2> QED
    BY <2>1, <2>2
<1>2. DependenciesFirst /\ CompletedIsDone
  BY <1>1 DEF DependenciesFirst, CompletedIsDone
<1>3. SlotsReleased /\ BatchReleased
  BY DEF Init, FreeSlot, SlotsReleased, BatchReleased
<1>4. ReportsReleased /\ PlansReleased /\ CreatesReleased
  BY DEF Init, Idle, NoPlan, ReportsReleased, PlansReleased, CreatesReleased
<1> QED
  BY <1>2, <1>3, <1>4 DEF DependencyInv

LEMMA DependencyStep == TypeInv /\ DependencyInv /\ [Next]_vars => DependencyInv'
<1> SUFFICES ASSUME TypeInv, DependencyInv, [Next]_vars PROVE DependencyInv'
  OBVIOUS
<1>1. ASSUME NEW h \in Handler, HandlerStep(h) PROVE DependencyInv'
  BY <1>1, DependencyClaim, DependencyReport, DependencyPromote, DependencyOperator
  DEF HandlerStep
<1>2. ASSUME NEW s \in Slot, SlotStep(s) PROVE DependencyInv'
  BY <1>2, DependencySlot
<1>3. CASE SchedulerStep
  BY <1>3, DependencyScheduler
<1>4. CASE OperatorRequest
  BY <1>4, DependencyRequest
<1>5. CASE Clock
  BY <1>5, DependencyClock
<1>6. CASE Failure
  BY <1>6, DependencyFailure
<1>7. CASE UNCHANGED vars
  <2>1. HistoryGrows
    BY <1>7 DEF vars, HistoryGrows
  <2>2. slot' = slot /\ handler' = handler /\ jobs' = jobs /\ sched' = sched
    BY <1>7 DEF vars
  <2> QED
    BY <2>1, <2>2, FrameReleased DEF DependencyInv, RowsGood, HandlersGood
<1> QED
  BY <1>1, <1>2, <1>3, <1>4, <1>5, <1>6, <1>7 DEF Next

\* The inductive invariant of the workflow: nothing that is on its way to a
\* row - a thread's job, a report, a plan of promotions, a creation, the
\* scheduler's batch - concerns a job whose dependencies are not all done,
\* whatever crashes, is lost, is late or is retried.
THEOREM DependenciesTracked == Spec => []DependencyInv
<1>1. Init => TypeInv /\ DependencyInv
  BY TypeInit, DependencyInit
<1>2. (TypeInv /\ DependencyInv) /\ [Next]_vars => (TypeInv /\ DependencyInv)'
  BY TypeStep, DependencyStep
<1> QED
  BY <1>1, <1>2, PTL DEF Spec

\* A job is never scheduled, queued, claimed, running or completed before every
\* dependency it was submitted with has COMPLETED, unless an operator retried
\* or replayed it.
THEOREM DependenciesComeFirst == Spec => []DependenciesFirst
<1>1. DependencyInv => DependenciesFirst
  BY DEF DependencyInv
<1> QED
  BY <1>1, DependenciesTracked, PTL


=============================================================================
