------------------------ MODULE WorkerProcessProofs ------------------------
(***************************************************************************)
(* Proofs about WorkerProcess for any jobs and any finite set of threads,  *)
(* whichever requests are lost, late or answered with an error: types, the *)
(* capacity of the worker, and that it works on its own jobs only.         *)
(***************************************************************************)
EXTENDS WorkerProcess, FiniteSetTheorems, SequenceTheorems, TLAPS

-----------------------------------------------------------------------------
(* The inductive invariants.                                               *)

\* What ties the main thread's place to the job in its hands, and both to the
\* count: without the last part nothing says that a claimed job finds room.
MainSound ==
    /\ main.pc \in {"count", "add", "submit", "inside"} => main.job # NULL
    /\ main.job # NULL => main.pc \in {"asked", "count", "add", "submit", "inside"}
    /\ request = "sent" => main.pc = "asked" /\ main.job = NULL
    /\ main.pc \in {"asked", "count"} => active < Concurrency

BusyHaveJobs == \A t \in Busy : thread[t].job \in Job

Counts ==
    /\ TypeOK
    /\ BusyHaveJobs
    /\ MainSound
    /\ CapacityRespected

\* The threads that still have a report to send.
Working == {t \in Thread : thread[t].pc \notin {"idle", "finally"}}

InBacklog(j) == \E i \in DOMAIN backlog : backlog[i] = j

\* A job that is not a stray is in one place only.
OnePlace ==
    /\ \A t, u \in Working :
          (thread[t].job = thread[u].job /\ thread[t].job \notin strays) => t = u
    /\ \A i, k \in DOMAIN backlog :
          (backlog[i] = backlog[k] /\ backlog[i] \notin strays) => i = k
    /\ \A t \in Working : thread[t].job \notin strays =>
          thread[t].job # main.job /\ ~InBacklog(thread[t].job)
    /\ (main.job \in Job /\ main.job \notin strays) => ~InBacklog(main.job)

\* In which no claim can give it away: what waits is held in the table, and what
\* has no more than a /fail before it is not in the queue yet.
StillHeld ==
    /\ \A j \in Job \ strays : (main.job = j \/ InBacklog(j)) => j \in mine /\ status[j] \in Held
    /\ \A t \in Working : thread[t].job \notin strays =>
          /\ status[thread[t].job] # "queued"
          /\ thread[t].pc # "fail" => thread[t].job \in mine /\ status[thread[t].job] \in Held

Owns == OnePlace /\ StillHeld

-----------------------------------------------------------------------------
(* The worker's capacity.                                                  *)

\* Busy threads and the backlog are counted in natural numbers.
LEMMA CountsAreNumbers ==
    ASSUME Counts
    PROVE  /\ IsFiniteSet(Busy) /\ Cardinality(Busy) \in Nat
           /\ Len(backlog) \in Nat /\ active \in Nat
           /\ Concurrency \in Nat /\ Concurrency # 0
<1>1. IsFiniteSet(Thread) /\ Thread # {} /\ Busy \subseteq Thread
  BY ThreadAssumption DEF Busy
<1>2. IsFiniteSet(Busy)
  BY <1>1, FS_Subset
<1>3. Cardinality(Thread) \in Nat /\ Cardinality(Busy) \in Nat
  BY <1>1, <1>2, FS_CardinalityType
<1>4. Cardinality(Thread) # 0
  BY <1>1, FS_EmptySet
<1>5. Len(backlog) \in Nat /\ active \in Nat
  BY LenProperties DEF Counts, TypeOK
<1> QED
  BY <1>2, <1>3, <1>4, <1>5 DEF Concurrency

LEMMA InitialCounts == Init => Counts
<1> SUFFICES ASSUME Init PROVE Counts
  OBVIOUS
<1>1. TypeOK
  <2>1. backlog \in Seq(Job)
    BY EmptySeq DEF Init
  <2>2. thread \in [Thread -> [pc : ThreadPc, job : Job \cup {NULL}]]
    BY DEF Init, ThreadPc, IdleThread
  <2>3. missed \in 0..Patience
    BY PatienceAssumption DEF Init
  <2> QED
    BY <2>1, <2>2, <2>3 DEF Init, TypeOK, MainPc
<1>2. Busy = {} /\ Len(backlog) = 0
  BY DEF Init, Busy, IdleThread
<1>3. Cardinality({}) = 0
  BY FS_EmptySet
<1>4. Concurrency \in Nat
  BY ThreadAssumption, FS_CardinalityType DEF Concurrency
<1>5. CapacityRespected
  BY <1>2, <1>3, <1>4 DEF Init, CapacityRespected
<1>6. MainSound
  BY DEF Init, MainSound
<1> QED
  BY <1>1, <1>2, <1>5, <1>6 DEF Counts, BusyHaveJobs

\* A step that leaves the main thread, the executor and the count alone.
LEMMA RowsOnly ==
    ASSUME Counts, TypeOK', UNCHANGED <<main, request, active, backlog, thread>>
    PROVE  Counts'
BY DEF Counts, BusyHaveJobs, Busy, MainSound, CapacityRespected

\* A busy thread that goes on stays as busy as it was.
LEMMA ThreadGoesOn ==
    ASSUME Counts, TypeOK', UNCHANGED <<main, request, active, backlog>>,
           NEW t \in Thread, thread[t].pc # "idle",
           NEW pc, pc # "idle", ThreadGoto(t, pc)
    PROVE  Counts'
<1>1. /\ thread' \in [Thread -> [pc : ThreadPc, job : Job \cup {NULL}]]
      /\ \A u \in Thread : /\ thread'[u].job = thread[u].job
                           /\ thread'[u].pc = "idle" <=> thread[u].pc = "idle"
  BY DEF ThreadGoto, TypeOK, Counts
<1>2. Busy' = Busy
  BY <1>1 DEF Busy
<1>3. BusyHaveJobs'
  BY <1>1, <1>2 DEF BusyHaveJobs, Counts, Busy
<1> QED
  BY <1>2, <1>3 DEF Counts, MainSound, CapacityRespected

\* What a report does to the rows.
LEMMA CommitTypes ==
    ASSUME TypeOK, NEW j \in Job, NEW pc, Commit(j, pc)
    PROVE  /\ status' \in [Job -> {"queued", "claimed", "running", "ended"}]
           /\ mine' \subseteq Job
           /\ \A k \in Job \ {j} : status'[k] = status[k] /\ (k \in mine' <=> k \in mine)
           /\ pc = "start" => status'[j] = "running" /\ mine' = mine
           /\ status'[j] = "queued" => pc = "fail"
BY DEF TypeOK, Commit

\* What a request given up on leaves before the API.
LEMMA LateTypes ==
    ASSUME TypeOK, NEW r \in Requests, MaybeLate(r)
    PROVE  late' \subseteq Requests
BY DEF TypeOK, MaybeLate

\* The main thread keeps its job while it goes from one place to the next.
LEMMA MainGoesOn ==
    ASSUME Counts, TypeOK', UNCHANGED <<active, backlog, thread>>,
           main'.job = main.job \/ main'.job = NULL,
           MainSound',
           (main.pc \in {"add", "submit", "inside"}) <=> (main'.pc \in {"add", "submit", "inside"})
    PROVE  Counts'
<1>1. Busy' = Busy /\ BusyHaveJobs'
  BY DEF Busy, BusyHaveJobs, Counts
<1>2. CapacityRespected'
  BY <1>1, CountsAreNumbers DEF Counts, CapacityRespected, Concurrency
<1> QED
  BY <1>1, <1>2 DEF Counts

\* The main thread: what it claims has room.
LEMMA MainCounts ==
    ASSUME Counts, MainStep \/ ClaimRaises
    PROVE  Counts'
<1> USE DEF Counts
<1>0. TypeOK /\ CapacityRespected /\ MainSound
  OBVIOUS
<1>n. /\ Cardinality(Busy) \in Nat /\ Len(backlog) \in Nat
      /\ Concurrency \in Nat /\ active \in Nat
  BY CountsAreNumbers
<1>1. CASE TakeLock
  <2>1. TypeOK'
    BY <1>0, <1>1 DEF TypeOK, TakeLock, MainAt, MainGoto, MainPc, rows, rest, lateness
  <2>2. /\ UNCHANGED <<request, active, backlog, thread>> /\ main'.job = main.job
        /\ main.pc = "check" /\ main'.pc = "test"
    BY <1>0, <1>1 DEF TypeOK, TakeLock, MainAt, MainGoto, rest
  <2> QED
    BY <1>0, <2>1, <2>2, MainGoesOn DEF MainSound
<1>2. CASE Test
  <2>1. TypeOK'
    BY <1>0, <1>2 DEF TypeOK, Test, MainAt, MainGoto, MainPc, rows, rest, lateness
  <2>2. /\ UNCHANGED <<active, backlog, thread>> /\ main'.job = main.job
        /\ main.pc = "test" /\ main'.pc \in {"nap", "asked"}
        /\ main'.pc = "asked" => active < Concurrency /\ request' = "sent"
        /\ main'.pc = "nap" => request' = request
    BY <1>0, <1>2, <1>n DEF TypeOK, Test, AtCapacity, MainAt, MainGoto, MainPc, rows, rest
  <2>3. MainSound'
    BY <1>0, <2>2 DEF MainSound, Concurrency
  <2> QED
    BY <2>1, <2>2, <2>3, MainGoesOn
<1>3. CASE WakeUp
  <2>1. TypeOK'
    BY <1>0, <1>3 DEF TypeOK, WakeUp, MainAt, MainGoto, MainPc, rows, rest, lateness
  <2>2. /\ UNCHANGED <<request, active, backlog, thread>> /\ main'.job = main.job
        /\ main.pc \in {"nap", "idle"} /\ main'.pc = "check"
    BY <1>0, <1>3 DEF TypeOK, WakeUp, MainAt, MainGoto, rest
  <2> QED
    BY <1>0, <2>1, <2>2, MainGoesOn DEF MainSound
<1>4. CASE Answered
  <2>1. TypeOK'
    BY <1>0, <1>4 DEF TypeOK, Answered, MainAt, MainGoto, MainPc, rows, rest, lateness
  <2>2. /\ UNCHANGED <<active, backlog, thread>> /\ main'.job = main.job
        /\ main.pc = "asked" /\ request' = "none"
        /\ main'.pc = IF main.job = NULL THEN "idle" ELSE "count"
    BY <1>0, <1>4 DEF TypeOK, Answered, MainAt, MainGoto, rest
  <2>3. MainSound'
    BY <1>0, <2>2 DEF MainSound, Concurrency
  <2> QED
    BY <2>1, <2>2, <2>3, MainGoesOn
<1>5. CASE ClaimRaises
  <2>1. /\ UNCHANGED <<active, backlog, thread>> /\ main' = [pc |-> "idle", job |-> NULL]
        /\ main.pc = "asked" /\ request' = "none"
        /\ UNCHANGED <<rows, rest, strays>>
    BY <1>5 DEF ClaimRaises, MainAt, rows, rest
  <2>2. late' \subseteq Requests
    BY <1>0, <1>5, LateTypes DEF ClaimRaises, Requests, TypeOK
  <2>3. TypeOK'
    BY <1>0, <2>1, <2>2 DEF TypeOK, MainPc, rows, rest
  <2> QED
    BY <1>0, <2>1, <2>3, MainGoesOn DEF MainSound
<1>6. CASE Count
  <2>1. TypeOK'
    BY <1>0, <1>6 DEF TypeOK, Count, MainAt, MainGoto, MainPc, rows, rest, lateness
  <2>2. /\ active' = active + 1 /\ UNCHANGED <<request, backlog, thread>>
        /\ main.pc = "count" /\ main'.pc = "add" /\ main'.job = main.job
    BY <1>0, <1>6 DEF TypeOK, Count, MainAt, MainGoto, MainPc, rows, rest
  <2>3. Busy' = Busy /\ BusyHaveJobs' /\ MainSound'
    BY <1>0, <2>2 DEF Busy, BusyHaveJobs, MainSound
  <2>4. CapacityRespected'
    BY <1>0, <1>n, <2>2, <2>3 DEF CapacityRespected, MainSound, Concurrency
  <2> QED
    BY <2>1, <2>3, <2>4
<1>7. CASE ReleaseLock \/ EnterSubmit
  <2>1. TypeOK'
    BY <1>0, <1>7 DEF TypeOK, ReleaseLock, EnterSubmit, MainAt, MainGoto, MainPc, rows, rest,
                      lateness
  <2>2. /\ UNCHANGED <<request, active, backlog, thread>> /\ main'.job = main.job
        /\ main.pc \in {"add", "submit"} /\ main'.pc \in {"submit", "inside"}
    BY <1>0, <1>7 DEF TypeOK, ReleaseLock, EnterSubmit, MainAt, MainGoto, rest
  <2> QED
    BY <1>0, <2>1, <2>2, MainGoesOn DEF MainSound
<1>8. CASE LeaveSubmit
  <2>1. TypeOK'
    BY <1>0, <1>8 DEF TypeOK, LeaveSubmit, MainAt, MainGoto, MainPc, rows, rest, lateness
  <2>2. /\ UNCHANGED <<request, active, backlog, thread>> /\ main'.job = main.job
        /\ main.pc = "put" /\ main'.pc = "check"
    BY <1>0, <1>8 DEF TypeOK, LeaveSubmit, MainAt, MainGoto, rest
  <2> QED
    BY <1>0, <2>1, <2>2, MainGoesOn DEF MainSound
<1>9. CASE Submit
  <2>1. /\ main.pc = "inside" /\ main.job \in Job /\ main.job # NULL
        /\ main' = [pc |-> "put", job |-> NULL]
        /\ UNCHANGED <<request, active, thread>>
        /\ backlog' = Append(backlog, main.job)
    BY <1>0, <1>9 DEF TypeOK, Submit, MainAt, MainSound, rows, rest
  <2>2. backlog' \in Seq(Job) /\ Len(backlog') = Len(backlog) + 1
    BY <1>0, <2>1, AppendProperties DEF TypeOK
  <2>3. TypeOK'
    BY <1>0, <1>9, <2>1, <2>2 DEF TypeOK, Submit, MainPc, rows, rest, lateness
  <2>4. Busy' = Busy /\ BusyHaveJobs' /\ MainSound'
    BY <1>0, <2>1 DEF Busy, BusyHaveJobs, MainSound
  <2>5. CapacityRespected'
    BY <1>0, <1>n, <2>1, <2>2, <2>4 DEF CapacityRespected, Concurrency
  <2> QED
    BY <2>3, <2>4, <2>5
<1> QED
  BY <1>1, <1>2, <1>3, <1>4, <1>5, <1>6, <1>7, <1>8, <1>9 DEF MainStep

LEMMA ClaimCounts ==
    ASSUME Counts, NEW j \in Job \cup {NULL}, ServeClaim(j)
    PROVE  Counts'
<1>1. /\ request = "sent" /\ request' = "answered"
      /\ main.pc = "asked" /\ main.job = NULL /\ active < Concurrency
      /\ main'.pc = "asked" /\ main'.job = j
      /\ UNCHANGED <<active, backlog, thread>>
  BY DEF ServeClaim, Counts, MainSound, TypeOK, rest
<1>2. TypeOK'
  BY <1>1 DEF ServeClaim, Counts, TypeOK, MainPc, rows, rest, lateness
<1>3. MainSound' /\ BusyHaveJobs' /\ Busy' = Busy
  BY <1>1 DEF Counts, MainSound, BusyHaveJobs, Busy, Concurrency
<1>4. CapacityRespected'
  BY <1>1, <1>3, CountsAreNumbers DEF Counts, CapacityRespected, Concurrency
<1> QED
  BY <1>2, <1>3, <1>4 DEF Counts

\* The executor takes a job from the backlog, or gives its thread back: one
\* less here is one more there, and a thread that ends is counted off once.
LEMMA PickCounts ==
    ASSUME Counts, NEW t \in Thread, Pick(t)
    PROVE  Counts'
<1>1. /\ thread[t].pc = "idle" /\ backlog # <<>> /\ backlog' = Tail(backlog)
      /\ thread' = [thread EXCEPT ![t] = [pc |-> "start", job |-> Head(backlog)]]
      /\ UNCHANGED <<main, request, active>>
  BY DEF Pick, ThreadAt
<1>2. /\ Head(backlog) \in Job /\ backlog' \in Seq(Job)
      /\ Len(backlog') = Len(backlog) - 1
  BY <1>1, HeadTailProperties DEF Counts, TypeOK
<1>3. TypeOK'
  BY <1>1, <1>2 DEF Pick, Counts, TypeOK, ThreadPc, rows, rest, lateness
<1>4. t \notin Busy /\ Busy' = Busy \cup {t} /\ BusyHaveJobs'
  BY <1>1, <1>2 DEF Counts, TypeOK, Busy, BusyHaveJobs
<1>5. Cardinality(Busy') = Cardinality(Busy) + 1
  BY <1>4, CountsAreNumbers, FS_AddElement
<1>6. CapacityRespected'
  <2>1. /\ Cardinality(Busy) \in Nat /\ Len(backlog) \in Nat
        /\ Concurrency \in Nat /\ active \in Nat
    BY CountsAreNumbers
  <2>2. UNCHANGED <<main, active>> /\ CapacityRespected
    BY <1>1 DEF Counts
  <2>3. Len(backlog') = Len(backlog) - 1 /\ Cardinality(Busy') = Cardinality(Busy) + 1
    BY <1>2, <1>5
  <2> QED
    BY <2>1, <2>2, <2>3 DEF CapacityRespected, Concurrency
<1> QED
  BY <1>1, <1>3, <1>4, <1>6 DEF Counts, MainSound

LEMMA FinishCounts ==
    ASSUME Counts, NEW t \in Thread, Finish(t)
    PROVE  Counts'
<1>1. /\ thread[t].pc = "finally" /\ active' = active - 1
      /\ thread' = [thread EXCEPT ![t] = IdleThread]
      /\ UNCHANGED <<main, request, backlog>>
  BY DEF Finish, ThreadAt
<1>2. t \in Busy /\ Busy' = Busy \ {t} /\ BusyHaveJobs'
  BY <1>1 DEF Counts, TypeOK, Busy, BusyHaveJobs, IdleThread
<1>3. /\ Cardinality(Busy') = Cardinality(Busy) - 1
      /\ Cardinality(Busy) # 0
  BY <1>2, CountsAreNumbers, FS_RemoveElement, FS_EmptySet
<1>4. active' \in Nat
  BY <1>1, <1>3, CountsAreNumbers DEF Counts, CapacityRespected
<1>5. TypeOK'
  BY <1>1, <1>4 DEF Finish, Counts, TypeOK, IdleThread, ThreadPc, rows, rest, lateness
<1>6. CapacityRespected'
  BY <1>1, <1>3, CountsAreNumbers DEF Counts, CapacityRespected, Concurrency
<1>7. MainSound'
  BY <1>1, CountsAreNumbers DEF Counts, MainSound, Concurrency
<1> QED
  BY <1>2, <1>5, <1>6, <1>7 DEF Counts

\* A report, whether it is served, lost or late.
LEMMA ReportCounts ==
    ASSUME Counts, NEW t \in Thread, NEW pc \in Reports, Post(t, pc) \/ PostRaises(t, pc)
    PROVE  Counts'
<1>1. /\ thread[t].pc = pc /\ pc # "idle" /\ t \in Busy
      /\ Commit(thread[t].job, pc) \/ UNCHANGED rows
      /\ UNCHANGED <<main, request, active, backlog, rest, strays>>
  BY DEF Post, PostRaises, GivenUp, ThreadAt, Reports, Busy, lateness
<1>2. thread[t].job \in Job /\ TypeOK
  BY <1>1 DEF Counts, BusyHaveJobs
<1>3. PICK next \in {"run", "fail", "finally"} : ThreadGoto(t, next)
  BY DEF Post, PostRaises
<1>4. late' \subseteq Requests
  <2>1. [job |-> thread[t].job, pc |-> pc] \in Requests
    BY <1>2 DEF Requests
  <2> QED
    BY <1>2, <2>1, LateTypes DEF Post, PostRaises, GivenUp, TypeOK, lateness
<1>5. status' \in [Job -> {"queued", "claimed", "running", "ended"}] /\ mine' \subseteq Job
  BY <1>1, <1>2, CommitTypes DEF TypeOK, rows
<1>6. TypeOK'
  BY <1>1, <1>2, <1>3, <1>4, <1>5 DEF ThreadGoto, TypeOK, ThreadPc, rest
<1> QED
  BY <1>1, <1>3, <1>6, ThreadGoesOn

LEMMA LateCounts ==
    ASSUME Counts, (\E r \in late : ServeLate(r)) \/ (\E j \in Job : ServeLateClaim(j))
    PROVE  Counts'
<1>1. TypeOK
  BY DEF Counts
<1>2. CASE \E r \in late : ServeLate(r)
  <2>1. PICK r \in late : ServeLate(r)
    BY <1>2
  <2>2. r.job \in Job
    BY <1>1, <2>1 DEF TypeOK, Requests, Reports, ServeLate
  <2>3. TypeOK'
    BY <1>1, <2>1, <2>2, CommitTypes DEF TypeOK, ServeLate, rest
  <2> QED
    BY <2>1, <2>3, RowsOnly DEF ServeLate
<1>3. CASE \E j \in Job : ServeLateClaim(j)
  <2>1. PICK j \in Job : ServeLateClaim(j)
    BY <1>3
  <2>2. TypeOK'
    BY <1>1, <2>1 DEF TypeOK, ServeLateClaim, rest
  <2> QED
    BY <2>1, <2>2, RowsOnly DEF ServeLateClaim
<1> QED
  BY <1>2, <1>3

LEMMA CountsKept == Counts /\ [Next]_vars => Counts'
<1> SUFFICES ASSUME Counts, [Next]_vars
             PROVE  Counts'
  OBVIOUS
<1>0. TypeOK
  BY DEF Counts
<1>1. CASE MainStep \/ ClaimRaises
  BY <1>1, MainCounts
<1>2. ASSUME NEW j \in Job \cup {NULL}, ServeClaim(j) PROVE Counts'
  BY <1>2, ClaimCounts
<1>3. ASSUME NEW t \in Thread, ThreadStep(t) PROVE Counts'
  <2>1. CASE Pick(t)
    BY <2>1, PickCounts
  <2>2. CASE RunTask(t)
    <3>1. PICK pc \in {"complete", "fail"} : ThreadGoto(t, pc)
      BY <2>2 DEF RunTask
    <3>2. TypeOK'
      BY <1>0, <2>2, <3>1 DEF RunTask, ThreadAt, ThreadGoto, TypeOK, ThreadPc, rows, rest, lateness
    <3>3. thread[t].pc # "idle" /\ UNCHANGED <<main, request, active, backlog>>
      BY <2>2 DEF RunTask, ThreadAt
    <3> QED
      BY <3>1, <3>2, <3>3, ThreadGoesOn
  <2>3. ASSUME NEW pc \in Reports, Post(t, pc) PROVE Counts'
    BY <2>3, ReportCounts
  <2> QED
    BY <1>3, <2>1, <2>2, <2>3 DEF ThreadStep
<1>4. ASSUME NEW t \in Thread, Finish(t) PROVE Counts'
  BY <1>4, FinishCounts
<1>5. ASSUME NEW t \in Thread, NEW pc \in Reports, PostRaises(t, pc) PROVE Counts'
  BY <1>5, ReportCounts
<1>6. CASE (\E r \in late : ServeLate(r)) \/ (\E j \in Job : ServeLateClaim(j))
  BY <1>6, LateCounts
<1>7. CASE BeatAgain \/ ReadActive \/ PostBeat \/ BeatRaises \/ Signal \/ Exit \/ Timeout
  <2>1. missed' \in 0..Patience
    BY <1>0, <1>7, PatienceAssumption
       DEF BeatAgain, ReadActive, PostBeat, BeatRaises, Signal, Exit, Timeout, TypeOK
  <2>2. TypeOK' /\ UNCHANGED <<main, request, active, backlog, thread>>
    BY <1>0, <1>7, <2>1
       DEF BeatAgain, ReadActive, PostBeat, BeatRaises, Signal, Exit, Timeout, TypeOK, rows, lateness
  <2> QED
    BY <2>2, RowsOnly
<1>8. ASSUME NEW j \in Job, Reap(j) PROVE Counts'
  <2>1. TypeOK' /\ UNCHANGED <<main, request, active, backlog, thread>>
    BY <1>0, <1>8 DEF Reap, TypeOK, rest
  <2> QED
    BY <2>1, RowsOnly
<1>9. CASE UNCHANGED vars
  <2>1. TypeOK' /\ UNCHANGED <<main, request, active, backlog, thread>>
    BY <1>0, <1>9 DEF vars, TypeOK
  <2> QED
    BY <2>1, RowsOnly
<1> QED
  BY <1>1, <1>2, <1>3, <1>4, <1>5, <1>6, <1>7, <1>8, <1>9 DEF Next

-----------------------------------------------------------------------------
(* The worker keeps its jobs.                                              *)

\* Nobody is in a place he was not in: no job gets into a second one.
LEMMA SamePlaces ==
    ASSUME Counts, OnePlace, UNCHANGED backlog, strays \subseteq strays',
           main'.job = main.job \/ main'.job = NULL,
           \A t \in Working' : t \in Working /\ thread'[t].job = thread[t].job
    PROVE  OnePlace'
<1>1. \A t \in Working : thread[t].job \in Job
  BY DEF Counts, BusyHaveJobs, Working, Busy
<1>2. \A t \in Working' : InBacklog(thread[t].job)' <=> InBacklog(thread[t].job)
  BY DEF InBacklog
<1> QED
  BY <1>1, NullAssumption DEF OnePlace, InBacklog

\* What is where it was, and as it was in the table, or out of the worker's hands.
LEMMA RowsKept ==
    ASSUME Counts, Owns, UNCHANGED backlog, strays \subseteq strays',
           main'.job = main.job \/ main'.job = NULL,
           \A t \in Working' : /\ t \in Working /\ thread'[t].job = thread[t].job
                               /\ thread'[t].pc # "fail" => thread[t].pc # "fail",
           \A j \in Job \ strays' : \/ ~InHand(j)
                                    \/ status'[j] = status[j] /\ (j \in mine => j \in mine')
    PROVE  Owns'
<1>1. OnePlace'
  BY SamePlaces DEF Owns
<1>2. \A t \in Working : thread[t].job \in Job /\ InHand(thread[t].job)
  BY DEF Counts, BusyHaveJobs, Working, Busy, InHand
<1>3. \A j \in Job : (main.job = j \/ InBacklog(j)) => InHand(j)
  BY DEF InBacklog, InHand
<1>4. StillHeld'
  <2>1. ASSUME NEW j \in Job \ strays', main'.job = j \/ InBacklog(j)'
        PROVE  j \in mine' /\ status'[j] \in Held
    <3>1. j \notin strays /\ (main.job = j \/ InBacklog(j))
      BY <2>1, NullAssumption DEF InBacklog
    <3> QED
      BY <3>1, <1>3 DEF Owns, StillHeld
  <2>2. ASSUME NEW t \in Working', thread'[t].job \notin strays'
        PROVE  /\ status'[thread'[t].job] # "queued"
               /\ thread'[t].pc # "fail" =>
                      thread'[t].job \in mine' /\ status'[thread'[t].job] \in Held
    <3>1. /\ t \in Working /\ thread'[t].job = thread[t].job /\ thread[t].job \notin strays
          /\ thread'[t].pc # "fail" => thread[t].pc # "fail"
      BY <2>2
    <3>2. status'[thread[t].job] = status[thread[t].job]
          /\ (thread[t].job \in mine => thread[t].job \in mine')
      BY <1>2, <2>2, <3>1
    <3> QED
      BY <3>1, <3>2 DEF Owns, StillHeld
  <2> QED
    BY <2>1, <2>2 DEF StillHeld
<1> QED
  BY <1>1, <1>4 DEF Owns

LEMMA InitialOwns == Init => Owns
<1> SUFFICES ASSUME Init PROVE Owns
  OBVIOUS
<1>1. Working = {} /\ DOMAIN backlog = {} /\ main.job = NULL
  BY DEF Init, Working, IdleThread
<1> QED
  BY <1>1, NullAssumption DEF Owns, OnePlace, StillHeld, InBacklog

\* The job of the main thread goes to the end of the backlog.
LEMMA SubmitOwns ==
    ASSUME Counts, Owns, Submit
    PROVE  Owns'
<1> DEFINE j == main.job
<1>1. /\ j \in Job /\ backlog' = Append(backlog, j) /\ main'.job = NULL
      /\ UNCHANGED <<status, mine, thread, strays>> /\ backlog \in Seq(Job)
  BY DEF Submit, MainAt, Counts, MainSound, TypeOK, rows, lateness
<1>2. /\ Len(backlog) \in Nat /\ DOMAIN backlog = 1..Len(backlog)
      /\ DOMAIN backlog' = 1..(Len(backlog) + 1)
      /\ \A i \in 1..Len(backlog) : backlog'[i] = backlog[i]
      /\ backlog'[Len(backlog) + 1] = j
  BY <1>1, AppendProperties, LenProperties
<1>3. \A k : InBacklog(k)' <=> InBacklog(k) \/ k = j
  <2> SUFFICES ASSUME NEW k PROVE InBacklog(k)' <=> InBacklog(k) \/ k = j
    OBVIOUS
  <2>1. ASSUME NEW i \in DOMAIN backlog', backlog'[i] = k PROVE InBacklog(k) \/ k = j
    BY <1>2, <2>1 DEF InBacklog
  <2>2. ASSUME NEW i \in DOMAIN backlog, backlog[i] = k PROVE InBacklog(k)'
    BY <1>2, <2>2 DEF InBacklog
  <2>3. ASSUME k = j PROVE InBacklog(k)'
    <3>1. Len(backlog) + 1 \in DOMAIN backlog'
      BY <1>2
    <3> QED
      BY <1>2, <2>3, <3>1 DEF InBacklog
  <2> QED
    BY <2>1, <2>2, <2>3 DEF InBacklog
<1>4. OnePlace'
  <2>1. Working' = Working /\ \A t \in Working : thread[t].job \in Job
    BY <1>1 DEF Counts, BusyHaveJobs, Working, Busy
  <2>2. ASSUME NEW i \in DOMAIN backlog', NEW k \in DOMAIN backlog',
               backlog'[i] = backlog'[k], backlog'[i] \notin strays
        PROVE  i = k
    <3>1. ASSUME j \notin strays PROVE \A n \in DOMAIN backlog : backlog[n] # j
      BY <1>1, <3>1 DEF Owns, OnePlace, InBacklog
    <3>2. i \in DOMAIN backlog \/ i = Len(backlog) + 1
      BY <1>2
    <3>3. k \in DOMAIN backlog \/ k = Len(backlog) + 1
      BY <1>2
    <3>4. CASE i \in DOMAIN backlog /\ k \in DOMAIN backlog
      BY <1>2, <2>2, <3>4 DEF Owns, OnePlace
    <3>5. CASE i = Len(backlog) + 1 /\ k = Len(backlog) + 1
      BY <3>5
    <3>6. CASE i = Len(backlog) + 1 /\ k \in DOMAIN backlog
      BY <1>2, <2>2, <3>1, <3>6
    <3>7. CASE i \in DOMAIN backlog /\ k = Len(backlog) + 1
      BY <1>2, <2>2, <3>1, <3>7
    <3> QED
      BY <3>2, <3>3, <3>4, <3>5, <3>6, <3>7
  <2>3. \A k : (\E t \in Working : thread[t].job = k /\ k \notin strays) =>
           k # NULL /\ ~InBacklog(k)'
    BY <1>3, <2>1, NullAssumption DEF Owns, OnePlace
  <2> QED
    BY <1>1, <2>1, <2>2, <2>3, NullAssumption DEF Owns, OnePlace, InBacklog
<1>5. StillHeld'
  <2>1. Working' = Working
    BY <1>1 DEF Working
  <2> QED
    BY <1>1, <1>3, <2>1, NullAssumption DEF Owns, StillHeld
<1> QED
  BY <1>4, <1>5 DEF Owns

\* The job at the head of the backlog goes to an idle thread.
LEMMA PickOwns ==
    ASSUME Counts, Owns, NEW t \in Thread, Pick(t)
    PROVE  Owns'
<1> DEFINE j == Head(backlog)
<1>1. /\ backlog # <<>> /\ backlog' = Tail(backlog) /\ backlog \in Seq(Job)
      /\ UNCHANGED <<status, mine, main, strays>>
      /\ thread'[t] = [pc |-> "start", job |-> j]
      /\ \A u \in Thread \ {t} : thread'[u] = thread[u]
      /\ thread[t].pc = "idle"
  BY DEF Pick, ThreadAt, Counts, TypeOK, rows, lateness
<1>2. /\ Len(backlog) \in Nat \ {0} /\ DOMAIN backlog = 1..Len(backlog)
      /\ DOMAIN backlog' = 1..(Len(backlog) - 1)
      /\ \A i \in DOMAIN backlog' : backlog'[i] = backlog[i + 1]
      /\ backlog[1] = j /\ j \in Job
  BY <1>1, HeadTailProperties, LenProperties, EmptySeq
<1>3. InBacklog(j) /\ \A k : InBacklog(k)' => InBacklog(k)
  BY <1>2 DEF InBacklog
<1>4. \A k : (k = j /\ j \notin strays) => ~InBacklog(k)'
  <2>1. ASSUME j \notin strays, NEW i \in DOMAIN backlog', backlog'[i] = j PROVE FALSE
    <3>1. 1 \in DOMAIN backlog /\ i + 1 \in DOMAIN backlog /\ i + 1 # 1 /\ backlog[i + 1] = backlog[1]
      BY <1>2, <2>1
    <3> QED
      BY <1>2, <2>1, <3>1 DEF Owns, OnePlace
  <2> QED
    BY <2>1 DEF InBacklog
<1>5. /\ \A u \in Working' : u = t \/ (u \in Working /\ thread'[u] = thread[u])
      /\ t \notin Working
  BY <1>1 DEF Working
<1>6. \A u \in Working : thread[u].job \notin strays => thread[u].job # j
  BY <1>3 DEF Owns, OnePlace
<1>7. main.job \in Job /\ main.job \notin strays => main.job # j
  BY <1>3 DEF Owns, OnePlace
<1>8. OnePlace'
  <2>1. \A i, k \in DOMAIN backlog' :
           (backlog'[i] = backlog'[k] /\ backlog'[i] \notin strays) => i = k
    <3> SUFFICES ASSUME NEW i \in DOMAIN backlog', NEW k \in DOMAIN backlog',
                        backlog'[i] = backlog'[k], backlog'[i] \notin strays
                 PROVE  i = k
      OBVIOUS
    <3>1. i + 1 \in DOMAIN backlog /\ k + 1 \in DOMAIN backlog /\ i \in Nat /\ k \in Nat
      BY <1>2
    <3>2. i + 1 = k + 1
      BY <1>2, <3>1 DEF Owns, OnePlace
    <3> QED
      BY <3>1, <3>2
  <2>2. \A k, u : (u \in Working' /\ thread'[u].job = k /\ k \notin strays) =>
           k # main.job /\ ~InBacklog(k)'
    <3> SUFFICES ASSUME NEW k, NEW u \in Working', thread'[u].job = k, k \notin strays
                 PROVE  k # main.job /\ ~InBacklog(k)'
      OBVIOUS
    <3>1. CASE u = t
      BY <1>1, <1>2, <1>4, <1>7, <3>1
    <3>2. CASE u \in Working /\ thread'[u] = thread[u]
      BY <1>3, <3>2 DEF Owns, OnePlace
    <3> QED
      BY <1>5, <3>1, <3>2
  <2>3. \A u, v \in Working' :
           (thread'[u].job = thread'[v].job /\ thread'[u].job \notin strays) => u = v
    BY <1>1, <1>5, <1>6 DEF Owns, OnePlace
  <2>4. \A k : (k = main.job /\ main.job \in Job /\ main.job \notin strays) => ~InBacklog(k)'
    BY <1>3 DEF Owns, OnePlace
  <2> QED
    BY <1>1, <2>1, <2>2, <2>3, <2>4 DEF OnePlace, InBacklog
<1>9. StillHeld'
  <2>1. j \notin strays => j \in mine /\ status[j] \in Held
    BY <1>2, <1>3 DEF Owns, StillHeld
  <2>2. \A k \in Job \ strays : (main.job = k \/ InBacklog(k)') => k \in mine /\ status[k] \in Held
    BY <1>3 DEF Owns, StillHeld
  <2>3. \A u \in Working' : thread'[u].job \notin strays =>
          /\ status[thread'[u].job] # "queued"
          /\ thread'[u].pc # "fail" => thread'[u].job \in mine /\ status[thread'[u].job] \in Held
    BY <1>1, <1>5, <2>1 DEF Owns, StillHeld, Held
  <2> QED
    BY <1>1, <2>2, <2>3 DEF StillHeld
<1> QED
  BY <1>8, <1>9 DEF Owns

\* A job that is claimed was queued, so nobody here had it.
LEMMA QueuedIsNotInHand ==
    ASSUME Counts, Owns, NEW j \in Job, status[j] = "queued", j \notin strays
    PROVE  ~InHand(j)
<1>1. ~(main.job = j) /\ ~InBacklog(j)
  BY DEF Owns, StillHeld, Held
<1>2. \A t \in Working : thread[t].job # j
  BY DEF Owns, StillHeld
<1> QED
  BY <1>1, <1>2 DEF InHand, InBacklog, Working

LEMMA ClaimOwns ==
    ASSUME Counts, Owns, NEW j \in Job \cup {NULL}, ServeClaim(j)
    PROVE  Owns'
<1>1. /\ UNCHANGED <<backlog, thread, strays>> /\ main'.job = j /\ main.job = NULL
  BY DEF ServeClaim, Counts, TypeOK, MainSound, lateness
<1>2. CASE j = NULL /\ UNCHANGED rows
  BY <1>1, <1>2, RowsKept DEF Working, rows
<1>3. CASE /\ j \in Job /\ status[j] = "queued"
           /\ status' = [status EXCEPT ![j] = "claimed"] /\ mine' = mine \cup {j}
  <2>1. /\ status'[j] = "claimed" /\ j \in mine'
        /\ \A k \in Job \ {j} : status'[k] = status[k] /\ (k \in mine' <=> k \in mine)
    BY <1>3 DEF Counts, TypeOK
  <2>2. j \notin strays => ~InHand(j)
    BY <1>3, QueuedIsNotInHand
  <2>3. /\ Working' = Working /\ \A t \in Working : thread[t].job \in Job
        /\ \A k : InBacklog(k)' <=> InBacklog(k)
    BY <1>1 DEF Working, InBacklog, Counts, BusyHaveJobs, Busy
  <2>4. j \notin strays => ~InBacklog(j) /\ \A t \in Working : thread[t].job # j
    BY <2>2 DEF InHand, InBacklog, Working
  <2>5. OnePlace'
    BY <1>1, <2>3, <2>4 DEF Owns, OnePlace
  <2>6. StillHeld'
    BY <1>1, <2>1, <2>3, <2>4 DEF Owns, StillHeld, Held
  <2> QED
    BY <2>5, <2>6 DEF Owns
<1> QED
  BY <1>2, <1>3 DEF ServeClaim

\* A job that is not in the worker's hands may change as it likes.
LEMMA OthersMayChange ==
    ASSUME Counts, Owns, UNCHANGED <<main, backlog, thread>>, strays \subseteq strays',
           NEW j \in Job, InHand(j) => j \in strays',
           \A k \in Job \ {j} : status'[k] = status[k] /\ (k \in mine' <=> k \in mine)
    PROVE  Owns'
<1>1. \A k \in Job \ strays' :
          ~InHand(k) \/ (status'[k] = status[k] /\ (k \in mine => k \in mine'))
  BY DEF InHand
<1>2. Working' = Working
  BY DEF Working
<1> QED
  BY <1>1, <1>2, RowsKept

\* A report changes the row of a job that is nowhere else; its thread is done
\* with the job, runs it, or has only a /fail to send.
LEMMA ReportOwns ==
    ASSUME Counts, Owns, NEW t \in Thread, NEW pc \in Reports, Post(t, pc) \/ PostRaises(t, pc)
    PROVE  Owns'
<1> DEFINE j == thread[t].job
<1>1. /\ thread[t].pc = pc /\ t \in Working
      /\ Commit(j, pc) \/ UNCHANGED rows
      /\ UNCHANGED <<main, backlog, strays>>
  BY DEF Post, PostRaises, GivenUp, ThreadAt, Reports, Working, lateness
<1>2. j \in Job /\ TypeOK
  BY <1>1 DEF Counts, BusyHaveJobs, Working, Busy
<1>3. PICK next \in {"run", "fail", "finally"} :
          /\ ThreadGoto(t, next)
          /\ next = "run" => pc = "start"
          /\ next = "fail" => pc # "fail"
  BY DEF Post, PostRaises
<1>4. /\ \A u \in Thread : thread'[u].job = thread[u].job
      /\ \A u \in Thread \ {t} : thread'[u].pc = thread[u].pc
      /\ thread'[t].pc = next
  BY <1>2, <1>3 DEF ThreadGoto, TypeOK
<1>5. /\ \A k \in Job \ {j} : status'[k] = status[k] /\ (k \in mine' <=> k \in mine)
      /\ pc # "fail" => (status'[j] = "queued" => status[j] = "queued")
      /\ pc = "start" => mine' = mine /\ (status'[j] = status[j] \/ status'[j] = "running")
  BY <1>1, <1>2, CommitTypes DEF rows
<1>6. \A u \in Working' : u \in Working /\ thread'[u].job = thread[u].job /\ thread[u].job \in Job
  BY <1>1, <1>4 DEF Working, Counts, BusyHaveJobs, Busy
<1>7. OnePlace'
  BY <1>1, <1>6, SamePlaces DEF Owns
<1>8. j \notin strays => main.job # j /\ ~InBacklog(j) /\ \A u \in Working \ {t} : thread[u].job # j
  BY <1>1 DEF Owns, OnePlace
<1>9. StillHeld'
  <2>1. ASSUME NEW k \in Job \ strays, main.job = k \/ InBacklog(k)
        PROVE  k \in mine' /\ status'[k] \in Held
    BY <1>5, <1>8, <2>1 DEF Owns, StillHeld
  <2>2. ASSUME NEW u \in Working', thread[u].job \notin strays
        PROVE  /\ status'[thread[u].job] # "queued"
               /\ thread'[u].pc # "fail" => thread[u].job \in mine' /\ status'[thread[u].job] \in Held
    <3>1. u \in Working /\ thread[u].job \in Job
      BY <1>6, <2>2
    <3>2. CASE u # t
      <4>1. thread[u].job \in Job \ {j} /\ thread'[u].pc = thread[u].pc
        BY <1>4, <1>8, <2>2, <3>1, <3>2 DEF Working
      <4> QED
        BY <1>5, <2>2, <3>1, <4>1 DEF Owns, StillHeld
    <3>3. CASE u = t
      <4>1. pc # "fail" /\ next # "finally"
        BY <1>3, <1>4, <2>2, <3>3 DEF Working
      <4>2. status[j] # "queued" /\ j \in mine /\ status[j] \in Held
        BY <1>1, <2>2, <3>3, <4>1 DEF Owns, StillHeld
      <4>3. status'[j] # "queued"
        BY <1>5, <4>1, <4>2
      <4>4. next # "fail" => j \in mine' /\ status'[j] \in Held
        BY <1>3, <1>5, <4>1, <4>2 DEF Held
      <4> QED
        BY <1>4, <3>3, <4>3, <4>4
    <3> QED
      BY <3>2, <3>3
  <2>3. /\ main' = main /\ strays' = strays
        /\ \A k : InBacklog(k)' <=> InBacklog(k)
    BY <1>1 DEF InBacklog
  <2> QED
    BY <1>4, <1>6, <2>1, <2>2, <2>3 DEF StillHeld
<1> QED
  BY <1>7, <1>9 DEF Owns

\* A late report meets a thread that has only its /fail to send, or nobody, or
\* it makes a stray.
LEMMA LateOwns ==
    ASSUME Counts, Owns, NEW r \in late, ServeLate(r)
    PROVE  Owns'
<1> DEFINE j == r.job
<1>1. /\ r.pc \in Reports /\ j \in Job /\ Commit(j, r.pc) /\ TypeOK
      /\ UNCHANGED <<main, backlog, thread>>
      /\ strays' = IF InTime(r) THEN strays ELSE strays \cup {j}
  BY DEF ServeLate, Counts, TypeOK, Requests, Reports
<1>2. /\ \A k \in Job \ {j} : status'[k] = status[k] /\ (k \in mine' <=> k \in mine)
      /\ status'[j] = "queued" => r.pc = "fail"
  BY <1>1, CommitTypes
<1>3. CASE InHand(j) => j \in strays'
  BY <1>1, <1>2, <1>3, OthersMayChange
<1>4. CASE InHand(j) /\ j \notin strays'
  <2>1. InTime(r) /\ strays' = strays /\ j \notin strays
    BY <1>1, <1>4
  <2>2. r.pc # "fail" /\ status'[j] # "queued"
    BY <1>2, <1>4, <2>1 DEF InTime
  <2>3. PICK t \in Thread : thread[t] = [pc |-> "fail", job |-> j]
    BY <2>1, <2>2 DEF InTime
  <2>4. t \in Working /\ thread[t].job = j /\ thread[t].pc = "fail"
    BY <2>3 DEF Working
  <2>5. main.job # j /\ ~InBacklog(j) /\ \A u \in Working \ {t} : thread[u].job # j
    BY <2>1, <2>4 DEF Owns, OnePlace
  <2>6. \A u \in Working : thread[u].job \in Job
    BY DEF Counts, BusyHaveJobs, Working, Busy
  <2>7. Working' = Working /\ \A k : InBacklog(k)' <=> InBacklog(k)
    BY <1>1 DEF Working, InBacklog
  <2>8. OnePlace'
    BY <1>1, <2>1, <2>7, SamePlaces DEF Owns
  <2>9. StillHeld'
    <3>1. ASSUME NEW k \in Job \ strays, main.job = k \/ InBacklog(k)
          PROVE  k \in mine' /\ status'[k] \in Held
      BY <1>2, <2>5, <3>1 DEF Owns, StillHeld
    <3>2. ASSUME NEW u \in Working, thread[u].job \notin strays
          PROVE  /\ status'[thread[u].job] # "queued"
                 /\ thread[u].pc # "fail" => thread[u].job \in mine' /\ status'[thread[u].job] \in Held
      <4>1. CASE u = t
        BY <2>2, <2>4, <4>1
      <4>2. CASE u # t
        BY <1>2, <2>5, <2>6, <3>2, <4>2 DEF Owns, StillHeld
      <4> QED
        BY <4>1, <4>2
    <3> QED
      BY <1>1, <2>1, <2>7, <3>1, <3>2 DEF StillHeld
  <2> QED
    BY <2>8, <2>9 DEF Owns
<1> QED
  BY <1>3, <1>4

LEMMA OwnsKept == Counts /\ Owns /\ [Next]_vars => Owns'
<1> SUFFICES ASSUME Counts, Owns, [Next]_vars
             PROVE  Owns'
  OBVIOUS
<1>1. CASE MainStep \/ ClaimRaises
  <2>1. CASE Submit
    BY <2>1, SubmitOwns
  <2>2. CASE ~Submit
    <3>1. /\ UNCHANGED <<status, mine, backlog, thread, strays>>
          /\ main'.job = main.job \/ main'.job = NULL
      BY <1>1, <2>2 DEF MainStep, ClaimRaises, TakeLock, Test, WakeUp, Answered, Count,
                        ReleaseLock, EnterSubmit, LeaveSubmit, MainGoto, Counts, TypeOK,
                        rows, lateness
    <3> QED
      BY <3>1, RowsKept DEF Working
  <2> QED
    BY <2>1, <2>2
<1>2. ASSUME NEW j \in Job \cup {NULL}, ServeClaim(j) PROVE Owns'
  BY <1>2, ClaimOwns
<1>3. ASSUME NEW t \in Thread, Pick(t) PROVE Owns'
  BY <1>3, PickOwns
<1>4. ASSUME NEW t \in Thread, RunTask(t) \/ Finish(t) PROVE Owns'
  <2>1. UNCHANGED <<status, mine, main, backlog, strays>>
    BY <1>4 DEF RunTask, Finish, rows, lateness
  <2>2. \A u \in Working' : /\ u \in Working /\ thread'[u].job = thread[u].job
                            /\ thread'[u].pc # "fail" => thread[u].pc # "fail"
    BY <1>4 DEF RunTask, Finish, ThreadGoto, ThreadAt, IdleThread, Counts, TypeOK, Working
  <2> QED
    BY <2>1, <2>2, RowsKept
<1>5. ASSUME NEW t \in Thread, NEW pc \in Reports, Post(t, pc) \/ PostRaises(t, pc)
      PROVE  Owns'
  BY <1>5, ReportOwns
<1>6. ASSUME NEW r \in late, ServeLate(r) PROVE Owns'
  BY <1>6, LateOwns
<1>7. ASSUME NEW j \in Job, ServeLateClaim(j) PROVE Owns'
  <2>1. InHand(j) => j \in strays
    BY <1>7, QueuedIsNotInHand DEF ServeLateClaim
  <2>2. /\ UNCHANGED <<main, backlog, thread, strays>>
        /\ \A k \in Job \ {j} : status'[k] = status[k] /\ (k \in mine' <=> k \in mine)
    BY <1>7 DEF ServeLateClaim, Counts, TypeOK
  <2> QED
    BY <2>1, <2>2, OthersMayChange
<1>8. ASSUME NEW j \in Job, Reap(j) PROVE Owns'
  <2>1. /\ UNCHANGED <<main, backlog, thread>> /\ strays \subseteq strays'
        /\ InHand(j) => j \in strays'
        /\ \A k \in Job \ {j} : status'[k] = status[k] /\ (k \in mine' <=> k \in mine)
    BY <1>8 DEF Reap, Counts, TypeOK
  <2> QED
    BY <2>1, OthersMayChange
<1>9. CASE BeatAgain \/ ReadActive \/ PostBeat \/ BeatRaises \/ Signal \/ Exit \/ Timeout
           \/ UNCHANGED vars
  <2>1. UNCHANGED <<status, mine, main, backlog, thread, strays>>
    BY <1>9 DEF BeatAgain, ReadActive, PostBeat, BeatRaises, Signal, Exit, Timeout, vars,
                rows, lateness
  <2> QED
    BY <2>1, RowsKept DEF Working
<1> QED
  BY <1>1, <1>2, <1>3, <1>4, <1>5, <1>6, <1>7, <1>8, <1>9 DEF Next, ThreadStep

-----------------------------------------------------------------------------
(* The theorems.                                                           *)

LEMMA WorkerInvariant == Spec => [](Counts /\ Owns)
<1>1. Init => Counts /\ Owns
  BY InitialCounts, InitialOwns
<1>2. Counts /\ Owns /\ [Next]_vars => Counts' /\ Owns'
  BY CountsKept, OwnsKept
<1> QED
  BY <1>1, <1>2, PTL DEF Spec

\* Every variable has its type in every behaviour; the part that is not a matter
\* of shape is active_jobs, which never goes below zero.
THEOREM WorkerTypes == Spec => []TypeOK
<1>1. Counts => TypeOK
  BY DEF Counts
<1> QED
  BY <1>1, WorkerInvariant, PTL

\* Whatever the number of threads and jobs, and whichever requests are lost or
\* late, the worker has at most `concurrency` jobs and counts the ones it has.
THEOREM WithinCapacity == Spec => []CapacityRespected
<1>1. Counts => CapacityRespected
  BY DEF Counts
<1> QED
  BY <1>1, WorkerInvariant, PTL

\* The worker works on its own jobs, one thread on each, in service and in a
\* shutdown, also while it is taken for dead: except for the jobs that the reaper
\* took away while it had them, or that a report of an earlier attempt met.
THEOREM WorksOnItsOwn == Spec => []KeepsItsJobs
<1>1. Counts /\ Owns => KeepsItsJobs
  <2> SUFFICES ASSUME Counts, Owns, NEW t \in Thread,
                      thread[t].pc \in {"start", "run", "complete"}, thread[t].job \notin strays
               PROVE  /\ thread[t].job \in mine /\ status[thread[t].job] \in Held
                      /\ \A u \in Busy \ {t} :
                             thread[u].job = thread[t].job => thread[u].pc = "finally"
    BY DEF KeepsItsJobs
  <2>1. t \in Working /\ thread[t].pc # "fail"
    BY DEF Working
  <2>2. \A u \in Busy : thread[u].pc # "finally" => u \in Working
    BY DEF Busy, Working
  <2> QED
    BY <2>1, <2>2 DEF Owns, OnePlace, StillHeld
<1> QED
  BY <1>1, WorkerInvariant, PTL
=============================================================================
