------------------------ MODULE SchedulerLockProofs ------------------------
(***************************************************************************)
(* Proofs about SchedulerLock for any number of scheduler processes and    *)
(* schedules, any lease and any cron expressions: type correctness always, *)
(* one leader and CronContract if ticks end within their lease.            *)
(***************************************************************************)
EXTENDS SchedulerLock, TLAPS

-----------------------------------------------------------------------------
(* Type correctness.                                                       *)

AllPc == {"sleep", "insert", "acquire"} \cup Leading

LEMMA InitialTypes == Init => TypeInv
BY TimeAssumption, InstanceAssumption
   DEF Init, TypeInv, TypeOK, WorksOnLoaded, LockRow, InstanceState, Asleep, NoRows, Time

\* A process that ends its tick, or only goes to its next statement, stays
\* well-formed.
LEMMA TickTypes ==
    ASSUME TypeInv, NEW i \in Instance
    PROVE  /\ EndTick(i) => /\ instance' \in [Instance -> InstanceState]
                            /\ \A j \in Instance : WorksOnLoaded(instance'[j])
           /\ \A pc \in AllPc : Goto(i, pc) =>
                            /\ instance' \in [Instance -> InstanceState]
                            /\ \A j \in Instance : WorksOnLoaded(instance'[j])
<1>1. Asleep \in InstanceState /\ WorksOnLoaded(Asleep)
  BY TimeAssumption DEF Asleep, InstanceState, NoRows, WorksOnLoaded, Time
<1>2. ASSUME EndTick(i)
      PROVE  /\ instance' \in [Instance -> InstanceState]
             /\ \A j \in Instance : WorksOnLoaded(instance'[j])
  BY <1>1, <1>2 DEF EndTick, TypeInv, TypeOK
<1>3. ASSUME NEW pc \in AllPc, Goto(i, pc)
      PROVE  /\ instance' \in [Instance -> InstanceState]
             /\ \A j \in Instance : WorksOnLoaded(instance'[j])
  <2>1. instance[i] \in InstanceState /\ WorksOnLoaded(instance[i])
    BY DEF TypeInv, TypeOK
  <2>2. /\ [instance[i] EXCEPT !.pc = pc] \in InstanceState
        /\ WorksOnLoaded([instance[i] EXCEPT !.pc = pc])
    BY <2>1 DEF InstanceState, AllPc, WorksOnLoaded
  <2>3. instance' = [instance EXCEPT ![i] = [instance[i] EXCEPT !.pc = pc]]
    BY <1>3 DEF Goto, TypeInv, TypeOK
  <2> QED
    BY <2>2, <2>3 DEF TypeInv, TypeOK
<1> QED
  BY <1>2, <1>3

LEMMA TypesKept == TypeInv /\ [Next]_vars => TypeInv'
<1> SUFFICES ASSUME TypeInv, [Next]_vars
             PROVE  TypeInv'
  OBVIOUS
<1> USE DEF TypeInv, TypeOK
<1>1. ASSUME NEW i \in Instance, Wake(i) PROVE TypeInv'
  <2> DEFINE p == [instance[i] EXCEPT !.began = clock,
                       !.pc = IF lock.exists THEN "acquire" ELSE "insert"]
  <2>1. p \in InstanceState /\ WorksOnLoaded(p)
    BY DEF InstanceState, WorksOnLoaded
  <2>2. instance' = [instance EXCEPT ![i] = p]
    BY <1>1 DEF Wake
  <2> QED
    BY <1>1, <2>1, <2>2 DEF Wake, crons
<1>2. ASSUME NEW i \in Instance, InsertRow(i) PROVE TypeInv'
  <2>1. lock' \in LockRow
    BY <1>2 DEF InsertRow, LockRow
  <2> QED
    BY <1>2, <2>1, TickTypes DEF InsertRow, AllPc, crons
<1>3. ASSUME NEW i \in Instance, Acquire(i) PROVE TypeInv'
  <2>1. instance[i].began + Lease \in Nat
    BY LeaseAssumption, TimeAssumption DEF InstanceState, Time
  <2>2. lock' \in LockRow
    BY <1>3, <2>1 DEF Acquire, LockRow
  <2> QED
    BY <1>3, <2>2, TickTypes DEF Acquire, AllPc, Leading, crons
<1>4. ASSUME NEW i \in Instance, StandBy(i) \/ Reap(i) \/ TickError(i) PROVE TypeInv'
  BY <1>4, TickTypes DEF StandBy, Reap, TickError, crons
<1>5. ASSUME NEW i \in Instance, Promote(i) PROVE TypeInv'
  BY <1>5, TickTypes DEF Promote, AllPc, Leading, crons
<1>6. ASSUME NEW i \in Instance, LoadSchedules(i) PROVE TypeInv'
  <2> DEFINE p == [instance[i] EXCEPT
                     !.now = clock,
                     !.loaded = [s \in Schedule |-> IF s \in DueSchedules THEN cursor[s] ELSE 0],
                     !.todo = DueSchedules, !.create = {},
                     !.pc = IF DueSchedules = {} THEN "reap" ELSE "decide"]
  <2>1. p \in InstanceState
    <3>1. DueSchedules \subseteq Schedule /\ instance[i] \in InstanceState /\ clock \in Time
      BY DEF DueSchedules
    <3>2. [s \in Schedule |-> IF s \in DueSchedules THEN cursor[s] ELSE 0] \in [Schedule -> Nat]
      OBVIOUS
    <3> QED
      BY <3>1, <3>2 DEF InstanceState, Leading
  <2>2. WorksOnLoaded(p)
    BY DEF InstanceState, DueSchedules, WorksOnLoaded
  <2>3. instance' = [instance EXCEPT ![i] = p]
    BY <1>6 DEF LoadSchedules
  <2>4. UNCHANGED <<clock, lock, up, crons>>
    BY <1>6 DEF LoadSchedules
  <2> HIDE DEF p
  <2> QED
    BY <2>1, <2>2, <2>3, <2>4 DEF crons
<1>7. ASSUME NEW i \in Instance, NEW s \in Schedule, Decide(i, s) PROVE TypeInv'
  <2> DEFINE p == [instance[i] EXCEPT
                     !.todo = instance[i].todo \ {s},
                     !.create = IF s \in paused THEN instance[i].create
                                ELSE instance[i].create \cup {s}]
  <2>1. p \in InstanceState
    <3>1. instance[i] \in InstanceState
      OBVIOUS
    <3> QED
      BY <3>1 DEF InstanceState
  <2>2. WorksOnLoaded(p)
    BY <1>7 DEF InstanceState, WorksOnLoaded, Decide
  <2>3. instance' = [instance EXCEPT ![i] = p]
    BY <1>7 DEF Decide
  <2> QED
    BY <1>7, <2>1, <2>2, <2>3 DEF Decide, crons
<1>8. ASSUME NEW i \in Instance, Materialize(i) PROVE TypeInv'
  <2> DEFINE p == [instance[i] EXCEPT !.pc = "reap", !.loaded = NoRows, !.create = {}]
  <2>1. p \in InstanceState /\ WorksOnLoaded(p)
    BY <1>8 DEF InstanceState, WorksOnLoaded, Materialize, NoRows, Leading
  <2>2. instance' = [instance EXCEPT ![i] = p]
    BY <1>8 DEF Materialize
  <2>3. cursor' \in [Schedule -> Nat]
    BY <1>8, CronAssumption DEF Materialize, Advanced, InstanceState
  <2>4. runs' \in [Schedule -> [Time -> Nat]]
    BY <1>8 DEF Materialize
  <2> QED
    BY <1>8, <2>1, <2>2, <2>3, <2>4 DEF Materialize
<1>9. ASSUME NEW i \in Instance, Crash(i) PROVE TypeInv'
  BY <1>9, TickTypes DEF Crash, Exit, crons
<1>10. ASSUME NEW i \in Instance, Stop(i) PROVE TypeInv'
  <2>1. lock' \in LockRow
    BY <1>10 DEF Stop, LockRow
  <2> QED
    BY <1>10, <2>1, TickTypes DEF Stop, Exit, crons
<1>11. ASSUME NEW s \in Schedule, CreateSchedule(s) PROVE TypeInv'
  <2>1. PICK t \in 0..clock : cursor' = [cursor EXCEPT ![s] = NextAfter(s, t)]
    BY <1>11 DEF CreateSchedule
  <2>2. NextAfter(s, t) \in Nat
    BY CronAssumption, TimeAssumption DEF Time
  <2> QED
    BY <1>11, <2>1, <2>2 DEF CreateSchedule
<1>12. ASSUME NEW s \in Schedule, SetPaused(s) PROVE TypeInv'
  BY <1>12 DEF SetPaused
<1>13. ASSUME Tick PROVE TypeInv'
  BY <1>13, TimeAssumption DEF Tick, Time, crons
<1>14. ASSUME UNCHANGED vars PROVE TypeInv'
  BY <1>14 DEF vars
<1> QED
  BY <1>1, <1>2, <1>3, <1>4, <1>5, <1>6, <1>7, <1>8, <1>9, <1>10, <1>11, <1>12, <1>13, <1>14
     DEF Next, TickStep, Fault

\* Every reachable state is type-correct, whatever a tick takes and whoever
\* stops when.
THEOREM SchedulerTypes == Spec => []TypeInv
BY InitialTypes, TypesKept, PTL DEF Spec

-----------------------------------------------------------------------------
(* One leader at a time.                                                   *)

\* Past the insert, the row is there.
RowThere(i) == instance[i].pc \notin {"sleep", "insert"} => lock.exists

\* While a tick is under way, the lease counted from its start is not over.
InTime(i) == instance[i].pc # "sleep" =>
    instance[i].began <= clock /\ clock <= instance[i].began + Lease

\* A leader's lease is the one in the row.
HoldsLock(i) == instance[i].pc \in Leading =>
    lock.holder = i /\ lock.expires = instance[i].began + Lease

\* What keeps a second leader out: LeadersAreAlone alone says nothing about a
\* process that is about to write the lock with a clock it read long ago.
LockInv ==
    /\ TypeInv
    /\ \A i \in up : RowThere(i) /\ InTime(i) /\ HoldsLock(i)

LEMMA InitialLock == Init => LockInv
BY InitialTypes DEF Init, LockInv, RowThere, InTime, HoldsLock, Asleep, Leading

LEMMA LockGivesOneLeader == LockInv => LeadersAreAlone
BY DEF LockInv, HoldsLock, LeadersAreAlone

\* A process cannot win the lock from another one that leads.
LEMMA NotWinnable ==
    ASSUME LockInv, NEW i \in up, NEW j \in up, i # j,
           At(i, "acquire"), instance[j].pc \in Leading
    PROVE  ~Winnable(i)
<1>1. /\ lock.holder = j /\ lock.expires = instance[j].began + Lease
      /\ instance[i].began <= clock /\ clock <= instance[j].began + Lease
  BY DEF LockInv, At, Leading, HoldsLock, InTime
<1>2. /\ instance[i].began \in Nat /\ instance[j].began \in Nat /\ clock \in Nat
      /\ j # NULL
  BY TimeAssumption, InstanceAssumption
     DEF LockInv, TypeInv, TypeOK, InstanceState, Time
<1>3. ~ (lock.expires < instance[i].began)
  BY <1>1, <1>2, LeaseAssumption
<1> QED
  BY <1>1, <1>2, <1>3 DEF Winnable, Expired

\* A step of process i alone keeps the invariant if it keeps the clock, and the
\* lock too unless the others do not lead.
LEMMA OneProcessStep ==
    ASSUME LockInv, TypeInv', NEW i \in Instance,
           UNCHANGED clock, up' \subseteq up, lock.exists => lock'.exists,
           \A j \in Instance \ {i} : instance'[j] = instance[j],
           \A j \in up' \ {i} : instance[j].pc \in Leading => UNCHANGED lock,
           i \in up' => RowThere(i)' /\ InTime(i)' /\ HoldsLock(i)'
    PROVE  LockInv'
<1>1. ASSUME NEW j \in up' PROVE (RowThere(j) /\ InTime(j) /\ HoldsLock(j))'
  <2>1. CASE j = i
    BY <2>1, <1>1
  <2>2. CASE j # i
    <3>1. j \in up /\ j \in Instance
      BY <1>1 DEF LockInv, TypeInv, TypeOK
    <3>2. instance'[j] = instance[j]
      BY <2>2, <3>1
    <3> QED
      BY <2>2, <3>1, <3>2, <1>1 DEF LockInv, RowThere, InTime, HoldsLock
  <2> QED
    BY <2>1, <2>2
<1> QED
  BY <1>1 DEF LockInv

\* The same for a step that leaves the lock alone and only takes i from one of
\* the leader's statements to another, or ends its tick.
LEMMA LeaderStep ==
    ASSUME LockInv, TypeInv', NEW i \in Instance, i \in up,
           UNCHANGED <<clock, lock, up>>,
           \A j \in Instance \ {i} : instance'[j] = instance[j],
           \/ instance'[i].pc = "sleep"
           \/ /\ instance[i].pc \in Leading
              /\ instance'[i].pc \in Leading
              /\ instance'[i].began = instance[i].began
    PROVE  LockInv'
<1>1. (RowThere(i) /\ InTime(i) /\ HoldsLock(i))'
  BY DEF LockInv, RowThere, InTime, HoldsLock, Leading
<1> QED
  BY <1>1, OneProcessStep

LEMMA LockKept ==
    ASSUME Prompt, LockInv, [Next]_vars
    PROVE  LockInv'
<1>1. TypeInv'
  BY TypesKept DEF LockInv
<1>2. /\ instance \in [Instance -> InstanceState]
      /\ up \subseteq Instance
      /\ clock \in Nat /\ lock \in LockRow
  BY TimeAssumption DEF LockInv, TypeInv, TypeOK, Time
<1>3. ASSUME NEW i \in Instance, Wake(i) PROVE LockInv'
  <2>1. /\ instance'[i].began = clock
        /\ instance'[i].pc = IF lock.exists THEN "acquire" ELSE "insert"
        /\ i \in up /\ \A j \in Instance \ {i} : instance'[j] = instance[j]
    BY <1>3, <1>2 DEF Wake, At, InstanceState
  <2>2. (RowThere(i) /\ InTime(i) /\ HoldsLock(i))'
    BY <1>3, <2>1, <1>2, LeaseAssumption DEF Wake, RowThere, InTime, HoldsLock, Leading
  <2> QED
    BY <1>1, <1>3, <2>1, <2>2, OneProcessStep DEF Wake
<1>4. ASSUME NEW i \in Instance, InsertRow(i) PROVE LockInv'
  <2>1. /\ instance'[i].began = instance[i].began /\ instance'[i].pc = "acquire"
        /\ instance[i].pc = "insert"
        /\ i \in up /\ \A j \in Instance \ {i} : instance'[j] = instance[j]
    BY <1>4, <1>2 DEF InsertRow, At, Goto, InstanceState
  <2>2. lock'.exists
    BY <1>4 DEF InsertRow
  <2>3. (RowThere(i) /\ InTime(i) /\ HoldsLock(i))'
    BY <1>4, <2>1, <2>2 DEF InsertRow, LockInv, RowThere, InTime, HoldsLock, Leading
  <2>4. \A j \in up : instance[j].pc \in Leading => UNCHANGED lock
    BY <1>4 DEF InsertRow, LockInv, RowThere, Leading
  <2> QED
    BY <1>1, <1>4, <2>1, <2>2, <2>3, <2>4, OneProcessStep DEF InsertRow
<1>5. ASSUME NEW i \in Instance, Acquire(i) PROVE LockInv'
  <2>1. /\ instance'[i].began = instance[i].began /\ instance'[i].pc = "promote"
        /\ instance[i].pc = "acquire"
        /\ i \in up /\ \A j \in Instance \ {i} : instance'[j] = instance[j]
    BY <1>5, <1>2 DEF Acquire, At, Goto, InstanceState
  <2>2. /\ lock'.exists = lock.exists /\ lock'.holder = i
        /\ lock'.expires = instance[i].began + Lease
    BY <1>5, <1>2 DEF Acquire, LockRow
  <2>3. (RowThere(i) /\ InTime(i) /\ HoldsLock(i))'
    BY <1>5, <2>1, <2>2 DEF Acquire, LockInv, RowThere, InTime, HoldsLock
  <2>4. \A j \in up \ {i} : instance[j].pc \notin Leading
    BY <1>5, <2>1, NotWinnable DEF Acquire
  <2> QED
    BY <1>1, <1>5, <2>1, <2>2, <2>3, <2>4, OneProcessStep DEF Acquire
<1>6. ASSUME NEW i \in Instance, StandBy(i) \/ Reap(i) \/ TickError(i) PROVE LockInv'
  <2>1. /\ i \in up /\ UNCHANGED <<clock, lock, up>> /\ EndTick(i)
    BY <1>6 DEF StandBy, Reap, TickError, At
  <2>2. instance'[i].pc = "sleep" /\ \A j \in Instance \ {i} : instance'[j] = instance[j]
    BY <2>1, <1>2 DEF EndTick, Asleep
  <2> QED
    BY <1>1, <2>1, <2>2, LeaderStep
<1>7. ASSUME NEW i \in Instance, Promote(i) PROVE LockInv'
  <2>1. /\ instance'[i].began = instance[i].began /\ instance'[i].pc = "recurring"
        /\ instance[i].pc = "promote"
        /\ i \in up /\ \A j \in Instance \ {i} : instance'[j] = instance[j]
    BY <1>7, <1>2 DEF Promote, At, Goto, InstanceState
  <2> QED
    BY <1>1, <1>7, <2>1, LeaderStep DEF Promote, Leading
<1>8. ASSUME NEW i \in Instance, LoadSchedules(i) PROVE LockInv'
  <2>1. /\ instance'[i].began = instance[i].began /\ instance'[i].pc \in {"reap", "decide"}
        /\ instance[i].pc = "recurring"
        /\ i \in up /\ \A j \in Instance \ {i} : instance'[j] = instance[j]
    BY <1>8, <1>2 DEF LoadSchedules, At, InstanceState
  <2> QED
    BY <1>1, <1>8, <2>1, LeaderStep DEF LoadSchedules, Leading
<1>9. ASSUME NEW i \in Instance, NEW s \in Schedule, Decide(i, s) PROVE LockInv'
  <2>1. /\ instance'[i].began = instance[i].began /\ instance'[i].pc = "decide"
        /\ instance[i].pc = "decide"
        /\ i \in up /\ \A j \in Instance \ {i} : instance'[j] = instance[j]
    BY <1>9, <1>2 DEF Decide, At, InstanceState
  <2> QED
    BY <1>1, <1>9, <2>1, LeaderStep DEF Decide, Leading
<1>10. ASSUME NEW i \in Instance, Materialize(i) PROVE LockInv'
  <2>1. /\ instance'[i].began = instance[i].began /\ instance'[i].pc = "reap"
        /\ instance[i].pc = "decide"
        /\ i \in up /\ \A j \in Instance \ {i} : instance'[j] = instance[j]
    BY <1>10, <1>2 DEF Materialize, At, InstanceState
  <2> QED
    BY <1>1, <1>10, <2>1, LeaderStep DEF Materialize, Leading
<1>11. ASSUME NEW i \in Instance, Crash(i) \/ Stop(i) PROVE LockInv'
  <2>1. /\ UNCHANGED clock /\ up' = up \ {i} /\ lock'.exists = lock.exists
        /\ lock.holder # i => UNCHANGED lock
    BY <1>11, <1>2 DEF Crash, Stop, Exit, LockRow
  <2>2. \A j \in Instance \ {i} : instance'[j] = instance[j]
    BY <1>11, <1>2 DEF Crash, Stop, Exit, EndTick
  <2>3. \A j \in up' \ {i} : instance[j].pc \in Leading => UNCHANGED lock
    BY <2>1 DEF LockInv, HoldsLock
  <2> QED
    BY <1>1, <2>1, <2>2, <2>3, OneProcessStep
<1>12. ASSUME UNCHANGED <<clock, lock, instance, up>> PROVE LockInv'
  BY <1>1, <1>12 DEF LockInv, RowThere, InTime, HoldsLock
<1>13. ASSUME Tick PROVE LockInv'
  <2>1. \A i \in up : instance[i].pc # "sleep" => clock < instance[i].began + Lease
    BY <1>13 DEF Tick
  <2>2. \A i \in up : InTime(i)'
    BY <1>13, <1>2, <2>1, LeaseAssumption, TimeAssumption
       DEF Tick, LockInv, InTime, InstanceState, Time
  <2> QED
    BY <1>1, <1>13, <2>2 DEF Tick, LockInv, RowThere, HoldsLock
<1> QED
  BY <1>3, <1>4, <1>5, <1>6, <1>7, <1>8, <1>9, <1>10, <1>11, <1>12, <1>13
     DEF Next, TickStep, Fault, CreateSchedule, SetPaused, vars

\* If ticks end within their lease, two instances never lead at the same time,
\* however many there are and however they stop, die and take over.
THEOREM OneLeader ==
    ASSUME Prompt PROVE Spec => []LeadersAreAlone
<1>1. LockInv /\ [Next]_vars => LockInv'
  BY LockKept
<1> QED
  BY InitialLock, LockGivesOneLeader, <1>1, PTL DEF Spec

-----------------------------------------------------------------------------
(* The leader's work implements CronContract.                              *)

\* What a leader has loaded is still what the table holds, and is due.
LoadedCurrent(i) ==
    instance[i].pc = "decide" =>
        \A s \in Schedule : instance[i].loaded[s] # 0 =>
            /\ instance[i].loaded[s] = cursor[s]
            /\ instance[i].loaded[s] <= instance[i].now

CronInv == LockInv /\ \A i \in up : LoadedCurrent(i)

LEMMA InitialCron == Init => CronInv /\ Cron!Init
<1> SUFFICES ASSUME Init PROVE CronInv /\ Cron!Init
  OBVIOUS
<1>1. \A i \in up : LoadedCurrent(i)
  BY DEF Init, LoadedCurrent, Asleep
<1>2. Cron!Init
  BY DEF Init, Cron!Init, NoRows
<1> QED
  BY <1>1, <1>2, InitialLock DEF CronInv

\* A commit of the leader moves the schedules it loaded on, from the cursors
\* the table still has.
LEMMA CommitMovesOn ==
    ASSUME CronInv, NEW i \in Instance, Materialize(i)
    PROVE  Cron!Next
<1> DEFINE D == {s \in Schedule : instance[i].loaded[s] # 0}
           M == instance[i].create
<1>1. /\ instance[i] \in InstanceState /\ M \subseteq D
      /\ cursor \in [Schedule -> Nat] /\ runs \in [Schedule -> [Time -> Nat]]
  BY DEF CronInv, LockInv, TypeInv, TypeOK, WorksOnLoaded, InstanceState
<1>2. \A s \in D : /\ instance[i].loaded[s] = cursor[s]
                   /\ instance[i].loaded[s] <= instance[i].now
  BY DEF Materialize, At, CronInv, LoadedCurrent
<1>3. \A s \in D : cursor'[s] = NextAfter(s, instance[i].now)
  BY DEF Materialize, Advanced
<1>4. ASSUME NEW s \in D PROVE cursor[s] # 0 /\ cursor'[s] > cursor[s]
  <2>1. instance[i].now \in Time /\ s \in Schedule
    BY <1>1 DEF InstanceState
  <2>2. NextAfter(s, instance[i].now) \in Nat /\ NextAfter(s, instance[i].now) > instance[i].now
    BY <2>1, CronAssumption
  <2>3. cursor[s] <= instance[i].now /\ cursor[s] # 0 /\ cursor[s] \in Nat
    BY <1>1, <1>2, <2>1
  <2>4. instance[i].now \in Nat
    BY <2>1, TimeAssumption DEF Time
  <2> QED
    BY <1>3, <2>2, <2>3, <2>4
<1>5. cursor' \in [Schedule -> Nat]
  BY TypesKept DEF CronInv, LockInv, TypeInv, TypeOK, Next, TickStep
<1>6. \A s \in Schedule \ D : cursor'[s] = cursor[s]
  BY DEF Materialize, Advanced
<1>7. \A s \in M : instance[i].loaded[s] = cursor[s]
  BY <1>1, <1>2
<1>8. runs' = [s \in Schedule |-> [t \in Time |->
                  IF s \in M /\ t = cursor[s] THEN runs[s][t] + 1 ELSE runs[s][t]]]
  BY <1>7 DEF Materialize
<1>9. Cron!MoveOn(D, M)
  BY <1>4, <1>5, <1>6, <1>8 DEF Cron!MoveOn
<1> QED
  BY <1>1, <1>9 DEF Cron!Next

\* Every other step defines a schedule or leaves the schedules alone.
LEMMA StepOfCron ==
    ASSUME CronInv, [Next]_vars
    PROVE  [Cron!Next]_(Cron!cronVars)
<1>1. CASE \E i \in Instance : Materialize(i)
  BY <1>1, CommitMovesOn
<1>2. CASE \E s \in Schedule : CreateSchedule(s)
  <2>1. PICK s \in Schedule : CreateSchedule(s)
    BY <1>2
  <2>2. TypeInv /\ TypeInv'
    BY TypesKept DEF CronInv, LockInv
  <2>3. Cron!Define(s)
    BY <2>1, <2>2 DEF CreateSchedule, Cron!Define, TypeInv, TypeOK
  <2> QED
    BY <2>3 DEF Cron!Next
<1>3. CASE UNCHANGED <<cursor, runs>>
  BY <1>3 DEF Cron!cronVars
<1> QED
  BY <1>1, <1>2, <1>3 DEF Next, TickStep, Fault, Wake, InsertRow, Acquire, StandBy, Promote,
     LoadSchedules, Decide, Reap, TickError, Crash, Stop, SetPaused, Tick, crons, vars

\* Nobody else writes the cursors while a leader is between its load and its
\* commit: there is no other leader, and new schedules are not among those loaded.
LEMMA CronKept ==
    ASSUME Prompt, CronInv, [Next]_vars
    PROVE  CronInv'
<1>1. LockInv'
  BY LockKept DEF CronInv
<1>2. /\ instance \in [Instance -> InstanceState]
      /\ up \subseteq Instance
      /\ cursor \in [Schedule -> Nat]
      /\ clock \in Nat
  BY TimeAssumption DEF CronInv, LockInv, TypeInv, TypeOK, Time
<1> SUFFICES ASSUME NEW j \in up' PROVE LoadedCurrent(j)'
  BY <1>1 DEF CronInv
<1>3. j \in up /\ j \in Instance
  BY <1>1, <1>2 DEF Next, TickStep, Fault, Wake, InsertRow, Acquire, StandBy, Promote,
     LoadSchedules, Decide, Materialize, Reap, TickError, Crash, Stop, Exit, CreateSchedule,
     SetPaused, Tick, vars
<1>4. LoadedCurrent(j)
  BY <1>3 DEF CronInv
<1>5. ASSUME NEW i \in Instance, UNCHANGED cursor,
             \A k \in Instance \ {i} : instance'[k] = instance[k],
             instance'[i].pc # "decide"
      PROVE  LoadedCurrent(j)'
  BY <1>3, <1>4, <1>5 DEF LoadedCurrent
<1>6. ASSUME NEW i \in Instance, Wake(i) PROVE LoadedCurrent(j)'
  BY <1>2, <1>5, <1>6 DEF Wake, InstanceState, crons
<1>7. ASSUME NEW i \in Instance, InsertRow(i) \/ Acquire(i) \/ Promote(i) PROVE LoadedCurrent(j)'
  BY <1>2, <1>5, <1>7 DEF InsertRow, Acquire, Promote, Goto, InstanceState, crons
<1>8. ASSUME NEW i \in Instance, StandBy(i) \/ Reap(i) \/ TickError(i) \/ Crash(i) \/ Stop(i)
      PROVE  LoadedCurrent(j)'
  BY <1>2, <1>5, <1>8 DEF StandBy, Reap, TickError, Crash, Stop, Exit, EndTick, Asleep, crons
<1>9. ASSUME NEW i \in Instance, LoadSchedules(i) PROVE LoadedCurrent(j)'
  <2>1. CASE j = i
    <3>1. /\ instance'[i].now = clock
          /\ \A s \in Schedule : instance'[i].loaded[s] # 0 =>
                instance'[i].loaded[s] = cursor[s] /\ cursor[s] <= clock
      BY <1>2, <1>9 DEF LoadSchedules, InstanceState, DueSchedules
    <3> QED
      BY <1>9, <2>1, <3>1 DEF LoadSchedules, LoadedCurrent, crons
  <2>2. CASE j # i
    BY <1>2, <1>3, <1>4, <1>9, <2>2 DEF LoadSchedules, LoadedCurrent, crons
  <2> QED
    BY <2>1, <2>2
<1>10. ASSUME NEW i \in Instance, NEW s \in Schedule, Decide(i, s) PROVE LoadedCurrent(j)'
  <2>1. /\ instance'[i].loaded = instance[i].loaded /\ instance'[i].now = instance[i].now
        /\ instance'[i].pc = instance[i].pc
        /\ \A k \in Instance \ {i} : instance'[k] = instance[k]
    BY <1>2, <1>10 DEF Decide, InstanceState
  <2> QED
    BY <1>3, <1>4, <1>10, <2>1 DEF Decide, LoadedCurrent, crons
<1>11. ASSUME NEW i \in Instance, Materialize(i) PROVE LoadedCurrent(j)'
  <2>1. CASE j = i
    <3>1. instance'[i].pc = "reap"
      BY <1>2, <1>11 DEF Materialize, InstanceState
    <3> QED
      BY <2>1, <3>1 DEF LoadedCurrent
  <2>2. CASE j # i
    <3>1. i \in up /\ instance[i].pc = "decide"
      BY <1>11 DEF Materialize, At
    <3>2. instance[j].pc # "decide"
      BY <1>3, <2>2, <3>1, LockGivesOneLeader DEF CronInv, LeadersAreAlone, Leading
    <3>3. instance'[j] = instance[j]
      BY <1>2, <1>3, <1>11, <2>2 DEF Materialize
    <3> QED
      BY <3>2, <3>3 DEF LoadedCurrent
  <2> QED
    BY <2>1, <2>2
<1>12. ASSUME NEW s \in Schedule, CreateSchedule(s) PROVE LoadedCurrent(j)'
  BY <1>2, <1>4, <1>12 DEF CreateSchedule, LoadedCurrent
<1>13. ASSUME UNCHANGED <<instance, cursor>> PROVE LoadedCurrent(j)'
  BY <1>4, <1>13 DEF LoadedCurrent
<1> QED
  BY <1>6, <1>7, <1>8, <1>9, <1>10, <1>11, <1>12, <1>13
     DEF Next, TickStep, Fault, SetPaused, Tick, crons, vars

\* If ticks end within their lease, the processes together behave like one
\* scheduler that turns each occurrence into at most one job.
THEOREM RefinesCron ==
    ASSUME Prompt PROVE Spec => ImplementsCron
<1>1. CronInv /\ [Next]_vars => CronInv'
  BY CronKept
<1>2. CronInv /\ [Next]_vars => [Cron!Next]_(Cron!cronVars)
  BY StepOfCron
<1> QED
  BY InitialCron, <1>1, <1>2, PTL DEF Spec, ImplementsCron, Cron!Spec
=============================================================================
