--------------------------- MODULE SchedulerLock ---------------------------
(***************************************************************************)
(* Redundant scheduler processes (backend/app/scheduler.py) that elect one *)
(* of them per tick with a leased row (services/scheduler_service.py,      *)
(* try_acquire_lock and release_lock), and what the elected one does that  *)
(* must not be done twice: turning due cron schedules into jobs            *)
(* (process_recurring_jobs).  The two other passes of a tick, over delayed *)
(* and over stuck jobs, are those of JobLifecycle, which takes for granted *)
(* that one process at a time makes them: LeadersAreAlone is that.         *)
(*                                                                         *)
(* An instance reads its clock once at the start of try_acquire_lock and   *)
(* writes the lock in a later statement; the lease is not renewed before   *)
(* the next tick.                                                          *)
(***************************************************************************)
EXTENDS Naturals

CONSTANTS
    Instance,          \* scheduler processes (INSTANCE_ID of each)
    Schedule,          \* rows of scheduled_jobs that get defined
    NextAfter(_, _),   \* croniter: the first occurrence after a moment
    Lease,             \* lease_seconds
    Prompt,            \* a tick ends within its lease, or may take any time
    MaxTime,           \* bound: the clock stops there
    LastFault,         \* bound: no process is stopped, dies or gets an error later
    Mortal,            \* instances that may be stopped or die
    NULL               \* no holder

Time == 0..MaxTime

ASSUME LeaseAssumption == Lease \in Nat \ {0} /\ Prompt \in BOOLEAN
ASSUME TimeAssumption == MaxTime \in Nat /\ LastFault \in Nat
ASSUME InstanceAssumption == NULL \notin Instance /\ Mortal \subseteq Instance
ASSUME CronAssumption ==
    \A s \in Schedule, t \in Time : NextAfter(s, t) \in Nat /\ NextAfter(s, t) > t

VARIABLES
    clock,      \* the time
    lock,       \* the scheduler_locks row
    instance,   \* where each process is in its tick and what it has read
    up,         \* processes that run
    cursor,     \* scheduled_jobs.next_run_at, 0 before the row is inserted
    paused,     \* schedules whose queue is paused
    runs        \* history: jobs inserted for each occurrence of each schedule

crons == <<cursor, paused, runs>>
vars  == <<clock, lock, instance, up, cursor, paused, runs>>

-----------------------------------------------------------------------------
LockRow == [exists: BOOLEAN, holder: Instance \cup {NULL}, expires: Nat]

\* A process is between ticks, or has a statement of the tick before it; from
\* "promote" on it has won the lock and does the leader's work.
Leading == {"promote", "recurring", "decide", "reap"}
InstanceState == [pc: {"sleep", "insert", "acquire"} \cup Leading,
                  began: Time,                  \* `now` of try_acquire_lock
                  now: Time,                    \* `now` of process_recurring_jobs
                  loaded: [Schedule -> Nat],    \* next_run_at of the due rows, or 0
                  todo: SUBSET Schedule,        \* rows the loop has not reached
                  create: SUBSET Schedule]      \* rows it has added a job for

NoRows == [s \in Schedule |-> 0]
Asleep == [pc |-> "sleep", began |-> 0, now |-> 0, loaded |-> NoRows,
           todo |-> {}, create |-> {}]

Init ==
    /\ clock = 0
    /\ lock = [exists |-> FALSE, holder |-> NULL, expires |-> 0]
    /\ instance = [i \in Instance |-> Asleep]
    /\ up = Instance
    /\ cursor = NoRows
    /\ paused = {}
    /\ runs = [s \in Schedule |-> [t \in Time |-> 0]]

At(i, pc) == i \in up /\ instance[i].pc = pc
Goto(i, pc) == instance' = [instance EXCEPT ![i].pc = pc]

\* A mistaken variant: the session stays open after the tick, and an error is
\* not rolled back: its new jobs wait for the next commit.
EndTickPending(i) ==
    instance' = [instance EXCEPT ![i] = [Asleep EXCEPT !.create = instance[i].create]]

\* The session is closed, and what it had not committed is gone.
EndTick(i) == instance' = [instance EXCEPT ![i] = Asleep]

-----------------------------------------------------------------------------
(* try_acquire_lock.                                                       *)

\* Reads the clock and looks for the lock row.
Wake(i) ==
    /\ At(i, "sleep")
    /\ instance' = [instance EXCEPT ![i].began = clock,
                        ![i].pc = IF lock.exists THEN "acquire" ELSE "insert"]
    /\ UNCHANGED <<clock, lock, up, crons>>

\* The insert, or, if another instance was first, its rollback.
InsertRow(i) ==
    /\ At(i, "insert")
    /\ lock' = IF lock.exists THEN lock
               ELSE [exists |-> TRUE, holder |-> NULL, expires |-> 0]
    /\ Goto(i, "acquire")
    /\ UNCHANGED <<clock, up, crons>>

\* A mistaken variant: a lease that runs out one moment early.
ExpiredEarly(t) == lock.expires <= t

Expired(t) == lock.expires < t

\* A mistaken variant: nobody takes the lock from another instance.
WinnableFree(i) == lock.holder \in {NULL, i}

Winnable(i) == \/ lock.holder \in {NULL, i}
               \/ Expired(instance[i].began)

\* A mistaken variant: the lease is left out of expires_at.
AcquireNoLease(i) ==
    /\ At(i, "acquire")
    /\ Winnable(i)
    /\ lock' = [lock EXCEPT !.holder = i, !.expires = instance[i].began]
    /\ Goto(i, "promote")
    /\ UNCHANGED <<clock, up, crons>>

\* The UPDATE matches the row, with the times read when the tick began.
Acquire(i) ==
    /\ At(i, "acquire")
    /\ Winnable(i)
    /\ lock' = [lock EXCEPT !.holder = i, !.expires = instance[i].began + Lease]
    /\ Goto(i, "promote")
    /\ UNCHANGED <<clock, up, crons>>

StandBy(i) ==
    /\ At(i, "acquire")
    /\ ~Winnable(i)
    /\ EndTick(i)
    /\ UNCHANGED <<clock, lock, up, crons>>

-----------------------------------------------------------------------------
(* The leader's tick.                                                      *)

\* promote_ready_scheduled_jobs and reap_stale_jobs change rows of jobs only
\* (JobLifecycle, ReadDueJobs to CommitReap).
Promote(i) ==
    /\ At(i, "promote")
    /\ Goto(i, "recurring")
    /\ UNCHANGED <<clock, lock, up, crons>>

DueSchedules == {s \in Schedule : cursor[s] # 0 /\ cursor[s] <= clock}

\* process_recurring_jobs reads its own clock and loads the rows that are due.
LoadSchedules(i) ==
    /\ At(i, "recurring")
    /\ instance' = [instance EXCEPT
           ![i].now = clock,
           ![i].loaded = [s \in Schedule |-> IF s \in DueSchedules THEN cursor[s] ELSE 0],
           ![i].todo = DueSchedules, ![i].create = {},
           ![i].pc = IF DueSchedules = {} THEN "reap" ELSE "decide"]
    /\ UNCHANGED <<clock, lock, up, crons>>

\* For each of them, in any order, the queue is read: no job if it is paused.
Decide(i, s) ==
    /\ At(i, "decide")
    /\ s \in instance[i].todo
    /\ instance' = [instance EXCEPT
           ![i].todo = @ \ {s},
           ![i].create = IF s \in paused THEN @ ELSE @ \cup {s}]
    /\ UNCHANGED <<clock, lock, up, crons>>

\* A mistaken variant: only schedules that got a job advance.
AdvancedIfCreated(i) ==
    [s \in Schedule |-> IF s \in instance[i].create THEN NextAfter(s, instance[i].now)
                        ELSE cursor[s]]

\* Where the commit leaves the cursors: the loaded rows advance from `now`,
\* whether or not they got a job.
Advanced(i) ==
    [s \in Schedule |-> IF instance[i].loaded[s] # 0 THEN NextAfter(s, instance[i].now)
                        ELSE cursor[s]]

\* One commit writes the new jobs and the new cursors, without looking at the
\* rows again.
Materialize(i) ==
    /\ At(i, "decide")
    /\ instance[i].todo = {}
    /\ cursor' = Advanced(i)
    /\ runs' = [s \in Schedule |-> [t \in Time |->
                   IF s \in instance[i].create /\ t = instance[i].loaded[s]
                   THEN runs[s][t] + 1 ELSE runs[s][t]]]
    /\ instance' = [instance EXCEPT ![i].pc = "reap", ![i].loaded = NoRows, ![i].create = {}]
    /\ UNCHANGED <<clock, lock, up, paused>>

Reap(i) ==
    /\ At(i, "reap")
    /\ EndTick(i)
    /\ UNCHANGED <<clock, lock, up, crons>>

-----------------------------------------------------------------------------
(* Errors, stops and crashes.                                              *)

\* A statement of the tick raises: nothing is committed, main logs and goes on.
\* A stop whose release raises inside a tick ends there too.
TickError(i) ==
    /\ i \in up /\ clock <= LastFault
    /\ instance[i].pc # "sleep"
    /\ EndTick(i)
    /\ UNCHANGED <<clock, lock, up, crons>>

Exit(i) == up' = up \ {i} /\ EndTick(i)

\* The process dies, or is stopped between ticks and cannot release the lock.
Crash(i) ==
    /\ i \in up \cap Mortal /\ clock <= LastFault
    /\ Exit(i)
    /\ UNCHANGED <<clock, lock, crons>>

\* _shutdown, at any point of a tick: the handler releases the lock in a session
\* of its own, and SystemExit rolls the tick's back.
Stop(i) ==
    /\ i \in up \cap Mortal /\ clock <= LastFault
    /\ lock' = IF lock.holder = i THEN [lock EXCEPT !.holder = NULL, !.expires = 0] ELSE lock
    /\ Exit(i)
    /\ UNCHANGED <<clock, crons>>

-----------------------------------------------------------------------------
(* Requests and time.                                                      *)

\* POST /jobs of type RECURRING: the first occurrence is counted from a moment
\* that may have passed when the row is committed.
CreateSchedule(s) ==
    /\ cursor[s] = 0
    /\ \E t \in 0..clock : cursor' = [cursor EXCEPT ![s] = NextAfter(s, t)]
    /\ UNCHANGED <<clock, lock, instance, up, paused, runs>>

\* POST /queues/{id}/pause and /resume.
SetPaused(s) ==
    /\ paused' = IF s \in paused THEN paused \ {s} ELSE paused \cup {s}
    /\ UNCHANGED <<clock, lock, instance, up, cursor, runs>>

\* With Prompt, no tick is still under way when its lease has run out.
Tick ==
    /\ clock < MaxTime
    /\ Prompt => \A i \in up : instance[i].pc # "sleep" => clock < instance[i].began + Lease
    /\ clock' = clock + 1
    /\ UNCHANGED <<lock, instance, up, crons>>

-----------------------------------------------------------------------------
TickStep(i) ==
    \/ Wake(i) \/ InsertRow(i) \/ Acquire(i) \/ StandBy(i)
    \/ Promote(i) \/ LoadSchedules(i) \/ Materialize(i) \/ Reap(i)
    \/ \E s \in Schedule : Decide(i, s)

Fault(i) == TickError(i) \/ Crash(i) \/ Stop(i)

Next ==
    \/ \E i \in Instance : TickStep(i) \/ Fault(i)
    \/ \E s \in Schedule : CreateSchedule(s) \/ SetPaused(s)
    \/ Tick

Spec == Init /\ [][Next]_vars

\* A process that runs goes through its endless loop, and time passes.
FairSpec ==
    /\ Spec
    /\ \A i \in Instance : WF_vars(TickStep(i))
    /\ WF_vars(Tick)

-----------------------------------------------------------------------------
(* Properties.                                                             *)

TypeOK ==
    /\ clock \in Time
    /\ lock \in LockRow
    /\ instance \in [Instance -> InstanceState]
    /\ up \subseteq Instance
    /\ cursor \in [Schedule -> Nat]
    /\ paused \subseteq Schedule
    /\ runs \in [Schedule -> [Time -> Nat]]

\* The rows the loop has still to reach and those it adds a job for are rows
\* the tick has loaded.
WorksOnLoaded(p) == \A s \in p.todo \cup p.create : p.loaded[s] # 0

\* Type correctness, with what each tick has in hand.
TypeInv == TypeOK /\ \A i \in Instance : WorksOnLoaded(instance[i])

\* Two instances never do the leader's work at the same time
\* (try_acquire_lock), if ticks are Prompt: the guard of the UPDATE compares
\* a clock read earlier with an expiry computed from one read earlier still.
LeadersAreAlone ==
    \A i, j \in up : instance[i].pc \in Leading /\ instance[j].pc \in Leading => i = j

\* Every commit of a leader is a step of CronContract: it writes the cursors of
\* rows it loaded earlier and never looks at them again, and still no occurrence
\* gets two jobs and no cursor goes back, through stops, crashes and take-overs.
Cron == INSTANCE CronContract
ImplementsCron == Cron!Spec

\* A schedule that is due moves on, whatever happens to the instances, as long
\* as one of them stays: by lock, lease and take-over some instance leads.
DueHandled ==
    \A s \in Schedule : (cursor[s] # 0 /\ cursor[s] <= clock) ~> cursor[s] > clock

\* "If that instance dies or stalls, the lease expires and another instance can
\* take over" (try_acquire_lock).
TakenOver ==
    \A i \in Instance : lock.holder = i /\ i \notin up ~> lock.holder # i
=============================================================================
