---------------------------- MODULE CronContract ----------------------------
(***************************************************************************)
(* What recurring schedules promise, without schedulers or locks: an       *)
(* occurrence of a schedule is turned into at most one job, and the cursor *)
(* only moves on.  (backend/app/models.py, ScheduledJob; services/         *)
(* scheduler_service.py, "two schedulers can never double-materialize the  *)
(* same recurring job".)  Occurrences may be left out: those of a paused   *)
(* queue, and those that pass while no scheduler is running.               *)
(***************************************************************************)
EXTENDS Naturals

CONSTANTS
    Schedule,  \* the recurring schedules
    Time       \* the moments at which jobs can be made

VARIABLES
    cursor,    \* the occurrence each schedule waits for; 0: not defined yet
    runs       \* jobs made for each occurrence of each schedule

cronVars == <<cursor, runs>>

Init ==
    /\ cursor = [s \in Schedule |-> 0]
    /\ runs = [s \in Schedule |-> [t \in Time |-> 0]]

Define(s) ==
    /\ cursor[s] = 0
    /\ cursor' \in [Schedule -> Nat]
    /\ \A r \in Schedule \ {s} : cursor'[r] = cursor[r]
    /\ UNCHANGED runs

\* The schedules in D move on; those in M get a job for the occurrence left.
MoveOn(D, M) ==
    /\ \A s \in D : cursor[s] # 0 /\ cursor'[s] > cursor[s]
    /\ cursor' \in [Schedule -> Nat]
    /\ \A s \in Schedule \ D : cursor'[s] = cursor[s]
    /\ runs' = [s \in Schedule |-> [t \in Time |->
                   IF s \in M /\ t = cursor[s] THEN runs[s][t] + 1 ELSE runs[s][t]]]

Next ==
    \/ \E s \in Schedule : Define(s)
    \/ \E D \in SUBSET Schedule : \E M \in SUBSET D : MoveOn(D, M)

Spec == Init /\ [][Next]_cronVars
=============================================================================
