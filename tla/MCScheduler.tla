---------------------------- MODULE MCScheduler ----------------------------
(* Two scheduler processes, of which one may be stopped or die, and cron    *)
(* schedules that occur every Period time units.                           *)
EXTENDS SchedulerLock

CONSTANTS i1, i2, r1, r2

\* What a cron expression comes to.
EverySo(s, t) == LET period == IF s = r1 THEN 2 ELSE 3 IN (t \div period + 1) * period
=============================================================================
