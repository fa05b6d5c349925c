---------------------------- MODULE JobContract ----------------------------
(***************************************************************************)
(* What the scheduler promises about one job, without queues, handlers,    *)
(* executions or schedules: a submitted job waits, is held by exactly one  *)
(* worker at a time, may be given back to be tried again, and is finished  *)
(* once, by the worker that holds it.  (README.md, "Key Features"; the job *)
(* lifecycle of docs/ARCHITECTURE.md.)  JobLifecycle implements this as    *)
(* long as nothing but crashes and database errors goes wrong.             *)
(***************************************************************************)
CONSTANTS Job, Worker, NULL

VARIABLES
    phase,     \* "unborn", "waiting", "held", "done" or "failed"
    holder     \* the worker a held job is with

contractVars == <<phase, holder>>

Init ==
    /\ phase \in [Job -> {"unborn", "waiting"}]
    /\ holder = [j \in Job |-> NULL]

Submit(j) ==
    /\ phase[j] = "unborn"
    /\ phase' = [phase EXCEPT ![j] = "waiting"]
    /\ UNCHANGED holder

Take(j, w) ==
    /\ phase[j] = "waiting"
    /\ phase' = [phase EXCEPT ![j] = "held"]
    /\ holder' = [holder EXCEPT ![j] = w]

\* Failed attempts and jobs of silent workers; a reap takes several at once.
GiveBack(S) ==
    /\ \A j \in S : phase[j] = "held"
    /\ phase'  = [j \in Job |-> IF j \in S THEN "waiting" ELSE phase[j]]
    /\ holder' = [j \in Job |-> IF j \in S THEN NULL ELSE holder[j]]

Finish(j, outcome) ==
    /\ phase[j] = "held"
    /\ phase' = [phase EXCEPT ![j] = outcome]
    /\ holder' = [holder EXCEPT ![j] = NULL]

Next ==
    \/ \E j \in Job : \/ Submit(j)
                      \/ \E w \in Worker : Take(j, w)
                      \/ \E outcome \in {"done", "failed"} : Finish(j, outcome)
    \/ \E S \in SUBSET Job : GiveBack(S)

Spec == Init /\ [][Next]_contractVars
=============================================================================
