------------------------------ MODULE MCFleet ------------------------------
(* Independent jobs of one queue and a fleet of workers: w1 with one        *)
(* executor thread and w2 with the others, or w1 with all the threads.      *)
EXTENDS JobProperties, TLC

CONSTANTS a, b, c, w1, w2, s1, s2, s3, h1, h2, q1, k1

Independent == [j \in Job |-> {}]

OwnWorker == [s \in Slot |-> IF s = s1 THEN w1 ELSE w2]
AllOfW1   == [s \in Slot |-> w1]
ServesAll == [w \in Worker |-> Job]
OneQueue  == [j \in Job |-> q1]

SamePriority == [j \in Job |-> 0]

OneAttempt  == [j \in Job |-> 1]
TwoAttempts == [j \in Job |-> 2]
\* a may be retried, the others were submitted with max_retries 0.
OnlyA       == [j \in Job |-> IF j = a THEN 2 ELSE 0]

NoKeys  == [j \in Job |-> NULL]
SameKey == [j \in Job |-> k1]

\* Safety runs only: API threads are interchangeable, and where three jobs meet
\* three threads, so are the jobs b and c and the two threads of w2.
HandlerSymmetry == Permutations(Handler)
FleetSymmetry ==
    HandlerSymmetry \cup Permutations({b, c}) \cup Permutations({s2, s3})
=============================================================================
