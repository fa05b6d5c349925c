----------------------------- MODULE MCWorkflow -----------------------------
(* Workflow dependencies on a small instance: c depends on a and b (Join)  *)
(* or on a alone (Edge), two executor threads of one worker or of two, an   *)
(* API with two handler threads, one queue.                                *)
EXTENDS JobProperties, TLC

CONSTANTS a, b, c, w1, w2, s1, s2, h1, h2, q1

Join == [j \in Job |-> IF j = c THEN {a, b} ELSE {}]
Edge == [j \in Job |-> IF j = c THEN {a} ELSE {}]

OneWorker == [s \in Slot |-> w1]
OwnWorker == [s \in Slot |-> IF s = s1 THEN w1 ELSE w2]
ServesAll == [w \in Worker |-> Job]
OneQueue  == [j \in Job |-> q1]
SamePriority == [j \in Job |-> 0]
OneAttempt == [j \in Job |-> 1]
NoKeys == [j \in Job |-> NULL]

\* Handler threads are interchangeable (safety runs only).
HandlerSymmetry == Permutations(Handler)
=============================================================================
