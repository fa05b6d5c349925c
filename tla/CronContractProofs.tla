------------------------- MODULE CronContractProofs -------------------------
(* What CronContract gives its readers, for any schedules and any times.   *)
EXTENDS CronContract, TLAPS

\* No occurrence of a schedule gets two jobs.
AtMostOnce == \A s \in Schedule, t \in Time : runs[s][t] <= 1

\* An occurrence that has its job is behind the cursor, which never goes back.
Behind(s, t) == runs[s][t] # 0 => t \in Nat /\ t < cursor[s]

ContractInv ==
    /\ cursor \in [Schedule -> Nat]
    /\ runs \in [Schedule -> [Time -> Nat]]
    /\ AtMostOnce
    /\ \A s \in Schedule, t \in Time : Behind(s, t)

\* The promise of CronContract in one formula: "two schedulers can never
\* double-materialize the same recurring job" (scheduler_service.py).
THEOREM NoOccurrenceTwice == Spec => []AtMostOnce
<1>1. Init => ContractInv
  BY DEF Init, ContractInv, AtMostOnce, Behind
<1>2. ContractInv /\ [Next]_cronVars => ContractInv'
  <2> SUFFICES ASSUME ContractInv, [Next]_cronVars PROVE ContractInv'
    OBVIOUS
  <2> USE DEF ContractInv
  <2>1. ASSUME NEW s \in Schedule, Define(s) PROVE ContractInv'
    <3>1. \A r \in Schedule, t \in Time : Behind(r, t)'
      BY <2>1 DEF Define, Behind
    <3> QED
      BY <2>1, <3>1 DEF Define, AtMostOnce
  <2>2. ASSUME NEW D \in SUBSET Schedule, NEW M \in SUBSET D, MoveOn(D, M) PROVE ContractInv'
    <3>1. cursor' \in [Schedule -> Nat] /\ runs' \in [Schedule -> [Time -> Nat]]
      BY <2>2 DEF MoveOn
    <3>2. \A s \in Schedule : cursor[s] <= cursor'[s]
      BY <2>2 DEF MoveOn
    <3>3. ASSUME NEW s \in Schedule, NEW t \in Time
          PROVE  runs'[s][t] <= 1 /\ Behind(s, t)'
      <4>1. CASE s \in M /\ t = cursor[s]
        BY <2>2, <4>1 DEF MoveOn, AtMostOnce, Behind
      <4>2. CASE ~(s \in M /\ t = cursor[s])
        <5>1. runs'[s][t] = runs[s][t]
          BY <2>2, <4>2 DEF MoveOn
        <5> QED
          BY <3>1, <3>2, <5>1 DEF AtMostOnce, Behind
      <4> QED
        BY <4>1, <4>2
    <3> QED
      BY <3>1, <3>3 DEF AtMostOnce
  <2>3. CASE UNCHANGED cronVars
    BY <2>3 DEF cronVars, AtMostOnce, Behind
  <2> QED
    BY <2>1, <2>2, <2>3 DEF Next
<1>3. ContractInv => AtMostOnce
  BY DEF ContractInv
<1> QED
  BY <1>1, <1>2, <1>3, PTL DEF Spec
=============================================================================
