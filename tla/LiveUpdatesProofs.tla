------------------------- MODULE LiveUpdatesProofs -------------------------
(***************************************************************************)
(* Proofs about the broadcast, for any finite set of connections: the list *)
(* never has a socket twice, nobody gets one snapshot twice, and a removal *)
(* during a round costs at most one other connection its snapshot.         *)
(***************************************************************************)
EXTENDS LiveUpdates, SequenceTheorems, FiniteSetTheorems, WellFoundedInduction, TLAPS

-----------------------------------------------------------------------------
(* What is left of a list.                                                 *)

\* Each set of numbers that is not empty has a least one: the induction below
\* is over the least place of a list where a fact fails.
LEMMA LeastNumber ==
    ASSUME NEW T \in SUBSET Nat, T # {}
    PROVE  \E n \in T : \A m \in T : n <= m
<1> DEFINE R == OpToRel(<, Nat)
<1>1. IsWellFoundedOn(R, Nat)
  BY NatLessThanWellFounded
<1> HIDE DEF R
<1>2. PICK n \in T : \A m \in T : ~ (<<m, n>> \in R)
  BY <1>1, WFMin
<1>3. \A m \in T : ~ (m < n)
  BY <1>2 DEF R, OpToRel
<1> QED
  BY <1>3

\* list.remove takes the one place of the socket out of the list.
LEMMA OneRemoved ==
    ASSUME NEW s \in Seq(Client), IsInjective(s), NEW i \in 1..Len(s)
    PROVE  /\ RemoveFirst(s, s[i]) \in Seq(Client)
           /\ Len(RemoveFirst(s, s[i])) = Len(s) - 1
           /\ \A k \in 1..(Len(s) - 1) :
                 RemoveFirst(s, s[i])[k] = IF k < i THEN s[k] ELSE s[k + 1]
<1> DEFINE front == SubSeq(s, 1, i - 1)
           back  == SubSeq(s, i + 1, Len(s))
<1>1. RemoveFirst(s, s[i]) = front \o back
  <2>1. {k \in 1..Len(s) : s[k] = s[i]} = {i}
    BY DEF IsInjective
  <2>2. SelectInSeq(s, LAMBDA v : v = s[i]) = i
    BY <2>1 DEF SelectInSeq, Min
  <2> QED
    BY <2>2 DEF RemoveFirst, RemoveAt
<1>2. /\ front \in Seq(Client) /\ Len(front) = i - 1
      /\ \A k \in 1..(i - 1) : front[k] = s[k]
  BY SubSeqProperties
<1>3. /\ back \in Seq(Client) /\ Len(back) = Len(s) - i
      /\ \A k \in 1..(Len(s) - i) : back[k] = s[i + k]
  BY SubSeqProperties
<1> HIDE DEF front, back
<1>4. /\ front \o back \in Seq(Client) /\ Len(front \o back) = Len(s) - 1
      /\ \A k \in 1..(Len(s) - 1) :
            (front \o back)[k] = IF k <= i - 1 THEN front[k] ELSE back[k - (i - 1)]
  <2>1. /\ front \o back \in Seq(Client) /\ Len(front \o back) = Len(front) + Len(back)
        /\ \A k \in 1..(Len(front) + Len(back)) :
              (front \o back)[k] = IF k <= Len(front) THEN front[k] ELSE back[k - Len(front)]
    BY <1>2, <1>3, ConcatProperties
  <2>2. Len(front) + Len(back) = Len(s) - 1
    BY <1>2, <1>3, LenProperties
  <2> QED
    BY <1>2, <2>1, <2>2
<1>5. ASSUME NEW k \in 1..(Len(s) - 1)
      PROVE  (front \o back)[k] = IF k < i THEN s[k] ELSE s[k + 1]
  <2>1. CASE k < i
    BY <1>2, <1>4, <2>1
  <2>2. CASE ~ (k < i)
    <3>1. k - (i - 1) \in 1..(Len(s) - i) /\ i + (k - (i - 1)) = k + 1
      BY <2>2
    <3> QED
      BY <1>3, <1>4, <2>2, <3>1
  <2> QED
    BY <2>1, <2>2
<1> QED
  BY <1>1, <1>4, <1>5

LEMMA NoneRemoved ==
    ASSUME NEW s \in Seq(Client), NEW c, ~ Contains(s, c)
    PROVE  RemoveFirst(s, c) = s
BY DEF RemoveFirst, Contains

\* The lists f[0], f[1], ... that the loop over s builds when it leaves out D.
Builds(f, n, s, D) ==
    f = [i \in 0..n |-> IF i = 0 THEN <<>>
                        ELSE IF s[i] \in D THEN f[i - 1]
                        ELSE Append(f[i - 1], s[i])]

LEMMA LoopBuilds ==
    ASSUME NEW s \in Seq(Client), NEW D
    PROVE  \E f : Builds(f, Len(s), s, D)
<1> DEFINE Bad == {n \in 0..Len(s) : ~ \E f : Builds(f, n, s, D)}
<1>1. ASSUME Bad # {} PROVE FALSE
  <2>1. PICK n \in Bad : \A m \in Bad : n <= m
    <3>1. Bad \in SUBSET Nat
      OBVIOUS
    <3> QED
      BY <1>1, <3>1, LeastNumber
  <2>2. CASE n = 0
    <3>1. Builds([i \in 0..0 |-> <<>>], 0, s, D)
      BY DEF Builds
    <3> QED
      BY <2>1, <2>2, <3>1
  <2>3. CASE n # 0
    <3>1. n - 1 \in 0..Len(s) /\ n - 1 \notin Bad /\ n \in 1..Len(s)
      BY <2>1, <2>3
    <3>2. PICK f : Builds(f, n - 1, s, D)
      BY <3>1
    <3> DEFINE last == IF s[n] \in D THEN f[n - 1] ELSE Append(f[n - 1], s[n])
               g == [i \in 0..n |-> IF i = n THEN last ELSE f[i]]
    <3>3. ASSUME NEW i \in 0..n
          PROVE  g[i] = IF i = 0 THEN <<>>
                        ELSE IF s[i] \in D THEN g[i - 1]
                        ELSE Append(g[i - 1], s[i])
      <4>1. CASE i = n
        BY <2>3, <3>1, <4>1
      <4>2. CASE i # n
        <5>1. i \in 0..(n - 1) /\ (i # 0 => i - 1 \in 0..n /\ i - 1 # n)
          BY <3>1, <4>2
        <5>2. f[i] = IF i = 0 THEN <<>>
                     ELSE IF s[i] \in D THEN f[i - 1]
                     ELSE Append(f[i - 1], s[i])
          BY <3>2, <5>1 DEF Builds
        <5> QED
          BY <4>2, <5>1, <5>2
      <4> QED
        BY <4>1, <4>2
    <3>4. Builds(g, n, s, D)
      <4> HIDE DEF last
      <4>1. g = [i \in 0..n |-> g[i]]
        OBVIOUS
      <4> HIDE DEF g
      <4> QED
        BY <3>3, <4>1 DEF Builds
    <3> QED
      BY <2>1, <3>4
  <2> QED
    BY <2>2, <2>3
<1> QED
  BY <1>1, LenProperties

\* List t has sockets of the first n places of s that are not in D, each once.
Kept(t, n, s, D) ==
    /\ t \in Seq(Client) /\ IsInjective(t)
    /\ \A k \in 1..Len(t) : t[k] \notin D /\ \E m \in 1..n : t[k] = s[m]

LEMMA WhatIsKept ==
    ASSUME NEW s \in Seq(Client), IsInjective(s), NEW D, NEW f, Builds(f, Len(s), s, D)
    PROVE  Kept(f[Len(s)], Len(s), s, D)
<1> DEFINE Bad == {n \in 0..Len(s) : ~ Kept(f[n], n, s, D)}
<1>1. ASSUME Bad # {} PROVE FALSE
  <2>1. PICK n \in Bad : \A m \in Bad : n <= m
    <3>1. Bad \in SUBSET Nat
      OBVIOUS
    <3> QED
      BY <1>1, <3>1, LeastNumber
  <2>2. CASE n = 0
    <3>1. f[n] = <<>>
      BY <2>2 DEF Builds
    <3> QED
      <4>1. /\ f[n] \in Seq(Client) /\ Len(f[n]) = 0
            /\ DOMAIN f[n] = {} /\ 1..Len(f[n]) = {}
        BY <3>1, EmptySeq, LenProperties
      <4>2. IsInjective(f[n])
        BY <4>1 DEF IsInjective
      <4>3. Kept(f[n], n, s, D)
        BY <4>1, <4>2 DEF Kept
      <4> QED
        BY <2>1, <4>3
  <2>3. CASE n # 0
    <3>1. n - 1 \in 0..Len(s) /\ n - 1 \notin Bad /\ n \in 1..Len(s) /\ s[n] \in Client
      BY <2>1, <2>3, ElementOfSeq
    <3>2. Kept(f[n - 1], n - 1, s, D)
      BY <3>1
    <3>3. CASE s[n] \in D
      <4>1. f[n] = f[n - 1]
        BY <2>3, <3>1, <3>3 DEF Builds
      <4> QED
        BY <2>1, <3>1, <3>2, <4>1 DEF Kept
    <3>4. CASE s[n] \notin D
      <4> DEFINE t == f[n - 1]
                 u == Append(t, s[n])
      <4>1. f[n] = u
        BY <2>3, <3>1, <3>4 DEF Builds
      <4>2. /\ t \in Seq(Client) /\ IsInjective(t) /\ Len(t) \in Nat
            /\ \A k \in 1..Len(t) : t[k] \notin D /\ \E m \in 1..(n - 1) : t[k] = s[m]
        BY <3>2, LenProperties DEF Kept
      <4> HIDE DEF t
      <4>3. /\ u \in Seq(Client) /\ Len(u) = Len(t) + 1
            /\ \A k \in 1..Len(t) : u[k] = t[k]
            /\ u[Len(t) + 1] = s[n]
        BY <3>1, <4>2, AppendProperties
      <4> HIDE DEF u
      <4>4. \A k \in 1..Len(t) : t[k] # s[n]
        BY <3>1, <4>2 DEF IsInjective
      <4>5. IsInjective(u)
        <5>1. DOMAIN u = 1..(Len(t) + 1) /\ DOMAIN t = 1..Len(t)
          BY <4>2, <4>3, LenProperties
        <5> QED
          BY <4>2, <4>3, <4>4, <5>1 DEF IsInjective
      <4>6. ASSUME NEW k \in 1..Len(u)
            PROVE  u[k] \notin D /\ \E m \in 1..n : u[k] = s[m]
        <5>1. CASE k \in 1..Len(t)
          <6>1. 1..(n - 1) \subseteq 1..n
            BY <3>1
          <6> QED
            BY <4>2, <4>3, <5>1, <6>1
        <5>2. CASE k = Len(t) + 1
          BY <3>1, <3>4, <4>3, <5>2
        <5> QED
          BY <4>2, <4>3, <5>1, <5>2
      <4> QED
        BY <2>1, <4>1, <4>3, <4>5, <4>6 DEF Kept
    <3> QED
      BY <3>3, <3>4
  <2> QED
    BY <2>2, <2>3
<1> QED
  BY <1>1, LenProperties

LEMMA DeadLeave ==
    ASSUME active \in Seq(Client), IsInjective(active), NEW D
    PROVE  Kept(WithoutDead(D), Len(active), active, D)
<1> DEFINE kept == CHOOSE f : Builds(f, Len(active), active, D)
<1>1. Builds(kept, Len(active), active, D)
  BY LoopBuilds
<1>2. WithoutDead(D) = kept[Len(active)]
  BY DEF WithoutDead, Builds
<1> HIDE DEF kept
<1> QED
  BY <1>1, <1>2, WhatIsKept

-----------------------------------------------------------------------------
(* The inductive invariant.                                                *)

\* Sockets the round has dealt with.
Dealt == served \cup dead

\* The sockets of the list and of the round are connections that were made.
Known ==
    /\ \A i \in DOMAIN active : conn[active[i]] # "new"
    /\ at > 0 => target # NULL /\ \A c \in Dealt \cup {target} : conn[c] # "new"

\* What lies behind the index has had nothing of this round yet.
Ahead ==
    at > 0 => /\ target \notin Dealt
              /\ \A k \in DOMAIN active : k > at => active[k] \notin Dealt \cup {target}

\* Places up to the index that are empty now, or whose socket was passed over.
\* An empty place counts: a new socket appended to a list that has become
\* shorter than the index is passed over too.
Gaps == {i \in 1..at : ~ (i <= Len(active) /\ active[i] \in Dealt \cup {target})}

BroadcastInv == TypeOK /\ Known /\ Ahead /\ Cardinality(Gaps) <= left

LEMMA GapsFinite ==
    ASSUME at \in Nat
    PROVE  IsFiniteSet(Gaps) /\ Cardinality(Gaps) \in Nat
<1>1. Gaps \subseteq 1..at /\ IsFiniteSet(1..at)
  BY FS_Interval DEF Gaps
<1> QED
  BY <1>1, FS_Subset, FS_CardinalityType

LEMMA NoNewGaps ==
    ASSUME BroadcastInv, Gaps' \subseteq Gaps, left' = left
    PROVE  Cardinality(Gaps') <= left'
<1>1. IsFiniteSet(Gaps) /\ Cardinality(Gaps) \in Nat
  BY GapsFinite DEF BroadcastInv, TypeOK
<1>2. Cardinality(Gaps') <= Cardinality(Gaps) /\ Cardinality(Gaps') \in Nat
  BY <1>1, FS_Subset, FS_CardinalityType
<1> QED
  BY <1>1, <1>2 DEF BroadcastInv, TypeOK

-----------------------------------------------------------------------------
(* One lemma per action.                                                   *)

LEMMA ConnectKeeps ==
    ASSUME BroadcastInv, NEW c \in Client, Connect(c)
    PROVE  BroadcastInv'
<1>a. /\ TypeOK /\ Known /\ Ahead
      /\ active \in Seq(Client) /\ IsInjective(active) /\ Len(active) \in Nat
      /\ DOMAIN active = 1..Len(active)
  BY LenProperties DEF BroadcastInv, TypeOK
<1>b. /\ conn[c] = "new" /\ conn' = [conn EXCEPT ![c] = "open"]
      /\ UNCHANGED <<at, target, dead, served, left>>
      /\ Dealt' = Dealt /\ started' \in BOOLEAN
  BY DEF Connect, round, Dealt
<1>1. /\ active' \in Seq(Client) /\ Len(active') = Len(active) + 1
      /\ \A k \in 1..Len(active) : active'[k] = active[k]
      /\ active'[Len(active) + 1] = c
      /\ DOMAIN active' = 1..(Len(active) + 1)
  BY <1>a, AppendProperties, LenProperties DEF Connect
<1>2. \A k \in 1..Len(active) : active[k] # c
  BY <1>a, <1>b DEF Known
<1>3. TypeOK'
  <2>1. IsInjective(active')
    BY <1>a, <1>1, <1>2 DEF IsInjective
  <2> QED
    BY <1>a, <1>b, <1>1, <2>1 DEF TypeOK
<1>4. Known'
  <2>1. \A k \in DOMAIN active' : conn'[active'[k]] # "new"
    BY <1>a, <1>b, <1>1, <1>2 DEF Known, TypeOK
  <2>2. ASSUME at' > 0 PROVE target' # NULL /\ \A d \in Dealt' \cup {target'} : conn'[d] # "new"
    BY <1>a, <1>b, <2>2 DEF Known, TypeOK
  <2> QED
    BY <2>1, <2>2 DEF Known
<1>5. Ahead'
  <2>1. at > 0 => target \notin Dealt /\ c \notin Dealt \cup {target}
    BY <1>a, <1>b DEF Ahead, Known
  <2>2. ASSUME at > 0, NEW k \in 1..(Len(active) + 1), k > at
        PROVE  active'[k] \notin Dealt \cup {target}
    BY <1>a, <1>1, <2>1, <2>2 DEF Ahead
  <2> QED
    BY <1>b, <1>1, <2>1, <2>2 DEF Ahead
<1>6. Gaps' \subseteq Gaps
  BY <1>a, <1>b, <1>1 DEF Gaps, TypeOK
<1> QED
  BY <1>b, <1>3, <1>4, <1>5, <1>6, NoNewGaps DEF BroadcastInv

\* A connection's state changes and nothing else.
LEMMA ConnectionEnds ==
    ASSUME BroadcastInv, NEW c \in Client, NEW st \in {"broken", "closed"},
           conn' = [conn EXCEPT ![c] = st],
           UNCHANGED <<active, started, at, target, dead, served, left>>
    PROVE  BroadcastInv'
<1>1. TypeOK' /\ Dealt' = Dealt
  BY DEF BroadcastInv, TypeOK, Dealt
<1>2. \A d \in Client : conn[d] # "new" => conn'[d] # "new"
  BY DEF BroadcastInv, TypeOK
<1>3. Known'
  <2>1. \A k \in DOMAIN active : active[k] \in Client
    BY ElementOfSeq, LenProperties DEF BroadcastInv, TypeOK
  <2>2. Dealt \subseteq Client
    BY DEF BroadcastInv, TypeOK, Dealt
  <2> QED
    BY <1>1, <1>2, <2>1, <2>2 DEF BroadcastInv, Known, TypeOK
<1>4. Ahead' /\ Gaps' \subseteq Gaps
  BY <1>1 DEF BroadcastInv, Ahead, Gaps
<1> QED
  BY <1>1, <1>3, <1>4, NoNewGaps DEF BroadcastInv

LEMMA NoticeKeeps ==
    ASSUME BroadcastInv, NEW c \in Client, Notice(c)
    PROVE  BroadcastInv'
<1>a. /\ TypeOK /\ Known /\ Ahead
      /\ active \in Seq(Client) /\ IsInjective(active) /\ Len(active) \in Nat
      /\ DOMAIN active = 1..Len(active) /\ at \in Nat /\ left \in Nat
  BY LenProperties DEF BroadcastInv, TypeOK
<1>b. /\ conn' = [conn EXCEPT ![c] = "closed"]
      /\ UNCHANGED <<started, at, target, dead, served>> /\ Dealt' = Dealt
      /\ active' = RemoveFirst(active, c)
      /\ left' = IF at > 0 /\ Contains(active, c) THEN left + 1 ELSE left
  BY DEF Notice, round, Dealt
<1>1. CASE ~ Contains(active, c)
  BY <1>a, <1>b, <1>1, NoneRemoved, ConnectionEnds
<1>2. CASE Contains(active, c)
  <2>1. PICK i \in 1..Len(active) : active[i] = c
    BY <1>2 DEF Contains
  <2>2. /\ active' \in Seq(Client) /\ Len(active') = Len(active) - 1
        /\ \A k \in 1..(Len(active) - 1) :
              active'[k] = IF k < i THEN active[k] ELSE active[k + 1]
        /\ DOMAIN active' = 1..(Len(active) - 1)
    BY <1>a, <1>b, <2>1, OneRemoved, LenProperties
  <2>3. TypeOK'
    <3>1. \A k, m \in 1..Len(active) : active[k] = active[m] => k = m
      BY <1>a DEF IsInjective
    <3>2. ASSUME NEW k \in 1..(Len(active) - 1), NEW m \in 1..(Len(active) - 1),
                 active'[k] = active'[m]
          PROVE  k = m
      <4> DEFINE place(n) == IF n < i THEN n ELSE n + 1
      <4>1. /\ place(k) \in 1..Len(active) /\ active'[k] = active[place(k)]
            /\ place(m) \in 1..Len(active) /\ active'[m] = active[place(m)]
        BY <1>a, <2>2
      <4>2. place(k) = place(m)
        BY <3>1, <3>2, <4>1
      <4> QED
        BY <4>2
    <3>3. IsInjective(active')
      BY <2>2, <3>2 DEF IsInjective
    <3> QED
      BY <1>a, <1>b, <2>2, <3>3 DEF TypeOK
  <2>4. Known'
    <3>1. \A d \in Client : conn[d] # "new" => conn'[d] # "new"
      BY <1>a, <1>b DEF TypeOK
    <3>2. \A k \in DOMAIN active' : conn'[active'[k]] # "new"
      <4> SUFFICES ASSUME NEW k \in 1..(Len(active) - 1) PROVE conn'[active'[k]] # "new"
        BY <2>2
      <4>1. PICK m \in 1..Len(active) : active'[k] = active[m]
        BY <1>a, <2>2
      <4> QED
        BY <1>a, <3>1, <4>1, ElementOfSeq DEF Known
    <3>3. Dealt \subseteq Client
      BY <1>a DEF TypeOK, Dealt
    <3> QED
      BY <1>a, <1>b, <3>1, <3>2, <3>3 DEF Known, TypeOK
  <2>5. Ahead'
    <3> SUFFICES ASSUME at > 0, NEW k \in 1..(Len(active) - 1), k > at
                 PROVE  active'[k] \notin Dealt \cup {target}
      BY <1>a, <1>b, <2>2 DEF Ahead
    <3>1. PICK m \in 1..Len(active) : m > at /\ active'[k] = active[m]
      BY <1>a, <2>2
    <3> QED
      BY <1>a, <3>1 DEF Ahead
  <2>6. Cardinality(Gaps') <= left'
    <3>0. /\ IsFiniteSet(Gaps) /\ Cardinality(Gaps) \in Nat /\ Cardinality(Gaps) <= left
          /\ IsFiniteSet(Gaps') /\ Cardinality(Gaps') \in Nat
      <4>1. Gaps' \subseteq 1..at
        BY <1>b DEF Gaps
      <4>2. IsFiniteSet(Gaps') /\ Cardinality(Gaps') \in Nat
        <5>1. IsFiniteSet(1..at)
          BY <1>a, FS_Interval
        <5> QED
          BY <4>1, <5>1, FS_Subset, FS_CardinalityType
      <4> QED
        BY <1>a, <4>2, GapsFinite DEF BroadcastInv
    <3>1. CASE at = 0
      <4>1. Gaps' = {}
        BY <1>b, <3>1 DEF Gaps
      <4> QED
        BY <1>a, <1>b, <3>1, <4>1, FS_EmptySet
    <3>2. CASE at > 0 /\ i > at
      <4>1. Gaps' \subseteq Gaps
        BY <1>a, <1>b, <2>2, <3>2 DEF Gaps
      <4>2. Cardinality(Gaps') <= Cardinality(Gaps)
        BY <3>0, <4>1, FS_Subset
      <4> QED
        BY <1>a, <1>b, <1>2, <3>0, <3>2, <4>2
    <3>3. CASE at > 0 /\ i <= at
      <4> DEFINE old == Gaps' \ {at}
                 shift == [k \in old |-> IF k < i THEN k ELSE k + 1]
      <4>1. ASSUME NEW k \in old PROVE shift[k] \in Gaps
        <5>1. k \in 1..(at - 1) /\ ~ (k <= Len(active) - 1 /\ active'[k] \in Dealt \cup {target})
          BY <1>a, <1>b, <2>2 DEF Gaps
        <5>2. CASE k < i
          BY <1>a, <2>2, <5>1, <5>2 DEF Gaps
        <5>3. CASE ~ (k < i)
          BY <1>a, <2>2, <5>1, <5>3 DEF Gaps
        <5> QED
          BY <5>2, <5>3
      <4>2. \A k, m \in old : shift[k] = shift[m] => k = m
        <5>1. old \subseteq Nat
          BY <1>a, <1>b DEF Gaps
        <5> QED
          BY <5>1
      <4>3. shift \in Injection(old, Gaps)
        BY <4>1, <4>2 DEF Injection, IsInjective
      <4>4. IsFiniteSet(old) /\ Cardinality(old) <= Cardinality(Gaps) /\ Cardinality(old) \in Nat
        BY <3>0, <4>3, FS_Injection, FS_CardinalityType
      <4>5. Cardinality(Gaps') <= Cardinality(old) + 1
        <5>1. Cardinality(Gaps' \ {at}) =
                 IF at \in Gaps' THEN Cardinality(Gaps') - 1 ELSE Cardinality(Gaps')
          BY <3>0, FS_RemoveElement
        <5> QED
          BY <3>0, <5>1
      <4> QED
        BY <1>a, <1>b, <1>2, <3>0, <3>3, <4>4, <4>5
    <3> QED
      BY <1>a, <3>1, <3>2, <3>3
  <2> QED
    BY <2>3, <2>4, <2>5, <2>6 DEF BroadcastInv
<1> QED
  BY <1>1, <1>2

LEMMA StartRoundKeeps ==
    ASSUME BroadcastInv, StartRound
    PROVE  BroadcastInv'
<1>a. /\ TypeOK /\ Known /\ active \in Seq(Client) /\ IsInjective(active)
      /\ Len(active) \in Nat \ {0} /\ DOMAIN active = 1..Len(active)
      /\ active # <<>> /\ NULL \notin Client
  BY ClientAssumption, LenProperties, EmptySeq DEF BroadcastInv, TypeOK, StartRound
<1>b. /\ at' = 1 /\ target' = active[1] /\ dead' = {} /\ served' = {} /\ left' = 0
      /\ UNCHANGED <<conn, active, started>> /\ Dealt' = {}
      /\ active[1] \in Client
  BY <1>a, HeadTailProperties, ElementOfSeq DEF StartRound, Dealt
<1>1. TypeOK'
  BY <1>a, <1>b DEF TypeOK
<1>2. Known'
  BY <1>a, <1>b DEF Known
<1>3. Ahead'
  BY <1>a, <1>b DEF Ahead, IsInjective
<1>4. Gaps' = {}
  BY <1>a, <1>b DEF Gaps
<1> QED
  BY <1>b, <1>1, <1>2, <1>3, <1>4, FS_EmptySet DEF BroadcastInv

\* A send has ended, one way or the other, and the iteration goes on.
LEMMA MovingOnKeeps ==
    ASSUME BroadcastInv, at > 0,
           served' \subseteq Client, dead' \subseteq Client,
           Dealt' = Dealt \cup {target},
           NEW D, MoveOn(D), UNCHANGED <<conn, started, left>>
    PROVE  BroadcastInv'
<1>a. /\ TypeOK /\ Known /\ Ahead /\ active \in Seq(Client) /\ IsInjective(active)
      /\ Len(active) \in Nat /\ DOMAIN active = 1..Len(active) /\ at \in Nat
      /\ NULL \notin Client
  BY ClientAssumption, LenProperties DEF BroadcastInv, TypeOK
<1>1. CASE /\ at < Len(active) /\ at' = at + 1 /\ target' = active[at + 1]
           /\ UNCHANGED active
  <2>1. /\ at + 1 \in 1..Len(active) /\ active[at + 1] \in Client
        /\ active[at + 1] \notin Dealt \cup {target}
    BY <1>a, <1>1, ElementOfSeq DEF Ahead
  <2>2. TypeOK'
    BY <1>a, <1>1, <2>1 DEF TypeOK
  <2>3. Known'
    BY <1>a, <1>1, <2>1 DEF Known
  <2>4. Ahead'
    <3>1. ASSUME NEW k \in 1..Len(active), k > at + 1
          PROVE  active[k] \notin Dealt \cup {target} /\ active[k] # active[at + 1]
      BY <1>a, <2>1, <3>1 DEF Ahead, IsInjective
    <3> QED
      BY <1>a, <1>1, <2>1, <3>1 DEF Ahead
  <2>5. Gaps' \subseteq Gaps
    BY <1>a, <1>1 DEF Gaps
  <2> QED
    BY <2>2, <2>3, <2>4, <2>5, NoNewGaps DEF BroadcastInv
<1>2. CASE at >= Len(active) /\ at' = 0 /\ target' = NULL /\ active' = WithoutDead(D)
  <2>1. Kept(active', Len(active), active, D)
    BY <1>a, <1>2, DeadLeave
  <2>2. /\ active' \in Seq(Client) /\ IsInjective(active')
        /\ DOMAIN active' = 1..Len(active')
        /\ \A k \in 1..Len(active') : \E m \in 1..Len(active) : active'[k] = active[m]
    BY <2>1, LenProperties DEF Kept
  <2>3. TypeOK'
    BY <1>a, <1>2, <2>2 DEF TypeOK
  <2>4. Known' /\ Ahead'
    BY <1>a, <1>2, <2>2 DEF Known, Ahead
  <2>5. Gaps' = {}
    BY <1>2 DEF Gaps
  <2> QED
    BY <1>a, <2>3, <2>4, <2>5, FS_EmptySet DEF BroadcastInv, TypeOK
<1> QED
  BY <1>1, <1>2 DEF MoveOn

LEMMA SentKeeps ==
    ASSUME BroadcastInv, Sent
    PROVE  BroadcastInv'
<1>1. target \in Client
  BY DEF BroadcastInv, TypeOK, Known, Sent
<1>2. Dealt' = Dealt \cup {target} /\ served' \subseteq Client /\ dead' \subseteq Client
  BY <1>1 DEF BroadcastInv, TypeOK, Dealt, Sent
<1> QED
  BY <1>2, MovingOnKeeps DEF Sent

LEMMA RaisingKeeps ==
    ASSUME BroadcastInv, SendRaises
    PROVE  BroadcastInv'
<1>1. target \in Client
  BY DEF BroadcastInv, TypeOK, Known, SendRaises
<1>2. Dealt' = Dealt \cup {target} /\ served' \subseteq Client /\ dead' \subseteq Client
  BY <1>1 DEF BroadcastInv, TypeOK, Dealt, SendRaises
<1> QED
  BY <1>2, MovingOnKeeps DEF SendRaises

-----------------------------------------------------------------------------
(* The theorems.                                                           *)

LEMMA BroadcastInductive == Spec => []BroadcastInv
<1>1. Init => BroadcastInv
  <2> SUFFICES ASSUME Init PROVE BroadcastInv
    OBVIOUS
  <2>1. active \in Seq(Client) /\ DOMAIN active = {}
    BY EmptySeq, LenProperties DEF Init
  <2>2. TypeOK
    BY <2>1 DEF Init, TypeOK, IsInjective
  <2>3. Gaps = {}
    BY DEF Init, Gaps
  <2> QED
    BY <2>1, <2>2, <2>3, FS_EmptySet DEF Init, BroadcastInv, Known, Ahead
<1>2. BroadcastInv /\ [Next]_vars => BroadcastInv'
  <2> SUFFICES ASSUME BroadcastInv, [Next]_vars PROVE BroadcastInv'
    OBVIOUS
  <2>1. ASSUME NEW c \in Client, Connect(c) PROVE BroadcastInv'
    BY <2>1, ConnectKeeps
  <2>2. ASSUME NEW c \in Client, Break(c) PROVE BroadcastInv'
    BY <2>2, ConnectionEnds DEF Break, round
  <2>3. ASSUME NEW c \in Client, Notice(c) PROVE BroadcastInv'
    BY <2>3, NoticeKeeps
  <2>4. ASSUME NEW c \in Client, HandlerDies(c) PROVE BroadcastInv'
    BY <2>4, ConnectionEnds DEF HandlerDies, round
  <2>5. CASE StartRound
    BY <2>5, StartRoundKeeps
  <2>6. CASE Sent
    BY <2>6, SentKeeps
  <2>7. CASE SendRaises
    BY <2>7, RaisingKeeps
  <2>8. CASE UNCHANGED vars
    <3>1. /\ UNCHANGED <<conn, active, started, at, target, dead, served, left>>
          /\ Dealt' = Dealt
      BY <2>8 DEF vars, Dealt
    <3> QED
      BY <3>1 DEF BroadcastInv, TypeOK, Known, Ahead, Gaps
  <2> QED
    BY <2>1, <2>2, <2>3, <2>4, <2>5, <2>6, <2>7, <2>8 DEF Next
<1> QED
  BY <1>1, <1>2, PTL DEF Spec

\* The list is one of connections and never holds a socket twice, however
\* connections, their ends and the broadcaster's removals interleave.
THEOREM BroadcastTypes == Spec => []TypeOK
<1>1. BroadcastInv => TypeOK
  BY DEF BroadcastInv
<1> QED
  BY <1>1, BroadcastInductive, PTL

\* The round never sends to a socket it has sent to, or whose send has raised,
\* although the list moves under its index.
THEOREM NobodyGetsItTwice == Spec => []NobodyTwice
<1>1. BroadcastInv => NobodyTwice
  BY DEF BroadcastInv, Ahead, Dealt, NobodyTwice
<1> QED
  BY <1>1, BroadcastInductive, PTL

\* A round passes over at most as many sockets as were removed while it was
\* under way.
THEOREM RemovalsCostOne == Spec => []OneSkipPerRemoval
<1>1. BroadcastInv => OneSkipPerRemoval
  <2> SUFFICES ASSUME BroadcastInv, at > 0 PROVE Cardinality(PassedOver) <= left
    BY DEF OneSkipPerRemoval
  <2>1. /\ IsFiniteSet(Gaps) /\ Cardinality(Gaps) \in Nat /\ Cardinality(Gaps) <= left
        /\ DOMAIN active = 1..Len(active) /\ at \in Nat /\ Len(active) \in Nat /\ left \in Nat
    BY GapsFinite, LenProperties DEF BroadcastInv, TypeOK
  <2> DEFINE over == {i \in Gaps : i <= Len(active)}
             socket == [i \in over |-> active[i]]
  <2>2. PassedOver = {active[i] : i \in over}
    BY <2>1 DEF PassedOver, Gaps, Dealt
  <2>3. socket \in Surjection(over, PassedOver)
    BY <2>2 DEF Surjection
  <2>4. IsFiniteSet(over) /\ Cardinality(over) <= Cardinality(Gaps) /\ Cardinality(over) \in Nat
    BY <2>1, FS_Subset, FS_CardinalityType
  <2>5. Cardinality(PassedOver) <= Cardinality(over) /\ Cardinality(PassedOver) \in Nat
    <3> HIDE DEF over, socket
    <3> QED
      BY <2>3, <2>4, FS_Surjection, FS_CardinalityType
  <2> QED
    BY <2>1, <2>4, <2>5
<1> QED
  BY <1>1, BroadcastInductive, PTL
=============================================================================
