---------------------------- MODULE TopologyProofs ----------------------------
(***************************************************************************)
(* The topology: its sink, its caches and its analysis.                    *)
(*                                                                         *)
(* For every number of threads and every limit, the running_requests       *)
(* counter is exact, no more than HardLimit calls are in flight, and the   *)
(* sink implements SlotPool.  For every size, set of keys and number of    *)
(* list nodes, the list and the map of the cache agree, and it behaves as  *)
(* a RecencyList.  For every set of spans, registry, cache and sink size,  *)
(* the analysis offers a service once while it remembers it, offers the    *)
(* relation of a server span with its service only, and counts every       *)
(* request.                                                                *)
(***************************************************************************)
EXTENDS RpcAnalysis, LruCache, TopologySink, SequencesExt, SequenceTheorems,
        FiniteSetTheorems, TLAPS

-----------------------------------------------------------------------------
(* The sink.                                                               *)

\* A thread that has passed the test will increment the counter: it counts
\* against the limit as if it had.
Reserved == running + Cardinality(At("passed")) <= HardLimit

\* The inductive invariant of the sink.
SinkIInv == SinkTypeOK /\ CountExact /\ Reserved

-----------------------------------------------------------------------------

\* The threads at a location are finitely many.
LEMMA AtFinite ==
    ASSUME NEW l
    PROVE  IsFiniteSet(At(l)) /\ Cardinality(At(l)) \in Nat
<1>1. At(l) \subseteq Thread
  BY DEF At
<1>2. IsFiniteSet(At(l))
  BY <1>1, SinkAssumption, FS_Subset
<1>3. QED
  BY <1>2, FS_CardinalityType

\* At most all threads are at a location.
LEMMA AtBounded ==
    ASSUME NEW l
    PROVE  Cardinality(At(l)) <= Cardinality(Thread)
<1>1. At(l) \subseteq Thread
  BY DEF At
<1>2. QED
  BY <1>1, SinkAssumption, FS_Subset

\* A thread that moves from one location to another joins the threads that
\* are there, and leaves those where it was.
LEMMA Moves ==
    ASSUME SinkTypeOK, NEW t \in Thread, NEW from \in Location, NEW to \in Location,
           pc[t] = from, from # to, pc' = [pc EXCEPT ![t] = to]
    PROVE  /\ Cardinality(At(to)') = Cardinality(At(to)) + 1
           /\ Cardinality(At(from)') = Cardinality(At(from)) - 1
           /\ \A l \in Location \ {from, to} : At(l)' = At(l)
<1> USE DEF SinkTypeOK
<1>1. At(to)' = At(to) \union {t} /\ t \notin At(to)
  BY DEF At
<1>2. At(from)' = At(from) \ {t} /\ t \in At(from)
  BY DEF At
<1>3. Cardinality(At(to)') = Cardinality(At(to)) + 1
  BY <1>1, AtFinite, FS_AddElement
<1>4. Cardinality(At(from)') = Cardinality(At(from)) - 1
  <2>1. IsFiniteSet(At(from)) /\ t \in At(from)
    BY <1>2, AtFinite
  <2>2. Cardinality(At(from) \ {t}) = Cardinality(At(from)) - 1
    BY ONLY <2>1, FS_RemoveElement
  <2>3. QED
    BY ONLY <1>2, <2>2
<1>5. \A l \in Location \ {from, to} : At(l)' = At(l)
  BY DEF At
<1>6. QED
  BY ONLY <1>3, <1>4, <1>5, Zenon

\* The calls in flight are finitely many.
LEMMA CallsFinite == SinkTypeOK => IsFiniteSet(calls) /\ Cardinality(calls) \in Nat
BY SinkAssumption, FS_Subset, FS_CardinalityType DEF SinkTypeOK

\* The hard limit is a number, and so is that of the threads.
LEMMA HardLimitType == HardLimit \in Nat /\ Cardinality(Thread) \in Nat
BY SinkAssumption, FS_CardinalityType DEF HardLimit

-----------------------------------------------------------------------------

\* No thread is in a method and no call is in flight initially.
LEMMA InitSinkIInv == SinkInit => SinkIInv
<1> SUFFICES ASSUME SinkInit PROVE SinkIInv
  OBVIOUS
<1>1. SinkTypeOK
  BY DEF SinkInit, SinkTypeOK, Location
<1>2. At("passed") = {} /\ At("counted") = {} /\ calls = {} /\ running = 0
  BY DEF SinkInit, At
<1>3. CountExact /\ Reserved
  BY <1>2, FS_EmptySet, HardLimitType DEF CountExact, Reserved
<1>4. QED
  BY <1>1, <1>3 DEF SinkIInv

\* A thread that passes the test finds the counter at most at the limit, and
\* all threads together have then reserved no more than the hard limit.
LEMMA PassSinkIInv ==
    ASSUME SinkIInv, NEW t \in Thread, Pass(t)
    PROVE  SinkIInv'
<1> USE DEF SinkIInv
<1>1. /\ pc[t] = "idle" /\ pc' = [pc EXCEPT ![t] = "passed"]
      /\ running' = running /\ calls' = calls
      /\ ~(running > MaxRequests)
  BY DEF Pass, Full
<1>2. SinkTypeOK'
  BY <1>1 DEF SinkTypeOK, Location
<1>3. At("counted")' = At("counted")
  BY <1>1, Moves DEF Location
<1>4. CountExact'
  BY <1>1, <1>3 DEF CountExact
<1>5. Cardinality(At("passed")') <= Cardinality(Thread)
  <2>1. At("passed")' \subseteq Thread
    BY DEF At
  <2>2. QED
    BY <2>1, SinkAssumption, FS_Subset
<1>6. Cardinality(At("passed")') \in Nat
  <2>1. At("passed")' \subseteq Thread
    BY DEF At
  <2>2. QED
    BY <2>1, SinkAssumption, FS_Subset, FS_CardinalityType
<1>7. Reserved'
  BY <1>1, <1>5, <1>6, SinkAssumption, HardLimitType
  DEF Reserved, HardLimit, SinkTypeOK
<1>8. QED
  BY <1>2, <1>4, <1>7

\* The increment turns a reservation into a count.
LEMMA CountSinkIInv ==
    ASSUME SinkIInv, NEW t \in Thread, Count(t)
    PROVE  SinkIInv'
<1> USE DEF SinkIInv
<1>1. /\ pc[t] = "passed" /\ pc' = [pc EXCEPT ![t] = "counted"]
      /\ running' = running + 1 /\ calls' = calls
  BY DEF Count
<1>2. SinkTypeOK'
  BY <1>1 DEF SinkTypeOK, Location
<1>3. /\ Cardinality(At("counted")') = Cardinality(At("counted")) + 1
      /\ Cardinality(At("passed")') = Cardinality(At("passed")) - 1
  BY <1>1, Moves DEF Location
<1>4. CountExact'
  BY <1>1, <1>3, AtFinite, CallsFinite DEF CountExact, SinkTypeOK
<1>5. Reserved'
  BY <1>1, <1>3, AtFinite, HardLimitType DEF Reserved, SinkTypeOK
<1>6. QED
  BY <1>2, <1>4, <1>5

\* A started call takes over the count of its thread.
LEMMA StartSinkIInv ==
    ASSUME SinkIInv, NEW t \in Thread, Start(t)
    PROVE  SinkIInv'
<1> USE DEF SinkIInv
<1>1. /\ pc[t] = "counted" /\ pc' = [pc EXCEPT ![t] = "idle"]
      /\ running' = running
  BY DEF Start
<1>2. PICK c \in Call \ calls : calls' = calls \union {c}
  BY DEF Start
<1>3. SinkTypeOK'
  BY <1>1, <1>2 DEF SinkTypeOK, Location
<1>4. Cardinality(calls') = Cardinality(calls) + 1
  BY <1>2, CallsFinite, FS_AddElement
<1>5. /\ Cardinality(At("counted")') = Cardinality(At("counted")) - 1
      /\ At("passed")' = At("passed")
  BY <1>1, Moves DEF Location
<1>6. CountExact'
  BY <1>1, <1>4, <1>5, AtFinite, CallsFinite DEF CountExact, SinkTypeOK
<1>7. Reserved'
  BY <1>1, <1>5 DEF Reserved
<1>8. QED
  BY <1>3, <1>6, <1>7

\* A callback gives back the count of its call, and finds it there.
LEMMA EndCallSinkIInv ==
    ASSUME SinkIInv, NEW c \in Call, EndCall(c)
    PROVE  SinkIInv' /\ running > 0 /\ running' = running - 1
<1> USE DEF SinkIInv
<1>1. /\ c \in calls /\ calls' = calls \ {c}
      /\ running' = running - 1 /\ pc' = pc
  BY DEF EndCall
<1>2. Cardinality(calls') = Cardinality(calls) - 1 /\ Cardinality(calls') \in Nat
  <2>1. IsFiniteSet(calls \ {c}) /\ Cardinality(calls \ {c}) = Cardinality(calls) - 1
    BY <1>1, CallsFinite, FS_RemoveElement
  <2>2. QED
    BY <2>1, <1>1, FS_CardinalityType
<1>3. At("counted")' = At("counted") /\ At("passed")' = At("passed")
  BY <1>1 DEF At
<1>4. running > 0
  BY <1>2, AtFinite, CallsFinite DEF CountExact, SinkTypeOK
<1>5. SinkTypeOK'
  BY <1>1, <1>4 DEF SinkTypeOK
<1>6. CountExact'
  BY <1>1, <1>2, <1>3, AtFinite, CallsFinite DEF CountExact, SinkTypeOK
<1>7. Reserved'
  BY <1>1, <1>3, AtFinite, HardLimitType DEF Reserved, SinkTypeOK
<1>8. QED
  BY <1>1, <1>4, <1>5, <1>6, <1>7

\* Every step keeps the inductive invariant.
LEMMA NextSinkIInv == SinkIInv /\ [SinkNext]_sinkVars => SinkIInv'
<1> SUFFICES ASSUME SinkIInv, [SinkNext]_sinkVars PROVE SinkIInv'
  OBVIOUS
<1>1. ASSUME UNCHANGED sinkVars PROVE SinkIInv'
  BY <1>1 DEF sinkVars, SinkIInv, SinkTypeOK, CountExact, Reserved, At
<1>2. ASSUME NEW t \in Thread, Drop(t) PROVE SinkIInv'
  BY <1>1, <1>2 DEF Drop
<1>3. ASSUME NEW t \in Thread, Pass(t) PROVE SinkIInv'
  BY <1>3, PassSinkIInv
<1>4. ASSUME NEW t \in Thread, Count(t) PROVE SinkIInv'
  BY <1>4, CountSinkIInv
<1>5. ASSUME NEW t \in Thread, Start(t) PROVE SinkIInv'
  BY <1>5, StartSinkIInv
<1>6. ASSUME NEW c \in Call, EndCall(c) PROVE SinkIInv'
  BY <1>6, EndCallSinkIInv
<1>7. QED
  BY <1>1, <1>2, <1>3, <1>4, <1>5, <1>6 DEF SinkNext

\* The inductive invariant holds in every reachable state.
THEOREM SinkInvariance == SinkSpec => []SinkIInv
BY InitSinkIInv, NextSinkIInv, PTL DEF SinkSpec

\* The counter is exact: no callback wraps it, none is forgotten.
THEOREM Exactness == SinkSpec => []CountExact
<1>1. SinkIInv => CountExact
  BY DEF SinkIInv
<1>2. QED
  BY <1>1, SinkInvariance, PTL

\* In-flight calls never exceed the limit plus the number of callers.
THEOREM LimitHolds == SinkSpec => []Limited
<1>1. SinkIInv => Limited
  BY AtFinite, HardLimitType DEF SinkIInv, Reserved, Limited, SinkTypeOK
<1>2. QED
  BY <1>1, SinkInvariance, PTL

\* The counter of the sink is exact and bounded.
THEOREM SinkCorrect == SinkSpec => []SinkInv
BY Exactness, LimitHolds, PTL DEF SinkInv

-----------------------------------------------------------------------------

\* Every step of the sink takes a slot, gives one back, or leaves the pool
\* alone: the sink implements the safety part of SlotPool.
THEOREM SinkRefinement == SinkSpec => Pool!PoolSpec
<1>1. SinkInit => Pool!PoolInit
  BY DEF SinkInit, Pool!PoolInit
<1>2. SinkIInv /\ SinkIInv' /\ [SinkNext]_sinkVars => [Pool!PoolNext]_running
  <2> SUFFICES ASSUME SinkIInv, SinkIInv', [SinkNext]_sinkVars, running' # running
               PROVE  Pool!Acquire \/ Pool!Release
    BY DEF Pool!PoolNext
  <2>1. ASSUME NEW t \in Thread, Count(t) PROVE Pool!Acquire
    <3>1. running' = running + 1
      BY <2>1 DEF Count
    <3>2. running' <= HardLimit
      <4>1. IsFiniteSet(At("passed")') /\ Cardinality(At("passed")') \in Nat
        <5>1. At("passed")' \subseteq Thread
          BY DEF At
        <5>2. QED
          BY <5>1, SinkAssumption, FS_Subset, FS_CardinalityType
      <4>2. QED
        BY <4>1, HardLimitType DEF SinkIInv, Reserved, SinkTypeOK
    <3>3. QED
      BY <3>1, <3>2, HardLimitType DEF Pool!Acquire, SinkIInv, SinkTypeOK
  <2>2. ASSUME NEW c \in Call, EndCall(c) PROVE Pool!Release
    BY <2>2, EndCallSinkIInv DEF Pool!Release
  <2>3. QED
    BY <2>1, <2>2 DEF SinkNext, Drop, Pass, Start, sinkVars
<1>3. QED
  BY <1>1, <1>2, SinkInvariance, PTL DEF SinkSpec, Pool!PoolSpec

-----------------------------------------------------------------------------
(* Sequences.                                                              *)

\* What is left of a sequence when an element it does not have is removed.
LEMMA RemoveAbsent ==
    ASSUME NEW s, NEW x, \A i \in 1..Len(s) : s[i] # x
    PROVE  RemoveFirst(s, x) = s
BY DEF RemoveFirst

\* What is left when an element it has once is removed.
LEMMA RemovePresent ==
    ASSUME NEW S, NEW s \in Seq(S), NEW p \in 1..Len(s),
           \A q \in 1..Len(s) : s[q] = s[p] => q = p
    PROVE  /\ RemoveFirst(s, s[p]) \in Seq(S)
           /\ Len(RemoveFirst(s, s[p])) = Len(s) - 1
           /\ \A i \in 1..(Len(s) - 1) :
                RemoveFirst(s, s[p])[i] = IF i < p THEN s[i] ELSE s[i + 1]
<1>1. {i \in 1..Len(s) : s[i] = s[p]} = {p}
  OBVIOUS
<1>2. Min({p}) = p
  BY DEF Min
<1>3. SelectInSeq(s, LAMBDA v : v = s[p]) = p
  BY <1>1, <1>2 DEF SelectInSeq
<1>4. RemoveFirst(s, s[p]) = SubSeq(s, 1, p - 1) \o SubSeq(s, p + 1, Len(s))
  BY <1>3 DEF RemoveFirst, RemoveAt
<1> DEFINE a == SubSeq(s, 1, p - 1)
           b == SubSeq(s, p + 1, Len(s))
<1>5. Len(s) \in Nat /\ \A i \in 1..Len(s) : s[i] \in S
  BY LenProperties, ElementOfSeq
<1>6. /\ a \in Seq(S) /\ Len(a) = p - 1
      /\ \A i \in 1..(p - 1) : a[i] = s[i]
  <2>1. \A i \in 1..(p - 1) : s[i] \in S
    BY <1>5
  <2>2. QED
    BY <1>5, <2>1, SubSeqProperties
<1>7. /\ b \in Seq(S) /\ Len(b) = Len(s) - p
      /\ \A i \in 1..(Len(s) - p) : b[i] = s[p + i]
  <2>1. \A i \in (p + 1)..Len(s) : s[i] \in S
    BY <1>5
  <2>2. /\ b \in Seq(S) /\ Len(b) = IF p + 1 <= Len(s) THEN Len(s) - (p + 1) + 1 ELSE 0
        /\ \A i \in 1..(Len(s) - (p + 1) + 1) : b[i] = s[(p + 1) + i - 1]
    BY <1>5, <2>1, SubSeqProperties
  <2>3. \A i \in 1..(Len(s) - p) : b[i] = s[p + i]
    BY <1>5, <2>2
  <2>4. QED
    BY <1>5, <2>2, <2>3
<1> HIDE DEF a, b
<1>8. /\ a \o b \in Seq(S)
      /\ Len(a \o b) = Len(a) + Len(b)
      /\ \A i \in 1..(Len(a) + Len(b)) :
            (a \o b)[i] = IF i <= Len(a) THEN a[i] ELSE b[i - Len(a)]
  BY <1>6, <1>7, ConcatProperties
<1>9. Len(a \o b) = Len(s) - 1
  BY <1>5, <1>6, <1>7, <1>8
<1>10. \A i \in 1..(Len(s) - 1) : (a \o b)[i] = IF i < p THEN s[i] ELSE s[i + 1]
  <2> SUFFICES ASSUME NEW i \in 1..(Len(s) - 1)
               PROVE  (a \o b)[i] = IF i < p THEN s[i] ELSE s[i + 1]
    OBVIOUS
  <2>1. CASE i < p
    BY <2>1, <1>5, <1>6, <1>7, <1>8
  <2>2. CASE ~(i < p)
    <3>1. (a \o b)[i] = b[i - (p - 1)]
      BY <2>2, <1>5, <1>6, <1>7, <1>8
    <3>2. i - (p - 1) \in 1..(Len(s) - p)
      BY <2>2, <1>5
    <3>3. b[i - (p - 1)] = s[p + (i - (p - 1))]
      BY <3>2, <1>7
    <3>4. p + (i - (p - 1)) = i + 1
      BY <1>5
    <3>5. QED
      BY <3>1, <3>3, <3>4, <2>2
  <2>3. QED
    BY <2>1, <2>2
<1>11. RemoveFirst(s, s[p]) = a \o b
  BY <1>4 DEF a, b
<1>12. QED
  BY <1>8, <1>9, <1>10, <1>11

\* The first n elements of a sequence.
LEMMA Prefix ==
    ASSUME NEW S, NEW s \in Seq(S), NEW n \in Nat, n <= Len(s)
    PROVE  /\ SubSeq(s, 1, n) \in Seq(S) /\ Len(SubSeq(s, 1, n)) = n
           /\ \A i \in 1..n : SubSeq(s, 1, n)[i] = s[i]
<1>1. \A i \in 1..n : s[i] \in S
  BY LenProperties, ElementOfSeq
<1>2. /\ SubSeq(s, 1, n) \in Seq(S)
      /\ Len(SubSeq(s, 1, n)) = IF 1 <= n THEN n - 1 + 1 ELSE 0
      /\ \A i \in 1..(n - 1 + 1) : SubSeq(s, 1, n)[i] = s[1 + i - 1]
  BY <1>1, SubSeqProperties
<1>3. (IF 1 <= n THEN n - 1 + 1 ELSE 0) = n /\ n - 1 + 1 = n
  OBVIOUS
<1>4. \A i \in 1..n : 1 + i - 1 = i
  OBVIOUS
<1>5. QED
  BY <1>2, <1>3, <1>4, Zenon

\* The only place of y in s, or the one behind its end when it is not there.
OnlyAt(s, y, p) ==
    /\ p \in 1..(Len(s) + 1)
    /\ p <= Len(s) => y = s[p] /\ \A i \in 1..Len(s) : s[i] = y => i = p
    /\ p > Len(s) => \A i \in 1..Len(s) : s[i] # y

\* q is s with x in front, and without what was at p.
InFront(S, s, x, p, q) ==
    /\ q \in Seq(S)
    /\ Len(q) = IF p > Len(s) THEN Len(s) + 1 ELSE Len(s)
    /\ q[1] = x
    /\ \A i \in 2..Len(q) : q[i] = s[IF i <= p THEN i - 1 ELSE i]

\* An element x in front of what is left of s when y is removed.
LEMMA FrontProperties ==
    ASSUME NEW S, NEW s \in Seq(S), NEW x \in S, NEW y, NEW p, OnlyAt(s, y, p)
    PROVE  InFront(S, s, x, p, <<x>> \o RemoveFirst(s, y))
<1> DEFINE r == RemoveFirst(s, y)
           q == <<x>> \o r
<1> USE DEF OnlyAt
<1>1. Len(s) \in Nat
  BY LenProperties
<1>2. /\ r \in Seq(S)
      /\ Len(r) = IF p > Len(s) THEN Len(s) ELSE Len(s) - 1
      /\ \A i \in 1..Len(r) : r[i] = s[IF i < p THEN i ELSE i + 1]
  <2>1. CASE p > Len(s)
    BY <1>1, <2>1, RemoveAbsent
  <2>2. CASE p <= Len(s)
    <3>1. y = s[p] /\ p \in 1..Len(s) /\ \A i \in 1..Len(s) : s[i] = s[p] => i = p
      BY <1>1, <2>2
    <3>2. /\ r \in Seq(S) /\ Len(r) = Len(s) - 1
          /\ \A i \in 1..(Len(s) - 1) : r[i] = IF i < p THEN s[i] ELSE s[i + 1]
      BY <3>1, RemovePresent
    <3>3. QED
      BY <1>1, <2>2, <3>2
  <2>3. QED
    BY <1>1, <2>1, <2>2
<1> HIDE DEF r
<1>3. <<x>> \in Seq(S) /\ Len(<<x>>) = 1 /\ <<x>>[1] = x
  OBVIOUS
<1>4. /\ q \in Seq(S) /\ Len(q) = 1 + Len(r)
      /\ \A i \in 1..(1 + Len(r)) : q[i] = IF i <= 1 THEN <<x>>[i] ELSE r[i - 1]
  BY <1>2, <1>3, ConcatProperties
<1>5. Len(r) \in Nat
  BY <1>2, LenProperties
<1> HIDE DEF q
<1>6. q[1] = x
  BY <1>3, <1>4, <1>5
<1>7. ASSUME NEW i \in 2..Len(q)
      PROVE  q[i] = s[IF i <= p THEN i - 1 ELSE i]
  <2>1. q[i] = r[i - 1] /\ i - 1 \in 1..Len(r)
    BY <1>4, <1>5
  <2>2. r[i - 1] = s[IF i - 1 < p THEN i - 1 ELSE (i - 1) + 1]
    BY <2>1, <1>2
  <2>3. QED
    BY <1>1, <2>1, <2>2
<1>8. Len(q) = IF p > Len(s) THEN Len(s) + 1 ELSE Len(s)
  BY <1>1, <1>2, <1>4
<1>9. QED
  BY ONLY <1>4, <1>6, <1>7, <1>8 DEF q, r, InFront

-----------------------------------------------------------------------------
(* The cache.                                                              *)

\* The cache and the list it implements remove elements alike.
LEMMA RemovalAlike ==
    ASSUME NEW s, NEW n
    PROVE  /\ Unlinked(s, n) = RemoveFirst(s, n)
           /\ Recency!RemoveFirst(s, n) = RemoveFirst(s, n)
<1>1. Unlinked(s, n) = RemoveFirst(s, n)
  BY DEF Unlinked
<1>2. Recency!RemoveFirst(s, n) = RemoveFirst(s, n)
  BY DEF Recency!RemoveFirst, RemoveFirst, Recency!SelectInSeq, SelectInSeq,
     Recency!Min, Min, Recency!RemoveAt, RemoveAt
<1>3. QED
  BY <1>1, <1>2

\* IndexExact of any list, keys of its nodes and map.
Exact(s, ky, m) ==
    /\ \A i, j \in 1..Len(s) : s[i] = s[j] => i = j
    /\ \A i \in 1..Len(s) : m[ky[s[i]]] = s[i]
    /\ \A k \in Key : m[k] # NoNode =>
          \E i \in 1..Len(s) : m[k] = s[i] /\ ky[s[i]] = k

\* The keys in the list s were used in the order last, the first one last.
Ordered(s, ky, last) ==
    \A i, j \in 1..Len(s) : i < j => last[ky[s[i]]] > last[ky[s[j]]]

\* The inductive invariant: the list is in the order of the last uses.
CacheIInv ==
    /\ CacheInv
    /\ Ordered(list, key, lastUse)
    /\ \A k \in Key : lastUse[k] <= uses

\* The keys in the nodes of a cache.
Keys == [Node -> Key]
\* The maps of a cache.
Maps == [Key -> Node \union {NoNode}]

\* A map that describes a list has as many keys as the list has nodes.
LEMMA MappedAsLinked ==
    ASSUME NEW s \in Seq(Node), NEW ky \in Keys, NEW m \in Maps,
           Exact(s, ky, m)
    PROVE  IsFiniteSet(Mapped(m)) /\ Cardinality(Mapped(m)) = Len(s)
<1> DEFINE f == [i \in 1..Len(s) |-> ky[s[i]]]
<1>1. Len(s) \in Nat /\ \A i \in 1..Len(s) : s[i] \in Node /\ s[i] # NoNode
  BY LenProperties, ElementOfSeq, CacheAssumption
<1>2. f \in [1..Len(s) -> Mapped(m)]
  BY <1>1 DEF Exact, Keys, Mapped
<1>3. \A i, j \in 1..Len(s) : f[i] = f[j] => i = j
  BY DEF Exact
<1>4. \A k \in Mapped(m) : \E i \in 1..Len(s) : f[i] = k
  BY DEF Exact, Mapped
<1>5. f \in Bijection(1..Len(s), Mapped(m))
  BY <1>2, <1>3, <1>4, Zenon DEF Bijection, Injection, IsInjective, Surjection
<1>6. ExistsBijection(1..Len(s), Mapped(m))
  BY <1>5, Zenon DEF ExistsBijection
<1>7. IsFiniteSet(1..Len(s)) /\ Cardinality(1..Len(s)) = Len(s)
  <2> DEFINE n == Len(s)
  <2> HIDE DEF n
  <2>1. n \in Nat
    BY <1>1 DEF n
  <2>2. IsFiniteSet(1..n) /\ Cardinality(1..n) = IF 1 > n THEN 0 ELSE n - 1 + 1
    BY <2>1, FS_Interval
  <2>3. (IF 1 > n THEN 0 ELSE n - 1 + 1) = n
    BY <2>1
  <2>4. QED
    BY <2>2, <2>3 DEF n
<1>8. QED
  BY <1>6, <1>7, FS_Bijection

\* The list s after a use of k, with the node f in front: p is where the node
\* of k was, or the end when it had none.
FrontedAt(s, q, f, p) ==
    /\ q \in Seq(Node)
    /\ Len(q) = IF p > Len(s) THEN Len(s) + 1 ELSE Len(s)
    /\ q[1] = f
    /\ \A i \in 2..Len(q) : q[i] = s[IF i <= p THEN i - 1 ELSE i]

\* The same for the keys in the nodes.
PlaceOf(s, ky, m, k, p) ==
    /\ p \in 1..(Len(s) + 1)
    /\ IF p > Len(s) THEN m[k] = NoNode ELSE m[k] = s[p] /\ ky[s[p]] = k

\* The node of a key is found at one place.
LEMMA PlaceFound ==
    ASSUME NEW s \in Seq(Node), NEW ky, NEW m, Exact(s, ky, m), NEW k \in Key
    PROVE  \E p \in 1..(Len(s) + 1) : PlaceOf(s, ky, m, k, p)
<1>1. Len(s) \in Nat
  BY LenProperties
<1>2. CASE m[k] = NoNode
  BY <1>1, <1>2 DEF PlaceOf
<1>3. CASE m[k] # NoNode
  <2>1. PICK p \in 1..Len(s) : m[k] = s[p] /\ ky[s[p]] = k
    BY <1>3 DEF Exact
  <2>2. PlaceOf(s, ky, m, k, p)
    BY <1>1, <2>1 DEF PlaceOf
  <2>3. QED
    BY <1>1, <2>2
<1>4. QED
  BY <1>2, <1>3

\* A node in front of what is left of the list.
LEMMA NodeFronted ==
    ASSUME NEW s \in Seq(Node), NEW ky, NEW m, Exact(s, ky, m),
           NEW k \in Key, NEW f \in Node, NEW p, PlaceOf(s, ky, m, k, p)
    PROVE  FrontedAt(s, <<f>> \o Unlinked(s, m[k]), f, p)
<1>1. Len(s) \in Nat /\ \A i \in 1..Len(s) : s[i] # NoNode
  BY LenProperties, ElementOfSeq, CacheAssumption
<1>2. p \in 1..(Len(s) + 1)
  BY DEF PlaceOf
<1>3. p <= Len(s) => m[k] = s[p] /\ \A i \in 1..Len(s) : s[i] = m[k] => i = p
  BY <1>1, <1>2 DEF PlaceOf, Exact
<1>4. p > Len(s) => \A i \in 1..Len(s) : s[i] # m[k]
  BY <1>1 DEF PlaceOf
<1>5. Unlinked(s, m[k]) = RemoveFirst(s, m[k])
  BY RemovalAlike
<1>6. OnlyAt(s, m[k], p)
  BY ONLY <1>2, <1>3, <1>4 DEF OnlyAt
<1>7. InFront(Node, s, f, p, <<f>> \o Unlinked(s, m[k]))
  BY <1>5, <1>6, FrontProperties
<1>8. QED
  BY ONLY <1>7 DEF FrontedAt, InFront

\* A use of k puts the node f of k, old or new, in front: list and map still
\* describe each other.
LEMMA FrontedExact ==
    ASSUME NEW s \in Seq(Node), NEW ky \in Keys, NEW m \in Maps,
           Exact(s, ky, m), NEW k \in Key, NEW f \in Node,
           f = m[k] \/ \A i \in 1..Len(s) : s[i] # f,
           NEW p, PlaceOf(s, ky, m, k, p), NEW q, FrontedAt(s, q, f, p)
    PROVE  Exact(q, [ky EXCEPT ![f] = k], [m EXCEPT ![k] = f])
<1> DEFINE ky1 == [ky EXCEPT ![f] = k]
           m1 == [m EXCEPT ![k] = f]
           at(i) == IF i <= p THEN i - 1 ELSE i
<1>1. Len(s) \in Nat /\ Len(q) \in Nat /\ \A i \in 1..Len(s) : s[i] \in Node /\ s[i] # NoNode
  BY LenProperties, ElementOfSeq, CacheAssumption DEF FrontedAt
<1>2. p \in 1..(Len(s) + 1)
  BY DEF PlaceOf
<1>3. \A i \in 2..Len(q) : at(i) \in 1..Len(s) /\ at(i) # p /\ q[i] = s[at(i)]
  BY <1>1, <1>2 DEF FrontedAt
<1>4. \A i, j \in 2..Len(q) : at(i) = at(j) => i = j
  BY <1>1, <1>2
<1>5. \A i \in 1..Len(s) : i # p => \E j \in 2..Len(q) : at(j) = i
  <2> TAKE i \in 1..Len(s)
  <2>1. CASE i < p
    <3>1. i + 1 \in 2..Len(q) /\ at(i + 1) = i
      BY <1>1, <1>2, <2>1 DEF FrontedAt
    <3>2. QED
      BY <3>1
  <2>2. CASE i > p
    <3>1. i \in 2..Len(q) /\ at(i) = i
      BY <1>1, <1>2, <2>2 DEF FrontedAt
    <3>2. QED
      BY <3>1
  <2>3. QED
    BY <1>1, <1>2, <2>1, <2>2
<1>6. q[1] = f /\ 1 \in 1..Len(q)
  BY <1>1, <1>2 DEF FrontedAt
<1> HIDE DEF at
<1>7. \A i \in 1..Len(s) : i # p => s[i] # f /\ ky[s[i]] # k
  <2> SUFFICES ASSUME NEW i \in 1..Len(s), i # p
               PROVE  s[i] # f /\ ky[s[i]] # k
    OBVIOUS
  <2>1. ky[s[i]] # k
    <3> SUFFICES ASSUME ky[s[i]] = k
                 PROVE  FALSE
      OBVIOUS
    <3>1. m[k] = s[i]
      BY DEF Exact
    <3>2. p <= Len(s) /\ s[p] = s[i] /\ p \in 1..Len(s)
      BY <3>1, <1>1, <1>2 DEF PlaceOf
    <3>3. QED
      BY <3>2 DEF Exact
  <2>2. s[i] # f
    <3> SUFFICES ASSUME s[i] = f
                 PROVE  FALSE
      OBVIOUS
    <3>1. s[i] = m[k] /\ m[k] # NoNode
      BY <1>1
    <3>2. s[p] = s[i] /\ p \in 1..Len(s)
      BY <3>1, <1>1, <1>2 DEF PlaceOf
    <3>3. QED
      BY <3>2 DEF Exact
  <2>3. QED
    BY <2>1, <2>2
<1>8. \A i \in 2..Len(q) : q[i] # f /\ q[i] = s[at(i)] /\ ky1[q[i]] = ky[s[at(i)]] /\ ky1[q[i]] # k
  BY <1>1, <1>3, <1>7 DEF Keys
<1>9. ky1[f] = k /\ m1[k] = f /\ ky1 \in Keys /\ m1 \in Maps
  BY DEF Keys, Maps
<1>10. \A i, j \in 1..Len(q) : q[i] = q[j] => i = j
  <2> SUFFICES ASSUME NEW i \in 1..Len(q), NEW j \in 1..Len(q), q[i] = q[j]
               PROVE  i = j
    OBVIOUS
  <2>1. CASE i = 1 \/ j = 1
    BY <2>1, <1>1, <1>6, <1>8
  <2>2. CASE i # 1 /\ j # 1
    <3>1. i \in 2..Len(q) /\ j \in 2..Len(q)
      BY <2>2, <1>1
    <3>2. s[at(i)] = s[at(j)] /\ at(i) \in 1..Len(s) /\ at(j) \in 1..Len(s)
      BY <3>1, <1>3
    <3>3. at(i) = at(j)
      BY <3>2 DEF Exact
    <3>4. QED
      BY <3>1, <3>3, <1>4
  <2>3. QED
    BY <2>1, <2>2
<1>11. \A i \in 1..Len(q) : m1[ky1[q[i]]] = q[i]
  <2> SUFFICES ASSUME NEW i \in 1..Len(q)
               PROVE  m1[ky1[q[i]]] = q[i]
    OBVIOUS
  <2>1. CASE i = 1
    BY <2>1, <1>6, <1>9
  <2>2. CASE i # 1
    <3>1. i \in 2..Len(q)
      BY <2>2, <1>1
    <3>2. m[ky[s[at(i)]]] = s[at(i)] /\ ky[s[at(i)]] \in Key
      BY <3>1, <1>1, <1>3 DEF Exact, Keys
    <3>3. QED
      BY <3>1, <3>2, <1>8 DEF Maps
  <2>3. QED
    BY <2>1, <2>2
<1>12. ASSUME NEW x \in Key, m1[x] # NoNode
       PROVE  \E i \in 1..Len(q) : m1[x] = q[i] /\ ky1[q[i]] = x
  <2>1. CASE x = k
    BY <2>1, <1>6, <1>9
  <2>2. CASE x # k
    <3>1. m1[x] = m[x]
      BY <2>2 DEF Maps
    <3>2. PICK i \in 1..Len(s) : m[x] = s[i] /\ ky[s[i]] = x
      BY <3>1, <1>12 DEF Exact
    <3>3. i # p
      BY <3>2, <2>2, <1>1 DEF PlaceOf
    <3>4. PICK j \in 2..Len(q) : at(j) = i
      BY <3>3, <1>5
    <3>5. j \in 1..Len(q) /\ m1[x] = q[j] /\ ky1[q[j]] = x
      BY <3>1, <3>2, <3>4, <1>1, <1>8
    <3>6. QED
      BY <3>5
  <2>3. QED
    BY <2>1, <2>2
<1>13. QED
  BY <1>10, <1>11, <1>12 DEF Exact

\* A use of k after all others keeps the order.
LEMMA FrontedOrdered ==
    ASSUME NEW s \in Seq(Node), NEW ky \in Keys, NEW m \in Maps,
           Exact(s, ky, m), NEW k \in Key, NEW f \in Node,
           f = m[k] \/ \A i \in 1..Len(s) : s[i] # f,
           NEW p, PlaceOf(s, ky, m, k, p), NEW q, FrontedAt(s, q, f, p),
           NEW last, NEW last1, NEW n \in Nat, last \in [Key -> Nat], 
           \A j \in Key : last[j] <= n,
           last1 = [last EXCEPT ![k] = n + 1],
           Ordered(s, ky, last)
    PROVE  Ordered(q, [ky EXCEPT ![f] = k], last1)
<1> DEFINE ky1 == [ky EXCEPT ![f] = k]
           at(i) == IF i <= p THEN i - 1 ELSE i
<1>1. Len(s) \in Nat /\ Len(q) \in Nat /\ \A i \in 1..Len(s) : s[i] \in Node /\ s[i] # NoNode
  BY LenProperties, ElementOfSeq, CacheAssumption DEF FrontedAt
<1>2. p \in 1..(Len(s) + 1)
  BY DEF PlaceOf
<1>3. \A i \in 2..Len(q) : at(i) \in 1..Len(s) /\ q[i] = s[at(i)]
  <2>1. /\ Len(q) = IF p > Len(s) THEN Len(s) + 1 ELSE Len(s)
        /\ \A i \in 2..Len(q) : q[i] = s[at(i)]
    BY DEF FrontedAt
  <2>2. QED
    BY ONLY <1>1, <1>2, <2>1
<1>4. \A i, j \in 2..Len(q) : i < j => at(i) < at(j)
  BY <1>1, <1>2 DEF FrontedAt
<1>5. ASSUME NEW i \in 2..Len(q) PROVE at(i) # p
  <2>1. i \in Int /\ p \in Int
    BY <1>1, <1>2
  <2>2. QED
    BY ONLY <2>1
<1> HIDE DEF at
<1>6. Exact(q, ky1, [m EXCEPT ![k] = f])
  BY FrontedExact
<1>7. q[1] = f /\ ky1[f] = k /\ 1 \in 1..Len(q)
  BY <1>1, <1>2 DEF FrontedAt, Keys
<1>8. ASSUME NEW i \in 2..Len(q)
      PROVE  /\ ky1[q[i]] = ky[s[at(i)]] /\ ky[s[at(i)]] \in Key
             /\ last1[ky1[q[i]]] = last[ky[s[at(i)]]]
  <2>1. i \in 1..Len(q) /\ i # 1
    BY <1>1
  <2>2. q[i] # f
    BY <2>1, <1>6, <1>7 DEF Exact
  <2>3. ky1[q[i]] = ky[s[at(i)]] /\ ky[s[at(i)]] \in Key
    BY <2>2, <1>1, <1>3 DEF Keys
  <2>4. ky[s[at(i)]] # k
    <3> SUFFICES ASSUME ky[s[at(i)]] = k
                 PROVE  FALSE
      OBVIOUS
    <3>1. m[k] = s[at(i)] /\ m[k] # NoNode
      BY <1>1, <1>3 DEF Exact
    <3>2. m[k] = s[p] /\ p \in 1..Len(s)
      BY <3>1, <1>1, <1>2 DEF PlaceOf
    <3>3. at(i) \in 1..Len(s) /\ at(i) # p
      BY <1>3, <1>5
    <3>4. s[at(i)] = s[p]
      BY <3>1, <3>2
    <3>5. QED
      BY <3>2, <3>3, <3>4 DEF Exact
  <2>5. QED
    BY <2>3, <2>4
<1>9. last1[k] = n + 1
  OBVIOUS
<1>10. SUFFICES ASSUME NEW i \in 1..Len(q), NEW j \in 1..Len(q), i < j
                PROVE  last1[ky1[q[i]]] > last1[ky1[q[j]]]
  BY DEF Ordered
<1>11. j \in 2..Len(q)
  BY <1>1, <1>10
<1>12. last1[ky1[q[j]]] = last[ky[s[at(j)]]] /\ ky[s[at(j)]] \in Key
  BY <1>8, <1>11
<1>13. CASE i = 1
  <2>1. last1[ky1[q[i]]] = n + 1
    BY <1>13, <1>7, <1>9
  <2>2. last[ky[s[at(j)]]] <= n /\ last[ky[s[at(j)]]] \in Nat
    BY <1>12
  <2>3. QED
    BY <2>1, <2>2, <1>12
<1>14. CASE i # 1
  <2>1. i \in 2..Len(q)
    BY <1>1, <1>14
  <2>2. at(i) < at(j) /\ at(i) \in 1..Len(s) /\ at(j) \in 1..Len(s)
    BY <2>1, <1>3, <1>4, <1>10, <1>11
  <2>3. last[ky[s[at(i)]]] > last[ky[s[at(j)]]]
    BY <2>2 DEF Ordered
  <2>4. QED
    BY <2>1, <2>3, <1>8, <1>12
<1>15. QED
  BY <1>13, <1>14

\* Without its last node a list is described by the map without its key.
LEMMA DropLast ==
    ASSUME NEW s \in Seq(Node), Len(s) > 0, NEW ky \in Keys,
           NEW m \in Maps, Exact(s, ky, m)
    PROVE  LET t == SubSeq(s, 1, Len(s) - 1)
               e == ky[s[Len(s)]]
           IN  /\ t \in Seq(Node) /\ Len(t) = Len(s) - 1
               /\ \A i \in 1..Len(t) : t[i] = s[i] /\ ky[s[i]] # e
               /\ e \in Key
               /\ Exact(t, ky, [m EXCEPT ![e] = NoNode])
<1> DEFINE t == SubSeq(s, 1, Len(s) - 1)
           e == ky[s[Len(s)]]
<1>1. Len(s) \in Nat /\ \A i \in 1..Len(s) : s[i] \in Node /\ s[i] # NoNode
  BY LenProperties, ElementOfSeq, CacheAssumption
<1>2. /\ t \in Seq(Node) /\ Len(t) = Len(s) - 1
      /\ \A i \in 1..(Len(s) - 1) : t[i] = s[i]
  <2>1. Len(s) - 1 \in Nat /\ Len(s) - 1 <= Len(s)
    BY <1>1
  <2>2. QED
    BY <2>1, Prefix
<1> HIDE DEF t
<1>3. Len(s) \in 1..Len(s) /\ e \in Key /\ m[e] = s[Len(s)]
  BY <1>1 DEF Keys, Exact
<1>4. \A i \in 1..Len(t) : i \in 1..Len(s) /\ i # Len(s) /\ t[i] = s[i]
  BY <1>1, <1>2
<1>5. \A i \in 1..Len(t) : ky[s[i]] # e
  BY <1>3, <1>4 DEF Exact
<1> DEFINE m1 == [m EXCEPT ![e] = NoNode]
<1>6. m1[e] = NoNode /\ \A x \in Key \ {e} : m1[x] = m[x]
  BY <1>3 DEF Maps
<1>7. \A i, j \in 1..Len(t) : t[i] = t[j] => i = j
  <2> SUFFICES ASSUME NEW i \in 1..Len(t), NEW j \in 1..Len(t), t[i] = t[j]
               PROVE  i = j
    OBVIOUS
  <2>1. i \in 1..Len(s) /\ j \in 1..Len(s) /\ s[i] = s[j]
    BY <1>4
  <2>2. QED
    BY <2>1, Zenon DEF Exact
<1>8. \A i \in 1..Len(t) : m1[ky[t[i]]] = t[i]
  BY <1>1, <1>4, <1>5, <1>6 DEF Exact, Keys
<1>9. ASSUME NEW x \in Key, m1[x] # NoNode
      PROVE  \E i \in 1..Len(t) : m1[x] = t[i] /\ ky[t[i]] = x
  <2>1. x # e /\ m1[x] = m[x]
    BY <1>6, <1>9
  <2>2. PICK i \in 1..Len(s) : m[x] = s[i] /\ ky[s[i]] = x
    BY <2>1, <1>9 DEF Exact
  <2>3. i # Len(s)
    BY <2>1, <2>2
  <2>4. i \in 1..Len(t)
    BY <2>3, <1>1, <1>2
  <2>5. QED
    BY <2>1, <2>2, <2>4, <1>4
<1>10. Exact(t, ky, m1)
  BY <1>7, <1>8, <1>9 DEF Exact
<1>11. QED
  BY <1>2, <1>3, <1>4, <1>5, <1>10 DEF t

-----------------------------------------------------------------------------

\* The invariant in terms of Exact.
LEMMA IndexIsExact ==
    ASSUME list \in Seq(Node)
    PROVE  IndexExact <=> Exact(list, key, map)
<1>1. DOMAIN list = 1..Len(list)
  BY LenProperties
<1>2. \A k \in Key : (map[k] \in NodesOf(list) /\ key[map[k]] = k)
                     <=> \E i \in 1..Len(list) : map[k] = list[i] /\ key[list[i]] = k
  BY <1>1 DEF NodesOf
<1>3. QED
  BY <1>1, <1>2 DEF IndexExact, Exact, Exists

\* What a put or a get does with list s, keys ky and map m before it evicts:
\* the node f of k is in front of q.
UseOf(k, f, p, q) ==
    /\ k \in Key /\ f \in Node
    /\ f = map[k] \/ \A i \in 1..Len(list) : list[i] # f
    /\ q = <<f>> \o Unlinked(list, map[k])
    /\ PlaceOf(list, key, map, k, p)
    /\ Touch(k)
    /\ key' = [key EXCEPT ![f] = k]

\* Until it evicts, the cache is exact, has the order and lost no key; it has
\* one entry too many at most.
LEMMA BeforeEviction ==
    ASSUME CacheIInv, NEW k, NEW f, NEW p, NEW q, UseOf(k, f, p, q),
           NEW m, m = [map EXCEPT ![k] = f]
    PROVE  /\ q \in Seq(Node) /\ Len(q) \in 1..(MaxSize + 1) /\ Len(list) <= Len(q)
           /\ key' \in Keys /\ m \in Maps
           /\ lastUse' \in [Key -> 0..MaxUses] /\ uses' \in 0..MaxUses
           /\ \A j \in Key : lastUse'[j] <= uses'
           /\ Exact(q, key', m)
           /\ Ordered(q, key', lastUse')
           /\ IsFiniteSet(Mapped(m)) /\ Cardinality(Mapped(m)) = Len(q)
           /\ \A j \in Key : lastUse'[j] > 0 /\ m[j] = NoNode =>
                 /\ Len(list) = MaxSize
                 /\ \A x \in Mapped(m) : lastUse'[x] > lastUse'[j]
<1>1. /\ list \in Seq(Node) /\ Len(list) <= MaxSize /\ Len(list) \in Nat /\ MaxSize \in Nat \ {0}
      /\ key \in Keys /\ map \in Maps /\ uses \in 0..MaxUses /\ MaxUses \in Nat
      /\ lastUse \in [Key -> 0..MaxUses]
      /\ k \in Key /\ f \in Node /\ p \in 1..(Len(list) + 1)
  BY LenProperties, CacheAssumption DEF CacheIInv, CacheInv, CacheTypeOK, Keys, Maps, UseOf,
     PlaceOf
<1>2. Exact(list, key, map)
  BY <1>1, IndexIsExact DEF CacheIInv, CacheInv
<1>3. FrontedAt(list, q, f, p)
  BY <1>1, <1>2, NodeFronted DEF UseOf
<1>4. q \in Seq(Node) /\ Len(q) \in 1..(MaxSize + 1) /\ Len(list) <= Len(q)
  BY <1>1, <1>3 DEF FrontedAt
<1>5. key' \in Keys /\ m \in Maps
  BY <1>1 DEF UseOf, Keys, Maps
<1>6. /\ uses < MaxUses /\ uses' = uses + 1
      /\ lastUse' = [lastUse EXCEPT ![k] = uses + 1]
      /\ key' = [key EXCEPT ![f] = k]
  BY DEF UseOf, Touch
<1>7. /\ lastUse' \in [Key -> 0..MaxUses] /\ uses' \in 0..MaxUses
      /\ \A j \in Key : lastUse'[j] <= uses'
  BY <1>1, <1>6 DEF CacheIInv
<1>8. Exact(q, key', m)
  <2>1. Exact(q, [key EXCEPT ![f] = k], [map EXCEPT ![k] = f])
    BY <1>1, <1>2, <1>3, FrontedExact DEF UseOf
  <2>2. QED
    BY <2>1, <1>6
<1>9. Ordered(q, key', lastUse')
  <2>1. lastUse \in [Key -> Nat] /\ uses \in Nat /\ \A j \in Key : lastUse[j] <= uses
    BY <1>1 DEF CacheIInv
  <2>2. f = map[k] \/ \A i \in 1..Len(list) : list[i] # f
    BY DEF UseOf
  <2>3. PlaceOf(list, key, map, k, p) /\ Ordered(list, key, lastUse)
    BY DEF UseOf, CacheIInv
  <2>4. Ordered(q, [key EXCEPT ![f] = k], [lastUse EXCEPT ![k] = uses + 1])
    BY <2>1, <2>2, <2>3, <1>1, <1>2, <1>3, FrontedOrdered
  <2>5. QED
    BY <2>4, <1>6
<1>10. IsFiniteSet(Mapped(m)) /\ Cardinality(Mapped(m)) = Len(q)
  BY <1>4, <1>5, <1>8, MappedAsLinked
<1>11. ASSUME NEW j \in Key, lastUse'[j] > 0, m[j] = NoNode
       PROVE  /\ Len(list) = MaxSize
              /\ \A x \in Mapped(m) : lastUse'[x] > lastUse'[j]
  <2>1. j # k
    BY <1>1, <1>11, CacheAssumption DEF Maps
  <2>2. lastUse'[j] = lastUse[j] /\ map[j] = NoNode
    BY <2>1, <1>1, <1>6, <1>11 DEF Maps
  <2>3. /\ Cardinality(Mapped(map)) = MaxSize
        /\ \A x \in Mapped(map) : lastUse[x] > lastUse[j]
    BY <2>2, <1>11 DEF CacheIInv, CacheInv, MostRecentKept, Exists
  <2>4. Len(list) = MaxSize
    BY <2>3, <1>1, <1>2, MappedAsLinked
  <2>5. ASSUME NEW x \in Mapped(m)
        PROVE  lastUse'[x] > lastUse'[j]
    <3>1. CASE x = k
      <4>1. lastUse'[x] = uses + 1 /\ lastUse[j] <= uses /\ lastUse[j] \in Nat /\ uses \in Nat
        BY <3>1, <1>1, <1>6 DEF CacheIInv
      <4>2. QED
        BY <4>1, <2>2
    <3>2. CASE x # k
      <4>1. x \in Mapped(map) /\ lastUse'[x] = lastUse[x]
        BY <3>2, <1>1, <1>6 DEF Mapped, Maps
      <4>2. QED
        BY <4>1, <2>2, <2>3
    <3>3. QED
      BY <3>1, <3>2
  <2>6. QED
    BY <2>4, <2>5
<1>12. QED
  BY <1>4, <1>5, <1>7, <1>8, <1>9, <1>10, <1>11

\* A put or a get keeps the invariant.
LEMMA UseKeepsInv ==
    ASSUME CacheIInv, NEW k, NEW f, NEW p, NEW q, UseOf(k, f, p, q),
           NEW m, m = [map EXCEPT ![k] = f], Evict(q, m)
    PROVE  /\ CacheIInv'
           /\ IF Len(q) > MaxSize THEN list' = SubSeq(q, 1, MaxSize) ELSE list' = q
<1>1. /\ q \in Seq(Node) /\ Len(q) \in 1..(MaxSize + 1) /\ Len(list) <= Len(q)
      /\ key' \in Keys /\ m \in Maps
      /\ lastUse' \in [Key -> 0..MaxUses] /\ uses' \in 0..MaxUses
      /\ \A j \in Key : lastUse'[j] <= uses'
      /\ Exact(q, key', m)
      /\ Ordered(q, key', lastUse')
      /\ IsFiniteSet(Mapped(m)) /\ Cardinality(Mapped(m)) = Len(q)
  BY BeforeEviction
<1>2. \A j \in Key : lastUse'[j] > 0 /\ m[j] = NoNode =>
                 /\ Len(list) = MaxSize
                 /\ \A x \in Mapped(m) : lastUse'[x] > lastUse'[j]
  BY BeforeEviction
<1>3. MaxSize \in Nat \ {0} /\ MaxUses \in Nat
  BY CacheAssumption
<1> DEFINE Goal == /\ list' \in Seq(Node) /\ Len(list') <= MaxSize
                   /\ map' \in Maps
                   /\ Exact(list', key', map')
                   /\ Ordered(list', key', lastUse')
                   /\ \A j \in Key : lastUse'[j] > 0 /\ map'[j] = NoNode =>
                         /\ Cardinality(Mapped(map')) = MaxSize
                         /\ \A x \in Mapped(map') : lastUse'[x] > lastUse'[j]
                   /\ IF Len(q) > MaxSize THEN list' = SubSeq(q, 1, MaxSize) ELSE list' = q
<1> HIDE DEF Goal
<1>4. ASSUME Len(q) <= MaxSize
      PROVE  Goal
  <2>1. list' = q /\ map' = m
    BY <1>1, <1>3, <1>4 DEF Evict
  <2>2. ASSUME NEW j \in Key, lastUse'[j] > 0, m[j] = NoNode
        PROVE  Len(q) = MaxSize
    BY <1>1, <1>2, <1>3, <1>4, <2>2
  <2>3. ~(Len(q) > MaxSize)
    BY <1>1, <1>3, <1>4
  <2>4. QED
    BY <1>1, <1>2, <1>4, <2>1, <2>2, <2>3 DEF Goal
<1>5. ASSUME Len(q) > MaxSize
      PROVE  Goal
  <2> DEFINE e == key'[q[Len(q)]]
  <2>1. Len(q) = MaxSize + 1 /\ Len(q) \in 1..Len(q) /\ Len(q) - 1 = MaxSize
    BY <1>1, <1>3, <1>5
  <2>2. list' = SubSeq(q, 1, Len(q) - 1) /\ map' = [m EXCEPT ![e] = NoNode]
    BY <1>1, <1>5 DEF Evict
  <2>3. /\ list' \in Seq(Node) /\ Len(list') = Len(q) - 1
        /\ \A i \in 1..Len(list') : list'[i] = q[i] /\ key'[q[i]] # e
        /\ e \in Key
        /\ Exact(list', key', [m EXCEPT ![e] = NoNode])
    <3>1. Len(q) > 0
      BY <2>1
    <3>2. QED
      BY ONLY CacheAssumption, <3>1, <1>1, <2>2, DropLast
  <2> HIDE DEF e
  <2>10. Len(list') = MaxSize
    BY <2>1, <2>3
  <2>4. map' \in Maps /\ map'[e] = NoNode /\ \A x \in Key \ {e} : map'[x] = m[x]
    BY <1>1, <2>2, <2>3 DEF Maps
  <2>5. Cardinality(Mapped(map')) = MaxSize
    BY <2>1, <2>2, <2>3, <2>4, <1>1, MappedAsLinked
  <2>6. Ordered(list', key', lastUse')
    BY <1>1, <2>1, <2>3 DEF Ordered
  <2>7. ASSUME NEW j \in Key, lastUse'[j] > 0, map'[j] = NoNode,
               NEW x \in Mapped(map')
        PROVE  lastUse'[x] > lastUse'[j]
    <3>1. x \in Key /\ x # e /\ x \in Mapped(m)
      BY <2>4 DEF Mapped
    <3>2. CASE j # e
      BY <3>1, <3>2, <2>4, <2>7, <1>2
    <3>3. CASE j = e
      <4>1. PICK i \in 1..Len(q) : m[x] = q[i] /\ key'[q[i]] = x
        BY <3>1, <1>1 DEF Mapped, Exact
      <4>2. i < Len(q)
        BY <4>1, <3>1, <2>1, <1>1 DEF e
      <4>3. lastUse'[key'[q[i]]] > lastUse'[key'[q[Len(q)]]]
        BY <4>2, <2>1, <1>1 DEF Ordered
      <4>4. QED
        BY <4>1, <4>3, <3>3 DEF e
    <3>4. QED
      BY <3>2, <3>3
  <2>8. QED
    <3>1. list' \in Seq(Node) /\ Len(list') <= MaxSize
      BY <1>3, <2>3, <2>10
    <3>2. Exact(list', key', map')
      BY <2>2, <2>3
    <3>3. IF Len(q) > MaxSize THEN list' = SubSeq(q, 1, MaxSize) ELSE list' = q
      BY <1>5, <2>1, <2>2
    <3>4. QED
      BY <3>1, <3>2, <3>3, <2>4, <2>5, <2>6, <2>7, Zenon DEF Goal
<1>6. Goal
  <2>1. Len(q) <= MaxSize \/ Len(q) > MaxSize
    BY <1>1, <1>3
  <2>2. QED
    BY <2>1, <1>4, <1>5
<1> USE DEF Goal
<1>7. CacheTypeOK'
  BY <1>1, <1>6 DEF CacheTypeOK, Keys, Maps
<1>8. IndexExact'
  <2>1. (list \in Seq(Node))' /\ Exact(list, key, map)'
    BY <1>6 DEF Exact
  <2>2. (IndexExact <=> Exact(list, key, map))'
    BY <2>1, IndexIsExact, PTL
  <2>3. QED
    BY <2>1, <2>2
<1>9. MostRecentKept'
  BY <1>6 DEF MostRecentKept, Exists
<1>10. QED
  BY <1>1, <1>6, <1>7, <1>8, <1>9 DEF CacheIInv, CacheInv, Ordered

-----------------------------------------------------------------------------

\* The invariant of the cache holds at first.
LEMMA CacheIInvInit == ASSUME CacheInit PROVE CacheIInv
<1>1. CacheTypeOK
  BY CacheAssumption DEF CacheInit, CacheTypeOK
<1>2. IndexExact
  BY DEF CacheInit, IndexExact, Exists
<1>3. MostRecentKept
  BY DEF CacheInit, MostRecentKept
<1>4. Ordered(list, key, lastUse) /\ \A k \in Key : lastUse[k] <= uses
  BY DEF CacheInit, Ordered
<1>5. QED
  BY <1>1, <1>2, <1>3, <1>4 DEF CacheIInv, CacheInv

\* A put is a use of its key with a new node.
LEMMA PutUses ==
    ASSUME CacheIInv, NEW k \in Key, Put(k)
    PROVE  \E f, p, q : /\ UseOf(k, f, p, q)
                        /\ Evict(q, [map EXCEPT ![k] = f])
<1>1. list \in Seq(Node) /\ DOMAIN list = 1..Len(list)
  BY LenProperties DEF CacheIInv, CacheInv, CacheTypeOK
<1>2. Exact(list, key, map)
  BY <1>1, IndexIsExact DEF CacheIInv, CacheInv
<1>3. PICK f \in Node \ NodesOf(list) :
        /\ key' = [key EXCEPT ![f] = k]
        /\ Evict(<<f>> \o Unlinked(list, map[k]), [map EXCEPT ![k] = f])
        /\ Touch(k)
  BY DEF Put
<1>4. PICK p \in 1..(Len(list) + 1) : PlaceOf(list, key, map, k, p)
  BY <1>1, <1>2, PlaceFound
<1>5. \A i \in 1..Len(list) : list[i] # f
  BY <1>1, <1>3 DEF NodesOf
<1>6. UseOf(k, f, p, <<f>> \o Unlinked(list, map[k]))
  BY <1>3, <1>4, <1>5 DEF UseOf
<1>7. QED
  BY <1>3, <1>6

\* A get is a use of its key with the node it has, and evicts nothing.
LEMMA GetUses ==
    ASSUME CacheIInv, NEW k \in Key, Get(k)
    PROVE  \E f, p, q : /\ UseOf(k, f, p, q)
                        /\ Evict(q, [map EXCEPT ![k] = f])
<1>1. /\ list \in Seq(Node) /\ Len(list) \in Nat /\ Len(list) <= MaxSize
      /\ \A i \in 1..Len(list) : list[i] \in Node
      /\ key \in Keys /\ map \in Maps /\ MaxSize \in Nat
  BY LenProperties, ElementOfSeq, CacheAssumption DEF CacheIInv, CacheInv, CacheTypeOK,
     Keys, Maps
<1>2. Exact(list, key, map)
  BY <1>1, IndexIsExact DEF CacheIInv, CacheInv
<1>3. PICK p \in 1..(Len(list) + 1) : PlaceOf(list, key, map, k, p)
  BY <1>1, <1>2, PlaceFound
<1> DEFINE f == map[k]
           q == <<f>> \o Unlinked(list, map[k])
<1>4. /\ p <= Len(list) /\ p \in 1..Len(list) /\ f = list[p] /\ key[f] = k
      /\ f \in Node
  <2>1. map[k] # NoNode
    BY DEF Get
  <2>2. ~(p > Len(list))
    BY <2>1, <1>3 DEF PlaceOf
  <2>3. QED
    BY <2>2, <1>1, <1>3 DEF PlaceOf
<1>5. [key EXCEPT ![f] = k] = key /\ [map EXCEPT ![k] = f] = map
  BY <1>1, <1>4 DEF Keys, Maps
<1>6. Touch(k) /\ key' = key /\ map' = map /\ list' = q
  BY DEF Get
<1>7. UseOf(k, f, p, q)
  BY <1>3, <1>4, <1>5, <1>6 DEF UseOf
<1>8. Evict(q, map)
  <2>1. Cardinality(Mapped(map)) = Len(list)
    BY <1>1, <1>2, MappedAsLinked
  <2>2. ~(Cardinality(Mapped(map)) > MaxSize)
    BY <2>1, <1>1
  <2>3. QED
    BY <2>2, <1>6 DEF Evict
<1>9. QED
  BY <1>5, <1>7, <1>8

\* Every step of the cache keeps it.
LEMMA CacheIInvStep ==
    ASSUME CacheIInv, [CacheNext]_cacheVars PROVE CacheIInv'
<1>1. ASSUME NEW k \in Key, Put(k) PROVE CacheIInv'
  BY <1>1, PutUses, UseKeepsInv
<1>2. ASSUME NEW k \in Key, Get(k) PROVE CacheIInv'
  BY <1>2, GetUses, UseKeepsInv
<1>3. ASSUME UNCHANGED cacheVars PROVE CacheIInv'
  <2>1. /\ list' = list /\ key' = key /\ map' = map /\ uses' = uses
        /\ lastUse' = lastUse
    BY <1>3 DEF cacheVars
  <2>2. CacheTypeOK' /\ IndexExact' /\ MostRecentKept'
    BY <2>1 DEF CacheIInv, CacheInv, CacheTypeOK, IndexExact, MostRecentKept, Exists
  <2>3. QED
    BY <2>1, <2>2 DEF CacheIInv, CacheInv, Ordered
<1>4. ASSUME Clear PROVE CacheIInv'
  <2>1. CacheTypeOK'
    BY <1>4, CacheAssumption DEF Clear, CacheTypeOK, CacheIInv, CacheInv
  <2>2. IndexExact'
    BY <1>4 DEF Clear, IndexExact, Exists
  <2>3. MostRecentKept'
    BY <1>4 DEF Clear, MostRecentKept
  <2>4. Ordered(list, key, lastUse)' /\ \A k \in Key : lastUse'[k] <= uses'
    BY <1>4 DEF Clear, Ordered, CacheIInv, CacheInv, CacheTypeOK
  <2>5. QED
    BY <2>1, <2>2, <2>3, <2>4 DEF CacheIInv, CacheInv
<1>5. QED
  BY <1>1, <1>2, <1>3, <1>4 DEF CacheNext, GetMissing

\* The list and the map of every cache agree, and it holds the keys used last.
THEOREM CacheCorrect == CacheSpec => []CacheInv
<1>1. CacheInit => CacheIInv
  BY CacheIInvInit
<1>2. CacheIInv /\ [CacheNext]_cacheVars => CacheIInv'
  BY CacheIInvStep
<1>3. CacheIInv => CacheInv
  BY DEF CacheIInv
<1>4. QED
  BY <1>1, <1>2, <1>3, PTL DEF CacheSpec

-----------------------------------------------------------------------------

\* The keys of the cache, the one used last first.
Recent == [i \in DOMAIN list |-> key[list[i]]]

\* A put or a get uses its key.
LEMMA UseIsUse ==
    ASSUME CacheIInv, NEW k, NEW f, NEW p, NEW q, UseOf(k, f, p, q),
           Evict(q, [map EXCEPT ![k] = f])
    PROVE  Recency!Use(k)
<1>1. /\ list \in Seq(Node) /\ Len(list) <= MaxSize /\ Len(list) \in Nat /\ MaxSize \in Nat \ {0}
      /\ key \in Keys /\ map \in Maps
      /\ k \in Key /\ f \in Node /\ p \in 1..(Len(list) + 1)
      /\ \A i \in 1..Len(list) : list[i] \in Node
  BY LenProperties, ElementOfSeq, CacheAssumption DEF CacheIInv, CacheInv, CacheTypeOK,
     Keys, Maps, UseOf, PlaceOf
<1>2. Exact(list, key, map)
  BY <1>1, IndexIsExact DEF CacheIInv, CacheInv
<1>3. FrontedAt(list, q, f, p) /\ PlaceOf(list, key, map, k, p)
  BY <1>1, <1>2, NodeFronted DEF UseOf
<1>4. /\ q \in Seq(Node) /\ Len(q) \in 1..(MaxSize + 1)
      /\ key' \in Keys /\ key'[f] = k
      /\ Exact(q, key', [map EXCEPT ![k] = f])
      /\ \A i \in 1..Len(q) : q[i] \in Node
  BY <1>1, BeforeEviction, ElementOfSeq DEF UseOf, Keys
<1>5. IF Len(q) > MaxSize THEN list' = SubSeq(q, 1, MaxSize) ELSE list' = q
  BY UseKeepsInv
<1>6. /\ Recent \in Seq(Key) /\ Len(Recent) = Len(list)
      /\ \A i \in 1..Len(list) : Recent[i] = key[list[i]]
  <2>1. Recent = [i \in 1..Len(list) |-> key[list[i]]]
    BY <1>1, LenProperties DEF Recent
  <2>2. \A i \in 1..Len(list) : key[list[i]] \in Key
    BY <1>1 DEF Keys
  <2>3. QED
    BY <1>1, <2>1, <2>2, IsASeq
<1> DEFINE u == <<k>> \o RemoveFirst(Recent, k)
<1>7. /\ u \in Seq(Key)
      /\ Len(u) = IF p > Len(list) THEN Len(list) + 1 ELSE Len(list)
      /\ u[1] = k
      /\ \A i \in 2..Len(u) : u[i] = Recent[IF i <= p THEN i - 1 ELSE i]
  <2>1. p <= Len(list) => /\ k = Recent[p]
                          /\ \A i \in 1..Len(list) : Recent[i] = k => i = p
    <3> SUFFICES ASSUME p <= Len(list)
                 PROVE  k = Recent[p] /\ \A i \in 1..Len(list) : Recent[i] = k => i = p
      OBVIOUS
    <3>1. p \in 1..Len(list) /\ key[list[p]] = k /\ map[k] = list[p]
      BY <1>1, <1>3 DEF PlaceOf
    <3>2. ASSUME NEW i \in 1..Len(list), Recent[i] = k
          PROVE  i = p
      BY <3>1, <3>2, <1>2, <1>6 DEF Exact
    <3>3. QED
      BY <3>1, <3>2, <1>6
  <2>2. p > Len(list) => \A i \in 1..Len(list) : Recent[i] # k
    <3> SUFFICES ASSUME p > Len(list), NEW i \in 1..Len(list), key[list[i]] = k
                 PROVE  FALSE
      BY <1>6
    <3>1. map[k] = NoNode /\ map[k] = list[i] /\ list[i] \in Node
      BY <1>1, <1>2, <1>3 DEF PlaceOf, Exact
    <3>2. QED
      BY <3>1, CacheAssumption
  <2>3. p \in 1..(Len(Recent) + 1)
    BY <1>1, <1>6
  <2>4. /\ p <= Len(Recent) => /\ k = Recent[p]
                               /\ \A i \in 1..Len(Recent) : Recent[i] = k => i = p
        /\ p > Len(Recent) => \A i \in 1..Len(Recent) : Recent[i] # k
    BY <1>6, <2>1, <2>2
  <2>5. /\ u \in Seq(Key)
        /\ Len(u) = IF p > Len(Recent) THEN Len(Recent) + 1 ELSE Len(Recent)
        /\ u[1] = k
        /\ \A i \in 2..Len(u) : u[i] = Recent[IF i <= p THEN i - 1 ELSE i]
    <3>1. Recent \in Seq(Key) /\ k \in Key
      BY <1>1, <1>6
    <3> HIDE DEF u
    <3>2. u = <<k>> \o RemoveFirst(Recent, k)
      BY DEF u
    <3>3. QED
      <4>1. Len(Recent) \in Nat
        BY <3>1, LenProperties
      <4> HIDE DEF Recent
      <4>2. OnlyAt(Recent, k, p)
        BY ONLY <2>3, <2>4 DEF OnlyAt
      <4>3. InFront(Key, Recent, k, p, u)
        BY ONLY <3>1, <3>2, <4>2, FrontProperties
      <4>4. QED
        BY ONLY <4>3 DEF InFront
  <2>6. QED
    BY <2>5, <1>6
<1> HIDE DEF u
<1>8. Len(u) = Len(q) /\ \A i \in 1..Len(q) : u[i] = key'[q[i]]
  <2>1. Len(u) = Len(q)
    BY <1>3, <1>7 DEF FrontedAt
  <2>2. q[1] = f
    BY <1>3 DEF FrontedAt
  <2>3. ASSUME NEW i \in 2..Len(q)
        PROVE  u[i] = key'[q[i]]
    <3> DEFINE j == IF i <= p THEN i - 1 ELSE i
    <3>1. q[i] = list[j] /\ u[i] = Recent[j] /\ j \in 1..Len(list)
      <4>1. q[i] = list[j]
        BY <1>3 DEF FrontedAt
      <4>2. u[i] = Recent[j]
        BY <1>7, <2>1
      <4>3. j \in 1..Len(list)
        BY <1>1, <1>3 DEF FrontedAt
      <4>4. QED
        BY <4>1, <4>2, <4>3
    <3>2. q[i] # f
      BY <1>4, <2>2 DEF Exact
    <3> HIDE DEF j
    <3>3. key'[q[i]] = key[list[j]]
      BY <3>1, <3>2, <1>1 DEF UseOf, Keys
    <3>4. QED
      BY <3>1, <3>3, <1>6
  <2>4. QED
    BY <1>4, <1>7, <2>1, <2>2, <2>3
<1>9. Recent' = IF Len(u) > MaxSize THEN SubSeq(u, 1, MaxSize) ELSE u
  <2>1. CASE Len(q) > MaxSize
    <3>1. list' = SubSeq(q, 1, MaxSize)
      BY <1>5, <2>1
    <3>2. list' \in Seq(Node) /\ Len(list') = MaxSize /\ \A i \in 1..MaxSize : list'[i] = q[i]
      BY <3>1, <2>1, <1>1, <1>4, Prefix
    <3>3. /\ SubSeq(u, 1, MaxSize) \in Seq(Key) /\ Len(SubSeq(u, 1, MaxSize)) = MaxSize
          /\ \A i \in 1..MaxSize : SubSeq(u, 1, MaxSize)[i] = u[i]
      BY <2>1, <1>1, <1>7, <1>8, Prefix
    <3>4. Recent' = [i \in 1..MaxSize |-> key'[q[i]]]
      BY <3>2, LenProperties DEF Recent
    <3>5. SubSeq(u, 1, MaxSize) = [i \in 1..MaxSize |-> u[i]]
      BY <3>3, LenProperties
    <3>6. QED
      BY <3>4, <3>5, <1>1, <1>4, <1>8, <2>1
  <2>2. CASE ~(Len(q) > MaxSize)
    <3>1. Recent' = [i \in 1..Len(q) |-> key'[q[i]]]
      BY <2>2, <1>4, <1>5, LenProperties DEF Recent
    <3>2. u = [i \in 1..Len(q) |-> u[i]]
      BY <1>7, <1>8, LenProperties
    <3>3. QED
      BY <3>1, <3>2, <1>8, <2>2
  <2>3. QED
    BY <2>1, <2>2
<1>10. Recency!Used(k) = IF Len(u) > MaxSize THEN SubSeq(u, 1, MaxSize) ELSE u
  BY RemovalAlike DEF Recency!Used, Recency!Without, u, Recent
<1>11. QED
  BY <1>9, <1>10 DEF Recency!Use, Recent

\* The cache behaves as a list of the keys that were last used.
THEOREM CacheImplementsRecency ==
    CacheSpec => ImplementsRecency
<1>1. CacheInit => Recency!RecencyInit
  BY DEF CacheInit, Recency!RecencyInit
<1>2. CacheIInv /\ [CacheNext]_cacheVars => [Recency!RecencyNext]_Recent
  <2> SUFFICES ASSUME CacheIInv, [CacheNext]_cacheVars
               PROVE  [Recency!RecencyNext]_Recent
    OBVIOUS
  <2>1. ASSUME NEW k \in Key, Put(k) \/ Get(k)
        PROVE  Recency!RecencyNext
    BY <2>1, PutUses, GetUses, UseIsUse DEF Recency!RecencyNext
  <2>2. ASSUME Clear PROVE Recency!RecencyNext
    BY <2>2 DEF Clear, Recency!RecencyNext, Recency!ForgetAll
  <2>3. ASSUME UNCHANGED cacheVars PROVE UNCHANGED Recent
    BY <2>3 DEF cacheVars, Recent
  <2>4. QED
    BY <2>1, <2>2, <2>3 DEF CacheNext, GetMissing
<1>3. CacheSpec => []CacheIInv
  BY CacheIInvInit, CacheIInvStep, PTL DEF CacheSpec
<1>4. QED
  BY <1>1, <1>2, <1>3, PTL DEF CacheSpec, ImplementsRecency, Recency!RecencySpec, Recent

-----------------------------------------------------------------------------
(* The analysis: its inductive invariant.                                  *)

\* The steps of the two loops of build().
InSteps == {"put", "register", "relation", "lookup", "link", "stats"}
OutSteps == {"outLookup", "outPut", "outLink"}

\* A loop is at a step only when it has an entry.
StepsFit ==
    /\ step \in InSteps => callingInTraffic # <<>>
    /\ step \in OutSteps => callingInTraffic = <<>> /\ callingOutTraffic # <<>>

\* The entries are those of spans reported, one of each.
FromSpans ==
    /\ \A i \in 1..Len(callingInTraffic) : \E s \in Span \ pending :
          s.kind = "server" /\ callingInTraffic[i] = ParseEntry(s)
    /\ \A i \in 1..Len(callingOutTraffic) : \E s \in Span \ pending :
          s.kind = "client" /\ callingOutTraffic[i] = ParseExit(s)

\* No request has two entries.
Distinct(entries) ==
    \A i, j \in 1..Len(entries) : entries[i].request = entries[j].request => i = j

\* The queues of a batch.
QueueInv ==
    /\ StepsFit /\ FromSpans
    /\ Distinct(callingInTraffic) /\ Distinct(callingOutTraffic)

\* The server span of r was counted, and its client span.
Served(r) ==
    /\ \E s \in Span \ pending : s.kind = "server" /\ s.request = r
    /\ \A i \in 1..Len(callingInTraffic) : callingInTraffic[i].request # r
Called(r) ==
    /\ \E s \in Span \ pending : s.kind = "client" /\ s.request = r
    /\ \A i \in 1..Len(callingOutTraffic) :
          callingOutTraffic[i].request = r => i = 1 /\ step \in OutSteps

\* A request is counted for each of its spans that was.
CountedExactly ==
    \A r \in Request :
        counted[r] = (IF Served(r) THEN 1 ELSE 0) + (IF Called(r) THEN 1 ELSE 0)

\* An id is in a cache once.
NoRepeat(s) == \A i, j \in 1..Len(s) : s[i] = s[j] => i = j

\* How often a service may have been offered at most, when it is remembered and
\* when it is not.
Most(id) == IF id \in overlap THEN 2 ELSE 1

\* Where the service of the entry in the works is, if clear() did not come in
\* between, and after it did.
InPlace(n) == Len(inLru) >= 1 /\ inLru[1] = n
InCleared(n) == inLru = <<>> /\ n \in overlap

\* The cache of services, the history of offers, and the entry in the works.
InCacheInv ==
    /\ NoRepeat(inLru)
    /\ \A n \in Name : LET remembered == n \in In!Remembered IN
        /\ offered[n] <= Most(n)
        /\ ~remembered => offered[n] <= Most(n) - 1
        /\ remembered => \/ offered[n] >= 1 \/ n \in overlap
                         \/ step = "register" /\ n = in.dest
    /\ step = "put" => LET n == in.dest IN
        IF exist THEN n \in In!Remembered \/ n \in overlap
                 ELSE n \notin In!Remembered
    /\ step = "register" => LET n == in.dest IN
        \/ InPlace(n) /\ offered[n] <= Most(n) - 1
        \/ InCleared(n) /\ offered[n] = 0
    /\ step = "relation" => InPlace(in.dest) \/ InCleared(in.dest)
    /\ step = "lookup" => in.dest \in In!Remembered \/ in.dest \in overlap
    /\ step = "link" => accepted \/ in.dest \in overlap

\* The same for relations and the second cache.
OutPlace(r) == Len(outLru) >= 1 /\ outLru[1] = r
OutCleared(r) == outLru = <<>> /\ r \in overlap

OutCacheInv ==
    /\ NoRepeat(outLru)
    /\ \A r \in Relation :
        /\ linked[r] <= Most(r)
        /\ r \notin Out!Remembered => linked[r] <= Most(r) - 1
    /\ step = "outPut" /\ ~exist => OutRelation \notin Out!Remembered
    /\ step = "outLink" => LET r == OutRelation IN
        \/ OutPlace(r) /\ linked[r] <= Most(r) - 1
        \/ OutCleared(r) /\ linked[r] = 0

\* The inductive invariant of the analysis.
AnalysisIInv ==
    /\ TypeOK /\ QueueInv /\ CountedExactly /\ InCacheInv /\ OutCacheInv

-----------------------------------------------------------------------------
\* A recency list s of at most max elements after a use of k, and what it forgets.
Fronted(s, k) == <<k>> \o RemoveFirst(s, k)
UsedOf(s, k, max) ==
    IF Len(Fronted(s, k)) > max THEN SubSeq(Fronted(s, k), 1, max) ELSE Fronted(s, k)
ForgottenOf(s, k, max) == {Fronted(s, k)[i] : i \in (max + 1)..Len(Fronted(s, k))}
ElementsOf(s) == {s[i] : i \in DOMAIN s}

\* The two caches are such lists.
LEMMA CachesAreLists ==
    ASSUME NEW k
    PROVE  /\ In!Used(k) = UsedOf(inLru, k, MaxEntries)
           /\ In!ForgottenBy(k) = ForgottenOf(inLru, k, MaxEntries)
           /\ In!Remembered = ElementsOf(inLru)
           /\ Out!Used(k) = UsedOf(outLru, k, MaxEntries)
           /\ Out!ForgottenBy(k) = ForgottenOf(outLru, k, MaxEntries)
           /\ Out!Remembered = ElementsOf(outLru)
<1>1. In!Without(k) = RemoveFirst(inLru, k)
  BY DEF In!Without, In!RemoveFirst, RemoveFirst, In!SelectInSeq, SelectInSeq,
     In!Min, Min, In!RemoveAt, RemoveAt
<1>2. Out!Without(k) = RemoveFirst(outLru, k)
  BY DEF Out!Without, Out!RemoveFirst, RemoveFirst, Out!SelectInSeq, SelectInSeq,
     Out!Min, Min, Out!RemoveAt, RemoveAt
<1>3. /\ In!Used(k) = UsedOf(inLru, k, MaxEntries)
      /\ Out!Used(k) = UsedOf(outLru, k, MaxEntries)
  BY <1>1, <1>2 DEF In!Used, Out!Used, UsedOf, Fronted
<1>4. /\ In!ForgottenBy(k) = ForgottenOf(inLru, k, MaxEntries)
      /\ Out!ForgottenBy(k) = ForgottenOf(outLru, k, MaxEntries)
  BY <1>1, <1>2 DEF In!ForgottenBy, Out!ForgottenBy, ForgottenOf, Fronted
<1>5. In!Remembered = ElementsOf(inLru) /\ Out!Remembered = ElementsOf(outLru)
  BY DEF In!Remembered, Out!Remembered, ElementsOf
<1>6. QED
  BY <1>3, <1>4, <1>5

\* What a use does: k comes first, what is forgotten was remembered before, and
\* is neither k nor the element that was first.
LEMMA UseProperties ==
    ASSUME NEW S, NEW s \in Seq(S), NoRepeat(s), NEW k \in S, NEW max \in Nat, max >= 2,
           Len(s) <= max
    PROVE  LET t == UsedOf(s, k, max)
               f == ForgottenOf(s, k, max)
           IN  /\ t \in Seq(S) /\ Len(t) \in 1..max /\ NoRepeat(t) /\ t[1] = k
               /\ k \notin f /\ f \subseteq ElementsOf(s)
               /\ ElementsOf(t) = (ElementsOf(s) \union {k}) \ f
               /\ Len(s) >= 1 => s[1] \in ElementsOf(t)
<1> DEFINE q == Fronted(s, k)
           t == UsedOf(s, k, max)
           f == ForgottenOf(s, k, max)
<1>1. Len(s) \in Nat /\ DOMAIN s = 1..Len(s)
  BY LenProperties
<1>2. PICK p \in 1..(Len(s) + 1) :
        /\ p <= Len(s) => k = s[p] /\ \A i \in 1..Len(s) : s[i] = k => i = p
        /\ p > Len(s) => \A i \in 1..Len(s) : s[i] # k
  <2>1. CASE \E i \in 1..Len(s) : s[i] = k
    <3>1. PICK p \in 1..Len(s) : s[p] = k
      BY <2>1
    <3>2. \A i \in 1..Len(s) : s[i] = k => i = p
      BY <3>1 DEF NoRepeat
    <3>3. QED
      BY <1>1, <3>1, <3>2
  <2>2. CASE \A i \in 1..Len(s) : s[i] # k
    BY <1>1, <2>2
  <2>3. QED
    BY <2>1, <2>2
<1>3. /\ q \in Seq(S)
      /\ Len(q) = IF p > Len(s) THEN Len(s) + 1 ELSE Len(s)
      /\ q[1] = k
      /\ \A i \in 2..Len(q) : q[i] = s[IF i <= p THEN i - 1 ELSE i]
  <2>1. OnlyAt(s, k, p)
    BY ONLY <1>2 DEF OnlyAt
  <2>2. InFront(S, s, k, p, q)
    BY <2>1, FrontProperties DEF Fronted
  <2>3. QED
    BY ONLY <2>2 DEF InFront
<1> HIDE DEF q
<1>4. Len(q) \in Nat /\ Len(q) >= 1 /\ Len(q) <= max + 1 /\ DOMAIN q = 1..Len(q)
  BY <1>1, <1>2, <1>3, LenProperties
<1> DEFINE at(i) == IF i <= p THEN i - 1 ELSE i
<1>5. \A i \in 2..Len(q) : at(i) \in 1..Len(s) /\ at(i) # p /\ q[i] = s[at(i)]
  BY <1>1, <1>2, <1>3
<1>6. \A i, j \in 2..Len(q) : at(i) = at(j) => i = j
  BY <1>1, <1>2
<1>7. \A i \in 1..Len(s) : i # p => \E j \in 2..Len(q) : at(j) = i
  <2> SUFFICES ASSUME NEW i \in 1..Len(s), i # p
               PROVE  \E j \in 2..Len(q) : at(j) = i
    OBVIOUS
  <2>1. CASE i < p
    <3>1. i + 1 \in 2..Len(q) /\ at(i + 1) = i
      BY <1>1, <1>2, <1>3, <2>1
    <3>2. QED
      BY <3>1
  <2>2. CASE i > p
    <3>1. i \in 2..Len(q) /\ at(i) = i
      BY <1>1, <1>2, <1>3, <2>2
    <3>2. QED
      BY <3>1
  <2>3. QED
    BY <1>1, <1>2, <2>1, <2>2
<1> HIDE DEF at
<1>8. \A i \in 2..Len(q) : q[i] # k
  <2> SUFFICES ASSUME NEW i \in 2..Len(q), q[i] = k
               PROVE  FALSE
    OBVIOUS
  <2>1. at(i) \in 1..Len(s) /\ at(i) # p /\ s[at(i)] = k
    BY <1>5
  <2>2. QED
    BY <2>1, <1>1, <1>2
<1>9. NoRepeat(q)
  <2> SUFFICES ASSUME NEW i \in 1..Len(q), NEW j \in 1..Len(q), q[i] = q[j]
               PROVE  i = j
    BY DEF NoRepeat
  <2>1. CASE i = 1 \/ j = 1
    BY <2>1, <1>3, <1>4, <1>8
  <2>2. CASE i # 1 /\ j # 1
    <3>1. i \in 2..Len(q) /\ j \in 2..Len(q)
      BY <2>2, <1>4
    <3>2. at(i) = at(j)
      BY <3>1, <1>5 DEF NoRepeat
    <3>3. QED
      BY <3>1, <3>2, <1>6
  <2>3. QED
    BY <2>1, <2>2
<1>10. ElementsOf(q) = ElementsOf(s) \union {k}
  <2>1. ASSUME NEW x \in ElementsOf(s), x # k
        PROVE  x \in ElementsOf(q)
    <3>1. PICK i \in 1..Len(s) : s[i] = x
      BY <1>1 DEF ElementsOf
    <3>2. i # p
      BY <3>1, <2>1, <1>1, <1>2
    <3>3. PICK j \in 2..Len(q) : at(j) = i
      BY <3>2, <1>7
    <3>4. q[j] = x /\ j \in DOMAIN q
      BY <3>1, <3>3, <1>4, <1>5
    <3>5. QED
      BY <3>4 DEF ElementsOf
  <2>2. k \in ElementsOf(q)
    BY <1>3, <1>4 DEF ElementsOf
  <2>3. ASSUME NEW i \in 1..Len(q)
        PROVE  q[i] \in ElementsOf(s) \union {k}
    <3>1. CASE i = 1
      BY <3>1, <1>3
    <3>2. CASE i # 1
      BY <3>2, <1>1, <1>4, <1>5 DEF ElementsOf
    <3>3. QED
      BY <3>1, <3>2
  <2>4. ElementsOf(q) \subseteq ElementsOf(s) \union {k}
    BY <2>3, <1>4 DEF ElementsOf
  <2>5. QED
    BY <2>1, <2>2, <2>4
<1>11. Len(s) >= 1 => \E i \in 1..Len(q) : i <= 2 /\ q[i] = s[1]
  <2> SUFFICES ASSUME Len(s) >= 1
               PROVE  \E i \in 1..Len(q) : i <= 2 /\ q[i] = s[1]
    OBVIOUS
  <2>1. CASE p = 1
    BY <2>1, <1>1, <1>2, <1>3, <1>4
  <2>2. CASE p # 1
    <3>1. 2 \in 2..Len(q) /\ q[2] = s[1]
      BY <2>2, <1>1, <1>2, <1>3
    <3>2. QED
      BY <3>1, <1>4
  <2>3. QED
    BY <2>1, <2>2
<1>12. ASSUME Len(q) <= max
       PROVE  t = q /\ f = {}
  <2>1. ~(Len(q) > max) /\ (max + 1)..Len(q) = {}
    BY <1>4, <1>12
  <2>2. QED
    BY <2>1 DEF UsedOf, ForgottenOf, q
<1>13. ASSUME Len(q) > max
       PROVE  /\ t \in Seq(S) /\ Len(t) = max /\ DOMAIN t = 1..max
              /\ \A i \in 1..max : t[i] = q[i]
              /\ Len(q) = max + 1 /\ f = {q[max + 1]}
  <2>1. t = SubSeq(q, 1, max)
    BY <1>13 DEF UsedOf, q
  <2>2. Len(q) = max + 1
    <3> DEFINE n == Len(q)
    <3>1. n \in Nat /\ n <= max + 1 /\ n > max
      BY <1>4, <1>13
    <3> HIDE DEF n
    <3>2. n = max + 1
      BY <3>1
    <3>3. QED
      BY <3>2 DEF n
  <2>3. t \in Seq(S) /\ Len(t) = max /\ \A i \in 1..max : t[i] = q[i]
    BY <2>1, <2>2, <1>3, <1>4, Prefix
  <2>4. (max + 1)..Len(q) = {max + 1}
    BY <2>2
  <2>5. f = {q[max + 1]}
    BY <2>4 DEF ForgottenOf, q
  <2>6. QED
    BY <2>2, <2>3, <2>5, LenProperties
<1> HIDE DEF t, f
<1>14. CASE Len(q) <= max
  <2>1. Len(s) >= 1 => s[1] \in ElementsOf(q)
    BY <1>4, <1>11 DEF ElementsOf
  <2>2. QED
    BY <2>1, <1>3, <1>4, <1>9, <1>10, <1>12, <1>14 DEF t, f
<1>15. CASE Len(q) > max
  <2>1. NoRepeat(t) /\ t[1] = k /\ Len(t) \in 1..max
    <3>1. \A i \in 1..max : i \in 1..Len(q) /\ t[i] = q[i]
      BY <1>13, <1>15
    <3>2. Len(t) = max /\ 1 \in 1..max
      BY <1>13, <1>15
    <3>3. \A i, j \in 1..max : t[i] = t[j] => i = j
      BY <3>1, <1>9 DEF NoRepeat
    <3>4. NoRepeat(t)
      BY <3>2, <3>3 DEF NoRepeat
    <3>5. t[1] = k
      BY <3>1, <3>2, <1>3
    <3>6. QED
      BY <3>2, <3>4, <3>5, <1>4
  <2>2. q[max + 1] # k /\ max + 1 \in DOMAIN q
    BY <1>4, <1>8, <1>13, <1>15
  <2>3. q[max + 1] \in ElementsOf(s)
    BY <2>2, <1>10 DEF ElementsOf
  <2>4. ElementsOf(t) = ElementsOf(q) \ {q[max + 1]}
    <3>1. ASSUME NEW i \in 1..max
          PROVE  q[i] \in ElementsOf(q) /\ q[i] # q[max + 1]
      BY <1>4, <1>9, <1>13, <1>15 DEF ElementsOf, NoRepeat
    <3>2. ASSUME NEW i \in 1..Len(q), q[i] # q[max + 1]
          PROVE  q[i] \in ElementsOf(t)
      <4>1. i \in 1..max
        BY <3>2, <1>13, <1>15
      <4>2. QED
        BY <4>1, <1>13, <1>15 DEF ElementsOf
    <3>3. ElementsOf(t) = {q[i] : i \in 1..max}
      BY <1>13, <1>15 DEF ElementsOf
    <3>4. ElementsOf(q) = {q[i] : i \in 1..Len(q)}
      BY <1>4 DEF ElementsOf
    <3>5. QED
      BY <3>1, <3>2, <3>3, <3>4
  <2>5. Len(s) >= 1 => s[1] \in ElementsOf(t)
    <3>1. \A i \in 1..Len(q) : i <= 2 => i \in 1..max /\ q[i] = t[i]
      BY <1>13, <1>15
    <3>2. QED
      BY <3>1, <1>11, <1>13, <1>15 DEF ElementsOf
  <2>6. QED
    BY <2>1, <2>2, <2>3, <2>4, <2>5, <1>10, <1>13, <1>15 DEF t, f
<1>16. QED
  BY <1>4, <1>14, <1>15

-----------------------------------------------------------------------------
(* The cache of services, and the services offered.                        *)

\* The entry that a loop is at is typed, and its relation too.
LEMMA HeadTyped ==
    ASSUME TypeOK, StepsFit
    PROVE  /\ step \in InSteps =>
                /\ in.dest \in Name /\ in.request \in Request
                /\ InRelation \in Relation
           /\ step \in OutSteps =>
                OutRelation \in Relation /\ out.request \in Request
<1>1. \A s \in Seq(Entry) : s # <<>> => Head(s) \in Entry
  OBVIOUS
<1>2. ASSUME NEW e \in Entry
      PROVE  e.dest \in Name /\ <<e.source, e.dest>> \in Relation /\ e.request \in Request
  BY DEF Entry, Relation
<1>3. step \in InSteps => in \in Entry
  BY <1>1 DEF TypeOK, StepsFit, in
<1>4. step \in OutSteps => out \in Entry
  BY <1>1 DEF TypeOK, StepsFit, out
<1>5. QED
  BY <1>2, <1>3, <1>4 DEF InRelation, OutRelation

\* The cache of services does not mind steps outside the first loop.
LEMMA InFrameElsewhere ==
    ASSUME InCacheInv, UNCHANGED <<inLru, offered>>,
           \A n \in Name : n \in overlap' <=> n \in overlap,
           step \notin {"register"},
           step' \notin {"put", "register", "relation", "lookup", "link"}
    PROVE  InCacheInv'
<1>1. In!Remembered' = In!Remembered
  BY DEF In!Remembered
<1>2. \A n \in Name : Most(n)' = Most(n)
  BY DEF Most
<1>3. NoRepeat(inLru)'
  BY DEF InCacheInv, NoRepeat
<1>4. \A n \in Name : LET remembered == n \in In!Remembered' IN
        /\ offered'[n] <= Most(n)'
        /\ ~remembered => offered'[n] <= Most(n)' - 1
        /\ remembered => offered'[n] >= 1 \/ n \in overlap'
  BY <1>1, <1>2 DEF InCacheInv
<1>5. QED
  BY <1>3, <1>4 DEF InCacheInv

\* Nor what the other thread does with the rest of the state.
LEMMA InFrameInPlace ==
    ASSUME TypeOK, StepsFit, InCacheInv,
           UNCHANGED <<step, exist, accepted, callingInTraffic, inLru, offered>>,
           \A n \in Name : n \in overlap' <=> n \in overlap
    PROVE  InCacheInv'
<1>1. In!Remembered' = In!Remembered
  BY DEF In!Remembered
<1>2. \A n \in Name : Most(n)' = Most(n)
  BY DEF Most
<1>3. (in.dest)' = in.dest
  BY DEF in
<1>4. step \in InSteps => in.dest \in Name
  BY HeadTyped
<1>5. NoRepeat(inLru)'
  BY DEF InCacheInv, NoRepeat
<1>6. \A n \in Name : InPlace(n)' = InPlace(n) /\ InCleared(n)' = InCleared(n)
  BY DEF InPlace, InCleared
<1>7. QED
  BY <1>1, <1>2, <1>3, <1>4, <1>5, <1>6 DEF InCacheInv, InSteps

\* What using a key of the cache of services makes of it and of the history.
LEMMA InUse ==
    ASSUME TypeOK, InCacheInv, NEW k \in Id,
           In!Use(k), Forget(In!ForgottenBy(k))
    PROVE  LET f == In!ForgottenBy(k)
           IN  /\ inLru' \in Seq(Id) /\ Len(inLru') \in 1..MaxEntries
               /\ NoRepeat(inLru)' /\ inLru'[1] = k
               /\ k \notin f /\ f \subseteq In!Remembered
               /\ In!Remembered' = (In!Remembered \union {k}) \ f
               /\ Len(inLru) >= 1 => inLru[1] \in In!Remembered'
               /\ \A n \in Name : offered'[n] = IF n \in f THEN 0 ELSE offered[n]
               /\ \A n \in Name : n \in overlap' <=> n \in overlap /\ n \notin f
               /\ \A r \in Relation : r \in overlap' <=> r \in overlap
<1> DEFINE f == ForgottenOf(inLru, k, MaxEntries)
           t == UsedOf(inLru, k, MaxEntries)
<1>1. In!Used(k) = t /\ In!ForgottenBy(k) = f
  BY CachesAreLists
<1>2. inLru' = t
  BY <1>1 DEF In!Use
<1>3. /\ inLru \in Seq(Id) /\ Len(inLru) <= MaxEntries /\ NoRepeat(inLru)
      /\ MaxEntries \in Nat /\ MaxEntries >= 2
  BY AnalysisAssumption DEF TypeOK, InCacheInv
<1>4. /\ t \in Seq(Id) /\ Len(t) \in 1..MaxEntries /\ NoRepeat(t) /\ t[1] = k
      /\ k \notin f /\ f \subseteq ElementsOf(inLru)
      /\ ElementsOf(t) = (ElementsOf(inLru) \union {k}) \ f
      /\ Len(inLru) >= 1 => inLru[1] \in ElementsOf(t)
  BY <1>3, UseProperties
<1> HIDE DEF f, t
<1>5. In!Remembered = ElementsOf(inLru) /\ In!Remembered' = ElementsOf(t)
  BY <1>2 DEF In!Remembered, ElementsOf
<1>6. NoRepeat(inLru)'
  BY <1>2, <1>4 DEF NoRepeat
<1>7. \A n \in Name : offered'[n] = IF n \in f THEN 0 ELSE offered[n]
  BY <1>1 DEF Forget
<1>8. \A n \in Name : n \in overlap' <=> n \in overlap /\ n \notin f
  BY <1>1 DEF Forget
<1>9. \A r \in Relation : r \in overlap' <=> r \in overlap
  BY <1>1, AnalysisAssumption DEF Forget
<1>10. QED
  BY <1>1, <1>2, <1>4, <1>5, <1>6, <1>7, <1>8, <1>9

\* clear() leaves the cache of services in its invariant: what was in the works
\* is in overlap.
LEMMA InAfterClear ==
    ASSUME TypeOK, StepsFit, ClearIn
    PROVE  InCacheInv'
<1>1. In!Remembered' = {} /\ NoRepeat(inLru)' /\ inLru' = <<>>
  BY DEF ClearIn, In!Remembered, NoRepeat
<1>2. \A n \in Name : offered'[n] = 0
  BY DEF ClearIn
<1>3. (in.dest)' = in.dest /\ UNCHANGED <<step, exist, accepted>>
  BY DEF ClearIn, traffic, in
<1>4. step \in {"put", "register", "relation", "lookup", "link"} => in.dest \in overlap'
  BY DEF ClearIn, InWorks
<1>5. \A n \in Name : offered'[n] <= Most(n)' /\ offered'[n] <= Most(n)' - 1
  BY <1>2 DEF Most
<1>6. step = "register" => offered'[in.dest] = 0
  BY <1>2, HeadTyped DEF InSteps
<1>7. QED
  BY <1>1, <1>3, <1>4, <1>5, <1>6 DEF InCacheInv, InCleared

\* What using a relation makes of the cache of relations and of the history.
LEMMA OutUse ==
    ASSUME TypeOK, OutCacheInv, NEW k \in Relation, Out!Use(k)
    PROVE  LET f == Out!ForgottenBy(k)
           IN  /\ outLru' \in Seq(Relation) /\ Len(outLru') \in 1..MaxEntries
               /\ NoRepeat(outLru)' /\ outLru'[1] = k
               /\ k \notin f /\ f \subseteq Out!Remembered /\ f \subseteq Relation
               /\ Out!Remembered' = (Out!Remembered \union {k}) \ f
<1> DEFINE f == ForgottenOf(outLru, k, MaxEntries)
           t == UsedOf(outLru, k, MaxEntries)
<1>1. Out!Used(k) = t /\ Out!ForgottenBy(k) = f
  BY CachesAreLists
<1>2. outLru' = t
  BY <1>1 DEF Out!Use
<1>3. /\ outLru \in Seq(Relation) /\ Len(outLru) <= MaxEntries /\ NoRepeat(outLru)
      /\ MaxEntries \in Nat /\ MaxEntries >= 2
  BY AnalysisAssumption DEF TypeOK, OutCacheInv
<1>4. /\ t \in Seq(Relation) /\ Len(t) \in 1..MaxEntries /\ NoRepeat(t) /\ t[1] = k
      /\ k \notin f /\ f \subseteq ElementsOf(outLru)
      /\ ElementsOf(t) = (ElementsOf(outLru) \union {k}) \ f
  BY <1>3, UseProperties
<1> HIDE DEF f, t
<1>5. Out!Remembered = ElementsOf(outLru) /\ Out!Remembered' = ElementsOf(t)
  BY <1>2 DEF Out!Remembered, ElementsOf
<1>6. NoRepeat(outLru)'
  BY <1>2, <1>4 DEF NoRepeat
<1>7. ElementsOf(outLru) \subseteq Relation
  BY <1>3, LenProperties, ElementOfSeq DEF ElementsOf
<1>8. QED
  BY <1>1, <1>2, <1>4, <1>5, <1>6, <1>7

\* The service is put: unless clear() came between the lookup and the put, it
\* was not in the cache if it was not found there.
LEMMA InPutStep ==
    ASSUME TypeOK, StepsFit, InCacheInv, InPut
    PROVE  InCacheInv'
<1> DEFINE f == In!ForgottenBy(in.dest)
<1>1. /\ in.dest \in Name /\ in.dest \in Id
      /\ (in.dest)' = in.dest /\ exist' = exist /\ step = "put"
      /\ step' = IF exist THEN "relation" ELSE "register"
  BY HeadTyped DEF InPut, traffic, in, Id, InSteps
<1>2. /\ inLru' \in Seq(Id) /\ Len(inLru') \in 1..MaxEntries
      /\ NoRepeat(inLru)' /\ inLru'[1] = in.dest
      /\ in.dest \notin f
      /\ In!Remembered' = (In!Remembered \union {in.dest}) \ f
      /\ \A n \in Name : offered'[n] = IF n \in f THEN 0 ELSE offered[n]
      /\ \A n \in Name : n \in overlap' <=> n \in overlap /\ n \notin f
  BY <1>1, InUse DEF InPut
<1> HIDE DEF f
<1>3. /\ IF exist THEN in.dest \in In!Remembered \/ in.dest \in overlap
                  ELSE in.dest \notin In!Remembered
      /\ \A n \in Name :
           /\ offered[n] \in Nat /\ offered[n] <= Most(n)
           /\ n \notin In!Remembered => offered[n] <= Most(n) - 1
           /\ n \in In!Remembered => offered[n] >= 1 \/ n \in overlap
  BY <1>1 DEF InCacheInv, TypeOK
<1>4. \A n \in Name : IF n \in f THEN Most(n)' = 1 ELSE Most(n)' = Most(n)
  BY <1>2 DEF Most
<1>5. Most(in.dest) \in {1, 2} /\ \A n \in Name : Most(n) \in {1, 2}
  BY DEF Most
<1>6. ASSUME NEW n \in Name
      PROVE  /\ offered'[n] <= Most(n)'
             /\ n \notin In!Remembered' => offered'[n] <= Most(n)' - 1
  <2>1. CASE n \in f
    BY <2>1, <1>2, <1>4
  <2>2. CASE n \notin f
    <3>1. offered'[n] = offered[n] /\ Most(n)' = Most(n)
      BY <2>2, <1>2, <1>4
    <3>2. n \notin In!Remembered' => n \notin In!Remembered
      BY <2>2, <1>2
    <3>3. QED
      BY <3>1, <3>2, <1>3
  <2>3. QED
    BY <2>1, <2>2
<1>7. ASSUME NEW n \in Name, n \in In!Remembered'
      PROVE  \/ offered'[n] >= 1 \/ n \in overlap'
             \/ step' = "register" /\ n = in.dest
  BY <1>1, <1>2, <1>3, <1>7
<1>8. Len(inLru') >= 1 /\ inLru'[1] = in.dest
  BY <1>2
<1>9. step' = "register" => offered'[in.dest] <= Most(in.dest)' - 1
  BY <1>1, <1>2, <1>3, <1>4
<1>10. QED
  BY <1>1, <1>2, <1>6, <1>7, <1>8, <1>9 DEF InCacheInv, InPlace

\* A service is offered when it is in its place, or when clear() came since.
LEMMA InRegisterStep ==
    ASSUME TypeOK, StepsFit, InCacheInv, RegisterService
    PROVE  InCacheInv'
<1>1. /\ in.dest \in Name /\ (in.dest)' = in.dest
      /\ UNCHANGED <<inLru, overlap>>
      /\ step = "register" /\ step' = "relation"
      /\ offered' = [offered EXCEPT ![in.dest] = @ + 1]
  BY HeadTyped DEF RegisterService, traffic, in, InSteps
<1>2. /\ In!Remembered' = In!Remembered
      /\ \A n \in Name : Most(n)' = Most(n) /\ Most(n) \in {1, 2}
  BY <1>1 DEF In!Remembered, Most
<1>3. NoRepeat(inLru)'
  BY <1>1 DEF InCacheInv, NoRepeat
<1>4. \A n \in Name :
        /\ offered[n] \in Nat /\ offered[n] <= Most(n)
        /\ n \notin In!Remembered => offered[n] <= Most(n) - 1
        /\ n \in In!Remembered => \/ offered[n] >= 1 \/ n \in overlap
                                    \/ n = in.dest
  <2>1. \A n \in Name : offered[n] \in Nat
    BY DEF TypeOK
  <2>2. QED
    BY <2>1 DEF InCacheInv
<1>5. \/ InPlace(in.dest) /\ offered[in.dest] <= Most(in.dest) - 1
      \/ InCleared(in.dest) /\ offered[in.dest] = 0
  BY <1>1 DEF InCacheInv
<1>6. /\ InPlace(in.dest) => in.dest \in In!Remembered
      /\ InCleared(in.dest) => Most(in.dest) = 2
  <2>1. Len(inLru) \in Nat /\ DOMAIN inLru = 1..Len(inLru)
    BY LenProperties DEF TypeOK
  <2>2. QED
    BY <2>1 DEF InPlace, InCleared, In!Remembered, Most
<1>7. \/ Len(inLru') >= 1 /\ inLru'[1] = in.dest
      \/ inLru' = <<>> /\ in.dest \in overlap'
  BY <1>1, <1>5 DEF InPlace, InCleared
<1>8. ASSUME NEW n \in Name
      PROVE  offered'[n] = IF n = in.dest THEN offered[n] + 1 ELSE offered[n]
  BY <1>1 DEF TypeOK
<1>9. ASSUME NEW n \in Name
      PROVE  /\ offered'[n] <= Most(n)'
             /\ n \notin In!Remembered' => offered'[n] <= Most(n)' - 1
             /\ n \in In!Remembered' => offered'[n] >= 1 \/ n \in overlap'
  <2>1. CASE n = in.dest
    BY <2>1, <1>1, <1>2, <1>4, <1>5, <1>6, <1>8
  <2>2. CASE n # in.dest
    BY <2>2, <1>1, <1>2, <1>4, <1>8
  <2>3. QED
    BY <2>1, <2>2
<1>10. QED
  BY <1>1, <1>3, <1>7, <1>9 DEF InCacheInv, InPlace, InCleared

\* The relation is put after its service, which it does not drive out.
LEMMA InRelationStep ==
    ASSUME TypeOK, StepsFit, InCacheInv, InPutRelation
    PROVE  InCacheInv'
<1> DEFINE f == In!ForgottenBy(InRelation)
<1>1. /\ in.dest \in Name /\ (in.dest)' = in.dest
      /\ InRelation \in Relation /\ InRelation \in Id
      /\ step = "relation" /\ step' = "lookup"
  BY HeadTyped DEF InPutRelation, traffic, in, Id, InSteps
<1>2. /\ NoRepeat(inLru)'
      /\ f \subseteq In!Remembered
      /\ In!Remembered' = (In!Remembered \union {InRelation}) \ f
      /\ Len(inLru) >= 1 => inLru[1] \in In!Remembered'
      /\ \A n \in Name : offered'[n] = IF n \in f THEN 0 ELSE offered[n]
      /\ \A n \in Name : n \in overlap' <=> n \in overlap /\ n \notin f
  BY <1>1, InUse DEF InPutRelation
<1> HIDE DEF f
<1>3. \A n \in Name : n # InRelation
  BY <1>1, AnalysisAssumption
<1>4. \A n \in Name :
        /\ offered[n] \in Nat /\ offered[n] <= Most(n)
        /\ n \notin In!Remembered => offered[n] <= Most(n) - 1
        /\ n \in In!Remembered => offered[n] >= 1 \/ n \in overlap
  BY <1>1 DEF InCacheInv, TypeOK
<1>5. \A n \in Name : IF n \in f THEN Most(n)' = 1 ELSE Most(n)' = Most(n)
  BY <1>2 DEF Most
<1>6. ASSUME NEW n \in Name
      PROVE  /\ offered'[n] <= Most(n)'
             /\ n \notin In!Remembered' => offered'[n] <= Most(n)' - 1
             /\ n \in In!Remembered' => offered'[n] >= 1 \/ n \in overlap'
  <2>1. CASE n \in f
    BY <2>1, <1>2, <1>5
  <2>2. CASE n \notin f
    <3>1. offered'[n] = offered[n] /\ Most(n)' = Most(n)
      BY <2>2, <1>2, <1>5
    <3>2. n \notin In!Remembered' <=> n \notin In!Remembered
      BY <2>2, <1>2, <1>3
    <3>3. n \in overlap' <=> n \in overlap
      BY <2>2, <1>2
    <3>4. QED
      BY <3>1, <3>2, <3>3, <1>4
  <2>3. QED
    BY <2>1, <2>2
<1>7. in.dest \in In!Remembered' \/ in.dest \in overlap'
  <2>1. CASE InPlace(in.dest)
    BY <2>1, <1>2 DEF InPlace
  <2>2. CASE InCleared(in.dest)
    <3>1. In!Remembered = {}
      BY <2>2 DEF InCleared, In!Remembered
    <3>2. QED
      BY <3>1, <2>2, <1>1, <1>2 DEF InCleared
  <2>3. QED
    BY <2>1, <2>2, <1>1 DEF InCacheInv
<1>8. QED
  BY <1>1, <1>2, <1>6, <1>7 DEF InCacheInv

\* Looking a service or a relation up.
LEMMA InLookupSteps ==
    ASSUME TypeOK, StepsFit, InCacheInv,
           InLookup \/ InLookupRelation
    PROVE  InCacheInv'
<1>1. /\ UNCHANGED <<inLru, offered, overlap, accepted>> /\ (in.dest)' = in.dest
  BY DEF InLookup, InLookupRelation, traffic, in
<1>2. /\ In!Remembered' = In!Remembered /\ \A n \in Name : Most(n)' = Most(n)
      /\ NoRepeat(inLru)'
  BY <1>1 DEF In!Remembered, Most, InCacheInv, NoRepeat
<1>3. step # "register" /\ step' \in {"put", "stats", "link"}
  BY DEF InLookup, InLookupRelation
<1>4. \A n \in Name :
        /\ offered'[n] <= Most(n)'
        /\ n \notin In!Remembered' => offered'[n] <= Most(n)' - 1
        /\ n \in In!Remembered' => offered'[n] >= 1 \/ n \in overlap'
  BY <1>1, <1>2, <1>3 DEF InCacheInv
<1>5. step' = "put" => exist' = (in.dest \in In!Remembered)
  BY DEF InLookup, InLookupRelation
<1>6. step' = "link" => accepted' \/ in.dest \in overlap'
  <2>1. CASE InLookup
    BY <2>1 DEF InLookup
  <2>2. CASE InLookupRelation
    <3>1. /\ step = "lookup"
          /\ step' = "link" => accepted \/ in.dest \notin In!Remembered
      BY <2>2 DEF InLookupRelation
    <3>2. in.dest \in In!Remembered \/ in.dest \in overlap
      BY <3>1 DEF InCacheInv
    <3>3. QED
      BY <3>1, <3>2, <1>1
  <2>3. QED
    BY <2>1, <2>2
<1>7. QED
  BY <1>1, <1>2, <1>3, <1>4, <1>5, <1>6 DEF InCacheInv

\* Every step keeps the invariant of the cache of services.
LEMMA InCacheStep ==
    ASSUME TypeOK, QueueInv, InCacheInv, OutCacheInv,
           [Next]_vars
    PROVE  InCacheInv'
<1>1. StepsFit
  BY DEF QueueInv
<1>2. ASSUME Intercept \/ RegisterInRelation \/ InStats \/ OutStats \/ OutLookup
             \/ RegisterOutRelation
      PROVE  InCacheInv'
  <2>1. UNCHANGED <<inLru, offered, overlap>>
    BY <1>2 DEF Intercept, RegisterInRelation, InStats, OutStats, OutLookup,
       RegisterOutRelation
  <2>2. step # "register" /\ step' \notin {"put", "register", "relation", "lookup", "link"}
    BY <1>2 DEF Intercept, RegisterInRelation, InStats, OutStats, OutLookup,
       RegisterOutRelation
  <2>3. QED
    BY <2>1, <2>2, InFrameElsewhere
<1>3. ASSUME OutPut
      PROVE  InCacheInv'
  <2> DEFINE f == Out!ForgottenBy(OutRelation)
  <2>1. f \subseteq Relation
    BY <1>1, <1>3, HeadTyped, OutUse DEF OutPut, OutSteps
  <2>2. UNCHANGED <<inLru, offered>> /\ overlap' = overlap \ f
        /\ step = "outPut" /\ step' \in {"next", "outLink"}
    BY <1>3 DEF OutPut
  <2> HIDE DEF f
  <2>3. \A n \in Name : n \in overlap' <=> n \in overlap
    BY <2>1, <2>2, AnalysisAssumption
  <2>4. QED
    BY <2>2, <2>3, InFrameElsewhere
<1>4. ASSUME ClearOut \/ FlushMetric \/ Complete \/ UNCHANGED vars
      PROVE  InCacheInv'
  <2>1. UNCHANGED <<step, exist, accepted, callingInTraffic, inLru, offered>>
    BY <1>4 DEF ClearOut, FlushMetric, Complete, vars, traffic
  <2>2. \A n \in Name : n \in overlap' <=> n \in overlap
    <3>1. CASE ClearOut
      <4>1. OutWorks \subseteq Relation
        BY <1>1, HeadTyped DEF OutWorks, OutSteps
      <4>2. overlap' = (overlap \ Relation) \union OutWorks
        BY <3>1 DEF ClearOut
      <4>3. QED
        BY <4>1, <4>2, AnalysisAssumption
    <3>2. CASE ~ClearOut
      BY <1>4, <3>2 DEF FlushMetric, Complete, vars
    <3>3. QED
      BY <3>1, <3>2
  <2>3. QED
    BY <1>1, <2>1, <2>2, InFrameInPlace
<1>5. QED
  BY <1>1, <1>2, <1>3, <1>4, InPutStep, InRegisterStep, InRelationStep, InLookupSteps,
     InAfterClear DEF Next, Build

-----------------------------------------------------------------------------
(* The cache of relations, and the relations offered.                      *)

\* The cache of relations does not mind steps outside the second loop.
LEMMA OutFrameElsewhere ==
    ASSUME OutCacheInv, UNCHANGED <<outLru, linked>>,
           \A r \in Relation : r \in overlap' <=> r \in overlap,
           step' \notin {"outPut", "outLink"}
    PROVE  OutCacheInv'
<1>1. Out!Remembered' = Out!Remembered
  BY DEF Out!Remembered
<1>2. \A r \in Relation : Most(r)' = Most(r)
  BY DEF Most
<1>3. NoRepeat(outLru)'
  BY DEF OutCacheInv, NoRepeat
<1>4. \A r \in Relation :
        /\ linked'[r] <= Most(r)'
        /\ r \notin Out!Remembered' => linked'[r] <= Most(r)' - 1
  BY <1>1, <1>2 DEF OutCacheInv
<1>5. QED
  BY <1>3, <1>4 DEF OutCacheInv

\* Nor what the other thread does with the rest of the state.
LEMMA OutFrameInPlace ==
    ASSUME TypeOK, StepsFit, OutCacheInv,
           UNCHANGED <<step, exist, callingOutTraffic, outLru, linked>>,
           \A r \in Relation : r \in overlap' <=> r \in overlap
    PROVE  OutCacheInv'
<1>1. Out!Remembered' = Out!Remembered
  BY DEF Out!Remembered
<1>2. \A r \in Relation : Most(r)' = Most(r)
  BY DEF Most
<1>3. (OutRelation)' = OutRelation
  BY DEF OutRelation, out
<1>4. step \in OutSteps => OutRelation \in Relation
  BY HeadTyped
<1>5. NoRepeat(outLru)'
  BY DEF OutCacheInv, NoRepeat
<1>6. \A r \in Relation : OutPlace(r)' = OutPlace(r) /\ OutCleared(r)' = OutCleared(r)
  BY DEF OutPlace, OutCleared
<1>7. QED
  BY <1>1, <1>2, <1>3, <1>4, <1>5, <1>6 DEF OutCacheInv, OutSteps

\* A relation is put.
LEMMA OutPutStep ==
    ASSUME TypeOK, StepsFit, OutCacheInv, OutPut
    PROVE  OutCacheInv'
<1> DEFINE f == Out!ForgottenBy(OutRelation)
<1>1. /\ OutRelation \in Relation /\ step = "outPut"
      /\ IF exist THEN step' = "next"
                  ELSE step' = "outLink" /\ callingOutTraffic' = callingOutTraffic
      /\ linked' = [r \in Relation |-> IF r \in f THEN 0 ELSE linked[r]]
      /\ overlap' = overlap \ f
  BY HeadTyped DEF OutPut, OutSteps
<1>2. /\ outLru' \in Seq(Relation) /\ Len(outLru') \in 1..MaxEntries
      /\ NoRepeat(outLru)' /\ outLru'[1] = OutRelation
      /\ OutRelation \notin f
      /\ Out!Remembered' = (Out!Remembered \union {OutRelation}) \ f
  BY <1>1, OutUse DEF OutPut
<1> HIDE DEF f
<1>3. /\ ~exist => OutRelation \notin Out!Remembered
      /\ \A r \in Relation :
           /\ linked[r] \in Nat /\ linked[r] <= Most(r)
           /\ r \notin Out!Remembered => linked[r] <= Most(r) - 1
  BY <1>1 DEF OutCacheInv, TypeOK
<1>4. \A r \in Relation : IF r \in f THEN Most(r)' = 1 ELSE Most(r)' = Most(r)
  BY <1>1 DEF Most
<1>5. ASSUME NEW r \in Relation
      PROVE  /\ linked'[r] <= Most(r)'
             /\ r \notin Out!Remembered' => linked'[r] <= Most(r)' - 1
  <2>1. CASE r \in f
    BY <2>1, <1>1, <1>4
  <2>2. CASE r \notin f
    <3>1. linked'[r] = linked[r] /\ Most(r)' = Most(r)
      BY <2>2, <1>1, <1>4
    <3>2. r \notin Out!Remembered' => r \notin Out!Remembered
      BY <2>2, <1>2
    <3>3. QED
      BY <3>1, <3>2, <1>3
  <2>3. QED
    BY <2>1, <2>2
<1>6. ASSUME step' = "outLink"
      PROVE  /\ (OutRelation)' = OutRelation
             /\ Len(outLru') >= 1 /\ outLru'[1] = OutRelation
             /\ linked'[OutRelation] <= Most(OutRelation)' - 1
  <2>1. ~exist /\ callingOutTraffic' = callingOutTraffic
    BY <1>1, <1>6
  <2>2. (OutRelation)' = OutRelation
    BY <2>1 DEF OutRelation, out
  <2>3. QED
    BY <2>1, <2>2, <1>1, <1>2, <1>3, <1>4
<1>7. step' # "outPut"
  BY <1>1
<1>8. QED
  BY <1>2, <1>5, <1>6, <1>7 DEF OutCacheInv, OutPlace

\* A relation is offered when it is in its place, or when clear() came since.
LEMMA OutLinkStep ==
    ASSUME TypeOK, StepsFit, OutCacheInv, RegisterOutRelation
    PROVE  OutCacheInv'
<1>1. /\ OutRelation \in Relation /\ UNCHANGED <<outLru, overlap>>
      /\ step = "outLink" /\ step' = "next"
      /\ linked' = [linked EXCEPT ![OutRelation] = @ + 1]
  BY HeadTyped DEF RegisterOutRelation, OutSteps
<1>2. /\ Out!Remembered' = Out!Remembered /\ NoRepeat(outLru)'
      /\ \A r \in Relation : Most(r)' = Most(r) /\ Most(r) \in {1, 2}
  BY <1>1 DEF Out!Remembered, Most, NoRepeat, OutCacheInv
<1>3. \A r \in Relation :
        /\ linked[r] \in Nat /\ linked[r] <= Most(r)
        /\ r \notin Out!Remembered => linked[r] <= Most(r) - 1
  BY DEF OutCacheInv, TypeOK
<1>4. \/ OutPlace(OutRelation) /\ linked[OutRelation] <= Most(OutRelation) - 1
      \/ OutCleared(OutRelation) /\ linked[OutRelation] = 0
  BY <1>1 DEF OutCacheInv
<1>5. /\ OutPlace(OutRelation) => OutRelation \in Out!Remembered
      /\ OutCleared(OutRelation) => Most(OutRelation) = 2
  <2>1. Len(outLru) \in Nat /\ DOMAIN outLru = 1..Len(outLru)
    BY LenProperties DEF TypeOK
  <2>2. QED
    BY <2>1 DEF OutPlace, OutCleared, Out!Remembered, Most
<1>6. ASSUME NEW r \in Relation
      PROVE  linked'[r] = IF r = OutRelation THEN linked[r] + 1 ELSE linked[r]
  BY <1>1 DEF TypeOK
<1>7. ASSUME NEW r \in Relation
      PROVE  /\ linked'[r] <= Most(r)'
             /\ r \notin Out!Remembered' => linked'[r] <= Most(r)' - 1
  <2>1. CASE r = OutRelation
    BY <2>1, <1>1, <1>2, <1>3, <1>4, <1>5, <1>6
  <2>2. CASE r # OutRelation
    BY <2>2, <1>1, <1>2, <1>3, <1>6
  <2>3. QED
    BY <2>1, <2>2
<1>8. QED
  BY <1>1, <1>2, <1>7 DEF OutCacheInv

\* Every step keeps the invariant of the cache of relations.
LEMMA OutCacheStep ==
    ASSUME TypeOK, QueueInv, InCacheInv, OutCacheInv,
           [Next]_vars
    PROVE  OutCacheInv'
<1>1. StepsFit
  BY DEF QueueInv
<1>2. ASSUME Intercept \/ InLookup \/ RegisterService \/ InLookupRelation
             \/ RegisterInRelation \/ InStats \/ OutStats
      PROVE  OutCacheInv'
  <2>1. UNCHANGED <<outLru, linked, overlap>> /\ step' \notin {"outPut", "outLink"}
    BY <1>2 DEF Intercept, InLookup, RegisterService, InLookupRelation,
       RegisterInRelation, InStats, OutStats
  <2>2. QED
    BY <2>1, OutFrameElsewhere
<1>3. ASSUME InPut \/ InPutRelation
      PROVE  OutCacheInv'
  <2>1. UNCHANGED <<outLru, linked>> /\ step' \notin {"outPut", "outLink"}
    BY <1>3 DEF InPut, InPutRelation
  <2>2. \A r \in Relation : r \in overlap' <=> r \in overlap
    BY <1>3, AnalysisAssumption DEF InPut, InPutRelation, Forget
  <2>3. QED
    BY <2>1, <2>2, OutFrameElsewhere
<1>4. ASSUME OutLookup
      PROVE  OutCacheInv'
  <2>1. /\ UNCHANGED <<outLru, linked, overlap, callingOutTraffic>> /\ step' = "outPut"
        /\ exist' = (OutRelation \in Out!Remembered)
    BY <1>4 DEF OutLookup, traffic
  <2>2. /\ Out!Remembered' = Out!Remembered /\ NoRepeat(outLru)'
        /\ (OutRelation)' = OutRelation
        /\ \A r \in Relation : Most(r)' = Most(r)
    BY <2>1 DEF Out!Remembered, Most, NoRepeat, OutCacheInv, OutRelation, out
  <2>3. \A r \in Relation :
          /\ linked'[r] <= Most(r)'
          /\ r \notin Out!Remembered' => linked'[r] <= Most(r)' - 1
    BY <2>1, <2>2 DEF OutCacheInv
  <2>4. QED
    BY <2>1, <2>2, <2>3 DEF OutCacheInv
<1>5. ASSUME ClearIn \/ FlushMetric \/ Complete \/ UNCHANGED vars
      PROVE  OutCacheInv'
  <2>1. UNCHANGED <<step, exist, callingOutTraffic, outLru, linked>>
    BY <1>5 DEF ClearIn, FlushMetric, Complete, vars, traffic
  <2>2. \A r \in Relation : r \in overlap' <=> r \in overlap
    <3>1. CASE ClearIn
      <4>1. InWorks \subseteq Name
        BY <1>1, HeadTyped DEF InWorks, InSteps
      <4>2. overlap' = (overlap \ Name) \union InWorks
        BY <3>1 DEF ClearIn
      <4>3. QED
        BY <4>1, <4>2, AnalysisAssumption
    <3>2. CASE ~ClearIn
      BY <1>5, <3>2 DEF FlushMetric, Complete, vars
    <3>3. QED
      BY <3>1, <3>2
  <2>3. QED
    BY <1>1, <2>1, <2>2, OutFrameInPlace
<1>6. ASSUME ClearOut
      PROVE  OutCacheInv'
  <2>1. Out!Remembered' = {} /\ NoRepeat(outLru)' /\ outLru' = <<>>
    BY <1>6 DEF ClearOut, Out!Remembered, NoRepeat
  <2>2. \A r \in Relation : linked'[r] = 0
    BY <1>6 DEF ClearOut
  <2>3. (OutRelation)' = OutRelation /\ UNCHANGED <<step, exist>>
    BY <1>6 DEF ClearOut, traffic, OutRelation, out
  <2>4. step \in {"outPut", "outLink"} => OutRelation \in overlap'
    BY <1>6 DEF ClearOut, OutWorks
  <2>5. \A r \in Relation : linked'[r] <= Most(r)' /\ linked'[r] <= Most(r)' - 1
    BY <2>2 DEF Most
  <2>6. step = "outLink" => linked'[OutRelation] = 0
    BY <1>1, <2>2, HeadTyped DEF OutSteps
  <2>7. QED
    BY <2>1, <2>3, <2>4, <2>5, <2>6 DEF OutCacheInv, OutCleared
<1>7. QED
  BY <1>1, <1>2, <1>3, <1>4, <1>5, <1>6, OutPutStep, OutLinkStep DEF Next, Build

\* What the registry makes of names is a name.
LEMMA NamesFound ==
    ASSUME NEW n \in Name, NEW i \in Name
    PROVE  KubernetesName(n, i) \in Name /\ Registry[KubernetesName(n, NoName)] = Null
BY AnalysisAssumption DEF KubernetesName

-----------------------------------------------------------------------------
(* The queues of entries, and what was counted.                            *)

\* A request has one server span and one client span.
LEMMA OneSpan ==
    ASSUME NEW s \in Span, NEW t \in Span,
           s.kind = t.kind, s.kind # "internal", s.request = t.request
    PROVE  s = t
BY AnalysisAssumption

\* The spans of a batch are pending ones of one kind, no span twice.
LEMMA BatchesTyped ==
    ASSUME TypeOK, NEW kind, NEW b \in Batches(kind)
    PROVE  /\ b \in Seq(pending) /\ DOMAIN b = 1..Len(b) /\ Len(b) \in Nat
           /\ \A i \in 1..Len(b) : b[i] \in pending /\ b[i].kind = kind
           /\ \A i, j \in 1..Len(b) : b[i] = b[j] => i = j
<1> DEFINE spans == {s \in pending : s.kind = kind}
<1>1. PICK n \in 0..BatchSize : b \in [1..n -> spans]
  BY DEF Batches
<1>2. n \in Nat
  BY AnalysisAssumption
<1>3. b \in [1..n -> pending]
  BY <1>1
<1>4. b \in Seq(pending) /\ Len(b) = n /\ DOMAIN b = 1..n
  BY <1>2, <1>3
<1>5. \A i, j \in DOMAIN b : b[i] = b[j] => i = j
  BY DEF Batches
<1>6. QED
  BY <1>1, <1>2, <1>4, <1>5

\* A queue that is parsed from a batch holds one entry of each of its requests.
LEMMA ServersParsed ==
    ASSUME TypeOK, NEW b \in Batches("server"),
           callingInTraffic' = [i \in DOMAIN b |-> ParseEntry(b[i])]
    PROVE  /\ callingInTraffic' \in Seq(Entry) /\ Len(callingInTraffic') = Len(b)
           /\ \A i \in 1..Len(b) : /\ callingInTraffic'[i] = ParseEntry(b[i])
                                   /\ callingInTraffic'[i].request = b[i].request
           /\ Distinct(callingInTraffic)'
<1>1. /\ DOMAIN b = 1..Len(b) /\ Len(b) \in Nat
      /\ \A i \in 1..Len(b) : b[i] \in Span /\ b[i].kind = "server"
      /\ \A i, j \in 1..Len(b) : b[i] = b[j] => i = j
  BY BatchesTyped DEF TypeOK
<1>2. ASSUME NEW i \in 1..Len(b)
      PROVE  ParseEntry(b[i]) \in Entry
  <2>1. b[i] \in SpanRecord /\ b[i].kind = "server"
    BY <1>1, AnalysisAssumption
  <2>2. /\ b[i].request \in Request /\ b[i].service \in Name /\ b[i].ip \in Name
        /\ b[i].parent \in Name /\ b[i].parentIp \in Name
    BY <2>1 DEF SpanRecord
  <2>3. QED
    BY <2>2, NamesFound DEF ParseEntry, Entry
<1>3. callingInTraffic' = [i \in 1..Len(b) |-> ParseEntry(b[i])]
  BY <1>1
<1>4. callingInTraffic' \in Seq(Entry) /\ Len(callingInTraffic') = Len(b)
  <2>1. callingInTraffic' \in [1..Len(b) -> Entry]
    BY <1>2, <1>3
  <2>2. QED
    BY <1>1, <2>1
<1>5. \A i \in 1..Len(b) : /\ callingInTraffic'[i] = ParseEntry(b[i])
                           /\ callingInTraffic'[i].request = b[i].request
  BY <1>3 DEF ParseEntry
<1>6. ASSUME NEW i \in 1..Len(b), NEW j \in 1..Len(b), b[i].request = b[j].request
      PROVE  i = j
  BY <1>1, <1>6, OneSpan
<1>7. QED
  BY <1>4, <1>5, <1>6 DEF Distinct

\* The same for client spans.
LEMMA ClientsParsed ==
    ASSUME TypeOK, NEW b \in Batches("client"),
           callingOutTraffic' = [i \in DOMAIN b |-> ParseExit(b[i])]
    PROVE  /\ callingOutTraffic' \in Seq(Entry) /\ Len(callingOutTraffic') = Len(b)
           /\ \A i \in 1..Len(b) : /\ callingOutTraffic'[i] = ParseExit(b[i])
                                   /\ callingOutTraffic'[i].request = b[i].request
           /\ Distinct(callingOutTraffic)'
<1>1. /\ DOMAIN b = 1..Len(b) /\ Len(b) \in Nat
      /\ \A i \in 1..Len(b) : b[i] \in Span /\ b[i].kind = "client"
      /\ \A i, j \in 1..Len(b) : b[i] = b[j] => i = j
  BY BatchesTyped DEF TypeOK
<1>2. ASSUME NEW i \in 1..Len(b)
      PROVE  ParseExit(b[i]) \in Entry
  <2>1. b[i] \in SpanRecord /\ b[i].kind = "client" /\ NoName \in Name
    BY <1>1, AnalysisAssumption
  <2>2. /\ b[i].request \in Request /\ b[i].service \in Name /\ b[i].ip \in Name
        /\ b[i].peer \in Name
    BY <2>1 DEF SpanRecord
  <2>3. QED
    BY <2>1, <2>2, NamesFound DEF ParseExit, Entry, Virtual
<1>3. callingOutTraffic' = [i \in 1..Len(b) |-> ParseExit(b[i])]
  BY <1>1
<1>4. callingOutTraffic' \in Seq(Entry) /\ Len(callingOutTraffic') = Len(b)
  <2>1. callingOutTraffic' \in [1..Len(b) -> Entry]
    BY <1>2, <1>3
  <2>2. QED
    BY <1>1, <2>1
<1>5. \A i \in 1..Len(b) : /\ callingOutTraffic'[i] = ParseExit(b[i])
                           /\ callingOutTraffic'[i].request = b[i].request
  BY <1>3 DEF ParseExit
<1>6. ASSUME NEW i \in 1..Len(b), NEW j \in 1..Len(b), b[i].request = b[j].request
      PROVE  i = j
  BY <1>1, <1>6, OneSpan
<1>7. QED
  BY <1>4, <1>5, <1>6 DEF Distinct

\* The first entry of a queue goes: the others move up.
LEMMA TailOfQueue ==
    ASSUME NEW S, NEW s \in Seq(S), s # <<>>
    PROVE  /\ Tail(s) \in Seq(S) /\ Len(Tail(s)) = Len(s) - 1 /\ Len(s) \in Nat \ {0}
           /\ \A i \in 1..(Len(s) - 1) : Tail(s)[i] = s[i + 1]
           /\ Head(s) = s[1]
  OBVIOUS

\* A batch is slots when there are no entries left.
LEMMA QueueIntercept ==
    ASSUME TypeOK, QueueInv, Intercept
    PROVE  QueueInv'
<1>1. PICK servers \in Batches("server"), clients \in Batches("client"),
           locals \in Batches("internal") :
        /\ pending' = pending \ (EntriesOf(servers) \union EntriesOf(clients)
                                    \union EntriesOf(locals))
        /\ callingInTraffic' = [i \in DOMAIN servers |-> ParseEntry(servers[i])]
        /\ callingOutTraffic' = [i \in DOMAIN clients |-> ParseExit(clients[i])]
  BY DEF Intercept
<1>2. \A i \in 1..Len(servers) :
        /\ servers[i] \in Span \ pending' /\ servers[i].kind = "server"
  <2>1. DOMAIN servers = 1..Len(servers)
        /\ \A i \in 1..Len(servers) : servers[i] \in pending /\ servers[i].kind = "server"
    BY BatchesTyped
  <2>2. QED
    BY <2>1, <1>1 DEF EntriesOf, TypeOK
<1>3. \A i \in 1..Len(clients) :
        /\ clients[i] \in Span \ pending' /\ clients[i].kind = "client"
  <2>1. DOMAIN clients = 1..Len(clients)
        /\ \A i \in 1..Len(clients) : clients[i] \in pending /\ clients[i].kind = "client"
    BY BatchesTyped
  <2>2. QED
    BY <2>1, <1>1 DEF EntriesOf, TypeOK
<1>4. /\ Len(callingInTraffic') = Len(servers)
      /\ \A i \in 1..Len(servers) : callingInTraffic'[i] = ParseEntry(servers[i])
      /\ Distinct(callingInTraffic)'
  BY <1>1, ServersParsed
<1>5. /\ Len(callingOutTraffic') = Len(clients)
      /\ \A i \in 1..Len(clients) : callingOutTraffic'[i] = ParseExit(clients[i])
      /\ Distinct(callingOutTraffic)'
  BY <1>1, ClientsParsed
<1>6. FromSpans'
  BY <1>2, <1>3, <1>4, <1>5 DEF FromSpans
<1>7. StepsFit'
  BY DEF Intercept, StepsFit, InSteps, OutSteps
<1>8. QED
  BY <1>4, <1>5, <1>6, <1>7 DEF QueueInv

\* Every step keeps the queues in order.
LEMMA QueueStep ==
    ASSUME TypeOK, QueueInv, [Next]_vars
    PROVE  QueueInv'
<1>1. ASSUME InLookup \/ InPut \/ RegisterService \/ InPutRelation
             \/ InLookupRelation \/ RegisterInRelation \/ OutStats \/ OutLookup
             \/ ClearIn \/ ClearOut \/ FlushMetric \/ Complete \/ UNCHANGED vars
      PROVE  QueueInv'
  <2>1. UNCHANGED <<pending, callingInTraffic, callingOutTraffic>>
    BY <1>1 DEF InLookup, InPut, RegisterService, InPutRelation,
       InLookupRelation, RegisterInRelation, OutStats, OutLookup,
       ClearIn, ClearOut, FlushMetric, Complete, vars, traffic
  <2>2. StepsFit'
    <3>1. /\ step' \in InSteps => callingInTraffic # <<>>
          /\ step' \in OutSteps => callingInTraffic = <<>> /\ callingOutTraffic # <<>>
      BY <1>1 DEF QueueInv, StepsFit, InSteps, OutSteps, InLookup, InPut,
         RegisterService, InPutRelation, InLookupRelation, RegisterInRelation,
         OutStats, OutLookup, ClearIn, ClearOut, FlushMetric,
         Complete, vars
    <3>2. QED
      BY <2>1, <3>1 DEF StepsFit
  <2>3. QED
    BY <2>1, <2>2 DEF QueueInv, FromSpans, Distinct
<1>2. ASSUME InStats
      PROVE  QueueInv'
  <2> DEFINE q == callingInTraffic
  <2>1. /\ q \in Seq(Entry) /\ q # <<>>
        /\ q' = Tail(q) /\ UNCHANGED <<pending, callingOutTraffic>> /\ step' = "next"
    BY <1>2 DEF InStats, QueueInv, StepsFit, InSteps, TypeOK
  <2>2. /\ Len(q') = Len(q) - 1 /\ Len(q) \in Nat
        /\ \A i \in 1..(Len(q) - 1) : q'[i] = q[i + 1] /\ i + 1 \in 1..Len(q)
    BY <2>1, TailOfQueue
  <2>3. FromSpans'
    <3>1. ASSUME NEW i \in 1..Len(q')
          PROVE  \E s \in Span \ pending : s.kind = "server" /\ q'[i] = ParseEntry(s)
      BY <2>2 DEF QueueInv, FromSpans
    <3>2. QED
      BY <2>1, <3>1 DEF QueueInv, FromSpans
  <2>4. Distinct(callingInTraffic)'
    <3>1. ASSUME NEW i \in 1..Len(q'), NEW j \in 1..Len(q'), q'[i].request = q'[j].request
          PROVE  i = j
      <4>1. i + 1 \in 1..Len(q) /\ j + 1 \in 1..Len(q)
            /\ q[i + 1].request = q[j + 1].request
        BY <2>2, <3>1
      <4>2. i + 1 = j + 1
        BY <4>1 DEF QueueInv, Distinct
      <4>3. QED
        BY <4>2, <2>2
    <3>2. QED
      BY <3>1 DEF Distinct
  <2>5. StepsFit' /\ Distinct(callingOutTraffic)'
    BY <2>1 DEF StepsFit, InSteps, OutSteps, QueueInv, Distinct
  <2>6. QED
    BY <2>3, <2>4, <2>5 DEF QueueInv
<1>3. ASSUME OutPut \/ RegisterOutRelation
      PROVE  QueueInv'
  <2> DEFINE q == callingOutTraffic
  <2>1. /\ q \in Seq(Entry) /\ q # <<>> /\ callingInTraffic = <<>>
        /\ UNCHANGED <<pending, callingInTraffic>>
        /\ \/ q' = Tail(q) /\ step' = "next"
           \/ q' = q /\ step' = "outLink"
    BY <1>3 DEF OutPut, RegisterOutRelation, QueueInv, StepsFit, OutSteps, TypeOK
  <2>2. CASE q' = q /\ step' = "outLink"
    <3>1. StepsFit'
      BY <2>1, <2>2 DEF StepsFit, InSteps, OutSteps
    <3>2. QED
      BY <2>1, <2>2, <3>1 DEF QueueInv, FromSpans, Distinct
  <2>3. CASE q' = Tail(q) /\ step' = "next"
    <3>1. /\ Len(q') = Len(q) - 1 /\ Len(q) \in Nat
          /\ \A i \in 1..(Len(q) - 1) : q'[i] = q[i + 1] /\ i + 1 \in 1..Len(q)
      BY <2>1, <2>3, TailOfQueue
    <3>2. FromSpans'
      <4>1. ASSUME NEW i \in 1..Len(q')
            PROVE  \E s \in Span \ pending : s.kind = "client" /\ q'[i] = ParseExit(s)
        BY <3>1 DEF QueueInv, FromSpans
      <4>2. QED
        BY <2>1, <4>1 DEF QueueInv, FromSpans
    <3>3. Distinct(callingOutTraffic)'
      <4>1. ASSUME NEW i \in 1..Len(q'), NEW j \in 1..Len(q'),
                   q'[i].request = q'[j].request
            PROVE  i = j
        <5>1. i + 1 \in 1..Len(q) /\ j + 1 \in 1..Len(q)
              /\ q[i + 1].request = q[j + 1].request
          BY <3>1, <4>1
        <5>2. i + 1 = j + 1
          BY <5>1 DEF QueueInv, Distinct
        <5>3. QED
          BY <5>2, <3>1
      <4>2. QED
        BY <4>1 DEF Distinct
    <3>4. StepsFit' /\ Distinct(callingInTraffic)'
      BY <2>1, <2>3 DEF StepsFit, InSteps, OutSteps, QueueInv, Distinct
    <3>5. QED
      BY <3>2, <3>3, <3>4 DEF QueueInv
  <2>4. QED
    BY <2>1, <2>2, <2>3
<1>4. QED
  BY <1>1, <1>2, <1>3, QueueIntercept DEF Next, Build

\* An exit is counted whenever it is analysed: the registry does not know the
\* name that it gave to the peer, or left it.
LEMMA ExitsCounted ==
    ASSUME QueueInv, callingOutTraffic # <<>>, TypeOK
    PROVE  CountedAtExit
<1>1. callingOutTraffic \in Seq(Entry)
  BY DEF TypeOK
<1>2. 1 \in 1..Len(callingOutTraffic) /\ out = callingOutTraffic[1]
  BY <1>1, TailOfQueue DEF out
<1>3. PICK s \in Span : s.kind = "client" /\ out = ParseExit(s)
  BY <1>2 DEF QueueInv, FromSpans
<1>4. s.peer \in Name
  BY <1>3, AnalysisAssumption DEF SpanRecord
<1>5. out.dest = KubernetesName(s.peer, NoName)
  BY <1>3 DEF ParseExit
<1>6. Registry[out.dest] = Null
  BY <1>4, <1>5, NamesFound, AnalysisAssumption
<1>7. QED
  BY <1>6 DEF CountedAtExit

\* The count does not mind steps that leave the queues alone.
LEMMA CountFrame ==
    ASSUME CountedExactly, UNCHANGED <<pending, callingInTraffic, callingOutTraffic, counted>>,
           step' \in OutSteps <=> step \in OutSteps
    PROVE  CountedExactly'
<1>1. \A r \in Request : Served(r)' = Served(r) /\ Called(r)' = Called(r)
  BY DEF Served, Called
<1>2. QED
  BY <1>1 DEF CountedExactly

\* What was counted is what was parsed and has left its queue: a batch that is
\* parsed does not change it.
LEMMA CountIntercept ==
    ASSUME TypeOK, QueueInv, CountedExactly, Intercept
    PROVE  CountedExactly'
<1>1. PICK servers \in Batches("server"), clients \in Batches("client"),
           locals \in Batches("internal") :
        /\ pending' = pending \ (EntriesOf(servers) \union EntriesOf(clients)
                                    \union EntriesOf(locals))
        /\ callingInTraffic' = [i \in DOMAIN servers |-> ParseEntry(servers[i])]
        /\ callingOutTraffic' = [i \in DOMAIN clients |-> ParseExit(clients[i])]
  BY DEF Intercept
<1>2. /\ callingInTraffic = <<>> /\ callingOutTraffic = <<>> /\ counted' = counted
      /\ step = "next" /\ step' = "next"
  BY DEF Intercept
<1>3. /\ DOMAIN servers = 1..Len(servers) /\ DOMAIN clients = 1..Len(clients)
      /\ DOMAIN locals = 1..Len(locals)
      /\ \A i \in 1..Len(servers) : servers[i] \in pending /\ servers[i].kind = "server"
      /\ \A i \in 1..Len(clients) : clients[i] \in pending /\ clients[i].kind = "client"
      /\ \A i \in 1..Len(locals) : locals[i] \in pending /\ locals[i].kind = "internal"
  BY BatchesTyped
<1>4. \A s \in pending : s.kind = "server" =>
        (s \notin pending' <=> \E i \in 1..Len(servers) : s = servers[i])
  BY <1>1, <1>3 DEF EntriesOf
<1>5. \A s \in pending : s.kind = "client" =>
        (s \notin pending' <=> \E i \in 1..Len(clients) : s = clients[i])
  BY <1>1, <1>3 DEF EntriesOf
<1>6. /\ Len(callingInTraffic') = Len(servers)
      /\ \A i \in 1..Len(servers) : callingInTraffic'[i].request = servers[i].request
  BY <1>1, ServersParsed
<1>7. /\ Len(callingOutTraffic') = Len(clients)
      /\ \A i \in 1..Len(clients) : callingOutTraffic'[i].request = clients[i].request
  BY <1>1, ClientsParsed
<1>8. pending' \subseteq pending /\ pending \subseteq Span
  BY <1>1 DEF TypeOK
<1>9. ASSUME NEW r \in Request
      PROVE  Served(r)' = Served(r)
  <2>1. Served(r) <=> \E s \in Span \ pending : s.kind = "server" /\ s.request = r
    BY <1>2 DEF Served
  <2>2. ASSUME NEW s \in Span \ pending, s.kind = "server", s.request = r
        PROVE  Served(r)'
    <3>1. \A i \in 1..Len(servers) : servers[i].request # r
      BY <1>3, <1>8, <2>2, OneSpan
    <3>2. s \in Span \ pending'
      BY <1>8
    <3>3. QED
      BY <3>1, <3>2, <2>2, <1>6 DEF Served
  <2>3. ASSUME Served(r)'
        PROVE  \E s \in Span \ pending : s.kind = "server" /\ s.request = r
    <3>1. PICK s \in Span \ pending' : s.kind = "server" /\ s.request = r
      BY <2>3 DEF Served
    <3>2. \A i \in 1..Len(servers) : servers[i].request # r
      BY <2>3, <1>6 DEF Served
    <3>3. s \notin pending
      BY <3>1, <3>2, <1>4
    <3>4. QED
      BY <3>1, <3>3
  <2>4. QED
    BY <2>1, <2>2, <2>3 DEF Served
<1>10. ASSUME NEW r \in Request
       PROVE  Called(r)' = Called(r)
  <2>1. Called(r) <=> \E s \in Span \ pending : s.kind = "client" /\ s.request = r
    BY <1>2 DEF Called
  <2>2. ASSUME NEW s \in Span \ pending, s.kind = "client", s.request = r
        PROVE  Called(r)'
    <3>1. \A i \in 1..Len(clients) : clients[i].request # r
      BY <1>3, <1>8, <2>2, OneSpan
    <3>2. s \in Span \ pending'
      BY <1>8
    <3>3. QED
      BY <3>1, <3>2, <2>2, <1>7 DEF Called
  <2>3. ASSUME Called(r)'
        PROVE  \E s \in Span \ pending : s.kind = "client" /\ s.request = r
    <3>1. PICK s \in Span \ pending' : s.kind = "client" /\ s.request = r
      BY <2>3 DEF Called
    <3>2. \A i \in 1..Len(clients) : clients[i].request # r
      BY <2>3, <1>2, <1>7 DEF Called, OutSteps
    <3>3. s \notin pending
      BY <3>1, <3>2, <1>5
    <3>4. QED
      BY <3>1, <3>3
  <2>4. QED
    BY <2>1, <2>2, <2>3 DEF Called
<1>11. QED
  BY <1>2, <1>9, <1>10 DEF CountedExactly

\* An entry of a server span is counted as it leaves its queue.
LEMMA CountInStats ==
    ASSUME TypeOK, QueueInv, CountedExactly, InStats
    PROVE  CountedExactly'
<1> DEFINE q == callingInTraffic
<1>1. /\ q \in Seq(Entry) /\ q # <<>> /\ q' = Tail(q)
      /\ UNCHANGED <<pending, callingOutTraffic>>
      /\ counted' = [counted EXCEPT ![in.request] = @ + 1]
      /\ step \notin OutSteps /\ step' \notin OutSteps
      /\ in.request \in Request
  BY HeadTyped DEF InStats, QueueInv, StepsFit, InSteps, OutSteps, TypeOK
<1>2. /\ in = q[1] /\ Len(q') = Len(q) - 1 /\ Len(q) \in Nat \ {0}
      /\ \A i \in 1..(Len(q) - 1) : q'[i] = q[i + 1] /\ i + 1 \in 1..Len(q)
  BY <1>1, TailOfQueue DEF in
<1>3. \A i \in 1..Len(q) : q[i].request = in.request => i = 1
  BY <1>2 DEF QueueInv, Distinct
<1>4. \A r \in Request : Called(r)' = Called(r)
  BY <1>1 DEF Called
<1>5. ~Served(in.request)
  BY <1>2 DEF Served
<1>6. ASSUME NEW r \in Request, r = in.request
      PROVE  Served(r)'
  <2>1. \E s \in Span \ pending : s.kind = "server" /\ in = ParseEntry(s)
    BY <1>2 DEF QueueInv, FromSpans
  <2>2. \E s \in Span \ pending : s.kind = "server" /\ s.request = in.request
    BY <2>1 DEF ParseEntry
  <2>3. \A i \in 1..Len(q') : q'[i].request # r
    BY <1>2, <1>3, <1>6
  <2>4. QED
    BY <2>2, <2>3, <1>1, <1>6 DEF Served
<1>7. ASSUME NEW r \in Request, r # in.request
      PROVE  Served(r)' = Served(r)
  <2>1. (\A i \in 1..Len(q') : q'[i].request # r) <=> (\A i \in 1..Len(q) : q[i].request # r)
    <3>1. ASSUME NEW i \in 1..Len(q), q[i].request = r
          PROVE  \E j \in 1..Len(q') : q'[j].request = r
      <4>1. i - 1 \in 1..Len(q') /\ q'[i - 1] = q[i]
        BY <3>1, <1>2, <1>7
      <4>2. QED
        BY <3>1, <4>1
    <3>2. QED
      BY <3>1, <1>2
  <2>2. QED
    BY <2>1, <1>1 DEF Served
<1>8. ASSUME NEW r \in Request
      PROVE  counted'[r] = IF r = in.request THEN counted[r] + 1 ELSE counted[r]
  BY <1>1 DEF TypeOK
<1>9. ASSUME NEW r \in Request
      PROVE  counted'[r] = (IF Served(r)' THEN 1 ELSE 0) + (IF Called(r)' THEN 1 ELSE 0)
  <2>1. CASE r = in.request
    <3>1. counted[r] = 0 + (IF Called(r) THEN 1 ELSE 0)
      BY <2>1, <1>5 DEF CountedExactly
    <3>2. QED
      BY <3>1, <2>1, <1>4, <1>6, <1>8
  <2>2. CASE r # in.request
    BY <2>2, <1>4, <1>7, <1>8 DEF CountedExactly
  <2>3. QED
    BY <2>1, <2>2
<1>10. QED
  BY <1>9 DEF CountedExactly

\* An entry of a client span is counted when its analysis begins.
LEMMA CountOutStats ==
    ASSUME TypeOK, QueueInv, CountedExactly, OutStats
    PROVE  CountedExactly'
<1> DEFINE q == callingOutTraffic
<1>1. /\ q \in Seq(Entry) /\ q # <<>> /\ q' = q
      /\ UNCHANGED <<pending, callingInTraffic>>
      /\ step \notin OutSteps /\ step' \in OutSteps
  BY DEF OutStats, traffic, OutSteps, TypeOK
<1>2. counted' = [counted EXCEPT ![out.request] = @ + 1]
  BY <1>1, ExitsCounted DEF OutStats
<1>3. out = q[1] /\ 1 \in 1..Len(q)
  BY <1>1, TailOfQueue DEF out
<1>4. out.request \in Request
  <2>1. q[1] \in Entry
    BY <1>1, <1>3, ElementOfSeq
  <2>2. QED
    BY <2>1, <1>3 DEF Entry
<1>5. \A i \in 1..Len(q) : q[i].request = out.request => i = 1
  BY <1>3 DEF QueueInv, Distinct
<1>6. \A r \in Request : Served(r)' = Served(r)
  BY <1>1 DEF Served
<1>7. ~Called(out.request)
  BY <1>1, <1>3 DEF Called
<1>8. ASSUME NEW r \in Request, r = out.request
      PROVE  Called(r)'
  <2>1. \E s \in Span \ pending : s.kind = "client" /\ out = ParseExit(s)
    BY <1>3 DEF QueueInv, FromSpans
  <2>2. \E s \in Span \ pending : s.kind = "client" /\ s.request = out.request
    BY <2>1 DEF ParseExit
  <2>3. QED
    BY <2>2, <1>1, <1>5, <1>8 DEF Called
<1>9. ASSUME NEW r \in Request, r # out.request
      PROVE  Called(r)' = Called(r)
  <2>1. \A i \in 1..Len(q) : q[i].request = r => i # 1
    BY <1>3, <1>9
  <2>2. QED
    BY <2>1, <1>1 DEF Called
<1>10. ASSUME NEW r \in Request
       PROVE  counted'[r] = IF r = out.request THEN counted[r] + 1 ELSE counted[r]
  BY <1>2, <1>4 DEF TypeOK
<1>11. ASSUME NEW r \in Request
       PROVE  counted'[r] = (IF Served(r)' THEN 1 ELSE 0) + (IF Called(r)' THEN 1 ELSE 0)
  <2>1. CASE r = out.request
    <3>1. counted[r] = (IF Served(r) THEN 1 ELSE 0) + 0
      BY <2>1, <1>7 DEF CountedExactly
    <3>2. QED
      BY <3>1, <2>1, <1>6, <1>8, <1>10
  <2>2. CASE r # out.request
    BY <2>2, <1>6, <1>9, <1>10 DEF CountedExactly
  <2>3. QED
    BY <2>1, <2>2
<1>12. QED
  BY <1>11 DEF CountedExactly

\* It leaves its queue when its analysis ends.
LEMMA CountOutTail ==
    ASSUME TypeOK, QueueInv, CountedExactly,
           step \in OutSteps, step' \notin OutSteps,
           callingOutTraffic' = Tail(callingOutTraffic),
           UNCHANGED <<pending, callingInTraffic, counted>>
    PROVE  CountedExactly'
<1> DEFINE q == callingOutTraffic
<1>1. q \in Seq(Entry) /\ q # <<>>
  BY DEF TypeOK, QueueInv, StepsFit
<1>2. /\ Len(q') = Len(q) - 1 /\ Len(q) \in Nat \ {0}
      /\ \A i \in 1..(Len(q) - 1) : q'[i] = q[i + 1] /\ i + 1 \in 1..Len(q)
  BY <1>1, TailOfQueue
<1>3. \A r \in Request : Served(r)' = Served(r)
  BY DEF Served
<1>4. ASSUME NEW r \in Request
      PROVE  (\A i \in 1..Len(q) : q[i].request = r => i = 1)
                <=> (\A i \in 1..Len(q') : q'[i].request # r)
  <2>1. ASSUME NEW i \in 1..Len(q), q[i].request = r, i # 1
        PROVE  \E j \in 1..Len(q') : q'[j].request = r
    <3>1. i - 1 \in 1..Len(q') /\ q'[i - 1] = q[i]
      BY <2>1, <1>2
    <3>2. QED
      BY <2>1, <3>1
  <2>2. ASSUME NEW i \in 1..Len(q'), q'[i].request = r
        PROVE  \E j \in 1..Len(q) : q[j].request = r /\ j # 1
    <3>1. i + 1 \in 1..Len(q) /\ q[i + 1].request = r /\ i + 1 # 1
      BY <2>2, <1>2
    <3>2. QED
      BY <3>1
  <2>3. QED
    BY <2>1, <2>2
<1>5. \A r \in Request : Called(r)' = Called(r)
  BY <1>4 DEF Called
<1>6. QED
  BY <1>3, <1>5 DEF CountedExactly

\* Every step keeps the count.
LEMMA CountStep ==
    ASSUME TypeOK, QueueInv, CountedExactly, [Next]_vars
    PROVE  CountedExactly'
<1>1. ASSUME InLookup \/ InPut \/ RegisterService \/ InPutRelation
             \/ InLookupRelation \/ RegisterInRelation \/ OutLookup
             \/ ClearIn \/ ClearOut \/ FlushMetric \/ Complete \/ UNCHANGED vars
      PROVE  CountedExactly'
  <2>1. UNCHANGED <<pending, callingInTraffic, callingOutTraffic, counted>>
    BY <1>1 DEF InLookup, InPut, RegisterService, InPutRelation,
       InLookupRelation, RegisterInRelation, OutLookup,
       ClearIn, ClearOut, FlushMetric, Complete, vars, traffic
  <2>2. step' \in OutSteps <=> step \in OutSteps
    BY <1>1 DEF OutSteps, InLookup, InPut,
       RegisterService, InPutRelation, InLookupRelation, RegisterInRelation,
       OutLookup, ClearIn, ClearOut, FlushMetric, Complete, vars
  <2>3. QED
    BY <2>1, <2>2, CountFrame
<1>2. ASSUME OutPut \/ RegisterOutRelation
      PROVE  CountedExactly'
  <2>1. /\ step \in OutSteps /\ UNCHANGED <<pending, callingInTraffic, counted>>
        /\ \/ callingOutTraffic' = Tail(callingOutTraffic) /\ step' \notin OutSteps
           \/ callingOutTraffic' = callingOutTraffic /\ step' \in OutSteps
    BY <1>2 DEF OutPut, RegisterOutRelation, OutSteps
  <2>2. QED
    BY <2>1, CountFrame, CountOutTail
<1>3. QED
  BY <1>1, <1>2, CountIntercept, CountInStats, CountOutStats DEF Next, Build

-----------------------------------------------------------------------------
(* The theorems.                                                           *)

\* A pool of slots stays within its capacity.
LEMMA PoolBounded ==
    ASSUME slots \in 0..Capacity,
           Sink!Acquire \/ Sink!Refuse \/ Sink!Release
    PROVE  slots' \in 0..Capacity
BY AnalysisAssumption DEF Sink!Acquire, Sink!Refuse, Sink!Release

\* A history of offers, none of which occurred more than twice, is typed.
LEMMA HistoryTyped ==
    ASSUME NEW S, NEW f, NEW g \in [S -> Nat], NEW x, NEW Z,
           \/ f = g
           \/ f = [g EXCEPT ![x] = @ + 1]
           \/ f = [r \in S |-> IF r \in Z THEN 0 ELSE g[r]]
           \/ f = [r \in S |-> 0],
           \A r \in S : f[r] <= 1 \/ f[r] <= 2
    PROVE  f \in [S -> 0..2]
<1>1. f \in [S -> Nat]
  OBVIOUS
<1>2. \A r \in S : f[r] \in 0..2
  BY <1>1
<1>3. QED
  BY <1>1, <1>2

\* A step of the analysis leaves its queues typed.
LEMMA TypeOfQueues ==
    ASSUME TypeOK, QueueInv, [Next]_vars
    PROVE  /\ pending' \subseteq Span
           /\ callingInTraffic' \in Seq(Entry) /\ callingOutTraffic' \in Seq(Entry)
<1>1. CASE Intercept
  <2>1. pending' \subseteq pending
    BY <1>1 DEF Intercept
  <2>2. callingInTraffic' \in Seq(Entry)
    BY <1>1, ServersParsed DEF Intercept
  <2>3. callingOutTraffic' \in Seq(Entry)
    BY <1>1, ClientsParsed DEF Intercept
  <2>4. QED
    BY <2>1, <2>2, <2>3 DEF TypeOK
<1>2. CASE InStats
  <2>1. callingInTraffic # <<>> /\ callingInTraffic \in Seq(Entry)
    BY <1>2 DEF InStats, QueueInv, StepsFit, InSteps, TypeOK
  <2>2. QED
    BY <1>2, <2>1, TailOfQueue DEF InStats, TypeOK
<1>3. CASE OutPut \/ RegisterOutRelation
  <2>1. callingOutTraffic # <<>> /\ callingOutTraffic \in Seq(Entry)
    BY <1>3 DEF OutPut, RegisterOutRelation, QueueInv, StepsFit, OutSteps, TypeOK
  <2>2. Tail(callingOutTraffic) \in Seq(Entry)
    BY <2>1, TailOfQueue
  <2>3. QED
    BY <1>3, <2>1, <2>2 DEF OutPut, RegisterOutRelation, TypeOK
<1>4. CASE ~Intercept /\ ~InStats /\ ~OutPut /\ ~RegisterOutRelation
  <2>1. UNCHANGED <<pending, callingInTraffic, callingOutTraffic>>
    BY <1>4 DEF Next, Build, InLookup, InPut, RegisterService,
       InPutRelation,
       InLookupRelation, RegisterInRelation, OutStats, OutLookup, ClearIn,
       ClearOut, FlushMetric, Complete, vars, traffic
  <2>2. QED
    BY <2>1 DEF TypeOK
<1>5. QED
  BY <1>1, <1>2, <1>3, <1>4

\* The conjunction of a flag that is not set and a membership is a Boolean.
LEMMA ConjunctionTyped ==
    ASSUME NEW e, NEW x, NEW S, NEW a \in BOOLEAN, e = (~a /\ x \in S)
    PROVE  e \in BOOLEAN
<1>1. CASE a = TRUE
  <2>1. e = FALSE
    BY <1>1
  <2>2. QED
    BY <2>1
<1>2. CASE a = FALSE
  <2>1. e = (x \in S)
    BY <1>2
  <2>2. QED
    BY <2>1
<1>3. QED
  BY <1>1, <1>2

\* The program counter, the locals and the slots are typed.
LEMMA TypeOfControl ==
    ASSUME TypeOK, [Next]_vars
    PROVE  /\ step' \in Step /\ exist' \in BOOLEAN /\ accepted' \in BOOLEAN
           /\ clearing' \in BOOLEAN /\ slots' \in 0..Capacity
<1>1. /\ step' \in Step /\ exist' \in BOOLEAN /\ accepted' \in BOOLEAN
      /\ clearing' \in BOOLEAN
  <2>1. CASE Build
    <3>1. step' \in Step
      BY <2>1 DEF Step, Build, InLookup, InPut, RegisterService,
         InPutRelation, InLookupRelation, RegisterInRelation, InStats, OutStats,
         OutLookup, OutPut, RegisterOutRelation
    <3>2. exist' \in BOOLEAN
      <4>1. CASE InLookup \/ InLookupRelation \/ OutLookup
        <5>1. CASE InLookupRelation
          <6>1. exist' = (~accepted /\ in.dest \in In!Remembered) /\ accepted \in BOOLEAN
            BY <5>1 DEF InLookupRelation, TypeOK
          <6>2. QED
            BY <6>1, ConjunctionTyped
        <5>2. CASE InLookup
          BY <5>2 DEF InLookup
        <5>3. CASE OutLookup
          BY <5>3 DEF OutLookup
        <5>4. QED
          BY <4>1, <5>1, <5>2, <5>3
      <4>2. CASE ~(InLookup \/ InLookupRelation \/ OutLookup)
        BY <2>1, <4>2 DEF TypeOK, Build, InPut, RegisterService, InPutRelation,
           RegisterInRelation, InStats, OutStats, OutPut, RegisterOutRelation
      <4>3. QED
        BY <4>1, <4>2
    <3>3. accepted' \in BOOLEAN /\ clearing' \in BOOLEAN
      BY <2>1 DEF TypeOK, Build, InLookup, InPut, RegisterService,
         InPutRelation, InLookupRelation, RegisterInRelation, InStats, OutStats,
         OutLookup, OutPut, RegisterOutRelation
    <3>4. QED
      BY <3>1, <3>2, <3>3
  <2>2. CASE ~Build
    BY <2>2 DEF TypeOK, Step, Next, Intercept, ClearIn, ClearOut,
       FlushMetric, Complete, vars
  <2>3. QED
    BY <2>1, <2>2
<1>2. slots' = slots \/ Sink!Acquire \/ Sink!Refuse \/ Sink!Release
  BY DEF Next, Build, Intercept, InLookup, InPut, RegisterService,
     InPutRelation, InLookupRelation, RegisterInRelation, InStats, OutStats,
     OutLookup, OutPut, RegisterOutRelation, ClearIn, ClearOut, FlushMetric,
     Complete, vars
<1>3. slots' \in 0..Capacity
  BY <1>2, PoolBounded DEF TypeOK
<1>4. QED
  BY <1>1, <1>3

\* The caches are typed.
LEMMA TypeOfCaches ==
    ASSUME AnalysisIInv, [Next]_vars
    PROVE  /\ inLru' \in Seq(Id) /\ Len(inLru') <= MaxEntries
           /\ outLru' \in Seq(Relation) /\ Len(outLru') <= MaxEntries
           /\ overlap' \subseteq Id
<1>1. TypeOK /\ StepsFit /\ InCacheInv /\ OutCacheInv /\ MaxEntries \in Nat
  BY AnalysisAssumption DEF AnalysisIInv, QueueInv
<1>2. <<>> \in Seq(Id) /\ <<>> \in Seq(Relation) /\ Len(<<>>) <= MaxEntries
  BY <1>1
<1>3. CASE InPut \/ InPutRelation
  <2>1. PICK k \in Id : In!Use(k) /\ Forget(In!ForgottenBy(k))
    BY <1>1, <1>3, HeadTyped DEF InPut, InPutRelation, Id, InSteps
  <2>2. inLru' \in Seq(Id) /\ Len(inLru') <= MaxEntries
    BY <1>1, <2>1, InUse
  <2>3. overlap' \subseteq Id
    BY <1>1, <2>1 DEF Forget, TypeOK
  <2>4. UNCHANGED outLru
    BY <1>3 DEF InPut, InPutRelation
  <2>5. QED
    BY <1>1, <2>2, <2>3, <2>4 DEF TypeOK
<1>4. CASE OutPut
  <2>1. outLru' \in Seq(Relation) /\ Len(outLru') <= MaxEntries
    BY <1>1, <1>4, HeadTyped, OutUse DEF OutPut, OutSteps
  <2>2. QED
    BY <1>1, <1>4, <2>1 DEF OutPut, TypeOK
<1>5. CASE ClearIn
  <2>1. InWorks \subseteq Id
    BY <1>1, HeadTyped DEF InWorks, InSteps, Id
  <2>2. QED
    BY <1>1, <1>2, <1>5, <2>1 DEF ClearIn, TypeOK
<1>6. CASE ClearOut
  <2>1. OutWorks \subseteq Id
    BY <1>1, HeadTyped DEF OutWorks, OutSteps, Id
  <2>2. QED
    BY <1>1, <1>2, <1>6, <2>1 DEF ClearOut, TypeOK
<1>7. CASE ~(InPut \/ InPutRelation \/ OutPut \/ ClearIn \/ ClearOut)
  <2>1. UNCHANGED <<inLru, outLru, overlap>>
    BY <1>7 DEF Next, Build, Intercept, InLookup, RegisterService,
       InLookupRelation, RegisterInRelation, InStats, OutStats, OutLookup,
       RegisterOutRelation, FlushMetric, Complete, vars
  <2>2. QED
    BY <1>1, <2>1 DEF TypeOK
<1>8. QED
  BY <1>3, <1>4, <1>5, <1>6, <1>7

\* The counts and the histories are typed, because they are bounded.
LEMMA TypeOfCounts ==
    ASSUME TypeOK, [Next]_vars,
           CountedExactly', InCacheInv', OutCacheInv'
    PROVE  /\ counted' \in [Request -> 0..2] /\ offered' \in [Name -> 0..2]
           /\ linked' \in [Relation -> 0..2]
<1>1. /\ counted \in [Request -> Nat] /\ offered \in [Name -> Nat]
      /\ linked \in [Relation -> Nat]
  <2>1. \A S : [S -> 0..2] \subseteq [S -> Nat]
    OBVIOUS
  <2>2. QED
    BY <2>1 DEF TypeOK
<1>2. \A r \in Request : counted'[r] <= 1 \/ counted'[r] <= 2
  BY DEF CountedExactly
<1>3. \A n \in Name : offered'[n] <= 1 \/ offered'[n] <= 2
  BY DEF InCacheInv, Most
<1>4. \A r \in Relation : linked'[r] <= 1 \/ linked'[r] <= 2
  BY DEF OutCacheInv, Most
<1>5. counted' = counted \/ \E r : counted' = [counted EXCEPT ![r] = @ + 1]
  BY DEF Next, Build, Intercept, InLookup, InPut, RegisterService,
     InPutRelation, InLookupRelation, RegisterInRelation, InStats, OutStats,
     OutLookup, OutPut, RegisterOutRelation, ClearIn, ClearOut, FlushMetric,
     Complete, vars
<1>6. \/ offered' = offered \/ \E n : offered' = [offered EXCEPT ![n] = @ + 1]
      \/ \E Z : offered' = [n \in Name |-> IF n \in Z THEN 0 ELSE offered[n]]
      \/ offered' = [n \in Name |-> 0]
  BY DEF Next, Build, Intercept, InLookup, InPut, RegisterService,
     InPutRelation, InLookupRelation, RegisterInRelation, InStats, OutStats,
     OutLookup, OutPut, RegisterOutRelation, ClearIn, ClearOut, FlushMetric,
     Complete, vars, Forget
<1>7. \/ linked' = linked \/ \E r : linked' = [linked EXCEPT ![r] = @ + 1]
      \/ \E Z : linked' = [r \in Relation |-> IF r \in Z THEN 0 ELSE linked[r]]
      \/ linked' = [r \in Relation |-> 0]
  BY DEF Next, Build, Intercept, InLookup, InPut, RegisterService,
     InPutRelation, InLookupRelation, RegisterInRelation, InStats, OutStats,
     OutLookup, OutPut, RegisterOutRelation, ClearIn, ClearOut, FlushMetric,
     Complete, vars
<1>8. counted' \in [Request -> 0..2]
  BY <1>1, <1>2, <1>5, HistoryTyped
<1>9. offered' \in [Name -> 0..2]
  BY <1>1, <1>3, <1>6, HistoryTyped
<1>10. linked' \in [Relation -> 0..2]
  BY <1>1, <1>4, <1>7, HistoryTyped
<1>11. QED
  BY <1>8, <1>9, <1>10

\* The invariant holds at first.
LEMMA AnalysisIInvInit == Init => AnalysisIInv
<1> SUFFICES ASSUME Init
             PROVE  AnalysisIInv
  OBVIOUS
<1> USE DEF Init
<1>1. TypeOK
  <2>1. MaxEntries \in Nat /\ Capacity \in Nat
    BY AnalysisAssumption
  <2>2. /\ pending \subseteq Span /\ step \in Step /\ slots \in 0..Capacity
    BY <2>1 DEF Step
  <2>3. /\ callingInTraffic \in Seq(Entry) /\ callingOutTraffic \in Seq(Entry)
        /\ inLru \in Seq(Id) /\ outLru \in Seq(Relation)
        /\ Len(inLru) <= MaxEntries /\ Len(outLru) <= MaxEntries
    BY <2>1
  <2>4. /\ counted \in [Request -> 0..2] /\ offered \in [Name -> 0..2]
        /\ linked \in [Relation -> 0..2] /\ overlap \subseteq Id
    OBVIOUS
  <2>5. exist \in BOOLEAN /\ accepted \in BOOLEAN /\ clearing \in BOOLEAN
    OBVIOUS
  <2>6. QED
    BY <2>2, <2>3, <2>4, <2>5 DEF TypeOK
<1>2. QueueInv
  BY DEF QueueInv, StepsFit, FromSpans, Distinct, InSteps, OutSteps
<1>3. CountedExactly
  <2>1. \A r \in Request : ~Served(r) /\ ~Called(r) /\ counted[r] = 0
    BY DEF Served, Called
  <2>2. QED
    BY <2>1 DEF CountedExactly
<1>4. InCacheInv
  <2>1. In!Remembered = {} /\ NoRepeat(inLru)
    BY DEF In!Remembered, NoRepeat
  <2>2. QED
    BY <2>1 DEF InCacheInv, Most
<1>5. OutCacheInv
  <2>1. Out!Remembered = {} /\ NoRepeat(outLru)
    BY DEF Out!Remembered, NoRepeat
  <2>2. QED
    BY <2>1 DEF OutCacheInv, Most
<1>6. QED
  BY <1>1, <1>2, <1>3, <1>4, <1>5 DEF AnalysisIInv

\* Every step keeps it.
LEMMA AnalysisIInvStep ==
    AnalysisIInv /\ [Next]_vars => AnalysisIInv'
<1> SUFFICES ASSUME AnalysisIInv, [Next]_vars
             PROVE  AnalysisIInv'
  OBVIOUS
<1>1. TypeOK /\ QueueInv /\ CountedExactly /\ InCacheInv /\ OutCacheInv
  BY DEF AnalysisIInv
<1>2. QueueInv' /\ CountedExactly' /\ InCacheInv' /\ OutCacheInv'
  BY <1>1, QueueStep, CountStep, InCacheStep, OutCacheStep
<1>3. TypeOK'
  BY <1>1, <1>2, TypeOfQueues, TypeOfControl, TypeOfCaches, TypeOfCounts DEF TypeOK
<1>4. QED
  BY <1>2, <1>3 DEF AnalysisIInv

\* The analysis keeps its invariant (build(), and the timers that clear).
LEMMA AnalysisKeepsIInv == Spec => []AnalysisIInv
<1>1. Init => AnalysisIInv
  BY AnalysisIInvInit
<1>2. AnalysisIInv /\ [Next]_vars => AnalysisIInv'
  BY AnalysisIInvStep
<1>3. QED
  BY <1>1, <1>2, PTL DEF Spec

\* The analysis is well typed, forgets no service without a clear and offers a
\* server's relation with its service only (RPCAnalysisListener::build).
THEOREM RegistrationCorrect ==
    Spec => []RegistrationInv
<1>1. AnalysisIInv => RegistrationInv
  <2> SUFFICES ASSUME AnalysisIInv PROVE RegistrationInv
    OBVIOUS
  <2>1. TypeOK /\ InCacheInv
    BY DEF AnalysisIInv
  <2>2. RememberedOffered
    BY <2>1 DEF InCacheInv, RememberedOffered
  <2>3. InRelationWithService
    BY <2>1 DEF InCacheInv, InRelationWithService
  <2>4. QED
    BY <2>1, <2>2, <2>3 DEF RegistrationInv
<1>2. QED
  BY <1>1, AnalysisKeepsIInv, PTL

\* A service or relation that its cache remembers is offered to the sink once,
\* and twice at most when a clear came in the middle of it.
THEOREM OfferedOnceOnly ==
    Spec => []OfferedOnce
<1>1. AnalysisIInv => OfferedOnce
  BY DEF AnalysisIInv, InCacheInv, OutCacheInv, Most, OfferedOnce
<1>2. QED
  BY <1>1, AnalysisKeepsIInv, PTL

\* When a request's spans have been analysed it has been counted, and exactly
\* once when its server has no agent.
THEOREM RequestsCounted ==
    Spec => []Counted
<1>1. AnalysisIInv => Counted
  <2> SUFFICES ASSUME AnalysisIInv, NEW r \in Request, ~Busy(r),
                      NEW s \in Span, s.kind # "internal", s.request = r
               PROVE  counted[r] >= 1 /\ (~HasServerSpan(r) => counted[r] = 1)
    BY DEF Counted
  <2>1. /\ counted[r] = (IF Served(r) THEN 1 ELSE 0) + (IF Called(r) THEN 1 ELSE 0)
        /\ callingInTraffic \in Seq(Entry) /\ callingOutTraffic \in Seq(Entry)
    BY DEF AnalysisIInv, CountedExactly, TypeOK
  <2>2. s \notin pending
    BY DEF Busy
  <2>3. /\ \A i \in 1..Len(callingInTraffic) : callingInTraffic[i].request # r
        /\ \A i \in 1..Len(callingOutTraffic) : callingOutTraffic[i].request # r
    BY <2>1, LenProperties DEF Busy, EntriesOf
  <2>4. s.kind \in {"server", "client"}
    BY AnalysisAssumption DEF SpanRecord
  <2>5. CASE s.kind = "server"
    <3>1. Served(r) /\ HasServerSpan(r)
      BY <2>2, <2>3, <2>5 DEF Served, HasServerSpan
    <3>2. QED
      BY <2>1, <3>1
  <2>6. CASE s.kind = "client"
    <3>1. Called(r)
      BY <2>2, <2>3, <2>6 DEF Called
    <3>2. ~HasServerSpan(r) => ~Served(r)
      BY DEF HasServerSpan, Served
    <3>3. QED
      BY <2>1, <3>1, <3>2
  <2>7. QED
    BY <2>4, <2>5, <2>6
<1>2. QED
  BY <1>1, AnalysisKeepsIInv, PTL
==============================================================================
