------------------------ MODULE MetricAggregatorProofs ------------------------
(***************************************************************************)
(* For every set of ids, every size of the cache and of the batches and    *)
(* every number of requests, the aggregators account for each request and  *)
(* each error exactly once, and the cache overshoots its size by one entry *)
(* at most.                                                                *)
(***************************************************************************)
EXTENDS MetricAggregator, FiniteSetTheorems, TLAPS

\* Only cached ids have counts.
CountsCached == \A i \in Id : i \notin cached => count[i] = Zero

\* The iterator: what it has not reached is cached, what it has passed is in
\* the request or reported, and nothing is left in the request at the end.
IteratorInv ==
    /\ todo \subseteq cached
    /\ request \subseteq cached \ todo
    /\ locked => sum = Cardinality(cached) - Cardinality(todo)
    /\ ~locked => todo = {}
    /\ todo = {} => request = {}

IInv == TypeOK /\ CountsCached /\ IteratorInv /\ Conservation /\ CacheBound

-----------------------------------------------------------------------------

\* Counts form a commutative monoid.
LEMMA PlusLaws ==
    /\ Zero \in Count
    /\ \A c, d \in Count : Plus(c, d) \in Count
    /\ \A c, d \in Count : Plus(c, d) = Plus(d, c)
    /\ \A c, d, e \in Count : Plus(Plus(c, d), e) = Plus(c, Plus(d, e))
    /\ \A c \in Count : Plus(c, Zero) = c /\ Plus(Zero, c) = c
BY DEF Count, Zero, Plus

\* What stats adds is a count.
LEMMA IncrementType ==
    \A i \in Id, error \in BOOLEAN : Increment(i, error) \in Count
BY DEF Increment, Count, Zero

\* The cache is finite.
LEMMA CachedFinite ==
    ASSUME TypeOK
    PROVE  IsFiniteSet(cached) /\ Cardinality(cached) \in Nat
BY AggregatorAssumption, FS_Subset, FS_CardinalityType DEF TypeOK

\* The counts still owed are counts.
LEMMA OwedType == TypeOK => \A i \in Id : Owed(i) \in Count
BY PlusLaws DEF TypeOK, Owed

-----------------------------------------------------------------------------

\* Nothing has been seen and nothing is cached initially.
LEMMA InitIInv == Init => IInv
<1> SUFFICES ASSUME Init PROVE IInv
  OBVIOUS
<1>1. TypeOK
  <2>1. [i \in Id |-> Zero] \in [Id -> Count]
    BY PlusLaws
  <2>2. seen \in 0..MaxObserved
    BY AggregatorAssumption DEF Init
  <2>3. QED
    BY <2>1, <2>2 DEF Init, TypeOK
<1>2. CountsCached /\ IteratorInv
  BY DEF Init, CountsCached, IteratorInv
<1>3. Conservation
  BY PlusLaws DEF Init, Conservation, Owed
<1>4. CacheBound
  BY FS_EmptySet, AggregatorAssumption DEF Init, CacheBound
<1>5. QED
  BY <1>1, <1>2, <1>3, <1>4 DEF IInv

\* One request more keeps the type of a table of counts.
LEMMA AddedType ==
    \A f \in [Id -> Count], i \in Id, c \in Count :
        /\ Added(f, i, c) \in [Id -> Count]
        /\ Added(f, i, c)[i] = Plus(f[i], c)
        /\ \A j \in Id \ {i} : Added(f, i, c)[j] = f[j]
<1> TAKE f \in [Id -> Count], i \in Id, c \in Count
<1>1. Plus(f[i], c) \in Count
  BY PlusLaws
<1>2. QED
  BY <1>1 DEF Added

\* Observing keeps the history well typed.
LEMMA ObserveType ==
    ASSUME TypeOK, NEW i \in Id, NEW error \in BOOLEAN, Observe(i, error)
    PROVE  /\ seen' \in 0..MaxObserved
           /\ observed' \in [Id -> Count]
           /\ observed'[i] = Plus(observed[i], Increment(i, error))
           /\ \A j \in Id \ {i} : observed'[j] = observed[j]
<1>1. seen' \in 0..MaxObserved
  <2>1. seen \in Nat /\ seen < MaxObserved /\ seen' = seen + 1
    BY AggregatorAssumption DEF TypeOK, Observe
  <2>2. QED
    BY <2>1, AggregatorAssumption
<1>2. observed \in [Id -> Count] /\ Increment(i, error) \in Count
  BY IncrementType DEF TypeOK
<1>3. observed' = Added(observed, i, Increment(i, error))
  BY DEF Observe
<1>4. QED
  BY <1>1, <1>2, <1>3, AddedType

\* A request refused at the cap is accounted for as refused.
LEMMA RefuseIInv ==
    ASSUME IInv, NEW i \in Id, NEW error \in BOOLEAN, RefuseStats(i, error)
    PROVE  IInv'
<1> USE DEF IInv
<1> DEFINE inc == Increment(i, error)
<1>1. /\ refused' = Added(refused, i, inc)
      /\ UNCHANGED <<cached, count, locked, todo, request, sum, delivered, lost>>
  BY DEF RefuseStats, iteration
<1>2. /\ refused \in [Id -> Count] /\ inc \in Count
      /\ observed \in [Id -> Count]
      /\ delivered \in [Id -> Count] /\ lost \in [Id -> Count]
  BY IncrementType DEF TypeOK
<1>3. /\ refused' \in [Id -> Count]
      /\ refused'[i] = Plus(refused[i], inc)
      /\ \A j \in Id \ {i} : refused'[j] = refused[j]
  <2> HIDE DEF inc
  <2>1. refused' = Added(refused, i, inc) /\ refused \in [Id -> Count] /\ inc \in Count
    BY <1>1, <1>2
  <2>2. QED
    BY <2>1, AddedType
<1>4. /\ seen' \in 0..MaxObserved
      /\ observed' \in [Id -> Count]
      /\ observed'[i] = Plus(observed[i], inc)
      /\ \A j \in Id \ {i} : observed'[j] = observed[j]
  BY ObserveType DEF RefuseStats
<1>5. TypeOK'
  BY <1>1, <1>3, <1>4 DEF TypeOK
<1>6. CountsCached' /\ IteratorInv' /\ CacheBound'
  BY <1>1 DEF CountsCached, IteratorInv, CacheBound
<1>7. Conservation'
  <2> SUFFICES ASSUME NEW j \in Id
               PROVE  observed'[j] = Plus(Plus(Owed(j)', refused'[j]),
                                          Plus(delivered'[j], lost'[j]))
    BY DEF Conservation, Owed
  <2>1. Owed(j)' = Owed(j) /\ Owed(j) \in Count
    BY <1>1, OwedType DEF Owed
  <2>2. observed[j] = Plus(Plus(Owed(j), refused[j]),
                           Plus(delivered[j], lost[j]))
    BY DEF Conservation
  <2>3. CASE j # i
    BY <2>1, <2>2, <2>3, <1>1, <1>3, <1>4
  <2>4. CASE j = i
    BY <2>1, <2>2, <2>4, <1>1, <1>2, <1>3, <1>4 DEF Plus, Count
  <2>5. QED
    BY <2>3, <2>4
<1>8. QED
  BY <1>5, <1>6, <1>7

\* A request counted is owed until it is reported.
LEMMA LoadIInv ==
    ASSUME IInv, NEW i \in Id, NEW error \in BOOLEAN, LoadMetric(i, error)
    PROVE  IInv'
<1> USE DEF IInv
<1> DEFINE inc == Increment(i, error)
<1>1. /\ ~locked /\ ~(Cardinality(cached) > MaxSize)
      /\ cached' = cached \union {i}
      /\ count' = Added(count, i, inc)
      /\ UNCHANGED <<locked, todo, request, sum, refused, delivered, lost>>
  BY DEF LoadMetric, iteration, StatsAllowed, Full
<1>2. /\ count \in [Id -> Count] /\ inc \in Count
      /\ refused \in [Id -> Count]
      /\ delivered \in [Id -> Count] /\ lost \in [Id -> Count]
  BY IncrementType DEF TypeOK
<1>3. /\ count' \in [Id -> Count]
      /\ count'[i] = Plus(count[i], inc)
      /\ \A j \in Id \ {i} : count'[j] = count[j]
  <2> HIDE DEF inc
  <2>1. count' = Added(count, i, inc) /\ count \in [Id -> Count] /\ inc \in Count
    BY <1>1, <1>2
  <2>2. QED
    BY <2>1, AddedType
<1>4. /\ seen' \in 0..MaxObserved
      /\ observed' \in [Id -> Count]
      /\ observed'[i] = Plus(observed[i], inc)
      /\ \A j \in Id \ {i} : observed'[j] = observed[j]
  BY ObserveType DEF LoadMetric
<1>5. TypeOK'
  BY <1>1, <1>3, <1>4 DEF TypeOK
<1>6. CountsCached' /\ IteratorInv'
  BY <1>1, <1>3 DEF CountsCached, IteratorInv, TypeOK
<1>7. CacheBound'
  <2>1. Cardinality(cached') \in {Cardinality(cached), Cardinality(cached) + 1}
    BY <1>1, CachedFinite, FS_AddElement
  <2>2. QED
    BY <2>1, <1>1, CachedFinite, AggregatorAssumption DEF CacheBound
<1>8. Conservation'
  <2> SUFFICES ASSUME NEW j \in Id
               PROVE  observed'[j] = Plus(Plus(Owed(j)', refused'[j]),
                                          Plus(delivered'[j], lost'[j]))
    BY DEF Conservation, Owed
  <2>1. Owed(j)' = count'[j] /\ Owed(j) = count[j]
    BY <1>1 DEF Owed
  <2>2. observed[j] = Plus(Plus(Owed(j), refused[j]),
                           Plus(delivered[j], lost[j]))
    BY DEF Conservation
  <2>3. CASE j # i
    BY <2>1, <2>2, <2>3, <1>1, <1>3, <1>4
  <2>4. CASE j = i
    BY <2>1, <2>2, <2>4, <1>1, <1>2, <1>3, <1>4 DEF Plus, Count
  <2>5. QED
    BY <2>3, <2>4
<1>9. QED
  BY <1>5, <1>6, <1>7, <1>8

\* When the timer starts, everything cached is still to be reported.
LEMMA SendBeginIInv == ASSUME IInv, SendBegin PROVE IInv'
<1> USE DEF IInv
<1>1. /\ ~locked /\ locked' = TRUE /\ cached # {}
      /\ todo' = cached /\ request' = {} /\ sum' = 0
      /\ UNCHANGED <<cached, count, seen, observed, refused, delivered, lost>>
  BY DEF SendBegin, history
<1>2. TypeOK'
  BY <1>1 DEF TypeOK
<1>3. CountsCached' /\ CacheBound'
  BY <1>1 DEF CountsCached, CacheBound
<1>4. IteratorInv'
  BY <1>1, CachedFinite DEF IteratorInv
<1>5. Conservation'
  BY <1>1 DEF Conservation, Owed, CountsCached
<1>6. QED
  BY <1>2, <1>3, <1>4, <1>5

\* The ids of a batch are not owed any more once it is reported: the tally
\* takes over what they owed.
LEMMA TallyLaws ==
    ASSUME TypeOK, NEW f \in [Id -> Count], NEW batch
    PROVE  /\ Tally(f, batch) \in [Id -> Count]
           /\ \A j \in Id : Tally(f, batch)[j] =
                  IF j \in batch THEN Plus(f[j], count[j]) ELSE f[j]
<1>1. \A j \in Id : Plus(f[j], count[j]) \in Count
  BY PlusLaws DEF TypeOK
<1>2. QED
  BY <1>1 DEF Tally

\* A step of the iterator that sends the batch, taken or dropped by the sink.
LEMMA ReportIInv ==
    ASSUME IInv, locked, NEW i \in todo, todo' = todo \ {i}, request' = {},
           Report(request \union {i}), sum' = sum + 1,
           UNCHANGED <<cached, count, locked, seen, observed, refused>>
    PROVE  IInv'
<1> USE DEF IInv
<1> DEFINE batch == request \union {i}
<1>1. /\ delivered \in [Id -> Count] /\ lost \in [Id -> Count]
      /\ count \in [Id -> Count] /\ refused \in [Id -> Count]
      /\ i \in cached /\ i \in Id
  BY DEF TypeOK, IteratorInv
<1>2. /\ delivered' \in [Id -> Count] /\ lost' \in [Id -> Count]
      /\ \A j \in Id \ batch : delivered'[j] = delivered[j] /\ lost'[j] = lost[j]
      /\ \A j \in Id \cap batch :
            \/ delivered'[j] = Plus(delivered[j], count[j]) /\ lost'[j] = lost[j]
            \/ lost'[j] = Plus(lost[j], count[j]) /\ delivered'[j] = delivered[j]
  BY <1>1, TallyLaws DEF Report
<1>3. TypeOK'
  BY <1>2 DEF TypeOK
<1>4. CountsCached' /\ CacheBound'
  BY DEF CountsCached, CacheBound
<1>5. IteratorInv'
  <2>1. IsFiniteSet(todo)
    BY CachedFinite, FS_Subset DEF IteratorInv
  <2>2. Cardinality(todo \ {i}) = Cardinality(todo) - 1 /\ Cardinality(todo) \in Nat
    BY <2>1, FS_RemoveElement, FS_CardinalityType
  <2>3. QED
    BY <2>2, CachedFinite DEF IteratorInv, TypeOK
<1>6. Conservation'
  <2> SUFFICES ASSUME NEW j \in Id
               PROVE  observed'[j] = Plus(Plus(Owed(j)', refused'[j]),
                                          Plus(delivered'[j], lost'[j]))
    BY DEF Conservation, Owed
  <2>1. observed[j] = Plus(Plus(Owed(j), refused[j]),
                           Plus(delivered[j], lost[j]))
    BY DEF Conservation
  <2>2. CASE j \in batch
    <3>1. Owed(j) = count[j]
      BY <2>2 DEF Owed
    <3>2. Owed(j)' = Zero
      BY <2>2 DEF Owed, IteratorInv
    <3>3. /\ count[j] \in Count /\ refused[j] \in Count
          /\ delivered[j] \in Count /\ lost[j] \in Count
          /\ refused'[j] = refused[j] /\ observed'[j] = observed[j]
      BY <1>1
    <3>4. CASE delivered'[j] = Plus(delivered[j], count[j]) /\ lost'[j] = lost[j]
      BY <3>1, <3>2, <3>3, <3>4, <2>1 DEF Plus, Count, Zero
    <3>5. CASE lost'[j] = Plus(lost[j], count[j]) /\ delivered'[j] = delivered[j]
      BY <3>1, <3>2, <3>3, <3>5, <2>1 DEF Plus, Count, Zero
    <3>6. QED
      BY <3>4, <3>5, <2>2, <1>2
  <2>3. CASE j \notin batch
    <3>1. Owed(j)' = Owed(j)
      BY <2>3 DEF Owed
    <3>2. QED
      BY <3>1, <2>1, <2>3, <1>2
  <2>4. QED
    BY <2>2, <2>3
<1>7. QED
  BY <1>3, <1>4, <1>5, <1>6

\* A step of the iterator that only fills the request is not its last one, so
\* that nothing is left in the request when the iterator has ended.
LEMMA FillIInv ==
    ASSUME IInv, locked, NEW i \in todo, todo' = todo \ {i}, ~BatchDue,
           request' = request \union {i}, sum' = sum + 1,
           UNCHANGED <<cached, count, locked, seen, observed, refused,
                       delivered, lost>>
    PROVE  IInv'
<1> USE DEF IInv
<1>1. i \in Id /\ i \in cached
  BY DEF TypeOK, IteratorInv
<1>2. TypeOK'
  BY <1>1 DEF TypeOK
<1>3. CountsCached' /\ CacheBound'
  BY DEF CountsCached, CacheBound
<1>4. IteratorInv'
  <2>1. IsFiniteSet(todo)
    BY CachedFinite, FS_Subset DEF IteratorInv
  <2>2. Cardinality(todo \ {i}) = Cardinality(todo) - 1 /\ Cardinality(todo) \in Nat
    BY <2>1, FS_RemoveElement, FS_CardinalityType
  <2>3. Cardinality(todo \ {i}) # 0
    BY <2>2, CachedFinite DEF IteratorInv, TypeOK, BatchDue
  <2>4. todo' # {}
    BY <2>3, FS_EmptySet
  <2>5. QED
    BY <2>2, <2>4, <1>1, CachedFinite DEF IteratorInv, TypeOK
<1>5. \A j \in Id : Owed(j)' = Owed(j)
  BY DEF Owed
<1>6. Conservation'
  BY <1>5 DEF Conservation
<1>7. QED
  BY <1>2, <1>3, <1>4, <1>6

\* The cache is cleared when nothing in it is owed.
LEMMA SendEndIInv == ASSUME IInv, SendEnd PROVE IInv'
<1> USE DEF IInv
<1>1. /\ locked /\ todo = {} /\ locked' = FALSE /\ todo' = todo
      /\ cached' = {} /\ count' = [i \in Id |-> Zero]
      /\ request' = {} /\ sum' = 0
      /\ UNCHANGED <<seen, observed, refused, delivered, lost>>
  BY DEF SendEnd, history
<1>2. count' \in [Id -> Count]
  BY <1>1, PlusLaws
<1>3. TypeOK'
  BY <1>1, <1>2 DEF TypeOK
<1>4. CountsCached' /\ IteratorInv'
  BY <1>1 DEF CountsCached, IteratorInv
<1>5. CacheBound'
  BY <1>1, FS_EmptySet, AggregatorAssumption DEF CacheBound
<1>6. \A j \in Id : Owed(j)' = Owed(j)
  BY <1>1 DEF Owed, IteratorInv
<1>7. Conservation'
  BY <1>1, <1>6 DEF Conservation
<1>8. QED
  BY <1>3, <1>4, <1>5, <1>7

-----------------------------------------------------------------------------

\* Every step keeps the inductive invariant.
LEMMA NextIInv == IInv /\ [Next]_vars => IInv'
<1> SUFFICES ASSUME IInv, [Next]_vars PROVE IInv'
  OBVIOUS
<1>1. CASE \E i \in Id, error \in BOOLEAN : Stats(i, error)
  BY <1>1, RefuseIInv, LoadIInv DEF Stats
<1>2. CASE SendBegin
  BY <1>2, SendBeginIInv
<1>3. CASE SendNext
  <2>1. PICK i \in todo :
            /\ todo' = todo \ {i}
            /\ IF BatchDue
                 THEN Report(request \union {i}) /\ request' = {}
                 ELSE request' = request \union {i} /\ UNCHANGED <<delivered, lost>>
    BY <1>3 DEF SendNext
  <2>2. /\ locked /\ sum' = sum + 1
        /\ UNCHANGED <<cached, count, locked, seen, observed, refused>>
    BY <1>3 DEF SendNext
  <2>3. CASE BatchDue
    BY <2>1, <2>2, <2>3, ReportIInv
  <2>4. CASE ~BatchDue
    BY <2>1, <2>2, <2>4, FillIInv
  <2>5. QED
    BY <2>3, <2>4
<1>4. CASE SendEnd
  BY <1>4, SendEndIInv
<1>5. CASE UNCHANGED vars
  BY <1>5 DEF vars, iteration, history, IInv, TypeOK, CountsCached,
              IteratorInv, Conservation, Owed, CacheBound
<1>6. QED
  BY <1>1, <1>2, <1>3, <1>4, <1>5 DEF Next, SendEmpty

\* The inductive invariant holds of every behaviour.
THEOREM Invariance == Spec => []IInv
BY InitIInv, NextIInv, PTL DEF Spec

\* Every request and every error is accounted for exactly once.
THEOREM Accounting == Spec => []Conservation
BY Invariance, PTL DEF IInv

\* The cache never holds more than one entry over its size.
THEOREM CacheBounded == Spec => []CacheBound
BY Invariance, PTL DEF IInv

\* The aggregator gives exact figures from a bounded cache.
THEOREM AggregatorCorrect == Spec => []AggregatorInv
BY Accounting, CacheBounded, PTL DEF AggregatorInv

\* The aggregator's state is well typed.
THEOREM TypeCorrect == Spec => []TypeOK
BY Invariance, PTL DEF IInv
=============================================================================
