--------------------------- MODULE MetricAggregator ---------------------------
(***************************************************************************)
(* ServiceMetricAggregator and ServiceRelationMetricAggregator: counts of  *)
(* requests and errors per id, fed by the trace pipeline (stats) and       *)
(* reported in batches by the flush timer (send).  The two classes run the *)
(* same code; only the former leaves an entry without counts for a service *)
(* that has no name.                                                       *)
(*                                                                         *)
(* Both operations hold the aggregator's mutex; send keeps it while it     *)
(* calls the sink, one batch after the other.                              *)
(***************************************************************************)
EXTENDS Naturals, FiniteSets

CONSTANTS
    Id,           \* ids of services, or of relations between services
    Unnamed,      \* those of them whose service name is empty
    MaxSize,      \* maxSize of the aggregator
    BatchSize,    \* batchSize
    MaxObserved   \* bound on the requests observed, for model checking

ASSUME AggregatorAssumption ==
    /\ IsFiniteSet(Id)
    /\ Unnamed \subseteq Id
    /\ MaxSize \in Nat
    /\ BatchSize \in Nat
    /\ MaxObserved \in Nat

VARIABLES
    cached,      \* ids that have an entry in metricCache
    count,       \* the counts of the entries; those of no entry are zero
    locked,      \* send is running and holds mtx
    todo,        \* send: the ids the iterator has not reached
    request,     \* send: the ids in the request being filled
    sum,         \* send: the number of ids the iterator has passed
    seen,        \* history: how many requests the pipeline saw
    observed,    \* history: those requests, by id
    refused,     \* history: those not counted, the cache being full
    delivered,   \* history: those reported in a batch the sink accepted
    lost         \* history: those in a batch the sink dropped

iteration == <<locked, todo, request, sum>>
history   == <<seen, observed, refused, delivered, lost>>
vars      == <<cached, count, iteration, history>>

Count == [requests : Nat, errors : Nat]

Zero == [requests |-> 0, errors |-> 0]

Plus(c, d) == [requests |-> c.requests + d.requests,
               errors   |-> c.errors + d.errors]

TypeOK ==
    /\ cached \subseteq Id
    /\ count \in [Id -> Count]
    /\ locked \in BOOLEAN
    /\ todo \subseteq Id
    /\ request \subseteq Id
    /\ sum \in Nat
    /\ seen \in 0..MaxObserved
    /\ observed \in [Id -> Count]
    /\ refused \in [Id -> Count]
    /\ delivered \in [Id -> Count]
    /\ lost \in [Id -> Count]

Init ==
    /\ cached = {}
    /\ count = [i \in Id |-> Zero]
    /\ locked = FALSE
    /\ todo = {}
    /\ request = {}
    /\ sum = 0
    /\ seen = 0
    /\ observed = [i \in Id |-> Zero]
    /\ refused = [i \in Id |-> Zero]
    /\ delivered = [i \in Id |-> Zero]
    /\ lost = [i \in Id |-> Zero]

-----------------------------------------------------------------------------
(* stats: the pipeline saw one request to id, that failed or not.          *)

\* An entry is made for a service without a name, but nothing is counted.
Increment(i, error) ==
    IF i \in Unnamed THEN Zero
    ELSE [requests |-> 1, errors |-> IF error THEN 1 ELSE 0]

Added(f, i, c) == [f EXCEPT ![i] = Plus(@, c)]

Observe(i, error) ==
    /\ seen < MaxObserved
    /\ seen' = seen + 1
    /\ observed' = Added(observed, i, Increment(i, error))

\* The test is > and not >=: one entry more than maxSize fits.  A full cache
\* refuses requests to the ids it holds, too.
NeverFull == FALSE                \* mutant: the cache grows for ever

Full == Cardinality(cached) > MaxSize

StatsUnlocked == TRUE             \* mutant: stats does not take mtx

StatsAllowed == ~locked

RefuseStats(i, error) ==
    /\ StatsAllowed
    /\ Full
    /\ Observe(i, error)
    /\ refused' = Added(refused, i, Increment(i, error))
    /\ UNCHANGED <<cached, count, iteration, delivered, lost>>

LoadMetric(i, error) ==
    /\ StatsAllowed
    /\ ~Full
    /\ Observe(i, error)
    /\ cached' = cached \union {i}
    /\ count' = Added(count, i, Increment(i, error))
    /\ UNCHANGED <<iteration, refused, delivered, lost>>

Stats(i, error) == RefuseStats(i, error) \/ LoadMetric(i, error)

-----------------------------------------------------------------------------
(* send: the flush timer iterates over the cache in some order, that of    *)
(* the hashes the ids are.                                                 *)

\* The counts of the ids of a batch, added to those already in f.
Tally(f, batch) == [i \in Id |-> IF i \in batch THEN Plus(f[i], count[i]) ELSE f[i]]

\* The sink takes the batch, or drops it when it has too many calls running.
Report(batch) ==
    \/ delivered' = Tally(delivered, batch) /\ UNCHANGED lost
    \/ lost' = Tally(lost, batch) /\ UNCHANGED delivered

SendEmpty ==
    /\ ~locked
    /\ cached = {}
    /\ UNCHANGED vars

SendBegin ==
    /\ ~locked
    /\ cached # {}
    /\ locked' = TRUE
    /\ todo' = cached
    /\ request' = {}
    /\ sum' = 0
    /\ UNCHANGED <<cached, count, history>>

\* The request goes out once it has more than batchSize + 1 ids, then with
\* every id, and in any case with the last one.
BatchDue == sum > BatchSize \/ sum = Cardinality(cached) - 1

SendNext ==
    /\ locked
    /\ \E i \in todo :
          /\ todo' = todo \ {i}
          /\ IF BatchDue
               THEN Report(request \union {i}) /\ request' = {}
               ELSE request' = request \union {i} /\ UNCHANGED <<delivered, lost>>
    /\ sum' = sum + 1
    /\ UNCHANGED <<cached, count, locked, seen, observed, refused>>

\* Mutant: the entries stay cached.
SendEndKept ==
    /\ locked
    /\ todo = {}
    /\ locked' = FALSE
    /\ UNCHANGED <<cached, count, todo, request, sum, history>>

\* metricCache.clear(), whatever the sink did with the batches.
SendEnd ==
    /\ locked
    /\ todo = {}
    /\ locked' = FALSE
    /\ cached' = {}
    /\ count' = [i \in Id |-> Zero]
    /\ request' = {}
    /\ sum' = 0
    /\ UNCHANGED <<todo, history>>

Next ==
    \/ \E i \in Id, error \in BOOLEAN : Stats(i, error)
    \/ SendEmpty
    \/ SendBegin
    \/ SendNext
    \/ SendEnd

\* The flush timer enables itself again after every run, and the loop under
\* the lock goes on.  Requests need not come.
Fairness == WF_vars(SendBegin) /\ WF_vars(SendNext) /\ WF_vars(SendEnd)

Spec == Init /\ [][Next]_vars

FairSpec == Spec /\ Fairness

-----------------------------------------------------------------------------
(* Properties.                                                             *)

\* What the cache still owes for i: nothing once the iterator has passed it
\* and the request that held it is gone.
Owed(i) ==
    IF locked /\ i \notin todo \union request THEN Zero ELSE count[i]

\* Every request and every error is counted once: it is in the cache, or was
\* refused when it was full, or was reported exactly once, in a batch that
\* the sink took or in one that it dropped.  No interleaving of stats and send
\* and no size of the cache and the batches loses or doubles one.
Conservation ==
    \A i \in Id :
        observed[i] =
            Plus(Plus(Owed(i), refused[i]), Plus(delivered[i], lost[i]))

\* The cache holds one entry more than maxSize and no more.
CacheBound == Cardinality(cached) <= MaxSize + 1

\* What the aggregator promises: exact figures from a bounded cache.
AggregatorInv == Conservation /\ CacheBound

\* Nothing stays in the cache for ever.
EventuallyReported == \A i \in Id : i \in cached ~> i \notin cached
=============================================================================
