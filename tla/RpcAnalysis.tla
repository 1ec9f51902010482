----------------------------- MODULE RpcAnalysis -----------------------------
(***************************************************************************)
(* The topology analysis (RPCAnalysisListener under the topology           *)
(* Processor).  A batch of spans is parsed into traffic entries, and       *)
(* build() counts each of them and registers the services and relations    *)
(* that its two caches do not remember.  Batches come one at a time, under *)
(* the mutex of the trace pipeline; the two timers of the processor run on *)
(* the event loop thread and share the caches, the aggregators and the     *)
(* sink with build(), each under its own lock only.                        *)
(*                                                                         *)
(* The caches are recency lists (LruCache implements them), the sink is a  *)
(* pool of slots (TopologySink implements it), and an aggregator is the    *)
(* count of what it was given (MetricAggregator loses none of it).  The    *)
(* Kubernetes registry does not change meanwhile.  Ids are hashes of names *)
(* in the code; here they are the names, which supposes no collisions.     *)
(***************************************************************************)
EXTENDS Naturals, Sequences, FiniteSets

CONSTANTS
    Null,          \* findServiceName found nothing
    Name,          \* service names, peers and addresses
    NoName,        \* the empty name
    Registry,      \* findServiceName: Kubernetes name of a peer or address
    Request,       \* calls between services
    Span,          \* the spans that describe them
    BatchSize,     \* bound on the spans in one batch
    MaxEntries,    \* size of each cache
    Threshold,     \* max_concurrent_requests of the sink
    Capacity       \* the sink's hard limit

SpanLayer == {"Unknown", "Database", "RPCFramework", "Http", "MQ", "Cache", "FAAS"}

\* What the trace processor makes of SkyWalking spans.  A server span has one
\* link: its only reference, or one without a parent when it has none.  A
\* client span always has a peer and a layer, if only empty ones.  Entry and
\* exit spans of a message queue become consumers and producers, which count as
\* internal here: parseLocal does nothing with them.
SpanRecord ==
    [kind : {"server"}, request : Request, service : Name, ip : Name,
     parent : Name, parentIp : Name]
    \union
    [kind : {"client"}, request : Request, service : Name, ip : Name,
     peer : Name, layer : SpanLayer \ {"MQ"}]
    \union
    [kind : {"internal"}]

Relation == Name \X Name
Id == Name \union Relation

\* The registry knows addresses and host names; the names it gives have neither
\* the dots nor the colons of these.  One client makes a request, one server
\* serves it, and each reports it once.
ASSUME AnalysisAssumption ==
    /\ NoName \in Name /\ Null \notin Name
    /\ Name \intersect Relation = {}
    /\ Registry \in [Name -> Name \union {Null}] /\ Registry[NoName] = Null
    /\ \A n \in Name : Registry[n] # Null => Registry[Registry[n]] = Null
    /\ Span \subseteq SpanRecord
    /\ \A s, t \in {u \in Span : u.kind # "internal"} :
            s.kind = t.kind /\ s.request = t.request => s = t
    /\ BatchSize \in Nat \ {0}
    /\ MaxEntries \in Nat /\ MaxEntries >= 2
    /\ Threshold \in Nat
    /\ Capacity \in Nat /\ Capacity > Threshold

VARIABLES
    pending,             \* the spans not reported yet
    callingInTraffic,    \* entries of server spans that build() has to do
    callingOutTraffic,   \* entries of client spans that build() has to do
    step,                \* where build() is in the entry it does
    exist,               \* its local: the id was in the cache
    accepted,            \* the sink took the service, and Swap emptied it
    inLru, outLru,       \* inLruCache, outLruCache
    clearing,            \* clear() has cleared the first cache only
    slots,               \* slots of the sink taken
    counted,             \* how often the aggregators were given a request
    offered,             \* history: offers of a service to the sink since
                         \* inLruCache last forgot it
    linked,              \* history: the same for relations and outLruCache
    overlap              \* history: ids in the works when their cache was
                         \* cleared

traffic   == <<pending, callingInTraffic, callingOutTraffic>>
vars      == <<traffic, step, exist, accepted, inLru, outLru, clearing,
               slots, counted, offered, linked, overlap>>

In  == INSTANCE RecencyList WITH recent <- inLru, Key <- Id, MaxSize <- MaxEntries
Out == INSTANCE RecencyList WITH recent <- outLru, Key <- Relation, MaxSize <- MaxEntries

Sink == INSTANCE SlotPool WITH used <- slots

Step == {"next", "put", "register", "relation", "lookup", "link", "stats",
         "outLookup", "outPut", "outLink"}

Entry == [request : Request, source : Name, dest : Name, virtual : BOOLEAN]

EntriesOf(s) == {s[i] : i \in DOMAIN s}

TypeOK ==
    /\ pending \subseteq Span
    /\ callingInTraffic \in Seq(Entry) /\ callingOutTraffic \in Seq(Entry)
    /\ step \in Step
    /\ exist \in BOOLEAN /\ accepted \in BOOLEAN /\ clearing \in BOOLEAN
    /\ inLru \in Seq(Id) /\ Len(inLru) <= MaxEntries
    /\ outLru \in Seq(Relation) /\ Len(outLru) <= MaxEntries
    /\ slots \in 0..Capacity
    /\ counted \in [Request -> 0..2]
    /\ offered \in [Name -> 0..2]
    /\ linked \in [Relation -> 0..2]
    /\ overlap \subseteq Id

Init ==
    /\ pending = Span
    /\ callingInTraffic = <<>> /\ callingOutTraffic = <<>>
    /\ step = "next"
    /\ exist = FALSE /\ accepted = FALSE
    /\ inLru = <<>> /\ outLru = <<>>
    /\ clearing = FALSE
    /\ slots = 0
    /\ counted = [r \in Request |-> 0]
    /\ offered = [n \in Name |-> 0]
    /\ linked = [r \in Relation |-> 0]
    /\ overlap = {}

-----------------------------------------------------------------------------
(* Parsing.                                                                *)

\* The Kubernetes name of a service known under a name at an address, or the
\* name it goes by when the registry knows neither.
KubernetesName(name, ip) ==
    IF Registry[name] # Null THEN Registry[name]
    ELSE IF Registry[ip] # Null THEN Registry[ip]
    ELSE name

\* The layers of services that are not traced themselves: not UNDEFINED and not
\* GENERAL after identifyRemoteServiceLayer.
Virtual(layer) == layer \in {"Database", "MQ", "Cache", "FAAS"}

ParseEntry(s) ==
    [request |-> s.request,
     source  |-> KubernetesName(s.parent, s.parentIp),
     dest    |-> KubernetesName(s.service, s.ip),
     virtual |-> FALSE]

\* The instance of the destination is the peer again, and has no address.
ParseExit(s) ==
    [request |-> s.request,
     source  |-> KubernetesName(s.service, s.ip),
     dest    |-> KubernetesName(s.peer, NoName),
     virtual |-> Virtual(s.layer)]

\* The spans of a kind in a batch, each reported once, in some order.
Batches(kind) ==
    LET spans == {s \in pending : s.kind = kind}
    IN  {b \in UNION {[1..n -> spans] : n \in 0..BatchSize} :
            \A i, j \in DOMAIN b : b[i] = b[j] => i = j}

Intercept ==
    /\ step = "next" /\ callingInTraffic = <<>> /\ callingOutTraffic = <<>>
    /\ \E servers \in Batches("server"), clients \in Batches("client"),
          locals \in Batches("internal") :
          /\ Len(servers) + Len(clients) + Len(locals) \in 1..BatchSize
          /\ pending' = pending \ (EntriesOf(servers) \union EntriesOf(clients)
                                    \union EntriesOf(locals))
          /\ callingInTraffic' = [i \in DOMAIN servers |-> ParseEntry(servers[i])]
          /\ callingOutTraffic' = [i \in DOMAIN clients |-> ParseExit(clients[i])]
    /\ UNCHANGED <<step, exist, accepted, inLru, outLru, clearing, slots,
                   counted, offered, linked, overlap>>

-----------------------------------------------------------------------------
(* build(), first loop: entries of server spans.                           *)

in == Head(callingInTraffic)

InRelation == <<in.source, in.dest>>

\* A service that the cache forgets may be offered to the sink again.
Forget(ids) ==
    /\ offered' = [n \in Name |-> IF n \in ids THEN 0 ELSE offered[n]]
    /\ overlap' = overlap \ (ids \intersect Name)

\* Mutant: the service is looked up after it was put.
InLookupLate ==
    /\ step = "next" /\ callingInTraffic # <<>>
    /\ exist' = TRUE
    /\ step' = "put"
    /\ UNCHANGED <<traffic, accepted, inLru, outLru, clearing, slots,
                   counted, offered, linked, overlap>>

InLookup ==
    /\ step = "next" /\ callingInTraffic # <<>>
    /\ exist' = (in.dest \in In!Remembered)
    /\ step' = "put"
    /\ UNCHANGED <<traffic, accepted, inLru, outLru, clearing, slots,
                   counted, offered, linked, overlap>>

\* Mutant: the service is not remembered.
InPutForgotten ==
    /\ step = "put"
    /\ accepted' = FALSE
    /\ step' = IF exist THEN "relation" ELSE "register"
    /\ UNCHANGED <<traffic, exist, inLru, outLru, clearing, slots, counted,
                   offered, linked, overlap>>

InPut ==
    /\ step = "put"
    /\ In!Use(in.dest)
    /\ Forget(In!ForgottenBy(in.dest))
    /\ accepted' = FALSE
    /\ step' = IF exist THEN "relation" ELSE "register"
    /\ UNCHANGED <<traffic, exist, outLru, clearing, slots, counted, linked>>

\* Mutant: a full sink is waited for.
RegisterWaiting ==
    /\ step = "register"
    /\ Sink!Acquire /\ accepted' = TRUE
    /\ offered' = [offered EXCEPT ![in.dest] = @ + 1]
    /\ step' = "relation"
    /\ UNCHANGED <<traffic, exist, inLru, outLru, clearing, counted, linked, overlap>>

\* registerService: the sink swaps the service into its call, which leaves an
\* empty one with the id 0 here, or drops it and leaves it as it is.
RegisterService ==
    /\ step = "register"
    /\ \/ Sink!Acquire /\ accepted' = TRUE
       \/ Sink!Refuse /\ accepted' = FALSE
    /\ offered' = [offered EXCEPT ![in.dest] = @ + 1]
    /\ step' = "relation"
    /\ UNCHANGED <<traffic, exist, inLru, outLru, clearing, counted, linked, overlap>>

InPutRelation ==
    /\ step = "relation"
    /\ In!Use(InRelation)
    /\ Forget(In!ForgottenBy(InRelation))
    /\ step' = "lookup"
    /\ UNCHANGED <<traffic, exist, accepted, outLru, clearing, slots, counted, linked>>

\* The id that decides about the relation is that of the service: of the one
\* just put, or 0 if the sink took it.  No id in the cache is 0.
InLookupRelation ==
    /\ step = "lookup"
    /\ exist' = (~accepted /\ in.dest \in In!Remembered)
    /\ step' = IF exist' THEN "stats" ELSE "link"
    /\ UNCHANGED <<traffic, accepted, inLru, outLru, clearing, slots,
                   counted, offered, linked, overlap>>

RegisterInRelation ==
    /\ step = "link"
    /\ Sink!Acquire \/ Sink!Refuse
    /\ step' = "stats"
    /\ UNCHANGED <<traffic, exist, accepted, inLru, outLru, clearing, counted,
                   offered, linked, overlap>>

InStats ==
    /\ step = "stats"
    /\ counted' = [counted EXCEPT ![in.request] = @ + 1]
    /\ callingInTraffic' = Tail(callingInTraffic)
    /\ step' = "next"
    /\ UNCHANGED <<pending, callingOutTraffic, exist, accepted, inLru, outLru,
                   clearing, slots, offered, linked, overlap>>

-----------------------------------------------------------------------------
(* build(), second loop: entries of client spans.                          *)

out == Head(callingOutTraffic)

OutRelation == <<out.source, out.dest>>

\* Mutant: the virtual ones only.
CountedVirtual == out.virtual

\* Counted here when no server span will count it: when the destination is
\* virtual, or the registry does not know it by the name it has here.
CountedAtExit == out.virtual \/ Registry[out.dest] = Null

OutStats ==
    /\ step = "next" /\ callingInTraffic = <<>> /\ callingOutTraffic # <<>>
    /\ counted' = IF CountedAtExit
                    THEN [counted EXCEPT ![out.request] = @ + 1] ELSE counted
    /\ step' = "outLookup"
    /\ UNCHANGED <<traffic, exist, accepted, inLru, outLru, clearing, slots,
                   offered, linked, overlap>>

OutLookup ==
    /\ step = "outLookup"
    /\ exist' = (OutRelation \in Out!Remembered)
    /\ step' = "outPut"
    /\ UNCHANGED <<traffic, accepted, inLru, outLru, clearing, slots,
                   counted, offered, linked, overlap>>

\* Mutant: a relation is not remembered.
OutPutForgotten ==
    /\ step = "outPut"
    /\ IF exist
         THEN callingOutTraffic' = Tail(callingOutTraffic) /\ step' = "next"
         ELSE UNCHANGED callingOutTraffic /\ step' = "outLink"
    /\ UNCHANGED <<pending, callingInTraffic, exist, accepted, inLru, outLru,
                   clearing, slots, counted, offered, linked, overlap>>

OutPut ==
    /\ step = "outPut"
    /\ Out!Use(OutRelation)
    /\ LET forgotten == Out!ForgottenBy(OutRelation)
       IN  /\ linked' = [r \in Relation |-> IF r \in forgotten THEN 0 ELSE linked[r]]
           /\ overlap' = overlap \ forgotten
    /\ IF exist
         THEN callingOutTraffic' = Tail(callingOutTraffic) /\ step' = "next"
         ELSE UNCHANGED callingOutTraffic /\ step' = "outLink"
    /\ UNCHANGED <<pending, callingInTraffic, exist, accepted, inLru,
                   clearing, slots, counted, offered>>

RegisterOutRelation ==
    /\ step = "outLink"
    /\ Sink!Acquire \/ Sink!Refuse
    /\ linked' = [linked EXCEPT ![OutRelation] = @ + 1]
    /\ callingOutTraffic' = Tail(callingOutTraffic)
    /\ step' = "next"
    /\ UNCHANGED <<pending, callingInTraffic, exist, accepted, inLru, outLru,
                   clearing, counted, offered, overlap>>

Build ==
    \/ InLookup \/ InPut \/ RegisterService
    \/ InPutRelation \/ InLookupRelation \/ RegisterInRelation \/ InStats
    \/ OutStats \/ OutLookup \/ OutPut \/ RegisterOutRelation

-----------------------------------------------------------------------------
(* The event loop thread, and the callbacks of the sink.                   *)

\* The id of the entry that is being looked up, put or registered.
InWorks ==
    IF step \in {"put", "register", "relation", "lookup", "link"} THEN {in.dest} ELSE {}
OutWorks == IF step \in {"outPut", "outLink"} THEN {OutRelation} ELSE {}

ClearIn ==
    /\ ~clearing
    /\ inLru' = <<>>
    /\ clearing' = TRUE
    /\ offered' = [n \in Name |-> 0]
    /\ overlap' = (overlap \ Name) \union InWorks
    /\ UNCHANGED <<traffic, step, exist, accepted, outLru, slots, counted, linked>>

ClearOut ==
    /\ clearing
    /\ outLru' = <<>>
    /\ clearing' = FALSE
    /\ linked' = [r \in Relation |-> 0]
    /\ overlap' = (overlap \ Relation) \union OutWorks
    /\ UNCHANGED <<traffic, step, exist, accepted, inLru, slots, counted, offered>>

\* A batch of counts that flush() reports.
FlushMetric ==
    /\ ~clearing
    /\ Sink!Acquire \/ Sink!Refuse
    /\ UNCHANGED <<traffic, step, exist, accepted, inLru, outLru, clearing,
                   counted, offered, linked, overlap>>

Complete ==
    /\ Sink!Release
    /\ UNCHANGED <<traffic, step, exist, accepted, inLru, outLru, clearing,
                   counted, offered, linked, overlap>>

Next == Intercept \/ Build \/ ClearIn \/ ClearOut \/ FlushMetric \/ Complete

\* A batch that was started is finished: nothing in build() waits.
Spec == Init /\ [][Next]_vars /\ WF_vars(Build)

-----------------------------------------------------------------------------
(* Properties.                                                             *)

\* A service, and a relation seen by its client, is offered to the sink once
\* as long as its cache remembers it; a clear in the middle of the lookup, the
\* put and the offer costs one offer more, and never two.
OfferedOnce ==
    /\ \A n \in Name : offered[n] <= (IF n \in overlap THEN 2 ELSE 1)
    /\ \A r \in Relation : linked[r] <= (IF r \in overlap THEN 2 ELSE 1)

\* A service that is remembered was offered, or is about to be, unless a clear
\* came between its lookup and its put: then it stays unregistered.
RememberedOffered ==
    \A n \in Name \intersect In!Remembered :
        \/ offered[n] >= 1
        \/ n \in overlap
        \/ step = "register" /\ n = in.dest

\* The relation a server span shows is only offered together with a service
\* that the sink just took: the callers of a service already known are left
\* to client spans, unless a clear came in between.
InRelationWithService ==
    step = "link" => accepted \/ in.dest \in overlap

\* The analysis is well typed, forgets no service without a clear and offers a
\* server's relation with its service only.
RegistrationInv == TypeOK /\ RememberedOffered /\ InRelationWithService

\* The server of r has an agent, and reports a span.
HasServerSpan(r) == \E s \in Span : s.kind = "server" /\ s.request = r

\* A span of r is not reported yet, or an entry of it not built.
Busy(r) ==
    \/ \E e \in EntriesOf(callingInTraffic) \union EntriesOf(callingOutTraffic) :
          e.request = r
    \/ \E s \in pending : s.kind # "internal" /\ s.request = r

\* When everything known of a request has been analysed, it has been counted;
\* one to a service without an agent exactly once.
Counted ==
    \A r \in Request : ~Busy(r) /\ (\E s \in Span : s.kind # "internal" /\ s.request = r) =>
        /\ counted[r] >= 1
        /\ ~HasServerSpan(r) => counted[r] = 1

\* No request is counted both by its client span and by its server span, as
\* the comment in build() has it.  The name it looks up has been translated
\* by the registry already, and the registry does not know its own names.
CountedOnce == \A r \in Request : counted[r] <= 1

\* Every span is analysed to the end, however full the sink is.
BatchesEnd ==
    \A r \in Request : [](~(\E s \in pending : s.kind # "internal" /\ s.request = r)
                            => <>~Busy(r))
=============================================================================
