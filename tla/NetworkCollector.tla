--------------------------- MODULE NetworkCollector ---------------------------
(***************************************************************************)
(* The collector of network interfaces: NetworkInterface, which keeps a    *)
(* list of the interfaces ever seen, NetworkCollector::doit, called for    *)
(* each of them in the order of their names, and CacheStorage, which keeps *)
(* the last counters of each interface and the rates computed from them.   *)
(*                                                                         *)
(* A run is one call from the collection task of the host source.  The     *)
(* kernel changes interfaces and counters between any two steps of it.     *)
(***************************************************************************)
EXTENDS Naturals

CONSTANTS
    N,            \* the number of interfaces
    Word,         \* 2^w, the counters being w bits wide
    UptimeRead,   \* whether /proc/uptime can be read: a subset of BOOLEAN
    MaxTime, MaxCount, MaxChanges   \* bounds of the environment

\* Interfaces are known by the place of their name in the order of the map.
Interface == 1..N
Direction == {"rx", "tx"}
Counter   == {"rx_packets", "tx_packets", "rx_bytes", "tx_bytes"}
Link      == {"up", "down", "gone"}

\* Times and counters of the environment stay below the width of a word.
ASSUME CollectorAssumption ==
    /\ N \in Nat /\ Word \in Nat
    /\ MaxTime \in Nat \ {0} /\ MaxCount \in Nat /\ MaxChanges \in Nat
    /\ MaxTime < Word /\ MaxCount < Word
    /\ UptimeRead \subseteq BOOLEAN

VARIABLES
    now,         \* the uptime, in hundredths of a second
    link,        \* the state of each interface in the kernel
    traffic,     \* its counters in the kernel; a packet is one byte
    changes,     \* how often an interface changed
    int_list,    \* the interfaces seen so far
    stats,       \* their counters, as parsed last
    todo,        \* the interfaces this run has yet to visit
    listed,      \* the interfaces this run has put into the report
    caches,      \* the counters and rates of the loaded interfaces
    uptime_cs,   \* the uptimes at the last two loads
    cur,         \* which of the two the next load sets
    loads,       \* history: when an interface was loaded, and whether over the
                 \* interval since then
    recreated    \* history: the interfaces that came back with new counters

kernel  == <<now, link, traffic, changes, recreated>>
storage == <<caches, uptime_cs, cur, loads>>
vars    == <<kernel, int_list, stats, todo, listed, storage>>

Zero == [d \in Direction |-> 0]

TypeOK ==
    /\ now \in 0..MaxTime /\ changes \in 0..MaxChanges
    /\ link \in [Interface -> Link]
    /\ traffic \in [Interface -> [Direction -> 0..MaxCount]]
    /\ stats \in [Interface -> [Direction -> 0..MaxCount]]
    /\ todo \subseteq int_list /\ int_list \subseteq Interface
    /\ listed \subseteq DOMAIN caches
    /\ DOMAIN caches \subseteq int_list
    /\ \A i \in DOMAIN caches :
          caches[i] \in [total : [Counter -> 0..MaxCount],
                         rate  : [Counter -> 0..Word-1]]
    /\ uptime_cs \in [0..1 -> 0..MaxTime] /\ cur \in 0..1
    /\ loads \in [Interface -> [at : 0..MaxTime, exact : BOOLEAN]]
    /\ recreated \subseteq Interface

Init ==
    /\ now = 1 /\ changes = 0 /\ recreated = {}
    /\ link \in [Interface -> Link]
    /\ traffic = [i \in Interface |-> Zero] /\ stats = traffic
    /\ int_list = {} /\ todo = {} /\ listed = {}
    /\ caches = [i \in {} |-> 0]
    /\ uptime_cs = [n \in 0..1 |-> 0] /\ cur = 1
    /\ loads = [i \in Interface |-> [at |-> 0, exact |-> TRUE]]

-----------------------------------------------------------------------------
(* The kernel.                                                             *)

Tick ==
    /\ now < MaxTime
    /\ now' = now + 1
    /\ UNCHANGED <<link, traffic, changes, recreated, int_list, stats, todo,
                   listed, storage>>

Transfer(i, d) ==
    /\ link[i] = "up" /\ traffic[i][d] < MaxCount
    /\ traffic' = [traffic EXCEPT ![i][d] = @ + 1]
    /\ UNCHANGED <<now, link, changes, recreated, int_list, stats, todo,
                   listed, storage>>

\* An interface comes up, goes down or away; it comes back with new counters.
Change(i) ==
    /\ changes < MaxChanges
    /\ changes' = changes + 1
    /\ \E l \in Link \ {link[i]} : link' = [link EXCEPT ![i] = l]
    /\ IF link[i] = "gone"
       THEN /\ traffic' = [traffic EXCEPT ![i] = Zero]
            /\ recreated' = recreated \union {i}
       ELSE UNCHANGED <<traffic, recreated>>
    /\ UNCHANGED <<now, int_list, stats, todo, listed, storage>>

-----------------------------------------------------------------------------
(* read(): /proc/net/dev names every interface and its counters, SIOCGIFCONF *)
(* names those that have an address.  Interfaces are never taken off the     *)
(* list.                                                                     *)

Present == {i \in Interface : link[i] # "gone"}

\* Only if both fail does the run end at once.
ReadFails ==
    /\ todo = {}
    /\ listed' = {}
    /\ UNCHANGED <<kernel, int_list, stats, todo, storage>>

ReadProc ==
    /\ todo = {}
    /\ int_list' = int_list \union Present
    /\ stats' = [i \in Interface |-> IF i \in Present THEN traffic[i]
                                                      ELSE stats[i]]
    /\ todo' = int_list'
    /\ listed' = {}
    /\ UNCHANGED <<kernel, storage>>

\* The addresses alone: interfaces without counters.
ReadConfig ==
    /\ todo = {}
    /\ \E addressed \in SUBSET Present : int_list' = int_list \union addressed
    /\ todo' = int_list'
    /\ listed' = {}
    /\ UNCHANGED <<kernel, stats, storage>>

-----------------------------------------------------------------------------
(* CacheStorage::load                                                      *)

\* The counter that is compared, and the one that is stored.
Measured(c) == IF c \in {"rx_packets", "rx_bytes"} THEN "rx" ELSE "tx"

StoredSwapped(c) == IF Measured(c) = "rx" THEN "tx" ELSE "rx"  \* mutant

\* The bytes transmitted are overwritten with the bytes received.
Stored(c) == IF c = "tx_bytes" THEN "rx" ELSE Measured(c)

Minus(a, b) == IF a >= b THEN a - b ELSE a + Word - b

\* get_interval
Interval(prev, curr) == IF curr = prev THEN 1 ELSE Minus(curr, prev)

Total(i, c) == IF i \in DOMAIN caches THEN caches[i].total[c] ELSE 0

\* The state of an interface after a load over the interval itv.
Loaded(i, itv) ==
    [total |-> [c \in Counter |-> stats[i][Stored(c)]],
     rate  |-> [c \in Counter |->
                  Minus(stats[i][Measured(c)], Total(i, c)) \div itv]]

\* Mutant: the two uptimes are not exchanged.
LoadInPlace(i) ==
    \E read \in UptimeRead :
       LET uptime == IF read THEN [uptime_cs EXCEPT ![cur] = now] ELSE uptime_cs
           itv    == Interval(uptime[1 - cur], uptime[cur])
       IN  /\ uptime_cs' = uptime /\ cur' = cur
           /\ caches' = [j \in DOMAIN caches \union {i} |->
                           IF j = i THEN Loaded(i, itv) ELSE caches[j]]
           /\ loads' = [loads EXCEPT ![i] =
                [at |-> now, exact |-> itv = Interval(@.at, now)]]

\* The uptimes are those of the last two loads, of whichever interface.  An
\* uptime that cannot be read stays what it was two loads ago.
Load(i) ==
    \E read \in UptimeRead :
       LET uptime == IF read THEN [uptime_cs EXCEPT ![cur] = now] ELSE uptime_cs
           itv    == Interval(uptime[1 - cur], uptime[cur])
       IN  /\ uptime_cs' = uptime /\ cur' = 1 - cur
           /\ caches' = [j \in DOMAIN caches \union {i} |->
                           IF j = i THEN Loaded(i, itv) ELSE caches[j]]
           /\ loads' = [loads EXCEPT ![i] =
                [at |-> now, exact |-> itv = Interval(@.at, now)]]

\* What a metric callback reports of the counter c, under the mutex of load:
\* each total and each rate, with the name of the interface.
Reported(c) ==
    [i \in DOMAIN caches |-> [data |-> caches[i].total[c],
                              bps  |-> caches[i].rate[c]]]

-----------------------------------------------------------------------------
(* doit(), for the interface whose turn it is.                             *)

Turn(i) == i \in todo /\ \A j \in todo : i <= j

\* Mutants: an interface that is gone is passed over; one that is down ends
\* the run.
SkipGone(i) ==
    /\ Turn(i) /\ link[i] = "gone"
    /\ todo' = todo \ {i}
    /\ UNCHANGED <<kernel, int_list, stats, listed, storage>>

StopDown(i) ==
    /\ Turn(i) /\ link[i] = "down"
    /\ todo' = {}
    /\ UNCHANGED <<kernel, int_list, stats, listed, storage>>

\* The flags of an interface that is gone cannot be fetched: the error ends
\* the whole run.
VisitGone(i) ==
    /\ Turn(i) /\ link[i] = "gone"
    /\ todo' = {}
    /\ UNCHANGED <<kernel, int_list, stats, listed, storage>>

VisitDown(i) ==
    /\ Turn(i) /\ link[i] = "down"
    /\ todo' = todo \ {i}
    /\ UNCHANGED <<kernel, int_list, stats, listed, storage>>

VisitUp(i) ==
    /\ Turn(i) /\ link[i] = "up"
    /\ todo' = todo \ {i}
    /\ listed' = listed \union {i}
    /\ Load(i)
    /\ UNCHANGED <<kernel, int_list, stats>>

Run == ReadProc \/ ReadConfig \/ ReadFails

Visit(i) == VisitGone(i) \/ VisitDown(i) \/ VisitUp(i)

Next ==
    \/ Tick
    \/ \E i \in Interface : Change(i) \/ \E d \in Direction : Transfer(i, d)
    \/ Run
    \/ \E i \in Interface : Visit(i)

Spec == Init /\ [][Next]_vars

\* The task runs every ten seconds and a run does not stop half way;
\* /proc/net/dev cannot fail to be read for ever.
FairSpec ==
    /\ Spec
    /\ SF_vars(ReadProc)
    /\ \A i \in Interface : WF_vars(Visit(i))

-----------------------------------------------------------------------------

\* A rate never exceeds what the counter has counted: no difference wraps
\* unless the interface was created again, or the counter is the one that is
\* overwritten (load).
NoWrap ==
    \A c \in Counter \ {"tx_bytes"} :
       \A i \in DOMAIN Reported(c) \ recreated :
          Reported(c)[i].bps <= Reported(c)[i].data

\* The interval a rate is divided by is the time since the same interface was
\* loaded before (get_interval: "Compute time interval").
IntervalOfInterface ==
    \A i \in DOMAIN caches : loads[i].exact

\* As long as one interface only was ever loaded, and the uptime can be read,
\* that is so: the two uptimes that the interfaces share are those of its last
\* two loads.
IntervalOfSole ==
    \A i \in Interface :
       DOMAIN caches = {i} /\ UptimeRead = {TRUE} => loads[i].exact

\* The counters and the rates are well typed; the rates of the packets and bytes
\* received and of the packets transmitted wrap only where the interface was
\* created again; and those of a sole interface are over its own interval.
RateInv == TypeOK /\ NoWrap /\ IntervalOfSole

\* The bytes transmitted that are reported are the bytes transmitted
\* (network_device_static_cache: "total bytes transmitted").
TransmittedReported ==
    \A i \in DOMAIN caches :
       todo = {} => Reported("tx_bytes")[i].data \in 0..traffic[i]["tx"]

\* An interface that stays up is in reports for ever, provided none before it
\* that was ever seen stays away (collect goes on past interfaces that are down).
ReachedWhenUp ==
    \A i \in Interface :
       <>[](/\ link[i] = "up"
            /\ \A j \in 1..(i-1) : j \in int_list => link[j] # "gone")
       => []<>(i \in listed)

\* An interface that was seen and is gone hides all the later ones: from then
\* on no report lists them, though they are up (doit's -1 ends collect, and the
\* list is never cleaned).
GoneHidesLater ==
    \A i, j \in Interface :
       i < j => (<>[](i \in int_list /\ link[i] = "gone")
                 => <>[](j \notin listed))
=============================================================================
