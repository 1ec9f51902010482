------------------------------- MODULE CriClient -------------------------------
(***************************************************************************)
(* The client of the container runtime (DockerCRIClient).  Every Period    *)
(* seconds a timer clears request_ and asks for the list of containers.    *)
(* The answer makes an item for each container and asks for its            *)
(* statistics; the answer to that puts the item into request_.  The        *)
(* collection task of the host source takes what is there.                 *)
(*                                                                         *)
(* Every call has a deadline, so that calls of a round end at last         *)
(* 2 * Deadline seconds after its beginning; gRPC is external.             *)
(***************************************************************************)
EXTENDS Naturals, FiniteSets

CONSTANTS
    Container,          \* the ids of containers
    Period, Deadline,   \* of the timer and of a call, in seconds
    MaxRounds, MaxChanges   \* bounds

ASSUME CriAssumption ==
    /\ IsFiniteSet(Container)
    /\ Period \in Nat \ {0} /\ Deadline \in Nat \ {0}
    /\ MaxRounds \in Nat /\ MaxChanges \in Nat

\* An item is made for a container in a round.
Item == [container : Container, round : 1..MaxRounds]

VARIABLES
    exists,     \* the containers there are
    changes,    \* how often one was made or removed
    round,      \* the rounds the timer has begun
    listing,    \* the rounds whose list has not been answered
    asking,     \* the items whose statistics have been asked for
    heap,       \* the items allocated
    request_,   \* the items answered
    report,     \* the items of the last report
    failed      \* history: the items whose statistics were not answered

vars == <<exists, changes, round, listing, asking, heap, request_, report, failed>>

TypeOK ==
    /\ exists \subseteq Container /\ changes \in 0..MaxChanges
    /\ round \in 0..MaxRounds /\ listing \subseteq 1..round
    /\ \A items \in {asking, heap, request_, report, failed} :
          items \subseteq Item /\ \A i \in items : i.round <= round
    /\ asking \intersect request_ = {}

Init ==
    /\ exists \in SUBSET Container /\ changes = 0
    /\ round = 0 /\ listing = {} /\ asking = {}
    /\ heap = {} /\ request_ = {} /\ report = {} /\ failed = {}

\* A container is made or removed.
Change(c) ==
    /\ changes < MaxChanges
    /\ changes' = changes + 1
    /\ exists' = IF c \in exists THEN exists \ {c} ELSE exists \union {c}
    /\ UNCHANGED <<round, listing, asking, heap, request_, report, failed>>

\* Calls that end n deadlines after the beginning of round r may be out when
\* another round begins.
MayBeOut(r, next, n) == (next - r) * Period < n * Deadline

Out(next) == /\ \A r \in listing : MayBeOut(r, next, 1)
             /\ \A i \in asking : MayBeOut(i.round, next, 2)

\* The rounds of which calls may be out at a time.
RoundsOut == Cardinality({r \in 1..MaxRounds : MayBeOut(r, MaxRounds, 2)})

\* Mutant: what was answered is not cleared.
TimerKept ==
    /\ round < MaxRounds
    /\ round' = round + 1
    /\ Out(round')
    /\ listing' = listing \union {round'}
    /\ UNCHANGED <<exists, changes, asking, heap, request_, report, failed>>

\* The timer: clear under the lock, then ask for the list.
Timer ==
    /\ round < MaxRounds
    /\ round' = round + 1
    /\ Out(round')
    /\ heap' = heap \ request_
    /\ request_' = {}
    /\ listing' = listing \union {round'}
    /\ UNCHANGED <<exists, changes, asking, report, failed>>

\* OnListContainersResp
ListAnswered(r) ==
    /\ r \in listing
    /\ listing' = listing \ {r}
    /\ LET items == {[container |-> c, round |-> r] : c \in exists}
       IN  heap' = heap \union items /\ asking' = asking \union items
    /\ UNCHANGED <<exists, changes, round, request_, report, failed>>

ListFailed(r) ==
    /\ r \in listing
    /\ listing' = listing \ {r}
    /\ UNCHANGED <<exists, changes, round, asking, heap, request_, report, failed>>

\* OnContainerInfoResp: into request_, whichever round it is for.
StatsAnswered(i) ==
    /\ i \in asking
    /\ asking' = asking \ {i}
    /\ request_' = request_ \union {i}
    /\ UNCHANGED <<exists, changes, round, listing, heap, report, failed>>

\* Mutant: the item of a call that failed is put into the report.
StatsFailedKept(i) ==
    /\ i \in asking
    /\ asking' = asking \ {i}
    /\ request_' = request_ \union {i}
    /\ failed' = failed \union {i}
    /\ UNCHANGED <<exists, changes, round, listing, heap, report>>

\* Nobody frees the item of a call that failed.
StatsFailed(i) ==
    /\ i \in asking
    /\ asking' = asking \ {i}
    /\ failed' = failed \union {i}
    /\ UNCHANGED <<exists, changes, round, listing, heap, request_, report>>

\* Mutant: the answers stay when a report has taken them.
CollectKept ==
    /\ request_ # {}
    /\ report' = request_
    /\ heap' = heap \ (report \ request_)
    /\ UNCHANGED <<exists, changes, round, listing, asking, request_, failed>>

\* GetContainerList, and the report if there is anything; the report before is
\* freed.
Collect ==
    /\ request_ # {}
    /\ report' = request_
    /\ heap' = heap \ report
    /\ request_' = {}
    /\ UNCHANGED <<exists, changes, round, listing, asking, failed>>

Next ==
    \/ \E c \in Container : Change(c)
    \/ Timer \/ Collect
    \/ \E r \in listing : ListAnswered(r) \/ ListFailed(r)
    \/ \E i \in asking : StatsAnswered(i) \/ StatsFailed(i)

Spec == Init /\ [][Next]_vars

-----------------------------------------------------------------------------

\* The items of the container c.
Of(items, c) == {i \in items : i.container = c}

\* Late answers come after the clear of a later round, so that a container may
\* be in a report more than once, but not more often than rounds are out.
CopiesBound ==
    \A c \in Container : Cardinality(Of(report, c)) <= RoundsOut

\* No item is reported from a round that was over when the period began.
NotOlder ==
    \A i \in request_ : MayBeOut(i.round, round, 2)

\* The items allocated are those asked for, answered or in a report, and those
\* whose call failed, which are never freed: no item is freed while in use.
HeapExact ==
    /\ heap = asking \union request_ \union report \union failed
    /\ failed \intersect (asking \union request_ \union report) = {}

\* The items that the callbacks and the collection hand on to each other are
\* well typed, allocated as long as they are used, and never of an old round.
ItemInv == TypeOK /\ HeapExact /\ NotOlder

\* What the reports hold: items in use, and no more copies than rounds are out.
ReportInv == ItemInv /\ CopiesBound

\* An item is in one report only.
ReportedOnce == [][report' # report => report' \intersect report = {}]_vars
=============================================================================
