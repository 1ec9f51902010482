---------------------------- MODULE HostReportProofs ----------------------------
(***************************************************************************)
(* The collectors of which the task of the host source takes its report.   *)
(*                                                                         *)
(* The container runtime: for every set of containers, every period and    *)
(* every deadline, however late the answers come, no item is freed while   *)
(* it is used or leaked but by a failed call, none is reported twice, none *)
(* is older than the calls of its round may be, and a container is in a    *)
(* report once for each round that may be out and not more often.          *)
(*                                                                         *)
(* Docker: for every set of containers, the answers are of the containers  *)
(* of the list, whatever is lost with a connection, and the report is      *)
(* replaced only by a complete one.                                        *)
(*                                                                         *)
(* The control groups: for every tree of groups, whatever the kernel makes *)
(* and removes beside the walk, the mounts are one tree and those of the   *)
(* groups that stay are all there, with their figures.                     *)
(*                                                                         *)
(* The process reader: however processes begin, work and end and pids are  *)
(* given again, the rates of a report are those of its period, and what it *)
(* says of the graphics processors is the process's own, whichever call to *)
(* them fails, and is said once.                                           *)
(*                                                                         *)
(* The metrics: however the kernel counts and whatever cannot be read, the *)
(* usage of the processor is that of the period, and an export fails only  *)
(* for the memory of the machine.                                          *)
(*                                                                         *)
(* The mounts: whatever is mounted and unmounted beside the task, and      *)
(* whichever mount cannot be asked, one that stays in place is reported,   *)
(* once and with its own numbers.                                          *)
(***************************************************************************)
EXTENDS CriClient, DockerClient, CGroup, ProcReader, HostMetrics, MountReport,
        SequenceTheorems, FiniteSetTheorems, WellFoundedInduction, TLAPS

\* An item is in one place at a time.
Separate == report \intersect (asking \union request_) = {}

\* The items of a round are made when its list is answered.
Fresh == \A i \in heap : i.round \notin listing

\* The calls that are out may be.
Timely ==
    /\ \A r \in listing : MayBeOut(r, round, 1)
    /\ \A i \in asking : MayBeOut(i.round, round, 2)

\* The report was made in a round s of which its items may be.
MadeIn(s) == \A i \in report : i.round <= s /\ MayBeOut(i.round, s, 2)

IInv == /\ TypeOK /\ HeapExact /\ NotOlder
        /\ Separate /\ Fresh /\ Timely
        /\ \E s \in 0..round : MadeIn(s)

\* The places of the details in a queue of requests.
DetailsIn(requests) == {i \in DOMAIN requests : requests[i] # List}

Requests == Seq(DockerContainer \union {List})

\* What the collector and its connection hold.
DockerTypes ==
    /\ running \subseteq DockerContainer
    /\ conn_ = NoConn \/ conn_ \in Requests
    /\ ticks \in Nat /\ lost \in Nat

\* The inductive invariant of the Docker collector.
DockerIInv == DockerTypes /\ DockerInv /\ listed \subseteq KnownContainers

\* A directory that is open, and what is left of its listing.
Frame == [dir : Group, files : SUBSET DOMAIN Content, groups : SUBSET Group]

\* The groups there are, and those that were there all the time, are trees.
TreeOfGroups ==
    /\ alive \subseteq Group /\ Root \in alive
    /\ \A g \in alive \ {Root} : Parent[g] \in alive
    /\ steady \subseteq alive
    /\ \A g \in steady \ {Root} : Parent[g] \in steady

\* Each mount is in the list of its parent and in no other one, once.
TreeOfMounts ==
    /\ Mounted \subseteq Group
    /\ \A g \in Mounted :
          /\ DOMAIN mount[g] = {"children", "figures"}
          /\ mount[g].children \in Seq(Mounted \ {Root})
          /\ \A i, j \in 1..Len(mount[g].children) :
                mount[g].children[i] = mount[g].children[j] => i = j
          /\ \A i \in 1..Len(mount[g].children) : Parent[mount[g].children[i]] = g
    /\ \A h \in Mounted \ {Root} :
          /\ Parent[h] \in Mounted
          /\ \E i \in 1..Len(mount[Parent[h]].children) : mount[Parent[h]].children[i] = h

\* What is left of a listing are children of its directory without a mount, and
\* no directory is open twice.
WalkFits ==
    /\ walk \in Seq(Frame)
    /\ \A i \in 1..Len(walk) :
          /\ walk[i].dir \in Mounted
          /\ walk[i].files \subseteq File[walk[i].dir]
          /\ \A g \in walk[i].groups : g # Root /\ Parent[g] = walk[i].dir /\ g \notin Mounted
    /\ \A i, j \in 1..Len(walk) : walk[i].dir = walk[j].dir => i = j

\* The directory listed last has a mount, is not open and has no child yet.
PendingFits ==
    pending # NoGroup =>
        /\ pending \in Mounted
        /\ \A i \in 1..Len(walk) : walk[i].dir # pending
        /\ \A h \in Mounted \ {Root} : Parent[h] # pending

\* Where the walk is in each of its phases.
PhaseFits ==
    /\ phase \in {"idle", "walking", "done", "failed"}
    /\ phase = "idle" => mount = <<>> /\ steady = {}
    /\ phase # "walking" => walk = <<>>
    /\ phase \in {"idle", "done"} => pending = NoGroup
    /\ phase = "walking" => walk # <<>>
    /\ phase \in {"walking", "done"} => Root \in Mounted

\* The walk will come to each steady child of a mount.
ChildrenToCome ==
    phase \in {"walking", "done"} =>
        \A g \in steady \ {Root} : Parent[g] \in Mounted =>
            \/ g \in Mounted
            \/ \E i \in 1..Len(walk) : g \in walk[i].groups
            \/ Parent[g] = pending

\* And to each file of a steady group that has a mount.
FilesToCome ==
    phase \in {"walking", "done"} =>
        \A g \in steady \intersect Mounted : \A f \in File[g] \intersect ReadFile :
            \/ Empty \in Content[f] \/ Field(f) \in DOMAIN mount[g].figures
            \/ \E i \in 1..Len(walk) : walk[i].dir = g /\ f \in walk[i].files
            \/ g = pending

\* The inductive invariant of the walk.
WalkIInv ==
    /\ TreeOfGroups /\ TreeOfMounts /\ WalkFits /\ PendingFits /\ PhaseFits
    /\ ChildrenToCome /\ FilesToCome /\ FigureOfFile /\ FailedByRemoval

-----------------------------------------------------------------------------
(* The container runtime client.                                           *)

\* Who may be out for one call may be for two.
LEMMA OutLonger ==
    ASSUME NEW r \in Nat, NEW n \in Nat, MayBeOut(r, n, 1)
    PROVE  MayBeOut(r, n, 2)
<1> DEFINE x == (n - r) * Period
<1>1. x \in Int /\ Deadline \in Nat
  BY CriAssumption
<1>2. x < 1 * Deadline
  BY DEF MayBeOut
<1>3. 1 * Deadline <= 2 * Deadline /\ 1 * Deadline \in Nat /\ 2 * Deadline \in Nat
  BY <1>1
<1> HIDE DEF x
<1>4. x < 2 * Deadline
  BY <1>1, <1>2, <1>3
<1> QED
  BY <1>4 DEF MayBeOut, x

\* The calls of a round may be out when it begins.
LEMMA OutAtOnce ==
    ASSUME NEW r \in Nat
    PROVE  MayBeOut(r, r, 1)
<1>1. (r - r) * Period = 0
  <2>1. r - r = 0
    OBVIOUS
  <2>2. 0 * Period = 0
    BY CriAssumption
  <2> QED
    BY <2>1, <2>2
<1>2. 0 < 1 * Deadline
  BY CriAssumption
<1> QED
  BY <1>1, <1>2 DEF MayBeOut

\* Only the number of rounds in between matters.
LEMMA OutShifted ==
    ASSUME NEW r \in Nat, NEW n \in Nat, NEW d \in Nat, MayBeOut(r, n, 2)
    PROVE  MayBeOut(r + d, n + d, 2)
<1>1. (n + d) - (r + d) = n - r
  OBVIOUS
<1> QED
  BY <1>1 DEF MayBeOut
-----------------------------------------------------------------------------

\* Nothing is allocated initially.
LEMMA InitIInv == Init => IInv
<1> SUFFICES ASSUME Init PROVE IInv
  OBVIOUS
<1> USE DEF Init
<1>1. TypeOK /\ HeapExact /\ NotOlder
  BY CriAssumption DEF TypeOK, HeapExact, NotOlder
<1>2. Separate /\ Fresh /\ Timely
  BY DEF Separate, Fresh, Timely
<1>3. 0 \in 0..round /\ MadeIn(0)
  BY DEF MadeIn
<1> QED
  BY <1>1, <1>2, <1>3 DEF IInv

\* The clear of a round frees what was answered and not collected.
LEMMA TimerIInv == IInv /\ Timer => IInv'
<1> SUFFICES ASSUME IInv, Timer PROVE IInv'
  OBVIOUS
<1> USE DEF IInv
<1>0. round \in Nat /\ round' = round + 1 /\ round' \in 1..MaxRounds
  BY CriAssumption DEF Timer, TypeOK
<1>1. TypeOK'
  BY <1>0, CriAssumption DEF Timer, TypeOK, Item
<1>2. HeapExact'
  BY DEF Timer, HeapExact, Separate, TypeOK
<1>3. NotOlder' /\ Separate'
  BY DEF Timer, NotOlder, Separate
<1>4. Fresh'
  <2>1. \A i \in heap : i.round <= round /\ i.round \in Nat
    BY DEF TypeOK, Item
  <2> QED
    BY <1>0, <2>1 DEF Timer, Fresh
<1>5. Timely'
  BY <1>0, OutAtOnce DEF Timer, Timely, Out
<1>6. \E s \in 0..round' : MadeIn(s)'
  BY <1>0 DEF Timer, MadeIn
<1> QED
  BY <1>1, <1>2, <1>3, <1>4, <1>5, <1>6

\* The list of a round makes items that nobody has seen.
LEMMA ListAnsweredIInv ==
    ASSUME IInv, NEW r \in listing, ListAnswered(r)
    PROVE  IInv'
<1> USE DEF IInv
<1> DEFINE items == {[container |-> c, round |-> r] : c \in exists}
<1>0. /\ r \in Nat /\ r \in 1..MaxRounds /\ r <= round
      /\ items \subseteq Item /\ \A i \in items : i.round = r
  BY CriAssumption DEF TypeOK, Item
<1>1. items \intersect heap = {}
  BY <1>0 DEF Fresh
<1>2. /\ asking' = asking \union items /\ heap' = heap \union items
      /\ listing' = listing \ {r}
      /\ UNCHANGED <<exists, changes, round, request_, report, failed>>
  BY DEF ListAnswered
<1> HIDE DEF items
<1>3. TypeOK'
  BY <1>0, <1>1, <1>2 DEF TypeOK, HeapExact
<1>4. HeapExact' /\ Separate'
  BY <1>1, <1>2 DEF HeapExact, Separate
<1>5. NotOlder'
  BY <1>2 DEF NotOlder
<1>6. Fresh'
  BY <1>0, <1>2 DEF Fresh
<1>7. Timely'
  <2>1. MayBeOut(r, round, 2)
    BY <1>0, OutLonger, CriAssumption DEF Timely, TypeOK
  <2> QED
    BY <1>0, <1>2, <2>1 DEF Timely
<1>8. \E s \in 0..round' : MadeIn(s)'
  BY <1>2 DEF MadeIn
<1> QED
  BY <1>3, <1>4, <1>5, <1>6, <1>7, <1>8

\* An answer hands its item on, and an error gives it up.
LEMMA StatsIInv ==
    ASSUME IInv, NEW i \in asking, StatsAnswered(i) \/ StatsFailed(i)
    PROVE  IInv'
<1> USE DEF IInv
<1>1. /\ asking' = asking \ {i}
      /\ UNCHANGED <<exists, changes, round, listing, heap, report>>
      /\ \/ request_' = request_ \union {i} /\ failed' = failed
         \/ request_' = request_ /\ failed' = failed \union {i}
  BY DEF StatsAnswered, StatsFailed
<1>2. TypeOK'
  BY <1>1 DEF TypeOK
<1>3. HeapExact' /\ Separate'
  BY <1>1 DEF HeapExact, Separate, TypeOK
<1>4. NotOlder' /\ Timely'
  BY <1>1 DEF NotOlder, Timely
<1>5. Fresh'
  BY <1>1 DEF Fresh
<1>6. \E s \in 0..round' : MadeIn(s)'
  BY <1>1 DEF MadeIn
<1> QED
  BY <1>2, <1>3, <1>4, <1>5, <1>6

\* A report takes what was answered, and the report before is freed.
LEMMA CollectIInv == IInv /\ Collect => IInv'
<1> SUFFICES ASSUME IInv, Collect PROVE IInv'
  OBVIOUS
<1> USE DEF IInv, Collect
<1>1. TypeOK'
  BY DEF TypeOK
<1>2. HeapExact' /\ Separate'
  BY DEF HeapExact, Separate, TypeOK
<1>3. NotOlder' /\ Timely' /\ Fresh'
  BY DEF NotOlder, Timely, Fresh
<1>4. round' \in 0..round' /\ MadeIn(round)'
  BY CriAssumption DEF NotOlder, MadeIn, TypeOK
<1> QED
  BY <1>1, <1>2, <1>3, <1>4

\* What leaves every place as it is, and the list that is not answered.
LEMMA RestIInv ==
    ASSUME IInv, changes' \in 0..MaxChanges, exists' \subseteq Container,
           listing' \subseteq listing,
           UNCHANGED <<round, asking, heap, request_, report, failed>>
    PROVE  IInv'
<1> USE DEF IInv
<1>1. TypeOK' /\ HeapExact' /\ Separate'
  BY DEF TypeOK, HeapExact, Separate
<1>2. NotOlder' /\ Timely' /\ Fresh'
  BY DEF NotOlder, Timely, Fresh
<1>3. \E s \in 0..round' : MadeIn(s)'
  BY DEF MadeIn
<1> QED
  BY <1>1, <1>2, <1>3

\* Every step keeps it.
LEMMA StepIInv == IInv /\ [Next]_vars => IInv'
<1> SUFFICES ASSUME IInv, [Next]_vars PROVE IInv'
  OBVIOUS
<1>0. TypeOK
  BY DEF IInv
<1>1. CASE \E c \in Container : Change(c)
  BY <1>0, <1>1, RestIInv, CriAssumption DEF Change, TypeOK
<1>2. CASE Timer \/ Collect
  BY <1>2, TimerIInv, CollectIInv
<1>3. ASSUME NEW r \in listing, ListAnswered(r) \/ ListFailed(r)
      PROVE  IInv'
  <2>1. CASE ListAnswered(r)
    BY <2>1, ListAnsweredIInv
  <2>2. CASE ListFailed(r)
    BY <1>0, <2>2, RestIInv DEF ListFailed, TypeOK
  <2> QED
    BY <1>3, <2>1, <2>2
<1>4. ASSUME NEW i \in asking, StatsAnswered(i) \/ StatsFailed(i)
      PROVE  IInv'
  BY <1>4, StatsIInv
<1>5. CASE UNCHANGED vars
  BY <1>0, <1>5, RestIInv DEF vars, TypeOK
<1> QED
  BY <1>1, <1>2, <1>3, <1>4, <1>5 DEF Next

\* It holds of every behaviour.
LEMMA Invariance == Spec => []IInv
BY InitIInv, StepIInv, PTL DEF Spec

-----------------------------------------------------------------------------

\* The items that callbacks and collection share are well typed, allocated while
\* they are used, freed once, leaked by failed calls alone, and never older than
\* the calls of their round may be.
THEOREM ItemsExact == Spec => []ItemInv
<1>1. IInv => ItemInv
  BY DEF IInv, ItemInv
<1> QED
  BY <1>1, Invariance, PTL

\* No item of a report is in the next one.
THEOREM Once == Spec => ReportedOnce
<1>1. IInv /\ [Next]_vars => [report' # report => report' \intersect report = {}]_vars
  <2> SUFFICES ASSUME IInv, [Next]_vars, report' # report
               PROVE  report' \intersect report = {}
    OBVIOUS
  <2>1. Collect
    BY DEF Next, vars, Change, Timer, ListAnswered, ListFailed, StatsAnswered, StatsFailed
  <2> QED
    BY <2>1 DEF Collect, IInv, Separate
<1> QED
  BY <1>1, Invariance, PTL DEF Spec, ReportedOnce

\* The rounds of the items that a report has of one container are different
\* and may all be out when it is made, so that shifting them to the last rounds
\* counts them among RoundsOut.
LEMMA CopiesBounded == IInv => CopiesBound
<1> SUFFICES ASSUME IInv, NEW c \in Container
             PROVE  Cardinality(Of(report, c)) <= RoundsOut
  BY DEF CopiesBound
<1> DEFINE copies == Of(report, c)
           rounds == {r \in 1..MaxRounds : MayBeOut(r, MaxRounds, 2)}
<1>1. PICK s \in 0..round : MadeIn(s)
  BY DEF IInv
<1>2. TypeOK
  BY DEF IInv
<1>3. s \in Nat /\ MaxRounds \in Nat /\ MaxRounds - s \in Nat
  BY <1>2, CriAssumption DEF TypeOK
<1> DEFINE f == [i \in copies |-> i.round + (MaxRounds - s)]
<1>4. ASSUME NEW i \in copies PROVE f[i] \in rounds
  <2>1. i.round \in Nat /\ i.round >= 1 /\ i.round <= s /\ i \in report
    BY <1>1, <1>2 DEF Of, TypeOK, Item, MadeIn
  <2>2. MayBeOut(i.round, s, 2)
    BY <1>1, <2>1 DEF MadeIn
  <2>3. MayBeOut(i.round + (MaxRounds - s), s + (MaxRounds - s), 2)
    BY <1>3, <2>1, <2>2, OutShifted
  <2>4. s + (MaxRounds - s) = MaxRounds
    BY <1>3
  <2>5. i.round + (MaxRounds - s) \in 1..MaxRounds
    BY <1>3, <2>1
  <2> QED
    BY <2>3, <2>4, <2>5
<1>5. f \in Injection(copies, rounds)
  <2>1. \A i, j \in copies : i.round = j.round => i = j
    BY <1>2 DEF Of, TypeOK, Item
  <2>2. \A i, j \in copies : f[i] = f[j] => i = j
    BY <1>2, <1>3, <2>1 DEF Of, TypeOK, Item
  <2> QED
    BY <1>4, <2>2 DEF Injection, IsInjective
<1>6. IsFiniteSet(rounds)
  <2>1. IsFiniteSet(1..MaxRounds)
    BY <1>3, FS_Interval
  <2> QED
    BY <2>1, FS_Subset
<1> QED
  BY <1>5, <1>6, FS_Injection DEF RoundsOut

\* No report has more copies of a container than rounds may be out.
THEOREM CopiesLimited == Spec => []CopiesBound
BY CopiesBounded, Invariance, PTL

\* What the reports hold is in use, and in no more copies than rounds are out.
THEOREM ReportsCorrect == Spec => []ReportInv
BY ItemsExact, CopiesLimited, PTL DEF ReportInv

-----------------------------------------------------------------------------
(* The queue of requests.                                                  *)

\* Places that move up by one are as many as before.
LEMMA MovedUp ==
    ASSUME NEW S, IsFiniteSet(S), NEW T,
           \A i \in S : i \in Int /\ i - 1 \in T,
           \A j \in T : j \in Int /\ j + 1 \in S
    PROVE  IsFiniteSet(T) /\ Cardinality(T) = Cardinality(S)
<1> DEFINE f == [i \in S |-> i - 1]
<1>1. f \in [S -> T]
  OBVIOUS
<1>2. \A i, j \in S : f[i] = f[j] => i = j
  OBVIOUS
<1>3. \A j \in T : f[j + 1] = j /\ j + 1 \in S
  OBVIOUS
<1> HIDE DEF f
<1>4. f \in Injection(S, T)
  BY <1>1, <1>2 DEF Injection, IsInjective
<1>5. f \in Surjection(S, T)
  BY <1>1, <1>3 DEF Surjection
<1>6. ExistsBijection(S, T)
  BY <1>4, <1>5 DEF ExistsBijection, Bijection
<1>7. QED
  BY <1>6, FS_Bijection

\* The details in a queue are finitely many.
LEMMA DetailsFinite ==
    ASSUME NEW requests \in Requests
    PROVE  /\ IsFiniteSet(DetailsIn(requests)) /\ Cardinality(DetailsIn(requests)) \in Nat
           /\ DetailsIn(requests) = {i \in 1..Len(requests) : requests[i] # List}
<1>1. DOMAIN requests = 1..Len(requests) /\ Len(requests) \in Nat
  BY LenProperties DEF Requests
<1>2. DetailsIn(requests) = {i \in 1..Len(requests) : requests[i] # List}
  BY <1>1 DEF DetailsIn
<1>3. IsFiniteSet(1..Len(requests)) /\ DetailsIn(requests) \in SUBSET (1..Len(requests))
  BY <1>1, <1>2, FS_Interval
<1>4. QED
  BY <1>2, <1>3, FS_Subset, FS_CardinalityType

\* The request at the head of a queue is answered.
LEMMA DetailsOfTail ==
    ASSUME NEW requests \in Requests, requests # <<>>
    PROVE  /\ Tail(requests) \in Requests
           /\ Cardinality(DetailsIn(requests)) = Cardinality(DetailsIn(Tail(requests)))
                + IF Head(requests) = List THEN 0 ELSE 1
<1> DEFINE rest == Tail(requests)
           later == DetailsIn(requests) \ {1}
<1>1. /\ rest \in Requests /\ Len(rest) = Len(requests) - 1
      /\ \A i \in 1..Len(rest) : rest[i] = requests[i + 1]
      /\ Len(requests) \in Nat \ {0} /\ Head(requests) = requests[1]
  BY HeadTailProperties, EmptySeq, LenProperties DEF Requests
<1>2. /\ DetailsIn(requests) = {i \in 1..Len(requests) : requests[i] # List}
      /\ DetailsIn(rest) = {i \in 1..Len(rest) : rest[i] # List}
      /\ IsFiniteSet(DetailsIn(requests)) /\ Cardinality(DetailsIn(requests)) \in Nat
  BY <1>1, DetailsFinite
<1> HIDE DEF rest
<1>3. Cardinality(DetailsIn(rest)) = Cardinality(later)
  <2>1. \A i \in later : i \in Int /\ i - 1 \in DetailsIn(rest)
    <3> SUFFICES ASSUME NEW i \in later PROVE i \in Int /\ i - 1 \in DetailsIn(rest)
      OBVIOUS
    <3>1. i \in 2..Len(requests) /\ requests[i] # List
      BY <1>1, <1>2
    <3>2. i - 1 \in 1..Len(rest) /\ rest[i - 1] = requests[(i - 1) + 1] /\ (i - 1) + 1 = i
      BY <1>1, <3>1
    <3>3. QED
      BY <1>2, <3>1, <3>2
  <2>2. \A j \in DetailsIn(rest) : j \in Int /\ j + 1 \in later
    <3> SUFFICES ASSUME NEW j \in DetailsIn(rest) PROVE j \in Int /\ j + 1 \in later
      OBVIOUS
    <3>1. j \in 1..Len(rest) /\ rest[j] = requests[j + 1] /\ rest[j] # List
      BY <1>1, <1>2
    <3>2. j + 1 \in 1..Len(requests) /\ j + 1 # 1
      BY <1>1, <3>1
    <3>3. QED
      BY <1>2, <3>1, <3>2
  <2>3. IsFiniteSet(later)
    BY <1>2, FS_RemoveElement
  <2> HIDE DEF later
  <2>4. QED
    BY <2>1, <2>2, <2>3, MovedUp
<1>4. Cardinality(later) = IF 1 \in DetailsIn(requests) THEN Cardinality(DetailsIn(requests)) - 1
                           ELSE Cardinality(DetailsIn(requests))
  BY <1>2, FS_RemoveElement
<1>5. 1 \in DetailsIn(requests) <=> Head(requests) # List
  BY <1>1, <1>2
<1>6. QED
  BY <1>1, <1>2, <1>3, <1>4, <1>5 DEF rest

\* The details of the containers s are appended to those of a queue.
LEMMA DetailsAppended ==
    ASSUME NEW requests \in Requests, NEW s \in Seq(DockerContainer)
    PROVE  /\ requests \o s \in Requests
           /\ Cardinality(DetailsIn(requests \o s)) = Cardinality(DetailsIn(requests)) + Len(s)
<1> DEFINE all == requests \o s
           new == (Len(requests) + 1)..(Len(requests) + Len(s))
<1>1. s \in Requests /\ \A i \in 1..Len(s) : s[i] # List
  BY SeqMonotonic, ElementOfSeq, DockerAssumption DEF Requests
<1>2. /\ all \in Requests /\ Len(all) = Len(requests) + Len(s)
      /\ \A i \in 1..(Len(requests) + Len(s)) :
            all[i] = IF i <= Len(requests) THEN requests[i] ELSE s[i - Len(requests)]
  BY <1>1, ConcatProperties DEF Requests
<1>3. Len(requests) \in Nat /\ Len(s) \in Nat
  BY <1>1, LenProperties DEF Requests
<1> HIDE DEF all
<1>4. /\ DetailsIn(all) = {i \in 1..Len(all) : all[i] # List}
      /\ DetailsIn(requests) = {i \in 1..Len(requests) : requests[i] # List}
      /\ IsFiniteSet(DetailsIn(requests)) /\ Cardinality(DetailsIn(requests)) \in Nat
  BY <1>2, DetailsFinite
<1>5. \A i \in new : i \in 1..Len(all) /\ all[i] # List
  <2> SUFFICES ASSUME NEW i \in new PROVE i \in 1..Len(all) /\ all[i] # List
    OBVIOUS
  <2>1. /\ i \in 1..(Len(requests) + Len(s)) /\ ~(i <= Len(requests))
        /\ i - Len(requests) \in 1..Len(s)
    BY <1>3
  <2>2. QED
    BY <1>1, <1>2, <2>1
<1>6. \A i \in 1..Len(requests) : i \in 1..Len(all) /\ all[i] = requests[i]
  BY <1>2, <1>3
<1>7. \A i \in 1..Len(all) : i \in 1..Len(requests) \/ i \in new
  BY <1>2, <1>3
<1>8. DetailsIn(all) = DetailsIn(requests) \union new
  BY <1>4, <1>5, <1>6, <1>7
<1>9. DetailsIn(requests) \intersect new = {}
  BY <1>3, <1>4
<1>10. IsFiniteSet(new) /\ Cardinality(new) = Len(s)
  <2>1. PICK lo, hi \in Int : lo = Len(requests) + 1 /\ hi = Len(requests) + Len(s)
    BY <1>3
  <2>2. /\ IsFiniteSet(lo..hi)
        /\ Cardinality(lo..hi) = IF lo > hi THEN 0 ELSE hi - lo + 1
    BY FS_Interval
  <2>3. new = lo..hi
    BY <2>1
  <2>4. (IF lo > hi THEN 0 ELSE hi - lo + 1) = Len(s)
    BY <1>3, <2>1
  <2>5. QED
    BY ONLY <2>2, <2>3, <2>4
<1> HIDE DEF new
<1>11. Cardinality(DetailsIn(all)) = Cardinality(DetailsIn(requests)) + Len(s)
  <2>1. Cardinality(DetailsIn(requests) \intersect new) = 0
    BY <1>9, FS_EmptySet, Zenon
  <2>2. Cardinality(DetailsIn(requests) \union new)
          = Cardinality(DetailsIn(requests)) + Cardinality(new)
              - Cardinality(DetailsIn(requests) \intersect new)
    BY <1>4, <1>10, FS_Union
  <2>3. Cardinality(DetailsIn(all)) = Cardinality(DetailsIn(requests) \union new)
    BY <1>8, Zenon
  <2>4. QED
    BY ONLY <1>3, <1>4, <1>10, <2>1, <2>2, <2>3
<1>12. QED
  BY <1>2, <1>11 DEF all

\* A request for the list asks for no details.
LEMMA DetailsWithList ==
    ASSUME NEW requests \in Requests
    PROVE  /\ Append(requests, List) \in Requests
           /\ DetailsIn(Append(requests, List)) = DetailsIn(requests)
<1> DEFINE all == Append(requests, List)
<1>1. /\ all \in Requests /\ Len(all) = Len(requests) + 1
      /\ \A i \in 1..Len(requests) : all[i] = requests[i]
      /\ all[Len(requests) + 1] = List
  BY AppendProperties DEF Requests
<1>2. Len(requests) \in Nat
  BY LenProperties DEF Requests
<1> HIDE DEF all
<1>3. /\ DetailsIn(all) = {i \in 1..Len(all) : all[i] # List}
      /\ DetailsIn(requests) = {i \in 1..Len(requests) : requests[i] # List}
  BY <1>1, DetailsFinite
<1>4. \A i : i \in 1..Len(all) <=> i \in 1..Len(requests) \/ i = Len(requests) + 1
  BY <1>1, <1>2
<1>5. DetailsIn(all) = DetailsIn(requests)
  BY <1>1, <1>3, <1>4
<1>6. QED
  BY <1>1, <1>5 DEF all

\* A finite set is listed without repetition.
LEMMA InSomeOrder ==
    ASSUME NEW S, IsFiniteSet(S)
    PROVE  SetToSeq(S) \in Seq(S) /\ Len(SetToSeq(S)) = Cardinality(S)
<1> DEFINE n == Cardinality(S)
<1>1. n \in Nat /\ ExistsBijection(1..n, S)
  BY FS_CardinalityType
<1>2. \E f \in [1..n -> S] : IsInjective(f)
  BY <1>1 DEF ExistsBijection, Bijection, Injection
<1>3. SetToSeq(S) \in [1..n -> S]
  BY <1>2 DEF SetToSeq
<1> HIDE DEF n
<1>4. SetToSeq(S) \in Seq(S)
  BY <1>1, <1>3
<1>5. DOMAIN SetToSeq(S) = 1..n /\ DOMAIN SetToSeq(S) = 1..Len(SetToSeq(S))
  BY <1>3, <1>4, LenProperties
<1>6. Len(SetToSeq(S)) = n
  BY <1>1, <1>4, <1>5, LenProperties
<1>7. QED
  BY <1>4, <1>6 DEF n

-----------------------------------------------------------------------------
(* The Docker collector.                                                   *)

\* What is asked for are the details in the queue of the connection.
LEMMA AskedIsDetails ==
    Asked = IF conn_ = NoConn THEN {} ELSE DetailsIn(conn_)
BY DEF Asked, DetailsIn

\* At most a connection without requests is there at first.
LEMMA DockerInitIInv == DockerInit => DockerIInv
<1> SUFFICES ASSUME DockerInit PROVE DockerIInv
  OBVIOUS
<1>1. <<>> \in Requests /\ <<>> # NoConn
  BY EmptySeq, DockerAssumption DEF Requests
<1>2. DockerTypes /\ listed \subseteq KnownContainers
  BY <1>1 DEF DockerInit, DockerTypes
<1>3. Asked = {} /\ pending_tasks_ = 0 /\ lost = 0
  BY DEF DockerInit, Asked
<1>4. PendingExact
  BY <1>3, FS_EmptySet DEF PendingExact
<1>5. EveryOtherTick
  BY <1>1, DockerAssumption DEF DockerInit, EveryOtherTick
<1>6. ReportKnown
  BY DEF DockerInit, ReportKnown
<1>7. QED
  BY <1>2, <1>4, <1>5, <1>6 DEF DockerIInv, DockerInv

\* What the invariant says of the connection.
LEMMA ConnectionFacts ==
    ASSUME DockerIInv
    PROVE  /\ IsFiniteSet(Asked) /\ Cardinality(Asked) \in Nat
           /\ conn_ # NoConn => conn_ \in Requests /\ Asked = DetailsIn(conn_)
           /\ \A q \in Requests : q # NoConn
           /\ pending_tasks_ \in Nat /\ lost \in Nat
           /\ pending_tasks_ = Cardinality(Asked) + lost
<1>1. DockerTypes /\ PendingExact
  BY DEF DockerIInv, DockerInv
<1>2. conn_ # NoConn => conn_ \in Requests /\ Asked = DetailsIn(conn_)
  BY <1>1, AskedIsDetails DEF DockerTypes
<1>3. IsFiniteSet(Asked) /\ Cardinality(Asked) \in Nat
  <2>1. CASE conn_ = NoConn
    BY <2>1, AskedIsDetails, FS_EmptySet
  <2>2. CASE conn_ # NoConn
    BY <2>2, <1>2, DetailsFinite
  <2>3. QED
    BY <2>1, <2>2
<1>4. \A q \in Requests : q # NoConn
  BY DockerAssumption DEF Requests
<1>5. QED
  BY <1>1, <1>2, <1>3, <1>4 DEF PendingExact, DockerTypes

\* A container that starts or ends leaves the collector alone, and so do a round
\* that copies the report and a stutter.
LEMMA StartOrEndKeeps ==
    ASSUME DockerIInv, NEW c \in DockerContainer, StartOrEnd(c)
    PROVE  DockerIInv'
<1>1. DockerTypes'
  BY DEF StartOrEnd, DockerIInv, DockerTypes, Requests
<1>2. Asked' = Asked
  BY DEF StartOrEnd, Asked
<1>3. QED
  BY <1>1, <1>2 DEF DockerIInv, DockerInv, StartOrEnd, PendingExact, EveryOtherTick,
     ReportKnown, KnownContainers, collector_vars

\* The copy of a round.
LEMMA CopyKeeps ==
    ASSUME DockerIInv, NEW table \in {{}, {1}}, GetContainerList(table)
    PROVE  DockerIInv'
<1>1. DockerTypes'
  BY DEF GetContainerList, DockerIInv, DockerTypes, Requests, daemon_vars
<1>2. Asked' = Asked
  BY DEF GetContainerList, Asked
<1>3. PendingExact' /\ EveryOtherTick' /\ listed' \subseteq KnownContainers'
  BY <1>2 DEF DockerIInv, DockerInv, GetContainerList, PendingExact, EveryOtherTick,
     KnownContainers
<1>4. ReportKnown'
  <2>1. 0 \notin table
    OBVIOUS
  <2>2. collected' = [running_time |-> docker_report, usage |-> {}]
    BY <2>1 DEF GetContainerList
  <2>3. QED
    BY <2>2 DEF GetContainerList, ReportKnown, KnownContainers, DockerIInv, DockerInv
<1>5. QED
  BY <1>1, <1>3, <1>4 DEF DockerIInv, DockerInv

\* The timer: all details on a connection that is freed are lost.
LEMMA TickKeeps ==
    ASSUME DockerIInv, Tick
    PROVE  DockerIInv'
<1>1. /\ IsSocket /\ ticks \in Nat /\ ticks' = ticks + 1
      /\ running' = running /\ container_info_' = container_info_
      /\ pending_tasks_' = pending_tasks_ /\ docker_report' = docker_report
      /\ collected' = collected /\ listed' = listed
      /\ lost' = lost + Cardinality(Asked)
  BY DEF Tick, DockerIInv, DockerTypes, daemon_vars, collector_vars
<1>2. conn_' = IF conn_ # NoConn THEN NoConn ELSE <<List>>
  <2>1. <<>> \in Requests /\ Append(<<>>, List) = <<List>>
    BY EmptySeq DEF Requests
  <2>2. <<>> # NoConn
    BY <2>1, ConnectionFacts
  <2>3. QED
    BY <2>1, <2>2 DEF Tick, SetUnixDomainSocket
<1>3. <<List>> \in Requests /\ <<List>> # NoConn /\ DetailsIn(<<List>>) = {}
  <2>1. <<>> \in Requests /\ Append(<<>>, List) = <<List>>
    BY EmptySeq DEF Requests
  <2>2. <<List>> \in Requests
    BY <2>1, DetailsWithList
  <2>3. DetailsIn(<<List>>) = {}
    BY DEF DetailsIn
  <2>4. QED
    BY <2>2, <2>3, ConnectionFacts
<1>4. Asked' = {}
  BY <1>2, <1>3 DEF Asked, DetailsIn
<1>5. DockerTypes'
  <2>1. running' \subseteq DockerContainer
    BY <1>1 DEF DockerIInv, DockerTypes
  <2>2. conn_' = NoConn \/ conn_' \in Requests
    BY <1>2, <1>3
  <2>3. ticks' \in Nat /\ lost' \in Nat
    BY <1>1, ConnectionFacts
  <2>4. QED
    BY <2>1, <2>2, <2>3 DEF DockerTypes, Requests
<1>6. PendingExact'
  BY <1>1, <1>4, ConnectionFacts, FS_EmptySet DEF PendingExact
<1>7. EveryOtherTick'
  BY <1>1, <1>2, <1>3, DockerAssumption DEF DockerIInv, DockerInv, EveryOtherTick
<1>8. ReportKnown' /\ listed' \subseteq KnownContainers'
  BY <1>1 DEF DockerIInv, DockerInv, ReportKnown, KnownContainers
<1>9. QED
  BY <1>5, <1>6, <1>7, <1>8 DEF DockerIInv, DockerInv

\* A connection stays one, whatever is answered on it.
LEMMA ConnectionStays ==
    ASSUME DockerIInv, NEW r, Answering(r), conn_' \in Requests, ticks' = ticks
    PROVE  EveryOtherTick' /\ Asked' = DetailsIn(conn_')
<1>1. conn_ # NoConn /\ conn_' # NoConn
  BY ConnectionFacts DEF Answering
<1>2. EveryOtherTick
  BY DEF DockerIInv, DockerInv
<1>3. QED
  BY <1>1, <1>2 DEF EveryOtherTick, Asked, DetailsIn

\* The request at the head of the connection is taken from it.
LEMMA HeadAnswered ==
    ASSUME DockerIInv, NEW r, Answering(r)
    PROVE  /\ Tail(conn_) \in Requests
           /\ Cardinality(DetailsIn(Tail(conn_))) \in Nat
           /\ Cardinality(Asked)
                = Cardinality(DetailsIn(Tail(conn_))) + IF r = List THEN 0 ELSE 1
<1>1. conn_ \in Requests /\ conn_ # <<>> /\ r = Head(conn_) /\ Asked = DetailsIn(conn_)
  BY ConnectionFacts DEF Answering
<1>2. QED
  BY <1>1, DetailsOfTail, DetailsFinite

\* The answer to the list: as many details are pending more as are asked for.
LEMMA ContainersAnsweredKeeps ==
    ASSUME DockerIInv, ContainersAnswered
    PROVE  DockerIInv'
<1> DEFINE rest == Tail(conn_)
<1>1. /\ Answering(List) /\ conn_' = rest \o SetToSeq(running)
      /\ container_info_' = [c \in KnownContainers \union running |->
                              IF c \in running THEN 0 ELSE container_info_[c]]
      /\ pending_tasks_' = pending_tasks_ + Cardinality(running)
      /\ listed' = running /\ running' = running /\ ticks' = ticks /\ lost' = lost
      /\ docker_report' = docker_report /\ collected' = collected
  BY DEF ContainersAnswered, Counted, daemon_vars, collector_vars
<1>2. IsFiniteSet(running) /\ Cardinality(running) \in Nat
  BY DockerAssumption, FS_Subset, FS_CardinalityType DEF DockerIInv, DockerTypes
<1>3. /\ rest \in Requests /\ Cardinality(Asked) = Cardinality(DetailsIn(rest))
      /\ Cardinality(DetailsIn(rest)) \in Nat
  BY <1>1, HeadAnswered
<1> HIDE DEF rest
<1>4. SetToSeq(running) \in Seq(DockerContainer) /\ Len(SetToSeq(running)) = Cardinality(running)
  BY <1>2, InSomeOrder, SeqMonotonic DEF DockerIInv, DockerTypes
<1>5. /\ conn_' \in Requests
      /\ Cardinality(DetailsIn(conn_')) = Cardinality(DetailsIn(rest)) + Cardinality(running)
  BY <1>1, <1>3, <1>4, DetailsAppended
<1>6. EveryOtherTick' /\ Asked' = DetailsIn(conn_')
  BY <1>1, <1>5, ConnectionStays
<1>7. PendingExact'
  BY <1>1, <1>2, <1>3, <1>5, <1>6, ConnectionFacts DEF PendingExact
<1>8. KnownContainers' = KnownContainers \union running
  BY <1>1 DEF KnownContainers
<1>9. ReportKnown'
  BY <1>1, <1>8 DEF ReportKnown, DockerIInv, DockerInv
<1>10. DockerTypes'
  BY <1>1, <1>5 DEF DockerTypes, DockerIInv, Requests
<1>11. QED
  BY <1>1, <1>6, <1>7, <1>8, <1>9, <1>10 DEF DockerIInv, DockerInv

\* A list that fails asks for nothing.
LEMMA ContainersFailedKeeps ==
    ASSUME DockerIInv, ContainersFailed
    PROVE  DockerIInv'
<1>1. /\ Answering(List) /\ conn_' = Tail(conn_)
      /\ container_info_' = container_info_ /\ pending_tasks_' = pending_tasks_
      /\ listed' = listed /\ running' = running /\ ticks' = ticks /\ lost' = lost
      /\ docker_report' = docker_report /\ collected' = collected
  BY DEF ContainersFailed, daemon_vars, collector_vars
<1>2. conn_' \in Requests /\ Cardinality(Asked) = Cardinality(DetailsIn(conn_'))
  BY <1>1, HeadAnswered
<1>3. EveryOtherTick' /\ Asked' = DetailsIn(conn_')
  BY <1>1, <1>2, ConnectionStays
<1>4. PendingExact'
  BY <1>1, <1>2, <1>3, ConnectionFacts DEF PendingExact
<1>5. ReportKnown' /\ listed' \subseteq KnownContainers'
  BY <1>1 DEF ReportKnown, DockerIInv, DockerInv, KnownContainers
<1>6. DockerTypes'
  BY <1>1, <1>2 DEF DockerTypes, DockerIInv, Requests
<1>7. QED
  BY <1>3, <1>4, <1>5, <1>6 DEF DockerIInv, DockerInv

\* Details that are answered are counted off, and the last of them replace the
\* report by all containers that are known.
LEMMA DetailAnsweredKeeps ==
    ASSUME DockerIInv, NEW c \in DockerContainer, DetailAnswered(c)
    PROVE  /\ DockerIInv'
           /\ docker_report' # docker_report =>
                /\ Asked' = {} /\ lost = 0
                /\ listed \union DOMAIN docker_report \subseteq DOMAIN docker_report'
<1>1. /\ Answering(c) /\ conn_' = Tail(conn_)
      /\ DOMAIN container_info_' = DOMAIN container_info_
      /\ pending_tasks_' = pending_tasks_ - 1
      /\ docker_report' = IF pending_tasks_' = 0 THEN container_info_' ELSE docker_report
      /\ listed' = listed /\ running' = running /\ ticks' = ticks /\ lost' = lost
      /\ collected' = collected
  BY DEF DetailAnswered, daemon_vars, LastOne
<1>2. /\ conn_' \in Requests /\ Cardinality(Asked) = Cardinality(DetailsIn(conn_')) + 1
      /\ Cardinality(DetailsIn(conn_')) \in Nat
  BY <1>1, HeadAnswered, DockerAssumption
<1>3. EveryOtherTick' /\ Asked' = DetailsIn(conn_')
  BY <1>1, <1>2, ConnectionStays
<1>4. PendingExact'
  BY <1>1, <1>2, <1>3, ConnectionFacts DEF PendingExact
<1>5. KnownContainers' = KnownContainers
  BY <1>1 DEF KnownContainers
<1>6. ReportKnown' /\ listed' \subseteq KnownContainers'
  <2>1. /\ DOMAIN docker_report \subseteq KnownContainers /\ collected.usage = {}
        /\ DOMAIN collected.running_time \subseteq DOMAIN docker_report
        /\ listed \subseteq KnownContainers
    BY DEF ReportKnown, DockerIInv, DockerInv
  <2>2. DOMAIN docker_report' = KnownContainers \/ docker_report' = docker_report
    BY <1>1 DEF KnownContainers
  <2>3. QED
    BY <1>1, <1>5, <2>1, <2>2 DEF ReportKnown
<1>7. DockerTypes'
  BY <1>1, <1>2 DEF DockerTypes, DockerIInv, Requests
<1>8. DockerIInv'
  BY <1>3, <1>4, <1>6, <1>7 DEF DockerIInv, DockerInv
<1>9. ASSUME docker_report' # docker_report
      PROVE  /\ Asked' = {} /\ lost = 0
             /\ listed \union DOMAIN docker_report \subseteq DOMAIN docker_report'
  <2>1. pending_tasks_' = 0 /\ DOMAIN docker_report' = KnownContainers
    BY <1>1, <1>9 DEF KnownContainers
  <2>2. Cardinality(Asked') = 0 /\ lost = 0
    BY <1>1, <1>2, <1>3, <2>1, ConnectionFacts
  <2>3. Asked' = {}
    BY <1>2, <1>3, <2>2, DetailsFinite, FS_EmptySet
  <2>4. QED
    BY <2>1, <2>2, <2>3 DEF ReportKnown, DockerIInv, DockerInv
<1>10. QED
  BY <1>8, <1>9

\* Details that fail are never counted off.
LEMMA DetailFailedKeeps ==
    ASSUME DockerIInv, NEW c \in DockerContainer, DetailFailed(c)
    PROVE  DockerIInv'
<1>1. /\ Answering(c) /\ conn_' = Tail(conn_)
      /\ container_info_' = container_info_ /\ pending_tasks_' = pending_tasks_
      /\ listed' = listed /\ running' = running /\ ticks' = ticks /\ lost' = lost + 1
      /\ docker_report' = docker_report /\ collected' = collected
  BY DEF DetailFailed, daemon_vars, collector_vars
<1>2. /\ conn_' \in Requests /\ Cardinality(Asked) = Cardinality(DetailsIn(conn_')) + 1
      /\ Cardinality(DetailsIn(conn_')) \in Nat
  BY <1>1, HeadAnswered, DockerAssumption
<1>3. EveryOtherTick' /\ Asked' = DetailsIn(conn_')
  BY <1>1, <1>2, ConnectionStays
<1>4. PendingExact'
  BY <1>1, <1>2, <1>3, ConnectionFacts DEF PendingExact
<1>5. ReportKnown' /\ listed' \subseteq KnownContainers'
  BY <1>1 DEF ReportKnown, DockerIInv, DockerInv, KnownContainers
<1>6. DockerTypes'
  BY <1>1, <1>2 DEF DockerTypes, DockerIInv, Requests
<1>7. QED
  BY <1>3, <1>4, <1>5, <1>6 DEF DockerIInv, DockerInv

\* Every step of the collector keeps its invariant, and replaces the report as
\* ReportReplaced says.
LEMMA DockerNextIInv ==
    ASSUME DockerIInv, [DockerNext]_docker_vars
    PROVE  /\ DockerIInv'
           /\ docker_report' # docker_report =>
                /\ Asked' = {} /\ lost = 0
                /\ listed \union DOMAIN docker_report \subseteq DOMAIN docker_report'
<1>1. ASSUME NEW c \in DockerContainer, StartOrEnd(c)
      PROVE  DockerIInv' /\ docker_report' = docker_report
  BY <1>1, StartOrEndKeeps DEF StartOrEnd, collector_vars
<1>2. ASSUME NEW c \in DockerContainer, DetailFailed(c)
      PROVE  DockerIInv' /\ docker_report' = docker_report
  BY <1>2, DetailFailedKeeps DEF DetailFailed, collector_vars
<1>3. ASSUME Tick PROVE DockerIInv' /\ docker_report' = docker_report
  BY <1>3, TickKeeps DEF Tick, collector_vars
<1>4. ASSUME ContainersAnswered PROVE DockerIInv' /\ docker_report' = docker_report
  BY <1>4, ContainersAnsweredKeeps DEF ContainersAnswered, collector_vars
<1>5. ASSUME ContainersFailed PROVE DockerIInv' /\ docker_report' = docker_report
  BY <1>5, ContainersFailedKeeps DEF ContainersFailed, collector_vars
<1>6. ASSUME NEW table \in {{}, {1}}, GetContainerList(table)
      PROVE  DockerIInv' /\ docker_report' = docker_report
  BY <1>6, CopyKeeps DEF GetContainerList
<1>7. ASSUME UNCHANGED docker_vars PROVE DockerIInv' /\ docker_report' = docker_report
  <2>1. /\ conn_' = conn_ /\ container_info_' = container_info_
        /\ pending_tasks_' = pending_tasks_ /\ listed' = listed /\ running' = running
        /\ ticks' = ticks /\ lost' = lost /\ docker_report' = docker_report
        /\ collected' = collected
    BY <1>7 DEF docker_vars
  <2>2. Asked' = Asked
    BY <2>1 DEF Asked
  <2>3. DockerTypes'
    BY <2>1 DEF DockerTypes, DockerIInv, Requests
  <2>4. QED
    BY <2>1, <2>2, <2>3 DEF DockerIInv, DockerInv, PendingExact, EveryOtherTick, ReportKnown,
       KnownContainers
<1>8. QED
  BY <1>1, <1>2, <1>3, <1>4, <1>5, <1>6, <1>7, DetailAnsweredKeeps DEF DockerNext

\* The count of pending details is that of the details on the connection and of
\* all that were ever lost, the timer frees the connection every other time, and
\* no round finds the usage of a container (DockerHttpClient, ContainerCollector).
THEOREM DockerCorrect == DockerSpec => []DockerInv
<1>1. DockerIInv /\ [DockerNext]_docker_vars => DockerIInv'
  BY DockerNextIInv
<1>2. DockerIInv => DockerInv
  BY DEF DockerIInv
<1>3. QED
  BY <1>1, <1>2, DockerInitIInv, PTL DEF DockerSpec

\* A report is replaced only when nothing is pending and no details were ever
\* lost, and by one of all containers that were ever listed (OnContainerList).
THEOREM ReplacedWhenComplete == DockerSpec => ReportReplaced
<1>1. DockerIInv /\ [DockerNext]_docker_vars => DockerIInv'
  BY DockerNextIInv
<1>2. DockerIInv /\ [DockerNext]_docker_vars =>
        [docker_report' # docker_report =>
            /\ Asked' = {} /\ lost = 0
            /\ listed \union DOMAIN docker_report \subseteq DOMAIN docker_report']_docker_vars
  BY DockerNextIInv
<1>3. QED
  BY <1>1, <1>2, DockerInitIInv, PTL DEF DockerSpec, ReportReplaced

-----------------------------------------------------------------------------
(* The walk over the control groups.                                       *)

\* A directory is listed with its files and the children it has.
LEMMA ListingFits ==
    ASSUME TreeOfGroups, NEW g \in Group
    PROVE  /\ Listing(g) \in Frame
           /\ Listing(g).dir = g /\ Listing(g).files = File[g]
           /\ \A h : h \in Listing(g).groups <=> h \in alive \ {Root} /\ Parent[h] = g
BY CGroupAssumption DEF TreeOfGroups, Listing, Frame

\* The innermost directory of a walk.
LEMMA TopFits ==
    ASSUME WalkIInv, phase = "walking"
    PROVE  /\ Len(walk) \in Nat \ {0} /\ Len(walk) \in 1..Len(walk)
           /\ Top = walk[Len(walk)] /\ Top \in Frame /\ Top.dir \in Mounted
           /\ Top.files \subseteq File[Top.dir]
<1>1. walk \in Seq(Frame) /\ walk # <<>>
  BY DEF WalkIInv, WalkFits, PhaseFits
<1>2. Len(walk) \in Nat \ {0}
  BY <1>1, EmptySeq
<1>3. Len(walk) \in 1..Len(walk)
  BY <1>2
<1>4. Top = walk[Len(walk)]
  BY DEF Top, Last
<1>5. QED
  BY <1>1, <1>2, <1>3, <1>4, ElementOfSeq DEF WalkIInv, WalkFits

\* The mounts stay a tree when no list of children changes.
LEMMA TreeStays ==
    ASSUME TreeOfMounts, DOMAIN mount' = DOMAIN mount,
           \A g \in Mounted : /\ DOMAIN mount'[g] = DOMAIN mount[g]
                              /\ mount'[g].children = mount[g].children
    PROVE  TreeOfMounts'
<1>1. Mounted' = Mounted
  BY DEF Mounted
<1>2. ASSUME NEW g \in Mounted
      PROVE  /\ DOMAIN mount'[g] = {"children", "figures"}
             /\ mount'[g].children \in Seq(Mounted \ {Root})
             /\ \A i, j \in 1..Len(mount'[g].children) :
                   mount'[g].children[i] = mount'[g].children[j] => i = j
             /\ \A i \in 1..Len(mount'[g].children) : Parent[mount'[g].children[i]] = g
  BY <1>2 DEF TreeOfMounts
<1>3. ASSUME NEW h \in Mounted \ {Root}
      PROVE  /\ Parent[h] \in Mounted
             /\ \E i \in 1..Len(mount'[Parent[h]].children) :
                   mount'[Parent[h]].children[i] = h
  BY <1>3 DEF TreeOfMounts
<1>4. QED
  BY <1>1, <1>2, <1>3 DEF TreeOfMounts

\* Nothing is walked at first.
LEMMA WalkInitIInv == CGroupInit => WalkIInv
<1> SUFFICES ASSUME CGroupInit PROVE WalkIInv
  OBVIOUS
<1>1. /\ phase = "idle" /\ walk = <<>> /\ pending = NoGroup /\ mount = <<>> /\ steady = {}
      /\ Mounted = {}
  BY DEF CGroupInit, Mounted
<1>2. TreeOfGroups
  BY <1>1 DEF CGroupInit, TreeOfGroups
<1>3. TreeOfMounts /\ FigureOfFile
  BY <1>1 DEF TreeOfMounts, FigureOfFile
<1>4. WalkFits
  BY <1>1, EmptySeq DEF WalkFits
<1>5. PendingFits /\ PhaseFits /\ ChildrenToCome /\ FilesToCome /\ FailedByRemoval
  BY <1>1 DEF PendingFits, PhaseFits, ChildrenToCome, FilesToCome, FailedByRemoval
<1>6. QED
  BY <1>2, <1>3, <1>4, <1>5 DEF WalkIInv

\* Nothing but the groups that are there changes: the walk stays what it was.
LEMMA KernelKeeps ==
    ASSUME WalkIInv, TreeOfGroups', steady' \subseteq steady, phase \in {"idle", "walking"},
           phase' = phase, walk' = walk, pending' = pending, mount' = mount
    PROVE  WalkIInv'
<1>1. Mounted' = Mounted
  BY DEF Mounted
<1>2. TreeOfMounts' /\ FigureOfFile'
  BY <1>1 DEF WalkIInv, TreeOfMounts, FigureOfFile
<1>3. WalkFits' /\ PendingFits'
  BY <1>1 DEF WalkIInv, WalkFits, PendingFits
<1>4. PhaseFits'
  BY <1>1 DEF WalkIInv, PhaseFits
<1>5. ChildrenToCome' /\ FilesToCome'
  BY <1>1 DEF WalkIInv, ChildrenToCome, FilesToCome
<1>6. FailedByRemoval'
  BY DEF FailedByRemoval
<1>7. QED
  BY <1>2, <1>3, <1>4, <1>5, <1>6 DEF WalkIInv

\* A group that is made is not one that was there all the time.
LEMMA MkdirKeeps ==
    ASSUME WalkIInv, NEW g \in Group \ {Root}, Mkdir(g)
    PROVE  WalkIInv'
<1>1. TreeOfGroups'
  BY DEF WalkIInv, TreeOfGroups, Mkdir
<1>2. QED
  BY <1>1, KernelKeeps DEF Mkdir

\* A group that is removed is no longer one, and has no children that are.
LEMMA RmdirKeeps ==
    ASSUME WalkIInv, NEW g \in Group \ {Root}, Rmdir(g)
    PROVE  WalkIInv'
<1>1. /\ alive' = alive \ {g} /\ steady' = steady \ {g}
      /\ \A h \in alive \ {Root} : Parent[h] # g
  BY DEF Rmdir
<1>2. TreeOfGroups'
  BY <1>1 DEF WalkIInv, TreeOfGroups
<1>3. QED
  BY <1>1, <1>2, KernelKeeps DEF Rmdir

\* The walk begins with the root, of which all is to come.
LEMMA BeginKeeps ==
    ASSUME WalkIInv, Begin
    PROVE  WalkIInv'
<1>1. /\ phase = "idle" /\ phase' = "walking" /\ walk' = <<Listing(Root)>>
      /\ mount' = [g \in {Root} |-> Unborn]
      /\ steady' = alive /\ alive' = alive /\ pending' = pending
  BY DEF Begin
<1>2. TreeOfGroups /\ pending = NoGroup
  BY <1>1 DEF WalkIInv, PhaseFits
<1>3. /\ Mounted' = {Root} /\ mount'[Root].children = <<>>
      /\ DOMAIN mount'[Root] = {"children", "figures"}
      /\ mount'[Root].figures = <<>>
  BY <1>1 DEF Mounted, Unborn
<1>4. TreeOfGroups'
  BY <1>1, <1>2 DEF TreeOfGroups
<1>5. TreeOfMounts'
  <2>1. mount'[Root].children \in Seq(Mounted' \ {Root}) /\ Len(mount'[Root].children) = 0
    BY <1>3, EmptySeq
  <2>2. 1..Len(mount'[Root].children) = {}
    BY <2>1
  <2>3. Mounted' \subseteq Group /\ Mounted' \ {Root} = {}
    BY <1>3, CGroupAssumption
  <2>4. QED
    BY <1>3, <2>1, <2>2, <2>3 DEF TreeOfMounts
<1>6. /\ Listing(Root) \in Frame /\ Listing(Root).dir = Root
      /\ Listing(Root).files = File[Root]
      /\ \A h : h \in Listing(Root).groups <=> h \in alive \ {Root} /\ Parent[h] = Root
  BY <1>2, ListingFits, CGroupAssumption
<1>7. walk' \in Seq(Frame) /\ Len(walk') = 1 /\ walk'[1] = Listing(Root) /\ walk' # <<>>
  BY <1>1, <1>6
<1>8. WalkFits'
  BY <1>3, <1>6, <1>7 DEF WalkFits
<1>9. PendingFits' /\ PhaseFits'
  BY <1>1, <1>2, <1>3, <1>7 DEF PendingFits, PhaseFits
<1>10. ChildrenToCome'
  BY <1>1, <1>3, <1>6, <1>7 DEF ChildrenToCome
<1>11. FilesToCome'
  BY <1>1, <1>3, <1>6, <1>7 DEF FilesToCome
<1>12. FigureOfFile' /\ FailedByRemoval'
  BY <1>1, <1>3 DEF FigureOfFile, FailedByRemoval
<1>13. QED
  BY <1>4, <1>5, <1>8, <1>9, <1>10, <1>11, <1>12 DEF WalkIInv

\* A file is read into the figures of its directory, unless that is gone.
LEMMA HandleFileKeeps ==
    ASSUME WalkIInv, NEW f \in DOMAIN Content, NEW content \in Content[f],
           HandleFile(f, content)
    PROVE  WalkIInv'
<1> DEFINE n == Len(walk)
           d == Top.dir
           read == d \in alive /\ f \in ReadFile /\ content # Empty
<1>1. /\ phase = "walking" /\ pending = NoGroup /\ f \in Top.files
      /\ walk' = [walk EXCEPT ![n].files = @ \ {f}]
      /\ mount' = IF read THEN [mount EXCEPT ![d].figures = WithFigure(@, f, content)]
                  ELSE mount
      /\ alive' = alive /\ phase' = phase /\ pending' = pending /\ steady' = steady
  BY DEF HandleFile, Listed
<1>2. /\ n \in Nat \ {0} /\ n \in 1..n /\ Top = walk[n] /\ Top \in Frame /\ d \in Mounted
      /\ f \in File[d]
  BY <1>1, TopFits
<1>3. walk \in Seq(Frame) /\ DOMAIN walk = 1..n
  BY LenProperties DEF WalkIInv, WalkFits
<1>4. /\ walk' \in Seq(Frame) /\ Len(walk') = n
      /\ \A i \in 1..n : /\ walk'[i].dir = walk[i].dir /\ walk'[i].groups = walk[i].groups
                         /\ walk'[i].files = IF i = n THEN walk[i].files \ {f}
                                             ELSE walk[i].files
  <2> DEFINE frame == [walk[n] EXCEPT !.files = @ \ {f}]
  <2>1. /\ frame \in Frame /\ frame.dir = walk[n].dir /\ frame.groups = walk[n].groups
        /\ frame.files = walk[n].files \ {f}
    BY <1>2 DEF Frame
  <2>2. walk' = [walk EXCEPT ![n] = frame]
    BY <1>1
  <2> HIDE DEF frame
  <2>3. /\ walk' \in Seq(Frame) /\ Len(walk') = n
        /\ \A i \in 1..n : walk'[i] = IF i = n THEN frame ELSE walk[i]
    <3> HIDE DEF d
    <3>1. QED
      BY ONLY <1>2, <1>3, <2>1, <2>2, ExceptSeq
  <2>4. QED
    BY <2>1, <2>3
<1>5. /\ Mounted' = Mounted
      /\ \A g \in Mounted : /\ DOMAIN mount'[g] = DOMAIN mount[g]
                            /\ mount'[g].children = mount[g].children
                            /\ mount'[g].figures = IF read /\ g = d
                                 THEN WithFigure(mount[g].figures, f, content)
                                 ELSE mount[g].figures
  <2>1. \A g \in Mounted : DOMAIN mount[g] = {"children", "figures"}
    BY DEF WalkIInv, TreeOfMounts
  <2>2. QED
    BY <1>1, <1>2, <2>1 DEF Mounted
<1>6. TreeOfGroups'
  BY <1>1 DEF WalkIInv, TreeOfGroups
<1>7. TreeOfMounts'
  BY <1>5, TreeStays DEF WalkIInv, Mounted
<1>8. WalkFits'
  <2>1. \A i \in 1..n :
          /\ walk'[i].dir \in Mounted
          /\ walk'[i].files \subseteq File[walk'[i].dir]
          /\ \A g \in walk'[i].groups :
                g # Root /\ Parent[g] = walk'[i].dir /\ g \notin Mounted
    <3> SUFFICES ASSUME NEW i \in 1..n
                 PROVE  /\ walk'[i].dir \in Mounted
                        /\ walk'[i].files \subseteq File[walk'[i].dir]
                        /\ \A g \in walk'[i].groups :
                              g # Root /\ Parent[g] = walk'[i].dir /\ g \notin Mounted
      OBVIOUS
    <3>1. /\ walk[i].dir \in Mounted
          /\ walk[i].files \subseteq File[walk[i].dir]
          /\ \A g \in walk[i].groups :
                g # Root /\ Parent[g] = walk[i].dir /\ g \notin Mounted
      BY DEF WalkIInv, WalkFits
    <3>2. /\ walk'[i].dir = walk[i].dir /\ walk'[i].groups = walk[i].groups
          /\ walk'[i].files \subseteq walk[i].files
      BY <1>4
    <3> HIDE DEF n
    <3>3. QED
      BY ONLY <3>1, <3>2
  <2>2. \A i, j \in 1..n : walk'[i].dir = walk'[j].dir => i = j
    BY <1>4 DEF WalkIInv, WalkFits
  <2>3. QED
    BY <1>4, <1>5, <2>1, <2>2 DEF WalkFits
<1>9. PendingFits' /\ PhaseFits' /\ FailedByRemoval'
  BY <1>1, <1>2, <1>4, <1>5, EmptySeq DEF WalkIInv, PendingFits, PhaseFits, FailedByRemoval
<1>10. ChildrenToCome'
  BY <1>1, <1>4, <1>5 DEF WalkIInv, ChildrenToCome
<1>11. FilesToCome'
  <2> SUFFICES ASSUME NEW g \in steady \intersect Mounted, NEW e \in File[g] \intersect ReadFile,
                      Empty \notin Content[e], Field(e) \notin DOMAIN mount'[g].figures
               PROVE  \E i \in 1..n : walk'[i].dir = g /\ e \in walk'[i].files
    BY <1>1, <1>4, <1>5 DEF FilesToCome
  <2>1. Field(e) \notin DOMAIN mount[g].figures
    BY <1>5 DEF WithFigure
  <2>2. g # NoGroup
    BY CGroupAssumption DEF WalkIInv, TreeOfMounts
  <2>3. PICK i \in 1..n : walk[i].dir = g /\ e \in walk[i].files
    BY <1>1, <2>1, <2>2 DEF WalkIInv, FilesToCome
  <2>4. ~(i = n /\ e = f)
    <3> SUFFICES ASSUME i = n, e = f PROVE FALSE
      OBVIOUS
    <3>1. g = d /\ d \in alive
      BY <1>2, <2>3 DEF WalkIInv, TreeOfGroups
    <3>2. read
      BY <3>1
    <3>3. mount'[g].figures = WithFigure(mount[g].figures, f, content)
      BY ONLY <1>5, <3>1, <3>2
    <3>4. Field(e) \in DOMAIN WithFigure(mount[g].figures, f, content)
      BY DEF WithFigure
    <3>5. QED
      BY <3>3, <3>4, Zenon
  <2>5. QED
    BY <1>4, <2>3, <2>4
<1>12. FigureOfFile'
  <2> SUFFICES ASSUME NEW g \in Mounted, NEW m \in DOMAIN mount'[g].figures
               PROVE  \E e \in File[g] : /\ Field(e) = m
                                         /\ \E c \in Content[e] \ {Empty} :
                                              mount'[g].figures[m] = Figure(e, c)
    BY <1>5 DEF FigureOfFile
  <2>1. CASE read /\ g = d /\ m = Field(f)
    <3>1. mount'[g].figures[m] = Figure(f, content) /\ content \in Content[f] \ {Empty}
      BY <1>5, <2>1 DEF WithFigure
    <3>2. QED
      BY <1>2, <2>1, <3>1
  <2>2. CASE ~(read /\ g = d /\ m = Field(f))
    <3>1. m \in DOMAIN mount[g].figures /\ mount'[g].figures[m] = mount[g].figures[m]
      <4>1. CASE read /\ g = d
        <5>1. m # Field(f)
          BY <2>2, <4>1
        <5>2. mount'[g].figures = WithFigure(mount[g].figures, f, content)
          BY <1>5, <4>1
        <5>3. QED
          BY ONLY <5>1, <5>2, m \in DOMAIN mount'[g].figures DEF WithFigure
      <4>2. CASE ~(read /\ g = d)
        BY <1>5, <4>2
      <4>3. QED
        BY <4>1, <4>2
    <3>2. QED
      BY <3>1 DEF WalkIInv, FigureOfFile
  <2>3. QED
    BY <2>1, <2>2
<1>13. QED
  BY <1>6, <1>7, <1>8, <1>9, <1>10, <1>11, <1>12 DEF WalkIInv

\* A directory gets a mount that is a child of the mount it is listed in.
LEMMA MountFits ==
    ASSUME TreeOfMounts, NEW g \in Group \ {Root}, Parent[g] \in Mounted, g \notin Mounted,
           mount' = WithMount([mount EXCEPT ![Parent[g]].children = Append(@, g)], g)
    PROVE  /\ Mounted' = Mounted \union {g} /\ mount'[g] = Unborn
           /\ \A h \in Mounted : h # Parent[g] => mount'[h] = mount[h]
           /\ DOMAIN mount'[Parent[g]] = {"children", "figures"}
           /\ mount'[Parent[g]].figures = mount[Parent[g]].figures
           /\ mount'[Parent[g]].children = Append(mount[Parent[g]].children, g)
<1> DEFINE p == Parent[g]
           with == [mount EXCEPT ![p].children = Append(@, g)]
<1>1. DOMAIN mount[p] = {"children", "figures"} /\ p \in DOMAIN mount /\ g \notin DOMAIN mount
  BY DEF TreeOfMounts, Mounted
<1>2. /\ DOMAIN with = DOMAIN mount /\ DOMAIN with[p] = {"children", "figures"}
      /\ with[p].figures = mount[p].figures
      /\ with[p].children = Append(mount[p].children, g)
      /\ \A h \in DOMAIN mount : h # p => with[h] = mount[h]
  BY <1>1
<1>3. mount' = [h \in DOMAIN with \union {g} |-> IF h = g THEN Unborn ELSE with[h]]
  BY DEF WithMount
<1> HIDE DEF with
<1>4. /\ DOMAIN mount' = DOMAIN mount \union {g} /\ mount'[g] = Unborn
      /\ \A h \in DOMAIN mount : mount'[h] = with[h]
  BY <1>1, <1>2, <1>3
<1>5. QED
  BY <1>1, <1>2, <1>4 DEF Mounted

\* The mounts are a tree with it.
LEMMA TreeGrows ==
    ASSUME TreeOfMounts, NEW g \in Group \ {Root}, Parent[g] \in Mounted, g \notin Mounted,
           mount' = WithMount([mount EXCEPT ![Parent[g]].children = Append(@, g)], g)
    PROVE  TreeOfMounts'
<1> DEFINE p == Parent[g]
           old == mount[p].children
           new == mount'[p].children
<1>1. /\ Mounted' = Mounted \union {g} /\ mount'[g] = Unborn
      /\ \A h \in Mounted : h # p => mount'[h] = mount[h]
      /\ DOMAIN mount'[p] = {"children", "figures"} /\ new = Append(old, g)
  BY MountFits
<1>2. /\ old \in Seq(Mounted \ {Root})
      /\ \A i, j \in 1..Len(old) : old[i] = old[j] => i = j
      /\ \A i \in 1..Len(old) : Parent[old[i]] = p
  BY DEF TreeOfMounts
<1>3. /\ new \in Seq(Mounted' \ {Root}) /\ Len(new) = Len(old) + 1 /\ new[Len(old) + 1] = g
      /\ \A i \in 1..Len(old) : new[i] = old[i] /\ new[i] \in Mounted
      /\ Len(old) \in Nat
  <2>1. old \in Seq(Mounted' \ {Root}) /\ g \in Mounted' \ {Root}
    <3>1. Mounted' = Mounted \union {g}
      BY <1>1
    <3>2. old \in Seq(Mounted \ {Root}) /\ g # Root
      BY <1>2
    <3> HIDE DEF old
    <3>3. QED
      BY ONLY <3>1, <3>2, SeqMonotonic
  <2>2. \A i \in 1..Len(old) : old[i] \in Mounted
    BY <1>2, ElementOfSeq
  <2> HIDE DEF old, new
  <2>3. new = Append(old, g) /\ Len(old) \in Nat
    BY <1>1, <1>2, LenProperties
  <2>4. /\ Append(old, g) \in Seq(Mounted' \ {Root}) /\ Len(Append(old, g)) = Len(old) + 1
        /\ Append(old, g)[Len(old) + 1] = g
        /\ \A i \in 1..Len(old) : Append(old, g)[i] = old[i]
    BY ONLY <2>1, AppendProperties
  <2>5. QED
    BY <2>2, <2>3, <2>4
<1> HIDE DEF old, new
<1>4. \A i, j \in 1..Len(new) : new[i] = new[j] => i = j
  <2> SUFFICES ASSUME NEW i \in 1..Len(new), NEW j \in 1..Len(new), new[i] = new[j]
               PROVE  i = j
    OBVIOUS
  <2>1. (i \in 1..Len(old) \/ i = Len(old) + 1) /\ (j \in 1..Len(old) \/ j = Len(old) + 1)
    BY <1>3
  <2>2. g \notin Mounted
    OBVIOUS
  <2>3. QED
    BY <1>2, <1>3, <2>1, <2>2
<1>5. \A i \in 1..Len(new) : Parent[new[i]] = p
  <2> SUFFICES ASSUME NEW i \in 1..Len(new) PROVE Parent[new[i]] = p
    OBVIOUS
  <2>1. i \in 1..Len(old) \/ i = Len(old) + 1
    BY <1>3
  <2>2. QED
    BY <1>2, <1>3, <2>1
<1>6. ASSUME NEW h \in Mounted'
      PROVE  /\ DOMAIN mount'[h] = {"children", "figures"}
             /\ mount'[h].children \in Seq(Mounted' \ {Root})
             /\ \A i, j \in 1..Len(mount'[h].children) :
                   mount'[h].children[i] = mount'[h].children[j] => i = j
             /\ \A i \in 1..Len(mount'[h].children) : Parent[mount'[h].children[i]] = h
  <2>1. CASE h = p
    BY <1>1, <1>3, <1>4, <1>5, <2>1 DEF new
  <2>2. CASE h = g
    <3>1. mount'[h] = Unborn
      BY <1>1, <2>2
    <3>2. DOMAIN Unborn = {"children", "figures"} /\ Unborn.children = <<>>
      BY DEF Unborn
    <3>3. Len(<<>>) = 0 /\ <<>> \in Seq(Mounted' \ {Root}) /\ 1..0 = {}
      BY EmptySeq
    <3>4. QED
      BY <3>1, <3>2, <3>3
  <2>3. CASE h # p /\ h # g
    <3>1. h \in Mounted /\ mount'[h] = mount[h]
      BY <1>1, <1>6, <2>3
    <3>2. /\ mount[h].children \in Seq(Mounted \ {Root})
          /\ Mounted \ {Root} \subseteq Mounted' \ {Root}
      BY <1>1, <3>1 DEF TreeOfMounts
    <3>3. mount[h].children \in Seq(Mounted' \ {Root})
      BY <3>2
    <3>4. /\ DOMAIN mount[h] = {"children", "figures"}
          /\ \A i, j \in 1..Len(mount[h].children) :
                mount[h].children[i] = mount[h].children[j] => i = j
          /\ \A i \in 1..Len(mount[h].children) : Parent[mount[h].children[i]] = h
      BY <3>1 DEF TreeOfMounts
    <3>5. QED
      BY ONLY <3>1, <3>3, <3>4
  <2>4. QED
    BY <2>1, <2>2, <2>3
<1>7. ASSUME NEW h \in Mounted' \ {Root}
      PROVE  /\ Parent[h] \in Mounted'
             /\ \E i \in 1..Len(mount'[Parent[h]].children) :
                   mount'[Parent[h]].children[i] = h
  <2>1. CASE h = g
    <3>1. Len(old) + 1 \in 1..Len(new) /\ new[Len(old) + 1] = h
      BY <1>3, <2>1
    <3>2. QED
      BY <1>1, <2>1, <3>1 DEF new
  <2>2. CASE h # g
    <3>1. h \in Mounted \ {Root}
      BY <1>1, <1>7, <2>2
    <3>2. Parent[h] \in Mounted
      BY <3>1 DEF TreeOfMounts
    <3>3. PICK i \in 1..Len(mount[Parent[h]].children) : mount[Parent[h]].children[i] = h
      BY <3>1 DEF TreeOfMounts
    <3>4. CASE Parent[h] = p
      <4>1. i \in 1..Len(old) /\ old[i] = h
        BY <3>3, <3>4 DEF old
      <4>2. i \in 1..Len(new) /\ new[i] = h
        BY <1>3, <4>1
      <4>3. QED
        BY <1>1, <3>2, <3>4, <4>2 DEF new
    <3>5. CASE Parent[h] # p
      BY <1>1, <3>2, <3>3, <3>5
    <3>6. QED
      BY <3>4, <3>5
  <2>3. QED
    BY <2>1, <2>2
<1>8. Mounted' \subseteq Group
  BY <1>1 DEF TreeOfMounts
<1>9. QED
  BY <1>6, <1>7, <1>8 DEF TreeOfMounts

\* A directory that is listed is a child of the innermost one and has no mount.
LEMMA ListedFits ==
    ASSUME WalkIInv, NEW g \in Group \ {Root}, HandleDirectory(g)
    PROVE  /\ phase = "walking" /\ pending = NoGroup /\ g # NoGroup
           /\ g \in walk[Len(walk)].groups /\ Top = walk[Len(walk)]
           /\ Len(walk) \in 1..Len(walk) /\ walk \in Seq(Frame)
           /\ Parent[g] = walk[Len(walk)].dir /\ Parent[g] \in Mounted /\ g \notin Mounted
<1>1. phase = "walking" /\ pending = NoGroup /\ g \in Top.groups
  BY DEF HandleDirectory, Listed
<1>2. Len(walk) \in 1..Len(walk) /\ Top = walk[Len(walk)] /\ Top.dir \in Mounted
  BY <1>1, TopFits
<1>3. Parent[g] = walk[Len(walk)].dir /\ g \notin Mounted /\ walk \in Seq(Frame)
  BY <1>1, <1>2 DEF WalkIInv, WalkFits
<1>4. g # NoGroup
  BY CGroupAssumption
<1>5. QED
  BY <1>1, <1>2, <1>3, <1>4

\* It is taken from the listing.
LEMMA ListingShrinks ==
    ASSUME WalkIInv, NEW g \in Group \ {Root}, HandleDirectory(g)
    PROVE  /\ walk' \in Seq(Frame) /\ Len(walk') = Len(walk)
           /\ \A i \in 1..Len(walk) :
                /\ walk'[i].dir = walk[i].dir /\ walk'[i].files = walk[i].files
                /\ walk'[i].groups = IF i = Len(walk) THEN walk[i].groups \ {g}
                                     ELSE walk[i].groups
<1> DEFINE n == Len(walk)
           frame == [walk[n] EXCEPT !.groups = @ \ {g}]
<1>1. /\ walk \in Seq(Frame) /\ n \in 1..n /\ DOMAIN walk = 1..n /\ walk[n] \in Frame
  BY ListedFits, ElementOfSeq, LenProperties
<1>2. /\ frame \in Frame /\ frame.dir = walk[n].dir /\ frame.files = walk[n].files
      /\ frame.groups = walk[n].groups \ {g}
  BY <1>1 DEF Frame
<1>3. walk' = [walk EXCEPT ![n] = frame]
  BY <1>1 DEF HandleDirectory, Others
<1> HIDE DEF frame
<1>4. /\ walk' \in Seq(Frame) /\ Len(walk') = n
      /\ \A i \in 1..n : walk'[i] = IF i = n THEN frame ELSE walk[i]
  BY ONLY <1>1, <1>2, <1>3, ExceptSeq
<1>5. QED
  BY <1>2, <1>4

\* A directory that is listed leaves the invariant as it is.
LEMMA HandleDirectoryKeeps ==
    ASSUME WalkIInv, NEW g \in Group \ {Root}, HandleDirectory(g)
    PROVE  WalkIInv'
<1> DEFINE n == Len(walk)
<1>1. /\ phase' = phase /\ pending' = g /\ alive' = alive /\ steady' = steady
      /\ mount' = WithMount([mount EXCEPT ![Parent[g]].children = Append(@, g)], g)
  BY DEF HandleDirectory
<1>2. /\ phase = "walking" /\ pending = NoGroup /\ g # NoGroup
      /\ g \in walk[n].groups /\ n \in 1..n
      /\ Parent[g] = walk[n].dir /\ Parent[g] \in Mounted /\ g \notin Mounted
  BY ListedFits
<1>3. /\ walk' \in Seq(Frame) /\ Len(walk') = n
      /\ \A i \in 1..n : /\ walk'[i].dir = walk[i].dir /\ walk'[i].files = walk[i].files
                         /\ walk'[i].groups = IF i = n THEN walk[i].groups \ {g}
                                              ELSE walk[i].groups
  BY ListingShrinks
<1>4. TreeOfMounts /\ WalkFits /\ PhaseFits /\ ChildrenToCome /\ FilesToCome /\ FigureOfFile
  BY DEF WalkIInv
<1>5. /\ Mounted' = Mounted \union {g} /\ mount'[g] = Unborn
      /\ \A h \in Mounted : h # Parent[g] => mount'[h] = mount[h]
      /\ mount'[Parent[g]].figures = mount[Parent[g]].figures
  BY <1>1, <1>2, <1>4, MountFits
<1>6. \A h \in Mounted : mount'[h].figures = mount[h].figures
  BY <1>5
<1>7. TreeOfGroups'
  BY <1>1 DEF WalkIInv, TreeOfGroups
<1>8. TreeOfMounts'
  BY <1>1, <1>2, <1>4, TreeGrows
<1>9. WalkFits'
  <2>1. ASSUME NEW i \in 1..n
        PROVE  /\ walk'[i].dir \in Mounted' /\ walk'[i].files \subseteq File[walk'[i].dir]
               /\ \A h \in walk'[i].groups :
                     h # Root /\ Parent[h] = walk'[i].dir /\ h \notin Mounted'
    <3>1. /\ walk[i].dir \in Mounted /\ walk[i].files \subseteq File[walk[i].dir]
          /\ \A h \in walk[i].groups :
                h # Root /\ Parent[h] = walk[i].dir /\ h \notin Mounted
      BY <1>4 DEF WalkFits
    <3>2. walk'[i].dir \in Mounted' /\ walk'[i].files \subseteq File[walk'[i].dir]
      BY <1>3, <1>5, <3>1
    <3>3. ASSUME NEW h \in walk'[i].groups
          PROVE  h # Root /\ Parent[h] = walk'[i].dir /\ h \notin Mounted'
      <4>1. h \in walk[i].groups /\ (i = n => h # g)
        BY <1>3
      <4>2. h # Root /\ Parent[h] = walk'[i].dir /\ h \notin Mounted
        BY <1>3, <3>1, <4>1
      <4>3. h # g
        <5> SUFFICES ASSUME h = g PROVE FALSE
          OBVIOUS
        <5>1. walk[i].dir = walk[n].dir
          BY <1>2, <3>1, <4>1
        <5>2. i = n
          BY <1>2, <1>4, <5>1 DEF WalkFits
        <5>3. QED
          BY <4>1, <5>2
      <4>4. QED
        BY <1>5, <4>2, <4>3
    <3>4. QED
      BY <3>2, <3>3
  <2>2. \A i, j \in 1..n : walk'[i].dir = walk'[j].dir => i = j
    BY <1>3, <1>4 DEF WalkFits
  <2>3. QED
    BY <1>3, <2>1, <2>2 DEF WalkFits
<1>10. PendingFits'
  <2>1. \A i \in 1..n : walk'[i].dir # g
    <3>1. \A i \in 1..n : walk[i].dir \in Mounted
      BY <1>4 DEF WalkFits
    <3>2. QED
      BY <1>2, <1>3, <3>1
  <2>2. ASSUME NEW h \in Mounted' \ {Root} PROVE Parent[h] # g
    <3>1. CASE h = g
      BY <1>2, <3>1
    <3>2. CASE h # g
      BY <1>2, <1>4, <1>5, <3>2 DEF TreeOfMounts
    <3>3. QED
      BY <3>1, <3>2
  <2>3. QED
    BY <1>1, <1>3, <1>5, <2>1, <2>2 DEF PendingFits
<1>11. PhaseFits'
  <2>1. walk' # <<>>
    BY <1>2, <1>3, EmptySeq
  <2>2. QED
    BY <1>1, <1>2, <1>4, <1>5, <2>1 DEF PhaseFits
<1>12. ChildrenToCome'
  <2> SUFFICES ASSUME NEW h \in steady \ {Root}, Parent[h] \in Mounted', h \notin Mounted',
                      Parent[h] # g
               PROVE  \E i \in 1..n : h \in walk'[i].groups
    BY <1>1, <1>2, <1>3 DEF ChildrenToCome
  <2>1. Parent[h] \in Mounted /\ h \notin Mounted /\ h # g
    BY <1>5
  <2>2. Parent[h] # NoGroup
    BY <2>1, CGroupAssumption, <1>4 DEF TreeOfMounts
  <2>3. PICK i \in 1..n : h \in walk[i].groups
    BY <1>2, <1>4, <2>1, <2>2 DEF ChildrenToCome
  <2>4. h \in walk'[i].groups
    BY <1>3, <2>1, <2>3
  <2>5. QED
    BY <2>4
<1>13. FilesToCome'
  <2>1. ASSUME NEW h \in steady \intersect Mounted', NEW e \in File[h] \intersect ReadFile,
               Empty \notin Content[e], Field(e) \notin DOMAIN mount'[h].figures, h # g
        PROVE  \E i \in 1..n : walk'[i].dir = h /\ e \in walk'[i].files
    <3>1. h \in steady \intersect Mounted /\ Field(e) \notin DOMAIN mount[h].figures
      BY <1>5, <1>6, <2>1
    <3>2. h # NoGroup
      BY <3>1, CGroupAssumption, <1>4 DEF TreeOfMounts
    <3>3. PICK i \in 1..n : walk[i].dir = h /\ e \in walk[i].files
      BY <1>2, <1>4, <2>1, <3>1, <3>2 DEF FilesToCome
    <3>4. QED
      BY <1>3, <3>3
  <2> HIDE DEF n
  <2>2. Len(walk') = n /\ steady' = steady /\ pending' = g
    BY <1>1, <1>3
  <2>3. QED
    BY ONLY <2>1, <2>2 DEF FilesToCome
<1>14. FigureOfFile'
  <2> SUFFICES ASSUME NEW h \in Mounted', NEW m \in DOMAIN mount'[h].figures
               PROVE  \E e \in File[h] : /\ Field(e) = m
                                         /\ \E c \in Content[e] \ {Empty} :
                                              mount'[h].figures[m] = Figure(e, c)
    BY DEF FigureOfFile
  <2>1. h # g
    BY <1>5 DEF Unborn
  <2>2. h \in Mounted /\ mount'[h].figures = mount[h].figures
    BY <1>5, <1>6, <2>1
  <2>3. QED
    BY <1>4, <2>2 DEF FigureOfFile
<1>15. FailedByRemoval'
  BY <1>1, <1>2 DEF FailedByRemoval
<1>16. QED
  BY <1>7, <1>8, <1>9, <1>10, <1>11, <1>12, <1>13, <1>14, <1>15 DEF WalkIInv

\* A directory that is opened is walked through; one that is gone ends the walk.
LEMMA DescendKeeps ==
    ASSUME WalkIInv, Descend
    PROVE  WalkIInv'
<1> DEFINE n == Len(walk)
           p == pending
<1>1. /\ phase = "walking" /\ p # NoGroup
      /\ alive' = alive /\ mount' = mount /\ steady' = steady /\ Mounted' = Mounted
  BY DEF Descend, Mounted
<1>2. /\ TreeOfGroups /\ TreeOfMounts /\ WalkFits /\ PendingFits /\ PhaseFits
      /\ ChildrenToCome /\ FilesToCome /\ FigureOfFile
  BY DEF WalkIInv
<1>3. /\ p \in Mounted /\ p \in Group /\ Root \in Mounted
      /\ \A i \in 1..n : walk[i].dir # p
      /\ \A h \in Mounted \ {Root} : Parent[h] # p
  BY <1>1, <1>2 DEF PendingFits, PhaseFits, TreeOfMounts
<1>4. TreeOfGroups' /\ TreeOfMounts' /\ FigureOfFile'
  BY <1>1, <1>2 DEF TreeOfGroups, TreeOfMounts, FigureOfFile
<1>5. CASE p \in alive
  <2>1. walk' = Append(walk, Listing(p)) /\ pending' = NoGroup /\ phase' = phase
    BY <1>5 DEF Descend
  <2>2. /\ Listing(p) \in Frame /\ Listing(p).dir = p /\ Listing(p).files = File[p]
        /\ \A h : h \in Listing(p).groups <=> h \in alive \ {Root} /\ Parent[h] = p
    BY <1>2, <1>3, ListingFits
  <2>3. /\ walk' \in Seq(Frame) /\ Len(walk') = n + 1 /\ walk'[n + 1] = Listing(p)
        /\ \A i \in 1..n : walk'[i] = walk[i]
        /\ n \in Nat
    <3>1. walk \in Seq(Frame)
      BY <1>2 DEF WalkFits
    <3>2. QED
      BY <2>1, <2>2, <3>1, AppendProperties, LenProperties
  <2>4. \A i \in 1..(n + 1) : i \in 1..n \/ i = n + 1
    BY <2>3
  <2>5. 1..n \subseteq 1..(n + 1) /\ n + 1 \in 1..(n + 1)
    BY <2>3
  <2>6. WalkFits'
    <3>1. ASSUME NEW i \in 1..(n + 1)
          PROVE  /\ walk'[i].dir \in Mounted /\ walk'[i].files \subseteq File[walk'[i].dir]
                 /\ \A g \in walk'[i].groups :
                       g # Root /\ Parent[g] = walk'[i].dir /\ g \notin Mounted
      <4>1. CASE i \in 1..n
        BY <1>2, <2>3, <4>1 DEF WalkFits
      <4>2. CASE i = n + 1
        BY <1>3, <2>2, <2>3, <4>2
      <4>3. QED
        BY <2>4, <4>1, <4>2
    <3>2. ASSUME NEW i \in 1..(n + 1), NEW j \in 1..(n + 1), walk'[i].dir = walk'[j].dir
          PROVE  i = j
      <4>1. CASE i \in 1..n /\ j \in 1..n
        BY <1>2, <2>3, <3>2, <4>1 DEF WalkFits
      <4>2. CASE i \in 1..n /\ j = n + 1
        BY <1>3, <2>2, <2>3, <3>2, <4>2
      <4>3. CASE i = n + 1 /\ j \in 1..n
        BY <1>3, <2>2, <2>3, <3>2, <4>3
      <4>4. QED
        BY <2>4, <4>1, <4>2, <4>3
    <3>3. QED
      BY <1>1, <2>3, <3>1, <3>2 DEF WalkFits
  <2>7. PendingFits' /\ FailedByRemoval'
    BY <1>1, <2>1 DEF PendingFits, FailedByRemoval
  <2>8. PhaseFits'
    <3>1. walk' # <<>>
      BY <2>3, EmptySeq
    <3>2. QED
      BY <1>1, <1>3, <2>1, <3>1 DEF PhaseFits
  <2>9. ChildrenToCome'
    <3>1. ASSUME NEW g \in steady \ {Root}, Parent[g] \in Mounted, g \notin Mounted
          PROVE  \E i \in 1..(n + 1) : g \in walk'[i].groups
      <4>1. CASE Parent[g] = p
        <5>1. g \in Listing(p).groups
          BY <1>2, <2>2, <4>1 DEF TreeOfGroups
        <5>2. QED
          BY <2>3, <2>5, <5>1
      <4>2. CASE Parent[g] # p
        <5>1. PICK i \in 1..n : g \in walk[i].groups
          BY <1>1, <1>2, <3>1, <4>2 DEF ChildrenToCome
        <5>2. QED
          BY <2>3, <2>5, <5>1
      <4>3. QED
        BY <4>1, <4>2
    <3>2. QED
      BY <1>1, <2>3, <3>1 DEF ChildrenToCome
  <2>10. FilesToCome'
    <3>1. ASSUME NEW g \in steady \intersect Mounted, NEW e \in File[g] \intersect ReadFile,
                 Empty \notin Content[e], Field(e) \notin DOMAIN mount[g].figures
          PROVE  \E i \in 1..(n + 1) : walk'[i].dir = g /\ e \in walk'[i].files
      <4>1. CASE g = p
        BY <2>2, <2>3, <2>5, <4>1
      <4>2. CASE g # p
        <5>1. PICK i \in 1..n : walk[i].dir = g /\ e \in walk[i].files
          BY <1>1, <1>2, <3>1, <4>2 DEF FilesToCome
        <5>2. QED
          BY <2>3, <2>5, <5>1
      <4>3. QED
        BY <4>1, <4>2
    <3>2. QED
      BY <1>1, <2>3, <3>1 DEF FilesToCome
  <2>11. QED
    BY <1>4, <2>6, <2>7, <2>8, <2>9, <2>10 DEF WalkIInv
<1>6. CASE p \notin alive
  <2>1. walk' = <<>> /\ phase' = "failed" /\ pending' = pending
    BY <1>6 DEF Descend
  <2>2. walk' \in Seq(Frame) /\ Len(walk') = 0 /\ 1..0 = {}
    BY <2>1, EmptySeq
  <2>3. WalkFits'
    BY <2>2 DEF WalkFits
  <2>4. PendingFits'
    BY <1>1, <1>3, <2>1, <2>2 DEF PendingFits
  <2>5. PhaseFits' /\ ChildrenToCome' /\ FilesToCome'
    BY <2>1 DEF PhaseFits, ChildrenToCome, FilesToCome
  <2>6. FailedByRemoval'
    BY <1>1, <1>2, <1>3, <1>6, <2>1 DEF FailedByRemoval, TreeOfGroups
  <2>7. QED
    BY <1>4, <2>3, <2>4, <2>5, <2>6 DEF WalkIInv
<1>7. QED
  BY <1>5, <1>6

\* A directory that is closed has nothing left.
LEMMA AscendKeeps ==
    ASSUME WalkIInv, Ascend
    PROVE  WalkIInv'
<1> DEFINE n == Len(walk)
<1>1. /\ phase = "walking" /\ pending = NoGroup /\ Top.files = {} /\ Top.groups = {}
      /\ walk' = Front(walk) /\ phase' = IF n = 1 THEN "done" ELSE phase
      /\ alive' = alive /\ pending' = pending /\ mount' = mount /\ steady' = steady
      /\ Mounted' = Mounted
  BY DEF Ascend, Listed, Mounted
<1>2. /\ TreeOfGroups /\ TreeOfMounts /\ WalkFits /\ PhaseFits
      /\ ChildrenToCome /\ FilesToCome /\ FigureOfFile
  BY DEF WalkIInv
<1>3. /\ n \in Nat \ {0} /\ n \in 1..n /\ Top = walk[n] /\ walk \in Seq(Frame)
      /\ walk[n].files = {} /\ walk[n].groups = {} /\ Root \in Mounted
  BY <1>1, <1>2, TopFits DEF WalkFits, PhaseFits
<1>4. /\ walk' \in Seq(Frame) /\ Len(walk') = n - 1
      /\ \A i \in 1..(n - 1) : walk'[i] = walk[i]
  <2>1. walk # <<>>
    BY <1>3, EmptySeq
  <2>2. \A i \in 1..(n - 1) : walk[i] \in Frame
    BY <1>3, ElementOfSeq
  <2>3. walk' = [i \in 1..(n - 1) |-> walk[i]]
    BY <1>1, <1>3 DEF Front
  <2>4. QED
    BY <1>3, <2>2, <2>3, IsASeq
<1>5. \A i \in 1..n : i \in 1..(n - 1) \/ i = n
  BY <1>3
<1>6. \A i \in 1..(n - 1) : i \in 1..n
  BY <1>3
<1>7. TreeOfGroups' /\ TreeOfMounts' /\ FigureOfFile'
  BY <1>1, <1>2 DEF TreeOfGroups, TreeOfMounts, FigureOfFile
<1>8. WalkFits'
  <2>1. ASSUME NEW i \in 1..(n - 1)
        PROVE  /\ walk'[i].dir \in Mounted /\ walk'[i].files \subseteq File[walk'[i].dir]
               /\ \A g \in walk'[i].groups :
                     g # Root /\ Parent[g] = walk'[i].dir /\ g \notin Mounted
    BY <1>2, <1>4, <1>6 DEF WalkFits
  <2>2. ASSUME NEW i \in 1..(n - 1), NEW j \in 1..(n - 1), walk'[i].dir = walk'[j].dir
        PROVE  i = j
    BY <1>2, <1>4, <1>6, <2>2 DEF WalkFits
  <2>3. QED
    BY <1>1, <1>4, <2>1, <2>2 DEF WalkFits
<1>9. PendingFits' /\ FailedByRemoval'
  BY <1>1 DEF PendingFits, FailedByRemoval
<1>10. PhaseFits'
  <2>1. CASE n = 1
    <3>1. walk' = <<>>
      BY <1>4, <2>1, EmptySeq
    <3>2. QED
      BY <1>1, <1>3, <2>1, <3>1 DEF PhaseFits
  <2>2. CASE n # 1
    <3>1. walk' # <<>>
      BY <1>3, <1>4, <2>2, EmptySeq
    <3>2. QED
      BY <1>1, <1>3, <2>2, <3>1 DEF PhaseFits
  <2>3. QED
    BY <2>1, <2>2
<1>11. ChildrenToCome'
  <2>1. ASSUME NEW g \in steady \ {Root}, Parent[g] \in Mounted, g \notin Mounted
        PROVE  \E i \in 1..(n - 1) : g \in walk'[i].groups
    <3>1. Parent[g] # NoGroup
      BY <1>2, <2>1, CGroupAssumption DEF TreeOfMounts
    <3>2. PICK i \in 1..n : g \in walk[i].groups
      BY <1>1, <1>2, <2>1, <3>1 DEF ChildrenToCome
    <3>3. i \in 1..(n - 1)
      BY <1>3, <1>5, <3>2
    <3>4. QED
      BY <1>4, <3>2, <3>3
  <2>2. QED
    BY <1>1, <1>4, <2>1 DEF ChildrenToCome
<1>12. FilesToCome'
  <2>1. ASSUME NEW g \in steady \intersect Mounted, NEW e \in File[g] \intersect ReadFile,
               Empty \notin Content[e], Field(e) \notin DOMAIN mount[g].figures
        PROVE  \E i \in 1..(n - 1) : walk'[i].dir = g /\ e \in walk'[i].files
    <3>1. g # NoGroup
      BY <1>2, CGroupAssumption DEF TreeOfMounts
    <3>2. PICK i \in 1..n : walk[i].dir = g /\ e \in walk[i].files
      BY <1>1, <1>2, <2>1, <3>1 DEF FilesToCome
    <3>3. i \in 1..(n - 1)
      BY <1>3, <1>5, <3>2
    <3>4. QED
      BY <1>4, <3>2, <3>3
  <2>2. QED
    BY <1>1, <1>4, <2>1 DEF FilesToCome
<1>13. QED
  BY <1>7, <1>8, <1>9, <1>10, <1>11, <1>12 DEF WalkIInv

\* Every step keeps the invariant.
LEMMA WalkNextIInv == WalkIInv /\ [CGroupNext]_cgroup_vars => WalkIInv'
<1> SUFFICES ASSUME WalkIInv, [CGroupNext]_cgroup_vars PROVE WalkIInv'
  OBVIOUS
<1>1. ASSUME NEW g \in Group \ {Root}, Mkdir(g) \/ Rmdir(g) \/ HandleDirectory(g)
      PROVE  WalkIInv'
  BY <1>1, MkdirKeeps, RmdirKeeps, HandleDirectoryKeeps
<1>2. ASSUME NEW f \in DOMAIN Content, NEW content \in Content[f], HandleFile(f, content)
      PROVE  WalkIInv'
  BY <1>2, HandleFileKeeps
<1>3. CASE Begin \/ Descend \/ Ascend
  BY <1>3, BeginKeeps, DescendKeeps, AscendKeeps
<1>4. CASE UNCHANGED cgroup_vars
  <2>1. /\ alive' = alive /\ phase' = phase /\ walk' = walk /\ pending' = pending
        /\ mount' = mount /\ steady' = steady /\ Mounted' = Mounted
    BY <1>4 DEF cgroup_vars, Mounted
  <2>2. TreeOfGroups' /\ TreeOfMounts' /\ WalkFits' /\ PendingFits' /\ PhaseFits'
    BY <2>1 DEF WalkIInv, TreeOfGroups, TreeOfMounts, WalkFits, PendingFits, PhaseFits
  <2>3. ChildrenToCome' /\ FilesToCome' /\ FigureOfFile' /\ FailedByRemoval'
    BY <2>1 DEF WalkIInv, ChildrenToCome, FilesToCome, FigureOfFile, FailedByRemoval
  <2>4. QED
    BY <2>2, <2>3 DEF WalkIInv
<1>5. QED
  BY <1>1, <1>2, <1>3, <1>4 DEF CGroupNext

\* The children of the mounts are those of the tree, each in one list.
LEMMA OneTreeHolds == WalkIInv => OneTree
<1> SUFFICES ASSUME WalkIInv PROVE OneTree
  OBVIOUS
<1>1. TreeOfMounts /\ WalkFits
  BY DEF WalkIInv
<1>2. \A g \in Mounted : /\ DOMAIN mount[g].children = 1..Len(mount[g].children)
                         /\ ToSet(mount[g].children) =
                              {mount[g].children[i] : i \in 1..Len(mount[g].children)}
  BY <1>1, LenProperties DEF TreeOfMounts, ToSet
<1>3. \A g \in Mounted : \A i, j \in DOMAIN mount[g].children :
         mount[g].children[i] = mount[g].children[j] => i = j
  BY <1>1, <1>2 DEF TreeOfMounts
<1>4. ASSUME NEW h \in Mounted \ {Root}
      PROVE  {g \in Mounted : h \in ToSet(mount[g].children)} = {Parent[h]}
  <2>1. Parent[h] \in Mounted /\ h \in ToSet(mount[Parent[h]].children)
    <3>1. Parent[h] \in Mounted
      BY <1>1 DEF TreeOfMounts
    <3>2. PICK i \in 1..Len(mount[Parent[h]].children) : mount[Parent[h]].children[i] = h
      BY <1>1 DEF TreeOfMounts
    <3>3. QED
      BY <1>2, <3>1, <3>2
  <2>2. ASSUME NEW g \in Mounted, h \in ToSet(mount[g].children) PROVE g = Parent[h]
    <3>1. PICK i \in 1..Len(mount[g].children) : mount[g].children[i] = h
      BY <1>2, <2>2
    <3>2. Parent[mount[g].children[i]] = g
      BY <1>1 DEF TreeOfMounts
    <3>3. QED
      BY <3>1, <3>2
  <2>3. QED
    BY <2>1, <2>2
<1>5. \A i \in DOMAIN walk : walk[i].dir \in Mounted
  BY <1>1, LenProperties DEF WalkFits
<1>6. QED
  BY <1>3, <1>4, <1>5 DEF OneTree

\* At the end nothing is to come: of the steady groups without a mount there would
\* be one whose parent has one.
LEMMA SteadyReportedHolds == WalkIInv => SteadyReported
<1> SUFFICES ASSUME WalkIInv, phase = "done" PROVE SteadyReported
  BY DEF SteadyReported
<1>1. /\ TreeOfGroups /\ TreeOfMounts /\ PhaseFits /\ ChildrenToCome /\ FilesToCome
  BY DEF WalkIInv
<1>2. /\ pending = NoGroup /\ Root \in Mounted /\ 1..Len(walk) = {}
  BY <1>1, EmptySeq DEF PhaseFits
<1>3. steady \subseteq Mounted
  <2> DEFINE missed == {g \in steady : g \notin Mounted}
  <2>1. missed \in SUBSET (Group \ {Root})
    BY <1>1, <1>2 DEF TreeOfGroups
  <2> SUFFICES ASSUME missed # {} PROVE FALSE
    OBVIOUS
  <2>2. PICK g \in missed : Parent[g] \notin missed
    <3> HIDE DEF missed
    <3>1. QED
      BY <2>1, CGroupAssumption
  <2>3. g \in steady \ {Root} /\ g \notin Mounted /\ Parent[g] \in steady
    BY <1>1, <2>1 DEF TreeOfGroups
  <2>4. Parent[g] \in Mounted
    BY <2>2, <2>3
  <2>5. Parent[g] # NoGroup
    BY <1>1, <2>4, CGroupAssumption DEF TreeOfMounts
  <2>6. QED
    BY <1>1, <1>2, <2>3, <2>4, <2>5 DEF ChildrenToCome
<1>4. ASSUME NEW g \in steady, NEW f \in File[g] \intersect ReadFile
      PROVE  Empty \in Content[f] \/ Field(f) \in DOMAIN mount[g].figures
  <2>1. g \in steady \intersect Mounted /\ g # NoGroup
    BY <1>1, <1>3, CGroupAssumption DEF TreeOfMounts
  <2>2. QED
    BY <1>1, <1>2, <2>1 DEF FilesToCome
<1>5. QED
  BY <1>3, <1>4 DEF SteadyReported

\* The report of the walk is a tree of the control groups, without one of those
\* that were there all the time missing and with a figure of each of their files
\* that can be read; only the removal of a group that was found ends it early
\* (CGroupCollector::GetCGroupInfo, whatever the kernel makes and removes).
THEOREM WalkCorrect == CGroupSpec => []WalkInv
<1>1. WalkIInv => WalkInv
  BY OneTreeHolds, SteadyReportedHolds DEF WalkIInv, WalkInv
<1>2. CGroupSpec => []WalkIInv
  BY WalkInitIInv, WalkNextIInv, PTL DEF CGroupSpec
<1>3. QED
  BY <1>1, <1>2, PTL

-----------------------------------------------------------------------------
(* The process reader. *)

\* A sample of a pid, and the process it was taken of.
SampleFits(s, p) ==
    /\ s.io.ts \in {0, Uptime(scans)} /\ s.cpu.ts \in {0, Uptime(scans)}
    /\ s.io.read \in Nat
    /\ s.io.ts # 0 => s.io.read = p.work
    /\ s.cpu.user = IF s.cpu.ts = 0 THEN 0 ELSE p.work \div ClockTicksPerSecond
    /\ s.cpu.system = 0

ReaderTypes ==
    /\ processes \in [Pid -> Process \union {NoProcess}]
    /\ births \in Nat /\ scans \in Nat
    /\ \A pid \in Living : processes[pid].id <= births /\ processes[pid].work <= MaxWork

TableFits ==
    /\ DOMAIN process_table_ \subseteq Pid /\ DOMAIN seen = DOMAIN process_table_
    /\ \A pid \in DOMAIN process_table_ :
          /\ seen[pid] \in Process /\ seen[pid].id <= births
          /\ SampleFits(process_table_[pid], seen[pid])
          /\ pid \in Living /\ SameProcess(pid) => seen[pid].work <= processes[pid].work

ReaderIInv == ReaderTypes /\ TableFits

\* A number divided is cut, by less than the divisor.
LEMMA Divided ==
    ASSUME NEW a \in Nat, NEW t \in Nat \ {0}
    PROVE  a \div t \in Nat /\ (a \div t) * t \in (a - t + 1)..a
OBVIOUS

\* A multiple divided is what was multiplied.
LEMMA DividedTimes ==
    ASSUME NEW a \in Nat, NEW t \in Nat \ {0}
    PROVE  (a * t) \div t = a
OBVIOUS

\* The greater number is not the smaller one when both are divided.
LEMMA DividedMono ==
    ASSUME NEW a \in Nat, NEW b \in Nat, NEW t \in Nat \ {0}, b <= a
    PROVE  b \div t <= a \div t
<1>1. a \div t \in Nat /\ (a \div t) * t \in (a - t + 1)..a
  BY Divided
<1>2. b \div t \in Nat /\ (b \div t) * t \in (b - t + 1)..b
  BY Divided
<1> DEFINE x == a \div t
           y == b \div t
<1> HIDE DEF x, y
<1>3. \A p, q \in Nat : p < q => p * t + t <= q * t
  OBVIOUS
<1>4. QED
  BY <1>1, <1>2, <1>3

\* What is read of the input and output, and of the processor.
LEMMA FileRead ==
    ASSUME NEW p, NEW n, NEW f \in {"io", "stat"}
    PROVE  FilesUntil(p, n)[f] \in {Files(p)[f], NoFile}
<1>1. f \in ToSet(FileOrder)
  BY DEF ToSet, FileOrder
<1>2. QED
  BY <1>1 DEF FilesUntil

\* A sample of the input and output: none, or that of the process at the time.
IOAt(s, p, known, prev, time) ==
    \/ s.ts = 0 /\ s.read = 0 /\ s.read_rate = <<>>
    \/ /\ s.ts = time /\ s.read = p.work
       /\ s.read_rate = RateSince(known, Unsigned(p.work - prev.read), time - prev.ts)

\* That is what the parser of the file gives.
LEMMA SampleOfIO ==
    ASSUME NEW p \in Process, NEW file \in {Files(p).io, NoFile}, NEW known, NEW prev, NEW time
    PROVE  IOAt(ParseProcessIO(file, known, prev, time), p, known, prev, time)
<1> USE DEF IOAt
<1>1. /\ Files(p).io.read_bytes = p.work
      /\ DOMAIN Files(p).io = {"read_bytes", "write_bytes"}
  BY DEF Files
<1>2. CASE file = NoFile
  BY <1>2 DEF ParseProcessIO, NoIO
<1>3. CASE file # NoFile
  <2>1. file = Files(p).io
    BY <1>3
  <2> HIDE DEF Files
  <2>2. QED
    BY <1>1, <1>3, <2>1 DEF ParseProcessIO
<1>4. QED
  BY <1>2, <1>3

\* A sample of the processor: none, or that of the process at the time.
CpuAt(s, p, known, prev, time) ==
    LET user == p.work \div ClockTicksPerSecond
    IN  \/ s.ts = 0 /\ s.user = 0 /\ s.system = 0 /\ s.total_pct = <<>>
        \/ /\ s.ts = time /\ s.user = user /\ s.system = 0
           /\ s.total_pct = IF known
                            THEN Rate(user - (prev.user + prev.system), time - prev.ts)
                            ELSE <<user, time - p.born>>

\* And so does the parser of the file of the processor.
LEMMA SampleOfCpu ==
    ASSUME NEW p \in Process, NEW file \in {Files(p).stat, NoFile}, NEW known, NEW prev,
           NEW time \in Nat, NEW uptime \in {NoFile, <<time, 0>>}
    PROVE  CpuAt(ParseProcessStat(file, known, prev, GetUptime(uptime), time),
                 p, known, prev, time)
<1> USE DEF CpuAt
<1> DEFINE up == GetUptime(uptime)
           s == ParseProcessStat(file, known, prev, up, time)
           user == p.work \div ClockTicksPerSecond
<1>1. /\ Files(p).stat.utime = p.work /\ Files(p).stat.stime = 1
      /\ Files(p).stat.starttime = p.born * ClockTicksPerSecond
  BY DEF Files
<1>2. up = NoFile \/ up = time
  BY DEF GetUptime
<1>3. 1 \div ClockTicksPerSecond = 0
  BY ReaderAssumption
<1>4. /\ (p.born * ClockTicksPerSecond) \div ClockTicksPerSecond = p.born
      /\ user \in Nat /\ p.born \in Nat
  <2>1. p.born \in Nat /\ p.work \in Nat
    BY DEF Process
  <2>2. ClockTicksPerSecond \in Nat \ {0}
    BY ReaderAssumption
  <2>3. (p.born * ClockTicksPerSecond) \div ClockTicksPerSecond = p.born
    BY ONLY <2>1, <2>2, DividedTimes
  <2>4. p.work \div ClockTicksPerSecond \in Nat
    BY ONLY <2>1, <2>2, Divided
  <2>5. QED
    BY <2>1, <2>3, <2>4
<1>5. CASE file = NoFile \/ up = NoFile \/ file.fields # 52
  BY <1>5 DEF ParseProcessStat, NotSampled, NoCpu
<1>6. CASE ~(file = NoFile \/ up = NoFile \/ file.fields # 52)
  <2>1. file = Files(p).stat /\ up = time
    BY <1>2, <1>6
  <2> HIDE DEF up, user, Files
  <2>2. /\ file.utime = p.work /\ file.stime = 1
        /\ file.starttime = p.born * ClockTicksPerSecond
    BY <1>1, <2>1
  <2> DEFINE busy == file.utime \div ClockTicksPerSecond
             sys == file.stime \div ClockTicksPerSecond
             begun == file.starttime \div ClockTicksPerSecond
  <2>3. /\ s.ts = time /\ s.user = busy /\ s.system = sys
        /\ s.total_pct = IF known
                         THEN Rate((busy + sys) - (prev.user + prev.system), time - prev.ts)
                         ELSE <<busy + sys, up - begun>>
    BY <1>6 DEF ParseProcessStat
  <2>4. busy = user
    BY ONLY <2>2 DEF user
  <2>5. sys = 0
    BY ONLY <2>2, <1>3
  <2>6. begun = p.born
    BY ONLY <2>2, <1>4
  <2> HIDE DEF busy, sys, begun, s
  <2>7. busy + sys = user
    BY ONLY <1>4, <2>4, <2>5
  <2>8. QED
    BY ONLY <2>1, <2>3, <2>4, <2>5, <2>6, <2>7 DEF s, up, user
<1>7. QED
  BY <1>5, <1>6

\* The sample before.
Before(pid) == IF pid \in DOMAIN process_table_ THEN process_table_[pid]
               ELSE [io |-> NoIO, cpu |-> NoCpu]

\* The graphics processors of a round, and what they say of the processes.
DevicesAt(failing) == Devices(Installed(Uptime(scans + 1), failing))

ScanUsage(failing) == ProcessUsage(DevicesAt(failing), last_sample_ts_, Uptime(scans + 1))

Scan == \E ending \in {{}} \union {{pid} : pid \in Living}, n \in ReadsBeforeEnd,
           uptime \in {NoFile, <<Uptime(scans + 1), 0>>}, meminfo \in {NoFile, TotalMemory},
           failing \in GpuFailing :
               GetProcList(ending, n, uptime, meminfo, failing)

\* The clock of the rounds starts above 0, and goes on by the interval.
LEMMA UptimeType == ASSUME NEW r \in Nat
                    PROVE  /\ Uptime(r) \in Nat /\ Uptime(r) > 0
                           /\ Uptime(r + 1) - Uptime(r) = Interval
BY ReaderAssumption DEF Uptime

\* The table after a round.
LEMMA ScanTable ==
    ASSUME ReaderTypes, Scan
    PROVE  /\ DOMAIN process_table_' = Living /\ DOMAIN seen' = Living
           /\ scans' = scans + 1 /\ births' = births
           /\ \A pid \in Pid : processes'[pid] \in {processes[pid], NoProcess}
           /\ processes' \in [Pid -> Process \union {NoProcess}]
           /\ \A pid \in Living :
                 /\ seen'[pid] = processes[pid]
                 /\ IOAt(process_table_'[pid].io, processes[pid], pid \in DOMAIN process_table_,
                         Before(pid).io, Uptime(scans + 1))
                 /\ CpuAt(process_table_'[pid].cpu, processes[pid], pid \in DOMAIN process_table_,
                          Before(pid).cpu, Uptime(scans + 1))
           /\ \E failing \in GpuFailing :
                 /\ last_sample_ts_' =
                       LastSample(DevicesAt(failing), last_sample_ts_, Uptime(scans + 1))
                 /\ \A pid \in Living : process_table_'[pid].gpu_usage =
                    IF pid \in DOMAIN ScanUsage(failing) THEN ScanUsage(failing)[pid] ELSE NoUsage
<1> DEFINE now == Uptime(scans + 1)
<1>1. PICK ending \in {{}} \union {{pid} : pid \in Living}, n \in ReadsBeforeEnd,
           uptime \in {NoFile, <<now, 0>>}, meminfo \in {NoFile, TotalMemory},
           failing \in GpuFailing :
               GetProcList(ending, n, uptime, meminfo, failing)
  BY DEF Scan
<1>2. now \in Nat
  BY UptimeType DEF ReaderTypes
<1>3. /\ DOMAIN process_table_' = Living /\ DOMAIN seen' = Living
      /\ scans' = scans + 1 /\ births' = births
      /\ processes' = [pid \in Pid |-> IF pid \in ending THEN NoProcess ELSE processes[pid]]
      /\ \A pid \in Living : seen'[pid] = processes[pid]
  BY <1>1 DEF GetProcList
<1>4. ASSUME NEW pid \in Living
      PROVE  /\ IOAt(process_table_'[pid].io, processes[pid], pid \in DOMAIN process_table_,
                     Before(pid).io, now)
             /\ CpuAt(process_table_'[pid].cpu, processes[pid], pid \in DOMAIN process_table_,
                      Before(pid).cpu, now)
             /\ process_table_'[pid].gpu_usage =
                   IF pid \in DOMAIN ScanUsage(failing) THEN ScanUsage(failing)[pid] ELSE NoUsage
  <2> DEFINE p == processes[pid]
             known == pid \in DOMAIN process_table_
             files == IF pid \in ending THEN FilesUntil(p, n) ELSE Files(p)
             usage == IF pid \in DOMAIN ScanUsage(failing) THEN ScanUsage(failing)[pid] ELSE NoUsage
  <2>1. p \in Process /\ pid \in Pid
    BY DEF Living, ReaderTypes
  <2>2. process_table_'[pid] = GetProcDetail(files, known, Before(pid), uptime, usage, now)
    BY <1>1 DEF GetProcList, Before, ScanUsage, DevicesAt
  <2>3. files["io"] \in {Files(p).io, NoFile} /\ files["stat"] \in {Files(p).stat, NoFile}
    BY FileRead
  <2> HIDE DEF p, known, files, usage, now
  <2>4. /\ process_table_'[pid].io = ParseProcessIO(files["io"], known, Before(pid).io, now)
        /\ process_table_'[pid].cpu =
              ParseProcessStat(files["stat"], known, Before(pid).cpu, GetUptime(uptime), now)
        /\ process_table_'[pid].gpu_usage = usage
    BY <2>2 DEF GetProcDetail
  <2>5. /\ IOAt(process_table_'[pid].io, p, known, Before(pid).io, now)
        /\ CpuAt(process_table_'[pid].cpu, p, known, Before(pid).cpu, now)
    BY <1>1, <1>2, <2>1, <2>3, <2>4, SampleOfIO, SampleOfCpu
  <2>6. QED
    BY <2>4, <2>5 DEF p, known, usage
<1>5. /\ \A pid \in Pid : processes'[pid] \in {processes[pid], NoProcess}
      /\ processes' \in [Pid -> Process \union {NoProcess}]
  BY <1>3 DEF ReaderTypes
<1>6. last_sample_ts_' = LastSample(DevicesAt(failing), last_sample_ts_, now)
  BY <1>1 DEF GetProcList, DevicesAt
<1>7. QED
  BY <1>3, <1>4, <1>5, <1>6

\* No process and no sample is a beginning.
LEMMA ReaderInitIInv == ReaderInit => ReaderIInv
BY DEF ReaderInit, ReaderIInv, ReaderTypes, TableFits, Living

\* The kernel changes no sample; a new process has a new id.
LEMMA KernelIInv ==
    ASSUME ReaderIInv, NEW pid \in Pid,
           \/ \E kind \in Kind, born \in {Uptime(scans), Uptime(scans + 1)} : Fork(pid, kind, born)
           \/ Work(pid) \/ End(pid)
    PROVE  ReaderIInv'
<1>1. UNCHANGED scan_vars
  BY DEF Fork, Work, End
<1>2. /\ processes' \in [Pid -> Process \union {NoProcess}] /\ births' \in Nat
      /\ births <= births'
      /\ \A q \in Pid \ {pid} : processes'[q] = processes[q]
      /\ processes'[pid] \in Process =>
            \/ processes'[pid].id = births + 1 /\ births' = births + 1 /\ processes'[pid].work = 0
            \/ /\ processes[pid] \in Process /\ processes'[pid].id = processes[pid].id
               /\ processes'[pid].work = processes[pid].work + 1 /\ processes[pid].work < MaxWork
  <2>1. CASE \E kind \in Kind, born \in {Uptime(scans), Uptime(scans + 1)} : Fork(pid, kind, born)
    <3>1. PICK kind \in Kind, born \in {Uptime(scans), Uptime(scans + 1)} : Fork(pid, kind, born)
      BY <2>1
    <3>2. born \in Nat
      BY UptimeType DEF ReaderIInv, ReaderTypes
    <3> DEFINE new == [id |-> births + 1, born |-> born, kind |-> kind, work |-> 0]
    <3>3. new \in Process /\ new.id = births + 1 /\ new.work = 0
      BY <3>2 DEF Process, ReaderIInv, ReaderTypes
    <3>4. births' = births + 1 /\ processes' = [processes EXCEPT ![pid] = new]
      BY <3>1 DEF Fork
    <3> HIDE DEF new
    <3>5. QED
      BY <3>3, <3>4 DEF ReaderIInv, ReaderTypes
  <2>2. CASE Work(pid)
    <3> DEFINE new == [processes[pid] EXCEPT !.work = @ + 1]
    <3>1. /\ processes[pid] \in Process /\ processes[pid].work < MaxWork /\ births' = births
          /\ processes \in [Pid -> Process \union {NoProcess}] /\ births \in Nat
      BY <2>2 DEF Work, Living, ReaderIInv, ReaderTypes
    <3>2. new \in Process /\ new.id = processes[pid].id /\ new.work = processes[pid].work + 1
      BY <3>1 DEF Process
    <3>3. processes' = [processes EXCEPT ![pid] = new]
      BY <2>2 DEF Work
    <3> HIDE DEF new
    <3>4. QED
      BY <3>1, <3>2, <3>3
  <2>3. CASE End(pid)
    BY <2>3, ReaderAssumption DEF End, ReaderIInv, ReaderTypes
  <2>4. QED
    BY <2>1, <2>2, <2>3
<1>3. \A q \in Pid : processes'[q] # NoProcess => processes'[q] \in Process
  BY <1>2
<1>4. ReaderTypes'
  <2>1. scans' = scans /\ scans \in Nat /\ births \in Nat /\ MaxWork \in Nat
    BY <1>1, ReaderAssumption DEF scan_vars, ReaderIInv, ReaderTypes
  <2>2. ASSUME NEW q \in Pid, processes'[q] # NoProcess
        PROVE  processes'[q].id <= births' /\ processes'[q].work <= MaxWork
    <3>1. /\ processes'[q] \in Process
          /\ processes[q] \in Process =>
                /\ processes[q].id <= births /\ processes[q].work <= MaxWork
                /\ processes[q].id \in Nat /\ processes[q].work \in Nat
      BY <1>3, <2>2, ReaderAssumption DEF ReaderIInv, ReaderTypes, Living, Process
    <3>2. CASE q = pid
      BY <1>2, <2>1, <3>1, <3>2
    <3>3. CASE q # pid
      <4>1. processes'[q] = processes[q]
        BY <1>2, <3>3
      <4>2. QED
        BY <1>2, <2>1, <3>1, <4>1
    <3>4. QED
      BY <3>2, <3>3
  <2>3. QED
    BY <1>2, <2>1, <2>2 DEF ReaderTypes, Living
<1>5. TableFits'
  <2> SUFFICES ASSUME NEW q \in DOMAIN process_table_
               PROVE  /\ q \in Pid /\ seen[q] \in Process /\ seen[q].id <= births'
                      /\ SampleFits(process_table_[q], seen[q])
                      /\ processes'[q] # NoProcess /\ seen[q].id = processes'[q].id =>
                            seen[q].work <= processes'[q].work
    BY <1>1 DEF TableFits, scan_vars, SampleFits, SameProcess, Living, ReaderIInv
  <2>1. /\ q \in Pid /\ seen[q] \in Process /\ seen[q].id <= births
        /\ SampleFits(process_table_[q], seen[q])
        /\ processes[q] # NoProcess /\ seen[q].id = processes[q].id =>
              seen[q].work <= processes[q].work
    BY DEF ReaderIInv, TableFits, SameProcess, Living
  <2>2. seen[q].id \in Nat /\ seen[q].work \in Nat /\ births \in Nat
    BY <2>1 DEF Process, ReaderIInv, ReaderTypes
  <2>3. ASSUME processes'[q] # NoProcess, seen[q].id = processes'[q].id
        PROVE  seen[q].work <= processes'[q].work
    <3>1. CASE q # pid
      BY <1>2, <2>1, <2>3, <3>1
    <3>2. CASE q = pid
      <4>1. processes'[pid] \in Process
        BY <1>3, <2>3, <3>2
      <4>2. /\ processes[pid] \in Process /\ processes'[pid].id = processes[pid].id
            /\ processes'[pid].work = processes[pid].work + 1
        BY <1>2, <2>1, <2>2, <2>3, <3>2, <4>1
      <4>3. processes[pid] # NoProcess /\ processes[pid].work \in Nat
        BY <4>2, ReaderAssumption DEF Process
      <4>4. QED
        BY <2>1, <2>2, <2>3, <3>2, <4>2, <4>3
    <3>3. QED
      BY <3>1, <3>2
  <2>4. QED
    BY <1>2, <2>1, <2>2, <2>3
<1>6. QED
  BY <1>4, <1>5 DEF ReaderIInv

\* A round replaces the samples by those of the processes there are.
LEMMA ScanIInv ==
    ASSUME ReaderIInv, Scan
    PROVE  ReaderIInv'
<1>1. ReaderTypes /\ TableFits
  BY DEF ReaderIInv
<1>2. /\ DOMAIN process_table_' = Living /\ DOMAIN seen' = Living
      /\ scans' = scans + 1 /\ births' = births
      /\ \A pid \in Pid : processes'[pid] \in {processes[pid], NoProcess}
      /\ processes' \in [Pid -> Process \union {NoProcess}]
      /\ \A pid \in Living : seen'[pid] = processes[pid]
  BY <1>1, ScanTable
<1>3. ReaderTypes'
  BY <1>1, <1>2 DEF ReaderTypes, Living
<1>4. ASSUME NEW pid \in Living
      PROVE  /\ pid \in Pid /\ seen'[pid] \in Process /\ seen'[pid].id <= births'
             /\ SampleFits(process_table_[pid], seen[pid])'
             /\ processes'[pid] # NoProcess => processes'[pid] = seen'[pid]
  <2>1. pid \in Pid /\ seen'[pid] = processes[pid] /\ processes[pid] \in Process
    BY <1>1, <1>2 DEF ReaderTypes, Living
  <2>2. processes[pid].id <= births /\ processes[pid].work \in Nat
    BY <1>1, <2>1 DEF ReaderTypes, Process
  <2>3. /\ IOAt(process_table_'[pid].io, processes[pid], pid \in DOMAIN process_table_,
                Before(pid).io, Uptime(scans'))
        /\ CpuAt(process_table_'[pid].cpu, processes[pid], pid \in DOMAIN process_table_,
                 Before(pid).cpu, Uptime(scans'))
    BY <1>1, <1>2, ScanTable
  <2>4. Uptime(scans') > 0 /\ Uptime(scans') \in Nat
    BY <1>3, UptimeType DEF ReaderTypes
  <2>5. SampleFits(process_table_[pid], seen[pid])'
    BY <2>1, <2>2, <2>3, <2>4 DEF IOAt, CpuAt, SampleFits
  <2>6. QED
    BY <1>2, <2>1, <2>2, <2>5
<1>5. TableFits'
  <2>1. \A pid \in Living : seen'[pid].work \in Nat
    BY <1>4 DEF Process
  <2>2. QED
    BY <1>2, <1>4, <2>1 DEF TableFits, Living, SameProcess
<1>6. QED
  BY <1>3, <1>5 DEF ReaderIInv

\* Every step keeps the invariant of the process reader.
LEMMA ReaderNextIInv == ReaderIInv /\ [ReaderNext]_reader_vars => ReaderIInv'
<1> SUFFICES ASSUME ReaderIInv, [ReaderNext]_reader_vars PROVE ReaderIInv'
  OBVIOUS
<1>1. CASE UNCHANGED reader_vars
  BY <1>1 DEF reader_vars, ReaderIInv, ReaderTypes, TableFits, SampleFits, Living, SameProcess
<1>2. CASE \E pid \in Pid :
             \/ \E kind \in Kind, born \in {Uptime(scans), Uptime(scans + 1)} :
                    Fork(pid, kind, born)
             \/ Work(pid) \/ End(pid)
  BY <1>2, KernelIInv
<1>3. CASE Scan
  BY <1>3, ScanIInv
<1>4. QED
  BY <1>1, <1>2, <1>3 DEF ReaderNext, Scan

\* Two numbers of ticks in whole seconds differ by what they differ, to a second.
LEMMA WholeSeconds ==
    ASSUME NEW a \in Nat, NEW b \in Nat, NEW t \in Nat \ {0}, b <= a
    PROVE  LET d == (a \div t) - (b \div t)
           IN  d \in Nat /\ d * t \in ((a - b) - t + 1)..((a - b) + t - 1)
<1> DEFINE x == a \div t
           y == b \div t
<1>1. x \in Nat /\ x * t \in (a - t + 1)..a
  BY Divided
<1>2. y \in Nat /\ y * t \in (b - t + 1)..b
  BY Divided
<1>3. y <= x
  BY DividedMono
<1> HIDE DEF x, y
<1>4. (x - y) * t = x * t - y * t /\ x * t \in Int /\ y * t \in Int
  BY ONLY <1>1, <1>2, t \in Nat \ {0}
<1>5. x - y \in Nat /\ (x - y) * t \in ((a - b) - t + 1)..((a - b) + t - 1)
  BY <1>1, <1>2, <1>3, <1>4
<1>6. QED
  BY <1>5 DEF x, y

\* The process and the time of a round.
LEMMA ScanTime ==
    ASSUME ReaderTypes, Scan, NEW pid \in Living
    PROVE  /\ processes[pid] \in Process /\ processes[pid].work \in Nat
           /\ processes[pid].work <= MaxWork
           /\ Uptime(scans) \in Nat /\ Uptime(scans) > 0
           /\ Uptime(scans') \in Nat /\ Uptime(scans') > 0
           /\ Uptime(scans') - Uptime(scans) = Interval /\ Interval > 0
<1>1. processes[pid] \in Process /\ processes[pid].work <= MaxWork
  BY DEF ReaderTypes, Living
<1>2. processes[pid].work \in Nat
  BY <1>1 DEF Process
<1>3. scans' = scans + 1 /\ scans \in Nat
  BY ScanTable DEF ReaderTypes
<1>4. /\ Uptime(scans) \in Nat /\ Uptime(scans) > 0
      /\ Uptime(scans + 1) - Uptime(scans) = Interval
  BY ONLY <1>3, UptimeType
<1>5. scans + 1 \in Nat
  BY <1>3
<1>6. Uptime(scans + 1) \in Nat /\ Uptime(scans + 1) > 0
  BY ONLY <1>5, UptimeType
<1>7. Interval > 0
  BY ReaderAssumption
<1>8. QED
  BY <1>1, <1>2, <1>3, <1>4, <1>6, <1>7

\* The share of a processor that a round reports.
LEMMA ScanShare ==
    ASSUME ReaderIInv, Scan, NEW pid \in Living
    PROVE  ShareOfPeriod(pid)
<1> DEFINE T == ClockTicksPerSecond
           work == processes[pid].work
           time == Uptime(scans')
           new == process_table_'[pid].cpu
           Share(amount, seconds) ==
              /\ NewShare(pid)[1] >= 0 /\ NewShare(pid)[2] = seconds
              /\ NewShare(pid)[1] * T \in (amount - T + 1)..(amount + T - 1)
<1>1. ReaderTypes /\ TableFits
  BY DEF ReaderIInv
<1>2. processes[pid] \in Process /\ work \in Nat /\ T \in Nat \ {0}
  BY <1>1, ScanTime, ReaderAssumption
<1>3. /\ time \in Nat /\ time > 0 /\ Uptime(scans) \in Nat /\ Uptime(scans) > 0
      /\ time - Uptime(scans) = Interval /\ Interval > 0
  BY <1>1, ScanTime
<1>4. CpuAt(new, processes[pid], pid \in DOMAIN process_table_, Before(pid).cpu, time)
  BY <1>1, <1>2, ScanTable
<1> SUFFICES ASSUME NewShare(pid) # <<>>
             PROVE  /\ pid \notin DOMAIN process_table_ => Share(work, time - processes[pid].born)
                    /\ SameProcess(pid) /\ process_table_[pid].cpu.ts # 0 =>
                          Share(work - seen[pid].work, Interval)
                    /\ SameProcess(pid) /\ process_table_[pid].cpu.ts = 0 => Share(work, time)
  BY DEF ShareOfPeriod, SameProcess
<1>5. NewShare(pid) = IF pid \in DOMAIN process_table_
                      THEN Rate((work \div T) - (Before(pid).cpu.user + Before(pid).cpu.system),
                                time - Before(pid).cpu.ts)
                      ELSE <<work \div T, time - processes[pid].born>>
  BY <1>4 DEF CpuAt, NewShare
<1> HIDE DEF T, work, time, new
<1>7. /\ work \div T \in Nat
      /\ (work \div T) * T \in (work - T + 1)..(work + T - 1)
  <2>1. work \div T \in Nat /\ (work \div T) * T \in (work - T + 1)..work
    BY <1>2, Divided
  <2>2. QED
    BY <1>2, <2>1
<1>8. ASSUME pid \notin DOMAIN process_table_
      PROVE  Share(work, time - processes[pid].born)
  <2>1. NewShare(pid) = <<work \div T, time - processes[pid].born>>
    BY <1>5, <1>8
  <2>2. QED
    BY <1>7, <2>1
<1>9. ASSUME SameProcess(pid)
      PROVE  /\ process_table_[pid].cpu.ts # 0 => Share(work - seen[pid].work, Interval)
             /\ process_table_[pid].cpu.ts = 0 => Share(work, time)
  <2> DEFINE prev == process_table_[pid].cpu
  <2>1. pid \in DOMAIN process_table_ /\ Before(pid).cpu = prev
    BY <1>9 DEF SameProcess, Before
  <2>2. SampleFits(process_table_[pid], seen[pid]) /\ seen[pid] \in Process
        /\ seen[pid].work <= work
    BY <1>1, <1>9, <2>1 DEF TableFits, work
  <2>3. /\ prev.ts \in {0, Uptime(scans)} /\ prev.system = 0 /\ seen[pid].work \in Nat
        /\ prev.user = IF prev.ts = 0 THEN 0 ELSE seen[pid].work \div T
    BY <2>2 DEF SampleFits, Process, T
  <2> HIDE DEF prev
  <2>4. NewShare(pid) = Rate((work \div T) - (prev.user + 0), time - prev.ts)
    BY <1>5, <2>1, <2>3
  <2>5. CASE prev.ts = 0
    <3>1. NewShare(pid) = <<work \div T, time>>
      BY <1>3, <1>7, <2>3, <2>4, <2>5 DEF Rate
    <3>2. QED
      BY <1>7, <2>5, <3>1 DEF prev
  <2>6. CASE prev.ts # 0
    <3>1. prev.user \in Nat /\ prev.user = seen[pid].work \div T
      BY <1>2, <2>3, <2>6, Divided
    <3>2. NewShare(pid) = <<(work \div T) - (seen[pid].work \div T), Interval>>
      BY <1>3, <1>7, <2>3, <2>4, <2>6, <3>1 DEF Rate
    <3>3. /\ (work \div T) - (seen[pid].work \div T) \in Nat
          /\ ((work \div T) - (seen[pid].work \div T)) * T
                \in ((work - seen[pid].work) - T + 1)..((work - seen[pid].work) + T - 1)
      BY <1>2, <2>2, <2>3, WholeSeconds
    <3>4. QED
      BY <2>6, <3>2, <3>3 DEF prev
  <2>7. QED
    BY <2>5, <2>6
<1>10. QED
  BY <1>8, <1>9 DEF T, work, time

\* The rate of its reads.
LEMMA ScanRate ==
    ASSUME ReaderIInv, Scan, NEW pid \in Living
    PROVE  RateOfPeriod(pid)
<1> DEFINE work == processes[pid].work
           time == Uptime(scans')
<1>1. ReaderTypes /\ TableFits
  BY DEF ReaderIInv
<1>2. processes[pid] \in Process /\ work \in Nat /\ work <= MaxWork
  BY <1>1, ScanTime
<1>3. time - Uptime(scans) = Interval /\ Interval > 0
  BY <1>1, ScanTime
<1>4. IOAt(process_table_'[pid].io, processes[pid], pid \in DOMAIN process_table_,
           Before(pid).io, time)
  BY <1>1, <1>2, ScanTable
<1> SUFFICES ASSUME NewRate(pid) # <<>>
             PROVE  /\ pid \in DOMAIN process_table_
                    /\ SameProcess(pid) /\ process_table_[pid].io.ts # 0 =>
                          NewRate(pid) = <<work - seen[pid].work, Interval>>
  BY DEF RateOfPeriod
<1>5. /\ pid \in DOMAIN process_table_
      /\ NewRate(pid) = Rate(Unsigned(work - Before(pid).io.read), time - Before(pid).io.ts)
  BY <1>4 DEF IOAt, RateSince, NewRate
<1>6. ASSUME SameProcess(pid), process_table_[pid].io.ts # 0
      PROVE  NewRate(pid) = <<work - seen[pid].work, Interval>>
  <2>1. /\ Before(pid).io.ts = Uptime(scans) /\ Before(pid).io.read = seen[pid].work
        /\ seen[pid].work \in Nat /\ seen[pid].work <= work
    <3>1. /\ SampleFits(process_table_[pid], seen[pid]) /\ seen[pid] \in Process
          /\ seen[pid].work <= work
      BY <1>1, <1>5, <1>6 DEF TableFits
    <3>2. Before(pid) = process_table_[pid]
      BY <1>5 DEF Before
    <3>3. seen[pid].work \in Nat
      BY <3>1 DEF Process
    <3>4. /\ process_table_[pid].io.ts = Uptime(scans)
          /\ process_table_[pid].io.read = seen[pid].work
      BY <1>6, <3>1 DEF SampleFits
    <3>5. QED
      BY <3>1, <3>2, <3>3, <3>4
  <2>2. Unsigned(work - seen[pid].work) = work - seen[pid].work
    <3> HIDE DEF work
    <3>1. work - seen[pid].work \in Nat /\ work - seen[pid].work < 2 ^ Uint64Bits
          /\ 2 ^ Uint64Bits \in Nat
      BY <1>2, <2>1, ReaderAssumption
    <3>2. QED
      BY <3>1 DEF Unsigned
  <2> HIDE DEF work, time
  <2>3. QED
    BY <1>3, <1>5, <2>1, <2>2 DEF Rate
<1>7. QED
  BY <1>5, <1>6

\* For every set of processes and kinds, however they begin, work and end
\* between the rounds and while their files are read: the rates of a report are
\* those of the period, for the process that was sampled the round before
\* (proc_reader.cc ParseProcessIO and ParseProcessStat).
THEOREM RatesCorrect == ReaderSpec => RatesOfPeriod
<1>1. ReaderIInv /\ [ReaderNext]_reader_vars =>
        [scans' # scans =>
            \A pid \in DOMAIN process_table_' : ShareOfPeriod(pid) /\ RateOfPeriod(pid)]_reader_vars
  <2> SUFFICES ASSUME ReaderIInv, [ReaderNext]_reader_vars, scans' # scans
               PROVE  \A pid \in DOMAIN process_table_' : ShareOfPeriod(pid) /\ RateOfPeriod(pid)
    OBVIOUS
  <2>1. Scan
    BY DEF ReaderNext, Scan, reader_vars, Fork, Work, End, scan_vars
  <2>2. DOMAIN process_table_' = Living
    BY <2>1, ScanTable DEF ReaderIInv
  <2>3. QED
    BY <2>1, <2>2, ScanShare, ScanRate
<1>2. QED
  BY <1>1, ReaderInitIInv, ReaderNextIInv, PTL DEF ReaderSpec, RatesOfPeriod

\* A set of numbers has a least one.
LEMMA Least ==
    ASSUME NEW T, T \subseteq Nat, T # {}
    PROVE  \E m \in T : \A k \in T : m <= k
<1>1. IsWellFoundedOn(OpToRel(<, Nat), Nat)
  BY NatLessThanWellFounded
<1>2. PICK m \in T : \A y \in T : ~ (<<y, m>> \in OpToRel(<, Nat))
  BY <1>1, WFMin
<1>3. \A y \in T : ~ (y < m)
  BY <1>2 DEF OpToRel
<1>4. QED
  BY <1>3

\* And, when they are not above a bound, a greatest one.
LEMMA Greatest ==
    ASSUME NEW n \in Nat, NEW T, T \subseteq 0..n, T # {}
    PROVE  \E m \in T : \A k \in T : k <= m
<1> DEFINE R == {n - k : k \in T}
<1>1. \A k \in T : n - k \in R /\ n - k \in Nat
  OBVIOUS
<1>2. R \subseteq Nat /\ R # {}
  BY <1>1
<1>3. PICK r \in R : \A k \in R : r <= k
  <2> HIDE DEF R
  <2>1. QED
    BY <1>2, Least
<1>4. PICK m \in T : r = n - m
  BY <1>3
<1>5. ASSUME NEW k \in T PROVE k <= m
  <2>1. n - k \in R /\ k \in Int /\ m \in Int
    BY <1>1
  <2>2. n - m <= n - k
    BY <1>3, <1>4, <2>1
  <2>3. QED
    BY ONLY <2>1, <2>2, n \in Nat
<1>6. QED
  BY <1>5

-----------------------------------------------------------------------------

\* The values of a function on a finite set are finite.
LEMMA ValuesFinite ==
    ASSUME NEW S, IsFiniteSet(S), NEW f, DOMAIN f = S, NEW T,
           \A t \in T : \E s \in S : f[s] = t
    PROVE  IsFiniteSet(T)
<1> DEFINE U == {s \in S : f[s] \in T}
           g == [s \in U |-> f[s]]
<1>1. IsFiniteSet(U)
  BY FS_Subset
<1>2. g \in Surjection(U, T)
  BY DEF Surjection
<1>3. QED
  BY <1>1, <1>2, FS_Surjection

Sampled == [pid : Nat, sm : Nat, enc : Nat, dec : Nat, ts : Nat]

\* The samples of a processor are finitely many, and of the processes that used
\* it in the last round, or use it now.
LEMMA SamplesFacts ==
    ASSUME ReaderIInv, NEW now \in Nat, NEW d \in 1..GpuCount
    PROVE  /\ IsFiniteSet(Samples(d, now)) /\ Samples(d, now) \subseteq Sampled
           /\ \A s \in Samples(d, now) :
                 /\ s.dec = d /\ s.enc = s.ts /\ d \in GpuOf[s.pid]
                 /\ \/ s.pid \in DOMAIN seen /\ s.sm = seen[s.pid].id /\ s.ts = Uptime(scans)
                    \/ s.pid \in Living /\ s.sm = processes[s.pid].id /\ s.ts = now
<1> DEFINE O == {q \in DOMAIN seen : d \in GpuOf[q] /\ seen[q].work > 0}
           N == {q \in Living : d \in GpuOf[q] /\ Worked(q)}
           f == [q \in O |-> GpuSample(q, seen[q], d, Uptime(scans))]
           g == [q \in N |-> GpuSample(q, processes[q], d, now)]
           Old == {GpuSample(q, seen[q], d, Uptime(scans)) : q \in O}
           New == {GpuSample(q, processes[q], d, now) : q \in N}
<1>1. O \subseteq Pid /\ N \subseteq Pid /\ O \subseteq DOMAIN seen /\ N \subseteq Living
  BY DEF Living, ReaderIInv, TableFits
<1>2. Samples(d, now) = Old \union New
  BY DEF Samples
<1>3. /\ \A q \in O : q \in Nat /\ seen[q].id \in Nat /\ d \in GpuOf[q]
      /\ \A q \in N : q \in Nat /\ processes[q].id \in Nat /\ d \in GpuOf[q]
  BY <1>1, ReaderAssumption DEF Living, ReaderIInv, ReaderTypes, TableFits, Process
<1>4. Uptime(scans) \in Nat /\ d \in Nat
  BY UptimeType DEF ReaderIInv, ReaderTypes
<1> HIDE DEF O, N
<1>5. IsFiniteSet(O) /\ IsFiniteSet(N)
  BY <1>1, ReaderAssumption, FS_Subset
<1>6. IsFiniteSet(Old)
  <2>1. DOMAIN f = O /\ \A t \in Old : \E q \in O : f[q] = t
    OBVIOUS
  <2> HIDE DEF f, Old
  <2>2. QED
    BY ONLY <1>5, <2>1, ValuesFinite
<1>7. IsFiniteSet(New)
  <2>1. DOMAIN g = N /\ \A t \in New : \E q \in N : g[q] = t
    OBVIOUS
  <2> HIDE DEF g, New
  <2>2. QED
    BY ONLY <1>5, <2>1, ValuesFinite
<1>8. IsFiniteSet(Old \union New)
  BY <1>6, <1>7, FS_Union
<1>9. ASSUME NEW s \in Old \union New
      PROVE  /\ s \in Sampled /\ s.dec = d /\ s.enc = s.ts /\ d \in GpuOf[s.pid]
             /\ \/ s.pid \in DOMAIN seen /\ s.sm = seen[s.pid].id /\ s.ts = Uptime(scans)
                \/ s.pid \in Living /\ s.sm = processes[s.pid].id /\ s.ts = now
  <2>1. CASE s \in Old
    <3>1. PICK q \in O : s = GpuSample(q, seen[q], d, Uptime(scans))
      BY <2>1
    <3>2. QED
      BY <1>1, <1>3, <1>4, <3>1 DEF GpuSample, Sampled
  <2>2. CASE s \in New
    <3>1. PICK q \in N : s = GpuSample(q, processes[q], d, now)
      BY <2>2
    <3>2. QED
      BY <1>1, <1>3, <1>4, <3>1 DEF GpuSample, Sampled
  <2>3. QED
    BY <2>1, <2>2
<1> HIDE DEF Old, New
<1>10. QED
  BY <1>2, <1>8, <1>9

\* The processes that a processor lists are those that use it.
LEMMA RunningFacts ==
    ASSUME NEW d \in 1..GpuCount
    PROVE  /\ SetToSeq(Running(d)) \in Seq(Running(d))
           /\ \A entry \in Running(d) :
                 /\ entry.pid \in Living /\ d \in GpuOf[entry.pid]
                 /\ entry.memory = GpuMemory[entry.pid]
<1> DEFINE N == {q \in Living : d \in GpuOf[q]}
           f == [q \in N |-> [pid |-> q, memory |-> GpuMemory[q]]]
           R == {[pid |-> q, memory |-> GpuMemory[q]] : q \in N}
<1>1. N \subseteq Living /\ \A q \in N : d \in GpuOf[q]
  OBVIOUS
<1>2. IsFiniteSet(N)
  BY ReaderAssumption, FS_Subset DEF Living
<1> HIDE DEF N
<1>3. IsFiniteSet(R)
  <2>1. DOMAIN f = N /\ \A t \in R : \E q \in N : f[q] = t
    OBVIOUS
  <2> HIDE DEF f, R
  <2>2. QED
    BY ONLY <1>2, <2>1, ValuesFinite
<1>4. Running(d) = R
  BY DEF Running, N
<1>5. \A entry \in R : /\ entry.pid \in Living /\ d \in GpuOf[entry.pid]
                       /\ entry.memory = GpuMemory[entry.pid]
  BY <1>1
<1>6. QED
  BY <1>3, <1>4, <1>5, InSomeOrder

\* What a graphics processor answers, if a call does not fail.
LEMMA InstalledFacts ==
    ASSUME ReaderIInv, NEW now \in Nat, NEW failing, NEW d \in 1..GpuCount
    PROVE  LET device == Installed(now, failing)[d]
           IN  /\ device.samples # Failed =>
                     /\ device.samples \in Seq(Samples(d, now))
                     /\ device.samples \in Seq(Sampled)
               /\ device.processes # Failed =>
                     \/ Entry(device, d) = [pid |-> 0, memory |-> 0]
                     \/ Entry(device, d) \in Running(d)
<1> DEFINE device == Installed(now, failing)[d]
           list == SetToSeq(Running(d))
           sampled == SetToSeq(Samples(d, now))
<1>1. /\ device.samples = IF <<d, "samples">> \in failing THEN Failed ELSE sampled
      /\ device.processes = IF <<d, "processes">> \in failing THEN Failed ELSE list
  BY DEF Installed
<1>2. sampled \in Seq(Samples(d, now)) /\ Samples(d, now) \subseteq Sampled
  BY SamplesFacts, InSomeOrder
<1>3. list \in Seq(Running(d)) /\ d \in Nat \ {0}
  BY RunningFacts
<1> HIDE DEF device, list, sampled
<1>4. sampled \in Seq(Sampled)
  BY <1>2, SeqMonotonic
<1>5. ASSUME device.processes # Failed
      PROVE  \/ Entry(device, d) = [pid |-> 0, memory |-> 0]
             \/ Entry(device, d) \in Running(d)
  <2>1. device.processes = list
    BY <1>1, <1>5
  <2>2. CASE d <= Len(device.processes)
    BY <1>3, <2>1, <2>2 DEF Entry
  <2>3. CASE ~ (d <= Len(device.processes))
    BY <2>3 DEF Entry
  <2>4. QED
    BY <2>2, <2>3
<1>6. QED
  BY <1>1, <1>2, <1>4, <1>5 DEF device

\* Pairs of a number and a place in a list have a last one.
LEMMA LatestIsOne ==
    ASSUME NEW n \in Nat, NEW count \in [1..n -> Nat], NEW S, S # {},
           \A x \in S : /\ x = <<x[1], x[2]>> /\ x[1] \in 1..n
                        /\ x[2] \in Nat /\ x[2] <= count[x[1]]
    PROVE  Latest(S) \in S
<1> DEFINE T == {i \in 0..n : \E k \in Nat : <<i, k>> \in S}
<1>1. T \subseteq 0..n /\ T # {}
  <2>1. PICK x \in S : TRUE
    OBVIOUS
  <2>2. x[1] \in T
    BY <2>1
  <2>3. QED
    BY <2>2
<1>2. PICK i \in T : \A k \in T : k <= i
  <2> HIDE DEF T
  <2>1. QED
    BY <1>1, Greatest
<1>3. ASSUME NEW x \in S PROVE x[1] <= i
  <2>1. <<x[1], x[2]>> \in S /\ x[1] \in 0..n /\ x[2] \in Nat
    OBVIOUS
  <2>2. x[1] \in T
    BY <2>1
  <2>3. QED
    BY <1>2, <2>2
<1>4. i \in 1..n /\ count[i] \in Nat /\ \E k \in 0..count[i] : <<i, k>> \in S
  <2>1. PICK k \in Nat : <<i, k>> \in S
    BY <1>2
  <2>2. \A x \in S : x[1] \in 1..n /\ x[2] \in Nat /\ x[2] <= count[x[1]]
    OBVIOUS
  <2> DEFINE x == <<i, k>>
  <2>3. x[1] \in 1..n /\ x[2] \in Nat /\ x[2] <= count[x[1]] /\ x[1] = i /\ x[2] = k
    BY ONLY <2>1, <2>2
  <2> HIDE DEF T, x
  <2>4. i \in 1..n /\ k \in Nat /\ k <= count[i]
    BY ONLY <2>3
  <2>5. count[i] \in Nat
    BY ONLY <2>4, count \in [1..n -> Nat]
  <2>6. k \in 0..count[i]
    BY ONLY <2>4, <2>5
  <2>7. QED
    BY ONLY <2>1, <2>4, <2>5, <2>6
<1> DEFINE U == {k \in 0..count[i] : <<i, k>> \in S}
<1>5. U \subseteq 0..count[i] /\ U # {}
  BY <1>4
<1>6. PICK k \in U : \A j \in U : j <= k
  <2> HIDE DEF U
  <2>1. QED
    BY <1>4, <1>5, Greatest
<1>7. <<i, k>> \in S
  BY <1>6
<1>8. ASSUME NEW y \in S
      PROVE  y[1] < i \/ (y[1] = i /\ y[2] <= k)
  <2>1. y[1] <= i /\ y[1] \in Nat /\ i \in Nat /\ y = <<y[1], y[2]>>
    BY <1>3, <1>4
  <2>2. CASE y[1] = i
    <3>1. y[2] \in U
      BY <2>1, <2>2
    <3>2. QED
      BY <1>6, <2>2, <3>1
  <2>3. QED
    BY <2>1, <2>2
<1>9. \E x \in S : \A y \in S : y[1] < x[1] \/ (y[1] = x[1] /\ y[2] <= x[2])
  BY <1>7, <1>8
<1>10. QED
  BY <1>9 DEF Latest

\* The time of the last query, and no report shows a later sample.
GpuIInv ==
    /\ last_sample_ts_ \in Nat
    /\ \A pid \in DOMAIN process_table_ :
          /\ process_table_[pid].gpu_usage.enc \in Nat
          /\ process_table_[pid].gpu_usage.enc <= last_sample_ts_

\* What a round says of a process is its own, and newer than the last query.
LEMMA UsageOfOwner ==
    ASSUME ReaderIInv, GpuIInv, NEW failing, scans' = scans + 1,
           NEW pid \in Living, pid \in DOMAIN ScanUsage(failing)
    PROVE  LET usage == ScanUsage(failing)[pid]
               now == Uptime(scans + 1)
           IN  /\ usage.memory \in {0} \union {GpuMemory[pid] % 2 ^ UintBits : d \in GpuOf[pid]}
               /\ \/ Shown(usage) = NoSample /\ usage.enc = 0
                  \/ /\ GpuEnabled /\ Shown(usage) \in OwnSamples(pid)
                     /\ usage.enc \in Nat /\ usage.enc > last_sample_ts_
                     /\ usage.enc <= LastSample(DevicesAt(failing), last_sample_ts_, now)
<1> DEFINE now == Uptime(scans + 1)
           last == last_sample_ts_
           devices == DevicesAt(failing)
           list == {i \in DOMAIN devices : devices[i].processes \notin {Failed, <<>>}}
           answered == {i \in DOMAIN devices : devices[i].samples # Failed}
           new(i) == {k \in DOMAIN devices[i].samples :
                           devices[i].samples[k].ts > Since(devices, i, last, now)}
           sampled == UNION {{i} \X new(i) : i \in answered}
           Sample(x) == devices[x[1]].samples[x[2]]
           Lists(p) == {i \in list : Entry(devices[i], i).pid = p}
           SamplesOf(p) == {x \in sampled : Sample(x).pid = p}
           MemoryOf(p) == LET i == Max(Lists(p)) IN Entry(devices[i], i).memory % 2 ^ UintBits
           UsageNow(p) == IF SamplesOf(p) = {} THEN NoUsage ELSE Sample(Latest(SamplesOf(p)))
           usage == ScanUsage(failing)[pid]
<1>1. ScanUsage(failing) =
        [p \in {Entry(devices[i], i).pid : i \in list} \union {Sample(x).pid : x \in sampled} |->
            [memory |-> IF Lists(p) = {} THEN 0 ELSE MemoryOf(p),
             sm |-> UsageNow(p).sm, enc |-> UsageNow(p).enc, dec |-> UsageNow(p).dec]]
  BY DEF ScanUsage, ProcessUsage
<1>2. /\ usage.memory = IF Lists(pid) = {} THEN 0 ELSE MemoryOf(pid)
      /\ usage.sm = UsageNow(pid).sm /\ usage.enc = UsageNow(pid).enc
      /\ usage.dec = UsageNow(pid).dec
  <2> HIDE DEF Lists, MemoryOf, UsageNow, Sample, sampled, list, devices
  <2>1. ScanUsage(failing)[pid] =
           [memory |-> IF Lists(pid) = {} THEN 0 ELSE MemoryOf(pid),
            sm |-> UsageNow(pid).sm, enc |-> UsageNow(pid).enc, dec |-> UsageNow(pid).dec]
    BY ONLY <1>1, pid \in DOMAIN ScanUsage(failing)
  <2>2. QED
    BY ONLY <2>1
<1>3. now \in Nat /\ Uptime(scans) \in Nat /\ Uptime(scans) <= now /\ last \in Nat
  <2>1. scans \in Nat
    BY DEF ReaderIInv, ReaderTypes
  <2>2. Uptime(scans) \in Nat /\ Uptime(scans + 1) \in Nat
        /\ Uptime(scans + 1) - Uptime(scans) = Interval /\ Interval \in Nat
    BY <2>1, UptimeType, ReaderAssumption
  <2>3. QED
    BY <2>2 DEF GpuIInv
<1>4. pid \in Pid
  BY DEF Living
<1>5. /\ DOMAIN devices \subseteq 1..GpuCount /\ GpuCount \in Nat
      /\ \A i \in DOMAIN devices : GpuEnabled /\ devices[i] = Installed(now, failing)[i]
  BY ReaderAssumption DEF DevicesAt, Devices, Installed
<1>6. usage.memory \in {0} \union {GpuMemory[pid] % 2 ^ UintBits : d \in GpuOf[pid]}
  <2>1. CASE Lists(pid) = {}
    BY <1>2, <2>1
  <2>2. CASE Lists(pid) # {}
    <3>1. Lists(pid) \subseteq 0..GpuCount
      BY <1>5
    <3>2. Max(Lists(pid)) \in Lists(pid)
      <4> HIDE DEF Lists
      <4>1. PICK m \in Lists(pid) : \A k \in Lists(pid) : k <= m
        BY <1>5, <2>2, <3>1, Greatest
      <4>2. \A k \in Lists(pid) : m >= k
        BY <3>1, <4>1
      <4>3. QED
        BY <4>1, <4>2 DEF Max
    <3>3. PICK i \in Lists(pid) : i = Max(Lists(pid))
      BY <3>2
    <3>4. /\ i \in 1..GpuCount /\ Entry(devices[i], i).pid = pid
          /\ devices[i] = Installed(now, failing)[i] /\ devices[i].processes # Failed
      BY <1>5, <3>3
    <3>5. usage.memory = Entry(devices[i], i).memory % 2 ^ UintBits
      BY <1>2, <2>2, <3>3
    <3> HIDE DEF devices, now, usage
    <3>6. \/ Entry(devices[i], i) = [pid |-> 0, memory |-> 0]
          \/ Entry(devices[i], i) \in Running(i)
      BY <1>3, <3>4, InstalledFacts
    <3>7. CASE Entry(devices[i], i) = [pid |-> 0, memory |-> 0]
      <4>1. pid # 0
        BY <1>4, ReaderAssumption
      <4>2. QED
        BY <3>4, <3>7, <4>1
    <3>8. CASE Entry(devices[i], i) \in Running(i)
      <4>1. i \in GpuOf[pid] /\ Entry(devices[i], i).memory = GpuMemory[pid]
        BY <3>4, <3>8, RunningFacts
      <4>2. QED
        BY <3>5, <4>1
    <3>9. QED
      BY <3>6, <3>7, <3>8
  <2>3. QED
    BY <2>1, <2>2
<1>7. CASE SamplesOf(pid) = {}
  <2>1. usage.sm = 0 /\ usage.enc = 0 /\ usage.dec = 0
    BY <1>2, <1>7 DEF NoUsage
  <2>2. QED
    BY <1>6, <2>1 DEF Shown, NoSample
<1>8. CASE SamplesOf(pid) # {}
  <2> DEFINE len == [i \in 1..GpuCount |->
                       IF i \in answered THEN Len(devices[i].samples) ELSE 0]
  <2>1. ASSUME NEW i \in answered
        PROVE  /\ i \in 1..GpuCount /\ devices[i].samples \in Seq(Samples(i, now))
               /\ devices[i].samples \in Seq(Sampled)
    <3>1. i \in 1..GpuCount /\ devices[i] = Installed(now, failing)[i]
          /\ devices[i].samples # Failed
      BY <1>5
    <3> HIDE DEF devices, now
    <3>2. QED
      BY <1>3, <3>1, InstalledFacts
  <2>2. len \in [1..GpuCount -> Nat]
    <3>1. ASSUME NEW i \in 1..GpuCount PROVE len[i] \in Nat
      <4>1. CASE i \in answered
        <5>1. Len(devices[i].samples) \in Nat
          BY <2>1, <4>1, LenProperties
        <5>2. QED
          BY <4>1, <5>1
      <4>2. CASE i \notin answered
        BY <4>2
      <4>3. QED
        BY <4>1, <4>2
    <3>2. QED
      BY <3>1
  <2>3. ASSUME NEW x \in SamplesOf(pid)
        PROVE  /\ x = <<x[1], x[2]>> /\ x[1] \in answered /\ x[2] \in new(x[1])
               /\ Sample(x).pid = pid
    OBVIOUS
  <2>4. ASSUME NEW x \in SamplesOf(pid)
        PROVE  /\ x = <<x[1], x[2]>> /\ x[1] \in 1..GpuCount
               /\ x[2] \in Nat /\ x[2] <= len[x[1]]
    <3>1. x = <<x[1], x[2]>> /\ x[1] \in answered /\ x[2] \in DOMAIN devices[x[1]].samples
      BY <2>3
    <3>2. x[1] \in 1..GpuCount /\ devices[x[1]].samples \in Seq(Sampled)
      BY <2>1, <3>1
    <3>3. x[2] \in 1..Len(devices[x[1]].samples) /\ Len(devices[x[1]].samples) \in Nat
      BY ONLY <3>1, <3>2, LenProperties
    <3>4. len[x[1]] = Len(devices[x[1]].samples)
      BY <3>1, <3>2
    <3>5. QED
      BY ONLY <3>1, <3>2, <3>3, <3>4
  <2>5. Latest(SamplesOf(pid)) \in SamplesOf(pid)
    <3> HIDE DEF SamplesOf, len
    <3>1. QED
      BY ONLY <1>5, <1>8, <2>2, <2>4, LatestIsOne
  <2>6. PICK x \in SamplesOf(pid) : x = Latest(SamplesOf(pid))
    BY <2>5
  <2> DEFINE i == x[1]
             s == Sample(x)
  <2>7. usage.sm = s.sm /\ usage.enc = s.enc /\ usage.dec = s.dec
    BY <1>2, <1>8, <2>6
  <2>8. i \in answered /\ s.pid = pid /\ x[2] \in DOMAIN devices[i].samples
        /\ s.ts > Since(devices, i, last, now) /\ s = devices[i].samples[x[2]]
    BY <2>3
  <2>9. s \in Samples(i, now) /\ s \in Sampled /\ i \in 1..GpuCount
    BY <2>1, <2>8
  <2> HIDE DEF s, i, answered, sampled, now, devices, usage, SamplesOf
  <2>10. /\ s.dec = i /\ s.enc = s.ts /\ i \in GpuOf[pid] /\ s.ts \in Nat
         /\ \/ pid \in DOMAIN seen /\ s.sm = seen[pid].id /\ s.ts = Uptime(scans)
            \/ s.sm = processes[pid].id /\ s.ts = now
    BY <1>3, <2>8, <2>9, SamplesFacts DEF Sampled
  <2>11. s.ts > last /\ s.ts <= now
    BY <1>3, <2>8, <2>10 DEF Since
  <2>12. LastSample(devices, last, now) = now
    <3>1. i \in DOMAIN devices /\ Answered(devices, i, last)
      BY <2>8, <2>11 DEF answered, Answered
    <3>2. QED
      BY <3>1 DEF LastSample
  <2>13. Shown(usage) \in OwnSamples(pid)
    BY <2>7, <2>10 DEF Shown, OwnSamples, now
  <2>14. GpuEnabled
    BY <1>5, <2>8 DEF answered
  <2>15. QED
    BY <1>6, <2>7, <2>10, <2>11, <2>12, <2>13, <2>14 DEF now, devices, usage
<1>9. QED
  BY <1>7, <1>8

\* A round reports of each process what is its own, and nothing again.
LEMMA ScanGpu ==
    ASSUME ReaderIInv, GpuIInv, Scan
    PROVE  /\ GpuIInv'
           /\ \A pid \in DOMAIN process_table_' :
                LET gpu == process_table_'[pid].gpu_usage
                IN  /\ gpu.memory \in {0} \union {GpuMemory[pid] % 2 ^ UintBits : d \in GpuOf[pid]}
                    /\ Shown(gpu) # NoSample =>
                            /\ GpuEnabled /\ Shown(gpu) \in OwnSamples(pid)
                            /\ pid \in DOMAIN process_table_ =>
                                  Shown(process_table_[pid].gpu_usage) # Shown(gpu)
<1> DEFINE now == Uptime(scans + 1)
<1>1. ReaderTypes /\ now \in Nat
  BY UptimeType DEF ReaderIInv, ReaderTypes
<1>2. DOMAIN process_table_' = Living /\ scans' = scans + 1
  BY <1>1, ScanTable
<1>3. PICK failing \in GpuFailing :
         /\ last_sample_ts_' = LastSample(DevicesAt(failing), last_sample_ts_, now)
         /\ \A pid \in Living : process_table_'[pid].gpu_usage =
               IF pid \in DOMAIN ScanUsage(failing) THEN ScanUsage(failing)[pid] ELSE NoUsage
  BY <1>1, ScanTable
<1>4. last_sample_ts_' \in Nat
  BY <1>1, <1>3 DEF GpuIInv, LastSample
<1>5. ASSUME NEW pid \in Living
      PROVE  LET gpu == process_table_'[pid].gpu_usage
             IN  /\ gpu.enc \in Nat /\ gpu.enc <= last_sample_ts_'
                 /\ gpu.memory \in {0} \union {GpuMemory[pid] % 2 ^ UintBits : d \in GpuOf[pid]}
                 /\ Shown(gpu) # NoSample =>
                        GpuEnabled /\ Shown(gpu) \in OwnSamples(pid) /\ gpu.enc > last_sample_ts_
  <2>1. CASE pid \in DOMAIN ScanUsage(failing)
    <3> DEFINE usage == ScanUsage(failing)[pid]
    <3>1. process_table_'[pid].gpu_usage = usage
      BY <1>3, <2>1
    <3>2. /\ usage.memory \in {0} \union {GpuMemory[pid] % 2 ^ UintBits : d \in GpuOf[pid]}
          /\ \/ Shown(usage) = NoSample /\ usage.enc = 0
             \/ /\ GpuEnabled /\ Shown(usage) \in OwnSamples(pid)
                /\ usage.enc \in Nat /\ usage.enc > last_sample_ts_
                /\ usage.enc <= last_sample_ts_'
      BY <1>2, <1>3, <2>1, UsageOfOwner
    <3> HIDE DEF usage
    <3>3. QED
      BY <1>4, <3>1, <3>2
  <2>2. CASE pid \notin DOMAIN ScanUsage(failing)
    BY <1>3, <1>4, <2>2 DEF NoUsage, Shown, NoSample
  <2>3. QED
    BY <2>1, <2>2
<1>6. ASSUME NEW pid \in Living, pid \in DOMAIN process_table_,
             process_table_'[pid].gpu_usage.enc > last_sample_ts_
      PROVE  Shown(process_table_[pid].gpu_usage) # Shown(process_table_'[pid].gpu_usage)
  <2>1. /\ process_table_[pid].gpu_usage.enc \in Nat /\ last_sample_ts_ \in Nat
        /\ process_table_[pid].gpu_usage.enc <= last_sample_ts_
    BY <1>6 DEF GpuIInv
  <2>2. process_table_[pid].gpu_usage.enc # process_table_'[pid].gpu_usage.enc
    BY <1>5, <1>6, <2>1
  <2>3. QED
    BY <2>2 DEF Shown
<1>7. GpuIInv'
  BY <1>2, <1>4, <1>5 DEF GpuIInv
<1>8. QED
  BY <1>2, <1>5, <1>6, <1>7

\* Whatever processes use the graphics processors, however the pids are given
\* again and whichever call fails: a report says of a process only what is its
\* own, with the figures of one sample, and says it once (GPUReader, ProcReader).
THEOREM GpuOfOwnerHolds == ReaderSpec => GpuOfOwner
<1> DEFINE OwnOnce(pid) ==
        LET gpu == process_table_'[pid].gpu_usage
        IN  /\ gpu.memory \in {0} \union {GpuMemory[pid] % 2 ^ UintBits : d \in GpuOf[pid]}
            /\ Shown(gpu) # NoSample =>
                    /\ GpuEnabled /\ Shown(gpu) \in OwnSamples(pid)
                    /\ pid \in DOMAIN process_table_ =>
                          Shown(process_table_[pid].gpu_usage) # Shown(gpu)
<1>1. ReaderInit => ReaderIInv /\ GpuIInv
  BY ReaderInitIInv DEF ReaderInit, GpuIInv
<1>2. ReaderIInv /\ GpuIInv /\ [ReaderNext]_reader_vars => ReaderIInv' /\ GpuIInv'
  <2> SUFFICES ASSUME ReaderIInv, GpuIInv, [ReaderNext]_reader_vars PROVE GpuIInv'
    BY ReaderNextIInv
  <2>1. CASE UNCHANGED <<process_table_, last_sample_ts_>>
    BY <2>1 DEF GpuIInv
  <2>2. CASE Scan
    BY <2>2, ScanGpu
  <2>3. UNCHANGED <<process_table_, last_sample_ts_>> \/ Scan
    BY DEF ReaderNext, Scan, reader_vars, Fork, Work, End, scan_vars
  <2>4. QED
    BY <2>1, <2>2, <2>3
<1>3. ReaderIInv /\ GpuIInv /\ [ReaderNext]_reader_vars =>
        [scans' # scans => \A pid \in DOMAIN process_table_' : OwnOnce(pid)]_reader_vars
  <2> SUFFICES ASSUME ReaderIInv, GpuIInv, [ReaderNext]_reader_vars, scans' # scans
               PROVE  \A pid \in DOMAIN process_table_' : OwnOnce(pid)
    OBVIOUS
  <2>1. Scan
    BY DEF ReaderNext, Scan, reader_vars, Fork, Work, End, scan_vars
  <2>2. QED
    BY <2>1, ScanGpu
<1>4. QED
  BY <1>1, <1>2, <1>3, PTL DEF ReaderSpec, GpuOfOwner

-----------------------------------------------------------------------------
(* The metrics of the host. *)

BusyTime(times) == CPUTotalTime(times) - CPUIdleTime(times)

\* The kernel has counted from one to the other.
CountedFrom(last, now) ==
    /\ last \in [CpuTimes -> Nat] /\ last.idle >= 1
    /\ CPUTotalTime(last) <= CPUTotalTime(now)
    /\ BusyTime(last) <= BusyTime(now)

\* The counters fit into their type, what is kept of them is what the kernel
\* said or nothing, and the metrics of the memory start and stop together.
MetricsIInv ==
    /\ counters \in [CpuTimes -> Nat] /\ counters.idle >= 1
    /\ CPUTotalTime(counters) < 2 ^ Uint64Bits
    /\ last_ = NoTimes \/ CountedFrom(last_, counters)
    /\ Memory \subseteq started \/ Memory \intersect started = {}

\* The idle and the busy time are numbers, and the total is their sum.
LEMMA TimesFacts ==
    ASSUME NEW times \in [CpuTimes -> Nat]
    PROVE  /\ CPUIdleTime(times) \in Nat /\ CPUIdleTime(times) >= times.idle
           /\ CPUTotalTime(times) \in Nat
           /\ BusyTime(times) \in Nat
<1> DEFINE busy == times.user + times.nice + times.system + times.irq + times.softirq + times.steal
<1>1. \A t \in CpuTimes : times[t] \in Nat
  OBVIOUS
<1>2. /\ times.user \in Nat /\ times.nice \in Nat /\ times.system \in Nat /\ times.irq \in Nat
      /\ times.softirq \in Nat /\ times.steal \in Nat /\ times.idle \in Nat
      /\ times.iowait \in Nat
  BY <1>1 DEF CpuTimes
<1>3. CPUIdleTime(times) \in Nat /\ CPUIdleTime(times) >= times.idle
  BY <1>2 DEF CPUIdleTime
<1>4. CPUTotalTime(times) = CPUIdleTime(times) + busy /\ busy \in Nat
  <2>1. CPUTotalTime(times) = CPUIdleTime(times) + times.user + times.nice + times.system
                              + times.irq + times.softirq + times.steal
    BY DEF CPUTotalTime
  <2>2. QED
    BY ONLY <1>2, <1>3, <2>1
<1> HIDE DEF busy
<1>5. QED
  BY <1>3, <1>4 DEF BusyTime

\* The counters of a file that could not be read are zeros.
LEMMA NoTimesFacts ==
    NoTimes \in [CpuTimes -> Nat] /\ CPUIdleTime(NoTimes) = 0 /\ CPUTotalTime(NoTimes) = 0
BY DEF NoTimes, CpuTimes, CPUIdleTime, CPUTotalTime

\* The counters begin above 0, and nothing is kept of them.
LEMMA MetricsInitIInv == MetricsInit => MetricsIInv
<1> SUFFICES ASSUME MetricsInit PROVE MetricsIInv
  OBVIOUS
<1>1. /\ counters = [NoTimes EXCEPT !.idle = 1] /\ started = {} /\ last_ = NoTimes
  BY DEF MetricsInit
<1>2. counters \in [CpuTimes -> Nat] /\ counters.idle = 1
  BY <1>1 DEF NoTimes, CpuTimes
<1>3. CPUTotalTime(counters) = 1
  <2>1. /\ counters.idle = 1 /\ counters.iowait = 0 /\ counters.user = 0 /\ counters.nice = 0
        /\ counters.system = 0 /\ counters.irq = 0 /\ counters.softirq = 0 /\ counters.steal = 0
    BY <1>1 DEF NoTimes, CpuTimes
  <2>2. QED
    BY ONLY <2>1 DEF CPUTotalTime, CPUIdleTime
<1>4. 2 ^ Uint64Bits > 1
  <2>1. MaxTime \in Nat /\ MaxTime + 3 < 2 ^ Uint64Bits /\ Uint64Bits \in Nat
    BY MetricsAssumption
  <2>2. 2 ^ Uint64Bits \in Nat
    BY <2>1
  <2>3. QED
    BY <2>1, <2>2
<1>5. QED
  BY <1>1, <1>2, <1>3, <1>4 DEF MetricsIInv

\* The kernel counts on.
LEMMA CountIInv ==
    ASSUME MetricsIInv,
           \/ \E n \in {0, 2} : Count("idle", n)
           \/ \E n \in {-1, 2} : Count("iowait", n)
    PROVE  MetricsIInv'
<1>1. PICK t \in {"idle", "iowait"}, n \in {-1, 0, 2} :
         Count(t, n) /\ (t = "idle" => n # -1)
  OBVIOUS
<1>2. /\ started' = started /\ last_' = last_
      /\ counters' = [counters EXCEPT ![t] = @ + n, !.user = @ + 1]
      /\ CPUTotalTime(counters) < MaxTime /\ counters[t] + n >= 0
  BY <1>1 DEF Count
<1>3. counters \in [CpuTimes -> Nat] /\ counters.idle >= 1
  BY DEF MetricsIInv
<1>4. t \in CpuTimes /\ t # "user" /\ "user" \in CpuTimes
  BY <1>1 DEF CpuTimes
<1>5. /\ counters[t] + n \in Nat /\ counters["user"] + 1 \in Nat /\ n \in Int
  <2>1. counters[t] \in Nat /\ counters["user"] \in Nat
    BY <1>3, <1>4
  <2>2. n = -1 \/ n = 0 \/ n = 2
    BY <1>1
  <2>3. counters[t] + n >= 0
    BY <1>2
  <2>4. QED
    BY ONLY <2>1, <2>2, <2>3
<1>6. /\ counters' \in [CpuTimes -> Nat]
      /\ counters'[t] = counters[t] + n /\ counters'["user"] = counters["user"] + 1
      /\ \A s \in CpuTimes \ {t, "user"} : counters'[s] = counters[s]
  BY <1>2, <1>3, <1>4, <1>5
<1>7. CPUIdleTime(counters') = CPUIdleTime(counters) + n
  <2>1. \A s \in CpuTimes : counters[s] \in Nat /\ counters'[s] \in Nat
    BY <1>3, <1>6
  <2>2. {"idle", "iowait"} \subseteq CpuTimes
    BY DEF CpuTimes
  <2>3. CASE t = "idle"
    BY <1>5, <1>6, <2>1, <2>2, <2>3 DEF CPUIdleTime
  <2>4. CASE t = "iowait"
    BY <1>5, <1>6, <2>1, <2>2, <2>4 DEF CPUIdleTime
  <2>5. QED
    BY <1>1, <2>3, <2>4
<1>8. CPUTotalTime(counters') = CPUTotalTime(counters) + n + 1
  <2> DEFINE Rest == {"nice", "system", "irq", "softirq", "steal"}
  <2>1. \A s \in Rest : s \in CpuTimes \ {t, "user"}
    BY <1>1 DEF CpuTimes
  <2>2. \A s \in Rest : counters'[s] = counters[s] /\ counters[s] \in Nat
    BY <1>3, <1>6, <2>1
  <2>3. CPUIdleTime(counters) \in Nat /\ counters["user"] \in Nat
    BY <1>3, <1>4, TimesFacts
  <2>4. QED
    BY <1>5, <1>6, <1>7, <2>2, <2>3 DEF CPUTotalTime
<1>9. /\ CPUIdleTime(counters) \in Nat /\ CPUTotalTime(counters) \in Nat
  BY <1>3, TimesFacts
<1>10. /\ CPUTotalTime(counters) <= CPUTotalTime(counters')
       /\ BusyTime(counters') = BusyTime(counters) + 1 /\ BusyTime(counters) \in Nat
       /\ CPUTotalTime(counters') \in Nat
  BY <1>1, <1>7, <1>8, <1>9, <1>3, TimesFacts DEF BusyTime
<1>11. CPUTotalTime(counters') < 2 ^ Uint64Bits
  <2>1. MaxTime \in Nat /\ MaxTime + 3 < 2 ^ Uint64Bits /\ 2 ^ Uint64Bits \in Nat
    BY MetricsAssumption
  <2>2. CPUTotalTime(counters') <= CPUTotalTime(counters) + 3
    BY <1>1, <1>8, <1>9
  <2>3. CPUTotalTime(counters) < MaxTime
    BY <1>2
  <2>4. QED
    BY ONLY <1>9, <1>10, <2>1, <2>2, <2>3
<1>12. counters'.idle >= 1
  BY <1>1, <1>3, <1>4, <1>6 DEF CpuTimes
<1>13. last_ = NoTimes \/ CountedFrom(last_, counters')
  <2>1. last_ = NoTimes \/ CountedFrom(last_, counters)
    BY DEF MetricsIInv
  <2>2. ASSUME CountedFrom(last_, counters)
        PROVE  CountedFrom(last_, counters')
    <3>1. CPUTotalTime(last_) \in Nat /\ BusyTime(last_) \in Nat
      BY <2>2, TimesFacts DEF CountedFrom
    <3>2. QED
      BY <1>9, <1>10, <2>2, <3>1 DEF CountedFrom
  <2>3. QED
    BY <2>1, <2>2
<1>14. QED
  BY <1>2, <1>6, <1>11, <1>12, <1>13 DEF MetricsIInv

\* What is read of the counters is nothing, or what they are.
LEMMA StatRead ==
    ASSUME NEW files \in FilesNow
    PROVE  ParseStat(files.stat) \in {NoTimes, counters}
<1>1. files.stat \in {NoFile, [btime |-> 1, fields |-> 10, cpu |-> counters]}
  BY DEF FilesNow
<1>2. CASE files.stat = NoFile
  BY <1>2 DEF ParseStat
<1>3. CASE files.stat # NoFile
  <2>1. files.stat = [btime |-> 1, fields |-> 10, cpu |-> counters]
    BY <1>1, <1>3
  <2>2. files.stat.fields = 10 /\ files.stat.cpu = counters /\ "btime" \in DOMAIN files.stat
    BY <2>1
  <2>3. QED
    BY <1>3, <2>2 DEF ParseStat
<1>4. QED
  BY <1>2, <1>3

\* Every step keeps the invariant of the metrics.
LEMMA MetricsNextIInv == MetricsIInv /\ [MetricsNext]_metrics_vars => MetricsIInv'
<1> SUFFICES ASSUME MetricsIInv, [MetricsNext]_metrics_vars PROVE MetricsIInv'
  OBVIOUS
<1>1. CASE UNCHANGED metrics_vars
  BY <1>1 DEF metrics_vars, MetricsIInv, CountedFrom
<1>2. CASE \/ \E n \in {0, 2} : Count("idle", n)
           \/ \E n \in {-1, 2} : Count("iowait", n)
  BY <1>2, CountIInv
<1>3. CASE StartMetrics
  <2>1. /\ counters' = counters /\ last_' = last_ /\ Memory \subseteq started'
    BY <1>3 DEF StartMetrics
  <2>2. QED
    BY <2>1 DEF MetricsIInv
<1>4. CASE StartCpu
  <2>1. /\ counters' = counters /\ last_' = last_ /\ started' = started \union Cpu
    BY <1>4 DEF StartCpu
  <2>2. Cpu \intersect Memory = {}
    BY DEF Cpu, Memory
  <2> HIDE DEF Cpu, Memory
  <2>3. QED
    BY <2>1, <2>2 DEF MetricsIInv
<1>5. CASE StopMetrics
  <2>1. /\ counters' = counters /\ last_' = last_ /\ started' = {}
    BY <1>5 DEF StopMetrics
  <2>2. QED
    BY <2>1 DEF MetricsIInv
<1>6. CASE \E files \in FilesNow, called \in BOOLEAN : Export(files, called)
  <2>1. PICK files \in FilesNow, called \in BOOLEAN : Export(files, called)
    BY <1>6
  <2>2. /\ counters' = counters /\ started' = started
        /\ last_' \in {last_, ParseStat(files.stat)}
    BY <2>1 DEF Export, Kept
  <2>3. last_' \in {last_, NoTimes, counters}
    BY <2>2, StatRead
  <2>4. CountedFrom(counters, counters)
    BY TimesFacts DEF MetricsIInv, CountedFrom
  <2>5. QED
    BY <2>2, <2>3, <2>4 DEF MetricsIInv
<1>7. QED
  BY <1>1, <1>2, <1>3, <1>4, <1>5, <1>6 DEF MetricsNext

\* A difference of counters, of which the one before may be the greater.
LEMMA UnsignedOf ==
    ASSUME NEW n \in Nat, n < 2 ^ Uint64Bits
    PROVE  /\ Unsigned(n) = n
           /\ n > 0 => Unsigned(0 - n) = 2 ^ Uint64Bits - n
<1> DEFINE w == 2 ^ Uint64Bits
<1>1. w \in Nat
  BY MetricsAssumption
<1> HIDE DEF w
<1>2. n < w
  BY DEF w
<1>3. n % w = n /\ (n > 0 => (0 - n) % w = w - n)
  BY <1>1, <1>2
<1>4. QED
  BY <1>3 DEF Unsigned, w

\* The usage is that of the period.
LEMMA UsageOf ==
    ASSUME MetricsIInv, NEW times \in {NoTimes, counters}
    PROVE  LET usage == CpuUsage(times)
               total == CPUTotalTime(counters) - CPUTotalTime(last_)
               idle  == CPUIdleTime(counters) - CPUIdleTime(last_)
           IN  /\ last_ = NoTimes => usage[1] = 0
               /\ last_ # NoTimes /\ times = NoTimes => usage[1] <= 0
               /\ last_ # NoTimes /\ times = counters /\ idle >= 0 =>
                     usage[1] * total = usage[2] * (total - idle)
<1> DEFINE L == CPUTotalTime(last_)
           I == CPUIdleTime(last_)
           C == CPUTotalTime(counters)
           J == CPUIdleTime(counters)
           w == 2 ^ Uint64Bits
<1>1. C \in Nat /\ J \in Nat /\ C < w /\ BusyTime(counters) = C - J /\ BusyTime(counters) \in Nat
  BY TimesFacts DEF MetricsIInv, BusyTime
<1>2. w \in Nat
  BY MetricsAssumption
<1>3. CpuUsage(times) =
        IF L # 0 /\ Unsigned(CPUTotalTime(times) - L) > 0
        THEN <<Unsigned(CPUTotalTime(times) - L) - Unsigned(CPUIdleTime(times) - I),
               Unsigned(CPUTotalTime(times) - L)>>
        ELSE <<0, 1>>
  BY DEF CpuUsage
<1>4. CASE last_ = NoTimes
  <2>1. L = 0
    BY <1>4, NoTimesFacts
  <2>2. CpuUsage(times)[1] = 0
    BY <1>3, <2>1
  <2>3. QED
    BY <1>4, <2>2
<1>5. ASSUME last_ # NoTimes
      PROVE  /\ L \in Nat /\ I \in Nat /\ I >= 1 /\ I <= L /\ L <= C /\ L - I <= C - J
  <2>1. CountedFrom(last_, counters)
    BY <1>5 DEF MetricsIInv
  <2>2. /\ last_ \in [CpuTimes -> Nat] /\ last_.idle >= 1
        /\ L <= C /\ BusyTime(last_) <= BusyTime(counters)
    BY <2>1 DEF CountedFrom
  <2>3. /\ I \in Nat /\ L \in Nat /\ BusyTime(last_) \in Nat /\ BusyTime(last_) = L - I
        /\ I >= last_.idle
    BY <2>2, TimesFacts DEF BusyTime
  <2>4. last_.idle \in Nat
    BY <2>2 DEF CpuTimes
  <2> HIDE DEF L, I, C, J
  <2>5. QED
    BY <1>1, <2>2, <2>3, <2>4
<1> HIDE DEF L, I, C, J, w
<1>6. ASSUME last_ # NoTimes, times = NoTimes
      PROVE  CpuUsage(times)[1] <= 0
  <2>1. CPUTotalTime(times) = 0 /\ CPUIdleTime(times) = 0
    BY <1>6, NoTimesFacts
  <2>2. Unsigned(0 - L) = w - L /\ Unsigned(0 - I) = w - I
    BY <1>1, <1>2, <1>5, <1>6, UnsignedOf DEF w
  <2>3. CpuUsage(times)[1] = (w - L) - (w - I) \/ CpuUsage(times)[1] = 0
    BY <1>3, <2>1, <2>2
  <2>4. QED
    BY <1>2, <1>5, <1>6, <2>3
<1>7. ASSUME last_ # NoTimes, times = counters, J - I >= 0
      PROVE  CpuUsage(times)[1] * (C - L) = CpuUsage(times)[2] * ((C - L) - (J - I))
  <2>1. CPUTotalTime(times) = C /\ CPUIdleTime(times) = J
    BY <1>7 DEF C, J
  <2>2. C - L \in Nat /\ C - L < w /\ J - I \in Nat /\ J - I < w
    BY <1>1, <1>2, <1>5, <1>7
  <2>3. Unsigned(C - L) = C - L /\ Unsigned(J - I) = J - I
    BY <2>2, UnsignedOf DEF w
  <2>4. CASE C - L > 0
    <3>1. CpuUsage(times) = <<(C - L) - (J - I), C - L>>
      BY <1>1, <1>3, <1>5, <1>7, <2>1, <2>3, <2>4
    <3>2. ((C - L) - (J - I)) * (C - L) = (C - L) * ((C - L) - (J - I))
      BY <2>2
    <3>3. QED
      BY <3>1, <3>2
  <2>5. CASE ~ (C - L > 0)
    <3>1. CpuUsage(times) = <<0, 1>>
      BY <1>3, <2>1, <2>3, <2>5
    <3>2. C - L = 0 /\ J - I = 0
      BY <1>1, <1>5, <1>7, <2>2, <2>5
    <3>3. QED
      BY <3>1, <3>2
  <2>6. QED
    BY <2>4, <2>5
<1>8. QED
  BY <1>4, <1>6, <1>7 DEF C, L, J, I

\* The type of what is observed is that of the instrument, but for the memory.
LEMMA TypesOfValues ==
    ASSUME NEW files \in FilesNow, NEW i, i \notin Memory, NEW k \in DOMAIN ValueOf(i, files)
    PROVE  ValueOf(i, files)[k].type = TypeOf(i)
<1>1. CASE i = "sum_system_net_bytes_rcvd"
  <2>1. ValueOf(i, files) = <<Int64(BytesTotal(ParseNetDev(files.net_dev[i]), "rx"))>>
    BY <1>1 DEF ValueOf
  <2>2. TypeOf(i) = "int64"
    BY <1>1 DEF TypeOf, Memory, Cpu
  <2>3. QED
    BY <2>1, <2>2 DEF Int64
<1>2. CASE i = "sum_system_net_bytes_sent"
  <2>1. ValueOf(i, files) = <<Int64(BytesTotal(ParseNetDev(files.net_dev[i]), "tx"))>>
    BY <1>2 DEF ValueOf
  <2>2. TypeOf(i) = "int64"
    BY <1>2 DEF TypeOf, Memory, Cpu
  <2>3. QED
    BY <2>1, <2>2 DEF Int64
<1>3. CASE i = "system_cpu_usage"
  <2>1. ValueOf(i, files) = <<Double(CpuUsage(ParseStat(files.stat)))>>
    BY <1>3 DEF ValueOf
  <2>2. TypeOf(i) = "double"
    BY <1>3 DEF TypeOf, Memory, Cpu
  <2>3. QED
    BY <2>1, <2>2 DEF Double
<1>4. CASE i \notin {"sum_system_net_bytes_rcvd", "sum_system_net_bytes_sent", "system_cpu_usage"}
  <2> DEFINE rows == IF i = "process_memory" THEN GetGPUProcessMemory(Devices(Gpus))
                     ELSE GetGPUData(Devices(Gpus), i)
  <2>1. i \notin {"system_mem_pct_total_used", "system_mem_pct_usable"}
    BY DEF Memory
  <2>2. ValueOf(i, files) = [j \in DOMAIN rows |-> Int64(rows[j].data)]
    BY <1>4, <2>1 DEF ValueOf
  <2>3. TypeOf(i) = "int64"
    BY <1>4 DEF TypeOf, Cpu
  <2> HIDE DEF rows
  <2>4. QED
    BY <2>2, <2>3 DEF Int64
<1>5. QED
  BY <1>1, <1>2, <1>3, <1>4

\* An export fails as the property says, and gives the usage of its period.
LEMMA ExportIsOfPeriod ==
    ASSUME MetricsIInv, NEW files \in FilesNow, NEW called \in BOOLEAN, Export(files, called)
    PROVE  /\ UsageOfPeriod
           /\ raised' \subseteq Memory
<1> DEFINE times == ParseStat(files.stat)
<1>1. /\ raised' = Wrong(files)
      /\ observed' = IF raised' # {} THEN <<>> ELSE [i \in started |-> ValueOf(i, files)]
      /\ last_' = IF Cpu \subseteq started /\ (raised' = {} \/ called)
                  THEN times ELSE last_
  BY DEF Export, Kept
<1>2. times \in {NoTimes, counters}
  BY StatRead
<1>3. raised' \subseteq Memory
  BY <1>1, TypesOfValues DEF Wrong
<1>5. ASSUME "system_cpu_usage" \in DOMAIN observed'
      PROVE  Usage = CpuUsage(times) /\ last_' = times
  <2>1. observed' # <<>>
    BY <1>5
  <2>2. /\ raised' = {} /\ observed' = [i \in started |-> ValueOf(i, files)]
    BY <1>1, <2>1
  <2>3. "system_cpu_usage" \in started
    BY <1>5, <2>2
  <2>4. observed'["system_cpu_usage"] = <<Double(CpuUsage(times))>>
    BY <2>2, <2>3 DEF ValueOf
  <2>5. QED
    BY <1>1, <2>2, <2>3, <2>4 DEF Usage, Double, Cpu
<1>6. UsageOfPeriod
  <2> SUFFICES ASSUME "system_cpu_usage" \in DOMAIN observed'
               PROVE  CASE last_ = NoTimes -> Usage[1] = 0
                        [] last_ # NoTimes /\ last_' = NoTimes -> Usage[1] <= 0
                        [] OTHER ->
                             CPUIdleTime(counters) >= CPUIdleTime(last_) =>
                                Usage[1] * (CPUTotalTime(counters) - CPUTotalTime(last_))
                                = Usage[2] * (CPUTotalTime(counters) - CPUIdleTime(counters)
                                              - CPUTotalTime(last_) + CPUIdleTime(last_))
    BY DEF UsageOfPeriod
  <2> DEFINE usage == CpuUsage(times)
             C == CPUTotalTime(counters)
             J == CPUIdleTime(counters)
             L == CPUTotalTime(last_)
             I == CPUIdleTime(last_)
  <2>1. Usage = usage /\ last_' = times
    BY <1>5
  <2>2. /\ last_ = NoTimes => usage[1] = 0
        /\ last_ # NoTimes /\ times = NoTimes => usage[1] <= 0
        /\ last_ # NoTimes /\ times = counters /\ J - I >= 0 =>
              usage[1] * (C - L) = usage[2] * ((C - L) - (J - I))
    BY <1>2, UsageOf
  <2>3. C \in Int /\ J \in Int /\ L \in Int /\ I \in Int
    BY TimesFacts, NoTimesFacts DEF MetricsIInv, CountedFrom
  <2> HIDE DEF usage, times, C, J, L, I
  <2>4. (C - L) - (J - I) = C - J - L + I /\ (J >= I => J - I >= 0)
    BY <2>3
  <2>5. CASE last_ = NoTimes
    BY <2>1, <2>2, <2>5
  <2>6. CASE last_ # NoTimes /\ last_' = NoTimes
    BY <2>1, <2>2, <2>6
  <2>7. CASE last_ # NoTimes /\ last_' # NoTimes
    <3>1. J >= I => Usage[1] * (C - L) = Usage[2] * (C - J - L + I)
      BY <1>2, <2>1, <2>2, <2>4, <2>7
    <3>2. QED
      BY <2>7, <3>1 DEF C, J, L, I
  <2>8. QED
    BY <2>5, <2>6, <2>7
<1>7. QED
  BY <1>3, <1>6

\* However the kernel counts, whichever files cannot be read, and whenever the
\* source starts and stops: the usage of the processor in an export is that of
\* the period since the callback before, and an export fails only for an
\* instrument of the memory (CpuUsage, MetricCollector, OltpCollector).
THEOREM ExportsCorrect == MetricsSpec => ExportOfPeriod
<1>1. ASSUME MetricsIInv, [MetricsNext]_metrics_vars
      PROVE  [exports' # exports =>
                 /\ UsageOfPeriod
                 /\ raised' \subseteq Memory]_metrics_vars
  <2>1. CASE exports' = exports
    BY <2>1
  <2>2. CASE \E files \in FilesNow, called \in BOOLEAN : Export(files, called)
    BY <1>1, <2>2, ExportIsOfPeriod
  <2>3. exports' = exports \/ \E files \in FilesNow, called \in BOOLEAN : Export(files, called)
    BY <1>1 DEF MetricsNext, metrics_vars, Count, StartMetrics, StartCpu, StopMetrics
  <2>4. QED
    BY <2>1, <2>2, <2>3
<1>2. QED
  BY <1>1, MetricsInitIInv, MetricsNextIInv, PTL DEF MetricsSpec, ExportOfPeriod

-----------------------------------------------------------------------------
(* The mounts. *)

\* What may be asked and answered, and the entries of both lists.
AMount == [n : Nat \ {0}, what : Mountable]

AnAnswer == {Numbers[f] : f \in DOMAIN Numbers} \union {NoNumbers}

DiskEntry == {DiskInfo(m, st) : m \in AMount, st \in AnAnswer}

SystemEntry == {FileSystemInfo(m, st) : m \in AMount, st \in AnAnswer}

MountTypes ==
    /\ mounts \subseteq AMount /\ mounted \in Nat /\ lines \subseteq AMount /\ cursor \in Nat
    /\ fsd \in AnAnswer /\ disks \in Seq(DiskEntry) /\ systems \in Seq(SystemEntry)
    /\ stage \in {"idle", "mounts", "disks", "infos", "stat", "sent"}

\* A number is given once, and the lines are those of the table that is read.
Numbered ==
    /\ \A m, k \in mounts \union lines : m.n = k.n => m = k
    /\ \A m \in mounts : m.n <= mounted
    /\ \A line \in lines : line.n <= cursor
    /\ cursor <= mounted

StageFits ==
    /\ stage = "idle" => cursor = 0 /\ lines = {} /\ unread = {}
    /\ stage \in {"idle", "mounts"} => disks = <<>>
    /\ stage \in {"idle", "mounts", "disks"} => systems = <<>>

\* What is reported comes before what is read and not yet handled.
BeforeLines ==
    /\ stage = "disks" =>
          \A line \in lines : \A i \in DOMAIN disks : disks[i].mount.n < line.n
    /\ stage \in {"infos", "stat"} =>
          /\ \A line \in lines : \A i \in DOMAIN systems : systems[i].mount.n < line.n
          /\ \A i \in DOMAIN systems : systems[i].mount.n <= cursor

\* What statfs has answered is kept until stat has.
FsdFits ==
    stage = "stat" => \A line \in lines : IsNext(line) =>
        /\ IsFileSystem(line.what) /\ HasBlocks(fsd)
        /\ line \in in_place => fsd = Own(line)

\* A mount in place is in the lists as it should be.
DiskDone(m) ==
    EntriesOf(m, disks) = IF IsDisk(m.what) /\ Own(m) # NoNumbers THEN {DiskInfo(m, Own(m))} ELSE {}

SystemDone(m) ==
    EntriesOf(m, systems) = IF IsFileSystem(m.what) /\ HasBlocks(Own(m))
                            THEN {FileSystemInfo(m, Own(m))} ELSE {}

\* Or it will be read, or is read and will be handled.
ToCome ==
    \A m \in in_place :
        /\ Visible(m)
        /\ stage = "mounts" => m.n > cursor \/ m \in lines
        /\ stage = "disks" /\ "disks" \notin unread => m \in lines \/ DiskDone(m)
        /\ stage \in {"infos", "stat", "sent"} /\ "disks" \notin unread => DiskDone(m)
        /\ stage \in {"infos", "stat"} => m.n > cursor \/ m \in lines \/ SystemDone(m)
        /\ stage = "sent" /\ "systems" \notin unread => SystemDone(m)

\* The inductive invariant of the mounts.
MountIInv ==
    /\ MountTypes /\ Numbered /\ StageFits /\ BeforeLines /\ FsdFits /\ ToCome
    /\ InOrder(disks) /\ InOrder(systems)

\* The mounts of the entries.
LEMMA EntryFacts ==
    /\ \A m, st : DiskInfo(m, st).mount = m /\ FileSystemInfo(m, st).mount = m
    /\ \A e \in DiskEntry \union SystemEntry : e.mount \in AMount /\ e.mount.n \in Nat
<1>1. \A m, st : DiskInfo(m, st).mount = m /\ FileSystemInfo(m, st).mount = m
  BY DEF DiskInfo, FileSystemInfo
<1>2. \A m \in AMount : m.n \in Nat
  BY DEF AMount
<1>3. QED
  BY <1>1, <1>2 DEF DiskEntry, SystemEntry

\* An entry at the end of a list.
LEMMA AtTheEnd ==
    ASSUME NEW S, \A e \in S : e.mount.n \in Nat,
           NEW list \in Seq(S), NEW entry \in S, InOrder(list),
           \A i \in DOMAIN list : list[i].mount.n < entry.mount.n
    PROVE  LET longer == Append(list, entry)
           IN  /\ longer \in Seq(S) /\ InOrder(longer)
               /\ \A k \in Nat : entry.mount.n < k =>
                     \A i \in DOMAIN longer : longer[i].mount.n < k
               /\ \A m : EntriesOf(m, longer) =
                            EntriesOf(m, list) \union {e \in {entry} : e.mount = m}
<1> DEFINE longer == Append(list, entry)
           n == Len(list)
<1>1. /\ n \in Nat /\ DOMAIN list = 1..n /\ longer \in Seq(S) /\ DOMAIN longer = 1..(n + 1)
      /\ \A i \in 1..n : longer[i] = list[i] /\ list[i] \in S
      /\ longer[n + 1] = entry
  BY AppendProperties, LenProperties, ElementOfSeq
<1>2. \A i \in 1..n : list[i].mount.n \in Nat /\ list[i].mount.n < entry.mount.n
  BY <1>1
<1> HIDE DEF longer, n
<1>3. entry.mount.n \in Nat
  OBVIOUS
<1>4. InOrder(longer)
  <2> SUFFICES ASSUME NEW i \in 1..(n + 1), NEW j \in 1..(n + 1), i < j
               PROVE  longer[i].mount.n < longer[j].mount.n
    BY <1>1 DEF InOrder
  <2>1. i \in 1..n
    BY <1>1
  <2>2. CASE j = n + 1
    BY <1>1, <1>2, <2>1, <2>2
  <2>3. CASE j # n + 1
    <3>1. j \in 1..n
      BY <1>1, <2>3
    <3>2. QED
      BY <1>1, <2>1, <3>1 DEF InOrder
  <2>4. QED
    BY <2>2, <2>3
<1>5. ASSUME NEW k \in Nat, entry.mount.n < k, NEW i \in DOMAIN longer
      PROVE  longer[i].mount.n < k
  <2>1. CASE i = n + 1
    BY <1>1, <1>5, <2>1
  <2>2. CASE i # n + 1
    <3>1. i \in 1..n
      BY <1>1, <2>2
    <3>2. QED
      BY <1>1, <1>2, <1>3, <1>5, <3>1
  <2>3. QED
    BY <2>1, <2>2
<1>6. ToSet(longer) = ToSet(list) \union {entry}
  <2>1. \A i : i \in 1..(n + 1) <=> i \in 1..n \/ i = n + 1
    BY <1>1
  <2>2. ToSet(longer) = {longer[i] : i \in 1..(n + 1)} /\ ToSet(list) = {list[i] : i \in 1..n}
    BY <1>1 DEF ToSet
  <2>3. QED
    BY <1>1, <2>1, <2>2
<1>7. \A m : EntriesOf(m, longer) = EntriesOf(m, list) \union {e \in {entry} : e.mount = m}
  BY <1>6 DEF EntriesOf
<1>8. QED
  BY <1>1, <1>4, <1>5, <1>7 DEF longer

\* A mount that no other covers answers for itself.
LEMMA OwnAnswer ==
    ASSUME MountTypes, Numbered, NEW m \in mounts, Visible(m)
    PROVE  Answers(m.what.point) = {Own(m)}
<1>1. m \in At(m.what.point)
  BY DEF At
<1>2. ASSUME NEW k \in At(m.what.point), Visible(k)
      PROVE  k = m
  <2>1. k \in mounts /\ k.what.point = m.what.point /\ m.n \in Nat /\ k.n \in Nat
    BY DEF At, MountTypes, AMount
  <2>2. k.n <= m.n /\ m.n <= k.n
    BY <1>1, <1>2, <2>1 DEF Visible
  <2>3. k.n = m.n
    BY <2>1, <2>2
  <2>4. QED
    BY <2>1, <2>3 DEF Numbered
<1>3. {k \in At(m.what.point) : Visible(k)} = {m}
  BY <1>1, <1>2
<1>4. QED
  BY <1>1, <1>3 DEF Answers, Own

\* An answer is that of a file system, or none.
LEMMA AnswerTypes ==
    ASSUME MountTypes, NEW point
    PROVE  Answers(point) \subseteq AnAnswer
BY MountAssumption DEF Answers, AnAnswer, MountTypes, AMount, At

\* Nothing is mounted at first.
LEMMA MountInitIInv == MountInit => MountIInv
<1> SUFFICES ASSUME MountInit PROVE MountIInv
  OBVIOUS
<1>1. MountTypes
  BY EmptySeq DEF MountInit, MountTypes, AnAnswer
<1>2. Numbered /\ StageFits /\ BeforeLines /\ FsdFits /\ ToCome
  BY DEF MountInit, Numbered, StageFits, BeforeLines, FsdFits, ToCome
<1>3. InOrder(<<>>)
  BY DEF InOrder
<1>4. QED
  BY <1>1, <1>2, <1>3 DEF MountInit, MountIInv

\* The table changes beside the task.
LEMMA TableIInv ==
    ASSUME MountIInv, \/ \E w \in Mountable : Mount(w)
                      \/ \E m \in mounts : Unmount(m)
    PROVE  MountIInv'
<1> USE DEF MountIInv
<1>1. UNCHANGED <<stage, cursor, lines, fsd, disks, systems, unread>>
  BY DEF Mount, Unmount
<1>2. /\ in_place' \subseteq in_place /\ mounted' \in Nat /\ mounted <= mounted'
      /\ mounts' \subseteq AMount
      /\ \A m \in mounts' : m \in mounts \/ (m.n = mounted + 1 /\ mounted' = mounted + 1)
      /\ \A m, k \in mounts' \ mounts : m = k
  <2>1. ASSUME NEW w \in Mountable, Mount(w)
        PROVE  /\ in_place' \subseteq in_place /\ mounted' = mounted + 1
               /\ mounts' = mounts \union {[n |-> mounted + 1, what |-> w]}
    BY <2>1 DEF Mount
  <2>2. ASSUME NEW m \in mounts, Unmount(m)
        PROVE  in_place' \subseteq in_place /\ mounted' = mounted /\ mounts' \subseteq mounts
    BY <2>2 DEF Unmount
  <2>3. CASE \E w \in Mountable : Mount(w)
    BY <2>1, <2>3 DEF MountTypes, AMount
  <2>4. CASE \E m \in mounts : Unmount(m)
    BY <2>2, <2>4 DEF MountTypes
  <2>5. QED
    BY <2>3, <2>4
<1>3. MountTypes'
  BY <1>1, <1>2 DEF MountTypes
<1>4. Numbered'
  <2>1. \A m \in mounts \union lines : m.n \in Nat /\ m.n <= mounted
    BY DEF MountTypes, Numbered, AMount
  <2>2. mounted \in Nat /\ cursor \in Nat
    BY DEF MountTypes
  <2>3. \A m \in mounts' : m.n <= mounted'
    BY <1>2, <2>1, <2>2
  <2>4. ASSUME NEW m \in mounts' \union lines, NEW k \in mounts' \union lines, m.n = k.n
        PROVE  m = k
    <3>1. m \in mounts \union lines \/ (m \in mounts' \ mounts /\ m.n = mounted + 1)
      BY <1>2
    <3>2. k \in mounts \union lines \/ (k \in mounts' \ mounts /\ k.n = mounted + 1)
      BY <1>2
    <3>3. QED
      BY <1>2, <2>1, <2>2, <2>4, <3>1, <3>2 DEF Numbered
  <2>5. QED
    BY <1>1, <1>2, <2>2, <2>3, <2>4 DEF Numbered
<1>5. StageFits' /\ BeforeLines'
  BY <1>1 DEF StageFits, BeforeLines
<1>6. FsdFits'
  BY <1>1, <1>2 DEF FsdFits, IsNext
<1>7. ASSUME NEW m \in in_place'
      PROVE  Visible(m)'
  <2>1. m \in in_place /\ Visible(m) /\ m \in mounts
    BY <1>2 DEF ToCome, Visible
  <2>2. ASSUME NEW w \in Mountable, Mount(w)
        PROVE  Visible(m)'
    <3>1. /\ mounts' = mounts \union {[n |-> mounted + 1, what |-> w]}
          /\ m.what.point # w.point
      BY <2>2 DEF Mount
    <3>2. QED
      BY <2>1, <3>1 DEF Visible, At
  <2>3. ASSUME NEW k \in mounts, Unmount(k)
        PROVE  Visible(m)'
    <3>1. mounts' = mounts \ {k} /\ m # k
      BY <2>3 DEF Unmount
    <3>2. QED
      BY <2>1, <3>1 DEF Visible, At
  <2>4. QED
    BY <2>2, <2>3
<1>8. ToCome'
  BY <1>1, <1>2, <1>7 DEF ToCome, DiskDone, SystemDone
<1>9. QED
  BY <1>1, <1>3, <1>4, <1>5, <1>6, <1>8

\* A line is read.
LEMMA ReadIInv == MountIInv /\ ReadLine => MountIInv'
<1> SUFFICES ASSUME MountIInv, ReadLine PROVE MountIInv'
  OBVIOUS
<1> USE DEF MountIInv
<1>1. PICK m \in mounts : /\ m.n > cursor /\ \A k \in mounts : k.n > cursor => m.n <= k.n
                          /\ cursor' = m.n /\ lines' = lines \union {m}
  BY DEF ReadLine
<1>2. /\ UNCHANGED <<mounts, mounted, stage, fsd, disks, systems, unread, in_place>>
      /\ stage \in {"mounts", "infos"}
  BY DEF ReadLine, table_vars
<1>3. m.n \in Nat /\ cursor \in Nat /\ mounted \in Nat /\ m \in AMount
  BY DEF MountTypes, AMount
<1>4. MountTypes'
  BY <1>1, <1>2, <1>3 DEF MountTypes
<1>5. Numbered'
  <2>1. \A line \in lines : line.n \in Nat /\ line.n <= cursor
    BY DEF MountTypes, Numbered, AMount
  <2>2. \A line \in lines' : line.n <= cursor'
    BY <1>1, <1>3, <2>1
  <2>3. QED
    BY <1>1, <1>2, <2>2 DEF Numbered
<1>6. StageFits' /\ FsdFits'
  BY <1>2 DEF StageFits, FsdFits
<1>7. BeforeLines'
  <2>1. stage = "infos" => \A i \in DOMAIN systems : systems[i].mount.n <= cursor
    BY DEF BeforeLines
  <2>2. \A i \in DOMAIN systems : systems[i].mount.n \in Nat
    BY EntryFacts, ElementOfSeq DEF MountTypes
  <2>3. stage = "infos" => \A i \in DOMAIN systems : systems[i].mount.n < m.n
    BY <1>1, <1>3, <2>1, <2>2
  <2>4. stage = "infos" => \A i \in DOMAIN systems : systems[i].mount.n <= cursor'
    BY <1>1, <1>3, <2>2, <2>3
  <2>5. QED
    BY <1>1, <1>2, <2>3, <2>4 DEF BeforeLines
<1>8. ASSUME NEW k \in in_place, k.n > cursor
      PROVE  k.n > cursor' \/ k \in lines'
  <2>1. k \in mounts /\ k.n \in Nat
    BY DEF ToCome, Visible, MountTypes, AMount
  <2>2. m.n <= k.n
    BY <1>1, <1>8, <2>1
  <2>3. CASE k.n = m.n
    BY <1>1, <2>1, <2>3 DEF Numbered
  <2>4. QED
    BY <1>1, <1>3, <2>1, <2>2, <2>3
<1>9. ToCome'
  BY <1>1, <1>2, <1>8 DEF ToCome, Visible, At, DiskDone, SystemDone
<1>10. QED
  BY <1>2, <1>4, <1>5, <1>6, <1>7, <1>9

\* The tables are opened and closed.
LEMMA OpenIInv ==
    ASSUME MountIInv, OpenMounts \/ CloseMounts \/ OpenMountInfo \/ CloseMountInfo
    PROVE  MountIInv'
<1> USE DEF MountIInv
<1>1. UNCHANGED <<mounts, mounted, lines, fsd, disks, systems>>
  BY DEF OpenMounts, CloseMounts, OpenMountInfo, CloseMountInfo, table_vars
<1>2. MountTypes'
  BY <1>1 DEF MountTypes, OpenMounts, CloseMounts, OpenMountInfo, CloseMountInfo
<1>3. Numbered'
  <2>1. cursor' = cursor \/ (cursor' = 0 /\ lines = {})
    BY DEF OpenMounts, CloseMounts, OpenMountInfo, CloseMountInfo
  <2>2. mounted \in Nat
    BY DEF MountTypes
  <2>3. QED
    BY <1>1, <2>1, <2>2 DEF Numbered
<1>4. StageFits' /\ BeforeLines' /\ FsdFits'
  <2>1. disks = <<>> => DOMAIN disks = {}
    OBVIOUS
  <2>2. systems = <<>> => DOMAIN systems = {}
    OBVIOUS
  <2>3. CASE OpenMounts
    BY <1>1, <2>1, <2>3 DEF OpenMounts, StageFits, BeforeLines, FsdFits
  <2>4. CASE CloseMounts
    BY <1>1, <2>1, <2>4 DEF CloseMounts, StageFits, BeforeLines, FsdFits
  <2>5. CASE OpenMountInfo
    BY <1>1, <2>2, <2>5 DEF OpenMountInfo, StageFits, BeforeLines, FsdFits
  <2>6. CASE CloseMountInfo
    BY <1>1, <2>6 DEF CloseMountInfo, StageFits, BeforeLines, FsdFits
  <2>7. QED
    BY <2>3, <2>4, <2>5, <2>6
<1>5. \A m : /\ Visible(m)' <=> Visible(m)
             /\ DiskDone(m)' <=> DiskDone(m)
             /\ SystemDone(m)' <=> SystemDone(m)
  BY <1>1 DEF Visible, At, DiskDone, SystemDone
<1>6. cursor \in Nat /\ \A m \in mounts : m.n \in Nat \ {0}
  BY DEF MountTypes, AMount
<1>7. ASSUME NEW m \in in_place' PROVE Visible(m) /\ m \in mounts
  <2>1. m \in in_place \/ Visible(m)
    BY DEF OpenMounts, CloseMounts, OpenMountInfo, CloseMountInfo
  <2>2. QED
    BY <2>1 DEF ToCome, Visible
<1>8. ToCome'
  <2> HIDE DEF MountIInv
  <2> USE DEF ToCome
  <2>1. CASE OpenMounts
    <3>1. cursor = 0 /\ cursor' = 0
      BY <2>1 DEF OpenMounts, MountIInv, StageFits
    <3>2. \A m \in in_place' : m \in mounts
      BY <1>7
    <3>3. \A m \in in_place' : m.n > 0
      BY <1>6, <3>2
    <3>4. QED
      BY <1>5, <1>7, <2>1, <3>1, <3>3 DEF OpenMounts
  <2>2. CASE CloseMounts
    <3>1. /\ stage = "mounts" /\ stage' = "disks" /\ in_place' = in_place
          /\ \A m \in mounts : m.n <= cursor
      BY <2>2 DEF CloseMounts, NoMoreLines
    <3>2. \A m \in in_place : m \in lines
      BY <1>6, <1>7, <3>1 DEF MountIInv
    <3>3. QED
      BY <1>1, <1>5, <1>7, <3>1, <3>2
  <2>3. CASE OpenMountInfo
    BY <1>1, <1>5, <1>6, <1>7, <2>3 DEF OpenMountInfo, MountIInv
  <2>4. CASE CloseMountInfo
    BY <1>1, <1>5, <1>6, <1>7, <2>4 DEF CloseMountInfo, NoMoreLines, MountIInv, MountTypes
  <2>5. QED
    BY <2>1, <2>2, <2>3, <2>4
<1>9. QED
  BY <1>1, <1>2, <1>3, <1>4, <1>8

\* What handling the next line leaves as it is, and before the lines that are
\* left.
LEMMA LineHandled ==
    ASSUME MountIInv, NEW line \in lines, IsNext(line), lines' = lines \ {line},
           UNCHANGED <<table_vars, cursor, unread, in_place>>
    PROVE  /\ Numbered' /\ lines' \subseteq AMount
           /\ line \in AMount
           /\ \A k \in lines' : line.n < k.n /\ k.n \in Nat
           /\ \A m : Visible(m)' <=> Visible(m)
           /\ \A m \in in_place : m # line => (m \in lines' <=> m \in lines)
<1>1. MountTypes /\ Numbered
  BY DEF MountIInv
<1>2. ASSUME NEW k \in lines' PROVE line.n < k.n /\ k.n \in Nat
  <2>1. k \in lines /\ k # line /\ k.n \in Nat /\ line.n \in Nat
    BY <1>1 DEF MountTypes, AMount
  <2>2. line.n <= k.n /\ line.n # k.n
    BY <1>1, <2>1 DEF IsNext, Numbered
  <2>3. QED
    BY <2>1, <2>2
<1>3. Numbered'
  BY <1>1 DEF Numbered, table_vars
<1>4. \A m : Visible(m)' <=> Visible(m)
  BY DEF Visible, At, table_vars
<1>5. QED
  BY <1>1, <1>2, <1>3, <1>4 DEF MountTypes

\* A disk is asked for.
LEMMA DiskIInv ==
    ASSUME MountIInv, NEW line \in lines, Disk(line)
    PROVE  MountIInv'
<1>1. /\ stage = "disks" /\ IsNext(line) /\ lines' = lines \ {line}
      /\ UNCHANGED <<table_vars, stage, cursor, fsd, systems, unread, in_place>>
      /\ UNCHANGED <<mounts, mounted>>
  BY DEF Disk, Remaining, table_vars
<1>2. MountTypes /\ Numbered /\ StageFits /\ BeforeLines /\ ToCome /\ InOrder(disks)
      /\ InOrder(systems)
  BY DEF MountIInv
<1>3. /\ Numbered' /\ lines' \subseteq AMount /\ line \in AMount
      /\ \A k \in lines' : line.n < k.n /\ k.n \in Nat
      /\ \A m : Visible(m)' <=> Visible(m)
      /\ \A m \in in_place : m # line => (m \in lines' <=> m \in lines)
  BY <1>1, LineHandled
<1>4. \A i \in DOMAIN disks : disks[i].mount.n < line.n
  BY <1>1, <1>2 DEF BeforeLines
<1>5. line \in in_place => Answers(line.what.point) = {Own(line)}
  BY <1>2, OwnAnswer DEF ToCome, Visible
<1>6. line.n \in Nat
  BY <1>3 DEF AMount
<1>7. \A e \in DiskEntry : e.mount.n \in Nat
  BY EntryFacts
<1>8. disks \in Seq(DiskEntry)
  BY <1>2 DEF MountTypes
<1>9. /\ disks' \in Seq(DiskEntry) /\ InOrder(disks')
      /\ \A k \in lines' : \A i \in DOMAIN disks' : disks'[i].mount.n < k.n
      /\ \A m \in in_place : m # line => EntriesOf(m, disks') = EntriesOf(m, disks)
      /\ line \in in_place => DiskDone(line)'
  <2>1. EntriesOf(line, disks) = {}
    <3>1. \A i \in DOMAIN disks : disks[i].mount # line
      BY <1>3, <1>4, <1>6
    <3>2. QED
      BY <3>1 DEF EntriesOf, ToSet
  <2>2. CASE disks' = disks /\ ~ (IsDisk(line.what) /\ NoNumbers \notin Answers(line.what.point))
    <3>1. \A i \in DOMAIN disks : disks[i].mount.n \in Nat
      BY <1>7, <1>8, ElementOfSeq
    <3>2. \A k \in lines' : \A i \in DOMAIN disks : disks[i].mount.n < k.n
      BY <1>3, <1>4, <1>6, <3>1
    <3>3. line \in in_place => ~ (IsDisk(line.what) /\ Own(line) # NoNumbers)
      BY <1>5, <2>2
    <3>4. line \in in_place => DiskDone(line)'
      BY <2>1, <2>2, <3>3 DEF DiskDone, Own
    <3>5. QED
      BY <1>2, <1>8, <2>2, <3>2, <3>4
  <2>3. CASE /\ IsDisk(line.what)
             /\ \E st \in Answers(line.what.point) \ {NoNumbers} :
                   disks' = Append(disks, DiskInfo(line, st))
    <3>1. PICK st \in Answers(line.what.point) \ {NoNumbers} :
             disks' = Append(disks, DiskInfo(line, st))
      BY <2>3
    <3> DEFINE entry == DiskInfo(line, st)
    <3>2. entry \in DiskEntry /\ entry.mount = line
      BY <1>2, <1>3, AnswerTypes, EntryFacts DEF DiskEntry
    <3> HIDE DEF entry
    <3>3. /\ disks' \in Seq(DiskEntry) /\ InOrder(disks')
          /\ \A k \in Nat : line.n < k => \A i \in DOMAIN disks' : disks'[i].mount.n < k
          /\ \A m : EntriesOf(m, disks') = EntriesOf(m, disks) \union {e \in {entry} : e.mount = m}
      BY <1>2, <1>4, <1>7, <1>8, <3>1, <3>2, AtTheEnd DEF entry
    <3>4. EntriesOf(line, disks') = {entry}
      BY <2>1, <3>2, <3>3
    <3>5. line \in in_place => DiskDone(line)'
      <4>1. line \in in_place => st = Own(line) /\ Own(line) # NoNumbers
        BY <1>5, <3>1
      <4>2. QED
        BY <2>3, <3>4, <4>1 DEF DiskDone, Own, entry
    <3>6. \A m \in in_place : m # line => EntriesOf(m, disks') = EntriesOf(m, disks)
      BY <3>2, <3>3
    <3>7. QED
      BY <1>3, <3>3, <3>5, <3>6
  <2>4. QED
    BY <2>2, <2>3 DEF Disk
<1>10. MountTypes'
  BY <1>1, <1>2, <1>3, <1>9 DEF MountTypes
<1>11. StageFits' /\ BeforeLines' /\ FsdFits'
  BY <1>1, <1>2, <1>9 DEF StageFits, BeforeLines, FsdFits
<1>12. ToCome'
  <2> SUFFICES ASSUME NEW m \in in_place
               PROVE  /\ Visible(m)
                      /\ "disks" \notin unread => m \in lines' \/ DiskDone(m)'
    BY <1>1, <1>3 DEF ToCome
  <2>1. Visible(m) /\ ("disks" \notin unread => m \in lines \/ DiskDone(m))
    BY <1>1, <1>2 DEF ToCome
  <2>2. CASE m = line
    BY <1>9, <2>1, <2>2
  <2>3. CASE m # line
    BY <1>3, <1>9, <2>1, <2>3 DEF DiskDone, Own
  <2>4. QED
    BY <2>2, <2>3
<1>13. QED
  BY <1>1, <1>2, <1>3, <1>9, <1>10, <1>11, <1>12 DEF MountIInv

\* A file system is asked for its numbers.
LEMMA StatfsIInv ==
    ASSUME MountIInv, NEW line \in lines, Statfs(line)
    PROVE  MountIInv'
<1>1. /\ stage = "infos" /\ IsNext(line)
      /\ UNCHANGED <<table_vars, cursor, disks, systems, unread, in_place>>
      /\ UNCHANGED <<mounts, mounted>>
  BY DEF Statfs, table_vars
<1>2. MountTypes /\ Numbered /\ StageFits /\ BeforeLines /\ ToCome /\ InOrder(disks)
      /\ InOrder(systems)
  BY DEF MountIInv
<1>3. line \in in_place => Answers(line.what.point) = {Own(line)}
  BY <1>2, OwnAnswer DEF ToCome, Visible
<1>4. /\ \A m : DiskDone(m)' <=> DiskDone(m)
      /\ \A m : SystemDone(m)' <=> SystemDone(m)
      /\ \A m : Visible(m)' <=> Visible(m)
  BY <1>1 DEF DiskDone, SystemDone, Visible, At
<1>5. CASE /\ lines' = lines \ {line} /\ stage' = stage /\ fsd' = fsd
           /\ IsFileSystem(line.what) =>
                 \E st \in Answers(line.what.point) : ~HasBlocks(st)
  <2>1. /\ Numbered' /\ lines' \subseteq AMount
        /\ \A m \in in_place : m # line => (m \in lines' <=> m \in lines)
    BY <1>1, <1>5, LineHandled
  <2>2. line \in in_place => SystemDone(line)
    <3>1. line \in in_place => ~ (IsFileSystem(line.what) /\ HasBlocks(Own(line)))
      BY <1>3, <1>5
    <3>2. \A i \in DOMAIN systems : systems[i].mount.n < line.n
      BY <1>1, <1>2 DEF BeforeLines
    <3>3. line.n \in Nat
      BY <1>2 DEF MountTypes, AMount
    <3>4. \A i \in DOMAIN systems : systems[i].mount # line
      BY <3>2, <3>3
    <3>5. EntriesOf(line, systems) = {}
      BY <3>4 DEF EntriesOf, ToSet
    <3>6. QED
      BY <3>1, <3>5 DEF SystemDone
  <2>3. MountTypes'
    BY <1>1, <1>2, <1>5, <2>1 DEF MountTypes
  <2>4. StageFits' /\ BeforeLines' /\ FsdFits'
    BY <1>1, <1>2, <1>5 DEF StageFits, BeforeLines, FsdFits
  <2>5. ToCome'
    <3> SUFFICES ASSUME NEW m \in in_place
                 PROVE  /\ Visible(m)
                        /\ "disks" \notin unread => DiskDone(m)
                        /\ m.n > cursor \/ m \in lines' \/ SystemDone(m)
      BY <1>1, <1>4, <1>5 DEF ToCome
    <3>1. /\ Visible(m) /\ ("disks" \notin unread => DiskDone(m))
          /\ m.n > cursor \/ m \in lines \/ SystemDone(m)
      BY <1>1, <1>2 DEF ToCome
    <3>2. QED
      BY <2>1, <2>2, <3>1
  <2>6. QED
    BY <1>1, <1>2, <2>1, <2>3, <2>4, <2>5 DEF MountIInv
<1>6. CASE /\ lines' = lines /\ stage' = "stat" /\ IsFileSystem(line.what)
           /\ fsd' \in Answers(line.what.point) /\ HasBlocks(fsd')
  <2>1. MountTypes'
    BY <1>1, <1>2, <1>6, AnswerTypes DEF MountTypes
  <2>2. Numbered' /\ StageFits' /\ BeforeLines'
    BY <1>1, <1>2, <1>6 DEF Numbered, StageFits, BeforeLines
  <2>3. FsdFits'
    <3>1. ASSUME NEW l \in lines, IsNext(l) PROVE l = line
      <4>1. l.n \in Nat /\ line.n \in Nat /\ l.n <= line.n /\ line.n <= l.n
        BY <1>1, <1>2, <3>1 DEF IsNext, MountTypes, AMount
      <4>2. QED
        BY <1>2, <4>1 DEF Numbered
    <3>2. \A l : IsNext(l)' <=> IsNext(l)
      BY <1>6 DEF IsNext
    <3>3. line \in in_place => fsd' = Own(line)
      BY <1>3, <1>6
    <3>4. in_place' = in_place
      BY <1>1
    <3>5. QED
      BY <1>6, <3>1, <3>2, <3>3, <3>4 DEF FsdFits
  <2>4. ToCome'
    BY <1>1, <1>2, <1>4, <1>6 DEF ToCome
  <2>5. QED
    BY <1>1, <1>2, <2>1, <2>2, <2>3, <2>4 DEF MountIInv
<1>7. QED
  BY <1>5, <1>6 DEF Statfs, Remaining

\* And for its device.
LEMMA StatIInv ==
    ASSUME MountIInv, NEW line \in lines, Stat(line)
    PROVE  MountIInv'
<1>1. /\ stage = "stat" /\ stage' = "infos" /\ IsNext(line) /\ lines' = lines \ {line}
      /\ UNCHANGED <<table_vars, cursor, fsd, disks, unread, in_place>>
      /\ UNCHANGED <<mounts, mounted>>
  BY DEF Stat, Remaining, table_vars
<1>2. MountTypes /\ Numbered /\ StageFits /\ BeforeLines /\ FsdFits /\ ToCome /\ InOrder(disks)
      /\ InOrder(systems)
  BY DEF MountIInv
<1>3. /\ Numbered' /\ lines' \subseteq AMount /\ line \in AMount
      /\ \A k \in lines' : line.n < k.n /\ k.n \in Nat
      /\ \A m : Visible(m)' <=> Visible(m)
      /\ \A m \in in_place : m # line => (m \in lines' <=> m \in lines)
  BY <1>1, LineHandled
<1>4. /\ \A i \in DOMAIN systems : systems[i].mount.n < line.n
      /\ \A i \in DOMAIN systems : systems[i].mount.n <= cursor
  BY <1>1, <1>2 DEF BeforeLines
<1>5. line \in in_place => Answers(line.what.point) = {Own(line)}
  BY <1>2, OwnAnswer DEF ToCome, Visible
<1>6. line.n \in Nat /\ cursor \in Nat /\ line.n <= cursor
  BY <1>2, <1>3 DEF AMount, MountTypes, Numbered
<1>7. /\ IsFileSystem(line.what) /\ HasBlocks(fsd)
      /\ line \in in_place => fsd = Own(line)
  BY <1>1, <1>2 DEF FsdFits
<1>8. \A e \in SystemEntry : e.mount.n \in Nat
  BY EntryFacts
<1>9. systems \in Seq(SystemEntry) /\ fsd \in AnAnswer
  BY <1>2 DEF MountTypes
<1>10. /\ systems' \in Seq(SystemEntry) /\ InOrder(systems')
       /\ \A k \in lines' : \A i \in DOMAIN systems' : systems'[i].mount.n < k.n
       /\ \A i \in DOMAIN systems' : systems'[i].mount.n <= cursor
       /\ \A m \in in_place : m # line => EntriesOf(m, systems') = EntriesOf(m, systems)
       /\ line \in in_place => SystemDone(line)'
  <2>1. CASE systems' = systems /\ NoNumbers \in Answers(line.what.point)
    <3>1. line \notin in_place
      BY <1>5, <1>7, <2>1 DEF HasBlocks
    <3>2. \A i \in DOMAIN systems : systems[i].mount.n \in Nat
      BY <1>8, <1>9, ElementOfSeq
    <3>3. \A k \in lines' : \A i \in DOMAIN systems : systems[i].mount.n < k.n
      BY <1>3, <1>4, <1>6, <3>2
    <3>4. QED
      BY <1>2, <1>4, <1>9, <2>1, <3>1, <3>3
  <2>2. CASE systems' = Append(systems, FileSystemInfo(line, fsd))
    <3> DEFINE entry == FileSystemInfo(line, fsd)
    <3>1. entry \in SystemEntry /\ entry.mount = line
      BY <1>3, <1>9, EntryFacts DEF SystemEntry
    <3> HIDE DEF entry
    <3>2. /\ systems' \in Seq(SystemEntry) /\ InOrder(systems')
          /\ \A k \in Nat : line.n < k => \A i \in DOMAIN systems' : systems'[i].mount.n < k
          /\ \A m : EntriesOf(m, systems') =
                       EntriesOf(m, systems) \union {e \in {entry} : e.mount = m}
      BY <1>2, <1>4, <1>8, <1>9, <2>2, <3>1, AtTheEnd DEF entry
    <3>3. EntriesOf(line, systems') = {entry}
      <4>1. \A i \in DOMAIN systems : systems[i].mount # line
        BY <1>4, <1>6
      <4>2. EntriesOf(line, systems) = {}
        BY <4>1 DEF EntriesOf, ToSet
      <4>3. QED
        BY <3>1, <3>2, <4>2
    <3>4. line \in in_place => SystemDone(line)'
      BY <1>7, <3>3 DEF SystemDone, Own, entry
    <3>5. \A m \in in_place : m # line => EntriesOf(m, systems') = EntriesOf(m, systems)
      BY <3>1, <3>2
    <3>6. \A i \in DOMAIN systems' : systems'[i].mount.n <= cursor
      <4>1. \A i \in DOMAIN systems' : systems'[i].mount.n < cursor + 1
        BY <1>6, <3>2
      <4>2. \A i \in DOMAIN systems' : systems'[i].mount.n \in Nat
        BY <1>8, <3>2, ElementOfSeq
      <4>3. QED
        BY <1>6, <4>1, <4>2
    <3>7. QED
      BY <1>3, <3>2, <3>4, <3>5, <3>6
  <2>3. QED
    BY <2>1, <2>2 DEF Stat
<1>11. MountTypes'
  BY <1>1, <1>2, <1>3, <1>10 DEF MountTypes
<1>12. StageFits' /\ BeforeLines' /\ FsdFits'
  BY <1>1, <1>2, <1>10 DEF StageFits, BeforeLines, FsdFits
<1>13. ToCome'
  <2> SUFFICES ASSUME NEW m \in in_place
               PROVE  /\ Visible(m)
                      /\ "disks" \notin unread => DiskDone(m)
                      /\ m.n > cursor \/ m \in lines' \/ SystemDone(m)'
    BY <1>1, <1>3 DEF ToCome, DiskDone
  <2>1. /\ Visible(m) /\ ("disks" \notin unread => DiskDone(m))
        /\ m.n > cursor \/ m \in lines \/ SystemDone(m)
    BY <1>1, <1>2 DEF ToCome
  <2>2. CASE m = line
    BY <1>10, <2>1, <2>2
  <2>3. CASE m # line
    BY <1>3, <1>10, <2>1, <2>3 DEF SystemDone, Own
  <2>4. QED
    BY <2>2, <2>3
<1>14. QED
  BY <1>1, <1>2, <1>3, <1>10, <1>11, <1>12, <1>13 DEF MountIInv

\* Every step keeps the invariant of the mounts.
LEMMA MountNextIInv == MountIInv /\ [MountNext]_mount_vars => MountIInv'
<1> SUFFICES ASSUME MountIInv, [MountNext]_mount_vars PROVE MountIInv'
  OBVIOUS
<1>1. CASE UNCHANGED mount_vars
  BY <1>1 DEF mount_vars, table_vars, MountIInv, MountTypes, Numbered, StageFits, BeforeLines,
              FsdFits, IsNext, ToCome, Visible, At, DiskDone, SystemDone
<1>2. CASE (\E w \in Mountable : Mount(w)) \/ (\E m \in mounts : Unmount(m))
  BY <1>2, TableIInv
<1>3. CASE ReadLine
  BY <1>3, ReadIInv
<1>4. CASE OpenMounts \/ CloseMounts \/ OpenMountInfo \/ CloseMountInfo
  BY <1>4, OpenIInv
<1>5. CASE \E line \in lines : Disk(line) \/ Statfs(line) \/ Stat(line)
  BY <1>5, DiskIInv, StatfsIInv, StatIInv
<1>6. QED
  BY <1>1, <1>2, <1>3, <1>4, <1>5 DEF MountNext

\* Whatever is mounted and unmounted while the report is made, and whichever
\* mount cannot be asked: the lists are in order, and a mount that stays in
\* place is in those it belongs to, once and with its own numbers
\* (DiskCollector, FsCollector, ReadFileSystemList).
THEOREM MountsReported == MountSpec => []MountsInv
<1>1. MountIInv => MountsInv
  BY DEF MountIInv, MountsInv, InPlaceReported, ToCome, DiskDone, SystemDone
<1>2. QED
  BY <1>1, MountInitIInv, MountNextIInv, PTL DEF MountSpec
=============================================================================
