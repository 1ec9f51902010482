------------------------ MODULE NetworkCollectorProofs ------------------------
(***************************************************************************)
(* For any number of interfaces, any width of the counters and however the *)
(* kernel changes between two steps of a run: the rates that are reported  *)
(* do not wrap, and those of a sole interface are over its own interval.   *)
(***************************************************************************)
EXTENDS NetworkCollector, Integers, TLAPS

\* The counters that are stored as they are measured.
Faithful == Counter \ {"tx_bytes"}

\* While an interface is not created again its counters only grow: the kernel
\* is ahead of what was parsed, which is ahead of what was stored.
Grows ==
    \A i \in Interface \ recreated :
       /\ \A d \in Direction : stats[i][d] <= traffic[i][d]
       /\ i \in DOMAIN caches =>
            \A c \in Faithful : /\ caches[i].total[c] <= stats[i][Measured(c)]
                                /\ caches[i].rate[c] <= caches[i].total[c]

\* The uptime that the next load is measured from is that of the last load of a
\* sole interface.
SoleClock ==
    \A i \in Interface :
       DOMAIN caches \subseteq {i} /\ UptimeRead = {TRUE} =>
          uptime_cs[1 - cur] = loads[i].at /\ loads[i].exact

IInv == TypeOK /\ Grows /\ SoleClock

-----------------------------------------------------------------------------
(* The arithmetic of a load.                                               *)

\* A quotient is not more than what is divided.
LEMMA Quotient ==
    ASSUME NEW a \in Nat, NEW b \in Nat \ {0}
    PROVE  a \div b \in 0..a
<1>. DEFINE q == a \div b
<1>1. q \in Int /\ b * q <= a /\ a < b * q + b
  OBVIOUS
<1>2. q >= 0
  OBVIOUS
<1>3. q <= b * q
  BY <1>1, <1>2
<1>4. QED
  BY <1>1, <1>2, <1>3

\* A difference of two words is a word, and exact if there is no borrow.
LEMMA Difference ==
    ASSUME NEW a \in 0..(Word-1), NEW b \in 0..(Word-1)
    PROVE  /\ Minus(a, b) \in 0..(Word-1)
           /\ b <= a => Minus(a, b) \in 0..a
           /\ a # b => Minus(a, b) # 0
  BY CollectorAssumption DEF Minus

LEMMA IntervalPositive ==
    ASSUME NEW p \in 0..MaxTime, NEW c \in 0..MaxTime
    PROVE  Interval(p, c) \in Nat \ {0}
<1>1. p \in 0..(Word-1) /\ c \in 0..(Word-1)
  BY CollectorAssumption
<1>2. QED
  BY <1>1, Difference DEF Interval

\* What a load stores of an interface.
LEMMA LoadedOf ==
    ASSUME IInv, NEW i \in Interface, NEW itv \in Nat \ {0}
    PROVE  /\ Loaded(i, itv) \in [total : [Counter -> 0..MaxCount],
                                  rate  : [Counter -> 0..Word-1]]
           /\ \A c \in Faithful : Loaded(i, itv).total[c] = stats[i][Measured(c)]
           /\ i \notin recreated => \A c \in Faithful :
                 Loaded(i, itv).rate[c] <= Loaded(i, itv).total[c]
<1>1. \A c \in Counter : Stored(c) \in Direction /\ Measured(c) \in Direction
  BY DEF Stored, Measured, Counter, Direction
<1>2. \A c \in Counter : /\ stats[i][Stored(c)] \in 0..MaxCount
                        /\ stats[i][Measured(c)] \in 0..MaxCount
  BY <1>1 DEF IInv, TypeOK
<1>3. \A c \in Counter : Total(i, c) \in 0..MaxCount
  BY CollectorAssumption DEF IInv, TypeOK, Total
<1>4. 0..MaxCount \subseteq 0..(Word-1)
  BY CollectorAssumption
<1>5. ASSUME NEW c \in Counter
      PROVE  Minus(stats[i][Measured(c)], Total(i, c)) \div itv \in 0..(Word-1)
  <2>1. Minus(stats[i][Measured(c)], Total(i, c)) \in 0..(Word-1)
    BY <1>2, <1>3, <1>4, Difference
  <2>2. QED
    BY <2>1, Quotient, CollectorAssumption
<1>6. ASSUME NEW c \in Faithful, i \notin recreated
      PROVE  Minus(stats[i][Measured(c)], Total(i, c)) \div itv <= stats[i][Measured(c)]
  <2>1. Total(i, c) <= stats[i][Measured(c)]
    BY <1>2, <1>6 DEF IInv, Grows, Total, Faithful
  <2>2. Minus(stats[i][Measured(c)], Total(i, c)) \in 0..stats[i][Measured(c)]
    BY <1>2, <1>3, <1>4, <2>1, Difference DEF Faithful
  <2>3. Minus(stats[i][Measured(c)], Total(i, c)) \div itv
            \in 0..Minus(stats[i][Measured(c)], Total(i, c))
    BY <1>2, <2>2, Quotient DEF Faithful
  <2>4. QED
    BY <1>2, <2>2, <2>3 DEF Faithful
<1>7. \A c \in Faithful : Stored(c) = Measured(c)
  BY DEF Faithful, Counter, Stored, Measured
<1>8. QED
  BY <1>2, <1>5, <1>6, <1>7 DEF Loaded, Faithful

-----------------------------------------------------------------------------

LEMMA InitInv == ASSUME Init PROVE IInv
<1>. USE CollectorAssumption DEF Init, Zero, Direction
<1>1. TypeOK
  BY DEF TypeOK
<1>2. Grows
  BY DEF Grows
<1>3. SoleClock
  BY DEF SoleClock
<1>4. QED
  BY <1>1, <1>2, <1>3 DEF IInv

\* The kernel changes nothing but its own state.
LEMMA KernelStep ==
    ASSUME IInv,
           \/ Tick
           \/ \E i \in Interface : Change(i) \/ \E d \in Direction : Transfer(i, d)
    PROVE  IInv'
<1>. USE DEF IInv, storage
<1>1. CASE Tick
  <2>1. TypeOK'
    BY <1>1, CollectorAssumption DEF TypeOK, Tick
  <2>2. Grows' /\ SoleClock'
    BY <1>1 DEF Grows, SoleClock, Tick
  <2>3. QED
    BY <2>1, <2>2
<1>2. ASSUME NEW i \in Interface, Change(i) PROVE IInv'
  <2>1. TypeOK'
    <3>1. traffic' \in [Interface -> [Direction -> 0..MaxCount]]
      <4>1. Zero \in [Direction -> 0..MaxCount]
        BY CollectorAssumption DEF Zero
      <4>2. traffic' = traffic \/ traffic' = [traffic EXCEPT ![i] = Zero]
        BY <1>2 DEF Change
      <4>3. traffic \in [Interface -> [Direction -> 0..MaxCount]]
        BY DEF TypeOK
      <4>4. QED
        BY ONLY <4>1, <4>2, <4>3
    <3>2. changes' \in 0..MaxChanges
      BY <1>2, CollectorAssumption DEF TypeOK, Change
    <3>3. link' \in [Interface -> Link]
      BY <1>2 DEF TypeOK, Change
    <3>4. recreated' \subseteq Interface
      BY <1>2 DEF TypeOK, Change
    <3>5. UNCHANGED <<now, int_list, stats, todo, listed, caches, uptime_cs, cur, loads>>
      BY <1>2 DEF Change
    <3>6. QED
      BY <3>1, <3>2, <3>3, <3>4, <3>5 DEF TypeOK
  <2>2. Grows'
    <3>1. /\ recreated \subseteq recreated'
          /\ \A j \in Interface \ recreated' : traffic'[j] = traffic[j]
      BY <1>2 DEF TypeOK, Change
    <3>2. UNCHANGED <<stats, caches>>
      BY <1>2 DEF Change
    <3>3. QED
      BY <3>1, <3>2 DEF Grows
  <2>3. SoleClock'
    BY <1>2 DEF SoleClock, Change
  <2>4. QED
    BY <2>1, <2>2, <2>3
<1>3. ASSUME NEW i \in Interface, NEW d \in Direction, Transfer(i, d) PROVE IInv'
  <2>1. TypeOK'
    BY <1>3, CollectorAssumption DEF TypeOK, Transfer
  <2>2. Grows'
    <3>1. /\ recreated' = recreated
          /\ \A j \in Interface : \A e \in Direction :
               traffic[j][e] \in Nat /\ traffic'[j][e] >= traffic[j][e]
      BY <1>3, CollectorAssumption DEF TypeOK, Transfer
    <3>2. \A j \in Interface : \A e \in Direction : traffic'[j][e] \in Nat /\ stats[j][e] \in Nat
      BY <2>1, CollectorAssumption DEF TypeOK
    <3>3. UNCHANGED <<stats, caches>>
      BY <1>3 DEF Transfer
    <3>4. QED
      BY <3>1, <3>2, <3>3 DEF Grows
  <2>3. SoleClock'
    BY <1>3 DEF SoleClock, Transfer
  <2>4. QED
    BY <2>1, <2>2, <2>3
<1>4. QED
  BY <1>1, <1>2, <1>3

\* The read of the interfaces copies counters that have grown.
LEMMA RunStep == ASSUME IInv, Run PROVE IInv'
<1>. USE DEF IInv, storage, kernel
<1>1. CASE ReadFails
  BY <1>1 DEF ReadFails, TypeOK, Grows, SoleClock
<1>2. CASE ReadConfig
  <2>1. /\ int_list \subseteq int_list' /\ int_list' \subseteq Interface
        /\ todo' = int_list' /\ listed' = {}
    BY <1>2 DEF ReadConfig, Present, TypeOK
  <2>2. QED
    BY <1>2, <2>1 DEF ReadConfig, TypeOK, Grows, SoleClock
<1>3. CASE ReadProc
  <2>1. TypeOK'
    BY <1>3 DEF ReadProc, TypeOK, Present
  <2>2. \A c \in Faithful : Measured(c) \in Direction
    BY DEF Measured, Faithful, Counter, Direction
  <2>3. Grows'
    <3>1. SUFFICES ASSUME NEW i \in Interface, i \notin recreated
                   PROVE  /\ \A d \in Direction : stats'[i][d] <= traffic[i][d]
                          /\ i \in DOMAIN caches =>
                               \A c \in Faithful : caches[i].total[c] <= stats'[i][Measured(c)]
      BY <1>3 DEF ReadProc, Grows
    <3>2. \A d \in Direction : /\ traffic[i][d] \in Nat /\ stats[i][d] \in Nat
                               /\ stats[i][d] <= traffic[i][d]
      BY <3>1, CollectorAssumption DEF TypeOK, Grows
    <3>3. stats'[i] = traffic[i] \/ stats'[i] = stats[i]
      BY <1>3 DEF ReadProc
    <3>4. i \in DOMAIN caches => \A c \in Faithful : caches[i].total[c] \in Nat
      BY CollectorAssumption DEF TypeOK, Faithful
    <3>5. QED
      BY <2>2, <3>1, <3>2, <3>3, <3>4 DEF Grows
  <2>4. SoleClock'
    BY <1>3 DEF ReadProc, SoleClock
  <2>5. QED
    BY <2>1, <2>3, <2>4
<1>4. QED
  BY <1>1, <1>2, <1>3 DEF Run

\* The visit of an interface.
LEMMA VisitStep == ASSUME IInv, NEW i \in Interface, Visit(i) PROVE IInv'
<1>. USE DEF IInv, storage, kernel
<1>1. CASE VisitGone(i)
  BY <1>1 DEF VisitGone, TypeOK, Grows, SoleClock
<1>2. CASE VisitDown(i)
  BY <1>2 DEF VisitDown, TypeOK, Grows, SoleClock
<1>3. CASE VisitUp(i)
  <2>1. PICK read \in UptimeRead :
           LET uptime == IF read THEN [uptime_cs EXCEPT ![cur] = now] ELSE uptime_cs
               itv    == Interval(uptime[1 - cur], uptime[cur])
           IN  /\ uptime_cs' = uptime /\ cur' = 1 - cur
               /\ caches' = [j \in DOMAIN caches \union {i} |->
                               IF j = i THEN Loaded(i, itv) ELSE caches[j]]
               /\ loads' = [loads EXCEPT ![i] =
                    [at |-> now, exact |-> itv = Interval(@.at, now)]]
    BY <1>3 DEF VisitUp, Load
  <2>. DEFINE itv == Interval(uptime_cs'[1 - cur], uptime_cs'[cur])
  <2>2. /\ uptime_cs' \in [0..1 -> 0..MaxTime]
        /\ cur \in 0..1 /\ 1 - cur \in 0..1 /\ cur' = 1 - cur
    BY <2>1 DEF TypeOK
  <2>3. itv \in Nat \ {0}
    BY <2>2, IntervalPositive
  <2>4. caches' = [j \in DOMAIN caches \union {i} |->
                     IF j = i THEN Loaded(i, itv) ELSE caches[j]]
    BY <2>1
  <2>5. loads' = [loads EXCEPT ![i] = [at |-> now, exact |-> itv = Interval(loads[i].at, now)]]
    BY <2>1
  <2>. HIDE DEF itv
  <2>6. /\ i \in todo /\ todo' = todo \ {i} /\ listed' = listed \union {i}
        /\ UNCHANGED <<kernel, int_list, stats>>
    BY <1>3 DEF VisitUp, Turn
  <2>7. DOMAIN caches' = DOMAIN caches \union {i} /\ caches'[i] = Loaded(i, itv)
        /\ \A j \in DOMAIN caches : j # i => caches'[j] = caches[j]
    BY <2>4
  <2>8. TypeOK'
    <3>1. \A j \in DOMAIN caches' : caches'[j] \in [total : [Counter -> 0..MaxCount],
                                                   rate  : [Counter -> 0..Word-1]]
      BY <2>3, <2>7, LoadedOf DEF TypeOK
    <3>2. loads' \in [Interface -> [at : 0..MaxTime, exact : BOOLEAN]]
      BY <2>5 DEF TypeOK
    <3>3. /\ todo' \subseteq int_list' /\ listed' \subseteq DOMAIN caches'
          /\ DOMAIN caches' \subseteq int_list'
      BY <2>6, <2>7 DEF TypeOK
    <3>4. QED
      BY <2>2, <2>6, <3>1, <3>2, <3>3 DEF TypeOK
  <2>9. Grows'
    <3>1. ASSUME NEW j \in Interface \ recreated, NEW c \in Faithful, j \in DOMAIN caches'
          PROVE  /\ caches'[j].total[c] <= stats[j][Measured(c)]
                 /\ caches'[j].rate[c] <= caches'[j].total[c]
      <4>1. CASE j = i
        <5>1. stats[i][Measured(c)] \in Nat
          BY CollectorAssumption DEF TypeOK, Measured, Direction
        <5>2. QED
          BY <2>3, <2>7, <4>1, <5>1, LoadedOf
      <4>2. CASE j # i
        BY <2>7, <3>1, <4>2 DEF Grows
      <4>3. QED
        BY <4>1, <4>2
    <3>2. QED
      BY <2>6, <3>1 DEF Grows
  <2>10. SoleClock'
    <3>1. SUFFICES ASSUME NEW j \in Interface, DOMAIN caches' \subseteq {j}, UptimeRead = {TRUE}
                   PROVE  uptime_cs'[1 - cur'] = loads'[j].at /\ loads'[j].exact
      BY DEF SoleClock
    <3>2. j = i /\ DOMAIN caches \subseteq {i} /\ read = TRUE
      BY <2>7, <3>1
    <3>3. uptime_cs' = [uptime_cs EXCEPT ![cur] = now]
      BY <2>1, <3>2
    <3>4. uptime_cs'[cur] = now /\ uptime_cs'[1 - cur] = uptime_cs[1 - cur] /\ 1 - cur' = cur
      BY <2>2, <3>3 DEF TypeOK
    <3>5. uptime_cs[1 - cur] = loads[i].at
      BY <3>1, <3>2 DEF SoleClock
    <3>6. itv = Interval(loads[i].at, now)
      BY <3>4, <3>5 DEF itv
    <3>7. loads'[i] = [at |-> now, exact |-> TRUE]
      BY <2>5, <3>6 DEF TypeOK
    <3>8. QED
      BY <3>2, <3>4, <3>7
  <2>11. QED
    BY <2>8, <2>9, <2>10
<1>4. QED
  BY <1>1, <1>2, <1>3 DEF Visit

LEMMA Inductive == Spec => []IInv
<1>1. ASSUME IInv, [Next]_vars PROVE IInv'
  <2>1. CASE Next
    BY <1>1, <2>1, KernelStep, RunStep, VisitStep DEF Next
  <2>2. CASE UNCHANGED vars
    BY <1>1, <2>2 DEF vars, kernel, storage, IInv, TypeOK, Grows, SoleClock
  <2>3. QED
    BY <1>1, <2>1, <2>2
<1>2. QED
  BY <1>1, InitInv, PTL DEF Spec

\* The counters and the rates of the interfaces are well typed; no rate of the
\* packets and bytes received, or of the packets transmitted, wraps for an
\* interface that was not created again; and those of a sole interface are over
\* its own interval, for every number of interfaces and every width.  The rate of
\* the bytes transmitted is left out and does wrap: its counter is overwritten
\* (cache_storage.cc:39).
THEOREM RatesCorrect == Spec => []RateInv
<1>1. IInv => RateInv
  <2>. SUFFICES ASSUME IInv PROVE RateInv
    OBVIOUS
  <2>1. NoWrap
    BY DEF IInv, TypeOK, Grows, NoWrap, Reported, Faithful
  <2>2. IntervalOfSole
    BY DEF IInv, SoleClock, IntervalOfSole
  <2>3. QED
    BY <2>1, <2>2 DEF IInv, RateInv
<1>2. QED
  BY <1>1, Inductive, PTL
=============================================================================
