---------------------------- MODULE IostatProofs ----------------------------
(***************************************************************************)
(* For every number of devices and every width of the counters, what the   *)
(* disk statistics publish, and what a callback reads while a scan runs,   *)
(* is of one scan and of exactly the devices it found active.              *)
(***************************************************************************)
EXTENDS Iostat, TLAPS

\* There is something to write only while the statistics are written.
TodoWhileWriting == pc # "writing" => todo = {}

\* The scan begins with nothing published.
Cleared == pc \in {"cleared", "timed"} => device_stats = Empty

\* While it writes, what is published are the active devices it has passed, with
\* the interval between its two uptimes.
Passed ==
    pc = "writing" =>
        /\ DOMAIN device_stats = {d \in DOMAIN dev_list \ todo : Sample(d) # 0}
        /\ \A d \in DOMAIN device_stats : device_stats[d].itv = Interval

\* All that is published has one interval, also once the next uptime is read.
OneInterval == \A d, e \in DOMAIN device_stats : device_stats[d].itv = device_stats[e].itv

IInv == ScanInv /\ TodoWhileWriting /\ Cleared /\ Passed /\ OneInterval

-----------------------------------------------------------------------------

\* The difference of two counters is a counter, and that of two different ones
\* is not zero.
LEMMA MinusBounded ==
    ASSUME NEW a \in 0..Word-1, NEW b \in 0..Word-1
    PROVE  Minus(a, b) \in 0..Word-1 /\ (a # b => Minus(a, b) # 0)
BY IostatAssumption DEF Minus

\* The interval is at least one, so that no rate is divided by zero.
LEMMA IntervalPositive == ASSUME TypeOK PROVE Interval \in 1..Word-1
<1>1. uptime_cs[curr] \in 0..Word-1 /\ uptime_cs[1 - curr] \in 0..Word-1
  BY IostatAssumption DEF TypeOK
<1>2. Word > 1
  BY IostatAssumption
<1>3. CASE uptime_cs[curr] = uptime_cs[1 - curr]
  BY <1>2, <1>3, IostatAssumption DEF Interval
<1>4. CASE uptime_cs[curr] # uptime_cs[1 - curr]
  <2>1. Minus(uptime_cs[curr], uptime_cs[1 - curr]) \in 1..Word-1
    <3>1. /\ Minus(uptime_cs[curr], uptime_cs[1 - curr]) \in 0..Word-1
          /\ Minus(uptime_cs[curr], uptime_cs[1 - curr]) # 0
      BY <1>1, <1>4, MinusBounded
    <3>2. QED
      BY <3>1, IostatAssumption
  <2>2. QED
    BY <1>4, <2>1 DEF Interval
<1>5. QED
  BY <1>3, <1>4

\* The statistics of a device are well typed.
LEMMA BasicType ==
    ASSUME TypeOK, NEW d \in DOMAIN dev_list
    PROVE  Basic(d) \in Stats
<1>1. dev_list[d][curr] \in Count /\ dev_list[d][1 - curr] \in Count
  BY DEF TypeOK
<1>2. Previous(d) \in Count
  BY <1>1, IostatAssumption DEF Previous, Count
<1>3. dev_list[d][curr] \in 0..Word-1 /\ Previous(d) \in 0..Word-1
  BY <1>1, <1>2, IostatAssumption DEF Count
<1>4. Minus(dev_list[d][curr], Previous(d)) \in 0..Word-1
  BY <1>3, MinusBounded
<1>5. QED
  BY <1>2, <1>4, IntervalPositive DEF Basic, Stats

-----------------------------------------------------------------------------

LEMMA InitIInv == Init => IInv
BY IostatAssumption
   DEF Init, IInv, ScanInv, TypeOK, OneScan, ScanPublished, TodoWhileWriting, Cleared, Passed,
       OneInterval, Empty, Location, Count, Sample

\* What the kernel does leaves the statistics alone.
LEMMA KernelIInv ==
    ASSUME IInv, Tick \/ \E d \in Device : Transfer(d) \/ Plug(d)
    PROVE  IInv'
<1> USE DEF IInv, ScanInv
<1>1. UNCHANGED <<pc, todo, curr, uptime_cs, dev_list, device_stats, values, prior>>
  BY DEF Tick, Transfer, Plug
<1>2. TypeOK'
  <2>1. CASE Tick
    BY <2>1, IostatAssumption DEF Tick, TypeOK
  <2>2. ASSUME NEW d \in Device, Transfer(d) PROVE TypeOK'
    <3>1. ios[d] \in Count /\ ios[d] + 1 \in Count
      BY <2>2, IostatAssumption DEF Transfer, TypeOK, Count
    <3>2. QED
      BY <1>1, <2>2, <3>1 DEF Transfer, TypeOK
  <2>3. ASSUME NEW d \in Device, Plug(d) PROVE TypeOK'
    <3>1. 0 \in Count /\ changes' \in 0..MaxChanges
      BY <2>3, IostatAssumption DEF Plug, TypeOK, Count
    <3>2. QED
      BY <1>1, <2>3, <3>1 DEF Plug, TypeOK
  <2>4. QED
    BY <2>1, <2>2, <2>3
<1>3. (OneScan /\ ScanPublished /\ TodoWhileWriting /\ Cleared /\ Passed /\ OneInterval)'
  BY <1>1 DEF OneScan, ScanPublished, TodoWhileWriting, Cleared, Passed, OneInterval, Sample,
              Interval
<1>4. QED
  BY <1>2, <1>3

\* The scan clears both lists: nothing of the one before can stay.
LEMMA BeginIInv == ASSUME IInv, Begin PROVE IInv'
<1> USE DEF IInv, ScanInv
<1>1. TypeOK'
  <2>1. \A d \in DOMAIN dev_list : dev_list[d][1 - curr] \in Count
    BY DEF TypeOK
  <2>2. todo' = {} /\ DOMAIN dev_list' = {} /\ DOMAIN device_stats' = {}
    BY DEF Begin, TodoWhileWriting, Empty
  <2>3. DOMAIN prior' \subseteq Device /\ \A d \in DOMAIN prior' : prior'[d] \in Count
    BY <2>1 DEF Begin, TypeOK
  <2>4. QED
    BY <2>2, <2>3 DEF Begin, TypeOK, kernel, Location
<1>2. OneScan'
  BY DEF Begin, OneScan, Empty
<1>3. (ScanPublished /\ TodoWhileWriting /\ Cleared /\ Passed /\ OneInterval)'
  BY DEF Begin, ScanPublished, TodoWhileWriting, Cleared, Passed, OneInterval, Empty
<1>4. QED
  BY <1>1, <1>2, <1>3

\* Nothing is published when the uptime changes.
LEMMA ReadUptimeIInv == ASSUME IInv, ReadUptime PROVE IInv'
<1> USE DEF IInv, ScanInv
<1>1. TypeOK'
  <2>1. PICK up \in {now, uptime_cs[curr]} : uptime_cs' = [uptime_cs EXCEPT ![curr] = up]
    BY DEF ReadUptime
  <2>2. up \in 0..MaxTime
    BY <2>1 DEF TypeOK
  <2>3. uptime_cs' \in [0..1 -> 0..MaxTime]
    BY <2>1, <2>2 DEF TypeOK
  <2>4. QED
    BY <2>3 DEF ReadUptime, TypeOK, kernel, Location
<1>2. device_stats' = Empty
  BY DEF ReadUptime, Cleared
<1>3. OneScan'
  BY <1>2 DEF ReadUptime, OneScan, Empty
<1>4. (ScanPublished /\ TodoWhileWriting /\ Cleared /\ Passed /\ OneInterval)'
  BY <1>2 DEF ReadUptime, ScanPublished, TodoWhileWriting, Cleared, Passed, OneInterval, Empty
<1>5. QED
  BY <1>1, <1>3, <1>4

\* All devices that were read are still to be written.
LEMMA ReadDevicesIInv == ASSUME IInv, ReadDevices PROVE IInv'
<1> USE DEF IInv, ScanInv
<1>1. PICK readable \in SUBSET present :
        /\ dev_list' = [d \in readable |-> [n \in 0..1 |-> IF n = curr THEN ios[d] ELSE 0]]
        /\ todo' = readable
  BY DEF ReadDevices
<1>2. UNCHANGED <<now, present, ios, changes, curr, uptime_cs, device_stats, values, prior>>
      /\ pc' = "writing"
  BY DEF ReadDevices, kernel
<1>3. device_stats' = Empty
  BY <1>2 DEF ReadDevices, Cleared
<1>4. TypeOK'
  <2>1. readable \subseteq Device
    BY <1>1 DEF TypeOK
  <2>2. \A d \in readable : [n \in 0..1 |-> IF n = curr THEN ios[d] ELSE 0] \in [0..1 -> Count]
    BY <2>1, IostatAssumption DEF TypeOK, Count
  <2>3. QED
    BY <1>1, <1>2, <2>1, <2>2 DEF TypeOK, Location
<1>5. OneScan'
  BY <1>2, <1>3 DEF OneScan, Empty
<1>6. (ScanPublished /\ TodoWhileWriting /\ Cleared /\ OneInterval)'
  BY <1>2, <1>3 DEF ScanPublished, TodoWhileWriting, Cleared, OneInterval, Empty
<1>7. Passed'
  BY <1>1, <1>2, <1>3 DEF Passed, Empty
<1>8. QED
  BY <1>4, <1>5, <1>6, <1>7

\* A device is published with its sample and the interval of the scan, if it is
\* active.
LEMMA WriteIInv == ASSUME IInv, NEW d \in Device, Write(d) PROVE IInv'
<1> USE DEF IInv, ScanInv
<1>1. /\ pc = "writing" /\ d \in todo /\ d \in DOMAIN dev_list /\ todo' = todo \ {d}
      /\ UNCHANGED <<now, present, ios, changes, pc, curr, uptime_cs, dev_list, values, prior>>
  BY DEF Write, Turn, kernel, TypeOK
<1>2. Sample(d) = dev_list[d][curr]
  BY <1>1 DEF Sample
<1>3. d \notin DOMAIN device_stats
  BY <1>1 DEF Passed
<1>4. CASE Active(d)
  <2>1. device_stats' = [e \in DOMAIN device_stats \union {d} |->
                            IF e = d THEN Basic(d) ELSE device_stats[e]]
    BY <1>4 DEF Write
  <2>2. /\ DOMAIN device_stats' = DOMAIN device_stats \union {d}
        /\ device_stats'[d] = Basic(d)
        /\ \A e \in DOMAIN device_stats : device_stats'[e] = device_stats[e]
    BY <2>1, <1>3
  <2>3. Basic(d) \in Stats
    BY <1>1, BasicType
  <2>4. TypeOK'
    BY <1>1, <2>2, <2>3 DEF TypeOK
  <2>5. \A e \in DOMAIN device_stats' : device_stats'[e].itv = Interval
    BY <1>1, <2>2 DEF Passed, Basic
  <2>6. OneScan'
    <3>1. \A e \in DOMAIN device_stats' :
            /\ e \in DOMAIN dev_list
            /\ device_stats'[e].bytes = Minus(Sample(e), device_stats'[e].prev)
      BY <1>1, <1>2, <2>2 DEF OneScan, Basic
    <3>2. QED
      BY <1>1, <3>1 DEF OneScan, Sample
  <2>7. (ScanPublished /\ TodoWhileWriting /\ Cleared)'
    BY <1>1 DEF ScanPublished, TodoWhileWriting, Cleared
  <2>8. (Passed /\ OneInterval)'
    <3>1. DOMAIN device_stats' = {e \in DOMAIN dev_list \ todo' : Sample(e) # 0}
      BY <1>1, <1>2, <1>4, <2>2 DEF Passed, Active
    <3>2. Interval' = Interval /\ \A e \in DOMAIN dev_list : Sample(e)' = Sample(e)
      BY <1>1 DEF Interval, Sample
    <3>3. QED
      BY <1>1, <2>5, <3>1, <3>2 DEF Passed, OneInterval
  <2>9. QED
    BY <2>4, <2>6, <2>7, <2>8
<1>5. CASE ~Active(d)
  <2>1. device_stats' = device_stats
    BY <1>5 DEF Write
  <2>2. TypeOK'
    BY <1>1, <2>1 DEF TypeOK
  <2>3. (OneScan /\ ScanPublished /\ TodoWhileWriting /\ Cleared /\ OneInterval)'
    BY <1>1, <2>1 DEF OneScan, ScanPublished, TodoWhileWriting, Cleared, OneInterval, Sample
  <2>4. Passed'
    <3>1. {e \in DOMAIN dev_list \ todo' : Sample(e) # 0} =
          {e \in DOMAIN dev_list \ todo : Sample(e) # 0}
      BY <1>1, <1>2, <1>5 DEF Active
    <3>2. Interval' = Interval /\ \A e \in DOMAIN dev_list : Sample(e)' = Sample(e)
      BY <1>1 DEF Interval, Sample
    <3>3. QED
      BY <1>1, <2>1, <3>1, <3>2 DEF Passed
  <2>5. QED
    BY <2>2, <2>3, <2>4
<1>6. QED
  BY <1>4, <1>5

\* The other sample is the current one now: what was published is that of the
\* last scan.
LEMMA EndIInv == ASSUME IInv, End PROVE IInv'
<1> USE DEF IInv, ScanInv
<1>1. /\ pc = "writing" /\ todo = {} /\ curr' = 1 - curr /\ pc' = "idle"
      /\ UNCHANGED <<now, present, ios, changes, todo, uptime_cs, dev_list, device_stats,
                     values, prior>>
  BY DEF End, kernel
<1>2. 1 - curr' = curr
  BY <1>1 DEF TypeOK
<1>3. \A d \in DOMAIN dev_list : Sample(d)' = Sample(d)
  BY <1>1, <1>2 DEF Sample
<1>4. TypeOK'
  BY <1>1 DEF TypeOK, Location
<1>5. OneScan'
  BY <1>1, <1>3 DEF OneScan
<1>6. ScanPublished'
  BY <1>1, <1>3 DEF ScanPublished, Passed
<1>7. (TodoWhileWriting /\ Cleared /\ Passed /\ OneInterval)'
  BY <1>1 DEF TodoWhileWriting, Cleared, Passed, OneInterval
<1>8. QED
  BY <1>4, <1>5, <1>6, <1>7

\* A callback reads what is published at once.
LEMMA LoadAllIInv == ASSUME IInv, LoadAll PROVE IInv'
<1> USE DEF IInv, ScanInv
<1>1. /\ values' = device_stats
      /\ UNCHANGED <<now, present, ios, changes, pc, todo, curr, uptime_cs, dev_list,
                     device_stats, prior>>
  BY DEF LoadAll, kernel
<1>2. TypeOK'
  BY <1>1 DEF TypeOK
<1>3. OneScan'
  BY <1>1 DEF OneScan, OneInterval, Sample
<1>4. (ScanPublished /\ TodoWhileWriting /\ Cleared /\ Passed /\ OneInterval)'
  BY <1>1 DEF ScanPublished, TodoWhileWriting, Cleared, Passed, OneInterval, Sample, Interval
<1>5. QED
  BY <1>2, <1>3, <1>4

LEMMA StutterIInv == ASSUME IInv, UNCHANGED vars PROVE IInv'
BY DEF IInv, ScanInv, TypeOK, OneScan, ScanPublished, TodoWhileWriting, Cleared, Passed,
       OneInterval, Sample, Interval, vars, kernel

-----------------------------------------------------------------------------

\* The published statistics, and what a callback reads of them while a scan
\* runs, are well typed, of one scan and of exactly its active devices
\* (Handler::stat, Handler::loadAllTpsMetric).
THEOREM ScanCorrect == Spec => []ScanInv
<1>1. Init => IInv
  BY InitIInv
<1>2. IInv /\ [Next]_vars => IInv'
  BY KernelIInv, BeginIInv, ReadUptimeIInv, ReadDevicesIInv, WriteIInv, EndIInv, LoadAllIInv,
     StutterIInv DEF Next, Stat
<1>3. IInv => ScanInv
  BY DEF IInv
<1>4. QED
  BY <1>1, <1>2, <1>3, PTL DEF Spec
=============================================================================
