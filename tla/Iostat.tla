-------------------------------- MODULE Iostat --------------------------------
(***************************************************************************)
(* The disk statistics (IOStat::Handler).  stat() runs on the thread of    *)
(* the collection task: it clears its list of devices and the published    *)
(* statistics, reads the counters of every device, and publishes the       *)
(* statistics of one device after the other.  Each access to the published *)
(* statistics takes the mutex; stat() as a whole does not hold it, so the  *)
(* metric callbacks read in between.                                       *)
(*                                                                         *)
(* A device is one counter: its I/Os, each of one sector.                  *)
(***************************************************************************)
EXTENDS Naturals

CONSTANTS
    N,             \* the number of devices
    Word,          \* 2^w, the counters being w bits wide
    MaxTime, MaxCount, MaxChanges   \* bounds of the environment

\* Devices are known by the place of their name in the order of the map.
Device == 1..N

ASSUME IostatAssumption ==
    /\ N \in Nat /\ Word \in Nat
    /\ MaxTime \in Nat \ {0} /\ MaxCount \in Nat \ {0} /\ MaxChanges \in Nat
    /\ MaxTime < Word /\ MaxCount < Word

VARIABLES
    now,            \* the uptime, in hundredths of a second
    present,        \* the devices under /sys/block
    ios,            \* their counters in the kernel
    changes,        \* how often devices were plugged in or out
    pc,             \* where stat() is
    todo,           \* the devices whose statistics it has yet to write
    curr,           \* which of two samples it takes
    uptime_cs,      \* the uptimes of the two samples
    dev_list,       \* the two samples of each device it has read
    device_stats,   \* what is published
    values,         \* what a metric callback has read last
    prior           \* history: the sample before dev_list's

kernel == <<now, present, ios, changes>>
vars   == <<kernel, pc, todo, curr, uptime_cs, dev_list, device_stats, values,
            prior>>

Location == {"idle", "cleared", "timed", "writing"}
Count    == 0..MaxCount
Stats    == [bytes : 0..Word-1, itv : 1..Word-1, prev : Count]

Empty == [d \in {} |-> 0]

TypeOK ==
    /\ now \in 0..MaxTime /\ changes \in 0..MaxChanges
    /\ present \subseteq Device /\ ios \in [Device -> Count]
    /\ pc \in Location /\ curr \in 0..1
    /\ uptime_cs \in [0..1 -> 0..MaxTime]
    /\ DOMAIN dev_list \subseteq Device
    /\ \A d \in DOMAIN dev_list : dev_list[d] \in [0..1 -> Count]
    /\ todo \subseteq DOMAIN dev_list
    /\ \A f \in {device_stats, values} :
          /\ DOMAIN f \subseteq Device
          /\ \A d \in DOMAIN f : f[d] \in Stats
    /\ DOMAIN prior \subseteq Device
    /\ \A d \in DOMAIN prior : prior[d] \in Count

Init ==
    /\ now = 1 /\ changes = 0
    /\ present \in SUBSET Device /\ ios \in [Device -> {0, 1}]
    /\ pc = "idle" /\ todo = {} /\ curr = 1
    /\ uptime_cs = [n \in 0..1 |-> 0]
    /\ dev_list = Empty /\ device_stats = Empty
    /\ values = Empty /\ prior = Empty

-----------------------------------------------------------------------------
(* The kernel.                                                             *)

Tick ==
    /\ now < MaxTime
    /\ now' = now + 1
    /\ UNCHANGED <<present, ios, changes, pc, todo, curr, uptime_cs, dev_list,
                   device_stats, values, prior>>

Transfer(d) ==
    /\ d \in present /\ ios[d] < MaxCount
    /\ ios' = [ios EXCEPT ![d] = @ + 1]
    /\ UNCHANGED <<now, present, changes, pc, todo, curr, uptime_cs, dev_list,
                   device_stats, values, prior>>

\* A device that is plugged in again counts from zero.
Plug(d) ==
    /\ changes < MaxChanges
    /\ changes' = changes + 1
    /\ present' = IF d \in present THEN present \ {d} ELSE present \union {d}
    /\ ios' = [ios EXCEPT ![d] = 0]
    /\ UNCHANGED <<now, pc, todo, curr, uptime_cs, dev_list, device_stats,
                   values, prior>>

-----------------------------------------------------------------------------
(* stat()                                                                  *)

\* Mutant: the statistics of the last scan stay published.
BeginKept ==
    /\ pc = "idle"
    /\ prior' = [d \in DOMAIN dev_list |-> dev_list[d][1 - curr]]
    /\ dev_list' = Empty
    /\ pc' = "cleared"
    /\ UNCHANGED <<kernel, todo, curr, uptime_cs, device_stats, values>>

Begin ==
    /\ pc = "idle"
    /\ prior' = [d \in DOMAIN dev_list |-> dev_list[d][1 - curr]]
    /\ dev_list' = Empty
    /\ device_stats' = Empty
    /\ pc' = "cleared"
    /\ UNCHANGED <<kernel, todo, curr, uptime_cs, values>>

\* read_uptime; an uptime that cannot be read stays what it was two scans ago.
ReadUptime ==
    /\ pc = "cleared"
    /\ \E up \in {now, uptime_cs[curr]} :
          uptime_cs' = [uptime_cs EXCEPT ![curr] = up]
    /\ pc' = "timed"
    /\ UNCHANGED <<kernel, todo, curr, dev_list, device_stats, values, prior>>

\* read_sysfs_all_devices_stat_work: a new entry, with two samples of zeros,
\* for every device whose file can be read; the current sample is set.  If the
\* directory cannot be opened there is none.
ReadDevices ==
    /\ pc = "timed"
    /\ \E readable \in SUBSET present :
          /\ dev_list' = [d \in readable |->
                            [n \in 0..1 |-> IF n = curr THEN ios[d] ELSE 0]]
          /\ todo' = readable
    /\ pc' = "writing"
    /\ UNCHANGED <<kernel, curr, uptime_cs, device_stats, values, prior>>

Minus(a, b) == IF a >= b THEN a - b ELSE a + Word - b

\* get_interval
Interval == LET prev == uptime_cs[1 - curr]
            IN  IF uptime_cs[curr] = prev THEN 1 ELSE Minus(uptime_cs[curr], prev)

\* A counter that went back is that of a device that was plugged in again.
Previous(d) == IF dev_list[d][curr] < dev_list[d][1 - curr]
               THEN 0 ELSE dev_list[d][1 - curr]

\* write_basic_stat and write_plain_basic_stat: the rates are bytes over itv.
Basic(d) == [bytes |-> Minus(dev_list[d][curr], Previous(d)),
             itv   |-> Interval,
             prev  |-> Previous(d)]

\* A device that has done nothing since boot is left out.
Active(d) == dev_list[d][curr] # 0

Turn(d) == pc = "writing" /\ d \in todo /\ \A e \in todo : d <= e

\* Mutant: idle devices are written.
WriteIdle(d) ==
    /\ Turn(d)
    /\ device_stats' = [e \in DOMAIN device_stats \union {d} |->
                          IF e = d THEN Basic(d) ELSE device_stats[e]]
    /\ todo' = todo \ {d}
    /\ UNCHANGED <<kernel, pc, curr, uptime_cs, dev_list, values, prior>>

Write(d) ==
    /\ Turn(d)
    /\ device_stats' = IF Active(d)
                       THEN [e \in DOMAIN device_stats \union {d} |->
                               IF e = d THEN Basic(d) ELSE device_stats[e]]
                       ELSE device_stats
    /\ todo' = todo \ {d}
    /\ UNCHANGED <<kernel, pc, curr, uptime_cs, dev_list, values, prior>>

End ==
    /\ pc = "writing" /\ todo = {}
    /\ curr' = 1 - curr
    /\ pc' = "idle"
    /\ UNCHANGED <<kernel, todo, uptime_cs, dev_list, device_stats, values, prior>>

Stat == Begin \/ ReadUptime \/ ReadDevices \/ (\E d \in Device : Write(d)) \/ End

\* loadAllTpsMetric and the other six: all that is published, under the mutex.
LoadAll ==
    /\ values' = device_stats
    /\ UNCHANGED <<kernel, pc, todo, curr, uptime_cs, dev_list, device_stats, prior>>

Next ==
    \/ Tick
    \/ \E d \in Device : Transfer(d) \/ Plug(d)
    \/ Stat
    \/ LoadAll

Spec == Init /\ [][Next]_vars

-----------------------------------------------------------------------------

\* The sample that the last scan took, or the one being written is taking.
Sample(d) == dev_list[d][IF pc = "idle" THEN 1 - curr ELSE curr]

\* Between two scans the published statistics are those of exactly the devices
\* that the last scan read and found active.
ScanPublished ==
    pc = "idle" =>
       DOMAIN device_stats = {d \in DOMAIN dev_list : Sample(d) # 0}

\* What is published, and what a callback reads while a scan runs, comes from
\* one scan: the sample being written and one interval, never one of an earlier
\* scan beside another device's.
OneScan ==
    /\ \A d \in DOMAIN device_stats :
          /\ d \in DOMAIN dev_list
          /\ device_stats[d].bytes = Minus(Sample(d), device_stats[d].prev)
    /\ \A d, e \in DOMAIN values : values[d].itv = values[e].itv

\* What is published is well typed, of one scan, and of exactly its devices.
ScanInv == TypeOK /\ OneScan /\ ScanPublished

\* The sample that the statistics of a device are compared with is the one
\* before (write_basic_stat: "@ioj Previous sample statistics").
PreviousSample ==
    \A d \in DOMAIN device_stats \intersect DOMAIN prior :
       Sample(d) >= prior[d] => device_stats[d].prev = prior[d]
=============================================================================
