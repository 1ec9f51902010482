----------------------------- MODULE HostMetrics -----------------------------
(***************************************************************************)
(* The metrics of the host (MetricCollector, with OltpCollector, CpuUsage  *)
(* and GPUCollector).  An instrument is made for one type of value; when   *)
(* metrics are exported, the thread of the SDK calls back each instrument  *)
(* that has been started, which reads /proc or NVML and observes what it   *)
(* has got, by the type of that value.  The SDK is external: its thread    *)
(* exports at any time, and an exception ends the export.                  *)
(*                                                                         *)
(* A file of /proc is the record of its fields, or NoFile.  Each callback  *)
(* reads its file for itself: meminfo and net_dev say what each has read.  *)
(***************************************************************************)
EXTENDS GpuReader, Procfs

CONSTANTS
    Gpus,                       \* the graphics processors
    MaxTime, MaxExports         \* bounds

\* A counter fits into its type.
ASSUME MetricsAssumption ==
    Uint64Bits \in Nat /\ MaxTime \in Nat /\ MaxTime + 3 < 2 ^ Uint64Bits

VARIABLES
    counters,   \* the time of the processor that the kernel counts
    started,    \* the instruments with a callback
    last_,      \* the counters at the last callback of CpuUsage
    exports,    \* how often metrics have been exported
    observed,   \* the values of the last export, by instrument
    raised      \* the instruments whose values were of another type, each of which ends it

metrics_vars == <<counters, started, last_, exports, observed, raised>>

-----------------------------------------------------------------------------
(* The files. *)

\* All eight times are in the line of the processor, or nothing is read.
CpuTimes == {"user", "nice", "system", "idle", "iowait", "irq", "softirq", "steal"}

NoTimes == [t \in CpuTimes |-> 0]

ParseStat(file) ==
    IF file = NoFile THEN NoTimes
    ELSE IF "btime" \in DOMAIN file /\ file.fields = 10 THEN file.cpu ELSE NoTimes

CPUIdleTime(times) == times.idle + times.iowait

CPUTotalTime(times) ==
    CPUIdleTime(times) + times.user + times.nice + times.system + times.irq
    + times.softirq + times.steal

\* All four are in the file, in kilobytes, or nothing is read.
NoMemory == [total |-> 0, free |-> 0, swap_cached |-> 0, used |-> 0]

GetMemoryInfo(file) ==
    IF file = NoFile \/ ~({"MemTotal", "MemFree", "Cached", "Buffers"} \subseteq DOMAIN file)
    THEN NoMemory
    ELSE [total |-> file.MemTotal * 1024, free |-> file.MemFree * 1024,
          swap_cached |-> file.Cached * 1024,
          used |-> Unsigned((file.MemTotal - file.MemFree - file.Cached - file.Buffers) * 1024)]

\* Lines of 17 fields, that is without a blank more than one between two of
\* them, which the kernel pads columns with.
ParseNetDev(file) ==
    IF file = NoFile THEN <<>> ELSE SelectSeq(file, LAMBDA line : line.fields = 17)

BytesTotal(devices, field) ==
    FoldLeft(LAMBDA sum, d : Unsigned(sum + d[field]), 0, devices)

-----------------------------------------------------------------------------
(* The instruments, the type each is made with, and what its callback gives: *)
(* a variant that holds the integer 0 before anything is assigned to it.     *)

Memory == {"system_mem_pct_total_used", "system_mem_pct_usable"}
Net    == {"sum_system_net_bytes_rcvd", "sum_system_net_bytes_sent"}
Cpu    == {"system_cpu_usage"}
Gpu    == (Values \ {"fan_speed"}) \union {"process_memory"}

TypeOf(instrument) == IF instrument \in Memory \union Cpu THEN "double" ELSE "int64"

SingleValue == [type |-> "int64", data |-> 0]

Double(pair) == [type |-> "double", data |-> pair]
Int64(n) == [type |-> "int64", data |-> n]

MemoryPct(part, memory) ==
    IF memory.total > 0 THEN Double(<<memory[part], memory.total>>) ELSE SingleValue

\* The share of a period that was not idle, of unsigned differences.
CpuUsage(times) ==
    LET total == Unsigned(CPUTotalTime(times) - CPUTotalTime(last_))
        idle  == Unsigned(CPUIdleTime(times) - CPUIdleTime(last_))
    IN  IF CPUTotalTime(last_) # 0 /\ total > 0 THEN <<total - idle, total>> ELSE <<0, 1>>

\* The values of an instrument, a sequence; one value unless it is one of each
\* device or process.
ValueOf(instrument, files) ==
    CASE instrument = "system_mem_pct_total_used" ->
            <<MemoryPct("used", GetMemoryInfo(files.meminfo[instrument]))>>
      [] instrument = "system_mem_pct_usable" ->
            <<MemoryPct("free", GetMemoryInfo(files.meminfo[instrument]))>>
      [] instrument = "sum_system_net_bytes_rcvd" ->
            <<Int64(BytesTotal(ParseNetDev(files.net_dev[instrument]), "rx"))>>
      [] instrument = "sum_system_net_bytes_sent" ->
            <<Int64(BytesTotal(ParseNetDev(files.net_dev[instrument]), "tx"))>>
      [] instrument = "system_cpu_usage" -> <<Double(CpuUsage(ParseStat(files.stat)))>>
      [] OTHER ->
            LET rows == IF instrument = "process_memory"
                        THEN GetGPUProcessMemory(Devices(Gpus))
                        ELSE GetGPUData(Devices(Gpus), instrument)
            IN  [i \in DOMAIN rows |-> Int64(rows[i].data)]

MetricsInit ==
    /\ counters = [NoTimes EXCEPT !.idle = 1]
    /\ started = {} /\ last_ = NoTimes
    /\ exports = 0 /\ observed = <<>> /\ raised = {}

\* Time passes that the kernel counts; the time of waiting for input and output
\* may go back.
Count(t, n) ==
    /\ CPUTotalTime(counters) < MaxTime
    /\ counters[t] + n >= 0
    /\ counters' = [counters EXCEPT ![t] = @ + n, !.user = @ + 1]
    /\ UNCHANGED <<started, last_, exports, observed, raised>>

\* Source::start, and the first task of the source, which starts the metric of
\* the processor whenever it runs.
StartMetrics ==
    /\ started' = started \union Memory \union Net
                  \union IF IsGPUAvailable(Devices(Gpus)) THEN Gpu ELSE {}
    /\ UNCHANGED <<counters, last_, exports, observed, raised>>

StartCpu ==
    /\ started' = started \union Cpu
    /\ UNCHANGED <<counters, last_, exports, observed, raised>>

\* Source::stop
StopMetrics ==
    /\ started' = {}
    /\ UNCHANGED <<counters, last_, exports, observed, raised>>

\* Mutant: the counters of a file that could not be read are not kept.
LastRead(times) == IF times = NoTimes THEN last_ ELSE times

Kept(times) == times

Wrong(files) ==
    {i \in started : \E k \in DOMAIN ValueOf(i, files) :
                        ValueOf(i, files)[k].type # TypeOf(i)}

\* An exception ends the export before or after the processor's turn, and
\* nothing is exported.
Export(files, called) ==
    /\ exports < MaxExports
    /\ exports' = exports + 1
    /\ raised' = Wrong(files)
    /\ observed' = IF raised' # {} THEN <<>> ELSE [i \in started |-> ValueOf(i, files)]
    /\ last_' = IF Cpu \subseteq started /\ (raised' = {} \/ called)
                THEN Kept(ParseStat(files.stat)) ELSE last_
    /\ UNCHANGED <<counters, started>>

Meminfo == [MemTotal |-> 8, MemFree |-> 1, Cached |-> 2, Buffers |-> 1]
NetDev  == <<[fields |-> 17, rx |-> 3, tx |-> 4], [fields |-> 20, rx |-> 5, tx |-> 6],
             [fields |-> 17, rx |-> 7, tx |-> 8]>>

FilesNow ==
    [meminfo : [Memory -> {NoFile, Meminfo}], net_dev : [Net -> {NoFile, NetDev}],
     stat : {NoFile, [btime |-> 1, fields |-> 10, cpu |-> counters]}]

MetricsNext ==
    \/ \E n \in {0, 2} : Count("idle", n)
    \/ \E n \in {-1, 2} : Count("iowait", n)
    \/ StartMetrics \/ StartCpu \/ StopMetrics
    \/ \E files \in FilesNow, called \in BOOLEAN : Export(files, called)

MetricsSpec == MetricsInit /\ [][MetricsNext]_metrics_vars

-----------------------------------------------------------------------------

Usage == observed'["system_cpu_usage"][1].data

\* The usage of the processor is the busy share of the time since the last
\* callback, if both could read the counters and the idle time did not go back;
\* it is 0 when the last one could not, and never positive when this one could
\* not.
UsageOfPeriod ==
    "system_cpu_usage" \in DOMAIN observed' =>
        CASE last_ = NoTimes -> Usage[1] = 0
          [] last_ # NoTimes /\ last_' = NoTimes -> Usage[1] <= 0
          [] OTHER ->
                CPUIdleTime(counters) >= CPUIdleTime(last_) =>
                    Usage[1] * (CPUTotalTime(counters) - CPUTotalTime(last_))
                    = Usage[2] * (CPUTotalTime(counters) - CPUIdleTime(counters)
                                  - CPUTotalTime(last_) + CPUIdleTime(last_))

\* An export gives the usage of its period.  It fails only for an instrument of
\* the memory of the machine, whichever files cannot be read: that is made for
\* doubles, and gets the integer 0 when its callback reads nothing.
ExportOfPeriod ==
    [][exports' # exports => UsageOfPeriod /\ raised' \subseteq Memory]_metrics_vars
=============================================================================
