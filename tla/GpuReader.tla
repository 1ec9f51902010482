------------------------------ MODULE GpuReader ------------------------------
(***************************************************************************)
(* What is read of the graphics processors (GPUReader): a value of each    *)
(* device, and for each process its memory and its utilisation.  NVML is   *)
(* external: a device is a record of what its calls answer, each of which  *)
(* may fail.                                                               *)
(*                                                                         *)
(*   processes   the list of [pid, memory] or Failed                       *)
(*   samples     the list of [pid, sm, enc, dec, ts] or Failed             *)
(*   failing     the kinds of value that cannot be read                    *)
(***************************************************************************)
EXTENDS Integers, Sequences, FiniteSets, SequencesExt

CONSTANTS
    Failed,         \* the answer of a call that fails
    GpuEnabled,     \* whether the program is built with ENABLE_GPU
    UintBits        \* the width of an unsigned int, 32

\* The constructor: the handles, one for each device, and their UUIDs; a device
\* whose handle or UUID cannot be read stays in the list.
Devices(installed) == IF GpuEnabled THEN installed ELSE <<>>

Uuid(device) == IF Failed \in {device.handle, device.uuid} THEN "" ELSE device.uuid

IsGPUAvailable(devices) == devices # <<>>

GetGPUCount(devices) == Len(devices)

\* One value of each device: usage, memory, temperature, power, clock, fan,
\* bandwidth and errors are read alike, and are 0 when the call fails.
Values == {"usage", "memory_usage", "memory_used", "memory_free", "temperature",
           "power_draw", "core_clock", "fan_speed", "pcie_rx", "pcie_tx", "ecc_errors"}

GetGPUData(devices, kind) ==
    [i \in DOMAIN devices |->
        [data |-> IF kind \in devices[i].failing THEN 0 ELSE devices[i].value[kind],
         gpu_uuid |-> Uuid(devices[i])]]

\* The buffer has room for 1024 entries, or for twice as many as often as it is
\* too small.  The entry that is read is the one with the number of the device
\* (infos[i]), for each process again; behind the end of the list the buffer
\* holds zeros.
Entry(device, i) ==
    IF i <= Len(device.processes) THEN device.processes[i] ELSE [pid |-> 0, memory |-> 0]

GetGPUProcessMemory(devices) ==
    LET Rows(i) == IF devices[i].processes = Failed THEN <<>>
                   ELSE [j \in DOMAIN devices[i].processes |->
                            [data |-> Entry(devices[i], i).memory,
                             pid |-> Entry(devices[i], i).pid,
                             gpu_uuid |-> Uuid(devices[i])]]
    IN  FlattenSeq([i \in DOMAIN devices |-> Rows(i)])

\* Samples older than the last query are not asked for; without newer ones the
\* call fails (NVML_ERROR_NOT_FOUND).
NoUsage == [memory |-> 0, sm |-> 0, enc |-> 0, dec |-> 0]

Answered(devices, i, since) ==
    /\ devices[i].samples # Failed
    /\ \E k \in DOMAIN devices[i].samples : devices[i].samples[k].ts > since

\* The devices share the time of the last query: once one has answered, the
\* others are asked for what is newer than its answer.
Since(devices, i, last, now) ==
    IF \E k \in 1..(i - 1) : Answered(devices, k, last) THEN now ELSE last

\* Mutant: the time of a query is not kept.
LastSampleKept(devices, last, now) == last

LastSample(devices, last, now) ==
    IF \E i \in DOMAIN devices : Answered(devices, i, last) THEN now ELSE last

\* Of pairs of numbers, the last.
Latest(pairs) ==
    CHOOSE x \in pairs : \A y \in pairs : y[1] < x[1] \/ (y[1] = x[1] /\ y[2] <= x[2])

\* The usage of each process, by its pid: what the last device says that lists
\* it, cut to an unsigned int, and the last of the samples that are asked for.
ProcessUsage(devices, last, now) ==
    LET listed == {i \in DOMAIN devices : devices[i].processes \notin {Failed, <<>>}}
        answered == {i \in DOMAIN devices : devices[i].samples # Failed}
        new(i) == {k \in DOMAIN devices[i].samples :
                        devices[i].samples[k].ts > Since(devices, i, last, now)}
        sampled == UNION {{i} \X new(i) : i \in answered}
        Sample(x) == devices[x[1]].samples[x[2]]
        Lists(p) == {i \in listed : Entry(devices[i], i).pid = p}
        Samples(p) == {x \in sampled : Sample(x).pid = p}
        Memory(p) == LET i == Max(Lists(p)) IN Entry(devices[i], i).memory % 2 ^ UintBits
        Of(p) == IF Samples(p) = {} THEN NoUsage ELSE Sample(Latest(Samples(p)))
    IN  [p \in {Entry(devices[i], i).pid : i \in listed} \union {Sample(x).pid : x \in sampled} |->
            [memory |-> IF Lists(p) = {} THEN 0 ELSE Memory(p),
             sm |-> Of(p).sm, enc |-> Of(p).enc, dec |-> Of(p).dec]]
=============================================================================
