------------------------------ MODULE ProcReader ------------------------------
(***************************************************************************)
(* The reader of /proc (ProcReader).  A round of the host source lists the *)
(* processes, reads eight files of each, and computes rates from the       *)
(* sample of the round before, which process_table_ keeps by pid.          *)
(*                                                                         *)
(* The kernel is external: processes begin, work and end at any time, also *)
(* while their files are read, and a pid is given again.  A file is what   *)
(* it says by its keys and fields; NoFile cannot be opened, or is empty.   *)
(* A rate is the pair of a difference and the time it is divided by.       *)
(***************************************************************************)
EXTENDS GpuReader, Procfs

CONSTANTS
    Pid, Kind,              \* pids, and kinds of processes
    NoProcess,
    ClockTicksPerSecond, Interval,  \* the period of a round, in seconds
    TotalMemory, PageSize,
    ReadsBeforeEnd,         \* how many files are read of a process that ends
    GpuCount, GpuOf, GpuMemory,     \* graphics processors, and what a pid uses of them
    GpuFailing,             \* the calls to them that may fail in a round
    MaxScans, MaxWork, MaxBirths    \* bounds

\* A process; work is counted in ticks.
Process == [id : Nat, born : Nat, kind : Kind, work : Nat]

\* A counter fits into its type, and a second has more than one tick.
ASSUME ReaderAssumption ==
    /\ Pid \subseteq Nat \ {0} /\ IsFiniteSet(Pid)
    /\ GpuCount \in Nat /\ GpuOf \in [Pid -> SUBSET (1..GpuCount)]
    /\ UintBits \in Nat /\ GpuMemory \in [Pid -> Nat]
    /\ Uint64Bits \in Nat /\ MaxWork \in Nat /\ MaxWork < 2 ^ Uint64Bits
    /\ ClockTicksPerSecond \in Nat /\ ClockTicksPerSecond > 1
    /\ Interval \in Nat \ {0}
    /\ NoProcess \notin Process
    /\ Failed \notin Seq([pid : Nat, sm : Nat, enc : Nat, dec : Nat, ts : Nat])

VARIABLES
    processes,      \* the process that has a pid
    births, scans,
    process_table_, \* the samples of the last round, by pid
    total_memory_, last_sample_ts_,
    seen            \* history: the processes of the last round, by pid

reader_vars == <<processes, births, scans, process_table_, total_memory_,
                 last_sample_ts_, seen>>

\* The seconds since boot; a process is born between two rounds.
Uptime(r) == 1 + r * Interval

-----------------------------------------------------------------------------
(* What the kernel writes into the files of a process. *)

Files(p) ==
    [status |-> [k \in {"Name:", "PPid:", "Uid:", "Gid:", "FDSize:", "Threads:",
                        "voluntary_ctxt_switches:", "nonvoluntary_ctxt_switches:"} |-> 1]
                @@ [k \in {"State:"} |-> IF p.kind = "kernel" THEN "I" ELSE "R"]
                @@ [k \in {"Kthread:"} |-> IF p.kind = "kernel" THEN 1 ELSE 0],
     statm |-> IF p.kind = "kernel" THEN <<0, 0, 0, 0, 0, 0, 0>> ELSE <<3, 2, 1, 1, 0, 1, 0>>,
     io |-> [read_bytes |-> p.work, write_bytes |-> p.work],
     stat |-> [fields |-> IF p.kind = "spaced" THEN 53 ELSE 52,
               starttime |-> p.born * ClockTicksPerSecond, utime |-> p.work, stime |-> 1],
     cgroup |-> IF p.kind = "docker" THEN <<"docker">> ELSE <<"init.scope">>,
     cmdline |-> IF p.kind = "kernel" THEN <<>> ELSE <<"a", "0", "b", "0">>,
     exe |-> IF p.kind = "kernel" THEN "" ELSE "exe",
     cwd |-> "cwd"]

FileOrder == <<"status", "statm", "io", "stat", "cgroup", "cmdline", "exe", "cwd">>

\* The files of a process that ends when n of them are read.
FilesUntil(p, n) ==
    [f \in ToSet(FileOrder) |->
        IF \E i \in 1..n : FileOrder[i] = f THEN Files(p)[f] ELSE NoFile]

-----------------------------------------------------------------------------
(* The parsers. *)

GetProcessState(state) ==
    CASE state = "R" -> "Running"   [] state = "S" -> "Sleeping"
      [] state = "D" -> "Uninterruptible" [] state = "T" -> "Traced"
      [] state = "Z" -> "Zombie"    [] OTHER -> "Unknown"

RequiredKeys == {"Name:", "PPid:", "Uid:", "Gid:", "State:", "FDSize:", "Threads:",
                 "nonvoluntary_ctxt_switches:", "voluntary_ctxt_switches:"}

\* A required key that is missing leaves the whole status out.
ParseProcessStatus(file) ==
    IF file = NoFile \/ ~(RequiredKeys \subseteq DOMAIN file) THEN <<>>
    ELSE [k \in RequiredKeys |-> IF k = "State:" THEN GetProcessState(file[k]) ELSE file[k]]
         @@ [k \in {"is_kernel_thread"} |-> "Kthread:" \in DOMAIN file /\ file["Kthread:"] = 1]

\* Pages in bytes, and shares of the memory of the machine when that is known.
ParseProcessStatm(file, total) ==
    IF file = NoFile \/ Len(file) # 7 THEN <<>>
    ELSE [vm_size |-> file[1] * PageSize, resident |-> file[2] * PageSize,
          shared |-> file[3] * PageSize, text |-> file[4] * PageSize,
          lib |-> file[5] * PageSize, data |-> file[6] * PageSize, dirty |-> file[7] * PageSize]
         @@ IF total = 0 THEN <<>>
            ELSE [vm_pct |-> <<file[1] * PageSize, total>>,
                  rss_pct |-> <<file[2] * PageSize, total>>]

\* Rates exist when whole seconds have passed since the other sample.
Rate(diff, seconds) == IF seconds > 0 THEN <<diff, seconds>> ELSE <<>>

\* Fields of a message that nobody has set are 0, and so is the time of a
\* sample that was not taken.
NoIO  == [read |-> 0, written |-> 0, read_rate |-> <<>>, write_rate |-> <<>>, ts |-> 0]
NoCpu == [user |-> 0, system |-> 0, total_pct |-> <<>>, user_pct |-> <<>>,
          system_pct |-> <<>>, running_time |-> 0, ts |-> 0]

RateSince(known, diff, seconds) == IF known THEN Rate(diff, seconds) ELSE <<>>

\* Mutant: the clock is read before the file is parsed.
SampledFirst(now) == [NoCpu EXCEPT !.ts = now]

NotSampled(now) == NoCpu

\* known says that there was a sample of the pid, and prev is it.  The
\* difference of the bytes is unsigned.
ParseProcessIO(file, known, prev, now) ==
    IF file = NoFile \/ ~({"read_bytes", "write_bytes"} \subseteq DOMAIN file) THEN NoIO
    ELSE LET Of(bytes, before) == RateSince(known, Unsigned(bytes - before), now - prev.ts)
         IN  [read |-> file.read_bytes, written |-> file.write_bytes, ts |-> now,
              read_rate |-> Of(file.read_bytes, prev.read),
              write_rate |-> Of(file.write_bytes, prev.written)]

\* The uptime, of the two fields of its file.
GetUptime(file) == IF file = NoFile \/ Len(file) # 2 THEN NoFile ELSE file[1]

\* A line of 52 fields; whole seconds of both times.  Without a sample the
\* shares are those of the whole life of the process.
ParseProcessStat(file, known, prev, uptime, now) ==
    IF file = NoFile \/ uptime = NoFile THEN NotSampled(now)
    ELSE IF file.fields # 52 THEN NotSampled(now)
    ELSE LET utime   == file.utime \div ClockTicksPerSecond
             stime   == file.stime \div ClockTicksPerSecond
             running == uptime - file.starttime \div ClockTicksPerSecond
             Pct(time, before) == IF known THEN Rate(time - before, now - prev.ts)
                                  ELSE <<time, running>>
         IN  [user |-> utime, system |-> stime, running_time |-> running, ts |-> now,
              user_pct |-> Pct(utime, prev.user), system_pct |-> Pct(stime, prev.system),
              total_pct |-> Pct(utime + stime, prev.user + prev.system)]

\* The key is looked for in the whole file, and the id is taken from behind a
\* key at its beginning: right when that is the first line.
ParseProcessCgroup(file) ==
    IF file = NoFile \/ ~\E i \in DOMAIN file : file[i] = "docker" THEN ""
    ELSE IF file[1] = "docker" THEN "id" ELSE "garbage"

\* The zeros between arguments become blanks, and blanks at the end are cut.
Cmdline(file) ==
    IF file = NoFile THEN <<>>
    ELSE LET blanks == [i \in DOMAIN file |-> IF file[i] = "0" THEN " " ELSE file[i]]
             kept == {i \in DOMAIN blanks : blanks[i] # " "}
         IN  IF kept = {} THEN <<>> ELSE SubSeq(blanks, 1, Max(kept))

\* A link that cannot be read is an empty path.
Link(file) == IF file = NoFile THEN "" ELSE file

\* A file of "/proc/<pid>" after the other.
GetProcDetail(files, known, prev, uptime, usage, now) ==
    [status |-> ParseProcessStatus(files["status"]),
     memory_usage |-> ParseProcessStatm(files["statm"], total_memory_'),
     io |-> ParseProcessIO(files["io"], known, prev.io, now),
     cpu |-> ParseProcessStat(files["stat"], known, prev.cpu, GetUptime(uptime), now),
     container_id |-> ParseProcessCgroup(files["cgroup"]),
     cmdline |-> Cmdline(files["cmdline"]),
     path |-> Link(files["exe"]), work_dir |-> Link(files["cwd"]), gpu_usage |-> usage]

-----------------------------------------------------------------------------

Living == {pid \in Pid : processes[pid] # NoProcess}

ReaderInit ==
    /\ processes = [pid \in Pid |-> NoProcess]
    /\ births = 0 /\ scans = 0
    /\ process_table_ = <<>> /\ total_memory_ = 0 /\ last_sample_ts_ = 0
    /\ seen = <<>>

scan_vars == <<scans, process_table_, total_memory_, last_sample_ts_, seen>>

\* A process begins after the last round, at the latest at the time of the next.
Fork(pid, kind, born) ==
    /\ births < MaxBirths /\ processes[pid] = NoProcess
    /\ births' = births + 1
    /\ processes' = [processes EXCEPT ![pid] =
            [id |-> births', born |-> born, kind |-> kind, work |-> 0]]
    /\ UNCHANGED scan_vars

\* A process computes for a tick, reads and writes.
Work(pid) ==
    /\ pid \in Living /\ processes[pid].work < MaxWork
    /\ processes[pid].work < (Uptime(scans + 1) - processes[pid].born) * ClockTicksPerSecond
    /\ processes' = [processes EXCEPT ![pid].work = @ + 1]
    /\ UNCHANGED <<births>> /\ UNCHANGED scan_vars

End(pid) ==
    /\ pid \in Living
    /\ processes' = [processes EXCEPT ![pid] = NoProcess]
    /\ UNCHANGED <<births>> /\ UNCHANGED scan_vars

\* The pid is that of the process the sample before was taken of.
SameProcess(pid) ==
    pid \in DOMAIN process_table_ /\ seen[pid].id = processes[pid].id

\* The samples that a graphics processor has of the processes that use it: from
\* the last round, and from now of those that have worked since.  The figures
\* of a sample tell the process, the time and the device.
GpuSample(pid, p, d, time) == [pid |-> pid, sm |-> p.id, enc |-> time, dec |-> d, ts |-> time]

Worked(pid) == processes[pid].work > IF SameProcess(pid) THEN seen[pid].work ELSE 0

Samples(d, now) ==
    {GpuSample(pid, seen[pid], d, Uptime(scans)) :
        pid \in {q \in DOMAIN seen : d \in GpuOf[q] /\ seen[q].work > 0}}
    \union {GpuSample(pid, processes[pid], d, now) :
        pid \in {q \in Living : d \in GpuOf[q] /\ Worked(q)}}

\* What the graphics processors answer, when some calls fail.
Running(d) == {[pid |-> pid, memory |-> GpuMemory[pid]] : pid \in {q \in Living : d \in GpuOf[q]}}

Installed(now, failing) ==
    [d \in 1..GpuCount |->
        [handle |-> d, uuid |-> d, failing |-> {},
         processes |-> IF <<d, "processes">> \in failing THEN Failed ELSE SetToSeq(Running(d)),
         samples |-> IF <<d, "samples">> \in failing THEN Failed
                     ELSE SetToSeq(Samples(d, now))]]

\* GetProcList: processes that end do so when n of their files are read.  The
\* report is made of the samples, which replace those of the round before.
GetProcList(ending, n, uptime, meminfo, failing) ==
    LET now     == Uptime(scans + 1)
        devices == Devices(Installed(now, failing))
        usage   == ProcessUsage(devices, last_sample_ts_, now)
        Sample(pid) ==
            LET known == pid \in DOMAIN process_table_
                prev  == IF known THEN process_table_[pid] ELSE [io |-> NoIO, cpu |-> NoCpu]
                files == IF pid \in ending THEN FilesUntil(processes[pid], n)
                         ELSE Files(processes[pid])
            IN  GetProcDetail(files, known, prev, uptime,
                              IF pid \in DOMAIN usage THEN usage[pid] ELSE NoUsage, now)
    IN  /\ scans < MaxScans
        /\ scans' = scans + 1
        /\ total_memory_' = IF total_memory_ = 0 /\ meminfo # NoFile THEN meminfo
                            ELSE total_memory_
        /\ last_sample_ts_' = LastSample(devices, last_sample_ts_, now)
        /\ process_table_' = [pid \in Living |-> Sample(pid)]
        /\ seen' = [pid \in Living |-> processes[pid]]
        /\ processes' = [pid \in Pid |-> IF pid \in ending THEN NoProcess ELSE processes[pid]]
        /\ UNCHANGED births

ReaderNext ==
    \/ \E pid \in Pid :
          \/ \E kind \in Kind, born \in {Uptime(scans), Uptime(scans + 1)} : Fork(pid, kind, born)
          \/ Work(pid) \/ End(pid)
    \/ \E ending \in {{}} \union {{pid} : pid \in Living}, n \in ReadsBeforeEnd,
          uptime \in {NoFile, <<Uptime(scans + 1), 0>>}, meminfo \in {NoFile, TotalMemory},
          failing \in GpuFailing :
          GetProcList(ending, n, uptime, meminfo, failing)

ReaderSpec == ReaderInit /\ [][ReaderNext]_reader_vars

-----------------------------------------------------------------------------

NewShare(pid) == process_table_'[pid].cpu.total_pct
NewRate(pid)  == process_table_'[pid].io.read_rate

\* The share of a processor in a report is that of this period, to a second of
\* whole ones, for a process that was sampled in the round before, and that of
\* its life for a new one.  When the sample before could not be taken it is its
\* life over the uptime of the machine.
ShareOfPeriod(pid) ==
    LET work == processes[pid].work
        Share(ticks, seconds) ==
            /\ NewShare(pid)[1] >= 0 /\ NewShare(pid)[2] = seconds
            /\ NewShare(pid)[1] * ClockTicksPerSecond \in
                    (ticks - ClockTicksPerSecond + 1)..(ticks + ClockTicksPerSecond - 1)
    IN  NewShare(pid) # <<>> =>
            CASE pid \notin DOMAIN process_table_ ->
                    Share(work, Uptime(scans') - processes[pid].born)
              [] SameProcess(pid) /\ process_table_[pid].cpu.ts # 0 ->
                    Share(work - seen[pid].work, Interval)
              [] SameProcess(pid) /\ process_table_[pid].cpu.ts = 0 ->
                    Share(work, Uptime(scans'))
              [] OTHER -> TRUE

\* The rate of its reads is that of this period, too, and a new one has none.
RateOfPeriod(pid) ==
    NewRate(pid) # <<>> =>
        /\ pid \in DOMAIN process_table_
        /\ SameProcess(pid) /\ process_table_[pid].io.ts # 0 =>
            NewRate(pid) = <<processes[pid].work - seen[pid].work, Interval>>

\* The rates of a report are those of the process that has the pid, if the pid
\* was not given again since the round before: then, the difference with the
\* other process is reported, and may be negative or wrap.
RatesOfPeriod ==
    [][scans' # scans =>
        \A pid \in DOMAIN process_table_' : ShareOfPeriod(pid) /\ RateOfPeriod(pid)]_reader_vars

\* The samples of a pid that a report may show: of the process that has it now,
\* or, from the last round, of the one that had it then.
OwnSamples(pid) ==
    {<<processes[pid].id, Uptime(scans'), d>> : d \in GpuOf[pid]}
    \union {<<seen[q].id, Uptime(scans), d>> : q \in {pid} \intersect DOMAIN seen,
                                               d \in GpuOf[pid]}

NoSample == <<0, 0, 0>>

Shown(usage) == <<usage.sm, usage.enc, usage.dec>>

\* What a report says of a process and the graphics processors is its own,
\* whatever other processes and devices there are and whichever call fails: its
\* memory on a device it uses, cut to an unsigned int, or 0, and the three
\* figures of one sample that a device it uses has of its pid, or zeros; and no
\* sample is reported again in the next report.
GpuOfOwner ==
    [][scans' # scans =>
        \A pid \in DOMAIN process_table_' :
            LET gpu == process_table_'[pid].gpu_usage
            IN  /\ gpu.memory \in {0} \union {GpuMemory[pid] % 2 ^ UintBits : d \in GpuOf[pid]}
                /\ Shown(gpu) # NoSample =>
                        /\ GpuEnabled /\ Shown(gpu) \in OwnSamples(pid)
                        /\ pid \in DOMAIN process_table_ =>
                              Shown(process_table_[pid].gpu_usage) # Shown(gpu)]_reader_vars

\* Not so, though no call fails (gpu_reader.h:31 "we need to get the usage of each
\* GPU"): a process that uses a graphics processor is reported with its memory,
\* and with a new sample when it has worked.
UsageOfEach ==
    [][scans' # scans =>
        \A pid \in Living :
            LET gpu == process_table_'[pid].gpu_usage
            IN  GpuOf[pid] # {} => gpu.memory # 0 /\ (Worked(pid) => gpu.enc # 0)]_reader_vars
=============================================================================
