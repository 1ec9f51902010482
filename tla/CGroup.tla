------------------------------- MODULE CGroup --------------------------------
(***************************************************************************)
(* The walk over the control groups (CGroupCollector), once in the first   *)
(* task of the host source.  The kernel makes and removes groups while it  *)
(* runs.  The iterator goes down into a directory when it is advanced past *)
(* it, and not when the directory is listed; a listing is read at once,    *)
(* and its order is that of the kernel: any.                               *)
(*                                                                         *)
(* What a file holds is a number, NoLimit for "max", a sequence, or a      *)
(* record; the files are grouped by the way they are read, and only those  *)
(* of the constant File are there.                                         *)
(***************************************************************************)
EXTENDS Naturals, Sequences, FiniteSets, SequencesExt

CONSTANTS
    Group, Root, Parent,    \* the control groups that there may be; their parents
    File, Content,          \* the files of each, and what a file may hold
    NoLimit, NoGroup,
    Empty,                  \* what a file holds that is empty or cannot be read
    IntBits, Int64Bits,     \* the widths of the fields
    MaxMade                 \* bound on the groups made and removed

\* The groups are a tree below the root.
ASSUME CGroupAssumption ==
    /\ Root \in Group /\ NoGroup \notin Group
    /\ Parent \in [Group \ {Root} -> Group]
    /\ \A gs \in SUBSET (Group \ {Root}) : gs # {} => \E g \in gs : Parent[g] \notin gs
    /\ File \in [Group -> SUBSET DOMAIN Content]
    /\ IntBits \in Nat \ {0} /\ Int64Bits \in Nat \ {0} /\ MaxMade \in Nat

VARIABLES
    alive,          \* the groups there are, external
    made,
    phase,          \* of the walk
    walk,           \* the directories open, the innermost last: what is left of each
    pending,        \* the directory listed last, not yet opened
    mount,          \* the mounts of the report: children and figures of each
    steady          \* history: the groups that were there since the walk began

cgroup_vars == <<alive, made, phase, walk, pending, mount, steady>>

-----------------------------------------------------------------------------

\* The files by the way they are read.

NumberFile ==
    {"cgroup.freeze", "cgroup.pressure", "cpu.idle", "cpu.max.burst",
     "cpu.weight", "cpu.weight.nice", "memory.oom.group", "memory.zswap.writeback",
     "pids.current", "pids.peak", "hugetlb.2MB.current", "hugetlb.2MB.rsvd.current"}

Number64File ==
    {"memory.current", "memory.low", "memory.min", "memory.peak", "memory.swap.current",
     "memory.swap.peak", "memory.zswap.current"}

LimitFile ==
    {"cgroup.max.depth", "cgroup.max.descendants", "cpu.uclamp.max", "pids.max",
     "hugetlb.2MB.max", "hugetlb.2MB.rsvd.max"}

Limit64File ==
    {"memory.high", "memory.max", "memory.swap.high", "memory.swap.max", "memory.zswap.max"}

\* A limit, or none, and a period.
QuotaFile == {"cpu.max", "hugetlb.2MB.events", "hugetlb.2MB.events.local"}

ListFile == {"cgroup.procs", "cgroup.threads"}

RangeFile ==
    {"cpuset.cpus", "cpuset.cpus.effective", "cpuset.cpus.exclusive",
     "cpuset.cpus.exclusive.effective", "cpuset.mems", "cpuset.mems.effective"}

PressureFile == {"cpu.pressure", "io.pressure", "memory.pressure"}

\* Lines of a key and a number: each key that is not found is 0.
KeyedFile ==
    {"cgroup.events", "cgroup.stat", "cpu.stat", "cpu.stat.local", "memory.events",
     "memory.events.local", "memory.swap.events", "pids.events"}

\* Text, and a float, which does not overflow.
TextFile == {"cgroup.controllers", "cgroup.type", "cpuset.cpus.partition", "cpu.uclamp.min"}

\* Any other file is not read, or is read for nothing: cgroup.kill, io.stat.
ReadFile ==
    UNION {NumberFile, Number64File, LimitFile, Limit64File, QuotaFile, ListFile, RangeFile,
           PressureFile, KeyedFile, TextFile, {"io.max"}}

\* A number that does not fit is 0, as is "max" where no limit is expected.
Str2Number(n, bits) == IF n # NoLimit /\ n < 2 ^ (bits - 1) THEN n ELSE 0

Limit(n, bits) == IF n = NoLimit THEN n ELSE Str2Number(n, bits)

ParseCGroupCPUMax(quota, bits) == <<Limit(quota[1], bits), Str2Number(quota[2], bits)>>

ParseCPUSetList(ranges) ==
    FlattenSeq([i \in DOMAIN ranges |->
                    [k \in 1..(ranges[i][2] + 1 - ranges[i][1]) |-> ranges[i][1] + k - 1]])

\* The time of all tasks is a float, and does not overflow.
ParseCGroupPressure(pressure) ==
    [some |-> Str2Number(pressure.some, IntBits), full |-> pressure.full]

\* The key is looked for without its "=", so that no value is a number or "max".
ParseIOMax(devices) == [i \in DOMAIN devices |-> [l \in DOMAIN devices[i] |-> 0]]

\* The field of the report that a file sets: the local events set the field of
\* the events, and the reserved use of huge pages sets that of their maximum.
Field(file) ==
    CASE file = "memory.events.local"      -> "memory.events"
      [] file = "hugetlb.2MB.rsvd.current" -> "hugetlb.2MB.max"
      [] OTHER                             -> file

\* What is reported of a file (handleFile, handleHugetlb).
Figure(file, content) ==
    CASE file \in NumberFile   -> Str2Number(content, IntBits)
      [] file \in Number64File -> Str2Number(content, Int64Bits)
      [] file \in LimitFile    -> Limit(content, IntBits)
      [] file \in Limit64File  -> Limit(content, Int64Bits)
      [] file \in QuotaFile    ->
            ParseCGroupCPUMax(content, IF file = "cpu.max" THEN Int64Bits ELSE IntBits)
      [] file \in ListFile     -> [i \in DOMAIN content |-> Str2Number(content[i], IntBits)]
      [] file \in RangeFile    -> ParseCPUSetList(content)
      [] file \in PressureFile -> ParseCGroupPressure(content)
      [] file = "io.max"       -> ParseIOMax(content)
      [] OTHER                 -> content

-----------------------------------------------------------------------------

CGroupInit ==
    /\ alive \in {s \in SUBSET Group : Root \in s /\ \A g \in s \ {Root} : Parent[g] \in s}
    /\ made = 0
    /\ phase = "idle" /\ walk = <<>> /\ pending = NoGroup
    /\ mount = <<>> /\ steady = {}

Unborn == [children |-> <<>>, figures |-> <<>>]

Listing(g) == [dir |-> g, files |-> File[g], groups |-> {h \in alive \ {Root} : Parent[h] = g}]

\* The kernel makes a group, or removes one that has no children.
Mkdir(g) ==
    /\ made < MaxMade /\ phase \in {"idle", "walking"}
    /\ g \notin alive /\ Parent[g] \in alive
    /\ alive' = alive \union {g} /\ made' = made + 1
    /\ UNCHANGED <<phase, walk, pending, mount, steady>>

Rmdir(g) ==
    /\ made < MaxMade /\ phase \in {"idle", "walking"}
    /\ g \in alive \ {Root} /\ \A h \in alive \ {Root} : Parent[h] # g
    /\ alive' = alive \ {g} /\ made' = made + 1
    /\ steady' = steady \ {g}
    /\ UNCHANGED <<phase, walk, pending, mount>>

\* GetCGroupInfo: the mount of the root, and the iterator.
Begin ==
    /\ phase = "idle" /\ phase' = "walking"
    /\ mount' = [g \in {Root} |-> Unborn]
    /\ walk' = <<Listing(Root)>>
    /\ steady' = alive
    /\ UNCHANGED <<alive, made, pending>>

\* The fields of a mount, with what a file holds in that of the file.
WithFigure(figures, f, content) ==
    [n \in DOMAIN figures \union {Field(f)} |->
        IF n = Field(f) THEN Figure(f, content) ELSE figures[n]]

\* The mounts, with a new one.
WithMount(mounts, g) ==
    [h \in DOMAIN mounts \union {g} |-> IF h = g THEN Unborn ELSE mounts[h]]

Top == Last(walk)

\* Nothing but the entries of the innermost directory is looked at.
Listed == phase = "walking" /\ pending = NoGroup

\* A file is opened now: the files of a group that is gone are passed over.
HandleFile(f, content) ==
    /\ Listed /\ f \in Top.files
    /\ walk' = [walk EXCEPT ![Len(walk)].files = @ \ {f}]
    /\ mount' = IF Top.dir \in alive /\ f \in ReadFile /\ content # Empty
                THEN [mount EXCEPT ![Top.dir].figures = WithFigure(@, f, content)]
                ELSE mount
    /\ UNCHANGED <<alive, made, phase, pending, steady>>

\* Mutant: the other directories of the listing are passed over.
FirstOnly(groups, g) == {}

Others(groups, g) == groups \ {g}

\* A directory is a child of the mount it is listed in.
HandleDirectory(g) ==
    /\ Listed /\ g \in Top.groups
    /\ walk' = [walk EXCEPT ![Len(walk)].groups = Others(@, g)]
    /\ mount' = WithMount([mount EXCEPT ![Parent[g]].children = Append(@, g)], g)
    /\ pending' = g
    /\ UNCHANGED <<alive, made, phase, steady>>

\* The iterator is advanced past a directory: it opens it, and throws when it
\* is gone.
Descend ==
    /\ phase = "walking" /\ pending # NoGroup
    /\ IF pending \in alive
       THEN /\ walk' = Append(walk, Listing(pending)) /\ pending' = NoGroup
            /\ UNCHANGED phase
       ELSE walk' = <<>> /\ phase' = "failed" /\ UNCHANGED pending
    /\ UNCHANGED <<alive, made, mount, steady>>

\* The end of a directory, and of the walk.
Ascend ==
    /\ Listed /\ Top.files = {} /\ Top.groups = {}
    /\ walk' = Front(walk)
    /\ phase' = IF Len(walk) = 1 THEN "done" ELSE phase
    /\ UNCHANGED <<alive, made, pending, mount, steady>>

CGroupNext ==
    \/ \E g \in Group \ {Root} : Mkdir(g) \/ Rmdir(g) \/ HandleDirectory(g)
    \/ \E f \in DOMAIN Content : \E content \in Content[f] : HandleFile(f, content)
    \/ Begin \/ Descend \/ Ascend

CGroupSpec == CGroupInit /\ [][CGroupNext]_cgroup_vars

-----------------------------------------------------------------------------

Mounted == DOMAIN mount

\* Each mount but the root is a child of one mount, and once, and the parents of
\* the entries that are left have a mount: neither assertion of the code fails.
OneTree ==
    /\ \A g \in Mounted : \A i, j \in DOMAIN mount[g].children :
            mount[g].children[i] = mount[g].children[j] => i = j
    /\ \A h \in Mounted \ {Root} :
            {g \in Mounted : h \in ToSet(mount[g].children)} = {Parent[h]}
    /\ \A i \in DOMAIN walk : walk[i].dir \in Mounted

\* A group that was there all the time is in the report of a walk that ends,
\* with a figure of each field, whatever came and went beside it.
SteadyReported ==
    phase = "done" =>
        \A g \in steady :
            /\ g \in Mounted
            /\ \A f \in File[g] \intersect ReadFile :
                    Empty \in Content[f] \/ Field(f) \in DOMAIN mount[g].figures

\* Only a group that was removed ends the walk, and then without a report.
FailedByRemoval == phase = "failed" => pending \in Mounted \ steady

\* A figure is that of a file of its field; which one of two, the order decides.
FigureOfFile ==
    \A g \in Mounted : \A n \in DOMAIN mount[g].figures :
        \E f \in File[g] : /\ Field(f) = n
                           /\ \E content \in Content[f] \ {Empty} :
                                mount[g].figures[n] = Figure(f, content)

\* The walk over the control groups.
WalkInv == OneTree /\ SteadyReported /\ FailedByRemoval /\ FigureOfFile
=============================================================================
