----------------------------- MODULE MountReport -----------------------------
(***************************************************************************)
(* The disks and the file systems of a node report (DiskCollector and      *)
(* FsCollector), collected one after the other by the task of the host     *)
(* source.  Each reads a table of mounts, asks the kernel for the numbers  *)
(* of each mount by its path, and leaves out those it does not want.       *)
(*                                                                         *)
(* The kernel is external: file systems are mounted and unmounted at any   *)
(* time, also while a table is read and between its reading and a          *)
(* question.  A later mount at the same point covers the earlier; a point  *)
(* at which nothing is mounted leads to the file system around it, or does *)
(* not exist any more.  Mounts are numbered in the order of the table,     *)
(* which is that in which they are made.  What a file system answers does  *)
(* not change.                                                             *)
(***************************************************************************)
EXTENDS Procfs, Sequences, FiniteSets, SequencesExt

CONSTANTS
    Mountable,      \* what may be mounted: [device, point, type, fs]
    Numbers,        \* what statfs answers for each file system
    NoNumbers,      \* the answer of a call that fails
    MaxMounts       \* bound: mounts that are made

\* A device has a name and marks, among them "/dev/" when it begins with that;
\* a point has a name, and may have a blank, which the tables escape.
ASSUME MountAssumption == \A w \in Mountable : w.fs \in DOMAIN Numbers

VARIABLES
    mounts,         \* the table: [n, what]
    mounted,        \* the number of the last mount
    stage,          \* where the task is
    cursor,         \* the number of the line read last
    lines,          \* the lines read and not yet handled, in the order of n
    fsd,            \* what statfs has answered
    disks,          \* disk_infos of the report
    systems,        \* file_system_infos of the report
    unread,         \* the lists whose table could not be opened
    in_place        \* history: the mounts in place since the task began

table_vars == <<mounts, mounted>>
mount_vars == <<table_vars, stage, cursor, lines, fsd, disks, systems, unread, in_place>>

-----------------------------------------------------------------------------
(* What the kernel says.                                                   *)

At(point) == {m \in mounts : m.what.point = point}

\* The mount that a path leads to: no other covers it.
Visible(m) == m \in mounts /\ \A k \in At(m.what.point) : k.n <= m.n

\* What statfs may answer of a path.
Answers(point) ==
    IF At(point) = {} THEN {NoNumbers} \union {Numbers[f] : f \in DOMAIN Numbers}
    ELSE {Numbers[m.what.fs] : m \in {k \in At(point) : Visible(k)}}

MountInit ==
    /\ mounts = {} /\ mounted = 0
    /\ stage = "idle" /\ cursor = 0 /\ lines = {} /\ fsd = NoNumbers
    /\ disks = <<>> /\ systems = <<>> /\ unread = {} /\ in_place = {}

\* A mount covers what is at its point.
Mount(w) ==
    /\ mounted < MaxMounts
    /\ mounted' = mounted + 1
    /\ mounts' = mounts \union {[n |-> mounted + 1, what |-> w]}
    /\ in_place' = {m \in in_place : m.what.point # w.point}
    /\ UNCHANGED <<stage, cursor, lines, fsd, disks, systems, unread>>

Unmount(m) ==
    /\ Visible(m)
    /\ mounts' = mounts \ {m}
    /\ in_place' = in_place \ {m}
    /\ UNCHANGED <<mounted, stage, cursor, lines, fsd, disks, systems, unread>>

\* A line of the table that is open, after the one read last.
ReadLine ==
    /\ stage \in {"mounts", "infos"}
    /\ \E m \in mounts :
          /\ m.n > cursor /\ \A k \in mounts : k.n > cursor => m.n <= k.n
          /\ cursor' = m.n
          /\ lines' = lines \union {m}
    /\ UNCHANGED <<table_vars, stage, fsd, disks, systems, unread, in_place>>

NoMoreLines == \A m \in mounts : m.n <= cursor

\* The line that is handled next.
IsNext(line) == line \in lines /\ \A l \in lines : line.n <= l.n

-----------------------------------------------------------------------------
(* DiskCollector::GetDiskList.                                             *)

BlockSize(st) == IF st.frsize # 0 THEN st.frsize ELSE st.bsize

\* The file system is not set, and the vendor is that of a whole disk.
DiskInfo(m, st) ==
    LET total == st.blocks * BlockSize(st)
        free  == st.bfree * BlockSize(st)
    IN  [mount |-> m, filesystem |-> "", vendor |-> m.what.device.vendor,
         space_total |-> total, space_free |-> free, space_used |-> total - free,
         space_usage |-> IF total > 0 THEN <<total - free, total>> ELSE <<>>,
         inode_total |-> st.files, inode_free |-> st.ffree, inode_used |-> st.files - st.ffree,
         inode_usage |-> IF st.files > 0 THEN <<st.files - st.ffree, st.files>> ELSE <<>>]

\* The task begins, with /proc/mounts; when that cannot be opened there are no
\* disks in the report.
OpenMounts ==
    /\ stage = "idle"
    /\ in_place' = {m \in mounts : Visible(m)}
    /\ \/ stage' = "mounts" /\ UNCHANGED unread
       \/ stage' = "disks" /\ unread' = {"disks"}
    /\ UNCHANGED <<table_vars, cursor, lines, fsd, disks, systems>>

\* The whole table is read before its first line is handled.
CloseMounts ==
    /\ stage = "mounts" /\ NoMoreLines
    /\ stage' = "disks"
    /\ UNCHANGED <<table_vars, cursor, lines, fsd, disks, systems, unread, in_place>>

\* A mount of a device under /dev/; a path with a blank is asked for as the
\* table spells it, and does not exist.
IsDisk(what) == "/dev/" \in what.device.marks /\ ~what.point.blank

\* Mutant: the list ends with a path that cannot be asked.
RemainingNone(line) == {}

Remaining(line) == lines \ {line}

\* statvfs of a line.
Disk(line) ==
    /\ stage = "disks" /\ IsNext(line)
    /\ \/ /\ ~IsDisk(line.what)
          /\ lines' = lines \ {line}
          /\ UNCHANGED disks
       \/ /\ IsDisk(line.what) /\ NoNumbers \in Answers(line.what.point)
          /\ lines' = Remaining(line)
          /\ UNCHANGED disks
       \/ /\ IsDisk(line.what)
          /\ \E st \in Answers(line.what.point) \ {NoNumbers} :
                disks' = Append(disks, DiskInfo(line, st))
          /\ lines' = lines \ {line}
    /\ UNCHANGED <<table_vars, stage, cursor, fsd, systems, unread, in_place>>

-----------------------------------------------------------------------------
(* FsCollector::run and ReadFileSystemList.                                *)

\* The host of automatically mounted directories is a device of its own.
Remote(what) ==
    \/ ":" \in what.device.marks
    \/ "//" \in what.device.marks /\ what.type \in {"smbfs", "smb3", "cifs"}
    \/ what.type \in {"acfs", "afs", "coda", "auristorfs", "fhgfs", "gpfs", "ibrix", "ocfs2",
                      "vxfs"}
    \/ "-hosts" \in what.device.marks

Dummy(what) ==
    what.type \in {"none", "autofs", "proc", "subfs", "debugfs", "devpts", "fusectl",
                   "fuse.portal", "mqueue", "rpc_pipefs", "sysfs", "squashfs", "nsfs", "cgroup",
                   "devtmpfs", "devfs", "kernfs", "ignore"}

\* Inodes count for the size, and the size of a block counts twice in what is
\* used.
FileSystemInfo(m, st) ==
    LET block     == BlockSize(st)
        available == Unsigned(st.ffree * block)
        size      == Unsigned(st.files * block)
        all       == Unsigned(size * block)
        free      == Unsigned(available * block)
    IN  [mount |-> m, size |-> size, available |-> available,
         used |-> IF all > free THEN all - free ELSE 0]

\* The disks are done: /proc/self/mountinfo is opened, or cannot be.
OpenMountInfo ==
    /\ stage = "disks" /\ lines = {}
    /\ cursor' = 0
    /\ \/ stage' = "infos" /\ UNCHANGED unread
       \/ stage' = "sent" /\ unread' = unread \union {"systems"}
    /\ UNCHANGED <<table_vars, lines, fsd, disks, systems, in_place>>

IsFileSystem(what) == ~Dummy(what) /\ ~Remote(what)

\* A file system without blocks is left out.
HasBlocks(st) == st # NoNumbers /\ st.blocks > 0

\* statfs of a line.
Statfs(line) ==
    /\ stage = "infos" /\ IsNext(line)
    /\ \/ /\ ~IsFileSystem(line.what)
          /\ lines' = lines \ {line}
          /\ UNCHANGED <<stage, fsd>>
       \/ /\ IsFileSystem(line.what)
          /\ \E st \in Answers(line.what.point) : ~HasBlocks(st)
          /\ lines' = Remaining(line)
          /\ UNCHANGED <<stage, fsd>>
       \/ /\ IsFileSystem(line.what)
          /\ \E st \in Answers(line.what.point) : HasBlocks(st) /\ fsd' = st
          /\ stage' = "stat"
          /\ UNCHANGED lines
    /\ UNCHANGED <<table_vars, cursor, disks, systems, unread, in_place>>

\* stat of the same line; its answer is not used but for its failure.
Stat(line) ==
    /\ stage = "stat" /\ IsNext(line)
    /\ \/ /\ NoNumbers \in Answers(line.what.point)
          /\ lines' = Remaining(line)
          /\ UNCHANGED systems
       \/ /\ Answers(line.what.point) # {NoNumbers}
          /\ lines' = lines \ {line}
          /\ systems' = Append(systems, FileSystemInfo(line, fsd))
    /\ stage' = "infos"
    /\ UNCHANGED <<table_vars, cursor, fsd, disks, unread, in_place>>

\* The report is sent.
CloseMountInfo ==
    /\ stage = "infos" /\ lines = {} /\ NoMoreLines
    /\ stage' = "sent"
    /\ UNCHANGED <<table_vars, cursor, lines, fsd, disks, systems, unread, in_place>>

MountNext ==
    \/ \E w \in Mountable : Mount(w)
    \/ \E m \in mounts : Unmount(m)
    \/ OpenMounts \/ ReadLine \/ CloseMounts
    \/ \E line \in lines : Disk(line)
    \/ OpenMountInfo
    \/ \E line \in lines : Statfs(line)
    \/ \E line \in lines : Stat(line)
    \/ CloseMountInfo

MountSpec == MountInit /\ [][MountNext]_mount_vars

-----------------------------------------------------------------------------
(* Properties.                                                             *)

\* Each list is in the order of its table, and has no mount twice.
InOrder(list) == \A i, j \in DOMAIN list : i < j => list[i].mount.n < list[j].mount.n

EntriesOf(m, list) == {e \in ToSet(list) : e.mount = m}

Own(m) == Numbers[m.what.fs]

\* A mount that stays where it is while the report is made, neither unmounted
\* nor covered, is in each list that its kind belongs to, once and with its own
\* numbers, and in no other, whatever comes and goes around it, and whichever
\* other mount cannot be asked (disk_collector.cc:103, file.cc:174).  Blanks in
\* the path keep it out of the disks, but not out of the file systems.
InPlaceReported ==
    /\ stage \in {"infos", "stat", "sent"} /\ "disks" \notin unread =>
          \A m \in in_place :
             EntriesOf(m, disks) =
                IF IsDisk(m.what) /\ Own(m) # NoNumbers THEN {DiskInfo(m, Own(m))} ELSE {}
    /\ stage = "sent" /\ "systems" \notin unread =>
          \A m \in in_place :
             EntriesOf(m, systems) =
                IF IsFileSystem(m.what) /\ HasBlocks(Own(m))
                THEN {FileSystemInfo(m, Own(m))} ELSE {}

MountsInv == InOrder(disks) /\ InOrder(systems) /\ InPlaceReported

\* Not so: every disk has the numbers of its own file system.  One that is
\* unmounted after the table is read has those of the one around its point.
OwnNumbers == \A i \in DOMAIN disks : disks[i] = DiskInfo(disks[i].mount, Own(disks[i].mount))

\* Not so (file.h:41 names the size, what is used and what is available): the
\* size of a file system is the sum of the others.
SizesAdd == \A i \in DOMAIN systems : systems[i].size = systems[i].used + systems[i].available
=============================================================================
