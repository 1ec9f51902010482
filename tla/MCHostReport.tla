----------------------------- MODULE MCHostReport -----------------------------
(***************************************************************************)
(* The collectors of which the task of the host source takes results, and  *)
(* the metrics of the host.  They share no state: the only thing one gives *)
(* to another is the table of pids, of which the Docker collector may get  *)
(* any.  Each is checked with the others at rest.                          *)
(***************************************************************************)
EXTENDS CriClient, DockerClient, CGroup, ProcReader, HostMetrics, MountReport, TLC

MCDevice ==
    LET Device(uuid) ==
            [handle |-> 1, uuid |-> uuid, failing |-> {"temperature"},
             value |-> [k \in {"usage", "memory_usage", "memory_used", "memory_free",
                               "power_draw", "core_clock", "pcie_rx", "pcie_tx", "ecc_errors"} |-> 1],
             processes |-> <<[pid |-> 4, memory |-> 9]>>, samples |-> <<>>]
    IN  <<Device("u1"), [Device(Failed) EXCEPT !.processes = Failed]>>

\* Two graphics processors, one process on both, a memory beyond the width of
\* its field, and a call to each of them that fails.
MCGpuOf == <<{1, 2}, {2}>>

MCGpuMemory == <<300, 9>>

MCGpuFailing == {{}, {<<1, "samples">>, <<2, "processes">>}}

\* A limit beyond the width of its field, two files of one field, one that may
\* be empty, one that is not read.
MCFile ==
    [g \in {"/", "/a", "/a/b", "/c"} |->
        CASE g = "/"    -> {"cpuset.cpus.effective"}
          [] g = "/a"   -> {"memory.events", "memory.events.local"}
          [] g = "/a/b" -> {"cpuset.cpus", "cgroup.kill"}
          [] g = "/c"   -> {"pids.max"}]

MCContent ==
    [f \in UNION {MCFile[g] : g \in DOMAIN MCFile} |->
        CASE f = "memory.events"         -> {[oom |-> 2]}
          [] f = "memory.events.local"   -> {[oom |-> 1]}
          [] f = "pids.max"              -> {NoLimit, 9}
          [] f = "cpuset.cpus"           -> {Empty, << <<0, 1>>, <<3, 3>> >>}
          [] f = "cpuset.cpus.effective" -> {<< <<0, 3>> >>}
          [] OTHER                       -> {Empty}]

MCGroup == DOMAIN MCFile

MCParent == "/a" :> "/" @@ "/a/b" :> "/a" @@ "/c" :> "/"

\* A disk, what may be mounted over it, a path with a blank, a file system
\* without blocks, one of another host, and one that cannot be asked.
MCMountable ==
    LET What(device, marks, point, type, fs) ==
            [device |-> [name |-> device, marks |-> marks, vendor |-> ""],
             point |-> [name |-> point, blank |-> point = "/my data"], type |-> type, fs |-> fs]
    IN  {What("sda", {"/dev/"}, "/data", "ext4", "full"),
         What("tmpfs", {}, "/data", "tmpfs", "small"),
         What("sdb", {"/dev/"}, "/my data", "xfs", "full"),
         What("loop0", {"/dev/"}, "/snap", "squashfs", "empty"),
         What("nas", {":"}, "/nas", "nfs4", "full"),
         What("fuse", {"/dev/"}, "/dead", "fuseblk", "dead")}

MCNumbers ==
    LET Answer(blocks, bfree, files, ffree, frsize) ==
            [blocks |-> blocks, bfree |-> bfree, files |-> files, ffree |-> ffree,
             frsize |-> frsize, bsize |-> 8]
    IN  "full" :> Answer(9, 3, 6, 2, 4) @@ "small" :> Answer(5, 5, 3, 3, 0)
        @@ "empty" :> Answer(0, 0, 0, 0, 4) @@ "dead" :> NoNumbers

VARIABLE part

all == <<part, vars, cgroup_vars, reader_vars, metrics_vars, docker_vars,
         mount_vars>>

MCInit ==
    /\ part \in {"processes", "metrics", "docker", "cri", "cgroup", "mounts"}
    /\ Init /\ ReaderInit /\ MetricsInit /\ DockerInit /\ CGroupInit
    /\ MountInit
    /\ part # "cri" => exists = {}
    /\ part # "docker" => running = {}
    /\ part # "cgroup" => alive = {"/"}

MCNext ==
    /\ UNCHANGED part
    /\ \/ part = "cri" /\ Next
          /\ UNCHANGED <<reader_vars, metrics_vars, docker_vars, cgroup_vars, mount_vars>>
       \/ part = "docker" /\ DockerNext
          /\ UNCHANGED <<vars, reader_vars, metrics_vars, cgroup_vars, mount_vars>>
       \/ part = "processes" /\ ReaderNext
          /\ UNCHANGED <<vars, metrics_vars, docker_vars, cgroup_vars, mount_vars>>
       \/ part = "metrics" /\ MetricsNext
          /\ UNCHANGED <<vars, reader_vars, docker_vars, cgroup_vars, mount_vars>>
       \/ part = "cgroup" /\ CGroupNext
          /\ UNCHANGED <<vars, reader_vars, metrics_vars, docker_vars, mount_vars>>
       \/ part = "mounts" /\ MountNext
          /\ UNCHANGED <<vars, reader_vars, metrics_vars, docker_vars, cgroup_vars>>

MCSpec == MCInit /\ [][MCNext]_all
=============================================================================
