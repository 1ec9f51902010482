----------------------------- MODULE DockerClient -----------------------------
(***************************************************************************)
(* The collector of Docker containers (ContainerCollector over             *)
(* DockerHttpClient and HttpClient).  A timer asks Docker for the list of  *)
(* its containers; the answer asks for the details of each, and when none  *)
(* of these is pending all containers known are handed to the collector.   *)
(* The round of the host source copies what was handed over last.          *)
(*                                                                         *)
(* libevent and Docker are external: a connection answers its requests in  *)
(* their order, or fails them; freeing it drops them without a callback,   *)
(* and an answer without a body has no callback either.                    *)
(***************************************************************************)
EXTENDS Naturals, Sequences, FiniteSets, SequencesExt

CONSTANTS
    DockerContainer,    \* the ids of containers
    List,               \* the request for the list
    NoConn,
    IsSocket,           \* whether the path in the configuration is a socket
    MaxTicks, MaxStarts \* bounds

ASSUME DockerAssumption ==
    /\ IsFiniteSet(DockerContainer) /\ List \notin DockerContainer
    /\ NoConn \notin Seq(DockerContainer \union {List})
    /\ IsSocket \in BOOLEAN
    /\ MaxTicks \in Nat /\ MaxStarts \in Nat

VARIABLES
    running,            \* the containers that run, external
    starts, ticks,
    conn_,              \* the requests on the connection, in order, or NoConn
    container_info_,    \* the pid known of each container listed, 0 before its details
    pending_tasks_,
    docker_report,      \* request_ of the collector: the running times in it
    collected,          \* the last report copied by a round
    lost,               \* history: details asked for that are never counted off
    listed              \* history: the containers of the last list

docker_vars == <<running, starts, ticks, conn_, container_info_, pending_tasks_,
                 docker_report, collected, lost, listed>>

daemon_vars == <<running, starts>>
collector_vars == <<docker_report, collected>>

KnownContainers == DOMAIN container_info_

\* The details that the connection still has to answer.
Asked == IF conn_ = NoConn THEN {} ELSE {i \in DOMAIN conn_ : conn_[i] # List}

\* The constructor makes a connection, too.
DockerInit ==
    /\ running \in SUBSET DockerContainer /\ starts = 0 /\ ticks = 0
    /\ conn_ = IF IsSocket THEN <<>> ELSE NoConn
    /\ container_info_ = <<>> /\ pending_tasks_ = 0
    /\ docker_report = <<>> /\ collected = [running_time |-> <<>>, usage |-> {}]
    /\ lost = 0 /\ listed = {}

\* A container starts or ends.
StartOrEnd(c) ==
    /\ starts < MaxStarts
    /\ starts' = starts + 1
    /\ running' = IF c \in running THEN running \ {c} ELSE running \union {c}
    /\ UNCHANGED <<ticks, conn_, container_info_, pending_tasks_, collector_vars, lost, listed>>

\* SetUnixDomainSocket: a connection there is, is freed; only if there was none
\* one is made.
SetUnixDomainSocket == IF conn_ # NoConn THEN NoConn ELSE <<>>

\* The timer.  Without a connection Request fails, and the caller does not look
\* at that.
Tick ==
    /\ IsSocket /\ ticks < MaxTicks
    /\ ticks' = ticks + 1
    /\ LET made == SetUnixDomainSocket
       IN  conn_' = IF made = NoConn THEN NoConn ELSE Append(made, List)
    /\ lost' = lost + Cardinality(Asked)
    /\ UNCHANGED <<daemon_vars, container_info_, pending_tasks_, collector_vars, listed>>

\* The first request of the connection is answered.
Answering(request) ==
    /\ conn_ # NoConn /\ conn_ # <<>>
    /\ request = Head(conn_)

\* Mutant: the list is counted, and not its containers.
CountedOnce(containers) == 1

Counted(containers) == Cardinality(containers)

\* ParseContainerList: what is known of a container is replaced, and its
\* details are asked for.
ContainersAnswered ==
    /\ Answering(List)
    /\ container_info_' = [c \in KnownContainers \union running |->
                            IF c \in running THEN 0 ELSE container_info_[c]]
    /\ pending_tasks_' = pending_tasks_ + Counted(running)
    /\ conn_' = Tail(conn_) \o SetToSeq(running)
    /\ listed' = running
    /\ UNCHANGED <<daemon_vars, ticks, collector_vars, lost>>

\* The list is not answered, or by something that is not a list.
ContainersFailed ==
    /\ Answering(List)
    /\ conn_' = Tail(conn_)
    /\ UNCHANGED <<daemon_vars, ticks, container_info_, pending_tasks_, collector_vars,
                   lost, listed>>

\* Mutant: handed over one too early.
LastButOne(pending) == pending <= 1

LastOne(pending) == pending = 0

\* The details, with the pid if the container still runs.  When they were the
\* last that were pending all is handed over that is known, with the pids in
\* the place of the running times (OnContainerList).
DetailAnswered(c) ==
    /\ Answering(c)
    /\ conn_' = Tail(conn_)
    /\ container_info_' = [container_info_ EXCEPT ![c] = IF c \in running THEN 1 ELSE @]
    /\ pending_tasks_' = pending_tasks_ - 1
    /\ docker_report' = IF LastOne(pending_tasks_') THEN container_info_' ELSE docker_report
    /\ UNCHANGED <<daemon_vars, ticks, collected, lost, listed>>

\* A call that fails, or an answer without a body, is not counted off.
DetailFailed(c) ==
    /\ Answering(c)
    /\ conn_' = Tail(conn_)
    /\ lost' = lost + 1
    /\ UNCHANGED <<daemon_vars, ticks, container_info_, pending_tasks_, collector_vars, listed>>

\* GetContainerList of a round: the copy of the report, and a further item for
\* each container of which the table has the pid.  Nobody sets the pid of the
\* containers in the report, and the table has no process 0.
GetContainerList(table) ==
    /\ collected' = [running_time |-> docker_report,
                     usage |-> {c \in DOMAIN docker_report : 0 \in table}]
    /\ UNCHANGED <<daemon_vars, ticks, conn_, container_info_, pending_tasks_, docker_report,
                   lost, listed>>

DockerNext ==
    \/ \E c \in DockerContainer : StartOrEnd(c) \/ DetailAnswered(c) \/ DetailFailed(c)
    \/ Tick \/ ContainersAnswered \/ ContainersFailed
    \/ \E table \in {{}, {1}} : GetContainerList(table)

DockerSpec == DockerInit /\ [][DockerNext]_docker_vars

-----------------------------------------------------------------------------

\* The count of pending details is that of the details on the connection and of
\* all that were ever lost.
PendingExact == pending_tasks_ = Cardinality(Asked) + lost

\* The timer frees the connection every other time, and asks for nothing then.
EveryOtherTick == (conn_ = NoConn) = (~IsSocket \/ ticks % 2 = 1)

\* What is handed over is known, and no round finds the usage of a container.
ReportKnown ==
    /\ DOMAIN docker_report \subseteq KnownContainers
    /\ DOMAIN collected.running_time \subseteq DOMAIN docker_report
    /\ collected.usage = {}

\* The count, the connection and the reports of the Docker collector.
DockerInv == PendingExact /\ EveryOtherTick /\ ReportKnown

\* A report is replaced only when nothing is pending and no details were ever
\* lost: with the first loss it stays what it is.  A new one has all containers
\* of the last list, and all that were in the one before, whether they run or
\* not.
ReportReplaced ==
    [][docker_report' # docker_report =>
        /\ Asked' = {} /\ lost = 0
        /\ listed \union DOMAIN docker_report \subseteq DOMAIN docker_report']_docker_vars
=============================================================================
