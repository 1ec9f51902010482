# Specifications of nova-agent

nova-agent collects traces, metrics and host data on a node and reports them to a
collector. The specifications beside this file model the parts of it whose
correctness depends on the order in which things happen, check them with TLC on
small instances and prove the main results with TLAPS. All paths are
relative to `src/app/`.

## The system

| component | state | operations | who calls it | hard behaviour |
|---|---|---|---|---|
| Kubernetes registry `NameControl` | tables of services and endpoints that own heap objects, indexes of raw pointers by peer and address, pods by address | `set` and `remove` per kind, `findServiceName` | watch threads write, trace threads read | pointers that outlive their object, names shared by objects, late events |
| Watcher | shutdown flag, one thread | `start`, `stop`, three watch loops | `Kubernetes::Source` | the loops test the flag the wrong way round and never watch |
| Trace pipeline | mutex, batch, interceptors, consumers | `push`, `stop` | gRPC threads, `Source` | one batch at a time; exceptions while the mutex is held |
| Trace conversion | none | SkyWalking segment to OTLP spans | pipeline | forms of ids, links, kinds, ownership of the shared resource |
| Topology analysis | two lists of entries, two LRU caches, two aggregators | `intercept`, `build`, `flush`, `clear` | pipeline; two timers | lookup, put and offer are three locked steps |
| LRU cache | list and map of iterators | `put`, `get`, `exists`, `clear` | topology analysis | two structures kept equal |
| Metric aggregators | counts per id | `stats`, `send` | `build`, flush timer | batches cut while iterating, a limit, a sink that drops |
| Topology sink | `running_requests` | four asynchronous calls and their callbacks | `build`, `send` | test and increment are not one step |
| OTLP client | three counters, `is_shutdown_`, shared data | `Export`, callbacks, `Shutdown`, `ForceFlush` | trace sink, stopping thread | counters read while they change, a shutdown at any time |
| Agent life cycle (`Runner`) | loop, pool, sources, servers, a latch | `run`, `onstop` | signal | the stop on the main thread may overtake the start on the source thread |
| gRPC source | server, pipeline, topology timers | `init`, `start`, `stop`, ingestion services | `Runner` | a server that cannot listen, services called by gRPC threads |
| Host source | timer, two tasks, collectors | `init`, `start`, `stop`, the tasks | `Runner`, event loop, pool | a task that arms the timer of a source that may have stopped |
| Network collector | interfaces ever seen, counters, rates | `doit`, `load`, metric callbacks | collection task, metric reader | interfaces that come and go, rates of counters, one interval for all |
| Disk statistics (iostat) | two samples of each device, published values | `stat`, metric callbacks | collection task, metric reader | callbacks read while a scan runs, samples that are lost |
| Container runtime client | items allocated, answered, reported | timer, four callbacks, `GetContainerList` | event loop, gRPC, collection task | answers of earlier rounds, failed calls |
| Docker collector | one connection, table of containers, count of pending details, report | timer, answers and failures, `collect` | event loop, collection task | answers that are lost, a count that belongs to an earlier list |
| Process reader | table of processes of the last scan | `GetProcList`, `GetProcessTable` | collection task | processes that end between two of their files, pids used again |
| GPU reader | handles, time of the last query | `GetGPUData`, `GetGPUProcessMemoryUsage` | process reader, metric reader | buffers with the entries of several processes, one time for all devices, calls that fail |
| Host metrics (CPU, memory, network, GPU) | last reading of the processor | `Start`, `Stop`, callbacks | host source, metric reader | types of instruments and of values, exceptions in an export |
| cgroup collector | the tree of the report | one walk | first task of the host source | groups that come and go while they are listed |
| Disks and file systems | none | one reading of each table of mounts | collection task | mounts that come and go between the table and the question |
| OTLP environment | none | the options of three signals, the headers | nobody | (not run by the agent) |
| Log and JVM ingestion | one request shared by the streams of logs | `collect` of both services, conversion of JVM samples | gRPC threads | streams that share a member and a pipeline |

Spans arrive on gRPC threads and are pushed into the trace pipeline, whose mutex
makes batches sequential. A batch is converted, analysed by the topology listener
and exported by the OTLP client. The analysis reads the registry, counts requests
in the aggregators and offers services and relations to the topology sink, which
drops them when it is full. The event loop thread flushes the aggregators every
minute and clears the caches; gRPC runs the callbacks of the calls.

`Runner::run` builds what the configuration enables, starts a thread for the
gRPC source and one for the watcher, and runs the event loop until a signal. The
timer of the host source gives a task to the pool of threads, which calls the
collectors and arms the timer again; the metric reader of OpenTelemetry calls
back into the collectors on a thread of its own.

What makes them correct: a lookup in the registry answers with a live object that
has the name asked for; every request is counted once, however batches are cut;
every service is reported once per clearing period; the counters of calls are
exact, since a wrapped or leaked counter silences the agent for good; a flush
waits for what it is supposed to wait for; a signal stops every thread; the
collection goes on and never runs twice at once; rates come from two samples of
the same thing and the time between them; what a callback allocates is freed once.

## Modules

| module | models | proofs |
|---|---|---|
| `NameControl` | the registry and its dispatchers | `NameControlProofs` |
| `SlotPool` | abstract: a pool of slots that are always given back | |
| `TopologySink` | `Sink::Topology::Sink`; implements `SlotPool` | `TopologyProofs` |
| `MetricAggregator` | both aggregators | `MetricAggregatorProofs` |
| `RecencyList` | abstract: the keys used last, in order | |
| `LruCache` | `LruCache`; implements `RecencyList` | `TopologyProofs` |
| `RpcAnalysis` | topology listener and processor, composed with `RecencyList` (the caches) and `SlotPool` (the sink) | `TopologyProofs` |
| `OtlpGrpcClient` | the OTLP trace client and its destructor | `TraceExportProofs` |
| `TraceConversion` | segment to spans to request, as operators; extends `OtlpAttributes` | |
| `MetricConversion` | JVM samples to metrics, as operators; extends `OtlpAttributes` | `TraceExportProofs` |
| `OtlpAttributes` | how a value is written into a message | |
| `Ingestion` | the services of the SkyWalking source and the pipelines, over both conversions | `TraceExportProofs` |
| `AgentLifecycle` | `Runner::run` with the source thread, the watcher, the pool and the host source | `AgentLifecycleProofs` |
| `NetworkCollector` | `NetworkInterface`, `NetworkCollector`, `CacheStorage` | `NetworkCollectorProofs` |
| `Iostat` | one scan of the disks and the callbacks beside it | `IostatProofs` |
| `CriClient` | `DockerCRIClient` and the collection of its answers | `HostReportProofs` |
| `DockerClient` | `DockerHttpClient`, its connection and `ContainerCollector` | `HostReportProofs` |
| `ProcReader` | `ProcReader`; extends `GpuReader` and `Procfs` | `HostReportProofs` |
| `GpuReader` | `GPUReader`, as operators | `HostReportProofs` |
| `HostMetrics` | the metrics of the host and their exports; extends `GpuReader` and `Procfs` | `HostReportProofs` |
| `Procfs` | what the readers of `/proc` share: files that are missing, and counters of a width | |
| `CGroup` | the walk over the control groups and what is reported of their files | `HostReportProofs` |
| `MountReport` | the disks and the file systems of a report; extends `Procfs` | `HostReportProofs` |
| `MCNameControl`, `MCRpcAnalysis` | constants for TLC | |
| `MCIngestion` | segments, logs and samples for `Ingestion` | |
| `MCHostReport` | the collectors of the host: processes, metrics, Docker, runtime, control groups, mounts | |

**NameControl.** One action per write method, since each holds `mtx`. Heap
addresses are part of the state: an object is stored at a free address, the
`unique_ptr` table frees it, and an address may be used again, so that a dangling
pointer is a pointer to a free cell or to an object that does not list the key.
Events list any non-empty part of what a service may list, because ports and
addresses change; those of `StableSvc` always list the same. A service is keyed
by its name alone, as in the code. The code erases the peers of the *new* object,
so a service that drops a peer leaves a pointer to the freed object behind; the
properties say for which keys this cannot happen (`DriftFree`), and the
counterexamples for the others are the reason for that condition. Reading while
another thread writes is not modelled: `findServiceName` takes no lock, which is a
data race.

**TopologySink.** Each of the four methods is Drop, or Pass, Count and Start, one
atomic access each; a callback is `EndCall` (`Complete` in `RpcAnalysis`, where the
sink is the abstract pool). `Call` bounds the heap of call objects; the assumption
says that it suffices. The test is `>`, and every caller
may pass it before any of them increments: the real limit is `HardLimit`.

**MetricAggregator.** `stats` is one action under the lock. `send` keeps the lock
from `SendBegin` to `SendEnd`, with one action per element of the map, so that the
refusal of `stats` meanwhile is a guard and not a consequence of atomicity. The
sink takes or drops each batch. The history variables say where every request
went. The mean latency is left out.

**LruCache.** Nodes are heap cells and the map holds iterators (nodes), because
what can go wrong is the disagreement of list and map. The refinement mapping
reads the keys off the list.

**RpcAnalysis.** `build()` is cut at each access to a cache, an aggregator or the
sink, since the timers can run in between; parsing is one action with the start
of the batch, because only the pipeline's thread sees its result. Ids are the
names that are hashed, which supposes no collision. The registry is constant.
`accepted` is the effect of `Swap` in the sink: the service object is empty after
a call that the sink took, and the next statement of `build` reads its id.

**OtlpGrpcClient.** Each atomic counter is changed in an action of its own. A
call goes through started, returning (one counter changed) and done. A wait of
`ForceFlush` ends with a timeout, after which it goes on, or with a wake, after
which it does not; nobody notifies the condition variable, so a wake can only be
spurious. The destructor waits for `running_requests` only, which the callback takes
down before it counts the call as finished and deletes it (otlp_grpc_client.cc:315,
316, 321): when the client is gone, callbacks may still be returning on the data that
they share (`CalledBack`). The channel is an external that answers a call or not; the
sinks take its address from `SINK_HOST` and set no option from the environment.

**AgentLifecycle.** The main thread is a program counter through `Runner::run`,
one action per start and stop of a part, beside the source thread, the watcher
thread and the pool. The set of enabled parts is chosen in `Init`. A pointer that
is used while it is null clears `alive`, and nothing happens any more; so does an
exception that leaves a thread. Tasks are only what they do to the life cycle: the
first starts the CPU metric, unless the walk over the control groups throws before
(cgroup_collector.cc:433), which nothing in the task catches; the collection arms
the timer. `Give` sends both to the same thread of the pool, since nothing
increments the counter that should choose the thread (`count`, source.h:66).
`StopPool` waits for no task, so that one may still run when `run()` returns.
`callbacks` counts how often each metric is registered; the disks are absent,
because nobody calls the `install` of their collector.

**NetworkCollector.** A run of `doit` is cut between interfaces, so that the
kernel may remove one between the read of `/proc/net/dev` and the request for its
flags. Interfaces are numbers in the order of the map that `doit` iterates over.
`Stored` translates the overwriting of the transmitted bytes as it stands.

**Iostat.** A scan is Begin, the uptime, the devices, one Write per device and
End; a callback reads between any two of them. `curr` alternates between the two
samples of an entry. `prior` is a history variable.

**CriClient.** One action per timer, answer, failure and collection; answers of
all rounds that a deadline allows to be out come in any order. The heap is the
set of items allocated and not freed. Calls themselves are not part of the state:
nobody frees one, whatever happens to it.

**DockerClient.** One action per tick of the timer, answer and failure. The
connection is the sequence of the requests on it; a new one drops the others
without a callback. `pending_tasks_` is set by a list and taken down by details;
`lost` counts those that can take it down no more.

**ProcReader, GpuReader.** A round is one action, since nothing of its state is
read meanwhile, but it chooses for each process that ends during the round how
many of its files are read before; births and work happen between rounds, and the
kernel gives a pid again. A rate is the pair of a difference and an interval. The
buffer of NVML is indexed by the number of the device and not of the entry, as in
the code. `GpuReader` takes the answers of each device from a record, in which any
call may fail; one for samples also fails when there are none that are newer. The
code fills the table of usages device by device; `ProcessUsage` is what is in it at
the end: of each pid what the last device with an entry of it says, and the last of
its samples. `last_sample_ts_` is one for all devices, so that a device after one
that has answered is asked for what is newer than the answer (`Since`). `Installed`
has any number of devices, each used by any processes; in every round any of their
calls may fail. A device has a sample of each process on it that worked since the
round before, and still those of that round.

**HostMetrics.** An export calls back the instruments that have been started; an
instrument has the type it was made with and a value that of the expression that
is observed, and an observation of the wrong type raises. Reads are the files of
the moment, or none. Each callback reads the file
it needs for itself, so that of two on one file one may fail.

**MountReport.** Both collectors of one task, one after the other: `/proc/mounts` is
read line by line and then handled, `/proc/self/mountinfo` is handled while it is
read. The kernel mounts and unmounts between any two steps; a question is by path
and is answered by whatever is there then. Mounts are numbers in the order of the
table. Names are records with the marks that the code looks for. The arithmetic is
that of the code.

**CGroup.** The walk is a stack of what is left of each open directory, in the
order of the kernel (any). Groups are made and removed between any two steps of
it. `pending` is the directory listed last, which the iterator opens only when it
is advanced. The files of a group are reported by tables that say how each is
parsed and which field it sets.

**MCHostReport.** The collectors share no state but the pids, so that each part is
checked with the others at rest (`part` says which moves): their product would
only repeat each of their states. It extends them all, so that TLC evaluates the
assumptions of each and the theorems are about the same definitions.

## Runs

| run | properties | instance and bounds |
|---|---|---|
| `registry` | `OwnedOnce`, `PeerIndexExact`, `EndpointIndexExact`, `PodIndexExact`, `LookupSound` | three services, two of which share a peer and one drops peers; two Endpoints objects that share an address; three pods of which two compete for an address; four addresses: one more than objects, the new one being allocated before the old is freed; symmetric addresses |
| `topology_sink` | `SinkInv`, `ImplementsPool` | three callers, limit one: the counter reaches its hard limit of four |
| `metric_aggregator` | `AggregatorInv`, `EventuallyReported` | four ids, one without a name, against a limit of two: batches of two and more, a full cache, four requests (`MaxObserved`) |
| `lru_cache` | `CacheInv`, `ImplementsRecency` | three keys, two entries, five uses (`MaxUses`): every put of a third key evicts |
| `rpc_analysis` | `OfferedOnce`, `RegistrationInv`, `Counted`, `BatchesEnd` | two server and three client spans of four requests, one to a data base and one reported by both sides; batches of two, caches of two ids, a sink of two slots, so that eviction, clears and a full sink all meet |
| `otlp_client` | `ClientInv`, `FlushedQuietly`, `AtMostOneMore`, `ShutdownReturns` | four calls, limit two, one shutdown and the destructor |
| `ingestion` | `ResourcesOwned`, `RequestsExact`, `MetricsFaithful`, `StreamsReturn` | two streams of any kind, two messages in all (`MaxMessages`), so every pair of eight segments, on one stream or on two at once: ids of all forms, a tree over two segments, segments that throw before, in the middle or at the end |
| `agent_lifecycle` | `TaskInv`, `CrashOnlyEarly`, `ShutdownEnds`, `CollectsAgain` | every set of enabled parts, a server that may not listen, a first task that may throw, a pool of two threads, a signal at any time; no bound |
| `watcher` | `WatchesWhileRunning` (violated) | the watcher alone, fair |
| `network_collector` | `RateInv`, `ReachedWhenUp`, `GoneHidesLater` | two interfaces, two ticks (`MaxTime`), one packet each way (`MaxCount`), two changes (`MaxChanges`) between any two steps of a run |
| `iostat` | `ScanInv` | two devices, three instants, one transfer and one change each, callbacks between any two steps of a scan |
| `host_report` | `ReportInv`, `ReportedOnce` (runtime); `DockerInv`, `ReportReplaced` (Docker); `RatesOfPeriod`, `GpuOfOwner` (processes); `ExportOfPeriod` (metrics); `WalkInv` (control groups); `MountsInv` (mounts) | runtime: the period of three and the deadline of five seconds, one container that comes and goes, six rounds: two more than can be out. Docker: two containers, six ticks. Processes: two pids, two births, two rounds, so that a pid is used again between two rounds; two graphics processors of which one process uses both, and a call to each of which may fail in a round. Metrics: three exports, counters that go back. Control groups: four, three made or removed during the walk. Mounts: three of six kinds that are mounted, covered and unmounted at any step, among them one that cannot be asked |

Properties that are conjunctions have named and commented parts in their modules:

| property | parts |
|---|---|
| `OwnedOnce` | `ServicesOwned`, `EndpointsOwned` |
| `PeerIndexExact`, `EndpointIndexExact` | no pointer of the index dangles (`…Sound`), and none is missing (`…Complete`) |
| `SinkInv` | `CountExact`, `Limited` |
| `AggregatorInv` | `Conservation`, `CacheBound` |
| `CacheInv` | `IndexExact`, `MostRecentKept` |
| `RegistrationInv` | `RememberedOffered`, `InRelationWithService` |
| `ClientInv` | `CountersExact`, `Limited`, `CalledBack` |
| `ResourcesOwned` | `PipelineInv`, and one owner of each resource that is not lost |
| `RequestsExact` | `TokenOfStream`, `AnsweredOnce`, `SpanTree` |
| `TaskInv` | `OneCollection`, `TasksApart`, `ThreadsJoined` |
| `RateInv` | `NoWrap`, `IntervalOfSole` |
| `ScanInv` | `OneScan`, `ScanPublished` |
| `ReportInv` | `HeapExact`, `NotOlder`, `CopiesBound` |
| `DockerInv` | `PendingExact`, `EveryOtherTick`, `ReportKnown` |
| `WalkInv` | `OneTree`, `SteadyReported`, `FailedByRemoval`, `FigureOfFile` |
| `MountsInv` | `InOrder` of both lists, `InPlaceReported` |

The bounds are small because the state that matters is: two objects suffice for a
shared name, one address more than objects for a reuse, one caller more than the
limit for an overshoot, one key more than the cache for an eviction, two
interfaces for one that hides another, two devices for two scans in one answer.
Containers do not interact but through the rounds, so one is enough for the
runtime; messages interact through the pipeline, one at a time, so two are enough.
Deadlock is checked everywhere but where everything ends: for the OTLP client, the
parts of the report and the streams, whose calls, rounds and messages are bounded,
and for the agent, which stops.

The type of the state is a part of the main invariant of a module wherever it has
one.

### What they show

All invariants and temporal properties of the passing runs hold. One statement
of the source does not:

* `watcher`: the watches are to last thirty seconds (watcher.h:44). The functions
  that watch return at once unless the watcher is shut down (watcher.cc:102, 134,
  156), and the loop that calls them runs only while it is not. The registry stays
  empty while the agent runs.

Several properties that hold say how far a promise goes, and their conditions are
what the code does not promise:

* `DockerInv`, `ReportReplaced`: `pending_tasks_` counts the details to come, and
  what was lost. After the first loss the report of the collector is never
  replaced. A container that is gone stays in every later report.
* `RatesOfPeriod`: the rates are those of a process if its pid was not given again
  since the round before; otherwise two processes are subtracted.
* `GpuOfOwner`: what is said of a process is its own, but not all of it: of the
  processes of a device one entry is read, memory is cut to an unsigned int (beyond
  4 GiB it is the rest of the division), and a device after one that answered is
  asked for samples that are too new (`UsageOfEach`).
* `TaskInv`: the source thread and the watcher thread end before `run()` returns; the
  tasks of the pool need not (`TasksEnded`).
* `CrashOnlyEarly`: this is about the parts that `run()` starts and stops and about the
  first task. A span may also end the process: with an id of a segment that is too
  short, links with an id of no valid form, two references of a server span.
  `AgentLifecycle` has no spans.
* `ClientInv`: the destructor waits for the calls, not for the end of their callbacks.
* `RateInv`: the rate of the bytes transmitted is not in it: its counter is
  overwritten, and it wraps (`TransmittedReported`).
* `MountsInv`: a mount that is not in place from the begin to the end may be missing or
  have the numbers of another file system (`OwnNumbers`). A disk never has a file
  system in the report. One under a path with a blank, which the table escapes, is
  no disk of the report, though a file system of it.
* `ReportedOnce`: this compares a report with the next one, not with all later ones.
* `ExportOfPeriod`: an instrument of the memory of the machine fails when its own
  reading of the file does, for the integer 0 is then given to one made for doubles.
* `WalkInv`: the walk reports every group that is there from its begin to its end,
  unless it fails, and it fails only when a group is removed after it was listed.
* `ResourcesOwned`: the resource of a segment whose first span throws is freed by
  nobody.
* `RequestsExact`: spans keep their tree for the usual forms of segment ids (with
  dashes all spans of a segment get one id, and an id that is too short ends the
  program) and for spans numbered as agents do; a span carries the token of its
  stream, and any that an agent has tagged it with.
* `MetricsFaithful`: the samples of a JVM would be converted as they should, but no
  collection gets there: the service returns before it pushes, since
  `IsInitialized` is true of every message.

More configurations stand beside those of the runs. Each checks one statement of
the source, of a sort the passing properties are the exact form of, and ends in a
counterexample (`tlc -config MC<x>.cfg <module>`):

| configuration | property | what the counterexample shows |
|---|---|---|
| `MCRpcAnalysis_mixed` | `CountedOnce` | the comment in `build()` (rpc_analysis_listener.cc:320) means to count at the exit only what no entry counts; the name it looks up has been translated to a Kubernetes name before, which the registry does not index, so that calls between two known services are counted twice (`Counted`) |
| `MCOtlpGrpcClient_flush` | `AllSessionsFinished` | `ForceFlush` says that it waits for all sessions (otlp_grpc_client.cc:235); it compares how many calls were started with how many ended, so that a later call that ended makes up for an earlier one that runs (`FlushedQuietly`) |
| `MCOtlpGrpcClient_shutdown` | `ShutdownStored` | `is_shutdown_` says it stores whether `Shutdown` was called (otlp_grpc_client.h:85); a shutdown before the first export stores nothing (`AtMostOneMore`) |
| `MCIostat_previous` | `PreviousSample` | `write_basic_stat` is given the "Previous sample statistics" (handler.cc:503); `stat` clears the entries that hold them, so that every device is compared with zeros and rates are totals since boot over one interval (`ScanPublished`) |
| `MCNetworkCollector_two` | `IntervalOfInterface` | the two uptimes are those of the last loads of any interface, so that rates are divided by the time between two interfaces (`IntervalOfSole`) |
| `MCNetworkCollector_tx` | `TransmittedReported` | the bytes transmitted are overwritten with the bytes received (cache_storage.cc:39) |
| `MCAgentLifecycle_turn` | `StoppedInTurn` | a stop before the source thread has made the topology timers uses null pointers (`CrashOnlyEarly`) |
| `MCAgentLifecycle_metrics` | `MetricsStopped` | `NetworkCollector::stop` starts its metrics again (network_collector.cc:187) |
| `MCAgentLifecycle_cpu` | `CpuMetricStopped` | the first task on the pool starts the CPU metric, possibly after the stop (source/source/host/source.cc:88) |
| `MCAgentLifecycle_tasks` | `TasksEnded` | `onstop` says that all services are stopped one after the other (runner.cc:40); the host source stops its timer and nobody waits for a task that runs (`TaskInv`) |
| `MCHostReport_own` (with `-continue`) | `UsageOfEach`, `SizesAdd`, `OwnNumbers` | the usage of each graphics processor is needed (gpu_reader.h:31); of two that answer, the second is asked for samples after the answer of the first, and one entry of its processes is read (`GpuOfOwner`). Size, used and available of a file system (file.h:35) do not add up: two of them are counts of inodes times the size of a block, and the other is multiplied by that size again (file.cc:210). A disk has the numbers of what is at its path when it is asked for (`MountsInv`) |

## Fairness

* Topology sink: a thread inside a method goes on (`Count`, `Start`), and every
  call ends, for its context has a deadline of five seconds (sink.cc:30). No
  thread needs to call.
* Aggregator: the timer arms itself after every flush (topology/processor.cc:200),
  and the loop under the lock goes on.
* Analysis: `build()` never waits; nothing is assumed of timers, callbacks or
  arrivals.
* OTLP client: an export, a shutdown and a destructor that have begun go on, and
  every call ends (deadline of five seconds, export_trace_service_call_data.h:23).
  Neither exports nor a shutdown need to begin.
* Ingestion: the thread of a stream that can go on does (weak fairness of the steps
  of each). It suffices for the mutex, which each holder gives back, because the
  messages that others may send while one waits are bounded. Nothing is assumed of
  agents.
* Agent: every thread goes on when it can, and an enabled timer fires while the
  loop runs. The signal need not come; the properties say what holds until it
  does. `watcher` is checked under the same fairness.
* Network collector: a run visits the interfaces to the end (weak fairness of
  `Visit`), and runs begin again and again, since the timer is armed by each
  collection; the kernel file can be read infinitely often (strong fairness of
  `ReadProc`, which a run in progress disables).
* Disks, collectors of the report: no liveness is claimed.

## Proofs

Each theorem is about the specification of its module (`Spec`, or a name of its own
where one proof module extends several: `SinkSpec`, `CacheSpec`, `DockerSpec`,
`CGroupSpec`, `ReaderSpec`, `MetricsSpec`, `MountSpec`, `IngestionSpec`), for every
value of the constants that satisfies the assumptions of the module, and needs no
fairness. It follows from an inductive invariant (`IInv`, `SinkIInv`, `CacheIInv`,
...) that is proved of the initial states and of every action. Theorems about the
merged properties cite those about their parts.

* `NameControlProofs`: `TypeCorrect`, `Ownership`, `PeerIndex`, `EndpointIndex`,
  `PodIndex`, `LookupSoundness`. The three tables do not touch each other's
  variables, so the invariant has three parts with a frame lemma each. The
  soundness of the indexes is not inductive without ownership (a free must only
  hit the object that the table names) and, for peers of stable services, without
  knowing that the stored object lists what its events list. For endpoints the
  key fact is `ErasedStoredLeavesNone`: all pointers to the stored object are at
  its own addresses. Completeness needs that no event of another object can touch
  a key that only one may list.
* `TopologyProofs`, the sink: `SinkCorrect` (from `Exactness` and `LimitHolds`),
  `SinkRefinement`. A thread that has passed the test holds a reservation; what is
  counted and reserved together never exceeds `HardLimit`, because the first to
  pass found the counter at the limit at most. The refinement theorem is the
  safety part of `ImplementsPool`.
* `TopologyProofs`, the cache: `CacheCorrect`, `CacheImplementsRecency`. Every
  operation is a removal of at most one place of the list, a node put in front of
  it and a cut at the end, so that one description of the list that comes out, by
  its places (`FrontedAt`), serves the agreement of list and map, the order of the
  last uses, and the step of `RecencyList` that the keys of the list take. The order
  is what makes the evicted key the one used longest ago.
* `TopologyProofs`, the analysis: `RegistrationCorrect`, `OfferedOnceOnly`,
  `RequestsCounted`. The invariant ties each step of `build()` to the front of the
  cache: between the put of an id and its offer the id is in front, or `clear()` has
  come and is in `overlap`. That is what bounds the offers of an id by one while it
  is remembered, and by two across a clear. For the counts it says which requests
  have entries in the two queues and that a request has one in each at most.
* `MetricAggregatorProofs`: `TypeCorrect`, `AggregatorCorrect` (from `Accounting`
  and `CacheBounded`). The conservation law needs that the ids to come, those in
  the request and those reported partition the cache, that `sum` counts the ones
  passed, and hence that the last element always sends the request.
* `TraceExportProofs`, the client: `TypeCorrect`, `ClientCorrect` (from `Exactness`,
  `LimitHolds` and what the destructor has waited for), `QuietFlush`,
  `NoExportAfterShutdown`. The limit needs that there is a single exporter between
  the test and the increment; `QuietFlush` needs that the snapshot stays equal to
  the number of calls while none is started.
* `TraceExportProofs`, the streams and the pipeline: `ResourcesCorrect`,
  `RequestsCorrect`. The invariant says where each thread is and that who holds the
  mutex is alone between the conversion and the sink (`PipelineInv`); that the batch
  there is nothing, or the spans of the segment its thread holds with the resource
  made last, freed by the first of them (`BatchFits`); that otherwise only lost
  resources are left; and that the requests and refusals are those of the messages
  that were read and are no longer held, one of each (`AnswersFit`). What a request
  is made of is then `Spans` and `Resource` of one segment and one token, for every
  choice of what the bytes that are gone hold: tokens and the tree of spans follow
  from these operators alone, and the count of answers from the numbers of the
  messages.
* `TraceExportProofs`, the metrics of the JVM: `MetricsCorrect`. Only collections are
  acknowledged (`AckedFits`), and the rest is about the conversion of any of them:
  place 3(i - 1) + k of the list is metric k of sample i (`MetricsListed`), its points
  are those of the areas and then of the pools (`FigurePoints`), and putting together
  what one name has in the request is putting together the reports of the samples, with
  nothing between them (`ThinnedFlatten`).
* `HostReportProofs`, the runtime: `ReportsCorrect` (from `ItemsExact` and
  `CopiesLimited`), `Once`. Ownership needs that an item is in one place at a time
  and that the items of a round do not exist before its list is answered; the bound
  of the copies needs that the report remembers a round in which all of its items
  could be out, to which their rounds are shifted.
* `HostReportProofs`, Docker: `DockerCorrect`, `ReplacedWhenComplete`. The count of
  pending details is the number of requests for details on the connection and of
  all that were lost with one, so that a queue is compared with the set of the places
  of its details (`DetailsIn`) at every append, answer and loss. That a replaced
  report is complete needs that nothing was lost by then and that the answer is the
  last of the queue.
* `HostReportProofs`, the walk: `WalkCorrect`, for every tree of groups. The mounts
  and the groups that are there are trees (`TreeOfGroups`, `TreeOfMounts`), what is
  left of an open directory are children that have no mount yet, and every child of
  a mount that stays is a mount, in what is left of a listing, or below the directory
  that is opened next (`ChildrenToCome`). At the end nothing is left, and a steady
  group without a mount would have a highest one whose parent has a mount: the
  assumption that the tree is well-founded gives it.
* `HostReportProofs`, the processes: `RatesCorrect`, `GpuOfOwnerHolds`. The invariant
  ties the table to the kernel (`ReaderIInv`): ids of processes are never above
  the number of births, so that a new process is none of those that were seen; a
  sample has the work of the process it was taken of, unless it was not taken, and that
  work is not more than the process has done since (`SampleFits`, `TableFits`). Then the
  difference of two samples of one process does not borrow, and what whole seconds of
  both cut off is less than a second. For the graphics processors (`GpuIInv`)
  no sample in the table is newer than the last query, hence one that is shown in the
  next report is another one; that it is the process's own is about each device: what
  is answered are entries and samples of the pids on it, made by the process that has
  the pid or had it at the round before (`SamplesFacts`, `UsageOfOwner`).
* `HostReportProofs`, the metrics: `ExportsCorrect`. What is kept of the processor is
  nothing or what the kernel has counted on from (`CountedFrom`), although the time of
  waiting goes back: total and busy time do not, and fit their type, so that neither
  difference wraps. The metrics of the memory are started and stopped together
  (`MetricsIInv`), hence an export that fails for the memory fails for both of them.
* `HostReportProofs`, the mounts: `MountsReported`. A mount in place is still to be
  read, is read and to be handled, or is in the list as it should be (`ToCome`). Lines
  are handled in the order of their numbers, so that what is reported comes before what
  is not (`BeforeLines`) and nothing is reported twice; and as no other mount covers a
  mount in place, what statfs said of its path is its own until stat has answered
  (`FsdFits`).
* `IostatProofs`: `ScanCorrect`. Between the begin and the end of a scan the
  statistics are of the devices passed so far (`Passed`) and of one interval
  (`OneInterval`), because it begins with nothing published (`Cleared`).
* `NetworkCollectorProofs`: `RatesCorrect`. `Grows` says that the kernel is ahead
  of what was parsed, which is ahead of what was stored, for each interface that
  was not created again: then no difference borrows (`Difference`), and a quotient
  is not more than what is divided (`Quotient`). `SoleClock` keeps the uptime that
  the next load of a sole interface is measured from.
* `AgentLifecycleProofs`: `TasksSafe`, `CrashesKnown`. The invariant says where the
  main thread must be for each of the other threads to exist (`TraceInv`,
  `WatchInv`), and what the first thread of the pool may have to do (`HostInv`): the
  first task comes before any collection, and a timer that is enabled, a
  collection that waits and one that runs exclude each other. From that at most
  one collection exists, and no two tasks run at once because all of them go to
  one thread.

Assumptions on the constants are those named in the modules: finite sets of
threads, calls, ids and containers, limits that are natural numbers, a period and
a deadline that are not zero, times and counters that fit their words, and model
values that are not objects. Those that say more:

* `AnalysisAssumption`: a name that the registry translates to is not itself one that
  it translates, for keys are addresses and host names, with dots or colons, and
  what they are translated to is the name of a Kubernetes object, which has none
  (common/kubernetes/service.cc:159); a request has one client span and one server span
  at most, each reported once; a batch is not empty; and a cache holds two ids or more
  (the code makes both with 500, rpc_analysis_listener.h:18), so that the relation of an
  entry does not evict its service.
* `CacheAssumption`: there are two nodes more than the cache may hold, since a node is
  made before the old one of the key or the last one goes.
* `CGroupAssumption`: every set of groups but the root has one whose parent is not in
  it: the directories of the kernel are a tree.
* `IngestionAssumption`: spans, references and tags are sequences, and tags are pairs
  of strings, as in the protocol; so are samples and their areas, pools and collections
  of garbage.
* `ReaderAssumption`: pids are positive, a counter of a process fits into its word, and
  a second has more than one tick (100 in `sysconf`). `MetricsAssumption`: the counters
  of the processor fit into theirs, up to the bound of the model.

Only model-checked, and why: the liveness properties, which the proof system does not
treat (`EventuallyReported`, `BatchesEnd`, `ShutdownReturns`, `ShutdownEnds`,
`CollectsAgain`, `ReachedWhenUp`, `GoneHidesLater`, `StreamsReturn` and the fairness
part of `ImplementsPool`). Every invariant and every action property of the passing
runs is a theorem.

The library's theorems about induction take operators, which the provers cannot
instantiate. Where a proof is by induction over numbers it takes the least number of
which the claim fails: `NatLessThanWellFounded` and `WFMin` give it (`Least`,
`Induct`). Functions that are defined by recursion over the places of a sequence
(`FlattenSeq`) are shown to exist in this way, and what they are then follows
place by place.

## Plan

Done, in the order of importance for what the agent reports: registry, sink,
aggregators, cache, their composition in the topology analysis, OTLP client; the
life cycle of the agent with the watcher and the host source, the network and disk
collectors and the container client; the services of the SkyWalking source with
their pipelines and conversions, and the remaining collectors of the report.

Next:

1. The refinement of the two caches inside `RpcAnalysis` by `LruCache`, which
   `CacheImplementsRecency` allows to state for the composition.
2. `Ingestion` composed with `RpcAnalysis`: the second interceptor under the same
   mutex, and the exceptions that pass through it.

## Not modelled

* `iostat/common.cc`, `rd_stats.cc`, `ioconf.cc` and `rd_stats.h` are taken from
  sysstat; the agent calls the readers of the uptime and of the list of devices,
  which `Iostat` takes as inputs, and links the rest.
* The environment of the exporters (otlp_environment.cc) has no caller. The metrics
  and the kinds of disks (disk_collector.cc:119 and from 139 on) have none either.
* The description of the processor is read once and nothing of it is kept; the
  configuration is read once, before any thread (`AgentLifecycle` chooses the parts it
  enables); the node report client has four asynchronous calls without state.
* `grpc`, the event loop, libevent, NVML, the OpenTelemetry SDK and the Kubernetes
  client are libraries: callbacks and timers are modelled from how the code uses
  them. The wording of names and units, the parsing of text and the formats of
  addresses are left out.

Facts that the models contain and that are not properties, because only the absence
of a call or undefined behaviour shows them:

* `findServiceName` reads the tables while other threads write them.
* Calls of the runtime client are allocated for each round and never freed.
* Nobody calls `install` of the collector of disks, so that its callbacks are never
  registered; `NetworkCollector::stop` starts its metrics, and the first task of the
  host source may start that of the CPU after the stop.
* The streams of logs share the member they read into, and the event made of a log
  has no body, since it is moved twice.
* A server span with two references moves its builder into a list for the first of
  them and uses it for the second, which ends the process (`RpcAnalysis` has spans
  with one).
* `Shutdown` before the first export does not store that it was called.
