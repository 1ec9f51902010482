---------------------------- MODULE MetricConversion ----------------------------
(***************************************************************************)
(* The conversion of a collection of JVM samples into a request of         *)
(* metrics, as operators: the Processor of metrics and OtlpMetricUtils.    *)
(* A sample has memory areas, memory pools, collections of garbage, and    *)
(* the figures of cpu, threads and classes.                                *)
(***************************************************************************)
EXTENDS OtlpAttributes, SequencesExt

-----------------------------------------------------------------------------
(* Points and metrics.                                                     *)

Pt(type, value, attributes) ==
    [of |-> "LastValue", type |-> type, value |-> value, attributes |-> attributes]

\* Every metric is a delta from the time of its sample to the same time.
Metric(name, instrument, sample, points) ==
    [name |-> name, instrument |-> instrument, temporality |-> "delta",
     start |-> sample.time, end |-> sample.time, points |-> points]

\* getMemoryPoolTyp
PoolTypes ==
    {"CODE_CACHE_USAGE", "NEWGEN_USAGE", "OLDGEN_USAGE", "SURVIVOR_USAGE", "PERMGEN_USAGE",
     "METASPACE_USAGE", "ZHEAP_USAGE", "COMPRESSED_CLASS_SPACE_USAGE",
     "CODEHEAP_NON_NMETHODS_USAGE", "CODEHEAP_PROFILED_NMETHODS_USAGE",
     "CODEHEAP_NON_PROFILED_NMETHODS_USAGE"}

getMemoryPoolTyp(type) == IF type \in PoolTypes THEN type ELSE "UNKNOWN"

\* getGCPhase
getGCPhase(phase) ==
    CASE phase = "NEW" -> "Young"
      [] phase = "OLD" -> "Old"
      [] phase = "NORMAL" -> "NORMAL"
      [] OTHER -> "UNKNOWN"

Key(key, name) == {Stored(key, name)}

\* The points of a memory area and of a pool, whose name is the type of memory
\* where the figure is the limit.
AreaPoint(area, figure) ==
    Pt("int64_t", area[figure], Key("jvm.memory.type", IF area.isheap THEN "heap" ELSE "non_heap"))

PoolPoint(pool, figure) ==
    Pt("int64_t", pool[figure],
       Key(IF figure = "max" THEN "jvm.memory.type" ELSE "jvm.memory.pool.name",
           getMemoryPoolTyp(pool.type)))

\* Mutant: all figures of pools but the use are the limit.
MemoryPointsMixed(sample, figure) ==
    [i \in DOMAIN sample.memory |-> AreaPoint(sample.memory[i], figure)]
    \o [i \in DOMAIN sample.pools |->
            PoolPoint(sample.pools[i], IF figure = "used" THEN "used" ELSE "max")]

\* The points of a figure: those of the areas, then those of the pools.
MemoryPoints(sample, figure) ==
    [i \in DOMAIN sample.memory |-> AreaPoint(sample.memory[i], figure)]
    \o [i \in DOMAIN sample.pools |-> PoolPoint(sample.pools[i], figure)]

\* The four metrics of the memory, and the four of the pools, that get no
\* points and of which three have one name.
MemoryMetrics(sample) ==
    LET M(name, points) == Metric(name, "UpDownCounter", sample, points)
    IN  [used      |-> M("jvm.memory.used", MemoryPoints(sample, "used")),
         committed |-> M("jvm.memory.committed", MemoryPoints(sample, "committed")),
         init      |-> M("jvm.memory.init", MemoryPoints(sample, "init")),
         limit     |-> M("jvm.memory.limit", MemoryPoints(sample, "max")),
         poolUse   |-> M("jvm.memory.pool.use", <<>>),
         poolLimit |-> M("jvm.memory.pool.init", <<>>),
         poolInit  |-> M("jvm.memory.pool.init", <<>>),
         poolCommitted |-> M("jvm.memory.pool.init", <<>>)]

\* A histogram of doubles ignores what is given to it as an integer, as the
\* time of a collection is: its points count nothing.
GcMetric(sample) ==
    Metric("jvm.gc.duration", "Histogram", sample,
        [i \in DOMAIN sample.gc |->
            [of |-> "Histogram", type |-> "double", count |-> 0, sum |-> 0, minMax |-> TRUE,
             attributes |-> Key("jvm.gc.name", getGCPhase(sample.gc[i]))]])

CpuMetric(sample) ==
    Metric("jvm.cpu.recent_utilization", "UpDownCounter", sample,
           <<Pt("double", sample.cpu, {})>>)

ThreadMetric(sample) ==
    LET states == <<"new", "runnable", "blocked", "waiting", "timed_waiting", "daemon", "peak">>
    IN  Metric("jvm.thread.count", "UpDownCounter", sample,
            [i \in DOMAIN states |->
                Pt("int64_t", sample.thread[i], Key("jvm.thread.state", states[i]))])

ClassMetrics(sample) ==
    LET M(name, i) == Metric(name, "Counter", sample, <<Pt("int64_t", sample.class[i], {})>>)
    IN  <<M("jvm.class.loaded", 1), M("jvm.class.unloaded", 2), M("jvm.class.count", 3)>>

\* All metrics that are made of a sample.
Made(sample) ==
    LET memory == MemoryMetrics(sample)
    IN  {memory[f] : f \in DOMAIN memory}
        \union {GcMetric(sample), CpuMetric(sample), ThreadMetric(sample)}
        \union ToSet(ClassMetrics(sample))

\* Those that are put into the list: three of them.
Listed(sample) ==
    LET memory == MemoryMetrics(sample)
    IN  <<memory.used, memory.committed, memory.init>>

\* Processor::process: the metrics of the samples one after another, under the
\* service and the instance of the collection.
ResourceMetrics(collection) ==
    [resource |-> {Stored("service.name", collection.service),
                   Stored("service.instance.id", collection.instance)},
     metrics |-> FlattenSeq([i \in DOMAIN collection.samples |-> Listed(collection.samples[i])])]

-----------------------------------------------------------------------------
(* The request.                                                            *)

\* GetAggregationType: the first point tells.
AggregationType(metric) ==
    IF metric.points = <<>> THEN "Drop" ELSE metric.points[1].of

\* ConvertGaugeMetric and ConvertSumMetric: an integer or a double.
NumberPoint(metric, p) ==
    [as |-> IF p.type = "int64_t" THEN "int" ELSE "double", value |-> p.value,
     start |-> metric.start, end |-> metric.end, attributes |-> p.attributes]

Gauge(metric) ==
    [kind |-> "gauge", points |-> [i \in DOMAIN metric.points |-> NumberPoint(metric, metric.points[i])]]

Sum(metric) ==
    [kind |-> "sum", temporality |-> metric.temporality,
     monotonic |-> metric.instrument \in {"Counter", "ObservableCounter"},
     points |-> [i \in DOMAIN metric.points |-> NumberPoint(metric, metric.points[i])]]

\* ConvertHistogramMetric: sums and limits are doubles.
HistogramPoint(metric, p) ==
    [count |-> p.count, sum |-> p.sum,
     start |-> metric.start, end |-> metric.end, attributes |-> p.attributes]

Histogram(metric) ==
    [kind |-> "histogram", temporality |-> metric.temporality,
     points |-> [i \in DOMAIN metric.points |-> HistogramPoint(metric, metric.points[i])]]

\* PopulateInstrumentInfoMetrics: without points a metric has a name only.
OtlpMetric(metric) ==
    [name |-> metric.name,
     data |-> CASE AggregationType(metric) = "Sum"       -> Sum(metric)
                [] AggregationType(metric) = "Histogram" -> Histogram(metric)
                [] AggregationType(metric) = "LastValue" -> Gauge(metric)
                [] OTHER                                 -> [kind |-> "none", points |-> <<>>]]

\* PopulateRequest and PopulateResourceMetrics, for the one scope there is.
MetricsRequest(collection) ==
    LET data == ResourceMetrics(collection)
    IN  [resource |-> data.resource,
         metrics |-> [i \in DOMAIN data.metrics |-> OtlpMetric(data.metrics[i])]]
=============================================================================
