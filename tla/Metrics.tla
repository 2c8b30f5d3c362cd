------------------------------ MODULE Metrics ------------------------------
(***************************************************************************)
(* Host metrics of one node, from the kernel's counters to a query: the    *)
(* Agent's sampler turns a counter into a rate once per period, every      *)
(* heartbeat carries the latest sample, the Controller queues each sample  *)
(* once for a writer thread, and the writer adds batches of them to        *)
(* metrics.sqlite: the samples themselves, kept for a short time, and      *)
(* aggregates at coarser resolutions, kept longer.                         *)
(*                                                                         *)
(* Of the six metrics the one for transmitted bytes is modelled, over all  *)
(* interfaces of the host: the others are gauges or differ in the counter. *)
(* Time is counted in sampling periods, so that a rate is the bytes of a   *)
(* period.  Clocks do not jump.                                            *)
(***************************************************************************)
EXTENDS Integers, Sequences, FiniteSets, FiniteSetsExt, SequencesExt

CONSTANTS Interfaces, RawKeep,  \* how long samples are kept
          Tiers,      \* the aggregates: a sequence of [res, keep]
          FlushEvery, \* the writer's deadline
          QueueCapacity, BatchPoints,
          MaxTime, MaxMoved, MaxFaults,
          Absent

VARIABLES clock,
          counter,    \* of every interface, or Absent
          collector,  \* the counters the sampler last read, Absent for none
          moved,      \* what was really transmitted since then
          sample,     \* the Agent's latest: source, value and, for the properties, moved
          latest,     \* the Controller's latest of the node
          queue, batch,
          raw,        \* metric_samples
          rollups,    \* metric_rollups: <<tier, bucket>> |-> aggregate
          error,      \* what queries report of the writer
          stored,     \* every sample stored so far, when it first was
          faults

vars == <<clock, counter, collector, moved, sample, latest, queue, batch, raw, rollups, error, stored, faults>>

(***************************************************************************)
(* The sampler.                                                            *)
(***************************************************************************)
\* Mutant of rate: the distance of the two readings.
rateDistance(now, before) ==
    IF now = Absent \/ before = Absent THEN Absent
    ELSE IF now < before THEN before - now ELSE now - before

\* No rate without two readings, nor of a counter that fell.
rate(now, before) ==
    IF now = Absent \/ before = Absent THEN Absent
    ELSE IF now < before THEN Absent ELSE now - before

\* MetricPoint::from_sample: the sum over the interfaces there are, and none
\* when one of them has no rate or there is no interface.
Total(rates, present) ==
    IF present = {} \/ \E i \in present : rates[i] = Absent THEN Absent
    ELSE MapThenSumSet(LAMBDA i : rates[i], present)

\* A period of the sampler ends.  The writer does not let a sample wait longer
\* than its deadline.
Sample ==
    /\ clock < MaxTime /\ clock' = clock + 1
    /\ \A p \in ToSet(queue) \union ToSet(batch) : clock - p.received < FlushEvery
    /\ sample' = [source |-> clock', moved |-> moved,
                  value |-> Total([i \in Interfaces |-> rate(counter[i], collector[i])],
                                  {i \in Interfaces : counter[i] # Absent})]
    /\ collector' = counter /\ moved' = 0
    /\ UNCHANGED <<counter, latest, queue, batch, raw, rollups, error, stored, faults>>

Transmit ==
    /\ moved < MaxMoved /\ moved' = moved + 1
    /\ \E i \in Interfaces : counter[i] # Absent /\ counter' = [counter EXCEPT ![i] = @ + 1]
    /\ UNCHANGED <<clock, collector, sample, latest, queue, batch, raw, rollups, error, stored, faults>>

\* An interface is taken down, or is there again with a counter of its own.
Replug ==
    /\ faults < MaxFaults /\ faults' = faults + 1
    /\ \E i \in Interfaces : \E c \in {Absent, 0} \ {counter[i]} : counter' = [counter EXCEPT ![i] = c]
    /\ UNCHANGED <<clock, collector, moved, sample, latest, queue, batch, raw, rollups, error, stored>>

\* The Agent starts again.
RestartAgent ==
    /\ faults < MaxFaults /\ faults' = faults + 1
    /\ collector' = [i \in Interfaces |-> Absent] /\ sample' = Absent /\ moved' = 0
    /\ UNCHANGED <<clock, counter, latest, queue, batch, raw, rollups, error, stored>>

(***************************************************************************)
(* The Controller.                                                         *)
(***************************************************************************)
\* record and enqueue: a heartbeat with the sample of the one before changes
\* nothing, and a full queue drops the sample.
Heartbeat ==
    /\ sample # Absent /\ ~ (latest # Absent /\ latest.source = sample.source)
    /\ LET point == [source |-> sample.source, value |-> sample.value, received |-> clock]
       IN  /\ latest' = point
           /\ IF Len(queue) < QueueCapacity
              THEN queue' = Append(queue, point) /\ UNCHANGED error
              ELSE error' = "some samples were dropped" /\ UNCHANGED queue
    /\ UNCHANGED <<clock, counter, collector, moved, sample, batch, raw, rollups, stored, faults>>

\* The writer takes a sample of the queue.
Receive ==
    /\ queue # <<>> /\ Len(batch) < BatchPoints
    /\ batch' = Append(batch, Head(queue)) /\ queue' = Tail(queue)
    /\ UNCHANGED <<clock, counter, collector, moved, sample, latest, raw, rollups, error, stored, faults>>

Bucket(t, time) == (time \div Tiers[t].res) * Tiers[t].res

\* Aggregate::add, of several points at once; sums and counts of valid values.
Add(aggregate, points) ==
    LET values == {p \in points : p.value # Absent}
    IN  [sum |-> aggregate.sum + MapThenSumSet(LAMBDA p : p.value, values),
         count |-> aggregate.count + Cardinality(values),
         samples |-> aggregate.samples + Cardinality(points),
         peak |-> Max({aggregate.peak} \union {p.value : p \in values})]

Empty == [sum |-> 0, count |-> 0, samples |-> 0, peak |-> -1]

\* Mutant of Fresh: every point of the batch is added.
FreshEvery == ToSet(batch)

\* INSERT OR IGNORE: the points whose source is not there yet.
Fresh == {p \in ToSet(batch) : \A q \in raw : q.source # p.source}

Old(rows, key) == IF key \in DOMAIN rows THEN rows[key] ELSE Empty

Expired(key) == key[2] < clock - Tiers[key[1]].keep

\* flush: one transaction of inserts, aggregates and retention.
Flushed ==
    LET keys == {<<t, Bucket(t, p.received)>> : t \in DOMAIN Tiers, p \in Fresh}
        all == [key \in DOMAIN rollups \union keys |->
                  Add(Old(rollups, key), {p \in Fresh : Bucket(key[1], p.received) = key[2]})]
    IN  /\ raw' = {p \in raw \union Fresh : p.received >= clock - RawKeep}
        /\ rollups' = [key \in {k \in DOMAIN all : ~ Expired(k)} |-> all[key]]
        /\ stored' = stored \union {p \in ToSet(batch) : \A q \in stored : q.source # p.source}

\* The batch is full or its time is over.  It is dropped when the write fails.
Flush ==
    /\ \/ Flushed /\ error' = Absent /\ UNCHANGED faults
       \/ /\ faults < MaxFaults /\ faults' = faults + 1
          /\ error' = "History write failed" /\ UNCHANGED <<raw, rollups, stored>>
    /\ batch' = <<>>
    /\ UNCHANGED <<clock, counter, collector, moved, sample, latest, queue>>

\* The Controller stops and starts again: the database remains.
RestartController ==
    /\ faults < MaxFaults /\ faults' = faults + 1
    /\ latest' = Absent /\ queue' = <<>> /\ batch' = <<>> /\ error' = Absent
    /\ UNCHANGED <<clock, counter, collector, moved, sample, raw, rollups, stored>>

Init ==
    /\ clock = 0 /\ counter = [i \in Interfaces |-> 0] /\ collector = [i \in Interfaces |-> Absent]
    /\ moved = 0 /\ sample = Absent
    /\ latest = Absent /\ queue = <<>> /\ batch = <<>> /\ raw = {} /\ rollups = <<>>
    /\ error = Absent /\ stored = {} /\ faults = 0

Next == \/ Sample \/ Transmit \/ Replug \/ RestartAgent
        \/ Heartbeat \/ Receive \/ Flush \/ RestartController

Spec == Init /\ [][Next]_vars

(***************************************************************************)
(* Queries: history_range and resolution.                                  *)
(***************************************************************************)
\* Mutant of resolution_of: by how wide the range is.
resolution_ofWidth(from, to) ==
    IF to - from <= RawKeep THEN 0
    ELSE CHOOSE t \in DOMAIN Tiers : /\ to - from <= Tiers[t].keep
                                     /\ \A u \in 1..(t - 1) : to - from > Tiers[u].keep

\* By how old its start is: 0 for the samples themselves, or a tier.
resolution_of(from, to) ==
    IF clock - from <= RawKeep THEN 0
    ELSE CHOOSE t \in DOMAIN Tiers : /\ clock - from <= Tiers[t].keep
                                     /\ \A u \in 1..(t - 1) : clock - from > Tiers[u].keep

\* The ranges that are answered.
Ranges == {r \in (0..clock) \X (0..clock) : r[1] < r[2] /\ r[1] >= clock - Tiers[Len(Tiers)].keep}

\* The samples a query's answer accounts for.
Answered(from, to) ==
    LET t == resolution_of(from, to)
    IN  IF t = 0 THEN {p \in raw : p.received \in from..to}
        ELSE {p \in stored : <<t, Bucket(t, p.received)>> \in
                               {k \in DOMAIN rollups : k[2] >= Bucket(t, from) /\ k[2] <= to}}

(***************************************************************************)
(* Properties.                                                             *)
(***************************************************************************)
\* Every aggregate is the exact sum, count and peak of the samples of its
\* bucket, each counted once: across batches, batches that were lost,
\* retention, and a Controller that is sent the sample again that it stored
\* before it stopped (flush, Aggregate::add, record).
RollupsExact ==
    \A key \in DOMAIN rollups :
        rollups[key] = Add(Empty, {p \in stored : Bucket(key[1], p.received) = key[2]})

\* A query that is answered accounts for every stored sample of its range,
\* but those of a bucket that began before it: the resolution is one whose
\* rows of that age are still kept (history_range, resolution, flush).
RangeCovered ==
    \A r \in Ranges : \A p \in stored :
        p.received \in r[1]..r[2] /\ (resolution_of(r[1], r[2]) = 0 \/
                                      Bucket(resolution_of(r[1], r[2]), p.received) >= r[1])
        => \E q \in Answered(r[1], r[2]) : q.source = p.source

\* A rate never says more than was transmitted in its period, whatever
\* happened to the counter: an interface that comes back gives a smaller rate
\* or none (rate, Collector::sample).
RatesReal == sample # Absent /\ sample.value # Absent => sample.value <= sample.moved

\* What a graph shows was measured, once, and nothing measured is left out.
SeriesTrue == RollupsExact /\ RangeCovered /\ RatesReal
=============================================================================
