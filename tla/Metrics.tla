------------------------------- MODULE Metrics -------------------------------
(***************************************************************************)
(* internal/primitives/obs: the metrics registry, a function from series   *)
(* to metrics.  Every exported method holds the lock from start to end,    *)
(* except Add, which is a Get and a Set, and TextExposition, which reads   *)
(* the counts of the buckets after its Snapshot.                           *)
(* A series is <<name, labels>>: metricKey builds the same text for two    *)
(* label maps only when they are equal, as long as no label contains the   *)
(* separators.                                                             *)
(***************************************************************************)
EXTENDS Integers, Sequences, FiniteSets

CONSTANTS
  Buckets,      \* what Observe may be called with: boundaries, ascending
  Values,       \* samples
  Adders,       \* the goroutines that call Add
  MaxSamples    \* bound: samples observed, and additions

ASSUME MetricsAssumption ==
  /\ \A b \in Buckets : /\ b \in Seq(Int)
                        /\ \A i, j \in DOMAIN b : i <= j => b[i] <= b[j]
  /\ Values \subseteq Int /\ MaxSamples \in Nat

VARIABLES
  metrics,      \* mets
  samples,      \* history: what was observed, in order
  bounds,       \* history: the boundaries of the first Observe
  snap, lines,  \* an exposition: the Snapshot and the lines of its buckets
  moved,        \* samples arrived after the Snapshot
  read,         \* per goroutine: what Add has got, -1 before
  added, raced  \* history: the additions begun, and whether two overlapped

metricsVars == <<metrics, samples, bounds, snap, lines, moved, read, added, raced>>

NewMetrics == << >>

Metric(type, value, buckets) ==
  [type |-> type, value |-> value, buckets |-> buckets,
   counts |-> IF type = "histogram" THEN [i \in 1..(Len(buckets) + 1) |-> 0] ELSE <<>>,
   sum |-> 0, count |-> 0]

With(reg, key, met) == [k \in DOMAIN reg \cup {key} |-> IF k = key THEN met ELSE reg[k]]

Get(reg, key) == IF key \in DOMAIN reg THEN reg[key].value ELSE 0

SetMetric(reg, key, v) ==
  With(reg, key, IF key \in DOMAIN reg THEN [reg[key] EXCEPT !.value = v]
                 ELSE Metric("counter", v, <<>>))

\* Mutant of Observe: a sample on the boundary is left out of its bucket.
ObserveStrict(reg, key, v, buckets) ==
  LET cur == IF key \in DOMAIN reg THEN reg[key] ELSE Metric("histogram", 0, buckets)
      n   == Len(cur.counts)
  IN With(reg, key,
       [cur EXCEPT !.counts = [i \in 1..n |-> IF i = n \/ v < cur.buckets[i]
                                              THEN cur.counts[i] + 1 ELSE cur.counts[i]],
                   !.sum = cur.sum + v, !.count = cur.count + 1])

\* The buckets of the first sample stay.  (On a series that Set created, which
\* has no counts, the index of the last count is -1 and Observe panics.)
Observe(reg, key, v, buckets) ==
  LET cur == IF key \in DOMAIN reg THEN reg[key] ELSE Metric("histogram", 0, buckets)
      n   == Len(cur.counts)
  IN With(reg, key,
       [cur EXCEPT !.counts = [i \in 1..n |-> IF i = n \/ v <= cur.buckets[i]
                                              THEN cur.counts[i] + 1 ELSE cur.counts[i]],
                   !.sum = cur.sum + v, !.count = cur.count + 1])

\* Snapshot: the metrics are copied, the counts of a histogram are not: the copy
\* has the slice that Observe goes on to write.
Snapshot(reg) ==
  [k \in DOMAIN reg |-> [type |-> reg[k].type, value |-> reg[k].value, sum |-> reg[k].sum, count |-> reg[k].count]]

\* TextExposition of a histogram, line by line after the Snapshot: the count of
\* bucket i, the last one being +Inf.
BucketLine(reg, key, i) == reg[key].counts[i]

-----------------------------------------------------------------------------
(* One histogram with an exposition, and one counter.                       *)

Hist == <<"hist", 0>>
Count == <<"count", 0>>

MetricsInit ==
  /\ metrics = NewMetrics
  /\ samples = <<>> /\ bounds \in Buckets
  /\ snap = <<>> /\ lines = <<>> /\ moved = FALSE
  /\ read = [t \in Adders |-> -1] /\ added = 0 /\ raced = FALSE

ObserveStep ==
  /\ Len(samples) < MaxSamples
  /\ \E v \in Values, b \in Buckets :
        /\ samples = <<>> => b = bounds
        /\ metrics' = Observe(metrics, Hist, v, b)
        /\ samples' = Append(samples, v)
  /\ moved' = TRUE
  /\ UNCHANGED <<bounds, snap, lines, read, added, raced>>

\* TextExposition: the Snapshot, and a line of a bucket.
SnapshotStep ==
  /\ samples # <<>> /\ snap = <<>>
  /\ snap' = Snapshot(metrics)
  /\ moved' = FALSE
  /\ UNCHANGED <<metrics, samples, bounds, lines, read, added, raced>>

LineStep ==
  /\ snap # <<>> /\ Len(lines) <= Len(bounds)
  /\ lines' = Append(lines, BucketLine(metrics, Hist, Len(lines) + 1))
  /\ UNCHANGED <<metrics, samples, bounds, snap, moved, read, added, raced>>

\* Add: the Get, and the Set of what was read plus the delta.
AddGet(t) ==
  /\ added < MaxSamples
  /\ read[t] = -1
  /\ read' = [read EXCEPT ![t] = Get(metrics, Count)]
  /\ added' = added + 1
  /\ raced' = (raced \/ \E u \in Adders : read[u] # -1)
  /\ UNCHANGED <<metrics, samples, bounds, snap, lines, moved>>

AddSet(t) ==
  /\ read[t] # -1
  /\ metrics' = SetMetric(metrics, Count, read[t] + 1)
  /\ read' = [read EXCEPT ![t] = -1]
  /\ UNCHANGED <<samples, bounds, snap, lines, moved, added, raced>>

HistogramNext == ObserveStep \/ SnapshotStep \/ LineStep
CounterNext == \E t \in Adders : AddGet(t) \/ AddSet(t)

MetricsSpec == MetricsInit /\ [][HistogramNext \/ CounterNext]_metricsVars

UpTo(b) == {i \in DOMAIN samples : samples[i] <= b}

SampleSum(s) ==
  LET sum[i \in 0..Len(s)] == IF i = 0 THEN 0 ELSE sum[i - 1] + s[i]
  IN sum[Len(s)]

\* A histogram keeps the buckets of its first sample; every bucket counts the
\* samples up to its bound, the last one all of them.  TextExposition, whose
\* lines are read after its Snapshot, writes buckets that do not decrease, and a
\* +Inf bucket that is the _count, or more if samples arrived meanwhile.  A
\* counter is the number of additions as long as no two of them overlapped: Add
\* is a Get and a Set, so overlapping ones may lose some, and never count one
\* twice.
SamplesCounted ==
  /\ samples # <<>> =>
       LET n == Len(bounds) + 1
       IN /\ metrics[Hist].counts =
                [i \in 1..n |-> IF i = n THEN Len(samples) ELSE Cardinality(UpTo(bounds[i]))]
          /\ metrics[Hist].count = Len(samples) /\ metrics[Hist].sum = SampleSum(samples)
          /\ \A i \in 2..Len(lines) : lines[i - 1] <= lines[i]
          /\ Len(lines) = n =>
               /\ lines[n] >= snap[Hist].count
               /\ ~moved => lines[n] = snap[Hist].count
  /\ Get(metrics, Count) <= added
  /\ (~raced /\ \A t \in Adders : read[t] = -1) => Get(metrics, Count) = added
==============================================================================
