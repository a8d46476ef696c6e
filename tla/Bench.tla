-------------------------------- MODULE Bench --------------------------------
(***************************************************************************)
(* measure(), percentile() and the report of the two benchmarks            *)
(* (src/src/bench/bench.ts).  Time is what the environment says it is:     *)
(* elapsed[i] is how long the i-th run of the benchmarked function takes,  *)
(* the first one being the warm-up.                                        *)
(***************************************************************************)
EXTENDS StableSort, Integers, Sequences

CONSTANT NaN        \* as a number of iterations: the loop does not run

ASSUME NaNAssumption == NaN \notin Int

\* Math.max(1, iterations).
Iterations(requested) ==
    IF requested # NaN /\ requested < 1 THEN 1 ELSE requested

\* A faulty variant of Measure: the warm-up run counts.
MeasureAll(iterations, elapsed) ==
    Ascending(SubSeq(elapsed, 1, IF iterations = NaN THEN 0 ELSE iterations))

Measure(iterations, elapsed) ==
    Ascending(SubSeq(elapsed, 2, IF iterations = NaN THEN 1 ELSE iterations + 1))

(***************************************************************************)
(* The index, from 1, of the p-th percentile of n > 0 samples; p is in     *)
(* hundredths.  For the p of the reports, 0.5 * n, 0.95 * n and 0.99 * n   *)
(* are rounded to the same next integer as the exact products, far beyond  *)
(* any number of iterations.                                               *)
(***************************************************************************)
Rank(p, n) ==
    LET ceiling == ((p * n) + 99) \div 100
        index == IF ceiling < n THEN ceiling ELSE n
    IN  IF index < 1 THEN 1 ELSE index

Percentile(sorted, p) ==
    IF Len(sorted) = 0 THEN 0 ELSE sorted[Rank(p, Len(sorted))]

Report(requested, elapsed) ==
    LET timings == Measure(Iterations(requested), elapsed)
    IN  [iterations |-> Iterations(requested),
         p50 |-> Percentile(timings, 50),
         p95 |-> Percentile(timings, 95),
         p99 |-> Percentile(timings, 99)]

=============================================================================
