---------------------------- MODULE SuitesProofs ----------------------------
(***************************************************************************)
(* Theorems about the calls of Suites: what the compliance suites for      *)
(* HTTP/1.1 and HTTP/2 pass, for profiles of any size and settings in any  *)
(* number; the percentiles of any number of samples; that DER elements     *)
(* read back at any length the encoder has room for, any number of them    *)
(* and of the arcs of an object identifier; that every certificate reads   *)
(* back; and that the fingerprints of HTTP traffic tell apart what they    *)
(* should, for headers, cookies and settings in any number.                *)
(***************************************************************************)
EXTENDS Suites, SequenceLemmas

HeaderNames == [letters : STRING, spelling : Spellings]

(***************************************************************************)
(* As many names are left in lower case as there were before if and only   *)
(* if no two become the same: the code looks for two that do.              *)
(***************************************************************************)
LEMMA CountTellsDuplicates ==
  ASSUME NEW headers, IsFiniteSet(headers)
  PROVE  Cardinality({ ToLowerCase(h) : h \in headers }) = Cardinality(headers)
           <=> \A g, h \in headers : g # h => ToLowerCase(g) # ToLowerCase(h)
<1> DEFINE named == { ToLowerCase(h) : h \in headers }
           lower == [h \in headers |-> ToLowerCase(h)]
<1>1. lower \in Surjection(headers, named)
  BY DEF Surjection
<1>2. lower \in Injection(headers, named)
        <=> \A g, h \in headers : g # h => ToLowerCase(g) # ToLowerCase(h)
  BY DEF Injection, IsInjective
<1>3. Cardinality(named) = Cardinality(headers) <=> lower \in Injection(headers, named)
  <2> HIDE DEF lower, named
  <2> QED
    BY <1>1, FS_Surjection
<1> QED
  BY <1>2, <1>3

(***************************************************************************)
(* A name that toLowerCase() leaves as it is is in lower case.             *)
(***************************************************************************)
LEMMA LowerCaseIsFixed ==
  ASSUME NEW name \in HeaderNames
  PROVE  /\ name = ToLowerCase(name) <=> name.spelling = "lower"
         /\ ToLowerCase(name).spelling = "lower"
         /\ ToLowerCase(name).letters = name.letters
         /\ ToLowerCase(name) \in HeaderNames
BY DEF ToLowerCase, HeaderNames, Spellings

(***************************************************************************)
(* The three places in which the code looks for "host" come to one: when   *)
(* the order is in lower case and has all the default headers in it, the   *)
(* name is in the order.                                                   *)
(***************************************************************************)
LEMMA HostIsInTheOrder ==
  ASSUME NEW headers \in SUBSET HeaderNames, NEW order \in Seq(HeaderNames),
         \A k \in DOMAIN order : order[k] = ToLowerCase(order[k]),
         \A h \in headers : ToLowerCase(h) \in { ToLowerCase(order[k]) : k \in DOMAIN order }
  PROVE  HasHost(headers, order) <=> \E k \in DOMAIN order : order[k] = Host("lower")
<1>1. ToLowerCase(Host("lower")) = Host("lower") /\ ToLowerCase(Host("Capital")) = Host("lower")
  BY DEF ToLowerCase, Host
<1>2. ASSUME NEW h \in headers, ToLowerCase(h) = Host("lower")
      PROVE  \E k \in DOMAIN order : order[k] = Host("lower")
  BY <1>2
<1> QED
  BY <1>1, <1>2 DEF HasHost

(***************************************************************************)
(* runHttp1Compliance() passes what can be sent in the profile's order and *)
(* nothing else, for any headers and any order.                            *)
(***************************************************************************)
LEMMA Http1Verdict ==
  ASSUME NEW headers \in SUBSET HeaderNames, IsFiniteSet(headers),
         NEW order \in Seq(HeaderNames)
  PROVE  RunHttp1Compliance(headers, order)
           <=> LET named == { ToLowerCase(h) : h \in headers }
               IN  /\ Host("lower") \in ToSet(order)
                   /\ \A name \in ToSet(order) : name.spelling = "lower"
                   /\ Cardinality(named) = Cardinality(headers)
                   /\ named \subseteq ToSet(order)
<1> DEFINE orderSet == { ToLowerCase(order[k]) : k \in DOMAIN order }
           allLower == \A k \in DOMAIN order : order[k] = ToLowerCase(order[k])
           unique == \A g, h \in headers : g # h => ToLowerCase(g) # ToLowerCase(h)
           listed == \A h \in headers : ToLowerCase(h) \in orderSet
<1>1. \A k \in DOMAIN order : order[k] \in HeaderNames
  OBVIOUS
<1>2. RunHttp1Compliance(headers, order) <=> HasHost(headers, order) /\ allLower /\ unique /\ listed
  BY DEF RunHttp1Compliance
<1>3. allLower <=> \A name \in ToSet(order) : name.spelling = "lower"
  BY <1>1, LowerCaseIsFixed DEF ToSet
<1>4. allLower => orderSet = ToSet(order)
  BY DEF ToSet
<1>5. allLower /\ listed => (HasHost(headers, order) <=> Host("lower") \in ToSet(order))
  BY HostIsInTheOrder DEF ToSet
<1>6. unique <=> Cardinality({ ToLowerCase(h) : h \in headers }) = Cardinality(headers)
  BY CountTellsDuplicates
<1>7. allLower => (listed <=> { ToLowerCase(h) : h \in headers } \subseteq ToSet(order))
  BY <1>4
<1> QED
  BY <1>2, <1>3, <1>5, <1>6, <1>7

(***************************************************************************)
(* What runHttp1Compliance() has passed, in any call on any profile.       *)
(***************************************************************************)
CalledHttp1 ==
    call.function = "runHttp1Compliance" =>
        /\ call.headers \in HeaderSets
        /\ call.order \in HeaderOrders
        /\ result = RunHttp1Compliance(call.headers, call.order)

(***************************************************************************)
(* runHttp1Compliance() passes exactly what can be sent in the profile's  *)
(* order, in every call.                                                   *)
(***************************************************************************)
THEOREM Http1VerdictAlwaysRight == Spec => []Http1VerdictIsRight
<1>1. Init => CalledHttp1
  BY DEF Init, CalledHttp1
<1>2. CalledHttp1 /\ [Next]_suitesVars => CalledHttp1'
  <2> SUFFICES ASSUME CalledHttp1, [Next]_suitesVars PROVE CalledHttp1'
    OBVIOUS
  <2>1. CASE CheckHttp1
    <3>1. PICK headers \in HeaderSets, order \in HeaderOrders :
             Returns([function |-> "runHttp1Compliance", headers |-> headers,
                      order |-> order],
                     RunHttp1Compliance(headers, order))
      BY <2>1 DEF CheckHttp1
    <3> QED
      BY <3>1 DEF Returns, CalledHttp1
  <2>2. CASE CheckHttp2
    BY <2>2 DEF CheckHttp2, Returns, CalledHttp1
  <2>3. CASE FingerprintRequest
    BY <2>3 DEF FingerprintRequest, Returns, CalledHttp1
  <2>4. CASE FingerprintConnection
    BY <2>4 DEF FingerprintConnection, Returns, CalledHttp1
  <2>5. CASE Benchmark
    BY <2>5 DEF Benchmark, Returns, CalledHttp1
  <2>6. CASE Certify
    BY <2>6 DEF Certify, Returns, CalledHttp1
  <2>7. CASE UNCHANGED suitesVars
    BY <2>7 DEF suitesVars, CalledHttp1
  <2> QED
    BY <2>1, <2>2, <2>3, <2>4, <2>5, <2>6, <2>7 DEF Next
<1>3. CalledHttp1 => Http1VerdictIsRight
  <2> SUFFICES ASSUME CalledHttp1, call.function = "runHttp1Compliance"
               PROVE  Http1VerdictIsRight
    BY DEF Http1VerdictIsRight
  <2>1. /\ call.headers \in SUBSET HeaderNames /\ IsFiniteSet(call.headers)
        /\ call.order \in Seq(HeaderNames)
    BY ProfileAssumption DEF CalledHttp1, HeaderNames
  <2> QED
    BY <2>1, Http1Verdict DEF CalledHttp1, Http1VerdictIsRight
<1> QED
  BY <1>1, <1>2, <1>3, PTL DEF Spec

-----------------------------------------------------------------------------
\* The least rank among n that is no lower than p hundredths of n.
NearestRank(r, p, n) == r \in 1 .. n /\ 100 * r >= p * n /\ 100 * (r - 1) < p * n

(***************************************************************************)
(* percentile() looks at that rank, for the three p of the reports.        *)
(***************************************************************************)
LEMMA RankIsNearest ==
  ASSUME NEW n \in Nat \ {0}, NEW p \in {50, 95, 99}
  PROVE  NearestRank(Rank(p, n), p, n)
<1> DEFINE m == p * n
           c == (m + 99) \div 100
<1>1. m \in Nat /\ 0 < m /\ m <= 100 * n
  BY DEF m
<1>2. Rank(p, n) = LET index == IF c < n THEN c ELSE n IN IF index < 1 THEN 1 ELSE index
  BY DEF Rank
<1> HIDE DEF m
<1>3. c \in Nat /\ c >= 1 /\ c <= n /\ 100 * c >= m /\ 100 * (c - 1) < m
  <2>1. c \in Int /\ 100 * c <= m + 99 /\ m + 99 < 100 * (c + 1)
    BY <1>1
  <2> HIDE DEF c
  <2> QED
    BY <1>1, <2>1
<1>4. Rank(p, n) = c
  BY <1>2, <1>3
<1> QED
  BY <1>3, <1>4 DEF m, NearestRank

(***************************************************************************)
(* A sample at its rank in ascending order is a percentile by nearest rank *)
(* of any number of samples, equal ones among them.                        *)
(***************************************************************************)
THEOREM PercentileIsNearestRank ==
  ASSUME NEW sorted \in Seq(Int), sorted # <<>>,
         \A i, j \in 1 .. Len(sorted) : i <= j => sorted[i] <= sorted[j],
         NEW p \in {50, 95, 99}
  PROVE  IsPercentile(Percentile(sorted, p), p, sorted, 1 .. Len(sorted))
<1> DEFINE n == Len(sorted)
<1>1. n \in Nat \ {0}
  OBVIOUS
<1> HIDE DEF n
<1> DEFINE r == Rank(p, n)
<1>2. r \in 1 .. n /\ 100 * r >= p * n /\ 100 * (r - 1) < p * n
  <2>1. NearestRank(r, p, n)
    BY <1>1, RankIsNearest
  <2> HIDE DEF r
  <2> QED
    BY <2>1 DEF NearestRank
<1> HIDE DEF r
<1> DEFINE below == {i \in 1 .. n : sorted[i] < sorted[r]}
           upTo == {i \in 1 .. n : sorted[i] <= sorted[r]}
<1>3. \A i \in 1 .. n : sorted[i] \in Int
  BY DEF n
<1>4. Percentile(sorted, p) = sorted[r]
  BY <1>1 DEF Percentile, n, r
<1>5. IsFiniteSet(1 .. n) /\ Cardinality(1 .. n) = n
  BY <1>1, FS_Interval
<1>6. Cardinality(upTo) \in Nat /\ Cardinality(upTo) >= r
  <2>1. 1 .. r \in SUBSET upTo
    BY <1>1, <1>2 DEF n
  <2>2. IsFiniteSet(upTo)
    BY <1>5, FS_Subset
  <2>3. Cardinality(1 .. r) = r
    BY <1>1, <1>2, FS_Interval
  <2>4. Cardinality(1 .. r) <= Cardinality(upTo)
    <3> HIDE DEF upTo
    <3> QED
      BY <2>1, <2>2, FS_Subset
  <2>5. Cardinality(upTo) \in Nat
    BY <2>2, FS_CardinalityType
  <2> QED
    BY <2>3, <2>4, <2>5
<1>7. Cardinality(below) \in Nat /\ Cardinality(below) <= r - 1
  <2>1. below \in SUBSET (1 .. r - 1)
    <3>1. ASSUME NEW i \in 1 .. n, sorted[i] < sorted[r] PROVE i \in 1 .. r - 1
      <4>1. ~(r <= i)
        BY <1>2, <1>3, <3>1 DEF n
      <4> QED
        BY <1>1, <1>2, <4>1
    <3> QED
      BY <3>1
  <2>2. IsFiniteSet(1 .. r - 1) /\ Cardinality(1 .. r - 1) = r - 1
    BY <1>1, <1>2, FS_Interval
  <2>3. IsFiniteSet(below) /\ Cardinality(below) <= Cardinality(1 .. r - 1)
    <3> HIDE DEF below
    <3> QED
      BY <2>1, <2>2, FS_Subset
  <2>4. Cardinality(below) \in Nat
    BY <2>3, FS_CardinalityType
  <2> QED
    BY <2>2, <2>3, <2>4
<1>8. 100 * Cardinality(upTo) >= p * n /\ 100 * Cardinality(below) < p * n
  <2> HIDE DEF upTo, below
  <2> QED
    BY <1>1, <1>2, <1>6, <1>7
<1> QED
  BY <1>4, <1>5, <1>8 DEF IsPercentile, n

(***************************************************************************)
(* measure() keeps the times of the runs behind the warm-up, all of them   *)
(* and no other, in ascending order.                                       *)
(***************************************************************************)
AreTheRuns(sorted, elapsed, n) ==
    /\ sorted \in [1 .. n -> Int]
    /\ \A i, j \in 1 .. n : i <= j => sorted[i] <= sorted[j]
    /\ \E f \in Bijection(1 .. n, 2 .. n + 1) :
          \A i \in 1 .. n : sorted[i] = elapsed[f[i]]

LEMMA MeasuredRuns ==
  ASSUME NEW n \in Nat, NEW elapsed \in Seq(Int), Len(elapsed) > n,
         NEW sorted, sorted = Ascending(SubSeq(elapsed, 2, n + 1))
  PROVE  AreTheRuns(sorted, elapsed, n)
<1>1. PICK samples : samples = SubSeq(elapsed, 2, n + 1)
  OBVIOUS
<1>2. /\ samples \in [1 .. n -> Int]
      /\ \A i \in 1 .. n : samples[i] = elapsed[i + 1]
  <2>1. \A i \in 2 .. n + 1 : elapsed[i] \in Int
    OBVIOUS
  <2>2. Len(samples) = n /\ samples \in Seq(Int)
    BY <1>1, <2>1, SubSeqProperties
  <2>3. \A i \in 1 .. n : samples[i] = elapsed[i + 1]
    BY <1>1, <2>1, <2>2
  <2> QED
    BY <2>2, <2>3
<1>3. PICK order : order = SortingOrder(samples)
  OBVIOUS
<1>4. Sorts(order, samples, n)
  BY <1>2, <1>3, SortingOrderSorts, Zenon
<1>5. DOMAIN samples = 1 .. n
  BY <1>2
<1>6. sorted = [i \in 1 .. n |-> samples[order[i]]]
  <2>1. sorted = [i \in DOMAIN samples |-> samples[order[i]]]
    BY <1>1, <1>3, Zenon DEF Ascending
  <2> QED
    BY <1>5, <2>1, Zenon
<1>7. \A i \in 1 .. n : order[i] \in 1 .. n
  BY <1>4, Zenon DEF Sorts
<1>8. sorted \in [1 .. n -> Int]
  BY <1>2, <1>6, <1>7
<1>9. \A i, j \in 1 .. n : i <= j => sorted[i] <= sorted[j]
  <2>1. \A i, j \in 1 .. n : i <= j => samples[order[i]] <= samples[order[j]]
    BY <1>4, Zenon DEF Sorts
  <2>2. \A i \in 1 .. n : sorted[i] = samples[order[i]]
    BY <1>6
  <2> QED
    BY <2>1, <2>2
<1> DEFINE f == [i \in 1 .. n |-> order[i] + 1]
<1>10. f \in Bijection(1 .. n, 2 .. n + 1)
  <2>1. f \in [1 .. n -> 2 .. n + 1]
    BY <1>7
  <2>2. ASSUME NEW i \in 1 .. n, NEW j \in 1 .. n, f[i] = f[j] PROVE i = j
    <3>1. order[i] \in Int /\ order[j] \in Int /\ order[i] + 1 = order[j] + 1
      BY <1>7, <2>2
    <3>2. order[i] = order[j]
      BY <3>1
    <3> QED
      BY <1>4, <3>2, Zenon DEF Sorts
  <2>3. ASSUME NEW t \in 2 .. n + 1 PROVE \E i \in 1 .. n : f[i] = t
    <3>1. t - 1 \in 1 .. n
      OBVIOUS
    <3>2. PICK i \in 1 .. n : order[i] = t - 1
      BY <1>4, <3>1, Zenon DEF Sorts
    <3>3. f[i] = t
      BY <3>2, SMTT(20)
    <3> QED
      BY <3>3
  <2> HIDE DEF f
  <2> QED
    BY <2>1, <2>2, <2>3, Zenon DEF Bijection, Injection, IsInjective, Surjection
<1>11. \A i \in 1 .. n : sorted[i] = elapsed[f[i]]
  <2> SUFFICES ASSUME NEW i \in 1 .. n PROVE sorted[i] = elapsed[f[i]]
    OBVIOUS
  <2>1. sorted[i] = samples[order[i]] /\ f[i] = order[i] + 1
    BY <1>6
  <2> QED
    BY <1>2, <1>7, <2>1
<1> HIDE DEF f
<1> QED
  BY <1>8, <1>9, <1>10, <1>11, Zenon DEF AreTheRuns

(***************************************************************************)
(* As many elements map into a part of a set as it has.                    *)
(***************************************************************************)
MappedInto(S, f, part) == {s \in S : f[s] \in part}

LEMMA BijectionCounts ==
  ASSUME NEW S, IsFiniteSet(S), NEW T, NEW f \in Bijection(S, T), NEW part \in SUBSET T
  PROVE  Cardinality(MappedInto(S, f, part)) = Cardinality(part)
<1> DEFINE into == {s \in S : f[s] \in part}
           g == [s \in into |-> f[s]]
<1>1. IsFiniteSet(into)
  <2>1. into \in SUBSET S
    OBVIOUS
  <2> HIDE DEF into
  <2> QED
    BY <2>1, FS_Subset
<1>2. g \in Bijection(into, part)
  <2>1. g \in [into -> part]
    OBVIOUS
  <2>2. \A s, t \in into : g[s] = g[t] => s = t
    BY DEF Bijection, Injection, IsInjective
  <2>3. \A t \in part : \E s \in into : g[s] = t
    BY DEF Bijection, Surjection
  <2> HIDE DEF into, g
  <2> QED
    BY <2>1, <2>2, <2>3 DEF Bijection, Injection, IsInjective, Surjection
<1> HIDE DEF into, g
<1>3. ExistsBijection(into, part)
  BY <1>2 DEF ExistsBijection
<1> QED
  <2>1. Cardinality(into) = Cardinality(part)
    BY <1>1, <1>3, FS_Bijection
  <2> QED
    BY <2>1 DEF into, MappedInto

(***************************************************************************)
(* So what is a percentile of the sorted times is one of the runs.         *)
(***************************************************************************)
LEMMA PercentileOfRuns ==
  ASSUME NEW n \in Nat \ {0}, NEW elapsed \in Seq(Int), Len(elapsed) > n,
         NEW sorted, sorted = Ascending(SubSeq(elapsed, 2, n + 1)),
         NEW p \in {50, 95, 99}
  PROVE  IsPercentile(Percentile(sorted, p), p, elapsed, 2 .. n + 1)
<1>1. AreTheRuns(sorted, elapsed, n)
  BY MeasuredRuns, Zenon
<1>2. PICK f \in Bijection(1 .. n, 2 .. n + 1) :
         \A i \in 1 .. n : sorted[i] = elapsed[f[i]]
  BY <1>1, Zenon DEF AreTheRuns
<1>3. PICK value : value = Percentile(sorted, p)
  OBVIOUS
<1>4. IsPercentile(value, p, sorted, 1 .. n)
  <2>1. sorted \in [1 .. n -> Int]
    BY <1>1, Zenon DEF AreTheRuns
  <2>2. sorted \in Seq(Int) /\ Len(sorted) = n /\ sorted # <<>>
    BY <2>1
  <2>3. \A i, j \in 1 .. Len(sorted) : i <= j => sorted[i] <= sorted[j]
    BY <1>1, <2>2, Zenon DEF AreTheRuns
  <2>4. IsPercentile(Percentile(sorted, p), p, sorted, 1 .. Len(sorted))
    BY <2>2, <2>3, PercentileIsNearestRank, Zenon
  <2> QED
    BY <1>3, <2>2, <2>4
<1>5. IsFiniteSet(1 .. n) /\ f \in [1 .. n -> 2 .. n + 1]
  <2>1. IsFiniteSet(1 .. n)
    BY FS_Interval
  <2>2. f \in [1 .. n -> 2 .. n + 1]
    BY <1>2, Zenon DEF Bijection, Injection
  <2> QED
    BY <2>1, <2>2
<1>6. Cardinality({i \in 1 .. n : sorted[i] <= value})
        = Cardinality({i \in 2 .. n + 1 : elapsed[i] <= value})
  <2> DEFINE part == {i \in 2 .. n + 1 : elapsed[i] <= value}
  <2>1. {i \in 1 .. n : sorted[i] <= value} = {i \in 1 .. n : f[i] \in part}
    BY <1>2, <1>5
  <2>2. part \in SUBSET (2 .. n + 1)
    OBVIOUS
  <2> HIDE DEF part
  <2>3. Cardinality(MappedInto(1 .. n, f, part)) = Cardinality(part)
    <3>1. IsFiniteSet(1 .. n) /\ f \in Bijection(1 .. n, 2 .. n + 1)
      BY <1>2, <1>5, Zenon
    <3> QED
      BY ONLY <2>2, <3>1, BijectionCounts, ZenonT(60)
  <2> QED
    BY <2>1, <2>3 DEF part, MappedInto
<1>7. Cardinality({i \in 1 .. n : sorted[i] < value})
        = Cardinality({i \in 2 .. n + 1 : elapsed[i] < value})
  <2> DEFINE part == {i \in 2 .. n + 1 : elapsed[i] < value}
  <2>1. {i \in 1 .. n : sorted[i] < value} = {i \in 1 .. n : f[i] \in part}
    BY <1>2, <1>5
  <2>2. part \in SUBSET (2 .. n + 1)
    OBVIOUS
  <2> HIDE DEF part
  <2>3. Cardinality(MappedInto(1 .. n, f, part)) = Cardinality(part)
    <3>1. IsFiniteSet(1 .. n) /\ f \in Bijection(1 .. n, 2 .. n + 1)
      BY <1>2, <1>5, Zenon
    <3> QED
      BY ONLY <2>2, <3>1, BijectionCounts, ZenonT(60)
  <2> QED
    BY <2>1, <2>3 DEF part, MappedInto
<1>8. Cardinality(1 .. n) = Cardinality(2 .. n + 1)
  BY FS_Interval
<1> QED
  BY <1>3, <1>4, <1>6, <1>7, <1>8 DEF IsPercentile

(***************************************************************************)
(* What a benchmark has reported, in any call.                             *)
(***************************************************************************)
CalledBenchmark ==
    call.function = "benchmark" =>
        call.run \in Runs /\ result = Report(call.run.iterations, call.run.elapsed)

(***************************************************************************)
(* The three percentiles of a report are those of the runs behind the      *)
(* warm-up, whatever number of them was asked for and however long they    *)
(* took; without a run they are 0.                                         *)
(***************************************************************************)
THEOREM PercentilesAlwaysRanks == Spec => []PercentilesAreRanks
<1>1. Init => CalledBenchmark
  BY DEF Init, CalledBenchmark
<1>2. CalledBenchmark /\ [Next]_suitesVars => CalledBenchmark'
  <2> SUFFICES ASSUME CalledBenchmark, [Next]_suitesVars PROVE CalledBenchmark'
    OBVIOUS
  <2>1. CASE Benchmark
    <3>1. PICK run \in Runs :
             Returns([function |-> "benchmark", run |-> run],
                     Report(run.iterations, run.elapsed))
      BY <2>1 DEF Benchmark
    <3> QED
      BY <3>1 DEF Returns, CalledBenchmark
  <2>2. CASE CheckHttp1
    BY <2>2 DEF CheckHttp1, Returns, CalledBenchmark
  <2>3. CASE CheckHttp2
    BY <2>3 DEF CheckHttp2, Returns, CalledBenchmark
  <2>4. CASE FingerprintRequest
    BY <2>4 DEF FingerprintRequest, Returns, CalledBenchmark
  <2>5. CASE FingerprintConnection
    BY <2>5 DEF FingerprintConnection, Returns, CalledBenchmark
  <2>6. CASE Certify
    BY <2>6 DEF Certify, Returns, CalledBenchmark
  <2>7. CASE UNCHANGED suitesVars
    BY <2>7 DEF suitesVars, CalledBenchmark
  <2> QED
    BY <2>1, <2>2, <2>3, <2>4, <2>5, <2>6, <2>7 DEF Next
<1>3. CalledBenchmark => PercentilesAreRanks
  <2> SUFFICES ASSUME CalledBenchmark, call.function = "benchmark"
               PROVE  PercentilesAreRanks
    BY DEF PercentilesAreRanks
  <2> DEFINE requested == call.run.iterations
             elapsed == call.run.elapsed
  <2>1. PICK timings : timings = Measure(Iterations(requested), elapsed)
    OBVIOUS
  <2>2. /\ result.iterations = Iterations(requested)
        /\ result.p50 = Percentile(timings, 50)
        /\ result.p95 = Percentile(timings, 95)
        /\ result.p99 = Percentile(timings, 99)
    BY <2>1 DEF CalledBenchmark, Report
  <2>3. /\ requested \in Int \cup {NaN} /\ elapsed \in Seq(Nat)
        /\ requested # NaN => Len(elapsed) > Iterations(requested)
    BY RunsAssumption DEF CalledBenchmark
  <2>4. CASE requested = NaN
    <3>1. Iterations(requested) = NaN
      BY <2>4 DEF Iterations
    <3>2. timings = Ascending(SubSeq(elapsed, 2, 1))
      BY <2>1, <3>1 DEF Measure
    <3>3. SubSeq(elapsed, 2, 1) = <<>>
      BY <2>3
    <3>4. Len(timings) = 0
      BY <3>2, <3>3 DEF Ascending
    <3>5. result.p50 = 0 /\ result.p95 = 0 /\ result.p99 = 0
      BY <2>2, <3>4 DEF Percentile
    <3> QED
      BY <2>4, <3>5 DEF PercentilesAreRanks
  <2>5. CASE requested # NaN
    <3>1. PICK n \in Nat \ {0} : n = Iterations(requested)
      BY <2>3, <2>5 DEF Iterations
    <3>2. n # NaN
      BY NaNAssumption
    <3>3. timings = Ascending(SubSeq(elapsed, 2, n + 1))
      BY <2>1, <3>1, <3>2 DEF Measure
    <3>4. elapsed \in Seq(Int) /\ Len(elapsed) > n
      BY <2>3, <2>5, <3>1
    <3>5. \A p \in {50, 95, 99} : IsPercentile(Percentile(timings, p), p, elapsed, 2 .. n + 1)
      BY <3>3, <3>4, PercentileOfRuns
    <3>6. 2 .. n + 1 # {}
      OBVIOUS
    <3> QED
      BY <2>2, <2>5, <3>1, <3>5, <3>6 DEF PercentilesAreRanks
  <2> QED
    BY <2>4, <2>5
<1> QED
  BY <1>1, <1>2, <1>3, PTL DEF Spec

-----------------------------------------------------------------------------
(***************************************************************************)
(* The two bytes of a length make up the length again.                     *)
(***************************************************************************)
LEMMA TwoBytes ==
  ASSUME NEW n \in Nat, n < 65536
  PROVE  /\ n \div 256 \in Nat /\ n % 256 \in Nat
         /\ (n \div 256) % 256 = n \div 256
         /\ (256 * (n \div 256)) + (n % 256) = n
OBVIOUS

\* What two bytes can count.
LengthRoom == 65536

(***************************************************************************)
(* The length in front of the content, for contents below 65536 bytes.     *)
(***************************************************************************)
LEMMA LengthReadsBack ==
  ASSUME NEW tag \in Nat, NEW content \in Seq(Nat), Len(content) < LengthRoom,
         NEW rest \in Seq(Nat)
  PROVE  /\ LengthBytes(DerTagged(tag, content) \o rest, 0) = Len(DerLength(Len(content))) - 1
         /\ ContentLength(DerTagged(tag, content) \o rest, 0) = Len(content)
<1> DEFINE n == Len(content)
<1>0. PICK bytes : bytes = DerTagged(tag, content) \o rest
  OBVIOUS
<1> SUFFICES LengthBytes(bytes, 0) = Len(DerLength(n)) - 1 /\ ContentLength(bytes, 0) = n
  BY <1>0
<1>1. n \in Nat /\ n < 65536
  BY DEF LengthRoom
<1>2. CASE n < 128
  <2>1. DerLength(n) = <<n>>
    BY <1>2 DEF DerLength
  <2>2. bytes = <<tag>> \o <<n>> \o content \o rest
    BY <1>0, <2>1 DEF DerTagged
  <2>3. Byte(bytes, 1) = n
    BY <2>2 DEF Byte
  <2> QED
    BY <1>1, <1>2, <2>1, <2>3 DEF LengthBytes, ContentLength
<1>3. CASE n >= 128 /\ n < 256
  <2>1. DerLength(n) = <<129, n>>
    BY <1>1, <1>3 DEF DerLength
  <2>2. bytes = <<tag>> \o <<129, n>> \o content \o rest
    BY <1>0, <2>1 DEF DerTagged
  <2>3. Byte(bytes, 1) = 129 /\ Byte(bytes, 2) = n
    BY <2>2 DEF Byte
  <2> QED
    BY <2>1, <2>3 DEF LengthBytes, ContentLength
<1>4. CASE n >= 256
  <2> DEFINE high == n \div 256
             low == n % 256
  <2>1. high % 256 = high /\ high \in Nat /\ low \in Nat /\ (256 * high) + low = n
    <3> HIDE DEF n
    <3> QED
      BY <1>1, TwoBytes
  <2>2. DerLength(n) = <<130, high, low>>
    <3>1. DerLength(n) = <<130, high % 256, low>>
      <4> HIDE DEF n
      <4> QED
        BY <1>1, <1>4 DEF DerLength
    <3> HIDE DEF high, low
    <3> QED
      BY <2>1, <3>1
  <2> HIDE DEF high, low
  <2>3. bytes = <<tag>> \o <<130, high, low>> \o content \o rest
    BY <1>0, <2>2 DEF DerTagged
  <2>4. Byte(bytes, 1) = 130 /\ Byte(bytes, 2) = high /\ Byte(bytes, 3) = low
    BY <2>1, <2>3 DEF Byte
  <2>5. LengthBytes(bytes, 0) = 2 /\ ContentLength(bytes, 0) = U16(bytes, 2)
    BY <2>4 DEF LengthBytes, ContentLength
  <2>6. ContentLength(bytes, 0) = n
    <3>1. U16(bytes, 2) = (256 * Byte(bytes, 2)) + Byte(bytes, 3)
      BY DEF U16
    <3> HIDE DEF n
    <3> QED
      BY <2>1, <2>4, <2>5, <3>1
  <2>7. Len(DerLength(n)) = 3
    BY <2>2
  <2> QED
    BY <2>5, <2>6, <2>7
<1> QED
  BY <1>1, <1>2, <1>3, <1>4

(***************************************************************************)
(* What stands between the header and the rest of the bytes is found there.*)
(***************************************************************************)
LEMMA MiddleReadsBack ==
  ASSUME NEW x \in Seq(Nat), NEW y \in Seq(Nat), NEW z \in Seq(Nat)
  PROVE  /\ Len(x) \in Nat /\ Len(y) \in Nat
         /\ Len(x \o y) = Len(x) + Len(y)
         /\ Slice(x \o y \o z, Len(x), Len(x) + Len(y)) = y
<1>1. Len(x \o y \o z) = Len(x) + Len(y) + Len(z)
  OBVIOUS
<1>2. SubSeq(x \o y \o z, Len(x) + 1, Len(x) + Len(y)) = y
  OBVIOUS
<1> QED
  BY <1>1, <1>2 DEF Slice

(***************************************************************************)
(* What derTagged() has encoded reads back: the tag, the content of any    *)
(* length the encoder has room for, and where the next element begins.     *)
(***************************************************************************)
THEOREM ElementReadsBack ==
  ASSUME NEW tag \in Nat, NEW content \in Seq(Nat), Len(content) < LengthRoom,
         NEW rest \in Seq(Nat), NEW bytes, bytes = DerTagged(tag, content) \o rest
  PROVE  /\ ElementAt(bytes, 0) = [tag |-> tag, content |-> content]
         /\ 2 + LengthBytes(bytes, 0) + ContentLength(bytes, 0) = Len(DerTagged(tag, content))
<1>1. DerLength(Len(content)) \in Seq(Nat) /\ Len(DerLength(Len(content))) \in Nat
  BY DEF DerLength
<1>2. PICK head \in Seq(Nat) : head = <<tag>> \o DerLength(Len(content))
  <2>1. <<tag>> \in Seq(Nat)
    OBVIOUS
  <2>2. <<tag>> \o DerLength(Len(content)) \in Seq(Nat)
    BY <1>1, <2>1
  <2> QED
    BY <2>2, Zenon
<1>3. Len(head) = 1 + Len(DerLength(Len(content)))
  BY <1>1, <1>2
<1>4. bytes = head \o content \o rest /\ DerTagged(tag, content) = head \o content
  BY <1>2 DEF DerTagged
<1>5. Byte(bytes, 0) = tag
  BY <1>1, <1>2, <1>4 DEF Byte
<1>6. /\ Len(head) \in Nat /\ Len(content) \in Nat
      /\ Len(head \o content) = Len(head) + Len(content)
      /\ Slice(bytes, Len(head), Len(head) + Len(content)) = content
  BY <1>4, MiddleReadsBack
<1>7. /\ LengthBytes(bytes, 0) = Len(DerLength(Len(content))) - 1
      /\ ContentLength(bytes, 0) = Len(content)
  <2>1. /\ LengthBytes(DerTagged(tag, content) \o rest, 0)
             = Len(DerLength(Len(content))) - 1
        /\ ContentLength(DerTagged(tag, content) \o rest, 0) = Len(content)
    BY LengthReadsBack
  <2> QED
    BY <2>1
<1>8. LengthBytes(bytes, 0) = Len(head) - 2
  BY <1>1, <1>3, <1>7
<1>9. ElementAt(bytes, 0) = [tag |-> tag, content |-> content]
  <2>1. 0 + 2 + LengthBytes(bytes, 0) = Len(head)
    BY <1>6, <1>8
  <2> QED
    BY <1>5, <1>6, <1>7, <2>1, Zenon DEF ElementAt
<1>10. 2 + LengthBytes(bytes, 0) + ContentLength(bytes, 0) = Len(DerTagged(tag, content))
  <2>1. Len(DerTagged(tag, content)) = Len(head) + Len(content)
    BY <1>4, <1>6, Zenon
  <2> QED
    BY <1>6, <1>7, <1>8, <2>1
<1> QED
  BY <1>9, <1>10

-----------------------------------------------------------------------------
(***************************************************************************)
(* What lies in a part of some bytes.                                      *)
(***************************************************************************)
LEMMA ByteInPart ==
  ASSUME NEW S, NEW b \in Seq(S), NEW i \in Nat, NEW j \in Nat, i <= j, j <= Len(b),
         NEW k \in Nat, i + k < j
  PROVE  Byte(Between(b, i, j), k) = Byte(b, i + k)
<1>1. PICK w : w = Between(b, i, j)
  OBVIOUS
<1>2. w \in Seq(S) /\ Len(w) = j - i /\ \A n \in 1 .. j - i : w[n] = b[i + n]
  BY <1>1, BetweenBytes, Zenon DEF IsPart
<1>3. k + 1 \in 1 .. j - i /\ k < j - i /\ i + k < Len(b) /\ i + (k + 1) = (i + k) + 1
  OBVIOUS
<1>4. Byte(w, k) = w[k + 1]
  BY <1>2, <1>3 DEF Byte
<1>5. Byte(b, i + k) = b[(i + k) + 1]
  BY <1>3 DEF Byte
<1> QED
  BY <1>1, <1>2, <1>3, <1>4, <1>5

LEMMA U16InPart ==
  ASSUME NEW S, NEW b \in Seq(S), NEW i \in Nat, NEW j \in Nat, i <= j, j <= Len(b),
         NEW k \in Nat, i + k + 1 < j
  PROVE  U16(Between(b, i, j), k) = U16(b, i + k)
<1>1. k + 1 \in Nat /\ i + k < j /\ i + (k + 1) < j /\ i + (k + 1) = (i + k) + 1
  OBVIOUS
<1>2. Byte(Between(b, i, j), k) = Byte(b, i + k)
  BY <1>1, ByteInPart
<1>3. Byte(Between(b, i, j), k + 1) = Byte(b, (i + k) + 1)
  <2>1. PICK m \in Nat : m = k + 1 /\ i + m < j /\ i + m = (i + k) + 1
    BY <1>1
  <2>2. Byte(Between(b, i, j), m) = Byte(b, i + m)
    BY <2>1, ByteInPart, ZenonT(40)
  <2> QED
    BY <2>1, <2>2
<1> QED
  BY <1>2, <1>3 DEF U16

(***************************************************************************)
(* Items of six bytes, one after the other.                                *)
(***************************************************************************)
InPlace(bytes, items, k) ==
    /\ Len(bytes) = 6 * k
    /\ \A i \in 1 .. k, j \in 1 .. 6 : bytes[(6 * (i - 1)) + j] = items[i][j]

LEMMA OneItemMore ==
  ASSUME NEW bytes \in Seq(Int), NEW item \in Seq(Int), Len(item) = 6,
         NEW items, NEW k \in Nat, InPlace(bytes, items, k), items[k + 1] = item
  PROVE  InPlace(bytes \o item, items, k + 1)
<1>1. /\ Len(bytes) = 6 * k
      /\ Len(bytes \o item) = (6 * k) + 6
      /\ \A n \in 1 .. (6 * k) + 6 :
            (bytes \o item)[n] = IF n <= 6 * k THEN bytes[n] ELSE item[n - (6 * k)]
  <2>1. PICK m \in Nat : m = 6 * k
    OBVIOUS
  <2>2. Len(bytes) = m
    BY <2>1 DEF InPlace
  <2>3. /\ Len(bytes \o item) = Len(bytes) + Len(item)
        /\ \A n \in 1 .. Len(bytes) + Len(item) :
              (bytes \o item)[n] = IF n <= Len(bytes) THEN bytes[n] ELSE item[n - Len(bytes)]
    BY ConcatProperties, Zenon
  <2> QED
    BY <2>1, <2>2, <2>3
<1>2. ASSUME NEW i \in 1 .. k + 1, NEW j \in 1 .. 6
      PROVE  (bytes \o item)[(6 * (i - 1)) + j] = items[i][j]
  <2>1. PICK n \in Nat : n = (6 * (i - 1)) + j
    OBVIOUS
  <2>2. CASE i \in 1 .. k
    <3>1. n \in 1 .. (6 * k) + 6 /\ n <= 6 * k
      BY <2>1, <2>2
    <3>2. (bytes \o item)[n] = bytes[n]
      BY <1>1, <3>1
    <3> QED
      BY <2>1, <2>2, <3>2 DEF InPlace
  <2>3. CASE i = k + 1
    <3>1. n \in 1 .. (6 * k) + 6 /\ ~(n <= 6 * k) /\ n - (6 * k) = j
      BY <2>1, <2>3
    <3>2. (bytes \o item)[n] = item[j]
      BY <1>1, <3>1
    <3> QED
      BY <2>1, <2>3, <3>2
  <2>4. i \in 1 .. k \/ i = k + 1
    OBVIOUS
  <2> QED
    BY <2>2, <2>3, <2>4
<1>3. Len(bytes \o item) = 6 * (k + 1)
  BY <1>1
<1> QED
  BY <1>2, <1>3 DEF InPlace

LEMMA ItemsInPlace ==
  ASSUME NEW items \in Seq(Seq(Int)), \A k \in 1 .. Len(items) : Len(items[k]) = 6
  PROVE  InPlace(FlattenSeq(items), items, Len(items))
<1>1. CASE Len(items) = 0
  <2>1. items = <<>>
    BY <1>1, EmptySeq
  <2>2. FlattenSeq(items) = <<>>
    BY <2>1, FlattenEmpty
  <2> QED
    BY <1>1, <2>2 DEF InPlace
<1>2. CASE Len(items) # 0
  <2>1. PICK n \in Nat : n = Len(items) /\ n # 0
    BY <1>2
  <2>2. PICK f \in [1 .. n -> Seq(Int)] : Joins(f, items, n) /\ FlattenSeq(items) = f[n]
    BY <1>2, <2>1, FlattenJoins, Zenon
  <2> DEFINE A == {k \in Nat : k \in 1 .. n => InPlace(f[k], items, k)}
  <2>3. 0 \in A
    OBVIOUS
  <2>4. ASSUME NEW k \in Nat, k \in A PROVE k + 1 \in A
    <3> SUFFICES ASSUME k + 1 \in 1 .. n PROVE InPlace(f[k + 1], items, k + 1)
      OBVIOUS
    <3>1. f[k + 1] = IF k + 1 = 1 THEN items[k + 1] ELSE f[(k + 1) - 1] \o items[k + 1]
      BY <2>2 DEF Joins
    <3>2. items[k + 1] \in Seq(Int) /\ Len(items[k + 1]) = 6
      BY <2>1, ElementOfSeq
    <3>3. CASE k = 0
      <4>1. f[1] = items[1]
        BY <3>1, <3>3
      <4>2. \A i \in 1 .. 1, j \in 1 .. 6 : i = 1 /\ (6 * (i - 1)) + j = j
        OBVIOUS
      <4>3. InPlace(f[1], items, 1)
        BY <3>2, <3>3, <4>1, <4>2 DEF InPlace
      <4> QED
        BY <3>3, <4>3
    <3>4. CASE k # 0
      <4>1. k \in 1 .. n /\ k + 1 # 1 /\ (k + 1) - 1 = k
        BY <3>4
      <4>2. InPlace(f[k], items, k) /\ f[k] \in Seq(Int)
        BY <2>2, <2>4, <4>1
      <4>3. f[k + 1] = f[k] \o items[k + 1]
        BY <3>1, <4>1
      <4>4. InPlace(f[k] \o items[k + 1], items, k + 1)
        BY <3>2, <4>2, OneItemMore
      <4> QED
        BY <4>3, <4>4
    <3> QED
      BY <3>3, <3>4
  <2>5. n \in A
    <3> HIDE DEF A
    <3> QED
      BY <2>1, <2>3, <2>4, SetInduction
  <2> QED
    BY <2>1, <2>2, <2>5
<1> QED
  BY <1>1, <1>2

(***************************************************************************)
(* Where a setting lies in a SETTINGS frame, and what is read there.       *)
(***************************************************************************)
SentList == Seq(Nat \X (Nat \X Nat))

SettingLies(bytes, i, setting) ==
    /\ U16(bytes, i) = setting[1]
    /\ U16(bytes, i + 2) = setting[2][1]
    /\ U16(bytes, i + 4) = setting[2][2]

SixBytes(x, y, z) ==
    <<x \div 256, x % 256, y \div 256, y % 256, z \div 256, z % 256>>

LEMMA ThreePairs ==
  ASSUME NEW a \in Int, NEW b \in Int, NEW c \in Int, NEW d \in Int, NEW e \in Int,
         NEW f \in Int
  PROVE  <<a, b>> \o <<c, d>> \o <<e, f>> = <<a, b, c, d, e, f>>
<1>1. \A x, y \in Int : /\ <<x, y>> \in Seq(Int) /\ Len(<<x, y>>) = 2
                       /\ <<x, y>>[1] = x /\ <<x, y>>[2] = y
  OBVIOUS
<1>2. PICK v : v = <<a, b>> \o <<c, d>>
  OBVIOUS
<1>3. /\ v \in Seq(Int) /\ Len(v) = 4 /\ v[1] = a /\ v[2] = b /\ v[3] = c /\ v[4] = d
  <2>1. PICK s, t : s = <<a, b>> /\ t = <<c, d>>
    OBVIOUS
  <2>2. /\ s \in Seq(Int) /\ Len(s) = 2 /\ s[1] = a /\ s[2] = b
        /\ t \in Seq(Int) /\ Len(t) = 2 /\ t[1] = c /\ t[2] = d
    BY <1>1, <2>1
  <2>3. s \o t \in Seq(Int) /\ Len(s \o t) = Len(s) + Len(t)
        /\ \A k \in 1 .. Len(s) + Len(t) : (s \o t)[k] = IF k <= Len(s) THEN s[k] ELSE t[k - Len(s)]
    BY <2>2, ConcatProperties, Zenon
  <2> QED
    BY <1>2, <2>1, <2>2, <2>3
<1>4. PICK w : w = v \o <<e, f>>
  OBVIOUS
<1>5. /\ w \in Seq(Int) /\ Len(w) = 6 /\ w[1] = a /\ w[2] = b /\ w[3] = c
      /\ w[4] = d /\ w[5] = e /\ w[6] = f
  <2>1. PICK t : t = <<e, f>>
    OBVIOUS
  <2>2. t \in Seq(Int) /\ Len(t) = 2 /\ t[1] = e /\ t[2] = f
    BY <1>1, <2>1
  <2>3. v \o t \in Seq(Int) /\ Len(v \o t) = Len(v) + Len(t)
        /\ \A k \in 1 .. Len(v) + Len(t) : (v \o t)[k] = IF k <= Len(v) THEN v[k] ELSE t[k - Len(v)]
    BY <1>3, <2>2, ConcatProperties, Zenon
  <2> QED
    BY <1>3, <1>4, <2>1, <2>2, <2>3
<1>6. PICK z : z = <<a, b, c, d, e, f>>
  OBVIOUS
<1>7. /\ z \in Seq(Int) /\ Len(z) = 6 /\ z[1] = a /\ z[2] = b
      /\ z[3] = c /\ z[4] = d /\ z[5] = e /\ z[6] = f
  BY <1>6
<1>8. \A k \in 1 .. 6 : k = 1 \/ k = 2 \/ k = 3 \/ k = 4 \/ k = 5 \/ k = 6
  OBVIOUS
<1>9. \A k \in 1 .. 6 : w[k] = z[k]
  BY <1>5, <1>7, <1>8, Zenon
<1>10. w = z
  BY <1>5, <1>7, <1>9, SeqEqual
<1> QED
  BY <1>2, <1>4, <1>6, <1>10

LEMMA SettingIsSixBytes ==
  ASSUME NEW setting \in Nat \X (Nat \X Nat)
  PROVE  /\ SettingBytes(setting) = SixBytes(setting[1], setting[2][1], setting[2][2])
         /\ SettingBytes(setting) \in Seq(Int) /\ Len(SettingBytes(setting)) = 6
<1>1. PICK x \in Nat, y \in Nat, z \in Nat : x = setting[1] /\ y = setting[2][1] /\ z = setting[2][2]
  OBVIOUS
<1>2. SettingBytes(setting) = Bytes16(x) \o Bytes16(y) \o Bytes16(z)
  BY <1>1 DEF SettingBytes
<1>4. \A n \in Nat : n \div 256 \in Int /\ n % 256 \in Int
  OBVIOUS
<1>5. SettingBytes(setting) = SixBytes(x, y, z)
  <2>1. PICK a, b, c, d, e, f :
           /\ a = x \div 256 /\ b = x % 256 /\ c = y \div 256 /\ d = y % 256
           /\ e = z \div 256 /\ f = z % 256
    OBVIOUS
  <2>2. a \in Int /\ b \in Int /\ c \in Int /\ d \in Int /\ e \in Int /\ f \in Int
    BY <1>4, <2>1
  <2>3. <<a, b>> \o <<c, d>> \o <<e, f>> = <<a, b, c, d, e, f>>
    BY <2>2, ThreePairs
  <2>4. /\ Bytes16(x) = <<a, b>> /\ Bytes16(y) = <<c, d>> /\ Bytes16(z) = <<e, f>>
        /\ SixBytes(x, y, z) = <<a, b, c, d, e, f>>
    BY <2>1, ZenonT(40) DEF Bytes16, SixBytes
  <2> QED
    BY <1>2, <2>3, <2>4, Zenon
<1>6. SixBytes(x, y, z) \in Seq(Int) /\ Len(SixBytes(x, y, z)) = 6
  BY <1>4 DEF SixBytes
<1> QED
  BY <1>1, <1>5, <1>6

FrameLies(b, sent) ==
    /\ b \in Seq(Int) /\ Len(b) = 9 + (6 * Len(sent))
    /\ Byte(b, 0) = 0 /\ Byte(b, 1) = 0 /\ Byte(b, 3) = 4
    /\ \A k \in 1 .. Len(sent) : SettingLies(b, 9 + (6 * (k - 1)), sent[k])

LEMMA FrameIsLaidOut ==
  ASSUME NEW sent \in SentList
  PROVE  FrameLies(SettingsFrame(sent), sent)
<1>1. PICK n \in Nat : n = Len(sent)
  BY DEF SentList
<1>2. PICK items : items = [k \in DOMAIN sent |-> SettingBytes(sent[k])]
  OBVIOUS
<1>3. ASSUME NEW k \in 1 .. n
      PROVE  /\ sent[k] \in Nat \X (Nat \X Nat)
             /\ items[k] = SixBytes(sent[k][1], sent[k][2][1], sent[k][2][2])
             /\ items[k] \in Seq(Int) /\ Len(items[k]) = 6
  <2>1. sent[k] \in Nat \X (Nat \X Nat)
    BY <1>1, ElementOfSeq DEF SentList
  <2>2. items[k] = SettingBytes(sent[k])
    BY <1>1, <1>2 DEF SentList
  <2> QED
    BY <2>1, <2>2, SettingIsSixBytes
<1>4. items \in Seq(Seq(Int)) /\ Len(items) = n
  <2>1. DOMAIN sent = 1 .. n
    BY <1>1 DEF SentList
  <2>2. \A k \in 1 .. n : SettingBytes(sent[k]) \in Seq(Int)
    BY <1>2, <1>3, <2>1
  <2> QED
    BY <1>2, <2>1, <2>2
<1>5. InPlace(FlattenSeq(items), items, n) /\ FlattenSeq(items) \in Seq(Int)
  BY <1>3, <1>4, ItemsInPlace, FlattenIsSeq
<1>6. PICK header \in Seq(Int) :
         /\ header = <<0, 0, 6 * n, 4, 0, 0, 0, 0, 0>> /\ Len(header) = 9
         /\ header[1] = 0 /\ header[2] = 0 /\ header[4] = 4
  <2>1. PICK m \in Int : m = 6 * n
    OBVIOUS
  <2>2. PICK header : header = <<0, 0, m, 4, 0, 0, 0, 0, 0>>
    OBVIOUS
  <2>3. /\ header \in Seq(Int) /\ Len(header) = 9
        /\ header[1] = 0 /\ header[2] = 0 /\ header[4] = 4
    BY <2>2
  <2> QED
    BY <2>1, <2>2, <2>3, Zenon
<1>7. PICK tail \in Seq(Int) : tail = FlattenSeq(items) /\ Len(tail) = 6 * n
  BY <1>5 DEF InPlace
<1>8. PICK b : b = SettingsFrame(sent) /\ b = header \o tail
  BY <1>1, <1>2, <1>6, <1>7 DEF SettingsFrame
<1>9. /\ b \in Seq(Int) /\ Len(b) = 9 + (6 * n)
      /\ \A k \in 1 .. 9 : b[k] = header[k]
      /\ \A k \in 1 .. 6 * n : b[9 + k] = tail[k]
  BY <1>6, <1>7, <1>8, ConcatProperties
<1>10. Byte(b, 0) = 0 /\ Byte(b, 1) = 0 /\ Byte(b, 3) = 4
  BY <1>6, <1>9 DEF Byte
<1>11. ASSUME NEW k \in 1 .. n
       PROVE  SettingLies(b, 9 + (6 * (k - 1)), sent[k])
  <2>1. PICK x \in Nat, y \in Nat, z \in Nat :
           x = sent[k][1] /\ y = sent[k][2][1] /\ z = sent[k][2][2]
    BY <1>3
  <2>2. PICK i \in Nat : i = 6 * (k - 1) /\ i + 6 <= 6 * n
    OBVIOUS
  <2>3. ASSUME NEW j \in 1 .. 6 PROVE Byte(b, 9 + i + (j - 1)) = items[k][j]
    <3>1. i + j \in 1 .. 6 * n /\ 9 + (i + j) = (9 + i + (j - 1)) + 1
      BY <2>2
    <3>2. b[9 + (i + j)] = tail[i + j] /\ tail[i + j] = items[k][j]
      BY <1>5, <1>7, <1>9, <2>2, <3>1 DEF InPlace
    <3>3. 9 + i + (j - 1) < Len(b)
      BY <1>9, <2>2
    <3> QED
      BY <3>1, <3>2, <3>3 DEF Byte
  <2>4. /\ items[k][1] = x \div 256 /\ items[k][2] = x % 256
        /\ items[k][3] = y \div 256 /\ items[k][4] = y % 256
        /\ items[k][5] = z \div 256 /\ items[k][6] = z % 256
    <3>1. PICK a, b1, c, d, e, f :
             /\ a = x \div 256 /\ b1 = x % 256 /\ c = y \div 256 /\ d = y % 256
             /\ e = z \div 256 /\ f = z % 256
      OBVIOUS
    <3>2. PICK w : w = <<a, b1, c, d, e, f>>
      OBVIOUS
    <3>3. items[k] = w
      BY <1>3, <2>1, <3>1, <3>2, ZenonT(40) DEF SixBytes
    <3>4. w[1] = a /\ w[2] = b1 /\ w[3] = c /\ w[4] = d /\ w[5] = e /\ w[6] = f
      BY ONLY <3>2
    <3> QED
      BY <3>1, <3>3, <3>4, Zenon
  <2>5. PICK p \in Nat : p = 9 + i
    OBVIOUS
  <2>6. /\ Byte(b, p) = x \div 256 /\ Byte(b, p + 1) = x % 256
        /\ Byte(b, p + 2) = y \div 256 /\ Byte(b, (p + 2) + 1) = y % 256
        /\ Byte(b, p + 4) = z \div 256 /\ Byte(b, (p + 4) + 1) = z % 256
    <3>1. /\ p = 9 + i + (1 - 1) /\ p + 1 = 9 + i + (2 - 1) /\ p + 2 = 9 + i + (3 - 1)
          /\ (p + 2) + 1 = 9 + i + (4 - 1) /\ p + 4 = 9 + i + (5 - 1)
          /\ (p + 4) + 1 = 9 + i + (6 - 1)
      BY <2>5
    <3>2. 1 \in 1 .. 6 /\ 2 \in 1 .. 6 /\ 3 \in 1 .. 6 /\ 4 \in 1 .. 6 /\ 5 \in 1 .. 6 /\ 6 \in 1 .. 6
      OBVIOUS
    <3> QED
      BY <2>3, <2>4, <3>1, <3>2
  <2>7. \A w \in Nat : (256 * (w \div 256)) + (w % 256) = w
    OBVIOUS
  <2>8. SettingLies(b, p, sent[k])
    <3>1. U16(b, p) = x
      BY <2>6, <2>7 DEF U16
    <3>2. U16(b, p + 2) = y
      BY <2>6, <2>7 DEF U16
    <3>3. U16(b, p + 4) = z
      BY <2>6, <2>7 DEF U16
    <3> QED
      BY <2>1, <3>1, <3>2, <3>3 DEF SettingLies
  <2> QED
    BY <2>2, <2>5, <2>8
<1> QED
  BY <1>1, <1>8, <1>9, <1>10, <1>11 DEF FrameLies

(***************************************************************************)
(* parseHttp2Settings(): the map after each setting, and what the map says *)
(* of an id: nothing if none of the settings so far has it, else the value *)
(* of the last one that has.                                               *)
(***************************************************************************)
Parses(maps, payload, n) ==
    maps = [k \in 0 .. n |->
              IF k = 0 THEN <<>>
              ELSE MapSet(maps[k - 1], SettingId(payload, k), SettingValue(payload, k))]

LEMMA ParsesExist ==
  ASSUME NEW payload, NEW n \in Nat
  PROVE  \E maps : Parses(maps, payload, n)
<1> DEFINE A == {k \in Nat : \E maps : Parses(maps, payload, k)}
<1>1. 0 \in A
  <2>1. PICK maps : maps = [k \in 0 .. 0 |-> <<>>]
    OBVIOUS
  <2>2. \A k \in 0 .. 0 : k = 0
    OBVIOUS
  <2>3. maps = [k \in 0 .. 0 |->
                  IF k = 0 THEN <<>>
                  ELSE MapSet(maps[k - 1], SettingId(payload, k), SettingValue(payload, k))]
    BY <2>1, <2>2, Zenon
  <2>4. Parses(maps, payload, 0)
    BY <2>3, Zenon DEF Parses
  <2> QED
    BY <2>4
<1>2. ASSUME NEW k \in Nat, k \in A PROVE k + 1 \in A
  <2>1. PICK old : Parses(old, payload, k)
    BY <1>2
  <2> DEFINE step(maps, i) ==
                IF i = 0 THEN <<>>
                ELSE MapSet(maps[i - 1], SettingId(payload, i), SettingValue(payload, i))
             new == [i \in 0 .. k + 1 |-> IF i = k + 1 THEN step(old, i) ELSE old[i]]
  <2>2. old = [i \in 0 .. k |-> step(old, i)]
    BY <2>1, Zenon DEF Parses
  <2>3. \A i \in 0 .. k : new[i] = old[i]
    OBVIOUS
  <2>4. ASSUME NEW i \in 0 .. k + 1 PROVE new[i] = step(new, i)
    <3>1. i = 0 \/ i - 1 \in 0 .. k
      OBVIOUS
    <3>2. i = 0 \/ new[i - 1] = old[i - 1]
      BY <2>3, <3>1
    <3>3. step(new, i) = step(old, i)
      BY <3>2
    <3>4. CASE i = k + 1
      BY <3>3, <3>4
    <3>5. CASE i # k + 1
      <4>1. i \in 0 .. k
        BY <3>5
      <4>2. new[i] = old[i] /\ old[i] = step(old, i)
        <5> HIDE DEF step
        <5> QED
          BY <2>2, <2>3, <4>1, Zenon
      <4> QED
        BY <3>3, <4>2
    <3> QED
      BY <3>4, <3>5
  <2>5. new = [i \in 0 .. k + 1 |-> step(new, i)]
    <3>1. PICK f : f = new
      OBVIOUS
    <3>2. f = [i \in 0 .. k + 1 |-> f[i]] /\ \A i \in 0 .. k + 1 : f[i] = step(f, i)
      BY <2>4, <3>1
    <3> HIDE DEF new, step
    <3> QED
      BY <3>1, <3>2, Zenon
  <2>6. Parses(new, payload, k + 1)
    BY <2>5, Zenon DEF Parses
  <2> QED
    BY <2>6
<1>3. n \in A
  <2> HIDE DEF A
  <2> QED
    BY <1>1, <1>2, SetInduction
<1> QED
  BY <1>3

LEMMA SettingsParsed ==
  ASSUME NEW payload, NEW n \in Nat, n = Len(payload) \div 6
  PROVE  \E maps : Parses(maps, payload, n) /\ ParseHttp2Settings(payload) = maps[n]
<1>1. PICK maps : maps = CHOOSE f : Parses(f, payload, n)
  OBVIOUS
<1>2. Parses(maps, payload, n)
  BY <1>1, ParsesExist, Zenon
<1>3. ParseHttp2Settings(payload) = (CHOOSE f : Parses(f, payload, n))[n]
  BY Zenon DEF ParseHttp2Settings, Parses
<1> QED
  BY <1>1, <1>2, <1>3, Zenon

LastOf(value, sent, k, id) ==
    \/ value = <<>> /\ \A j \in 1 .. k : sent[j][1] # id
    \/ \E m \in 1 .. k : /\ sent[m][1] = id
                         /\ \A j \in 1 .. k : sent[j][1] = id => j <= m
                         /\ value = <<sent[m][2]>>

LEMMA LookupAfterSet ==
  ASSUME NEW map, NEW i, NEW value, NEW id
  PROVE  Lookup(MapSet(map, i, value), id) = IF id = i THEN <<value>> ELSE Lookup(map, id)
BY DEF Lookup, MapSet

LEMMA LastIsFound ==
  ASSUME NEW payload, NEW n \in Nat, NEW maps, Parses(maps, payload, n), NEW sent, NEW id,
         \A k \in 1 .. n : /\ SettingId(payload, k) = sent[k][1]
                           /\ SettingValue(payload, k) = sent[k][2]
  PROVE  LastOf(Lookup(maps[n], id), sent, n, id)
<1> DEFINE A == {k \in Nat : k <= n => LastOf(Lookup(maps[k], id), sent, k, id)}
<1>0. \A k \in 0 .. n :
        maps[k] = IF k = 0 THEN <<>>
                  ELSE MapSet(maps[k - 1], SettingId(payload, k), SettingValue(payload, k))
  BY Zenon DEF Parses
<1>1. 0 \in A
  <2>1. 0 \in 0 .. n
    OBVIOUS
  <2>2. maps[0] = <<>>
    BY <1>0, <2>1
  <2>3. Lookup(<<>>, id) = <<>>
    BY DEF Lookup
  <2>4. \A j \in 1 .. 0 : sent[j][1] # id
    OBVIOUS
  <2> QED
    BY <2>2, <2>3, <2>4 DEF LastOf
<1>2. ASSUME NEW k \in Nat, k \in A PROVE k + 1 \in A
  <2> SUFFICES ASSUME k + 1 <= n PROVE LastOf(Lookup(maps[k + 1], id), sent, k + 1, id)
    OBVIOUS
  <2>1. /\ k + 1 \in 0 .. n /\ k + 1 \in 1 .. n /\ k + 1 # 0 /\ (k + 1) - 1 = k /\ k <= n
        /\ k + 1 \in 1 .. k + 1
    OBVIOUS
  <2>2. maps[k + 1] = MapSet(maps[k], SettingId(payload, k + 1), SettingValue(payload, k + 1))
    BY <1>0, <2>1
  <2>3. maps[k + 1] = MapSet(maps[k], sent[k + 1][1], sent[k + 1][2])
    BY <2>1, <2>2
  <2>4. Lookup(maps[k + 1], id)
          = IF id = sent[k + 1][1] THEN <<sent[k + 1][2]>> ELSE Lookup(maps[k], id)
    BY <2>3, LookupAfterSet
  <2>5. \A j \in 1 .. k + 1 : j <= k + 1 /\ (j \in 1 .. k \/ j = k + 1)
    OBVIOUS
  <2>6. CASE id = sent[k + 1][1]
    BY <2>1, <2>4, <2>5, <2>6, Zenon DEF LastOf
  <2>7. CASE id # sent[k + 1][1]
    <3>1. LastOf(Lookup(maps[k], id), sent, k, id)
      BY <1>2, <2>1
    <3>2. \A m \in 1 .. k : m \in 1 .. k + 1
      OBVIOUS
    <3> QED
      BY <2>4, <2>5, <2>7, <3>1, <3>2, Zenon DEF LastOf
  <2> QED
    BY <2>6, <2>7
<1>3. n \in A
  <2> HIDE DEF A
  <2> QED
    BY <1>1, <1>2, SetInduction
<1>4. n <= n
  OBVIOUS
<1> QED
  BY <1>3, <1>4

(***************************************************************************)
(* What is left of a frame behind its header, cut off at size: the         *)
(* settings that are there as a whole.                                     *)
(***************************************************************************)
Whole(sent, size) == {k \in DOMAIN sent : 9 + (6 * k) <= size}

HoldsSettings(payload, sent, size) ==
    \E n \in Nat : /\ n = Len(payload) \div 6 /\ Whole(sent, size) = 1 .. n
                   /\ \A k \in 1 .. n : /\ SettingId(payload, k) = sent[k][1]
                                        /\ SettingValue(payload, k) = sent[k][2]

ReadsAs(payload, k, setting) ==
    SettingId(payload, k) = setting[1] /\ SettingValue(payload, k) = setting[2]

LEMMA SettingReadBack ==
  ASSUME NEW b \in Seq(Int), NEW size \in Nat, 9 <= size, size <= Len(b),
         NEW k \in Nat, k # 0, 9 + (6 * k) <= size,
         NEW setting \in Nat \X (Nat \X Nat), SettingLies(b, 9 + (6 * (k - 1)), setting)
  PROVE  ReadsAs(Between(b, 9, size), k, setting)
<1>1. PICK p : p = Between(b, 9, size)
  OBVIOUS
<1>2. PICK i \in Nat : i = 6 * (k - 1) /\ 9 + i + 6 <= size
  OBVIOUS
<1>3. /\ i + 2 \in Nat /\ i + 4 \in Nat /\ 9 \in Nat
      /\ 9 + i + 1 < size /\ 9 + (i + 2) + 1 < size /\ 9 + (i + 4) + 1 < size
      /\ 9 + (i + 2) = (9 + i) + 2 /\ 9 + (i + 4) = (9 + i) + 4
  BY <1>2
<1>4. U16(p, i) = U16(b, 9 + i)
  BY <1>1, <1>3, U16InPart
<1>5. U16(p, i + 2) = U16(b, (9 + i) + 2)
  <2>1. PICK m \in Nat : m = i + 2
    OBVIOUS
  <2>2. 9 + m + 1 < size /\ 9 + m = (9 + i) + 2
    BY <1>3, <2>1
  <2>3. U16(p, m) = U16(b, 9 + m)
    BY <1>1, <1>3, <2>2, U16InPart
  <2> QED
    BY <2>1, <2>2, <2>3
<1>6. U16(p, i + 4) = U16(b, (9 + i) + 4)
  <2>1. PICK m \in Nat : m = i + 4
    OBVIOUS
  <2>2. 9 + m + 1 < size /\ 9 + m = (9 + i) + 4
    BY <1>3, <2>1
  <2>3. U16(p, m) = U16(b, 9 + m)
    BY <1>1, <1>3, <2>2, U16InPart
  <2> QED
    BY <2>1, <2>2, <2>3
<1>7. /\ U16(b, 9 + i) = setting[1] /\ U16(b, (9 + i) + 2) = setting[2][1]
      /\ U16(b, (9 + i) + 4) = setting[2][2]
  BY <1>2 DEF SettingLies
<1>8. SettingId(p, k) = setting[1]
  BY <1>2, <1>4, <1>7 DEF SettingId
<1>9. SettingValue(p, k) = <<setting[2][1], setting[2][2]>>
  BY <1>2, <1>5, <1>6, <1>7, Zenon DEF SettingValue
<1>10. setting[2] = <<setting[2][1], setting[2][2]>>
  OBVIOUS
<1> QED
  BY <1>1, <1>8, <1>9, <1>10 DEF ReadsAs

LEMMA BehindHeader ==
  ASSUME NEW b \in Seq(Int), NEW size \in Nat, 9 <= size, size <= Len(b)
  PROVE  Between(Between(b, 0, size), 9, size) = Between(b, 9, size)
<1>1. PICK zero \in Nat, nine \in Nat : zero = 0 /\ nine = 9
  OBVIOUS
<1>2. zero <= size /\ nine <= size /\ zero + size <= size
  BY <1>1
<1>3. Between(Between(b, zero, size), nine, size) = Between(b, zero + nine, zero + size)
  BY <1>2, BetweenBetween, SMTT(20)
<1>4. zero + nine = nine /\ zero + size = size
  BY <1>1
<1> QED
  BY <1>1, <1>3, <1>4

LEMMA PayloadOfFrame ==
  ASSUME NEW sent \in SentList, NEW size \in 9 .. Len(SettingsFrame(sent))
  PROVE  HoldsSettings(SettingsPayload(SubSeq(SettingsFrame(sent), 1, size)), sent, size)
<1>1. PICK b \in Seq(Int) : b = SettingsFrame(sent) /\ FrameLies(b, sent)
  BY FrameIsLaidOut DEF FrameLies
<1>2. PICK n \in Nat : n = Len(sent)
  BY DEF SentList
<1>3. size \in Nat /\ 9 <= size /\ size <= Len(b) /\ Len(b) = 9 + (6 * n)
  BY <1>1, <1>2 DEF FrameLies
<1>4. PICK c : c = SubSeq(b, 1, size) /\ c = Between(b, 0, size)
  <2>1. 0 + 1 = 1
    OBVIOUS
  <2> QED
    BY <2>1, Zenon DEF Between
<1>5. c \in Seq(Int) /\ Len(c) = size /\ Byte(c, 3) = 4
  <2>1. 0 \in Nat /\ 0 <= size /\ size - 0 = size /\ 3 \in Nat /\ 0 + 3 < size /\ 0 + 3 = 3
    BY <1>3
  <2>2. IsPart(Between(b, 0, size), Int, b, 0, size)
    BY <1>3, <2>1, BetweenBytes, Zenon
  <2>3. Byte(Between(b, 0, size), 3) = Byte(b, 0 + 3)
    BY <1>3, <2>1, ByteInPart
  <2>4. Byte(b, 3) = 4
    BY <1>1 DEF FrameLies
  <2> QED
    BY <1>4, <2>1, <2>2, <2>3, <2>4 DEF IsPart
<1>6. PICK p : p = Between(b, 9, size) /\ SettingsPayload(c) = p
  <2>1. SettingsPayload(c) = Between(c, 9, size)
    BY <1>3, <1>5 DEF SettingsPayload, Between
  <2>2. Between(Between(b, 0, size), 9, size) = Between(b, 9, size)
    BY <1>3, BehindHeader
  <2> QED
    BY <1>4, <2>1, <2>2
<1>7. Len(p) = size - 9
  <2>1. 9 \in Nat
    OBVIOUS
  <2>2. IsPart(Between(b, 9, size), Int, b, 9, size)
    BY <1>3, <2>1, BetweenBytes, Zenon
  <2> QED
    BY <1>6, <2>2 DEF IsPart
<1>8. PICK q \in Nat : q = (size - 9) \div 6
  BY <1>3
<1>9. \A k \in Nat : 9 + (6 * k) <= size <=> k <= q
  BY <1>3, <1>8
<1>10. q <= n
  BY <1>3, <1>8
<1>11. Whole(sent, size) = 1 .. q
  <2>1. DOMAIN sent = 1 .. n
    BY <1>2 DEF SentList
  <2> QED
    BY <1>9, <1>10, <2>1, SMTT(20) DEF Whole
<1>12. ASSUME NEW k \in 1 .. q
       PROVE  SettingId(p, k) = sent[k][1] /\ SettingValue(p, k) = sent[k][2]
  <2>1. k \in 1 .. n /\ k \in Nat \ {0} /\ 9 + (6 * k) <= size
    BY <1>9, <1>10
  <2>2. SettingLies(b, 9 + (6 * (k - 1)), sent[k])
    BY <1>1, <1>2, <2>1 DEF FrameLies
  <2>3. PICK setting \in Nat \X (Nat \X Nat) : setting = sent[k]
    BY <1>2, <2>1, ElementOfSeq DEF SentList
  <2>4. PICK m \in Nat : m = k /\ m # 0
    BY <2>1
  <2>5. 9 + (6 * m) <= size /\ SettingLies(b, 9 + (6 * (m - 1)), setting)
    BY <2>1, <2>2, <2>3, <2>4
  <2>6. ReadsAs(Between(b, 9, size), m, setting)
    BY <1>3, <2>4, <2>5, SettingReadBack, Zenon
  <2> QED
    BY <1>6, <2>3, <2>4, <2>6 DEF ReadsAs
<1> QED
  BY <1>1, <1>4, <1>6, <1>7, <1>8, <1>11, <1>12 DEF HoldsSettings

(***************************************************************************)
(* A capture that ends in the frame's header is parsed as settings; what   *)
(* is found in it is no setting the suite checks.                          *)
(***************************************************************************)
LEMMA HeaderHoldsNone ==
  ASSUME NEW sent \in SentList, NEW size \in 0 .. 8, size <= Len(SettingsFrame(sent)),
         NEW id \in CheckedSettings
  PROVE  /\ Lookup(ParseHttp2Settings(SettingsPayload(SubSeq(SettingsFrame(sent), 1, size))), id) = <<>>
         /\ Whole(sent, size) = {}
<1>1. PICK b \in Seq(Int) : b = SettingsFrame(sent) /\ FrameLies(b, sent)
  BY FrameIsLaidOut DEF FrameLies
<1>2. PICK c : c = SubSeq(b, 1, size) /\ c = Between(b, 0, size)
  <2>1. 0 + 1 = 1
    OBVIOUS
  <2> QED
    BY <2>1, Zenon DEF Between
<1>3. 0 \in Nat /\ size \in Nat /\ 0 <= size /\ size - 0 = size /\ size <= Len(b) /\ size < 9
  BY <1>1
<1>4. c \in Seq(Int) /\ Len(c) = size
  <2>1. IsPart(Between(b, 0, size), Int, b, 0, size)
    BY <1>3, BetweenBytes, Zenon
  <2> QED
    BY <1>2, <1>3, <2>1 DEF IsPart
<1>5. SettingsPayload(c) = c
  BY <1>3, <1>4 DEF SettingsPayload
<1>6. PICK n \in Nat : n = Len(c) \div 6 /\ n <= 1 /\ (n = 1 => 6 <= size)
  BY <1>3, <1>4
<1>7. PICK maps : Parses(maps, c, n) /\ ParseHttp2Settings(c) = maps[n]
  BY <1>6, SettingsParsed
<1>8. \A k \in 0 .. n :
        maps[k] = IF k = 0 THEN <<>>
                  ELSE MapSet(maps[k - 1], SettingId(c, k), SettingValue(c, k))
  BY <1>7, Zenon DEF Parses
<1>9. maps[0] = <<>> /\ Lookup(<<>>, id) = <<>>
  <2>1. 0 \in 0 .. n
    OBVIOUS
  <2> QED
    BY <1>8, <2>1 DEF Lookup
<1>10. Lookup(maps[n], id) = <<>>
  <2>1. CASE n = 0
    BY <1>9, <2>1
  <2>2. CASE n = 1
    <3>1. maps[1] = MapSet(maps[0], SettingId(c, 1), SettingValue(c, 1))
      <4>1. 1 \in 0 .. n /\ 1 # 0 /\ 1 - 1 = 0
        BY <2>2
      <4> QED
        BY <1>8, <4>1
    <3>2. SettingId(c, 1) = 0
      <4>1. 0 + 0 + 1 < size /\ 0 + 0 = 0 /\ 6 * (1 - 1) = 0
        BY <1>6, <2>2
      <4>2. U16(Between(b, 0, size), 0) = U16(b, 0 + 0)
        BY <1>3, <4>1, U16InPart
      <4>3. U16(b, 0) = 0
        <5>1. Byte(b, 0) = 0 /\ Byte(b, 1) = 0 /\ 0 + 1 = 1 /\ (256 * 0) + 0 = 0
          BY <1>1 DEF FrameLies
        <5> QED
          BY <5>1 DEF U16
      <4> QED
        BY <1>2, <4>1, <4>2, <4>3 DEF SettingId
    <3>3. id # 0
      BY DEF CheckedSettings
    <3> QED
      BY <1>9, <2>2, <3>1, <3>2, <3>3, LookupAfterSet
  <2> QED
    BY <1>6, <2>1, <2>2
<1>11. Whole(sent, size) = {}
  <2>1. \A k \in DOMAIN sent : k \in Nat /\ k >= 1
    BY SMTT(20) DEF SentList
  <2> QED
    BY <1>3, <2>1 DEF Whole
<1> QED
  BY <1>1, <1>2, <1>5, <1>7, <1>10, <1>11

LastWhole(sent, size, id) ==
    {k \in Whole(sent, size) :
       /\ sent[k][1] = id
       /\ \A j \in Whole(sent, size) : sent[j][1] = id => j <= k}

LastValue(sent, size, id) ==
    IF LastWhole(sent, size, id) = {} THEN <<>>
    ELSE <<sent[CHOOSE k \in LastWhole(sent, size, id) : TRUE][2]>>

LEMMA Http2Verdict ==
  ASSUME NEW sent \in SentList, NEW size \in 0 .. Len(SettingsFrame(sent)),
         NEW id \in CheckedSettings
  PROVE  Lookup(ParseHttp2Settings(SettingsPayload(SubSeq(SettingsFrame(sent), 1, size))), id)
           = LastValue(sent, size, id)
<1> DEFINE last == LastWhole(sent, size, id)
           payload == SettingsPayload(SubSeq(SettingsFrame(sent), 1, size))
<1>0. Len(SettingsFrame(sent)) \in Nat
  BY FrameIsLaidOut DEF FrameLies
<1>1. CASE size < 9
  <2>1. size \in 0 .. 8 /\ size <= Len(SettingsFrame(sent))
    BY <1>0, <1>1
  <2>2. Lookup(ParseHttp2Settings(payload), id) = <<>> /\ Whole(sent, size) = {}
    BY <2>1, HeaderHoldsNone
  <2>3. last = {}
    BY <2>2 DEF LastWhole
  <2> QED
    BY <2>2, <2>3 DEF LastValue
<1>2. CASE size >= 9
  <2>1. size \in 9 .. Len(SettingsFrame(sent))
    BY <1>0, <1>2
  <2>2. HoldsSettings(payload, sent, size)
    BY <2>1, PayloadOfFrame
  <2> HIDE DEF payload
  <2>3. PICK n \in Nat : /\ n = Len(payload) \div 6 /\ Whole(sent, size) = 1 .. n
                         /\ \A k \in 1 .. n : /\ SettingId(payload, k) = sent[k][1]
                                              /\ SettingValue(payload, k) = sent[k][2]
    BY <2>2 DEF HoldsSettings
  <2>4. PICK maps : Parses(maps, payload, n) /\ ParseHttp2Settings(payload) = maps[n]
    BY <2>3, SettingsParsed
  <2>5. LastOf(Lookup(ParseHttp2Settings(payload), id), sent, n, id)
    BY <2>3, <2>4, LastIsFound
  <2>6. PICK value : value = Lookup(ParseHttp2Settings(payload), id)
    OBVIOUS
  <2>7. last = {k \in 1 .. n : /\ sent[k][1] = id
                              /\ \A j \in 1 .. n : sent[j][1] = id => j <= k}
    BY <2>3 DEF LastWhole
  <2>8. CASE value = <<>> /\ \A j \in 1 .. n : sent[j][1] # id
    <3>1. last = {}
      BY <2>7, <2>8
    <3> QED
      BY <2>6, <2>8, <3>1 DEF payload, LastValue
  <2>9. CASE \E m \in 1 .. n : /\ sent[m][1] = id
                               /\ \A j \in 1 .. n : sent[j][1] = id => j <= m
                               /\ value = <<sent[m][2]>>
    <3>1. PICK m \in 1 .. n : /\ sent[m][1] = id
                             /\ \A j \in 1 .. n : sent[j][1] = id => j <= m
                             /\ value = <<sent[m][2]>>
      BY <2>9
    <3>2. last = {m}
      <4>1. m \in last
        BY <2>7, <3>1
      <4>2. ASSUME NEW k \in last PROVE k = m
        <5>1. k \in 1 .. n /\ k <= m /\ m <= k
          BY <2>7, <3>1
        <5> QED
          BY <5>1
      <4> HIDE DEF last
      <4> QED
        BY <4>1, <4>2
    <3>3. (CHOOSE k \in last : TRUE) = m /\ last # {}
      <4> HIDE DEF last
      <4> QED
        BY <3>2
    <3> QED
      BY <2>6, <3>1, <3>3 DEF payload, LastValue
  <2> QED
    BY <2>5, <2>6, <2>8, <2>9, Zenon DEF LastOf
<1> QED
  BY <1>0, <1>1, <1>2

CalledHttp2 ==
    call.function = "runHttp2Compliance" =>
        /\ call.sent \in SentSettings
        /\ call.size \in 0 .. Len(SettingsFrame(call.sent))
        /\ result = RunHttp2Compliance(SubSeq(SettingsFrame(call.sent), 1, call.size),
                                       call.expected)

(***************************************************************************)
(* runHttp2Compliance() passes exactly the captures whose last whole       *)
(* setting of each checked id has the profile's value, for settings in any *)
(* number and order, whatever their values, wherever the capture ends.     *)
(***************************************************************************)
THEOREM Http2VerdictAlwaysRight == Spec => []Http2VerdictIsRight
<1>1. Init => CalledHttp2
  BY DEF Init, CalledHttp2
<1>2. CalledHttp2 /\ [Next]_suitesVars => CalledHttp2'
  <2> SUFFICES ASSUME CalledHttp2, [Next]_suitesVars PROVE CalledHttp2'
    OBVIOUS
  <2>1. CASE CheckHttp2
    <3>1. PICK sent \in SentSettings, expected \in Http2Profiles :
             \E size \in 0 .. Len(SettingsFrame(sent)) :
                Returns([function |-> "runHttp2Compliance", sent |-> sent, size |-> size,
                         expected |-> expected],
                        RunHttp2Compliance(SubSeq(SettingsFrame(sent), 1, size), expected))
      BY <2>1, Zenon DEF CheckHttp2
    <3>2. PICK size \in 0 .. Len(SettingsFrame(sent)) :
             Returns([function |-> "runHttp2Compliance", sent |-> sent, size |-> size,
                      expected |-> expected],
                     RunHttp2Compliance(SubSeq(SettingsFrame(sent), 1, size), expected))
      BY <3>1
    <3> QED
      BY <3>2 DEF Returns, CalledHttp2
  <2>2. CASE CheckHttp1
    BY <2>2 DEF CheckHttp1, Returns, CalledHttp2
  <2>3. CASE FingerprintRequest
    BY <2>3 DEF FingerprintRequest, Returns, CalledHttp2
  <2>4. CASE FingerprintConnection
    BY <2>4 DEF FingerprintConnection, Returns, CalledHttp2
  <2>5. CASE Benchmark
    BY <2>5 DEF Benchmark, Returns, CalledHttp2
  <2>6. CASE Certify
    BY <2>6 DEF Certify, Returns, CalledHttp2
  <2>7. CASE UNCHANGED suitesVars
    BY <2>7 DEF suitesVars, CalledHttp2
  <2> QED
    BY <2>1, <2>2, <2>3, <2>4, <2>5, <2>6, <2>7 DEF Next
<1>3. CalledHttp2 => Http2VerdictIsRight
  <2> SUFFICES ASSUME CalledHttp2, call.function = "runHttp2Compliance"
               PROVE  Http2VerdictIsRight
    BY DEF Http2VerdictIsRight
  <2>1. call.sent \in SentList /\ call.size \in 0 .. Len(SettingsFrame(call.sent))
    BY SettingsAssumption DEF CalledHttp2, SentList
  <2> DEFINE parsed == ParseHttp2Settings(SettingsPayload(
                         SubSeq(SettingsFrame(call.sent), 1, call.size)))
             right(id) == LastValue(call.sent, call.size, id)
  <2>2. \A id \in CheckedSettings : Lookup(parsed, id) = right(id)
    BY <2>1, Http2Verdict
  <2>3. result <=> \A id \in CheckedSettings : Lookup(parsed, id) = Lookup(call.expected, id)
    BY DEF CalledHttp2, RunHttp2Compliance
  <2>4. result <=> \A id \in CheckedSettings : Lookup(call.expected, id) = right(id)
    <3> HIDE DEF right, parsed
    <3> QED
      BY <2>2, <2>3
  <2> QED
    BY <2>4 DEF Http2VerdictIsRight, Whole, LastWhole, LastValue
<1> QED
  BY <1>1, <1>2, <1>3, PTL DEF Spec

-----------------------------------------------------------------------------
(***************************************************************************)
(* What lies behind other bytes reads as it does alone.                    *)
(***************************************************************************)
LEMMA ByteBehind ==
  ASSUME NEW x \in Seq(Nat), NEW z \in Seq(Nat), NEW k \in Nat
  PROVE  Byte(x \o z, Len(x) + k) = Byte(z, k)
<1>1. PICK n \in Nat, m \in Nat, w \in Seq(Nat) : n = Len(x) /\ m = Len(z) /\ w = x \o z
  <2>1. Len(x) \in Nat /\ Len(z) \in Nat /\ x \o z \in Seq(Nat)
    OBVIOUS
  <2> QED
    BY <2>1, Zenon
<1>2. Len(w) = n + m /\ \A j \in 1 .. n + m : w[j] = IF j <= n THEN x[j] ELSE z[j - n]
  BY <1>1, ConcatProperties
<1>3. CASE k < m
  <2>1. PICK j \in 1 .. n + m : j = n + k + 1 /\ ~(j <= n) /\ j - n = k + 1
    BY <1>3
  <2>2. w[n + k + 1] = z[k + 1]
    BY <1>2, <2>1
  <2> QED
    BY <1>1, <1>2, <1>3, <2>2 DEF Byte
<1>4. CASE ~(k < m)
  BY <1>1, <1>2, <1>4 DEF Byte
<1> QED
  BY <1>3, <1>4

LEMMA LengthBehind ==
  ASSUME NEW x \in Seq(Nat), NEW z \in Seq(Nat)
  PROVE  /\ Byte(x \o z, Len(x)) = Byte(z, 0)
         /\ LengthBytes(x \o z, Len(x)) = LengthBytes(z, 0)
         /\ ContentLength(x \o z, Len(x)) = ContentLength(z, 0)
<1>1. PICK n \in Nat, w \in Seq(Nat) : n = Len(x) /\ w = x \o z
  <2>1. Len(x) \in Nat /\ x \o z \in Seq(Nat)
    OBVIOUS
  <2> QED
    BY <2>1, Zenon
<1>2. \A k \in Nat : Byte(w, n + k) = Byte(z, k)
  BY <1>1, ByteBehind
<1>3. /\ Byte(w, n) = Byte(z, 0) /\ Byte(w, n + 1) = Byte(z, 1)
      /\ Byte(w, n + 2) = Byte(z, 2) /\ Byte(w, (n + 2) + 1) = Byte(z, 3)
  <2>1. n + 0 = n /\ (n + 2) + 1 = n + 3 /\ {0, 1, 2, 3} \subseteq Nat
    OBVIOUS
  <2> QED
    BY <1>2, <2>1, Zenon
<1>4. 0 + 1 = 1 /\ 0 + 2 = 2 /\ 2 + 1 = 3
  OBVIOUS
<1>5. U16(w, n + 2) = U16(z, 2)
  BY <1>3, <1>4, Zenon DEF U16
<1>6. LengthBytes(w, n) = LengthBytes(z, 0)
  BY <1>3, <1>4, Zenon DEF LengthBytes
<1>7. ContentLength(w, n) = ContentLength(z, 0)
  BY <1>3, <1>4, <1>5, <1>6, Zenon DEF ContentLength
<1> QED
  BY <1>1, <1>3, <1>6, <1>7

LEMMA LengthsAreNats ==
  ASSUME NEW b \in Seq(Nat), NEW i \in Nat
  PROVE  LengthBytes(b, i) \in Nat /\ ContentLength(b, i) \in Nat
<1>1. PICK j \in Nat, k \in Nat : j = i + 1 /\ k = i + 2
  OBVIOUS
<1>2. Byte(b, j) \in Nat /\ Byte(b, k) \in Nat /\ U16(b, k) \in Nat
  BY ByteIsNat, U16IsNat
<1>3. LengthBytes(b, i) \in Nat
  BY <1>1, <1>2 DEF LengthBytes
<1>4. ContentLength(b, i) \in Nat
  BY <1>1, <1>2, Zenon DEF ContentLength
<1> QED
  BY <1>3, <1>4

(***************************************************************************)
(* An element reads back behind any bytes and before any others.           *)
(***************************************************************************)
NextElement(bytes, i) == i + 2 + LengthBytes(bytes, i) + ContentLength(bytes, i)

Tagged(tag, content) == [tag |-> tag, content |-> content]

StandsAt(bytes, i, tag, content, next) ==
    ElementAt(bytes, i) = Tagged(tag, content) /\ NextElement(bytes, i) = next

LEMMA DerTaggedIsSeq ==
  ASSUME NEW tag \in Nat, NEW content \in Seq(Nat)
  PROVE  /\ DerTagged(tag, content) \in Seq(Nat)
         /\ Len(DerTagged(tag, content)) \in Nat
         /\ Len(DerTagged(tag, content)) >= 2 + Len(content)
<1>1. PICK length : length = DerLength(Len(content))
  OBVIOUS
<1>2. PICK n \in Nat : n = Len(content)
  OBVIOUS
<1>3. length \in Seq(Nat) /\ Len(length) \in Nat /\ Len(length) >= 1
  BY <1>1, <1>2 DEF DerLength
<1>4. <<tag>> \in Seq(Nat) /\ Len(<<tag>>) = 1
  OBVIOUS
<1>5. PICK head : head = <<tag>> \o length
  OBVIOUS
<1>6. head \in Seq(Nat) /\ Len(head) = 1 + Len(length)
  BY <1>3, <1>4, <1>5
<1>7. head \o content \in Seq(Nat) /\ Len(head \o content) = Len(head) + Len(content)
  BY <1>6
<1>8. DerTagged(tag, content) = head \o content
  BY <1>1, <1>5, Zenon DEF DerTagged
<1> QED
  BY <1>2, <1>3, <1>6, <1>7, <1>8

LEMMA ElementBehind ==
  ASSUME NEW x \in Seq(Nat), NEW tag \in Nat, NEW content \in Seq(Nat),
         Len(content) < LengthRoom, NEW rest \in Seq(Nat),
         NEW bytes, bytes = x \o (DerTagged(tag, content) \o rest)
  PROVE  StandsAt(bytes, Len(x), tag, content, Len(x) + Len(DerTagged(tag, content)))
<1>1. PICK z \in Seq(Nat) : z = DerTagged(tag, content) \o rest
  <2>1. DerTagged(tag, content) \in Seq(Nat)
    BY DerTaggedIsSeq
  <2>2. DerTagged(tag, content) \o rest \in Seq(Nat)
    BY <2>1
  <2> QED
    BY <2>2, Zenon
<1>2. /\ Byte(bytes, Len(x)) = Byte(z, 0)
      /\ LengthBytes(bytes, Len(x)) = LengthBytes(z, 0)
      /\ ContentLength(bytes, Len(x)) = ContentLength(z, 0)
  BY <1>1, LengthBehind
<1>3. /\ ElementAt(z, 0) = [tag |-> tag, content |-> content]
      /\ 2 + LengthBytes(z, 0) + ContentLength(z, 0) = Len(DerTagged(tag, content))
  BY <1>1, ElementReadsBack, Zenon
<1>4. LengthBytes(z, 0) \in Nat /\ ContentLength(z, 0) \in Nat
  BY LengthsAreNats
<1>5. PICK l \in Nat, c \in Nat : l = LengthBytes(z, 0) /\ c = ContentLength(z, 0)
  BY <1>4
<1>6. Byte(z, 0) = tag /\ Slice(z, 0 + 2 + l, 0 + 2 + l + c) = content
  BY <1>3, <1>5 DEF ElementAt
<1>7. /\ LengthBytes(z, 0) = Len(DerLength(Len(content))) - 1
      /\ ContentLength(z, 0) = Len(content)
  BY <1>1, LengthReadsBack
<1>8. PICK length : length = DerLength(Len(content))
  OBVIOUS
<1>9. length \in Seq(Nat) /\ Len(length) \in Nat
  BY <1>8, SMTT(20) DEF DerLength
<1>10. PICK head \in Seq(Nat) : head = <<tag>> \o length /\ Len(head) = 1 + Len(length)
  <2>1. <<tag>> \in Seq(Nat) /\ Len(<<tag>>) = 1
    OBVIOUS
  <2>2. <<tag>> \o length \in Seq(Nat) /\ Len(<<tag>> \o length) = 1 + Len(length)
    BY <1>9, <2>1
  <2> QED
    BY <2>2, Zenon
<1>11. PICK front \in Seq(Nat) : front = x \o head /\ Len(front) = Len(x) + Len(head)
  <2>1. x \o head \in Seq(Nat) /\ Len(x \o head) = Len(x) + Len(head)
    OBVIOUS
  <2> QED
    BY <2>1, Zenon
<1>12. bytes = front \o content \o rest
  <2>1. DerTagged(tag, content) = head \o content
    BY <1>8, <1>10, Zenon DEF DerTagged
  <2>2. x \o ((head \o content) \o rest) = ((x \o head) \o content) \o rest
    <3>1. head \o content \in Seq(Nat)
      OBVIOUS
    <3>2. ThreeJoin(x, head \o content, rest) /\ ThreeJoin(x, head, content)
      BY <3>1, JoiningThree, Zenon
    <3> QED
      BY <3>2, Zenon DEF ThreeJoin
  <2> QED
    BY <1>11, <2>1, <2>2, Zenon
<1>13. Slice(bytes, Len(front), Len(front) + Len(content)) = content
  BY <1>12, MiddleReadsBack
<1>14. PICK n \in Nat : n = Len(x)
  OBVIOUS
<1>15. Len(front) = n + 2 + l /\ Len(front) + Len(content) = n + 2 + l + c
  <2>1. PICK k \in Nat : k = Len(length)
    BY <1>9
  <2>2. l = k - 1 /\ c = Len(content)
    BY <1>5, <1>7, <1>8, <2>1
  <2>3. Len(head) = 1 + k
    BY <1>10, <2>1
  <2> QED
    BY <1>11, <1>14, <2>2, <2>3
<1>16. ElementAt(bytes, n) = [tag |-> tag, content |-> content]
  <2>1. Slice(bytes, n + 2 + l, n + 2 + l + c) = content
    BY <1>13, <1>15, Zenon
  <2>2. Byte(bytes, n) = tag /\ LengthBytes(bytes, n) = l /\ ContentLength(bytes, n) = c
    BY <1>2, <1>5, <1>6, <1>14, Zenon
  <2> QED
    BY <2>1, <2>2, Zenon DEF ElementAt
<1>17. NextElement(bytes, n) = n + Len(DerTagged(tag, content))
  <2>1. LengthBytes(bytes, n) = l /\ ContentLength(bytes, n) = c
    BY <1>2, <1>5, <1>14, Zenon
  <2>2. Len(DerTagged(tag, content)) = 2 + l + c
    BY <1>3, <1>5, Zenon
  <2> QED
    BY <2>1, <2>2 DEF NextElement
<1> QED
  BY <1>14, <1>16, <1>17, Zenon DEF StandsAt, Tagged

(***************************************************************************)
(* The reader goes through the bytes from the front: one step from each    *)
(* offset, to a later one.                                                 *)
(***************************************************************************)
ElementsFrom(bytes, f, i) ==
    IF i >= Len(bytes) \/ NextElement(bytes, i) > Len(bytes) THEN <<>>
    ELSE <<ElementAt(bytes, i)>> \o f[NextElement(bytes, i)]

ReadsElements(f, bytes) == f = [i \in Nat |-> ElementsFrom(bytes, f, i)]

LEMMA ElementsAreRead ==
  ASSUME NEW bytes \in Seq(Nat)
  PROVE  \E f : ReadsElements(f, bytes) /\ Elements(bytes) = f[0]
<1> DEFINE done(f, d) == \A i \in Nat : i + d >= Len(bytes) => f[i] = ElementsFrom(bytes, f, i)
           A == {d \in Nat : \E f : f = [i \in Nat |-> f[i]] /\ done(f, d)}
<1>0. \A i \in Nat : NextElement(bytes, i) \in Nat /\ NextElement(bytes, i) > i
  <2> SUFFICES ASSUME NEW i \in Nat
               PROVE  NextElement(bytes, i) \in Nat /\ NextElement(bytes, i) > i
    OBVIOUS
  <2>1. PICK l \in Nat, c \in Nat : l = LengthBytes(bytes, i) /\ c = ContentLength(bytes, i)
    BY LengthsAreNats
  <2>2. NextElement(bytes, i) = i + 2 + l + c
    BY <2>1, Zenon DEF NextElement
  <2> QED
    BY <2>2
<1>00. PICK n \in Nat : n = Len(bytes)
  OBVIOUS
<1>1. 0 \in A
  <2> DEFINE f == [i \in Nat |-> <<>>]
  <2>1. f = [i \in Nat |-> f[i]] /\ done(f, 0)
    BY <1>00 DEF ElementsFrom
  <2> QED
    BY <2>1
<1>2. ASSUME NEW d \in Nat, d \in A PROVE d + 1 \in A
  <2>1. PICK f : done(f, d)
    BY <1>2
  <2> DEFINE g == [i \in Nat |-> ElementsFrom(bytes, f, i)]
  <2>2. g = [i \in Nat |-> g[i]]
    OBVIOUS
  <2>3. ASSUME NEW i \in Nat, i + (d + 1) >= n PROVE g[i] = ElementsFrom(bytes, g, i)
    <3>1. PICK k \in Nat : k = NextElement(bytes, i) /\ k > i
      BY <1>0
    <3>2. k + d >= n
      BY <2>3, <3>1
    <3>3. f[k] = ElementsFrom(bytes, f, k)
      BY <1>00, <2>1, <3>2
    <3>4. g[k] = f[k] /\ g[i] = ElementsFrom(bytes, f, i)
      BY <3>3
    <3> HIDE DEF g
    <3> QED
      BY <3>1, <3>4, Zenon DEF ElementsFrom
  <2>4. done(g, d + 1)
    <3> HIDE DEF g
    <3> QED
      BY <1>00, <2>3, Zenon
  <2> HIDE DEF g, done
  <2> QED
    BY <2>2, <2>4
<1>3. \A d \in Nat : d \in A
  <2> HIDE DEF A
  <2> QED
    BY <1>1, <1>2, SetInduction
<1>4. PICK f : f = [i \in Nat |-> f[i]] /\ done(f, n)
  BY <1>3
<1>5. ReadsElements(f, bytes)
  <2>1. \A i \in Nat : f[i] = ElementsFrom(bytes, f, i)
    BY <1>00, <1>4
  <2>2. [i \in Nat |-> f[i]] = [i \in Nat |-> ElementsFrom(bytes, f, i)]
    <3> HIDE DEF done
    <3> QED
      BY ONLY <2>1, Zenon
  <2> QED
    BY <1>4, <2>2, Zenon DEF ReadsElements
<1>6. Elements(bytes) = (CHOOSE g : ReadsElements(g, bytes))[0]
  BY Zenon DEF Elements, ReadsElements, ElementsFrom, NextElement
<1>7. ReadsElements((CHOOSE g : ReadsElements(g, bytes)), bytes)
  BY <1>5, Zenon
<1> QED
  BY <1>6, <1>7, Zenon

(***************************************************************************)
(* Flattening goes from the front, too, and no part is longer than all.    *)
(***************************************************************************)
LEMMA FlattenFirst ==
  ASSUME NEW S, NEW x \in Seq(S), NEW s \in Seq(Seq(S))
  PROVE  FlattenSeq(<<x>> \o s) = x \o FlattenSeq(s)
<1> DEFINE A == {n \in Nat : \A t \in Seq(Seq(S)) :
                     Len(t) = n => FlattenSeq(<<x>> \o t) = x \o FlattenSeq(t)}
<1>0. <<x>> \in Seq(Seq(S)) /\ <<>> \in Seq(Seq(S))
  OBVIOUS
<1>1. 0 \in A
  <2> SUFFICES ASSUME NEW t \in Seq(Seq(S)), Len(t) = 0
               PROVE  FlattenSeq(<<x>> \o t) = x \o FlattenSeq(t)
    OBVIOUS
  <2>1. t = <<>> /\ <<x>> \o t = Append(<<>>, x)
    OBVIOUS
  <2>2. FlattenSeq(Append(<<>>, x)) = FlattenSeq(<<>>) \o x
    BY <1>0, FlattenAppend, Zenon
  <2>3. <<>> \o x = x /\ x \o <<>> = x
    BY ConcatEmptySeq
  <2> QED
    BY <2>1, <2>2, <2>3, FlattenEmpty, Zenon
<1>2. ASSUME NEW n \in Nat, n \in A PROVE n + 1 \in A
  <2>0. n + 1 \in Nat
    OBVIOUS
  <2> SUFFICES ASSUME NEW t \in Seq(Seq(S)), Len(t) = n + 1
               PROVE  FlattenSeq(<<x>> \o t) = x \o FlattenSeq(t)
    BY <2>0, Zenon
  <2>1. PICK u \in Seq(Seq(S)), y \in Seq(S) : t = Append(u, y)
    <3>1. t # <<>>
      BY EmptySeq
    <3> QED
      BY <3>1, SequenceEmptyOrAppend
  <2>2. Len(u) = n
    BY <2>1
  <2>3. FlattenSeq(<<x>> \o u) = x \o FlattenSeq(u)
    BY <1>2, <2>2
  <2>4. <<x>> \o t = Append(<<x>> \o u, y) /\ <<x>> \o u \in Seq(Seq(S))
    <3>1. t = u \o <<y>> /\ <<y>> \in Seq(Seq(S))
      BY <2>1, AppendIsConcat
    <3>2. <<x>> \o u \in Seq(Seq(S))
      BY <1>0
    <3>3. Append(<<x>> \o u, y) = (<<x>> \o u) \o <<y>>
      BY <3>2, AppendIsConcat
    <3>4. ThreeJoin(<<x>>, u, <<y>>)
      BY <1>0, <3>1, JoiningThree
    <3> QED
      BY <3>1, <3>2, <3>3, <3>4, Zenon DEF ThreeJoin
  <2>5. /\ FlattenSeq(Append(<<x>> \o u, y)) = FlattenSeq(<<x>> \o u) \o y
        /\ FlattenSeq(Append(u, y)) = FlattenSeq(u) \o y
    BY <2>4, FlattenAppend, Zenon
  <2>6. ThreeJoin(x, FlattenSeq(u), y)
    BY FlattenIsSeq, JoiningThree, Zenon
  <2> QED
    BY <2>1, <2>3, <2>4, <2>5, <2>6, Zenon DEF ThreeJoin
<1>3. \A n \in Nat : n \in A
  <2> HIDE DEF A
  <2> QED
    BY <1>1, <1>2, SetInduction
<1>4. PICK n \in Nat : n = Len(s)
  OBVIOUS
<1>5. n \in A
  <2> HIDE DEF A
  <2> QED
    BY <1>3
<1> QED
  BY <1>4, <1>5

LEMMA FlattenOne ==
  ASSUME NEW S, NEW x \in Seq(S)
  PROVE  FlattenSeq(<<x>>) = x
<1>1. <<>> \in Seq(Seq(S)) /\ <<>> \in Seq(S) /\ <<x>> = Append(<<>>, x)
  OBVIOUS
<1>2. FlattenSeq(Append(<<>>, x)) = FlattenSeq(<<>>) \o x
  BY <1>1, FlattenAppend, Zenon
<1>3. <<>> \o x = x
  BY ConcatEmptySeq
<1> QED
  BY <1>1, <1>2, <1>3, FlattenEmpty, Zenon

(***************************************************************************)
(* A sequence is its first element and the rest.                           *)
(***************************************************************************)
IsSplit(s, x, t, n) ==
    /\ s = <<x>> \o t /\ Len(t) = n /\ x = s[1]
    /\ \A k \in 1 .. n : t[k] = s[k + 1]

LEMMA FirstAndRest ==
  ASSUME NEW S, NEW s \in Seq(S), NEW n \in Nat, Len(s) = n + 1
  PROVE  \E x \in S, t \in Seq(S) : IsSplit(s, x, t, n)
<1>1. s # <<>> /\ s[1] \in S
  OBVIOUS
<1>2. /\ Tail(s) \in Seq(S) /\ Len(Tail(s)) = n
      /\ \A i \in 1 .. n : Tail(s)[i] = s[i + 1]
  BY <1>1, HeadTailProperties
<1>3. PICK t \in Seq(S) : Len(t) = n /\ \A i \in 1 .. n : t[i] = s[i + 1]
  BY <1>2, Zenon
<1>4. PICK x \in S : x = s[1]
  BY <1>1
<1>5. PICK w : w = <<x>> \o t
  OBVIOUS
<1>6. <<x>> \in Seq(S) /\ Len(<<x>>) = 1 /\ <<x>>[1] = x
  OBVIOUS
<1>7. /\ w \in Seq(S) /\ Len(w) = 1 + n
      /\ \A k \in 1 .. 1 + n : w[k] = IF k <= 1 THEN <<x>>[k] ELSE t[k - 1]
  BY <1>3, <1>5, <1>6, ConcatProperties
<1>8. \A k \in 1 .. n + 1 : w[k] = s[k]
  <2> SUFFICES ASSUME NEW k \in 1 .. n + 1 PROVE w[k] = s[k]
    OBVIOUS
  <2>1. CASE k = 1
    BY <1>4, <1>6, <1>7, <2>1
  <2>2. CASE k # 1
    <3>1. PICK j \in 1 .. n : k = j + 1 /\ k - 1 = j
      BY <2>2
    <3>2. w[k] = t[j]
      BY <1>7, <2>2, <3>1
    <3> QED
      BY <1>3, <3>1, <3>2
  <2> QED
    BY <2>1, <2>2
<1>9. w = s
  BY <1>7, <1>8, SeqEqual
<1> QED
  BY <1>3, <1>4, <1>5, <1>9 DEF IsSplit

LEMMA PartIsShorter ==
  ASSUME NEW S, NEW s \in Seq(Seq(S)), NEW k \in 1 .. Len(s)
  PROVE  Len(s[k]) <= Len(FlattenSeq(s))
<1> DEFINE A == {n \in Nat : \A t \in Seq(Seq(S)) :
                     Len(t) = n => \A i \in 1 .. n : Len(t[i]) <= Len(FlattenSeq(t))}
<1>1. 0 \in A
  OBVIOUS
<1>2. ASSUME NEW n \in Nat, n \in A PROVE n + 1 \in A
  <2> SUFFICES ASSUME NEW t \in Seq(Seq(S)), Len(t) = n + 1, NEW i \in 1 .. n + 1
               PROVE  Len(t[i]) <= Len(FlattenSeq(t))
    OBVIOUS
  <2>0. PICK x \in Seq(S), u \in Seq(Seq(S)) : IsSplit(t, x, u, n)
    BY FirstAndRest, Zenon
  <2>1. /\ t = <<x>> \o u /\ Len(u) = n /\ x = t[1]
        /\ \A j \in 1 .. n : u[j] = t[j + 1]
    BY <2>0 DEF IsSplit
  <2>2. FlattenSeq(t) = x \o FlattenSeq(u) /\ FlattenSeq(u) \in Seq(S)
    BY <2>1, FlattenFirst, FlattenIsSeq, Zenon
  <2>3. PICK v \in Seq(S) : v = FlattenSeq(u)
    BY <2>2
  <2>4. Len(x) \in Nat /\ Len(v) \in Nat /\ Len(FlattenSeq(t)) = Len(x) + Len(v)
    BY <2>2, <2>3
  <2>5. CASE i = 1
    BY <2>1, <2>4, <2>5
  <2>6. CASE i # 1
    <3>1. PICK j \in 1 .. n : i = j + 1
      BY <2>6
    <3>2. Len(u[j]) <= Len(v)
      BY <1>2, <2>1, <2>3
    <3>3. t[i] = u[j] /\ u[j] \in Seq(S)
      BY <2>1, <3>1
    <3>4. Len(u[j]) \in Nat
      BY <3>3, SMTT(20)
    <3>5. PICK a \in Nat, b \in Nat, c \in Nat : a = Len(x) /\ b = Len(v) /\ c = Len(u[j])
      BY <2>4, <3>4
    <3>6. c <= b /\ Len(FlattenSeq(t)) = a + b
      BY <2>4, <3>2, <3>5
    <3>7. Len(t[i]) = c
      BY <3>3, <3>5, Zenon
    <3> QED
      BY <3>6, <3>7
  <2> QED
    BY <2>5, <2>6
<1>3. \A n \in Nat : n \in A
  <2> HIDE DEF A
  <2> QED
    BY <1>1, <1>2, SetInduction
<1>4. PICK n \in Nat : n = Len(s)
  OBVIOUS
<1>5. n \in A
  <2> HIDE DEF A
  <2> QED
    BY <1>3
<1> QED
  BY <1>4, <1>5

(***************************************************************************)
(* Elements the encoder has room for, and the parts they are encoded as.   *)
(***************************************************************************)
ShortElement == {e \in [tag : Nat, content : Seq(Nat)] : Len(e.content) < LengthRoom}

Encoded(e) == DerTagged(e.tag, e.content)

Encodes(parts, elements) ==
    /\ parts \in Seq(Seq(Nat)) /\ elements \in Seq(ShortElement)
    /\ Len(parts) = Len(elements)
    /\ \A k \in 1 .. Len(elements) : parts[k] = Encoded(elements[k])

LEMMA ElementsBehind ==
  ASSUME NEW parts, NEW elements, Encodes(parts, elements), NEW x \in Seq(Nat),
         NEW f, ReadsElements(f, x \o FlattenSeq(parts))
  PROVE  f[Len(x)] = elements
<1> DEFINE A == {n \in Nat : \A p \in Seq(Seq(Nat)), es \in Seq(ShortElement), y \in Seq(Nat) :
                     Encodes(p, es) /\ Len(es) = n /\ ReadsElements(f, y \o FlattenSeq(p))
                       => f[Len(y)] = es}
<1>1. 0 \in A
  <2> SUFFICES ASSUME NEW p \in Seq(Seq(Nat)), NEW es \in Seq(ShortElement), NEW y \in Seq(Nat),
                      Encodes(p, es), Len(es) = 0, ReadsElements(f, y \o FlattenSeq(p))
               PROVE  f[Len(y)] = es
    OBVIOUS
  <2>1. p = <<>> /\ es = <<>>
    <3>1. Len(p) = 0
      BY Zenon DEF Encodes
    <3> QED
      BY <3>1, EmptySeq
  <2>2. y \o FlattenSeq(p) = y
    BY <2>1, FlattenEmpty, ConcatEmptySeq, Zenon
  <2>3. PICK i \in Nat : i = Len(y) /\ i >= Len(y)
    OBVIOUS
  <2>4. f[i] = ElementsFrom(y, f, i)
    BY <2>2, Zenon DEF ReadsElements
  <2>5. ElementsFrom(y, f, i) = <<>>
    BY <2>3, Zenon DEF ElementsFrom
  <2> QED
    BY <2>1, <2>3, <2>4, <2>5, Zenon
<1>2. ASSUME NEW n \in Nat, n \in A PROVE n + 1 \in A
  <2>0. n + 1 \in Nat
    OBVIOUS
  <2> SUFFICES ASSUME NEW p \in Seq(Seq(Nat)), NEW es \in Seq(ShortElement), NEW y \in Seq(Nat),
                      Encodes(p, es), Len(es) = n + 1, ReadsElements(f, y \o FlattenSeq(p))
               PROVE  f[Len(y)] = es
    BY <2>0, Zenon
  <2>1. PICK e \in ShortElement, rest \in Seq(ShortElement) : IsSplit(es, e, rest, n)
    BY FirstAndRest, Zenon
  <2>2. Len(p) = n + 1 /\ \A k \in 1 .. n + 1 : p[k] = Encoded(es[k])
    BY Zenon DEF Encodes
  <2>3. PICK z \in Seq(Nat), q \in Seq(Seq(Nat)) : IsSplit(p, z, q, n)
    BY <2>2, FirstAndRest, Zenon
  <2>4. z = Encoded(e) /\ Encodes(q, rest)
    <3>1. z = Encoded(e)
      <4>1. 1 \in 1 .. n + 1
        OBVIOUS
      <4> QED
        BY <2>1, <2>2, <2>3, <4>1, Zenon DEF IsSplit
    <3>2. ASSUME NEW k \in 1 .. n PROVE q[k] = Encoded(rest[k])
      <4>1. k + 1 \in 1 .. n + 1
        OBVIOUS
      <4>2. q[k] = p[k + 1] /\ rest[k] = es[k + 1]
        BY <2>1, <2>3, Zenon DEF IsSplit
      <4> QED
        BY <2>2, <4>1, <4>2, Zenon
    <3>3. Len(q) = n /\ Len(rest) = n
      BY <2>1, <2>3, Zenon DEF IsSplit
    <3> QED
      BY <3>1, <3>2, <3>3, Zenon DEF Encodes
  <2>5. PICK tail \in Seq(Nat) : tail = FlattenSeq(q)
    BY FlattenIsSeq, Zenon
  <2>6. FlattenSeq(p) = z \o tail
    BY <2>3, <2>5, FlattenFirst, Zenon DEF IsSplit
  <2>7. PICK w \in Seq(Nat) : w = y \o z /\ Len(w) = Len(y) + Len(z)
    <3>1. y \o z \in Seq(Nat) /\ Len(y \o z) = Len(y) + Len(z)
      OBVIOUS
    <3> QED
      BY <3>1, Zenon
  <2>8. PICK bytes \in Seq(Nat) : bytes = y \o (z \o tail) /\ bytes = w \o tail
    <3>1. ThreeJoin(y, z, tail)
      BY JoiningThree, Zenon
    <3>2. w \o tail \in Seq(Nat)
      OBVIOUS
    <3> QED
      BY <2>7, <3>1, <3>2, Zenon DEF ThreeJoin
  <2>9. e.tag \in Nat /\ e.content \in Seq(Nat) /\ Len(e.content) < LengthRoom
    BY DEF ShortElement
  <2>10. StandsAt(bytes, Len(y), e.tag, e.content, Len(y) + Len(z))
    <3>1. z = DerTagged(e.tag, e.content)
      BY <2>4, Zenon DEF Encoded
    <3> QED
      BY <2>8, <2>9, <3>1, ElementBehind, Zenon
  <2>11. f[Len(w)] = rest
    <3>1. Len(rest) = n /\ ReadsElements(f, w \o FlattenSeq(q))
      BY <2>1, <2>5, <2>6, <2>8, Zenon DEF IsSplit
    <3> QED
      BY <1>2, <2>4, <3>1, Zenon
  <2>12. ElementAt(bytes, Len(y)) = e
    BY <2>10 DEF StandsAt, Tagged, ShortElement
  <2>13. PICK i \in Nat : i = Len(y)
    OBVIOUS
  <2>14. f[i] = ElementsFrom(bytes, f, i)
    BY <2>6, <2>8, Zenon DEF ReadsElements
  <2>15. NextElement(bytes, i) = Len(w)
    BY <2>7, <2>10, <2>13, Zenon DEF StandsAt
  <2>16. ~(i >= Len(bytes)) /\ ~(Len(w) > Len(bytes))
    <3>1. Len(z) \in Nat /\ Len(z) >= 2
      <4>1. z = DerTagged(e.tag, e.content)
        BY <2>4, Zenon DEF Encoded
      <4>2. Len(z) \in Nat /\ Len(z) >= 2 + Len(e.content)
        BY <2>9, <4>1, DerTaggedIsSeq, Zenon
      <4>3. Len(e.content) \in Nat
        BY <2>9
      <4> QED
        BY <4>2, <4>3
    <3>2. Len(bytes) = Len(w) + Len(tail) /\ Len(tail) \in Nat
      BY <2>8
    <3>3. PICK c \in Nat, d \in Nat : c = Len(z) /\ c >= 2 /\ d = Len(tail)
      BY <3>1, <3>2
    <3>4. Len(w) = i + c /\ Len(bytes) = i + c + d
      BY <2>7, <2>13, <3>2, <3>3
    <3>5. PICK m \in Nat, k \in Nat : m = Len(bytes) /\ k = Len(w) /\ i < m /\ k <= m
      <4>1. i + c \in Nat /\ i + c + d \in Nat /\ i < i + c + d /\ i + c <= i + c + d
        BY <3>3
      <4> QED
        BY <3>4, <4>1, Zenon
    <3>6. ~(i >= m) /\ ~(k > m)
      BY <3>5
    <3> QED
      BY <3>5, <3>6, Zenon
  <2>17. ElementsFrom(bytes, f, i) = <<e>> \o rest
    BY <2>11, <2>12, <2>13, <2>15, <2>16, Zenon DEF ElementsFrom
  <2> QED
    BY <2>1, <2>13, <2>14, <2>17, Zenon DEF IsSplit
<1>3. \A n \in Nat : n \in A
  <2> HIDE DEF A
  <2> QED
    BY <1>1, <1>2, SetInduction
<1>4. parts \in Seq(Seq(Nat)) /\ elements \in Seq(ShortElement)
  BY Zenon DEF Encodes
<1>5. PICK n \in Nat : n = Len(elements)
  BY <1>4
<1>6. n \in A
  <2> HIDE DEF A
  <2> QED
    BY <1>3
<1> QED
  BY <1>4, <1>5, <1>6, Zenon

LEMMA EncodedReadsBack ==
  ASSUME NEW parts, NEW elements, Encodes(parts, elements)
  PROVE  Elements(FlattenSeq(parts)) = elements
<1>1. PICK bytes \in Seq(Nat) : bytes = FlattenSeq(parts)
  <2>1. parts \in Seq(Seq(Nat))
    BY Zenon DEF Encodes
  <2> QED
    BY <2>1, FlattenIsSeq, Zenon
<1>2. PICK f : ReadsElements(f, bytes) /\ Elements(bytes) = f[0]
  BY ElementsAreRead
<1>3. <<>> \in Seq(Nat) /\ Len(<<>>) = 0
  OBVIOUS
<1>4. <<>> \o bytes = bytes
  BY ConcatEmptySeq
<1>5. f[Len(<<>>)] = elements
  BY <1>1, <1>2, <1>3, <1>4, ElementsBehind, Zenon
<1> QED
  BY <1>1, <1>2, <1>3, <1>5, Zenon

(***************************************************************************)
(* Any number of elements, one behind the other, reads back: each has its  *)
(* tag and its content, at any length the encoder has room for, and there  *)
(* is no other.                                                            *)
(***************************************************************************)
THEOREM ElementsReadBack ==
  ASSUME NEW elements \in Seq(ShortElement)
  PROVE  Elements(FlattenSeq([k \in DOMAIN elements |-> Encoded(elements[k])])) = elements
<1>1. PICK parts : parts = [k \in DOMAIN elements |-> Encoded(elements[k])]
  OBVIOUS
<1>2. PICK n \in Nat : n = Len(elements) /\ DOMAIN elements = 1 .. n
  OBVIOUS
<1>3. ASSUME NEW k \in 1 .. n PROVE Encoded(elements[k]) \in Seq(Nat)
  <2>1. PICK e \in ShortElement : e = elements[k]
    BY <1>2, ElementOfSeq
  <2>2. e.tag \in Nat /\ e.content \in Seq(Nat)
    BY DEF ShortElement
  <2> QED
    BY <2>1, <2>2, DerTaggedIsSeq, Zenon DEF Encoded
<1>4. parts \in [1 .. n -> Seq(Nat)]
  BY <1>1, <1>2, <1>3
<1>5. parts \in Seq(Seq(Nat)) /\ Len(parts) = n
  BY <1>4, LenProperties, IsASeq
<1>6. \A k \in 1 .. n : parts[k] = Encoded(elements[k])
  BY <1>1, <1>2
<1>7. Encodes(parts, elements)
  BY <1>2, <1>5, <1>6, Zenon DEF Encodes
<1> QED
  BY <1>1, <1>7, EncodedReadsBack, Zenon

(***************************************************************************)
(* The groups of 7 bits in front of the last one, for every number.        *)
(***************************************************************************)
FrontOf(f, v) == IF v = 0 THEN <<>> ELSE Append(f[v \div 128], 128 + (v % 128))

Fronts(f) == f = [v \in Nat |-> FrontOf(f, v)]

FrontsUpTo(f, d) == \A v \in 0 .. d : f[v] = FrontOf(f, v) /\ f[v] \in Seq(Nat)

LEMMA SevenBits ==
  ASSUME NEW v \in Nat
  PROVE  /\ v \div 128 \in Nat /\ v % 128 \in 0 .. 127
         /\ (128 * (v \div 128)) + (v % 128) = v
         /\ v # 0 => v \div 128 < v
OBVIOUS

(***************************************************************************)
(* The groups are a function on the numbers that is built up from the      *)
(* quotients: the functions that have them for the numbers up to a bound   *)
(* agree, there is one for each bound, and so one for all numbers.         *)
(***************************************************************************)
LEMMA FrontsAgree ==
  ASSUME NEW f, NEW d \in Nat, FrontsUpTo(f, d), NEW g, NEW e \in Nat, FrontsUpTo(g, e),
         d <= e
  PROVE  \A v \in 0 .. d : f[v] = g[v]
<1> DEFINE A == {n \in Nat : \A v \in 0 .. d : v < n => f[v] = g[v]}
<1>1. 0 \in A
  OBVIOUS
<1>2. ASSUME NEW n \in Nat, n \in A PROVE n + 1 \in A
  <2> SUFFICES ASSUME NEW v \in 0 .. d, v < n + 1 PROVE f[v] = g[v]
    OBVIOUS
  <2>1. f[v] = FrontOf(f, v) /\ g[v] = FrontOf(g, v)
    BY DEF FrontsUpTo
  <2>2. CASE v = 0
    BY <2>1, <2>2, Zenon DEF FrontOf
  <2>3. CASE v # 0
    <3>1. PICK w \in Nat : w = v \div 128 /\ w < v
      BY <2>3, SevenBits
    <3>2. f[w] = g[w]
      BY <1>2, <3>1
    <3> QED
      BY <2>1, <3>1, <3>2, Zenon DEF FrontOf
  <2> QED
    BY <2>2, <2>3
<1>3. \A n \in Nat : n \in A
  <2> HIDE DEF A
  <2> QED
    BY <1>1, <1>2, SetInduction
<1>4. PICK n \in Nat : n = d + 1
  OBVIOUS
<1>5. n \in A
  <2> HIDE DEF A
  <2> QED
    BY <1>3
<1> QED
  BY <1>4, <1>5

LEMMA FrontsUpToExist == \A d \in Nat : \E f : FrontsUpTo(f, d)
<1> DEFINE A == {d \in Nat : \E f : FrontsUpTo(f, d)}
<1>1. 0 \in A
  <2> DEFINE f == [v \in Nat |-> <<>>]
  <2>1. FrontsUpTo(f, 0)
    BY DEF FrontsUpTo, FrontOf
  <2> QED
    BY <2>1
<1>2. ASSUME NEW d \in Nat, d \in A PROVE d + 1 \in A
  <2>1. PICK f : FrontsUpTo(f, d)
    BY <1>2
  <2> DEFINE g == [v \in Nat |-> FrontOf(f, v)]
  <2>2. ASSUME NEW v \in 0 .. d + 1 PROVE g[v] = FrontOf(g, v) /\ g[v] \in Seq(Nat)
    <3>1. CASE v = 0
      BY <3>1 DEF FrontOf
    <3>2. CASE v # 0
      <4>1. PICK w \in 0 .. d : w = v \div 128
        BY <3>2, SevenBits
      <4>2. f[w] = FrontOf(f, w) /\ f[w] \in Seq(Nat)
        BY <2>1 DEF FrontsUpTo
      <4>3. g[w] = f[w] /\ g[v] = FrontOf(f, v)
        BY <4>2
      <4>4. PICK c \in Nat : c = 128 + (v % 128)
        BY SevenBits
      <4> HIDE DEF g
      <4>5. g[v] = Append(f[w], c) /\ FrontOf(g, v) = Append(f[w], c)
        BY <3>2, <4>1, <4>3, <4>4, Zenon DEF FrontOf
      <4>6. Append(f[w], c) \in Seq(Nat)
        <5>1. PICK s \in Seq(Nat) : s = f[w]
          BY <4>2
        <5>2. Append(s, c) \in Seq(Nat)
          BY AppendProperties
        <5> QED
          BY <5>1, <5>2, Zenon
      <4> QED
        BY <4>5, <4>6, Zenon
    <3> QED
      BY <3>1, <3>2
  <2>3. FrontsUpTo(g, d + 1)
    <3> HIDE DEF g
    <3> QED
      BY <2>2, Zenon DEF FrontsUpTo
  <2> QED
    BY <2>3
<1>3. \A d \in Nat : d \in A
  <2> HIDE DEF A
  <2> QED
    BY <1>1, <1>2, SetInduction
<1> QED
  BY <1>3

LEMMA FrontsExist == \E f \in [Nat -> Seq(Nat)] : Fronts(f)
<1> DEFINE upTo(d) == CHOOSE f : FrontsUpTo(f, d)
           f == [v \in Nat |-> upTo(v)[v]]
<1>1. \A d \in Nat : FrontsUpTo(upTo(d), d)
  BY FrontsUpToExist, Zenon
<1> HIDE DEF upTo
<1>2. ASSUME NEW v \in Nat PROVE f[v] = FrontOf(f, v) /\ f[v] \in Seq(Nat)
  <2>1. v \in 0 .. v
    OBVIOUS
  <2>2. /\ upTo(v)[v] = FrontOf(upTo(v), v)
        /\ upTo(v)[v] \in Seq(Nat)
    BY <1>1, <2>1, Zenon DEF FrontsUpTo
  <2>3. f[v] = upTo(v)[v]
    OBVIOUS
  <2>4. CASE v = 0
    BY <2>2, <2>3, <2>4, Zenon DEF FrontOf
  <2>5. CASE v # 0
    <3>1. PICK w \in Nat : w = v \div 128 /\ w < v
      BY <2>5, SevenBits
    <3>2. w <= v /\ w \in 0 .. w
      BY <3>1
    <3>3. upTo(w)[w] = upTo(v)[w]
      <4>1. FrontsUpTo(upTo(w), w) /\ FrontsUpTo(upTo(v), v)
        BY <1>1
      <4>2. \A k \in 0 .. w : upTo(w)[k] = upTo(v)[k]
        BY <3>2, <4>1, FrontsAgree, Zenon
      <4> QED
        BY <3>2, <4>2, Zenon
    <3>4. f[w] = upTo(w)[w]
      OBVIOUS
    <3> HIDE DEF f
    <3> QED
      BY <2>2, <2>3, <3>1, <3>3, <3>4, Zenon DEF FrontOf
  <2> QED
    BY <2>4, <2>5
<1>3. f \in [Nat -> Seq(Nat)]
  BY <1>2
<1>4. Fronts(f)
  <2>1. f = [v \in Nat |-> f[v]]
    OBVIOUS
  <2> HIDE DEF f
  <2>2. [v \in Nat |-> f[v]] = [v \in Nat |-> FrontOf(f, v)]
    BY ONLY <1>2, Zenon
  <2> QED
    BY <2>1, <2>2, Zenon DEF Fronts
<1> HIDE DEF f
<1> QED
  BY <1>3, <1>4, Zenon

\* What the groups in front of the last are, and an arc in groups.
LEMMA FrontIsSeq ==
  ASSUME NEW f, Fronts(f)
  PROVE  \A v \in Nat : f[v] \in Seq(Nat)
<1> DEFINE A == {n \in Nat : \A v \in Nat : v < n => f[v] \in Seq(Nat)}
<1>1. 0 \in A
  OBVIOUS
<1>2. ASSUME NEW n \in Nat, n \in A PROVE n + 1 \in A
  <2> SUFFICES ASSUME NEW v \in Nat, v < n + 1 PROVE f[v] \in Seq(Nat)
    OBVIOUS
  <2>1. f[v] = FrontOf(f, v)
    BY Zenon DEF Fronts
  <2>2. CASE v = 0
    <3>1. f[v] = <<>>
      BY <2>1, <2>2, Zenon DEF FrontOf
    <3> QED
      BY <3>1
  <2>3. CASE v # 0
    <3>1. PICK w \in Nat, c \in Nat : w = v \div 128 /\ w < v /\ c = 128 + (v % 128)
      BY <2>3, SevenBits
    <3>2. f[w] \in Seq(Nat)
      BY <1>2, <3>1
    <3>3. f[v] = Append(f[w], c)
      BY <2>1, <2>3, <3>1, Zenon DEF FrontOf
    <3> QED
      BY <3>2, <3>3, AppendProperties, ZenonT(40)
  <2> QED
    BY <2>2, <2>3
<1>3. \A n \in Nat : n \in A
  <2> HIDE DEF A
  <2> QED
    BY <1>1, <1>2, SetInduction
<1> SUFFICES ASSUME NEW v \in Nat PROVE f[v] \in Seq(Nat)
  OBVIOUS
<1>4. PICK n \in Nat : n = v + 1
  OBVIOUS
<1>5. n \in A
  <2> HIDE DEF A
  <2> QED
    BY <1>3
<1> QED
  BY <1>4, <1>5

LEMMA ArcInGroups ==
  \E f : Fronts(f) /\ \A arc \in Nat : Base128(arc) = Append(f[arc \div 128], arc % 128)
<1> DEFINE f == CHOOSE g : Fronts(g)
<1>1. Fronts(f)
  BY FrontsExist, Zenon
<1>2. \A arc \in Nat : Base128(arc) = Append(f[arc \div 128], arc % 128)
  BY Zenon DEF Base128, Fronts, FrontOf
<1> HIDE DEF f
<1> QED
  BY <1>1, <1>2, Zenon

(***************************************************************************)
(* The reader of arcs, one byte from each offset and what it has of the    *)
(* arc.                                                                    *)
(***************************************************************************)
ArcsFrom(content, f, i, arc) ==
    LET next == (128 * arc) + (Byte(content, i) % 128)
    IN  IF i >= Len(content) THEN <<>>
        ELSE IF Byte(content, i) < 128 THEN <<next>> \o f[<<i + 1, 0>>]
        ELSE f[<<i + 1, next>>]

ReadsArcs(f, content) == f = [at \in Nat \X Nat |-> ArcsFrom(content, f, at[1], at[2])]

LEMMA ArcsAreRead ==
  ASSUME NEW content \in Seq(Nat)
  PROVE  \E f : ReadsArcs(f, content) /\ ReadArcs(content) = f[<<1, 0>>]
<1> DEFINE done(f, d) == \A i \in Nat, arc \in Nat :
                            i + d >= Len(content) => f[<<i, arc>>] = ArcsFrom(content, f, i, arc)
           A == {d \in Nat : \E f : f = [at \in Nat \X Nat |-> f[at]] /\ done(f, d)}
<1>0. PICK n \in Nat : n = Len(content)
  OBVIOUS
<1>1. 0 \in A
  <2> DEFINE f == [at \in Nat \X Nat |-> <<>>]
  <2>1. f = [at \in Nat \X Nat |-> f[at]]
    OBVIOUS
  <2>2. ASSUME NEW i \in Nat, NEW arc \in Nat, i + 0 >= Len(content)
        PROVE  f[<<i, arc>>] = ArcsFrom(content, f, i, arc)
    <3>1. i >= Len(content)
      BY <1>0, <2>2
    <3>2. f[<<i, arc>>] = <<>>
      OBVIOUS
    <3> QED
      BY <3>1, <3>2, Zenon DEF ArcsFrom
  <2> HIDE DEF f
  <2> QED
    BY <2>1, <2>2
<1>2. ASSUME NEW d \in Nat, d \in A PROVE d + 1 \in A
  <2>1. PICK f : done(f, d)
    BY <1>2
  <2> DEFINE g == [at \in Nat \X Nat |-> ArcsFrom(content, f, at[1], at[2])]
  <2>2. g = [at \in Nat \X Nat |-> g[at]]
    OBVIOUS
  <2>3. \A i \in Nat, arc \in Nat : g[<<i, arc>>] = ArcsFrom(content, f, i, arc)
    OBVIOUS
  <2> HIDE DEF g
  <2>4. ASSUME NEW i \in Nat, NEW arc \in Nat, i + (d + 1) >= n
        PROVE  g[<<i, arc>>] = ArcsFrom(content, g, i, arc)
    <3>1. PICK j \in Nat : j = i + 1 /\ j + d >= n
      BY <2>4
    <3>2. \A a \in Nat : g[<<j, a>>] = f[<<j, a>>]
      BY <1>0, <2>1, <2>3, <3>1
    <3>3. PICK next \in Nat : next = (128 * arc) + (Byte(content, i) % 128)
      BY ByteIsNat
    <3>4. g[<<j, 0>>] = f[<<j, 0>>] /\ g[<<j, next>>] = f[<<j, next>>]
      BY <3>2
    <3>5. ArcsFrom(content, g, i, arc) = ArcsFrom(content, f, i, arc)
      <4>1. \A h : ArcsFrom(content, h, i, arc) =
                     IF i >= Len(content) THEN <<>>
                     ELSE IF Byte(content, i) < 128 THEN <<next>> \o h[<<j, 0>>]
                     ELSE h[<<j, next>>]
        BY <3>1, <3>3, Zenon DEF ArcsFrom
      <4> QED
        BY <3>4, <4>1, Zenon
    <3> QED
      BY <2>3, <3>5, Zenon
  <2>5. done(g, d + 1)
    BY <1>0, <2>4, Zenon
  <2> HIDE DEF done
  <2> QED
    BY <2>2, <2>5
<1>3. \A d \in Nat : d \in A
  <2> HIDE DEF A
  <2> QED
    BY <1>1, <1>2, SetInduction
<1>4. PICK f : f = [at \in Nat \X Nat |-> f[at]] /\ done(f, n)
  BY <1>3
<1>5. ReadsArcs(f, content)
  <2>1. \A at \in Nat \X Nat : f[at] = ArcsFrom(content, f, at[1], at[2])
    <3> SUFFICES ASSUME NEW at \in Nat \X Nat PROVE f[at] = ArcsFrom(content, f, at[1], at[2])
      OBVIOUS
    <3>1. PICK i \in Nat, arc \in Nat : at = <<i, arc>> /\ at[1] = i /\ at[2] = arc
      OBVIOUS
    <3>2. i + n >= Len(content)
      BY <1>0
    <3> QED
      BY <1>4, <3>1, <3>2
  <2>2. [at \in Nat \X Nat |-> f[at]] = [at \in Nat \X Nat |-> ArcsFrom(content, f, at[1], at[2])]
    <3> HIDE DEF done
    <3> QED
      BY ONLY <2>1, Zenon
  <2> QED
    BY <1>4, <2>2, Zenon DEF ReadsArcs
<1>6. ReadArcs(content) = (CHOOSE g : ReadsArcs(g, content))[<<1, 0>>]
  BY Zenon DEF ReadArcs, ReadsArcs, ArcsFrom
<1>7. ReadsArcs((CHOOSE g : ReadsArcs(g, content)), content)
  BY <1>5, Zenon
<1> QED
  BY <1>6, <1>7, Zenon

(***************************************************************************)
(* What one byte of an arc leads to: to the next arc when its high bit is  *)
(* clear, to more of the same arc when it is set.                          *)
(***************************************************************************)
LEMMA SmallRemainder == \A n \in Nat : n < 128 => n % 128 = n
OBVIOUS

ArcStep(f, i, arc, byte) ==
    f[<<i, arc>>] = IF byte < 128 THEN <<(128 * arc) + byte>> \o f[<<i + 1, 0>>]
                    ELSE f[<<i + 1, (128 * arc) + (byte % 128)>>]

LEMMA ArcSteps ==
  ASSUME NEW content \in Seq(Nat), NEW f, ReadsArcs(f, content), NEW x \in Seq(Nat),
         NEW byte \in Nat, NEW y \in Seq(Nat), content = (x \o <<byte>>) \o y, NEW arc \in Nat
  PROVE  ArcStep(f, Len(x), arc, byte)
<1>1. PICK i \in Nat : i = Len(x)
  OBVIOUS
<1>2. <<byte>> \in Seq(Nat) /\ Len(<<byte>>) = 1 /\ <<byte>>[1] = byte
  OBVIOUS
<1>3. PICK z \in Seq(Nat) : z = x \o <<byte>> /\ Len(z) = i + 1 /\ z[i + 1] = byte
  <2>1. x \o <<byte>> \in Seq(Nat) /\ Len(x \o <<byte>>) = Len(x) + 1
    BY <1>2
  <2>2. (x \o <<byte>>)[i + 1] = byte
    <3>1. i + 1 \in 1 .. Len(x) + Len(<<byte>>) /\ ~(i + 1 <= Len(x)) /\ (i + 1) - Len(x) = 1
      BY <1>1, <1>2
    <3> QED
      BY <1>1, <1>2, <3>1, ConcatProperties
  <2> QED
    BY <1>1, <2>1, <2>2, Zenon
<1>4. i < Len(content) /\ content[i + 1] = byte
  <2>1. PICK m \in Nat : m = Len(y)
    OBVIOUS
  <2>2. Len(content) = (i + 1) + m /\ content[i + 1] = z[i + 1]
    <3>1. i + 1 \in 1 .. (i + 1) + m /\ i + 1 <= i + 1
      BY <2>1
    <3> QED
      BY <1>3, <2>1, <3>1, ConcatProperties
  <2> QED
    BY <1>3, <2>1, <2>2
<1>5. Byte(content, i) = byte
  BY <1>4, Zenon DEF Byte
<1>6. f[<<i, arc>>] = ArcsFrom(content, f, i, arc)
  <2>1. <<i, arc>> \in Nat \X Nat /\ <<i, arc>>[1] = i /\ <<i, arc>>[2] = arc
    OBVIOUS
  <2> QED
    BY <2>1, Zenon DEF ReadsArcs
<1>7. ~(i >= Len(content))
  BY <1>4
<1>8. byte < 128 => byte % 128 = byte
  BY SmallRemainder
<1> QED
  BY <1>1, <1>5, <1>6, <1>7, <1>8, ZenonT(40) DEF ArcsFrom, ArcStep

(***************************************************************************)
(* Any arc, put in groups of 7 bits, is read as one arc: the groups in     *)
(* front have the high bit set and add up to what the last one completes.  *)
(***************************************************************************)
JoinsTo(x, y, z) == z \in Seq(Nat) /\ z = x \o y /\ Len(z) = Len(x) + Len(y)

LEMMA JoinIsSeq ==
  ASSUME NEW x \in Seq(Nat), NEW y \in Seq(Nat)
  PROVE  JoinsTo(x, y, x \o y)
BY DEF JoinsTo

LEMMA HighBit ==
  ASSUME NEW v \in Nat, NEW c, c = 128 + (v % 128)
  PROVE  /\ c \in Nat /\ ~(c < 128) /\ c % 128 = v % 128
         /\ (128 * (v \div 128)) + (c % 128) = v
<1>1. PICK r \in 0 .. 127 : r = v % 128 /\ (128 * (v \div 128)) + r = v
  BY SevenBits
<1>2. (128 + r) % 128 = r
  OBVIOUS
<1> QED
  BY <1>1, <1>2

SameArcs(f, i, j, arc) == f[<<i, 0>>] = f[<<j, arc>>]

LEMMA FrontIsRead ==
  ASSUME NEW content \in Seq(Nat), NEW f, ReadsArcs(f, content), NEW g, Fronts(g),
         NEW x \in Seq(Nat), NEW v \in Nat, NEW y \in Seq(Nat),
         content = (x \o g[v]) \o y
  PROVE  SameArcs(f, Len(x), Len(x) + Len(g[v]), v)
<1> DEFINE A == {n \in Nat : \A u \in Nat, z \in Seq(Nat) :
                     u < n /\ content = (x \o g[u]) \o z
                       => f[<<Len(x), 0>>] = f[<<Len(x) + Len(g[u]), u>>]}
<1>1. 0 \in A
  <2>1. \A u \in Nat : ~(u < 0)
    OBVIOUS
  <2> QED
    BY <2>1, Zenon
<1>2. ASSUME NEW n \in Nat, n \in A PROVE n + 1 \in A
  <2>0. n + 1 \in Nat
    OBVIOUS
  <2> SUFFICES ASSUME NEW u \in Nat, NEW z \in Seq(Nat), u < n + 1,
                      content = (x \o g[u]) \o z
               PROVE  f[<<Len(x), 0>>] = f[<<Len(x) + Len(g[u]), u>>]
    BY <2>0, Zenon
  <2>1. g[u] = FrontOf(g, u)
    BY Zenon DEF Fronts
  <2>2. CASE u = 0
    <3>1. g[u] = <<>>
      BY <2>1, <2>2, Zenon DEF FrontOf
    <3>2. Len(x) + Len(<<>>) = Len(x)
      OBVIOUS
    <3> QED
      BY <2>2, <3>1, <3>2, Zenon
  <2>3. CASE u # 0
    <3>1. PICK w \in Nat, c \in Nat : w = u \div 128 /\ w < u /\ c = 128 + (u % 128)
      BY <2>3, SevenBits
    <3>2. ~(c < 128) /\ (128 * w) + (c % 128) = u
      BY <3>1, HighBit
    <3>3. PICK s \in Seq(Nat) : s = g[w]
      BY FrontIsSeq
    <3>4. g[u] = s \o <<c>> /\ <<c>> \in Seq(Nat) /\ Len(<<c>>) = 1
      <4>1. g[u] = Append(s, c)
        BY <2>1, <2>3, <3>1, <3>3, Zenon DEF FrontOf
      <4>2. Append(s, c) = s \o <<c>>
        BY AppendIsConcat
      <4> QED
        BY <4>1, <4>2
    <3>5. PICK p \in Seq(Nat) : p = x \o s /\ Len(p) = Len(x) + Len(s)
      BY JoinIsSeq, Zenon DEF JoinsTo
    <3>6. PICK rest \in Seq(Nat) : rest = <<c>> \o z
      BY <3>4, JoinIsSeq, Zenon DEF JoinsTo
    <3>7. content = (p \o <<c>>) \o z /\ content = p \o rest
      <4>1. ThreeJoin(x, s, <<c>>) /\ ThreeJoin(p, <<c>>, z)
        BY <3>4, JoiningThree, Zenon
      <4> QED
        BY <3>4, <3>5, <3>6, <4>1, Zenon DEF ThreeJoin
    <3>8. f[<<Len(x), 0>>] = f[<<Len(p), w>>]
      <4>1. w < n
        BY <3>1
      <4> QED
        BY <1>2, <3>3, <3>5, <3>7, <4>1, Zenon
    <3>9. f[<<Len(p), w>>] = f[<<Len(p) + 1, u>>]
      <4>1. ArcStep(f, Len(p), w, c)
        BY <3>7, ArcSteps, Zenon
      <4> QED
        BY <3>2, <4>1, Zenon DEF ArcStep
    <3>10. Len(x) + Len(g[u]) = Len(p) + 1
      <4>1. Len(s \o <<c>>) = Len(s) + Len(<<c>>)
        BY <3>4, JoinIsSeq, Zenon DEF JoinsTo
      <4>2. Len(x) \in Nat /\ Len(s) \in Nat
        OBVIOUS
      <4> QED
        BY <3>4, <3>5, <4>1, <4>2
    <3> QED
      BY <3>8, <3>9, <3>10, Zenon
  <2> QED
    BY <2>2, <2>3
<1>3. \A n \in Nat : n \in A
  <2> HIDE DEF A
  <2> QED
    BY <1>1, <1>2, SetInduction
<1>4. PICK n \in Nat : n = v + 1 /\ v < n
  OBVIOUS
<1>5. n \in A
  <2> HIDE DEF A
  <2> QED
    BY <1>3
<1> QED
  BY <1>4, <1>5, Zenon DEF SameArcs

LEMMA Base128IsSeq ==
  ASSUME NEW arc \in Nat
  PROVE  Base128(arc) \in Seq(Nat)
<1>1. PICK g : Fronts(g) /\ Base128(arc) = Append(g[arc \div 128], arc % 128)
  BY ArcInGroups
<1>2. PICK w \in Nat, c \in Nat : w = arc \div 128 /\ c = arc % 128
  BY SevenBits
<1>3. PICK s \in Seq(Nat) : s = g[w]
  BY <1>1, FrontIsSeq, Zenon
<1>4. Append(s, c) \in Seq(Nat)
  BY AppendProperties
<1> QED
  BY <1>1, <1>2, <1>3, <1>4, Zenon

(***************************************************************************)
(* An arc reads back behind any bytes and before any others.               *)
(***************************************************************************)
OneArc(f, i, arc, j) == f[<<i, 0>>] = <<arc>> \o f[<<j, 0>>]

LEMMA ArcIsRead ==
  ASSUME NEW content \in Seq(Nat), NEW f, ReadsArcs(f, content), NEW arc \in Nat,
         NEW x \in Seq(Nat), NEW y \in Seq(Nat), content = (x \o Base128(arc)) \o y
  PROVE  OneArc(f, Len(x), arc, Len(x) + Len(Base128(arc)))
<1>1. PICK g : Fronts(g) /\ Base128(arc) = Append(g[arc \div 128], arc % 128)
  BY ArcInGroups
<1>2. PICK w \in Nat, c \in Nat : /\ w = arc \div 128 /\ c = arc % 128 /\ c < 128
                                  /\ (128 * w) + c = arc
  BY SevenBits
<1>3. PICK s \in Seq(Nat) : s = g[w]
  BY <1>1, FrontIsSeq, Zenon
<1>4. <<c>> \in Seq(Nat) /\ Len(<<c>>) = 1
  OBVIOUS
<1>5. Base128(arc) = s \o <<c>>
  <2>1. Append(s, c) = s \o <<c>>
    BY AppendIsConcat
  <2> QED
    BY <1>1, <1>2, <1>3, <2>1, Zenon
<1>6. PICK p \in Seq(Nat) : p = x \o s /\ Len(p) = Len(x) + Len(s)
  BY JoinIsSeq, Zenon DEF JoinsTo
<1>7. PICK rest \in Seq(Nat) : rest = <<c>> \o y
  BY <1>4, JoinIsSeq, Zenon DEF JoinsTo
<1>8. content = (p \o <<c>>) \o y /\ content = p \o rest
  <2>1. ThreeJoin(x, s, <<c>>) /\ ThreeJoin(p, <<c>>, y)
    BY <1>4, JoiningThree, Zenon
  <2> QED
    BY <1>5, <1>6, <1>7, <2>1, Zenon DEF ThreeJoin
<1>9. f[<<Len(x), 0>>] = f[<<Len(p), w>>]
  <2>1. content = (x \o g[w]) \o rest
    BY <1>3, <1>6, <1>8, Zenon
  <2>2. SameArcs(f, Len(x), Len(x) + Len(g[w]), w)
    BY <1>1, <2>1, FrontIsRead, Zenon
  <2> QED
    BY <1>3, <1>6, <2>2, Zenon DEF SameArcs
<1>10. f[<<Len(p), w>>] = <<arc>> \o f[<<Len(p) + 1, 0>>]
  <2>1. ArcStep(f, Len(p), w, c)
    BY <1>8, ArcSteps, Zenon
  <2> QED
    BY <1>2, <2>1, Zenon DEF ArcStep
<1>11. Len(x) + Len(Base128(arc)) = Len(p) + 1
  <2>1. Len(s \o <<c>>) = Len(s) + Len(<<c>>)
    BY <1>4, JoinIsSeq, Zenon DEF JoinsTo
  <2>2. Len(x) \in Nat /\ Len(s) \in Nat
    OBVIOUS
  <2> QED
    BY <1>4, <1>5, <1>6, <2>1, <2>2
<1> QED
  BY <1>9, <1>10, <1>11, Zenon DEF OneArc

(***************************************************************************)
(* Arcs one behind the other, from any offset on.                          *)
(***************************************************************************)
EncodesArcs(parts, arcs) ==
    /\ parts \in Seq(Seq(Nat)) /\ arcs \in Seq(Nat)
    /\ Len(parts) = Len(arcs)
    /\ \A k \in 1 .. Len(arcs) : parts[k] = Base128(arcs[k])

ArcsAt(f, i, arcs) == f[<<i, 0>>] = arcs

LEMMA ArcsBehind ==
  ASSUME NEW content \in Seq(Nat), NEW f, ReadsArcs(f, content),
         NEW parts, NEW arcs, EncodesArcs(parts, arcs), NEW x \in Seq(Nat),
         content = x \o FlattenSeq(parts)
  PROVE  ArcsAt(f, Len(x), arcs)
<1> DEFINE A == {n \in Nat : \A p \in Seq(Seq(Nat)), as \in Seq(Nat), y \in Seq(Nat) :
                     EncodesArcs(p, as) /\ Len(as) = n /\ content = y \o FlattenSeq(p)
                       => f[<<Len(y), 0>>] = as}
<1>1. 0 \in A
  <2> SUFFICES ASSUME NEW p \in Seq(Seq(Nat)), NEW as \in Seq(Nat), NEW y \in Seq(Nat),
                      EncodesArcs(p, as), Len(as) = 0, content = y \o FlattenSeq(p)
               PROVE  f[<<Len(y), 0>>] = as
    OBVIOUS
  <2>1. p = <<>> /\ as = <<>>
    <3>1. Len(p) = 0
      BY Zenon DEF EncodesArcs
    <3> QED
      BY <3>1, EmptySeq
  <2>2. content = y
    BY <2>1, FlattenEmpty, ConcatEmptySeq, Zenon
  <2>3. PICK i \in Nat : i = Len(y) /\ i >= Len(y)
    OBVIOUS
  <2>4. <<i, 0>> \in Nat \X Nat /\ <<i, 0>>[1] = i /\ <<i, 0>>[2] = 0
    OBVIOUS
  <2>5. f[<<i, 0>>] = ArcsFrom(content, f, i, 0)
    BY <2>4, Zenon DEF ReadsArcs
  <2>6. ArcsFrom(content, f, i, 0) = <<>>
    BY <2>2, <2>3, Zenon DEF ArcsFrom
  <2> QED
    BY <2>1, <2>3, <2>5, <2>6, Zenon
<1>2. ASSUME NEW n \in Nat, n \in A PROVE n + 1 \in A
  <2>0. n + 1 \in Nat
    OBVIOUS
  <2> SUFFICES ASSUME NEW p \in Seq(Seq(Nat)), NEW as \in Seq(Nat), NEW y \in Seq(Nat),
                      EncodesArcs(p, as), Len(as) = n + 1, content = y \o FlattenSeq(p)
               PROVE  f[<<Len(y), 0>>] = as
    BY <2>0, Zenon
  <2>1. PICK arc \in Nat, rest \in Seq(Nat) : IsSplit(as, arc, rest, n)
    BY FirstAndRest, Zenon
  <2>2. Len(p) = n + 1 /\ \A k \in 1 .. n + 1 : p[k] = Base128(as[k])
    BY Zenon DEF EncodesArcs
  <2>3. PICK z \in Seq(Nat), q \in Seq(Seq(Nat)) : IsSplit(p, z, q, n)
    BY <2>2, FirstAndRest, Zenon
  <2>4. z = Base128(arc) /\ EncodesArcs(q, rest)
    <3>1. z = Base128(arc)
      <4>1. 1 \in 1 .. n + 1
        OBVIOUS
      <4> QED
        BY <2>1, <2>2, <2>3, <4>1, Zenon DEF IsSplit
    <3>2. ASSUME NEW k \in 1 .. n PROVE q[k] = Base128(rest[k])
      <4>1. k + 1 \in 1 .. n + 1
        OBVIOUS
      <4>2. q[k] = p[k + 1] /\ rest[k] = as[k + 1]
        BY <2>1, <2>3, Zenon DEF IsSplit
      <4> QED
        BY <2>2, <4>1, <4>2, Zenon
    <3>3. Len(q) = n /\ Len(rest) = n
      BY <2>1, <2>3, Zenon DEF IsSplit
    <3> QED
      BY <3>1, <3>2, <3>3, Zenon DEF EncodesArcs
  <2>5. PICK tail \in Seq(Nat) : tail = FlattenSeq(q)
    BY FlattenIsSeq, Zenon
  <2>6. FlattenSeq(p) = z \o tail
    BY <2>3, <2>5, FlattenFirst, Zenon DEF IsSplit
  <2>7. PICK w \in Seq(Nat) : w = y \o z /\ Len(w) = Len(y) + Len(z)
    BY JoinIsSeq, Zenon DEF JoinsTo
  <2>8. content = w \o tail
    <3>1. ThreeJoin(y, z, tail)
      BY JoiningThree, Zenon
    <3> QED
      BY <2>6, <2>7, <3>1, Zenon DEF ThreeJoin
  <2>9. f[<<Len(w), 0>>] = rest
    <3>1. Len(rest) = n
      BY <2>1, Zenon DEF IsSplit
    <3> QED
      BY <1>2, <2>4, <2>5, <2>8, <3>1, Zenon
  <2>10. OneArc(f, Len(y), arc, Len(y) + Len(Base128(arc)))
    <3>1. content = (y \o Base128(arc)) \o tail
      BY <2>4, <2>7, <2>8, Zenon
    <3> QED
      BY <3>1, ArcIsRead, Zenon
  <2> QED
    BY <2>1, <2>4, <2>7, <2>9, <2>10, Zenon DEF IsSplit, OneArc
<1>3. \A n \in Nat : n \in A
  <2> HIDE DEF A
  <2> QED
    BY <1>1, <1>2, SetInduction
<1>4. parts \in Seq(Seq(Nat)) /\ arcs \in Seq(Nat)
  BY Zenon DEF EncodesArcs
<1>5. PICK n \in Nat : n = Len(arcs)
  BY <1>4
<1>6. n \in A
  <2> HIDE DEF A
  <2> QED
    BY <1>3
<1> QED
  BY <1>4, <1>5, <1>6, Zenon DEF ArcsAt

(***************************************************************************)
(* An object identifier reads back: derOid() puts any arcs, behind the two *)
(* that share a byte, in groups of 7 bits from which they can be read.     *)
(***************************************************************************)
ArcsReadBack(encoded, content, arcs) ==
    /\ encoded = DerTagged(6, content)
    /\ ReadArcs(content) = SubSeq(arcs, 3, Len(arcs))

THEOREM ObjectIdentifierReadsBack ==
  ASSUME NEW arcs \in Seq(Nat), Len(arcs) >= 2
  PROVE  \E content \in Seq(Nat) : ArcsReadBack(DerOid(arcs), content, arcs)
<1>1. PICK n \in Nat : n = Len(arcs) - 2
  OBVIOUS
<1>2. PICK later \in Seq(Nat) : /\ later = SubSeq(arcs, 3, Len(arcs)) /\ Len(later) = n
                                /\ \A k \in 1 .. n : later[k] = arcs[k + 2]
  <2>1. \A k \in 3 .. Len(arcs) : arcs[k] \in Nat
    OBVIOUS
  <2>2. SubSeq(arcs, 3, Len(arcs)) \in Seq(Nat) /\ Len(SubSeq(arcs, 3, Len(arcs))) = n
    BY <1>1, <2>1, SubSeqProperties
  <2>3. \A k \in 1 .. n : SubSeq(arcs, 3, Len(arcs))[k] = arcs[k + 2]
    BY <1>1, <2>1
  <2> QED
    BY <2>2, <2>3, Zenon
<1>3. PICK parts : parts = [i \in 1 .. Len(arcs) - 2 |-> Base128(arcs[i + 2])]
  OBVIOUS
<1>4. \A k \in 1 .. n : parts[k] = Base128(later[k]) /\ parts[k] \in Seq(Nat)
  <2> SUFFICES ASSUME NEW k \in 1 .. n PROVE parts[k] = Base128(later[k]) /\ parts[k] \in Seq(Nat)
    OBVIOUS
  <2>1. parts[k] = Base128(later[k])
    BY <1>1, <1>2, <1>3
  <2>2. PICK arc \in Nat : arc = later[k]
    BY <1>2
  <2> QED
    BY <2>1, <2>2, Base128IsSeq
<1>5. parts \in Seq(Seq(Nat)) /\ Len(parts) = n
  <2>1. parts \in [1 .. n -> Seq(Nat)]
    <3>1. parts = [k \in 1 .. n |-> parts[k]]
      BY <1>1, <1>3
    <3> QED
      BY <1>4, <3>1
  <2> QED
    BY <2>1, LenProperties, IsASeq
<1>6. EncodesArcs(parts, later)
  BY <1>2, <1>4, <1>5, Zenon DEF EncodesArcs
<1>7. PICK first \in Seq(Nat) : first = <<((40 * arcs[1]) + arcs[2]) % 256>> /\ Len(first) = 1
  <2>1. arcs[1] \in Nat /\ arcs[2] \in Nat
    OBVIOUS
  <2>2. ((40 * arcs[1]) + arcs[2]) % 256 \in Nat
    BY <2>1
  <2>3. PICK c \in Nat : c = ((40 * arcs[1]) + arcs[2]) % 256
    BY <2>2
  <2>4. <<c>> \in Seq(Nat) /\ Len(<<c>>) = 1
    OBVIOUS
  <2> QED
    BY <2>3, <2>4, Zenon
<1>8. PICK content \in Seq(Nat) : content = first \o FlattenSeq(parts)
  BY <1>5, FlattenIsSeq, JoinIsSeq, Zenon DEF JoinsTo
<1>9. DerOid(arcs) = DerTagged(6, content)
  BY <1>3, <1>7, <1>8, Zenon DEF DerOid
<1>10. PICK f : ReadsArcs(f, content) /\ ReadArcs(content) = f[<<1, 0>>]
  BY ArcsAreRead
<1>11. ArcsAt(f, Len(first), later)
  BY <1>6, <1>8, <1>10, ArcsBehind, Zenon
<1>12. ReadArcs(content) = SubSeq(arcs, 3, Len(arcs))
  BY <1>2, <1>7, <1>10, <1>11, Zenon DEF ArcsAt
<1> QED
  BY <1>9, <1>12, Zenon DEF ArcsReadBack

(***************************************************************************)
(* Bytes in which a reader finds these elements, each of them short.       *)
(***************************************************************************)
Element == [tag : Nat, content : Seq(Nat)]

PartsOf(parts, elements) ==
    /\ parts \in Seq(Seq(Nat)) /\ elements \in Seq(Element)
    /\ Len(parts) = Len(elements)
    /\ \A k \in 1 .. Len(elements) : parts[k] = Encoded(elements[k])

Holds(bytes, elements) ==
    /\ bytes \in Seq(Nat)
    /\ elements \in Seq(ShortElement)
    /\ Elements(bytes) = elements

LEMMA EncodedIsSeq ==
  ASSUME NEW e \in Element
  PROVE  /\ Encoded(e) \in Seq(Nat) /\ Len(e.content) \in Nat /\ Len(Encoded(e)) \in Nat
         /\ Len(e.content) < Len(Encoded(e))
<1>1. PICK tag \in Nat, content \in Seq(Nat) : tag = e.tag /\ content = e.content
  BY DEF Element
<1>2. /\ DerTagged(tag, content) \in Seq(Nat) /\ Len(DerTagged(tag, content)) \in Nat
      /\ Len(DerTagged(tag, content)) >= 2 + Len(content)
  BY DerTaggedIsSeq, Zenon
<1>3. PICK n \in Nat, m \in Nat : n = Len(content) /\ m = Len(DerTagged(tag, content)) /\ m >= 2 + n
  BY <1>2
<1>4. n < m
  BY <1>3
<1> QED
  BY <1>1, <1>2, <1>3, <1>4, Zenon DEF Encoded

LEMMA PartsAreHeld ==
  ASSUME NEW parts, NEW elements, PartsOf(parts, elements),
         Len(FlattenSeq(parts)) < LengthRoom
  PROVE  Holds(FlattenSeq(parts), elements)
<1>1. parts \in Seq(Seq(Nat)) /\ elements \in Seq(Element)
  BY Zenon DEF PartsOf
<1>2. PICK n \in Nat : n = Len(elements) /\ n = Len(parts)
  <2>1. Len(elements) \in Nat
    BY <1>1
  <2> QED
    BY <2>1, Zenon DEF PartsOf
<1>3. PICK bytes \in Seq(Nat) : bytes = FlattenSeq(parts)
  BY <1>1, FlattenIsSeq, Zenon
<1>4. ASSUME NEW k \in 1 .. n PROVE elements[k] \in ShortElement
  <2>1. PICK e \in Element : e = elements[k]
    BY <1>1, <1>2, ElementOfSeq
  <2>2. parts[k] = Encoded(e)
    BY <1>2, <2>1, Zenon DEF PartsOf
  <2>3. Len(parts[k]) <= Len(bytes)
    BY <1>1, <1>2, <1>3, PartIsShorter, Zenon
  <2>4. PICK c \in Nat, m \in Nat, l \in Nat :
           c = Len(e.content) /\ m = Len(Encoded(e)) /\ l = Len(bytes)
    BY EncodedIsSeq
  <2>5. c < m
    BY <2>4, EncodedIsSeq, Zenon
  <2>6. m <= l
    BY <2>2, <2>3, <2>4, Zenon
  <2>7. l < LengthRoom
    BY <1>3, <2>4, Zenon
  <2>8. c < LengthRoom
    BY <2>5, <2>6, <2>7 DEF LengthRoom
  <2> QED
    BY <2>1, <2>4, <2>8, Zenon DEF ShortElement, Element
<1>5. elements \in Seq(ShortElement)
  <2>1. elements \in [1 .. n -> Element]
    BY <1>1, <1>2, LenProperties, Zenon
  <2>2. elements \in [1 .. n -> ShortElement]
    BY <1>4, <2>1
  <2> QED
    BY <2>2, IsASeq
<1>6. Encodes(parts, elements)
  BY <1>1, <1>5, Zenon DEF PartsOf, Encodes
<1> QED
  BY <1>3, <1>5, <1>6, EncodedReadsBack, Zenon DEF Holds

(***************************************************************************)
(* What a reader finds at a place.                                         *)
(***************************************************************************)
ReadAt(bytes, k, e) ==
    /\ Inside(bytes, k) = e.content
    /\ e.content \in Seq(Nat)
    /\ Len(e.content) < LengthRoom

LEMMA HeldIsInside ==
  ASSUME NEW bytes, NEW elements, Holds(bytes, elements), NEW k \in 1 .. Len(elements)
  PROVE  ReadAt(bytes, k, elements[k])
<1>1. elements \in Seq(ShortElement) /\ Elements(bytes) = elements
  BY Zenon DEF Holds
<1>2. PICK e \in ShortElement : e = elements[k] /\ k \in DOMAIN elements
  BY <1>1
<1>3. e.content \in Seq(Nat) /\ Len(e.content) < LengthRoom
  BY DEF ShortElement
<1>4. Inside(bytes, k) = e.content
  BY <1>1, <1>2, Zenon DEF Inside
<1> QED
  BY <1>2, <1>3, <1>4, Zenon DEF ReadAt

(***************************************************************************)
(* Lists of as many parts as a certificate has them.                       *)
(***************************************************************************)
LEMMA OnePart ==
  ASSUME NEW e \in Element
  PROVE  PartsOf(<<Encoded(e)>>, <<e>>)
<1>1. PICK p \in Seq(Nat) : p = Encoded(e)
  BY EncodedIsSeq
<1>2. PartsOf(<<p>>, <<e>>)
  BY <1>1 DEF PartsOf
<1> QED
  BY <1>1, <1>2, Zenon

IsJoin(r, s, n, t, m) ==
    Len(r) = n + m /\ \A k \in 1 .. n + m : r[k] = IF k <= n THEN s[k] ELSE t[k - n]

LEMMA JoinedIsSeq ==
  ASSUME NEW S, NEW s \in Seq(S), NEW n \in Nat, Len(s) = n,
         NEW t \in Seq(S), NEW m \in Nat, Len(t) = m
  PROVE  \E r \in Seq(S) : r = s \o t /\ IsJoin(r, s, n, t, m)
<1>1. s \o t \in Seq(S)
  OBVIOUS
<1>2. IsJoin(s \o t, s, n, t, m)
  BY ConcatProperties DEF IsJoin
<1> QED
  BY <1>1, <1>2, Zenon

LEMMA JoinedParts ==
  ASSUME NEW p, NEW e, PartsOf(p, e), NEW q, NEW f, PartsOf(q, f)
  PROVE  PartsOf(p \o q, e \o f)
<1>1. PICK n \in Nat, m \in Nat : n = Len(e) /\ m = Len(f)
  <2>1. Len(e) \in Nat /\ Len(f) \in Nat
    BY DEF PartsOf
  <2> QED
    BY <2>1
<1>2. /\ p \in Seq(Seq(Nat)) /\ q \in Seq(Seq(Nat)) /\ Len(p) = n /\ Len(q) = m
      /\ e \in Seq(Element) /\ f \in Seq(Element) /\ Len(e) = n /\ Len(f) = m
      /\ \A k \in 1 .. n : p[k] = Encoded(e[k])
      /\ \A k \in 1 .. m : q[k] = Encoded(f[k])
  BY <1>1, Zenon DEF PartsOf
<1>3. PICK r \in Seq(Seq(Nat)) : r = p \o q /\ IsJoin(r, p, n, q, m)
  BY <1>2, JoinedIsSeq, Zenon
<1>4. PICK g \in Seq(Element) : g = e \o f /\ IsJoin(g, e, n, f, m)
  BY <1>2, JoinedIsSeq, Zenon
<1>5. ASSUME NEW k \in 1 .. n + m PROVE r[k] = Encoded(g[k])
  <2>1. CASE k <= n
    <3>1. k \in 1 .. n
      BY <2>1
    <3>2. r[k] = p[k] /\ g[k] = e[k]
      BY <1>3, <1>4, <2>1, Zenon DEF IsJoin
    <3> QED
      BY <1>2, <3>1, <3>2, Zenon
  <2>2. CASE ~(k <= n)
    <3>1. PICK j \in 1 .. m : j = k - n
      BY <2>2
    <3>2. r[k] = q[j] /\ g[k] = f[j]
      BY <1>3, <1>4, <2>2, <3>1, Zenon DEF IsJoin
    <3> QED
      BY <1>2, <3>2, Zenon
  <2> QED
    BY <2>1, <2>2
<1>6. PartsOf(r, g)
  <2>1. Len(r) = n + m /\ Len(g) = n + m
    BY <1>3, <1>4, Zenon DEF IsJoin
  <2> QED
    BY <1>5, <2>1, Zenon DEF PartsOf
<1> QED
  BY <1>3, <1>4, <1>6, Zenon

LEMMA TwoParts ==
  ASSUME NEW d \in Element, NEW e \in Element
  PROVE  PartsOf(<<Encoded(d), Encoded(e)>>, <<d, e>>)
<1>1. PICK p \in Seq(Nat), q \in Seq(Nat) : p = Encoded(d) /\ q = Encoded(e)
  BY EncodedIsSeq
<1>2. PartsOf(<<p, q>>, <<d, e>>)
  BY <1>1 DEF PartsOf
<1> QED
  BY <1>1, <1>2, Zenon

LEMMA ThreeParts ==
  ASSUME NEW d \in Element, NEW e \in Element, NEW f \in Element
  PROVE  PartsOf(<<Encoded(d), Encoded(e), Encoded(f)>>, <<d, e, f>>)
<1>1. PICK p \in Seq(Nat), q \in Seq(Nat), r \in Seq(Nat) :
         p = Encoded(d) /\ q = Encoded(e) /\ r = Encoded(f)
  BY EncodedIsSeq
<1>2. PartsOf(<<p, q, r>>, <<d, e, f>>)
  BY <1>1 DEF PartsOf
<1> QED
  BY <1>1, <1>2, Zenon

LEMMA EightParts ==
  ASSUME NEW e1 \in Element, NEW e2 \in Element, NEW e3 \in Element, NEW e4 \in Element,
         NEW e5 \in Element, NEW e6 \in Element, NEW e7 \in Element, NEW e8 \in Element
  PROVE  PartsOf(<<Encoded(e1), Encoded(e2), Encoded(e3), Encoded(e4),
                   Encoded(e5), Encoded(e6), Encoded(e7), Encoded(e8)>>,
                 <<e1, e2, e3, e4, e5, e6, e7, e8>>)
<1>1. PICK p1 \in Seq(Nat), p2 \in Seq(Nat), p3 \in Seq(Nat), p4 \in Seq(Nat) :
         p1 = Encoded(e1) /\ p2 = Encoded(e2) /\ p3 = Encoded(e3) /\ p4 = Encoded(e4)
  BY EncodedIsSeq
<1>2. PICK p5 \in Seq(Nat), p6 \in Seq(Nat), p7 \in Seq(Nat), p8 \in Seq(Nat) :
         p5 = Encoded(e5) /\ p6 = Encoded(e6) /\ p7 = Encoded(e7) /\ p8 = Encoded(e8)
  BY EncodedIsSeq
<1>3. PartsOf(<<p1, p2, p3, p4, p5, p6, p7, p8>>, <<e1, e2, e3, e4, e5, e6, e7, e8>>)
  <2>1. /\ <<p1, p2, p3, p4, p5, p6, p7, p8>> \in Seq(Seq(Nat))
        /\ Len(<<p1, p2, p3, p4, p5, p6, p7, p8>>) = 8
    OBVIOUS
  <2>2. /\ <<e1, e2, e3, e4, e5, e6, e7, e8>> \in Seq(Element)
        /\ Len(<<e1, e2, e3, e4, e5, e6, e7, e8>>) = 8
    OBVIOUS
  <2>3. \A k \in 1 .. 8 : <<p1, p2, p3, p4, p5, p6, p7, p8>>[k]
                            = Encoded(<<e1, e2, e3, e4, e5, e6, e7, e8>>[k])
    BY <1>1, <1>2
  <2> QED
    BY <2>1, <2>2, <2>3, Zenon DEF PartsOf
<1> QED
  BY <1>1, <1>2, <1>3, Zenon

(***************************************************************************)
(* Contents under one tag, as a reader finds them and as they are encoded. *)
(***************************************************************************)
TaggedAll(tag, contents) == [i \in DOMAIN contents |-> [tag |-> tag, content |-> contents[i]]]

EncodedAll(tag, contents) == [i \in DOMAIN contents |-> DerTagged(tag, contents[i])]

LEMMA TaggedIsElement ==
  ASSUME NEW tag \in Nat, NEW content \in Seq(Nat)
  PROVE  /\ Tagged(tag, content) \in Element
         /\ Encoded(Tagged(tag, content)) = DerTagged(tag, content)
         /\ Tagged(tag, content).content = content
BY DEF Tagged, Element, Encoded

LEMMA AllParts ==
  ASSUME NEW tag \in Nat, NEW contents \in Seq(Seq(Nat))
  PROVE  PartsOf(EncodedAll(tag, contents), TaggedAll(tag, contents))
<1>1. PICK n \in Nat : n = Len(contents) /\ DOMAIN contents = 1 .. n
  OBVIOUS
<1>2. PICK parts, elements : /\ parts = EncodedAll(tag, contents)
                             /\ elements = TaggedAll(tag, contents)
  OBVIOUS
<1>3. ASSUME NEW k \in 1 .. n
      PROVE  /\ parts[k] = Encoded(elements[k])
             /\ elements[k] \in Element /\ parts[k] \in Seq(Nat)
  <2>1. PICK content \in Seq(Nat) : content = contents[k]
    BY <1>1
  <2>2. parts[k] = DerTagged(tag, content)
    BY <1>1, <1>2, <2>1 DEF EncodedAll
  <2>3. elements[k] = Tagged(tag, content)
    BY <1>1, <1>2, <2>1 DEF TaggedAll, Tagged
  <2>4. DerTagged(tag, content) \in Seq(Nat)
    BY DerTaggedIsSeq
  <2> QED
    BY <2>2, <2>3, <2>4, TaggedIsElement, Zenon
<1>4. parts \in Seq(Seq(Nat)) /\ Len(parts) = n
  <2>1. parts = [k \in 1 .. n |-> parts[k]]
    BY <1>1, <1>2 DEF EncodedAll
  <2>2. parts \in [1 .. n -> Seq(Nat)]
    BY <1>3, <2>1
  <2> QED
    BY <2>2, LenProperties, IsASeq
<1>5. elements \in Seq(Element) /\ Len(elements) = n
  <2>1. elements = [k \in 1 .. n |-> elements[k]]
    BY <1>1, <1>2 DEF TaggedAll
  <2>2. elements \in [1 .. n -> Element]
    BY <1>3, <2>1
  <2> QED
    BY <2>2, LenProperties, IsASeq
<1> QED
  BY <1>2, <1>3, <1>4, <1>5, Zenon DEF PartsOf

(***************************************************************************)
(* What is inside a SEQUENCE.                                              *)
(***************************************************************************)
LEMMA SequenceOfParts ==
  ASSUME NEW parts, NEW elements, PartsOf(parts, elements)
  PROVE  \E content \in Seq(Nat) :
            content = FlattenSeq(parts) /\ DerSequence(parts) = DerTagged(48, content)
<1>1. PICK content \in Seq(Nat) : content = FlattenSeq(parts)
  <2>1. parts \in Seq(Seq(Nat))
    BY Zenon DEF PartsOf
  <2> QED
    BY <2>1, FlattenIsSeq, Zenon
<1> QED
  BY <1>1, Zenon DEF DerSequence

(***************************************************************************)
(* The alternative names: the DNS names and behind them the addresses.     *)
(***************************************************************************)
SanElements(dnsNames, ipAddresses) == TaggedAll(130, dnsNames) \o TaggedAll(135, ipAddresses)

LEMMA SanParts ==
  ASSUME NEW dnsNames \in Seq(Seq(Nat)), NEW ipAddresses \in Seq(Seq(Nat))
  PROVE  PartsOf(SanEntries(dnsNames, ipAddresses), SanElements(dnsNames, ipAddresses))
<1>1. 130 \in Nat /\ 135 \in Nat /\ 128 + 2 = 130 /\ 128 + 7 = 135
  OBVIOUS
<1>2. /\ PartsOf(EncodedAll(130, dnsNames), TaggedAll(130, dnsNames))
      /\ PartsOf(EncodedAll(135, ipAddresses), TaggedAll(135, ipAddresses))
  <2>1. PICK s \in Nat, t \in Nat : s = 130 /\ t = 135
    BY <1>1
  <2>2. PartsOf(EncodedAll(s, dnsNames), TaggedAll(s, dnsNames))
    BY AllParts, Zenon
  <2>3. PartsOf(EncodedAll(t, ipAddresses), TaggedAll(t, ipAddresses))
    BY AllParts, Zenon
  <2> QED
    BY <2>1, <2>2, <2>3, Zenon
<1>3. SanEntries(dnsNames, ipAddresses)
        = EncodedAll(130, dnsNames) \o EncodedAll(135, ipAddresses)
  BY <1>1, Zenon DEF SanEntries, DerImplicitOctetString, EncodedAll
<1> QED
  BY <1>2, <1>3, JoinedParts, ZenonT(40) DEF SanElements

(***************************************************************************)
(* What is inside the k-th element, and what is inside the only one.       *)
(***************************************************************************)
FindsInside(bytes, k, content) == Inside(bytes, k) = content /\ Len(content) < LengthRoom

LEMMA HeldInside ==
  ASSUME NEW bytes, NEW elements, Holds(bytes, elements), NEW k \in 1 .. Len(elements),
         NEW tag \in Nat, NEW content \in Seq(Nat), elements[k] = Tagged(tag, content)
  PROVE  FindsInside(bytes, k, content)
<1>1. ReadAt(bytes, k, Tagged(tag, content))
  BY HeldIsInside, Zenon
<1>2. Tagged(tag, content).content = content
  BY TaggedIsElement
<1> QED
  BY <1>1, <1>2, Zenon DEF ReadAt, FindsInside

OnlyInside(bytes, content) ==
    FindsInside(bytes, 1, content) /\ Len(Elements(bytes)) = 1

LEMMA OneInside ==
  ASSUME NEW tag \in Nat, NEW content \in Seq(Nat), NEW bytes,
         bytes = DerTagged(tag, content), Len(bytes) < LengthRoom
  PROVE  OnlyInside(bytes, content)
<1>1. PICK e \in Element : e = Tagged(tag, content) /\ Encoded(e) = bytes
  BY TaggedIsElement, Zenon
<1>2. bytes \in Seq(Nat)
  BY DerTaggedIsSeq, Zenon
<1>3. Holds(bytes, <<e>>)
  <2>1. PartsOf(<<bytes>>, <<e>>)
    BY <1>1, OnePart, Zenon
  <2>2. FlattenSeq(<<bytes>>) = bytes
    BY <1>2, FlattenOne, Zenon
  <2> QED
    BY <2>1, <2>2, PartsAreHeld, Zenon
<1>4. 1 \in 1 .. Len(<<e>>) /\ <<e>>[1] = e /\ Len(<<e>>) = 1
  OBVIOUS
<1>5. FindsInside(bytes, 1, content)
  BY <1>1, <1>3, <1>4, HeldInside, Zenon
<1> QED
  BY <1>3, <1>4, <1>5, Zenon DEF OnlyInside, Holds

(***************************************************************************)
(* The extension with the alternative names of the subject.                *)
(***************************************************************************)
SanIsRead(san, dnsNames, ipAddresses) ==
    /\ Elements(Inside(Inside(san, 2), 1)) = SanElements(dnsNames, ipAddresses)
    /\ ReadArcs(Inside(san, 1)) = SubSeq(Oid.subjectAltName, 3, 4)

SanExtension(dnsNames, ipAddresses) ==
    DerSequence(<<DerOid(Oid.subjectAltName),
                  DerOctetString(DerSequence(SanEntries(dnsNames, ipAddresses)))>>)

SanContent(content, dnsNames, ipAddresses) ==
    /\ SanExtension(dnsNames, ipAddresses) = DerTagged(48, content)
    /\ Len(content) < LengthRoom => SanIsRead(content, dnsNames, ipAddresses)

LEMMA SanReadsBack ==
  ASSUME NEW dnsNames \in Seq(Seq(Nat)), NEW ipAddresses \in Seq(Seq(Nat))
  PROVE  \E content \in Seq(Nat) : SanContent(content, dnsNames, ipAddresses)
<1>1. PICK entries, elements : /\ entries = SanEntries(dnsNames, ipAddresses)
                               /\ elements = SanElements(dnsNames, ipAddresses)
                               /\ PartsOf(entries, elements)
  BY SanParts
<1>2. PICK names \in Seq(Nat) : names = FlattenSeq(entries) /\ DerSequence(entries) = DerTagged(48, names)
  BY <1>1, SequenceOfParts
<1>3. PICK list \in Seq(Nat) : list = DerTagged(48, names)
  BY DerTaggedIsSeq
<1>4. PICK oid \in Seq(Nat) : /\ DerOid(Oid.subjectAltName) = DerTagged(6, oid)
                              /\ ReadArcs(oid) = SubSeq(Oid.subjectAltName, 3, 4)
  <2>1. Oid.subjectAltName \in Seq(Nat) /\ Len(Oid.subjectAltName) = 4 /\ 4 >= 2
    BY DEF Oid
  <2>2. PICK oid \in Seq(Nat) : ArcsReadBack(DerOid(Oid.subjectAltName), oid, Oid.subjectAltName)
    BY <2>1, ObjectIdentifierReadsBack, Zenon
  <2> QED
    BY <2>1, <2>2, Zenon DEF ArcsReadBack
<1>5. PICK d \in Element, e \in Element : d = Tagged(6, oid) /\ e = Tagged(4, list)
  BY TaggedIsElement
<1>6. Encoded(d) = DerTagged(6, oid) /\ Encoded(e) = DerTagged(4, list)
  <2>1. 6 \in Nat /\ 4 \in Nat
    OBVIOUS
  <2> QED
    BY <1>5, <2>1, TaggedIsElement, Zenon
<1>7. PICK parts : parts = <<Encoded(d), Encoded(e)>> /\ PartsOf(parts, <<d, e>>)
  BY TwoParts, Zenon
<1>8. PICK content \in Seq(Nat) : content = FlattenSeq(parts) /\ DerSequence(parts) = DerTagged(48, content)
  BY <1>7, SequenceOfParts
<1>9. SanExtension(dnsNames, ipAddresses) = DerTagged(48, content)
  <2>1. parts = <<DerOid(Oid.subjectAltName), DerOctetString(DerSequence(entries))>>
    BY <1>2, <1>3, <1>4, <1>6, <1>7, Zenon DEF DerOctetString
  <2> QED
    BY <1>1, <1>8, <2>1, Zenon DEF SanExtension
<1>10. ASSUME Len(content) < LengthRoom PROVE SanIsRead(content, dnsNames, ipAddresses)
  <2>1. Holds(content, <<d, e>>)
    BY <1>7, <1>8, <1>10, PartsAreHeld, Zenon
  <2>2. 1 \in 1 .. Len(<<d, e>>) /\ 2 \in 1 .. Len(<<d, e>>) /\ <<d, e>>[1] = d /\ <<d, e>>[2] = e
    OBVIOUS
  <2>3. FindsInside(content, 1, oid)
    <3>1. 6 \in Nat
      OBVIOUS
    <3> QED
      BY <1>5, <2>1, <2>2, <3>1, HeldInside, Zenon
  <2>4. FindsInside(content, 2, list)
    <3>1. 4 \in Nat
      OBVIOUS
    <3> QED
      BY <1>5, <2>1, <2>2, <3>1, HeldInside, Zenon
  <2>7. FindsInside(list, 1, names)
    <3>1. 48 \in Nat /\ Len(list) < LengthRoom
      BY <2>4 DEF FindsInside
    <3>2. OnlyInside(list, names)
      BY <1>3, <3>1, OneInside, Zenon
    <3> QED
      BY <3>2, Zenon DEF OnlyInside
  <2>8. Elements(names) = elements
    BY <1>1, <1>2, <2>7, PartsAreHeld, Zenon DEF Holds, FindsInside
  <2> QED
    BY <1>1, <1>4, <2>3, <2>4, <2>7, <2>8, Zenon DEF SanIsRead, FindsInside
<1> QED
  BY <1>9, <1>10, Zenon DEF SanContent

(***************************************************************************)
(* Parts that the properties do not look into: that they are one element   *)
(* is enough.                                                              *)
(***************************************************************************)
LEMMA OidIsSeq ==
  ASSUME NEW arcs \in Seq(Nat), Len(arcs) >= 2
  PROVE  DerOid(arcs) \in Seq(Nat)
<1>1. PICK content \in Seq(Nat) : ArcsReadBack(DerOid(arcs), content, arcs)
  BY ObjectIdentifierReadsBack, Zenon
<1>2. PICK tag \in Nat : tag = 6
  OBVIOUS
<1>3. DerTagged(tag, content) \in Seq(Nat)
  BY DerTaggedIsSeq
<1> QED
  BY <1>1, <1>2, <1>3, Zenon DEF ArcsReadBack

LEMMA PlainTagged ==
  ASSUME NEW tag \in Nat, NEW parts \in Seq(Seq(Nat))
  PROVE  \E content \in Seq(Nat) : DerTagged(tag, FlattenSeq(parts)) = DerTagged(tag, content)
BY FlattenIsSeq, Zenon

LEMMA PlainSequence ==
  ASSUME NEW parts \in Seq(Seq(Nat))
  PROVE  \E content \in Seq(Nat) : DerSequence(parts) = DerTagged(48, content)
BY FlattenIsSeq, Zenon DEF DerSequence

(***************************************************************************)
(* An extension of three parts: which, that it is critical, and its value. *)
(***************************************************************************)
LEMMA CriticalExtension ==
  ASSUME NEW arcs \in Seq(Nat), Len(arcs) >= 2, NEW value \in Seq(Nat)
  PROVE  \E content \in Seq(Nat) :
            DerSequence(<<DerOid(arcs), DerBooleanTrue, DerOctetString(value)>>)
              = DerTagged(48, content)
<1>1. PICK p \in Seq(Nat), q \in Seq(Nat), r \in Seq(Nat) :
         p = DerOid(arcs) /\ q = DerBooleanTrue /\ r = DerOctetString(value)
  <2>1. DerOid(arcs) \in Seq(Nat)
    BY OidIsSeq
  <2>2. DerBooleanTrue \in Seq(Nat)
    BY DEF DerBooleanTrue
  <2>3. DerOctetString(value) \in Seq(Nat)
    <3>1. PICK tag \in Nat : tag = 4
      OBVIOUS
    <3>2. DerTagged(tag, value) \in Seq(Nat)
      BY DerTaggedIsSeq
    <3> QED
      BY <3>1, <3>2, Zenon DEF DerOctetString
  <2> QED
    BY <2>1, <2>2, <2>3, Zenon
<1>2. PICK parts \in Seq(Seq(Nat)) : parts = <<p, q, r>>
  <2>1. <<p, q, r>> \in Seq(Seq(Nat))
    OBVIOUS
  <2> QED
    BY <2>1, Zenon
<1> QED
  BY <1>1, <1>2, PlainSequence, Zenon

(***************************************************************************)
(* The extensions: the alternative names first, and two more.              *)
(***************************************************************************)
ExtensionsContent(content, dnsNames, ipAddresses) ==
    /\ CertExtensions(dnsNames, ipAddresses) = DerTagged(48, content)
    /\ Len(content) < LengthRoom =>
          /\ Len(Elements(content)) = 3
          /\ SanIsRead(Inside(content, 1), dnsNames, ipAddresses)

LEMMA ExtensionsReadBack ==
  ASSUME NEW dnsNames \in Seq(Seq(Nat)), NEW ipAddresses \in Seq(Seq(Nat))
  PROVE  \E content \in Seq(Nat) : ExtensionsContent(content, dnsNames, ipAddresses)
<1>1. PICK san \in Seq(Nat) : SanContent(san, dnsNames, ipAddresses)
  BY SanReadsBack
<1>2. PICK usage \in Seq(Nat) :
         DerSequence(<<DerOid(Oid.keyUsage), DerBooleanTrue, DerOctetString(<<3, 2, 7, 128>>)>>)
           = DerTagged(48, usage)
  <2>1. Oid.keyUsage \in Seq(Nat) /\ Len(Oid.keyUsage) >= 2
    BY DEF Oid
  <2>2. <<3, 2, 7, 128>> \in Seq(Nat)
    OBVIOUS
  <2> QED
    BY <2>1, <2>2, CriticalExtension, ZenonT(40)
<1>3. PICK basic \in Seq(Nat) :
         DerSequence(<<DerOid(Oid.basicConstraints), DerBooleanTrue,
                       DerOctetString(DerSequence(<<>>))>>)
           = DerTagged(48, basic)
  <2>1. Oid.basicConstraints \in Seq(Nat) /\ Len(Oid.basicConstraints) >= 2
    BY DEF Oid
  <2>2. DerSequence(<<>>) \in Seq(Nat)
    <3>1. <<>> \in Seq(Seq(Nat))
      OBVIOUS
    <3>2. PICK content \in Seq(Nat) : DerSequence(<<>>) = DerTagged(48, content)
      BY <3>1, PlainSequence, Zenon
    <3>3. PICK tag \in Nat : tag = 48
      OBVIOUS
    <3>4. DerTagged(tag, content) \in Seq(Nat)
      BY DerTaggedIsSeq
    <3> QED
      BY <3>2, <3>3, <3>4, Zenon
  <2> QED
    BY <2>1, <2>2, CriticalExtension, Zenon
<1>4. PICK tag \in Nat : tag = 48
  OBVIOUS
<1>5. PICK d \in Element, e \in Element, f \in Element :
         d = Tagged(tag, san) /\ e = Tagged(tag, usage) /\ f = Tagged(tag, basic)
  BY TaggedIsElement
<1>6. /\ Encoded(d) = DerTagged(tag, san) /\ Encoded(e) = DerTagged(tag, usage)
      /\ Encoded(f) = DerTagged(tag, basic)
  BY <1>5, TaggedIsElement, Zenon
<1>7. PICK parts : parts = <<Encoded(d), Encoded(e), Encoded(f)>> /\ PartsOf(parts, <<d, e, f>>)
  BY ThreeParts, Zenon
<1>8. PICK content \in Seq(Nat) : content = FlattenSeq(parts) /\ DerSequence(parts) = DerTagged(48, content)
  BY <1>7, SequenceOfParts
<1>9. CertExtensions(dnsNames, ipAddresses) = DerTagged(48, content)
  <2>1. Encoded(d) = SanExtension(dnsNames, ipAddresses)
    BY <1>1, <1>4, <1>6, Zenon DEF SanContent
  <2> QED
    BY <1>2, <1>3, <1>4, <1>6, <1>7, <1>8, <2>1, Zenon DEF CertExtensions, SanExtension
<1>10. ASSUME Len(content) < LengthRoom
       PROVE  /\ Len(Elements(content)) = 3
              /\ SanIsRead(Inside(content, 1), dnsNames, ipAddresses)
  <2>1. Holds(content, <<d, e, f>>)
    BY <1>7, <1>8, <1>10, PartsAreHeld, Zenon
  <2>2. Len(<<d, e, f>>) = 3 /\ 1 \in 1 .. Len(<<d, e, f>>) /\ <<d, e, f>>[1] = d
    OBVIOUS
  <2>3. FindsInside(content, 1, san)
    BY <1>5, <2>1, <2>2, HeldInside, Zenon
  <2> QED
    BY <1>1, <2>1, <2>2, <2>3, Zenon DEF Holds, FindsInside, SanContent
<1> QED
  BY <1>9, <1>10, Zenon DEF ExtensionsContent

(***************************************************************************)
(* The algorithm, which the certificate says twice.                        *)
(***************************************************************************)
AlgorithmContent(content) ==
    /\ SigAlg = DerTagged(48, content)
    /\ Len(content) < LengthRoom =>
          ReadArcs(Inside(content, 1)) = SubSeq(Oid.ecdsaWithSHA256, 3, 7)

LEMMA AlgorithmReadsBack == \E content \in Seq(Nat) : AlgorithmContent(content)
<1>1. PICK oid \in Seq(Nat) : /\ DerOid(Oid.ecdsaWithSHA256) = DerTagged(6, oid)
                              /\ ReadArcs(oid) = SubSeq(Oid.ecdsaWithSHA256, 3, 7)
  <2>1. Oid.ecdsaWithSHA256 \in Seq(Nat) /\ Len(Oid.ecdsaWithSHA256) = 7 /\ 7 >= 2
    BY DEF Oid
  <2>2. PICK oid \in Seq(Nat) : ArcsReadBack(DerOid(Oid.ecdsaWithSHA256), oid, Oid.ecdsaWithSHA256)
    BY <2>1, ObjectIdentifierReadsBack, Zenon
  <2> QED
    BY <2>1, <2>2, Zenon DEF ArcsReadBack
<1>2. PICK six \in Nat, five \in Nat, none \in Seq(Nat) : six = 6 /\ five = 5 /\ none = <<>>
  <2>1. 6 \in Nat /\ 5 \in Nat /\ <<>> \in Seq(Nat)
    OBVIOUS
  <2> QED
    BY <2>1, Zenon
<1>3. PICK d \in Element, e \in Element : d = Tagged(six, oid) /\ e = Tagged(five, none)
  BY TaggedIsElement
<1>4. Encoded(d) = DerOid(Oid.ecdsaWithSHA256) /\ Encoded(e) = DerNull
  <2>1. Encoded(d) = DerTagged(six, oid) /\ Encoded(e) = DerTagged(five, none)
    BY <1>3, TaggedIsElement, Zenon
  <2>2. DerTagged(5, <<>>) = DerNull
    <3>1. Len(<<>>) = 0 /\ DerLength(0) = <<0>>
      BY DEF DerLength
    <3>2. (<<5>> \o <<0>>) \o <<>> = <<5, 0>>
      <4>1. <<5>> \o <<0>> = <<5, 0>> /\ <<5, 0>> \in Seq(Nat)
        <5>1. <<5>> \in Seq(Nat) /\ 0 \in Nat /\ <<5, 0>> \in Seq(Nat)
          OBVIOUS
        <5>2. <<5>> \o <<0>> = Append(<<5>>, 0)
          BY <5>1, AppendIsConcat, Zenon
        <5>3. Append(<<5>>, 0) = <<5, 0>>
          <6>1. PICK a \in Seq(Nat) : a = Append(<<5>>, 0)
            <7>1. Append(<<5>>, 0) \in Seq(Nat)
              BY <5>1
            <7> QED
              BY <7>1, Zenon
          <6>2. Len(a) = 2 /\ a[1] = 5 /\ a[2] = 0
            BY <6>1
          <6>3. PICK b \in Seq(Nat) : b = <<5, 0>>
            BY <5>1
          <6>4. Len(b) = 2 /\ b[1] = 5 /\ b[2] = 0
            BY <6>3
          <6>5. \A k \in 1 .. 2 : a[k] = b[k]
            BY <6>2, <6>4
          <6>6. a = b
            BY <6>2, <6>4, <6>5, SeqEqual
          <6> QED
            BY <6>1, <6>3, <6>6, Zenon
        <5> QED
          BY <5>1, <5>2, <5>3, Zenon
      <4>2. <<5, 0>> \o <<>> = <<5, 0>>
        BY <4>1, ConcatEmptySeq, Zenon
      <4> QED
        BY <4>1, <4>2, Zenon
    <3> QED
      BY <3>1, <3>2, Zenon DEF DerTagged, DerNull
  <2> QED
    BY <1>1, <1>2, <2>1, <2>2, Zenon
<1>5. PICK parts : parts = <<Encoded(d), Encoded(e)>> /\ PartsOf(parts, <<d, e>>)
  BY TwoParts, Zenon
<1>6. PICK content \in Seq(Nat) : content = FlattenSeq(parts) /\ DerSequence(parts) = DerTagged(48, content)
  BY <1>5, SequenceOfParts
<1>7. SigAlg = DerTagged(48, content)
  BY <1>4, <1>5, <1>6, Zenon DEF SigAlg
<1>8. ASSUME Len(content) < LengthRoom
      PROVE  ReadArcs(Inside(content, 1)) = SubSeq(Oid.ecdsaWithSHA256, 3, 7)
  <2>1. Holds(content, <<d, e>>)
    BY <1>5, <1>6, <1>8, PartsAreHeld, Zenon
  <2>2. 1 \in 1 .. Len(<<d, e>>) /\ <<d, e>>[1] = d
    OBVIOUS
  <2>3. FindsInside(content, 1, oid)
    BY <1>3, <2>1, <2>2, HeldInside, Zenon
  <2> QED
    BY <1>1, <2>3, Zenon DEF FindsInside
<1> QED
  BY <1>7, <1>8, Zenon DEF AlgorithmContent

(***************************************************************************)
(* The name of issuer and subject, and the two times.                      *)
(***************************************************************************)
CertName ==
    DerSequence(<<DerSet(<<DerSequence(<<DerOid(Oid.commonName), DerUtf8String(Localhost)>>)>>)>>)

(***************************************************************************)
(* The name of issuer and subject, and the two times.                      *)
(***************************************************************************)
LEMMA NameIsSequence == \E content \in Seq(Nat) : CertName = DerTagged(48, content)
<1>0. PICK t48 \in Nat, t49 \in Nat, t12 \in Nat : t48 = 48 /\ t49 = 49 /\ t12 = 12
  OBVIOUS
<1>1. PICK p \in Seq(Nat), q \in Seq(Nat) : p = DerOid(Oid.commonName) /\ q = DerUtf8String(Localhost)
  <2>1. Oid.commonName \in Seq(Nat) /\ Len(Oid.commonName) >= 2
    BY DEF Oid
  <2>2. DerOid(Oid.commonName) \in Seq(Nat)
    BY <2>1, OidIsSeq, Zenon
  <2>3. PICK text \in Seq(Nat) : text = Localhost
    <3>1. Localhost \in Seq(Nat)
      BY DEF Localhost
    <3> QED
      BY <3>1, Zenon
  <2>4. DerTagged(t12, text) \in Seq(Nat)
    BY DerTaggedIsSeq
  <2> QED
    BY <1>0, <2>2, <2>3, <2>4, Zenon DEF DerUtf8String
<1>2. PICK pair \in Seq(Seq(Nat)) : pair = <<p, q>>
  <2>1. <<p, q>> \in Seq(Seq(Nat))
    OBVIOUS
  <2> QED
    BY <2>1, Zenon
<1>3. PICK c1 \in Seq(Nat) : DerSequence(pair) = DerTagged(48, c1)
  BY PlainSequence
<1>4. PICK r \in Seq(Nat) : r = DerTagged(t48, c1)
  BY DerTaggedIsSeq
<1>5. PICK one \in Seq(Seq(Nat)) : one = <<r>>
  <2>1. <<r>> \in Seq(Seq(Nat))
    OBVIOUS
  <2> QED
    BY <2>1, Zenon
<1>6. PICK c2 \in Seq(Nat) : DerTagged(t49, FlattenSeq(one)) = DerTagged(t49, c2)
  BY PlainTagged
<1>7. PICK s \in Seq(Nat) : s = DerTagged(t49, c2)
  BY DerTaggedIsSeq
<1>8. PICK set \in Seq(Seq(Nat)) : set = <<s>>
  <2>1. <<s>> \in Seq(Seq(Nat))
    OBVIOUS
  <2> QED
    BY <2>1, Zenon
<1>9. PICK content \in Seq(Nat) : DerSequence(set) = DerTagged(48, content)
  BY PlainSequence
<1>10. DerSequence(<<DerOid(Oid.commonName), DerUtf8String(Localhost)>>) = r
  BY <1>0, <1>1, <1>2, <1>3, <1>4, Zenon
<1>11. DerSet(<<r>>) = s
  BY <1>0, <1>5, <1>6, <1>7, Zenon DEF DerSet
<1> QED
  BY <1>8, <1>9, <1>10, <1>11, Zenon DEF CertName

TimesContent(content, validity) ==
    /\ DerSequence(<<DerGeneralizedTime(validity[1]), DerGeneralizedTime(validity[2])>>)
         = DerTagged(48, content)
    /\ Len(content) < LengthRoom => Elements(content) = TaggedAll(24, validity)

LEMMA TimesReadBack ==
  ASSUME NEW validity \in Seq(Nat) \X Seq(Nat)
  PROVE  \E content \in Seq(Nat) : TimesContent(content, validity)
<1>0. PICK tag \in Nat : tag = 24
  OBVIOUS
<1>1. PICK v1 \in Seq(Nat), v2 \in Seq(Nat) :
         validity = <<v1, v2>> /\ validity[1] = v1 /\ validity[2] = v2
  OBVIOUS
<1>2. PICK d \in Element, e \in Element : d = Tagged(tag, v1) /\ e = Tagged(tag, v2)
  BY TaggedIsElement
<1>3. Encoded(d) = DerTagged(tag, v1) /\ Encoded(e) = DerTagged(tag, v2)
  BY <1>2, TaggedIsElement, Zenon
<1>4. PICK parts : parts = <<Encoded(d), Encoded(e)>> /\ PartsOf(parts, <<d, e>>)
  BY TwoParts, Zenon
<1>5. PICK content \in Seq(Nat) : content = FlattenSeq(parts) /\ DerSequence(parts) = DerTagged(48, content)
  BY <1>4, SequenceOfParts
<1>6. DerSequence(<<DerGeneralizedTime(validity[1]), DerGeneralizedTime(validity[2])>>)
        = DerTagged(48, content)
  BY <1>0, <1>1, <1>3, <1>4, <1>5, Zenon DEF DerGeneralizedTime
<1>7. TaggedAll(24, validity) = <<d, e>>
  <2>1. TaggedAll(tag, validity) = [i \in 1 .. 2 |-> Tagged(tag, validity[i])]
    BY <1>1 DEF TaggedAll, Tagged
  <2>2. [i \in 1 .. 2 |-> Tagged(tag, validity[i])] = <<d, e>>
    BY <1>1, <1>2
  <2> QED
    BY <1>0, <2>1, <2>2, Zenon
<1>8. ASSUME Len(content) < LengthRoom PROVE Elements(content) = TaggedAll(24, validity)
  <2>1. Holds(content, <<d, e>>)
    BY <1>4, <1>5, <1>8, PartsAreHeld, Zenon
  <2> QED
    BY <1>7, <2>1, Zenon DEF Holds
<1> QED
  BY <1>6, <1>8, Zenon DEF TimesContent

(***************************************************************************)
(* What is signed: eight elements, among them the extensions.              *)
(***************************************************************************)
TbsIsRead(tbs, dnsNames, ipAddresses, validity, spki, alg) ==
    /\ Len(Elements(tbs)) = 8
    /\ Len(Elements(Inside(Inside(tbs, 8), 1))) = 3
    /\ SanIsRead(Inside(Inside(Inside(tbs, 8), 1), 1), dnsNames, ipAddresses)
    /\ Inside(tbs, 4) = Inside(tbs, 6)
    /\ Elements(Inside(tbs, 5)) = TaggedAll(24, validity)
    /\ ReadArcs(Inside(Inside(tbs, 3), 1)) = SubSeq(Oid.ecdsaWithSHA256, 3, 7)
    /\ Inside(tbs, 3) = alg
    /\ DerTagged(48, Inside(tbs, 7)) = spki

TbsContent(content, dnsNames, ipAddresses, validity, spki, alg) ==
    /\ Tbs(dnsNames, ipAddresses, validity, spki) = DerTagged(48, content)
    /\ Len(content) < LengthRoom =>
          TbsIsRead(content, dnsNames, ipAddresses, validity, spki, alg)

LEMMA IntegerIsTagged ==
  ASSUME NEW n \in 1 .. 127
  PROVE  \E content \in Seq(Nat) : DerInteger(<<n>>) = DerTagged(2, content)
<1>1. <<n>> \in Seq(Nat) /\ ~(Head(<<n>>) >= 128)
  OBVIOUS
<1>2. DerInteger(<<n>>) = DerTagged(2, <<n>>)
  BY <1>1, Zenon DEF DerInteger
<1> QED
  BY <1>1, <1>2, Zenon

LEMMA TbsReadsBack ==
  ASSUME NEW dnsNames \in Seq(Seq(Nat)), NEW ipAddresses \in Seq(Seq(Nat)),
         NEW validity \in Seq(Nat) \X Seq(Nat), NEW key \in Seq(Nat),
         NEW spki, spki = DerTagged(48, key), NEW alg \in Seq(Nat), AlgorithmContent(alg)
  PROVE  \E content \in Seq(Nat) :
            TbsContent(content, dnsNames, ipAddresses, validity, spki, alg)
<1>1. PICK t160 \in Nat, t163 \in Nat, t2 \in Nat, t48 \in Nat :
         t160 = 160 /\ t163 = 163 /\ t2 = 2 /\ t48 = 48
  OBVIOUS
<1>2. PICK two \in Seq(Nat), serial \in Seq(Nat) :
         DerInteger(<<2>>) = DerTagged(2, two) /\ DerInteger(<<1>>) = DerTagged(2, serial)
  <2>1. 1 \in 1 .. 127 /\ 2 \in 1 .. 127
    OBVIOUS
  <2> QED
    BY <2>1, IntegerIsTagged, Zenon
<1>3. PICK version \in Seq(Nat) : version = DerTagged(t2, two)
  BY DerTaggedIsSeq
<1>5. PICK name \in Seq(Nat) : CertName = DerTagged(48, name)
  BY NameIsSequence
<1>6. PICK times \in Seq(Nat) : TimesContent(times, validity)
  BY TimesReadBack
<1>7. PICK exts \in Seq(Nat) : ExtensionsContent(exts, dnsNames, ipAddresses)
  BY ExtensionsReadBack
<1>8. PICK list \in Seq(Nat) : list = DerTagged(t48, exts)
  BY DerTaggedIsSeq
<1>9. PICK e1 \in Element, e2 \in Element, e3 \in Element, e4 \in Element :
         /\ e1 = Tagged(t160, version) /\ e2 = Tagged(t2, serial)
         /\ e3 = Tagged(t48, alg) /\ e4 = Tagged(t48, name)
  BY TaggedIsElement
<1>10. PICK e5 \in Element, e7 \in Element, e8 \in Element :
         e5 = Tagged(t48, times) /\ e7 = Tagged(t48, key) /\ e8 = Tagged(t163, list)
  BY TaggedIsElement
<1>11. PICK elements, parts :
         /\ elements = <<e1, e2, e3, e4, e5, e4, e7, e8>>
         /\ parts = <<Encoded(e1), Encoded(e2), Encoded(e3), Encoded(e4),
                      Encoded(e5), Encoded(e4), Encoded(e7), Encoded(e8)>>
         /\ PartsOf(parts, elements)
  BY EightParts, Zenon
<1>12. PICK content \in Seq(Nat) : content = FlattenSeq(parts) /\ DerSequence(parts) = DerTagged(48, content)
  BY <1>11, SequenceOfParts
<1>13. Tbs(dnsNames, ipAddresses, validity, spki) = DerTagged(48, content)
  <2>0. 160 + 0 = 160 /\ 160 + 3 = 163
    OBVIOUS
  <2>1. Encoded(e1) = DerExplicitTagged(0, DerInteger(<<2>>))
    <3>1. Encoded(e1) = DerTagged(t160, version)
      BY <1>9, TaggedIsElement, Zenon
    <3> QED
      BY <1>1, <1>2, <1>3, <2>0, <3>1, Zenon DEF DerExplicitTagged
  <2>2. Encoded(e2) = DerInteger(<<1>>)
    BY <1>1, <1>2, <1>9, TaggedIsElement, Zenon
  <2>3. Encoded(e3) = SigAlg
    BY <1>1, <1>9, TaggedIsElement, Zenon DEF AlgorithmContent
  <2>4. Encoded(e4) = CertName
    BY <1>1, <1>5, <1>9, TaggedIsElement, Zenon
  <2>5. Encoded(e5)
          = DerSequence(<<DerGeneralizedTime(validity[1]), DerGeneralizedTime(validity[2])>>)
    BY <1>1, <1>6, <1>10, TaggedIsElement, Zenon DEF TimesContent
  <2>7. Encoded(e7) = spki
    BY <1>1, <1>10, TaggedIsElement, Zenon
  <2>8. Encoded(e8) = DerExplicitTagged(3, CertExtensions(dnsNames, ipAddresses))
    <3>1. Encoded(e8) = DerTagged(t163, list)
      BY <1>10, TaggedIsElement, Zenon
    <3>2. list = CertExtensions(dnsNames, ipAddresses)
      BY <1>1, <1>7, <1>8, Zenon DEF ExtensionsContent
    <3> QED
      BY <1>1, <2>0, <3>1, <3>2, Zenon DEF DerExplicitTagged
  <2>9. Tbs(dnsNames, ipAddresses, validity, spki) =
          DerSequence(<<DerExplicitTagged(0, DerInteger(<<2>>)), DerInteger(<<1>>), SigAlg, CertName,
                        DerSequence(<<DerGeneralizedTime(validity[1]),
                                      DerGeneralizedTime(validity[2])>>),
                        CertName, spki,
                        DerExplicitTagged(3, CertExtensions(dnsNames, ipAddresses))>>)
    BY Zenon DEF Tbs, CertName
  <2> QED
    BY <1>11, <1>12, <2>1, <2>2, <2>3, <2>4, <2>5, <2>7, <2>8, <2>9, Zenon
<1>14. ASSUME Len(content) < LengthRoom
       PROVE  TbsIsRead(content, dnsNames, ipAddresses, validity, spki, alg)
  <2>1. Holds(content, elements)
    BY <1>11, <1>12, <1>14, PartsAreHeld, Zenon
  <2>2. Len(elements) = 8
    BY <1>11
  <2>3. \A k \in 3 .. 8 : k \in 1 .. Len(elements)
    BY <2>2
  <2>4. /\ elements[3] = e3 /\ elements[4] = e4 /\ elements[5] = e5
        /\ elements[6] = e4 /\ elements[7] = e7 /\ elements[8] = e8
    BY <1>11
  <2>5. /\ 3 \in 1 .. Len(elements) /\ 4 \in 1 .. Len(elements) /\ 5 \in 1 .. Len(elements)
        /\ 6 \in 1 .. Len(elements) /\ 7 \in 1 .. Len(elements) /\ 8 \in 1 .. Len(elements)
    BY <2>2
  <2>6. FindsInside(content, 3, alg)
    BY <1>9, <2>1, <2>4, <2>5, HeldInside, Zenon
  <2>7. FindsInside(content, 4, name)
    BY <1>9, <2>1, <2>4, <2>5, HeldInside, Zenon
  <2>8. FindsInside(content, 5, times)
    BY <1>10, <2>1, <2>4, <2>5, HeldInside, Zenon
  <2>9. FindsInside(content, 6, name)
    BY <1>9, <2>1, <2>4, <2>5, HeldInside, Zenon
  <2>10. FindsInside(content, 7, key)
    BY <1>10, <2>1, <2>4, <2>5, HeldInside, Zenon
  <2>11. FindsInside(content, 8, list)
    BY <1>10, <2>1, <2>4, <2>5, HeldInside, Zenon
  <2>12. FindsInside(list, 1, exts)
    BY <1>8, <2>11, OneInside, Zenon DEF FindsInside, OnlyInside
  <2>13. Len(Elements(exts)) = 3 /\ SanIsRead(Inside(exts, 1), dnsNames, ipAddresses)
    BY <1>7, <2>12, Zenon DEF ExtensionsContent, FindsInside
  <2>14. Elements(times) = TaggedAll(24, validity)
    BY <1>6, <2>8, Zenon DEF TimesContent, FindsInside
  <2>15. ReadArcs(Inside(alg, 1)) = SubSeq(Oid.ecdsaWithSHA256, 3, 7)
    BY <2>6, Zenon DEF AlgorithmContent, FindsInside
  <2>16. /\ Inside(content, 3) = alg /\ Inside(content, 4) = name /\ Inside(content, 5) = times
         /\ Inside(content, 6) = name /\ Inside(content, 7) = key /\ Inside(content, 8) = list
         /\ Inside(list, 1) = exts
    BY <2>6, <2>7, <2>8, <2>9, <2>10, <2>11, <2>12, Zenon DEF FindsInside
  <2>17. Len(Elements(content)) = 8
    BY <2>1, <2>2, Zenon DEF Holds
  <2> QED
    BY <2>13, <2>14, <2>15, <2>16, <2>17, Zenon DEF TbsIsRead
<1> QED
  BY <1>13, <1>14, Zenon DEF TbsContent

(***************************************************************************)
(* The certificate: what is signed, the algorithm and the signature.       *)
(***************************************************************************)
CertificateIsRead(bytes, dnsNames, ipAddresses, validity, spki, signature) ==
    LET certificate == Inside(bytes, 1)
        tbs == Inside(certificate, 1)
    IN  /\ Len(Elements(bytes)) = 1
        /\ Len(Elements(certificate)) = 3
        /\ TbsIsRead(tbs, dnsNames, ipAddresses, validity, spki, Inside(certificate, 2))
        /\ Inside(certificate, 3) = <<0>> \o signature

LEMMA CertificateIsSound ==
  ASSUME NEW dnsNames \in Seq(Seq(Nat)), NEW ipAddresses \in Seq(Seq(Nat)),
         NEW validity \in Seq(Nat) \X Seq(Nat), NEW key \in Seq(Nat),
         NEW spki, spki = DerTagged(48, key), NEW signature \in Seq(Nat),
         NEW bytes, bytes = GenerateSelfSignedCert(dnsNames, ipAddresses, validity, spki, signature),
         Len(bytes) < LengthRoom
  PROVE  CertificateIsRead(bytes, dnsNames, ipAddresses, validity, spki, signature)
<1>1. PICK t3 \in Nat, t48 \in Nat : t3 = 3 /\ t48 = 48
  OBVIOUS
<1>2. PICK alg \in Seq(Nat) : AlgorithmContent(alg)
  BY AlgorithmReadsBack
<1>3. PICK tbs \in Seq(Nat) : TbsContent(tbs, dnsNames, ipAddresses, validity, spki, alg)
  BY <1>2, TbsReadsBack, Zenon
<1>4. PICK bits \in Seq(Nat) : bits = <<0>> \o signature
  <2>1. <<0>> \in Seq(Nat)
    OBVIOUS
  <2> QED
    BY <2>1, JoinIsSeq, Zenon DEF JoinsTo
<1>5. PICK d \in Element, e \in Element, f \in Element :
         d = Tagged(t48, tbs) /\ e = Tagged(t48, alg) /\ f = Tagged(t3, bits)
  BY TaggedIsElement
<1>6. PICK parts : parts = <<Encoded(d), Encoded(e), Encoded(f)>> /\ PartsOf(parts, <<d, e, f>>)
  BY ThreeParts, Zenon
<1>7. PICK content \in Seq(Nat) : content = FlattenSeq(parts) /\ DerSequence(parts) = DerTagged(48, content)
  BY <1>6, SequenceOfParts
<1>8. bytes = DerTagged(t48, content)
  <2>1. Encoded(d) = Tbs(dnsNames, ipAddresses, validity, spki)
    BY <1>1, <1>3, <1>5, TaggedIsElement, Zenon DEF TbsContent
  <2>2. Encoded(e) = SigAlg
    BY <1>1, <1>2, <1>5, TaggedIsElement, Zenon DEF AlgorithmContent
  <2>3. Encoded(f) = DerBitString(signature)
    BY <1>1, <1>4, <1>5, TaggedIsElement, Zenon DEF DerBitString
  <2> QED
    BY <1>1, <1>6, <1>7, <2>1, <2>2, <2>3, Zenon DEF GenerateSelfSignedCert
<1>9. FindsInside(bytes, 1, content) /\ Len(Elements(bytes)) = 1
  <2>1. bytes \in Seq(Nat)
    BY <1>8, DerTaggedIsSeq, Zenon
  <2> QED
    BY <1>8, OneInside, Zenon DEF OnlyInside
<1>10. Holds(content, <<d, e, f>>)
  BY <1>6, <1>7, <1>9, PartsAreHeld, Zenon DEF FindsInside
<1>11. /\ Len(<<d, e, f>>) = 3 /\ <<d, e, f>>[1] = d /\ <<d, e, f>>[2] = e /\ <<d, e, f>>[3] = f
       /\ 1 \in 1 .. Len(<<d, e, f>>) /\ 2 \in 1 .. Len(<<d, e, f>>) /\ 3 \in 1 .. Len(<<d, e, f>>)
  OBVIOUS
<1>12. FindsInside(content, 1, tbs)
  BY <1>5, <1>10, <1>11, HeldInside, Zenon
<1>13. FindsInside(content, 2, alg)
  BY <1>5, <1>10, <1>11, HeldInside, Zenon
<1>14. FindsInside(content, 3, bits)
  BY <1>5, <1>10, <1>11, HeldInside, Zenon
<1>15. Len(Elements(content)) = 3
  BY <1>10, <1>11, Zenon DEF Holds
<1>16. TbsIsRead(tbs, dnsNames, ipAddresses, validity, spki, alg)
  BY <1>3, <1>12, Zenon DEF TbsContent, FindsInside
<1>17. /\ Inside(bytes, 1) = content /\ Inside(content, 1) = tbs /\ Inside(content, 2) = alg
       /\ Inside(content, 3) = bits
  BY <1>9, <1>12, <1>13, <1>14, Zenon DEF FindsInside
<1> QED
  BY <1>4, <1>9, <1>15, <1>16, <1>17, Zenon DEF CertificateIsRead

(***************************************************************************)
(* What a call of the generator returns.                                   *)
(***************************************************************************)
CalledCertify ==
    call.function = "generateSelfSignedCert" =>
        LET s == call.subject
        IN  /\ s \in Subjects
            /\ result = GenerateSelfSignedCert(s.dnsNames, s.ipAddresses, s.validity, s.spki,
                                               s.signature)

(***************************************************************************)
(* A reader finds in every certificate what it was made of, for names and  *)
(* addresses in any number and of any length.                              *)
(***************************************************************************)
THEOREM CertificateAlwaysReadsBack == Spec => []CertificateReadsBack
<1>1. Init => CalledCertify
  BY DEF Init, CalledCertify
<1>2. CalledCertify /\ [Next]_suitesVars => CalledCertify'
  <2> SUFFICES ASSUME CalledCertify, [Next]_suitesVars PROVE CalledCertify'
    OBVIOUS
  <2>1. CASE Certify
    <3>1. PICK s \in Subjects :
             Returns([function |-> "generateSelfSignedCert", subject |-> s],
                     GenerateSelfSignedCert(s.dnsNames, s.ipAddresses, s.validity, s.spki,
                                            s.signature))
      BY <2>1 DEF Certify
    <3> QED
      BY <3>1 DEF Returns, CalledCertify
  <2>2. CASE CheckHttp1
    BY <2>2 DEF CheckHttp1, Returns, CalledCertify
  <2>3. CASE CheckHttp2
    BY <2>3 DEF CheckHttp2, Returns, CalledCertify
  <2>4. CASE FingerprintRequest
    BY <2>4 DEF FingerprintRequest, Returns, CalledCertify
  <2>5. CASE FingerprintConnection
    BY <2>5 DEF FingerprintConnection, Returns, CalledCertify
  <2>6. CASE Benchmark
    BY <2>6 DEF Benchmark, Returns, CalledCertify
  <2>7. CASE UNCHANGED suitesVars
    BY <2>7 DEF suitesVars, CalledCertify
  <2> QED
    BY <2>1, <2>2, <2>3, <2>4, <2>5, <2>6, <2>7 DEF Next
<1>3. CalledCertify => CertificateReadsBack
  <2> SUFFICES ASSUME CalledCertify, call.function = "generateSelfSignedCert"
               PROVE  CertificateReadsBack
    BY DEF CertificateReadsBack
  <2>1. PICK s \in Subjects :
           /\ s = call.subject
           /\ result = GenerateSelfSignedCert(s.dnsNames, s.ipAddresses, s.validity, s.spki,
                                              s.signature)
    BY DEF CalledCertify
  <2>2. /\ s.dnsNames \in Seq(Seq(Nat)) /\ s.ipAddresses \in Seq(Seq(Nat))
        /\ s.validity \in Seq(Nat) \X Seq(Nat)
        /\ s.spki \in Seq(Nat) /\ s.signature \in Seq(Nat)
        /\ Len(result) < LengthRoom
    <3>1. Len(result) < 65536
      <4>1. Len(GenerateSelfSignedCert(s.dnsNames, s.ipAddresses, s.validity, s.spki,
                                       s.signature)) < 65536
        BY SubjectAssumption
      <4> QED
        BY <2>1, <4>1
    <3>2. /\ s.dnsNames \in Seq(Seq(Nat)) /\ s.ipAddresses \in Seq(Seq(Nat))
          /\ s.validity \in Seq(Nat) \X Seq(Nat)
          /\ s.spki \in Seq(Nat) /\ s.signature \in Seq(Nat)
      BY SubjectAssumption
    <3> QED
      BY <3>1, <3>2 DEF LengthRoom
  <2>3. PICK n \in 1 .. Len(s.spki) : s.spki = DerTagged(48, SubSeq(s.spki, n + 1, Len(s.spki)))
    BY SubjectAssumption
  <2>4. PICK key \in Seq(Nat) : key = SubSeq(s.spki, n + 1, Len(s.spki))
    <3>1. SubSeq(s.spki, n + 1, Len(s.spki)) \in Seq(Nat)
      <4>1. PICK t \in Seq(Nat) : t = s.spki
        BY <2>2
      <4>2. \A k \in n + 1 .. Len(t) : t[k] \in Nat
        BY <2>3, <4>1
      <4>3. n + 1 \in Int /\ Len(t) \in Int
        BY <2>3
      <4>4. SubSeq(t, n + 1, Len(t)) \in Seq(Nat)
        BY <4>2, <4>3, SubSeqProperties
      <4> QED
        BY <4>1, <4>4, Zenon
    <3> QED
      BY <3>1, Zenon
  <2>5. CertificateIsRead(result, s.dnsNames, s.ipAddresses, s.validity, s.spki, s.signature)
    BY <2>1, <2>2, <2>3, <2>4, CertificateIsSound, Zenon
  <2> QED
    BY <2>1, <2>5, Zenon DEF CertificateReadsBack, CertificateIsRead, TbsIsRead, SanIsRead,
                             SanElements, TaggedAll
<1> QED
  BY <1>1, <1>2, <1>3, PTL DEF Spec

-----------------------------------------------------------------------------
(***************************************************************************)
(* How often a value is in an array.  Arrays have the same bag if each     *)
(* value is in them equally often.                                         *)
(***************************************************************************)
PlacesOf(s, v) == {i \in DOMAIN s : s[i] = v}

Count(s, v) == Cardinality(PlacesOf(s, v))

SameCounts(s, t) == \A v : Count(s, v) = Count(t, v)

LEMMA CountIsNat ==
  ASSUME NEW S, NEW s \in Seq(S), NEW v
  PROVE  /\ IsFiniteSet(PlacesOf(s, v)) /\ Count(s, v) \in Nat
         /\ Count(s, v) = 0 <=> PlacesOf(s, v) = {}
<1>1. DOMAIN s = 1 .. Len(s) /\ Len(s) \in Int
  OBVIOUS
<1>2. IsFiniteSet(DOMAIN s)
  BY <1>1, FS_Interval
<1>3. PlacesOf(s, v) \subseteq DOMAIN s
  BY DEF PlacesOf
<1>4. IsFiniteSet(PlacesOf(s, v))
  BY <1>2, <1>3, FS_Subset
<1>5. Cardinality(PlacesOf(s, v)) \in Nat
  BY <1>4, FS_CardinalityType
<1>6. Cardinality(PlacesOf(s, v)) = 0 <=> PlacesOf(s, v) = {}
  BY <1>4, FS_EmptySet
<1> QED
  BY <1>4, <1>5, <1>6, Zenon DEF Count

LEMMA BagsAreCounts ==
  ASSUME NEW S, NEW s \in Seq(S), NEW t \in Seq(S)
  PROVE  ToBag(s) = ToBag(t) <=> SameCounts(s, t)
<1>1. \A x : /\ (x \in Range(s) <=> Count(s, x) # 0)
              /\ (x \in Range(t) <=> Count(t, x) # 0)
  <2> SUFFICES ASSUME NEW x
               PROVE  /\ (x \in Range(s) <=> Count(s, x) # 0)
                      /\ (x \in Range(t) <=> Count(t, x) # 0)
    OBVIOUS
  <2>1. /\ (PlacesOf(s, x) # {} <=> Count(s, x) # 0)
        /\ (PlacesOf(t, x) # {} <=> Count(t, x) # 0)
    BY CountIsNat, Zenon
  <2>2. x \in Range(s) <=> PlacesOf(s, x) # {}
    BY DEF Range, PlacesOf
  <2>3. x \in Range(t) <=> PlacesOf(t, x) # {}
    BY DEF Range, PlacesOf
  <2> QED
    BY <2>1, <2>2, <2>3, Zenon
<1>2. Range(s) \subseteq S /\ Range(t) \subseteq S
  BY DEF Range
<1>3. /\ ToBag(s) = [x \in Range(s) |-> Count(s, x)]
      /\ ToBag(t) = [x \in Range(t) |-> Count(t, x)]
  BY Zenon DEF ToBag, Count, PlacesOf
<1>4. ASSUME ToBag(s) = ToBag(t) PROVE SameCounts(s, t)
  <2> SUFFICES ASSUME NEW v PROVE Count(s, v) = Count(t, v)
    BY DEF SameCounts
  <2>1. Range(s) = Range(t)
    BY <1>3, <1>4, Zenon
  <2>2. CASE v \in Range(s)
    BY <1>3, <1>4, <2>1, <2>2, Zenon
  <2>3. CASE v \notin Range(s)
    BY <1>1, <2>1, <2>3, Zenon
  <2> QED
    BY <2>2, <2>3, Zenon
<1>5. ASSUME SameCounts(s, t) PROVE ToBag(s) = ToBag(t)
  <2>1. \A x : Count(s, x) = Count(t, x)
    BY <1>5, Zenon DEF SameCounts
  <2>2. Range(s) = Range(t)
    BY <1>1, <1>2, <2>1, Zenon
  <2>3. \A x \in Range(s) : Count(s, x) = Count(t, x)
    BY <1>2, <2>1, Zenon
  <2> QED
    BY <1>3, <2>2, <2>3, Zenon
<1> QED
  BY <1>4, <1>5, Zenon

(***************************************************************************)
(* Sorting changes the places only.                                        *)
(***************************************************************************)
Permutes(order, n) ==
    /\ order \in [1 .. n -> 1 .. n]
    /\ \A k \in 1 .. n : \E i \in 1 .. n : order[i] = k
    /\ \A i, j \in 1 .. n : order[i] = order[j] => i = j

LEMMA PermutedCounts ==
  ASSUME NEW S, NEW s \in Seq(S), NEW t \in Seq(S), NEW n \in Nat, Len(s) = n, Len(t) = n,
         NEW order, Permutes(order, n), \A i \in 1 .. n : t[i] = s[order[i]]
  PROVE  SameCounts(s, t)
<1> SUFFICES ASSUME NEW v PROVE Count(s, v) = Count(t, v)
  BY DEF SameCounts
<1>1. /\ PlacesOf(s, v) = {i \in 1 .. n : s[i] = v}
      /\ PlacesOf(t, v) = {i \in 1 .. n : t[i] = v}
  BY DEF PlacesOf
<1> DEFINE f == [i \in PlacesOf(t, v) |-> order[i]]
<1>2. f \in Bijection(PlacesOf(t, v), PlacesOf(s, v))
  <2>1. ASSUME NEW i \in PlacesOf(t, v) PROVE f[i] = order[i] /\ f[i] \in PlacesOf(s, v)
    BY <1>1, <2>1, Zenon DEF Permutes
  <2>2. ASSUME NEW i \in PlacesOf(t, v), NEW j \in PlacesOf(t, v), f[i] = f[j] PROVE i = j
    BY <1>1, <2>1, <2>2, Zenon DEF Permutes
  <2>3. ASSUME NEW k \in PlacesOf(s, v) PROVE \E i \in PlacesOf(t, v) : f[i] = k
    <3>1. PICK i \in 1 .. n : order[i] = k
      BY <1>1, <2>3, Zenon DEF Permutes
    <3>2. i \in PlacesOf(t, v)
      BY <1>1, <2>3, <3>1, Zenon
    <3> QED
      BY <2>1, <3>1, <3>2, Zenon
  <2>4. f \in [PlacesOf(t, v) -> PlacesOf(s, v)]
    BY <2>1
  <2> HIDE DEF f
  <2> QED
    BY <2>2, <2>3, <2>4, Zenon DEF Bijection, Injection, IsInjective, Surjection
<1>3. IsFiniteSet(PlacesOf(t, v))
  BY CountIsNat, Zenon
<1> HIDE DEF f
<1> QED
  BY <1>2, <1>3, FS_Bijection, Zenon DEF Count, ExistsBijection

(***************************************************************************)
(* What a filter leaves: everything but one value, equally often.          *)
(***************************************************************************)
LEMMA CountAppend ==
  ASSUME NEW S, NEW s \in Seq(S), NEW x \in S, NEW v
  PROVE  Count(Append(s, x), v) = IF x = v THEN Count(s, v) + 1 ELSE Count(s, v)
<1>1. PICK n \in Nat : n = Len(s) /\ DOMAIN s = 1 .. n
  OBVIOUS
<1>2. PICK t \in Seq(S) : /\ t = Append(s, x) /\ DOMAIN t = 1 .. n + 1
                            /\ t[n + 1] = x /\ \A i \in 1 .. n : t[i] = s[i]
  <2>1. /\ Append(s, x) \in Seq(S) /\ Len(Append(s, x)) = n + 1
        /\ Append(s, x)[n + 1] = x /\ \A i \in 1 .. n : Append(s, x)[i] = s[i]
    BY <1>1, AppendProperties
  <2>2. DOMAIN Append(s, x) = 1 .. n + 1
    BY <2>1
  <2> QED
    BY <2>1, <2>2, Zenon
<1>3. \A i \in 1 .. n + 1 : i \in 1 .. n \/ i = n + 1
  OBVIOUS
<1>4. n + 1 \in 1 .. n + 1 /\ n + 1 \notin 1 .. n /\ 1 .. n \subseteq 1 .. n + 1
  OBVIOUS
<1>5. CASE x = v
  <2>1. PlacesOf(t, v) = PlacesOf(s, v) \cup {n + 1}
    BY <1>1, <1>2, <1>3, <1>4, <1>5, Zenon DEF PlacesOf
  <2>2. n + 1 \notin PlacesOf(s, v)
    BY <1>1, <1>4, Zenon DEF PlacesOf
  <2>3. IsFiniteSet(PlacesOf(s, v))
    BY CountIsNat, Zenon
  <2>4. Cardinality(PlacesOf(s, v) \cup {n + 1}) = Cardinality(PlacesOf(s, v)) + 1
    BY <2>2, <2>3, FS_AddElement
  <2> QED
    BY <1>2, <1>5, <2>1, <2>4, Zenon DEF Count
<1>6. CASE x # v
  <2>1. PlacesOf(t, v) = PlacesOf(s, v)
    BY <1>1, <1>2, <1>3, <1>4, <1>6, Zenon DEF PlacesOf
  <2> QED
    BY <1>2, <1>6, <2>1, Zenon DEF Count
<1> QED
  BY <1>5, <1>6, Zenon

Kept(list, item) == [i \in DOMAIN list |-> IF list[i] = item THEN <<>> ELSE <<list[i]>>]

LEMMA KeptAppend ==
  ASSUME NEW S, NEW s \in Seq(S), NEW x \in S, NEW item
  PROVE  /\ Kept(s, item) \in Seq(Seq(S))
         /\ Kept(Append(s, x), item)
              = Append(Kept(s, item), IF x = item THEN <<>> ELSE <<x>>)
<1>1. PICK n \in Nat : n = Len(s) /\ DOMAIN s = 1 .. n
  OBVIOUS
<1>2. PICK t \in Seq(S) : /\ t = Append(s, x) /\ DOMAIN t = 1 .. n + 1
                            /\ t[n + 1] = x /\ \A i \in 1 .. n : t[i] = s[i]
  <2>1. /\ Append(s, x) \in Seq(S) /\ Len(Append(s, x)) = n + 1
        /\ Append(s, x)[n + 1] = x /\ \A i \in 1 .. n : Append(s, x)[i] = s[i]
    BY <1>1, AppendProperties
  <2>2. DOMAIN Append(s, x) = 1 .. n + 1
    BY <2>1
  <2> QED
    BY <2>1, <2>2, Zenon
<1>3. \A y \in S : (IF y = item THEN <<>> ELSE <<y>>) \in Seq(S)
  OBVIOUS
<1>4. PICK g : g = Kept(t, item)
  OBVIOUS
<1>5. PICK f : f = Kept(s, item)
  OBVIOUS
<1>6. /\ g \in [1 .. n + 1 -> Seq(S)]
      /\ \A i \in 1 .. n + 1 : g[i] = IF t[i] = item THEN <<>> ELSE <<t[i]>>
  <2>1. g = [i \in 1 .. n + 1 |-> IF t[i] = item THEN <<>> ELSE <<t[i]>>]
    BY <1>2, <1>4, Zenon DEF Kept
  <2>2. \A i \in 1 .. n + 1 : t[i] \in S
    BY <1>2
  <2>3. \A i \in 1 .. n + 1 : (IF t[i] = item THEN <<>> ELSE <<t[i]>>) \in Seq(S)
    BY <1>3, <2>2, Zenon
  <2> QED
    BY <2>1, <2>3, Zenon
<1>7. /\ f \in [1 .. n -> Seq(S)]
      /\ \A i \in 1 .. n : f[i] = IF s[i] = item THEN <<>> ELSE <<s[i]>>
  <2>1. f = [i \in 1 .. n |-> IF s[i] = item THEN <<>> ELSE <<s[i]>>]
    BY <1>1, <1>5, Zenon DEF Kept
  <2>2. \A i \in 1 .. n : s[i] \in S
    BY <1>1
  <2>3. \A i \in 1 .. n : (IF s[i] = item THEN <<>> ELSE <<s[i]>>) \in Seq(S)
    BY <1>3, <2>2, Zenon
  <2> QED
    BY <2>1, <2>3, Zenon
<1>8. PICK y \in Seq(S) : y = IF x = item THEN <<>> ELSE <<x>>
  BY <1>3, Zenon
<1>9. f \in Seq(Seq(S)) /\ Len(f) = n /\ g \in Seq(Seq(S)) /\ Len(g) = n + 1
  BY <1>6, <1>7, LenProperties, IsASeq
<1>10. g[n + 1] = y /\ \A i \in 1 .. n : g[i] = f[i]
  <2>1. n + 1 \in 1 .. n + 1 /\ 1 .. n \subseteq 1 .. n + 1
    OBVIOUS
  <2> QED
    BY <1>2, <1>6, <1>7, <1>8, <2>1, Zenon
<1>11. g = Append(f, y)
  BY <1>9, <1>10, AppendIsEqual, Zenon
<1> QED
  BY <1>2, <1>4, <1>5, <1>8, <1>9, <1>11, Zenon

FiltersOut(t, s, item, S) ==
    /\ t \in Seq(S)
    /\ \A v : Count(t, v) = IF v = item THEN 0 ELSE Count(s, v)
    /\ Len(s) = Len(t) + Count(s, item)

LEMMA WithoutFilters ==
  ASSUME NEW S, NEW s \in Seq(S), NEW item
  PROVE  FiltersOut(Without(s, item), s, item, S)
<1> DEFINE A == {n \in Nat : \A r \in Seq(S) :
                     Len(r) = n => FiltersOut(FlattenSeq(Kept(r, item)), r, item, S)}
<1>1. 0 \in A
  <2> SUFFICES ASSUME NEW r \in Seq(S), Len(r) = 0
               PROVE  FiltersOut(FlattenSeq(Kept(r, item)), r, item, S)
    OBVIOUS
  <2>1. r = <<>>
    OBVIOUS
  <2>2. Kept(r, item) = <<>>
    BY <2>1 DEF Kept
  <2>3. FlattenSeq(Kept(r, item)) = r
    BY <2>1, <2>2, FlattenEmpty, Zenon
  <2>4. \A v : Count(r, v) = 0
    <3> SUFFICES ASSUME NEW v PROVE Count(r, v) = 0
      OBVIOUS
    <3>1. PlacesOf(r, v) = {}
      BY <2>1 DEF PlacesOf
    <3> QED
      BY <3>1, CountIsNat, Zenon
  <2>5. Len(r) = Len(r) + Count(r, item)
    BY <2>4
  <2> QED
    BY <2>3, <2>4, <2>5, Zenon DEF FiltersOut
<1>2. ASSUME NEW n \in Nat, n \in A PROVE n + 1 \in A
  <2> SUFFICES ASSUME NEW r \in Seq(S), Len(r) = n + 1
               PROVE  FiltersOut(FlattenSeq(Kept(r, item)), r, item, S)
    OBVIOUS
  <2>1. PICK q \in Seq(S), x \in S : r = Append(q, x) /\ Len(q) = n
    <3>1. PICK q \in Seq(S) : Len(q) = n /\ \A i \in 1 .. n : q[i] = r[i]
      <4>1. [i \in 1 .. n |-> r[i]] \in [1 .. n -> S]
        OBVIOUS
      <4>2. /\ [i \in 1 .. n |-> r[i]] \in Seq(S) /\ Len([i \in 1 .. n |-> r[i]]) = n
            /\ \A j \in 1 .. n : [i \in 1 .. n |-> r[i]][j] = r[j]
        BY <4>1, LenProperties, IsASeq
      <4> QED
        BY <4>2, Zenon
    <3>2. PICK x \in S : x = r[n + 1]
      OBVIOUS
    <3>3. r = Append(q, x)
      BY <3>1, <3>2, AppendIsEqual
    <3> QED
      BY <3>1, <3>3, Zenon
  <2>2. PICK t \in Seq(S) : t = FlattenSeq(Kept(q, item))
    BY <2>1, KeptAppend, FlattenIsSeq, Zenon
  <2>3. FiltersOut(t, q, item, S)
    BY <1>2, <2>1, <2>2, Zenon
  <2>4. PICK y \in Seq(S) : y = IF x = item THEN <<>> ELSE <<x>>
    <3>1. (IF x = item THEN <<>> ELSE <<x>>) \in Seq(S)
      <4>1. <<>> \in Seq(S) /\ <<x>> \in Seq(S)
        OBVIOUS
      <4> QED
        BY <4>1, Zenon
    <3> QED
      BY <3>1, Zenon
  <2>5. FlattenSeq(Kept(r, item)) = t \o y
    <3>1. Kept(q, item) \in Seq(Seq(S)) /\ Kept(r, item) = Append(Kept(q, item), y)
      <4>1. /\ Kept(q, item) \in Seq(Seq(S))
            /\ Kept(Append(q, x), item)
                 = Append(Kept(q, item), IF x = item THEN <<>> ELSE <<x>>)
        BY KeptAppend
      <4> QED
        BY <2>1, <2>4, <4>1, Zenon
    <3>2. FlattenSeq(Append(Kept(q, item), y)) = FlattenSeq(Kept(q, item)) \o y
      BY <3>1, FlattenAppend
    <3> QED
      BY <2>2, <3>1, <3>2, Zenon
  <2>6. Len(r) = Len(q) + 1 /\ Len(q) \in Nat /\ Len(t) \in Nat /\ Count(q, item) \in Nat
    <3>1. Len(r) = Len(q) + 1
      BY <2>1
    <3>2. Len(q) \in Nat /\ Len(t) \in Nat
      BY LenProperties
    <3>3. Count(q, item) \in Nat
      BY CountIsNat, Zenon
    <3> QED
      BY <3>1, <3>2, <3>3
  <2>7. \A v : Count(r, v) = IF x = v THEN Count(q, v) + 1 ELSE Count(q, v)
    <3>1. \A v : Count(Append(q, x), v) = IF x = v THEN Count(q, v) + 1 ELSE Count(q, v)
      BY CountAppend
    <3> QED
      BY <2>1, <3>1, Zenon
  <2>8. CASE x = item
    <3>1. t \o y = t
      BY <2>4, <2>8, ConcatEmptySeq, Zenon
    <3>2. Len(r) = Len(t) + Count(r, item)
      BY <2>3, <2>6, <2>7, <2>8 DEF FiltersOut
    <3>3. \A v : Count(t, v) = IF v = item THEN 0 ELSE Count(r, v)
      BY <2>3, <2>7, <2>8, Zenon DEF FiltersOut
    <3> QED
      BY <2>5, <3>1, <3>2, <3>3, Zenon DEF FiltersOut
  <2>9. CASE x # item
    <3>1. t \o y = Append(t, x)
      BY <2>4, <2>9, AppendIsConcat, Zenon
    <3>2. Append(t, x) \in Seq(S) /\ Len(Append(t, x)) = Len(t) + 1
      BY AppendProperties
    <3>3. \A v : Count(Append(t, x), v) = IF x = v THEN Count(t, v) + 1 ELSE Count(t, v)
      BY CountAppend, Zenon
    <3>4. Len(r) = Len(Append(t, x)) + Count(r, item)
      BY <2>3, <2>6, <2>7, <2>9, <3>2 DEF FiltersOut
    <3>5. \A v : Count(Append(t, x), v) = IF v = item THEN 0 ELSE Count(r, v)
      BY <2>3, <2>7, <2>9, <3>3, Zenon DEF FiltersOut
    <3> QED
      BY <2>5, <3>1, <3>2, <3>4, <3>5, Zenon DEF FiltersOut
  <2> QED
    BY <2>8, <2>9, Zenon
<1>3. \A n \in Nat : n \in A
  <2> HIDE DEF A
  <2> QED
    BY <1>1, <1>2, SetInduction
<1>4. PICK n \in Nat : n = Len(s)
  OBVIOUS
<1>5. n \in A
  <2> HIDE DEF A
  <2> QED
    BY <1>3
<1>6. FiltersOut(FlattenSeq(Kept(s, item)), s, item, S)
  BY <1>4, <1>5, Zenon
<1> QED
  BY <1>6, Zenon DEF Without, Kept

(***************************************************************************)
(* Strings are in a strict order, in which any two are comparable.         *)
(***************************************************************************)
Text == Seq(Nat)

LEMMA BeforeIsStrict ==
  ASSUME NEW s \in Text
  PROVE  ~Before(s, s)
<1> SUFFICES ASSUME Before(s, s) PROVE FALSE
  OBVIOUS
<1>1. PICK k \in 0 .. Len(s) : k < Len(s) /\ (k < Len(s) => s[k + 1] < s[k + 1])
  BY Zenon DEF Before
<1>2. s[k + 1] \in Nat
  BY <1>1 DEF Text
<1> QED
  BY <1>1, <1>2

\* They agree in front of the place behind k, where the first one is smaller or ends.
PartsAt(s, t, k) ==
    /\ k <= Len(s) /\ k < Len(t)
    /\ \A j \in 1 .. k : s[j] = t[j]
    /\ k < Len(s) => s[k + 1] < t[k + 1]

LEMMA BeforeParts ==
  ASSUME NEW s \in Text, NEW t \in Text
  PROVE  Before(s, t) <=> \E k \in Nat : PartsAt(s, t, k)
BY DEF Before, PartsAt, Text

LEMMA BeforeChains ==
  ASSUME NEW s \in Text, NEW t \in Text, NEW u \in Text, Before(s, t), Before(t, u)
  PROVE  Before(s, u)
<1>1. PICK k \in Nat : PartsAt(s, t, k)
  BY BeforeParts
<1>2. PICK m \in Nat : PartsAt(t, u, m)
  BY BeforeParts
<1>3. PICK a \in Nat, b \in Nat, c \in Nat : a = Len(s) /\ b = Len(t) /\ c = Len(u)
  BY DEF Text
<1>4. /\ \A j \in 1 .. a : s[j] \in Nat
      /\ \A j \in 1 .. b : t[j] \in Nat
      /\ \A j \in 1 .. c : u[j] \in Nat
  BY <1>3 DEF Text
<1>5. CASE k < m
  <2>1. k <= a /\ k < c /\ k + 1 \in 1 .. m /\ k < b
    BY <1>1, <1>2, <1>3, <1>5 DEF PartsAt
  <2>2. \A j \in 1 .. k : s[j] = u[j]
    BY <1>1, <1>2, <1>5 DEF PartsAt
  <2>3. t[k + 1] = u[k + 1]
    BY <1>2, <2>1, Zenon DEF PartsAt
  <2>4. k < a => s[k + 1] < u[k + 1]
    BY <1>1, <1>3, <2>1, <2>3, Zenon DEF PartsAt
  <2>5. PartsAt(s, u, k)
    BY <1>3, <2>1, <2>2, <2>4, Zenon DEF PartsAt
  <2> QED
    BY <2>5, BeforeParts
<1>6. CASE k = m
  <2>1. k <= a /\ k < c /\ k < b
    BY <1>1, <1>2, <1>3, <1>6 DEF PartsAt
  <2>2. \A j \in 1 .. k : s[j] = u[j]
    BY <1>1, <1>2, <1>6 DEF PartsAt
  <2>3. t[k + 1] < u[k + 1]
    BY <1>2, <1>3, <1>6, <2>1, Zenon DEF PartsAt
  <2>4. k < a => s[k + 1] < t[k + 1]
    BY <1>1, <1>3, Zenon DEF PartsAt
  <2>5. k < a => s[k + 1] < u[k + 1]
    <3>1. /\ t[k + 1] \in Nat /\ u[k + 1] \in Nat
          /\ k < a => s[k + 1] \in Nat
      BY <1>3, <1>4, <2>1
    <3> QED
      BY <2>3, <2>4, <3>1
  <2>6. PartsAt(s, u, k)
    BY <1>3, <2>1, <2>2, <2>5, Zenon DEF PartsAt
  <2> QED
    BY <2>6, BeforeParts
<1>7. CASE m < k
  <2>1. m < a /\ m < c /\ m + 1 \in 1 .. k /\ m < b
    BY <1>1, <1>2, <1>3, <1>7 DEF PartsAt
  <2>2. \A j \in 1 .. m : s[j] = u[j]
    BY <1>1, <1>2, <1>7 DEF PartsAt
  <2>3. s[m + 1] = t[m + 1]
    BY <1>1, <2>1, Zenon DEF PartsAt
  <2>4. t[m + 1] < u[m + 1]
    BY <1>2, <1>3, <2>1, Zenon DEF PartsAt
  <2>5. PartsAt(s, u, m)
    BY <1>3, <2>1, <2>2, <2>3, <2>4 DEF PartsAt
  <2> QED
    BY <2>5, BeforeParts
<1> QED
  BY <1>5, <1>6, <1>7

AgreeUpTo(s, t, k) == \A j \in 1 .. k : s[j] = t[j]

LEMMA BeforeIsTotal ==
  ASSUME NEW s \in Text, NEW t \in Text, ~Before(s, t), ~Before(t, s)
  PROVE  s = t
<1>1. PICK n \in Nat, m \in Nat : n = Len(s) /\ m = Len(t)
  BY DEF Text
<1>2. \A k \in Nat : ~PartsAt(s, t, k) /\ ~PartsAt(t, s, k)
  BY BeforeParts
<1>3. ASSUME NEW k \in Nat, k <= n, k <= m, AgreeUpTo(s, t, k)
      PROVE  /\ k + 1 <= n <=> k + 1 <= m
             /\ k + 1 <= n => s[k + 1] = t[k + 1]
  <2>1. ~PartsAt(s, t, k) /\ ~PartsAt(t, s, k)
    BY <1>2
  <2>2. /\ k + 1 <= n => s[k + 1] \in Nat
        /\ k + 1 <= m => t[k + 1] \in Nat
    BY <1>1 DEF Text
  <2>3. ~(k < m /\ (k < n => s[k + 1] < t[k + 1]))
    BY <1>1, <1>3, <2>1, Zenon DEF PartsAt, AgreeUpTo
  <2>4. ~(k < n /\ (k < m => t[k + 1] < s[k + 1]))
    BY <1>1, <1>3, <2>1, Zenon DEF PartsAt, AgreeUpTo
  <2> QED
    BY <2>2, <2>3, <2>4
<1> DEFINE A == {k \in Nat : k <= n => k <= m /\ AgreeUpTo(s, t, k)}
<1>4. 0 \in A
  BY DEF AgreeUpTo
<1>5. ASSUME NEW k \in Nat, k \in A PROVE k + 1 \in A
  <2> SUFFICES ASSUME k + 1 <= n PROVE k + 1 <= m /\ AgreeUpTo(s, t, k + 1)
    OBVIOUS
  <2>1. k <= n
    OBVIOUS
  <2>2. k <= m /\ AgreeUpTo(s, t, k)
    BY <1>5, <2>1
  <2>3. k + 1 <= m /\ s[k + 1] = t[k + 1]
    BY <1>3, <2>1, <2>2, Zenon
  <2>4. \A j \in 1 .. k + 1 : j = k + 1 \/ j \in 1 .. k
    OBVIOUS
  <2> QED
    BY <2>2, <2>3, <2>4, Zenon DEF AgreeUpTo
<1>6. \A k \in Nat : k \in A
  <2> HIDE DEF A
  <2> QED
    BY <1>4, <1>5, SetInduction
<1>7. n <= m /\ AgreeUpTo(s, t, n)
  <2>1. n \in A
    BY <1>6
  <2> QED
    BY <2>1
<1>8. n = m
  BY <1>3, <1>7
<1> QED
  BY <1>1, <1>7, <1>8, SeqEqual DEF AgreeUpTo, Text

(***************************************************************************)
(* Fewer strings of an array come before a string than before a later one, *)
(* so sorting by that number sorts the strings.                            *)
(***************************************************************************)
LEMMA EarlierGrows ==
  ASSUME NEW s \in Seq(Text), NEW i \in 1 .. Len(s), NEW j \in 1 .. Len(s), Before(s[i], s[j])
  PROVE  Earlier(s, i) < Earlier(s, j)
<1>1. PICK n \in Nat : n = Len(s) /\ DOMAIN s = 1 .. n
  OBVIOUS
<1>2. \A k \in 1 .. n : s[k] \in Text
  BY <1>1
<1> DEFINE E(k) == {l \in DOMAIN s : Before(s[l], s[k])}
<1>3. E(i) \cup {i} \subseteq E(j) /\ i \notin E(i)
  BY <1>1, <1>2, BeforeChains, BeforeIsStrict, Zenon
<1>4. IsFiniteSet(E(i)) /\ IsFiniteSet(E(j))
  <2>1. IsFiniteSet(1 .. n)
    BY FS_Interval
  <2>2. E(i) \in SUBSET (1 .. n) /\ E(j) \in SUBSET (1 .. n)
    BY <1>1
  <2> HIDE DEF E
  <2> QED
    BY <2>1, <2>2, FS_Subset
<1>5. Earlier(s, i) = Cardinality(E(i)) /\ Earlier(s, j) = Cardinality(E(j))
  BY Zenon DEF Earlier
<1> HIDE DEF E
<1>6. Cardinality(E(i) \cup {i}) = Cardinality(E(i)) + 1
  BY <1>3, <1>4, FS_AddElement
<1>7. Cardinality(E(i) \cup {i}) <= Cardinality(E(j))
  <2>1. PICK more : more = E(i) \cup {i} /\ more \in SUBSET E(j)
    BY <1>3, Zenon
  <2>2. Cardinality(more) <= Cardinality(E(j))
    BY <1>4, <2>1, FS_Subset
  <2> QED
    BY <2>1, <2>2, Zenon
<1>8. Cardinality(E(i)) \in Nat /\ Cardinality(E(j)) \in Nat
  BY <1>4, FS_CardinalityType
<1> QED
  BY <1>5, <1>6, <1>7, <1>8

InOrder(s) == \A i, j \in DOMAIN s : i <= j => ~Before(s[j], s[i])

\* What sort() makes of an array, with the places it takes the elements from.
SortedFrom(t, s, order) ==
    /\ t \in Seq(Text) /\ Len(t) = Len(s) /\ InOrder(t)
    /\ Permutes(order, Len(s)) /\ \A i \in 1 .. Len(s) : t[i] = s[order[i]]

LEMMA StringOrderSorts ==
  ASSUME NEW s \in Seq(Text)
  PROVE  \E order : SortedFrom(InStringOrder(s), s, order)
<1>1. PICK n \in Nat : n = Len(s) /\ DOMAIN s = 1 .. n
  OBVIOUS
<1>2. PICK key : key = [k \in DOMAIN s |-> Earlier(s, k)]
  OBVIOUS
<1>3. key \in [1 .. n -> Int] /\ \A k \in 1 .. n : key[k] = Earlier(s, k)
  <2>1. ASSUME NEW k \in 1 .. n PROVE Earlier(s, k) \in Int
    <3>1. PICK E : E = {l \in DOMAIN s : Before(s[l], s[k])}
      OBVIOUS
    <3>2. IsFiniteSet(1 .. n) /\ E \in SUBSET (1 .. n)
      BY <1>1, <3>1, FS_Interval
    <3>3. Cardinality(E) \in Nat
      BY <3>2, FS_Subset, FS_CardinalityType
    <3>4. Earlier(s, k) = Cardinality(E)
      BY <3>1, Zenon DEF Earlier
    <3> QED
      BY <3>3, <3>4
  <2>2. key = [k \in 1 .. n |-> Earlier(s, k)]
    BY <1>1, <1>2, Zenon
  <2> QED
    BY <2>1, <2>2, Zenon
<1>4. PICK order : order = SortingOrder(key)
  OBVIOUS
<1>5. Sorts(order, key, n)
  BY <1>3, <1>4, SortingOrderSorts, Zenon
<1>6. Permutes(order, n) /\ \A i \in 1 .. n : order[i] \in 1 .. n
  BY <1>5, Zenon DEF Sorts, Permutes
<1>7. PICK t : t = InStringOrder(s)
  OBVIOUS
<1>8. t = [i \in 1 .. n |-> s[order[i]]]
  BY <1>1, <1>2, <1>4, <1>7, Zenon DEF InStringOrder
<1>9. t \in [1 .. n -> Text] /\ \A i \in 1 .. n : t[i] = s[order[i]]
  <2>1. \A i \in 1 .. n : t[i] = s[order[i]]
    BY <1>8, Zenon
  <2>2. \A k \in 1 .. n : s[k] \in Text
    BY <1>1
  <2>3. \A i \in 1 .. n : s[order[i]] \in Text
    BY <1>6, <2>2, Zenon
  <2> QED
    BY <1>8, <2>1, <2>3, Zenon
<1>10. t \in Seq(Text) /\ Len(t) = n /\ DOMAIN t = 1 .. n
  BY <1>9, LenProperties, IsASeq
<1>11. InOrder(t)
  <2> SUFFICES ASSUME NEW i \in 1 .. n, NEW j \in 1 .. n, i <= j, Before(t[j], t[i])
               PROVE  FALSE
    BY <1>10, Zenon DEF InOrder
  <2>1. key[order[i]] <= key[order[j]]
    BY <1>5, Zenon DEF Sorts
  <2>2. PICK oi \in 1 .. n, oj \in 1 .. n : oi = order[i] /\ oj = order[j]
    BY <1>6, Zenon
  <2>3. Before(s[oj], s[oi])
    BY <1>9, <2>2, Zenon
  <2>4. Earlier(s, oj) < Earlier(s, oi)
    BY <1>1, <2>3, EarlierGrows
  <2>5. key[oi] \in Int /\ key[oj] \in Int /\ key[oi] = Earlier(s, oi) /\ key[oj] = Earlier(s, oj)
    BY <1>3
  <2> QED
    BY <2>1, <2>2, <2>4, <2>5
<1> QED
  BY <1>1, <1>6, <1>7, <1>9, <1>10, <1>11, Zenon DEF SortedFrom

(***************************************************************************)
(* Sorted arrays with the same counts are one: where they part, the string *)
(* that comes before the other is in one of the arrays once more.          *)
(***************************************************************************)
LEMMA EarlierIsCountedMore ==
  ASSUME NEW s \in Seq(Text), NEW t \in Seq(Text), InOrder(s), InOrder(t), NEW k \in Nat,
         k <= Len(s), k + 1 <= Len(t), AgreeUpTo(s, t, k),
         k + 1 <= Len(s) => Before(t[k + 1], s[k + 1])
  PROVE  ~SameCounts(s, t)
<1>1. PICK n \in Nat, m \in Nat : n = Len(s) /\ m = Len(t) /\ DOMAIN s = 1 .. n /\ DOMAIN t = 1 .. m
  OBVIOUS
<1>2. PICK v \in Text : v = t[k + 1]
  BY <1>1
<1> DEFINE front == {i \in 1 .. k : t[i] = v}
<1>3. PlacesOf(s, v) \subseteq front
  <2> SUFFICES ASSUME NEW i \in 1 .. n, s[i] = v PROVE i \in front
    BY <1>1 DEF PlacesOf
  <2>1. i <= k
    <3> SUFFICES ASSUME ~(i <= k) PROVE FALSE
      OBVIOUS
    <3>1. k + 1 \in 1 .. n /\ k + 1 <= i
      OBVIOUS
    <3>2. ~Before(s[i], s[k + 1])
      BY <1>1, <3>1, Zenon DEF InOrder
    <3>3. Before(v, s[k + 1])
      BY <1>1, <1>2, <3>1
    <3> QED
      BY <3>2, <3>3, Zenon
  <2>2. i \in 1 .. k
    BY <2>1
  <2> QED
    BY <2>2, Zenon DEF AgreeUpTo
<1>4. front \cup {k + 1} \subseteq PlacesOf(t, v) /\ k + 1 \notin front
  BY <1>1, <1>2 DEF PlacesOf
<1>5. IsFiniteSet(front)
  <2>1. IsFiniteSet(1 .. k)
    BY FS_Interval
  <2> QED
    BY <2>1, FS_Subset
<1> HIDE DEF front
<1>6. PICK c \in Nat : c = Cardinality(front)
  BY <1>5, FS_CardinalityType
<1>7. Count(s, v) <= c
  BY <1>3, <1>5, <1>6, FS_Subset, Zenon DEF Count
<1>8. c + 1 <= Count(t, v)
  <2>1. Cardinality(front \cup {k + 1}) = c + 1
    BY <1>4, <1>5, <1>6, FS_AddElement
  <2>2. IsFiniteSet(PlacesOf(t, v))
    BY CountIsNat, Zenon
  <2>3. PICK more : more = front \cup {k + 1} /\ more \in SUBSET PlacesOf(t, v)
    BY <1>4, Zenon
  <2>4. Cardinality(more) <= Cardinality(PlacesOf(t, v))
    BY <2>2, <2>3, FS_Subset
  <2> QED
    BY <2>1, <2>3, <2>4, Zenon DEF Count
<1>9. Count(s, v) \in Nat /\ Count(t, v) \in Nat
  BY CountIsNat, Zenon
<1>10. Count(s, v) # Count(t, v)
  BY <1>6, <1>7, <1>8, <1>9
<1> QED
  BY <1>10, Zenon DEF SameCounts

LEMMA OrderIsUnique ==
  ASSUME NEW s \in Seq(Text), NEW t \in Seq(Text), InOrder(s), InOrder(t), SameCounts(s, t)
  PROVE  s = t
<1>1. PICK n \in Nat, m \in Nat : n = Len(s) /\ m = Len(t) /\ DOMAIN s = 1 .. n /\ DOMAIN t = 1 .. m
  OBVIOUS
<1>2. SameCounts(t, s)
  BY Zenon DEF SameCounts
<1>3. ASSUME NEW k \in Nat, k <= n, k <= m, AgreeUpTo(s, t, k)
      PROVE  /\ k + 1 <= n <=> k + 1 <= m
             /\ k + 1 <= n => s[k + 1] = t[k + 1]
  <2>1. AgreeUpTo(t, s, k)
    BY <1>3, Zenon DEF AgreeUpTo
  <2>2. ~(k + 1 <= m /\ (k + 1 <= n => Before(t[k + 1], s[k + 1])))
    BY <1>1, <1>3, EarlierIsCountedMore, Zenon
  <2>3. ~(k + 1 <= n /\ (k + 1 <= m => Before(s[k + 1], t[k + 1])))
    BY <1>1, <1>2, <1>3, <2>1, EarlierIsCountedMore, Zenon
  <2>4. /\ k + 1 <= n => s[k + 1] \in Text
        /\ k + 1 <= m => t[k + 1] \in Text
    BY <1>1
  <2> QED
    BY <2>2, <2>3, <2>4, BeforeIsTotal, Zenon
<1> DEFINE A == {k \in Nat : k <= n => k <= m /\ AgreeUpTo(s, t, k)}
<1>4. 0 \in A
  BY DEF AgreeUpTo
<1>5. ASSUME NEW k \in Nat, k \in A PROVE k + 1 \in A
  <2> SUFFICES ASSUME k + 1 <= n PROVE k + 1 <= m /\ AgreeUpTo(s, t, k + 1)
    OBVIOUS
  <2>1. k <= n
    OBVIOUS
  <2>2. k <= m /\ AgreeUpTo(s, t, k)
    BY <1>5, <2>1
  <2>3. k + 1 <= m /\ s[k + 1] = t[k + 1]
    BY <1>3, <2>1, <2>2, Zenon
  <2>4. \A j \in 1 .. k + 1 : j = k + 1 \/ j \in 1 .. k
    OBVIOUS
  <2> QED
    BY <2>2, <2>3, <2>4, Zenon DEF AgreeUpTo
<1>6. \A k \in Nat : k \in A
  <2> HIDE DEF A
  <2> QED
    BY <1>4, <1>5, SetInduction
<1>7. n <= m /\ AgreeUpTo(s, t, n)
  <2>1. n \in A
    BY <1>6
  <2> QED
    BY <2>1
<1>8. n = m
  BY <1>3, <1>7
<1> QED
  BY <1>1, <1>7, <1>8, SeqEqual DEF AgreeUpTo

LEMMA NamesAreSorted ==
  ASSUME NEW s \in Seq(Text)
  PROVE  \E order : SortedFrom(SortedNames(s), s, order)
BY StringOrderSorts, Zenon DEF SortedNames

SortsAlike(s, t) == SortedNames(s) = SortedNames(t)

LEMMA SortedTellsBags ==
  ASSUME NEW s \in Seq(Text), NEW t \in Seq(Text)
  PROVE  SortsAlike(s, t) <=> SameCounts(s, t)
<1>1. PICK a, o : a = SortedNames(s) /\ SortedFrom(a, s, o)
  BY NamesAreSorted, Zenon
<1>2. PICK b, p : b = SortedNames(t) /\ SortedFrom(b, t, p)
  BY NamesAreSorted, Zenon
<1>3. a \in Seq(Text) /\ b \in Seq(Text) /\ InOrder(a) /\ InOrder(b)
  BY <1>1, <1>2, Zenon DEF SortedFrom
<1>4. SameCounts(s, a)
  <2>1. PICK n \in Nat : n = Len(s)
    OBVIOUS
  <2> QED
    BY <1>1, <1>3, <2>1, PermutedCounts, Zenon DEF SortedFrom
<1>5. SameCounts(t, b)
  <2>1. PICK n \in Nat : n = Len(t)
    OBVIOUS
  <2> QED
    BY <1>2, <1>3, <2>1, PermutedCounts, Zenon DEF SortedFrom
<1>6. SameCounts(s, t) <=> SameCounts(a, b)
  BY <1>4, <1>5, Zenon DEF SameCounts
<1>7. SameCounts(a, b) <=> a = b
  BY <1>3, OrderIsUnique, Zenon DEF SameCounts
<1> QED
  BY <1>1, <1>2, <1>6, <1>7, Zenon DEF SortsAlike

(***************************************************************************)
(* Lists that have the same counts, filtered alike or renamed alike, have  *)
(* the same counts.                                                        *)
(***************************************************************************)
LEMMA FilteredAlike ==
  ASSUME NEW s \in Seq(Text), NEW t \in Seq(Text), NEW item
  PROVE  SameCounts(s, t) <=>
            Len(s) = Len(t) /\ SortsAlike(Without(s, item), Without(t, item))
<1>1. PICK f \in Seq(Text) : f = Without(s, item) /\ FiltersOut(f, s, item, Text)
  <2>1. FiltersOut(Without(s, item), s, item, Text)
    BY WithoutFilters
  <2> QED
    BY <2>1, Zenon DEF FiltersOut
<1>2. PICK g \in Seq(Text) : g = Without(t, item) /\ FiltersOut(g, t, item, Text)
  <2>1. FiltersOut(Without(t, item), t, item, Text)
    BY WithoutFilters
  <2> QED
    BY <2>1, Zenon DEF FiltersOut
<1>3. SortsAlike(f, g) <=> SameCounts(f, g)
  BY SortedTellsBags, Zenon
<1>4. /\ Len(s) \in Nat /\ Len(t) \in Nat /\ Len(f) \in Nat /\ Len(g) \in Nat
      /\ Count(s, item) \in Nat /\ Count(t, item) \in Nat
  BY CountIsNat
<1>5. Len(s) = Len(f) + Count(s, item) /\ Len(t) = Len(g) + Count(t, item)
  BY <1>1, <1>2, Zenon DEF FiltersOut
<1>6. SortsAlike(f, g) => Len(f) = Len(g)
  <2>1. PICK o : SortedFrom(SortedNames(f), f, o)
    BY NamesAreSorted, Zenon
  <2>2. PICK p : SortedFrom(SortedNames(g), g, p)
    BY NamesAreSorted, Zenon
  <2> QED
    BY <2>1, <2>2, Zenon DEF SortedFrom, SortsAlike
<1>7. ASSUME SameCounts(s, t) PROVE Len(s) = Len(t) /\ SortsAlike(f, g)
  <2>1. SameCounts(f, g)
    BY <1>1, <1>2, <1>7, Zenon DEF SameCounts, FiltersOut
  <2>2. Count(s, item) = Count(t, item)
    BY <1>7, Zenon DEF SameCounts
  <2> QED
    BY <1>3, <1>4, <1>5, <1>6, <2>1, <2>2
<1>8. ASSUME Len(s) = Len(t), SortsAlike(f, g) PROVE SameCounts(s, t)
  <2>1. Count(s, item) = Count(t, item)
    BY <1>4, <1>5, <1>6, <1>8
  <2>2. ASSUME NEW v, v # item PROVE Count(s, v) = Count(t, v)
    <3>1. Count(f, v) = Count(g, v)
      BY <1>3, <1>8, Zenon DEF SameCounts
    <3> QED
      BY <1>1, <1>2, <2>2, <3>1, Zenon DEF FiltersOut
  <2> QED
    BY <2>1, <2>2, Zenon DEF SameCounts
<1> QED
  BY <1>1, <1>2, <1>7, <1>8, Zenon

Names(cookies) == [i \in DOMAIN cookies |-> CookieName(cookies[i])]

IsNamed(names, cookies) ==
    /\ names \in Seq(Text) /\ Len(names) = Len(cookies)
    /\ \A i \in 1 .. Len(cookies) : names[i] = CookieName(cookies[i])

LEMMA NameIsText ==
  ASSUME NEW cookie \in Text
  PROVE  CookieName(cookie) \in Text
<1>1. PICK marks : marks = {i \in DOMAIN cookie : cookie[i] = EqualsCode}
  OBVIOUS
<1>2. CookieName(cookie) = IF marks = {} THEN cookie ELSE SubSeq(cookie, 1, Min(marks) - 1)
  BY <1>1, Zenon DEF CookieName
<1>3. marks \in SUBSET Nat /\ marks \subseteq 1 .. Len(cookie)
  BY <1>1 DEF Text
<1>4. ASSUME marks # {} PROVE SubSeq(cookie, 1, Min(marks) - 1) \in Text
  <2>1. PICK n \in 1 .. Len(cookie) : n = Min(marks)
    BY <1>3, <1>4, MinOfNats
  <2>2. cookie \in Seq(Nat) /\ 1 \in Int /\ n - 1 \in Int
    BY DEF Text
  <2>3. \A i \in 1 .. n - 1 : cookie[i] \in Nat
    BY <2>2
  <2>4. SubSeq(cookie, 1, n - 1) \in Seq(Nat)
    BY <2>2, <2>3, SubSeqProperties
  <2> QED
    BY <2>1, <2>4, Zenon DEF Text
<1> QED
  BY <1>2, <1>4, Zenon

LEMMA NamesAreTexts ==
  ASSUME NEW cookies \in Seq(Text)
  PROVE  IsNamed(Names(cookies), cookies)
<1>1. PICK n \in Nat : n = Len(cookies) /\ DOMAIN cookies = 1 .. n
  OBVIOUS
<1>2. \A c \in Text : CookieName(c) \in Text
  BY NameIsText
<1>3. PICK names : names = Names(cookies)
  OBVIOUS
<1>4. names = [i \in 1 .. n |-> CookieName(cookies[i])]
  BY <1>1, <1>3, Zenon DEF Names
<1>5. \A i \in 1 .. n : cookies[i] \in Text
  BY <1>1
<1>6. \A i \in 1 .. n : names[i] = CookieName(cookies[i]) /\ names[i] \in Text
  BY <1>2, <1>4, <1>5, Zenon
<1>7. names \in [1 .. n -> Text]
  BY <1>2, <1>4, <1>5, Zenon
<1>8. names \in Seq(Text) /\ Len(names) = n
  BY <1>7, LenProperties, IsASeq
<1> QED
  BY <1>1, <1>3, <1>6, <1>8, Zenon DEF IsNamed

LEMMA NamesOfSorted ==
  ASSUME NEW s \in Seq(Text)
  PROVE  SameCounts(Names(s), Names(SortedNames(s)))
<1>1. PICK n \in Nat : n = Len(s)
  OBVIOUS
<1>2. PICK a, o : a = SortedNames(s) /\ SortedFrom(a, s, o)
  BY NamesAreSorted, Zenon
<1>3. /\ a \in Seq(Text) /\ Len(a) = n /\ Permutes(o, n)
      /\ \A i \in 1 .. n : a[i] = s[o[i]]
  BY <1>1, <1>2, Zenon DEF SortedFrom
<1>4. PICK f \in Seq(Text) : /\ f = Names(s) /\ Len(f) = n
                            /\ \A i \in 1 .. n : f[i] = CookieName(s[i])
  BY <1>1, NamesAreTexts, Zenon DEF IsNamed
<1>5. PICK g \in Seq(Text) : /\ g = Names(a) /\ Len(g) = n
                            /\ \A i \in 1 .. n : g[i] = CookieName(a[i])
  BY <1>3, NamesAreTexts, Zenon DEF IsNamed
<1>6. \A i \in 1 .. n : o[i] \in 1 .. n
  BY <1>3, Zenon DEF Permutes
<1>7. \A i \in 1 .. n : g[i] = f[o[i]]
  BY <1>3, <1>4, <1>5, <1>6, Zenon
<1>8. SameCounts(f, g)
  BY <1>3, <1>4, <1>5, <1>7, PermutedCounts, Zenon
<1> QED
  BY <1>2, <1>4, <1>5, <1>8, Zenon

LEMMA NamedAlike ==
  ASSUME NEW s \in Seq(Text), NEW t \in Seq(Text), SameCounts(s, t)
  PROVE  SameCounts(Names(s), Names(t))
<1>1. SortedNames(s) = SortedNames(t)
  BY SortedTellsBags, Zenon DEF SortsAlike
<1>2. SameCounts(Names(s), Names(SortedNames(s))) /\ SameCounts(Names(t), Names(SortedNames(t)))
  BY NamesOfSorted
<1> QED
  BY <1>1, <1>2, Zenon DEF SameCounts

(***************************************************************************)
(* Sequences put together can be taken apart where one of them ends.       *)
(***************************************************************************)
Associates(x, y, z) == (x \o y) \o z = x \o (y \o z)

LEMMA ConcatAssociates ==
  ASSUME NEW S, NEW x \in Seq(S), NEW y \in Seq(S), NEW z \in Seq(S)
  PROVE  Associates(x, y, z)
BY ConcatAssociative DEF Associates

SameFronts(x, y, u, w) == x = y /\ u = w

LEMMA ConcatSplits ==
  ASSUME NEW S, NEW x \in Seq(S), NEW y \in Seq(S), NEW u \in Seq(S), NEW w \in Seq(S),
         Len(x) = Len(y), x \o u = y \o w
  PROVE  SameFronts(x, y, u, w)
<1>1. PICK n \in Nat, a \in Nat, b \in Nat :
         n = Len(x) /\ n = Len(y) /\ a = Len(u) /\ b = Len(w)
  OBVIOUS
<1>2. \A i \in 1 .. n : x[i] = y[i]
  <2> SUFFICES ASSUME NEW i \in 1 .. n PROVE x[i] = y[i]
    OBVIOUS
  <2>1. (x \o u)[i] = x[i]
    <3>1. i \in 1 .. Len(x) + Len(u) /\ i <= Len(x)
      BY <1>1
    <3> QED
      BY <3>1, ConcatProperties
  <2>2. (y \o w)[i] = y[i]
    <3>1. i \in 1 .. Len(y) + Len(w) /\ i <= Len(y)
      BY <1>1
    <3> QED
      BY <3>1, ConcatProperties
  <2> QED
    BY <2>1, <2>2, Zenon
<1>3. x = y
  BY <1>1, <1>2, SeqEqual
<1>4. u = w
  BY <1>3, ConcatSimplifications, Zenon
<1> QED
  BY <1>3, <1>4, Zenon DEF SameFronts

LEMMA SplitAtMark ==
  ASSUME NEW S, NEW x \in Seq(S), NEW y \in Seq(S), NEW u \in Seq(S), NEW w \in Seq(S),
         NEW mark, \A i \in 1 .. Len(x) : x[i] # mark, \A i \in 1 .. Len(y) : y[i] # mark,
         Len(u) > 0, Len(w) > 0, u[1] = mark, w[1] = mark, x \o u = y \o w
  PROVE  SameFronts(x, y, u, w)
<1>1. PICK n \in Nat, m \in Nat, a \in Nat, b \in Nat :
         n = Len(x) /\ m = Len(y) /\ a = Len(u) /\ b = Len(w) /\ a > 0 /\ b > 0
  OBVIOUS
<1>2. ~(n < m)
  <2> SUFFICES ASSUME n < m PROVE FALSE
    OBVIOUS
  <2>1. (x \o u)[n + 1] = mark
    <3>1. n + 1 \in 1 .. Len(x) + Len(u) /\ ~(n + 1 <= Len(x)) /\ (n + 1) - Len(x) = 1
      BY <1>1
    <3> QED
      BY <3>1, ConcatProperties
  <2>2. (y \o w)[n + 1] = y[n + 1]
    <3>1. n + 1 \in 1 .. Len(y) + Len(w) /\ n + 1 <= Len(y)
      BY <1>1
    <3> QED
      BY <3>1, ConcatProperties
  <2>3. n + 1 \in 1 .. Len(y)
    BY <1>1
  <2> QED
    BY <2>1, <2>2, <2>3, Zenon
<1>3. ~(m < n)
  <2> SUFFICES ASSUME m < n PROVE FALSE
    OBVIOUS
  <2>1. (y \o w)[m + 1] = mark
    <3>1. m + 1 \in 1 .. Len(y) + Len(w) /\ ~(m + 1 <= Len(y)) /\ (m + 1) - Len(y) = 1
      BY <1>1
    <3> QED
      BY <3>1, ConcatProperties
  <2>2. (x \o u)[m + 1] = x[m + 1]
    <3>1. m + 1 \in 1 .. Len(x) + Len(u) /\ m + 1 <= Len(x)
      BY <1>1
    <3> QED
      BY <3>1, ConcatProperties
  <2>3. m + 1 \in 1 .. Len(x)
    BY <1>1
  <2> QED
    BY <2>1, <2>2, <2>3, Zenon
<1>4. Len(x) = Len(y)
  BY <1>1, <1>2, <1>3
<1> QED
  BY <1>4, ConcatSplits, Zenon

(***************************************************************************)
(* Parts that are equally long can be told apart in what they are joined   *)
(* to.                                                                     *)
(***************************************************************************)
EachHas(parts, length) == \A i \in 1 .. Len(parts) : Len(parts[i]) = length

LEMMA NoPartsForNothing ==
  ASSUME NEW S, NEW length \in Nat \ {0}, NEW qs \in Seq(Seq(S)), EachHas(qs, length)
  PROVE  FlattenSeq(qs) = <<>> <=> qs = <<>>
<1>1. ASSUME qs # <<>>, FlattenSeq(qs) = <<>> PROVE FALSE
  <2>1. 1 \in 1 .. Len(qs)
    BY <1>1
  <2>2. Len(qs[1]) <= Len(FlattenSeq(qs))
    BY <2>1, PartIsShorter
  <2>3. Len(qs[1]) = length
    BY <2>1, Zenon DEF EachHas
  <2>4. Len(<<>>) = 0
    OBVIOUS
  <2> QED
    BY <1>1, <2>2, <2>3, <2>4
<1> QED
  BY <1>1, FlattenEmpty, Zenon

LEMMA EqualLengthParts ==
  ASSUME NEW S, NEW length \in Nat \ {0}, NEW ps \in Seq(Seq(S)), NEW qs \in Seq(Seq(S)),
         EachHas(ps, length), EachHas(qs, length), FlattenSeq(ps) = FlattenSeq(qs)
  PROVE  ps = qs
<1> DEFINE A == {n \in Nat : \A s \in Seq(Seq(S)), t \in Seq(Seq(S)) :
                     Len(s) = n /\ EachHas(s, length) /\ EachHas(t, length)
                       /\ FlattenSeq(s) = FlattenSeq(t) => s = t}
<1>1. 0 \in A
  <2> SUFFICES ASSUME NEW s \in Seq(Seq(S)), NEW t \in Seq(Seq(S)), Len(s) = 0,
                      EachHas(s, length), EachHas(t, length), FlattenSeq(s) = FlattenSeq(t)
               PROVE  s = t
    OBVIOUS
  <2>1. s = <<>>
    OBVIOUS
  <2> QED
    BY <2>1, NoPartsForNothing, Zenon
<1>2. ASSUME NEW n \in Nat, n \in A PROVE n + 1 \in A
  <2> SUFFICES ASSUME NEW s \in Seq(Seq(S)), NEW t \in Seq(Seq(S)), Len(s) = n + 1,
                      EachHas(s, length), EachHas(t, length), FlattenSeq(s) = FlattenSeq(t)
               PROVE  s = t
    OBVIOUS
  <2>1. s # <<>> /\ t # <<>>
    <3>1. s # <<>>
      OBVIOUS
    <3> QED
      BY <3>1, NoPartsForNothing, Zenon
  <2>2. PICK m \in Nat : Len(t) = m + 1
    <3>1. Len(t) - 1 \in Nat /\ Len(t) = (Len(t) - 1) + 1
      BY <2>1
    <3> QED
      BY <3>1, Zenon
  <2>3. PICK x \in Seq(S), u \in Seq(Seq(S)) : IsSplit(s, x, u, n)
    BY FirstAndRest, Zenon
  <2>4. PICK y \in Seq(S), w \in Seq(Seq(S)) : IsSplit(t, y, w, m)
    BY <2>2, FirstAndRest, Zenon
  <2>5. FlattenSeq(s) = x \o FlattenSeq(u) /\ FlattenSeq(t) = y \o FlattenSeq(w)
    BY <2>3, <2>4, FlattenFirst, Zenon DEF IsSplit
  <2>6. FlattenSeq(u) \in Seq(S) /\ FlattenSeq(w) \in Seq(S)
    BY FlattenIsSeq, Zenon
  <2>7. Len(x) = length /\ Len(y) = length
    <3>1. 1 \in 1 .. Len(s) /\ 1 \in 1 .. Len(t)
      BY <2>2
    <3> QED
      BY <2>3, <2>4, <3>1, Zenon DEF IsSplit, EachHas
  <2>8. SameFronts(x, y, FlattenSeq(u), FlattenSeq(w))
    BY <2>5, <2>6, <2>7, ConcatSplits, Zenon
  <2>9. EachHas(u, length) /\ EachHas(w, length)
    <3>1. \A k \in 1 .. n : u[k] = s[k + 1] /\ k + 1 \in 1 .. n + 1
      BY <2>3 DEF IsSplit
    <3>2. \A k \in 1 .. m : w[k] = t[k + 1] /\ k + 1 \in 1 .. m + 1
      BY <2>4 DEF IsSplit
    <3>3. Len(u) = n /\ Len(w) = m
      BY <2>3, <2>4, Zenon DEF IsSplit
    <3>4. \A k \in 1 .. n : Len(u[k]) = length
      BY <3>1, Zenon DEF EachHas
    <3>5. \A k \in 1 .. m : Len(w[k]) = length
      BY <2>2, <3>2, Zenon DEF EachHas
    <3> QED
      BY <3>3, <3>4, <3>5, Zenon DEF EachHas
  <2>10. u = w
    BY <1>2, <2>3, <2>8, <2>9, Zenon DEF IsSplit, SameFronts
  <2> QED
    BY <2>3, <2>4, <2>8, <2>10, Zenon DEF IsSplit, SameFronts
<1>3. \A n \in Nat : n \in A
  <2> HIDE DEF A
  <2> QED
    BY <1>1, <1>2, SetInduction
<1>4. PICK n \in Nat : n = Len(ps)
  OBVIOUS
<1>5. n \in A
  <2> HIDE DEF A
  <2> QED
    BY <1>3
<1> QED
  BY <1>4, <1>5, Zenon

(***************************************************************************)
(* What is joined with separators: the separator goes in front of each     *)
(* part, and the first one goes away.                                      *)
(***************************************************************************)
Led(parts, sep) == [i \in DOMAIN parts |-> <<sep>> \o parts[i]]

IsLed(led, parts, sep, S) ==
    /\ led \in Seq(Seq(S)) /\ Len(led) = Len(parts)
    /\ \A i \in 1 .. Len(parts) : led[i] = <<sep>> \o parts[i]

LEMMA LedIsSeq ==
  ASSUME NEW S, NEW sep \in S, NEW parts \in Seq(Seq(S))
  PROVE  IsLed(Led(parts, sep), parts, sep, S)
<1>1. PICK n \in Nat : n = Len(parts) /\ DOMAIN parts = 1 .. n
  OBVIOUS
<1>2. PICK led : led = Led(parts, sep)
  OBVIOUS
<1>3. led = [i \in 1 .. n |-> <<sep>> \o parts[i]]
  BY <1>1, <1>2, Zenon DEF Led
<1>4. \A i \in 1 .. n : <<sep>> \o parts[i] \in Seq(S)
  <2>1. <<sep>> \in Seq(S) /\ \A i \in 1 .. n : parts[i] \in Seq(S)
    BY <1>1
  <2> QED
    BY <2>1, ConcatProperties
<1>5. led \in [1 .. n -> Seq(S)] /\ \A i \in 1 .. n : led[i] = <<sep>> \o parts[i]
  BY <1>3, <1>4, Zenon
<1>6. led \in Seq(Seq(S)) /\ Len(led) = n
  BY <1>5, LenProperties, IsASeq
<1> QED
  BY <1>1, <1>2, <1>5, <1>6, Zenon DEF IsLed

IsJoined(joined, parts, sep, S) ==
    joined \in Seq(S) /\ <<sep>> \o joined = FlattenSeq(Led(parts, sep))

LEMMA JoinIsLed ==
  ASSUME NEW S, NEW sep \in S, NEW parts \in Seq(Seq(S)), parts # <<>>
  PROVE  IsJoined(Join(parts, sep), parts, sep, S)
<1>1. PICK n \in Nat : Len(parts) = n + 1
  <2>1. Len(parts) - 1 \in Nat /\ Len(parts) = (Len(parts) - 1) + 1
    OBVIOUS
  <2> QED
    BY <2>1, Zenon
<1>2. PICK led \in Seq(Seq(S)) : led = Led(parts, sep) /\ IsLed(led, parts, sep, S)
  <2>1. IsLed(Led(parts, sep), parts, sep, S)
    BY LedIsSeq
  <2> QED
    BY <2>1, Zenon DEF IsLed
<1>3. PICK x \in Seq(S), rest \in Seq(Seq(S)) : IsSplit(led, x, rest, n)
  <2>1. Len(led) = n + 1
    BY <1>1, <1>2, Zenon DEF IsLed
  <2> QED
    BY <2>1, FirstAndRest, Zenon
<1>4. PICK first \in Seq(S) : first = parts[1]
  BY <1>1
<1>5. x = <<sep>> \o first
  <2>1. 1 \in 1 .. Len(parts)
    BY <1>1
  <2> QED
    BY <1>2, <1>3, <1>4, <2>1, Zenon DEF IsLed, IsSplit
<1>6. PICK later \in Seq(S) : later = FlattenSeq(rest)
  BY FlattenIsSeq, Zenon
<1>7. PICK joined \in Seq(S) : joined = first \o later
  BY ConcatProperties
<1>8. <<sep>> \in Seq(S)
  OBVIOUS
<1>9. FlattenSeq(led) = <<sep>> \o joined
  <2>1. FlattenSeq(led) = (<<sep>> \o first) \o later
    BY <1>3, <1>5, <1>6, FlattenFirst, Zenon DEF IsSplit
  <2> QED
    <3>1. Associates(<<sep>>, first, later)
      BY <1>8, ConcatAssociates, Zenon
    <3> QED
      BY <1>7, <2>1, <3>1, Zenon DEF Associates
<1>10. Tail(<<sep>> \o joined) = joined
  OBVIOUS
<1>11. Join(parts, sep) = joined
  BY <1>2, <1>9, <1>10, Zenon DEF Join, Led
<1> QED
  BY <1>2, <1>9, <1>11, Zenon DEF IsJoined

(***************************************************************************)
(* Parts of one length can be told apart in what they are joined to.       *)
(***************************************************************************)
StartsWith(s, mark) == Len(s) > 0 /\ s[1] = mark

LEMMA StartStays ==
  ASSUME NEW S, NEW x \in Seq(S), NEW y \in Seq(S), NEW mark, StartsWith(x, mark)
  PROVE  StartsWith(x \o y, mark)
<1>1. PICK n \in Nat, m \in Nat : n = Len(x) /\ m = Len(y) /\ n > 0
  BY DEF StartsWith
<1>2. 1 \in 1 .. Len(x) + Len(y) /\ 1 <= Len(x) /\ Len(x) + Len(y) > 0
  BY <1>1
<1>3. (x \o y)[1] = mark /\ Len(x \o y) = Len(x) + Len(y)
  BY <1>2, ConcatProperties DEF StartsWith
<1> QED
  BY <1>2, <1>3 DEF StartsWith

LEMMA JoinOfNothing ==
  ASSUME NEW sep
  PROVE  Join(<<>>, sep) = <<>>
BY DEF Join

LEMMA JoinTellsApart ==
  ASSUME NEW S, NEW sep \in S, NEW length \in Nat \ {0},
         NEW ps \in Seq(Seq(S)), NEW qs \in Seq(Seq(S)),
         EachHas(ps, length), EachHas(qs, length), Join(ps, sep) = Join(qs, sep)
  PROVE  ps = qs
<1>1. <<>> \in Seq(Seq(S)) /\ <<sep>> \in Seq(S) /\ Len(<<sep>>) = 1
  OBVIOUS
<1>2. ASSUME NEW r \in Seq(Seq(S)), EachHas(r, length)
      PROVE  /\ EachHas(Led(r, sep), length + 1)
             /\ Led(r, sep) \in Seq(Seq(S))
             /\ r # <<>> => Join(r, sep) # <<>>
  <2>1. PICK n \in Nat : n = Len(r)
    OBVIOUS
  <2>2. PICK led \in Seq(Seq(S)) : /\ led = Led(r, sep) /\ Len(led) = n
                                   /\ \A i \in 1 .. n : led[i] = <<sep>> \o r[i]
    <3>1. IsLed(Led(r, sep), r, sep, S)
      BY LedIsSeq
    <3> QED
      BY <2>1, <3>1, Zenon DEF IsLed
  <2>3. \A i \in 1 .. n : Len(led[i]) = length + 1
    <3> SUFFICES ASSUME NEW i \in 1 .. n PROVE Len(led[i]) = length + 1
      OBVIOUS
    <3>1. PICK part \in Seq(S) : part = r[i] /\ Len(part) = length
      BY <1>2, <2>1 DEF EachHas
    <3>2. Len(<<sep>> \o part) = 1 + length
      BY <1>1, <3>1
    <3>3. length + 1 = 1 + length
      OBVIOUS
    <3> QED
      BY <2>2, <3>1, <3>2, <3>3, Zenon
  <2>4. EachHas(led, length + 1)
    BY <2>2, <2>3, Zenon DEF EachHas
  <2>5. r # <<>> => Join(r, sep) # <<>>
    <3> SUFFICES ASSUME r # <<>>, Join(r, sep) = <<>> PROVE FALSE
      OBVIOUS
    <3>1. IsJoined(Join(r, sep), r, sep, S)
      BY JoinIsLed
    <3>2. FlattenSeq(led) = <<sep>> \o <<>>
      BY <2>2, <3>1, Zenon DEF IsJoined
    <3>3. FlattenSeq(led) = <<sep>>
      BY <1>1, <3>2, ConcatEmptySeq, Zenon
    <3>4. 1 \in 1 .. Len(led)
      BY <2>1, <2>2
    <3>5. Len(led[1]) <= Len(FlattenSeq(led))
      BY <3>4, PartIsShorter
    <3>6. Len(led[1]) = length + 1
      BY <2>2, <2>3, <3>4, Zenon
    <3> QED
      BY <1>1, <3>3, <3>5, <3>6
  <2> QED
    BY <2>2, <2>4, <2>5, Zenon
<1>3. CASE ps = <<>> \/ qs = <<>>
  <2>1. Join(<<>>, sep) = <<>>
    BY JoinOfNothing
  <2> QED
    BY <1>2, <1>3, <2>1, Zenon
<1>4. CASE ps # <<>> /\ qs # <<>>
  <2>1. FlattenSeq(Led(ps, sep)) = FlattenSeq(Led(qs, sep))
    <3>1. IsJoined(Join(ps, sep), ps, sep, S) /\ IsJoined(Join(qs, sep), qs, sep, S)
      BY <1>4, JoinIsLed
    <3> QED
      BY <3>1, Zenon DEF IsJoined
  <2>2. length + 1 \in Nat \ {0}
    OBVIOUS
  <2>3. Led(ps, sep) = Led(qs, sep)
    BY <1>2, <2>1, <2>2, EqualLengthParts, Zenon
  <2>4. /\ IsLed(Led(ps, sep), ps, sep, S)
        /\ IsLed(Led(qs, sep), qs, sep, S)
    BY LedIsSeq
  <2>5. Len(ps) = Len(qs)
    BY <2>3, <2>4, Zenon DEF IsLed
  <2>6. \A i \in 1 .. Len(ps) : ps[i] = qs[i]
    <3> SUFFICES ASSUME NEW i \in 1 .. Len(ps) PROVE ps[i] = qs[i]
      OBVIOUS
    <3>1. PICK p \in Seq(S), q \in Seq(S) : p = ps[i] /\ q = qs[i]
      BY <2>5
    <3>2. <<sep>> \o p = <<sep>> \o q
      BY <2>3, <2>4, <2>5, <3>1, Zenon DEF IsLed
    <3>3. SameFronts(<<sep>>, <<sep>>, p, q)
      BY <1>1, <3>2, ConcatSplits, Zenon
    <3> QED
      BY <3>1, <3>3, Zenon DEF SameFronts
  <2> QED
    BY <2>5, <2>6, SeqEqual
<1> QED
  BY <1>3, <1>4, Zenon

LEMMA SeparatedIsSeq ==
  ASSUME NEW S, NEW sep \in S, NEW parts \in Seq(Seq(S))
  PROVE  Join(parts, sep) \in Seq(S)
<1>1. CASE parts = <<>>
  <2>1. <<>> \in Seq(S)
    OBVIOUS
  <2> QED
    BY <1>1, <2>1, JoinOfNothing, Zenon
<1>2. CASE parts # <<>>
  BY <1>2, JoinIsLed, Zenon DEF IsJoined
<1> QED
  BY <1>1, <1>2, Zenon

(***************************************************************************)
(* The tokens of a segment are none of them a bar, so a fingerprint can be *)
(* taken apart at the first bar, and the rest has its places.              *)
(***************************************************************************)
Segment(sep, part) == <<sep>> \o part

LEMMA SegmentIsSeq ==
  ASSUME NEW S, NEW sep \in S, NEW part \in Seq(S)
  PROVE  /\ Segment(sep, part) \in Seq(S) /\ Len(Segment(sep, part)) = 1 + Len(part)
         /\ StartsWith(Segment(sep, part), sep)
<1>1. <<sep>> \in Seq(S) /\ Len(<<sep>>) = 1 /\ StartsWith(<<sep>>, sep)
  BY DEF StartsWith
<1>2. <<sep>> \o part \in Seq(S) /\ Len(<<sep>> \o part) = 1 + Len(part)
  BY <1>1, ConcatProperties
<1>3. StartsWith(<<sep>> \o part, sep)
  BY <1>1, StartStays, Zenon
<1> QED
  BY <1>2, <1>3, Zenon DEF Segment

Segments(sep, u, w, p, v) ==
    Segment(sep, u) \o ((Segment(sep, w) \o Segment(sep, p)) \o Segment(sep, v))

AreSegments(sep, u, w, p, v) ==
    Segment(sep, Join(<<u, w, p, v>>, sep)) = Segments(sep, u, w, p, v)

LEMMA FourSegments ==
  ASSUME NEW S, NEW sep \in S,
         NEW u \in Seq(S), NEW w \in Seq(S), NEW p \in Seq(S), NEW v \in Seq(S)
  PROVE  AreSegments(sep, u, w, p, v)
<1>1. PICK parts \in Seq(Seq(S)) : parts = <<u, w, p, v>> /\ parts # <<>>
  <2>1. <<u, w, p, v>> \in Seq(Seq(S)) /\ <<u, w, p, v>> # <<>>
    OBVIOUS
  <2> QED
    BY <2>1, Zenon
<1>2. Segment(sep, Join(parts, sep)) = FlattenSeq(Led(parts, sep))
  BY <1>1, JoinIsLed, Zenon DEF IsJoined, Segment
<1>3. PICK a \in Seq(S), b \in Seq(S), c \in Seq(S), d \in Seq(S) :
         a = Segment(sep, u) /\ b = Segment(sep, w) /\ c = Segment(sep, p) /\ d = Segment(sep, v)
  BY SegmentIsSeq, Zenon
<1>4. Led(parts, sep) = <<a, b, c, d>>
  <2>1. DOMAIN parts = 1 .. 4 /\ parts[1] = u /\ parts[2] = w /\ parts[3] = p /\ parts[4] = v
    BY <1>1
  <2>2. PICK led : led = Led(parts, sep)
    OBVIOUS
  <2>3. led = [i \in 1 .. 4 |-> Segment(sep, parts[i])]
    BY <2>1, <2>2, Zenon DEF Led, Segment
  <2>4. led[1] = a /\ led[2] = b /\ led[3] = c /\ led[4] = d
    <3>1. 1 \in 1 .. 4 /\ 2 \in 1 .. 4 /\ 3 \in 1 .. 4 /\ 4 \in 1 .. 4
      OBVIOUS
    <3> QED
      BY <1>3, <2>1, <2>3, <3>1, Zenon
  <2>5. led = <<a, b, c, d>>
    BY <2>3, <2>4
  <2> QED
    BY <2>2, <2>5
<1>5. FlattenSeq(<<a, b, c, d>>) = ((a \o b) \o c) \o d
  <2>1. /\ <<a>> \in Seq(Seq(S)) /\ <<a, b>> \in Seq(Seq(S)) /\ <<a, b, c>> \in Seq(Seq(S))
        /\ <<a, b>> = Append(<<a>>, b) /\ <<a, b, c>> = Append(<<a, b>>, c)
        /\ <<a, b, c, d>> = Append(<<a, b, c>>, d)
    OBVIOUS
  <2>2. FlattenSeq(<<a>>) = a
    BY FlattenOne
  <2>3. FlattenSeq(<<a, b>>) = a \o b
    BY <2>1, <2>2, FlattenAppend, Zenon
  <2>4. FlattenSeq(<<a, b, c>>) = (a \o b) \o c
    BY <2>1, <2>3, FlattenAppend, Zenon
  <2> QED
    BY <2>1, <2>4, FlattenAppend, Zenon
<1>6. PICK bc \in Seq(S) : bc = b \o c
  BY ConcatProperties
<1>7. ((a \o b) \o c) \o d = a \o (bc \o d)
  <2>1. Associates(a, b, c) /\ Associates(a, bc, d)
    BY ConcatAssociates, Zenon
  <2> QED
    BY <1>6, <2>1, Zenon DEF Associates
<1> QED
  BY <1>1, <1>2, <1>3, <1>4, <1>5, <1>6, <1>7, Zenon DEF Segments, AreSegments

(***************************************************************************)
(* Four segments of which the first has no separator in it, and the middle *)
(* ones have one token, can be told apart.                                 *)
(***************************************************************************)
FreeOf(u, sep) == \A i \in 1 .. Len(u) : u[i] # sep

SameSegments(u, w, p, v, uu, ww, pp, vv) == u = uu /\ w = ww /\ p = pp /\ v = vv

LEMMA SegmentsTellApart ==
  ASSUME NEW S, NEW sep \in S,
         NEW u \in Seq(S), NEW w \in Seq(S), NEW p \in Seq(S), NEW v \in Seq(S),
         NEW uu \in Seq(S), NEW ww \in Seq(S), NEW pp \in Seq(S), NEW vv \in Seq(S),
         FreeOf(u, sep), FreeOf(uu, sep), Len(w) = Len(ww), Len(p) = Len(pp),
         Segments(sep, u, w, p, v) = Segments(sep, uu, ww, pp, vv)
  PROVE  SameSegments(u, w, p, v, uu, ww, pp, vv)
<1>1. PICK b \in Seq(S), c \in Seq(S), d \in Seq(S) :
         b = Segment(sep, w) /\ c = Segment(sep, p) /\ d = Segment(sep, v)
  BY SegmentIsSeq, Zenon
<1>2. PICK bb \in Seq(S), cc \in Seq(S), dd \in Seq(S) :
         bb = Segment(sep, ww) /\ cc = Segment(sep, pp) /\ dd = Segment(sep, vv)
  BY SegmentIsSeq, Zenon
<1>3. PICK e \in Seq(S), ee \in Seq(S) : e = b \o c /\ ee = bb \o cc
  BY ConcatProperties
<1>4. PICK g \in Seq(S), gg \in Seq(S) : g = e \o d /\ gg = ee \o dd
  BY ConcatProperties
<1>5. <<sep>> \in Seq(S)
  OBVIOUS
<1>6. u \o g = uu \o gg
  <2>1. (<<sep>> \o u) \o g = (<<sep>> \o uu) \o gg
    BY <1>1, <1>2, <1>3, <1>4, Zenon DEF Segments, Segment
  <2>2. Associates(<<sep>>, u, g) /\ Associates(<<sep>>, uu, gg)
    BY <1>5, ConcatAssociates, Zenon
  <2>3. u \o g \in Seq(S) /\ uu \o gg \in Seq(S)
    BY ConcatProperties
  <2>4. <<sep>> \o (u \o g) = <<sep>> \o (uu \o gg)
    BY <2>1, <2>2, Zenon DEF Associates
  <2>5. SameFronts(<<sep>>, <<sep>>, u \o g, uu \o gg)
    BY <1>5, <2>3, <2>4, ConcatSplits, Zenon
  <2> QED
    BY <2>5, Zenon DEF SameFronts
<1>7. StartsWith(b, sep) /\ StartsWith(bb, sep)
  BY <1>1, <1>2, SegmentIsSeq, Zenon
<1>8. StartsWith(g, sep) /\ StartsWith(gg, sep)
  <2>1. StartsWith(e, sep) /\ StartsWith(ee, sep)
    BY <1>3, <1>7, StartStays, Zenon
  <2> QED
    BY <1>4, <2>1, StartStays, Zenon
<1>9. Len(b) = Len(bb) /\ Len(c) = Len(cc)
  <2>1. /\ Len(b) = 1 + Len(w) /\ Len(bb) = 1 + Len(ww)
        /\ Len(c) = 1 + Len(p) /\ Len(cc) = 1 + Len(pp)
    BY <1>1, <1>2, SegmentIsSeq, Zenon
  <2> QED
    BY <2>1, Zenon
<1>10. Len(e) = Len(ee)
  <2>1. Len(e) = Len(b) + Len(c) /\ Len(ee) = Len(bb) + Len(cc)
    BY <1>3, ConcatProperties
  <2> QED
    BY <1>9, <2>1, Zenon
<1>11. SameFronts(u, uu, g, gg)
  BY <1>6, <1>8, SplitAtMark, Zenon DEF FreeOf, StartsWith
<1>12. SameFronts(e, ee, d, dd)
  <2>1. e \o d = ee \o dd
    BY <1>4, <1>11, Zenon DEF SameFronts
  <2> QED
    BY <1>10, <2>1, ConcatSplits, Zenon
<1>13. SameFronts(b, bb, c, cc)
  <2>1. b \o c = bb \o cc
    BY <1>3, <1>12, Zenon DEF SameFronts
  <2> QED
    BY <1>9, <2>1, ConcatSplits, Zenon
<1>14. ASSUME NEW x \in Seq(S), NEW y \in Seq(S), Segment(sep, x) = Segment(sep, y)
       PROVE  x = y
  <2>1. <<sep>> \o x = <<sep>> \o y
    BY <1>14, Zenon DEF Segment
  <2>2. SameFronts(<<sep>>, <<sep>>, x, y)
    BY <1>5, <2>1, ConcatSplits, Zenon
  <2> QED
    BY <2>2, Zenon DEF SameFronts
<1> QED
  BY <1>1, <1>2, <1>11, <1>12, <1>13, <1>14, Zenon DEF SameFronts, SameSegments

(***************************************************************************)
(* Parts without the separator in them can be told apart in what they are  *)
(* joined to, unless there may be no part at all: with a separator behind  *)
(* them they are taken off one by one.                                     *)
(***************************************************************************)
AllFree(parts, sep) == \A i \in 1 .. Len(parts) : FreeOf(parts[i], sep)

Ended(parts, sep) == FlattenSeq(Led(parts, sep)) \o <<sep>>

IsEnded(ended, sep, S) == ended \in Seq(S) /\ StartsWith(ended, sep)

LEMMA EndedStarts ==
  ASSUME NEW S, NEW sep \in S, NEW parts \in Seq(Seq(S))
  PROVE  IsEnded(Ended(parts, sep), sep, S)
<1>1. <<sep>> \in Seq(S) /\ StartsWith(<<sep>>, sep)
  BY DEF StartsWith
<1>2. CASE parts = <<>>
  <2>1. Led(parts, sep) = <<>>
    BY <1>2 DEF Led
  <2>2. Ended(parts, sep) = <<>> \o <<sep>>
    BY <2>1, FlattenEmpty, Zenon DEF Ended
  <2>3. <<>> \o <<sep>> = <<sep>>
    OBVIOUS
  <2> QED
    BY <1>1, <2>2, <2>3, Zenon DEF IsEnded
<1>3. CASE parts # <<>>
  <2>1. IsJoined(Join(parts, sep), parts, sep, S)
    BY <1>3, JoinIsLed
  <2>2. PICK joined \in Seq(S) : FlattenSeq(Led(parts, sep)) = <<sep>> \o joined
    BY <2>1, Zenon DEF IsJoined
  <2>3. PICK led \in Seq(S) : led = <<sep>> \o joined
    BY <1>1, ConcatProperties
  <2>4. StartsWith(led, sep)
    BY <1>1, <2>3, StartStays, Zenon
  <2>5. led \o <<sep>> \in Seq(S) /\ StartsWith(led \o <<sep>>, sep)
    BY <1>1, <2>4, StartStays, ConcatProperties
  <2> QED
    BY <2>2, <2>3, <2>5, Zenon DEF Ended, IsEnded
<1> QED
  BY <1>2, <1>3

Peels(parts, sep, first, rest) == Ended(parts, sep) = <<sep>> \o (first \o Ended(rest, sep))

LEMMA EndedPeels ==
  ASSUME NEW S, NEW sep \in S, NEW parts \in Seq(Seq(S)), NEW n \in Nat, Len(parts) = n + 1,
         NEW first \in Seq(S), NEW rest \in Seq(Seq(S)), IsSplit(parts, first, rest, n)
  PROVE  Peels(parts, sep, first, rest)
<1>1. PICK mark \in Seq(S) : mark = <<sep>>
  <2>1. <<sep>> \in Seq(S)
    OBVIOUS
  <2> QED
    BY <2>1, Zenon
<1>2. PICK led \in Seq(Seq(S)), later \in Seq(Seq(S)) :
         /\ led = Led(parts, sep) /\ IsLed(led, parts, sep, S)
         /\ later = Led(rest, sep) /\ IsLed(later, rest, sep, S)
  <2>1. IsLed(Led(parts, sep), parts, sep, S) /\ IsLed(Led(rest, sep), rest, sep, S)
    BY LedIsSeq
  <2> QED
    BY <2>1, Zenon DEF IsLed
<1>3. PICK segment \in Seq(S) : segment = mark \o first
  BY ConcatProperties
<1>4. PICK whole \in Seq(Seq(S)) : whole = <<segment>> \o later
  <2>1. <<segment>> \in Seq(Seq(S))
    OBVIOUS
  <2> QED
    BY <2>1, ConcatProperties
<1>5. led = whole
  <2>1. Len(led) = n + 1 /\ Len(later) = n /\ Len(rest) = n
    BY <1>2, Zenon DEF IsLed, IsSplit
  <2>2. /\ Len(whole) = n + 1 /\ whole[1] = segment
        /\ \A k \in 1 .. n : whole[k + 1] = later[k]
    BY <1>4, <2>1
  <2>3. led[1] = segment
    <3>1. 1 \in 1 .. Len(parts)
      OBVIOUS
    <3> QED
      BY <1>1, <1>2, <1>3, <3>1, Zenon DEF IsLed, IsSplit
  <2>4. \A k \in 1 .. n : led[k + 1] = later[k]
    <3> SUFFICES ASSUME NEW k \in 1 .. n PROVE led[k + 1] = later[k]
      OBVIOUS
    <3>1. k + 1 \in 1 .. Len(parts) /\ k \in 1 .. Len(rest)
      BY <2>1
    <3> QED
      BY <1>2, <3>1, Zenon DEF IsLed, IsSplit
  <2>5. \A i \in 1 .. n + 1 : i = 1 \/ \E k \in 1 .. n : i = k + 1
    <3> SUFFICES ASSUME NEW i \in 1 .. n + 1, i # 1 PROVE \E k \in 1 .. n : i = k + 1
      OBVIOUS
    <3>1. i - 1 \in 1 .. n /\ i = (i - 1) + 1
      OBVIOUS
    <3> QED
      BY <3>1, Zenon
  <2>6. \A i \in 1 .. n + 1 : led[i] = whole[i]
    BY <2>2, <2>3, <2>4, <2>5, Zenon
  <2> QED
    BY <2>1, <2>2, <2>6, SeqEqual
<1>6. PICK tail \in Seq(S) : tail = FlattenSeq(later)
  BY FlattenIsSeq, Zenon
<1>7. FlattenSeq(led) = segment \o tail
  BY <1>4, <1>5, <1>6, FlattenFirst, Zenon
<1>8. PICK end \in Seq(S) : end = tail \o mark
  BY ConcatProperties
<1>9. Ended(parts, sep) = (segment \o tail) \o mark /\ Ended(rest, sep) = end
  BY <1>1, <1>2, <1>6, <1>7, <1>8, Zenon DEF Ended
<1>10. (segment \o tail) \o mark = segment \o end
  <2>1. Associates(segment, tail, mark)
    BY ConcatAssociates, Zenon
  <2> QED
    BY <1>8, <2>1, Zenon DEF Associates
<1>11. segment \o end = mark \o (first \o end)
  <2>1. Associates(mark, first, end)
    BY ConcatAssociates, Zenon
  <2> QED
    BY <1>3, <2>1, Zenon DEF Associates
<1> QED
  BY <1>1, <1>9, <1>10, <1>11, Zenon DEF Peels

LEMMA FreePartsTellApart ==
  ASSUME NEW S, NEW sep \in S, NEW ps \in Seq(Seq(S)), NEW qs \in Seq(Seq(S)),
         AllFree(ps, sep), AllFree(qs, sep), Ended(ps, sep) = Ended(qs, sep)
  PROVE  ps = qs
<1> DEFINE A == {n \in Nat : \A s \in Seq(Seq(S)), t \in Seq(Seq(S)) :
                     Len(s) = n /\ AllFree(s, sep) /\ AllFree(t, sep)
                       /\ Ended(s, sep) = Ended(t, sep) => s = t}
<1>1. PICK mark \in Seq(S) : mark = <<sep>> /\ Len(mark) = 1
  <2>1. <<sep>> \in Seq(S) /\ Len(<<sep>>) = 1
    OBVIOUS
  <2> QED
    BY <2>1, Zenon
<1>2. ASSUME NEW s \in Seq(Seq(S)), s # <<>>, AllFree(s, sep)
      PROVE  \E n \in Nat, x \in Seq(S), u \in Seq(Seq(S)), e \in Seq(S) :
                /\ Len(s) = n + 1 /\ IsSplit(s, x, u, n) /\ FreeOf(x, sep) /\ AllFree(u, sep)
                /\ e = Ended(u, sep) /\ StartsWith(e, sep) /\ Ended(s, sep) = mark \o (x \o e)
  <2>1. PICK n \in Nat : Len(s) = n + 1
    <3>1. Len(s) - 1 \in Nat /\ Len(s) = (Len(s) - 1) + 1
      BY <1>2
    <3> QED
      BY <3>1, Zenon
  <2>2. PICK x \in Seq(S), u \in Seq(Seq(S)) : IsSplit(s, x, u, n)
    BY <2>1, FirstAndRest, Zenon
  <2>3. FreeOf(x, sep)
    <3>1. 1 \in 1 .. Len(s)
      BY <2>1
    <3> QED
      BY <1>2, <2>2, <3>1, Zenon DEF IsSplit, AllFree
  <2>4. AllFree(u, sep)
    <3>1. \A k \in 1 .. n : k + 1 \in 1 .. Len(s)
      BY <2>1
    <3> QED
      BY <1>2, <2>2, <3>1, Zenon DEF IsSplit, AllFree
  <2>5. IsEnded(Ended(u, sep), sep, S)
    BY EndedStarts
  <2>6. Peels(s, sep, x, u)
    BY <2>1, <2>2, EndedPeels
  <2> QED
    BY <1>1, <2>1, <2>2, <2>3, <2>4, <2>5, <2>6, Zenon DEF IsEnded, Peels
<1>3. Ended(<<>>, sep) = mark
  <2>1. Led(<<>>, sep) = <<>>
    BY DEF Led
  <2>2. <<>> \o <<sep>> = <<sep>>
    OBVIOUS
  <2> QED
    BY <1>1, <2>1, <2>2, FlattenEmpty, Zenon DEF Ended
<1>4. ASSUME NEW s \in Seq(Seq(S)), AllFree(s, sep), Ended(s, sep) = mark PROVE s = <<>>
  <2> SUFFICES ASSUME s # <<>> PROVE FALSE
    OBVIOUS
  <2>1. PICK x \in Seq(S), e \in Seq(S) :
           StartsWith(e, sep) /\ Ended(s, sep) = mark \o (x \o e)
    BY <1>2, <1>4, Zenon
  <2>2. Len(mark \o (x \o e)) = 1 + (Len(x) + Len(e)) /\ Len(x) \in Nat /\ Len(e) \in Nat
    BY <1>1
  <2>3. Len(mark \o (x \o e)) = 1
    BY <1>1, <1>4, <2>1, Zenon
  <2>4. Len(e) > 0
    BY <2>1, Zenon DEF StartsWith
  <2> QED
    BY <2>2, <2>3, <2>4
<1>5. 0 \in A
  <2> SUFFICES ASSUME NEW s \in Seq(Seq(S)), NEW t \in Seq(Seq(S)), Len(s) = 0,
                      AllFree(t, sep), Ended(s, sep) = Ended(t, sep)
               PROVE  s = t
    OBVIOUS
  <2>1. s = <<>>
    OBVIOUS
  <2> QED
    BY <1>3, <1>4, <2>1, Zenon
<1>6. ASSUME NEW n \in Nat, n \in A PROVE n + 1 \in A
  <2> SUFFICES ASSUME NEW s \in Seq(Seq(S)), NEW t \in Seq(Seq(S)), Len(s) = n + 1,
                      AllFree(s, sep), AllFree(t, sep), Ended(s, sep) = Ended(t, sep)
               PROVE  s = t
    OBVIOUS
  <2>1. s # <<>> /\ t # <<>>
    <3>1. s # <<>>
      OBVIOUS
    <3> QED
      BY <1>3, <1>4, <3>1, Zenon
  <2>2. PICK k \in Nat, x \in Seq(S), u \in Seq(Seq(S)), e \in Seq(S) :
           /\ Len(s) = k + 1 /\ IsSplit(s, x, u, k) /\ FreeOf(x, sep) /\ AllFree(u, sep)
           /\ e = Ended(u, sep) /\ StartsWith(e, sep) /\ Ended(s, sep) = mark \o (x \o e)
    BY <1>2, <2>1, Zenon
  <2>3. PICK m \in Nat, y \in Seq(S), w \in Seq(Seq(S)), f \in Seq(S) :
           /\ Len(t) = m + 1 /\ IsSplit(t, y, w, m) /\ FreeOf(y, sep) /\ AllFree(w, sep)
           /\ f = Ended(w, sep) /\ StartsWith(f, sep) /\ Ended(t, sep) = mark \o (y \o f)
    BY <1>2, <2>1, Zenon
  <2>4. k = n
    BY <2>2
  <2>5. PICK xe \in Seq(S), yf \in Seq(S) : xe = x \o e /\ yf = y \o f
    BY ConcatProperties
  <2>6. mark \o xe = mark \o yf
    BY <2>2, <2>3, <2>5, Zenon
  <2>7. SameFronts(mark, mark, xe, yf)
    BY <2>6, ConcatSplits, Zenon
  <2>8. x \o e = y \o f
    BY <2>5, <2>7, Zenon DEF SameFronts
  <2>9. SameFronts(x, y, e, f)
    BY <2>2, <2>3, <2>8, SplitAtMark, Zenon DEF FreeOf, StartsWith
  <2>10. Len(u) = n /\ Ended(u, sep) = Ended(w, sep)
    BY <2>2, <2>3, <2>4, <2>9, Zenon DEF IsSplit, SameFronts
  <2>11. u = w
    BY <1>6, <2>2, <2>3, <2>10, Zenon
  <2> QED
    BY <2>2, <2>3, <2>9, <2>11, Zenon DEF IsSplit, SameFronts
<1>7. \A n \in Nat : n \in A
  <2> HIDE DEF A
  <2> QED
    BY <1>5, <1>6, SetInduction
<1>8. PICK n \in Nat : n = Len(ps)
  OBVIOUS
<1>9. n \in A
  <2> HIDE DEF A
  <2> QED
    BY <1>7
<1> QED
  BY <1>8, <1>9, Zenon

LEMMA FreeJoinTellsApart ==
  ASSUME NEW S, NEW sep \in S, NEW ps \in Seq(Seq(S)), NEW qs \in Seq(Seq(S)),
         AllFree(ps, sep), AllFree(qs, sep), ps = <<>> <=> qs = <<>>,
         Join(ps, sep) = Join(qs, sep)
  PROVE  ps = qs
<1>1. CASE ps = <<>>
  BY <1>1
<1>2. CASE ps # <<>>
  <2>1. IsJoined(Join(ps, sep), ps, sep, S) /\ IsJoined(Join(qs, sep), qs, sep, S)
    BY <1>2, JoinIsLed
  <2>2. Ended(ps, sep) = Ended(qs, sep)
    BY <2>1, Zenon DEF IsJoined, Ended
  <2> QED
    BY <2>2, FreePartsTellApart, Zenon
<1> QED
  BY <1>1, <1>2

(***************************************************************************)
(* The codes in JA4H_a: of seven methods, of versions and of languages.    *)
(***************************************************************************)
Methods == {"GET", "POST", "HEAD", "PUT", "DELETE", "OPTIONS", "PATCH"}

LEMMA MethodCodes ==
  ASSUME NEW m \in Methods, NEW n \in Methods
  PROVE  MethodCode(m) = MethodCode(n) <=> m = n
BY DEF MethodCode, Methods

CodedAlike(v, w) == v = w \/ {v, w} \cap {"1.1", "2", "3"} = {}

LEMMA VersionCodes ==
  ASSUME NEW v, NEW w
  PROVE  VersionCode(v) = VersionCode(w) <=> CodedAlike(v, w)
BY DEF VersionCode, CodedAlike

LEMMA SameLetters ==
  ASSUME NEW x \in Nat, NEW y \in Nat
  PROVE  LowerCase(x) = LowerCase(y) <=> SameLetter(x, y)
<1>1. ASSUME LowerCase(x) = LowerCase(y) PROVE SameLetter(x, y)
  <2>1. CASE x = y
    BY <2>1 DEF SameLetter
  <2>2. CASE x # y /\ x \in 65 .. 90
    <3>1. y = x + 32
      BY <1>1, <2>2 DEF LowerCase
    <3> QED
      BY <2>2, <3>1, Zenon DEF SameLetter
  <2>3. CASE x # y /\ x \notin 65 .. 90
    <3>1. y \in 65 .. 90 /\ x = y + 32
      BY <1>1, <2>3 DEF LowerCase
    <3>2. {x, y} = {y, y + 32}
      BY <3>1
    <3> QED
      BY <3>1, <3>2, Zenon DEF SameLetter
  <2> QED
    BY <2>1, <2>2, <2>3
<1>2. ASSUME SameLetter(x, y) PROVE LowerCase(x) = LowerCase(y)
  <2>1. CASE x = y
    BY <2>1
  <2>2. CASE x # y
    <3>1. PICK c \in 65 .. 90 : {x, y} = {c, c + 32}
      BY <1>2, <2>2, Zenon DEF SameLetter
    <3>2. (x = c /\ y = c + 32) \/ (y = c /\ x = c + 32)
      <4>1. x \in {c, c + 32} /\ y \in {c, c + 32}
        BY <3>1, Zenon
      <4> QED
        BY <2>2, <4>1, Zenon
    <3> QED
      BY <3>2 DEF LowerCase
  <2> QED
    BY <2>1, <2>2
<1> QED
  BY <1>1, <1>2

LEMMA SameLanguages ==
  ASSUME NEW t \in Seq(0 .. 127), NEW u \in Seq(0 .. 127)
  PROVE  LanguagePrefix(t) = LanguagePrefix(u)
           <=> \A k \in 1 .. 4 : SameLetter(LetterAt(t, k), LetterAt(u, k))
<1>1. ASSUME NEW w \in Seq(0 .. 127), NEW k \in 1 .. 4 PROVE LetterAt(w, k) \in Nat
  <2>1. CASE k <= Len(w)
    <3>1. PICK n \in Nat : n = Len(w)
      BY LenProperties
    <3>2. k \in 1 .. Len(w)
      BY <2>1, <3>1
    <3>3. w[k] \in 0 .. 127
      BY <3>2, ElementOfSeq, Zenon
    <3>4. \A v \in 0 .. 127 : v \in Nat
      OBVIOUS
    <3> QED
      BY <2>1, <3>3, <3>4, Zenon DEF LetterAt
  <2>2. CASE ~(k <= Len(w))
    BY <2>2 DEF LetterAt, ZeroCode
  <2> QED
    BY <2>1, <2>2
<1>2. \A k \in 1 .. 4 : LowerCase(LetterAt(t, k)) = LowerCase(LetterAt(u, k))
                          <=> SameLetter(LetterAt(t, k), LetterAt(u, k))
  BY <1>1, SameLetters
<1>3. /\ LanguagePrefix(t) = [k \in 1 .. 4 |-> LowerCase(LetterAt(t, k))]
      /\ LanguagePrefix(u) = [k \in 1 .. 4 |-> LowerCase(LetterAt(u, k))]
  BY Zenon DEF LanguagePrefix, LetterAt
<1>4. LanguagePrefix(t) = LanguagePrefix(u)
        <=> \A k \in 1 .. 4 : LowerCase(LetterAt(t, k)) = LowerCase(LetterAt(u, k))
  BY <1>3, Zenon
<1> QED
  BY <1>2, <1>4, Zenon

LEMMA SameContains ==
  ASSUME NEW s \in Seq(Text), NEW t \in Seq(Text), SameCounts(s, t), NEW e
  PROVE  Contains(s, e) <=> Contains(t, e)
<1>1. ASSUME NEW r \in Seq(Text) PROVE Contains(r, e) <=> Count(r, e) # 0
  <2>1. Contains(r, e) <=> PlacesOf(r, e) # {}
    BY DEF Contains, PlacesOf
  <2> QED
    BY <2>1, CountIsNat, Zenon
<1> QED
  BY <1>1, Zenon DEF SameCounts

JoinedJa4h(m, v, hasCookies, hasReferer, n, l, b, c, d) ==
    [a |-> <<m, v, hasCookies, hasReferer, n, l>>, b |-> b, c |-> c, d |-> d]

LEMMA Ja4hParts ==
  ASSUME NEW m, NEW v, NEW hc, NEW hr, NEW n, NEW l, NEW b, NEW c, NEW d,
         NEW mm, NEW vv, NEW hcc, NEW hrr, NEW nn, NEW ll, NEW bb, NEW cc, NEW dd
  PROVE  JoinedJa4h(m, v, hc, hr, n, l, b, c, d) = JoinedJa4h(mm, vv, hcc, hrr, nn, ll, bb, cc, dd)
            <=> /\ m = mm /\ v = vv /\ hc = hcc /\ hr = hrr /\ n = nn /\ l = ll
                /\ b = bb /\ c = cc /\ d = dd
<1>1. <<m, v, hc, hr, n, l>> = <<mm, vv, hcc, hrr, nn, ll>>
        <=> m = mm /\ v = vv /\ hc = hcc /\ hr = hrr /\ n = nn /\ l = ll
  OBVIOUS
<1>2. PICK x, y : x = <<m, v, hc, hr, n, l>> /\ y = <<mm, vv, hcc, hrr, nn, ll>>
  OBVIOUS
<1>3. [a |-> x, b |-> b, c |-> c, d |-> d] = [a |-> y, b |-> bb, c |-> cc, d |-> dd]
        <=> x = y /\ b = bb /\ c = cc /\ d = dd
  OBVIOUS
<1> QED
  BY <1>1, <1>2, <1>3, Zenon DEF JoinedJa4h

\* The names in front of "=" that are hashed, and the headers that are.
HashedNames(cookies) == Without(Names(cookies), NoName)

HashedHeaders(headerNames) == Without(headerNames, Cookie)

CodesAgree(r, s) ==
    /\ MethodCode(r.method) = MethodCode(s.method)
    /\ VersionCode(r.httpVersion) = VersionCode(s.httpVersion)
    /\ r.cookies # <<>> <=> s.cookies # <<>>
    /\ Contains(r.headerNames, Referer) <=> Contains(s.headerNames, Referer)
    /\ Len(r.headerNames) = Len(s.headerNames)
    /\ LanguagePrefix(r.acceptLanguage) = LanguagePrefix(s.acceptLanguage)
    /\ Listed(r.cookies) = Listed(s.cookies)
    /\ Listed(HashedNames(r.cookies)) = Listed(HashedNames(s.cookies))
    /\ Listed(HashedHeaders(r.headerNames)) = Listed(HashedHeaders(s.headerNames))

LEMMA Ja4hIsCodes ==
  ASSUME NEW r, NEW s
  PROVE  ComputeJa4h(r) = ComputeJa4h(s) <=> CodesAgree(r, s)
<1>1. PICK cr, hr : cr = (r.cookies # <<>>) /\ hr = Contains(r.headerNames, Referer)
  OBVIOUS
<1>2. PICK cs, hs : cs = (s.cookies # <<>>) /\ hs = Contains(s.headerNames, Referer)
  OBVIOUS
<1>3. PICK x, y :
         /\ x = JoinedJa4h(MethodCode(r.method), VersionCode(r.httpVersion), cr, hr,
                           Len(r.headerNames), LanguagePrefix(r.acceptLanguage),
                           Listed(r.cookies), Listed(HashedNames(r.cookies)),
                           Listed(HashedHeaders(r.headerNames)))
         /\ y = JoinedJa4h(MethodCode(s.method), VersionCode(s.httpVersion), cs, hs,
                           Len(s.headerNames), LanguagePrefix(s.acceptLanguage),
                           Listed(s.cookies), Listed(HashedNames(s.cookies)),
                           Listed(HashedHeaders(s.headerNames)))
  OBVIOUS
<1>4. ComputeJa4h(r) = x /\ ComputeJa4h(s) = y
  BY <1>1, <1>2, <1>3, Zenon DEF ComputeJa4h, JoinedJa4h, Names, HashedNames, HashedHeaders
<1>5. /\ cr = cs <=> (r.cookies # <<>> <=> s.cookies # <<>>)
      /\ hr = hs <=> (Contains(r.headerNames, Referer) <=> Contains(s.headerNames, Referer))
  <2>1. Contains(r.headerNames, Referer) \in BOOLEAN /\ Contains(s.headerNames, Referer) \in BOOLEAN
    BY DEF Contains
  <2> QED
    BY <1>1, <1>2, <2>1, Zenon
<1>6. x = y <=>
        /\ MethodCode(r.method) = MethodCode(s.method)
        /\ VersionCode(r.httpVersion) = VersionCode(s.httpVersion)
        /\ cr = cs /\ hr = hs
        /\ Len(r.headerNames) = Len(s.headerNames)
        /\ LanguagePrefix(r.acceptLanguage) = LanguagePrefix(s.acceptLanguage)
        /\ Listed(r.cookies) = Listed(s.cookies)
        /\ Listed(HashedNames(r.cookies)) = Listed(HashedNames(s.cookies))
        /\ Listed(HashedHeaders(r.headerNames)) = Listed(HashedHeaders(s.headerNames))
  BY <1>3, Ja4hParts
<1> QED
  BY <1>4, <1>5, <1>6, Zenon DEF CodesAgree

(***************************************************************************)
(* What is listed: the same for lists with the same counts; and if it is   *)
(* the same for lists without commas that are both empty or both not, they *)
(* have the same counts.                                                   *)
(***************************************************************************)
IsRequest(r) ==
    /\ r.method \in Methods
    /\ r.headerNames \in Seq(Text) /\ r.cookies \in Seq(Text)
    /\ r.acceptLanguage \in Seq(0 .. 127)

LEMMA ListedAlike ==
  ASSUME NEW s, NEW t, SortsAlike(s, t)
  PROVE  Listed(s) = Listed(t)
BY Zenon DEF SortsAlike, Listed

LEMMA ListedTellsApart ==
  ASSUME NEW s \in Seq(Text), NEW t \in Seq(Text), AllFree(s, CommaCode), AllFree(t, CommaCode),
         s = <<>> <=> t = <<>>, Listed(s) = Listed(t)
  PROVE  SortsAlike(s, t)
<1>1. ASSUME NEW u \in Seq(Text), AllFree(u, CommaCode)
      PROVE  \E w \in Seq(Text) : /\ w = SortedNames(u) /\ AllFree(w, CommaCode)
                                  /\ w = <<>> <=> u = <<>>
  <2>1. PICK o : SortedFrom(SortedNames(u), u, o)
    BY NamesAreSorted
  <2>2. PICK n \in Nat : n = Len(u)
    OBVIOUS
  <2>3. PICK w \in Seq(Text) : /\ w = SortedNames(u) /\ Len(w) = n
                               /\ \A i \in 1 .. n : o[i] \in 1 .. n /\ w[i] = u[o[i]]
    BY <2>1, <2>2, Zenon DEF SortedFrom, Permutes
  <2>4. AllFree(w, CommaCode)
    BY <1>1, <2>2, <2>3, Zenon DEF AllFree
  <2>5. w = <<>> <=> u = <<>>
    <3>1. (w = <<>> <=> Len(w) = 0) /\ (u = <<>> <=> Len(u) = 0)
      OBVIOUS
    <3> QED
      BY <2>2, <2>3, <3>1, Zenon
  <2> QED
    BY <2>3, <2>4, <2>5, Zenon
<1>2. PICK a \in Seq(Text) : a = SortedNames(s) /\ AllFree(a, CommaCode) /\ (a = <<>> <=> s = <<>>)
  BY <1>1, Zenon
<1>3. PICK b \in Seq(Text) : b = SortedNames(t) /\ AllFree(b, CommaCode) /\ (b = <<>> <=> t = <<>>)
  BY <1>1, Zenon
<1>4. Join(a, CommaCode) = Join(b, CommaCode)
  BY <1>2, <1>3, Zenon DEF Listed
<1>5. a \in Seq(Seq(Nat)) /\ b \in Seq(Seq(Nat)) /\ CommaCode \in Nat
  BY DEF Text, CommaCode
<1>6. a = b
  BY <1>2, <1>3, <1>4, <1>5, FreeJoinTellsApart, Zenon
<1> QED
  BY <1>2, <1>3, <1>6, Zenon DEF SortsAlike

LEMMA SameLength ==
  ASSUME NEW s \in Seq(Text), NEW t \in Seq(Text), SortsAlike(s, t)
  PROVE  Len(s) = Len(t)
<1>1. PICK o : SortedFrom(SortedNames(s), s, o)
  BY NamesAreSorted
<1>2. PICK p : SortedFrom(SortedNames(t), t, p)
  BY NamesAreSorted
<1> QED
  BY <1>1, <1>2, Zenon DEF SortedFrom, SortsAlike

(***************************************************************************)
(* What is left by a filter was there; and a list of names that are not    *)
(* empty is not listed as nothing.                                         *)
(***************************************************************************)
ComesFrom(f, s) == \A i \in 1 .. Len(f) : \E j \in 1 .. Len(s) : f[i] = s[j]

LEMMA FilteredIsPart ==
  ASSUME NEW s \in Seq(Text), NEW item
  PROVE  Without(s, item) \in Seq(Text) /\ ComesFrom(Without(s, item), s)
<1>1. PICK f \in Seq(Text) : f = Without(s, item) /\ FiltersOut(f, s, item, Text)
  <2>1. FiltersOut(Without(s, item), s, item, Text)
    BY WithoutFilters
  <2> QED
    BY <2>1, Zenon DEF FiltersOut
<1>2. ASSUME NEW i \in 1 .. Len(f) PROVE \E j \in 1 .. Len(s) : f[i] = s[j]
  <2>1. PICK v : v = f[i]
    OBVIOUS
  <2>2. i \in PlacesOf(f, v)
    BY <2>1 DEF PlacesOf
  <2>3. Count(f, v) # 0
    BY <2>2, CountIsNat, Zenon
  <2>4. Count(s, v) # 0
    BY <1>1, <2>3, Zenon DEF FiltersOut
  <2>5. PlacesOf(s, v) # {}
    BY <2>4, CountIsNat, Zenon
  <2>6. PICK j \in 1 .. Len(s) : s[j] = v
    BY <2>5 DEF PlacesOf
  <2> QED
    BY <2>1, <2>6
<1> QED
  BY <1>1, <1>2, Zenon DEF ComesFrom

NoneEmpty(s) == \A i \in 1 .. Len(s) : s[i] # <<>>

LEMMA SomethingIsListed ==
  ASSUME NEW s \in Seq(Text), s # <<>>, NoneEmpty(s)
  PROVE  Listed(s) # <<>>
<1> SUFFICES ASSUME Listed(s) = <<>> PROVE FALSE
  OBVIOUS
<1>1. PICK o : SortedFrom(SortedNames(s), s, o)
  BY NamesAreSorted
<1>2. PICK n \in Nat : n = Len(s) /\ n # 0
  OBVIOUS
<1>3. PICK w \in Seq(Text) : /\ w = SortedNames(s) /\ Len(w) = n
                             /\ \A i \in 1 .. n : o[i] \in 1 .. n /\ w[i] = s[o[i]]
  BY <1>1, <1>2, Zenon DEF SortedFrom, Permutes
<1>4. 1 \in 1 .. n /\ w # <<>>
  BY <1>2, <1>3
<1>5. PICK first \in Seq(Nat) : first = w[1] /\ Len(first) > 0
  <2>1. w[1] \in Seq(Nat) /\ w[1] # <<>>
    <3>1. w[1] \in Text
      BY <1>3, <1>4
    <3>2. w[1] # <<>>
      BY <1>2, <1>3, <1>4, Zenon DEF NoneEmpty
    <3> QED
      BY <3>1, <3>2, Zenon DEF Text
  <2>2. \A t \in Seq(Nat) : t # <<>> => Len(t) > 0
    OBVIOUS
  <2> QED
    BY <2>1, <2>2, Zenon
<1>6. w \in Seq(Seq(Nat)) /\ CommaCode \in Nat
  BY DEF Text, CommaCode
<1>7. IsJoined(Join(w, CommaCode), w, CommaCode, Nat) /\ IsLed(Led(w, CommaCode), w, CommaCode, Nat)
  BY <1>4, <1>6, JoinIsLed, LedIsSeq
<1>8. PICK led \in Seq(Seq(Nat)) : /\ led = Led(w, CommaCode) /\ 1 \in 1 .. Len(led)
                                   /\ led[1] = <<CommaCode>> \o first
  BY <1>3, <1>4, <1>5, <1>7, Zenon DEF IsLed
<1>9. FlattenSeq(led) = <<CommaCode>>
  <2>1. Join(w, CommaCode) = <<>>
    BY <1>3, Zenon DEF Listed
  <2>2. FlattenSeq(led) = <<CommaCode>> \o <<>>
    BY <1>7, <1>8, <2>1, Zenon DEF IsJoined
  <2>3. <<CommaCode>> \o <<>> = <<CommaCode>>
    OBVIOUS
  <2> QED
    BY <2>2, <2>3, Zenon
<1>10. Len(led[1]) <= Len(FlattenSeq(led))
  BY <1>8, PartIsShorter
<1>11. Len(led[1]) = 1 + Len(first) /\ Len(<<CommaCode>>) = 1
  BY <1>5, <1>6, <1>8
<1> QED
  BY <1>5, <1>9, <1>10, <1>11

(***************************************************************************)
(* The same request has one JA4H.                                          *)
(***************************************************************************)
LEMMA SameRequestOneJa4h ==
  ASSUME NEW r, NEW s, IsRequest(r), IsRequest(s), SameRequest(r, s)
  PROVE  ComputeJa4h(r) = ComputeJa4h(s)
<1>1. PICK p \in Seq(Text), q \in Seq(Text) : p = r.headerNames /\ q = s.headerNames
  BY DEF IsRequest
<1>2. PICK c \in Seq(Text), d \in Seq(Text) : c = r.cookies /\ d = s.cookies
  BY DEF IsRequest
<1>3. SameCounts(p, q) /\ SameCounts(c, d)
  <2>1. ToBag(p) = ToBag(q) /\ ToBag(c) = ToBag(d)
    BY <1>1, <1>2, Zenon DEF SameRequest
  <2> QED
    BY <2>1, BagsAreCounts, Zenon
<1>4. MethodCode(r.method) = MethodCode(s.method)
  BY Zenon DEF SameRequest
<1>5. VersionCode(r.httpVersion) = VersionCode(s.httpVersion)
  BY VersionCodes, Zenon DEF SameRequest, CodedAlike
<1>6. LanguagePrefix(r.acceptLanguage) = LanguagePrefix(s.acceptLanguage)
  BY SameLanguages, Zenon DEF SameRequest, IsRequest
<1>7. SortsAlike(c, d) /\ Listed(c) = Listed(d)
  BY <1>3, SortedTellsBags, ListedAlike, Zenon
<1>8. c # <<>> <=> d # <<>>
  <2>1. (c = <<>> <=> Len(c) = 0) /\ (d = <<>> <=> Len(d) = 0)
    OBVIOUS
  <2> QED
    BY <1>7, <2>1, SameLength, Zenon
<1>9. Contains(p, Referer) <=> Contains(q, Referer)
  BY <1>3, SameContains, Zenon
<1>10. Len(p) = Len(q) /\ Listed(HashedHeaders(p)) = Listed(HashedHeaders(q))
  BY <1>3, FilteredAlike, ListedAlike, Zenon DEF HashedHeaders
<1>11. Listed(HashedNames(c)) = Listed(HashedNames(d))
  <2>1. Names(c) \in Seq(Text) /\ Names(d) \in Seq(Text)
    BY NamesAreTexts, Zenon DEF IsNamed
  <2>2. SameCounts(Names(c), Names(d))
    BY <1>3, NamedAlike, Zenon
  <2> QED
    BY <2>1, <2>2, FilteredAlike, ListedAlike, Zenon DEF HashedNames
<1>12. CodesAgree(r, s)
  BY <1>1, <1>2, <1>4, <1>5, <1>6, <1>7, <1>8, <1>9, <1>10, <1>11, Zenon DEF CodesAgree
<1> QED
  BY <1>12, Ja4hIsCodes, Zenon

(***************************************************************************)
(* Unambiguous requests with one JA4H are the same.                        *)
(***************************************************************************)
LEMMA OneJa4hSameRequest ==
  ASSUME NEW r, NEW s, IsRequest(r), IsRequest(s), Unambiguous(r), Unambiguous(s),
         ComputeJa4h(r) = ComputeJa4h(s)
  PROVE  SameRequest(r, s)
<1>0. CodesAgree(r, s)
  BY Ja4hIsCodes, Zenon
<1>1. PICK p \in Seq(Text), q \in Seq(Text) : p = r.headerNames /\ q = s.headerNames
  BY DEF IsRequest
<1>2. PICK c \in Seq(Text), d \in Seq(Text) : c = r.cookies /\ d = s.cookies
  BY DEF IsRequest
<1>3. /\ Len(p) = Len(q) /\ (c # <<>> <=> d # <<>>)
      /\ Listed(c) = Listed(d) /\ Listed(Without(p, Cookie)) = Listed(Without(q, Cookie))
  BY <1>0, <1>1, <1>2, Zenon DEF CodesAgree, HashedHeaders
<1>4. ASSUME NEW l \in Seq(Text), \A i \in DOMAIN l : CommaCode \notin ToSet(l[i])
      PROVE  AllFree(l, CommaCode)
  <2> SUFFICES ASSUME NEW i \in 1 .. Len(l), NEW j \in 1 .. Len(l[i]) PROVE l[i][j] # CommaCode
    BY DEF AllFree, FreeOf
  <2>1. PICK t \in Text : t = l[i]
    OBVIOUS
  <2>2. CommaCode \notin ToSet(t)
    BY <1>4, <2>1
  <2>3. t[j] \in ToSet(t)
    BY <2>1 DEF ToSet, Text
  <2> QED
    BY <2>1, <2>2, <2>3, Zenon
<1>5. /\ AllFree(p, CommaCode) /\ AllFree(q, CommaCode)
      /\ AllFree(c, CommaCode) /\ AllFree(d, CommaCode)
  BY <1>1, <1>2, <1>4, Zenon DEF Unambiguous
<1>6. SameCounts(c, d)
  <2>1. SortsAlike(c, d)
    BY <1>3, <1>5, ListedTellsApart, Zenon
  <2> QED
    BY <2>1, SortedTellsBags, Zenon
<1>7. SameCounts(p, q)
  <2>1. PICK f \in Seq(Text), g \in Seq(Text) :
           /\ f = Without(p, Cookie) /\ ComesFrom(f, p)
           /\ g = Without(q, Cookie) /\ ComesFrom(g, q)
    BY FilteredIsPart, Zenon
  <2>2. AllFree(f, CommaCode) /\ AllFree(g, CommaCode)
    BY <1>5, <2>1, Zenon DEF ComesFrom, AllFree
  <2>3. NoneEmpty(f) /\ NoneEmpty(g)
    <3>1. \A i \in 1 .. Len(p) : p[i] # <<>>
      BY <1>1 DEF Unambiguous
    <3>2. \A i \in 1 .. Len(q) : q[i] # <<>>
      BY <1>1 DEF Unambiguous
    <3> QED
      BY <2>1, <3>1, <3>2, Zenon DEF ComesFrom, NoneEmpty
  <2>4. Listed(<<>>) = <<>>
    <3>1. SortedNames(<<>>) = <<>>
      BY DEF SortedNames, InStringOrder
    <3> QED
      BY <3>1, JoinOfNothing, Zenon DEF Listed
  <2>5. f = <<>> <=> g = <<>>
    BY <1>3, <2>1, <2>3, <2>4, SomethingIsListed, Zenon
  <2>6. SortsAlike(f, g)
    BY <1>3, <2>1, <2>2, <2>5, ListedTellsApart, Zenon
  <2> QED
    BY <1>3, <2>1, <2>6, FilteredAlike, Zenon
<1>8. ToBag(p) = ToBag(q) /\ ToBag(c) = ToBag(d)
  BY <1>6, <1>7, BagsAreCounts, Zenon
<1>9. r.method = s.method /\ CodedAlike(r.httpVersion, s.httpVersion)
  <2>1. MethodCode(r.method) = MethodCode(s.method)
    BY <1>0, Zenon DEF CodesAgree
  <2>2. VersionCode(r.httpVersion) = VersionCode(s.httpVersion)
    BY <1>0, Zenon DEF CodesAgree
  <2> QED
    BY <2>1, <2>2, MethodCodes, VersionCodes, Zenon DEF IsRequest
<1>10. \A k \in 1 .. 4 : SameLetter(LetterAt(r.acceptLanguage, k), LetterAt(s.acceptLanguage, k))
  BY <1>0, SameLanguages, Zenon DEF CodesAgree, IsRequest
<1> QED
  BY <1>1, <1>2, <1>8, <1>9, <1>10, Zenon DEF SameRequest, CodedAlike

(***************************************************************************)
(* The parts of an Akamai string.                                          *)
(***************************************************************************)
Setting == [id : Nat, value : Nat]

PseudoHeader == {":method", ":authority", ":scheme", ":path"}

SettingParts(settings) ==
    [i \in DOMAIN settings |-> <<settings[i].id, Colon, settings[i].value>>]

PseudoParts(order) == [i \in DOMAIN order |-> <<PseudoHeaderCode(order[i])>>]

Token == {x \in Int : x # Bar}

ArePartsOf(parts, length) ==
    parts \in Seq(Seq(Token)) /\ EachHas(parts, length)

LEMMA SettingPartsAreParts ==
  ASSUME NEW settings \in Seq(Setting)
  PROVE  ArePartsOf(SettingParts(settings), 3)
<1>1. PICK n \in Nat : n = Len(settings) /\ DOMAIN settings = 1 .. n
  OBVIOUS
<1>2. PICK parts : parts = SettingParts(settings)
  OBVIOUS
<1>3. parts = [i \in 1 .. n |-> <<settings[i].id, Colon, settings[i].value>>]
  BY <1>1, <1>2, Zenon DEF SettingParts
<1>4. \A i \in 1 .. n : /\ <<settings[i].id, Colon, settings[i].value>> \in Seq(Token)
                        /\ Len(<<settings[i].id, Colon, settings[i].value>>) = 3
  <2> SUFFICES ASSUME NEW i \in 1 .. n
               PROVE  /\ <<settings[i].id, Colon, settings[i].value>> \in Seq(Token)
                      /\ Len(<<settings[i].id, Colon, settings[i].value>>) = 3
    OBVIOUS
  <2>1. settings[i].id \in Nat /\ settings[i].value \in Nat
    <3>1. PICK a \in Setting : a = settings[i]
      BY <1>1
    <3>2. a.id \in Nat /\ a.value \in Nat
      BY DEF Setting
    <3> QED
      BY <3>1, <3>2, Zenon
  <2>2. settings[i].id \in Token /\ settings[i].value \in Token /\ Colon \in Token
    BY <2>1 DEF Token, Bar, Colon
  <2> HIDE DEF Token
  <2> QED
    BY <2>2
<1>5. parts \in [1 .. n -> Seq(Token)] /\ \A i \in 1 .. n : Len(parts[i]) = 3
  BY <1>3, <1>4, Zenon
<1>6. parts \in Seq(Seq(Token)) /\ Len(parts) = n
  BY <1>5, LenProperties, IsASeq
<1> QED
  BY <1>2, <1>5, <1>6, Zenon DEF ArePartsOf, EachHas

LEMMA PseudoPartsAreParts ==
  ASSUME NEW order \in Seq(PseudoHeader)
  PROVE  ArePartsOf(PseudoParts(order), 1)
<1>1. PICK n \in Nat : n = Len(order) /\ DOMAIN order = 1 .. n
  OBVIOUS
<1>2. PICK parts : parts = PseudoParts(order)
  OBVIOUS
<1>3. parts = [i \in 1 .. n |-> <<PseudoHeaderCode(order[i])>>]
  BY <1>1, <1>2, Zenon DEF PseudoParts
<1>4. \A i \in 1 .. n : /\ <<PseudoHeaderCode(order[i])>> \in Seq(Token)
                        /\ Len(<<PseudoHeaderCode(order[i])>>) = 1
  <2> SUFFICES ASSUME NEW i \in 1 .. n
               PROVE  /\ <<PseudoHeaderCode(order[i])>> \in Seq(Token)
                      /\ Len(<<PseudoHeaderCode(order[i])>>) = 1
    OBVIOUS
  <2>1. order[i] \in PseudoHeader
    BY <1>1
  <2>2. PseudoHeaderCode(order[i]) \in Token
    BY <2>1 DEF PseudoHeader, PseudoHeaderCode, Token, Bar
  <2> QED
    BY <2>2
<1>5. parts \in [1 .. n -> Seq(Token)] /\ \A i \in 1 .. n : Len(parts[i]) = 1
  BY <1>3, <1>4, Zenon
<1>6. parts \in Seq(Seq(Token)) /\ Len(parts) = n
  BY <1>5, LenProperties, IsASeq
<1> QED
  BY <1>2, <1>5, <1>6, Zenon DEF ArePartsOf, EachHas

LEMMA SettingPartsTellApart ==
  ASSUME NEW s \in Seq(Setting), NEW t \in Seq(Setting), SettingParts(s) = SettingParts(t)
  PROVE  s = t
<1>1. PICK n \in Nat, m \in Nat : /\ n = Len(s) /\ DOMAIN s = 1 .. n
                                  /\ m = Len(t) /\ DOMAIN t = 1 .. m
  OBVIOUS
<1>2. PICK p, q : p = SettingParts(s) /\ q = SettingParts(t) /\ p = q
  BY Zenon
<1>3. /\ p = [i \in 1 .. n |-> <<s[i].id, Colon, s[i].value>>]
      /\ q = [i \in 1 .. m |-> <<t[i].id, Colon, t[i].value>>]
  BY <1>1, <1>2, Zenon DEF SettingParts
<1>4. 1 .. n = 1 .. m
  BY <1>2, <1>3, Zenon
<1>5. n = m
  BY <1>4
<1>6. \A i \in 1 .. n : s[i] = t[i]
  <2> SUFFICES ASSUME NEW i \in 1 .. n PROVE s[i] = t[i]
    OBVIOUS
  <2>1. <<s[i].id, Colon, s[i].value>> = <<t[i].id, Colon, t[i].value>>
    BY <1>2, <1>3, <1>5, Zenon
  <2>2. PICK a \in Setting, b \in Setting : a = s[i] /\ b = t[i]
    BY <1>1, <1>5
  <2>3. a.id = b.id /\ a.value = b.value
    BY <2>1, <2>2
  <2>4. a = b
    BY <2>3 DEF Setting
  <2> QED
    BY <2>2, <2>4, Zenon
<1> QED
  BY <1>1, <1>5, <1>6, SeqEqual

LEMMA PseudoPartsTellApart ==
  ASSUME NEW s \in Seq(PseudoHeader), NEW t \in Seq(PseudoHeader),
         PseudoParts(s) = PseudoParts(t)
  PROVE  s = t
<1>1. PICK n \in Nat, m \in Nat : /\ n = Len(s) /\ DOMAIN s = 1 .. n
                                  /\ m = Len(t) /\ DOMAIN t = 1 .. m
  OBVIOUS
<1>2. PICK p, q : p = PseudoParts(s) /\ q = PseudoParts(t) /\ p = q
  BY Zenon
<1>3. /\ p = [i \in 1 .. n |-> <<PseudoHeaderCode(s[i])>>]
      /\ q = [i \in 1 .. m |-> <<PseudoHeaderCode(t[i])>>]
  BY <1>1, <1>2, Zenon DEF PseudoParts
<1>4. 1 .. n = 1 .. m
  BY <1>2, <1>3, Zenon
<1>5. n = m
  BY <1>4
<1>6. \A i \in 1 .. n : s[i] = t[i]
  <2> SUFFICES ASSUME NEW i \in 1 .. n PROVE s[i] = t[i]
    OBVIOUS
  <2>1. <<PseudoHeaderCode(s[i])>> = <<PseudoHeaderCode(t[i])>>
    BY <1>2, <1>3, <1>5, Zenon
  <2>2. PseudoHeaderCode(s[i]) = PseudoHeaderCode(t[i])
    BY <2>1
  <2>3. s[i] \in PseudoHeader /\ t[i] \in PseudoHeader
    BY <1>1, <1>5
  <2> QED
    BY <2>2, <2>3 DEF PseudoHeader, PseudoHeaderCode
<1> QED
  BY <1>1, <1>5, <1>6, SeqEqual

(***************************************************************************)
(* No bar is in a list of tokens, joined by another token.                 *)
(***************************************************************************)
LEMMA JoinedTokens ==
  ASSUME NEW sep \in Token, NEW parts \in Seq(Seq(Token))
  PROVE  Join(parts, sep) \in Seq(Int) /\ FreeOf(Join(parts, sep), Bar)
<1>1. PICK joined \in Seq(Token) : joined = Join(parts, sep)
  BY SeparatedIsSeq, Zenon
<1>2. PICK n \in Nat : n = Len(joined) /\ DOMAIN joined = 1 .. n
  OBVIOUS
<1>3. \A i \in 1 .. n : joined[i] \in Token
  BY <1>2
<1>4. \A i \in 1 .. n : joined[i] \in Int /\ joined[i] # Bar
  BY <1>3, Zenon DEF Token
<1>5. joined \in Seq(Int)
  BY <1>2, <1>4, LenProperties, IsASeq
<1> QED
  BY <1>1, <1>2, <1>4, <1>5, Zenon DEF FreeOf

Connection ==
    [settings : Seq(Setting), windowUpdateIncrement : Nat, priorityFrameCount : Nat,
     pseudoHeaderOrder : Seq(PseudoHeader)]

AkamaiParts(c) ==
    [a |-> Join(SettingParts(c.settings), Semicolon), w |-> <<c.windowUpdateIncrement>>,
     p |-> <<c.priorityFrameCount>>, h |-> Join(PseudoParts(c.pseudoHeaderOrder), Comma)]

LEMMA AkamaiIsJoined ==
  ASSUME NEW c \in Connection
  PROVE  LET k == AkamaiParts(c)
         IN  /\ k.a \in Seq(Int) /\ FreeOf(k.a, Bar) /\ k.w \in Seq(Int) /\ Len(k.w) = 1
             /\ k.p \in Seq(Int) /\ Len(k.p) = 1 /\ k.h \in Seq(Int)
             /\ BuildAkamaiFingerprint(c) = Join(<<k.a, k.w, k.p, k.h>>, Bar)
<1>1. PICK settings \in Seq(Setting), order \in Seq(PseudoHeader), w \in Nat, p \in Nat :
         /\ settings = c.settings /\ order = c.pseudoHeaderOrder
         /\ w = c.windowUpdateIncrement /\ p = c.priorityFrameCount
  BY DEF Connection
<1>2. Semicolon \in Token /\ Comma \in Token
  BY DEF Token, Semicolon, Comma, Bar
<1>3. PICK a \in Seq(Int) : a = Join(SettingParts(settings), Semicolon) /\ FreeOf(a, Bar)
  <2>1. SettingParts(settings) \in Seq(Seq(Token))
    BY SettingPartsAreParts, Zenon DEF ArePartsOf
  <2> QED
    BY <1>2, <2>1, JoinedTokens, Zenon
<1>4. PICK h \in Seq(Int) : h = Join(PseudoParts(order), Comma)
  <2>1. PseudoParts(order) \in Seq(Seq(Token))
    BY PseudoPartsAreParts, Zenon DEF ArePartsOf
  <2> QED
    BY <1>2, <2>1, JoinedTokens, Zenon
<1>5. <<w>> \in Seq(Int) /\ Len(<<w>>) = 1 /\ <<p>> \in Seq(Int) /\ Len(<<p>>) = 1
  OBVIOUS
<1>6. BuildAkamaiFingerprint(c) = Join(<<a, <<w>>, <<p>>, h>>, Bar)
  BY <1>1, <1>3, <1>4, Zenon DEF BuildAkamaiFingerprint, SettingParts, PseudoParts
<1>7. /\ AkamaiParts(c).a = a /\ AkamaiParts(c).w = <<w>> /\ AkamaiParts(c).p = <<p>>
      /\ AkamaiParts(c).h = h
  BY <1>1, <1>3, <1>4 DEF AkamaiParts
<1> QED
  BY <1>3, <1>5, <1>6, <1>7, Zenon

LEMMA SameFields ==
  ASSUME NEW A, NEW B, NEW C, NEW D,
         NEW c \in [settings : A, windowUpdateIncrement : B, priorityFrameCount : C,
                     pseudoHeaderOrder : D],
         NEW d \in [settings : A, windowUpdateIncrement : B, priorityFrameCount : C,
                     pseudoHeaderOrder : D],
         c.settings = d.settings, c.windowUpdateIncrement = d.windowUpdateIncrement,
         c.priorityFrameCount = d.priorityFrameCount,
         c.pseudoHeaderOrder = d.pseudoHeaderOrder
  PROVE  c = d
OBVIOUS

LEMMA AkamaiTellsApart ==
  ASSUME NEW c \in Connection, NEW d \in Connection,
         BuildAkamaiFingerprint(c) = BuildAkamaiFingerprint(d)
  PROVE  c = d
<1>1. PICK a \in Seq(Int), w \in Seq(Int), p \in Seq(Int), h \in Seq(Int) :
         /\ a = AkamaiParts(c).a /\ w = AkamaiParts(c).w
         /\ p = AkamaiParts(c).p /\ h = AkamaiParts(c).h
         /\ FreeOf(a, Bar) /\ Len(w) = 1 /\ Len(p) = 1
         /\ BuildAkamaiFingerprint(c) = Join(<<a, w, p, h>>, Bar)
  BY AkamaiIsJoined, Zenon
<1>2. PICK aa \in Seq(Int), ww \in Seq(Int), pp \in Seq(Int), hh \in Seq(Int) :
         /\ aa = AkamaiParts(d).a /\ ww = AkamaiParts(d).w
         /\ pp = AkamaiParts(d).p /\ hh = AkamaiParts(d).h
         /\ FreeOf(aa, Bar) /\ Len(ww) = 1 /\ Len(pp) = 1
         /\ BuildAkamaiFingerprint(d) = Join(<<aa, ww, pp, hh>>, Bar)
  BY AkamaiIsJoined, Zenon
<1>3. Bar \in Int
  BY DEF Bar
<1>4. Segments(Bar, a, w, p, h) = Segments(Bar, aa, ww, pp, hh)
  <2>1. AreSegments(Bar, a, w, p, h)
    BY <1>3, FourSegments, Zenon
  <2>2. AreSegments(Bar, aa, ww, pp, hh)
    BY <1>3, FourSegments, Zenon
  <2> QED
    BY <1>1, <1>2, <2>1, <2>2, Zenon DEF AreSegments
<1>5. SameSegments(a, w, p, h, aa, ww, pp, hh)
  <2>1. Len(w) = Len(ww) /\ Len(p) = Len(pp)
    BY <1>1, <1>2, Zenon
  <2>2. FreeOf(a, Bar) /\ FreeOf(aa, Bar)
    BY <1>1, <1>2, Zenon
  <2> QED
    BY <1>3, <1>4, <2>1, <2>2, SegmentsTellApart, Zenon
<1>6. /\ c.settings \in Seq(Setting) /\ d.settings \in Seq(Setting)
      /\ c.pseudoHeaderOrder \in Seq(PseudoHeader) /\ d.pseudoHeaderOrder \in Seq(PseudoHeader)
  BY DEF Connection
<1>7. /\ Join(SettingParts(c.settings), Semicolon) = Join(SettingParts(d.settings), Semicolon)
      /\ Join(PseudoParts(c.pseudoHeaderOrder), Comma)
           = Join(PseudoParts(d.pseudoHeaderOrder), Comma)
      /\ <<c.windowUpdateIncrement>> = <<d.windowUpdateIncrement>>
      /\ <<c.priorityFrameCount>> = <<d.priorityFrameCount>>
  BY <1>1, <1>2, <1>5 DEF AkamaiParts, SameSegments
<1>8. Semicolon \in Token /\ Comma \in Token /\ 3 \in Nat \ {0} /\ 1 \in Nat \ {0}
  BY DEF Token, Semicolon, Comma, Bar
<1>9. c.settings = d.settings
  <2>1. /\ ArePartsOf(SettingParts(c.settings), 3) /\ ArePartsOf(SettingParts(d.settings), 3)
    BY <1>6, SettingPartsAreParts, Zenon
  <2>2. SettingParts(c.settings) = SettingParts(d.settings)
    BY <1>7, <1>8, <2>1, JoinTellsApart, Zenon DEF ArePartsOf
  <2> QED
    BY <1>6, <2>2, SettingPartsTellApart, Zenon
<1>10. c.pseudoHeaderOrder = d.pseudoHeaderOrder
  <2>1. /\ ArePartsOf(PseudoParts(c.pseudoHeaderOrder), 1)
        /\ ArePartsOf(PseudoParts(d.pseudoHeaderOrder), 1)
    BY <1>6, PseudoPartsAreParts, Zenon
  <2>2. PseudoParts(c.pseudoHeaderOrder) = PseudoParts(d.pseudoHeaderOrder)
    BY <1>7, <1>8, <2>1, JoinTellsApart, Zenon DEF ArePartsOf
  <2> QED
    BY <1>6, <2>2, PseudoPartsTellApart, Zenon
<1>11. /\ c.windowUpdateIncrement = d.windowUpdateIncrement
       /\ c.priorityFrameCount = d.priorityFrameCount
  BY <1>7
<1> QED
  BY <1>9, <1>10, <1>11, SameFields, Zenon DEF Connection

(***************************************************************************)
(* What a call of one of the two functions returns.                        *)
(***************************************************************************)
CalledFingerprint ==
    /\ call.function = "computeJa4h" =>
          call.request \in Requests /\ result = ComputeJa4h(call.request)
    /\ call.function = "buildAkamaiFingerprint" =>
          call.input \in Connections /\ result = BuildAkamaiFingerprint(call.input)

(***************************************************************************)
(* The HTTP fingerprints tell apart what they should, for headers, cookies *)
(* and settings in any number and strings of any length: requests that are *)
(* the same have one JA4H, and those with one JA4H are the same unless a   *)
(* comma or an empty name makes their lists ambiguous.                     *)
(***************************************************************************)
THEOREM FingerprintsAlwaysTellApart == Spec => []FingerprintsTellApart
<1>1. Init => CalledFingerprint
  BY DEF Init, CalledFingerprint
<1>2. CalledFingerprint /\ [Next]_suitesVars => CalledFingerprint'
  <2> SUFFICES ASSUME CalledFingerprint, [Next]_suitesVars PROVE CalledFingerprint'
    OBVIOUS
  <2>1. CASE Certify
    BY <2>1 DEF Certify, Returns, CalledFingerprint
  <2>2. CASE CheckHttp1
    BY <2>2 DEF CheckHttp1, Returns, CalledFingerprint
  <2>3. CASE CheckHttp2
    BY <2>3 DEF CheckHttp2, Returns, CalledFingerprint
  <2>4. CASE FingerprintRequest
    <3>1. PICK r \in Requests :
             Returns([function |-> "computeJa4h", request |-> r], ComputeJa4h(r))
      BY <2>4 DEF FingerprintRequest
    <3> QED
      BY <3>1 DEF Returns, CalledFingerprint
  <2>5. CASE FingerprintConnection
    <3>1. PICK c \in Connections :
             Returns([function |-> "buildAkamaiFingerprint", input |-> c],
                     BuildAkamaiFingerprint(c))
      BY <2>5 DEF FingerprintConnection
    <3> QED
      BY <3>1 DEF Returns, CalledFingerprint
  <2>6. CASE Benchmark
    BY <2>6 DEF Benchmark, Returns, CalledFingerprint
  <2>7. CASE UNCHANGED suitesVars
    BY <2>7 DEF suitesVars, CalledFingerprint
  <2> QED
    BY <2>1, <2>2, <2>3, <2>4, <2>5, <2>6, <2>7 DEF Next
<1>3. CalledFingerprint => FingerprintsTellApart
  <2> SUFFICES ASSUME CalledFingerprint PROVE FingerprintsTellApart
    OBVIOUS
  <2>1. ASSUME call.function = "computeJa4h", NEW r \in Requests
        PROVE  /\ SameRequest(call.request, r) => result = Ja4hOf[r]
               /\ result = Ja4hOf[r] /\ Unambiguous(call.request) /\ Unambiguous(r)
                     => SameRequest(call.request, r)
    <3>1. PICK q \in Requests : q = call.request /\ result = ComputeJa4h(q)
      BY <2>1, Zenon DEF CalledFingerprint
    <3>2. IsRequest(q) /\ IsRequest(r)
      BY <2>1, <3>1, RequestAssumption, Zenon DEF IsRequest, Methods, Text
    <3>3. Ja4hOf[r] = ComputeJa4h(r)
      BY <2>1, Zenon DEF Ja4hOf
    <3> QED
      BY <3>1, <3>2, <3>3, SameRequestOneJa4h, OneJa4hSameRequest, Zenon
  <2>2. ASSUME call.function = "buildAkamaiFingerprint", NEW c \in Connections
        PROVE  result = AkamaiOf[c] <=> call.input = c
    <3>1. PICK d \in Connections : d = call.input /\ result = BuildAkamaiFingerprint(d)
      BY <2>2, Zenon DEF CalledFingerprint
    <3>2. c \in Connection /\ d \in Connection
      BY <2>2, <3>1, ConnectionAssumption, Zenon DEF Connection, Setting, PseudoHeader
    <3>3. BuildAkamaiFingerprint(d) = BuildAkamaiFingerprint(c) => d = c
      BY <3>2, AkamaiTellsApart, Zenon
    <3>4. AkamaiOf[c] = BuildAkamaiFingerprint(c)
      BY <2>2, Zenon DEF AkamaiOf
    <3> QED
      BY <3>1, <3>3, <3>4, Zenon
  <2> QED
    BY <2>1, <2>2, Zenon DEF FingerprintsTellApart
<1> QED
  BY <1>1, <1>2, <1>3, PTL DEF Spec

=============================================================================
