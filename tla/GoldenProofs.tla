---------------------------- MODULE GoldenProofs ----------------------------
(***************************************************************************)
(* Theorems about the masking of byte ranges, for lists of any length, and *)
(* about the golden comparisons, for any files and any rewriting of them.  *)
(***************************************************************************)
EXTENDS Golden, SequenceLemmas

RangeLists == Seq([byteOffset : Nat, length : Nat, reason : Reasons])

SortedByOffset(ranges) ==
    \A j, k \in 1 .. Len(ranges) : j <= k => ranges[j].byteOffset <= ranges[k].byteOffset

(***************************************************************************)
(* On ranges sorted by offset the early exits of isMasked() lose nothing:  *)
(* a position is masked exactly if some range covers it, whether ranges    *)
(* overlap, nest, touch or are empty.                                      *)
(***************************************************************************)
THEOREM EarlyExitIsSound ==
  ASSUME NEW ranges \in RangeLists, SortedByOffset(ranges), NEW i \in Nat
  PROVE  IsMasked(ranges, i) <=> Covered(ranges, i)
<1> DEFINE D == Deciding(ranges, i)
<1>1. /\ Len(ranges) \in Nat
      /\ \A k \in 1 .. Len(ranges) :
            ranges[k].byteOffset \in Nat /\ ranges[k].length \in Nat
  <2>1. ranges \in Seq([byteOffset : Nat, length : Nat, reason : Reasons])
    BY DEF RangeLists
  <2>2. /\ Len(ranges) \in Nat
        /\ \A k \in 1 .. Len(ranges) :
                ranges[k] \in [byteOffset : Nat, length : Nat, reason : Reasons]
    BY <2>1, LenProperties, ElementOfSeq
  <2> QED
    BY <2>2
<1>2. D \in SUBSET Nat /\ D \subseteq 1 .. Len(ranges)
  BY <1>1 DEF Deciding
<1>3. ASSUME IsMasked(ranges, i) PROVE Covered(ranges, i)
  <2>1. D # {} /\ ~(i < ranges[Min(D)].byteOffset)
    BY <1>3 DEF IsMasked
  <2>2. Min(D) \in D
    BY <1>2, <2>1, MinOfNats
  <2>3. Covers(ranges[Min(D)], i)
    BY <1>1, <1>2, <2>1, <2>2 DEF Deciding, Covers
  <2> QED
    BY <1>2, <2>2, <2>3 DEF Covered
<1>4. ASSUME Covered(ranges, i) PROVE IsMasked(ranges, i)
  <2>1. PICK k \in 1 .. Len(ranges) : Covers(ranges[k], i)
    BY <1>4 DEF Covered
  <2>2. k \in D
    BY <2>1 DEF Deciding, Covers
  <2>3. Min(D) \in D /\ Min(D) <= k
    BY <1>2, <2>2, MinOfNats
  <2>4. ranges[Min(D)].byteOffset <= ranges[k].byteOffset
    BY <1>2, <2>1, <2>3 DEF SortedByOffset
  <2>5. ~(i < ranges[Min(D)].byteOffset)
    BY <1>1, <1>2, <2>1, <2>3, <2>4 DEF Covers
  <2> QED
    BY <2>2, <2>5 DEF IsMasked
<1> QED
  BY <1>3, <1>4

-----------------------------------------------------------------------------
(***************************************************************************)
(* The ranges that compareBytesWithIgnore() walks are those it was given,  *)
(* and sorted: it masks exactly what a field covers.                       *)
(***************************************************************************)
LEMMA SortedMasksCovered ==
  ASSUME NEW fields \in RangeLists, NEW i \in Nat
  PROVE  IsMasked(SortedRanges(fields), i) <=> Covered(fields, i)
<1> DEFINE n == Len(fields)
           key == [k \in 1 .. n |-> fields[k].byteOffset]
           Masked == [byteOffset : Nat, length : Nat, reason : Reasons]
<1>0. PICK order : order = SortingOrder(key)
  OBVIOUS
<1> DEFINE ranges == [k \in 1 .. n |-> fields[order[k]]]
<1>1. n \in Nat /\ DOMAIN fields = 1 .. n /\ \A k \in 1 .. n : fields[k] \in Masked
  <2>1. fields \in Seq(Masked)
    BY DEF RangeLists
  <2> HIDE DEF Masked
  <2> QED
    BY <2>1, LenProperties, ElementOfSeq
<1>2. SortedRanges(fields) = ranges
  BY <1>0, <1>1 DEF SortedRanges
<1>3. key \in [1 .. n -> Int]
  BY <1>1
<1>4. /\ \A k \in 1 .. n : order[k] \in 1 .. n
      /\ \A k \in 1 .. n : \E j \in 1 .. n : order[j] = k
      /\ \A j, k \in 1 .. n : j <= k => key[order[j]] <= key[order[k]]
  <2> HIDE DEF key, n
  <2>1. n \in Nat
    BY <1>1
  <2>2. Sorts(order, key, n)
    BY <1>0, <1>3, <2>1, SortingOrderSorts, Zenon
  <2> QED
    BY <2>2 DEF Sorts
<1>5. ranges \in Seq(Masked) /\ Len(ranges) = n
  <2> HIDE DEF Masked, n
  <2> QED
    BY <1>1, <1>4
<1>6. ranges \in RangeLists /\ SortedByOffset(ranges)
  <2>1. \A k \in 1 .. n : ranges[k].byteOffset = key[order[k]]
    BY <1>4
  <2> QED
    BY <1>4, <1>5, <2>1 DEF RangeLists, SortedByOffset
<1>7. Covered(ranges, i) <=> Covered(fields, i)
  <2>1. ASSUME NEW k \in 1 .. n, Covers(fields[k], i)
        PROVE  \E j \in 1 .. n : Covers(ranges[j], i)
    <3>1. PICK j \in 1 .. n : order[j] = k
      BY <1>4
    <3>2. ranges[j] = fields[k]
      BY <3>1
    <3> QED
      BY <2>1, <3>2
  <2>2. ASSUME NEW j \in 1 .. n, Covers(ranges[j], i)
        PROVE  \E k \in 1 .. n : Covers(fields[k], i)
    BY <1>4, <2>2
  <2> HIDE DEF ranges
  <2> QED
    BY <1>5, <2>1, <2>2 DEF Covered
<1> QED
  BY <1>2, <1>6, <1>7, EarlyExitIsSound, Zenon

TellsFirst(verdict, divergent) ==
    /\ verdict.matches <=> divergent = {}
    /\ verdict.index \in divergent \/ verdict.index = NoIndex
    /\ \A i \in divergent : verdict.index <= i

(***************************************************************************)
(* The verdict of compareBytesWithIgnore() is the first position of the    *)
(* longer array that diverges and that no field covers.                    *)
(***************************************************************************)
LEMMA ToleranceIsReference ==
  ASSUME NEW x \in Seq(Nat), NEW y \in Seq(Nat), NEW fields \in RangeLists,
         NEW divergent,
         divergent = {i \in 0 .. Len(x) + Len(y) :
                        /\ i < Len(x) \/ i < Len(y)
                        /\ Diverges(x, y, i)
                        /\ ~Covered(fields, i)},
         NEW verdict, verdict = CompareBytesWithIgnore(x, y, fields)
  PROVE  TellsFirst(verdict, divergent)
<1> DEFINE top == Max({Len(x), Len(y)})
           scanned == {i \in 0 .. top - 1 :
                          Diverges(x, y, i) /\ ~IsMasked(SortedRanges(fields), i)}
<1>1. Len(x) \in Nat /\ Len(y) \in Nat
  OBVIOUS
<1>2. top = Len(x) \/ top = Len(y)
  <2>1. \E m \in {Len(x), Len(y)} : \A k \in {Len(x), Len(y)} : m >= k
    BY <1>1
  <2>2. top \in {Len(x), Len(y)}
    BY <2>1, Zenon DEF Max
  <2> QED
    BY <2>2
<1>3. top >= Len(x) /\ top >= Len(y)
  <2>1. \E m \in {Len(x), Len(y)} : \A k \in {Len(x), Len(y)} : m >= k
    BY <1>1
  <2>2. \A k \in {Len(x), Len(y)} : top >= k
    BY <2>1, Zenon DEF Max
  <2> QED
    BY <2>2
<1> HIDE DEF top
<1>4. \A i \in Int : i \in 0 .. top - 1
                       <=> i \in 0 .. Len(x) + Len(y) /\ (i < Len(x) \/ i < Len(y))
  BY <1>1, <1>2, <1>3
<1>5. scanned = divergent
  <2>1. \A i \in Nat : IsMasked(SortedRanges(fields), i) <=> Covered(fields, i)
    BY SortedMasksCovered
  <2>2. ASSUME NEW i \in scanned PROVE i \in divergent
    BY <1>4, <2>1, <2>2
  <2>3. ASSUME NEW i \in divergent PROVE i \in scanned
    BY <1>4, <2>1, <2>3
  <2> QED
    BY <2>2, <2>3
<1>6. verdict = ScanFor(divergent)
  <2>1. CompareBytesWithIgnore(x, y, fields) = ScanFor(scanned)
    BY DEF CompareBytesWithIgnore, top
  <2> QED
    BY <1>5, <2>1
<1>7. divergent \in SUBSET Nat
  BY <1>1
<1>8. CASE divergent = {}
  <2>1. verdict = [matches |-> TRUE, index |-> NoIndex]
    BY <1>6, <1>8 DEF ScanFor, Matching, Verdict
  <2> QED
    BY <1>8, <2>1, SMTT(20) DEF TellsFirst
<1>9. CASE divergent # {}
  <2>1. Min(divergent) \in divergent /\ \A i \in divergent : Min(divergent) <= i
    BY <1>7, <1>9, MinOfNats
  <2>2. verdict = [matches |-> FALSE, index |-> Min(divergent)]
    BY <1>6, <1>9 DEF ScanFor, Verdict
  <2> QED
    BY <1>9, <2>1, <2>2 DEF TellsFirst
<1> QED
  BY <1>8, <1>9

-----------------------------------------------------------------------------
(***************************************************************************)
(* Arrays that compareBytes() finds equal are equal to                     *)
(* compareBytesWithIgnore() too, whatever it is told to ignore.            *)
(***************************************************************************)
LEMMA EqualIsTolerated ==
  ASSUME NEW x \in Seq(Nat), NEW y \in Seq(Nat), NEW fields,
         CompareBytes(x, y).matches
  PROVE  CompareBytesWithIgnore(x, y, fields) = Matching
<1> DEFINE n == Len(x)
           apart == {i \in 0 .. n - 1 : At(x, i) # At(y, i)}
           masked == {i \in 0 .. n - 1 : Diverges(x, y, i) /\ ~IsMasked(SortedRanges(fields), i)}
<1>1. n \in Nat
  OBVIOUS
<1>2. Len(y) = n /\ apart = {}
  BY DEF CompareBytes, ScanFor, Verdict, Matching
<1>3. Max({Len(x), Len(y)}) = n
  <2>1. {Len(x), Len(y)} = {n}
    BY <1>2
  <2>2. n \in {n} /\ \A k \in {n} : n >= k
    BY <1>1
  <2>3. Max({n}) \in {n}
    BY <2>2, Zenon DEF Max
  <2> QED
    BY <2>1, <2>3
<1>4. masked = {}
  <2>1. ASSUME NEW i \in 0 .. n - 1 PROVE ~Diverges(x, y, i)
    <3>1. At(x, i) = At(y, i)
      BY <1>2
    <3>2. ~(i >= Len(x)) /\ ~(i >= Len(y))
      BY <1>1, <1>2
    <3> QED
      BY <3>1, <3>2 DEF Diverges
  <2> QED
    BY <2>1
<1>5. CompareBytesWithIgnore(x, y, fields) = ScanFor(masked)
  BY <1>3 DEF CompareBytesWithIgnore
<1> QED
  BY <1>4, <1>5 DEF ScanFor

(***************************************************************************)
(* Why a strict match carries over: what a quiet call has read is what is  *)
(* on disk, and an agreement is about what is on disk.                     *)
(***************************************************************************)
CallIsRecord ==
    call = [op |-> call.op, pc |-> call.pc, id |-> call.id, actual |-> call.actual,
            bytes |-> call.bytes, fields |-> call.fields, result |-> call.result,
            index |-> call.index, quiet |-> call.quiet]

FilesAreBytes ==
    /\ DOMAIN bin = Paths
    /\ \A p \in Paths : bin[p].ok => bin[p].data \in Seq(Nat)
    /\ DOMAIN meta = Paths

OnDisk ==
    /\ call.pc \in {"bytes", "sidecar", "masks", "done"}
    /\ call.quiet \in BOOLEAN
    /\ call.actual \in Seq(Nat)
    /\ call.pc # "done" => call.id \in Paths
    /\ call.pc = "masks" => call.op = "tolerant"
    /\ ~call.quiet => agreed = {}
    /\ call.quiet /\ call.pc \in {"sidecar", "masks"} =>
            bin[call.id].ok /\ call.bytes = bin[call.id].data

AgreedOnDisk ==
    \A id, actual : <<id, actual>> \in agreed =>
        /\ id \in Paths
        /\ actual \in Seq(Nat)
        /\ bin[id].ok /\ MetaLoads(id)
        /\ CompareBytes(actual, bin[id].data).matches

GoldenInv ==
    CallIsRecord /\ FilesAreBytes /\ OnDisk /\ AgreedOnDisk /\ StrictImpliesTolerant

LEMMA GoldenInit == Init => GoldenInv
<1> SUFFICES ASSUME Init PROVE GoldenInv
  OBVIOUS
<1>1. CallIsRecord /\ OnDisk
  BY DEF Init, NoCall, CallIsRecord, OnDisk
<1>2. FilesAreBytes
  <2>1. ASSUME NEW p \in Paths, bin[p].ok PROVE bin[p].data \in Seq(Nat)
    <3>1. bin[p] \in {Readable(c) : c \in Contents} \cup {Unreadable}
      BY DEF Init
    <3>2. bin[p] # Unreadable
      BY <2>1 DEF Unreadable
    <3>3. PICK c \in Contents : bin[p] = Readable(c)
      BY <3>1, <3>2
    <3> QED
      BY <3>3, BytesAssumption DEF Readable
  <2> QED
    BY <2>1 DEF Init, FilesAreBytes
<1>3. AgreedOnDisk /\ StrictImpliesTolerant
  BY DEF Init, AgreedOnDisk, StrictImpliesTolerant
<1> QED
  BY <1>1, <1>2, <1>3 DEF GoldenInv

LEMMA StartKeeps ==
  ASSUME GoldenInv, NEW op \in {"strict", "tolerant"}, NEW id \in Ids,
         NEW actual \in Actuals, Start(op, id, actual)
  PROVE  GoldenInv'
<1> USE DEF GoldenInv
<1>0. actual \in Seq(Nat)
  BY BytesAssumption
<1>1. CallIsRecord' /\ OnDisk'
  BY <1>0 DEF Start, NoCall, CallIsRecord, OnDisk, Paths
<1>2. FilesAreBytes' /\ AgreedOnDisk'
  BY DEF Start, FilesAreBytes, AgreedOnDisk, MetaLoads
<1>3. StrictImpliesTolerant'
  <2>1. call'.pc = "done" => ~parseCaptureId(id)
    BY DEF Start, NoCall
  <2>2. call'.id = id /\ agreed' = agreed
    BY DEF Start, NoCall
  <2>3. id \notin Paths => <<id, call'.actual>> \notin agreed
    BY DEF AgreedOnDisk
  <2> QED
    BY <2>1, <2>2, <2>3 DEF StrictImpliesTolerant, Paths
<1> QED
  BY <1>1, <1>2, <1>3

LEMMA ReadBytesKeeps ==
  ASSUME GoldenInv, ReadBytes
  PROVE  GoldenInv'
<1> USE DEF GoldenInv
<1>1. call.id \in Paths /\ call.pc = "bytes"
  BY DEF ReadBytes, OnDisk
<1>2. CallIsRecord' /\ OnDisk'
  <2>1. CASE bin[call.id].ok
    BY <1>1, <2>1 DEF ReadBytes, CallIsRecord, OnDisk
  <2>2. CASE ~bin[call.id].ok
    BY <1>1, <2>2 DEF ReadBytes, Throw, CallIsRecord, OnDisk
  <2> QED
    BY <2>1, <2>2
<1>3. FilesAreBytes' /\ AgreedOnDisk'
  BY DEF ReadBytes, FilesAreBytes, AgreedOnDisk, MetaLoads
<1>4. StrictImpliesTolerant'
  <2>1. call'.pc = "done" => ~bin[call.id].ok
    BY <1>1 DEF ReadBytes, CallIsRecord
  <2>2. call'.id = call.id /\ call'.actual = call.actual /\ agreed' = agreed
    BY DEF ReadBytes, Throw, CallIsRecord
  <2>3. ~bin[call.id].ok => <<call.id, call.actual>> \notin agreed
    BY DEF AgreedOnDisk
  <2> QED
    BY <2>1, <2>2, <2>3 DEF StrictImpliesTolerant
<1> QED
  BY <1>2, <1>3, <1>4

LEMMA StrictKeeps ==
  ASSUME GoldenInv, call.pc = "sidecar", call.op = "strict", MetaLoads(call.id),
         CompareStrictly, UNCHANGED <<bin, meta, writes>>
  PROVE  GoldenInv'
<1> USE DEF GoldenInv
<1> DEFINE verdict == CompareBytes(call.actual, call.bytes)
<1>1. /\ call'.pc = "done" /\ call'.op = "strict"
      /\ call'.quiet = call.quiet /\ call'.actual = call.actual
      /\ CallIsRecord'
  BY DEF CompareStrictly, Conclude, CallIsRecord
<1>2. agreed' = IF verdict.matches /\ call.quiet
                THEN agreed \cup {<<call.id, call.actual>>} ELSE agreed
  BY DEF CompareStrictly
<1>3. OnDisk'
  BY <1>1, <1>2 DEF OnDisk
<1>4. FilesAreBytes'
  BY DEF FilesAreBytes
<1>5. AgreedOnDisk'
  <2> SUFFICES ASSUME NEW id, NEW actual, <<id, actual>> \in agreed'
               PROVE  /\ id \in Paths
                      /\ actual \in Seq(Nat)
                      /\ bin[id].ok /\ MetaLoads(id)
                      /\ CompareBytes(actual, bin[id].data).matches
    BY DEF AgreedOnDisk, MetaLoads
  <2>1. CASE <<id, actual>> \in agreed
    BY <2>1 DEF AgreedOnDisk
  <2>2. CASE <<id, actual>> \notin agreed
    <3>1. verdict.matches /\ call.quiet /\ id = call.id /\ actual = call.actual
      BY <1>2, <2>2
    <3> QED
      BY <3>1 DEF OnDisk
  <2> QED
    BY <2>1, <2>2
<1>6. StrictImpliesTolerant'
  BY <1>1 DEF StrictImpliesTolerant
<1> QED
  BY <1>1, <1>3, <1>4, <1>5, <1>6

LEMMA ReadSidecarKeeps ==
  ASSUME GoldenInv, ReadSidecar
  PROVE  GoldenInv'
<1> USE DEF GoldenInv
<1>1. call.pc = "sidecar"
  BY DEF ReadSidecar
<1>2. CASE ~MetaLoads(call.id) /\ Throw /\ UNCHANGED agreed
  <2>1. CallIsRecord' /\ OnDisk'
    BY <1>1, <1>2 DEF Throw, CallIsRecord, OnDisk
  <2>2. FilesAreBytes' /\ AgreedOnDisk'
    BY <1>2 DEF ReadSidecar, FilesAreBytes, AgreedOnDisk, MetaLoads
  <2>3. StrictImpliesTolerant'
    BY <1>2 DEF Throw, CallIsRecord, AgreedOnDisk, StrictImpliesTolerant
  <2> QED
    BY <2>1, <2>2, <2>3
<1>3. CASE MetaLoads(call.id) /\ call.op = "strict" /\ CompareStrictly
  BY <1>1, <1>3, StrictKeeps DEF ReadSidecar
<1>4. CASE /\ MetaLoads(call.id) /\ call.op = "tolerant"
           /\ call' = [call EXCEPT !.pc = "masks"] /\ UNCHANGED agreed
  <2>1. CallIsRecord' /\ OnDisk'
    BY <1>1, <1>4 DEF ReadSidecar, CallIsRecord, OnDisk
  <2>2. FilesAreBytes' /\ AgreedOnDisk'
    BY <1>4 DEF ReadSidecar, FilesAreBytes, AgreedOnDisk, MetaLoads
  <2>3. StrictImpliesTolerant'
    BY <1>4 DEF CallIsRecord, StrictImpliesTolerant
  <2> QED
    BY <2>1, <2>2, <2>3
<1> QED
  BY <1>2, <1>3, <1>4 DEF ReadSidecar

(***************************************************************************)
(* The heart of the argument.  A tolerant call that somebody has agreed    *)
(* with is quiet: it compares with the bytes the strict call has seen, and *)
(* the sidecar loads as it did then.                                       *)
(***************************************************************************)
LEMMA ReadMasksKeeps ==
  ASSUME GoldenInv, ReadMasks
  PROVE  GoldenInv'
<1> USE DEF GoldenInv
<1>1. call.pc = "masks" /\ call.id \in Paths
  BY DEF ReadMasks, OnDisk
<1>2. CallIsRecord' /\ OnDisk'
  BY <1>1 DEF ReadMasks, Throw, Conclude, CallIsRecord, OnDisk
<1>3. FilesAreBytes' /\ AgreedOnDisk'
  BY DEF ReadMasks, FilesAreBytes, AgreedOnDisk, MetaLoads
<1>4. StrictImpliesTolerant'
  <2> SUFFICES ASSUME <<call.id, call.actual>> \in agreed
               PROVE  call'.result = "match"
    BY DEF ReadMasks, Throw, Conclude, CallIsRecord, StrictImpliesTolerant
  <2> DEFINE fields == meta[call.id].data.randomizedFields
  <2>1. bin[call.id].ok /\ MetaLoads(call.id) /\ call.actual \in Seq(Nat)
        /\ CompareBytes(call.actual, bin[call.id].data).matches
    BY DEF AgreedOnDisk
  <2>2. call.bytes = bin[call.id].data
    BY <1>1 DEF OnDisk
  <2>3. call.bytes \in Seq(Nat)
    BY <1>1, <2>1, <2>2 DEF FilesAreBytes
  <2>4. CompareBytesWithIgnore(call.actual, call.bytes, fields) = Matching
    BY <2>1, <2>2, <2>3, EqualIsTolerated
  <2>5. Conclude(fields, Matching)
    BY <2>1, <2>4 DEF ReadMasks
  <2> QED
    BY <2>5 DEF Conclude, Matching, Verdict, CallIsRecord
<1> QED
  BY <1>2, <1>3, <1>4

LEMMA RewriteKeepsBytes ==
  ASSUME FilesAreBytes, NEW path \in Paths, RewriteBytes(path) \/ RewriteSidecar(path)
  PROVE  FilesAreBytes'
<1>1. CASE RewriteBytes(path)
  <2>1. PICK c \in NewContents : bin' = [bin EXCEPT ![path] = Readable(c)]
    BY <1>1 DEF RewriteBytes
  <2>2. c \in Seq(Nat) /\ Readable(c).data = c
    BY BytesAssumption DEF Readable
  <2> QED
    BY <1>1, <2>1, <2>2 DEF RewriteBytes, FilesAreBytes
<1>2. CASE RewriteSidecar(path)
  BY <1>2 DEF RewriteSidecar, FilesAreBytes
<1> QED
  BY <1>1, <1>2

LEMMA RewriteKeeps ==
  ASSUME GoldenInv, NEW path \in Paths, RewriteBytes(path) \/ RewriteSidecar(path)
  PROVE  GoldenInv'
<1> USE DEF GoldenInv
<1>1. Disturb
  BY DEF RewriteBytes, RewriteSidecar
<1>2. CallIsRecord' /\ OnDisk' /\ AgreedOnDisk' /\ StrictImpliesTolerant'
  BY <1>1 DEF Disturb, CallIsRecord, OnDisk, AgreedOnDisk, StrictImpliesTolerant
<1>3. FilesAreBytes'
  BY RewriteKeepsBytes
<1> QED
  BY <1>2, <1>3

(***************************************************************************)
(* What compareAgainstGolden() accepts,  compareAgainstGoldenWithIgnore()  *)
(* accepts as well unless a file was rewritten since the first call began, *)
(* whatever the files hold and whatever is rewritten before.               *)
(***************************************************************************)
THEOREM StrictCarriesOver == Spec => []StrictImpliesTolerant
<1>1. GoldenInv /\ [Next]_goldenVars => GoldenInv'
  <2> SUFFICES ASSUME GoldenInv, [Next]_goldenVars PROVE GoldenInv'
    OBVIOUS
  <2>1. ASSUME NEW op \in {"strict", "tolerant"}, NEW id \in Ids, NEW actual \in Actuals,
               Start(op, id, actual)
        PROVE  GoldenInv'
    BY <2>1, StartKeeps
  <2>2. CASE ReadBytes
    BY <2>2, ReadBytesKeeps
  <2>3. CASE ReadSidecar
    BY <2>3, ReadSidecarKeeps
  <2>4. CASE ReadMasks
    BY <2>4, ReadMasksKeeps
  <2>5. ASSUME NEW path \in Paths, RewriteBytes(path) \/ RewriteSidecar(path)
        PROVE  GoldenInv'
    BY <2>5, RewriteKeeps
  <2>6. CASE UNCHANGED goldenVars
    BY <2>6 DEF goldenVars, GoldenInv, CallIsRecord, FilesAreBytes, OnDisk, AgreedOnDisk,
                StrictImpliesTolerant, MetaLoads
  <2> QED
    BY <2>1, <2>2, <2>3, <2>4, <2>5, <2>6 DEF Next
<1>2. GoldenInv => StrictImpliesTolerant
  BY DEF GoldenInv
<1> QED
  BY GoldenInit, <1>1, <1>2, PTL DEF Spec

-----------------------------------------------------------------------------
(***************************************************************************)
(* compareBytes() and the node oracle's compareBytesOutcome() find the     *)
(* same arrays equal, and in arrays of one length the same first           *)
(* difference.                                                             *)
(***************************************************************************)
LEMMA OracleIsCompare ==
  ASSUME NEW x \in Seq(Nat), NEW y \in Seq(Nat)
  PROVE  /\ CompareBytesOutcome(x, y).equal <=> CompareBytes(x, y).matches
         /\ ~CompareBytesOutcome(x, y).equal /\ Len(x) = Len(y) =>
                CompareBytesOutcome(x, y).firstDiff = CompareBytes(x, y).index
<1> DEFINE apart == {i \in 0 .. Len(x) - 1 : At(x, i) # At(y, i)}
<1>1. BytesEqual(x, y) <=> Len(x) = Len(y) /\ apart = {}
  BY DEF BytesEqual
<1>2. CompareBytes(x, y).matches <=> Len(x) = Len(y) /\ apart = {}
  BY DEF CompareBytes, ScanFor, Verdict, Matching
<1>3. ASSUME Len(x) = Len(y), apart # {}
      PROVE  FirstDiff(x, y) = Min(apart) /\ CompareBytes(x, y).index = Min(apart)
  <2>1. Min({Len(x), Len(y)}) = Len(x)
    <3>1. {Len(x), Len(y)} = {Len(x)} /\ {Len(x)} \in SUBSET Nat
      BY <1>3
    <3> QED
      BY <3>1, MinOfNats
  <2>2. FirstDiff(x, y) = Min(apart)
    BY <1>3, <2>1 DEF FirstDiff
  <2>3. CompareBytes(x, y) = Verdict(FALSE, Min(apart))
    BY <1>3 DEF CompareBytes, ScanFor
  <2> QED
    BY <2>2, <2>3 DEF Verdict
<1> QED
  BY <1>1, <1>2, <1>3 DEF CompareBytesOutcome

(***************************************************************************)
(* What the files hold, and what a call has read of them, is of its type;  *)
(* a call has no result before it is done, and it has read from a path.    *)
(***************************************************************************)
SidecarsAreTyped ==
    /\ DOMAIN meta = Paths
    /\ \A p \in Paths : meta[p].ok => meta[p].data \in Sidecars \cup NewSidecars

CallInv ==
    /\ CallIsRecord
    /\ FilesAreBytes
    /\ SidecarsAreTyped
    /\ call.actual \in Seq(Nat)
    /\ call.bytes \in Seq(Nat)
    /\ call.pc # "done" => call.result = "none" /\ call.id \in Paths
    /\ call.pc = "masks" => call.op = "tolerant"

LEMMA RewriteKeepsSidecars ==
  ASSUME SidecarsAreTyped, NEW path \in Paths, RewriteBytes(path) \/ RewriteSidecar(path)
  PROVE  SidecarsAreTyped'
<1>1. CASE RewriteBytes(path)
  BY <1>1 DEF RewriteBytes, SidecarsAreTyped
<1>2. CASE RewriteSidecar(path)
  <2>1. PICK file \in {Readable(s) : s \in NewSidecars} \cup {Unreadable} :
            meta' = [meta EXCEPT ![path] = file]
    BY <1>2 DEF RewriteSidecar
  <2>2. file.ok => file.data \in NewSidecars
    BY DEF Readable, Unreadable
  <2> QED
    BY <2>1, <2>2 DEF SidecarsAreTyped
<1> QED
  BY <1>1, <1>2

LEMMA CallInvariance == Spec => []CallInv
<1> USE DEF CallInv
<1>1. Init => CallInv
  <2> SUFFICES ASSUME Init PROVE CallInv
    OBVIOUS
  <2>1. SidecarsAreTyped
    <3>1. ASSUME NEW p \in Paths, meta[p].ok PROVE meta[p].data \in Sidecars
      <4>1. meta[p] \in {Readable(s) : s \in Sidecars} \cup {Unreadable}
        BY DEF Init
      <4>2. meta[p] # Unreadable
        BY <3>1 DEF Unreadable
      <4> QED
        BY <4>1, <4>2 DEF Readable
    <3> QED
      BY <3>1 DEF Init, SidecarsAreTyped
  <2> QED
    BY <2>1, GoldenInit DEF Init, NoCall, GoldenInv
<1>2. CallInv /\ [Next]_goldenVars => CallInv'
  <2> SUFFICES ASSUME CallInv, [Next]_goldenVars PROVE CallInv'
    OBVIOUS
  <2>1. ASSUME NEW op \in {"strict", "tolerant"}, NEW id \in Ids, NEW actual \in Actuals,
               Start(op, id, actual)
        PROVE  CallInv'
    <3>1. actual \in Seq(Nat)
      BY BytesAssumption
    <3>2. /\ call'.actual = actual /\ call'.bytes = <<>> /\ call'.id = id /\ CallIsRecord'
          /\ call'.pc = IF parseCaptureId(id) THEN "bytes" ELSE "done"
          /\ call'.result = IF parseCaptureId(id) THEN "none" ELSE "TestingError"
      BY <2>1 DEF Start, NoCall, CallIsRecord
    <3>3. FilesAreBytes' /\ SidecarsAreTyped'
      BY <2>1 DEF Start, FilesAreBytes, SidecarsAreTyped
    <3> QED
      BY <3>1, <3>2, <3>3 DEF Paths
  <2>2. CASE ReadBytes
    <3>1. bin[call.id].ok => bin[call.id].data \in Seq(Nat)
      BY <2>2 DEF FilesAreBytes, ReadBytes
    <3> QED
      BY <2>2, <3>1 DEF ReadBytes, Throw, CallIsRecord, FilesAreBytes, SidecarsAreTyped
  <2>3. CASE ReadSidecar
    <3>1. CASE call.op = "strict" /\ CompareStrictly
      BY <2>3, <3>1
         DEF ReadSidecar, CompareStrictly, Conclude, CallIsRecord, FilesAreBytes,
             SidecarsAreTyped
    <3>2. CASE Throw
      BY <2>3, <3>2 DEF ReadSidecar, Throw, CallIsRecord, FilesAreBytes, SidecarsAreTyped
    <3>3. CASE call.op = "tolerant" /\ call' = [call EXCEPT !.pc = "masks"]
      BY <2>3, <3>3 DEF ReadSidecar, CallIsRecord, FilesAreBytes, SidecarsAreTyped
    <3> QED
      BY <2>3, <3>1, <3>2, <3>3 DEF ReadSidecar
  <2>4. CASE ReadMasks
    BY <2>4 DEF ReadMasks, Throw, Conclude, CallIsRecord, FilesAreBytes, SidecarsAreTyped
  <2>5. ASSUME NEW path \in Paths, RewriteBytes(path) \/ RewriteSidecar(path)
        PROVE  CallInv'
    <3>1. FilesAreBytes' /\ SidecarsAreTyped'
      BY <2>5, RewriteKeepsBytes, RewriteKeepsSidecars
    <3>2. Disturb
      BY <2>5 DEF RewriteBytes, RewriteSidecar
    <3> QED
      BY <3>1, <3>2 DEF Disturb, CallIsRecord
  <2>6. CASE UNCHANGED goldenVars
    BY <2>6 DEF goldenVars, CallIsRecord, FilesAreBytes, SidecarsAreTyped
  <2> QED
    BY <2>1, <2>2, <2>3, <2>4, <2>5, <2>6 DEF Next
<1> QED
  BY <1>1, <1>2, PTL DEF Spec

(***************************************************************************)
(* The step that concludes a call is a comparison, strict or tolerant, of  *)
(* what the call has read; no other step touches a concluded call but the  *)
(* start of the next one.                                                  *)
(***************************************************************************)
LEMMA ConcludingStep ==
  ASSUME CallInv, [Next]_goldenVars,
         NEW op \in {"strict", "tolerant"}, Concluded(op)'
  PROVE  /\ call'.actual = call.actual
         /\ call'.bytes = call.bytes
         /\ \/ /\ Concluded(op)
               /\ <<call'.fields, call'.result, call'.index>>
                        = <<call.fields, call.result, call.index>>
            \/ /\ op = "strict"
               /\ Conclude(<<>>, CompareBytes(call.actual, call.bytes))
            \/ /\ op = "tolerant" /\ MetaLoads(call.id) /\ call.id \in Paths
               /\ Conclude(meta[call.id].data.randomizedFields,
                           CompareBytesWithIgnore(call.actual, call.bytes,
                                                  meta[call.id].data.randomizedFields))
<1> USE DEF CallInv
<1>1. ASSUME NEW o \in {"strict", "tolerant"}, NEW id \in Ids, NEW actual \in Actuals,
             Start(o, id, actual)
      PROVE  FALSE
  <2>1. call'.result = IF parseCaptureId(id) THEN "none" ELSE "TestingError"
    BY <1>1 DEF Start, NoCall
  <2> QED
    BY <2>1 DEF Concluded
<1>2. CASE ReadBytes
  BY <1>2 DEF ReadBytes, Throw, Concluded, CallIsRecord
<1>3. CASE ReadSidecar
  <2>1. CASE call.op = "strict" /\ CompareStrictly
    BY <2>1 DEF CompareStrictly, Conclude, Concluded, CallIsRecord
  <2>2. CASE Throw \/ call' = [call EXCEPT !.pc = "masks"]
    BY <1>3, <2>2 DEF ReadSidecar, Throw, Concluded, CallIsRecord
  <2> QED
    BY <1>3, <2>1, <2>2 DEF ReadSidecar
<1>4. CASE ReadMasks
  <2>1. CASE MetaLoads(call.id)
    BY <1>4, <2>1 DEF ReadMasks, Conclude, Concluded, CallIsRecord
  <2>2. CASE Throw
    BY <1>4, <2>2 DEF ReadMasks, Throw, Concluded, CallIsRecord
  <2> QED
    BY <1>4, <2>1, <2>2 DEF ReadMasks
<1>5. ASSUME NEW path \in Paths, RewriteBytes(path) \/ RewriteSidecar(path)
      PROVE  call' = [call EXCEPT !.quiet = FALSE]
  BY <1>5 DEF RewriteBytes, RewriteSidecar, Disturb
<1>6. CASE call' = [call EXCEPT !.quiet = FALSE] \/ call' = call
  BY <1>6 DEF Concluded, CallIsRecord
<1> QED
  BY <1>1, <1>2, <1>3, <1>4, <1>5, <1>6 DEF Next, goldenVars

(***************************************************************************)
(* The strict comparison and the oracle agree on every call, whatever the  *)
(* files hold and whatever is rewritten meanwhile.                         *)
(***************************************************************************)
THEOREM OracleAlwaysAgrees == Spec => []OracleAgrees
<1>1. Init => OracleAgrees
  BY DEF Init, NoCall, OracleAgrees, Concluded
<1>2. CallInv /\ OracleAgrees /\ [Next]_goldenVars => OracleAgrees'
  <2> SUFFICES ASSUME CallInv, OracleAgrees, [Next]_goldenVars, Concluded("strict")'
               PROVE  OracleAgrees'
    BY DEF OracleAgrees
  <2>1. call'.actual = call.actual /\ call'.bytes = call.bytes
    BY ConcludingStep
  <2>2. CASE Concluded("strict") /\ <<call'.result, call'.index>> = <<call.result, call.index>>
    BY <2>1, <2>2 DEF OracleAgrees
  <2>3. CASE Conclude(<<>>, CompareBytes(call.actual, call.bytes))
    <3>1. /\ call'.result = "match" <=> CompareBytes(call.actual, call.bytes).matches
          /\ call'.index = CompareBytes(call.actual, call.bytes).index
      BY <2>3 DEF Conclude, CallInv, CallIsRecord
    <3> QED
      BY <2>1, <3>1, OracleIsCompare DEF OracleAgrees, CallInv
  <2> QED
    BY <2>2, <2>3, ConcludingStep
<1> QED
  BY <1>1, <1>2, CallInvariance, PTL DEF Spec

(***************************************************************************)
(* The fields of a sidecar that loads are the ranges isMasked() is made    *)
(* for: the ones that are negative have been refused.                      *)
(***************************************************************************)
LEMMA LoadedFieldsAreRanges ==
  ASSUME CallInv, NEW path \in Paths, MetaLoads(path)
  PROVE  meta[path].data.randomizedFields \in RangeLists
<1> DEFINE fields == meta[path].data.randomizedFields
           Loose == [byteOffset : Int, length : Int, reason : STRING]
           Masked == [byteOffset : Nat, length : Nat, reason : Reasons]
<1>1. meta[path].data \in Sidecars \cup NewSidecars /\ parseCaptureMeta(meta[path].data)
  BY DEF CallInv, SidecarsAreTyped, MetaLoads
<1>2. fields \in Seq(Loose) /\ \A k \in 1 .. Len(fields) : ValidField(fields[k])
  BY <1>1, SidecarAssumption DEF parseCaptureMeta
<1> HIDE DEF fields
<1>3. ASSUME NEW k \in 1 .. Len(fields) PROVE fields[k] \in Masked
  <2>1. fields[k] \in Loose /\ ValidField(fields[k])
    <3> HIDE DEF Loose
    <3> QED
      BY <1>2, ElementOfSeq
  <2> QED
    BY <2>1 DEF ValidField
<1>4. fields \in Seq(Masked)
  <2> HIDE DEF Masked, Loose
  <2>1. Len(fields) \in Nat /\ fields \in [1 .. Len(fields) -> Loose]
    BY <1>2, LenProperties
  <2> QED
    BY <1>3, <2>1
<1> QED
  BY <1>4 DEF fields, RangeLists

(***************************************************************************)
(* The tolerant comparison concludes with the first position that diverges *)
(* and that no field covers, for any number of fields, however they        *)
(* overlap, and whatever is rewritten meanwhile.                           *)
(***************************************************************************)
THEOREM MaskedAlwaysReference == Spec => []MaskedIsReference
<1>1. Init => MaskedIsReference
  BY DEF Init, NoCall, MaskedIsReference, Concluded
<1>2. CallInv /\ MaskedIsReference /\ [Next]_goldenVars => MaskedIsReference'
  <2> SUFFICES ASSUME CallInv, MaskedIsReference, [Next]_goldenVars, Concluded("tolerant")'
               PROVE  MaskedIsReference'
    BY DEF MaskedIsReference
  <2>1. call'.actual = call.actual /\ call'.bytes = call.bytes
    BY ConcludingStep
  <2>2. CASE /\ Concluded("tolerant")
             /\ <<call'.fields, call'.result, call'.index>>
                        = <<call.fields, call.result, call.index>>
    BY <2>1, <2>2 DEF MaskedIsReference
  <2>3. ASSUME NEW fields, NEW verdict, Conclude(fields, verdict), fields \in RangeLists,
               verdict = CompareBytesWithIgnore(call.actual, call.bytes, fields)
        PROVE  MaskedIsReference'
    <3>1. /\ call'.fields = fields /\ call'.index = verdict.index
          /\ call'.result = "match" <=> verdict.matches
      BY <2>3 DEF Conclude, CallInv, CallIsRecord
    <3>2. PICK divergent :
             divergent = {i \in 0 .. Len(call.actual) + Len(call.bytes) :
                            /\ i < Len(call.actual) \/ i < Len(call.bytes)
                            /\ Diverges(call.actual, call.bytes, i)
                            /\ ~Covered(fields, i)}
      OBVIOUS
    <3>3. TellsFirst(verdict, divergent)
      <4>1. call.actual \in Seq(Nat) /\ call.bytes \in Seq(Nat)
        BY DEF CallInv
      <4> QED
        BY <2>3, <3>2, <4>1, ToleranceIsReference, Zenon
    <3>4. divergent = {i \in 0 .. Len(call'.actual) + Len(call'.bytes) :
                          /\ i < Len(call'.actual) \/ i < Len(call'.bytes)
                          /\ Diverges(call'.actual, call'.bytes, i)
                          /\ ~Covered(call'.fields, i)}
      BY <2>1, <3>1, <3>2
    <3>5. /\ call'.result = "match" <=> divergent = {}
          /\ call'.index \in divergent \/ call'.index = NoIndex
          /\ \A i \in divergent : call'.index <= i
      BY <3>1, <3>3 DEF TellsFirst
    <3> QED
      BY <3>4, <3>5 DEF MaskedIsReference
  <2>4. CASE /\ MetaLoads(call.id) /\ call.id \in Paths
             /\ Conclude(meta[call.id].data.randomizedFields,
                         CompareBytesWithIgnore(call.actual, call.bytes,
                                                meta[call.id].data.randomizedFields))
    BY <2>3, <2>4, LoadedFieldsAreRanges
  <2> QED
    BY <2>2, <2>4, ConcludingStep
<1> QED
  BY <1>1, <1>2, CallInvariance, PTL DEF Spec

=============================================================================
