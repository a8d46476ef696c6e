---------------------------- MODULE ByteCompare ----------------------------
(***************************************************************************)
(* compareBytes() and compareBytesWithIgnore() (src/src/utils.ts), the     *)
(* comparisons behind every golden-capture check: byte for byte, and byte  *)
(* for byte outside the ranges that a capture's sidecar declares random.   *)
(* And compareBytesOutcome() of src/src/reference/node-reference.ts, with  *)
(* which the tests compare with what Node computes.                        *)
(*                                                                         *)
(* Byte arrays are sequences; positions count from 0 as in the code.  The  *)
(* text of the messages is left out.                                       *)
(***************************************************************************)
EXTENDS StableSort, Integers, Sequences, FiniteSetsExt

At(bytes, i) == bytes[i + 1]

NoIndex == -1

Verdict(matches, index) == [matches |-> matches, index |-> index]

Matching == Verdict(TRUE, NoIndex)

(***************************************************************************)
(* What a scan from position 0 upwards reports that stops at the first     *)
(* divergent position.                                                     *)
(***************************************************************************)
ScanFor(divergent) ==
    IF divergent = {} THEN Matching ELSE Verdict(FALSE, Min(divergent))

\* Faulty variant of CompareBytes: the common prefix decides.
ComparePrefixes(x, y) ==
    ScanFor({i \in 0 .. Min({Len(x), Len(y)}) - 1 : At(x, i) # At(y, i)})

CompareBytes(x, y) ==
    IF Len(x) # Len(y)
    THEN Verdict(FALSE, Min({Len(x), Len(y)}))
    ELSE ScanFor({i \in 0 .. Len(x) - 1 : At(x, i) # At(y, i)})

-----------------------------------------------------------------------------
BytesEqual(x, y) ==
    Len(x) = Len(y) /\ \A i \in 0 .. Len(x) - 1 : At(x, i) = At(y, i)

FirstDiff(x, y) ==
    LET len == Min({Len(x), Len(y)})
        divergent == {i \in 0 .. len - 1 : At(x, i) # At(y, i)}
    IN  IF divergent = {} THEN len ELSE Min(divergent)

\* The reason names the first difference for arrays of one length only.
CompareBytesOutcome(x, y) ==
    IF BytesEqual(x, y) THEN [equal |-> TRUE]
    ELSE [equal |-> FALSE,
          firstDiff |-> IF Len(x) = Len(y) THEN FirstDiff(x, y) ELSE NoIndex]

-----------------------------------------------------------------------------
\* Faulty variant of SortedRanges: the caller's order is kept.
UnsortedRanges(fields) == fields

SortedRanges(fields) ==
    LET order == SortingOrder([k \in DOMAIN fields |-> fields[k].byteOffset])
    IN  [i \in DOMAIN fields |-> fields[order[i]]]

(***************************************************************************)
(* isMasked() walks the ranges up to the first one that decides: one that  *)
(* begins behind the position (not masked) or else ends behind it          *)
(* (masked).                                                               *)
(***************************************************************************)
Deciding(ranges, index) ==
    {k \in 1 .. Len(ranges) :
        \/ index < ranges[k].byteOffset
        \/ index < ranges[k].byteOffset + ranges[k].length}

IsMasked(ranges, index) ==
    LET deciding == Deciding(ranges, index)
    IN  deciding # {} /\ ~(index < ranges[Min(deciding)].byteOffset)

Diverges(x, y, i) ==
    \/ i >= Len(x)
    \/ i >= Len(y)
    \/ At(x, i) # At(y, i)

CompareBytesWithIgnore(x, y, fields) ==
    LET ranges == SortedRanges(fields)
        maxLen == Max({Len(x), Len(y)})
    IN  ScanFor({i \in 0 .. maxLen - 1 : Diverges(x, y, i) /\ ~IsMasked(ranges, i)})

-----------------------------------------------------------------------------
(***************************************************************************)
(* What masking is meant to do: a field covers a position, whatever its    *)
(* place in the list.                                                      *)
(***************************************************************************)
Covers(field, i) == field.byteOffset <= i /\ i < field.byteOffset + field.length

Covered(fields, i) == \E k \in 1 .. Len(fields) : Covers(fields[k], i)

=============================================================================
