------------------------------- MODULE Golden -------------------------------
(***************************************************************************)
(* compareAgainstGolden() and compareAgainstGoldenWithIgnore()             *)
(* (src/src/golden/golden.ts): a capture on disk is a .bin with the bytes  *)
(* and a .meta.json, the sidecar, with the ranges to mask.  A call reads   *)
(* them one after the other, the tolerant one the sidecar twice, and       *)
(* compares the caller's bytes with what it has read.                      *)
(*                                                                         *)
(* Calls are synchronous, so there is one at a time; but the files may be  *)
(* rewritten between two reads, as captures/_probe/make_golden.py does it, *)
(* one file after the other.  Messages, causes and the source tag of the   *)
(* capture are left out.                                                   *)
(***************************************************************************)
EXTENDS ByteCompare

CONSTANTS
    Ids,            \* CaptureIds, each split at the slashes
    Contents,       \* what a .bin may hold at first
    Sidecars,       \* what a .meta.json may hold at first
    NewContents,    \* what rewriting may leave in a .bin
    NewSidecars,    \* what rewriting may leave in a .meta.json
    Actuals,        \* the bytes a caller compares
    MaxWrites       \* bound: how often a file is rewritten

ASSUME BytesAssumption ==
    Contents \cup NewContents \cup Actuals \subseteq Seq(Nat)

(***************************************************************************)
(* A sidecar whose parts are of their JSON types has a list of fields.     *)
(* Their offsets and lengths are whole numbers, as the tools write them    *)
(* (captures/_probe/make_golden.py); they may be negative.                 *)
(***************************************************************************)
ASSUME SidecarAssumption ==
    \A s \in Sidecars \cup NewSidecars :
        s.wellTyped =>
            s.randomizedFields \in Seq([byteOffset : Int, length : Int, reason : STRING])

VARIABLES
    bin,            \* the .bin of each path
    meta,           \* the .meta.json of each path
    writes,         \* how often a file was rewritten
    call,           \* the call under way or returned
    agreed          \* <<id, actual>> of strict calls, begun since the last
                    \* rewriting, that matched

goldenVars == <<bin, meta, writes, call, agreed>>

-----------------------------------------------------------------------------
(***************************************************************************)
(* A file can be read, or it cannot: it is missing, or, being a sidecar,   *)
(* is no JSON.                                                             *)
(***************************************************************************)
Readable(data) == [ok |-> TRUE, data |-> data]

Unreadable == [ok |-> FALSE]

Reasons == {"ephemeral_key", "nonce", "grease", "random"}

ValidField(field) ==
    /\ field.byteOffset >= 0
    /\ field.length >= 0
    /\ field.reason \in Reasons

(***************************************************************************)
(* wellTyped: each part is of the JSON type it must have.                  *)
(***************************************************************************)
parseCaptureMeta(sidecar) ==
    /\ sidecar.wellTyped
    /\ sidecar.source \in {"curl-impersonate", "real-browser"}
    /\ sidecar.protocol \in {"tls", "http2", "http1", "tcp"}
    /\ sidecar.record \in {"client_hello", "settings", "headers", "server_hello"}
    /\ \A k \in 1 .. Len(sidecar.randomizedFields) : ValidField(sidecar.randomizedFields[k])

parseCaptureId(id) == Len(id) = 3

Paths == {id \in Ids : parseCaptureId(id)}

MetaLoads(path) == meta[path].ok /\ parseCaptureMeta(meta[path].data)

-----------------------------------------------------------------------------
NoCall == [op |-> "none", pc |-> "done", id |-> <<>>, actual |-> <<>>, bytes |-> <<>>,
           fields |-> <<>>, result |-> "none", index |-> NoIndex, quiet |-> TRUE]

Init ==
    /\ bin \in [Paths -> {Readable(c) : c \in Contents} \cup {Unreadable}]
    /\ meta \in [Paths -> {Readable(s) : s \in Sidecars} \cup {Unreadable}]
    /\ writes = 0
    /\ call = NoCall
    /\ agreed = {}

\* The call throws a TestingError.
Throw == call' = [call EXCEPT !.pc = "done", !.result = "TestingError"]

\* The call returns the verdict, or throws it as a GoldenMismatchError.
Conclude(fields, verdict) ==
    call' = [call EXCEPT
        !.pc = "done",
        !.fields = fields,
        !.result = IF verdict.matches THEN "match" ELSE "mismatch",
        !.index = verdict.index]

Start(op, id, actual) ==
    /\ call.pc = "done"
    /\ call' = [NoCall EXCEPT
            !.op = op, !.id = id, !.actual = actual,
            !.pc = IF parseCaptureId(id) THEN "bytes" ELSE "done",
            !.result = IF parseCaptureId(id) THEN "none" ELSE "TestingError"]
    /\ UNCHANGED <<bin, meta, writes, agreed>>

ReadBytes ==
    /\ call.pc = "bytes"
    /\ IF bin[call.id].ok
       THEN call' = [call EXCEPT !.pc = "sidecar", !.bytes = bin[call.id].data]
       ELSE Throw
    /\ UNCHANGED <<bin, meta, writes, agreed>>

CompareStrictly ==
    LET verdict == CompareBytes(call.actual, call.bytes)
    IN  /\ Conclude(<<>>, verdict)
        /\ agreed' = IF verdict.matches /\ call.quiet
                     THEN agreed \cup {<<call.id, call.actual>>} ELSE agreed

(***************************************************************************)
(* The end of loadGolden(), which validates the sidecar and drops it; the  *)
(* strict comparison follows at once.                                      *)
(***************************************************************************)
ReadSidecar ==
    /\ call.pc = "sidecar"
    /\ \/ /\ ~MetaLoads(call.id)
          /\ Throw
          /\ UNCHANGED agreed
       \/ /\ MetaLoads(call.id)
          /\ call.op = "strict"
          /\ CompareStrictly
       \/ /\ MetaLoads(call.id)
          /\ call.op = "tolerant"
          /\ call' = [call EXCEPT !.pc = "masks"]
          /\ UNCHANGED agreed
    /\ UNCHANGED <<bin, meta, writes>>

\* loadCaptureMeta() reads the sidecar again, and the masks come from there.
ReadMasks ==
    /\ call.pc = "masks"
    /\ IF MetaLoads(call.id)
       THEN LET fields == meta[call.id].data.randomizedFields
            IN  Conclude(fields, CompareBytesWithIgnore(call.actual, call.bytes, fields))
       ELSE Throw
    /\ UNCHANGED <<bin, meta, writes, agreed>>

(***************************************************************************)
(* A capture is regenerated, one file at a time; opening a file to write   *)
(* truncates it.                                                           *)
(***************************************************************************)
Disturb ==
    /\ agreed' = {}
    /\ call' = [call EXCEPT !.quiet = FALSE]

RewriteBytes(path) ==
    /\ writes < MaxWrites
    /\ writes' = writes + 1
    /\ \E c \in NewContents : bin' = [bin EXCEPT ![path] = Readable(c)]
    /\ Disturb
    /\ UNCHANGED meta

RewriteSidecar(path) ==
    /\ writes < MaxWrites
    /\ writes' = writes + 1
    /\ \E file \in {Readable(s) : s \in NewSidecars} \cup {Unreadable} :
            meta' = [meta EXCEPT ![path] = file]
    /\ Disturb
    /\ UNCHANGED bin

Next ==
    \/ \E op \in {"strict", "tolerant"}, id \in Ids, actual \in Actuals : Start(op, id, actual)
    \/ ReadBytes
    \/ ReadSidecar
    \/ ReadMasks
    \/ \E path \in Paths : RewriteBytes(path) \/ RewriteSidecar(path)

Spec == Init /\ [][Next]_goldenVars

-----------------------------------------------------------------------------
Concluded(op) == call.op = op /\ call.result \in {"match", "mismatch"}

(***************************************************************************)
(* The tolerant comparison tells the first position, over the longer of    *)
(* the two arrays, that diverges and that no field of the sidecar covers,  *)
(* however the fields overlap and in whatever order they are listed; and   *)
(* it does so whatever was rewritten between the reads.                    *)
(***************************************************************************)
MaskedIsReference ==
    Concluded("tolerant") =>
        LET divergent == {i \in 0 .. Len(call.actual) + Len(call.bytes) :
                            /\ i < Len(call.actual) \/ i < Len(call.bytes)
                            /\ Diverges(call.actual, call.bytes, i)
                            /\ ~Covered(call.fields, i)}
        IN  /\ call.result = "match" <=> divergent = {}
            /\ call.index \in divergent \/ call.index = NoIndex
            /\ \A i \in divergent : call.index <= i

(***************************************************************************)
(* What the strict comparison accepts, the tolerant one accepts as well,   *)
(* as long as nothing is rewritten: it neither diverges nor fails to load. *)
(***************************************************************************)
StrictImpliesTolerant ==
    call.op = "tolerant" /\ call.pc = "done" /\ <<call.id, call.actual>> \in agreed =>
        call.result = "match"

(***************************************************************************)
(* The strict comparison and that of the node oracle, written one without  *)
(* the other, agree on what is equal, and for arrays of one length on the  *)
(* position of the first difference.  (For others compareBytes() gives the *)
(* shorter length even when a byte before it differs.)                     *)
(***************************************************************************)
OracleAgrees ==
    Concluded("strict") =>
        LET outcome == CompareBytesOutcome(call.actual, call.bytes)
        IN  /\ outcome.equal <=> call.result = "match"
            /\ ~outcome.equal /\ Len(call.actual) = Len(call.bytes) =>
                    outcome.firstDiff = call.index

(***************************************************************************)
(* The field "random" is there for the client_random (captures/README.md), *)
(* which fills the 32 bytes behind the headers of record and message and   *)
(* the version.  So two hellos that differ there only should match.  They  *)
(* do not: the field begins one byte too late.                             *)
(***************************************************************************)
ClientRandom == 5 + 4 + 2 .. 5 + 4 + 2 + 31

RandomTolerated ==
    /\ Concluded("tolerant")
    /\ Len(call.actual) = Len(call.bytes)
    /\ \A i \in 0 .. Len(call.bytes) - 1 :
            Diverges(call.actual, call.bytes, i) => i \in ClientRandom
    => call.result = "match"

=============================================================================
