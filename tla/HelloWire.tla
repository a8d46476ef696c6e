----------------------------- MODULE HelloWire -----------------------------
(***************************************************************************)
(* The bytes of a ClientHello: how the parsers read them and how a client  *)
(* lays them out.  A buffer is a sequence of bytes; offsets start at 0, as *)
(* in the code.                                                            *)
(***************************************************************************)
EXTENDS Integers, SequencesExt

(***************************************************************************)
(* buf[o].  Beyond the end JavaScript reads undefined, which the bitwise   *)
(* operators of readUint16() turn into 0.                                  *)
(***************************************************************************)
Byte(b, o) == IF o < Len(b) THEN b[o + 1] ELSE 0

U16(b, o) == (256 * Byte(b, o)) + Byte(b, o + 1)

U24(b, o) == (65536 * Byte(b, o)) + U16(b, o + 1)

\* The 16-bit values in the len bytes from o on; an odd byte is left over.
U16List(b, o, len) == [i \in 1 .. len \div 2 |-> U16(b, o + (2 * (i - 1)))]

\* buf.subarray(from, to), which stops at the end of the buffer.
Slice(b, from, to) == SubSeq(b, from + 1, IF to <= Len(b) THEN to ELSE Len(b))

(***************************************************************************)
(* peekRecordHeader(): the length of the record header, if there is one.   *)
(***************************************************************************)
RecordHeader(b) == IF Len(b) >= 5 /\ Byte(b, 0) = 22 THEN 5 ELSE 0

-----------------------------------------------------------------------------
(***************************************************************************)
(* What a client puts on the wire: vectors with a length of one or two     *)
(* bytes in front, and the ClientHello made of them.  The extension block  *)
(* is absent when the client says so.                                      *)
(***************************************************************************)
Bytes16(n) == <<n \div 256, n % 256>>

Vector8(s) == <<Len(s)>> \o s

Vector16(s) == Bytes16(Len(s)) \o s

Codes(s) == FlattenSeq([i \in DOMAIN s |-> Bytes16(s[i])])

Extensions(es) ==
    FlattenSeq([i \in DOMAIN es |-> Bytes16(es[i].type) \o Vector16(es[i].data)])

\* Everything in front of the extension block.
FixedFields(hello) ==
    Bytes16(hello.version) \o hello.random \o Vector8(hello.sessionId)
        \o Vector16(Codes(hello.suites)) \o Vector8(hello.methods)

Body(hello) ==
    FixedFields(hello)
        \o (IF hello.extensible THEN Vector16(Extensions(hello.extensions)) ELSE <<>>)

Handshake(body) == <<1>> \o <<0>> \o Vector16(body)

Record(fragment) == <<22, 3, 1>> \o Vector16(fragment)

\* Each of the hellos, bare and in a record.
Sent(hellos) ==
    LET bare == { Handshake(Body(h)) : h \in hellos }
    IN  bare \cup { Record(m) : m \in bare }

=============================================================================
