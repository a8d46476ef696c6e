---------------------------- MODULE HelloParser ----------------------------
(***************************************************************************)
(* parseClientHello() of src/src/e2e/parse-clienthello.ts: one action per  *)
(* field, in the order in which the code reads them.                       *)
(*                                                                         *)
(* Two length bytes are read without a look at the end of the body, those  *)
(* of session_id and of compression_methods.  When the buffer ends there   *)
(* the length is undefined and the position becomes NaN; every comparison  *)
(* with NaN is false and every read at NaN is 0 or empty, so the rest of   *)
(* the function goes through and returns (ReadsPastEnd).                   *)
(***************************************************************************)
EXTENDS HelloWire

CONSTANTS
    Hellos,         \* the fields of ClientHellos as clients send them
    Buffers         \* what the parser may be called with

Octets == 0 .. 255

RandomLen == 32

ASSUME BufferAssumption == Buffers \subseteq Seq(Octets)

(***************************************************************************)
(* What a client can send: a random of the fixed length, and no part       *)
(* longer than its length bytes can say.                                   *)
(***************************************************************************)
Sendable(h) ==
    /\ h.version \in Nat
    /\ h.random \in Seq(Octets) /\ Len(h.random) = RandomLen
    /\ h.sessionId \in Seq(Octets) /\ Len(h.sessionId) < 256
    /\ h.suites \in Seq(Nat)
    /\ h.methods \in Seq(Octets) /\ Len(h.methods) < 256
    /\ h.extensible \in BOOLEAN
    /\ h.extensions \in Seq([type : Nat, data : Seq(Octets)])
    /\ Len(Body(h)) < 65536

ASSUME HelloAssumption == \A h \in Hellos : Sendable(h)

Messages == Sent(Hellos)

VARIABLES
    buf,            \* the argument
    at,             \* the field that is read next, or the outcome
    o,              \* the position in buf
    bodyEnd,        \* end of the handshake body, 0 before the header is read
    extEnd,         \* end of the extension block, 0 before it is read
    hello,          \* the fields read so far
    lost            \* the position has become NaN

parserVars == <<buf, at, o, bodyEnd, extEnd, hello, lost>>

Fields == {"header", "session", "ciphers", "compression", "block", "extension"}

Outcomes == {"accepted", "rejected"}

NoFields == [version |-> 0, random |-> <<>>, sessionId |-> <<>>, suites |-> <<>>,
             methods |-> <<>>, extensible |-> FALSE, extensions |-> <<>>]

ParsedHello ==
    [version : Nat, random : Seq(Nat), sessionId : Seq(Nat), suites : Seq(Nat),
     methods : Seq(Nat), extensible : BOOLEAN,
     extensions : Seq([type : Nat, data : Seq(Nat)])]

Init ==
    /\ buf \in Buffers
    /\ at = "header"
    /\ o = 0
    /\ bodyEnd = 0
    /\ extEnd = 0
    /\ hello = NoFields
    /\ lost = FALSE

\* Faulty variants of Overruns: one byte more, one byte less.
OverrunsLate(end, limit) == end > limit + 1

OverrunsEarly(end, limit) == end >= limit

\* A field that ends at end does not fit in front of limit.
Overruns(end, limit) == end > limit

\* A ClientHelloParseError is thrown.
Reject ==
    /\ at' = "rejected"
    /\ UNCHANGED <<buf, o, bodyEnd, extEnd, hello, lost>>

\* The field that ends at end has been read; next is the one behind it.
Advance(next, end, fields) ==
    /\ at' = next
    /\ o' = end
    /\ hello' = fields
    /\ UNCHANGED <<buf, lost>>

\* A faulty variant of BadHeader: the body's end is not looked for.
BadHeaderUnchecked(body, end) ==
    \/ Overruns(body, Len(buf))
    \/ Byte(buf, body - 4) # 1
    \/ Overruns(body + 2 + RandomLen, end)

\* No handshake header in front of body, no ClientHello, a body that is not
\* all there or too short for legacy_version and random.
BadHeader(body, end) ==
    \/ Overruns(body, Len(buf))
    \/ Byte(buf, body - 4) # 1
    \/ Overruns(end, Len(buf))
    \/ Overruns(body + 2 + RandomLen, end)

(***************************************************************************)
(* Record header, handshake header, legacy_version and random.             *)
(***************************************************************************)
Header ==
    /\ at = "header"
    /\ LET body == RecordHeader(buf) + 4
           end == body + U24(buf, body - 3)
           next == body + 2 + RandomLen
       IN  IF BadHeader(body, end)
           THEN Reject
           ELSE /\ Advance("session", next,
                       [hello EXCEPT !.version = U16(buf, body),
                                     !.random = Slice(buf, body + 2, next)])
                /\ bodyEnd' = end
                /\ UNCHANGED extEnd

SessionId ==
    /\ at = "session"
    /\ o < Len(buf)
    /\ LET end == o + 1 + Byte(buf, o)
       IN  IF Overruns(end, bodyEnd)
           THEN Reject
           ELSE /\ Advance("ciphers", end,
                       [hello EXCEPT !.sessionId = Slice(buf, o + 1, end)])
                /\ UNCHANGED <<bodyEnd, extEnd>>

CipherSuites ==
    /\ at = "ciphers"
    /\ LET len == U16(buf, o)
           end == o + 2 + len
       IN  IF Overruns(o + 2, bodyEnd) \/ Overruns(end, bodyEnd) \/ len % 2 # 0
           THEN Reject
           ELSE /\ Advance("compression", end,
                       [hello EXCEPT !.suites = U16List(buf, o + 2, len)])
                /\ UNCHANGED <<bodyEnd, extEnd>>

CompressionMethods ==
    /\ at = "compression"
    /\ o < Len(buf)
    /\ LET end == o + 1 + Byte(buf, o)
       IN  IF Overruns(end, bodyEnd)
           THEN Reject
           ELSE /\ Advance("block", end,
                       [hello EXCEPT !.methods = Slice(buf, o + 1, end)])
                /\ UNCHANGED <<bodyEnd, extEnd>>

(***************************************************************************)
(* The length of the extension block, if the body goes on for two bytes.   *)
(***************************************************************************)
NoBlock ==
    /\ at = "block"
    /\ o + 2 > bodyEnd
    /\ Advance("accepted", o, hello)
    /\ UNCHANGED <<bodyEnd, extEnd>>

ExtensionBlock ==
    /\ at = "block"
    /\ o + 2 <= bodyEnd
    /\ LET end == o + 2 + U16(buf, o)
       IN  IF Overruns(end, bodyEnd)
           THEN Reject
           ELSE /\ Advance("extension", o + 2, [hello EXCEPT !.extensible = TRUE])
                /\ extEnd' = end
                /\ UNCHANGED bodyEnd

\* A faulty variant of MoreExtensions: the loop turns on the spot where an
\* extension has no data.
MoreExtensionsWithData ==
    at = "extension" /\ o + 4 <= extEnd /\ U16(buf, o + 2) # 0

MoreExtensions == at = "extension" /\ o + 4 <= extEnd

\* A faulty variant of Extension: the data begins with its own length.
ExtensionWithLength(end) ==
    [type |-> U16(buf, o), data |-> Slice(buf, o + 2, end)]

\* The extension whose header is at o and whose data ends at end.
Extension(end) == [type |-> U16(buf, o), data |-> Slice(buf, o + 4, end)]

(***************************************************************************)
(* One turn of the loop over the extensions.                               *)
(***************************************************************************)
NextExtension ==
    /\ MoreExtensions
    /\ LET end == o + 4 + U16(buf, o + 2)
       IN  IF Overruns(end, extEnd)
           THEN Reject
           ELSE /\ Advance("extension", end,
                       [hello EXCEPT !.extensions = Append(@, Extension(end))])
                /\ UNCHANGED <<bodyEnd, extEnd>>

(***************************************************************************)
(* The loop ends where no extension header fits; up to three bytes of the  *)
(* block are left, and skipped.                                            *)
(***************************************************************************)
EndOfBlock ==
    /\ at = "extension"
    /\ o + 4 > extEnd
    /\ Advance("accepted", extEnd, hello)
    /\ UNCHANGED <<bodyEnd, extEnd>>

(***************************************************************************)
(* A length byte is read at the end of the buffer.                         *)
(***************************************************************************)
ReadsPastEnd ==
    /\ at \in {"session", "compression"}
    /\ o >= Len(buf)
    /\ at' = "accepted"
    /\ lost' = TRUE
    /\ UNCHANGED <<buf, o, bodyEnd, extEnd, hello>>

Next ==
    \/ Header \/ SessionId \/ CipherSuites \/ CompressionMethods
    \/ NoBlock \/ ExtensionBlock \/ NextExtension \/ EndOfBlock
    \/ ReadsPastEnd

(***************************************************************************)
(* The parser is a function call: it runs on until it returns or throws.   *)
(***************************************************************************)
Spec == Init /\ [][Next]_parserVars /\ WF_parserVars(Next)

-----------------------------------------------------------------------------
(***************************************************************************)
(* The variables have their types, and no length on the wire takes the     *)
(* parser out of the body or the loop over the extensions out of their     *)
(* block, whatever the buffer holds.                                       *)
(***************************************************************************)
TypeOK ==
    /\ buf \in Seq(Nat)
    /\ at \in Fields \cup Outcomes
    /\ o \in Nat
    /\ bodyEnd \in Nat
    /\ extEnd \in Nat
    /\ hello \in ParsedHello
    /\ lost \in BOOLEAN
    /\ o <= bodyEnd
    /\ bodyEnd <= Len(buf)
    /\ extEnd <= bodyEnd
    /\ at = "extension" => o <= extEnd

(***************************************************************************)
(* What parseClientHello() returns is what is on the wire: putting the     *)
(* fields together again gives the bytes of the body from its beginning.   *)
(* What the result does not show is at most three bytes of the extension   *)
(* block and what follows that block.                                      *)
(***************************************************************************)
NothingMisread ==
    at = "accepted" /\ ~lost =>
        LET body == Slice(buf, RecordHeader(buf) + 4, bodyEnd)
            block == Slice(body, Len(FixedFields(hello)), Len(body))
            shown == Extensions(hello.extensions)
        IN  /\ IsPrefix(FixedFields(hello), body)
            /\ ~hello.extensible => Len(block) < 2
            /\ hello.extensible =>
                  /\ IsPrefix(shown, Slice(block, 2, Len(block)))
                  /\ U16(block, 0) - Len(shown) \in 0 .. 3

(***************************************************************************)
(* A message a client has put together is never refused, in a record or    *)
(* bare and whatever follows it ("lenient about trailing data").           *)
(***************************************************************************)
IntactAccepted == at = "rejected" => \A m \in Messages : ~IsPrefix(m, buf)

(***************************************************************************)
(* A message that is still arriving is never taken for a message, wherever *)
(* it is cut off.                                                          *)
(***************************************************************************)
PartRejected == at = "accepted" => \A m \in Messages : ~IsStrictPrefix(buf, m)

(***************************************************************************)
(* The parser returns or throws, whatever it is given.                     *)
(***************************************************************************)
Terminates == <>(at \in Outcomes)

(***************************************************************************)
(* "@throws {ClientHelloParseError} if the input is malformed or           *)
(* truncated": what is accepted has all the fields.  Does not hold for a   *)
(* body that ends in front of a one-byte length (run HelloTruncated).      *)
(***************************************************************************)
TruncatedRejected == at = "accepted" => ~lost

=============================================================================
