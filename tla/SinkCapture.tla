---------------------------- MODULE SinkCapture ----------------------------
(***************************************************************************)
(* How TlsSinkServer cuts the ClientHello out of the raw socket: the       *)
(* closures tryCapture() and onData() of onConnection(), and the unshift   *)
(* in onClientHello() (src/src/e2e/sink-server.ts).                        *)
(*                                                                         *)
(* The client sends one TLS record, 5 header bytes and body more, and then *)
(* trailing bytes.  TCP delivers the stream in order in chunks of any      *)
(* length, so a byte is known by its place in the stream and a buffer, a   *)
(* capture or an input of the TLS layer by how far it reaches.  Of the     *)
(* chunks tryCapture() looks at two numbers: the length of the first one,  *)
(* in which it looks the record's length up, and their total.              *)
(***************************************************************************)
EXTENDS Integers

CONSTANTS
    Bodies,         \* fragment lengths of the client's record
    Trailings,      \* numbers of bytes the client sends right behind it
    ChunkLens       \* lengths of the chunks the socket delivers

(***************************************************************************)
(* A record's fragment length is a 16-bit number; the socket delivers no   *)
(* empty chunk.                                                            *)
(***************************************************************************)
ASSUME CaptureAssumption ==
    /\ \A b \in Bodies : b \in Nat /\ b < 65536
    /\ Trailings \subseteq Nat
    /\ ChunkLens \subseteq Nat \ {0}

VARIABLES
    body,           \* the fragment length of the client's record
    trailing,       \* the bytes it sends behind the record
    first,          \* chunks[0].length, 0 before the first chunk
    totalBuffered,  \* bytes the data handler has seen
    capture,        \* length of the capture unshifted to TLS, 0 before it
    direct          \* bytes the TLSSocket has read from the socket itself

captureVars == <<body, trailing, first, totalBuffered, capture, direct>>

HeaderLen == 5

Flight == HeaderLen + body + trailing

Sent == totalBuffered + direct

CaptureInit ==
    /\ body \in Bodies
    /\ trailing \in Trailings
    /\ first = 0
    /\ totalBuffered = 0
    /\ capture = 0
    /\ direct = 0

(***************************************************************************)
(* The two bytes of the length field, at places 3 and 4 of the header.  A  *)
(* place beyond the end of the first chunk reads as undefined, which the   *)
(* bitwise operators turn into 0.                                          *)
(***************************************************************************)
HighByte(len) == IF len > 3 THEN body \div 256 ELSE 0

LowByte(len) == IF len > 4 THEN body % 256 ELSE 0

RecordLen(len) == HeaderLen + 256 * HighByte(len) + LowByte(len)

\* Faulty variants of TryCapture: the header is taken for the whole record;
\* one byte more than the record is waited for.
TryCaptureHeader(len, total) == IF total < HeaderLen THEN 0 ELSE HeaderLen

TryCaptureLate(len, total) ==
    IF total < HeaderLen \/ total <= RecordLen(len) THEN 0 ELSE RecordLen(len)

(***************************************************************************)
(* The length of the capture tryCapture() returns, 0 for null, when the    *)
(* first chunk has len bytes and all chunks have total.                    *)
(***************************************************************************)
TryCapture(len, total) ==
    IF total < HeaderLen \/ total < RecordLen(len) THEN 0 ELSE RecordLen(len)

\* A faulty variant of OnData: the chunk is pushed behind the look at the
\* chunks, so the record is found with the chunk after it.
OnDataLookedFirst(n) ==
    /\ capture = 0
    /\ Sent + n <= Flight
    /\ first' = IF first = 0 THEN n ELSE first
    /\ totalBuffered' = totalBuffered + n
    /\ capture' = TryCapture(first, totalBuffered)
    /\ UNCHANGED <<body, trailing, direct>>

(***************************************************************************)
(* A chunk reaches the data handler.                                       *)
(***************************************************************************)
OnData(n) ==
    /\ capture = 0
    /\ Sent + n <= Flight
    /\ first' = IF first = 0 THEN n ELSE first
    /\ totalBuffered' = totalBuffered + n
    /\ capture' = TryCapture(first', totalBuffered')
    /\ UNCHANGED <<body, trailing, direct>>

(***************************************************************************)
(* After the capture the TLSSocket reads the socket itself.                *)
(***************************************************************************)
TlsReads(n) ==
    /\ capture # 0
    /\ Sent + n <= Flight
    /\ direct' = direct + n
    /\ UNCHANGED <<body, trailing, first, totalBuffered, capture>>

CaptureNext == \E n \in ChunkLens : OnData(n) \/ TlsReads(n)

(***************************************************************************)
(* The network delivers what the client sent.                              *)
(***************************************************************************)
CaptureSpec == CaptureInit /\ [][CaptureNext]_captureVars /\ WF_captureVars(\E n \in ChunkLens : OnData(n))

-----------------------------------------------------------------------------
(***************************************************************************)
(* The slices are within their buffers: the first chunk and the capture    *)
(* within what is buffered, and that within what the client sent.          *)
(***************************************************************************)
CaptureTypeOK ==
    /\ body \in Bodies
    /\ trailing \in Trailings
    /\ direct \in Nat
    /\ totalBuffered \in Nat
    /\ Sent <= Flight
    /\ first \in 0 .. totalBuffered
    /\ capture \in 0 .. totalBuffered

(***************************************************************************)
(* The capture is the client's record, the whole of it and nothing more,   *)
(* however the record is cut into chunks, as long as the first chunk holds *)
(* the header.                                                             *)
(***************************************************************************)
CaptureIsRecord == capture # 0 /\ first >= HeaderLen => capture = HeaderLen + body

(***************************************************************************)
(* The capture is taken with the chunk that completes the record, not      *)
(* later, whatever the chunks: when that chunk came, the buffer was still  *)
(* short of the capture.  So bytes behind the record that are dropped with *)
(* the slice came in that one chunk, and those in later chunks reach the   *)
(* TLS layer.                                                              *)
(***************************************************************************)
OnlyLastChunkIsCut ==
    [][capture = 0 /\ capture' # 0 => totalBuffered < capture']_captureVars

(***************************************************************************)
(* "We loop to be robust to fragmentation": the capture is the record      *)
(* whatever the chunks.  Does not hold for a first chunk below 5 bytes, in *)
(* which the length is not there yet (run CaptureFragmented).              *)
(***************************************************************************)
RobustToFragmentation == capture # 0 => capture = HeaderLen + body

(***************************************************************************)
(* The capture is never waited for in vain: once the client has sent its   *)
(* record, however it is cut up, the handshake goes on.                    *)
(***************************************************************************)
CaptureHappens == <>(capture # 0)

=============================================================================
