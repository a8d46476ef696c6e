------------------------- MODULE FingerprintParser -------------------------
(***************************************************************************)
(* What the ClientHello parsers of src/src/fingerprint/ja3.ts and ja4.ts   *)
(* have in common: their state, how they leave, and the two headers.       *)
(* Unlike HelloParser they check every byte they read against the end of   *)
(* the buffer, and throw; how much they check against the end of the       *)
(* handshake is where they differ.                                         *)
(***************************************************************************)
EXTENDS HelloWire

VARIABLES
    buf,            \* the argument clientHello
    at,             \* the field that is read next, or the outcome
    pos,            \* the position in buf
    end,            \* end of the handshake, 0 before its header is read
    extensionsEnd,  \* end of the extension block, 0 before it is read
    seen            \* what goes into the fingerprint so far

walkVars == <<buf, at, pos, end, extensionsEnd, seen>>

Outcomes == {"accepted", "rejected"}

WalkInit(nothing) ==
    /\ at = "header"
    /\ pos = 0
    /\ end = 0
    /\ extensionsEnd = 0
    /\ seen = nothing

\* The n bytes from i on are not all in the buffer: a checked read throws.
Missing(i, n) == i + n > Len(buf)

\* A Ja3ParseError or Ja4ParseError is thrown.
Throw ==
    /\ at' = "rejected"
    /\ UNCHANGED <<buf, pos, end, extensionsEnd, seen>>

\* The parser moves on to next at position to.
Walk(next, to, found) ==
    /\ at' = next
    /\ pos' = to
    /\ seen' = found
    /\ UNCHANGED <<buf, end, extensionsEnd>>

\* A faulty variant of NoHello: the handshake need not be all there.
NoHelloButHeader(start) == Byte(buf, start) # 1 \/ Missing(start, 4)

\* No handshake header at start, no ClientHello, or a part of one.
NoHello(start) ==
    Byte(buf, start) # 1 \/ Missing(start, 4) \/ Missing(start + 4, U24(buf, start + 1))

(***************************************************************************)
(* TLS record header, if the first byte says so, and handshake header.  A  *)
(* record shorter than its header has 22 where the handshake type would    *)
(* be.                                                                     *)
(***************************************************************************)
Header ==
    /\ at = "header"
    /\ LET start == RecordHeader(buf)
       IN  IF NoHello(start)
           THEN Throw
           ELSE /\ at' = "version"
                /\ pos' = start + 4
                /\ end' = start + 4 + U24(buf, start + 1)
                /\ UNCHANGED <<buf, extensionsEnd, seen>>

(***************************************************************************)
(* The extension block begins, if the handshake goes on for two bytes.     *)
(* Its end is not compared with anything.                                  *)
(***************************************************************************)
NoBlock ==
    /\ at = "block"
    /\ pos + 2 > end
    /\ Walk("accepted", pos, seen)

Block ==
    /\ at = "block"
    /\ pos + 2 <= end
    /\ at' = "extension"
    /\ pos' = pos + 2
    /\ extensionsEnd' = pos + 2 + U16(buf, pos)
    /\ UNCHANGED <<buf, end, seen>>

\* A faulty variant of MoreExtensions: an empty last extension is left out.
MoreExtensionsStrict == at = "extension" /\ pos + 4 < extensionsEnd

MoreExtensions == at = "extension" /\ pos + 4 <= extensionsEnd

EndOfBlock ==
    /\ at = "extension"
    /\ ~MoreExtensions
    /\ Walk("accepted", pos, seen)

-----------------------------------------------------------------------------
(***************************************************************************)
(* The lists of extensions 10 and 11, each read with the length in front   *)
(* of it, which is not compared with the extension's: whether a read       *)
(* throws, and what an extension at pos adds.                              *)
(***************************************************************************)
HasGroups(type, len) == type = 10 /\ len >= 4

HasFormats(type, len) == type = 11 /\ len >= 1

ListMissing(type, len) ==
    \/ /\ HasGroups(type, len)
       /\ Missing(pos + 4, 2) \/ Missing(pos + 6, 2 * (U16(buf, pos + 4) \div 2))
    \/ /\ HasFormats(type, len)
       /\ Missing(pos + 4, 1) \/ Missing(pos + 5, Byte(buf, pos + 4))

\* A faulty variant of Groups: the list's length is read as one more group.
GroupsWithLength(type, len) ==
    IF HasGroups(type, len) THEN U16List(buf, pos + 4, U16(buf, pos + 4)) ELSE <<>>

Groups(type, len) ==
    IF HasGroups(type, len) THEN U16List(buf, pos + 6, U16(buf, pos + 4)) ELSE <<>>

Formats(type, len) ==
    IF HasFormats(type, len) THEN Slice(buf, pos + 5, pos + 5 + Byte(buf, pos + 4)) ELSE <<>>

=============================================================================
