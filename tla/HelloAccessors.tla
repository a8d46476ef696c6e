--------------------------- MODULE HelloAccessors ---------------------------
(***************************************************************************)
(* The accessors of src/src/e2e/parse-clienthello.ts on a parsed hello.  A *)
(* name is the bytes it is decoded from.                                   *)
(***************************************************************************)
EXTENDS HelloWire

(***************************************************************************)
(* The data of the first extension of a type, as a sequence of one or none.*)
(***************************************************************************)
FindExtension(hello, type) ==
    LET found == SelectSeq(hello.extensions, LAMBDA e : e.type = type)
    IN  IF found = <<>> THEN <<>> ELSE <<found[1].data>>

(***************************************************************************)
(* The host names in data from i on, in entries of type(1), length(2) and  *)
(* name; an entry that does not fit in front of end is the last one.       *)
(***************************************************************************)
LOCAL HostNames(data, end) ==
    LET names[i \in Nat] ==
          LET next == i + 3 + U16(data, i + 1)
              name == IF i < Len(data) /\ data[i + 1] = 0 THEN <<Slice(data, i + 3, next)>> ELSE <<>>
          IN  IF i + 3 > end \/ next > end THEN <<>> ELSE name \o names[next]
    IN  names[2]

(***************************************************************************)
(* parseSniHostname(): goes by the extension's length, whatever the list's *)
(* own length says; one name or none.                                      *)
(***************************************************************************)
ParseSniHostname(hello) ==
    LET ext == FindExtension(hello, 0)
    IN  IF ext = <<>> \/ Len(ext[1]) < 3 THEN <<>>
        ELSE LET names == HostNames(ext[1], Len(ext[1]))
             IN  SubSeq(names, 1, IF names = <<>> THEN 0 ELSE 1)

(***************************************************************************)
(* decodeSni(): goes by the list's length, whatever the extension's says.  *)
(***************************************************************************)
DecodeSni(hello) ==
    LET ext == FindExtension(hello, 0)
    IN  IF ext = <<>> \/ Len(ext[1]) < 2 THEN <<>>
        ELSE HostNames(ext[1], 2 + U16(ext[1], 0))

(***************************************************************************)
(* parseAlpnProtocols(), decodeAlpn(): by the extension's length.          *)
(***************************************************************************)
ParseAlpnProtocols(hello) ==
    LET ext == FindExtension(hello, 16)
        data == ext[1]
        protocols[i \in Nat] ==
            LET next == i + 1 + Byte(data, i)
            IN  IF i + 1 > Len(data) \/ next > Len(data) THEN <<>>
                ELSE <<Slice(data, i + 1, next)>> \o protocols[next]
    IN  IF ext = <<>> \/ Len(ext[1]) < 1 THEN <<>> ELSE protocols[2]

(***************************************************************************)
(* parseSupportedVersions(), decodeSupportedVersions(): as many versions   *)
(* as both the list's length, in bytes, and the extension's leave room for.*)
(***************************************************************************)
ParseSupportedVersions(hello) ==
    LET ext == FindExtension(hello, 43)
        data == ext[1]
        room == IF Byte(data, 0) < Len(data) - 1 THEN Byte(data, 0) ELSE Len(data) - 1
    IN  IF ext = <<>> \/ Len(ext[1]) < 1 THEN <<>> ELSE U16List(data, 1, room)

(***************************************************************************)
(* GREASE_SENTINELS and GREASE_VALUES: 0x0a0a, 0x1a1a, ... 0xfafa.         *)
(***************************************************************************)
Grease == { 257 * ((16 * n) + 10) : n \in 0 .. 15 }

NonGrease(codes) ==
    FlattenSeq([i \in DOMAIN codes |-> IF codes[i] \in Grease THEN <<>> ELSE <<codes[i]>>])

=============================================================================
