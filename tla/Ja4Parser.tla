----------------------------- MODULE Ja4Parser -----------------------------
(***************************************************************************)
(* parseJa4ClientHello() of src/src/fingerprint/ja4.ts, with the readers   *)
(* of ja4-reader.ts.  GREASE values are left out while reading.  The       *)
(* lengths up to the cipher suites are checked against the end of the      *)
(* handshake, those of the compression methods, of the extension block and *)
(* of the extensions are not.                                              *)
(***************************************************************************)
EXTENDS FingerprintParser, HelloAccessors

Nothing == [version |-> 0, suites |-> <<>>, types |-> <<>>, groups |-> <<>>,
            formats |-> <<>>, sni |-> FALSE, alpn |-> <<>>, algorithms |-> <<>>,
            highest |-> 0]

Init == WalkInit(Nothing)

Version ==
    /\ at = "version"
    /\ IF pos + 2 + 32 > end
       THEN Throw
       ELSE Walk("session", pos + 2 + 32, [seen EXCEPT !.version = U16(buf, pos)])

SessionId ==
    /\ at = "session"
    /\ IF Missing(pos, 1) \/ pos + 1 + Byte(buf, pos) + 2 > end
       THEN Throw
       ELSE Walk("ciphers", pos + 1 + Byte(buf, pos), seen)

CipherSuites ==
    /\ at = "ciphers"
    /\ LET len == U16(buf, pos)
       IN  IF pos + 2 + len + 1 > end
           THEN Throw
           ELSE Walk("compression", pos + 2 + len,
                     [seen EXCEPT !.suites = NonGrease(U16List(buf, pos + 2, len))])

\* A faulty variant of CompressionMethods: the length byte is not counted.
CompressionMethodsShort ==
    /\ at = "compression"
    /\ Walk("block", pos + Byte(buf, pos), seen)

CompressionMethods ==
    /\ at = "compression"
    /\ Walk("block", pos + 1 + Byte(buf, pos), seen)

-----------------------------------------------------------------------------
(***************************************************************************)
(* readAlpnProtocols() at the data of an extension: a length beyond the    *)
(* buffer throws, a name beyond it is cut off.                             *)
(***************************************************************************)
HasProtocols(type, len) == type = 16 /\ len >= 2

Protocols ==
    LET listEnd == pos + 6 + U16(buf, pos + 4)
        read[i \in Nat] ==
            LET next == i + 1 + Byte(buf, i)
            IN  IF i >= listEnd THEN <<>> ELSE <<Slice(buf, i + 1, next)>> \o read[next]
    IN  read[pos + 6]

ProtocolsMissing ==
    LET listEnd == pos + 6 + U16(buf, pos + 4)
        missing[i \in Nat] ==
            i < listEnd /\ (i >= Len(buf) \/ missing[i + 1 + Byte(buf, i)])
    IN  Missing(pos + 4, 2) \/ missing[pos + 6]

\* The least of three lengths: the list's, the extension's, the buffer's.
Usable(list, extension, buffer) ==
    CHOOSE n \in {list, extension, buffer} : n <= list /\ n <= extension /\ n <= buffer

HasAlgorithms(type, len) == type = 13 /\ len >= 2

Algorithms(len) ==
    NonGrease(U16List(buf, pos + 6,
                      Usable(U16(buf, pos + 4), len - 2, Len(buf) - pos - 6)))

(***************************************************************************)
(* The first byte of supported_versions counts bytes; the code takes it    *)
(* for a number of versions and doubles it.                                *)
(***************************************************************************)
HasVersions(type, len) == type = 43 /\ len >= 1 /\ ~Missing(pos + 4, 1)

Versions(len) ==
    NonGrease(U16List(buf, pos + 5,
                      Usable(2 * Byte(buf, pos + 4), len - 1, Len(buf) - pos - 5)))

Highest(versions, least) ==
    CHOOSE v \in {least} \cup { versions[i] : i \in DOMAIN versions } :
        /\ v >= least
        /\ \A i \in DOMAIN versions : v >= versions[i]

NextExtension ==
    /\ MoreExtensions
    /\ LET type == U16(buf, pos)
           len == U16(buf, pos + 2)
       IN  IF \/ Missing(pos, 4)
              \/ ListMissing(type, len)
              \/ HasProtocols(type, len) /\ ProtocolsMissing
              \/ HasAlgorithms(type, len) /\ Missing(pos + 4, 2)
           THEN Throw
           ELSE Walk("extension", pos + 4 + len,
                     [seen EXCEPT
                        !.types = @ \o NonGrease(<<type>>),
                        !.groups = @ \o NonGrease(Groups(type, len)),
                        !.formats = @ \o Formats(type, len),
                        !.sni = @ \/ type = 0,
                        !.alpn = IF HasProtocols(type, len) THEN Protocols ELSE @,
                        !.algorithms =
                            @ \o IF HasAlgorithms(type, len) THEN Algorithms(len) ELSE <<>>,
                        !.highest =
                            IF HasVersions(type, len) THEN Highest(Versions(len), @) ELSE @])

Next ==
    \/ Header \/ Version \/ SessionId \/ CipherSuites \/ CompressionMethods
    \/ NoBlock \/ Block \/ NextExtension \/ EndOfBlock

=============================================================================
