----------------------------- MODULE Ja3Parser -----------------------------
(***************************************************************************)
(* parseClientHello() of src/src/fingerprint/ja3.ts.  The end of the       *)
(* handshake is looked at once, in front of the extension block; up to     *)
(* there a length may take the parser into whatever follows in the buffer. *)
(***************************************************************************)
EXTENDS FingerprintParser

Nothing == [version |-> 0, suites |-> <<>>, types |-> <<>>, groups |-> <<>>,
            formats |-> <<>>]

Init == WalkInit(Nothing)

Version ==
    /\ at = "version"
    /\ IF Missing(pos, 2)
       THEN Throw
       ELSE Walk("session", pos + 2 + 32, [seen EXCEPT !.version = U16(buf, pos)])

SessionId ==
    /\ at = "session"
    /\ IF Missing(pos, 1)
       THEN Throw
       ELSE Walk("ciphers", pos + 1 + Byte(buf, pos), seen)

\* Only whole suites are read; an odd byte is stepped over.
CipherSuites ==
    /\ at = "ciphers"
    /\ LET len == U16(buf, pos)
       IN  IF Missing(pos, 2) \/ Missing(pos + 2, 2 * (len \div 2))
           THEN Throw
           ELSE Walk("compression", pos + 2 + len,
                     [seen EXCEPT !.suites = U16List(buf, pos + 2, len)])

CompressionMethods ==
    /\ at = "compression"
    /\ IF Missing(pos, 1)
       THEN Throw
       ELSE Walk("block", pos + 1 + Byte(buf, pos), seen)

NextExtension ==
    /\ MoreExtensions
    /\ LET type == U16(buf, pos)
           len == U16(buf, pos + 2)
       IN  IF Missing(pos, 4) \/ ListMissing(type, len)
           THEN Throw
           ELSE Walk("extension", pos + 4 + len,
                     [seen EXCEPT !.types = Append(@, type),
                                  !.groups = @ \o Groups(type, len),
                                  !.formats = @ \o Formats(type, len)])

Next ==
    \/ Header \/ Version \/ SessionId \/ CipherSuites \/ CompressionMethods
    \/ NoBlock \/ Block \/ NextExtension \/ EndOfBlock

=============================================================================
