------------------------- MODULE HelloParserProofs -------------------------
(***************************************************************************)
(* No buffer takes parseClientHello() out of its bounds, and what it       *)
(* returns is what is on the wire.  The parsers of JA3 and JA4, run behind *)
(* it on the same buffer, read the same in it.                             *)
(***************************************************************************)
EXTENDS HelloParsers, SequenceLemmas, TLAPS

(***************************************************************************)
(* What the other readers of HelloWire return, at any offset of any buffer. *)
(***************************************************************************)
LEMMA OctetsAreNats ==
    ASSUME NEW b \in Seq(Octets)
    PROVE  b \in Seq(Nat)
<1>1. Octets \subseteq Nat
  BY DEF Octets
<1>. QED
  BY <1>1, SeqMonotonic

LEMMA U24IsNat ==
    ASSUME NEW b \in Seq(Nat), NEW i \in Nat
    PROVE  U24(b, i) \in Nat
<1>1. i + 1 \in Nat
  OBVIOUS
<1>2. Byte(b, i) \in Nat /\ U16(b, i + 1) \in Nat
  BY <1>1, ByteIsNat, U16IsNat
<1>3. \A x, y \in Nat : (65536 * x) + y \in Nat
  OBVIOUS
<1>. QED
  BY <1>2, <1>3 DEF U24

LEMMA U16ListIsSeq ==
    ASSUME NEW b \in Seq(Nat), NEW i \in Nat, NEW n \in Nat
    PROVE  U16List(b, i, n) \in Seq(Nat)
<1>1. n \div 2 \in Nat
  OBVIOUS
<1>2. \A k \in 1 .. n \div 2 : U16(b, i + (2 * (k - 1))) \in Nat
  BY <1>1, U16IsNat
<1>. QED
  BY <1>1, <1>2 DEF U16List

LEMMA RecordHeaderIsNat ==
    ASSUME NEW b \in Seq(Nat)
    PROVE  RecordHeader(b) \in Nat
BY DEF RecordHeader

-----------------------------------------------------------------------------
(***************************************************************************)
(* Reading the header bounds extEnd by the new bodyEnd because nothing has *)
(* been read into it before: the part of the invariant TypeOK leaves out.  *)
(***************************************************************************)
TypeInv == TypeOK /\ (at = "header" => extEnd = 0)

LEMMA TypeInit == Init => TypeInv
<1>. SUFFICES ASSUME Init
              PROVE  TypeInv
  OBVIOUS
<1>1. buf \in Seq(Nat) /\ Len(buf) \in Nat
  <2>1. buf \in Seq(Octets)
    BY BufferAssumption DEF Init
  <2>. QED
    BY <2>1, OctetsAreNats
<1>2. NoFields \in ParsedHello
  BY DEF NoFields, ParsedHello
<1>3. at \in Fields \cup Outcomes /\ lost \in BOOLEAN
  BY DEF Init, Fields
<1>. QED
  BY <1>1, <1>2, <1>3 DEF Init, TypeInv, TypeOK

(***************************************************************************)
(* What Advance and Reject leave to show of a step.                        *)
(***************************************************************************)
LEMMA TypeReject == TypeInv /\ Reject => TypeInv'
BY DEF TypeInv, TypeOK, Reject, Outcomes

LEMMA TypeAdvance ==
    ASSUME TypeInv,
           NEW next \in (Fields \cup Outcomes) \ {"header"},
           NEW end \in Nat, NEW fields \in ParsedHello,
           Advance(next, end, fields),
           bodyEnd' \in Nat, extEnd' \in Nat,
           end <= bodyEnd', bodyEnd' <= Len(buf), extEnd' <= bodyEnd',
           next = "extension" => end <= extEnd'
    PROVE  TypeInv'
BY DEF TypeInv, TypeOK, Advance

LEMMA TypeHeader == TypeInv /\ Header => TypeInv'
<1>. SUFFICES ASSUME TypeInv, Header
              PROVE  TypeInv'
  OBVIOUS
<1>. DEFINE body == RecordHeader(buf) + 4
            end == body + U24(buf, body - 3)
            next == body + 2 + RandomLen
            fields == [hello EXCEPT !.version = U16(buf, body),
                                    !.random = Slice(buf, body + 2, next)]
<1>0. buf \in Seq(Nat) /\ Len(buf) \in Nat /\ hello \in ParsedHello
  BY DEF TypeInv, TypeOK
<1>1. body \in Nat /\ next \in Nat /\ body - 3 \in Nat /\ body + 2 \in Nat
  BY <1>0, RecordHeaderIsNat DEF RandomLen
<1>2. end \in Nat
  <2>1. U24(buf, body - 3) \in Nat
    BY <1>0, <1>1, U24IsNat
  <2>. QED
    BY <1>1, <2>1
<1>3. CASE BadHeader(body, end)
  BY <1>3, TypeReject DEF Header
<1>4. CASE ~BadHeader(body, end)
  <2>1. end <= Len(buf) /\ next <= end
    <3>1. ~Overruns(end, Len(buf)) /\ ~Overruns(next, end)
      BY <1>4, Zenon DEF BadHeader
    <3> HIDE DEF body, end, next
    <3> QED
      BY <1>0, <1>1, <1>2, <3>1 DEF Overruns
  <2>2. fields \in ParsedHello
    <3>1. U16(buf, body) \in Nat /\ Slice(buf, body + 2, next) \in Seq(Nat)
      BY <1>0, <1>1, U16IsNat, SliceIsSeq
    <3>. QED
      BY <1>0, <3>1 DEF ParsedHello
  <2>3. Advance("session", next, fields) /\ bodyEnd' = end /\ extEnd' = 0
    BY <1>4 DEF Header, TypeInv
  <2>4. "session" \in (Fields \cup Outcomes) \ {"header"}
    BY DEF Fields
  <2>5. /\ bodyEnd' \in Nat /\ extEnd' \in Nat
        /\ next <= bodyEnd' /\ bodyEnd' <= Len(buf) /\ extEnd' <= bodyEnd'
    BY <1>2, <2>1, <2>3
  <2>. HIDE DEF next, fields
  <2>. QED
    BY <1>1, <2>2, <2>3, <2>4, <2>5, TypeAdvance
<1>. QED
  BY <1>3, <1>4

(***************************************************************************)
(* A step within the body: a field that ends at end, and the length there. *)
(***************************************************************************)
LEMMA TypeField ==
    ASSUME TypeInv,
           NEW next \in Fields \ {"header", "extension"},
           NEW end \in Nat, NEW fields \in ParsedHello,
           ~Overruns(end, bodyEnd),
           Advance(next, end, fields),
           UNCHANGED <<bodyEnd, extEnd>>
    PROVE  TypeInv'
<1>1. end <= bodyEnd
  BY DEF TypeInv, TypeOK, Overruns
<1>2. next \in (Fields \cup Outcomes) \ {"header"} /\ next # "extension"
  OBVIOUS
<1>. QED
  BY <1>1, <1>2, TypeAdvance DEF TypeInv, TypeOK

LEMMA TypeSessionId == TypeInv /\ SessionId => TypeInv'
<1>. SUFFICES ASSUME TypeInv, SessionId
              PROVE  TypeInv'
  OBVIOUS
<1>. DEFINE end == o + 1 + Byte(buf, o)
            fields == [hello EXCEPT !.sessionId = Slice(buf, o + 1, end)]
<1>1. buf \in Seq(Nat) /\ o \in Nat /\ o + 1 \in Nat /\ hello \in ParsedHello
  BY DEF TypeInv, TypeOK
<1>2. end \in Nat
  <2>1. PICK len \in Nat : len = Byte(buf, o)
    BY <1>1, ByteIsNat
  <2>. QED
    BY <1>1, <2>1
<1>3. fields \in ParsedHello
  <2>1. Slice(buf, o + 1, end) \in Seq(Nat)
    BY <1>1, <1>2, SliceIsSeq
  <2>. QED
    BY <1>1, <2>1 DEF ParsedHello
<1>4. CASE Overruns(end, bodyEnd)
  BY <1>4, TypeReject DEF SessionId
<1>5. CASE ~Overruns(end, bodyEnd)
  <2>1. Advance("ciphers", end, fields) /\ UNCHANGED <<bodyEnd, extEnd>>
    BY <1>5 DEF SessionId
  <2>2. "ciphers" \in Fields \ {"header", "extension"}
    BY DEF Fields
  <2>. HIDE DEF end, fields
  <2>. QED
    BY <1>2, <1>3, <1>5, <2>1, <2>2, TypeField
<1>. QED
  BY <1>4, <1>5

LEMMA TypeCipherSuites == TypeInv /\ CipherSuites => TypeInv'
<1>. SUFFICES ASSUME TypeInv, CipherSuites
              PROVE  TypeInv'
  OBVIOUS
<1>. DEFINE len == U16(buf, o)
            end == o + 2 + len
            fields == [hello EXCEPT !.suites = U16List(buf, o + 2, len)]
<1>1. buf \in Seq(Nat) /\ o \in Nat /\ o + 2 \in Nat /\ hello \in ParsedHello
  BY DEF TypeInv, TypeOK
<1>2. len \in Nat
  BY <1>1, U16IsNat
<1>3. end \in Nat
  BY <1>1, <1>2
<1>4. fields \in ParsedHello
  <2>1. U16List(buf, o + 2, len) \in Seq(Nat)
    BY <1>1, <1>2, U16ListIsSeq
  <2>. QED
    BY <1>1, <2>1 DEF ParsedHello
<1>5. CASE Overruns(o + 2, bodyEnd) \/ Overruns(end, bodyEnd) \/ len % 2 # 0
  BY <1>5, TypeReject DEF CipherSuites
<1>6. CASE ~(Overruns(o + 2, bodyEnd) \/ Overruns(end, bodyEnd) \/ len % 2 # 0)
  <2>1. Advance("compression", end, fields) /\ UNCHANGED <<bodyEnd, extEnd>>
    BY <1>6 DEF CipherSuites
  <2>2. "compression" \in Fields \ {"header", "extension"}
    BY DEF Fields
  <2>. HIDE DEF end, fields
  <2>. QED
    BY <1>3, <1>4, <1>6, <2>1, <2>2, TypeField
<1>. QED
  BY <1>5, <1>6

LEMMA TypeCompressionMethods == TypeInv /\ CompressionMethods => TypeInv'
<1>. SUFFICES ASSUME TypeInv, CompressionMethods
              PROVE  TypeInv'
  OBVIOUS
<1>. DEFINE end == o + 1 + Byte(buf, o)
            fields == [hello EXCEPT !.methods = Slice(buf, o + 1, end)]
<1>1. buf \in Seq(Nat) /\ o \in Nat /\ o + 1 \in Nat /\ hello \in ParsedHello
  BY DEF TypeInv, TypeOK
<1>2. end \in Nat
  <2>1. PICK len \in Nat : len = Byte(buf, o)
    BY <1>1, ByteIsNat
  <2>. QED
    BY <1>1, <2>1
<1>3. fields \in ParsedHello
  <2>1. Slice(buf, o + 1, end) \in Seq(Nat)
    BY <1>1, <1>2, SliceIsSeq
  <2>. QED
    BY <1>1, <2>1 DEF ParsedHello
<1>4. CASE Overruns(end, bodyEnd)
  BY <1>4, TypeReject DEF CompressionMethods
<1>5. CASE ~Overruns(end, bodyEnd)
  <2>1. Advance("block", end, fields) /\ UNCHANGED <<bodyEnd, extEnd>>
    BY <1>5 DEF CompressionMethods
  <2>2. "block" \in Fields \ {"header", "extension"}
    BY DEF Fields
  <2>. HIDE DEF end, fields
  <2>. QED
    BY <1>2, <1>3, <1>5, <2>1, <2>2, TypeField
<1>. QED
  BY <1>4, <1>5

-----------------------------------------------------------------------------
LEMMA TypeNoBlock == TypeInv /\ NoBlock => TypeInv'
BY DEF TypeInv, TypeOK, NoBlock, Advance, Outcomes

LEMMA TypeExtensionBlock == TypeInv /\ ExtensionBlock => TypeInv'
<1>. SUFFICES ASSUME TypeInv, ExtensionBlock
              PROVE  TypeInv'
  OBVIOUS
<1>. DEFINE end == o + 2 + U16(buf, o)
            fields == [hello EXCEPT !.extensible = TRUE]
<1>1. buf \in Seq(Nat) /\ o \in Nat /\ o + 2 \in Nat /\ hello \in ParsedHello
  BY DEF TypeInv, TypeOK
<1>2. end \in Nat /\ o + 2 <= end
  <2>1. U16(buf, o) \in Nat
    BY <1>1, U16IsNat
  <2>. QED
    BY <1>1, <2>1
<1>3. fields \in ParsedHello
  BY <1>1 DEF ParsedHello
<1>4. CASE Overruns(end, bodyEnd)
  BY <1>4, TypeReject DEF ExtensionBlock
<1>5. CASE ~Overruns(end, bodyEnd)
  <2>1. /\ Advance("extension", o + 2, fields)
        /\ extEnd' = end /\ bodyEnd' = bodyEnd /\ o + 2 <= bodyEnd
    BY <1>5 DEF ExtensionBlock
  <2>2. "extension" \in (Fields \cup Outcomes) \ {"header"}
    BY DEF Fields
  <2>3. end <= bodyEnd
    BY <1>2, <1>5 DEF Overruns, TypeInv, TypeOK
  <2>4. bodyEnd \in Nat /\ bodyEnd <= Len(buf)
    BY DEF TypeInv, TypeOK
  <2>. HIDE DEF end, fields
  <2>. QED
    BY <1>1, <1>2, <1>3, <2>1, <2>2, <2>3, <2>4, TypeAdvance
<1>. QED
  BY <1>4, <1>5

LEMMA TypeNextExtension == TypeInv /\ NextExtension => TypeInv'
<1>. SUFFICES ASSUME TypeInv, NextExtension
              PROVE  TypeInv'
  OBVIOUS
<1>. DEFINE end == o + 4 + U16(buf, o + 2)
            fields == [hello EXCEPT !.extensions = Append(@, Extension(end))]
<1>1. /\ buf \in Seq(Nat) /\ o \in Nat /\ o + 2 \in Nat /\ o + 4 \in Nat
      /\ hello \in ParsedHello
  BY DEF TypeInv, TypeOK
<1>2. end \in Nat
  <2>1. U16(buf, o + 2) \in Nat
    BY <1>1, U16IsNat
  <2>. QED
    BY <1>1, <2>1
<1>3. fields \in ParsedHello
  <2>1. U16(buf, o) \in Nat /\ Slice(buf, o + 4, end) \in Seq(Nat)
    BY <1>1, <1>2, U16IsNat, SliceIsSeq
  <2>2. Extension(end) \in [type : Nat, data : Seq(Nat)]
    BY <2>1 DEF Extension
  <2>3. \A S, x, s : x \in S /\ s \in Seq(S) => Append(s, x) \in Seq(S)
    OBVIOUS
  <2>. HIDE DEF end
  <2>4. Append(hello.extensions, Extension(end)) \in Seq([type : Nat, data : Seq(Nat)])
    BY <1>1, <2>2, <2>3, Zenon DEF ParsedHello
  <2>. QED
    BY <1>1, <2>4 DEF ParsedHello
<1>4. CASE Overruns(end, extEnd)
  BY <1>4, TypeReject DEF NextExtension
<1>5. CASE ~Overruns(end, extEnd)
  <2>1. Advance("extension", end, fields) /\ UNCHANGED <<bodyEnd, extEnd>>
    BY <1>5 DEF NextExtension
  <2>2. "extension" \in (Fields \cup Outcomes) \ {"header"}
    BY DEF Fields
  <2>3. end <= extEnd
    BY <1>2, <1>5 DEF Overruns, TypeInv, TypeOK
  <2>4. /\ bodyEnd \in Nat /\ extEnd \in Nat
        /\ extEnd <= bodyEnd /\ bodyEnd <= Len(buf)
    BY DEF TypeInv, TypeOK
  <2>5. end <= bodyEnd
    BY <1>2, <2>3, <2>4
  <2>. HIDE DEF end, fields
  <2>. QED
    BY <1>2, <1>3, <2>1, <2>2, <2>3, <2>4, <2>5, TypeAdvance
<1>. QED
  BY <1>4, <1>5

LEMMA TypeEndOfBlock == TypeInv /\ EndOfBlock => TypeInv'
BY DEF TypeInv, TypeOK, EndOfBlock, Advance, Outcomes

LEMMA TypeReadsPastEnd == TypeInv /\ ReadsPastEnd => TypeInv'
BY DEF TypeInv, TypeOK, ReadsPastEnd, Outcomes

-----------------------------------------------------------------------------
LEMMA TypeStep == TypeInv /\ [Next]_parserVars => TypeInv'
<1>. SUFFICES ASSUME TypeInv, [Next]_parserVars
              PROVE  TypeInv'
  OBVIOUS
<1>1. CASE Next
  BY <1>1, TypeHeader, TypeSessionId, TypeCipherSuites, TypeCompressionMethods,
     TypeNoBlock, TypeExtensionBlock, TypeNextExtension, TypeEndOfBlock,
     TypeReadsPastEnd DEF Next
<1>2. CASE UNCHANGED parserVars
  BY <1>2 DEF parserVars, TypeInv, TypeOK
<1>. QED
  BY <1>1, <1>2

(***************************************************************************)
(* parseClientHello() stays within the body and the extension block,       *)
(* whatever buffer of whatever length it is given.                         *)
(***************************************************************************)
THEOREM ParserStaysInBounds == Spec => []TypeOK
<1>1. Init => TypeInv
  BY TypeInit
<1>2. TypeInv /\ [Next]_parserVars => TypeInv'
  BY TypeStep
<1>3. TypeInv => TypeOK
  BY DEF TypeInv
<1>. QED
  BY <1>1, <1>2, <1>3, PTL DEF Spec

-----------------------------------------------------------------------------
(***************************************************************************)
(* Reading a field and putting it together again gives its bytes.          *)
(***************************************************************************)
LEMMA ByteBetween ==
    ASSUME NEW b \in Seq(Octets), NEW i \in Nat, i + 1 <= Len(b)
    PROVE  Byte(b, i) \in Octets /\ <<Byte(b, i)>> = Between(b, i, i + 1)
<1>1. Byte(b, i) = b[i + 1] /\ b[i + 1] \in Octets
  BY DEF Byte
<1>2. /\ Between(b, i, i + 1) \in Seq(Octets) /\ Len(Between(b, i, i + 1)) = 1
      /\ Between(b, i, i + 1)[1] = b[i + 1]
  <2>1. i + 1 \in Nat /\ i <= i + 1 /\ (i + 1) - i = 1
    OBVIOUS
  <2>2. IsPart(Between(b, i, i + 1), Octets, b, i, i + 1)
    BY <2>1, BetweenBytes, Zenon
  <2>3. 1 \in 1 .. (i + 1) - i
    OBVIOUS
  <2>4. Between(b, i, i + 1)[1] = b[i + 1]
    BY <2>2, <2>3, Zenon DEF IsPart
  <2> QED
    BY <2>1, <2>2, <2>4 DEF IsPart
<1>3. <<b[i + 1]>> \in Seq(Octets) /\ Len(<<b[i + 1]>>) = 1 /\ <<b[i + 1]>>[1] = b[i + 1]
  BY <1>1
<1>4. <<b[i + 1]>> = Between(b, i, i + 1)
  BY <1>2, <1>3, SeqEqual
<1> QED
  BY <1>1, <1>4

LEMMA U16Between ==
    ASSUME NEW b \in Seq(Octets), NEW i \in Nat, i + 2 <= Len(b)
    PROVE  Bytes16(U16(b, i)) = Between(b, i, i + 2)
<1>1. /\ Byte(b, i) \in Octets /\ <<Byte(b, i)>> = Between(b, i, i + 1)
      /\ Byte(b, i + 1) \in Octets /\ <<Byte(b, i + 1)>> = Between(b, i + 1, i + 2)
  <2>1. i + 1 \in Nat /\ i + 1 <= Len(b) /\ (i + 1) + 1 = i + 2
    OBVIOUS
  <2> QED
    BY <2>1, ByteBetween
<1>2. \A x, y \in Octets :
        ((256 * x) + y) \div 256 = x /\ ((256 * x) + y) % 256 = y
  BY DEF Octets
<1>3. Bytes16(U16(b, i)) = <<Byte(b, i), Byte(b, i + 1)>>
  BY <1>1, <1>2 DEF Bytes16, U16
<1>4. <<Byte(b, i), Byte(b, i + 1)>> = <<Byte(b, i)>> \o <<Byte(b, i + 1)>>
  OBVIOUS
<1>5. Between(b, i, i + 1) \o Between(b, i + 1, i + 2) = Between(b, i, i + 2)
  <2>1. i + 1 \in Nat /\ i + 2 \in Nat /\ i <= i + 1 /\ i + 1 <= i + 2
    OBVIOUS
  <2> QED
    BY <2>1, BetweenJoins
<1> QED
  BY <1>1, <1>3, <1>4, <1>5

LEMMA Vector8Between ==
    ASSUME NEW b \in Seq(Octets), NEW i \in Nat, NEW e \in Nat,
           e = i + 1 + Byte(b, i), i + 1 <= e, e <= Len(b)
    PROVE  Vector8(Slice(b, i + 1, e)) = Between(b, i, e)
<1>1. i + 1 \in Nat /\ i <= i + 1 /\ i + 1 <= Len(b)
  OBVIOUS
<1>2. Slice(b, i + 1, e) = Between(b, i + 1, e) /\ Len(Between(b, i + 1, e)) = e - (i + 1)
  <2>1. IsPart(Between(b, i + 1, e), Octets, b, i + 1, e)
    BY <1>1, BetweenBytes, Zenon
  <2> QED
    BY <2>1, SliceIsBetween DEF IsPart
<1>3. Byte(b, i) \in Octets /\ <<Byte(b, i)>> = Between(b, i, i + 1)
  BY <1>1, ByteBetween
<1>4. e - (i + 1) = Byte(b, i)
  <2>1. Byte(b, i) \in Int
    <3>1. Octets \subseteq Int
      BY DEF Octets
    <3> QED
      BY <1>3, <3>1, Zenon
  <2> QED
    BY <2>1
<1>5. Between(b, i, i + 1) \o Between(b, i + 1, e) = Between(b, i, e)
  BY <1>1, BetweenJoins
<1> QED
  BY <1>2, <1>3, <1>4, <1>5 DEF Vector8

LEMMA Vector16Between ==
    ASSUME NEW b \in Seq(Octets), NEW i \in Nat, NEW e \in Nat,
           e = i + 2 + U16(b, i), i + 2 <= e, e <= Len(b),
           NEW content, content = Between(b, i + 2, e)
    PROVE  Vector16(content) = Between(b, i, e)
<1>1. i + 2 \in Nat /\ i <= i + 2 /\ i + 2 <= Len(b)
  OBVIOUS
<1>2. Len(content) = e - (i + 2)
  <2>1. IsPart(Between(b, i + 2, e), Octets, b, i + 2, e)
    BY <1>1, BetweenBytes, Zenon
  <2> QED
    BY <2>1 DEF IsPart
<1>3. e - (i + 2) = U16(b, i)
  <2>1. U16(b, i) \in Nat
    BY OctetsAreNats, U16IsNat
  <2> QED
    BY <2>1
<1>4. Bytes16(U16(b, i)) = Between(b, i, i + 2)
  BY <1>1, U16Between
<1>5. Between(b, i, i + 2) \o Between(b, i + 2, e) = Between(b, i, e)
  BY <1>1, BetweenJoins
<1> QED
  BY <1>2, <1>3, <1>4, <1>5 DEF Vector16

(***************************************************************************)
(* A code or an extension more puts its bytes behind those of the others.  *)
(***************************************************************************)
LEMMA CodesAppend ==
    ASSUME NEW s \in Seq(Nat), NEW x \in Nat
    PROVE  Codes(Append(s, x)) = Codes(s) \o Bytes16(x)
<1> DEFINE pieces(l) == [k \in DOMAIN l |-> Bytes16(l[k])]
<1>1. \A y \in Nat : Bytes16(y) \in Seq(Int)
  BY DEF Bytes16
<1>2. PICK t \in Seq(Nat) : t = Append(s, x)
  BY AppendProperties
<1>3. /\ Len(t) = Len(s) + 1 /\ DOMAIN t = 1 .. Len(s) + 1 /\ DOMAIN s = 1 .. Len(s)
      /\ t[Len(s) + 1] = x /\ \A k \in 1 .. Len(s) : t[k] = s[k]
  BY <1>2, AppendProperties, LenProperties
<1>4. pieces(s) \in Seq(Seq(Int)) /\ Len(pieces(s)) = Len(s)
  <2>1. \A k \in 1 .. Len(s) : Bytes16(s[k]) \in Seq(Int)
    <3>1. \A k \in 1 .. Len(s) : s[k] \in Nat
      BY ElementOfSeq
    <3> QED
      BY <1>1, <3>1, Zenon
  <2> QED
    BY <1>3, <2>1
<1>5. pieces(t) \in Seq(Seq(Int)) /\ Len(pieces(t)) = Len(s) + 1
  <2>1. \A k \in 1 .. Len(s) + 1 : Bytes16(t[k]) \in Seq(Int)
    BY <1>1, <1>3
  <2> QED
    BY <1>3, <2>1
<1>6. pieces(t) = Append(pieces(s), Bytes16(x))
  <2>1. \A k \in 1 .. Len(s) : pieces(t)[k] = pieces(s)[k]
    BY <1>3
  <2>2. pieces(t)[Len(s) + 1] = Bytes16(x)
    BY <1>3
  <2> HIDE DEF pieces
  <2>3. PICK v \in Seq(Int) : v = Bytes16(x)
    BY <1>1
  <2>4. pieces(t)[Len(s) + 1] = v
    BY ONLY <2>2, <2>3
  <2>5. pieces(t) = Append(pieces(s), v)
    BY ONLY <1>4, <1>5, <2>1, <2>3, <2>4, SMTT(20)
  <2> QED
    BY ONLY <2>3, <2>5
<1>7. FlattenSeq(Append(pieces(s), Bytes16(x))) = FlattenSeq(pieces(s)) \o Bytes16(x)
  <2>1. Bytes16(x) \in Seq(Int)
    BY <1>1
  <2> HIDE DEF pieces
  <2> QED
    BY <1>4, <2>1, FlattenAppend
<1> QED
  BY <1>2, <1>6, <1>7 DEF Codes

LEMMA U16ListAppend ==
    ASSUME NEW b \in Seq(Nat), NEW i \in Nat, NEW n \in Nat
    PROVE  U16List(b, i, 2 * (n + 1)) = Append(U16List(b, i, 2 * n), U16(b, i + (2 * n)))
<1>1. (2 * n) \div 2 = n /\ (2 * (n + 1)) \div 2 = n + 1
  OBVIOUS
<1>2. /\ U16List(b, i, 2 * n) = [k \in 1 .. n |-> U16(b, i + (2 * (k - 1)))]
      /\ U16List(b, i, 2 * (n + 1)) = [k \in 1 .. n + 1 |-> U16(b, i + (2 * (k - 1)))]
  BY <1>1 DEF U16List
<1>3. (n + 1) - 1 = n
  OBVIOUS
<1>4. U16List(b, i, 2 * n) \in Seq(Nat) /\ U16List(b, i, 2 * (n + 1)) \in Seq(Nat)
  <2>1. 2 * n \in Nat /\ 2 * (n + 1) \in Nat
    OBVIOUS
  <2> QED
    BY <2>1, U16ListIsSeq
<1>5. PICK s \in Seq(Nat), t \in Seq(Nat) :
         s = U16List(b, i, 2 * n) /\ t = U16List(b, i, 2 * (n + 1))
  BY <1>4
<1>6. Len(s) = n /\ Len(t) = n + 1
  BY <1>2, <1>5
<1>7. ASSUME NEW k \in 1 .. n PROVE t[k] = s[k]
  <2>1. k \in 1 .. n + 1
    OBVIOUS
  <2>2. s[k] = U16(b, i + (2 * (k - 1)))
    BY <1>2, <1>5, Zenon
  <2>3. t[k] = U16(b, i + (2 * (k - 1)))
    BY <1>2, <1>5, <2>1, Zenon
  <2> QED
    BY <2>2, <2>3
<1>8. t[n + 1] = U16(b, i + (2 * n))
  <2>1. n + 1 \in 1 .. n + 1
    OBVIOUS
  <2>2. t[n + 1] = U16(b, i + (2 * ((n + 1) - 1)))
    BY <1>2, <1>5, <2>1
  <2> QED
    BY <1>3, <2>2
<1>9. t = Append(s, U16(b, i + (2 * n)))
  <2>1. i + (2 * n) \in Nat
    OBVIOUS
  <2>2. PICK x \in Nat : x = U16(b, i + (2 * n))
    BY <2>1, U16IsNat
  <2>3. t = Append(s, x)
    BY <1>6, <1>7, <1>8, <2>2
  <2> QED
    BY <2>2, <2>3
<1> QED
  BY <1>5, <1>9

LEMMA CodesBetween ==
    ASSUME NEW b \in Seq(Octets), NEW i \in Nat, NEW n \in Nat, i + (2 * n) <= Len(b)
    PROVE  Codes(U16List(b, i, 2 * n)) = Between(b, i, i + (2 * n))
<1> DEFINE A == {m \in Nat : i + (2 * m) <= Len(b) =>
                    Codes(U16List(b, i, 2 * m)) = Between(b, i, i + (2 * m))}
<1>0. b \in Seq(Nat)
  BY OctetsAreNats
<1>1. 0 \in A
  <2>1. U16List(b, i, 2 * 0) = <<>>
    <3>1. (2 * 0) \div 2 = 0
      OBVIOUS
    <3> QED
      BY <3>1 DEF U16List
  <2>2. Codes(<<>>) = <<>>
    <3>1. [k \in DOMAIN <<>> |-> Bytes16(<<>>[k])] = <<>>
      OBVIOUS
    <3> QED
      BY <3>1, FlattenEmpty DEF Codes
  <2>3. Between(b, i, i + (2 * 0)) = <<>>
    BY SubSeqEmpty DEF Between
  <2> QED
    BY <2>1, <2>2, <2>3
<1>2. ASSUME NEW m \in Nat, m \in A PROVE m + 1 \in A
  <2> SUFFICES ASSUME i + (2 * (m + 1)) <= Len(b)
               PROVE  Codes(U16List(b, i, 2 * (m + 1))) = Between(b, i, i + (2 * (m + 1)))
    OBVIOUS
  <2>1. PICK j \in Nat, s \in Seq(Nat) : j = i + (2 * m) /\ s = U16List(b, i, 2 * m)
    <3>1. 2 * m \in Nat /\ i + (2 * m) \in Nat
      OBVIOUS
    <3> QED
      BY <1>0, <3>1, U16ListIsSeq
  <2>2. i <= j /\ j + 2 <= Len(b) /\ i + (2 * (m + 1)) = j + 2 /\ j + 2 \in Nat /\ j <= j + 2
    BY <2>1
  <2>3. Codes(s) = Between(b, i, j)
    BY <1>2, <2>1, <2>2
  <2>4. U16List(b, i, 2 * (m + 1)) = Append(s, U16(b, j))
    BY <1>0, <2>1, U16ListAppend
  <2>5. Codes(Append(s, U16(b, j))) = Codes(s) \o Bytes16(U16(b, j))
    <3>1. U16(b, j) \in Nat
      BY <1>0, U16IsNat
    <3> QED
      BY <3>1, CodesAppend
  <2>6. Bytes16(U16(b, j)) = Between(b, j, j + 2)
    BY <2>2, U16Between
  <2>7. Between(b, i, j) \o Between(b, j, j + 2) = Between(b, i, j + 2)
    BY <2>2, BetweenJoins
  <2> QED
    BY <2>2, <2>3, <2>4, <2>5, <2>6, <2>7
<1>3. n \in A
  <2> HIDE DEF A
  <2> QED
    BY <1>1, <1>2, SetInduction
<1> QED
  BY <1>3

LEMMA ExtensionsAppend ==
    ASSUME NEW es \in Seq([type : Nat, data : Seq(Nat)]),
           NEW e \in [type : Nat, data : Seq(Nat)]
    PROVE  Extensions(Append(es, e)) = Extensions(es) \o (Bytes16(e.type) \o Vector16(e.data))
<1> DEFINE piece(x) == Bytes16(x.type) \o Vector16(x.data)
           pieces(l) == [k \in DOMAIN l |-> piece(l[k])]
<1>1. \A x \in [type : Nat, data : Seq(Nat)] : piece(x) \in Seq(Int)
  <2> SUFFICES ASSUME NEW x \in [type : Nat, data : Seq(Nat)] PROVE piece(x) \in Seq(Int)
    OBVIOUS
  <2>1. \A y \in Nat : Bytes16(y) \in Seq(Int)
    BY DEF Bytes16
  <2>2. x.type \in Nat /\ x.data \in Seq(Int) /\ Len(x.data) \in Nat
    OBVIOUS
  <2>3. Vector16(x.data) \in Seq(Int)
    BY <2>1, <2>2, ConcatProperties DEF Vector16
  <2> QED
    BY <2>1, <2>2, <2>3, ConcatProperties
<1>2. PICK t \in Seq([type : Nat, data : Seq(Nat)]) : t = Append(es, e)
  BY AppendProperties
<1>3. /\ Len(t) = Len(es) + 1 /\ DOMAIN t = 1 .. Len(es) + 1 /\ DOMAIN es = 1 .. Len(es)
      /\ t[Len(es) + 1] = e /\ \A k \in 1 .. Len(es) : t[k] = es[k]
  BY <1>2, AppendProperties, LenProperties
<1>4. \A k \in 1 .. Len(es) : es[k] \in [type : Nat, data : Seq(Nat)]
  BY ElementOfSeq
<1>5. \A k \in 1 .. Len(es) + 1 : t[k] \in [type : Nat, data : Seq(Nat)]
  BY <1>3, ElementOfSeq
<1> HIDE DEF piece
<1>6. pieces(es) \in Seq(Seq(Int)) /\ Len(pieces(es)) = Len(es)
  <2>1. \A k \in 1 .. Len(es) : piece(es[k]) \in Seq(Int)
    BY <1>1, <1>4
  <2> QED
    BY <1>3, <2>1
<1>7. pieces(t) \in Seq(Seq(Int)) /\ Len(pieces(t)) = Len(es) + 1
  <2>1. \A k \in 1 .. Len(es) + 1 : piece(t[k]) \in Seq(Int)
    BY <1>1, <1>5
  <2> QED
    BY <1>3, <2>1
<1>8. pieces(t) = Append(pieces(es), piece(e))
  <2>1. \A k \in 1 .. Len(es) : pieces(t)[k] = pieces(es)[k]
    BY <1>3
  <2>2. pieces(t)[Len(es) + 1] = piece(e)
    BY <1>3
  <2>3. piece(e) \in Seq(Int)
    BY <1>1
  <2> HIDE DEF pieces
  <2> QED
    BY <1>6, <1>7, <2>1, <2>2, <2>3, AppendIsEqual
<1>9. FlattenSeq(Append(pieces(es), piece(e))) = FlattenSeq(pieces(es)) \o piece(e)
  <2>1. piece(e) \in Seq(Int)
    BY <1>1
  <2> HIDE DEF pieces
  <2> QED
    BY <1>6, <2>1, FlattenAppend
<1> QED
  BY <1>2, <1>8, <1>9 DEF Extensions, piece

-----------------------------------------------------------------------------
(***************************************************************************)
(* What has been read of a ClientHello h in front of each field, and of    *)
(* its extension block, which ends at end, in front of offset p.           *)
(***************************************************************************)
Start(b) == RecordHeader(b) + 4

ThroughRandom(h) == Bytes16(h.version) \o h.random

ThroughSession(h) == ThroughRandom(h) \o Vector8(h.sessionId)

ThroughSuites(h) == ThroughSession(h) \o Vector16(Codes(h.suites))

BlockAt(b, h, end, p, q) ==
    /\ Start(b) <= q /\ q + 2 <= p
    /\ end = q + 2 + U16(b, q)
    /\ FixedFields(h) = Between(b, Start(b), q)
    /\ Extensions(h.extensions) = Between(b, q + 2, p)

BlockRead(b, h, end, p) == h.extensible /\ \E q \in Nat : BlockAt(b, h, end, p, q)

(***************************************************************************)
(* At every field, the fields behind the parser are the bytes behind it.   *)
(***************************************************************************)
Unblocked(h) == h.extensible = FALSE /\ h.extensions = <<>>

ReadSoFar ==
    /\ at \in {"header", "session", "ciphers", "compression", "block"} => Unblocked(hello)
    /\ at \in {"session", "ciphers", "compression", "block"} => Start(buf) <= o
    /\ at = "session" => ThroughRandom(hello) = Between(buf, Start(buf), o)
    /\ at = "ciphers" => ThroughSession(hello) = Between(buf, Start(buf), o)
    /\ at = "compression" => ThroughSuites(hello) = Between(buf, Start(buf), o)
    /\ at = "block" => FixedFields(hello) = Between(buf, Start(buf), o)
    /\ at = "extension" => BlockRead(buf, hello, extEnd, o)
    /\ at = "accepted" /\ ~lost =>
          \/ /\ Unblocked(hello) /\ Start(buf) <= o /\ o + 2 > bodyEnd
             /\ FixedFields(hello) = Between(buf, Start(buf), o)
          \/ \E p \in Nat : /\ p <= extEnd /\ extEnd < p + 4
                            /\ BlockRead(buf, hello, extEnd, p)

ReadInv == TypeInv /\ buf \in Seq(Octets) /\ ReadSoFar

LEMMA ReadInit == Init => ReadInv
<1> SUFFICES ASSUME Init PROVE ReadInv
  OBVIOUS
<1>1. buf \in Seq(Octets)
  BY BufferAssumption DEF Init
<1>2. ReadSoFar
  BY DEF Init, ReadSoFar, NoFields, Unblocked
<1> QED
  BY <1>1, <1>2, TypeInit DEF ReadInv

LEMMA ReadReject == ReadSoFar /\ Reject => ReadSoFar'
BY DEF ReadSoFar, Reject

LEMMA ReadHeader == ReadInv /\ Header => ReadSoFar'
<1> SUFFICES ASSUME ReadInv, Header
             PROVE  ReadSoFar'
  OBVIOUS
<1> DEFINE body == RecordHeader(buf) + 4
           end == body + U24(buf, body - 3)
           next == body + 2 + RandomLen
           fields == [hello EXCEPT !.version = U16(buf, body),
                                   !.random = Slice(buf, body + 2, next)]
<1>0. buf \in Seq(Octets) /\ Len(buf) \in Nat /\ hello \in ParsedHello /\ Unblocked(hello)
  BY DEF ReadInv, ReadSoFar, TypeInv, TypeOK, Header
<1>1. body \in Nat /\ next \in Nat /\ body + 2 \in Nat /\ body <= body + 2 /\ body + 2 <= next
      /\ body - 3 \in Nat
  BY <1>0, OctetsAreNats, RecordHeaderIsNat DEF RandomLen
<1>2. end \in Nat
  <2>1. U24(buf, body - 3) \in Nat
    BY <1>0, <1>1, OctetsAreNats, U24IsNat
  <2> QED
    BY <1>1, <2>1
<1>3. CASE BadHeader(body, end)
  BY <1>3, ReadReject DEF Header, ReadInv
<1>4. CASE ~BadHeader(body, end)
  <2>1. next <= Len(buf)
    BY <1>0, <1>1, <1>2, <1>4 DEF BadHeader, Overruns
  <2>2. Advance("session", next, fields)
    BY <1>4 DEF Header
  <2>3. fields.version = U16(buf, body) /\ fields.random = Slice(buf, body + 2, next)
        /\ fields.extensible = hello.extensible /\ fields.extensions = hello.extensions
    BY <1>0 DEF ParsedHello
  <2>4. Bytes16(U16(buf, body)) = Between(buf, body, body + 2)
    BY <1>0, <1>1, <2>1, U16Between
  <2>5. Slice(buf, body + 2, next) = Between(buf, body + 2, next)
    BY <2>1, SliceIsBetween
  <2>6. Between(buf, body, body + 2) \o Between(buf, body + 2, next) = Between(buf, body, next)
    BY <1>0, <1>1, <2>1, BetweenJoins
  <2>7. body = Start(buf)
    BY DEF Start
  <2> HIDE DEF body, next, fields
  <2>8. ThroughRandom(fields) = Between(buf, Start(buf), next) /\ Unblocked(fields)
    BY <1>0, <2>3, <2>4, <2>5, <2>6, <2>7 DEF ThroughRandom, Unblocked
  <2> QED
    BY <1>1, <2>2, <2>7, <2>8 DEF ReadSoFar, Advance
<1> QED
  BY <1>3, <1>4

LEMMA ReadSessionId == ReadInv /\ SessionId => ReadSoFar'
<1> SUFFICES ASSUME ReadInv, SessionId
             PROVE  ReadSoFar'
  OBVIOUS
<1> DEFINE end == o + 1 + Byte(buf, o)
           fields == [hello EXCEPT !.sessionId = Slice(buf, o + 1, end)]
<1>1. /\ buf \in Seq(Octets) /\ o \in Nat /\ o + 1 \in Nat /\ o + 1 <= Len(buf)
      /\ bodyEnd \in Nat /\ bodyEnd <= Len(buf)
      /\ hello \in ParsedHello /\ Unblocked(hello) /\ Start(buf) <= o
      /\ ThroughRandom(hello) = Between(buf, Start(buf), o)
  BY DEF ReadInv, ReadSoFar, TypeInv, TypeOK, SessionId
<1>2. end \in Nat /\ o + 1 <= end
  <2>1. Byte(buf, o) \in Nat
    BY <1>1, OctetsAreNats, ByteIsNat
  <2> QED
    BY <1>1, <2>1
<1>3. CASE Overruns(end, bodyEnd)
  BY <1>3, ReadReject DEF SessionId, ReadInv
<1>4. CASE ~Overruns(end, bodyEnd)
  <2>1. end <= Len(buf)
    BY <1>1, <1>2, <1>4 DEF Overruns
  <2>2. Advance("ciphers", end, fields)
    BY <1>4 DEF SessionId
  <2>3. /\ fields.version = hello.version /\ fields.random = hello.random
        /\ fields.sessionId = Slice(buf, o + 1, end)
        /\ fields.extensible = hello.extensible /\ fields.extensions = hello.extensions
    BY <1>1 DEF ParsedHello
  <2>4. Vector8(Slice(buf, o + 1, end)) = Between(buf, o, end)
    BY <1>1, <1>2, <2>1, Vector8Between
  <2>5. Start(buf) \in Nat
    BY <1>1, OctetsAreNats, RecordHeaderIsNat DEF Start
  <2>6. o <= end
    BY <1>1, <1>2
  <2> HIDE DEF end, fields
  <2>7. Between(buf, Start(buf), o) \o Between(buf, o, end) = Between(buf, Start(buf), end)
    <3>1. /\ buf \in Seq(Octets) /\ Start(buf) \in Nat /\ o \in Nat /\ end \in Nat
          /\ Start(buf) <= o /\ o <= end /\ end <= Len(buf)
      BY ONLY <1>1, <1>2, <2>1, <2>5, <2>6, Zenon
    <3> QED
      BY ONLY <3>1, BetweenJoins, Zenon
  <2>8. ThroughSession(fields) = Between(buf, Start(buf), end) /\ Unblocked(fields)
    BY <1>1, <2>3, <2>4, <2>7 DEF ThroughRandom, ThroughSession, Unblocked
  <2>9. Start(buf) <= end
    BY <1>1, <1>2, <2>5, <2>6
  <2> QED
    BY <2>2, <2>8, <2>9 DEF ReadSoFar, Advance
<1> QED
  BY <1>3, <1>4

LEMMA ReadCipherSuites == ReadInv /\ CipherSuites => ReadSoFar'
<1> SUFFICES ASSUME ReadInv, CipherSuites
             PROVE  ReadSoFar'
  OBVIOUS
<1> DEFINE len == U16(buf, o)
           end == o + 2 + len
           fields == [hello EXCEPT !.suites = U16List(buf, o + 2, len)]
<1>1. /\ buf \in Seq(Octets) /\ o \in Nat /\ o + 2 \in Nat
      /\ bodyEnd \in Nat /\ bodyEnd <= Len(buf)
      /\ hello \in ParsedHello /\ Unblocked(hello) /\ Start(buf) <= o
      /\ ThroughSession(hello) = Between(buf, Start(buf), o)
  BY DEF ReadInv, ReadSoFar, TypeInv, TypeOK, CipherSuites
<1>2. len \in Nat
  BY <1>1, OctetsAreNats, U16IsNat
<1>3. end \in Nat /\ o + 2 <= end /\ o <= end
  BY <1>1, <1>2
<1>4. CASE Overruns(o + 2, bodyEnd) \/ Overruns(end, bodyEnd) \/ len % 2 # 0
  BY <1>4, ReadReject DEF CipherSuites, ReadInv
<1>5. CASE ~(Overruns(o + 2, bodyEnd) \/ Overruns(end, bodyEnd) \/ len % 2 # 0)
  <2>1. end <= Len(buf)
    BY <1>1, <1>3, <1>5 DEF Overruns
  <2>2. Advance("compression", end, fields)
    BY <1>5 DEF CipherSuites
  <2>3. /\ fields.version = hello.version /\ fields.random = hello.random
        /\ fields.sessionId = hello.sessionId /\ fields.suites = U16List(buf, o + 2, len)
        /\ fields.extensible = hello.extensible /\ fields.extensions = hello.extensions
    BY <1>1 DEF ParsedHello
  <2>4. PICK n \in Nat : len = 2 * n
    <3>1. len % 2 = 0
      BY <1>5
    <3> HIDE DEF len
    <3>2. len \div 2 \in Nat /\ len = 2 * (len \div 2)
      BY <1>2, <3>1
    <3> QED
      BY <3>2
  <2>5. Codes(U16List(buf, o + 2, len)) = Between(buf, o + 2, end)
    <3>1. (o + 2) + (2 * n) = end
      BY <2>4
    <3> HIDE DEF len, end
    <3>2. (o + 2) + (2 * n) <= Len(buf)
      BY <2>1, <3>1
    <3>3. Codes(U16List(buf, o + 2, 2 * n)) = Between(buf, o + 2, (o + 2) + (2 * n))
      BY <1>1, <3>2, CodesBetween
    <3> QED
      BY <2>4, <3>1, <3>3
  <2>6. Vector16(Codes(U16List(buf, o + 2, len))) = Between(buf, o, end)
    BY <1>1, <1>3, <2>1, <2>5, Vector16Between
  <2>7. Start(buf) \in Nat
    BY <1>1, OctetsAreNats, RecordHeaderIsNat DEF Start
  <2> HIDE DEF len, end, fields
  <2>8. Between(buf, Start(buf), o) \o Between(buf, o, end) = Between(buf, Start(buf), end)
    <3>1. /\ buf \in Seq(Octets) /\ Start(buf) \in Nat /\ o \in Nat /\ end \in Nat
          /\ Start(buf) <= o /\ o <= end /\ end <= Len(buf)
      BY ONLY <1>1, <1>3, <2>1, <2>7, Zenon
    <3> QED
      BY ONLY <3>1, BetweenJoins, Zenon
  <2>9. ThroughSuites(fields) = Between(buf, Start(buf), end) /\ Unblocked(fields)
    BY <1>1, <2>3, <2>6, <2>8 DEF ThroughRandom, ThroughSession, ThroughSuites, Unblocked
  <2>10. Start(buf) <= end
    BY <1>1, <1>3, <2>7
  <2> QED
    BY <2>2, <2>9, <2>10 DEF ReadSoFar, Advance
<1> QED
  BY <1>4, <1>5

LEMMA ReadCompressionMethods == ReadInv /\ CompressionMethods => ReadSoFar'
<1> SUFFICES ASSUME ReadInv, CompressionMethods
             PROVE  ReadSoFar'
  OBVIOUS
<1> DEFINE end == o + 1 + Byte(buf, o)
           fields == [hello EXCEPT !.methods = Slice(buf, o + 1, end)]
<1>1. /\ buf \in Seq(Octets) /\ o \in Nat /\ o + 1 \in Nat /\ o + 1 <= Len(buf)
      /\ bodyEnd \in Nat /\ bodyEnd <= Len(buf)
      /\ hello \in ParsedHello /\ Unblocked(hello) /\ Start(buf) <= o
      /\ ThroughSuites(hello) = Between(buf, Start(buf), o)
  BY DEF ReadInv, ReadSoFar, TypeInv, TypeOK, CompressionMethods
<1>2. end \in Nat /\ o + 1 <= end
  <2>1. Byte(buf, o) \in Nat
    BY <1>1, OctetsAreNats, ByteIsNat
  <2> QED
    BY <1>1, <2>1
<1>3. CASE Overruns(end, bodyEnd)
  BY <1>3, ReadReject DEF CompressionMethods, ReadInv
<1>4. CASE ~Overruns(end, bodyEnd)
  <2>1. end <= Len(buf)
    BY <1>1, <1>2, <1>4 DEF Overruns
  <2>2. Advance("block", end, fields)
    BY <1>4 DEF CompressionMethods
  <2>3. /\ fields.version = hello.version /\ fields.random = hello.random
        /\ fields.sessionId = hello.sessionId /\ fields.suites = hello.suites
        /\ fields.methods = Slice(buf, o + 1, end)
        /\ fields.extensible = hello.extensible /\ fields.extensions = hello.extensions
    BY <1>1 DEF ParsedHello
  <2>4. Vector8(Slice(buf, o + 1, end)) = Between(buf, o, end)
    BY <1>1, <1>2, <2>1, Vector8Between
  <2>5. Start(buf) \in Nat
    BY <1>1, OctetsAreNats, RecordHeaderIsNat DEF Start
  <2>6. o <= end
    BY <1>1, <1>2
  <2> HIDE DEF end, fields
  <2>7. Between(buf, Start(buf), o) \o Between(buf, o, end) = Between(buf, Start(buf), end)
    <3>1. /\ buf \in Seq(Octets) /\ Start(buf) \in Nat /\ o \in Nat /\ end \in Nat
          /\ Start(buf) <= o /\ o <= end /\ end <= Len(buf)
      BY ONLY <1>1, <1>2, <2>1, <2>5, <2>6, Zenon
    <3> QED
      BY ONLY <3>1, BetweenJoins, Zenon
  <2>8. FixedFields(fields) = Between(buf, Start(buf), end) /\ Unblocked(fields)
    BY <1>1, <2>3, <2>4, <2>7
    DEF FixedFields, ThroughRandom, ThroughSession, ThroughSuites, Unblocked
  <2>9. Start(buf) <= end
    BY <1>1, <1>2, <2>5, <2>6
  <2> QED
    BY <2>2, <2>8, <2>9 DEF ReadSoFar, Advance
<1> QED
  BY <1>3, <1>4

LEMMA ReadNoBlock == ReadInv /\ NoBlock => ReadSoFar'
BY DEF ReadInv, ReadSoFar, NoBlock, Advance

LEMMA ReadExtensionBlock == ReadInv /\ ExtensionBlock => ReadSoFar'
<1> SUFFICES ASSUME ReadInv, ExtensionBlock
             PROVE  ReadSoFar'
  OBVIOUS
<1> DEFINE end == o + 2 + U16(buf, o)
           fields == [hello EXCEPT !.extensible = TRUE]
<1>1. /\ buf \in Seq(Octets) /\ o \in Nat /\ o + 2 \in Nat /\ o + 2 <= bodyEnd
      /\ bodyEnd \in Nat /\ bodyEnd <= Len(buf)
      /\ hello \in ParsedHello /\ Unblocked(hello) /\ Start(buf) <= o
      /\ FixedFields(hello) = Between(buf, Start(buf), o)
  BY DEF ReadInv, ReadSoFar, TypeInv, TypeOK, ExtensionBlock
<1>2. CASE Overruns(end, bodyEnd)
  BY <1>2, ReadReject DEF ExtensionBlock, ReadInv
<1>3. CASE ~Overruns(end, bodyEnd)
  <2>1. Advance("extension", o + 2, fields) /\ extEnd' = end
    BY <1>3 DEF ExtensionBlock
  <2>2. /\ fields.version = hello.version /\ fields.random = hello.random
        /\ fields.sessionId = hello.sessionId /\ fields.suites = hello.suites
        /\ fields.methods = hello.methods
        /\ fields.extensible = TRUE /\ fields.extensions = hello.extensions
    BY <1>1 DEF ParsedHello
  <2> HIDE DEF fields
  <2>3. FixedFields(fields) = Between(buf, Start(buf), o)
    BY <1>1, <2>2 DEF FixedFields
  <2>4. Extensions(fields.extensions) = <<>>
    <3>1. fields.extensions = <<>>
      BY <1>1, <2>2 DEF Unblocked
    <3>2. [k \in DOMAIN <<>> |-> Bytes16(<<>>[k].type) \o Vector16(<<>>[k].data)] = <<>>
      OBVIOUS
    <3> QED
      BY <3>1, <3>2, FlattenEmpty DEF Extensions
  <2>5. Between(buf, o + 2, o + 2) = <<>>
    BY <1>1, SubSeqEmpty DEF Between
  <2>6. BlockAt(buf, fields, end, o + 2, o)
    BY <1>1, <2>3, <2>4, <2>5 DEF BlockAt
  <2>7. BlockRead(buf, fields, end, o + 2)
    BY <1>1, <2>2, <2>6 DEF BlockRead
  <2> HIDE DEF end
  <2> QED
    BY <2>1, <2>7 DEF ReadSoFar, Advance
<1> QED
  BY <1>2, <1>3

LEMMA ReadNextExtension == ReadInv /\ NextExtension => ReadSoFar'
<1> SUFFICES ASSUME ReadInv, NextExtension
             PROVE  ReadSoFar'
  OBVIOUS
<1> DEFINE len == U16(buf, o + 2)
           end == o + 4 + len
           fields == [hello EXCEPT !.extensions = Append(@, Extension(end))]
<1>1. /\ buf \in Seq(Octets) /\ o \in Nat /\ o + 2 \in Nat /\ o + 4 \in Nat
      /\ extEnd \in Nat /\ extEnd <= Len(buf) /\ o + 4 <= extEnd
      /\ hello \in ParsedHello /\ hello.extensible
  <2>1. at = "extension" /\ o + 4 <= extEnd
    BY DEF NextExtension, MoreExtensions
  <2> QED
    BY <2>1 DEF ReadInv, ReadSoFar, TypeInv, TypeOK, BlockRead
<1>2. PICK q \in Nat : BlockAt(buf, hello, extEnd, o, q)
  BY DEF ReadInv, ReadSoFar, BlockRead, NextExtension, MoreExtensions
<1>3. len \in Nat /\ U16(buf, o) \in Nat
  BY <1>1, OctetsAreNats, U16IsNat
<1>4. end \in Nat /\ o + 4 <= end /\ o <= end /\ o + 2 <= end
  BY <1>1, <1>3
<1>5. CASE Overruns(end, extEnd)
  BY <1>5, ReadReject DEF NextExtension, ReadInv
<1>6. CASE ~Overruns(end, extEnd)
  <2>1. end <= Len(buf)
    BY <1>1, <1>4, <1>6 DEF Overruns
  <2>2. Advance("extension", end, fields) /\ extEnd' = extEnd
    BY <1>6 DEF NextExtension
  <2>3. Slice(buf, o + 4, end) = Between(buf, o + 4, end)
    BY <2>1, SliceIsBetween
  <2>4. Extension(end) = [type |-> U16(buf, o), data |-> Between(buf, o + 4, end)]
    BY <2>3 DEF Extension
  <2>5. /\ fields.version = hello.version /\ fields.random = hello.random
        /\ fields.sessionId = hello.sessionId /\ fields.suites = hello.suites
        /\ fields.methods = hello.methods /\ fields.extensible = hello.extensible
        /\ fields.extensions = Append(hello.extensions, Extension(end))
    BY <1>1 DEF ParsedHello
  <2>6. Vector16(Between(buf, o + 4, end)) = Between(buf, o + 2, end)
    <3>1. end = (o + 2) + 2 + len /\ (o + 2) + 2 = o + 4 /\ (o + 2) + 2 <= end
      BY <1>1, <1>3
    <3> HIDE DEF end
    <3> QED
      BY <1>1, <1>4, <2>1, <3>1, Vector16Between
  <2>7. Bytes16(U16(buf, o)) = Between(buf, o, o + 2)
    BY <1>1, <1>4, <2>1, U16Between
  <2>8. Between(buf, o, o + 2) \o Between(buf, o + 2, end) = Between(buf, o, end)
    <3> HIDE DEF end, len
    <3>1. o <= o + 2
      BY <1>1
    <3>2. /\ buf \in Seq(Octets) /\ o \in Nat /\ o + 2 \in Nat /\ end \in Nat
          /\ o <= o + 2 /\ o + 2 <= end /\ end <= Len(buf)
      BY ONLY <1>1, <1>4, <2>1, <3>1, Zenon
    <3> QED
      BY ONLY <3>2, BetweenJoins, Zenon
  <2>9. Extension(end) \in [type : Nat, data : Seq(Nat)]
    <3>1. Slice(buf, o + 4, end) \in Seq(Nat)
      BY <1>1, <1>4, OctetsAreNats, SliceIsSeq
    <3> HIDE DEF end
    <3> QED
      BY <1>3, <3>1 DEF Extension
  <2> HIDE DEF end, fields, len
  <2>10. Extensions(fields.extensions) = Extensions(hello.extensions) \o Between(buf, o, end)
    <3>1. hello.extensions \in Seq([type : Nat, data : Seq(Nat)])
      BY <1>1 DEF ParsedHello
    <3>2. PICK e \in [type : Nat, data : Seq(Nat)] : e = Extension(end)
      BY <2>9
    <3>3. Extensions(Append(hello.extensions, e))
            = Extensions(hello.extensions) \o (Bytes16(e.type) \o Vector16(e.data))
      BY <3>1, ExtensionsAppend
    <3>4. e.type = U16(buf, o) /\ e.data = Between(buf, o + 4, end)
      BY <2>4, <3>2
    <3> QED
      BY <2>5, <2>6, <2>7, <2>8, <3>2, <3>3, <3>4
  <2>11. /\ Start(buf) <= q /\ q + 2 <= o /\ extEnd = q + 2 + U16(buf, q)
         /\ FixedFields(hello) = Between(buf, Start(buf), q)
         /\ Extensions(hello.extensions) = Between(buf, q + 2, o)
    BY <1>2 DEF BlockAt
  <2>12. FixedFields(fields) = Between(buf, Start(buf), q)
    BY <2>5, <2>11 DEF FixedFields
  <2>13. Between(buf, q + 2, o) \o Between(buf, o, end) = Between(buf, q + 2, end)
    <3>1. q + 2 \in Nat
      OBVIOUS
    <3>2. /\ buf \in Seq(Octets) /\ q + 2 \in Nat /\ o \in Nat /\ end \in Nat
          /\ q + 2 <= o /\ o <= end /\ end <= Len(buf)
      BY ONLY <1>1, <1>4, <2>1, <2>11, <3>1, Zenon
    <3> QED
      BY ONLY <3>2, BetweenJoins, Zenon
  <2>14. q + 2 <= end
    BY <1>1, <1>4, <2>11
  <2>15. BlockAt(buf, fields, extEnd, end, q)
    BY <2>10, <2>11, <2>12, <2>13, <2>14 DEF BlockAt
  <2>16. BlockRead(buf, fields, extEnd, end)
    BY <1>1, <2>5, <2>15 DEF BlockRead
  <2> QED
    BY <2>2, <2>16 DEF ReadSoFar, Advance
<1> QED
  BY <1>5, <1>6

LEMMA ReadEndOfBlock == ReadInv /\ EndOfBlock => ReadSoFar'
<1> SUFFICES ASSUME ReadInv, EndOfBlock
             PROVE  ReadSoFar'
  OBVIOUS
<1>1. at = "extension" /\ o + 4 > extEnd /\ Advance("accepted", extEnd, hello) /\ extEnd' = extEnd
  BY DEF EndOfBlock
<1>2. o \in Nat /\ o <= extEnd /\ extEnd \in Nat /\ BlockRead(buf, hello, extEnd, o)
  BY <1>1 DEF ReadInv, ReadSoFar, TypeInv, TypeOK
<1>3. o <= extEnd /\ extEnd < o + 4
  BY <1>1, <1>2
<1> QED
  BY <1>1, <1>2, <1>3 DEF ReadSoFar, Advance

LEMMA ReadPastEnd == ReadInv /\ ReadsPastEnd => ReadSoFar'
BY DEF ReadInv, ReadSoFar, ReadsPastEnd

-----------------------------------------------------------------------------
(***************************************************************************)
(* A part that begins where another does is a prefix of it.                *)
(***************************************************************************)
LEMMA BetweenPrefix ==
    ASSUME NEW S, NEW b \in Seq(S), NEW i \in Nat, NEW j \in Nat, NEW k \in Nat,
           i <= j, j <= k, k <= Len(b)
    PROVE  IsPrefix(Between(b, i, j), Between(b, i, k))
<1>1. IsPart(Between(b, i, j), S, b, i, j) /\ IsPart(Between(b, i, k), S, b, i, k)
  <2>1. i <= k /\ j <= Len(b)
    OBVIOUS
  <2> QED
    BY <2>1, BetweenBytes, Zenon
<1>2. /\ Between(b, i, j) \in Seq(S) /\ Len(Between(b, i, j)) = j - i
      /\ Len(Between(b, i, k)) = k - i
  BY <1>1 DEF IsPart
<1>3. SubSeq(Between(b, i, j), 1, j - i) = Between(b, i, j)
  BY <1>2, SubSeqFull
<1>4. SubSeq(Between(b, i, k), 1, j - i) = Between(b, i, j)
  <2>1. PICK n \in Nat : n = j - i
    OBVIOUS
  <2>2. i <= k /\ 0 <= n /\ i + n <= k /\ i + 0 = i /\ i + n = j
    BY <2>1
  <2>3. Between(Between(b, i, k), 0, n) = Between(b, i + 0, i + n)
    BY <2>2, BetweenBetween
  <2>4. Between(Between(b, i, k), 0, n) = SubSeq(Between(b, i, k), 1, n)
    BY DEF Between
  <2> QED
    BY <2>1, <2>2, <2>3, <2>4
<1> QED
  BY <1>2, <1>3, <1>4 DEF IsPrefix

LEMMA ReadStep == ReadInv /\ [Next]_parserVars => ReadInv'
<1> SUFFICES ASSUME ReadInv, [Next]_parserVars PROVE ReadInv'
  OBVIOUS
<1>1. TypeInv' /\ buf' = buf
  <2>1. CASE Next
    <3>1. TypeInv'
      BY <2>1, TypeStep DEF ReadInv
    <3>2. buf' = buf
      <4>1. (Header \/ SessionId \/ CipherSuites \/ CompressionMethods) => buf' = buf
        BY DEF Header, SessionId, CipherSuites, CompressionMethods, Reject, Advance
      <4>2. (NoBlock \/ ExtensionBlock \/ NextExtension \/ EndOfBlock \/ ReadsPastEnd)
              => buf' = buf
        BY DEF NoBlock, ExtensionBlock, NextExtension, EndOfBlock, ReadsPastEnd, Reject, Advance
      <4> QED
        BY <2>1, <4>1, <4>2 DEF Next
    <3> QED
      BY <3>1, <3>2
  <2>2. CASE UNCHANGED parserVars
    BY <2>2, TypeStep DEF ReadInv, parserVars
  <2> QED
    BY <2>1, <2>2
<1>2. ReadSoFar'
  <2>1. CASE Next
    BY <2>1, ReadHeader, ReadSessionId, ReadCipherSuites, ReadCompressionMethods,
       ReadNoBlock, ReadExtensionBlock, ReadNextExtension, ReadEndOfBlock, ReadPastEnd
    DEF Next
  <2>2. CASE UNCHANGED parserVars
    BY <2>2 DEF parserVars, ReadInv, ReadSoFar
  <2> QED
    BY <2>1, <2>2
<1> QED
  BY <1>1, <1>2 DEF ReadInv

LEMMA ReadAndReturned ==
  ASSUME ReadInv
  PROVE  NothingMisread
<1> SUFFICES ASSUME at = "accepted", ~lost
             PROVE  LET body == Slice(buf, RecordHeader(buf) + 4, bodyEnd)
                        block == Slice(body, Len(FixedFields(hello)), Len(body))
                        shown == Extensions(hello.extensions)
                    IN  /\ IsPrefix(FixedFields(hello), body)
                        /\ ~hello.extensible => Len(block) < 2
                        /\ hello.extensible =>
                              /\ IsPrefix(shown, Slice(block, 2, Len(block)))
                              /\ U16(block, 0) - Len(shown) \in 0 .. 3
  BY DEF NothingMisread
<1> DEFINE body == Slice(buf, RecordHeader(buf) + 4, bodyEnd)
           block == Slice(body, Len(FixedFields(hello)), Len(body))
           shown == Extensions(hello.extensions)
           s == Start(buf)
<1>1. /\ buf \in Seq(Octets) /\ Len(buf) \in Nat /\ s \in Nat
      /\ bodyEnd \in Nat /\ bodyEnd <= Len(buf)
      /\ extEnd \in Nat /\ extEnd <= bodyEnd /\ o \in Nat /\ o <= bodyEnd
  BY OctetsAreNats, RecordHeaderIsNat DEF ReadInv, TypeInv, TypeOK, Start
<1>2. ASSUME NEW q \in Nat, s <= q, q <= bodyEnd, FixedFields(hello) = Between(buf, s, q)
      PROVE  /\ IsPrefix(FixedFields(hello), body)
             /\ block = Between(buf, q, bodyEnd) /\ IsPart(block, Octets, buf, q, bodyEnd)
  <2>1. s <= bodyEnd /\ q <= Len(buf)
    BY <1>1, <1>2
  <2>2. body = Between(buf, s, bodyEnd)
    BY <1>1, SliceIsBetween DEF Start
  <2>3. IsPart(Between(buf, s, bodyEnd), Octets, buf, s, bodyEnd)
    BY <1>1, <2>1, BetweenBytes, Zenon
  <2>4. Len(body) = bodyEnd - s
    BY <2>2, <2>3 DEF IsPart
  <2>5. IsPart(Between(buf, s, q), Octets, buf, s, q)
    BY <1>1, <1>2, <2>1, BetweenBytes, Zenon
  <2>6. Len(FixedFields(hello)) = q - s
    BY <1>2, <2>5 DEF IsPart
  <2> HIDE DEF body, s
  <2>7. IsPrefix(FixedFields(hello), body)
    BY <1>1, <1>2, <2>2, BetweenPrefix
  <2>8. block = Between(body, q - s, bodyEnd - s)
    BY <2>4, <2>6, SliceIsBetween
  <2>9. Between(body, q - s, bodyEnd - s) = Between(buf, q, bodyEnd)
    <3>1. PICK x \in Nat, y \in Nat : x = q - s /\ y = bodyEnd - s
      BY <1>1, <1>2, <2>1
    <3>2. x <= y /\ s + y <= bodyEnd /\ s + x = q /\ s + y = bodyEnd
      BY <1>1, <1>2, <3>1
    <3>3. Between(Between(buf, s, bodyEnd), x, y) = Between(buf, s + x, s + y)
      BY <1>1, <2>1, <3>2, BetweenBetween
    <3> QED
      BY <2>2, <3>1, <3>2, <3>3
  <2>10. IsPart(Between(buf, q, bodyEnd), Octets, buf, q, bodyEnd)
    BY <1>1, <1>2, BetweenBytes, Zenon
  <2> QED
    BY <2>7, <2>8, <2>9, <2>10
<1>3. CASE Unblocked(hello) /\ s <= o /\ o + 2 > bodyEnd /\ FixedFields(hello) = Between(buf, s, o)
  <2>1. IsPrefix(FixedFields(hello), body) /\ IsPart(block, Octets, buf, o, bodyEnd)
    BY <1>1, <1>2, <1>3
  <2> HIDE DEF body, block, shown
  <2>2. Len(block) < 2 /\ ~hello.extensible
    BY <1>1, <1>3, <2>1 DEF IsPart, Unblocked
  <2> QED
    BY <2>1, <2>2 DEF body, block, shown
<1>4. CASE \E p \in Nat : p <= extEnd /\ extEnd < p + 4 /\ BlockRead(buf, hello, extEnd, p)
  <2>1. PICK p \in Nat : p <= extEnd /\ extEnd < p + 4 /\ BlockRead(buf, hello, extEnd, p)
    BY <1>4
  <2>2. PICK q \in Nat : BlockAt(buf, hello, extEnd, p, q)
    BY <2>1 DEF BlockRead
  <2>3. /\ s <= q /\ q + 2 <= p /\ extEnd = q + 2 + U16(buf, q)
        /\ FixedFields(hello) = Between(buf, s, q) /\ shown = Between(buf, q + 2, p)
        /\ hello.extensible
    BY <2>1, <2>2 DEF BlockAt, BlockRead
  <2>4. q + 2 <= bodyEnd /\ q <= bodyEnd /\ p <= bodyEnd /\ q + 2 \in Nat
    BY <1>1, <2>1, <2>3
  <2>5. /\ IsPrefix(FixedFields(hello), body) /\ block = Between(buf, q, bodyEnd)
        /\ IsPart(block, Octets, buf, q, bodyEnd)
    BY <1>1, <1>2, <2>3, <2>4
  <2>6. Len(shown) = p - (q + 2)
    <3>1. IsPart(Between(buf, q + 2, p), Octets, buf, q + 2, p)
      <4>1. p <= Len(buf)
        BY <1>1, <2>4
      <4> QED
        BY <1>1, <2>3, <2>4, <4>1, BetweenBytes, Zenon
    <3> QED
      BY <2>3, <3>1 DEF IsPart
  <2> HIDE DEF body, block, shown, s
  <2>7. Len(block) = bodyEnd - q /\ \A k \in 1 .. bodyEnd - q : block[k] = buf[q + k]
    BY <2>5 DEF IsPart
  <2>8. U16(block, 0) = U16(buf, q)
    <3>1. Byte(block, 0) = block[1] /\ Byte(block, 1) = block[2]
      BY <1>1, <2>4, <2>7 DEF Byte
    <3>2. block[1] = buf[q + 1] /\ block[2] = buf[q + 2]
      BY <1>1, <2>4, <2>7
    <3>3. Byte(buf, q) = buf[q + 1] /\ Byte(buf, q + 1) = buf[q + 2]
      BY <1>1, <2>4 DEF Byte
    <3> QED
      BY <3>1, <3>2, <3>3 DEF U16
  <2>9. U16(block, 0) - Len(shown) \in 0 .. 3
    <3>1. PICK len \in Nat : len = U16(buf, q)
      BY <1>1, OctetsAreNats, U16IsNat
    <3>2. extEnd = q + 2 + len
      BY <2>3, <3>1
    <3>3. len - (p - (q + 2)) \in 0 .. 3
      BY ONLY <1>1, <2>1, <3>2, p \in Nat, q \in Nat, len \in Nat
    <3> QED
      BY ONLY <2>6, <2>8, <3>1, <3>3, Zenon
  <2>10. Slice(block, 2, Len(block)) = Between(buf, q + 2, bodyEnd)
    <3>1. Slice(block, 2, Len(block)) = Between(block, 2, bodyEnd - q)
      BY <1>1, <2>7, SliceIsBetween
    <3>2. PICK n \in Nat : n = bodyEnd - q
      BY <1>1, <2>4
    <3>3. 2 <= n /\ q + n <= bodyEnd /\ q + n = bodyEnd
      BY <1>1, <2>4, <3>2
    <3>4. Between(Between(buf, q, bodyEnd), 2, n) = Between(buf, q + 2, q + n)
      BY <1>1, <2>4, <3>3, BetweenBetween
    <3> QED
      BY <2>5, <3>1, <3>2, <3>3, <3>4
  <2>11. IsPrefix(shown, Slice(block, 2, Len(block)))
    BY <1>1, <2>3, <2>4, <2>10, BetweenPrefix
  <2> QED
    BY <2>3, <2>5, <2>9, <2>11 DEF body, block, shown
<1> QED
  BY <1>3, <1>4 DEF ReadInv, ReadSoFar

(***************************************************************************)
(* parseClientHello() misreads nothing, whatever buffer of bytes it is     *)
(* given: what it returns is the body as far as it was read, and at most   *)
(* three bytes of the extension block are not in it.                       *)
(***************************************************************************)
THEOREM NothingIsMisread == Spec => []NothingMisread
<1>1. Spec => []ReadInv
  BY ReadInit, ReadStep, PTL DEF Spec
<1>2. ReadInv => NothingMisread
  BY ReadAndReturned
<1> QED
  BY <1>1, <1>2, PTL

-----------------------------------------------------------------------------
LEMMA RunVector8 ==
    ASSUME NEW s, NEW n \in Nat, Run(s, n)
    PROVE  Run(Vector8(s), 1 + n)
<1>1. Run(<<Len(s)>>, 1)
  BY DEF Run
<1> QED
  BY <1>1, RunConcat DEF Vector8

LEMMA RunVector16 ==
    ASSUME NEW s, NEW n \in Nat, Run(s, n)
    PROVE  Run(Vector16(s), 2 + n)
<1>1. Run(Bytes16(Len(s)), 2)
  BY RunBytes16 DEF Run
<1> QED
  BY <1>1, RunConcat DEF Vector16

LEMMA RunCodes ==
    ASSUME NEW s \in Seq(Nat)
    PROVE  Run(Codes(s), 2 * Len(s))
<1> DEFINE A == {n \in Nat : n <= Len(s) => Run(Codes(SubSeq(s, 1, n)), 2 * n)}
<1>1. 0 \in A
  <2>1. SubSeq(s, 1, 0) = <<>>
    BY SubSeqEmpty
  <2>2. Codes(<<>>) = <<>>
    <3>1. [k \in DOMAIN <<>> |-> Bytes16(<<>>[k])] = <<>>
      OBVIOUS
    <3> QED
      BY <3>1, FlattenEmpty DEF Codes
  <2>3. Run(<<>>, 2 * 0)
    BY DEF Run
  <2> QED
    BY <2>1, <2>2, <2>3
<1>2. ASSUME NEW n \in Nat, n \in A PROVE n + 1 \in A
  <2> SUFFICES ASSUME n + 1 <= Len(s)
               PROVE  Run(Codes(SubSeq(s, 1, n + 1)), 2 * (n + 1))
    OBVIOUS
  <2>1. SubSeq(s, 1, n) \in Seq(Nat) /\ s[n + 1] \in Nat
    OBVIOUS
  <2>2. SubSeq(s, 1, n + 1) = Append(SubSeq(s, 1, n), s[n + 1])
    <3>1. SubSeq(s, 1, n + 1) = SubSeq(s, 1, (n + 1) - 1) \o <<s[n + 1]>>
      BY SubSeqRecursiveSecond
    <3> QED
      BY <2>1, <3>1, AppendIsConcat
  <2>3. Codes(SubSeq(s, 1, n + 1)) = Codes(SubSeq(s, 1, n)) \o Bytes16(s[n + 1])
    BY <2>1, <2>2, CodesAppend
  <2>4. Run(Codes(SubSeq(s, 1, n)), 2 * n) /\ 2 * n \in Nat
    BY <1>2
  <2>5. Run(Codes(SubSeq(s, 1, n)) \o Bytes16(s[n + 1]), (2 * n) + 2)
    BY <2>1, <2>4, RunBytes16, RunConcat
  <2>6. (2 * n) + 2 = 2 * (n + 1)
    OBVIOUS
  <2> QED
    BY <2>3, <2>5, <2>6
<1>3. Len(s) \in A
  <2>1. Len(s) \in Nat
    OBVIOUS
  <2> HIDE DEF A
  <2> QED
    BY <1>1, <1>2, <2>1, SetInduction
<1>4. SubSeq(s, 1, Len(s)) = s
  BY SubSeqFull
<1>5. Len(s) <= Len(s)
  OBVIOUS
<1>6. Run(Codes(SubSeq(s, 1, Len(s))), 2 * Len(s))
  BY <1>3, <1>5, Zenon
<1> QED
  BY <1>4, <1>6

(***************************************************************************)
(* What is read where a code, a vector or a handshake message lies.        *)
(***************************************************************************)
Vector8Lies(b, i, j, x, n) ==
    /\ j = i + 1 + n
    /\ Byte(b, i) = n
    /\ Between(b, i + 1, j) = x

LEMMA Vector8At ==
    ASSUME NEW b \in Seq(Int), NEW i \in Nat, NEW j \in Nat, i <= j, j <= Len(b),
           NEW x, NEW n \in Nat, Run(x, n), Between(b, i, j) = Vector8(x)
    PROVE  Vector8Lies(b, i, j, x, n)
<1>1. Run(<<n>>, 1) /\ Between(b, i, j) = <<n>> \o x
  BY DEF Run, Vector8
<1>2. j = i + 1 + n /\ Between(b, i, i + 1) = <<n>> /\ Between(b, i + 1, j) = x
  <2>1. LieAt(b, i, j, <<n>>, 1, x, n)
    <3>1. 1 \in Nat
      OBVIOUS
    <3> QED
      BY <1>1, <3>1, RunSplits, Zenon
  <2> QED
    BY <2>1 DEF LieAt
<1>3. i + 1 <= Len(b)
  BY <1>2
<1> QED
  BY <1>2, <1>3, ByteAt DEF Vector8Lies

Vector16Lies(b, i, j, x, n) ==
    /\ j = i + 2 + n
    /\ U16(b, i) = n
    /\ Between(b, i + 2, j) = x

LEMMA Vector16At ==
    ASSUME NEW b \in Seq(Int), NEW i \in Nat, NEW j \in Nat, i <= j, j <= Len(b),
           NEW x, NEW n \in Nat, Run(x, n), Between(b, i, j) = Vector16(x)
    PROVE  Vector16Lies(b, i, j, x, n)
<1>1. Run(Bytes16(n), 2) /\ Between(b, i, j) = Bytes16(n) \o x
  BY RunBytes16 DEF Run, Vector16
<1>2. j = i + 2 + n /\ Between(b, i, i + 2) = Bytes16(n) /\ Between(b, i + 2, j) = x
  <2>1. LieAt(b, i, j, Bytes16(n), 2, x, n)
    <3>1. 2 \in Nat
      OBVIOUS
    <3> QED
      BY <1>1, <3>1, RunSplits, Zenon
  <2> QED
    BY <2>1 DEF LieAt
<1>3. i + 2 <= Len(b)
  BY <1>2
<1> QED
  BY <1>2, <1>3, U16At DEF Vector16Lies

HandshakeAt(b, i, body, n) ==
    /\ Byte(b, i) = 1 /\ U24(b, i + 1) = n
    /\ Between(b, i + 4, i + 4 + n) = body

LEMMA HandshakeIsAt ==
    ASSUME NEW b \in Seq(Int), NEW i \in Nat, NEW j \in Nat, i <= j, j <= Len(b),
           NEW x, NEW n \in Nat, Run(x, n), Between(b, i, j) = Handshake(x)
    PROVE  j = i + 4 + n /\ HandshakeAt(b, i, x, n)
<1>1. Run(<<1>>, 1) /\ Run(<<0>>, 1) /\ Run(Vector16(x), 2 + n)
  BY RunVector16 DEF Run
<1>2. Run(<<1>> \o <<0>>, 2)
  BY DEF Run
<1>3. Between(b, i, j) = (<<1>> \o <<0>>) \o Vector16(x)
  BY DEF Handshake
<1>4. 2 + n \in Nat
  OBVIOUS
<1>5. /\ j = i + 2 + (2 + n)
      /\ Between(b, i, i + 2) = <<1>> \o <<0>> /\ Between(b, i + 2, j) = Vector16(x)
  <2>1. LieAt(b, i, j, <<1>> \o <<0>>, 2, Vector16(x), 2 + n)
    <3>1. 2 \in Nat
      OBVIOUS
    <3> QED
      BY <1>1, <1>2, <1>3, <1>4, <3>1, RunSplits, Zenon
  <2> QED
    BY <2>1 DEF LieAt
<1>6. Byte(b, i) = 1 /\ Byte(b, i + 1) = 0
  <2>1. i + 2 \in Nat /\ i <= i + 2 /\ i + 2 <= Len(b)
    BY <1>5
  <2>2. Between(b, i, i + 1) = <<1>> /\ Between(b, i + 1, i + 2) = <<0>>
    <3>1. LieAt(b, i, i + 2, <<1>>, 1, <<0>>, 1)
      <4>1. 1 \in Nat
        OBVIOUS
      <4> QED
        BY <1>1, <1>5, <2>1, <4>1, RunSplits, Zenon
    <3> QED
      BY <3>1 DEF LieAt
  <2>3. Byte(b, i) = 1
    BY <2>1, <2>2, ByteAt
  <2>4. i + 1 \in Nat /\ (i + 1) + 1 = i + 2
    OBVIOUS
  <2>5. Byte(b, i + 1) = 0
    BY <2>1, <2>2, <2>4, ByteAt
  <2> QED
    BY <2>3, <2>5
<1>7. U16(b, i + 2) = n /\ Between(b, i + 4, j) = x
  <2>1. i + 2 \in Nat /\ i + 2 <= j /\ (i + 2) + 2 = i + 4
    BY <1>5
  <2>2. Vector16Lies(b, i + 2, j, x, n)
    BY <1>5, <2>1, Vector16At, Zenon
  <2> QED
    BY <2>1, <2>2 DEF Vector16Lies
<1>8. j = i + 4 + n
  BY <1>5
<1>9. U24(b, i + 1) = n
  <2>1. (i + 1) + 1 = i + 2
    OBVIOUS
  <2> QED
    BY <1>6, <1>7, <2>1 DEF U24
<1> QED
  BY <1>6, <1>7, <1>8, <1>9 DEF HandshakeAt

(***************************************************************************)
(* Where the fields of a hello begin in its body, and how long it is.      *)
(***************************************************************************)
SuitesAt(h) == 35 + Len(h.sessionId)

MethodsAt(h) == SuitesAt(h) + (2 + (2 * Len(h.suites)))

BlockStart(h) == MethodsAt(h) + (1 + Len(h.methods))

LaidOut(h) ==
    /\ Run(ThroughRandom(h), 34)
    /\ Run(Vector8(h.sessionId), 1 + Len(h.sessionId))
    /\ Run(ThroughSession(h), SuitesAt(h))
    /\ Run(Vector16(Codes(h.suites)), 2 + (2 * Len(h.suites)))
    /\ Run(ThroughSuites(h), MethodsAt(h))
    /\ Run(Vector8(h.methods), 1 + Len(h.methods))
    /\ Run(FixedFields(h), BlockStart(h))
    /\ Run(Extensions(h.extensions), Len(Extensions(h.extensions)))
    /\ Run(Body(h), Len(Body(h)))
    /\ Len(h.sessionId) \in Nat /\ Len(h.suites) \in Nat /\ Len(h.methods) \in Nat
    /\ Len(Extensions(h.extensions)) \in Nat /\ Len(Body(h)) \in Nat

LEMMA ExtensionsRun ==
    ASSUME NEW es \in Seq([type : Nat, data : Seq(Nat)])
    PROVE  Extensions(es) \in Seq(Int)
<1> DEFINE piece(x) == Bytes16(x.type) \o Vector16(x.data)
<1>1. \A x \in [type : Nat, data : Seq(Nat)] : piece(x) \in Seq(Int)
  <2> SUFFICES ASSUME NEW x \in [type : Nat, data : Seq(Nat)] PROVE piece(x) \in Seq(Int)
    OBVIOUS
  <2>1. \A y \in Nat : Bytes16(y) \in Seq(Int)
    BY DEF Bytes16
  <2>2. x.type \in Nat /\ x.data \in Seq(Int) /\ Len(x.data) \in Nat
    OBVIOUS
  <2>3. Vector16(x.data) \in Seq(Int)
    BY <2>1, <2>2, ConcatProperties DEF Vector16
  <2> QED
    BY <2>1, <2>2, <2>3, ConcatProperties
<1> HIDE DEF piece
<1>2. DOMAIN es = 1 .. Len(es) /\ Len(es) \in Nat
  BY LenProperties
<1>3. \A k \in 1 .. Len(es) : piece(es[k]) \in Seq(Int)
  <2>1. \A k \in 1 .. Len(es) : es[k] \in [type : Nat, data : Seq(Nat)]
    BY ElementOfSeq
  <2> QED
    BY <1>1, <2>1
<1>4. [k \in DOMAIN es |-> piece(es[k])] \in Seq(Seq(Int))
  BY <1>2, <1>3
<1>5. FlattenSeq([k \in DOMAIN es |-> piece(es[k])]) \in Seq(Int)
  BY <1>4, FlattenIsSeq
<1> QED
  BY <1>5 DEF Extensions, piece

LEMMA SendableTypes ==
    ASSUME NEW h, Sendable(h)
    PROVE  /\ h.version \in Nat
           /\ Run(h.random, 32) /\ Run(h.sessionId, Len(h.sessionId))
           /\ h.suites \in Seq(Nat) /\ Run(h.methods, Len(h.methods))
           /\ Len(h.sessionId) \in Nat /\ Len(h.suites) \in Nat /\ Len(h.methods) \in Nat
           /\ h.extensions \in Seq([type : Nat, data : Seq(Nat)])
<1>1. Octets \subseteq Int /\ Octets \subseteq Nat
  BY DEF Octets
<1>2. h.random \in Seq(Int) /\ h.sessionId \in Seq(Int) /\ h.methods \in Seq(Int)
  <2>1. \A s \in Seq(Octets) : s \in Seq(Int)
    BY <1>1, SeqMonotonic
  <2> QED
    BY <2>1 DEF Sendable
<1>3. h.extensions \in Seq([type : Nat, data : Seq(Nat)])
  <2>1. Seq(Octets) \subseteq Seq(Nat)
    BY OctetsAreNats
  <2>2. [type : Nat, data : Seq(Octets)] \subseteq [type : Nat, data : Seq(Nat)]
    BY <2>1, Zenon
  <2>3. \A es \in Seq([type : Nat, data : Seq(Octets)]) :
          es \in Seq([type : Nat, data : Seq(Nat)])
    BY <2>2, SeqMonotonic, Zenon
  <2>4. h.extensions \in Seq([type : Nat, data : Seq(Octets)])
    BY DEF Sendable
  <2> QED
    BY <2>3, <2>4, Zenon
<1>4. h.version \in Nat /\ h.suites \in Seq(Nat) /\ Len(h.random) = 32
  BY DEF Sendable, RandomLen
<1> QED
  BY <1>2, <1>3, <1>4 DEF Run

LEMMA HelloLaidOut ==
    ASSUME NEW h, Sendable(h)
    PROVE  LaidOut(h)
<1>1. /\ h.version \in Nat
      /\ Run(h.random, 32) /\ Run(h.sessionId, Len(h.sessionId))
      /\ h.suites \in Seq(Nat) /\ Run(h.methods, Len(h.methods))
      /\ Len(h.sessionId) \in Nat /\ Len(h.suites) \in Nat /\ Len(h.methods) \in Nat
      /\ h.extensions \in Seq([type : Nat, data : Seq(Nat)])
  BY SendableTypes
<1>2. Run(ThroughRandom(h), 34)
  <2>1. Run(Bytes16(h.version) \o h.random, 2 + 32)
    BY <1>1, RunBytes16, RunConcat
  <2> QED
    BY <2>1 DEF ThroughRandom
<1>3. Run(Vector8(h.sessionId), 1 + Len(h.sessionId))
  BY <1>1, RunVector8
<1>4. Run(ThroughSession(h), SuitesAt(h)) /\ SuitesAt(h) \in Nat
  <2>1. 1 + Len(h.sessionId) \in Nat /\ 34 + (1 + Len(h.sessionId)) = SuitesAt(h)
    BY <1>1 DEF SuitesAt
  <2>2. Run(ThroughRandom(h) \o Vector8(h.sessionId), 34 + (1 + Len(h.sessionId)))
    BY <1>2, <1>3, <2>1, RunConcat
  <2> QED
    BY <2>1, <2>2 DEF ThroughSession
<1>5. Run(Vector16(Codes(h.suites)), 2 + (2 * Len(h.suites)))
  <2>1. 2 * Len(h.suites) \in Nat
    BY <1>1
  <2> QED
    BY <1>1, <2>1, RunCodes, RunVector16
<1>6. Run(ThroughSuites(h), MethodsAt(h)) /\ MethodsAt(h) \in Nat
  <2>1. 2 + (2 * Len(h.suites)) \in Nat /\ MethodsAt(h) \in Nat
    BY <1>1, <1>4 DEF MethodsAt
  <2>2. Run(ThroughSession(h) \o Vector16(Codes(h.suites)), MethodsAt(h))
    BY <1>4, <1>5, <2>1, RunConcat DEF MethodsAt
  <2> QED
    BY <2>1, <2>2 DEF ThroughSuites
<1>7. Run(Vector8(h.methods), 1 + Len(h.methods))
  BY <1>1, RunVector8
<1>8. Run(FixedFields(h), BlockStart(h)) /\ BlockStart(h) \in Nat
  <2>1. 1 + Len(h.methods) \in Nat /\ BlockStart(h) \in Nat
    BY <1>1, <1>6 DEF BlockStart
  <2>2. Run(ThroughSuites(h) \o Vector8(h.methods), BlockStart(h))
    BY <1>6, <1>7, <2>1, RunConcat DEF BlockStart
  <2> QED
    BY <2>1, <2>2 DEF FixedFields, ThroughSuites, ThroughSession, ThroughRandom
<1>9. Run(Extensions(h.extensions), Len(Extensions(h.extensions)))
      /\ Len(Extensions(h.extensions)) \in Nat
  <2>1. Extensions(h.extensions) \in Seq(Int)
    BY <1>1, ExtensionsRun
  <2> QED
    BY <2>1 DEF Run
<1>10. Run(Body(h), Len(Body(h))) /\ Len(Body(h)) \in Nat
  <2>1. Body(h) \in Seq(Int)
    <3>1. CASE h.extensible
      <4>1. Run(Vector16(Extensions(h.extensions)), 2 + Len(Extensions(h.extensions)))
        BY <1>9, RunVector16
      <4>2. Body(h) = FixedFields(h) \o Vector16(Extensions(h.extensions))
        BY <3>1 DEF Body
      <4> QED
        BY <1>8, <4>1, <4>2, ConcatProperties DEF Run
    <3>2. CASE ~h.extensible
      <4>1. Body(h) = FixedFields(h) \o <<>>
        BY <3>2 DEF Body
      <4> QED
        BY <1>8, <4>1, ConcatEmptySeq DEF Run
    <3> QED
      BY <3>1, <3>2
  <2> QED
    BY <2>1 DEF Run
<1> QED
  BY <1>1, <1>2, <1>3, <1>4, <1>5, <1>6, <1>7, <1>8, <1>9, <1>10 DEF LaidOut

-----------------------------------------------------------------------------
(***************************************************************************)
(* A message that has been sent: a handshake message at the beginning or,  *)
(* in a record, behind five bytes.                                         *)
(***************************************************************************)
MessageOf(m, h) == m = Handshake(Body(h)) \/ m = Record(Handshake(Body(h)))

HeaderIn(m) == IF Byte(m, 0) = 22 THEN 5 ELSE 0

SentAt(m, h) ==
    /\ m \in Seq(Int) /\ Len(m) = HeaderIn(m) + 4 + Len(Body(h))
    /\ Byte(m, 0) \in {1, 22} /\ HandshakeAt(m, HeaderIn(m), Body(h), Len(Body(h)))

LEMMA MessageSentAt ==
    ASSUME NEW h, Sendable(h), NEW m, MessageOf(m, h)
    PROVE  SentAt(m, h)
<1> DEFINE n == Len(Body(h))
           bare == Handshake(Body(h))
<1>1. Run(Body(h), n) /\ n \in Nat
  BY HelloLaidOut DEF LaidOut
<1>2. bare \in Seq(Int) /\ Len(bare) = 4 + n
  <2>1. Run(Vector16(Body(h)), 2 + n)
    BY <1>1, RunVector16
  <2>2. <<1>> \o <<0>> \in Seq(Int) /\ Len(<<1>> \o <<0>>) = 2
    OBVIOUS
  <2> QED
    BY <1>1, <2>1, <2>2, ConcatProperties DEF Handshake, Run
<1> HIDE DEF n, bare
<1>3. \A s \in Seq(Int) : Between(s, 0, Len(s)) = s
  BY SubSeqFull DEF Between
<1>4. CASE m = bare
  <2>1. Between(m, 0, 4 + n) = Handshake(Body(h)) /\ Len(m) = 4 + n /\ m \in Seq(Int)
    BY <1>2, <1>3, <1>4 DEF bare
  <2>2. HandshakeAt(m, 0, Body(h), n)
    <3>1. 4 + n \in Nat /\ 0 <= 4 + n /\ 4 + n <= Len(m) /\ 0 \in Nat
      BY <1>1, <2>1
    <3> QED
      BY <1>1, <2>1, <3>1, HandshakeIsAt, Zenon
  <2>3. Byte(m, 0) = 1 /\ HeaderIn(m) = 0
    BY <2>2 DEF HandshakeAt, HeaderIn
  <2> QED
    BY <1>1, <2>1, <2>2, <2>3 DEF SentAt, n
<1>5. CASE m = Record(bare)
  <2>1. Run(bare, 4 + n) /\ 4 + n \in Nat
    BY <1>1, <1>2 DEF Run
  <2>2. Run(<<22, 3, 1>>, 3) /\ Run(Vector16(bare), 2 + (4 + n)) /\ 2 + (4 + n) \in Nat
    BY <2>1, RunVector16 DEF Run
  <2>3. m = <<22, 3, 1>> \o Vector16(bare)
    BY <1>5 DEF Record
  <2>4. m \in Seq(Int) /\ Len(m) = 9 + n
    BY <1>1, <2>2, <2>3, ConcatProperties DEF Run
  <2>5. PICK e \in Nat : e = 9 + n
    BY <1>1
  <2>6. Between(m, 0, e) = <<22, 3, 1>> \o Vector16(bare)
    BY <1>3, <2>3, <2>4, <2>5
  <2>7. LieAt(m, 0, e, <<22, 3, 1>>, 3, Vector16(bare), 2 + (4 + n))
    <3>1. 0 \in Nat /\ 3 \in Nat /\ 0 <= e /\ e <= Len(m)
      BY <2>4, <2>5
    <3> QED
      BY <2>2, <2>4, <2>6, <3>1, RunSplits, Zenon
  <2>8. Between(m, 3, e) = Vector16(bare)
    BY <2>7 DEF LieAt
  <2>9. Vector16Lies(m, 3, e, bare, 4 + n)
    <3>1. 3 \in Nat /\ 3 <= e /\ e <= Len(m)
      BY <1>1, <2>4, <2>5
    <3> QED
      BY <2>1, <2>4, <2>8, <3>1, Vector16At, Zenon
  <2>10. Between(m, 5, e) = Handshake(Body(h))
    BY <2>9 DEF Vector16Lies, bare
  <2>11. HandshakeAt(m, 5, Body(h), n)
    <3>1. 5 \in Nat /\ 5 <= e /\ e <= Len(m)
      BY <1>1, <2>4, <2>5
    <3> QED
      BY <1>1, <2>4, <2>10, <3>1, HandshakeIsAt, Zenon
  <2>12. Byte(m, 0) = 22 /\ HeaderIn(m) = 5
    <3>1. m[1] = 22
      BY <2>2, <2>3, ConcatProperties DEF Run
    <3> QED
      BY <1>1, <2>4, <3>1 DEF Byte, HeaderIn
  <2>13. Len(m) = 5 + 4 + n
    BY <1>1, <2>4
  <2> QED
    BY <2>4, <2>11, <2>12, <2>13 DEF SentAt, n
<1> QED
  BY <1>4, <1>5 DEF MessageOf, bare

LEMMA MessagesAreSent ==
    ASSUME NEW m \in Messages
    PROVE  \E h \in Hellos : Sendable(h) /\ MessageOf(m, h)
BY HelloAssumption DEF Messages, Sent, MessageOf

(***************************************************************************)
(* A buffer and a message of which one begins with the other are read the  *)
(* same in front of the shorter one's end.                                 *)
(***************************************************************************)
LEMMA SharedBytes ==
    ASSUME NEW s \in Seq(Int), NEW t \in Seq(Int), IsPrefix(s, t),
           NEW i \in Nat, i < Len(s)
    PROVE  Byte(s, i) = Byte(t, i)
<1>1. Len(s) \in Nat /\ Len(t) \in Nat /\ Len(s) <= Len(t)
  BY DEF IsPrefix
<1>2. SubSeq(s, 1, Len(s)) = s
  BY SubSeqFull
<1>3. s = SubSeq(t, 1, Len(s))
  BY <1>2 DEF IsPrefix
<1>4. SubSeq(t, 1, Len(s))[i + 1] = t[i + 1]
  BY <1>1
<1>5. s[i + 1] = t[i + 1]
  BY <1>3, <1>4
<1> QED
  BY <1>1, <1>5 DEF Byte

(***************************************************************************)
(* Behind the header, the parser knows where the body ends.                *)
(***************************************************************************)
HeaderRead ==
    at \notin {"header", "rejected"} =>
        /\ Start(buf) <= Len(buf)
        /\ Byte(buf, Start(buf) - 4) = 1
        /\ bodyEnd = Start(buf) + U24(buf, Start(buf) - 3)

LEMMA HeaderStaysRead == TypeInv /\ HeaderRead /\ [Next]_parserVars => HeaderRead'
<1> SUFFICES ASSUME TypeInv, HeaderRead, [Next]_parserVars PROVE HeaderRead'
  OBVIOUS
<1>1. CASE Header
  <2> DEFINE body == RecordHeader(buf) + 4
             end == body + U24(buf, body - 3)
  <2>1. CASE BadHeader(body, end)
    BY <1>1, <2>1 DEF Header, Reject, HeaderRead
  <2>2. CASE ~BadHeader(body, end)
    <3>1. body \in Nat /\ Len(buf) \in Nat
      BY RecordHeaderIsNat DEF TypeInv, TypeOK
    <3>2. body <= Len(buf) /\ Byte(buf, body - 4) = 1
      BY <2>2, <3>1 DEF BadHeader, Overruns
    <3>3. bodyEnd' = end /\ buf' = buf
      BY <1>1, <2>2 DEF Header, Advance
    <3>4. Start(buf') = body
      BY <3>3 DEF Start
    <3> HIDE DEF body
    <3> QED
      BY <3>2, <3>3, <3>4 DEF HeaderRead
  <2> QED
    BY <2>1, <2>2
<1>2. CASE /\ at \notin {"header", "rejected"} \/ at' = at
           /\ bodyEnd' = bodyEnd /\ buf' = buf
  BY <1>2 DEF HeaderRead
<1>3. CASE SessionId \/ CipherSuites \/ CompressionMethods
  BY <1>2, <1>3 DEF SessionId, CipherSuites, CompressionMethods, Reject, Advance
<1>4. CASE NoBlock \/ ExtensionBlock \/ NextExtension \/ EndOfBlock \/ ReadsPastEnd
  BY <1>2, <1>4 DEF NoBlock, ExtensionBlock, NextExtension, MoreExtensions, EndOfBlock,
                    ReadsPastEnd, Reject, Advance
<1>5. CASE UNCHANGED parserVars
  BY <1>2, <1>5 DEF parserVars
<1> QED
  BY <1>1, <1>3, <1>4, <1>5 DEF Next

(***************************************************************************)
(* A buffer in which no whole ClientHello begins; the part of a message is *)
(* one.                                                                    *)
(***************************************************************************)
NoHelloIn(b) ==
    \/ Byte(b, RecordHeader(b)) # 1
    \/ RecordHeader(b) + 4 > Len(b)
    \/ (RecordHeader(b) + 4) + U24(b, RecordHeader(b) + 1) > Len(b)

LEMMA PartHasNoHello ==
  ASSUME NEW b \in Seq(Nat), NEW m \in Messages, IsStrictPrefix(b, m)
  PROVE  NoHelloIn(b)
<1> SUFFICES ASSUME ~NoHelloIn(b) PROVE FALSE
  OBVIOUS
<1>1. PICK h : Sendable(h) /\ MessageOf(m, h)
  BY MessagesAreSent
<1>2. SentAt(m, h)
  BY <1>1, MessageSentAt
<1>3. PICK n : n = Len(Body(h))
  OBVIOUS
<1>4. n \in Nat
  BY <1>1, <1>3, HelloLaidOut DEF LaidOut
<1>5. /\ m \in Seq(Int) /\ Len(m) = HeaderIn(m) + 4 + n /\ Byte(m, 0) \in {1, 22}
      /\ U24(m, HeaderIn(m) + 1) = n
  BY <1>2, <1>3 DEF SentAt, HandshakeAt
<1>6. PICK r \in Nat : r = RecordHeader(b) /\ r \in {0, 5}
  BY DEF RecordHeader
<1>7. /\ b \in Seq(Int) /\ Len(b) \in Nat /\ Byte(b, r) = 1 /\ r + 4 <= Len(b)
      /\ (r + 4) + U24(b, r + 1) <= Len(b)
  <2>1. b \in Seq(Int) /\ Len(b) \in Nat
    BY SeqMonotonic
  <2>2. PICK x \in Nat : x = U24(b, r + 1)
    BY U24IsNat
  <2>3. /\ Byte(b, r) = 1 /\ ~(r + 4 > Len(b)) /\ ~((r + 4) + x > Len(b))
    BY <1>6, <2>2 DEF NoHelloIn
  <2> QED
    BY <2>1, <2>2, <2>3
<1>8. IsPrefix(b, m) /\ Len(b) < Len(m)
  <2>1. IsPrefix(b, m) /\ b # m
    BY DEF IsStrictPrefix
  <2>2. SubSeq(m, 1, Len(m)) = m /\ SubSeq(b, 1, Len(b)) = b
    BY <1>5, <1>7, SubSeqFull
  <2>3. Len(b) # Len(m)
    BY <2>1, <2>2 DEF IsPrefix
  <2> QED
    <3>1. PICK x \in Nat, y \in Nat : x = Len(b) /\ y = Len(m)
      BY <1>5, <1>7
    <3>2. x <= y /\ x # y
      BY <2>1, <2>3, <3>1 DEF IsPrefix
    <3>3. x < y
      BY ONLY <3>2, x \in Nat, y \in Nat
    <3> QED
      BY <2>1, <3>1, <3>3
<1>9. \A i \in Nat : i < Len(b) => Byte(b, i) = Byte(m, i)
  BY <1>5, <1>7, <1>8, SharedBytes
<1>10. Byte(b, 0) = Byte(m, 0)
  BY <1>7, <1>9
<1>11. r = HeaderIn(m)
  <2>1. CASE Byte(m, 0) = 1
    BY <1>6, <1>10, <2>1 DEF RecordHeader, HeaderIn
  <2>2. CASE Byte(m, 0) = 22
    <3>1. r # 0
      BY <1>7, <1>10, <2>2
    <3> QED
      BY <1>6, <2>2, <3>1 DEF HeaderIn
  <2> QED
    BY <1>5, <2>1, <2>2
<1>12. U24(b, r + 1) = n
  <2>1. PICK i \in Nat : i = r + 1
    OBVIOUS
  <2>2. /\ i + 1 \in Nat /\ (i + 1) + 1 \in Nat
        /\ i < Len(b) /\ i + 1 < Len(b) /\ (i + 1) + 1 < Len(b)
    BY <1>7, <2>1
  <2>3. Byte(b, i) = Byte(m, i) /\ Byte(b, i + 1) = Byte(m, i + 1)
        /\ Byte(b, (i + 1) + 1) = Byte(m, (i + 1) + 1)
    BY <1>9, <2>2
  <2>4. U24(b, i) = U24(m, i)
    BY <2>3 DEF U24, U16
  <2> QED
    BY <1>5, <1>11, <2>1, <2>4
<1> QED
  BY <1>4, <1>5, <1>7, <1>8, <1>11, <1>12

LEMMA PartIsNotAccepted == TypeInv /\ HeaderRead => PartRejected
<1> SUFFICES ASSUME TypeInv, HeaderRead, at = "accepted",
                    NEW m \in Messages, IsStrictPrefix(buf, m)
             PROVE  FALSE
  BY DEF PartRejected
<1>1. buf \in Seq(Nat) /\ Len(buf) \in Nat /\ bodyEnd <= Len(buf)
  BY DEF TypeInv, TypeOK
<1>2. PICK r \in Nat : r = RecordHeader(buf)
  BY <1>1, RecordHeaderIsNat
<1>3. Start(buf) = r + 4 /\ Start(buf) - 4 = r /\ Start(buf) - 3 = r + 1
  BY <1>2 DEF Start
<1>4. Byte(buf, r) = 1 /\ r + 4 <= Len(buf) /\ bodyEnd = (r + 4) + U24(buf, r + 1)
  BY <1>3 DEF HeaderRead
<1>5. ~NoHelloIn(buf)
  <2>1. PICK x \in Nat : x = U24(buf, r + 1)
    BY <1>1, U24IsNat
  <2>2. ~(r + 4 > Len(buf)) /\ ~((r + 4) + x > Len(buf))
    BY <1>1, <1>4, <2>1
  <2> QED
    BY <1>2, <1>4, <2>1, <2>2 DEF NoHelloIn
<1> QED
  BY <1>1, <1>5, PartHasNoHello

(***************************************************************************)
(* parseClientHello() returns nothing for a message that is still          *)
(* arriving, wherever it is cut off and whatever the client sends.         *)
(***************************************************************************)
THEOREM PartIsRejected == Spec => []PartRejected
<1>1. Init => TypeInv /\ HeaderRead
  <2>1. Init => HeaderRead
    BY DEF Init, HeaderRead
  <2> QED
    BY <2>1, TypeInit
<1>2. (TypeInv /\ HeaderRead) /\ [Next]_parserVars => (TypeInv /\ HeaderRead)'
  BY TypeStep, HeaderStaysRead
<1>3. TypeInv /\ HeaderRead => PartRejected
  BY PartIsNotAccepted
<1> QED
  BY <1>1, <1>2, <1>3, PTL DEF Spec

-----------------------------------------------------------------------------
(***************************************************************************)
(* A buffer that begins with a message holds its body, field by field.     *)
(***************************************************************************)
Carried(b, h) ==
    /\ Start(b) + Len(Body(h)) <= Len(b)
    /\ HandshakeAt(b, Start(b) - 4, Body(h), Len(Body(h)))

LEMMA MessageCarried ==
    ASSUME NEW b \in Seq(Int), NEW m \in Messages, IsPrefix(m, b)
    PROVE  \E h \in Hellos : Sendable(h) /\ Carried(b, h)
<1>1. PICK h \in Hellos : Sendable(h) /\ MessageOf(m, h)
  BY MessagesAreSent
<1>2. PICK n : n = Len(Body(h))
  OBVIOUS
<1>3. SentAt(m, h) /\ n \in Nat
  BY <1>1, <1>2, MessageSentAt, HelloLaidOut DEF LaidOut
<1>4. /\ m \in Seq(Int) /\ Len(m) = HeaderIn(m) + 4 + n /\ Byte(m, 0) \in {1, 22}
      /\ HandshakeAt(m, HeaderIn(m), Body(h), n) /\ HeaderIn(m) \in {0, 5}
  BY <1>2, <1>3 DEF SentAt, HeaderIn
<1>5. Len(m) \in Nat /\ Len(b) \in Nat /\ Len(m) <= Len(b)
  BY <1>4 DEF IsPrefix
<1>6. \A i \in Nat : i < Len(m) => Byte(m, i) = Byte(b, i)
  BY <1>4, SharedBytes
<1>7. RecordHeader(b) = HeaderIn(m) /\ Start(b) = HeaderIn(m) + 4
  <2>1. Byte(b, 0) = Byte(m, 0)
    BY <1>3, <1>4, <1>6
  <2>2. RecordHeader(b) = HeaderIn(m)
    <3>1. CASE Byte(m, 0) = 1
      BY <2>1, <3>1 DEF RecordHeader, HeaderIn
    <3>2. CASE Byte(m, 0) = 22
      <4>1. HeaderIn(m) = 5
        BY <3>2 DEF HeaderIn
      <4>2. Len(b) >= 5
        BY <1>3, <1>4, <1>5, <4>1
      <4> QED
        BY <2>1, <3>2, <4>1, <4>2 DEF RecordHeader
    <3> QED
      BY <1>4, <3>1, <3>2
  <2> QED
    BY <2>2 DEF Start
<1>8. PICK i \in Nat : i = HeaderIn(m)
  BY <1>4
<1>9. Byte(b, i) = 1 /\ U24(b, i + 1) = n
  <2>1. Byte(m, i) = 1 /\ U24(m, i + 1) = n
    BY <1>4, <1>8 DEF HandshakeAt
  <2>2. /\ i + 1 \in Nat /\ (i + 1) + 1 \in Nat /\ ((i + 1) + 1) + 1 \in Nat
        /\ i < Len(m) /\ i + 1 < Len(m) /\ (i + 1) + 1 < Len(m) /\ ((i + 1) + 1) + 1 < Len(m)
    <3>1. Len(m) = i + 4 + n /\ n \in Nat
      BY <1>3, <1>4, <1>8
    <3> QED
      BY ONLY i \in Nat, <3>1
  <2>3. /\ Byte(m, i) = Byte(b, i) /\ Byte(m, i + 1) = Byte(b, i + 1)
        /\ Byte(m, (i + 1) + 1) = Byte(b, (i + 1) + 1)
        /\ Byte(m, ((i + 1) + 1) + 1) = Byte(b, ((i + 1) + 1) + 1)
    BY <1>6, <2>2
  <2> QED
    BY <2>1, <2>3 DEF U24, U16
<1>10. Between(b, i + 4, i + 4 + n) = Body(h)
  <2>1. m = Between(b, 0, Len(m))
    <3>1. SubSeq(m, 1, Len(m)) = m
      BY <1>4, SubSeqFull
    <3> QED
      BY <3>1 DEF IsPrefix, Between
  <2>2. PICK x \in Nat, y \in Nat : x = i + 4 /\ y = i + 4 + n
    BY <1>3
  <2>3. x <= y /\ 0 + y <= Len(m) /\ 0 <= Len(m) /\ 0 + x = x /\ 0 + y = y /\ 0 \in Nat
    <3>1. Len(m) = y /\ n \in Nat
      BY <1>3, <1>4, <1>8, <2>2
    <3> QED
      BY ONLY <2>2, <3>1, i \in Nat, x \in Nat, y \in Nat
  <2>4. Between(Between(b, 0, Len(m)), x, y) = Between(b, 0 + x, 0 + y)
    BY <1>5, <2>3, BetweenBetween
  <2>5. Between(m, x, y) = Body(h)
    BY <1>4, <1>8, <2>2 DEF HandshakeAt
  <2> QED
    BY <2>1, <2>2, <2>3, <2>4, <2>5
<1>11. Start(b) - 4 = i
  BY <1>7, <1>8
<1>12. Carried(b, h)
  <2>1. HandshakeAt(b, i, Body(h), n)
    BY <1>9, <1>10 DEF HandshakeAt
  <2>2. Start(b) + n <= Len(b)
    BY <1>3, <1>4, <1>5, <1>7
  <2> QED
    BY <1>2, <1>11, <2>1, <2>2 DEF Carried
<1> QED
  BY <1>1, <1>12

FieldsAt(b, h) ==
    /\ Start(b) \in Nat /\ Len(Body(h)) \in Nat /\ BlockStart(h) \in Nat
    /\ SuitesAt(h) \in Nat /\ MethodsAt(h) \in Nat
    /\ Byte(b, Start(b) + 34) = Len(h.sessionId)
    /\ U16(b, Start(b) + SuitesAt(h)) = 2 * Len(h.suites)
    /\ Byte(b, Start(b) + MethodsAt(h)) = Len(h.methods)
    /\ Start(b) + Len(Body(h)) <= Len(b)
    /\ ~h.extensible => Len(Body(h)) = BlockStart(h)
    /\ h.extensible =>
          /\ U16(b, Start(b) + BlockStart(h)) = Len(Extensions(h.extensions))
          /\ Len(Body(h)) = BlockStart(h) + 2 + Len(Extensions(h.extensions))
          /\ Between(b, Start(b) + BlockStart(h) + 2, Start(b) + Len(Body(h)))
                = Extensions(h.extensions)

LEMMA CarriedFields ==
    ASSUME NEW b \in Seq(Int), RecordHeader(b) \in Nat,
           NEW h, Sendable(h), Carried(b, h)
    PROVE  FieldsAt(b, h)
<1>1. PICK s \in Nat, n \in Nat, e \in Nat : s = Start(b) /\ n = Len(Body(h)) /\ e = s + n
  <2>1. LaidOut(h)
    BY HelloLaidOut
  <2>2. PICK n \in Nat : n = Len(Body(h))
    BY <2>1, Zenon DEF LaidOut
  <2>3. PICK s \in Nat : s = Start(b)
    BY DEF Start
  <2>4. s + n \in Nat
    OBVIOUS
  <2> QED
    BY <2>2, <2>3, <2>4, Zenon
<1>2. PICK sid \in Nat, su \in Nat, me \in Nat, ex \in Nat :
         /\ sid = Len(h.sessionId) /\ su = Len(h.suites) /\ me = Len(h.methods)
         /\ ex = Len(Extensions(h.extensions))
  BY HelloLaidOut, Zenon DEF LaidOut
<1>3. PICK p2 \in Nat, p3 \in Nat, p4 \in Nat :
         /\ p2 = SuitesAt(h) /\ p3 = MethodsAt(h) /\ p4 = BlockStart(h)
         /\ p2 = 34 + (1 + sid) /\ p3 = p2 + (2 + (2 * su)) /\ p4 = p3 + (1 + me)
  <2>1. SuitesAt(h) = 34 + (1 + sid)
    BY <1>2 DEF SuitesAt
  <2>2. MethodsAt(h) = SuitesAt(h) + (2 + (2 * su)) /\ BlockStart(h) = MethodsAt(h) + (1 + me)
    BY <1>2 DEF MethodsAt, BlockStart
  <2> QED
    BY <2>1, <2>2
<1>4. /\ Run(ThroughRandom(h), 34) /\ Run(Vector8(h.sessionId), 1 + sid)
      /\ Run(ThroughSession(h), p2) /\ Run(Vector16(Codes(h.suites)), 2 + (2 * su))
      /\ Run(ThroughSuites(h), p3) /\ Run(Vector8(h.methods), 1 + me)
      /\ Run(FixedFields(h), p4) /\ Run(Extensions(h.extensions), ex)
  BY <1>2, <1>3, HelloLaidOut, Zenon DEF LaidOut
<1>5. e <= Len(b) /\ Between(b, s, e) = Body(h)
  <2>1. Start(b) + Len(Body(h)) <= Len(b)
        /\ Between(b, (Start(b) - 4) + 4, (Start(b) - 4) + 4 + Len(Body(h))) = Body(h)
    BY DEF Carried, HandshakeAt
  <2>2. (s - 4) + 4 = s /\ (s - 4) + 4 + n = e
    BY <1>1
  <2> QED
    BY <1>1, <2>1, <2>2
<1>6. /\ s + p4 <= e /\ Between(b, s, s + p4) = FixedFields(h)
      /\ ~h.extensible => n = p4
      /\ h.extensible => n = p4 + 2 + ex /\ Between(b, s + p4, e) = Vector16(Extensions(h.extensions))
  <2>1. CASE h.extensible
    <3>1. Run(Vector16(Extensions(h.extensions)), 2 + ex) /\ 2 + ex \in Nat
      BY <1>4, RunVector16
    <3>2. Between(b, s, e) = FixedFields(h) \o Vector16(Extensions(h.extensions))
      BY <1>5, <2>1 DEF Body
    <3>3. s <= e
      BY <1>1
    <3>4. LieAt(b, s, e, FixedFields(h), p4, Vector16(Extensions(h.extensions)), 2 + ex)
      BY <1>4, <1>5, <3>1, <3>2, <3>3, RunSplits, Zenon
    <3>5. e = s + p4 + (2 + ex)
      BY <3>4 DEF LieAt
    <3>6. n = p4 + 2 + ex /\ s + p4 <= e
      <4>1. e = s + n
        BY <1>1
      <4> QED
        BY ONLY <3>5, <4>1, s \in Nat, n \in Nat, e \in Nat, p4 \in Nat, ex \in Nat
    <3> QED
      BY <2>1, <3>4, <3>6 DEF LieAt
  <2>2. CASE ~h.extensible
    <3>1. Body(h) = FixedFields(h)
      BY <1>4, <2>2, ConcatEmptySeq DEF Body, Run
    <3>2. n = p4
      BY <1>1, <1>4, <3>1 DEF Run
    <3> QED
      BY <1>1, <1>5, <2>2, <3>1, <3>2
  <2> QED
    BY <2>1, <2>2
<1>7. PICK e4 \in Nat, e3 \in Nat, e2 \in Nat, e1 \in Nat :
         /\ e4 = s + p4 /\ e3 = s + p3 /\ e2 = s + p2 /\ e1 = s + 34
         /\ e4 <= Len(b) /\ e3 <= e4 /\ e2 <= e3 /\ e1 <= e2 /\ s <= e1
         /\ e3 <= Len(b) /\ e2 <= Len(b) /\ e1 <= Len(b) /\ s <= e2 /\ s <= e3 /\ s <= e4
  <2>1. PICK e4 \in Nat, e3 \in Nat, e2 \in Nat, e1 \in Nat :
           e4 = s + p4 /\ e3 = s + p3 /\ e2 = s + p2 /\ e1 = s + 34
    OBVIOUS
  <2>2. e4 <= Len(b) /\ Len(b) \in Nat
    BY <1>5, <1>6, <2>1
  <2>3. e3 <= e4 /\ e2 <= e3 /\ e1 <= e2 /\ s <= e1
    BY <1>3, <2>1
  <2>4. /\ e3 <= Len(b) /\ e2 <= Len(b) /\ e1 <= Len(b)
        /\ s <= e2 /\ s <= e3 /\ s <= e4
    BY <2>2, <2>3
  <2> QED
    BY <2>1, <2>2, <2>3, <2>4, Zenon
<1>8. Between(b, s, e3) = ThroughSuites(h) /\ Between(b, e3, e4) = Vector8(h.methods)
  <2>1. Between(b, s, e4) = ThroughSuites(h) \o Vector8(h.methods)
    BY <1>6, <1>7 DEF FixedFields, ThroughSuites, ThroughSession, ThroughRandom
  <2>2. LieAt(b, s, e4, ThroughSuites(h), p3, Vector8(h.methods), 1 + me)
    <3>1. 1 + me \in Nat
      OBVIOUS
    <3> QED
      BY <1>4, <1>7, <2>1, <3>1, RunSplits, Zenon
  <2> QED
    BY <1>7, <2>2 DEF LieAt
<1>9. Between(b, s, e2) = ThroughSession(h) /\ Between(b, e2, e3) = Vector16(Codes(h.suites))
  <2>1. Between(b, s, e3) = ThroughSession(h) \o Vector16(Codes(h.suites))
    BY <1>8 DEF ThroughSuites
  <2>2. LieAt(b, s, e3, ThroughSession(h), p2, Vector16(Codes(h.suites)), 2 + (2 * su))
    <3>1. 2 + (2 * su) \in Nat
      OBVIOUS
    <3> QED
      BY <1>4, <1>7, <2>1, <3>1, RunSplits, Zenon
  <2> QED
    BY <1>7, <2>2 DEF LieAt
<1>10. Between(b, e1, e2) = Vector8(h.sessionId)
  <2>1. Between(b, s, e2) = ThroughRandom(h) \o Vector8(h.sessionId)
    BY <1>9 DEF ThroughSession
  <2>2. LieAt(b, s, e2, ThroughRandom(h), 34, Vector8(h.sessionId), 1 + sid)
    <3>1. 1 + sid \in Nat /\ 34 \in Nat
      OBVIOUS
    <3> QED
      BY <1>4, <1>7, <2>1, <3>1, RunSplits, Zenon
  <2> QED
    BY <1>7, <2>2 DEF LieAt
<1>11. /\ h.suites \in Seq(Nat)
       /\ Run(h.sessionId, sid) /\ Run(h.methods, me) /\ Run(Codes(h.suites), 2 * su)
  BY <1>2, SendableTypes, RunCodes
<1>12. Byte(b, e1) = sid
  <2>1. Vector8Lies(b, e1, e2, h.sessionId, sid)
    BY <1>7, <1>10, <1>11, Vector8At, Zenon
  <2> QED
    BY <2>1 DEF Vector8Lies
<1>13. U16(b, e2) = 2 * su
  <2>1. 2 * su \in Nat
    OBVIOUS
  <2>2. Vector16Lies(b, e2, e3, Codes(h.suites), 2 * su)
    BY <1>7, <1>9, <1>11, <2>1, Vector16At, Zenon
  <2> QED
    BY <2>2 DEF Vector16Lies
<1>14. Byte(b, e3) = me
  <2>1. Vector8Lies(b, e3, e4, h.methods, me)
    BY <1>7, <1>8, <1>11, Vector8At, Zenon
  <2> QED
    BY <2>1 DEF Vector8Lies
<1>15. ASSUME h.extensible
       PROVE  U16(b, e4) = ex /\ Between(b, e4 + 2, e) = Extensions(h.extensions)
  <2>1. e4 <= e
    BY <1>6, <1>7
  <2>2. Between(b, e4, e) = Vector16(Extensions(h.extensions))
    BY <1>6, <1>7, <1>15
  <2>3. Vector16Lies(b, e4, e, Extensions(h.extensions), ex)
    BY <1>4, <1>5, <2>1, <2>2, Vector16At, Zenon
  <2> QED
    BY <2>3 DEF Vector16Lies
<1>16. /\ Start(b) \in Nat /\ Len(Body(h)) \in Nat /\ BlockStart(h) \in Nat
       /\ SuitesAt(h) \in Nat /\ MethodsAt(h) \in Nat
  BY <1>1, <1>3, Zenon
<1>17. /\ Byte(b, Start(b) + 34) = Len(h.sessionId)
       /\ U16(b, Start(b) + SuitesAt(h)) = 2 * Len(h.suites)
       /\ Byte(b, Start(b) + MethodsAt(h)) = Len(h.methods)
  BY <1>1, <1>2, <1>3, <1>7, <1>12, <1>13, <1>14
<1>18. Start(b) + Len(Body(h)) <= Len(b) /\ (~h.extensible => Len(Body(h)) = BlockStart(h))
  BY <1>1, <1>3, <1>5, <1>6
<1>19. ASSUME h.extensible
       PROVE  /\ U16(b, Start(b) + BlockStart(h)) = Len(Extensions(h.extensions))
              /\ Len(Body(h)) = BlockStart(h) + 2 + Len(Extensions(h.extensions))
              /\ Between(b, Start(b) + BlockStart(h) + 2, Start(b) + Len(Body(h)))
                    = Extensions(h.extensions)
  BY <1>1, <1>2, <1>3, <1>6, <1>7, <1>15, <1>19
<1> QED
  BY <1>16, <1>17, <1>18, <1>19 DEF FieldsAt

(***************************************************************************)
(* Likewise the extensions, one after the other.                           *)
(***************************************************************************)
First(es, k) == Extensions(SubSeq(es, 1, k))

ExtensionTypes == [type : Nat, data : Seq(Nat)]

LEMMA OneExtensionMore ==
    ASSUME NEW es \in Seq(ExtensionTypes), NEW k \in Nat, k + 1 <= Len(es)
    PROVE  LET e == es[k + 1] IN
           /\ e.data \in Seq(Nat) /\ e.type \in Nat
           /\ First(es, k + 1) = First(es, k) \o (Bytes16(e.type) \o Vector16(e.data))
<1> DEFINE e == es[k + 1]
<1>1. e \in ExtensionTypes /\ SubSeq(es, 1, k) \in Seq(ExtensionTypes)
  <2>1. k + 1 \in 1 .. Len(es)
    OBVIOUS
  <2>2. \A j \in 1 .. k : es[j] \in ExtensionTypes
    BY ElementOfSeq
  <2> QED
    BY <2>1, <2>2, ElementOfSeq, SubSeqProperties
<1>2. SubSeq(es, 1, k + 1) = Append(SubSeq(es, 1, k), e)
  <2>1. SubSeq(es, 1, k + 1) = SubSeq(es, 1, (k + 1) - 1) \o <<es[k + 1]>>
    BY SubSeqRecursiveSecond
  <2> QED
    BY <1>1, <2>1, AppendIsConcat
<1>3. Extensions(Append(SubSeq(es, 1, k), e))
        = Extensions(SubSeq(es, 1, k)) \o (Bytes16(e.type) \o Vector16(e.data))
  BY <1>1, ExtensionsAppend DEF ExtensionTypes
<1> QED
  BY <1>1, <1>2, <1>3 DEF First, ExtensionTypes

FirstLie(b, i, es, k) ==
    /\ Run(First(es, k), Len(First(es, k))) /\ Len(First(es, k)) \in Nat
    /\ i + Len(First(es, k)) <= Len(b)
    /\ Len(First(es, k)) <= Len(Extensions(es))
    /\ Between(b, i, i + Len(First(es, k))) = First(es, k)

NextLies(b, i, es, k) ==
    LET e == es[k + 1]
        here == i + Len(First(es, k))
    IN  /\ Len(e.data) \in Nat
        /\ U16(b, here + 2) = Len(e.data)
        /\ i + Len(First(es, k + 1)) = here + 4 + Len(e.data)

StepsDown(b, i, es, k) == FirstLie(b, i, es, k) /\ NextLies(b, i, es, k)

LEMMA StepDown ==
    ASSUME NEW b \in Seq(Int), NEW i \in Nat, NEW es \in Seq(ExtensionTypes),
           NEW k \in Nat, k + 1 <= Len(es), FirstLie(b, i, es, k + 1),
           Len(Extensions(es)) \in Nat
    PROVE  StepsDown(b, i, es, k)
<1>1. PICK e : e = es[k + 1]
  OBVIOUS
<1>2. /\ e.data \in Seq(Nat) /\ e.type \in Nat
      /\ First(es, k + 1) = First(es, k) \o (Bytes16(e.type) \o Vector16(e.data))
  BY <1>1, OneExtensionMore
<1>3. PICK d \in Nat : d = Len(e.data) /\ Run(e.data, d)
  <2>1. e.data \in Seq(Int) /\ Len(e.data) \in Nat
    BY <1>2
  <2> QED
    BY <2>1 DEF Run
<1>4. PICK x \in Nat : Run(First(es, k), x) /\ x = Len(First(es, k))
  <2>1. SubSeq(es, 1, k) \in Seq(ExtensionTypes)
    <3>1. \A j \in 1 .. k : es[j] \in ExtensionTypes
      BY ElementOfSeq
    <3> QED
      BY <3>1, SubSeqProperties
  <2>2. First(es, k) \in Seq(Int)
    BY <2>1, ExtensionsRun DEF First, ExtensionTypes
  <2>3. Len(First(es, k)) \in Nat
    BY <2>2
  <2> QED
    BY <2>2, <2>3 DEF Run
<1>5. PICK y \in Nat : y = Len(First(es, k + 1))
  BY DEF FirstLie
<1>6. Run(Bytes16(e.type), 2) /\ Run(Vector16(e.data), 2 + d)
      /\ Run(Bytes16(e.type) \o Vector16(e.data), 2 + (2 + d)) /\ 2 + d \in Nat
      /\ 2 + (2 + d) \in Nat
  <2>1. 2 \in Nat /\ 2 + d \in Nat /\ 2 + (2 + d) \in Nat
    OBVIOUS
  <2>2. Run(Bytes16(e.type), 2)
    BY <1>2, RunBytes16
  <2>3. Run(Vector16(e.data), 2 + d)
    BY <1>3, RunVector16
  <2> QED
    BY <2>1, <2>2, <2>3, RunConcat
<1>7. PICK j \in Nat : j = i + y /\ i <= j /\ j <= Len(b) /\ y <= Len(Extensions(es))
         /\ Between(b, i, j) = First(es, k + 1)
  BY <1>5 DEF FirstLie
<1>8. LieAt(b, i, j, First(es, k), x, Bytes16(e.type) \o Vector16(e.data), 2 + (2 + d))
  <2>1. Between(b, i, j) = First(es, k) \o (Bytes16(e.type) \o Vector16(e.data))
    BY <1>2, <1>7
  <2> QED
    BY <1>4, <1>6, <1>7, <2>1, RunSplits, Zenon
<1>9. PICK a \in Nat : a = i + x /\ a <= j /\ j = a + (2 + (2 + d))
  BY <1>8 DEF LieAt
<1>10. Between(b, i, a) = First(es, k)
       /\ Between(b, a, j) = Bytes16(e.type) \o Vector16(e.data)
  BY <1>8, <1>9 DEF LieAt
<1>11. LieAt(b, a, j, Bytes16(e.type), 2, Vector16(e.data), 2 + d)
  <2>1. 2 \in Nat
    OBVIOUS
  <2> QED
    BY <1>6, <1>7, <1>9, <1>10, <2>1, RunSplits, Zenon
<1>12. U16(b, a + 2) = d
  <2>1. Between(b, a + 2, j) = Vector16(e.data)
    BY <1>11 DEF LieAt
  <2>2. a + 2 \in Nat /\ a + 2 <= j
    BY <1>9
  <2>3. Vector16Lies(b, a + 2, j, e.data, d)
    BY <1>3, <1>7, <2>1, <2>2, Vector16At, Zenon
  <2> QED
    BY <2>3 DEF Vector16Lies
<1>13. FirstLie(b, i, es, k)
  <2>1. x <= Len(Extensions(es)) /\ a <= Len(b)
    BY <1>7, <1>9
  <2> QED
    BY <1>4, <1>9, <1>10, <2>1 DEF FirstLie
<1>14. NextLies(b, i, es, k)
  <2>1. i + y = (i + x) + 4 + d
    BY <1>7, <1>9
  <2> QED
    BY <1>1, <1>3, <1>4, <1>5, <1>9, <1>12, <2>1 DEF NextLies
<1> QED
  BY <1>13, <1>14 DEF StepsDown

LEMMA AllFirstLie ==
    ASSUME NEW b \in Seq(Int), NEW i \in Nat, NEW es \in Seq(ExtensionTypes),
           Len(Extensions(es)) \in Nat,
           i + Len(Extensions(es)) <= Len(b),
           Between(b, i, i + Len(Extensions(es))) = Extensions(es)
    PROVE  \A k \in 0 .. Len(es) : FirstLie(b, i, es, k)
<1> DEFINE A == {d \in Nat : d <= Len(es) => FirstLie(b, i, es, Len(es) - d)}
<1>0. Len(es) \in Nat /\ First(es, Len(es)) = Extensions(es)
  <2>1. SubSeq(es, 1, Len(es)) = es
    BY SubSeqFull
  <2>2. Len(es) \in Nat
    OBVIOUS
  <2> QED
    BY <2>1, <2>2, Zenon DEF First
<1>n. PICK n \in Nat : n = Len(es)
  BY <1>0, Zenon
<1>1. 0 \in A
  <2>1. Extensions(es) \in Seq(Int)
    BY ExtensionsRun DEF ExtensionTypes
  <2>2. PICK x \in Nat : x = Len(Extensions(es))
    OBVIOUS
  <2>3. Run(First(es, Len(es)), x) /\ x <= x /\ x = Len(First(es, Len(es)))
    BY <1>0, <2>1, <2>2 DEF Run
  <2>4. FirstLie(b, i, es, Len(es))
    BY <1>0, <2>2, <2>3 DEF FirstLie
  <2>5. Len(es) - 0 = Len(es)
    BY <1>0
  <2> QED
    BY <2>4, <2>5
<1>2. ASSUME NEW d \in Nat, d \in A PROVE d + 1 \in A
  <2> SUFFICES ASSUME d + 1 <= Len(es) PROVE FirstLie(b, i, es, Len(es) - (d + 1))
    OBVIOUS
  <2>1. PICK k \in Nat : k = n - (d + 1)
    <3>1. n - (d + 1) \in Nat
      BY <1>n
    <3> QED
      BY <3>1, Zenon
  <2>2. k + 1 = n - d /\ k + 1 <= n /\ d <= n
    BY ONLY n \in Nat, d \in Nat, k \in Nat, <2>1
  <2>3. FirstLie(b, i, es, k + 1)
    <3>1. FirstLie(b, i, es, Len(es) - d)
      BY <1>2, <1>n, <2>2
    <3> QED
      BY <1>n, <2>2, <3>1
  <2>4. StepsDown(b, i, es, k)
    BY <1>n, <2>2, <2>3, StepDown, Zenon
  <2> QED
    BY <1>n, <2>1, <2>4 DEF StepsDown
<1>3. \A d \in Nat : d \in A
  <2> HIDE DEF A
  <2> QED
    BY <1>1, <1>2, SetInduction
<1>4. ASSUME NEW k \in 0 .. Len(es) PROVE FirstLie(b, i, es, k)
  <2>0. k \in Nat /\ k <= n
    BY <1>n
  <2>1. PICK d \in Nat : d = n - k
    <3>1. n - k \in Nat
      BY <2>0
    <3> QED
      BY <3>1, Zenon
  <2>2. d <= n /\ n - d = k
    BY ONLY n \in Nat, k \in Nat, d \in Nat, <2>0, <2>1
  <2>3. d \in A
    BY <1>3
  <2> QED
    BY <1>n, <2>2, <2>3
<1> QED
  BY <1>4

(***************************************************************************)
(* Where the parser is while it reads a message a client has put together. *)
(***************************************************************************)
OnTrack(h) ==
    /\ at # "rejected"
    /\ at # "header" => bodyEnd = Start(buf) + Len(Body(h))
    /\ at = "session" => o = Start(buf) + 34
    /\ at = "ciphers" => o = Start(buf) + SuitesAt(h)
    /\ at = "compression" => o = Start(buf) + MethodsAt(h)
    /\ at = "block" => o = Start(buf) + BlockStart(h)
    /\ at = "extension" =>
          /\ h.extensible
          /\ extEnd = Start(buf) + Len(Body(h))
          /\ \E k \in 0 .. Len(h.extensions) :
                o = Start(buf) + BlockStart(h) + 2 + Len(First(h.extensions, k))

KeepsTrack == \A h \in Hellos : Carried(buf, h) => OnTrack(h)

FieldsFit(h) ==
    /\ Len(h.sessionId) \in Nat /\ Len(h.suites) \in Nat /\ Len(h.methods) \in Nat
    /\ SuitesAt(h) = 35 + Len(h.sessionId)
    /\ MethodsAt(h) = SuitesAt(h) + (2 + (2 * Len(h.suites)))
    /\ BlockStart(h) = MethodsAt(h) + (1 + Len(h.methods))
    /\ 34 <= Len(Body(h)) /\ 35 + Len(h.sessionId) <= Len(Body(h))
    /\ SuitesAt(h) + (2 + (2 * Len(h.suites))) <= Len(Body(h))
    /\ MethodsAt(h) + (1 + Len(h.methods)) <= Len(Body(h))

LEMMA FieldsDoFit ==
    ASSUME NEW b, NEW h, Sendable(h), FieldsAt(b, h)
    PROVE  FieldsFit(h)
<1>1. /\ Len(h.sessionId) \in Nat /\ Len(h.suites) \in Nat /\ Len(h.methods) \in Nat
      /\ Len(Extensions(h.extensions)) \in Nat
  BY HelloLaidOut, Zenon DEF LaidOut
<1>2. /\ SuitesAt(h) = 35 + Len(h.sessionId)
      /\ MethodsAt(h) = SuitesAt(h) + (2 + (2 * Len(h.suites)))
      /\ BlockStart(h) = MethodsAt(h) + (1 + Len(h.methods))
  BY Zenon DEF SuitesAt, MethodsAt, BlockStart
<1>3. BlockStart(h) <= Len(Body(h))
  <2>1. BlockStart(h) \in Nat /\ h.extensible \in BOOLEAN
    BY DEF FieldsAt, Sendable
  <2>2. CASE h.extensible
    <3>1. Len(Body(h)) = BlockStart(h) + 2 + Len(Extensions(h.extensions))
      BY <2>2 DEF FieldsAt
    <3> QED
      BY <1>1, <2>1, <3>1
  <2>3. CASE ~h.extensible
    <3>1. Len(Body(h)) = BlockStart(h)
      BY <2>3 DEF FieldsAt
    <3> QED
      BY <2>1, <3>1
  <2> QED
    BY <2>1, <2>2, <2>3
<1>4. /\ 34 <= Len(Body(h)) /\ 35 + Len(h.sessionId) <= Len(Body(h))
      /\ SuitesAt(h) + (2 + (2 * Len(h.suites))) <= Len(Body(h))
      /\ MethodsAt(h) + (1 + Len(h.methods)) <= Len(Body(h))
  <2>1. PICK n \in Nat, p2 \in Nat, p3 \in Nat, p4 \in Nat, x \in Nat, y \in Nat, z \in Nat :
           /\ n = Len(Body(h)) /\ p2 = SuitesAt(h) /\ p3 = MethodsAt(h) /\ p4 = BlockStart(h)
           /\ x = Len(h.sessionId) /\ y = Len(h.suites) /\ z = Len(h.methods)
    BY <1>1, Zenon DEF FieldsAt
  <2>2. p2 = 35 + x /\ p3 = p2 + (2 + (2 * y)) /\ p4 = p3 + (1 + z) /\ p4 <= n
    BY <1>2, <1>3, <2>1
  <2>3. 34 <= n /\ 35 + x <= n /\ p2 + (2 + (2 * y)) <= n /\ p3 + (1 + z) <= n
    BY <2>2
  <2> QED
    BY <2>1, <2>3
<1> QED
  BY <1>1, <1>2, <1>4, Zenon DEF FieldsFit

Tracked(h) ==
    TypeInv /\ Sendable(h) /\ FieldsAt(buf, h) /\ FieldsFit(h) /\ Carried(buf, h)
        /\ OnTrack(h)

LEMMA TrackHeader ==
    ASSUME NEW h, Tracked(h), Header
    PROVE  OnTrack(h)'
<1>1. buf \in Seq(Nat) /\ at = "header" /\ Len(buf) \in Nat
  BY DEF Tracked, TypeInv, TypeOK, Header
<1>2. PICK s \in Nat : s = Start(buf) /\ s = RecordHeader(buf) + 4
  BY DEF Tracked, FieldsAt, Start
<1>3. PICK n \in Nat : n = Len(Body(h)) /\ s + n <= Len(buf) /\ 34 <= n
  <2>1. Len(Body(h)) \in Nat /\ s + Len(Body(h)) <= Len(buf)
    BY <1>2 DEF Tracked, FieldsAt
  <2>2. 34 <= Len(Body(h))
    BY DEF Tracked, FieldsFit
  <2> QED
    BY <2>1, <2>2
<1>4. Byte(buf, s - 4) = 1 /\ U24(buf, s - 3) = n
  <2>1. Byte(buf, s - 4) = 1 /\ U24(buf, (s - 4) + 1) = n
    BY <1>2, <1>3 DEF Tracked, Carried, HandshakeAt
  <2>2. (s - 4) + 1 = s - 3
    BY <1>2
  <2> QED
    BY <2>1, <2>2
<1>5. ~BadHeader(s, s + n)
  <2>1. s <= Len(buf) /\ s + 2 + RandomLen <= s + n
    BY ONLY <1>3, <1>1, s \in Nat, n \in Nat DEF RandomLen
  <2> QED
    BY <1>1, <1>3, <1>4, <2>1 DEF BadHeader, Overruns, RandomLen
<1>6. at' = "session" /\ o' = s + 2 + RandomLen /\ bodyEnd' = s + n /\ buf' = buf
  BY <1>2, <1>4, <1>5 DEF Header, Advance
<1>7. s + 2 + RandomLen = s + 34
  BY <1>2 DEF RandomLen
<1> QED
  BY <1>2, <1>3, <1>6, <1>7 DEF OnTrack, Start

LEMMA TrackSessionId ==
    ASSUME NEW h, Tracked(h), SessionId
    PROVE  OnTrack(h)'
<1>1. PICK s \in Nat : s = Start(buf)
  BY DEF Tracked, FieldsAt
<1>2. PICK n \in Nat, x \in Nat : n = Len(Body(h)) /\ x = Len(h.sessionId) /\ 35 + x <= n
  <2>1. Len(Body(h)) \in Nat /\ Len(h.sessionId) \in Nat
    BY DEF Tracked, FieldsAt, FieldsFit
  <2>2. 35 + Len(h.sessionId) <= Len(Body(h))
    BY DEF Tracked, FieldsFit
  <2> QED
    BY <2>1, <2>2
<1>3. o = s + 34 /\ bodyEnd = s + n /\ at = "session"
  BY <1>1, <1>2 DEF Tracked, OnTrack, SessionId
<1>4. Byte(buf, o) = x
  BY <1>1, <1>2, <1>3 DEF Tracked, FieldsAt
<1>5. ~Overruns(o + 1 + x, bodyEnd)
  <2>1. o + 1 + x \in Nat /\ bodyEnd \in Nat /\ o + 1 + x <= bodyEnd
    <3>1. PICK q \in Nat, e \in Nat : q = o /\ e = bodyEnd
      BY <1>1, <1>2, <1>3
    <3>2. q = s + 34 /\ e = s + n /\ 35 + x <= n
      BY <1>2, <1>3, <3>1
    <3>3. q + 1 + x <= e
      BY ONLY s \in Nat, n \in Nat, x \in Nat, q \in Nat, e \in Nat, <3>2
    <3> QED
      BY <3>1, <3>3
  <2> QED
    BY <2>1 DEF Overruns
<1>6. at' = "ciphers" /\ o' = o + 1 + x /\ bodyEnd' = bodyEnd /\ buf' = buf
  BY <1>4, <1>5 DEF SessionId, Advance
<1>7. o' = s + (35 + x)
  BY <1>3, <1>6
<1> QED
  BY <1>1, <1>2, <1>3, <1>6, <1>7 DEF OnTrack, Start, SuitesAt

LEMMA TrackCipherSuites ==
    ASSUME NEW h, Tracked(h), CipherSuites
    PROVE  OnTrack(h)'
<1>1. PICK s \in Nat : s = Start(buf)
  BY DEF Tracked, FieldsAt
<1>2. PICK n \in Nat, p \in Nat, x \in Nat :
         n = Len(Body(h)) /\ p = SuitesAt(h) /\ x = Len(h.suites) /\ p + (2 + (2 * x)) <= n
  <2>1. Len(Body(h)) \in Nat /\ SuitesAt(h) \in Nat /\ Len(h.suites) \in Nat
    BY DEF Tracked, FieldsAt, FieldsFit
  <2>2. SuitesAt(h) + (2 + (2 * Len(h.suites))) <= Len(Body(h))
    BY DEF Tracked, FieldsFit
  <2> QED
    BY <2>1, <2>2
<1>3. o = s + p /\ bodyEnd = s + n /\ at = "ciphers"
  BY <1>1, <1>2 DEF Tracked, OnTrack, CipherSuites
<1>4. U16(buf, o) = 2 * x
  BY <1>1, <1>2, <1>3 DEF Tracked, FieldsAt
<1>5. ~Overruns(o + 2, bodyEnd) /\ ~Overruns(o + 2 + (2 * x), bodyEnd) /\ (2 * x) % 2 = 0
  <2>1. /\ o + 2 \in Nat /\ o + 2 + (2 * x) \in Nat /\ bodyEnd \in Nat
        /\ o + 2 <= bodyEnd /\ o + 2 + (2 * x) <= bodyEnd
    <3>1. PICK q \in Nat, e \in Nat : q = o /\ e = bodyEnd
      BY <1>1, <1>2, <1>3
    <3>2. q = s + p /\ e = s + n /\ p + (2 + (2 * x)) <= n
      BY <1>2, <1>3, <3>1
    <3>3. q + 2 <= e /\ q + 2 + (2 * x) <= e
      BY ONLY <3>2, s \in Nat, n \in Nat, p \in Nat, x \in Nat, q \in Nat, e \in Nat
    <3> QED
      BY <3>1, <3>3
  <2>2. (2 * x) % 2 = 0
    BY ONLY x \in Nat
  <2> QED
    BY <2>1, <2>2 DEF Overruns
<1>6. at' = "compression" /\ o' = o + 2 + (2 * x) /\ bodyEnd' = bodyEnd /\ buf' = buf
  BY <1>4, <1>5 DEF CipherSuites, Advance
<1>7. o' = s + (p + (2 + (2 * x)))
  BY <1>3, <1>6
<1> QED
  BY <1>1, <1>2, <1>3, <1>6, <1>7 DEF OnTrack, Start, MethodsAt

LEMMA TrackCompressionMethods ==
    ASSUME NEW h, Tracked(h), CompressionMethods
    PROVE  OnTrack(h)'
<1>1. PICK s \in Nat : s = Start(buf)
  BY DEF Tracked, FieldsAt
<1>2. PICK n \in Nat, p \in Nat, x \in Nat :
         n = Len(Body(h)) /\ p = MethodsAt(h) /\ x = Len(h.methods) /\ p + (1 + x) <= n
  <2>1. Len(Body(h)) \in Nat /\ MethodsAt(h) \in Nat /\ Len(h.methods) \in Nat
    BY DEF Tracked, FieldsAt, FieldsFit
  <2>2. MethodsAt(h) + (1 + Len(h.methods)) <= Len(Body(h))
    BY DEF Tracked, FieldsFit
  <2> QED
    BY <2>1, <2>2
<1>3. o = s + p /\ bodyEnd = s + n /\ at = "compression"
  BY <1>1, <1>2 DEF Tracked, OnTrack, CompressionMethods
<1>4. Byte(buf, o) = x
  BY <1>1, <1>2, <1>3 DEF Tracked, FieldsAt
<1>5. ~Overruns(o + 1 + x, bodyEnd)
  <2>1. o + 1 + x \in Nat /\ bodyEnd \in Nat /\ o + 1 + x <= bodyEnd
    <3>1. PICK q \in Nat, e \in Nat : q = o /\ e = bodyEnd
      BY <1>1, <1>2, <1>3
    <3>2. q = s + p /\ e = s + n /\ p + (1 + x) <= n
      BY <1>2, <1>3, <3>1
    <3>3. q + 1 + x <= e
      BY ONLY s \in Nat, n \in Nat, p \in Nat, x \in Nat, q \in Nat, e \in Nat, <3>2
    <3> QED
      BY <3>1, <3>3
  <2> QED
    BY <2>1 DEF Overruns
<1>6. at' = "block" /\ o' = o + 1 + x /\ bodyEnd' = bodyEnd /\ buf' = buf
  BY <1>4, <1>5 DEF CompressionMethods, Advance
<1>7. o' = s + (p + (1 + x))
  BY <1>3, <1>6
<1> QED
  BY <1>1, <1>2, <1>3, <1>6, <1>7 DEF OnTrack, Start, BlockStart

LEMMA TrackNoBlock ==
    ASSUME NEW h, Tracked(h), NoBlock
    PROVE  OnTrack(h)'
BY DEF NoBlock, Advance, Tracked, OnTrack, Start

LEMMA TrackExtensionBlock ==
    ASSUME NEW h, Tracked(h), ExtensionBlock
    PROVE  OnTrack(h)'
<1>1. PICK s \in Nat, n \in Nat, p \in Nat : s = Start(buf) /\ n = Len(Body(h)) /\ p = BlockStart(h)
  BY DEF Tracked, FieldsAt
<1>2. o = s + p /\ bodyEnd = s + n /\ at = "block" /\ o + 2 <= bodyEnd
  BY <1>1 DEF Tracked, OnTrack, ExtensionBlock
<1>3. h.extensible
  <2>1. p + 2 <= n
    BY <1>2
  <2>2. ~h.extensible => n = p
    BY <1>1 DEF Tracked, FieldsAt
  <2>3. p # n
    BY <2>1
  <2> QED
    BY <2>2, <2>3
<1>4. PICK x \in Nat : x = Len(Extensions(h.extensions)) /\ n = p + 2 + x /\ U16(buf, o) = x
  <2>1. Len(Extensions(h.extensions)) \in Nat
    BY HelloLaidOut, Zenon DEF LaidOut, Tracked
  <2>2. /\ U16(buf, s + p) = Len(Extensions(h.extensions))
        /\ n = p + 2 + Len(Extensions(h.extensions))
    BY <1>1, <1>3 DEF Tracked, FieldsAt
  <2> QED
    BY <1>2, <2>1, <2>2
<1>5. ~Overruns(o + 2 + x, bodyEnd)
  BY <1>2, <1>4 DEF Overruns
<1>6. /\ at' = "extension" /\ o' = o + 2 /\ extEnd' = o + 2 + x
      /\ bodyEnd' = bodyEnd /\ buf' = buf
  BY <1>4, <1>5 DEF ExtensionBlock, Advance
<1>7. o' = s + p + 2 + 0 /\ extEnd' = s + n
  BY <1>2, <1>4, <1>6
<1>8. 0 \in 0 .. Len(h.extensions) /\ Len(First(h.extensions, 0)) = 0
  <2>1. Len(h.extensions) \in Nat
    BY DEF Tracked, Sendable
  <2>2. SubSeq(h.extensions, 1, 0) = <<>>
    BY SubSeqEmpty
  <2>3. Extensions(<<>>) = <<>>
    <3>1. [k \in DOMAIN <<>> |-> Bytes16(<<>>[k].type) \o Vector16(<<>>[k].data)] = <<>>
      OBVIOUS
    <3> QED
      BY <3>1, FlattenEmpty DEF Extensions
  <2>4. First(h.extensions, 0) = <<>>
    BY <2>2, <2>3, Zenon DEF First
  <2> QED
    BY <2>1, <2>4
<1> QED
  BY <1>1, <1>2, <1>3, <1>6, <1>7, <1>8 DEF OnTrack, Start

LEMMA TrackNextExtension ==
    ASSUME NEW h, Tracked(h), NextExtension
    PROVE  OnTrack(h)'
<1>1. PICK s \in Nat, n \in Nat, p \in Nat : s = Start(buf) /\ n = Len(Body(h)) /\ p = BlockStart(h)
  BY DEF Tracked, FieldsAt
<1>2. /\ at = "extension" /\ h.extensible /\ bodyEnd = s + n /\ extEnd = s + n
      /\ o + 4 <= extEnd
  BY <1>1 DEF Tracked, OnTrack, NextExtension, MoreExtensions
<1>3. PICK i \in Nat, x \in Nat : i = s + p + 2 /\ x = Len(Extensions(h.extensions)) /\ i + x = s + n
  <2>1. Len(Extensions(h.extensions)) \in Nat
    BY HelloLaidOut, Zenon DEF LaidOut, Tracked
  <2>2. n = p + 2 + Len(Extensions(h.extensions))
    BY <1>1, <1>2 DEF Tracked, FieldsAt
  <2>3. PICK i \in Nat, x \in Nat : i = s + p + 2 /\ x = Len(Extensions(h.extensions))
    <3>1. s + p + 2 \in Nat
      OBVIOUS
    <3> QED
      BY <2>1, <3>1, Zenon
  <2>4. i + x = s + n
    BY <2>2, <2>3
  <2> QED
    BY <2>3, <2>4
<1>4. PICK es \in Seq(ExtensionTypes) : es = h.extensions
  BY SendableTypes DEF Tracked, ExtensionTypes
<1>5. PICK l \in Nat : l = Len(es)
  OBVIOUS
<1>6. PICK k \in Nat : k <= l /\ o = i + Len(First(es, k))
  <2>1. \E k \in 0 .. Len(es) : o = s + p + 2 + Len(First(es, k))
    BY <1>1, <1>2, <1>4 DEF Tracked, OnTrack
  <2> QED
    BY <1>3, <1>5, <2>1
<1>7. \A j \in 0 .. l : FirstLie(buf, i, es, j)
  <2>1. buf \in Seq(Int)
    BY DEF Tracked, TypeInv, TypeOK
  <2>2. Between(buf, i, i + x) = Extensions(es) /\ i + x <= Len(buf)
    BY <1>1, <1>2, <1>3, <1>4 DEF Tracked, FieldsAt
  <2> QED
    BY <1>3, <1>4, <1>5, <2>1, <2>2, AllFirstLie
<1>8. k + 1 <= l
  <2>1. PICK y \in Nat : y = Len(First(es, k))
    <3>1. FirstLie(buf, i, es, k)
      BY <1>5, <1>6, <1>7
    <3> QED
      BY <3>1 DEF FirstLie
  <2>2. First(es, Len(es)) = Extensions(es)
    <3>1. SubSeq(es, 1, Len(es)) = es
      BY SubSeqFull
    <3> QED
      BY <3>1, Zenon DEF First
  <2>3. i + y + 4 <= i + x
    BY <1>2, <1>3, <1>6, <2>1
  <2>4. y # x
    BY <2>3
  <2>5. k # l
    BY <1>3, <1>4, <1>5, <2>1, <2>2, <2>4
  <2> QED
    BY <1>5, <1>6, <2>5
<1>9. FirstLie(buf, i, es, k + 1) /\ NextLies(buf, i, es, k)
  <2>1. k + 1 \in 0 .. l /\ k + 1 <= Len(es)
    BY <1>5, <1>8
  <2>2. FirstLie(buf, i, es, k + 1)
    BY <1>7, <2>1
  <2>3. buf \in Seq(Int) /\ Len(Extensions(es)) \in Nat
    BY <1>3, <1>4 DEF Tracked, TypeInv, TypeOK
  <2>4. StepsDown(buf, i, es, k)
    BY <2>1, <2>2, <2>3, StepDown, Zenon
  <2> QED
    BY <2>2, <2>4 DEF StepsDown
<1>10. PICK y \in Nat, z \in Nat, d \in Nat :
          /\ y = Len(First(es, k)) /\ z = Len(First(es, k + 1)) /\ o = i + y
          /\ U16(buf, o + 2) = d /\ i + z = o + 4 + d /\ z <= x
  <2>1. Len(First(es, k + 1)) \in Nat /\ Len(First(es, k + 1)) <= x
    BY <1>3, <1>4, <1>9 DEF FirstLie
  <2>2. FirstLie(buf, i, es, k)
    BY <1>6, <1>7
  <2>3. Len(First(es, k)) \in Nat
    BY <2>2 DEF FirstLie
  <2>4. PICK d \in Nat : d = Len(es[k + 1].data)
    BY <1>9 DEF NextLies
  <2>5. U16(buf, o + 2) = d /\ i + Len(First(es, k + 1)) = o + 4 + d
    BY <1>6, <1>9, <2>4 DEF NextLies
  <2> QED
    BY <1>6, <2>1, <2>3, <2>5
<1>11. ~Overruns(o + 4 + d, extEnd)
  <2>1. i + z \in Nat /\ i + x \in Nat /\ i + z <= i + x
    BY <1>10
  <2> QED
    BY <1>2, <1>3, <1>10, <2>1 DEF Overruns
<1>12. /\ at' = "extension" /\ o' = o + 4 + d /\ bodyEnd' = bodyEnd /\ extEnd' = extEnd
       /\ buf' = buf
  BY <1>10, <1>11 DEF NextExtension, Advance
<1>13. k + 1 \in 0 .. Len(h.extensions) /\ o' = s + p + 2 + Len(First(h.extensions, k + 1))
  BY <1>3, <1>4, <1>5, <1>8, <1>10, <1>12
<1> QED
  BY <1>1, <1>2, <1>12, <1>13 DEF OnTrack, Start

LEMMA TrackEndOfBlock ==
    ASSUME NEW h, Tracked(h), EndOfBlock
    PROVE  OnTrack(h)'
BY DEF EndOfBlock, Advance, Tracked, OnTrack, Start

LEMMA TrackReadsPastEnd ==
    ASSUME NEW h, Tracked(h), ReadsPastEnd
    PROVE  OnTrack(h)'
BY DEF ReadsPastEnd, Tracked, OnTrack, Start

LEMMA TrackStep == TypeInv /\ KeepsTrack /\ [Next]_parserVars => KeepsTrack'
<1> SUFFICES ASSUME TypeInv, KeepsTrack, [Next]_parserVars,
                    NEW h \in Hellos, Carried(buf', h)
             PROVE  OnTrack(h)'
  BY DEF KeepsTrack
<1>1. buf' = buf
  BY DEF Next, Header, SessionId, CipherSuites, CompressionMethods, NoBlock, ExtensionBlock,
     NextExtension, EndOfBlock, ReadsPastEnd, Reject, Advance, parserVars
<1>2. Sendable(h) /\ Carried(buf, h) /\ OnTrack(h)
  BY <1>1, HelloAssumption DEF KeepsTrack
<1>3. Tracked(h)
  <2>1. buf \in Seq(Int) /\ RecordHeader(buf) \in Nat
    BY RecordHeaderIsNat DEF TypeInv, TypeOK
  <2>2. FieldsAt(buf, h)
    BY <1>2, <2>1, CarriedFields
  <2> QED
    BY <1>2, <2>2, FieldsDoFit DEF Tracked
<1>4. CASE Header
  BY <1>3, <1>4, TrackHeader
<1>5. CASE SessionId
  BY <1>3, <1>5, TrackSessionId
<1>6. CASE CipherSuites
  BY <1>3, <1>6, TrackCipherSuites
<1>7. CASE CompressionMethods
  BY <1>3, <1>7, TrackCompressionMethods
<1>8. CASE NoBlock
  BY <1>3, <1>8, TrackNoBlock
<1>9. CASE ExtensionBlock
  BY <1>3, <1>9, TrackExtensionBlock
<1>10. CASE NextExtension
  BY <1>3, <1>10, TrackNextExtension
<1>11. CASE EndOfBlock
  BY <1>3, <1>11, TrackEndOfBlock
<1>12. CASE ReadsPastEnd
  BY <1>3, <1>12, TrackReadsPastEnd
<1>13. CASE UNCHANGED parserVars
  BY <1>2, <1>13 DEF OnTrack, Start, parserVars
<1> QED
  BY <1>4, <1>5, <1>6, <1>7, <1>8, <1>9, <1>10, <1>11, <1>12, <1>13 DEF Next

(***************************************************************************)
(* parseClientHello() never throws on a message a client has put together, *)
(* whatever its fields hold, in a record or bare, and whatever follows it. *)
(***************************************************************************)
THEOREM IntactIsAccepted == Spec => []IntactAccepted
<1>1. Init => TypeInv /\ KeepsTrack
  <2>1. Init => KeepsTrack
    BY DEF Init, KeepsTrack, OnTrack
  <2> QED
    BY <2>1, TypeInit
<1>2. (TypeInv /\ KeepsTrack) /\ [Next]_parserVars => (TypeInv /\ KeepsTrack)'
  BY TypeStep, TrackStep
<1>3. TypeInv /\ KeepsTrack => IntactAccepted
  <2> SUFFICES ASSUME TypeInv, KeepsTrack, at = "rejected",
                      NEW m \in Messages, IsPrefix(m, buf)
               PROVE  FALSE
    BY DEF IntactAccepted
  <2>1. buf \in Seq(Int)
    BY DEF TypeInv, TypeOK
  <2>2. PICK h \in Hellos : Carried(buf, h)
    BY <2>1, MessageCarried
  <2> QED
    BY <2>2 DEF KeepsTrack, OnTrack
<1> QED
  BY <1>1, <1>2, <1>3, PTL DEF Spec

-----------------------------------------------------------------------------
(***************************************************************************)
(* Where the parts of a hello lie in a buffer, by the lengths found there, *)
(* and the places of the extensions: the first n begin at c[0] to          *)
(* c[n - 1], and c[n] is where the next would begin.                       *)
(***************************************************************************)
SessionPlace(b) == Start(b) + 34

SuitesPlace(b) == SessionPlace(b) + 1 + Byte(b, SessionPlace(b))

MethodsPlace(b) == SuitesPlace(b) + 2 + U16(b, SuitesPlace(b))

BlockPlace(b) == MethodsPlace(b) + 1 + Byte(b, MethodsPlace(b))

BodyLimit(b) == Start(b) + U24(b, Start(b) - 3)

BlockLimit(b) == BlockPlace(b) + 2 + U16(b, BlockPlace(b))

HasBlock(b) == BlockPlace(b) + 2 <= BodyLimit(b)

Chain(b, c, n) ==
    /\ n \in Nat /\ c \in [0 .. n -> Nat]
    /\ c[0] = BlockPlace(b) + 2
    /\ \A k \in 1 .. n : /\ c[k - 1] + 4 <= BlockLimit(b)
                         /\ c[k] = c[k - 1] + 4 + U16(b, c[k - 1] + 2)

PlacesAreNats(b) ==
    /\ Start(b) \in Nat /\ SessionPlace(b) \in Nat /\ SuitesPlace(b) \in Nat
    /\ MethodsPlace(b) \in Nat /\ BlockPlace(b) \in Nat
    /\ BodyLimit(b) \in Nat /\ BlockLimit(b) \in Nat

LEMMA PlacesInBuffer ==
  ASSUME NEW b \in Seq(Nat)
  PROVE  PlacesAreNats(b)
<1>1. PICK header \in Nat : header = RecordHeader(b)
  BY RecordHeaderIsNat
<1>2. PICK start \in Nat : start = Start(b) /\ start = header + 4
  BY <1>1 DEF Start
<1>3. PICK session \in Nat : session = SessionPlace(b)
  BY <1>2 DEF SessionPlace
<1>4. PICK suites \in Nat : suites = SuitesPlace(b)
  <2>1. PICK x \in Nat : x = Byte(b, session)
    BY ByteIsNat
  <2> QED
    BY <1>3, <2>1 DEF SuitesPlace
<1>5. PICK methods \in Nat : methods = MethodsPlace(b)
  <2>1. PICK x \in Nat : x = U16(b, suites)
    BY U16IsNat
  <2> QED
    BY <1>4, <2>1 DEF MethodsPlace
<1>6. PICK block \in Nat : block = BlockPlace(b)
  <2>1. PICK x \in Nat : x = Byte(b, methods)
    BY ByteIsNat
  <2> QED
    BY <1>5, <2>1 DEF BlockPlace
<1>7. BodyLimit(b) \in Nat
  <2>1. PICK x \in Nat : x = U24(b, header + 1)
    <3>1. header + 1 \in Nat
      OBVIOUS
    <3> QED
      BY <3>1, U24IsNat
  <2>2. start - 3 = header + 1
    BY <1>2
  <2> QED
    BY <1>2, <2>1, <2>2 DEF BodyLimit
<1>8. BlockLimit(b) \in Nat
  <2>1. PICK x \in Nat : x = U16(b, block)
    BY U16IsNat
  <2> QED
    BY <1>6, <2>1 DEF BlockLimit
<1> QED
  BY <1>2, <1>3, <1>4, <1>5, <1>6, <1>7, <1>8, Zenon DEF PlacesAreNats

LEMMA ChainStarts ==
  ASSUME NEW b \in Seq(Nat)
  PROVE  \E c : Chain(b, c, 0) /\ c[0] = BlockPlace(b) + 2
<1>1. PICK p \in Nat : p = BlockPlace(b) + 2
  BY PlacesInBuffer DEF PlacesAreNats
<1>2. PICK c : c = [k \in 0 .. 0 |-> p]
  OBVIOUS
<1>3. c \in [0 .. 0 -> Nat] /\ c[0] = p
  BY <1>2
<1> QED
  BY <1>1, <1>3 DEF Chain

ChainContinues(b, c, d, n) ==
    /\ Chain(b, d, n + 1) /\ \A k \in 0 .. n : d[k] = c[k]
    /\ d[n + 1] = c[n] + 4 + U16(b, c[n] + 2)

LEMMA ChainGrows ==
  ASSUME NEW b \in Seq(Nat), NEW n, NEW c, Chain(b, c, n), c[n] + 4 <= BlockLimit(b)
  PROVE  \E d : ChainContinues(b, c, d, n)
<1>1. n \in Nat /\ c \in [0 .. n -> Nat] /\ c[n] \in Nat /\ n + 1 \in Nat
  BY DEF Chain
<1>2. PICK p \in Nat : p = c[n] + 4 + U16(b, c[n] + 2)
  <2>1. c[n] + 2 \in Nat
    BY <1>1
  <2>2. U16(b, c[n] + 2) \in Nat
    BY <2>1, U16IsNat
  <2> QED
    BY <1>1, <2>2
<1>3. PICK d : d = [k \in 0 .. n + 1 |-> IF k = n + 1 THEN p ELSE c[k]]
  OBVIOUS
<1>4. /\ d \in [0 .. n + 1 -> Nat] /\ d[n + 1] = p
      /\ \A k \in 0 .. n : d[k] = c[k]
  BY <1>1, <1>3
<1>5. d[0] = BlockPlace(b) + 2
  BY <1>1, <1>4 DEF Chain
<1>6. ASSUME NEW k \in 1 .. n + 1
      PROVE  /\ d[k - 1] + 4 <= BlockLimit(b)
             /\ d[k] = d[k - 1] + 4 + U16(b, d[k - 1] + 2)
  <2>1. k - 1 \in 0 .. n /\ (k = n + 1 \/ k \in 1 .. n)
    BY <1>1
  <2>2. d[k - 1] = c[k - 1]
    BY <1>4, <2>1
  <2>3. CASE k = n + 1
    <3>1. d[k - 1] = c[n] /\ d[k] = p
      BY <1>1, <1>4, <2>2, <2>3
    <3> QED
      BY <1>2, <3>1
  <2>4. CASE k \in 1 .. n
    <3>1. d[k] = c[k]
      BY <1>4, <2>4
    <3> QED
      BY <2>2, <2>4, <3>1 DEF Chain
  <2> QED
    BY <2>1, <2>3, <2>4
<1> QED
  BY <1>1, <1>2, <1>4, <1>5, <1>6 DEF Chain, ChainContinues

LEMMA ChainsAgree ==
  ASSUME NEW b, NEW n, NEW c, Chain(b, c, n), NEW m, NEW d, Chain(b, d, m), n <= m
  PROVE  \A k \in 0 .. n : c[k] = d[k]
<1> DEFINE A == {k \in Nat : k <= n => c[k] = d[k]}
<1>1. n \in Nat /\ m \in Nat
  BY DEF Chain
<1>2. 0 \in A
  BY <1>1 DEF Chain
<1>3. ASSUME NEW k \in Nat, k \in A PROVE k + 1 \in A
  <2> SUFFICES ASSUME k + 1 <= n PROVE c[k + 1] = d[k + 1]
    OBVIOUS
  <2>1. PICK j \in Nat : j = k + 1 /\ j \in 1 .. n /\ j \in 1 .. m /\ j - 1 = k
    BY <1>1
  <2>2. c[k] = d[k]
    BY <1>1, <1>3, <2>1
  <2>3. c[j] = c[k] + 4 + U16(b, c[k] + 2) /\ d[j] = d[k] + 4 + U16(b, d[k] + 2)
    BY <2>1 DEF Chain
  <2> QED
    BY <2>1, <2>2, <2>3
<1> HIDE DEF A
<1>4. \A k \in Nat : k \in A
  BY <1>2, <1>3, SetInduction
<1> QED
  BY <1>1, <1>4 DEF A

\* Behind the last extension there is no room for another one.
Complete(b, c, n) == Chain(b, c, n) /\ c[n] + 4 > BlockLimit(b)

LEMMA CompleteAgree ==
  ASSUME NEW b \in Seq(Nat), NEW n, NEW c, Complete(b, c, n), NEW m, NEW d, Complete(b, d, m)
  PROVE  n = m /\ c = d
<1>1. n \in Nat /\ m \in Nat /\ c \in [0 .. n -> Nat] /\ d \in [0 .. m -> Nat]
      /\ BlockLimit(b) \in Nat
  BY PlacesInBuffer DEF Complete, Chain, PlacesAreNats
<1>2. ASSUME NEW i, NEW x, Complete(b, x, i), NEW j, NEW y, Complete(b, y, j)
      PROVE  ~(i < j)
  <2> SUFFICES ASSUME i < j PROVE FALSE
    OBVIOUS
  <2>1. i \in Nat /\ j \in Nat /\ BlockLimit(b) \in Nat /\ y \in [0 .. j -> Nat]
    BY <1>2, PlacesInBuffer DEF Complete, Chain, PlacesAreNats
  <2>2. i <= j /\ i \in 0 .. i /\ i \in 0 .. j /\ i + 1 \in 1 .. j /\ (i + 1) - 1 = i
    BY <2>1
  <2>3. x[i] = y[i]
    <3>1. Chain(b, x, i) /\ Chain(b, y, j)
      BY <1>2 DEF Complete
    <3>2. \A k \in 0 .. i : x[k] = y[k]
      BY <2>2, <3>1, ChainsAgree
    <3> QED
      BY <2>2, <3>2
  <2>4. y[i] + 4 <= BlockLimit(b)
    BY <1>2, <2>2 DEF Complete, Chain
  <2>5. x[i] + 4 > BlockLimit(b) /\ y[i] \in Nat
    BY <1>2, <2>1, <2>2 DEF Complete
  <2> QED
    BY <2>1, <2>3, <2>4, <2>5
<1>3. n = m
  <2>1. ~(n < m) /\ ~(m < n)
    BY <1>2
  <2> QED
    BY <1>1, <2>1
<1>4. \A k \in 0 .. n : c[k] = d[k]
  <2>1. Chain(b, c, n) /\ Chain(b, d, m) /\ n <= m
    BY <1>1, <1>3 DEF Complete
  <2> QED
    BY <2>1, ChainsAgree
<1> QED
  BY <1>1, <1>3, <1>4


SuitesRead(b) == U16List(b, SuitesPlace(b) + 2, U16(b, SuitesPlace(b)))

HelloChain(c, n) ==
    /\ Chain(buf, c, n) /\ Len(hello.extensions) = n
    /\ \A k \in 1 .. n : hello.extensions[k].type = U16(buf, c[k - 1])

(***************************************************************************)
(* parseClientHello() of the e2e tests has read its fields at their places.*)
(***************************************************************************)
HelloWalks ==
    /\ at = "header" => ~lost
    /\ at \in Fields => ~lost
    /\ at \in Fields \ {"extension"} => hello.extensions = <<>>
    /\ at \notin {"header", "rejected"} /\ ~lost =>
          hello.version = U16(buf, Start(buf)) /\ bodyEnd = BodyLimit(buf)
    /\ at = "session" => o = SessionPlace(buf)
    /\ at = "ciphers" => o = SuitesPlace(buf)
    /\ at = "compression" => o = MethodsPlace(buf)
    /\ at = "block" => o = BlockPlace(buf)
    /\ at \in {"compression", "block", "extension", "accepted"} /\ ~lost =>
          hello.suites = SuitesRead(buf)
    /\ at = "extension" =>
          /\ HasBlock(buf) /\ extEnd = BlockLimit(buf)
          /\ \E n, c : HelloChain(c, n) /\ o = c[n]
    /\ at = "accepted" /\ ~lost =>
          IF HasBlock(buf) THEN \E n, c : HelloChain(c, n) /\ Complete(buf, c, n)
          ELSE hello.extensions = <<>>

LEMMA HelloWalksHeader == TypeInv /\ HelloWalks /\ Header => HelloWalks'
<1> SUFFICES ASSUME TypeInv, HelloWalks, Header PROVE HelloWalks'
  OBVIOUS
<1> DEFINE body == RecordHeader(buf) + 4
           end == body + U24(buf, body - 3)
           next == body + 2 + RandomLen
<1>1. CASE BadHeader(body, end)
  BY <1>1 DEF Header, Reject, HelloWalks, Fields
<1>2. CASE ~BadHeader(body, end)
  <2>1. /\ at = "header" /\ at' = "session" /\ o' = next /\ bodyEnd' = end
        /\ hello' = [hello EXCEPT !.version = U16(buf, body),
                                  !.random = Slice(buf, body + 2, next)]
        /\ UNCHANGED <<buf, lost, extEnd>>
    BY <1>2 DEF Header, Advance
  <2>2. hello \in ParsedHello
    BY DEF TypeInv, TypeOK
  <2>3. hello'.version = U16(buf, body) /\ hello'.extensions = hello.extensions
    <3> HIDE DEF body, next
    <3> QED
      BY <2>1, <2>2 DEF ParsedHello
  <2>4. body = Start(buf) /\ end = BodyLimit(buf)
    BY DEF Start, BodyLimit
  <2>5. next = SessionPlace(buf)
    <3>1. Start(buf) \in Nat
      BY PlacesInBuffer DEF TypeInv, TypeOK, PlacesAreNats
    <3>2. next = (Start(buf) + 2) + 32
      BY <2>4 DEF RandomLen
    <3> QED
      BY <3>1, <3>2 DEF SessionPlace
  <2> HIDE DEF body, end, next
  <2> QED
    BY <2>1, <2>3, <2>4, <2>5 DEF HelloWalks, Fields
<1> QED
  BY <1>1, <1>2

LEMMA HelloWalksSessionId == TypeInv /\ HelloWalks /\ SessionId => HelloWalks'
<1> SUFFICES ASSUME TypeInv, HelloWalks, SessionId PROVE HelloWalks'
  OBVIOUS
<1> DEFINE end == o + 1 + Byte(buf, o)
<1>1. CASE Overruns(end, bodyEnd)
  BY <1>1 DEF SessionId, Reject, HelloWalks, Fields
<1>2. CASE ~Overruns(end, bodyEnd)
  <2>1. /\ at = "session" /\ at' = "ciphers" /\ o' = end
        /\ hello' = [hello EXCEPT !.sessionId = Slice(buf, o + 1, end)]
        /\ UNCHANGED <<buf, lost, bodyEnd, extEnd>>
    BY <1>2 DEF SessionId, Advance
  <2>2. hello'.version = hello.version /\ hello'.extensions = hello.extensions
    <3> HIDE DEF end
    <3> QED
      BY <2>1 DEF TypeInv, TypeOK, ParsedHello
  <2>3. end = SuitesPlace(buf)
    BY <2>1 DEF HelloWalks, SuitesPlace
  <2> HIDE DEF end
  <2> QED
    BY <2>1, <2>2, <2>3 DEF HelloWalks, Fields
<1> QED
  BY <1>1, <1>2

LEMMA HelloWalksCipherSuites == TypeInv /\ HelloWalks /\ CipherSuites => HelloWalks'
<1> SUFFICES ASSUME TypeInv, HelloWalks, CipherSuites PROVE HelloWalks'
  OBVIOUS
<1> DEFINE len == U16(buf, o)
           end == o + 2 + len
<1>1. CASE Overruns(o + 2, bodyEnd) \/ Overruns(end, bodyEnd) \/ len % 2 # 0
  BY <1>1 DEF CipherSuites, Reject, HelloWalks, Fields
<1>2. CASE ~(Overruns(o + 2, bodyEnd) \/ Overruns(end, bodyEnd) \/ len % 2 # 0)
  <2>1. /\ at = "ciphers" /\ at' = "compression" /\ o' = end
        /\ hello' = [hello EXCEPT !.suites = U16List(buf, o + 2, len)]
        /\ UNCHANGED <<buf, lost, bodyEnd, extEnd>>
    BY <1>2 DEF CipherSuites, Advance
  <2>2. /\ hello'.version = hello.version /\ hello'.extensions = hello.extensions
        /\ hello'.suites = U16List(buf, o + 2, len)
    <3> HIDE DEF end, len
    <3> QED
      BY <2>1 DEF TypeInv, TypeOK, ParsedHello
  <2>3. end = MethodsPlace(buf) /\ U16List(buf, o + 2, len) = SuitesRead(buf)
    BY <2>1 DEF HelloWalks, MethodsPlace, SuitesRead
  <2> HIDE DEF end, len
  <2> QED
    BY <2>1, <2>2, <2>3 DEF HelloWalks, Fields
<1> QED
  BY <1>1, <1>2

LEMMA HelloWalksMethods == TypeInv /\ HelloWalks /\ CompressionMethods => HelloWalks'
<1> SUFFICES ASSUME TypeInv, HelloWalks, CompressionMethods PROVE HelloWalks'
  OBVIOUS
<1> DEFINE end == o + 1 + Byte(buf, o)
<1>1. CASE Overruns(end, bodyEnd)
  BY <1>1 DEF CompressionMethods, Reject, HelloWalks, Fields
<1>2. CASE ~Overruns(end, bodyEnd)
  <2>1. /\ at = "compression" /\ at' = "block" /\ o' = end
        /\ hello' = [hello EXCEPT !.methods = Slice(buf, o + 1, end)]
        /\ UNCHANGED <<buf, lost, bodyEnd, extEnd>>
    BY <1>2 DEF CompressionMethods, Advance
  <2>2. /\ hello'.version = hello.version /\ hello'.extensions = hello.extensions
        /\ hello'.suites = hello.suites
    <3> HIDE DEF end
    <3> QED
      BY <2>1 DEF TypeInv, TypeOK, ParsedHello
  <2>3. end = BlockPlace(buf)
    BY <2>1 DEF HelloWalks, BlockPlace
  <2> HIDE DEF end
  <2> QED
    BY <2>1, <2>2, <2>3 DEF HelloWalks, Fields
<1> QED
  BY <1>1, <1>2

LEMMA HelloWalksNoBlock == TypeInv /\ HelloWalks /\ NoBlock => HelloWalks'
<1> SUFFICES ASSUME TypeInv, HelloWalks, NoBlock PROVE HelloWalks'
  OBVIOUS
<1>1. /\ at = "block" /\ at' = "accepted" /\ o + 2 > bodyEnd
      /\ UNCHANGED <<buf, lost, bodyEnd, extEnd, hello, o>>
  BY DEF NoBlock, Advance
<1>2. ~HasBlock(buf)
  <2>1. o = BlockPlace(buf) /\ bodyEnd = BodyLimit(buf) /\ o \in Nat /\ bodyEnd \in Nat
    BY <1>1 DEF HelloWalks, Fields, TypeInv, TypeOK
  <2> QED
    BY <1>1, <2>1 DEF HasBlock
<1> QED
  BY <1>1, <1>2 DEF HelloWalks, Fields

LEMMA HelloWalksBlock == TypeInv /\ HelloWalks /\ ExtensionBlock => HelloWalks'
<1> SUFFICES ASSUME TypeInv, HelloWalks, ExtensionBlock PROVE HelloWalks'
  OBVIOUS
<1> DEFINE end == o + 2 + U16(buf, o)
<1>1. CASE Overruns(end, bodyEnd)
  BY <1>1 DEF ExtensionBlock, Reject, HelloWalks, Fields
<1>2. CASE ~Overruns(end, bodyEnd)
  <2>1. /\ at = "block" /\ at' = "extension" /\ o' = o + 2 /\ o + 2 <= bodyEnd
        /\ hello' = [hello EXCEPT !.extensible = TRUE]
        /\ extEnd' = end /\ UNCHANGED <<buf, lost, bodyEnd>>
    BY <1>2 DEF ExtensionBlock, Advance
  <2>2. /\ hello'.version = hello.version /\ hello'.extensions = hello.extensions
        /\ hello'.suites = hello.suites
    BY <2>1 DEF TypeInv, TypeOK, ParsedHello
  <2>3. /\ o = BlockPlace(buf) /\ bodyEnd = BodyLimit(buf) /\ ~lost
        /\ hello.extensions = <<>> /\ hello.suites = SuitesRead(buf)
        /\ hello.version = U16(buf, Start(buf))
    BY <2>1 DEF HelloWalks, Fields
  <2>4. end = BlockLimit(buf) /\ HasBlock(buf)
    BY <2>1, <2>3 DEF BlockLimit, HasBlock
  <2>5. \E c : Chain(buf, c, 0) /\ c[0] = BlockPlace(buf) + 2
    BY ChainStarts DEF TypeInv, TypeOK
  <2> HIDE DEF end
  <2>6. \E n, c : HelloChain(c, n)' /\ o' = c[n]
    <3>1. PICK c : Chain(buf, c, 0) /\ c[0] = BlockPlace(buf) + 2
      BY <2>5
    <3>2. HelloChain(c, 0)'
      BY <2>1, <2>2, <2>3, <3>1 DEF HelloChain
    <3> QED
      BY <2>1, <2>3, <3>1, <3>2
  <2> QED
    BY <2>1, <2>2, <2>3, <2>4, <2>6 DEF HelloWalks, Fields
<1> QED
  BY <1>1, <1>2

LEMMA HelloWalksExtension == TypeInv /\ HelloWalks /\ NextExtension => HelloWalks'
<1> SUFFICES ASSUME TypeInv, HelloWalks, NextExtension PROVE HelloWalks'
  OBVIOUS
<1> DEFINE end == o + 4 + U16(buf, o + 2)
<1>1. CASE Overruns(end, extEnd)
  BY <1>1 DEF NextExtension, MoreExtensions, Reject, HelloWalks, Fields
<1>2. CASE ~Overruns(end, extEnd)
  <2>1. /\ at = "extension" /\ at' = "extension" /\ o' = end /\ o + 4 <= extEnd
        /\ hello' = [hello EXCEPT !.extensions = Append(@, Extension(end))]
        /\ UNCHANGED <<buf, lost, bodyEnd, extEnd>>
    BY <1>2 DEF NextExtension, MoreExtensions, Advance
  <2>2. /\ hello'.version = hello.version /\ hello'.suites = hello.suites
        /\ hello'.extensions = Append(hello.extensions, Extension(end))
    <3> HIDE DEF end
    <3> QED
      BY <2>1 DEF TypeInv, TypeOK, ParsedHello
  <2>3. /\ bodyEnd = BodyLimit(buf) /\ extEnd = BlockLimit(buf) /\ HasBlock(buf) /\ ~lost
        /\ hello.suites = SuitesRead(buf) /\ hello.version = U16(buf, Start(buf))
    BY <2>1 DEF HelloWalks, Fields
  <2>4. PICK n, c : HelloChain(c, n) /\ o = c[n]
    BY <2>1 DEF HelloWalks
  <2>5. PICK d : ChainContinues(buf, c, d, n)
    <3>1. Chain(buf, c, n) /\ c[n] + 4 <= BlockLimit(buf) /\ buf \in Seq(Nat)
      BY <2>1, <2>3, <2>4 DEF HelloChain, TypeInv, TypeOK
    <3> QED
      BY <3>1, ChainGrows, Zenon
  <2>6. end = d[n + 1]
    BY <2>4, <2>5 DEF ChainContinues
  <2>7. Extension(end).type = U16(buf, o)
    BY DEF Extension
  <2> HIDE DEF end
  <2>8. HelloChain(d, n + 1)'
    <3>1. PICK es : es = hello.extensions /\ es \in Seq([type : Nat, data : Seq(Nat)])
      BY DEF TypeInv, TypeOK, ParsedHello
    <3>2. PICK x : x = Extension(end) /\ x.type = U16(buf, c[n])
      BY <2>4, <2>7
    <3>3. n \in Nat /\ Len(es) = n /\ \A k \in 1 .. n : es[k].type = U16(buf, c[k - 1])
      BY <2>4, <3>1 DEF HelloChain, Chain
    <3>4. /\ Len(Append(es, x)) = n + 1 /\ Append(es, x)[n + 1] = x
          /\ \A k \in 1 .. n : Append(es, x)[k] = es[k]
      BY <3>1, <3>3
    <3>5. ASSUME NEW k \in 1 .. n + 1 PROVE Append(es, x)[k].type = U16(buf, d[k - 1])
      <4>1. k - 1 \in 0 .. n /\ (k = n + 1 \/ k \in 1 .. n) /\ (k = n + 1 => k - 1 = n)
        BY <3>3
      <4>2. d[k - 1] = c[k - 1]
        BY <2>5, <4>1 DEF ChainContinues
      <4> QED
        BY <3>2, <3>3, <3>4, <4>1, <4>2
    <3>6. hello'.extensions = Append(es, x) /\ buf' = buf
      BY <2>1, <2>2, <3>1, <3>2
    <3> QED
      BY <2>5, <3>4, <3>5, <3>6 DEF HelloChain, ChainContinues
  <2>9. \E m, e : HelloChain(e, m)' /\ o' = e[m]
    BY <2>1, <2>6, <2>8
  <2> QED
    BY <2>1, <2>2, <2>3, <2>9 DEF HelloWalks, Fields, HasBlock
<1> QED
  BY <1>1, <1>2

LEMMA HelloWalksEnd == TypeInv /\ HelloWalks /\ EndOfBlock => HelloWalks'
<1> SUFFICES ASSUME TypeInv, HelloWalks, EndOfBlock PROVE HelloWalks'
  OBVIOUS
<1>1. /\ at = "extension" /\ at' = "accepted" /\ o + 4 > extEnd
      /\ UNCHANGED <<buf, lost, bodyEnd, extEnd, hello>>
  BY DEF EndOfBlock, Advance
<1>2. PICK n, c : HelloChain(c, n) /\ o = c[n]
  BY <1>1 DEF HelloWalks
<1>3. Complete(buf, c, n) /\ HasBlock(buf)
  BY <1>1, <1>2 DEF HelloWalks, HelloChain, Complete
<1>4. HelloChain(c, n)' /\ Complete(buf, c, n)'
  BY <1>1, <1>2, <1>3 DEF HelloChain
<1> QED
  BY <1>1, <1>3, <1>4 DEF HelloWalks, Fields

LEMMA HelloWalksStep == TypeInv /\ HelloWalks /\ [Next]_parserVars => HelloWalks'
<1> SUFFICES ASSUME TypeInv, HelloWalks, [Next]_parserVars PROVE HelloWalks'
  OBVIOUS
<1>1. CASE ReadsPastEnd
  BY <1>1 DEF ReadsPastEnd, HelloWalks, Fields
<1>2. CASE UNCHANGED parserVars
  BY <1>2 DEF parserVars, HelloWalks, HelloChain, Complete
<1> QED
  BY <1>1, <1>2, HelloWalksHeader, HelloWalksSessionId, HelloWalksCipherSuites,
     HelloWalksMethods, HelloWalksNoBlock, HelloWalksBlock, HelloWalksExtension,
     HelloWalksEnd DEF Next

-----------------------------------------------------------------------------
(***************************************************************************)
(* What the fingerprints' parsers read in the extension at p, and what     *)
(* makes them throw there.                                                 *)
(***************************************************************************)
GroupsAt(b, p) ==
    IF U16(b, p) = 10 /\ U16(b, p + 2) >= 4
    THEN U16List(b, p + 6, U16(b, p + 4)) ELSE <<>>

FormatsAt(b, p) ==
    IF U16(b, p) = 11 /\ U16(b, p + 2) >= 1
    THEN Slice(b, p + 5, p + 5 + Byte(b, p + 4)) ELSE <<>>

BadExtension(b, p) ==
    \/ p + 4 > Len(b)
    \/ /\ U16(b, p) = 10 /\ U16(b, p + 2) >= 4
       /\ \/ (p + 4) + 2 > Len(b)
          \/ (p + 6) + 2 * (U16(b, p + 4) \div 2) > Len(b)
    \/ /\ U16(b, p) = 11 /\ U16(b, p + 2) >= 1
       /\ (p + 4) + 1 > Len(b) \/ (p + 5) + Byte(b, p + 4) > Len(b)

Lists == [types : Seq(Nat), groups : Seq(Nat), formats : Seq(Nat)]

NoLists == [types |-> <<>>, groups |-> <<>>, formats |-> <<>>]

ListsWith(b, p, r) ==
    [types |-> Append(r.types, U16(b, p)), groups |-> r.groups \o GroupsAt(b, p),
     formats |-> r.formats \o FormatsAt(b, p)]

\* The lists after each of the first n extensions, none of which throws.
Trail(b, c, n, r) ==
    /\ Chain(b, c, n)
    /\ r \in [0 .. n -> Lists] /\ r[0] = NoLists
    /\ \A k \in 1 .. n : /\ ~BadExtension(b, c[k - 1])
                         /\ r[k] = ListsWith(b, c[k - 1], r[k - 1])

LEMMA ListsAt ==
  ASSUME NEW b \in Seq(Nat), NEW p \in Nat, NEW r \in Lists
  PROVE  ListsWith(b, p, r) \in Lists
<1>1. /\ p + 2 \in Nat /\ p + 4 \in Nat /\ p + 5 \in Nat /\ p + 6 \in Nat
  OBVIOUS
<1>2. U16(b, p) \in Nat /\ U16(b, p + 4) \in Nat /\ Byte(b, p + 4) \in Nat
  BY <1>1, U16IsNat, ByteIsNat
<1>3. GroupsAt(b, p) \in Seq(Nat)
  <2>1. U16List(b, p + 6, U16(b, p + 4)) \in Seq(Nat)
    BY <1>1, <1>2, U16ListIsSeq
  <2> QED
    BY <2>1 DEF GroupsAt
<1>4. FormatsAt(b, p) \in Seq(Nat)
  <2>1. p + 5 + Byte(b, p + 4) \in Nat
    BY <1>2
  <2>2. Slice(b, p + 5, p + 5 + Byte(b, p + 4)) \in Seq(Nat)
    BY <1>1, <2>1, SliceIsSeq
  <2> QED
    BY <2>2 DEF FormatsAt
<1>5. /\ Append(r.types, U16(b, p)) \in Seq(Nat) /\ r.groups \o GroupsAt(b, p) \in Seq(Nat)
      /\ r.formats \o FormatsAt(b, p) \in Seq(Nat)
  BY <1>2, <1>3, <1>4 DEF Lists
<1> QED
  BY <1>5 DEF ListsWith, Lists

TrailContinues(b, c, r, d, q, n) ==
    /\ Trail(b, d, n + 1, q)
    /\ d[n + 1] = c[n] + 4 + U16(b, c[n] + 2)
    /\ q[n + 1] = ListsWith(b, c[n], r[n])

LEMMA TrailStarts ==
  ASSUME NEW b \in Seq(Nat)
  PROVE  \E c, r : Trail(b, c, 0, r) /\ c[0] = BlockPlace(b) + 2 /\ r[0] = NoLists
<1>1. PICK c : Chain(b, c, 0) /\ c[0] = BlockPlace(b) + 2
  BY ChainStarts
<1>2. NoLists \in Lists
  BY DEF NoLists, Lists
<1>3. PICK r : r = [k \in 0 .. 0 |-> NoLists]
  OBVIOUS
<1>4. r \in [0 .. 0 -> Lists] /\ r[0] = NoLists
  BY <1>2, <1>3
<1> QED
  BY <1>1, <1>4 DEF Trail

LEMMA TrailGrows ==
  ASSUME NEW b \in Seq(Nat), NEW n, NEW c, NEW r, Trail(b, c, n, r),
         c[n] + 4 <= BlockLimit(b), ~BadExtension(b, c[n])
  PROVE  \E d, q : TrailContinues(b, c, r, d, q, n)
<1>1. /\ n \in Nat /\ n + 1 \in Nat /\ c[n] \in Nat /\ Chain(b, c, n)
      /\ r \in [0 .. n -> Lists] /\ r[n] \in Lists
  BY DEF Trail, Chain
<1>2. PICK d : ChainContinues(b, c, d, n)
  BY <1>1, ChainGrows
<1>3. PICK x \in Lists : x = ListsWith(b, c[n], r[n])
  BY <1>1, ListsAt
<1>4. PICK q : q = [k \in 0 .. n + 1 |-> IF k = n + 1 THEN x ELSE r[k]]
  OBVIOUS
<1>5. /\ q \in [0 .. n + 1 -> Lists] /\ q[n + 1] = x
      /\ \A k \in 0 .. n : q[k] = r[k]
  BY <1>1, <1>4
<1>6. q[0] = NoLists
  BY <1>1, <1>5 DEF Trail
<1>7. ASSUME NEW k \in 1 .. n + 1
      PROVE  ~BadExtension(b, d[k - 1]) /\ q[k] = ListsWith(b, d[k - 1], q[k - 1])
  <2>1. k - 1 \in 0 .. n /\ (k = n + 1 \/ k \in 1 .. n)
    BY <1>1
  <2>2. d[k - 1] = c[k - 1] /\ q[k - 1] = r[k - 1]
    BY <1>2, <1>5, <2>1 DEF ChainContinues
  <2>3. CASE k = n + 1
    <3>1. k - 1 = n
      BY <1>1, <2>3
    <3> QED
      BY <1>3, <1>5, <2>2, <2>3, <3>1
  <2>4. CASE k \in 1 .. n
    <3>1. q[k] = r[k]
      BY <1>5, <2>4
    <3> QED
      BY <2>2, <2>4, <3>1 DEF Trail
  <2> QED
    BY <2>1, <2>3, <2>4
<1> QED
  BY <1>2, <1>3, <1>5, <1>6, <1>7 DEF Trail, TrailContinues, ChainContinues

LEMMA TrailsAgree ==
  ASSUME NEW b, NEW n, NEW c, NEW r, Trail(b, c, n, r), NEW q, Trail(b, c, n, q)
  PROVE  r[n] = q[n]
<1> DEFINE A == {k \in Nat : k <= n => r[k] = q[k]}
<1>1. n \in Nat
  BY DEF Trail, Chain
<1>2. 0 \in A
  BY DEF Trail
<1>3. ASSUME NEW k \in Nat, k \in A PROVE k + 1 \in A
  <2> SUFFICES ASSUME k + 1 <= n PROVE r[k + 1] = q[k + 1]
    OBVIOUS
  <2>1. PICK j \in Nat : j = k + 1 /\ j \in 1 .. n /\ j - 1 = k
    BY <1>1
  <2>2. r[k] = q[k]
    BY <1>1, <1>3, <2>1
  <2>3. r[j] = ListsWith(b, c[k], r[k]) /\ q[j] = ListsWith(b, c[k], q[k])
    BY <2>1 DEF Trail
  <2> QED
    BY <2>1, <2>2, <2>3
<1> HIDE DEF A
<1>4. \A k \in Nat : k \in A
  BY <1>2, <1>3, SetInduction
<1> QED
  BY <1>1, <1>4 DEF A

\* The types are those in front of the extensions' data.
LEMMA TrailTypes ==
  ASSUME NEW b, NEW n, NEW c, NEW r, Trail(b, c, n, r)
  PROVE  /\ Len(r[n].types) = n
         /\ \A j \in 1 .. n : r[n].types[j] = U16(b, c[j - 1])
<1> DEFINE A == {k \in Nat : k <= n => /\ Len(r[k].types) = k
                                       /\ \A j \in 1 .. k : r[k].types[j] = U16(b, c[j - 1])}
<1>1. n \in Nat
  BY DEF Trail, Chain
<1>2. 0 \in A
  BY DEF Trail, NoLists
<1>3. ASSUME NEW k \in Nat, k \in A PROVE k + 1 \in A
  <2> SUFFICES ASSUME k + 1 <= n
               PROVE  /\ Len(r[k + 1].types) = k + 1
                      /\ \A j \in 1 .. k + 1 : r[k + 1].types[j] = U16(b, c[j - 1])
    OBVIOUS
  <2>1. PICK m \in Nat : m = k + 1 /\ m \in 1 .. n /\ m - 1 = k /\ k \in 0 .. n
    BY <1>1
  <2>2. PICK ts \in Seq(Nat) : ts = r[k].types
    BY <2>1 DEF Trail, Lists
  <2>3. Len(ts) = k /\ \A j \in 1 .. k : ts[j] = U16(b, c[j - 1])
    BY <1>1, <1>3, <2>1, <2>2
  <2>4. r[m].types = Append(ts, U16(b, c[k]))
    <3>1. r[m] = ListsWith(b, c[k], r[k])
      BY <2>1 DEF Trail
    <3> QED
      BY <2>2, <3>1 DEF ListsWith
  <2>5. PICK x : x = U16(b, c[k])
    OBVIOUS
  <2>6. /\ Len(Append(ts, x)) = m /\ Append(ts, x)[m] = x
        /\ \A j \in 1 .. k : Append(ts, x)[j] = ts[j]
    BY <2>1, <2>2, <2>3
  <2>7. ASSUME NEW j \in 1 .. m PROVE Append(ts, x)[j] = U16(b, c[j - 1])
    <3>1. j \in 1 .. k \/ (j = m /\ j - 1 = k)
      BY <2>1
    <3> QED
      BY <2>3, <2>5, <2>6, <3>1
  <2> QED
    BY <2>1, <2>4, <2>5, <2>6, <2>7
<1> HIDE DEF A
<1>4. n \in A
  BY <1>1, <1>2, <1>3, SetInduction
<1> QED
  BY <1>1, <1>4 DEF A

-----------------------------------------------------------------------------
(***************************************************************************)
(* Why computeJa3() throws: all that its parser compares a position with,  *)
(* apart from the end of the extension block.                              *)
(***************************************************************************)
Ja3Refuses(b) ==
    \/ NoHelloIn(b)
    \/ Start(b) + 2 > Len(b)
    \/ SessionPlace(b) + 1 > Len(b)
    \/ SuitesPlace(b) + 2 > Len(b)
    \/ (SuitesPlace(b) + 2) + 2 * (U16(b, SuitesPlace(b)) \div 2) > Len(b)
    \/ MethodsPlace(b) + 1 > Len(b)
    \/ /\ HasBlock(b)
       /\ \E n, c : /\ Chain(b, c, n) /\ c[n] + 4 <= BlockLimit(b)
                    /\ BadExtension(b, c[n])

ListsOf(x) == [types |-> x.types, groups |-> x.groups, formats |-> x.formats]

Ja3Seen == [version : Nat, suites : Seq(Nat), types : Seq(Nat), groups : Seq(Nat),
            formats : Seq(Nat)]

BeforeBlock == {"header", "version", "session", "ciphers", "compression", "block"}

BehindVersion == {"session", "ciphers", "compression", "block", "extension", "accepted"}

BehindSuites == {"compression", "block", "extension", "accepted"}

(***************************************************************************)
(* computeJa3() has read its fields at the same places.                    *)
(***************************************************************************)
Ja3Walks ==
    /\ ja3 \in Ja3Seen
    /\ ja3At \in BeforeBlock \cup {"extension", "accepted", "rejected"}
    /\ ja3At \notin {"header", "rejected"} => ja3End = BodyLimit(buf) /\ ~NoHelloIn(buf)
    /\ ja3At = "version" => ja3Pos = Start(buf)
    /\ ja3At = "session" => ja3Pos = SessionPlace(buf)
    /\ ja3At = "ciphers" => ja3Pos = SuitesPlace(buf)
    /\ ja3At = "compression" => ja3Pos = MethodsPlace(buf)
    /\ ja3At = "block" => ja3Pos = BlockPlace(buf)
    /\ ja3At \in BeforeBlock => ListsOf(ja3) = NoLists
    /\ ja3At \in BehindVersion => ja3.version = U16(buf, Start(buf))
    /\ ja3At \in BehindSuites => ja3.suites = SuitesRead(buf)
    /\ ja3At = "extension" =>
          /\ HasBlock(buf) /\ ja3ExtensionsEnd = BlockLimit(buf)
          /\ \E n, c, r : Trail(buf, c, n, r) /\ ja3Pos = c[n] /\ ListsOf(ja3) = r[n]
    /\ ja3At = "accepted" =>
          IF HasBlock(buf)
          THEN \E n, c, r : Trail(buf, c, n, r) /\ Complete(buf, c, n) /\ ListsOf(ja3) = r[n]
          ELSE ListsOf(ja3) = NoLists
    /\ ja3At = "rejected" => Ja3Refuses(buf)

\* What the theorem about the e2e parser says of the positions JA3 meets.
Sound == TypeInv /\ Ja3Walks

\* The instances read the bytes the way HelloWire does.
LEMMA Ja3Reads ==
  /\ \A b, i : Ja3!Byte(b, i) = Byte(b, i)
  /\ \A b, i : Ja3!U16(b, i) = U16(b, i)
  /\ \A b, i : Ja3!U24(b, i) = U24(b, i)
  /\ \A b, i, n : Ja3!U16List(b, i, n) = U16List(b, i, n)
  /\ \A b, i, j : Ja3!Slice(b, i, j) = Slice(b, i, j)
  /\ \A b : Ja3!RecordHeader(b) = RecordHeader(b)
BY DEF Ja3!Byte, Byte, Ja3!U16, U16, Ja3!U24, U24, Ja3!U16List, U16List, Ja3!Slice, Slice,
       Ja3!RecordHeader, RecordHeader

LEMMA Ja3Throws ==
  ASSUME Ja3Walks, Ja3!Throw, Ja3Refuses(buf)
  PROVE  Ja3Walks'
BY DEF Ja3Walks, Ja3!Throw, BeforeBlock, BehindVersion, BehindSuites

LEMMA Ja3WalksHeader == Sound /\ Ja3!Header => Ja3Walks'
<1> SUFFICES ASSUME Sound, Ja3!Header PROVE Ja3Walks'
  OBVIOUS
<1> DEFINE start == RecordHeader(buf)
<1>1. CASE Ja3!NoHello(start)
  <2>1. Ja3!Throw /\ NoHelloIn(buf)
    BY <1>1, Ja3Reads DEF Ja3!Header, Ja3!NoHello, Ja3!Missing, NoHelloIn
  <2> QED
    BY <2>1, Ja3Throws DEF Sound, Ja3Refuses
<1>2. CASE ~Ja3!NoHello(start)
  <2>1. /\ ja3At = "header" /\ ja3At' = "version"
        /\ ja3Pos' = start + 4 /\ ja3End' = start + 4 + U24(buf, start + 1)
        /\ UNCHANGED <<buf, ja3ExtensionsEnd, ja3>>
    BY <1>2, Ja3Reads DEF Ja3!Header
  <2>2. start \in Nat
    BY RecordHeaderIsNat DEF Sound, TypeInv, TypeOK
  <2>3. Start(buf) = start + 4 /\ Start(buf) - 3 = start + 1
    BY <2>2 DEF Start
  <2>4. BodyLimit(buf) = start + 4 + U24(buf, start + 1)
    BY <2>3 DEF BodyLimit
  <2>5. ~NoHelloIn(buf)
    BY <1>2, Ja3Reads DEF Ja3!NoHello, Ja3!Missing, NoHelloIn
  <2> HIDE DEF start
  <2> QED
    BY <2>1, <2>3, <2>4, <2>5 DEF Sound, Ja3Walks, BeforeBlock, BehindVersion, BehindSuites
<1> QED
  BY <1>1, <1>2

LEMMA Ja3WalksVersion == Sound /\ Ja3!Version => Ja3Walks'
<1> SUFFICES ASSUME Sound, Ja3!Version PROVE Ja3Walks'
  OBVIOUS
<1>0. ja3At = "version" /\ ja3Pos = Start(buf) /\ buf \in Seq(Nat)
  BY DEF Sound, Ja3Walks, Ja3!Version, TypeInv, TypeOK
<1>1. CASE Ja3!Missing(ja3Pos, 2)
  <2>1. Ja3!Throw /\ Start(buf) + 2 > Len(buf)
    BY <1>0, <1>1, Ja3Reads DEF Ja3!Version, Ja3!Missing
  <2> QED
    BY <2>1, Ja3Throws DEF Sound, Ja3Refuses
<1>2. CASE ~Ja3!Missing(ja3Pos, 2)
  <2>1. /\ ja3At' = "session" /\ ja3Pos' = ja3Pos + 2 + 32
        /\ ja3' = [ja3 EXCEPT !.version = U16(buf, ja3Pos)]
        /\ UNCHANGED <<buf, ja3End, ja3ExtensionsEnd>>
    BY <1>2, Ja3Reads DEF Ja3!Version, Ja3!Walk
  <2>2. PICK p \in Nat : p = Start(buf)
    BY <1>0, PlacesInBuffer DEF PlacesAreNats
  <2>3. ja3Pos' = SessionPlace(buf)
    <3>1. p + 2 + 32 = p + 34
      OBVIOUS
    <3> QED
      BY <1>0, <2>1, <2>2, <3>1 DEF SessionPlace
  <2>4. U16(buf, p) \in Nat
    BY <1>0, U16IsNat
  <2>5. ja3' \in Ja3Seen /\ ja3'.version = U16(buf, p) /\ ListsOf(ja3') = ListsOf(ja3)
    BY <1>0, <2>1, <2>2, <2>4 DEF Sound, Ja3Walks, Ja3Seen, ListsOf
  <2> QED
    BY <1>0, <2>1, <2>2, <2>3, <2>5
       DEF Sound, Ja3Walks, BeforeBlock, BehindVersion, BehindSuites
<1> QED
  BY <1>1, <1>2

LEMMA Ja3WalksSessionId == Sound /\ Ja3!SessionId => Ja3Walks'
<1> SUFFICES ASSUME Sound, Ja3!SessionId PROVE Ja3Walks'
  OBVIOUS
<1>0. ja3At = "session" /\ ja3Pos = SessionPlace(buf)
  BY DEF Sound, Ja3Walks, Ja3!SessionId
<1>1. CASE Ja3!Missing(ja3Pos, 1)
  <2>1. Ja3!Throw /\ SessionPlace(buf) + 1 > Len(buf)
    BY <1>0, <1>1, Ja3Reads DEF Ja3!SessionId, Ja3!Missing
  <2> QED
    BY <2>1, Ja3Throws DEF Sound, Ja3Refuses
<1>2. CASE ~Ja3!Missing(ja3Pos, 1)
  <2>1. /\ ja3At' = "ciphers" /\ ja3Pos' = ja3Pos + 1 + Byte(buf, ja3Pos) /\ ja3' = ja3
        /\ UNCHANGED <<buf, ja3End, ja3ExtensionsEnd>>
    BY <1>2, Ja3Reads DEF Ja3!SessionId, Ja3!Walk
  <2>2. ja3Pos' = SuitesPlace(buf)
    BY <1>0, <2>1 DEF SuitesPlace
  <2> QED
    BY <1>0, <2>1, <2>2 DEF Sound, Ja3Walks, BeforeBlock, BehindVersion, BehindSuites
<1> QED
  BY <1>1, <1>2

LEMMA Ja3WalksCipherSuites == Sound /\ Ja3!CipherSuites => Ja3Walks'
<1> SUFFICES ASSUME Sound, Ja3!CipherSuites PROVE Ja3Walks'
  OBVIOUS
<1>0. ja3At = "ciphers" /\ ja3Pos = SuitesPlace(buf) /\ buf \in Seq(Nat)
  BY DEF Sound, Ja3Walks, Ja3!CipherSuites, TypeInv, TypeOK
<1> DEFINE len == U16(buf, ja3Pos)
           Throws == Ja3!Missing(ja3Pos, 2) \/ Ja3!Missing(ja3Pos + 2, 2 * (len \div 2))
<1>1. CASE Throws
  <2>1. Ja3!Throw
    BY <1>1, Ja3Reads DEF Ja3!CipherSuites
  <2>2. Ja3Refuses(buf)
    BY <1>0, <1>1 DEF Ja3!Missing, Ja3Refuses
  <2> QED
    BY <2>1, <2>2, Ja3Throws DEF Sound
<1>2. CASE ~Throws
  <2>1. /\ ja3At' = "compression" /\ ja3Pos' = ja3Pos + 2 + len
        /\ ja3' = [ja3 EXCEPT !.suites = U16List(buf, ja3Pos + 2, len)]
        /\ UNCHANGED <<buf, ja3End, ja3ExtensionsEnd>>
    BY <1>2, Ja3Reads DEF Ja3!CipherSuites, Ja3!Walk
  <2>2. ja3Pos' = MethodsPlace(buf) /\ U16List(buf, ja3Pos + 2, len) = SuitesRead(buf)
    BY <1>0, <2>1 DEF MethodsPlace, SuitesRead
  <2>3. SuitesRead(buf) \in Seq(Nat)
    <3>1. SuitesPlace(buf) \in Nat /\ SuitesPlace(buf) + 2 \in Nat
      BY <1>0, PlacesInBuffer DEF PlacesAreNats
    <3>2. U16(buf, SuitesPlace(buf)) \in Nat
      BY <1>0, <3>1, U16IsNat
    <3> QED
      BY <1>0, <3>1, <3>2, U16ListIsSeq DEF SuitesRead
  <2> HIDE DEF len
  <2>4. /\ ja3' \in Ja3Seen /\ ja3'.suites = SuitesRead(buf) /\ ja3'.version = ja3.version
        /\ ListsOf(ja3') = ListsOf(ja3)
    BY <2>1, <2>2, <2>3 DEF Sound, Ja3Walks, Ja3Seen, ListsOf
  <2> QED
    BY <1>0, <2>1, <2>2, <2>4 DEF Sound, Ja3Walks, BeforeBlock, BehindVersion, BehindSuites
<1> QED
  BY <1>1, <1>2

LEMMA Ja3WalksMethods == Sound /\ Ja3!CompressionMethods => Ja3Walks'
<1> SUFFICES ASSUME Sound, Ja3!CompressionMethods PROVE Ja3Walks'
  OBVIOUS
<1>0. ja3At = "compression" /\ ja3Pos = MethodsPlace(buf)
  BY DEF Sound, Ja3Walks, Ja3!CompressionMethods
<1>1. CASE Ja3!Missing(ja3Pos, 1)
  <2>1. Ja3!Throw /\ MethodsPlace(buf) + 1 > Len(buf)
    BY <1>0, <1>1, Ja3Reads DEF Ja3!CompressionMethods, Ja3!Missing
  <2> QED
    BY <2>1, Ja3Throws DEF Sound, Ja3Refuses
<1>2. CASE ~Ja3!Missing(ja3Pos, 1)
  <2>1. /\ ja3At' = "block" /\ ja3Pos' = ja3Pos + 1 + Byte(buf, ja3Pos) /\ ja3' = ja3
        /\ UNCHANGED <<buf, ja3End, ja3ExtensionsEnd>>
    BY <1>2, Ja3Reads DEF Ja3!CompressionMethods, Ja3!Walk
  <2>2. ja3Pos' = BlockPlace(buf)
    BY <1>0, <2>1 DEF BlockPlace
  <2> QED
    BY <1>0, <2>1, <2>2 DEF Sound, Ja3Walks, BeforeBlock, BehindVersion, BehindSuites
<1> QED
  BY <1>1, <1>2

LEMMA Ja3WalksNoBlock == Sound /\ Ja3!NoBlock => Ja3Walks'
<1> SUFFICES ASSUME Sound, Ja3!NoBlock PROVE Ja3Walks'
  OBVIOUS
<1>1. /\ ja3At = "block" /\ ja3At' = "accepted" /\ ja3Pos + 2 > ja3End /\ ja3' = ja3
      /\ UNCHANGED <<buf, ja3End, ja3ExtensionsEnd>>
  BY DEF Ja3!NoBlock, Ja3!Walk
<1>2. ja3Pos = BlockPlace(buf) /\ ja3End = BodyLimit(buf)
  BY <1>1 DEF Sound, Ja3Walks
<1>3. BlockPlace(buf) \in Nat /\ BodyLimit(buf) \in Nat
  BY PlacesInBuffer DEF PlacesAreNats, Sound, TypeInv, TypeOK
<1>4. ~HasBlock(buf)
  BY <1>1, <1>2, <1>3 DEF HasBlock
<1> QED
  BY <1>1, <1>4 DEF Sound, Ja3Walks, BeforeBlock, BehindVersion, BehindSuites

LEMMA Ja3WalksBlock == Sound /\ Ja3!Block => Ja3Walks'
<1> SUFFICES ASSUME Sound, Ja3!Block PROVE Ja3Walks'
  OBVIOUS
<1>1. /\ ja3At = "block" /\ ja3At' = "extension" /\ ja3Pos + 2 <= ja3End
      /\ ja3Pos' = ja3Pos + 2 /\ ja3ExtensionsEnd' = ja3Pos + 2 + U16(buf, ja3Pos)
      /\ UNCHANGED <<buf, ja3End, ja3>>
  BY Ja3Reads DEF Ja3!Block
<1>2. ja3Pos = BlockPlace(buf) /\ ja3End = BodyLimit(buf) /\ ListsOf(ja3) = NoLists
  BY <1>1 DEF Sound, Ja3Walks, BeforeBlock
<1>3. HasBlock(buf) /\ ja3ExtensionsEnd' = BlockLimit(buf)
  BY <1>1, <1>2 DEF HasBlock, BlockLimit
<1>4. \E n, c, r : Trail(buf, c, n, r) /\ ja3Pos' = c[n] /\ ListsOf(ja3) = r[n]
  <2>1. PICK c, r : Trail(buf, c, 0, r) /\ c[0] = BlockPlace(buf) + 2 /\ r[0] = NoLists
    BY TrailStarts DEF Sound, TypeInv, TypeOK
  <2> QED
    BY <1>1, <1>2, <2>1
<1> QED
  BY <1>1, <1>3, <1>4 DEF Sound, Ja3Walks, BeforeBlock, BehindVersion, BehindSuites

LEMMA Ja3WalksExtension == Sound /\ Ja3!NextExtension => Ja3Walks'
<1> SUFFICES ASSUME Sound, Ja3!NextExtension PROVE Ja3Walks'
  OBVIOUS
<1>0. /\ ja3At = "extension" /\ ja3Pos + 4 <= ja3ExtensionsEnd
      /\ HasBlock(buf) /\ ja3ExtensionsEnd = BlockLimit(buf) /\ buf \in Seq(Nat)
  BY DEF Sound, Ja3Walks, Ja3!NextExtension, Ja3!MoreExtensions, TypeInv, TypeOK
<1>1. PICK n, c, r : Trail(buf, c, n, r) /\ ja3Pos = c[n] /\ ListsOf(ja3) = r[n]
  BY <1>0 DEF Sound, Ja3Walks
<1> DEFINE type == U16(buf, ja3Pos)
           len == U16(buf, ja3Pos + 2)
           Throws == Ja3!Missing(ja3Pos, 4) \/ Ja3!ListMissing(type, len)
<1>2. Throws <=> BadExtension(buf, ja3Pos)
  BY Ja3Reads DEF Ja3!Missing, Ja3!ListMissing, Ja3!HasGroups, Ja3!HasFormats, BadExtension
<1>3. CASE Throws
  <2>1. Ja3!Throw
    BY <1>3, Ja3Reads DEF Ja3!NextExtension
  <2>2. Ja3Refuses(buf)
    <3>1. Chain(buf, c, n) /\ c[n] + 4 <= BlockLimit(buf) /\ BadExtension(buf, c[n])
      BY <1>0, <1>1, <1>2, <1>3 DEF Trail
    <3> QED
      BY <1>0, <3>1 DEF Ja3Refuses
  <2> QED
    BY <2>1, <2>2, Ja3Throws DEF Sound
<1>4. CASE ~Throws
  <2>1. /\ ja3At' = "extension" /\ ja3Pos' = ja3Pos + 4 + len
        /\ ja3' = [ja3 EXCEPT !.types = Append(@, type),
                              !.groups = @ \o Ja3!Groups(type, len),
                              !.formats = @ \o Ja3!Formats(type, len)]
        /\ UNCHANGED <<buf, ja3End, ja3ExtensionsEnd>>
    BY <1>4, Ja3Reads DEF Ja3!NextExtension, Ja3!Walk
  <2>2. Ja3!Groups(type, len) = GroupsAt(buf, ja3Pos)
    BY Ja3Reads DEF Ja3!Groups, Ja3!HasGroups, GroupsAt
  <2>3. Ja3!Formats(type, len) = FormatsAt(buf, ja3Pos)
    BY Ja3Reads DEF Ja3!Formats, Ja3!HasFormats, FormatsAt
  <2>4. PICK d, q : TrailContinues(buf, c, r, d, q, n)
    <3>1. c[n] + 4 <= BlockLimit(buf) /\ ~BadExtension(buf, c[n])
      BY <1>0, <1>1, <1>2, <1>4
    <3> QED
      BY <1>0, <1>1, <3>1, TrailGrows, Zenon
  <2>5. ja3Pos' = d[n + 1]
    BY <1>1, <2>1, <2>4 DEF TrailContinues
  <2> HIDE DEF len
  <2>6. ja3 \in Ja3Seen
    BY DEF Sound, Ja3Walks
  <2>7. /\ ja3'.version = ja3.version /\ ja3'.suites = ja3.suites
        /\ ja3'.types = Append(ja3.types, type)
        /\ ja3'.groups = ja3.groups \o GroupsAt(buf, ja3Pos)
        /\ ja3'.formats = ja3.formats \o FormatsAt(buf, ja3Pos)
        /\ ja3' = [version |-> ja3'.version, suites |-> ja3'.suites, types |-> ja3'.types,
                   groups |-> ja3'.groups, formats |-> ja3'.formats]
    <3> HIDE DEF type
    <3> QED
      BY <2>1, <2>2, <2>3, <2>6 DEF Ja3Seen
  <2>8. ListsOf(ja3') = q[n + 1]
    <3>1. ListsOf(ja3') = ListsWith(buf, ja3Pos, ListsOf(ja3))
      BY <2>7 DEF ListsOf, ListsWith
    <3> QED
      BY <1>1, <2>4, <3>1 DEF TrailContinues
  <2>9. ja3' \in Ja3Seen
    <3>1. q[n + 1] \in Lists
      <4>1. Trail(buf, d, n + 1, q)
        BY <2>4 DEF TrailContinues
      <4>2. n + 1 \in 0 .. n + 1 /\ q \in [0 .. n + 1 -> Lists]
        BY <4>1 DEF Trail, Chain
      <4> QED
        BY <4>2
    <3>2. ListsOf(ja3').types \in Seq(Nat) /\ ListsOf(ja3').groups \in Seq(Nat)
          /\ ListsOf(ja3').formats \in Seq(Nat)
      BY <2>8, <3>1 DEF Lists
    <3>3. ja3'.types \in Seq(Nat) /\ ja3'.groups \in Seq(Nat) /\ ja3'.formats \in Seq(Nat)
      BY <3>2 DEF ListsOf
    <3>4. ja3'.version \in Nat /\ ja3'.suites \in Seq(Nat)
      BY <2>6, <2>7 DEF Ja3Seen
    <3> QED
      BY <2>7, <3>3, <3>4 DEF Ja3Seen
  <2>10. \E m, e, s : Trail(buf, e, m, s) /\ ja3Pos' = e[m] /\ ListsOf(ja3') = s[m]
    <3>1. Trail(buf, d, n + 1, q)
      BY <2>4 DEF TrailContinues
    <3> QED
      BY <2>5, <2>8, <3>1
  <2> QED
    BY <1>0, <2>1, <2>7, <2>9, <2>10
       DEF Sound, Ja3Walks, BeforeBlock, BehindVersion, BehindSuites
<1> QED
  BY <1>3, <1>4

LEMMA Ja3WalksEnd == Sound /\ Ja3!EndOfBlock => Ja3Walks'
<1> SUFFICES ASSUME Sound, Ja3!EndOfBlock PROVE Ja3Walks'
  OBVIOUS
<1>1. /\ ja3At = "extension" /\ ja3At' = "accepted" /\ ~(ja3Pos + 4 <= ja3ExtensionsEnd)
      /\ ja3' = ja3 /\ UNCHANGED <<buf, ja3End, ja3ExtensionsEnd>>
  BY DEF Ja3!EndOfBlock, Ja3!MoreExtensions, Ja3!Walk
<1>2. HasBlock(buf) /\ ja3ExtensionsEnd = BlockLimit(buf)
  BY <1>1 DEF Sound, Ja3Walks
<1>3. PICK n, c, r : Trail(buf, c, n, r) /\ ja3Pos = c[n] /\ ListsOf(ja3) = r[n]
  BY <1>1 DEF Sound, Ja3Walks
<1>4. Complete(buf, c, n)
  <2>1. Chain(buf, c, n) /\ c[n] \in Nat
    BY <1>3 DEF Trail, Chain
  <2>2. BlockLimit(buf) \in Nat
    BY PlacesInBuffer DEF PlacesAreNats, Sound, TypeInv, TypeOK
  <2> QED
    BY <1>1, <1>2, <1>3, <2>1, <2>2 DEF Complete
<1>5. \E m, e, s : Trail(buf, e, m, s) /\ Complete(buf, e, m) /\ ListsOf(ja3) = s[m]
  BY <1>3, <1>4
<1> QED
  BY <1>1, <1>2, <1>5 DEF Sound, Ja3Walks, BeforeBlock, BehindVersion, BehindSuites

LEMMA Ja3WalksStep == Sound /\ Ja3!Next => Ja3Walks'
BY Ja3WalksHeader, Ja3WalksVersion, Ja3WalksSessionId, Ja3WalksCipherSuites,
   Ja3WalksMethods, Ja3WalksNoBlock, Ja3WalksBlock, Ja3WalksExtension, Ja3WalksEnd
   DEF Ja3!Next

LEMMA BufferStays == [Next]_parserVars => buf' = buf
BY DEF Next, Header, SessionId, CipherSuites, CompressionMethods, NoBlock, ExtensionBlock,
       NextExtension, EndOfBlock, ReadsPastEnd, Advance, Reject, parserVars

WalkInv == TypeInv /\ HelloWalks /\ Ja3Walks

LEMMA WalkInit == ParsersInit => WalkInv
<1> SUFFICES ASSUME ParsersInit PROVE WalkInv
  OBVIOUS
<1>1. TypeInv
  BY TypeInit DEF ParsersInit
<1>2. HelloWalks
  BY DEF ParsersInit, Init, NoFields, HelloWalks, Fields
<1>3. Ja3Walks
  BY DEF ParsersInit, Ja3!Init, Ja3!WalkInit, Ja3!Nothing, Ja3Walks, Ja3Seen, ListsOf, NoLists,
         BeforeBlock, BehindVersion, BehindSuites
<1> QED
  BY <1>1, <1>2, <1>3 DEF WalkInv

LEMMA Ja3WalksOn ==
  ASSUME Ja3Walks, UNCHANGED ja3Vars, buf' = buf
  PROVE  Ja3Walks'
BY DEF Ja3Walks, ja3Vars

LEMMA WalkStep == WalkInv /\ [ParsersNext]_parsersVars => WalkInv'
<1> SUFFICES ASSUME WalkInv, [ParsersNext]_parsersVars PROVE WalkInv'
  OBVIOUS
<1>1. [Next]_parserVars
  BY DEF ParsersNext, parsersVars
<1>2. TypeInv' /\ HelloWalks'
  BY <1>1, TypeStep, HelloWalksStep DEF WalkInv
<1>3. buf' = buf
  BY <1>1, BufferStays
<1>4. CASE Ja3!Next
  BY <1>2, <1>4, Ja3WalksStep DEF WalkInv, Sound
<1>5. CASE UNCHANGED ja3Vars
  BY <1>2, <1>3, <1>5, Ja3WalksOn DEF WalkInv
<1> QED
  BY <1>4, <1>5 DEF ParsersNext, parsersVars, ja3Vars

LEMMA SameTypes ==
  ASSUME WalkInv, Returned, ja3At = "accepted", HasBlock(buf)
  PROVE  ja3.types = Types(hello)
<1>1. PICK n, c : HelloChain(c, n) /\ Complete(buf, c, n)
  BY DEF WalkInv, HelloWalks, Returned
<1>2. PICK m, d, r : Trail(buf, d, m, r) /\ Complete(buf, d, m) /\ ListsOf(ja3) = r[m]
  BY DEF WalkInv, Ja3Walks
<1>3. n = m /\ c = d
  BY <1>1, <1>2, CompleteAgree DEF WalkInv, TypeInv, TypeOK
<1>4. Len(ja3.types) = n /\ \A j \in 1 .. n : ja3.types[j] = U16(buf, c[j - 1])
  <2>1. ListsOf(ja3).types = ja3.types
    BY DEF ListsOf
  <2>2. /\ Len(r[m].types) = m /\ \A j \in 1 .. m : r[m].types[j] = U16(buf, d[j - 1])
    BY <1>2, TrailTypes
  <2> QED
    BY <1>2, <1>3, <2>1, <2>2
<1>5. PICK ts \in Seq(Nat) : ts = ja3.types
  BY DEF WalkInv, Ja3Walks, Ja3Seen
<1>6. PICK es : es = hello.extensions /\ es \in Seq([type : Nat, data : Seq(Nat)])
  BY DEF WalkInv, TypeInv, TypeOK, ParsedHello
<1>7. n \in Nat /\ Len(es) = n /\ \A k \in 1 .. n : es[k].type = U16(buf, c[k - 1])
  BY <1>1, <1>6 DEF HelloChain, Chain
<1>8. ts = [k \in DOMAIN es |-> es[k].type]
  <2>1. DOMAIN ts = 1 .. n /\ DOMAIN es = 1 .. n
    BY <1>4, <1>5, <1>6, <1>7
  <2>2. \A k \in 1 .. n : ts[k] = es[k].type
    BY <1>4, <1>5, <1>7
  <2>3. ts \in [1 .. n -> Nat]
    BY <1>4, <1>5
  <2> QED
    BY <2>1, <2>2, <2>3
<1> QED
  BY <1>5, <1>6, <1>8 DEF Types

LEMMA WalksMatch == WalkInv => Ja3MatchesHello
<1> SUFFICES ASSUME WalkInv, Returned, ja3At = "accepted"
             PROVE  /\ ja3.version = hello.version
                    /\ ja3.suites = hello.suites
                    /\ ja3.types = Types(hello)
  BY DEF Ja3MatchesHello
<1>1. /\ hello.version = U16(buf, Start(buf)) /\ hello.suites = SuitesRead(buf)
      /\ ja3.version = U16(buf, Start(buf)) /\ ja3.suites = SuitesRead(buf)
  BY DEF WalkInv, HelloWalks, Ja3Walks, Returned, BehindVersion, BehindSuites
<1>2. CASE HasBlock(buf)
  BY <1>1, <1>2, SameTypes
<1>3. CASE ~HasBlock(buf)
  <2>1. hello.extensions = <<>> /\ ListsOf(ja3) = NoLists
    BY <1>3 DEF WalkInv, HelloWalks, Ja3Walks, Returned
  <2>2. ja3.types = <<>>
    BY <2>1 DEF ListsOf, NoLists
  <2>3. Types(hello) = <<>>
    BY <2>1 DEF Types
  <2> QED
    BY <1>1, <2>2, <2>3
<1> QED
  BY <1>2, <1>3

(***************************************************************************)
(* Whatever the buffer holds, a hello which both the e2e parser and        *)
(* computeJa3() take is read the same by both.                             *)
(***************************************************************************)
THEOREM Ja3ReadsTheHello == ParsersSpec => []Ja3MatchesHello
<1>1. ParsersInit => WalkInv
  BY WalkInit
<1>2. WalkInv /\ [ParsersNext]_parsersVars => WalkInv'
  BY WalkStep
<1>3. WalkInv => Ja3MatchesHello
  BY WalksMatch
<1> QED
  BY <1>1, <1>2, <1>3, PTL DEF ParsersSpec

-----------------------------------------------------------------------------
(***************************************************************************)
(* Leaving GREASE out of two lists is leaving it out of the joined one.    *)
(***************************************************************************)
LEMMA NonGreaseAppend ==
  ASSUME NEW s \in Seq(Nat), NEW v \in Nat
  PROVE  /\ NonGrease(s) \in Seq(Nat)
         /\ NonGrease(Append(s, v)) = NonGrease(s) \o NonGrease(<<v>>)
<1> DEFINE Kept(x) == IF x \in Grease THEN <<>> ELSE <<x>>
           EachKept(t) == [i \in DOMAIN t |-> Kept(t[i])]
<1>1. ASSUME NEW x \in Nat PROVE Kept(x) \in Seq(Nat)
  OBVIOUS
<1> HIDE DEF Kept
<1>2. ASSUME NEW t \in Seq(Nat)
      PROVE  /\ EachKept(t) \in Seq(Seq(Nat)) /\ Len(EachKept(t)) = Len(t)
             /\ \A i \in 1 .. Len(t) : EachKept(t)[i] = Kept(t[i])
  <2>1. PICK n \in Nat : n = Len(t) /\ DOMAIN t = 1 .. n
    OBVIOUS
  <2>2. \A i \in 1 .. n : t[i] \in Nat
    BY <2>1
  <2>3. \A i \in 1 .. n : Kept(t[i]) \in Seq(Nat)
    BY <1>1, <2>2
  <2>4. PICK ks : ks = EachKept(t)
    OBVIOUS
  <2>5. ks = [i \in 1 .. n |-> Kept(t[i])]
    BY <2>1, <2>4
  <2>6. ks \in Seq(Seq(Nat)) /\ Len(ks) = n /\ \A i \in 1 .. n : ks[i] = Kept(t[i])
    BY <2>3, <2>5
  <2> QED
    BY <2>1, <2>4, <2>6
<1>3. ASSUME NEW t PROVE NonGrease(t) = FlattenSeq(EachKept(t))
  BY DEF NonGrease, Kept
<1>4. EachKept(Append(s, v)) = Append(EachKept(s), Kept(v))
  <2>1. PICK n \in Nat : n = Len(s) /\ DOMAIN s = 1 .. n
    OBVIOUS
  <2>2. PICK t : t = Append(s, v)
    OBVIOUS
  <2>3. /\ t \in Seq(Nat) /\ Len(t) = n + 1 /\ DOMAIN t = 1 .. n + 1
        /\ t[n + 1] = v /\ \A i \in 1 .. n : t[i] = s[i]
    BY <2>1, <2>2
  <2>4. PICK ks : ks = EachKept(s)
    OBVIOUS
  <2> HIDE DEF EachKept
  <2>5. ks \in Seq(Seq(Nat)) /\ Len(ks) = n /\ \A i \in 1 .. n : ks[i] = Kept(s[i])
    BY <1>2, <2>1, <2>4
  <2>6. PICK k \in Seq(Nat) : k = Kept(v)
    BY <1>1
  <2>7. PICK ts : ts = EachKept(t)
    OBVIOUS
  <2>8. ts \in Seq(Seq(Nat)) /\ Len(ts) = n + 1 /\ \A i \in 1 .. n + 1 : ts[i] = Kept(t[i])
    BY <1>2, <2>3, <2>7
  <2>9. /\ Append(ks, k) \in Seq(Seq(Nat)) /\ Len(Append(ks, k)) = n + 1
        /\ Append(ks, k)[n + 1] = k /\ \A i \in 1 .. n : Append(ks, k)[i] = ks[i]
    BY <2>5, <2>6
  <2>10. \A i \in 1 .. n + 1 : ts[i] = Append(ks, k)[i]
    <3> SUFFICES ASSUME NEW i \in 1 .. n + 1 PROVE ts[i] = Append(ks, k)[i]
      OBVIOUS
    <3>1. i = n + 1 \/ i \in 1 .. n
      OBVIOUS
    <3> QED
      BY <2>3, <2>5, <2>6, <2>8, <2>9, <3>1
  <2>11. ts = Append(ks, k)
    BY <2>8, <2>9, <2>10, SeqEqual
  <2> QED
    BY <2>2, <2>4, <2>6, <2>7, <2>11
<1>5. NonGrease(<<v>>) = Kept(v)
  <2>1. EachKept(<<v>>) = Append(<<>>, Kept(v))
    OBVIOUS
  <2>2. FlattenSeq(Append(<<>>, Kept(v))) = FlattenSeq(<<>>) \o Kept(v)
    <3>1. <<>> \in Seq(Seq(Nat)) /\ Kept(v) \in Seq(Nat)
      BY <1>1
    <3> QED
      BY <3>1, FlattenAppend
  <2>3. <<>> \o Kept(v) = Kept(v)
    BY <1>1
  <2> QED
    BY <1>3, <2>1, <2>2, <2>3, FlattenEmpty
<1>6. PICK ks : ks = EachKept(s)
  OBVIOUS
<1>7. ks \in Seq(Seq(Nat)) /\ Kept(v) \in Seq(Nat)
  BY <1>1, <1>2, <1>6
<1>8. FlattenSeq(Append(ks, Kept(v))) = FlattenSeq(ks) \o Kept(v)
  BY <1>7, FlattenAppend
<1>9. FlattenSeq(ks) \in Seq(Nat)
  BY <1>7, FlattenIsSeq
<1> HIDE DEF EachKept
<1> QED
  BY <1>3, <1>4, <1>5, <1>6, <1>8, <1>9

LEMMA FrontAndLast ==
  ASSUME NEW t \in Seq(Nat), NEW k \in Nat, Len(t) = k + 1
  PROVE  \E f \in Seq(Nat), v \in Nat : Len(f) = k /\ t = Append(f, v)
<1>1. PICK v \in Nat : v = t[k + 1]
  <2>1. k + 1 \in 1 .. Len(t)
    OBVIOUS
  <2> QED
    BY <2>1
<1>2. PICK f : f = [i \in 1 .. k |-> t[i]]
  OBVIOUS
<1>3. f \in Seq(Nat) /\ Len(f) = k /\ \A i \in 1 .. k : f[i] = t[i]
  <2>1. \A i \in 1 .. k : t[i] \in Nat
    OBVIOUS
  <2> QED
    BY <1>2, <2>1
<1>4. /\ Append(f, v) \in Seq(Nat) /\ Len(Append(f, v)) = k + 1
      /\ Append(f, v)[k + 1] = v /\ \A i \in 1 .. k : Append(f, v)[i] = f[i]
  BY <1>3
<1>5. \A i \in 1 .. k + 1 : t[i] = Append(f, v)[i]
  <2> SUFFICES ASSUME NEW i \in 1 .. k + 1 PROVE t[i] = Append(f, v)[i]
    OBVIOUS
  <2>1. i = k + 1 \/ i \in 1 .. k
    OBVIOUS
  <2> QED
    BY <1>1, <1>3, <1>4, <2>1
<1>6. t = Append(f, v)
  BY <1>4, <1>5, SeqEqual
<1> QED
  BY <1>3, <1>6

LEMMA NonGreaseConcat ==
  ASSUME NEW s \in Seq(Nat), NEW t \in Seq(Nat)
  PROVE  NonGrease(s \o t) = NonGrease(s) \o NonGrease(t)
<1> DEFINE A == {k \in Nat : \A u \in Seq(Nat) :
                     Len(u) = k => NonGrease(s \o u) = NonGrease(s) \o NonGrease(u)}
<1>1. NonGrease(<<>>) = <<>>
  BY FlattenEmpty DEF NonGrease
<1>2. NonGrease(s) \in Seq(Nat)
  <2>1. 0 \in Nat
    OBVIOUS
  <2> QED
    BY <2>1, NonGreaseAppend
<1>3. 0 \in A
  <2>1. s \o <<>> = s /\ NonGrease(s) \o <<>> = NonGrease(s)
    BY <1>2
  <2>2. \A u \in Seq(Nat) : Len(u) = 0 => u = <<>>
    OBVIOUS
  <2> QED
    BY <1>1, <2>1, <2>2
<1>4. ASSUME NEW k \in Nat, k \in A PROVE k + 1 \in A
  <2> SUFFICES ASSUME NEW u \in Seq(Nat), Len(u) = k + 1
               PROVE  NonGrease(s \o u) = NonGrease(s) \o NonGrease(u)
    OBVIOUS
  <2>1. PICK f \in Seq(Nat), v \in Nat : Len(f) = k /\ u = Append(f, v)
    BY <1>4, FrontAndLast
  <2>2. NonGrease(s \o f) = NonGrease(s) \o NonGrease(f)
    BY <1>4, <2>1
  <2>3. s \o Append(f, v) = Append(s \o f, v) /\ s \o f \in Seq(Nat)
    BY <2>1
  <2>4. NonGrease(Append(s \o f, v)) = NonGrease(s \o f) \o NonGrease(<<v>>)
    BY <2>3, NonGreaseAppend
  <2>5. /\ NonGrease(Append(f, v)) = NonGrease(f) \o NonGrease(<<v>>)
        /\ NonGrease(f) \in Seq(Nat)
    BY NonGreaseAppend
  <2>6. NonGrease(<<v>>) \in Seq(Nat)
    <3>1. <<v>> \in Seq(Nat)
      OBVIOUS
    <3> QED
      BY <3>1, NonGreaseAppend
  <2>7. (NonGrease(s) \o NonGrease(f)) \o NonGrease(<<v>>)
            = NonGrease(s) \o (NonGrease(f) \o NonGrease(<<v>>))
    <3>1. ThreeJoin(NonGrease(s), NonGrease(f), NonGrease(<<v>>))
      BY ONLY <1>2, <2>5, <2>6, JoiningThree, Zenon
    <3> QED
      BY ONLY <3>1, Zenon DEF ThreeJoin
  <2> QED
    BY <2>1, <2>2, <2>3, <2>4, <2>5, <2>7
<1> HIDE DEF A
<1>5. PICK n \in Nat : n = Len(t)
  OBVIOUS
<1>6. n \in A
  BY <1>3, <1>4, SetInduction
<1> QED
  BY <1>5, <1>6 DEF A

LEMMA NonGreaseEmpty == NonGrease(<<>>) = <<>>
BY FlattenEmpty DEF NonGrease

-----------------------------------------------------------------------------
\* The other instance reads them the same way, and knows the same GREASE.
LEMMA Ja4Reads ==
  /\ \A b, i : Ja4!Byte(b, i) = Byte(b, i)
  /\ \A b, i : Ja4!U16(b, i) = U16(b, i)
  /\ \A b, i : Ja4!U24(b, i) = U24(b, i)
  /\ \A b, i, n : Ja4!U16List(b, i, n) = U16List(b, i, n)
  /\ \A b, i, j : Ja4!Slice(b, i, j) = Slice(b, i, j)
  /\ \A b : Ja4!RecordHeader(b) = RecordHeader(b)
BY DEF Ja4!Byte, Byte, Ja4!U16, U16, Ja4!U24, U24, Ja4!U16List, U16List, Ja4!Slice, Slice,
       Ja4!RecordHeader, RecordHeader

LEMMA Ja4LeavesOut == \A s : Ja4!NonGrease(s) = NonGrease(s)
BY DEF Ja4!NonGrease, NonGrease, Ja4!Grease, Grease, Ja4!FlattenSeq, FlattenSeq

\* The lists of x are those of JA3 in r, without GREASE.
Thinned(x, r) ==
    /\ x.types = NonGrease(r.types) /\ x.groups = NonGrease(r.groups)
    /\ x.formats = r.formats

IsJa4Seen(x) ==
    \E v, s, t, g, f, n, a, l, h :
        x = [version |-> v, suites |-> s, types |-> t, groups |-> g, formats |-> f,
             sni |-> n, alpn |-> a, algorithms |-> l, highest |-> h]

SameLists(x, y) == y.types = x.types /\ y.groups = x.groups /\ y.formats = x.formats

LEMMA Ja4Sets ==
  ASSUME NEW x, IsJa4Seen(x), NEW e
  PROVE  /\ \A y : y = [x EXCEPT !.version = e] =>
               IsJa4Seen(y) /\ y.version = e /\ SameLists(x, y)
         /\ \A y : y = [x EXCEPT !.suites = e] =>
               IsJa4Seen(y) /\ y.suites = e /\ y.version = x.version /\ SameLists(x, y)
<1>1. PICK v, s, t, g, f, n, a, l, h :
          x = [version |-> v, suites |-> s, types |-> t, groups |-> g, formats |-> f,
               sni |-> n, alpn |-> a, algorithms |-> l, highest |-> h]
  BY DEF IsJa4Seen
<1>2. ASSUME NEW y, y = [x EXCEPT !.version = e]
      PROVE  IsJa4Seen(y) /\ y.version = e /\ SameLists(x, y)
  <2>1. y = [version |-> e, suites |-> s, types |-> t, groups |-> g, formats |-> f,
             sni |-> n, alpn |-> a, algorithms |-> l, highest |-> h]
    BY <1>1, <1>2
  <2>2. IsJa4Seen(y)
    BY <2>1, Zenon DEF IsJa4Seen
  <2> QED
    BY <1>1, <2>1, <2>2 DEF SameLists
<1>3. ASSUME NEW y, y = [x EXCEPT !.suites = e]
      PROVE  IsJa4Seen(y) /\ y.suites = e /\ y.version = x.version /\ SameLists(x, y)
  <2>1. y = [version |-> v, suites |-> e, types |-> t, groups |-> g, formats |-> f,
             sni |-> n, alpn |-> a, algorithms |-> l, highest |-> h]
    BY <1>1, <1>3
  <2>2. IsJa4Seen(y)
    BY <2>1, Zenon DEF IsJa4Seen
  <2> QED
    BY <1>1, <2>1, <2>2 DEF SameLists
<1> QED
  BY <1>2, <1>3

LEMMA ThinnedGrows ==
  ASSUME NEW b \in Seq(Nat), NEW p \in Nat, NEW r \in Lists, NEW x, Thinned(x, r), NEW y,
         y.types = x.types \o NonGrease(<<U16(b, p)>>),
         y.groups = x.groups \o NonGrease(GroupsAt(b, p)),
         y.formats = x.formats \o FormatsAt(b, p)
  PROVE  Thinned(y, ListsWith(b, p, r))
<1>1. U16(b, p) \in Nat
  BY U16IsNat
<1>2. r.types \in Seq(Nat) /\ r.groups \in Seq(Nat)
  BY DEF Lists
<1>3. GroupsAt(b, p) \in Seq(Nat)
  <2>1. p + 4 \in Nat /\ p + 6 \in Nat
    OBVIOUS
  <2>2. U16(b, p + 4) \in Nat
    BY <2>1, U16IsNat
  <2>3. U16List(b, p + 6, U16(b, p + 4)) \in Seq(Nat)
    BY <2>1, <2>2, U16ListIsSeq
  <2> QED
    BY <2>3 DEF GroupsAt
<1>4. NonGrease(Append(r.types, U16(b, p))) = NonGrease(r.types) \o NonGrease(<<U16(b, p)>>)
  BY <1>1, <1>2, NonGreaseAppend
<1>5. NonGrease(r.groups \o GroupsAt(b, p)) = NonGrease(r.groups) \o NonGrease(GroupsAt(b, p))
  BY <1>2, <1>3, NonGreaseConcat
<1> QED
  BY <1>4, <1>5 DEF Thinned, ListsWith

(***************************************************************************)
(* computeJa4() has read the same places, and whatever JA3 throws at there *)
(* it has thrown at as well.                                               *)
(***************************************************************************)
Ja4Walks ==
    /\ IsJa4Seen(ja4)
    /\ ja4At \in BeforeBlock \cup {"extension", "accepted", "rejected"}
    /\ ja4At # "header" => ja3At \in Outcomes
    /\ ja4At \notin {"header", "rejected"} => ja4End = BodyLimit(buf) /\ ~NoHelloIn(buf)
    /\ ja4At = "version" => ja4Pos = Start(buf)
    /\ ja4At = "session" => ja4Pos = SessionPlace(buf)
    /\ ja4At = "ciphers" => ja4Pos = SuitesPlace(buf)
    /\ ja4At = "compression" => ja4Pos = MethodsPlace(buf)
    /\ ja4At = "block" => ja4Pos = BlockPlace(buf)
    /\ ja4At \in BeforeBlock => Thinned(ja4, NoLists)
    /\ ja4At \in BehindVersion =>
          /\ ja4.version = U16(buf, Start(buf))
          /\ SessionPlace(buf) <= BodyLimit(buf)
    /\ ja4At \in BehindVersion \ {"session"} =>
          /\ SessionPlace(buf) + 1 <= Len(buf)
          /\ SuitesPlace(buf) + 2 <= BodyLimit(buf)
    /\ ja4At \in BehindSuites =>
          /\ ja4.suites = NonGrease(SuitesRead(buf))
          /\ MethodsPlace(buf) + 1 <= BodyLimit(buf)
    /\ ja4At = "extension" =>
          /\ HasBlock(buf) /\ ja4ExtensionsEnd = BlockLimit(buf)
          /\ \E n, c, r : Trail(buf, c, n, r) /\ ja4Pos = c[n] /\ Thinned(ja4, r[n])
    /\ ja4At = "accepted" =>
          IF HasBlock(buf)
          THEN \E n, c, r : Trail(buf, c, n, r) /\ Complete(buf, c, n) /\ Thinned(ja4, r[n])
          ELSE Thinned(ja4, NoLists)

\* JA4 is called when JA3 has returned or thrown.
Called == TypeInv /\ Ja4Walks /\ ja3At \in Outcomes /\ UNCHANGED <<buf, ja3Vars>>

LEMMA Ja4Throws ==
  ASSUME Called, Ja4!Throw
  PROVE  Ja4Walks'
BY DEF Called, Ja4Walks, Ja4!Throw, BeforeBlock, BehindVersion, BehindSuites, ja3Vars, Outcomes

LEMMA Ja4WalksHeader == Called /\ Ja4!Header => Ja4Walks'
<1> SUFFICES ASSUME Called, Ja4!Header PROVE Ja4Walks'
  OBVIOUS
<1> DEFINE start == RecordHeader(buf)
<1>1. CASE Ja4!NoHello(start)
  <2>1. Ja4!Throw
    BY <1>1, Ja4Reads DEF Ja4!Header
  <2> QED
    BY <2>1, Ja4Throws
<1>2. CASE ~Ja4!NoHello(start)
  <2>1. /\ ja4At = "header" /\ ja4At' = "version"
        /\ ja4Pos' = start + 4 /\ ja4End' = start + 4 + U24(buf, start + 1)
        /\ UNCHANGED <<buf, ja4ExtensionsEnd, ja4>>
    BY <1>2, Ja4Reads DEF Ja4!Header
  <2>2. start \in Nat
    BY RecordHeaderIsNat DEF Called, TypeInv, TypeOK
  <2>3. Start(buf) = start + 4 /\ Start(buf) - 3 = start + 1
    BY <2>2 DEF Start
  <2>4. BodyLimit(buf) = start + 4 + U24(buf, start + 1)
    BY <2>3 DEF BodyLimit
  <2>5. ~NoHelloIn(buf)
    BY <1>2, Ja4Reads DEF Ja4!NoHello, Ja4!Missing, NoHelloIn
  <2> HIDE DEF start
  <2> QED
    BY <2>1, <2>3, <2>4, <2>5
       DEF Called, Ja4Walks, BeforeBlock, BehindVersion, BehindSuites, ja3Vars, Outcomes
<1> QED
  BY <1>1, <1>2

LEMMA Ja4WalksVersion == Called /\ Ja4!Version => Ja4Walks'
<1> SUFFICES ASSUME Called, Ja4!Version PROVE Ja4Walks'
  OBVIOUS
<1>0. ja4At = "version" /\ ja4Pos = Start(buf) /\ ja4End = BodyLimit(buf)
  BY DEF Called, Ja4Walks, Ja4!Version
<1>1. CASE ja4Pos + 2 + 32 > ja4End
  BY <1>1, Ja4Throws DEF Ja4!Version
<1>2. CASE ~(ja4Pos + 2 + 32 > ja4End)
  <2>1. /\ ja4At' = "session" /\ ja4Pos' = ja4Pos + 2 + 32
        /\ ja4' = [ja4 EXCEPT !.version = U16(buf, ja4Pos)]
        /\ UNCHANGED <<buf, ja4End, ja4ExtensionsEnd>>
    BY <1>2, Ja4Reads DEF Ja4!Version, Ja4!Walk
  <2>2. PICK p \in Nat, limit \in Nat : p = Start(buf) /\ limit = BodyLimit(buf)
    BY PlacesInBuffer DEF PlacesAreNats, Called, TypeInv, TypeOK
  <2>3. ja4Pos' = SessionPlace(buf) /\ SessionPlace(buf) <= BodyLimit(buf)
    <3>1. p + 2 + 32 = p + 34
      OBVIOUS
    <3> QED
      BY <1>0, <1>2, <2>1, <2>2, <3>1 DEF SessionPlace
  <2>4. IsJa4Seen(ja4') /\ ja4'.version = U16(buf, p) /\ Thinned(ja4', NoLists)
    <3>1. IsJa4Seen(ja4) /\ Thinned(ja4, NoLists)
      BY <1>0 DEF Called, Ja4Walks, BeforeBlock
    <3> QED
      BY <1>0, <2>1, <2>2, <3>1, Ja4Sets DEF SameLists, Thinned
  <2> QED
    BY <1>0, <2>1, <2>2, <2>3, <2>4
       DEF Called, Ja4Walks, BeforeBlock, BehindVersion, BehindSuites, ja3Vars, Outcomes
<1> QED
  BY <1>1, <1>2

LEMMA Ja4WalksSessionId == Called /\ Ja4!SessionId => Ja4Walks'
<1> SUFFICES ASSUME Called, Ja4!SessionId PROVE Ja4Walks'
  OBVIOUS
<1>0. ja4At = "session" /\ ja4Pos = SessionPlace(buf) /\ ja4End = BodyLimit(buf)
  BY DEF Called, Ja4Walks, Ja4!SessionId
<1> DEFINE Throws == Ja4!Missing(ja4Pos, 1) \/ ja4Pos + 1 + Byte(buf, ja4Pos) + 2 > ja4End
<1>1. CASE Throws
  <2>1. Ja4!Throw
    BY <1>1, Ja4Reads DEF Ja4!SessionId
  <2> QED
    BY <2>1, Ja4Throws
<1>2. CASE ~Throws
  <2>1. /\ ja4At' = "ciphers" /\ ja4Pos' = ja4Pos + 1 + Byte(buf, ja4Pos) /\ ja4' = ja4
        /\ UNCHANGED <<buf, ja4End, ja4ExtensionsEnd>>
    BY <1>2, Ja4Reads DEF Ja4!SessionId, Ja4!Walk
  <2>2. ja4Pos' = SuitesPlace(buf)
    BY <1>0, <2>1 DEF SuitesPlace
  <2>3. SessionPlace(buf) + 1 <= Len(buf) /\ SuitesPlace(buf) + 2 <= BodyLimit(buf)
    <3>1. /\ SessionPlace(buf) \in Nat /\ SuitesPlace(buf) \in Nat /\ BodyLimit(buf) \in Nat
          /\ Len(buf) \in Nat
      BY PlacesInBuffer DEF PlacesAreNats, Called, TypeInv, TypeOK
    <3>2. ~(SessionPlace(buf) + 1 > Len(buf)) /\ ~(SuitesPlace(buf) + 2 > BodyLimit(buf))
      BY <1>0, <1>2 DEF Ja4!Missing, SuitesPlace
    <3> QED
      BY <3>1, <3>2
  <2> QED
    BY <1>0, <2>1, <2>2, <2>3
       DEF Called, Ja4Walks, BeforeBlock, BehindVersion, BehindSuites, ja3Vars, Outcomes
<1> QED
  BY <1>1, <1>2

LEMMA Ja4WalksCipherSuites == Called /\ Ja4!CipherSuites => Ja4Walks'
<1> SUFFICES ASSUME Called, Ja4!CipherSuites PROVE Ja4Walks'
  OBVIOUS
<1>0. ja4At = "ciphers" /\ ja4Pos = SuitesPlace(buf) /\ ja4End = BodyLimit(buf)
  BY DEF Called, Ja4Walks, Ja4!CipherSuites
<1> DEFINE len == U16(buf, ja4Pos)
<1>1. CASE ja4Pos + 2 + len + 1 > ja4End
  <2>1. Ja4!Throw
    BY <1>1, Ja4Reads DEF Ja4!CipherSuites
  <2> QED
    BY <2>1, Ja4Throws
<1>2. CASE ~(ja4Pos + 2 + len + 1 > ja4End)
  <2>1. /\ ja4At' = "compression" /\ ja4Pos' = ja4Pos + 2 + len
        /\ ja4' = [ja4 EXCEPT !.suites = NonGrease(U16List(buf, ja4Pos + 2, len))]
        /\ UNCHANGED <<buf, ja4End, ja4ExtensionsEnd>>
    BY <1>2, Ja4Reads, Ja4LeavesOut DEF Ja4!CipherSuites, Ja4!Walk
  <2>2. ja4Pos' = MethodsPlace(buf) /\ U16List(buf, ja4Pos + 2, len) = SuitesRead(buf)
    BY <1>0, <2>1 DEF MethodsPlace, SuitesRead
  <2>3. MethodsPlace(buf) + 1 <= BodyLimit(buf)
    <3>1. MethodsPlace(buf) \in Nat /\ BodyLimit(buf) \in Nat
      BY PlacesInBuffer DEF PlacesAreNats, Called, TypeInv, TypeOK
    <3>2. ~(MethodsPlace(buf) + 1 > BodyLimit(buf))
      BY <1>0, <1>2 DEF MethodsPlace
    <3> QED
      BY <3>1, <3>2
  <2> HIDE DEF len
  <2>4. /\ IsJa4Seen(ja4') /\ ja4'.suites = NonGrease(SuitesRead(buf))
        /\ ja4'.version = ja4.version /\ Thinned(ja4', NoLists)
    <3>1. IsJa4Seen(ja4) /\ Thinned(ja4, NoLists)
      BY <1>0 DEF Called, Ja4Walks, BeforeBlock
    <3> QED
      BY <2>1, <2>2, <3>1, Ja4Sets DEF SameLists, Thinned
  <2> QED
    BY <1>0, <2>1, <2>2, <2>3, <2>4
       DEF Called, Ja4Walks, BeforeBlock, BehindVersion, BehindSuites, ja3Vars, Outcomes
<1> QED
  BY <1>1, <1>2

LEMMA Ja4WalksMethods == Called /\ Ja4!CompressionMethods => Ja4Walks'
<1> SUFFICES ASSUME Called, Ja4!CompressionMethods PROVE Ja4Walks'
  OBVIOUS
<1>1. /\ ja4At = "compression" /\ ja4At' = "block" /\ ja4' = ja4
      /\ ja4Pos' = ja4Pos + 1 + Byte(buf, ja4Pos)
      /\ UNCHANGED <<buf, ja4End, ja4ExtensionsEnd>>
  BY Ja4Reads DEF Ja4!CompressionMethods, Ja4!Walk
<1>2. ja4Pos' = BlockPlace(buf)
  BY <1>1 DEF Called, Ja4Walks, BlockPlace
<1> QED
  BY <1>1, <1>2
     DEF Called, Ja4Walks, BeforeBlock, BehindVersion, BehindSuites, ja3Vars, Outcomes

LEMMA Ja4WalksNoBlock == Called /\ Ja4!NoBlock => Ja4Walks'
<1> SUFFICES ASSUME Called, Ja4!NoBlock PROVE Ja4Walks'
  OBVIOUS
<1>1. /\ ja4At = "block" /\ ja4At' = "accepted" /\ ja4Pos + 2 > ja4End /\ ja4' = ja4
      /\ UNCHANGED <<buf, ja4End, ja4ExtensionsEnd>>
  BY DEF Ja4!NoBlock, Ja4!Walk
<1>2. ja4Pos = BlockPlace(buf) /\ ja4End = BodyLimit(buf)
  BY <1>1 DEF Called, Ja4Walks
<1>3. BlockPlace(buf) \in Nat /\ BodyLimit(buf) \in Nat
  BY PlacesInBuffer DEF PlacesAreNats, Called, TypeInv, TypeOK
<1>4. ~HasBlock(buf)
  BY <1>1, <1>2, <1>3 DEF HasBlock
<1> QED
  BY <1>1, <1>4
     DEF Called, Ja4Walks, BeforeBlock, BehindVersion, BehindSuites, ja3Vars, Outcomes

LEMMA Ja4WalksBlock == Called /\ Ja4!Block => Ja4Walks'
<1> SUFFICES ASSUME Called, Ja4!Block PROVE Ja4Walks'
  OBVIOUS
<1>1. /\ ja4At = "block" /\ ja4At' = "extension" /\ ja4Pos + 2 <= ja4End
      /\ ja4Pos' = ja4Pos + 2 /\ ja4ExtensionsEnd' = ja4Pos + 2 + U16(buf, ja4Pos)
      /\ UNCHANGED <<buf, ja4End, ja4>>
  BY Ja4Reads DEF Ja4!Block
<1>2. ja4Pos = BlockPlace(buf) /\ ja4End = BodyLimit(buf) /\ Thinned(ja4, NoLists)
  BY <1>1 DEF Called, Ja4Walks, BeforeBlock
<1>3. HasBlock(buf) /\ ja4ExtensionsEnd' = BlockLimit(buf)
  BY <1>1, <1>2 DEF HasBlock, BlockLimit
<1>4. \E n, c, r : Trail(buf, c, n, r) /\ ja4Pos' = c[n] /\ Thinned(ja4, r[n])
  <2>1. PICK c, r : Trail(buf, c, 0, r) /\ c[0] = BlockPlace(buf) + 2 /\ r[0] = NoLists
    BY TrailStarts DEF Called, TypeInv, TypeOK
  <2> QED
    BY <1>1, <1>2, <2>1
<1> QED
  BY <1>1, <1>3, <1>4
     DEF Called, Ja4Walks, BeforeBlock, BehindVersion, BehindSuites, ja3Vars, Outcomes

Ja4With(x, ts, gs, fs, sni, alpn, as, top) ==
    [x EXCEPT !.types = ts, !.groups = gs, !.formats = fs, !.sni = sni,
              !.alpn = alpn, !.algorithms = as, !.highest = top]

LEMMA Ja4Adds ==
  ASSUME NEW x, IsJa4Seen(x), NEW ts, NEW gs, NEW fs, NEW sni, NEW alpn, NEW as, NEW top,
         NEW y, y = Ja4With(x, ts, gs, fs, sni, alpn, as, top)
  PROVE  /\ IsJa4Seen(y) /\ y.version = x.version /\ y.suites = x.suites
         /\ y.types = ts /\ y.groups = gs /\ y.formats = fs
<1>1. PICK v, s, t, g, f, n, a, l, h :
          x = [version |-> v, suites |-> s, types |-> t, groups |-> g, formats |-> f,
               sni |-> n, alpn |-> a, algorithms |-> l, highest |-> h]
  BY DEF IsJa4Seen
<1>2. y = [version |-> v, suites |-> s, types |-> ts, groups |-> gs, formats |-> fs,
           sni |-> sni, alpn |-> alpn, algorithms |-> as, highest |-> top]
  BY <1>1 DEF Ja4With
<1>3. IsJa4Seen(y)
  BY <1>2, Zenon DEF IsJa4Seen
<1>4. y.version = v /\ y.suites = s /\ y.types = ts /\ y.groups = gs /\ y.formats = fs
  BY ONLY <1>2
<1>5. x.version = v /\ x.suites = s
  BY ONLY <1>1
<1> QED
  BY <1>3, <1>4, <1>5

LEMMA Ja4WalksExtension == Called /\ Ja4!NextExtension => Ja4Walks'
<1> SUFFICES ASSUME Called, Ja4!NextExtension PROVE Ja4Walks'
  OBVIOUS
<1>0. /\ ja4At = "extension" /\ ja4Pos + 4 <= ja4ExtensionsEnd
      /\ HasBlock(buf) /\ ja4ExtensionsEnd = BlockLimit(buf) /\ buf \in Seq(Nat)
  BY DEF Called, Ja4Walks, Ja4!NextExtension, Ja4!MoreExtensions, TypeInv, TypeOK
<1>1. PICK n, c, r : Trail(buf, c, n, r) /\ ja4Pos = c[n] /\ Thinned(ja4, r[n])
  BY <1>0 DEF Called, Ja4Walks
<1> DEFINE type == Ja4!U16(buf, ja4Pos)
           len == Ja4!U16(buf, ja4Pos + 2)
           Throws == \/ Ja4!Missing(ja4Pos, 4)
                     \/ Ja4!ListMissing(type, len)
                     \/ Ja4!HasProtocols(type, len) /\ Ja4!ProtocolsMissing
                     \/ Ja4!HasAlgorithms(type, len) /\ Ja4!Missing(ja4Pos + 4, 2)
<1>2. Ja4!Missing(ja4Pos, 4) \/ Ja4!ListMissing(type, len) <=> BadExtension(buf, ja4Pos)
  BY Ja4Reads DEF Ja4!Missing, Ja4!ListMissing, Ja4!HasGroups, Ja4!HasFormats, BadExtension
<1>3. CASE Throws
  <2>1. Ja4!Throw
    BY <1>3 DEF Ja4!NextExtension
  <2> QED
    BY <2>1, Ja4Throws
<1>4. CASE ~Throws
  <2> DEFINE sni == ja4.sni \/ type = 0
             alpn == IF Ja4!HasProtocols(type, len) THEN Ja4!Protocols ELSE ja4.alpn
             algorithms == ja4.algorithms \o
                 IF Ja4!HasAlgorithms(type, len) THEN Ja4!Algorithms(len) ELSE <<>>
             highest == IF Ja4!HasVersions(type, len)
                        THEN Ja4!Highest(Ja4!Versions(len), ja4.highest) ELSE ja4.highest
             types == ja4.types \o Ja4!NonGrease(<<type>>)
             groups == ja4.groups \o Ja4!NonGrease(Ja4!Groups(type, len))
             formats == ja4.formats \o Ja4!Formats(type, len)
  <2>1. /\ ja4At' = "extension" /\ ja4Pos' = ja4Pos + 4 + len
        /\ ja4' = Ja4With(ja4, types, groups, formats, sni, alpn, algorithms, highest)
        /\ UNCHANGED <<buf, ja4End, ja4ExtensionsEnd>>
    BY <1>4 DEF Ja4!NextExtension, Ja4!Walk, Ja4With
  <2>2. type = U16(buf, ja4Pos) /\ len = U16(buf, ja4Pos + 2)
    BY Ja4Reads
  <2>3. Ja4!Groups(type, len) = GroupsAt(buf, ja4Pos)
    BY Ja4Reads DEF Ja4!Groups, Ja4!HasGroups, GroupsAt
  <2>4. Ja4!Formats(type, len) = FormatsAt(buf, ja4Pos)
    BY Ja4Reads DEF Ja4!Formats, Ja4!HasFormats, FormatsAt
  <2>5. /\ types = ja4.types \o NonGrease(<<U16(buf, ja4Pos)>>)
        /\ groups = ja4.groups \o NonGrease(GroupsAt(buf, ja4Pos))
        /\ formats = ja4.formats \o FormatsAt(buf, ja4Pos)
    BY <2>2, <2>3, <2>4, Ja4LeavesOut
  <2> HIDE DEF sni, alpn, algorithms, highest, types, groups, formats, type, len
  <2>6. /\ IsJa4Seen(ja4') /\ ja4'.version = ja4.version /\ ja4'.suites = ja4.suites
        /\ ja4'.types = types /\ ja4'.groups = groups /\ ja4'.formats = formats
    <3>1. IsJa4Seen(ja4)
      BY DEF Called, Ja4Walks
    <3> QED
      BY <2>1, <3>1, Ja4Adds
  <2>7. PICK d, q : TrailContinues(buf, c, r, d, q, n)
    <3>1. c[n] + 4 <= BlockLimit(buf) /\ ~BadExtension(buf, c[n])
      BY <1>0, <1>1, <1>2, <1>4
    <3> QED
      BY <1>0, <1>1, <3>1, TrailGrows, Zenon
  <2>8. ja4Pos' = d[n + 1]
    BY <1>1, <2>1, <2>2, <2>7 DEF TrailContinues
  <2>9. Thinned(ja4', q[n + 1])
    <3>1. ja4Pos \in Nat /\ r[n] \in Lists
      BY <1>1 DEF Trail, Chain
    <3>2. Thinned(ja4', ListsWith(buf, ja4Pos, r[n]))
      BY <1>0, <1>1, <2>5, <2>6, <3>1, ThinnedGrows
    <3> QED
      BY <1>1, <2>7, <3>2 DEF TrailContinues
  <2>10. \E m, e, s : Trail(buf, e, m, s) /\ ja4Pos' = e[m] /\ Thinned(ja4', s[m])
    <3>1. Trail(buf, d, n + 1, q)
      BY <2>7 DEF TrailContinues
    <3> QED
      BY <2>8, <2>9, <3>1
  <2> QED
    BY <1>0, <2>1, <2>6, <2>10
       DEF Called, Ja4Walks, BeforeBlock, BehindVersion, BehindSuites, ja3Vars, Outcomes
<1> QED
  BY <1>3, <1>4

LEMMA Ja4WalksEnd == Called /\ Ja4!EndOfBlock => Ja4Walks'
<1> SUFFICES ASSUME Called, Ja4!EndOfBlock PROVE Ja4Walks'
  OBVIOUS
<1>1. /\ ja4At = "extension" /\ ja4At' = "accepted" /\ ~(ja4Pos + 4 <= ja4ExtensionsEnd)
      /\ ja4' = ja4 /\ UNCHANGED <<buf, ja4End, ja4ExtensionsEnd>>
  BY DEF Ja4!EndOfBlock, Ja4!MoreExtensions, Ja4!Walk
<1>2. HasBlock(buf) /\ ja4ExtensionsEnd = BlockLimit(buf)
  BY <1>1 DEF Called, Ja4Walks
<1>3. PICK n, c, r : Trail(buf, c, n, r) /\ ja4Pos = c[n] /\ Thinned(ja4, r[n])
  BY <1>1 DEF Called, Ja4Walks
<1>4. Complete(buf, c, n)
  <2>1. Chain(buf, c, n) /\ c[n] \in Nat
    BY <1>3 DEF Trail, Chain
  <2>2. BlockLimit(buf) \in Nat
    BY PlacesInBuffer DEF PlacesAreNats, Called, TypeInv, TypeOK
  <2> QED
    BY <1>1, <1>2, <1>3, <2>1, <2>2 DEF Complete
<1>5. \E m, e, s : Trail(buf, e, m, s) /\ Complete(buf, e, m) /\ Thinned(ja4, s[m])
  BY <1>3, <1>4
<1> QED
  BY <1>1, <1>2, <1>5
     DEF Called, Ja4Walks, BeforeBlock, BehindVersion, BehindSuites, ja3Vars, Outcomes

LEMMA Ja4WalksStep == Called /\ Ja4!Next => Ja4Walks'
BY Ja4WalksHeader, Ja4WalksVersion, Ja4WalksSessionId, Ja4WalksCipherSuites,
   Ja4WalksMethods, Ja4WalksNoBlock, Ja4WalksBlock, Ja4WalksExtension, Ja4WalksEnd
   DEF Ja4!Next

\* JA4 waits for JA3's outcome, which then stays as it is.
LEMMA Ja3IsOver == ja3At \in Outcomes => ~Ja3!Next
BY DEF Ja3!Next, Ja3!Header, Ja3!Version, Ja3!SessionId, Ja3!CipherSuites,
       Ja3!CompressionMethods, Ja3!NoBlock, Ja3!Block, Ja3!NextExtension, Ja3!MoreExtensions,
       Ja3!EndOfBlock, Outcomes

\* Nor does the e2e parser go on then: only JA4's fields are looked at.
LEMMA Ja4WalksOn ==
  ASSUME Ja4Walks, UNCHANGED ja4Vars, buf' = buf, ja4At # "header" => ja3At' \in Outcomes
  PROVE  Ja4Walks'
BY DEF Ja4Walks, ja4Vars

LEMMA BothWalkInit == ParsersInit => WalkInv /\ Ja4Walks
<1> SUFFICES ASSUME ParsersInit PROVE Ja4Walks
  BY WalkInit
<1>1. IsJa4Seen(Ja4!Nothing)
  BY Zenon DEF IsJa4Seen, Ja4!Nothing
<1>2. Thinned(Ja4!Nothing, NoLists)
  BY NonGreaseEmpty DEF Thinned, NoLists, Ja4!Nothing
<1> QED
  BY <1>1, <1>2
     DEF ParsersInit, Ja4!Init, Ja4!WalkInit, Ja4Walks, BeforeBlock, BehindVersion, BehindSuites

LEMMA BothWalkStep ==
  WalkInv /\ Ja4Walks /\ [ParsersNext]_parsersVars => WalkInv' /\ Ja4Walks'
<1> SUFFICES ASSUME WalkInv, Ja4Walks, [ParsersNext]_parsersVars PROVE Ja4Walks'
  BY WalkStep
<1>1. buf' = buf
  <2>1. [Next]_parserVars
    BY DEF ParsersNext, parsersVars
  <2> QED
    BY <2>1, BufferStays
<1>2. CASE Ja4!Next /\ ja3At \in Outcomes /\ UNCHANGED ja3Vars
  <2>1. Called
    BY <1>1, <1>2 DEF WalkInv, Called, ja3Vars
  <2> QED
    BY <1>2, <2>1, Ja4WalksStep
<1>3. CASE UNCHANGED ja4Vars
  <2>1. ja4At # "header" => ja3At' \in Outcomes
    <3> SUFFICES ASSUME ja4At # "header" PROVE ja3At' \in Outcomes
      OBVIOUS
    <3>1. ja3At \in Outcomes
      BY DEF Ja4Walks
    <3>2. CASE UNCHANGED ja3Vars
      BY <3>1, <3>2 DEF ja3Vars
    <3>3. CASE Ja3!Next
      BY <3>1, <3>3, Ja3IsOver
    <3> QED
      BY <1>3, <3>1, <3>2, <3>3 DEF ParsersNext, parsersVars
  <2> QED
    BY <1>1, <1>3, <2>1, Ja4WalksOn
<1> QED
  BY <1>2, <1>3 DEF ParsersNext, parsersVars

\* What JA4 has taken gives JA3 no reason to throw.
LEMMA Ja3HasTaken ==
  ASSUME WalkInv, Ja4Walks, ja4At = "accepted"
  PROVE  ja3At = "accepted"
<1>1. ja3At \in Outcomes
  BY DEF Ja4Walks
<1> SUFFICES ASSUME Ja3Refuses(buf) PROVE FALSE
  BY <1>1 DEF WalkInv, Ja3Walks, Outcomes
<1>2. /\ ~NoHelloIn(buf) /\ SessionPlace(buf) <= BodyLimit(buf)
      /\ SessionPlace(buf) + 1 <= Len(buf) /\ SuitesPlace(buf) + 2 <= BodyLimit(buf)
      /\ MethodsPlace(buf) + 1 <= BodyLimit(buf)
  BY DEF Ja4Walks, BehindVersion, BehindSuites
<1>3. /\ Start(buf) \in Nat /\ SessionPlace(buf) \in Nat /\ SuitesPlace(buf) \in Nat
      /\ MethodsPlace(buf) \in Nat /\ BodyLimit(buf) \in Nat /\ Len(buf) \in Nat
      /\ BlockLimit(buf) \in Nat /\ buf \in Seq(Nat)
  BY PlacesInBuffer DEF PlacesAreNats, WalkInv, TypeInv, TypeOK
<1>4. BodyLimit(buf) <= Len(buf)
  <2>1. PICK start \in Nat : start = RecordHeader(buf)
    BY <1>3, RecordHeaderIsNat
  <2>2. Start(buf) = start + 4 /\ Start(buf) - 3 = start + 1
    BY <2>1 DEF Start
  <2>3. BodyLimit(buf) = (start + 4) + U24(buf, start + 1)
    BY <2>2 DEF BodyLimit
  <2>4. PICK x \in Nat : x = U24(buf, start + 1)
    <3>1. start + 1 \in Nat
      OBVIOUS
    <3> QED
      BY <1>3, <3>1, U24IsNat
  <2>5. ~((start + 4) + x > Len(buf))
    BY <1>2, <2>1, <2>4 DEF NoHelloIn
  <2>6. BodyLimit(buf) = (start + 4) + x
    BY <2>3, <2>4
  <2>7. (start + 4) + x <= Len(buf)
    BY ONLY <1>3, <2>5, start \in Nat, x \in Nat
  <2> QED
    BY ONLY <2>6, <2>7
<1>5. Start(buf) + 2 <= Len(buf)
  BY <1>2, <1>3, <1>4 DEF SessionPlace
<1>6. ~((SuitesPlace(buf) + 2) + 2 * (U16(buf, SuitesPlace(buf)) \div 2) > Len(buf))
  <2>1. PICK len \in Nat : len = U16(buf, SuitesPlace(buf))
    BY <1>3, U16IsNat
  <2>2. PICK half \in Nat : half = len \div 2
    BY ONLY <2>1, len \in Nat
  <2>3. 2 * half <= len
    BY ONLY <2>2, len \in Nat
  <2>4. PICK place \in Nat : place = SuitesPlace(buf)
    BY ONLY <1>3, Zenon
  <2>5. PICK end \in Nat : end = Len(buf)
    BY ONLY <1>3, Zenon
  <2>6. MethodsPlace(buf) = place + 2 + len
    BY <2>1, <2>4 DEF MethodsPlace
  <2>7. place + 2 + len + 1 <= end
    <3>1. place + 2 + len + 1 <= BodyLimit(buf)
      BY <1>2, <2>6, Zenon
    <3> QED
      BY ONLY <3>1, <1>3, <1>4, <2>5, place \in Nat, len \in Nat
  <2>8. ~((place + 2) + 2 * half > end)
    BY ONLY <2>3, <2>7, place \in Nat, len \in Nat, half \in Nat, end \in Nat
  <2> QED
    BY ONLY <2>1, <2>2, <2>4, <2>5, <2>8, Zenon
<1>7. PICK m, d : /\ HasBlock(buf) /\ Chain(buf, d, m) /\ d[m] + 4 <= BlockLimit(buf)
                  /\ BadExtension(buf, d[m])
  <2>1. /\ ~(Start(buf) + 2 > Len(buf)) /\ ~(SessionPlace(buf) + 1 > Len(buf))
        /\ ~(SuitesPlace(buf) + 2 > Len(buf)) /\ ~(MethodsPlace(buf) + 1 > Len(buf))
    <3>1. ~(Start(buf) + 2 > Len(buf))
      BY ONLY <1>3, <1>5
    <3>2. ~(SessionPlace(buf) + 1 > Len(buf))
      BY ONLY <1>2, <1>3
    <3>3. ~(SuitesPlace(buf) + 2 > Len(buf))
      BY ONLY <1>2, <1>3, <1>4
    <3>4. ~(MethodsPlace(buf) + 1 > Len(buf))
      BY ONLY <1>2, <1>3, <1>4
    <3> QED
      BY ONLY <3>1, <3>2, <3>3, <3>4
  <2> QED
    BY <1>2, <1>6, <2>1 DEF Ja3Refuses
<1>8. PICK n, c, r : Trail(buf, c, n, r) /\ Complete(buf, c, n)
  BY <1>7 DEF Ja4Walks
<1>9. n \in Nat /\ m \in Nat /\ Chain(buf, c, n) /\ c \in [0 .. n -> Nat] /\ d \in [0 .. m -> Nat]
  BY <1>7, <1>8 DEF Trail, Chain
<1>10. CASE n <= m
  <2>1. \A k \in 0 .. n : c[k] = d[k]
    <3>1. Chain(buf, c, n) /\ Chain(buf, d, m) /\ n <= m
      BY <1>7, <1>9, <1>10
    <3> QED
      BY <3>1, ChainsAgree
  <2>2. c[n] = d[n] /\ c[n] + 4 > BlockLimit(buf) /\ c[n] \in Nat
    BY <1>8, <1>9, <2>1 DEF Complete
  <2>3. CASE n = m
    BY <1>3, <1>7, <2>2, <2>3
  <2>4. CASE n # m
    <3>1. n + 1 \in 1 .. m /\ (n + 1) - 1 = n
      BY <1>9, <1>10, <2>4
    <3>2. d[n] + 4 <= BlockLimit(buf)
      BY <1>7, <3>1 DEF Chain
    <3> QED
      BY <1>3, <2>2, <3>2
  <2> QED
    BY <2>3, <2>4
<1>11. CASE ~(n <= m)
  <2>1. m <= n /\ m + 1 \in 1 .. n /\ (m + 1) - 1 = m
    BY <1>9, <1>11
  <2>2. \A k \in 0 .. m : d[k] = c[k]
    <3>1. Chain(buf, c, n) /\ Chain(buf, d, m) /\ m <= n
      BY <1>7, <1>9, <2>1
    <3> QED
      BY <3>1, ChainsAgree
  <2>3. c[m] = d[m]
    BY <1>9, <2>2
  <2>4. ~BadExtension(buf, c[m])
    BY <1>8, <2>1 DEF Trail
  <2> QED
    BY <1>7, <2>3, <2>4
<1> QED
  BY <1>10, <1>11

LEMMA WalksAreWithin == WalkInv /\ Ja4Walks => Ja4WithinJa3
<1> SUFFICES ASSUME WalkInv, Ja4Walks, ja4At = "accepted"
             PROVE  /\ ja3At = "accepted"
                    /\ ja4.version = ja3.version
                    /\ ja4.suites = NonGrease(ja3.suites)
                    /\ Thinned(ja4, ja3)
  BY DEF Ja4WithinJa3, Thinned
<1>1. ja3At = "accepted"
  BY Ja3HasTaken
<1>2. /\ ja3.version = U16(buf, Start(buf)) /\ ja3.suites = SuitesRead(buf)
      /\ ja4.version = U16(buf, Start(buf)) /\ ja4.suites = NonGrease(SuitesRead(buf))
  BY <1>1 DEF WalkInv, Ja3Walks, Ja4Walks, BehindVersion, BehindSuites
<1>3. Thinned(ja4, ListsOf(ja3))
  <2>1. CASE ~HasBlock(buf)
    BY <1>1, <2>1 DEF WalkInv, Ja3Walks, Ja4Walks
  <2>2. CASE HasBlock(buf)
    <3>1. PICK n, c, r : Trail(buf, c, n, r) /\ Complete(buf, c, n) /\ Thinned(ja4, r[n])
      BY <2>2 DEF Ja4Walks
    <3>2. PICK m, d, q : Trail(buf, d, m, q) /\ Complete(buf, d, m) /\ ListsOf(ja3) = q[m]
      BY <1>1, <2>2 DEF WalkInv, Ja3Walks
    <3>3. n = m /\ c = d
      BY <3>1, <3>2, CompleteAgree DEF WalkInv, TypeInv, TypeOK
    <3>4. r[n] = q[n]
      BY <3>1, <3>2, <3>3, TrailsAgree
    <3> QED
      BY <3>1, <3>2, <3>3, <3>4
  <2> QED
    BY <2>1, <2>2
<1>4. Thinned(ja4, ja3)
  BY <1>3 DEF Thinned, ListsOf
<1> QED
  BY <1>1, <1>2, <1>4

(***************************************************************************)
(* Whatever the buffer holds, computeJa4() takes nothing that computeJa3() *)
(* refuses, and what both have read differs by GREASE only.                *)
(***************************************************************************)
THEOREM Ja4StaysWithinJa3 == ParsersSpec => []Ja4WithinJa3
<1>1. ParsersInit => WalkInv /\ Ja4Walks
  BY BothWalkInit
<1>2. (WalkInv /\ Ja4Walks) /\ [ParsersNext]_parsersVars => (WalkInv /\ Ja4Walks)'
  BY BothWalkStep
<1>3. WalkInv /\ Ja4Walks => Ja4WithinJa3
  BY WalksAreWithin
<1> QED
  BY <1>1, <1>2, <1>3, PTL DEF ParsersSpec

-----------------------------------------------------------------------------
(***************************************************************************)
(* An extension of a message lies in the buffer at p, all of it.           *)
(***************************************************************************)
ExtensionLies(b, p, e) ==
    /\ p \in Nat /\ e.data \in Seq(Nat) /\ Len(e.data) \in Nat
    /\ U16(b, p) = e.type /\ U16(b, p + 2) = Len(e.data)
    /\ p + 4 + Len(e.data) <= Len(b)
    /\ Between(b, p + 4, p + 4 + Len(e.data)) = e.data

SameBytes(d, b, p, n) == \A i \in Nat : i < n => Byte(d, i) = Byte(b, p + i)

LEMMA BytesBehind ==
  ASSUME NEW b \in Seq(Int), NEW p \in Nat, NEW n \in Nat, p + n <= Len(b),
         NEW d, d = Between(b, p, p + n)
  PROVE  SameBytes(d, b, p, n)
<1>1. PICK q \in Nat : q = p + n /\ p <= q /\ q <= Len(b)
  OBVIOUS
<1>2. IsPart(Between(b, p, q), Int, b, p, q)
  BY <1>1, BetweenBytes, Zenon
<1>3. Len(d) = n
  <2>1. Len(d) = q - p
    BY <1>1, <1>2 DEF IsPart
  <2> QED
    BY <1>1, <2>1
<1>4. ASSUME NEW i \in Nat, i < n PROVE Byte(d, i) = Byte(b, p + i)
  <2>1. d[i + 1] = b[(p + i) + 1]
    <3>1. \A k \in 1 .. q - p : d[k] = b[p + k]
      BY <1>1, <1>2 DEF IsPart
    <3>2. i + 1 \in 1 .. q - p /\ p + (i + 1) = (p + i) + 1
      BY <1>1, <1>4
    <3> QED
      BY <3>1, <3>2
  <2>2. p + i < Len(b)
    BY <1>4
  <2> QED
    BY <1>3, <1>4, <2>1, <2>2 DEF Byte
<1> QED
  BY <1>4 DEF SameBytes

LEMMA NextExtensionLies ==
  ASSUME NEW b \in Seq(Int), NEW i \in Nat, NEW es \in Seq(ExtensionTypes),
         NEW k \in Nat, k + 1 <= Len(es), FirstLie(b, i, es, k + 1),
         Len(Extensions(es)) \in Nat
  PROVE  ExtensionLies(b, i + Len(First(es, k)), es[k + 1])
<1>1. PICK e : e = es[k + 1]
  OBVIOUS
<1>2. /\ e.data \in Seq(Nat) /\ e.type \in Nat
      /\ First(es, k + 1) = First(es, k) \o (Bytes16(e.type) \o Vector16(e.data))
  BY <1>1, OneExtensionMore
<1>3. PICK d \in Nat : d = Len(e.data) /\ Run(e.data, d)
  <2>1. e.data \in Seq(Int) /\ Len(e.data) \in Nat
    BY <1>2
  <2> QED
    BY <2>1 DEF Run
<1>4. PICK x \in Nat : Run(First(es, k), x) /\ x = Len(First(es, k))
  <2>1. StepsDown(b, i, es, k)
    BY StepDown
  <2> QED
    BY <2>1 DEF StepsDown, FirstLie
<1>5. PICK y \in Nat : y = Len(First(es, k + 1))
  BY DEF FirstLie
<1>6. /\ Run(Bytes16(e.type), 2) /\ Run(Vector16(e.data), 2 + d) /\ 2 \in Nat
      /\ Run(Bytes16(e.type) \o Vector16(e.data), 2 + (2 + d)) /\ 2 + d \in Nat
      /\ 2 + (2 + d) \in Nat
  <2>1. 2 \in Nat /\ 2 + d \in Nat /\ 2 + (2 + d) \in Nat
    OBVIOUS
  <2>2. Run(Bytes16(e.type), 2)
    BY <1>2, RunBytes16
  <2>3. Run(Vector16(e.data), 2 + d)
    BY <1>3, RunVector16
  <2> QED
    BY <2>1, <2>2, <2>3, RunConcat
<1>7. PICK j \in Nat : j = i + y /\ i <= j /\ j <= Len(b)
         /\ Between(b, i, j) = First(es, k + 1)
  BY <1>5 DEF FirstLie
<1>8. LieAt(b, i, j, First(es, k), x, Bytes16(e.type) \o Vector16(e.data), 2 + (2 + d))
  <2>1. Between(b, i, j) = First(es, k) \o (Bytes16(e.type) \o Vector16(e.data))
    BY <1>2, <1>7
  <2> QED
    BY <1>4, <1>6, <1>7, <2>1, RunSplits, Zenon
<1>9. PICK a \in Nat : a = i + x /\ a <= j /\ j = a + (2 + (2 + d))
  BY <1>8 DEF LieAt
<1>10. Between(b, a, j) = Bytes16(e.type) \o Vector16(e.data)
  BY <1>8, <1>9 DEF LieAt
<1>11. LieAt(b, a, j, Bytes16(e.type), 2, Vector16(e.data), 2 + d)
  BY <1>6, <1>7, <1>9, <1>10, RunSplits, Zenon
<1>12. U16(b, a) = e.type
  <2>1. Between(b, a, a + 2) = Bytes16(e.type)
    BY <1>11 DEF LieAt
  <2>2. a + 2 <= Len(b)
    BY <1>7, <1>9
  <2> QED
    BY <1>2, <2>1, <2>2, U16At
<1>13. U16(b, a + 2) = d /\ Between(b, a + 4, j) = e.data
  <2>1. Between(b, a + 2, j) = Vector16(e.data)
    BY <1>11 DEF LieAt
  <2>2. a + 2 \in Nat /\ a + 2 <= j /\ (a + 2) + 2 = a + 4
    BY <1>9
  <2>3. Vector16Lies(b, a + 2, j, e.data, d)
    BY <1>3, <1>7, <2>1, <2>2, Vector16At, Zenon
  <2> QED
    BY <2>2, <2>3 DEF Vector16Lies
<1>14. j = a + 4 + d
  BY <1>9
<1>15. ExtensionLies(b, a, e)
  BY <1>2, <1>3, <1>7, <1>12, <1>13, <1>14 DEF ExtensionLies
<1> QED
  BY <1>1, <1>4, <1>9, <1>15

(***************************************************************************)
(* The places at which the fingerprints' parsers look in a message are     *)
(* those at which its fields lie.                                          *)
(***************************************************************************)
PlacesFit(b, h) ==
    /\ SessionPlace(b) = Start(b) + 34
    /\ SuitesPlace(b) = Start(b) + SuitesAt(h)
    /\ MethodsPlace(b) = Start(b) + MethodsAt(h)
    /\ BlockPlace(b) = Start(b) + BlockStart(h)
    /\ BodyLimit(b) = Start(b) + Len(Body(h))
    /\ h.extensible <=> HasBlock(b)
    /\ h.extensible => BlockLimit(b) = BodyLimit(b)

LEMMA PlacesDoFit ==
  ASSUME NEW b \in Seq(Nat), NEW h, Sendable(h), Carried(b, h), FieldsAt(b, h), FieldsFit(h)
  PROVE  PlacesFit(b, h)
<1>1. PICK s \in Nat, n \in Nat, p2 \in Nat, p3 \in Nat, p4 \in Nat :
         /\ s = Start(b) /\ n = Len(Body(h)) /\ p2 = SuitesAt(h) /\ p3 = MethodsAt(h)
         /\ p4 = BlockStart(h)
  BY DEF FieldsAt
<1>2. PICK x \in Nat, y \in Nat, z \in Nat :
         x = Len(h.sessionId) /\ y = Len(h.suites) /\ z = Len(h.methods)
  BY DEF FieldsFit
<1>3. p2 = 35 + x /\ p3 = p2 + (2 + (2 * y)) /\ p4 = p3 + (1 + z)
  BY <1>1, <1>2 DEF FieldsFit
<1>4. SessionPlace(b) = s + 34
  BY <1>1 DEF SessionPlace
<1>5. SuitesPlace(b) = s + p2
  <2>1. Byte(b, s + 34) = x
    BY <1>1, <1>2 DEF FieldsAt
  <2> QED
    BY <1>3, <1>4, <2>1 DEF SuitesPlace
<1>6. MethodsPlace(b) = s + p3
  <2>1. U16(b, s + p2) = 2 * y
    BY <1>1, <1>2 DEF FieldsAt
  <2> QED
    BY <1>3, <1>5, <2>1 DEF MethodsPlace
<1>7. BlockPlace(b) = s + p4
  <2>1. Byte(b, s + p3) = z
    BY <1>1, <1>2 DEF FieldsAt
  <2> QED
    BY <1>3, <1>6, <2>1 DEF BlockPlace
<1>8. BodyLimit(b) = s + n
  <2>1. U24(b, (s - 4) + 1) = n
    BY <1>1 DEF Carried, HandshakeAt
  <2>2. (s - 4) + 1 = s - 3
    OBVIOUS
  <2> QED
    BY <1>1, <2>1, <2>2 DEF BodyLimit
<1>9. CASE h.extensible
  <2>1. PICK ex \in Nat : ex = Len(Extensions(h.extensions))
    BY HelloLaidOut, Zenon DEF LaidOut
  <2>2. U16(b, s + p4) = ex /\ n = p4 + 2 + ex
    BY <1>1, <1>9, <2>1 DEF FieldsAt
  <2>3. HasBlock(b)
    BY <1>7, <1>8, <2>2 DEF HasBlock
  <2>4. BlockLimit(b) = BodyLimit(b)
    BY <1>7, <1>8, <2>2 DEF BlockLimit
  <2> QED
    BY <1>1, <1>4, <1>5, <1>6, <1>7, <1>8, <1>9, <2>3, <2>4 DEF PlacesFit
<1>10. CASE ~h.extensible
  <2>1. n = p4
    BY <1>1, <1>10 DEF FieldsAt
  <2>2. ~HasBlock(b)
    BY <1>7, <1>8, <2>1 DEF HasBlock
  <2> QED
    BY <1>1, <1>4, <1>5, <1>6, <1>7, <1>8, <1>10, <2>2 DEF PlacesFit
<1> QED
  BY <1>9, <1>10

(***************************************************************************)
(* So wherever they look for an extension, there is one of the message's.  *)
(***************************************************************************)
LEMMA ChainedExtensionLies ==
  ASSUME NEW b \in Seq(Nat), NEW h, Sendable(h), FieldsAt(b, h), PlacesFit(b, h), h.extensible,
         NEW n, NEW c, Chain(b, c, n), c[n] + 4 <= BlockLimit(b)
  PROVE  n + 1 \in DOMAIN h.extensions /\ ExtensionLies(b, c[n], h.extensions[n + 1])
<1>1. PICK es \in Seq(ExtensionTypes) : es = h.extensions
  BY SendableTypes DEF ExtensionTypes
<1>2. b \in Seq(Int)
  BY SeqMonotonic
<1>3. PICK i \in Nat : i = BlockPlace(b) + 2
  BY PlacesInBuffer DEF PlacesAreNats
<1>4. PICK ex \in Nat : ex = Len(Extensions(es))
  BY <1>1, HelloLaidOut, Zenon DEF LaidOut
<1>5. /\ BlockLimit(b) = i + ex /\ i + ex <= Len(b) /\ Between(b, i, i + ex) = Extensions(es)
  <2>1. PICK s \in Nat, m \in Nat, p \in Nat : s = Start(b) /\ m = Len(Body(h)) /\ p = BlockStart(h)
    BY DEF FieldsAt
  <2>2. /\ m = p + 2 + ex /\ s + m <= Len(b)
        /\ Between(b, s + p + 2, s + m) = Extensions(es)
    BY <1>1, <1>4, <2>1 DEF FieldsAt
  <2>3. i = s + p + 2 /\ BlockLimit(b) = s + m
    BY <1>3, <2>1 DEF PlacesFit
  <2>4. s + m = i + ex
    BY <2>2, <2>3
  <2> QED
    BY <2>2, <2>3, <2>4
<1>6. \A k \in 0 .. Len(es) : FirstLie(b, i, es, k)
  BY <1>2, <1>4, <1>5, AllFirstLie
<1>7. PICK N \in Nat : N = Len(es) /\ DOMAIN es = 1 .. N
  OBVIOUS
<1>8. PICK d : d = [k \in 0 .. N |-> i + Len(First(es, k))]
  OBVIOUS
<1>9. \A k \in 0 .. N : d[k] = i + Len(First(es, k)) /\ d[k] \in Nat /\ d[k] <= i + ex
  BY <1>4, <1>6, <1>7, <1>8 DEF FirstLie
<1>10. ASSUME NEW k \in Nat, k + 1 <= N PROVE ExtensionLies(b, d[k], es[k + 1])
  <2>1. k \in 0 .. N /\ k + 1 \in 0 .. N
    BY <1>10
  <2>2. FirstLie(b, i, es, k + 1)
    BY <1>6, <1>7, <2>1
  <2>3. ExtensionLies(b, i + Len(First(es, k)), es[k + 1])
    BY <1>2, <1>4, <1>7, <1>10, <2>2, NextExtensionLies
  <2> QED
    BY <1>9, <2>1, <2>3
<1>11. d[0] = i /\ d[N] = i + ex
  <2>1. First(es, N) = Extensions(es)
    BY <1>7, SubSeqFull DEF First
  <2>2. Len(First(es, 0)) = 0
    <3>1. SubSeq(es, 1, 0) = <<>>
      BY SubSeqEmpty
    <3>2. Extensions(<<>>) = <<>>
      <4>1. [k \in DOMAIN <<>> |-> Bytes16(<<>>[k].type) \o Vector16(<<>>[k].data)] = <<>>
        OBVIOUS
      <4> QED
        BY <4>1, FlattenEmpty DEF Extensions
    <3>3. First(es, 0) = <<>>
      BY <3>1, <3>2, Zenon DEF First
    <3> QED
      BY <3>3
  <2>3. 0 \in 0 .. N /\ N \in 0 .. N /\ i + 0 = i
    OBVIOUS
  <2> QED
    BY <1>4, <1>9, <2>1, <2>2, <2>3
<1>12. ASSUME NEW k \in 1 .. N
       PROVE  d[k - 1] + 4 <= i + ex /\ d[k] = d[k - 1] + 4 + U16(b, d[k - 1] + 2)
  <2>1. PICK j \in Nat : j = k - 1 /\ k = j + 1 /\ j + 1 <= N
    OBVIOUS
  <2>2. FirstLie(b, i, es, j + 1) /\ j \in 0 .. N /\ j + 1 \in 0 .. N
    BY <1>6, <1>7, <2>1
  <2>3. StepsDown(b, i, es, j)
    BY <1>2, <1>4, <1>7, <2>1, <2>2, StepDown
  <2>4. PICK l \in Nat : l = Len(es[j + 1].data) /\ U16(b, d[j] + 2) = l /\ d[j + 1] = d[j] + 4 + l
    BY <1>9, <2>2, <2>3 DEF StepsDown, NextLies
  <2>5. d[j + 1] <= i + ex /\ d[j] \in Nat
    BY <1>9, <2>2
  <2>6. PICK x \in Nat : x = d[j]
    BY <2>5, Zenon
  <2>7. (x + 4) + l <= i + ex
    BY <2>4, <2>5, <2>6, Zenon
  <2>8. x + 4 <= i + ex
    BY ONLY <2>7, x \in Nat, l \in Nat, i \in Nat, ex \in Nat
  <2>9. d[j] + 4 <= i + ex /\ d[j + 1] = d[j] + 4 + U16(b, d[j] + 2)
    BY <2>4, <2>6, <2>8, Zenon
  <2>10. j = k - 1 /\ j + 1 = k
    BY <2>1
  <2> QED
    BY ONLY <2>9, <2>10, Zenon
<1>13. Chain(b, d, N)
  BY <1>3, <1>5, <1>8, <1>9, <1>11, <1>12 DEF Chain
<1>14. n \in Nat /\ c \in [0 .. n -> Nat]
  BY DEF Chain
<1>15. n + 1 <= N
  <2> SUFFICES ASSUME N <= n PROVE FALSE
    BY <1>14
  <2>1. \A k \in 0 .. N : d[k] = c[k]
    BY <1>13, ChainsAgree
  <2>2. c[N] = i + ex
    BY <1>11, <2>1
  <2>3. CASE n = N
    BY <1>5, <2>2, <2>3
  <2>4. CASE n # N
    <3>1. N + 1 \in 1 .. n /\ (N + 1) - 1 = N
      BY <1>14, <2>4
    <3>2. c[N] + 4 <= i + ex
      BY <1>5, <3>1 DEF Chain
    <3> QED
      BY <2>2, <3>2
  <2> QED
    BY <2>3, <2>4
<1>16. c[n] = d[n]
  <2>1. \A k \in 0 .. n : c[k] = d[k]
    <3>1. n <= N
      BY <1>14, <1>15
    <3> QED
      BY <1>13, <3>1, ChainsAgree
  <2> QED
    BY <1>14, <2>1
<1> QED
  BY <1>1, <1>7, <1>10, <1>14, <1>15, <1>16

LEMMA ListsAreRead ==
  ASSUME NEW b \in Seq(Nat), NEW p \in Nat, NEW e, ExtensionLies(b, p, e), ListFits(e)
  PROVE  ~BadExtension(b, p)
<1>1. PICK n \in Nat, q \in Nat, l \in Nat : n = Len(e.data) /\ q = p + 4 /\ l = Len(b)
  <2>1. p + 4 \in Nat /\ Len(b) \in Nat
    OBVIOUS
  <2>2. Len(e.data) \in Nat
    BY DEF ExtensionLies
  <2> QED
    BY <2>1, <2>2, Zenon
<1>2. U16(b, p) = e.type /\ U16(b, p + 2) = n
  BY <1>1 DEF ExtensionLies
<1>3. q + n <= l
  BY <1>1 DEF ExtensionLies
<1>4. \A i \in Nat : i < n => Byte(e.data, i) = Byte(b, q + i)
  <2>1. b \in Seq(Int)
    BY SeqMonotonic
  <2>2. e.data = Between(b, q, q + n)
    BY <1>1 DEF ExtensionLies
  <2>3. q + n <= Len(b)
    BY <1>1, <1>3
  <2>4. SameBytes(e.data, b, q, n)
    BY <2>1, <2>2, <2>3, BytesBehind, Zenon
  <2> QED
    BY <2>4 DEF SameBytes
<1>5. q <= l
  BY <1>3
<1>6. ASSUME U16(b, p) = 10, n >= 4
      PROVE  /\ ~(q + 2 > l) /\ ~((p + 6) + 2 * (U16(b, q) \div 2) > l)
  <2>1. PICK x \in Nat : x = U16(b, q)
    BY U16IsNat
  <2>2. U16(e.data, 0) = x
    <3>1. 0 < n /\ 0 + 1 < n /\ q + 0 = q /\ q + (0 + 1) = q + 1
      BY <1>6
    <3>2. Byte(e.data, 0) = Byte(b, q) /\ Byte(e.data, 0 + 1) = Byte(b, q + 1)
      BY <1>4, <3>1
    <3> QED
      BY <2>1, <3>2 DEF U16
  <2>3. x <= n - 2
    BY <1>1, <1>2, <1>6, <2>2 DEF ListFits
  <2>4. PICK y \in Nat : y = 2 * (x \div 2) /\ y <= x
    OBVIOUS
  <2>5. p + 6 = q + 2
    BY ONLY <1>1
  <2>6. ~(q + 2 > l) /\ ~((q + 2) + y > l)
    BY ONLY n \in Nat, q \in Nat, l \in Nat, x \in Nat, y \in Nat, <1>3, <1>6, <2>3, <2>4
  <2> QED
    BY <2>1, <2>4, <2>5, <2>6
<1>7. ASSUME U16(b, p) = 11, n >= 1
      PROVE  ~(q + 1 > l) /\ ~((p + 5) + Byte(b, q) > l)
  <2>1. PICK x \in Nat : x = Byte(b, q)
    BY ByteIsNat
  <2>2. Byte(e.data, 0) = x
    <3>1. 0 < n /\ q + 0 = q
      BY <1>7
    <3> QED
      BY <1>4, <2>1, <3>1
  <2>3. x <= n - 1
    BY <1>1, <1>2, <1>7, <2>2 DEF ListFits
  <2>4. p + 5 = q + 1
    BY ONLY <1>1
  <2>5. ~(q + 1 > l) /\ ~((q + 1) + x > l)
    BY ONLY n \in Nat, q \in Nat, l \in Nat, x \in Nat, <1>3, <1>7, <2>3
  <2> QED
    BY <2>1, <2>4, <2>5
<1>8. ~(q > l)
  BY <1>5
<1> QED
  BY <1>1, <1>2, <1>6, <1>7, <1>8, Zenon DEF BadExtension

\* A hello of a client and a buffer that begins with its message.
Begins(b, h) ==
    /\ h \in Hellos /\ b \in Seq(Nat) /\ Sendable(h)
    /\ FieldsAt(b, h) /\ FieldsFit(h) /\ PlacesFit(b, h)

LEMMA ItBegins ==
  ASSUME NEW b \in Seq(Nat), NEW h \in Hellos, Carried(b, h)
  PROVE  Begins(b, h)
<1>1. Sendable(h)
  BY HelloAssumption
<1>2. FieldsAt(b, h)
  <2>1. b \in Seq(Int) /\ RecordHeader(b) \in Nat
    BY SeqMonotonic, RecordHeaderIsNat
  <2> QED
    BY <1>1, <2>1, CarriedFields
<1>3. FieldsFit(h)
  BY <1>1, <1>2, FieldsDoFit
<1> QED
  BY <1>1, <1>2, <1>3, PlacesDoFit DEF Begins

\* The extension of a message at each place.
ReadWell(b, p, e) == ExtensionLies(b, p, e) /\ ListFits(e)

LEMMA ChainedExtensionFits ==
  ASSUME NEW b, NEW h, Begins(b, h), HasBlock(b),
         NEW n, NEW c, Chain(b, c, n), c[n] + 4 <= BlockLimit(b)
  PROVE  \E e : ReadWell(b, c[n], e)
<1>1. h.extensible
  BY DEF Begins, PlacesFit
<1>2. n + 1 \in DOMAIN h.extensions /\ ExtensionLies(b, c[n], h.extensions[n + 1])
  BY <1>1, ChainedExtensionLies DEF Begins
<1>3. ListFits(h.extensions[n + 1])
  BY <1>2, ListAssumption DEF Begins
<1> QED
  BY <1>2, <1>3 DEF ReadWell

(***************************************************************************)
(* What a message says of its lengths is there, so JA3 takes it.           *)
(***************************************************************************)
LEMMA Ja3TakesIt ==
  ASSUME NEW b, NEW h, Begins(b, h), Carried(b, h)
  PROVE  ~NoHelloIn(b) /\ ~Ja3Refuses(b)
<1>1. PICK s \in Nat, n \in Nat, p2 \in Nat, p3 \in Nat :
        /\ s = Start(b) /\ n = Len(Body(h)) /\ p2 = SuitesAt(h) /\ p3 = MethodsAt(h)
  BY DEF Begins, FieldsAt
<1>2. PICK x \in Nat, y \in Nat, z \in Nat :
        x = Len(h.sessionId) /\ y = Len(h.suites) /\ z = Len(h.methods)
  BY DEF Begins, FieldsFit
<1>3. /\ p2 = 35 + x /\ p3 = p2 + (2 + (2 * y)) /\ p3 + (1 + z) <= n
      /\ s + n <= Len(b) /\ Len(b) \in Nat
  <2>1. p2 = 35 + x /\ p3 = p2 + (2 + (2 * y)) /\ p3 + (1 + z) <= n
    BY <1>1, <1>2 DEF Begins, FieldsFit
  <2>2. s + n <= Len(b) /\ Len(b) \in Nat
    BY <1>1 DEF Begins, FieldsAt
  <2> QED
    BY <2>1, <2>2
<1>4. /\ SessionPlace(b) = s + 34 /\ SuitesPlace(b) = s + p2 /\ MethodsPlace(b) = s + p3
      /\ U16(b, SuitesPlace(b)) = 2 * y
  BY <1>1, <1>2 DEF Begins, PlacesFit, FieldsAt
<1>5. ~NoHelloIn(b)
  <2>1. PICK r \in Nat : r = RecordHeader(b) /\ s = r + 4 /\ s - 4 = r /\ (s - 4) + 1 = r + 1
    <3>1. PICK r \in Nat : r = RecordHeader(b)
      BY RecordHeaderIsNat DEF Begins
    <3>2. s = r + 4
      BY <1>1, <3>1 DEF Start
    <3>3. s - 4 = r /\ (s - 4) + 1 = r + 1
      BY <3>2
    <3> QED
      BY <3>1, <3>2, <3>3
  <2>2. Byte(b, r) = 1 /\ U24(b, r + 1) = n
    BY <1>1, <2>1 DEF Carried, HandshakeAt
  <2>3. r + 4 <= Len(b) /\ (r + 4) + n <= Len(b)
    BY <1>3, <2>1
  <2>4. ~(r + 4 > Len(b)) /\ ~((r + 4) + n > Len(b))
    BY ONLY <1>3, <2>3, r \in Nat, n \in Nat
  <2> QED
    BY ONLY <2>1, <2>2, <2>4, Zenon DEF NoHelloIn
<1>6. /\ ~(s + 2 > Len(b)) /\ ~((s + 34) + 1 > Len(b)) /\ ~((s + p2) + 2 > Len(b))
      /\ ~(((s + p2) + 2) + (2 * y) > Len(b)) /\ ~((s + p3) + 1 > Len(b))
  BY <1>3
<1>7. 2 * ((2 * y) \div 2) = 2 * y
  OBVIOUS
<1>8. ASSUME HasBlock(b), NEW m, NEW c, Chain(b, c, m), c[m] + 4 <= BlockLimit(b)
      PROVE  ~BadExtension(b, c[m])
  <2>1. PICK e : ReadWell(b, c[m], e)
    BY <1>8, ChainedExtensionFits
  <2>2. c[m] \in Nat
    BY <2>1 DEF ReadWell, ExtensionLies
  <2> QED
    BY <2>1, <2>2, ListsAreRead DEF ReadWell, Begins
<1>9. Ja3Refuses(b) => FALSE
  BY <1>1, <1>4, <1>5, <1>6, <1>7, <1>8 DEF Ja3Refuses
<1> QED
  BY <1>5, <1>9

(***************************************************************************)
(* In a list of protocols that ends in the buffer no length is missing.    *)
(***************************************************************************)
Misses(f, b, limit) ==
    f = [i \in Nat |-> i < limit /\ (i >= Len(b) \/ f[i + 1 + Ja4!Byte(b, i)])]

LEMMA NoneIsMissed ==
  ASSUME NEW b \in Seq(Nat), NEW limit \in Nat, limit <= Len(b), NEW f, Misses(f, b, limit)
  PROVE  \A i \in Nat : ~f[i]
<1> DEFINE step(i) == i + 1 + Byte(b, i)
           A == {n \in Nat : \A i \in Nat : i + n >= limit => ~f[i]}
<1>1. ASSUME NEW i \in Nat PROVE f[i] <=> i < limit /\ (i >= Len(b) \/ f[step(i)])
  BY Ja4Reads, Zenon DEF Misses
<1>2. ASSUME NEW i \in Nat PROVE step(i) \in Nat /\ step(i) >= i + 1
  <2>1. PICK x \in Nat : x = Byte(b, i)
    BY ByteIsNat
  <2> QED
    BY <2>1
<1> HIDE DEF step
<1>3. 0 \in A
  <2> SUFFICES ASSUME NEW i \in Nat, i + 0 >= limit PROVE ~f[i]
    OBVIOUS
  <2>1. ~(i < limit)
    OBVIOUS
  <2> QED
    BY <1>1, <2>1
<1>4. ASSUME NEW n \in Nat, n \in A PROVE n + 1 \in A
  <2> SUFFICES ASSUME NEW i \in Nat, i + (n + 1) >= limit PROVE ~f[i]
    OBVIOUS
  <2>1. CASE i < limit
    <3>1. ~(i >= Len(b))
      BY <2>1
    <3>2. PICK j \in Nat : j = step(i) /\ j >= i + 1
      BY <1>2
    <3>3. j + n >= limit
      BY <3>2
    <3>4. ~f[step(i)]
      BY <1>4, <3>2, <3>3
    <3> QED
      BY <1>1, <3>1, <3>4
  <2>2. CASE ~(i < limit)
    BY <1>1, <2>2
  <2> QED
    BY <2>1, <2>2
<1>5. \A n \in Nat : n \in A
  <2> HIDE DEF A
  <2> QED
    BY <1>3, <1>4, SetInduction
<1>6. ASSUME NEW i \in Nat PROVE ~f[i]
  <2>1. i + limit >= limit
    OBVIOUS
  <2> QED
    BY <1>5, <2>1
<1> QED
  BY <1>6

LEMMA NoProtocolMissing ==
  ASSUME NEW p \in Nat, p = ja4Pos, buf \in Seq(Nat),
         p + 6 + U16(buf, p + 4) <= Len(buf)
  PROVE  ~Ja4!ProtocolsMissing
<1> DEFINE limit == ja4Pos + 6 + Ja4!U16(buf, ja4Pos + 4)
<1>1. Ja4!ProtocolsMissing <=>
        Ja4!Missing(ja4Pos + 4, 2) \/ (CHOOSE g : Misses(g, buf, limit))[ja4Pos + 6]
  BY Zenon DEF Ja4!ProtocolsMissing, Misses
<1>2. limit \in Nat /\ limit <= Len(buf)
  <2>1. PICK x \in Nat : x = U16(buf, p + 4)
    BY U16IsNat
  <2>2. limit = p + 6 + x
    BY <2>1, Ja4Reads
  <2> QED
    BY <2>1, <2>2
<1> HIDE DEF limit
<1>3. PICK f : f = CHOOSE g : Misses(g, buf, limit)
  OBVIOUS
<1>4. Misses(f, buf, limit)
  <2>1. PICK g : g = [i \in Nat |-> FALSE]
    OBVIOUS
  <2>2. ASSUME NEW i \in Nat
        PROVE  g[i] = (i < limit /\ (i >= Len(buf) \/ g[i + 1 + Ja4!Byte(buf, i)]))
    <3>1. ~(i < limit /\ i >= Len(buf))
      BY <1>2
    <3>2. i + 1 + Ja4!Byte(buf, i) \in Nat
      <4>1. PICK x \in Nat : x = Ja4!Byte(buf, i)
        BY ByteIsNat, Ja4Reads
      <4> QED
        BY <4>1
    <3>3. ~g[i + 1 + Ja4!Byte(buf, i)]
      BY <2>1, <3>2, Zenon
    <3> QED
      BY <2>1, <3>1, <3>3, Zenon
  <2>3. Misses(g, buf, limit)
    BY <2>1, <2>2, Zenon DEF Misses
  <2> QED
    BY <1>3, <2>3, Zenon
<1>5. \A i \in Nat : ~f[i]
  BY <1>2, <1>4, NoneIsMissed, Zenon
<1>6. ~Ja4!Missing(ja4Pos + 4, 2)
  <2>1. PICK x \in Nat : x = U16(buf, p + 4)
    BY U16IsNat
  <2> QED
    BY <2>1 DEF Ja4!Missing
<1>7. ja4Pos + 6 \in Nat
  OBVIOUS
<1> QED
  BY <1>3, <1>5, <1>6, <1>1, <1>7, Zenon

(***************************************************************************)
(* JA4 checks more against the end of the handshake; a message passes that *)
(* as well.                                                                *)
(***************************************************************************)
LEMMA Ja4TakesIt ==
  ASSUME Called, NEW h, Begins(buf, h), Carried(buf, h), Ja4!Next
  PROVE  ja4At' # "rejected"
<1>1. PICK s \in Nat, n \in Nat, p2 \in Nat, p3 \in Nat :
        /\ s = Start(buf) /\ n = Len(Body(h)) /\ p2 = SuitesAt(h) /\ p3 = MethodsAt(h)
  BY DEF Begins, FieldsAt
<1>2. PICK x \in Nat, y \in Nat, z \in Nat :
        x = Len(h.sessionId) /\ y = Len(h.suites) /\ z = Len(h.methods)
  BY DEF Begins, FieldsFit
<1>3. /\ p2 = 35 + x /\ p3 = p2 + (2 + (2 * y)) /\ p3 + (1 + z) <= n
      /\ s + n <= Len(buf) /\ Len(buf) \in Nat /\ buf \in Seq(Nat)
  <2>1. p2 = 35 + x /\ p3 = p2 + (2 + (2 * y)) /\ p3 + (1 + z) <= n
    BY <1>1, <1>2 DEF Begins, FieldsFit
  <2>2. s + n <= Len(buf) /\ buf \in Seq(Nat)
    BY <1>1 DEF Begins, FieldsAt
  <2> QED
    BY <2>1, <2>2
<1>4. /\ SessionPlace(buf) = s + 34 /\ SuitesPlace(buf) = s + p2 /\ BodyLimit(buf) = s + n
      /\ Byte(buf, s + 34) = x /\ U16(buf, s + p2) = 2 * y
  BY <1>1, <1>2 DEF Begins, PlacesFit, FieldsAt
<1>5. CASE Ja4!Header
  <2>1. ~NoHelloIn(buf)
    BY Ja3TakesIt
  <2>2. ~Ja4!NoHello(RecordHeader(buf))
    BY <2>1, Ja4Reads DEF NoHelloIn, Ja4!NoHello, Ja4!Missing
  <2> QED
    BY <1>5, <2>2, Ja4Reads DEF Ja4!Header
<1>6. CASE Ja4!Version
  <2>1. ja4Pos = s /\ ja4End = s + n
    BY <1>1, <1>4, <1>6 DEF Called, Ja4Walks, Ja4!Version
  <2>2. ~(s + 2 + 32 > s + n)
    BY <1>3
  <2> QED
    BY <1>6, <2>1, <2>2 DEF Ja4!Version, Ja4!Walk
<1>7. CASE Ja4!SessionId
  <2>1. ja4Pos = s + 34 /\ ja4End = s + n
    BY <1>4, <1>7 DEF Called, Ja4Walks, Ja4!SessionId
  <2>2. ~((s + 34) + 1 > Len(buf)) /\ ~((s + 34) + 1 + x + 2 > s + n)
    BY <1>3
  <2>3. ~Ja4!Missing(ja4Pos, 1) /\ ~(ja4Pos + 1 + Ja4!Byte(buf, ja4Pos) + 2 > ja4End)
    BY <1>4, <2>1, <2>2, Ja4Reads DEF Ja4!Missing
  <2> QED
    BY <1>7, <2>3 DEF Ja4!SessionId, Ja4!Walk
<1>8. CASE Ja4!CipherSuites
  <2>1. ja4Pos = s + p2 /\ ja4End = s + n
    BY <1>4, <1>8 DEF Called, Ja4Walks, Ja4!CipherSuites
  <2>2. ~((s + p2) + 2 + (2 * y) + 1 > s + n)
    BY <1>3
  <2>3. ~(ja4Pos + 2 + Ja4!U16(buf, ja4Pos) + 1 > ja4End)
    BY <1>4, <2>1, <2>2, Ja4Reads
  <2> QED
    BY <1>8, <2>3 DEF Ja4!CipherSuites, Ja4!Walk
<1>9. CASE Ja4!CompressionMethods \/ Ja4!NoBlock \/ Ja4!Block \/ Ja4!EndOfBlock
  BY <1>9 DEF Ja4!CompressionMethods, Ja4!NoBlock, Ja4!Block, Ja4!EndOfBlock, Ja4!Walk
<1>10. CASE Ja4!NextExtension
  <2>1. /\ ja4At = "extension" /\ ja4Pos + 4 <= ja4ExtensionsEnd
        /\ HasBlock(buf) /\ ja4ExtensionsEnd = BlockLimit(buf)
    BY <1>10 DEF Called, Ja4Walks, Ja4!NextExtension, Ja4!MoreExtensions
  <2>2. PICK m, c, r : Trail(buf, c, m, r) /\ ja4Pos = c[m]
    BY <2>1 DEF Called, Ja4Walks
  <2>3. PICK e : ReadWell(buf, ja4Pos, e)
    <3>1. Chain(buf, c, m) /\ c[m] + 4 <= BlockLimit(buf)
      BY <2>1, <2>2 DEF Trail
    <3> QED
      BY <2>1, <2>2, <3>1, ChainedExtensionFits
  <2>4. PICK p \in Nat : p = ja4Pos
    BY <2>3 DEF ReadWell, ExtensionLies
  <2>5. ~BadExtension(buf, p)
    BY <1>3, <2>3, <2>4, ListsAreRead DEF ReadWell
  <2>6. PICK l \in Nat : l = Len(e.data)
    BY <2>3 DEF ReadWell, ExtensionLies
  <2>7. /\ U16(buf, p) = e.type /\ U16(buf, p + 2) = l /\ (p + 4) + l <= Len(buf)
        /\ e.data = Between(buf, p + 4, (p + 4) + l)
    BY <2>3, <2>4, <2>6 DEF ReadWell, ExtensionLies
  <2> DEFINE type == Ja4!U16(buf, ja4Pos)
             len == Ja4!U16(buf, ja4Pos + 2)
  <2>8. type = e.type /\ len = l
    BY <2>4, <2>7, Ja4Reads
  <2>9. ~Ja4!Missing(ja4Pos, 4) /\ ~Ja4!ListMissing(type, len)
    BY <2>4, <2>5, Ja4Reads
       DEF Ja4!Missing, Ja4!ListMissing, Ja4!HasGroups, Ja4!HasFormats, BadExtension
  <2>10. ASSUME e.type = 16, l >= 2 PROVE ~Ja4!ProtocolsMissing
    <3>1. SameBytes(e.data, buf, p + 4, l)
      <4>1. buf \in Seq(Int) /\ p + 4 \in Nat
        BY <1>3, SeqMonotonic
      <4> QED
        BY <2>7, <4>1, BytesBehind, Zenon
    <3>2. U16(e.data, 0) = U16(buf, p + 4)
      <4>1. PICK q \in Nat : q = p + 4
        OBVIOUS
      <4>2. 0 < l /\ 0 + 1 < l /\ q + 0 = q /\ q + (0 + 1) = q + 1
        BY <2>10
      <4>3. Byte(e.data, 0) = Byte(buf, q) /\ Byte(e.data, 0 + 1) = Byte(buf, q + 1)
        BY <3>1, <4>1, <4>2 DEF SameBytes
      <4> QED
        BY <4>1, <4>3 DEF U16
    <3>3. PICK w \in Nat : w = U16(buf, p + 4)
      BY <1>3, U16IsNat
    <3>4. w <= l - 2
      BY <2>3, <2>6, <2>10, <3>2, <3>3 DEF ReadWell, ListFits
    <3>5. p + 6 + w <= Len(buf)
      BY ONLY p \in Nat, l \in Nat, w \in Nat, <1>3, <2>7, <3>4
    <3> QED
      BY <1>3, <2>4, <3>3, <3>5, NoProtocolMissing
  <2>11. ASSUME l >= 2 PROVE ~Ja4!Missing(ja4Pos + 4, 2)
    <3>1. ~((p + 4) + 2 > Len(buf))
      BY ONLY p \in Nat, l \in Nat, <1>3, <2>7, <2>11
    <3> QED
      BY <2>4, <3>1 DEF Ja4!Missing
  <2>12. /\ ~(Ja4!HasProtocols(type, len) /\ Ja4!ProtocolsMissing)
         /\ ~(Ja4!HasAlgorithms(type, len) /\ Ja4!Missing(ja4Pos + 4, 2))
    BY <2>8, <2>10, <2>11 DEF Ja4!HasProtocols, Ja4!HasAlgorithms
  <2> QED
    BY <1>10, <2>9, <2>12 DEF Ja4!NextExtension, Ja4!Walk
<1> QED
  BY <1>5, <1>6, <1>7, <1>8, <1>9, <1>10 DEF Ja4!Next

(***************************************************************************)
(* JA4 waits for the others, and takes the messages.                       *)
(***************************************************************************)
TakesMessages == \A h \in Hellos : Carried(buf, h) => ja4At # "rejected"

FingerprintInv == WalkInv /\ Ja4Walks /\ TakesMessages

LEMMA TakesMessagesStep == FingerprintInv /\ [ParsersNext]_parsersVars => TakesMessages'
<1> SUFFICES ASSUME FingerprintInv, [ParsersNext]_parsersVars,
                    NEW h \in Hellos, Carried(buf', h)
             PROVE  ja4At' # "rejected"
  BY DEF TakesMessages
<1>1. buf' = buf
  <2>1. [Next]_parserVars
    BY DEF ParsersNext, parsersVars
  <2> QED
    BY <2>1, BufferStays
<1>2. Carried(buf, h) /\ ja4At # "rejected" /\ buf \in Seq(Nat)
  BY <1>1 DEF FingerprintInv, TakesMessages, WalkInv, TypeInv, TypeOK
<1>3. CASE UNCHANGED ja4Vars
  BY <1>2, <1>3 DEF ja4Vars
<1>4. CASE Ja4!Next /\ ja3At \in Outcomes /\ UNCHANGED ja3Vars
  <2>1. Called
    BY <1>1, <1>4 DEF FingerprintInv, WalkInv, Called, ja3Vars
  <2>2. Begins(buf, h)
    BY <1>2, ItBegins
  <2> QED
    BY <1>2, <1>4, <2>1, <2>2, Ja4TakesIt
<1> QED
  BY <1>3, <1>4 DEF ParsersNext, parsersVars

LEMMA MessageFingerprinted == FingerprintInv => FingerprintOfMessage
<1> SUFFICES ASSUME FingerprintInv PROVE FingerprintOfMessage
  OBVIOUS
<1>1. buf \in Seq(Nat)
  BY DEF FingerprintInv, WalkInv, TypeInv, TypeOK
<1>2. ASSUME "rejected" \in {ja3At, ja4At}, NEW m \in Messages, IsPrefix(m, buf)
      PROVE  FALSE
  <2>1. PICK h \in Hellos : Carried(buf, h)
    <3>1. buf \in Seq(Int)
      BY <1>1, SeqMonotonic
    <3> QED
      BY <1>2, <3>1, MessageCarried
  <2>2. ja4At # "rejected"
    BY <2>1 DEF FingerprintInv, TakesMessages
  <2>3. ja3At = "rejected" => Ja3Refuses(buf)
    BY DEF FingerprintInv, WalkInv, Ja3Walks
  <2>4. ~Ja3Refuses(buf)
    <3>1. Begins(buf, h)
      BY <1>1, <2>1, ItBegins
    <3> QED
      BY <2>1, <3>1, Ja3TakesIt
  <2> QED
    BY <1>2, <2>2, <2>3, <2>4
<1>3. ASSUME "accepted" \in {ja3At, ja4At}, NEW m \in Messages, IsStrictPrefix(buf, m)
      PROVE  FALSE
  <2>1. NoHelloIn(buf)
    BY <1>1, <1>3, PartHasNoHello
  <2>2. ja3At = "accepted" => ~NoHelloIn(buf)
    BY DEF FingerprintInv, WalkInv, Ja3Walks
  <2>3. ja4At = "accepted" => ~NoHelloIn(buf)
    BY DEF FingerprintInv, Ja4Walks
  <2> QED
    BY <1>3, <2>1, <2>2, <2>3
<1> QED
  BY <1>2, <1>3 DEF FingerprintOfMessage, Intact, Part

(***************************************************************************)
(* computeJa3() and computeJa4() throw at no message a client has put      *)
(* together, whatever follows it, and return nothing for one that is still *)
(* arriving.                                                               *)
(***************************************************************************)
THEOREM MessagesHaveFingerprints == ParsersSpec => []FingerprintOfMessage
<1>1. ParsersInit => FingerprintInv
  <2>1. ParsersInit => TakesMessages
    BY DEF ParsersInit, Ja4!Init, Ja4!WalkInit, TakesMessages
  <2> QED
    BY <2>1, BothWalkInit DEF FingerprintInv
<1>2. FingerprintInv /\ [ParsersNext]_parsersVars => FingerprintInv'
  BY BothWalkStep, TakesMessagesStep DEF FingerprintInv
<1>3. FingerprintInv => FingerprintOfMessage
  BY MessageFingerprinted
<1> QED
  BY <1>1, <1>2, <1>3, PTL DEF ParsersSpec

=============================================================================
