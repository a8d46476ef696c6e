---------------------------- MODULE HelloParsers ----------------------------
(***************************************************************************)
(* The three ClientHello parsers on the same buffer, one call after the    *)
(* other: parseClientHello() of the e2e tests, then those of JA3 and JA4.  *)
(* They share the buffer and nothing else.  What JA3 has read goes into    *)
(* the capture of the compliance suite (RfcTests), what JA4 has read into  *)
(* the tag (Ja4Tag).                                                       *)
(***************************************************************************)
EXTENDS HelloParser, Ja4Tag, RfcTests

(***************************************************************************)
(* What JA3 or JA4 reads in an extension a client has put together: no     *)
(* list of groups, formats or protocols is longer than its extension.      *)
(***************************************************************************)
ListFits(e) ==
    /\ e.type \in {10, 16} /\ Len(e.data) >= 2 => U16(e.data, 0) <= Len(e.data) - 2
    /\ e.type = 11 /\ Len(e.data) >= 1 => Byte(e.data, 0) <= Len(e.data) - 1

ASSUME ListAssumption ==
    \A h \in Hellos : \A i \in DOMAIN h.extensions : ListFits(h.extensions[i])

VARIABLES
    ja3At, ja3Pos, ja3End, ja3ExtensionsEnd, ja3,
    ja4At, ja4Pos, ja4End, ja4ExtensionsEnd, ja4

ja3Vars == <<ja3At, ja3Pos, ja3End, ja3ExtensionsEnd, ja3>>

ja4Vars == <<ja4At, ja4Pos, ja4End, ja4ExtensionsEnd, ja4>>

parsersVars == <<parserVars, ja3Vars, ja4Vars>>

Ja3 == INSTANCE Ja3Parser WITH
           at <- ja3At, pos <- ja3Pos, end <- ja3End,
           extensionsEnd <- ja3ExtensionsEnd, seen <- ja3

Ja4 == INSTANCE Ja4Parser WITH
           at <- ja4At, pos <- ja4Pos, end <- ja4End,
           extensionsEnd <- ja4ExtensionsEnd, seen <- ja4

ParsersInit == Init /\ Ja3!Init /\ Ja4!Init

ParsersNext ==
    \/ Next /\ UNCHANGED <<ja3Vars, ja4Vars>>
    \/ at \in Outcomes /\ Ja3!Next /\ UNCHANGED <<parserVars, ja4Vars>>
    \/ at \in Outcomes /\ ja3At \in Outcomes /\ Ja4!Next /\ UNCHANGED <<parserVars, ja3Vars>>

(***************************************************************************)
(* Each call runs on until it returns or throws.                           *)
(***************************************************************************)
ParsersSpec == ParsersInit /\ [][ParsersNext]_parsersVars /\ WF_parsersVars(ParsersNext)

-----------------------------------------------------------------------------
Returned == at = "accepted" /\ ~lost

Intact == \E m \in Messages : IsPrefix(m, buf)

Part == \E m \in Messages : IsStrictPrefix(buf, m)

Types(h) == [i \in DOMAIN h.extensions |-> h.extensions[i].type]

(***************************************************************************)
(* Where the e2e parser and computeJa3() both take a hello, damaged or     *)
(* not, they read the same version, suites and extensions in it, although  *)
(* they check the lengths in different places.                             *)
(***************************************************************************)
Ja3MatchesHello ==
    Returned /\ ja3At = "accepted" =>
        /\ ja3.version = hello.version
        /\ ja3.suites = hello.suites
        /\ ja3.types = Types(hello)

(***************************************************************************)
(* computeJa4() takes no hello that computeJa3() refuses, and what it      *)
(* hashes of the fields both have is what JA3 hashes, without GREASE.      *)
(***************************************************************************)
Ja4WithinJa3 ==
    ja4At = "accepted" =>
        /\ ja3At = "accepted"
        /\ ja4.version = ja3.version
        /\ ja4.suites = NonGrease(ja3.suites)
        /\ ja4.types = NonGrease(ja3.types)
        /\ ja4.groups = NonGrease(ja3.groups)
        /\ ja4.formats = ja3.formats

(***************************************************************************)
(* No fingerprint is refused for a message a client has put together, and  *)
(* none is given for one that is still arriving.                           *)
(***************************************************************************)
FingerprintOfMessage ==
    /\ "rejected" \in {ja3At, ja4At} => ~Intact
    /\ "accepted" \in {ja3At, ja4At} => ~Part

\* The bytes in the extension of a type, behind a length of n bytes.
Listed(h, type, n) ==
    LET data == FindExtension(h, type)
    IN  IF data = <<>> THEN <<>> ELSE SubSeq(data[1], n + 1, Len(data[1]))

Codes16(bytes) == U16List(bytes, 0, Len(bytes))

(***************************************************************************)
(* What JA4 should read in a hello, by the accessors of the e2e parser     *)
(* where there is one.                                                     *)
(***************************************************************************)
Reading(h) ==
    [version |-> h.version, suites |-> NonGrease(h.suites), types |-> NonGrease(Types(h)),
     groups |-> NonGrease(Codes16(Listed(h, 10, 2))), formats |-> Listed(h, 11, 1),
     sni |-> FindExtension(h, 0) # <<>>, alpn |-> ParseAlpnProtocols(h),
     algorithms |-> NonGrease(Codes16(Listed(h, 13, 2))),
     highest |-> Ja4!Highest(NonGrease(ParseSupportedVersions(h)), 0)]

(***************************************************************************)
(* On such a message JA4's own reading of the extensions agrees with what  *)
(* the e2e parser and its accessors return; and where the other two leave  *)
(* GREASE out of the suites, the compliance suite sees it as well,         *)
(* although its test is another one.                                       *)
(*    The first host name of decodeSni() is that of parseSniHostname(), on *)
(* damaged hellos too, as long as the list's length is that of the         *)
(* extension: the one goes by the former, the other by the latter.         *)
(***************************************************************************)
FirstOf(names) == IF names = <<>> THEN <<>> ELSE <<Head(names)>>

ListIsWhole(h, type) ==
    \A data \in ToSet(FindExtension(h, type)) :
        Len(data) >= 2 => U16(data, 0) = Len(data) - 2

AccessorsAgree ==
    /\ ja4At = "accepted" /\ Intact =>
          /\ ja4 = Reading(hello)
          /\ NonGrease(ja3.suites) # ja3.suites => ParseTlsCapture(ja3).grease
    /\ Returned /\ ListIsWhole(hello, 0) =>
          ParseSniHostname(hello) = FirstOf(DecodeSni(hello))

(***************************************************************************)
(* What a second client may do differently: another order, GREASE, one     *)
(* item less, another version, padding, other protocols or algorithms.     *)
(***************************************************************************)
Variants(list, grease) ==
    {list, Reverse(list), Append(list, grease), <<grease>> \o list}
        \cup { RemoveAt(list, i) : i \in DOMAIN list }

Siblings(h) ==
    LET with(type, data) ==
            [h EXCEPT !.extensions =
                Append(SelectSeq(@, LAMBDA e : e.type # type), [type |-> type, data |-> data])]
        protocols(names) ==
            Vector16(FlattenSeq([i \in DOMAIN names |-> Vector8(names[i])]))
    IN  { [h EXCEPT !.suites = s] : s \in Variants(h.suites, 6682) }
        \cup { [h EXCEPT !.extensions = es] :
                 es \in Variants(h.extensions, [type |-> 6682, data |-> <<>>]) }
        \cup { [h EXCEPT !.version = 770] }
        \cup { with(21, <<>>), with(0, <<>>) }
        \cup { with(16, protocols(names)) :
                 names \in {<<>>, <<(<<>>)>>, <<(<<72, 50>>)>>,
                            <<(<<104, 49, 50>>), (<<104>>)>>, <<(<<104>>), (<<104, 50>>)>>} }
        \cup { with(13, Vector16(Codes(codes))) :
                 codes \in {<<1027, 1025>>, <<6682, 1025, 1027>>, <<1025>>} }
        \cup { with(43, Vector8(Codes(codes))) : codes \in {<<772>>, <<771, 772>>} }
        \cup { with(10, Vector16(Codes(codes))) : codes \in {<<29>>, <<6682, 29>>, <<0>>} }
        \cup { with(11, Vector8(formats)) : formats \in {<<0>>, <<1>>, <<0, 1>>} }

(***************************************************************************)
(* The first and last character of the first protocol offered, "00" when   *)
(* there is none or it is empty; capitals are small letters.               *)
(***************************************************************************)
FirstProtocol(names) == IF names = <<>> THEN <<>> ELSE names[1]

Ends(name) == IF name = <<>> THEN <<48, 48>> ELSE <<name[1], name[Len(name)]>>

SameCharacter(b, c) == b = c \/ \E letter \in 65 .. 90 : {b, c} = {letter, letter + 32}

EndAlike(name, other) ==
    \A k \in 1 .. 2 : SameCharacter(Ends(name)[k], Ends(other)[k])

HasComma(name) == 44 \in ToSet(name)

(***************************************************************************)
(* Two clients have one JA4 tag if and only if they offer the same suites  *)
(* and extensions, in any order and with any GREASE among them, the same   *)
(* signature algorithms in the same order, the same highest version and a  *)
(* first protocol that begins and ends alike.  That holds for first        *)
(* protocols without a comma, as the registered ones are: computeJa4()     *)
(* joins the names with commas and cuts the first one off at a comma.      *)
(*    JA4_f tells clients apart by version, suites, extensions, groups and *)
(* formats, the order included, when they have as many suites, extensions  *)
(* and groups: the lists are joined without a separator.                   *)
(***************************************************************************)
SameOffer(r, s) ==
    LET top(x) == IF x.highest > 0 THEN x.highest ELSE x.version
        \* SNI and ALPN are told apart by themselves, padding by the number.
        hashed(x) == ToBag(SelectSeq(x.types, LAMBDA t : t \notin {0, 16, 21}))
    IN  /\ top(r) = top(s)
        /\ r.sni = s.sni
        /\ EndAlike(FirstProtocol(r.alpn), FirstProtocol(s.alpn))
        /\ ToBag(r.suites) = ToBag(s.suites)
        /\ Len(r.types) = Len(s.types)
        /\ hashed(r) = hashed(s)
        /\ r.algorithms = s.algorithms

SameFields(r, s) ==
    \A field \in {"version", "suites", "types", "groups", "formats"} : r[field] = s[field]

EquallyMany(r, s) ==
    \A field \in {"suites", "types", "groups"} : Len(r[field]) = Len(s[field])

TagTellsClientsApart ==
    ja4At = "accepted" /\ Intact =>
        LET r == Reading(hello)
        IN  \A other \in Siblings(hello) :
                LET s == Reading(other)
                IN  /\ ~HasComma(FirstProtocol(r.alpn)) /\ ~HasComma(FirstProtocol(s.alpn)) =>
                          (ComputeJa4(ja4) = ComputeJa4(s) <=> SameOffer(r, s))
                    /\ EquallyMany(r, s) =>
                          (Fingerprint(ja4).f = Fingerprint(s).f <=> SameFields(r, s))

(***************************************************************************)
(* Each of the three calls returns or throws.                              *)
(***************************************************************************)
AllTerminate == <>(ja4At \in Outcomes)

(***************************************************************************)
(* "The length byte counts the number of *bytes* of version data": JA4     *)
(* finds no version that the list does not hold.  Does not hold when the   *)
(* list's length says less than the extension's, for JA4 takes it for a    *)
(* number of versions (run Ja4Versions).                                   *)
(***************************************************************************)
VersionsAreBytes ==
    ja4At = "accepted" /\ Returned =>
        ja4.highest = Ja4!Highest(NonGrease(ParseSupportedVersions(hello)), 0)

=============================================================================
