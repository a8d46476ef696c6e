------------------------------- MODULE Suites -------------------------------
(***************************************************************************)
(* Calls of the functions without a state of their own: the compliance     *)
(* suites, the HTTP fingerprints, the benchmarks and the generator of      *)
(* certificates.  An action is one call, from its arguments to what it     *)
(* returns; the properties hold that against what the arguments mean.      *)
(***************************************************************************)
EXTENDS RfcTests, HttpFingerprints, Bench, CertGen

CONSTANTS
    SentSettings,   \* the settings of a SETTINGS frame, as pairs <<id, value>>
    Http2Profiles,  \* profile.http2.settings, a function on ids
    HeaderSets,     \* the keys of profile.http1.defaultHeaders
    HeaderOrders,   \* profile.http1.headerOrder
    Requests,       \* of computeJa4h()
    Connections,    \* of buildAkamaiFingerprint()
    Runs,           \* iterations asked for and how long each run takes
    Subjects        \* what a certificate is made of

ASSUME SettingsAssumption == SentSettings \subseteq Seq(Nat \X (Nat \X Nat))

ASSUME ProfileAssumption ==
    /\ \A headers \in HeaderSets :
            IsFiniteSet(headers) /\ headers \subseteq [letters : STRING, spelling : Spellings]
    /\ HeaderOrders \subseteq Seq([letters : STRING, spelling : Spellings])

\* Strings are sequences of code units; the language is in ASCII.
ASSUME RequestAssumption ==
    \A r \in Requests :
        /\ r.method \in {"GET", "POST", "HEAD", "PUT", "DELETE", "OPTIONS", "PATCH"}
        /\ r.headerNames \in Seq(Seq(Nat)) /\ r.cookies \in Seq(Seq(Nat))
        /\ r.acceptLanguage \in Seq(0 .. 127)

ASSUME ConnectionAssumption ==
    Connections \subseteq
        [settings : Seq([id : Nat, value : Nat]), windowUpdateIncrement : Nat,
         priorityFrameCount : Nat,
         pseudoHeaderOrder : Seq({":method", ":authority", ":scheme", ":path"})]

(***************************************************************************)
(* A benchmark is asked for a whole number of iterations or for NaN, and   *)
(* each run, the warm-up included, takes its time.                         *)
(***************************************************************************)
ASSUME RunsAssumption ==
    \A run \in Runs :
        /\ run.iterations \in Int \cup {NaN}
        /\ run.elapsed \in Seq(Nat)
        /\ run.iterations # NaN => Len(run.elapsed) > Iterations(run.iterations)

(***************************************************************************)
(* A certificate is made of bytes; the public key is a SEQUENCE, as the    *)
(* key store exports it.  The certificate is shorter than 2^16 bytes: from *)
(* there on a length that derLength() writes says too little.              *)
(***************************************************************************)
ASSUME SubjectAssumption ==
    \A s \in Subjects :
        /\ s.dnsNames \in Seq(Seq(Nat)) /\ s.ipAddresses \in Seq(Seq(Nat))
        /\ s.validity \in Seq(Nat) \X Seq(Nat)
        /\ s.spki \in Seq(Nat) /\ s.signature \in Seq(Nat)
        /\ \E n \in 1 .. Len(s.spki) :
              s.spki = DerTagged(48, SubSeq(s.spki, n + 1, Len(s.spki)))
        /\ Len(GenerateSelfSignedCert(s.dnsNames, s.ipAddresses, s.validity, s.spki,
                                      s.signature)) < 65536

VARIABLES
    call,           \* the function called and its arguments
    result          \* what it has returned

suitesVars == <<call, result>>

Init ==
    /\ call = [function |-> "none"]
    /\ result = "none"

Returns(arguments, value) ==
    /\ call = [function |-> "none"]
    /\ call' = arguments
    /\ result' = value

-----------------------------------------------------------------------------
(***************************************************************************)
(* A SETTINGS frame on stream 0, of which the capture holds size bytes.    *)
(***************************************************************************)
SettingBytes(setting) ==
    Bytes16(setting[1]) \o Bytes16(setting[2][1]) \o Bytes16(setting[2][2])

SettingsFrame(sent) ==
    <<0, 0, 6 * Len(sent), 4, 0, 0, 0, 0, 0>>
        \o FlattenSeq([k \in DOMAIN sent |-> SettingBytes(sent[k])])

CheckHttp2 ==
    \E sent \in SentSettings, expected \in Http2Profiles :
        \E size \in 0 .. Len(SettingsFrame(sent)) :
            Returns([function |-> "runHttp2Compliance", sent |-> sent, size |-> size,
                     expected |-> expected],
                    RunHttp2Compliance(SubSeq(SettingsFrame(sent), 1, size), expected))

CheckHttp1 ==
    \E headers \in HeaderSets, order \in HeaderOrders :
        Returns([function |-> "runHttp1Compliance", headers |-> headers, order |-> order],
                RunHttp1Compliance(headers, order))

FingerprintRequest ==
    \E request \in Requests :
        Returns([function |-> "computeJa4h", request |-> request], ComputeJa4h(request))

FingerprintConnection ==
    \E input \in Connections :
        Returns([function |-> "buildAkamaiFingerprint", input |-> input],
                BuildAkamaiFingerprint(input))

Benchmark ==
    \E run \in Runs :
        Returns([function |-> "benchmark", run |-> run],
                Report(run.iterations, run.elapsed))

Certify ==
    \E s \in Subjects :
        Returns([function |-> "generateSelfSignedCert", subject |-> s],
                GenerateSelfSignedCert(s.dnsNames, s.ipAddresses, s.validity, s.spki,
                                       s.signature))

Next ==
    \/ CheckHttp2
    \/ CheckHttp1
    \/ FingerprintRequest
    \/ FingerprintConnection
    \/ Benchmark
    \/ Certify

Spec == Init /\ [][Next]_suitesVars

-----------------------------------------------------------------------------
(***************************************************************************)
(* runHttp2Compliance() passes if and only if each setting it checks has,  *)
(* in the capture, the value that the profile says, or neither has one:    *)
(* with an id sent twice, with values that are negative as 32-bit          *)
(* integers, and with a capture that was cut off anywhere.  The value of   *)
(* an id is the last one that is in the capture as a whole.                *)
(***************************************************************************)
Http2VerdictIsRight ==
    call.function = "runHttp2Compliance" =>
        LET whole == {k \in DOMAIN call.sent : 9 + (6 * k) <= call.size}
            last(id) == {k \in whole : /\ call.sent[k][1] = id
                                       /\ \A j \in whole : call.sent[j][1] = id => j <= k}
        IN  result <=> \A id \in CheckedSettings :
                          Lookup(call.expected, id) =
                              IF last(id) = {} THEN <<>>
                              ELSE <<call.sent[CHOOSE k \in last(id) : TRUE][2]>>

(***************************************************************************)
(* What runHttp1Compliance() passes can be sent in the profile's order:    *)
(* "host" is in it, in lower case like all the others, whichever of the    *)
(* three places and spellings the code found it in; and each default       *)
(* header has a name of its own there.  It passes all of these.            *)
(***************************************************************************)
Http1VerdictIsRight ==
    call.function = "runHttp1Compliance" =>
        LET named == { ToLowerCase(h) : h \in call.headers }
        IN  result <=> /\ Host("lower") \in ToSet(call.order)
                       /\ \A name \in ToSet(call.order) : name.spelling = "lower"
                       /\ Cardinality(named) = Cardinality(call.headers)
                       /\ named \subseteq ToSet(call.order)

(***************************************************************************)
(* Requests that differ in the order of their headers and cookies only,    *)
(* behind the fourth letter of the language, in its capitals, or in a      *)
(* version that has no code, have one JA4H.  The names and cookies are     *)
(* hashed as a list with commas, so the converse is for requests that no   *)
(* comma or empty name makes ambiguous: if they have one JA4H they are     *)
(* alike in this way.  HTTP's grammar allows no other names and cookies.   *)
(*                                                                         *)
(* Connections have one Akamai string if and only if they agree, the order *)
(* of settings and pseudo-headers included.                                *)
(***************************************************************************)
LetterAt(text, k) == IF k <= Len(text) THEN text[k] ELSE ZeroCode

SameLetter(x, y) == x = y \/ \E capital \in 65 .. 90 : {x, y} = {capital, capital + 32}

SameRequest(r, s) ==
    /\ r.method = s.method
    /\ \/ r.httpVersion = s.httpVersion
       \/ {r.httpVersion, s.httpVersion} \cap {"1.1", "2", "3"} = {}
    /\ ToBag(r.headerNames) = ToBag(s.headerNames)
    /\ ToBag(r.cookies) = ToBag(s.cookies)
    /\ \A k \in 1 .. 4 :
            SameLetter(LetterAt(r.acceptLanguage, k), LetterAt(s.acceptLanguage, k))

Unambiguous(r) ==
    /\ \A i \in DOMAIN r.cookies : CommaCode \notin ToSet(r.cookies[i])
    /\ \A i \in DOMAIN r.headerNames :
            r.headerNames[i] # <<>> /\ CommaCode \notin ToSet(r.headerNames[i])

Ja4hOf == [r \in Requests |-> ComputeJa4h(r)]

AkamaiOf == [c \in Connections |-> BuildAkamaiFingerprint(c)]

FingerprintsTellApart ==
    /\ call.function = "computeJa4h" =>
          \A r \in Requests :
              /\ SameRequest(call.request, r) => result = Ja4hOf[r]
              /\ result = Ja4hOf[r] /\ Unambiguous(call.request) /\ Unambiguous(r)
                    => SameRequest(call.request, r)
    /\ call.function = "buildAkamaiFingerprint" =>
          \A c \in Connections : result = AkamaiOf[c] <=> call.input = c

(***************************************************************************)
(* The percentiles of a report are those of the runs behind the warm-up,   *)
(* by nearest rank: at least p in a hundred of them take that long or      *)
(* less, and fewer than p in a hundred take less.  Without a run they are  *)
(* 0.                                                                      *)
(***************************************************************************)
IsPercentile(value, p, elapsed, runs) ==
    /\ 100 * Cardinality({i \in runs : elapsed[i] <= value}) >= p * Cardinality(runs)
    /\ 100 * Cardinality({i \in runs : elapsed[i] < value}) < p * Cardinality(runs)

PercentilesAreRanks ==
    call.function = "benchmark" =>
        LET runs == IF call.run.iterations = NaN THEN {}
                    ELSE 2 .. result.iterations + 1
        IN  IF runs = {}
            THEN result.p50 = 0 /\ result.p95 = 0 /\ result.p99 = 0
            ELSE /\ IsPercentile(result.p50, 50, call.run.elapsed, runs)
                 /\ IsPercentile(result.p95, 95, call.run.elapsed, runs)
                 /\ IsPercentile(result.p99, 99, call.run.elapsed, runs)

-----------------------------------------------------------------------------
(***************************************************************************)
(* How a reader takes DER apart: the elements side by side in bytes, and   *)
(* what is inside one of them.  Bytes that are no DER have no elements     *)
(* from the first wrong length on.                                         *)
(***************************************************************************)
LengthBytes(bytes, i) == IF Byte(bytes, i + 1) < 128 THEN 0 ELSE Byte(bytes, i + 1) - 128

ContentLength(bytes, i) ==
    CASE LengthBytes(bytes, i) = 0 -> Byte(bytes, i + 1)
      [] LengthBytes(bytes, i) = 1 -> Byte(bytes, i + 2)
      [] OTHER -> U16(bytes, i + 2)

ElementAt(bytes, i) ==
    LET first == i + 2 + LengthBytes(bytes, i)
    IN  [tag |-> Byte(bytes, i),
         content |-> Slice(bytes, first, first + ContentLength(bytes, i))]

Elements(bytes) ==
    LET next(i) == i + 2 + LengthBytes(bytes, i) + ContentLength(bytes, i)
        read[i \in Nat] ==
            IF i >= Len(bytes) \/ next(i) > Len(bytes) THEN <<>>
            ELSE <<ElementAt(bytes, i)>> \o read[next(i)]
    IN  read[0]

Inside(bytes, k) == IF k \in DOMAIN Elements(bytes) THEN Elements(bytes)[k].content ELSE <<>>

\* The arcs behind the second one; at is an offset and what is read of the arc.
ReadArcs(content) ==
    LET read[at \in Nat \X Nat] ==
            LET arc == (128 * at[2]) + (Byte(content, at[1]) % 128)
            IN  IF at[1] >= Len(content) THEN <<>>
                ELSE IF Byte(content, at[1]) < 128 THEN <<arc>> \o read[<<at[1] + 1, 0>>]
                ELSE read[<<at[1] + 1, arc>>]
    IN  read[<<1, 0>>]

(***************************************************************************)
(* A reader finds in the certificate what it was made of, however long the *)
(* names are: the SANs, issuer and subject alike, the times, the same      *)
(* algorithm where it is said twice, the key and the signature.            *)
(***************************************************************************)
CertificateReadsBack ==
    call.function = "generateSelfSignedCert" =>
        LET s == call.subject
            certificate == Inside(result, 1)
            tbs == Inside(certificate, 1)
            extensions == Inside(Inside(tbs, 8), 1)
            san == Inside(extensions, 1)
            tagged(tag, contents) ==
                [i \in DOMAIN contents |-> [tag |-> tag, content |-> contents[i]]]
        IN  /\ Len(Elements(result)) = 1
            /\ Len(Elements(certificate)) = 3
            /\ Len(Elements(tbs)) = 8
            /\ Len(Elements(extensions)) = 3
            /\ Elements(Inside(Inside(san, 2), 1)) = tagged(130, s.dnsNames) \o tagged(135, s.ipAddresses)
            /\ ReadArcs(Inside(san, 1)) = SubSeq(Oid.subjectAltName, 3, 4)
            /\ Inside(tbs, 4) = Inside(tbs, 6)
            /\ Elements(Inside(tbs, 5)) = tagged(24, s.validity)
            /\ ReadArcs(Inside(Inside(tbs, 3), 1)) = SubSeq(Oid.ecdsaWithSHA256, 3, 7)
            /\ Inside(tbs, 3) = Inside(certificate, 2)
            /\ DerTagged(48, Inside(tbs, 7)) = s.spki
            /\ Inside(certificate, 3) = <<0>> \o s.signature

=============================================================================
