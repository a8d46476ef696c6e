------------------------------ MODULE CertGen ------------------------------
(***************************************************************************)
(* The DER builders and generateSelfSignedCert() of                        *)
(* src/src/e2e/cert-gen.ts, byte by byte: lengths that depend on what is   *)
(* inside are what a reader of the certificate goes by.  The public key,   *)
(* the signature and the text of the two times come from outside.          *)
(***************************************************************************)
EXTENDS Integers, SequencesExt

\* A faulty variant of DerLength: one byte is enough up to 255.
DerLengthShort(n) ==
    IF n < 256 THEN <<n>> ELSE <<130, (n \div 256) % 256, n % 256>>

DerLength(n) ==
    IF n < 128 THEN <<n>>
    ELSE IF n < 256 THEN <<129, n>>
    ELSE <<130, (n \div 256) % 256, n % 256>>

DerTagged(tag, content) == <<tag>> \o DerLength(Len(content)) \o content

DerSequence(parts) == DerTagged(48, FlattenSeq(parts))

DerSet(parts) == DerTagged(49, FlattenSeq(parts))

DerNull == <<5, 0>>

DerBooleanTrue == <<1, 1, 255>>

DerInteger(value) ==
    DerTagged(2, IF value # <<>> /\ Head(value) >= 128 THEN <<0>> \o value ELSE value)

DerBitString(content) == DerTagged(3, <<0>> \o content)

DerOctetString(content) == DerTagged(4, content)

DerUtf8String(text) == DerTagged(12, text)

DerGeneralizedTime(text) == DerTagged(24, text)

(***************************************************************************)
(* An arc in groups of 7 bits, all but the last with the high bit set.     *)
(* Arcs are below 2^31: from there on the loop's >>= makes them negative.  *)
(***************************************************************************)
Base128(arc) ==
    LET front[v \in Nat] == IF v = 0 THEN <<>> ELSE Append(front[v \div 128], 128 + (v % 128))
    IN  Append(front[arc \div 128], arc % 128)

\* The first two arcs share a byte.
DerOid(arcs) ==
    DerTagged(6, <<((40 * arcs[1]) + arcs[2]) % 256>>
                    \o FlattenSeq([i \in 1 .. Len(arcs) - 2 |-> Base128(arcs[i + 2])]))

DerImplicitOctetString(tag, content) == DerTagged(128 + tag, content)

DerExplicitTagged(tag, content) == DerTagged(160 + tag, content)

-----------------------------------------------------------------------------
Oid == [ecdsaWithSHA256 |-> <<1, 2, 840, 10045, 4, 3, 2>>, commonName |-> <<2, 5, 4, 3>>,
        subjectAltName |-> <<2, 5, 29, 17>>, keyUsage |-> <<2, 5, 29, 15>>,
        basicConstraints |-> <<2, 5, 29, 19>>]

Localhost == <<108, 111, 99, 97, 108, 104, 111, 115, 116>>

SanEntries(dnsNames, ipAddresses) ==
    [i \in DOMAIN dnsNames |-> DerImplicitOctetString(2, dnsNames[i])]
        \o [i \in DOMAIN ipAddresses |-> DerImplicitOctetString(7, ipAddresses[i])]

CertExtensions(dnsNames, ipAddresses) ==
    DerSequence(<<
        DerSequence(<<DerOid(Oid.subjectAltName),
                      DerOctetString(DerSequence(SanEntries(dnsNames, ipAddresses)))>>),
        DerSequence(<<DerOid(Oid.keyUsage), DerBooleanTrue,
                      DerOctetString(<<3, 2, 7, 128>>)>>),
        DerSequence(<<DerOid(Oid.basicConstraints), DerBooleanTrue,
                      DerOctetString(DerSequence(<<>>))>>)>>)

SigAlg == DerSequence(<<DerOid(Oid.ecdsaWithSHA256), DerNull>>)

Tbs(dnsNames, ipAddresses, validity, spki) ==
    LET name == DerSequence(<<DerSet(<<DerSequence(<<DerOid(Oid.commonName),
                                                     DerUtf8String(Localhost)>>)>>)>>)
    IN  DerSequence(<<DerExplicitTagged(0, DerInteger(<<2>>)), DerInteger(<<1>>), SigAlg, name,
                      DerSequence(<<DerGeneralizedTime(validity[1]),
                                    DerGeneralizedTime(validity[2])>>),
                      name, spki,
                      DerExplicitTagged(3, CertExtensions(dnsNames, ipAddresses))>>)

GenerateSelfSignedCert(dnsNames, ipAddresses, validity, spki, signature) ==
    DerSequence(<<Tbs(dnsNames, ipAddresses, validity, spki), SigAlg, DerBitString(signature)>>)

=============================================================================
