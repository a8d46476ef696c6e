------------------------------- MODULE Ja4Tag -------------------------------
(***************************************************************************)
(* computeJa4Fingerprint() of src/src/fingerprint/ja4.ts: what becomes of  *)
(* the fields that parseJa4ClientHello() returns (seen of Ja4Parser).      *)
(*                                                                         *)
(* A string in hexadecimal is the number or the list of numbers it spells, *)
(* and a hash is what is hashed: the parts of a fingerprint are compared   *)
(* and nothing else.  A count has the two digits it is padded to, which is *)
(* right below 100, and the characters of a protocol are its bytes, which  *)
(* is right for ASCII.                                                     *)
(***************************************************************************)
EXTENDS HelloAccessors

LowerCase(byte) == IF byte \in 65 .. 90 THEN byte + 32 ELSE byte

(***************************************************************************)
(* alpnCode() takes the names joined by commas and splits them again: what *)
(* is in front of the first comma counts, "00" when that is nothing.       *)
(***************************************************************************)
AlpnCode(names) ==
    LET name == IF names = <<>> THEN <<>> ELSE Head(names)
        comma == SelectInSeq(name, LAMBDA b : b = 44)
        first == IF comma = 0 THEN name ELSE SubSeq(name, 1, comma - 1)
    IN  IF first = <<>> THEN <<48, 48>>
        ELSE <<LowerCase(Head(first)), LowerCase(Last(first))>>

(***************************************************************************)
(* tlsVersionLabel(): "13" to "10" and "09", or the code in hexadecimal.   *)
(* The label is given as the number it is in hexadecimal.                  *)
(***************************************************************************)
TlsVersionLabel(code) ==
    IF code \in 769 .. 772 THEN code - 753 ELSE IF code = 768 THEN 9 ELSE code

\* A faulty variant of SortedCodes: the order of the wire is kept.
UnsortedCodes(codes) == codes

SortedCodes(codes) == SortSeq(codes, LAMBDA x, y : x < y)

\* SNI, ALPN and padding are not hashed.
Hashed(types) == SelectSeq(types, LAMBDA t : t \notin {0, 16, 21})

Fingerprint(seen) ==
    [a |-> <<TlsVersionLabel(IF seen.highest > 0 THEN seen.highest ELSE seen.version),
             seen.sni, Len(seen.suites), Len(seen.types), AlpnCode(seen.alpn)>>,
     b |-> SortedCodes(seen.suites),
     c |-> <<SortedCodes(Hashed(seen.types)), seen.algorithms>>,
     f |-> <<seen.version>> \o seen.suites \o seen.types \o seen.groups \o seen.formats]

\* The tag: a, b and c.
ComputeJa4(seen) ==
    LET parts == Fingerprint(seen) IN <<parts.a, parts.b, parts.c>>

=============================================================================
