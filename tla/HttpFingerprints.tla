-------------------------- MODULE HttpFingerprints --------------------------
(***************************************************************************)
(* The fingerprints of HTTP traffic: computeJa4h()                         *)
(* (src/src/fingerprint/ja4h.ts) and buildAkamaiFingerprint()              *)
(* (akamai-http2.ts).                                                      *)
(***************************************************************************)
EXTENDS StableSort, SequencesExt

\* parts[1], sep, parts[2], sep, ...
Join(parts, sep) ==
    IF parts = <<>> THEN <<>>
    ELSE Tail(FlattenSeq([i \in DOMAIN parts |-> <<sep>> \o parts[i]]))

-----------------------------------------------------------------------------
(***************************************************************************)
(* JA4H.  Names of headers, cookies and languages are strings of code      *)
(* units.                                                                  *)
(***************************************************************************)
\* "cookie" and "referer"; and the empty name of a cookie.
Cookie == <<99, 111, 111, 107, 105, 101>>

Referer == <<114, 101, 102, 101, 114, 101, 114>>

NoName == <<>>

CommaCode == 44

EqualsCode == 61

ZeroCode == 48

\* A faulty variant of SortedNames: the order of the request is kept.
UnsortedNames(names) == names

SortedNames(names) == InStringOrder(names)

\* What filter() leaves.
Without(list, item) ==
    FlattenSeq([i \in DOMAIN list |-> IF list[i] = item THEN <<>> ELSE <<list[i]>>])

\* slice(0, 2) in lower case.
MethodCode(method) ==
    CASE method = "GET" -> "ge"
      [] method = "POST" -> "po"
      [] method = "HEAD" -> "he"
      [] method = "PUT" -> "pu"
      [] method = "DELETE" -> "de"
      [] method = "OPTIONS" -> "op"
      [] method = "PATCH" -> "pa"

VersionCode(version) ==
    CASE version = "1.1" -> "11"
      [] version = "2" -> "02"
      [] version = "3" -> "03"
      [] OTHER -> "00"

LowerCase(code) == IF code \in 65 .. 90 THEN code + 32 ELSE code

\* slice(0, 4).padEnd(4, "0") in lower case.
LanguagePrefix(text) ==
    [k \in 1 .. 4 |-> LowerCase(IF k <= Len(text) THEN text[k] ELSE ZeroCode)]

\* split("=")[0]: what is in front of the first "=", or all of it.
CookieName(cookie) ==
    LET marks == {i \in DOMAIN cookie : cookie[i] = EqualsCode}
    IN  IF marks = {} THEN cookie ELSE SubSeq(cookie, 1, Min(marks) - 1)

\* sort().join(","), which is what is hashed.
Listed(list) == Join(SortedNames(list), CommaCode)

(***************************************************************************)
(* A hash is the string that is hashed, and twelve zeros are the hash of   *)
(* the empty one.  The parts of JA4H_a have fixed widths but for the       *)
(* number of headers, so its string is as good as the tuple of them.       *)
(***************************************************************************)
ComputeJa4h(request) ==
    LET names == [i \in DOMAIN request.cookies |-> CookieName(request.cookies[i])]
    IN  [a |-> <<MethodCode(request.method), VersionCode(request.httpVersion),
                 request.cookies # <<>>, Contains(request.headerNames, Referer),
                 Len(request.headerNames), LanguagePrefix(request.acceptLanguage)>>,
         b |-> Listed(request.cookies),
         c |-> Listed(Without(names, NoName)),
         d |-> Listed(Without(request.headerNames, Cookie))]

-----------------------------------------------------------------------------
(***************************************************************************)
(* The Akamai string is the sequence of its tokens.  A number is the token *)
(* it is spelt as, and the characters between numbers are negative.        *)
(***************************************************************************)
Colon == -1

Semicolon == -2

Bar == -3

Comma == -4

\* "m", "a", "s", "p".
PseudoHeaderCode(header) ==
    CASE header = ":method" -> -5
      [] header = ":authority" -> -6
      [] header = ":scheme" -> -7
      [] header = ":path" -> -8

(***************************************************************************)
(* SETTINGS|WINDOW_UPDATE|PRIORITY_FRAMES|PSEUDO_HEADER_ORDER, settings    *)
(* and pseudo-headers in the order in which they were sent.                *)
(***************************************************************************)
BuildAkamaiFingerprint(input) ==
    LET settings == [i \in DOMAIN input.settings |->
                        <<input.settings[i].id, Colon, input.settings[i].value>>]
        pseudo == [i \in DOMAIN input.pseudoHeaderOrder |->
                        <<PseudoHeaderCode(input.pseudoHeaderOrder[i])>>]
    IN  Join(<<Join(settings, Semicolon), <<input.windowUpdateIncrement>>,
               <<input.priorityFrameCount>>, Join(pseudo, Comma)>>, Bar)

=============================================================================
