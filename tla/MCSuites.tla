------------------------------ MODULE MCSuites ------------------------------
(***************************************************************************)
(* Arguments for the calls of Suites.                                      *)
(***************************************************************************)
EXTENDS Suites

\* Up to two settings; the values reach both halves and the sign bit.
Values == {<<0, 100>>, <<65535, 255>>}

MCSentSettings == SeqOf({1, 3, 5} \X Values, 2)

MCHttp2Profiles == UNION { [ids -> Values] : ids \in {{}, {3}, {3, 5}} }

Names == [letters : {"host", "accept"}, spelling : Spellings]

MCHeaderSets == SUBSET Names

MCHeaderOrders == SeqOf(Names, 2)

\* "a", "b" and "a,b" as names; "a=1", "a=2" and "b" as cookies, and two of
\* them in one; nothing as either.
NameStrings == {Cookie, Referer, <<97>>, <<98>>, <<97, 44, 98>>, <<>>}

CookieStrings == {<<97, 61, 49>>, <<97, 61, 50>>, <<98>>, <<97, 61, 49, 44, 98>>, <<>>}

\* Nothing, "en", "EN-us", "en-uk" and "en00".
Languages ==
    {<<>>, <<101, 110>>, <<69, 78, 45, 117, 115>>, <<101, 110, 45, 117, 107>>,
     <<101, 110, 48, 48>>}

MCRequests ==
    [method : {"GET"}, httpVersion : {"2"}, headerNames : SeqOf(NameStrings, 2),
     cookies : {<<>>, <<(<<98>>)>>}, acceptLanguage : {<<>>}]
      \cup
    [method : {"GET"}, httpVersion : {"2"}, headerNames : {<<>>, <<Cookie>>},
     cookies : SeqOf(CookieStrings, 2), acceptLanguage : {<<>>}]
      \cup
    [method : {"GET", "POST", "HEAD", "PUT", "DELETE", "OPTIONS", "PATCH"},
     httpVersion : {"0.9", "1.0", "1.1", "2", "3"}, headerNames : {<<(<<97>>)>>},
     cookies : {<<>>}, acceptLanguage : Languages]

MCConnections ==
    [settings : SeqOf([id : {1, 14}, value : {0, 4}], 2),
     windowUpdateIncrement : {0, 14}, priorityFrameCount : {0, 1},
     pseudoHeaderOrder : {<<":method", ":path">>, <<":path", ":method">>,
                          <<":method", ":authority", ":scheme", ":path">>}]

\* Every order of few samples; many samples in descending order, in which
\* the three percentiles are apart and ranks fall between two samples.
MCRuns ==
    { [iterations |-> n, elapsed |-> e] :
        n \in {NaN, -1, 0, 1, 2, 3}, e \in [1 .. 4 -> 1 .. 3] }
      \cup
    { [iterations |-> n, elapsed |-> [i \in 1 .. n + 1 |-> n + 1 - i]] :
        n \in {19, 20, 21, 99, 100, 101, 199, 200, 201} }

\* A name of every length that makes some length in the certificate longer.
Name(n) == [i \in 1 .. n |-> 97]

DnsNames ==
    { <<>>, <<Localhost>> } \cup { <<Name(n)>> : n \in 60 .. 135 }
        \cup { <<Localhost, Name(n)>> : n \in 190 .. 253 }

MCSubjects ==
    { [dnsNames |-> d, ipAddresses |-> a, validity |-> <<Name(15), Name(15)>>,
       spki |-> DerSequence(<<Name(89)>>), signature |-> Name(71)] :
        d \in DnsNames, a \in {<<>>, <<(<<127, 0, 0, 1>>)>>} }

=============================================================================
