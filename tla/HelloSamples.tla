---------------------------- MODULE HelloSamples ----------------------------
(***************************************************************************)
(* Buffers for the ClientHello parsers: messages with every part absent,   *)
(* empty or filled, and what becomes of them when they are cut, changed in *)
(* one byte or followed by another message.  Every byte of the message but *)
(* those of the random is changed; the values reach zero, off by one, the  *)
(* magic numbers and far beyond the end.                                   *)
(***************************************************************************)
EXTENDS HelloWire

LOCAL Random == [i \in 1 .. 32 |-> 0]

LOCAL Hello(sessionId, suites, methods, extensible, extensions) ==
    [version |-> 771, random |-> Random, sessionId |-> sessionId, suites |-> suites,
     methods |-> methods, extensible |-> extensible, extensions |-> extensions]

LOCAL Ext(type, data) == [type |-> type, data |-> data]

\* Two host names and one of another type, two protocols, one with a comma
\* in its name, two algorithms with GREASE.
LOCAL Sni ==
    Vector16(<<0>> \o Vector16(<<97>>) \o <<1>> \o Vector16(<<>>) \o <<0>> \o Vector16(<<98>>))

LOCAL Alpn == Vector16(Vector8(<<104, 50>>) \o Vector8(<<104>>))

LOCAL AlpnWithComma == Vector16(Vector8(<<104, 44, 50>>))

LOCAL Algorithms == Vector16(Codes(<<1027, 2570, 1025>>))

SampleHellos ==
    { Hello(<<>>, <<>>, <<>>, FALSE, <<>>),
      Hello(<<7>>, <<4865>>, <<0>>, FALSE, <<>>),
      Hello(<<>>, <<4865, 2570>>, <<0>>, TRUE, <<>>),
      Hello(<<7, 7>>, <<4865>>, <<0>>, TRUE, <<Ext(35, <<>>)>>),
      Hello(<<>>, <<47>>, <<1, 0>>, TRUE,
            <<Ext(10, Vector16(Codes(<<2570, 29>>))), Ext(11, Vector8(<<0>>))>>),
      Hello(<<>>, <<47>>, <<>>, TRUE,
            <<Ext(2570, <<>>), Ext(43, Vector8(Codes(<<2570, 772, 771>>)))>>),
      Hello(<<>>, <<47>>, <<0>>, TRUE, <<Ext(0, Sni)>>),
      Hello(<<>>, <<47>>, <<0>>, TRUE, <<Ext(16, Alpn), Ext(13, Algorithms)>>),
      \* 0x0c0c is no GREASE.
      Hello(<<>>, <<3084>>, <<0>>, TRUE, <<Ext(16, AlpnWithComma)>>) }

SampleMessages == Sent(SampleHellos)

\* A body of any length, its length in the header being right.
LOCAL ShortBodies ==
    LET cut == UNION { { SubSeq(Body(h), 1, n) : n \in 34 .. Len(Body(h)) } :
                         h \in SampleHellos }
        bare == { Handshake(b) : b \in cut }
    IN  bare \cup { Record(m) : m \in bare }

LOCAL Parts(m) == { SubSeq(m, 1, n) : n \in 0 .. Len(m) }

LOCAL Changed(m) ==
    LET first == RecordHeader(m)
        inRandom == first + 7 .. first + 38
    IN  { [m EXCEPT ![i] = v] : i \in DOMAIN m \ inRandom, v \in {0, 1, 2, 3, 4, 22, 255} }

LOCAL Followed(m) == { m \o <<22>>, m \o m }

SampleBuffers ==
    ShortBodies
        \cup UNION { Parts(m) \cup Changed(m) \cup Followed(m) : m \in SampleMessages }

=============================================================================
