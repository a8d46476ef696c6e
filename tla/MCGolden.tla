------------------------------ MODULE MCGolden ------------------------------
(***************************************************************************)
(* Instances of Golden for TLC.  In the small one the stored bytes are all *)
(* 0, for only equal or different counts; the fields are empty, adjacent,  *)
(* overlapping, nested and beyond the end of the arrays.  In the other the *)
(* bytes are ClientHellos and the fields those of the manifest.            *)
(***************************************************************************)
EXTENDS Golden, CaptureManifest, HelloWire

Sidecar(fields) ==
    [wellTyped |-> TRUE, source |-> "curl-impersonate", protocol |-> "tls",
     record |-> "client_hello", randomizedFields |-> fields]

MCIds == {<<"chrome-140", "tls", "client_hello">>, <<"chrome-140:client-hello:1">>}

SmallActuals == UNION {[1 .. n -> {0, 1}] : n \in 0 .. 3}

SmallContents == {[i \in 1 .. n |-> 0] : n \in 0 .. 3}

SmallFields == {Field(o, l, "nonce") : o \in 0 .. 3, l \in 0 .. 2}

ValidSidecars == {Sidecar(fs) : fs \in UNION {[1 .. n -> SmallFields] : n \in 0 .. 2}}

\* One for each check that a sidecar may fail.
InvalidSidecars ==
    {[Sidecar(<<>>) EXCEPT !.wellTyped = FALSE],
     [Sidecar(<<>>) EXCEPT !.source = "guess"],
     [Sidecar(<<>>) EXCEPT !.protocol = "quic"],
     [Sidecar(<<>>) EXCEPT !.record = "guess"],
     Sidecar(<<Field(-1, 1, "nonce")>>),
     Sidecar(<<Field(0, -1, "nonce")>>),
     Sidecar(<<Field(0, 1, "guess")>>)}

SmallSidecars == ValidSidecars \cup InvalidSidecars

NewSmallContents == {<<>>, <<0, 0>>}

NewSmallSidecars == {Sidecar(<<>>), Sidecar(<<Field(1, 2, "nonce"), Field(0, 1, "nonce")>>)}

HelloWith(random) ==
    Record(Handshake(Body([version |-> 771, random |-> random, sessionId |-> <<>>,
        suites |-> <<4865>>, methods |-> <<0>>, extensible |-> FALSE, extensions |-> <<>>])))

HelloContents == {HelloWith([i \in 1 .. 32 |-> 0])}

HelloActuals == {HelloWith([i \in 1 .. 32 |-> IF i \in S THEN 1 ELSE 0]) :
                    S \in {{}} \cup {{k} : k \in 1 .. 32}}

ManifestSidecars == {Sidecar(captures[k].randomizedFields) : k \in {1, 3, 4, 5, 6}}

None == {}

=============================================================================
