------------------------------ MODULE RfcTests ------------------------------
(***************************************************************************)
(* The compliance suites of src/src/rfc/rfcTests.ts.  A suite is a         *)
(* function of a capture on disk and of a profile, which is a record of    *)
(* the external package of profiles; what it returns is reduced to pass.   *)
(* Loading the capture is loadGolden() of Golden.                          *)
(***************************************************************************)
EXTENDS HelloWire

(***************************************************************************)
(* parseTlsCapture() on what JA3 has read (seen of Ja3Parser).  Versions   *)
(* and algorithms are left empty; GREASE is any suite of two equal bytes   *)
(* from 0x0a0a on.                                                         *)
(***************************************************************************)
ParseTlsCapture(segs) ==
    [cipherSuites |-> segs.suites, extensionTypes |-> segs.types,
     supportedVersions |-> <<>>, keyShareGroups |-> segs.groups,
     signatureAlgorithms |-> <<>>,
     grease |-> \E i \in DOMAIN segs.suites :
                    LET c == segs.suites[i] IN c >= 2570 /\ c \div 256 = c % 256]

-----------------------------------------------------------------------------
\* map.set(id, value).
MapSet(map, id, value) ==
    [key \in DOMAIN map \cup {id} |-> IF key = id THEN value ELSE map[key]]

SettingId(payload, k) == U16(payload, 6 * (k - 1))

\* 32 bits, unsigned, as the pair of their halves.
SettingValue(payload, k) ==
    <<U16(payload, (6 * (k - 1)) + 2), U16(payload, (6 * (k - 1)) + 4)>>

\* A faulty variant of ParseHttp2Settings: the first setting of an id stays.
ParseFirstSettings(payload) ==
    LET settings[k \in 0 .. Len(payload) \div 6] ==
            IF k = 0 THEN <<>>
            ELSE IF SettingId(payload, k) \in DOMAIN settings[k - 1] THEN settings[k - 1]
            ELSE MapSet(settings[k - 1], SettingId(payload, k), SettingValue(payload, k))
    IN  settings[Len(payload) \div 6]

(***************************************************************************)
(* A later setting of the same id replaces the one before it, and what is  *)
(* left of the payload behind the last six whole bytes is not looked at.   *)
(***************************************************************************)
ParseHttp2Settings(payload) ==
    LET settings[k \in 0 .. Len(payload) \div 6] ==
            IF k = 0 THEN <<>>
            ELSE MapSet(settings[k - 1], SettingId(payload, k), SettingValue(payload, k))
    IN  settings[Len(payload) \div 6]

(***************************************************************************)
(* Behind the frame header of 9 bytes, whatever length that gives; a       *)
(* capture that is shorter or of another type than SETTINGS is returned as *)
(* it is.                                                                  *)
(***************************************************************************)
SettingsPayload(capture) ==
    IF Len(capture) < 9 \/ Byte(capture, 3) # 4 THEN capture
    ELSE SubSeq(capture, 10, Len(capture))

\* MAX_CONCURRENT_STREAMS, INITIAL_WINDOW_SIZE, MAX_FRAME_SIZE.
CheckedSettings == {3, 4, 5}

\* map.get(id), or none.
Lookup(map, id) == IF id \in DOMAIN map THEN <<map[id]>> ELSE <<>>

(***************************************************************************)
(* expected: profile.http2.settings, by id; undefined equals undefined.    *)
(***************************************************************************)
RunHttp2Compliance(capture, expected) ==
    LET settings == ParseHttp2Settings(SettingsPayload(capture))
    IN  \A id \in CheckedSettings : Lookup(settings, id) = Lookup(expected, id)

-----------------------------------------------------------------------------
(***************************************************************************)
(* A header name is its letters and how they are spelt.                    *)
(***************************************************************************)
Spellings == {"lower", "Capital", "UPPER"}

ToLowerCase(name) == [name EXCEPT !.spelling = "lower"]

Host(spelling) == [letters |-> "host", spelling |-> spelling]

\* A faulty variant of HasHost: the order is not looked at.
HasHostByDefault(headers, order) == headers \cap {Host("lower"), Host("Capital")} # {}

HasHost(headers, order) ==
    \/ \E k \in DOMAIN order : ToLowerCase(order[k]) = Host("lower")
    \/ Host("lower") \in headers
    \/ Host("Capital") \in headers

(***************************************************************************)
(* headers: the keys of the profile's default headers; order: its list     *)
(* headerOrder.  The loop over the keys with the set of names seen finds a *)
(* duplicate when two keys have the same name.                             *)
(***************************************************************************)
RunHttp1Compliance(headers, order) ==
    LET orderSet == { ToLowerCase(order[k]) : k \in DOMAIN order }
        duplicates == \E g, h \in headers : g # h /\ ToLowerCase(g) = ToLowerCase(h)
    IN  /\ HasHost(headers, order)
        /\ \A k \in DOMAIN order : order[k] = ToLowerCase(order[k])
        /\ ~duplicates
        /\ \A h \in headers : ToLowerCase(h) \in orderSet

=============================================================================
