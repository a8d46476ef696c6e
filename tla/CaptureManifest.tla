-------------------------- MODULE CaptureManifest --------------------------
(***************************************************************************)
(* The captures that src/captures/manifest.ts registers, in its order, and *)
(* the byte ranges it declares random.                                     *)
(***************************************************************************)
EXTENDS Naturals, Sequences

Field(byteOffset, length, reason) ==
    [byteOffset |-> byteOffset, length |-> length, reason |-> reason]

Entry(profile, protocol, fields) ==
    [profile |-> profile, protocol |-> protocol, randomizedFields |-> fields]

RandomField == Field(12, 32, "random")

KeyField == Field(49, 32, "ephemeral_key")

captures ==
    << Entry("chrome-140", "tls", <<RandomField, KeyField>>),
       Entry("chrome-140", "http2", <<>>),
       Entry("firefox-128", "tls", <<RandomField, KeyField>>),
       Entry("chrome-131", "tls", <<RandomField, Field(112, 1641, "grease")>>),
       Entry("firefox-133", "tls", <<RandomField>>),
       Entry("safari-17", "tls", <<RandomField>>) >>

=============================================================================
