--------------------------- MODULE MCHelloParsers ---------------------------
(***************************************************************************)
(* HelloParsers on the messages and buffers of HelloSamples.               *)
(***************************************************************************)
EXTENDS HelloParsers, HelloSamples

=============================================================================
