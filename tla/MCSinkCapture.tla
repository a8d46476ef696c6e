--------------------------- MODULE MCSinkCapture ---------------------------
(***************************************************************************)
(* Instances of SinkCapture for TLC.  The fragment lengths have a zero and *)
(* a non-zero value in either byte of the length field, alone and          *)
(* together; chunks of one byte make every total reachable.                *)
(***************************************************************************)
EXTENDS SinkCapture

MCBodies == {0, 1, 2, 255, 256, 257, 258, 517}

MCChunkLens == {1, 2, 4, 5, 6, 7, 90, 256, 261}

=============================================================================
