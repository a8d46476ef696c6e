---------------------------- MODULE MCSinkServer ----------------------------
(***************************************************************************)
(* Instances of SinkServer for TLC: the cfgs give the sets of calls,       *)
(* connections and stops as model values.  No symmetry is used, since the  *)
(* runs check liveness.                                                    *)
(***************************************************************************)
EXTENDS SinkServer

=============================================================================
