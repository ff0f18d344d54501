---------------------------- MODULE MCSendQuery ----------------------------
(* SendQuery with a few callers. *)
EXTENDS SendQuery
=============================================================================
