---------------------------- MODULE MCControlCore ----------------------------
(* One terminal control with a root record and one task under it. *)
EXTENDS ControlCore

MCIds == {<<>>, <<"a">>}
=============================================================================
