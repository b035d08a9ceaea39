----------------------------- MODULE MCAutoExport -----------------------------
(* Two profiles and two contents: a profile can come, go and come back, and a
   schema can change and change back before the timer fires. *)
EXTENDS AutoExport
===============================================================================
