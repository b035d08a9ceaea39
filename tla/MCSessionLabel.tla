---------------------------- MODULE MCSessionLabel ----------------------------
(* One row of a tab with two panes. *)
EXTENDS SessionLabel, TLC
===============================================================================
