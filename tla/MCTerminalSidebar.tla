--------------------------- MODULE MCTerminalSidebar ---------------------------
(* Startup trees of up to four tabs: a child of an earlier tab that another
   tab has come after, a chain, and none. *)
EXTENDS TerminalSidebar, TLC

MCSymmetry == Permutations(Screens)

MCStartupLists == {<<>>, <<0, 0, 1, 1>>, <<0, 1, 2, 0>>}

MCNoStartup == {<<>>}
===============================================================================
