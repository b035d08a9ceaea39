------------------------ MODULE MCProgramStatusStore ------------------------
(* The store alone: four ids three levels deep, with "ab" beside "a". *)
EXTENDS ProgramStatusStore

MCIds == {<<>>, <<"a">>, <<"a", "b">>, <<"a", "b", "c">>, <<"ab">>}
=============================================================================
