----------------------------- MODULE MCSessionTree ----------------------------
(* A launch of a session with a nested one, separators inside and after, with a
   drag; one of two separators that lead; one of three sessions, of which some can
   be closed while others are still to come; and one with two drags, after which a
   separator may own rows.  Without a startup list a default session opens. *)
EXTENDS SessionTree

MCTabOrder == <<"t1", "t2", "t3">>

Nested == <<Row("a", NoId, FALSE), Row("s", "a", TRUE), Row("b", "a", FALSE), Row("u", NoId, TRUE)>>

Leading == <<Row("u", NoId, TRUE), Row("s", NoId, TRUE), Row("a", NoId, FALSE), Row("b", NoId, FALSE)>>

Deep == <<Row("a", NoId, FALSE), Row("b", "a", FALSE), Row("u", "a", TRUE), Row("c", "b", FALSE),
          Row("s", "a", TRUE)>>

Apart == <<Row("a", NoId, FALSE), Row("u", "a", TRUE), Row("s", NoId, TRUE), Row("b", NoId, FALSE)>>

MCScenarios ==
    {[list |-> <<>>, maxTabs |-> 2, maxMoves |-> 0, settings |-> FALSE],
     [list |-> Nested, maxTabs |-> 2, maxMoves |-> 1, settings |-> TRUE],
     [list |-> Leading, maxTabs |-> 2, maxMoves |-> 0, settings |-> TRUE],
     [list |-> Deep, maxTabs |-> 3, maxMoves |-> 0, settings |-> FALSE],
     [list |-> Apart, maxTabs |-> 2, maxMoves |-> 2, settings |-> FALSE]}
===============================================================================
