------------------------------- MODULE EntryTree ------------------------------
(***************************************************************************)
(* The structural rules of the startup tree (AxanEntryTreeOps.h) and its   *)
(* expansion into launch actions (AxanSessionTree.cpp).  The tree is a     *)
(* flat list of rows; a row names its parent by id, or the empty id.       *)
(* Lists are only ordered by the forward-reference rule (a parent precedes *)
(* its children): a family need not be contiguous.                         *)
(***************************************************************************)
EXTENDS OrderedSets

NoId == ""

Row(id, parent, separator) == [id |-> id, parent |-> parent, separator |-> separator]

(* The elements of a list at a set of positions, in list order. *)
At(list, indices) == [k \in DOMAIN indices |-> list[indices[k]]]

Keep(list, positions) == At(list, InOrder(positions))

Last(positions) == CHOOSE i \in positions : \A j \in positions : j =< i

First(positions) == CHOOSE i \in positions : \A j \in positions : i =< j

-------------------------------------------------------------------------------
(* depth(row) = depth(parent) + 1; a parent that is not an earlier row reads as
   a root. *)
Depths(nodes) ==
    LET depth[i \in DOMAIN nodes] ==
          LET earlier == {j \in 1..(i - 1) : nodes[j].id = nodes[i].parent}
          IN  IF nodes[i].parent = NoId \/ earlier = {} THEN 0 ELSE depth[Last(earlier)] + 1
    IN  depth

(* Mutant: a row's subtree is the run of deeper rows below it. *)
MutContiguousSubtree(nodes, root) ==
    {i \in root..Len(nodes) : \A j \in (root + 1)..i : Depths(nodes)[j] > Depths(nodes)[root]}

(* The positions of a row and of its descendants. *)
SubtreeMask(nodes, root) ==
    LET inside[i \in DOMAIN nodes] ==
          \/ i = root
          \/ /\ i > root /\ nodes[i].parent # NoId
             /\ \E j \in root..(i - 1) : inside[j] /\ nodes[j].id = nodes[i].parent
    IN  {i \in DOMAIN nodes : inside[i]}

SubtreeEnd(nodes, root) == Last(SubtreeMask(nodes, root))

(* The nearest sibling above or below, as a set of at most one position. *)
PrevSibling(nodes, index) ==
    LET above == {i \in 1..(index - 1) : nodes[i].parent = nodes[index].parent}
    IN  {i \in above : i = Last(above)}

NextSibling(nodes, index) ==
    LET below == {i \in (index + 1)..Len(nodes) : nodes[i].parent = nodes[index].parent}
    IN  {i \in below : i = First(below)}

(* The row that Indent makes the parent: the nearest session above at the row's
   own depth, separators skipped, no shallower row in between. *)
IndentParent(nodes, index) ==
    LET depth == Depths(nodes)
    IN  {i \in 1..(index - 1) :
            /\ depth[i] = depth[index] /\ ~nodes[i].separator
            /\ \A k \in (i + 1)..(index - 1) :
                  depth[k] > depth[index] \/ (depth[k] = depth[index] /\ nodes[k].separator)}

(* Outdent's new parent: the parent's parent, the root when it does not resolve. *)
OutdentParent(nodes, index) ==
    LET parents == {j \in DOMAIN nodes : nodes[j].id = nodes[index].parent}
    IN  IF parents = {} THEN NoId ELSE nodes[First(parents)].parent

-------------------------------------------------------------------------------
(* A block move lifts the rows at the positions "block" and inserts them, in the
   order listed, after the first insertAt rows of what is left. *)
ApplyBlockMove(list, move) ==
    LET lifted == {move.block[k] : k \in DOMAIN move.block}
        rest == Keep(list, DOMAIN list \ lifted)
    IN  SubSeq(rest, 1, move.insertAt) \o At(list, move.block)
            \o SubSeq(rest, move.insertAt + 1, Len(rest))

(* Up: the block goes before the previous sibling; down: after the last row of
   the next sibling's subtree. *)
MoveAmongSiblings(nodes, index, sibling, up) ==
    LET moved == SubtreeMask(nodes, index)
        passed == SubtreeMask(nodes, sibling) \ moved
        before == {i \in DOMAIN nodes : IF up THEN i < sibling ELSE \E j \in passed : i =< j}
    IN  [block |-> InOrder(moved), insertAt |-> Cardinality(before \ moved)]

(* Where Duplicate inserts the copy: after the row's whole subtree. *)
DuplicateInsertIndex(nodes, index) == SubtreeEnd(nodes, index) + 1

(* What is selected after a delete: the next sibling (a promoted child counts),
   else the row above, else nothing (0). *)
SelectionAfterDelete(after, deletedIndex, deletedParent) ==
    LET siblings == {i \in deletedIndex..Len(after) : after[i].parent = deletedParent}
    IN  IF siblings # {} THEN First(siblings) ELSE deletedIndex - 1

-------------------------------------------------------------------------------
(* The fix-up after the list's own drag reorder, which moved the head alone. *)

(* Mutant: the forward pass of SubtreeMask instead of the closure by id. *)
MutForwardPass(after, headIndex) == {after[i].id : i \in SubtreeMask(after, headIndex)}

(* The head's family by id: the head may sit below its own children. *)
SubtreeIds(after, headIndex) ==
    LET grown[k \in 0..Len(after)] ==
          IF k = 0 THEN {after[headIndex].id}
          ELSE LET children == {i \in DOMAIN after : after[i].parent # NoId /\ after[i].parent \in grown[k - 1]}
               IN  grown[k - 1] \cup {after[i].id : i \in children}
    IN  grown[Len(after)]

Clamp(n, low, high) == IF n < low THEN low ELSE IF n > high THEN high ELSE n

(* Mutant: the depth of the row below the landing spot is not looked at. *)
MutIgnoresBelow(oldDepth, below, maxDepth) == Clamp(oldDepth, 0, maxDepth)

(* The head's new depth before the separator rule. *)
LandingDepth(oldDepth, below, maxDepth) ==
    Clamp(oldDepth, IF below < maxDepth THEN below ELSE maxDepth, maxDepth)

NormalizeAfterDrag(after, headIndex, oldDepth) ==
    LET family == SubtreeIds(after, headIndex)
        inFamily == {i \in DOMAIN after : after[i].id \in family}
        outside == DOMAIN after \ inFamily
        rest == Keep(after, outside)
        anchor == Cardinality({i \in outside : i < headIndex})
        depth == Depths(rest)
        maxDepth == IF anchor = 0 THEN 0 ELSE depth[anchor] + 1
        below == IF anchor < Len(rest) THEN depth[anchor + 1] ELSE 0
        clamped == LandingDepth(oldDepth, below, maxDepth)
        newDepth == IF anchor # 0 /\ clamped = maxDepth /\ rest[anchor].separator
                    THEN depth[anchor] ELSE clamped
        ancestor[i \in DOMAIN rest] ==
            IF depth[i] =< newDepth - 1 THEN i
            ELSE ancestor[First({j \in DOMAIN rest : rest[j].id = rest[i].parent})]
    IN  [move |-> [block |-> <<headIndex>> \o InOrder(inFamily \ {headIndex}),
                   insertAt |-> anchor],
         headParent |-> IF newDepth > 0 THEN rest[ancestor[anchor]].id ELSE NoId]

-------------------------------------------------------------------------------
(* The structural invariant: every parent is empty or an EARLIER session row. *)
IsWellFormed(nodes) ==
    \A i \in DOMAIN nodes :
        nodes[i].parent # NoId =>
            \E j \in 1..(i - 1) :
                /\ nodes[j].id = nodes[i].parent /\ ~nodes[j].separator
                /\ \A k \in 1..(j - 1) : nodes[k].id # nodes[i].parent

-------------------------------------------------------------------------------
(* LoadStartupTree: sessions are numbered in list order (from 0); a parent
   resolves to a session already numbered, a separator's to the separator's own
   parent, anything else to the root (-1).  A separator records the session it
   follows in its scope.  A list without a session starts nothing. *)

Sessions(entries) == {i \in DOMAIN entries : ~entries[i].separator}

SpawnIndex(entries, i) == Position(Sessions(entries), i)

(* Mutant: the parent is looked up in the whole list. *)
MutResolvesForward(entries) ==
    [i \in DOMAIN entries |->
        LET named == {j \in Sessions(entries) : entries[j].id = entries[i].parent}
        IN  IF named = {} THEN -1 ELSE SpawnIndex(entries, Last(named))]

ResolveParents(entries) ==
    LET resolve[i \in DOMAIN entries] ==
          LET named == {j \in 1..(i - 1) : entries[j].id = entries[i].parent}
              sessions == named \cap Sessions(entries)
          IN  IF entries[i].parent = NoId \/ named = {} THEN -1
              ELSE IF sessions # {} THEN SpawnIndex(entries, Last(sessions))
              ELSE resolve[Last(named)]
    IN  resolve

LoadStartupTree(entries) ==
    LET parent == ResolveParents(entries)
        sessions == InOrder(Sessions(entries))
        separators == InOrder(DOMAIN entries \ Sessions(entries))
        scope(i) == {j \in Sessions(entries) : j < i /\ parent[j] = parent[i]}
    IN  [sessions |-> [k \in DOMAIN sessions |->
                          [id |-> entries[sessions[k]].id, parent |-> parent[sessions[k]]]],
         separators |->
             IF sessions = <<>> THEN <<>>
             ELSE [k \in DOMAIN separators |->
                     LET i == separators[k]
                     IN  [id |-> entries[i].id, parent |-> parent[i],
                          after |-> IF scope(i) = {} THEN -1 ELSE SpawnIndex(entries, Last(scope(i)))]]]
===============================================================================
