---------------------------- MODULE StartupEntries ----------------------------
(***************************************************************************)
(* The startup tree editor (StartupSessionsViewModel.cpp and the page      *)
(* StartupSessions.cpp): the list of rows on the page, and the settings    *)
(* clone each structural operation commits it to.  Every handler runs on   *)
(* the UI thread; a drag spans several of them.  The list control moves    *)
(* the dragged row alone, and the view-model repairs the tree once the     *)
(* drag is over; an edit of a row's text may arrive in between.            *)
(*                                                                         *)
(* A row is its id, its parent and whether it is a separator: the other    *)
(* fields travel with the row and are not looked at by any of this, so of  *)
(* them it is only kept whether the settings lack an edit of one.  The     *)
(* code holds on to row objects, the model to the positions they have in   *)
(* the list: two rows of a hand-edited file may have one id.               *)
(***************************************************************************)
EXTENDS EntryTree

CONSTANTS
    Ids,        \* row ids
    Lists,      \* lists a file, a settings clone or the live tree can hold
    MaxRows     \* bound on the length of the list

ASSUME IdsAssumption == NoId \notin Ids

Rows == [id : Ids \cup {NoId}, parent : Ids \cup {NoId}, separator : BOOLEAN]

ASSUME ListsAssumption == \A list \in Lists : list \in Seq(Rows)

ASSUME MaxRowsAssumption == MaxRows \in Nat

VARIABLES
    entries,        \* _Entries
    committed,      \* GlobalSettings().StartupSessions() of the settings clone
    dirty,          \* a row has an edit of a field that the settings do not have
    selected,       \* the position of _selectedEntry, or 0
    suspendCommit,  \* _suspendCommit
    drag            \* the drag under way, or NoDrag

vars == <<entries, committed, dirty, selected, suspendCommit, drag>>

(* The dragged row: where it is now, where it was, its depth; whether commits were
   suspended already, whether the row has been dropped. *)
NoDrag == [at |-> 0, start |-> 0, oldDepth |-> 0, wasSuspended |-> FALSE, dropped |-> FALSE]

Listed(list) == {list[i].id : i \in DOMAIN list}

(* A new id is nobody's, and nobody's parent. *)
Fresh == Ids \ (Listed(entries) \cup {entries[i].parent : i \in DOMAIN entries})

(* A structural operation: the list changes, is committed, and a row is selected. *)
Replace(list, selection) ==
    /\ entries' = list
    /\ committed' = list /\ dirty' = FALSE
    /\ selected' = selection
    /\ UNCHANGED <<suspendCommit, drag>>

FirstRow(list) == IF list = <<>> THEN 0 ELSE 1

(* The page's commands act on the selected row, and not while a row is dragged. *)
Idle == drag = NoDrag

HasSelection == Idle /\ selected # 0

-------------------------------------------------------------------------------
(* EntriesList_SelectionChanged: a row is picked, or the selection cleared. *)
SelectedEntry(index) ==
    /\ Idle /\ selected # index
    /\ selected' = index
    /\ UNCHANGED <<entries, committed, dirty, suspendCommit, drag>>

(* AddEntry and AddSeparator append a root row. *)
AddEntry(id, separator) ==
    /\ Idle /\ Len(entries) < MaxRows
    /\ Replace(Append(entries, Row(id, NoId, separator)), Len(entries) + 1)

(* DeleteEntry: children are promoted to the deleted row's parent. *)
DeleteEntry ==
    /\ HasSelection
    /\ LET deleted == entries[selected]
           promoted == [i \in DOMAIN entries |->
                           IF entries[i].parent = deleted.id
                           THEN [entries[i] EXCEPT !.parent = deleted.parent] ELSE entries[i]]
           rest == Keep(promoted, DOMAIN entries \ {selected})
       IN  Replace(rest, SelectionAfterDelete(rest, selected, deleted.parent))

(* DuplicateEntry copies the row under a new id, with the same parent. *)
DuplicateEntry(id) ==
    /\ HasSelection /\ Len(entries) < MaxRows
    /\ LET at == DuplicateInsertIndex(entries, selected)
           copy == [entries[selected] EXCEPT !.id = id]
       IN  Replace(SubSeq(entries, 1, at - 1) \o <<copy>> \o SubSeq(entries, at, Len(entries)), at)

(* IndentEntry: a no-op when there is no row to nest under. *)
IndentEntry ==
    /\ HasSelection
    /\ \E parent \in IndentParent(entries, selected) :
          Replace([entries EXCEPT ![selected].parent = entries[parent].id], selected)

(* OutdentEntry: a no-op for a root. *)
OutdentEntry ==
    /\ HasSelection
    /\ entries[selected].parent # NoId
    /\ Replace([entries EXCEPT ![selected].parent = OutdentParent(entries, selected)], selected)

(* MoveEntryUp and MoveEntryDown: a no-op without a sibling to step over. *)
MoveEntry(up) ==
    /\ HasSelection
    /\ \E sibling \in IF up THEN PrevSibling(entries, selected) ELSE NextSibling(entries, selected) :
          LET move == MoveAmongSiblings(entries, selected, sibling, up)
          IN  Replace(ApplyBlockMove(entries, move), move.insertAt + 1)

(* ImportFromToml and CaptureLiveStartup: a list without a row leaves the tree
   untouched, as does a file that cannot be read, parsed or is of a newer version. *)
ReplaceFrom(list) ==
    /\ Idle /\ list # <<>>
    /\ Replace(list, 1)

(* An edit of a row's text, icon, ... commits the whole list, unless suspended. *)
EditField ==
    /\ entries # <<>>
    /\ committed' = IF suspendCommit THEN committed ELSE entries
    /\ dirty' = suspendCommit
    /\ UNCHANGED <<entries, selected, suspendCommit, drag>>

-------------------------------------------------------------------------------
(* Mutant: a drag does not suspend commits. *)
MutDragKeepsCommitting(index) ==
    /\ Idle
    /\ drag' = [at |-> index, start |-> index, oldDepth |-> Depths(entries)[index],
                wasSuspended |-> suspendCommit, dropped |-> FALSE]
    /\ UNCHANGED <<entries, committed, dirty, selected, suspendCommit>>

(* Mutant: what is restored after the drag is read once commits are suspended. *)
MutSavedTooLate(index) ==
    /\ Idle
    /\ drag' = [at |-> index, start |-> index, oldDepth |-> Depths(entries)[index],
                wasSuspended |-> TRUE, dropped |-> FALSE]
    /\ suspendCommit' = TRUE
    /\ UNCHANGED <<entries, committed, dirty, selected>>

(* EntriesList_DragItemsStarting, BeginDrag. *)
BeginDrag(index) ==
    /\ Idle
    /\ drag' = [at |-> index, start |-> index, oldDepth |-> Depths(entries)[index],
                wasSuspended |-> suspendCommit, dropped |-> FALSE]
    /\ suspendCommit' = TRUE
    /\ UNCHANGED <<entries, committed, dirty, selected>>

(* Where the row at position i is once the row at "from" has moved to "to". *)
Shifted(i, from, to) ==
    CASE i = from -> to
      [] from < i /\ i =< to -> i - 1
      [] to =< i /\ i < from -> i + 1
      [] OTHER -> i

(* The list control drops the row: it, and nothing else, moves. *)
Drop(position) ==
    /\ ~Idle /\ ~drag.dropped
    /\ entries' = ApplyBlockMove(entries, [block |-> <<drag.start>>, insertAt |-> position - 1])
    /\ drag' = [drag EXCEPT !.at = position, !.dropped = TRUE]
    /\ selected' = Shifted(selected, drag.start, position)
    /\ UNCHANGED <<committed, dirty, suspendCommit>>

Fixup == NormalizeAfterDrag(entries, drag.at, drag.oldDepth)

(* The list after the fix-up of a drop. *)
Normalized == ApplyBlockMove([entries EXCEPT ![drag.at].parent = Fixup.headParent], Fixup.move)

(* Mutant: the repaired list is not committed. *)
MutDragNotCommitted ==
    /\ ~Idle
    /\ entries' = Normalized
    /\ selected' = Fixup.move.insertAt + 1
    /\ suspendCommit' = drag.wasSuspended
    /\ drag' = NoDrag
    /\ UNCHANGED <<committed, dirty>>

(* EntriesList_DragItemsCompleted, NormalizeAfterDrag: a row that did not move
   is only selected again, without a commit; a list that is not well-formed after
   the fix-up is replaced by the committed one, and edits go with it. *)
DragCompleted ==
    /\ ~Idle
    /\ suspendCommit' = drag.wasSuspended
    /\ drag' = NoDrag
    /\ IF drag.at = drag.start
       THEN UNCHANGED <<entries, committed, dirty, selected>>
       ELSE IF ~IsWellFormed(Normalized)
       THEN /\ entries' = committed
            /\ dirty' = FALSE
            /\ selected' = FirstRow(committed)
            /\ UNCHANGED committed
       ELSE /\ entries' = Normalized
            /\ committed' = Normalized /\ dirty' = FALSE
            /\ selected' = Fixup.move.insertAt + 1

-------------------------------------------------------------------------------
(* The view-model is built from the settings clone (_rebuildFromSettings). *)
Init ==
    /\ committed \in Lists
    /\ entries = committed /\ dirty = FALSE
    /\ selected = FirstRow(entries)
    /\ suspendCommit = FALSE
    /\ drag = NoDrag

Next ==
    \/ \E index \in DOMAIN entries \cup {0} : SelectedEntry(index)
    \/ \E id \in Fresh, separator \in BOOLEAN : AddEntry(id, separator)
    \/ \E id \in Fresh : DuplicateEntry(id)
    \/ DeleteEntry \/ IndentEntry \/ OutdentEntry
    \/ \E up \in BOOLEAN : MoveEntry(up)
    \/ \E list \in Lists : ReplaceFrom(list)
    \/ EditField
    \/ \E index \in DOMAIN entries : BeginDrag(index)
    \/ \E position \in DOMAIN entries : Drop(position)
    \/ DragCompleted

Spec == Init /\ [][Next]_vars

-------------------------------------------------------------------------------
(* Outside a drag the settings hold exactly the rows on the page, in their order and
   under their parents, and commits are not left suspended, whatever way the drag
   ended (NormalizeAfterDrag, releaseCommit). *)
NothingUncommitted == Idle => committed = entries /\ ~suspendCommit

(* An edit of a row reaches the settings at once, or with the drag it races
   (_hookEntry, NormalizeAfterDrag): outside a drag an edit can be missing from the
   settings only after a drag that moved no row, for which the code does not commit,
   and then only until something is committed. *)
EditsReachSettings ==
    [][dirty' /\ Idle' => dirty /\ drag.at = drag.start /\ UNCHANGED <<entries, committed>>]_vars

(* Every row has an id, and no two rows have one: so it is in every list but a
   hand-edited one. *)
DistinctIds(list) ==
    /\ \A i \in DOMAIN list : list[i].id # NoId
    /\ \A i, j \in DOMAIN list : list[i].id = list[j].id => i = j

IsTree(list) == DistinctIds(list) /\ IsWellFormed(list)

(* No operation of the editor breaks the tree: what is committed stays a tree
   unless it is replaced as a whole, also when an edit arrives between the drop
   of a row and the repair of the list. *)
OpsKeepWellFormed ==
    [][IsTree(committed) => IsTree(committed') \/ \E list \in Lists : ReplaceFrom(list)]_vars

IndexOf(list, id) == CHOOSE i \in DOMAIN list : list[i].id = id

Without(list, ids) == Keep(list, {i \in DOMAIN list : list[i].id \notin ids})

(* The least set that holds a row and the children of its members. *)
Family(list, id) ==
    {x \in Listed(list) : \A S \in SUBSET Listed(list) :
        id \in S /\ (\A i \in DOMAIN list : list[i].parent \in S => list[i].id \in S) => x \in S}

(* From one list to another a family was moved, as one run, with its order and
   its parents kept, and so were the rows around it; only the parents of the
   rows in "reparented" may differ. *)
FamilyMoved(before, after, id, reparented) ==
    LET family == Family(before, id)
        others == Listed(before) \ family
        head == IndexOf(after, id)
    IN  /\ Without(after, family) = Without(before, family)
        /\ Without(after, others \cup reparented) = Without(before, others \cup reparented)
        /\ {after[i].id : i \in head..(head + Cardinality(family) - 1)} = family

(* Moving a row up or down takes it past its sibling with its whole family, and
   no other row changes its place or its parent, contiguous families or not. *)
MoveTakesFamily ==
    [][\A up \in BOOLEAN : IsTree(entries) /\ MoveEntry(up) =>
          /\ FamilyMoved(entries, entries', entries[selected].id, {})
          /\ entries'[selected'] = entries[selected]
          /\ \A i \in IF up THEN PrevSibling(entries, selected) ELSE NextSibling(entries, selected) :
                selected' < IndexOf(entries', entries[i].id) <=> up]_vars

(* A drag moves the dragged row's family and nothing else, wherever the list
   control dropped the row, among its own children too; only the head may get
   another parent.  In a well-formed list the fix-up never fails: the branch
   that restores the committed tree is not taken and the head is selected. *)
DragTakesFamily ==
    [][~Idle /\ Idle' /\ IsTree(committed) =>
          IF drag.at = drag.start THEN UNCHANGED committed
          ELSE LET head == committed[drag.start].id
               IN  FamilyMoved(committed, committed', head, {head}) /\ entries'[selected'].id = head]_vars

(* The list shows every row under its own parent: the parent is the nearest row
   above that is less deep (so no row is shown under a separator). *)
ShownUnderParent(list) ==
    LET depth == Depths(list)
    IN  \A i \in DOMAIN list :
           LET above == {j \in 1..(i - 1) : depth[j] < depth[i]}
           IN  list[i].parent = IF above = {} THEN NoId ELSE list[Last(above)].id

(* No row seems to adopt the rows below it: a list that shows every row under
   its own parent still does after an add, a delete (children promoted), a
   duplicate (inserted below the whole subtree), a move or a drag; only indent
   (which skips separators) and outdent leave rows where they were. *)
ShownWhereLinked ==
    [][DistinctIds(committed) /\ ShownUnderParent(committed) =>
          \/ ShownUnderParent(committed')
          \/ IndentEntry \/ OutdentEntry \/ \E list \in Lists : ReplaceFrom(list)]_vars

(* What is committed can be launched in list order, whatever was imported:
   every session's parent is started before it, and a separator follows an
   earlier session of its own scope. *)
LaunchedInOrder ==
    LET tree == LoadStartupTree(committed)
    IN  /\ \A k \in DOMAIN tree.sessions : tree.sessions[k].parent < k - 1
        /\ \A k \in DOMAIN tree.separators :
              LET separator == tree.separators[k]
              IN  separator.after # -1 => tree.sessions[separator.after + 1].parent = separator.parent
===============================================================================
