---------------------------- MODULE TerminalSidebar ----------------------------
(***************************************************************************)
(* The sidebar of the Linux window (terminal-sidebar.cc): a flat list of   *)
(* rows, one per screen, over which each row keeps a pointer to its parent *)
(* row.  The list is meant to be a pre-order traversal of the tree, and    *)
(* every operation that moves or removes a family relies on it: it takes   *)
(* the rows that follow and are deeper.                                    *)
(*                                                                         *)
(* Everything runs on the main thread of the server.  The startup tabs are *)
(* created by a client in a process of its own, one D-Bus call at a time,  *)
(* so the user's commands and screens that close come in between.          *)
(*                                                                         *)
(* A row is its screen.  The selected row is not kept: a command that uses *)
(* it takes any row, or none, as the user may have clicked anywhere.       *)
(***************************************************************************)
EXTENDS Integers, Sequences, FiniteSets, FiniteSetsExt, SequencesExt

CONSTANTS
    Screens,        \* the screens the server can create
    NoRow,          \* a null row pointer, or a path the client does not have
    StartupLists,   \* default-launch-entries: the parent_tab_index of each tab, 0 for none
    NestedMoves     \* whether a tab is moved, or inserted next, while rows are nested

ASSUME NoRowAssumption == NoRow \notin Screens

ASSUME ScreensAssumption == IsFiniteSet(Screens)

ASSUME NestedMovesAssumption == NestedMoves \in BOOLEAN

VARIABLES
    rows,       \* the rows of list_box, in order
    parent,     \* "axan-parent" of each row
    indent,     \* the depth each row was last indented for
    view,       \* priv->state
    cells,      \* the cells on screen, in order: those of collapsed_list, by screen
    startup,    \* the tabs of the client's window
    paths       \* tab_object_paths of the client

vars == <<rows, parent, indent, view, cells, startup, paths>>

Views == {"expanded", "collapsed", "minimized"}

Listed == Range(rows)

-------------------------------------------------------------------------------
(* row_get_parent, n times. *)
Chain(par, r) ==
    LET up[n \in 0..Cardinality(Screens)] ==
            IF n = 0 THEN r
            ELSE IF up[n - 1] = NoRow THEN NoRow ELSE par[up[n - 1]]
    IN  up

RowDepth(par, r) ==
    LET up == Chain(par, r) IN Cardinality({n \in DOMAIN up \ {0} : up[n] # NoRow})

IsDescendantOf(par, r, ancestor) ==
    LET up == Chain(par, r) IN \E n \in DOMAIN up \ {0} : up[n] = ancestor

RowIndex(list, r) == CHOOSE i \in DOMAIN list : list[i] = r

(* The index after the rows that follow row i and are deeper than it. *)
SubtreeEnd(list, par, i) ==
    Min({j \in (i + 1)..(Len(list) + 1) :
            j > Len(list) \/ RowDepth(par, list[j]) <= RowDepth(par, list[i])})

Subtree(list, par, r) ==
    LET i == RowIndex(list, r) IN SubSeq(list, i, SubtreeEnd(list, par, i) - 1)

(* gtk_list_box_insert: an index that is not in the list appends. *)
Inserted(list, block, at) ==
    LET i == IF at \in 1..Len(list) THEN at ELSE Len(list) + 1
    IN  SubSeq(list, 1, i - 1) \o block \o SubSeq(list, i, Len(list))

MutNoShift(list, par, r, at) ==
    LET block == Subtree(list, par, r)
        start == RowIndex(list, r)
        rest == SubSeq(list, 1, start - 1) \o SubSeq(list, start + Len(block), Len(list))
    IN  Inserted(rest, block, at)

MutMovesRowOnly(list, par, r, at) ==
    Inserted(RemoveAt(list, RowIndex(list, r)), <<r>>, IF RowIndex(list, r) < at THEN at - 1 ELSE at)

(* The row with its subtree is taken out and put back at an index of the list
   as it was, 0 for the end. *)
Moved(list, par, r, at) ==
    LET block == Subtree(list, par, r)
        start == RowIndex(list, r)
        rest == SubSeq(list, 1, start - 1) \o SubSeq(list, start + Len(block), Len(list))
        target == IF start < at THEN at - Len(block) ELSE at
    IN  Inserted(rest, block, target)

(* Rows that are drawn again take the depth they now have. *)
Indented(list, par, drawn) ==
    [r \in Screens |-> IF r \in drawn THEN RowDepth(par, r)
                       ELSE IF r \in Range(list) THEN indent[r] ELSE 0]

SubtreeApplyIndent(list, par, r) == Indented(list, par, Range(Subtree(list, par, r)))

(* sidebar_rebuild_collapsed_list: no cell is on screen in the other views,
   and the way into this one rebuilds them. *)
RebuiltCells(list, state) == IF state = "collapsed" THEN list ELSE <<>>

Nested(par) == \E r \in Listed : par[r] # NoRow

(* The client's paths may still name a screen that was closed. *)
Fresh == Screens \ (Listed \cup Range(paths))

(* Where terminal_window_add_screen puts a row: at the end, or after the
   selected one (first, when no row is selected). *)
NewTabPositions ==
    {0} \cup IF NestedMoves \/ ~Nested(parent) THEN 1..(Len(rows) + 1) ELSE {}

-------------------------------------------------------------------------------
(* terminal_sidebar_add_screen. *)
AddScreen(s, position) ==
    /\ rows' = Inserted(rows, <<s>>, position)
    /\ parent' = [parent EXCEPT ![s] = NoRow]
    /\ indent' = [indent EXCEPT ![s] = 0]
    /\ cells' = RebuiltCells(rows', view)
    /\ UNCHANGED <<view, startup, paths>>

(* A tab of this window; the first one opens it, unless the client does. *)
NewTab ==
    /\ rows # <<>> \/ startup = <<>>
    /\ \E s \in Fresh, position \in NewTabPositions : AddScreen(s, position)

MutOrphansToRoot(s) == [r \in Screens |-> IF r = s \/ parent[r] = s THEN NoRow ELSE parent[r]]

(* The children that follow the closed row, while they are deeper, go to its parent. *)
HoistedParents(s) ==
    LET below == Range(Subtree(rows, parent, s))
    IN  [r \in Screens |-> IF r \in below /\ parent[r] = s THEN parent[s]
                           ELSE IF r = s THEN NoRow ELSE parent[r]]

MutKeepsIndent(s) ==
    /\ s \in Listed
    /\ parent' = HoistedParents(s)
    /\ rows' = RemoveAt(rows, RowIndex(rows, s))
    /\ indent' = Indented(rows', parent', {})
    /\ cells' = RebuiltCells(rows', view)
    /\ UNCHANGED <<view, startup, paths>>

(* terminal_sidebar_remove_screen: a shell exited, or its tab was closed. *)
RemoveScreen(s) ==
    /\ s \in Listed
    /\ parent' = HoistedParents(s)
    /\ rows' = RemoveAt(rows, RowIndex(rows, s))
    /\ indent' = Indented(rows', parent', Range(Subtree(rows, parent, s)) \ {s})
    /\ cells' = RebuiltCells(rows', view)
    /\ UNCHANGED <<view, startup, paths>>

Zones == {"before", "child", "after"}

(* on_listbox_drag_data_received.  The list is not on screen in the other views. *)
DropOnRow(source, target, zone) ==
    LET i == RowIndex(rows, target)
    IN  /\ view = "expanded"
        /\ {source, target} \subseteq Listed
        /\ ~IsDescendantOf(parent, target, source)
        /\ ~(source = target /\ zone = "child")
        /\ parent' = [parent EXCEPT ![source] = IF zone = "child" THEN target ELSE parent[target]]
        /\ rows' = Moved(rows, parent, source,
                         IF zone = "before" THEN i ELSE SubtreeEnd(rows, parent, i))
        /\ indent' = SubtreeApplyIndent(rows', parent', source)
        /\ cells' = RebuiltCells(rows', view)
        /\ UNCHANGED <<view, startup, paths>>

DropBelowAll(source) ==
    /\ view = "expanded"
    /\ source \in Listed
    /\ parent' = [parent EXCEPT ![source] = NoRow]
    /\ rows' = Moved(rows, parent, source, 0)
    /\ indent' = SubtreeApplyIndent(rows', parent', source)
    /\ cells' = RebuiltCells(rows', view)
    /\ UNCHANGED <<view, startup, paths>>

(* terminal_sidebar_reorder_screen: the active tab one slot up or down, around the ends. *)
ReorderScreen(s, direction) ==
    LET n == Len(rows)
        newPos == ((RowIndex(rows, s) - 1 + direction + n) % n) + 1
    IN  /\ s \in Listed
        /\ NestedMoves \/ ~Nested(parent)
        /\ rows' = Inserted(RemoveAt(rows, RowIndex(rows, s)), <<s>>, newPos)
        /\ cells' = RebuiltCells(rows', view)
        /\ UNCHANGED <<parent, indent, view, startup, paths>>

(* sidebar_apply_state, from the toolbar, the action or the settings. *)
ApplyState(state) ==
    /\ view # state
    /\ view' = state
    /\ cells' = RebuiltCells(rows, state)
    /\ UNCHANGED <<rows, parent, indent, startup, paths>>

(* A row is selected, or a setting or an icon of the cells changes. *)
RedrawCells ==
    /\ cells' = RebuiltCells(rows, view)
    /\ UNCHANGED <<rows, parent, indent, view, startup, paths>>

-------------------------------------------------------------------------------
(* The path of the last tab that was created, whose window the next one goes to. *)
PreviousScreen ==
    LET created == SelectSeq(paths, LAMBDA p : p # NoRow)
    IN  IF created = <<>> THEN NoRow ELSE Last(created)

(* The client passes the path of the parent tab, if it has one by now. *)
SidebarParent(i) == IF startup[i] \in DOMAIN paths THEN paths[startup[i]] ELSE NoRow

(* A row just added is a root until terminal_sidebar_set_screen_parent moves
   it, which is refused when the parent is not a row of this sidebar. *)
SetScreenParent(list, par, s, p) ==
    LET rooted == [par EXCEPT ![s] = NoRow]
    IN  IF p \notin Range(list) THEN [rows |-> list, parent |-> rooted]
        ELSE [rows |-> Moved(list, rooted, s, SubtreeEnd(list, rooted, RowIndex(list, p))),
              parent |-> [par EXCEPT ![s] = p]]

(* The lists of which the cells may be left when a row is added ("added") and linked.
   They are redrawn when it is added.  A row that was selected at that, because no
   screen was active, is no longer once it is taken out to be moved, and they are
   redrawn without it; the move itself redraws nothing.  They are redrawn once more
   when it is then made the active tab. *)
CellLists(s, added, linked) ==
    IF linked.parent[s] = NoRow THEN {added} ELSE {added, rows, linked.rows}

(* The client's loop and create_instance: the tab goes to the window of the
   previous one, or opens it, and is then moved under its parent. *)
CreateInstance(s) ==
    LET i == Len(paths) + 1
    IN  /\ i <= Len(startup)
        /\ IF PreviousScreen = NoRow THEN rows = <<>> ELSE PreviousScreen \in Listed
        /\ \E position \in NewTabPositions :
              LET added == Inserted(rows, <<s>>, position)
                  linked == SetScreenParent(added, parent, s, SidebarParent(i))
              IN  /\ rows' = linked.rows
                  /\ parent' = linked.parent
                  /\ indent' = [indent EXCEPT ![s] = RowDepth(linked.parent, s)]
                  /\ \E list \in CellLists(s, added, linked) : cells' = RebuiltCells(list, view)
        /\ paths' = Append(paths, s)
        /\ UNCHANGED <<view, startup>>

(* The server refuses: no such profile, or the previous screen is gone. *)
CreateInstanceFails ==
    /\ Len(paths) < Len(startup)
    /\ paths' = Append(paths, NoRow)
    /\ UNCHANGED <<rows, parent, indent, view, cells, startup>>

(* terminal_sidebar_capture_entries; an entry's new id stands for its row. *)
CaptureEntries ==
    [i \in DOMAIN rows |->
        [id |-> rows[i],
         parent |-> IF parent[rows[i]] \in Listed THEN parent[rows[i]] ELSE NoRow]]

(* terminal_options_expand_profile_launch_entries: a parent that is not an
   earlier entry is no parent. *)
ExpandEntries(entries) ==
    [i \in DOMAIN entries |->
        LET named == {j \in DOMAIN entries : entries[j].id = entries[i].parent}
        IN  IF named # {} /\ Max(named) < i THEN Max(named) ELSE 0]

-------------------------------------------------------------------------------
Init ==
    /\ rows = <<>>
    /\ parent = [s \in Screens |-> NoRow]
    /\ indent = [s \in Screens |-> 0]
    /\ view \in Views
    /\ cells = <<>>
    /\ startup \in StartupLists
    /\ paths = <<>>

Next ==
    \/ NewTab
    \/ \E s \in Screens : RemoveScreen(s)
    \/ \E source, target \in Screens, zone \in Zones : DropOnRow(source, target, zone)
    \/ \E source \in Screens : DropBelowAll(source)
    \/ \E s \in Screens, direction \in {1, -1} : ReorderScreen(s, direction)
    \/ \E state \in Views : ApplyState(state)
    \/ RedrawCells
    \/ \E s \in Fresh : CreateInstance(s)
    \/ CreateInstanceFails

Spec == Init /\ [][Next]_vars

-------------------------------------------------------------------------------
Family(r) == {x \in Listed : x = r \/ IsDescendantOf(parent, x, r)}

(* The rows are a pre-order traversal of the tree, as the comment over the
   hierarchy helpers says and every move, close and capture relies on: a
   family is a run of consecutive rows that starts with its head.  So it
   must remain through drops, closes and startup tabs in any order. *)
SidebarPreOrder ==
    \A r \in Listed :
        LET i == RowIndex(rows, r)
        IN  Family(r) = Range(SubSeq(rows, i, i + Cardinality(Family(r)) - 1))

(* When a parent shell exits its children are hoisted to the next nearest
   group: no listed row keeps a pointer to a row that is gone, which
   row_depth would follow. *)
ParentsListed == \A r \in Listed : parent[r] \in Listed \cup {NoRow}

(* What the client and the server make of the first captured entries, when
   every tab is created and appended. *)
Relaunched ==
    LET entries == CaptureEntries
        tabs == ExpandEntries(entries)
        Launch(tree, i) ==
            SetScreenParent(Append(tree.rows, entries[i].id), tree.parent, entries[i].id,
                            IF tabs[i] = 0 THEN NoRow ELSE entries[tabs[i]].id)
        launched[i \in 0..Len(rows)] ==
            IF i = 0 THEN [rows |-> <<>>, parent |-> [s \in Screens |-> NoRow]]
            ELSE Launch(launched[i - 1], i)
    IN  launched[Len(rows)]

(* Capturing the live tree as startup entries and launching them gives the
   same rows under the same parents. *)
CaptureRelaunches == Relaunched.rows = rows /\ \A r \in Listed : Relaunched.parent[r] = parent[r]

Before(list, x, y) == \E i, j \in DOMAIN list : i < j /\ list[i] = x /\ list[j] = y

SameOrder(some, list, other) ==
    \A x, y \in some : Before(list, x, y) <=> Before(other, x, y)

(* The last tab the client created, if it was moved under a parent. *)
NestedLast ==
    {r \in Listed :
        /\ parent[r] # NoRow
        /\ \E i \in DOMAIN paths : paths[i] = r /\ \A j \in (i + 1)..Len(paths) : paths[j] = NoRow}

(* What is drawn is what is linked: each row is indented for the depth its
   parents give it, and in the collapsed view the cells are those of the rows, one
   each and in their order, none of a screen that is closed; only the cell of the
   startup tab that was moved last can be out of place or missing. *)
DrawnAsLinked ==
    /\ \A r \in Listed : indent[r] = RowDepth(parent, r)
    /\ view = "collapsed" =>
          /\ Range(cells) \subseteq Listed /\ Listed \ Range(cells) \subseteq NestedLast
          /\ IsInjective(cells)
          /\ SameOrder(Listed \ NestedLast, cells, rows)

(* A step that opens or closes no screen moves at most one family, in its own
   order, past the others, and gives a new parent to its head alone.  A
   close hands on the children and moves nothing. *)
FamiliesTravel ==
    [][LET gone == Listed \ Range(rows')
           new == Range(rows') \ Listed
       IN  IF gone # {}
           THEN /\ new = {}
                /\ SameOrder(Listed \ gone, rows, rows')
                /\ \A r \in Listed \ gone :
                      parent'[r] = IF parent[r] \in gone THEN parent[parent[r]] ELSE parent[r]
           ELSE \/ SameOrder(Listed, rows, rows') /\ \A r \in Listed : parent'[r] = parent[r]
                \/ /\ new = {}
                   /\ \E r \in Listed :
                         /\ SameOrder(Listed \ Family(r), rows, rows')
                         /\ SameOrder(Family(r), rows, rows')
                         /\ \A x \in Listed \ {r} : parent'[x] = parent[x]]_vars
===============================================================================
