------------------------------ MODULE SessionTree -----------------------------
(***************************************************************************)
(* The live session tree of the sidebar (AxanSessionTreeView.cpp): one row *)
(* per open tab, nested as the user likes, and separator rows; a labelled  *)
(* separator heads a collapsible section.  At launch the startup tree      *)
(* (EntryTree!LoadStartupTree) is spawned one tab at a time with the UI    *)
(* thread free in between, so that other handlers run among its tabs.      *)
(* A row is known by its tab or by its separator's id.  A handler runs to  *)
(* its end on the UI thread and is one action; a drag takes two (the list  *)
(* control moves the row, the page's epilogue follows).                    *)
(*                                                                         *)
(* The order of the tab strip is not kept.  It matters only while a tab    *)
(* is removed, where a stale index is read through it (CloseTab).          *)
(***************************************************************************)
EXTENDS EntryTree

CONSTANTS
    TabOrder,       \* the names tabs are given, the first that is free first
    Separators,     \* separator ids
    Bottoms,        \* the separators whose placement is "bottom"
    Headers,        \* the separators that may have a label, and have one at launch
    Folded,         \* the headers that are collapsed at launch
    Scenarios,      \* what is explored: a startup list, bounds on the sessions open at
                    \* once and on the rows moved by a drag or by AddChildSessionFails,
                    \* and whether the settings tab is opened
    AncestorMoved   \* whether an "Add child session" that opens nothing may be
                    \* asked for below the focused session: the code does not prevent
                    \* it, and TreeMirrorsTabs is then violated

ASSUME SeparatorsAssumption ==
    /\ IsFiniteSet(Separators)
    /\ Bottoms \subseteq Separators /\ Headers \subseteq Separators

ASSUME FoldedAssumption == Folded \subseteq Headers

Seqs == INSTANCE SequencesExt

Root == "root"

SettingsTab == "settings"   \* the one tab without a profile

None == "none"

Tabs == Seqs!ToSet(TabOrder) \cup {SettingsTab}

Nodes == Tabs \cup Separators

ASSUME NamesAssumption ==
    /\ TabOrder \in Seq(STRING) /\ SettingsTab \notin Seqs!ToSet(TabOrder)
    /\ Tabs \cap Separators = {} /\ {Root, None} \cap Nodes = {}

(* A separator of a startup list is known by its id; a tab name is there for every
   session of the list. *)
ASSUME ScenariosAssumption ==
    \A c \in Scenarios :
        /\ c.list \in Seq([id : STRING, parent : STRING, separator : BOOLEAN])
        /\ \A i \in DOMAIN c.list \ Sessions(c.list) :
              /\ c.list[i].id \in Separators
              /\ \A j \in DOMAIN c.list \ Sessions(c.list) : c.list[i].id = c.list[j].id => i = j
        /\ c.maxTabs \in 1..Cardinality(Seqs!ToSet(TabOrder))
        /\ Cardinality(Sessions(c.list)) =< c.maxTabs
        /\ c.maxMoves \in Nat /\ c.settings \in BOOLEAN

VARIABLES
    bounds,     \* the bounds of the scenario; they never change
    start,      \* what LoadStartupTree made of the settings: sessions and separators
    loop,       \* startup actions dispatched so far
    kids,       \* the children of every row, and of the root
    cursor,     \* _startupNodeCursor
    slots,      \* _startupNodesBySpawnIndex: the row of each startup session, or None
    realized,   \* _startupSeparatorsRealized
    tabs,       \* the open tabs
    focused,    \* the selected tab
    entry,      \* EntryId of each session row
    labelled,   \* the separators that have a label
    collapsed,  \* the headers that are collapsed
    hidden,     \* the rows with IsSectionHidden
    dropped,    \* the row of a drag that has landed and whose epilogue is due
    moves,      \* rows moved so far
    running     \* the window is open

treeVars == <<kids, cursor, slots, realized>>
sectionVars == <<labelled, collapsed>>
dragVars == <<dropped, moves>>
launch == <<bounds, start>>
vars == <<launch, loop, treeVars, tabs, focused, entry, sectionVars, hidden, dragVars, running>>

-------------------------------------------------------------------------------
(* Trees: "tree" maps every row, and the root, to the sequence of its children. *)

(* _forEachSessionNode: the rows below p, depth first. *)
Rows(tree, p) ==
    LET rows[q \in DOMAIN tree] ==
          Seqs!FlattenSeq([i \in DOMAIN tree[q] |-> <<tree[q][i]>> \o rows[tree[q][i]]])
    IN  rows[p]

(* The same as a set, p included. *)
Below(tree, p) ==
    LET below[q \in DOMAIN tree] == {q} \cup UNION {below[tree[q][i]] : i \in DOMAIN tree[q]}
    IN  below[p]

InTree(tree) == Below(tree, Root) \ {Root}

(* _locateNodeContainer: the scope a row sits in, and its place there. *)
Scope(tree, n) == CHOOSE p \in DOMAIN tree : \E i \in DOMAIN tree[p] : tree[p][i] = n

Place(tree, n) ==
    LET siblings == tree[Scope(tree, n)] IN First({i \in DOMAIN siblings : siblings[i] = n})

(* A row of the tree and its ancestors. *)
Chain(tree, n) == {m \in InTree(tree) : n \in Below(tree, m)}

(* The nearest row above n that is in "rows", or the root. *)
Nearest(tree, n, rows) ==
    LET above == (Chain(tree, n) \ {n}) \cap rows
    IN  IF above = {} THEN Root ELSE CHOOSE m \in above : \A k \in above : m \in Below(tree, k)

Detach(tree, n) == [tree EXCEPT ![Scope(tree, n)] = Seqs!RemoveAt(@, Place(tree, n))]

Attach(tree, p, n) == [tree EXCEPT ![p] = Append(@, n)]

(* Mutant: the children of a removed row go to the end of its scope. *)
MutPromotesToEnd(tree, n) ==
    [Detach(tree, n) EXCEPT ![Scope(tree, n)] = @ \o tree[n], ![n] = <<>>]

(* Mutant: the children go with the row. *)
MutDropsChildren(tree, n) == [Detach(tree, n) EXCEPT ![n] = <<>>]

(* The children of a removed row take its place. *)
RemoveNodeSelfHealing(tree, n) ==
    LET i == Place(tree, n)
    IN  [tree EXCEPT
            ![Scope(tree, n)] = SubSeq(@, 1, i - 1) \o tree[n] \o SubSeq(@, i + 1, Len(@)),
            ![n] = <<>>]

(* No row follows a "bottom" separator but others of the kind. *)
BottomsLast(siblings) ==
    \A i, j \in DOMAIN siblings : i < j /\ siblings[i] \in Bottoms => siblings[j] \in Bottoms

(* "Bottom" separators go to the end of their scope, in order. *)
SinkBottomSeparators(tree) ==
    [p \in DOMAIN tree |->
        IF BottomsLast(tree[p]) THEN tree[p]
        ELSE LET bottoms == {i \in DOMAIN tree[p] : tree[p][i] \in Bottoms}
             IN  Keep(tree[p], DOMAIN tree[p] \ bottoms) \o Keep(tree[p], bottoms)]

-------------------------------------------------------------------------------
(* The startup bookkeeping.  A page is the tree with the spawn cursor, the rows
   of the startup sessions and whether the separators have been inserted. *)

Page == [kids |-> kids, cursor |-> cursor, slots |-> slots, realized |-> realized]

PageBecomes(page) ==
    /\ kids' = page.kids /\ cursor' = page.cursor
    /\ slots' = page.slots /\ realized' = page.realized

(* The row of a startup session, by spawn index (-1: no session). *)
Slot(page, index) == IF index < 0 THEN None ELSE page.slots[index + 1]

Spawning(page, tree) == page.cursor < Len(tree.sessions)

(* The row of a new tab.  While startup slots are left it takes the next one and
   goes below that slot's parent, else it goes to the end of the root. *)
AddMissingSessionNodes(page, tree, tab) ==
    IF Spawning(page, tree)
    THEN LET next == page.cursor + 1
             parent == Slot(page, tree.sessions[next].parent)
         IN  [page EXCEPT
                !.kids = Attach(@, IF parent = None THEN Root ELSE parent, tab),
                !.cursor = next,
                !.slots[next] = tab]
    ELSE [page EXCEPT !.kids = Attach(@, Root, tab)]

(* One startup separator: after the session it followed in its scope, behind the
   separators already there; at the end of the scope when that row is missing. *)
PlaceSeparator(page, sep) ==
    LET parent == Slot(page, sep.parent)
        scope == IF parent = None THEN Root ELSE parent
        after == {i \in DOMAIN page.kids[scope] : page.kids[scope][i] = Slot(page, sep.after)}
        resolved == sep.after < 0 \/ after # {}
        key == <<IF parent = None THEN -1 ELSE sep.parent, sep.after>>
        before == Cardinality({k \in DOMAIN page.inserted : page.inserted[k] = key})
        place == before + (IF sep.after < 0 THEN 0 ELSE First(after))
        size == Len(page.kids[scope])
        at == IF resolved /\ place < size THEN place ELSE size
    IN  [page EXCEPT
            !.kids[scope] = Seqs!InsertAt(@, at + 1, sep.id),
            !.inserted = IF resolved THEN Append(@, key) ELSE @]

(* All of them, once every startup session has its row.  The rows kept in the
   slots are not looked at again. *)
RealizeStartupSeparators(page, tree) ==
    IF page.realized \/ Spawning(page, tree) THEN page
    ELSE LET placed[k \in 0..Len(tree.separators)] ==
               IF k = 0 THEN [kids |-> page.kids, slots |-> page.slots, inserted |-> <<>>]
               ELSE PlaceSeparator(placed[k - 1], tree.separators[k])
         IN  [page EXCEPT !.realized = TRUE,
                          !.kids = SinkBottomSeparators(placed[Len(tree.separators)].kids),
                          !.slots = [i \in DOMAIN @ |-> None]]

(* Mutant: unspawned slots are kept. *)
MutKeepsSlots(page, tree) == RealizeStartupSeparators(page, tree)

(* The startup actions are over: slots that produced no tab are released. *)
MarkStartupSpawnComplete(page, tree) ==
    RealizeStartupSeparators([page EXCEPT !.cursor = Len(tree.sessions)], tree)

(* _OnSessionsCollectionChanged for a tab that was inserted. *)
Reconciled(page, tree, tab) ==
    LET grown == RealizeStartupSeparators(AddMissingSessionNodes(page, tree, tab), tree)
    IN  [grown EXCEPT !.kids = SinkBottomSeparators(@)]

-------------------------------------------------------------------------------
(* Sections: the siblings after a labelled separator up to the next separator. *)

(* The header of a row's section, as a set of at most one separator. *)
SectionHeaderFor(tree, n) ==
    LET siblings == tree[Scope(tree, n)]
        above == {i \in 1..(Place(tree, n) - 1) : siblings[i] \in Separators}
    IN  {siblings[i] : i \in {j \in above : j = Last(above)}}

(* The session rows in the section of a header. *)
Section(tree, h) ==
    LET siblings == tree[Scope(tree, h)]
        next == Place(tree, h) + 1
    IN  {siblings[i] : i \in {j \in next..Len(siblings) : \A k \in next..j : siblings[k] \notin Separators}}

(* The same with the sessions nested in them. *)
SectionRows(tree, h) == UNION {Below(tree, n) : n \in Section(tree, h)} \ Separators

(* The rows hidden while "tab" is the focused one: those of the collapsed sections
   with all that is below them, but for the tab and its ancestors. *)
HiddenRows(tree, folded, tab) ==
    LET rows == UNION {Section(tree, h) : h \in folded \cap InTree(tree)}
    IN  UNION {Below(tree, n) : n \in rows \ Chain(tree, tab)}

(* _RecomputeSections, which finds "tab" to be the focused one. *)
RecomputeSections(tab) == hidden' = HiddenRows(kids', collapsed', tab)

(* The same at a time when the focused tab is read rightly. *)
Derives == RecomputeSections(focused')

-------------------------------------------------------------------------------
(* Tabs that open. *)

NextTab == TabOrder[CHOOSE i \in DOMAIN TabOrder :
                       /\ TabOrder[i] \notin tabs
                       /\ \A j \in 1..(i - 1) : TabOrder[j] \in tabs]

(* Without a startup list one default session is opened. *)
ActionCount == IF start.sessions = <<>> THEN 1 ELSE Len(start.sessions)

Starting == loop < ActionCount

(* A tab name is left for every startup action still to come. *)
Room == Cardinality(tabs \ {SettingsTab}) + (ActionCount - loop) < bounds.maxTabs

(* The user's commands come once the first tab is there, and not while a drag is
   being completed. *)
Idle == running /\ loop > 0 /\ dropped = None

(* The entry id of a tab that takes a startup slot is that slot's. *)
NewEntry == IF Spawning(Page, start) THEN start.sessions[cursor + 1].id ELSE NoId

(* _InitializeTab: the row is added, then the tab is selected. *)
TabOpens(tab, became) ==
    /\ \E page \in {became} : PageBecomes(page)
    /\ tabs' = tabs \cup {tab}
    /\ focused' = tab
    /\ entry' = [entry EXCEPT ![tab] = NewEntry]
    /\ UNCHANGED <<launch, sectionVars, dragVars, running>>
    /\ Derives

(* No tab opens: only the separators may appear, and the sections with them. *)
NoTabOpens(became) ==
    /\ \E page \in {became} : PageBecomes(page)
    /\ UNCHANGED <<launch, tabs, focused, entry, sectionVars, dragVars, running>>
    /\ IF kids' # kids THEN Derives ELSE UNCHANGED hidden

Init ==
    /\ \E c \in Scenarios :
          /\ bounds = [maxTabs |-> c.maxTabs, maxMoves |-> c.maxMoves, settings |-> c.settings]
          /\ start = LoadStartupTree(c.list)
    /\ loop = 0
    /\ kids = [p \in Nodes \cup {Root} |-> <<>>]
    /\ cursor = 0
    /\ slots = [i \in DOMAIN start.sessions |-> None]
    /\ realized = (start.sessions = <<>>)
    /\ tabs = {} /\ focused = None
    /\ entry = [t \in Tabs |-> NoId]
    /\ labelled = {start.separators[i].id : i \in DOMAIN start.separators} \cap Headers
    /\ collapsed = labelled \cap Folded
    /\ hidden = {}
    /\ dropped = None /\ moves = 0
    /\ running = TRUE

(* The window is gone, and its page with it. *)
WindowEnds ==
    /\ kids' = [p \in DOMAIN kids |-> <<>>]
    /\ cursor' = 0 /\ slots' = [i \in DOMAIN slots |-> None] /\ realized' = FALSE
    /\ tabs' = {} /\ focused' = None
    /\ entry' = [t \in Tabs |-> NoId]
    /\ labelled' = {} /\ collapsed' = {} /\ hidden' = {}
    /\ dropped' = None /\ moves' = 0
    /\ running' = FALSE
    /\ UNCHANGED launch

(* What the last startup action is followed by in the same step. *)
Completed(page) ==
    IF loop + 1 = ActionCount THEN MarkStartupSpawnComplete(page, start) ELSE page

(* ProcessStartupActions dispatches an action that opens its session. *)
StartupTab ==
    /\ running /\ Starting
    /\ loop' = loop + 1
    /\ TabOpens(NextTab, Completed(Reconciled(Page, start, NextTab)))

(* The action opens no tab here (an elevated or a missing profile, a connection
   that throws).  If it is the first the window closes. *)
StartupNoTab ==
    /\ running /\ Starting
    /\ loop' = loop + 1
    /\ IF loop = 0 THEN WindowEnds ELSE NoTabOpens(Completed(Page))

(* A new tab, or a duplicate; a tab opened during startup takes a startup slot. *)
OpenTab ==
    /\ Idle /\ Room
    /\ TabOpens(NextTab, Reconciled(Page, start, NextTab))
    /\ UNCHANGED loop

OpenSettings ==
    /\ Idle /\ bounds.settings /\ SettingsTab \notin tabs
    /\ TabOpens(SettingsTab, Reconciled(Page, start, SettingsTab))
    /\ UNCHANGED loop

(* _HandleExecuteCommandline goes through ProcessStartupActions as well. *)
ExecuteCommandline ==
    /\ Idle /\ UNCHANGED loop
    /\ \/ /\ Room
          /\ TabOpens(NextTab, MarkStartupSpawnComplete(Reconciled(Page, start, NextTab), start))
       \/ NoTabOpens(MarkStartupSpawnComplete(Page, start))

(* Mutant: the new child is not followed by the sink pass. *)
MutChildNotSunk(t) ==
    /\ Idle /\ Room /\ t \in tabs \ {SettingsTab}
    /\ LET opened == Reconciled(Page, start, NextTab)
       IN  TabOpens(NextTab, [opened EXCEPT !.kids = Attach(Detach(@, NextTab), t, NextTab)])
    /\ UNCHANGED loop

(* _AddChildSession: the duplicate is opened and selected, then its row is moved
   below t. *)
AddChildSession(t) ==
    /\ Idle /\ Room /\ t \in tabs \ {SettingsTab}
    /\ LET opened == Reconciled(Page, start, NextTab)
           moved == Attach(Detach(opened.kids, NextTab), t, NextTab)
       IN  TabOpens(NextTab, [opened EXCEPT !.kids = SinkBottomSeparators(moved)])
    /\ UNCHANGED loop

(* _AddChildSession when _DuplicateTab opens nothing: the row it moves below t is
   the one of the tab that was focused already.  When that is an ancestor of t the
   rows from it down leave the tree. *)
AddChildSessionFails(t) ==
    /\ Idle /\ t \in tabs \ {SettingsTab, focused}
    /\ moves < bounds.maxMoves /\ moves' = moves + 1
    /\ AncestorMoved \/ focused \notin Chain(kids, t)
    /\ kids' = SinkBottomSeparators(Attach(Detach(kids, focused), t, focused))
    /\ UNCHANGED <<launch, loop, cursor, slots, realized, tabs, focused, entry, sectionVars,
                   dropped, running>>
    /\ Derives

-------------------------------------------------------------------------------
(* Tabs that are selected, moved or closed. *)

Selects(t) ==
    /\ t \in tabs \ {focused}
    /\ focused' = t
    /\ UNCHANGED <<launch, loop, cursor, slots, realized, tabs, entry, sectionVars, dragVars, running>>

(* _UpdatedSelectedTab by way of _OnTabSelectionChanged. *)
SelectTab(t) == Idle /\ Selects(t) /\ UNCHANGED kids /\ Derives

(* _TryMoveTab takes the tab out of the strip and puts it back elsewhere, with the
   reconcile suppressed, then selects it. *)
MoveTab(t) == Idle /\ Selects(t) /\ UNCHANGED kids /\ Derives

(* _RemoveTab: by the user, or because the session ended.  The tree is reconciled
   between the removal from _tabs and the removal from the tab strip: the strip's
   index of the selected tab then names another tab of _tabs ("seen") if the tab
   was selected itself or left of the selected one.  When the tab was selected
   another one is afterwards ("next"), without a further look at the tree: at that
   moment nothing is selected, and the event is suppressed by _removing. *)
CloseTab(t, seen, next) ==
    /\ running /\ loop > 0 /\ t \in tabs /\ {seen, next} \subseteq tabs \ {t}
    /\ t # focused => next = focused
    /\ kids' = SinkBottomSeparators(RemoveNodeSelfHealing(kids, t))
    /\ slots' = [i \in DOMAIN slots |-> IF slots[i] = t THEN None ELSE slots[i]]
    /\ tabs' = tabs \ {t} /\ focused' = next
    /\ entry' = [entry EXCEPT ![t] = NoId]
    /\ UNCHANGED <<launch, loop, cursor, realized, sectionVars, dragVars, running>>
    /\ RecomputeSections(seen)

(* The same when the stale index is past the end of _tabs, that is when the
   selected tab is the last of the strip and t does not come after it: GetAt
   throws in a function that is noexcept.  With the only tab the window closes in
   any case. *)
CloseTabEnds(t) ==
    /\ running /\ loop > 0 /\ t \in tabs
    /\ WindowEnds /\ UNCHANGED loop

-------------------------------------------------------------------------------
(* Sections and separators. *)

Shown == InTree(kids) \ hidden

(* A click on a header, or its menu. *)
SetSectionCollapsed(h) ==
    /\ Idle /\ h \in Shown \cap labelled
    /\ collapsed' = IF h \in collapsed THEN collapsed \ {h} ELSE collapsed \cup {h}
    /\ UNCHANGED <<launch, loop, treeVars, tabs, focused, entry, labelled, dragVars, running>>
    /\ Derives

(* The badge of a collapsed header expands it and selects the session of the
   section in the strongest state: whichever it is, n. *)
ActivateSectionBadge(h, n) ==
    /\ Idle /\ h \in Shown \cap collapsed /\ n \in SectionRows(kids, h)
    /\ collapsed' = collapsed \ {h}
    /\ focused' = n
    /\ UNCHANGED <<launch, loop, treeVars, tabs, entry, labelled, dragVars, running>>
    /\ Derives

(* A row's state or slot changes. *)
RowStateChanges ==
    /\ running /\ loop > 0
    /\ UNCHANGED <<launch, loop, treeVars, tabs, focused, entry, sectionVars, dragVars, running>>
    /\ Derives

RemoveAll(tree, nodes) ==
    LET order == Seqs!SetToSeq(nodes)
        removed[k \in 0..Cardinality(nodes)] ==
            IF k = 0 THEN tree ELSE RemoveNodeSelfHealing(removed[k - 1], order[k])
    IN  removed[Cardinality(nodes)]

(* _ReconcileSeparatorsWithSettings: of the separators shown, those in "kept" are
   still in the settings, and those in "named" have a label there. *)
ReconcileSeparatorsWithSettings(kept, named) ==
    LET shown == InTree(kids) \cap Separators
    IN  /\ running /\ loop > 0
        /\ kids' = RemoveAll(kids, shown \ kept)
        /\ labelled' = (labelled \ shown) \cup named
        /\ collapsed' = (collapsed \ shown) \cup (collapsed \cap named)
        /\ UNCHANGED <<launch, loop, cursor, slots, realized, tabs, focused, entry, hidden,
                       dragVars, running>>

(* The tree control moves a row to the place at of the scope p. *)
Drop(n, p, at) ==
    /\ Idle /\ moves < bounds.maxMoves
    /\ p # Root => n \notin Chain(kids, p)
    /\ at \in 1..(Len(Detach(kids, n)[p]) + 1)
    /\ kids' = [Detach(kids, n) EXCEPT ![p] = Seqs!InsertAt(@, at, n)]
    /\ dropped' = n /\ moves' = moves + 1
    /\ UNCHANGED <<launch, loop, cursor, slots, realized, tabs, focused, entry, sectionVars, hidden,
                   running>>

(* A row dropped onto a separator goes right after it. *)
OutOfSeparator(tree, n) ==
    LET parent == Scope(tree, n)
    IN  IF parent \notin Separators THEN tree
        ELSE [Detach(tree, n) EXCEPT
                 ![Scope(tree, parent)] = Seqs!InsertAt(@, Place(tree, parent) + 1, n)]

(* The drag's epilogue.  A session dropped into a collapsed section expands it. *)
DragItemsCompleted ==
    LET present == dropped \in InTree(kids)
        placed == IF present THEN OutOfSeparator(kids, dropped) ELSE kids
        around == IF present /\ dropped \notin Separators THEN Chain(placed, dropped) ELSE {}
    IN  /\ running /\ dropped # None
        /\ kids' = SinkBottomSeparators(placed)
        /\ collapsed' = collapsed \ UNION {SectionHeaderFor(placed, n) : n \in around}
        /\ dropped' = None
        /\ UNCHANGED <<launch, loop, cursor, slots, realized, tabs, focused, entry, labelled, moves, running>>
        /\ Derives

-------------------------------------------------------------------------------
(* "Save current as startup". *)

(* The id a row is captured under: its own, or a new one. *)
CapturedId(n) == IF n \in Separators THEN n ELSE IF entry[n] = NoId THEN n ELSE entry[n]

Captures(n) == n # SettingsTab

(* Mutant: a row hangs from the row it is nested in, captured or not. *)
MutCapturedParent(n) == IF Scope(kids, n) = Root THEN NoId ELSE CapturedId(Scope(kids, n))

(* A row hangs from the nearest session above that is captured. *)
CapturedParent(n) ==
    LET p == Nearest(kids, n, {t \in Tabs : Captures(t)})
    IN  IF p = Root THEN NoId ELSE CapturedId(p)

CapturedEntries ==
    LET rows == SelectSeq(Rows(kids, Root), Captures)
    IN  [i \in DOMAIN rows |->
            Row(CapturedId(rows[i]), CapturedParent(rows[i]), rows[i] \in Separators)]

(* _CaptureLiveSessionEntries, from a page of the settings tab; the entries go to
   the settings, the ids also to the rows. *)
CaptureLiveSessionEntries ==
    /\ Idle /\ SettingsTab \in tabs
    /\ entry' = [t \in Tabs |-> IF t \in tabs \ {SettingsTab} THEN CapturedId(t) ELSE entry[t]]
    /\ UNCHANGED <<launch, loop, treeVars, tabs, focused, sectionVars, hidden, dragVars, running>>

-------------------------------------------------------------------------------
Next ==
    \/ StartupTab \/ StartupNoTab
    \/ OpenTab \/ OpenSettings \/ ExecuteCommandline
    \/ \E t \in Tabs : \/ AddChildSession(t) \/ AddChildSessionFails(t)
                       \/ SelectTab(t) \/ MoveTab(t) \/ CloseTabEnds(t)
                       \/ \E seen, next \in Tabs : CloseTab(t, seen, next)
    \/ \E h \in Separators : SetSectionCollapsed(h) \/ \E n \in Tabs : ActivateSectionBadge(h, n)
    \/ RowStateChanges
    \/ \E kept \in SUBSET (Separators \cap InTree(kids)) : \E named \in SUBSET (kept \cap Headers) :
          ReconcileSeparatorsWithSettings(kept, named)
    \/ \E n \in Shown, p \in Shown \cup {Root} : \E at \in 1..(Len(kids[p]) + 1) : Drop(n, p, at)
    \/ DragItemsCompleted
    \/ CaptureLiveSessionEntries

Spec == Init /\ [][Next]_vars

(* The dispatcher gets to the startup loop's next, low priority, continuation. *)
FairSpec == Spec /\ WF_vars(StartupNoTab \/ StartupTab)

-------------------------------------------------------------------------------
(* Properties. *)

(* The tree has exactly one row per open tab, whatever was opened, closed, nested
   or dragged meanwhile (_OnSessionsCollectionChanged, lines 1095-1128): no row is
   at two places, the tabs are those of the rows found from the root down, and
   nothing is left below a row that is not found. *)
TreeMirrorsTabs ==
    /\ InTree(kids) \ Separators = tabs
    /\ \A p, q \in DOMAIN kids : \A i \in DOMAIN kids[p], j \in DOMAIN kids[q] :
          kids[p][i] = kids[q][j] => p = q /\ i = j
    /\ \A p \in DOMAIN kids : kids[p] = <<>> \/ p \in InTree(kids) \cup {Root}

(* Once a step leaves no drag to be completed, "bottom" separators close their
   scope, and the row that was dragged is not nested in a separator
   (_SinkBottomSeparators, _OnSessionTreeDragItemsCompleted).  A reload of the
   settings does not sink: it only keeps the order, and not that if a separator it
   removes had rows of its own.  Nor is a row dropped onto a separator that is
   itself nested in one taken out of both. *)
SeparatorsInPlace ==
    [][(dropped' = None /\ <<kids, dropped>>' # <<kids, dropped>>) =>
          /\ \/ \A p \in DOMAIN kids' : BottomsLast(kids'[p])
             \/ \E s \in (InTree(kids) \ InTree(kids')) \cap Separators :
                   kids[s] # <<>> \/ \E p \in DOMAIN kids : ~BottomsLast(kids[p])
          /\ dropped \in InTree(kids') =>
                \/ Scope(kids', dropped) \notin Separators
                \/ Scope(kids, Scope(kids, dropped)) \in Separators]_vars

(* The tree after a launch of which every session opens, by entry id. *)
Relaunched(list) ==
    LET tree == LoadStartupTree(list)
        ids == {list[i].id : i \in DOMAIN list}
        spawn(page, session) == Reconciled(page, tree, session.id)
    IN  Seqs!FoldLeft(spawn, [kids |-> [p \in ids \cup {Root} |-> <<>>], cursor |-> 0,
                              slots |-> [i \in DOMAIN tree.sessions |-> None], realized |-> FALSE],
                      tree.sessions).kids

(* The tree without the settings tab, with captured ids for rows. *)
LiveById ==
    LET live == SinkBottomSeparators(IF SettingsTab \notin tabs THEN kids
                                     ELSE RemoveNodeSelfHealing(kids, SettingsTab))
        id(n) == IF n = Root THEN Root ELSE CapturedId(n)
        named == {Root} \cup InTree(live)
    IN  [x \in {id(n) : n \in named} |->
            LET n == CHOOSE m \in named : id(m) = x
            IN  [i \in DOMAIN live[n] |-> id(live[n][i])]]

(* "Save current as startup" loses nothing: the list it writes is well formed and
   its launch builds the tree that is there, without the settings tab and with
   "bottom" separators last, provided no separator owns rows
   (_CaptureLiveSessionEntries, LoadStartupTree, _RealizeStartupSeparators). *)
CapturedRelaunches ==
    (tabs \ {SettingsTab} # {} /\ dropped = None /\ \A s \in Separators : kids[s] = <<>>) =>
        \E list \in {CapturedEntries} : IsWellFormed(list) /\ Relaunched(list) = LiveById

(* A step that opens, closes or selects a session or removes a separator leaves
   every other row below the nearest row above it that is still there, and the
   rows, but for "bottom" separators and what they own, in the order they were in
   (_RemoveNodeSelfHealing, _TryMoveTab). *)
RowsKeepPlace ==
    [][kids' # kids =>
          \E before \in {Rows(kids, Root)}, after \in {Rows(kids', Root)} :
          \E both \in {Seqs!ToSet(before) \cap Seqs!ToSet(after)} :
              \/ Seqs!ToSet(before) = Seqs!ToSet(after) /\ focused' = focused
              \/ /\ \A n \in both : Scope(kids', n) = Nearest(kids, n, both)
                 /\ \E still \in {both \ UNION {Below(kids, b) : b \in Bottoms}} :
                       SelectSeq(after, LAMBDA n : n \in still) = SelectSeq(before, LAMBDA n : n \in still)]_vars

(* The startup separators appear, though startup actions may open no tab and other
   tabs be opened and closed meanwhile (_MarkStartupSpawnComplete). *)
SeparatorsAppear == <>(realized \/ ~running)
===============================================================================
