# axan: a TLA+ model of the sessions sidebar

axan shows the shells of a terminal as a tree in a sidebar. Each row says what
its shell is doing: at rest, running, working, done, failed, waiting for an
answer. Programs report that themselves, with OSC 7501 control sequences; the
shell adds OSC 133 marks, and the terminal adds its bell. The tree can be laid
out by hand, saved as a startup list and launched again. There are two
programs: a fork of Windows Terminal and a fork of gnome-terminal.

This directory models what axan adds to them: on Windows the way of a report
from the control sequence to the row, what "the user has seen it" means, the
labels, the live tree and the startup list with its editor; on Linux the
sidebar's tree and the automatic export of the settings.

Paths below are relative to `src/windows/src/` unless they start with `linux/`
or `docs/`; `TerminalApp/`, `TerminalCore/`, `TerminalControl/`,
`TerminalConnection/` and `TerminalSettingsEditor/` are under `cascadia/`.

## 1. The system

| Part | State | Operations | Talks to |
|---|---|---|---|
| OSC 7501 parser (`terminal/adapter/ProgramStatus.hpp`) | none | parse one report | record store |
| Record store (`TerminalCore/TerminalProgramStatus.cpp`) | records by id, revision counter, enabled, "a command is running" | report, clear a subtree, drop live records, reset, OSC 133 marks, snapshot | sets pending flags of its control |
| Terminal control (`TerminalControl/ControlCore.cpp`) | terminal lock, two pending flags, `_connectionEnded`, the connection and its handlers | output handler, StateChanged handler, close, restart, snapshots | raises events to the tab |
| Connection (`TerminalConnection/ConptyConnection.cpp`) | state, output thread | output, end, `Close` that waits for its thread | calls the handlers of the control |
| Tab (`TerminalApp/Tab.cpp`, `Pane.cpp`) | pane tree, focus, bell indicator and timer | split, move, close panes, focus, ring | hops to the UI thread, raises `AxanSessionStateChanged` |
| Row (`TerminalApp/AxanSessionTreeView.cpp`, `SessionNodeViewModel.cpp`) | seen revisions per pane, state shown, preview | acknowledge, recompute, preview | reads every terminal of its tab |
| State derivation (`TerminalApp/AxanSessionState.h`) | none | `Derive`, `HasNewReport` | used by the row |
| Labels (`AxanSessionTreeView.cpp`, `AxanLabelTemplate.cpp`) | a template and a generation per row | gather on the UI thread, expand in the background, apply | title and idle events of the active control |
| Live tree (`AxanSessionTree.cpp`, `AxanSessionTreeView.cpp`) | nodes, separators, sections, startup slots | reconcile with tabs, remove, drag, collapse, capture | tabs, settings |
| Startup entries (`inc/AxanEntryTreeOps.h`, `TerminalSettingsEditor/StartupSessionsViewModel.cpp`) | flat list of entries with parents, its committed copy | add, delete, duplicate, move, indent, drag, import | settings, live tree |
| Linux sidebar (`linux/src/terminal-sidebar.cc`) | a flat list of rows with parent pointers, indentation, collapsed cells | add, remove, drop, reorder, link, capture | windows, D-Bus clients |
| Linux auto export (`linux/src/axan-auto-export.cc`) | a timer, watched profiles, files | resync half a second after a change | dconf, the preferences and the command line |
| TOML conversion, shell integration, glyphs, colours, logging | none that matters here | | |

What is hard about it:

- **Three threads** (status). Output is handled on the connection's thread, under
  the terminal lock. The end of the connection is handled on whichever thread
  raises it. The UI thread reads the store when an event tells it to. Nothing
  polls: an event that is lost leaves a wrong row for good.
- **Deferred events.** The store cannot raise events under the lock, so it sets
  an atomic flag that is taken after the lock is released, by any thread.
- **Crash and restart of programs.** A program that dies leaves `working` behind
  unless someone drops it, and output still in the pipe can write it again.
- **Seen or not seen.** A row remembers "seen up to revision n" per pane. This
  depends on window activation, tab selection, panes that come and go, and
  reports that land between any two reads.
- **Background expansion** (labels). Several expansions run at once and end in
  any order, and the row has to listen to the right control while panes change.
- **A launch that takes time** (trees). Startup tabs are opened one by one with
  the UI thread, or the whole server, free in between: sessions fail to open,
  end, are dragged and are opened by hand before the last one is there.
- **Trees kept as lists.** The startup list and the Linux sidebar are flat lists
  with parents; a family is found by position or by depth, which is right only
  while every operation keeps the order it relies on.
- **Other processes** (auto export). A change of the settings arrives as a
  signal, later than the change and in any order with the timer, the exit of the
  server and edits of the files.
- **Limits.** The store holds 256 records and evicts.

## 2. Modules

| Module | Models | Extends |
|---|---|---|
| `ProgramStatusStore` | the record store and the OSC 133 flag | |
| `ControlCore` | one control, its three threads and its connection | `ProgramStatusStore` |
| `StatusFeed` | abstract: what a control promises the sidebar | |
| `SessionState` | `Derive` as operators over folds | |
| `SessionRow` | one row, its tab and its panes | `SessionState` |
| `SessionLabel` | the label of one row | |
| `OrderedSets` | positions of a list in ascending order | |
| `EntryTree` | the rules of the startup list and its expansion | `OrderedSets` |
| `StartupEntries` | the editor of the startup list | `EntryTree` |
| `SessionTree` | the live tree of a window | `EntryTree` |
| `TerminalSidebar` | the Linux sidebar and the client that fills it | |
| `AutoExport` | the Linux automatic export | |
| `...Proofs` | theorems | their module (`ControlCoreProofs` holds the store's, `SessionRowProofs` those of `Derive`) |
| `MC...` | constants for TLC; `MCSessionState` also has two terminals that report in turn, for finding 3 | their module |

Definitions called `Mut...` are the plausible mistakes (a dropped guard, a missing
notification) each property has been shown to catch. No specification uses them.

### ProgramStatusStore

One action per call made under the write lock. An id such as `a/b` is the
sequence of its segments, so that `a` covers `a/b` and not `ab`; the prefix
comparison with the `/` check (`IsInSubtree`) becomes a prefix of sequences. A
record keeps its state, its app (the one field others inherit) and its revision;
kind, progress, title and msg are stored and copied without influence on
anything else here. `Report` is a report of any program, a report that is
discarded, or one that arrives with the feature switched off. The flags that the
owner's callbacks set are part of each operation (`Notify`), as they are set
within the same call.

### ControlCore

`pc` says where each thread is. A step ends where another thread can see a
difference: at the lock, at each atomic access, at each post.

- *output*: `OutputArrives`, `OutputLocks`, any number of `OutputWrites` (one
  control sequence each), `OutputUnlocks` (which drops again when
  `_connectionEnded` is set), then the two raises. `OutputThrows` is the
  exception the handler swallows, which the code expects of a control that is
  closing.
- *state*: `ConnectionCloses`, `StateRaised`, `StateSetsEnded`, `StateDrops`,
  the raises, `StatePosts`.
- *ui*: takes queued items, reads records and running flag in two separate lock
  scopes, and serves the user: the setting, a restart, a shutdown.

The raises (`ExchangeStatus`, `PostStatus`, `ExchangeShell`, `PostShell`) are the
same code on all threads and take the thread as a parameter. `Overlap` decides
whether a connection may raise `StateChanged` while an output handler runs: the
interface does not forbid it, ConPTY never does it. The safety theorems cover
both but for `LiveIsCurrent`, which is about ConPTY's order; the run has that order.
`queued` counts the coroutines that wait for the UI thread: they are
indistinguishable. A UI read takes the lock for the time of a snapshot only, so
it is one step guarded by `lock = "free"`; only the output handler holds the lock
across steps.

### StatusFeed

A source, a view of it, and whether the view may be stale. `ControlCore`
implements it with `source <- records`, `view <- view`, `stale <- RecordsReadDue`
(a flag is set, an event is about to be posted, an item is queued, or the UI
thread is about to read). The feed allows a change of the source only together
with becoming stale, and lets staleness end only in a read.

### SessionState

`Derive` is two scans over panes and records: the best candidate and, for a row
at rest with `statusAfterSeen = keep`, the report to keep. Both are left folds
over the candidates in the order of the code. A message is abstracted to the key
of the record it comes from. The reference it is compared with in the states of a
row (`Strongest`, `GoesFirst`, `AllSeen`) is stated over the set of all records,
without a scan. `GoesFirst` compares revisions only within one terminal, where
they tell which report is newer; across terminals they do not, which `Derive`
passes over (finding 3).

### SessionRow

The UI thread serves one event at a time, but each read of a terminal is its own
step, so reports land between acknowledge and recompute, between two panes, and
between the records and the running flag of one pane. Of the terminals the row
relies only on what is proved of the modules below it: revisions only grow
(`ReportsAreNew`), and a change makes a recompute due (`NoLostUpdate`,
`FeedSpec`), which `due` stands for.

Panes follow the code's order: `SplitPane` and `AttachPane` announce a pane,
which recomputes the row, before the pane is in the tree (`PaneJoins`,
`PaneJoined`); `DetachPane` removes the active pane of the focused tab
(`PaneLeaves`); `Pane::Close` removes the content at once and the tree node after
an animation (`PaneCloses`, `PaneClosed`).

A tab is also selected by the removal of the tab that was: `_RemoveTab` focuses it
while the tab strip has no selection, so nothing is acknowledged (a bell that goes
with the focus does recompute the row), and the event of the selection that follows
is suppressed (`RemovalFocuses`, `RemovalSelects`).

`looked` and `unnoticed` are history: no guard reads them. `unnoticed` holds what a
row was not told of since it was last computed: a pane that closed in the
background, a selection by removal. One simplification: an
acknowledgement prunes the seen entries of closed panes at its start, where the
code prunes in the recompute that always follows (nothing reads them in between).

### SessionLabel

A recomputation is three steps on two threads: the context is gathered and a
generation taken on the UI thread (`Recompute`, part of every action that starts
one), the template is expanded (`ComputeLabel`), and the result is applied if its
generation is still the row's (`ApplyLabel`). Titles, directories and templates
are version numbers and a label is the record of what it was expanded from, so
"older" has a meaning. Terminals write, their idle timer and their throttled
title change fire, the tab is renamed, the pane changes, the editor saves, the
row goes. The code gathers directory and title under two acquisitions of the
lock; here it is one step. The file system and git, which an expansion also
reads, are external.

### EntryTree, StartupEntries

`EntryTree` states each rule of `AxanEntryTreeOps.h` over sets of positions
rather than as the loop that finds them, and `LoadStartupTree`. A row is its id,
its parent and whether it is a separator. `StartupEntries` is the page: a list, the copy in the
settings clone, a selection, and a drag in its three parts (`BeginDrag`, the
list control's move of one row, `DragCompleted`), with edits of a text field in
between; of the fields only `dirty` is kept, whether the settings lack an edit. The code holds on to row objects; the model holds their positions, and
follows them when the list control moves a row (`Shifted`). So no rule depends
on ids being distinct: nothing on load enforces that, and a hand-edited file may
hold one id twice, or none for a row. `IsTree` is about lists where every row has
an id of its own. Assumed: no command of the page runs during a drag, and a
navigation makes a new view-model.

### SessionTree

A row is named by its tab or by the id of its separator; `kids` maps each row to
its children. What is below a row is a function over the rows (`Rows` lists it in
the order of a walk, `Below` gives the set), and the ancestors of a row are those
it is below, so no operator is recursive. A handler runs to its end on the UI thread and is one action. The
exceptions are the code's own: the startup loop yields after each action, a drag
has a drop and an epilogue (the user's commands do not run in between, ends of
sessions do), a closing tab leaves the list before it leaves the strip. The order
of the tab strip is abstracted. `AncestorMoved` says whether "Add child session" may
fail to open one while an ancestor of its row is focused (finding 4); the code does
not prevent it, and the passing run does without.
Startup slots are weak references: a closed row is taken as released at once.
Slots are not looked at any more once the separators are realized. Bounds of a
scenario: sessions open at once and rows moved.

### TerminalSidebar

One window and its sidebar. `rows` is the list, `parent` the `axan-parent` pointer
of each row, `indent` the depth each row was last drawn with, `cells` the cells
on screen (none outside the collapsed view, whose entry rebuilds them). The
client that launches is a process of its own: it passes the path of the
previous tab, which decides the window, and the path of the parent. It keeps a
hole for a tab that failed. The selected row is not kept: what depends on it
takes any row or none. So when a tab is linked under its parent the cells are those
of the list after it was added, of the list without it (GTK deselects a selected
row that is taken out, which redraws the cells), or of the final list, when it is
made the active tab afterwards (`CellLists`). A drop is one action, possible in the expanded view only.
Object paths are not reused while the client still holds them.

`NestedMoves` says whether a tab may be moved by one slot, or inserted next to the
active one, while rows are nested. Both break the pre-order (finding 2), so the
passing run does without.

### AutoExport

What a schema holds is one value, since every export writes all of it. `signals`
holds the change signals under way, by schema; `list` is the one of the profile
list. `uuids` is what the server last read of that list, `watched` the
profiles with a handler. `overlooked` is history: the mirrors which the code
does not promise to bring up to date at this time, namely those of changes made with no
server, of hand edits, of exports that failed, and what was still waiting when
the server exited. A resync empties it but for its own failures.

## 3. Runs

| Run | Question | Bounds |
|---|---|---|
| `program_status_store` | cap, eviction, revisions, inherited apps | cap 3 and 4 revisions: the store fills, evicts, and is cleared and refilled; the ids include `a`, `a/b`, deeper ones and `ab` |
| `control_core` | nothing lost, nothing revived, nothing of the old process after a restart, the feed is implemented; rows catch up, closing ends | 2 ids, cap 1, 2 revisions, 1 restart, the order of ConPTY |
| `session_row` | the row is current and what the reference says; seen means looked at; previews end | 2 panes, 2 reports each, in six scenarios: panes that split, move and close, with a removal; panes with previews; bell, shell, setting, previews, removals and kinds of `blocked`; a program with a task; two tasks; panes with errors |
| `session_label` | no label goes back; a label ends up current | 2 panes, 2 inputs: two expansions under way at once, each for another pane |
| `startup_entries` | commands and drags keep families and order; nothing stays uncommitted | every list of up to 4 rows the page can make, from the empty list and from two kinds of ill-formed file; ids symmetric (lists with an id used twice are left to the proofs) |
| `session_tree` | the tree mirrors the tabs, rows keep their place, separators appear and stay, capture and relaunch agree | five launches: none; a nested one with 2 tabs, a drag and the settings tab; leading separators; three levels with 3 tabs; two sessions and two drags, after which a separator may own rows |
| `terminal_sidebar` | the list stays a pre-order traversal, drawn and captured as linked | 4 screens; no startup list, one with late children, one chain: a family of three beside another row |
| `auto_export` | nothing is forgotten; mirrors settle | 2 profiles, 2 values, 3 changes by others, 1 failed export per resync, any number of restarts of the server |
| `control_core_restart_live`, `terminal_sidebar_moves`, `session_state_latest`, `session_tree_ancestor` | the findings of section 6 | as small as the trace needs |

Two revisions suffice for a lost update: it needs one change that is delivered and
one that is not. Two panes suffice for what depends on the order in which panes
are visited. `MaxQueued` stops new output and requests while the queue is longer
than that; work under way can still lengthen it. Three changes are enough for a profile that
comes, goes and comes back, or for two changes around the firing of the timer
and a third while the server is away. Deadlock is checked except in
`session_state_latest` (three reports),
`session_label` (inputs are bounded, and a label that has settled stops) and
`session_tree` (a window may close).

### Fairness

- `control_core`. Each thread keeps running once it has begun (WF on its
  steps): the handlers contain no wait other than the lock. The lock is a ticket
  lock (`til/ticket_lock.h`), which serves its waiters in order, hence strong
  fairness of the steps that take it. A handler that holds the lock finishes its
  chunk (WF on `OutputUnlocks`): a chunk is finite. Output, the end of a process
  and requests of the user are never forced.
- `session_label`. Timers fire, posted calls run, background expansions end (WF
  on each). None of them waits for anything. Inputs are not forced.
- `session_tree`. The startup loop goes on (WF): after each action it waits only
  for the dispatcher.
- `auto_export`. Signals are delivered and the timer fires (WF): the server's main
  loop runs. Starting and stopping the server is not forced.

## 4. Proofs

For every value of the constants:

| Module | Theorems |
|---|---|
| `ControlCoreProofs` | of the store: `StoreTypeCorrect`, `StoreBounded`, `StoreRevisionsDistinct`, `StoreReportsAreNew`, `StoreEvictsOldest`, `StoreAppsInherited`; of the control: `TypeCorrect`, `NoUpdateIsLost`, `FlagsAreOwned`, `EndIsFinal`, `RestartLeavesNothing`, and `ImplementsFeed`, the refinement of `StatusFeed` |
| `SessionRowProofs` | of the derivation: `BestOfTab`, `DeriveShowsStrongest`, `DeriveShowsPreferred`, `DeriveKeepsAge`; of the row: `RowShowsStrongest`, `RowShowsPreferred`, `RowKeepsAge`, `SeenWasLookedAt`, `SettledRowIsCurrent`, `UnlookedIsShown`, `LookedAtIsCalm`, `PreviewsEnd` |
| `SessionLabelProofs` | `LabelTypeCorrect`, `LabelNeverGoesBack` |
| `StartupEntriesProofs` | `PageIsCommitted`, `EditsAreCommitted`, `AnyTreeLaunches`, `TreeIsKept`, `MovesTakeFamilies`, `DragsTakeFamilies` |
| `SessionTreeProofs` | `TreeInvariant`, `TreeAlwaysMirrorsTabs`, `SeparatorsStayInPlace` |
| `TerminalSidebarProofs` | `SidebarInvariant`, `SidebarIsPreOrder`, `SidebarParentsListed`, `SidebarDrawnAsLinked`, `SidebarFamiliesTravel`, `SidebarCaptureRelaunches` |
| `AutoExportProofs` | `MirrorsStayCurrent` |
| `OrderedSetsProofs` | no theorem of its own: least and greatest members, and that `InOrder` lists a finite set once and in order |

The assumptions are the ones of the modules: ids are sequences of segments, the cap
is positive, the bounds are natural numbers, panes, screens and separators are finite
sets, special values are not ordinary ones, a list a file can hold is a sequence of
rows, a separator of a startup list has an id of its own, and a tab name is there
for every session of it.
`RestartLeavesNothing` has two more: the order of ConPTY (`~Overlap`) and no restart
of a live connection, without which finding 1 refutes it. The theorems about the
Linux sidebar suppose `~NestedMoves`, without which finding 2 refutes them; those
about the live tree suppose `~AncestorMoved`, without which finding 4 refutes them. The type invariants,
`RevisionsDistinct` and `PendingIsOwned` are proved and not repeated in a run.

*The store.* `StoreInv` joins the types, that the domain of `records` is finite,
the cap and the distinct revisions. The cap is not inductive without finiteness,
for the cardinality of an infinite set says nothing, and its step at a full store
needs the eviction victim to exist and to be one of the records: `Oldest` chooses
by the least of a non-empty set of natural numbers. Distinct revisions need "none ahead of
the counter", which makes the next revision a new one; they also make the victim
unique, which `StoreEvictsOldest` rests on. `StoreAppsInherited` follows the climb
from an id to its root, which finds the longest prefix that has an app.

*The control.* `CoreInv` is `StoreInv`, the types, `LockHeld` (the lock is held
exactly while the output thread writes), `NoLostUpdate`, `PendingIsOwned` and
`EndedStaysEnded`. Lemmas first say of each operation of the store that what it
changes it also notifies, and that it takes no notification away (`Notified`).
Then a step is either quiet (it posts nothing, reads nothing, and what was due
stays due), a raise (flag to event, event to queue), or a read (which makes the
view equal to the source). `EndedStaysEnded` needs `LockHeld`: only a handler
within its critical section may have a live record after the end, and it drops it
before it lets go. `RestartLeavesNothing` needs that output of a closed connection comes after its
`StateChanged` handler, and that from the reset of a restart on nothing is live but
for what a handler that still has the lock is about to drop.
`ImplementsFeed` maps each kind of step: quiet steps that
change the records are `Publish`, reads are `Refresh`, the end of a shutdown is
`CloseFeed`.

*The derivation.* A scan is `FoldLeft`, which the community modules define as a
recursive function over sets of positions. Recursive definitions come without a
proof that such a function exists; here it is shown from finite approximations: a
scan of n candidates extends to n + 1, and a least n without one cannot be
(`ScanDefined`). A second argument by the least counterexample then shows what
the scan returns: no candidate goes before it, and it is the first such
(`ScanFindsBest`, `ScanFindsKept`), as the comparison is a strict weak order. The
concatenation of the panes' candidates is treated alike. `DeriveKeepsAge` adds
that seeing every report does not change their order among each other. As a settled
row is what `Derive` makes of its tab, the same holds of the row in every reachable
state (`RowShowsStrongest`, `RowShowsPreferred`, `RowKeepsAge`).

*The row.* `RowInv` says of every point between two reads of the UI thread what the
values read so far are worth: they are those the terminals have now, or another
recompute is due, and they are all seen if the user is looking. `SeenWasLooked`
needs that an acknowledgement runs only while the user looks, and that a pane that is
looked at is looked at in full. `ShownInv` says of a row at rest that it is what
`Derive` makes of the tab, that it alerts for every unseen report, that it is calm
while it is looked at (unless a removal selected it), and that a preview is not older than the reports it hides.
From the row's point of view a step is of one of a few kinds (`StepShape`: a
recompute starts, reads on, applies; a quiet event; a change of a terminal), so each
part of the invariant is proved once per kind and not once per handler.

*The label.* `LabelNeverReverts` compares what a step applies with what is shown.
`LabelInv` makes that inductive: everything gathered, shown or under way, is of the
past (titles, directories and templates only advance), generations under way are
distinct and none is ahead of the row's, and the one that is the row's own is not
older than what is shown.

*The startup list.* `EditorInv`: outside a drag the page and the settings agree and
commits are not suspended; during one they are suspended, and the page shows the
committed list or that list with the dragged row at its new position. That makes
the three ends of a drag (in place, repaired, undone) end in agreement, and gives
`NothingUncommitted`; `EditsReachSettings` follows as an edit is left behind only by
an end that changes nothing. `LaunchedInOrder` needs nothing of the tree: a least
counterexample among the rows shows that what a row's parent resolves to is
started earlier, whatever the list. `TreeIsKept` goes through the operations one
by one with `TreeRows` (a list with ids of its own is a tree when every row has
its parent, a session, above it). A block move is a permutation
(`MovesEachOnce`) that keeps the order within the block and within the rest
(`BlockPlaces`), so a tree stays one if the block holds the children of its rows
and lands below the one parent that is outside (`BlockKeepsTree`). A family found by
`SubtreeMask` is such a block, and the parent it shares with the sibling it steps
over is above both (`MoveKeepsTree`). For a drag the code itself checks
that the outcome is well-formed; what is left to show is that ids stay distinct.
`MovesTakeFamilies` compares the lists before and after a move through an
order-preserving correspondence of their rows, and shows that the rows
`SubtreeMask` collects are the least set that holds the head and is closed under
"child of". `DragsTakeFamilies` does the same for the closure by ids that the repair of
a drop computes: it reaches every row of the family within as many rounds as the
row is deep below the head. The list control has moved the head alone, so the repair
is shown to equal lifting the family as one block out of the list before the drag
and giving its head the new parent. That parent is a session above the landing place,
by the depths and the climb along parents; so in a tree the outcome is well-formed
and the branch marked unreachable (`StartupSessionsViewModel.cpp:526`) is.

*The live tree.* Everything rests on a description of a forest that needs no walk
(`Forest`): children are rows, no row is at two places, and `Rooted`: whatever has
children lies in every set that holds the root and is closed under children. For a
forest, `Below` is shown to be the least closed set that holds its row; that a
recursive function of this kind exists follows from finite approximations, as rows
are finitely many and none is below itself. Each operation is then described by
what it does to the sets of children (a new row, a row that moves, a row that is
replaced by its children), and three lemmas say that a forest stays one. The edits
of sequences behind that (insert at, remove at, splice, sort the bottom separators
last) have lemmas of their own. `TreeInv` is the forest with the tabs as its
sessions, and four parts it needs to be inductive: `LaunchInv` (the launch is one of
the scenarios), `PageInv` (a slot holds an open session, and no separator is in the
tree before all of them are, so a separator is never placed twice), `RoomInv` (a name
is left for every startup action) and `FocusInv` (a startup action that opens nothing
leaves an open tab focused). "Add child session" is safe
because a row that has just been opened has at most separators without children below it,
so its new parent is not among them. The startup separators and the removal of
several separators at once are finite recursions, treated like the scans of `Derive`.
`SeparatorsInPlace` could not be proved as first stated: the two exceptions it now
names are behaviours of the code (section 6).

*The Linux sidebar.* The code finds a family by depth: the deeper rows that follow
its head. `PreOrdered` is the local form of that: the parent of a row is above
it and indented one level less, with only rows between them that are deeper than the
parent, and a root is at level 0. It speaks of the indentation, which the model keeps, so
no depth has to be computed along parents. From it a family is a run of consecutive
rows (`SidebarIsPreOrder`), and a drop exchanges two adjacent runs and shifts the
levels of one; a close lifts the levels of a run. `SidebarFamiliesTravel` reads both
off the same description. The cells of the collapsed view are those of the list at
some moment since the last link, so they agree with the rows but for the tab it moved. For `SidebarCaptureRelaunches` the state of a relaunch
after n tabs is given in closed form (the first n rows under their parents) and
the least n at which it fails is refuted: each tab is added at the end of its
parent's family, and by the pre-order that is the end of the list.

*The export.* `MirrorsCurrent` speaks of moments with nothing under way. `ExportInv`
says of every moment what each stale mirror waits for: the timer, the signal of
the profile list, or the signal of a schema with a handler. It needs `ListKnown`:
a profile without a handler exists only while the signal that will give it one is
under way. One lemma (`NotifiedIsAwaited`) covers all writes of other processes.

## 5. Only model-checked

- Liveness: `RowCatchesUp`, `RowSettles`, `CloseEnds`, `LabelSettles`,
  `SeparatorsAppear`, `MirrorsSettle`. The prover has no fairness.
- `ShownWhereLinked` of the startup list: it speaks of the depths of all rows at
  once on lists that need not be trees.
- Of the live tree `RowsKeepPlace` and `CapturedRelaunches`. They are about the
  order in which a walk meets the rows of the whole tree (`Rows`), and the second
  also about a fold that rebuilds it; the proofs know the tree by sets of
  children, in which that order does not appear.

## 6. Findings

Each is a run that TLC refutes, stated from the repository's own words.

1. `control_core_restart_live`. The restartConnection action on a live connection
   resets the terminal, then revokes the handlers and closes. Output written
   between the reset and the close leaves a `working` record of the old process,
   and the handler that would drop it is no longer attached. The specification of
   OSC 7501 (`docs/program-status-osc-7501.md:89`) says a crashed program cannot
   leave a row stuck on "working".
2. `terminal_sidebar_moves`. Moving a tab by one slot can put a child above its
   parent (the trace TLC gives), and that, or opening one "next to the active", can
   put a root row between a parent and its child, as neither looks at the tree. The list is then no pre-order traversal
   (`linux/src/terminal-sidebar.cc:173`), and closing the parent hoists only the
   children found in the run of deeper rows: the other one keeps a pointer to a row
   that is gone, where `:2714` says direct children are reparented.
3. `session_state_latest`. Each terminal numbers its own reports, and `Derive`
   compares the numbers across the panes of a tab (`AxanSessionState.h:288`). If one
   pane reports twice and the other once, later, the row shows the message of the
   first, where `docs/program-status-osc-7501.md:114` says that among records with the
   same state "the root record wins, then the most recently written one".
4. `session_tree_ancestor`. "Add child session" takes the focused tab for the one it
   has opened. If none was opened (the exception is logged), the row of the tab that
   was focused before is moved below the row the command was given on
   (`AxanSessionTreeView.cpp:2704-2716`). If that row is a descendant of it, the two
   hang from each other and leave the tree, and nothing brings them back, while the comment
   says that then "the session still opens, just at the root"
   (`:2686-2690`) and that the tree is kept "in sync with the session list" (`:1095`).

Observations made while modelling, without a run of their own:

- *Status.* A pane that closes in a background tab raises no state change once it
  is gone (`Tab.cpp:1018`, `Pane.cpp:998` against `AxanSessionTreeView.cpp:866`):
  `RowIsCurrentButForClosed` exempts it through `unnoticed`. The timer of a bell
  in a focused tab also removes a later bell that rang after the focus had gone
  (`Tab.cpp:121` against `:1155`). A report that is displaced and comes back
  counts its age from its return (`SessionNodeViewModel.cpp:80` against `.h:342`).
  After the selected tab is closed, the tab selected next is not acknowledged: its row
  goes on asking for attention in front of the user (`TabManagement.cpp:506-527` and
  `:1049` against `docs/program-status-osc-7501.md:120` and the comment at `:1027`);
  `LookedIsSeenButForRemoval` exempts it through `unnoticed`.
- *Tree.* While a tab is removed the sections are derived for the wrong focused tab
  (`AxanSessionTreeView.cpp:3704` with `TabManagement.cpp:437`), and a reload of the settings that
  removes separators does not derive them again (against the comments at `:713` and
  `:3694`). No property is left to state about the hidden rows: what is not one of
  these two steps assigns them. A tab opened by hand between
  startup actions takes a startup slot (`:912-914`, `:565-573`). A row dropped onto
  a separator whose session ends before the epilogue leaves its children under the
  separator, although "a separator can't own children" (`:1223`). If a reload of the
  settings then removes the separator, those rows move up, possibly to below a "bottom"
  separator, and nothing sinks it; and a row dropped onto a separator that is
  itself nested in one is taken out of the inner one only.
- *Startup list.* On a list with scattered families a move down may step over more
  than one sibling, Indent may nest under a row that is no sibling, and a copy need
  not be the next sibling. A row without an id (possible in a hand-edited
  `settings.json`, an import gives it one) has the id every root names as parent:
  deleting it reparents all roots, which can leave the tree ill-formed
  (`StartupSessionsViewModel.cpp:346`). After an ill-formed import, Indent and Outdent can make a
  row its own parent, and the branch marked unreachable
  (`StartupSessionsViewModel.cpp:526`) is reached. A head dropped right below a
  separator between a parent and its child becomes a root and takes the child with it
  to the eye. An edit during a drag that moves no row stays uncommitted until the next commit
  (`:507-513` against the comment at `:128`); `EditsReachSettings` names that case.
- *Linux sidebar.* `terminal_sidebar_set_screen_parent` does not rebuild the
  collapsed cells: after a nested launch the cell of the last tab can be out of place,
  or missing if the tab had been selected when it was added (`:2684`, `:2902`, against
  `:96-98` and `:1796-1800`); `DrawnAsLinked` exempts that one cell. A drag from another
  window of the application uses the index of its own list. If the tab created last
  is closed during a launch, every later one fails, although the client means to
  continue (`linux/src/terminal.cc:569`): its window is found through that tab. With
  "next to the active" as position a launch comes out in another order.
- *Auto export.* A change less than half a second before the server exits is not
  exported until the next change (against `linux/src/terminal-app.cc:1139`). A mirror
  that was edited by hand, or put there to be imported, is overwritten or deleted
  by any resync before the import; so can be the files `--import-all` has not come
  to yet.

## 7. Not modelled, and the plan

The map covers a small share of the repository's lines because nearly all of them
are not axan's: Windows Terminal (renderer, console host, settings model, tests),
gnome-terminal, and vendored libraries. axan's own code is some 19,000 lines
including glyph tables.

Left out for good:

- appearance: glyphs, icons, colours, sizes, idle effects, the collapsed and
  minimized lists of the Windows sidebar, idle collapse and the hoisted group (a
  repeated display of rows, without effect on the tree);
- text: the byte-level grammar of a report, label templates, the TOML and wire
  formats, shell start-up scripts, logging;
- bindings between settings and controls;
- on Linux the selection and the active screen, drags between windows, labels;
- a control that moves to another window, and upstream code that axan leaves as it is.

Left to prove: for the live tree that rows keep their place and that a capture
relaunches. Both need `Rows` described by positions, as the sidebar's list is, for
trees of any shape.
