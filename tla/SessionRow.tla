----------------------------- MODULE SessionRow -----------------------------
(***************************************************************************)
(* One sidebar row: the tab it stands for, the panes of that tab, and what *)
(* the user has seen of their reports (AxanSessionTreeView.cpp, Tab.cpp,   *)
(* SessionNodeViewModel.cpp).                                              *)
(*                                                                         *)
(* The UI thread serves one event at a time, but each read it makes of a   *)
(* terminal is a step of its own: programs report in between.  Of a        *)
(* terminal the row relies only on what ProgramStatusStore's ReportsAreNew *)
(* and ControlCore's feed promise: reports get ever higher revisions, and  *)
(* a change makes a recompute due.                                         *)
(***************************************************************************)
EXTENDS SessionState, OrderedSets

CONSTANTS
    Panes,        \* ContentIds of the terminals
    Ids,          \* record ids, the root id being 0
    Scenarios,    \* the environments of a row, one per behaviour: the ids and
                  \* the reports [state, kind] of its programs, and which of
                  \* the inputs "shell", "bell", "preview", "setting", "panes"
                  \* (split and moved), "close" and "remove" (of the selected
                  \* tab, which hands the selection to this one) it has
    MaxRevision   \* bound on the reports of one terminal

ASSUME RowBoundsAssumption == MaxRevision \in Nat
ASSUME ScenariosAssumption ==
    \A s \in Scenarios :
      /\ s.inputs \subseteq {"shell", "bell", "preview", "setting", "panes", "close", "remove"}
      /\ s.ids \subseteq Ids
      /\ \A report \in s.reports : report.state \in {"idle", "working", "blocked", "done", "error"}
ASSUME RowIdsAssumption == Ids \subseteq Nat

VARIABLES
    term,       \* per pane: its records, revision counter and running flag
    due,        \* has AxanSessionStateChanged been queued?
    controls,   \* the tab's terminals, in pane order
    seen,       \* SeenRevisions; 0 for a pane without an entry
    activated,  \* is the window active?
    selected,   \* is the tab the window's focused tab?
    focus,      \* is Tab::_focusState other than Unfocused?
    bell,       \* the bell indicator
    timer,      \* does the bell indicator timer run?
    joining,    \* the pane that is about to enter the pane tree, or Nothing
    selecting,  \* has the page still to select the tab a pane moved to?
    removing,   \* is the selected tab being removed, and this one to follow it?
    closing,    \* panes without content that the pane tree has yet to drop
    gone,       \* the panes that have been closed
    keep,       \* sidebar.statusAfterSeen = keep
    pc,         \* what the UI thread is doing
    next,       \* the control it is at
    snap,       \* the pane inputs it has read
    row,        \* the real state of the row
    previewing, \* is a previewed state shown instead?
    baseline,   \* PreviewBaselineRevisions; 0 for a pane without an entry
    scenario,   \* the inputs of this behaviour
    looked,     \* history: the revision of each pane when last looked at
    unnoticed   \* history: what the row was not told of since its last recompute:
                \* that a pane was "closed", that its tab was "selected"

termVars == <<term, due>>
paneVars == <<joining, selecting, removing, closing, gone>>
tabVars == <<controls, selected, focus, paneVars>>
bellVars == <<bell, timer>>
uiVars == <<pc, next, snap, unnoticed>>
previewVars == <<previewing, baseline>>
vars == <<termVars, tabVars, bellVars, uiVars, previewVars, activated, keep, seen, row, scenario, looked>>

NoRecords == <<>>

\* The fields that SetSessionState compares and stores.
BlankRow == [state |-> "idle", message |-> Nothing, kind |-> "none", slot |-> "none",
             retained |-> Nothing, reportKey |-> Nothing]

Init ==
    /\ term = [p \in Panes |-> [records |-> NoRecords, revision |-> 0, running |-> FALSE]]
    /\ due = FALSE
    /\ controls \in {<<p>> : p \in Panes}
    /\ seen = [p \in Panes |-> 0]
    /\ activated \in BOOLEAN
    /\ selected = TRUE /\ focus = TRUE
    /\ joining = Nothing /\ selecting = FALSE /\ removing = FALSE /\ closing = 0 /\ gone = {}
    /\ bell = FALSE /\ timer = FALSE
    /\ keep = TRUE
    /\ pc = "idle" /\ next = 1 /\ snap = <<>>
    /\ row = BlankRow
    /\ previewing = FALSE
    /\ baseline = [p \in Panes |-> 0]
    /\ scenario \in Scenarios
    /\ looked = [p \in Panes |-> 0]
    /\ unnoticed = {}

-----------------------------------------------------------------------------
(* The terminals.  Their changes come at any time. *)

InTab(p) == p \in Range(controls)

MaxRecordRevision(records) == Max({0} \cup {records[id].revision : id \in DOMAIN records})

\* History: what the user can see of the terminals while looking at the tab.
Look ==
    looked' = [p \in Panes |-> IF activated' /\ selected' /\ p \in Range(controls')
                               THEN term'[p].revision ELSE looked[p]]

\* A program of pane p reports on id.
PaneReports(p, id, report) ==
    LET t   == term[p]
        new == [state |-> report.state, kind |-> report.kind, revision |-> t.revision + 1]
    IN  /\ p \notin gone /\ t.revision < MaxRevision
        /\ term' = [term EXCEPT ![p].revision = @ + 1,
                                ![p].records = [x \in DOMAIN @ \cup {id} |-> IF x = id THEN new ELSE @[x]]]
        /\ due' = (due \/ InTab(p))
        /\ UNCHANGED <<tabVars, bellVars, uiVars, previewVars, activated, keep, seen, row, scenario>>
        /\ Look

\* A clear, a new prompt, an exit, a reset: some records go.
PaneForgets(p) ==
    \E forgotten \in (SUBSET DOMAIN term[p].records) \ {{}} :
      /\ p \notin gone
      /\ term' = [term EXCEPT ![p].records = Restrict(@, DOMAIN @ \ forgotten)]
      /\ due' = (due \/ InTab(p))
      /\ UNCHANGED <<tabVars, bellVars, uiVars, previewVars, activated, keep, seen, row, scenario, looked>>

\* A shell command starts or ends.
PaneRuns(p) ==
    /\ "shell" \in scenario.inputs /\ p \notin gone
    /\ term' = [term EXCEPT ![p].running = ~@]
    /\ due' = (due \/ InTab(p))
    /\ UNCHANGED <<tabVars, bellVars, uiVars, previewVars, activated, keep, seen, row, scenario, looked>>

-----------------------------------------------------------------------------
(* _AcknowledgeNodeState and _RecomputeNodeState *)

UiIdle == pc = "idle"

\* The seen entries of closed panes go.
Pruned(newControls) == [p \in Panes |-> IF p \in Range(newControls) THEN seen[p] ELSE 0]

\* The next steps visit the panes.
Recompute(newControls) ==
    /\ pc' = "records" /\ next' = 1 /\ snap' = <<>> /\ unnoticed' = {}
    /\ seen' = Pruned(newControls)

MutAcknowledgesInBackground(active, newControls) ==
    pc' = "ack" /\ next' = 1 /\ snap' = <<>> /\ unnoticed' = {} /\ seen' = Pruned(newControls)

\* Nothing is seen in a window that is not active.  The recompute that follows
\* prunes entries the acknowledgement does not touch.
Acknowledge(active, newControls) ==
    IF active
    THEN pc' = "ack" /\ next' = 1 /\ snap' = <<>> /\ unnoticed' = {} /\ seen' = Pruned(newControls)
    ELSE Recompute(newControls)

SeeUpTo(p, revision) == [seen EXCEPT ![p] = IF @ < revision THEN revision ELSE @]

AcknowledgesPane ==
    /\ pc = "ack"
    /\ LET p == controls[next]
       IN  /\ seen' = SeeUpTo(p, MaxRecordRevision(term[p].records))
           /\ next' = IF next = Len(controls) THEN 1 ELSE next + 1
           /\ pc' = IF next = Len(controls) THEN "records" ELSE "ack"
    /\ UNCHANGED <<termVars, tabVars, bellVars, snap, unnoticed, previewVars, activated, keep, row, scenario, looked>>

\* The row's window is active and its tab the focused one.
Looking == activated /\ selected

MutMarksOnlySelected ==
    /\ pc = "records"
    /\ LET p == controls[next]
       IN  /\ seen' = IF selected THEN SeeUpTo(p, MaxRecordRevision(term[p].records)) ELSE seen
           /\ snap' = Append(snap, [pane |-> p, records |-> term[p].records, running |-> FALSE])
    /\ pc' = "running"
    /\ UNCHANGED <<termVars, tabVars, bellVars, next, unnoticed, previewVars, activated, keep, row, scenario, looked>>

\* One snapshot of the records serves the implicit acknowledge and the inputs.
ReadsRecords ==
    /\ pc = "records"
    /\ LET p == controls[next]
       IN  /\ seen' = IF Looking THEN SeeUpTo(p, MaxRecordRevision(term[p].records)) ELSE seen
           /\ snap' = Append(snap, [pane |-> p, records |-> term[p].records, running |-> FALSE])
    /\ pc' = "running"
    /\ UNCHANGED <<termVars, tabVars, bellVars, next, unnoticed, previewVars, activated, keep, row, scenario, looked>>

ReadsRunning ==
    /\ pc = "running"
    /\ snap' = [snap EXCEPT ![next].running = term[controls[next]].running]
    /\ next' = IF next = Len(controls) THEN 1 ELSE next + 1
    /\ pc' = IF next = Len(controls) THEN "apply" ELSE "records"
    /\ UNCHANGED <<termVars, tabVars, bellVars, unnoticed, previewVars, activated, keep, seen, row, scenario, looked>>

\* The inputs of Derive: the records in id order, with their seen flag.
InputOf(pane, records, running) ==
    LET ids == InOrder(DOMAIN records)
    IN  [pane |-> pane, running |-> running,
         records |-> [i \in DOMAIN ids |->
                        [id |-> ids[i], state |-> records[ids[i]].state, kind |-> records[ids[i]].kind,
                         revision |-> records[ids[i]].revision,
                         seen |-> records[ids[i]].revision <= seen[pane]]]]

\* What the UI thread goes on with.
AfterRecompute == IF removing THEN "select" ELSE IF joining = Nothing THEN "idle" ELSE "join"

\* SetSessionState.
NewRow(result) == [f \in DOMAIN BlankRow |-> result[f]]

MutPreviewOutlivesReports ==
    /\ pc = "apply"
    /\ LET result == Derive([i \in DOMAIN snap |-> InputOf(snap[i].pane, snap[i].records, snap[i].running)], bell, keep)
       IN  /\ row' = NewRow(result)
           /\ previewing' = (previewing /\ result.state = row.state /\ result.kind = row.kind)
    /\ pc' = AfterRecompute
    /\ snap' = <<>>
    /\ UNCHANGED <<termVars, tabVars, bellVars, next, unnoticed, baseline, activated, keep, seen, scenario, looked>>

\* A new report ends a preview, and so does a change of the real state.
Applies ==
    /\ pc = "apply"
    /\ LET result == Derive([i \in DOMAIN snap |-> InputOf(snap[i].pane, snap[i].records, snap[i].running)], bell, keep)
           current == [p \in {snap[i].pane : i \in DOMAIN snap} |->
                         MaxRecordRevision((CHOOSE x \in Range(snap) : x.pane = p).records)]
       IN  /\ row' = NewRow(result)
           /\ previewing' = /\ previewing
                            /\ ~HasNewReport(baseline, current)
                            /\ result.state = row.state /\ result.kind = row.kind
    /\ pc' = AfterRecompute
    /\ snap' = <<>>
    /\ UNCHANGED <<termVars, tabVars, bellVars, next, unnoticed, baseline, activated, keep, seen, scenario, looked>>

-----------------------------------------------------------------------------
(* What the dispatcher serves *)

\* A queued AxanSessionStateChanged.
StateChanged ==
    /\ UiIdle /\ due
    /\ due' = FALSE
    /\ Recompute(controls)
    /\ UNCHANGED <<term, tabVars, bellVars, previewVars, activated, keep, row, scenario, looked>>

\* The cleaned titles of the panes, which the agent name comes from, change.
TitleChanges ==
    /\ UiIdle
    /\ Recompute(controls)
    /\ UNCHANGED <<termVars, tabVars, bellVars, previewVars, activated, keep, row, scenario, looked>>

\* The statusAfterSeen setting changes: _RecomputeAllNodeStates.
SettingChanges ==
    /\ "setting" \in scenario.inputs /\ UiIdle
    /\ keep' = ~keep
    /\ Recompute(controls)
    /\ UNCHANGED <<termVars, tabVars, bellVars, previewVars, activated, row, scenario, looked>>

MutActivationIsNoLook ==
    /\ UiIdle /\ ~activated
    /\ activated' = TRUE
    /\ UNCHANGED <<uiVars, seen, termVars, tabVars, bellVars, previewVars, keep, row, scenario>>
    /\ Look

WindowActivated ==
    /\ UiIdle /\ ~activated
    /\ activated' = TRUE
    /\ IF selected THEN Acknowledge(TRUE, controls) ELSE UNCHANGED <<uiVars, seen>>
    /\ UNCHANGED <<termVars, tabVars, bellVars, previewVars, keep, row, scenario>>
    /\ Look

WindowDeactivated ==
    /\ UiIdle /\ activated
    /\ activated' = FALSE
    /\ UNCHANGED <<termVars, tabVars, bellVars, uiVars, previewVars, keep, seen, row, scenario, looked>>

\* Focus removes the bell indicator.  The recompute this raises is absorbed by
\* the one the caller ends in.
GainFocus == focus' = TRUE /\ bell' = FALSE /\ UNCHANGED timer

\* GotFocus of a pane that becomes the active one of the tab.  The sidebar
\* acknowledges only in the window's focused tab.
ActivePaneChanges(newControls) ==
    /\ GainFocus
    /\ IF selected THEN Acknowledge(activated, newControls)
       ELSE IF bell THEN Recompute(newControls)
       ELSE pc' = "idle" /\ UNCHANGED <<next, snap, unnoticed, seen>>

\* _UpdatedSelectedTab: the tab is not focused while the tab switcher is open.
TabSelected ==
    /\ UiIdle /\ ~selected
    /\ selected' = TRUE /\ selecting' = FALSE
    /\ GainFocus \/ (focus' = FALSE /\ UNCHANGED bellVars)
    /\ Acknowledge(activated, controls)
    /\ UNCHANGED <<termVars, controls, joining, removing, closing, gone, previewVars, activated, keep, row, scenario>>
    /\ Look

\* _RemoveTab of the selected tab calls _UpdatedSelectedTab for this one while
\* no tab is selected, so that _AcknowledgeFocusedNode finds none.  Only a bell
\* that goes with the focus recomputes the row, ...
RemovalFocuses ==
    /\ "remove" \in scenario.inputs /\ UiIdle /\ ~selected /\ ~selecting
    /\ removing' = TRUE
    /\ GainFocus \/ (focus' = FALSE /\ UNCHANGED bellVars)
    /\ IF bell /\ ~bell' THEN Recompute(controls)
       ELSE pc' = "select" /\ UNCHANGED <<next, snap, unnoticed, seen>>
    /\ UNCHANGED <<termVars, controls, selected, joining, selecting, closing, gone, previewVars, activated, keep,
                   row, scenario, looked>>

\* ... before SelectedItem is set, whose SelectionChanged _removing suppresses.
RemovalSelects ==
    /\ pc = "select"
    /\ pc' = "idle" /\ removing' = FALSE /\ selected' = TRUE
    /\ unnoticed' = unnoticed \cup {"selected"}
    /\ UNCHANGED <<termVars, controls, focus, joining, selecting, closing, gone, bellVars, next, snap, previewVars,
                   activated, keep, seen, row, scenario>>
    /\ Look

\* Another tab is selected.
TabUnselected ==
    /\ UiIdle /\ selected
    /\ selected' = FALSE /\ focus' = FALSE
    /\ UNCHANGED <<termVars, controls, paneVars, bellVars, uiVars, previewVars, activated, keep, seen, row, scenario, looked>>

\* Another pane of the tab becomes the active one: ActivePaneChanged.
PaneFocused ==
    /\ UiIdle /\ selected
    /\ ActivePaneChanges(controls)
    /\ UNCHANGED <<termVars, controls, paneVars, selected, previewVars, activated, keep, row, scenario, looked>>

\* SplitPane and AttachPane announce the pane, which recomputes the row, ...
PaneJoins(p) ==
    /\ "panes" \in scenario.inputs /\ UiIdle /\ ~InTab(p) /\ p \notin gone
    /\ joining' = p
    /\ Recompute(controls)
    /\ UNCHANGED <<termVars, controls, selected, focus, selecting, removing, closing, gone, bellVars, previewVars,
                   activated, keep, row, scenario, looked>>

\* ... before it enters the pane tree as the active pane.  _MovePane then
\* selects the tab.
PaneJoined ==
    /\ pc = "join"
    /\ controls' = Append(controls, joining)
    /\ joining' = Nothing
    /\ selecting' = ~selected
    /\ ActivePaneChanges(controls')
    /\ UNCHANGED <<termVars, selected, removing, closing, gone, previewVars, activated, keep, row, scenario>>
    /\ Look

\* DetachPane moves the active pane of the focused tab elsewhere.  The last
\* pane takes its tab and row with it.
PaneLeaves(p) ==
    /\ "panes" \in scenario.inputs /\ UiIdle /\ InTab(p) /\ Len(controls) > 1 /\ selected
    /\ controls' = RemoveFirst(controls, p)
    /\ ActivePaneChanges(controls')
    /\ UNCHANGED <<termVars, paneVars, selected, previewVars, activated, keep, row, scenario, looked>>

\* Pane::Close, for example when its process exits: the content goes at once,
\* and a parent pane that is the active one is activated again.
PaneCloses(p) ==
    /\ "close" \in scenario.inputs /\ UiIdle /\ InTab(p) /\ Len(controls) > 1
    /\ controls' = RemoveFirst(controls, p)
    /\ closing' = closing + 1
    /\ gone' = gone \cup {p}
    /\ \/ selected /\ Acknowledge(activated, controls')
       \/ unnoticed' = unnoticed \cup {"closed"} /\ UNCHANGED <<pc, next, snap, seen>>
    /\ UNCHANGED <<termVars, joining, selecting, removing, selected, focus, bellVars, previewVars, activated, keep, row, scenario, looked>>

\* _CloseChild, after an animation: the sibling takes over.  It becomes the
\* active pane, unless neither of the two was.
PaneClosed ==
    /\ UiIdle /\ closing > 0
    /\ closing' = closing - 1
    /\ \/ ActivePaneChanges(controls)
       \/ Len(controls) > 1 /\ UNCHANGED <<focus, bellVars, uiVars, seen>>
    /\ UNCHANGED <<termVars, controls, joining, selecting, removing, gone, selected, previewVars, activated, keep, row, scenario, looked>>

\* The active pane gets the focus back: only a change of the bell recomputes.
FocusReturns ==
    /\ "bell" \in scenario.inputs /\ UiIdle /\ selected
    /\ GainFocus
    /\ IF bell THEN Recompute(controls) ELSE UNCHANGED <<uiVars, seen>>
    /\ UNCHANGED <<termVars, controls, paneVars, selected, previewVars, activated, keep, row, scenario, looked>>

FocusLeaves ==
    /\ "bell" \in scenario.inputs /\ UiIdle /\ focus
    /\ focus' = FALSE
    /\ UNCHANGED <<termVars, controls, paneVars, selected, bellVars, uiVars, previewVars, activated, keep, seen, row, scenario, looked>>

\* BellRequested.
BellRings ==
    /\ "bell" \in scenario.inputs /\ UiIdle
    /\ bell' = TRUE
    /\ timer' = (timer \/ focus)
    /\ IF bell THEN UNCHANGED <<uiVars, seen>> ELSE Recompute(controls)
    /\ UNCHANGED <<termVars, tabVars, previewVars, activated, keep, row, scenario, looked>>

MutTickIsSilent ==
    /\ UiIdle /\ timer
    /\ timer' = FALSE /\ bell' = FALSE
    /\ UNCHANGED <<uiVars, seen, termVars, tabVars, previewVars, activated, keep, row, scenario, looked>>

\* _BellIndicatorTimerTick.
BellTimerTicks ==
    /\ UiIdle /\ timer
    /\ timer' = FALSE /\ bell' = FALSE
    /\ IF bell THEN Recompute(controls) ELSE UNCHANGED <<uiVars, seen>>
    /\ UNCHANGED <<termVars, tabVars, previewVars, activated, keep, row, scenario, looked>>

\* _PreviewNodeState reads a baseline from every control, then shows it.
PreviewChosen ==
    /\ "preview" \in scenario.inputs /\ UiIdle
    /\ pc' = "baseline" /\ next' = 1
    /\ baseline' = [p \in Panes |-> 0]
    /\ UNCHANGED <<termVars, tabVars, bellVars, snap, unnoticed, previewing, activated, keep, seen, row, scenario, looked>>

PreviewReadsPane ==
    /\ pc = "baseline"
    /\ baseline' = [baseline EXCEPT ![controls[next]] = MaxRecordRevision(term[controls[next]].records)]
    /\ previewing' = (previewing \/ next = Len(controls))
    /\ next' = IF next = Len(controls) THEN 1 ELSE next + 1
    /\ pc' = IF next = Len(controls) THEN "idle" ELSE "baseline"
    /\ UNCHANGED <<termVars, tabVars, bellVars, snap, unnoticed, activated, keep, seen, row, scenario, looked>>

PreviewCleared ==
    /\ UiIdle /\ previewing
    /\ previewing' = FALSE
    /\ UNCHANGED <<termVars, tabVars, bellVars, uiVars, baseline, activated, keep, seen, row, scenario, looked>>

-----------------------------------------------------------------------------

\* A terminal elsewhere matters only if it can move here.
PaneStep ==
    \E p \in {x \in Panes : InTab(x) \/ "panes" \in scenario.inputs} :
      \/ \E id \in scenario.ids, report \in scenario.reports : PaneReports(p, id, report)
      \/ PaneForgets(p)
      \/ PaneRuns(p)

UiStep == AcknowledgesPane \/ ReadsRecords \/ ReadsRunning \/ Applies \/ PaneJoined \/ RemovalSelects \/ PreviewReadsPane

UiEvent ==
    \/ StateChanged \/ TitleChanges \/ SettingChanges
    \/ \E p \in Panes : PaneJoins(p) \/ PaneLeaves(p) \/ PaneCloses(p)
    \/ PaneClosed
    \/ WindowActivated \/ WindowDeactivated
    \/ TabSelected \/ RemovalFocuses \/ TabUnselected \/ PaneFocused \/ FocusReturns \/ FocusLeaves
    \/ BellRings \/ BellTimerTicks
    \/ PreviewChosen \/ PreviewCleared

Next == PaneStep \/ UiStep \/ UiEvent

Spec == Init /\ [][Next]_vars

-----------------------------------------------------------------------------
(* Properties *)

\* No recompute is due or under way, no pane on its way in or out.
Settled == UiIdle /\ ~due /\ ~selecting /\ closing = 0

CurrentInputs == [i \in DOMAIN controls |->
    InputOf(controls[i], term[controls[i]].records, term[controls[i]].running)]

\* A settled row shows what its tab is in: every event that changes an input
\* of Derive leads to a recompute.
RowIsCurrent ==
    Settled =>
      LET result == Derive(CurrentInputs, bell, keep)
      IN  \A f \in DOMAIN result : row[f] = result[f]

\* The same but for panes that close in the background.
RowIsCurrentButForClosed == "closed" \in unnoticed \/ RowIsCurrent

\* A settled row shows the strongest state of any of its panes, computed
\* without the scan.
StrongestShown ==
    (Settled /\ "closed" \notin unnoticed) => row.state = Strongest(CurrentInputs, bell)

\* Its message comes from a report in the shown state: from that of a root
\* program if there is one, and from none that its own terminal has already
\* replaced by a newer one.
MessageFromPreferred ==
    (Settled /\ "closed" \notin unnoticed /\ row.message \notin {Nothing, <<"bell">>}) =>
      \E x \in AllRecords(CurrentInputs) :
        row.message = ReportKey(x[1], x[2]) /\ GoesFirst(CurrentInputs, x, row.state)

\* When the user sees the reports of a row, keep mode goes on with the report
\* whose age the row showed, unless an older one is still kept.
AgeSurvivesSeeing ==
    LET before == Derive(CurrentInputs, bell, TRUE)
        after  == Derive(AllSeen(CurrentInputs), bell, TRUE)
    IN  (/\ Settled
         /\ before.reportKey # Nothing
         /\ after.state \in {"idle", "running"}
         /\ Kept(CurrentInputs).record = Nothing)
          => after.reportKey = before.reportKey

\* A report counts as seen only if the user could see its pane since: a tab
\* in the background, or in a background window, marks nothing.
SeenWasLooked == \A p \in Panes : seen[p] <= looked[p]

\* Hence a done or error that nobody has looked at is on the row.
AttentionKept ==
    Settled =>
      \A p \in Range(controls) : \A id \in DOMAIN term[p].records :
        LET r == term[p].records[id]
        IN  (r.revision > looked[p] /\ r.state \in {"done", "error"})
              => Rank(row.state) >= Rank("done-unseen")

\* What the user looks at does not ask for attention: only a program that
\* waits for an answer, or the bell, does.  The one tab that does is the tab
\* that a removal selected, until its row is next recomputed.
LookedIsSeenButForRemoval ==
    (Settled /\ Looking /\ ~bell /\ "selected" \notin unnoticed) => row.state \notin {"error", "done-unseen"}

\* A preview is never mistaken for what a program said: no report is newer
\* than the preview that hides it.
PreviewEndsWithReport ==
    (Settled /\ previewing) =>
      \A p \in Range(controls) : MaxRecordRevision(term[p].records) <= baseline[p]
=============================================================================
