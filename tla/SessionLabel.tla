----------------------------- MODULE SessionLabel -----------------------------
(***************************************************************************)
(* The text of one sidebar row.  The row's label is expanded from the      *)
(* node's template and from the working directory and the title of the     *)
(* tab's ACTIVE terminal.  The inputs are gathered on the UI thread, the   *)
(* expansion runs on a background thread and its result is applied back on *)
(* the UI thread, so several expansions can be under way at once and end   *)
(* in any order.  Recomputations are started by the tab's title, by the    *)
(* debounced OutputIdle of the active control, by a change of active pane  *)
(* and by the Save of the node editor (AxanSessionTreeView.cpp).           *)
(*                                                                         *)
(* Titles, directories and templates are version numbers: every change     *)
(* makes a value never seen before.  An expanded label is the record of    *)
(* the inputs it was expanded from.                                        *)
(***************************************************************************)
EXTENDS Naturals, FiniteSets

CONSTANTS
    Panes,      \* the tab's terminals
    MaxInputs   \* bound on output chunks, focus changes, renames and saves

ASSUME PanesAssumption == IsFiniteSet(Panes) /\ Panes # {}

ASSUME MaxInputsAssumption == MaxInputs \in Nat

NoPane == "no pane"

ASSUME NoPaneAssumption == NoPane \notin Panes

VARIABLES
    title, cwd,     \* [Panes -> version]: what each terminal last reported
    writing,        \* panes whose output thread is between Write and outputIdle()
    armed,          \* panes whose OutputIdle timer is running
    queued,         \* [Panes -> number of OutputIdle raises posted to the UI thread]
    titleDue,       \* panes whose throttled TitleChanged call is still to run
    active,         \* the tab's active pane
    runtimeText,    \* the tab was renamed: its own text hides the terminal's title
    tabTitle,       \* the tab's Title property
    hooked,         \* the pane whose OutputIdle the node listens to
    alive,          \* the node is in the tree (its subscriptions are not revoked)
    template,       \* SessionNodeViewModel::LabelTemplate
    generation,     \* SessionNodeViewModel::LabelGeneration
    expanding,      \* recomputations on a background thread
    expanded,       \* recomputations waiting for the UI thread
    label,          \* SessionNodeViewModel::Label
    inputs          \* the number of inputs so far, for the bound

terminalVars == <<title, cwd, writing>>
tabVars == <<active, runtimeText, tabTitle>>
nodeVars == <<hooked, alive, template>>
labelVars == <<generation, expanding, expanded, label>>
vars == <<terminalVars, armed, queued, titleDue, tabVars, nodeVars, labelVars, inputs>>

Context == [template : Nat, pane : Panes, title : Nat, cwd : Nat]

Recomputation == [generation : Nat, context : Context]

(* The context of a template and of a tab's active control. *)
Gathered(t, p) == [template |-> t, pane |-> p, title |-> title[p], cwd |-> cwd[p]]

_GatherSessionLabelContext == Gathered(template, active)

-------------------------------------------------------------------------------
(* The n recomputations one UI step starts: each reads the template and the
   active control of the new state and takes the next generation.  A node that
   is gone starts none. *)
Recompute(n) ==
    /\ generation' = generation + n
    /\ expanding' = expanding \cup
          [generation : (generation + 1)..(generation + n), context : {Gathered(template', active')}]
    /\ UNCHANGED <<expanded, label>>

RecomputeIf(condition) ==
    IF condition /\ alive THEN Recompute(1) ELSE UNCHANGED labelVars

(* Tab::_GetActiveTitle: the tab's own text, else the active pane's title. *)
ActiveTitle(p, renamed) == IF renamed THEN <<"text">> ELSE <<"title", p, title[p]>>

-------------------------------------------------------------------------------
(* The terminals. *)

(* ControlCore::_connectionOutputHandler: a chunk is written under the
   terminal's lock; it may set the working directory, the title (whose event
   calls the tab's throttled handler), both or neither. *)
Write(p, changes) ==
    /\ p \notin writing /\ inputs < MaxInputs
    /\ title' = [title EXCEPT ![p] = IF "title" \in changes THEN @ + 1 ELSE @]
    /\ cwd' = [cwd EXCEPT ![p] = IF "cwd" \in changes THEN @ + 1 ELSE @]
    /\ titleDue' = IF "title" \in changes THEN titleDue \cup {p} ELSE titleDue
    /\ writing' = writing \cup {p}
    /\ inputs' = inputs + 1
    /\ UNCHANGED <<armed, queued, tabVars, nodeVars, labelVars>>

(* ... and the chunk's last call starts or restarts the debounce. *)
OutputIdle(p) ==
    /\ p \in writing
    /\ writing' = writing \ {p}
    /\ armed' = armed \cup {p}
    /\ UNCHANGED <<title, cwd, queued, titleDue, tabVars, nodeVars, labelVars, inputs>>

(* 100 ms without output: the timer thread posts the event to the UI thread. *)
TimerFires(p) ==
    /\ p \in armed
    /\ armed' = armed \ {p}
    /\ queued' = [queued EXCEPT ![p] = @ + 1]
    /\ UNCHANGED <<terminalVars, titleDue, tabVars, nodeVars, labelVars, inputs>>

-------------------------------------------------------------------------------
(* The UI thread. *)

(* ControlCore raises OutputIdle, TermControl re-raises it and the node hears
   it when this is the control it hooked. *)
IdleRaised(p) ==
    /\ queued[p] > 0
    /\ queued' = [queued EXCEPT ![p] = @ - 1]
    /\ UNCHANGED <<terminalVars, armed, titleDue, tabVars, nodeVars, inputs>>
    /\ RecomputeIf(hooked = p)

(* Tab::UpdateTitle, run by the throttle of a pane; Title raises
   PropertyChanged only when its value changes. *)
TitleUpdates(p) ==
    /\ p \in titleDue
    /\ titleDue' = titleDue \ {p}
    /\ tabTitle' = ActiveTitle(active, runtimeText)
    /\ UNCHANGED <<terminalVars, armed, queued, active, runtimeText, nodeVars, inputs>>
    /\ RecomputeIf(tabTitle' # tabTitle)

(* Tab::SetTabText and ResetTabText. *)
RenameTab ==
    /\ inputs < MaxInputs
    /\ inputs' = inputs + 1
    /\ runtimeText' = ~runtimeText
    /\ tabTitle' = ActiveTitle(active, ~runtimeText)
    /\ UNCHANGED <<terminalVars, armed, queued, titleDue, active, nodeVars>>
    /\ RecomputeIf(tabTitle' # tabTitle)

(* Mutant: the subscription stays with the control the node was created with. *)
MutStrandsHook(p) ==
    /\ p # active /\ inputs < MaxInputs
    /\ inputs' = inputs + 1
    /\ active' = p
    /\ tabTitle' = ActiveTitle(p, runtimeText)
    /\ UNCHANGED <<hooked, terminalVars, armed, queued, titleDue, runtimeText, alive, template>>
    /\ IF alive THEN Recompute(IF tabTitle' # tabTitle THEN 2 ELSE 1) ELSE UNCHANGED labelVars

(* Tab::_UpdateActivePane: the tab's title follows the new pane (a first
   recomputation when it changes), then ActivePaneChanged moves the OutputIdle
   subscription to the new control and recomputes. *)
FocusPane(p) ==
    /\ p # active /\ inputs < MaxInputs
    /\ inputs' = inputs + 1
    /\ active' = p
    /\ tabTitle' = ActiveTitle(p, runtimeText)
    /\ hooked' = IF alive THEN p ELSE hooked
    /\ UNCHANGED <<terminalVars, armed, queued, titleDue, runtimeText, alive, template>>
    /\ IF alive THEN Recompute(IF tabTitle' # tabTitle THEN 2 ELSE 1) ELSE UNCHANGED labelVars

(* The node editor's Save: the template is stored, then recomputed. *)
SaveEdit ==
    /\ alive /\ inputs < MaxInputs
    /\ inputs' = inputs + 1
    /\ template' = template + 1
    /\ UNCHANGED <<terminalVars, armed, queued, titleDue, tabVars, hooked, alive>>
    /\ Recompute(1)

(* _RemoveNodeSelfHealing: every subscription is revoked. *)
RemoveNode ==
    /\ alive
    /\ alive' = FALSE
    /\ hooked' = NoPane
    /\ UNCHANGED <<terminalVars, armed, queued, titleDue, tabVars, template, labelVars, inputs>>

-------------------------------------------------------------------------------
(* The two hops of _RecomputeSessionLabelAsync. *)

ComputeLabel(r) ==
    /\ r \in expanding
    /\ expanding' = expanding \ {r}
    /\ expanded' = expanded \cup {r}
    /\ UNCHANGED <<terminalVars, armed, queued, titleDue, tabVars, nodeVars, generation, label, inputs>>

(* Mutant: every result is applied. *)
MutAppliesStale(r) ==
    /\ r \in expanded
    /\ expanded' = expanded \ {r}
    /\ label' = IF alive THEN r.context ELSE label
    /\ UNCHANGED <<terminalVars, armed, queued, titleDue, tabVars, nodeVars, generation, expanding, inputs>>

(* The result is dropped unless the node lives and no later recomputation started. *)
ApplyLabel(r) ==
    /\ r \in expanded
    /\ expanded' = expanded \ {r}
    /\ label' = IF alive /\ r.generation = generation THEN r.context ELSE label
    /\ UNCHANGED <<terminalVars, armed, queued, titleDue, tabVars, nodeVars, generation, expanding, inputs>>

-------------------------------------------------------------------------------
(* _CreateSessionNode: the placeholder is the default template's expansion
   (template 0), and a first recomputation is started. *)
Init ==
    /\ title = [p \in Panes |-> 0] /\ cwd = [p \in Panes |-> 0]
    /\ writing = {} /\ armed = {} /\ titleDue = {}
    /\ queued = [p \in Panes |-> 0]
    /\ active \in Panes /\ hooked = active
    /\ runtimeText \in BOOLEAN /\ tabTitle = ActiveTitle(active, runtimeText)
    /\ alive = TRUE
    /\ template = 1
    /\ generation = 1
    /\ expanding = {[generation |-> 1, context |-> _GatherSessionLabelContext]}
    /\ expanded = {}
    /\ label = Gathered(0, active)
    /\ inputs = 0

Next ==
    \/ \E p \in Panes :
          \/ \E changes \in SUBSET {"title", "cwd"} : Write(p, changes)
          \/ OutputIdle(p) \/ TimerFires(p) \/ IdleRaised(p) \/ TitleUpdates(p)
          \/ FocusPane(p)
    \/ RenameTab \/ SaveEdit \/ RemoveNode
    \/ \E r \in expanding : ComputeLabel(r)
    \/ \E r \in expanded : ApplyLabel(r)

(* Every thread keeps running: a chunk that was written is followed by its last
   call, timers fire, the dispatcher drains its queue, and an expansion ends
   (a filesystem walk may be slow, never endless). *)
Fairness ==
    /\ \A p \in Panes : /\ WF_vars(OutputIdle(p)) /\ WF_vars(TimerFires(p))
                        /\ WF_vars(IdleRaised(p)) /\ WF_vars(TitleUpdates(p))
    /\ WF_vars(\E r \in expanding : ComputeLabel(r))
    /\ WF_vars(\E r \in expanded : ApplyLabel(r))

Spec == Init /\ [][Next]_vars

FairSpec == Spec /\ Fairness

-------------------------------------------------------------------------------
(* The type of the row's state: the OutputIdle subscription is always to the
   tab's active control, and gone with the node. *)
LabelTypeOK ==
    /\ title \in [Panes -> Nat] /\ cwd \in [Panes -> Nat] /\ queued \in [Panes -> Nat]
    /\ writing \subseteq Panes /\ armed \subseteq Panes /\ titleDue \subseteq Panes
    /\ active \in Panes /\ runtimeText \in BOOLEAN /\ alive \in BOOLEAN
    /\ hooked = IF alive THEN active ELSE NoPane
    /\ template \in Nat /\ generation \in Nat /\ inputs \in Nat
    /\ expanding \subseteq Recomputation /\ expanded \subseteq Recomputation
    /\ label \in Context

NotOlder(old, new) ==
    /\ old.template =< new.template
    /\ old.pane = new.pane => old.title =< new.title /\ old.cwd =< new.cwd

(* A label never goes back: the text shown next is never expanded from an older
   template, or from an older title or directory of the same pane, than the
   text it replaces, whatever the order in which the background expansions
   end ("a stale (slower) expansion never overwrites a newer label"). *)
LabelNeverReverts == [][NotOlder(label, label')]_vars

(* Once the inputs stop changing, the row ends up showing the label of the
   current template and of the ACTIVE pane's title and directory, for a tab
   that was renamed too (its Title no longer changes with the terminal's). *)
LabelSettles == <>[](alive => label = _GatherSessionLabelContext)
===============================================================================
