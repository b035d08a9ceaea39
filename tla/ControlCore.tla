----------------------------- MODULE ControlCore -----------------------------
(***************************************************************************)
(* One terminal control: the record store, the threads that change it and  *)
(* the UI thread that reads it (ControlCore.cpp, Tab.cpp, and the restart  *)
(* path of TerminalPage.cpp).                                              *)
(*                                                                         *)
(* Threads: "output" runs _connectionOutputHandler, "state" runs the       *)
(* connection's StateChanged handler, "ui" runs the dispatcher.  A step    *)
(* ends where another thread can observe the difference: taking and        *)
(* releasing the terminal lock, each access to an atomic flag, each post   *)
(* to the dispatcher queue.                                                *)
(***************************************************************************)
EXTENDS ProgramStatusStore

CONSTANTS
    Overlap,      \* may StateChanged be raised while an output handler runs?
                  \* ITerminalConnection promises no order; ConptyConnection
                  \* raises both from its one output thread.
    RestartLive,  \* is the restartConnection action used on a live connection?
    MaxRestarts,  \* bound on restarts
    MaxQueued     \* no new output or user request beyond this queue length

ASSUME FlagsAssumption == Overlap \in BOOLEAN /\ RestartLive \in BOOLEAN
ASSUME ControlBoundsAssumption == MaxRestarts \in Nat /\ MaxQueued \in Nat

VARIABLES
    pc,          \* where each thread is
    lock,        \* the terminal lock, held across steps only by "output"
    conn,        \* the connection: "open", "closed" (State() >= Closed)
    subscribed,  \* are our handlers still attached to the connection?
    ended,       \* _connectionEnded
    closing,     \* _closing
    queued,      \* dispatcher items that will raise AxanSessionStateChanged
    view,        \* the records the row was last derived from
    viewRunning, \* the running flag the row was last derived from
    uiOp,        \* the user request the UI thread serves
    generation,  \* which connection this is, counted from 0
    reporter     \* history: the generation whose output last wrote an id

threadVars == <<pc, lock>>
connVars == <<conn, subscribed, ended, closing, generation>>
rowVars == <<view, viewRunning>>
vars == <<storeVars, threadVars, connVars, queued, rowVars, uiOp, reporter>>

Threads == {"output", "state", "ui"}

\* The steps of _raiseProgramStatusChangedIfPending, then of
\* _raiseShellCommandChangedIfPending.
RaiseSteps == {"exchangeStatus", "postStatus", "exchangeShell", "postShell"}

OutputSteps == {"idle", "enter", "write"} \cup RaiseSteps
StateSteps == {"idle", "raise", "setEnded", "drop", "postState"} \cup RaiseSteps
UiSteps == {"idle", "readRecords", "readRunning", "revoke", "close", "closed"} \cup RaiseSteps

TypeOK ==
    /\ StoreTypeOK
    /\ pc \in [Threads -> OutputSteps \cup StateSteps \cup UiSteps]
    /\ pc["output"] \in OutputSteps /\ pc["state"] \in StateSteps /\ pc["ui"] \in UiSteps
    /\ lock \in {"free", "output"}
    /\ conn \in {"open", "closed"}
    /\ subscribed \in BOOLEAN
    /\ ended \in BOOLEAN
    /\ closing \in BOOLEAN
    /\ queued \in Nat
    /\ IsRecordMap(view)
    /\ viewRunning \in BOOLEAN
    /\ uiOp \in {"none", "enable", "restart", "shutdown"}
    /\ generation \in Nat
    /\ reporter \in [Ids -> Nat]

Init ==
    /\ StoreInit
    /\ pc = [t \in Threads |-> "idle"]
    /\ lock = "free"
    /\ conn = "open"
    /\ subscribed = TRUE
    /\ ended = FALSE
    /\ closing = FALSE
    /\ queued = 0
    /\ view = NoRecords
    /\ viewRunning = FALSE
    /\ uiOp = "none"
    /\ generation = 0
    /\ reporter = [id \in Ids |-> 0]

Goto(t, step) == pc' = [pc EXCEPT ![t] = step]

\* Goto that ends the UI thread's request when it returns to the dispatcher.
Return(t, step) ==
    /\ Goto(t, step)
    /\ uiOp' = IF t = "ui" /\ step = "idle" THEN "none" ELSE uiOp

-----------------------------------------------------------------------------
(* Raising the events, the same code on all three threads. *)

\* Where a thread goes once it has raised both events.
AfterRaise(t) ==
    CASE t = "output" -> "idle"
      [] t = "state"  -> "postState"
      [] t = "ui"     -> IF uiOp = "restart" THEN "revoke" ELSE "idle"

\* ProgramStatusEnabled raises only the status event.
AfterStatus(t) == IF t = "ui" /\ uiOp = "enable" THEN "idle" ELSE "exchangeShell"

ExchangeStatus(t) ==
    /\ pc[t] = "exchangeStatus"
    /\ ExchangeStatusPending
    /\ Return(t, IF statusPending THEN "postStatus" ELSE AfterStatus(t))
    /\ UNCHANGED <<lock, connVars, queued, rowVars, reporter>>

\* Nobody is subscribed to the event.
MutPostNothing(t) ==
    /\ pc[t] = "postStatus"
    /\ Return(t, AfterStatus(t))
    /\ UNCHANGED <<storeVars, lock, connVars, queued, rowVars, reporter>>

\* The event reaches Tab's raiseOnUi coroutine, which queues itself.
PostStatus(t) ==
    /\ pc[t] = "postStatus"
    /\ queued' = queued + 1
    /\ Return(t, AfterStatus(t))
    /\ UNCHANGED <<storeVars, lock, connVars, rowVars, reporter>>

\* One flag for both events: taking it for the second loses a new first.
MutSharedFlag(t) ==
    /\ pc[t] = "exchangeShell"
    /\ shellPending' = FALSE /\ statusPending' = FALSE
    /\ UNCHANGED <<enabled, records, revision, running>>
    /\ Return(t, IF shellPending THEN "postShell" ELSE AfterRaise(t))
    /\ UNCHANGED <<lock, connVars, queued, rowVars, reporter>>

ExchangeShell(t) ==
    /\ pc[t] = "exchangeShell"
    /\ ExchangeShellPending
    /\ Return(t, IF shellPending THEN "postShell" ELSE AfterRaise(t))
    /\ UNCHANGED <<lock, connVars, queued, rowVars, reporter>>

PostShell(t) ==
    /\ pc[t] = "postShell"
    /\ queued' = queued + 1
    /\ Return(t, AfterRaise(t))
    /\ UNCHANGED <<storeVars, lock, connVars, rowVars, reporter>>

Raise(t) == ExchangeStatus(t) \/ PostStatus(t) \/ ExchangeShell(t) \/ PostShell(t)

-----------------------------------------------------------------------------
(* The output thread: _connectionOutputHandler. *)

\* TerminalOutput.raise calls the handler: from here a revoke comes too late.
\* ConPTY outputs nothing while its own thread is in the StateChanged handler.
OutputArrives ==
    /\ pc["output"] = "idle"
    /\ subscribed
    /\ queued <= MaxQueued
    /\ Overlap \/ pc["state"] = "idle"
    /\ Goto("output", "enter")
    /\ UNCHANGED <<storeVars, lock, connVars, queued, rowVars, uiOp, reporter>>

OutputLocks ==
    /\ pc["output"] = "enter"
    /\ lock = "free"
    /\ lock' = "output"
    /\ Goto("output", "write")
    /\ UNCHANGED <<storeVars, connVars, queued, rowVars, uiOp, reporter>>

\* Terminal::Write: any number of control sequences, under the lock.
OutputWrites ==
    /\ pc["output"] = "write"
    /\ ControlSequence
    /\ reporter' = [id \in Ids |-> IF id \in DOMAIN records' /\ records'[id].revision > revision
                                   THEN generation ELSE reporter[id]]
    /\ UNCHANGED <<threadVars, connVars, queued, rowVars, uiOp>>

MutNoRecheckAfterClose ==
    /\ pc["output"] = "write"
    /\ UNCHANGED storeVars
    /\ lock' = "free"
    /\ Goto("output", "exchangeStatus")
    /\ UNCHANGED <<connVars, queued, rowVars, uiOp, reporter>>

\* The rest of the critical section: the drop is applied again to output that
\* arrives after the connection ended.
OutputUnlocks ==
    /\ pc["output"] = "write"
    /\ IF ended THEN ConnectionGone ELSE UNCHANGED storeVars
    /\ lock' = "free"
    /\ Goto("output", "exchangeStatus")
    /\ UNCHANGED <<connVars, queued, rowVars, uiOp, reporter>>

\* The exception the handler swallows: Write throws while the control closes.
OutputThrows ==
    /\ pc["output"] = "write"
    /\ closing
    /\ lock' = "free"
    /\ Goto("output", "idle")
    /\ UNCHANGED <<storeVars, connVars, queued, rowVars, uiOp, reporter>>

-----------------------------------------------------------------------------
(* The connection ends: its StateChanged handler. *)

\* The process exits; the connection's State() is Closed before it raises.
ConnectionCloses ==
    /\ conn = "open"
    /\ pc["state"] = "idle"
    /\ pc["ui"] # "closed"
    /\ Overlap \/ pc["output"] = "idle"
    /\ conn' = "closed"
    /\ Goto("state", "raise")
    /\ UNCHANGED <<storeVars, lock, subscribed, ended, closing, generation, queued, rowVars, uiOp, reporter>>

\* StateChanged.raise: nobody is called once the handlers are revoked.
StateRaised ==
    /\ pc["state"] = "raise"
    /\ Goto("state", IF subscribed THEN "setEnded" ELSE "idle")
    /\ UNCHANGED <<storeVars, lock, connVars, queued, rowVars, uiOp, reporter>>

StateSetsEnded ==
    /\ pc["state"] = "setEnded"
    /\ ended' = TRUE
    /\ Goto("state", "drop")
    /\ UNCHANGED <<storeVars, lock, conn, subscribed, closing, generation, queued, rowVars, uiOp, reporter>>

StateDrops ==
    /\ pc["state"] = "drop"
    /\ lock = "free"
    /\ ConnectionGone
    /\ Goto("state", "exchangeStatus")
    /\ UNCHANGED <<lock, connVars, queued, rowVars, uiOp, reporter>>

\* ConnectionStateChanged.raise, which Tab also turns into a queued recompute.
StatePosts ==
    /\ pc["state"] = "postState"
    /\ queued' = queued + 1
    /\ Goto("state", "idle")
    /\ UNCHANGED <<storeVars, lock, connVars, rowVars, uiOp, reporter>>

-----------------------------------------------------------------------------
(* The UI thread. *)

UiIdle == pc["ui"] = "idle"

\* A queued item runs: AxanSessionStateChanged, then _RecomputeNodeState.
UiTakes ==
    /\ UiIdle
    /\ queued > 0
    /\ queued' = queued - 1
    /\ Goto("ui", "readRecords")
    /\ UNCHANGED <<storeVars, lock, connVars, rowVars, uiOp, reporter>>

\* _RecomputeNodeState also runs on its own: a focus change, a pane that joins,
\* a settings reload.
UiRecomputes ==
    /\ UiIdle
    /\ Goto("ui", "readRecords")
    /\ UNCHANGED <<storeVars, lock, connVars, queued, rowVars, uiOp, reporter>>

\* ProgramStatusRecords: one snapshot under the read lock.
UiReadsRecords ==
    /\ pc["ui"] = "readRecords"
    /\ lock = "free"
    /\ view' = records
    /\ Goto("ui", "readRunning")
    /\ UNCHANGED <<storeVars, lock, connVars, queued, viewRunning, uiOp, reporter>>

\* ShellCommandRunning: a second read, under the lock taken again.
UiReadsRunning ==
    /\ pc["ui"] = "readRunning"
    /\ lock = "free"
    /\ viewRunning' = running
    /\ Goto("ui", "idle")
    /\ UNCHANGED <<storeVars, lock, connVars, queued, view, uiOp, reporter>>

\* The setter of ProgramStatusEnabled.
UiSetsEnabled(on) ==
    /\ UiIdle
    /\ queued <= MaxQueued
    /\ lock = "free"
    /\ SetEnabled(on)
    /\ uiOp' = "enable"
    /\ Goto("ui", "exchangeStatus")
    /\ UNCHANGED <<lock, connVars, queued, rowVars, reporter>>

\* _restartPaneConnection: HardResetWithoutErase first.  Enter restarts a
\* connection that has ended; the restartConnection action restarts any.
UiResets ==
    /\ UiIdle
    /\ queued <= MaxQueued
    /\ generation < MaxRestarts
    /\ RestartLive \/ conn = "closed"
    /\ lock = "free"
    /\ ProgramStatusReset
    /\ uiOp' = "restart"
    /\ Goto("ui", "exchangeStatus")
    /\ UNCHANGED <<lock, connVars, queued, rowVars, reporter>>

\* Close: the pane is closed for good.
UiShutsDown ==
    /\ UiIdle
    /\ closing' = TRUE
    /\ uiOp' = "shutdown"
    /\ Goto("ui", "revoke")
    /\ UNCHANGED <<storeVars, lock, conn, subscribed, ended, generation, queued, rowVars, reporter>>

\* The handlers stay attached: a program that keeps printing holds up Close.
MutKeepsHandlers ==
    /\ pc["ui"] = "revoke"
    /\ Goto("ui", "close")
    /\ UNCHANGED <<storeVars, lock, connVars, queued, rowVars, uiOp, reporter>>

\* _closeConnection revokes both handlers ...
UiRevokes ==
    /\ pc["ui"] = "revoke"
    /\ subscribed' = FALSE
    /\ Goto("ui", "close")
    /\ UNCHANGED <<storeVars, lock, conn, ended, closing, generation, queued, rowVars, uiOp, reporter>>

\* ... and Close() on the connection waits for calls already under way.  Then
\* the new connection takes over, and ConnectionStateChanged is raised: a
\* fresh connection's state differs from that of the one it replaces.
UiReconnects ==
    /\ pc["ui"] = "close"
    /\ uiOp = "restart"
    /\ pc["output"] = "idle" /\ pc["state"] = "idle"
    /\ conn' = "open"
    /\ subscribed' = TRUE
    /\ ended' = FALSE
    /\ generation' = generation + 1
    /\ queued' = queued + 1
    /\ Return("ui", "idle")
    /\ UNCHANGED <<storeVars, lock, closing, rowVars, reporter>>

UiClosed ==
    /\ pc["ui"] = "close"
    /\ uiOp = "shutdown"
    /\ pc["output"] = "idle" /\ pc["state"] = "idle"
    /\ Goto("ui", "closed")
    /\ UNCHANGED <<storeVars, lock, connVars, queued, rowVars, uiOp, reporter>>

-----------------------------------------------------------------------------

OutputNext == OutputLocks \/ OutputWrites \/ OutputUnlocks \/ OutputThrows \/ Raise("output")

StateNext == StateRaised \/ StateSetsEnded \/ StateDrops \/ StatePosts \/ Raise("state")

\* Work the UI thread has already begun, or that waits in its queue.
UiWork == UiTakes \/ UiReadsRecords \/ UiReadsRunning \/ UiRevokes \/ UiReconnects \/ UiClosed \/ Raise("ui")

\* What the user asks for.
UiRequest == (\E on \in BOOLEAN : UiSetsEnabled(on)) \/ UiRecomputes \/ UiResets \/ UiShutsDown

\* A closed pane does nothing more.
Terminated == pc["ui"] = "closed" /\ UNCHANGED vars

Next ==
    \/ OutputArrives \/ OutputNext
    \/ ConnectionCloses \/ StateNext
    \/ UiWork \/ UiRequest
    \/ Terminated

Spec == Init /\ [][Next]_vars

(***************************************************************************)
(* Fairness.  Each thread keeps running; a handler that has the lock       *)
(* finishes its chunk.  The lock is a ticket lock, so a thread that waits  *)
(* for it is served in turn: strong fairness for the steps that take it.   *)
(* Nothing forces output, an exit, or a user request to happen.            *)
(***************************************************************************)
Fairness ==
    /\ SF_vars(OutputLocks)
    /\ SF_vars(StateDrops)
    /\ SF_vars(UiReadsRecords)
    /\ SF_vars(UiReadsRunning)
    /\ WF_vars(OutputUnlocks \/ OutputThrows)
    /\ WF_vars(Raise("output"))
    /\ WF_vars(StateRaised \/ StateSetsEnded \/ StatePosts \/ Raise("state"))
    /\ WF_vars(UiTakes \/ UiRevokes \/ UiReconnects \/ UiClosed \/ Raise("ui"))

FairSpec == Spec /\ Fairness

-----------------------------------------------------------------------------
(* Properties *)

\* Something still to come will make the UI thread read the records again.
RecordsReadDue ==
    \/ statusPending
    \/ \E t \in Threads : pc[t] = "postStatus"
    \/ queued > 0
    \/ pc["ui"] = "readRecords"

RunningReadDue ==
    \/ shellPending
    \/ \E t \in Threads : pc[t] = "postShell"
    \/ queued > 0
    \/ pc["ui"] \in {"readRecords", "readRunning"}

\* A row that differs from its terminal is about to be derived again: the
\* deferred flag, the event and the queued item never all get lost between
\* the lock and the dispatcher.
NoLostUpdate ==
    /\ view # records => RecordsReadDue
    /\ viewRunning # running => RunningReadDue

\* A set flag belongs to a thread that has yet to take it: no change waits for
\* the next, unrelated chunk of output to be raised.
PendingIsOwned ==
    ~closing =>
      /\ statusPending => \/ pc["output"] = "write"
                          \/ \E t \in Threads : pc[t] = "exchangeStatus"
      /\ shellPending => \/ pc["output"] = "write"
                         \/ \E t \in Threads :
                              /\ pc[t] \in {"exchangeStatus", "postStatus", "exchangeShell"}
                              /\ ~(t = "ui" /\ uiOp = "enable")

NoLiveRecords == \A id \in DOMAIN records : ~IsLive(records[id].state)

\* Once the connection has ended and its handler has dropped the live records,
\* no late output brings one back, nor the running flag.
EndedStaysEnded ==
    (ended /\ pc["state"] # "drop" /\ lock = "free" /\ ~closing)
      => NoLiveRecords /\ ~running

\* A working or blocked record was reported by the process that is running
\* now: a restart leaves nothing of the previous one behind.
LiveIsCurrent ==
    \A id \in DOMAIN records :
      IsLive(records[id].state) => reporter[id] = generation

\* A row that has fallen behind catches up, unless its pane is being closed.
RowCatchesUp ==
    /\ view # records ~> (view = records \/ closing)
    /\ viewRunning # running ~> (viewRunning = running \/ closing)

\* What the row shows settles on what the terminal holds once the program and
\* the user stop making changes.
RowSettles ==
    <>[](pc["output"] = "idle" /\ pc["state"] = "idle" /\ uiOp = "none")
      => <>[](view = records /\ viewRunning = running)

\* The control implements the feed the sidebar relies on.
Feed == INSTANCE StatusFeed WITH
    source <- records, view <- view, stale <- RecordsReadDue, open <- pc["ui"] # "closed"

FeedSpec == Feed!FeedSpec

\* Closing a pane and restarting a connection wait for the handlers, and the
\* handlers never wait for the UI thread: both come to an end.
CloseEnds == pc["ui"] = "close" ~> pc["ui"] \in {"idle", "closed"}
=============================================================================
