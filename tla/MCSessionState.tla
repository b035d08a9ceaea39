---------------------------- MODULE MCSessionState ----------------------------
(***************************************************************************)
(* A tab of two terminals whose programs report one after the other.  Each *)
(* terminal numbers its own reports; the history writes keeps the order in *)
(* which they really came, which is what docs/program-status-osc-7501.md   *)
(* speaks of.                                                              *)
(***************************************************************************)
EXTENDS SessionState

CONSTANTS
    TaskIds,    \* record ids, the root id being 0
    MaxWrites   \* bound on the reports of the tab

VARIABLES
    tab,     \* the panes as Derive gets them
    writes   \* history: who reported, <<pane, id>>, in order

SilentPane(pane) == [pane |-> pane, records |-> <<>>, running |-> FALSE]

TabInit == tab = <<SilentPane("p"), SilentPane("q")>> /\ writes = <<>>

\* The revision counter of a terminal: its reports so far.
RevisionOf(pane) == Len(SelectSeq(writes, LAMBDA w : w[1] = pane))

\* The records of a pane stay in the order of their ids.
WithRecord(records, r) ==
    SelectSeq(records, LAMBDA s : s.id < r.id) \o <<r>> \o SelectSeq(records, LAMBDA s : s.id > r.id)

\* ProgramStatusReport: a program of pane i reports.
Writes(i, id, state) ==
    LET new == [id |-> id, state |-> state, kind |-> "none", revision |-> RevisionOf(tab[i].pane) + 1, seen |-> FALSE]
    IN  /\ Len(writes) < MaxWrites
        /\ tab' = [tab EXCEPT ![i].records = WithRecord(@, new)]
        /\ writes' = Append(writes, <<tab[i].pane, id>>)

TabNext == \E i \in DOMAIN tab, id \in TaskIds, state \in {"working", "done"} : Writes(i, id, state)

TabSpec == TabInit /\ [][TabNext]_<<tab, writes>>

-----------------------------------------------------------------------------

Shown == Derive(tab, FALSE, TRUE)

\* When the record x of AllRecords was written.
WrittenAt(x) == Max({n \in DOMAIN writes : writes[n] = <<x[1], x[2].id>>})

\* "Among records with the same state, the root record wins, then the most
\* recently written one" (docs/program-status-osc-7501.md:114), of all the
\* terminals of the tab.
LatestShown ==
    Shown.message # Nothing =>
      \E x \in AllRecords(tab) :
        /\ Shown.message = ReportKey(x[1], x[2])
        /\ \A y \in AllRecords(tab) :
             FromRecord(y[2]) = Shown.state /\ IsRoot(y[2]) = IsRoot(x[2]) => WrittenAt(y) <= WrittenAt(x)
===============================================================================
