---------------------------- MODULE SessionState ----------------------------
(***************************************************************************)
(* The state of a sidebar row as a function of its tab's panes             *)
(* (AxanSessionState.h).  A pane is [pane, records, running]; its records  *)
(* come in the order of their ids, as [id, state, kind, revision, seen].   *)
(* Ids are numbered in that order, the root id "" being 0.                 *)
(*                                                                         *)
(* Abstracted data: msg and title follow the record they come from, so a   *)
(* message is the key of that record.                                      *)
(***************************************************************************)
EXTENDS Integers, Sequences, SequencesExt

\* Strongest last.
RowStates == <<"idle", "running", "working", "done-unseen", "error", "needs-you">>

Rank(state) == CHOOSE i \in DOMAIN RowStates : RowStates[i] = state

IsRoot(r) == r.id = 0

\* No record, hence no message, no report.
Nothing == <<>>

ReportKey(pane, r) == <<pane, r.id, r.state>>

MutSeenStillAsks(r) ==
    [blocked |-> "needs-you", error |-> "error", done |-> "done-unseen",
     working |-> "working", idle |-> "idle"][r.state]

FromRecord(r) ==
    IF r.seen /\ r.state \in {"done", "error"}
    THEN "idle"
    ELSE [blocked |-> "needs-you", error |-> "error", done |-> "done-unseen",
          working |-> "working", idle |-> "idle"][r.state]

\* The tie-break: the root record, then the highest revision.
Preferred(r, s) ==
    \/ IsRoot(r) /\ ~IsRoot(s)
    \/ IsRoot(r) = IsRoot(s) /\ r.revision > s.revision

\* What one pane contributes: its records or, without any, its shell.
Candidates(p) ==
    IF p.records # <<>>
    THEN [i \in DOMAIN p.records |->
            [state |-> FromRecord(p.records[i]), pane |-> p.pane, record |-> <<p.records[i]>>]]
    ELSE <<[state |-> IF p.running THEN "running" ELSE "idle", pane |-> p.pane, record |-> Nothing]>>

NoCandidate == [state |-> "idle", pane |-> Nothing, record |-> Nothing]

MutLaterWins(c, best) == Rank(c.state) >= Rank(best.state)

\* Does c replace the best so far?
Better(c, best) ==
    \/ Rank(c.state) > Rank(best.state)
    \/ /\ Rank(c.state) = Rank(best.state)
       /\ c.record # Nothing
       /\ best.record = Nothing \/ Preferred(c.record[1], best.record[1])

\* The scan over the panes and their records.
Best(panes) ==
    FoldLeft(LAMBDA best, c : IF Better(c, best) THEN c ELSE best,
             NoCandidate,
             FlattenSeq([i \in DOMAIN panes |-> Candidates(panes[i])]))

MutNewestKept(c, kept) == kept.record = Nothing \/ Preferred(c.record[1], kept.record[1])

\* Does c replace the report kept so far: error over done, then the tie-break?
KeepsOver(c, kept) ==
    \/ kept.record = Nothing
    \/ c.record[1].state = "error" /\ kept.record[1].state # "error"
    \/ c.record[1].state = kept.record[1].state /\ Preferred(c.record[1], kept.record[1])

\* Is c a seen done or error report?
MayBeKept(c) == c.record # Nothing /\ c.record[1].seen /\ c.record[1].state \in {"done", "error"}

\* The scan for the report that a resting row keeps.
Kept(panes) ==
    FoldLeft(LAMBDA kept, c : IF MayBeKept(c) /\ KeepsOver(c, kept) THEN c ELSE kept,
             NoCandidate,
             FlattenSeq([i \in DOMAIN panes |-> Candidates(panes[i])]))

KeyOf(c) == IF c.record = Nothing THEN Nothing ELSE ReportKey(c.pane, c.record[1])

\* The glyph slot.
Slot(state, anyRecords) ==
    CASE state = "needs-you"   -> "blocked"
      [] state = "done-unseen" -> "done"
      [] state = "idle"        -> IF anyRecords THEN "idle" ELSE "none"
      [] OTHER                 -> state

Derive(panes, bell, keep) ==
    LET best  == Best(panes)
        state == IF best.state = "idle" /\ bell THEN "done-unseen" ELSE best.state
        kept  == IF keep /\ state \in {"idle", "running"} THEN Kept(panes) ELSE NoCandidate
    IN  [state     |-> state,
         message   |-> CASE best.state # "idle" -> KeyOf(best)
                         [] best.state = "idle" /\ bell -> <<"bell">>
                         [] OTHER -> Nothing,
         kind      |-> IF state = "needs-you" THEN best.record[1].kind ELSE "none",
         slot      |-> Slot(state, \E i \in DOMAIN panes : panes[i].records # <<>>),
         retained  |-> KeyOf(kept),
         reportKey |-> IF best.state \in {"done-unseen", "error"} THEN KeyOf(best) ELSE KeyOf(kept)]

\* Has some pane a report newer than in the baseline, where an absent pane
\* has revision 0?
HasNewReport(baseline, current) ==
    \E p \in DOMAIN current : current[p] > (IF p \in DOMAIN baseline THEN baseline[p] ELSE 0)

-----------------------------------------------------------------------------
(* What the header comment says of the state and the message of a row *)

\* Every record of the tab, with its pane.
AllRecords(panes) == UNION {{<<panes[i].pane, r>> : r \in Range(panes[i].records)} : i \in DOMAIN panes}

Has(panes, state) == \E x \in AllRecords(panes) : x[2].state = state

HasUnseen(panes, state) == \E x \in AllRecords(panes) : x[2].state = state /\ ~x[2].seen

\* The strongest state of any pane.  Records speak for their pane, whatever
\* its shell does; the bell counts only for a row at rest.
Strongest(panes, bell) ==
    IF Has(panes, "blocked") THEN "needs-you"
    ELSE IF HasUnseen(panes, "error") THEN "error"
    ELSE IF HasUnseen(panes, "done") THEN "done-unseen"
    ELSE IF Has(panes, "working") THEN "working"
    ELSE IF \E i \in DOMAIN panes : panes[i].records = <<>> /\ panes[i].running THEN "running"
    ELSE IF bell THEN "done-unseen" ELSE "idle"

\* x is a record in that state, and no other goes before it, revisions of
\* all terminals being compared.
IsPreferred(panes, x, state) ==
    /\ x \in AllRecords(panes)
    /\ FromRecord(x[2]) = state
    /\ \A y \in AllRecords(panes) : FromRecord(y[2]) = state => ~Preferred(y[2], x[2])

\* The same with revisions compared only where they tell what was written
\* later, within one terminal.
GoesFirst(panes, x, state) ==
    /\ x \in AllRecords(panes)
    /\ FromRecord(x[2]) = state
    /\ \A y \in AllRecords(panes) :
         FromRecord(y[2]) = state =>
           /\ IsRoot(y[2]) => IsRoot(x[2])
           /\ (y[1] = x[1] /\ IsRoot(y[2]) = IsRoot(x[2])) => y[2].revision <= x[2].revision

\* The tab once the user has seen everything in it.
AllSeen(panes) ==
    [i \in DOMAIN panes |->
       [pane |-> panes[i].pane, running |-> panes[i].running,
        records |-> [j \in DOMAIN panes[i].records |->
                       LET r == panes[i].records[j]
                       IN  [id |-> r.id, state |-> r.state, kind |-> r.kind, revision |-> r.revision, seen |-> TRUE]]]]
=============================================================================
