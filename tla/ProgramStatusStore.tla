------------------------- MODULE ProgramStatusStore -------------------------
(***************************************************************************)
(* The OSC 7501 record store of one terminal (TerminalProgramStatus.cpp),  *)
(* with the OSC 133 "a shell command is running" flag that lives beside    *)
(* it.  Every action is one call the VT parser or ControlCore makes while  *)
(* it holds the terminal write lock.                                       *)
(*                                                                         *)
(* Abstracted data: a record's kind, progress, title and msg carry no      *)
(* control, so a record keeps only its state, its app (the one value other *)
(* records inherit) and its revision.  An id "a/b" is the sequence of its  *)
(* segments <<"a", "b">>; the root id "" is <<>>.                          *)
(***************************************************************************)
EXTENDS Integers, FiniteSets, Sequences

CONSTANTS
    Segments,      \* what stands between the slashes of an id
    Ids,           \* ids programs report on
    Apps,          \* app names
    NoApp,         \* a report without an app key
    ReportStates,  \* the states programs report, a subset of States
    MaxRecords,    \* ProgramStatus::MaxRecords (256 in the code)
    MaxRevision    \* bound on the number of reports a run explores

States == {"idle", "working", "blocked", "done", "error"}

Root == <<>>

ASSUME IdsAssumption == Ids \subseteq Seq(Segments)
ASSUME AppsAssumption == NoApp \notin Apps
ASSUME ReportStatesAssumption == ReportStates \subseteq States
ASSUME BoundsAssumption == MaxRecords \in Nat \ {0} /\ MaxRevision \in Nat

VARIABLES
    enabled,       \* Terminal::_programStatusEnabled
    records,       \* Terminal::_programStatusRecords: a function from ids
    revision,      \* Terminal::_programStatusRevision
    running,       \* Terminal::_shellCommandRunning
    statusPending, \* the owner's _programStatusChangedPending flag
    shellPending   \* the owner's _shellCommandChangedPending flag

storeVars == <<enabled, records, revision, running, statusPending, shellPending>>

Record == [state : States, app : Apps \cup {NoApp}, revision : 1..MaxRevision]

\* A std::map from ids to records.
IsRecordMap(m) == DOMAIN m \subseteq Ids /\ m \in [DOMAIN m -> Record]

NoRecords == [id \in {} |-> NoApp]

StoreTypeOK ==
    /\ enabled \in BOOLEAN
    /\ IsRecordMap(records)
    /\ revision \in 0..MaxRevision
    /\ running \in BOOLEAN
    /\ statusPending \in BOOLEAN
    /\ shellPending \in BOOLEAN

StoreInit ==
    /\ enabled = TRUE
    /\ records = NoRecords
    /\ revision = 0
    /\ running = FALSE
    /\ statusPending = FALSE
    /\ shellPending = FALSE

-----------------------------------------------------------------------------
(* Helpers *)

IsLive(state) == state \in {"working", "blocked"}

Keep(S) == [id \in S |-> records[id]]

\* "a" covers "a" and "a/...": the segments of id start the segments of key.
IsInSubtree(key, id) ==
    Len(id) <= Len(key) /\ SubSeq(key, 1, Len(id)) = id

MutNewest(S) == CHOOSE id \in S : \A other \in S : records[other].revision <= records[id].revision

\* The scan for the lowest revision.
Oldest(S) == CHOOSE id \in S : \A other \in S : records[id].revision <= records[other].revision

MutNoEviction(id) == {}

\* What a report on id pushes out: the least recently updated record, when id
\* is new and the store is full.
Evicted(id) ==
    IF id \notin DOMAIN records /\ Cardinality(DOMAIN records) >= MaxRecords
    THEN {Oldest(DOMAIN records)}
    ELSE {}

Notify(changed) == statusPending' = (statusPending \/ changed)

-----------------------------------------------------------------------------
(* Operations on the records.  Each leaves the shell flag alone. *)

SetProgramStatusEnabled(on) ==
    /\ enabled' = on
    /\ IF enabled /\ ~on
       THEN records' = NoRecords /\ Notify(records # NoRecords)
       ELSE UNCHANGED <<records, statusPending>>
    /\ UNCHANGED revision

\* state=clear: the record and its subtree, everything for the root id.
ClearReport(id) ==
    /\ enabled
    /\ records' = Keep({key \in DOMAIN records : ~IsInSubtree(key, id)})
    /\ Notify(TRUE)
    /\ UNCHANGED <<enabled, revision>>

\* Any other state replaces the whole record.
StateReport(id, state, app) ==
    /\ enabled
    /\ revision < MaxRevision
    /\ revision' = revision + 1
    /\ records' = [key \in (DOMAIN records \ Evicted(id)) \cup {id} |->
                     IF key = id
                     THEN [state |-> state, app |-> app, revision |-> revision']
                     ELSE records[key]]
    /\ Notify(TRUE)
    /\ UNCHANGED enabled

\* ProgramStatusReport with the feature off, or of a report the parser
\* discarded.
IgnoredReport == UNCHANGED <<enabled, records, revision, statusPending>>

MutDropSilently ==
    LET live == {id \in DOMAIN records : IsLive(records[id].state)}
    IN  /\ records' = Keep(DOMAIN records \ live)
        /\ UNCHANGED <<enabled, revision, statusPending>>

\* ProgramStatusDropLive, and ProgramStatusPromptStarted, which does the same.
DropLive ==
    LET live == {id \in DOMAIN records : IsLive(records[id].state)}
    IN  /\ records' = Keep(DOMAIN records \ live)
        /\ Notify(live # {})
        /\ UNCHANGED <<enabled, revision>>

MutClearRestartsRevision ==
    /\ records' = NoRecords
    /\ Notify(records # NoRecords)
    /\ revision' = 0
    /\ UNCHANGED enabled

ClearAll ==
    /\ records' = NoRecords
    /\ Notify(records # NoRecords)
    /\ UNCHANGED <<enabled, revision>>

(* Operations on the shell flag.  Each leaves the records alone. *)

MutSetRunningSilently(on) == running' = on /\ UNCHANGED shellPending

SetRunning(on) ==
    /\ running' = on
    /\ shellPending' = (shellPending \/ running # on)

ShellCommandMark(mark) == SetRunning(mark = "C")

ShellCommandEnded == SetRunning(FALSE)

-----------------------------------------------------------------------------
(* What one control sequence of the output, or one call of the owner, does  *)
(* to the store.                                                            *)

Report ==
    /\ \/ \E id \in Ids : ClearReport(id)
       \/ \E id \in Ids, state \in ReportStates, app \in Apps \cup {NoApp} : StateReport(id, state, app)
       \/ IgnoredReport
    /\ UNCHANGED <<running, shellPending>>

\* OSC 133: A starts a prompt, C starts a command, D ends it.
DoFinalTermAction(mark) ==
    /\ IF mark = "A" THEN DropLive ELSE UNCHANGED <<enabled, records, revision, statusPending>>
    /\ ShellCommandMark(mark)

MutResetKeepsRecords == ShellCommandEnded /\ UNCHANGED <<enabled, records, revision, statusPending>>

\* RIS, and HardResetWithoutErase: ends the command, removes every record.
ProgramStatusReset == ShellCommandEnded /\ ClearAll

\* The owner's callbacks when the process is gone.
ConnectionGone == DropLive /\ ShellCommandEnded

\* One control sequence of a chunk of output.
ControlSequence ==
    \/ Report
    \/ \E mark \in {"A", "C", "D"} : DoFinalTermAction(mark)
    \/ ProgramStatusReset

SetEnabled(on) == SetProgramStatusEnabled(on) /\ UNCHANGED <<running, shellPending>>

\* The owner takes a flag to raise its event (_raise...IfPending).
ExchangeStatusPending ==
    /\ statusPending' = FALSE
    /\ UNCHANGED <<enabled, records, revision, running, shellPending>>

ExchangeShellPending ==
    /\ shellPending' = FALSE
    /\ UNCHANGED <<enabled, records, revision, running, statusPending>>

StoreNext ==
    \/ ControlSequence
    \/ ConnectionGone
    \/ \E on \in BOOLEAN : SetEnabled(on)
    \/ ExchangeStatusPending
    \/ ExchangeShellPending

StoreSpec == StoreInit /\ [][StoreNext]_storeVars

-----------------------------------------------------------------------------
(* Snapshots *)

MutParentOnly(id) ==
    IF records[id].app # NoApp \/ id = Root THEN records[id].app
    ELSE LET parent == SubSeq(id, 1, Len(id) - 1)
         IN  IF parent \in DOMAIN records THEN records[parent].app ELSE NoApp

\* GetProgramStatusRecords: a record without an app climbs "a/b/c" -> "a/b" ->
\* "a" -> root until an ancestor has one.
EffectiveApp(id) ==
    LET climb[n \in 0..Len(id)] ==
          LET ancestor == SubSeq(id, 1, n)
          IN  IF ancestor \in DOMAIN records /\ records[ancestor].app # NoApp
              THEN records[ancestor].app
              ELSE IF n = 0 THEN NoApp ELSE climb[n - 1]
    IN  climb[Len(id)]

-----------------------------------------------------------------------------
(* Properties *)

\* At most MaxRecords records: a program that invents a new id for every
\* report cannot grow the store.
CapRespected == Cardinality(DOMAIN records) <= MaxRecords

\* No two records carry the same revision, and none is ahead of the counter:
\* "the least recently updated record" is one record, and a reader that has
\* seen everything up to the counter has seen every record.
RevisionsDistinct ==
    /\ \A id \in DOMAIN records : records[id].revision <= revision
    /\ \A a, b \in DOMAIN records : records[a].revision = records[b].revision => a = b

\* A report displaces at most one other record, and only the one that has
\* gone longest without an update.
OnlyOldestEvicted ==
    [][revision' = revision + 1 =>
         LET gone == DOMAIN records \ DOMAIN records'
         IN  /\ Cardinality(gone) <= 1
             /\ \A id \in gone, other \in DOMAIN records :
                  records[id].revision <= records[other].revision]_storeVars

\* The counter never goes back, not even over a reset or a clear, and what a
\* step adds or changes in the store is newer than everything before: a
\* reader's "seen up to revision n" never covers a later report.
ReportsAreNew ==
    [][/\ revision <= revision'
       /\ \A id \in DOMAIN records' :
            (id \notin DOMAIN records \/ records[id] # records'[id])
               => records'[id].revision > revision]_storeVars

\* The effective app of a record is the app of its nearest ancestor-or-self
\* with one; siblings and descendants never lend theirs.
AppFromNearestAncestor ==
    \A id \in DOMAIN records :
      LET lenders == {key \in DOMAIN records : IsInSubtree(id, key) /\ records[key].app # NoApp}
      IN  IF lenders = {}
          THEN EffectiveApp(id) = NoApp
          ELSE \E key \in lenders :
                 /\ EffectiveApp(id) = records[key].app
                 /\ \A other \in lenders : Len(other) <= Len(key)
=============================================================================
