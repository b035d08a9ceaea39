------------------------- MODULE ControlCoreProofs -------------------------
(***************************************************************************)
(* Theorems about the record store, for every set of ids, every cap and    *)
(* every number of reports; then about the terminal control that owns one: *)
(* no change of the store is lost on its way to the sidebar, and nothing a *)
(* dead connection outputs revives a live record.  They hold with or       *)
(* without overlap of the connection's handlers, and for any number of     *)
(* restarts.                                                               *)
(***************************************************************************)
EXTENDS ControlCore, OrderedSetsProofs

-----------------------------------------------------------------------------
(* The store. *)

\* What the records and the counter satisfy between operations.
RecordsOK ==
    /\ IsRecordMap(records)
    /\ revision \in 0..MaxRevision
    /\ RevisionsDistinct
    /\ IsFiniteSet(DOMAIN records)
    /\ CapRespected

\* The inductive invariant of the store.
StoreInv == StoreTypeOK /\ RecordsOK

\* Restricting a record map to some of its ids keeps it one.
LEMMA KeepIsRecordMap ==
    ASSUME IsRecordMap(records), NEW S \in SUBSET DOMAIN records
    PROVE  /\ IsRecordMap(Keep(S))
           /\ DOMAIN Keep(S) = S
           /\ \A id \in S : Keep(S)[id] = records[id]
BY DEF IsRecordMap, Keep

\* The empty map of a store that has been cleared.
LEMMA NoRecordsIsRecordMap == IsRecordMap(NoRecords) /\ DOMAIN NoRecords = {}
BY DEF IsRecordMap, NoRecords

\* The scan finds a record, and no record is older.
LEMMA OldestFound ==
    ASSUME IsRecordMap(records), DOMAIN records # {}
    PROVE  /\ Oldest(DOMAIN records) \in DOMAIN records
           /\ \A other \in DOMAIN records :
                records[Oldest(DOMAIN records)].revision <= records[other].revision
<1> DEFINE T == {records[id].revision : id \in DOMAIN records}
<1>1. T \in SUBSET Nat /\ T # {}
  BY BoundsAssumption DEF IsRecordMap, Record
<1>2. PICK least \in T : \A y \in T : least <= y
  BY <1>1, LeastNatural
<1>3. \E id \in DOMAIN records : \A other \in DOMAIN records : records[id].revision <= records[other].revision
  BY <1>2
<1> QED BY <1>3 DEF Oldest

\* Any operation that only removes records keeps RecordsOK.
LEMMA RemovalKeepsRecordsOK ==
    ASSUME RecordsOK, NEW S \in SUBSET DOMAIN records,
           records' = Keep(S), UNCHANGED revision
    PROVE  RecordsOK'
<1>1. IsRecordMap(records') /\ DOMAIN records' = S /\ \A id \in S : records'[id] = records[id]
  BY KeepIsRecordMap DEF RecordsOK
<1>2. IsRecordMap(records)'
  BY <1>1 DEF IsRecordMap, Record
<1>3. RevisionsDistinct'
  BY <1>1 DEF RecordsOK, RevisionsDistinct
<1>4. IsFiniteSet(DOMAIN records') /\ Cardinality(DOMAIN records') <= Cardinality(DOMAIN records)
  BY <1>1, FS_Subset DEF RecordsOK
<1>5. CapRespected'
  BY <1>4, <1>1, BoundsAssumption, FS_CardinalityType DEF RecordsOK, CapRespected
<1> QED BY <1>2, <1>3, <1>4, <1>5 DEF RecordsOK

\* What a report leaves in the store: everything but the evicted record, and
\* the new one, newer than all of them.
LEMMA ReportShape ==
    ASSUME RecordsOK, NEW id \in Ids, NEW state \in ReportStates, NEW app \in Apps \cup {NoApp},
           StateReport(id, state, app)
    PROVE  /\ DOMAIN records' = (DOMAIN records \ Evicted(id)) \cup {id}
           /\ records'[id] = [state |-> state, app |-> app, revision |-> revision + 1]
           /\ records'[id] \in Record
           /\ \A key \in DOMAIN records' : key # id => key \in DOMAIN records /\ records'[key] = records[key]
           /\ revision' = revision + 1 /\ revision' \in 0..MaxRevision
           /\ Evicted(id) \subseteq DOMAIN records
<1>1. revision' = revision + 1 /\ revision' \in 1..MaxRevision
  BY BoundsAssumption DEF StateReport, RecordsOK
<1>2. DOMAIN records' = (DOMAIN records \ Evicted(id)) \cup {id}
  BY DEF StateReport
<1>3. [state |-> state, app |-> app, revision |-> revision + 1] \in Record
  BY <1>1, ReportStatesAssumption DEF Record
<1>4. records'[id] = [state |-> state, app |-> app, revision |-> revision + 1]
  BY <1>1 DEF StateReport
<1>5. \A key \in DOMAIN records' : key # id => key \in DOMAIN records /\ records'[key] = records[key]
  BY DEF StateReport
<1>6. Evicted(id) \subseteq DOMAIN records
  <2>1. CASE id \notin DOMAIN records /\ Cardinality(DOMAIN records) >= MaxRecords
    <3>1. DOMAIN records # {}
      BY <2>1, FS_EmptySet, BoundsAssumption
    <3> QED BY <3>1, OldestFound DEF Evicted, RecordsOK
  <2>2. CASE ~(id \notin DOMAIN records /\ Cardinality(DOMAIN records) >= MaxRecords)
    BY <2>2 DEF Evicted
  <2> QED BY <2>1, <2>2
<1> QED BY <1>1, <1>2, <1>3, <1>4, <1>5, <1>6

\* A report keeps RecordsOK: in particular it never exceeds the cap.
LEMMA ReportKeepsRecordsOK ==
    ASSUME RecordsOK, NEW id \in Ids, NEW state \in ReportStates, NEW app \in Apps \cup {NoApp},
           StateReport(id, state, app)
    PROVE  RecordsOK'
<1> DEFINE kept == DOMAIN records \ Evicted(id)
<1>0. /\ DOMAIN records' = kept \cup {id}
      /\ records'[id] = [state |-> state, app |-> app, revision |-> revision + 1]
      /\ records'[id] \in Record
      /\ \A key \in DOMAIN records' : key # id => key \in DOMAIN records /\ records'[key] = records[key]
      /\ revision' = revision + 1 /\ revision' \in 0..MaxRevision
      /\ Evicted(id) \subseteq DOMAIN records
  BY ReportShape
<1>1. IsRecordMap(records)'
  <2>1. DOMAIN records' \subseteq Ids
    BY <1>0 DEF RecordsOK, IsRecordMap
  <2>2. \A key \in DOMAIN records' : records'[key] \in Record
    BY <1>0 DEF RecordsOK, IsRecordMap
  <2>3. records' = [key \in DOMAIN records' |-> records'[key]]
    BY DEF StateReport
  <2> QED BY <2>1, <2>2, <2>3 DEF IsRecordMap, Record
<1>2. RevisionsDistinct'
  <2>1. records'[id].revision = revision + 1 /\ revision \in Nat
    BY <1>0, BoundsAssumption DEF RecordsOK
  <2>2. \A key \in DOMAIN records' : key # id =>
          key \in DOMAIN records /\ records'[key].revision = records[key].revision
    BY <1>0
  <2>3. \A key \in DOMAIN records : records[key].revision \in Nat /\ records[key].revision <= revision
    BY BoundsAssumption DEF RecordsOK, RevisionsDistinct, IsRecordMap, Record
  <2>4. \A key \in DOMAIN records' : records'[key].revision <= revision'
    BY <2>1, <2>2, <2>3, <1>0
  <2>5. \A a, b \in DOMAIN records' : records'[a].revision = records'[b].revision => a = b
    BY <2>1, <2>2, <2>3 DEF RecordsOK, RevisionsDistinct
  <2> QED BY <2>4, <2>5 DEF RevisionsDistinct
<1>3. IsFiniteSet(kept) /\ Cardinality(kept) \in Nat /\ Cardinality(DOMAIN records) \in Nat
  BY FS_Subset, FS_CardinalityType DEF RecordsOK
<1>4. IsFiniteSet(DOMAIN records')
  BY <1>3, <1>0, FS_AddElement
<1>5. Cardinality(kept \cup {id}) <= MaxRecords
  <2>1. CASE id \in DOMAIN records
    <3>1. Evicted(id) = {}
      BY <2>1 DEF Evicted
    <3>2. kept \cup {id} = DOMAIN records
      BY <2>1, <3>1
    <3> QED BY <3>2 DEF RecordsOK, CapRespected
  <2>2. CASE id \notin DOMAIN records /\ Cardinality(DOMAIN records) >= MaxRecords
    <3>1. DOMAIN records # {}
      BY <2>2, FS_EmptySet, BoundsAssumption
    <3>2. Evicted(id) = {Oldest(DOMAIN records)} /\ Oldest(DOMAIN records) \in DOMAIN records
      BY <2>2, <3>1, OldestFound DEF Evicted, RecordsOK
    <3>3. Cardinality(kept) = Cardinality(DOMAIN records) - 1
      BY <3>2, FS_RemoveElement DEF RecordsOK
    <3>4. Cardinality(kept \cup {id}) = Cardinality(kept) + 1
      BY <2>2, <1>3, FS_AddElement
    <3> QED BY <3>3, <3>4, <1>3, BoundsAssumption DEF RecordsOK, CapRespected
  <2>3. CASE id \notin DOMAIN records /\ ~(Cardinality(DOMAIN records) >= MaxRecords)
    <3>1. Evicted(id) = {}
      BY <2>3 DEF Evicted
    <3>2. Cardinality(DOMAIN records \cup {id}) = Cardinality(DOMAIN records) + 1
      BY <2>3, FS_AddElement DEF RecordsOK
    <3> QED BY <3>1, <3>2, <2>3, <1>3, BoundsAssumption
  <2> QED BY <2>1, <2>2, <2>3
<1>6. CapRespected'
  BY <1>5, <1>0 DEF CapRespected
<1> QED BY <1>1, <1>2, <1>4, <1>6, <1>0 DEF RecordsOK

\* Clearing is a removal of everything.
LEMMA NoRecordsIsKeepNothing == NoRecords = Keep({})
BY DEF NoRecords, Keep

\* Every operation of a chunk of output keeps the invariant.
LEMMA ControlSequenceKeepsInv ==
    ASSUME StoreInv, ControlSequence
    PROVE  StoreInv'
<1> USE DEF StoreInv, StoreTypeOK
<1>1. CASE Report
  <2>1. ASSUME NEW id \in Ids, ClearReport(id), UNCHANGED <<running, shellPending>>
        PROVE  StoreInv'
    <3>1. RecordsOK'
      BY <2>1, RemovalKeepsRecordsOK DEF ClearReport
    <3> QED BY <2>1, <3>1 DEF ClearReport, Notify, RecordsOK
  <2>2. ASSUME NEW id \in Ids, NEW state \in ReportStates, NEW app \in Apps \cup {NoApp},
               StateReport(id, state, app), UNCHANGED <<running, shellPending>>
        PROVE  StoreInv'
    <3>1. RecordsOK'
      BY <2>2, ReportKeepsRecordsOK
    <3> QED BY <2>2, <3>1 DEF StateReport, Notify, RecordsOK
  <2>3. ASSUME IgnoredReport, UNCHANGED <<running, shellPending>>
        PROVE  StoreInv'
    BY <2>3 DEF IgnoredReport, RecordsOK, IsRecordMap, RevisionsDistinct, CapRespected
  <2> QED BY <1>1, <2>1, <2>2, <2>3 DEF Report
<1>2. ASSUME NEW mark \in {"A", "C", "D"}, DoFinalTermAction(mark)
      PROVE  StoreInv'
  <2>1. running' \in BOOLEAN /\ shellPending' \in BOOLEAN
    BY <1>2 DEF DoFinalTermAction, ShellCommandMark, SetRunning
  <2>2. CASE mark = "A"
    <3>1. DropLive
      BY <1>2, <2>2 DEF DoFinalTermAction
    <3>2. RecordsOK'
      BY <3>1, RemovalKeepsRecordsOK DEF DropLive
    <3> QED BY <2>1, <3>1, <3>2 DEF DropLive, Notify, RecordsOK
  <2>3. CASE mark # "A"
    BY <1>2, <2>1, <2>3 DEF DoFinalTermAction, RecordsOK, IsRecordMap, RevisionsDistinct, CapRespected
  <2> QED BY <2>2, <2>3
<1>3. CASE ProgramStatusReset
  <2>1. RecordsOK'
    BY <1>3, NoRecordsIsKeepNothing, RemovalKeepsRecordsOK DEF ProgramStatusReset, ClearAll
  <2> QED BY <1>3, <2>1 DEF ProgramStatusReset, ClearAll, ShellCommandEnded, SetRunning, Notify, RecordsOK
<1> QED BY <1>1, <1>2, <1>3 DEF ControlSequence

\* So does the end of the connection.
LEMMA ConnectionGoneKeepsInv ==
    ASSUME StoreInv, ConnectionGone
    PROVE  StoreInv'
<1>1. RecordsOK'
  BY RemovalKeepsRecordsOK DEF ConnectionGone, DropLive, StoreInv
<1> QED BY <1>1 DEF ConnectionGone, DropLive, ShellCommandEnded, SetRunning, Notify, StoreInv, StoreTypeOK, RecordsOK

\* So does the feature switch.
LEMMA SetEnabledKeepsInv ==
    ASSUME StoreInv, NEW on \in BOOLEAN, SetEnabled(on)
    PROVE  StoreInv'
<1>1. CASE enabled /\ ~on
  <2>1. RecordsOK'
    BY <1>1, NoRecordsIsKeepNothing, RemovalKeepsRecordsOK DEF SetEnabled, SetProgramStatusEnabled, StoreInv
  <2> QED BY <1>1, <2>1 DEF SetEnabled, SetProgramStatusEnabled, Notify, StoreInv, StoreTypeOK, RecordsOK
<1>2. CASE ~(enabled /\ ~on)
  BY <1>2 DEF SetEnabled, SetProgramStatusEnabled, StoreInv, StoreTypeOK, RecordsOK, IsRecordMap, RevisionsDistinct, CapRespected
<1> QED BY <1>1, <1>2

\* Taking a flag leaves the records alone.
LEMMA ExchangeKeepsInv ==
    ASSUME StoreInv, ExchangeStatusPending \/ ExchangeShellPending
    PROVE  StoreInv'
BY DEF ExchangeStatusPending, ExchangeShellPending, StoreInv, StoreTypeOK, RecordsOK, IsRecordMap, RevisionsDistinct, CapRespected

\* The empty store a terminal starts with satisfies the invariant.
LEMMA StoreInitInv == StoreInit => StoreInv
<1> SUFFICES ASSUME StoreInit PROVE StoreInv
  OBVIOUS
<1>1. DOMAIN records = {} /\ IsRecordMap(records)
  BY NoRecordsIsRecordMap DEF StoreInit
<1>2. IsFiniteSet(DOMAIN records) /\ CapRespected
  BY <1>1, FS_EmptySet, BoundsAssumption DEF CapRespected
<1>3. RevisionsDistinct
  BY <1>1 DEF RevisionsDistinct
<1>4. revision \in 0..MaxRevision
  BY BoundsAssumption DEF StoreInit
<1>5. StoreTypeOK
  BY <1>1, <1>4 DEF StoreInit, StoreTypeOK
<1> QED BY <1>1, <1>2, <1>3, <1>4, <1>5 DEF StoreInv, RecordsOK

\* Every step of the store, and every stuttering step, keeps the invariant.
LEMMA StoreStepKeepsInv ==
    ASSUME StoreInv, [StoreNext]_storeVars
    PROVE  StoreInv'
<1>1. CASE UNCHANGED storeVars
  BY <1>1 DEF storeVars, StoreInv, StoreTypeOK, RecordsOK, IsRecordMap, RevisionsDistinct, CapRespected
<1> QED
  BY <1>1, ControlSequenceKeepsInv, ConnectionGoneKeepsInv, SetEnabledKeepsInv, ExchangeKeepsInv DEF StoreNext

\* The record store never breaks its invariant.
THEOREM StoreInvariant == StoreSpec => []StoreInv
<1>1. StoreInit => StoreInv
  BY StoreInitInv
<1>2. StoreInv /\ [StoreNext]_storeVars => StoreInv'
  BY StoreStepKeepsInv
<1> QED BY <1>1, <1>2, PTL DEF StoreSpec

\* The variables of the store keep their types (TerminalProgramStatus.cpp).
THEOREM StoreTypeCorrect == StoreSpec => []StoreTypeOK
BY StoreInvariant, PTL DEF StoreInv

\* The cap of MaxRecords holds whatever ids programs invent.
THEOREM StoreBounded == StoreSpec => []CapRespected
<1>1. StoreInv => CapRespected
  BY DEF StoreInv, RecordsOK
<1> QED BY <1>1, StoreInvariant, PTL

\* Revisions identify records and never run ahead of the counter.
THEOREM StoreRevisionsDistinct == StoreSpec => []RevisionsDistinct
<1>1. StoreInv => RevisionsDistinct
  BY DEF StoreInv, RecordsOK
<1> QED BY <1>1, StoreInvariant, PTL

\* A removal, or a step that leaves the records alone, adds nothing to them.
LEMMA RemovalAddsNothing ==
    ASSUME NEW S \in SUBSET DOMAIN records, records' = Keep(S)
    PROVE  DOMAIN records' \subseteq DOMAIN records /\ \A id \in DOMAIN records' : records'[id] = records[id]
BY DEF Keep

\* What changes in a step of the store is newer than all that was there.
LEMMA StepReportsNew ==
    ASSUME StoreInv, [StoreNext]_storeVars
    PROVE  /\ revision <= revision'
           /\ \A id \in DOMAIN records' :
                (id \notin DOMAIN records \/ records[id] # records'[id])
                   => records'[id].revision > revision
<1>0. revision \in Nat
  BY BoundsAssumption DEF StoreInv, StoreTypeOK
<1>1. ASSUME NEW id \in Ids, NEW state \in ReportStates, NEW app \in Apps \cup {NoApp},
             StateReport(id, state, app)
      PROVE  /\ revision <= revision'
             /\ \A key \in DOMAIN records' :
                  (key \notin DOMAIN records \/ records[key] # records'[key])
                     => records'[key].revision > revision
  <2>1. /\ records'[id] = [state |-> state, app |-> app, revision |-> revision + 1]
        /\ \A key \in DOMAIN records' : key # id => key \in DOMAIN records /\ records'[key] = records[key]
        /\ revision' = revision + 1
    BY <1>1, ReportShape DEF StoreInv
  <2>2. records'[id].revision = revision + 1
    BY <2>1
  <2> QED BY <1>0, <2>1, <2>2
<1>2. ASSUME UNCHANGED revision, NEW S \in SUBSET DOMAIN records, records' = Keep(S)
      PROVE  /\ revision <= revision'
             /\ \A key \in DOMAIN records' : key \in DOMAIN records /\ records[key] = records'[key]
  BY <1>0, <1>2, RemovalAddsNothing
<1>3. ASSUME UNCHANGED <<records, revision>>
      PROVE  /\ revision <= revision'
             /\ \A key \in DOMAIN records' : key \in DOMAIN records /\ records[key] = records'[key]
  BY <1>0, <1>3
<1>4. CASE ControlSequence
  <2>1. CASE Report
    <3>1. ASSUME NEW id \in Ids, ClearReport(id)
          PROVE  UNCHANGED revision /\ \E S \in SUBSET DOMAIN records : records' = Keep(S)
      BY <3>1 DEF ClearReport
    <3>2. ASSUME IgnoredReport PROVE UNCHANGED <<records, revision>>
      BY <3>2 DEF IgnoredReport
    <3> QED BY <2>1, <3>1, <3>2, <1>1, <1>2, <1>3 DEF Report
  <2>2. ASSUME NEW mark \in {"A", "C", "D"}, DoFinalTermAction(mark)
        PROVE  \/ UNCHANGED <<records, revision>>
               \/ UNCHANGED revision /\ \E S \in SUBSET DOMAIN records : records' = Keep(S)
    BY <2>2 DEF DoFinalTermAction, DropLive
  <2>3. CASE ProgramStatusReset
    BY <2>3, <1>2, NoRecordsIsKeepNothing DEF ProgramStatusReset, ClearAll
  <2> QED BY <1>4, <2>1, <2>2, <2>3, <1>2, <1>3 DEF ControlSequence
<1>5. CASE ConnectionGone
  BY <1>5, <1>2 DEF ConnectionGone, DropLive
<1>6. ASSUME NEW on \in BOOLEAN, SetEnabled(on)
      PROVE  \/ UNCHANGED <<records, revision>>
             \/ UNCHANGED revision /\ \E S \in SUBSET DOMAIN records : records' = Keep(S)
  BY <1>6, NoRecordsIsKeepNothing DEF SetEnabled, SetProgramStatusEnabled
<1>7. CASE ExchangeStatusPending \/ ExchangeShellPending \/ UNCHANGED storeVars
  BY <1>7, <1>3 DEF ExchangeStatusPending, ExchangeShellPending, storeVars
<1> QED BY <1>2, <1>3, <1>4, <1>5, <1>6, <1>7 DEF StoreNext

\* No later report is ever covered by a revision a reader has already seen:
\* the "seen" marks of the sidebar rest on this.
THEOREM StoreReportsAreNew == StoreSpec => ReportsAreNew
<1>1. StoreInv /\ [StoreNext]_storeVars
        => [/\ revision <= revision'
            /\ \A id \in DOMAIN records' :
                 (id \notin DOMAIN records \/ records[id] # records'[id])
                    => records'[id].revision > revision]_storeVars
  BY StepReportsNew
<1> QED BY <1>1, StoreInvariant, PTL DEF StoreSpec, ReportsAreNew

\* A report pushes out at most the record that is oldest, and no other
\* operation moves the counter.
LEMMA StepEvictsOldest ==
    ASSUME StoreInv, [StoreNext]_storeVars, revision' = revision + 1
    PROVE  LET gone == DOMAIN records \ DOMAIN records'
           IN  /\ Cardinality(gone) <= 1
               /\ \A id \in gone, other \in DOMAIN records :
                    records[id].revision <= records[other].revision
<1>0. revision \in Nat /\ revision' # revision
  BY BoundsAssumption DEF StoreInv, StoreTypeOK
<1>1. PICK id \in Ids, state \in ReportStates, app \in Apps \cup {NoApp} : StateReport(id, state, app)
  BY <1>0 DEF StoreNext, ControlSequence, Report, ClearReport, IgnoredReport, DoFinalTermAction, DropLive,
     ProgramStatusReset, ClearAll, ConnectionGone, SetEnabled, SetProgramStatusEnabled,
     ExchangeStatusPending, ExchangeShellPending, storeVars
<1> DEFINE gone == DOMAIN records \ DOMAIN records'
<1>2. gone \subseteq Evicted(id)
  <2>1. DOMAIN records' = (DOMAIN records \ Evicted(id)) \cup {id}
    BY <1>1, ReportShape DEF StoreInv
  <2> QED BY <2>1
<1>3. CASE Evicted(id) = {}
  <2>1. gone = {}
    BY <1>2, <1>3
  <2> QED BY <2>1, FS_EmptySet
<1>4. CASE Evicted(id) # {}
  <2>1. /\ Cardinality(DOMAIN records) >= MaxRecords
        /\ Evicted(id) = {Oldest(DOMAIN records)}
    BY <1>4 DEF Evicted
  <2>2. DOMAIN records # {}
    BY <2>1, FS_EmptySet, BoundsAssumption
  <2>3. \A x \in gone, other \in DOMAIN records : records[x].revision <= records[other].revision
    BY <1>2, <2>1, <2>2, OldestFound DEF StoreInv, RecordsOK
  <2>4. Cardinality(gone) <= 1
    <3>1. IsFiniteSet({Oldest(DOMAIN records)}) /\ Cardinality({Oldest(DOMAIN records)}) = 1
      BY FS_Singleton
    <3>2. Cardinality(gone) <= Cardinality({Oldest(DOMAIN records)})
      BY <1>2, <2>1, <3>1, FS_Subset
    <3> QED BY <3>1, <3>2
  <2> QED BY <2>3, <2>4
<1> QED BY <1>3, <1>4

\* A full store gives up its least recently updated record and nothing else,
\* whatever ids programs report on (the scan in ProgramStatusReport).
THEOREM StoreEvictsOldest == StoreSpec => OnlyOldestEvicted
<1>1. StoreInv /\ [StoreNext]_storeVars
        => [revision' = revision + 1 =>
              LET gone == DOMAIN records \ DOMAIN records'
              IN  /\ Cardinality(gone) <= 1
                  /\ \A id \in gone, other \in DOMAIN records :
                       records[id].revision <= records[other].revision]_storeVars
  BY StepEvictsOldest
<1> QED BY <1>1, StoreInvariant, PTL DEF StoreSpec, OnlyOldestEvicted

-----------------------------------------------------------------------------
(* The app a record inherits *)

\* Has the ancestor of id with n segments an app to lend?
Lends(id, n) ==
    /\ SubSeq(id, 1, n) \in DOMAIN records
    /\ records[SubSeq(id, 1, n)].app # NoApp

\* One step of the climb, from the ancestor with n segments.
Climb(id, n, higher) ==
    IF Lends(id, n) THEN records[SubSeq(id, 1, n)].app
    ELSE IF n = 0 THEN NoApp ELSE higher

\* The climb is well defined: each ancestor's answer is its own app, or else
\* that of the ancestor above it.
LEMMA ClimbDefined ==
    ASSUME NEW id \in Seq(Segments)
    PROVE  \E climb : /\ climb = [n \in 0..Len(id) |-> Climb(id, n, climb[n - 1])]
                      /\ EffectiveApp(id) = climb[Len(id)]
<1> DEFINE N == Len(id)
           lenders(n) == {m \in 0..n : Lends(id, m)}
           nearest(S) == CHOOSE m \in S : \A other \in S : other <= m
           value(S) == IF S = {} THEN NoApp ELSE records[SubSeq(id, 1, nearest(S))].app
           f == [n \in 0..N |-> value(lenders(n))]
<1>1. N \in Nat
  OBVIOUS
<1>2. ASSUME NEW n \in 0..N, Lends(id, n) PROVE f[n] = records[SubSeq(id, 1, n)].app
  <2>1. n \in lenders(n) /\ \A other \in lenders(n) : other <= n
    BY <1>1, <1>2
  <2>2. nearest(lenders(n)) \in lenders(n) /\ \A other \in lenders(n) : other <= nearest(lenders(n))
    BY <2>1
  <2>3. nearest(lenders(n)) = n
    BY <1>1, <2>1, <2>2
  <2> QED BY <2>1, <2>3
<1>3. ASSUME NEW n \in 0..N, ~Lends(id, n), n # 0 PROVE n - 1 \in 0..N /\ f[n] = f[n - 1]
  <2>1. n - 1 \in 0..N
    BY <1>1, <1>3
  <2>2. lenders(n) = lenders(n - 1)
    BY <1>1, <1>3
  <2> HIDE DEF value
  <2>3. f[n] = value(lenders(n)) /\ f[n - 1] = value(lenders(n - 1))
    BY <2>1
  <2> QED BY <2>1, <2>2, <2>3
<1>4. ASSUME ~Lends(id, 0) PROVE f[0] = NoApp
  BY <1>1, <1>4
<1>5. f = [n \in 0..N |-> Climb(id, n, f[n - 1])]
  <2>1. ASSUME NEW n \in 0..N PROVE f[n] = Climb(id, n, f[n - 1])
    BY <1>1, <1>2, <1>3, <1>4, ZenonT(90) DEF Climb
  <2> HIDE DEF f
  <2>2. f = [n \in 0..N |-> f[n]]
    BY DEF f
  <2> QED BY <2>1, <2>2
<1> HIDE DEF f
<1> DEFINE climb == CHOOSE g : g = [n \in 0..N |-> Climb(id, n, g[n - 1])]
<1>6. climb = [n \in 0..N |-> Climb(id, n, climb[n - 1])]
  BY <1>5
<1>7. EffectiveApp(id) = climb[N]
  BY DEF EffectiveApp, Climb, Lends
<1> QED BY <1>6, <1>7

\* The climb ends at the nearest lender.
LEMMA ClimbFindsNearest ==
    ASSUME NEW id \in Seq(Segments), NEW climb,
           climb = [n \in 0..Len(id) |-> Climb(id, n, climb[n - 1])],
           NEW m \in 0..Len(id), \A k \in (m + 1)..Len(id) : ~Lends(id, k)
    PROVE  /\ Lends(id, m) => climb[Len(id)] = records[SubSeq(id, 1, m)].app
           /\ (m = 0 /\ ~Lends(id, m)) => climb[Len(id)] = NoApp
<1> DEFINE N == Len(id)
           T == {k \in 0..N : m <= k /\ climb[k] = climb[N]}
<1>1. N \in Nat /\ m \in Nat /\ m <= N
  OBVIOUS
<1>2. N \in T /\ T \in SUBSET Nat
  BY <1>1
<1>3. PICK k \in T : \A y \in T : k <= y
  BY <1>2, LeastNatural
<1>4. k = m
  <2> SUFFICES ASSUME k # m PROVE FALSE
    OBVIOUS
  <2>1. k \in (m + 1)..N /\ k \in 0..N /\ k # 0 /\ k - 1 \in 0..N /\ m <= k - 1 /\ ~(k <= k - 1)
    BY <1>1, <1>3
  <2>2. climb[k] = Climb(id, k, climb[k - 1])
    BY <2>1
  <2>3. climb[k] = climb[k - 1]
    BY <2>1, <2>2 DEF Climb
  <2>4. k - 1 \in T
    BY <1>3, <2>1, <2>3
  <2> QED BY <1>3, <2>1, <2>4
<1>5. climb[N] = climb[m] /\ climb[m] = Climb(id, m, climb[m - 1])
  BY <1>3, <1>4
<1> QED BY <1>5 DEF Climb

\* In any store, a record's app comes from its nearest ancestor with one.
LEMMA AppInherited ==
    ASSUME IsRecordMap(records)
    PROVE  AppFromNearestAncestor
<1> SUFFICES ASSUME NEW id \in DOMAIN records
             PROVE  LET lenders == {key \in DOMAIN records : IsInSubtree(id, key) /\ records[key].app # NoApp}
                    IN  IF lenders = {}
                        THEN EffectiveApp(id) = NoApp
                        ELSE \E key \in lenders :
                               /\ EffectiveApp(id) = records[key].app
                               /\ \A other \in lenders : Len(other) <= Len(key)
  BY DEF AppFromNearestAncestor
<1> DEFINE lenders == {key \in DOMAIN records : IsInSubtree(id, key) /\ records[key].app # NoApp}
           N == Len(id)
           L == {n \in 0..N : Lends(id, n)}
<1>1. id \in Seq(Segments) /\ DOMAIN records \subseteq Seq(Segments) /\ N \in Nat
  BY IdsAssumption DEF IsRecordMap
<1>2. PICK climb : /\ climb = [n \in 0..N |-> Climb(id, n, climb[n - 1])]
                   /\ EffectiveApp(id) = climb[N]
  BY <1>1, ClimbDefined
<1>3. ASSUME NEW n \in L PROVE SubSeq(id, 1, n) \in lenders /\ Len(SubSeq(id, 1, n)) = n
  <2>1. Len(SubSeq(id, 1, n)) = n
    BY <1>1
  <2>2. SubSeq(id, 1, n) \in DOMAIN records /\ records[SubSeq(id, 1, n)].app # NoApp
    BY DEF Lends
  <2>3. IsInSubtree(id, SubSeq(id, 1, n))
    BY <1>1, <2>1 DEF IsInSubtree
  <2> QED BY <2>1, <2>2, <2>3
<1>4. ASSUME NEW key \in lenders PROVE Len(key) \in L /\ SubSeq(id, 1, Len(key)) = key
  <2>1. Len(key) \in 0..N /\ SubSeq(id, 1, Len(key)) = key
    BY <1>1 DEF IsInSubtree
  <2>2. Lends(id, Len(key))
    BY <2>1 DEF Lends
  <2> QED BY <2>1, <2>2
<1>5. CASE L = {}
  <2>1. lenders = {}
    BY <1>4, <1>5
  <2>2. PICK m \in 0..N : m = 0
    BY <1>1
  <2>3. ~Lends(id, m) /\ \A k \in (m + 1)..N : ~Lends(id, k)
    BY <1>1, <1>5, <2>2
  <2>4. EffectiveApp(id) = NoApp
    BY <1>1, <1>2, <2>2, <2>3, ClimbFindsNearest
  <2> QED BY <2>1, <2>4
<1>6. CASE L # {}
  <2>1. PICK m \in L : \A n \in L : n <= m
    <3>1. L \in SUBSET Nat /\ \A n \in L : n <= N
      BY <1>1
    <3> HIDE DEF L, N
    <3> QED BY <1>1, <1>6, <3>1, GreatestNatural
  <2>2. \A k \in (m + 1)..N : ~Lends(id, k)
    BY <1>1, <2>1
  <2>3. EffectiveApp(id) = records[SubSeq(id, 1, m)].app
    BY <1>1, <1>2, <2>1, <2>2, ClimbFindsNearest
  <2>4. \A other \in lenders : Len(other) <= Len(SubSeq(id, 1, m))
    BY <1>3, <1>4, <2>1
  <2> QED BY <1>3, <2>1, <2>3, <2>4
<1> QED BY <1>5, <1>6

\* The app a snapshot gives a record is that of its nearest ancestor-or-self
\* with one, for ids of any depth (the climb of GetProgramStatusRecords).
THEOREM StoreAppsInherited == StoreSpec => []AppFromNearestAncestor
<1>1. StoreInv => AppFromNearestAncestor
  BY AppInherited DEF StoreInv, RecordsOK
<1> QED BY <1>1, StoreInvariant, PTL

-----------------------------------------------------------------------------
(* The terminal control. *)

\* The output thread holds the lock exactly while it writes.
LockHeld == lock = "output" <=> pc["output"] = "write"

\* The invariant on types, with what the store needs to keep its own.
TypeInv == StoreInv /\ TypeOK /\ LockHeld

\* The inductive invariant.
CoreInv == TypeInv /\ NoLostUpdate /\ PendingIsOwned /\ EndedStaysEnded

-----------------------------------------------------------------------------
(* What the operations of the store tell their owner. *)

\* A step that changes something raises the flag for it, and takes none.
Notified ==
    /\ records' # records => statusPending'
    /\ running' # running => shellPending'
    /\ statusPending => statusPending'
    /\ shellPending => shellPending'

\* Dropping live records is noticed, and leaves none.
LEMMA DropLiveNotified ==
    ASSUME StoreInv, DropLive
    PROVE  /\ records' # records => statusPending'
           /\ statusPending => statusPending'
           /\ NoLiveRecords'
<1> DEFINE live == {id \in DOMAIN records : IsLive(records[id].state)}
<1>1. records' = Keep(DOMAIN records \ live) /\ statusPending' = (statusPending \/ live # {})
  BY DEF DropLive, Notify
<1>2. ASSUME live = {} PROVE records' = records
  BY <1>1, <1>2 DEF Keep, StoreInv, RecordsOK, IsRecordMap
<1>3. NoLiveRecords'
  BY <1>1 DEF NoLiveRecords, Keep
<1>4. statusPending \in BOOLEAN
  BY DEF StoreInv, StoreTypeOK
<1> HIDE DEF live
<1> QED BY <1>1, <1>2, <1>3, <1>4

\* The shell flag is noticed when it changes.
LEMMA SetRunningNotified ==
    ASSUME StoreInv, NEW on \in BOOLEAN, SetRunning(on)
    PROVE  (running' # running => shellPending') /\ (shellPending => shellPending')
BY DEF SetRunning, StoreInv, StoreTypeOK

\* Clearing everything is noticed when there was something.
LEMMA ClearAllNotified ==
    ASSUME StoreInv, ClearAll
    PROVE  /\ records' # records => statusPending'
           /\ statusPending => statusPending'
           /\ NoLiveRecords'
BY NoRecordsIsRecordMap DEF ClearAll, Notify, StoreInv, StoreTypeOK, NoLiveRecords

\* Whatever a chunk of output does to the store is noticed.
LEMMA ControlSequenceNotified ==
    ASSUME StoreInv, ControlSequence
    PROVE  Notified
<1>1. CASE Report
  <2>1. UNCHANGED <<running, shellPending>>
    BY <1>1 DEF Report
  <2>2. statusPending' \/ UNCHANGED <<records, statusPending>>
    BY <1>1 DEF Report, ClearReport, StateReport, IgnoredReport, Notify
  <2>3. CASE statusPending'
    BY <2>1, <2>3 DEF Notified
  <2>4. CASE UNCHANGED <<records, statusPending>>
    BY <2>1, <2>4 DEF Notified
  <2> QED BY <2>2, <2>3, <2>4
<1>2. ASSUME NEW mark \in {"A", "C", "D"}, DoFinalTermAction(mark)
      PROVE  Notified
  <2>1. (running' # running => shellPending') /\ (shellPending => shellPending')
    BY <1>2, SetRunningNotified DEF DoFinalTermAction, ShellCommandMark
  <2>2. CASE mark = "A"
    BY <1>2, <2>1, <2>2, DropLiveNotified DEF DoFinalTermAction, Notified
  <2>3. CASE mark # "A"
    BY <1>2, <2>1, <2>3 DEF DoFinalTermAction, Notified
  <2> QED BY <2>2, <2>3
<1>3. CASE ProgramStatusReset
  BY <1>3, ClearAllNotified, SetRunningNotified DEF ProgramStatusReset, ShellCommandEnded, Notified
<1> QED BY <1>1, <1>2, <1>3 DEF ControlSequence

\* The end of the connection is noticed, and leaves nothing live.
LEMMA ConnectionGoneNotified ==
    ASSUME StoreInv, ConnectionGone
    PROVE  Notified /\ NoLiveRecords' /\ ~running'
<1>1. SetRunning(FALSE) /\ DropLive
  BY DEF ConnectionGone, ShellCommandEnded
<1> QED BY <1>1, DropLiveNotified, SetRunningNotified DEF SetRunning, Notified

\* So is a reset.
LEMMA ResetNotified ==
    ASSUME StoreInv, ProgramStatusReset
    PROVE  Notified /\ NoLiveRecords' /\ ~running'
<1>1. SetRunning(FALSE) /\ ClearAll
  BY DEF ProgramStatusReset, ShellCommandEnded
<1> QED BY <1>1, ClearAllNotified, SetRunningNotified DEF SetRunning, Notified

\* The switch is noticed when it drops something, and makes nothing live.
LEMMA SetEnabledNotified ==
    ASSUME StoreInv, NEW on \in BOOLEAN, SetEnabled(on)
    PROVE  Notified /\ running' = running /\ (NoLiveRecords => NoLiveRecords')
<1>1. CASE enabled /\ ~on
  BY <1>1, NoRecordsIsRecordMap
     DEF SetEnabled, SetProgramStatusEnabled, Notify, Notified, StoreInv, StoreTypeOK, NoLiveRecords
<1>2. CASE ~(enabled /\ ~on)
  BY <1>2 DEF SetEnabled, SetProgramStatusEnabled, Notified, NoLiveRecords
<1> QED BY <1>1, <1>2

-----------------------------------------------------------------------------
(* Types *)

\* A step that leaves the store alone keeps its invariant.
LEMMA StoreUnchangedKeepsInv ==
    ASSUME StoreInv, UNCHANGED storeVars
    PROVE  StoreInv'
BY StoreStepKeepsInv

\* Raising an event keeps the types.
LEMMA RaiseKeepsTypeInv ==
    ASSUME TypeInv, NEW t \in Threads, Raise(t)
    PROVE  TypeInv'
<1> USE DEF TypeInv
<1>1. StoreInv'
  <2>1. ExchangeStatusPending \/ ExchangeShellPending \/ UNCHANGED storeVars
    BY DEF Raise, ExchangeStatus, PostStatus, ExchangeShell, PostShell
  <2> QED BY <2>1, ExchangeKeepsInv, StoreUnchangedKeepsInv
<1>2. PICK step \in RaiseSteps \cup {AfterRaise(t), AfterStatus(t)} :
        Return(t, step) /\ pc[t] \in RaiseSteps
  BY DEF Raise, ExchangeStatus, PostStatus, ExchangeShell, PostShell, RaiseSteps
<1>3. UNCHANGED <<lock, connVars, rowVars, reporter>> /\ queued' \in Nat
  BY DEF Raise, ExchangeStatus, PostStatus, ExchangeShell, PostShell, TypeOK
<1>4. /\ t = "output" => step \in RaiseSteps \cup {"idle"}
      /\ t = "state" => step \in RaiseSteps \cup {"postState"}
      /\ t = "ui" => step \in RaiseSteps \cup {"idle", "revoke"}
  BY <1>2 DEF AfterRaise, AfterStatus, RaiseSteps
<1>5. /\ pc' = [pc EXCEPT ![t] = step]
      /\ uiOp' \in {uiOp, "none"}
  BY <1>2 DEF Return, Goto
<1>6. TypeOK'
  BY <1>1, <1>3, <1>4, <1>5
     DEF TypeOK, StoreInv, Threads, OutputSteps, StateSteps, UiSteps, RaiseSteps, connVars, rowVars, IsRecordMap
<1>7. LockHeld'
  BY <1>2, <1>3, <1>4, <1>5 DEF LockHeld, TypeOK, Threads, RaiseSteps
<1> QED BY <1>1, <1>6, <1>7

\* The output handler keeps the types.
LEMMA OutputKeepsTypeInv ==
    ASSUME TypeInv, OutputArrives \/ OutputLocks \/ OutputWrites \/ OutputUnlocks \/ OutputThrows
    PROVE  TypeInv'
<1> USE DEF TypeInv
<1>1. StoreInv'
  <2>1. ControlSequence \/ ConnectionGone \/ UNCHANGED storeVars
    BY DEF OutputArrives, OutputLocks, OutputWrites, OutputUnlocks, OutputThrows
  <2> QED BY <2>1, ControlSequenceKeepsInv, ConnectionGoneKeepsInv, StoreUnchangedKeepsInv
<1>2. UNCHANGED <<connVars, queued, rowVars, uiOp>>
  BY DEF OutputArrives, OutputLocks, OutputWrites, OutputUnlocks, OutputThrows
<1>3. reporter' \in [Ids -> Nat]
  BY DEF OutputArrives, OutputLocks, OutputWrites, OutputUnlocks, OutputThrows, TypeOK
<1>4. \/ UNCHANGED <<pc, lock>>
      \/ pc["output"] = "idle" /\ pc' = [pc EXCEPT !["output"] = "enter"] /\ lock' = lock
      \/ pc' = [pc EXCEPT !["output"] = "write"] /\ lock' = "output"
      \/ pc' = [pc EXCEPT !["output"] = "exchangeStatus"] /\ lock' = "free"
      \/ pc' = [pc EXCEPT !["output"] = "idle"] /\ lock' = "free"
  BY DEF OutputArrives, OutputLocks, OutputWrites, OutputUnlocks, OutputThrows, threadVars, Goto
<1>5. TypeOK' /\ LockHeld'
  BY <1>1, <1>2, <1>3, <1>4
     DEF TypeOK, LockHeld, StoreInv, Threads, OutputSteps, RaiseSteps, connVars, rowVars, IsRecordMap
<1> QED BY <1>1, <1>5

\* The StateChanged handler keeps the types.
LEMMA StateKeepsTypeInv ==
    ASSUME TypeInv, ConnectionCloses \/ StateRaised \/ StateSetsEnded \/ StateDrops \/ StatePosts
    PROVE  TypeInv'
<1> USE DEF TypeInv
<1>1. StoreInv'
  <2>1. ConnectionGone \/ UNCHANGED storeVars
    BY DEF ConnectionCloses, StateRaised, StateSetsEnded, StateDrops, StatePosts
  <2> QED BY <2>1, ConnectionGoneKeepsInv, StoreUnchangedKeepsInv
<1>2. UNCHANGED <<lock, rowVars, uiOp, reporter, subscribed, closing, generation>>
  BY DEF ConnectionCloses, StateRaised, StateSetsEnded, StateDrops, StatePosts, connVars
<1>3. conn' \in {conn, "closed"} /\ ended' \in {ended, TRUE} /\ queued' \in {queued, queued + 1}
  BY DEF ConnectionCloses, StateRaised, StateSetsEnded, StateDrops, StatePosts, connVars
<1>4. \E step \in StateSteps : pc' = [pc EXCEPT !["state"] = step]
  BY DEF ConnectionCloses, StateRaised, StateSetsEnded, StateDrops, StatePosts, Goto, StateSteps, RaiseSteps
<1>5. /\ pc' \in [Threads -> OutputSteps \cup StateSteps \cup UiSteps]
      /\ pc'["output"] = pc["output"] /\ pc'["ui"] = pc["ui"] /\ pc'["state"] \in StateSteps
  BY <1>4 DEF TypeOK, Threads
<1>6. conn' \in {"open", "closed"} /\ ended' \in BOOLEAN /\ queued' \in Nat
  <2>1. conn' \in {"open", "closed"} /\ queued' \in Nat
    BY <1>3, SMT DEF TypeOK
  <2>2. ended' \in BOOLEAN
    BY <1>3, Zenon DEF TypeOK
  <2> QED BY <2>1, <2>2
<1>7. TypeOK'
  BY <1>1, <1>2, <1>5, <1>6 DEF TypeOK, StoreInv, rowVars, IsRecordMap
<1>8. LockHeld'
  BY <1>2, <1>5 DEF LockHeld
<1> QED BY <1>1, <1>7, <1>8

\* The UI thread keeps the types.
LEMMA UiKeepsTypeInv ==
    ASSUME TypeInv,
           \/ UiTakes \/ UiRecomputes \/ UiReadsRecords \/ UiReadsRunning
           \/ UiRevokes \/ UiReconnects \/ UiClosed
           \/ (\E on \in BOOLEAN : UiSetsEnabled(on)) \/ UiResets \/ UiShutsDown
    PROVE  TypeInv'
<1> USE DEF TypeInv
<1>1. StoreInv'
  <2>1. (\E on \in BOOLEAN : SetEnabled(on)) \/ ProgramStatusReset \/ UNCHANGED storeVars
    BY DEF UiTakes, UiRecomputes, UiReadsRecords, UiReadsRunning, UiRevokes, UiReconnects, UiClosed,
           UiSetsEnabled, UiResets, UiShutsDown
  <2>2. ProgramStatusReset => ControlSequence
    BY DEF ControlSequence
  <2> QED BY <2>1, <2>2, SetEnabledKeepsInv, ControlSequenceKeepsInv, StoreUnchangedKeepsInv
<1>2. UNCHANGED <<lock, reporter>>
  BY DEF UiTakes, UiRecomputes, UiReadsRecords, UiReadsRunning, UiRevokes, UiReconnects, UiClosed,
         UiSetsEnabled, UiResets, UiShutsDown
<1>3. IsRecordMap(view') /\ viewRunning' \in BOOLEAN
  BY DEF UiTakes, UiRecomputes, UiReadsRecords, UiReadsRunning, UiRevokes, UiReconnects, UiClosed,
         UiSetsEnabled, UiResets, UiShutsDown, rowVars, TypeOK, StoreTypeOK
<1>4. /\ conn' \in {conn, "open"} /\ subscribed' \in {subscribed, TRUE, FALSE}
      /\ ended' \in {ended, FALSE} /\ closing' \in {closing, TRUE}
      /\ generation' \in {generation, generation + 1}
  BY DEF UiTakes, UiRecomputes, UiReadsRecords, UiReadsRunning, UiRevokes, UiReconnects, UiClosed,
         UiSetsEnabled, UiResets, UiShutsDown, connVars
<1>8. queued' \in Nat
  BY DEF UiTakes, UiRecomputes, UiReadsRecords, UiReadsRunning, UiRevokes, UiReconnects, UiClosed,
         UiSetsEnabled, UiResets, UiShutsDown, TypeOK
<1>5. uiOp' \in {"none", "enable", "restart", "shutdown"}
  BY DEF UiTakes, UiRecomputes, UiReadsRecords, UiReadsRunning, UiRevokes, UiReconnects, UiClosed,
         UiSetsEnabled, UiResets, UiShutsDown, Return, TypeOK
<1>6. \E step \in UiSteps : pc' = [pc EXCEPT !["ui"] = step]
  BY DEF UiTakes, UiRecomputes, UiReadsRecords, UiReadsRunning, UiRevokes, UiReconnects, UiClosed,
         UiSetsEnabled, UiResets, UiShutsDown, Return, Goto, UiSteps, RaiseSteps
<1>7. /\ pc' \in [Threads -> OutputSteps \cup StateSteps \cup UiSteps]
      /\ pc'["output"] = pc["output"] /\ pc'["state"] = pc["state"] /\ pc'["ui"] \in UiSteps
  BY <1>6 DEF TypeOK, Threads
<1>9. /\ conn' \in {"open", "closed"} /\ generation' \in Nat
      /\ subscribed' \in BOOLEAN /\ ended' \in BOOLEAN /\ closing' \in BOOLEAN
  <2>1. conn' \in {"open", "closed"} /\ generation' \in Nat
    BY <1>4, SMT DEF TypeOK
  <2>2. subscribed' \in BOOLEAN /\ ended' \in BOOLEAN /\ closing' \in BOOLEAN
    BY <1>4, Zenon DEF TypeOK
  <2> QED BY <2>1, <2>2
<1>10. TypeOK'
  BY <1>1, <1>2, <1>3, <1>5, <1>7, <1>8, <1>9 DEF TypeOK, StoreInv, IsRecordMap
<1>11. LockHeld'
  BY <1>2, <1>7 DEF LockHeld
<1> QED BY <1>1, <1>10, <1>11

\* Every step of the control keeps the types.
LEMMA StepKeepsTypeInv ==
    ASSUME TypeInv, [Next]_vars
    PROVE  TypeInv'
<1>1. ASSUME UNCHANGED vars PROVE TypeInv'
  <2>1. StoreInv'
    BY <1>1, StoreUnchangedKeepsInv DEF TypeInv, vars
  <2> QED
    BY <1>1, <2>1 DEF TypeInv, TypeOK, StoreInv, LockHeld, vars, threadVars, connVars, rowVars, IsRecordMap
<1>2. "output" \in Threads /\ "state" \in Threads /\ "ui" \in Threads
  BY DEF Threads
<1> QED
  BY <1>1, <1>2, RaiseKeepsTypeInv, OutputKeepsTypeInv, StateKeepsTypeInv, UiKeepsTypeInv
     DEF Next, OutputNext, StateNext, UiWork, UiRequest, Terminated

\* A new terminal control has the right types.
LEMMA InitTypeInv == Init => TypeInv
<1> SUFFICES ASSUME Init PROVE TypeInv
  OBVIOUS
<1>1. StoreInv
  BY StoreInitInv DEF Init
<1>2. IsRecordMap(view)
  BY NoRecordsIsRecordMap DEF Init
<1>3. TypeOK
  BY <1>1, <1>2 DEF Init, TypeOK, StoreInv, Threads, OutputSteps, StateSteps, UiSteps
<1> QED BY <1>1, <1>3 DEF Init, TypeInv, LockHeld, Threads

\* The variables of the control keep their types (ControlCore.cpp).
THEOREM TypeCorrect == Spec => []TypeOK
<1>1. Spec => []TypeInv
  <2>1. TypeInv /\ [Next]_vars => TypeInv'
    BY StepKeepsTypeInv
  <2> QED BY <2>1, InitTypeInv, PTL DEF Spec
<1>2. TypeInv => TypeOK
  BY DEF TypeInv
<1> QED BY <1>1, <1>2, PTL

-----------------------------------------------------------------------------
(* No lost update *)

\* A step after which a due read is still due, and a change makes one due.
DueKept ==
    /\ view' = view
    /\ RecordsReadDue => RecordsReadDue'
    /\ records' # records => RecordsReadDue'

RunningDueKept ==
    /\ viewRunning' = viewRunning
    /\ RunningReadDue => RunningReadDue'
    /\ running' # running => RunningReadDue'

\* A step of a thread that is neither posting nor reading keeps what is due.
LEMMA QuietStep ==
    ASSUME TypeInv, NEW t \in Threads, NEW step,
           pc' = [pc EXCEPT ![t] = step] \/ pc' = pc,
           pc[t] \notin {"postStatus", "postShell", "readRecords", "readRunning"},
           queued' \in {queued, queued + 1},
           Notified, UNCHANGED rowVars
    PROVE  DueKept /\ RunningDueKept
<1>1. \A u \in Threads : pc[u] \in {"postStatus", "postShell", "readRecords", "readRunning"} => pc'[u] = pc[u]
  BY DEF TypeInv, TypeOK
<1>2. queued \in Nat
  BY DEF TypeInv, TypeOK
<1>3. queued > 0 => queued' > 0
  BY <1>2
<1>4. "ui" \in Threads
  BY DEF Threads
<1>5. (RecordsReadDue => RecordsReadDue') /\ (records' # records => RecordsReadDue')
  BY <1>1, <1>3, <1>4 DEF RecordsReadDue, Notified
<1>6. (RunningReadDue => RunningReadDue') /\ (running' # running => RunningReadDue')
  BY <1>1, <1>3, <1>4 DEF RunningReadDue, Notified
<1> QED BY <1>5, <1>6 DEF DueKept, RunningDueKept, rowVars

\* Doing nothing to the store is nothing to notice.
LEMMA UnchangedNotified == ASSUME UNCHANGED storeVars PROVE Notified
BY DEF storeVars, Notified

\* The output handler loses nothing.
LEMMA OutputKeepsDue ==
    ASSUME TypeInv, OutputArrives \/ OutputLocks \/ OutputWrites \/ OutputUnlocks \/ OutputThrows
    PROVE  DueKept /\ RunningDueKept
<1>1. Notified
  <2>1. ControlSequence \/ ConnectionGone \/ UNCHANGED storeVars
    BY DEF OutputArrives, OutputLocks, OutputWrites, OutputUnlocks, OutputThrows
  <2> QED BY <2>1, ControlSequenceNotified, ConnectionGoneNotified, UnchangedNotified DEF TypeInv
<1>2. /\ pc["output"] \in {"idle", "enter", "write"} /\ UNCHANGED rowVars /\ queued' = queued
      /\ (\E step : pc' = [pc EXCEPT !["output"] = step]) \/ pc' = pc
  BY DEF OutputArrives, OutputLocks, OutputWrites, OutputUnlocks, OutputThrows, Goto, threadVars
<1> QED BY <1>1, <1>2, QuietStep DEF Threads

\* The StateChanged handler loses nothing.
LEMMA StateKeepsDue ==
    ASSUME TypeInv, ConnectionCloses \/ StateRaised \/ StateSetsEnded \/ StateDrops \/ StatePosts
    PROVE  DueKept /\ RunningDueKept
<1>1. Notified
  <2>1. ConnectionGone \/ UNCHANGED storeVars
    BY DEF ConnectionCloses, StateRaised, StateSetsEnded, StateDrops, StatePosts
  <2> QED BY <2>1, ConnectionGoneNotified, UnchangedNotified DEF TypeInv
<1>2. /\ pc["state"] \in {"idle", "raise", "setEnded", "drop", "postState"} /\ UNCHANGED rowVars
      /\ queued' \in {queued, queued + 1}
      /\ \E step : pc' = [pc EXCEPT !["state"] = step]
  BY DEF ConnectionCloses, StateRaised, StateSetsEnded, StateDrops, StatePosts, Goto
<1> QED BY <1>1, <1>2, QuietStep DEF Threads

\* Nor do the requests the UI thread serves.
LEMMA RequestsKeepDue ==
    ASSUME TypeInv,
           \/ (\E on \in BOOLEAN : UiSetsEnabled(on)) \/ UiResets \/ UiShutsDown
           \/ UiRevokes \/ UiReconnects \/ UiClosed
    PROVE  DueKept /\ RunningDueKept
<1>1. Notified
  <2>1. (\E on \in BOOLEAN : SetEnabled(on)) \/ ProgramStatusReset \/ UNCHANGED storeVars
    BY DEF UiSetsEnabled, UiResets, UiShutsDown, UiRevokes, UiReconnects, UiClosed
  <2> QED BY <2>1, SetEnabledNotified, ResetNotified, UnchangedNotified DEF TypeInv
<1>2. /\ pc["ui"] \in {"idle", "revoke", "close"} /\ UNCHANGED rowVars
      /\ queued' \in {queued, queued + 1}
      /\ \E step : pc' = [pc EXCEPT !["ui"] = step]
  BY DEF UiSetsEnabled, UiResets, UiShutsDown, UiRevokes, UiReconnects, UiClosed, UiIdle, Return, Goto
<1> QED BY <1>1, <1>2, QuietStep DEF Threads

\* An event that is taken from its flag is posted, one that is posted is queued.
LEMMA RaiseKeepsDue ==
    ASSUME TypeInv, NEW t \in Threads, Raise(t)
    PROVE  DueKept /\ RunningDueKept
<1> USE DEF TypeInv, TypeOK
<1>0. /\ UNCHANGED <<view, viewRunning, records, running>>
      /\ \A step : Return(t, step) => \A u \in Threads : u # t => pc'[u] = pc[u]
      /\ \A step : Return(t, step) => pc'[t] = step
      /\ queued \in Nat
      /\ "ui" \in Threads
  BY DEF Raise, ExchangeStatus, PostStatus, ExchangeShell, PostShell, rowVars, storeVars,
         ExchangeStatusPending, ExchangeShellPending, Return, Goto, Threads
<1>1. CASE ExchangeStatus(t)
  <2>1. pc[t] = "exchangeStatus" /\ \A u \in Threads : u # t => pc'[u] = pc[u]
    BY <1>0, <1>1 DEF ExchangeStatus
  <2>2. statusPending => pc'[t] = "postStatus"
    BY <1>0, <1>1 DEF ExchangeStatus
  <2>3. UNCHANGED <<shellPending, queued>>
    BY <1>1 DEF ExchangeStatus, ExchangeStatusPending
  <2>4. RecordsReadDue => RecordsReadDue'
    BY <1>0, <2>1, <2>2, <2>3 DEF RecordsReadDue
  <2>5. RunningReadDue => RunningReadDue'
    BY <1>0, <2>1, <2>3 DEF RunningReadDue
  <2> QED BY <1>0, <2>4, <2>5 DEF DueKept, RunningDueKept
<1>2. CASE ExchangeShell(t)
  <2>1. pc[t] = "exchangeShell" /\ \A u \in Threads : u # t => pc'[u] = pc[u]
    BY <1>0, <1>2 DEF ExchangeShell
  <2>2. shellPending => pc'[t] = "postShell"
    BY <1>0, <1>2 DEF ExchangeShell
  <2>3. UNCHANGED <<statusPending, queued>>
    BY <1>2 DEF ExchangeShell, ExchangeShellPending
  <2>4. RecordsReadDue => RecordsReadDue'
    BY <1>0, <2>1, <2>3 DEF RecordsReadDue
  <2>5. RunningReadDue => RunningReadDue'
    BY <1>0, <2>1, <2>2, <2>3 DEF RunningReadDue
  <2> QED BY <1>0, <2>4, <2>5 DEF DueKept, RunningDueKept
<1>3. CASE PostStatus(t) \/ PostShell(t)
  <2>1. queued' > 0
    BY <1>0, <1>3 DEF PostStatus, PostShell
  <2> QED BY <1>0, <2>1 DEF DueKept, RunningDueKept, RecordsReadDue, RunningReadDue
<1> QED BY <1>1, <1>2, <1>3 DEF Raise

\* A row that is about to be derived again is so until it is read.
LEMMA ReadsKeepDue ==
    ASSUME TypeInv, UiTakes \/ UiRecomputes \/ UiReadsRecords \/ UiReadsRunning
    PROVE  /\ UiReadsRecords \/ DueKept
           /\ UiReadsRunning \/ RunningDueKept
<1> USE DEF TypeInv, TypeOK, Goto, Threads, storeVars, rowVars
<1>1. CASE UiTakes
  BY <1>1 DEF UiTakes, DueKept, RunningDueKept, RecordsReadDue, RunningReadDue
<1>2. CASE UiRecomputes
  BY <1>2 DEF UiRecomputes, DueKept, RunningDueKept, RecordsReadDue, RunningReadDue
<1>3. CASE UiReadsRecords
  BY <1>3 DEF UiReadsRecords, RunningDueKept, RunningReadDue
<1>4. CASE UiReadsRunning
  BY <1>4 DEF UiReadsRunning, DueKept, RecordsReadDue
<1> QED BY <1>1, <1>2, <1>3, <1>4

\* A step either reads or keeps what is due.
LEMMA StepKeepsDue ==
    ASSUME TypeInv, [Next]_vars
    PROVE  /\ UiReadsRecords \/ DueKept
           /\ UiReadsRunning \/ RunningDueKept
<1>1. ASSUME UNCHANGED vars PROVE DueKept /\ RunningDueKept
  BY <1>1 DEF vars, storeVars, threadVars, rowVars, DueKept, RunningDueKept, RecordsReadDue, RunningReadDue
<1>2. "output" \in Threads /\ "state" \in Threads /\ "ui" \in Threads
  BY DEF Threads
<1> QED
  BY <1>1, <1>2, RaiseKeepsDue, OutputKeepsDue, StateKeepsDue, RequestsKeepDue, ReadsKeepDue
     DEF Next, OutputNext, StateNext, UiWork, UiRequest, Terminated

\* Hence no update is lost.
LEMMA StepKeepsNoLostUpdate ==
    ASSUME TypeInv, NoLostUpdate, [Next]_vars
    PROVE  NoLostUpdate'
<1>1. (view # records => RecordsReadDue)'
  <2>1. CASE UiReadsRecords
    BY <2>1 DEF UiReadsRecords, storeVars
  <2>2. CASE DueKept
    BY <2>2 DEF DueKept, NoLostUpdate
  <2> QED BY <2>1, <2>2, StepKeepsDue
<1>2. (viewRunning # running => RunningReadDue)'
  <2>1. CASE UiReadsRunning
    BY <2>1 DEF UiReadsRunning, storeVars
  <2>2. CASE RunningDueKept
    BY <2>2 DEF RunningDueKept, NoLostUpdate
  <2> QED BY <2>1, <2>2, StepKeepsDue
<1> QED BY <1>1, <1>2 DEF NoLostUpdate

-----------------------------------------------------------------------------
(* Flags have owners *)

\* The threads that have yet to take the flag of each event.
StatusOwned == pc["output"] = "write" \/ \E t \in Threads : pc[t] = "exchangeStatus"
ShellOwned ==
    \/ pc["output"] = "write"
    \/ \E t \in Threads :
         /\ pc[t] \in {"exchangeStatus", "postStatus", "exchangeShell"}
         /\ ~(t = "ui" /\ uiOp = "enable")

\* Taking one flag leaves the other with its owner.
LEMMA RaiseKeepsOwned ==
    ASSUME TypeInv, PendingIsOwned, NEW t \in Threads, Raise(t)
    PROVE  PendingIsOwned'
<1> USE DEF TypeInv, TypeOK
<1>0. /\ closing' = closing
      /\ \A step : Return(t, step) => pc'[t] = step /\ \A u \in Threads : u # t => pc'[u] = pc[u]
      /\ "output" \in Threads
      /\ t # "ui" => uiOp' = uiOp
      /\ pc[t] # "write"
  BY DEF Raise, ExchangeStatus, PostStatus, ExchangeShell, PostShell, connVars, Return, Goto, Threads
<1>1. CASE ExchangeStatus(t)
  <2>1. /\ pc[t] = "exchangeStatus" /\ \A u \in Threads : u # t => pc'[u] = pc[u]
        /\ pc'[t] \in {"postStatus", AfterStatus(t)}
        /\ statusPending' = FALSE /\ shellPending' = shellPending
    BY <1>0, <1>1 DEF ExchangeStatus, ExchangeStatusPending
  <2>2. ~(t = "ui" /\ uiOp = "enable") => pc'[t] \in {"postStatus", "exchangeShell"} /\ uiOp' = uiOp
    BY <1>1, <2>1 DEF ExchangeStatus, AfterStatus, Return
  <2>3. ShellOwned => ShellOwned'
    BY <1>0, <2>1, <2>2 DEF ShellOwned
  <2> QED BY <1>0, <2>1, <2>3 DEF PendingIsOwned, ShellOwned
<1>2. CASE PostStatus(t)
  <2>1. /\ pc[t] = "postStatus" /\ \A u \in Threads : u # t => pc'[u] = pc[u]
        /\ pc'[t] = AfterStatus(t)
        /\ statusPending' = statusPending /\ shellPending' = shellPending
    BY <1>0, <1>2 DEF PostStatus, storeVars
  <2>2. ~(t = "ui" /\ uiOp = "enable") => pc'[t] = "exchangeShell" /\ uiOp' = uiOp
    BY <1>2, <2>1 DEF PostStatus, AfterStatus, Return
  <2>3. ShellOwned => ShellOwned'
    BY <1>0, <2>1, <2>2 DEF ShellOwned
  <2>4. StatusOwned => StatusOwned'
    BY <1>0, <2>1 DEF StatusOwned
  <2> QED BY <1>0, <2>1, <2>3, <2>4 DEF PendingIsOwned, ShellOwned, StatusOwned
<1>3. CASE ExchangeShell(t)
  <2>1. /\ pc[t] = "exchangeShell" /\ \A u \in Threads : u # t => pc'[u] = pc[u]
        /\ statusPending' = statusPending /\ shellPending' = FALSE
    BY <1>0, <1>3 DEF ExchangeShell, ExchangeShellPending
  <2>2. StatusOwned => StatusOwned'
    BY <1>0, <2>1 DEF StatusOwned
  <2> QED BY <1>0, <2>1, <2>2 DEF PendingIsOwned, StatusOwned
<1>4. CASE PostShell(t)
  <2>1. /\ pc[t] = "postShell" /\ \A u \in Threads : u # t => pc'[u] = pc[u]
        /\ statusPending' = statusPending /\ shellPending' = shellPending
    BY <1>0, <1>4 DEF PostShell, storeVars
  <2>2. StatusOwned => StatusOwned'
    BY <1>0, <2>1 DEF StatusOwned
  <2>3. ShellOwned => ShellOwned'
    BY <1>0, <2>1 DEF ShellOwned
  <2> QED BY <1>0, <2>1, <2>2, <2>3 DEF PendingIsOwned, StatusOwned, ShellOwned
<1> QED BY <1>1, <1>2, <1>3, <1>4 DEF Raise

\* Whoever changes the store goes on to take the flags.
LEMMA StepKeepsOwned ==
    ASSUME TypeInv, PendingIsOwned, [Next]_vars
    PROVE  PendingIsOwned'
<1> USE DEF TypeInv, TypeOK, PendingIsOwned, Threads, Goto
<1>1. CASE OutputArrives \/ OutputLocks
  BY <1>1 DEF OutputArrives, OutputLocks, storeVars, connVars
<1>2. CASE OutputWrites
  BY <1>2 DEF OutputWrites, threadVars
<1>3. CASE OutputUnlocks
  BY <1>3 DEF OutputUnlocks, connVars
<1>4. CASE OutputThrows
  BY <1>4 DEF OutputThrows, connVars
<1>5. CASE ConnectionCloses \/ StateRaised \/ StateSetsEnded \/ StatePosts
  BY <1>5 DEF ConnectionCloses, StateRaised, StateSetsEnded, StatePosts, storeVars, connVars
<1>6. CASE StateDrops
  BY <1>6 DEF StateDrops, connVars
<1>7. CASE UiTakes \/ UiRecomputes \/ UiReadsRecords \/ UiReadsRunning
  BY <1>7 DEF UiTakes, UiRecomputes, UiReadsRecords, UiReadsRunning, UiIdle, storeVars, connVars
<1>8. CASE UiRevokes \/ UiClosed
  BY <1>8 DEF UiRevokes, UiClosed, storeVars, connVars
<1>9. CASE UiReconnects
  BY <1>9 DEF UiReconnects, Return, storeVars
<1>10. CASE UiShutsDown
  BY <1>10 DEF UiShutsDown
<1>11. ASSUME NEW on \in BOOLEAN, UiSetsEnabled(on) PROVE PendingIsOwned'
  BY <1>11 DEF UiSetsEnabled, UiIdle, SetEnabled, connVars
<1>12. CASE UiResets
  BY <1>12 DEF UiResets, connVars
<1>13. CASE UNCHANGED vars
  BY <1>13 DEF vars, storeVars, threadVars, connVars
<1> QED
  BY <1>1, <1>2, <1>3, <1>4, <1>5, <1>6, <1>7, <1>8, <1>9, <1>10, <1>11, <1>12, <1>13, RaiseKeepsOwned
     DEF Next, OutputNext, StateNext, UiWork, UiRequest, Terminated

-----------------------------------------------------------------------------
(* The end of a connection sticks *)

\* Late output, resets and the switch revive nothing.
LEMMA StepKeepsEnded ==
    ASSUME TypeInv, EndedStaysEnded, [Next]_vars
    PROVE  EndedStaysEnded'
<1> USE DEF TypeInv, TypeOK, EndedStaysEnded, Threads, Goto
<1>1. ASSUME NEW t \in Threads, Raise(t) PROVE EndedStaysEnded'
  <2>1. UNCHANGED <<records, running, lock, ended, closing>>
    BY <1>1 DEF Raise, ExchangeStatus, PostStatus, ExchangeShell, PostShell, ExchangeStatusPending,
                ExchangeShellPending, storeVars, connVars
  <2>2. pc["state"] = "drop" => pc'["state"] = "drop"
    BY <1>1 DEF Raise, ExchangeStatus, PostStatus, ExchangeShell, PostShell, Return
  <2> QED BY <2>1, <2>2 DEF NoLiveRecords
<1>2. CASE OutputArrives \/ OutputLocks
  BY <1>2 DEF OutputArrives, OutputLocks, storeVars, connVars, NoLiveRecords
<1>3. CASE OutputWrites
  BY <1>3 DEF OutputWrites, threadVars, LockHeld
<1>4. CASE OutputUnlocks
  <2>1. CASE ended
    BY <1>4, <2>1, ConnectionGoneNotified DEF OutputUnlocks
  <2>2. CASE ~ended
    BY <1>4, <2>2 DEF OutputUnlocks, connVars
  <2> QED BY <2>1, <2>2
<1>5. CASE OutputThrows
  BY <1>5 DEF OutputThrows, connVars
<1>6. CASE ConnectionCloses \/ StateRaised \/ StatePosts
  BY <1>6 DEF ConnectionCloses, StateRaised, StatePosts, storeVars, connVars, NoLiveRecords
<1>7. CASE StateSetsEnded
  BY <1>7 DEF StateSetsEnded
<1>8. CASE StateDrops
  BY <1>8, ConnectionGoneNotified DEF StateDrops
<1>9. CASE UiTakes \/ UiRecomputes \/ UiReadsRecords \/ UiReadsRunning
  BY <1>9 DEF UiTakes, UiRecomputes, UiReadsRecords, UiReadsRunning, storeVars, connVars, NoLiveRecords
<1>10. CASE UiRevokes \/ UiClosed
  BY <1>10 DEF UiRevokes, UiClosed, storeVars, connVars, NoLiveRecords
<1>11. CASE UiReconnects
  BY <1>11 DEF UiReconnects
<1>12. CASE UiShutsDown
  BY <1>12 DEF UiShutsDown
<1>13. ASSUME NEW on \in BOOLEAN, UiSetsEnabled(on) PROVE EndedStaysEnded'
  <2>1. SetEnabled(on) /\ UNCHANGED <<lock, ended, closing>> /\ pc'["state"] = pc["state"]
    BY <1>13 DEF UiSetsEnabled, connVars
  <2> QED BY <2>1, SetEnabledNotified
<1>14. CASE UiResets
  BY <1>14, ResetNotified DEF UiResets
<1>15. CASE UNCHANGED vars
  BY <1>15 DEF vars, storeVars, threadVars, connVars, NoLiveRecords
<1> QED
  BY <1>1, <1>2, <1>3, <1>4, <1>5, <1>6, <1>7, <1>8, <1>9, <1>10, <1>11, <1>12, <1>13, <1>14, <1>15
     DEF Next, OutputNext, StateNext, UiWork, UiRequest, Terminated

-----------------------------------------------------------------------------
(* Theorems *)

\* The inductive invariant of the control holds.
THEOREM CoreInvariant == Spec => []CoreInv
<1>1. Init => CoreInv
  <2> SUFFICES ASSUME Init PROVE CoreInv
    OBVIOUS
  <2>1. NoLostUpdate /\ EndedStaysEnded
    BY DEF Init, StoreInit, NoLostUpdate, EndedStaysEnded
  <2>2. PendingIsOwned
    BY DEF Init, StoreInit, PendingIsOwned
  <2> QED BY <2>1, <2>2, InitTypeInv DEF CoreInv
<1>2. CoreInv /\ [Next]_vars => CoreInv'
  BY StepKeepsTypeInv, StepKeepsNoLostUpdate, StepKeepsOwned, StepKeepsEnded DEF CoreInv
<1> QED BY <1>1, <1>2, PTL DEF Spec

\* A row that differs from its terminal is always about to be derived again
\* (ControlCore.cpp's deferred flags, Tab.cpp's raiseOnUi).
THEOREM NoUpdateIsLost == Spec => []NoLostUpdate
BY CoreInvariant, PTL DEF CoreInv

\* A set flag always has a thread that will take it.
THEOREM FlagsAreOwned == Spec => []PendingIsOwned
BY CoreInvariant, PTL DEF CoreInv

\* Output after the connection ended revives neither a live record nor the
\* running flag (the re-applied drop of _connectionOutputHandler).
THEOREM EndIsFinal == Spec => []EndedStaysEnded
BY CoreInvariant, PTL DEF CoreInv

\* Only UiClosed closes the feed.
LEMMA StepKeepsOpen ==
    ASSUME TypeInv, [Next]_vars, ~UiClosed
    PROVE  pc["ui"] = "closed" <=> pc'["ui"] = "closed"
<1> USE DEF TypeInv, TypeOK, Threads, Goto
<1>1. ASSUME NEW t \in Threads, Raise(t) PROVE pc["ui"] = "closed" <=> pc'["ui"] = "closed"
  <2>1. pc[t] \in RaiseSteps /\ \E step : step # "closed" /\ pc' = [pc EXCEPT ![t] = step]
    <3>1. AfterRaise(t) # "closed" /\ AfterStatus(t) # "closed"
      BY DEF AfterRaise, AfterStatus
    <3>2. CASE ExchangeStatus(t)
      BY <3>1, <3>2 DEF ExchangeStatus, Return, RaiseSteps
    <3>3. CASE PostStatus(t)
      BY <3>1, <3>3 DEF PostStatus, Return, RaiseSteps
    <3>4. CASE ExchangeShell(t)
      BY <3>1, <3>4 DEF ExchangeShell, Return, RaiseSteps
    <3>5. CASE PostShell(t)
      BY <3>1, <3>5 DEF PostShell, Return, RaiseSteps
    <3> QED BY <1>1, <3>2, <3>3, <3>4, <3>5 DEF Raise
  <2> QED BY <2>1 DEF RaiseSteps
<1>2. CASE OutputArrives \/ OutputLocks \/ OutputWrites \/ OutputUnlocks \/ OutputThrows
  BY <1>2 DEF OutputArrives, OutputLocks, OutputWrites, OutputUnlocks, OutputThrows, threadVars
<1>3. CASE ConnectionCloses \/ StateRaised \/ StateSetsEnded \/ StateDrops \/ StatePosts
  BY <1>3 DEF ConnectionCloses, StateRaised, StateSetsEnded, StateDrops, StatePosts
<1>4. CASE UiTakes \/ UiRecomputes \/ UiReadsRecords \/ UiReadsRunning
  BY <1>4 DEF UiTakes, UiRecomputes, UiReadsRecords, UiReadsRunning, UiIdle
<1>5. CASE (\E on \in BOOLEAN : UiSetsEnabled(on)) \/ UiResets \/ UiShutsDown
  BY <1>5 DEF UiSetsEnabled, UiResets, UiShutsDown, UiIdle
<1>6. CASE UiRevokes \/ UiReconnects
  BY <1>6 DEF UiRevokes, UiReconnects, Return
<1>7. CASE UNCHANGED vars
  BY <1>7 DEF vars, threadVars
<1> QED
  BY <1>1, <1>2, <1>3, <1>4, <1>5, <1>6, <1>7
     DEF Next, OutputNext, StateNext, UiWork, UiRequest, Terminated

\* The control, with its locks, flags and queue, implements the feed.
THEOREM ImplementsFeed == Spec => FeedSpec
<1>1. Init => Feed!FeedInit
  <2> SUFFICES ASSUME Init PROVE Feed!FeedInit
    OBVIOUS
  <2>1. view = records /\ ~RecordsReadDue /\ pc["ui"] # "closed"
    BY DEF Init, StoreInit, RecordsReadDue, Threads
  <2>2. RecordsReadDue \in BOOLEAN
    BY DEF RecordsReadDue
  <2> QED BY <2>1, <2>2 DEF Feed!FeedInit
<1>2. TypeInv /\ TypeInv' /\ [Next]_vars => [Feed!FeedNext]_Feed!feedVars
  <2> SUFFICES ASSUME TypeInv, TypeInv', [Next]_vars PROVE Feed!FeedNext \/ UNCHANGED Feed!feedVars
    BY DEF Feed!feedVars
  <2>1. CASE UiReadsRecords
    <3>1. /\ view' = records /\ records' = records
          /\ pc["ui"] # "closed" /\ pc'["ui"] # "closed"
      BY <2>1 DEF UiReadsRecords, storeVars, Goto, TypeInv, TypeOK, Threads
    <3>2. (RecordsReadDue)' \in BOOLEAN
      BY DEF RecordsReadDue
    <3> QED BY <3>1, <3>2 DEF Feed!FeedNext, Feed!Refresh
  <2>2. CASE DueKept /\ UiClosed
    <3>1. UNCHANGED <<records, view>> /\ pc'["ui"] = "closed"
      BY <2>2 DEF UiClosed, storeVars, rowVars, Goto, TypeInv, TypeOK, Threads
    <3>2. (RecordsReadDue)' = RecordsReadDue
      BY <2>2 DEF UiClosed, RecordsReadDue, storeVars, Goto, TypeInv, TypeOK, Threads
    <3> QED BY <3>1, <3>2 DEF Feed!FeedNext, Feed!CloseFeed
  <2>3. CASE DueKept /\ ~UiClosed
    <3>1. view' = view /\ (pc["ui"] # "closed")' = (pc["ui"] # "closed")
      BY <2>3, StepKeepsOpen DEF DueKept
    <3>2. RecordsReadDue \in BOOLEAN /\ (RecordsReadDue)' \in BOOLEAN
      BY DEF RecordsReadDue
    <3>3. CASE (RecordsReadDue)'
      BY <3>1, <3>2, <3>3 DEF Feed!FeedNext, Feed!Publish
    <3>4. CASE ~(RecordsReadDue)'
      <4>1. (RecordsReadDue)' = RecordsReadDue
        BY <2>3, <3>2, <3>4 DEF DueKept
      <4>2. records' = records
        BY <2>3, <3>4 DEF DueKept
      <4> QED BY <3>1, <4>1, <4>2 DEF Feed!feedVars
    <3> QED BY <3>3, <3>4
  <2> QED BY <2>1, <2>2, <2>3, StepKeepsDue
<1>3. Spec => []TypeInv
  BY InitTypeInv, StepKeepsTypeInv, PTL DEF Spec
<1> QED BY <1>1, <1>2, <1>3, PTL DEF Spec, FeedSpec, Feed!FeedSpec

-----------------------------------------------------------------------------
(* A restart leaves nothing behind *)

\* What a user request leaves in the UI thread, and what the connection is in
\* meanwhile.
RequestsOK ==
    /\ closing <=> uiOp = "shutdown"
    /\ closing => pc["ui"] \in {"revoke", "close", "closed"}
    /\ uiOp = "restart" => conn = "closed"
    /\ ended => conn = "closed"

\* Output of a connection that has closed comes after its StateChanged
\* handler, when both come from one thread.
OutputAfterState ==
    /\ pc["output"] # "idle" => pc["state"] = "idle"
    /\ (conn = "closed" /\ pc["output"] # "idle") => ended
    /\ (conn = "closed" /\ pc["state"] = "idle" /\ subscribed) => ended
    /\ pc["state"] \in {"raise", "setEnded"} => conn = "closed"
    /\ pc["state"] \notin {"idle", "raise", "setEnded"} => ended

\* From the reset on nothing is live, but for what a handler that still has
\* the lock is about to drop.
RestartClean == uiOp = "restart" => NoLiveRecords \/ (ended /\ pc["output"] = "write")

RestartInv == RequestsOK /\ OutputAfterState /\ RestartClean /\ LiveIsCurrent

\* A step that adds no live record keeps the live ones current.
LEMMA NoNewLive ==
    ASSUME LiveIsCurrent, UNCHANGED <<generation, reporter>>,
           \A id \in DOMAIN records' : id \in DOMAIN records /\ records'[id] = records[id]
    PROVE  /\ LiveIsCurrent'
           /\ NoLiveRecords => NoLiveRecords'
BY DEF LiveIsCurrent, NoLiveRecords

\* Dropping, clearing and switching add no live record.
LEMMA OwnerCallsAddNothing ==
    ASSUME StoreInv,
           \/ ConnectionGone \/ ProgramStatusReset \/ (\E on \in BOOLEAN : SetEnabled(on))
           \/ ExchangeStatusPending \/ ExchangeShellPending \/ UNCHANGED storeVars
    PROVE  \A id \in DOMAIN records' : id \in DOMAIN records /\ records'[id] = records[id]
<1>1. \/ UNCHANGED records
      \/ \E S \in SUBSET DOMAIN records : records' = Keep(S)
  BY NoRecordsIsKeepNothing DEF ConnectionGone, DropLive, ProgramStatusReset, ClearAll, SetEnabled,
     SetProgramStatusEnabled, ExchangeStatusPending, ExchangeShellPending, storeVars
<1> QED BY <1>1, RemovalAddsNothing

\* A chunk of output marks what it adds as its own.
LEMMA WritesKeepCurrent ==
    ASSUME TypeInv, LiveIsCurrent, OutputWrites
    PROVE  LiveIsCurrent'
<1>1. StoreNext
  BY DEF OutputWrites, StoreNext
<1>2. \A id \in DOMAIN records' :
        (id \notin DOMAIN records \/ records[id] # records'[id]) => records'[id].revision > revision
  BY <1>1, StepReportsNew DEF TypeInv
<1>3. DOMAIN records' \subseteq Ids
  <2>1. StoreInv'
    BY ControlSequenceKeepsInv DEF OutputWrites, TypeInv
  <2> QED BY <2>1 DEF StoreInv, RecordsOK, IsRecordMap
<1>4. UNCHANGED generation
  BY DEF OutputWrites, connVars
<1> SUFFICES ASSUME NEW id \in DOMAIN records', IsLive(records'[id].state)
             PROVE  reporter'[id] = generation
  BY <1>4 DEF LiveIsCurrent
<1>5. CASE records'[id].revision > revision
  BY <1>3, <1>5 DEF OutputWrites
<1>6. CASE ~(records'[id].revision > revision)
  <2>1. id \in DOMAIN records /\ records[id] = records'[id]
    BY <1>2, <1>6
  <2> QED BY <1>3, <1>6, <2>1 DEF OutputWrites, LiveIsCurrent
<1> QED BY <1>5, <1>6

\* Raising an event concerns no record and no connection.
LEMMA RaiseKeepsRestart ==
    ASSUME TypeInv, RestartInv, NEW t \in Threads, Raise(t)
    PROVE  RestartInv'
<1> USE DEF TypeInv, TypeOK
<1>1. UNCHANGED <<conn, subscribed, ended, closing, generation, reporter>>
  BY DEF Raise, ExchangeStatus, PostStatus, ExchangeShell, PostShell, connVars
<1>2. PICK step : /\ pc[t] \in RaiseSteps /\ Return(t, step)
                  /\ step \in RaiseSteps \cup {AfterRaise(t), AfterStatus(t)}
  BY DEF Raise, ExchangeStatus, PostStatus, ExchangeShell, PostShell, RaiseSteps
<1>3. /\ pc' = [pc EXCEPT ![t] = step]
      /\ uiOp' = IF t = "ui" /\ step = "idle" THEN "none" ELSE uiOp
      /\ t = "output" => step # "write" /\ pc[t] # "write"
      /\ t = "state" => step \notin {"idle", "raise", "setEnded"}
  BY <1>2 DEF Return, Goto, AfterRaise, AfterStatus, RaiseSteps
<1>4. RequestsOK'
  BY <1>1, <1>2, <1>3 DEF RestartInv, RequestsOK, RaiseSteps, Threads
<1>5. OutputAfterState'
  BY <1>1, <1>2, <1>3 DEF RestartInv, OutputAfterState, RaiseSteps, Threads
<1>6. LiveIsCurrent' /\ (NoLiveRecords => NoLiveRecords')
  <2>1. ExchangeStatusPending \/ ExchangeShellPending \/ UNCHANGED storeVars
    BY DEF Raise, ExchangeStatus, PostStatus, ExchangeShell, PostShell
  <2> QED BY <1>1, <2>1, OwnerCallsAddNothing, NoNewLive DEF RestartInv
<1>7. RestartClean'
  BY <1>1, <1>2, <1>3, <1>6 DEF RestartInv, RestartClean, Threads
<1> QED BY <1>4, <1>5, <1>6, <1>7 DEF RestartInv

\* A step that changes neither the store nor who reported what.
LEMMA QuietForRestart ==
    ASSUME TypeInv, RestartInv, UNCHANGED <<storeVars, generation, reporter>>
    PROVE  LiveIsCurrent' /\ (NoLiveRecords => NoLiveRecords')
<1>1. \A id \in DOMAIN records' : id \in DOMAIN records /\ records'[id] = records[id]
  BY OwnerCallsAddNothing DEF TypeInv
<1> QED BY <1>1, NoNewLive DEF RestartInv

\* The output handler, which runs apart from the StateChanged handler.
LEMMA OutputKeepsRestart ==
    ASSUME ~Overlap, TypeInv, RestartInv,
           OutputArrives \/ OutputLocks \/ OutputWrites \/ OutputUnlocks \/ OutputThrows
    PROVE  RestartInv'
<1> USE DEF TypeInv, TypeOK, Goto
<1>0. UNCHANGED <<conn, subscribed, ended, closing, generation, uiOp>>
  BY DEF OutputArrives, OutputLocks, OutputWrites, OutputUnlocks, OutputThrows, connVars
<1>1. /\ pc'["state"] = pc["state"] /\ pc'["ui"] = pc["ui"]
      /\ pc["output"] = "idle" /\ pc'["output"] # "idle" => pc["state"] = "idle" /\ subscribed
  BY DEF OutputArrives, OutputLocks, OutputWrites, OutputUnlocks, OutputThrows, threadVars, Threads
<1>2. RequestsOK'
  BY <1>0, <1>1 DEF RestartInv, RequestsOK
<1>3. OutputAfterState'
  BY <1>0, <1>1 DEF RestartInv, OutputAfterState
<1>4. CASE OutputArrives \/ OutputLocks
  <2>1. LiveIsCurrent' /\ (NoLiveRecords => NoLiveRecords') /\ pc["output"] # "write"
    BY <1>4, QuietForRestart DEF OutputArrives, OutputLocks, connVars
  <2> QED BY <1>0, <1>2, <1>3, <2>1 DEF RestartInv, RestartClean
<1>5. CASE OutputWrites
  <2>1. LiveIsCurrent'
    BY <1>5, WritesKeepCurrent DEF RestartInv
  <2>2. RestartClean'
    BY <1>0, <1>5 DEF OutputWrites, threadVars, RestartInv, RestartClean, RequestsOK, OutputAfterState
  <2> QED BY <1>2, <1>3, <2>1, <2>2 DEF RestartInv
<1>6. CASE OutputUnlocks
  <2>1. \A id \in DOMAIN records' : id \in DOMAIN records /\ records'[id] = records[id]
    BY <1>6, OwnerCallsAddNothing DEF OutputUnlocks
  <2>2. LiveIsCurrent' /\ (NoLiveRecords => NoLiveRecords')
    BY <1>0, <1>6, <2>1, NoNewLive DEF RestartInv, OutputUnlocks
  <2>3. ended => NoLiveRecords'
    BY <1>6, ConnectionGoneNotified DEF OutputUnlocks
  <2> QED BY <1>0, <1>2, <1>3, <2>2, <2>3 DEF RestartInv, RestartClean
<1>7. CASE OutputThrows
  <2>1. LiveIsCurrent'
    BY <1>7, QuietForRestart DEF OutputThrows, connVars
  <2>2. uiOp' # "restart"
    BY <1>0, <1>7 DEF OutputThrows, RestartInv, RequestsOK
  <2> QED BY <1>2, <1>3, <2>1, <2>2 DEF RestartInv, RestartClean
<1> QED BY <1>4, <1>5, <1>6, <1>7

\* The StateChanged handler.
LEMMA StateKeepsRestart ==
    ASSUME ~Overlap, TypeInv, RestartInv,
           ConnectionCloses \/ StateRaised \/ StateSetsEnded \/ StateDrops \/ StatePosts
    PROVE  RestartInv'
<1> USE DEF TypeInv, TypeOK, Goto
<1>0. UNCHANGED <<subscribed, closing, generation, uiOp, reporter>>
  BY DEF ConnectionCloses, StateRaised, StateSetsEnded, StateDrops, StatePosts, connVars
<1>1. pc'["output"] = pc["output"] /\ pc'["ui"] = pc["ui"]
  BY DEF ConnectionCloses, StateRaised, StateSetsEnded, StateDrops, StatePosts, Threads
<1>2. \A id \in DOMAIN records' : id \in DOMAIN records /\ records'[id] = records[id]
  BY OwnerCallsAddNothing DEF ConnectionCloses, StateRaised, StateSetsEnded, StateDrops, StatePosts
<1>3. LiveIsCurrent' /\ (NoLiveRecords => NoLiveRecords')
  BY <1>0, <1>2, NoNewLive DEF RestartInv
<1>4. RequestsOK' /\ OutputAfterState' /\ (ended => ended')
  <2>1. CASE ConnectionCloses
    BY <1>0, <1>1, <2>1 DEF ConnectionCloses, RestartInv, RequestsOK, OutputAfterState, Threads
  <2>2. CASE StateRaised
    BY <1>0, <1>1, <2>2 DEF StateRaised, connVars, RestartInv, RequestsOK, OutputAfterState, Threads
  <2>3. CASE StateSetsEnded
    BY <1>0, <1>1, <2>3 DEF StateSetsEnded, RestartInv, RequestsOK, OutputAfterState, Threads
  <2>4. CASE StateDrops \/ StatePosts
    BY <1>0, <1>1, <2>4 DEF StateDrops, StatePosts, connVars, RestartInv, RequestsOK, OutputAfterState, Threads
  <2> QED BY <2>1, <2>2, <2>3, <2>4
<1>5. RestartClean'
  BY <1>0, <1>1, <1>3, <1>4 DEF RestartInv, RestartClean
<1> QED BY <1>3, <1>4, <1>5 DEF RestartInv

\* The UI thread: the reset comes after the connection has closed, and the new
\* connection after the handlers of the old one.
LEMMA UiKeepsRestart ==
    ASSUME ~Overlap, ~RestartLive, TypeInv, RestartInv,
           \/ UiTakes \/ UiRecomputes \/ UiReadsRecords \/ UiReadsRunning
           \/ UiRevokes \/ UiReconnects \/ UiClosed
           \/ (\E on \in BOOLEAN : UiSetsEnabled(on)) \/ UiResets \/ UiShutsDown
    PROVE  RestartInv'
<1> USE DEF TypeInv, TypeOK, Goto, UiIdle
<1>0. /\ pc'["output"] = pc["output"] /\ pc'["state"] = pc["state"]
      /\ UNCHANGED reporter
  BY DEF UiTakes, UiRecomputes, UiReadsRecords, UiReadsRunning, UiRevokes, UiReconnects, UiClosed,
         UiSetsEnabled, UiResets, UiShutsDown, Return, Threads
<1>1. CASE UiTakes \/ UiRecomputes \/ UiReadsRecords \/ UiReadsRunning
  <2>1. UNCHANGED <<storeVars, conn, subscribed, ended, closing, generation, uiOp>> /\ ~closing
    BY <1>1 DEF UiTakes, UiRecomputes, UiReadsRecords, UiReadsRunning, connVars, RestartInv, RequestsOK
  <2>2. LiveIsCurrent' /\ (NoLiveRecords => NoLiveRecords')
    BY <1>0, <2>1, QuietForRestart
  <2> QED BY <1>0, <2>1, <2>2 DEF RestartInv, RequestsOK, OutputAfterState, RestartClean
<1>2. CASE UiRevokes \/ UiClosed
  <2>1. UNCHANGED <<storeVars, conn, ended, closing, generation, uiOp>> /\ (subscribed' => subscribed)
    BY <1>2 DEF UiRevokes, UiClosed, connVars
  <2>2. LiveIsCurrent' /\ (NoLiveRecords => NoLiveRecords')
    BY <1>0, <2>1, QuietForRestart
  <2>3. pc'["ui"] \in {"close", "closed"}
    BY <1>2 DEF UiRevokes, UiClosed, Threads
  <2> QED BY <1>0, <2>1, <2>2, <2>3 DEF RestartInv, RequestsOK, OutputAfterState, RestartClean
<1>3. CASE UiReconnects
  <2>1. NoLiveRecords
    BY <1>3 DEF UiReconnects, RestartInv, RestartClean
  <2>2. UNCHANGED storeVars /\ uiOp' = "none" /\ ~closing /\ closing' = closing /\ conn' = "open" /\ ~ended'
    BY <1>3 DEF UiReconnects, Return, RestartInv, RequestsOK
  <2>3. pc'["output"] = "idle" /\ pc'["state"] = "idle"
    BY <1>0, <1>3 DEF UiReconnects
  <2>4. LiveIsCurrent'
    BY <2>1, <2>2 DEF NoLiveRecords, LiveIsCurrent, storeVars
  <2> QED BY <2>2, <2>3, <2>4 DEF RestartInv, RequestsOK, OutputAfterState, RestartClean
<1>4. ASSUME NEW on \in BOOLEAN, UiSetsEnabled(on) PROVE RestartInv'
  <2>1. UNCHANGED <<conn, subscribed, ended, closing, generation>> /\ uiOp' = "enable" /\ ~closing
    BY <1>4 DEF UiSetsEnabled, connVars, RestartInv, RequestsOK
  <2>2. LiveIsCurrent'
    BY <1>0, <1>4, <2>1, OwnerCallsAddNothing, NoNewLive DEF UiSetsEnabled, RestartInv
  <2> QED BY <1>0, <2>1, <2>2 DEF RestartInv, RequestsOK, OutputAfterState, RestartClean
<1>5. CASE UiResets
  <2>1. UNCHANGED <<conn, subscribed, ended, closing, generation>> /\ uiOp' = "restart" /\ conn = "closed" /\ ~closing
    BY <1>5 DEF UiResets, connVars, RestartInv, RequestsOK
  <2>2. LiveIsCurrent' /\ NoLiveRecords'
    BY <1>0, <1>5, <2>1, OwnerCallsAddNothing, NoNewLive, ResetNotified DEF UiResets, RestartInv
  <2> QED BY <1>0, <2>1, <2>2 DEF RestartInv, RequestsOK, OutputAfterState, RestartClean
<1>6. CASE UiShutsDown
  <2>1. UNCHANGED <<storeVars, conn, subscribed, ended, generation>> /\ uiOp' = "shutdown" /\ closing' /\ pc'["ui"] = "revoke"
    BY <1>6 DEF UiShutsDown, Threads
  <2>2. LiveIsCurrent'
    BY <1>0, <2>1, QuietForRestart
  <2> QED BY <1>0, <2>1, <2>2 DEF RestartInv, RequestsOK, OutputAfterState, RestartClean
<1> QED BY <1>1, <1>2, <1>3, <1>4, <1>5, <1>6

\* A working or blocked record was always reported by the process that runs
\* now, where output and StateChanged come from one thread (ConptyConnection)
\* and only connections that have ended are restarted (Enter in a dead pane).
THEOREM RestartLeavesNothing ==
    ASSUME ~Overlap, ~RestartLive
    PROVE  Spec => []LiveIsCurrent
<1>1. Init => RestartInv
  <2> SUFFICES ASSUME Init PROVE RestartInv
    OBVIOUS
  <2>1. DOMAIN records = {}
    BY NoRecordsIsRecordMap DEF Init, StoreInit
  <2> QED BY <2>1 DEF Init, RestartInv, RequestsOK, OutputAfterState, RestartClean, LiveIsCurrent, Threads
<1>2. TypeInv /\ RestartInv /\ [Next]_vars => RestartInv'
  <2> SUFFICES ASSUME TypeInv, RestartInv, [Next]_vars PROVE RestartInv'
    OBVIOUS
  <2>1. CASE UNCHANGED vars
    <3>1. LiveIsCurrent' /\ (NoLiveRecords => NoLiveRecords')
      BY <2>1, QuietForRestart DEF vars, connVars
    <3> QED BY <2>1, <3>1 DEF vars, threadVars, connVars, RestartInv, RequestsOK, OutputAfterState, RestartClean
  <2>2. "output" \in Threads /\ "state" \in Threads /\ "ui" \in Threads
    BY DEF Threads
  <2> QED BY <2>1, <2>2, RaiseKeepsRestart, OutputKeepsRestart, StateKeepsRestart, UiKeepsRestart
          DEF Next, OutputNext, StateNext, UiWork, UiRequest, Terminated
<1>3. TypeInv /\ [Next]_vars => TypeInv'
  BY StepKeepsTypeInv
<1>4. RestartInv => LiveIsCurrent
  BY DEF RestartInv
<1> QED BY <1>1, <1>2, <1>3, <1>4, InitTypeInv, PTL DEF Spec

=============================================================================
