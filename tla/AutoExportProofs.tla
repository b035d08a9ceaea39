--------------------------- MODULE AutoExportProofs ---------------------------
(***************************************************************************)
(* That no change is forgotten by the debounced export, for any number of  *)
(* profiles, contents, changes and failures: MirrorsCurrent as a theorem.  *)
(*                                                                         *)
(* MirrorsCurrent speaks of the moments with nothing under way.  The       *)
(* invariant says for every other moment what is under way: a mirror that  *)
(* is out of date is waited for by the timer, by the signal of the profile *)
(* list or by the signal of a schema that is watched; and the server's     *)
(* view of the list is right unless that signal is still to come.          *)
(***************************************************************************)
EXTENDS AutoExport, TLAPS

ExportTypeOK ==
    /\ DOMAIN value = Mirrors
    /\ DOMAIN files = Mirrors
    /\ live \subseteq Profiles
    /\ running \in BOOLEAN
    /\ pending \in BOOLEAN

(* The server watches the profiles it lists, and lists those there are or will
   be told. *)
ListKnown == running => watched = uuids /\ (uuids = live \/ "list" \in signals)

(* With no server nothing is under way. *)
ExitedIsQuiet == ~running => ~pending /\ signals = {}

(* What brings the mirror of t up to date. *)
Awaited(t) == pending \/ "list" \in signals \/ (t \in signals /\ t \in Globals \cup watched)

NoneForgotten == \A t \in Mirrors \ overlooked : files[t] = Mirror(t) \/ Awaited(t)

ExportInv == ExportTypeOK /\ ListKnown /\ ExitedIsQuiet /\ NoneForgotten

\* The invariant holds when the server has not run yet.
LEMMA ExportInit == Init => ExportInv
<1> SUFFICES ASSUME Init PROVE ExportInv
  OBVIOUS
<1>1. ExportTypeOK
  BY DEF Init, ExportTypeOK
<1>2. ListKnown /\ ExitedIsQuiet
  BY DEF Init, ListKnown, ExitedIsQuiet
<1>3. NoneForgotten
  <2> SUFFICES ASSUME NEW t \in Mirrors \ overlooked PROVE files[t] = Mirror(t)
    BY DEF NoneForgotten
  <2> QED
    BY DEF Init
<1> QED
  BY <1>1, <1>2, <1>3 DEF ExportInv

(* A write of another process that changes only the schemas and the profiles it
   signals keeps every mirror awaited. *)
LEMMA NotifiedIsAwaited ==
    ASSUME ExportInv, NEW keys, Notify(keys),
           live' \subseteq Profiles, DOMAIN value' = Mirrors,
           UNCHANGED <<running, uuids, watched, pending, files>>,
           live' # live => "list" \in keys,
           \A t \in Mirrors : Mirror(t)' # Mirror(t) =>
               t \in keys \/ (~running /\ files[t] = Mirror(t)') \/ (running /\ "list" \in keys),
           \A t \in Mirrors \cap keys : t \in Globals \cup live \/ "list" \in keys
    PROVE  ExportInv'
<1>1. ExportTypeOK'
  BY DEF ExportInv, ExportTypeOK
<1>2. CASE running
  <2>1. signals' = signals \cup keys /\ overlooked' = overlooked
    BY <1>2 DEF Notify
  <2>2. ListKnown' /\ ExitedIsQuiet'
    BY <1>2, <2>1 DEF ExportInv, ListKnown, ExitedIsQuiet
  <2>3. ASSUME NEW t \in Mirrors \ overlooked' PROVE files'[t] = Mirror(t)' \/ Awaited(t)'
    <3>1. files[t] = Mirror(t) \/ Awaited(t)
      BY <2>1, <2>3 DEF ExportInv, NoneForgotten
    <3>2. CASE Awaited(t)
      BY <2>1, <3>2 DEF Awaited
    <3>3. CASE files[t] = Mirror(t) /\ t \in keys
      BY <1>2, <2>1, <3>3 DEF ExportInv, ListKnown, Awaited
    <3>4. CASE files[t] = Mirror(t) /\ t \notin keys
      BY <1>2, <2>1, <3>4 DEF Awaited
    <3> QED
      BY <3>1, <3>2, <3>3, <3>4
  <2> QED
    BY <1>1, <2>2, <2>3 DEF ExportInv, NoneForgotten
<1>3. CASE ~running
  <2>1. signals' = {} /\ overlooked' = overlooked \cup (keys \cap Mirrors)
    BY <1>3 DEF Notify
  <2>2. ListKnown' /\ ExitedIsQuiet'
    BY <1>3, <2>1 DEF ExportInv, ListKnown, ExitedIsQuiet
  <2>3. ASSUME NEW t \in Mirrors \ overlooked' PROVE files'[t] = Mirror(t)'
    <3>1. files[t] = Mirror(t)
      BY <1>3, <2>1, <2>3 DEF ExportInv, NoneForgotten, ExitedIsQuiet, Awaited
    <3> QED
      BY <1>3, <2>1, <2>3, <3>1
  <2> QED
    BY <1>1, <2>2, <2>3 DEF ExportInv, NoneForgotten
<1> QED
  BY <1>2, <1>3 DEF ExportInv, ExportTypeOK

\* Every step keeps it.
LEMMA ExportNext == ExportInv /\ [Next]_vars => ExportInv'
<1> SUFFICES ASSUME ExportInv, [Next]_vars PROVE ExportInv'
  OBVIOUS
<1> USE DEF Globals, Mirrors
<1>1. ASSUME NEW t \in Mirrors, NEW v \in Values, SetValue(t, v) PROVE ExportInv'
  <2>1. \A u \in Mirrors : Mirror(u)' # Mirror(u) => u = t
    BY <1>1 DEF SetValue, Mirror, ExportInv, ExportTypeOK
  <2>2. DOMAIN value' = Mirrors
    BY <1>1 DEF SetValue, ExportInv, ExportTypeOK
  <2> QED
    BY <1>1, <2>1, <2>2, NotifiedIsAwaited DEF SetValue, ExportInv, ExportTypeOK
<1>2. ASSUME NEW t \in Mirrors, NEW v \in Values, EditFile(t, v) PROVE ExportInv'
  <2>1. ExportTypeOK' /\ ListKnown' /\ ExitedIsQuiet'
    BY <1>2 DEF EditFile, ExportInv, ExportTypeOK, ListKnown, ExitedIsQuiet
  <2>2. \A u \in Mirrors \ overlooked' :
            u \in Mirrors \ overlooked /\ files'[u] = files[u] /\ Mirror(u)' = Mirror(u)
    BY <1>2 DEF EditFile, Mirror, ExportInv, ExportTypeOK
  <2>3. NoneForgotten'
    BY <1>2, <2>2 DEF EditFile, ExportInv, NoneForgotten, Awaited
  <2> QED
    BY <2>1, <2>3 DEF ExportInv
<1>3. ASSUME NEW p \in Profiles, NEW v \in Values, AddProfile(p, v) PROVE ExportInv'
  <2>1. \A u \in Mirrors : Mirror(u)' # Mirror(u) => u = p
    BY <1>3 DEF AddProfile, Mirror, ExportInv, ExportTypeOK
  <2>2. DOMAIN value' = Mirrors /\ live' \subseteq Profiles
    BY <1>3 DEF AddProfile, ExportInv, ExportTypeOK
  <2> QED
    BY <1>3, <2>1, <2>2, NotifiedIsAwaited DEF AddProfile
<1>4. ASSUME NEW p \in Profiles, RemoveProfile(p) PROVE ExportInv'
  <2>1. \A u \in Mirrors : Mirror(u)' # Mirror(u) => u = p
    BY <1>4 DEF RemoveProfile, Mirror, ExportInv, ExportTypeOK
  <2>2. DOMAIN value' = Mirrors /\ live' \subseteq Profiles
    BY <1>4 DEF RemoveProfile, ExportInv, ExportTypeOK
  <2> QED
    BY <1>4, <2>1, <2>2, NotifiedIsAwaited DEF RemoveProfile
<1>5. ASSUME NEW t \in Mirrors, ImportFile(t) PROVE ExportInv'
  <2> DEFINE keys == (IF value' = value THEN {} ELSE {t})
                        \cup (IF live' = live THEN {} ELSE {"list"})
  <2>1. DOMAIN value' = Mirrors /\ live' \subseteq Profiles
    BY <1>5 DEF ImportFile, ExportInv, ExportTypeOK
  <2>2. ASSUME NEW u \in Mirrors, Mirror(u)' # Mirror(u)
        PROVE  u \in keys \/ (~running /\ files[u] = Mirror(u)') \/ (running /\ "list" \in keys)
    <3>1. CASE value' = value
      <4>1. u = t /\ u \in live' /\ live' # live
        BY <1>5, <2>2, <3>1 DEF ImportFile, Mirror
      <4>2. files[u] = Mirror(u)'
        BY <1>5, <4>1 DEF ImportFile, Mirror, ExportInv, ExportTypeOK
      <4> QED
        BY <4>1, <4>2 DEF ExportInv, ExportTypeOK
    <3>2. CASE value' # value
      <4>1. u = t
        BY <1>5, <2>2 DEF ImportFile, Mirror, ExportInv, ExportTypeOK
      <4> QED
        BY <3>2, <4>1
    <3> QED
      BY <3>1, <3>2
  <2>3. \A u \in Mirrors \cap keys : u \in Globals \cup live \/ "list" \in keys
    BY <1>5, ProfilesAssumption DEF ImportFile
  <2>4. Notify(keys) /\ UNCHANGED <<running, uuids, watched, pending, files>>
    BY <1>5 DEF ImportFile
  <2>5. live' # live => "list" \in keys
    OBVIOUS
  <2> HIDE DEF keys
  <2> QED
    BY <2>1, <2>2, <2>3, <2>4, <2>5, NotifiedIsAwaited
<1>6. ASSUME NEW done \in SUBSET Mirrors, ExportAll(done) PROVE ExportInv'
  <2>1. ExportTypeOK' /\ ListKnown' /\ ExitedIsQuiet'
    BY <1>6 DEF ExportAll, ExportInv, ExportTypeOK, ListKnown, ExitedIsQuiet
  <2>2. ASSUME NEW u \in Mirrors \ overlooked' PROVE files'[u] = Mirror(u)' \/ Awaited(u)'
    <3>1. CASE u \in done
      BY <1>6, <3>1 DEF ExportAll, Mirror
    <3>2. CASE u \notin done
      <4>1. u \in Mirrors \ overlooked /\ files'[u] = files[u] /\ Mirror(u)' = Mirror(u)
        BY <1>6, <2>2, <3>2 DEF ExportAll, Mirror
      <4> QED
        BY <1>6, <4>1 DEF ExportAll, ExportInv, NoneForgotten, Awaited
    <3> QED
      BY <3>1, <3>2
  <2> QED
    BY <2>1, <2>2 DEF ExportInv, NoneForgotten
<1>7. CASE ListChanged
  <2>1. running
    BY <1>7 DEF ListChanged, ExportInv, ExitedIsQuiet
  <2>2. pending' = TRUE /\ uuids' = live' /\ watched' = uuids' /\ running'
    BY <1>7, <2>1 DEF ListChanged, ScheduleResync
  <2>3. ExportTypeOK'
    BY <1>7 DEF ListChanged, ScheduleResync, ExportInv, ExportTypeOK
  <2> QED
    BY <2>2, <2>3 DEF ExportInv, ListKnown, ExitedIsQuiet, NoneForgotten, Awaited
<1>8. ASSUME NEW t \in Mirrors, AnyChanged(t) PROVE ExportInv'
  <2>1. running /\ t # "list"
    BY <1>8, ProfilesAssumption DEF AnyChanged, ExportInv, ExitedIsQuiet
  <2>2. ExportTypeOK' /\ ListKnown' /\ ExitedIsQuiet'
    BY <1>8, <2>1
    DEF AnyChanged, ScheduleResync, ExportInv, ExportTypeOK, ListKnown, ExitedIsQuiet
  <2>3. ASSUME NEW u \in Mirrors \ overlooked' PROVE files'[u] = Mirror(u)' \/ Awaited(u)'
    <3>1. files[u] = Mirror(u) \/ Awaited(u)
      BY <1>8, <2>3 DEF AnyChanged, ExportInv, NoneForgotten
    <3>2. Mirror(u)' = Mirror(u) /\ files' = files /\ watched' = watched
      BY <1>8 DEF AnyChanged, Mirror
    <3>3. Awaited(u) => Awaited(u)'
      BY <1>8, <2>1, <3>2 DEF AnyChanged, ScheduleResync, Awaited
    <3> QED
      BY <3>1, <3>2, <3>3
  <2> QED
    BY <2>2, <2>3 DEF ExportInv, NoneForgotten
<1>9. ASSUME NEW failed \in SUBSET Mirrors, FireResync(failed) PROVE ExportInv'
  <2>1. running
    BY <1>9 DEF FireResync, ExportInv, ExitedIsQuiet
  <2>2. ExportTypeOK' /\ ListKnown' /\ ExitedIsQuiet'
    BY <1>9, <2>1 DEF FireResync, ExportInv, ExportTypeOK, ListKnown, ExitedIsQuiet
  <2>3. ASSUME NEW u \in Mirrors \ overlooked' PROVE files'[u] = Mirror(u)' \/ Awaited(u)'
    <3>1. CASE uuids = live
      BY <1>9, <2>3, <3>1 DEF FireResync, Mirror
    <3>2. CASE "list" \in signals
      BY <1>9, <3>2 DEF FireResync, Awaited
    <3> QED
      BY <2>1, <3>1, <3>2 DEF ExportInv, ListKnown
  <2> QED
    BY <2>2, <2>3 DEF ExportInv, NoneForgotten
<1>10. CASE ServerStarts
  <2>1. ExportTypeOK' /\ ListKnown' /\ ExitedIsQuiet'
    BY <1>10 DEF ServerStarts, ExportInv, ExportTypeOK, ListKnown, ExitedIsQuiet
  <2>2. \A u \in Mirrors \ overlooked : files[u] = Mirror(u)
    BY <1>10 DEF ServerStarts, ExportInv, NoneForgotten, ExitedIsQuiet, Awaited
  <2>3. NoneForgotten'
    BY <1>10, <2>2 DEF ServerStarts, NoneForgotten, Mirror
  <2> QED
    BY <2>1, <2>3 DEF ExportInv
<1>11. CASE ServerExits
  <2>1. ExportTypeOK' /\ ListKnown' /\ ExitedIsQuiet'
    BY <1>11 DEF ServerExits, ExportInv, ExportTypeOK, ListKnown, ExitedIsQuiet
  <2>2. NoneForgotten'
    BY <1>11 DEF ServerExits, NoneForgotten, Mirror
  <2> QED
    BY <2>1, <2>2 DEF ExportInv
<1>12. CASE UNCHANGED vars
  BY <1>12 DEF vars, ExportInv, ExportTypeOK, ListKnown, ExitedIsQuiet, NoneForgotten, Awaited, Mirror
<1> QED
  BY <1>1, <1>2, <1>3, <1>4, <1>5, <1>6, <1>7, <1>8, <1>9, <1>10, <1>11, <1>12 DEF Next

(* The mirrors reflect the current state whenever no signal is under way and no
   timer is set, but for those overlooked: however the signals of other
   processes, the timer, failed exports and restarts of the server are
   interleaved (axan-auto-export.cc). *)
THEOREM MirrorsStayCurrent == Spec => []MirrorsCurrent
<1>1. ExportInv => MirrorsCurrent
  BY DEF ExportInv, NoneForgotten, Awaited, MirrorsCurrent
<1> QED
  BY <1>1, ExportInit, ExportNext, PTL DEF Spec
===============================================================================
