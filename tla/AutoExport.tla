------------------------------ MODULE AutoExport ------------------------------
(***************************************************************************)
(* The TOML mirrors of the Linux settings (axan-auto-export.cc): settings,  *)
(* keybindings and one file per profile under ~/.config/axan, rewritten    *)
(* from dconf half a second after a change.  The preferences window and    *)
(* the command line write to dconf from processes of their own, so the     *)
(* server learns of a change by a signal that is still under way while the *)
(* timer fires, the server exits or another change is made.                *)
(*                                                                         *)
(* The content of a schema is one value: every export writes all of it.    *)
(* dconf and its change signals are external; signals of one schema that   *)
(* are under way together are one.                                         *)
(***************************************************************************)
EXTENDS Naturals, FiniteSets

CONSTANTS
    Profiles,   \* profile uuids
    Values,     \* what a schema can hold
    NoFile,     \* a mirror that does not exist
    MaxFailed,  \* bound: exports and deletions that fail in one resync
    MaxWrites   \* bound: what the user and other processes do

ASSUME NoFileAssumption == NoFile \notin Values

ASSUME BoundsAssumption == MaxFailed \in Nat /\ MaxWrites \in Nat

ASSUME ProfilesAssumption == Profiles \cap {"settings", "keybindings", "list"} = {}

VARIABLES
    value,      \* dconf: what each schema holds
    live,       \* dconf: the profiles of the profile list
    signals,    \* change signals under way to the server
    running,    \* whether the server runs
    uuids,      \* the server's profile list
    watched,    \* the profiles whose GSettings has the handler
    pending,    \* g_state.pending_id: whether the timer is set
    files,      \* the mirrors
    writes,     \* how much the user and other processes have done
    overlooked  \* history: mirrors that are out of date with nothing under way:
                \* changed with no server, edited by hand, or their export failed

vars == <<value, live, signals, running, uuids, watched, pending, files, writes, overlooked>>

Globals == {"settings", "keybindings"}

Mirrors == Globals \cup Profiles

(* What the mirror of a schema should be: a profile that is gone has none. *)
Mirror(t) == IF t \in Globals \cup live THEN value[t] ELSE NoFile

-------------------------------------------------------------------------------
Write == writes < MaxWrites /\ writes' = writes + 1

(* Another process writes to dconf. *)
Notify(keys) ==
    /\ signals' = IF running THEN signals \cup keys ELSE {}
    /\ overlooked' = IF running THEN overlooked ELSE overlooked \cup (keys \cap Mirrors)

SetValue(t, v) ==
    /\ Write
    /\ t \in Globals \cup live /\ value[t] # v
    /\ value' = [value EXCEPT ![t] = v]
    /\ Notify({t})
    /\ UNCHANGED <<live, running, uuids, watched, pending, files>>

(* The keys of a new profile are written before it is listed; those of a
   removed one are unset after, and nobody reads them.  The last profile stays. *)
AddProfile(p, v) ==
    /\ Write
    /\ p \notin live
    /\ live' = live \cup {p}
    /\ value' = [value EXCEPT ![p] = v]
    /\ Notify({p, "list"})
    /\ UNCHANGED <<running, uuids, watched, pending, files>>

RemoveProfile(p) ==
    /\ Write
    /\ p \in live /\ live # {p}
    /\ live' = live \ {p}
    /\ Notify({p, "list"})
    /\ UNCHANGED <<value, running, uuids, watched, pending, files>>

(* The user edits a mirror, or brings one from another machine. *)
EditFile(t, v) ==
    /\ Write
    /\ files[t] # v
    /\ files' = [files EXCEPT ![t] = v]
    /\ overlooked' = overlooked \cup {t}
    /\ UNCHANGED <<value, live, signals, running, uuids, watched, pending>>

(* axan --import-...: the schema takes the file's content, a key that has its
   value already is not written; a profile that is not listed yet is. *)
ImportFile(t) ==
    /\ Write
    /\ files[t] # NoFile
    /\ value' = [value EXCEPT ![t] = files[t]]
    /\ live' = live \cup ({t} \cap Profiles)
    /\ Notify((IF value' = value THEN {} ELSE {t}) \cup (IF live' = live THEN {} ELSE {"list"}))
    /\ UNCHANGED <<running, uuids, watched, pending, files>>

(* axan --export-all: settings, keybindings and the listed profiles, stopping at
   the first failure.  It removes no file. *)
ExportAll(done) ==
    /\ Write
    /\ done \subseteq Globals \cup live
    /\ "keybindings" \in done => "settings" \in done
    /\ done \cap Profiles # {} => Globals \subseteq done
    /\ files' = [t \in Mirrors |-> IF t \in done THEN value[t] ELSE files[t]]
    /\ overlooked' = overlooked \ done
    /\ UNCHANGED <<value, live, signals, running, uuids, watched, pending>>

-------------------------------------------------------------------------------
(* schedule_resync: a timer that is set is left alone. *)
ScheduleResync == pending' = TRUE

MutWatchesAtStart ==
    /\ "list" \in signals
    /\ signals' = signals \ {"list"}
    /\ uuids' = live
    /\ watched' = watched \cap live
    /\ ScheduleResync
    /\ UNCHANGED <<value, live, running, files, writes, overlooked>>

(* The profile list reads its key again, drops the GSettings of the profiles
   that are gone, and the handler goes on every profile listed. *)
ListChanged ==
    /\ "list" \in signals
    /\ signals' = signals \ {"list"}
    /\ uuids' = live
    /\ watched' = live
    /\ ScheduleResync
    /\ UNCHANGED <<value, live, running, files, writes, overlooked>>

(* on_any_changed, for the schemas that have the handler. *)
AnyChanged(t) ==
    /\ t \in signals
    /\ signals' = signals \ {t}
    /\ IF t \in Globals \cup watched THEN ScheduleResync ELSE UNCHANGED pending
    /\ UNCHANGED <<value, live, running, uuids, watched, files, writes, overlooked>>

MutKeepsOrphans(failed) ==
    /\ pending
    /\ Cardinality(failed) <= MaxFailed
    /\ pending' = FALSE
    /\ files' = [t \in Mirrors |->
                    IF t \in (Globals \cup uuids) \ failed THEN value[t] ELSE files[t]]
    /\ overlooked' = failed
    /\ UNCHANGED <<value, live, signals, running, uuids, watched, writes>>

(* fire_resync: every schema is exported, and the mirrors of profiles that are
   not listed are deleted; one that fails is logged and the rest goes on. *)
FireResync(failed) ==
    /\ pending
    /\ Cardinality(failed) <= MaxFailed
    /\ pending' = FALSE
    /\ files' = [t \in Mirrors |->
                    IF t \in failed THEN files[t]
                    ELSE IF t \in Globals \cup uuids THEN value[t] ELSE NoFile]
    /\ overlooked' = failed
    /\ UNCHANGED <<value, live, signals, running, uuids, watched, writes>>

(* axan_auto_export_init: watch everything, and export at once on a first run. *)
ServerStarts ==
    /\ ~running
    /\ running' = TRUE
    /\ uuids' = live
    /\ watched' = live
    /\ pending' = (files["settings"] = NoFile)
    /\ UNCHANGED <<value, live, signals, files, writes, overlooked>>

(* The server exits or is killed: the timer goes with it. *)
ServerExits ==
    /\ running
    /\ running' = FALSE
    /\ pending' = FALSE
    /\ signals' = {}
    /\ overlooked' = overlooked \cup {t \in Mirrors : files[t] # Mirror(t)}
    /\ UNCHANGED <<value, live, uuids, watched, files, writes>>

-------------------------------------------------------------------------------
Init ==
    /\ value \in {[t \in Mirrors |-> v] : v \in Values}
    /\ live \in (SUBSET Profiles) \ {{}}
    /\ signals = {}
    /\ running = FALSE
    /\ uuids = {} /\ watched = {}
    /\ pending = FALSE
    /\ files = [t \in Mirrors |-> NoFile]
    /\ writes = 0
    /\ overlooked = {t \in Mirrors : Mirror(t) # NoFile}

Next ==
    \/ \E t \in Mirrors, v \in Values : SetValue(t, v) \/ EditFile(t, v)
    \/ \E p \in Profiles, v \in Values : AddProfile(p, v)
    \/ \E p \in Profiles : RemoveProfile(p)
    \/ \E t \in Mirrors : ImportFile(t)
    \/ \E done \in SUBSET Mirrors : ExportAll(done)
    \/ ListChanged
    \/ \E t \in Mirrors : AnyChanged(t)
    \/ \E failed \in SUBSET Mirrors : FireResync(failed)
    \/ ServerStarts
    \/ ServerExits

Spec == Init /\ [][Next]_vars

(* Signals are delivered and the main loop runs its timers, while the server lives. *)
FairSpec ==
    /\ Spec
    /\ WF_vars(ListChanged)
    /\ \A t \in Mirrors : WF_vars(AnyChanged(t))
    /\ WF_vars(\E failed \in SUBSET Mirrors : FireResync(failed))

-------------------------------------------------------------------------------
(* The mirrors always reflect the current state, as terminal-app.cc says where
   the export is set up: once no signal is under way and no timer is set,
   each mirror is what dconf holds, and a profile that is gone has none -
   except those overlooked. *)
MirrorsCurrent ==
    running /\ ~pending /\ signals = {} =>
        \A t \in Mirrors \ overlooked : files[t] = Mirror(t)

(* Once the changes stop, the mirrors are brought up to date and stay so while
   the server runs, in whatever order signals and timers came before. *)
MirrorsSettle ==
    <>[](running => \A t \in Mirrors \ overlooked : files[t] = Mirror(t))
===============================================================================
