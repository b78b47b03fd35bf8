--------------------------- MODULE RuntimeSettings ---------------------------
(***************************************************************************)
(* The training-capture switch (storage/runtime_settings.py): a row of the *)
(* database and a copy in every worker's memory, refreshed every second    *)
(* and by every look at the settings page.  Refreshes and changes, of one  *)
(* worker or of several, interleave between their database calls and what  *)
(* they assign.                                                            *)
(***************************************************************************)
CONSTANTS
    Sites,       \* the workers
    Refreshers,  \* each worker's refresh loop, and calls of snapshot()
    Setters,     \* calls of set_training_capture_enabled
    SiteOf,      \* where a refresh or a call runs
    Absent,      \* no row
    Unread       \* no refresh under way

ASSUME SitesAssumption == SiteOf \in [Refreshers \cup Setters -> Sites]

VARIABLES
    stored,      \* the row's value
    capture,     \* _training_capture_enabled of each worker
    fetched,     \* what a refresh has read and not yet assigned
    phase,       \* where a change is
    wanted       \* the value it sets

settingsVars == <<stored, capture, fetched, phase, wanted>>

SettingsInit == /\ stored \in BOOLEAN \cup {Absent}
                /\ capture = [w \in Sites |-> TRUE]
                /\ fetched = [r \in Refreshers |-> Unread]
                /\ phase = [s \in Setters |-> "idle"]
                /\ wanted \in [Setters -> BOOLEAN]

(* Without a row the capture is on.                                        *)
EffectiveRow(value) == value                                       \* a mutant
Effective(value) == IF value = Absent THEN TRUE ELSE value

Fetch(r) == /\ fetched[r] = Unread
            /\ fetched' = [fetched EXCEPT ![r] = Effective(stored)]
            /\ UNCHANGED <<stored, capture, phase, wanted>>

(* The database raises: memory keeps its value, and the loop goes on.      *)
FetchRaises(r) == fetched[r] = Unread /\ UNCHANGED settingsVars

AssignOff(r) == /\ fetched[r] # Unread                             \* a mutant
                /\ capture' = [capture EXCEPT ![SiteOf[r]] = @ /\ fetched[r]]
                /\ fetched' = [fetched EXCEPT ![r] = Unread]
                /\ UNCHANGED <<stored, phase, wanted>>
Assign(r) == /\ fetched[r] # Unread
             /\ capture' = [capture EXCEPT ![SiteOf[r]] = fetched[r]]
             /\ fetched' = [fetched EXCEPT ![r] = Unread]
             /\ UNCHANGED <<stored, phase, wanted>>

(* session.get: the row is there, or is to be added.                       *)
Begin(s) == /\ phase[s] = "idle"
            /\ phase' = [phase EXCEPT ![s] = IF stored = Absent THEN "add" ELSE "update"]
            /\ UNCHANGED <<stored, capture, fetched, wanted>>

(* The commit of an added row fails if another call has added it.          *)
CommitSetting(s) == /\ \/ phase[s] = "update"
                       \/ phase[s] = "add" /\ stored = Absent
                    /\ stored' = wanted[s]
                    /\ phase' = [phase EXCEPT ![s] = "committed"]
                    /\ UNCHANGED <<capture, fetched, wanted>>

CommitRaises(s) == /\ phase[s] \in {"add", "update"}
                   /\ phase' = [phase EXCEPT ![s] = "done"]
                   /\ UNCHANGED <<stored, capture, fetched, wanted>>

Remember(s) == /\ phase[s] = "committed"
               /\ capture' = [capture EXCEPT ![SiteOf[s]] = wanted[s]]
               /\ phase' = [phase EXCEPT ![s] = "done"]
               /\ UNCHANGED <<stored, fetched, wanted>>

SettingsNext == \/ \E r \in Refreshers : Fetch(r) \/ FetchRaises(r) \/ Assign(r)
                \/ \E s \in Setters : Begin(s) \/ CommitSetting(s) \/ CommitRaises(s) \/ Remember(s)

-----------------------------------------------------------------------------
SettingsTypeOK == /\ stored \in BOOLEAN \cup {Absent}
                  /\ capture \in [Sites -> BOOLEAN]
                  /\ fetched \in [Refreshers -> BOOLEAN \cup {Unread}]
                  /\ phase \in [Setters -> {"idle", "add", "update", "committed", "done"}]
                  /\ wanted \in [Setters -> BOOLEAN]

(* However changes and refreshes overtake one another, every worker comes   *)
(* to have the stored value: a refresh that restores an old one, or a       *)
(* change that remembers an overwritten one, is corrected.                  *)
WorkersAgree == <>[](\A w \in Sites : capture[w] = Effective(stored))
=============================================================================
