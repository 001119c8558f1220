---------------------------- MODULE SettingsFile ----------------------------
(* The settings, from the switch the user flips to the disk: hxconfig's       *)
(* Config (what a load makes of gtkhx.toml, whether a save may write), the    *)
(* dirty flag of its C ABI, the debounce of options.c, and the salvage,       *)
(* write, rename and sync of a save.  A client saves on its main thread, so   *)
(* nothing else of that client moves during a save; but a second client may   *)
(* be running (started with --pass), the file is the user's to edit, and a    *)
(* kill or a loss of power may come between any two of these operations.      *)
EXTENDS Naturals

CONSTANTS
    Clients,       \* the GtkHx processes that may run
    MaxEdits,      \* bound on the settings the user changes
    MaxOutside     \* bound on the edits by hand and by a newer build

ASSUME SettingsAssumption == MaxEdits \in Nat /\ MaxOutside \in Nat

VARIABLES
    configDir,     \* gtkhx.toml and gtkhx.toml.corrupt, as a reader finds them
    onDisk,        \* what a loss of power may leave of the directory
    legacy,        \* what there is of an old gtkhxrc
    client,        \* client -> its settings and how far a save has come
    edits,         \* the settings changed so far; numbers each change
    outside        \* the writes by others so far

settingsVars == <<configDir, onDisk, legacy, client, edits, outside>>

\* A file by its schema, and the last change to a setting it holds.
DocKinds == {"older", "current", "newer", "bad", "torn"}
Doc == [kind : DocKinds, edit : 0..MaxEdits]
Absent == [kind |-> "absent"]
Dir == [file : Doc \cup {Absent}, corrupt : Doc \cup {Absent}]

Provenances == {"Fresh", "Current", "Migrated", "Newer", "Unusable", "Imported"}
Steps == {"idle", "salvaged", "written", "renamed"}

Off == [step |-> "off"]
Running ==
    [step : Steps, prov : Provenances, edit : 0..MaxEdits, dirty : BOOLEAN,
     timer : BOOLEAN, synced : BOOLEAN, quitting : BOOLEAN, warned : BOOLEAN,
     found : Doc \cup {Absent}, alone : BOOLEAN, saved : BOOLEAN, unsalvaged : BOOLEAN]

On(c) == client[c].step # "off"
Ready(c) == client[c].step = "idle" /\ ~client[c].quitting

SettingsInit ==
    /\ \E f \in {Absent, [kind |-> "older", edit |-> 0]} :
           configDir = [file |-> f, corrupt |-> Absent]
    /\ onDisk = {configDir}
    /\ legacy \in {"none", "keys", "empty"}
    /\ client = [c \in Clients |-> Off]
    /\ edits = 0 /\ outside = 0

\* The directory changes under every other client: what they found is no
\* longer the last word.  (`found`, `alone`, `saved`, `unsalvaged` and `warned`
\* record what has happened and are read by the properties only.)
Disturb(others, clients) ==
    [c \in Clients |-> IF c \in others /\ clients[c].step # "off"
                       THEN [clients[c] EXCEPT !.alone = FALSE]
                       ELSE clients[c]]

---------------------------------------------------------------------------
(* Loading. *)

\* from_path: what a file is taken for.
ProvenanceOf(f) ==
    CASE f.kind = "current" -> "Current"
      [] f.kind = "older" -> "Migrated"
      [] f.kind = "newer" -> "Newer"
      [] OTHER -> "Unusable"

\* load_or_migrate: only a directory without the file turns to the old one.
LoadOrMigrate(f) ==
    IF f # Absent THEN ProvenanceOf(f)
    ELSE IF legacy = "keys" THEN "Imported" ELSE "Fresh"

\* prefs_read, at startup; the file may also be impossible to read.
Load(c) ==
    /\ ~On(c)
    /\ LET f == configDir.file
       IN \E prov \in {LoadOrMigrate(f)} \cup (IF f = Absent THEN {} ELSE {"Unusable"}) :
              client' = [client EXCEPT ![c] =
                  [step |-> "idle", prov |-> prov,
                   edit |-> IF prov \in {"Current", "Migrated", "Newer"} THEN f.edit ELSE 0,
                   dirty |-> FALSE, timer |-> FALSE, synced |-> FALSE,
                   quitting |-> FALSE, warned |-> FALSE, found |-> f,
                   alone |-> TRUE, saved |-> FALSE, unsalvaged |-> FALSE]]
    /\ UNCHANGED <<configDir, onDisk, legacy, edits, outside>>

---------------------------------------------------------------------------
(* Changing and saving. *)

\* hx_prefs_save_soon.
SaveSoon(k) == [k EXCEPT !.timer = TRUE]

WithChange(k) == SaveSoon([k EXCEPT !.edit = edits + 1, !.dirty = TRUE, !.saved = FALSE])

\* gtkhx_prefs_set_* and pref_apply: a write that changes a value.
Change(c) ==
    /\ On(c) /\ Ready(c) /\ edits < MaxEdits
    /\ edits' = edits + 1
    /\ client' = [client EXCEPT ![c] = WithChange(client[c])]
    /\ UNCHANGED <<configDir, onDisk, legacy, outside>>

\* can_save: nothing outside the tests acknowledges a newer file.
CanSave(k) == k.prov # "Newer"

\* hxconfig_flush is done: prefs_flush warns when it failed, and hx_quit goes
\* on to end the client either way.
FlushEnds(k, ok) ==
    IF k.quitting THEN Off
    ELSE [k EXCEPT !.step = "idle", !.synced = FALSE, !.warned = ~ok]

Fails(c, k) ==
    /\ client' = [client EXCEPT ![c] = FlushEnds(k, FALSE)]
    /\ UNCHANGED <<configDir, onDisk>>

\* Config::save, the rename that moves an unusable file aside, if there is one
\* still: its error is discarded and the save goes on.
Salvaged ==
    IF configDir.file = Absent THEN {configDir}
    ELSE {configDir, [file |-> Absent, corrupt |-> configDir.file]}

\* The client k after its attempt, when the directory is then d.
AfterSalvage(k, d) ==
    [k EXCEPT !.step = "salvaged",
              !.unsalvaged = IF k.prov = "Unusable" THEN d = configDir /\ d.file # Absent
                             ELSE @]

\* hxconfig_flush up to write_atomic, from the timer or from hx_quit.
Flush(c, k) ==
    \/ /\ ~k.dirty
       /\ client' = [client EXCEPT ![c] = FlushEnds(k, TRUE)]
       /\ UNCHANGED <<configDir, onDisk>>
    \/ k.dirty /\ ~CanSave(k) /\ Fails(c, k)
    \/ /\ k.dirty /\ CanSave(k)
       /\ configDir' \in IF k.prov = "Unusable" THEN Salvaged ELSE {configDir}
       /\ onDisk' = onDisk \cup {configDir'}
       /\ client' = LET moved == [client EXCEPT ![c] = AfterSalvage(k, configDir')]
                    IN IF configDir' = configDir THEN moved
                       ELSE Disturb(Clients \ {c}, moved)

\* prefs_save_timeout_cb.
TimerFires(c) ==
    /\ On(c) /\ Ready(c) /\ client[c].timer
    /\ Flush(c, [client[c] EXCEPT !.timer = FALSE])
    /\ UNCHANGED <<legacy, edits, outside>>

\* hx_quit: the window's size may be one more change, then hx_prefs_save_now.
Quit(c) ==
    /\ On(c) /\ Ready(c)
    /\ LET ending(k) == [k EXCEPT !.timer = FALSE, !.quitting = TRUE]
       IN \/ Flush(c, ending(client[c])) /\ UNCHANGED edits
          \/ /\ edits < MaxEdits /\ edits' = edits + 1
             /\ Flush(c, ending(WithChange(client[c])))
    /\ UNCHANGED <<legacy, outside>>

\* write_atomic: a temporary of its own, written and synced.
WriteSettings(c) ==
    /\ client[c].step = "salvaged"
    /\ client' = [client EXCEPT ![c].step = "written", ![c].synced = TRUE]
    /\ UNCHANGED <<configDir, onDisk, legacy, edits, outside>>

\* write_atomic: the rename over the file.
RenameSettings(c) ==
    /\ client[c].step = "written"
    /\ LET doc == [kind |-> "current", edit |-> client[c].edit]
           with(d) == [configDir EXCEPT !.file = d]
       IN /\ configDir' = with(doc)
          /\ onDisk' = onDisk \cup {configDir'} \cup
                (IF client[c].synced THEN {} ELSE {with([doc EXCEPT !.kind = "torn"])})
    /\ client' = Disturb(Clients \ {c}, [client EXCEPT ![c].step = "renamed"])
    /\ UNCHANGED <<legacy, edits, outside>>

\* write_atomic: either operation fails, and the temporary is removed.
SaveFails(c) ==
    /\ client[c].step \in {"salvaged", "written"}
    /\ Fails(c, client[c])
    /\ UNCHANGED <<legacy, edits, outside>>

\* Mutated form: the directory is not synced.
SettledUnsynced == onDisk

\* sync_dir.
Settled == {configDir}

\* sync_dir, whose failure is not told, and what Config::save and hxconfig_flush
\* note of a save that worked.
Saved(c) ==
    /\ client[c].step = "renamed"
    /\ \E synced \in BOOLEAN :
           /\ onDisk' = IF synced THEN Settled ELSE onDisk
           /\ client' = [client EXCEPT ![c] =
                  FlushEnds([client[c] EXCEPT !.prov = "Current", !.dirty = FALSE,
                                              !.saved = synced], TRUE)]
    /\ UNCHANGED <<configDir, legacy, edits, outside>>

---------------------------------------------------------------------------
(* External: the user's editor, a newer build, kills and losses of power. *)

WrittenOutside(kind) ==
    /\ outside < MaxOutside
    /\ outside' = outside + 1
    /\ configDir' = [configDir EXCEPT !.file = [kind |-> kind, edit |-> 0]]
    /\ onDisk' = {configDir'}
    /\ client' = Disturb(Clients, client)
    /\ UNCHANGED <<legacy, edits>>

ClientKilled(c) ==
    /\ On(c)
    /\ client' = [client EXCEPT ![c] = Off]
    /\ UNCHANGED <<configDir, onDisk, legacy, edits, outside>>

PowerFails ==
    /\ configDir' \in onDisk
    /\ onDisk' = {configDir'}
    /\ client' = [c \in Clients |-> Off]
    /\ UNCHANGED <<legacy, edits, outside>>

Saves(c) == WriteSettings(c) \/ RenameSettings(c) \/ SaveFails(c) \/ Saved(c)

SettingsNext ==
    \/ \E c \in Clients :
           \/ Load(c) \/ Change(c) \/ TimerFires(c) \/ Quit(c) \/ Saves(c)
           \/ ClientKilled(c)
    \/ \E kind \in {"current", "newer", "bad"} : WrittenOutside(kind)
    \/ PowerFails

SettingsSpec == SettingsInit /\ [][SettingsNext]_settingsVars

---------------------------------------------------------------------------
(* Properties. *)

\* The variables hold values of their types.
SettingsTypeOK ==
    /\ configDir \in Dir /\ onDisk \subseteq Dir
    /\ legacy \in {"none", "keys", "empty"}
    /\ client \in [Clients -> Running \cup {Off}]
    /\ edits \in 0..MaxEdits /\ outside \in 0..MaxOutside

\* The client wrote over a file it could not move aside.
Overwrote(k) == k.unsalvaged /\ (k.step = "renamed" \/ k.prov = "Current")

\* What a client found and could not write back is in its place or moved aside,
\* unless another client or the user has written since, or the attempt to move
\* it aside has failed.
Kept(c) ==
    On(c) /\ client[c].alone /\ ~Overwrote(client[c]) =>
        client[c].found \in {configDir.file, configDir.corrupt}

\* A file of a newer build is not replaced by a client that loaded it, whatever
\* the user changes; when it could not be read, it is moved aside before.
NewerIsKept == \A c \in Clients : On(c) /\ client[c].found.kind = "newer" => Kept(c)

\* The file a client could not use is not destroyed by it, through failed saves
\* and retries, short of a salvage that failed right before the save that went
\* through.
BadIsKept == \A c \in Clients : On(c) /\ client[c].found.kind \in {"bad", "torn"} => Kept(c)

\* No loss of power leaves half a settings file.
SettingsWhole == configDir.file.kind # "torn"

\* What a flush reported as saved, no loss of power takes back, once the
\* directory was synced with it.
SavedSurvives ==
    \A c \in Clients :
        On(c) /\ client[c].alone /\ client[c].saved =>
            \A d \in onDisk : d.file = [kind |-> "current", edit |-> client[c].edit]

\* A change is never forgotten, whatever the order of changes, saves and
\* failures: its save is armed or under way, or its failure was reported.
ChangeIsPending ==
    \A c \in Clients :
        On(c) /\ client[c].dirty =>
            client[c].timer \/ client[c].step # "idle" \/ client[c].warned

\* The settings are kept, the ones this build cannot use too: a file of a newer
\* build stays where it is and a broken one stays or is moved aside where that is
\* possible; a change is on its way to the disk or was reported as failed; a
\* save done and synced survives a loss of power, and the file is never half
\* of one.
SettingsAreKept ==
    NewerIsKept /\ BadIsKept /\ ChangeIsPending /\ SavedSurvives /\ SettingsWhole
=============================================================================
