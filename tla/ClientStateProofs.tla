------------------------- MODULE ClientStateProofs -------------------------
(***************************************************************************)
(* Three pieces of state the client must not lose: the settings file,       *)
(* against crashes, other clients and files it cannot read; the news tree,  *)
(* against answers that come late; and the pinned certificates, against     *)
(* workers that write the file at once.  Each has an inductive invariant,   *)
(* for every value of its constants.                                        *)
(*                                                                          *)
(* Settings: what the run checks is of the file and of what a client holds; *)
(* the induction needs how far a save has come (FoundIsThere), for what is  *)
(* precious is at one place before the move aside and at another after it,  *)
(* and every directory a crash may leave (DiskOK), not only the present one.*)
(* News: what is asked for is in flight because a number names one request, *)
(* a claim is on a request and a root listing is claimed once, and only for *)
(* an empty tree (FetchesOK).                                               *)
(* Pins: what the run checks is of the file; the induction needs the same   *)
(* of every file a worker has built and not yet published, and of every     *)
(* certificate it is already committed to (Sound).                          *)
(***************************************************************************)
EXTENDS SettingsFile, NewsBrowser, KnownHosts, WellFoundedInduction, TLAPS

-----------------------------------------------------------------------------
(* The settings file.                                                         *)

\* What a client cannot write back.
Precious(f) == f.kind \in {"newer", "bad", "torn"}

\* Where what a client found and cannot use is, by how far its save has come: it is
\* moved aside before anything is written, or that has failed and it is where it was
\* until it is written over; only after that is the client one whose saves replace
\* the file.
FoundIsThere(k, dir) ==
    /\ k.prov \in {"Newer", "Unusable", "Current"}
    /\ k.prov = "Newer" => dir.file = k.found
    /\ k.prov = "Current" /\ ~k.unsalvaged => dir.corrupt = k.found
    /\ k.prov = "Unusable" =>
         CASE k.step = "idle" -> dir.file = k.found \/ (dir.file = Absent /\ dir.corrupt = k.found)
           [] k.step \in {"salvaged", "written"} ->
                  IF k.unsalvaged THEN dir.file = k.found
                  ELSE dir.file = Absent /\ dir.corrupt = k.found
           [] OTHER -> k.unsalvaged \/ dir.corrupt = k.found

\* The file a save of this edit writes.
Current(edit) == [kind |-> "current", edit |-> edit]

\* What is said of a running client, the directory and what may be left of it.
Consistent(k, dir, disk) ==
    /\ k \in Running
    /\ k.step # "idle" => k.dirty /\ k.prov # "Newer"
    /\ k.step = "written" => k.synced
    /\ k.saved => ~k.dirty
    /\ k.alone /\ k.step = "renamed" => dir.file = Current(k.edit)
    /\ k.alone /\ k.saved => \A d \in disk : d.file = Current(k.edit)
    /\ k.alone /\ Precious(k.found) => FoundIsThere(k, dir)

\* ... and between its steps: what is not saved has a save coming, or the user was told.
ClientOK(k, dir, disk) ==
    /\ Consistent(k, dir, disk)
    /\ k.dirty => k.timer \/ k.step # "idle" \/ k.warned

\* What a crash may leave is never a half-written settings file.
DiskOK(dir, disk) ==
    /\ dir \in disk /\ disk \subseteq Dir
    /\ \A d \in disk : d.file.kind # "torn"

\* The inductive invariant.
SettingsInv ==
    /\ DiskOK(configDir, onDisk)
    /\ legacy \in {"none", "keys", "empty"}
    /\ edits \in 0..MaxEdits /\ outside \in 0..MaxOutside
    /\ client \in [Clients -> Running \cup {Off}]
    /\ \A c \in Clients : On(c) => ClientOK(client[c], configDir, onDisk)

\* Someone else writing leaves a client's own state in order.
LEMMA Disturbed ==
    ASSUME NEW k, NEW dir, NEW disk, ClientOK(k, dir, disk), NEW dir2, NEW disk2
    PROVE  ClientOK([k EXCEPT !.alone = FALSE], dir2, disk2)
<1> DEFINE m == [k EXCEPT !.alone = FALSE]
<1>1. k \in Running
  BY DEF ClientOK, Consistent
<1>2. /\ m \in Running /\ m.step = k.step /\ m.dirty = k.dirty /\ m.prov = k.prov
      /\ m.synced = k.synced /\ m.saved = k.saved /\ m.timer = k.timer
      /\ m.warned = k.warned /\ m.alone = FALSE
  BY <1>1 DEF Running
<1> HIDE DEF m
<1>3. ClientOK(m, dir2, disk2)
  BY <1>2 DEF ClientOK, Consistent
<1> QED BY <1>3 DEF m

\* FlushEnds leaves a client that reports what it did not save.
LEMMA FlushEndsOK ==
    ASSUME NEW k, NEW dir, NEW disk, Consistent(k, dir, disk), NEW ok \in BOOLEAN,
           k.dirty => ~ok, k.step = "renamed" => k.prov = "Current"
    PROVE  FlushEnds(k, ok) = Off \/ ClientOK(FlushEnds(k, ok), dir, disk)
<1> SUFFICES ASSUME ~k.quitting PROVE ClientOK(FlushEnds(k, ok), dir, disk)
  BY DEF FlushEnds
<1> DEFINE m == [k EXCEPT !.step = "idle", !.synced = FALSE, !.warned = ~ok]
<1>1. k \in Running /\ FlushEnds(k, ok) = m
  BY DEF FlushEnds, Consistent
<1>2. m \in Running
  BY <1>1 DEF Running, Steps
<1>3. /\ m.step = "idle" /\ m.dirty = k.dirty /\ m.prov = k.prov /\ m.edit = k.edit
      /\ m.saved = k.saved /\ m.timer = k.timer /\ m.found = k.found
      /\ m.unsalvaged = k.unsalvaged
      /\ (m.warned <=> ~ok) /\ m.alone = k.alone
  BY <1>1 DEF Running
<1> HIDE DEF m
<1>4. k.step \in Steps
  BY <1>1 DEF Running
<1>5. k.alone /\ Precious(k.found) => FoundIsThere(m, dir)
  BY <1>3, <1>4 DEF FoundIsThere, Consistent, Steps
<1>6. ClientOK(m, dir, disk)
  BY <1>2, <1>3, <1>5 DEF ClientOK, Consistent
<1> QED BY <1>1, <1>6

\* A step of one client that writes nothing.
LEMMA OneClient ==
    ASSUME SettingsInv, NEW c \in Clients, NEW k,
           client' = [client EXCEPT ![c] = k],
           k = Off \/ ClientOK(k, configDir, onDisk),
           UNCHANGED <<configDir, onDisk, legacy, outside>>, edits' \in 0..MaxEdits
    PROVE  SettingsInv'
<1>1. k \in Running \cup {Off}
  BY DEF ClientOK, Consistent
<1>2. client' \in [Clients -> Running \cup {Off}]
  BY <1>1 DEF SettingsInv
<1>3. ASSUME NEW b \in Clients, client'[b].step # "off"
      PROVE  ClientOK(client'[b], configDir, onDisk)
  <2>1. CASE b = c
    BY <1>3, <2>1 DEF SettingsInv, Off
  <2>2. CASE b # c
    BY <1>3, <2>2 DEF SettingsInv, On
  <2> QED BY <2>1, <2>2
<1> QED BY <1>2, <1>3 DEF SettingsInv, On

\* A step of one client that changes the directory, which the others may notice.
LEMMA DirChanges ==
    ASSUME SettingsInv, NEW c \in Clients, NEW k, NEW others, Clients \ {c} \subseteq others,
           client' = Disturb(others, [client EXCEPT ![c] = k]),
           (k = Off /\ c \notin others) \/ (ClientOK(k, configDir', onDisk') /\ c \notin others),
           DiskOK(configDir', onDisk'),
           UNCHANGED <<legacy, outside>>, edits' \in 0..MaxEdits
    PROVE  SettingsInv'
<1>1. k \in Running \cup {Off}
  BY DEF ClientOK, Consistent
<1>2. /\ client' = [b \in Clients |-> client'[b]] /\ client'[c] = k
      /\ \A b \in Clients \ {c} : client'[b] = IF client[b].step # "off"
                                             THEN [client[b] EXCEPT !.alone = FALSE]
                                             ELSE client[b]
  BY DEF Disturb, SettingsInv
<1>3. ASSUME NEW b \in Clients
      PROVE  client'[b] = Off \/ ClientOK(client'[b], configDir', onDisk')
  <2>1. CASE b = c
    BY <1>2, <2>1
  <2>2. CASE b # c /\ client[b].step # "off"
    <3>1. ClientOK(client[b], configDir, onDisk)
      BY <2>2 DEF SettingsInv, On
    <3>2. client'[b] = [client[b] EXCEPT !.alone = FALSE]
      BY <1>2, <2>2
    <3> QED BY <3>1, <3>2, Disturbed
  <2>3. CASE b # c /\ client[b].step = "off"
    BY <1>2, <2>3 DEF SettingsInv, Running, Steps
  <2> QED BY <2>1, <2>2, <2>3
<1>4. client' \in [Clients -> Running \cup {Off}]
  BY <1>2, <1>3 DEF ClientOK, Consistent
<1>5. ASSUME NEW b \in Clients, client'[b].step # "off"
      PROVE  ClientOK(client'[b], configDir', onDisk')
  <2>1. Off.step = "off"
    BY DEF Off
  <2>2. client'[b] # Off
    BY <1>5, <2>1
  <2> QED BY <1>3, <2>2
<1> QED BY <1>4, <1>5 DEF SettingsInv, On

\* No settings file is not one that cannot be used.
LEMMA DocsDiffer == /\ Absent \notin Doc /\ Absent.kind = "absent" /\ ~Precious(Absent)
                    /\ \A n \in 0..MaxEdits : Current(n) \in Doc /\ Current(n).kind = "current"
<1>1. Absent.kind = "absent"
  BY DEF Absent
<1>2. \A d \in Doc : d.kind # "absent"
  BY DEF Doc, DocKinds
<1> QED BY <1>1, <1>2 DEF Precious, Current, Doc, DocKinds

\* A flush that starts: a newer file is left alone, an unusable one moved aside first.
LEMMA FlushStep ==
    ASSUME SettingsInv, NEW c \in Clients, NEW k, Consistent(k, configDir, onDisk),
           k.step = "idle", Flush(c, k),
           UNCHANGED <<legacy, outside>>, edits' \in 0..MaxEdits
    PROVE  SettingsInv'
<1>1. CASE ~k.dirty /\ client' = [client EXCEPT ![c] = FlushEnds(k, TRUE)]
             /\ UNCHANGED <<configDir, onDisk>>
  <2>1. FlushEnds(k, TRUE) = Off \/ ClientOK(FlushEnds(k, TRUE), configDir, onDisk)
    BY <1>1, FlushEndsOK
  <2> QED BY <1>1, <2>1, OneClient
<1>2. CASE Fails(c, k)
  <2>1. FlushEnds(k, FALSE) = Off \/ ClientOK(FlushEnds(k, FALSE), configDir, onDisk)
    BY FlushEndsOK
  <2> QED BY <1>2, <2>1, OneClient DEF Fails
<1>3. CASE /\ k.dirty /\ CanSave(k)
           /\ configDir' \in IF k.prov = "Unusable" THEN Salvaged ELSE {configDir}
           /\ onDisk' = onDisk \cup {configDir'}
           /\ client' = LET moved == [client EXCEPT ![c] = AfterSalvage(k, configDir')]
                        IN IF configDir' = configDir THEN moved
                           ELSE Disturb(Clients \ {c}, moved)
  <2> DEFINE failed == IF k.prov = "Unusable"
                       THEN configDir' = configDir /\ configDir'.file # Absent
                       ELSE k.unsalvaged
             m == [k EXCEPT !.step = "salvaged", !.unsalvaged = failed]
  <2>0. k \in Running /\ configDir \in Dir /\ DiskOK(configDir, onDisk)
    BY DEF Consistent, SettingsInv, DiskOK
  <2>a. failed \in BOOLEAN
    BY <2>0 DEF Running
  <2>b. AfterSalvage(k, configDir') = m
    BY DEF AfterSalvage
  <2> HIDE DEF failed
  <2>1. m \in Running
    BY <2>0, <2>a DEF Running, Steps
  <2>2. /\ m.step = "salvaged" /\ m.dirty = k.dirty /\ m.prov = k.prov /\ m.edit = k.edit
        /\ m.saved = k.saved /\ m.found = k.found
        /\ m.unsalvaged = failed /\ m.alone = k.alone
    BY <2>0 DEF Running
  <2>3. client' = IF configDir' = configDir THEN [client EXCEPT ![c] = m]
                  ELSE Disturb(Clients \ {c}, [client EXCEPT ![c] = m])
    BY <1>3, <2>b
  <2> HIDE DEF m
  <2>4. k.dirty /\ k.prov # "Newer" /\ ~k.saved
    BY <1>3 DEF CanSave, Consistent
  <2>5. k.prov = "Unusable" =>
          IF configDir.file = Absent THEN configDir' = configDir /\ ~failed
          ELSE \/ configDir' = configDir /\ failed
               \/ configDir'.file = Absent /\ configDir'.corrupt = configDir.file /\ ~failed
    BY <1>3 DEF Salvaged, failed
  <2>6. k.prov # "Unusable" => configDir' = configDir
    BY <1>3
  <2>7. k.alone /\ Precious(k.found) => FoundIsThere(m, configDir')
    <3> SUFFICES ASSUME k.alone, Precious(k.found) PROVE FoundIsThere(m, configDir')
      OBVIOUS
    <3>1. FoundIsThere(k, configDir) /\ k.found # Absent
      BY DocsDiffer DEF Consistent
    <3>2. CASE k.prov = "Unusable"
      <4>1. configDir.file = k.found \/ (configDir.file = Absent /\ configDir.corrupt = k.found)
        BY <3>1, <3>2 DEF FoundIsThere
      <4>2. IF failed THEN configDir'.file = k.found
            ELSE configDir'.file = Absent /\ configDir'.corrupt = k.found
        BY <3>1, <3>2, <4>1, <2>5
      <4> QED BY <2>2, <3>2, <4>2 DEF FoundIsThere
    <3>3. CASE k.prov # "Unusable"
      BY <2>2, <2>6, <3>1, <3>3 DEF FoundIsThere, failed
    <3> QED BY <3>2, <3>3
  <2>8. ClientOK(m, configDir', onDisk')
    BY <2>1, <2>2, <2>4, <2>7 DEF ClientOK, Consistent
  <2>9. CASE configDir' = configDir
    <3>1. onDisk' = onDisk
      BY <1>3, <2>0, <2>9 DEF DiskOK
    <3> QED BY <2>3, <2>8, <2>9, <3>1, OneClient
  <2>10. CASE configDir' # configDir
    <3>1. configDir' = [file |-> Absent, corrupt |-> configDir.file]
      BY <1>3, <2>10 DEF Salvaged
    <3>2. configDir' \in Dir /\ configDir'.file.kind # "torn"
      BY <2>0, <3>1, DocsDiffer DEF Dir
    <3>3. DiskOK(configDir', onDisk')
      BY <1>3, <2>0, <3>2 DEF DiskOK
    <3>4. client' = Disturb(Clients \ {c}, [client EXCEPT ![c] = m])
      BY <2>3, <2>10
    <3> QED BY <2>8, <3>3, <3>4, DirChanges
  <2> QED BY <2>9, <2>10
<1> QED BY <1>1, <1>2, <1>3 DEF Flush

\* A change to a client that is idle: its timer, that it quits, and perhaps a value.
LEMMA IdleChanges ==
    ASSUME NEW k, NEW dir, NEW disk, Consistent(k, dir, disk), k.step = "idle",
           NEW m \in Running, m.step = k.step, m.prov = k.prov,
           m.alone = k.alone, m.found = k.found, m.unsalvaged = k.unsalvaged,
           \/ m.dirty /\ ~m.saved
           \/ m.dirty = k.dirty /\ m.saved = k.saved /\ m.edit = k.edit
    PROVE  Consistent(m, dir, disk)
  BY DEF Consistent, FoundIsThere

\* What the timer and hx_quit make of a client, and what WithChange does before.
LEMMA TimerFields ==
    ASSUME NEW k \in Running,
           NEW m \in {[k EXCEPT !.timer = FALSE], [k EXCEPT !.timer = FALSE, !.quitting = TRUE]}
    PROVE  /\ m \in Running /\ m.step = k.step /\ m.prov = k.prov /\ m.alone = k.alone
           /\ m.found = k.found
           /\ m.unsalvaged = k.unsalvaged /\ m.dirty = k.dirty /\ m.saved = k.saved /\ m.edit = k.edit
  BY DEF Running

\* What a change of a setting changes.
LEMMA ChangeFields ==
    ASSUME NEW k \in Running, edits + 1 \in 0..MaxEdits
    PROVE  LET m == WithChange(k)
           IN  /\ m \in Running /\ m.step = k.step /\ m.prov = k.prov /\ m.alone = k.alone
               /\ m.found = k.found
               /\ m.unsalvaged = k.unsalvaged /\ m.dirty /\ ~m.saved /\ m.timer
  BY DEF Running, WithChange, SaveSoon

\* At the start no client runs.
LEMMA SettingsInit_Inv == SettingsInit => SettingsInv
<1> SUFFICES ASSUME SettingsInit PROVE SettingsInv
  OBVIOUS
<1>1. PICK f \in {Absent, [kind |-> "older", edit |-> 0]} :
           configDir = [file |-> f, corrupt |-> Absent]
  BY DEF SettingsInit
<1>2. 0 \in 0..MaxEdits /\ 0 \in 0..MaxOutside
  BY SettingsAssumption
<1>3. configDir \in Dir /\ configDir.file.kind # "torn"
  BY <1>1, <1>2, DocsDiffer DEF Dir, Doc, DocKinds
<1>4. DiskOK(configDir, onDisk)
  BY <1>3 DEF SettingsInit, DiskOK
<1> QED BY <1>2, <1>4 DEF SettingsInit, SettingsInv, On, Off

\* Loading: what is found is remembered, and a legacy file taken over.
LEMMA LoadStep == ASSUME SettingsInv, NEW c \in Clients, Load(c) PROVE SettingsInv'
<1> DEFINE f == configDir.file
<1>1. PICK prov \in {LoadOrMigrate(f)} \cup (IF f = Absent THEN {} ELSE {"Unusable"}) :
        client' = [client EXCEPT ![c] =
                  [step |-> "idle", prov |-> prov,
                   edit |-> IF prov \in {"Current", "Migrated", "Newer"} THEN f.edit ELSE 0,
                   dirty |-> FALSE, timer |-> FALSE, synced |-> FALSE,
                   quitting |-> FALSE, warned |-> FALSE, found |-> f,
                   alone |-> TRUE, saved |-> FALSE, unsalvaged |-> FALSE]]
  BY DEF Load
<1> DEFINE e == IF prov \in {"Current", "Migrated", "Newer"} THEN f.edit ELSE 0
           k == [step |-> "idle", prov |-> prov, edit |-> e,
                   dirty |-> FALSE, timer |-> FALSE, synced |-> FALSE,
                   quitting |-> FALSE, warned |-> FALSE, found |-> f,
                   alone |-> TRUE, saved |-> FALSE, unsalvaged |-> FALSE]
<1>2. f \in Doc \cup {Absent}
  BY DEF SettingsInv, DiskOK, Dir
<1>3. CASE f = Absent
  <2>1. prov \in {"Imported", "Fresh"}
    BY <1>1, <1>3 DEF LoadOrMigrate
  <2>2. e \in 0..MaxEdits
    BY <2>1, SettingsAssumption
  <2>3. k \in Running
    BY <1>2, <2>1, <2>2 DEF Running, Steps, Provenances
  <2>4. ClientOK(k, configDir, onDisk)
    BY <1>3, <2>3, DocsDiffer DEF ClientOK, Consistent
  <2> QED BY <1>1, <2>4, OneClient DEF Load, SettingsInv
<1>4. CASE f # Absent
  <2>0. f \in Doc
    BY <1>2, <1>4
  <2>1. /\ prov \in {"Current", "Migrated", "Newer", "Unusable"}
        /\ Precious(f) => prov \in {"Newer", "Unusable"}
    BY <1>1, <1>4, <2>0 DEF LoadOrMigrate, ProvenanceOf, Precious, Doc, DocKinds
  <2>2. e \in 0..MaxEdits
    BY <2>0, SettingsAssumption DEF Doc
  <2>3. k \in Running
    <3> HIDE DEF e, f
    <3> QED BY <1>2, <2>1, <2>2 DEF Running, Steps, Provenances
  <2>4. Precious(f) => FoundIsThere(k, configDir)
    BY <2>1 DEF FoundIsThere
  <2>5. ClientOK(k, configDir, onDisk)
    BY <2>3, <2>4 DEF ClientOK, Consistent
  <2> QED BY <1>1, <2>5, OneClient DEF Load, SettingsInv
<1> QED BY <1>3, <1>4

\* The rename that makes a save visible: the temporary file is synced before it.
LEMMA RenameStep == ASSUME SettingsInv, NEW c \in Clients, RenameSettings(c) PROVE SettingsInv'
<1> DEFINE k == client[c]
           m == [k EXCEPT !.step = "renamed"]
<1>1. /\ ClientOK(k, configDir, onDisk) /\ k \in Running /\ k.step = "written" /\ k.synced
      /\ k.dirty /\ ~k.saved
  <2>1. ClientOK(k, configDir, onDisk) /\ k.step = "written"
    BY DEF RenameSettings, SettingsInv, On
  <2> QED BY <2>1 DEF ClientOK, Consistent
<1>2. /\ configDir' = [configDir EXCEPT !.file = Current(k.edit)]
      /\ onDisk' = onDisk \cup {configDir'}
      /\ client' = Disturb(Clients \ {c}, [client EXCEPT ![c] = m])
  <2>1. client' = Disturb(Clients \ {c}, [client EXCEPT ![c] = m])
    BY DEF RenameSettings
  <2> QED BY <1>1, <2>1 DEF RenameSettings, Current
<1>3. m \in Running
  BY <1>1 DEF Running, Steps
<1>4. /\ m.step = "renamed" /\ m.dirty = k.dirty /\ m.prov = k.prov /\ m.edit = k.edit
      /\ m.saved = k.saved /\ m.found = k.found
      /\ m.unsalvaged = k.unsalvaged /\ m.alone = k.alone
  BY <1>1 DEF Running
<1> HIDE DEF m
<1>5. configDir \in Dir /\ DiskOK(configDir, onDisk) /\ k.edit \in 0..MaxEdits
  BY <1>1 DEF SettingsInv, DiskOK, Running
<1>6. /\ configDir' \in Dir /\ configDir'.file = Current(k.edit)
      /\ configDir'.corrupt = configDir.corrupt
  BY <1>2, <1>5, DocsDiffer DEF Dir
<1>7. DiskOK(configDir', onDisk')
  BY <1>2, <1>5, <1>6, DocsDiffer DEF DiskOK
<1>8. k.alone /\ Precious(k.found) => FoundIsThere(m, configDir')
  BY <1>1, <1>4, <1>6 DEF FoundIsThere, ClientOK, Consistent
<1>9. ClientOK(m, configDir', onDisk')
  BY <1>1, <1>3, <1>4, <1>6, <1>8 DEF ClientOK, Consistent
<1> QED BY <1>2, <1>7, <1>9, DirChanges DEF RenameSettings, SettingsInv

\* The end of a save.
LEMMA SavedStep == ASSUME SettingsInv, NEW c \in Clients, Saved(c) PROVE SettingsInv'
<1> DEFINE k == client[c]
<1>0. PICK synced \in BOOLEAN :
          /\ onDisk' = IF synced THEN {configDir} ELSE onDisk
          /\ client' = [client EXCEPT ![c] =
                 FlushEnds([k EXCEPT !.prov = "Current", !.dirty = FALSE, !.saved = synced], TRUE)]
  BY DEF Saved, Settled
<1> DEFINE m == [k EXCEPT !.prov = "Current", !.dirty = FALSE, !.saved = synced]
           disk == IF synced THEN {configDir} ELSE onDisk
<1>1. /\ ClientOK(k, configDir, onDisk) /\ k \in Running /\ k.step = "renamed"
      /\ configDir \in Dir /\ DiskOK(configDir, onDisk) /\ k.prov # "Newer"
  <2>1. ClientOK(k, configDir, onDisk) /\ k.step = "renamed"
    BY DEF Saved, SettingsInv, On
  <2> QED BY <2>1 DEF ClientOK, Consistent, SettingsInv, DiskOK
<1>2. /\ onDisk' = disk /\ UNCHANGED <<configDir, legacy, edits, outside>>
      /\ client' = [client EXCEPT ![c] = FlushEnds(m, TRUE)]
  BY <1>0 DEF Saved
<1>3. m \in Running
  BY <1>1 DEF Running, Provenances
<1>4. /\ m.step = "renamed" /\ m.dirty = FALSE /\ m.prov = "Current" /\ m.edit = k.edit
      /\ m.saved = synced /\ m.found = k.found
      /\ m.unsalvaged = k.unsalvaged /\ m.alone = k.alone
  BY <1>1 DEF Running
<1> HIDE DEF m
<1>5. k.alone /\ Precious(k.found) => FoundIsThere(m, configDir)
  BY <1>1, <1>4 DEF FoundIsThere, ClientOK, Consistent
<1> DEFINE e == FlushEnds(m, TRUE)
<1>6. e = Off \/ ClientOK(e, configDir, disk)
  <2>1. ~m.quitting => e = [m EXCEPT !.step = "idle", !.synced = FALSE, !.warned = FALSE]
    BY DEF FlushEnds
  <2>2. ~m.quitting => /\ e \in Running /\ e.step = "idle" /\ e.dirty = FALSE
                       /\ e.prov = "Current" /\ e.edit = k.edit /\ e.saved = synced
                       /\ e.found = k.found
                       /\ e.unsalvaged = k.unsalvaged /\ e.alone = k.alone
    BY <1>3, <1>4, <2>1, ZenonT(40) DEF Running, Steps
  <2>3. m.quitting => e = Off
    BY DEF FlushEnds
  <2> HIDE DEF e
  <2>z. configDir \in disk /\ disk \subseteq onDisk
    BY <1>1 DEF DiskOK
  <2>y. synced => disk = {configDir}
    OBVIOUS
  <2> HIDE DEF disk
  <2>4. k.alone => configDir.file = Current(k.edit)
    BY <1>1 DEF ClientOK, Consistent
  <2>5. ~m.quitting /\ k.alone /\ Precious(k.found) => FoundIsThere(e, configDir)
    BY <1>4, <1>5, <2>2 DEF FoundIsThere
  <2>6. ~m.quitting => ClientOK(e, configDir, disk)
    BY <2>2, <2>4, <2>5, <2>y DEF ClientOK, Consistent
  <2> QED BY <2>3, <2>6
<1> HIDE DEF e
<1>7. ASSUME NEW b \in Clients, client'[b].step # "off"
      PROVE  ClientOK(client'[b], configDir, disk)
  <2>1. CASE b = c
    <3>1. client'[b] = e
      BY <1>2, <2>1 DEF SettingsInv, e
    <3>2. e # Off
      BY <1>7, <3>1 DEF Off
    <3> QED BY <3>1, <3>2, <1>6
  <2>2. CASE b # c
    <3>1. client'[b] = client[b] /\ ClientOK(client[b], configDir, onDisk)
      BY <1>2, <1>7, <2>2 DEF SettingsInv, On
    <3>2. configDir \in onDisk /\ disk \subseteq onDisk
      BY <1>1 DEF DiskOK
    <3> QED BY <3>1, <3>2 DEF ClientOK, Consistent
  <2> QED BY <2>1, <2>2
<1>8. client' \in [Clients -> Running \cup {Off}]
  BY <1>2, <1>6 DEF SettingsInv, ClientOK, Consistent, e
<1>9. DiskOK(configDir, disk)
  BY <1>1 DEF DiskOK
<1> QED BY <1>2, <1>7, <1>8, <1>9 DEF SettingsInv, On

\* Another program replaces the file.
LEMMA WrittenOutsideStep ==
    ASSUME SettingsInv, NEW kind \in {"current", "newer", "bad"}, WrittenOutside(kind)
    PROVE  SettingsInv'
<1> DEFINE doc == [kind |-> kind, edit |-> 0]
<1>1. /\ configDir' = [configDir EXCEPT !.file = doc] /\ onDisk' = {configDir'}
      /\ client' = Disturb(Clients, client) /\ UNCHANGED <<legacy, edits>>
      /\ outside < MaxOutside /\ outside' = outside + 1 /\ configDir \in Dir
  BY DEF WrittenOutside, SettingsInv, DiskOK
<1>2. outside' \in 0..MaxOutside
  BY <1>1, SettingsAssumption DEF SettingsInv
<1>3. doc \in Doc /\ doc.kind # "torn"
  BY SettingsAssumption DEF Doc, DocKinds
<1> HIDE DEF doc
<1>4. configDir' \in Dir /\ configDir'.file = doc
  BY <1>1, <1>3 DEF Dir
<1>5. DiskOK(configDir', onDisk')
  BY <1>1, <1>3, <1>4 DEF DiskOK
<1>6. /\ client' = [b \in Clients |-> client'[b]]
      /\ \A b \in Clients : client'[b] = IF client[b].step # "off"
                                         THEN [client[b] EXCEPT !.alone = FALSE]
                                         ELSE client[b]
  BY <1>1 DEF Disturb
<1>7. ASSUME NEW b \in Clients
      PROVE  client'[b] = Off \/ ClientOK(client'[b], configDir', onDisk')
  <2>1. CASE client[b].step # "off"
    <3>1. ClientOK(client[b], configDir, onDisk)
      BY <2>1 DEF SettingsInv, On
    <3>2. client'[b] = [client[b] EXCEPT !.alone = FALSE]
      BY <1>6, <2>1
    <3> QED BY <3>1, <3>2, Disturbed
  <2>2. CASE client[b].step = "off"
    BY <1>6, <2>2 DEF SettingsInv, Running, Steps
  <2> QED BY <2>1, <2>2
<1>8. client' \in [Clients -> Running \cup {Off}]
  BY <1>6, <1>7 DEF ClientOK, Consistent
<1>9. ASSUME NEW b \in Clients, client'[b].step # "off"
      PROVE  ClientOK(client'[b], configDir', onDisk')
  <2>1. Off.step = "off"
    BY DEF Off
  <2>2. client'[b] # Off
    BY <1>9, <2>1
  <2> QED BY <1>7, <2>2
<1> QED BY <1>1, <1>2, <1>5, <1>8, <1>9 DEF SettingsInv, On

\* Every step keeps the invariant.
LEMMA SettingsStep == SettingsInv /\ [SettingsNext]_settingsVars => SettingsInv'
<1> SUFFICES ASSUME SettingsInv, [SettingsNext]_settingsVars PROVE SettingsInv'
  OBVIOUS
<1>0. \A c \in Clients : On(c) => /\ ClientOK(client[c], configDir, onDisk)
                                  /\ Consistent(client[c], configDir, onDisk)
                                  /\ client[c] \in Running
  BY DEF SettingsInv, ClientOK, Consistent
<1>1. ASSUME NEW c \in Clients, Load(c) PROVE SettingsInv'
  BY <1>1, LoadStep
<1>2. ASSUME NEW c \in Clients, Change(c) PROVE SettingsInv'
  <2> DEFINE k == client[c]
             m == WithChange(k)
  <2>1. edits' = edits + 1 /\ edits + 1 \in 0..MaxEdits
    BY <1>2, SettingsAssumption DEF Change, SettingsInv
  <2>2. Consistent(k, configDir, onDisk) /\ k \in Running /\ k.step = "idle"
    BY <1>0, <1>2 DEF Change, Ready
  <2>3. /\ m \in Running /\ m.step = k.step /\ m.prov = k.prov /\ m.alone = k.alone
        /\ m.found = k.found
        /\ m.unsalvaged = k.unsalvaged /\ m.dirty /\ ~m.saved /\ m.timer
    BY <2>1, <2>2, ChangeFields
  <2> HIDE DEF m
  <2>4. Consistent(m, configDir, onDisk)
    BY <2>2, <2>3, IdleChanges
  <2>5. ClientOK(m, configDir, onDisk)
    BY <2>3, <2>4 DEF ClientOK
  <2> QED BY <1>2, <2>1, <2>5, OneClient DEF Change, m
<1>3. ASSUME NEW c \in Clients, TimerFires(c) PROVE SettingsInv'
  <2> DEFINE k == client[c]
             m == [k EXCEPT !.timer = FALSE]
  <2>1. Consistent(k, configDir, onDisk) /\ k \in Running /\ k.step = "idle" /\ Flush(c, m)
    BY <1>0, <1>3 DEF TimerFires, Ready
  <2>2. /\ m \in Running /\ m.step = k.step /\ m.prov = k.prov /\ m.alone = k.alone
        /\ m.found = k.found
        /\ m.unsalvaged = k.unsalvaged /\ m.dirty = k.dirty /\ m.saved = k.saved /\ m.edit = k.edit
    BY <2>1, TimerFields
  <2> HIDE DEF m
  <2>3. Consistent(m, configDir, onDisk)
    BY <2>1, <2>2, IdleChanges
  <2> QED BY <1>3, <2>1, <2>2, <2>3, FlushStep DEF TimerFires, SettingsInv
<1>4. ASSUME NEW c \in Clients, Quit(c) PROVE SettingsInv'
  <2> DEFINE k == client[c]
             w == WithChange(k)
  <2>1. Consistent(k, configDir, onDisk) /\ k \in Running /\ k.step = "idle"
    BY <1>0, <1>4 DEF Quit, Ready
  <2>2. CASE Flush(c, [k EXCEPT !.timer = FALSE, !.quitting = TRUE]) /\ UNCHANGED edits
    <3> DEFINE m == [k EXCEPT !.timer = FALSE, !.quitting = TRUE]
    <3>1. /\ m \in Running /\ m.step = k.step /\ m.prov = k.prov /\ m.alone = k.alone
          /\ m.found = k.found
          /\ m.unsalvaged = k.unsalvaged /\ m.dirty = k.dirty /\ m.saved = k.saved /\ m.edit = k.edit
      BY <2>1, TimerFields
    <3>2. Flush(c, m)
      BY <2>2
    <3> HIDE DEF m
    <3>3. Consistent(m, configDir, onDisk)
      BY <2>1, <3>1, IdleChanges
    <3> QED BY <1>4, <2>1, <2>2, <3>1, <3>2, <3>3, FlushStep DEF Quit, SettingsInv
  <2>3. CASE /\ edits < MaxEdits /\ edits' = edits + 1
             /\ Flush(c, [w EXCEPT !.timer = FALSE, !.quitting = TRUE])
    <3> DEFINE m == [w EXCEPT !.timer = FALSE, !.quitting = TRUE]
    <3>1. edits' \in 0..MaxEdits /\ edits + 1 \in 0..MaxEdits
      BY <2>3, SettingsAssumption DEF SettingsInv
    <3>2. /\ w \in Running /\ w.step = k.step /\ w.prov = k.prov /\ w.alone = k.alone
          /\ w.found = k.found
          /\ w.unsalvaged = k.unsalvaged /\ w.dirty /\ ~w.saved
      BY <2>1, <3>1, ChangeFields
    <3>3. Flush(c, m)
      BY <2>3
    <3> HIDE DEF w
    <3>4. /\ m \in Running /\ m.step = w.step /\ m.prov = w.prov /\ m.alone = w.alone
          /\ m.found = w.found
          /\ m.unsalvaged = w.unsalvaged /\ m.dirty = w.dirty /\ m.saved = w.saved /\ m.edit = w.edit
      BY <3>2, TimerFields
    <3> HIDE DEF m
    <3>5. Consistent(m, configDir, onDisk)
      BY <2>1, <3>2, <3>4, IdleChanges
    <3> QED BY <1>4, <2>1, <3>1, <3>2, <3>3, <3>4, <3>5, FlushStep DEF Quit
  <2> QED BY <1>4, <2>2, <2>3 DEF Quit
<1>5. ASSUME NEW c \in Clients, WriteSettings(c) PROVE SettingsInv'
  <2> DEFINE k == client[c]
             m == [k EXCEPT !.step = "written", !.synced = TRUE]
  <2>1. ClientOK(k, configDir, onDisk) /\ k \in Running /\ k.step = "salvaged"
    BY <1>0, <1>5 DEF WriteSettings, On
  <2>2. client' = [client EXCEPT ![c] = m]
    BY <1>5 DEF WriteSettings
  <2>3. m \in Running
    BY <2>1 DEF Running, Steps
  <2>4. /\ m.step = "written" /\ m.synced = TRUE /\ m.dirty = k.dirty /\ m.prov = k.prov
        /\ m.edit = k.edit /\ m.saved = k.saved /\ m.found = k.found
        /\ m.unsalvaged = k.unsalvaged /\ m.alone = k.alone
    BY <2>1 DEF Running
  <2> HIDE DEF m
  <2>5. k.alone /\ Precious(k.found) => FoundIsThere(m, configDir)
    BY <2>1, <2>4 DEF FoundIsThere, ClientOK, Consistent
  <2>6. ClientOK(m, configDir, onDisk)
    BY <2>1, <2>3, <2>4, <2>5 DEF ClientOK, Consistent
  <2> QED BY <1>5, <2>2, <2>6, OneClient DEF WriteSettings, SettingsInv
<1>6. ASSUME NEW c \in Clients, RenameSettings(c) PROVE SettingsInv'
  BY <1>6, RenameStep
<1>7. ASSUME NEW c \in Clients, SaveFails(c) PROVE SettingsInv'
  <2> DEFINE k == client[c]
  <2>1. Consistent(k, configDir, onDisk) /\ k.step # "renamed"
    BY <1>0, <1>7 DEF SaveFails, On
  <2>2. FlushEnds(k, FALSE) = Off \/ ClientOK(FlushEnds(k, FALSE), configDir, onDisk)
    BY <2>1, FlushEndsOK
  <2> QED BY <1>7, <2>2, OneClient DEF SaveFails, Fails, SettingsInv
<1>8. ASSUME NEW c \in Clients, Saved(c) PROVE SettingsInv'
  BY <1>8, SavedStep
<1>9. ASSUME NEW c \in Clients, ClientKilled(c) PROVE SettingsInv'
  BY <1>9, OneClient DEF ClientKilled, SettingsInv
<1>10. ASSUME NEW kind \in {"current", "newer", "bad"}, WrittenOutside(kind) PROVE SettingsInv'
  BY <1>10, WrittenOutsideStep
<1>11. CASE PowerFails
  <2>1. DiskOK(configDir', onDisk')
    BY <1>11 DEF PowerFails, SettingsInv, DiskOK
  <2>2. client' \in [Clients -> Running \cup {Off}] /\ \A c \in Clients : client'[c].step = "off"
    BY <1>11 DEF PowerFails, Off
  <2> QED BY <1>11, <2>1, <2>2 DEF PowerFails, SettingsInv, On
<1>12. CASE UNCHANGED settingsVars
  BY <1>12 DEF settingsVars, SettingsInv, On
<1> QED BY <1>1, <1>2, <1>3, <1>4, <1>5, <1>6, <1>7, <1>8, <1>9, <1>10, <1>11, <1>12
        DEF SettingsNext, Saves

\* For any number of clients, changes and writes from outside: a crash never leaves a torn
\* settings file, a client whose save was synced finds what it saved, what it could not
\* read is still there under its own name or the corrupt one unless the salvage failed
\* before the save, and what is not saved has a save coming or was reported (hxconfig's
\* flush, save, write_atomic and load).
THEOREM SettingsAreAlwaysKept == SettingsSpec => [](SettingsTypeOK /\ SettingsAreKept)
<1>1. SettingsInv => SettingsTypeOK /\ SettingsAreKept
  <2> SUFFICES ASSUME SettingsInv PROVE SettingsTypeOK /\ SettingsAreKept
    OBVIOUS
  <2>1. SettingsTypeOK /\ SettingsWhole
    BY DEF SettingsInv, DiskOK, SettingsTypeOK, SettingsWhole
  <2>2. SavedSurvives /\ ChangeIsPending
    BY DEF SettingsInv, ClientOK, Consistent, SavedSurvives, ChangeIsPending, Current
  <2>3. ASSUME NEW c \in Clients, On(c), Precious(client[c].found) PROVE Kept(c)
    <3> SUFFICES ASSUME client[c].alone, ~Overwrote(client[c])
                 PROVE  client[c].found \in {configDir.file, configDir.corrupt}
      BY DEF Kept
    <3>1. FoundIsThere(client[c], configDir) /\ client[c] \in Running
      BY <2>3 DEF SettingsInv, ClientOK, Consistent
    <3>2. client[c].step \in Steps
      BY <3>1 DEF Running
    <3> QED BY <3>1, <3>2 DEF FoundIsThere, Steps, Overwrote
  <2>4. NewerIsKept /\ BadIsKept
    BY <2>3 DEF NewerIsKept, BadIsKept, Precious
  <2> QED BY <2>1, <2>2, <2>4 DEF SettingsAreKept
<1> QED BY <1>1, SettingsInit_Inv, SettingsStep, PTL DEF SettingsSpec

-----------------------------------------------------------------------------
(* Threaded news.                                                             *)

\* Where the answer to a request goes.
Targets == Containers \cup Posts \cup {"root", "gone"}
FetchSet == [trans : 1..MaxFetches, into : Targets]

\* The requests S in flight and the claims P on their answers, when the tree holds r
\* root listings: a number is of one request, a claim is on a request, no article is
\* claimed, and a root listing is claimed once and only for an empty tree.
FetchesOK(S, P, r) ==
    /\ S \subseteq FetchSet /\ P \subseteq 1..MaxFetches
    /\ \A f, g \in S : f.trans = g.trans => f = g
    /\ \A t \in P : \E f \in S : f.trans = t
    /\ \A f \in S : f.into \in Posts => f.trans \notin P
    /\ \A f \in S : f.into = "root" /\ f.trans \in P => r = 0
    /\ \A f, g \in S : f.into = "root" /\ f.trans \in P /\ g.into = "root" /\ g.trans \in P
                         => f = g

\* The inductive invariant.
NewsInv ==
    /\ NewsTypeOK /\ NewsIsCurrent
    /\ FetchesOK(fetches, pending, root)
    /\ ~window => root = 0 /\ view = Blank /\ pending = {}

\* A request has a number no request in flight has.
LEMMA NextTransIsFree ==
    ASSUME FreeTrans # {}
    PROVE  NextTrans \in 1..MaxFetches /\ \A f \in fetches : f.trans # NextTrans
<1>1. FreeTrans \subseteq Nat
  BY NewsAssumption DEF FreeTrans
<1> DEFINE less == OpToRel(<, Nat)
<1>2. IsWellFoundedOn(less, Nat)
  BY NatLessThanWellFounded, Zenon
<1>3. \A u, t \in Nat : u < t => <<u, t>> \in less
  BY Zenon DEF OpToRel
<1> HIDE DEF less
<1>0. PICK t \in FreeTrans : \A u \in FreeTrans : ~(<<u, t>> \in less)
  BY <1>1, <1>2, WFMin
<1>4. \A u \in FreeTrans : t <= u
  <2> SUFFICES ASSUME NEW u \in FreeTrans PROVE t <= u
    OBVIOUS
  <2>1. t \in Nat /\ u \in Nat
    BY <1>1
  <2>2. ~(u < t)
    BY <1>0, <1>3, <2>1
  <2> QED BY <2>1, <2>2
<1>5. NextTrans \in FreeTrans
  BY <1>4 DEF NextTrans
<1> QED BY <1>5 DEF FreeTrans

\* A request whose target goes away keeps its number and its claim.
LEMMA OrphanedOK ==
    ASSUME NEW S, NEW P, NEW r, FetchesOK(S, P, r), NEW N, "root" \notin N
    PROVE  /\ FetchesOK(Orphaned(S, N), P, r)
           /\ \A o \in Orphaned(S, N) : \E f \in S : f.trans = o.trans
           /\ \A f \in S : f.into \notin N => f \in Orphaned(S, N)
<1> DEFINE new(f) == IF f.into \in N THEN [f EXCEPT !.into = "gone"] ELSE f
<1>1. \A f \in S : f \in FetchSet
  BY DEF FetchesOK
<1>2. \A f \in S : /\ new(f) \in FetchSet /\ new(f).trans = f.trans
                   /\ new(f).into = "root" => new(f) = f
                   /\ new(f).into \in Posts => new(f) = f
  BY <1>1, NewsAssumption DEF FetchSet, Targets
<1>3. Orphaned(S, N) = {new(f) : f \in S}
  BY DEF Orphaned
<1>4. \A f \in S : f.into \notin N => new(f) = f
  OBVIOUS
<1> HIDE DEF new
<1>5. \A o \in Orphaned(S, N) : \E f \in S : o = new(f) /\ f.trans = o.trans
  BY <1>2, <1>3
<1>6. Orphaned(S, N) \subseteq FetchSet
  BY <1>2, <1>3
<1>7. \A e, g \in Orphaned(S, N) : e.trans = g.trans => e = g
  BY <1>5 DEF FetchesOK
<1>8. \A t \in P : \E f \in Orphaned(S, N) : f.trans = t
  BY <1>2, <1>3 DEF FetchesOK
<1>9. \A o \in Orphaned(S, N) : o.into \in Posts \cup {"root"} => o \in S
  BY <1>2, <1>5
<1>10. FetchesOK(Orphaned(S, N), P, r)
  BY <1>6, <1>7, <1>8, <1>9 DEF FetchesOK
<1> QED BY <1>3, <1>4, <1>5, <1>10

\* A new request, claimed or not.
LEMMA AskedOK ==
    ASSUME NEW S, NEW P, NEW r, FetchesOK(S, P, r),
           NEW t \in 1..MaxFetches, \A f \in S : f.trans # t,
           NEW into \in Containers \cup Posts \cup {"root"}
    PROVE  LET T == S \cup {[trans |-> t, into |-> into]}
           IN  /\ FetchesOK(T, P, r)
               /\ into \notin Posts /\ (into = "root" => r = 0 /\ ~DirlistInFlight(S, P, "root"))
                    => FetchesOK(T, P \cup {t}, r)
<1> DEFINE e == [trans |-> t, into |-> into]
           T == S \cup {e}
<1>1. e \in FetchSet /\ e.trans = t /\ e.into = into
  BY DEF FetchSet, Targets
<1> HIDE DEF e
<1>2. t \notin P
  BY DEF FetchesOK
<1>3. /\ T \subseteq FetchSet
      /\ \A f, g \in T : f.trans = g.trans => f = g
      /\ \A u \in P \cup {t} : \E f \in T : f.trans = u
  BY <1>1 DEF FetchesOK
<1>4. FetchesOK(T, P, r)
  BY <1>1, <1>2, <1>3 DEF FetchesOK
<1>5. ASSUME into \notin Posts, into = "root" => r = 0 /\ ~DirlistInFlight(S, P, "root")
      PROVE  FetchesOK(T, P \cup {t}, r)
  <2>1. P \cup {t} \subseteq 1..MaxFetches
    BY DEF FetchesOK
  <2>2. \A f \in T : f.into \in Posts => f.trans \notin P \cup {t}
    BY <1>1, <1>5 DEF FetchesOK
  <2>3. \A f \in T : f.into = "root" /\ f.trans \in P \cup {t} => r = 0
    BY <1>1, <1>5 DEF FetchesOK
  <2>4. \A f, g \in T : f.into = "root" /\ f.trans \in P \cup {t} /\ g.into = "root"
                           /\ g.trans \in P \cup {t} => f = g
    BY <1>1, <1>5 DEF FetchesOK, DirlistInFlight
  <2> QED BY <1>3, <2>1, <2>2, <2>3, <2>4 DEF FetchesOK
<1> QED BY <1>4, <1>5 DEF e

\* A request that is answered or given up.
LEMMA AnsweredOK ==
    ASSUME NEW S, NEW P, NEW r, FetchesOK(S, P, r), NEW f \in S, NEW q,
           q = r \/ (f.into = "root" /\ f.trans \in P)
    PROVE  FetchesOK(S \ {f}, P \ {f.trans}, q)
  BY DEF FetchesOK

\* What fetch_dirlist, fetch_catlist and fetch_thread do to the requests.
LEMMA FetchDirlistOK ==
    ASSUME NEW S, NEW r, FetchesOK(S, pending, r), NEW into \in {"root", "folder"},
           \A o \in S : \E f \in fetches : f.trans = o.trans,
           into = "root" => r = 0, FetchDirlist(S, into)
    PROVE  /\ FetchesOK(fetches', pending', r) /\ S \subseteq fetches' /\ pending \subseteq pending'
           /\ Threaded => DirlistInFlight(fetches', pending', into)
<1>1. CASE Threaded /\ ~DirlistInFlight(S, pending, into)
  <2> DEFINE e == [trans |-> NextTrans, into |-> into]
  <2>1. FreeTrans # {} /\ fetches' = S \cup {e} /\ pending' = pending \cup {NextTrans}
    BY <1>1 DEF FetchDirlist, Ask
  <2>2. NextTrans \in 1..MaxFetches /\ \A f \in fetches : f.trans # NextTrans
    BY <2>1, NextTransIsFree
  <2>3. \A f \in S : f.trans # NextTrans
    BY <2>2
  <2>4. into \notin Posts /\ into \in Containers \cup Posts \cup {"root"}
    BY NewsAssumption DEF Containers
  <2>5. FetchesOK(S \cup {e}, pending \cup {NextTrans}, r)
    BY <1>1, <2>2, <2>3, <2>4, AskedOK
  <2>6. DirlistInFlight(fetches', pending', into)
    <3>1. e.into = into /\ e.trans = NextTrans /\ e \in fetches' /\ NextTrans \in pending'
      BY <2>1
    <3> QED BY <3>1 DEF DirlistInFlight
  <2> QED BY <2>1, <2>5, <2>6
<1>2. CASE ~(Threaded /\ ~DirlistInFlight(S, pending, into))
  BY <1>2 DEF FetchDirlist
<1> QED BY <1>1, <1>2

\* What asking for the articles of a category leaves.
LEMMA FetchCatlistOK ==
    ASSUME NEW S, FetchesOK(S, pending, root),
           \A o \in S : \E f \in fetches : f.trans = o.trans, FetchCatlist(S)
    PROVE  /\ FetchesOK(fetches', pending', root) /\ S \subseteq fetches' /\ pending \subseteq pending'
<1> DEFINE e == [trans |-> NextTrans, into |-> "category"]
<1>1. FreeTrans # {} /\ fetches' = S \cup {e} /\ pending' = pending \cup {NextTrans}
  BY DEF FetchCatlist, Ask
<1>2. NextTrans \in 1..MaxFetches /\ \A f \in fetches : f.trans # NextTrans
  BY <1>1, NextTransIsFree
<1>3. \A f \in S : f.trans # NextTrans
  BY <1>2
<1>4. "category" \notin Posts /\ "category" \in Containers
  BY NewsAssumption DEF Containers
<1>5. FetchesOK(S \cup {e}, pending \cup {NextTrans}, root)
  BY <1>2, <1>3, <1>4, AskedOK
<1> QED BY <1>1, <1>5

\* What asking for an article leaves.
LEMMA AskPostOK ==
    ASSUME FetchesOK(fetches, pending, root), NEW p \in Posts, Ask(fetches, p)
    PROVE  /\ FetchesOK(fetches', pending, root) /\ fetches \subseteq fetches'
           /\ \E f \in fetches' : f.into = p
<1> DEFINE e == [trans |-> NextTrans, into |-> p]
<1>1. FreeTrans # {} /\ fetches' = fetches \cup {e}
  BY DEF Ask
<1>2. NextTrans \in 1..MaxFetches /\ \A f \in fetches : f.trans # NextTrans
  BY <1>1, NextTransIsFree
<1>3. FetchesOK(fetches \cup {e}, pending, root)
  BY <1>2, AskedOK
<1>4. e.into = p /\ e \in fetches'
  BY <1>1
<1> QED BY <1>1, <1>3, <1>4

\* At the start the window is closed and nothing is asked.
LEMMA NewsInit_Inv == NewsInit => NewsInv
<1> SUFFICES ASSUME NewsInit PROVE NewsInv
  OBVIOUS
<1>1. NewsTypeOK
  <2>1. NewNode \in [kids : 0..2, loaded : BOOLEAN] /\ NewPost \in [text : BOOLEAN, fetching : BOOLEAN]
    BY DEF NewNode, NewPost
  <2>2. 0 \in 0..MaxVisits /\ 0 \in 0..2
    BY NewsAssumption
  <2>3. Blank \in [of : Posts \cup {NoPost}, shows : {"nothing", "loading", "text"}]
    BY DEF Blank
  <2>4. server \in [at : {"down", "login", "ready"}, made : 0..MaxVisits]
    BY <2>2 DEF NewsInit
  <2> QED BY <2>1, <2>2, <2>3, <2>4 DEF NewsInit, NewsTypeOK
<1>2. FetchesOK(fetches, pending, root)
  BY DEF NewsInit, FetchesOK
<1>3. TreeListedOnce /\ EmptyTreeIsAsked /\ FetchingIsAsked
  BY DEF NewsInit, NewPost, TreeListedOnce, EmptyTreeIsAsked, FetchingIsAsked
<1>4. ArticleShown
  BY NewsAssumption DEF NewsInit, Blank, ArticleShown
<1> QED BY <1>1, <1>2, <1>3, <1>4 DEF NewsInv, NewsIsCurrent, NewsInit

\* The records of the tree and of the pane.
Nodes == [kids : 0..2, loaded : BOOLEAN]
Articles == [text : BOOLEAN, fetching : BOOLEAN]
Views == [of : Posts \cup {NoPost}, shows : {"nothing", "loading", "text"}]

\* The types, by variable.
LEMMA NewsTypes ==
    NewsTypeOK <=> /\ server \in [at : {"down", "login", "ready"}, made : 0..MaxVisits]
                   /\ window \in BOOLEAN /\ root \in 0..2 /\ refused \in BOOLEAN
                   /\ node \in [Containers -> Nodes] /\ post \in [Posts -> Articles]
                   /\ fetches \subseteq FetchSet /\ pending \subseteq 1..MaxFetches
                   /\ view \in Views
  BY DEF NewsTypeOK, Nodes, Articles, Views, FetchSet, Targets

\* The records a tree starts with.
LEMMA Records ==
    /\ NewNode \in Nodes /\ NewPost \in Articles /\ ~NewPost.text /\ ~NewPost.fetching
    /\ Blank \in Views /\ Blank.of = NoPost /\ \A p \in Posts : p # NoPost
  BY NewsAssumption DEF NewNode, NewPost, Blank, Nodes, Articles, Views

\* What a cleared tree is.
LEMMA ClearTreeOK ==
    ASSUME ClearTree
    PROVE  /\ root' = 0 /\ root' \in 0..2 /\ refused' = FALSE /\ refused' \in BOOLEAN
           /\ node' \in [Containers -> Nodes] /\ post' \in [Posts -> Articles]
           /\ \A p \in Posts : ~post'[p].text /\ ~post'[p].fetching
<1>1. root' = 0 /\ root' \in 0..2
  BY DEF ClearTree
<1>4. refused' = FALSE
  BY DEF ClearTree
<1>2. node' \in [Containers -> Nodes]
  BY Records DEF ClearTree
<1>3. post' \in [Posts -> Articles] /\ \A p \in Posts : post'[p] = NewPost
  BY Records DEF ClearTree
<1> QED BY <1>1, <1>2, <1>3, <1>4, Records

\* A claim on the root listing stays while requests are only added.
LEMMA InFlightStays ==
    ASSUME NEW S, NEW P, DirlistInFlight(S, P, "root"),
           NEW T, NEW Q, \A f \in S : f.into = "root" => f \in T, P \subseteq Q
    PROVE  DirlistInFlight(T, Q, "root")
  BY DEF DirlistInFlight

\* What is in the tree when the window and the connection are left alone.
LEMMA Assemble ==
    ASSUME NewsInv,
           server' \in [at : {"down", "login", "ready"}, made : 0..MaxVisits],
           window' \in BOOLEAN, root' \in 0..1, refused' \in BOOLEAN,
           node' \in [Containers -> Nodes], post' \in [Posts -> Articles], view' \in Views,
           FetchesOK(fetches', pending', root'),
           ~window' => root' = 0 /\ view' = Blank /\ pending' = {},
           EmptyTreeIsAsked', FetchingIsAsked', ArticleShown'
    PROVE  NewsInv'
<1>1. root' \in 0..2 /\ root' <= 1
  OBVIOUS
<1>2. fetches' \subseteq FetchSet /\ pending' \subseteq 1..MaxFetches
  BY DEF FetchesOK
<1>3. NewsTypeOK'
  BY <1>1, <1>2 DEF NewsTypeOK, Nodes, Articles, Views, FetchSet, Targets
<1>4. NewsIsCurrent'
  BY <1>1 DEF NewsIsCurrent, TreeListedOnce
<1> QED BY <1>3, <1>4 DEF NewsInv

\* The invariant, part by part.
LEMMA Parts ==
    ASSUME NewsInv
    PROVE  /\ server \in [at : {"down", "login", "ready"}, made : 0..MaxVisits]
           /\ window \in BOOLEAN /\ root \in 0..1 /\ refused \in BOOLEAN
           /\ node \in [Containers -> Nodes] /\ post \in [Posts -> Articles] /\ view \in Views
           /\ FetchesOK(fetches, pending, root) /\ EmptyTreeIsAsked
           /\ FetchingIsAsked /\ ArticleShown
           /\ ~window => root = 0 /\ view = Blank /\ pending = {}
  BY NewsTypes DEF NewsInv, NewsIsCurrent, TreeListedOnce

\* A cleared tree orphans what was asked for it.
LEMMA UprootedOK ==
    ASSUME NewsInv
    PROVE  /\ FetchesOK(Uproot(fetches), pending, 0)
           /\ \A o \in Uproot(fetches) : \E f \in fetches : f.trans = o.trans
<1>1. "root" \notin Containers \cup Posts
  BY NewsAssumption DEF Containers
<1>2. FetchesOK(fetches, pending, 0)
  BY Parts DEF FetchesOK
<1> QED BY <1>1, <1>2, OrphanedOK DEF Uproot

\* Reloading the whole tree.
LEMMA RefreshRootStep == ASSUME NewsInv, RefreshRoot PROVE NewsInv'
<1>1. /\ window /\ window' = window /\ server' = server /\ view' = Blank /\ ClearTree
      /\ FetchDirlist(Uproot(fetches), "root")
  BY DEF RefreshRoot
<1>2. /\ FetchesOK(fetches', pending', 0)
      /\ Threaded => DirlistInFlight(fetches', pending', "root")
  BY <1>1, UprootedOK, FetchDirlistOK
<1>3. EmptyTreeIsAsked'
  BY <1>1, <1>2 DEF EmptyTreeIsAsked, Threaded
<1>4. FetchingIsAsked' /\ ArticleShown'
  BY <1>1, ClearTreeOK DEF FetchingIsAsked, ArticleShown
<1> QED BY <1>1, <1>2, <1>3, <1>4, ClearTreeOK, Records, Parts, Assemble

\* What Sent makes of the nodes.
LEMMA SentOK ==
    ASSUME NEW before \in [Containers -> Nodes], NEW n \in Containers
    PROVE  Sent(n, before) \in [Containers -> Nodes]
<1> DEFINE b == \/ before[n].loaded \/ n = "category"
                \/ Threaded /\ ~DirlistInFlight(fetches, pending, n)
<1>1. Sent(n, before) = [before EXCEPT ![n] = [before[n] EXCEPT !.loaded = b]]
  BY DEF Sent
<1>2. b \in BOOLEAN /\ before[n] \in Nodes
  BY DEF Nodes
<1> HIDE DEF b
<1>3. [before[n] EXCEPT !.loaded = b] \in Nodes
  BY <1>2 DEF Nodes
<1> QED BY <1>1, <1>3

\* Opening a container asks for it once.
LEMMA ExpandStep == ASSUME NewsInv, NEW n \in Containers, Expand(n) PROVE NewsInv'
<1>1. /\ node' = Sent(n, node) /\ UNCHANGED <<server, window, root, refused, post, view>>
      /\ IF n = "folder" THEN FetchDirlist(fetches, n) ELSE FetchCatlist(fetches)
  BY DEF Expand, FetchInto
<1>2. /\ FetchesOK(fetches', pending', root) /\ fetches \subseteq fetches'
      /\ pending \subseteq pending'
  <2>1. CASE n = "folder"
    BY <1>1, <2>1, FetchDirlistOK, Parts
  <2>2. CASE n # "folder"
    BY <1>1, <2>2, FetchCatlistOK, Parts
  <2> QED BY <2>1, <2>2
<1>3. node' \in [Containers -> Nodes]
  BY <1>1, SentOK, Parts
<1>4. EmptyTreeIsAsked'
  BY <1>1, <1>2, InFlightStays, Parts DEF EmptyTreeIsAsked
<1>5. FetchingIsAsked'
  BY <1>1, <1>2, Parts DEF FetchingIsAsked
<1>6. ArticleShown'
  BY <1>1, Parts DEF ArticleShown
<1>7. window
  BY DEF Expand
<1> QED BY <1>1, <1>2, <1>3, <1>4, <1>5, <1>6, <1>7, Parts, Assemble

\* Reloading one container.
LEMMA RefreshNodeStep == ASSUME NewsInv, NEW n \in Containers, RefreshNode(n) PROVE NewsInv'
<1> DEFINE emptied == [node EXCEPT ![n] = NewNode]
<1>1. /\ window /\ UNCHANGED <<server, window, root, refused>> /\ node' = Sent(n, emptied)
  BY DEF RefreshNode
<1>2. emptied \in [Containers -> Nodes]
  BY Parts, Records
<1>3. node' \in [Containers -> Nodes]
  <2> HIDE DEF emptied
  <2> QED BY <1>1, <1>2, SentOK
<1>4. CASE n = "folder"
  <2>1. FetchDirlist(fetches, n) /\ UNCHANGED <<post, view>>
    BY <1>4 DEF RefreshNode
  <2>2. /\ FetchesOK(fetches', pending', root) /\ fetches \subseteq fetches'
        /\ pending \subseteq pending'
    BY <1>4, <2>1, FetchDirlistOK, Parts
  <2>3. EmptyTreeIsAsked'
    BY <1>1, <2>2, InFlightStays, Parts DEF EmptyTreeIsAsked
  <2>4. FetchingIsAsked' /\ ArticleShown'
    BY <2>1, <2>2, Parts DEF FetchingIsAsked, ArticleShown
  <2> QED BY <1>1, <1>3, <2>1, <2>2, <2>3, <2>4, Parts, Assemble
<1>5. CASE n # "folder"
  <2> DEFINE S == Orphaned(fetches, Posts)
  <2>1. FetchCatlist(S) /\ post' = [p \in Posts |-> NewPost] /\ view' = Blank
    BY <1>5 DEF RefreshNode
  <2>2. "root" \notin Posts
    BY NewsAssumption
  <2>3. /\ FetchesOK(S, pending, root)
        /\ \A o \in S : \E f \in fetches : f.trans = o.trans
        /\ \A f \in fetches : f.into \notin Posts => f \in S
    BY <2>2, OrphanedOK, Parts
  <2> HIDE DEF S
  <2>4. /\ FetchesOK(fetches', pending', root) /\ S \subseteq fetches'
        /\ pending \subseteq pending'
    BY <2>1, <2>3, FetchCatlistOK
  <2>5. \A f \in fetches : f.into = "root" => f \in fetches'
    BY <2>2, <2>3, <2>4
  <2>6. EmptyTreeIsAsked'
    BY <1>1, <2>4, <2>5, InFlightStays, Parts DEF EmptyTreeIsAsked
  <2>7. post' \in [Posts -> Articles] /\ \A p \in Posts : post'[p] = NewPost
    BY <2>1, Records
  <2>8. FetchingIsAsked' /\ ArticleShown'
    BY <2>7, Records DEF FetchingIsAsked, ArticleShown
  <2> QED BY <1>1, <1>3, <2>1, <2>4, <2>6, <2>7, <2>8, Parts, Records, Assemble
<1> QED BY <1>4, <1>5

\* Choosing an article.
LEMMA SelectStep == ASSUME NewsInv, NEW p \in Posts, Select(p) PROVE NewsInv'
<1>1. /\ window /\ UNCHANGED <<server, window, root, refused, node, pending>>
      /\ view' = [of |-> p, shows |-> IF post[p].text THEN "text" ELSE "loading"]
      /\ (post[p].text \/ post[p].fetching) => UNCHANGED <<fetches, post>>
      /\ ~(post[p].text \/ post[p].fetching) =>
            Ask(fetches, p) /\ post' = [post EXCEPT ![p].fetching = TRUE]
  BY DEF Select, FetchThread
<1>2. view' \in Views /\ view'.of = p /\ (post[p].text => view'.shows = "text")
  BY <1>1 DEF Views
<1>3. CASE post[p].text \/ post[p].fetching
  <2>1. UNCHANGED <<fetches, post>>
    BY <1>1, <1>3
  <2>2. EmptyTreeIsAsked' /\ FetchingIsAsked' /\ ArticleShown'
    BY <1>1, <1>2, <2>1, Parts DEF EmptyTreeIsAsked, FetchingIsAsked, ArticleShown
  <2> QED BY <1>1, <1>2, <2>1, <2>2, Parts, Assemble
<1>4. CASE ~(post[p].text \/ post[p].fetching)
  <2>1. Ask(fetches, p) /\ post' = [post EXCEPT ![p].fetching = TRUE]
    BY <1>1, <1>4
  <2>2. /\ FetchesOK(fetches', pending, root) /\ fetches \subseteq fetches'
        /\ \E f \in fetches' : f.into = p
    BY <2>1, AskPostOK, Parts
  <2>3. /\ post' \in [Posts -> Articles] /\ ~post'[p].text
        /\ \A o \in Posts \ {p} : post'[o] = post[o]
    <3>1. post \in [Posts -> Articles]
      BY Parts
    <3>2. post[p] \in Articles /\ post'[p] = [post[p] EXCEPT !.fetching = TRUE]
      BY <2>1, <3>1
    <3>3. post'[p] \in Articles /\ post'[p].text = post[p].text
      BY <3>2 DEF Articles
    <3> QED BY <1>4, <2>1, <3>1, <3>3
  <2>4. EmptyTreeIsAsked'
    BY <1>1, <2>2, InFlightStays, Parts DEF EmptyTreeIsAsked
  <2>5. FetchingIsAsked'
    BY <2>2, <2>3, Parts DEF FetchingIsAsked
  <2>6. ArticleShown'
    BY <1>2, <2>3 DEF ArticleShown
  <2> QED BY <1>1, <1>2, <2>2, <2>3, <2>4, <2>5, <2>6, Parts, Assemble
<1> QED BY <1>3, <1>4

\* Asking for an article again.
LEMMA RefreshPostStep == ASSUME NewsInv, NEW p \in Posts, RefreshPost(p) PROVE NewsInv'
<1>1. /\ window /\ UNCHANGED <<server, window, root, refused, node, pending>>
      /\ view' = [of |-> p, shows |-> "loading"] /\ Ask(fetches, p)
      /\ post' = [post EXCEPT ![p] = [text |-> FALSE, fetching |-> TRUE]]
  BY DEF RefreshPost
<1>2. view' \in Views /\ view'.of = p
  BY <1>1 DEF Views
<1>3. /\ FetchesOK(fetches', pending, root) /\ fetches \subseteq fetches'
      /\ \E f \in fetches' : f.into = p
  BY <1>1, AskPostOK, Parts
<1>4. /\ post' \in [Posts -> Articles] /\ ~post'[p].text
      /\ \A o \in Posts \ {p} : post'[o] = post[o]
  <2>1. [text |-> FALSE, fetching |-> TRUE] \in Articles /\ post \in [Posts -> Articles]
    BY Parts DEF Articles
  <2> QED BY <1>1, <2>1
<1>5. EmptyTreeIsAsked'
  BY <1>1, <1>3, InFlightStays, Parts DEF EmptyTreeIsAsked
<1>6. FetchingIsAsked'
  BY <1>3, <1>4, Parts DEF FetchingIsAsked
<1>7. ArticleShown'
  BY <1>2, <1>4 DEF ArticleShown
<1> QED BY <1>1, <1>2, <1>3, <1>4, <1>5, <1>6, <1>7, Parts, Assemble

\* What an answer does to the requests, the claims and the tree.
LEMMA ListingStep ==
    ASSUME NewsInv, NEW f \in fetches, NEW got \in BOOLEAN, f.into \notin Posts,
           HandleListing(f, got), fetches' = fetches \ {f}, UNCHANGED <<server, window>>
    PROVE  NewsInv'
<1> DEFINE mine == f.trans \in pending /\ window
           more(k) == IF mine /\ got THEN Least(k + 1, 2) ELSE k
<1>1. /\ pending' = pending \ {f.trans} /\ UNCHANGED <<post, view>>
      /\ root' = (IF f.into = "root" THEN more(root) ELSE root)
      /\ refused' = (IF f.into = "root" /\ mine THEN ~got ELSE refused)
      /\ node' = (IF f.into \in Containers THEN [node EXCEPT ![f.into].kids = more(@)] ELSE node)
  BY DEF HandleListing
<1>2. \A k \in 0..2 : more(k) \in 0..2
  BY DEF Least
<1>3. node' \in [Containers -> Nodes]
  <2>1. node \in [Containers -> Nodes]
    BY Parts
  <2>2. CASE f.into \in Containers
    <3>1. node[f.into] \in Nodes /\ node[f.into].kids \in 0..2
      BY <2>1, <2>2 DEF Nodes
    <3>2. node' = [node EXCEPT ![f.into] = [node[f.into] EXCEPT !.kids = more(node[f.into].kids)]]
      BY <1>1, <2>2
    <3> HIDE DEF more
    <3>3. [node[f.into] EXCEPT !.kids = more(node[f.into].kids)] \in Nodes
      BY <1>2, <3>1 DEF Nodes
    <3> QED BY <2>1, <3>2, <3>3
  <2>3. CASE f.into \notin Containers
    BY <1>1, <2>1, <2>3
  <2> QED BY <2>2, <2>3
<1>4. refused' \in BOOLEAN
  BY <1>1, Parts
<1>5. f.into = "root" /\ f.trans \in pending => root = 0
  BY Parts DEF FetchesOK
<1>6. /\ root' \in 0..1
      /\ root' # root => f.into = "root" /\ f.trans \in pending /\ window
      /\ f.into = "root" /\ mine => root' = 1 \/ refused'
  <2>1. root \in 0..1
    BY Parts
  <2>2. CASE f.into = "root" /\ mine /\ got
    BY <1>1, <1>5, <2>2 DEF Least
  <2>3. CASE ~(f.into = "root" /\ mine /\ got)
    BY <1>1, <2>1, <2>3
  <2> QED BY <2>2, <2>3
<1>7. FetchesOK(fetches', pending', root')
  <2>1. root' = root \/ (f.into = "root" /\ f.trans \in pending)
    BY <1>6
  <2> QED BY <1>1, <2>1, AnsweredOK, Parts
<1>8. ~window' => root' = 0 /\ view' = Blank /\ pending' = {}
  BY <1>1, <1>6, Parts
<1>9. EmptyTreeIsAsked'
  <2> SUFFICES ASSUME window, server.at = "ready", root' = 0, ~refused'
               PROVE  DirlistInFlight(fetches', pending', "root")
    BY DEF EmptyTreeIsAsked
  <2>1. ~(f.into = "root" /\ f.trans \in pending)
    BY <1>6
  <2>2. root = 0 /\ ~refused
    BY <1>1, <1>6, <2>1
  <2>3. PICK g \in fetches : g.into = "root" /\ g.trans \in pending
    BY <2>2, Parts DEF EmptyTreeIsAsked, DirlistInFlight
  <2>4. g # f /\ g.trans # f.trans
    BY <2>1, <2>3, Parts DEF FetchesOK
  <2> QED BY <1>1, <2>3, <2>4 DEF DirlistInFlight
<1>10. FetchingIsAsked'
  BY <1>1, Parts DEF FetchingIsAsked
<1>11. ArticleShown'
  BY <1>1, Parts DEF ArticleShown
<1> HIDE DEF mine, more
<1> QED BY <1>1, <1>3, <1>4, <1>6, <1>7, <1>8, <1>9, <1>10, <1>11, Parts, Assemble

\* An article arrives.
LEMMA ThreadStep ==
    ASSUME NewsInv, NEW f \in fetches, f.into \in Posts, fetches' = fetches \ {f},
           UNCHANGED <<server, window, pending, root, refused, node>>,
           HandleThread(f) \/ (post' = [post EXCEPT ![f.into].fetching = FALSE] /\ view' = view)
    PROVE  NewsInv'
<1> DEFINE p == f.into
<1>1. post \in [Posts -> Articles] /\ post[p] \in Articles /\ p \in Posts /\ view \in Views
  BY Parts
<1> HIDE DEF p
<1>2. /\ post' \in [Posts -> Articles] /\ \A o \in Posts \ {p} : post'[o] = post[o]
      /\ ~post'[p].fetching /\ view' \in Views /\ ArticleShown' /\ (~window => view' = view)
  <2>1. CASE HandleThread(f)
    <3>1. [text |-> TRUE, fetching |-> FALSE] \in Articles
      BY DEF Articles
    <3>2. /\ post' = [post EXCEPT ![p] = [text |-> TRUE, fetching |-> FALSE]]
          /\ view' = IF window /\ view.of = p THEN [view EXCEPT !.shows = "text"] ELSE view
      BY <2>1 DEF HandleThread, p
    <3>3. /\ post' \in [Posts -> Articles] /\ \A o \in Posts \ {p} : post'[o] = post[o]
          /\ ~post'[p].fetching
      BY <1>1, <3>1, <3>2
    <3>4. view' \in Views /\ view'.of = view.of /\ (~window => view' = view)
          /\ (window /\ view.of = p => view'.shows = "text")
          /\ (view.of # p => view' = view)
      BY <1>1, <3>2 DEF Views
    <3>5. ~window => view.of = NoPost
      BY Parts, Records
    <3>6. ArticleShown'
      BY <1>1, <3>3, <3>4, <3>5, Parts, Records DEF ArticleShown
    <3> QED BY <3>3, <3>4, <3>6
  <2>2. CASE post' = [post EXCEPT ![f.into].fetching = FALSE] /\ view' = view
    <3>1. post' = [post EXCEPT ![p] = [post[p] EXCEPT !.fetching = FALSE]]
      BY <2>2 DEF p
    <3> DEFINE e == [post[p] EXCEPT !.fetching = FALSE]
    <3>2. e \in Articles /\ e.fetching = FALSE /\ e.text = post[p].text
      BY <1>1 DEF Articles
    <3> HIDE DEF e
    <3>3. post' \in [Posts -> Articles] /\ post'[p] = e /\ \A o \in Posts \ {p} : post'[o] = post[o]
      BY <1>1, <3>1, <3>2 DEF e
    <3>4. ArticleShown'
      BY <1>1, <2>2, <3>2, <3>3, Parts DEF ArticleShown
    <3> QED BY <1>1, <2>2, <3>2, <3>3, <3>4
  <2> QED BY <2>1, <2>2
<1>3. FetchesOK(fetches', pending', root')
  <2>1. f.trans \notin pending
    BY Parts DEF FetchesOK
  <2>2. pending \ {f.trans} = pending
    BY <2>1
  <2> QED BY <2>2, AnsweredOK, Parts
<1>4. EmptyTreeIsAsked'
  <2>1. \A g \in fetches : g.into = "root" => g \in fetches'
    BY NewsAssumption
  <2> QED BY <2>1, InFlightStays, Parts DEF EmptyTreeIsAsked
<1>5. FetchingIsAsked'
  BY <1>2, Parts DEF FetchingIsAsked, p
<1> QED BY <1>2, <1>3, <1>4, <1>5, Parts, Assemble

\* Every step keeps the invariant.
LEMMA NewsStep == NewsInv /\ [NewsNext]_newsVars => NewsInv'
<1> SUFFICES ASSUME NewsInv, [NewsNext]_newsVars PROVE NewsInv'
  OBVIOUS
<1>1. ASSUME NEW n \in Containers, RefreshNode(n) PROVE NewsInv'
  BY <1>1, RefreshNodeStep
<1>2. ASSUME NEW n \in Containers, Expand(n) PROVE NewsInv'
  BY <1>2, ExpandStep
<1>3. ASSUME NEW p \in Posts, Select(p) PROVE NewsInv'
  BY <1>3, SelectStep
<1>4. ASSUME NEW p \in Posts, RefreshPost(p) PROVE NewsInv'
  BY <1>4, RefreshPostStep
<1>5. ASSUME NEW f \in fetches, NEW granted \in BOOLEAN, NewsAnswer(f, granted) PROVE NewsInv'
  <2>1. fetches' = fetches \ {f} /\ UNCHANGED <<server, window>>
    BY <1>5 DEF NewsAnswer
  <2>2. CASE f.into \in Posts
    BY <1>5, <2>1, <2>2, ThreadStep DEF NewsAnswer, Unanswered, HandleThread
  <2>3. CASE f.into \notin Posts
    <3>1. HandleListing(f, TRUE) \/ HandleListing(f, FALSE)
      BY <1>5, <2>3 DEF NewsAnswer, Unanswered
    <3> QED BY <2>1, <2>3, <3>1, ListingStep
  <2> QED BY <2>2, <2>3
<1>6. CASE RefreshRoot
  BY <1>6, RefreshRootStep
<1>7. CASE Unselect
  <2>1. view' = Blank /\ UNCHANGED <<server, window, root, refused, node, post, fetches, pending>>
    BY <1>7 DEF Unselect
  <2>2. EmptyTreeIsAsked' /\ FetchingIsAsked'
    BY <2>1, Parts DEF EmptyTreeIsAsked, FetchingIsAsked
  <2>3. ArticleShown'
    BY <2>1, Records DEF ArticleShown
  <2> QED BY <2>1, <2>2, <2>3, Parts, Records, Assemble
<1>8. CASE OpenNews
  <2>1. window' = TRUE /\ server' = server
    BY <1>8 DEF OpenNews
  <2>2. CASE server.at = "ready" /\ window
    <3>1. ClearTree /\ FetchDirlist(Uproot(fetches), "root") /\ view' = Blank
      BY <1>8, <2>2 DEF OpenNews
    <3>2. RefreshRoot
      BY <2>1, <2>2, <3>1, Parts DEF RefreshRoot
    <3> QED BY <3>2, RefreshRootStep
  <2>3. CASE server.at = "ready" /\ ~window
    <3>1. UNCHANGED <<root, refused, node, post>> /\ FetchDirlist(fetches, "root") /\ view' = Blank
      BY <1>8, <2>3 DEF OpenNews
    <3>2. root = 0 /\ FetchesOK(fetches, pending, root)
      BY <2>3, Parts
    <3>3. /\ FetchesOK(fetches', pending', root) /\ fetches \subseteq fetches'
          /\ Threaded => DirlistInFlight(fetches', pending', "root")
      BY <3>1, <3>2, FetchDirlistOK
    <3>4. EmptyTreeIsAsked'
      BY <2>1, <3>3 DEF EmptyTreeIsAsked, Threaded
    <3>5. FetchingIsAsked'
      BY <3>1, <3>3, Parts DEF FetchingIsAsked
    <3>6. ArticleShown'
      BY <3>1, Records DEF ArticleShown
    <3> QED BY <2>1, <3>1, <3>3, <3>4, <3>5, <3>6, Parts, Records, Assemble
  <2>4. CASE server.at # "ready"
    <3>1. UNCHANGED <<root, refused, node, post, fetches, pending>> /\ view' \in {view, Blank}
      BY <1>8, <2>4 DEF OpenNews
    <3>2. EmptyTreeIsAsked' /\ FetchingIsAsked'
      BY <2>1, <2>4, <3>1, Parts DEF EmptyTreeIsAsked, FetchingIsAsked
    <3>3. ArticleShown'
      BY <3>1, Parts, Records DEF ArticleShown
    <3>4. view' \in Views
      BY <3>1, Parts, Records
    <3> QED BY <2>1, <3>1, <3>2, <3>3, <3>4, Parts, Assemble
  <2> QED BY <2>2, <2>3, <2>4
<1>9. CASE CloseNews
  <2>1. /\ window' = FALSE /\ ClearTree /\ view' = Blank /\ fetches' = Uproot(fetches)
        /\ pending' = {} /\ server' = server
    BY <1>9 DEF CloseNews
  <2>2. FetchesOK(fetches', pending', 0)
    BY <2>1, UprootedOK DEF FetchesOK
  <2>3. EmptyTreeIsAsked' /\ FetchingIsAsked' /\ ArticleShown'
    BY <2>1, ClearTreeOK DEF EmptyTreeIsAsked, FetchingIsAsked, ArticleShown
  <2>4. root' = 0 /\ root' \in 0..1
    BY <2>1, ClearTreeOK
  <2>5. FetchesOK(fetches', pending', root')
    BY <2>2, <2>4
  <2>6. window' \in BOOLEAN
    BY <2>1, Zenon
  <2> QED BY <2>1, <2>3, <2>4, <2>5, <2>6, ClearTreeOK, Parts, Records, Assemble
<1>10. CASE ConnectNews
  <2>1. UNCHANGED <<window, root, refused, node, post, fetches, pending, view>> /\ server'.at = "login"
        /\ server' \in [at : {"down", "login", "ready"}, made : 0..MaxVisits]
    <3>1. server.made \in 0..MaxVisits /\ server.made < MaxVisits
      BY <1>10, Parts DEF ConnectNews
    <3>2. server.made + 1 \in 0..MaxVisits
      BY <3>1, NewsAssumption
    <3> QED BY <1>10, <3>2 DEF ConnectNews
  <2>2. EmptyTreeIsAsked' /\ FetchingIsAsked' /\ ArticleShown'
    BY <2>1, Parts DEF EmptyTreeIsAsked, FetchingIsAsked, ArticleShown
  <2> QED BY <2>1, <2>2, Parts, Assemble
<1>11. CASE NewsReady
  <2>1. /\ UNCHANGED <<window, root, refused, node, post, view>>
        /\ server' = [server EXCEPT !.at = "ready"] /\ server.at = "login"
        /\ IF window /\ root = 0 THEN FetchDirlist(fetches, "root") ELSE UNCHANGED <<fetches, pending>>
    BY <1>11 DEF NewsReady
  <2>2. server' \in [at : {"down", "login", "ready"}, made : 0..MaxVisits] /\ Threaded
    BY <2>1, Parts DEF Threaded
  <2>3. CASE window /\ root = 0
    <3>1. /\ FetchesOK(fetches', pending', root) /\ fetches \subseteq fetches'
          /\ DirlistInFlight(fetches', pending', "root")
      BY <2>1, <2>2, <2>3, FetchDirlistOK, Parts
    <3>2. EmptyTreeIsAsked' /\ FetchingIsAsked' /\ ArticleShown'
      BY <2>1, <3>1, Parts DEF EmptyTreeIsAsked, FetchingIsAsked, ArticleShown
    <3> QED BY <2>1, <2>2, <2>3, <3>1, <3>2, Parts, Assemble
  <2>4. CASE ~(window /\ root = 0)
    <3>1. EmptyTreeIsAsked' /\ FetchingIsAsked' /\ ArticleShown'
      BY <2>1, <2>4, Parts DEF EmptyTreeIsAsked, FetchingIsAsked, ArticleShown
    <3> QED BY <2>1, <2>2, <2>4, <3>1, Parts, Assemble
  <2> QED BY <2>3, <2>4
<1>12. CASE DisconnectNews
  <2>1. /\ ClearTree /\ view' = Blank /\ fetches' = {} /\ pending' = {} /\ window' = window
        /\ server' = [server EXCEPT !.at = "down"]
    BY <1>12 DEF DisconnectNews
  <2>2. server' \in [at : {"down", "login", "ready"}, made : 0..MaxVisits] /\ server'.at = "down"
    BY <2>1, Parts
  <2>3. FetchesOK(fetches', pending', root')
    BY <2>1 DEF FetchesOK
  <2>4. EmptyTreeIsAsked' /\ FetchingIsAsked' /\ ArticleShown'
    BY <2>1, <2>2, ClearTreeOK DEF EmptyTreeIsAsked, FetchingIsAsked, ArticleShown
  <2> QED BY <2>1, <2>2, <2>3, <2>4, ClearTreeOK, Parts, Records, Assemble
<1>13. CASE UNCHANGED newsVars
  <2>1. EmptyTreeIsAsked' /\ FetchingIsAsked' /\ ArticleShown'
    BY <1>13, Parts DEF newsVars, EmptyTreeIsAsked, FetchingIsAsked, ArticleShown
  <2> QED BY <1>13, <2>1, Parts, Assemble DEF newsVars
<1> QED BY <1>1, <1>2, <1>3, <1>4, <1>5, <1>6, <1>7, <1>8, <1>9, <1>10, <1>11, <1>12, <1>13
        DEF NewsNext

\* For any tree and any number of requests: the root's listing is in the tree once, an empty
\* tree of a server that is ready and did not refuse has that listing asked for, an article
\* marked as being fetched has a request in flight, and the pane of a chosen article shows
\* its text as soon as there is one, whatever is reloaded, answered late or left behind by
\* a lost connection (news_browser.rs).
THEOREM NewsIsAlwaysCurrent == NewsSpec => [](NewsTypeOK /\ NewsIsCurrent)
<1>1. NewsInv => NewsTypeOK /\ NewsIsCurrent
  BY DEF NewsInv
<1> QED BY <1>1, NewsInit_Inv, NewsStep, PTL DEF NewsSpec

-----------------------------------------------------------------------------
(* The pinned certificates.                                                   *)

\* Contents fit to be the file: one pin each, and each of them approved.
Good(S, approvals) ==
    /\ Unambiguous(WellRead(S))
    /\ \A e \in S : Stands(e.host, e.print, approvals)

\* A check is committed to its certificate from the answer, or the host's own
\* pin, on; what it built is fit to be published, and synced when it is written.
Sound(k, approvals) ==
    /\ k.stage \in {"pinning", "built", "written", "accepted"} =>
           Stands(k.shown.host, k.shown.print, approvals)
    /\ k.stage \in {"built", "written"} => Good(k.out, approvals)
    /\ k.stage = "written" => k.synced

HostsInv ==
    /\ HostsTypeOK
    /\ known \in survivors
    /\ \A f \in survivors : ~f.torn /\ Good(f.entries, approved)
    /\ \A c \in Checks : Sound(checks[c], approved)

---------------------------------------------------------------------------
(* What an address reads back as is reached with the address.                 *)
LEMMA ReachedOn ==
    ASSUME NEW A, NEW l \in Literals, NEW p \in TlsPorts,
           l \in A \/ l \in Reached(A),
           ReadAs[<<l, p>>] \in Literals
    PROVE  ReadAs[<<l, p>>] \in Reached(A)
  BY DEF Reached

(* More trusted addresses reach more.                                         *)
LEMMA ReachedGrows ==
    ASSUME NEW A, NEW B, A \subseteq B
    PROVE  Reached(A) \subseteq Reached(B)
  BY DEF Reached

(* A certificate stands for every host the user trusted it for.               *)
LEMMA TrustedStands ==
    ASSUME NEW host \in PinHosts, NEW print, NEW approvals, <<host, print>> \in approvals
    PROVE  Stands(host, print, approvals)
  BY DEF Stands

(* Trusting one more certificate takes nothing away.                          *)
LEMMA StandsGrows ==
    ASSUME NEW host, NEW print, NEW P, NEW Q, P \subseteq Q, Stands(host, print, P)
    PROVE  Stands(host, print, Q)
<1> DEFINE A == {h \in PinHosts : <<h, print>> \in P}
           B == {h \in PinHosts : <<h, print>> \in Q}
<1>1. A \subseteq B
  OBVIOUS
<1>2. host \in A \cup {ReadAs[<<l, p>>] : l \in Reached(A), p \in TlsPorts}
  BY DEF Stands
<1> HIDE DEF A, B
<1>3. host \in B \cup {ReadAs[<<l, p>>] : l \in Reached(B), p \in TlsPorts}
  BY <1>1, <1>2, ReachedGrows
<1> QED BY <1>3 DEF Stands, B

(* What stands for an address stands for what the pin of it reads as.         *)
LEMMA ReadBackStands ==
    ASSUME NEW s \in Shown, NEW approvals, Stands(s.host, s.print, approvals)
    PROVE  /\ ReadBack(s) \in PinEntry
           /\ Stands(ReadBack(s).host, ReadBack(s).print, approvals)
           /\ s.host \in Literals => ReadBack(s).host \in MisreadNames
           /\ s.host \notin Literals => ReadBack(s) = s
<1>1. CASE s.host \notin Literals
  BY <1>1 DEF ReadBack, Shown, PinEntry, PinHosts
<1>2. CASE s.host \in Literals
  <2> DEFINE l == s.host
             A == {h \in PinHosts : <<h, s.print>> \in approvals}
  <2>1. s.port \in TlsPorts /\ s.print \in Prints
    BY DEF Shown
  <2>2. ReadBack(s) = [host |-> ReadAs[<<l, s.port>>], port |-> AnyPort, print |-> s.print]
    BY <1>2 DEF ReadBack
  <2>3. ReadAs[<<l, s.port>>] \in MisreadNames
    BY <1>2, <2>1 DEF MisreadNames
  <2>4. l \in Reached(A)
    <3>1. l \in A \/ \E k \in Reached(A), p \in TlsPorts : l = ReadAs[<<k, p>>]
      BY DEF Stands
    <3>2. Reached(A) \subseteq Literals
      BY DEF Reached
    <3> HIDE DEF A, l
    <3>3. CASE l \in A
      BY <1>2, <3>3 DEF Reached, l
    <3>4. ASSUME NEW k \in Reached(A), NEW p \in TlsPorts, l = ReadAs[<<k, p>>]
          PROVE  l \in Reached(A)
      BY <1>2, <3>2, <3>4, ReachedOn DEF l
    <3> QED BY <3>1, <3>3, <3>4
  <2>5. Stands(ReadAs[<<l, s.port>>], s.print, approvals)
    <3> HIDE DEF A
    <3>1. ReadAs[<<l, s.port>>] \in {ReadAs[<<k, p>>] : k \in Reached(A), p \in TlsPorts}
      BY <2>1, <2>4
    <3> QED BY <3>1 DEF Stands, A
  <2>6. ReadBack(s) \in PinEntry
    BY <2>1, <2>2, <2>3 DEF PinEntry, PinHosts
  <2> QED BY <1>2, <2>2, <2>3, <2>5, <2>6
<1> QED BY <1>1, <1>2

(* A pin keeps contents fit: it drops every entry that speaks of its host and *)
(* port, the one without a port included, before it adds its own.             *)
LEMMA PinnedIsGood ==
    ASSUME NEW S \in SUBSET PinEntry, NEW s \in Shown, NEW approvals,
           Good(S, approvals), Stands(s.host, s.print, approvals)
    PROVE  Pinned(S, s) \in SUBSET PinEntry /\ Good(Pinned(S, s), approvals)
<1> DEFINE new == ReadBack(s)
<1>1. /\ new \in PinEntry /\ Stands(new.host, new.print, approvals)
      /\ s.host \in Literals => new.host \in MisreadNames
      /\ s.host \notin Literals => new = s
      /\ s.port # AnyPort
  BY ReadBackStands, PortsAssumption DEF Shown
<1> DEFINE kept == {e \in S : ~Matches(e, s.host, s.port)}
<1>2. Pinned(S, s) = kept \cup {new}
  BY DEF Pinned
<1>3. \A e \in kept : e \in S /\ ~Matches(e, s.host, s.port)
  OBVIOUS
<1> HIDE DEF new, kept
<1>4. Pinned(S, s) \in SUBSET PinEntry
  BY <1>1, <1>2, <1>3
<1>5. \A e \in Pinned(S, s) : Stands(e.host, e.print, approvals)
  BY <1>1, <1>2, <1>3 DEF Good
<1>6. ASSUME NEW e \in WellRead(Pinned(S, s)), NEW f \in WellRead(Pinned(S, s)),
             e.host = f.host, e.port = f.port \/ AnyPort \in {e.port, f.port}
      PROVE  e = f
  <2>1. /\ e \in kept \cup {new} /\ f \in kept \cup {new}
        /\ e.host \notin MisreadNames /\ f.host \notin MisreadNames
    BY <1>2 DEF WellRead
  <2>2. CASE e \in kept /\ f \in kept
    <3>1. e \in WellRead(S) /\ f \in WellRead(S)
      BY <1>3, <2>1, <2>2 DEF WellRead
    <3> QED BY <1>6, <3>1 DEF Good, Unambiguous
  <2>3. CASE e = new /\ f = new
    BY <2>3
  <2>4. CASE e = new /\ f \in kept
    BY <1>1, <1>3, <1>6, <2>1, <2>4 DEF Matches
  <2>5. CASE e \in kept /\ f = new
    BY <1>1, <1>3, <1>6, <2>1, <2>5 DEF Matches
  <2> QED BY <2>1, <2>2, <2>3, <2>4, <2>5
<1>7. Unambiguous(WellRead(Pinned(S, s)))
  BY <1>6 DEF Unambiguous
<1> QED BY <1>4, <1>5, <1>7 DEF Good

\* An empty file is fit.
LEMMA EmptyIsGood ==
    ASSUME NEW approvals
    PROVE  Good({}, approvals)
  BY DEF Good, Unambiguous, WellRead

(* Trusting one more certificate takes nothing away.                          *)
LEMMA GoodGrows ==
    ASSUME NEW S, NEW A, NEW B, A \subseteq B, Good(S, A)
    PROVE  Good(S, B)
  BY StandsGrows DEF Good

---------------------------------------------------------------------------
(* The first files are the user's own.                                        *)
LEMMA InitHolds == HostsInit => HostsInv
<1> SUFFICES ASSUME HostsInit PROVE HostsInv
  OBVIOUS
<1>1. PICK S \in FirstFiles : known = Whole(S)
  BY DEF HostsInit
<1>2. S \in SUBSET PinEntry /\ Unambiguous(WellRead(S)) /\ known.entries = S /\ ~known.torn
  BY <1>1, FirstFilesAssumption DEF Whole
<1>3. known \in File
  BY <1>1, <1>2 DEF Whole, File
<1>4. approved = {<<e.host, e.print>> : e \in S}
  BY <1>2 DEF HostsInit
<1>5. approved \subseteq PinHosts \X Prints
  BY <1>2, <1>4 DEF PinEntry
<1>6. Good(known.entries, approved)
  <2>1. \A e \in S : e.host \in PinHosts /\ <<e.host, e.print>> \in approved
    BY <1>2, <1>4 DEF PinEntry
  <2> QED BY <1>2, <2>1, TrustedStands DEF Good
<1>7. checks \in [Checks -> Check]
  BY DEF HostsInit, Check
<1>8. \A c \in Checks : Sound(checks[c], approved)
  BY DEF HostsInit, NoCheck, Sound
<1> QED BY <1>2, <1>3, <1>5, <1>6, <1>7, <1>8 DEF HostsInv, HostsTypeOK, HostsInit

---------------------------------------------------------------------------
(* What a read gives is fit to be built on.                                   *)
LEMMA ReadingIsGood ==
    ASSUME HostsInv, NEW S \in Readings
    PROVE  S \in SUBSET PinEntry /\ Good(S, approved)
<1>1. known.entries \in SUBSET PinEntry /\ Good(known.entries, approved)
  BY DEF HostsInv, HostsTypeOK, File
<1> QED BY <1>1, EmptyIsGood DEF Readings

(* A check that is about a certificate has one to show.                       *)
LEMMA ShownIsShown ==
    ASSUME HostsInv, NEW c \in Checks, checks[c].stage # "off"
    PROVE  checks[c].shown \in Shown
<1>1. checks[c] \in Check
  BY DEF HostsInv, HostsTypeOK
<1> QED BY <1>1 DEF Check, NoCheck, Stages

(* A check that has built a file holds entries.                               *)
LEMMA BuiltIsEntries ==
    ASSUME HostsInv, NEW c \in Checks, checks[c].stage \in {"built", "written"}
    PROVE  /\ checks[c].out \in SUBSET PinEntry
           /\ checks[c] \in [stage : {"built", "written"}, shown : Shown,
                             out : SUBSET PinEntry, synced : BOOLEAN]
<1>1. checks[c] \in Check
  BY DEF HostsInv, HostsTypeOK
<1> QED BY <1>1 DEF Check, NoCheck, Stages

(* A step that changes one check, and neither the file nor the approvals,     *)
(* keeps the invariant when the check it leaves is sound.                     *)
LEMMA OneCheckMoves ==
    ASSUME HostsInv, NEW c \in Checks, NEW k \in Check,
           checks' = [checks EXCEPT ![c] = k], Sound(k, approved),
           UNCHANGED <<known, survivors, approved>>
    PROVE  HostsInv'
<1>1. checks' \in [Checks -> Check]
  BY DEF HostsInv, HostsTypeOK
<1>2. \A d \in Checks : Sound(checks'[d], approved)
  BY DEF HostsInv, HostsTypeOK
<1> QED BY <1>1, <1>2 DEF HostsInv, HostsTypeOK

---------------------------------------------------------------------------
(* One lemma per kind of step.                                                *)

\* A record that has no file of its own is a check.
LEMMA PlainIsCheck ==
    ASSUME NEW stage \in {"unknown", "asking", "pinning", "accepted", "refused"},
           NEW s \in Shown
    PROVE  [stage |-> stage, shown |-> s] \in Check
  BY DEF Check, Stages

\* A handshake that finds its pin, a mismatch or nothing known.
LEMMA VerifyHolds ==
    ASSUME HostsInv, NEW c \in Checks, NEW s \in Presented, Verify(c, s)
    PROVE  HostsInv'
<1>1. s \in Shown
  BY PresentedAssumption
<1>2. PICK S \in Readings :
          checks' = [checks EXCEPT ![c] = [stage |-> AfterLookup[Lookup(S, s)], shown |-> s]]
  BY DEF Verify
<1> DEFINE verdict == Lookup(S, s)
           k == [stage |-> AfterLookup[verdict], shown |-> s]
<1>3. verdict \in {"Trusted", "Unknown", "Mismatch"}
  BY DEF Lookup
<1>4. verdict = "Trusted" => \E e \in S : e.host = s.host /\ e.print = s.print
  BY DEF Lookup, Matches
<1>5. S \in SUBSET PinEntry /\ Good(S, approved)
  BY ReadingIsGood
<1>6. verdict = "Trusted" => Stands(s.host, s.print, approved)
  <2> SUFFICES ASSUME verdict = "Trusted" PROVE Stands(s.host, s.print, approved)
    OBVIOUS
  <2>1. PICK e \in S : e.host = s.host /\ e.print = s.print
    BY <1>4
  <2>2. Stands(e.host, e.print, approved)
    BY <1>5 DEF Good
  <2> QED BY <2>1, <2>2
<1> HIDE DEF verdict
<1>7. AfterLookup[verdict] \in {"unknown", "asking", "accepted"}
      /\ (AfterLookup[verdict] = "accepted" => verdict = "Trusted")
  BY <1>3 DEF AfterLookup
<1>8. k \in Check
  BY <1>1, <1>7, PlainIsCheck
<1>9. Sound(k, approved)
  BY <1>6, <1>7 DEF Sound
<1> QED
  <2>1. checks' = [checks EXCEPT ![c] = k]
    BY <1>2 DEF verdict
  <2>2. UNCHANGED <<known, survivors, approved>>
    BY DEF Verify
  <2> HIDE DEF k
  <2> QED BY <1>8, <1>9, <2>1, <2>2, OneCheckMoves

\* A certificate of the host itself needs no question; another does.
LEMMA ConsultHolds ==
    ASSUME HostsInv, NEW c \in Checks, ConsultHost(c)
    PROVE  HostsInv'
<1> DEFINE s == checks[c].shown
<1>1. s \in Shown
  BY ShownIsShown DEF ConsultHost
<1>2. PICK S \in Readings :
          MoveTo(c, IF HostHasFingerprint(S, s) THEN "pinning" ELSE "asking")
  BY DEF ConsultHost
<1> DEFINE stage == IF HostHasFingerprint(S, s) THEN "pinning" ELSE "asking"
           k == [stage |-> stage, shown |-> s]
<1>3. Good(S, approved)
  BY ReadingIsGood
<1>4. stage = "pinning" => Stands(s.host, s.print, approved)
  <2> SUFFICES ASSUME HostHasFingerprint(S, s) PROVE Stands(s.host, s.print, approved)
    OBVIOUS
  <2>1. PICK e \in S : e.host = s.host /\ e.print = s.print
    BY DEF HostHasFingerprint
  <2>2. Stands(e.host, e.print, approved)
    BY <1>3 DEF Good
  <2> QED BY <2>1, <2>2
<1>5. stage \in {"pinning", "asking"}
  OBVIOUS
<1>6. checks' = [checks EXCEPT ![c] = k]
  BY <1>2 DEF MoveTo
<1> HIDE DEF stage, s
<1>7. k \in Check /\ Sound(k, approved)
  BY <1>1, <1>4, <1>5, PlainIsCheck DEF Sound
<1>8. UNCHANGED <<known, survivors, approved>>
  BY DEF ConsultHost
<1> HIDE DEF k
<1> QED BY <1>6, <1>7, <1>8, OneCheckMoves

\* The user answers; a yes is an approval.
LEMMA TrustHolds ==
    ASSUME HostsInv, NEW c \in Checks, Trust(c)
    PROVE  HostsInv'
<1> DEFINE s == checks[c].shown
           k == [stage |-> "pinning", shown |-> s]
<1>1. s \in Shown
  BY ShownIsShown DEF Trust
<1>2. checks' = [checks EXCEPT ![c] = k] /\ UNCHANGED <<known, survivors>>
  BY DEF Trust, MoveTo
<1>3. approved' = approved \cup {<<s.host, s.print>>}
  BY DEF Trust
<1>4. approved' \subseteq PinHosts \X Prints
  BY <1>1, <1>3 DEF HostsInv, HostsTypeOK, Shown, PinHosts
<1>5. \A f \in survivors : ~f.torn /\ Good(f.entries, approved')
  BY <1>3, GoodGrows DEF HostsInv
<1>6. k \in Check /\ Sound(k, approved')
  <2>1. Stands(s.host, s.print, approved')
    BY <1>1, <1>3, TrustedStands DEF Shown, PinHosts
  <2> QED BY <1>1, <2>1, PlainIsCheck DEF Sound
<1>7. \A d \in Checks : Sound(checks[d], approved')
  <2> SUFFICES ASSUME NEW d \in Checks PROVE Sound(checks[d], approved')
    OBVIOUS
  <2>1. Sound(checks[d], approved) /\ approved \subseteq approved'
    BY <1>3 DEF HostsInv
  <2> QED BY <2>1, GoodGrows, StandsGrows DEF Sound
<1> HIDE DEF k
<1>8. checks' \in [Checks -> Check] /\ \A d \in Checks : Sound(checks'[d], approved')
  BY <1>2, <1>6, <1>7 DEF HostsInv, HostsTypeOK
<1> QED BY <1>2, <1>4, <1>5, <1>8 DEF HostsInv, HostsTypeOK

\* Distrust and PinFails: the file is left alone, and a check that had come as
\* far as building one was committed already.
LEMMA LeaveHolds ==
    ASSUME HostsInv, NEW c \in Checks, Distrust(c) \/ PinFails(c)
    PROVE  HostsInv'
<1> DEFINE s == checks[c].shown
<1>1. checks[c].stage # "off"
  BY DEF Distrust, PinFails
<1>2. s \in Shown
  BY <1>1, ShownIsShown
<1>3. PICK stage \in {"refused", "accepted"} :
          /\ checks' = [checks EXCEPT ![c] = [stage |-> stage, shown |-> s]]
          /\ stage = "accepted" => checks[c].stage \in {"built", "written"}
  BY DEF Distrust, PinFails, MoveTo
<1>4. Sound(checks[c], approved)
  BY DEF HostsInv
<1> DEFINE k == [stage |-> stage, shown |-> s]
<1>5. k \in Check /\ Sound(k, approved)
  BY <1>2, <1>3, <1>4, PlainIsCheck DEF Sound
<1>6. UNCHANGED <<known, survivors, approved>>
  BY DEF Distrust, PinFails
<1>7. checks' = [checks EXCEPT ![c] = k]
  BY <1>3
<1> HIDE DEF k
<1> QED BY <1>5, <1>6, <1>7, OneCheckMoves

\* A worker builds the file with its pin from the file it has read.
LEMMA BuildHolds ==
    ASSUME HostsInv, NEW c \in Checks, BuildPin(c)
    PROVE  HostsInv'
<1> DEFINE s == checks[c].shown
<1>1. s \in Shown
  BY ShownIsShown DEF BuildPin
<1>2. Stands(s.host, s.print, approved)
  BY DEF HostsInv, Sound, BuildPin
<1>3. PICK S \in Readings :
          checks' = [checks EXCEPT ![c] = [stage |-> "built", shown |-> s,
                                           out |-> Pinned(S, s), synced |-> FALSE]]
  BY DEF BuildPin
<1>4. S \in SUBSET PinEntry /\ Good(S, approved)
  BY ReadingIsGood
<1> DEFINE out == Pinned(S, s)
           k == [stage |-> "built", shown |-> s, out |-> out, synced |-> FALSE]
<1> HIDE DEF s
<1>5. out \in SUBSET PinEntry /\ Good(out, approved)
  BY <1>1, <1>2, <1>4, PinnedIsGood
<1>6. checks' = [checks EXCEPT ![c] = k]
  BY <1>3
<1> HIDE DEF out
<1>7. k \in Check
  BY <1>1, <1>5 DEF Check
<1>8. Sound(k, approved)
  BY <1>2, <1>5 DEF Sound
<1>9. UNCHANGED <<known, survivors, approved>>
  BY DEF BuildPin
<1> HIDE DEF k
<1> QED BY <1>6, <1>7, <1>8, <1>9, OneCheckMoves

\* The temporary file is written and synced.
LEMMA WriteHolds ==
    ASSUME HostsInv, NEW c \in Checks, WriteTemp(c)
    PROVE  HostsInv'
<1> DEFINE k == [checks[c] EXCEPT !.stage = "written", !.synced = TRUE]
<1>1. checks[c] \in [stage : {"built", "written"}, shown : Shown,
                     out : SUBSET PinEntry, synced : BOOLEAN]
  BY BuiltIsEntries DEF WriteTemp
<1>2. Sound(checks[c], approved) /\ checks[c].stage = "built"
  BY DEF HostsInv, WriteTemp
<1>3. /\ k \in [stage : {"built", "written"}, shown : Shown,
                 out : SUBSET PinEntry, synced : BOOLEAN]
      /\ k.stage = "written" /\ k.synced
      /\ k.shown = checks[c].shown /\ k.out = checks[c].out
  BY <1>1
<1>4. checks' = [checks EXCEPT ![c] = k]
  BY <1>1 DEF WriteTemp, HostsInv, HostsTypeOK
<1> HIDE DEF k
<1>5. k \in Check
  BY <1>3 DEF Check
<1>6. Sound(k, approved)
  BY <1>2, <1>3 DEF Sound
<1>7. UNCHANGED <<known, survivors, approved>>
  BY DEF WriteTemp
<1> QED BY <1>4, <1>5, <1>6, <1>7, OneCheckMoves

\* The rename publishes a file that was fit when it was built.
LEMMA PublishHolds ==
    ASSUME HostsInv, NEW c \in Checks, PublishPin(c)
    PROVE  HostsInv'
<1> DEFINE s == checks[c].shown
           k == [stage |-> "accepted", shown |-> s]
           S == checks[c].out
<1>1. checks[c].stage = "written" /\ s \in Shown /\ S \in SUBSET PinEntry
  BY ShownIsShown, BuiltIsEntries DEF PublishPin
<1>2. checks[c].synced /\ Good(S, approved) /\ Stands(s.host, s.print, approved)
  BY <1>1 DEF HostsInv, Sound
<1>3. /\ known' = Whole(S) /\ survivors' = survivors \cup {known'}
      /\ checks' = [checks EXCEPT ![c] = k] /\ UNCHANGED approved
  BY <1>2 DEF PublishPin, MoveTo
<1>4. k \in Check /\ Sound(k, approved)
  BY <1>1, <1>2, PlainIsCheck DEF Sound
<1> HIDE DEF s, S, k
<1>5. known' \in File /\ ~known'.torn /\ known'.entries = S
  BY <1>1, <1>3 DEF Whole, File
<1>6. \A f \in survivors' : ~f.torn /\ Good(f.entries, approved)
  BY <1>2, <1>3, <1>5 DEF HostsInv
<1>7. checks' \in [Checks -> Check] /\ \A d \in Checks : Sound(checks'[d], approved)
  BY <1>3, <1>4 DEF HostsInv, HostsTypeOK
<1> QED BY <1>3, <1>5, <1>6, <1>7 DEF HostsInv, HostsTypeOK

\* The system's own steps: nothing a loss of power can leave is unfit.
LEMMA OutsideHolds ==
    ASSUME HostsInv, WriteBack \/ Killed \/ PowerLoss
    PROVE  HostsInv'
<1>1. [c \in Checks |-> NoCheck] \in [Checks -> Check]
      /\ \A c \in Checks : Sound([d \in Checks |-> NoCheck][c], approved)
  BY DEF Check, NoCheck, Sound
<1>2. CASE WriteBack
  BY <1>2 DEF WriteBack, HostsInv, HostsTypeOK
<1>3. CASE Killed
  BY <1>1, <1>3 DEF Killed, HostsInv, HostsTypeOK
<1>4. CASE PowerLoss
  BY <1>1, <1>4 DEF PowerLoss, HostsInv, HostsTypeOK
<1> QED BY <1>2, <1>3, <1>4

---------------------------------------------------------------------------
\* Every step of a worker keeps all of it.
LEMMA StepHolds == HostsInv /\ [HostsNext]_hostsVars => HostsInv'
<1> SUFFICES ASSUME HostsInv, [HostsNext]_hostsVars PROVE HostsInv'
  OBVIOUS
<1>1. CASE UNCHANGED hostsVars
  BY <1>1 DEF hostsVars, HostsInv, HostsTypeOK
<1>2. CASE WriteBack \/ Killed \/ PowerLoss
  BY <1>2, OutsideHolds
<1>3. ASSUME NEW c \in Checks,
             \/ \E s \in Presented : Verify(c, s)
             \/ ConsultHost(c) \/ Trust(c) \/ Distrust(c)
             \/ BuildPin(c) \/ WriteTemp(c) \/ PublishPin(c) \/ PinFails(c)
      PROVE  HostsInv'
  BY <1>3, VerifyHolds, ConsultHolds, TrustHolds, LeaveHolds, BuildHolds,
     WriteHolds, PublishHolds
<1> QED BY <1>1, <1>2, <1>3 DEF HostsNext

\* The inductive invariant holds throughout.
THEOREM HostsInvariant == HostsSpec => []HostsInv
<1> QED BY InitHolds, StepHolds, PTL DEF HostsSpec

\* The variables of the certificate checks keep their types.
THEOREM HostsTypeCorrect == HostsSpec => []HostsTypeOK
<1>1. HostsInv => HostsTypeOK
  BY DEF HostsInv
<1> QED BY <1>1, HostsInvariant, PTL

\* `decide` accepts, and `pin` writes, nothing the user has not trusted for
\* that host, however many workers interleave their reads and renames; what
\* the pin of an IPv6 address reads as stands in for that address.
THEOREM ApprovedOnly == HostsSpec => []AcceptedIsApproved
<1>1. HostsInv => AcceptedIsApproved
  BY DEF HostsInv, AcceptedIsApproved, Sound, Good
<1> QED BY <1>1, HostsInvariant, PTL

\* A host and port never have two pins, `pin` replacing what it speaks of: of
\* the entries that are not misread pins of IPv6 addresses.
THEOREM OnePin == HostsSpec => []OnePinEach
<1>1. HostsInv => OnePinEach
  BY DEF HostsInv, OnePinEach, Good
<1> QED BY <1>1, HostsInvariant, PTL

\* write_atomic syncs before it renames, so no loss of power leaves half a file.
THEOREM NeverTorn == HostsSpec => []KnownHostsWhole
<1>1. HostsInv => KnownHostsWhole
  BY DEF HostsInv, KnownHostsWhole
<1> QED BY <1>1, HostsInvariant, PTL

\* Trust is the user's, whatever the workers, kills and losses of power do.
THEOREM TrustEarned == HostsSpec => []TrustIsEarned
<1>1. HostsInv => TrustIsEarned
  BY DEF HostsInv, TrustIsEarned, AcceptedIsApproved, OnePinEach, KnownHostsWhole,
         Sound, Good
<1> QED BY <1>1, HostsInvariant, PTL

=============================================================================
