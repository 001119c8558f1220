------------------------------ MODULE MCClient ------------------------------
(* The client's parts whose promises are of safety alone, one of which moves  *)
(* in a behaviour: the voice session of one connection (VoiceSession: two     *)
(* rooms, one camera, and two offers, one of which marks the only receive leg *)
(* inactive), the microphone three connections share (VoiceArbiter: two       *)
(* rooms, with the same ids on each), the certificates of known hosts         *)
(* (KnownHosts: two workers, a host whose certificate changes on one port, an *)
(* IPv6 address and the one its pin reads as), the settings (SettingsFile:    *)
(* two clients), the history of the public chat (ChatHistory), who is in      *)
(* which chat (Roster), the files window (FileBrowser: two folders), the news *)
(* window (NewsBrowser), the banners of two connections (Banner), the         *)
(* connections themselves with their tabs (Connections: up to three), the     *)
(* tracker window (TrackerFetch: one tracker configured twice, fetched three  *)
(* times, with one walk that goes on after its fetch was closed) and the      *)
(* receive legs of a voice session (ReceiveLegs: one section, two streams of  *)
(* it and two pipelines, so that a stream rejoins, waits for its offer, stops *)
(* and outlives its session).  The parts share no variable, so their states   *)
(* add up and every property is checked of each part as it is on its own.     *)
EXTENDS VoiceSession, VoiceArbiter, KnownHosts, SettingsFile, ChatHistory, Roster,
        FileBrowser, NewsBrowser, Banner, Connections, TrackerFetch, ReceiveLegs

CONSTANTS r1, r2, me, camera, leg, none, c1, c2, c3

VARIABLE part    \* the part that moves

MCRooms == {r1, r2}
MCUsers == {me}
MCKinds == {camera}
MCMids == {leg}
MCSdps == {[mids |-> {leg}, inactive |-> {}], [mids |-> {leg}, inactive |-> {leg}]}
MCGenMod == 2
MCConns == {c1, c2, c3}

Line(h, p, f) == [host |-> h, port |-> p, print |-> f]
MCPresented ==
    {Line("h", 2, "b"), Line("::1", 1, "b"), Line("::1:1", 2, "b")}
MCReadAs ==
    <<"::1", 1>> :> "::1:1" @@ <<"::1", 2>> :> "::1:2" @@
    <<"::1:1", 1>> :> "::1:1:1" @@ <<"::1:1", 2>> :> "::1:1:2"
MCFirstFiles == {{Line("h", AnyPort, "a")}, {}}

MCTrackerLists == {<<"u", "u">>, <<>>}
MCListings == {<<"s", "s">>}
MCSearches == {{"s"}, {}}

MCSection == [s \in Ssrcs |-> "cam"]
MCLegOffers ==
    [ssrcs : {{1}, {1, 2}}, inactive : {{}}] \cup [ssrcs : {{1, 2}}, inactive : {{"cam"}}]

MCUp == [d \in {"/d"} |-> "/"]

Parts == {"session", "microphone", "hosts", "settings", "history", "roster", "files",
          "news", "banner", "connections", "tracker", "legs"}

\* Where a part has several initial states, the others start it in one.
PartsInit ==
    /\ part \in Parts
    /\ SessionInit /\ Init /\ HostsInit /\ SettingsInit /\ HistoryInit /\ RosterInit
    /\ FilesInit /\ NewsInit /\ BannerInit /\ ConnectionsInit /\ TrackerInit
    /\ LegsInit
    /\ part # "settings" => configDir.file = Absent
    /\ legacy = IF part = "settings" /\ configDir.file = Absent THEN "keys" ELSE "none"
    /\ part = "hosts" <=> known.entries # {}
    /\ part # "history" => lines = 0
    /\ part # "roster" => within[0] = {}
    /\ shows.right = 1
    /\ focus = 1

partVars == <<part, sessionVars, vars, hostsVars, settingsVars, histVars, rosterVars,
              filesVars, newsVars, bannerVars, connectionsVars, trackerVars,
              legsVars>>

PartsNext ==
    /\ UNCHANGED part
    /\ \/ /\ part = "session"
          /\ UNCHANGED <<vars, hostsVars, settingsVars, histVars, rosterVars,
                         filesVars, newsVars, bannerVars, connectionsVars,
                         trackerVars, legsVars>>
          /\ SessionNext
       \/ /\ part = "microphone"
          /\ UNCHANGED <<sessionVars, hostsVars, settingsVars, histVars,
                         rosterVars, filesVars, newsVars, bannerVars,
                         connectionsVars, trackerVars, legsVars>>
          /\ Next
       \/ /\ part = "hosts"
          /\ UNCHANGED <<sessionVars, vars, settingsVars, histVars, rosterVars,
                         filesVars, newsVars, bannerVars, connectionsVars,
                         trackerVars, legsVars>>
          /\ HostsNext
       \/ /\ part = "settings"
          /\ UNCHANGED <<sessionVars, vars, hostsVars, histVars, rosterVars,
                         filesVars, newsVars, bannerVars, connectionsVars,
                         trackerVars, legsVars>>
          /\ SettingsNext
       \/ /\ part = "history"
          /\ UNCHANGED <<sessionVars, vars, hostsVars, settingsVars, rosterVars,
                         filesVars, newsVars, bannerVars, connectionsVars,
                         trackerVars, legsVars>>
          /\ HistoryNext
       \/ /\ part = "roster"
          /\ UNCHANGED <<sessionVars, vars, hostsVars, settingsVars, histVars,
                         filesVars, newsVars, bannerVars, connectionsVars,
                         trackerVars, legsVars>>
          /\ RosterNext
       \/ /\ part = "files"
          /\ UNCHANGED <<sessionVars, vars, hostsVars, settingsVars, histVars,
                         rosterVars, newsVars, bannerVars, connectionsVars,
                         trackerVars, legsVars>>
          /\ FilesNext
       \/ /\ part = "news"
          /\ UNCHANGED <<sessionVars, vars, hostsVars, settingsVars, histVars,
                         rosterVars, filesVars, bannerVars, connectionsVars,
                         trackerVars, legsVars>>
          /\ NewsNext
       \/ /\ part = "banner"
          /\ UNCHANGED <<sessionVars, vars, hostsVars, settingsVars, histVars,
                         rosterVars, filesVars, newsVars, connectionsVars,
                         trackerVars, legsVars>>
          /\ BannerNext
       \/ /\ part = "connections"
          /\ UNCHANGED <<sessionVars, vars, hostsVars, settingsVars, histVars,
                         rosterVars, filesVars, newsVars, bannerVars,
                         trackerVars, legsVars>>
          /\ ConnectionsNext
       \/ /\ part = "tracker"
          /\ UNCHANGED <<sessionVars, vars, hostsVars, settingsVars, histVars,
                         rosterVars, filesVars, newsVars, bannerVars,
                         connectionsVars, legsVars>>
          /\ TrackerNext
          \* The third fetch is there for the verdicts.
          /\ gets' > 2 => search' = HxServers /\ asker'
       \/ /\ part = "legs"
          /\ UNCHANGED <<sessionVars, vars, hostsVars, settingsVars, histVars,
                         rosterVars, filesVars, newsVars, bannerVars,
                         connectionsVars, trackerVars>>
          /\ LegsNext
       \* A part whose bounds are reached rests.
       \/ part \in {"history", "roster", "tracker", "legs"} /\ UNCHANGED partVars

PartsSpec == PartsInit /\ [][PartsNext]_partVars

\* Every variable of the part that moves has its type.  SessionTypeOK includes
\* that each frame the voice session sends names a room: the fallbacks to the
\* public chat's (`unwrap_or(0)`) are never taken.
PartsTypeOK ==
    CASE part = "session" -> SessionTypeOK
      [] part = "microphone" -> TypeOK
      [] part = "hosts" -> HostsTypeOK
      [] part = "settings" -> SettingsTypeOK
      [] part = "history" -> HistoryTypeOK
      [] part = "roster" -> RosterTypeOK
      [] part = "files" -> FilesTypeOK
      [] part = "news" -> NewsTypeOK
      [] part = "connections" -> ConnectionsTypeOK
      [] part = "tracker" -> TrackerTypeOK
      [] part = "legs" -> LegsTypeOK
      [] OTHER -> TRUE

\* Only the moving part's variables tell two states of a behaviour apart.  The two
\* checks of a certificate are alike, and so are the two clients: which is which
\* makes no difference.
PartView ==
    <<part,
      CASE part = "session" -> sessionVars [] part = "microphone" -> vars
        [] part = "hosts" -> <<known, survivors, Range(checks), approved>>
        [] part = "settings" -> <<configDir, onDisk, legacy, Range(client), edits, outside>>
        [] part = "history" -> histVars [] part = "roster" -> rosterVars
        [] part = "files" -> filesVars [] part = "news" -> newsVars
        [] part = "banner" -> bannerVars [] part = "connections" -> connectionsVars
        [] part = "tracker" -> trackerVars [] part = "legs" -> legsVars>>
=============================================================================
