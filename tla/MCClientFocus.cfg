SPECIFICATION PartsSpec
CONSTANTS
  r1 = r1
  r2 = r2
  me = me
  camera = camera
  leg = leg
  none = none
  c1 = c1
  c2 = c2
  c3 = c3
  Rooms <- MCRooms
  Users <- MCUsers
  Self = me
  Kinds <- MCKinds
  Mids <- MCMids
  Sdps <- MCSdps
  GenMod <- MCGenMod
  None = none
  Conns <- MCConns
  ChatIds <- MCRooms
  Nobody = none
  Checks = {1, 2}
  TlsHosts = {"h", "::1", "::1:1"}
  Literals = {"::1", "::1:1"}
  ReadAs <- MCReadAs
  TlsPorts = {1, 2}
  Prints = {"a", "b"}
  Presented <- MCPresented
  FirstFiles <- MCFirstFiles
  MaxUnsynced = 2
  Clients = {1, 2}
  MaxEdits = 2
  MaxOutside = 1
  Page = 2
  MaxLines = 7
  MaxLogins = 2
  MaxAsked = 5
  Others = {u}
  Me = self
  Names = {a, b}
  NotListed = absent
  Cids = {1}
  MaxTold = 2
  MaxTrans = 4
  MaxLinks = 2
  Provs = {1, 2}
  Dirs = {"/", "/d"}
  RootDir = "/"
  Up <- MCUp
  LocalSide = 0
  MaxAsks = 2
  MaxLogons = 2
  Posts = {"p"}
  NoPost = "none"
  MaxFetches = 3
  MaxVisits = 2
  Tabs = {1, 2}
  MaxBanners = 3
  MaxSessions = 3
  Hosts = {"x", "y"}
  NoHost = "none"
  Trackers = {"u"}
  TrackerLists <- MCTrackerLists
  HxServers = {"s"}
  Listings <- MCListings
  MaxListing = 2
  Searches <- MCSearches
  NoTracker = "none"
  MaxGets = 3
  MaxLate = 1
  LegRooms = {1, 2}
  Ssrcs = {1, 2}
  Section <- MCSection
  Pictures = {"cam"}
  LegOffers <- MCLegOffers
  NoRoom = 0
  NoOffer = none
  NoSection = none
  MaxPads = 2
  MaxOffers = 2
  MaxCalls = 2
  MaxPipes = 2
INVARIANT ActiveIsSelected
