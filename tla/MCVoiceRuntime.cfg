SPECIFICATION PartsSpec
CONSTANTS
  d1 = d1
  d2 = d2
  d3 = d3
  d4 = d4
  Decodes <- MCDecodes
  MaxInFlight = 2
  r1 = r1
  r2 = r2
  me = me
  leg = leg
  none = none
  Rooms <- MCRooms
  Users <- MCUsers
  Self = me
  Kinds <- MCKinds
  Mids <- MCMids
  Sdps <- MCSdps
  GenMod <- MCGenMod
  None = none
  MaxNegotiations = 2
  MaxPosted = 2
INVARIANTS RuntimeInStep SlotsAreShared
PROPERTIES AnswersAreCurrent SessionsGetSomewhere DecodesAreServed EveryDecodeEnds
