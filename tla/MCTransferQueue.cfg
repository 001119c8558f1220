SPECIFICATION MCSpec
CONSTANTS
  c1 = c1
  c2 = c2
  Xfers <- MCXfers
  Conns <- MCConns
  ConnOf <- MCConnOf
  Kind <- MCKind
  Replies <- MCReplies
  Groups <- MCGroups
  QueueTries = 1
  AgainTries = 1
CHECK_DEADLOCK FALSE
INVARIANTS OneHolderEach QueueMoves
PROPERTIES QueueLeavesPauses EveryTransferGoes
