SPECIFICATION Spec
CONSTANTS
  Producers <- EveryKind
  MaxEpisodes = 2
  MaxSessions = 2
  MaxQueue = 1
  MaxSend = 1
  MaxReports = 1
INVARIANTS TypeOK ShownAsItIs GateFollowsOwner NothingLeftOn TxBeforeAudio SourceSettles
PROPERTIES ImplementsLock RoomNeverUnderTci
