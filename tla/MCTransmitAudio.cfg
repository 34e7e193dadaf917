SPECIFICATION FairSpec
CONSTANTS
  Producers <- XmitAndTci
  MaxEpisodes = 2
  MaxSessions = 2
  MaxQueue = 0
  MaxSend = 1
  MaxReports = 1
PROPERTIES LinkLossClosesGate RadioDropEndsHold
