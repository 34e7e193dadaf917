SPECIFICATION Spec
CONSTANTS
  Producers <- XmitAlone
  MaxEpisodes = 2
  MaxSessions = 1
  MaxQueue = 2
  MaxSend = 2
  MaxReports = 2
PROPERTY StaleRxRejected
