SPECIFICATION FairSpec
CONSTANTS
  shack = shack
  field = field
  Nobody = Nobody
  Radios <- BothRadios
  Tls <- OverTls
  Mdns <- ByName
  MaxRequests = 3
  MaxSignals = 3
INVARIANTS TypeOK NeverStuck NothingCarriedOver ReadyIsConnected
PROPERTIES ToldOnce EveryAttemptEnds
\* Once the operator asks for nothing more and the session has ended, nothing is left to do.
CHECK_DEADLOCK FALSE
