SPECIFICATION FairSpec
CONSTANTS
  Straddles = FALSE
  QueueSize = 2
  MaxEdges <- EdgesOf
  MaxOrders <- OrdersOf
INVARIANTS TypeOK NeverLeftKeyed AirAlternates ReleaseEndsBurst MonitorComesBack
PROPERTY KeyingEnds
\* The operator may stop pressing the paddles, and a closed keyer has ended.
CHECK_DEADLOCK FALSE
