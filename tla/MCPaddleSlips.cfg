SPECIFICATION Spec
CONSTANTS
  Straddles = TRUE
  QueueSize = 2
  MaxEdges <- EdgesOf
  MaxOrders <- OrdersOf
INVARIANT NeverLeftKeyed
\* The operator may stop pressing the paddles, and a closed keyer has ended.
CHECK_DEADLOCK FALSE
