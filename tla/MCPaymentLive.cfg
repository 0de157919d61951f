SPECIFICATION FairSpec
CONSTANTS
  w1 = w1
  w2 = w2
  p1 = p1
  ra = ra
  rb = rb
  Null = Null
  Workers = {w1, w2}
  Payments = {p1}
  Refs = {ra, rb}
  Events <- PairEvents
  CardReference <- ByCard
  Clock = {1}
  MaxCrashes = 1
PROPERTIES
  ApprovalEventuallyPosted
  RefundEventuallyReversed
CHECK_DEADLOCK FALSE
