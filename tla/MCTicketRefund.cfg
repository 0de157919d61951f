SPECIFICATION FairFulfilmentSpec
CONSTANTS
  Null = Null
  Reservations = {r1}
  MaxQuantity = 1
  HoldTtl = 4
  Offers <- EarlyOrLate
  Clock = {0, 2, 3}
  Processors = {p1}
  Outcomes = {"confirmed", "refunded"}
  ResultIds <- ApprovalFirst
  Limit = 2
  MaxRenames = 0
  MaxCrashes = 0
CHECK_DEADLOCK FALSE
PROPERTIES
  RefundReachesTicket
