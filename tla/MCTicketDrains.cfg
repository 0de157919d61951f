SPECIFICATION FairFulfilmentSpec
CONSTANTS
  Null = Null
  Reservations = {r1}
  MaxQuantity = 1
  HoldTtl = 4
  Offers <- EarlyOrLate
  Clock = {0, 2, 3}
  Processors = {p1, p2}
  Outcomes = {"confirmed", "refunded"}
  ResultIds <- Ids
  Limit = 2
  MaxRenames = 1
  MaxCrashes = 1
CHECK_DEADLOCK FALSE
INVARIANTS
  FulfilmentTypeOK
  ConfirmedMeansPaid
PROPERTIES
  CursorForward
  DrainStopsOnlyWhereRefused
