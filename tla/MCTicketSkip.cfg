SPECIFICATION FulfilmentSpec
CONSTANTS
  Null = Null
  Reservations = {r1, r2}
  MaxQuantity = 1
  HoldTtl = 4
  Offers <- WideOffer
  Clock = {0}
  Processors = {p1}
  Outcomes = {"confirmed"}
  ResultIds <- Ids
  Limit = 2
  MaxRenames = 0
  MaxCrashes = 0
CHECK_DEADLOCK FALSE
INVARIANTS
  PassedResultsHandled
