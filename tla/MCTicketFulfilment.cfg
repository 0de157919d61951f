SPECIFICATION FulfilmentSpec
CONSTANTS
  Null = Null
  Reservations = {r1, r2}
  MaxQuantity = 1
  HoldTtl = 2
  Offers <- WideOffer
  Clock = {0, 2}
  Processors = {p1}
  Outcomes = {"confirmed", "refunded"}
  ResultIds <- Ids
  Limit = 2
  MaxRenames = 0
  MaxCrashes = 1
CHECK_DEADLOCK FALSE
INVARIANTS
  UsableTicketBacked
  InOrderResultsHandled
 
