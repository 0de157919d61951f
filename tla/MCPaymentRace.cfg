SPECIFICATION Spec
CONSTANTS
  w1 = w1
  w2 = w2
  p1 = p1
  ra = ra
  rb = rb
  Null = Null
  Workers = {w1, w2}
  Payments = {p1}
  Refs = {ra, rb}
  Events <- RaceEvents
  CardReference <- HostedPage
  Clock = {1}
  MaxCrashes = 1
SYMMETRY WorkerSymmetry
INVARIANTS
  ResultsAgreeWithPayments
PROPERTIES
  PaymentsMoveForward
CHECK_DEADLOCK FALSE
