SPECIFICATION Spec
CONSTANTS
  Null = Null
  Reservations = {r1, r2, r3}
  MaxQuantity = 2
  HoldTtl = 2
  Offers <- SmallOffers
  Clock = {0, 1, 2, 3}
SYMMETRY ReservationSymmetry
INVARIANTS
  TypeOK
  NoOversell
  RowsReadable
PROPERTIES
  ReservationsMoveForward
