------------------------ MODULE MCTicketReservations ------------------------
(* Instances of TicketReservations for TLC. *)
EXTENDS TicketReservations, TLC

Offer(c, m, starts) ==
  [capacity |-> c, maxPerReservation |-> m, salesStart |-> 1, salesEnd |-> 3,
   startsAt |-> starts, enabled |-> TRUE]

\* Two capacities and two dates of the event; sales end before it or with it.
SmallOffers == {Offer(2, 2, 4), Offer(3, 1, 3)}

ReservationSymmetry == Permutations(Reservations)
=============================================================================
