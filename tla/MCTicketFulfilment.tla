------------------------- MODULE MCTicketFulfilment -------------------------
(* Instances of TicketFulfilment for TLC. *)
EXTENDS TicketFulfilment, TLC

Offer(c, end, starts) ==
  [capacity |-> c, maxPerReservation |-> 1, salesStart |-> 0, salesEnd |-> end,
   startsAt |-> starts, enabled |-> TRUE]

\* The event starts late, or so soon that a hold ends within the clock.
WideOffer == {Offer(2, 2, 9)}
EarlyOrLate == {Offer(2, 2, 4), Offer(2, 2, 9)}

\* Among results of one time an arbitrary one comes first: here a refund comes
\* before its approval.
Number ==
  CHOOSE f \in [Reservations -> 1 .. Cardinality(Reservations)] : IsInjective(f)
Rank(s) == IF s = "refunded" THEN 0 ELSE IF s = "confirmed" THEN 1 ELSE 2
Ids == [x \in Reservations \X Outcomes |-> 3 * Number[x[1]] + Rank(x[2])]
ApprovalFirst ==
  [x \in Reservations \X Outcomes |-> 3 * Number[x[1]] + 2 - Rank(x[2])]
=============================================================================
