-------------------------- MODULE MCPaymentOutcome --------------------------
(* Instances of PaymentOutcome for TLC. *)
EXTENDS PaymentOutcome, TLC

CONSTANTS w1, w2, p1, ra, rb

Ev(id, p, ref, status, at) ==
  [id |-> id, payment |-> p, ref |-> ref, money |-> "same",
   status |-> status, occurredAt |-> at]

\* A payment approved, notified twice, and refunded.
RefundEvents ==
  {Ev(1, p1, ra, "paid", 5), Ev(2, p1, ra, "paid", 6),
   Ev(3, p1, ra, "refunded", 7)}

\* Two attempts on the provider's page with contradictory outcomes, a second
\* payload under an event id, and an external reference of no payment.
RaceEvents ==
  {Ev(1, p1, ra, "paid", 5), Ev(2, p1, rb, "paid", 6),
   Ev(3, p1, Null, "cancelled", 6), Ev(3, p1, Null, "expired", 6),
   Ev(9, Null, ra, "paid", 5)}

\* One approval and its refund.
PairEvents == {Ev(1, p1, ra, "paid", 5), Ev(3, p1, ra, "refunded", 7)}

MoneyEvents == {[Ev(1, p1, ra, "paid", 5) EXCEPT !.money = "different"]}

\* The payment is made on the provider's page, or with a card that obtains ra.
HostedPage == [p \in Payments |-> Null]
ByCard == [p \in Payments |-> ra]

WorkerSymmetry == Permutations(Workers)
=============================================================================
