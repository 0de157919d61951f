------------------------- MODULE TicketReservations -------------------------
(***************************************************************************)
(* One ticket inventory and the reservations that hold its units.  Every   *)
(* operation is one database transaction that first locks the inventory's  *)
(* row, so an action is a whole transaction, and one that throws is rolled *)
(* back and changes nothing.  What is not serialised are the clocks: each  *)
(* transaction brings a time that some server read before it waited for    *)
(* its connection, for the lock or for the verification of a payment, so   *)
(* that successive transactions bring times in any order.                  *)
(***************************************************************************)
EXTENDS Naturals, FiniteSets

CONSTANTS
  Reservations,  \* ids of reservations, one per holder and request key
  MaxQuantity,   \* units one reservation may ask for
  HoldTtl,       \* HOLD_TTL_MS
  Offers,        \* the offers the inventory may be created or saved with
  Clock,         \* readings of the servers' clocks
  Null

Quantities == 1 .. MaxQuantity

OfferRecord ==
  [capacity : Nat, maxPerReservation : Nat, salesStart : Nat, salesEnd : Nat,
   startsAt : Nat, enabled : BOOLEAN]

ASSUME ReservationsAssumption == IsFiniteSet(Reservations)
ASSUME QuantityAssumption == MaxQuantity \in Nat
ASSUME TtlAssumption == HoldTtl \in Nat
ASSUME ClockAssumption == Clock \subseteq Nat /\ Null \notin Nat

\* What createTicketInventoryOffer accepts.
ASSUME OffersAssumption ==
  /\ Offers \subseteq OfferRecord
  /\ \A o \in Offers :
       /\ 0 < o.maxPerReservation /\ o.maxPerReservation <= o.capacity
       /\ o.salesStart < o.salesEnd /\ o.salesEnd <= o.startsAt

Statuses == {"held", "confirmed", "expired", "cancelled"}

\* The order and the payment of a reservation are written with confirmedAt;
\* expiredAt and cancelledAt are the updatedAt of an ended reservation.
Row ==
  [status : Statuses, quantity : Quantities, createdAt : Clock,
   expiresAt : Nat, confirmedAt : Clock \cup {Null}, updatedAt : Clock]

NoRow ==
  [status |-> "absent", quantity |-> 0, createdAt |-> 0, expiresAt |-> 0,
   confirmedAt |-> Null, updatedAt |-> 0]

VARIABLES
  offer,        \* the row of ticketing_inventory
  reservations  \* ticketing_reservations, NoRow where there is none

reservationVars == <<offer, reservations>>

Init ==
  /\ offer \in Offers
  /\ reservations = [r \in Reservations |-> NoRow]

-----------------------------------------------------------------------------
(* Expiry and capacity *)

Live == {"held", "confirmed"}

\* The units taken by the rows rs, each reservation's numbered from 1: their
\* number is the SUM of the quantities of held and confirmed rows.
Units(rs) ==
  {u \in Reservations \X Quantities :
     rs[u[1]].status \in Live /\ u[2] <= rs[u[1]].quantity}
Committed(rs) == Cardinality(Units(rs))

IsStale(row, at) == row.status = "held" /\ row.expiresAt <= at

\* A row that leaves the hold, or is cancelled after a refund.
Moved(row, status, at) == [row EXCEPT !.status = status, !.updatedAt = at]

\* expireStaleHolds.  The mutant forgets to select held rows only.
SweptAny(at) ==
  [r \in Reservations |->
     IF reservations[r].status # "absent" /\ reservations[r].expiresAt <= at
       THEN Moved(reservations[r], "expired", at) ELSE reservations[r]]
Swept(at) ==
  [r \in Reservations |->
     IF IsStale(reservations[r], at)
       THEN Moved(reservations[r], "expired", at) ELSE reservations[r]]

\* Room for q more units.  The mutant compares what was taken before.
SomeRoom(rs, q) == Committed(rs) < offer.capacity
Room(rs, q) == Committed(rs) + q <= offer.capacity

\* createTicketInventoryAvailability fails on an oversold inventory.
Reportable(rs) == Committed(rs) <= offer.capacity

Sellable(at) == offer.enabled /\ offer.salesStart <= at /\ at < offer.salesEnd

\* holdExpiry: ten minutes, or just before the start.
HoldExpiry(seen, at) ==
  IF at + HoldTtl < seen.startsAt THEN at + HoldTtl ELSE seen.startsAt - 1

-----------------------------------------------------------------------------
(* The transactions *)

\* Availability commits the sweep it needs.
Availability(at) ==
  /\ Reportable(Swept(at))
  /\ reservations' = Swept(at)
  /\ UNCHANGED offer

\* A hold, or the replay of one.  Its expiry was computed from the offer as
\* the request read it, which may have been saved again before the lock.
Hold(r, q, at, seen) ==
  LET rs == Swept(at)
      expiry == HoldExpiry(seen, at)
  IN
  /\ at < expiry
  /\ \/ /\ rs[r].status # "absent"
        /\ rs[r].quantity = q
        /\ Reportable(rs)
        /\ reservations' = rs
     \/ /\ rs[r].status = "absent"
        /\ Sellable(at)
        /\ q <= offer.maxPerReservation
        /\ expiry <= offer.startsAt
        /\ Room(rs, q)
        /\ reservations' = [rs EXCEPT ![r] =
             [status |-> "held", quantity |-> q, createdAt |-> at,
              expiresAt |-> expiry, confirmedAt |-> Null, updatedAt |-> at]]
  /\ UNCHANGED offer

\* confirmAuthoritative, the order and the payment already verified.
Confirm(r, at) ==
  LET rs == Swept(at) IN
  /\ \/ /\ rs[r].status = "confirmed"
        /\ reservations' = rs
     \/ /\ rs[r].status = "held"
        /\ rs[r].createdAt <= at /\ at < rs[r].expiresAt
        /\ reservations' = [rs EXCEPT ![r] =
             [Moved(rs[r], "confirmed", at) EXCEPT !.confirmedAt = at]]
  /\ UNCHANGED offer

\* cancelHold.  The mutant takes the server's time as it comes.
CancelHoldAtAnyTime(r, at) ==
  LET rs == Swept(at) IN
  /\ rs[r].status = "held"
  /\ reservations' = [rs EXCEPT ![r] = Moved(rs[r], "cancelled", at)]
  /\ UNCHANGED offer
CancelHold(r, at) ==
  LET rs == Swept(at) IN
  /\ \/ /\ rs[r].status = "cancelled"
        /\ reservations' = rs
     \/ /\ rs[r].status = "held"
        /\ rs[r].createdAt <= at
        /\ reservations' = [rs EXCEPT ![r] = Moved(rs[r], "cancelled", at)]
  /\ UNCHANGED offer

\* cancelConfirmedAfterRefund: at is the provider's time of the refund, and
\* nothing is swept.  The mutant stores the status as the provider words it.
RefundAsWorded(r, at) ==
  /\ reservations[r].status = "confirmed"
  /\ reservations[r].confirmedAt <= at
  /\ reservations' = [reservations EXCEPT ![r] =
       Moved(reservations[r], "refunded", at)]
  /\ UNCHANGED offer
CancelAfterRefund(r, at) ==
  /\ reservations[r].confirmedAt # Null
  /\ \/ /\ reservations[r].status = "cancelled"
        /\ UNCHANGED reservations
     \/ /\ reservations[r].status = "confirmed"
        /\ reservations[r].confirmedAt <= at
        /\ reservations' = [reservations EXCEPT ![r] =
             Moved(reservations[r], "cancelled", at)]
  /\ UNCHANGED offer

\* saveInventory counts what is committed without sweeping it.
SaveInventory(o) ==
  /\ Committed(reservations) <= o.capacity
  /\ offer' = o
  /\ UNCHANGED reservations

\* disableForBusiness
Disable ==
  /\ offer' = [offer EXCEPT !.enabled = FALSE]
  /\ UNCHANGED reservations

Next ==
  \/ \E at \in Clock :
       \/ Availability(at)
       \/ \E r \in Reservations :
            \/ \E q \in Quantities, seen \in Offers : Hold(r, q, at, seen)
            \/ Confirm(r, at)
            \/ CancelHold(r, at)
            \/ CancelAfterRefund(r, at)
  \/ \E o \in Offers : SaveInventory(o)
  \/ Disable

Spec == Init /\ [][Next]_reservationVars

-----------------------------------------------------------------------------
(* Properties *)

\* The tables hold rows of the types the domain functions return.
TypeOK ==
  /\ offer \in OfferRecord
  /\ reservations \in [Reservations -> Row \cup {NoRow}]

\* The inventory is never oversold: whatever buyers hold, confirm, cancel and
\* expire at once, under whatever clocks, and however the capacity is edited
\* meanwhile, the units of held and confirmed reservations fit the capacity.
NoOversell == Committed(reservations) <= offer.capacity

\* Every stored row passes the validation of createTicketReservation when it
\* is read back.  A row that did not would make every later sweep that meets
\* it throw, and with it every operation on the whole inventory.
Readable(row) ==
  /\ row.createdAt < row.expiresAt
  /\ row.createdAt <= row.updatedAt
  /\ row.status \in {"held", "expired"} => row.confirmedAt = Null
  /\ row.status = "confirmed" =>
       row.confirmedAt # Null /\ row.confirmedAt <= row.expiresAt
  /\ row.status = "cancelled" /\ row.confirmedAt # Null =>
       row.confirmedAt <= row.updatedAt
RowsReadable ==
  \A r \in Reservations :
    reservations[r].status # "absent" => Readable(reservations[r])

\* What may become of a row: a released reservation never takes units again,
\* a confirmed one is neither expired nor cancelled by its holder but only by
\* the refund of its payment, a confirmation comes before the end of the
\* hold, and the quantity and the times of the hold are never rewritten.
MayBecome(old, new) ==
  /\ new.quantity = old.quantity
  /\ new.createdAt = old.createdAt /\ new.expiresAt = old.expiresAt
  /\ \/ /\ old.status = "held" /\ new.status = "confirmed"
        /\ new.confirmedAt = new.updatedAt /\ new.updatedAt < old.expiresAt
     \/ /\ old.status = "held" /\ new.status = "expired"
        /\ old.expiresAt <= new.updatedAt
        /\ new.confirmedAt = old.confirmedAt
     \/ /\ old.status \in Live /\ new.status = "cancelled"
        /\ new.confirmedAt = old.confirmedAt
ReservationsMoveForward ==
  [][\A r \in Reservations :
       \/ reservations[r].status = "absent"
       \/ reservations'[r] = reservations[r]
       \/ MayBecome(reservations[r], reservations'[r])]_reservationVars
=============================================================================
