---------------------- MODULE TicketReservationsProofs ----------------------
(***************************************************************************)
(* An inventory is never oversold, for any reservations, capacities, clocks*)
(* and edits of the offer.  The measure is the set of units the live rows  *)
(* take: a transaction either keeps a subset of it or, with room for them, *)
(* adds the units of one new hold.                                         *)
(***************************************************************************)
EXTENDS TicketReservations, FiniteSetTheorems, TLAPS

Table == [Reservations -> Row \cup {NoRow}]

\* A readable row whose confirmation, if it has one, comes after its hold: a
\* refund is only compared with the confirmation.
Sound(row) ==
  /\ Readable(row)
  /\ row.confirmedAt # Null => row.createdAt <= row.confirmedAt
RowsSound ==
  \A r \in Reservations :
    reservations[r].status # "absent" => Sound(reservations[r])

IInv == TypeOK /\ NoOversell /\ RowsSound

-----------------------------------------------------------------------------
(* Lemmas about the units that rows take *)

LEMMA UnitsFinite ==
  ASSUME NEW rs
  PROVE  IsFiniteSet(Units(rs)) /\ Committed(rs) \in Nat
<1>1. IsFiniteSet(Quantities)
  BY FS_Interval, QuantityAssumption DEF Quantities
<1>2. IsFiniteSet(Reservations \X Quantities)
  BY <1>1, FS_Product, ReservationsAssumption
<1>3. Units(rs) \in SUBSET (Reservations \X Quantities)
  BY DEF Units
<1>4. IsFiniteSet(Units(rs))
  BY <1>2, <1>3, FS_Subset
<1> QED
  BY <1>4, FS_CardinalityType DEF Committed

\* Rows that stay or are released take no more units than before.
LEMMA ReleaseTakesNothing ==
  ASSUME NEW rs, NEW ss,
         \A r \in Reservations :
           ss[r].status \in Live =>
             rs[r].status \in Live /\ ss[r].quantity = rs[r].quantity
  PROVE  Committed(ss) <= Committed(rs)
<1>1. Units(ss) \in SUBSET Units(rs)
  BY DEF Units
<1> QED
  BY <1>1, UnitsFinite, FS_Subset DEF Committed

\* A new row of q units takes at most q more.
LEMMA HoldTakesItsQuantity ==
  ASSUME NEW rs \in Table, NEW r \in Reservations, NEW q \in Quantities,
         NEW row, row.quantity = q
  PROVE  Committed([rs EXCEPT ![r] = row]) <= Committed(rs) + q
<1> DEFINE ss == [rs EXCEPT ![r] = row]
           new == {r} \X (1 .. q)
<1>1. q \in Nat
  BY QuantityAssumption DEF Quantities
<1>2. IsFiniteSet(1 .. q) /\ Cardinality(1 .. q) = q
  BY <1>1, FS_Interval
<1>3. IsFiniteSet({r}) /\ Cardinality({r}) = 1
  BY FS_Singleton
<1>4. IsFiniteSet(new) /\ Cardinality(new) = q
  BY <1>1, <1>2, <1>3, FS_Product
<1>5. Units(ss) \in SUBSET (Units(rs) \cup new)
  <2> SUFFICES ASSUME NEW u \in Units(ss)
               PROVE  u \in Units(rs) \cup new
    OBVIOUS
  <2>1. /\ u \in Reservations \X Quantities
        /\ ss[u[1]].status \in Live /\ u[2] <= ss[u[1]].quantity
    BY DEF Units
  <2>2. CASE u[1] = r
    <3>1. u[2] \in 1 .. q
      BY <2>1, <2>2 DEF Quantities, Table
    <3> QED
      BY <2>1, <2>2, <3>1
  <2>3. CASE u[1] # r
    <3>1. ss[u[1]] = rs[u[1]]
      BY <2>1, <2>3 DEF Table
    <3> QED
      BY <2>1, <3>1 DEF Units
  <2> QED
    BY <2>2, <2>3
<1>6. IsFiniteSet(Units(rs) \cup new)
      /\ Cardinality(Units(rs) \cup new) <= Committed(rs) + q
  <2>1. IsFiniteSet(Units(rs) \cap new)
    BY <1>4, FS_Intersection
  <2>2. Cardinality(Units(rs) \cap new) \in Nat
    BY <2>1, FS_CardinalityType
  <2>3. IsFiniteSet(Units(rs)) /\ Committed(rs) \in Nat
    BY UnitsFinite
  <2>4. /\ IsFiniteSet(Units(rs) \cup new)
        /\ Cardinality(Units(rs) \cup new)
             = Cardinality(Units(rs)) + Cardinality(new)
               - Cardinality(Units(rs) \cap new)
    BY <1>4, <2>3, FS_Union
  <2> QED
    BY <1>1, <1>4, <2>2, <2>3, <2>4 DEF Committed
<1>7. Cardinality(Units(ss)) <= Cardinality(Units(rs) \cup new)
  BY <1>5, <1>6, FS_Subset
<1>8. Cardinality(Units(rs) \cup new) \in Nat
  BY <1>6, FS_CardinalityType
<1> QED
  BY <1>1, <1>6, <1>7, <1>8, UnitsFinite DEF Committed

-----------------------------------------------------------------------------
(* Lemmas about rows *)

\* A row moves forward to another row that can be read back.
StepOK(old, new) ==
  /\ new \in Row
  /\ Sound(new)
  /\ MayBecome(old, new)

\* What a transaction may do to a table: some rows move forward.
Moves(rs, ss) ==
  /\ ss \in Table
  /\ \A r \in Reservations :
       \/ ss[r] = rs[r]
       \/ rs[r].status # "absent" /\ StepOK(rs[r], ss[r])

LEMMA MovesKeepInvariant ==
  ASSUME IInv, Moves(reservations, reservations'), UNCHANGED offer
  PROVE  /\ IInv'
         /\ \A r \in Reservations :
              \/ reservations'[r] = reservations[r]
              \/ MayBecome(reservations[r], reservations'[r])
<1>1. \A r \in Reservations :
        reservations'[r].status \in Live =>
          /\ reservations[r].status \in Live
          /\ reservations'[r].quantity = reservations[r].quantity
  BY DEF Moves, StepOK, MayBecome, Live
<1>2. Committed(reservations') <= Committed(reservations)
  BY <1>1, ReleaseTakesNothing
<1>3. NoOversell'
  <2>1. Committed(reservations) \in Nat /\ Committed(reservations') \in Nat
    BY UnitsFinite
  <2>2. offer.capacity \in Nat
    BY DEF IInv, TypeOK, OfferRecord
  <2> QED
    BY <1>2, <2>1, <2>2 DEF IInv, NoOversell
<1>4. TypeOK'
  BY DEF IInv, TypeOK, Moves, Table
<1>5. RowsSound'
  BY DEF IInv, RowsSound, Moves, StepOK
<1> QED
  BY <1>3, <1>4, <1>5 DEF IInv, Moves, StepOK

LEMMA SweepMoves ==
  ASSUME IInv, NEW at \in Clock
  PROVE  Moves(reservations, Swept(at))
<1>1. reservations \in Table
  BY DEF IInv, TypeOK, Table
<1>2. \A r \in Reservations :
        \/ Swept(at)[r] = reservations[r]
        \/ reservations[r].status # "absent"
           /\ StepOK(reservations[r], Swept(at)[r])
  <2> SUFFICES ASSUME NEW r \in Reservations, IsStale(reservations[r], at)
               PROVE  /\ reservations[r].status # "absent"
                      /\ StepOK(reservations[r], Swept(at)[r])
    BY DEF Swept
  <2> DEFINE old == reservations[r]
             new == Moved(old, "expired", at)
  <2>1. Swept(at)[r] = new
    BY DEF Swept
  <2>2. old \in Row /\ old.status = "held" /\ old.expiresAt <= at
    BY <1>1 DEF Table, NoRow, IsStale
  <2>3. Sound(old)
    BY <2>2 DEF IInv, RowsSound
  <2>4. new \in Row
    BY <2>2 DEF Row, Statuses, Moved
  <2>5. Sound(new)
    BY <2>2, <2>3, ClockAssumption DEF Sound, Readable, Row, Moved
  <2>6. MayBecome(old, new)
    BY <2>2 DEF MayBecome, Row, Moved
  <2> QED
    BY <2>1, <2>2, <2>4, <2>5, <2>6 DEF StepOK
<1>3. Swept(at) \in Table
  BY <1>1, <1>2 DEF Swept, Table, StepOK
<1> QED
  BY <1>2, <1>3 DEF Moves

\* A sweep followed by the move of one row it has left alone.
LEMMA SweepThenMove ==
  ASSUME IInv, NEW at \in Clock, NEW r \in Reservations, NEW row,
         Swept(at)[r].status \in Live, StepOK(Swept(at)[r], row)
  PROVE  Moves(reservations, [Swept(at) EXCEPT ![r] = row])
<1>1. Moves(reservations, Swept(at))
  BY SweepMoves
<1>2. Swept(at)[r] = reservations[r]
  BY DEF Swept, Live, Moved, IsStale, IInv, TypeOK, Row, NoRow
<1>3. [Swept(at) EXCEPT ![r] = row] \in Table
  BY <1>1 DEF Moves, Table, StepOK
<1>4. reservations[r].status # "absent"
  BY <1>2 DEF Live
<1> QED
  BY <1>1, <1>2, <1>3, <1>4 DEF Moves, Table

\* A row that is live after the sweep was left alone by it.
LEMMA LiveRow ==
  ASSUME IInv, NEW at \in Clock, NEW r \in Reservations,
         Swept(at)[r].status \in Live
  PROVE  Swept(at)[r] \in Row /\ Sound(Swept(at)[r])
<1>1. Swept(at)[r] = reservations[r]
  BY DEF Swept, Live, Moved, IsStale, IInv, TypeOK, Row, NoRow
<1>2. reservations[r] \in Row
  BY <1>1 DEF IInv, TypeOK, NoRow, Live
<1> QED
  BY <1>1, <1>2 DEF IInv, RowsSound, Live

-----------------------------------------------------------------------------
(* One lemma per transaction that moves rows *)

LEMMA ConfirmMoves ==
  ASSUME IInv, NEW at \in Clock, NEW r \in Reservations, Confirm(r, at)
  PROVE  Moves(reservations, reservations')
<1> DEFINE rs == Swept(at)
<1>1. CASE reservations' = rs
  BY <1>1, SweepMoves
<1>2. CASE /\ rs[r].status = "held"
           /\ rs[r].createdAt <= at /\ at < rs[r].expiresAt
           /\ reservations' = [rs EXCEPT ![r] =
                [Moved(rs[r], "confirmed", at) EXCEPT !.confirmedAt = at]]
  <2> DEFINE new == [Moved(rs[r], "confirmed", at) EXCEPT !.confirmedAt = at]
  <2>1. rs[r] \in Row /\ Sound(rs[r])
    BY <1>2, LiveRow DEF Live
  <2>2. new \in Row
    BY <2>1 DEF Row, Statuses, Moved
  <2>3. Sound(new)
    BY <1>2, <2>1, ClockAssumption DEF Sound, Readable, Row, Moved
  <2>4. MayBecome(rs[r], new)
    BY <1>2, <2>1 DEF MayBecome, Row, Moved
  <2>5. StepOK(rs[r], new)
    BY <2>2, <2>3, <2>4 DEF StepOK
  <2>6. rs[r].status \in Live
    BY <1>2 DEF Live
  <2> HIDE DEF new
  <2> QED
    BY <1>2, <2>5, <2>6, SweepThenMove DEF new
<1> QED
  BY <1>1, <1>2 DEF Confirm

LEMMA CancelHoldMoves ==
  ASSUME IInv, NEW at \in Clock, NEW r \in Reservations, CancelHold(r, at)
  PROVE  Moves(reservations, reservations')
<1> DEFINE rs == Swept(at)
<1>1. CASE reservations' = rs
  BY <1>1, SweepMoves
<1>2. CASE /\ rs[r].status = "held"
           /\ rs[r].createdAt <= at
           /\ reservations' = [rs EXCEPT ![r] = Moved(rs[r], "cancelled", at)]
  <2> DEFINE new == Moved(rs[r], "cancelled", at)
  <2>1. rs[r] \in Row /\ Sound(rs[r])
    BY <1>2, LiveRow DEF Live
  <2>2. new \in Row
    BY <2>1 DEF Row, Statuses, Moved
  <2>3. Sound(new)
    BY <1>2, <2>1 DEF Sound, Readable, Row, Moved
  <2>4. MayBecome(rs[r], new)
    BY <1>2, <2>1 DEF MayBecome, Row, Moved, Live
  <2>5. StepOK(rs[r], new)
    BY <2>2, <2>3, <2>4 DEF StepOK
  <2>6. rs[r].status \in Live
    BY <1>2 DEF Live
  <2> HIDE DEF new
  <2> QED
    BY <1>2, <2>5, <2>6, SweepThenMove DEF new
<1> QED
  BY <1>1, <1>2 DEF CancelHold

LEMMA CancelAfterRefundMoves ==
  ASSUME IInv, NEW at \in Clock, NEW r \in Reservations,
         CancelAfterRefund(r, at)
  PROVE  Moves(reservations, reservations')
<1> DEFINE old == reservations[r]
           new == Moved(old, "cancelled", at)
<1>1. reservations \in Table
  BY DEF IInv, TypeOK, Table
<1>2. CASE UNCHANGED reservations
  BY <1>1, <1>2 DEF Moves
<1>3. CASE /\ old.confirmedAt # Null
           /\ old.status = "confirmed"
           /\ old.confirmedAt <= at
           /\ reservations' = [reservations EXCEPT ![r] = new]
  <2>1. old \in Row
    BY <1>1, <1>3 DEF Table, NoRow
  <2>2. Sound(old)
    BY <1>3 DEF IInv, RowsSound
  <2>3. new \in Row
    BY <2>1 DEF Row, Statuses, Moved
  <2>4. Sound(new)
    BY <1>3, <2>1, <2>2, ClockAssumption DEF Sound, Readable, Row, Moved
  <2>5. MayBecome(old, new)
    BY <1>3, <2>1 DEF MayBecome, Row, Moved, Live
  <2>6. StepOK(old, new)
    BY <2>3, <2>4, <2>5 DEF StepOK
  <2>7. reservations' \in Table
    BY <1>1, <1>3, <2>3 DEF Table
  <2> QED
    BY <1>1, <1>3, <2>6, <2>7 DEF Moves, Table
<1> QED
  BY <1>2, <1>3 DEF CancelAfterRefund

\* A new hold: the sweep only releases units, and the hold had room for its
\* own.
LEMMA NewHoldKeepsInvariant ==
  ASSUME IInv, NEW at \in Clock, NEW r \in Reservations,
         NEW q \in Quantities, NEW seen \in Offers,
         Swept(at)[r].status = "absent", Room(Swept(at), q),
         at < HoldExpiry(seen, at), UNCHANGED offer,
         reservations' = [Swept(at) EXCEPT ![r] =
           [status |-> "held", quantity |-> q, createdAt |-> at,
            expiresAt |-> HoldExpiry(seen, at), confirmedAt |-> Null,
            updatedAt |-> at]]
  PROVE  /\ IInv'
         /\ \A s \in Reservations :
              \/ reservations[s].status = "absent"
              \/ reservations'[s] = reservations[s]
              \/ MayBecome(reservations[s], reservations'[s])
<1> DEFINE rs == Swept(at)
           expiry == HoldExpiry(seen, at)
           new == [status |-> "held", quantity |-> q, createdAt |-> at,
                   expiresAt |-> expiry, confirmedAt |-> Null,
                   updatedAt |-> at]
<1>1. Moves(reservations, rs)
  BY SweepMoves
<1>2. rs \in Table
  BY <1>1 DEF Moves
<1>3. expiry \in Nat /\ at \in Nat
  <2>1. /\ at \in Nat
        /\ seen.startsAt \in Nat /\ seen.startsAt # 0
    BY ClockAssumption, OffersAssumption DEF OfferRecord
  <2> QED
    BY <2>1, TtlAssumption DEF HoldExpiry
<1>4. new \in Row
  BY <1>3 DEF Row, Statuses
<1>5. Sound(new)
  BY <1>3 DEF Sound, Readable
<1>6. reservations' \in Table
  BY <1>2, <1>4 DEF Table
<1>7. NoOversell'
  <2>1. Committed(reservations') <= Committed(rs) + q
    <3>1. new.quantity = q
      OBVIOUS
    <3> HIDE DEF rs, new
    <3> QED
      BY <1>2, <3>1, HoldTakesItsQuantity DEF new, rs
  <2>2. Committed(rs) + q <= offer.capacity
    BY DEF Room
  <2>3. /\ Committed(reservations') \in Nat /\ Committed(rs) \in Nat
        /\ q \in Nat /\ offer.capacity \in Nat
    BY UnitsFinite, QuantityAssumption DEF IInv, TypeOK, OfferRecord, Quantities
  <2> QED
    BY <2>1, <2>2, <2>3 DEF NoOversell
<1>8. RowsSound'
  <2> SUFFICES ASSUME NEW s \in Reservations,
                      reservations'[s].status # "absent"
               PROVE  Sound(reservations'[s])
    BY DEF RowsSound
  <2>1. CASE s = r
    BY <1>2, <1>5, <2>1 DEF Table
  <2>2. CASE s # r
    <3>1. reservations'[s] = rs[s]
      BY <1>2, <2>2 DEF Table
    <3> QED
      BY <1>1, <3>1 DEF Moves, StepOK, IInv, RowsSound
  <2> QED
    BY <2>1, <2>2
<1>9. ASSUME NEW s \in Reservations
      PROVE  \/ reservations[s].status = "absent"
             \/ reservations'[s] = reservations[s]
             \/ MayBecome(reservations[s], reservations'[s])
  <2>1. CASE s = r
    BY <1>1, <2>1 DEF Moves, StepOK, MayBecome
  <2>2. CASE s # r
    <3>1. reservations'[s] = rs[s]
      BY <1>2, <2>2 DEF Table
    <3> QED
      BY <1>1, <3>1 DEF Moves, StepOK
  <2> QED
    BY <2>1, <2>2
<1>10. TypeOK'
  BY <1>6 DEF IInv, TypeOK, Table
<1> QED
  BY <1>7, <1>8, <1>9, <1>10 DEF IInv

-----------------------------------------------------------------------------
(* The theorems *)

Forward ==
  \A r \in Reservations :
    \/ reservations[r].status = "absent"
    \/ reservations'[r] = reservations[r]
    \/ MayBecome(reservations[r], reservations'[r])

LEMMA InitEstablishes == Init => IInv
<1> SUFFICES ASSUME Init PROVE IInv
  OBVIOUS
<1>1. TypeOK
  BY OffersAssumption DEF Init, TypeOK
<1>2. NoOversell
  <2>1. Units(reservations) = {}
    BY DEF Init, Units, NoRow, Live
  <2>2. offer.capacity \in Nat
    BY <1>1 DEF TypeOK, OfferRecord
  <2> QED
    BY <2>1, <2>2, FS_EmptySet DEF NoOversell, Committed
<1>3. RowsSound
  BY DEF Init, RowsSound, NoRow
<1> QED
  BY <1>1, <1>2, <1>3 DEF IInv

\* Every transaction keeps the invariant and moves rows forward only.
LEMMA NextPreserves ==
  ASSUME IInv, [Next]_reservationVars
  PROVE  IInv' /\ Forward
<1>1. ASSUME NEW at \in Clock, Availability(at)
      PROVE  IInv' /\ Forward
  BY <1>1, SweepMoves, MovesKeepInvariant DEF Availability, Forward
<1>2. ASSUME NEW at \in Clock, NEW r \in Reservations,
             NEW q \in Quantities, NEW seen \in Offers, Hold(r, q, at, seen)
      PROVE  IInv' /\ Forward
  <2>1. CASE reservations' = Swept(at)
    BY <1>2, <2>1, SweepMoves, MovesKeepInvariant DEF Hold, Forward
  <2>2. CASE reservations' # Swept(at)
    BY <1>2, <2>2, NewHoldKeepsInvariant DEF Hold, Forward
  <2> QED
    BY <2>1, <2>2
<1>3. ASSUME NEW at \in Clock, NEW r \in Reservations, Confirm(r, at)
      PROVE  IInv' /\ Forward
  <2>1. UNCHANGED offer
    BY <1>3 DEF Confirm
  <2> QED
    BY <1>3, <2>1, ConfirmMoves, MovesKeepInvariant DEF Forward
<1>4. ASSUME NEW at \in Clock, NEW r \in Reservations, CancelHold(r, at)
      PROVE  IInv' /\ Forward
  <2>1. UNCHANGED offer
    BY <1>4 DEF CancelHold
  <2> QED
    BY <1>4, <2>1, CancelHoldMoves, MovesKeepInvariant DEF Forward
<1>5. ASSUME NEW at \in Clock, NEW r \in Reservations,
             CancelAfterRefund(r, at)
      PROVE  IInv' /\ Forward
  <2>1. UNCHANGED offer
    BY <1>5 DEF CancelAfterRefund
  <2> QED
    BY <1>5, <2>1, CancelAfterRefundMoves, MovesKeepInvariant DEF Forward
<1>6. ASSUME NEW o \in Offers, SaveInventory(o)
      PROVE  IInv' /\ Forward
  BY <1>6, OffersAssumption
     DEF SaveInventory, IInv, TypeOK, NoOversell, RowsSound, Forward
<1>7. ASSUME Disable
      PROVE  IInv' /\ Forward
  BY <1>7 DEF Disable, IInv, TypeOK, NoOversell, RowsSound, Forward, OfferRecord
<1>8. ASSUME UNCHANGED reservationVars
      PROVE  IInv' /\ Forward
  BY <1>8 DEF reservationVars, IInv, TypeOK, NoOversell, RowsSound, Forward
<1> QED
  BY <1>1, <1>2, <1>3, <1>4, <1>5, <1>6, <1>7, <1>8 DEF Next

\* The inductive invariant: types, capacity, and rows that can be read back.
THEOREM InventoryInvariant == Spec => []IInv
<1>1. Init => IInv
  BY InitEstablishes
<1>2. IInv /\ [Next]_reservationVars => IInv'
  BY NextPreserves
<1> QED
  BY <1>1, <1>2, PTL DEF Spec

\* The tables keep their types.
THEOREM ReservationTypes == Spec => []TypeOK
<1>1. IInv => TypeOK
  BY DEF IInv
<1> QED
  BY <1>1, InventoryInvariant, PTL

\* No interleaving of holds, confirmations, cancellations, sweeps and edits
\* of the offer, under any clocks, takes more units than the capacity.
THEOREM InventoryNeverOversold == Spec => []NoOversell
<1>1. IInv => NoOversell
  BY DEF IInv
<1> QED
  BY <1>1, InventoryInvariant, PTL

\* No transaction leaves a row that a later read would reject.
THEOREM RowsStayReadable == Spec => []RowsReadable
<1>1. IInv => RowsReadable
  BY DEF IInv, RowsSound, Sound, RowsReadable
<1> QED
  BY <1>1, InventoryInvariant, PTL

\* Rows only move forward: released units stay released, and only a refund
\* cancels a confirmed reservation.
THEOREM ReservationsForward == Spec => ReservationsMoveForward
<1>1. IInv /\ [Next]_reservationVars => [Forward]_reservationVars
  BY NextPreserves
<1>2. Spec => [][Forward]_reservationVars
  BY <1>1, InventoryInvariant, PTL DEF Spec
<1> QED
  BY <1>2 DEF ReservationsMoveForward, Forward
=============================================================================
