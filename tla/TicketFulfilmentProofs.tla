----------------------- MODULE TicketFulfilmentProofs -----------------------
(***************************************************************************)
(* However many drains run and die at once, they use the reservations as   *)
(* TicketReservations allows, confirm and issue nothing that is not paid,  *)
(* save a cursor that only advances, and skip no result that came into the *)
(* feed in its order.  One drain at a time leaves no usable ticket without *)
(* its place.                                                              *)
(*                                                                         *)
(* A drain remembers what it has tested over the steps of everybody else.  *)
(* What it relies on (a recorded approval, a confirmed order, a reservation*)
(* that was confirmed once) never goes away, which Grows states.           *)
(***************************************************************************)
EXTENDS TicketFulfilment, TicketReservationsProofs, SequenceTheorems

\* A refund in the feed carries the provider's time.
Dated(x) == x.status = "refunded" => x.occurredAt \in Clock
RefundsDated == \A x \in inFlight \cup Range(results) : Dated(x)

SharedInv ==
  /\ IInv
  /\ offer \in Offers
  /\ SharedTypeOK
  /\ RefundsDated
  /\ ConfirmedMeansPaid

Paid(r) == <<r, "confirmed">> \in Recorded /\ r \in paidOrders
WasConfirmed(r) == reservations[r].confirmedAt # Null

\* What a drain at a label with result x in hand and a value carried relies on.
Relies(label, x, value) ==
  /\ label \in {"reread", "payment", "order", "confirm"} => value \in Clock
  /\ label \in {"ticket", "insert"} => value \in 0 .. MaxRenames
  /\ label \in {"refund", "cancel"} => x.status = "refunded"
  /\ label = "confirm" => Paid(x.reservation)
  /\ label \in {"issue", "ticket", "insert"} => WasConfirmed(x.reservation)

DrainInv(p) ==
  /\ batch[p] \subseteq Range(results)
  /\ job[p] # Null => job[p] \in Range(results)
  /\ Relies(pc[p], job[p], carried[p])

DrainsInv == DrainsTypeOK /\ \A p \in Processors : DrainInv(p)

FulfilmentInv == SharedInv /\ DrainsInv

\* What no step takes back.
Grows ==
  /\ Recorded \subseteq Recorded'
  /\ paidOrders \subseteq paidOrders'
  /\ Range(results) \subseteq Range(results')
  /\ \A r \in Reservations : WasConfirmed(r) => WasConfirmed(r)'

Same(p) ==
  /\ pc'[p] = pc[p] /\ batch'[p] = batch[p]
  /\ job'[p] = job[p] /\ carried'[p] = carried[p]

-----------------------------------------------------------------------------
(* What a drain relies on survives the steps of the others *)

LEMMA ReliesStable ==
  ASSUME Grows, NEW x \in Result, NEW label, NEW value,
         Relies(label, x, value)
  PROVE  Relies(label, x, value)'
<1>1. x.reservation \in Reservations
  BY DEF Result
<1> QED
  BY <1>1 DEF Grows, Relies, Paid

LEMMA DrainStable ==
  ASSUME DrainsInv, Grows, NEW p \in Processors, Same(p)
  PROVE  DrainInv(p)'
<1>1. /\ batch'[p] \subseteq Range(results')
      /\ job'[p] # Null => job'[p] \in Range(results')
  BY DEF DrainsInv, DrainInv, Same, Grows
<1>2. CASE job[p] = Null
  <2>1. pc[p] \in {"idle", "list"}
    BY <1>2 DEF DrainsInv, DrainsTypeOK
  <2> QED
    BY <1>1, <2>1 DEF DrainInv, Same, Relies
<1>3. CASE job[p] # Null
  <2>1. job[p] \in Result
    BY <1>3 DEF DrainsInv, DrainsTypeOK
  <2>2. Relies(pc[p], job[p], carried[p])
    BY DEF DrainsInv, DrainInv
  <2>3. Relies(pc[p], job[p], carried[p])'
    BY <2>1, <2>2 DEF Grows, Relies, Paid, Same, Result
  <2> QED
    BY <1>1, <2>3 DEF DrainInv
<1> QED
  BY <1>2, <1>3

LEMMA DrainsUntouched ==
  ASSUME FulfilmentInv, Grows, UNCHANGED <<pc, seen, batch, job, carried>>
  PROVE  DrainsInv'
<1>1. DrainsTypeOK'
  BY DEF FulfilmentInv, DrainsInv, DrainsTypeOK
<1>2. ASSUME NEW p \in Processors PROVE DrainInv(p)'
  BY <1>2, DrainStable DEF FulfilmentInv, Same
<1> QED
  BY <1>1, <1>2 DEF DrainsInv

LEMMA SharedUntouched ==
  ASSUME FulfilmentInv, UNCHANGED Data
  PROVE  SharedInv' /\ Grows
<1>1. UNCHANGED <<offer, reservations, now, profile, payments, paidOrders,
                  inFlight, results, tickets, bearer, cursor, crashes>>
  BY DEF Data, reservationVars, world, financialVars, ticketVars
<1>2. IInv'
  BY <1>1 DEF FulfilmentInv, SharedInv, IInv, TypeOK, NoOversell, RowsSound,
              Committed, Units
<1>3. SharedTypeOK'
  BY <1>1 DEF FulfilmentInv, SharedInv, SharedTypeOK
<1>4. Recorded' = Recorded
  BY <1>1 DEF Recorded
<1>5. RefundsDated' /\ ConfirmedMeansPaid' /\ offer' \in Offers
  BY <1>1, <1>4 DEF FulfilmentInv, SharedInv, RefundsDated, ConfirmedMeansPaid
<1>6. Grows
  BY <1>1, <1>4 DEF Grows, WasConfirmed
<1> QED
  BY <1>2, <1>3, <1>5, <1>6 DEF SharedInv

-----------------------------------------------------------------------------
(* The three ways a drain goes on *)

LEMMA FailKeeps ==
  ASSUME FulfilmentInv, Grows, NEW p \in Processors, Fail(p)
  PROVE  DrainsInv'
<1>1. DrainsTypeOK'
  BY DEF FulfilmentInv, DrainsInv, DrainsTypeOK, Fail, Labels
<1>2. DrainInv(p)'
  BY DEF FulfilmentInv, DrainsInv, DrainsTypeOK, Fail, DrainInv, Relies
<1>3. ASSUME NEW q \in Processors \ {p} PROVE DrainInv(q)'
  <2>1. Same(q)
    BY <1>3 DEF FulfilmentInv, DrainsInv, DrainsTypeOK, Fail, Same
  <2> QED
    BY <2>1, <1>3, DrainStable DEF FulfilmentInv
<1> QED
  BY <1>1, <1>2, <1>3 DEF DrainsInv

LEMMA GotoKeeps ==
  ASSUME FulfilmentInv, Grows, NEW p \in Processors, job[p] # Null,
         NEW label \in Labels \ {"idle", "list"},
         NEW value \in Clock \cup 0 .. MaxRenames \cup {Null},
         Goto(p, label, value), Relies(label, job[p], value)'
  PROVE  DrainsInv'
<1>1. DrainsTypeOK'
  BY DEF FulfilmentInv, DrainsInv, DrainsTypeOK, Goto
<1>2. DrainInv(p)'
  <2>1. pc'[p] = label /\ carried'[p] = value /\ job' = job /\ batch' = batch
    BY DEF FulfilmentInv, DrainsInv, DrainsTypeOK, Goto
  <2> QED
    BY <2>1 DEF FulfilmentInv, DrainsInv, DrainInv, Grows
<1>3. ASSUME NEW q \in Processors \ {p} PROVE DrainInv(q)'
  <2>1. Same(q)
    BY <1>3 DEF FulfilmentInv, DrainsInv, DrainsTypeOK, Goto, Same
  <2> QED
    BY <2>1, <1>3, DrainStable DEF FulfilmentInv
<1> QED
  BY <1>1, <1>2, <1>3 DEF DrainsInv

LEMMA TurnKeeps ==
  ASSUME FulfilmentInv, Grows, NEW p \in Processors,
         NEW b \in SUBSET Range(results), Turn(p, b),
         UNCHANGED carried,
         seen' \in [Processors -> CursorKey \cup {Null}]
  PROVE  DrainsInv'
<1>1. Range(results) \subseteq Result
  BY DEF FulfilmentInv, SharedInv, SharedTypeOK, Range
<1>2. DrainsTypeOK' /\ DrainInv(p)'
  <2>1. CASE b = {}
    <3>1. /\ batch' = [batch EXCEPT ![p] = {}]
          /\ pc' = [pc EXCEPT ![p] = "idle"]
          /\ job' = [job EXCEPT ![p] = Null]
      BY <2>1 DEF Turn
    <3>2. DrainsTypeOK'
      BY <3>1 DEF FulfilmentInv, DrainsInv, DrainsTypeOK, Labels
    <3>3. DrainInv(p)'
      BY <3>1 DEF FulfilmentInv, DrainsInv, DrainsTypeOK, DrainInv, Relies
    <3> QED
      BY <3>2, <3>3
  <2>2. CASE b # {}
    <3>1. PICK x \in b :
            /\ pc' = [pc EXCEPT ![p] = Entry(x)]
            /\ job' = [job EXCEPT ![p] = x]
      BY <2>2 DEF Turn
    <3>2. batch' = [batch EXCEPT ![p] = b]
      BY DEF Turn
    <3>3. /\ x \in Result /\ x # Null /\ x \in Range(results')
          /\ b \subseteq Range(results') /\ b \subseteq Result
      BY <1>1, NullAssumption DEF Grows
    <3>4. Entry(x) \in {"find", "refund", "save"}
      BY DEF Entry
    <3>5. DrainsTypeOK'
      BY <3>1, <3>2, <3>3, <3>4
      DEF FulfilmentInv, DrainsInv, DrainsTypeOK, Labels
    <3>6. Entry(x) = "refund" => x.status = "refunded"
      BY DEF Entry
    <3>7. pc'[p] = Entry(x) /\ job'[p] = x /\ batch'[p] = b
      BY <3>1, <3>2 DEF FulfilmentInv, DrainsInv, DrainsTypeOK
    <3>8. DrainInv(p)'
      BY <3>3, <3>4, <3>6, <3>7 DEF DrainInv, Relies
    <3> QED
      BY <3>5, <3>8
  <2> QED
    BY <2>1, <2>2
<1>3. ASSUME NEW q \in Processors \ {p} PROVE DrainInv(q)'
  <2>1. Same(q)
    BY <1>3 DEF FulfilmentInv, DrainsInv, DrainsTypeOK, Turn, Same
  <2> QED
    BY <2>1, <1>3, DrainStable DEF FulfilmentInv
<1> QED
  BY <1>2, <1>3 DEF DrainsInv

-----------------------------------------------------------------------------
(* The reservations' transactions keep what was confirmed *)

LEMMA SweepConfirms ==
  ASSUME IInv, NEW at, NEW r \in Reservations
  PROVE  Swept(at)[r].confirmedAt = reservations[r].confirmedAt
BY DEF Swept, Moved, IsStale, IInv, TypeOK, Row, NoRow

\* Buyers only use the transactions of TicketReservations, and confirm nothing.
LEMMA BuyerStep ==
  ASSUME IInv, offer \in Offers, now \in Clock, Buyer
  PROVE  /\ Next /\ UNCHANGED offer
         /\ \A r \in Reservations :
              reservations'[r].confirmedAt = reservations[r].confirmedAt
<1>0. Swept(now) \in [Reservations -> Row \cup {NoRow}]
  BY SweepMoves DEF Moves, Table
<1>1. CASE Availability(now)
  BY <1>1, SweepConfirms DEF Next, Availability
<1>2. ASSUME NEW r \in Reservations, NEW q \in Quantities,
             Hold(r, q, now, offer)
      PROVE  Next /\ UNCHANGED offer /\ \A s \in Reservations :
               reservations'[s].confirmedAt = reservations[s].confirmedAt
  <2>1. Next /\ UNCHANGED offer
    BY <1>2 DEF Next, Hold
  <2>2. CASE reservations' = Swept(now)
    BY <2>1, <2>2, SweepConfirms
  <2>3. CASE reservations' # Swept(now)
    <3>1. Swept(now)[r].status = "absent"
      BY <1>2, <2>3 DEF Hold
    <3>2. Swept(now)[r].confirmedAt = Null
      BY <1>0, <3>1 DEF Row, NoRow, Statuses
    <3>3. PICK row : /\ row.confirmedAt = Null
                     /\ reservations' = [Swept(now) EXCEPT ![r] = row]
      BY <1>2, <2>3 DEF Hold
    <3> QED
      BY <1>0, <2>1, <3>2, <3>3, SweepConfirms
  <2> QED
    BY <2>2, <2>3
<1>3. ASSUME NEW r \in Reservations, CancelHold(r, now)
      PROVE  Next /\ UNCHANGED offer /\ \A s \in Reservations :
               reservations'[s].confirmedAt = reservations[s].confirmedAt
  <2>1. Next /\ UNCHANGED offer
    BY <1>3 DEF Next, CancelHold
  <2>2. Moved(Swept(now)[r], "cancelled", now).confirmedAt
          = Swept(now)[r].confirmedAt
    BY <1>0 DEF Moved, Row, NoRow
  <2> QED
    BY <1>0, <1>3, <2>1, <2>2, SweepConfirms DEF CancelHold
<1> QED
  BY <1>1, <1>2, <1>3 DEF Buyer

\* Confirming touches the confirmation of one reservation only.
LEMMA ConfirmTouches ==
  ASSUME IInv, NEW at \in Clock, NEW r \in Reservations, Confirm(r, at)
  PROVE  /\ Next /\ UNCHANGED offer
         /\ WasConfirmed(r)'
         /\ \A s \in Reservations \ {r} :
              reservations'[s].confirmedAt = reservations[s].confirmedAt
<1>0. Swept(at) \in [Reservations -> Row \cup {NoRow}]
  BY SweepMoves DEF Moves, Table
<1>1. Next /\ UNCHANGED offer
  BY DEF Next, Confirm
<1>2. at # Null
  BY ClockAssumption
<1>3. Swept(at)[r].status \in Live
  BY DEF Confirm, Live
<1>4. Sound(Swept(at)[r]) /\ Swept(at)[r] \in Row
  BY <1>3, LiveRow
<1>5. CASE Swept(at)[r].status = "confirmed"
  <2>1. reservations' = Swept(at)
    BY <1>5 DEF Confirm
  <2> QED
    BY <1>1, <1>4, <1>5, <2>1, SweepConfirms DEF Sound, Readable, WasConfirmed
<1>6. CASE Swept(at)[r].status = "held"
  <2>1. PICK row : row.confirmedAt = at
                   /\ reservations' = [Swept(at) EXCEPT ![r] = row]
    <3>1. [Moved(Swept(at)[r], "confirmed", at) EXCEPT !.confirmedAt = at]
            .confirmedAt = at
      BY <1>4 DEF Moved, Row
    <3> QED
      BY <1>6, <3>1 DEF Confirm
  <2> QED
    BY <1>0, <1>1, <1>2, <2>1, SweepConfirms DEF WasConfirmed
<1> QED
  BY <1>3, <1>5, <1>6 DEF Live

LEMMA RefundTouchesNone ==
  ASSUME IInv, NEW at \in Clock, NEW r \in Reservations,
         CancelAfterRefund(r, at)
  PROVE  /\ Next /\ UNCHANGED offer
         /\ \A s \in Reservations :
              reservations'[s].confirmedAt = reservations[s].confirmedAt
<1>1. Next /\ UNCHANGED offer
  BY DEF Next, CancelAfterRefund
<1>2. reservations \in [Reservations -> Row \cup {NoRow}]
  BY DEF IInv, TypeOK
<1>3. Moved(reservations[r], "cancelled", at).confirmedAt
        = reservations[r].confirmedAt
  BY <1>2 DEF Moved, Row, NoRow
<1> QED
  BY <1>1, <1>2, <1>3 DEF CancelAfterRefund

-----------------------------------------------------------------------------
(* Time, buyers, the gate and Financial *)

\* What is left when the reservations are not touched.
LEMMA InventoryUntouched ==
  ASSUME SharedInv, UNCHANGED reservationVars
  PROVE  /\ IInv' /\ offer' \in Offers
         /\ \A r \in Reservations :
              reservations'[r].confirmedAt = reservations[r].confirmedAt
BY NextPreserves DEF SharedInv, reservationVars

LEMMA TickStep ==
  ASSUME FulfilmentInv, Tick \/ Rename
  PROVE  FulfilmentInv'
<1>1. UNCHANGED <<offer, reservations, payments, paidOrders, inFlight, results,
                  tickets, bearer, cursor, crashes, pc, seen, batch, job,
                  carried>>
  BY DEF Tick, Rename, reservationVars, financialVars, ticketVars, drainVars
<1>2. Recorded' = Recorded
  BY <1>1 DEF Recorded
<1>3. IInv' /\ offer' \in Offers
  BY <1>1, InventoryUntouched DEF reservationVars, FulfilmentInv
<1>4. now' \in Clock /\ profile' \in 0 .. MaxRenames
  <2>1. now \in Clock /\ profile \in 0 .. MaxRenames /\ MaxRenames \in Nat
    BY LimitsAssumption DEF FulfilmentInv, SharedInv, SharedTypeOK
  <2> QED
    BY <2>1 DEF Tick, Rename
<1>5. SharedTypeOK'
  BY <1>1, <1>4 DEF FulfilmentInv, SharedInv, SharedTypeOK
<1>6. RefundsDated' /\ ConfirmedMeansPaid'
  BY <1>1, <1>2 DEF FulfilmentInv, SharedInv, RefundsDated, ConfirmedMeansPaid
<1>7. Grows
  BY <1>1, <1>2 DEF Grows, WasConfirmed
<1> QED
  BY <1>1, <1>3, <1>5, <1>6, <1>7, DrainsUntouched
  DEF FulfilmentInv, SharedInv

LEMMA BuyersStep ==
  ASSUME FulfilmentInv, Buyer
  PROVE  FulfilmentInv'
<1>1. UNCHANGED <<now, profile, payments, paidOrders, inFlight, results,
                  tickets, bearer, cursor, crashes, pc, seen, batch, job,
                  carried>>
  BY DEF Buyer, world, financialVars, ticketVars, drainVars
<1>2. Recorded' = Recorded
  BY <1>1 DEF Recorded
<1>3. /\ IInv' /\ offer' \in Offers
      /\ \A r \in Reservations :
           reservations'[r].confirmedAt = reservations[r].confirmedAt
  BY BuyerStep, NextPreserves DEF FulfilmentInv, SharedInv, SharedTypeOK
<1>4. SharedTypeOK'
  BY <1>1 DEF FulfilmentInv, SharedInv, SharedTypeOK
<1>5. RefundsDated' /\ ConfirmedMeansPaid'
  BY <1>1, <1>2, <1>3
  DEF FulfilmentInv, SharedInv, RefundsDated, ConfirmedMeansPaid
<1>6. Grows
  BY <1>1, <1>2, <1>3 DEF Grows, WasConfirmed
<1> QED
  BY <1>1, <1>3, <1>4, <1>5, <1>6, DrainsUntouched
  DEF FulfilmentInv, SharedInv

LEMMA CheckInStep ==
  ASSUME FulfilmentInv, NEW r \in Reservations, CheckIn(r)
  PROVE  FulfilmentInv'
<1>1. UNCHANGED <<offer, reservations, now, profile, payments, paidOrders,
                  inFlight, results, bearer, cursor, crashes, pc, seen, batch,
                  job, carried>>
  BY DEF CheckIn, reservationVars, world, financialVars, drainVars
<1>2. Recorded' = Recorded
  BY <1>1 DEF Recorded
<1>3. IInv' /\ offer' \in Offers
  BY <1>1, InventoryUntouched DEF reservationVars, FulfilmentInv
<1>4. PICK s \in {"validated", "used", "cancelled"} :
        tickets[r] # "none" /\ tickets' = [tickets EXCEPT ![r] = s]
  BY DEF CheckIn
<1>5. SharedTypeOK'
  BY <1>1, <1>4 DEF FulfilmentInv, SharedInv, SharedTypeOK
<1>6. RefundsDated' /\ ConfirmedMeansPaid'
  BY <1>1, <1>2, <1>4
  DEF FulfilmentInv, SharedInv, SharedTypeOK, RefundsDated, ConfirmedMeansPaid
<1>7. Grows
  BY <1>1, <1>2 DEF Grows, WasConfirmed
<1> QED
  BY <1>1, <1>3, <1>5, <1>6, <1>7, DrainsUntouched
  DEF FulfilmentInv, SharedInv

LEMMA DecideStep ==
  ASSUME FulfilmentInv, NEW r \in Reservations, NEW s \in Outcomes, Decide(r, s)
  PROVE  FulfilmentInv'
<1>1. UNCHANGED <<offer, reservations, now, profile, paidOrders, inFlight,
                  results, tickets, bearer, cursor, crashes, pc, seen, batch,
                  job, carried>>
  BY DEF Decide, reservationVars, world, ticketVars, drainVars
<1>2. Recorded' = Recorded
  BY <1>1 DEF Recorded
<1>3. IInv' /\ offer' \in Offers
  BY <1>1, InventoryUntouched DEF reservationVars, FulfilmentInv
<1>4. payments' = [payments EXCEPT ![r] = s] /\ s \in Financial!Statuses
  BY OutcomesAssumption DEF Decide, Financial!Advance, Financial!Statuses
<1>5. SharedTypeOK'
  BY <1>1, <1>4 DEF FulfilmentInv, SharedInv, SharedTypeOK
<1>6. RefundsDated' /\ ConfirmedMeansPaid'
  BY <1>1, <1>2 DEF FulfilmentInv, SharedInv, RefundsDated, ConfirmedMeansPaid
<1>7. Grows
  BY <1>1, <1>2 DEF Grows, WasConfirmed
<1> QED
  BY <1>1, <1>3, <1>5, <1>6, <1>7, DrainsUntouched
  DEF FulfilmentInv, SharedInv

LEMMA StampStep ==
  ASSUME FulfilmentInv, NEW r \in Reservations, NEW s \in Outcomes, Stamp(r, s)
  PROVE  FulfilmentInv'
<1>1. UNCHANGED <<offer, reservations, now, profile, payments, paidOrders,
                  results, tickets, bearer, cursor, crashes, pc, seen, batch,
                  job, carried>>
  BY DEF Stamp, reservationVars, world, ticketVars, drainVars
<1>2. Recorded' = Recorded
  BY <1>1 DEF Recorded
<1>3. IInv' /\ offer' \in Offers
  BY <1>1, InventoryUntouched DEF reservationVars, FulfilmentInv
<1>4. PICK t \in OccurredAt(r, s) :
        inFlight' = inFlight \cup
          {[reservation |-> r, status |-> s, occurredAt |-> t,
            recordedAt |-> now]}
  BY DEF Stamp
<1>5. now \in Clock
  BY DEF FulfilmentInv, SharedInv, SharedTypeOK
<1>6. t \in Clock \cup {Null} /\ (s = "refunded" => t \in Clock)
  BY <1>4 DEF OccurredAt
<1>7. SharedTypeOK'
  BY <1>1, <1>4, <1>5, <1>6 DEF FulfilmentInv, SharedInv, SharedTypeOK, Result
<1>8. RefundsDated'
  BY <1>1, <1>4, <1>6 DEF FulfilmentInv, SharedInv, RefundsDated, Dated
<1>9. ConfirmedMeansPaid'
  BY <1>1, <1>2 DEF FulfilmentInv, SharedInv, ConfirmedMeansPaid
<1>10. Grows
  BY <1>1, <1>2 DEF Grows, WasConfirmed
<1> QED
  BY <1>1, <1>3, <1>7, <1>8, <1>9, <1>10, DrainsUntouched
  DEF FulfilmentInv, SharedInv

\* The feed grows by what is appended to it.
LEMMA AppendRange ==
  ASSUME NEW S, NEW s \in Seq(S), NEW x \in S
  PROVE  Range(Append(s, x)) = Range(s) \cup {x}
<1>1. /\ Len(s) \in Nat
      /\ DOMAIN s = 1 .. Len(s)
      /\ DOMAIN Append(s, x) = 1 .. Len(s) + 1
  OBVIOUS
<1>2. /\ \A i \in 1 .. Len(s) : Append(s, x)[i] = s[i]
      /\ Append(s, x)[Len(s) + 1] = x
  BY AppendProperties
<1>3. 1 .. Len(s) + 1 = (1 .. Len(s)) \cup {Len(s) + 1}
  BY <1>1
<1> QED
  BY <1>1, <1>2, <1>3 DEF Range

LEMMA InsertStep ==
  ASSUME FulfilmentInv, NEW x \in inFlight, Insert(x)
  PROVE  FulfilmentInv'
<1>1. UNCHANGED <<offer, reservations, now, profile, payments, paidOrders,
                  tickets, bearer, cursor, crashes, pc, seen, batch, job,
                  carried>>
  BY DEF Insert, Financial!Record, reservationVars, world, ticketVars, drainVars
<1>2. Recorded \subseteq Recorded'
  BY DEF Insert, Financial!Record
<1>3. IInv' /\ offer' \in Offers
  BY <1>1, InventoryUntouched DEF reservationVars, FulfilmentInv
<1>4. x \in Result /\ results \in Seq(Result) /\ inFlight \subseteq Result
  BY DEF FulfilmentInv, SharedInv, SharedTypeOK
<1>5. inFlight' \subseteq inFlight /\ results' = Append(results, x)
  BY DEF Insert
<1>6. Range(results') = Range(results) \cup {x} /\ results' \in Seq(Result)
  BY <1>4, <1>5, AppendRange, AppendProperties
<1>7. SharedTypeOK'
  BY <1>1, <1>4, <1>5, <1>6 DEF FulfilmentInv, SharedInv, SharedTypeOK
<1>8. RefundsDated'
  BY <1>5, <1>6 DEF FulfilmentInv, SharedInv, RefundsDated
<1>9. ConfirmedMeansPaid'
  BY <1>1, <1>2 DEF FulfilmentInv, SharedInv, ConfirmedMeansPaid
<1>10. Grows
  BY <1>1, <1>2, <1>6 DEF Grows, WasConfirmed
<1> QED
  BY <1>1, <1>3, <1>7, <1>8, <1>9, <1>10, DrainsUntouched
  DEF FulfilmentInv, SharedInv

LEMMA ConfirmOrderStep ==
  ASSUME FulfilmentInv, NEW r \in Reservations, ConfirmOrder(r)
  PROVE  FulfilmentInv'
<1>1. UNCHANGED <<offer, reservations, now, profile, payments, inFlight,
                  results, tickets, bearer, cursor, crashes, pc, seen, batch,
                  job, carried>>
  BY DEF ConfirmOrder, reservationVars, world, ticketVars, drainVars
<1>2. Recorded' = Recorded
  BY <1>1 DEF Recorded
<1>3. IInv' /\ offer' \in Offers
  BY <1>1, InventoryUntouched DEF reservationVars, FulfilmentInv
<1>4. paidOrders' = paidOrders \cup {r}
  BY DEF ConfirmOrder
<1>5. SharedTypeOK'
  BY <1>1, <1>4 DEF FulfilmentInv, SharedInv, SharedTypeOK
<1>6. RefundsDated' /\ ConfirmedMeansPaid'
  BY <1>1, <1>2, <1>4
  DEF FulfilmentInv, SharedInv, RefundsDated, ConfirmedMeansPaid
<1>7. Grows
  BY <1>1, <1>2, <1>4 DEF Grows, WasConfirmed
<1> QED
  BY <1>1, <1>3, <1>5, <1>6, <1>7, DrainsUntouched
  DEF FulfilmentInv, SharedInv

-----------------------------------------------------------------------------
(* The drain, statement by statement *)

LEMMA CrashStep ==
  ASSUME FulfilmentInv, NEW p \in Processors, Crash(p)
  PROVE  FulfilmentInv'
<1>1. UNCHANGED <<offer, reservations, now, profile, payments, paidOrders,
                  inFlight, results, tickets, bearer, cursor>>
  BY DEF Crash, reservationVars, world, financialVars, ticketVars
<1>2. Recorded' = Recorded
  BY <1>1 DEF Recorded
<1>3. IInv' /\ offer' \in Offers
  BY <1>1, InventoryUntouched DEF reservationVars, FulfilmentInv
<1>4. crashes' \in 0 .. MaxCrashes
  BY LimitsAssumption DEF Crash, FulfilmentInv, SharedInv, SharedTypeOK
<1>5. SharedTypeOK'
  BY <1>1, <1>4 DEF FulfilmentInv, SharedInv, SharedTypeOK
<1>6. RefundsDated' /\ ConfirmedMeansPaid'
  BY <1>1, <1>2 DEF FulfilmentInv, SharedInv, RefundsDated, ConfirmedMeansPaid
<1>7. Grows
  BY <1>1, <1>2 DEF Grows, WasConfirmed
<1> QED
  BY <1>3, <1>5, <1>6, <1>7, FailKeeps DEF Crash, FulfilmentInv, SharedInv

LEMMA LoadStep ==
  ASSUME FulfilmentInv, NEW p \in Processors, Load(p)
  PROVE  FulfilmentInv'
<1>1. SharedInv' /\ Grows
  BY SharedUntouched DEF Load
<1>2. /\ pc' = [pc EXCEPT ![p] = "list"] /\ pc[p] = "idle"
      /\ seen' = [seen EXCEPT ![p] = cursor]
      /\ batch' = batch /\ job' = job /\ carried' = carried
  BY DEF Load
<1>3. DrainsTypeOK'
  BY <1>2
  DEF FulfilmentInv, SharedInv, SharedTypeOK, DrainsInv, DrainsTypeOK, Labels
<1>4. DrainInv(p)'
  BY <1>1, <1>2
  DEF FulfilmentInv, DrainsInv, DrainsTypeOK, DrainInv, Relies, Grows
<1>5. ASSUME NEW q \in Processors \ {p} PROVE DrainInv(q)'
  <2>1. Same(q)
    BY <1>2, <1>5 DEF FulfilmentInv, DrainsInv, DrainsTypeOK, Same
  <2> QED
    BY <1>1, <2>1, <1>5, DrainStable DEF FulfilmentInv
<1> QED
  BY <1>1, <1>3, <1>4, <1>5 DEF FulfilmentInv, DrainsInv

LEMMA ListStep ==
  ASSUME FulfilmentInv, NEW p \in Processors, List(p)
  PROVE  FulfilmentInv'
<1>1. SharedInv' /\ Grows
  BY SharedUntouched DEF List
<1>2. PICK b \in SUBSET Range(results) : Turn(p, b)
  BY DEF List
<1>3. carried' = carried /\ seen' \in [Processors -> CursorKey \cup {Null}]
  BY DEF List, FulfilmentInv, DrainsInv, DrainsTypeOK
<1> QED
  BY <1>1, <1>2, <1>3, TurnKeeps DEF FulfilmentInv

LEMMA SaveCursorStep ==
  ASSUME FulfilmentInv, NEW p \in Processors, SaveCursor(p)
  PROVE  FulfilmentInv'
<1>1. UNCHANGED <<offer, reservations, now, profile, payments, paidOrders,
                  inFlight, results, tickets, bearer, crashes, seen, carried>>
  BY DEF SaveCursor, reservationVars, world, financialVars, ticketVars
<1>2. Recorded' = Recorded
  BY <1>1 DEF Recorded
<1>3. IInv' /\ offer' \in Offers
  BY <1>1, InventoryUntouched DEF reservationVars, FulfilmentInv
<1>4. job[p] \in Result
  BY DEF SaveCursor, FulfilmentInv, DrainsInv, DrainsTypeOK
<1>5. Key(job[p]) \in CursorKey
  BY <1>4, ResultIdsAssumption, ClockAssumption DEF Key, CursorKey, Result
<1>6. cursor' \in CursorKey \cup {Null}
  BY <1>5 DEF SaveCursor, FulfilmentInv, SharedInv, SharedTypeOK
<1>7. SharedTypeOK'
  BY <1>1, <1>6 DEF FulfilmentInv, SharedInv, SharedTypeOK
<1>8. RefundsDated' /\ ConfirmedMeansPaid'
  BY <1>1, <1>2 DEF FulfilmentInv, SharedInv, RefundsDated, ConfirmedMeansPaid
<1>9. Grows
  BY <1>1, <1>2 DEF Grows, WasConfirmed
<1>10. batch[p] \ {job[p]} \in SUBSET Range(results)
  BY DEF FulfilmentInv, DrainsInv, DrainInv
<1>11. Turn(p, batch[p] \ {job[p]})
  BY DEF SaveCursor
<1>12. seen' \in [Processors -> CursorKey \cup {Null}]
  BY <1>1 DEF FulfilmentInv, DrainsInv, DrainsTypeOK
<1>13. DrainsInv'
  BY <1>1, <1>9, <1>10, <1>11, <1>12, TurnKeeps
<1> QED
  BY <1>3, <1>7, <1>8, <1>13 DEF FulfilmentInv, SharedInv

\* A test, which changes nothing shared, keeps the invariant if what the next
\* label relies on holds when the test succeeds.
LEMMA RequireKeeps ==
  ASSUME FulfilmentInv, UNCHANGED Data, NEW p \in Processors, job[p] # Null,
         NEW condition \in BOOLEAN, NEW label \in Labels \ {"idle", "list"},
         NEW value \in Clock \cup 0 .. MaxRenames \cup {Null},
         Require(p, condition, label, value),
         condition => Relies(label, job[p], value)
  PROVE  FulfilmentInv'
<1>1. SharedInv' /\ Grows
  BY SharedUntouched
<1>2. CASE condition
  <2>1. Goto(p, label, value) /\ Relies(label, job[p], value)
    BY <1>2 DEF Require
  <2>2. job[p] \in Result
    BY DEF FulfilmentInv, DrainsInv, DrainsTypeOK
  <2>3. job' = job
    BY <2>1 DEF Goto
  <2>4. Relies(label, job[p], value)'
    BY <1>1, <2>1, <2>2, <2>3 DEF Grows, Relies, Paid, Result
  <2> QED
    BY <1>1, <2>1, <2>4, GotoKeeps DEF FulfilmentInv
<1>3. CASE ~condition
  BY <1>1, <1>3, FailKeeps DEF Require, FulfilmentInv
<1> QED
  BY <1>2, <1>3

LEMMA TestStep ==
  ASSUME FulfilmentInv, NEW p \in Processors, job[p] # Null,
         NEW r, r = job[p].reservation,
         \/ Find(p, r) \/ Reread(p, r) \/ VerifyPayment(p, r)
         \/ VerifyOrder(p, r) \/ Issue(p, r) \/ FindTicket(p, r)
         \/ FindRefund(p, r)
  PROVE  FulfilmentInv'
<1> USE DEF Relies
<1>1. /\ job[p] \in Result /\ r \in Reservations
      /\ now \in Clock /\ profile \in 0 .. MaxRenames
      /\ carried[p] \in Clock \cup 0 .. MaxRenames \cup {Null}
      /\ Relies(pc[p], job[p], carried[p])
  BY DEF FulfilmentInv, SharedInv, SharedTypeOK, DrainsInv, DrainsTypeOK,
         DrainInv, Result
<1>2. CASE Find(p, r)
  <2>1. CASE reservations[r].status = "held"
    <3>1. Require(p, TRUE, "reread", now)
      BY <1>2, <2>1 DEF Find, Require
    <3> QED
      BY <1>1, <1>2, <3>1, RequireKeeps DEF Find, Labels
  <2>2. CASE reservations[r].status # "held"
    <3>1. reservations[r].status = "confirmed" => WasConfirmed(r)
      BY <1>1 DEF FulfilmentInv, SharedInv, IInv, RowsSound, Sound, Readable,
                  WasConfirmed
    <3>2. Require(p, reservations[r].status = "confirmed", "issue", Null)
      BY <1>2, <2>2 DEF Find
    <3> QED
      BY <1>2, <3>1, <3>2, RequireKeeps DEF Find, Labels
  <2> QED
    BY <2>1, <2>2
<1>3. CASE Reread(p, r)
  BY <1>1, <1>3, RequireKeeps DEF Reread, Labels
<1>4. CASE VerifyPayment(p, r)
  BY <1>1, <1>4, RequireKeeps DEF VerifyPayment, Labels
<1>5. CASE VerifyOrder(p, r)
  BY <1>1, <1>5, RequireKeeps DEF VerifyOrder, Labels, Paid
<1>6. CASE Issue(p, r)
  BY <1>1, <1>6, RequireKeeps DEF Issue, Labels
<1>7. CASE FindTicket(p, r)
  <2>1. CASE tickets[r] = "none"
    <3>1. Require(p, TRUE, "insert", carried[p])
      BY <1>7, <2>1 DEF FindTicket, Require
    <3> QED
      BY <1>1, <1>7, <3>1, RequireKeeps DEF FindTicket, Labels
  <2>2. CASE tickets[r] # "none"
    BY <1>7, <2>2, RequireKeeps DEF FindTicket, Labels
  <2> QED
    BY <2>1, <2>2
<1>8. CASE FindRefund(p, r)
  BY <1>1, <1>8, RequireKeeps DEF FindRefund, Labels
<1> QED
  BY <1>2, <1>3, <1>4, <1>5, <1>6, <1>7, <1>8

LEMMA ConfirmReservationStep ==
  ASSUME FulfilmentInv, NEW p \in Processors, job[p] # Null,
         NEW r, r = job[p].reservation, ConfirmReservation(p, r)
  PROVE  FulfilmentInv'
<1>1. /\ job[p] \in Result /\ r \in Reservations /\ pc[p] = "confirm"
      /\ carried[p] \in Clock /\ Paid(r)
  BY DEF FulfilmentInv, DrainsInv, DrainsTypeOK, DrainInv, Relies, Result,
         ConfirmReservation
<1>2. CASE Confirm(r, carried[p]) /\ Goto(p, "issue", Null)
  <2>1. UNCHANGED <<now, profile, payments, paidOrders, inFlight, results,
                    tickets, bearer, cursor, crashes>>
    BY DEF ConfirmReservation, world, financialVars, ticketVars
  <2>2. Recorded' = Recorded
    BY <2>1 DEF Recorded
  <2>3. /\ IInv' /\ offer' \in Offers
        /\ WasConfirmed(r)'
        /\ \A s \in Reservations \ {r} :
             reservations'[s].confirmedAt = reservations[s].confirmedAt
    BY <1>1, <1>2, ConfirmTouches, NextPreserves DEF FulfilmentInv, SharedInv
  <2>4. SharedTypeOK'
    BY <2>1 DEF FulfilmentInv, SharedInv, SharedTypeOK
  <2>5. RefundsDated'
    BY <2>1 DEF FulfilmentInv, SharedInv, RefundsDated
  <2>6. ConfirmedMeansPaid'
    BY <1>1, <2>1, <2>2, <2>3
    DEF FulfilmentInv, SharedInv, ConfirmedMeansPaid, Paid, WasConfirmed
  <2>7. Grows
    BY <2>1, <2>2, <2>3 DEF Grows, WasConfirmed
  <2>8. Relies("issue", job[p], Null)'
    <3>1. job' = job
      BY <1>2 DEF Goto
    <3> QED
      BY <2>3, <3>1 DEF Relies, WasConfirmed
  <2>9. DrainsInv'
    BY <1>2, <2>7, <2>8, GotoKeeps DEF Labels
  <2> QED
    BY <2>3, <2>4, <2>5, <2>6, <2>9 DEF FulfilmentInv, SharedInv
<1>3. CASE Fail(p) /\ UNCHANGED reservationVars
  <2>1. UNCHANGED Data
    BY <1>3 DEF ConfirmReservation, Data
  <2> QED
    BY <1>3, <2>1, SharedUntouched, FailKeeps DEF FulfilmentInv
<1> QED
  BY <1>2, <1>3 DEF ConfirmReservation

LEMMA InsertTicketStep ==
  ASSUME FulfilmentInv, NEW p \in Processors, job[p] # Null,
         NEW r, r = job[p].reservation, InsertTicket(p, r)
  PROVE  FulfilmentInv'
<1>1. /\ job[p] \in Result /\ r \in Reservations /\ pc[p] = "insert"
      /\ carried[p] \in 0 .. MaxRenames /\ WasConfirmed(r)
  BY DEF FulfilmentInv, DrainsInv, DrainsTypeOK, DrainInv, Relies, Result,
         InsertTicket
<1>2. CASE tickets[r] = "none"
  <2>1. UNCHANGED <<offer, reservations, now, profile, payments, paidOrders,
                    inFlight, results, cursor, crashes>>
    BY DEF InsertTicket, reservationVars, world, financialVars
  <2>2. Recorded' = Recorded
    BY <2>1 DEF Recorded
  <2>3. IInv' /\ offer' \in Offers
    BY <2>1, InventoryUntouched DEF reservationVars, FulfilmentInv
  <2>4. /\ tickets' = [tickets EXCEPT ![r] = "issued"]
        /\ bearer' = [bearer EXCEPT ![r] = carried[p]]
        /\ Goto(p, "save", Null) \/ Fail(p)
    BY <1>2 DEF InsertTicket
  <2>5. carried[p] # Null
    BY <1>1, ClockAssumption, LimitsAssumption
  <2>6. SharedTypeOK'
    BY <1>1, <2>1, <2>4, <2>5 DEF FulfilmentInv, SharedInv, SharedTypeOK
  <2>7. RefundsDated'
    BY <2>1 DEF FulfilmentInv, SharedInv, RefundsDated
  <2>8. ConfirmedMeansPaid'
    BY <1>1, <2>1, <2>2, <2>4
    DEF FulfilmentInv, SharedInv, SharedTypeOK, ConfirmedMeansPaid, WasConfirmed
  <2>9. Grows
    BY <2>1, <2>2 DEF Grows, WasConfirmed
  <2>10. Relies("save", job[p], Null)'
    BY DEF Relies
  <2>11. DrainsInv'
    BY <2>4, <2>9, <2>10, GotoKeeps, FailKeeps DEF Labels
  <2> QED
    BY <2>3, <2>6, <2>7, <2>8, <2>11 DEF FulfilmentInv, SharedInv
<1>3. CASE tickets[r] # "none"
  <2>1. UNCHANGED Data /\ (Goto(p, "save", Null) \/ Fail(p))
    BY <1>3 DEF InsertTicket, Data
  <2>2. Relies("save", job[p], Null)'
    BY DEF Relies
  <2> QED
    BY <2>1, <2>2, SharedUntouched, GotoKeeps, FailKeeps
    DEF FulfilmentInv, Labels
<1> QED
  BY <1>2, <1>3

LEMMA CancelRefundedStep ==
  ASSUME FulfilmentInv, NEW p \in Processors, job[p] # Null,
         NEW r, r = job[p].reservation, CancelRefunded(p, r)
  PROVE  FulfilmentInv'
<1>1. /\ job[p] \in Result /\ r \in Reservations /\ pc[p] = "cancel"
      /\ job[p].occurredAt \in Clock
  BY DEF FulfilmentInv, SharedInv, RefundsDated, Dated, DrainsInv, DrainsTypeOK,
         DrainInv, Relies, Result, CancelRefunded
<1>2. CASE CancelAfterRefund(r, job[p].occurredAt) /\ Goto(p, "save", Null)
           /\ tickets' = [tickets EXCEPT ![r] =
                IF @ = "none" THEN @ ELSE "cancelled"]
  <2>1. UNCHANGED <<now, profile, payments, paidOrders, inFlight, results,
                    bearer, cursor, crashes>>
    BY DEF CancelRefunded, world, financialVars
  <2>2. Recorded' = Recorded
    BY <2>1 DEF Recorded
  <2>3. /\ IInv' /\ offer' \in Offers
        /\ \A s \in Reservations :
             reservations'[s].confirmedAt = reservations[s].confirmedAt
    BY <1>1, <1>2, RefundTouchesNone, NextPreserves
    DEF FulfilmentInv, SharedInv
  <2>4. SharedTypeOK'
    BY <1>2, <2>1 DEF FulfilmentInv, SharedInv, SharedTypeOK
  <2>5. RefundsDated'
    BY <2>1 DEF FulfilmentInv, SharedInv, RefundsDated
  <2>6. ConfirmedMeansPaid'
    BY <1>2, <2>1, <2>2, <2>3
    DEF FulfilmentInv, SharedInv, SharedTypeOK, ConfirmedMeansPaid
  <2>7. Grows
    BY <2>1, <2>2, <2>3 DEF Grows, WasConfirmed
  <2>8. Relies("save", job[p], Null)'
    BY DEF Relies
  <2>9. DrainsInv'
    BY <1>2, <2>7, <2>8, GotoKeeps DEF Labels
  <2> QED
    BY <2>3, <2>4, <2>5, <2>6, <2>9 DEF FulfilmentInv, SharedInv
<1>3. CASE Fail(p) /\ UNCHANGED <<reservationVars, tickets>>
  <2>1. UNCHANGED Data
    BY <1>3 DEF CancelRefunded, Data, ticketVars
  <2> QED
    BY <1>3, <2>1, SharedUntouched, FailKeeps DEF FulfilmentInv
<1> QED
  BY <1>2, <1>3 DEF CancelRefunded

-----------------------------------------------------------------------------
(* The invariant *)

LEMMA FulfilmentInitInv == FulfilmentInit => FulfilmentInv
<1> SUFFICES ASSUME FulfilmentInit PROVE FulfilmentInv
  OBVIOUS
<1>1. IInv /\ offer \in Offers
  BY InitEstablishes DEF FulfilmentInit, Init
<1>2. SharedTypeOK
  BY LimitsAssumption, ClockAssumption
  DEF FulfilmentInit, SharedTypeOK, Financial!Statuses
<1>3. Range(results) = {}
  BY DEF FulfilmentInit, Range
<1>4. RefundsDated
  BY <1>3 DEF FulfilmentInit, RefundsDated
<1>5. ConfirmedMeansPaid
  BY DEF FulfilmentInit, Init, NoRow, ConfirmedMeansPaid
<1>6. DrainsTypeOK
  BY DEF FulfilmentInit, DrainsTypeOK, Labels
<1>7. ASSUME NEW p \in Processors PROVE DrainInv(p)
  BY <1>3, <1>7 DEF FulfilmentInit, DrainInv, Relies
<1> QED
  BY <1>1, <1>2, <1>4, <1>5, <1>6, <1>7
  DEF FulfilmentInv, SharedInv, DrainsInv

LEMMA StepKeeps ==
  ASSUME FulfilmentInv, NEW p \in Processors, Step(p)
  PROVE  FulfilmentInv'
<1>1. CASE job[p] # Null /\ Handle(p, job[p].reservation)
  BY <1>1, TestStep, ConfirmReservationStep, InsertTicketStep,
     CancelRefundedStep
  DEF Handle
<1> QED
  BY <1>1, ListStep, SaveCursorStep DEF Step

LEMMA FulfilmentNextInv ==
  FulfilmentInv /\ [FulfilmentNext]_fulfilmentVars => FulfilmentInv'
<1> SUFFICES ASSUME FulfilmentInv, [FulfilmentNext]_fulfilmentVars
             PROVE  FulfilmentInv'
  OBVIOUS
<1>1. CASE UNCHANGED fulfilmentVars
  <2>1. UNCHANGED Data /\ UNCHANGED <<pc, seen, batch, job, carried>>
    BY <1>1 DEF fulfilmentVars, Data, reservationVars, drainVars
  <2> QED
    BY <2>1, SharedUntouched, DrainsUntouched DEF FulfilmentInv
<1>2. CASE FulfilmentNext
  BY <1>2, TickStep, BuyersStep, CheckInStep, ConfirmOrderStep, DecideStep,
     StampStep, InsertStep, LoadStep, StepKeeps, CrashStep
  DEF FulfilmentNext
<1> QED
  BY <1>1, <1>2

\* The inductive invariant of the fulfilment, for any number of processors.
THEOREM FulfilmentInvariant == FulfilmentSpec => []FulfilmentInv
BY FulfilmentInitInv, FulfilmentNextInv, PTL DEF FulfilmentSpec

\* Tables, cursor and the locals of every drain keep their types.
THEOREM FulfilmentTypes == FulfilmentSpec => []FulfilmentTypeOK
<1>1. FulfilmentInv => FulfilmentTypeOK
  BY DEF FulfilmentInv, SharedInv, IInv, DrainsInv, FulfilmentTypeOK
<1> QED
  BY <1>1, FulfilmentInvariant, PTL

\* Nothing is confirmed or issued without a recorded approval and a confirmed
\* order, however many drains overlap and die.
THEOREM ConfirmedIsPaid == FulfilmentSpec => []ConfirmedMeansPaid
<1>1. FulfilmentInv => ConfirmedMeansPaid
  BY DEF FulfilmentInv, SharedInv
<1> QED
  BY <1>1, FulfilmentInvariant, PTL

-----------------------------------------------------------------------------
(* The cursor *)

\* Saving is the only step that changes the cursor, to the key of the result
\* in hand, and only if that lies behind it.
LEMMA SaveAdvances ==
  ASSUME FulfilmentInv, NEW p \in Processors, SaveCursor(p), cursor' # cursor
  PROVE  /\ cursor = Null \/ Before(cursor, cursor')
         /\ \E x \in Range(results) : cursor' = Key(x)
<1>1. cursor' = Key(job[p]) /\ ~Passed(job[p], cursor)
  BY DEF SaveCursor
<1>2. job[p] \in Range(results)
  BY DEF SaveCursor, FulfilmentInv, DrainsInv, DrainsTypeOK, DrainInv
<1> QED
  BY <1>1, <1>2 DEF Passed

LEMMA OnlySaveMovesCursor ==
  ASSUME FulfilmentNext, cursor' # cursor
  PROVE  \E p \in Processors : SaveCursor(p)
<1>1. ASSUME NEW p \in Processors, Step(p), ~SaveCursor(p)
      PROVE  UNCHANGED cursor
  BY <1>1
  DEF Step, Handle, Data, List, Find, Reread, VerifyPayment, VerifyOrder,
      ConfirmReservation, Issue, FindTicket, InsertTicket, FindRefund,
      CancelRefunded
<1>2. ASSUME NEW p \in Processors, Load(p) \/ Crash(p)
      PROVE  UNCHANGED cursor
  BY <1>2 DEF Load, Crash, Data
<1>3. Tick \/ Rename \/ Buyer => UNCHANGED cursor
  BY DEF Tick, Rename, Buyer
<1>4. ASSUME NEW r \in Reservations, NEW s \in Outcomes,
             Decide(r, s) \/ Stamp(r, s)
      PROVE  UNCHANGED cursor
  BY <1>4 DEF Decide, Stamp
<1>5. ASSUME NEW r \in Reservations, CheckIn(r) \/ ConfirmOrder(r)
      PROVE  UNCHANGED cursor
  BY <1>5 DEF CheckIn, ConfirmOrder
<1>6. ASSUME NEW x \in inFlight, Insert(x)
      PROVE  UNCHANGED cursor
  BY <1>6 DEF Insert
<1> QED
  BY <1>1, <1>2, <1>3, <1>4, <1>5, <1>6 DEF FulfilmentNext

\* The cursor never goes back, however many drains save it in whatever order.
THEOREM CursorOnlyAdvances == FulfilmentSpec => CursorForward
<1> DEFINE Advance ==
      cursor' # cursor =>
        /\ cursor = Null \/ Before(cursor, cursor')
        /\ \E x \in Range(results) : cursor' = Key(x)
<1>1. FulfilmentInv /\ [FulfilmentNext]_fulfilmentVars
        => [Advance]_fulfilmentVars
  BY OnlySaveMovesCursor, SaveAdvances
<1>2. FulfilmentSpec => [][Advance]_fulfilmentVars
  BY <1>1, FulfilmentInvariant, PTL DEF FulfilmentSpec
<1> QED
  BY <1>2 DEF CursorForward

-----------------------------------------------------------------------------
(* The reservations under the fulfilment *)

LEMMA HandleReservations ==
  ASSUME FulfilmentInv, NEW p \in Processors, job[p] # Null,
         Handle(p, job[p].reservation)
  PROVE  [Next]_reservationVars
<1> DEFINE r == job[p].reservation
<1>1. job[p] \in Result /\ r \in Reservations
  BY DEF FulfilmentInv, DrainsInv, DrainsTypeOK, Result
<1>2. CASE ConfirmReservation(p, r)
  <2>1. carried[p] \in Clock
    BY <1>2 DEF FulfilmentInv, DrainsInv, DrainInv, Relies, ConfirmReservation
  <2> QED
    BY <1>1, <1>2, <2>1, ConfirmTouches
    DEF ConfirmReservation, FulfilmentInv, SharedInv
<1>3. CASE CancelRefunded(p, r)
  <2>1. job[p].occurredAt \in Clock
    BY <1>3
    DEF FulfilmentInv, SharedInv, RefundsDated, Dated, DrainsInv, DrainInv,
        Relies, CancelRefunded
  <2> QED
    BY <1>1, <1>3, <2>1, RefundTouchesNone
    DEF CancelRefunded, FulfilmentInv, SharedInv
<1>4. CASE InsertTicket(p, r)
  BY <1>4 DEF InsertTicket
<1>5. CASE \/ Find(p, r) \/ Reread(p, r) \/ VerifyPayment(p, r)
           \/ VerifyOrder(p, r) \/ Issue(p, r) \/ FindTicket(p, r)
           \/ FindRefund(p, r)
  BY <1>5
  DEF Find, Reread, VerifyPayment, VerifyOrder, Issue, FindTicket, FindRefund,
      Data
<1> QED
  BY <1>2, <1>3, <1>4, <1>5 DEF Handle

LEMMA FulfilmentUses ==
  FulfilmentInv /\ [FulfilmentNext]_fulfilmentVars => [Next]_reservationVars
<1> SUFFICES ASSUME FulfilmentInv, [FulfilmentNext]_fulfilmentVars
             PROVE  [Next]_reservationVars
  OBVIOUS
<1>1. CASE UNCHANGED fulfilmentVars
  BY <1>1 DEF fulfilmentVars, reservationVars
<1>2. CASE Tick \/ Rename
  BY <1>2 DEF Tick, Rename
<1>3. CASE Buyer
  BY <1>3, BuyerStep DEF FulfilmentInv, SharedInv, SharedTypeOK
<1>4. ASSUME NEW r \in Reservations, NEW s \in Outcomes,
             Decide(r, s) \/ Stamp(r, s)
      PROVE  UNCHANGED reservationVars
  BY <1>4 DEF Decide, Stamp
<1>5. ASSUME NEW r \in Reservations, CheckIn(r) \/ ConfirmOrder(r)
      PROVE  UNCHANGED reservationVars
  BY <1>5 DEF CheckIn, ConfirmOrder
<1>6. ASSUME NEW x \in inFlight, Insert(x)
      PROVE  UNCHANGED reservationVars
  BY <1>6 DEF Insert
<1>7. ASSUME NEW p \in Processors,
             Load(p) \/ List(p) \/ SaveCursor(p) \/ Crash(p)
      PROVE  UNCHANGED reservationVars
  BY <1>7 DEF Load, List, SaveCursor, Crash, Data
<1> QED
  BY <1>1, <1>2, <1>3, <1>4, <1>5, <1>6, <1>7, HandleReservations
  DEF FulfilmentNext, Step

\* The fulfilment is a use of the reservations: each of its steps is one of
\* their transactions or leaves their tables alone.
THEOREM FulfilmentUsesReservations == FulfilmentSpec => Spec
<1>1. FulfilmentInit => Init
  BY DEF FulfilmentInit
<1> QED
  BY <1>1, FulfilmentUses, FulfilmentInvariant, PTL DEF FulfilmentSpec, Spec

\* So no number of drains, retries and deaths oversells the inventory.
THEOREM FulfilmentNeverOversells == FulfilmentSpec => []NoOversell
BY FulfilmentUsesReservations, InventoryNeverOversold, PTL

-----------------------------------------------------------------------------
(* The payments under the fulfilment *)

LEMMA FulfilmentMovesPayments ==
  FulfilmentInv /\ [FulfilmentNext]_fulfilmentVars
    => [Financial!AuthorityNext]_(Financial!authorityVars)
<1> SUFFICES ASSUME FulfilmentInv, [FulfilmentNext]_fulfilmentVars
             PROVE  [Financial!AuthorityNext]_(Financial!authorityVars)
  OBVIOUS
<1>1. ASSUME NEW r \in Reservations, NEW s \in Outcomes, Decide(r, s)
      PROVE  Financial!AuthorityNext
  BY <1>1, OutcomesAssumption DEF Decide, Financial!AuthorityNext
<1>2. ASSUME NEW x \in inFlight, Insert(x)
      PROVE  Financial!AuthorityNext
  <2>1. x.reservation \in Reservations /\ x.status \in Financial!Terminal
    BY OutcomesAssumption DEF FulfilmentInv, SharedInv, SharedTypeOK, Result
  <2> QED
    BY <1>2, <2>1 DEF Insert, Financial!AuthorityNext
<1>3. CASE UNCHANGED <<payments, results>>
  BY <1>3 DEF Financial!authorityVars, Recorded
<1>4. \/ UNCHANGED <<payments, results>>
      \/ \E r \in Reservations, s \in Outcomes : Decide(r, s)
      \/ \E x \in inFlight : Insert(x)
  BY DEF fulfilmentVars, FulfilmentNext, Tick, Rename, Buyer, ConfirmOrder,
         CheckIn, Stamp, Load, Step, Crash, List, SaveCursor, Handle, Find,
         Reread, VerifyPayment, VerifyOrder, ConfirmReservation, Issue,
         FindTicket, InsertTicket, FindRefund, CancelRefunded, Data,
         financialVars
<1> QED
  BY <1>1, <1>2, <1>3, <1>4

\* What ticketing sees of the payments is what Financial promises of them: the
\* other half of PipelineImplementsAuthority.
THEOREM FulfilmentUsesAuthority == FulfilmentSpec => Financial!AuthoritySpec
<1>1. FulfilmentInit => Financial!AuthorityInit
  BY DEF FulfilmentInit, Financial!AuthorityInit, Recorded, Range
<1> QED
  BY <1>1, FulfilmentMovesPayments, FulfilmentInvariant, PTL
  DEF FulfilmentSpec, Financial!AuthoritySpec

-----------------------------------------------------------------------------
(* The order of the feed *)

LEMMA KeyType ==
  ASSUME NEW x \in Result
  PROVE  Key(x) \in CursorKey
BY ResultIdsAssumption DEF Key, CursorKey, Result

LEMMA BeforeTotal ==
  ASSUME NEW k \in CursorKey, NEW l \in CursorKey
  PROVE  /\ Before(k, l) \/ Before(l, k) \/ k = l
         /\ ~(Before(k, l) /\ Before(l, k))
         /\ ~Before(k, k)
<1>1. /\ k.recordedAt \in Nat /\ k.resultId \in Nat
      /\ l.recordedAt \in Nat /\ l.resultId \in Nat
  BY ClockAssumption DEF CursorKey
<1>2. k.recordedAt = l.recordedAt /\ k.resultId = l.resultId => k = l
  BY DEF CursorKey
<1> QED
  BY <1>1, <1>2 DEF Before

LEMMA BeforeTransitive ==
  ASSUME NEW k \in CursorKey, NEW l \in CursorKey, NEW m \in CursorKey,
         Before(k, l), ~Before(m, l)
  PROVE  Before(k, m)
<1>1. /\ k.recordedAt \in Nat /\ k.resultId \in Nat
      /\ l.recordedAt \in Nat /\ l.resultId \in Nat
      /\ m.recordedAt \in Nat /\ m.resultId \in Nat
  BY ClockAssumption DEF CursorKey
<1> QED
  BY <1>1 DEF Before

\* Results of one key are results of one payment and status.
LEMMA SameKeyHandled ==
  ASSUME NEW x \in Result, NEW y \in Result, Key(x) = Key(y), Handled(x)
  PROVE  Handled(y)
<1>1. ResultIds[<<x.reservation, x.status>>]
        = ResultIds[<<y.reservation, y.status>>]
  BY DEF Key
<1>2. /\ <<x.reservation, x.status>> \in Reservations \X Outcomes
      /\ <<y.reservation, y.status>> \in Reservations \X Outcomes
  BY DEF Result
<1>3. <<x.reservation, x.status>> = <<y.reservation, y.status>>
  BY <1>1, <1>2, ResultIdsAssumption DEF IsInjective
<1> QED
  BY <1>3 DEF Handled

LEMMA ResultsFinite ==
  ASSUME results \in Seq(Result)
  PROVE  IsFiniteSet(Range(results)) /\ Range(results) \subseteq Result
<1>1. results \in Surjection(1 .. Len(results), Range(results))
  BY DEF Surjection, Range
<1>2. IsFiniteSet(1 .. Len(results))
  BY FS_Interval
<1> QED
  BY <1>1, <1>2, FS_Surjection DEF Range

-----------------------------------------------------------------------------
(* What was handled stays handled *)

\* The labels of the handling of an approval.
Approving ==
  {"find", "reread", "payment", "order", "confirm", "issue", "ticket", "insert"}

Done(i) == Handled(results[i])

\* A drain may take c for its cursor: what it skips was handled.
Vouched(c) ==
  c # Null =>
    /\ \E x \in Range(results) : c = Key(x) /\ Handled(x)
    /\ \A i \in DOMAIN results :
         OnTime(i) /\ Passed(results[i], c) => Done(i)

\* A page leaves nothing out that it goes past.
Complete(b) ==
  \A z \in b : \A i \in DOMAIN results :
    OnTime(i) /\ ~Before(Key(z), Key(results[i])) =>
      Done(i) \/ \E w \in b : Key(w) = Key(results[i])

TaskInv(p) ==
  /\ job[p] # Null => job[p] \in batch[p] /\ First(job[p], batch[p])
  /\ pc[p] \in Approving => job[p].status = "confirmed"
  /\ pc[p] = "save" => Handled(job[p])
  /\ Vouched(seen[p])
  /\ Complete(batch[p])

OrderInv == Vouched(cursor) /\ \A p \in Processors : TaskInv(p)

HandledStay == \A x \in Result : Handled(x) => Handled(x)'
FeedGrows ==
  results' = results \/ \E x \in Result : results' = Append(results, x)

LEMMA TicketsStay ==
  ASSUME FulfilmentInv, [FulfilmentNext]_fulfilmentVars,
         NEW r \in Reservations, tickets[r] # "none"
  PROVE  tickets'[r] # "none"
<1>1. CASE UNCHANGED tickets
  BY <1>1
<1>2. CASE tickets' # tickets
  <2>1. \/ \E s \in Reservations : CheckIn(s)
        \/ \E p \in Processors :
             /\ job[p] # Null
             /\ \/ InsertTicket(p, job[p].reservation)
                \/ CancelRefunded(p, job[p].reservation)
    BY <1>2
    DEF fulfilmentVars, FulfilmentNext, Tick, Rename, Buyer, ConfirmOrder,
        Decide, Stamp, Insert, Load, Step, Crash, List, SaveCursor, Handle,
        Find, Reread, VerifyPayment, VerifyOrder, ConfirmReservation, Issue,
        FindTicket, FindRefund, Data, ticketVars
  <2> QED
    BY <2>1
    DEF CheckIn, InsertTicket, CancelRefunded, ticketVars, FulfilmentInv,
        SharedInv, SharedTypeOK
<1> QED
  BY <1>1, <1>2

LEMMA HandledStays ==
  ASSUME FulfilmentInv, [FulfilmentNext]_fulfilmentVars
  PROVE  HandledStay
<1>1. IInv /\ IInv' /\ Forward
  BY FulfilmentUses, NextPreserves DEF FulfilmentInv, SharedInv
<1>2. ASSUME NEW x \in Result, Handled(x) PROVE Handled(x)'
  <2> DEFINE r == x.reservation
  <2>1. r \in Reservations
    BY DEF Result
  <2>2. reservations[r].confirmedAt # Null =>
          reservations'[r].confirmedAt # Null
    <3>1. /\ reservations[r] \in Row \cup {NoRow}
          /\ reservations'[r] \in Row \cup {NoRow}
      BY <1>1, <2>1 DEF IInv, TypeOK
    <3>2. reservations'[r].updatedAt # Null
      <4>1. CASE reservations'[r] \in Row
        <5>1. reservations'[r].updatedAt \in Clock
          BY <4>1 DEF Row
        <5> QED
          BY <5>1, ClockAssumption
      <4>2. CASE reservations'[r] = NoRow
        <5>1. reservations'[r].updatedAt = 0
          BY <4>2 DEF NoRow
        <5> QED
          BY <5>1, ClockAssumption
      <4> QED
        BY <3>1, <4>1, <4>2
    <3>3. reservations[r].status = "absent" =>
            reservations[r].confirmedAt = Null
      BY <3>1 DEF Row, NoRow, Statuses
    <3> QED
      BY <1>1, <2>1, <3>2, <3>3 DEF Forward, MayBecome
  <2>3. reservations[r].status = "cancelled" =>
          reservations'[r].status = "cancelled"
    BY <1>1, <2>1 DEF Forward, MayBecome, Live
  <2> QED
    BY <1>2, <2>1, <2>2, <2>3, TicketsStay DEF Handled
<1> QED
  BY <1>2 DEF HandledStay

LEMMA FeedOnlyGrows ==
  ASSUME FulfilmentInv, [FulfilmentNext]_fulfilmentVars
  PROVE  FeedGrows
<1>1. CASE \E x \in inFlight : Insert(x)
  BY <1>1 DEF Insert, FeedGrows, FulfilmentInv, SharedInv, SharedTypeOK
<1>2. CASE ~ \E x \in inFlight : Insert(x)
  <2>1. results' = results
    BY <1>2
    DEF fulfilmentVars, FulfilmentNext, Tick, Rename, Buyer, ConfirmOrder,
        CheckIn, Decide, Stamp, Load, Step, Crash, List, SaveCursor, Handle,
        Find, Reread, VerifyPayment, VerifyOrder, ConfirmReservation, Issue,
        FindTicket, InsertTicket, FindRefund, CancelRefunded, Data,
        financialVars
  <2> QED
    BY <2>1 DEF FeedGrows
<1> QED
  BY <1>1, <1>2

\* The results there are keep their places, and a new one that comes on time
\* comes after them all.
LEMMA FeedPlaces ==
  ASSUME results \in Seq(Result), FeedGrows, HandledStay
  PROVE  /\ \A i \in DOMAIN results :
              /\ i \in DOMAIN results' /\ results'[i] = results[i]
              /\ OnTime(i)' <=> OnTime(i)
              /\ Done(i) => Done(i)'
         /\ \A i \in DOMAIN results' :
              \/ i \in DOMAIN results
              \/ /\ results'[i] \in Result
                 /\ OnTime(i)' => \A y \in Range(results) :
                      ~Before(Key(results'[i]), Key(y))
                 /\ \A x \in Result :
                      x = results'[i] /\ Handled(x) => Done(i)'
<1>0. \A i \in DOMAIN results : results[i] \in Result
  OBVIOUS
<1>1. CASE results' = results
  BY <1>0, <1>1 DEF OnTime, HandledStay, Done, Handled
<1>2. ASSUME NEW x \in Result, results' = Append(results, x)
      PROVE  /\ \A i \in DOMAIN results :
                  /\ i \in DOMAIN results' /\ results'[i] = results[i]
                  /\ OnTime(i)' <=> OnTime(i)
                  /\ Done(i) => Done(i)'
             /\ \A i \in DOMAIN results' :
                  \/ i \in DOMAIN results
                  \/ /\ results'[i] \in Result
                     /\ OnTime(i)' => \A y \in Range(results) :
                          ~Before(Key(results'[i]), Key(y))
                     /\ \A z \in Result :
                          z = results'[i] /\ Handled(z) => Done(i)'
  <2>1. /\ Len(results) \in Nat
        /\ DOMAIN results = 1 .. Len(results)
        /\ DOMAIN results' = 1 .. Len(results) + 1
        /\ \A i \in 1 .. Len(results) : results'[i] = results[i]
        /\ results'[Len(results) + 1] = x
    BY <1>2, AppendProperties
  <2>2. ASSUME NEW i \in DOMAIN results
        PROVE  /\ i \in DOMAIN results' /\ results'[i] = results[i]
               /\ OnTime(i)' <=> OnTime(i)
               /\ Done(i) => Done(i)'
    <3>1. \A j \in 1 .. i - 1 : j \in 1 .. Len(results)
      BY <2>1
    <3>2. results'[i] = results[i]
      BY <2>1
    <3>3. Done(i) => Done(i)'
      BY <1>0, <3>2 DEF Done, HandledStay, Handled
    <3> QED
      BY <2>1, <3>1, <3>3 DEF OnTime
  <2>3. ASSUME NEW i \in DOMAIN results', i \notin DOMAIN results
        PROVE  /\ results'[i] \in Result
               /\ OnTime(i)' => \A y \in Range(results) :
                    ~Before(Key(results'[i]), Key(y))
               /\ \A z \in Result :
                    z = results'[i] /\ Handled(z) => Done(i)'
    <3>1. i = Len(results) + 1
      BY <2>1, <2>3
    <3>2. ASSUME OnTime(i)', NEW y \in Range(results)
          PROVE  ~Before(Key(results'[i]), Key(y))
      <4>1. PICK j \in 1 .. Len(results) : y = results[j]
        BY <2>1 DEF Range
      <4>2. j \in 1 .. i - 1 /\ results'[j] = y
        BY <2>1, <3>1, <4>1
      <4> QED
        BY <3>2, <4>2 DEF OnTime
    <3>3. Handled(x) => Done(i)'
      BY <2>1, <3>1 DEF Done, HandledStay, Handled
    <3> QED
      BY <2>1, <3>1, <3>2, <3>3
  <2> QED
    BY <2>2, <2>3
<1> QED
  BY <1>1, <1>2 DEF FeedGrows

LEMMA VouchedKept ==
  ASSUME FulfilmentInv, HandledStay, FeedGrows, NEW c, Vouched(c)
  PROVE  Vouched(c)'
<1>0. results \in Seq(Result) /\ Range(results) \subseteq Result
  BY DEF FulfilmentInv, SharedInv, SharedTypeOK, Range
<1>1. ASSUME c # Null PROVE \E x \in Range(results') : c = Key(x) /\ Handled(x)'
  <2>1. PICK y \in Range(results) : c = Key(y) /\ Handled(y)
    BY <1>1 DEF Vouched
  <2>2. y \in Range(results')
    BY <1>0, FeedPlaces DEF Range
  <2> QED
    BY <1>0, <2>1, <2>2 DEF HandledStay
<1>2. ASSUME c # Null, NEW i \in DOMAIN results', OnTime(i)',
             Passed(results'[i], c)
      PROVE  Done(i)'
  <2>1. CASE i \in DOMAIN results
    <3>1. results'[i] = results[i] /\ OnTime(i) /\ (Done(i) => Done(i)')
      BY <1>0, <1>2, <2>1, FeedPlaces
    <3> QED
      BY <1>2, <2>1, <3>1 DEF Vouched
  <2>2. CASE i \notin DOMAIN results
    <3>1. PICK y \in Range(results) : c = Key(y) /\ Handled(y)
      BY <1>2 DEF Vouched
    <3>2. PICK x \in Result : /\ x = results'[i] /\ ~Before(Key(x), Key(y))
                              /\ Handled(x) => Done(i)'
      BY <1>0, <1>2, <2>2, FeedPlaces
    <3>3. ~Before(Key(y), Key(x))
      BY <1>2, <3>1, <3>2 DEF Passed
    <3>4. Key(x) = Key(y)
      BY <1>0, <3>2, <3>3, KeyType, BeforeTotal
    <3> QED
      BY <1>0, <3>1, <3>2, <3>4, SameKeyHandled
  <2> QED
    BY <2>1, <2>2
<1> QED
  BY <1>1, <1>2 DEF Vouched, Passed

LEMMA CompleteKept ==
  ASSUME FulfilmentInv, HandledStay, FeedGrows,
         NEW b \in SUBSET Range(results), Complete(b)
  PROVE  Complete(b)'
<1>0. results \in Seq(Result) /\ Range(results) \subseteq Result
  BY DEF FulfilmentInv, SharedInv, SharedTypeOK, Range
<1>1. ASSUME NEW z \in b, NEW i \in DOMAIN results', OnTime(i)',
             ~Before(Key(z), Key(results'[i]))
      PROVE  Done(i)' \/ \E w \in b : Key(w) = Key(results'[i])
  <2>1. CASE i \in DOMAIN results
    <3>1. results'[i] = results[i] /\ OnTime(i) /\ (Done(i) => Done(i)')
      BY <1>0, <1>1, <2>1, FeedPlaces
    <3> QED
      BY <1>1, <2>1, <3>1 DEF Complete
  <2>2. CASE i \notin DOMAIN results
    <3>1. results'[i] \in Result /\ ~Before(Key(results'[i]), Key(z))
      BY <1>0, <1>1, <2>2, FeedPlaces
    <3>2. Key(z) = Key(results'[i])
      BY <1>0, <1>1, <3>1, KeyType, BeforeTotal
    <3> QED
      BY <3>2
  <2> QED
    BY <2>1, <2>2
<1> QED
  BY <1>1 DEF Complete, Key

LEMMA TaskUntouched ==
  ASSUME FulfilmentInv, HandledStay, FeedGrows, NEW p \in Processors,
         TaskInv(p), Same(p), seen'[p] = seen[p]
  PROVE  TaskInv(p)'
<1>1. Vouched(seen[p])' /\ Complete(batch[p])'
  <2>1. batch[p] \in SUBSET Range(results)
    BY DEF FulfilmentInv, DrainsInv, DrainInv
  <2>2. ASSUME NEW c, c = seen[p] PROVE Vouched(c)'
    BY <2>2, VouchedKept DEF TaskInv
  <2>3. ASSUME NEW b, b = batch[p] PROVE Complete(b)'
    BY <2>1, <2>3, CompleteKept DEF TaskInv
  <2> QED
    BY <2>2, <2>3 DEF Same, Vouched, Complete
<1>2. pc[p] = "save" => Handled(job[p])'
  <2>1. pc[p] = "save" => job[p] \in Result /\ Handled(job[p])
    BY DEF FulfilmentInv, DrainsInv, DrainsTypeOK, TaskInv
  <2> QED
    BY <2>1 DEF HandledStay, Same, Handled
<1> QED
  BY <1>1, <1>2 DEF TaskInv, Same, First, Key

\* The other drains, when one takes a step.
LEMMA OrderKept ==
  ASSUME FulfilmentInv, OrderInv, HandledStay, FeedGrows, Vouched(cursor)',
         NEW p \in Processors, TaskInv(p)',
         \A q \in Processors \ {p} : Same(q) /\ seen'[q] = seen[q]
  PROVE  OrderInv'
BY TaskUntouched DEF OrderInv

LEMMA CursorStays ==
  ASSUME FulfilmentInv, OrderInv, HandledStay, FeedGrows, cursor' = cursor
  PROVE  Vouched(cursor)'
<1>1. ASSUME NEW c, c = cursor PROVE Vouched(c)'
  BY <1>1, VouchedKept DEF OrderInv
<1> QED
  BY <1>1 DEF Vouched

LEMMA OrderByFail ==
  ASSUME FulfilmentInv, OrderInv, HandledStay, FeedGrows, cursor' = cursor,
         NEW p \in Processors, Fail(p)
  PROVE  OrderInv'
<1>1. \A q \in Processors \ {p} : Same(q) /\ seen'[q] = seen[q]
  BY DEF Fail, FulfilmentInv, DrainsInv, DrainsTypeOK, Same
<1>2. TaskInv(p)'
  BY DEF Fail, FulfilmentInv, DrainsInv, DrainsTypeOK, TaskInv, Approving,
         Vouched, Complete
<1> QED
  BY <1>1, <1>2, CursorStays, OrderKept

LEMMA OrderByGoto ==
  ASSUME FulfilmentInv, OrderInv, HandledStay, FeedGrows, cursor' = cursor,
         NEW p \in Processors, job[p] # Null, NEW label, NEW value,
         Goto(p, label, value),
         label \in Approving => job[p].status = "confirmed",
         label = "save" => Handled(job[p])'
  PROVE  OrderInv'
<1>1. /\ \A q \in Processors \ {p} : Same(q) /\ seen'[q] = seen[q]
      /\ pc'[p] = label /\ job'[p] = job[p] /\ batch'[p] = batch[p]
      /\ seen'[p] = seen[p]
  BY DEF Goto, FulfilmentInv, DrainsInv, DrainsTypeOK, Same
<1>2. Vouched(seen[p])' /\ Complete(batch[p])'
  <2>1. batch[p] \in SUBSET Range(results)
    BY DEF FulfilmentInv, DrainsInv, DrainInv
  <2>2. ASSUME NEW c, c = seen[p] PROVE Vouched(c)'
    BY <2>2, VouchedKept DEF OrderInv, TaskInv
  <2>3. ASSUME NEW b, b = batch[p] PROVE Complete(b)'
    BY <2>1, <2>3, CompleteKept DEF OrderInv, TaskInv
  <2> QED
    BY <1>1, <2>2, <2>3 DEF Vouched, Complete
<1>3. job[p] \in batch[p] /\ First(job[p], batch[p])
  BY DEF OrderInv, TaskInv
<1>4. TaskInv(p)'
  BY <1>1, <1>2, <1>3 DEF TaskInv, First, Key, Handled
<1> QED
  BY <1>1, <1>4, CursorStays, OrderKept

\* A drain turns to the first of the results it has to handle.
LEMMA OrderByTurn ==
  ASSUME FulfilmentInv, OrderInv, HandledStay, FeedGrows, Vouched(cursor)',
         NEW p \in Processors, NEW b, Turn(p, b),
         Vouched(seen[p])', Complete(b)',
         \A q \in Processors \ {p} : seen'[q] = seen[q],
         carried' = carried
  PROVE  OrderInv'
<1>1. \A q \in Processors \ {p} : Same(q)
  BY DEF Turn, FulfilmentInv, DrainsInv, DrainsTypeOK, Same
<1>2. batch'[p] = b
  BY DEF Turn, FulfilmentInv, DrainsInv, DrainsTypeOK
<1>3. Complete(batch[p])'
  BY <1>2 DEF Complete
<1>4. CASE b = {}
  <2>1. pc'[p] = "idle" /\ job'[p] = Null
    BY <1>4 DEF Turn, FulfilmentInv, DrainsInv, DrainsTypeOK
  <2>2. TaskInv(p)'
    BY <1>3, <2>1 DEF TaskInv, Approving
  <2> QED
    BY <1>1, <2>2, OrderKept
<1>5. CASE b # {}
  <2>1. PICK x \in b :
          First(x, b) /\ pc'[p] = Entry(x) /\ job'[p] = x
    BY <1>5 DEF Turn, FulfilmentInv, DrainsInv, DrainsTypeOK
  <2>2. Entry(x) \in Approving => x.status = "confirmed"
    BY DEF Entry, Approving
  <2>3. Entry(x) = "save" => Handled(x)'
    BY DEF Entry, Handled
  <2>4. job'[p] \in batch'[p] /\ First(job'[p], batch'[p])
    BY <1>2, <2>1
  <2>5. TaskInv(p)'
    BY <1>3, <2>1, <2>2, <2>3, <2>4 DEF TaskInv, First, Key, Handled
  <2> QED
    BY <1>1, <2>5, OrderKept
<1> QED
  BY <1>4, <1>5

-----------------------------------------------------------------------------
(* The page and the cursor *)

\* A page that starts behind a vouched cursor, taken in the order of the feed,
\* leaves nothing out.
LEMMA PageComplete ==
  ASSUME results \in Seq(Result), NEW c, Vouched(c),
         NEW after, after = {x \in Range(results) : ~Passed(x, c)}
  PROVE  Complete({x \in after :
           Cardinality({y \in after : Before(Key(y), Key(x))}) < Limit})
<1> DEFINE Earlier(x) == {y \in after : Before(Key(y), Key(x))}
           page == {x \in after : Cardinality(Earlier(x)) < Limit}
<1>1. /\ IsFiniteSet(Range(results)) /\ Range(results) \subseteq Result
      /\ Limit \in Nat
  BY ResultsFinite, LimitsAssumption
<1>2. ASSUME NEW z \in page, NEW i \in DOMAIN results, OnTime(i),
             ~Before(Key(z), Key(results[i]))
      PROVE  Done(i) \/ \E w \in page : Key(w) = Key(results[i])
  <2> DEFINE w == results[i]
  <2>1. w \in Range(results) /\ w \in Result /\ z \in Result /\ z \in after
    BY <1>1, <1>2 DEF Range
  <2>2. CASE Passed(w, c)
    BY <1>2, <2>2 DEF Vouched, Passed
  <2>3. CASE ~Passed(w, c)
    <3>1. w \in after
      BY <2>1, <2>3
    <3>2. Earlier(w) \in SUBSET Earlier(z)
      BY <1>1, <1>2, <2>1, KeyType, BeforeTransitive
    <3>3. Earlier(z) \in SUBSET Range(results)
      OBVIOUS
    <3>4. IsFiniteSet(Earlier(z)) /\ IsFiniteSet(Earlier(w))
      BY <1>1, <3>2, <3>3, FS_Subset
    <3>5. Cardinality(Earlier(w)) <= Cardinality(Earlier(z))
      BY <3>2, <3>4, FS_Subset
    <3>6. Cardinality(Earlier(w)) \in Nat /\ Cardinality(Earlier(z)) \in Nat
      BY <3>4, FS_CardinalityType
    <3>7. Cardinality(Earlier(z)) < Limit
      BY <1>2
    <3>8. Cardinality(Earlier(w)) < Limit
      <4> HIDE DEF Earlier
      <4> QED
        BY <1>1, <3>5, <3>6, <3>7
    <3> QED
      BY <3>1, <3>8
  <2> QED
    BY <2>2, <2>3
<1> QED
  BY <1>2 DEF Complete

LEMMA OrderByList ==
  ASSUME FulfilmentInv, OrderInv, HandledStay, FeedGrows,
         NEW p \in Processors, List(p)
  PROVE  OrderInv'
<1> DEFINE after == {x \in Range(results) : ~Passed(x, seen[p])}
           page == {x \in after :
             Cardinality({y \in after : Before(Key(y), Key(x))}) < Limit}
<1>1. /\ Turn(p, page) /\ carried' = carried /\ cursor' = cursor
      /\ seen' = [seen EXCEPT ![p] = Null]
  BY DEF List, Data
<1>2. PICK b : b = page
  OBVIOUS
<1>3. Complete(b)'
  <2>1. Complete(b)
    BY <1>2, PageComplete
    DEF FulfilmentInv, SharedInv, SharedTypeOK, OrderInv, TaskInv
  <2>2. b \in SUBSET Range(results)
    BY <1>2
  <2> QED
    BY <2>1, <2>2, CompleteKept
<1>4. /\ seen'[p] = Null
      /\ \A q \in Processors \ {p} : seen'[q] = seen[q]
  BY <1>1 DEF FulfilmentInv, DrainsInv, DrainsTypeOK
<1>5. Vouched(seen[p])'
  BY <1>4 DEF Vouched
<1>6. Turn(p, b)
  BY <1>1, <1>2
<1> HIDE DEF page
<1> QED
  BY <1>1, <1>3, <1>4, <1>5, <1>6, CursorStays, OrderByTurn

\* The key of the result in hand may be saved: whatever comes before it was
\* handled, and so was it.
LEMMA JobVouched ==
  ASSUME FulfilmentInv, NEW p \in Processors, TaskInv(p), pc[p] = "save"
  PROVE  /\ Vouched(Key(job[p]))
         /\ Complete(batch[p] \ {job[p]})
<1> DEFINE x == job[p]
<1>1. /\ x \in Result /\ x # Null
  BY DEF FulfilmentInv, DrainsInv, DrainsTypeOK
<1>2. /\ x \in batch[p] /\ First(x, batch[p]) /\ Handled(x)
      /\ x \in Range(results) /\ batch[p] \subseteq Range(results)
      /\ Complete(batch[p])
  BY <1>1 DEF TaskInv, FulfilmentInv, DrainsInv, DrainInv
<1>3. results \in Seq(Result) /\ Range(results) \subseteq Result
  BY DEF FulfilmentInv, SharedInv, SharedTypeOK, Range
<1>4. \A i \in DOMAIN results : results[i] \in Range(results)
  BY DEF Range
<1>5. ASSUME NEW i \in DOMAIN results, Key(x) = Key(results[i]) PROVE Done(i)
  BY <1>1, <1>2, <1>3, <1>4, <1>5, SameKeyHandled DEF Done
<1>6. ASSUME NEW i \in DOMAIN results, OnTime(i),
             ~Before(Key(x), Key(results[i]))
      PROVE  Done(i)
  <2>1. CASE Done(i)
    BY <2>1
  <2>2. CASE \E w \in batch[p] : Key(w) = Key(results[i])
    <3>1. PICK w \in batch[p] : Key(w) = Key(results[i])
      BY <2>2
    <3>2. w = x
      BY <1>2, <1>6, <3>1 DEF First
    <3> QED
      BY <1>5, <3>1, <3>2
  <2> QED
    BY <1>2, <1>6, <2>1, <2>2 DEF Complete
<1>7. Vouched(Key(x))
  BY <1>2, <1>6 DEF Vouched, Passed
<1>8. Complete(batch[p] \ {x})
  BY <1>2, <1>5 DEF Complete
<1> QED
  BY <1>7, <1>8

LEMMA OrderBySave ==
  ASSUME FulfilmentInv, OrderInv, HandledStay, FeedGrows,
         NEW p \in Processors, SaveCursor(p)
  PROVE  OrderInv'
<1>1. /\ pc[p] = "save" /\ TaskInv(p)
      /\ cursor' \in {cursor, Key(job[p])}
      /\ Turn(p, batch[p] \ {job[p]})
      /\ seen' = seen /\ carried' = carried
  BY DEF SaveCursor, OrderInv
<1>2. Vouched(Key(job[p])) /\ Complete(batch[p] \ {job[p]})
  BY <1>1, JobVouched
<1>3. Vouched(cursor)'
  <2>1. ASSUME NEW c, c = cursor' PROVE Vouched(c)'
    BY <1>1, <1>2, <2>1, VouchedKept DEF OrderInv
  <2> QED
    BY <2>1 DEF Vouched
<1>4. Vouched(seen[p])'
  <2>1. ASSUME NEW c, c = seen[p] PROVE Vouched(c)'
    BY <1>1, <2>1, VouchedKept DEF TaskInv
  <2> QED
    BY <1>1, <2>1 DEF Vouched
<1>5. ASSUME NEW b, b = batch[p] \ {job[p]} PROVE Complete(b)'
  <2>1. b \in SUBSET Range(results)
    BY <1>5 DEF FulfilmentInv, DrainsInv, DrainInv
  <2> QED
    BY <1>2, <1>5, <2>1, CompleteKept
<1> QED
  BY <1>1, <1>3, <1>4, <1>5, OrderByTurn

LEMMA OrderByLoad ==
  ASSUME FulfilmentInv, OrderInv, HandledStay, FeedGrows,
         NEW p \in Processors, Load(p)
  PROVE  OrderInv'
<1>1. /\ pc[p] = "idle" /\ pc' = [pc EXCEPT ![p] = "list"]
      /\ seen' = [seen EXCEPT ![p] = cursor] /\ cursor' = cursor
      /\ UNCHANGED <<batch, job, carried>>
  BY DEF Load, Data
<1>2. /\ \A q \in Processors \ {p} : Same(q) /\ seen'[q] = seen[q]
      /\ pc'[p] = "list" /\ job[p] = Null /\ job'[p] = Null
      /\ seen'[p] = cursor' /\ batch'[p] = batch[p]
  BY <1>1 DEF FulfilmentInv, DrainsInv, DrainsTypeOK, Same
<1>3. Vouched(cursor)'
  BY <1>1, CursorStays
<1>4. Complete(batch[p])'
  <2>1. ASSUME NEW b, b = batch[p] PROVE Complete(b)'
    BY <2>1, CompleteKept DEF OrderInv, TaskInv, FulfilmentInv, DrainsInv,
                              DrainInv
  <2> QED
    BY <1>2, <2>1 DEF Complete
<1>5. Vouched(seen[p])'
  BY <1>2, <1>3 DEF Vouched
<1>6. TaskInv(p)'
  BY <1>2, <1>4, <1>5 DEF TaskInv, Approving
<1> QED
  BY <1>2, <1>3, <1>6, OrderKept

LEMMA OrderByHandle ==
  ASSUME FulfilmentInv, OrderInv, HandledStay, FeedGrows,
         NEW p \in Processors, job[p] # Null,
         NEW r, r = job[p].reservation, Handle(p, r)
  PROVE  OrderInv'
<1>1. /\ job[p] \in Result /\ r \in Reservations /\ TaskInv(p)
      /\ Relies(pc[p], job[p], carried[p])
  BY DEF FulfilmentInv, DrainsInv, DrainsTypeOK, DrainInv, Result, OrderInv
<1>2. cursor' = cursor
  BY DEF Handle, Find, Reread, VerifyPayment, VerifyOrder, ConfirmReservation,
         Issue, FindTicket, InsertTicket, FindRefund, CancelRefunded, Data
<1>3. ASSUME NEW label, NEW value, Goto(p, label, value),
             label \in Approving => job[p].status = "confirmed",
             label = "save" => Handled(job[p]) \/ Handled(job[p])'
      PROVE  OrderInv'
  <2>1. job' = job
    BY <1>3 DEF Goto
  <2>2. Handled(job[p]) => Handled(job[p])'
    BY <1>1, <2>1 DEF HandledStay, Handled
  <2> QED
    BY <1>2, <1>3, <2>2, OrderByGoto
<1>4. CASE Fail(p)
  BY <1>2, <1>4, OrderByFail
<1>5. CASE ~Fail(p)
  <2>1. CASE \/ Find(p, r) \/ Reread(p, r) \/ VerifyPayment(p, r)
             \/ VerifyOrder(p, r) \/ Issue(p, r)
    <3>1. /\ pc[p] \in Approving
          /\ \E label, value :
               label # "save" /\ Goto(p, label, value)
      BY <1>5, <2>1
      DEF Find, Reread, VerifyPayment, VerifyOrder, Issue, Require, Approving
    <3> QED
      BY <1>1, <1>3, <3>1 DEF TaskInv, Approving
  <2>2. CASE ConfirmReservation(p, r)
    <3>1. pc[p] \in Approving /\ Goto(p, "issue", Null)
      BY <1>5, <2>2 DEF ConfirmReservation, Approving
    <3> QED
      BY <1>1, <1>3, <3>1 DEF TaskInv
  <2>3. CASE FindTicket(p, r)
    <3>1. /\ pc[p] = "ticket" /\ job[p].status = "confirmed"
          /\ WasConfirmed(r)
      BY <1>1, <2>3 DEF FindTicket, TaskInv, Approving, Relies
    <3>2. CASE Goto(p, "insert", carried[p])
      BY <1>3, <3>1, <3>2
    <3>3. CASE Goto(p, "save", Null) /\ tickets[r] # "none"
      <4>1. Handled(job[p])
        BY <3>1, <3>3 DEF Handled, WasConfirmed
      <4> QED
        BY <1>3, <3>1, <3>3, <4>1
    <3> QED
      BY <1>5, <2>3, <3>2, <3>3 DEF FindTicket, Require
  <2>4. CASE InsertTicket(p, r)
    <3>1. /\ pc[p] = "insert" /\ job[p].status = "confirmed"
          /\ WasConfirmed(r)
      BY <1>1, <2>4 DEF InsertTicket, TaskInv, Approving, Relies
    <3>2. /\ Goto(p, "save", Null) /\ reservations' = reservations
          /\ tickets'[r] # "none"
      BY <1>1, <1>5, <2>4
      DEF InsertTicket, reservationVars, ticketVars, FulfilmentInv, SharedInv,
          SharedTypeOK
    <3>3. job' = job
      BY <3>2 DEF Goto
    <3>4. Handled(job[p])'
      BY <3>1, <3>2, <3>3 DEF Handled, WasConfirmed
    <3> QED
      BY <1>3, <3>1, <3>2, <3>4
  <2>5. CASE FindRefund(p, r)
    <3>1. Goto(p, "cancel", Null)
      BY <1>5, <2>5 DEF FindRefund, Require
    <3> QED
      BY <1>3, <3>1 DEF Approving
  <2>6. CASE CancelRefunded(p, r)
    <3>1. job[p].status = "refunded"
      BY <1>1, <2>6 DEF CancelRefunded, Relies
    <3>2. Goto(p, "save", Null) /\ CancelAfterRefund(r, job[p].occurredAt)
      BY <1>5, <2>6 DEF CancelRefunded
    <3>3. reservations'[r].status = "cancelled"
      <4>1. reservations \in [Reservations -> Row \cup {NoRow}]
        BY DEF FulfilmentInv, SharedInv, IInv, TypeOK
      <4>2. Moved(reservations[r], "cancelled", job[p].occurredAt).status
              = "cancelled"
        BY <1>1, <4>1 DEF Moved, Row, NoRow
      <4> QED
        BY <1>1, <3>2, <4>1, <4>2 DEF CancelAfterRefund
    <3>4. job' = job
      BY <3>2 DEF Goto
    <3>5. Handled(job[p])'
      BY <3>1, <3>3, <3>4 DEF Handled
    <3> QED
      BY <1>3, <3>2, <3>5 DEF Approving
  <2> QED
    BY <2>1, <2>2, <2>3, <2>4, <2>5, <2>6 DEF Handle
<1> QED
  BY <1>4, <1>5

LEMMA OrderNext ==
  FulfilmentInv /\ OrderInv /\ [FulfilmentNext]_fulfilmentVars => OrderInv'
<1> SUFFICES ASSUME FulfilmentInv, OrderInv, [FulfilmentNext]_fulfilmentVars
             PROVE  OrderInv'
  OBVIOUS
<1>1. HandledStay /\ FeedGrows
  BY HandledStays, FeedOnlyGrows
<1>2. CASE UNCHANGED <<cursor, pc, seen, batch, job, carried>>
  <2>1. Vouched(cursor)'
    BY <1>1, <1>2, CursorStays
  <2> QED
    BY <1>1, <1>2, <2>1, TaskUntouched DEF OrderInv, Same
<1>3. ASSUME NEW p \in Processors, Load(p) PROVE OrderInv'
  BY <1>1, <1>3, OrderByLoad
<1>4. ASSUME NEW p \in Processors, Step(p) PROVE OrderInv'
  BY <1>1, <1>4, OrderByList, OrderBySave, OrderByHandle DEF Step
<1>5. ASSUME NEW p \in Processors, Crash(p) PROVE OrderInv'
  BY <1>1, <1>5, OrderByFail DEF Crash
<1>6. ASSUME NEW r \in Reservations, NEW s \in Outcomes,
             Decide(r, s) \/ Stamp(r, s)
      PROVE  UNCHANGED <<cursor, pc, seen, batch, job, carried>>
  BY <1>6 DEF Decide, Stamp, drainVars
<1>7. ASSUME NEW r \in Reservations, CheckIn(r) \/ ConfirmOrder(r)
      PROVE  UNCHANGED <<cursor, pc, seen, batch, job, carried>>
  BY <1>7 DEF CheckIn, ConfirmOrder, drainVars
<1>8. ASSUME NEW x \in inFlight, Insert(x)
      PROVE  UNCHANGED <<cursor, pc, seen, batch, job, carried>>
  BY <1>8 DEF Insert, drainVars
<1>9. Tick \/ Rename \/ Buyer \/ UNCHANGED fulfilmentVars
        => UNCHANGED <<cursor, pc, seen, batch, job, carried>>
  BY DEF Tick, Rename, Buyer, fulfilmentVars, drainVars
<1> QED
  BY <1>2, <1>3, <1>4, <1>5, <1>6, <1>7, <1>8, <1>9 DEF FulfilmentNext

\* A result that came into the feed in its order is never skipped, however
\* many drains read it and die: once the cursor is past it, its reservation was
\* confirmed and has its ticket, or was cancelled.
THEOREM NothingInOrderSkipped == FulfilmentSpec => []InOrderResultsHandled
<1>1. FulfilmentInit => OrderInv
  BY DEF FulfilmentInit, OrderInv, Vouched, TaskInv, Complete, Approving
<1>2. FulfilmentInv /\ OrderInv /\ [FulfilmentNext]_fulfilmentVars => OrderInv'
  BY OrderNext
<1>3. OrderInv => InOrderResultsHandled
  BY DEF OrderInv, Vouched, InOrderResultsHandled, Passed, Done
<1> QED
  BY <1>1, <1>2, <1>3, FulfilmentInvariant, PTL DEF FulfilmentSpec

-----------------------------------------------------------------------------
(* Tickets on reservations that still take their units *)

\* Labels from which a ticket may be issued without another look at the
\* reservation.
Issuing == {"issue", "ticket", "insert"}
ToBeIssued(p) ==
  pc[p] \in Issuing => reservations[job[p].reservation].status = "confirmed"

BackedInv == UsableTicketBacked /\ \A p \in Processors : ToBeIssued(p)

\* No reservation loses its confirmation.
ConfirmedStay ==
  \A r \in Reservations :
    reservations[r].status = "confirmed" =>
      reservations'[r].status = "confirmed"

\* No ticket becomes usable, or only one that is backed.
UsableGain ==
  \A r \in Reservations :
    tickets'[r] \in Usable =>
      tickets[r] \in Usable \/ reservations'[r].status = "confirmed"

\* No drain comes closer to issuing, or only for what is confirmed.
IssuingGain(p) ==
  pc'[p] \in Issuing =>
    \/ pc[p] \in Issuing /\ job'[p] = job[p]
    \/ reservations'[job'[p].reservation].status = "confirmed"

LEMMA BackedKept ==
  ASSUME FulfilmentInv, BackedInv, ConfirmedStay, UsableGain,
         \A p \in Processors : IssuingGain(p)
  PROVE  BackedInv'
<1>1. UsableTicketBacked'
  BY DEF BackedInv, UsableTicketBacked, ConfirmedStay, UsableGain
<1>2. ASSUME NEW p \in Processors PROVE ToBeIssued(p)'
  <2>1. pc[p] \in Issuing => job[p].reservation \in Reservations
    BY DEF FulfilmentInv, DrainsInv, DrainsTypeOK, Issuing, Result
  <2> QED
    BY <1>2, <2>1 DEF BackedInv, ToBeIssued, IssuingGain, ConfirmedStay
<1> QED
  BY <1>1, <1>2 DEF BackedInv

\* The buyers' transactions end holds, never a confirmation.
LEMMA BuyerConfirmedStay ==
  ASSUME IInv, now \in Clock, Buyer
  PROVE  ConfirmedStay
<1>0. Swept(now) \in [Reservations -> Row \cup {NoRow}]
  BY SweepMoves DEF Moves, Table
<1>1. \A r \in Reservations : reservations[r].status = "confirmed" =>
        Swept(now)[r].status = "confirmed"
  BY DEF Swept, IsStale
<1>2. CASE reservations' = Swept(now)
  BY <1>1, <1>2 DEF ConfirmedStay
<1>3. CASE reservations' # Swept(now)
  <2>1. PICK r \in Reservations : \E row :
          /\ Swept(now)[r].status \in {"absent", "held"}
          /\ reservations' = [Swept(now) EXCEPT ![r] = row]
    BY <1>3 DEF Buyer, Availability, Hold, CancelHold
  <2> QED
    BY <1>0, <1>1, <2>1 DEF ConfirmedStay
<1> QED
  BY <1>2, <1>3

LEMMA ConfirmConfirmedStay ==
  ASSUME IInv, NEW at \in Clock, NEW r \in Reservations, Confirm(r, at)
  PROVE  ConfirmedStay /\ reservations'[r].status = "confirmed"
<1>0. Swept(at) \in [Reservations -> Row \cup {NoRow}]
  BY SweepMoves DEF Moves, Table
<1>1. \A s \in Reservations : reservations[s].status = "confirmed" =>
        Swept(at)[s].status = "confirmed"
  BY DEF Swept, IsStale
<1>2. CASE /\ Swept(at)[r].status = "confirmed"
           /\ reservations' = Swept(at)
  BY <1>1, <1>2 DEF ConfirmedStay
<1>3. CASE /\ Swept(at)[r].status = "held"
           /\ reservations' = [Swept(at) EXCEPT ![r] =
                [Moved(Swept(at)[r], "confirmed", at)
                   EXCEPT !.confirmedAt = at]]
  <2>1. Swept(at)[r] \in Row
    BY <1>0, <1>3 DEF NoRow
  <2>2. [Moved(Swept(at)[r], "confirmed", at) EXCEPT !.confirmedAt = at].status
          = "confirmed"
    BY <2>1 DEF Moved, Row
  <2> QED
    BY <1>0, <1>1, <1>3, <2>2 DEF ConfirmedStay
<1> QED
  BY <1>2, <1>3 DEF Confirm

\* A step that touches neither reservations nor tickets.
LEMMA BackedUntouched ==
  ASSUME FulfilmentInv, BackedInv, UNCHANGED <<reservations, tickets>>,
         \A p \in Processors : IssuingGain(p)
  PROVE  BackedInv'
BY BackedKept DEF ConfirmedStay, UsableGain

\* The steps of everybody but the drains.
LEMMA BackedByOthers ==
  ASSUME FulfilmentInv, BackedInv,
         \/ Tick \/ Rename \/ Buyer
         \/ \E r \in Reservations :
              \/ CheckIn(r) \/ ConfirmOrder(r)
              \/ \E s \in Outcomes : Decide(r, s) \/ Stamp(r, s)
         \/ \E x \in inFlight : Insert(x)
  PROVE  BackedInv'
<1>1. ASSUME UNCHANGED <<pc, job>> PROVE \A p \in Processors : IssuingGain(p)
  BY <1>1 DEF IssuingGain
<1>2. CASE Buyer
  <2>1. ConfirmedStay
    BY <1>2, BuyerConfirmedStay DEF FulfilmentInv, SharedInv, SharedTypeOK
  <2>2. UNCHANGED <<pc, job, tickets>>
    BY <1>2 DEF Buyer, ticketVars, drainVars
  <2> QED
    BY <1>1, <2>1, <2>2, BackedKept DEF UsableGain
<1>3. ASSUME NEW r \in Reservations, CheckIn(r) PROVE BackedInv'
  <2>1. UNCHANGED <<pc, job, reservations>>
    BY <1>3 DEF CheckIn, reservationVars, drainVars
  <2>2. UsableGain
    BY <1>3 DEF CheckIn, UsableGain, Usable, FulfilmentInv, SharedInv,
                SharedTypeOK
  <2> QED
    BY <1>1, <2>1, <2>2, BackedKept DEF ConfirmedStay
<1>4. CASE UNCHANGED <<pc, job, reservations, tickets>>
  BY <1>1, <1>4, BackedUntouched
<1>5. ASSUME NEW r \in Reservations, NEW s \in Outcomes,
             Decide(r, s) \/ Stamp(r, s)
      PROVE  UNCHANGED <<pc, job, reservations, tickets>>
  BY <1>5 DEF Decide, Stamp, reservationVars, ticketVars, drainVars
<1>6. ASSUME NEW r \in Reservations, ConfirmOrder(r)
      PROVE  UNCHANGED <<pc, job, reservations, tickets>>
  BY <1>6 DEF ConfirmOrder, reservationVars, ticketVars, drainVars
<1>7. ASSUME NEW x \in inFlight, Insert(x)
      PROVE  UNCHANGED <<pc, job, reservations, tickets>>
  BY <1>7 DEF Insert, reservationVars, ticketVars, drainVars
<1>8. Tick \/ Rename => UNCHANGED <<pc, job, reservations, tickets>>
  BY DEF Tick, Rename, reservationVars, ticketVars, drainVars
<1> QED
  BY <1>2, <1>3, <1>4, <1>5, <1>6, <1>7, <1>8

\* A drain fails, or goes on with a label.
LEMMA FailIssuing ==
  ASSUME FulfilmentInv, NEW p \in Processors, Fail(p)
  PROVE  \A q \in Processors : IssuingGain(q)
BY DEF FulfilmentInv, DrainsInv, DrainsTypeOK, Fail, IssuingGain, Issuing

LEMMA GotoIssuing ==
  ASSUME FulfilmentInv, NEW p \in Processors, NEW label, NEW value,
         Goto(p, label, value),
         label \in Issuing =>
           \/ pc[p] \in Issuing
           \/ reservations'[job[p].reservation].status = "confirmed"
  PROVE  \A q \in Processors : IssuingGain(q)
BY DEF FulfilmentInv, DrainsInv, DrainsTypeOK, Goto, IssuingGain

LEMMA TurnIssuing ==
  ASSUME FulfilmentInv, NEW p \in Processors, NEW b, Turn(p, b)
  PROVE  \A q \in Processors : IssuingGain(q)
<1>1. \E label \in {"idle", "find", "refund", "save"} : \E x :
        pc' = [pc EXCEPT ![p] = label] /\ job' = [job EXCEPT ![p] = x]
  BY DEF Turn, Entry
<1> QED
  BY <1>1 DEF FulfilmentInv, DrainsInv, DrainsTypeOK, IssuingGain, Issuing

LEMMA BackedByHandle ==
  ASSUME FulfilmentInv, BackedInv, NEW p \in Processors, job[p] # Null,
         NEW r, r = job[p].reservation, Handle(p, r), ~CancelRefunded(p, r)
  PROVE  BackedInv'
<1>1. job[p] \in Result /\ r \in Reservations
  BY DEF FulfilmentInv, DrainsInv, DrainsTypeOK, Result
<1>2. CASE ConfirmReservation(p, r)
  <2>1. tickets' = tickets
    BY <1>2 DEF ConfirmReservation, ticketVars
  <2>2. CASE Confirm(r, carried[p]) /\ Goto(p, "issue", Null)
    <3>1. carried[p] \in Clock
      BY <1>2 DEF FulfilmentInv, DrainsInv, DrainInv, Relies, ConfirmReservation
    <3>2. ConfirmedStay /\ reservations'[r].status = "confirmed"
      BY <1>1, <2>2, <3>1, ConfirmConfirmedStay DEF FulfilmentInv, SharedInv
    <3>3. \A q \in Processors : IssuingGain(q)
      BY <2>2, <3>2, GotoIssuing
    <3> QED
      BY <2>1, <3>2, <3>3, BackedKept DEF UsableGain
  <2>3. CASE Fail(p) /\ UNCHANGED reservationVars
    BY <2>1, <2>3, FailIssuing, BackedUntouched DEF reservationVars
  <2> QED
    BY <1>2, <2>2, <2>3 DEF ConfirmReservation
<1>3. CASE InsertTicket(p, r)
  <2>1. /\ UNCHANGED reservations /\ pc[p] = "insert"
        /\ Goto(p, "save", Null) \/ Fail(p)
        /\ \/ tickets' = [tickets EXCEPT ![r] = "issued"]
           \/ tickets' = tickets
    BY <1>3 DEF InsertTicket, reservationVars, ticketVars
  <2>2. reservations[r].status = "confirmed"
    BY <2>1 DEF BackedInv, ToBeIssued, Issuing
  <2>3. UsableGain
    BY <1>1, <2>1, <2>2
    DEF UsableGain, FulfilmentInv, SharedInv, SharedTypeOK
  <2>4. \A q \in Processors : IssuingGain(q)
    BY <2>1, GotoIssuing, FailIssuing DEF Issuing
  <2> QED
    BY <2>1, <2>3, <2>4, BackedKept DEF ConfirmedStay
<1>4. CASE \/ Find(p, r) \/ Reread(p, r) \/ VerifyPayment(p, r)
           \/ VerifyOrder(p, r) \/ Issue(p, r) \/ FindTicket(p, r)
           \/ FindRefund(p, r)
  <2>1. UNCHANGED <<reservations, tickets>>
    BY <1>4
    DEF Find, Reread, VerifyPayment, VerifyOrder, Issue, FindTicket,
        FindRefund, Data, reservationVars, ticketVars
  <2>2. Fail(p) \/ \E label, value :
          /\ Goto(p, label, value)
          /\ label \in Issuing =>
               \/ pc[p] \in Issuing
               \/ reservations'[job[p].reservation].status = "confirmed"
    BY <1>4, <2>1
    DEF Find, Reread, VerifyPayment, VerifyOrder, Issue, FindTicket,
        FindRefund, Require, Issuing
  <2> QED
    BY <2>1, <2>2, FailIssuing, GotoIssuing, BackedUntouched
<1> QED
  BY <1>2, <1>3, <1>4 DEF Handle

\* A refund cancels the ticket with the reservation, and the only drain there
\* is has no ticket to issue meanwhile.
LEMMA BackedByRefund ==
  ASSUME FulfilmentInv, BackedInv, \A p, q \in Processors : p = q,
         NEW p \in Processors, job[p] # Null,
         NEW r, r = job[p].reservation, CancelRefunded(p, r)
  PROVE  BackedInv'
<1>1. job[p] \in Result /\ r \in Reservations
  BY DEF FulfilmentInv, DrainsInv, DrainsTypeOK, Result
<1>2. CASE Fail(p) /\ UNCHANGED <<reservationVars, tickets>>
  BY <1>2, FailIssuing, BackedUntouched DEF reservationVars
<1>3. CASE /\ CancelAfterRefund(r, job[p].occurredAt) /\ Goto(p, "save", Null)
           /\ tickets' = [tickets EXCEPT ![r] =
                IF @ = "none" THEN @ ELSE "cancelled"]
  <2>1. \A s \in Reservations \ {r} : reservations'[s] = reservations[s]
    BY <1>3 DEF CancelAfterRefund, FulfilmentInv, SharedInv, IInv, TypeOK
  <2>2. UsableTicketBacked'
    BY <1>1, <1>3, <2>1
    DEF BackedInv, UsableTicketBacked, Usable, FulfilmentInv, SharedInv,
        SharedTypeOK
  <2>3. \A q \in Processors : pc'[q] = "save"
    BY <1>3 DEF Goto, FulfilmentInv, DrainsInv, DrainsTypeOK
  <2> QED
    BY <2>2, <2>3 DEF BackedInv, ToBeIssued, Issuing
<1> QED
  BY <1>2, <1>3 DEF CancelRefunded

LEMMA BackedNext ==
  (\A p, q \in Processors : p = q) /\ FulfilmentInv /\ BackedInv
    /\ [FulfilmentNext]_fulfilmentVars => BackedInv'
<1> SUFFICES ASSUME \A p, q \in Processors : p = q, FulfilmentInv, BackedInv,
                    [FulfilmentNext]_fulfilmentVars
             PROVE  BackedInv'
  OBVIOUS
<1>1. CASE UNCHANGED fulfilmentVars
  <2>1. UNCHANGED <<reservations, tickets, pc, job>>
    BY <1>1 DEF fulfilmentVars, ticketVars, drainVars
  <2> QED
    BY <2>1, BackedUntouched DEF IssuingGain
<1>2. ASSUME NEW p \in Processors, Load(p) \/ Crash(p) PROVE BackedInv'
  <2>1. UNCHANGED <<reservations, tickets>>
    BY <1>2 DEF Load, Crash, Data, reservationVars, ticketVars
  <2>2. \A q \in Processors : IssuingGain(q)
    <3>1. CASE Load(p)
      BY <3>1 DEF Load, IssuingGain, Issuing, FulfilmentInv, DrainsInv,
                  DrainsTypeOK
    <3> QED
      BY <1>2, <3>1, FailIssuing DEF Crash
  <2> QED
    BY <2>1, <2>2, BackedUntouched
<1>3. ASSUME NEW p \in Processors, List(p) \/ SaveCursor(p) PROVE BackedInv'
  <2>1. UNCHANGED <<reservations, tickets>>
    BY <1>3 DEF List, SaveCursor, Data, reservationVars, ticketVars
  <2>2. \E b : Turn(p, b)
    BY <1>3 DEF List, SaveCursor
  <2> QED
    BY <2>1, <2>2, TurnIssuing, BackedUntouched
<1>4. ASSUME NEW p \in Processors, Step(p) PROVE BackedInv'
  BY <1>3, <1>4, BackedByHandle, BackedByRefund DEF Step
<1> QED
  BY <1>1, <1>2, <1>4, BackedByOthers DEF FulfilmentNext

\* When one drain runs at a time, which the flag `processing` of a process
\* sees to, the gate never admits a ticket whose units were given back.
THEOREM TicketsAreBacked ==
  ASSUME \A p, q \in Processors : p = q
  PROVE  FulfilmentSpec => []UsableTicketBacked
<1>1. FulfilmentInit => BackedInv
  BY DEF FulfilmentInit, BackedInv, UsableTicketBacked, Usable, ToBeIssued,
         Issuing
<1>2. FulfilmentInv /\ BackedInv /\ [FulfilmentNext]_fulfilmentVars
        => BackedInv'
  BY BackedNext
<1>3. BackedInv => UsableTicketBacked
  BY DEF BackedInv
<1> QED
  BY <1>1, <1>2, <1>3, FulfilmentInvariant, PTL DEF FulfilmentSpec
=============================================================================
