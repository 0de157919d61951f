-------------------------- MODULE TicketFulfilment --------------------------
(***************************************************************************)
(* From a recorded payment result to a ticket, and back after a refund.    *)
(* Financial decides payments and records their results, each stamped with *)
(* a time before it is inserted.  Ticketing's processors read the results  *)
(* behind a durable cursor over (recordedAt, resultId): an approval        *)
(* confirms the reservation and issues its ticket, a refund cancels both.  *)
(* The cursor is saved after each result that was handled, and a handler   *)
(* that throws ends the drain, which starts over from the cursor.          *)
(*                                                                         *)
(* A reservation has one order and one payment, and stands for them.  One  *)
(* buyer holds all reservations.  All clocks read the same time here:      *)
(* TicketReservations treats skew.                                         *)
(***************************************************************************)
EXTENDS TicketReservations, Sequences, Functions

CONSTANTS
  Processors,  \* drains that may run at once, one per Node process
  Outcomes,    \* the final statuses a payment may take
  ResultIds,   \* the result id of each payment and outcome
  Limit,       \* results in a page of the feed
  MaxRenames,  \* changes of the holder's name
  MaxCrashes   \* failures of a drain not caused by what it reads

VARIABLES
  now,         \* the time all clocks read
  profile,     \* the name in the holder's profile, a number for each name
  payments,    \* the status of a reservation's payment
  paidOrders,  \* reservations whose order is payment_confirmed
  inFlight,    \* results stamped and not yet inserted
  results,     \* financial_payment_results, in the order of insertion
  tickets,     \* the status of a reservation's ticket
  bearer,      \* the name on it
  cursor,      \* ticketing_financial_result_cursor
  pc,          \* what a processor does next
  seen,        \* the cursor its drain has loaded
  batch,       \* the results its drain has still to handle
  job,         \* the one it handles
  carried,     \* what it read and uses later: a time, then a name
  crashes

world == <<now, profile>>
financialVars == <<payments, paidOrders, inFlight, results>>
ticketVars == <<tickets, bearer>>
drainVars == <<pc, seen, batch, job, carried, crashes>>
fulfilmentVars ==
  <<offer, reservations, world, financialVars, ticketVars, cursor, drainVars>>

ASSUME ResultIdsAssumption ==
  /\ ResultIds \in [Reservations \X Outcomes -> Nat]
  /\ IsInjective(ResultIds)
ASSUME LimitsAssumption ==
  Limit \in Nat \ {0} /\ MaxRenames \in Nat /\ MaxCrashes \in Nat

Recorded == {<<x.reservation, x.status>> : x \in Range(results)}

Financial ==
  INSTANCE PaymentAuthority
    WITH Payments <- Reservations, status <- payments,
         recorded <- Recorded, posted <- {}

ASSUME OutcomesAssumption == Outcomes \subseteq Financial!Terminal

Result ==
  [reservation : Reservations, status : Outcomes,
   occurredAt : Clock \cup {Null}, recordedAt : Clock]

ASSUME NullAssumption == Null \notin Result

\* The order of the feed and of the cursor.
Key(x) ==
  [recordedAt |-> x.recordedAt,
   resultId |-> ResultIds[<<x.reservation, x.status>>]]
Before(k, l) ==
  \/ k.recordedAt < l.recordedAt
  \/ k.recordedAt = l.recordedAt /\ k.resultId < l.resultId
Passed(x, c) == c # Null /\ ~Before(c, Key(x))

FulfilmentInit ==
  /\ Init
  /\ now \in Clock
  /\ profile = 0
  /\ payments = [r \in Reservations |-> "pending"]
  /\ paidOrders = {}
  /\ inFlight = {}
  /\ results = <<>>
  /\ tickets = [r \in Reservations |-> "none"]
  /\ bearer = [r \in Reservations |-> Null]
  /\ cursor = Null
  /\ pc = [p \in Processors |-> "idle"]
  /\ seen = [p \in Processors |-> Null]
  /\ batch = [p \in Processors |-> {}]
  /\ job = [p \in Processors |-> Null]
  /\ carried = [p \in Processors |-> Null]
  /\ crashes = 0

-----------------------------------------------------------------------------
(* Time, buyers and the gate *)

Tick ==
  /\ now' \in {t \in Clock : now < t}
  /\ UNCHANGED <<reservationVars, profile, financialVars, ticketVars, cursor,
                 drainVars>>

\* A request for a hold first saves the name it comes with in the profile of
\* the holder, whatever becomes of the hold.
Rename ==
  /\ profile < MaxRenames
  /\ profile' = profile + 1
  /\ UNCHANGED <<reservationVars, now, financialVars, ticketVars, cursor,
                 drainVars>>

Buyer ==
  /\ \/ Availability(now)
     \/ \E r \in Reservations :
          \/ \E q \in Quantities : Hold(r, q, now, offer)
          \/ CancelHold(r, now)
  /\ UNCHANGED <<world, financialVars, ticketVars, cursor, drainVars>>

\* applyTicketCheckIn: an operator validates, uses or cancels a ticket.
CheckIn(r) ==
  /\ \E s \in {"validated", "used", "cancelled"} :
       /\ \/ tickets[r] = "issued" /\ s # "used"
          \/ tickets[r] = "validated" /\ s # "validated"
       /\ tickets' = [tickets EXCEPT ![r] = s]
  /\ UNCHANGED <<reservationVars, world, financialVars, bearer, cursor,
                 drainVars>>

-----------------------------------------------------------------------------
(* Financial *)

\* A verified event moves the payment.  The checkout does not ask whether the
\* hold is still alive, only that the reservation and its order exist.
Decide(r, s) ==
  /\ reservations[r].status # "absent"
  /\ UNCHANGED <<reservationVars, world, paidOrders, inFlight, results,
                 ticketVars, cursor, drainVars>>
  /\ Financial!Advance(r, s)

\* The provider's time of a refund: after the approval's, itself after the
\* creation of the payment, which is that of the hold.  Of the other results
\* ticketing does not read it.
OccurredAt(r, s) ==
  IF s = "refunded"
    THEN {t \in Clock : reservations[r].createdAt + 1 < t /\ t <= now}
    ELSE {Null}

Stamp(r, s) ==
  /\ s \in Financial!Reached(payments[r])
  /\ \A x \in inFlight : x.reservation # r \/ x.status # s
  /\ <<r, s>> \notin Recorded
  /\ \E t \in OccurredAt(r, s) :
       inFlight' = inFlight \cup
         {[reservation |-> r, status |-> s, occurredAt |-> t,
           recordedAt |-> now]}
  /\ UNCHANGED <<reservationVars, world, payments, paidOrders, results,
                 ticketVars, cursor, drainVars>>

Insert(x) ==
  /\ inFlight' = inFlight \ {x}
  /\ results' = Append(results, x)
  /\ Financial!Record(x.reservation, x.status)
  /\ UNCHANGED <<reservationVars, world, paidOrders, ticketVars, cursor,
                 drainVars>>

\* The order of a recorded approval becomes payment_confirmed.
ConfirmOrder(r) ==
  /\ <<r, "confirmed">> \in Recorded
  /\ r \notin paidOrders
  /\ paidOrders' = paidOrders \cup {r}
  /\ UNCHANGED <<reservationVars, world, payments, inFlight, results,
                 ticketVars, cursor, drainVars>>

-----------------------------------------------------------------------------
(* The drain *)

\* Where the handling of a result starts: one that is neither an approval nor
\* a refund is only passed.
Entry(x) ==
  IF x.status = "confirmed" THEN "find"
  ELSE IF x.status = "refunded" THEN "refund" ELSE "save"

\* The order of the page.  The mutant reads the newest results first.
Last(x, b) == \A y \in b \ {x} : Before(Key(y), Key(x))
First(x, b) == \A y \in b \ {x} : Before(Key(x), Key(y))

\* Processor p turns to the first of the results b, or ends its drain.  The
\* mutant leaves the last result in hand.
TurnKeeping(p, b) ==
  /\ batch' = [batch EXCEPT ![p] = b]
  /\ \/ /\ b = {}
        /\ pc' = [pc EXCEPT ![p] = "idle"]
        /\ UNCHANGED job
     \/ \E x \in b :
          /\ First(x, b)
          /\ pc' = [pc EXCEPT ![p] = Entry(x)]
          /\ job' = [job EXCEPT ![p] = x]
Turn(p, b) ==
  /\ batch' = [batch EXCEPT ![p] = b]
  /\ \/ /\ b = {}
        /\ pc' = [pc EXCEPT ![p] = "idle"]
        /\ job' = [job EXCEPT ![p] = Null]
     \/ \E x \in b :
          /\ First(x, b)
          /\ pc' = [pc EXCEPT ![p] = Entry(x)]
          /\ job' = [job EXCEPT ![p] = x]

\* A handler throws: the drain ends and the cursor stays.
Fail(p) ==
  /\ pc' = [pc EXCEPT ![p] = "idle"]
  /\ seen' = [seen EXCEPT ![p] = Null]
  /\ batch' = [batch EXCEPT ![p] = {}]
  /\ job' = [job EXCEPT ![p] = Null]
  /\ carried' = [carried EXCEPT ![p] = Null]

\* Continue at the label with a value read or kept.
Goto(p, label, value) ==
  /\ pc' = [pc EXCEPT ![p] = label]
  /\ carried' = [carried EXCEPT ![p] = value]
  /\ UNCHANGED <<seen, batch, job>>

\* Continue if the condition the code tests holds, throw if not.
Require(p, condition, label, value) ==
  \/ condition /\ Goto(p, label, value)
  \/ ~condition /\ Fail(p)

Data == <<reservationVars, world, financialVars, ticketVars, cursor, crashes>>

\* The timer starts a drain, which loads the cursor and then reads a page.
Load(p) ==
  /\ pc[p] = "idle"
  /\ pc' = [pc EXCEPT ![p] = "list"]
  /\ seen' = [seen EXCEPT ![p] = cursor]
  /\ UNCHANGED <<Data, batch, job, carried>>

\* listAfter: the first results behind the cursor.
List(p) ==
  /\ pc[p] = "list"
  /\ LET after == {x \in Range(results) : ~Passed(x, seen[p])} IN
       Turn(p, {x \in after :
                  Cardinality({y \in after : Before(Key(y), Key(x))}) < Limit})
  /\ seen' = [seen EXCEPT ![p] = Null]
  /\ UNCHANGED <<Data, carried>>

\* fulfill: what is held has to be confirmed first.  The mutant does not know
\* a reservation confirmed by an earlier attempt.
FindHeld(p, r) ==
  /\ pc[p] = "find"
  /\ Require(p, reservations[r].status = "held", "reread", now)
  /\ UNCHANGED Data
Find(p, r) ==
  /\ pc[p] = "find"
  /\ \/ reservations[r].status = "held" /\ Goto(p, "reread", now)
     \/ /\ reservations[r].status # "held"
        /\ Require(p, reservations[r].status = "confirmed", "issue", Null)
  /\ UNCHANGED Data

\* confirmReservation, its clock read before the first await.
Reread(p, r) ==
  /\ pc[p] = "reread"
  /\ Require(p, /\ reservations[r].status = "held"
                /\ ~IsStale(reservations[r], carried[p]),
             "payment", carried[p])
  /\ UNCHANGED Data

\* The authority reads the order, the payment and the result at once; a
\* payment read first is the weaker test, the other two being stable.
VerifyPayment(p, r) ==
  /\ pc[p] = "payment"
  /\ Require(p, payments[r] = "confirmed", "order", carried[p])
  /\ UNCHANGED Data

\* The mutant does not look at the order.
VerifyResult(p, r) ==
  /\ pc[p] = "order"
  /\ Require(p, <<r, "confirmed">> \in Recorded, "confirm", carried[p])
  /\ UNCHANGED Data
VerifyOrder(p, r) ==
  /\ pc[p] = "order"
  /\ Require(p, r \in paidOrders /\ <<r, "confirmed">> \in Recorded,
             "confirm", carried[p])
  /\ UNCHANGED Data

Confirmable(r, at) ==
  LET row == Swept(at)[r] IN
  row.status = "confirmed" \/ (row.status = "held" /\ row.createdAt <= at)

ConfirmReservation(p, r) ==
  /\ pc[p] = "confirm"
  /\ \/ Confirm(r, carried[p]) /\ Goto(p, "issue", Null)
     \/ /\ ~Confirmable(r, carried[p])
        /\ Fail(p)
        /\ UNCHANGED reservationVars
  /\ UNCHANGED <<world, financialVars, ticketVars, cursor, crashes>>

\* The name for the ticket is read, then the order and the payment, which
\* this reads at once with it: both are stable but for a refund.
Issue(p, r) ==
  /\ pc[p] = "issue"
  /\ Require(p, payments[r] = "confirmed" /\ r \in paidOrders,
             "ticket", profile)
  /\ UNCHANGED Data

\* A ticket that exists has to be the same one, its name included.
FindTicket(p, r) ==
  /\ pc[p] = "ticket"
  /\ \/ tickets[r] = "none" /\ Goto(p, "insert", carried[p])
     \/ /\ tickets[r] # "none"
        /\ Require(p, bearer[r] = carried[p], "save", Null)
  /\ UNCHANGED Data

\* INSERT IGNORE and a comparison with the row read back, which refuses what
\* the gate has touched in between.  A ticket inserted meanwhile by another
\* drain is the same one if it bears the name and the same millisecond.
InsertTicket(p, r) ==
  /\ pc[p] = "insert"
  /\ \/ /\ tickets[r] = "none"
        /\ tickets' = [tickets EXCEPT ![r] = "issued"]
        /\ bearer' = [bearer EXCEPT ![r] = carried[p]]
        /\ Goto(p, "save", Null) \/ Fail(p)
     \/ /\ tickets[r] = "issued" /\ bearer[r] = carried[p]
        /\ Goto(p, "save", Null)
        /\ UNCHANGED ticketVars
     \/ /\ tickets[r] # "none"
        /\ Fail(p)
        /\ UNCHANGED ticketVars
  /\ UNCHANGED <<reservationVars, world, financialVars, cursor, crashes>>

\* The reservation carries its order and payment since its confirmation.
FindRefund(p, r) ==
  /\ pc[p] = "refund"
  /\ Require(p, payments[r] = "refunded" /\ reservations[r].confirmedAt # Null,
             "cancel", Null)
  /\ UNCHANGED Data

Refundable(r, at) ==
  /\ tickets[r] # "used"
  /\ reservations[r].confirmedAt # Null
  /\ reservations[r].status = "confirmed" => reservations[r].confirmedAt <= at

\* The mutant overlooks a ticket validated at the gate.
CancelIssuedOnly(p, r) ==
  /\ pc[p] = "cancel"
  /\ \/ /\ tickets[r] # "used"
        /\ CancelAfterRefund(r, job[p].occurredAt)
        /\ tickets' = [tickets EXCEPT ![r] =
             IF @ = "issued" THEN "cancelled" ELSE @]
        /\ Goto(p, "save", Null)
     \/ /\ ~Refundable(r, job[p].occurredAt)
        /\ Fail(p)
        /\ UNCHANGED <<reservationVars, tickets>>
  /\ UNCHANGED <<world, financialVars, bearer, cursor, crashes>>
CancelRefunded(p, r) ==
  /\ pc[p] = "cancel"
  /\ \/ /\ tickets[r] # "used"
        /\ CancelAfterRefund(r, job[p].occurredAt)
        /\ tickets' = [tickets EXCEPT ![r] =
             IF @ = "none" THEN @ ELSE "cancelled"]
        /\ Goto(p, "save", Null)
     \/ /\ ~Refundable(r, job[p].occurredAt)
        /\ Fail(p)
        /\ UNCHANGED <<reservationVars, tickets>>
  /\ UNCHANGED <<world, financialVars, bearer, cursor, crashes>>

\* ON DUPLICATE KEY UPDATE: the cursor is the greater of the two keys.  The
\* mutant keeps the greater time and takes the id of the last result.
SaveMixed(p) ==
  /\ pc[p] = "save"
  /\ cursor' = IF Passed(job[p], cursor)
                 THEN [cursor EXCEPT !.resultId = Key(job[p]).resultId]
                 ELSE Key(job[p])
  /\ Turn(p, batch[p] \ {job[p]})
  /\ UNCHANGED <<reservationVars, world, financialVars, ticketVars, seen,
                 carried, crashes>>
SaveCursor(p) ==
  /\ pc[p] = "save"
  /\ cursor' = IF Passed(job[p], cursor) THEN cursor ELSE Key(job[p])
  /\ Turn(p, batch[p] \ {job[p]})
  /\ UNCHANGED <<reservationVars, world, financialVars, ticketVars, seen,
                 carried, crashes>>

\* The process stops, or a statement fails, at any await of the drain.
Crash(p) ==
  /\ pc[p] # "idle"
  /\ crashes < MaxCrashes
  /\ crashes' = crashes + 1
  /\ Fail(p)
  /\ UNCHANGED <<reservationVars, world, financialVars, ticketVars, cursor>>

Handle(p, r) ==
  \/ Find(p, r) \/ Reread(p, r) \/ VerifyPayment(p, r) \/ VerifyOrder(p, r)
  \/ ConfirmReservation(p, r) \/ Issue(p, r) \/ FindTicket(p, r)
  \/ InsertTicket(p, r) \/ FindRefund(p, r) \/ CancelRefunded(p, r)

Step(p) ==
  \/ List(p) \/ SaveCursor(p)
  \/ job[p] # Null /\ Handle(p, job[p].reservation)

FulfilmentNext ==
  \/ Tick
  \/ Rename
  \/ Buyer
  \/ \E r \in Reservations :
       \/ CheckIn(r)
       \/ ConfirmOrder(r)
       \/ \E s \in Outcomes : Decide(r, s) \/ Stamp(r, s)
  \/ \E x \in inFlight : Insert(x)
  \/ \E p \in Processors : Load(p) \/ Step(p) \/ Crash(p)

FulfilmentSpec == FulfilmentInit /\ [][FulfilmentNext]_fulfilmentVars

\* A drain that does not die runs to its end and the timer starts the next
\* one.  The order of a recorded approval is confirmed, by the retries that
\* book it (PaymentOutcome: ApprovalEventuallyPosted, BookedOrderConfirmed).
FairFulfilmentSpec ==
  /\ FulfilmentSpec
  /\ \A p \in Processors :
       /\ WF_fulfilmentVars(Load(p))
       /\ WF_fulfilmentVars(Step(p))
  /\ \A r \in Reservations : WF_fulfilmentVars(ConfirmOrder(r))

-----------------------------------------------------------------------------
(* Properties *)

Labels ==
  {"idle", "list", "find", "reread", "payment", "order", "confirm", "issue",
   "ticket", "insert", "refund", "cancel", "save"}
CursorKey == [recordedAt : Clock, resultId : Nat]

SharedTypeOK ==
  /\ now \in Clock
  /\ profile \in 0 .. MaxRenames
  /\ payments \in [Reservations -> Financial!Statuses]
  /\ paidOrders \subseteq Reservations
  /\ inFlight \subseteq Result
  /\ results \in Seq(Result)
  /\ tickets \in
       [Reservations -> {"none", "issued", "validated", "used", "cancelled"}]
  /\ bearer \in [Reservations -> 0 .. MaxRenames \cup {Null}]
  /\ \A r \in Reservations : tickets[r] = "none" <=> bearer[r] = Null
  /\ cursor \in CursorKey \cup {Null}
  /\ crashes \in 0 .. MaxCrashes

DrainsTypeOK ==
  /\ pc \in [Processors -> Labels]
  /\ seen \in [Processors -> CursorKey \cup {Null}]
  /\ batch \in [Processors -> SUBSET Result]
  /\ job \in [Processors -> Result \cup {Null}]
  /\ carried \in [Processors -> Clock \cup 0 .. MaxRenames \cup {Null}]
  /\ \A p \in Processors : job[p] = Null <=> pc[p] \in {"idle", "list"}

\* Tables, cursor and the locals of every drain have their types, and a
\* processor has a result in hand exactly when it handles one.
FulfilmentTypeOK == TypeOK /\ SharedTypeOK /\ DrainsTypeOK

\* Nobody gets a place without paying: a reservation is confirmed, and has a
\* ticket, only if the approval of its payment was recorded and its order
\* confirmed, however many drains run and die at once.
ConfirmedMeansPaid ==
  \A r \in Reservations :
    /\ tickets[r] # "none" => reservations[r].confirmedAt # Null
    /\ reservations[r].confirmedAt # Null =>
         <<r, "confirmed">> \in Recorded /\ r \in paidOrders

\* A ticket the gate would admit stands for a reservation whose units are
\* still taken: a refund cancels both or none, and no ticket is issued after
\* its refund was handled.  It takes what a Node process arranges, that one
\* drain runs at a time.
Usable == {"issued", "validated"}
UsableTicketBacked ==
  \A r \in Reservations :
    tickets[r] \in Usable => reservations[r].status = "confirmed"

\* The cursor never goes back, whichever drain saves it last, and is always
\* the key of one result, never a mixture of two.
CursorForward ==
  [][cursor' # cursor =>
       /\ cursor = Null \/ Before(cursor, cursor')
       /\ \E x \in Range(results) : cursor' = Key(x)]_fulfilmentVars

\* What the handling of a result must have brought about.
Handled(x) ==
  LET r == x.reservation IN
  /\ x.status = "confirmed" =>
       reservations[r].confirmedAt # Null /\ tickets[r] # "none"
  /\ x.status = "refunded" => reservations[r].status = "cancelled"

\* The i-th result was inserted before any with a later key.
OnTime(i) ==
  \A j \in 1 .. i - 1 : ~Before(Key(results[i]), Key(results[j]))

\* A result the cursor has passed was handled, unless it was inserted behind
\* one with a later key.
InOrderResultsHandled ==
  \A i \in DOMAIN results :
    OnTime(i) /\ Passed(results[i], cursor) => Handled(results[i])

\* What the processor's tests say of the cursor: it advances only after each
\* handler has succeeded.
PassedResultsHandled ==
  \A i \in DOMAIN results : Passed(results[i], cursor) => Handled(results[i])

\* The results behind the cursor that no retry can handle: the approval of a
\* hold that ended or of a payment that was refunded, or whose ticket bears a
\* name its holder has changed since; the refund of a reservation that was
\* never confirmed, or confirmed after the time of the refund, or whose ticket
\* was used.
Refused(x) ==
  LET r == x.reservation
      row == reservations[r]
  IN
  \/ /\ x.status = "confirmed"
     /\ \/ row.status \in {"expired", "cancelled"}
        \/ IsStale(row, now)
        \/ payments[r] = "refunded"
        \/ tickets[r] # "none" /\ bearer[r] # profile
  \/ /\ x.status = "refunded"
     /\ \/ row.confirmedAt = Null
        \/ row.status = "confirmed" /\ x.occurredAt < row.confirmedAt
        \/ tickets[r] = "used"

Waiting == {x \in Range(results) : ~Passed(x, cursor)}

\* The drain comes to rest only when it has passed every result, or in front
\* of one that is refused for good: a failure or a death between any two
\* statements of a handler leaves nothing the next drain cannot complete.
DrainStopsOnlyWhereRefused ==
  <>[](Waiting = {} \/ \E x \in Waiting : First(x, Waiting) /\ Refused(x))

\* What the release runbook asks to be proved: a verified refund reaches the
\* ticket, which is then no longer usable.
RefundReachesTicket ==
  \A r \in Reservations :
    <<r, "refunded">> \in Recorded ~> tickets[r] \notin Usable
=============================================================================
