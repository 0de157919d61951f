------------------------- MODULE BuyerRequestsProofs -------------------------
(***************************************************************************)
(* What a buyer asks for is done once, however often and from wherever it  *)
(* is asked: the admission of a ticket, the checkout of an order and the   *)
(* refund of a payment, each for any requests that interleave and any      *)
(* clocks.                                                                 *)
(*                                                                         *)
(* Each proof has the same shape.  A request decides by what it read some  *)
(* statements ago, so its invariant says what it may still rely on: that   *)
(* which nobody takes back, or which its last statement compares again.    *)
(***************************************************************************)
EXTENDS TicketCheckIn, Checkout, RefundRequests, FiniteSetTheorems, TLAPS

\* What has no two different members has at most one.
LEMMA AtMostOneHasCardinality ==
  ASSUME NEW S, \A x, y \in S : x = y
  PROVE  Cardinality(S) <= 1
<1>1. CASE S = {}
  BY <1>1, FS_EmptySet
<1>2. CASE S # {}
  <2>1. PICK x : S = {x}
    BY <1>2
  <2> QED
    BY <2>1, FS_Singleton
<1> QED
  BY <1>1, <1>2

-----------------------------------------------------------------------------
-----------------------------------------------------------------------------
(* ADMISSION.

   A request commits only on the ticket it read, and a ticket's status tells
   which check-ins exist. *)

Tasks ==
  {NoLane}
    \cup [at : {"look"}, attempt : Attempts, before : Rows]
    \cup [at : {"commit"}, attempt : Attempts, before : Rows,
          result : Outcome]

CheckIns ==
  {c \in [id : {"online", "offline"} \X Wishes \X ScanTimes,
          attempt : Attempts, result : Outcome] :
     c.id = CheckInId(c.attempt, c.result)}

CheckInTyped ==
  /\ ticket \in Rows
  /\ checkIns \subseteq CheckIns
  /\ envelopes \subseteq Attempts
  /\ lane \in [Lanes -> Tasks]

\* A request commits only what the ticket it read accepts.
LanesDecided ==
  \A l \in Lanes : lane[l].at = "commit" =>
    Accepts(lane[l].before.status, lane[l].result, lane[l].attempt.time)

IdsUnique == \A c, d \in checkIns : c.id = d.id => c = d
ResultsUnique == \A c, d \in checkIns : c.result = d.result => c = d

\* The ticket's status tells which results have been made.
StatusTells ==
  /\ ticket.status = "issued" => checkIns = {}
  /\ ticket.status = "validated" =>
       Made("validated") # {} /\ checkIns = Made("validated")
  /\ ticket.status = "used" =>
       Made("validated") # {} /\ Made("used") # {} /\ Made("cancelled") = {}
  /\ ticket.status = "cancelled" => Made("used") = {}

CheckInInv ==
  CheckInTyped /\ LanesDecided /\ IdsUnique /\ ResultsUnique /\ StatusTells

-----------------------------------------------------------------------------
(* Lemmas *)

LEMMA CheckInInitHolds == CheckInInit => CheckInInv
BY DEF CheckInInit, CheckInInv, CheckInTyped, LanesDecided, IdsUnique,
       ResultsUnique, StatusTells, Rows, Statuses, Tasks, NoLane, Made

LEMMA AttemptFields ==
  ASSUME NEW attempt \in Attempts
  PROVE  /\ attempt.wants \in Wishes
         /\ attempt.channel \in {"online", "offline"}
         /\ attempt.time \in ScanTimes
BY DEF Attempts, Wishes

\* What is written when the request's own ticket is the present one and no
\* check-in has its identity keeps the history in one course.
LEMMA WrittenKeeps ==
  ASSUME CheckInInv, NEW l \in Lanes, Serves(l, "commit"), Written(l),
         Prior(lane[l].attempt, lane[l].result) = {},
         ticket = lane[l].before, EndsRequest(l)
  PROVE  CheckInInv'
<1> DEFINE attempt == lane[l].attempt
           result == lane[l].result
           new == [id |-> CheckInId(attempt, result), attempt |-> attempt,
                   result |-> result]
<1>1. /\ attempt \in Attempts /\ result \in Outcome
      /\ Accepts(ticket.status, result, attempt.time)
  BY DEF CheckInInv, CheckInTyped, LanesDecided, Serves, Tasks, NoLane
<1>2. new \in CheckIns
  BY <1>1, AttemptFields DEF CheckIns, CheckInId
<1>3. /\ checkIns' = checkIns \cup {new}
      /\ ticket' = [status |-> result, updated |-> attempt.time]
      /\ envelopes' \subseteq envelopes \cup {attempt}
  BY DEF Written
<1>4. CheckInTyped'
  <2>1. ticket' \in Rows
    BY <1>1, <1>3, AttemptFields DEF Rows, Statuses
  <2>2. lane' \in [Lanes -> Tasks]
    BY DEF CheckInInv, CheckInTyped, EndsRequest, Tasks
  <2> QED
    BY <1>1, <1>2, <1>3, <2>1, <2>2 DEF CheckInInv, CheckInTyped
<1>5. LanesDecided'
  BY DEF CheckInInv, CheckInTyped, LanesDecided, EndsRequest, NoLane
<1>6. \A c \in checkIns : c.id # new.id
  BY DEF Prior
<1>7. \A c \in checkIns : c.result # new.result
  <2>1. /\ <<ticket.status, result>> \in
             {<<"issued", "validated">>, <<"issued", "cancelled">>,
              <<"validated", "used">>, <<"validated", "cancelled">>}
    BY <1>1 DEF Accepts
  <2> QED
    BY <2>1 DEF CheckInInv, StatusTells, Made
<1>8. IdsUnique' /\ ResultsUnique'
  BY <1>3, <1>6, <1>7 DEF CheckInInv, IdsUnique, ResultsUnique
<1>9. StatusTells'
  <2> HIDE DEF new
  <2>1. /\ new.result = result
        /\ ticket'.status = result
    BY <1>3 DEF new
  <2>2. \A r \in Outcome :
          Made(r)' = IF r = result THEN Made(r) \cup {new} ELSE Made(r)
    BY <1>3, <2>1 DEF Made
  <2>3. CASE ticket.status = "issued" /\ result = "validated"
    <3>1. checkIns = {} /\ checkIns' = {new} /\ Made("validated")' = {new}
      BY <1>3, <2>1, <2>3 DEF CheckInInv, StatusTells, Made
    <3> QED
      BY <2>1, <2>3, <3>1 DEF StatusTells
  <2>4. CASE ticket.status = "validated" /\ result = "used"
    <3>1. Made("validated") # {} /\ Made("cancelled") = {}
      BY <2>4 DEF CheckInInv, StatusTells, Made
    <3> QED
      BY <2>1, <2>2, <2>4, <3>1 DEF StatusTells, Outcome
  <2>5. CASE ticket.status \in {"issued", "validated"} /\ result = "cancelled"
    <3>1. Made("used") = {}
      BY <2>5 DEF CheckInInv, StatusTells, Made
    <3> QED
      BY <2>1, <2>2, <2>5, <3>1 DEF StatusTells, Outcome
  <2> QED
    BY <1>1, <2>3, <2>4, <2>5 DEF Accepts
<1> QED
  BY <1>4, <1>5, <1>8, <1>9 DEF CheckInInv

\* A request that ends without writing disturbs nothing.
LEMMA EndKeeps ==
  ASSUME CheckInInv, NEW l \in Lanes, EndsRequest(l),
         UNCHANGED <<ticket, checkIns, envelopes>>
  PROVE  CheckInInv'
<1>1. CheckInTyped' /\ LanesDecided'
  BY DEF CheckInInv, CheckInTyped, LanesDecided, EndsRequest, Tasks, NoLane
<1> QED
  BY <1>1 DEF CheckInInv, IdsUnique, ResultsUnique, StatusTells, Made

LEMMA PresentKeeps ==
  ASSUME CheckInInv, NEW l \in Lanes, NEW attempt \in Attempts,
         Present(l, attempt)
  PROVE  CheckInInv'
<1> DEFINE task == [at |-> "look", attempt |-> attempt, before |-> ticket]
<1>1. task \in Tasks
  BY DEF CheckInInv, CheckInTyped, Tasks
<1>2. lane' = [lane EXCEPT ![l] = task]
      /\ UNCHANGED <<ticket, checkIns, envelopes>>
  BY DEF Present
<1>3. CheckInTyped' /\ LanesDecided'
  BY <1>1, <1>2 DEF CheckInInv, CheckInTyped, LanesDecided
<1> QED
  BY <1>2, <1>3 DEF CheckInInv, IdsUnique, ResultsUnique, StatusTells, Made

LEMMA LookUpKeeps ==
  ASSUME CheckInInv, NEW l \in Lanes, LookUp(l)
  PROVE  CheckInInv'
<1> DEFINE attempt == lane[l].attempt
           before == lane[l].before
           result == ResultOf(attempt, before.status)
           task == [at |-> "commit", attempt |-> attempt, before |-> before,
                    result |-> result]
<1>1. attempt \in Attempts /\ before \in Rows
  BY DEF LookUp, Serves, CheckInInv, CheckInTyped, Tasks, NoLane
<1>2. UNCHANGED <<ticket, checkIns, envelopes>>
  BY DEF LookUp
<1>3. CASE EndsRequest(l)
  BY <1>2, <1>3, EndKeeps
<1>4. CASE /\ Accepts(before.status, result, attempt.time)
           /\ lane' = [lane EXCEPT ![l] = task]
  <2>1. result \in Outcome
    BY <1>1, AttemptFields DEF ResultOf, Wishes, Outcome
  <2>2. task \in Tasks
    BY <1>1, <2>1 DEF Tasks
  <2>3. CheckInTyped' /\ LanesDecided'
    BY <1>2, <1>4, <2>2 DEF CheckInInv, CheckInTyped, LanesDecided
  <2> QED
    BY <1>2, <2>3 DEF CheckInInv, IdsUnique, ResultsUnique, StatusTells, Made
<1> QED
  BY <1>3, <1>4 DEF LookUp

LEMMA CommitKeeps ==
  ASSUME CheckInInv, NEW l \in Lanes, Commit(l)
  PROVE  CheckInInv'
<1>1. CASE /\ Prior(lane[l].attempt, lane[l].result) = {}
           /\ ticket = lane[l].before
           /\ Written(l)
  BY <1>1, WrittenKeeps DEF Commit
<1>2. CASE UNCHANGED <<ticket, checkIns, envelopes>>
  BY <1>2, EndKeeps DEF Commit
<1> QED
  BY <1>1, <1>2 DEF Commit

LEMMA RefundKeeps ==
  ASSUME CheckInInv, NEW time \in ScanTimes, CancelAfterRefund(time)
  PROVE  CheckInInv'
<1>1. CheckInTyped'
  BY DEF CheckInInv, CheckInTyped, CancelAfterRefund, Rows, Statuses, Outcome
<1>2. LanesDecided' /\ IdsUnique' /\ ResultsUnique'
  BY DEF CheckInInv, CancelAfterRefund, LanesDecided, IdsUnique, ResultsUnique
<1>3. StatusTells'
  BY DEF CheckInInv, CancelAfterRefund, StatusTells, Made
<1> QED
  BY <1>1, <1>2, <1>3 DEF CheckInInv

LEMMA CheckInNextKeeps == CheckInInv /\ [CheckInNext]_checkInVars => CheckInInv'
<1> SUFFICES ASSUME CheckInInv, [CheckInNext]_checkInVars
             PROVE  CheckInInv'
  OBVIOUS
<1>1. ASSUME NEW l \in Lanes, NEW attempt \in Attempts, Present(l, attempt)
      PROVE  CheckInInv'
  BY <1>1, PresentKeeps
<1>2. ASSUME NEW l \in Lanes, LookUp(l)
      PROVE  CheckInInv'
  BY <1>2, LookUpKeeps
<1>3. ASSUME NEW l \in Lanes, Commit(l)
      PROVE  CheckInInv'
  BY <1>3, CommitKeeps
<1>4. ASSUME NEW l \in Lanes, Refuse(l)
      PROVE  CheckInInv'
  BY <1>4, EndKeeps DEF Refuse
<1>5. ASSUME NEW time \in ScanTimes, CancelAfterRefund(time)
      PROVE  CheckInInv'
  BY <1>5, RefundKeeps
<1>6. CASE UNCHANGED checkInVars
  BY <1>6 DEF checkInVars, CheckInInv, CheckInTyped, LanesDecided, IdsUnique,
              ResultsUnique, StatusTells, Made
<1> QED
  BY <1>1, <1>2, <1>3, <1>4, <1>5, <1>6 DEF CheckInNext

-----------------------------------------------------------------------------
(* Theorems *)

\* In every state the status of the ticket tells its check-ins, and every
\* request about to commit decided by a ticket that accepts its result.
THEOREM AdmissionInvariant == CheckInSpec => []CheckInInv
BY CheckInInitHolds, CheckInNextKeeps, PTL DEF CheckInSpec

\* The ticket, its history, the envelopes and the requests keep their types.
THEOREM CheckInTypes == CheckInSpec => []CheckInTypeOK
<1>1. CheckInInv => CheckInTypeOK
  BY DEF CheckInInv, CheckInTyped, CheckIns, Tasks, NoLane, CheckInTypeOK
<1> QED
  BY <1>1, AdmissionInvariant, PTL

\* Gates, offline devices and refunds race for one ticket, and its history is
\* one course that ends in the ticket's status.
THEOREM AdmissionIsOneCourse == CheckInSpec => []OneCourse
<1>1. CheckInInv => OneCourse
  <2> SUFFICES ASSUME CheckInInv
               PROVE  OneCourse
    OBVIOUS
  <2>1. \A result \in Outcome : Cardinality(Made(result)) <= 1
    <3> SUFFICES ASSUME NEW result \in Outcome
                 PROVE  Cardinality(Made(result)) <= 1
      OBVIOUS
    <3>1. \A c, d \in Made(result) : c = d
      BY DEF CheckInInv, ResultsUnique, Made
    <3> QED
      BY <3>1, AtMostOneHasCardinality
  <2>2. ticket.status \in {"issued", "validated", "used", "cancelled"}
    BY DEF CheckInInv, CheckInTyped, Rows, Statuses, Outcome
  <2>3. /\ Made("used") # {} => Made("validated") # {}
        /\ ticket.status = "used" <=> Made("used") # {}
        /\ Made("cancelled") # {} => ticket.status = "cancelled"
    BY <2>2 DEF CheckInInv, StatusTells, Made
  <2> QED
    BY <2>1, <2>3 DEF CheckInInv, StatusTells, OneCourse
<1> QED
  BY <1>1, AdmissionInvariant, PTL

\* An attempt that is repeated with its time makes no second check-in.
THEOREM RepetitionNeverAdvances == CheckInSpec => []RetryNeverAdvances
<1>1. CheckInInv => RetryNeverAdvances
  BY DEF CheckInInv, CheckInTyped, CheckIns, CheckInId, IdsUnique,
         RetryNeverAdvances
<1> QED
  BY <1>1, AdmissionInvariant, PTL

-----------------------------------------------------------------------------
-----------------------------------------------------------------------------
(* CHECKOUT.

   The tables hold at most one row each because every row names one of the
   table before it; a call knows of them what it read: the order keeps its
   identifier and never becomes a draft again. *)

WithPayment == {"ensure pending", "save order", "update order", "answered"}
WithClaim ==
  WithPayment \cup {"find payment", "insert payment", "reread payment"}
WithOrder == WithClaim \cup {"find claim", "claim"}
CheckoutLabels ==
  WithOrder \cup {"find order", "insert order", "reread order", "failed"}

CallRecords ==
  [at : CheckoutLabels, order : OrderRows \cup {NoRow},
   payment : Calls \cup {"none"},
   updated : Nat]

CheckoutTyped ==
  /\ orders \subseteq OrderRows
  /\ claims \subseteq [order : Calls, payment : Calls]
  /\ payments \subseteq PaymentRows
  /\ call \in [Calls -> CallRecords]
  /\ confirmer \in [Confirmers -> ConfirmerRows]

\* One row per table; each claim is the order's, each payment the claim's.
OneOfEach ==
  /\ \A x, y \in orders : x = y
  /\ \A x, y \in claims : x = y
  /\ \A x, y \in payments : x = y
  /\ \A x \in claims : \E row \in orders : row.id = x.order
  /\ \A p \in payments : \E x \in claims : x.payment = p.id

PaidIsNoDraft ==
  (\E p \in payments : p.status = "confirmed") =>
    \A row \in orders : row.status # "draft"

\* While an approval is being handled its order is no draft, and what a handler
\* is about to update is a row the order had, and older than what it writes.
ConfirmerWaits ==
  \A f \in Confirmers :
    /\ confirmer[f].at # "idle" =>
         \E row \in orders : row.status # "draft"
    /\ confirmer[f].at = "update" =>
         /\ confirmer[f].order \in OrderRows
         /\ confirmer[f].order.updated < confirmer[f].updated
         /\ \E row \in orders : row.id = confirmer[f].order.id

\* What a call knows at its label.
CallKnows(c) ==
  /\ call[c].at \in WithOrder =>
       /\ call[c].order \in OrderRows
       /\ \E row \in orders :
            /\ row.id = call[c].order.id
            /\ call[c].order.status # "draft" => row.status # "draft"
  /\ call[c].at \in WithClaim =>
       \E x \in claims :
         x.order = call[c].order.id /\ x.payment = call[c].payment
  /\ call[c].at \in WithPayment =>
       \E p \in payments : p.id = call[c].payment
  /\ call[c].at = "answered" => \E row \in orders : row.status # "draft"
  /\ call[c].at = "update order" => call[c].order.status # "payment_confirmed"

CheckoutTables == CheckoutTyped /\ OneOfEach /\ PaidIsNoDraft /\ ConfirmerWaits
CheckoutInv == CheckoutTables /\ \A c \in Calls : CallKnows(c)

\* How the tables move on.
TablesGrow ==
  /\ \A row \in orders : \E new \in orders' :
       new.id = row.id /\ (row.status # "draft" => new.status # "draft")
  /\ claims \subseteq claims'
  /\ \A p \in payments : \E q \in payments' : q.id = p.id

-----------------------------------------------------------------------------
(* Lemmas *)

LEMMA CheckoutInitHolds == CheckoutInit => CheckoutInv
<1> SUFFICES ASSUME CheckoutInit
             PROVE  CheckoutInv
  OBVIOUS
<1>1. NewCall \in CallRecords
  BY DEF NewCall, CallRecords, CheckoutLabels
<1>2. NoEvent \in ConfirmerRows
  BY DEF NoEvent, ConfirmerRows
<1>3. CheckoutTyped
  BY <1>1, <1>2 DEF CheckoutInit, CheckoutTyped
<1>4. OneOfEach /\ PaidIsNoDraft /\ ConfirmerWaits
  BY DEF CheckoutInit, OneOfEach, PaidIsNoDraft, ConfirmerWaits, NoEvent
<1>5. \A c \in Calls : CallKnows(c)
  BY DEF CheckoutInit, CallKnows, NewCall, WithOrder, WithClaim, WithPayment
<1> QED
  BY <1>3, <1>4, <1>5 DEF CheckoutInv, CheckoutTables

\* Knowledge survives what others do.
LEMMA CheckoutCallStable ==
  ASSUME CheckoutInv, TablesGrow, NEW c \in Calls, call'[c] = call[c]
  PROVE  CallKnows(c)'
<1>1. call[c].at \in WithOrder =>
        /\ call'[c].order \in OrderRows
        /\ \E row \in orders' :
             /\ row.id = call'[c].order.id
             /\ call'[c].order.status # "draft" => row.status # "draft"
  BY DEF CheckoutInv, CallKnows, TablesGrow
<1>2. call[c].at = "answered" => \E row \in orders' : row.status # "draft"
  BY DEF CheckoutInv, CallKnows, TablesGrow
<1>3. call[c].at \in WithPayment =>
        \E p \in payments' : p.id = call'[c].payment
  BY DEF CheckoutInv, CallKnows, TablesGrow
<1>4. call[c].at \in WithClaim =>
        \E x \in claims' :
          x.order = call'[c].order.id /\ x.payment = call'[c].payment
  BY DEF CheckoutInv, CallKnows, TablesGrow
<1>5. call[c].at = "update order" =>
        call'[c].order.status # "payment_confirmed"
  BY DEF CheckoutInv, CallKnows
<1> QED
  BY <1>1, <1>2, <1>3, <1>4, <1>5 DEF CallKnows

\* A step of one call: the others keep what they know.
LEMMA StepKeeps ==
  ASSUME CheckoutInv, NEW c \in Calls, NEW next \in CallRecords,
         call' = [call EXCEPT ![c] = next],
         CheckoutTables', TablesGrow, CallKnows(c)'
  PROVE  CheckoutInv'
<1>1. \A d \in Calls \ {c} : call'[d] = call[d]
  BY DEF CheckoutInv, CheckoutTables, CheckoutTyped
<1>2. \A d \in Calls : CallKnows(d)'
  BY <1>1, CheckoutCallStable
<1> QED
  BY <1>2 DEF CheckoutInv

\* A step of one call that only reads.
LEMMA CheckoutReadKeeps ==
  ASSUME CheckoutInv, NEW c \in Calls, NEW next \in CallRecords,
         call' = [call EXCEPT ![c] = next],
         UNCHANGED <<orders, claims, payments, confirmer>>, CallKnows(c)'
  PROVE  CheckoutInv'
<1>1. call' \in [Calls -> CallRecords]
  BY DEF CheckoutInv, CheckoutTables, CheckoutTyped
<1>2. CheckoutTables'
  BY <1>1
     DEF CheckoutInv, CheckoutTables, CheckoutTyped, OneOfEach, PaidIsNoDraft,
         ConfirmerWaits
<1>3. TablesGrow
  BY DEF TablesGrow
<1> QED
  BY <1>2, <1>3, StepKeeps

\* A call that goes on to a label at which it has to know no more.
LEMMA ReachKeeps ==
  ASSUME CheckoutInv, NEW c \in Calls, NEW label \in CheckoutLabels,
         Reaches(c, label),
         UNCHANGED <<orders, claims, payments, confirmer>>,
         label \in WithOrder => call[c].at \in WithOrder,
         label \in WithClaim => call[c].at \in WithClaim,
         label \in WithPayment => \E p \in payments : p.id = call[c].payment,
         label = "answered" => \E row \in orders : row.status # "draft",
         label # "update order"
  PROVE  CheckoutInv'
<1> DEFINE next == [call[c] EXCEPT !.at = label]
<1>1. call[c] \in CallRecords
  BY DEF CheckoutInv, CheckoutTables, CheckoutTyped
<1>2. next \in CallRecords
  BY <1>1 DEF CallRecords
<1>3. /\ call' = [call EXCEPT ![c] = next]
      /\ call'[c] = next /\ next.at = label
      /\ next.order = call[c].order /\ next.payment = call[c].payment
  BY <1>1 DEF Reaches, CheckoutInv, CheckoutTables, CheckoutTyped, CallRecords
<1>4. CallKnows(c)'
  <2> HIDE DEF next
  <2>1. call'[c].at \in WithOrder =>
          /\ call'[c].order \in OrderRows
          /\ \E row \in orders' :
               /\ row.id = call'[c].order.id
               /\ call'[c].order.status # "draft" => row.status # "draft"
    BY <1>3 DEF CheckoutInv, CallKnows
  <2>2. call'[c].at \in WithClaim =>
          \E x \in claims' :
            x.order = call'[c].order.id /\ x.payment = call'[c].payment
    BY <1>3 DEF CheckoutInv, CallKnows
  <2>3. call'[c].at \in WithPayment =>
          \E p \in payments' : p.id = call'[c].payment
    BY <1>3
  <2>4. /\ call'[c].at = "answered" =>
             \E row \in orders' : row.status # "draft"
        /\ call'[c].at # "update order"
    BY <1>3
  <2> QED
    BY <2>1, <2>2, <2>3, <2>4 DEF CallKnows
<1> QED
  BY <1>2, <1>3, <1>4, CheckoutReadKeeps

\* A call takes a row of the order it reads.
LEMMA TookKeeps ==
  ASSUME CheckoutInv, NEW c \in Calls, NEW row \in orders,
         NEW label \in {"find claim", "update order"}, Took(c, row, label),
         UNCHANGED <<orders, claims, payments, confirmer>>,
         label = "update order" => /\ call[c].at = "save order"
                                   /\ row.status # "payment_confirmed"
  PROVE  CheckoutInv'
<1> DEFINE next == [call[c] EXCEPT !.order = row, !.at = label]
<1>1. call[c] \in CallRecords /\ row \in OrderRows
  BY DEF CheckoutInv, CheckoutTables, CheckoutTyped
<1>2. label \in CheckoutLabels
  BY DEF CheckoutLabels, WithOrder, WithClaim, WithPayment
<1>3. next \in CallRecords
  BY <1>1, <1>2 DEF CallRecords
<1>4. /\ call' = [call EXCEPT ![c] = next]
      /\ call'[c] = next /\ next.at = label
      /\ next.order = row /\ next.payment = call[c].payment
  BY <1>1 DEF Took, CheckoutInv, CheckoutTables, CheckoutTyped, CallRecords
<1>5. label = "update order" =>
        /\ \E x \in claims :
             x.order = row.id /\ x.payment = call[c].payment
        /\ \E p \in payments : p.id = call[c].payment
  <2> SUFFICES ASSUME label = "update order"
               PROVE  /\ \E x \in claims :
                           x.order = row.id /\ x.payment = call[c].payment
                      /\ \E p \in payments : p.id = call[c].payment
    OBVIOUS
  <2>1. /\ \E x \in claims :
             x.order = call[c].order.id /\ x.payment = call[c].payment
        /\ \E p \in payments : p.id = call[c].payment
        /\ \E r \in orders : r.id = call[c].order.id
    BY DEF CheckoutInv, CallKnows, WithOrder, WithClaim, WithPayment
  <2>2. row.id = call[c].order.id
    BY <2>1 DEF CheckoutInv, CheckoutTables, OneOfEach
  <2> QED
    BY <2>1, <2>2
<1>6. CallKnows(c)'
  <2>1. CASE label = "find claim"
    BY <1>1, <1>4, <2>1 DEF CallKnows, WithOrder, WithClaim, WithPayment
  <2>2. CASE label = "update order"
    <3> HIDE DEF next
    <3>1. /\ call'[c].order = row /\ call'[c].payment = call[c].payment
          /\ call'[c].at = "update order"
      BY <1>4, <2>2
    <3>2. \E x \in claims' :
            x.order = call'[c].order.id /\ x.payment = call'[c].payment
      BY <1>5, <2>2, <3>1
    <3>3. \E p \in payments' : p.id = call'[c].payment
      BY <1>5, <2>2, <3>1
    <3> QED
      BY <1>1, <2>2, <3>1, <3>2, <3>3 DEF CallKnows
  <2> QED
    BY <2>1, <2>2
<1> QED
  BY <1>3, <1>4, <1>6, CheckoutReadKeeps

-----------------------------------------------------------------------------
(* The steps of a call *)

LEMMA FindOrderKeeps ==
  ASSUME CheckoutInv, NEW c \in Calls, FindOrder(c)
  PROVE  CheckoutInv'
<1>1. CASE Reaches(c, "insert order")
  BY <1>1, ReachKeeps
     DEF FindOrder, CheckoutLabels, WithOrder, WithClaim, WithPayment
<1>2. CASE \E row \in orders : Took(c, row, "find claim")
  BY <1>2, TookKeeps DEF FindOrder
<1> QED
  BY <1>1, <1>2 DEF FindOrder

LEMMA InsertOrderKeeps ==
  ASSUME CheckoutInv, NEW c \in Calls, InsertOrder(c)
  PROVE  CheckoutInv'
<1> DEFINE next == [call[c] EXCEPT !.at = "reread order"]
           row == [id |-> c, status |-> "draft", updated |-> 0]
<1>1. call[c] \in CallRecords
  BY DEF CheckoutInv, CheckoutTables, CheckoutTyped
<1>2. next \in CallRecords
  BY <1>1 DEF CallRecords, CheckoutLabels
<1>3. call' = [call EXCEPT ![c] = next] /\ call'[c].at = "reread order"
  BY <1>1
     DEF InsertOrder, Reaches, CheckoutInv, CheckoutTables, CheckoutTyped,
         CallRecords
<1>4. orders' = orders \/ (orders = {} /\ orders' = {row})
  BY DEF InsertOrder
<1>5. row \in OrderRows
  BY DEF OrderRows
<1>6. CheckoutTyped'
  <2>1. call' \in [Calls -> CallRecords]
    BY <1>2, <1>3 DEF CheckoutInv, CheckoutTables, CheckoutTyped
  <2>2. orders' \subseteq OrderRows
    BY <1>4, <1>5 DEF CheckoutInv, CheckoutTables, CheckoutTyped
  <2> QED
    BY <2>1, <2>2 DEF InsertOrder, CheckoutInv, CheckoutTables, CheckoutTyped
<1>7. UNCHANGED <<claims, payments, confirmer>>
  BY DEF InsertOrder
<1>8. orders = {} =>
        /\ claims = {} /\ payments = {}
        /\ \A f \in Confirmers : confirmer[f].at \notin {"compare", "update"}
  BY DEF CheckoutInv, CheckoutTables, OneOfEach, ConfirmerWaits
<1>9. OneOfEach' /\ PaidIsNoDraft'
  BY <1>4, <1>7, <1>8 DEF CheckoutInv, CheckoutTables, OneOfEach, PaidIsNoDraft
<1>10. ConfirmerWaits'
  BY <1>4, <1>7 DEF CheckoutInv, CheckoutTables, ConfirmerWaits
<1>11. TablesGrow
  BY <1>4, <1>7 DEF TablesGrow
<1>12. CallKnows(c)'
  BY <1>3 DEF CallKnows, WithOrder, WithClaim, WithPayment
<1> QED
  BY <1>2, <1>3, <1>6, <1>9, <1>10, <1>11, <1>12, StepKeeps DEF CheckoutTables

LEMMA RereadOrderKeeps ==
  ASSUME CheckoutInv, NEW c \in Calls, RereadOrder(c)
  PROVE  CheckoutInv'
<1>1. CASE Reaches(c, "failed")
  BY <1>1, ReachKeeps
     DEF RereadOrder, CheckoutLabels, WithOrder, WithClaim, WithPayment
<1>2. CASE \E row \in orders : Took(c, row, "find claim")
  BY <1>2, TookKeeps DEF RereadOrder
<1> QED
  BY <1>1, <1>2 DEF RereadOrder

\* A call takes the payment of the claim that stands.
LEMMA ClaimedKnows ==
  ASSUME CheckoutInv, NEW c \in Calls, NEW claim \in claims',
         claims \subseteq claims',
         call[c].at \in WithOrder, claim.order = call[c].order.id,
         claim \in [order : Calls, payment : Calls],
         call' = [call EXCEPT ![c].payment = claim.payment,
                              ![c].at = "find payment"],
         UNCHANGED <<orders, payments, confirmer>>
  PROVE  /\ \E next \in CallRecords : call' = [call EXCEPT ![c] = next]
         /\ CallKnows(c)'
<1> DEFINE next == [call[c] EXCEPT !.payment = claim.payment,
                                   !.at = "find payment"]
<1>1. call[c] \in CallRecords
  BY DEF CheckoutInv, CheckoutTables, CheckoutTyped
<1>2. next \in CallRecords
  BY <1>1 DEF CallRecords, CheckoutLabels, WithOrder, WithClaim
<1>3. /\ call' = [call EXCEPT ![c] = next]
      /\ call'[c] = next /\ next.at = "find payment"
      /\ next.order = call[c].order /\ next.payment = claim.payment
  BY <1>1 DEF CheckoutInv, CheckoutTables, CheckoutTyped, CallRecords
<1>4. CallKnows(c)'
  <2> HIDE DEF next
  <2>1. \E x \in claims' :
          x.order = call'[c].order.id /\ x.payment = call'[c].payment
    BY <1>3
  <2>2. /\ call'[c].order \in OrderRows
        /\ \E row \in orders' :
             /\ row.id = call'[c].order.id
             /\ call'[c].order.status # "draft" => row.status # "draft"
    <3>1. /\ call[c].order \in OrderRows
          /\ \E row \in orders :
               /\ row.id = call[c].order.id
               /\ call[c].order.status # "draft" => row.status # "draft"
      BY DEF CheckoutInv, CallKnows
    <3>2. call'[c].order = call[c].order
      BY <1>3
    <3> QED
      BY <3>1, <3>2
  <2>3. /\ call'[c].at \notin WithPayment
        /\ call'[c].at # "answered" /\ call'[c].at # "update order"
    BY <1>3 DEF WithPayment
  <2> QED
    BY <2>1, <2>2, <2>3 DEF CallKnows
<1> QED
  BY <1>2, <1>3, <1>4

LEMMA FindClaimKeeps ==
  ASSUME CheckoutInv, NEW c \in Calls, FindClaim(c)
  PROVE  CheckoutInv'
<1>1. CASE Reaches(c, "claim")
  BY <1>1, ReachKeeps
     DEF FindClaim, CheckoutLabels, WithOrder, WithClaim, WithPayment
<1>2. CASE \E claim \in ClaimsOf(c) :
             call' = [call EXCEPT ![c].payment = claim.payment,
                                  ![c].at = "find payment"]
  <2>1. PICK claim \in claims :
          /\ claim.order = call[c].order.id
          /\ call' = [call EXCEPT ![c].payment = claim.payment,
                                  ![c].at = "find payment"]
    BY <1>2 DEF ClaimsOf
  <2>2. /\ call[c].at \in WithOrder
        /\ claim \in [order : Calls, payment : Calls]
        /\ UNCHANGED <<orders, claims, payments, confirmer>>
    BY DEF FindClaim, WithOrder, CheckoutInv, CheckoutTables, CheckoutTyped
  <2>3. /\ \E next \in CallRecords : call' = [call EXCEPT ![c] = next]
        /\ CallKnows(c)'
    BY <2>1, <2>2, ClaimedKnows
  <2> QED
    BY <2>2, <2>3, CheckoutReadKeeps
<1> QED
  BY <1>1, <1>2 DEF FindClaim

LEMMA ClaimPaymentKeeps ==
  ASSUME CheckoutInv, NEW c \in Calls, ClaimPayment(c)
  PROVE  CheckoutInv'
<1> DEFINE new == [order |-> call[c].order.id, payment |-> c]
<1>1. /\ call[c].at = "claim" /\ call[c].at \in WithOrder
      /\ call[c].order \in OrderRows
      /\ \E row \in orders : row.id = call[c].order.id
  BY DEF ClaimPayment, WithOrder, CheckoutInv, CallKnows
<1>2. \/ claims' = claims
      \/ claims = {} /\ claims' = {new}
  <2>1. CASE ClaimsOf(c) = {}
    <3>1. \A x \in claims : x.order = call[c].order.id
      BY <1>1 DEF CheckoutInv, CheckoutTables, OneOfEach
    <3>2. claims = {}
      BY <2>1, <3>1 DEF ClaimsOf
    <3> QED
      BY <2>1, <3>2 DEF ClaimPayment
  <2>2. CASE ClaimsOf(c) # {}
    BY <2>2 DEF ClaimPayment
  <2> QED
    BY <2>1, <2>2
<1>3. new \in [order : Calls, payment : Calls]
  BY <1>1 DEF OrderRows
<1>4. claims \subseteq claims' /\ UNCHANGED <<orders, payments, confirmer>>
  BY <1>2 DEF ClaimPayment
<1>5. claims' \subseteq [order : Calls, payment : Calls]
  BY <1>2, <1>3 DEF CheckoutInv, CheckoutTables, CheckoutTyped
<1>6. PICK claim \in claims' :
        /\ claim.order = call[c].order.id
        /\ call' = [call EXCEPT ![c].payment = claim.payment,
                                ![c].at = "find payment"]
  BY DEF ClaimPayment
<1>7. PICK next \in CallRecords : call' = [call EXCEPT ![c] = next]
  BY <1>1, <1>4, <1>5, <1>6, ClaimedKnows
<1>8. CallKnows(c)'
  BY <1>1, <1>4, <1>5, <1>6, ClaimedKnows
<1>9. CheckoutTyped' /\ PaidIsNoDraft' /\ ConfirmerWaits'
  BY <1>4, <1>5, <1>7
     DEF CheckoutInv, CheckoutTables, CheckoutTyped, PaidIsNoDraft,
         ConfirmerWaits
<1>10. OneOfEach'
  BY <1>1, <1>2, <1>4 DEF CheckoutInv, CheckoutTables, OneOfEach
<1>11. TablesGrow
  BY <1>4 DEF TablesGrow
<1> QED
  BY <1>7, <1>8, <1>9, <1>10, <1>11, StepKeeps DEF CheckoutTables

LEMMA FindPaymentKeeps ==
  ASSUME CheckoutInv, NEW c \in Calls, FindPayment(c)
  PROVE  CheckoutInv'
<1>1. call[c].at \in WithOrder /\ call[c].at \in WithClaim
  BY DEF FindPayment, WithOrder, WithClaim
<1>2. CASE Own(c) = {} /\ Reaches(c, "insert payment")
  BY <1>1, <1>2, ReachKeeps
     DEF FindPayment, CheckoutLabels, WithOrder, WithClaim, WithPayment
<1>3. CASE Own(c) # {} /\ Reaches(c, "ensure pending")
  <2>1. \E p \in payments : p.id = call[c].payment
    BY <1>3 DEF Own
  <2> QED
    BY <1>1, <1>3, <2>1, ReachKeeps
       DEF FindPayment, CheckoutLabels, WithOrder, WithClaim, WithPayment
<1> QED
  BY <1>2, <1>3 DEF FindPayment

LEMMA InsertPaymentKeeps ==
  ASSUME CheckoutInv, NEW c \in Calls, InsertPayment(c)
  PROVE  CheckoutInv'
<1> DEFINE next == [call[c] EXCEPT !.at = "reread payment"]
           new == [id |-> call[c].payment, status |-> "pending"]
<1>1. call[c] \in CallRecords
  BY DEF CheckoutInv, CheckoutTables, CheckoutTyped
<1>2. next \in CallRecords
  BY <1>1 DEF CallRecords, CheckoutLabels, WithOrder, WithClaim
<1>3. /\ call' = [call EXCEPT ![c] = next]
      /\ call'[c].at = "reread payment"
      /\ call'[c].order = call[c].order
      /\ call'[c].payment = call[c].payment
  BY <1>1
     DEF InsertPayment, Reaches, CheckoutInv, CheckoutTables, CheckoutTyped,
         CallRecords
<1>4. /\ \E x \in claims :
           x.order = call[c].order.id /\ x.payment = call[c].payment
      /\ call[c].at \in WithOrder
      /\ UNCHANGED <<orders, claims, confirmer>>
  BY DEF InsertPayment, CheckoutInv, CallKnows, WithOrder, WithClaim
<1>5. \/ payments' = payments
      \/ payments = {} /\ payments' = {new}
  <2>1. CASE Own(c) = {}
    <3>1. \A p \in payments : p.id = call[c].payment
      <4> SUFFICES ASSUME NEW p \in payments
                   PROVE  p.id = call[c].payment
        OBVIOUS
      <4>1. PICK x \in claims : x.payment = p.id
        BY DEF CheckoutInv, CheckoutTables, OneOfEach
      <4>2. x.payment = call[c].payment
        BY <1>4 DEF CheckoutInv, CheckoutTables, OneOfEach
      <4> QED
        BY <4>1, <4>2
    <3>2. payments = {}
      BY <2>1, <3>1 DEF Own
    <3> QED
      BY <2>1, <3>2 DEF InsertPayment
  <2>2. CASE Own(c) # {}
    BY <2>2 DEF InsertPayment
  <2> QED
    BY <2>1, <2>2
<1>6. CheckoutTyped'
  <2>1. call' \in [Calls -> CallRecords]
    BY <1>2, <1>3 DEF CheckoutInv, CheckoutTables, CheckoutTyped
  <2>2. new \in PaymentRows
    BY <1>4 DEF CheckoutInv, CheckoutTables, CheckoutTyped, PaymentRows
  <2> QED
    BY <1>4, <1>5, <2>1, <2>2 DEF CheckoutInv, CheckoutTables, CheckoutTyped
<1>7. OneOfEach'
  <2>1. \E x \in claims : x.payment = new.id
    BY <1>4
  <2> QED
    BY <1>4, <1>5, <2>1 DEF CheckoutInv, CheckoutTables, OneOfEach
<1>8. PaidIsNoDraft' /\ ConfirmerWaits'
  BY <1>4, <1>5 DEF CheckoutInv, CheckoutTables, PaidIsNoDraft, ConfirmerWaits
<1>9. TablesGrow
  BY <1>4, <1>5 DEF TablesGrow
<1>10. CallKnows(c)'
  <2>1. \E x \in claims' :
          x.order = call'[c].order.id /\ x.payment = call'[c].payment
    BY <1>3, <1>4
  <2>2. /\ call'[c].order \in OrderRows
        /\ \E row \in orders' :
             /\ row.id = call'[c].order.id
             /\ call'[c].order.status # "draft" => row.status # "draft"
    BY <1>3, <1>4 DEF CheckoutInv, CallKnows
  <2> QED
    BY <1>3, <2>1, <2>2 DEF CallKnows, WithPayment
<1> QED
  BY <1>2, <1>3, <1>6, <1>7, <1>8, <1>9, <1>10, StepKeeps DEF CheckoutTables

LEMMA RereadPaymentKeeps ==
  ASSUME CheckoutInv, NEW c \in Calls, RereadPayment(c)
  PROVE  CheckoutInv'
<1>1. /\ call[c].at \in WithOrder /\ call[c].at \in WithClaim
      /\ \E p \in payments : p.id = call[c].payment
  BY DEF RereadPayment, WithOrder, WithClaim, Own
<1>2. PICK label \in {"ensure pending", "failed"} : Reaches(c, label)
  BY DEF RereadPayment
<1>3. label \in CheckoutLabels
  BY DEF CheckoutLabels, WithOrder, WithClaim, WithPayment
<1> QED
  BY <1>1, <1>2, <1>3, ReachKeeps DEF RereadPayment

LEMMA EnsurePendingKeeps ==
  ASSUME CheckoutInv, NEW c \in Calls, NEW clock \in CallClocks,
         EnsurePending(c, clock)
  PROVE  CheckoutInv'
<1>1. /\ call[c].at = "ensure pending"
      /\ call[c].at \in WithOrder /\ call[c].at \in WithClaim
      /\ \E p \in payments : p.id = call[c].payment
      /\ call[c].order \in OrderRows
      /\ \E row \in orders :
           call[c].order.status # "draft" => row.status # "draft"
  BY DEF EnsurePending, WithOrder, WithClaim, WithPayment, CheckoutInv,
         CallKnows
<1>2. CASE call[c].order.status # "draft"
  <2>1. Reaches(c, "answered")
    BY <1>2 DEF EnsurePending
  <2>2. "answered" \in CheckoutLabels
    BY DEF CheckoutLabels, WithOrder, WithClaim, WithPayment
  <2> QED
    BY <1>1, <1>2, <2>1, <2>2, ReachKeeps DEF EnsurePending
<1>3. CASE call[c].order.status = "draft"
  <2> DEFINE time == Greater(clock, call[c].order.updated + 1)
             next == [call[c] EXCEPT !.at = "save order", !.updated = time]
  <2>1. call[c] \in CallRecords
    BY DEF CheckoutInv, CheckoutTables, CheckoutTyped
  <2>2. time \in Nat
    <3>1. clock \in Nat /\ call[c].order.updated \in Nat
      BY <1>1, CallClocksAssumption DEF OrderRows
    <3> QED
      BY <3>1 DEF Greater
  <2>3. next \in CallRecords
    BY <2>1, <2>2
       DEF CallRecords, CheckoutLabels, WithOrder, WithClaim, WithPayment
  <2>4. /\ call' = [call EXCEPT ![c] = next]
        /\ call'[c].at = "save order"
        /\ call'[c].order = call[c].order
        /\ call'[c].payment = call[c].payment
    <3>1. call' = [call EXCEPT ![c].at = "save order", ![c].updated = time]
      BY <1>3 DEF EnsurePending
    <3>2. call' = [call EXCEPT ![c] = next]
      BY <3>1 DEF CheckoutInv, CheckoutTables, CheckoutTyped
    <3> QED
      BY <2>1, <3>2 DEF CheckoutInv, CheckoutTables, CheckoutTyped, CallRecords
  <2>5. UNCHANGED <<orders, claims, payments, confirmer>>
    BY DEF EnsurePending
  <2>6. CallKnows(c)'
    <3>1. \E x \in claims' :
            x.order = call'[c].order.id /\ x.payment = call'[c].payment
      BY <1>1, <2>4, <2>5 DEF CheckoutInv, CallKnows
    <3>2. /\ call'[c].order \in OrderRows
          /\ \E row \in orders' :
               /\ row.id = call'[c].order.id
               /\ call'[c].order.status # "draft" => row.status # "draft"
      BY <1>1, <2>4, <2>5 DEF CheckoutInv, CallKnows
    <3>3. \E p \in payments' : p.id = call'[c].payment
      BY <1>1, <2>4, <2>5
    <3> QED
      BY <2>4, <3>1, <3>2, <3>3 DEF CallKnows
  <2> QED
    BY <2>3, <2>4, <2>5, <2>6, CheckoutReadKeeps
<1> QED
  BY <1>2, <1>3

LEMMA CompareOrderKeeps ==
  ASSUME CheckoutInv, NEW c \in Calls, CompareOrder(c)
  PROVE  CheckoutInv'
<1>1. /\ call[c].at = "save order"
      /\ call[c].at \in WithOrder /\ call[c].at \in WithClaim
      /\ \E p \in payments : p.id = call[c].payment
      /\ UNCHANGED <<orders, claims, payments, confirmer>>
  BY DEF CompareOrder, WithOrder, WithClaim, WithPayment, CheckoutInv,
         CallKnows
<1>2. PICK row \in orders :
        \/ Reaches(c, "failed")
        \/ row.status # "draft" /\ Reaches(c, "answered")
        \/ row.status # "payment_confirmed" /\ Took(c, row, "update order")
  BY DEF CompareOrder
<1>3. {"failed", "answered"} \subseteq CheckoutLabels
  BY DEF CheckoutLabels, WithOrder, WithClaim, WithPayment
<1>4. CASE Reaches(c, "failed")
  BY <1>1, <1>3, <1>4, ReachKeeps DEF WithOrder, WithClaim, WithPayment
<1>5. CASE row.status # "draft" /\ Reaches(c, "answered")
  BY <1>1, <1>3, <1>5, ReachKeeps
<1>6. CASE row.status # "payment_confirmed" /\ Took(c, row, "update order")
  BY <1>1, <1>6, TookKeeps
<1> QED
  BY <1>2, <1>4, <1>5, <1>6

LEMMA UpdateOrderKeeps ==
  ASSUME CheckoutInv, NEW c \in Calls, UpdateOrder(c)
  PROVE  CheckoutInv'
<1>1. /\ call[c].at = "update order"
      /\ call[c].at \in WithOrder /\ call[c].at \in WithClaim
      /\ call[c].order \in OrderRows
      /\ call[c].updated \in Nat
      /\ \E x \in claims :
           x.order = call[c].order.id /\ x.payment = call[c].payment
      /\ \E p \in payments : p.id = call[c].payment
      /\ UNCHANGED <<claims, payments, confirmer>>
  BY DEF UpdateOrder, WithOrder, WithClaim, WithPayment, CheckoutInv,
         CallKnows, CheckoutTables, CheckoutTyped, CallRecords
<1>2. {"failed", "answered"} \subseteq CheckoutLabels
  BY DEF CheckoutLabels, WithOrder, WithClaim, WithPayment
<1>3. CASE call[c].order \notin orders
  <2>1. UNCHANGED orders
    BY <1>3 DEF UpdateOrder
  <2>2. CASE \E row \in orders : row.status = "draft"
    <3>1. Reaches(c, "failed")
      BY <1>3, <2>2 DEF UpdateOrder
    <3> QED
      BY <1>1, <1>2, <2>1, <3>1, ReachKeeps
         DEF WithOrder, WithClaim, WithPayment
  <2>3. CASE ~\E row \in orders : row.status = "draft"
    <3>1. Reaches(c, "answered")
      BY <1>3, <2>3 DEF UpdateOrder
    <3>2. \E row \in orders : row.status # "draft"
      BY <1>1, <2>3 DEF CheckoutInv, CallKnows
    <3> QED
      BY <1>1, <1>2, <2>1, <3>1, <3>2, ReachKeeps
  <2> QED
    BY <2>2, <2>3
<1>4. CASE call[c].order \in orders
  <2> DEFINE next == [call[c] EXCEPT !.at = "answered"]
  <2>1. /\ orders' = {Pending(c)}
        /\ Reaches(c, "answered")
    BY <1>4 DEF UpdateOrder
  <2>2. /\ Pending(c) \in OrderRows
        /\ Pending(c).id = call[c].order.id
        /\ Pending(c).status = "pending_payment"
    BY <1>1 DEF Pending, OrderRows
  <2>3. call[c] \in CallRecords
    BY DEF CheckoutInv, CheckoutTables, CheckoutTyped
  <2>4. next \in CallRecords
    BY <1>2, <2>3 DEF CallRecords
  <2>5. /\ call' = [call EXCEPT ![c] = next]
        /\ call'[c].at = "answered"
        /\ call'[c].order = call[c].order
        /\ call'[c].payment = call[c].payment
    BY <2>1, <2>3
       DEF Reaches, CheckoutInv, CheckoutTables, CheckoutTyped, CallRecords
  <2>6. \A row \in orders : row = call[c].order
    BY <1>4 DEF CheckoutInv, CheckoutTables, OneOfEach
  <2>7. CheckoutTyped'
    <3>1. call' \in [Calls -> CallRecords]
      BY <2>4, <2>5 DEF CheckoutInv, CheckoutTables, CheckoutTyped
    <3> QED
      BY <1>1, <2>1, <2>2, <3>1 DEF CheckoutInv, CheckoutTables, CheckoutTyped
  <2>8. OneOfEach' /\ PaidIsNoDraft'
    BY <1>1, <2>1, <2>2, <2>6
       DEF CheckoutInv, CheckoutTables, OneOfEach, PaidIsNoDraft
  <2>9. ConfirmerWaits'
    <3>1. \A f \in Confirmers : confirmer[f].at = "update" =>
            Pending(c).id = confirmer[f].order.id
      BY <2>2, <2>6 DEF CheckoutInv, CheckoutTables, ConfirmerWaits
    <3> QED
      BY <1>1, <2>1, <2>2, <3>1 DEF CheckoutInv, CheckoutTables, ConfirmerWaits
  <2>10. TablesGrow
    BY <1>1, <2>1, <2>2, <2>6 DEF TablesGrow
  <2>11. CallKnows(c)'
    <3>1. /\ \E x \in claims' :
               x.order = call'[c].order.id /\ x.payment = call'[c].payment
          /\ \E p \in payments' : p.id = call'[c].payment
      BY <1>1, <2>5
    <3>2. Pending(c) \in orders' /\ Pending(c).id = call'[c].order.id
      BY <2>1, <2>2, <2>5
    <3> QED
      BY <1>1, <2>2, <2>5, <3>1, <3>2 DEF CallKnows
  <2> QED
    BY <2>4, <2>5, <2>7, <2>8, <2>9, <2>10, <2>11, StepKeeps DEF CheckoutTables
<1> QED
  BY <1>3, <1>4

LEMMA CallDiesKeeps ==
  ASSUME CheckoutInv, NEW c \in Calls, CallDies(c)
  PROVE  CheckoutInv'
BY ReachKeeps DEF CallDies, CheckoutLabels, WithOrder, WithClaim, WithPayment

-----------------------------------------------------------------------------
(* The steps of the buyer and of the confirmation *)

\* A step that leaves the calls alone.
LEMMA OutsideKeeps ==
  ASSUME CheckoutInv, CheckoutTables', TablesGrow, UNCHANGED call
  PROVE  CheckoutInv'
BY CheckoutCallStable DEF CheckoutInv

\* The payment moves on, when no order is a draft or when it does not become
\* confirmed.
LEMMA PaymentMoves ==
  ASSUME CheckoutInv, NEW c \in Calls, c \in Answered,
         NEW from, NEW to \in {"submitted", "confirmed"},
         MovesPayment(c, from, to),
         UNCHANGED <<orders, claims, call, confirmer>>
  PROVE  CheckoutInv'
<1>1. PICK p \in payments :
        payments' = (payments \ {p}) \cup {[p EXCEPT !.status = to]}
  BY DEF MovesPayment, Own
<1> DEFINE moved == [p EXCEPT !.status = to]
<1>2. p \in PaymentRows
  BY DEF CheckoutInv, CheckoutTables, CheckoutTyped
<1>3. moved \in PaymentRows /\ moved.id = p.id
  BY <1>2 DEF PaymentRows
<1>4. payments = {p} /\ payments' = {moved}
  BY <1>1 DEF CheckoutInv, CheckoutTables, OneOfEach
<1>5. \A row \in orders : row.status # "draft"
  BY DEF Answered, CheckoutInv, CallKnows, CheckoutTables, OneOfEach
<1> HIDE DEF moved
<1>6. CheckoutTyped' /\ ConfirmerWaits'
  BY <1>3, <1>4 DEF CheckoutInv, CheckoutTables, CheckoutTyped, ConfirmerWaits
<1>7. OneOfEach' /\ PaidIsNoDraft'
  BY <1>3, <1>4, <1>5
     DEF CheckoutInv, CheckoutTables, OneOfEach, PaidIsNoDraft
<1>8. TablesGrow
  BY <1>3, <1>4 DEF TablesGrow
<1> QED
  BY <1>6, <1>7, <1>8, OutsideKeeps DEF CheckoutTables

LEMMA PayKeeps ==
  ASSUME CheckoutInv, NEW c \in Calls, Pay(c) \/ SubmitPayment(c)
  PROVE  CheckoutInv'
BY PaymentMoves DEF Pay, SubmitPayment

\* A step of one handler that only reads.
LEMMA ConfirmerReads ==
  ASSUME CheckoutInv, NEW f \in Confirmers, NEW next \in ConfirmerRows,
         confirmer' = [confirmer EXCEPT ![f] = next],
         UNCHANGED <<orders, claims, payments, call>>,
         next.at # "idle" => \E row \in orders : row.status # "draft",
         next.at = "update" =>
           /\ next.order \in orders
           /\ next.order.updated < next.updated
  PROVE  CheckoutInv'
<1>1. CheckoutTyped'
  BY DEF CheckoutInv, CheckoutTables, CheckoutTyped
<1>2. ConfirmerWaits'
  <2> SUFFICES ASSUME NEW g \in Confirmers
               PROVE  /\ confirmer'[g].at # "idle" =>
                           \E row \in orders : row.status # "draft"
                      /\ confirmer'[g].at = "update" =>
                           /\ confirmer'[g].order \in OrderRows
                           /\ confirmer'[g].order.updated
                                < confirmer'[g].updated
                           /\ \E row \in orders :
                                row.id = confirmer'[g].order.id
    BY DEF ConfirmerWaits
  <2>1. CASE g = f
    <3>1. confirmer'[g] = next
      BY <2>1 DEF CheckoutInv, CheckoutTables, CheckoutTyped
    <3> QED
      BY <3>1 DEF CheckoutInv, CheckoutTables, CheckoutTyped
  <2>2. CASE g # f
    <3>1. confirmer'[g] = confirmer[g]
      BY <2>2 DEF CheckoutInv, CheckoutTables, CheckoutTyped
    <3> QED
      BY <3>1 DEF CheckoutInv, CheckoutTables, ConfirmerWaits
  <2> QED
    BY <2>1, <2>2
<1>3. OneOfEach' /\ PaidIsNoDraft' /\ TablesGrow
  BY DEF CheckoutInv, CheckoutTables, OneOfEach, PaidIsNoDraft, TablesGrow
<1> QED
  BY <1>1, <1>2, <1>3, OutsideKeeps DEF CheckoutTables

LEMMA ReadForConfirmationKeeps ==
  ASSUME CheckoutInv, NEW f \in Confirmers, NEW clock \in CallClocks,
         ReadForConfirmation(f, clock)
  PROVE  CheckoutInv'
<1>1. PICK row \in orders :
        /\ row.status = "pending_payment"
        /\ confirmer' = [confirmer EXCEPT ![f] =
             [at |-> "compare", order |-> row,
              updated |-> Greater(clock, row.updated + 1)]]
  BY DEF ReadForConfirmation
<1> DEFINE time == Greater(clock, row.updated + 1)
           next == [at |-> "compare", order |-> row, updated |-> time]
<1>2. row \in OrderRows
  BY DEF CheckoutInv, CheckoutTables, CheckoutTyped
<1>3. time \in Nat
  BY <1>2, CallClocksAssumption DEF Greater, OrderRows
<1> HIDE DEF time
<1>4. next \in ConfirmerRows
  BY <1>2, <1>3 DEF ConfirmerRows
<1>5. /\ confirmer' = [confirmer EXCEPT ![f] = next]
      /\ next.at = "compare"
      /\ UNCHANGED <<orders, claims, payments, call>>
  BY <1>1 DEF ReadForConfirmation, time
<1> QED
  BY <1>1, <1>4, <1>5, ConfirmerReads

LEMMA CompareForConfirmationKeeps ==
  ASSUME CheckoutInv, NEW f \in Confirmers, CompareForConfirmation(f)
  PROVE  CheckoutInv'
<1>1. UNCHANGED <<orders, claims, payments, call>>
  BY DEF CompareForConfirmation
<1>2. confirmer[f] \in ConfirmerRows
  BY DEF CheckoutInv, CheckoutTables, CheckoutTyped
<1>3. CASE confirmer' = [confirmer EXCEPT ![f] = NoEvent]
  <2>1. NoEvent \in ConfirmerRows /\ NoEvent.at = "idle"
    BY DEF NoEvent, ConfirmerRows
  <2> QED
    BY <1>1, <1>3, <2>1, ConfirmerReads
<1>4. CASE confirmer' # [confirmer EXCEPT ![f] = NoEvent]
  <2>1. PICK row \in orders :
          /\ row.status # "draft" /\ ~(row.updated >= confirmer[f].updated)
          /\ confirmer' = [confirmer EXCEPT ![f] =
               [confirmer[f] EXCEPT !.at = "update", !.order = row]]
    BY <1>4 DEF CompareForConfirmation, CheckoutInv, CheckoutTables,
                CheckoutTyped
  <2> DEFINE next == [confirmer[f] EXCEPT !.at = "update", !.order = row]
  <2>2. row \in OrderRows
    BY DEF CheckoutInv, CheckoutTables, CheckoutTyped
  <2>3. /\ next \in ConfirmerRows /\ next.order = row
        /\ next.updated = confirmer[f].updated
    BY <1>2, <2>2 DEF ConfirmerRows
  <2>4. row.updated < next.updated
    BY <1>2, <2>1, <2>2, <2>3 DEF ConfirmerRows, OrderRows
  <2>5. confirmer' = [confirmer EXCEPT ![f] = next]
    BY <2>1
  <2> HIDE DEF next
  <2> QED
    BY <1>1, <2>1, <2>3, <2>4, <2>5, ConfirmerReads
<1> QED
  BY <1>3, <1>4

\* What a handler writes: its order, confirmed and newer.
LEMMA ConfirmedRow ==
  ASSUME CheckoutInv, NEW f \in Confirmers, confirmer[f].at = "update"
  PROVE  /\ Confirmed(f) \in OrderRows
         /\ Confirmed(f).id = confirmer[f].order.id
         /\ Confirmed(f).status = "payment_confirmed"
         /\ Confirmed(f).updated > confirmer[f].order.updated
<1>1. /\ confirmer[f].order \in OrderRows /\ confirmer[f] \in ConfirmerRows
      /\ confirmer[f].order.updated < confirmer[f].updated
  BY DEF CheckoutInv, CheckoutTables, CheckoutTyped, ConfirmerWaits
<1>2. confirmer[f].updated \in Nat
  BY <1>1 DEF ConfirmerRows
<1> QED
  BY <1>1, <1>2 DEF Confirmed, OrderRows

LEMMA ConfirmOrderKeeps ==
  ASSUME CheckoutInv, NEW f \in Confirmers, ConfirmOrder(f)
  PROVE  CheckoutInv'
<1> DEFINE row == Confirmed(f)
<1>1. /\ confirmer' = [confirmer EXCEPT ![f] = NoEvent]
      /\ UNCHANGED <<claims, payments, call>>
  BY DEF ConfirmOrder
<1>2. /\ row \in OrderRows
      /\ row.id = confirmer[f].order.id
      /\ row.status = "payment_confirmed"
  BY ConfirmedRow DEF ConfirmOrder
<1>3. \/ orders' = orders
      \/ orders = {confirmer[f].order} /\ orders' = {row}
  BY DEF ConfirmOrder, CheckoutInv, CheckoutTables, OneOfEach
<1> HIDE DEF row
<1>4. CheckoutTyped'
  <2>1. NoEvent \in ConfirmerRows
    BY DEF NoEvent, ConfirmerRows
  <2> QED
    BY <1>1, <1>2, <1>3, <2>1 DEF CheckoutInv, CheckoutTables, CheckoutTyped
<1>5. ConfirmerWaits'
  <2> SUFFICES ASSUME NEW g \in Confirmers, confirmer'[g].at # "idle"
               PROVE  /\ \E new \in orders' : new.status # "draft"
                      /\ confirmer'[g].at = "update" =>
                           /\ confirmer'[g].order \in OrderRows
                           /\ confirmer'[g].order.updated
                                < confirmer'[g].updated
                           /\ \E new \in orders' :
                                new.id = confirmer'[g].order.id
    BY <1>1 DEF ConfirmerWaits
  <2>1. confirmer'[g] = confirmer[g]
    BY <1>1 DEF NoEvent, CheckoutInv, CheckoutTables, CheckoutTyped
  <2>2. /\ \E old \in orders : old.status # "draft"
        /\ confirmer[g].at = "update" =>
             /\ confirmer[g].order \in OrderRows
             /\ confirmer[g].order.updated < confirmer[g].updated
             /\ \E old \in orders : old.id = confirmer[g].order.id
    BY <2>1 DEF CheckoutInv, CheckoutTables, ConfirmerWaits
  <2> QED
    BY <1>2, <1>3, <2>1, <2>2
<1>6. OneOfEach' /\ PaidIsNoDraft' /\ TablesGrow
  BY <1>1, <1>2, <1>3
     DEF CheckoutInv, CheckoutTables, OneOfEach, PaidIsNoDraft, TablesGrow
<1> QED
  BY <1>1, <1>4, <1>5, <1>6, OutsideKeeps DEF CheckoutTables

LEMMA CheckoutNextKeeps ==
  CheckoutInv /\ [CheckoutNext]_checkoutVars => CheckoutInv'
<1> SUFFICES ASSUME CheckoutInv, [CheckoutNext]_checkoutVars
             PROVE  CheckoutInv'
  OBVIOUS
<1>1. ASSUME NEW c \in Calls,
             \/ FindOrder(c) \/ InsertOrder(c) \/ RereadOrder(c)
             \/ FindClaim(c) \/ ClaimPayment(c)
      PROVE  CheckoutInv'
  BY <1>1, FindOrderKeeps, InsertOrderKeeps, RereadOrderKeeps,
     FindClaimKeeps, ClaimPaymentKeeps
<1>2. ASSUME NEW c \in Calls,
             \/ FindPayment(c) \/ InsertPayment(c) \/ RereadPayment(c)
             \/ CompareOrder(c) \/ UpdateOrder(c) \/ CallDies(c)
             \/ SubmitPayment(c) \/ Pay(c)
      PROVE  CheckoutInv'
  BY <1>2, FindPaymentKeeps, InsertPaymentKeeps, RereadPaymentKeeps,
     CompareOrderKeeps, UpdateOrderKeeps, CallDiesKeeps, PayKeeps
<1>3. ASSUME NEW c \in Calls, NEW clock \in CallClocks,
             EnsurePending(c, clock)
      PROVE  CheckoutInv'
  BY <1>3, EnsurePendingKeeps
<1>4. ASSUME NEW f \in Confirmers, NEW clock \in CallClocks,
             ReadForConfirmation(f, clock)
      PROVE  CheckoutInv'
  BY <1>4, ReadForConfirmationKeeps
<1>5. ASSUME NEW f \in Confirmers,
             CompareForConfirmation(f) \/ ConfirmOrder(f)
      PROVE  CheckoutInv'
  BY <1>5, CompareForConfirmationKeeps, ConfirmOrderKeeps
<1>6. CASE UNCHANGED checkoutVars
  BY <1>6
     DEF checkoutVars, CheckoutInv, CheckoutTables, CheckoutTyped, OneOfEach,
         PaidIsNoDraft, ConfirmerWaits, CallKnows
<1> QED
  BY <1>1, <1>2, <1>3, <1>4, <1>5, <1>6 DEF CheckoutNext

-----------------------------------------------------------------------------
(* Theorems *)

\* Every table holds at most one row, which names one of the table before it,
\* and every call finds what it knows of them.
THEOREM CheckoutInvariant == CheckoutSpec => []CheckoutInv
BY CheckoutInitHolds, CheckoutNextKeeps, PTL DEF CheckoutSpec

\* The tables of a checkout, its calls and its confirmer keep their types.
THEOREM CheckoutTypes == CheckoutSpec => []CheckoutTypeOK
<1>1. CheckoutInv => CheckoutTypeOK
  BY DEF CheckoutInv, CheckoutTables, CheckoutTyped, CallRecords,
         CheckoutTypeOK
<1> QED
  BY <1>1, CheckoutInvariant, PTL

\* Calls that race under one request key end in one order and one payment,
\* which every answer names, and no paid order is a draft.
THEOREM CheckoutMakesOne == CheckoutSpec => []OneOrderOnePayment
<1>1. CheckoutInv => OneOrderOnePayment
  <2> SUFFICES ASSUME CheckoutInv
               PROVE  OneOrderOnePayment
    OBVIOUS
  <2>1. Cardinality(orders) <= 1 /\ Cardinality(payments) <= 1
    BY AtMostOneHasCardinality DEF CheckoutInv, CheckoutTables, OneOfEach
  <2>2. \A c \in Answered :
          /\ \E p \in payments : p.id = call[c].payment
          /\ \E row \in orders :
               row.id = call[c].order.id /\ row.status # "draft"
    <3> SUFFICES ASSUME NEW c \in Calls, call[c].at = "answered"
                 PROVE  /\ \E p \in payments : p.id = call[c].payment
                        /\ \E row \in orders : /\ row.id = call[c].order.id
                                               /\ row.status # "draft"
      BY DEF Answered
    <3>1. call[c].at \in WithPayment /\ call[c].at \in WithOrder
      BY DEF WithOrder, WithClaim, WithPayment
    <3> QED
      BY <3>1 DEF CheckoutInv, CallKnows, CheckoutTables, OneOfEach
  <2> QED
    BY <2>1, <2>2
       DEF CheckoutInv, CheckoutTables, PaidIsNoDraft, OneOrderOnePayment
<1> QED
  BY <1>1, CheckoutInvariant, PTL

\* No late call takes back an order that others confirmed, and no handler
\* that confirms it again makes it older.
THEOREM PaidOrdersStay == CheckoutSpec => PaidOrderStaysPaid
<1> DEFINE Stays(row) ==
             \E new \in orders' :
               /\ new.id = row.id /\ new.status = "payment_confirmed"
               /\ new.updated >= row.updated
<1>1. CheckoutInv /\ [CheckoutNext]_checkoutVars =>
        [\A row \in orders :
           row.status = "payment_confirmed" => Stays(row)]_checkoutVars
  <2> SUFFICES ASSUME CheckoutInv, CheckoutNext, NEW row \in orders,
                      row.status = "payment_confirmed"
               PROVE  Stays(row)
    OBVIOUS
  <2>1. row \in OrderRows /\ row.updated \in Nat
    BY DEF CheckoutInv, CheckoutTables, CheckoutTyped, OrderRows
  <2>2. CASE row \in orders'
    BY <2>1, <2>2
  <2>3. ASSUME NEW c \in Calls, InsertOrder(c)
        PROVE  row \in orders'
    BY <2>3 DEF InsertOrder
  <2>4. ASSUME NEW c \in Calls, UpdateOrder(c)
        PROVE  row \in orders'
    <3>1. call[c].order \notin orders
      BY <2>4 DEF UpdateOrder, CheckoutInv, CallKnows, CheckoutTables, OneOfEach
    <3> QED
      BY <2>4, <3>1 DEF UpdateOrder
  <2>5. ASSUME NEW f \in Confirmers, ConfirmOrder(f)
        PROVE  Stays(row)
    <3>1. CASE confirmer[f].order \notin orders
      BY <2>2, <2>5, <3>1 DEF ConfirmOrder
    <3>2. CASE confirmer[f].order \in orders
      <4>1. confirmer[f].order = row
        BY <3>2 DEF CheckoutInv, CheckoutTables, OneOfEach
      <4>2. confirmer[f].at = "update" /\ orders' = {Confirmed(f)}
        BY <2>5, <3>2 DEF ConfirmOrder
      <4>3. /\ Confirmed(f).id = row.id
            /\ Confirmed(f).status = "payment_confirmed"
            /\ Confirmed(f).updated > row.updated
            /\ Confirmed(f) \in OrderRows
        BY <4>1, <4>2, ConfirmedRow
      <4>4. Confirmed(f).updated >= row.updated
        BY <2>1, <4>3 DEF OrderRows
      <4> QED
        BY <4>2, <4>3, <4>4
    <3> QED
      BY <3>1, <3>2
  <2>6. CASE UNCHANGED orders
    BY <2>2, <2>6
  <2> QED
    BY <2>2, <2>3, <2>4, <2>5, <2>6
       DEF CheckoutNext, FindOrder, RereadOrder, FindClaim, ClaimPayment,
           FindPayment, InsertPayment, RereadPayment, EnsurePending,
           CompareOrder, CallDies, SubmitPayment, Pay, ReadForConfirmation,
           CompareForConfirmation
<1> QED
  BY <1>1, CheckoutInvariant, PTL DEF CheckoutSpec, PaidOrderStaysPaid

-----------------------------------------------------------------------------
-----------------------------------------------------------------------------
(* REFUNDS.

   A call answers several statements after the ones its answer rests on; what
   it relies on in between is a refund at the provider, an accepted row or a
   refunded payment. *)

TheKey == "refund:v1"

RefundCallRows ==
  [at : {"read payment", "read request", "read books", "claim", "command",
         "read for acceptance", "accept", "read again", "refused",
         "failed", "AWAITING_VERIFIED_EVENT", "COMPLETED"},
   seen : {"none", "confirmed", "refunded"},
   existing : {"none", "claimed", "provider_accepted"},
   reference : References, updated : {0} \cup RefundTimes,
   now : {0} \cup RefundTimes]

\* An accepted row names the one refund the provider made.
AcceptedIsMade ==
  refundRow.status = "provider_accepted" =>
    refundRow.reference = TheKey /\ providerRefunds = {TheKey}

\* What a call relies on at its label.
CallRelies(c) ==
  /\ refundCall[c].seen = "refunded" => refundable.status = "refunded"
  /\ refundCall[c].existing = "provider_accepted" =>
       refundRow.status = "provider_accepted"
  /\ refundCall[c].at \in {"read for acceptance", "accept"} =>
       refundCall[c].reference = TheKey /\ providerRefunds = {TheKey}
  /\ refundCall[c].at \in {"read again", "AWAITING_VERIFIED_EVENT"} =>
       refundRow.status = "provider_accepted"
  /\ refundCall[c].at = "COMPLETED" => refundable.status = "refunded"

RefundInv ==
  /\ RefundTypeOK
  /\ providerRefunds \subseteq {TheKey}
  /\ AcceptedIsMade
  /\ \A c \in RefundCalls : CallRelies(c)

-----------------------------------------------------------------------------
(* Lemmas *)

LEMMA RefundInitHolds == RefundInit => RefundInv
<1> SUFFICES ASSUME RefundInit
             PROVE  RefundInv
  OBVIOUS
<1>1. NewRefundCall \in RefundCallRows
  BY DEF NewRefundCall, RefundCallRows, References
<1>2. RefundTypeOK
  <2>1. refundCall \in [RefundCalls -> RefundCallRows]
    BY <1>1 DEF RefundInit
  <2> QED
    BY <2>1
       DEF RefundInit, RefundTypeOK, RefundCallRows, NoRefundRow, References,
           NoReference
<1>3. \A c \in RefundCalls : CallRelies(c)
  BY DEF RefundInit, CallRelies, NewRefundCall
<1> QED
  BY <1>2, <1>3 DEF RefundInit, RefundInv, AcceptedIsMade, NoRefundRow

\* Calls that stay where they are keep what they rely on when the refunds, the
\* row and the payment only move on.
LEMMA RefundCallStable ==
  ASSUME RefundInv, NEW c \in RefundCalls, refundCall'[c] = refundCall[c],
         refundable.status = "refunded" => refundable'.status = "refunded",
         providerRefunds \subseteq providerRefunds',
         providerRefunds' \subseteq {TheKey},
         refundRow.status = "provider_accepted" =>
           refundRow'.status = "provider_accepted"
  PROVE  CallRelies(c)'
BY DEF RefundInv, CallRelies

\* What a call holds when it goes on to another label.
LEMMA RefundEndsAt ==
  ASSUME RefundInv, NEW c \in RefundCalls,
         NEW label \in {"claim", "command", "read again", "failed"},
         refundCall' = [refundCall EXCEPT ![c].at = label]
  PROVE  /\ refundCall' \in [RefundCalls -> RefundCallRows]
         /\ refundCall'[c].at = label
         /\ refundCall'[c].seen = refundCall[c].seen
         /\ refundCall'[c].existing = refundCall[c].existing
         /\ refundCall'[c].reference = refundCall[c].reference
<1> DEFINE next == [refundCall[c] EXCEPT !.at = label]
<1>1. refundCall \in [RefundCalls -> RefundCallRows]
  BY DEF RefundInv, RefundTypeOK, RefundCallRows
<1>2. /\ next \in RefundCallRows /\ next.at = label
      /\ next.seen = refundCall[c].seen
      /\ next.existing = refundCall[c].existing
      /\ next.reference = refundCall[c].reference
  BY <1>1 DEF RefundCallRows
<1>3. refundCall' = [refundCall EXCEPT ![c] = next]
  BY <1>1
<1> HIDE DEF next
<1> QED
  BY <1>1, <1>2, <1>3

\* A call that only moves to another label needs what it relies on there.
LEMMA RefundMoveKeeps ==
  ASSUME RefundInv, NEW c \in RefundCalls,
         NEW next \in RefundCallRows,
         refundCall' = [refundCall EXCEPT ![c] = next],
         CallRelies(c)',
         UNCHANGED <<refundable, refundRow, providerRefunds>>
  PROVE  RefundInv'
<1>1. \A d \in RefundCalls : CallRelies(d)'
  <2> SUFFICES ASSUME NEW d \in RefundCalls, d # c
               PROVE  CallRelies(d)'
    OBVIOUS
  <2>1. refundCall'[d] = refundCall[d]
    BY DEF RefundInv, RefundTypeOK
  <2> QED
    BY <2>1, RefundCallStable DEF RefundInv
<1>2. RefundTypeOK' /\ AcceptedIsMade'
  BY DEF RefundInv, RefundTypeOK, AcceptedIsMade, RefundCallRows
<1> QED
  BY <1>1, <1>2 DEF RefundInv

\* The payment and the books go on, the calls stay.
LEMMA PaymentKeeps ==
  ASSUME RefundInv, ConfirmRefundable \/ BookApproval \/ RefundVerified
  PROVE  RefundInv'
<1>1. /\ refundable.status = "refunded" => refundable'.status = "refunded"
      /\ UNCHANGED <<refundRow, providerRefunds, refundCall>>
  BY DEF ConfirmRefundable, BookApproval, RefundVerified, RefundInv,
         RefundTypeOK
<1>2. \A c \in RefundCalls : CallRelies(c)'
  BY <1>1, RefundCallStable DEF RefundInv
<1>3. RefundTypeOK'
  BY DEF ConfirmRefundable, BookApproval, RefundVerified, RefundInv,
         RefundTypeOK
<1> QED
  BY <1>1, <1>2, <1>3 DEF RefundInv, AcceptedIsMade

LEMMA ReadRefundableKeeps ==
  ASSUME RefundInv, NEW c \in RefundCalls, ReadRefundable(c)
  PROVE  RefundInv'
<1>1. CASE /\ refundable.status \in {"confirmed", "refunded"}
           /\ refundCall' = [refundCall EXCEPT ![c].seen = refundable.status,
                                               ![c].at = "read request"]
  <2> DEFINE next == [refundCall[c] EXCEPT !.seen = refundable.status,
                                           !.at = "read request"]
  <2>1. refundCall' = [refundCall EXCEPT ![c] = next]
    BY <1>1 DEF RefundInv, RefundTypeOK
  <2>2. CallRelies(c)'
    BY <1>1 DEF CallRelies, RefundInv, RefundTypeOK, ReadRefundable
  <2>3. next \in RefundCallRows
    BY <1>1 DEF RefundInv, RefundTypeOK, RefundCallRows
  <2>4. UNCHANGED <<refundable, refundRow, providerRefunds>>
    BY DEF ReadRefundable
  <2> HIDE DEF next
  <2> QED
    BY <1>1, <2>1, <2>2, <2>3, <2>4, RefundMoveKeeps
<1>2. CASE RefundEnds(c, "refused")
  <2> DEFINE next == [refundCall[c] EXCEPT !.at = "refused"]
  <2>1. refundCall' = [refundCall EXCEPT ![c] = next]
    BY <1>2 DEF RefundInv, RefundTypeOK, RefundEnds
  <2>2. CallRelies(c)'
    BY <1>2 DEF CallRelies, RefundInv, RefundTypeOK, RefundEnds,
                ReadRefundable
  <2>3. next \in RefundCallRows
    BY DEF RefundInv, RefundTypeOK, RefundCallRows
  <2>4. UNCHANGED <<refundable, refundRow, providerRefunds>>
    BY DEF ReadRefundable
  <2> HIDE DEF next
  <2> QED
    BY <2>1, <2>2, <2>3, <2>4, RefundMoveKeeps
<1> QED
  BY <1>1, <1>2 DEF ReadRefundable

LEMMA ReadRequestKeeps ==
  ASSUME RefundInv, NEW c \in RefundCalls, ReadRequest(c)
  PROVE  RefundInv'
<1>1. UNCHANGED <<refundable, refundRow, providerRefunds>>
  BY DEF ReadRequest
<1>2. CASE RefundEnds(c, "refused")
  <2> DEFINE next == [refundCall[c] EXCEPT !.at = "refused"]
  <2>1. refundCall' = [refundCall EXCEPT ![c] = next]
    BY <1>2 DEF RefundInv, RefundTypeOK, RefundEnds
  <2>2. CallRelies(c)'
    BY <1>1, <2>1 DEF CallRelies, RefundInv, RefundTypeOK
  <2>3. next \in RefundCallRows
    BY DEF RefundInv, RefundTypeOK, RefundCallRows
  <2> HIDE DEF next
  <2> QED
    BY <1>1, <2>1, <2>2, <2>3, RefundMoveKeeps
<1>3. CASE refundCall' = [refundCall EXCEPT ![c].existing = refundRow.status,
                                            ![c].at = "read books"]
  <2> DEFINE next == [refundCall[c] EXCEPT !.existing = refundRow.status,
                                           !.at = "read books"]
  <2>1. refundCall' = [refundCall EXCEPT ![c] = next]
    BY <1>3 DEF RefundInv, RefundTypeOK
  <2>2. CallRelies(c)'
    BY <1>1, <2>1 DEF CallRelies, RefundInv, RefundTypeOK
  <2>3. next \in RefundCallRows
    BY DEF RefundInv, RefundTypeOK, RefundCallRows
  <2> HIDE DEF next
  <2> QED
    BY <1>1, <2>1, <2>2, <2>3, RefundMoveKeeps
<1> QED
  BY <1>2, <1>3 DEF ReadRequest

LEMMA ReadBooksKeeps ==
  ASSUME RefundInv, NEW c \in RefundCalls, ReadBooks(c)
  PROVE  RefundInv'
<1>1. PICK label \in {"refused", "COMPLETED", "AWAITING_VERIFIED_EVENT",
                      "claim", "command"} :
        /\ RefundEnds(c, label)
        /\ label = "COMPLETED" => refundCall[c].seen = "refunded"
        /\ label = "AWAITING_VERIFIED_EVENT" =>
             refundCall[c].existing = "provider_accepted"
  BY DEF ReadBooks, Replayable
<1> DEFINE next == [refundCall[c] EXCEPT !.at = label]
<1>2. refundCall' = [refundCall EXCEPT ![c] = next]
  BY <1>1 DEF RefundInv, RefundTypeOK, RefundEnds
<1>3. UNCHANGED <<refundable, refundRow, providerRefunds>>
  BY DEF ReadBooks
<1>4. CallRelies(c)'
  BY <1>1, <1>2, <1>3 DEF CallRelies, RefundInv, RefundTypeOK
<1>5. next \in RefundCallRows
  BY DEF RefundInv, RefundTypeOK, RefundCallRows
<1> HIDE DEF next
<1> QED
  BY <1>2, <1>3, <1>4, <1>5, RefundMoveKeeps

LEMMA ClaimRequestKeeps ==
  ASSUME RefundInv, NEW c \in RefundCalls, NEW now \in RefundTimes,
         ClaimRequest(c, now)
  PROVE  RefundInv'
<1>1. PICK label \in {"command", "failed"} :
        refundCall' = [refundCall EXCEPT ![c].at = label]
  BY DEF ClaimRequest, RefundEnds
<1>2. /\ refundRow'.status = "provider_accepted" =>
           refundRow.status = "provider_accepted" /\ refundRow' = refundRow
      /\ refundRow.status = "provider_accepted" =>
           refundRow'.status = "provider_accepted"
  BY DEF ClaimRequest, NoRefundRow
<1>3. RefundTypeOK'
  <2>1. refundCall' \in [RefundCalls -> RefundCallRows]
    BY <1>1, RefundEndsAt
  <2>2. refundRow' \in [status : {"none", "claimed", "provider_accepted"},
                        reference : References,
                        created : {0} \cup RefundTimes,
                        updated : {0} \cup RefundTimes]
    BY DEF ClaimRequest, RefundInv, RefundTypeOK, NoRefundRow
  <2> QED
    BY <2>1, <2>2
       DEF ClaimRequest, RefundInv, RefundTypeOK, RefundCallRows
<1>4. CallRelies(c)'
  <2>1. /\ refundCall'[c].at \in {"command", "failed"}
        /\ refundCall'[c].seen = refundCall[c].seen
        /\ refundCall'[c].existing = refundCall[c].existing
    BY <1>1, RefundEndsAt
  <2>2. CallRelies(c) /\ UNCHANGED refundable
    BY DEF ClaimRequest, RefundInv
  <2> QED
    BY <1>2, <2>1, <2>2 DEF CallRelies
<1>5. \A d \in RefundCalls \ {c} : CallRelies(d)'
  <2>1. \A d \in RefundCalls \ {c} : refundCall'[d] = refundCall[d]
    BY <1>1 DEF RefundInv, RefundTypeOK
  <2> QED
    BY <1>2, <2>1, RefundCallStable DEF RefundInv, ClaimRequest
<1> QED
  BY <1>2, <1>3, <1>4, <1>5 DEF RefundInv, AcceptedIsMade, ClaimRequest

LEMMA CommandRefundKeeps ==
  ASSUME RefundInv, NEW c \in RefundCalls, CommandRefund(c)
  PROVE  RefundInv'
<1>1. /\ providerRefunds \subseteq providerRefunds'
      /\ providerRefunds' \subseteq {TheKey}
      /\ UNCHANGED <<refundable, refundRow>>
  BY DEF CommandRefund, RefundInv, RefundKey, TheKey
<1>2. \/ /\ providerRefunds' = {TheKey}
         /\ refundCall' = [refundCall EXCEPT ![c].reference = TheKey,
                                             ![c].at = "read for acceptance"]
      \/ refundCall' = [refundCall EXCEPT ![c].at = "failed"]
  BY DEF CommandRefund, RefundInv, RefundEnds, RefundKey, TheKey
<1>3. PICK next \in RefundCallRows :
        /\ refundCall' = [refundCall EXCEPT ![c] = next]
        /\ next.seen = refundCall[c].seen
        /\ next.existing = refundCall[c].existing
        /\ \/ next.at = "failed"
           \/ /\ next.at = "read for acceptance" /\ next.reference = TheKey
              /\ providerRefunds' = {TheKey}
  <2>1. CASE /\ providerRefunds' = {TheKey}
             /\ refundCall' =
                  [refundCall EXCEPT ![c].reference = TheKey,
                                     ![c].at = "read for acceptance"]
    <3> DEFINE next == [refundCall[c] EXCEPT !.reference = TheKey,
                                             !.at = "read for acceptance"]
    <3>1. next \in RefundCallRows
      <4>1. refundCall[c] \in RefundCallRows /\ TheKey \in References
        BY DEF RefundInv, RefundTypeOK, RefundCallRows, References, TheKey
      <4> QED
        BY <4>1 DEF RefundCallRows
    <3>2. refundCall' = [refundCall EXCEPT ![c] = next]
      BY <2>1 DEF RefundInv, RefundTypeOK
    <3>3. /\ next.seen = refundCall[c].seen /\ next.reference = TheKey
          /\ next.existing = refundCall[c].existing
          /\ next.at = "read for acceptance"
      BY DEF RefundInv, RefundTypeOK
    <3> QED
      BY <2>1, <3>1, <3>2, <3>3
  <2>2. CASE refundCall' = [refundCall EXCEPT ![c].at = "failed"]
    <3> DEFINE next == [refundCall[c] EXCEPT !.at = "failed"]
    <3>1. next \in RefundCallRows
      BY DEF RefundInv, RefundTypeOK, RefundCallRows
    <3>2. refundCall' = [refundCall EXCEPT ![c] = next]
      BY <2>2 DEF RefundInv, RefundTypeOK
    <3>3. /\ next.seen = refundCall[c].seen /\ next.at = "failed"
          /\ next.existing = refundCall[c].existing
      BY DEF RefundInv, RefundTypeOK
    <3> QED
      BY <3>1, <3>2, <3>3
  <2> QED
    BY <1>2, <2>1, <2>2
<1>4. refundCall \in [RefundCalls -> RefundCallRows]
  BY DEF RefundInv, RefundTypeOK, RefundCallRows
<1>5. RefundTypeOK'
  <2>1. refundCall' \in [RefundCalls -> RefundCallRows]
    BY <1>3, <1>4
  <2> QED
    BY <1>1, <2>1
       DEF RefundInv, RefundTypeOK, RefundCallRows, References, TheKey
<1>6. CallRelies(c)'
  BY <1>1, <1>3, <1>4 DEF CallRelies, RefundInv
<1>7. \A d \in RefundCalls \ {c} : CallRelies(d)'
  <2>1. \A d \in RefundCalls \ {c} : refundCall'[d] = refundCall[d]
    BY <1>2 DEF RefundInv, RefundTypeOK
  <2> QED
    BY <1>1, <2>1, RefundCallStable DEF RefundInv
<1>8. AcceptedIsMade'
  BY <1>1 DEF RefundInv, AcceptedIsMade
<1> QED
  BY <1>1, <1>5, <1>6, <1>7, <1>8 DEF RefundInv

LEMMA ReadForAcceptanceKeeps ==
  ASSUME RefundInv, NEW c \in RefundCalls, NEW now \in RefundTimes,
         ReadForAcceptance(c, now)
  PROVE  RefundInv'
<1>1. UNCHANGED <<refundable, refundRow, providerRefunds>>
  BY DEF ReadForAcceptance
<1>2. CASE \E label \in {"failed", "read again"} :
             /\ RefundEnds(c, label)
             /\ label = "read again" =>
                  refundRow.status = "provider_accepted"
  <2>1. PICK label \in {"failed", "read again"} :
          /\ RefundEnds(c, label)
          /\ label = "read again" => refundRow.status = "provider_accepted"
    BY <1>2
  <2> DEFINE next == [refundCall[c] EXCEPT !.at = label]
  <2>2. refundCall' = [refundCall EXCEPT ![c] = next]
    BY <2>1 DEF RefundInv, RefundTypeOK, RefundEnds
  <2>3. CallRelies(c)'
    BY <1>1, <2>1, <2>2 DEF CallRelies, RefundInv, RefundTypeOK
  <2>4. next \in RefundCallRows
    BY DEF RefundInv, RefundTypeOK, RefundCallRows
  <2> HIDE DEF next
  <2> QED
    BY <1>1, <2>2, <2>3, <2>4, RefundMoveKeeps
<1>3. CASE refundCall' = [refundCall EXCEPT ![c].updated = refundRow.updated,
                                            ![c].now = now,
                                            ![c].at = "accept"]
  <2> DEFINE next == [refundCall[c] EXCEPT !.updated = refundRow.updated,
                                           !.now = now, !.at = "accept"]
  <2>1. refundCall' = [refundCall EXCEPT ![c] = next]
    BY <1>3 DEF RefundInv, RefundTypeOK
  <2>2. CallRelies(c)'
    BY <1>1, <2>1 DEF CallRelies, RefundInv, RefundTypeOK, ReadForAcceptance
  <2>3. next \in RefundCallRows
    BY DEF RefundInv, RefundTypeOK, RefundCallRows
  <2> HIDE DEF next
  <2> QED
    BY <1>1, <2>1, <2>2, <2>3, RefundMoveKeeps
<1> QED
  BY <1>2, <1>3 DEF ReadForAcceptance

LEMMA AcceptRefundKeeps ==
  ASSUME RefundInv, NEW c \in RefundCalls, AcceptRefund(c)
  PROVE  RefundInv'
<1>1. /\ refundCall[c].reference = TheKey
      /\ providerRefunds = {TheKey}
      /\ UNCHANGED <<refundable, providerRefunds>>
  BY DEF AcceptRefund, RefundInv, CallRelies
<1>2. PICK label \in {"failed", "read again"} :
        /\ refundCall' = [refundCall EXCEPT ![c].at = label]
        /\ label = "read again" => refundRow'.status = "provider_accepted"
  BY DEF AcceptRefund, RefundEnds, RefundInv, RefundTypeOK
<1>3. /\ refundRow'.status = "provider_accepted" =>
           \/ refundRow' = refundRow
           \/ refundRow'.reference = TheKey
      /\ refundRow.status = "provider_accepted" =>
           refundRow'.status = "provider_accepted"
  BY <1>1 DEF AcceptRefund, RefundInv, RefundTypeOK
<1>4. RefundTypeOK'
  <2>1. refundCall' \in [RefundCalls -> RefundCallRows]
    BY <1>2, RefundEndsAt
  <2>2. /\ refundCall[c].reference \in References
        /\ refundCall[c].now \in {0} \cup RefundTimes
    BY DEF RefundInv, RefundTypeOK
  <2> QED
    BY <1>1, <2>1, <2>2
       DEF AcceptRefund, RefundInv, RefundTypeOK, RefundCallRows
<1>5. CallRelies(c)'
  <2>1. /\ refundCall'[c].at = label
        /\ refundCall'[c].seen = refundCall[c].seen
        /\ refundCall'[c].existing = refundCall[c].existing
    BY <1>2, RefundEndsAt
  <2> QED
    BY <1>1, <1>2, <1>3, <2>1 DEF CallRelies, RefundInv
<1>6. \A d \in RefundCalls \ {c} : CallRelies(d)'
  <2>1. \A d \in RefundCalls \ {c} : refundCall'[d] = refundCall[d]
    BY <1>2 DEF RefundInv, RefundTypeOK
  <2> QED
    BY <1>1, <1>3, <2>1, RefundCallStable DEF RefundInv
<1>7. AcceptedIsMade'
  BY <1>1, <1>3 DEF RefundInv, AcceptedIsMade
<1> QED
  BY <1>1, <1>4, <1>5, <1>6, <1>7 DEF RefundInv

LEMMA ReadAgainKeeps ==
  ASSUME RefundInv, NEW c \in RefundCalls, ReadAgain(c)
  PROVE  RefundInv'
<1>1. PICK label \in {"COMPLETED", "AWAITING_VERIFIED_EVENT"} :
        /\ RefundEnds(c, label)
        /\ label = "COMPLETED" => refundable.status = "refunded"
  BY DEF ReadAgain
<1> DEFINE next == [refundCall[c] EXCEPT !.at = label]
<1>2. refundCall' = [refundCall EXCEPT ![c] = next]
  BY <1>1 DEF RefundInv, RefundTypeOK, RefundEnds
<1>3. UNCHANGED <<refundable, refundRow, providerRefunds>>
  BY DEF ReadAgain
<1>4. CallRelies(c)'
  BY <1>1, <1>2, <1>3 DEF ReadAgain, CallRelies, RefundInv, RefundTypeOK
<1>5. next \in RefundCallRows
  BY DEF RefundInv, RefundTypeOK, RefundCallRows
<1> HIDE DEF next
<1> QED
  BY <1>2, <1>3, <1>4, <1>5, RefundMoveKeeps

LEMMA RefundNextKeeps == RefundInv /\ [RefundNext]_refundVars => RefundInv'
<1> SUFFICES ASSUME RefundInv, [RefundNext]_refundVars
             PROVE  RefundInv'
  OBVIOUS
<1>1. CASE ConfirmRefundable \/ BookApproval \/ RefundVerified
  BY <1>1, PaymentKeeps
<1>2. ASSUME NEW c \in RefundCalls,
             \/ ReadRefundable(c) \/ ReadRequest(c) \/ ReadBooks(c)
             \/ CommandRefund(c) \/ AcceptRefund(c) \/ ReadAgain(c)
      PROVE  RefundInv'
  BY <1>2, ReadRefundableKeeps, ReadRequestKeeps, ReadBooksKeeps,
     CommandRefundKeeps, AcceptRefundKeeps, ReadAgainKeeps
<1>3. ASSUME NEW c \in RefundCalls, NEW now \in RefundTimes,
             ClaimRequest(c, now) \/ ReadForAcceptance(c, now)
      PROVE  RefundInv'
  BY <1>3, ClaimRequestKeeps, ReadForAcceptanceKeeps
<1>4. CASE UNCHANGED refundVars
  BY <1>4 DEF refundVars, RefundInv, RefundTypeOK, AcceptedIsMade, CallRelies
<1> QED
  BY <1>1, <1>2, <1>3, <1>4 DEF RefundNext

-----------------------------------------------------------------------------
(* Theorems *)

\* An accepted row names the refund the provider made, and every call finds
\* at its next statement what it relies on.
THEOREM RefundInvariant == RefundSpec => []RefundInv
BY RefundInitHolds, RefundNextKeeps, PTL DEF RefundSpec

\* The payment, the request's row and its calls keep their types.
THEOREM RefundTypes == RefundSpec => []RefundTypeOK
<1>1. RefundInv => RefundTypeOK
  BY DEF RefundInv
<1> QED
  BY <1>1, RefundInvariant, PTL

\* However calls race and are retried, one refund leaves the provider, and what
\* a caller is told of it is so.
THEOREM RefundAnswersAreBacked == RefundSpec => []RefundAnswersBacked
<1>1. RefundInv => RefundAnswersBacked
  <2> SUFFICES ASSUME RefundInv
               PROVE  RefundAnswersBacked
    OBVIOUS
  <2>1. providerRefunds = {} \/ providerRefunds = {TheKey}
    BY DEF RefundInv
  <2>2. Cardinality(providerRefunds) <= 1
    <3>1. CASE providerRefunds = {}
      BY <3>1, FS_EmptySet
    <3>2. CASE providerRefunds = {TheKey}
      BY <3>2, FS_Singleton
    <3> QED
      BY <2>1, <3>1, <3>2
  <2> QED
    BY <2>2 DEF RefundInv, CallRelies, AcceptedIsMade, RefundAnswersBacked
<1> QED
  BY <1>1, RefundInvariant, PTL
=============================================================================
