------------------------------ MODULE Checkout -------------------------------
(***************************************************************************)
(* The checkout of one handoff: calls that come in under one request key,  *)
(* each of which finds or creates the order, claims and creates its        *)
(* payment and makes the order wait for it, and the confirmation of the    *)
(* order, by any number of handlers at once, when the payment is.  Each    *)
(* statement of the database is a step; calls and handlers interleave, and *)
(* may die between any two of their steps.                                 *)
(*                                                                         *)
(* A call draws a fresh order id and a fresh payment id, so the call       *)
(* itself stands for both.  The order is created at time 0.                *)
(***************************************************************************)
EXTENDS Naturals, FiniteSets

CONSTANTS
  Calls,       \* calls of startCheckout
  Confirmers,  \* handlers of a verified approval, delivered again and again
  CallClocks   \* readings of the clock, which need not agree

ASSUME CallClocksAssumption == CallClocks \subseteq Nat

VARIABLES
  orders,    \* ordering_orders under the request key
  claims,    \* financial_payment_idempotency
  payments,  \* financial_payments; a submitted one is pending with a reference
  call,      \* what each call is doing, or how it ended
  confirmer  \* what each handler of a verified approval is doing

checkoutVars == <<orders, claims, payments, call, confirmer>>

Greater(a, b) == IF a > b THEN a ELSE b

NoRow == [id |-> "none", status |-> "none", updated |-> 0]
NoEvent == [at |-> "idle", order |-> NoRow, updated |-> 0]
NewCall ==
  [at |-> "find order", order |-> NoRow, payment |-> "none", updated |-> 0]

CheckoutInit ==
  /\ orders = {} /\ claims = {} /\ payments = {}
  /\ call = [c \in Calls |-> NewCall]
  /\ confirmer = [f \in Confirmers |-> NoEvent]

Reaches(c, label) == call' = [call EXCEPT ![c].at = label]

-----------------------------------------------------------------------------
(* loadOrCreateCheckoutOrder *)

Took(c, row, label) ==
  call' = [call EXCEPT ![c].order = row, ![c].at = label]

FindOrder(c) ==
  /\ call[c].at = "find order"
  /\ IF orders = {} THEN Reaches(c, "insert order")
     ELSE \E row \in orders : Took(c, row, "find claim")
  /\ UNCHANGED <<orders, claims, payments, confirmer>>

\* INSERT IGNORE: the request key is unique.
InsertOrder(c) ==
  /\ call[c].at = "insert order"
  /\ orders' = IF orders = {}
               THEN {[id |-> c, status |-> "draft", updated |-> 0]}
               ELSE orders
  /\ Reaches(c, "reread order")
  /\ UNCHANGED <<claims, payments, confirmer>>

\* The call's own order must still be the draft it inserted; another's is the
\* winner's, and is taken as it is.
RereadOrder(c) ==
  /\ call[c].at = "reread order"
  /\ \E row \in orders :
       IF row.id = c /\ row.status # "draft" THEN Reaches(c, "failed")
       ELSE Took(c, row, "find claim")
  /\ UNCHANGED <<orders, claims, payments, confirmer>>

-----------------------------------------------------------------------------
(* loadOrCreateCheckoutPayment *)

ClaimsOf(c) == {claim \in claims : claim.order = call[c].order.id}

FindClaim(c) ==
  /\ call[c].at = "find claim"
  /\ IF ClaimsOf(c) = {} THEN Reaches(c, "claim")
     ELSE \E claim \in ClaimsOf(c) :
            call' = [call EXCEPT ![c].payment = claim.payment,
                                 ![c].at = "find payment"]
  /\ UNCHANGED <<orders, claims, payments, confirmer>>

\* A slip: the call goes on with the payment it proposed.
ClaimOwn(c) ==
  /\ call[c].at = "claim"
  /\ claims' = IF ClaimsOf(c) = {}
               THEN claims \cup {[order |-> call[c].order.id, payment |-> c]}
               ELSE claims
  /\ call' = [call EXCEPT ![c].payment = c, ![c].at = "find payment"]
  /\ UNCHANGED <<orders, payments, confirmer>>

\* INSERT IGNORE, and the claim that stands is read back.
ClaimPayment(c) ==
  /\ call[c].at = "claim"
  /\ claims' = IF ClaimsOf(c) = {}
               THEN claims \cup {[order |-> call[c].order.id, payment |-> c]}
               ELSE claims
  /\ \E claim \in claims' :
       /\ claim.order = call[c].order.id
       /\ call' = [call EXCEPT ![c].payment = claim.payment,
                               ![c].at = "find payment"]
  /\ UNCHANGED <<orders, payments, confirmer>>

Own(c) == {p \in payments : p.id = call[c].payment}

FindPayment(c) ==
  /\ call[c].at = "find payment"
  /\ Reaches(c, IF Own(c) = {} THEN "insert payment" ELSE "ensure pending")
  /\ UNCHANGED <<orders, claims, payments, confirmer>>

InsertPayment(c) ==
  /\ call[c].at = "insert payment"
  /\ payments' = IF Own(c) = {}
                 THEN payments \cup
                        {[id |-> call[c].payment, status |-> "pending"]}
                 ELSE payments
  /\ Reaches(c, "reread payment")
  /\ UNCHANGED <<orders, claims, confirmer>>

\* A payment that is no longer as it was created cannot be saved as such: it is
\* past pending, or a card submission has made it newer.
RereadPayment(c) ==
  /\ call[c].at = "reread payment"
  /\ \E p \in Own(c) :
       Reaches(c, IF p.status = "pending" THEN "ensure pending" ELSE "failed")
  /\ UNCHANGED <<orders, claims, payments, confirmer>>

-----------------------------------------------------------------------------
(* ensureCheckoutOrderPendingPayment *)

\* The order as it was read decides whether it still is a draft.
EnsurePending(c, clock) ==
  /\ call[c].at = "ensure pending"
  /\ IF call[c].order.status = "draft"
     THEN call' = [call EXCEPT
            ![c].at = "save order",
            ![c].updated = Greater(clock, call[c].order.updated + 1)]
     ELSE Reaches(c, "answered")
  /\ UNCHANGED <<orders, claims, payments, confirmer>>

\* save compares with the row as it is now: a confirmed one cannot go back, a
\* newer one makes the update stale.
CompareOrder(c) ==
  /\ call[c].at = "save order"
  /\ \E row \in orders :
       IF row.status = "payment_confirmed" THEN Reaches(c, "failed")
       ELSE IF row.updated >= call[c].updated
            THEN Reaches(c, IF row.status = "draft" THEN "failed"
                            ELSE "answered")
            ELSE Took(c, row, "update order")
  /\ UNCHANGED <<orders, claims, payments, confirmer>>

Pending(c) ==
  [id |-> call[c].order.id, status |-> "pending_payment",
   updated |-> call[c].updated]

\* A slip: the order is updated by its id alone.
UpdateById(c) ==
  /\ call[c].at = "update order"
  /\ orders' = {Pending(c)}
  /\ Reaches(c, "answered")
  /\ UNCHANGED <<claims, payments, confirmer>>

\* A lost compare-and-set is recovered from: whoever changed the order, it is
\* no draft any more.
UpdateOrder(c) ==
  /\ call[c].at = "update order"
  /\ IF call[c].order \in orders
     THEN orders' = {Pending(c)} /\ Reaches(c, "answered")
     ELSE /\ UNCHANGED orders
          /\ Reaches(c, IF \E row \in orders : row.status = "draft"
                        THEN "failed" ELSE "answered")
  /\ UNCHANGED <<claims, payments, confirmer>>

CallDies(c) ==
  /\ call[c].at \notin {"answered", "failed"}
  /\ Reaches(c, "failed")
  /\ UNCHANGED <<orders, claims, payments, confirmer>>

-----------------------------------------------------------------------------
(* Payment and confirmation *)

Answered == {c \in Calls : call[c].at = "answered"}

MovesPayment(c, from, to) ==
  \E p \in Own(c) :
    /\ p.status \in from
    /\ payments' = (payments \ {p}) \cup {[p EXCEPT !.status = to]}

\* A buyer who was answered sends a card for the order that waits.
SubmitPayment(c) ==
  /\ c \in Answered
  /\ \E row \in orders : row.status = "pending_payment"
  /\ MovesPayment(c, {"pending"}, "submitted")
  /\ UNCHANGED <<orders, claims, call, confirmer>>

\* A buyer who was answered has paid.
Pay(c) ==
  /\ c \in Answered
  /\ MovesPayment(c, {"pending", "submitted"}, "confirmed")
  /\ UNCHANGED <<orders, claims, call, confirmer>>

\* A handler of the approval, which is delivered again after an error, reads
\* the order, and is done with one confirmed and refuses a draft ...
ReadForConfirmation(f, clock) ==
  /\ confirmer[f].at = "idle" /\ \E p \in payments : p.status = "confirmed"
  /\ \E row \in orders :
       /\ row.status = "pending_payment"
       /\ confirmer' = [confirmer EXCEPT ![f] =
            [at |-> "compare", order |-> row,
             updated |-> Greater(clock, row.updated + 1)]]
  /\ UNCHANGED <<orders, claims, payments, call>>

\* ... save reads it again, and finds the update stale or not: an order that
\* another handler has confirmed may be confirmed once more ...
CompareForConfirmation(f) ==
  /\ confirmer[f].at = "compare"
  /\ \E row \in orders :
       confirmer' = [confirmer EXCEPT ![f] =
         IF row.status = "draft" \/ row.updated >= @.updated THEN NoEvent
         ELSE [@ EXCEPT !.at = "update", !.order = row]]
  /\ UNCHANGED <<orders, claims, payments, call>>

Confirmed(f) ==
  [confirmer[f].order EXCEPT !.status = "payment_confirmed",
                             !.updated = confirmer[f].updated]

\* ... and updates the row that it read.
ConfirmOrder(f) ==
  /\ confirmer[f].at = "update"
  /\ orders' = IF confirmer[f].order \in orders THEN {Confirmed(f)} ELSE orders
  /\ confirmer' = [confirmer EXCEPT ![f] = NoEvent]
  /\ UNCHANGED <<claims, payments, call>>

CheckoutNext ==
  \/ \E c \in Calls :
       \/ FindOrder(c) \/ InsertOrder(c) \/ RereadOrder(c)
       \/ FindClaim(c) \/ ClaimPayment(c)
       \/ FindPayment(c) \/ InsertPayment(c) \/ RereadPayment(c)
       \/ \E clock \in CallClocks : EnsurePending(c, clock)
       \/ CompareOrder(c) \/ UpdateOrder(c) \/ CallDies(c)
       \/ SubmitPayment(c) \/ Pay(c)
  \/ \E f \in Confirmers :
       \/ \E clock \in CallClocks : ReadForConfirmation(f, clock)
       \/ CompareForConfirmation(f) \/ ConfirmOrder(f)

CheckoutSpec == CheckoutInit /\ [][CheckoutNext]_checkoutVars

-----------------------------------------------------------------------------
(* Properties *)

OrderRows ==
  [id : Calls, status : {"draft", "pending_payment", "payment_confirmed"},
   updated : Nat]

PaymentRows == [id : Calls, status : {"pending", "submitted", "confirmed"}]

ConfirmerRows ==
  [at : {"idle", "compare", "update"}, order : OrderRows \cup {NoRow},
   updated : Nat]

\* Tables and calls keep their types.
CheckoutTypeOK ==
  /\ orders \subseteq OrderRows
  /\ claims \subseteq [order : Calls, payment : Calls]
  /\ payments \subseteq PaymentRows
  /\ \A c \in Calls :
       /\ call[c].order \in OrderRows \cup {NoRow}
       /\ call[c].payment \in Calls \cup {"none"}
       /\ call[c].updated \in Nat
  /\ confirmer \in [Confirmers -> ConfirmerRows]

\* Calls that race under one key end in one order and one payment, which every
\* answer names; the answered and the paid find an order that waits for its
\* payment or has it.
OneOrderOnePayment ==
  /\ Cardinality(orders) <= 1 /\ Cardinality(payments) <= 1
  /\ \A c \in Answered :
       /\ \E p \in payments : p.id = call[c].payment
       /\ \E row \in orders : row.id = call[c].order.id /\ row.status # "draft"
  /\ (\E p \in payments : p.status = "confirmed") =>
       \A row \in orders : row.status # "draft"

\* A call that is late, with an order it read as a draft, never takes an order
\* back that others moved on and confirmed; and the handlers that confirm it,
\* one after the other and by clocks of their own, never make it older.
PaidOrderStaysPaid ==
  [][\A row \in orders : row.status = "payment_confirmed" =>
       \E new \in orders' :
         /\ new.id = row.id /\ new.status = "payment_confirmed"
         /\ new.updated >= row.updated]_checkoutVars
=============================================================================
