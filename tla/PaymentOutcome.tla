--------------------------- MODULE PaymentOutcome ---------------------------
(***************************************************************************)
(* The payment pipeline of the Financial service: a verified provider      *)
(* webhook is claimed, moves its payment, leaves a verified result,        *)
(* confirms the order and is booked in the ledger, while card submissions  *)
(* write the same payment rows.  Every request is a worker and every       *)
(* action is one database statement (or one database transaction) with     *)
(* the synchronous code up to the next await, so that any two requests     *)
(* interleave where the code lets them, and a request may die at any       *)
(* await.  The rows are those of the MySQL tables; times are natural       *)
(* numbers, 0 is the creation of a payment.                                *)
(***************************************************************************)
EXTENDS Naturals, FiniteSets

CONSTANTS
  Workers,       \* HTTP requests in flight
  Payments,      \* the rows of financial_payments
  Refs,          \* payment references of the provider
  Events,        \* the verified events the provider may deliver
  CardReference, \* the reference a card submission obtains, Null where the
                 \* payment is paid on the provider's own page
  Clock,         \* readings of the servers' clocks
  MaxCrashes,    \* bound: requests that die before they answer
  Null

ProviderStatuses == {"paid", "failed", "cancelled", "expired", "refunded"}
TerminalStatuses == {"confirmed", "failed", "cancelled", "expired", "refunded"}
PaymentStatuses == TerminalStatuses \cup {"pending"}

EventRecord ==
  [id : Nat, payment : Payments \cup {Null}, ref : Refs \cup {Null},
   money : {"same", "different", "none"}, status : ProviderStatuses,
   occurredAt : Nat \ {0}]

\* payment is Null when the external reference names no payment, money
\* compares the amount and the currency of the event with the payment's.
ASSUME EventsAssumption == Events \subseteq EventRecord
ASSUME NullAssumption == Null \notin Payments \cup Refs \cup Events \cup Nat
ASSUME CardAssumption == CardReference \in [Payments -> Refs \cup {Null}]
ASSUME ClockAssumption == Clock \subseteq Nat
ASSUME CrashAssumption == MaxCrashes \in Nat

PaymentRow ==
  [status : PaymentStatuses, ref : Refs \cup {Null}, updatedAt : Nat,
   confirmedAt : Nat \cup {Null}, refundedAt : Nat \cup {Null}]

ResultRow ==
  [event : Nat, payment : Payments, status : TerminalStatuses,
   ref : Refs \cup {Null}, occurredAt : Nat, recordedAt : Nat]

LedgerEntry ==
  [payment : Payments, status : {"confirmed", "refunded"}, occurredAt : Nat]

VARIABLES
  payments,   \* financial_payments
  receipts,   \* financial_provider_events
  results,    \* financial_payment_results
  ledger,     \* financial_ledger_transactions
  paidOrders, \* payments whose order row has reached payment_confirmed
  charged,    \* payments whose card was submitted to the provider
  acked,      \* events answered with success: the provider stops retrying
  settled,    \* those of them that were answered with a result
  crashes,    \* requests that died, at most MaxCrashes
  pc,         \* the statement a worker executes next
  job,        \* the event a worker handles, Null for a card submission
  target,     \* the payment a worker handles
  row,        \* the payment row in the worker's memory
  applied,    \* whether that row has still to be saved
  old,        \* the persisted row the save compares with
  res         \* the verified result in the worker's memory

database == <<payments, receipts, results, ledger, paidOrders>>
answers == <<acked, settled>>
locals == <<job, target, row, applied, old, res>>
vars == <<payments, receipts, results, ledger, paidOrders, charged, acked,
          settled, crashes, pc, job, target, row, applied, old, res>>

Labels ==
  {"idle", "claim", "exact", "replay", "read", "existing", "load", "update",
   "reread", "record", "order", "saveOrder", "account", "approval", "post"}

-----------------------------------------------------------------------------
(* The state machine of a payment *)

Target(e) == IF e.status = "paid" THEN "confirmed" ELSE e.status

IsPaymentTransitionAllowed(from, to) ==
  \/ from = to
  \/ from = "pending" /\ to \in {"confirmed", "failed", "cancelled", "expired"}
  \/ from = "confirmed" /\ to = "refunded"

\* Two optional values that are both present and disagree.
Differ(a, b) == a # Null /\ b # Null /\ a # b

Conflicts(p, e) == Differ(p.ref, e.ref) \/ e.money = "different"
Repeats(p, e) == ~Conflicts(p, e) /\ p.status = Target(e)

Applies(p, e) ==
  /\ ~Conflicts(p, e) /\ ~Repeats(p, e)
  /\ e.occurredAt > p.updatedAt
  /\ IsPaymentTransitionAllowed(p.status, Target(e))

\* The mutant stores the status as the provider words it.
UpdatedAsWorded(p, e) ==
  [p EXCEPT !.status = e.status, !.updatedAt = e.occurredAt]
Updated(p, e) ==
  [status |-> Target(e),
   ref |-> IF p.ref = Null THEN e.ref ELSE p.ref,
   updatedAt |-> e.occurredAt,
   confirmedAt |-> IF Target(e) = "confirmed" THEN e.occurredAt
                                              ELSE p.confirmedAt,
   refundedAt |-> IF Target(e) = "refunded" THEN e.occurredAt
                                            ELSE p.refundedAt]

\* The event as the receipt row gives it back: it has no money columns.
Stored(e) == [e EXCEPT !.money = "none"]

PendingRow ==
  [status |-> "pending", ref |-> Null, updatedAt |-> 0,
   confirmedAt |-> Null, refundedAt |-> Null]

Init ==
  /\ payments = [p \in Payments |-> PendingRow]
  /\ receipts = {} /\ results = {} /\ ledger = {} /\ paidOrders = {}
  /\ charged = {} /\ acked = {} /\ settled = {} /\ crashes = 0
  /\ pc = [w \in Workers |-> "idle"]
  /\ job = [w \in Workers |-> Null]
  /\ target = [w \in Workers |-> Null]
  /\ row = [w \in Workers |-> Null]
  /\ applied = [w \in Workers |-> FALSE]
  /\ old = [w \in Workers |-> Null]
  /\ res = [w \in Workers |-> Null]

-----------------------------------------------------------------------------
(* Control of a request *)

Goto(w, label) == pc' = [pc EXCEPT ![w] = label]

\* The request ends: its locals die with it.
Leave(w) ==
  /\ Goto(w, "idle")
  /\ job' = [job EXCEPT ![w] = Null]
  /\ target' = [target EXCEPT ![w] = Null]
  /\ row' = [row EXCEPT ![w] = Null]
  /\ applied' = [applied EXCEPT ![w] = FALSE]
  /\ old' = [old EXCEPT ![w] = Null]
  /\ res' = [res EXCEPT ![w] = Null]

\* 200 or 202: the provider considers the event delivered.  The answer says
\* whether the outcome had a result, or was unmatched, stale or deferred.
Accept(w) ==
  /\ Leave(w)
  /\ acked' = acked \cup {job[w]}
  /\ settled' = settled \cup {job[w]}
Ignore(w) ==
  /\ Leave(w)
  /\ acked' = acked \cup {job[w]}
  /\ UNCHANGED settled

\* 503, or 409 for a collision: the provider will deliver the event again.
Reject(w) == Leave(w) /\ UNCHANGED answers

\* What an action that neither ends the request nor touches other state keeps.
Internal == UNCHANGED <<charged, answers, crashes>>

\* A verified webhook arrives: first delivery, retry or duplicate alike.  An
\* event of a card payment exists only once the card was submitted.
Deliver(w, e) ==
  /\ pc[w] = "idle"
  /\ e.payment # Null /\ CardReference[e.payment] # Null =>
       e.payment \in charged
  /\ job' = [job EXCEPT ![w] = e]
  /\ target' = [target EXCEPT ![w] = e.payment]
  /\ Goto(w, "claim")
  /\ UNCHANGED <<row, applied, old, res>>
  /\ UNCHANGED database /\ Internal

\* Lookup of the payment and INSERT IGNORE of the receipt: the first payload
\* under an event id wins, another one is refused.
Claim(w) ==
  /\ pc[w] = "claim"
  /\ LET e == job[w] IN
     \/ /\ \E r \in receipts : r.id = e.id /\ r # e
        /\ Reject(w)
        /\ UNCHANGED receipts
     \/ /\ \A r \in receipts : r.id = e.id => r = e
        /\ receipts' = receipts \cup {e}
        /\ \/ e.payment = Null /\ Ignore(w)
           \/ /\ e.payment # Null
              /\ Goto(w, "exact")
              /\ UNCHANGED <<locals, answers>>
  /\ UNCHANGED <<payments, results, ledger, paidOrders, charged, crashes>>

-----------------------------------------------------------------------------
(* The verified outcome service *)

\* results.findByProviderEventId
FindExact(w) ==
  /\ pc[w] = "exact"
  /\ \/ \E r \in results :
          /\ r.event = job[w].id
          /\ res' = [res EXCEPT ![w] = r]
          /\ Goto(w, "replay")
     \/ /\ \A r \in results : r.event # job[w].id
        /\ Goto(w, "read")
        /\ UNCHANGED res
  /\ UNCHANGED <<job, target, row, applied, old>>
  /\ UNCHANGED database /\ Internal

\* payments.findById of a replayed result.  The mutant takes a recorded result
\* for a result already booked.
ReplayIsDone(w) ==
  /\ pc[w] = "replay"
  /\ Accept(w)
  /\ UNCHANGED database /\ UNCHANGED <<charged, crashes>>
Replay(w) ==
  /\ pc[w] = "replay"
  /\ row' = [row EXCEPT ![w] = payments[res[w].payment]]
  /\ Goto(w, "order")
  /\ UNCHANGED <<job, target, applied, old, res>>
  /\ UNCHANGED database /\ Internal

\* payments.findById and applyVerifiedProviderPaymentEvent: a stale or
\* deferred event is acknowledged and changes nothing.
ReadPayment(w) ==
  /\ pc[w] = "read"
  /\ LET e == Stored(job[w])
         p == payments[target[w]]
     IN
     \/ /\ Applies(p, e)
        /\ row' = [row EXCEPT ![w] = Updated(p, e)]
        /\ applied' = [applied EXCEPT ![w] = TRUE]
        /\ Goto(w, "existing")
        /\ UNCHANGED <<job, target, old, res, answers>>
     \/ /\ Repeats(p, e)
        /\ row' = [row EXCEPT ![w] = p]
        /\ Goto(w, "existing")
        /\ UNCHANGED <<job, target, applied, old, res, answers>>
     \/ /\ ~Applies(p, e) /\ ~Repeats(p, e)
        /\ Ignore(w)
  /\ UNCHANGED database /\ UNCHANGED <<charged, crashes>>

\* The result of a worker's event, stamped with a server's clock.
NewResult(w, payment, now) ==
  [event |-> job[w].id, payment |-> target[w], status |-> payment.status,
   ref |-> payment.ref, occurredAt |-> job[w].occurredAt, recordedAt |-> now]

\* results.findByPaymentStatus.  The mutant takes any result of the payment.
AnyExisting(w) == {r \in results : r.payment = target[w]}
Existing(w) ==
  {r \in results : r.payment = target[w] /\ r.status = row[w].status}

\* A result of another event of the same status ends the outcome with the row
\* in memory, which is not saved.
FindExisting(w) ==
  /\ pc[w] = "existing"
  /\ \/ \E r \in Existing(w) :
          /\ res' = [res EXCEPT ![w] = r]
          /\ Goto(w, "order")
     \/ /\ Existing(w) = {} /\ applied[w]
        /\ Goto(w, "load")
        /\ UNCHANGED res
     \/ /\ Existing(w) = {} /\ ~applied[w]
        /\ \E now \in Clock :
             res' = [res EXCEPT ![w] = NewResult(w, row[w], now)]
        /\ Goto(w, "record")
  /\ UNCHANGED <<job, target, row, applied, old>>
  /\ UNCHANGED database /\ Internal

-----------------------------------------------------------------------------
(* MySqlPaymentRepository.save: read, compare, conditional update, read back.
   Its callers are the outcome service and the card submission. *)

\* What the caller does with the saved row.
Saved(w) ==
  \/ /\ job[w] = Null
     /\ Leave(w)
  \/ /\ job[w] # Null
     /\ \E now \in Clock : res' = [res EXCEPT ![w] = NewResult(w, row[w], now)]
     /\ Goto(w, "record")
     /\ UNCHANGED <<job, target, row, applied, old>>

\* A lifecycle stamp, once persisted, is never rewritten.
KeepsLifecycle(from, to) ==
  /\ from.ref # Null => to.ref = from.ref
  /\ from.confirmedAt # Null => to.confirmedAt = from.confirmedAt
  /\ from.refundedAt # Null => to.refundedAt = from.refundedAt

MayReplace(from, to) ==
  /\ IsPaymentTransitionAllowed(from.status, to.status)
  /\ to.updatedAt > from.updatedAt
  /\ KeepsLifecycle(from, to)

LoadForSave(w) ==
  /\ pc[w] = "load"
  /\ LET p == payments[target[w]] IN
     \/ /\ p = row[w]
        /\ Saved(w) /\ UNCHANGED answers
     \/ /\ p # row[w] /\ MayReplace(p, row[w])
        /\ old' = [old EXCEPT ![w] = p]
        /\ Goto(w, "update")
        /\ UNCHANGED <<job, target, row, applied, res, answers>>
     \/ /\ p # row[w] /\ ~MayReplace(p, row[w])
        /\ Reject(w)
  /\ UNCHANGED database /\ UNCHANGED <<charged, crashes>>

\* The mutant updates the row by its id alone.
UpdateById(w) ==
  /\ pc[w] = "update"
  /\ payments' = [payments EXCEPT ![target[w]] = row[w]]
  /\ Goto(w, "reread")
  /\ UNCHANGED <<locals, answers>>
  /\ UNCHANGED <<receipts, results, ledger, paidOrders, charged, crashes>>
UpdatePayment(w) ==
  /\ pc[w] = "update"
  /\ \/ /\ payments[target[w]] = old[w]
        /\ payments' = [payments EXCEPT ![target[w]] = row[w]]
        /\ Goto(w, "reread")
        /\ UNCHANGED <<locals, answers>>
     \/ /\ payments[target[w]] # old[w]
        /\ Reject(w)
        /\ UNCHANGED payments
  /\ UNCHANGED <<receipts, results, ledger, paidOrders, charged, crashes>>

\* The read back: another request may already have moved the row on.
Reread(w) ==
  /\ pc[w] = "reread"
  /\ \/ /\ payments[target[w]] = row[w]
        /\ Saved(w) /\ UNCHANGED answers
     \/ /\ payments[target[w]] # row[w]
        /\ Reject(w)
  /\ UNCHANGED database /\ UNCHANGED <<charged, crashes>>

\* monotonicUpdatedAt: the server's clock, or just after the row's last change.
Submitted(p, ref, now) ==
  [p EXCEPT !.ref = ref,
            !.updatedAt = IF now > p.updatedAt THEN now ELSE p.updatedAt + 1]

\* A card submission reads the clock and its pending payment, charges the card
\* at the provider under a key derived from the payment, and saves the
\* reference with a time computed from that early reading.
SubmitCard(w, p) ==
  /\ pc[w] = "idle"
  /\ CardReference[p] # Null
  /\ payments[p].ref = Null /\ payments[p].status = "pending"
  /\ p \notin paidOrders
  /\ \E now \in Clock :
       row' = [row EXCEPT ![w] = Submitted(payments[p], CardReference[p], now)]
  /\ charged' = charged \cup {p}
  /\ target' = [target EXCEPT ![w] = p]
  /\ Goto(w, "load")
  /\ UNCHANGED <<job, applied, old, res, answers, crashes>>
  /\ UNCHANGED database

-----------------------------------------------------------------------------
(* MySqlVerifiedPaymentResultRepository.save *)

SameTransition(r, s) ==
  r.payment = s.payment /\ r.status = s.status /\ r.ref = s.ref

\* INSERT IGNORE under the unique keys (event) and (payment, status), then
\* the row of the event, or else the row of the transition, is the result.
\* The mutant lacks the second key.
RecordByEvent(w) ==
  /\ pc[w] = "record"
  /\ results' = results \cup {res[w]}
  /\ Goto(w, "order")
  /\ UNCHANGED <<locals, answers>>
  /\ UNCHANGED <<payments, receipts, ledger, paidOrders, charged, crashes>>
Record(w) ==
  /\ pc[w] = "record"
  /\ LET new == res[w]
         byEvent == {r \in results : r.event = new.event}
         byStatus == {r \in results : /\ r.payment = new.payment
                                      /\ r.status = new.status}
     IN
     \/ /\ byEvent = {} /\ byStatus = {}
        /\ results' = results \cup {new}
        /\ Goto(w, "order")
        /\ UNCHANGED <<locals, answers>>
     \/ /\ new \in byEvent
        /\ Goto(w, "order")
        /\ UNCHANGED <<locals, answers, results>>
     \/ /\ byEvent = {}
        /\ \E r \in byStatus :
             SameTransition(r, new) /\ res' = [res EXCEPT ![w] = r]
        /\ Goto(w, "order")
        /\ UNCHANGED <<job, target, row, applied, old, answers, results>>
     \/ /\ new \notin byEvent
        /\ \/ byEvent # {}
           \/ byStatus # {} /\ \A r \in byStatus : ~SameTransition(r, new)
        /\ Reject(w)
        /\ UNCHANGED results
  /\ UNCHANGED <<payments, receipts, ledger, paidOrders, charged, crashes>>

-----------------------------------------------------------------------------
(* The order confirmation that wraps the outcome service *)

\* The wrapper trusts the row in memory, not the row in the database.
ConfirmsOrder(w) == row[w].status = "confirmed" /\ res[w].status = "confirmed"

\* orders.findById.  The mutant confirms the order of the first delivery only.
LoadOrderOnce(w) ==
  /\ pc[w] = "order"
  /\ Goto(w, IF ConfirmsOrder(w) /\ applied[w]
             THEN "saveOrder" ELSE "account")
  /\ UNCHANGED <<locals, database>> /\ Internal
LoadOrder(w) ==
  /\ pc[w] = "order"
  /\ Goto(w, IF ConfirmsOrder(w) /\ res[w].payment \notin paidOrders
             THEN "saveOrder" ELSE "account")
  /\ UNCHANGED <<locals, database>> /\ Internal

\* orders.save: a request that loses the race finds the order confirmed.
SaveOrder(w) ==
  /\ pc[w] = "saveOrder"
  /\ paidOrders' = paidOrders \cup {res[w].payment}
  /\ Goto(w, "account")
  /\ UNCHANGED <<locals, payments, receipts, results, ledger>> /\ Internal

-----------------------------------------------------------------------------
(* The verified accounting service *)

StateAgrees(p, r) ==
  \/ p.status = r.status
  \/ r.status = "confirmed" /\ p.status = "refunded"

ResultMatchesPayment(p, r) == ~Differ(r.ref, p.ref) /\ StateAgrees(p, r)

\* Approvals and refunds are monetary, every other result is acknowledged.
Account(w) ==
  /\ pc[w] = "account"
  /\ \/ /\ ~ResultMatchesPayment(row[w], res[w])
        /\ Reject(w)
     \/ /\ ResultMatchesPayment(row[w], res[w])
        /\ res[w].status \notin {"confirmed", "refunded"}
        /\ Accept(w)
     \/ /\ ResultMatchesPayment(row[w], res[w])
        /\ res[w].status = "confirmed"
        /\ Goto(w, "post") /\ UNCHANGED <<locals, answers>>
     \/ /\ ResultMatchesPayment(row[w], res[w])
        /\ res[w].status = "refunded"
        /\ Goto(w, "approval") /\ UNCHANGED <<locals, answers>>
  /\ UNCHANGED database /\ UNCHANGED <<charged, crashes>>

Entry(r) ==
  [payment |-> r.payment, status |-> r.status, occurredAt |-> r.occurredAt]

\* The entries under the external key of a result.
KeyOf(r) == {l \in ledger : l.payment = r.payment /\ l.status = r.status}

\* The append of a result, as one database transaction: an exact replay is
\* accepted, another transaction under the same key is not.
Appendable(r) == KeyOf(r) \subseteq {Entry(r)}

\* The mutant books a reversal without recovering its approval.
SkipApproval(w) ==
  /\ pc[w] = "approval"
  /\ Goto(w, "post")
  /\ UNCHANGED <<locals, database>> /\ Internal
\* A reversal first books the approval it reverses, which must be recorded.
PostApproval(w) ==
  /\ pc[w] = "approval"
  /\ LET approvals == {r \in results : /\ r.payment = res[w].payment
                                       /\ r.status = "confirmed"
                                       /\ ResultMatchesPayment(row[w], r)}
     IN
     \/ \E r \in approvals :
          /\ Appendable(r)
          /\ ledger' = ledger \cup {Entry(r)}
          /\ Goto(w, "post")
          /\ UNCHANGED <<locals, answers>>
     \/ /\ \A r \in approvals : ~Appendable(r)
        /\ Reject(w)
        /\ UNCHANGED ledger
  /\ UNCHANGED <<payments, receipts, results, paidOrders, charged, crashes>>

\* The last statement of a monetary webhook.
Post(w) ==
  /\ pc[w] = "post"
  /\ \/ /\ Appendable(res[w])
        /\ ledger' = ledger \cup {Entry(res[w])}
        /\ Accept(w)
     \/ /\ ~Appendable(res[w])
        /\ Reject(w)
        /\ UNCHANGED ledger
  /\ UNCHANGED <<payments, receipts, results, paidOrders, charged, crashes>>

-----------------------------------------------------------------------------
\* A request dies at an await: the process stops or the statement fails.
Crash(w) ==
  /\ pc[w] # "idle"
  /\ crashes < MaxCrashes
  /\ crashes' = crashes + 1
  /\ Leave(w)
  /\ UNCHANGED <<charged, answers>>
  /\ UNCHANGED database

\* What a request does next once it has started.
Step(w) ==
  \/ Claim(w) \/ FindExact(w) \/ Replay(w) \/ ReadPayment(w)
  \/ FindExisting(w) \/ LoadForSave(w) \/ UpdatePayment(w) \/ Reread(w)
  \/ Record(w) \/ LoadOrder(w) \/ SaveOrder(w)
  \/ Account(w) \/ PostApproval(w) \/ Post(w)

Next ==
  \E w \in Workers :
    \/ \E e \in Events : Deliver(w, e)
    \/ \E p \in Payments : SubmitCard(w, p)
    \/ Step(w)
    \/ Crash(w)

Spec == Init /\ [][Next]_vars

\* The provider retries an event until it is accepted, and a request that
\* does not die runs to its end.
Retry(e) == e \notin acked /\ \E w \in Workers : Deliver(w, e)
Fairness ==
  /\ \A w \in Workers : WF_vars(Step(w))
  /\ \A e \in Events : SF_vars(Retry(e))
FairSpec == Spec /\ Fairness

-----------------------------------------------------------------------------
(* Type correctness *)

DatabaseType ==
  /\ payments \in [Payments -> PaymentRow]
  /\ receipts \subseteq Events
  /\ results \subseteq ResultRow
  /\ ledger \subseteq LedgerEntry
  /\ paidOrders \subseteq Payments
  /\ charged \subseteq Payments
  /\ settled \subseteq acked /\ acked \subseteq Events
  /\ crashes \in 0 .. MaxCrashes

LocalsType ==
  /\ pc \in [Workers -> Labels]
  /\ job \in [Workers -> Events \cup {Null}]
  /\ target \in [Workers -> Payments \cup {Null}]
  /\ row \in [Workers -> PaymentRow \cup {Null}]
  /\ applied \in [Workers -> BOOLEAN]
  /\ old \in [Workers -> PaymentRow \cup {Null}]
  /\ res \in [Workers -> ResultRow \cup {Null}]

\* Rows and locals hold what the tables and the handlers' types allow.
TypeOK == DatabaseType /\ LocalsType

-----------------------------------------------------------------------------
(* Safety *)

\* A verified result is only ever visible for a status its payment really
\* reached, and two results of one payment are its approval and its refund:
\* racing webhooks (paid against cancelled, say) never leave contradictory
\* outcomes for Business and Ticketing to read.
ResultsAgreeWithPayments ==
  /\ \A r \in results : StateAgrees(payments[r.payment], r)
  /\ \A r, s \in results :
       r.payment = s.payment /\ r # s =>
         {r.status, s.status} = {"confirmed", "refunded"}

\* Every booked transaction is the transaction of a recorded result, and a
\* reversal stands next to the approval it reverses: the clearing account of
\* a payment is never below zero.
LedgerBacked ==
  /\ \A l \in ledger : \E r \in results : l = Entry(r)
  /\ \A l \in ledger :
       l.status = "refunded" =>
         \E a \in ledger : a.payment = l.payment /\ a.status = "confirmed"

\* The ledger's idempotency key never refuses an append: whatever two
\* requests carry in memory for a result, they book the same transaction.
AppendNeverConflicts ==
  /\ \A w \in Workers : pc[w] = "post" => Appendable(res[w])
  /\ \A w \in Workers : pc[w] = "approval" =>
       \A r \in results :
         r.payment = res[w].payment /\ r.status = "confirmed" => Appendable(r)

\* The state check of the accounting service never fires: the row a request
\* read, computed or saved before several awaits still agrees with the result
\* it goes on to book, although other requests moved the payment meanwhile.
AccountedStateAgrees ==
  \A w \in Workers :
    pc[w] \in {"order", "saveOrder", "account", "approval", "post"} =>
      StateAgrees(row[w], res[w])

\* A delivery that is answered with a result of money has booked that money,
\* whichever request recorded the result and whatever died on the way: 202 is
\* never sent before accounting succeeded.
SettledMeansBooked ==
  \A e \in settled :
    Target(e) \in {"confirmed", "refunded"} =>
      \E l \in ledger : l.payment = e.payment /\ l.status = Target(e)

\* Once an approval is booked its order is confirmed, unless a refund has
\* overtaken the confirmation: a request checks the row it holds, and a
\* delivery that finds the payment refunded books the approval but leaves the
\* order pending.
BookedOrderConfirmed ==
  \A l \in ledger :
    l.status = "confirmed" =>
      \/ l.payment \in paidOrders
      \/ payments[l.payment].status = "refunded"

-----------------------------------------------------------------------------
(* Action properties *)

\* Whatever is interleaved, a payment moves only along its transition table,
\* its evidence only gets newer, and its reference and lifecycle stamps are
\* written once.
PaymentsMoveForward ==
  [][\A p \in Payments :
       payments'[p] # payments[p] => MayReplace(payments[p], payments'[p])]_vars

\* The detailed pipeline implements the abstract payment authority.
Authority == INSTANCE PaymentAuthority WITH
  Payments <- Payments,
  status <- [p \in Payments |-> payments[p].status],
  recorded <- {<<r.payment, r.status>> : r \in results},
  posted <- {<<l.payment, l.status>> : l \in ledger}
ImplementsAuthority == Authority!AuthoritySpec

-----------------------------------------------------------------------------
(* Liveness *)

\* A delivery of an event that was answered stale or deferred ends its
\* retries, even when another delivery of it, still running, goes on to apply it.
Abandoned(p, s) ==
  \E e \in acked \ settled : e.payment = p /\ Target(e) = s

\* A recorded approval is booked in the end, through crashes, lost races and
\* duplicates, because the provider retries what was not accepted.
ApprovalEventuallyPosted ==
  \A p \in Payments :
    (\E r \in results : r.payment = p /\ r.status = "confirmed") ~>
    (\/ \E l \in ledger : l.payment = p /\ l.status = "confirmed"
     \/ Abandoned(p, "confirmed"))

\* A payment whose approval was recorded and which is refunded has its
\* reversal booked in the end, so that its clearing account returns to zero.
RefundEventuallyReversed ==
  \A p \in Payments :
    (/\ payments[p].status = "refunded"
     /\ \E r \in results : r.payment = p /\ r.status = "confirmed") ~>
    (\/ \E l \in ledger : l.payment = p /\ l.status = "refunded"
     \/ Abandoned(p, "refunded"))

-----------------------------------------------------------------------------
(* What the documents say and the code does not do *)

\* "If Payment commits but result persistence is interrupted, an exact signed
\* retry [...] reconstructs the same result": an accepted delivery of the
\* event that confirmed a payment leaves the approval recorded.
RetryReconstructsResult ==
  \A e \in acked :
    /\ e.status = "paid" /\ e.payment # Null
    /\ payments[e.payment].confirmedAt = e.occurredAt
    => \E r \in results : r.payment = e.payment /\ r.status = "confirmed"

\* An event whose amount or currency differs from the payment's is deferred:
\* no result is recorded from it.
DifferentMoneyIsDeferred ==
  \A r \in results, e \in receipts :
    r.event = e.id => e.money # "different"
=============================================================================
