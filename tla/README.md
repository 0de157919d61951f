# Touristic Digital Platform: a TLA+ verification project

The repository is a monorepo (TypeScript and `.mjs`) for destination
platforms such as Morro Digital: places and content, commerce, payments,
ticketing, CRM, affiliates, notifications. Its packages hold pure domain code,
its services add MySQL repositories and HTTP transports, and
`apps/morro-digital-platform/tooling` wires them into one Node process.

The program's hard part is money and what it buys: a payment is decided by
provider webhooks that are retried, duplicated and reordered, several requests
write the same rows with no lock held across their awaits, and results feed
order confirmation, a ledger, ticketing and refunds. This project models that
part in most detail, and then the services around it that are claimed, leased,
retried or compared: checkout, check-in, refund requests, reconciliation,
settlement, the notification outbox and the trials of the CRM.

## Inventory

Paths are relative to `src/`. Every component is also listed in
`PROJECT.json`, with its status.

| Component | State | Operations | What makes it correct | Hard because |
| --- | --- | --- | --- | --- |
| Payment state machine (`packages/financial/src/index.ts`) | status, provider reference, `updatedAt`, lifecycle stamps of a payment | `applyVerifiedProviderPaymentEvent`, `isPaymentTransitionAllowed` | only table transitions, evidence gets newer | events arrive out of order |
| Webhook transport and receipts (`services/financial/src/webhook-http-transport.ts`, `mysql-provider-webhook-event-repository.ts`) | `financial_provider_events` | claim, outcome, accounting, answer | 2xx only when the outcome is final | duplicates run concurrently; a request may die anywhere |
| Verified outcome service (`verified-payment-outcome-service.ts`, `mysql-payment-repository.ts`, `mysql-verified-payment-result-repository.ts`) | `financial_payments`, `financial_payment_results` | apply, save, record, replay | no contradictory results, none lost | read, await, compare-and-set; two statements with a crash between them |
| Ledger accounting (`verified-payment-accounting-service.ts`, `mysql-ledger-repository.ts`) | `financial_ledger_transactions` | append approval, append reversal | one transaction per result, reversal after approval | both computed from a row in memory |
| Card submission (`services/ordering/src/card-payment-http-transport.ts`) | the same payment row | charge at the provider, save the reference | never loses the provider's evidence | a second writer with another clock, read before the provider is asked |
| Order confirmation (`tooling/payments-api.mjs`) | `orders` | confirm the order of a confirmed payment | paid orders are confirmed | sits between recording and booking |
| Checkout (`packages/ordering/src/index.ts`) | orders, payments, idempotency keys | create or load the order and the payment | one order and one payment per key | concurrent first calls |
| Ticket inventory and reservations (`packages/ticketing/src/reservations.ts`, `services/ticketing/src/mysql-ticket-reservation-repository.ts`) | inventories, reservations | hold, confirm, cancel, expire, capacity change | no overselling, no confirmation of an expired hold | lazy expiry, clocks, payment arriving late |
| Result feed and fulfilment (`mysql-verified-payment-result-feed.ts`, `verified-financial-result-processor.ts`, `reservation-fulfillment-service.ts`, `refund-cancellation.ts`) | a cursor, tickets | drain, issue tickets, cancel after refund | every result handled, in order | cursor over a clock; a failing head blocks the queue |
| Tickets and check-in (`ticketing-application-service.ts`, offline sync) | tickets, check-ins | issue, check in by QR or code, sync envelopes | one entry per ticket | two gates, offline devices |
| Refund requests (`refund-application-service.ts`) | `financial_refund_requests` | claim, ask the provider, accept | at most one refund | provider call between two writes |
| Reconciliation (`reconciliation-application-service.ts`, `mysql-reconciliation-repository.ts`) | runs, findings and their acknowledgement | read everything, compare, record; acknowledge | what is listed is what disagrees, and reads back | reads without a lock beside live writes; runs recorded in any order |
| Settlement (`settlement-application-service.ts`, `mysql-settlement-repository.ts`) | allocations, payables, settlements, ledger | allocate, transfer, verify, reverse after a refund | no row without its entry, no account overdrawn | appends and rows in separate transactions, a reversal racing transfers |
| Subscriptions | subscriptions, activations | create, activate, renew | one activation per payment | provider events, recurrence |
| Notification outbox (`mysql-notification-outbox.ts`, `outbox-scheduler.ts`) | outbox rows with leases, dispatch claims | enqueue, claim, deliver, retry | never twice, no row stuck | leases that end under their holder; crash between delivery and mark |
| CRM trials (`packages/crm/src/trials-*.ts`, `mysql-trials-repository.ts`) | trials with two claims, the lead's timeline | convert, cancel, expire, notify | one ending, told once | operators, schedulers and notifiers race; one claim has no lease |
| Restaurant reservations | reservations | hold, confirm, release | no double booking | resembles ticketing |
| Auth security state, CRM leads, affiliates, analytics, content, destinations, onboarding, navigation, search, assistant, UI | various | mostly CRUD, pure functions or rendering | | little concurrency, or data out of TLC's reach |

Interactions: the provider calls the webhook transport, which calls the
outcome service (wrapped by order confirmation) and then accounting; the card
submission writes the payment directly; ticketing polls the result feed and
reads reservations, orders and payments; refunds go to the provider and come
back as webhooks. All share one MySQL database; nothing holds a lock across
components.

## Modules

| Module | What it is |
| --- | --- |
| `PaymentAuthority` | abstract: what Financial promises about a payment (status, results, bookings) |
| `PaymentOutcome` | detailed: the webhook pipeline and the card submission, one action per database statement |
| `MCPaymentOutcome` | instances of `PaymentOutcome` for TLC |
| `PaymentOutcomeProofs` | the inductive invariant and the theorems |
| `TicketReservations` | one ticket inventory and the reservations that compete for it, one action per transaction |
| `MCTicketReservations` | an instance of it for TLC |
| `TicketReservationsProofs` | its inductive invariant and the theorems |
| `TicketFulfilment` | composes `TicketReservations` and `PaymentAuthority`: the result feed, its cursor and the drains that issue and cancel tickets |
| `MCTicketFulfilment` | instances of `TicketFulfilment` for TLC |
| `TicketFulfilmentProofs` | its inductive invariants, the theorems, and that it uses the reservations as `TicketReservations` and the payments as `PaymentAuthority` allow |
| `Checkout` | the calls of one checkout under one request key, and the order's confirmation |
| `TicketCheckIn` | the admission of one ticket: scans, codes, offline envelopes, cancellation |
| `RefundRequests` | the calls that request a full refund of one payment |
| `Reconciliation` | runs and findings of one payment; the payment is an instance of `PaymentAuthority` |
| `Settlement` | allocation, transfers and reversal of one payment |
| `NotificationOutbox` | outbox rows, leases, dispatch claims and runners |
| `CrmTrials` | trials, operators, expiry schedulers and notifiers |
| `MCServices` | these seven for TLC, as a sum |
| `BuyerRequestsProofs` | inductive invariants and theorems of what buyers start: `TicketCheckIn`, `Checkout`, `RefundRequests` |
| `LeaseProofs` | those of the two parts that work under claims and leases: `NotificationOutbox`, `CrmTrials` |
| `SettlementProofs`, `ReconciliationProofs` | those of `Settlement` and `Reconciliation` |
| `ServicesProofs` | that each of the seven behaves in their sum as by itself, and so all the theorems there |

`PaymentOutcome` implements `PaymentAuthority` (checked and proved), so
`TicketFulfilment` builds its payments from `PaymentAuthority` (proved:
`FulfilmentUsesAuthority`): ticketing sees of Financial only the status of a
payment and the results recorded for it.

### PaymentOutcome

A *worker* is an HTTP request in flight, `pc` the statement it executes next,
and `job`, `target`, `row`, `applied`, `old`, `res` the variables it carries
over its awaits. An action is one statement (or one transaction) with the
synchronous code up to the next await, so that TLC interleaves requests exactly
where Node does. `payments`, `receipts`, `results`, `ledger` are tables; of an
order the model keeps whether it was confirmed (`paidOrders`).

| Label | Action | Code |
| --- | --- | --- |
| idle | `Deliver`, `SubmitCard` | `webhook-http-transport.ts` `handle`; `card-payment-http-transport.ts` `handle` |
| claim | `Claim` | lookup of the payment and `claim` of the receipt |
| exact, replay | `FindExact`, `Replay` | `results.findByProviderEventId` and the replayed payment |
| read | `ReadPayment` | `payments.findById` and `applyVerifiedProviderPaymentEvent` |
| existing | `FindExisting` | `results.findByPaymentStatus` |
| load, update, reread | `LoadForSave`, `UpdatePayment`, `Reread` | `MySqlPaymentRepository.save` |
| record | `Record` | `MySqlVerifiedPaymentResultRepository.save` |
| order, saveOrder | `LoadOrder`, `SaveOrder` | `createOrderConfirmingVerifiedPaymentOutcomeService` |
| account, approval, post | `Account`, `PostApproval`, `Post` | `verified-payment-accounting-service.ts` |
| any | `Crash` | the process stops or the statement fails at an await |

Abstractions. Times are natural numbers and a payment is created at 0. The
amount and the currency of an event are one value, `money`, the result of
comparing them with the payment's. A receipt's `Stored` event loses it, as the
table has no such columns. A card submission reads its clock first, then asks
the provider, and writes the later of that reading and just after the row's last
change; the reading is any of `Clock`, as the provider's dates come from another
clock. The ledger's postings are one entry per result, since
their content is a function of it. A ledger append is a database transaction
and so one action. The lookup that finds the payment of an event reads a value
that never changes and is part of `Claim`. An `INSERT IGNORE` and the reads after
it are one action where rows are only inserted and never changed (receipts,
results).

### TicketReservations

The state is one row of `ticketing_inventory` (`offer`) and its rows of
`ticketing_reservations`. Every operation of
`mysql-ticket-reservation-repository.ts` is a transaction that locks the
inventory's row first, so an action is a whole transaction; one that throws is
rolled back and is no action. The sum of the committed units is read after the
lock was granted, in the transaction's first consistent read, and so is current.

| Action | Code |
| --- | --- |
| `Availability` | `availability`: expires stale holds and commits |
| `Hold` | `hold`: a new hold, or the replay of one |
| `Confirm` | `confirmAuthoritative` |
| `CancelHold` | `cancelHold` |
| `CancelAfterRefund` | `cancelConfirmedAfterRefund`, its reservation part |
| `SaveInventory`, `Disable` | `saveInventory`, `disableForBusiness` |

What the lock does not order are the clocks. The time of a transaction was read
by a server before its awaits, or comes from the provider, so each action takes
any reading of `Clock`, and times of successive transactions go back and forth.
The offer a request computed its hold's expiry from may have been edited before
the lock was granted: `Hold` takes any offer for it (`seen`), which allows more
than the code. A reservation's order and payment are written with `confirmedAt`
and are represented by it. Audit events, prices and products are left out: the
operations copy them and test nothing of them that changes.

### TicketFulfilment

A *processor* is a Node process with its drain of the feed; a `Label` says which
statement it executes next.

| Label | Action | Code |
| --- | --- | --- |
| idle | `Load` | the timer of `ticketing-api.mjs`, `cursor.load` |
| list | `List` | `listAfter` |
| find | `Find` | `fulfill`: `findReservationById` |
| reread | `Reread` | `confirmReservation`: the clock and the second read |
| payment, order | `VerifyPayment`, `VerifyOrder` | `ordering-financial-confirmation-authority.ts` `verify` |
| confirm | `ConfirmReservation` | `confirmAuthoritative` (`TicketReservations`) |
| issue | `Issue` | `resolveHolderName`, the order and the payment in `issueTicket` |
| ticket, insert | `FindTicket`, `InsertTicket` | `tickets.findById`, `MySqlTicketRepository.save` |
| refund | `FindRefund` | the three reads of `refund-cancellation.ts` |
| cancel | `CancelRefunded` | `cancelConfirmedAfterRefund`, reservation and tickets |
| save | `SaveCursor` | `cursor.save`, then the next result of the page |
| any but idle | `Crash` | the process stops or a statement fails |

Beside the drains, buyers hold and cancel (`Buyer`), the holder's profile is
overwritten by each new request (`Rename`), the gate validates, uses and cancels
(`CheckIn`), and Financial decides (`Decide`), stamps a result (`Stamp`),
inserts it (`Insert`) and confirms orders (`ConfirmOrder`).

Abstractions. A reservation has one order and one payment (the bindings and
idempotency keys see to that) and stands for them. All clocks read `now`:
`TicketReservations` treats skew. The capacity is not edited here. The names of
a holder are numbered, since they are only compared. A ticket's validity
outlasts the clock: an issue after it would be refused. A ticket is issued at the
server's time, so that two inserts agree or not: `InsertTicket` has both
outcomes. Results of orders of other kinds than tickets are passed over and are
left out. `occurredAt` is kept for refunds only, of which alone it is read.
Notifications and CRM records are written after the drain and never read by it.

### Checkout

One handoff under one request key. A *call* is one `startCheckout`; `at` names
its next statement, and it carries the order it read and the payment it claimed.

| Label | Action | Code |
| --- | --- | --- |
| find, insert, reread order | `FindOrder`, `InsertOrder`, `RereadOrder` | `loadOrCreateCheckoutOrder`, `MySqlOrderRepository.save` |
| find claim, claim | `FindClaim`, `ClaimPayment` | `mysql-payment-idempotency-port.ts` |
| find, insert, reread payment | `FindPayment`, `InsertPayment`, `RereadPayment` | `loadOrCreateCheckoutPayment`, `MySqlPaymentRepository.save` |
| ensure pending, save, update order | `EnsurePending`, `CompareOrder`, `UpdateOrder` | `ensureCheckoutOrderPendingPayment`, the conditional update of `save` |
| any | `CallDies` | the process stops |
| | `Pay`, `ReadForConfirmation`, `CompareForConfirmation`, `ConfirmOrder` | the approval, and the confirming wrapper of `payments-api.mjs` |

A call draws fresh ids, so it stands for the order and the payment it proposes.
Two answers of the code look odd and are harmless. A call whose own draft was
already advanced by another fails with `ORDERING_INVALID_TRANSITION`, and
succeeds when retried. A late update can make a confirmation fail once; the
provider's event is delivered again.

*Confirmers* are the deliveries of the verified approval that run at once. Each
reads the order, `save` compares it with the row and updates that row. The
transition table lets a confirmed order be confirmed once more, so the second
handler, with a later clock, rewrites the first one's `updatedAt`:
`PaidOrderStaysPaid` says that the order stays confirmed and never gets older.
A card submission (`SubmitPayment`) gives the payment its reference while an
earlier call may still be about to read it back: that call fails as stale
(`RereadPayment`) and its retry succeeds.

No code of the repository cancels an order: only drafts, pending and confirmed
ones are saved. A handler of the approval refuses an order that is a draft or
cancelled (`ORDER_STATUS_CONFLICT`, `payments-api.mjs:924`). `OneOrderOnePayment`
shows that a paid payment never meets a draft, and therefore `LoadOrder` and
`SaveOrder` of `PaymentOutcome` know an order as confirmed or waiting only. What
the confirming wrapper does last, `restaurantFulfillment.handle` (958 to 967),
writes tables of another component; when it throws, the request ends before the
booking, which in `PaymentOutcome` is a `Crash` at `account`.

### TicketCheckIn

A *lane* is a request: it reads the ticket (`Present`), looks for its own earlier
attempt and decides (`LookUp`), and commits under a lock that compares the
ticket with the one it read (`Commit`): `checkInByQr`, `checkInByCode`,
`syncOfflineEnvelope` of `ticketing-application-service.ts`, and
`mysql-ticketing-transaction.ts`. `Refuse` is every refusal before the commit and
the death of a process; `CancelAfterRefund` the refund's cancellation.

The time of an attempt is free, as it comes from the server, the caller or the
device. It is part of a check-in's identity, and so *when* a repetition is
replayed depends on who stamps it. `public-http-transport.ts:774` stamps
`occurredAt` in each HTTP call: a scan sent twice over HTTP is two attempts, and the
second turns the validation into a use, which is not the replay that
TICKETING-M148-EVIDENCE.md:19 speaks of. `RetryNeverAdvances` states what does
hold, for attempts that keep their time, as those of devices and of direct
callers do. An envelope that arrives late may bring a use that is dated before
the validation: only the order of the rows is promised. No transport reaches
`checkInByCode`. Registration and revocation of a device appear as `Refuse`.

### RefundRequests

A *call* is one `requestFullRefund`; retries are further calls.
`ReadRefundable`, `ReadRequest` and `ReadBooks` are its reads of the payment, of
the request's row and of the approval's result and entry, and it goes on with
the row as it read it. `ClaimRequest` the `INSERT IGNORE`,
`CommandRefund` the provider's refund under the row's key (with lost answers),
`ReadForAcceptance` and `AcceptRefund` the conditional update of `acceptProvider`,
`ReadAgain` the final read. The payment moves meanwhile: approved, booked,
refunded, and the refund may have been made elsewhere. A call that loses the
claim with another `createdAt` fails with a conflict, and one whose clock is behind
the row's times is refused; a retry repairs both.

### Reconciliation

A *runCall* is one `reconcilePayment`: `StartRun` reads the payment,
`ReadProvider` asks the provider, `ReadResult` makes the parallel lookups of
results, `ReadEntry` those of the ledger, and `RecordRun` is the transaction
that inserts the run and adds, reopens and resolves findings; `RepeatRun` is a
run under an identifier on record. `Acknowledge` is the admin's review. Beside
them the payment takes any step of `PaymentAuthority` that the provider's state
justifies (`BooksMove`) and the provider moves on (`ProviderReports`).

Two variables exist for the properties only: `current` holds the calls that
began after the last change of anything compared, `tellsNow` says whether the run
recorded last was one of them. Reconciliation detects and never repairs. An older
run recorded later makes the list stale until the next undisturbed run, and a
run whose reads straddle a change may list a disagreement that never stood at one
instant. A review sent before its finding was resolved and recurred, and
received after, approves the new incident: `AcknowledgementKept` says only that a
recurrence starts without its old review (PAYMENTS-M145-EVIDENCE.md promises more).
Amount and currency are findings of their own (`Mismatch`): the provider holds
the payment on terms that differ in the set `differs`, one of `Disagreements`,
fixed when a behaviour begins; which amount it is nobody tests.

### Settlement

A *request* executes `allocate` (`BeginAllocate`, `ClaimAllocation`,
`AppendSplit`, `ActivateAllocation`), `requestSettlement` (`BeginSettlement`,
`ClaimSettlement`, `RequestTransfer`, `AcceptProvider`), the two verifications
(`ReadTransfer`, `AppendSettled` or `AppendReturned`, `FinalizeSettlement`) or
`reverseAllocationForRefund` (`ListPayables`, `AppendReversal`, `CountPending`,
`ReverseAllocation`). Amounts are left out: the properties compare which entries
exist, one unit per beneficiary. No runtime composes this library yet.

What its properties had to exclude is worth knowing before one does:

- `raced`: a transfer claimed after a reversal listed the payables. The
  beneficiary is paid while the reversal is posted to the payable account.
- A reversal may be posted for an allocation that was claimed and never booked.
- An `allocate` retried after a death between append and activation brings a new
  `occurredAt`, which the ledger refuses as a conflict, for ever; a newer
  reconciliation run blocks the replay too (M146 says "Exact replay converges").
  `verifySettlement` retried with another `observedAt` meets the same conflict.
- A failed settlement is terminal, and a transfer that the provider takes back
  before it was verified is never booked.

### NotificationOutbox

Rows (`outbox`), the table of dispatch claims (`keys`) and runners. `ClaimDue` is
`claimDue`; for each lease of its batch a runner reads the preference
(`ReadPreference`), takes the dispatch claim (`ClaimKey`), sends (`SendReceipt`,
`SendFails`), releases a failed claim (`ReleaseKey`) and records what came of it
(`Complete`, `RetryOrDeadLetter`) if it still holds the lease. `Fault` is a failing
statement, `Die` the death of a process, `LeaseOverruns` a lease that ends under a
runner still at work. Clocks are a flag: the row is due.

A mishap between the dispatch claim and the send leaves the claim behind: the
retry then ends the row as `duplicate` although nothing was sent
(CHAT7-NOTIFICATIONS-FOUNDATION-EVIDENCE.md:38). A failed `complete` on the last
attempt dead-letters a row that was delivered. `UndisturbedIsExact` therefore
speaks of behaviours without mishaps.

### CrmTrials

Operators end a trial by a compare-and-set and then write the timeline
(`ResolveActive`, `MarkEnded`, `NoteEnded`); schedulers list, claim, expire, note
and release (`ListDue` to `ReleaseExpiry`); notifiers list, claim with a lease, send
with a heartbeat (`Renew`), mark, note and release. `GoesStale` ends the lease of
a claim that nobody renews, `Overruns` the one of a slow owner. The claim of an
expiry has no lease: a scheduler that dies with one strands its trial
(`abandoned`, which `DueTrialsEnd` excuses). The stage of the lead is left out.

## Runs

| Run | Instance | Question |
| --- | --- | --- |
| `payment_outcome` | 2 requests, 1 crash, an approval notified twice and its refund, 2 clock readings | results, ledger, orders and answers stay consistent; the pipeline implements `PaymentAuthority` |
| `payment_race` | 2 requests, 1 crash, two paid attempts with different references, cancelled and expired under one event id, an unmatched event | contradictory outcomes never both land |
| `payment_live` | 2 requests, 1 crash, card submissions, fairness | what is recorded is booked in the end |
| `payment_retry`, `payment_money` | the smallest instance that shows each | two statements of the documents and tests that the code does not meet |
| `ticket_reservations` | 3 reservations of 1 or 2 units, capacities 2 and 3, 4 clock readings in any order | no overselling, rows stay readable, reservations only move forward |
| `ticket_drains` | 2 processors, 1 reservation with approval and refund, 1 crash, 1 change of name, fairness | nothing unpaid is confirmed; the cursor advances over whole keys; a drain rests only at the end or before a result it can never handle |
| `ticket_fulfilment` | 1 processor, 2 reservations with approvals and refunds, 1 crash | a usable ticket has its units; what the cursor passed was handled or came late |
| `ticket_skip`, `ticket_refund` | the smallest instances that show each | two statements about the feed and refunds that the code does not meet |
| `services` | the seven modules around the core, each on its own instance (below), fairness for outbox and trials | their safety and liveness properties, but for those of reconciliation |
| `reconciliation` | 3 runs by 2 calls, a provider that agrees or differs in amount, in currency or in both | what is listed is what disagrees, reads back and keeps its review |

Bounds of the payment runs. A hazard here is a step of one request between two steps of another,
or a retry after a death: two requests and one death give every such pattern,
and since a worker starts a new request when its last one ended, retries and
duplicates are unbounded. Two clock readings are enough to give one result two
different `recordedAt`. One payment is enough because no action relates two.
The proofs need none of these bounds. Deadlock is not checked: with the events
delivered and no crash left a system at rest may stop.

Bounds of the ticket runs. Overselling takes two reservations beside one that
frees units, and a sale edited down to what is committed: three reservations and
two capacities. Four readings allow a hold to be created, to end, and be seen
from before and after. The two fulfilment runs divide what does not fit one:
overlap of drains (two processors on one reservation, page of two, so that one
page holds approval and refund), and overlap of reservations in the feed (one
processor, two reservations, up to four results whose stamps and insertions
interleave). Clock readings are spread so that a hold may end, and a refund may
precede a confirmation.

Bounds of `services` and `reconciliation`. The seven modules share no variable, so a behaviour of all
is an interleaving of a behaviour of each, and a property of one does not see the
others. `MCServices` explores their disjoint union: the initial state chooses the
`part` that moves, one of `Parts`, the others stay in an initial state, in which no action that
fairness speaks of is enabled. All parts race two processes against each other,
with a third where one must come late:

- outbox: 2 notifications, 2 runners, batches of 2, 2 attempts, 1 provider and 1
  mishap, so that a batch holds a second lease while its first is worked on,
  and the attempts run out;
- trials: 1 trial, 1 operator, 2 schedulers, 2 notifiers, 1 mishap;
- settlement: 1 beneficiary, 2 requests, 2 clock readings, 1 reconciliation run,
  requests that start again and so replay;
- check-in: 2 requests, again and again, from 1 gate and 1 device at 2 times. The
  ticket is valid to the end, as the end of its validity only refuses;
- checkout: 2 calls with clocks that differ by more than the order's step, and 2
  handlers of the approval, so that an order is confirmed twice;
- refunds: 2 calls, 2 clock readings;
- reconciliation: 3 runs by 2 calls, 2 clock readings, 1 move of the provider,
  approval and refund, from a new payment on any terms or from one that is
  reconciled, in the run of that name; `services` repeats it with 2 runs, for the
  types only.

The proofs of all seven need none of these bounds.

`UsableTicketBacked` holds with one drain at a time, which is what a Node
process arranges (`processing` in `ticketing-api.mjs`); `TicketsAreBacked` proves
it under that hypothesis, for any number of reservations. With two, as while a new
release replaces the old, TLC finds it violated: one drain misses an approval
that was inserted late and handles the refund behind it, while the other has the
approval in its page and, its checks of the payment made before the refund,
inserts the ticket afterwards.

Fairness (`FairSpec`). A request that does not die finishes (`WF` of `Step`):
its statements return. The provider delivers again an event that was not
accepted (`SF` of `Retry`): that is the contract of the 503 answer, and strong
because a worker is not always idle. Nothing obliges a card to be submitted or a
request to die, and deaths are bounded by `MaxCrashes`.
The liveness properties exempt `Abandoned` events: those that were answered as
stale or deferred, which ends the provider's retries, although another delivery
of the same event was still running and died later.

In `FairFulfilmentSpec` a drain that does not die goes on (`WF` of `Step`), the
timer starts the next one (`WF` of `Load`), and the order of a recorded approval
is confirmed (`WF` of `ConfirmOrder`), which `payment_live` shows of the payment
pipeline. Buyers, gates, the clock, refunds and the insertion of results are
never obliged to happen. Crashes and changes of name are bounded.

`OutboxFairness`: the timer of `outbox-scheduler.ts` keeps claiming what is due, a
run that does not die goes on, and time passes, so that rows become due and
leases that nobody works under end. `TrialsFairness`: the same for the hosts of
schedulers and notifiers; the delivery port answers, and of the deliveries asked
for again and again one succeeds (`SF` of `Delivered`), without which no
notification could be promised. Operators, failing statements, deaths and leases
that end early are never obliged, and mishaps are bounded. The other five modules
have no fairness and no liveness property.

## Findings

Each is a run that TLC shows violated; `PROJECT.json` quotes the line.

1. `payment_retry`: a retry does not always reconstruct the result of an
   interrupted delivery. If the refund is applied in between, the approval is
   acknowledged as stale, has no result, and the refund can never be booked.
2. `payment_money`: an event of another amount is not deferred. The transport
   applies the event of the claimed receipt, which was rebuilt from a row that
   has no amount.
3. `ticket_skip`: the cursor can pass a result whose handler never ran. A
   result's `recordedAt` is read before it is inserted; one inserted after a
   later stamp was handled lies behind the cursor for good, and its buyer paid
   for a hold that expires.
4. `ticket_refund`: a verified refund does not always reach the ticket. It is
   applied with the provider's time and refused when that is before
   `confirmedAt`, which is the server's time of a drain that may run after the
   refund was made. The drain then throws at every retry.

`DrainStopsOnlyWhereRefused` lists in `Refused` all the results a drain can be
stuck at. They are worth knowing, since every later result waits behind them:
an approval of a hold that ended, of a payment refunded before it was handled,
or whose ticket was already inserted under a name the holder has changed since
(the drain died before it saved the cursor); a refund of a reservation that
was never confirmed, as in 4, or whose ticket was used.

## Proofs

`PaymentOutcomeProofs` proves, for any numbers of workers, payments, events and
crashes and any clocks, every safety property of the passing runs, the action
property and the refinement. It uses the named assumptions of `PaymentOutcome`
only (events and constants have their types).

The properties are not inductive: `LedgerBacked`, for one, depends on what a
request in its `post` step holds in memory. `IInv` strengthens them with, for every
label, what the request's locals still say about the database (`WorkerInv`): an
event claimed, a row that the payment has reached or passed, a result recorded.
These facts survive the other requests' steps because the database only grows:
receipts, results and the ledger are never deleted from, and a payment's status
only moves to one that agrees with earlier results (`Grows`, `WorkerStable`). The
lemma `Preserved` reduces each action to its own worker and the database; there
is one lemma per action. The theorems then follow from `IInv`, and
`PipelineImplementsAuthority` maps `UpdatePayment` to `Advance`, `Record` to
`Record`, the two bookings to `PostEntry`, and every other action to a
stutter.

`TicketReservationsProofs` proves the type invariant, `NoOversell`,
`RowsReadable` and `ReservationsMoveForward` for any finite set of reservations,
any offers and any clock readings in any order. The committed units are a set
(`Units`: one element per unit of a reservation) whose cardinality is the sum
the code computes, so that the proof argues with subsets and disjoint unions: a
sweep, a cancellation or a refund leaves a subset of the units, a confirmation
leaves the same, and a hold adds a set of its quantity disjoint from the rest, for
which `Room` was tested. The strengthening is small: `NoOversell` needs the
types (`Units` is finite), and that a row stays readable needs what its status
says of its times.

`TicketFulfilmentProofs` proves `FulfilmentTypeOK`, `ConfirmedMeansPaid`,
`CursorForward` and `InOrderResultsHandled` for any finite set of reservations
and any number of drains that overlap, fail and die, `UsableTicketBacked` for
one drain at a time, and that every step of the fulfilment is a transaction of
`TicketReservations` or leaves its tables alone (`FulfilmentUsesReservations`),
so that the theorems on reservations hold here too; `FulfilmentNeverOversells` is
the one spelled out. `FulfilmentUsesAuthority` says the same of the payments and
`PaymentAuthority`, which is the counterpart of `PipelineImplementsAuthority`.

- A drain tests something and acts on it several statements later, so
  `ConfirmedMeansPaid` is inductive only with what each drain relies on at its
  label (`Relies`): at `confirm` that its result is recorded and its order
  confirmed, at `issue` to `insert` that the reservation was confirmed. These
  facts survive the steps of everybody else because recorded results, confirmed
  orders and times of confirmation are never taken back (`Grows`, `DrainStable`).
  The lemmas `GotoKeeps`, `FailKeeps`, `TurnKeeps` and `RequireKeeps` treat the
  four ways a drain continues once for all its labels.
- `InOrderResultsHandled` says of the saved cursor what has to be true of every
  cursor a drain has loaded (`Vouched`): it is the key of a handled result, and
  every result it has passed was handled or came late. A page read behind such a
  cursor goes past nothing (`Complete`): any result in order up to one of its own
  was handled or is in it, since a page is closed downwards in the order of the
  feed (`PageComplete`). The drain takes its page from the first on, so the key
  of the result in hand is vouched for once it is handled (`JobVouched`). What
  others do meanwhile harms neither: what is handled stays handled
  (`HandledStays`, which uses that a cancelled reservation stays so), and a
  result inserted later is either not in order or has the key of one that was
  handled (`FeedPlaces`).
- `UsableTicketBacked` needs that a reservation is confirmed from `issue` to
  `insert` (`ToBeIssued`). Only the cancellation after a refund takes a
  confirmation back, a drain does that, and the only drain is not at those
  labels then. This is where the hypothesis of one drain is used, and nowhere
  else.

The assumptions are the named ones of `TicketReservations` and
`TicketFulfilment`: result ids are distinct naturals, one for each payment and
outcome, the bounds are naturals, and `Null` is no result.

The proofs of the seven services follow one pattern: an inductive invariant that
says, for every label of a request, what its locals still tell of the tables, and
one lemma per action.

- Check-in: the history of check-ins is a function of the ticket's status (which
  results exist, each once), and a commit happens only on the ticket the request
  read and decided upon, with no earlier attempt of its identity.
- Checkout: each table has at most one row, and each row names the one of the
  table before it (claim the order, payment the claim); a call past a label has
  seen what that label inserts, and an order that left draft never returns.
  `PaidOrdersStay` needs that a conditional update names the row it replaces.
- Refund requests: the row's reference, the provider's refund and the status
  `refunded` are never taken back; every answer rests on one of them.
- Outbox: that nothing is sent twice rests on the dispatch claims and not on the
  leases: a runner about to send took the key, only it can release the key, and a
  receipt keeps it for good. `OnlyHolderRecords` rests on the attempt number,
  which each claim raises. `UndisturbedIsExact` is the other way round: without
  mishaps every lease of a batch stands and no two runners have the same
  (`LeasesStand`, `LeasesApart`), so a receipt or a dispatch claim that the row
  does not tell yet is that of the runner at work on it (`ReceiptsTold`,
  `KeysInUse`). The invariant `Undisturbed` says all this while `mishaps = 0`.
- Trials: who is about to write the timeline is the one that made the row say so,
  and is alone in that (`EndingsToldOnce`, `NoticeToldOnce`). `RedeliveryNeedsMishap`
  is a count: the deliveries of a trial and the notifiers that have one under way
  are never more than the mishaps, and one more while the trial is held by an
  owner at work or is notified (`PaidFor`).
- Settlement: beside `LedgerBacksRows` the invariant says the converse for payments
  (`BookedWasPaid`) and what a request knows at its label (`Known`).
  `PayableNeverOverdrawn` needs that a reversal takes back only accounts from
  which nothing was paid or is about to be (`ReversalsSpare`), which holds unless
  a transfer raced it, and that one request reverses at a time
  (`ReverserAlone`). Both exceptions are hypotheses of the property itself.
- Reconciliation: for a call during which nothing moved, `SeesNow` says that its
  snapshot and the reads it has still to make add up to the present; each read
  keeps the sum, and a run that has read everything compares the present
  (`ComparedIsNow`). That a finding reads back needs the times of its row in
  order, which `Resolved` sees to by taking the later of two times.

They use the named assumptions of their modules: clocks and bounds are naturals,
`Free`, which marks a claim nobody holds, is no scheduler and no notifier, a call
may start at least one run (`MaxStarts`), and the terminal statuses reconciled
include the approval (`TerminalSeen`), with which a behaviour may begin, as it may
with equal terms (`Disagreements`).

`ServicesProofs` carries all this over to the runs `services` and
`reconciliation`. In `MCServices` a step
is a step of one part that leaves the variables of the others alone, so
`ServicesSpec` implies the specification of each (`PartsImplementTheirSpecs`), and
`ServicesTypes` and `ServicesAreSafe` follow from the theorems on the parts.

So every safety and action property that a run checks is also a theorem. Only
model-checked is liveness under fairness, as TLAPS handles neither fairness of
parameterised actions nor ENABLED: `ApprovalEventuallyPosted`,
`RefundEventuallyReversed`, `DrainStopsOnlyWhereRefused`, `OutboxDrains`,
`DueTrialsEnd` and `ExpiredTrialsNotified`. `PassedResultsHandled`,
`RefundReachesTicket` and the two statements of the payment findings are false,
as their runs show.

## Plan

Done: the payment pipeline, ticket reservations, the result feed with ticket
fulfilment, the seven services around them, and the proofs of all their safety
properties. Next, in this order:

1. A failed first attempt at the provider in `Reconciliation`, and the offline
   devices' registration in `TicketCheckIn`.
2. Restaurant reservations, which resemble `TicketReservations`, and the
   activation of subscriptions, which resembles `Checkout`.
3. The circuit breaker of provider calls, and the security state of sessions.

## What is not modelled

The components that `PROJECT.json` marks `not_modelled` are either in the plan
above or outside it, for one of these reasons. Most of the repository's lines are
user interfaces, content, administration handlers and conformance tooling around
the services modelled here. Adapters of external services
(Mercado Pago, e-mail) translate data formats: their effect is an input here.
Signatures, capabilities, sessions' cryptography and rate limits decide who
may call, not what a call does. Content, destinations, CRM leads, analytics and
affiliates keep records with little interaction between requests. Navigation,
search and the assistant compute over geometry, rankings and text, which are data
rather than control. User interfaces render.
