------------------------ MODULE PaymentOutcomeProofs ------------------------
(***************************************************************************)
(* The payment pipeline is correct for any number of requests, payments,   *)
(* events, crashes and clock readings.  The inductive invariant states, at *)
(* each statement of a request, what the data in its memory still says     *)
(* about a database that other requests have moved on since it was read.   *)
(***************************************************************************)
EXTENDS PaymentOutcome, TLAPS

-----------------------------------------------------------------------------
(* The inductive invariant *)

\* A request between its claim and its answer handles a claimed event.
Handling == {"exact", "replay", "read", "existing", "record", "order",
             "saveOrder", "account", "approval", "post"}
Saving == {"load", "update", "reread"}
Booking == {"order", "saveOrder", "account", "approval", "post"}

HasEvent(w) ==
  /\ pc[w] = "idle" => job[w] = Null
  /\ pc[w] = "claim" => job[w] \in Events /\ target[w] = job[w].payment
  /\ pc[w] \in Handling =>
       /\ job[w] \in receipts
       /\ target[w] = job[w].payment
       /\ target[w] \in Payments

HasRow(w) ==
  /\ pc[w] \in Saving =>
       /\ target[w] \in Payments
       /\ row[w] \in PaymentRow
       /\ job[w] # Null =>
            /\ job[w] \in receipts
            /\ target[w] = job[w].payment
            /\ row[w].status = Target(job[w])
  /\ pc[w] = "update" => old[w] \in PaymentRow /\ MayReplace(old[w], row[w])
  /\ pc[w] = "existing" =>
       /\ row[w] \in PaymentRow
       /\ row[w].status = Target(job[w])
       /\ ~applied[w] => StateAgrees(payments[target[w]], row[w])

HasResult(w) ==
  /\ pc[w] \in Booking \cup {"replay"} =>
       /\ res[w] \in results
       /\ res[w].payment = target[w]
       /\ res[w].status = Target(job[w])
  /\ pc[w] = "record" =>
       /\ row[w] \in PaymentRow
       /\ res[w] \in ResultRow
       /\ res[w].event = job[w].id
       /\ res[w].payment = target[w]
       /\ res[w].status = Target(job[w])
       /\ res[w].status = row[w].status
       /\ StateAgrees(payments[target[w]], res[w])

MayBook(w) ==
  /\ pc[w] \in Booking =>
       /\ row[w] \in PaymentRow
       /\ StateAgrees(row[w], res[w])
       /\ res[w].status = "confirmed" /\ row[w].status = "refunded" =>
            payments[target[w]].status = "refunded"
  /\ pc[w] \in {"account", "approval", "post"} /\ res[w].status = "confirmed" =>
       target[w] \in paidOrders \/ payments[target[w]].status = "refunded"
  /\ pc[w] = "approval" => res[w].status = "refunded"
  /\ pc[w] = "post" =>
       /\ res[w].status \in {"confirmed", "refunded"}
       /\ res[w].status = "refunded" =>
            \E a \in ledger : a.payment = target[w] /\ a.status = "confirmed"

WorkerInv(w) == HasEvent(w) /\ HasRow(w) /\ HasResult(w) /\ MayBook(w)

ReceiptsUnique == \A d, e \in receipts : d.id = e.id => d = e

ResultsFromReceipts ==
  \A r \in results :
    \E e \in receipts :
      e.id = r.event /\ e.payment = r.payment /\ Target(e) = r.status

ResultsUnique ==
  \A r, s \in results : r.payment = s.payment /\ r.status = s.status => r = s

ResultsReached == \A r \in results : StateAgrees(payments[r.payment], r)

DatabaseInv ==
  /\ ReceiptsUnique /\ ResultsFromReceipts /\ ResultsUnique /\ ResultsReached
  /\ LedgerBacked /\ BookedOrderConfirmed /\ SettledMeansBooked

IInv == TypeOK /\ DatabaseInv /\ \A w \in Workers : WorkerInv(w)

-----------------------------------------------------------------------------
(* Lemmas about the state machine of a payment *)

\* A verified event names one of the five provider statuses, and its target is
\* a terminal status.
LEMMA TargetType == \A e \in Events : Target(e) \in TerminalStatuses
BY EventsAssumption DEF Target, EventRecord, ProviderStatuses, TerminalStatuses

\* The receipt row keeps everything of an event but its money.
LEMMA StoredFacts ==
  ASSUME NEW e \in Events
  PROVE  /\ Stored(e).status = e.status
         /\ Stored(e).ref = e.ref
         /\ Stored(e).occurredAt = e.occurredAt
         /\ Target(Stored(e)) = Target(e)
BY EventsAssumption DEF Stored, EventRecord, Target

\* Applying an event to a row of the table gives a row of the table in the
\* target status.
LEMMA UpdatedType ==
  ASSUME NEW e \in Events, NEW p \in PaymentRow
  PROVE  /\ Updated(p, Stored(e)) \in PaymentRow
         /\ Updated(p, Stored(e)).status = Target(e)
<1>1. /\ e.ref \in Refs \cup {Null}
      /\ e.occurredAt \in Nat
  BY EventsAssumption DEF EventRecord
<1>2. Target(e) \in PaymentStatuses
  BY TargetType DEF PaymentStatuses
<1> QED
  BY <1>1, <1>2, StoredFacts DEF Updated, PaymentRow

\* A result of a payment stays true when the payment moves on.
LEMMA AgreesStable ==
  ASSUME NEW p, NEW q, NEW r,
         q = p \/ MayReplace(p, q),
         r.status \in TerminalStatuses,
         StateAgrees(p, r)
  PROVE  StateAgrees(q, r)
BY DEF MayReplace, IsPaymentTransitionAllowed, StateAgrees, TerminalStatuses

\* A refunded payment stays refunded.
LEMMA RefundStable ==
  ASSUME NEW p, NEW q,
         q = p \/ MayReplace(p, q),
         p.status = "refunded"
  PROVE  q.status = "refunded"
BY DEF MayReplace, IsPaymentTransitionAllowed

-----------------------------------------------------------------------------
(* What a request knows survives the steps of the others *)

Grows ==
  /\ receipts \subseteq receipts'
  /\ results \subseteq results'
  /\ ledger \subseteq ledger'
  /\ paidOrders \subseteq paidOrders'
  /\ \A p \in Payments : \/ payments'[p] = payments[p]
                         \/ MayReplace(payments[p], payments'[p])

Same(v) ==
  /\ pc'[v] = pc[v] /\ job'[v] = job[v] /\ target'[v] = target[v]
  /\ row'[v] = row[v] /\ applied'[v] = applied[v]
  /\ old'[v] = old[v] /\ res'[v] = res[v]

\* What a request holds about the database stays true while only others step.
LEMMA WorkerStable ==
  ASSUME TypeOK, NEW v \in Workers, WorkerInv(v), Same(v), Grows
  PROVE  WorkerInv(v)'
<1> USE DEF Same, Grows
<1>1. HasEvent(v)'
  BY DEF WorkerInv, HasEvent
<1>2. HasRow(v)'
  <2>1. ASSUME pc[v] = "existing", ~applied[v]
        PROVE  StateAgrees(payments'[target[v]], row[v])
    <3>1. /\ StateAgrees(payments[target[v]], row[v])
          /\ target[v] \in Payments
          /\ row[v].status = Target(job[v])
          /\ job[v] \in Events
      BY <2>1 DEF WorkerInv, HasRow, HasEvent, Handling, TypeOK, DatabaseType
    <3>2. row[v].status \in TerminalStatuses
      BY <3>1, TargetType
    <3> QED
      BY <3>1, <3>2, AgreesStable
  <2> QED
    BY <2>1 DEF WorkerInv, HasRow
<1>3. HasResult(v)'
  <2>1. ASSUME pc[v] = "record"
        PROVE  StateAgrees(payments'[target[v]], res[v])
    <3>1. /\ StateAgrees(payments[target[v]], res[v])
          /\ target[v] \in Payments
          /\ res[v].status \in TerminalStatuses
      BY <2>1 DEF WorkerInv, HasResult, HasEvent, Handling, ResultRow
    <3> QED
      BY <3>1, AgreesStable
  <2> QED
    BY <2>1 DEF WorkerInv, HasResult
<1>4. MayBook(v)'
  <2>1. ASSUME pc[v] \in Booking, payments[target[v]].status = "refunded"
        PROVE  payments'[target[v]].status = "refunded"
    <3>1. target[v] \in Payments
      BY <2>1 DEF WorkerInv, HasEvent, Handling, Booking
    <3> QED
      BY <2>1, <3>1, RefundStable
  <2>2. {"account", "approval", "post"} \subseteq Booking
    BY DEF Booking
  <2> QED
    BY <2>1, <2>2 DEF WorkerInv, MayBook
<1> QED
  BY <1>1, <1>2, <1>3, <1>4 DEF WorkerInv

-----------------------------------------------------------------------------
(* How a step is shown to preserve the invariant *)

OthersSame(w) == \A v \in Workers \ {w} : Same(v)

\* A step of one request preserves the invariant if it does so for the
\* database and for that request, and the database only grows.
LEMMA Preserved ==
  ASSUME IInv, NEW w \in Workers, OthersSame(w), Grows,
         TypeOK', DatabaseInv', WorkerInv(w)'
  PROVE  IInv'
<1>1. ASSUME NEW v \in Workers \ {w}
      PROVE  WorkerInv(v)'
  BY WorkerStable DEF IInv, OthersSame
<1> QED
  BY <1>1 DEF IInv

\* A step that writes no table and settles no event keeps the database part.
LEMMA DatabaseUnchanged ==
  ASSUME IInv, UNCHANGED database, UNCHANGED settled
  PROVE  DatabaseInv' /\ Grows
BY DEF IInv, database, Grows, DatabaseInv, ReceiptsUnique, ResultsFromReceipts,
       ResultsUnique, ResultsReached, LedgerBacked, BookedOrderConfirmed,
       SettledMeansBooked

\* A request that ends keeps no promise, and disturbs no other request.
LEMMA LeaveFacts ==
  ASSUME IInv, NEW w \in Workers, Leave(w)
  PROVE  LocalsType' /\ WorkerInv(w)' /\ OthersSame(w)
<1>1. pc'[w] = "idle" /\ job'[w] = Null
  BY DEF IInv, TypeOK, LocalsType, Leave, Goto
<1>2. WorkerInv(w)'
  BY <1>1 DEF WorkerInv, HasEvent, HasRow, HasResult, MayBook, Handling, Saving,
              Booking
<1>3. LocalsType'
  BY DEF IInv, TypeOK, LocalsType, Leave, Goto, Labels
<1>4. OthersSame(w)
  BY DEF IInv, TypeOK, LocalsType, Leave, Goto, OthersSame, Same
<1> QED
  BY <1>2, <1>3, <1>4

\* A request refused with 503 or 409 preserves the invariant.
LEMMA RejectStep ==
  ASSUME IInv, NEW w \in Workers, Reject(w), UNCHANGED database,
         UNCHANGED charged, crashes' \in 0 .. MaxCrashes
  PROVE  IInv'
<1>1. LocalsType' /\ WorkerInv(w)' /\ OthersSame(w)
  BY LeaveFacts DEF Reject
<1>2. DatabaseInv' /\ Grows
  BY DatabaseUnchanged DEF Reject, answers
<1>3. DatabaseType'
  BY DEF IInv, TypeOK, DatabaseType, Reject, database, answers
<1> QED
  BY <1>1, <1>2, <1>3, Preserved DEF TypeOK

-----------------------------------------------------------------------------
(* The initial state *)

LEMMA InitIInv == Init => IInv
<1> SUFFICES ASSUME Init PROVE IInv
  OBVIOUS
<1>1. PendingRow \in PaymentRow
  BY DEF PendingRow, PaymentRow, PaymentStatuses
<1>2. TypeOK
  BY <1>1, CrashAssumption
  DEF Init, TypeOK, DatabaseType, LocalsType, Labels
<1>3. DatabaseInv
  BY DEF Init, DatabaseInv, ReceiptsUnique, ResultsFromReceipts, ResultsUnique,
         ResultsReached, LedgerBacked, BookedOrderConfirmed, SettledMeansBooked
<1>4. ASSUME NEW w \in Workers PROVE WorkerInv(w)
  <2>1. pc[w] = "idle" /\ job[w] = Null
    BY DEF Init
  <2> QED
    BY <2>1 DEF WorkerInv, HasEvent, HasRow, HasResult, MayBook, Handling,
                Saving, Booking
<1> QED
  BY <1>2, <1>3, <1>4 DEF IInv

-----------------------------------------------------------------------------
(* The receipt of an event *)

LEMMA DeliverStep ==
  ASSUME IInv, NEW w \in Workers, NEW e \in Events, Deliver(w, e)
  PROVE  IInv'
<1>1. e.payment \in Payments \cup {Null}
  BY EventsAssumption DEF EventRecord
<1>2. TypeOK'
  BY <1>1 DEF Deliver, IInv, TypeOK, DatabaseType, LocalsType, Goto, Labels,
              Internal, database, answers
<1>3. DatabaseInv' /\ Grows
  BY DatabaseUnchanged DEF Deliver, Internal, answers
<1>4. OthersSame(w)
  BY DEF IInv, TypeOK, LocalsType, Deliver, Goto, OthersSame, Same
<1>5. pc'[w] = "claim" /\ job'[w] = e /\ target'[w] = e.payment
  BY DEF IInv, TypeOK, LocalsType, Deliver, Goto
<1>6. WorkerInv(w)'
  BY <1>5 DEF WorkerInv, HasEvent, HasRow, HasResult, MayBook, Handling, Saving,
              Booking
<1> QED
  BY <1>2, <1>3, <1>4, <1>6, Preserved

\* The table of receipts, claimed under their event ids.
LEMMA ReceiptsClaimed ==
  ASSUME IInv, NEW e \in Events,
         \A d \in receipts : d.id = e.id => d = e,
         receipts' = receipts \cup {e},
         UNCHANGED <<payments, results, ledger, paidOrders>>
  PROVE  /\ ReceiptsUnique' /\ ResultsFromReceipts' /\ ResultsUnique'
         /\ ResultsReached' /\ LedgerBacked' /\ BookedOrderConfirmed'
         /\ Grows
<1>1. ReceiptsUnique'
  BY DEF IInv, DatabaseInv, ReceiptsUnique
<1> QED
  BY <1>1 DEF IInv, DatabaseInv, ResultsFromReceipts, ResultsUnique,
              ResultsReached, LedgerBacked, BookedOrderConfirmed, Grows

LEMMA ClaimStep ==
  ASSUME IInv, NEW w \in Workers, Claim(w)
  PROVE  IInv'
<1> DEFINE e == job[w]
<1>1. e \in Events /\ target[w] = e.payment /\ e.payment \in Payments \cup {Null}
  BY EventsAssumption DEF IInv, WorkerInv, HasEvent, Claim, EventRecord
<1>2. CASE (\E d \in receipts : d.id = e.id /\ d # e) /\ Reject(w)
           /\ UNCHANGED receipts
  BY <1>2, RejectStep DEF Claim, database, IInv, TypeOK, DatabaseType
<1>3. CASE /\ \A d \in receipts : d.id = e.id => d = e
           /\ receipts' = receipts \cup {e}
           /\ e.payment = Null /\ Ignore(w)
  <2>1. LocalsType' /\ WorkerInv(w)' /\ OthersSame(w)
    BY <1>3, LeaveFacts DEF Ignore
  <2>2. DatabaseType'
    BY <1>1, <1>3 DEF IInv, TypeOK, DatabaseType, Claim, Ignore
  <2>3. DatabaseInv' /\ Grows
    BY <1>1, <1>3, ReceiptsClaimed
    DEF Claim, Ignore, DatabaseInv, SettledMeansBooked, IInv
  <2> QED
    BY <2>1, <2>2, <2>3, Preserved DEF TypeOK
<1>4. CASE /\ \A d \in receipts : d.id = e.id => d = e
           /\ receipts' = receipts \cup {e}
           /\ e.payment # Null
           /\ Goto(w, "exact")
           /\ UNCHANGED <<locals, answers>>
  <2>1. TypeOK'
    BY <1>1, <1>4
    DEF IInv, TypeOK, DatabaseType, LocalsType, Claim, locals, answers, Goto,
        Labels
  <2>2. OthersSame(w)
    BY <1>4 DEF IInv, TypeOK, LocalsType, Goto, locals, OthersSame, Same
  <2>3. DatabaseInv' /\ Grows
    BY <1>1, <1>4, ReceiptsClaimed
    DEF Claim, answers, DatabaseInv, SettledMeansBooked, IInv
  <2>4. pc'[w] = "exact"
    BY <1>4 DEF IInv, TypeOK, LocalsType, Goto
  <2>5. WorkerInv(w)'
    BY <1>1, <1>4, <2>4 DEF WorkerInv, HasEvent, HasRow, HasResult, MayBook,
                            Handling, Saving, Booking, locals
  <2> QED
    BY <2>1, <2>2, <2>3, <2>5, Preserved
<1> QED
  BY <1>2, <1>3, <1>4 DEF Claim

-----------------------------------------------------------------------------
(* The outcome service *)

LEMMA FindExactStep ==
  ASSUME IInv, NEW w \in Workers, FindExact(w)
  PROVE  IInv'
<1>1. /\ job[w] \in receipts /\ target[w] = job[w].payment
      /\ target[w] \in Payments
  BY DEF IInv, WorkerInv, HasEvent, Handling, FindExact
<1>2. DatabaseInv' /\ Grows
  BY DatabaseUnchanged DEF FindExact, Internal, answers
<1>3. OthersSame(w)
  BY DEF FindExact, IInv, TypeOK, LocalsType, Goto, OthersSame, Same
<1>4. ASSUME NEW r \in results, r.event = job[w].id,
             res' = [res EXCEPT ![w] = r], Goto(w, "replay")
      PROVE  TypeOK' /\ WorkerInv(w)'
  <2>1. r.payment = target[w] /\ r.status = Target(job[w])
    <3>1. PICK e \in receipts :
            e.id = r.event /\ e.payment = r.payment /\ Target(e) = r.status
      BY DEF IInv, DatabaseInv, ResultsFromReceipts
    <3>2. e = job[w]
      BY <1>1, <1>4, <3>1 DEF IInv, DatabaseInv, ReceiptsUnique
    <3> QED
      BY <1>1, <3>1, <3>2
  <2>2. TypeOK'
    BY <1>4 DEF IInv, TypeOK, DatabaseType, LocalsType, FindExact, Goto, Labels,
                Internal, database, answers
  <2>3. pc'[w] = "replay" /\ res'[w] = r
    BY <1>4 DEF IInv, TypeOK, LocalsType, Goto
  <2>4. WorkerInv(w)'
    BY <1>1, <2>1, <2>3 DEF FindExact, database, WorkerInv, HasEvent, HasRow,
                            HasResult, MayBook, Handling, Saving, Booking
  <2> QED
    BY <2>2, <2>4
<1>5. ASSUME Goto(w, "read"), UNCHANGED res
      PROVE  TypeOK' /\ WorkerInv(w)'
  <2>1. TypeOK'
    BY <1>5 DEF IInv, TypeOK, DatabaseType, LocalsType, FindExact, Goto, Labels,
                Internal, database, answers
  <2>2. pc'[w] = "read"
    BY <1>5 DEF IInv, TypeOK, LocalsType, Goto
  <2>3. WorkerInv(w)'
    BY <1>1, <2>2 DEF FindExact, database, WorkerInv, HasEvent, HasRow,
                      HasResult, MayBook, Handling, Saving, Booking
  <2> QED
    BY <2>1, <2>3
<1>6. TypeOK' /\ WorkerInv(w)'
  BY <1>4, <1>5 DEF FindExact
<1> QED
  BY <1>2, <1>3, <1>6, Preserved

LEMMA ReplayStep ==
  ASSUME IInv, NEW w \in Workers, Replay(w)
  PROVE  IInv'
<1>1. /\ job[w] \in receipts /\ target[w] = job[w].payment
      /\ target[w] \in Payments
      /\ res[w] \in results /\ res[w].payment = target[w]
      /\ res[w].status = Target(job[w])
  BY DEF IInv, WorkerInv, HasEvent, HasResult, Handling, Replay
<1>2. DatabaseInv' /\ Grows
  BY DatabaseUnchanged DEF Replay, Internal, answers
<1>3. OthersSame(w)
  BY DEF Replay, IInv, TypeOK, LocalsType, Goto, OthersSame, Same
<1>4. payments[target[w]] \in PaymentRow
  BY <1>1 DEF IInv, TypeOK, DatabaseType
<1>5. StateAgrees(payments[target[w]], res[w])
  BY <1>1 DEF IInv, DatabaseInv, ResultsReached
<1>6. TypeOK'
  BY <1>1, <1>4 DEF IInv, TypeOK, DatabaseType, LocalsType, Replay, Goto, Labels,
                    Internal, database, answers
<1>7. pc'[w] = "order" /\ row'[w] = payments[target[w]]
  BY <1>1 DEF IInv, TypeOK, LocalsType, Goto, Replay
<1>8. WorkerInv(w)'
  BY <1>1, <1>4, <1>5, <1>7 DEF Replay, database, WorkerInv, HasEvent, HasRow,
                      HasResult, MayBook, Handling, Saving, Booking
<1> QED
  BY <1>2, <1>3, <1>6, <1>8, Preserved

\* An event that is answered stale or deferred preserves the invariant.
LEMMA IgnoreStep ==
  ASSUME IInv, NEW w \in Workers, Ignore(w), job[w] \in Events,
         UNCHANGED database, UNCHANGED <<charged, crashes>>
  PROVE  IInv'
<1>1. LocalsType' /\ WorkerInv(w)' /\ OthersSame(w)
  BY LeaveFacts DEF Ignore
<1>2. DatabaseInv' /\ Grows
  BY DatabaseUnchanged DEF Ignore
<1>3. DatabaseType'
  BY DEF IInv, TypeOK, DatabaseType, Ignore, database
<1> QED
  BY <1>1, <1>2, <1>3, Preserved DEF TypeOK

LEMMA ReadPaymentStep ==
  ASSUME IInv, NEW w \in Workers, ReadPayment(w)
  PROVE  IInv'
<1> DEFINE e == job[w]
           p == payments[target[w]]
<1>1. /\ e \in receipts /\ e \in Events
      /\ target[w] = e.payment /\ target[w] \in Payments
      /\ p \in PaymentRow
  BY DEF IInv, WorkerInv, HasEvent, Handling, ReadPayment, TypeOK, DatabaseType
<1>2. CASE ~Applies(p, Stored(e)) /\ ~Repeats(p, Stored(e)) /\ Ignore(w)
  BY <1>1, <1>2, IgnoreStep DEF ReadPayment
<1>3. ASSUME NEW q \in PaymentRow, q.status = Target(e),
             row' = [row EXCEPT ![w] = q],
             Goto(w, "existing"), applied'[w] \/ q = p,
             applied' \in [Workers -> BOOLEAN],
             \A v \in Workers \ {w} : applied'[v] = applied[v],
             UNCHANGED <<job, target, old, res, answers>>
      PROVE  IInv'
  <2>1. DatabaseInv' /\ Grows
    BY <1>3, DatabaseUnchanged DEF ReadPayment, answers
  <2>2. OthersSame(w)
    BY <1>3 DEF IInv, TypeOK, LocalsType, Goto, OthersSame, Same
  <2>3. TypeOK'
    BY <1>3 DEF IInv, TypeOK, DatabaseType, LocalsType, ReadPayment, Goto,
                Labels, database, answers
  <2>4. pc'[w] = "existing" /\ row'[w] = q
    BY <1>3 DEF IInv, TypeOK, LocalsType, Goto
  <2>5. WorkerInv(w)'
    BY <1>1, <1>3, <2>4
    DEF ReadPayment, database, WorkerInv, HasEvent, HasRow, HasResult, MayBook,
        Handling, Saving, Booking, StateAgrees
  <2> QED
    BY <2>1, <2>2, <2>3, <2>5, Preserved
<1>4. CASE /\ Applies(p, Stored(e))
           /\ row' = [row EXCEPT ![w] = Updated(p, Stored(e))]
           /\ applied' = [applied EXCEPT ![w] = TRUE]
           /\ Goto(w, "existing")
           /\ UNCHANGED <<job, target, old, res, answers>>
  <2>1. /\ Updated(p, Stored(e)) \in PaymentRow
        /\ Updated(p, Stored(e)).status = Target(e)
    BY <1>1, UpdatedType
  <2>2. /\ applied'[w] /\ applied' \in [Workers -> BOOLEAN]
        /\ \A v \in Workers \ {w} : applied'[v] = applied[v]
    BY <1>4 DEF IInv, TypeOK, LocalsType
  <2> QED
    BY <1>3, <1>4, <2>1, <2>2
<1>5. CASE /\ Repeats(p, Stored(e))
           /\ row' = [row EXCEPT ![w] = p]
           /\ Goto(w, "existing")
           /\ UNCHANGED <<job, target, applied, old, res, answers>>
  <2>1. p.status = Target(e)
    BY <1>1, <1>5, StoredFacts DEF Repeats
  <2>2. applied' \in [Workers -> BOOLEAN]
    BY <1>5 DEF IInv, TypeOK, LocalsType
  <2> QED
    BY <1>1, <1>3, <1>5, <2>1, <2>2
<1> QED
  BY <1>2, <1>4, <1>5 DEF ReadPayment

\* The result a request is about to record, for a status its payment has
\* reached.
LEMMA NewResultFacts ==
  ASSUME IInv, NEW w \in Workers, NEW now \in Clock,
         job[w] \in Events, target[w] = job[w].payment, target[w] \in Payments,
         NEW q \in PaymentRow, q.status = Target(job[w])
  PROVE  LET r == NewResult(w, q, now) IN
         /\ r \in ResultRow
         /\ r.event = job[w].id
         /\ r.payment = target[w]
         /\ r.status = Target(job[w])
<1>1. job[w].id \in Nat /\ job[w].occurredAt \in Nat
  BY EventsAssumption DEF EventRecord
<1>2. now \in Nat
  BY ClockAssumption
<1>3. q.status \in TerminalStatuses
  BY TargetType
<1>4. q.ref \in Refs \cup {Null}
  BY DEF PaymentRow
<1> QED
  BY <1>1, <1>2, <1>3, <1>4 DEF NewResult, ResultRow

LEMMA FindExistingStep ==
  ASSUME IInv, NEW w \in Workers, FindExisting(w)
  PROVE  IInv'
<1>1. /\ job[w] \in receipts /\ job[w] \in Events
      /\ target[w] = job[w].payment /\ target[w] \in Payments
      /\ row[w] \in PaymentRow /\ row[w].status = Target(job[w])
      /\ ~applied[w] => StateAgrees(payments[target[w]], row[w])
  BY DEF IInv, WorkerInv, HasEvent, HasRow, Handling, FindExisting, TypeOK,
         DatabaseType
<1>2. DatabaseInv' /\ Grows
  BY DatabaseUnchanged DEF FindExisting, Internal, answers
<1>3. OthersSame(w)
  BY DEF FindExisting, IInv, TypeOK, LocalsType, Goto, OthersSame, Same
<1>4. ASSUME NEW r \in results, r.payment = target[w], r.status = row[w].status,
             res' = [res EXCEPT ![w] = r], Goto(w, "order")
      PROVE  TypeOK' /\ WorkerInv(w)'
  <2>1. TypeOK'
    BY <1>4 DEF IInv, TypeOK, DatabaseType, LocalsType, FindExisting, Goto,
                Labels, Internal, database, answers
  <2>2. pc'[w] = "order" /\ res'[w] = r
    BY <1>4 DEF IInv, TypeOK, LocalsType, Goto
  <2>3. WorkerInv(w)'
    BY <1>1, <1>4, <2>2
    DEF FindExisting, database, WorkerInv, HasEvent, HasRow, HasResult, MayBook,
        Handling, Saving, Booking, StateAgrees
  <2> QED
    BY <2>1, <2>3
<1>5. ASSUME Goto(w, "load"), UNCHANGED res
      PROVE  TypeOK' /\ WorkerInv(w)'
  <2>1. TypeOK'
    BY <1>5 DEF IInv, TypeOK, DatabaseType, LocalsType, FindExisting, Goto,
                Labels, Internal, database, answers
  <2>2. pc'[w] = "load"
    BY <1>5 DEF IInv, TypeOK, LocalsType, Goto
  <2>3. WorkerInv(w)'
    BY <1>1, <2>2
    DEF FindExisting, database, WorkerInv, HasEvent, HasRow, HasResult, MayBook,
        Handling, Saving, Booking
  <2> QED
    BY <2>1, <2>3
<1>6. ASSUME ~applied[w], NEW now \in Clock,
             res' = [res EXCEPT ![w] = NewResult(w, row[w], now)],
             Goto(w, "record")
      PROVE  TypeOK' /\ WorkerInv(w)'
  <2> DEFINE r == NewResult(w, row[w], now)
  <2>1. /\ r \in ResultRow /\ r.event = job[w].id /\ r.payment = target[w]
        /\ r.status = Target(job[w])
    BY <1>1, NewResultFacts
  <2>2. TypeOK'
    BY <1>6, <2>1 DEF IInv, TypeOK, DatabaseType, LocalsType, FindExisting, Goto,
                      Labels, Internal, database, answers
  <2>3. pc'[w] = "record" /\ res'[w] = r
    BY <1>6 DEF IInv, TypeOK, LocalsType, Goto
  <2>4. StateAgrees(payments[target[w]], r)
    BY <1>1, <1>6, <2>1 DEF StateAgrees
  <2> HIDE DEF r
  <2>5. WorkerInv(w)'
    BY <1>1, <2>1, <2>3, <2>4
    DEF FindExisting, database, WorkerInv, HasEvent, HasRow, HasResult, MayBook,
        Handling, Saving, Booking
  <2> QED
    BY <2>2, <2>5
<1>7. TypeOK' /\ WorkerInv(w)'
  BY <1>4, <1>5, <1>6 DEF FindExisting, Existing
<1> QED
  BY <1>2, <1>3, <1>7, Preserved

-----------------------------------------------------------------------------
(* MySqlPaymentRepository.save *)

\* The caller of save goes on with the row it knows to be persisted.
LEMMA SavedStep ==
  ASSUME IInv, NEW w \in Workers, pc[w] \in Saving,
         payments[target[w]] = row[w],
         Saved(w), UNCHANGED database, UNCHANGED <<charged, answers, crashes>>
  PROVE  IInv'
<1>1. /\ target[w] \in Payments /\ row[w] \in PaymentRow
      /\ job[w] # Null => /\ job[w] \in receipts /\ job[w] \in Events
                          /\ target[w] = job[w].payment
                          /\ row[w].status = Target(job[w])
  BY DEF IInv, WorkerInv, HasRow, TypeOK, DatabaseType
<1>2. DatabaseInv' /\ Grows
  BY DatabaseUnchanged DEF answers
<1>3. CASE job[w] = Null /\ Leave(w)
  <2>1. DatabaseType'
    BY DEF IInv, TypeOK, DatabaseType, database, answers
  <2> QED
    BY <1>2, <1>3, <2>1, LeaveFacts, Preserved DEF TypeOK
<1>4. ASSUME job[w] # Null, NEW now \in Clock,
             res' = [res EXCEPT ![w] = NewResult(w, row[w], now)],
             Goto(w, "record"), UNCHANGED <<job, target, row, applied, old>>
      PROVE  IInv'
  <2> DEFINE r == NewResult(w, row[w], now)
  <2>1. /\ r \in ResultRow /\ r.event = job[w].id /\ r.payment = target[w]
        /\ r.status = Target(job[w])
    BY <1>1, <1>4, NewResultFacts
  <2>2. TypeOK'
    BY <1>4, <2>1 DEF IInv, TypeOK, DatabaseType, LocalsType, Goto, Labels,
                      database, answers
  <2>3. pc'[w] = "record" /\ res'[w] = r
    BY <1>4 DEF IInv, TypeOK, LocalsType, Goto
  <2>4. StateAgrees(payments[target[w]], r)
    BY <1>1, <1>4, <2>1 DEF StateAgrees
  <2>5. OthersSame(w)
    BY <1>4 DEF IInv, TypeOK, LocalsType, Goto, OthersSame, Same
  <2> HIDE DEF r
  <2>6. WorkerInv(w)'
    BY <1>1, <1>4, <2>1, <2>3, <2>4
    DEF database, WorkerInv, HasEvent, HasRow, HasResult, MayBook, Handling,
        Saving, Booking
  <2> QED
    BY <1>2, <2>2, <2>5, <2>6, Preserved
<1> QED
  BY <1>3, <1>4 DEF Saved

LEMMA LoadForSaveStep ==
  ASSUME IInv, NEW w \in Workers, LoadForSave(w)
  PROVE  IInv'
<1> DEFINE p == payments[target[w]]
<1>1. pc[w] \in Saving /\ target[w] \in Payments /\ p \in PaymentRow
  BY DEF LoadForSave, IInv, WorkerInv, HasRow, Saving, TypeOK, DatabaseType
<1>2. CASE p = row[w] /\ Saved(w) /\ UNCHANGED answers
  BY <1>1, <1>2, SavedStep DEF LoadForSave
<1>3. CASE Reject(w)
  BY <1>3, RejectStep DEF LoadForSave, IInv, TypeOK, DatabaseType
<1>4. CASE /\ MayReplace(p, row[w])
           /\ old' = [old EXCEPT ![w] = p]
           /\ Goto(w, "update")
           /\ UNCHANGED <<job, target, row, applied, res, answers>>
  <2>1. DatabaseInv' /\ Grows
    BY <1>4, DatabaseUnchanged DEF LoadForSave, answers
  <2>2. OthersSame(w)
    BY <1>4 DEF IInv, TypeOK, LocalsType, Goto, OthersSame, Same
  <2>3. TypeOK'
    BY <1>1, <1>4 DEF IInv, TypeOK, DatabaseType, LocalsType, LoadForSave, Goto,
                      Labels, database, answers
  <2>4. pc'[w] = "update" /\ old'[w] = p
    BY <1>4 DEF IInv, TypeOK, LocalsType, Goto
  <2>5. WorkerInv(w)'
    BY <1>1, <1>4, <2>4
    DEF LoadForSave, IInv, database, WorkerInv, HasEvent, HasRow, HasResult,
        MayBook, Handling, Saving, Booking, MayReplace, KeepsLifecycle
  <2> QED
    BY <2>1, <2>2, <2>3, <2>5, Preserved
<1> QED
  BY <1>2, <1>3, <1>4 DEF LoadForSave

\* The conditional update: the row in the table is the row the save compared
\* with, so the payment moves along its transition table.
LEMMA UpdateMoves ==
  ASSUME IInv, NEW w \in Workers, UpdatePayment(w), payments' # payments
  PROVE  /\ target[w] \in Payments
         /\ payments[target[w]] = old[w] /\ MayReplace(old[w], row[w])
         /\ row[w] \in PaymentRow
         /\ payments' = [payments EXCEPT ![target[w]] = row[w]]
BY DEF UpdatePayment, IInv, WorkerInv, HasRow, Saving

LEMMA UpdatePaymentStep ==
  ASSUME IInv, NEW w \in Workers, UpdatePayment(w)
  PROVE  IInv'
<1> DEFINE t == target[w]
<1>1. /\ t \in Payments /\ row[w] \in PaymentRow
      /\ MayReplace(old[w], row[w])
  BY DEF UpdatePayment, IInv, WorkerInv, HasRow, Saving
<1>2. CASE Reject(w) /\ UNCHANGED payments
  BY <1>2, RejectStep DEF UpdatePayment, database, IInv, TypeOK, DatabaseType
<1>3. CASE /\ payments[t] = old[w]
           /\ payments' = [payments EXCEPT ![t] = row[w]]
           /\ Goto(w, "reread")
           /\ UNCHANGED <<locals, answers>>
  <2>1. \A p \in Payments : \/ payments'[p] = payments[p]
                            \/ MayReplace(payments[p], payments'[p])
    BY <1>1, <1>3 DEF IInv, TypeOK, DatabaseType
  <2>2. Grows
    BY <2>1 DEF UpdatePayment, Grows
  <2>3. TypeOK'
    BY <1>1, <1>3
    DEF IInv, TypeOK, DatabaseType, LocalsType, UpdatePayment, Goto, Labels,
        locals, answers
  <2>4. ResultsReached'
    <3>1. ASSUME NEW r \in results
          PROVE  StateAgrees(payments'[r.payment], r)
      <4>1. r.payment \in Payments /\ r.status \in TerminalStatuses
        BY DEF IInv, TypeOK, DatabaseType, ResultRow
      <4>2. StateAgrees(payments[r.payment], r)
        BY DEF IInv, DatabaseInv, ResultsReached
      <4> QED
        BY <2>1, <4>1, <4>2, AgreesStable
    <3> QED
      BY <3>1 DEF ResultsReached, UpdatePayment
  <2>5. BookedOrderConfirmed'
    <3>1. ASSUME NEW l \in ledger, l.status = "confirmed"
          PROVE  l.payment \in paidOrders \/ payments'[l.payment].status = "refunded"
      <4>1. l.payment \in Payments
        BY DEF IInv, TypeOK, DatabaseType, LedgerEntry
      <4>2. \/ l.payment \in paidOrders
            \/ payments[l.payment].status = "refunded"
        BY <3>1 DEF IInv, DatabaseInv, BookedOrderConfirmed
      <4> QED
        BY <2>1, <4>1, <4>2, RefundStable
    <3> QED
      BY <3>1 DEF BookedOrderConfirmed, UpdatePayment
  <2>6. DatabaseInv'
    BY <1>3, <2>4, <2>5
    DEF IInv, UpdatePayment, answers, DatabaseInv, ReceiptsUnique,
        ResultsFromReceipts, ResultsUnique, LedgerBacked, SettledMeansBooked
  <2>7. OthersSame(w)
    BY <1>3 DEF IInv, TypeOK, LocalsType, Goto, locals, OthersSame, Same
  <2>8. pc'[w] = "reread"
    BY <1>3 DEF IInv, TypeOK, LocalsType, Goto
  <2>9. WorkerInv(w)'
    BY <1>3, <2>8
    DEF UpdatePayment, IInv, locals, WorkerInv, HasEvent, HasRow, HasResult,
        MayBook, Handling, Saving, Booking
  <2> QED
    BY <2>2, <2>3, <2>6, <2>7, <2>9, Preserved
<1> QED
  BY <1>2, <1>3 DEF UpdatePayment

LEMMA RereadStep ==
  ASSUME IInv, NEW w \in Workers, Reread(w)
  PROVE  IInv'
<1>1. pc[w] \in Saving
  BY DEF Reread, Saving
<1>2. CASE payments[target[w]] = row[w] /\ Saved(w) /\ UNCHANGED answers
  BY <1>1, <1>2, SavedStep DEF Reread
<1>3. CASE Reject(w)
  BY <1>3, RejectStep DEF Reread, IInv, TypeOK, DatabaseType
<1> QED
  BY <1>2, <1>3 DEF Reread

LEMMA SubmitCardStep ==
  ASSUME IInv, NEW w \in Workers, NEW p \in Payments, SubmitCard(w, p)
  PROVE  IInv'
<1>1. PICK now \in Clock :
        row' = [row EXCEPT ![w] = Submitted(payments[p], CardReference[p], now)]
  BY DEF SubmitCard
<1> DEFINE q == Submitted(payments[p], CardReference[p], now)
<1>2. q \in PaymentRow
  <2>1. payments[p] \in PaymentRow
    BY DEF IInv, TypeOK, DatabaseType
  <2>2. now \in Nat
    BY ClockAssumption
  <2>3. CardReference[p] \in Refs \cup {Null}
    BY CardAssumption
  <2> DEFINE u == IF now > payments[p].updatedAt THEN now
                  ELSE payments[p].updatedAt + 1
  <2>4. u \in Nat
    BY <2>1, <2>2 DEF PaymentRow
  <2> HIDE DEF u
  <2>5. [payments[p] EXCEPT !.ref = CardReference[p], !.updatedAt = u]
          \in PaymentRow
    BY <2>1, <2>3, <2>4 DEF PaymentRow
  <2> QED
    BY <2>5 DEF Submitted, u
<1>3. row' = [row EXCEPT ![w] = q]
  BY <1>1
<1> HIDE DEF q
<1>4. DatabaseInv' /\ Grows
  BY DatabaseUnchanged DEF SubmitCard, answers
<1>5. OthersSame(w)
  BY <1>3 DEF SubmitCard, IInv, TypeOK, LocalsType, Goto, OthersSame, Same
<1>6. TypeOK'
  BY <1>2, <1>3 DEF IInv, TypeOK, DatabaseType, LocalsType, SubmitCard, Goto,
                    Labels, database, answers
<1>7. pc'[w] = "load" /\ row'[w] = q /\ target'[w] = p /\ job'[w] = job[w]
  BY <1>3 DEF IInv, TypeOK, LocalsType, Goto, SubmitCard
<1>8. job[w] = Null
  BY DEF IInv, WorkerInv, HasEvent, SubmitCard
<1>9. WorkerInv(w)'
  BY <1>2, <1>7, <1>8
  DEF SubmitCard, WorkerInv, HasEvent, HasRow, HasResult, MayBook, Handling,
      Saving, Booking
<1> QED
  BY <1>4, <1>5, <1>6, <1>9, Preserved

-----------------------------------------------------------------------------
(* The verified result *)

LEMMA RecordStep ==
  ASSUME IInv, NEW w \in Workers, Record(w)
  PROVE  IInv'
<1> DEFINE new == res[w]
           byEvent == {r \in results : r.event = new.event}
           byStatus == {r \in results : /\ r.payment = new.payment
                                        /\ r.status = new.status}
<1>1. /\ job[w] \in receipts /\ target[w] = job[w].payment
      /\ target[w] \in Payments
      /\ row[w] \in PaymentRow /\ new \in ResultRow
      /\ new.event = job[w].id /\ new.payment = target[w]
      /\ new.status = Target(job[w]) /\ new.status = row[w].status
      /\ StateAgrees(payments[target[w]], new)
  BY DEF IInv, WorkerInv, HasEvent, HasResult, Handling, Record
<1>2. ASSUME NEW r \in results', r.payment = target[w], r.status = new.status,
             res' = [res EXCEPT ![w] = r], TypeOK', Grows, DatabaseInv',
             Goto(w, "order"),
             UNCHANGED <<job, target, row, applied, old, answers>>
      PROVE  IInv'
  <2>1. OthersSame(w)
    BY <1>2 DEF IInv, TypeOK, LocalsType, Goto, OthersSame, Same
  <2>2. pc'[w] = "order" /\ res'[w] = r
    BY <1>2 DEF IInv, TypeOK, LocalsType, Goto
  <2>3. WorkerInv(w)'
    BY <1>1, <1>2, <2>2
    DEF Record, WorkerInv, HasEvent, HasRow, HasResult, MayBook, Handling,
        Saving, Booking, StateAgrees
  <2> QED
    BY <1>2, <2>1, <2>3, Preserved
<1>3. CASE /\ byStatus = {}
           /\ results' = results \cup {new}
           /\ Goto(w, "order")
           /\ UNCHANGED <<locals, answers>>
  <2>1. Grows
    BY <1>3 DEF Record, Grows
  <2>2. TypeOK'
    BY <1>1, <1>3 DEF IInv, TypeOK, DatabaseType, LocalsType, Record, Goto,
                      Labels, locals, answers
  <2>3. ResultsFromReceipts'
    BY <1>1, <1>3 DEF IInv, DatabaseInv, ResultsFromReceipts, Record
  <2>4. ResultsUnique'
    BY <1>3 DEF IInv, DatabaseInv, ResultsUnique
  <2>5. ResultsReached'
    BY <1>1, <1>3 DEF IInv, DatabaseInv, ResultsReached, Record
  <2>6. LedgerBacked'
    BY <1>3 DEF IInv, DatabaseInv, LedgerBacked, Record
  <2>7. DatabaseInv'
    BY <1>3, <2>3, <2>4, <2>5, <2>6
    DEF IInv, DatabaseInv, ReceiptsUnique, BookedOrderConfirmed,
        SettledMeansBooked, Record, answers
  <2>8. res' = [res EXCEPT ![w] = new]
    BY <1>3 DEF IInv, TypeOK, LocalsType, locals
  <2> QED
    BY <1>1, <1>2, <1>3, <2>1, <2>2, <2>7, <2>8 DEF locals
<1>4. CASE /\ new \in byEvent
           /\ Goto(w, "order")
           /\ UNCHANGED <<locals, answers, results>>
  <2>1. TypeOK'
    BY <1>4 DEF IInv, TypeOK, DatabaseType, LocalsType, Record, Goto, Labels,
                locals, answers
  <2>2. DatabaseInv' /\ Grows
    BY <1>4, DatabaseUnchanged DEF Record, database, answers
  <2>3. res' = [res EXCEPT ![w] = new]
    BY <1>4 DEF IInv, TypeOK, LocalsType, locals
  <2> QED
    BY <1>1, <1>2, <1>4, <2>1, <2>2, <2>3 DEF locals
<1>5. ASSUME NEW r \in byStatus, res' = [res EXCEPT ![w] = r],
             Goto(w, "order"),
             UNCHANGED <<job, target, row, applied, old, answers, results>>
      PROVE  IInv'
  <2>1. TypeOK'
    BY <1>5 DEF IInv, TypeOK, DatabaseType, LocalsType, Record, Goto, Labels,
                answers
  <2>2. DatabaseInv' /\ Grows
    BY <1>5, DatabaseUnchanged DEF Record, database, answers
  <2> QED
    BY <1>1, <1>2, <1>5, <2>1, <2>2
<1>6. CASE Reject(w) /\ UNCHANGED results
  BY <1>6, RejectStep DEF Record, database, IInv, TypeOK, DatabaseType
<1> QED
  BY <1>3, <1>4, <1>5, <1>6 DEF Record

-----------------------------------------------------------------------------
(* The order and the ledger *)

\* What a request knows when it has its result and has answered nothing yet.
LEMMA BookingFacts ==
  ASSUME IInv, NEW w \in Workers, pc[w] \in Booking
  PROVE  /\ job[w] \in receipts /\ job[w] \in Events
         /\ target[w] = job[w].payment /\ target[w] \in Payments
         /\ res[w] \in results /\ res[w] \in ResultRow
         /\ res[w].payment = target[w] /\ res[w].status = Target(job[w])
         /\ row[w] \in PaymentRow /\ StateAgrees(row[w], res[w])
         /\ StateAgrees(payments[target[w]], res[w])
         /\ res[w].status = "confirmed" /\ row[w].status = "refunded" =>
              payments[target[w]].status = "refunded"
BY DEF IInv, WorkerInv, HasEvent, HasResult, MayBook, Handling, Booking, TypeOK,
       DatabaseType, DatabaseInv, ResultsReached

LEMMA LoadOrderStep ==
  ASSUME IInv, NEW w \in Workers, LoadOrder(w)
  PROVE  IInv'
<1>1. pc[w] \in Booking
  BY DEF LoadOrder, Booking
<1>2. DatabaseInv' /\ Grows
  BY DatabaseUnchanged DEF LoadOrder, Internal, answers
<1>3. OthersSame(w)
  BY DEF LoadOrder, IInv, TypeOK, LocalsType, Goto, locals, OthersSame, Same
<1>4. TypeOK'
  BY DEF IInv, TypeOK, DatabaseType, LocalsType, LoadOrder, Goto, Labels,
         Internal, locals, database, answers
<1>5. ASSUME pc'[w] = "saveOrder"
      PROVE  WorkerInv(w)'
  BY <1>1, <1>5, BookingFacts
  DEF LoadOrder, locals, database, WorkerInv, HasEvent, HasRow, HasResult,
      MayBook, Handling, Saving, Booking
<1>6. ASSUME pc'[w] = "account",
             ~ConfirmsOrder(w) \/ res[w].payment \in paidOrders
      PROVE  WorkerInv(w)'
  <2>1. res[w].status = "confirmed" =>
          target[w] \in paidOrders \/ payments[target[w]].status = "refunded"
    BY <1>1, <1>6, BookingFacts DEF ConfirmsOrder, StateAgrees
  <2> QED
    BY <1>1, <1>6, <2>1, BookingFacts
    DEF LoadOrder, locals, database, WorkerInv, HasEvent, HasRow, HasResult,
        MayBook, Handling, Saving, Booking
<1>7. pc'[w] = IF ConfirmsOrder(w) /\ res[w].payment \notin paidOrders
               THEN "saveOrder" ELSE "account"
  BY DEF LoadOrder, Goto, IInv, TypeOK, LocalsType
<1>8. WorkerInv(w)'
  BY <1>5, <1>6, <1>7
<1> QED
  BY <1>2, <1>3, <1>4, <1>8, Preserved

LEMMA SaveOrderStep ==
  ASSUME IInv, NEW w \in Workers, SaveOrder(w)
  PROVE  IInv'
<1>1. pc[w] \in Booking
  BY DEF SaveOrder, Booking
<1>2. Grows
  BY DEF SaveOrder, Grows
<1>3. OthersSame(w)
  BY DEF SaveOrder, IInv, TypeOK, LocalsType, Goto, locals, OthersSame, Same
<1>4. TypeOK'
  BY <1>1, BookingFacts
  DEF IInv, TypeOK, DatabaseType, LocalsType, SaveOrder, Goto, Labels, Internal,
      locals, answers
<1>5. DatabaseInv'
  BY DEF IInv, SaveOrder, Internal, answers, DatabaseInv, ReceiptsUnique,
         ResultsFromReceipts, ResultsUnique, ResultsReached, LedgerBacked,
         BookedOrderConfirmed, SettledMeansBooked
<1>6. pc'[w] = "account"
  BY DEF SaveOrder, Goto, IInv, TypeOK, LocalsType
<1>7. WorkerInv(w)'
  BY <1>1, <1>6, BookingFacts
  DEF SaveOrder, locals, WorkerInv, HasEvent, HasRow, HasResult, MayBook,
      Handling, Saving, Booking
<1> QED
  BY <1>2, <1>3, <1>4, <1>5, <1>7, Preserved

\* Answering with a result is allowed once its money, if any, is booked.
LEMMA AcceptStep ==
  ASSUME IInv, NEW w \in Workers, Accept(w), job[w] \in Events,
         Target(job[w]) \in {"confirmed", "refunded"} =>
           \E l \in ledger' : /\ l.payment = job[w].payment
                              /\ l.status = Target(job[w]),
         UNCHANGED <<payments, receipts, results, paidOrders, charged, crashes>>,
         ledger' \subseteq LedgerEntry, ledger \subseteq ledger',
         LedgerBacked', BookedOrderConfirmed'
  PROVE  IInv'
<1>1. LocalsType' /\ WorkerInv(w)' /\ OthersSame(w)
  BY LeaveFacts DEF Accept
<1>2. Grows
  BY DEF Grows
<1>3. SettledMeansBooked'
  BY DEF IInv, DatabaseInv, SettledMeansBooked, Accept
<1>4. DatabaseInv'
  BY <1>3 DEF IInv, DatabaseInv, ReceiptsUnique, ResultsFromReceipts,
              ResultsUnique, ResultsReached
<1>5. DatabaseType'
  BY DEF IInv, TypeOK, DatabaseType, Accept
<1> QED
  BY <1>1, <1>2, <1>4, <1>5, Preserved DEF TypeOK

LEMMA AccountStep ==
  ASSUME IInv, NEW w \in Workers, Account(w)
  PROVE  IInv'
<1>1. pc[w] \in Booking
  BY DEF Account, Booking
<1>2. CASE Reject(w)
  BY <1>2, RejectStep DEF Account, IInv, TypeOK, DatabaseType
<1>3. CASE res[w].status \notin {"confirmed", "refunded"} /\ Accept(w)
  BY <1>1, <1>3, BookingFacts, AcceptStep
  DEF Account, database, IInv, TypeOK, DatabaseType, DatabaseInv, LedgerBacked,
      BookedOrderConfirmed
<1>4. ASSUME NEW l \in {"post", "approval"},
             l = "post" => res[w].status = "confirmed",
             l = "approval" => res[w].status = "refunded",
             Goto(w, l), UNCHANGED <<locals, answers>>
      PROVE  IInv'
  <2>1. DatabaseInv' /\ Grows
    BY <1>4, DatabaseUnchanged DEF Account, answers
  <2>2. OthersSame(w)
    BY <1>4 DEF IInv, TypeOK, LocalsType, Goto, locals, OthersSame, Same
  <2>3. TypeOK'
    BY <1>4 DEF IInv, TypeOK, DatabaseType, LocalsType, Account, Goto, Labels,
                locals, database, answers
  <2>4. pc'[w] = l
    BY <1>4 DEF Goto, IInv, TypeOK, LocalsType
  <2>5. res[w].status = "confirmed" =>
          target[w] \in paidOrders \/ payments[target[w]].status = "refunded"
    BY DEF IInv, WorkerInv, MayBook, Account
  <2>6. WorkerInv(w)'
    BY <1>1, <1>4, <2>4, <2>5, BookingFacts
    DEF Account, locals, database, WorkerInv, HasEvent, HasRow, HasResult,
        MayBook, Handling, Saving, Booking
  <2> QED
    BY <2>1, <2>2, <2>3, <2>6, Preserved
<1> QED
  BY <1>2, <1>3, <1>4 DEF Account

\* Booking the transaction of a recorded result, a reversal only next to its
\* approval, keeps the ledger backed by results.
LEMMA Posting ==
  ASSUME IInv, NEW r \in results,
         r.status \in {"confirmed", "refunded"},
         r.status = "refunded" =>
           \E a \in ledger : a.payment = r.payment /\ a.status = "confirmed",
         r.status = "confirmed" =>
           \/ r.payment \in paidOrders
           \/ payments[r.payment].status = "refunded",
         ledger' = ledger \cup {Entry(r)},
         UNCHANGED <<payments, receipts, results, paidOrders>>
  PROVE  /\ Entry(r) \in LedgerEntry
         /\ ledger' \subseteq LedgerEntry
         /\ LedgerBacked' /\ BookedOrderConfirmed'
         /\ Grows
<1>1. r \in ResultRow
  BY DEF IInv, TypeOK, DatabaseType
<1>2. /\ Entry(r) \in LedgerEntry
      /\ Entry(r).payment = r.payment /\ Entry(r).status = r.status
  BY <1>1 DEF Entry, LedgerEntry, ResultRow
<1>3. ledger' \subseteq LedgerEntry
  BY <1>2 DEF IInv, TypeOK, DatabaseType
<1>4. LedgerBacked'
  BY <1>2 DEF IInv, DatabaseInv, LedgerBacked
<1>5. BookedOrderConfirmed'
  BY <1>2 DEF IInv, DatabaseInv, BookedOrderConfirmed
<1> QED
  BY <1>2, <1>3, <1>4, <1>5 DEF Grows

LEMMA PostApprovalStep ==
  ASSUME IInv, NEW w \in Workers, PostApproval(w)
  PROVE  IInv'
<1>1. pc[w] \in Booking /\ res[w].status = "refunded"
  BY DEF PostApproval, Booking, IInv, WorkerInv, MayBook
<1>2. payments[target[w]].status = "refunded"
  BY <1>1, BookingFacts DEF StateAgrees
<1>3. CASE Reject(w) /\ UNCHANGED ledger
  BY <1>3, RejectStep DEF PostApproval, database, IInv, TypeOK, DatabaseType
<1>4. ASSUME NEW r \in results, r.payment = res[w].payment,
             r.status = "confirmed", ledger' = ledger \cup {Entry(r)},
             Goto(w, "post"), UNCHANGED <<locals, answers>>
      PROVE  IInv'
  <2>1. r.payment = target[w]
    BY <1>1, <1>4, BookingFacts
  <2>2. /\ Entry(r) \in LedgerEntry
        /\ ledger' \subseteq LedgerEntry
        /\ LedgerBacked' /\ BookedOrderConfirmed'
        /\ Grows
    BY <1>2, <1>4, <2>1, Posting DEF PostApproval
  <2>3. TypeOK'
    BY <1>4, <2>2 DEF IInv, TypeOK, DatabaseType, LocalsType, PostApproval, Goto,
                      Labels, locals, answers
  <2>4. DatabaseInv'
    BY <1>4, <2>2
    DEF IInv, PostApproval, answers, DatabaseInv, ReceiptsUnique,
        ResultsFromReceipts, ResultsUnique, ResultsReached, SettledMeansBooked
  <2>5. OthersSame(w)
    BY <1>4 DEF IInv, TypeOK, LocalsType, Goto, locals, OthersSame, Same
  <2>6. pc'[w] = "post"
    BY <1>4 DEF Goto, IInv, TypeOK, LocalsType
  <2>7. \E a \in ledger' : a.payment = target[w] /\ a.status = "confirmed"
    <3>1. Entry(r).payment = target[w] /\ Entry(r).status = "confirmed"
      BY <1>4, <2>1 DEF Entry
    <3>2. Entry(r) \in ledger'
      BY <1>4
    <3> QED
      BY <3>1, <3>2
  <2>8. WorkerInv(w)'
    BY <1>1, <1>4, <2>6, <2>7, BookingFacts
    DEF PostApproval, locals, WorkerInv, HasEvent, HasRow, HasResult, MayBook,
        Handling, Saving, Booking
  <2> QED
    BY <2>2, <2>3, <2>4, <2>5, <2>8, Preserved
<1> QED
  BY <1>3, <1>4 DEF PostApproval

LEMMA PostStep ==
  ASSUME IInv, NEW w \in Workers, Post(w)
  PROVE  IInv'
<1>1. pc[w] \in Booking
  BY DEF Post, Booking
<1>2. CASE Reject(w) /\ UNCHANGED ledger
  BY <1>2, RejectStep DEF Post, database, IInv, TypeOK, DatabaseType
<1>3. CASE ledger' = ledger \cup {Entry(res[w])} /\ Accept(w)
  <2>1. /\ res[w] \in results /\ res[w].payment = target[w]
        /\ target[w] = job[w].payment /\ res[w].status = Target(job[w])
        /\ job[w] \in Events
    BY <1>1, BookingFacts
  <2>2. /\ res[w].status \in {"confirmed", "refunded"}
        /\ res[w].status = "refunded" =>
             \E a \in ledger : a.payment = target[w] /\ a.status = "confirmed"
        /\ res[w].status = "confirmed" =>
             \/ target[w] \in paidOrders
             \/ payments[target[w]].status = "refunded"
    BY DEF Post, IInv, WorkerInv, MayBook
  <2>3. /\ ledger' \subseteq LedgerEntry
        /\ LedgerBacked' /\ BookedOrderConfirmed'
    BY <1>3, <2>1, <2>2, Posting DEF Post
  <2>4. \E l \in ledger' : /\ l.payment = job[w].payment
                           /\ l.status = Target(job[w])
    <3>1. /\ Entry(res[w]).payment = job[w].payment
          /\ Entry(res[w]).status = Target(job[w])
      BY <2>1 DEF Entry
    <3>2. Entry(res[w]) \in ledger'
      BY <1>3
    <3> QED
      BY <3>1, <3>2
  <2> QED
    BY <1>3, <2>1, <2>3, <2>4, AcceptStep DEF Post
<1> QED
  BY <1>2, <1>3 DEF Post

LEMMA CrashStep ==
  ASSUME IInv, NEW w \in Workers, Crash(w)
  PROVE  IInv'
<1>1. crashes' \in 0 .. MaxCrashes
  BY CrashAssumption DEF Crash, IInv, TypeOK, DatabaseType
<1>2. Reject(w)
  BY DEF Crash, Reject
<1> QED
  BY <1>1, <1>2, RejectStep DEF Crash

-----------------------------------------------------------------------------
(* The invariant of the specification *)

LEMMA NextIInv == IInv /\ [Next]_vars => IInv'
<1> SUFFICES ASSUME IInv, [Next]_vars PROVE IInv'
  OBVIOUS
<1>1. CASE UNCHANGED vars
  <2>1. TypeOK' /\ DatabaseInv'
    BY <1>1 DEF vars, IInv, TypeOK, DatabaseType, LocalsType, DatabaseInv,
                ReceiptsUnique, ResultsFromReceipts, ResultsUnique,
                ResultsReached, LedgerBacked, BookedOrderConfirmed,
                SettledMeansBooked
  <2>2. ASSUME NEW w \in Workers PROVE WorkerInv(w)'
    BY <1>1, WorkerStable DEF vars, IInv, Same, Grows
  <2> QED
    BY <2>1, <2>2 DEF IInv
<1>2. ASSUME NEW w \in Workers, Step(w) PROVE IInv'
  BY <1>2, ClaimStep, FindExactStep, ReplayStep, ReadPaymentStep,
     FindExistingStep, LoadForSaveStep, UpdatePaymentStep, RereadStep,
     RecordStep, LoadOrderStep, SaveOrderStep, AccountStep, PostApprovalStep,
     PostStep
  DEF Step
<1> QED
  BY <1>1, <1>2, DeliverStep, SubmitCardStep, CrashStep DEF Next

THEOREM InvariantHolds == Spec => []IInv
BY InitIInv, NextIInv, PTL DEF Spec

\* Type correctness of tables, locals and program counters.
THEOREM TypeCorrect == Spec => []TypeOK
<1>1. IInv => TypeOK
  BY DEF IInv
<1> QED
  BY <1>1, InvariantHolds, PTL

-----------------------------------------------------------------------------
(* Safety *)

\* Racing webhooks never leave contradictory verified results: a result only
\* states a status its payment reached, and two results of a payment are its
\* approval and its refund.
THEOREM ResultsNeverContradict == Spec => []ResultsAgreeWithPayments
<1>1. IInv => ResultsAgreeWithPayments
  <2> SUFFICES ASSUME IInv PROVE ResultsAgreeWithPayments
    OBVIOUS
  <2>1. \A r \in results : StateAgrees(payments[r.payment], r)
    BY DEF IInv, DatabaseInv, ResultsReached
  <2>2. ASSUME NEW r \in results, NEW s \in results,
               r.payment = s.payment, r # s
        PROVE  {r.status, s.status} = {"confirmed", "refunded"}
    <3>1. r.status # s.status
      BY <2>2 DEF IInv, DatabaseInv, ResultsUnique
    <3>2. StateAgrees(payments[r.payment], r) /\ StateAgrees(payments[r.payment], s)
      BY <2>1, <2>2
    <3> QED
      BY <3>1, <3>2 DEF StateAgrees
  <2> QED
    BY <2>1, <2>2 DEF ResultsAgreeWithPayments
<1> QED
  BY <1>1, InvariantHolds, PTL

\* Every booked transaction is backed by a recorded result, every reversal by
\* its approval.
THEOREM LedgerIsBacked == Spec => []LedgerBacked
<1>1. IInv => LedgerBacked
  BY DEF IInv, DatabaseInv
<1> QED
  BY <1>1, InvariantHolds, PTL

\* Under one external key only one transaction is ever offered to the ledger.
THEOREM AppendsAgree == Spec => []AppendNeverConflicts
<1>1. IInv => AppendNeverConflicts
  <2> SUFFICES ASSUME IInv PROVE AppendNeverConflicts
    OBVIOUS
  <2>1. ASSUME NEW r \in results PROVE Appendable(r)
    <3>1. ASSUME NEW l \in ledger, l.payment = r.payment, l.status = r.status
          PROVE  l = Entry(r)
      <4>1. PICK s \in results : l = Entry(s)
        BY DEF IInv, DatabaseInv, LedgerBacked
      <4>2. s.payment = r.payment /\ s.status = r.status
        BY <3>1, <4>1 DEF Entry
      <4> QED
        BY <4>1, <4>2 DEF IInv, DatabaseInv, ResultsUnique
    <3> QED
      BY <3>1 DEF Appendable, KeyOf
  <2>2. ASSUME NEW w \in Workers, pc[w] = "post" PROVE res[w] \in results
    BY <2>2, BookingFacts DEF Booking
  <2> QED
    BY <2>1, <2>2 DEF AppendNeverConflicts
<1> QED
  BY <1>1, InvariantHolds, PTL

\* The row a request holds agrees with the result it books, although other
\* requests may have moved the payment since it was read.
THEOREM RowsStayAccountable == Spec => []AccountedStateAgrees
<1>1. IInv => AccountedStateAgrees
  BY DEF IInv, WorkerInv, MayBook, Booking, AccountedStateAgrees
<1> QED
  BY <1>1, InvariantHolds, PTL

\* No delivery is answered with a result of money before the money is booked.
THEOREM SettledIsBooked == Spec => []SettledMeansBooked
<1>1. IInv => SettledMeansBooked
  BY DEF IInv, DatabaseInv
<1> QED
  BY <1>1, InvariantHolds, PTL

\* A booked approval has confirmed its order, or was overtaken by its refund.
THEOREM BookedIsConfirmed == Spec => []BookedOrderConfirmed
<1>1. IInv => BookedOrderConfirmed
  BY DEF IInv, DatabaseInv
<1> QED
  BY <1>1, InvariantHolds, PTL

-----------------------------------------------------------------------------
(* The steps, seen from the payments, the results and the ledger *)

\* Which step may write which table.
LEMMA WhoWrites ==
  ASSUME NEW w \in Workers,
         \/ \E e \in Events : Deliver(w, e)
         \/ \E p \in Payments : SubmitCard(w, p)
         \/ Step(w)
         \/ Crash(w)
  PROVE  \/ UpdatePayment(w) /\ UNCHANGED <<results, ledger>>
         \/ Record(w) /\ UNCHANGED <<payments, ledger>>
         \/ PostApproval(w) /\ UNCHANGED <<payments, results>>
         \/ Post(w) /\ UNCHANGED <<payments, results>>
         \/ UNCHANGED <<payments, results, ledger>>
<1>1. CASE \/ \E e \in Events : Deliver(w, e)
           \/ \E p \in Payments : SubmitCard(w, p)
           \/ Crash(w)
  BY <1>1 DEF Deliver, SubmitCard, Crash, database
<1>2. CASE \/ Claim(w) \/ FindExact(w) \/ Replay(w) \/ ReadPayment(w)
           \/ FindExisting(w) \/ LoadForSave(w) \/ Reread(w)
           \/ LoadOrder(w) \/ SaveOrder(w) \/ Account(w)
  BY <1>2 DEF Claim, FindExact, Replay, ReadPayment, FindExisting, LoadForSave,
              Reread, LoadOrder, SaveOrder, Account, database
<1>3. CASE UpdatePayment(w) \/ Record(w) \/ PostApproval(w) \/ Post(w)
  BY <1>3 DEF UpdatePayment, Record, PostApproval, Post
<1> QED
  BY <1>1, <1>2, <1>3 DEF Step

\* A payment row is only replaced by one it may be replaced by: along the
\* transition table, with newer evidence, its reference and stamps kept.
THEOREM PaymentsForward == Spec => PaymentsMoveForward
<1> DEFINE Forward ==
      \A p \in Payments :
        payments'[p] # payments[p] => MayReplace(payments[p], payments'[p])
<1>1. IInv /\ [Next]_vars => [Forward]_vars
  <2> SUFFICES ASSUME IInv, [Next]_vars PROVE Forward \/ UNCHANGED vars
    OBVIOUS
  <2>1. ASSUME NEW w \in Workers, UpdatePayment(w), payments' # payments
        PROVE  Forward
    BY <2>1, UpdateMoves DEF IInv, TypeOK, DatabaseType
  <2>2. CASE payments' = payments
    BY <2>2
  <2>3. CASE Next
    BY <2>1, <2>2, <2>3, WhoWrites DEF Next
  <2> QED
    BY <2>3
<1> HIDE DEF Forward
<1>2. Spec => [][Forward]_vars
  BY <1>1, InvariantHolds, PTL DEF Spec
<1> QED
  BY <1>2 DEF PaymentsMoveForward, Forward

-----------------------------------------------------------------------------
(* The pipeline implements the payment authority *)

\* A conditional update is an advance of its payment, or a stutter when a card
\* submission only writes the reference.
LEMMA UpdateImplements ==
  ASSUME IInv, NEW w \in Workers, UpdatePayment(w), UNCHANGED <<results, ledger>>
  PROVE  [Authority!AuthorityNext]_(Authority!authorityVars)
<1>1. CASE payments' = payments
  BY <1>1 DEF Authority!authorityVars
<1>2. CASE payments' # payments
  <2> DEFINE t == target[w]
             s == row[w].status
  <2>1. /\ t \in Payments
        /\ payments[t] = old[w] /\ MayReplace(old[w], row[w])
        /\ row[w] \in PaymentRow
        /\ payments' = [payments EXCEPT ![t] = row[w]]
    BY <1>2, UpdateMoves
  <2>2. [p \in Payments |-> payments'[p].status]
          = [[p \in Payments |-> payments[p].status] EXCEPT ![t] = s]
    BY <2>1 DEF IInv, TypeOK, DatabaseType
  <2>3. CASE s = payments[t].status
    <3>1. [p \in Payments |-> payments'[p].status]
            = [p \in Payments |-> payments[p].status]
      BY <2>1, <2>3 DEF IInv, TypeOK, DatabaseType
    <3> QED
      BY <3>1 DEF Authority!authorityVars
  <2>4. CASE s # payments[t].status
    <3>1. /\ s \in Authority!Terminal
          /\ \/ payments[t].status = "pending" /\ s # "refunded"
             \/ payments[t].status = "confirmed" /\ s = "refunded"
      BY <2>1, <2>4 DEF MayReplace, IsPaymentTransitionAllowed,
                        Authority!Terminal
    <3>2. Authority!Advance(t, s)
      BY <2>1, <2>2, <3>1 DEF Authority!Advance, Authority!Terminal
    <3>3. t \in Payments /\ s \in Authority!Terminal
      BY <2>1, <3>1
    <3> HIDE DEF t, s
    <3> QED
      BY <3>2, <3>3 DEF Authority!AuthorityNext, Authority!Advance
  <2> QED
    BY <2>3, <2>4
<1> QED
  BY <1>1, <1>2

\* Recording a result records a status the payment has reached.
LEMMA RecordImplements ==
  ASSUME IInv, NEW w \in Workers, Record(w), UNCHANGED <<payments, ledger>>
  PROVE  [Authority!AuthorityNext]_(Authority!authorityVars)
<1> DEFINE p == target[w]
           s == res[w].status
<1>1. /\ p \in Payments /\ res[w].payment = p
      /\ res[w] \in ResultRow
      /\ StateAgrees(payments[p], res[w])
  BY DEF IInv, WorkerInv, HasEvent, HasResult, Handling, Record
<1>2. CASE results' = results
  BY <1>2 DEF Authority!authorityVars
<1>3. CASE results' = results \cup {res[w]}
  <2>1. s \in Authority!Terminal
    BY <1>1 DEF ResultRow, TerminalStatuses, Authority!Terminal
  <2>2. s \in Authority!Reached(payments[p].status)
    BY <1>1, <2>1 DEF StateAgrees, Authority!Reached, Authority!Terminal
  <2>3. {<<r.payment, r.status>> : r \in results'}
          = {<<r.payment, r.status>> : r \in results} \cup {<<p, s>>}
    BY <1>1, <1>3
  <2>4. Authority!Record(p, s)
    BY <1>1, <2>2, <2>3 DEF Authority!Record
  <2>5. p \in Payments
    BY <1>1
  <2> HIDE DEF p, s
  <2> QED
    BY <2>1, <2>4, <2>5 DEF Authority!AuthorityNext, Authority!Record
<1> QED
  BY <1>2, <1>3 DEF Record

\* An append books a recorded result, a reversal after its approval.
LEMMA PostImplements ==
  ASSUME IInv, NEW r \in results, r.status \in {"confirmed", "refunded"},
         r.status = "refunded" =>
           \E a \in ledger : a.payment = r.payment /\ a.status = "confirmed",
         ledger' = ledger \cup {Entry(r)}, UNCHANGED <<payments, results>>
  PROVE  [Authority!AuthorityNext]_(Authority!authorityVars)
<1> DEFINE p == r.payment
           s == r.status
<1>1. p \in Payments
  BY DEF IInv, TypeOK, DatabaseType, ResultRow
<1>2. {<<l.payment, l.status>> : l \in ledger'}
        = {<<l.payment, l.status>> : l \in ledger} \cup {<<p, s>>}
  <2>1. Entry(r).payment = p /\ Entry(r).status = s
    BY DEF Entry
  <2> QED
    BY <2>1
<1>3. <<p, s>> \in {<<q.payment, q.status>> : q \in results}
  OBVIOUS
<1>4. s = "refunded" =>
        <<p, "confirmed">> \in {<<l.payment, l.status>> : l \in ledger}
  OBVIOUS
<1>5. Authority!PostEntry(p, s)
  BY <1>2, <1>3, <1>4 DEF Authority!PostEntry
<1>6. s \in Authority!Terminal
  BY DEF Authority!Terminal
<1> QED
  BY <1>1, <1>5, <1>6 DEF Authority!AuthorityNext

\* Every behaviour of the pipeline is one of the payment authority.
THEOREM PipelineImplementsAuthority == Spec => ImplementsAuthority
<1>1. Init => Authority!AuthorityInit
  BY DEF Init, PendingRow, Authority!AuthorityInit
<1>2. IInv /\ [Next]_vars => [Authority!AuthorityNext]_(Authority!authorityVars)
  <2> SUFFICES ASSUME IInv, [Next]_vars
               PROVE  [Authority!AuthorityNext]_(Authority!authorityVars)
    OBVIOUS
  <2>1. CASE UNCHANGED <<payments, results, ledger>>
    BY <2>1 DEF Authority!authorityVars
  <2>2. ASSUME NEW w \in Workers, PostApproval(w), UNCHANGED <<payments, results>>
        PROVE  [Authority!AuthorityNext]_(Authority!authorityVars)
    <3>1. CASE ledger' = ledger
      BY <2>2, <3>1, <2>1
    <3>2. ASSUME NEW r \in results, r.status = "confirmed",
                 ledger' = ledger \cup {Entry(r)}
          PROVE  [Authority!AuthorityNext]_(Authority!authorityVars)
      BY <2>2, <3>2, PostImplements
    <3> QED
      BY <2>2, <3>1, <3>2 DEF PostApproval
  <2>3. ASSUME NEW w \in Workers, Post(w), UNCHANGED <<payments, results>>
        PROVE  [Authority!AuthorityNext]_(Authority!authorityVars)
    <3>1. CASE ledger' = ledger
      BY <2>3, <3>1, <2>1
    <3>2. CASE ledger' = ledger \cup {Entry(res[w])}
      <4>1. /\ res[w] \in results
            /\ res[w].payment = target[w]
        BY <2>3, BookingFacts DEF Post, Booking
      <4>2. /\ res[w].status \in {"confirmed", "refunded"}
            /\ res[w].status = "refunded" =>
                 \E a \in ledger : a.payment = target[w] /\ a.status = "confirmed"
        BY <2>3 DEF Post, IInv, WorkerInv, MayBook
      <4> QED
        BY <2>3, <3>2, <4>1, <4>2, PostImplements
    <3> QED
      BY <2>3, <3>1, <3>2 DEF Post
  <2>4. CASE UNCHANGED vars
    BY <2>1, <2>4 DEF vars
  <2>5. CASE Next
    BY <2>1, <2>2, <2>3, <2>5, WhoWrites, UpdateImplements, RecordImplements
    DEF Next
  <2> QED
    BY <2>4, <2>5
<1> QED
  BY <1>1, <1>2, InvariantHolds, PTL
  DEF Spec, ImplementsAuthority, Authority!AuthoritySpec
=============================================================================
