---------------------------- MODULE Reconciliation ----------------------------
(***************************************************************************)
(* The reconciliation of one payment with its provider.  A run reads the   *)
(* payment, the provider, the verified results and the ledger one after    *)
(* the other, without a lock, and then records in one transaction what     *)
(* disagrees, while the payment pipeline, here its abstract specification  *)
(* PaymentAuthority, and the provider go on.  Runs overlap, are retried    *)
(* under their identifier, fail, and are recorded in any order; admins     *)
(* acknowledge findings meanwhile.                                         *)
(***************************************************************************)
EXTENDS Naturals

CONSTANTS
  MaxStarts,       \* bound: calls of reconcilePayment
  MaxMoves,        \* bound: changes at the provider
  RunCalls,        \* requests that call reconcilePayment, again and again
  ReconcileTimes,  \* readings of the clock, which need not agree
  TerminalSeen,    \* the terminal statuses the payment may reach
  Disagreements    \* sets of terms the provider may hold otherwise

ASSUME MaxStartsAssumption == MaxStarts \in Nat \ {0}
ASSUME MaxMovesAssumption == MaxMoves \in Nat
ASSUME ReconcileTimesAssumption == ReconcileTimes \subseteq Nat \ {0}

\* A payment the provider holds on the same terms is among them.
ASSUME DisagreementsAssumption ==
  /\ Disagreements \subseteq SUBSET {"amount", "currency"}
  /\ {} \in Disagreements

\* A behaviour may begin with an approved payment and one run of it.
ASSUME TerminalSeenAssumption == "confirmed" \in TerminalSeen

VARIABLES
  bookStatus, bookResults, bookLedger,  \* the payment and its evidence here
  provider,   \* what the provider answers: is it found, how, on what terms
  runs,       \* is there a row in financial_reconciliation_runs?
  findings,   \* financial_reconciliation_findings
  runCall,    \* what each call is doing
  starts,     \* calls so far, at most MaxStarts
  moves,      \* changes at the provider so far, at most MaxMoves
  current,    \* calls that began after the last change of what runs compare
  tellsNow    \* whether the run recorded last was one of those

books == <<bookStatus, bookResults, bookLedger>>
reconciliationVars ==
  <<books, provider, runs, findings, runCall, starts, moves,
    current, tellsNow>>

ThePayment == "payment"
Books == INSTANCE PaymentAuthority WITH
  Payments <- {ThePayment}, status <- bookStatus,
  recorded <- bookResults, posted <- bookLedger

NoTime == 0
NotFound == [found |-> FALSE, status |-> "pending", differs |-> {}]

NewRunCall ==
  [at |-> "idle", now |-> NoTime, results |-> {}, entries |-> {}, snapshot |->
     [payment |-> "pending", provider |-> NotFound, present |-> {},
      booked |-> {}]]

\* A new payment, not found by the provider, or found on these terms or on
\* others, or one that is paid, booked and was reconciled without a finding.
NewPayment ==
  /\ Books!AuthorityInit
  /\ \/ provider = NotFound
     \/ provider \in [found : {TRUE}, status : {"pending"},
                     differs : Disagreements]
  /\ starts = 0 /\ runs = FALSE /\ tellsNow = FALSE
PaidPayment ==
  /\ bookStatus = [p \in {ThePayment} |-> "confirmed"]
  /\ bookResults = {<<ThePayment, "confirmed">>}
  /\ bookLedger = bookResults
  /\ provider = [found |-> TRUE, status |-> "paid", differs |-> {}]
  /\ starts = 1 /\ runs = TRUE /\ tellsNow = TRUE

ReconciliationInit ==
  /\ NewPayment \/ PaidPayment
  /\ findings = << >> /\ runCall = [c \in RunCalls |-> NewRunCall]
  /\ moves = 0 /\ current = {}

-----------------------------------------------------------------------------
(* What the runs compare, and how it moves *)

\* expectedProviderStatus
AsProvider(status) == IF status = "confirmed" THEN "paid" ELSE status

Changed ==
  /\ current' = {} /\ tellsNow' = FALSE
  /\ UNCHANGED <<runs, findings, runCall, starts>>

ProviderReports ==
  /\ provider.found /\ moves < MaxMoves
  /\ moves' = moves + 1
  /\ \E s \in TerminalSeen :
       /\ \/ provider.status = "pending" /\ s # "refunded"
          \/ provider.status = "paid" /\ s = "refunded"
       /\ provider' = [provider EXCEPT !.status = AsProvider(s)]
  /\ UNCHANGED books /\ Changed

\* The pipeline moves the payment along what the provider has verified.
Verified(s) ==
  \/ provider.status = AsProvider(s)
  \/ provider.status = "refunded" /\ s = "confirmed"
BooksMove ==
  /\ \E s \in TerminalSeen :
       \/ Verified(s) /\ Books!Advance(ThePayment, s)
       \/ Books!Record(ThePayment, s)
       \/ Books!PostEntry(ThePayment, s)
  /\ books' # books
  /\ UNCHANGED <<provider, moves>> /\ Changed

-----------------------------------------------------------------------------
(* The comparison *)

Finding(kind, expected, observed) ==
  [kind |-> kind, expected |-> expected, observed |-> observed]

\* Results that are booked in the ledger: approvals and refunds.
Monetary == {"confirmed", "refunded"}

ExpectedResults(status) ==
  IF status = "refunded" THEN {"confirmed", "refunded"}
  ELSE {status} \ {"pending"}

\* The finding about an amount, or about a currency.
Mismatch == [amount |-> "amount_mismatch", currency |-> "currency_mismatch"]

Missing(s) == ExpectedResults(s.payment) \ s.present

ProviderFindings(s) ==
  IF ~s.provider.found
  THEN {Finding("provider_payment_not_found", {"present"}, {"missing"})}
  ELSE {Finding("payment_status_mismatch", {AsProvider(s.payment)}, {other}) :
          other \in {s.provider.status} \ {AsProvider(s.payment)}}
       \cup
       {Finding(Mismatch[t], {"the payment's"}, {"another"}) :
          t \in s.provider.differs}

EvidenceFindings(s) ==
  {Finding("verified_result_missing", ExpectedResults(s.payment), missing) :
     missing \in {Missing(s)} \ {{}}}
  \cup
  {Finding("ledger_missing", {kind}, {"missing"}) :
     kind \in (s.present \cap Monetary) \ s.booked}

Findings(s) == ProviderFindings(s) \cup EvidenceFindings(s)

-----------------------------------------------------------------------------
(* reconcilePayment: the reads *)

\* A run and a review leave the books and the provider alone.
Outside == UNCHANGED <<books, provider, moves>>

\* The call answers, fails or dies: what it has read goes with it.
CallEnds(c) ==
  /\ runCall' = [runCall EXCEPT ![c] = NewRunCall]
  /\ current' = current \ {c}

StartRun(c, now) ==
  /\ runCall[c].at = "idle" /\ starts < MaxStarts
  /\ starts' = starts + 1
  /\ runCall' = [runCall EXCEPT
       ![c].at = "provider", ![c].now = now,
       ![c].snapshot.payment = bookStatus[ThePayment]]
  /\ current' = current \cup {c}
  /\ Outside /\ UNCHANGED <<runs, findings, tellsNow>>

\* A provider that does not answer, or not as it should, fails the run.
ReadProvider(c) ==
  /\ runCall[c].at = "provider"
  /\ \/ CallEnds(c)
     \/ /\ runCall' = [runCall EXCEPT
             ![c].at = "evidence", ![c].snapshot.provider = provider,
             ![c].results = ExpectedResults(runCall[c].snapshot.payment)]
        /\ UNCHANGED current
  /\ Outside /\ UNCHANGED <<starts, runs, findings, tellsNow>>

\* The lookups of the results run in parallel.
ReadResult(c, s) ==
  /\ s \in runCall[c].results
  /\ LET found == {s} \cap {r[2] : r \in bookResults} IN
     runCall' = [runCall EXCEPT
       ![c].results = @ \ {s},
       ![c].snapshot.present = @ \cup found,
       ![c].entries = @ \cup (found \cap Monetary)]
  /\ Outside /\ UNCHANGED <<starts, runs, findings, current, tellsNow>>

\* The ledger is asked after all of them, for the approval before the refund.
ReadEntry(c, s) ==
  /\ runCall[c].results = {}
  /\ s \in runCall[c].entries
  /\ "confirmed" \in runCall[c].entries => s = "confirmed"
  /\ runCall' = [runCall EXCEPT
       ![c].entries = @ \ {s},
       ![c].snapshot.booked = @ \cup ({s} \cap {e[2] : e \in bookLedger})]
  /\ Outside /\ UNCHANGED <<starts, runs, findings, current, tellsNow>>

\* All has been read.
Compared(c) ==
  /\ runCall[c].at = "evidence"
  /\ runCall[c].results = {} /\ runCall[c].entries = {}

-----------------------------------------------------------------------------
(* record, one transaction that locks the payment *)

MaxTime(a, b) == IF a > b THEN a ELSE b

\* normalizeReconciliationFinding: a row that is not so is refused when read.
Readable(row) ==
  /\ row.state = "open" => row.acked = NoTime
  /\ row.state = "acknowledged" => row.acked # NoTime
  /\ row.acked # NoTime => row.first <= row.acked
  /\ (row.state = "resolved") <=> (row.resolved # NoTime)
  /\ row.resolved # NoTime => row.first <= row.resolved

\* Who acknowledged is written and cleared with the time of it; the time a
\* finding was last seen only grows and is left out.
NewFinding(now) ==
  [state |-> "open", first |-> now, acked |-> NoTime, resolved |-> NoTime]

\* A slip: the finding of a recurrence stays resolved.
SeenOnly(row) == row

\* A finding seen again is reopened, without its old acknowledgement.
Seen(row) ==
  IF row.state = "resolved"
  THEN [row EXCEPT !.acked = NoTime, !.state = "open", !.resolved = NoTime]
  ELSE row

\* A slip: resolved when the run says, however late it is recorded.
ResolvedNow(row, now) ==
  IF row.state = "resolved" THEN row
  ELSE [row EXCEPT !.state = "resolved", !.resolved = now]

Resolved(row, now) ==
  IF row.state = "resolved" THEN row
  ELSE [row EXCEPT !.state = "resolved", !.resolved = MaxTime(row.first, now)]

RecordFindings(active, now) ==
  [f \in DOMAIN findings \cup active |->
     IF f \notin active THEN Resolved(findings[f], now)
     ELSE IF f \in DOMAIN findings THEN Seen(findings[f])
     ELSE NewFinding(now)]

\* Under the identifier of a run on record nothing is written: the same
\* snapshot is answered from the record, another one is refused.
RepeatRun(c) ==
  /\ Compared(c)
  /\ runs /\ CallEnds(c)
  /\ Outside /\ UNCHANGED <<starts, runs, findings, tellsNow>>

\* Every finding of the run reads back, before the transaction and in it.
ReadsBack(c) ==
  LET active == Findings(runCall[c].snapshot)
      after == RecordFindings(active, runCall[c].now)
  IN \A f \in active :
       /\ f \in DOMAIN findings => Readable(findings[f])
       /\ Readable(after[f])

\* A finding that does not read back undoes the transaction.
RecordRun(c) ==
  /\ Compared(c)
  /\ IF ReadsBack(c)
     THEN /\ runs' = TRUE
          /\ findings' = RecordFindings(Findings(runCall[c].snapshot),
                                        runCall[c].now)
          /\ tellsNow' = (c \in current)
     ELSE UNCHANGED <<runs, findings, tellsNow>>
  /\ CallEnds(c)
  /\ Outside /\ UNCHANGED <<starts>>

-----------------------------------------------------------------------------
(* acknowledge, one transaction that locks the finding *)

Acknowledged(row, now) ==
  [row EXCEPT !.state = "acknowledged", !.acked = now]

\* A slip: whoever acknowledges last signs.
AcknowledgeAgain(f, now) ==
  /\ f \in DOMAIN findings /\ findings[f].state # "resolved"
  /\ Readable(Acknowledged(findings[f], now))
  /\ findings' = [findings EXCEPT ![f] = Acknowledged(@, now)]
  /\ Outside /\ UNCHANGED <<starts, runs, runCall, current, tellsNow>>

\* A resolved finding is refused, one acknowledged before is answered as it
\* is; a clock behind the finding's own times is refused.
Acknowledge(f, now) ==
  /\ f \in DOMAIN findings /\ findings[f].state = "open"
  /\ Readable(Acknowledged(findings[f], now))
  /\ findings' = [findings EXCEPT ![f] = Acknowledged(@, now)]
  /\ Outside /\ UNCHANGED <<starts, runs, runCall, current, tellsNow>>

ReconciliationNext ==
  \/ ProviderReports \/ BooksMove
  \/ \E c \in RunCalls :
       \/ \E now \in ReconcileTimes : StartRun(c, now)
       \/ ReadProvider(c)
       \/ \E s \in TerminalSeen : ReadResult(c, s) \/ ReadEntry(c, s)
       \/ RepeatRun(c) \/ RecordRun(c)
  \/ \E f \in DOMAIN findings, now \in ReconcileTimes : Acknowledge(f, now)

ReconciliationSpec ==
  ReconciliationInit /\ [][ReconciliationNext]_reconciliationVars

-----------------------------------------------------------------------------
ProviderAnswers ==
  [found : BOOLEAN,
   status : {AsProvider(s) : s \in TerminalSeen} \cup {"pending"},
   differs : Disagreements]

ReconciliationTypeOK ==
  /\ bookStatus \in [{ThePayment} -> TerminalSeen \cup {"pending"}]
  /\ bookLedger \subseteq bookResults
  /\ bookResults \subseteq {ThePayment} \X TerminalSeen
  /\ provider \in ProviderAnswers
  /\ runs \in BOOLEAN
  /\ \A f \in DOMAIN findings :
       findings[f].state \in {"open", "acknowledged", "resolved"}
  /\ \A c \in RunCalls :
       runCall[c].at \in {"idle", "provider", "evidence"}
  /\ starts \in 0 .. MaxStarts /\ moves \in 0 .. MaxMoves
  /\ current \subseteq RunCalls /\ tellsNow \in BOOLEAN

(* Whatever the clocks say and in whatever order overlapping runs are
   recorded, every finding reads back: none is ever stored so that the next
   run that meets it fails, and with it every later one. *)
FindingsReadable ==
  /\ \A f \in DOMAIN findings : Readable(findings[f])
  /\ \A c \in RunCalls : Compared(c) => ReadsBack(c)

\* What a run that reads everything in this instant compares.
Now ==
  LET status == bookStatus[ThePayment]
      Here(set) == {s \in ExpectedResults(status) : <<ThePayment, s>> \in set}
  IN [payment |-> status, provider |-> provider,
      present |-> Here(bookResults), booked |-> Here(bookLedger)]

(* What is listed is what disagrees: when the run recorded last made all its
   reads after the last change of the payment, its evidence or the provider,
   the findings not resolved are exactly the disagreements that stand, and a
   refund or an approval the pipeline has deferred for ever is among them. *)
FreshRunListsDisagreements ==
  tellsNow => {f \in DOMAIN findings : findings[f].state # "resolved"} =
              Findings(Now)

(* A finding is kept for ever with the time it was first seen; while it is
   listed its acknowledgement stays with the admin who made it, and one that
   recurs waits for a review of its own. *)
AcknowledgementKept ==
  [][\A f \in DOMAIN findings :
       /\ f \in DOMAIN findings'
       /\ findings'[f].first = findings[f].first
       /\ findings[f].state = "acknowledged" =>
            findings'[f].acked = findings[f].acked
       /\ findings[f].state = "resolved" =>
            \/ findings'[f] = findings[f]
            \/ findings'[f].state = "open" /\ findings'[f].acked = NoTime
    ]_reconciliationVars
===============================================================================
