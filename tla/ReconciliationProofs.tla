------------------------- MODULE ReconciliationProofs -------------------------
(***************************************************************************)
(* Findings read back, list what disagrees and keep their acknowledgement, *)
(* for any calls that overlap, any clocks and any moves of the payment and *)
(* of the provider.  A run compares what it read at different instants;    *)
(* the proof follows, for a run during which nothing moved, how each read  *)
(* adds to a picture of the present.                                       *)
(***************************************************************************)
EXTENDS Reconciliation, TLAPS

ProviderRows ==
  [found : BOOLEAN,
   status : {"pending", "paid"} \cup {AsProvider(s) : s \in TerminalSeen},
   differs : Disagreements]
Snapshots ==
  [payment : Books!Statuses, provider : ProviderRows,
   present : SUBSET Books!Terminal, booked : SUBSET Books!Terminal]
RunCallRows ==
  [at : {"idle", "provider", "evidence"}, now : {NoTime} \cup ReconcileTimes,
   results : SUBSET Books!Terminal, entries : SUBSET Books!Terminal,
   snapshot : Snapshots]
FindingRows ==
  [state : {"open", "acknowledged", "resolved"}, first : ReconcileTimes,
   acked : {NoTime} \cup ReconcileTimes,
   resolved : {NoTime} \cup ReconcileTimes]

Evidence == {ThePayment} \X Books!Terminal

ReconciliationTyped ==
  /\ bookStatus \in [{ThePayment} -> Books!Statuses]
  /\ bookResults \subseteq Evidence /\ bookLedger \subseteq Evidence
  /\ provider \in ProviderRows
  /\ runCall \in [RunCalls -> RunCallRows]

\* What a call that began after the last change has seen is what stands.
SeesNow(c) ==
  LET k == runCall[c]
      s == k.snapshot
      expected == ExpectedResults(s.payment)
  IN
  /\ k.at # "idle"
  /\ s.payment = bookStatus[ThePayment]
  /\ k.at = "evidence" =>
       /\ s.provider = provider
       /\ k.results \subseteq expected
       /\ s.present =
            {x \in expected \ k.results : <<ThePayment, x>> \in bookResults}
       /\ k.entries \subseteq s.present \cap Monetary
       /\ s.booked = {x \in (s.present \cap Monetary) \ k.entries :
                        <<ThePayment, x>> \in bookLedger}

CallSound(c) ==
  /\ runCall[c].at # "evidence" =>
       /\ runCall[c].results = {} /\ runCall[c].entries = {}
       /\ runCall[c].snapshot.present = {} /\ runCall[c].snapshot.booked = {}
  /\ runCall[c].at # "idle" => runCall[c].now \in ReconcileTimes
  /\ c \in current => SeesNow(c)

CallsInv == ReconciliationTyped /\ \A c \in RunCalls : CallSound(c)

RowsSound ==
  \A f \in DOMAIN findings :
    findings[f] \in FindingRows /\ Readable(findings[f])

ListedFindings == {f \in DOMAIN findings : findings[f].state # "resolved"}
ListIsFresh == tellsNow => ListedFindings = Findings(Now)

ReconciliationInv == CallsInv /\ RowsSound /\ ListIsFresh

-----------------------------------------------------------------------------
(* Lemmas about the comparison *)

LEMMA TimesPositive == \A t \in ReconcileTimes : t \in Nat /\ t > NoTime
BY ReconcileTimesAssumption DEF NoTime

LEMMA ExpectedTyped ==
  ASSUME NEW s \in Books!Statuses
  PROVE  ExpectedResults(s) \subseteq Books!Terminal
BY DEF ExpectedResults, Books!Statuses, Books!Terminal

\* Two pictures that agree but for entries of results nobody found disagree
\* with the same things.
LEMMA SameFindings ==
  ASSUME NEW s, NEW t, s.payment = t.payment, s.provider = t.provider,
         s.present = t.present,
         (s.present \cap Monetary) \ s.booked =
           (t.present \cap Monetary) \ t.booked
  PROVE  Findings(s) = Findings(t)
<1>1. ProviderFindings(s) = ProviderFindings(t)
  BY Zenon DEF ProviderFindings
<1>2. Missing(s) = Missing(t)
  BY Zenon DEF Missing
<1>3. EvidenceFindings(s) = EvidenceFindings(t)
  BY <1>2, Zenon DEF EvidenceFindings
<1> QED
  BY <1>1, <1>3, Zenon DEF Findings

LEMMA ComparedIsNow ==
  ASSUME CallsInv, NEW c \in RunCalls, Compared(c), c \in current
  PROVE  Findings(runCall[c].snapshot) = Findings(Now)
<1> DEFINE s == runCall[c].snapshot
           status == bookStatus[ThePayment]
           expected == ExpectedResults(status)
<1>1. /\ s.payment = status /\ s.provider = provider
      /\ s.present = {x \in expected : <<ThePayment, x>> \in bookResults}
      /\ s.booked = {x \in s.present \cap Monetary :
                       <<ThePayment, x>> \in bookLedger}
  BY DEF CallsInv, CallSound, SeesNow, Compared
<1>2. /\ Now.payment = status /\ Now.provider = provider
      /\ Now.present = {x \in expected : <<ThePayment, x>> \in bookResults}
      /\ Now.booked = {x \in expected : <<ThePayment, x>> \in bookLedger}
  BY DEF Now
<1> HIDE DEF s, expected, status
<1>3. (s.present \cap Monetary) \ s.booked =
        (Now.present \cap Monetary) \ Now.booked
  BY <1>1, <1>2
<1>4. Findings(s) = Findings(Now)
  BY <1>1, <1>2, <1>3, SameFindings
<1> QED
  BY <1>4 DEF s

\* The second components of evidence are the results it is of.
LEMMA ResultsOf ==
  ASSUME NEW S \in SUBSET Evidence, NEW s
  PROVE  s \in {r[2] : r \in S} <=> <<ThePayment, s>> \in S
<1>1. ASSUME <<ThePayment, s>> \in S
      PROVE  s \in {r[2] : r \in S}
  BY <1>1
<1>2. ASSUME NEW r \in S, r[2] = s
      PROVE  <<ThePayment, s>> \in S
  BY <1>2 DEF Evidence
<1> QED
  BY <1>1, <1>2

LEMMA FindingRowFacts ==
  ASSUME NEW row \in FindingRows, Readable(row), NEW now \in ReconcileTimes
  PROVE  /\ Seen(row) \in FindingRows /\ Readable(Seen(row))
         /\ Seen(row).state # "resolved" /\ Seen(row).first = row.first
         /\ Resolved(row, now) \in FindingRows /\ Readable(Resolved(row, now))
         /\ Resolved(row, now).state = "resolved"
         /\ Resolved(row, now).first = row.first
         /\ Resolved(row, now).acked = row.acked
<1>1. /\ Seen(row) \in FindingRows /\ Readable(Seen(row))
      /\ Seen(row).state # "resolved" /\ Seen(row).first = row.first
  BY DEF Seen, FindingRows, Readable, NoTime
<1>2. CASE row.state = "resolved"
  BY <1>1, <1>2 DEF Resolved
<1>3. CASE row.state # "resolved"
  <2> DEFINE time == MaxTime(row.first, now)
  <2>1. /\ time \in ReconcileTimes /\ time # NoTime /\ row.first <= time
    BY TimesPositive DEF MaxTime, FindingRows
  <2>2. Resolved(row, now) =
          [row EXCEPT !.state = "resolved", !.resolved = time]
    BY <1>3 DEF Resolved
  <2> HIDE DEF time
  <2>3. /\ Resolved(row, now).state = "resolved"
        /\ Resolved(row, now).resolved = time
        /\ Resolved(row, now).first = row.first
        /\ Resolved(row, now).acked = row.acked
    BY <2>2 DEF FindingRows
  <2>4. Resolved(row, now) \in FindingRows
    BY <2>1, <2>2 DEF FindingRows
  <2>5. Readable(Resolved(row, now))
    BY <2>1, <2>3 DEF Readable
  <2> QED
    BY <1>1, <2>3, <2>4, <2>5
<1> QED
  BY <1>2, <1>3

LEMMA NewFindingFacts ==
  ASSUME NEW now \in ReconcileTimes
  PROVE  /\ NewFinding(now) \in FindingRows /\ Readable(NewFinding(now))
         /\ NewFinding(now).state # "resolved"
BY DEF NewFinding, FindingRows, Readable, NoTime

\* What a run that found active at now would write.
LEMMA RecordedRows ==
  ASSUME RowsSound, NEW active, NEW now \in ReconcileTimes
  PROVE  LET after == RecordFindings(active, now) IN
         /\ DOMAIN after = DOMAIN findings \cup active
         /\ \A f \in DOMAIN after :
              /\ after[f] \in FindingRows /\ Readable(after[f])
              /\ after[f].state # "resolved" <=> f \in active
<1> DEFINE after == RecordFindings(active, now)
<1>1. DOMAIN after = DOMAIN findings \cup active
  BY DEF RecordFindings
<1>2. ASSUME NEW f \in DOMAIN findings \cup active
      PROVE  /\ after[f] \in FindingRows /\ Readable(after[f])
             /\ after[f].state # "resolved" <=> f \in active
  <2>1. CASE f \notin active
    <3>1. after[f] = Resolved(findings[f], now)
      BY <1>2, <2>1 DEF RecordFindings
    <3> QED
      BY <1>2, <2>1, <3>1, FindingRowFacts DEF RowsSound
  <2>2. CASE f \in active /\ f \in DOMAIN findings
    <3>1. after[f] = Seen(findings[f])
      BY <1>2, <2>2 DEF RecordFindings
    <3> QED
      BY <2>2, <3>1, FindingRowFacts DEF RowsSound
  <2>3. CASE f \in active /\ f \notin DOMAIN findings
    <3>1. after[f] = NewFinding(now)
      BY <1>2, <2>3 DEF RecordFindings
    <3> QED
      BY <2>3, <3>1, NewFindingFacts
  <2> QED
    BY <1>2, <2>1, <2>2, <2>3
<1> QED
  BY <1>1, <1>2

-----------------------------------------------------------------------------
(* The invariant *)

LEMMA IdleRunTyped == NewRunCall \in RunCallRows
BY DisagreementsAssumption
   DEF NewRunCall, RunCallRows, Snapshots, NotFound, ProviderRows, NoTime,
       Books!Statuses

\* A new payment has no evidence, and the provider's answer its fields.
LEMMA NewPaymentBegins ==
  ASSUME NewPayment
  PROVE  /\ Books!AuthorityInit
         /\ provider \in [found : BOOLEAN, status : {"pending"},
                          differs : Disagreements]
<1>1. /\ Books!AuthorityInit
      /\ \/ provider = NotFound
         \/ provider \in [found : {TRUE}, status : {"pending"},
                          differs : Disagreements]
  BY Zenon DEF NewPayment
<1>2. CASE provider = NotFound
  BY <1>1, <1>2, DisagreementsAssumption DEF NotFound
<1>3. CASE provider \in [found : {TRUE}, status : {"pending"},
                         differs : Disagreements]
  BY <1>1, <1>3
<1> QED
  BY <1>1, <1>2, <1>3

LEMMA ReconciliationInitHolds == ReconciliationInit => ReconciliationInv
<1> SUFFICES ASSUME ReconciliationInit
             PROVE  ReconciliationInv
  OBVIOUS
<1>1. RowsSound /\ ListedFindings = {}
  BY DEF ReconciliationInit, RowsSound, ListedFindings
<1>2. runCall \in [RunCalls -> RunCallRows]
  BY IdleRunTyped DEF ReconciliationInit
<1>3. \A c \in RunCalls : CallSound(c)
  BY DEF ReconciliationInit, CallSound, NewRunCall
<1>4. CASE NewPayment
  <2>1. ReconciliationTyped
    BY <1>2, <1>4, NewPaymentBegins
       DEF ReconciliationTyped, Books!AuthorityInit,
           Books!Statuses, Evidence, ProviderRows
  <2> QED
    BY <1>1, <1>3, <1>4, <2>1
       DEF NewPayment, ReconciliationInv, CallsInv, ListIsFresh
<1>5. CASE PaidPayment
  <2>1. /\ bookStatus[ThePayment] = "confirmed"
        /\ bookResults = {<<ThePayment, "confirmed">>}
        /\ bookLedger = bookResults
        /\ provider = [found |-> TRUE, status |-> "paid", differs |-> {}]
    BY <1>5 DEF PaidPayment
  <2>2. ReconciliationTyped
    BY <1>2, <1>5, <2>1, DisagreementsAssumption
       DEF PaidPayment, ReconciliationTyped, Books!Statuses, Books!Terminal,
           Evidence, ProviderRows
  <2>3. Findings(Now) = {}
    <3>1. /\ Now.payment = "confirmed" /\ Now.provider = provider
          /\ Now.present = {"confirmed"} /\ Now.booked = {"confirmed"}
      BY <2>1 DEF Now, ExpectedResults
    <3> HIDE DEF Now
    <3>2. ProviderFindings(Now) = {}
      <4>1. /\ Now.provider.found /\ Now.provider.status = "paid"
            /\ AsProvider(Now.payment) = "paid" /\ Now.provider.differs = {}
        BY <2>1, <3>1 DEF AsProvider
      <4>2. {Now.provider.status} \ {AsProvider(Now.payment)} = {}
        BY <4>1
      <4>3. ProviderFindings(Now) =
              {Finding("payment_status_mismatch",
                       {AsProvider(Now.payment)}, {other}) : other \in {}}
              \cup {Finding(Mismatch[t], {"the payment's"}, {"another"}) :
                      t \in {}}
        BY <4>1, <4>2, Zenon DEF ProviderFindings
      <4> QED
        BY <4>3
    <3>3. Missing(Now) = {}
      BY <3>1 DEF Missing, ExpectedResults
    <3>4. (Now.present \cap Monetary) \ Now.booked = {}
      BY <3>1 DEF Monetary
    <3>5. {Missing(Now)} \ {{}} = {}
      BY <3>3
    <3>6. EvidenceFindings(Now) = {}
      BY <3>4, <3>5 DEF EvidenceFindings
    <3> QED
      BY <3>2, <3>6 DEF Findings
  <2> QED
    BY <1>1, <1>3, <2>2, <2>3 DEF ReconciliationInv, CallsInv, ListIsFresh
<1> QED
  BY <1>4, <1>5 DEF ReconciliationInit

\* A step of one call, or of none, that leaves books and provider alone.
LEMMA CallStepKeeps ==
  ASSUME CallsInv, NEW c \in RunCalls, NEW next \in RunCallRows,
         runCall' = [runCall EXCEPT ![c] = next],
         UNCHANGED <<books, provider>>,
         current' \ {c} = current \ {c}, CallSound(c)'
  PROVE  CallsInv'
<1>1. ReconciliationTyped'
  BY DEF CallsInv, ReconciliationTyped, books
<1>2. \A d \in RunCalls \ {c} : CallSound(d)'
  <2> SUFFICES ASSUME NEW d \in RunCalls \ {c}
               PROVE  CallSound(d)'
    OBVIOUS
  <2>1. runCall'[d] = runCall[d] /\ (d \in current' => d \in current)
    BY DEF CallsInv, ReconciliationTyped
  <2> QED
    BY <2>1 DEF CallsInv, CallSound, SeesNow, books
<1> QED
  BY <1>1, <1>2 DEF CallsInv

LEMMA CallEndsKeeps ==
  ASSUME CallsInv, NEW c \in RunCalls, CallEnds(c),
         UNCHANGED <<books, provider>>
  PROVE  CallsInv'
<1>1. /\ runCall' = [runCall EXCEPT ![c] = NewRunCall]
      /\ current' = current \ {c}
  BY DEF CallEnds
<1>2. runCall'[c] = NewRunCall
  BY <1>1 DEF CallsInv, ReconciliationTyped
<1>3. CallSound(c)'
  BY <1>1, <1>2 DEF CallSound, NewRunCall
<1> QED
  BY <1>1, <1>3, IdleRunTyped, CallStepKeeps

\* The list stays fresh while nothing it is about changes.
LEMMA ListKeeps ==
  ASSUME ReconciliationInv, UNCHANGED <<books, provider, findings, tellsNow>>
  PROVE  RowsSound' /\ ListIsFresh'
BY DEF ReconciliationInv, RowsSound, ListIsFresh, ListedFindings, Now, books

\* The payment or the provider moves: no call is current any more.
LEMMA BooksMoveKeep ==
  ASSUME ReconciliationInv, ProviderReports \/ BooksMove
  PROVE  ReconciliationInv'
<1>1. /\ current' = {} /\ tellsNow' = FALSE
      /\ UNCHANGED <<findings, runCall>>
  BY DEF ProviderReports, BooksMove, Changed
<1>2. ReconciliationTyped'
  <2>1. CASE ProviderReports
    <3>1. PICK s \in TerminalSeen :
            provider' = [provider EXCEPT !.status = AsProvider(s)]
      BY <2>1 DEF ProviderReports
    <3>2. provider' \in ProviderRows
      BY <3>1 DEF ReconciliationInv, CallsInv, ReconciliationTyped, ProviderRows
    <3> QED
      BY <1>1, <2>1, <3>2
         DEF ProviderReports, books, ReconciliationInv, CallsInv,
             ReconciliationTyped
  <2>2. CASE BooksMove
    <3>1. PICK s : \/ Books!Advance(ThePayment, s)
                   \/ Books!Record(ThePayment, s)
                   \/ Books!PostEntry(ThePayment, s)
      BY <2>2 DEF BooksMove
    <3>2. bookStatus[ThePayment] \in Books!Statuses
      BY DEF ReconciliationInv, CallsInv, ReconciliationTyped
    <3>3. /\ bookStatus' \in [{ThePayment} -> Books!Statuses]
          /\ bookResults' \subseteq Evidence /\ bookLedger' \subseteq Evidence
      <4>1. CASE Books!Advance(ThePayment, s)
        <5>1. s \in Books!Statuses
          BY <3>2, <4>1
             DEF Books!Advance, Books!Statuses, Books!Terminal
        <5>2. bookStatus' = [bookStatus EXCEPT ![ThePayment] = s]
          BY <4>1 DEF Books!Advance
        <5>3. UNCHANGED <<bookResults, bookLedger>>
          BY <4>1 DEF Books!Advance
        <5> QED
          BY <5>1, <5>2, <5>3
             DEF ReconciliationInv, CallsInv, ReconciliationTyped
      <4>2. CASE Books!Record(ThePayment, s)
        <5>1. s \in Books!Terminal
          BY <3>2, <4>2
             DEF Books!Record, Books!Reached, Books!Statuses, Books!Terminal
        <5> QED
          BY <4>2, <5>1
             DEF Books!Record, Evidence, ReconciliationInv, CallsInv,
                 ReconciliationTyped
      <4>3. CASE Books!PostEntry(ThePayment, s)
        BY <4>3 DEF Books!PostEntry, Books!Terminal, Evidence,
                    ReconciliationInv, CallsInv, ReconciliationTyped
      <4> QED
        BY <3>1, <4>1, <4>2, <4>3
    <3> QED
      BY <1>1, <2>2, <3>3
         DEF BooksMove, ReconciliationInv, CallsInv, ReconciliationTyped
  <2> QED
    BY <2>1, <2>2
<1>3. \A c \in RunCalls : CallSound(c)'
  BY <1>1 DEF ReconciliationInv, CallsInv, CallSound
<1>4. RowsSound' /\ ListIsFresh'
  BY <1>1 DEF ReconciliationInv, RowsSound, ListIsFresh
<1> QED
  BY <1>2, <1>3, <1>4 DEF ReconciliationInv, CallsInv

LEMMA StartRunKeeps ==
  ASSUME ReconciliationInv, NEW c \in RunCalls, NEW now \in ReconcileTimes,
         StartRun(c, now)
  PROVE  ReconciliationInv'
<1> DEFINE k == runCall[c]
           snapshot == [k.snapshot EXCEPT !.payment = bookStatus[ThePayment]]
           next == [k EXCEPT !.at = "provider", !.now = now,
                             !.snapshot = snapshot]
<1>1. /\ k \in RunCallRows /\ k.snapshot \in Snapshots
      /\ bookStatus[ThePayment] \in Books!Statuses
  BY DEF ReconciliationInv, CallsInv, ReconciliationTyped, RunCallRows
<1>2. /\ snapshot \in Snapshots
      /\ snapshot.payment = bookStatus[ThePayment]
      /\ snapshot.present = k.snapshot.present
      /\ snapshot.booked = k.snapshot.booked
  BY <1>1 DEF Snapshots
<1>3. runCall' = [runCall EXCEPT ![c] = next]
  BY DEF StartRun, ReconciliationInv, CallsInv, ReconciliationTyped, RunCallRows
<1> HIDE DEF snapshot
<1>4. /\ next \in RunCallRows
      /\ next.at = "provider" /\ next.now = now /\ next.snapshot = snapshot
      /\ next.results = k.results /\ next.entries = k.entries
  BY <1>1, <1>2 DEF RunCallRows
<1> HIDE DEF next
<1>5. runCall'[c] = next
  BY <1>3 DEF ReconciliationInv, CallsInv, ReconciliationTyped
<1>6. /\ UNCHANGED <<books, provider, findings, tellsNow>>
      /\ current' = current \cup {c} /\ k.at = "idle"
  BY DEF StartRun, Outside
<1>7. CallSound(c)'
  BY <1>2, <1>4, <1>5, <1>6
     DEF ReconciliationInv, CallsInv, CallSound, SeesNow, books
<1>8. CallsInv'
  BY <1>3, <1>4, <1>6, <1>7, CallStepKeeps DEF ReconciliationInv
<1> QED
  BY <1>6, <1>8, ListKeeps DEF ReconciliationInv

LEMMA ReadProviderKeeps ==
  ASSUME ReconciliationInv, NEW c \in RunCalls, ReadProvider(c)
  PROVE  ReconciliationInv'
<1>1. /\ UNCHANGED <<books, provider, findings, tellsNow>>
      /\ runCall[c].at = "provider"
  BY DEF ReadProvider, Outside
<1>2. CASE CallEnds(c)
  BY <1>1, <1>2, CallEndsKeeps, ListKeeps DEF ReconciliationInv
<1>3. CASE /\ runCall' = [runCall EXCEPT
                ![c].at = "evidence", ![c].snapshot.provider = provider,
                ![c].results = ExpectedResults(runCall[c].snapshot.payment)]
           /\ UNCHANGED current
  <2> DEFINE k == runCall[c]
             expected == ExpectedResults(k.snapshot.payment)
             snapshot == [k.snapshot EXCEPT !.provider = provider]
             next == [k EXCEPT !.at = "evidence", !.snapshot = snapshot,
                               !.results = expected]
  <2>1. /\ k \in RunCallRows /\ k.snapshot \in Snapshots
        /\ provider \in ProviderRows
        /\ k.snapshot.payment \in Books!Statuses
    BY DEF ReconciliationInv, CallsInv, ReconciliationTyped, RunCallRows,
           Snapshots
  <2>2. expected \in SUBSET Books!Terminal
    BY <2>1, ExpectedTyped
  <2>3. /\ snapshot \in Snapshots /\ snapshot.provider = provider
        /\ snapshot.payment = k.snapshot.payment
        /\ snapshot.present = k.snapshot.present
        /\ snapshot.booked = k.snapshot.booked
    BY <2>1 DEF Snapshots
  <2>4. runCall' = [runCall EXCEPT ![c] = next]
    BY <1>3 DEF ReconciliationInv, CallsInv, ReconciliationTyped, RunCallRows
  <2> HIDE DEF snapshot, expected
  <2>5. /\ next \in RunCallRows
        /\ next.at = "evidence" /\ next.now = k.now
        /\ next.snapshot = snapshot
        /\ next.results = expected /\ next.entries = k.entries
    BY <2>1, <2>2, <2>3 DEF RunCallRows
  <2> HIDE DEF next
  <2>6. runCall'[c] = next
    BY <2>4 DEF ReconciliationInv, CallsInv, ReconciliationTyped
  <2>7. /\ k.entries = {} /\ snapshot.present = {} /\ snapshot.booked = {}
        /\ k.now \in ReconcileTimes
        /\ c \in current => k.snapshot.payment = bookStatus[ThePayment]
    BY <1>1, <2>3 DEF ReconciliationInv, CallsInv, CallSound, SeesNow
  <2>8. c \in current => SeesNow(c)'
    <3>1. expected = ExpectedResults(snapshot.payment)
      BY <2>3 DEF expected
    <3> QED
      BY <1>1, <2>3, <2>5, <2>6, <2>7, <3>1 DEF SeesNow, books
  <2>9. CallSound(c)'
    BY <1>3, <2>5, <2>6, <2>7, <2>8 DEF CallSound
  <2>10. CallsInv'
    BY <1>1, <1>3, <2>4, <2>5, <2>9, CallStepKeeps DEF ReconciliationInv
  <2> QED
    BY <1>1, <2>10, ListKeeps DEF ReconciliationInv
<1> QED
  BY <1>2, <1>3 DEF ReadProvider

\* A step that moves one read into the snapshot, or takes it off the list of
\* those to make.
LEMMA RunReadKeeps ==
  ASSUME ReconciliationInv, NEW c \in RunCalls, NEW next \in RunCallRows,
         runCall' = [runCall EXCEPT ![c] = next],
         UNCHANGED <<books, provider, findings, tellsNow, current>>,
         next.at = runCall[c].at, next.now = runCall[c].now,
         runCall[c].at = "evidence",
         c \in current => SeesNow(c)'
  PROVE  ReconciliationInv'
<1>1. runCall'[c] = next
  BY DEF ReconciliationInv, CallsInv, ReconciliationTyped
<1>2. runCall[c].now \in ReconcileTimes
  BY DEF ReconciliationInv, CallsInv, CallSound
<1>3. CallSound(c)'
  BY <1>1, <1>2 DEF CallSound
<1>4. CallsInv'
  BY <1>3, CallStepKeeps DEF ReconciliationInv
<1> QED
  BY <1>4, ListKeeps DEF ReconciliationInv

LEMMA ReadResultKeeps ==
  ASSUME ReconciliationInv, NEW c \in RunCalls, NEW s, ReadResult(c, s)
  PROVE  ReconciliationInv'
<1> DEFINE k == runCall[c]
           found == {s} \cap {r[2] : r \in bookResults}
           snapshot == [k.snapshot EXCEPT !.present = @ \cup found]
           next == [k EXCEPT !.results = @ \ {s}, !.snapshot = snapshot,
                             !.entries = @ \cup (found \cap Monetary)]
<1>1. /\ k \in RunCallRows /\ k.snapshot \in Snapshots
      /\ k.snapshot.present \subseteq Books!Terminal
      /\ k.results \subseteq Books!Terminal
      /\ k.entries \subseteq Books!Terminal
  BY DEF ReconciliationInv, CallsInv, ReconciliationTyped, RunCallRows,
         Snapshots
<1>2. /\ s \in k.results
      /\ UNCHANGED <<books, provider, findings, tellsNow, current>>
  BY DEF ReadResult, Outside
<1>3. k.at = "evidence"
  BY <1>2 DEF ReconciliationInv, CallsInv, CallSound
<1>4. \A x : x \in found <=> x = s /\ <<ThePayment, s>> \in bookResults
  BY ResultsOf DEF ReconciliationInv, CallsInv, ReconciliationTyped
<1>5. runCall' = [runCall EXCEPT ![c] = next]
  BY DEF ReadResult, ReconciliationInv, CallsInv, ReconciliationTyped,
         RunCallRows, Snapshots
<1> HIDE DEF found
<1>6. found \subseteq Books!Terminal
  BY <1>1, <1>2, <1>4
<1>7. /\ snapshot \in Snapshots
      /\ snapshot.present = k.snapshot.present \cup found
      /\ snapshot.booked = k.snapshot.booked
      /\ snapshot.payment = k.snapshot.payment
      /\ snapshot.provider = k.snapshot.provider
  BY <1>1, <1>6 DEF Snapshots
<1> HIDE DEF snapshot
<1>8. /\ next \in RunCallRows /\ next.at = k.at /\ next.now = k.now
      /\ next.snapshot = snapshot /\ next.results = k.results \ {s}
      /\ next.entries = k.entries \cup (found \cap Monetary)
  BY <1>1, <1>6, <1>7 DEF RunCallRows
<1> HIDE DEF next
<1>9. runCall'[c] = next
  BY <1>5 DEF ReconciliationInv, CallsInv, ReconciliationTyped
<1>10. c \in current => SeesNow(c)'
  <2> SUFFICES ASSUME c \in current
               PROVE  SeesNow(c)'
    OBVIOUS
  <2> DEFINE expected == ExpectedResults(k.snapshot.payment)
  <2>1. /\ k.snapshot.payment = bookStatus[ThePayment]
        /\ k.snapshot.provider = provider
        /\ k.results \subseteq expected
        /\ k.snapshot.present = {x \in expected \ k.results :
                                   <<ThePayment, x>> \in bookResults}
        /\ k.entries \subseteq k.snapshot.present \cap Monetary
        /\ k.snapshot.booked =
             {x \in (k.snapshot.present \cap Monetary) \ k.entries :
                <<ThePayment, x>> \in bookLedger}
    BY <1>3 DEF ReconciliationInv, CallsInv, CallSound, SeesNow
  <2>2. expected = ExpectedResults(snapshot.payment)
    BY <1>7
  <2> HIDE DEF expected, k
  <2>3. snapshot.present = {x \in expected \ next.results :
                              <<ThePayment, x>> \in bookResults}
    BY <1>2, <1>4, <1>7, <1>8, <2>1
  <2>4. next.entries \subseteq snapshot.present \cap Monetary
    BY <1>7, <1>8, <2>1
  <2>5. snapshot.booked =
          {x \in (snapshot.present \cap Monetary) \ next.entries :
             <<ThePayment, x>> \in bookLedger}
    <3>1. (snapshot.present \cap Monetary) \ next.entries =
            (k.snapshot.present \cap Monetary) \ k.entries
      <4>1. s \notin k.snapshot.present
        BY <1>2, <2>1
      <4>2. \A x \in found : x = s
        BY <1>4
      <4> QED
        BY <1>7, <1>8, <2>1, <4>1, <4>2
    <3> QED
      BY <1>7, <2>1, <3>1
  <2>6. /\ next.at # "idle" /\ next.results \subseteq expected
        /\ snapshot.payment = bookStatus[ThePayment]
        /\ snapshot.provider = provider
    BY <1>3, <1>7, <1>8, <2>1
  <2> QED
    BY <1>2, <1>8, <1>9, <2>2, <2>3, <2>4, <2>5, <2>6 DEF SeesNow, books
<1> QED
  BY <1>2, <1>3, <1>5, <1>8, <1>10, RunReadKeeps

LEMMA ReadEntryKeeps ==
  ASSUME ReconciliationInv, NEW c \in RunCalls, NEW s, ReadEntry(c, s)
  PROVE  ReconciliationInv'
<1> DEFINE k == runCall[c]
           found == {s} \cap {e[2] : e \in bookLedger}
           snapshot == [k.snapshot EXCEPT !.booked = @ \cup found]
           next == [k EXCEPT !.entries = @ \ {s}, !.snapshot = snapshot]
<1>1. /\ k \in RunCallRows /\ k.snapshot \in Snapshots
      /\ k.snapshot.booked \subseteq Books!Terminal
      /\ k.entries \subseteq Books!Terminal
  BY DEF ReconciliationInv, CallsInv, ReconciliationTyped, RunCallRows,
         Snapshots
<1>2. /\ s \in k.entries
      /\ UNCHANGED <<books, provider, findings, tellsNow, current>>
  BY DEF ReadEntry, Outside
<1>3. k.at = "evidence"
  BY <1>2 DEF ReconciliationInv, CallsInv, CallSound
<1>4. \A x : x \in found <=> x = s /\ <<ThePayment, s>> \in bookLedger
  BY ResultsOf DEF ReconciliationInv, CallsInv, ReconciliationTyped
<1>5. runCall' = [runCall EXCEPT ![c] = next]
  BY DEF ReadEntry, ReconciliationInv, CallsInv, ReconciliationTyped,
         RunCallRows, Snapshots
<1> HIDE DEF found
<1>6. found \subseteq Books!Terminal
  BY <1>1, <1>2, <1>4
<1>7. /\ snapshot \in Snapshots
      /\ snapshot.booked = k.snapshot.booked \cup found
      /\ snapshot.present = k.snapshot.present
      /\ snapshot.payment = k.snapshot.payment
      /\ snapshot.provider = k.snapshot.provider
  BY <1>1, <1>6 DEF Snapshots
<1> HIDE DEF snapshot
<1>8. /\ next \in RunCallRows /\ next.at = k.at /\ next.now = k.now
      /\ next.snapshot = snapshot /\ next.results = k.results
      /\ next.entries = k.entries \ {s}
  BY <1>1, <1>7 DEF RunCallRows
<1> HIDE DEF next
<1>9. runCall'[c] = next
  BY <1>5 DEF ReconciliationInv, CallsInv, ReconciliationTyped
<1>10. c \in current => SeesNow(c)'
  <2> SUFFICES ASSUME c \in current
               PROVE  SeesNow(c)'
    OBVIOUS
  <2> DEFINE expected == ExpectedResults(k.snapshot.payment)
  <2>1. /\ k.snapshot.payment = bookStatus[ThePayment]
        /\ k.snapshot.provider = provider
        /\ k.results \subseteq expected
        /\ k.snapshot.present = {x \in expected \ k.results :
                                   <<ThePayment, x>> \in bookResults}
        /\ k.entries \subseteq k.snapshot.present \cap Monetary
        /\ k.snapshot.booked =
             {x \in (k.snapshot.present \cap Monetary) \ k.entries :
                <<ThePayment, x>> \in bookLedger}
    BY <1>3 DEF ReconciliationInv, CallsInv, CallSound, SeesNow
  <2>2. expected = ExpectedResults(snapshot.payment)
    BY <1>7
  <2> HIDE DEF expected, k
  <2>3. snapshot.booked =
          {x \in (snapshot.present \cap Monetary) \ next.entries :
             <<ThePayment, x>> \in bookLedger}
    <3>1. s \in k.snapshot.present \cap Monetary
      BY <1>2, <2>1
    <3> QED
      BY <1>4, <1>7, <1>8, <2>1, <3>1
  <2>4. /\ next.at # "idle" /\ next.results \subseteq expected
        /\ snapshot.payment = bookStatus[ThePayment]
        /\ snapshot.provider = provider
        /\ snapshot.present = {x \in expected \ next.results :
                                 <<ThePayment, x>> \in bookResults}
        /\ next.entries \subseteq snapshot.present \cap Monetary
    BY <1>3, <1>7, <1>8, <2>1
  <2> QED
    BY <1>2, <1>8, <1>9, <2>2, <2>3, <2>4 DEF SeesNow, books
<1> QED
  BY <1>2, <1>3, <1>5, <1>8, <1>10, RunReadKeeps

LEMMA RepeatRunKeeps ==
  ASSUME ReconciliationInv, NEW c \in RunCalls, RepeatRun(c)
  PROVE  ReconciliationInv'
<1>1. /\ UNCHANGED <<books, provider, findings, tellsNow>>
      /\ CallEnds(c)
  BY DEF RepeatRun, Outside
<1> QED
  BY <1>1, CallEndsKeeps, ListKeeps DEF ReconciliationInv

LEMMA RecordRunKeeps ==
  ASSUME ReconciliationInv, NEW c \in RunCalls, RecordRun(c)
  PROVE  ReconciliationInv'
<1> DEFINE now == runCall[c].now
           active == Findings(runCall[c].snapshot)
           after == RecordFindings(active, now)
<1>1. /\ UNCHANGED <<books, provider>> /\ CallEnds(c) /\ Compared(c)
  BY DEF RecordRun, Outside
<1>2. CallsInv'
  BY <1>1, CallEndsKeeps DEF ReconciliationInv
<1>3. now \in ReconcileTimes
  BY <1>1 DEF Compared, ReconciliationInv, CallsInv, CallSound
<1>4. CASE UNCHANGED <<runs, findings, tellsNow>>
  BY <1>1, <1>2, <1>4, ListKeeps DEF ReconciliationInv
<1>5. CASE findings' = after /\ tellsNow' = (c \in current)
  <2>1. /\ DOMAIN after = DOMAIN findings \cup active
        /\ \A f \in DOMAIN after :
             /\ after[f] \in FindingRows /\ Readable(after[f])
             /\ after[f].state # "resolved" <=> f \in active
    BY <1>3, RecordedRows DEF ReconciliationInv
  <2> HIDE DEF after
  <2>2. RowsSound'
    BY <1>5, <2>1 DEF RowsSound
  <2>3. ListedFindings' = active
    BY <1>5, <2>1 DEF ListedFindings
  <2>4. c \in current => active = Findings(Now)
    BY <1>1, ComparedIsNow DEF ReconciliationInv
  <2>5. Findings(Now)' = Findings(Now)
    BY <1>1 DEF Now, books
  <2>6. ListIsFresh'
    BY <1>5, <2>3, <2>4, <2>5 DEF ListIsFresh
  <2> QED
    BY <1>2, <2>2, <2>6 DEF ReconciliationInv
<1> QED
  BY <1>4, <1>5 DEF RecordRun

LEMMA AcknowledgeKeeps ==
  ASSUME ReconciliationInv, NEW f \in DOMAIN findings,
         NEW now \in ReconcileTimes, Acknowledge(f, now)
  PROVE  ReconciliationInv'
<1> DEFINE row == Acknowledged(findings[f], now)
<1>1. /\ findings[f].state = "open" /\ Readable(row)
      /\ findings' = [findings EXCEPT ![f] = row]
      /\ UNCHANGED <<books, provider, runCall, current, tellsNow>>
  BY DEF Acknowledge, Outside
<1>2. row \in FindingRows /\ row.state = "acknowledged"
  BY DEF Acknowledged, ReconciliationInv, RowsSound, FindingRows
<1> HIDE DEF row
<1>3. /\ DOMAIN findings' = DOMAIN findings
      /\ findings'[f] = row
      /\ \A g \in DOMAIN findings \ {f} : findings'[g] = findings[g]
  BY <1>1
<1>4. RowsSound'
  BY <1>1, <1>2, <1>3 DEF RowsSound, ReconciliationInv
<1>5. ListedFindings' = ListedFindings
  <2>1. f \in ListedFindings /\ f \in ListedFindings'
    BY <1>1, <1>2, <1>3 DEF ListedFindings
  <2>2. \A g \in DOMAIN findings \ {f} :
          g \in ListedFindings' <=> g \in ListedFindings
    BY <1>3 DEF ListedFindings
  <2>3. /\ ListedFindings \subseteq DOMAIN findings
        /\ ListedFindings' \subseteq DOMAIN findings
    BY <1>3 DEF ListedFindings
  <2> QED
    BY <2>1, <2>2, <2>3
<1>6. Findings(Now)' = Findings(Now)
  BY <1>1 DEF Now, books
<1>7. ListIsFresh'
  BY <1>1, <1>5, <1>6 DEF ListIsFresh, ReconciliationInv
<1>8. CallsInv'
  BY <1>1
     DEF ReconciliationInv, CallsInv, ReconciliationTyped, CallSound, SeesNow,
         books
<1> QED
  BY <1>4, <1>7, <1>8 DEF ReconciliationInv

LEMMA ReconciliationNextKeeps ==
  ReconciliationInv /\ [ReconciliationNext]_reconciliationVars
    => ReconciliationInv'
<1> SUFFICES ASSUME ReconciliationInv,
                    [ReconciliationNext]_reconciliationVars
             PROVE  ReconciliationInv'
  OBVIOUS
<1>1. CASE UNCHANGED reconciliationVars
  BY <1>1
     DEF reconciliationVars, books, ReconciliationInv, CallsInv,
         ReconciliationTyped, CallSound, SeesNow, RowsSound, ListIsFresh,
         ListedFindings, Now
<1>2. CASE ProviderReports \/ BooksMove
  BY <1>2, BooksMoveKeep
<1>3. ASSUME NEW c \in RunCalls, NEW now \in ReconcileTimes, StartRun(c, now)
      PROVE  ReconciliationInv'
  BY <1>3, StartRunKeeps
<1>4. ASSUME NEW c \in RunCalls, ReadProvider(c)
      PROVE  ReconciliationInv'
  BY <1>4, ReadProviderKeeps
<1>5. ASSUME NEW c \in RunCalls, NEW s \in TerminalSeen,
             ReadResult(c, s) \/ ReadEntry(c, s)
      PROVE  ReconciliationInv'
  BY <1>5, ReadResultKeeps, ReadEntryKeeps
<1>6. ASSUME NEW c \in RunCalls, RepeatRun(c) \/ RecordRun(c)
      PROVE  ReconciliationInv'
  BY <1>6, RepeatRunKeeps, RecordRunKeeps
<1>7. ASSUME NEW f \in DOMAIN findings, NEW now \in ReconcileTimes,
             Acknowledge(f, now)
      PROVE  ReconciliationInv'
  BY <1>7, AcknowledgeKeeps
<1> QED
  BY <1>1, <1>2, <1>3, <1>4, <1>5, <1>6, <1>7 DEF ReconciliationNext

-----------------------------------------------------------------------------
(* Types *)

\* The books stay as their own steps leave them.
LEMMA BooksMoveTyped ==
  ASSUME ReconciliationTypeOK, BooksMove
  PROVE  ReconciliationTypeOK'
<1> USE DEF ReconciliationTypeOK
<1>1. /\ UNCHANGED <<provider, moves, runs, findings, runCall, starts>>
      /\ current' = {} /\ tellsNow' = FALSE
  BY DEF BooksMove, Changed
<1>2. PICK s \in TerminalSeen :
        \/ Books!Advance(ThePayment, s)
        \/ Books!Record(ThePayment, s)
        \/ Books!PostEntry(ThePayment, s)
  BY DEF BooksMove
<1>3. /\ bookStatus' \in [{ThePayment} -> TerminalSeen \cup {"pending"}]
      /\ bookLedger' \subseteq bookResults'
      /\ bookResults' \subseteq {ThePayment} \X TerminalSeen
  <2>1. CASE Books!Advance(ThePayment, s)
    BY <2>1 DEF Books!Advance
  <2>2. CASE Books!Record(ThePayment, s)
    BY <2>2 DEF Books!Record
  <2>3. CASE Books!PostEntry(ThePayment, s)
    BY <2>3 DEF Books!PostEntry
  <2> QED
    BY <1>2, <2>1, <2>2, <2>3
<1> QED
  BY <1>1, <1>3

LEMMA ProviderReportsTyped ==
  ASSUME ReconciliationTypeOK, ProviderReports
  PROVE  ReconciliationTypeOK'
<1> USE DEF ReconciliationTypeOK
<1>1. /\ UNCHANGED <<books, runs, findings, runCall, starts>>
      /\ current' = {} /\ tellsNow' = FALSE
      /\ moves' \in 0 .. MaxMoves
  BY MaxMovesAssumption DEF ProviderReports, Changed
<1>2. PICK s \in TerminalSeen :
        provider' = [provider EXCEPT !.status = AsProvider(s)]
  BY DEF ProviderReports
<1>3. provider' \in ProviderAnswers
  BY <1>2 DEF ProviderAnswers
<1> QED
  BY <1>1, <1>3 DEF books

\* A run's own steps leave the books and the provider, and count its start.
LEMMA RunTyped ==
  ASSUME ReconciliationInv', ReconciliationTypeOK, NEW c \in RunCalls,
         \/ \E now \in ReconcileTimes : StartRun(c, now)
         \/ ReadProvider(c)
         \/ \E s \in TerminalSeen : ReadResult(c, s) \/ ReadEntry(c, s)
         \/ RepeatRun(c) \/ RecordRun(c)
  PROVE  ReconciliationTypeOK'
<1> USE DEF ReconciliationTypeOK
<1>1. Outside
  BY DEF StartRun, ReadProvider, ReadResult, ReadEntry, RepeatRun, RecordRun
<1>2. starts' \in 0 .. MaxStarts
  <2>1. (starts' = starts + 1 /\ starts < MaxStarts) \/ UNCHANGED starts
    BY DEF StartRun, ReadProvider, ReadResult, ReadEntry, RepeatRun, RecordRun
  <2> QED
    BY <2>1, MaxStartsAssumption
<1>3. current' \subseteq RunCalls
  BY DEF StartRun, ReadProvider, ReadResult, ReadEntry, RepeatRun, RecordRun,
         CallEnds
<1>4. runs' \in BOOLEAN
  <2>1. runs' = TRUE \/ UNCHANGED runs
    BY DEF StartRun, ReadProvider, ReadResult, ReadEntry, RepeatRun, RecordRun
  <2> QED
    BY <2>1
<1>5. tellsNow' \in BOOLEAN
  <2>1. tellsNow' = (c \in current) \/ UNCHANGED tellsNow
    BY DEF StartRun, ReadProvider, ReadResult, ReadEntry, RepeatRun, RecordRun
  <2>2. (c \in current) \in BOOLEAN
    OBVIOUS
  <2> QED
    BY <2>1, <2>2, Zenon
<1>6. \A f \in DOMAIN findings' :
        findings'[f].state \in {"open", "acknowledged", "resolved"}
  BY DEF ReconciliationInv, RowsSound, FindingRows
<1>7. \A k \in RunCalls :
        runCall'[k].at \in {"idle", "provider", "evidence"}
  BY DEF ReconciliationInv, CallsInv, ReconciliationTyped, RunCallRows
<1> QED
  BY <1>1, <1>2, <1>3, <1>4, <1>5, <1>6, <1>7 DEF Outside, books

LEMMA ReconciliationTypesKept ==
  ASSUME ReconciliationInv, ReconciliationTypeOK,
         [ReconciliationNext]_reconciliationVars
  PROVE  ReconciliationTypeOK'
<1>1. ReconciliationInv'
  BY ReconciliationNextKeeps
<1>2. ASSUME NEW f \in DOMAIN findings, NEW now \in ReconcileTimes,
             Acknowledge(f, now)
      PROVE  ReconciliationTypeOK'
  <2>1. \A g \in DOMAIN findings' :
          findings'[g].state \in {"open", "acknowledged", "resolved"}
    BY <1>1 DEF ReconciliationInv, RowsSound, FindingRows
  <2> QED
    BY <1>2, <2>1 DEF Acknowledge, Outside, books, ReconciliationTypeOK
<1>3. CASE UNCHANGED reconciliationVars
  BY <1>3 DEF reconciliationVars, books, ReconciliationTypeOK
<1> QED
  BY <1>1, <1>2, <1>3, BooksMoveTyped, ProviderReportsTyped, RunTyped
     DEF ReconciliationNext

LEMMA ReconciliationTypesInit == ReconciliationInit => ReconciliationTypeOK
<1> SUFFICES ASSUME ReconciliationInit
             PROVE  ReconciliationTypeOK
  OBVIOUS
<1>1. /\ findings = << >> /\ moves = 0 /\ current = {} /\ starts \in {0, 1}
      /\ runCall = [c \in RunCalls |-> NewRunCall]
  BY DEF ReconciliationInit, NewPayment, PaidPayment

<1>2. /\ bookStatus \in [{ThePayment} -> TerminalSeen \cup {"pending"}]
      /\ bookLedger \subseteq bookResults
      /\ bookResults \subseteq {ThePayment} \X TerminalSeen
  <2>1. CASE NewPayment
    BY <2>1, NewPaymentBegins DEF Books!AuthorityInit
  <2>2. CASE PaidPayment
    BY <2>2, TerminalSeenAssumption DEF PaidPayment
  <2> QED
    BY <2>1, <2>2 DEF ReconciliationInit
<1>3. provider \in ProviderAnswers
  <2>1. AsProvider("confirmed") = "paid"
    BY DEF AsProvider
  <2>2. "paid" \in {AsProvider(s) : s \in TerminalSeen}
    BY <2>1, TerminalSeenAssumption
  <2>3. CASE NewPayment
    BY <2>3, NewPaymentBegins DEF ProviderAnswers
  <2>4. CASE PaidPayment
    BY <2>2, <2>4, DisagreementsAssumption DEF PaidPayment, ProviderAnswers
  <2> QED
    BY <2>3, <2>4 DEF ReconciliationInit
<1>4. runs \in BOOLEAN /\ tellsNow \in BOOLEAN
  BY DEF ReconciliationInit, NewPayment, PaidPayment
<1>5. \A c \in RunCalls : runCall[c].at \in {"idle", "provider", "evidence"}
  BY <1>1 DEF NewRunCall
<1>6. starts \in 0 .. MaxStarts /\ moves \in 0 .. MaxMoves
  BY <1>1, MaxStartsAssumption, MaxMovesAssumption
<1> QED
  BY <1>1, <1>2, <1>3, <1>4, <1>5, <1>6 DEF ReconciliationTypeOK

-----------------------------------------------------------------------------
(* The theorems *)

(* Whatever calls overlap and whatever their clocks say: what is stored reads
   back, and a run nothing moved under has seen the present. *)
THEOREM ReconciliationInvariant == ReconciliationSpec => []ReconciliationInv
<1> QED
  BY ReconciliationInitHolds, ReconciliationNextKeeps, PTL
     DEF ReconciliationSpec

(* The tables, the runs under way and their bounds keep their types. *)
THEOREM ReconciliationTypes == ReconciliationSpec => []ReconciliationTypeOK
<1>1. ReconciliationInv /\ ReconciliationTypeOK
        /\ [ReconciliationNext]_reconciliationVars => ReconciliationTypeOK'
  BY ReconciliationTypesKept
<1> QED
  BY <1>1, ReconciliationTypesInit, ReconciliationInvariant, PTL
     DEF ReconciliationSpec

(* No run ever stores a finding that the next run, or a review, refuses to
   read: resolvedAt is never before firstSeenAt, however late the run. *)
THEOREM FindingsAlwaysReadable == ReconciliationSpec => []FindingsReadable
<1>1. ASSUME ReconciliationInv
      PROVE  FindingsReadable
  <2>1. \A f \in DOMAIN findings : Readable(findings[f])
    BY <1>1 DEF ReconciliationInv, RowsSound
  <2>2. ASSUME NEW c \in RunCalls, Compared(c)
        PROVE  ReadsBack(c)
    <3> DEFINE active == Findings(runCall[c].snapshot)
               now == runCall[c].now
               after == RecordFindings(active, now)
    <3>1. now \in ReconcileTimes
      BY <1>1, <2>2 DEF Compared, ReconciliationInv, CallsInv, CallSound
    <3>2. /\ DOMAIN after = DOMAIN findings \cup active
          /\ \A f \in DOMAIN after : Readable(after[f])
      BY <1>1, <3>1, RecordedRows DEF ReconciliationInv
    <3> HIDE DEF active, after
    <3>3. \A f \in active :
            /\ f \in DOMAIN findings => Readable(findings[f])
            /\ Readable(after[f])
      BY <2>1, <3>2
    <3> QED
      BY <3>3 DEF ReadsBack, active, after
  <2> QED
    BY <2>1, <2>2 DEF FindingsReadable
<1> QED
  BY <1>1, ReconciliationInvariant, PTL

(* When the run recorded last made all its reads after the last change, the
   findings listed are exactly the disagreements that stand. *)
THEOREM FreshRunsListDisagreements ==
  ReconciliationSpec => []FreshRunListsDisagreements
<1>1. ReconciliationInv => FreshRunListsDisagreements
  BY DEF ReconciliationInv, ListIsFresh, ListedFindings,
         FreshRunListsDisagreements
<1> QED
  BY <1>1, ReconciliationInvariant, PTL

LEMMA StepKeepsAcknowledgements ==
  ASSUME ReconciliationInv, [ReconciliationNext]_reconciliationVars,
         NEW f \in DOMAIN findings
  PROVE  /\ f \in DOMAIN findings'
         /\ findings'[f].first = findings[f].first
         /\ findings[f].state = "acknowledged" =>
              findings'[f].acked = findings[f].acked
         /\ findings[f].state = "resolved" =>
              \/ findings'[f] = findings[f]
              \/ findings'[f].state = "open" /\ findings'[f].acked = NoTime
<1> DEFINE row == findings[f]
<1>1. row \in FindingRows /\ Readable(row)
  BY DEF ReconciliationInv, RowsSound
<1>2. CASE UNCHANGED findings
  BY <1>2
<1>3. CASE \E c \in RunCalls : RecordRun(c) /\ ~ UNCHANGED findings
  <2>1. PICK c \in RunCalls : RecordRun(c) /\ ~ UNCHANGED findings
    BY <1>3
  <2> DEFINE now == runCall[c].now
             active == Findings(runCall[c].snapshot)
  <2>2. findings' = RecordFindings(active, now)
    BY <2>1 DEF RecordRun
  <2>3. now \in ReconcileTimes
    BY <2>1 DEF RecordRun, Compared, ReconciliationInv, CallsInv, CallSound
  <2> HIDE DEF active, now
  <2>4. /\ f \in DOMAIN findings'
        /\ findings'[f] = IF f \notin active THEN Resolved(row, now)
                          ELSE Seen(row)
    BY <2>2 DEF RecordFindings
  <2>5. CASE f \notin active
    <3>1. findings'[f] = Resolved(row, now)
      BY <2>4, <2>5
    <3>2. row.state = "resolved" => findings'[f] = row
      BY <3>1 DEF Resolved
    <3>3. findings'[f].first = row.first /\ findings'[f].acked = row.acked
      BY <1>1, <2>3, <3>1, FindingRowFacts
    <3> QED
      BY <2>4, <3>2, <3>3
  <2>6. CASE f \in active
    <3>1. findings'[f] = Seen(row)
      BY <2>4, <2>6
    <3>2. findings'[f].first = row.first
      BY <1>1, <3>1, <2>3, FindingRowFacts
    <3>3. row.state # "resolved" => findings'[f] = row
      BY <3>1 DEF Seen
    <3>4. row.state = "resolved" =>
            findings'[f].state = "open" /\ findings'[f].acked = NoTime
      BY <1>1, <3>1 DEF Seen, FindingRows
    <3> QED
      BY <2>4, <3>2, <3>3, <3>4
  <2> QED
    BY <2>5, <2>6
<1>4. CASE \E g \in DOMAIN findings, now \in ReconcileTimes :
              Acknowledge(g, now)
  <2>1. PICK g \in DOMAIN findings, now \in ReconcileTimes :
          Acknowledge(g, now)
    BY <1>4
  <2>2. /\ findings[g].state = "open"
        /\ findings' = [findings EXCEPT ![g] = Acknowledged(@, now)]
    BY <2>1 DEF Acknowledge
  <2>3. CASE f = g
    <3>1. findings'[f] = Acknowledged(row, now) /\ f \in DOMAIN findings'
      BY <2>2, <2>3
    <3>2. Acknowledged(row, now).first = row.first
      BY <1>1 DEF Acknowledged, FindingRows
    <3> QED
      BY <2>2, <2>3, <3>1, <3>2
  <2>4. CASE f # g
    BY <2>2, <2>4
  <2> QED
    BY <2>3, <2>4
<1>5. \/ UNCHANGED findings
      \/ \E c \in RunCalls : RecordRun(c)
      \/ \E g \in DOMAIN findings, now \in ReconcileTimes :
           Acknowledge(g, now)
  BY DEF ReconciliationNext, reconciliationVars, ProviderReports, BooksMove,
         Changed, StartRun, ReadProvider, ReadResult, ReadEntry, RepeatRun
<1> QED
  BY <1>2, <1>3, <1>4, <1>5

(* A finding is never dropped, its first time never rewritten, its
   acknowledgement never re-signed while it is listed, and a recurrence starts
   without one. *)
THEOREM AcknowledgementsKept == ReconciliationSpec => AcknowledgementKept
<1>1. ReconciliationInv /\ [ReconciliationNext]_reconciliationVars =>
        [\A f \in DOMAIN findings :
           /\ f \in DOMAIN findings'
           /\ findings'[f].first = findings[f].first
           /\ findings[f].state = "acknowledged" =>
                findings'[f].acked = findings[f].acked
           /\ findings[f].state = "resolved" =>
                \/ findings'[f] = findings[f]
                \/ findings'[f].state = "open" /\ findings'[f].acked = NoTime
        ]_reconciliationVars
  BY StepKeepsAcknowledgements
<1> QED
  BY <1>1, ReconciliationInvariant, PTL
     DEF ReconciliationSpec, AcknowledgementKept
=============================================================================
