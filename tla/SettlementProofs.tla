-------------------------- MODULE SettlementProofs --------------------------
(***************************************************************************)
(* The rows of a split never run ahead of the ledger, and no payable       *)
(* account is overdrawn, for any beneficiaries, requests and interleaving. *)
(* A request acts on what it read some steps ago.  What it read is still   *)
(* good for what it does, because the provider's transfer, the row of the  *)
(* transfer and the ledger only move forward: that is SettlementAdvances,  *)
(* and a request that knows something keeps knowing it.  The reversal is   *)
(* the exception, whose list of payables goes stale; the proof needs that  *)
(* no transfer was claimed behind it, which is what raced records.         *)
(***************************************************************************)
EXTENDS Settlement, TLAPS

PayableStatuses ==
  {"none", "blocked", "ready", "settled", "transfer_pending", "failed",
   "reversed"}
TransferStatuses ==
  {"none", "claimed", "provider_accepted", "settled", "failed", "reversed"}
PaidStatuses == {"none", "pending", "paid", "failed", "reversed"}

\* The labels of a request that is about one beneficiary.
TransferLabels ==
  {"open", "transfer", "accept", "fail", "book settled", "settle",
   "book returned", "return"}
RequestLabels ==
  TransferLabels \cup {"start", "claim", "append", "activate", "post", "count",
                       "reverse"}
RequestRows ==
  [at : RequestLabels, whom : Holder, time : Times \cup {"none"},
   run : 0 .. MaxRuns, receivable : SUBSET Beneficiaries]
LedgerEntries ==
  [key : {"split", "settled", "returned", "reversal"} \X Holder,
   time : Times \cup {"refund"}, receivable : SUBSET Beneficiaries]

SettlementTyped ==
  /\ refunded \in BOOLEAN /\ raced \in BOOLEAN
  /\ run \in [id : 0 .. MaxRuns, clean : BOOLEAN]
  /\ allocation \in
       [status : {"none", "claimed", "active", "reversed"}, run : 0 .. MaxRuns]
  /\ payable \in [Beneficiaries -> PayableStatuses]
  /\ transfer \in [Beneficiaries -> TransferStatuses]
  /\ paidOut \in [Beneficiaries -> PaidStatuses]
  /\ ledger \subseteq LedgerEntries

\* What the provider carried out, and the row of such a transfer.
WasPaid(b) == paidOut[b] \in {"paid", "reversed"}
WasAccepted(b) == transfer[b] \in {"provider_accepted", "settled", "reversed"}

\* A payment is booked only if the provider made it, its return only after it.
BookedWasPaid ==
  \A b \in Beneficiaries :
    /\ Booked("settled", b) => WasPaid(b) /\ WasAccepted(b)
    /\ Booked("returned", b) => Booked("settled", b)

\* Until the split is reversed a payable says what its transfer says.
PayablesFollow ==
  /\ allocation.status = "none" => \A b \in Beneficiaries : transfer[b] = "none"
  /\ allocation.status # "reversed" =>
       \A b \in Beneficiaries :
         /\ transfer[b] \in {"claimed", "provider_accepted"} =>
              payable[b] = "transfer_pending"
         /\ transfer[b] = "settled" => payable[b] = "settled"

RowsInv ==
  SettlementTyped /\ LedgerBacksRows /\ BookedWasPaid /\ PayablesFollow

\* What a request knows at its label.
Known(row) ==
  /\ row.at \in TransferLabels => row.whom \in Beneficiaries
  /\ row.at \in {"claim", "append", "book settled", "book returned"} =>
       row.time \in Times
  /\ row.at \in {"open", "transfer", "accept"} =>
       Booked("split", "all") /\ allocation.status # "none"
  /\ row.at = "activate" => Booked("split", "all")
  /\ row.at = "fail" => paidOut[row.whom] = "failed"
  /\ row.at \in {"book settled", "settle"} =>
       WasPaid(row.whom) /\ WasAccepted(row.whom)
  /\ row.at = "settle" => Booked("settled", row.whom)
  /\ row.at \in {"book returned", "return"} =>
       /\ paidOut[row.whom] = "reversed"
       /\ transfer[row.whom] \in {"settled", "reversed"}
  /\ row.at = "return" => Booked("returned", row.whom)
  /\ row.at \in {"count", "reverse"} => Booked("reversal", "all")

RequestsInv ==
  /\ request \in [Requests -> RequestRows]
  /\ \A q \in Requests : Known(request[q])

\* The allocation's row is locked by the one request that reverses it.
ReverserAlone ==
  \A q \in Requests :
    At(q, "reverse") => /\ allocation.status = "active"
                        /\ \A s \in Requests : At(s, "reverse") => s = q

\* Nothing was paid, or is about to be, from an account that is taken back.
Spares(receivable) ==
  \A b \in Beneficiaries \ receivable :
    transfer[b] \in {"none", "failed", "reversed"}

ReversalsSpare ==
  ~raced =>
    /\ \A q \in Requests : At(q, "post") => Spares(request[q].receivable)
    /\ \A e \in ledger :
         e.key = <<"reversal", "all">> => Spares(e.receivable)

SettlementInv == RowsInv /\ RequestsInv /\ ReverserAlone /\ ReversalsSpare

-----------------------------------------------------------------------------
(* Lemmas *)

LEMMA NewRequestTyped == NewRequest \in RequestRows /\ NewRequest.at = "start"
BY RunsAssumption DEF NewRequest, RequestRows, RequestLabels, Holder

LEMMA SettlementInitHolds == SettlementInit => SettlementInv
<1> SUFFICES ASSUME SettlementInit
             PROVE  SettlementInv
  OBVIOUS
<1>1. SettlementTyped
  <2>1. /\ run \in [id : 0 .. MaxRuns, clean : BOOLEAN]
        /\ allocation \in [status : {"none", "claimed", "active", "reversed"},
                           run : 0 .. MaxRuns]
    BY RunsAssumption DEF SettlementInit
  <2> QED
    BY <2>1 DEF SettlementInit, SettlementTyped, PayableStatuses,
                TransferStatuses, PaidStatuses
<1>2. LedgerBacksRows /\ BookedWasPaid /\ PayablesFollow
  BY DEF SettlementInit, LedgerBacksRows, BookedWasPaid, PayablesFollow, Booked
<1>3. RequestsInv
  BY NewRequestTyped
     DEF SettlementInit, RequestsInv, Known, TransferLabels
<1>4. ReverserAlone /\ ReversalsSpare
  BY NewRequestTyped
     DEF SettlementInit, ReverserAlone, ReversalsSpare, At
<1> QED
  BY <1>1, <1>2, <1>3, <1>4 DEF SettlementInv, RowsInv

\* The ledger, the provider's transfers and the rows only move forward.
SettlementAdvances ==
  /\ ledger \subseteq ledger'
  /\ allocation.status # "none" => allocation'.status # "none"
  /\ \A b \in Beneficiaries :
       /\ WasPaid(b) => WasPaid(b)'
       /\ paidOut[b] \in {"failed", "reversed"} => paidOut'[b] = paidOut[b]
       /\ WasPaid(b) /\ WasAccepted(b) => WasAccepted(b)'
       /\ transfer[b] \in {"settled", "reversed"} =>
            transfer'[b] \in {"settled", "reversed"}

\* So what a request knows stays true while others go on.
LEMMA KnownStays ==
  ASSUME SettlementAdvances, NEW row \in RequestRows, Known(row)
  PROVE  Known(row)'
<1>1. \A kind, whom : Booked(kind, whom) => Booked(kind, whom)'
  BY DEF SettlementAdvances, Booked
<1>2. row.at \in TransferLabels => row.whom \in Beneficiaries
  BY DEF Known
<1> USE DEF TransferLabels
<1>3. row.at \in {"open", "transfer", "accept"} =>
        Booked("split", "all")' /\ allocation'.status # "none"
  BY <1>1 DEF Known, SettlementAdvances
<1>4. row.at = "activate" => Booked("split", "all")'
  BY <1>1 DEF Known
<1>5. row.at = "fail" => paidOut'[row.whom] = "failed"
  BY <1>2 DEF Known, SettlementAdvances
<1>6. row.at \in {"book settled", "settle"} =>
        WasPaid(row.whom)' /\ WasAccepted(row.whom)'
  BY <1>2 DEF Known, SettlementAdvances
<1>7. row.at = "settle" => Booked("settled", row.whom)'
  BY <1>1 DEF Known
<1>8. row.at \in {"book returned", "return"} =>
        /\ paidOut'[row.whom] = "reversed"
        /\ transfer'[row.whom] \in {"settled", "reversed"}
  BY <1>2 DEF Known, SettlementAdvances
<1>9. row.at = "return" => Booked("returned", row.whom)'
  BY <1>1 DEF Known
<1>10. row.at \in {"count", "reverse"} => Booked("reversal", "all")'
  BY <1>1 DEF Known
<1>11. row.at \in {"claim", "append", "book settled", "book returned"} =>
         row.time \in Times
  BY DEF Known
<1> QED
  BY <1>2, <1>3, <1>4, <1>5, <1>6, <1>7, <1>8, <1>9, <1>10, <1>11 DEF Known

LEMMA OthersKnow ==
  ASSUME SettlementInv, SettlementAdvances, NEW s \in Requests,
         request'[s] = request[s]
  PROVE  Known(request[s])'
<1>1. request[s] \in RequestRows /\ Known(request[s])
  BY DEF SettlementInv, RequestsInv
<1>2. PICK row \in RequestRows : row = request[s]
  BY <1>1
<1>3. Known(row)
  BY <1>1, <1>2
<1>4. Known(row)'
  BY <1>3, KnownStays
<1> QED
  BY <1>2, <1>4 DEF Known, WasPaid, WasAccepted, Booked

\* The allocation leaves the status active only in a reverser's hands.
AllocationHeld(q) ==
  allocation.status = "active" =>
    allocation'.status = "active" \/ At(q, "reverse")

\* A transfer that a reversal under way counts on stays as it was.
StillSpares ==
  ~raced' =>
    /\ ~raced
    /\ ReversalUnderWay =>
         \A b \in Beneficiaries :
           transfer[b] \in {"none", "failed", "reversed"} =>
             transfer'[b] \in {"none", "failed", "reversed"}

\* A step of one request.
LEMMA RequestStepKeeps ==
  ASSUME SettlementInv, NEW q \in Requests, NEW next \in RequestRows,
         request' = [request EXCEPT ![q] = next],
         RowsInv', SettlementAdvances, Known(next)',
         AllocationHeld(q), StillSpares,
         next.at = "post" => (~raced' => Spares(next.receivable)'),
         next.at = "reverse" =>
           /\ allocation'.status = "active"
           /\ ~\E s \in Requests : At(s, "reverse"),
         \A e \in ledger' \ ledger : e.key = <<"reversal", "all">> =>
           At(q, "post") /\ e.receivable = request[q].receivable
  PROVE  SettlementInv'
<1>1. request' \in [Requests -> RequestRows] /\ request'[q] = next
  BY DEF SettlementInv, RequestsInv
<1>2. \A s \in Requests \ {q} : request'[s] = request[s]
  BY DEF SettlementInv, RequestsInv
<1>3. RequestsInv'
  <2>1. Known(request[q])'
    BY <1>1 DEF Known, WasPaid, WasAccepted, Booked
  <2> QED
    BY <1>1, <1>2, <2>1, OthersKnow DEF RequestsInv
<1>4. ReverserAlone'
  BY <1>1, <1>2 DEF SettlementInv, ReverserAlone, At, AllocationHeld
<1>5. ReversalsSpare'
  <2> SUFFICES ASSUME ~raced'
               PROVE  ReversalsSpare'
    BY DEF ReversalsSpare
  <2>1. ASSUME NEW X \in SUBSET Beneficiaries, Spares(X), ReversalUnderWay
        PROVE  Spares(X)'
    BY <2>1 DEF StillSpares, Spares
  <2>2. ASSUME NEW s \in Requests, At(s, "post")
        PROVE  /\ request[s].receivable \in SUBSET Beneficiaries
               /\ Spares(request[s].receivable) /\ ReversalUnderWay
    <3>1. request[s].receivable \in SUBSET Beneficiaries
      BY DEF SettlementInv, RequestsInv, RequestRows
    <3>2. ~raced
      BY DEF StillSpares
    <3>3. Spares(request[s].receivable)
      BY <2>2, <3>2 DEF SettlementInv, ReversalsSpare
    <3>4. ReversalUnderWay
      BY <2>2 DEF ReversalUnderWay, At
    <3> QED
      BY <3>1, <3>3, <3>4
  <2>3. ASSUME NEW s \in Requests \ {q}, At(s, "post")'
        PROVE  Spares(request[s].receivable)'
    <3>1. At(s, "post") /\ request'[s].receivable = request[s].receivable
      BY <1>2, <2>3 DEF At
    <3>2. PICK X \in SUBSET Beneficiaries : X = request[s].receivable
      BY <2>2, <3>1
    <3>3. Spares(X)'
      BY <2>1, <2>2, <3>1, <3>2
    <3> QED
      BY <3>1, <3>2, <3>3 DEF Spares
  <2>4. At(q, "post")' => Spares(request[q].receivable)'
    BY <1>1 DEF At, Spares
  <2>5. ASSUME NEW e \in ledger', e.key = <<"reversal", "all">>
        PROVE  Spares(e.receivable)'
    <3>1. CASE e \in ledger
      <4>1. e.receivable \in SUBSET Beneficiaries /\ ReversalUnderWay
        BY <2>5, <3>1 DEF SettlementInv, RowsInv, SettlementTyped,
                          LedgerEntries, ReversalUnderWay, Booked
      <4>2. Spares(e.receivable)
        BY <2>5, <3>1 DEF StillSpares, SettlementInv, ReversalsSpare
      <4> QED
        BY <2>1, <4>1, <4>2
    <3>2. CASE e \notin ledger
      <4>1. At(q, "post") /\ e.receivable = request[q].receivable
        BY <2>5, <3>2
      <4> QED
        BY <2>1, <2>2, <4>1
    <3> QED
      BY <3>1, <3>2
  <2> QED
    BY <2>3, <2>4, <2>5 DEF ReversalsSpare
<1> QED
  BY <1>3, <1>4, <1>5 DEF SettlementInv

-----------------------------------------------------------------------------
(* Steps that leave the rows and the ledger alone *)

settlementTables == <<allocation, payable, transfer, paidOut, ledger, raced>>

LEMMA SameTablesKeep ==
  ASSUME SettlementInv, UNCHANGED <<settlementTables, refunded, run>>
  PROVE  /\ RowsInv' /\ SettlementAdvances /\ StillSpares
         /\ \A q \in Requests : AllocationHeld(q)
<1> USE DEF settlementTables
<1>1. SettlementTyped'
  BY DEF SettlementInv, RowsInv, SettlementTyped
<1>2. LedgerBacksRows'
  BY DEF SettlementInv, RowsInv, LedgerBacksRows, Booked
<1>3. BookedWasPaid'
  BY DEF SettlementInv, RowsInv, BookedWasPaid, Booked, WasPaid, WasAccepted
<1>4. PayablesFollow'
  BY DEF SettlementInv, RowsInv, PayablesFollow
<1>5. SettlementAdvances /\ StillSpares /\ \A q \in Requests : AllocationHeld(q)
  BY DEF SettlementAdvances, StillSpares, AllocationHeld, WasPaid, WasAccepted
<1> QED
  BY <1>1, <1>2, <1>3, <1>4, <1>5 DEF RowsInv

\* A request that goes on to another label, or to a new beginning.
LEMMA LabelKeeps ==
  ASSUME SettlementInv, NEW q \in Requests, NEW next \in RequestRows,
         request' = [request EXCEPT ![q] = next],
         UNCHANGED <<settlementTables, refunded, run>>, Known(next),
         next.at = "post" => (~raced => Spares(next.receivable)),
         next.at = "reverse" =>
           /\ allocation.status = "active"
           /\ ~\E s \in Requests : At(s, "reverse")
  PROVE  SettlementInv'
<1>1. /\ RowsInv' /\ SettlementAdvances /\ StillSpares /\ AllocationHeld(q)
  BY SameTablesKeep
<1>2. Known(next)'
  BY <1>1, KnownStays
<1>3. next.at = "post" => (~raced' => Spares(next.receivable)')
  BY DEF settlementTables, Spares
<1>4. next.at = "reverse" => allocation'.status = "active"
  BY DEF settlementTables
<1>5. ledger' \ ledger = {}
  BY DEF settlementTables
<1> QED
  BY <1>1, <1>2, <1>3, <1>4, <1>5, RequestStepKeeps

\* A request that ends, at any label, while the tables move.
LEMMA EndsKeeps ==
  ASSUME SettlementInv, NEW q \in Requests, Ends(q),
         RowsInv', SettlementAdvances, AllocationHeld(q), StillSpares,
         ledger' = ledger
  PROVE  SettlementInv'
<1>1. NewRequest \in RequestRows /\ NewRequest.at = "start"
  BY NewRequestTyped
<1>2. Known(NewRequest)'
  BY <1>1 DEF Known, TransferLabels
<1> QED
  BY <1>1, <1>2, RequestStepKeeps DEF Ends

LEMMA RestsKeeps ==
  ASSUME SettlementInv, NEW q \in Requests, Ends(q),
         UNCHANGED <<settlementTables, refunded, run>>
  PROVE  SettlementInv'
BY SameTablesKeep, EndsKeeps DEF settlementTables

\* The step of a request to its next label, with what it then has.
LEMMA StepTo ==
  ASSUME SettlementInv, NEW q \in Requests, NEW label \in RequestLabels,
         Step(q, label)
  PROVE  \E next \in RequestRows :
           /\ request' = [request EXCEPT ![q] = next]
           /\ next.at = label
           /\ next.whom = request[q].whom
           /\ next.time = request[q].time
           /\ next.receivable = request[q].receivable
<1> DEFINE next == [request[q] EXCEPT !.at = label]
<1>1. request \in [Requests -> RequestRows] /\ request[q] \in RequestRows
  BY DEF SettlementInv, RequestsInv
<1>2. /\ next \in RequestRows
      /\ next.at = label /\ next.whom = request[q].whom
      /\ next.time = request[q].time /\ next.receivable = request[q].receivable
  BY <1>1 DEF RequestRows
<1>3. request' = [request EXCEPT ![q] = next]
  BY <1>1 DEF Step
<1> QED
  BY <1>2, <1>3
LEMMA BeginKeeps ==
  ASSUME SettlementInv, NEW q \in Requests,
         \/ \E time \in Times : BeginAllocate(q, time)
         \/ \E b \in Beneficiaries : BeginSettlement(q, b)
  PROVE  SettlementInv'
<1>1. ASSUME NEW time \in Times, BeginAllocate(q, time)
      PROVE  SettlementInv'
  <2> DEFINE next ==
        [NewRequest EXCEPT !.at = "claim", !.time = time, !.run = run.id]
  <2>1. run.id \in 0 .. MaxRuns
    BY DEF SettlementInv, RowsInv, SettlementTyped
  <2>2. next \in RequestRows /\ next.at = "claim" /\ next.time = time
    BY <2>1, NewRequestTyped DEF RequestRows, RequestLabels
  <2>3. /\ request' = [request EXCEPT ![q] = next]
        /\ UNCHANGED <<settlementTables, refunded, run>>
    BY <1>1 DEF BeginAllocate, settlementTables
  <2> HIDE DEF next
  <2> QED
    BY <2>2, <2>3, LabelKeeps DEF Known, TransferLabels
<1>2. ASSUME NEW b \in Beneficiaries, BeginSettlement(q, b)
      PROVE  SettlementInv'
  <2> DEFINE next == [NewRequest EXCEPT !.at = "open", !.whom = b]
  <2>1. next \in RequestRows /\ next.at = "open" /\ next.whom = b
    BY NewRequestTyped DEF RequestRows, RequestLabels, TransferLabels, Holder
  <2>2. /\ request' = [request EXCEPT ![q] = next]
        /\ UNCHANGED <<settlementTables, refunded, run>>
    BY <1>2 DEF BeginSettlement, settlementTables
  <2>3. allocation.status = "active" /\ Booked("split", "all")
    BY <1>2 DEF BeginSettlement, SettlementInv, RowsInv, LedgerBacksRows
  <2> HIDE DEF next
  <2> QED
    BY <2>1, <2>2, <2>3, LabelKeeps DEF Known, TransferLabels
<1> QED
  BY <1>1, <1>2

LEMMA ReadTransferKeeps ==
  ASSUME SettlementInv, NEW q \in Requests, NEW b \in Beneficiaries,
         NEW time \in Times, ReadTransfer(q, b, time)
  PROVE  SettlementInv'
<1>1. PICK label \in {"fail", "book settled", "book returned"} :
        /\ request' = [request EXCEPT ![q] =
             [NewRequest EXCEPT !.at = label, !.whom = b, !.time = time]]
        /\ label = "fail" => paidOut[b] = "failed"
        /\ label = "book settled" => WasPaid(b) /\ WasAccepted(b)
        /\ label = "book returned" =>
             paidOut[b] = "reversed" /\ transfer[b] = "settled"
  BY DEF ReadTransfer, WasPaid, WasAccepted
<1> DEFINE next == [NewRequest EXCEPT !.at = label, !.whom = b, !.time = time]
<1>2. /\ next \in RequestRows
      /\ next.at = label /\ next.whom = b /\ next.time = time
  BY NewRequestTyped DEF RequestRows, RequestLabels, TransferLabels, Holder
<1>3. /\ request' = [request EXCEPT ![q] = next]
      /\ UNCHANGED <<settlementTables, refunded, run>>
  BY <1>1 DEF ReadTransfer, settlementTables
<1> HIDE DEF next
<1>4. Known(next)
  BY <1>1, <1>2 DEF Known, TransferLabels
<1> QED
  BY <1>2, <1>3, <1>4, LabelKeeps

\* A request that is refused, or dies.
LEMMA RequestDiesKeeps ==
  ASSUME SettlementInv, NEW q \in Requests, RequestDies(q)
  PROVE  SettlementInv'
BY RestsKeeps DEF RequestDies, settlementTables

\* The list holds every payable that is settled, and none is under way.
LEMMA ListPayablesKeeps ==
  ASSUME SettlementInv, NEW q \in Requests, ListPayables(q)
  PROVE  SettlementInv'
<1> DEFINE next == [NewRequest EXCEPT !.at = "post", !.receivable = Settled]
<1>1. next \in RequestRows /\ next.at = "post" /\ next.receivable = Settled
  BY NewRequestTyped DEF RequestRows, RequestLabels, Settled
<1>2. /\ request' = [request EXCEPT ![q] = next]
      /\ UNCHANGED <<settlementTables, refunded, run>>
  BY DEF ListPayables, Listed, settlementTables
<1>3. Spares(Settled)
  BY DEF ListPayables, SettlementInv, RowsInv, PayablesFollow,
         SettlementTyped, TransferStatuses, Spares, Settled
<1> HIDE DEF next
<1>4. Known(next)
  BY <1>1 DEF Known, TransferLabels
<1> QED
  BY <1>1, <1>2, <1>3, <1>4, LabelKeeps

LEMMA CountPendingKeeps ==
  ASSUME SettlementInv, NEW q \in Requests, CountPending(q)
  PROVE  SettlementInv'
<1>1. CASE /\ allocation.status = "active"
           /\ \A b \in Beneficiaries : payable[b] # "transfer_pending"
  <2>1. Step(q, "reverse") /\ UNCHANGED <<settlementTables, refunded, run>>
    BY <1>1 DEF CountPending, settlementTables
  <2>2. PICK next \in RequestRows :
          request' = [request EXCEPT ![q] = next] /\ next.at = "reverse"
    BY <2>1, StepTo DEF RequestLabels
  <2>3. Booked("reversal", "all")
    BY DEF CountPending, At, SettlementInv, RequestsInv, Known
  <2>4. Known(next)
    BY <2>2, <2>3 DEF Known, TransferLabels
  <2>5. ~\E s \in Requests : At(s, "reverse")
    BY DEF CountPending
  <2> QED
    BY <1>1, <2>1, <2>2, <2>4, <2>5, LabelKeeps
<1>2. CASE ~(/\ allocation.status = "active"
             /\ \A b \in Beneficiaries : payable[b] # "transfer_pending")
  <2>1. Ends(q) /\ UNCHANGED <<settlementTables, refunded, run>>
    BY <1>2 DEF CountPending, settlementTables
  <2> QED
    BY <2>1, RestsKeeps
<1> QED
  BY <1>1, <1>2

-----------------------------------------------------------------------------
(* Steps that move the tables *)

\* The provider, the refund and the reconciliation.
LEMMA WorldKeeps ==
  ASSUME SettlementInv,
         \/ VerifyRefund
         \/ \E clean \in BOOLEAN : Reconcile(clean)
         \/ \E b \in Beneficiaries : ProviderMoves(b)
  PROVE  SettlementInv'
<1>1. UNCHANGED <<allocation, payable, transfer, ledger, request, raced>>
  BY DEF VerifyRefund, Reconcile, ProviderMoves
<1>2. /\ paidOut' \in [Beneficiaries -> PaidStatuses]
      /\ \A b \in Beneficiaries :
           /\ paidOut[b] \in {"none", "failed", "reversed"} =>
                paidOut'[b] = paidOut[b]
           /\ paidOut[b] = "paid" => paidOut'[b] \in {"paid", "reversed"}
           /\ paidOut[b] = "pending" => paidOut'[b] # "none"
  BY DEF VerifyRefund, Reconcile, ProviderMoves, SettlementInv, RowsInv,
         SettlementTyped, PaidStatuses
<1>3. SettlementTyped'
  <2>1. refunded' \in BOOLEAN
    BY DEF VerifyRefund, Reconcile, ProviderMoves, SettlementInv, RowsInv,
           SettlementTyped
  <2>2. run' \in [id : 0 .. MaxRuns, clean : BOOLEAN]
    <3>1. run \in [id : 0 .. MaxRuns, clean : BOOLEAN]
      BY DEF SettlementInv, RowsInv, SettlementTyped
    <3>2. run.id < MaxRuns => run.id + 1 \in 0 .. MaxRuns
      BY <3>1, RunsAssumption
    <3>3. UNCHANGED run \/ \E clean \in BOOLEAN : Reconcile(clean)
      BY DEF VerifyRefund, ProviderMoves
    <3> QED
      BY <3>1, <3>2, <3>3 DEF Reconcile
  <2> QED
    BY <1>1, <1>2, <2>1, <2>2 DEF SettlementInv, RowsInv, SettlementTyped
<1>4. LedgerBacksRows'
  BY <1>1, <1>2 DEF SettlementInv, RowsInv, LedgerBacksRows, Booked
<1>5. BookedWasPaid' /\ PayablesFollow'
  BY <1>1, <1>2 DEF SettlementInv, RowsInv, BookedWasPaid, PayablesFollow,
                    Booked, WasPaid, WasAccepted
<1>6. SettlementAdvances
  BY <1>1, <1>2 DEF SettlementAdvances, WasPaid, WasAccepted
<1>7. RequestsInv'
  BY <1>1, <1>6, OthersKnow DEF SettlementInv, RequestsInv
<1>8. ReverserAlone' /\ ReversalsSpare'
  BY <1>1 DEF SettlementInv, ReverserAlone, ReversalsSpare, At, Spares
<1> QED
  BY <1>3, <1>4, <1>5, <1>7, <1>8 DEF SettlementInv, RowsInv
\* An append that goes on with its entry, new or found there.
LEMMA AppendGoesOn ==
  ASSUME SettlementInv, NEW q \in Requests, NEW label \in RequestLabels,
         NEW kind \in {"split", "settled", "returned", "reversal"},
         NEW whom \in Holder, NEW time \in Times \cup {"refund"},
         NEW receivable \in SUBSET Beneficiaries,
         Append(q, Entry(kind, whom, time, receivable), label)
  PROVE  \/ Ends(q) /\ UNCHANGED <<settlementTables, refunded, run>>
         \/ /\ Step(q, label)
            /\ UNCHANGED <<refunded, run, allocation, payable, transfer,
                           paidOut, raced>>
            /\ ledger' = ledger \cup {Entry(kind, whom, time, receivable)}
            /\ ledger' \subseteq LedgerEntries
            /\ Booked(kind, whom)'
            /\ \A k, w : Booked(k, w)' <=>
                           Booked(k, w) \/ <<k, w>> = <<kind, whom>>
<1> DEFINE entry == Entry(kind, whom, time, receivable)
<1>1. entry \in LedgerEntries /\ entry.key = <<kind, whom>>
  BY DEF Entry, LedgerEntries
<1>2. ledger \subseteq LedgerEntries
  BY DEF SettlementInv, RowsInv, SettlementTyped
<1> HIDE DEF entry
<1>3. CASE {e \in ledger : e.key = entry.key} \subseteq {entry}
  <2>1. /\ ledger' = ledger \cup {entry} /\ Step(q, label)
        /\ UNCHANGED <<refunded, run, allocation, payable, transfer, paidOut,
                       raced>>
    BY <1>3 DEF Append, entry
  <2> QED
    BY <1>1, <1>2, <2>1 DEF Booked, entry
<1>4. CASE ~({e \in ledger : e.key = entry.key} \subseteq {entry})
  BY <1>4 DEF Append, settlementTables, entry
<1> QED
  BY <1>3, <1>4

\* An append under a key whose rows may be called booked.
LEMMA AppendKeeps ==
  ASSUME SettlementInv, NEW q \in Requests, NEW label \in RequestLabels,
         NEW kind \in {"split", "settled", "returned", "reversal"},
         NEW whom \in Holder, NEW time \in Times \cup {"refund"},
         NEW receivable \in SUBSET Beneficiaries,
         Append(q, Entry(kind, whom, time, receivable), label),
         kind = "settled" => WasPaid(whom) /\ WasAccepted(whom),
         kind = "returned" => Booked("settled", whom),
         kind = "reversal" =>
           At(q, "post") /\ receivable = request[q].receivable,
         label \notin {"post", "reverse"},
         \A next \in RequestRows :
           next.at = label /\ next.whom = request[q].whom /\ Booked(kind, whom)'
             => Known(next) \/ Known(next)'
  PROVE  SettlementInv'
<1>1. CASE Ends(q) /\ UNCHANGED <<settlementTables, refunded, run>>
  BY <1>1, RestsKeeps
<1>2. CASE /\ Step(q, label)
           /\ UNCHANGED <<refunded, run, allocation, payable, transfer,
                          paidOut, raced>>
           /\ ledger' = ledger \cup {Entry(kind, whom, time, receivable)}
           /\ ledger' \subseteq LedgerEntries
           /\ Booked(kind, whom)'
           /\ \A k, w : Booked(k, w)' <=>
                          Booked(k, w) \/ <<k, w>> = <<kind, whom>>
  <2>1. SettlementAdvances
    BY <1>2 DEF SettlementAdvances, WasPaid, WasAccepted
  <2>2. SettlementTyped'
    BY <1>2 DEF SettlementInv, RowsInv, SettlementTyped
  <2>3. LedgerBacksRows'
    BY <1>2 DEF SettlementInv, RowsInv, LedgerBacksRows
  <2>4. BookedWasPaid'
    <3> SUFFICES ASSUME NEW b \in Beneficiaries
                 PROVE  /\ Booked("settled", b)' => WasPaid(b) /\ WasAccepted(b)
                        /\ Booked("returned", b)' => Booked("settled", b)'
      BY <1>2 DEF BookedWasPaid, WasPaid, WasAccepted
    <3> QED
      BY <1>2 DEF SettlementInv, RowsInv, BookedWasPaid
  <2>5. PayablesFollow'
    BY <1>2 DEF SettlementInv, RowsInv, PayablesFollow
  <2>6. PICK next \in RequestRows :
          /\ request' = [request EXCEPT ![q] = next]
          /\ next.at = label /\ next.whom = request[q].whom
    BY <1>2, StepTo
  <2>7. Known(next)'
    BY <1>2, <2>1, <2>6, KnownStays
  <2>8. AllocationHeld(q) /\ StillSpares
    BY <1>2 DEF AllocationHeld, StillSpares
  <2>9. \A e \in ledger' \ ledger : e.key = <<"reversal", "all">> =>
          At(q, "post") /\ e.receivable = request[q].receivable
    BY <1>2 DEF Entry
  <2> QED
    BY <2>1, <2>2, <2>3, <2>4, <2>5, <2>6, <2>7, <2>8, <2>9, RequestStepKeeps
       DEF RowsInv
<1> QED
  BY <1>1, <1>2, AppendGoesOn

LEMMA AppendsKeep ==
  ASSUME SettlementInv, NEW q \in Requests,
         \/ AppendSplit(q) \/ AppendSettled(q) \/ AppendReturned(q)
         \/ AppendReversal(q)
  PROVE  SettlementInv'
<1>1. request[q] \in RequestRows /\ Known(request[q])
  BY DEF SettlementInv, RequestsInv
<1>2. CASE AppendSplit(q)
  <2>1. request[q].time \in Times
    BY <1>1, <1>2 DEF AppendSplit, At, Known
  <2>2. \A next \in RequestRows :
          next.at = "activate" /\ Booked("split", "all")' => Known(next)'
    BY DEF Known, TransferLabels
  <2>3. Append(q, Entry("split", "all", request[q].time, {}), "activate")
    BY <1>2 DEF AppendSplit
  <2>4. "all" \in Holder /\ {} \in SUBSET Beneficiaries
        /\ "activate" \in RequestLabels
    BY DEF Holder, RequestLabels
  <2> QED
    BY <2>1, <2>2, <2>3, <2>4, AppendKeeps
<1>3. CASE AppendSettled(q)
  <2>1. PICK b \in Beneficiaries : b = request[q].whom
    BY <1>1, <1>3 DEF AppendSettled, At, Known, TransferLabels
  <2>2. request[q].time \in Times /\ WasPaid(b) /\ WasAccepted(b)
    BY <1>1, <1>3, <2>1 DEF AppendSettled, At, Known
  <2>3. Append(q, Entry("settled", b, request[q].time, {}), "settle")
    BY <1>3, <2>1 DEF AppendSettled
  <2>4. \A next \in RequestRows :
          next.at = "settle" /\ next.whom = b /\ Booked("settled", b)'
            => Known(next)'
    BY <2>2, <2>3
       DEF Append, Known, TransferLabels, WasPaid, WasAccepted
  <2>5. b \in Holder /\ {} \in SUBSET Beneficiaries
        /\ "settle" \in RequestLabels
    BY DEF Holder, RequestLabels, TransferLabels
  <2> QED
    BY <2>1, <2>2, <2>3, <2>4, <2>5, AppendKeeps
<1>4. CASE AppendReturned(q)
  <2>1. PICK b \in Beneficiaries : b = request[q].whom
    BY <1>1, <1>4 DEF AppendReturned, At, Known, TransferLabels
  <2>2. /\ request[q].time \in Times /\ paidOut[b] = "reversed"
        /\ transfer[b] \in {"settled", "reversed"}
    BY <1>1, <1>4, <2>1 DEF AppendReturned, At, Known
  <2>3. Append(q, Entry("returned", b, request[q].time, {}), "return")
    BY <1>4, <2>1 DEF AppendReturned
  <2>4. Booked("settled", b)
    BY <2>2 DEF SettlementInv, RowsInv, LedgerBacksRows
  <2>5. \A next \in RequestRows :
          next.at = "return" /\ next.whom = b /\ Booked("returned", b)'
            => Known(next)'
    BY <2>2, <2>3 DEF Append, Known, TransferLabels
  <2>6. b \in Holder /\ {} \in SUBSET Beneficiaries
        /\ "return" \in RequestLabels
    BY DEF Holder, RequestLabels, TransferLabels
  <2> QED
    BY <2>1, <2>2, <2>3, <2>4, <2>5, <2>6, AppendKeeps
<1>5. CASE AppendReversal(q)
  <2>1. PICK X \in SUBSET Beneficiaries : X = request[q].receivable
    BY <1>1 DEF RequestRows
  <2>2. Append(q, Entry("reversal", "all", "refund", X), "count")
    BY <1>5, <2>1 DEF AppendReversal
  <2>3. \A next \in RequestRows :
          next.at = "count" /\ Booked("reversal", "all")' => Known(next)'
    BY DEF Known, TransferLabels
  <2>4. At(q, "post") /\ "all" \in Holder /\ "count" \in RequestLabels
    BY <1>5 DEF AppendReversal, Holder, RequestLabels
  <2> QED
    BY <2>1, <2>2, <2>3, <2>4, AppendKeeps
<1> QED
  BY <1>2, <1>3, <1>4, <1>5

-----------------------------------------------------------------------------
(* Steps that move the rows *)

\* The allocation is claimed before any transfer is.
LEMMA ClaimAllocationKeeps ==
  ASSUME SettlementInv, NEW q \in Requests, ClaimAllocation(q)
  PROVE  SettlementInv'
<1>1. UNCHANGED <<refunded, run, transfer, paidOut, ledger, raced>>
  BY DEF ClaimAllocation
<1>2. \/ UNCHANGED <<allocation, payable>>
      \/ /\ allocation.status = "none"
         /\ allocation' = [status |-> "claimed", run |-> run.id]
         /\ payable' = [b \in Beneficiaries |-> "blocked"]
  BY DEF ClaimAllocation
<1>3. SettlementTyped'
  <2>1. run.id \in 0 .. MaxRuns
    BY DEF SettlementInv, RowsInv, SettlementTyped
  <2> QED
    BY <1>1, <1>2, <2>1
       DEF SettlementInv, RowsInv, SettlementTyped, PayableStatuses
<1>4. LedgerBacksRows' /\ BookedWasPaid' /\ PayablesFollow'
  <2>1. LedgerBacksRows'
    BY <1>1, <1>2 DEF SettlementInv, RowsInv, LedgerBacksRows, Booked
  <2>2. BookedWasPaid'
    BY <1>1 DEF SettlementInv, RowsInv, BookedWasPaid, Booked, WasPaid,
                WasAccepted
  <2>3. PayablesFollow'
    BY <1>1, <1>2 DEF SettlementInv, RowsInv, PayablesFollow
  <2> QED
    BY <2>1, <2>2, <2>3
<1>5. SettlementAdvances /\ AllocationHeld(q) /\ StillSpares
  BY <1>1, <1>2 DEF SettlementAdvances, WasPaid, WasAccepted, AllocationHeld,
                    StillSpares
<1>6. CASE Ends(q)
  BY <1>1, <1>3, <1>4, <1>5, <1>6, EndsKeeps DEF RowsInv
<1>7. CASE Step(q, "append")
  <2>1. PICK next \in RequestRows :
          /\ request' = [request EXCEPT ![q] = next]
          /\ next.at = "append" /\ next.time = request[q].time
    BY <1>7, StepTo DEF RequestLabels
  <2>2. request[q].time \in Times
    BY DEF ClaimAllocation, At, SettlementInv, RequestsInv, Known
  <2>3. Known(next)'
    BY <2>1, <2>2 DEF Known, TransferLabels
  <2> QED
    BY <1>1, <1>3, <1>4, <1>5, <2>1, <2>3, RequestStepKeeps DEF RowsInv
<1> QED
  BY <1>6, <1>7 DEF ClaimAllocation

LEMMA ActivateAllocationKeeps ==
  ASSUME SettlementInv, NEW q \in Requests, ActivateAllocation(q)
  PROVE  SettlementInv'
<1>1. Ends(q) /\ UNCHANGED <<refunded, run, transfer, paidOut, ledger, raced>>
  BY DEF ActivateAllocation
<1>2. \/ UNCHANGED <<allocation, payable>>
      \/ /\ allocation.status = "claimed"
         /\ allocation' = [allocation EXCEPT !.status = "active"]
         /\ payable' = [b \in Beneficiaries |->
                          IF payable[b] = "blocked" THEN "ready"
                          ELSE payable[b]]
  BY DEF ActivateAllocation
<1>3. SettlementTyped'
  BY <1>1, <1>2 DEF SettlementInv, RowsInv, SettlementTyped, PayableStatuses
<1>4. allocation.status = "claimed" /\ ~UNCHANGED allocation =>
        allocation'.status = "active"
  BY <1>2 DEF SettlementInv, RowsInv, SettlementTyped
<1>5. Booked("split", "all")
  BY DEF ActivateAllocation, At, SettlementInv, RequestsInv, Known
<1>6. LedgerBacksRows'
  BY <1>1, <1>2, <1>4, <1>5 DEF SettlementInv, RowsInv, LedgerBacksRows, Booked
<1>7. BookedWasPaid'
  BY <1>1 DEF SettlementInv, RowsInv, BookedWasPaid, Booked, WasPaid,
              WasAccepted
<1>8. PayablesFollow'
  BY <1>1, <1>2, <1>4 DEF SettlementInv, RowsInv, PayablesFollow
<1>9. SettlementAdvances /\ AllocationHeld(q) /\ StillSpares
  BY <1>1, <1>2, <1>4 DEF SettlementAdvances, WasPaid, WasAccepted,
                          AllocationHeld, StillSpares
<1> QED
  BY <1>1, <1>3, <1>6, <1>7, <1>8, <1>9, EndsKeeps DEF RowsInv

\* A transfer that is claimed behind a reversal is the race the code has.
LEMMA ClaimSettlementKeeps ==
  ASSUME SettlementInv, NEW q \in Requests, ClaimSettlement(q)
  PROVE  SettlementInv'
<1>1. PICK b \in Beneficiaries : b = request[q].whom
  BY DEF ClaimSettlement, At, SettlementInv, RequestsInv, Known, TransferLabels
<1>2. Booked("split", "all") /\ allocation.status # "none"
  BY DEF ClaimSettlement, At, SettlementInv, RequestsInv, Known
<1>3. UNCHANGED <<refunded, run, allocation, paidOut, ledger>>
  BY DEF ClaimSettlement
<1>4. \/ UNCHANGED <<transfer, payable, raced>>
      \/ /\ transfer[b] = "none"
         /\ transfer' = [transfer EXCEPT ![b] = "claimed"]
         /\ payable' = [payable EXCEPT ![b] = "transfer_pending"]
         /\ raced' = (raced \/ ReversalUnderWay)
  BY <1>1 DEF ClaimSettlement
<1>5. SettlementTyped'
  BY <1>3, <1>4 DEF SettlementInv, RowsInv, SettlementTyped, PayableStatuses,
                    TransferStatuses
<1>6. LedgerBacksRows'
  BY <1>3, <1>4 DEF SettlementInv, RowsInv, SettlementTyped, LedgerBacksRows,
                    Booked
<1>7. BookedWasPaid'
  BY <1>3, <1>4 DEF SettlementInv, RowsInv, SettlementTyped, BookedWasPaid,
                    Booked, WasPaid, WasAccepted
<1>8. PayablesFollow'
  BY <1>2, <1>3, <1>4 DEF SettlementInv, RowsInv, SettlementTyped,
                          PayablesFollow
<1>9. SettlementAdvances
  BY <1>3, <1>4 DEF SettlementInv, RowsInv, SettlementTyped,
                    SettlementAdvances, WasPaid, WasAccepted
<1>10. AllocationHeld(q)
  BY <1>3 DEF AllocationHeld
<1>11. StillSpares
  BY <1>4 DEF StillSpares
<1>12. CASE Ends(q)
  BY <1>3, <1>5, <1>6, <1>7, <1>8, <1>9, <1>10, <1>11, <1>12, EndsKeeps
     DEF RowsInv
<1>13. CASE Step(q, "transfer")
  <2>1. PICK next \in RequestRows :
          /\ request' = [request EXCEPT ![q] = next]
          /\ next.at = "transfer" /\ next.whom = b
    <3>1. "transfer" \in RequestLabels
      BY DEF RequestLabels, TransferLabels
    <3> QED
      BY <1>1, <1>13, <3>1, StepTo
  <2>2. Booked("split", "all")' /\ allocation'.status # "none"
    BY <1>2, <1>3 DEF Booked
  <2>3. Known(next)'
    BY <2>1, <2>2 DEF Known, TransferLabels
  <2> QED
    BY <1>3, <1>5, <1>6, <1>7, <1>8, <1>9, <1>10, <1>11, <2>1, <2>3,
       RequestStepKeeps
       DEF RowsInv
<1> QED
  BY <1>12, <1>13 DEF ClaimSettlement

LEMMA RequestTransferKeeps ==
  ASSUME SettlementInv, NEW q \in Requests, RequestTransfer(q)
  PROVE  SettlementInv'
<1>1. PICK b \in Beneficiaries : b = request[q].whom
  BY DEF RequestTransfer, At, SettlementInv, RequestsInv, Known, TransferLabels
<1>2. Booked("split", "all") /\ allocation.status # "none"
  BY DEF RequestTransfer, At, SettlementInv, RequestsInv, Known
<1>3. UNCHANGED <<refunded, run, allocation, payable, transfer, ledger, raced>>
  BY DEF RequestTransfer
<1>4. /\ paidOut' \in [Beneficiaries -> PaidStatuses]
      /\ \A c \in Beneficiaries :
           paidOut[c] # "none" => paidOut'[c] = paidOut[c]
  BY <1>1 DEF RequestTransfer, SettlementInv, RowsInv, SettlementTyped,
              PaidStatuses
<1>5. SettlementTyped'
  BY <1>3, <1>4 DEF SettlementInv, RowsInv, SettlementTyped
<1>6. LedgerBacksRows'
  BY <1>2, <1>3, <1>4 DEF SettlementInv, RowsInv, LedgerBacksRows, Booked
<1>7. BookedWasPaid' /\ PayablesFollow'
  BY <1>3, <1>4 DEF SettlementInv, RowsInv, BookedWasPaid, PayablesFollow,
                    Booked, WasPaid, WasAccepted
<1>8. SettlementAdvances /\ AllocationHeld(q) /\ StillSpares
  BY <1>3, <1>4 DEF SettlementAdvances, WasPaid, WasAccepted, AllocationHeld,
                    StillSpares
<1>9. PICK next \in RequestRows :
        /\ request' = [request EXCEPT ![q] = next]
        /\ next.at = "accept" /\ next.whom = b
  <2>1. "accept" \in RequestLabels /\ Step(q, "accept")
    BY DEF RequestTransfer, RequestLabels, TransferLabels
  <2> QED
    BY <1>1, <2>1, StepTo
<1>10. Known(next)'
  <2>1. Booked("split", "all")' /\ allocation'.status # "none"
    BY <1>2, <1>3 DEF Booked
  <2> QED
    BY <1>9, <2>1 DEF Known, TransferLabels
<1> QED
  BY <1>3, <1>5, <1>6, <1>7, <1>8, <1>9, <1>10, RequestStepKeeps DEF RowsInv

LEMMA AcceptProviderKeeps ==
  ASSUME SettlementInv, NEW q \in Requests, AcceptProvider(q)
  PROVE  SettlementInv'
<1>1. PICK b \in Beneficiaries : b = request[q].whom
  BY DEF AcceptProvider, At, SettlementInv, RequestsInv, Known, TransferLabels
<1>2. Ends(q) /\ UNCHANGED <<refunded, run, allocation, payable, paidOut,
                             ledger, raced>>
  BY DEF AcceptProvider
<1>3. \/ UNCHANGED transfer
      \/ /\ transfer[b] = "claimed"
         /\ transfer' = [transfer EXCEPT ![b] = "provider_accepted"]
  BY <1>1 DEF AcceptProvider, SettlementInv, RowsInv, SettlementTyped
<1>4. SettlementTyped'
  BY <1>2, <1>3 DEF SettlementInv, RowsInv, SettlementTyped, TransferStatuses
<1>5. LedgerBacksRows'
  BY <1>2, <1>3 DEF SettlementInv, RowsInv, SettlementTyped, LedgerBacksRows,
                    Booked
<1>6. BookedWasPaid' /\ PayablesFollow'
  BY <1>2, <1>3 DEF SettlementInv, RowsInv, SettlementTyped, BookedWasPaid,
                    PayablesFollow, Booked, WasPaid, WasAccepted
<1>7. SettlementAdvances /\ AllocationHeld(q) /\ StillSpares
  BY <1>2, <1>3 DEF SettlementInv, RowsInv, SettlementTyped,
                    SettlementAdvances, WasPaid, WasAccepted, AllocationHeld,
                    StillSpares
<1> QED
  BY <1>2, <1>4, <1>5, <1>6, <1>7, EndsKeeps DEF RowsInv

\* The row follows what the request has booked, or what the provider refused.
LEMMA FinalizeSettlementKeeps ==
  ASSUME SettlementInv, NEW q \in Requests, FinalizeSettlement(q)
  PROVE  SettlementInv'
<1>1. PICK outcome \in Outcomes :
        /\ At(q, outcome[1])
        /\ IF transfer[request[q].whom] = outcome[3]
           THEN /\ transfer' = [transfer EXCEPT ![request[q].whom] = outcome[2]]
                /\ payable' = [payable EXCEPT ![request[q].whom] = outcome[2]]
           ELSE UNCHANGED <<transfer, payable>>
  BY DEF FinalizeSettlement
<1>2. PICK b \in Beneficiaries : b = request[q].whom
  <2>1. outcome[1] \in {"fail", "settle", "return"}
    BY DEF Outcomes
  <2> QED
    BY <1>1, <2>1 DEF At, SettlementInv, RequestsInv, Known, TransferLabels
<1>3. Ends(q) /\ UNCHANGED <<refunded, run, allocation, paidOut, ledger, raced>>
  BY DEF FinalizeSettlement
<1>4. \/ UNCHANGED <<transfer, payable>>
      \/ \E old, new \in TransferStatuses :
           /\ transfer[b] = old
           /\ transfer' = [transfer EXCEPT ![b] = new]
           /\ payable' = [payable EXCEPT ![b] = new]
           /\ \/ /\ old = "provider_accepted" /\ new = "failed"
                 /\ paidOut[b] = "failed"
              \/ /\ old = "provider_accepted" /\ new = "settled"
                 /\ Booked("settled", b) /\ WasPaid(b)
              \/ /\ old = "settled" /\ new = "reversed"
                 /\ Booked("returned", b) /\ paidOut[b] = "reversed"
  <2>1. Known(request[q])
    BY DEF SettlementInv, RequestsInv
  <2> QED
    <3>1. CASE outcome = <<"fail", "failed", "provider_accepted">>
      BY <1>1, <1>2, <2>1, <3>1 DEF At, Known, TransferStatuses
    <3>2. CASE outcome = <<"settle", "settled", "provider_accepted">>
      BY <1>1, <1>2, <2>1, <3>2 DEF At, Known, TransferStatuses, WasPaid
    <3>3. CASE outcome = <<"return", "reversed", "settled">>
      BY <1>1, <1>2, <2>1, <3>3 DEF At, Known, TransferStatuses
    <3> QED
      BY <3>1, <3>2, <3>3 DEF Outcomes
<1>5. CASE UNCHANGED <<transfer, payable>>
  BY <1>3, <1>5, RestsKeeps DEF settlementTables
<1>6. ASSUME NEW old \in TransferStatuses, NEW new \in TransferStatuses,
             transfer[b] = old,
             transfer' = [transfer EXCEPT ![b] = new],
             payable' = [payable EXCEPT ![b] = new],
             \/ /\ old = "provider_accepted" /\ new = "failed"
                /\ paidOut[b] = "failed"
             \/ /\ old = "provider_accepted" /\ new = "settled"
                /\ Booked("settled", b) /\ WasPaid(b)
             \/ /\ old = "settled" /\ new = "reversed"
                /\ Booked("returned", b) /\ paidOut[b] = "reversed"
      PROVE  SettlementInv'
  <2>1. /\ transfer' \in [Beneficiaries -> TransferStatuses]
        /\ transfer'[b] = new /\ payable'[b] = new
        /\ \A c \in Beneficiaries \ {b} :
             transfer'[c] = transfer[c] /\ payable'[c] = payable[c]
    BY <1>6 DEF SettlementInv, RowsInv, SettlementTyped
  <2>2. SettlementTyped'
    BY <1>3, <1>6, <2>1 DEF SettlementInv, RowsInv, SettlementTyped,
                            PayableStatuses
  <2>3. LedgerBacksRows'
    BY <1>3, <1>6, <2>1 DEF SettlementInv, RowsInv, LedgerBacksRows, Booked,
                            WasPaid
  <2>4. BookedWasPaid'
    BY <1>3, <1>6, <2>1 DEF SettlementInv, RowsInv, BookedWasPaid, Booked,
                            WasPaid, WasAccepted
  <2>5. PayablesFollow'
    BY <1>3, <1>6, <2>1 DEF SettlementInv, RowsInv, PayablesFollow
  <2>6. SettlementAdvances
    BY <1>3, <1>6, <2>1 DEF SettlementAdvances, WasPaid, WasAccepted
  <2>7. AllocationHeld(q) /\ StillSpares
    BY <1>3, <1>6, <2>1 DEF AllocationHeld, StillSpares
  <2> QED
    BY <1>3, <2>2, <2>3, <2>4, <2>5, <2>6, <2>7, EndsKeeps DEF RowsInv
<1> QED
  BY <1>4, <1>5, <1>6

LEMMA ReverseAllocationKeeps ==
  ASSUME SettlementInv, NEW q \in Requests, ReverseAllocation(q)
  PROVE  SettlementInv'
<1>1. Ends(q) /\ UNCHANGED <<refunded, run, transfer, paidOut, ledger, raced>>
  BY DEF ReverseAllocation
<1>2. /\ allocation.status = "active" /\ Booked("reversal", "all")
      /\ Booked("split", "all") /\ At(q, "reverse")
  BY DEF ReverseAllocation, At, SettlementInv, RowsInv, LedgerBacksRows,
         ReverserAlone, RequestsInv, Known
<1>3. /\ allocation' = [allocation EXCEPT !.status = "reversed"]
      /\ payable' = [b \in Beneficiaries |-> "reversed"]
  BY DEF ReverseAllocation
<1>4. SettlementTyped' /\ allocation'.status = "reversed"
  BY <1>1, <1>3 DEF SettlementInv, RowsInv, SettlementTyped, PayableStatuses
<1>5. LedgerBacksRows'
  BY <1>1, <1>2, <1>4 DEF SettlementInv, RowsInv, LedgerBacksRows, Booked
<1>6. BookedWasPaid' /\ PayablesFollow'
  BY <1>1, <1>4 DEF SettlementInv, RowsInv, BookedWasPaid, PayablesFollow,
                    Booked, WasPaid, WasAccepted
<1>7. SettlementAdvances /\ AllocationHeld(q) /\ StillSpares
  BY <1>1, <1>2, <1>4 DEF SettlementAdvances, WasPaid, WasAccepted,
                          AllocationHeld, StillSpares
<1> QED
  BY <1>1, <1>4, <1>5, <1>6, <1>7, EndsKeeps DEF RowsInv

LEMMA SettlementNextKeeps ==
  SettlementInv /\ [SettlementNext]_settlementVars => SettlementInv'
<1> SUFFICES ASSUME SettlementInv, [SettlementNext]_settlementVars
             PROVE  SettlementInv'
  OBVIOUS
<1>1. CASE UNCHANGED settlementVars
  <2>1. UNCHANGED <<settlementTables, refunded, run, request>>
    BY <1>1 DEF settlementVars, settlementTables
  <2>2. RowsInv' /\ SettlementAdvances
    BY <2>1, SameTablesKeep
  <2>3. RequestsInv'
    BY <2>1, <2>2, OthersKnow DEF SettlementInv, RequestsInv
  <2>4. ReverserAlone' /\ ReversalsSpare'
    BY <2>1 DEF settlementTables, SettlementInv, ReverserAlone, ReversalsSpare,
                At, Spares
  <2> QED
    BY <2>2, <2>3, <2>4 DEF SettlementInv
<1>2. ASSUME NEW q \in Requests,
             \/ RequestDies(q)
             \/ \E time \in Times :
                  \/ BeginAllocate(q, time)
                  \/ \E b \in Beneficiaries : ReadTransfer(q, b, time)
             \/ ClaimAllocation(q) \/ AppendSplit(q) \/ ActivateAllocation(q)
             \/ \E b \in Beneficiaries : BeginSettlement(q, b)
             \/ ClaimSettlement(q) \/ RequestTransfer(q) \/ AcceptProvider(q)
             \/ AppendSettled(q) \/ AppendReturned(q) \/ FinalizeSettlement(q)
             \/ ListPayables(q) \/ AppendReversal(q) \/ CountPending(q)
             \/ ReverseAllocation(q)
      PROVE  SettlementInv'
  BY <1>2, RequestDiesKeeps, BeginKeeps, ReadTransferKeeps,
     ClaimAllocationKeeps, AppendsKeep, ActivateAllocationKeeps,
     ClaimSettlementKeeps, RequestTransferKeeps, AcceptProviderKeeps,
     FinalizeSettlementKeeps, ListPayablesKeeps, CountPendingKeeps,
     ReverseAllocationKeeps
<1> QED
  BY <1>1, <1>2, WorldKeeps DEF SettlementNext

-----------------------------------------------------------------------------
(* Theorems *)

\* In every state a request knows what its next statement relies on, and a
\* reversal under way takes no share back that was paid out.
THEOREM SettlementInvariant == SettlementSpec => []SettlementInv
BY SettlementInitHolds, SettlementNextKeeps, PTL DEF SettlementSpec

\* Rows, entries and requests keep their types.
THEOREM SettlementTypes == SettlementSpec => []SettlementTypeOK
<1>1. SettlementInv => SettlementTypeOK
  BY DEF SettlementInv, RowsInv, SettlementTyped, RequestsInv, RequestRows,
         LedgerEntries, PayableStatuses, TransferStatuses, PaidStatuses,
         SettlementTypeOK
<1> QED
  BY <1>1, SettlementInvariant, PTL

\* No row runs ahead of the ledger or of the provider, whichever requests
\* interleave or die between their steps.
THEOREM RowsAreBacked == SettlementSpec => []LedgerBacksRows
<1>1. SettlementInv => LedgerBacksRows
  BY DEF SettlementInv, RowsInv
<1> QED
  BY <1>1, SettlementInvariant, PTL

\* A reversal takes back what was not paid out, and what was paid out only
\* after it was returned.
LEMMA NotOverdrawn == SettlementInv => PayableNeverOverdrawn
<1> SUFFICES ASSUME SettlementInv, ~raced, Booked("split", "all"),
                    NEW b \in Beneficiaries
             PROVE  Liability(b) \in {0, 1}
  BY DEF PayableNeverOverdrawn
<1> DEFINE S == Booked("settled", b)
           R == Booked("returned", b)
           V == \E e \in ledger : e.key = <<"reversal", "all">>
                                  /\ b \notin e.receivable
<1>1. R => S
  BY DEF SettlementInv, RowsInv, BookedWasPaid
<1>2. V /\ S => R
  <2>1. V => transfer[b] \in {"none", "failed", "reversed"}
    BY DEF SettlementInv, ReversalsSpare, Spares
  <2>2. S => WasAccepted(b)
    BY DEF SettlementInv, RowsInv, BookedWasPaid
  <2>3. transfer[b] = "reversed" => R
    BY DEF SettlementInv, RowsInv, LedgerBacksRows
  <2> QED
    BY <2>1, <2>2, <2>3 DEF WasAccepted
<1>3. Liability(b) = 1 - Posted(S) + Posted(R) - Posted(V)
  BY DEF Liability, Posted
<1> HIDE DEF S, R, V
<1> QED
  BY <1>1, <1>2, <1>3 DEF Posted

\* No payable account is overdrawn while no transfer was claimed behind a
\* reversal, for any interleaving of the two.
THEOREM NeverOverdrawn == SettlementSpec => []PayableNeverOverdrawn
BY NotOverdrawn, SettlementInvariant, PTL
=============================================================================
