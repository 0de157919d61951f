----------------------------- MODULE Settlement -----------------------------
(***************************************************************************)
(* The split of one confirmed payment among its beneficiaries, the         *)
(* transfers that pay them, and the reversal of the split after a refund.  *)
(* Each method of the repository and each append to the ledger is one      *)
(* transaction and one action; what a request reads it keeps, and several  *)
(* requests interleave and may die between any two of their steps.  The    *)
(* reversal counts the open transfers by a read that takes no lock, so it  *)
(* is two actions.                                                         *)
(*                                                                         *)
(* Amounts are left out: the plan is fixed and its postings are one unit   *)
(* per beneficiary.  An entry of the ledger is what an append compares:    *)
(* its external key, its time and, for the reversal of the split, the      *)
(* beneficiaries whose share it takes from their receivable account.       *)
(***************************************************************************)
EXTENDS Integers, FiniteSets

CONSTANTS
  Beneficiaries,  \* one payable, and at most one settlement, for each
  Requests,       \* requests being served
  Times,          \* readings of the clock, and times of snapshots
  MaxRuns         \* bound: reconciliation runs

ASSUME RunsAssumption == MaxRuns \in Nat

VARIABLES
  refunded,    \* the payment's refund is persisted and booked
  run,         \* the latest reconciliation run, and whether it is clean
  allocation,  \* financial_allocations
  payable,     \* status in financial_payables
  transfer,    \* status in financial_settlements
  paidOut,     \* the provider's transfer, external
  ledger,      \* the entries of these three kinds
  request,     \* what each request is doing
  raced        \* a transfer was claimed behind the back of a reversal

settlementVars ==
  <<refunded, run, allocation, payable, transfer, paidOut, ledger, request,
    raced>>

Entry(kind, whom, time, receivable) ==
  [key |-> <<kind, whom>>, time |-> time, receivable |-> receivable]
Booked(kind, whom) == \E e \in ledger : e.key = <<kind, whom>>

NewRequest == [at |-> "start", whom |-> "all", time |-> "none", run |-> 0,
               receivable |-> {}]

SettlementInit ==
  /\ refunded = FALSE
  /\ run = [id |-> 0, clean |-> FALSE]
  /\ allocation = [status |-> "none", run |-> 0]
  /\ payable = [b \in Beneficiaries |-> "none"]
  /\ transfer = [b \in Beneficiaries |-> "none"]
  /\ paidOut = [b \in Beneficiaries |-> "none"]
  /\ ledger = {}
  /\ request = [q \in Requests |-> NewRequest]
  /\ raced = FALSE

-----------------------------------------------------------------------------
(* The world around, and the steps of a request *)

VerifyRefund ==
  /\ ~refunded /\ refunded' = TRUE
  /\ UNCHANGED <<run, allocation, payable, transfer, paidOut, ledger, request,
                 raced>>

Reconcile(clean) ==
  /\ run.id < MaxRuns
  /\ run' = [id |-> run.id + 1, clean |-> clean]
  /\ UNCHANGED <<refunded, allocation, payable, transfer, paidOut, ledger,
                 request, raced>>

\* The provider carries out the transfer or fails it, and may take it back.
ProviderMoves(b) ==
  /\ \/ paidOut[b] = "pending"
        /\ \E s \in {"paid", "failed"} : paidOut' = [paidOut EXCEPT ![b] = s]
     \/ paidOut[b] = "paid" /\ paidOut' = [paidOut EXCEPT ![b] = "reversed"]
  /\ UNCHANGED <<refunded, run, allocation, payable, transfer, ledger, request,
                 raced>>

At(q, label) == request[q].at = label
Step(q, label) == request' = [request EXCEPT ![q].at = label]

\* With an answer, or with an error thrown to the caller.
Ends(q) == request' = [request EXCEPT ![q] = NewRequest]

RequestDies(q) ==
  /\ ~At(q, "start")
  /\ Ends(q)
  /\ UNCHANGED <<refunded, run, allocation, payable, transfer, paidOut, ledger,
                 raced>>

\* An append under a key that is taken is a replay if all it compares is equal,
\* and a conflict that ends the request if not.
Append(q, entry, label) ==
  /\ IF {e \in ledger : e.key = entry.key} \subseteq {entry}
     THEN ledger' = ledger \cup {entry} /\ Step(q, label)
     ELSE Ends(q) /\ UNCHANGED ledger
  /\ UNCHANGED <<refunded, run, allocation, payable, transfer, paidOut, raced>>

-----------------------------------------------------------------------------
(* allocate *)

BeginAllocate(q, time) ==
  /\ At(q, "start") /\ ~refunded /\ run.id > 0
  /\ request' = [request EXCEPT ![q] =
       [NewRequest EXCEPT !.at = "claim", !.time = time, !.run = run.id]]
  /\ UNCHANGED <<refunded, run, allocation, payable, transfer, paidOut, ledger,
                 raced>>

ClaimAllocation(q) ==
  LET reconciled == request[q].run = run.id /\ run.clean
      absent == allocation.status = "none"
      replay == allocation.run = request[q].run /\ allocation.status # "active"
  IN
  /\ At(q, "claim")
  /\ IF reconciled /\ absent
     THEN /\ allocation' = [status |-> "claimed", run |-> run.id]
          /\ payable' = [b \in Beneficiaries |-> "blocked"]
     ELSE UNCHANGED <<allocation, payable>>
  /\ IF reconciled /\ (absent \/ replay) THEN Step(q, "append") ELSE Ends(q)
  /\ UNCHANGED <<refunded, run, transfer, paidOut, ledger, raced>>

AppendSplit(q) ==
  /\ At(q, "append")
  /\ Append(q, Entry("split", "all", request[q].time, {}), "activate")

ActivateAllocation(q) ==
  /\ At(q, "activate")
  /\ IF allocation.status = "claimed"
     THEN /\ allocation' = [allocation EXCEPT !.status = "active"]
          /\ payable' = [b \in Beneficiaries |->
                           IF payable[b] = "blocked" THEN "ready"
                           ELSE payable[b]]
     ELSE UNCHANGED <<allocation, payable>>
  /\ Ends(q)
  /\ UNCHANGED <<refunded, run, transfer, paidOut, ledger, raced>>

-----------------------------------------------------------------------------
(* requestSettlement *)

BeginSettlement(q, b) ==
  /\ At(q, "start") /\ allocation.status = "active"
  /\ request' = [request EXCEPT ![q] =
                   [NewRequest EXCEPT !.at = "open", !.whom = b]]
  /\ UNCHANGED <<refunded, run, allocation, payable, transfer, paidOut, ledger,
                 raced>>

\* A reversal has read the payables, or has posted what it read.
ReversalUnderWay ==
  \/ Booked("reversal", "all")
  \/ \E q \in Requests : request[q].at \in {"post", "count", "reverse"}

\* The payable's row is locked, the allocation is not looked at again.
ClaimSettlement(q) ==
  LET b == request[q].whom IN
  /\ At(q, "open")
  /\ IF transfer[b] = "none" /\ payable[b] = "ready"
     THEN /\ transfer' = [transfer EXCEPT ![b] = "claimed"]
          /\ payable' = [payable EXCEPT ![b] = "transfer_pending"]
          /\ raced' = (raced \/ ReversalUnderWay)
     ELSE UNCHANGED <<transfer, payable, raced>>
  /\ IF transfer'[b] = "claimed" THEN Step(q, "transfer") ELSE Ends(q)
  /\ UNCHANGED <<refunded, run, allocation, paidOut, ledger>>

\* The provider answers a repeated request under the key with the first one.
RequestTransfer(q) ==
  LET b == request[q].whom IN
  /\ At(q, "transfer")
  /\ paidOut' = [paidOut EXCEPT ![b] = IF @ = "none" THEN "pending" ELSE @]
  /\ Step(q, "accept")
  /\ UNCHANGED <<refunded, run, allocation, payable, transfer, ledger, raced>>

AcceptProvider(q) ==
  LET b == request[q].whom IN
  /\ At(q, "accept")
  /\ transfer' = [transfer EXCEPT ![b] =
                    IF @ = "claimed" THEN "provider_accepted" ELSE @]
  /\ Ends(q)
  /\ UNCHANGED <<refunded, run, allocation, payable, paidOut, ledger, raced>>

-----------------------------------------------------------------------------
(* verifySettlement and verifySettlementReversal *)

\* The snapshot is read, and its outcome is what the request goes on with.  A
\* row that moved on between its own read and this one changes nothing below.
ReadTransfer(q, b, time) ==
  /\ At(q, "start")
  /\ \E label \in
       CASE transfer[b] = "provider_accepted" /\ paidOut[b] = "failed"
              -> {"fail"}
         [] transfer[b] = "provider_accepted" /\ paidOut[b] = "paid"
              -> {"book settled"}
         [] transfer[b] = "settled" /\ paidOut[b] = "reversed"
              -> {"book returned"}
         [] OTHER -> {} :
       request' = [request EXCEPT ![q] =
         [NewRequest EXCEPT !.at = label, !.whom = b, !.time = time]]
  /\ UNCHANGED <<refunded, run, allocation, payable, transfer, paidOut, ledger,
                 raced>>

\* A slip: the append is not awaited, and its failure is not seen.
BookInBackground(q) ==
  /\ At(q, "book settled")
  /\ Step(q, "settle")
  /\ UNCHANGED <<refunded, run, allocation, payable, transfer, paidOut, ledger,
                 raced>>

AppendSettled(q) ==
  /\ At(q, "book settled")
  /\ Append(q, Entry("settled", request[q].whom, request[q].time, {}),
            "settle")

AppendReturned(q) ==
  /\ At(q, "book returned")
  /\ Append(q, Entry("returned", request[q].whom, request[q].time, {}),
            "return")

\* The status the request brings, and the one the row must be in.
Outcomes ==
  {<<"fail", "failed", "provider_accepted">>,
   <<"settle", "settled", "provider_accepted">>,
   <<"return", "reversed", "settled">>}

FinalizeSettlement(q) ==
  LET b == request[q].whom IN
  /\ \E outcome \in Outcomes :
       /\ At(q, outcome[1])
       /\ IF transfer[b] = outcome[3]
          THEN /\ transfer' = [transfer EXCEPT ![b] = outcome[2]]
               /\ payable' = [payable EXCEPT ![b] = outcome[2]]
          ELSE UNCHANGED <<transfer, payable>>
  /\ Ends(q)
  /\ UNCHANGED <<refunded, run, allocation, paidOut, ledger, raced>>

-----------------------------------------------------------------------------
(* reverseAllocationForRefund *)

Listed(q, transfers) ==
  request' = [request EXCEPT ![q] =
    [NewRequest EXCEPT !.at = "post", !.receivable = transfers]]

Settled == {b \in Beneficiaries : payable[b] = "settled"}

\* A slip: the open transfers are left to the repository's own check.
ListAnyway(q) ==
  /\ At(q, "start") /\ refunded
  /\ allocation.status \in {"claimed", "active"}
  /\ Listed(q, Settled)
  /\ UNCHANGED <<refunded, run, allocation, payable, transfer, paidOut, ledger,
                 raced>>

\* The allocation need not be active, only not reversed yet.
ListPayables(q) ==
  /\ At(q, "start") /\ refunded
  /\ allocation.status \in {"claimed", "active"}
  /\ \A b \in Beneficiaries : payable[b] # "transfer_pending"
  /\ Listed(q, Settled)
  /\ UNCHANGED <<refunded, run, allocation, payable, transfer, paidOut, ledger,
                 raced>>

\* Its time is the refund's, so a replay differs only by the accounts.
AppendReversal(q) ==
  /\ At(q, "post")
  /\ Append(q, Entry("reversal", "all", "refund", request[q].receivable),
            "count")

CountPending(q) ==
  /\ At(q, "count") /\ ~\E other \in Requests : At(other, "reverse")
  /\ IF /\ allocation.status = "active"
        /\ \A b \in Beneficiaries : payable[b] # "transfer_pending"
     THEN Step(q, "reverse")
     ELSE Ends(q)
  /\ UNCHANGED <<refunded, run, allocation, payable, transfer, paidOut, ledger,
                 raced>>

\* The allocation's row is locked since the count, the payables' are not.
ReverseAllocation(q) ==
  /\ At(q, "reverse")
  /\ allocation' = [allocation EXCEPT !.status = "reversed"]
  /\ payable' = [b \in Beneficiaries |-> "reversed"]
  /\ Ends(q)
  /\ UNCHANGED <<refunded, run, transfer, paidOut, ledger, raced>>

-----------------------------------------------------------------------------

SettlementNext ==
  \/ VerifyRefund
  \/ \E clean \in BOOLEAN : Reconcile(clean)
  \/ \E b \in Beneficiaries : ProviderMoves(b)
  \/ \E q \in Requests :
       \/ RequestDies(q)
       \/ \E time \in Times :
            \/ BeginAllocate(q, time)
            \/ \E b \in Beneficiaries : ReadTransfer(q, b, time)
       \/ ClaimAllocation(q) \/ AppendSplit(q) \/ ActivateAllocation(q)
       \/ \E b \in Beneficiaries : BeginSettlement(q, b)
       \/ ClaimSettlement(q) \/ RequestTransfer(q) \/ AcceptProvider(q)
       \/ AppendSettled(q) \/ AppendReturned(q) \/ FinalizeSettlement(q)
       \/ ListPayables(q) \/ AppendReversal(q) \/ CountPending(q)
       \/ ReverseAllocation(q)

SettlementSpec == SettlementInit /\ [][SettlementNext]_settlementVars

-----------------------------------------------------------------------------
(* Properties *)

Holder == Beneficiaries \cup {"all"}

\* Rows, entries and requests keep their types.
SettlementTypeOK ==
  /\ refunded \in BOOLEAN /\ raced \in BOOLEAN
  /\ run \in [id : 0 .. MaxRuns, clean : BOOLEAN]
  /\ allocation \in
       [status : {"none", "claimed", "active", "reversed"}, run : 0 .. MaxRuns]
  /\ payable \in [Beneficiaries -> {"none", "blocked", "ready", "settled",
                    "transfer_pending", "failed", "reversed"}]
  /\ transfer \in [Beneficiaries -> {"none", "claimed", "provider_accepted",
                     "settled", "failed", "reversed"}]
  /\ paidOut \in
       [Beneficiaries -> {"none", "pending", "paid", "failed", "reversed"}]
  /\ ledger \subseteq
       [key : {"split", "settled", "returned", "reversal"} \X Holder,
        time : Times \cup {"refund"}, receivable : SUBSET Beneficiaries]
  /\ \A q \in Requests :
       /\ request[q].whom \in Holder
       /\ request[q].receivable \subseteq Beneficiaries

\* A row never claims money movements the ledger and the provider have not
\* seen: the split of an active allocation, the payment of a settled transfer,
\* the return of a reversed one and the reversal of the split are booked
\* first, and no transfer leaves for a split that is not booked.
LedgerBacksRows ==
  /\ allocation.status \in {"active", "reversed"} => Booked("split", "all")
  /\ allocation.status = "reversed" => Booked("reversal", "all")
  /\ \A b \in Beneficiaries :
       /\ paidOut[b] # "none" => Booked("split", "all")
       /\ transfer[b] \in {"settled", "reversed"} =>
            Booked("settled", b) /\ paidOut[b] \in {"paid", "reversed"}
       /\ transfer[b] = "reversed" =>
            Booked("returned", b) /\ paidOut[b] = "reversed"

Posted(p) == IF p THEN 1 ELSE 0

\* The balance of a beneficiary's payable account.
Liability(b) ==
  Posted(Booked("split", "all")) - Posted(Booked("settled", b))
    + Posted(Booked("returned", b))
    - Posted(\E e \in ledger : e.key = <<"reversal", "all">>
                               /\ b \notin e.receivable)

\* The payable account of a beneficiary is never overdrawn: what was paid out
\* is not taken back from the same account.  The exceptions are the two the
\* code has: a transfer claimed after a reversal listed the payables, and the
\* reversal of an allocation that was claimed and never booked.
PayableNeverOverdrawn ==
  ~raced /\ Booked("split", "all") =>
    \A b \in Beneficiaries : Liability(b) \in {0, 1}
=============================================================================
