-------------------------- MODULE PaymentAuthority --------------------------
(***************************************************************************)
(* What the Financial service promises about one payment, whatever the     *)
(* webhooks, retries and crashes behind it: the status moves only along    *)
(* the transition table of packages/financial/src/index.ts, a verified     *)
(* result is recorded only for a status the payment has reached, and money *)
(* is booked only for a recorded result, the reversal of a refund never    *)
(* before the approval it reverses.  PaymentOutcome implements it.         *)
(***************************************************************************)
CONSTANT Payments

VARIABLES
  status,    \* the status of each payment
  recorded,  \* <<payment, status>> pairs with a verified result
  posted     \* <<payment, status>> pairs with a ledger transaction

authorityVars == <<status, recorded, posted>>

Terminal == {"confirmed", "failed", "cancelled", "expired", "refunded"}
Statuses == Terminal \cup {"pending"}

\* The statuses a payment in status s has been in, the initial one left out.
Reached(s) ==
  IF s = "refunded" THEN {"confirmed", "refunded"} ELSE {s} \ {"pending"}

AuthorityInit ==
  /\ status = [p \in Payments |-> "pending"]
  /\ recorded = {}
  /\ posted = {}

\* A verified event moves a payment.
Advance(p, s) ==
  /\ \/ status[p] = "pending" /\ s \in Terminal \ {"refunded"}
     \/ status[p] = "confirmed" /\ s = "refunded"
  /\ status' = [status EXCEPT ![p] = s]
  /\ UNCHANGED <<recorded, posted>>

\* The authoritative result of a status already reached becomes visible.
Record(p, s) ==
  /\ s \in Reached(status[p])
  /\ recorded' = recorded \cup {<<p, s>>}
  /\ UNCHANGED <<status, posted>>

\* An approval or its reversal is booked.
PostEntry(p, s) ==
  /\ s \in {"confirmed", "refunded"}
  /\ <<p, s>> \in recorded
  /\ s = "refunded" => <<p, "confirmed">> \in posted
  /\ posted' = posted \cup {<<p, s>>}
  /\ UNCHANGED <<status, recorded>>

AuthorityNext ==
  \E p \in Payments, s \in Terminal :
    Advance(p, s) \/ Record(p, s) \/ PostEntry(p, s)

AuthoritySpec == AuthorityInit /\ [][AuthorityNext]_authorityVars
=============================================================================
