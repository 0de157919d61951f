---------------------------- MODULE RefundRequests ----------------------------
(***************************************************************************)
(* The request of a full refund of one payment: calls that read the        *)
(* payment and the request row, claim the row, command the provider under  *)
(* the row's key and record its acceptance.  Each statement of the         *)
(* database and the provider's call is a step; calls interleave, are       *)
(* retried as further calls, and may die between any two of their steps.   *)
(* The payment moves meanwhile: its approval is booked late, and a         *)
(* verified refund, which anybody may have made at the provider, lands at  *)
(* any time.                                                               *)
(***************************************************************************)
EXTENDS Naturals, FiniteSets

CONSTANTS
  RefundCalls,  \* calls of requestFullRefund for the payment
  RefundTimes   \* readings of the clock, which need not agree

ASSUME RefundTimesAssumption == RefundTimes \subseteq Nat

VARIABLES
  refundable,       \* the payment: its status, and is its approval booked?
  refundRow,        \* its row of financial_refund_requests
  providerRefunds,  \* refunds the provider made for the commands, by key
  refundCall        \* what each call is doing, or how it ended

refundVars == <<refundable, refundRow, providerRefunds, refundCall>>

NoReference == "none"
NoRefundRow ==
  [status |-> "none", reference |-> NoReference, created |-> 0, updated |-> 0]
NewRefundCall ==
  [at |-> "read payment", seen |-> "none", existing |-> "none",
   reference |-> NoReference, updated |-> 0, now |-> 0]

RefundInit ==
  /\ refundable = [status |-> "pending", booked |-> FALSE]
  /\ refundRow = NoRefundRow
  /\ providerRefunds = {}
  /\ refundCall = [c \in RefundCalls |-> NewRefundCall]

RefundEnds(c, label) == refundCall' = [refundCall EXCEPT ![c].at = label]

-----------------------------------------------------------------------------
(* The payment, moved by the verified results *)

ConfirmRefundable ==
  /\ refundable.status = "pending"
  /\ refundable' = [refundable EXCEPT !.status = "confirmed"]
  /\ UNCHANGED <<refundRow, providerRefunds, refundCall>>

BookApproval ==
  /\ refundable.status # "pending" /\ ~refundable.booked
  /\ refundable' = [refundable EXCEPT !.booked = TRUE]
  /\ UNCHANGED <<refundRow, providerRefunds, refundCall>>

RefundVerified ==
  /\ refundable.status = "confirmed"
  /\ refundable' = [refundable EXCEPT !.status = "refunded"]
  /\ UNCHANGED <<refundRow, providerRefunds, refundCall>>

-----------------------------------------------------------------------------
(* requestFullRefund *)

ReadRefundable(c) ==
  /\ refundCall[c].at = "read payment"
  /\ IF refundable.status \in {"confirmed", "refunded"}
     THEN refundCall' = [refundCall EXCEPT ![c].seen = refundable.status,
                                           ![c].at = "read request"]
     ELSE RefundEnds(c, "refused")
  /\ UNCHANGED <<refundable, refundRow, providerRefunds>>

\* What the call goes on with is the row as it read it; a refund of the payment
\* without one was not asked for here.
ReadRequest(c) ==
  /\ refundCall[c].at = "read request"
  /\ IF refundCall[c].seen = "refunded" /\ refundRow = NoRefundRow
     THEN RefundEnds(c, "refused")
     ELSE refundCall' = [refundCall EXCEPT ![c].existing = refundRow.status,
                                           ![c].at = "read books"]
  /\ UNCHANGED <<refundable, refundRow, providerRefunds>>

\* A slip: any row at all is answered as a replay.
AnyRow(c) == refundCall[c].existing # "none"

\* Only an accepted request is answered without the provider; a claimed one is
\* sent again.
Replayable(c) == refundCall[c].existing = "provider_accepted"

\* The result of the approval and its entry, of which the second is enough:
\* nothing is booked that was not recorded.
ReadBooks(c) ==
  /\ refundCall[c].at = "read books"
  /\ RefundEnds(c,
       IF ~refundable.booked THEN "refused"
       ELSE IF refundCall[c].seen = "refunded" THEN "COMPLETED"
       ELSE IF Replayable(c) THEN "AWAITING_VERIFIED_EVENT"
       ELSE IF refundCall[c].existing = "none" THEN "claim"
       ELSE "command")
  /\ UNCHANGED <<refundable, refundRow, providerRefunds>>

\* INSERT IGNORE, and the row that stands is read back: one created at another
\* time is a conflict.
ClaimRequest(c, now) ==
  /\ refundCall[c].at = "claim"
  /\ refundRow' = IF refundRow = NoRefundRow
                  THEN [NoRefundRow EXCEPT !.status = "claimed",
                                           !.created = now, !.updated = now]
                  ELSE refundRow
  /\ RefundEnds(c, IF refundRow'.created = now THEN "command" ELSE "failed")
  /\ UNCHANGED <<refundable, providerRefunds>>

\* A slip: a key for the call, and not for the payment.
CallKey(c) == c

RefundKey(c) == "refund:v1"

\* The provider makes one refund per key and answers with its reference; it
\* may also refuse, and its answer may be lost, before or after it acted.
CommandRefund(c) ==
  /\ refundCall[c].at = "command"
  /\ \/ /\ providerRefunds' = providerRefunds \cup {RefundKey(c)}
        /\ \/ refundCall' = [refundCall EXCEPT ![c].reference = RefundKey(c),
                                               ![c].at = "read for acceptance"]
           \/ RefundEnds(c, "failed")
     \/ RefundEnds(c, "failed") /\ UNCHANGED providerRefunds
  /\ UNCHANGED <<refundable, refundRow>>

\* acceptProvider reads the row it is about to change; a clock behind the row's
\* own times is refused.
ReadForAcceptance(c, now) ==
  /\ refundCall[c].at = "read for acceptance"
  /\ IF now < refundRow.created THEN RefundEnds(c, "failed")
     ELSE IF refundRow.status = "provider_accepted"
     THEN RefundEnds(c, IF refundRow.reference = refundCall[c].reference
                        THEN "read again" ELSE "failed")
     ELSE IF now < refundRow.updated THEN RefundEnds(c, "failed")
     ELSE refundCall' = [refundCall EXCEPT ![c].updated = refundRow.updated,
                                           ![c].now = now, ![c].at = "accept"]
  /\ UNCHANGED <<refundable, refundRow, providerRefunds>>

\* The update is conditional on the row being as it was read; a call that lost
\* the race is content with the same reference.
AcceptRefund(c) ==
  /\ refundCall[c].at = "accept"
  /\ IF /\ refundRow.status = "claimed"
        /\ refundRow.updated = refundCall[c].updated
     THEN /\ refundRow' = [refundRow EXCEPT
                             !.status = "provider_accepted",
                             !.reference = refundCall[c].reference,
                             !.updated = refundCall[c].now]
          /\ RefundEnds(c, "read again")
     ELSE /\ RefundEnds(c, IF /\ refundRow.status = "provider_accepted"
                              /\ refundRow.reference = refundCall[c].reference
                           THEN "read again" ELSE "failed")
          /\ UNCHANGED refundRow
  /\ UNCHANGED <<refundable, providerRefunds>>

ReadAgain(c) ==
  /\ refundCall[c].at = "read again"
  /\ RefundEnds(c, IF refundable.status = "refunded" THEN "COMPLETED"
                   ELSE "AWAITING_VERIFIED_EVENT")
  /\ UNCHANGED <<refundable, refundRow, providerRefunds>>

RefundNext ==
  \/ ConfirmRefundable \/ BookApproval \/ RefundVerified
  \/ \E c \in RefundCalls :
       \/ ReadRefundable(c) \/ ReadRequest(c) \/ ReadBooks(c)
       \/ CommandRefund(c) \/ AcceptRefund(c) \/ ReadAgain(c)
       \/ \E now \in RefundTimes :
            ClaimRequest(c, now) \/ ReadForAcceptance(c, now)

RefundSpec == RefundInit /\ [][RefundNext]_refundVars

-----------------------------------------------------------------------------
References == {NoReference} \cup RefundCalls \cup {"refund:v1"}

RefundTypeOK ==
  /\ refundable \in [status : {"pending", "confirmed", "refunded"},
                     booked : BOOLEAN]
  /\ refundRow \in [status : {"none", "claimed", "provider_accepted"},
                    reference : References, created : {0} \cup RefundTimes,
                    updated : {0} \cup RefundTimes]
  /\ providerRefunds \subseteq References
  /\ refundCall \in
       [RefundCalls ->
          [at : {"read payment", "read request", "read books", "claim",
                 "command", "read for acceptance", "accept", "read again",
                 "refused", "failed", "AWAITING_VERIFIED_EVENT", "COMPLETED"},
           seen : {"none", "confirmed", "refunded"},
           existing : {"none", "claimed", "provider_accepted"},
           reference : References, updated : {0} \cup RefundTimes,
           now : {0} \cup RefundTimes]]

(* However calls race, die and are retried, the money goes back once, and what
   a caller is told is so: it waits for a verified event only when the refund
   on record is the one the provider made, and it is told of a completed
   refund only when the payment is refunded. *)
RefundAnswersBacked ==
  /\ Cardinality(providerRefunds) <= 1
  /\ \A c \in RefundCalls :
       /\ refundCall[c].at = "AWAITING_VERIFIED_EVENT" =>
            /\ refundRow.status = "provider_accepted"
            /\ providerRefunds = {refundRow.reference}
       /\ refundCall[c].at = "COMPLETED" => refundable.status = "refunded"
===============================================================================
