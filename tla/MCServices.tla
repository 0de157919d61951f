------------------------------ MODULE MCServices ------------------------------
(***************************************************************************)
(* The services beside the payment core, checked together.  They share no  *)
(* state in these models, so a behaviour of all of them is an interleaving *)
(* of a behaviour of each, and a property of one says nothing of another:  *)
(* instead of their product TLC explores their sum, in which the initial   *)
(* state says which part moves and the others stay where they begin.       *)
(* Where the others begin no fair step of theirs is enabled, so that the   *)
(* fairness of all the parts asks nothing of those at rest.                *)
(***************************************************************************)
EXTENDS NotificationOutbox, CrmTrials, Settlement, TicketCheckIn, Checkout,
        RefundRequests, Reconciliation, TLC

CONSTANT Parts  \* the parts a run explores

VARIABLE part   \* the part that moves

ServicesInit ==
  /\ part \in Parts
  /\ OutboxInit /\ TrialsInit /\ SettlementInit
  /\ CheckInInit /\ CheckoutInit /\ RefundInit /\ ReconciliationInit
  /\ part # "reconciliation" => provider = NotFound

ServicesNext ==
  \/ /\ part = "outbox" /\ OutboxNext
     /\ UNCHANGED <<part, trialVars, settlementVars, checkInVars,
                    checkoutVars, refundVars, reconciliationVars>>
  \/ /\ part = "trials" /\ TrialsNext
     /\ UNCHANGED <<part, outboxVars, settlementVars, checkInVars,
                    checkoutVars, refundVars, reconciliationVars>>
  \/ /\ part = "settlement" /\ SettlementNext
     /\ UNCHANGED <<part, outboxVars, trialVars, checkInVars, checkoutVars,
                    refundVars, reconciliationVars>>
  \/ /\ part = "check-in" /\ CheckInNext
     /\ UNCHANGED <<part, outboxVars, trialVars, settlementVars, checkoutVars,
                    refundVars, reconciliationVars>>
  \/ /\ part = "checkout" /\ CheckoutNext
     /\ UNCHANGED <<part, outboxVars, trialVars, settlementVars, checkInVars,
                    refundVars, reconciliationVars>>
  \/ /\ part = "refunds" /\ RefundNext
     /\ UNCHANGED <<part, outboxVars, trialVars, settlementVars, checkInVars,
                    checkoutVars, reconciliationVars>>
  \/ /\ part = "reconciliation" /\ ReconciliationNext
     /\ UNCHANGED <<part, outboxVars, trialVars, settlementVars, checkInVars,
                    checkoutVars, refundVars>>

servicesVars ==
  <<part, outboxVars, trialVars, settlementVars, checkInVars, checkoutVars,
    refundVars, reconciliationVars>>

ServicesSpec ==
  /\ ServicesInit /\ [][ServicesNext]_servicesVars
  /\ OutboxFairness /\ TrialsFairness

(* Every table, counter and process of every service has its type. *)
ServicesTypeOK ==
  /\ OutboxTypeOK /\ TrialsTypeOK /\ SettlementTypeOK
  /\ CheckInTypeOK /\ CheckoutTypeOK /\ RefundTypeOK
  /\ ReconciliationTypeOK
===============================================================================
