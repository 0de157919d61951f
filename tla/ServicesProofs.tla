--------------------------- MODULE ServicesProofs ---------------------------
(***************************************************************************)
(* The services beside the payment core as MCServices composes them: each  *)
(* moves by its own steps or rests, so what holds of a service by itself   *)
(* holds of it there.                                                      *)
(***************************************************************************)
EXTENDS MCServices, BuyerRequestsProofs, LeaseProofs, SettlementProofs,
        ReconciliationProofs

LEMMA PartsBegin ==
  ServicesInit =>
    /\ OutboxInit /\ TrialsInit /\ SettlementInit
    /\ CheckInInit /\ CheckoutInit /\ RefundInit /\ ReconciliationInit
BY DEF ServicesInit

LEMMA PartsStep ==
  ASSUME [ServicesNext]_servicesVars
  PROVE  /\ [OutboxNext]_outboxVars /\ [TrialsNext]_trialVars
         /\ [SettlementNext]_settlementVars /\ [CheckInNext]_checkInVars
         /\ [CheckoutNext]_checkoutVars /\ [RefundNext]_refundVars
         /\ [ReconciliationNext]_reconciliationVars
BY DEF ServicesNext, servicesVars

\* Each service behaves in the composition as its own specification says, so
\* that every theorem about one of them holds there too.
THEOREM PartsImplementTheirSpecs ==
  ServicesSpec =>
    /\ OutboxSpec /\ TrialsSpec /\ SettlementSpec
    /\ CheckInSpec /\ CheckoutSpec /\ RefundSpec /\ ReconciliationSpec
BY PartsBegin, PartsStep, PTL
   DEF ServicesSpec, OutboxSpec, TrialsSpec, SettlementSpec, CheckInSpec,
       CheckoutSpec, RefundSpec, ReconciliationSpec

\* Every table, counter and process of every service keeps its type, for any
\* number of each.
THEOREM ServicesTypes == ServicesSpec => []ServicesTypeOK
<1>1. ASSUME OutboxTypeOK, TrialsTypeOK, SettlementTypeOK, CheckInTypeOK,
             CheckoutTypeOK, RefundTypeOK, ReconciliationTypeOK
      PROVE  ServicesTypeOK
  BY <1>1 DEF ServicesTypeOK
<1> QED
  BY <1>1, PartsImplementTheirSpecs, OutboxTypes, TrialTypes, SettlementTypes,
     CheckInTypes, CheckoutTypes, RefundTypes, ReconciliationTypes, PTL

\* All that is promised of the services short of their progress holds of them
\* together: one course per ticket, one order and one payment per checkout, no
\* second refund or receipt, one timeline per trial, a ledger behind every row.
THEOREM ServicesAreSafe ==
  ServicesSpec =>
    /\ [](OneCourse /\ RetryNeverAdvances)
    /\ []OneOrderOnePayment /\ PaidOrderStaysPaid
    /\ []RefundAnswersBacked
    /\ [](SentAtMostOnce /\ UndisturbedIsExact) /\ OnlyHolderRecords
    /\ [](TimelineAgrees /\ RedeliveryNeedsMishap)
    /\ [](LedgerBacksRows /\ PayableNeverOverdrawn)
    /\ [](FindingsReadable /\ FreshRunListsDisagreements)
    /\ AcknowledgementKept
BY PartsImplementTheirSpecs, AdmissionIsOneCourse, RepetitionNeverAdvances,
   CheckoutMakesOne, PaidOrdersStay, RefundAnswersAreBacked,
   NotificationsSentOnce, UndisturbedRowsExact, HolderRecords,
   TimelineToldOnce, RedeliveriesPaidFor, RowsAreBacked, NeverOverdrawn,
   FindingsAlwaysReadable, FreshRunsListDisagreements, AcknowledgementsKept,
   PTL
=============================================================================
