-------------------------- MODULE SagaOrchestrator --------------------------
(***************************************************************************)
(* The saga orchestrator: a thread of the checkout process that reads      *)
(* saga_reply_channel, keeps one log per open transaction in memory, and   *)
(* asks the payment service, the kitchen service and the checkout          *)
(* controller in turn.                                                     *)
(***************************************************************************)
EXTENDS SagaTopics

VARIABLE orchestratorLogs   \* a map from transaction ID to the log of that transaction

LogKeys == {"NEW_TRANSACTION_REQUEST", "START_PAYMENT", "END_PAYMENT ", "END_PAYMENT",
            "START_KITCHEN_APPROVAL", "END_KITCHEN_APPROVAL",
            "START_COMPENSATE_REQUEST", "END_COMPENSATE_REQUEST"}

\* A log maps event names to messages.  Only the order in the message logged under
\* NEW_TRANSACTION_REQUEST is ever read back.
TransactionLogs == [order : Calls, keys : SUBSET LogKeys]

OrchestratorTypeOK ==
    /\ DOMAIN orchestratorLogs \subseteq TransactionIDs
    /\ \A t \in DOMAIN orchestratorLogs : orchestratorLogs[t] \in TransactionLogs

initializeLog == [t \in {} |-> {}]

\* updateLog with key NEW_TRANSACTION_REQUEST: a log of that ID starts over.
openLog(logs, o, t) ==
    [u \in DOMAIN logs \cup {t} |->
        IF u = t THEN [order |-> o, keys |-> {"NEW_TRANSACTION_REQUEST"}] ELSE logs[u]]

\* updateLog with any other key: nothing happens without a log.
updateLog(logs, t, key) ==
    IF t \in DOMAIN logs THEN [logs EXCEPT ![t].keys = @ \cup {key}] ELSE logs

\* Mutant: the log of a finalized transaction is kept.
keepTransactionLog(logs, t) == logs

dropTransactionLog(logs, t) == [u \in DOMAIN logs \ {t} |-> logs[u]]

-----------------------------------------------------------------------------
startTransaction(m) ==
    LET t == m.transactionID IN
    /\ m.kind = "NEW_TRANSACTION_REQUEST"
    /\ orchestratorLogs' =
         updateLog(openLog(orchestratorLogs, m.order, t), t, "START_PAYMENT")
    /\ Send(PaymentRequests, PaymentRequest(m.order, t))

\* Mutant: the request that is sent is not logged.
sendKitchenApprovalUnlogged(m) ==
    LET t == m.transactionID IN
    /\ m.kind = "PAYMENT_ACCEPTED"
    /\ t \in DOMAIN orchestratorLogs
    /\ orchestratorLogs' = updateLog(orchestratorLogs, t, "END_PAYMENT ")
    /\ Send(KitchenRequests, KitchenRequest(orchestratorLogs[t].order, t))

sendKitchenApprovalRequest(m) ==
    LET t == m.transactionID IN
    /\ m.kind = "PAYMENT_ACCEPTED"
    /\ t \in DOMAIN orchestratorLogs
    /\ orchestratorLogs' =
         updateLog(updateLog(orchestratorLogs, t, "END_PAYMENT "), t, "START_KITCHEN_APPROVAL")
    /\ Send(KitchenRequests, KitchenRequest(orchestratorLogs[t].order, t))

sendCompensationRequest(m) ==
    LET t == m.transactionID IN
    /\ m.kind = "KITCHEN_REFUSED"
    /\ t \in DOMAIN orchestratorLogs
    /\ orchestratorLogs' =
         updateLog(updateLog(orchestratorLogs, t, "END_KITCHEN_APPROVAL"),
                   t, "START_COMPENSATE_REQUEST")
    /\ Send(PaymentRequests, CompensatePaymentRequest(orchestratorLogs[t].order, t))

\* Mutant: the early return is taken for the transactions that have a log as well.
ignoreAnyTransaction(m) ==
    /\ m.kind \in {"PAYMENT_ACCEPTED", "KITCHEN_REFUSED"}
    /\ UNCHANGED <<orchestratorLogs, topic, faults>>

\* The early return of the two handlers above.
ignoreUnknownTransaction(m) ==
    /\ m.kind \in {"PAYMENT_ACCEPTED", "KITCHEN_REFUSED"}
    /\ m.transactionID \notin DOMAIN orchestratorLogs
    /\ UNCHANGED <<orchestratorLogs, topic, faults>>

\* Mutant: whatever is not a denial approves.
finalStateUnlessDenied(kind) == IF kind = "PAYMENT_DENIED" THEN "REJECTED" ELSE "APPROVED"

\* The state a transaction is finalized with, by the answer that ends it.
finalState(kind) == IF kind = "KITCHEN_ACCEPTED" THEN "APPROVED" ELSE "REJECTED"

\* Mutant: a refusing kitchen finalizes the order without waiting for the refund.
finalizeWithoutRefund(m) ==
    /\ m.kind \in {"PAYMENT_DENIED", "PAYMENT_ROLLBACK_SUCCESS", "KITCHEN_ACCEPTED",
                   "KITCHEN_REFUSED"}
    /\ orchestratorLogs' = dropTransactionLog(orchestratorLogs, m.transactionID)
    /\ Send(CheckoutReply, FinalizeOrderMessage(finalState(m.kind), m.transactionID))

\* Finalizing does not ask for a log; the entry logged for the answer goes with the
\* log in the same step.
sendFinalizeTransactionRequest(m) ==
    /\ m.kind \in {"PAYMENT_DENIED", "PAYMENT_ROLLBACK_SUCCESS", "KITCHEN_ACCEPTED"}
    /\ orchestratorLogs' = dropTransactionLog(orchestratorLogs, m.transactionID)
    /\ Send(CheckoutReply, FinalizeOrderMessage(finalState(m.kind), m.transactionID))

elaborateMessage(m) ==
    \/ startTransaction(m)
    \/ sendKitchenApprovalRequest(m)
    \/ sendCompensationRequest(m)
    \/ ignoreUnknownTransaction(m)
    \/ sendFinalizeTransactionRequest(m)

OrchestratorInit == orchestratorLogs = initializeLog

\* One turn of the orchestrator's loop.
OrchestratorRun == Consume(SagaReply) /\ elaborateMessage(NextRecord(SagaReply))
=============================================================================
