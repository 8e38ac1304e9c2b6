------------------------------ MODULE FoodSaga ------------------------------
(***************************************************************************)
(* The order saga as deployed: the checkout process (its gRPC threads, its *)
(* Kafka consumer and the orchestrator thread), the payment process and    *)
(* the kitchen process, over the four topics.  Any of the three processes  *)
(* may die and be restarted; producers may lose or repeat a record;        *)
(* databases may refuse an insert.  MaxFaults bounds all of these.         *)
(***************************************************************************)
EXTENDS CheckoutController, SagaOrchestrator, PaymentService, KitchenService

vars == <<topicVars, controllerVars, orchestratorLogs, paymentVars, kitchenVars>>

TypeOK ==
    /\ TopicTypeOK
    /\ ControllerTypeOK
    /\ OrchestratorTypeOK
    /\ PaymentTypeOK
    /\ KitchenTypeOK

Init ==
    /\ TopicInit
    /\ ControllerInit
    /\ OrchestratorInit
    /\ PaymentInit
    /\ KitchenInit

-----------------------------------------------------------------------------
NewCall(c)    == CreateOrder(c) /\ UNCHANGED <<orchestratorLogs, paymentVars, kitchenVars>>
CallStep(c)   == InitiateCheckout(c) /\ UNCHANGED <<orchestratorLogs, paymentVars, kitchenVars>>
CheckoutConsumer == ConsumeMessages /\ UNCHANGED <<orchestratorLogs, paymentVars, kitchenVars>>
Orchestrator  == OrchestratorRun /\ UNCHANGED <<controllerVars, paymentVars, kitchenVars>>
PaymentPoll   == PaymentSubscriber /\ UNCHANGED <<controllerVars, orchestratorLogs, kitchenVars>>
PaymentWork   == PaymentThread /\ UNCHANGED <<controllerVars, orchestratorLogs, kitchenVars>>
KitchenPoll   == KitchenSubscriber /\ UNCHANGED <<controllerVars, orchestratorLogs, paymentVars>>
KitchenWork   == KitchenThread /\ UNCHANGED <<controllerVars, orchestratorLogs, paymentVars>>
Subscribe(t)  == Join(t) /\ UNCHANGED <<controllerVars, orchestratorLogs, paymentVars, kitchenVars>>

\* The checkout process dies: calls, message list, order field and saga logs go.
CheckoutCrash ==
    /\ ConsumersDown({SagaReply, CheckoutReply})
    /\ ControllerDown
    /\ orchestratorLogs' = initializeLog
    /\ UNCHANGED <<paymentVars, kitchenVars>>

Environment ==
    \/ CheckoutCrash
    \/ PaymentCrash /\ UNCHANGED <<controllerVars, orchestratorLogs, kitchenVars>>
    \/ KitchenCrash /\ UNCHANGED <<controllerVars, orchestratorLogs, paymentVars>>
    \/ \E t \in Topics :
         /\ ProducerRetry(t)
         /\ UNCHANGED <<controllerVars, orchestratorLogs, paymentVars, kitchenVars>>

Next ==
    \/ \E c \in Calls : NewCall(c) \/ CallStep(c)
    \/ CheckoutConsumer
    \/ Orchestrator
    \/ PaymentPoll
    \/ PaymentWork
    \/ KitchenPoll
    \/ KitchenWork
    \/ \E t \in Topics : Subscribe(t)
    \/ Environment

\* Every thread that can go on does, and a restarted process subscribes; nobody has to
\* place an order, and nothing has to fail.
Fairness ==
    /\ \A c \in Calls : WF_vars(CallStep(c))
    /\ WF_vars(CheckoutConsumer)
    /\ WF_vars(Orchestrator)
    /\ WF_vars(PaymentPoll) /\ WF_vars(PaymentWork)
    /\ WF_vars(KitchenPoll) /\ WF_vars(KitchenWork)
    /\ \A t \in Topics : WF_vars(Subscribe(t))

Spec == Init /\ [][Next]_vars
FairSpec == Spec /\ Fairness

-----------------------------------------------------------------------------
(* What holds whatever fails, and however calls overlap.                    *)

Finalized(state, t) == Sent(CheckoutReply, FinalizeOrderMessage(state, t))
Reported(state, t)  == Sent(SagaReply, SagaAnswer(state, t))
Ordered(t)          == \E o \in Calls : Sent(SagaReply, NewOrderMessage(o, t))
Stored(status, t)   == \E i \in DOMAIN paymentEvents[t] : paymentEvents[t][i].status = status

\* An order is approved only if somebody ordered it, the payment was requested and
\* charged, and the kitchen stored and accepted it -- under that very transaction ID,
\* which is never null (a null one in the message list would end every waiting call).
\* No crash, lost or repeated record may let sendFinalizeTransactionRequest, which asks
\* for no log, approve anything else.
ApprovedIsPaidAndCooked ==
    \A t \in TransactionIDs : Finalized("APPROVED", t) =>
        /\ t # Null
        /\ Ordered(t)
        /\ Stored("payment_requested", t) /\ charges[t] > 0
        /\ Reported("PAYMENT_ACCEPTED", t)
        /\ kitchenEvents[t] # <<>> /\ Reported("KITCHEN_ACCEPTED", t)

\* An order is rejected only because its payment was denied, or because the kitchen
\* refused it, and then the refund is stored before the customer hears of it.
RejectedIsDeniedOrRefunded ==
    \A t \in TransactionIDs : Finalized("REJECTED", t) =>
        /\ t # Null
        /\ Ordered(t)
        /\ \/ Stored("payment_aborted", t) /\ Reported("PAYMENT_DENIED", t)
           \/ /\ Stored("payment rejected", t) /\ Reported("PAYMENT_ROLLBACK_SUCCESS", t)
              /\ charges[t] > 0 /\ Reported("KITCHEN_REFUSED", t)

\* The customer of call c is told "true" only on an approval, and "false" after a
\* decision only on a rejection, of the transaction whose ID the call minted.
AnswerFollowsFinalize ==
    \A c \in Calls :
        /\ pc[c] \in {"approving", "recording", "approved"} => Finalized("APPROVED", c)
        /\ pc[c] \in {"rejecting", "rejected"} => Finalized("REJECTED", c)

\* The orders seen under t: published, logged, paid for, asked from the kitchen.
OrdersUnder(t) ==
    {o \in Calls :
        \/ Sent(SagaReply, NewOrderMessage(o, t))
        \/ Sent(PaymentRequests, PaymentRequest(o, t))
        \/ Sent(PaymentRequests, CompensatePaymentRequest(o, t))
        \/ Sent(KitchenRequests, KitchenRequest(o, t))
        \/ \E i \in DOMAIN paymentEvents[t] : paymentEvents[t][i].order = o
        \/ \E i \in DOMAIN kitchenEvents[t] : kitchenEvents[t][i] = o
        \/ t \in DOMAIN orchestratorLogs /\ orchestratorLogs[t].order = o}

\* Who pays and what is cooked under one transaction ID is one order, even when calls
\* race on newOrderMessage and the ID is published twice: the ID a call mints goes into
\* one order only, and no order loses the ID once it is published with it.
SameOrderThroughoutSaga ==
    \A t \in Calls : \A o, p \in OrdersUnder(t) : o = p

-----------------------------------------------------------------------------
(* What holds as long as nothing fails, however calls overlap.              *)

CountIn(t, Match(_)) == Cardinality({i \in DOMAIN topic[t] : Match(topic[t][i])})

Orders(t) == CountIn(SagaReply,
    LAMBDA m : m.kind = "NEW_TRANSACTION_REQUEST" /\ m.transactionID = t)
Outcomes(t) == CountIn(CheckoutReply, LAMBDA m : m.transactionID = t)
Refunds(t) == Cardinality({i \in DOMAIN paymentEvents[t] :
                              paymentEvents[t][i].status = "payment rejected"})

\* A transaction that was published once and is decided has left the customer's money
\* right: kept once for an approved order, given back as often as taken for a rejected one.
MoneyMatchesOutcome ==
    \A t \in Calls : Orders(t) = 1 =>
        /\ Finalized("APPROVED", t) => charges[t] = 1 /\ Refunds(t) = 0
        /\ Finalized("REJECTED", t) => charges[t] = Refunds(t)

\* The records of t nobody has taken yet and the tasks of t that have not ended.
Unread(q, t) == Cardinality({i \in DOMAIN topic[q] :
                                i > position[q] /\ topic[q][i].transactionID = t})
InFlight(t) ==
    Unread(SagaReply, t) + Unread(PaymentRequests, t) + Unread(KitchenRequests, t)
      + Cardinality({u \in paymentTasks : u.transactionID = t})
      + Cardinality({u \in kitchenTasks : u.transactionID = t})

\* The saga of a transaction published once does one thing at a time: from its publication
\* to its decision exactly one request, task or answer is under way, and none after.
OneStepAtATime ==
    \A t \in Calls : Orders(t) = 1 =>
        InFlight(t) = IF Outcomes(t) = 0 THEN 1 ELSE 0

\* The consumer of q has been handed m.
Taken(q, m) == \E i \in 1 .. position[q] : topic[q][i] = m

\* The log of an open transaction, the only record of how far it is, says what happened:
\* a request is logged as started exactly when it was sent, and as ended exactly when its
\* answer was taken.
LogMatchesTopics ==
    \A t \in Calls \cap DOMAIN orchestratorLogs : Orders(t) = 1 =>
        LET keys == orchestratorLogs[t].keys
            o == orchestratorLogs[t].order
        IN
        /\ "START_KITCHEN_APPROVAL" \in keys <=> Sent(KitchenRequests, KitchenRequest(o, t))
        /\ "START_COMPENSATE_REQUEST" \in keys
              <=> Sent(PaymentRequests, CompensatePaymentRequest(o, t))
        /\ "END_PAYMENT " \in keys <=> Taken(SagaReply, SagaAnswer("PAYMENT_ACCEPTED", t))
        /\ "END_KITCHEN_APPROVAL" \in keys
              <=> Taken(SagaReply, SagaAnswer("KITCHEN_REFUSED", t))

\* A call whose ID has been published is answered: its loop, which has no timeout, ends.
PublishedCallIsAnswered ==
    \A c \in Calls : (pc[c] = "waiting" /\ Orders(c) > 0) ~> pc[c] \in Answered

\* The orchestrator's log of a transaction with an ID does not stay in memory for ever.
OpenSagaCloses ==
    \A t \in Calls : t \in DOMAIN orchestratorLogs ~> t \notin DOMAIN orchestratorLogs

-----------------------------------------------------------------------------
(* What holds as long as nothing fails and no two calls overlap.            *)

\* Once a call waits, its own order has been published under the ID it minted.
OwnOrderIsPublished ==
    \A c \in Calls : pc[c] = "waiting" => Sent(SagaReply, NewOrderMessage(c, c))

EventStored(c, state) ==
    [call |-> c, state |-> state, order |-> c, price |-> c, transactionID |-> c]
        \in checkoutEvents

\* The event store tells the story of every answered call -- its own order and price,
\* pending and then decided, under its own ID -- and OrderTable has a row for each
\* approved order and for nothing else.
EventTrailIsComplete ==
    /\ \A c \in Calls :
         /\ pc[c] \in {"stored", "identified", "waiting", "approved", "rejected"} =>
                EventStored(c, "PENDING")
         /\ pc[c] = "approved" => EventStored(c, "APPROVED")
         /\ pc[c] = "rejected" => EventStored(c, "REJECTED")
    /\ {r.order : r \in orderTable} = {c \in Calls : pc[c] = "approved"}

\* Every call that is started is answered.
EveryCallIsAnswered == \A c \in Calls : pc[c] = "created" ~> pc[c] \in Answered

=============================================================================
