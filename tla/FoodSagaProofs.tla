--------------------------- MODULE FoodSagaProofs ---------------------------
(***************************************************************************)
(* What FoodSaga guarantees for any number of calls, any pool sizes, any   *)
(* number of faults and any overlap, proved from FoodSaga!Spec: its types  *)
(* and what follows from them; that EverythingHasItsCause is an invariant, *)
(* with the safety properties that follow; and that FoodSaga implements    *)
(* OrderSaga.                                                              *)
(***************************************************************************)
EXTENDS FoodSagaInvariant, TLAPS

USE DEF SagaReply, PaymentRequests, KitchenRequests, CheckoutReply

-----------------------------------------------------------------------------
(* Facts about the topics.                                                  *)

\* The types of the four topics.
LEMMA MessagesOnEach ==
    /\ MessagesOn(SagaReply) = Requests({"NEW_TRANSACTION_REQUEST"}) \cup Answers(AnswerStates)
    /\ MessagesOn(PaymentRequests) = Requests({"PAYMENT_REQUEST", "COMPENSATE_REQUEST"})
    /\ MessagesOn(KitchenRequests) = Requests({"KITCHEN_REQUEST"})
    /\ MessagesOn(CheckoutReply) = Answers(FinalStates)
BY DEF MessagesOn

\* A record that is sent has the type of its topic, and so has the topic after it.
LEMMA SendType ==
    ASSUME TopicTypeOK, NEW q \in Topics, NEW m \in MessagesOn(q), Send(q, m)
    PROVE  /\ DOMAIN topic' = Topics
           /\ \A t \in Topics : topic'[t] \in Seq(MessagesOn(t))
           /\ faults' \in 0 .. MaxFaults
<1>1. CASE topic' = [topic EXCEPT ![q] = Append(@, m)] /\ UNCHANGED faults
  <2>1. topic[q] \in Seq(MessagesOn(q)) BY DEF TopicTypeOK
  <2>2. Append(topic[q], m) \in Seq(MessagesOn(q)) BY <2>1
  <2> QED BY <1>1, <2>2 DEF TopicTypeOK
<1>2. CASE Fault("lost_record") /\ UNCHANGED topic
  BY <1>2, MaxFaultsAssumption DEF TopicTypeOK, Fault
<1> QED BY <1>1, <1>2 DEF Send

\* Appending a record adds at most one fact to what has been sent, and takes none away.
LEMMA AppendSent ==
    ASSUME TopicTypeOK, NEW q \in Topics, NEW m, topic' = [topic EXCEPT ![q] = Append(@, m)]
    PROVE  \A t \in Topics : \A x :
               /\ Sent(t, x) => Sent(t, x)'
               /\ Sent(t, x)' => Sent(t, x) \/ (t = q /\ x = m)
<1> SUFFICES ASSUME NEW t \in Topics, NEW x
             PROVE  /\ Sent(t, x) => Sent(t, x)'
                    /\ Sent(t, x)' => Sent(t, x) \/ (t = q /\ x = m)
  OBVIOUS
<1>1. topic[t] \in Seq(MessagesOn(t)) BY DEF TopicTypeOK
<1>2. CASE t # q
  BY <1>2 DEF Sent, TopicTypeOK
<1>3. CASE t = q
  <2>1. topic'[t] = Append(topic[t], m) BY <1>3 DEF TopicTypeOK
  <2>2. DOMAIN topic[t] = 1 .. Len(topic[t]) /\ Len(topic[t]) \in Nat BY <1>1
  <2>3. DOMAIN topic'[t] = 1 .. Len(topic[t]) + 1 BY <1>1, <2>1, <2>2
  <2>4. \A i \in 1 .. Len(topic[t]) : topic'[t][i] = topic[t][i] BY <1>1, <2>1
  <2>5. topic'[t][Len(topic[t]) + 1] = m BY <1>1, <2>1
  <2> QED BY <1>3, <2>2, <2>3, <2>4, <2>5 DEF Sent
<1> QED BY <1>2, <1>3

\* So does sending one.
LEMMA SendSent ==
    ASSUME TopicTypeOK, NEW q \in Topics, NEW m, Send(q, m)
    PROVE  \A t \in Topics : \A x :
               /\ Sent(t, x) => Sent(t, x)'
               /\ Sent(t, x)' => Sent(t, x) \/ (t = q /\ x = m)
<1>1. CASE topic' = [topic EXCEPT ![q] = Append(@, m)] BY <1>1, AppendSent
<1>2. CASE UNCHANGED topic BY <1>2 DEF Sent
<1> QED BY <1>1, <1>2 DEF Send

\* What the consumer is handed has been sent, and has the type of its topic.
LEMMA NextRecordSent ==
    ASSUME TopicTypeOK, NEW q \in Topics, HasRecord(q)
    PROVE  Sent(q, NextRecord(q)) /\ NextRecord(q) \in MessagesOn(q)
<1>1. topic[q] \in Seq(MessagesOn(q)) BY DEF TopicTypeOK
<1>2. position[q] + 1 \in 1 .. Len(topic[q]) BY <1>1 DEF HasRecord
<1> QED BY <1>1, <1>2 DEF Sent, NextRecord

-----------------------------------------------------------------------------
(* Type correctness.                                                        *)

\* While a call is served the controller's field refers to some order.
FieldIsSet == \A c \in Calls : pc[c] \in Serving => newOrderMessage # Null

TypeInv == TypeOK /\ FieldIsSet

\* The topics keep their types when records are sent and consumed.
LEMMA TopicTypeSend ==
    ASSUME TopicTypeOK, NEW q \in Topics, NEW m \in MessagesOn(q), Send(q, m),
           UNCHANGED offsets
    PROVE  TopicTypeOK'
BY SendType DEF TopicTypeOK, offsets

LEMMA TopicTypeConsumeSend ==
    ASSUME TopicTypeOK, NEW p \in Topics, Consume(p),
           NEW q \in Topics, NEW m \in MessagesOn(q), Send(q, m)
    PROVE  TopicTypeOK'
<1>1. position[p] + 1 \in Nat BY DEF Consume, HasRecord, TopicTypeOK
<1> QED BY <1>1, SendType DEF TopicTypeOK, Consume

LEMMA TopicTypeConsume ==
    ASSUME TopicTypeOK, NEW p \in Topics, Consume(p), UNCHANGED <<topic, faults>>
    PROVE  TopicTypeOK'
<1>1. position[p] + 1 \in Nat BY DEF Consume, HasRecord, TopicTypeOK
<1> QED BY <1>1 DEF TopicTypeOK, Consume

LEMMA TopicTypeFault ==
    ASSUME TopicTypeOK, NEW kind, Fault(kind), UNCHANGED <<topic, offsets>>
    PROVE  TopicTypeOK'
BY MaxFaultsAssumption DEF TopicTypeOK, Fault, offsets

LEMMA TopicTypeDown ==
    ASSUME TopicTypeOK, NEW ts \in SUBSET Topics, ConsumersDown(ts)
    PROVE  TopicTypeOK'
<1>1. faults' \in 0 .. MaxFaults
  <2>1. faults' = faults + 1 /\ faults < MaxFaults BY DEF ConsumersDown, Fault
  <2>2. faults \in 0 .. MaxFaults BY DEF TopicTypeOK
  <2> QED BY <2>1, <2>2, MaxFaultsAssumption
<1>2. \A t \in Topics : CommittedAtDeath(t) \subseteq Nat \cup {NoOffset}
  BY DEF CommittedAtDeath, TopicTypeOK, NoOffset
<1>3. committed' \in [Topics -> Nat \cup {NoOffset}]
  BY <1>2 DEF ConsumersDown, TopicTypeOK
<1>4. position' \in [Topics -> Nat \cup {NoOffset}]
  BY DEF ConsumersDown, TopicTypeOK
<1> QED BY <1>1, <1>3, <1>4 DEF ConsumersDown, TopicTypeOK

\* The logs the orchestrator makes.
LogsTyped(logs) ==
    /\ DOMAIN logs \subseteq TransactionIDs
    /\ \A t \in DOMAIN logs : logs[t] \in TransactionLogs

LEMMA OpenLogType ==
    ASSUME NEW logs, LogsTyped(logs), NEW o \in Calls, NEW t \in TransactionIDs
    PROVE  LogsTyped(openLog(logs, o, t))
BY DEF LogsTyped, openLog, TransactionLogs, LogKeys

LEMMA UpdateLogType ==
    ASSUME NEW logs, LogsTyped(logs), NEW t, NEW key \in LogKeys
    PROVE  LogsTyped(updateLog(logs, t, key))
<1>1. CASE t \in DOMAIN logs
  <2>1. PICK new : new = [logs EXCEPT ![t].keys = @ \cup {key}] OBVIOUS
  <2>2. DOMAIN new = DOMAIN logs /\ \A u \in DOMAIN logs : u # t => new[u] = logs[u] BY <2>1
  <2>3. new[t] = [logs[t] EXCEPT !.keys = @ \cup {key}] BY <1>1, <2>1
  <2>4. logs[t] \in TransactionLogs BY <1>1 DEF LogsTyped
  <2>5. new[t] \in TransactionLogs BY <2>3, <2>4 DEF TransactionLogs
  <2>6. LogsTyped(new) BY <2>2, <2>5 DEF LogsTyped
  <2> QED BY <1>1, <2>1, <2>6 DEF updateLog
<1>2. CASE t \notin DOMAIN logs BY <1>2 DEF updateLog
<1> QED BY <1>1, <1>2

LEMMA TopicTypeJoin ==
    ASSUME TopicTypeOK, NEW t \in Topics, Join(t)
    PROVE  TopicTypeOK'
<1>1. Len(topic[t]) \in Nat BY DEF TopicTypeOK
<1>2. (IF committed[t] = NoOffset THEN Len(topic[t]) ELSE committed[t]) \in Nat
  BY <1>1 DEF TopicTypeOK
<1> QED BY <1>2 DEF Join, TopicTypeOK

LEMMA TopicTypeRetry ==
    ASSUME TopicTypeOK, NEW t \in Topics, ProducerRetry(t)
    PROVE  TopicTypeOK'
<1>1. PICK i \in DOMAIN topic[t] : topic' = [topic EXCEPT ![t] = Append(@, topic[t][i])]
  BY DEF ProducerRetry
<1>2. topic[t] \in Seq(MessagesOn(t)) BY DEF TopicTypeOK
<1>3. Append(topic[t], topic[t][i]) \in Seq(MessagesOn(t)) BY <1>1, <1>2
<1> QED BY <1>1, <1>3, MaxFaultsAssumption DEF ProducerRetry, Fault, TopicTypeOK, offsets

\* Every step of a call keeps the types of the controller, of the topics, and the field.
LEMMA CallType ==
    ASSUME TypeInv, NEW c \in Calls, InitiateCheckout(c)
    PROVE  TopicTypeOK' /\ ControllerTypeOK' /\ FieldIsSet'
<1> USE DEF storeVars, Goto
<1>1. CASE StorePending(c)
  <2>1. newOrderMessage \in Calls
    BY <1>1 DEF StorePending, TypeInv, TypeOK, ControllerTypeOK, FieldIsSet, Serving, TransactionIDs
  <2>2. checkoutEvents' \subseteq CheckoutEvent
    BY <1>1, <2>1 DEF StorePending, putEvent, CheckoutEvent, TypeInv, TypeOK, ControllerTypeOK
  <2> QED BY <1>1, <2>2
       DEF StorePending, TypeInv, TypeOK, TopicTypeOK, ControllerTypeOK, FieldIsSet, Serving,
           topicVars, offsets
<1>2. CASE SetTransactionID(c)
  BY <1>2 DEF SetTransactionID, TypeInv, TypeOK, TopicTypeOK, ControllerTypeOK, FieldIsSet,
              Serving, topicVars, offsets, TransactionIDs
<1>3. CASE PublishOrder(c)
  <2>1. newOrderMessage \in Calls
    BY <1>3 DEF PublishOrder, TypeInv, TypeOK, ControllerTypeOK, FieldIsSet, Serving, TransactionIDs
  <2>2. NewOrderMessage(newOrderMessage, orderTransactionID[newOrderMessage])
          \in MessagesOn(SagaReply)
    BY <2>1 DEF TypeInv, TypeOK, ControllerTypeOK, NewOrderMessage, MessagesOn, Requests
  <2>3. TopicTypeOK'
    BY <1>3, <2>2, TopicTypeSend DEF PublishOrder, TypeInv, TypeOK, Topics
  <2> QED BY <1>3, <2>3
       DEF PublishOrder, TypeInv, TypeOK, ControllerTypeOK, FieldIsSet, Serving
<1>4. CASE PollResponse(c)
  BY <1>4 DEF PollResponse, TypeInv, TypeOK, TopicTypeOK, ControllerTypeOK, FieldIsSet,
              Serving, topicVars, offsets
<1>5. CASE StoreApproved(c)
  <2>1. newOrderMessage \in Calls
    BY <1>5 DEF StoreApproved, TypeInv, TypeOK, ControllerTypeOK, FieldIsSet, Serving, TransactionIDs
  <2>2. checkoutEvents' \subseteq CheckoutEvent
    BY <1>5, <2>1
       DEF StoreApproved, putEvent, CheckoutEvent, FinalStates, TypeInv, TypeOK, ControllerTypeOK
  <2> QED BY <1>5, <2>2
       DEF StoreApproved, TypeInv, TypeOK, TopicTypeOK, ControllerTypeOK, FieldIsSet, Serving,
           topicVars, offsets
<1>6. CASE PutRow(c)
  <2>1. newOrderMessage \in Calls
    BY <1>6 DEF PutRow, TypeInv, TypeOK, ControllerTypeOK, FieldIsSet, Serving, TransactionIDs
  <2>2. orderTable' \subseteq OrderRow
    BY <1>6, <2>1 DEF PutRow, OrderRow, TypeInv, TypeOK, ControllerTypeOK
  <2>3. TopicTypeOK'
    BY <1>6, TopicTypeFault DEF PutRow, TypeInv, TypeOK, TopicTypeOK, offsets
  <2>4. pc' \in [Calls -> {"idle"} \cup Serving \cup Answered] /\ FieldIsSet'
    BY <1>6 DEF PutRow, TypeInv, TypeOK, ControllerTypeOK, FieldIsSet, Serving, Answered
  <2> QED BY <1>6, <2>2, <2>3, <2>4
       DEF PutRow, TypeInv, TypeOK, ControllerTypeOK
<1>7. CASE StoreRejected(c)
  <2>1. newOrderMessage \in Calls
    BY <1>7 DEF StoreRejected, TypeInv, TypeOK, ControllerTypeOK, FieldIsSet, Serving, TransactionIDs
  <2>2. checkoutEvents' \subseteq CheckoutEvent
    BY <1>7, <2>1
       DEF StoreRejected, putEvent, CheckoutEvent, FinalStates, TypeInv, TypeOK,
           ControllerTypeOK, TransactionIDs
  <2> QED BY <1>7, <2>2
       DEF StoreRejected, TypeInv, TypeOK, TopicTypeOK, ControllerTypeOK, FieldIsSet, Serving,
           Answered, topicVars, offsets
<1>8. CASE CallFails(c)
  <2>1. TopicTypeOK'
    BY <1>8, TopicTypeFault DEF CallFails, TypeInv, TypeOK
  <2> QED BY <1>8, <2>1
       DEF CallFails, TypeInv, TypeOK, ControllerTypeOK, FieldIsSet, Serving, Answered
<1> QED BY <1>1, <1>2, <1>3, <1>4, <1>5, <1>6, <1>7, <1>8 DEF InitiateCheckout

\* The orchestrator keeps the types of the topics and of its logs.
LEMMA OrchestratorType ==
    ASSUME TypeOK, OrchestratorRun
    PROVE  TopicTypeOK' /\ OrchestratorTypeOK'
<1> DEFINE m == NextRecord(SagaReply)
           t == m.transactionID
<1>0. LogsTyped(orchestratorLogs) BY DEF TypeOK, OrchestratorTypeOK, LogsTyped
<1>1. m \in MessagesOn(SagaReply)
  BY NextRecordSent DEF OrchestratorRun, Consume, TypeOK, Topics
<1>2. t \in TransactionIDs
  BY <1>1 DEF MessagesOn, Requests, Answers
<1>3. CASE startTransaction(m)
  <2>1. m.order \in Calls
    BY <1>1, <1>3 DEF startTransaction, MessagesOn, Requests, Answers, AnswerStates
  <2>2. PaymentRequest(m.order, t) \in MessagesOn(PaymentRequests)
    BY <1>2, <2>1 DEF PaymentRequest, MessagesOn, Requests
  <2>3. TopicTypeOK'
    BY <1>3, <2>2, TopicTypeConsumeSend DEF startTransaction, OrchestratorRun, TypeOK, Topics
  <2>4. OrchestratorTypeOK'
    <3>1. LogsTyped(openLog(orchestratorLogs, m.order, t)) BY <1>2, <1>0, <2>1, OpenLogType
    <3>2. "START_PAYMENT" \in LogKeys BY DEF LogKeys
    <3>3. LogsTyped(orchestratorLogs') BY <1>3, <3>1, <3>2, UpdateLogType DEF startTransaction
    <3> QED BY <3>3 DEF LogsTyped, OrchestratorTypeOK
  <2> QED BY <2>3, <2>4
<1>4. CASE sendKitchenApprovalRequest(m)
  <2>1. KitchenRequest(orchestratorLogs[t].order, t) \in MessagesOn(KitchenRequests)
    BY <1>2, <1>4 DEF sendKitchenApprovalRequest, KitchenRequest, MessagesOn, Requests, TypeOK,
                      OrchestratorTypeOK, TransactionLogs
  <2>2. TopicTypeOK'
    BY <1>4, <2>1, TopicTypeConsumeSend
       DEF sendKitchenApprovalRequest, OrchestratorRun, TypeOK, Topics
  <2>3. OrchestratorTypeOK'
    <3>1. LogsTyped(updateLog(orchestratorLogs, t, "END_PAYMENT "))
      BY <1>0, UpdateLogType DEF LogKeys
    <3>2. "START_KITCHEN_APPROVAL" \in LogKeys BY DEF LogKeys
    <3>3. LogsTyped(orchestratorLogs')
      BY <1>4, <3>1, <3>2, UpdateLogType DEF sendKitchenApprovalRequest
    <3> QED BY <3>3 DEF LogsTyped, OrchestratorTypeOK
  <2> QED BY <2>2, <2>3
<1>5. CASE sendCompensationRequest(m)
  <2>1. CompensatePaymentRequest(orchestratorLogs[t].order, t) \in MessagesOn(PaymentRequests)
    BY <1>2, <1>5 DEF sendCompensationRequest, CompensatePaymentRequest, MessagesOn, Requests,
                      TypeOK, OrchestratorTypeOK, TransactionLogs
  <2>2. TopicTypeOK'
    BY <1>5, <2>1, TopicTypeConsumeSend
       DEF sendCompensationRequest, OrchestratorRun, TypeOK, Topics
  <2>3. OrchestratorTypeOK'
    <3>1. LogsTyped(updateLog(orchestratorLogs, t, "END_KITCHEN_APPROVAL"))
      BY <1>0, UpdateLogType DEF LogKeys
    <3>2. "START_COMPENSATE_REQUEST" \in LogKeys BY DEF LogKeys
    <3>3. LogsTyped(orchestratorLogs')
      BY <1>5, <3>1, <3>2, UpdateLogType DEF sendCompensationRequest
    <3> QED BY <3>3 DEF LogsTyped, OrchestratorTypeOK
  <2> QED BY <2>2, <2>3
<1>6. CASE ignoreUnknownTransaction(m)
  BY <1>6, TopicTypeConsume
     DEF ignoreUnknownTransaction, OrchestratorRun, TypeOK, OrchestratorTypeOK, Topics
<1>7. CASE sendFinalizeTransactionRequest(m)
  <2>1. FinalizeOrderMessage(finalState(m.kind), t) \in MessagesOn(CheckoutReply)
    BY <1>2 DEF FinalizeOrderMessage, finalState, MessagesOn, Answers, FinalStates
  <2>2. TopicTypeOK'
    BY <1>7, <2>1, TopicTypeConsumeSend
       DEF sendFinalizeTransactionRequest, OrchestratorRun, TypeOK, Topics
  <2>3. OrchestratorTypeOK'
    BY <1>7 DEF sendFinalizeTransactionRequest, dropTransactionLog, OrchestratorTypeOK, TypeOK
  <2> QED BY <2>2, <2>3
<1> QED BY <1>3, <1>4, <1>5, <1>6, <1>7 DEF OrchestratorRun, elaborateMessage

\* A row is stored for a transaction with an ID.
LEMMA SavePaymentType ==
    ASSUME PaymentTypeOK, NEW task \in PaymentTask, NEW status \in PaymentStatus,
           savePayment(task, status)
    PROVE  paymentEvents' \in [Calls -> Seq(PaymentEvent)]
<1> DEFINE row == [status |-> status, order |-> task.order]
<1>1. task.transactionID \in Calls /\ row \in PaymentEvent
  BY DEF savePayment, PaymentTask, TransactionIDs, PaymentEvent
<1>2. Append(paymentEvents[task.transactionID], row) \in Seq(PaymentEvent)
  BY <1>1 DEF PaymentTypeOK
<1> QED BY <1>1, <1>2 DEF savePayment, PaymentTypeOK

\* The payment service keeps the types of the topics, its tasks and its rows.
LEMMA PaymentType ==
    ASSUME TypeOK, PaymentSubscriber \/ PaymentThread \/ PaymentCrash
    PROVE  TopicTypeOK' /\ PaymentTypeOK'
<1>1. CASE PaymentSubscriber
  <2> DEFINE m == NextRecord(PaymentRequests)
  <2>1. m \in MessagesOn(PaymentRequests) /\ position[PaymentRequests] \in Nat
    BY <1>1, NextRecordSent DEF PaymentSubscriber, Consume, HasRecord, TypeOK, TopicTypeOK, Topics
  <2>2. m \in Requests({"PAYMENT_REQUEST", "COMPENSATE_REQUEST"})
    BY <2>1 DEF MessagesOn
  <2>3. [offset |-> position[PaymentRequests], kind |-> m.kind, order |-> m.order,
         transactionID |-> m.transactionID, pc |-> "submitted"] \in PaymentTask
    BY <2>1, <2>2 DEF Requests, PaymentTask
  <2>4. PaymentTypeOK'
    BY <1>1, <2>3 DEF PaymentSubscriber, PaymentTypeOK, TypeOK
  <2>5. TopicTypeOK'
    BY <1>1, TopicTypeConsume DEF PaymentSubscriber, TypeOK, Topics
  <2> QED BY <2>4, <2>5
<1>2. ASSUME NEW task \in paymentTasks, PaymentRequested(task)
      PROVE  TopicTypeOK' /\ PaymentTypeOK'
  <2>1. task \in PaymentTask BY DEF TypeOK, PaymentTypeOK
  <2>2. [task EXCEPT !.pc = "requested"] \in PaymentTask BY <2>1 DEF PaymentTask
  <2>5. paymentEvents' \in [Calls -> Seq(PaymentEvent)]
    BY <1>2, <2>1, SavePaymentType DEF PaymentRequested, PaymentStatus, TypeOK
  <2> QED BY <1>2, <2>2, <2>5
       DEF PaymentRequested, PaymentMoves, TypeOK, TopicTypeOK, PaymentTypeOK, topicVars, offsets
<1>3. ASSUME NEW task \in paymentTasks, PaymentAccepted(task)
      PROVE  TopicTypeOK' /\ PaymentTypeOK'
  <2>1. task \in PaymentTask BY DEF TypeOK, PaymentTypeOK
  <2>2. [task EXCEPT !.pc = "accepted"] \in PaymentTask BY <2>1 DEF PaymentTask
  <2>3. charges' \in [Calls -> Nat]
    <3>1. charges \in [Calls -> Nat] BY DEF TypeOK, PaymentTypeOK
    <3>2. charges' = [charges EXCEPT ![task.transactionID] = @ + 1] BY <1>3 DEF PaymentAccepted
    <3>3. \A t \in Calls : charges'[t] = charges[t] \/ charges'[t] = charges[t] + 1
      BY <3>1, <3>2
    <3>4. DOMAIN charges' = Calls /\ charges' = [t \in Calls |-> charges'[t]]
      BY <3>1, <3>2
    <3>5. \A t \in Calls : charges'[t] \in Nat BY <3>1, <3>3
    <3> QED BY <3>4, <3>5
  <2> QED BY <1>3, <2>2, <2>3
       DEF PaymentAccepted, PaymentMoves, TypeOK, TopicTypeOK, PaymentTypeOK, topicVars, offsets
<1>4. ASSUME NEW task \in paymentTasks, PaymentAborted(task)
      PROVE  TopicTypeOK' /\ PaymentTypeOK'
  <2>1. task \in PaymentTask BY DEF TypeOK, PaymentTypeOK
  <2>2. [task EXCEPT !.pc = "aborted"] \in PaymentTask BY <2>1 DEF PaymentTask
  <2>5. paymentEvents' \in [Calls -> Seq(PaymentEvent)]
    BY <1>4, <2>1, SavePaymentType DEF PaymentAborted, PaymentStatus, TypeOK
  <2> QED BY <1>4, <2>2, <2>5
       DEF PaymentAborted, PaymentMoves, TypeOK, TopicTypeOK, PaymentTypeOK, topicVars, offsets
<1>5. ASSUME NEW task \in paymentTasks, PaymentRolledBack(task)
      PROVE  TopicTypeOK' /\ PaymentTypeOK'
  <2>1. task \in PaymentTask BY DEF TypeOK, PaymentTypeOK
  <2>2. [task EXCEPT !.pc = "rolledBack"] \in PaymentTask BY <2>1 DEF PaymentTask
  <2>5. paymentEvents' \in [Calls -> Seq(PaymentEvent)]
    BY <1>5, <2>1, SavePaymentType DEF PaymentRolledBack, PaymentStatus, TypeOK
  <2> QED BY <1>5, <2>2, <2>5
       DEF PaymentRolledBack, PaymentMoves, TypeOK, TopicTypeOK, PaymentTypeOK, topicVars, offsets
<1>6. ASSUME NEW task \in paymentTasks, PaymentFails(task)
      PROVE  TopicTypeOK' /\ PaymentTypeOK'
  <2>1. TopicTypeOK'
    BY <1>6, TopicTypeFault DEF PaymentFails, TypeOK, TopicTypeOK, offsets
  <2> QED BY <1>6, <2>1 DEF PaymentFails, TypeOK, PaymentTypeOK
<1>7. ASSUME NEW task \in paymentTasks, PaymentAnswers(task)
      PROVE  TopicTypeOK' /\ PaymentTypeOK'
  <2>1. task \in PaymentTask BY DEF TypeOK, PaymentTypeOK
  <2>2. SagaAnswer(PaymentAnswer(task.pc), task.transactionID) \in MessagesOn(SagaReply)
    BY <1>7, <2>1
       DEF PaymentAnswers, PaymentAnswer, SagaAnswer, PaymentTask, MessagesOn, Answers, AnswerStates
  <2>3. TopicTypeOK'
    BY <1>7, <2>2, TopicTypeSend DEF PaymentAnswers, TypeOK, Topics
  <2> QED BY <1>7, <2>3 DEF PaymentAnswers, TypeOK, PaymentTypeOK
<1>8. CASE PaymentCrash
  <2>1. TopicTypeOK' BY <1>8, TopicTypeDown DEF PaymentCrash, TypeOK, Topics
  <2> QED BY <1>8, <2>1 DEF PaymentCrash, TypeOK, PaymentTypeOK
<1> QED BY <1>1, <1>2, <1>3, <1>4, <1>5, <1>6, <1>7, <1>8 DEF PaymentThread

\* The kitchen service keeps the types of the topics, its tasks and its rows.
LEMMA KitchenType ==
    ASSUME TypeOK, KitchenSubscriber \/ KitchenThread \/ KitchenCrash
    PROVE  TopicTypeOK' /\ KitchenTypeOK'
<1>1. CASE KitchenSubscriber
  <2> DEFINE m == NextRecord(KitchenRequests)
  <2>1. m \in MessagesOn(KitchenRequests) /\ position[KitchenRequests] \in Nat
    BY <1>1, NextRecordSent DEF KitchenSubscriber, Consume, HasRecord, TypeOK, TopicTypeOK, Topics
  <2>2. m \in Requests({"KITCHEN_REQUEST"})
    BY <2>1 DEF MessagesOn
  <2>3. [offset |-> position[KitchenRequests], order |-> m.order,
         transactionID |-> m.transactionID, pc |-> "submitted"] \in KitchenTask
    BY <2>1, <2>2 DEF Requests, KitchenTask
  <2>4. KitchenTypeOK'
    BY <1>1, <2>3 DEF KitchenSubscriber, KitchenTypeOK, TypeOK
  <2>5. TopicTypeOK'
    BY <1>1, TopicTypeConsume DEF KitchenSubscriber, TypeOK, Topics
  <2> QED BY <2>4, <2>5
<1>2. ASSUME NEW task \in kitchenTasks, KitchenSaves(task)
      PROVE  TopicTypeOK' /\ KitchenTypeOK'
  <2>1. task \in KitchenTask BY DEF TypeOK, KitchenTypeOK
  <2>2. [task EXCEPT !.pc = "saved"] \in KitchenTask BY <2>1 DEF KitchenTask
  <2>3. task.transactionID \in Calls /\ task.order \in Calls
    BY <1>2, <2>1 DEF KitchenSaves, KitchenTask, TransactionIDs
  <2>4. kitchenEvents' \in [Calls -> Seq(Calls)]
    BY <1>2, <2>3 DEF KitchenSaves, TypeOK, KitchenTypeOK
  <2> QED BY <1>2, <2>2, <2>4
       DEF KitchenSaves, TypeOK, TopicTypeOK, KitchenTypeOK, topicVars, offsets
<1>3. ASSUME NEW task \in kitchenTasks, KitchenFails(task)
      PROVE  TopicTypeOK' /\ KitchenTypeOK'
  <2>1. TopicTypeOK'
    BY <1>3, TopicTypeFault DEF KitchenFails, TypeOK, TopicTypeOK, offsets
  <2> QED BY <1>3, <2>1 DEF KitchenFails, TypeOK, KitchenTypeOK
<1>4. ASSUME NEW task \in kitchenTasks, KitchenAnswers(task)
      PROVE  TopicTypeOK' /\ KitchenTypeOK'
  <2>1. task \in KitchenTask BY DEF TypeOK, KitchenTypeOK
  <2>2. PICK state \in {"KITCHEN_ACCEPTED", "KITCHEN_REFUSED"} :
           Send(SagaReply, SagaAnswer(state, task.transactionID))
    BY <1>4 DEF KitchenAnswers
  <2>3. SagaAnswer(state, task.transactionID) \in MessagesOn(SagaReply)
    BY <2>1 DEF SagaAnswer, KitchenTask, MessagesOn, Answers, AnswerStates
  <2>4. TopicTypeOK'
    BY <1>4, <2>2, <2>3, TopicTypeSend DEF KitchenAnswers, TypeOK, Topics
  <2> QED BY <1>4, <2>4 DEF KitchenAnswers, TypeOK, KitchenTypeOK
<1>5. CASE KitchenCrash
  <2>1. TopicTypeOK' BY <1>5, TopicTypeDown DEF KitchenCrash, TypeOK, Topics
  <2> QED BY <1>5, <2>1 DEF KitchenCrash, TypeOK, KitchenTypeOK
<1> QED BY <1>1, <1>2, <1>3, <1>4, <1>5 DEF KitchenThread

LEMMA TypeInit == Init => TypeInv
<1> SUFFICES ASSUME Init PROVE TypeInv OBVIOUS
<1>1. TopicTypeOK
  BY MaxFaultsAssumption DEF Init, TopicInit, TopicTypeOK, NoOffset
<1>2. ControllerTypeOK /\ FieldIsSet
  BY DEF Init, ControllerInit, ControllerTypeOK, FieldIsSet, Serving, TransactionIDs
<1>3. OrchestratorTypeOK
  BY DEF Init, OrchestratorInit, initializeLog, OrchestratorTypeOK
<1>4. PaymentTypeOK BY DEF Init, PaymentInit, PaymentTypeOK
<1>5. KitchenTypeOK BY DEF Init, KitchenInit, KitchenTypeOK
<1> QED BY <1>1, <1>2, <1>3, <1>4, <1>5 DEF TypeInv, TypeOK

LEMMA TypeStep == TypeInv /\ [Next]_vars => TypeInv'
<1> SUFFICES ASSUME TypeInv, [Next]_vars PROVE TypeInv' OBVIOUS
<1> USE DEF TypeInv, TypeOK
<1>1. ASSUME UNCHANGED controllerVars PROVE ControllerTypeOK' /\ FieldIsSet'
  BY <1>1 DEF controllerVars, ControllerTypeOK, FieldIsSet
<1>2. ASSUME UNCHANGED orchestratorLogs PROVE OrchestratorTypeOK'
  BY <1>2 DEF OrchestratorTypeOK
<1>3. ASSUME UNCHANGED paymentVars PROVE PaymentTypeOK'
  BY <1>3 DEF paymentVars, PaymentTypeOK
<1>4. ASSUME UNCHANGED kitchenVars PROVE KitchenTypeOK'
  BY <1>4 DEF kitchenVars, KitchenTypeOK
<1>5. ASSUME NEW c \in Calls, NewCall(c) PROVE TypeInv'
  <2>1. TopicTypeOK' BY <1>5 DEF NewCall, CreateOrder, TopicTypeOK, topicVars, offsets
  <2>2. ControllerTypeOK' /\ FieldIsSet'
    BY <1>5, NullAssumption
       DEF NewCall, CreateOrder, Goto, ControllerTypeOK, FieldIsSet, Serving, storeVars,
           TransactionIDs
  <2> QED BY <1>2, <1>3, <1>4, <1>5, <2>1, <2>2 DEF NewCall
<1>6. ASSUME NEW c \in Calls, CallStep(c) PROVE TypeInv'
  BY <1>2, <1>3, <1>4, <1>6, CallType DEF CallStep
<1>7. CASE CheckoutConsumer
  <2>1. NextRecord(CheckoutReply) \in MessagesOn(CheckoutReply)
    BY <1>7, NextRecordSent DEF CheckoutConsumer, ConsumeMessages, Consume, Topics
  <2>2. ControllerTypeOK' /\ FieldIsSet'
    BY <1>7, <2>1
       DEF CheckoutConsumer, ConsumeMessages, ControllerTypeOK, FieldIsSet, storeVars
  <2>3. TopicTypeOK'
    BY <1>7, TopicTypeConsume DEF CheckoutConsumer, ConsumeMessages, Topics
  <2> QED BY <1>2, <1>3, <1>4, <1>7, <2>2, <2>3 DEF CheckoutConsumer
<1>8. CASE Orchestrator
  BY <1>1, <1>3, <1>4, <1>8, OrchestratorType DEF Orchestrator
<1>9. CASE PaymentPoll \/ PaymentWork
  BY <1>1, <1>2, <1>4, <1>9, PaymentType DEF PaymentPoll, PaymentWork
<1>10. CASE KitchenPoll \/ KitchenWork
  BY <1>1, <1>2, <1>3, <1>10, KitchenType DEF KitchenPoll, KitchenWork
<1>11. ASSUME NEW t \in Topics, Subscribe(t) PROVE TypeInv'
  BY <1>1, <1>2, <1>3, <1>4, <1>11, TopicTypeJoin DEF Subscribe
<1>12. CASE CheckoutCrash
  <2>1. TopicTypeOK' BY <1>12, TopicTypeDown DEF CheckoutCrash, Topics
  <2>2. ControllerTypeOK' /\ FieldIsSet'
    BY <1>12 DEF CheckoutCrash, ControllerDown, ControllerTypeOK, FieldIsSet, Serving, Answered,
                 storeVars, TransactionIDs
  <2>3. OrchestratorTypeOK' BY <1>12 DEF CheckoutCrash, initializeLog, OrchestratorTypeOK
  <2> QED BY <1>3, <1>4, <1>12, <2>1, <2>2, <2>3 DEF CheckoutCrash
<1>13. CASE PaymentCrash /\ UNCHANGED <<controllerVars, orchestratorLogs, kitchenVars>>
  BY <1>1, <1>2, <1>4, <1>13, PaymentType
<1>14. CASE KitchenCrash /\ UNCHANGED <<controllerVars, orchestratorLogs, paymentVars>>
  BY <1>1, <1>2, <1>3, <1>14, KitchenType
<1>15. ASSUME NEW t \in Topics, ProducerRetry(t),
              UNCHANGED <<controllerVars, orchestratorLogs, paymentVars, kitchenVars>>
       PROVE  TypeInv'
  BY <1>1, <1>2, <1>3, <1>4, <1>15, TopicTypeRetry
<1>16. CASE UNCHANGED vars
  BY <1>1, <1>2, <1>3, <1>4, <1>16 DEF vars, topicVars, offsets, TopicTypeOK
<1> QED
  BY <1>5, <1>6, <1>7, <1>8, <1>9, <1>10, <1>11, <1>12, <1>13, <1>14, <1>15, <1>16
     DEF Next, Environment

\* Every variable keeps its type, whatever fails: in particular the controller never
\* publishes a null order, and a task always has an order to work for.
THEOREM TypeCorrect == Spec => []TypeOK
<1>1. TypeInv => TypeOK BY DEF TypeInv
<1> QED BY <1>1, TypeInit, TypeStep, PTL DEF Spec

HIDE DEF SagaReply, PaymentRequests, KitchenRequests, CheckoutReply

-----------------------------------------------------------------------------
(* EverythingHasItsCause.  The facts it speaks of -- a record was sent, a   *)
(* row was stored, a card was charged -- are never taken back (FactsGrow).  *)
(* So a step only has to justify what it adds, and it adds at most one      *)
(* message, one task or one row.                                            *)

\* No fact is taken back.
FactsGrow ==
    /\ \A q \in Topics : \A x : Sent(q, x) => Sent(q, x)'
    /\ \A t \in Calls : \A s : Stored(s, t) => Stored(s, t)'
    /\ \A t \in Calls : charges[t] > 0 => charges'[t] > 0
    /\ \A t \in Calls : kitchenEvents[t] # <<>> => kitchenEvents'[t] # <<>>

\* Nothing but m is new on the topics.
OnlyNew(m) == \A q \in Topics : \A x : Sent(q, x)' => Sent(q, x) \/ x = m

\* The orders' publications are the same.
NoNewOrder ==
    \A o, t \in Calls : Sent(SagaReply, NewOrderMessage(o, t))'
                          => Sent(SagaReply, NewOrderMessage(o, t))

-----------------------------------------------------------------------------
(* What stays justified when facts grow.                                    *)

LEMMA GrowBySend ==
    ASSUME TypeOK, NEW q \in Topics, NEW m, Send(q, m),
           UNCHANGED <<paymentEvents, charges, kitchenEvents>>
    PROVE  FactsGrow /\ OnlyNew(m)
BY SendSent DEF TypeOK, FactsGrow, OnlyNew, Stored

LEMMA GrowQuietly ==
    ASSUME UNCHANGED <<topic, paymentEvents, charges, kitchenEvents>>
    PROVE  FactsGrow /\ NoNewOrder /\ \A m : OnlyNew(m)
BY DEF FactsGrow, OnlyNew, NoNewOrder, Stored, Sent

\* What has been sent has the type of its topic.
LEMMA SentTyped ==
    ASSUME TopicTypeOK, NEW q \in Topics, NEW x, Sent(q, x)
    PROVE  x \in MessagesOn(q)
<1>1. topic[q] \in Seq(MessagesOn(q)) BY DEF TopicTypeOK
<1> QED BY <1>1 DEF Sent

LEMMA JustifiedGrows ==
    ASSUME FactsGrow, NEW q \in Topics, NEW m \in MessagesOn(q), Justified(m)
    PROVE  Justified(m)'
<1>1. m.transactionID \in TransactionIDs
  BY DEF MessagesOn, Requests, Answers, Topics
<1> QED BY <1>1 DEF Justified, FactsGrow, Ordered, Reported, TransactionIDs, Topics

LEMMA MessagesStay ==
    ASSUME TopicTypeOK, MessagesJustified, FactsGrow, NEW m, OnlyNew(m), Justified(m)'
    PROVE  MessagesJustified'
<1>1. ASSUME NEW q \in Topics, NEW x, Sent(q, x)'
      PROVE  Justified(x)'
  <2>1. CASE x = m BY <2>1
  <2>2. CASE Sent(q, x)
    <3>1. Justified(x) BY <2>2 DEF MessagesJustified, Sent
    <3> QED BY <2>2, <3>1, SentTyped, JustifiedGrows
  <2> QED BY <1>1, <2>1, <2>2 DEF OnlyNew
<1> QED BY <1>1 DEF MessagesJustified, Sent

LEMMA MessagesStayQuiet ==
    ASSUME TopicTypeOK, MessagesJustified, FactsGrow, UNCHANGED topic
    PROVE  MessagesJustified'
<1>1. ASSUME NEW q \in Topics, NEW x, Sent(q, x)
      PROVE  Justified(x)'
  <2>1. Justified(x) BY <1>1 DEF MessagesJustified, Sent
  <2> QED BY <1>1, <2>1, SentTyped, JustifiedGrows
<1> QED BY <1>1 DEF MessagesJustified, Sent

LEMMA LogsStay ==
    ASSUME LogsJustified, FactsGrow, UNCHANGED orchestratorLogs
    PROVE  LogsJustified'
BY DEF LogsJustified, FactsGrow, Topics

LEMMA PaymentTaskGrows ==
    ASSUME FactsGrow, NEW task \in PaymentTask, PaymentTaskJustified(task)
    PROVE  PaymentTaskJustified(task)'
<1>1. task.transactionID \in TransactionIDs BY DEF PaymentTask
<1>2. task.pc = "accepted" => task.transactionID # Null
  BY DEF PaymentTaskJustified
<1>3. task.pc = "aborted" => task.transactionID # Null
  BY DEF PaymentTaskJustified
<1> QED BY <1>1, <1>2, <1>3 DEF PaymentTaskJustified, FactsGrow, TransactionIDs, Topics

LEMMA KitchenTaskGrows ==
    ASSUME FactsGrow, NEW task \in KitchenTask, KitchenTaskJustified(task)
    PROVE  KitchenTaskJustified(task)'
<1>1. task.transactionID \in TransactionIDs BY DEF KitchenTask
<1> QED BY <1>1 DEF KitchenTaskJustified, FactsGrow, TransactionIDs, Topics

\* Tasks that end, or stay what they are, need nothing more.
LEMMA TasksStay ==
    ASSUME TypeOK, TasksJustified, FactsGrow,
           paymentTasks' \subseteq paymentTasks, kitchenTasks' \subseteq kitchenTasks
    PROVE  TasksJustified'
<1>1. \A task \in paymentTasks' : PaymentTaskJustified(task)'
  BY PaymentTaskGrows DEF TasksJustified, TypeOK, PaymentTypeOK
<1>2. \A task \in kitchenTasks' : KitchenTaskJustified(task)'
  BY KitchenTaskGrows DEF TasksJustified, TypeOK, KitchenTypeOK
<1> QED BY <1>1, <1>2 DEF TasksJustified

LEMMA RowsStay ==
    ASSUME RowsJustified, FactsGrow, UNCHANGED <<paymentEvents, kitchenEvents>>
    PROVE  RowsJustified'
BY DEF RowsJustified, FactsGrow, Topics

LEMMA AnswersStay ==
    ASSUME AnswersJustified, FactsGrow, UNCHANGED <<pc, kafkaMessageList>>
    PROVE  AnswersJustified'
BY DEF AnswersJustified, AnswerFollowsFinalize, Finalized, FactsGrow, Topics

LEMMA IDsStay ==
    ASSUME IDsIdentifyOrders, NoNewOrder, UNCHANGED <<pc, orderTransactionID>>
    PROVE  IDsIdentifyOrders'
BY DEF IDsIdentifyOrders, Carries, NoNewOrder

-----------------------------------------------------------------------------
(* The steps of the checkout controller.                                    *)

\* A step that publishes nothing, and leaves the tasks, rows and logs alone.
LEMMA QuietStep ==
    ASSUME TypeOK, EverythingHasItsCause,
           UNCHANGED <<topic, orchestratorLogs, paymentVars, kitchenVars>>
    PROVE  /\ MessagesJustified' /\ LogsJustified' /\ TasksJustified' /\ RowsJustified'
           /\ FactsGrow /\ NoNewOrder
<1>1. FactsGrow /\ NoNewOrder BY GrowQuietly DEF paymentVars, kitchenVars
<1>2. MessagesJustified' BY <1>1, MessagesStayQuiet DEF TypeOK, EverythingHasItsCause
<1>3. LogsJustified' BY <1>1, LogsStay DEF EverythingHasItsCause
<1>4. TasksJustified'
  BY <1>1, TasksStay DEF EverythingHasItsCause, paymentVars, kitchenVars
<1>5. RowsJustified'
  BY <1>1, RowsStay DEF EverythingHasItsCause, paymentVars, kitchenVars
<1> QED BY <1>1, <1>2, <1>3, <1>4, <1>5

\* A call that moves on without having heard its answer.
LEMMA MoveUnanswered ==
    ASSUME TypeOK, AnswersJustified, FactsGrow, UNCHANGED kafkaMessageList, NEW c \in Calls,
           NEW next \in {"created", "stored", "identified", "waiting", "failed"},
           pc' = [pc EXCEPT ![c] = next]
    PROVE  AnswersJustified'
BY DEF AnswersJustified, AnswerFollowsFinalize, Finalized, FactsGrow, Topics, TypeOK,
       ControllerTypeOK

\* A call that moves on once its answer is known.
LEMMA MoveAnswered ==
    ASSUME TypeOK, AnswersJustified, FactsGrow, UNCHANGED kafkaMessageList, NEW c \in Calls,
           \/ pc[c] \in {"approving", "recording"} /\ pc' = [pc EXCEPT ![c] = "recording"]
           \/ pc[c] \in {"approving", "recording"} /\ pc' = [pc EXCEPT ![c] = "approved"]
           \/ pc[c] = "rejecting" /\ pc' = [pc EXCEPT ![c] = "rejected"]
    PROVE  AnswersJustified'
BY DEF AnswersJustified, AnswerFollowsFinalize, Finalized, FactsGrow, Topics, TypeOK,
       ControllerTypeOK

\* A call that moves on with no ID set and none published.
LEMMA MoveIDs ==
    ASSUME TypeOK, IDsIdentifyOrders, NoNewOrder, UNCHANGED orderTransactionID,
           NEW c \in Calls, NEW next, pc' = [pc EXCEPT ![c] = next],
           next \in {"created", "stored"} => pc[c] \in {"idle", "created"}, next # "idle"
    PROVE  IDsIdentifyOrders'
<1>1. \A d \in Calls : pc'[d] \in {"idle", "created", "stored"}
                         => pc[d] \in {"idle", "created", "stored"}
  BY DEF TypeOK, ControllerTypeOK
<1> QED BY <1>1 DEF IDsIdentifyOrders, Carries, NoNewOrder

LEMMA CallCause ==
    ASSUME TypeInv, EverythingHasItsCause, NEW c \in Calls, NewCall(c) \/ CallStep(c)
    PROVE  EverythingHasItsCause'
<1> USE DEF Goto, storeVars, topicVars
<1>0. TypeOK /\ AnswersJustified /\ IDsIdentifyOrders
  BY DEF TypeInv, EverythingHasItsCause
<1>1. CASE NewCall(c)
  <2>1. UNCHANGED <<topic, orchestratorLogs, paymentVars, kitchenVars>>
    BY <1>1 DEF NewCall, CreateOrder
  <2>2. AnswersJustified' /\ IDsIdentifyOrders'
    BY <1>0, <1>1, <2>1, QuietStep, MoveUnanswered, MoveIDs DEF NewCall, CreateOrder
  <2> QED BY <1>0, <2>1, <2>2, QuietStep DEF EverythingHasItsCause
<1>2. CASE CallStep(c) /\ StorePending(c)
  <2>1. UNCHANGED <<topic, orchestratorLogs, paymentVars, kitchenVars>>
    BY <1>2 DEF CallStep, StorePending
  <2>2. AnswersJustified' /\ IDsIdentifyOrders'
    BY <1>0, <1>2, <2>1, QuietStep, MoveUnanswered, MoveIDs DEF StorePending
  <2> QED BY <1>0, <2>1, <2>2, QuietStep DEF EverythingHasItsCause
<1>3. CASE CallStep(c) /\ SetTransactionID(c)
  <2>1. UNCHANGED <<topic, orchestratorLogs, paymentVars, kitchenVars>>
    BY <1>3 DEF CallStep, SetTransactionID
  <2>2. AnswersJustified'
    BY <1>0, <1>3, <2>1, QuietStep, MoveUnanswered DEF SetTransactionID
  <2>3. newOrderMessage \in Calls
    BY <1>3 DEF SetTransactionID, TypeInv, TypeOK, ControllerTypeOK, FieldIsSet, Serving,
                TransactionIDs
  <2>4. \A o, t \in Calls : Carries(o, t)' => Carries(o, t) \/ (o = newOrderMessage /\ t = c)
    BY <1>0, <1>3, <2>1, QuietStep
       DEF SetTransactionID, Carries, NoNewOrder, TypeOK, ControllerTypeOK
  <2>5. \A o \in Calls : ~Carries(o, c)
    BY <1>0, <1>3 DEF SetTransactionID, IDsIdentifyOrders
  <2>6. \A d \in Calls : pc'[d] \in {"idle", "created", "stored"} => d # c /\ pc'[d] = pc[d]
    BY <1>0, <1>3 DEF SetTransactionID, TypeOK, ControllerTypeOK
  <2>7. IDsIdentifyOrders' BY <1>0, <2>4, <2>5, <2>6 DEF IDsIdentifyOrders
  <2> QED BY <1>0, <2>1, <2>2, <2>7, QuietStep DEF EverythingHasItsCause
<1>4. CASE CallStep(c) /\ PublishOrder(c)
  <2> PICK o, t : o = newOrderMessage /\ t = orderTransactionID[newOrderMessage] OBVIOUS
  <2> PICK m : m = NewOrderMessage(o, t) OBVIOUS
  <2>1. Send(SagaReply, m) /\ UNCHANGED <<orchestratorLogs, paymentVars, kitchenVars>>
    BY <1>4 DEF CallStep, PublishOrder
  <2>2. FactsGrow /\ OnlyNew(m)
    BY <1>0, <2>1, GrowBySend DEF paymentVars, kitchenVars, Topics
  <2>3. Justified(m)' BY DEF Justified, NewOrderMessage
  <2>4. MessagesJustified'
    BY <1>0, <2>2, <2>3, MessagesStay DEF TypeOK, EverythingHasItsCause
  <2>5. LogsJustified' /\ TasksJustified' /\ RowsJustified'
    BY <1>0, <2>1, <2>2, LogsStay, TasksStay, RowsStay
       DEF EverythingHasItsCause, paymentVars, kitchenVars
  <2>6. AnswersJustified'
    BY <1>0, <1>4, <2>2, MoveUnanswered DEF PublishOrder
  <2>7. o \in Calls
    BY <1>4 DEF PublishOrder, TypeInv, TypeOK, ControllerTypeOK, FieldIsSet, Serving,
                TransactionIDs
  <2>8. \A p, u \in Calls : Carries(p, u)' => Carries(p, u)
    BY <1>4, <2>2, <2>7 DEF PublishOrder, Carries, OnlyNew, NewOrderMessage, Topics
  <2>9. \A d \in Calls : pc'[d] \in {"idle", "created", "stored"} => pc'[d] = pc[d]
    BY <1>0, <1>4 DEF PublishOrder, TypeOK, ControllerTypeOK
  <2>10. IDsIdentifyOrders' BY <1>0, <2>8, <2>9 DEF IDsIdentifyOrders
  <2> QED BY <2>4, <2>5, <2>6, <2>10 DEF EverythingHasItsCause
<1>5. CASE CallStep(c) /\ PollResponse(c)
  <2>1. UNCHANGED <<topic, orchestratorLogs, paymentVars, kitchenVars>>
    BY <1>5 DEF CallStep, PollResponse
  <2>2. PICK i \in DOMAIN kafkaMessageList :
           /\ firstResponse(c, i)
           /\ pc' = [pc EXCEPT ![c] = IF kafkaMessageList[i].kind = "APPROVED"
                                      THEN "approving" ELSE "rejecting"]
    BY <1>5 DEF PollResponse
  <2>3. kafkaMessageList[i] \in Answers(FinalStates)
    BY <1>0 DEF TypeOK, ControllerTypeOK, MessagesOn
  <2>4. \E state \in FinalStates :
           kafkaMessageList[i].kind = state /\ kafkaMessageList[i] = FinalizeOrderMessage(state, c)
    BY <2>2, <2>3 DEF firstResponse, Answers, FinalizeOrderMessage
  <2>5. Sent(CheckoutReply, kafkaMessageList[i])'
    BY <1>0, <1>5, <2>1 DEF PollResponse, AnswersJustified, Sent
  <2>6. Finalized(IF kafkaMessageList[i].kind = "APPROVED" THEN "APPROVED" ELSE "REJECTED", c)'
    BY <1>5, <2>4, <2>5 DEF Finalized, FinalStates, PollResponse
  <2>7. AnswersJustified'
    BY <1>0, <1>5, <2>1, <2>2, <2>6, QuietStep
       DEF AnswersJustified, AnswerFollowsFinalize, Finalized, FactsGrow, Topics, TypeOK,
           ControllerTypeOK, PollResponse
  <2>8. IDsIdentifyOrders'
    BY <1>0, <1>5, <2>1, <2>2, QuietStep, MoveIDs DEF PollResponse
  <2> QED BY <1>0, <2>1, <2>7, <2>8, QuietStep DEF EverythingHasItsCause
<1>6. CASE CallStep(c) /\ (StoreApproved(c) \/ PutRow(c) \/ StoreRejected(c))
  <2>1. UNCHANGED <<topic, orchestratorLogs, paymentVars, kitchenVars>>
    BY <1>6 DEF CallStep, StoreApproved, PutRow, StoreRejected
  <2>2. FactsGrow /\ NoNewOrder BY <1>0, <2>1, QuietStep
  <2>3. AnswersJustified'
    BY <1>0, <1>6, <2>2, MoveAnswered DEF StoreApproved, PutRow, StoreRejected
  <2>4. IDsIdentifyOrders'
    BY <1>0, <1>6, <2>2, MoveIDs DEF StoreApproved, PutRow, StoreRejected
  <2> QED BY <1>0, <2>1, <2>3, <2>4, QuietStep DEF EverythingHasItsCause
<1>7. CASE CallStep(c) /\ CallFails(c)
  <2>1. UNCHANGED <<topic, orchestratorLogs, paymentVars, kitchenVars>>
    BY <1>7 DEF CallStep, CallFails
  <2>2. AnswersJustified' /\ IDsIdentifyOrders'
    BY <1>0, <1>7, <2>1, QuietStep, MoveUnanswered, MoveIDs DEF CallFails
  <2> QED BY <1>0, <2>1, <2>2, QuietStep DEF EverythingHasItsCause
<1> QED BY <1>1, <1>2, <1>3, <1>4, <1>5, <1>6, <1>7 DEF CallStep, InitiateCheckout

-----------------------------------------------------------------------------
(* The steps of the orchestrator, the services and the environment.         *)

\* A service publishes a message that has its cause, and may end a task by it.
LEMMA PublishStep ==
    ASSUME TypeOK, EverythingHasItsCause,
           NEW q \in Topics, NEW m \in MessagesOn(q), Send(q, m), Justified(m),
           m.kind # "NEW_TRANSACTION_REQUEST",
           UNCHANGED <<controllerVars, paymentEvents, charges, kitchenEvents>>,
           paymentTasks' \subseteq paymentTasks, kitchenTasks' \subseteq kitchenTasks
    PROVE  /\ MessagesJustified' /\ TasksJustified' /\ RowsJustified'
           /\ AnswersJustified' /\ IDsIdentifyOrders' /\ FactsGrow
<1>1. FactsGrow /\ OnlyNew(m) BY GrowBySend
<1>2. MessagesJustified'
  BY <1>1, JustifiedGrows, MessagesStay DEF TypeOK, EverythingHasItsCause
<1>3. NoNewOrder BY <1>1 DEF NoNewOrder, OnlyNew, NewOrderMessage, Topics
<1>4. TasksJustified' BY <1>1, TasksStay DEF EverythingHasItsCause
<1>5. RowsJustified' BY <1>1, RowsStay DEF EverythingHasItsCause
<1>6. AnswersJustified' BY <1>1, AnswersStay DEF EverythingHasItsCause, controllerVars
<1>7. IDsIdentifyOrders' BY <1>3, IDsStay DEF EverythingHasItsCause, controllerVars
<1> QED BY <1>1, <1>2, <1>4, <1>5, <1>6, <1>7

LEMMA OrchestratorCause ==
    ASSUME TypeOK, EverythingHasItsCause, Orchestrator
    PROVE  EverythingHasItsCause'
<1> PICK m : m = NextRecord(SagaReply) OBVIOUS
<1> PICK t : t = m.transactionID OBVIOUS
<1>1. Sent(SagaReply, m) /\ m \in MessagesOn(SagaReply)
  BY NextRecordSent DEF Orchestrator, OrchestratorRun, Consume, TypeOK, Topics
<1>2. t \in TransactionIDs
  BY <1>1 DEF MessagesOn, Requests, Answers
<1>3. UNCHANGED <<controllerVars, paymentVars, kitchenVars>> /\ LogsJustified
  BY DEF Orchestrator, EverythingHasItsCause
<1>4. ASSUME NEW q \in Topics, NEW x \in MessagesOn(q), Send(q, x), Justified(x),
             x.kind # "NEW_TRANSACTION_REQUEST",
             \A u \in DOMAIN orchestratorLogs' :
                 Sent(SagaReply, NewOrderMessage(orchestratorLogs'[u].order, u))
      PROVE  EverythingHasItsCause'
  <2>1. /\ MessagesJustified' /\ TasksJustified' /\ RowsJustified'
        /\ AnswersJustified' /\ IDsIdentifyOrders' /\ FactsGrow
    BY <1>3, <1>4, PublishStep DEF paymentVars, kitchenVars
  <2>2. LogsJustified' BY <1>4, <2>1 DEF LogsJustified, FactsGrow, Topics
  <2> QED BY <2>1, <2>2 DEF EverythingHasItsCause
<1>5. ASSUME t \in DOMAIN orchestratorLogs
      PROVE  /\ orchestratorLogs[t].order \in Calls
             /\ Sent(SagaReply, NewOrderMessage(orchestratorLogs[t].order, t))
  BY <1>3, <1>5 DEF LogsJustified, TypeOK, OrchestratorTypeOK, TransactionLogs
<1>6. CASE startTransaction(m)
  <2>1. m.order \in Calls /\ m = NewOrderMessage(m.order, t)
    <3>1. m \in Requests({"NEW_TRANSACTION_REQUEST"})
      BY <1>1, <1>6, MessagesOnEach DEF startTransaction, Answers, AnswerStates
    <3> QED BY <3>1 DEF Requests, NewOrderMessage
  <2> PICK x : x = PaymentRequest(m.order, t) OBVIOUS
  <2>2. x \in MessagesOn(PaymentRequests)
    BY <1>2, <2>1, MessagesOnEach DEF PaymentRequest, Requests
  <2>3. Justified(x) BY <1>1, <2>1 DEF Justified, PaymentRequest
  <2>4. \A u \in DOMAIN orchestratorLogs' :
            Sent(SagaReply, NewOrderMessage(orchestratorLogs'[u].order, u))
    BY <1>1, <1>3, <1>6, <2>1 DEF startTransaction, openLog, updateLog, LogsJustified
  <2> QED BY <1>4, <1>6, <2>2, <2>3, <2>4 DEF startTransaction, PaymentRequest, Topics
<1>7. CASE sendKitchenApprovalRequest(m)
  <2> PICK x : x = KitchenRequest(orchestratorLogs[t].order, t) OBVIOUS
  <2>1. m = SagaAnswer("PAYMENT_ACCEPTED", t)
    BY <1>1, <1>7 DEF sendKitchenApprovalRequest, MessagesOn, Requests, Answers, SagaAnswer
  <2>2. t \in DOMAIN orchestratorLogs BY <1>7 DEF sendKitchenApprovalRequest
  <2>3. x \in MessagesOn(KitchenRequests)
    BY <1>2, <1>5, <2>2, MessagesOnEach DEF KitchenRequest, Requests
  <2>4. Justified(x) BY <1>1, <1>5, <2>1, <2>2 DEF Justified, KitchenRequest, Reported
  <2>5. \A u \in DOMAIN orchestratorLogs' :
            Sent(SagaReply, NewOrderMessage(orchestratorLogs'[u].order, u))
    <3>1. /\ DOMAIN orchestratorLogs' = DOMAIN orchestratorLogs
          /\ \A u \in DOMAIN orchestratorLogs :
                orchestratorLogs'[u].order = orchestratorLogs[u].order
      BY <1>7, <2>2 DEF sendKitchenApprovalRequest, updateLog, TypeOK, OrchestratorTypeOK, TransactionLogs
    <3> QED BY <1>3, <3>1 DEF LogsJustified
  <2> QED BY <1>4, <1>7, <2>3, <2>4, <2>5 DEF sendKitchenApprovalRequest, KitchenRequest, Topics
<1>8. CASE sendCompensationRequest(m)
  <2> PICK x : x = CompensatePaymentRequest(orchestratorLogs[t].order, t) OBVIOUS
  <2>1. m = SagaAnswer("KITCHEN_REFUSED", t)
    BY <1>1, <1>8 DEF sendCompensationRequest, MessagesOn, Requests, Answers, SagaAnswer
  <2>2. t \in DOMAIN orchestratorLogs BY <1>8 DEF sendCompensationRequest
  <2>3. x \in MessagesOn(PaymentRequests)
    BY <1>2, <1>5, <2>2, MessagesOnEach DEF CompensatePaymentRequest, Requests
  <2>4. Justified(x) BY <1>1, <1>5, <2>1, <2>2 DEF Justified, CompensatePaymentRequest, Reported
  <2>5. \A u \in DOMAIN orchestratorLogs' :
            Sent(SagaReply, NewOrderMessage(orchestratorLogs'[u].order, u))
    <3>1. /\ DOMAIN orchestratorLogs' = DOMAIN orchestratorLogs
          /\ \A u \in DOMAIN orchestratorLogs :
                orchestratorLogs'[u].order = orchestratorLogs[u].order
      BY <1>8, <2>2 DEF sendCompensationRequest, updateLog, TypeOK, OrchestratorTypeOK, TransactionLogs
    <3> QED BY <1>3, <3>1 DEF LogsJustified
  <2> QED BY <1>4, <1>8, <2>3, <2>4, <2>5
       DEF sendCompensationRequest, CompensatePaymentRequest, Topics
<1>9. CASE ignoreUnknownTransaction(m)
  <2>1. UNCHANGED <<topic, orchestratorLogs, paymentVars, kitchenVars>>
    BY <1>3, <1>9 DEF ignoreUnknownTransaction
  <2>2. AnswersJustified' /\ IDsIdentifyOrders'
    BY <1>3, <2>1, QuietStep, AnswersStay, IDsStay DEF EverythingHasItsCause, controllerVars
  <2> QED BY <2>1, <2>2, QuietStep DEF EverythingHasItsCause
<1>10. CASE sendFinalizeTransactionRequest(m)
  <2> PICK x : x = FinalizeOrderMessage(finalState(m.kind), t) OBVIOUS
  <2>1. m = SagaAnswer(m.kind, t)
    BY <1>1, <1>10
       DEF sendFinalizeTransactionRequest, MessagesOn, Requests, Answers, SagaAnswer
  <2>2. x \in MessagesOn(CheckoutReply)
    BY <1>2 DEF FinalizeOrderMessage, finalState, MessagesOn, Answers, FinalStates
  <2>3. Justified(x)
    BY <1>1, <1>10, <2>1
       DEF sendFinalizeTransactionRequest, Justified, FinalizeOrderMessage, finalState, Reported
  <2>4. \A u \in DOMAIN orchestratorLogs' :
            Sent(SagaReply, NewOrderMessage(orchestratorLogs'[u].order, u))
    BY <1>3, <1>10 DEF sendFinalizeTransactionRequest, dropTransactionLog, LogsJustified
  <2>5. x.kind # "NEW_TRANSACTION_REQUEST" BY DEF FinalizeOrderMessage, finalState
  <2> QED BY <1>4, <1>10, <2>2, <2>3, <2>4, <2>5 DEF sendFinalizeTransactionRequest, Topics
<1> QED BY <1>6, <1>7, <1>8, <1>9, <1>10 DEF Orchestrator, OrchestratorRun, elaborateMessage

LEMMA CheckoutConsumerCause ==
    ASSUME TypeOK, EverythingHasItsCause, CheckoutConsumer
    PROVE  EverythingHasItsCause'
<1> PICK m : m = NextRecord(CheckoutReply) OBVIOUS
<1>1. UNCHANGED <<topic, orchestratorLogs, paymentVars, kitchenVars, pc, orderTransactionID>>
  BY DEF CheckoutConsumer, ConsumeMessages
<1>2. FactsGrow /\ NoNewOrder BY <1>1, QuietStep
<1>3. Sent(CheckoutReply, m)
  BY NextRecordSent DEF CheckoutConsumer, ConsumeMessages, Consume, TypeOK, Topics
<1>4. \A i \in DOMAIN kafkaMessageList' : Sent(CheckoutReply, kafkaMessageList'[i])
  BY <1>3 DEF CheckoutConsumer, ConsumeMessages, EverythingHasItsCause, AnswersJustified,
              TypeOK, ControllerTypeOK
<1>5. AnswersJustified'
  BY <1>1, <1>2, <1>4
     DEF EverythingHasItsCause, AnswersJustified, AnswerFollowsFinalize, Finalized, FactsGrow,
         Topics
<1>6. IDsIdentifyOrders' BY <1>1, <1>2, IDsStay DEF EverythingHasItsCause
<1> QED BY <1>1, <1>5, <1>6, QuietStep DEF EverythingHasItsCause

\* A service that publishes nothing: its new rows and its tasks need their causes.
LEMMA ServiceStep ==
    ASSUME TypeOK, EverythingHasItsCause, FactsGrow, TasksJustified', RowsJustified',
           UNCHANGED <<topic, controllerVars, orchestratorLogs>>
    PROVE  EverythingHasItsCause'
<1>1. MessagesJustified' BY MessagesStayQuiet DEF TypeOK, EverythingHasItsCause
<1>2. LogsJustified' BY LogsStay DEF EverythingHasItsCause
<1>3. AnswersJustified' BY AnswersStay DEF EverythingHasItsCause, controllerVars
<1>4. NoNewOrder BY DEF NoNewOrder, Sent
<1>5. IDsIdentifyOrders' BY <1>4, IDsStay DEF EverythingHasItsCause, controllerVars
<1> QED BY <1>1, <1>2, <1>3, <1>5 DEF EverythingHasItsCause

\* The order of a payment request was published under the ID it carries.
LEMMA PaymentOrderSent ==
    ASSUME TypeOK, EverythingHasItsCause, NEW task \in paymentTasks
    PROVE  Sent(SagaReply, NewOrderMessage(task.order, task.transactionID))
<1> PICK m : m = [kind |-> task.kind, order |-> task.order,
                  transactionID |-> task.transactionID]
  OBVIOUS
<1>1. Sent(PaymentRequests, m)
  BY DEF EverythingHasItsCause, TasksJustified, PaymentTaskJustified
<1>2. Justified(m) BY <1>1 DEF EverythingHasItsCause, MessagesJustified, Sent, Topics
<1>3. task.kind \in {"PAYMENT_REQUEST", "COMPENSATE_REQUEST"}
  BY DEF TypeOK, PaymentTypeOK, PaymentTask
<1> QED BY <1>2, <1>3 DEF Justified

LEMMA KitchenOrderSent ==
    ASSUME TypeOK, EverythingHasItsCause, NEW task \in kitchenTasks
    PROVE  /\ Sent(SagaReply, NewOrderMessage(task.order, task.transactionID))
           /\ Reported("PAYMENT_ACCEPTED", task.transactionID)
<1> PICK m : m = KitchenRequest(task.order, task.transactionID) OBVIOUS
<1>1. Sent(KitchenRequests, m)
  BY DEF EverythingHasItsCause, TasksJustified, KitchenTaskJustified
<1>2. Justified(m) BY <1>1 DEF EverythingHasItsCause, MessagesJustified, Sent, Topics
<1> QED BY <1>2 DEF Justified, KitchenRequest

\* A row of payment_event more: the rows that were there stay.
LEMMA SavedPayment ==
    ASSUME TypeOK, EverythingHasItsCause, NEW task \in paymentTasks, NEW status \in PaymentStatus,
           savePayment(task, status), UNCHANGED <<topic, charges, kitchenEvents>>
    PROVE  FactsGrow /\ RowsJustified' /\ Stored(status, task.transactionID)'
<1> PICK t : t = task.transactionID OBVIOUS
<1> PICK row : row = [status |-> status, order |-> task.order] OBVIOUS
<1>1. t \in Calls
  BY DEF savePayment, TypeOK, PaymentTypeOK, PaymentTask, TransactionIDs
<1>2. /\ paymentEvents'[t] = Append(paymentEvents[t], row)
      /\ \A u \in Calls : u # t => paymentEvents'[u] = paymentEvents[u]
      /\ \A u \in Calls : paymentEvents[u] \in Seq(PaymentEvent)
  BY <1>1 DEF savePayment, TypeOK, PaymentTypeOK
<1>3. /\ DOMAIN paymentEvents'[t] = 1 .. Len(paymentEvents[t]) + 1
      /\ DOMAIN paymentEvents[t] = 1 .. Len(paymentEvents[t])
      /\ Len(paymentEvents[t]) \in Nat
      /\ paymentEvents'[t][Len(paymentEvents[t]) + 1] = row
      /\ \A i \in DOMAIN paymentEvents[t] : paymentEvents'[t][i] = paymentEvents[t][i]
  BY <1>1, <1>2
<1>4. \A u \in Calls : \A s : Stored(s, u) => Stored(s, u)'
  BY <1>1, <1>2, <1>3 DEF Stored
<1>5. FactsGrow BY <1>4 DEF FactsGrow, Sent
<1>6. Stored(status, t)' BY <1>1, <1>2, <1>3 DEF Stored
<1>7. Sent(SagaReply, NewOrderMessage(row.order, t)) BY PaymentOrderSent
<1>8. RowsJustified'
  <2>1. ASSUME NEW i \in DOMAIN paymentEvents'[t]
        PROVE  Sent(SagaReply, NewOrderMessage(paymentEvents'[t][i].order, t))
    <3>1. CASE i \in DOMAIN paymentEvents[t]
      BY <1>1, <1>3, <3>1 DEF EverythingHasItsCause, RowsJustified
    <3>2. CASE i = Len(paymentEvents[t]) + 1 BY <1>3, <1>7, <3>2
    <3> QED BY <1>3, <2>1, <3>1, <3>2
  <2>2. \A u \in Calls : \A i \in DOMAIN paymentEvents'[u] :
            Sent(SagaReply, NewOrderMessage(paymentEvents'[u][i].order, u))
    BY <1>2, <2>1 DEF EverythingHasItsCause, RowsJustified
  <2>3. \A u \in Calls : \A i \in DOMAIN kitchenEvents[u] :
            Sent(SagaReply, NewOrderMessage(kitchenEvents[u][i], u))
    BY DEF EverythingHasItsCause, RowsJustified
  <2> QED BY <2>2, <2>3 DEF RowsJustified, Sent
<1> QED BY <1>5, <1>6, <1>8

\* A payment task that goes on: only the new form of that task needs its cause.
LEMMA PaymentTaskMoves ==
    ASSUME TypeOK, EverythingHasItsCause, FactsGrow, UNCHANGED kitchenTasks,
           NEW task \in paymentTasks, NEW next,
           PaymentMoves(task, next), PaymentTaskJustified([task EXCEPT !.pc = next])'
    PROVE  TasksJustified'
<1>1. \A u \in paymentTasks' : PaymentTaskJustified(u)'
  BY PaymentTaskGrows
     DEF PaymentMoves, EverythingHasItsCause, TasksJustified, TypeOK, PaymentTypeOK
<1>2. \A u \in kitchenTasks' : KitchenTaskJustified(u)'
  BY KitchenTaskGrows DEF EverythingHasItsCause, TasksJustified, TypeOK, KitchenTypeOK
<1> QED BY <1>1, <1>2 DEF TasksJustified

LEMMA PaymentPollCause ==
    ASSUME TypeOK, EverythingHasItsCause, PaymentPoll
    PROVE  EverythingHasItsCause'
<1> PICK m : m = NextRecord(PaymentRequests) OBVIOUS
<1> PICK task : task = [offset |-> position[PaymentRequests], kind |-> m.kind,
                        order |-> m.order, transactionID |-> m.transactionID,
                        pc |-> "submitted"]
  OBVIOUS
<1>1. /\ UNCHANGED <<topic, paymentEvents, charges, kitchenVars, controllerVars,
                     orchestratorLogs>>
      /\ paymentTasks' = paymentTasks \cup {task}
  BY DEF PaymentPoll, PaymentSubscriber
<1>2. FactsGrow BY <1>1, GrowQuietly DEF kitchenVars
<1>3. Sent(PaymentRequests, m) /\ m \in MessagesOn(PaymentRequests)
  BY NextRecordSent DEF PaymentPoll, PaymentSubscriber, Consume, TypeOK, Topics
<1>4. m = [kind |-> task.kind, order |-> task.order, transactionID |-> task.transactionID]
  BY <1>3, MessagesOnEach DEF Requests
<1>5. PaymentTaskJustified(task)'
  BY <1>1, <1>3, <1>4 DEF PaymentTaskJustified, Sent
<1>6. TasksJustified'
  <2>1. \A u \in paymentTasks' : PaymentTaskJustified(u)'
    BY <1>1, <1>2, <1>5, PaymentTaskGrows
       DEF EverythingHasItsCause, TasksJustified, TypeOK, PaymentTypeOK
  <2>2. \A u \in kitchenTasks' : KitchenTaskJustified(u)'
    BY <1>1, <1>2, KitchenTaskGrows
       DEF EverythingHasItsCause, TasksJustified, TypeOK, KitchenTypeOK, kitchenVars
  <2> QED BY <2>1, <2>2 DEF TasksJustified
<1>7. RowsJustified' BY <1>1, <1>2, RowsStay DEF EverythingHasItsCause, kitchenVars
<1> QED BY <1>1, <1>2, <1>6, <1>7, ServiceStep

LEMMA PaymentWorkCause ==
    ASSUME TypeOK, EverythingHasItsCause, PaymentWork
    PROVE  EverythingHasItsCause'
<1>1. PICK task \in paymentTasks :
         \/ PaymentRequested(task)
         \/ PaymentAccepted(task)
         \/ PaymentAborted(task)
         \/ PaymentRolledBack(task)
         \/ PaymentFails(task)
         \/ PaymentAnswers(task)
  BY DEF PaymentWork, PaymentThread
<1>2. /\ PaymentTaskJustified(task)
      /\ task \in PaymentTask
      /\ UNCHANGED <<controllerVars, orchestratorLogs, kitchenTasks, kitchenEvents>>
  BY DEF PaymentWork, EverythingHasItsCause, TasksJustified, TypeOK, PaymentTypeOK, kitchenVars
<1> PICK t : t = task.transactionID OBVIOUS
<1>3. t \in TransactionIDs BY <1>2 DEF PaymentTask
<1>4. CASE PaymentRequested(task)
  <2>1. FactsGrow /\ RowsJustified' /\ Stored("payment_requested", t)' /\ UNCHANGED topic
    BY <1>2, <1>4, SavedPayment DEF PaymentRequested, PaymentStatus, topicVars
  <2>2. PaymentTaskJustified([task EXCEPT !.pc = "requested"])'
    BY <1>2, <1>4, <2>1
       DEF PaymentRequested, savePayment, PaymentTaskJustified, PaymentTask, Sent
  <2>3. TasksJustified' BY <1>2, <1>4, <2>1, <2>2, PaymentTaskMoves DEF PaymentRequested
  <2> QED BY <1>2, <2>1, <2>3, ServiceStep
<1>5. CASE PaymentAccepted(task)
  <2>1. t \in Calls
    BY <1>2, <1>3, <1>5 DEF PaymentAccepted, PaymentTaskJustified, TransactionIDs
  <2>2. /\ \A u \in Calls : charges[u] \in Nat
        /\ charges'[t] = charges[t] + 1
        /\ \A u \in Calls : u # t => charges'[u] = charges[u]
    BY <1>5, <2>1 DEF PaymentAccepted, TypeOK, PaymentTypeOK
  <2>3. charges'[t] > 0 BY <2>1, <2>2
  <2>4. FactsGrow
    BY <1>2, <1>5, <2>1, <2>2 DEF PaymentAccepted, topicVars, FactsGrow, Sent, Stored
  <2>5. PaymentTaskJustified([task EXCEPT !.pc = "accepted"])'
    BY <1>2, <1>5, <2>1, <2>3, <2>4
       DEF PaymentAccepted, PaymentTaskJustified, PaymentTask, topicVars, FactsGrow, Topics
  <2>6. TasksJustified' BY <1>2, <1>5, <2>4, <2>5, PaymentTaskMoves DEF PaymentAccepted
  <2>7. RowsJustified'
    BY <1>2, <1>5, <2>4, RowsStay DEF PaymentAccepted, EverythingHasItsCause
  <2> QED BY <1>2, <1>5, <2>4, <2>6, <2>7, ServiceStep DEF PaymentAccepted, topicVars
<1>6. CASE PaymentAborted(task)
  <2>1. FactsGrow /\ RowsJustified' /\ Stored("payment_aborted", t)' /\ UNCHANGED topic
    BY <1>2, <1>6, SavedPayment DEF PaymentAborted, PaymentStatus, topicVars
  <2>2. t \in Calls
    BY <1>3, <1>6 DEF PaymentAborted, savePayment, TransactionIDs
  <2>3. PaymentTaskJustified([task EXCEPT !.pc = "aborted"])'
    BY <1>2, <1>6, <2>1, <2>2
       DEF PaymentAborted, PaymentTaskJustified, PaymentTask, FactsGrow, Topics
  <2>4. TasksJustified' BY <1>2, <1>6, <2>1, <2>3, PaymentTaskMoves DEF PaymentAborted
  <2> QED BY <1>2, <2>1, <2>4, ServiceStep
<1>7. CASE PaymentRolledBack(task)
  <2>1. FactsGrow /\ RowsJustified' /\ Stored("payment rejected", t)' /\ UNCHANGED topic
    BY <1>2, <1>7, SavedPayment DEF PaymentRolledBack, PaymentStatus, topicVars
  <2>2. PaymentTaskJustified([task EXCEPT !.pc = "rolledBack"])'
    BY <1>2, <1>7, <2>1
       DEF PaymentRolledBack, savePayment, PaymentTaskJustified, PaymentTask, Sent
  <2>3. TasksJustified' BY <1>2, <1>7, <2>1, <2>2, PaymentTaskMoves DEF PaymentRolledBack
  <2> QED BY <1>2, <2>1, <2>3, ServiceStep
<1>8. CASE PaymentFails(task)
  <2>1. FactsGrow BY <1>2, <1>8, GrowQuietly DEF PaymentFails
  <2>2. TasksJustified' BY <1>2, <1>8, <2>1, TasksStay DEF PaymentFails, EverythingHasItsCause
  <2>3. RowsJustified' BY <1>2, <1>8, <2>1, RowsStay DEF PaymentFails, EverythingHasItsCause
  <2> QED BY <1>2, <1>8, <2>1, <2>2, <2>3, ServiceStep DEF PaymentFails
<1>9. CASE PaymentAnswers(task)
  <2> PICK x : x = SagaAnswer(PaymentAnswer(task.pc), t) OBVIOUS
  <2>1. task.pc \in {"accepted", "aborted", "rolledBack"} BY <1>9 DEF PaymentAnswers
  <2>2. x \in MessagesOn(SagaReply)
    BY <1>3, <2>1, MessagesOnEach DEF SagaAnswer, PaymentAnswer, Answers, AnswerStates
  <2>3. Sent(SagaReply, NewOrderMessage(task.order, t)) /\ task.order \in Calls
    BY <1>2, PaymentOrderSent DEF PaymentTask
  <2> PICK r : r = [kind |-> task.kind, order |-> task.order, transactionID |-> t] OBVIOUS
  <2>4. Sent(PaymentRequests, r) BY <1>2 DEF PaymentTaskJustified
  <2>5. Justified(r) BY <2>4 DEF EverythingHasItsCause, MessagesJustified, Sent, Topics
  <2>6. task.kind = "COMPENSATE_REQUEST" => Reported("KITCHEN_REFUSED", t)
    BY <2>5 DEF Justified
  <2>7. Justified(x)
    <3>1. CASE task.pc = "accepted"
      BY <1>2, <2>3, <3>1
         DEF Justified, SagaAnswer, PaymentAnswer, PaymentTaskJustified, Ordered
    <3>2. CASE task.pc = "aborted"
      BY <1>2, <2>3, <3>2
         DEF Justified, SagaAnswer, PaymentAnswer, PaymentTaskJustified, Ordered
    <3>3. CASE task.pc = "rolledBack"
      BY <1>2, <2>6, <3>3
         DEF Justified, SagaAnswer, PaymentAnswer, PaymentTaskJustified
    <3> QED BY <2>1, <3>1, <3>2, <3>3
  <2>8. x.kind # "NEW_TRANSACTION_REQUEST" BY <2>1 DEF SagaAnswer, PaymentAnswer
  <2>9. /\ MessagesJustified' /\ TasksJustified' /\ RowsJustified'
        /\ AnswersJustified' /\ IDsIdentifyOrders' /\ FactsGrow
    BY <1>2, <1>9, <2>2, <2>7, <2>8, PublishStep DEF PaymentAnswers, Topics
  <2>10. LogsJustified' BY <1>2, <2>9, LogsStay DEF EverythingHasItsCause
  <2> QED BY <2>9, <2>10 DEF EverythingHasItsCause
<1> QED BY <1>1, <1>4, <1>5, <1>6, <1>7, <1>8, <1>9

LEMMA KitchenPollCause ==
    ASSUME TypeOK, EverythingHasItsCause, KitchenPoll
    PROVE  EverythingHasItsCause'
<1> PICK m : m = NextRecord(KitchenRequests) OBVIOUS
<1> PICK task : task = [offset |-> position[KitchenRequests], order |-> m.order,
                        transactionID |-> m.transactionID, pc |-> "submitted"]
  OBVIOUS
<1>1. /\ UNCHANGED <<topic, kitchenEvents, paymentVars, controllerVars, orchestratorLogs>>
      /\ kitchenTasks' = kitchenTasks \cup {task}
  BY DEF KitchenPoll, KitchenSubscriber
<1>2. FactsGrow BY <1>1, GrowQuietly DEF paymentVars
<1>3. Sent(KitchenRequests, m) /\ m \in MessagesOn(KitchenRequests)
  BY NextRecordSent DEF KitchenPoll, KitchenSubscriber, Consume, TypeOK, Topics
<1>4. m = KitchenRequest(task.order, task.transactionID)
  BY <1>3, MessagesOnEach DEF Requests, KitchenRequest
<1>5. KitchenTaskJustified(task)'
  BY <1>1, <1>3, <1>4 DEF KitchenTaskJustified, Sent
<1>6. TasksJustified'
  <2>1. \A u \in kitchenTasks' : KitchenTaskJustified(u)'
    BY <1>1, <1>2, <1>5, KitchenTaskGrows
       DEF EverythingHasItsCause, TasksJustified, TypeOK, KitchenTypeOK
  <2>2. \A u \in paymentTasks' : PaymentTaskJustified(u)'
    BY <1>1, <1>2, PaymentTaskGrows
       DEF EverythingHasItsCause, TasksJustified, TypeOK, PaymentTypeOK, paymentVars
  <2> QED BY <2>1, <2>2 DEF TasksJustified
<1>7. RowsJustified' BY <1>1, <1>2, RowsStay DEF EverythingHasItsCause, paymentVars
<1> QED BY <1>1, <1>2, <1>6, <1>7, ServiceStep

LEMMA KitchenWorkCause ==
    ASSUME TypeOK, EverythingHasItsCause, KitchenWork
    PROVE  EverythingHasItsCause'
<1>1. PICK task \in kitchenTasks :
         KitchenSaves(task) \/ KitchenFails(task) \/ KitchenAnswers(task)
  BY DEF KitchenWork, KitchenThread
<1>2. /\ KitchenTaskJustified(task)
      /\ task \in KitchenTask
      /\ UNCHANGED <<controllerVars, orchestratorLogs, paymentTasks, paymentEvents, charges>>
  BY DEF KitchenWork, EverythingHasItsCause, TasksJustified, TypeOK, KitchenTypeOK, paymentVars
<1> PICK t : t = task.transactionID OBVIOUS
<1>3. t \in TransactionIDs BY <1>2 DEF KitchenTask
<1>4. Sent(SagaReply, NewOrderMessage(task.order, t)) /\ Reported("PAYMENT_ACCEPTED", t)
  BY KitchenOrderSent
<1>5. CASE KitchenSaves(task)
  <2>1. t \in Calls /\ UNCHANGED topic
    BY <1>3, <1>5 DEF KitchenSaves, TransactionIDs, topicVars
  <2>2. /\ kitchenEvents'[t] = Append(kitchenEvents[t], task.order)
        /\ \A u \in Calls : u # t => kitchenEvents'[u] = kitchenEvents[u]
        /\ \A u \in Calls : kitchenEvents[u] \in Seq(Calls)
    BY <1>5, <2>1 DEF KitchenSaves, TypeOK, KitchenTypeOK
  <2>3. kitchenEvents'[t] # <<>> BY <2>1, <2>2
  <2>4. FactsGrow BY <1>2, <2>1, <2>2, <2>3 DEF FactsGrow, Sent, Stored
  <2>5. KitchenTaskJustified([task EXCEPT !.pc = "saved"])'
    <3> PICK u : u = [task EXCEPT !.pc = "saved"] OBVIOUS
    <3>1. u.order = task.order /\ u.transactionID = t BY <1>2 DEF KitchenTask
    <3>2. Sent(KitchenRequests, KitchenRequest(u.order, t))'
      BY <1>2, <2>1, <3>1 DEF KitchenTaskJustified, Sent
    <3>3. t # Null BY <1>5 DEF KitchenSaves
    <3> QED BY <2>3, <3>1, <3>2, <3>3 DEF KitchenTaskJustified
  <2>6. TasksJustified'
    <3>1. \A u \in kitchenTasks' : KitchenTaskJustified(u)'
      BY <1>5, <2>4, <2>5, KitchenTaskGrows
         DEF KitchenSaves, EverythingHasItsCause, TasksJustified, TypeOK, KitchenTypeOK
    <3>2. \A u \in paymentTasks' : PaymentTaskJustified(u)'
      BY <1>2, <2>4, PaymentTaskGrows
         DEF EverythingHasItsCause, TasksJustified, TypeOK, PaymentTypeOK
    <3> QED BY <3>1, <3>2 DEF TasksJustified
  <2>7. RowsJustified'
    <3>1. ASSUME NEW i \in DOMAIN kitchenEvents'[t]
          PROVE  Sent(SagaReply, NewOrderMessage(kitchenEvents'[t][i], t))
      <4>1. CASE i \in DOMAIN kitchenEvents[t]
        BY <2>1, <2>2, <4>1 DEF EverythingHasItsCause, RowsJustified
      <4>2. CASE i = Len(kitchenEvents[t]) + 1 BY <1>4, <2>1, <2>2, <4>2
      <4> QED BY <2>1, <2>2, <3>1, <4>1, <4>2
    <3>2. \A u \in Calls : \A i \in DOMAIN kitchenEvents'[u] :
               Sent(SagaReply, NewOrderMessage(kitchenEvents'[u][i], u))
      BY <2>2, <3>1 DEF EverythingHasItsCause, RowsJustified
    <3>3. \A u \in Calls : \A i \in DOMAIN paymentEvents'[u] :
               Sent(SagaReply, NewOrderMessage(paymentEvents'[u][i].order, u))
      BY <1>2 DEF EverythingHasItsCause, RowsJustified
    <3>4. \A q, x : Sent(q, x)' <=> Sent(q, x) BY <2>1 DEF Sent
    <3> QED BY <3>2, <3>3, <3>4 DEF RowsJustified
  <2> QED BY <1>2, <2>1, <2>4, <2>6, <2>7, ServiceStep
<1>6. CASE KitchenFails(task)
  <2>1. FactsGrow BY <1>2, <1>6, GrowQuietly DEF KitchenFails
  <2>2. TasksJustified' BY <1>2, <1>6, <2>1, TasksStay DEF KitchenFails, EverythingHasItsCause
  <2>3. RowsJustified' BY <1>2, <1>6, <2>1, RowsStay DEF KitchenFails, EverythingHasItsCause
  <2> QED BY <1>2, <1>6, <2>1, <2>2, <2>3, ServiceStep DEF KitchenFails
<1>7. CASE KitchenAnswers(task)
  <2>1. PICK state \in {"KITCHEN_ACCEPTED", "KITCHEN_REFUSED"} :
           Send(SagaReply, SagaAnswer(state, t))
    BY <1>7 DEF KitchenAnswers
  <2> PICK x : x = SagaAnswer(state, t) OBVIOUS
  <2>2. x \in MessagesOn(SagaReply)
    BY <1>3, MessagesOnEach DEF SagaAnswer, Answers, AnswerStates
  <2>3. Justified(x)
    BY <1>2, <1>4, <1>7 DEF Justified, SagaAnswer, KitchenAnswers, KitchenTaskJustified
  <2>4. x.kind # "NEW_TRANSACTION_REQUEST" BY DEF SagaAnswer
  <2>5. /\ MessagesJustified' /\ TasksJustified' /\ RowsJustified'
        /\ AnswersJustified' /\ IDsIdentifyOrders' /\ FactsGrow
    BY <1>2, <1>7, <2>1, <2>2, <2>3, <2>4, PublishStep DEF KitchenAnswers, Topics
  <2>6. LogsJustified' BY <1>2, <2>5, LogsStay DEF EverythingHasItsCause
  <2> QED BY <2>5, <2>6 DEF EverythingHasItsCause
<1> QED BY <1>1, <1>5, <1>6, <1>7

LEMMA SubscribeCause ==
    ASSUME TypeOK, EverythingHasItsCause, NEW q \in Topics, Subscribe(q)
    PROVE  EverythingHasItsCause'
<1>1. UNCHANGED <<topic, controllerVars, orchestratorLogs, paymentVars, kitchenVars>>
  BY DEF Subscribe, Join
<1> QED BY <1>1, QuietStep, AnswersStay, IDsStay DEF EverythingHasItsCause, controllerVars

LEMMA CheckoutCrashCause ==
    ASSUME TypeOK, EverythingHasItsCause, CheckoutCrash
    PROVE  EverythingHasItsCause'
<1>1. UNCHANGED <<topic, orderTransactionID, paymentVars, kitchenVars>>
  BY DEF CheckoutCrash, ConsumersDown, ControllerDown
<1>2. FactsGrow /\ NoNewOrder BY <1>1, GrowQuietly DEF paymentVars, kitchenVars
<1>3. MessagesJustified' BY <1>1, <1>2, MessagesStayQuiet DEF TypeOK, EverythingHasItsCause
<1>4. LogsJustified' BY DEF CheckoutCrash, initializeLog, LogsJustified
<1>5. TasksJustified'
  BY <1>1, <1>2, TasksStay DEF EverythingHasItsCause, paymentVars, kitchenVars
<1>6. RowsJustified'
  BY <1>1, <1>2, RowsStay DEF EverythingHasItsCause, paymentVars, kitchenVars
<1>7. /\ kafkaMessageList' = <<>>
      /\ \A c \in Calls : pc'[c] = IF pc[c] \in Serving THEN "failed" ELSE pc[c]
  BY DEF CheckoutCrash, ControllerDown
<1>8. AnswersJustified'
  BY <1>1, <1>2, <1>7
     DEF EverythingHasItsCause, AnswersJustified, AnswerFollowsFinalize, Finalized, FactsGrow,
         Topics
<1>9. IDsIdentifyOrders'
  <2>1. \A o, t \in Calls : Carries(o, t)' => Carries(o, t)
    BY <1>1, <1>2 DEF Carries, NoNewOrder
  <2>2. \A c \in Calls : pc'[c] \in {"idle", "created", "stored"} => pc'[c] = pc[c]
    BY <1>7
  <2> QED BY <2>1, <2>2 DEF EverythingHasItsCause, IDsIdentifyOrders
<1> QED BY <1>3, <1>4, <1>5, <1>6, <1>8, <1>9 DEF EverythingHasItsCause

LEMMA ServiceCrashCause ==
    ASSUME TypeOK, EverythingHasItsCause, UNCHANGED <<controllerVars, orchestratorLogs>>,
           \/ PaymentCrash /\ UNCHANGED kitchenVars
           \/ KitchenCrash /\ UNCHANGED paymentVars
    PROVE  EverythingHasItsCause'
<1>1. /\ UNCHANGED <<topic, paymentEvents, charges, kitchenEvents>>
      /\ paymentTasks' \subseteq paymentTasks /\ kitchenTasks' \subseteq kitchenTasks
  BY DEF PaymentCrash, KitchenCrash, ConsumersDown, paymentVars, kitchenVars
<1>2. FactsGrow BY <1>1, GrowQuietly
<1>3. TasksJustified' BY <1>1, <1>2, TasksStay DEF EverythingHasItsCause
<1>4. RowsJustified' BY <1>1, <1>2, RowsStay DEF EverythingHasItsCause
<1> QED BY <1>1, <1>2, <1>3, <1>4, ServiceStep

\* A record published again has the cause it had the first time.
LEMMA ProducerRetryCause ==
    ASSUME TypeOK, EverythingHasItsCause, NEW q \in Topics, ProducerRetry(q),
           UNCHANGED <<controllerVars, orchestratorLogs, paymentVars, kitchenVars>>
    PROVE  EverythingHasItsCause'
<1>1. PICK i \in DOMAIN topic[q] : topic' = [topic EXCEPT ![q] = Append(@, topic[q][i])]
  BY DEF ProducerRetry
<1> PICK m : m = topic[q][i] OBVIOUS
<1>2. Sent(q, m) /\ m \in MessagesOn(q) /\ Justified(m)
  BY SentTyped DEF Sent, TypeOK, EverythingHasItsCause, MessagesJustified
<1>3. \A p \in Topics : \A x : Sent(p, x)' <=> Sent(p, x)
  BY <1>1, <1>2, AppendSent DEF TypeOK
<1>4. FactsGrow /\ OnlyNew(m) /\ NoNewOrder
  BY <1>3 DEF FactsGrow, OnlyNew, NoNewOrder, paymentVars, kitchenVars, Stored, Topics
<1>5. MessagesJustified'
  BY <1>2, <1>4, JustifiedGrows, MessagesStay DEF TypeOK, EverythingHasItsCause
<1>6. LogsJustified' BY <1>4, LogsStay DEF EverythingHasItsCause
<1>7. TasksJustified' BY <1>4, TasksStay DEF EverythingHasItsCause, paymentVars, kitchenVars
<1>8. RowsJustified' BY <1>4, RowsStay DEF EverythingHasItsCause, paymentVars, kitchenVars
<1>9. AnswersJustified' BY <1>4, AnswersStay DEF EverythingHasItsCause, controllerVars
<1>10. IDsIdentifyOrders' BY <1>4, IDsStay DEF EverythingHasItsCause, controllerVars
<1> QED BY <1>5, <1>6, <1>7, <1>8, <1>9, <1>10 DEF EverythingHasItsCause

-----------------------------------------------------------------------------
LEMMA CauseInit == Init => EverythingHasItsCause
<1> SUFFICES ASSUME Init PROVE EverythingHasItsCause OBVIOUS
<1>1. /\ topic = [q \in Topics |-> <<>>]
      /\ \A q \in Topics : \A x : ~Sent(q, x)
  BY DEF Init, TopicInit, Sent
<1>2. MessagesJustified BY <1>1 DEF MessagesJustified
<1>3. LogsJustified BY DEF Init, OrchestratorInit, initializeLog, LogsJustified
<1>4. TasksJustified BY DEF Init, PaymentInit, KitchenInit, TasksJustified
<1>5. RowsJustified
  <2>1. \A t \in Calls : paymentEvents[t] = <<>> /\ kitchenEvents[t] = <<>>
    BY DEF Init, PaymentInit, KitchenInit
  <2>2. DOMAIN <<>> = {} OBVIOUS
  <2> QED BY <2>1, <2>2, Zenon DEF RowsJustified
<1>6. AnswersJustified
  BY DEF Init, ControllerInit, AnswersJustified, AnswerFollowsFinalize
<1>7. \A o, t \in Calls : ~Carries(o, t)
  BY <1>1, NullAssumption DEF Init, ControllerInit, Carries, Topics
<1> QED
  BY <1>2, <1>3, <1>4, <1>5, <1>6, <1>7 DEF EverythingHasItsCause, IDsIdentifyOrders

LEMMA CauseStep == TypeInv /\ EverythingHasItsCause /\ [Next]_vars => EverythingHasItsCause'
<1> SUFFICES ASSUME TypeInv, EverythingHasItsCause, [Next]_vars
             PROVE  EverythingHasItsCause'
  OBVIOUS
<1>0. TypeOK BY DEF TypeInv
<1>1. ASSUME NEW c \in Calls, NewCall(c) \/ CallStep(c) PROVE EverythingHasItsCause'
  BY <1>1, CallCause
<1>2. CASE CheckoutConsumer BY <1>0, <1>2, CheckoutConsumerCause
<1>3. CASE Orchestrator BY <1>0, <1>3, OrchestratorCause
<1>4. CASE PaymentPoll BY <1>0, <1>4, PaymentPollCause
<1>5. CASE PaymentWork BY <1>0, <1>5, PaymentWorkCause
<1>6. CASE KitchenPoll BY <1>0, <1>6, KitchenPollCause
<1>7. CASE KitchenWork BY <1>0, <1>7, KitchenWorkCause
<1>8. ASSUME NEW q \in Topics, Subscribe(q) PROVE EverythingHasItsCause'
  BY <1>0, <1>8, SubscribeCause
<1>9. CASE Environment
  BY <1>0, <1>9, CheckoutCrashCause, ServiceCrashCause, ProducerRetryCause DEF Environment
<1>10. CASE UNCHANGED vars
  BY <1>0, <1>10, QuietStep, AnswersStay, IDsStay
     DEF vars, topicVars, controllerVars, EverythingHasItsCause
<1> QED BY <1>1, <1>2, <1>3, <1>4, <1>5, <1>6, <1>7, <1>8, <1>9, <1>10 DEF Next

\* Whatever fails and however calls overlap, every message, task, row and log of the saga
\* has the cause the handlers mean it to have.
THEOREM CauseCorrect == Spec => []EverythingHasItsCause
<1> QED BY CauseInit, CauseStep, TypeInit, TypeStep, PTL DEF Spec

-----------------------------------------------------------------------------
(* What follows.                                                            *)

\* A message that was sent had its cause.
LEMMA SentJustified ==
    ASSUME EverythingHasItsCause, NEW q \in Topics, NEW m, Sent(q, m)
    PROVE  Justified(m)
BY DEF EverythingHasItsCause, MessagesJustified, Sent

LEMMA ApprovalCause == EverythingHasItsCause => ApprovedIsPaidAndCooked
<1> SUFFICES ASSUME EverythingHasItsCause, NEW t \in TransactionIDs, Finalized("APPROVED", t)
             PROVE  /\ t # Null
                    /\ Ordered(t)
                    /\ Stored("payment_requested", t) /\ charges[t] > 0
                    /\ Reported("PAYMENT_ACCEPTED", t)
                    /\ kitchenEvents[t] # <<>> /\ Reported("KITCHEN_ACCEPTED", t)
  BY DEF ApprovedIsPaidAndCooked
<1>1. Justified(FinalizeOrderMessage("APPROVED", t))
  BY SentJustified DEF Finalized, Topics
<1>2. Reported("KITCHEN_ACCEPTED", t) BY <1>1 DEF Justified, FinalizeOrderMessage
<1>3. Justified(SagaAnswer("KITCHEN_ACCEPTED", t))
  BY <1>2, SentJustified DEF Reported, Topics
<1>4. t # Null /\ Reported("PAYMENT_ACCEPTED", t) /\ kitchenEvents[t] # <<>>
  BY <1>3 DEF Justified, SagaAnswer
<1>5. Justified(SagaAnswer("PAYMENT_ACCEPTED", t))
  BY <1>4, SentJustified DEF Reported, Topics
<1> QED BY <1>2, <1>4, <1>5 DEF Justified, SagaAnswer

\* An approval has behind it, under one transaction ID, an order, a stored and charged
\* payment and a kitchen that accepted: what finalState's caller never checks.
THEOREM ApprovalCorrect == Spec => []ApprovedIsPaidAndCooked
<1> QED BY ApprovalCause, CauseCorrect, PTL

LEMMA RejectionCause == EverythingHasItsCause => RejectedIsDeniedOrRefunded
<1> SUFFICES ASSUME EverythingHasItsCause, NEW t \in TransactionIDs, Finalized("REJECTED", t)
             PROVE  /\ t # Null
                    /\ Ordered(t)
                    /\ \/ Stored("payment_aborted", t) /\ Reported("PAYMENT_DENIED", t)
                       \/ /\ Stored("payment rejected", t)
                          /\ Reported("PAYMENT_ROLLBACK_SUCCESS", t)
                          /\ charges[t] > 0 /\ Reported("KITCHEN_REFUSED", t)
  BY DEF RejectedIsDeniedOrRefunded
<1>1. Justified(FinalizeOrderMessage("REJECTED", t))
  BY SentJustified DEF Finalized, Topics
<1>2. Reported("PAYMENT_DENIED", t) \/ Reported("PAYMENT_ROLLBACK_SUCCESS", t)
  BY <1>1 DEF Justified, FinalizeOrderMessage
<1>3. CASE Reported("PAYMENT_DENIED", t)
  <2>1. Justified(SagaAnswer("PAYMENT_DENIED", t))
    BY <1>3, SentJustified DEF Reported, Topics
  <2> QED BY <1>3, <2>1 DEF Justified, SagaAnswer
<1>4. CASE Reported("PAYMENT_ROLLBACK_SUCCESS", t)
  <2>1. Justified(SagaAnswer("PAYMENT_ROLLBACK_SUCCESS", t))
    BY <1>4, SentJustified DEF Reported, Topics
  <2>2. t # Null /\ Reported("KITCHEN_REFUSED", t) /\ Stored("payment rejected", t)
    BY <2>1 DEF Justified, SagaAnswer
  <2>3. Justified(SagaAnswer("KITCHEN_REFUSED", t))
    BY <2>2, SentJustified DEF Reported, Topics
  <2>4. Reported("PAYMENT_ACCEPTED", t) BY <2>3 DEF Justified, SagaAnswer
  <2>5. Justified(SagaAnswer("PAYMENT_ACCEPTED", t))
    BY <2>4, SentJustified DEF Reported, Topics
  <2>6. Ordered(t) /\ charges[t] > 0 BY <2>5 DEF Justified, SagaAnswer
  <2> QED BY <1>4, <2>2, <2>6
<1> QED BY <1>2, <1>3, <1>4

\* A rejection has a stored denial behind it, or a refusing kitchen and a stored refund
\* of a payment that was charged.
THEOREM RejectionCorrect == Spec => []RejectedIsDeniedOrRefunded
<1> QED BY RejectionCause, CauseCorrect, PTL

\* A customer is told what was finalized under the ID the call minted, and nothing else.
THEOREM AnswerCorrect == Spec => []AnswerFollowsFinalize
<1>1. EverythingHasItsCause => AnswerFollowsFinalize
  BY DEF EverythingHasItsCause, AnswersJustified
<1> QED BY <1>1, CauseCorrect, PTL

\* Under one transaction ID one order is published, logged, paid for, refunded and
\* cooked, though calls race on the field that says which.
THEOREM OneOrderPerTransaction == Spec => []SameOrderThroughoutSaga
<1>1. EverythingHasItsCause => SameOrderThroughoutSaga
  <2> SUFFICES ASSUME EverythingHasItsCause, NEW t \in Calls,
                      NEW o \in OrdersUnder(t), NEW p \in OrdersUnder(t)
               PROVE  o = p
    BY DEF SameOrderThroughoutSaga
  <2>1. ASSUME NEW x \in OrdersUnder(t) PROVE x \in Calls /\ Carries(x, t)
    <3>1. x \in Calls BY DEF OrdersUnder
    <3>2. \/ Sent(SagaReply, NewOrderMessage(x, t))
          \/ Sent(PaymentRequests, PaymentRequest(x, t))
          \/ Sent(PaymentRequests, CompensatePaymentRequest(x, t))
          \/ Sent(KitchenRequests, KitchenRequest(x, t))
          \/ \E i \in DOMAIN paymentEvents[t] : paymentEvents[t][i].order = x
          \/ \E i \in DOMAIN kitchenEvents[t] : kitchenEvents[t][i] = x
          \/ t \in DOMAIN orchestratorLogs /\ orchestratorLogs[t].order = x
      BY DEF OrdersUnder
    <3>3. CASE Sent(PaymentRequests, PaymentRequest(x, t))
      <4>1. Justified(PaymentRequest(x, t)) BY <3>3, SentJustified DEF Topics
      <4> QED BY <3>1, <4>1 DEF Justified, PaymentRequest, Carries
    <3>4. CASE Sent(PaymentRequests, CompensatePaymentRequest(x, t))
      <4>1. Justified(CompensatePaymentRequest(x, t)) BY <3>4, SentJustified DEF Topics
      <4> QED BY <3>1, <4>1 DEF Justified, CompensatePaymentRequest, Carries
    <3>5. CASE Sent(KitchenRequests, KitchenRequest(x, t))
      <4>1. Justified(KitchenRequest(x, t)) BY <3>5, SentJustified DEF Topics
      <4> QED BY <3>1, <4>1 DEF Justified, KitchenRequest, Carries
    <3>6. CASE \/ \E i \in DOMAIN paymentEvents[t] : paymentEvents[t][i].order = x
               \/ \E i \in DOMAIN kitchenEvents[t] : kitchenEvents[t][i] = x
      BY <3>1, <3>6 DEF EverythingHasItsCause, RowsJustified, Carries
    <3>7. CASE t \in DOMAIN orchestratorLogs /\ orchestratorLogs[t].order = x
      BY <3>1, <3>7 DEF EverythingHasItsCause, LogsJustified, Carries
    <3> QED BY <3>1, <3>2, <3>3, <3>4, <3>5, <3>6, <3>7 DEF Carries
  <2> QED BY <2>1 DEF EverythingHasItsCause, IDsIdentifyOrders
<1> QED BY <1>1, CauseCorrect, PTL

-----------------------------------------------------------------------------
(* Spec => Promise!Spec.  A step makes at most one fact hold that did not,  *)
(* because it sends one record, stores one row or charges one card; the     *)
(* cause of that fact is there by EverythingHasItsCause; and no step both   *)
(* makes a fact hold and tells a customer.                                  *)

\* The fact a message makes hold of the order whose ID it carries.
FactOf(kind) ==
    CASE kind = "NEW_TRANSACTION_REQUEST" -> "ordered"
      [] kind = "KITCHEN_ACCEPTED"        -> "accepted"
      [] kind = "KITCHEN_REFUSED"         -> "refused"
      [] kind = "APPROVED"                -> "approved"
      [] kind = "REJECTED"                -> "rejected"

Telling == {"NEW_TRANSACTION_REQUEST", "KITCHEN_ACCEPTED", "KITCHEN_REFUSED",
            "APPROVED", "REJECTED"}

\* What changes of the records, rows and charges behind the facts, when fact f becomes
\* true of order t, is the part of f, and of t.
OnlyFact(f, t) ==
    \A u \in Calls :
        /\ Ordered(u)' <=> Ordered(u) \/ (f = "ordered" /\ u = t)
        /\ charges'[u] > 0 <=> charges[u] > 0 \/ (f = "charged" /\ u = t)
        /\ Stored("payment_aborted", u)'
              <=> Stored("payment_aborted", u) \/ (f = "denied" /\ u = t)
        /\ Reported("KITCHEN_ACCEPTED", u)'
              <=> Reported("KITCHEN_ACCEPTED", u) \/ (f = "accepted" /\ u = t)
        /\ Reported("KITCHEN_REFUSED", u)'
              <=> Reported("KITCHEN_REFUSED", u) \/ (f = "refused" /\ u = t)
        /\ Stored("payment rejected", u)'
              <=> Stored("payment rejected", u) \/ (f = "refunded" /\ u = t)
        /\ Finalized("APPROVED", u)'
              <=> Finalized("APPROVED", u) \/ (f = "approved" /\ u = t)
        /\ Finalized("REJECTED", u)'
              <=> Finalized("REJECTED", u) \/ (f = "rejected" /\ u = t)

LEMMA OnlyFactHolds ==
    ASSUME NEW f, NEW t, OnlyFact(f, t)
    PROVE  \A g \in FactNames : \A u \in Calls :
               Holds(g, u)' <=> Holds(g, u) \/ (g = f /\ u = t)
<1> SUFFICES ASSUME NEW g \in FactNames, NEW u \in Calls
             PROVE  Holds(g, u)' <=> Holds(g, u) \/ (g = f /\ u = t)
  OBVIOUS
<1> USE DEF OnlyFact, Holds
<1>1. CASE g = "ordered" BY <1>1
<1>2. CASE g = "charged" BY <1>2
<1>3. CASE g = "denied" BY <1>3
<1>4. CASE g = "accepted" BY <1>4
<1>5. CASE g = "refused" BY <1>5
<1>6. CASE g = "refunded" BY <1>6
<1>7. CASE g = "approved" BY <1>7
<1>8. CASE g = "rejected" BY <1>8
<1> QED BY <1>1, <1>2, <1>3, <1>4, <1>5, <1>6, <1>7, <1>8 DEF FactNames

\* "none" is no fact.
LEMMA SameFacts ==
    ASSUME NEW t, OnlyFact("none", t)
    PROVE  factsOf' = factsOf
<1>1. \A f \in FactNames : f # "none" BY DEF FactNames
<1>2. \A f \in FactNames : \A u \in Calls : Holds(f, u)' <=> Holds(f, u)
  BY <1>1, OnlyFactHolds
<1> QED BY <1>2 DEF factsOf

LEMMA OneFact ==
    ASSUME NEW f \in FactNames, NEW t \in Calls, OnlyFact(f, t)
    PROVE  factsOf' = [factsOf EXCEPT ![t] = @ \cup {f}]
<1>1. \A g \in FactNames : \A u \in Calls : Holds(g, u)' <=> Holds(g, u) \/ (g = f /\ u = t)
  BY OnlyFactHolds
<1>2. factsOf'[t] = factsOf[t] \cup {f} BY <1>1 DEF factsOf
<1>3. \A u \in Calls \ {t} : factsOf'[u] = factsOf[u] BY <1>1 DEF factsOf
<1>4. /\ factsOf = [u \in Calls |-> factsOf[u]]
      /\ factsOf' = [u \in Calls |-> factsOf'[u]]
  BY DEF factsOf
<1> QED BY <1>2, <1>3, <1>4

LEMMA QuietFacts ==
    ASSUME UNCHANGED <<topic, charges, paymentEvents>>
    PROVE  factsOf' = factsOf
<1>1. OnlyFact("none", "none") BY DEF OnlyFact, Ordered, Stored, Reported, Finalized, Sent
<1> QED BY <1>1, SameFacts

\* A message that tells no fact.
LEMMA SilentFacts ==
    ASSUME TypeOK, NEW q \in Topics, NEW m, Send(q, m), m.kind \notin Telling,
           UNCHANGED <<charges, paymentEvents>>
    PROVE  factsOf' = factsOf
<1>1. \A p \in Topics : \A x : x.kind \in Telling => (Sent(p, x)' <=> Sent(p, x))
  BY SendSent DEF TypeOK
<1>2. \A u \in Calls : Ordered(u)' <=> Ordered(u)
  BY <1>1 DEF Ordered, NewOrderMessage, Telling, Topics
<1>3. \A u \in Calls : \A s \in {"KITCHEN_ACCEPTED", "KITCHEN_REFUSED"} :
         Reported(s, u)' <=> Reported(s, u)
  BY <1>1 DEF Reported, SagaAnswer, Telling, Topics
<1>4. \A u \in Calls : \A s \in {"APPROVED", "REJECTED"} : Finalized(s, u)' <=> Finalized(s, u)
  BY <1>1 DEF Finalized, FinalizeOrderMessage, Telling, Topics
<1>5. OnlyFact("none", "none") BY <1>2, <1>3, <1>4 DEF OnlyFact, Stored
<1> QED BY <1>5, SameFacts

\* A message that is sent leaves the facts as they are, or makes the one it tells hold.
LEMMA SentFacts ==
    ASSUME TypeOK, NEW q \in Topics, NEW m \in MessagesOn(q), Send(q, m),
           UNCHANGED <<charges, paymentEvents>>
    PROVE  \/ factsOf' = factsOf
           \/ /\ m.kind \in Telling /\ m.transactionID \in Calls
              /\ factsOf' = [factsOf EXCEPT ![m.transactionID] = @ \cup {FactOf(m.kind)}]
<1>1. CASE UNCHANGED topic BY <1>1, QuietFacts
<1>2. CASE topic' = [topic EXCEPT ![q] = Append(@, m)]
  <2>1. \A p \in Topics : \A x : Sent(p, x)' <=> Sent(p, x) \/ (p = q /\ x = m)
    <3>1. \A p \in Topics : \A x : /\ Sent(p, x) => Sent(p, x)'
                                   /\ Sent(p, x)' => Sent(p, x) \/ (p = q /\ x = m)
      BY <1>2, AppendSent DEF TypeOK
    <3>2. Sent(q, m)'
      <4>1. topic[q] \in Seq(MessagesOn(q)) BY DEF TypeOK, TopicTypeOK
      <4>2. /\ topic'[q] = Append(topic[q], m)
            /\ Len(topic[q]) + 1 \in DOMAIN topic'[q]
            /\ topic'[q][Len(topic[q]) + 1] = m
        BY <1>2, <4>1 DEF TypeOK, TopicTypeOK
      <4> QED BY <4>2 DEF Sent
    <3> QED BY <3>1, <3>2
  <2>2. m.transactionID \in Calls \/ m.transactionID = Null
    <3>1. CASE q = SagaReply
      BY <3>1, MessagesOnEach DEF Requests, Answers, TransactionIDs
    <3>2. CASE q = PaymentRequests BY <3>2, MessagesOnEach DEF Requests, TransactionIDs
    <3>3. CASE q = KitchenRequests BY <3>3, MessagesOnEach DEF Requests, TransactionIDs
    <3>4. CASE q = CheckoutReply BY <3>4, MessagesOnEach DEF Answers, TransactionIDs
    <3> QED BY <3>1, <3>2, <3>3, <3>4 DEF Topics
  <2>3. /\ m.kind = "NEW_TRANSACTION_REQUEST" =>
              q = SagaReply /\ m.order \in Calls /\ m = NewOrderMessage(m.order, m.transactionID)
        /\ m.kind \in {"KITCHEN_ACCEPTED", "KITCHEN_REFUSED"} =>
              q = SagaReply /\ m = SagaAnswer(m.kind, m.transactionID)
        /\ m.kind \in {"APPROVED", "REJECTED"} =>
              q = CheckoutReply /\ m = FinalizeOrderMessage(m.kind, m.transactionID)
    <3> USE DEF NewOrderMessage, SagaAnswer, FinalizeOrderMessage
    <3>1. CASE q = SagaReply /\ m \in Requests({"NEW_TRANSACTION_REQUEST"})
      BY <3>1 DEF Requests
    <3>2. CASE q = SagaReply /\ m \in Answers(AnswerStates)
      BY <3>2 DEF Answers, AnswerStates
    <3>3. CASE q = PaymentRequests BY <3>3, MessagesOnEach DEF Requests
    <3>4. CASE q = KitchenRequests BY <3>4, MessagesOnEach DEF Requests
    <3>5. CASE q = CheckoutReply BY <3>5, MessagesOnEach DEF Answers, FinalStates
    <3> QED BY <3>1, <3>2, <3>3, <3>4, <3>5, MessagesOnEach DEF Topics
  <2>4. \A t \in Calls :
           /\ Ordered(t)' <=> Ordered(t) \/ (m.kind = "NEW_TRANSACTION_REQUEST"
                                               /\ m.transactionID = t)
           /\ \A s \in {"KITCHEN_ACCEPTED", "KITCHEN_REFUSED"} :
                Reported(s, t)' <=> Reported(s, t) \/ (m.kind = s /\ m.transactionID = t)
           /\ \A s \in {"APPROVED", "REJECTED"} :
                Finalized(s, t)' <=> Finalized(s, t) \/ (m.kind = s /\ m.transactionID = t)
    <3> TAKE t \in Calls
    <3>1. Ordered(t)' <=> Ordered(t) \/ (m.kind = "NEW_TRANSACTION_REQUEST"
                                           /\ m.transactionID = t)
      BY <2>1, <2>3 DEF Ordered, NewOrderMessage, Topics
    <3>2. ASSUME NEW s \in {"KITCHEN_ACCEPTED", "KITCHEN_REFUSED"}
          PROVE  Reported(s, t)' <=> Reported(s, t) \/ (m.kind = s /\ m.transactionID = t)
      BY <2>1, <2>3 DEF Reported, SagaAnswer, Topics
    <3>3. ASSUME NEW s \in {"APPROVED", "REJECTED"}
          PROVE  Finalized(s, t)' <=> Finalized(s, t) \/ (m.kind = s /\ m.transactionID = t)
      BY <2>1, <2>3 DEF Finalized, FinalizeOrderMessage, Topics
    <3> QED BY <3>1, <3>2, <3>3
  <2>5. \A t \in Calls : \A s : Stored(s, t)' <=> Stored(s, t) BY DEF Stored
  <2>6. CASE m.kind \in Telling /\ m.transactionID \in Calls
    <3>1. FactOf(m.kind) \in FactNames BY <2>6 DEF FactOf, Telling, FactNames
    <3>2. OnlyFact(FactOf(m.kind), m.transactionID)
      <4>1. CASE m.kind = "NEW_TRANSACTION_REQUEST"
        BY <2>4, <2>5, <4>1 DEF OnlyFact, FactOf
      <4>2. CASE m.kind = "KITCHEN_ACCEPTED" BY <2>4, <2>5, <4>2 DEF OnlyFact, FactOf
      <4>3. CASE m.kind = "KITCHEN_REFUSED" BY <2>4, <2>5, <4>3 DEF OnlyFact, FactOf
      <4>4. CASE m.kind = "APPROVED" BY <2>4, <2>5, <4>4 DEF OnlyFact, FactOf
      <4>5. CASE m.kind = "REJECTED" BY <2>4, <2>5, <4>5 DEF OnlyFact, FactOf
      <4> QED BY <2>6, <4>1, <4>2, <4>3, <4>4, <4>5 DEF Telling
    <3> QED BY <2>6, <3>1, <3>2, OneFact
  <2>7. CASE ~(m.kind \in Telling /\ m.transactionID \in Calls)
    <3>1. OnlyFact("none", "none")
      BY <2>2, <2>4, <2>5, <2>7, NullAssumption DEF OnlyFact, Telling
    <3> QED BY <3>1, SameFacts
  <2> QED BY <2>6, <2>7
<1> QED BY <1>1, <1>2 DEF Send

\* A row that is stored makes at most the fact it tells hold.
LEMMA StoredFacts ==
    ASSUME TypeOK, NEW task \in paymentTasks, NEW status \in PaymentStatus,
           savePayment(task, status), UNCHANGED <<topic, charges>>
    PROVE  LET t == task.transactionID IN
           /\ t \in Calls
           /\ status = "payment_requested" => factsOf' = factsOf
           /\ status = "payment_aborted" =>
                factsOf' = [factsOf EXCEPT ![t] = @ \cup {"denied"}]
           /\ status = "payment rejected" =>
                factsOf' = [factsOf EXCEPT ![t] = @ \cup {"refunded"}]
<1> PICK t : t = task.transactionID OBVIOUS
<1> PICK row : row = [status |-> status, order |-> task.order] OBVIOUS
<1>1. t \in Calls
  BY DEF savePayment, TypeOK, PaymentTypeOK, PaymentTask, TransactionIDs
<1>2. /\ paymentEvents'[t] = Append(paymentEvents[t], row)
      /\ \A u \in Calls : u # t => paymentEvents'[u] = paymentEvents[u]
      /\ \A u \in Calls : paymentEvents[u] \in Seq(PaymentEvent)
  BY <1>1 DEF savePayment, TypeOK, PaymentTypeOK
<1>3. /\ DOMAIN paymentEvents'[t] = 1 .. Len(paymentEvents[t]) + 1
      /\ DOMAIN paymentEvents[t] = 1 .. Len(paymentEvents[t])
      /\ Len(paymentEvents[t]) \in Nat
      /\ paymentEvents'[t][Len(paymentEvents[t]) + 1] = row
      /\ \A i \in DOMAIN paymentEvents[t] : paymentEvents'[t][i] = paymentEvents[t][i]
  BY <1>1, <1>2
<1>4. \A u \in Calls : \A s : Stored(s, u)' <=> Stored(s, u) \/ (s = status /\ u = t)
  <2>1. \A u \in Calls \ {t} : \A s : Stored(s, u)' <=> Stored(s, u)
    BY <1>2 DEF Stored
  <2>2. \A s : Stored(s, t) => Stored(s, t)' BY <1>3 DEF Stored
  <2>3. Stored(status, t)' BY <1>3 DEF Stored
  <2>4. \A s : Stored(s, t)' => Stored(s, t) \/ s = status BY <1>3 DEF Stored
  <2> QED BY <2>1, <2>2, <2>3, <2>4
<1>5. \A u \in Calls : /\ Ordered(u)' <=> Ordered(u)
                       /\ \A s : Reported(s, u)' <=> Reported(s, u)
                       /\ \A s : Finalized(s, u)' <=> Finalized(s, u)
  BY DEF Ordered, Reported, Finalized, Sent
<1>6. CASE status = "payment_requested"
  <2>1. OnlyFact("none", t) BY <1>4, <1>5, <1>6 DEF OnlyFact
  <2> QED BY <1>1, <1>6, <2>1, SameFacts
<1>7. CASE status = "payment_aborted"
  <2>1. OnlyFact("denied", t) BY <1>4, <1>5, <1>7 DEF OnlyFact
  <2>2. factsOf' = [factsOf EXCEPT ![t] = @ \cup {"denied"}]
    BY <1>1, <2>1, OneFact DEF FactNames
  <2> QED BY <1>1, <1>7, <2>2
<1>8. CASE status = "payment rejected"
  <2>1. OnlyFact("refunded", t) BY <1>4, <1>5, <1>8 DEF OnlyFact
  <2>2. factsOf' = [factsOf EXCEPT ![t] = @ \cup {"refunded"}]
    BY <1>1, <2>1, OneFact DEF FactNames
  <2> QED BY <1>1, <1>8, <2>2
<1> QED BY <1>6, <1>7, <1>8 DEF PaymentStatus

LEMMA ChargedFacts ==
    ASSUME TypeOK, NEW t \in Calls, charges' = [charges EXCEPT ![t] = @ + 1],
           UNCHANGED <<topic, paymentEvents>>
    PROVE  factsOf' = [factsOf EXCEPT ![t] = @ \cup {"charged"}]
<1>1. \A u \in Calls : charges'[u] > 0 <=> charges[u] > 0 \/ u = t
  BY DEF TypeOK, PaymentTypeOK
<1>2. OnlyFact("charged", t)
  BY <1>1 DEF OnlyFact, Ordered, Stored, Reported, Finalized, Sent
<1> QED BY <1>2, OneFact DEF FactNames

\* A record that is published again tells nothing new.
LEMMA RetryFacts ==
    ASSUME TypeOK, NEW q \in Topics, ProducerRetry(q), UNCHANGED <<charges, paymentEvents>>
    PROVE  factsOf' = factsOf
<1>1. PICK i \in DOMAIN topic[q] : topic' = [topic EXCEPT ![q] = Append(@, topic[q][i])]
  BY DEF ProducerRetry
<1> PICK m : m = topic[q][i] OBVIOUS
<1>2. Sent(q, m) BY DEF Sent
<1>3. \A p \in Topics : \A x : Sent(p, x)' <=> Sent(p, x)
  BY <1>1, <1>2, AppendSent DEF TypeOK
<1>4. OnlyFact("none", "none")
  BY <1>3 DEF OnlyFact, Topics, Ordered, Reported, Finalized, Stored
<1> QED BY <1>4, SameFacts

-----------------------------------------------------------------------------
(* The steps.                                                               *)

PromiseStep == [Promise!Next]_(Promise!promiseVars)

LEMMA ToldSame ==
    ASSUME UNCHANGED pc
    PROVE  toldTo' = toldTo
BY DEF toldTo

LEMMA MoveTold ==
    ASSUME ControllerTypeOK, NEW c \in Calls, NEW next,
           pc' = [pc EXCEPT ![c] = next], pc[c] \notin Answered, next \notin Answered
    PROVE  toldTo' = toldTo
BY DEF toldTo, ControllerTypeOK

\* A step that tells nobody anything and makes no fact hold is a stutter.
LEMMA Stutter ==
    ASSUME factsOf' = factsOf, toldTo' = toldTo
    PROVE  PromiseStep
BY DEF PromiseStep, Promise!promiseVars

\* A call moves on without telling its customer.
LEMMA MovePromise ==
    ASSUME TypeOK, UNCHANGED <<topic, charges, paymentEvents>>, NEW c \in Calls, NEW next,
           pc' = [pc EXCEPT ![c] = next], pc[c] \notin Answered, next \notin Answered
    PROVE  PromiseStep
BY QuietFacts, MoveTold, Stutter DEF TypeOK

\* A call tells its customer the outcome.
LEMMA TellPromise ==
    ASSUME TypeOK, UNCHANGED <<topic, charges, paymentEvents>>, NEW c \in Calls,
           pc[c] \notin Answered,
           \/ pc' = [pc EXCEPT ![c] = "approved"] /\ Finalized("APPROVED", c)
           \/ pc' = [pc EXCEPT ![c] = "rejected"] /\ Finalized("REJECTED", c)
    PROVE  PromiseStep
<1>1. PICK outcome \in {"approved", "rejected"} :
         pc' = [pc EXCEPT ![c] = outcome] /\ Holds(outcome, c)
  BY DEF Holds
<1>2. outcome \in factsOf[c] BY <1>1 DEF factsOf, FactNames
<1>3. toldTo[c] = "nothing" BY DEF toldTo
<1>4. toldTo' = [toldTo EXCEPT ![c] = outcome]
  BY <1>1 DEF toldTo, Answered, TypeOK, ControllerTypeOK
<1>5. Promise!Tell(c, outcome) BY <1>2, <1>3, <1>4, QuietFacts DEF Promise!Tell
<1> QED BY <1>1, <1>5 DEF PromiseStep, Promise!Next, Promise!Outcomes

\* Calls that are being served fail.
LEMMA FailPromise ==
    ASSUME UNCHANGED <<topic, charges, paymentEvents>>, NEW cs \in SUBSET Calls,
           \A c \in cs : pc[c] \notin Answered,
           pc' = [c \in Calls |-> IF c \in cs THEN "failed" ELSE pc[c]]
    PROVE  PromiseStep
<1>1. toldTo' = [c \in Calls |-> IF c \in cs THEN "failed" ELSE toldTo[c]]
  BY DEF toldTo, Answered
<1>2. \A c \in cs : toldTo[c] = "nothing" BY DEF toldTo
<1>3. Promise!Fail(cs) BY <1>1, <1>2, QuietFacts DEF Promise!Fail
<1> QED BY <1>3 DEF PromiseStep, Promise!Next

LEMMA CallPromise ==
    ASSUME TypeInv, EverythingHasItsCause, UnpublishedIDsAreServed, NEW c \in Calls,
           NewCall(c) \/ CallStep(c)
    PROVE  PromiseStep
<1> USE DEF Goto, topicVars, storeVars, paymentVars
<1>0. TypeOK /\ AnswerFollowsFinalize
  BY DEF TypeInv, EverythingHasItsCause, AnswersJustified
<1>1. CASE NewCall(c)
  BY <1>0, <1>1, MovePromise DEF NewCall, CreateOrder, Answered
<1>2. CASE CallStep(c) /\ StorePending(c)
  BY <1>0, <1>2, MovePromise DEF CallStep, StorePending, Answered
<1>3. CASE CallStep(c) /\ SetTransactionID(c)
  BY <1>0, <1>3, MovePromise DEF CallStep, SetTransactionID, Answered
<1>4. CASE CallStep(c) /\ PublishOrder(c)
  <2> PICK o, t : o = newOrderMessage /\ t = orderTransactionID[newOrderMessage] OBVIOUS
  <2> PICK m : m = NewOrderMessage(o, t) OBVIOUS
  <2>1. o \in Calls /\ t \in TransactionIDs
    BY <1>4 DEF PublishOrder, TypeInv, TypeOK, ControllerTypeOK, FieldIsSet, Serving,
                TransactionIDs
  <2>2. m \in MessagesOn(SagaReply)
    BY <2>1, MessagesOnEach DEF NewOrderMessage, Requests
  <2>3. Send(SagaReply, m) /\ UNCHANGED <<charges, paymentEvents>>
    BY <1>4 DEF CallStep, PublishOrder
  <2>4. toldTo' = toldTo
    <3>1. pc[c] = "identified" /\ pc' = [pc EXCEPT ![c] = "waiting"] BY <1>4 DEF PublishOrder
    <3> QED BY <1>0, <3>1, MoveTold DEF Answered, TypeOK
  <2>5. m.kind = "NEW_TRANSACTION_REQUEST" /\ m.transactionID = t BY DEF NewOrderMessage
  <2>6. CASE factsOf' = factsOf BY <2>4, <2>6, Stutter
  <2>7. CASE t \in Calls /\ factsOf' = [factsOf EXCEPT ![t] = @ \cup {"ordered"}]
    <3>1. CASE Ordered(t)
      <4>1. "ordered" \in factsOf[t] BY <2>7, <3>1 DEF factsOf, Holds, FactNames
      <4>2. factsOf' = factsOf BY <2>7, <4>1 DEF factsOf
      <4> QED BY <2>4, <4>2, Stutter
    <3>2. CASE ~Ordered(t)
      <4>1. pc[t] \in {"identified", "waiting"}
        BY <2>1, <2>7, <3>2, NullAssumption DEF UnpublishedIDsAreServed
      <4>2. toldTo[t] = "nothing" BY <2>7, <4>1 DEF toldTo, Answered
      <4>3. Promise!Place(t) BY <2>4, <2>7, <4>2 DEF Promise!Place, Promise!Establish
      <4> QED BY <2>7, <4>3 DEF PromiseStep, Promise!Next
    <3> QED BY <3>1, <3>2
  <2>8. FactOf(m.kind) = "ordered" BY <2>5 DEF FactOf
  <2> QED BY <1>0, <2>2, <2>3, <2>5, <2>6, <2>7, <2>8, SentFacts DEF Topics
<1>5. CASE CallStep(c) /\ PollResponse(c)
  <2>1. PICK next \in {"approving", "rejecting"} : pc' = [pc EXCEPT ![c] = next]
    BY <1>5 DEF PollResponse
  <2>2. pc[c] = "waiting" /\ UNCHANGED <<topic, charges, paymentEvents>>
    BY <1>5 DEF CallStep, PollResponse
  <2> QED BY <1>0, <2>1, <2>2, MovePromise DEF Answered
<1>6. CASE CallStep(c) /\ StoreApproved(c)
  BY <1>0, <1>6, MovePromise DEF CallStep, StoreApproved, Answered
<1>7. CASE CallStep(c) /\ (PutRow(c) \/ StoreRejected(c))
  <2>1. /\ pc[c] \notin Answered
        /\ \/ pc' = [pc EXCEPT ![c] = "approved"] /\ Finalized("APPROVED", c)
           \/ pc' = [pc EXCEPT ![c] = "rejected"] /\ Finalized("REJECTED", c)
    BY <1>0, <1>7 DEF PutRow, StoreRejected, AnswerFollowsFinalize, Answered
  <2>2. UNCHANGED <<topic, charges, paymentEvents>>
    BY <1>7 DEF CallStep, PutRow, StoreRejected
  <2> QED BY <1>0, <2>1, <2>2, TellPromise
<1>8. CASE CallStep(c) /\ CallFails(c)
  <2>1. /\ pc[c] \notin Answered
        /\ pc' = [d \in Calls |-> IF d \in {c} THEN "failed" ELSE pc[d]]
        /\ UNCHANGED <<topic, charges, paymentEvents>>
    BY <1>0, <1>8 DEF CallStep, CallFails, Answered, TypeOK, ControllerTypeOK
  <2> PICK cs \in SUBSET Calls : cs = {c} OBVIOUS
  <2> QED BY <2>1, FailPromise
<1> QED BY <1>1, <1>2, <1>3, <1>4, <1>5, <1>6, <1>7, <1>8 DEF CallStep, InitiateCheckout

LEMMA OrchestratorPromise ==
    ASSUME TypeOK, EverythingHasItsCause, EverythingHasItsCause', Orchestrator
    PROVE  PromiseStep
<1> PICK m : m = NextRecord(SagaReply) OBVIOUS
<1> PICK t : t = m.transactionID OBVIOUS
<1>1. Sent(SagaReply, m) /\ m \in MessagesOn(SagaReply)
  BY NextRecordSent DEF Orchestrator, OrchestratorRun, Consume, TypeOK, Topics
<1>2. UNCHANGED <<charges, paymentEvents>> /\ toldTo' = toldTo
  BY ToldSame DEF Orchestrator, controllerVars, paymentVars
<1>3. CASE startTransaction(m)
  <2>1. factsOf' = factsOf
    BY <1>2, <1>3, SilentFacts DEF startTransaction, PaymentRequest, Telling, Topics
  <2> QED BY <1>2, <2>1, Stutter
<1>4. CASE sendKitchenApprovalRequest(m)
  <2>1. factsOf' = factsOf
    BY <1>2, <1>4, SilentFacts
       DEF sendKitchenApprovalRequest, KitchenRequest, Telling, Topics
  <2> QED BY <1>2, <2>1, Stutter
<1>5. CASE sendCompensationRequest(m)
  <2>1. factsOf' = factsOf
    BY <1>2, <1>5, SilentFacts
       DEF sendCompensationRequest, CompensatePaymentRequest, Telling, Topics
  <2> QED BY <1>2, <2>1, Stutter
<1>6. CASE ignoreUnknownTransaction(m)
  BY <1>2, <1>6, QuietFacts, Stutter DEF ignoreUnknownTransaction
<1>7. CASE sendFinalizeTransactionRequest(m)
  <2> PICK x : x = FinalizeOrderMessage(finalState(m.kind), t) OBVIOUS
  <2>1. t \in TransactionIDs /\ m = SagaAnswer(m.kind, t)
    BY <1>1, <1>7
       DEF sendFinalizeTransactionRequest, MessagesOn, Requests, Answers, SagaAnswer
  <2>2. x \in MessagesOn(CheckoutReply)
    BY <2>1 DEF FinalizeOrderMessage, finalState, MessagesOn, Answers, FinalStates
  <2>3. Justified(m) /\ Reported(m.kind, t)
    BY <1>1, <2>1, SentJustified DEF Reported, Topics
  <2>4. x.kind = finalState(m.kind) /\ x.transactionID = t BY DEF FinalizeOrderMessage
  <2>5. Send(CheckoutReply, x) BY <1>7 DEF sendFinalizeTransactionRequest
  <2>6. CASE factsOf' = factsOf BY <1>2, <2>6, Stutter
  <2>7. CASE /\ t \in Calls
             /\ factsOf' = [factsOf EXCEPT ![t] = @ \cup {FactOf(x.kind)}]
    <3>1. CASE m.kind = "KITCHEN_ACCEPTED"
      <4>1. FactOf(x.kind) = "approved" BY <2>4, <3>1 DEF finalState, FactOf
      <4>2. "accepted" \in factsOf[t] BY <2>3, <2>7, <3>1 DEF factsOf, Holds, FactNames
      <4>3. Promise!Approve(t)
        BY <1>2, <2>7, <4>1, <4>2 DEF Promise!Approve, Promise!Establish
      <4> QED BY <2>7, <4>3 DEF PromiseStep, Promise!Next
    <3>2. CASE m.kind \in {"PAYMENT_DENIED", "PAYMENT_ROLLBACK_SUCCESS"}
      <4>1. FactOf(x.kind) = "rejected" BY <2>4, <3>2 DEF finalState, FactOf
      <4>2. Stored("payment_aborted", t) \/ Stored("payment rejected", t)
        BY <2>3, <3>2 DEF Justified
      <4>3. {"denied", "refunded"} \cap factsOf[t] # {}
        BY <2>7, <4>2 DEF factsOf, Holds, FactNames
      <4>4. Promise!Reject(t)
        BY <1>2, <2>7, <4>1, <4>3 DEF Promise!Reject, Promise!Establish
      <4> QED BY <2>7, <4>4 DEF PromiseStep, Promise!Next
    <3> QED BY <1>7, <3>1, <3>2 DEF sendFinalizeTransactionRequest
  <2> QED BY <1>2, <2>2, <2>4, <2>5, <2>6, <2>7, SentFacts DEF Topics
<1> QED
  BY <1>3, <1>4, <1>5, <1>6, <1>7 DEF Orchestrator, OrchestratorRun, elaborateMessage

LEMMA PaymentPromise ==
    ASSUME TypeOK, EverythingHasItsCause, PaymentWork
    PROVE  PromiseStep
<1> PICK task \in paymentTasks :
        \/ PaymentRequested(task) \/ PaymentAccepted(task) \/ PaymentAborted(task)
        \/ PaymentRolledBack(task) \/ PaymentFails(task) \/ PaymentAnswers(task)
  BY DEF PaymentWork, PaymentThread
<1> PICK t : t = task.transactionID OBVIOUS
<1> USE DEF topicVars, PromiseStep, Promise!Next, Promise!Establish
<1>1. toldTo' = toldTo BY ToldSame DEF PaymentWork, controllerVars
<1>2. task \in PaymentTask /\ t \in TransactionIDs
  BY DEF TypeOK, PaymentTypeOK, PaymentTask
<1>3. PaymentTaskJustified(task) BY DEF EverythingHasItsCause, TasksJustified
<1>4. t \in Calls => "ordered" \in factsOf[t]
  BY <1>2, PaymentOrderSent DEF factsOf, Holds, FactNames, Ordered, PaymentTask
<1>5. CASE PaymentRequested(task)
  BY <1>1, <1>5, StoredFacts, Stutter DEF PaymentRequested, PaymentStatus
<1>6. CASE PaymentAccepted(task)
  <2>1. t \in Calls BY <1>2, <1>3, <1>6 DEF PaymentAccepted, PaymentTaskJustified, TransactionIDs
  <2>2. factsOf' = [factsOf EXCEPT ![t] = @ \cup {"charged"}]
    BY <1>6, <2>1, ChargedFacts DEF PaymentAccepted
  <2>3. Promise!Charge(t) BY <1>1, <1>4, <2>1, <2>2 DEF Promise!Charge
  <2> QED BY <2>1, <2>3
<1>7. CASE PaymentAborted(task)
  <2>1. t \in Calls /\ factsOf' = [factsOf EXCEPT ![t] = @ \cup {"denied"}]
    BY <1>7, StoredFacts DEF PaymentAborted, PaymentStatus
  <2>2. Promise!Deny(t) BY <1>1, <1>4, <2>1 DEF Promise!Deny
  <2> QED BY <2>1, <2>2
<1>8. CASE PaymentRolledBack(task)
  <2>1. t \in Calls /\ factsOf' = [factsOf EXCEPT ![t] = @ \cup {"refunded"}]
    BY <1>8, StoredFacts DEF PaymentRolledBack, PaymentStatus
  <2> PICK m : m = [kind |-> task.kind, order |-> task.order, transactionID |-> t] OBVIOUS
  <2>2. Sent(PaymentRequests, m) BY <1>3 DEF PaymentTaskJustified
  <2>3. Justified(m) BY <2>2, SentJustified DEF Topics
  <2>4. Reported("KITCHEN_REFUSED", t) BY <1>8, <2>3 DEF PaymentRolledBack, Justified
  <2>5. "refused" \in factsOf[t] BY <2>1, <2>4 DEF factsOf, Holds, FactNames
  <2>6. Promise!Refund(t) BY <1>1, <2>1, <2>5 DEF Promise!Refund
  <2> QED BY <2>1, <2>6
<1>9. CASE PaymentFails(task)
  BY <1>1, <1>9, QuietFacts, Stutter DEF PaymentFails
<1>10. CASE PaymentAnswers(task)
  <2>1. factsOf' = factsOf
    BY <1>10, SilentFacts DEF PaymentAnswers, SagaAnswer, PaymentAnswer, Telling, Topics
  <2> QED BY <1>1, <2>1, Stutter
<1> QED BY <1>5, <1>6, <1>7, <1>8, <1>9, <1>10

LEMMA KitchenPromise ==
    ASSUME TypeOK, EverythingHasItsCause, KitchenWork
    PROVE  PromiseStep
<1> PICK task \in kitchenTasks :
        KitchenSaves(task) \/ KitchenFails(task) \/ KitchenAnswers(task)
  BY DEF KitchenWork, KitchenThread
<1> PICK t : t = task.transactionID OBVIOUS
<1> USE DEF topicVars, paymentVars
<1>1. toldTo' = toldTo /\ UNCHANGED <<charges, paymentEvents>>
  BY ToldSame DEF KitchenWork, controllerVars
<1>2. task \in KitchenTask /\ t \in TransactionIDs
  BY DEF TypeOK, KitchenTypeOK, KitchenTask
<1>3. CASE KitchenSaves(task) BY <1>1, <1>3, QuietFacts, Stutter DEF KitchenSaves
<1>4. CASE KitchenFails(task) BY <1>1, <1>4, QuietFacts, Stutter DEF KitchenFails
<1>5. CASE KitchenAnswers(task)
  <2>1. PICK state \in {"KITCHEN_ACCEPTED", "KITCHEN_REFUSED"} :
           Send(SagaReply, SagaAnswer(state, t))
    BY <1>5 DEF KitchenAnswers
  <2> PICK m : m = SagaAnswer(state, t) OBVIOUS
  <2>2. m \in MessagesOn(SagaReply)
    BY <1>2, MessagesOnEach DEF SagaAnswer, Answers, AnswerStates
  <2>3. m.kind = state /\ m.transactionID = t BY DEF SagaAnswer
  <2>4. CASE factsOf' = factsOf BY <1>1, <2>4, Stutter
  <2>5. CASE t \in Calls /\ factsOf' = [factsOf EXCEPT ![t] = @ \cup {FactOf(state)}]
    <3>1. Justified(SagaAnswer("PAYMENT_ACCEPTED", t))
      BY KitchenOrderSent, SentJustified DEF Reported, Topics
    <3>2. charges[t] > 0 BY <3>1 DEF Justified, SagaAnswer
    <3>3. "charged" \in factsOf[t] BY <2>5, <3>2 DEF factsOf, Holds, FactNames
    <3>4. Promise!Cook(t) \/ Promise!Refuse(t)
      BY <1>1, <2>1, <2>5, <3>3 DEF FactOf, Promise!Cook, Promise!Refuse, Promise!Establish
    <3> QED BY <2>5, <3>4 DEF PromiseStep, Promise!Next
  <2> QED BY <1>1, <2>1, <2>2, <2>3, <2>4, <2>5, SentFacts DEF Topics
<1> QED BY <1>3, <1>4, <1>5

LEMMA CheckoutCrashPromise ==
    ASSUME TypeOK, CheckoutCrash
    PROVE  PromiseStep
<1> PICK cs \in SUBSET Calls : cs = {c \in Calls : pc[c] \in Serving} OBVIOUS
<1>1. /\ \A c \in cs : pc[c] \notin Answered
      /\ pc' = [c \in Calls |-> IF c \in cs THEN "failed" ELSE pc[c]]
  BY DEF CheckoutCrash, ControllerDown, Serving, Answered
<1>2. UNCHANGED <<topic, charges, paymentEvents>>
  BY DEF CheckoutCrash, ConsumersDown, paymentVars
<1> QED BY <1>1, <1>2, FailPromise

\* The other steps make no fact hold and tell nobody.
LEMMA QuietPromise ==
    ASSUME UNCHANGED <<topic, charges, paymentEvents, pc>>
    PROVE  PromiseStep
BY QuietFacts, ToldSame, Stutter

LEMMA NextPromise ==
    ASSUME TypeInv, EverythingHasItsCause, EverythingHasItsCause', UnpublishedIDsAreServed,
           [Next]_vars
    PROVE  PromiseStep
<1> USE DEF paymentVars, controllerVars
<1>0. TypeOK BY DEF TypeInv
<1>1. ASSUME NEW c \in Calls, NewCall(c) \/ CallStep(c) PROVE PromiseStep
  BY <1>1, CallPromise
<1>2. CASE CheckoutConsumer BY <1>2, QuietPromise DEF CheckoutConsumer, ConsumeMessages
<1>3. CASE Orchestrator BY <1>0, <1>3, OrchestratorPromise
<1>4. CASE PaymentPoll BY <1>4, QuietPromise DEF PaymentPoll, PaymentSubscriber
<1>5. CASE PaymentWork BY <1>0, <1>5, PaymentPromise
<1>6. CASE KitchenPoll BY <1>6, QuietPromise DEF KitchenPoll, KitchenSubscriber
<1>7. CASE KitchenWork BY <1>0, <1>7, KitchenPromise
<1>8. ASSUME NEW q \in Topics, Subscribe(q) PROVE PromiseStep
  BY <1>8, QuietPromise DEF Subscribe, Join
<1>9. CASE Environment
  <2>1. CASE CheckoutCrash BY <1>0, <2>1, CheckoutCrashPromise
  <2>2. CASE \/ PaymentCrash /\ UNCHANGED <<controllerVars, orchestratorLogs, kitchenVars>>
             \/ KitchenCrash /\ UNCHANGED <<controllerVars, orchestratorLogs, paymentVars>>
    BY <2>2, QuietPromise DEF PaymentCrash, KitchenCrash, ConsumersDown
  <2>3. ASSUME NEW q \in Topics, ProducerRetry(q), UNCHANGED <<controllerVars, paymentVars>>
        PROVE  PromiseStep
    BY <1>0, <2>3, RetryFacts, ToldSame, Stutter
  <2> QED BY <1>9, <2>1, <2>2, <2>3 DEF Environment
<1>10. CASE UNCHANGED vars BY <1>10, QuietPromise DEF vars, topicVars
<1> QED BY <1>1, <1>2, <1>3, <1>4, <1>5, <1>6, <1>7, <1>8, <1>9, <1>10 DEF Next

-----------------------------------------------------------------------------
(* The invariant of the field.                                              *)

\* What the promise says of a step: no order is un-published.
LEMMA OrderedStays ==
    ASSUME PromiseStep
    PROVE  \A t \in Calls : Ordered(t) => Ordered(t)'
<1>1. \A t \in Calls : factsOf[t] \subseteq factsOf'[t]
  <2>1. factsOf = [t \in Calls |-> factsOf[t]] BY DEF factsOf
  <2>2. ASSUME NEW u \in Calls, NEW f, factsOf' = [factsOf EXCEPT ![u] = @ \cup {f}]
        PROVE  \A t \in Calls : factsOf[t] \subseteq factsOf'[t]
    BY <2>1, <2>2
  <2>3. CASE factsOf' = factsOf BY <2>3
  <2>4. factsOf' = factsOf \/ \E u \in Calls : \E f : factsOf' = [factsOf EXCEPT ![u] = @ \cup {f}]
    BY DEF PromiseStep, Promise!promiseVars, Promise!Next, Promise!Establish, Promise!Place,
           Promise!Charge, Promise!Deny, Promise!Cook, Promise!Refuse, Promise!Refund,
           Promise!Approve, Promise!Reject, Promise!Tell, Promise!Fail
  <2> QED BY <2>2, <2>3, <2>4
<1>2. \A t \in Calls : Ordered(t) <=> "ordered" \in factsOf[t]
  BY DEF factsOf, Holds, FactNames
<1>3. \A t \in Calls : Ordered(t)' <=> "ordered" \in factsOf'[t]
  BY DEF factsOf, Holds, FactNames
<1> QED BY <1>1, <1>2, <1>3

FinalizedIsOrdered ==
    \A c \in Calls : Finalized("APPROVED", c) \/ Finalized("REJECTED", c) => Ordered(c)

LEMMA CauseOfFinal == EverythingHasItsCause => FinalizedIsOrdered
<1>1. EverythingHasItsCause => ApprovedIsPaidAndCooked BY ApprovalCause
<1>2. EverythingHasItsCause => RejectedIsDeniedOrRefunded BY RejectionCause
<1> QED
  BY <1>1, <1>2
     DEF ApprovedIsPaidAndCooked, RejectedIsDeniedOrRefunded, FinalizedIsOrdered,
         TransactionIDs

LEMMA UnpublishedInit == Init => UnpublishedIDsAreServed
BY NullAssumption DEF Init, ControllerInit, UnpublishedIDsAreServed

LEMMA UnpublishedStays ==
    ASSUME UnpublishedIDsAreServed, \A t \in Calls : Ordered(t) => Ordered(t)',
           UNCHANGED <<newOrderMessage, orderTransactionID>>,
           \A c \in Calls : /\ pc[c] # "idle" => pc'[c] # "idle"
                            /\ pc[c] \in {"identified", "waiting"} =>
                                   pc'[c] \in {"identified", "waiting"} \/ Ordered(c)',
           ControllerTypeOK
    PROVE  UnpublishedIDsAreServed'
<1> USE DEF UnpublishedIDsAreServed
<1>1. \A o \in Calls : orderTransactionID'[o] # Null => pc'[o] # "idle" OBVIOUS
<1>2. newOrderMessage' # Null => pc'[newOrderMessage'] # "idle"
  BY DEF ControllerTypeOK, TransactionIDs
<1>3. ASSUME NEW t \in Calls, newOrderMessage' # Null,
             orderTransactionID'[newOrderMessage'] = t, ~Ordered(t)'
      PROVE  pc'[t] \in {"identified", "waiting"}
  BY <1>3
<1> QED BY <1>1, <1>2, <1>3

LEMMA UnpublishedStep ==
    ASSUME TypeInv, EverythingHasItsCause, EverythingHasItsCause', UnpublishedIDsAreServed,
           [Next]_vars
    PROVE  UnpublishedIDsAreServed'
<1>0. /\ ControllerTypeOK
      /\ \A t \in Calls : Ordered(t) => Ordered(t)'
  BY NextPromise, OrderedStays DEF TypeInv, TypeOK, ControllerTypeOK
<1>1. ASSUME NEW c \in Calls, NewCall(c) PROVE UnpublishedIDsAreServed'
  <2>1. /\ newOrderMessage' = c /\ UNCHANGED orderTransactionID
        /\ pc[c] = "idle" /\ pc' = [pc EXCEPT ![c] = "created"]
    BY <1>1 DEF NewCall, CreateOrder, Goto
  <2>2. orderTransactionID[c] = Null BY <2>1 DEF UnpublishedIDsAreServed
  <2> QED BY <1>0, <2>1, <2>2, NullAssumption DEF UnpublishedIDsAreServed, ControllerTypeOK
<1>2. ASSUME NEW c \in Calls, CallStep(c) PROVE UnpublishedIDsAreServed'
  <2>1. CASE SetTransactionID(c)
    <3>1. newOrderMessage \in Calls
      BY <2>1 DEF SetTransactionID, Goto, TypeInv, TypeOK, ControllerTypeOK, FieldIsSet,
                  Serving, TransactionIDs
    <3>2. /\ UNCHANGED newOrderMessage
          /\ orderTransactionID' = [orderTransactionID EXCEPT ![newOrderMessage] = c]
          /\ pc[c] = "stored" /\ pc' = [pc EXCEPT ![c] = "identified"]
      BY <2>1 DEF SetTransactionID, Goto
    <3>3. \A o \in Calls : pc[o] # "idle" => pc'[o] # "idle" BY <1>0, <3>2 DEF ControllerTypeOK
    <3>4. pc[newOrderMessage] # "idle"
      BY <3>1, NullAssumption DEF UnpublishedIDsAreServed
    <3>5. \A o \in Calls : orderTransactionID'[o] # Null =>
              orderTransactionID[o] # Null \/ o = newOrderMessage
      BY <1>0, <3>1, <3>2 DEF ControllerTypeOK
    <3>6. \A o \in Calls : orderTransactionID'[o] # Null => pc'[o] # "idle"
      BY <3>3, <3>4, <3>5 DEF UnpublishedIDsAreServed
    <3>7. newOrderMessage' # Null => pc'[newOrderMessage'] # "idle"
      BY <1>0, <3>1, <3>2 DEF UnpublishedIDsAreServed, ControllerTypeOK
    <3>8. pc'[c] = "identified" /\ orderTransactionID'[newOrderMessage'] = c
      BY <1>0, <3>1, <3>2 DEF ControllerTypeOK
    <3> QED BY <3>6, <3>7, <3>8 DEF UnpublishedIDsAreServed
  <2>2. CASE ~SetTransactionID(c)
    <3>1. UNCHANGED <<newOrderMessage, orderTransactionID>>
      BY <1>2, <2>2 DEF CallStep, InitiateCheckout, StorePending, PublishOrder, PollResponse,
                        StoreApproved, PutRow, StoreRejected, CallFails
    <3>2. CASE PollResponse(c)
      <4>1. PICK next \in {"approving", "rejecting"} : pc' = [pc EXCEPT ![c] = next]
        BY <3>2 DEF PollResponse, Goto
      <4>2. Finalized("APPROVED", c)' \/ Finalized("REJECTED", c)'
        BY <1>0, <4>1
           DEF EverythingHasItsCause, AnswersJustified, AnswerFollowsFinalize, ControllerTypeOK
      <4>3. Ordered(c)'
        <5>1. FinalizedIsOrdered' BY CauseOfFinal, PTL
        <5> QED BY <4>2, <5>1 DEF FinalizedIsOrdered
      <4> QED BY <1>0, <3>1, <4>1, <4>3, UnpublishedStays DEF ControllerTypeOK
    <3>3. CASE ~PollResponse(c)
      <4>1. \A d \in Calls : /\ pc[d] # "idle" => pc'[d] # "idle"
                             /\ pc[d] \in {"identified", "waiting"} =>
                                    pc'[d] \in {"identified", "waiting"}
        BY <1>0, <1>2, <2>2, <3>3
           DEF CallStep, InitiateCheckout, StorePending, PublishOrder, StoreApproved, PutRow,
               StoreRejected, CallFails, Goto, ControllerTypeOK
      <4> QED BY <1>0, <3>1, <4>1, UnpublishedStays
    <3> QED BY <3>2, <3>3
  <2> QED BY <2>1, <2>2
<1>3. CASE CheckoutCrash
  BY <1>3 DEF CheckoutCrash, ControllerDown, UnpublishedIDsAreServed, Serving
<1>4. CASE UNCHANGED <<pc, newOrderMessage, orderTransactionID>>
  BY <1>0, <1>4, UnpublishedStays
<1> QED
  BY <1>1, <1>2, <1>3, <1>4
     DEF Next, vars, controllerVars, CheckoutConsumer, ConsumeMessages, Orchestrator,
         PaymentPoll, PaymentWork, KitchenPoll, KitchenWork, Subscribe, Environment

-----------------------------------------------------------------------------
LEMMA PromiseInit == Init => Promise!Init
<1> SUFFICES ASSUME Init PROVE Promise!Init OBVIOUS
<1>1. /\ \A q \in Topics : \A x : ~Sent(q, x)
      /\ \A t \in Calls : \A s : ~Stored(s, t)
      /\ \A t \in Calls : ~(charges[t] > 0)
  BY DEF Init, TopicInit, PaymentInit, Sent, Stored
<1>2. \A f \in FactNames : \A t \in Calls : ~Holds(f, t)
  BY <1>1 DEF Holds, Ordered, Reported, Finalized, Topics
<1>3. factsOf = [t \in Calls |-> {}] BY <1>2 DEF factsOf
<1>4. toldTo = [c \in Calls |-> "nothing"]
  BY DEF Init, ControllerInit, toldTo, Answered
<1> QED BY <1>3, <1>4 DEF Promise!Init

\* Whatever crashes, is lost, repeated or refused, and however calls overlap, the saga is
\* an OrderSaga.
THEOREM PromiseKept == Spec => KeepsPromise
<1>1. TypeInv /\ EverythingHasItsCause /\ EverythingHasItsCause' /\ UnpublishedIDsAreServed
        /\ [Next]_vars => UnpublishedIDsAreServed'
  BY UnpublishedStep
<1>2. TypeInv /\ EverythingHasItsCause /\ EverythingHasItsCause' /\ UnpublishedIDsAreServed
        /\ [Next]_vars => [Promise!Next]_(Promise!promiseVars)
  BY NextPromise DEF PromiseStep
<1> QED
  BY <1>1, <1>2, PromiseInit, UnpublishedInit, TypeInit, TypeStep, CauseInit, CauseStep, PTL
     DEF Spec, KeepsPromise, Promise!Spec
=============================================================================
