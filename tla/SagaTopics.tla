----------------------------- MODULE SagaTopics -----------------------------
(***************************************************************************)
(* The four Kafka topics the order saga runs over, the messages published  *)
(* on them, and what the services rely on Kafka for.                       *)
(*                                                                         *)
(* Kafka itself is not in the repository: its behaviour is modelled from   *)
(* the properties the services give their producers and consumers (acks    *)
(* all, auto commit, no offset reset policy, so "latest").  Every topic    *)
(* has one partition and one consumer.                                     *)
(*                                                                         *)
(* The order of call c and the transaction ID minted for call c are both   *)
(* named by c: orders and IDs are fresh for every call, so the naming is a *)
(* bijection, and an ID travelling with the order of another call shows as *)
(* two different names in one message.                                     *)
(***************************************************************************)
EXTENDS Integers, Sequences

CONSTANTS
    Calls,      \* the gRPC calls to the checkout service
    Null,       \* Java's null: no transaction ID set, no order created yet
    FaultKinds, \* the kinds of fault that may happen
    MaxFaults   \* bound on the faults of a behaviour

ASSUME NullAssumption == Null \notin Calls
ASSUME FaultKindsAssumption ==
    FaultKinds \subseteq {"crash", "lost_record", "repeated_record", "refused_insert"}
ASSUME MaxFaultsAssumption == MaxFaults \in Nat

VARIABLES
    topic,      \* topic[t]: every record ever published on t, oldest first
    position,   \* position[t]: records the consumer of t has taken; NoOffset if it is down
    started,    \* started[t]: the offset the consumer of t last subscribed at
    committed,  \* committed[t]: the offset a consumer that died left committed; NoOffset if none
    faults      \* the faults so far

offsets   == <<position, started, committed>>
topicVars == <<topic, offsets, faults>>

SagaReply       == "saga_reply_channel"
PaymentRequests == "payment_service_req_channel"
KitchenRequests == "kitchen_service_req_channel"
CheckoutReply   == "checkout_service_req_channel"
Topics == {SagaReply, PaymentRequests, KitchenRequests, CheckoutReply}

TransactionIDs == Calls \cup {Null}
NoOffset == -1

-----------------------------------------------------------------------------
(* The messages.  "kind" is the record's key, or the state of an answer.    *)

NewOrderMessage(o, t) ==
    [kind |-> "NEW_TRANSACTION_REQUEST", order |-> o, transactionID |-> t]
PaymentRequest(o, t) ==
    [kind |-> "PAYMENT_REQUEST", order |-> o, transactionID |-> t]
CompensatePaymentRequest(o, t) ==
    [kind |-> "COMPENSATE_REQUEST", order |-> o, transactionID |-> t]
KitchenRequest(o, t) ==
    [kind |-> "KITCHEN_REQUEST", order |-> o, transactionID |-> t]
SagaAnswer(state, t) == [kind |-> state, transactionID |-> t]
FinalizeOrderMessage(state, t) == [kind |-> state, transactionID |-> t]

AnswerStates == {"PAYMENT_ACCEPTED", "PAYMENT_DENIED", "PAYMENT_ROLLBACK_SUCCESS",
                 "KITCHEN_ACCEPTED", "KITCHEN_REFUSED"}
FinalStates  == {"APPROVED", "REJECTED"}

Requests(kinds)   == [kind : kinds, order : Calls, transactionID : TransactionIDs]
Answers(states)   == [kind : states, transactionID : TransactionIDs]

MessagesOn(t) ==
    CASE t = SagaReply       -> Requests({"NEW_TRANSACTION_REQUEST"}) \cup Answers(AnswerStates)
      [] t = PaymentRequests -> Requests({"PAYMENT_REQUEST", "COMPENSATE_REQUEST"})
      [] t = KitchenRequests -> Requests({"KITCHEN_REQUEST"})
      [] t = CheckoutReply   -> Answers(FinalStates)

\* m has been published on t.
Sent(t, m) == \E i \in DOMAIN topic[t] : topic[t][i] = m

-----------------------------------------------------------------------------
TopicTypeOK ==
    /\ DOMAIN topic = Topics
    /\ \A t \in Topics : topic[t] \in Seq(MessagesOn(t))
    /\ position \in [Topics -> Nat \cup {NoOffset}]
    /\ started \in [Topics -> Nat]
    /\ committed \in [Topics -> Nat \cup {NoOffset}]
    /\ faults \in 0..MaxFaults

TopicInit ==
    /\ topic = [t \in Topics |-> <<>>]
    /\ position = [t \in Topics |-> 0]
    /\ started = [t \in Topics |-> 0]
    /\ committed = [t \in Topics |-> NoOffset]
    /\ faults = 0

Fault(kind) ==
    /\ kind \in FaultKinds
    /\ faults < MaxFaults
    /\ faults' = faults + 1

\* KafkaProducer.send: asynchronous, and its future is never looked at.  The
\* record reaches the topic, or expires in the producer's buffer.
Send(t, m) ==
    \/ topic' = [topic EXCEPT ![t] = Append(@, m)] /\ UNCHANGED faults
    \/ Fault("lost_record") /\ UNCHANGED topic

\* A producer whose acknowledgement was lost publishes the record again.
ProducerRetry(t) ==
    /\ Fault("repeated_record")
    /\ \E i \in DOMAIN topic[t] : topic' = [topic EXCEPT ![t] = Append(@, topic[t][i])]
    /\ UNCHANGED offsets

\* The next record the consumer of t would be handed.
HasRecord(t)  == position[t] \in 0 .. Len(topic[t]) - 1
NextRecord(t) == topic[t][position[t] + 1]

\* The poll loop hands on one record.
Consume(t) ==
    /\ HasRecord(t)
    /\ position' = [position EXCEPT ![t] = @ + 1]
    /\ UNCHANGED <<started, committed>>

\* What the group may be left with when the consumer of t dies.  poll() commits, once a
\* second, the position it handed out before, so every record below a committed offset
\* has been through the body of the loop: the offset is any position since the consumer
\* subscribed, or the one committed before that.
CommittedAtDeath(t) == {committed[t]} \cup (started[t] .. position[t])

\* The process that consumes the topics of ts dies.
ConsumersDown(ts) ==
    /\ Fault("crash")
    /\ \E t \in ts : position[t] # NoOffset
    /\ position' = [t \in Topics |-> IF t \in ts THEN NoOffset ELSE position[t]]
    /\ \E last \in [ts -> UNION {CommittedAtDeath(t) : t \in ts}] :
         /\ \A t \in ts : last[t] \in CommittedAtDeath(t)
         /\ committed' = [t \in Topics |-> IF t \in ts THEN last[t] ELSE committed[t]]
    /\ UNCHANGED <<topic, started>>

\* The restarted process subscribes: it resumes at the committed offset, or, where
\* none was ever committed, after everything published so far ("latest").
Join(t) ==
    /\ position[t] = NoOffset
    /\ LET offset == IF committed[t] = NoOffset THEN Len(topic[t]) ELSE committed[t] IN
         /\ position' = [position EXCEPT ![t] = offset]
         /\ started' = [started EXCEPT ![t] = offset]
    /\ UNCHANGED <<topic, committed, faults>>
=============================================================================
