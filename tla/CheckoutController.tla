------------------------- MODULE CheckoutController -------------------------
(***************************************************************************)
(* The checkout controller: one object shared by the threads that serve    *)
(* the gRPC calls, with the field newOrderMessage that every call assigns  *)
(* and reads without a lock; the list of the finalize messages the         *)
(* checkout consumer has received; and the two stores, checkout_event in   *)
(* Cassandra and OrderTable in HBase.                                      *)
(*                                                                         *)
(* A call reads the fields of newOrderMessage one after another when it    *)
(* stores an event; the model reads the reference once.                    *)
(***************************************************************************)
EXTENDS SagaTopics, FiniteSets

CONSTANTS
    OrphanID,       \* an ID minted while a rejected order has none of its own
    MaxInFlight     \* bound on the calls served at the same time

ASSUME OrphanIDAssumption == OrphanID \notin TransactionIDs
ASSUME MaxInFlightAssumption == MaxInFlight \in Nat \ {0}

VARIABLES
    pc,                 \* pc[c]: how far call c is
    newOrderMessage,    \* the controller's field: an order, or Null
    orderTransactionID, \* orderTransactionID[o]: the transactionID set in order o
    kafkaMessageList,   \* the singleton list of received finalize messages
    checkoutEvents,     \* the rows of checkout_event
    orderTable          \* the rows of OrderTable

controllerVars == <<pc, newOrderMessage, orderTransactionID, kafkaMessageList,
                    checkoutEvents, orderTable>>
\* What no call but its own step touches.
storeVars == <<checkoutEvents, orderTable>>

Answered == {"approved", "rejected", "failed"}
Serving  == {"created", "stored", "identified", "waiting", "approving", "rejecting",
             "recording"}

\* event_id: a fresh time UUID, named by the call and the state it stores.
CheckoutEvent == [call : Calls, state : {"PENDING"} \cup FinalStates, order : Calls,
                  price : Calls, transactionID : Calls \cup {OrphanID}]

\* A row of OrderTable is keyed by the millisecond of its put: "alongside" are the
\* calls that were about to put as well, which may do so in the same millisecond.
OrderRow == [call : Calls, order : Calls, alongside : SUBSET Calls]

ControllerTypeOK ==
    /\ pc \in [Calls -> {"idle"} \cup Serving \cup Answered]
    /\ newOrderMessage \in TransactionIDs
    /\ orderTransactionID \in [Calls -> TransactionIDs]
    /\ kafkaMessageList \in Seq(MessagesOn(CheckoutReply))
    /\ checkoutEvents \subseteq CheckoutEvent
    /\ orderTable \subseteq OrderRow

ControllerInit ==
    /\ pc = [c \in Calls |-> "idle"]
    /\ newOrderMessage = Null
    /\ orderTransactionID = [o \in Calls |-> Null]
    /\ kafkaMessageList = <<>>
    /\ checkoutEvents = {}
    /\ orderTable = {}

-----------------------------------------------------------------------------
Goto(c, from, to) == pc[c] = from /\ pc' = [pc EXCEPT ![c] = to]

\* Cassandra's putEvent for call c: an event of the given order and price under t.
putEvent(c, state, o, price, t) ==
    checkoutEvents' = checkoutEvents \cup
        {[call |-> c, state |-> state, order |-> o, price |-> price, transactionID |-> t]}

\* The gRPC thread enters initiateCheckout and assigns the shared field.
CreateOrder(c) ==
    /\ Cardinality({d \in Calls : pc[d] \in Serving}) < MaxInFlight
    /\ Goto(c, "idle", "created")
    /\ newOrderMessage' = c
    /\ UNCHANGED <<topicVars, orderTransactionID, kafkaMessageList, storeVars>>

\* putEvent mints the transaction ID, which only the call's stack holds.  Price is
\* read from the shared field, the rest is the call's own.
StorePending(c) ==
    /\ Goto(c, "created", "stored")
    /\ putEvent(c, "PENDING", c, newOrderMessage, c)
    /\ UNCHANGED <<topicVars, newOrderMessage, orderTransactionID, kafkaMessageList,
                   orderTable>>

\* setTransactionID on whatever order the field refers to now.
SetTransactionID(c) ==
    /\ Goto(c, "stored", "identified")
    /\ orderTransactionID' = [orderTransactionID EXCEPT ![newOrderMessage] = c]
    /\ UNCHANGED <<topicVars, newOrderMessage, kafkaMessageList, storeVars>>

\* Mutant: the call publishes the order of its own arguments, with the field's ID.
PublishOwnOrder(c) ==
    /\ Goto(c, "identified", "waiting")
    /\ Send(SagaReply, NewOrderMessage(c, orderTransactionID[newOrderMessage]))
    /\ UNCHANGED <<offsets, newOrderMessage, orderTransactionID, kafkaMessageList, storeVars>>

\* The order the field refers to now is published, with the ID set in it, if any.
PublishOrder(c) ==
    /\ Goto(c, "identified", "waiting")
    /\ Send(SagaReply,
            NewOrderMessage(newOrderMessage, orderTransactionID[newOrderMessage]))
    /\ UNCHANGED <<offsets, newOrderMessage, orderTransactionID,
                   kafkaMessageList, storeVars>>

\* Mutant: the first message of the list, whosever it is.
firstResponseToAny(t, i) == i = 1

\* Mutant: the scan of the list starts at its second message.
firstResponseButOne(t, i) ==
    /\ i \in DOMAIN kafkaMessageList \ {1}
    /\ kafkaMessageList[i].transactionID = t
    /\ \A j \in 2 .. i - 1 : kafkaMessageList[j].transactionID # t

\* i is the first message of the list for t: pollResponse returns it and leaves it.
firstResponse(t, i) ==
    /\ i \in DOMAIN kafkaMessageList
    /\ kafkaMessageList[i].transactionID = t
    /\ \A j \in 1 .. i - 1 : kafkaMessageList[j].transactionID # t

\* The spinning loop sees a response to the ID the call minted.
PollResponse(c) ==
    /\ \E i \in DOMAIN kafkaMessageList :
         /\ firstResponse(c, i)
         /\ Goto(c, "waiting", IF kafkaMessageList[i].kind = "APPROVED"
                               THEN "approving" ELSE "rejecting")
    /\ UNCHANGED <<topicVars, newOrderMessage, orderTransactionID, kafkaMessageList,
                   storeVars>>

\* elaborateMessage, approved: the event is stored under the message's ID, with the
\* order the field refers to now.
StoreApproved(c) ==
    /\ Goto(c, "approving", "recording")
    /\ putEvent(c, "APPROVED", newOrderMessage, newOrderMessage, c)
    /\ UNCHANGED <<topicVars, newOrderMessage, orderTransactionID, kafkaMessageList,
                   orderTable>>

\* putRowToTable: the key is the current millisecond, so the put may replace the row
\* of a call that was putting at the same time; an IOException is swallowed.
PutRow(c) ==
    LET row == [call |-> c, order |-> newOrderMessage,
                alongside |-> {d \in Calls \ {c} : pc[d] \in {"approving", "recording"}}]
    IN
    /\ Goto(c, "recording", "approved")
    /\ \/ orderTable' = orderTable \cup {row} /\ UNCHANGED faults
       \/ \E r \in orderTable : c \in r.alongside /\ orderTable' = (orderTable \ {r}) \cup {row}
          /\ UNCHANGED faults
       \/ Fault("refused_insert") /\ UNCHANGED orderTable
    /\ UNCHANGED <<topic, offsets, newOrderMessage, orderTransactionID,
                   kafkaMessageList, checkoutEvents>>

\* Mutant: putEvent mints nothing when there is no ID.
StoreRejectedUnminted(c) ==
    /\ Goto(c, "rejecting", "rejected")
    /\ putEvent(c, "REJECTED", newOrderMessage, newOrderMessage,
                orderTransactionID[newOrderMessage])
    /\ UNCHANGED <<topicVars, newOrderMessage, orderTransactionID, kafkaMessageList,
                   orderTable>>

\* Mutant: the ID is not handed to putEvent, as when the pending event is stored.
StoreRejectedAnew(c) ==
    /\ Goto(c, "rejecting", "rejected")
    /\ putEvent(c, "REJECTED", newOrderMessage, newOrderMessage, OrphanID)
    /\ UNCHANGED <<topicVars, newOrderMessage, orderTransactionID, kafkaMessageList,
                   orderTable>>

\* elaborateMessage, rejected: the event is stored under the ID of the order the field
\* refers to now; putEvent mints one if there is none.
StoreRejected(c) ==
    LET t == orderTransactionID[newOrderMessage] IN
    /\ Goto(c, "rejecting", "rejected")
    /\ putEvent(c, "REJECTED", newOrderMessage, newOrderMessage,
                IF t = Null THEN OrphanID ELSE t)
    /\ UNCHANGED <<topicVars, newOrderMessage, orderTransactionID, kafkaMessageList,
                   orderTable>>

\* Cassandra refuses an insert: the call ends with an error.
CallFails(c) ==
    /\ Fault("refused_insert")
    /\ pc[c] \in {"created", "approving", "rejecting"}
    /\ pc' = [pc EXCEPT ![c] = "failed"]
    /\ UNCHANGED <<topic, offsets, newOrderMessage, orderTransactionID,
                   kafkaMessageList, storeVars>>

InitiateCheckout(c) ==
    \/ StorePending(c)
    \/ SetTransactionID(c)
    \/ PublishOrder(c)
    \/ PollResponse(c)
    \/ StoreApproved(c)
    \/ PutRow(c)
    \/ StoreRejected(c)
    \/ CallFails(c)

\* CheckoutKafkaConsumer: each finalize message goes to the end of the list.
ConsumeMessages ==
    /\ Consume(CheckoutReply)
    /\ kafkaMessageList' = Append(kafkaMessageList, NextRecord(CheckoutReply))
    /\ UNCHANGED <<topic, faults, pc, newOrderMessage, orderTransactionID, storeVars>>

\* The checkout process dies: the calls being served get an error, memory is gone.
ControllerDown ==
    /\ pc' = [c \in Calls |-> IF pc[c] \in Serving THEN "failed" ELSE pc[c]]
    /\ newOrderMessage' = Null
    /\ kafkaMessageList' = <<>>
    /\ UNCHANGED <<orderTransactionID, storeVars>>
=============================================================================
