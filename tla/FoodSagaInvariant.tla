------------------------- MODULE FoodSagaInvariant --------------------------
(***************************************************************************)
(* The inductive invariants behind the safety of FoodSaga, and FoodSaga    *)
(* read as an OrderSaga: which records, rows and charges make a fact, and  *)
(* which calls have told their customer.                                   *)
(*                                                                         *)
(* The first one holds whatever fails: every message, task, row and log    *)
(* has its cause.  Records and rows are never taken back, so what causes   *)
(* have established stays established: a lost record only leaves an effect *)
(* out, and a repeated one or one read again after a restart repeats an    *)
(* effect that has its cause.  The other two hold until something fails.   *)
(***************************************************************************)
EXTENDS FoodSaga

\* What must have happened before message m is published.  The kinds of the messages
\* differ from topic to topic.
Justified(m) ==
    LET t == m.transactionID IN
    /\ m.kind = "PAYMENT_REQUEST" => Sent(SagaReply, NewOrderMessage(m.order, t))
    /\ m.kind = "PAYMENT_ACCEPTED" =>
         t # Null /\ Ordered(t) /\ Stored("payment_requested", t) /\ charges[t] > 0
    /\ m.kind = "PAYMENT_DENIED" => t # Null /\ Ordered(t) /\ Stored("payment_aborted", t)
    /\ m.kind = "KITCHEN_REQUEST" =>
         Sent(SagaReply, NewOrderMessage(m.order, t)) /\ Reported("PAYMENT_ACCEPTED", t)
    /\ m.kind \in {"KITCHEN_ACCEPTED", "KITCHEN_REFUSED"} =>
         t # Null /\ Reported("PAYMENT_ACCEPTED", t) /\ kitchenEvents[t] # <<>>
    /\ m.kind = "COMPENSATE_REQUEST" =>
         Sent(SagaReply, NewOrderMessage(m.order, t)) /\ Reported("KITCHEN_REFUSED", t)
    /\ m.kind = "PAYMENT_ROLLBACK_SUCCESS" =>
         t # Null /\ Reported("KITCHEN_REFUSED", t) /\ Stored("payment rejected", t)
    /\ m.kind = "APPROVED" => Reported("KITCHEN_ACCEPTED", t)
    /\ m.kind = "REJECTED" =>
         Reported("PAYMENT_DENIED", t) \/ Reported("PAYMENT_ROLLBACK_SUCCESS", t)

MessagesJustified == \A q \in Topics : \A i \in DOMAIN topic[q] : Justified(topic[q][i])

LogsJustified ==
    \A t \in DOMAIN orchestratorLogs :
        Sent(SagaReply, NewOrderMessage(orchestratorLogs[t].order, t))

PaymentTaskJustified(task) ==
    LET t == task.transactionID IN
    /\ Sent(PaymentRequests, [kind |-> task.kind, order |-> task.order, transactionID |-> t])
    /\ task.pc \in {"requested", "accepted", "aborted"} =>
         task.kind = "PAYMENT_REQUEST" /\ t # Null /\ Stored("payment_requested", t)
    /\ task.pc = "accepted" => charges[t] > 0
    /\ task.pc = "aborted" => Stored("payment_aborted", t)
    /\ task.pc = "rolledBack" =>
         task.kind = "COMPENSATE_REQUEST" /\ t # Null /\ Stored("payment rejected", t)

KitchenTaskJustified(task) ==
    LET t == task.transactionID IN
    /\ Sent(KitchenRequests, KitchenRequest(task.order, t))
    /\ task.pc = "saved" => t # Null /\ kitchenEvents[t] # <<>>

TasksJustified ==
    /\ \A task \in paymentTasks : PaymentTaskJustified(task)
    /\ \A task \in kitchenTasks : KitchenTaskJustified(task)

RowsJustified ==
    \A t \in Calls :
        /\ \A i \in DOMAIN paymentEvents[t] :
               Sent(SagaReply, NewOrderMessage(paymentEvents[t][i].order, t))
        /\ \A i \in DOMAIN kitchenEvents[t] :
               Sent(SagaReply, NewOrderMessage(kitchenEvents[t][i], t))

AnswersJustified ==
    /\ \A i \in DOMAIN kafkaMessageList : Sent(CheckoutReply, kafkaMessageList[i])
    /\ AnswerFollowsFinalize

\* Order o has, or has been published with, the ID t.
Carries(o, t) == orderTransactionID[o] = t \/ Sent(SagaReply, NewOrderMessage(o, t))

\* The ID a call mints is set in one order, and published with that order only, however
\* often and by whichever call.
IDsIdentifyOrders ==
    /\ \A c \in Calls : pc[c] \in {"idle", "created", "stored"} =>
                          \A o \in Calls : ~Carries(o, c)
    /\ \A t, o, p \in Calls : Carries(o, t) /\ Carries(p, t) => o = p

\* The inductive invariant.
EverythingHasItsCause ==
    /\ MessagesJustified
    /\ LogsJustified
    /\ TasksJustified
    /\ RowsJustified
    /\ AnswersJustified
    /\ IDsIdentifyOrders

-----------------------------------------------------------------------------
(* The inductive invariant behind what holds as long as nothing fails: of a *)
(* transaction published once, one thing is under way, and it tells how far *)
(* the saga is -- what the orchestrator has heard, how often the card was   *)
(* charged and how often the money was given back.                          *)

\* The records of t on topic q, and those of them its consumer has not taken.
RecordsOf(q, t) == {i \in DOMAIN topic[q] : topic[q][i].transactionID = t}
UnreadOf(q, t)  == {i \in RecordsOf(q, t) : i > position[q]}

\* Where a transaction may be: in a record nobody has taken, or in a task.
Places == {SagaReply, PaymentRequests, KitchenRequests, "payment", "kitchen"}
At(place, t) ==
    CASE place = "payment" -> {u \in paymentTasks : u.transactionID = t}
      [] place = "kitchen" -> {u \in kitchenTasks : u.transactionID = t}
      [] OTHER             -> UnreadOf(place, t)

OnlyAt(place, x, t) == \A p \in Places : At(p, t) = IF p = place THEN {x} ELSE {}
Nowhere(t) == \A p \in Places : At(p, t) = {}

\* What the orchestrator has read of t.
Heard(t) == {topic[SagaReply][i].kind : i \in RecordsOf(SagaReply, t) \ UnreadOf(SagaReply, t)}

\* The orchestrator has read just the kinds of heard, the card was charged so many times
\* and the money was given back so many times.
Story(t, heard, charged, refunded) ==
    Heard(t) = heard /\ charges[t] = charged /\ Refunds(t) = refunded

Placed  == {"NEW_TRANSACTION_REQUEST"}
Paid    == Placed \cup {"PAYMENT_ACCEPTED"}
Refused == Paid \cup {"KITCHEN_REFUSED"}

\* What must have happened by the time a record of kind k waits to be taken.
StoryOfRecord(k, t) ==
    \/ k = "NEW_TRANSACTION_REQUEST" /\ Story(t, {}, 0, 0)
    \/ k \in {"PAYMENT_REQUEST", "PAYMENT_DENIED"} /\ Story(t, Placed, 0, 0)
    \/ k = "PAYMENT_ACCEPTED" /\ Story(t, Placed, 1, 0)
    \/ k \in {"KITCHEN_REQUEST", "KITCHEN_ACCEPTED", "KITCHEN_REFUSED"} /\ Story(t, Paid, 1, 0)
    \/ k = "COMPENSATE_REQUEST" /\ Story(t, Refused, 1, 0)
    \/ k = "PAYMENT_ROLLBACK_SUCCESS" /\ Story(t, Refused, 1, 1)

\* The same for a payment task.
StoryOfPayment(task, t) ==
    \/ /\ task.kind = "PAYMENT_REQUEST"
       /\ \/ task.pc \in {"submitted", "requested", "aborted"} /\ Story(t, Placed, 0, 0)
          \/ task.pc = "accepted" /\ Story(t, Placed, 1, 0)
    \/ /\ task.kind = "COMPENSATE_REQUEST"
       /\ \/ task.pc = "submitted" /\ Story(t, Refused, 1, 0)
          \/ task.pc = "rolledBack" /\ Story(t, Refused, 1, 1)

UnderWay(t) ==
    \/ \E q \in {SagaReply, PaymentRequests, KitchenRequests} : \E i \in RecordsOf(q, t) :
         OnlyAt(q, i, t) /\ StoryOfRecord(topic[q][i].kind, t)
    \/ \E task \in paymentTasks : OnlyAt("payment", task, t) /\ StoryOfPayment(task, t)
    \/ \E task \in kitchenTasks : OnlyAt("kitchen", task, t) /\ Story(t, Paid, 1, 0)

MoneyIsRight(t) ==
    /\ Finalized("APPROVED", t) => charges[t] = 1 /\ Refunds(t) = 0
    /\ Finalized("REJECTED", t) => charges[t] = Refunds(t)

\* A log is open from the publication that was read to the decision.
Open(t)   == UnderWay(t) /\ Outcomes(t) = 0 /\ (t \in DOMAIN orchestratorLogs <=> Heard(t) # {})
Closed(t) == Nowhere(t) /\ Outcomes(t) = 1 /\ t \notin DOMAIN orchestratorLogs /\ MoneyIsRight(t)

\* Requests go out on the answers that call for them, and the log says so.
RequestsFollow(t) ==
    /\ RecordsOf(KitchenRequests, t) # {} <=> "PAYMENT_ACCEPTED" \in Heard(t)
    /\ (\E i \in RecordsOf(PaymentRequests, t) :
           topic[PaymentRequests][i].kind = "COMPENSATE_REQUEST")
         <=> "KITCHEN_REFUSED" \in Heard(t)

LogTells(t) ==
    t \in DOMAIN orchestratorLogs =>
      LET keys == orchestratorLogs[t].keys
          o == orchestratorLogs[t].order
      IN
      /\ "START_KITCHEN_APPROVAL" \in keys <=> "PAYMENT_ACCEPTED" \in Heard(t)
      /\ "END_PAYMENT " \in keys <=> "PAYMENT_ACCEPTED" \in Heard(t)
      /\ "START_COMPENSATE_REQUEST" \in keys <=> "KITCHEN_REFUSED" \in Heard(t)
      /\ "END_KITCHEN_APPROVAL" \in keys <=> "KITCHEN_REFUSED" \in Heard(t)
      /\ "PAYMENT_ACCEPTED" \in Heard(t) => Sent(KitchenRequests, KitchenRequest(o, t))
      /\ "KITCHEN_REFUSED" \in Heard(t)
            => Sent(PaymentRequests, CompensatePaymentRequest(o, t))

\* Before it is published there is nothing of a transaction.
NothingOf(t) ==
    /\ \A q \in Topics : RecordsOf(q, t) = {}
    /\ Nowhere(t) /\ t \notin DOMAIN orchestratorLogs
    /\ charges[t] = 0 /\ Refunds(t) = 0

\* A transaction published more than once is not spoken of: its sagas run into each other.
GoesStepByStep(t) ==
    /\ Orders(t) = 0 => NothingOf(t)
    /\ Orders(t) = 1 => RequestsFollow(t) /\ LogTells(t) /\ (Open(t) \/ Closed(t))

SagasGoStepByStep == \A t \in Calls : GoesStepByStep(t)

-----------------------------------------------------------------------------
(* The inductive invariant behind what holds as long as nothing fails and   *)
(* calls are served one at a time: the fields a call finds are its own.     *)

Undecided == {"stored", "identified", "waiting", "approving", "rejecting", "recording"}

ServedOne(c) ==
    pc[c] \in Serving =>
      /\ \A d \in Calls : pc[d] \in Serving => d = c
      /\ newOrderMessage = c
      /\ pc[c] \in Undecided \ {"stored"} => orderTransactionID[c] = c

StoredEvents(c) ==
    /\ pc[c] \in Undecided \cup {"approved", "rejected"} => EventStored(c, "PENDING")
    /\ pc[c] \in {"recording", "approved"} => EventStored(c, "APPROVED")
    /\ pc[c] = "rejected" => EventStored(c, "REJECTED")

OwnRow(c) == [call |-> c, order |-> c, alongside |-> {}]

CallsLeaveTheirTrail ==
    /\ \A c \in Calls : ServedOne(c) /\ StoredEvents(c)
    /\ orderTable = {OwnRow(c) : c \in {d \in Calls : pc[d] = "approved"}}

-----------------------------------------------------------------------------
(* The order saga                                                           *)

\* The fact holds of order t.
Holds(fact, t) ==
    \/ fact = "ordered"  /\ Ordered(t)
    \/ fact = "charged"  /\ charges[t] > 0
    \/ fact = "denied"   /\ Stored("payment_aborted", t)
    \/ fact = "accepted" /\ Reported("KITCHEN_ACCEPTED", t)
    \/ fact = "refused"  /\ Reported("KITCHEN_REFUSED", t)
    \/ fact = "refunded" /\ Stored("payment rejected", t)
    \/ fact = "approved" /\ Finalized("APPROVED", t)
    \/ fact = "rejected" /\ Finalized("REJECTED", t)

FactNames == {"ordered", "charged", "denied", "accepted", "refused", "refunded",
              "approved", "rejected"}

factsOf == [t \in Calls |-> {fact \in FactNames : Holds(fact, t)}]
toldTo  == [c \in Calls |-> IF pc[c] \in Answered THEN pc[c] ELSE "nothing"]

Promise == INSTANCE OrderSaga WITH facts <- factsOf, told <- toldTo

\* The checkout, payment and kitchen processes, over topics that may lose and repeat
\* records and whatever crashes, keep the promise of OrderSaga: the handlers establish
\* facts only on their causes, and a call tells only a fact of its own order.
KeepsPromise == Promise!Spec

-----------------------------------------------------------------------------
\* The field never leads a call to publish an ID whose own call has ended: an ID that can
\* still be published for the first time belongs to a call that is still being served.
UnpublishedIDsAreServed ==
    /\ \A o \in Calls : orderTransactionID[o] # Null => pc[o] # "idle"
    /\ newOrderMessage # Null => pc[newOrderMessage] # "idle"
    /\ \A t \in Calls :
         newOrderMessage # Null /\ orderTransactionID[newOrderMessage] = t /\ ~Ordered(t)
            => pc[t] \in {"identified", "waiting"}
=============================================================================
