--------------------------- MODULE PaymentService ---------------------------
(***************************************************************************)
(* The payment service: a consumer that turns each record of               *)
(* payment_service_req_channel into a task of a fixed thread pool, and the *)
(* tasks, which store payment events and publish the answer.               *)
(***************************************************************************)
EXTENDS SagaTopics, FiniteSets

CONSTANT PaymentPoolSize   \* threads of the pool (10 in the code)
ASSUME PaymentPoolSizeAssumption == PaymentPoolSize \in Nat \ {0}

VARIABLES
    paymentTasks,   \* the submitted tasks that have not ended
    paymentEvents,  \* paymentEvents[t]: the rows of payment_event for t, oldest first
    charges         \* charges[t]: how often executePayment succeeded for t

paymentVars == <<paymentTasks, paymentEvents, charges>>

PaymentStatus == {"payment_requested", "payment_aborted", "payment rejected"}
PaymentEvent == [status : PaymentStatus, order : Calls]

\* A task is identified by the offset of the record it was made from.
PaymentTask == [offset : Nat, kind : {"PAYMENT_REQUEST", "COMPENSATE_REQUEST"},
                order : Calls, transactionID : TransactionIDs,
                pc : {"submitted", "requested", "accepted", "aborted", "rolledBack"}]

PaymentTypeOK ==
    /\ paymentTasks \subseteq PaymentTask
    /\ paymentEvents \in [Calls -> Seq(PaymentEvent)]
    /\ charges \in [Calls -> Nat]

PaymentInit ==
    /\ paymentTasks = {}
    /\ paymentEvents = [t \in Calls |-> <<>>]
    /\ charges = [t \in Calls |-> 0]

-----------------------------------------------------------------------------
\* kafkaSubscriber: one record, one task.
PaymentSubscriber ==
    /\ Consume(PaymentRequests)
    /\ LET m == NextRecord(PaymentRequests) IN
         paymentTasks' = paymentTasks \cup
            {[offset |-> position[PaymentRequests], kind |-> m.kind, order |-> m.order,
              transactionID |-> m.transactionID, pc |-> "submitted"]}
    /\ UNCHANGED <<topic, faults, paymentEvents, charges>>

\* The pool starts tasks in the order they were submitted, so its threads run the
\* oldest unfinished tasks.
PaymentRunning(task) ==
    Cardinality({u \in paymentTasks : u.offset < task.offset}) < PaymentPoolSize

\* PaymentController.save: a null ID throws before the row is written.
savePayment(task, status) ==
    LET t == task.transactionID IN
    /\ t # Null
    /\ paymentEvents' = [paymentEvents EXCEPT
                           ![t] = Append(@, [status |-> status, order |-> task.order])]

PaymentMoves(task, next) ==
    paymentTasks' = (paymentTasks \ {task}) \cup {[task EXCEPT !.pc = next]}

PaymentRequested(task) ==
    /\ task.kind = "PAYMENT_REQUEST" /\ task.pc = "submitted"
    /\ savePayment(task, "payment_requested")
    /\ PaymentMoves(task, "requested")
    /\ UNCHANGED <<topicVars, charges>>

PaymentAccepted(task) ==
    /\ task.pc = "requested"
    /\ charges' = [charges EXCEPT ![task.transactionID] = @ + 1]
    /\ PaymentMoves(task, "accepted")
    /\ UNCHANGED <<topicVars, paymentEvents>>

PaymentAborted(task) ==
    /\ task.pc = "requested"
    /\ savePayment(task, "payment_aborted")
    /\ PaymentMoves(task, "aborted")
    /\ UNCHANGED <<topicVars, charges>>

\* Mutant: the refund is answered and never stored.
PaymentRolledBackUnsaved(task) ==
    /\ task.kind = "COMPENSATE_REQUEST" /\ task.pc = "submitted"
    /\ PaymentMoves(task, "rolledBack")
    /\ UNCHANGED <<topicVars, charges, paymentEvents>>

PaymentRolledBack(task) ==
    /\ task.kind = "COMPENSATE_REQUEST" /\ task.pc = "submitted"
    /\ savePayment(task, "payment rejected")
    /\ PaymentMoves(task, "rolledBack")
    /\ UNCHANGED <<topicVars, charges>>

\* Mutant: an exception of save is caught and answered as a denial.
PaymentFailsDenied(task) ==
    /\ task.pc \in {"submitted", "requested"}
    /\ \/ task.transactionID = Null /\ UNCHANGED faults
       \/ Fault("refused_insert")
    /\ topic' = [topic EXCEPT ![SagaReply] =
                   Append(@, SagaAnswer("PAYMENT_DENIED", task.transactionID))]
    /\ paymentTasks' = paymentTasks \ {task}
    /\ UNCHANGED <<offsets, paymentEvents, charges>>

\* An exception of save (a null ID, or the database refusing) ends the task; the
\* pool keeps the exception in a future nobody reads.
PaymentFails(task) ==
    /\ task.pc \in {"submitted", "requested"}
    /\ \/ task.transactionID = Null /\ UNCHANGED faults
       \/ Fault("refused_insert")
    /\ paymentTasks' = paymentTasks \ {task}
    /\ UNCHANGED <<topic, offsets, paymentEvents, charges>>

PaymentAnswer(pc) ==
    CASE pc = "accepted"   -> "PAYMENT_ACCEPTED"
      [] pc = "aborted"    -> "PAYMENT_DENIED"
      [] pc = "rolledBack" -> "PAYMENT_ROLLBACK_SUCCESS"

\* onPaymentAccepted, onPaymentAborted, onRollbackFinalized
PaymentAnswers(task) ==
    /\ task.pc \in {"accepted", "aborted", "rolledBack"}
    /\ Send(SagaReply, SagaAnswer(PaymentAnswer(task.pc), task.transactionID))
    /\ paymentTasks' = paymentTasks \ {task}
    /\ UNCHANGED <<offsets, paymentEvents, charges>>

PaymentThread ==
    \E task \in paymentTasks :
        /\ PaymentRunning(task)
        /\ \/ PaymentRequested(task)
           \/ PaymentAccepted(task)
           \/ PaymentAborted(task)
           \/ PaymentRolledBack(task)
           \/ PaymentFails(task)
           \/ PaymentAnswers(task)

\* The process dies: its queue and its running tasks with it, the rows stay.
PaymentCrash ==
    /\ ConsumersDown({PaymentRequests})
    /\ paymentTasks' = {}
    /\ UNCHANGED <<paymentEvents, charges>>
=============================================================================
