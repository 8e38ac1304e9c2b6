--------------------------- MODULE KitchenService ---------------------------
(***************************************************************************)
(* The kitchen service: a consumer that turns each record of               *)
(* kitchen_service_req_channel into a task of a fixed thread pool, and the *)
(* tasks, which store the request and answer it.                           *)
(***************************************************************************)
EXTENDS SagaTopics, FiniteSets

CONSTANT KitchenPoolSize   \* threads of the pool (10 in the code)
ASSUME KitchenPoolSizeAssumption == KitchenPoolSize \in Nat \ {0}

VARIABLES
    kitchenTasks,   \* the submitted tasks that have not ended
    kitchenEvents   \* kitchenEvents[t]: the orders stored for t, oldest first

kitchenVars == <<kitchenTasks, kitchenEvents>>

KitchenTask == [offset : Nat, order : Calls, transactionID : TransactionIDs,
                pc : {"submitted", "saved"}]

KitchenTypeOK ==
    /\ kitchenTasks \subseteq KitchenTask
    /\ kitchenEvents \in [Calls -> Seq(Calls)]

KitchenInit ==
    /\ kitchenTasks = {}
    /\ kitchenEvents = [t \in Calls |-> <<>>]

-----------------------------------------------------------------------------
\* kafkaSubscriber: one record, one task.
KitchenSubscriber ==
    /\ Consume(KitchenRequests)
    /\ LET m == NextRecord(KitchenRequests) IN
         kitchenTasks' = kitchenTasks \cup
            {[offset |-> position[KitchenRequests], order |-> m.order,
              transactionID |-> m.transactionID, pc |-> "submitted"]}
    /\ UNCHANGED <<topic, faults, kitchenEvents>>

\* The threads run the oldest unfinished tasks.
KitchenRunning(task) ==
    Cardinality({u \in kitchenTasks : u.offset < task.offset}) < KitchenPoolSize

\* KitchenController.save: a null ID throws before the row is written.
KitchenSaves(task) ==
    LET t == task.transactionID IN
    /\ task.pc = "submitted"
    /\ t # Null
    /\ kitchenEvents' = [kitchenEvents EXCEPT ![t] = Append(@, task.order)]
    /\ kitchenTasks' = (kitchenTasks \ {task}) \cup {[task EXCEPT !.pc = "saved"]}
    /\ UNCHANGED topicVars

\* An exception of save ends the task without an answer.
KitchenFails(task) ==
    /\ task.pc = "submitted"
    /\ \/ task.transactionID = Null /\ UNCHANGED faults
       \/ Fault("refused_insert")
    /\ kitchenTasks' = kitchenTasks \ {task}
    /\ UNCHANGED <<topic, offsets, kitchenEvents>>

\* Mutant: a refusing kitchen says nothing.
KitchenAnswersIfAccepted(task) ==
    /\ task.pc = "saved"
    /\ \/ Send(SagaReply, SagaAnswer("KITCHEN_ACCEPTED", task.transactionID))
       \/ UNCHANGED <<topic, faults>>
    /\ kitchenTasks' = kitchenTasks \ {task}
    /\ UNCHANGED <<offsets, kitchenEvents>>

\* isOrderAccepted draws the answer; onOrderAccepted or onOrderRejected sends it.
KitchenAnswers(task) ==
    /\ task.pc = "saved"
    /\ \E state \in {"KITCHEN_ACCEPTED", "KITCHEN_REFUSED"} :
           Send(SagaReply, SagaAnswer(state, task.transactionID))
    /\ kitchenTasks' = kitchenTasks \ {task}
    /\ UNCHANGED <<offsets, kitchenEvents>>

KitchenThread ==
    \E task \in kitchenTasks :
        /\ KitchenRunning(task)
        /\ \/ KitchenSaves(task)
           \/ KitchenFails(task)
           \/ KitchenAnswers(task)

\* The process dies: its queue and its running tasks with it, the rows stay.
KitchenCrash ==
    /\ ConsumersDown({KitchenRequests})
    /\ kitchenTasks' = {}
    /\ UNCHANGED kitchenEvents
=============================================================================
