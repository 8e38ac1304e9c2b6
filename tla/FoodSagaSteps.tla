--------------------------- MODULE FoodSagaSteps ----------------------------
(***************************************************************************)
(* What FoodSaga guarantees until something fails (faults = 0), however    *)
(* many calls overlap: of a transaction published once, one thing is under *)
(* way until it is decided, the log says what happened, and the money is   *)
(* right.                                                                  *)
(*                                                                         *)
(* The argument: a step reads or ends the one thing that is under way of   *)
(* one transaction and starts the next one, and leaves everything of every *)
(* other transaction as it was (Untouched).                                *)
(***************************************************************************)
EXTENDS FoodSagaInvariant, FoodSagaProofs, FiniteSetTheorems

USE DEF SagaReply, PaymentRequests, KitchenRequests, CheckoutReply

\* The consumers are up and have taken no record that is not there.
ConsumersUp == \A q \in Topics : position[q] \in 0 .. Len(topic[q])

OrdersOf(t) ==
    {i \in RecordsOf(SagaReply, t) : topic[SagaReply][i].kind = "NEW_TRANSACTION_REQUEST"}
RefundsOf(t) == {i \in DOMAIN paymentEvents[t] : paymentEvents[t][i].status = "payment rejected"}

\* m is appended to topic q.
Appends(q, m) == topic' = [topic EXCEPT ![q] = Append(@, m)]

\* The records of t on q are the same.
KeepsRecords(q, t) ==
    /\ RecordsOf(q, t)' = RecordsOf(q, t)
    /\ \A i \in RecordsOf(q, t) : topic'[q][i] = topic[q][i]

\* Nothing of t changes.
Untouched(t) ==
    /\ \A q \in Topics : KeepsRecords(q, t)
    /\ \A p \in Places : At(p, t)' = At(p, t)
    /\ charges'[t] = charges[t] /\ paymentEvents'[t] = paymentEvents[t]
    /\ t \in DOMAIN orchestratorLogs' <=> t \in DOMAIN orchestratorLogs
    /\ t \in DOMAIN orchestratorLogs => orchestratorLogs'[t] = orchestratorLogs[t]

-----------------------------------------------------------------------------
(* Facts about records, places and counts.                                  *)

LEMMA TopicLength ==
    ASSUME TopicTypeOK, NEW q \in Topics
    PROVE  Len(topic[q]) \in Nat /\ DOMAIN topic[q] = 1 .. Len(topic[q])
<1>1. topic[q] \in Seq(MessagesOn(q)) BY DEF TopicTypeOK
<1> QED BY <1>1

\* A record that is appended is the last of its transaction and touches no other.
LEMMA Appended ==
    ASSUME TopicTypeOK, NEW q \in Topics, NEW m, Appends(q, m),
           NEW n, n = Len(topic[q]) + 1
    PROVE  /\ topic'[q][n] = m
           /\ \A t : n \notin RecordsOf(q, t)
           /\ \A t : m.transactionID = t => RecordsOf(q, t)' = RecordsOf(q, t) \cup {n}
           /\ \A t : m.transactionID # t => KeepsRecords(q, t)
           /\ \A t : \A i \in RecordsOf(q, t) : topic'[q][i] = topic[q][i]
           /\ \A p \in Topics \ {q} : \A t : KeepsRecords(p, t)
<1>1. topic[q] \in Seq(MessagesOn(q)) BY DEF TopicTypeOK
<1>2. Len(topic[q]) \in Nat /\ DOMAIN topic[q] = 1 .. Len(topic[q]) BY <1>1
<1>3. topic'[q] = Append(topic[q], m) /\ \A p \in Topics \ {q} : topic'[p] = topic[p]
  BY DEF TopicTypeOK, Appends
<1>4. /\ DOMAIN topic'[q] = 1 .. n
      /\ topic'[q][n] = m
      /\ \A i \in 1 .. Len(topic[q]) : topic'[q][i] = topic[q][i]
  BY <1>1, <1>2, <1>3
<1>6. \A t : n \notin RecordsOf(q, t) BY <1>2 DEF RecordsOf
<1>7. \A t : \A i \in RecordsOf(q, t) : topic'[q][i] = topic[q][i]
  BY <1>2, <1>4 DEF RecordsOf
<1>8. ASSUME NEW t
      PROVE  RecordsOf(q, t)' = RecordsOf(q, t) \cup (IF m.transactionID = t THEN {n} ELSE {})
  <2>1. RecordsOf(q, t)' = {i \in 1 .. n : topic'[q][i].transactionID = t}
    BY <1>4 DEF RecordsOf
  <2>2. RecordsOf(q, t) = {i \in 1 .. Len(topic[q]) : topic[q][i].transactionID = t}
    BY <1>2 DEF RecordsOf
  <2>3. \A i : i \in 1 .. n <=> i \in 1 .. Len(topic[q]) \/ i = n BY <1>2
  <2> QED BY <1>4, <2>1, <2>2, <2>3
<1>9. \A p \in Topics \ {q} : \A t : KeepsRecords(p, t)
  BY <1>3 DEF KeepsRecords, RecordsOf
<1>10. ASSUME NEW t, m.transactionID # t PROVE KeepsRecords(q, t)
  <2>1. RecordsOf(q, t)' = RecordsOf(q, t) BY <1>8, <1>10
  <2> QED BY <1>7, <2>1 DEF KeepsRecords
<1> QED BY <1>4, <1>6, <1>7, <1>8, <1>9, <1>10

\* The places one by one.
LEMMA Whereabouts ==
    ASSUME NEW t
    PROVE  /\ \A q \in {SagaReply, PaymentRequests, KitchenRequests} :
                 At(q, t) = UnreadOf(q, t) /\ At(q, t)' = UnreadOf(q, t)'
           /\ At("payment", t) = {u \in paymentTasks : u.transactionID = t}
           /\ At("payment", t)' = {u \in paymentTasks' : u.transactionID = t}
           /\ At("kitchen", t) = {u \in kitchenTasks : u.transactionID = t}
           /\ At("kitchen", t)' = {u \in kitchenTasks' : u.transactionID = t}
BY DEF At

LEMMA PlacesKept ==
    ASSUME NEW t,
           UnreadOf(SagaReply, t)' = UnreadOf(SagaReply, t),
           UnreadOf(PaymentRequests, t)' = UnreadOf(PaymentRequests, t),
           UnreadOf(KitchenRequests, t)' = UnreadOf(KitchenRequests, t),
           {u \in paymentTasks' : u.transactionID = t} = {u \in paymentTasks : u.transactionID = t},
           {u \in kitchenTasks' : u.transactionID = t} = {u \in kitchenTasks : u.transactionID = t}
    PROVE  \A p \in Places : At(p, t)' = At(p, t)
<1>1. ASSUME NEW p \in {SagaReply, PaymentRequests, KitchenRequests} PROVE At(p, t)' = At(p, t)
  <2>1. At(p, t) = UnreadOf(p, t) /\ At(p, t)' = UnreadOf(p, t)' BY Whereabouts
  <2> QED BY <2>1
<1>2. At("payment", t)' = At("payment", t) /\ At("kitchen", t)' = At("kitchen", t)
  BY Whereabouts
<1> QED BY <1>1, <1>2 DEF Places

\* The sets that are counted are finite ...
LEMMA CountedSetsFinite ==
    ASSUME TypeOK, NEW t \in Calls
    PROVE  /\ \A q \in Topics : IsFiniteSet(RecordsOf(q, t))
           /\ IsFiniteSet(OrdersOf(t)) /\ IsFiniteSet(RefundsOf(t))
<1>1. ASSUME NEW q \in Topics PROVE IsFiniteSet(RecordsOf(q, t))
  <2>1. Len(topic[q]) \in Nat /\ DOMAIN topic[q] = 1 .. Len(topic[q])
    BY TopicLength DEF TypeOK
  <2>2. IsFiniteSet(1 .. Len(topic[q])) BY <2>1, FS_Interval
  <2>3. RecordsOf(q, t) \in SUBSET (1 .. Len(topic[q])) BY <2>1 DEF RecordsOf
  <2> QED BY <2>2, <2>3, FS_Subset
<1>2. IsFiniteSet(OrdersOf(t))
  <2>1. OrdersOf(t) \in SUBSET RecordsOf(SagaReply, t) BY DEF OrdersOf
  <2> QED BY <1>1, <2>1, FS_Subset DEF Topics
<1>3. IsFiniteSet(RefundsOf(t))
  <2>1. paymentEvents[t] \in Seq(PaymentEvent) BY DEF TypeOK, PaymentTypeOK
  <2>2. /\ IsFiniteSet(1 .. Len(paymentEvents[t]))
        /\ DOMAIN paymentEvents[t] = 1 .. Len(paymentEvents[t])
    BY <2>1, FS_Interval
  <2>3. RefundsOf(t) \in SUBSET (1 .. Len(paymentEvents[t])) BY <2>2 DEF RefundsOf
  <2> QED BY <2>2, <2>3, FS_Subset
<1> QED BY <1>1, <1>2, <1>3

\* ... and their sizes are the counts, before a step and after it.
LEMMA CountedSets ==
    ASSUME NEW t
    PROVE  /\ Orders(t) = Cardinality(OrdersOf(t)) /\ Orders(t)' = Cardinality(OrdersOf(t)')
           /\ Outcomes(t) = Cardinality(RecordsOf(CheckoutReply, t))
           /\ Outcomes(t)' = Cardinality(RecordsOf(CheckoutReply, t)')
           /\ Refunds(t) = Cardinality(RefundsOf(t)) /\ Refunds(t)' = Cardinality(RefundsOf(t)')
<1>1. OrdersOf(t) = {i \in DOMAIN topic[SagaReply] :
         topic[SagaReply][i].kind = "NEW_TRANSACTION_REQUEST"
           /\ topic[SagaReply][i].transactionID = t}
  BY DEF OrdersOf, RecordsOf
<1>2. OrdersOf(t)' = {i \in DOMAIN topic'[SagaReply] :
         topic'[SagaReply][i].kind = "NEW_TRANSACTION_REQUEST"
           /\ topic'[SagaReply][i].transactionID = t}
  BY DEF OrdersOf, RecordsOf
<1>3. Orders(t) = Cardinality(OrdersOf(t)) /\ Orders(t)' = Cardinality(OrdersOf(t)')
  BY <1>1, <1>2 DEF Orders, CountIn
<1>4. /\ Outcomes(t) = Cardinality(RecordsOf(CheckoutReply, t))
      /\ Outcomes(t)' = Cardinality(RecordsOf(CheckoutReply, t)')
  BY DEF Outcomes, CountIn, RecordsOf
<1> QED BY <1>3, <1>4 DEF Refunds, RefundsOf

\* What is read of t is what is not unread, and what is unread is not read.
LEMMA HeardKinds ==
    ASSUME TypeOK, ConsumersUp, NEW t
    PROVE  \A k : k \in Heard(t) <=>
             \E i \in RecordsOf(SagaReply, t) :
                 i <= position[SagaReply] /\ topic[SagaReply][i].kind = k
<1>1. Len(topic[SagaReply]) \in Nat /\ DOMAIN topic[SagaReply] = 1 .. Len(topic[SagaReply])
  BY TopicLength DEF TypeOK, Topics
<1>2. position[SagaReply] \in Nat BY <1>1 DEF ConsumersUp, Topics
<1> QED BY <1>1, <1>2 DEF Heard, UnreadOf, RecordsOf

-----------------------------------------------------------------------------
(* What goes on step by step still does when nothing of it changes.         *)

LEMMA Kept ==
    ASSUME NEW t \in Calls, Untouched(t), Heard(t)' = Heard(t), GoesStepByStep(t)
    PROVE  GoesStepByStep(t)'
<1>1. /\ KeepsRecords(SagaReply, t) /\ KeepsRecords(PaymentRequests, t)
      /\ KeepsRecords(KitchenRequests, t) /\ KeepsRecords(CheckoutReply, t)
  BY DEF Untouched, Topics
<1>2. OrdersOf(t)' = OrdersOf(t)
  <2>1. OrdersOf(t)' = {i \in RecordsOf(SagaReply, t)' :
                          topic'[SagaReply][i].kind = "NEW_TRANSACTION_REQUEST"}
    BY DEF OrdersOf
  <2> QED BY <1>1, <2>1 DEF OrdersOf, KeepsRecords
<1>3. RefundsOf(t)' = RefundsOf(t) BY DEF RefundsOf, Untouched
<1>4. Orders(t)' = Orders(t) /\ Outcomes(t)' = Outcomes(t) /\ Refunds(t)' = Refunds(t)
  BY <1>1, <1>2, <1>3, CountedSets DEF KeepsRecords
<1>5. Nowhere(t)' <=> Nowhere(t) BY DEF Nowhere, Untouched
<1>6. ASSUME NothingOf(t) PROVE NothingOf(t)'
  BY <1>4, <1>5, <1>6 DEF NothingOf, Untouched, KeepsRecords
<1>7. \A h, n, k : Story(t, h, n, k)' <=> Story(t, h, n, k)
  BY <1>4 DEF Story, Untouched
<1>8. ASSUME UnderWay(t) PROVE UnderWay(t)'
  <2>1. \A k : StoryOfRecord(k, t) => StoryOfRecord(k, t)' BY <1>7 DEF StoryOfRecord
  <2>2. \A task : StoryOfPayment(task, t) => StoryOfPayment(task, t)'
    BY <1>7 DEF StoryOfPayment
  <2>3. \A p, x : OnlyAt(p, x, t) => OnlyAt(p, x, t)' BY DEF OnlyAt, Untouched
  <2>4. CASE \E q \in {SagaReply, PaymentRequests, KitchenRequests} : \E i \in RecordsOf(q, t) :
               OnlyAt(q, i, t) /\ StoryOfRecord(topic[q][i].kind, t)
    <3> PICK q \in {SagaReply, PaymentRequests, KitchenRequests} :
          \E i \in RecordsOf(q, t) : OnlyAt(q, i, t) /\ StoryOfRecord(topic[q][i].kind, t)
      BY <2>4
    <3> PICK i \in RecordsOf(q, t) : OnlyAt(q, i, t) /\ StoryOfRecord(topic[q][i].kind, t)
      OBVIOUS
    <3>1. i \in RecordsOf(q, t)' /\ topic'[q][i] = topic[q][i] BY <1>1 DEF KeepsRecords
    <3> PICK k : k = topic[q][i].kind OBVIOUS
    <3>2. OnlyAt(q, i, t)' /\ StoryOfRecord(k, t)' BY <2>1, <2>3
    <3>3. (OnlyAt(q, i, t) /\ StoryOfRecord(topic[q][i].kind, t))'
      BY <3>1, <3>2 DEF StoryOfRecord
    <3> QED BY <3>1, <3>3 DEF UnderWay
  <2>5. CASE \E task \in paymentTasks : OnlyAt("payment", task, t) /\ StoryOfPayment(task, t)
    <3> PICK task \in paymentTasks : OnlyAt("payment", task, t) /\ StoryOfPayment(task, t)
      BY <2>5
    <3>1. At("payment", t)' = {task} BY DEF OnlyAt, Untouched, Places
    <3>2. task \in paymentTasks' BY <3>1, Whereabouts
    <3> QED BY <2>2, <2>3, <3>2 DEF UnderWay
  <2>6. CASE \E task \in kitchenTasks : OnlyAt("kitchen", task, t) /\ Story(t, Paid, 1, 0)
    <3> PICK task \in kitchenTasks : OnlyAt("kitchen", task, t) /\ Story(t, Paid, 1, 0)
      BY <2>6
    <3>1. At("kitchen", t)' = {task} BY DEF OnlyAt, Untouched, Places
    <3>2. task \in kitchenTasks' BY <3>1, Whereabouts
    <3> QED BY <1>7, <2>3, <3>2 DEF UnderWay
  <2> QED BY <1>8, <2>4, <2>5, <2>6 DEF UnderWay
<1>9. ASSUME Open(t) PROVE Open(t)'
  BY <1>4, <1>8, <1>9 DEF Open, Untouched
<1>10. \A q \in Topics : \A x : x.transactionID = t => (Sent(q, x)' <=> Sent(q, x))
  BY DEF Untouched, KeepsRecords, RecordsOf, Sent
<1>11. ASSUME Closed(t) PROVE Closed(t)'
  <2>1. \A s : Finalized(s, t)' <=> Finalized(s, t)
    BY <1>10 DEF Finalized, FinalizeOrderMessage, Topics
  <2> QED BY <1>4, <1>5, <1>11, <2>1 DEF Closed, MoneyIsRight, Untouched
<1>12. ASSUME RequestsFollow(t) PROVE RequestsFollow(t)'
  BY <1>1, <1>12 DEF RequestsFollow, KeepsRecords
<1>13. ASSUME LogTells(t) PROVE LogTells(t)'
  <2> SUFFICES ASSUME t \in DOMAIN orchestratorLogs PROVE LogTells(t)'
    BY DEF LogTells, Untouched
  <2>1. orchestratorLogs'[t] = orchestratorLogs[t] BY DEF Untouched
  <2>2. \A o : /\ Sent(KitchenRequests, KitchenRequest(o, t))
                    => Sent(KitchenRequests, KitchenRequest(o, t))'
               /\ Sent(PaymentRequests, CompensatePaymentRequest(o, t))
                    => Sent(PaymentRequests, CompensatePaymentRequest(o, t))'
    BY <1>10 DEF KitchenRequest, CompensatePaymentRequest, Topics
  <2> QED BY <1>13, <2>1, <2>2 DEF LogTells
<1> QED BY <1>4, <1>6, <1>9, <1>11, <1>12, <1>13 DEF GoesStepByStep

-----------------------------------------------------------------------------
(* What sending and taking a record changes, when nothing fails.            *)

\* Faults only add up: none is counted after a step that had none before and none in it.
LEMMA NothingFails ==
    ASSUME faults' = 0, TypeOK
    PROVE  /\ \A kind : ~Fault(kind)
           /\ \A q \in Topics : \A m : Send(q, m) =>
                Appends(q, m) /\ UNCHANGED faults
BY DEF TypeOK, TopicTypeOK, Fault, Send, Appends

\* A record that is sent is unread, and is all that is new.
LEMMA SentUnread ==
    ASSUME TypeOK, ConsumersUp, NEW q \in Topics, NEW m, Appends(q, m),
           NEW p \in Topics, position'[p] = position[p], NEW t
    PROVE  /\ p # q \/ m.transactionID # t => UnreadOf(p, t)' = UnreadOf(p, t)
           /\ p = q /\ m.transactionID = t =>
                UnreadOf(p, t)' = UnreadOf(p, t) \cup {Len(topic[q]) + 1}
           /\ p = SagaReply => Heard(t)' = Heard(t)
<1> DEFINE n == Len(topic[q]) + 1
<1>0. TopicTypeOK BY DEF TypeOK
<1>1. /\ topic'[q][n] = m
      /\ \A i \in RecordsOf(p, t) : topic'[p][i] = topic[p][i]
      /\ p # q \/ m.transactionID # t => RecordsOf(p, t)' = RecordsOf(p, t)
      /\ p = q /\ m.transactionID = t => RecordsOf(p, t)' = RecordsOf(p, t) \cup {n}
  <2>1. CASE p = q
    <3>1. /\ topic'[q][n] = m
          /\ m.transactionID = t => RecordsOf(q, t)' = RecordsOf(q, t) \cup {n}
          /\ m.transactionID # t => KeepsRecords(q, t)
          /\ \A i \in RecordsOf(q, t) : topic'[q][i] = topic[q][i]
      BY <1>0, Appended
    <3> QED BY <2>1, <3>1 DEF KeepsRecords
  <2>2. CASE p # q
    <3>1. topic'[q][n] = m /\ KeepsRecords(p, t) BY <1>0, <2>2, Appended
    <3> QED BY <2>2, <3>1 DEF KeepsRecords
  <2> QED BY <2>1, <2>2
<1>2. position[q] \in Nat /\ position[q] < n BY <1>0, TopicLength DEF ConsumersUp
<1> HIDE DEF n
<1>3. CASE p # q \/ m.transactionID # t
  <2>1. RecordsOf(p, t)' = RecordsOf(p, t) BY <1>1, <1>3
  <2>2. UnreadOf(p, t)' = UnreadOf(p, t) BY <2>1 DEF UnreadOf
  <2>3. p = SagaReply => Heard(t)' = Heard(t) BY <1>1, <2>1, <2>2 DEF Heard
  <2> QED BY <1>3, <2>2, <2>3
<1>4. CASE p = q /\ m.transactionID = t
  <2>1. RecordsOf(p, t)' = RecordsOf(p, t) \cup {n} BY <1>1, <1>4
  <2>2. UnreadOf(p, t)' = UnreadOf(p, t) \cup {n} BY <1>2, <1>4, <2>1 DEF UnreadOf
  <2>3. n \notin RecordsOf(p, t) BY <1>0, <1>4, Appended DEF n
  <2>4. (RecordsOf(p, t) \ UnreadOf(p, t))' = RecordsOf(p, t) \ UnreadOf(p, t)
    BY <2>1, <2>2, <2>3
  <2>5. p = SagaReply => Heard(t)' = Heard(t) BY <1>1, <2>4 DEF Heard
  <2> QED BY <1>4, <2>2, <2>5 DEF n
<1> QED BY <1>3, <1>4

\* The record that is taken was unread, and is all that is read.
LEMMA TakenRead ==
    ASSUME TypeOK, ConsumersUp, NEW q \in Topics, Consume(q), topic'[q] = topic[q],
           NEW n, n = position[q] + 1, NEW m, m = NextRecord(q), NEW u, u = m.transactionID
    PROVE  /\ topic[q][n] = m
           /\ n \in RecordsOf(q, u) /\ n \in UnreadOf(q, u)
           /\ \A t : t # u => UnreadOf(q, t)' = UnreadOf(q, t)
           /\ \A t : UnreadOf(q, t)' = UnreadOf(q, t) \ {n}
           /\ q = SagaReply =>
                /\ \A t : t # u => Heard(t)' = Heard(t)
                /\ Heard(u)' = Heard(u) \cup {m.kind}
           /\ \A p \in Topics \ {q} : position'[p] = position[p]
<1>0. /\ Len(topic[q]) \in Nat /\ DOMAIN topic[q] = 1 .. Len(topic[q])
      /\ position \in [Topics -> Nat \cup {NoOffset}]
  BY TopicLength DEF TypeOK, TopicTypeOK
<1>1. /\ position[q] \in Nat /\ n \in DOMAIN topic[q] /\ position'[q] = n
      /\ \A p \in Topics \ {q} : position'[p] = position[p]
  BY <1>0 DEF Consume, HasRecord
<1>2. \A t : RecordsOf(q, t)' = RecordsOf(q, t) /\ RecordsOf(q, t) \subseteq Nat
  BY <1>0 DEF RecordsOf
<1>3. \A t : UnreadOf(q, t)' = UnreadOf(q, t) \ {n}
  BY <1>1, <1>2 DEF UnreadOf
<1>4. \A t : n \in RecordsOf(q, t) <=> t = u BY <1>1 DEF RecordsOf, NextRecord
<1>5. n \in UnreadOf(q, u) BY <1>1, <1>4 DEF UnreadOf
<1>6. \A t : t # u => UnreadOf(q, t)' = UnreadOf(q, t) BY <1>3, <1>4 DEF UnreadOf
<1>7. topic[q][n] = m BY DEF NextRecord
<1>8. ASSUME q = SagaReply
      PROVE  /\ \A t : t # u => Heard(t)' = Heard(t)
             /\ Heard(u)' = Heard(u) \cup {m.kind}
  <2>1. \A t, x : x \in Heard(t) <=>
          \E i \in RecordsOf(q, t) \ UnreadOf(q, t) : topic[q][i].kind = x
    BY <1>8 DEF Heard
  <2>2. \A t, x : x \in Heard(t)' <=>
          \E i \in RecordsOf(q, t) \ (UnreadOf(q, t) \ {n}) : topic[q][i].kind = x
    BY <1>2, <1>3, <1>8 DEF Heard
  <2>3. \A t : t # u => Heard(t)' = Heard(t)
    <3> SUFFICES ASSUME NEW t, t # u PROVE \A x : x \in Heard(t)' <=> x \in Heard(t)
      BY DEF Heard
    <3>1. n \notin UnreadOf(q, t) BY <1>4 DEF UnreadOf
    <3> QED BY <2>1, <2>2, <3>1
  <2>4. \A i : i \in RecordsOf(q, u) \ (UnreadOf(q, u) \ {n})
               <=> i \in RecordsOf(q, u) \ UnreadOf(q, u) \/ i = n
    BY <1>4, <1>5
  <2>5. \A x : x \in Heard(u)' <=> x \in Heard(u) \/ x = m.kind
    BY <1>7, <2>1, <2>2, <2>4
  <2>6. Heard(u)' = Heard(u) \cup {m.kind} BY <2>5 DEF Heard
  <2> QED BY <2>3, <2>6
<1> QED BY <1>1, <1>3, <1>4, <1>5, <1>6, <1>7, <1>8

-----------------------------------------------------------------------------
(* The checkout process.                                                    *)

LEMMA QuietUntouched ==
    ASSUME NEW t, UNCHANGED <<topic, paymentVars, kitchenVars, orchestratorLogs>>,
           \A q \in Topics \ {CheckoutReply} : position'[q] = position[q]
    PROVE  Untouched(t) /\ Heard(t)' = Heard(t)
<1>1. \A q \in Topics : RecordsOf(q, t)' = RecordsOf(q, t) BY DEF RecordsOf
<1>2. \A q \in Topics : KeepsRecords(q, t) BY <1>1 DEF KeepsRecords
<1>3. \A q \in {SagaReply, PaymentRequests, KitchenRequests} : UnreadOf(q, t)' = UnreadOf(q, t)
  BY <1>1 DEF UnreadOf, Topics
<1>4. \A p \in Places : At(p, t)' = At(p, t)
  BY <1>3, PlacesKept DEF paymentVars, kitchenVars
<1>5. Heard(t)' = Heard(t) BY <1>1, <1>3 DEF Heard, Topics
<1> QED BY <1>2, <1>4, <1>5 DEF Untouched, paymentVars

\* A publication of t: the first starts its saga, a second ends what can be said of it.
LEMMA Published ==
    ASSUME TypeOK, ConsumersUp, NEW t \in Calls, NEW o, GoesStepByStep(t),
           Appends(SagaReply, NewOrderMessage(o, t)), UNCHANGED offsets,
           UNCHANGED <<paymentVars, kitchenVars, orchestratorLogs>>
    PROVE  GoesStepByStep(t)'
<1> DEFINE m == NewOrderMessage(o, t)
<1>0. TopicTypeOK /\ SagaReply \in Topics BY DEF TypeOK, Topics
<1>00. m.transactionID = t /\ m.kind = "NEW_TRANSACTION_REQUEST" BY DEF NewOrderMessage
<1>m. Appends(SagaReply, m) OBVIOUS
<1> HIDE DEF m
<1> PICK n : n = Len(topic[SagaReply]) + 1 OBVIOUS
<1>1. /\ topic'[SagaReply][n] = m /\ n \notin RecordsOf(SagaReply, t)
      /\ RecordsOf(SagaReply, t)' = RecordsOf(SagaReply, t) \cup {n}
      /\ \A i \in RecordsOf(SagaReply, t) : topic'[SagaReply][i] = topic[SagaReply][i]
      /\ \A p \in Topics \ {SagaReply} : KeepsRecords(p, t)
  BY <1>0, <1>00, <1>m, Appended
<1>2. position' = position BY DEF offsets
<1>3. /\ UnreadOf(SagaReply, t)' = UnreadOf(SagaReply, t) \cup {n}
      /\ Heard(t)' = Heard(t)
  BY <1>0, <1>00, <1>2, <1>m, SentUnread
<1>4. /\ UnreadOf(PaymentRequests, t)' = UnreadOf(PaymentRequests, t)
      /\ UnreadOf(KitchenRequests, t)' = UnreadOf(KitchenRequests, t)
  BY <1>0, <1>2, <1>m, SentUnread DEF Topics
<1>5. OrdersOf(t)' = OrdersOf(t) \cup {n} /\ n \notin OrdersOf(t)
  <2>1. OrdersOf(t)' = {i \in RecordsOf(SagaReply, t)' :
                          topic'[SagaReply][i].kind = "NEW_TRANSACTION_REQUEST"}
    BY DEF OrdersOf
  <2> QED BY <1>00, <1>1, <2>1 DEF OrdersOf
<1>6. Orders(t)' = Orders(t) + 1 /\ Orders(t) \in Nat
  <2>1. IsFiniteSet(OrdersOf(t)) BY CountedSetsFinite
  <2>2. Cardinality(OrdersOf(t)') = Cardinality(OrdersOf(t)) + 1
    BY <1>5, <2>1, FS_AddElement
  <2> QED BY <2>1, <2>2, CountedSets, FS_CardinalityType
<1>7. CASE Orders(t) # 0 BY <1>6, <1>7 DEF GoesStepByStep
<1>8. CASE Orders(t) = 0
  <2>1. NothingOf(t) BY <1>8 DEF GoesStepByStep
  <2>2. \A q \in Topics : RecordsOf(q, t) = {} BY <2>1 DEF NothingOf
  <2>3. Heard(t)' = {} BY <1>0, <1>3, <2>2 DEF Heard
  <2>4. RefundsOf(t)' = RefundsOf(t) BY DEF RefundsOf, paymentVars
  <2>5. Story(t, {}, 0, 0)' BY <2>1, <2>3, <2>4, CountedSets DEF Story, NothingOf, paymentVars
  <2>6. OnlyAt(SagaReply, n, t)'
    <3>1. \A p \in Places : At(p, t) = {} BY <2>1 DEF NothingOf, Nowhere
    <3> QED
      BY <1>3, <1>4, <3>1, Whereabouts DEF OnlyAt, Places, paymentVars, kitchenVars
  <2>7. (StoryOfRecord(topic[SagaReply][n].kind, t))'
    BY <1>00, <1>1, <2>5 DEF StoryOfRecord
  <2>8. UnderWay(t)' BY <1>1, <2>6, <2>7 DEF UnderWay
  <2>9. /\ RecordsOf(CheckoutReply, t)' = {} /\ RecordsOf(KitchenRequests, t)' = {}
        /\ RecordsOf(PaymentRequests, t)' = {}
    BY <1>1, <2>2 DEF KeepsRecords, Topics
  <2>10. Outcomes(t)' = 0 BY <2>9, CountedSets, FS_EmptySet
  <2>11. t \notin DOMAIN orchestratorLogs' BY <2>1 DEF NothingOf
  <2>12. Open(t)' BY <2>3, <2>8, <2>10, <2>11 DEF Open
  <2>13. RequestsFollow(t)' BY <2>3, <2>9 DEF RequestsFollow
  <2>14. LogTells(t)' BY <2>11 DEF LogTells
  <2> QED BY <1>6, <1>8, <2>12, <2>13, <2>14 DEF GoesStepByStep
<1> QED BY <1>7, <1>8

LEMMA CallSteps ==
    ASSUME faults' = 0, TypeOK, ConsumersUp, SagasGoStepByStep,
           NEW c \in Calls, NewCall(c) \/ CallStep(c)
    PROVE  SagasGoStepByStep'
<1> SUFFICES ASSUME NEW t \in Calls PROVE GoesStepByStep(t)'
  BY DEF SagasGoStepByStep
<1>0. GoesStepByStep(t) BY DEF SagasGoStepByStep
<1>1. UNCHANGED <<paymentVars, kitchenVars, orchestratorLogs>> BY DEF NewCall, CallStep
<1>2. CASE PublishOrder(c)
  <2> DEFINE o == newOrderMessage
             u == orderTransactionID[newOrderMessage]
  <2>1. Appends(SagaReply, NewOrderMessage(o, u)) /\ UNCHANGED offsets
    BY <1>2, NothingFails DEF PublishOrder, Topics
  <2>2. CASE t = u BY <1>0, <1>1, <2>1, <2>2, Published
  <2>3. CASE t # u
    <3> DEFINE m == NewOrderMessage(o, u)
    <3>1. m.transactionID # t BY <2>3 DEF NewOrderMessage
    <3>2. TopicTypeOK /\ SagaReply \in Topics /\ Appends(SagaReply, m) /\ position' = position
      BY <2>1 DEF TypeOK, Topics, offsets
    <3> HIDE DEF m
    <3>3. \A q \in Topics : KeepsRecords(q, t) BY <3>1, <3>2, Appended
    <3>4. \A q \in Topics : UnreadOf(q, t)' = UnreadOf(q, t) BY <3>1, <3>2, SentUnread
    <3>5. Heard(t)' = Heard(t) BY <3>2, SentUnread
    <3>6. \A p \in Places : At(p, t)' = At(p, t)
      BY <1>1, <3>4, PlacesKept DEF Topics, paymentVars, kitchenVars
    <3>7. Untouched(t) BY <1>1, <3>3, <3>6 DEF Untouched, paymentVars
    <3> QED BY <1>0, <3>5, <3>7, Kept
  <2> QED BY <2>2, <2>3
<1>3. CASE ~PublishOrder(c)
  <2>1. UNCHANGED <<topic, offsets>>
    BY <1>3 DEF NewCall, CreateOrder, CallStep, InitiateCheckout, StorePending, SetTransactionID,
                PollResponse, StoreApproved, PutRow, StoreRejected, CallFails, topicVars
  <2>2. Untouched(t) /\ Heard(t)' = Heard(t) BY <1>1, <2>1, QuietUntouched DEF offsets
  <2> QED BY <1>0, <2>2, Kept
<1> QED BY <1>2, <1>3

-----------------------------------------------------------------------------
(* The orchestrator.                                                        *)

\* It takes a record and, unless it knows nothing of the transaction, sends another of the
\* same transaction; the logs of the other transactions stay.
LEMMA OrchestratorDoes ==
    ASSUME faults' = 0, TypeOK, OrchestratorRun,
           NEW m, m = NextRecord(SagaReply), NEW u, u = m.transactionID
    PROVE  /\ Consume(SagaReply) /\ topic'[SagaReply] = topic[SagaReply]
           /\ \/ UNCHANGED topic
              \/ \E q \in {PaymentRequests, KitchenRequests, CheckoutReply} : \E r :
                    r.transactionID = u /\ Appends(q, r)
           /\ \A t \in TransactionIDs \ {u} :
                /\ t \in DOMAIN orchestratorLogs' <=> t \in DOMAIN orchestratorLogs
                /\ t \in DOMAIN orchestratorLogs => orchestratorLogs'[t] = orchestratorLogs[t]
<1>1. Consume(SagaReply) /\ elaborateMessage(m) BY DEF OrchestratorRun
<1>2. \/ UNCHANGED topic
      \/ \E q \in {PaymentRequests, KitchenRequests, CheckoutReply} : \E r :
            r.transactionID = u /\ Appends(q, r)
  <2>1. CASE startTransaction(m)
    <3>1. Appends(PaymentRequests, PaymentRequest(m.order, u))
      BY <2>1, NothingFails DEF startTransaction, Topics
    <3>2. PaymentRequest(m.order, u).transactionID = u BY DEF PaymentRequest
    <3> QED BY <3>1, <3>2
  <2>2. CASE sendKitchenApprovalRequest(m)
    <3> DEFINE r == KitchenRequest(orchestratorLogs[u].order, u)
    <3>1. Appends(KitchenRequests, r)
      BY <2>2, NothingFails DEF sendKitchenApprovalRequest, Topics
    <3>2. r.transactionID = u BY DEF KitchenRequest
    <3> QED BY <3>1, <3>2
  <2>3. CASE sendCompensationRequest(m)
    <3> DEFINE r == CompensatePaymentRequest(orchestratorLogs[u].order, u)
    <3>1. Appends(PaymentRequests, r)
      BY <2>3, NothingFails DEF sendCompensationRequest, Topics
    <3>2. r.transactionID = u BY DEF CompensatePaymentRequest
    <3> QED BY <3>1, <3>2
  <2>4. CASE ignoreUnknownTransaction(m) BY <2>4 DEF ignoreUnknownTransaction
  <2>5. CASE sendFinalizeTransactionRequest(m)
    <3> DEFINE r == FinalizeOrderMessage(finalState(m.kind), u)
    <3>1. Appends(CheckoutReply, r)
      BY <2>5, NothingFails DEF sendFinalizeTransactionRequest, Topics
    <3>2. r.transactionID = u BY DEF FinalizeOrderMessage
    <3> QED BY <3>1, <3>2
  <2> QED BY <1>1, <2>1, <2>2, <2>3, <2>4, <2>5 DEF elaborateMessage
<1>3. topic'[SagaReply] = topic[SagaReply]
  BY <1>2 DEF Appends, TypeOK, TopicTypeOK, Topics
<1>4. ASSUME NEW t \in TransactionIDs \ {u}
      PROVE  /\ t \in DOMAIN orchestratorLogs' <=> t \in DOMAIN orchestratorLogs
             /\ t \in DOMAIN orchestratorLogs => orchestratorLogs'[t] = orchestratorLogs[t]
  <2>1. CASE startTransaction(m)
    BY <1>4, <2>1 DEF startTransaction, openLog, updateLog
  <2>2. CASE sendKitchenApprovalRequest(m) \/ sendCompensationRequest(m)
    BY <1>4, <2>2 DEF sendKitchenApprovalRequest, sendCompensationRequest, updateLog
  <2>3. CASE ignoreUnknownTransaction(m) BY <2>3 DEF ignoreUnknownTransaction
  <2>4. CASE sendFinalizeTransactionRequest(m)
    BY <1>4, <2>4 DEF sendFinalizeTransactionRequest, dropTransactionLog
  <2> QED BY <1>1, <2>1, <2>2, <2>3, <2>4 DEF elaborateMessage
<1> QED BY <1>1, <1>2, <1>3, <1>4

LEMMA OrchestratorOthers ==
    ASSUME faults' = 0, TypeOK, ConsumersUp, Orchestrator,
           NEW t \in Calls, t # NextRecord(SagaReply).transactionID
    PROVE  Untouched(t) /\ Heard(t)' = Heard(t)
<1> PICK m : m = NextRecord(SagaReply) OBVIOUS
<1> PICK u : u = m.transactionID OBVIOUS
<1> PICK n : n = position[SagaReply] + 1 OBVIOUS
<1>0. /\ TopicTypeOK /\ SagaReply \in Topics
      /\ OrchestratorRun /\ UNCHANGED <<controllerVars, paymentVars, kitchenVars>>
  BY DEF TypeOK, Topics, Orchestrator
<1>1. /\ Consume(SagaReply) /\ topic'[SagaReply] = topic[SagaReply]
      /\ \/ UNCHANGED topic
         \/ \E q \in {PaymentRequests, KitchenRequests, CheckoutReply} : \E r :
               r.transactionID = u /\ Appends(q, r)
      /\ t \in DOMAIN orchestratorLogs' <=> t \in DOMAIN orchestratorLogs
      /\ t \in DOMAIN orchestratorLogs => orchestratorLogs'[t] = orchestratorLogs[t]
  BY <1>0, OrchestratorDoes DEF TransactionIDs
<1>2. /\ UnreadOf(SagaReply, t)' = UnreadOf(SagaReply, t)
      /\ Heard(t)' = Heard(t)
      /\ \A p \in Topics \ {SagaReply} : position'[p] = position[p]
  BY <1>0, <1>1, TakenRead
<1>3. /\ \A p \in Topics : KeepsRecords(p, t)
      /\ \A p \in Topics \ {SagaReply} : UnreadOf(p, t)' = UnreadOf(p, t)
  <2>1. CASE UNCHANGED topic
    <3>1. \A p \in Topics : RecordsOf(p, t)' = RecordsOf(p, t) BY <2>1 DEF RecordsOf
    <3> QED BY <1>2, <2>1, <3>1 DEF KeepsRecords, UnreadOf
  <2>2. ASSUME NEW q \in {PaymentRequests, KitchenRequests, CheckoutReply}, NEW r,
               r.transactionID = u, Appends(q, r)
        PROVE  /\ \A p \in Topics : KeepsRecords(p, t)
               /\ \A p \in Topics \ {SagaReply} : UnreadOf(p, t)' = UnreadOf(p, t)
    <3>1. q \in Topics /\ r.transactionID # t BY <2>2 DEF Topics
    <3>2. \A p \in Topics : KeepsRecords(p, t) BY <1>0, <2>2, <3>1, Appended
    <3>3. \A p \in Topics \ {SagaReply} : UnreadOf(p, t)' = UnreadOf(p, t)
      BY <1>2, <2>2, <3>1, SentUnread
    <3> QED BY <3>2, <3>3
  <2> QED BY <1>1, <2>1, <2>2
<1>4. \A p \in Places : At(p, t)' = At(p, t)
  BY <1>0, <1>2, <1>3, PlacesKept DEF Topics, paymentVars, kitchenVars
<1> QED BY <1>0, <1>1, <1>2, <1>3, <1>4 DEF Untouched, paymentVars

\* What updateLog leaves in a log that is there.
LEMMA UpdatedLog ==
    ASSUME NEW logs, NEW t \in DOMAIN logs, logs[t] \in TransactionLogs, NEW key \in LogKeys
    PROVE  /\ DOMAIN updateLog(logs, t, key) = DOMAIN logs
           /\ updateLog(logs, t, key)[t] \in TransactionLogs
           /\ updateLog(logs, t, key)[t].order = logs[t].order
           /\ updateLog(logs, t, key)[t].keys = logs[t].keys \cup {key}
BY DEF updateLog, TransactionLogs

LEMMA UpdatedTwice ==
    ASSUME NEW logs, NEW t \in DOMAIN logs, logs[t] \in TransactionLogs,
           NEW key1 \in LogKeys, NEW key2 \in LogKeys,
           NEW twice, twice = updateLog(updateLog(logs, t, key1), t, key2)
    PROVE  /\ DOMAIN twice = DOMAIN logs
           /\ twice[t].order = logs[t].order
           /\ twice[t].keys = logs[t].keys \cup {key1, key2}
<1> PICK once : once = updateLog(logs, t, key1) OBVIOUS
<1>1. /\ DOMAIN once = DOMAIN logs /\ once[t] \in TransactionLogs
      /\ once[t].order = logs[t].order /\ once[t].keys = logs[t].keys \cup {key1}
  BY UpdatedLog
<1>2. /\ DOMAIN twice = DOMAIN once
      /\ twice[t].order = once[t].order /\ twice[t].keys = once[t].keys \cup {key2}
  BY <1>1, UpdatedLog
<1> QED BY <1>1, <1>2

\* The saga whose record is taken goes on to the request, or to the decision, that the
\* answer calls for.
LEMMA OrchestratorOwn ==
    ASSUME faults' = 0, TypeOK, ConsumersUp, Orchestrator,
           NEW t \in Calls, t = NextRecord(SagaReply).transactionID, GoesStepByStep(t)
    PROVE  GoesStepByStep(t)'
<1> PICK m : m = NextRecord(SagaReply) OBVIOUS
<1> PICK n : n = position[SagaReply] + 1 OBVIOUS
<1>0. /\ TopicTypeOK /\ SagaReply \in Topics /\ t = m.transactionID
      /\ OrchestratorRun /\ UNCHANGED <<controllerVars, paymentVars, kitchenVars>>
      /\ elaborateMessage(m)
  BY DEF TypeOK, Topics, Orchestrator, OrchestratorRun
<1>1. Consume(SagaReply) /\ topic'[SagaReply] = topic[SagaReply]
  BY <1>0, OrchestratorDoes
<1>2. /\ topic[SagaReply][n] = m /\ n \in RecordsOf(SagaReply, t)
      /\ n \in UnreadOf(SagaReply, t)
      /\ UnreadOf(SagaReply, t)' = UnreadOf(SagaReply, t) \ {n}
      /\ Heard(t)' = Heard(t) \cup {m.kind}
      /\ \A p \in Topics \ {SagaReply} : position'[p] = position[p]
  BY <1>0, <1>1, TakenRead
<1>3. KeepsRecords(SagaReply, t) BY <1>1 DEF KeepsRecords, RecordsOf
<1>4. OrdersOf(t)' = OrdersOf(t) BY <1>1, <1>3 DEF OrdersOf, KeepsRecords
<1>5. Orders(t)' = Orders(t) BY <1>4, CountedSets
<1>6. RefundsOf(t)' = RefundsOf(t) /\ charges' = charges
  BY <1>0 DEF RefundsOf, paymentVars
<1>7. Refunds(t)' = Refunds(t) BY <1>6, CountedSets
<1>8. Orders(t) # 0 BY <1>0, <1>2 DEF GoesStepByStep, NothingOf
<1> SUFFICES ASSUME Orders(t) = 1
             PROVE  RequestsFollow(t)' /\ LogTells(t)' /\ (Open(t) \/ Closed(t))'
  BY <1>5, <1>8 DEF GoesStepByStep
<1>9. At(SagaReply, t) # {} BY <1>2, Whereabouts
<1>10. Open(t) /\ RequestsFollow(t) /\ LogTells(t)
  BY <1>9 DEF GoesStepByStep, Closed, Nowhere, Places
<1>11. OnlyAt(SagaReply, n, t) /\ StoryOfRecord(m.kind, t)
  <2>1. \A p, x : OnlyAt(p, x, t) => p = SagaReply /\ x = n
    <3> SUFFICES ASSUME NEW p, NEW x, OnlyAt(p, x, t) PROVE p = SagaReply /\ x = n OBVIOUS
    <3>1. At(SagaReply, t) = IF SagaReply = p THEN {x} ELSE {} BY DEF OnlyAt, Places
    <3> QED BY <1>2, <1>9, <3>1, Whereabouts
  <2> QED BY <1>2, <1>10, <2>1 DEF Open, UnderWay
<1>12. UnreadOf(SagaReply, t)' = {}
  <2>1. At(SagaReply, t) = {n} BY <1>11 DEF OnlyAt, Places
  <2>2. UnreadOf(SagaReply, t) = {n} BY <2>1, Whereabouts
  <2> QED BY <1>2, <2>2
<1>13. /\ At(PaymentRequests, t) = {} /\ At(KitchenRequests, t) = {}
       /\ At("payment", t) = {} /\ At("kitchen", t) = {}
  BY <1>11 DEF OnlyAt, Places
<1>14. At(SagaReply, t)' = {} /\ At("payment", t)' = {} /\ At("kitchen", t)' = {}
  BY <1>0, <1>12, <1>13, Whereabouts DEF paymentVars, kitchenVars
<1>15. RecordsOf(CheckoutReply, t) = {} /\ Outcomes(t) = 0
  BY <1>10, CountedSets, CountedSetsFinite, FS_EmptySet DEF Open, Topics
<1>16. ASSUME NEW q \in {PaymentRequests, KitchenRequests}, NEW r, r.transactionID = t,
              Appends(q, r), NEW k, k = Len(topic[q]) + 1
       PROVE  /\ k \in RecordsOf(q, t)' /\ topic'[q][k] = r /\ OnlyAt(q, k, t)'
              /\ RecordsOf(q, t)' = RecordsOf(q, t) \cup {k}
              /\ \A i \in RecordsOf(q, t) : topic'[q][i] = topic[q][i]
              /\ \A p \in Topics \ {q} : KeepsRecords(p, t)
              /\ Outcomes(t)' = 0
  <2>1. q \in Topics /\ position'[q] = position[q] BY <1>2 DEF Topics
  <2>2. /\ topic'[q][k] = r
        /\ RecordsOf(q, t)' = RecordsOf(q, t) \cup {k}
        /\ \A i \in RecordsOf(q, t) : topic'[q][i] = topic[q][i]
        /\ \A p \in Topics \ {q} : KeepsRecords(p, t)
    BY <1>0, <1>16, <2>1, Appended
  <2>3. RecordsOf(CheckoutReply, t)' = {} BY <1>15, <2>2 DEF Topics, KeepsRecords
  <2>4. Outcomes(t)' = 0 BY <2>3, CountedSets, FS_EmptySet
  <2>5. UnreadOf(q, t)' = UnreadOf(q, t) \cup {k} BY <1>16, <2>1, SentUnread
  <2>6. At(q, t)' = {k} BY <1>13, <2>5, Whereabouts
  <2>7. \A p \in {PaymentRequests, KitchenRequests} \ {q} : At(p, t)' = {}
    <3> SUFFICES ASSUME NEW p \in {PaymentRequests, KitchenRequests} \ {q}
                 PROVE  At(p, t)' = {}
      OBVIOUS
    <3>1. p \in Topics /\ position'[p] = position[p] BY <1>2 DEF Topics
    <3>2. UnreadOf(p, t)' = UnreadOf(p, t) BY <1>16, <2>1, <3>1, SentUnread
    <3> QED BY <1>13, <3>2, Whereabouts
  <2>8. OnlyAt(q, k, t)' BY <1>14, <2>6, <2>7 DEF OnlyAt, Places
  <2> QED BY <2>2, <2>4, <2>8
<1>17. \A h, k, l : Heard(t)' = h /\ charges[t] = k /\ Refunds(t) = l => Story(t, h, k, l)'
  BY <1>6, <1>7 DEF Story
<1>18. t \in DOMAIN orchestratorLogs => orchestratorLogs[t] \in TransactionLogs
  BY DEF TypeOK, OrchestratorTypeOK
<1>19. CASE startTransaction(m)
  <2> DEFINE r == PaymentRequest(m.order, t)
  <2>1. r.transactionID = t /\ r.kind = "PAYMENT_REQUEST" BY DEF PaymentRequest
  <2>2. Appends(PaymentRequests, r) /\ m.kind = "NEW_TRANSACTION_REQUEST"
    BY <1>0, <1>19, NothingFails DEF startTransaction, Topics
  <2> HIDE DEF r
  <2> PICK k : k = Len(topic[PaymentRequests]) + 1 OBVIOUS
  <2>3. /\ k \in RecordsOf(PaymentRequests, t)' /\ topic'[PaymentRequests][k] = r
        /\ OnlyAt(PaymentRequests, k, t)'
        /\ RecordsOf(PaymentRequests, t)' = RecordsOf(PaymentRequests, t) \cup {k}
        /\ \A i \in RecordsOf(PaymentRequests, t) :
              topic'[PaymentRequests][i] = topic[PaymentRequests][i]
        /\ KeepsRecords(KitchenRequests, t)
        /\ Outcomes(t)' = 0
    BY <1>16, <2>1, <2>2 DEF Topics
  <2>4. Story(t, {}, 0, 0) BY <1>11, <2>2 DEF StoryOfRecord
  <2>5. Heard(t) = {} /\ Heard(t)' = Placed BY <1>2, <2>2, <2>4 DEF Story, Placed
  <2>6. Story(t, Placed, 0, 0)' BY <1>17, <2>4, <2>5 DEF Story
  <2>7. UnderWay(t)'
    <3>1. (StoryOfRecord(topic[PaymentRequests][k].kind, t))'
      BY <2>1, <2>3, <2>6 DEF StoryOfRecord
    <3> QED BY <2>3, <3>1 DEF UnderWay
  <2>8. t \in DOMAIN orchestratorLogs'
        /\ orchestratorLogs'[t].keys = {"NEW_TRANSACTION_REQUEST", "START_PAYMENT"}
    BY <1>0, <1>19 DEF startTransaction, openLog, updateLog
  <2>9. Open(t)' BY <2>3, <2>5, <2>7, <2>8 DEF Open, Placed
  <2>10. LogTells(t)' BY <2>5, <2>8 DEF LogTells, Placed
  <2>11. RequestsFollow(t)'
    BY <1>10, <2>1, <2>3, <2>5 DEF RequestsFollow, KeepsRecords, Placed
  <2> QED BY <2>9, <2>10, <2>11
<1>20. CASE sendKitchenApprovalRequest(m)
  <2> PICK o : o = orchestratorLogs[t].order OBVIOUS
  <2> PICK r : r = KitchenRequest(o, t) OBVIOUS
  <2>1. r.transactionID = t /\ r.kind = "KITCHEN_REQUEST" BY DEF KitchenRequest
  <2>2. Appends(KitchenRequests, r) /\ m.kind = "PAYMENT_ACCEPTED" /\ t \in DOMAIN orchestratorLogs
    BY <1>0, <1>20, NothingFails DEF sendKitchenApprovalRequest, Topics
  <2> PICK k : k = Len(topic[KitchenRequests]) + 1 OBVIOUS
  <2>3. /\ k \in RecordsOf(KitchenRequests, t)' /\ topic'[KitchenRequests][k] = r
        /\ OnlyAt(KitchenRequests, k, t)'
        /\ KeepsRecords(PaymentRequests, t)
        /\ Outcomes(t)' = 0
    BY <1>16, <2>1, <2>2 DEF Topics
  <2>4. Story(t, Placed, 1, 0) BY <1>11, <2>2 DEF StoryOfRecord
  <2>5. Heard(t) = Placed /\ Heard(t)' = Paid BY <1>2, <2>2, <2>4 DEF Story, Paid
  <2>6. Story(t, Paid, 1, 0)' BY <1>17, <2>4, <2>5 DEF Story
  <2>7. UnderWay(t)'
    <3>1. (StoryOfRecord(topic[KitchenRequests][k].kind, t))'
      BY <2>1, <2>3, <2>6 DEF StoryOfRecord
    <3> QED BY <2>3, <3>1 DEF UnderWay
  <2>8. /\ t \in DOMAIN orchestratorLogs' /\ orchestratorLogs'[t].order = o
        /\ orchestratorLogs'[t].keys =
             orchestratorLogs[t].keys \cup {"END_PAYMENT ", "START_KITCHEN_APPROVAL"}
    <3>1. t \in DOMAIN orchestratorLogs /\ orchestratorLogs[t] \in TransactionLogs
      BY <1>18, <2>2
    <3>2. ASSUME NEW key1 \in LogKeys, NEW key2 \in LogKeys, NEW logs,
                 logs = updateLog(updateLog(orchestratorLogs, t, key1), t, key2)
          PROVE  /\ t \in DOMAIN logs /\ logs[t].order = orchestratorLogs[t].order
                 /\ logs[t].keys = orchestratorLogs[t].keys \cup {key1, key2}
      BY <3>1, <3>2, UpdatedTwice
    <3>3. PICK key1 \in LogKeys : key1 = "END_PAYMENT " BY DEF LogKeys
    <3>4. PICK key2 \in LogKeys : key2 = "START_KITCHEN_APPROVAL" BY DEF LogKeys
    <3>5. orchestratorLogs' = updateLog(updateLog(orchestratorLogs, t, key1), t, key2)
      BY <1>0, <1>20, <3>3, <3>4, Zenon DEF sendKitchenApprovalRequest
    <3>6. /\ t \in DOMAIN orchestratorLogs' /\ orchestratorLogs'[t].order = o
          /\ orchestratorLogs'[t].keys = orchestratorLogs[t].keys \cup {key1, key2}
      BY <3>2, <3>5
    <3> QED BY <3>3, <3>4, <3>6, Zenon
  <2>9. Open(t)' BY <2>3, <2>5, <2>7, <2>8 DEF Open, Placed, Paid
  <2>10. Sent(KitchenRequests, KitchenRequest(o, t))'
    BY <2>3 DEF Sent, RecordsOf
  <2>11. LogTells(t)'
    <3>1. Sent(KitchenRequests, KitchenRequest(orchestratorLogs[t].order, t))'
      BY <2>8, <2>10
    <3> QED BY <1>10, <2>2, <2>5, <2>8, <3>1 DEF LogTells, Placed, Paid
  <2>12. RequestsFollow(t)'
    BY <1>10, <2>3, <2>5 DEF RequestsFollow, KeepsRecords, Placed, Paid
  <2> QED BY <2>9, <2>11, <2>12
<1>21. CASE sendCompensationRequest(m)
  <2> PICK o : o = orchestratorLogs[t].order OBVIOUS
  <2> PICK r : r = CompensatePaymentRequest(o, t) OBVIOUS
  <2>1. r.transactionID = t /\ r.kind = "COMPENSATE_REQUEST" BY DEF CompensatePaymentRequest
  <2>2. Appends(PaymentRequests, r) /\ m.kind = "KITCHEN_REFUSED" /\ t \in DOMAIN orchestratorLogs
    BY <1>0, <1>21, NothingFails DEF sendCompensationRequest, Topics
  <2> PICK k : k = Len(topic[PaymentRequests]) + 1 OBVIOUS
  <2>3. /\ k \in RecordsOf(PaymentRequests, t)' /\ topic'[PaymentRequests][k] = r
        /\ OnlyAt(PaymentRequests, k, t)'
        /\ KeepsRecords(KitchenRequests, t)
        /\ Outcomes(t)' = 0
    BY <1>16, <2>1, <2>2 DEF Topics
  <2>4. Story(t, Paid, 1, 0) BY <1>11, <2>2 DEF StoryOfRecord
  <2>5. Heard(t) = Paid /\ Heard(t)' = Refused BY <1>2, <2>2, <2>4 DEF Story, Refused
  <2>6. Story(t, Refused, 1, 0)' BY <1>17, <2>4, <2>5 DEF Story
  <2>7. UnderWay(t)'
    <3>1. (StoryOfRecord(topic[PaymentRequests][k].kind, t))'
      BY <2>1, <2>3, <2>6 DEF StoryOfRecord
    <3> QED BY <2>3, <3>1 DEF UnderWay
  <2>8. /\ t \in DOMAIN orchestratorLogs' /\ orchestratorLogs'[t].order = o
        /\ orchestratorLogs'[t].keys =
             orchestratorLogs[t].keys \cup {"END_KITCHEN_APPROVAL", "START_COMPENSATE_REQUEST"}
    <3>1. t \in DOMAIN orchestratorLogs /\ orchestratorLogs[t] \in TransactionLogs
      BY <1>18, <2>2
    <3>2. ASSUME NEW key1 \in LogKeys, NEW key2 \in LogKeys, NEW logs,
                 logs = updateLog(updateLog(orchestratorLogs, t, key1), t, key2)
          PROVE  /\ t \in DOMAIN logs /\ logs[t].order = orchestratorLogs[t].order
                 /\ logs[t].keys = orchestratorLogs[t].keys \cup {key1, key2}
      BY <3>1, <3>2, UpdatedTwice
    <3>3. PICK key1 \in LogKeys : key1 = "END_KITCHEN_APPROVAL" BY DEF LogKeys
    <3>4. PICK key2 \in LogKeys : key2 = "START_COMPENSATE_REQUEST" BY DEF LogKeys
    <3>5. orchestratorLogs' = updateLog(updateLog(orchestratorLogs, t, key1), t, key2)
      BY <1>0, <1>21, <3>3, <3>4, Zenon DEF sendCompensationRequest
    <3>6. /\ t \in DOMAIN orchestratorLogs' /\ orchestratorLogs'[t].order = o
          /\ orchestratorLogs'[t].keys = orchestratorLogs[t].keys \cup {key1, key2}
      BY <3>2, <3>5
    <3> QED BY <3>3, <3>4, <3>6, Zenon
  <2>9. Open(t)' BY <2>3, <2>5, <2>7, <2>8 DEF Open, Placed, Paid, Refused
  <2>10. Sent(PaymentRequests, CompensatePaymentRequest(o, t))'
    BY <2>3 DEF Sent, RecordsOf
  <2>11. Sent(KitchenRequests, KitchenRequest(o, t))'
    <3>1. Sent(KitchenRequests, KitchenRequest(o, t))
      BY <1>10, <2>2, <2>5 DEF LogTells, Paid
    <3>2. KitchenRequest(o, t).transactionID = t BY DEF KitchenRequest
    <3> QED BY <2>3, <3>1, <3>2 DEF Sent, KeepsRecords, RecordsOf
  <2>12. LogTells(t)'
    <3>1. /\ Sent(KitchenRequests, KitchenRequest(orchestratorLogs[t].order, t))'
          /\ Sent(PaymentRequests, CompensatePaymentRequest(orchestratorLogs[t].order, t))'
      BY <2>8, <2>10, <2>11
    <3> QED BY <1>10, <2>2, <2>5, <2>8, <3>1 DEF LogTells, Placed, Paid, Refused
  <2>13. RequestsFollow(t)'
    BY <1>10, <2>1, <2>3, <2>5 DEF RequestsFollow, KeepsRecords, Placed, Paid, Refused
  <2> QED BY <2>9, <2>12, <2>13
<1>22. CASE ignoreUnknownTransaction(m)
  <2>1. m.kind \in {"PAYMENT_ACCEPTED", "KITCHEN_REFUSED"} /\ t \notin DOMAIN orchestratorLogs
    BY <1>0, <1>22 DEF ignoreUnknownTransaction
  <2>2. Heard(t) \in {Placed, Paid} BY <1>11, <2>1 DEF StoryOfRecord, Story
  <2> QED BY <1>10, <2>1, <2>2 DEF Open, Placed, Paid
<1>23. CASE sendFinalizeTransactionRequest(m)
  <2> DEFINE s == finalState(m.kind)
             r == FinalizeOrderMessage(s, t)
  <2>1. r.transactionID = t /\ r.kind = s BY DEF FinalizeOrderMessage
  <2>2. /\ Appends(CheckoutReply, r)
        /\ m.kind \in {"PAYMENT_DENIED", "PAYMENT_ROLLBACK_SUCCESS", "KITCHEN_ACCEPTED"}
        /\ t \notin DOMAIN orchestratorLogs'
    <3>1. /\ m.kind \in {"PAYMENT_DENIED", "PAYMENT_ROLLBACK_SUCCESS", "KITCHEN_ACCEPTED"}
          /\ orchestratorLogs' = dropTransactionLog(orchestratorLogs, t)
          /\ Send(CheckoutReply, r)
      BY <1>0, <1>23 DEF sendFinalizeTransactionRequest
    <3>2. Appends(CheckoutReply, r) BY <1>0, <3>1, NothingFails DEF Topics
    <3>3. t \notin DOMAIN orchestratorLogs' BY <3>1 DEF dropTransactionLog
    <3> QED BY <3>1, <3>2, <3>3
  <2> HIDE DEF r, s
  <2> PICK k : k = Len(topic[CheckoutReply]) + 1 OBVIOUS
  <2>3. /\ topic'[CheckoutReply][k] = r
        /\ RecordsOf(CheckoutReply, t)' = {k}
        /\ KeepsRecords(PaymentRequests, t) /\ KeepsRecords(KitchenRequests, t)
    <3>1. CheckoutReply \in Topics BY DEF Topics
    <3>2. /\ topic'[CheckoutReply][k] = r
          /\ RecordsOf(CheckoutReply, t)' = RecordsOf(CheckoutReply, t) \cup {k}
          /\ \A p \in Topics \ {CheckoutReply} : KeepsRecords(p, t)
      BY <1>0, <2>1, <2>2, <3>1, Appended
    <3> QED BY <1>15, <3>2 DEF Topics
  <2>4. Outcomes(t)' = 1
    <3>1. Outcomes(t)' = Cardinality(RecordsOf(CheckoutReply, t)') BY CountedSets
    <3>2. Cardinality({k}) = 1 BY FS_Singleton
    <3> QED BY <2>3, <3>1, <3>2
  <2>5. At(PaymentRequests, t)' = {} /\ At(KitchenRequests, t)' = {}
    <3>1. /\ UnreadOf(PaymentRequests, t)' = UnreadOf(PaymentRequests, t)
          /\ UnreadOf(KitchenRequests, t)' = UnreadOf(KitchenRequests, t)
      BY <1>2, <2>2, SentUnread DEF Topics
    <3> QED BY <1>13, <3>1, Whereabouts
  <2>6. Nowhere(t)' BY <1>14, <2>5 DEF Nowhere, Places
  <2>7. \A x : Finalized(x, t)' => x = s
    <3> SUFFICES ASSUME NEW x, Finalized(x, t)' PROVE x = s OBVIOUS
    <3>1. FinalizeOrderMessage(x, t).transactionID = t /\ FinalizeOrderMessage(x, t).kind = x
      BY DEF FinalizeOrderMessage
    <3>2. PICK i \in DOMAIN topic'[CheckoutReply] :
            topic'[CheckoutReply][i] = FinalizeOrderMessage(x, t)
      BY DEF Finalized, Sent
    <3>3. i \in RecordsOf(CheckoutReply, t)' BY <3>1, <3>2 DEF RecordsOf
    <3> QED BY <2>1, <2>3, <3>1, <3>2, <3>3
  <2>8. MoneyIsRight(t)'
    <3>1. CASE m.kind = "KITCHEN_ACCEPTED"
      <4>1. charges[t] = 1 /\ Refunds(t) = 0 BY <1>11, <3>1 DEF StoryOfRecord, Story
      <4>2. s = "APPROVED" BY <3>1 DEF s, finalState
      <4> QED BY <1>6, <1>7, <2>7, <4>1, <4>2 DEF MoneyIsRight
    <3>2. CASE m.kind \in {"PAYMENT_DENIED", "PAYMENT_ROLLBACK_SUCCESS"}
      <4>1. charges[t] = Refunds(t) BY <1>11, <3>2 DEF StoryOfRecord, Story
      <4>2. s = "REJECTED" BY <3>2 DEF s, finalState
      <4> QED BY <1>6, <1>7, <2>7, <4>1, <4>2 DEF MoneyIsRight
    <3> QED BY <2>2, <3>1, <3>2
  <2>9. Closed(t)' BY <2>2, <2>4, <2>6, <2>8 DEF Closed
  <2>10. LogTells(t)' BY <2>2 DEF LogTells
  <2>11. RequestsFollow(t)' BY <1>2, <1>10, <2>2, <2>3 DEF RequestsFollow, KeepsRecords
  <2> QED BY <2>9, <2>10, <2>11
<1> QED BY <1>0, <1>19, <1>20, <1>21, <1>22, <1>23 DEF elaborateMessage

LEMMA OrchestratorSteps ==
    ASSUME faults' = 0, TypeOK, ConsumersUp, SagasGoStepByStep, Orchestrator
    PROVE  SagasGoStepByStep'
<1> SUFFICES ASSUME NEW t \in Calls PROVE GoesStepByStep(t)'
  BY DEF SagasGoStepByStep
<1>0. GoesStepByStep(t) BY DEF SagasGoStepByStep
<1>1. CASE t = NextRecord(SagaReply).transactionID BY <1>0, <1>1, OrchestratorOwn
<1>2. CASE t # NextRecord(SagaReply).transactionID BY <1>0, <1>2, OrchestratorOthers, Kept
<1> QED BY <1>1, <1>2

-----------------------------------------------------------------------------
(* What the steps of the two services have in common.                       *)

\* Where something of t is found, there is nothing else of it under way.
LEMMA FoundThere ==
    ASSUME NEW t, UnderWay(t), NEW p \in Places, NEW x \in At(p, t)
    PROVE  /\ OnlyAt(p, x, t)
           /\ p \in {SagaReply, PaymentRequests, KitchenRequests} =>
                StoryOfRecord(topic[p][x].kind, t)
           /\ p = "payment" => StoryOfPayment(x, t)
           /\ p = "kitchen" => Story(t, Paid, 1, 0)
<1>1. \A q, y : OnlyAt(q, y, t) => q = p /\ y = x
  <2> SUFFICES ASSUME NEW q, NEW y, OnlyAt(q, y, t) PROVE q = p /\ y = x OBVIOUS
  <2>1. At(p, t) = IF p = q THEN {y} ELSE {} BY DEF OnlyAt
  <2> QED BY <2>1
<1> QED BY <1>1 DEF UnderWay

\* A service keeps the publications, the requests, the decision and the log of t; so it is
\* enough that what is under way of t goes on.
LEMMA GoesOn ==
    ASSUME NEW t \in Calls, GoesStepByStep(t), Orders(t) # 0,
           NEW p \in Places, At(p, t) # {},
           OrdersOf(t)' = OrdersOf(t), Heard(t)' = Heard(t), UNCHANGED orchestratorLogs,
           \A q \in Topics \ {SagaReply} : KeepsRecords(q, t),
           Orders(t) = 1 /\ UnderWay(t) => UnderWay(t)'
    PROVE  GoesStepByStep(t)'
<1>1. /\ KeepsRecords(PaymentRequests, t) /\ KeepsRecords(KitchenRequests, t)
      /\ KeepsRecords(CheckoutReply, t)
  BY DEF Topics
<1>2. Orders(t)' = Orders(t) /\ Outcomes(t)' = Outcomes(t)
  BY <1>1, CountedSets DEF KeepsRecords
<1> SUFFICES ASSUME Orders(t) = 1 PROVE RequestsFollow(t)' /\ LogTells(t)' /\ Open(t)'
  BY <1>2 DEF GoesStepByStep
<1>3. ~Nowhere(t) BY DEF Nowhere
<1>4. Open(t) /\ RequestsFollow(t) /\ LogTells(t) BY <1>3 DEF GoesStepByStep, Closed
<1>5. Open(t)' BY <1>2, <1>4 DEF Open
<1>6. RequestsFollow(t)' BY <1>1, <1>4 DEF RequestsFollow, KeepsRecords
<1>7. LogTells(t)'
  <2> SUFFICES ASSUME t \in DOMAIN orchestratorLogs PROVE LogTells(t)' BY DEF LogTells
  <2>1. \A q \in {PaymentRequests, KitchenRequests} : \A x :
          x.transactionID = t => (Sent(q, x) => Sent(q, x)')
    BY <1>1 DEF Sent, KeepsRecords, RecordsOf
  <2>2. \A o : /\ Sent(KitchenRequests, KitchenRequest(o, t))
                    => Sent(KitchenRequests, KitchenRequest(o, t))'
               /\ Sent(PaymentRequests, CompensatePaymentRequest(o, t))
                    => Sent(PaymentRequests, CompensatePaymentRequest(o, t))'
    BY <2>1 DEF KitchenRequest, CompensatePaymentRequest
  <2> QED BY <1>4, <2>2 DEF LogTells
<1> QED BY <1>5, <1>6, <1>7

LEMMA SameTopics ==
    ASSUME UNCHANGED topic, NEW t
    PROVE  /\ \A q \in Topics : RecordsOf(q, t)' = RecordsOf(q, t) /\ KeepsRecords(q, t)
           /\ OrdersOf(t)' = OrdersOf(t)
           /\ \A q \in Topics : position'[q] = position[q] => UnreadOf(q, t)' = UnreadOf(q, t)
           /\ position'[SagaReply] = position[SagaReply] => Heard(t)' = Heard(t)
<1>1. \A q \in Topics : RecordsOf(q, t)' = RecordsOf(q, t) BY DEF RecordsOf
<1>2. \A q \in Topics : KeepsRecords(q, t) BY <1>1 DEF KeepsRecords
<1>3. \A q \in Topics : position'[q] = position[q] => UnreadOf(q, t)' = UnreadOf(q, t)
  BY <1>1 DEF UnreadOf
<1>4. OrdersOf(t)' = OrdersOf(t) BY <1>1 DEF OrdersOf, Topics
<1>5. position'[SagaReply] = position[SagaReply] => Heard(t)' = Heard(t)
  BY <1>1, <1>3 DEF Heard, Topics
<1> QED BY <1>1, <1>2, <1>3, <1>4, <1>5

\* An answer of a service is no publication; it is unread, and all that is new.
LEMMA AnswerSent ==
    ASSUME TypeOK, ConsumersUp, NEW m, Appends(SagaReply, m),
           m.kind # "NEW_TRANSACTION_REQUEST", UNCHANGED offsets,
           NEW n, n = Len(topic[SagaReply]) + 1, NEW t
    PROVE  /\ Heard(t)' = Heard(t) /\ OrdersOf(t)' = OrdersOf(t)
           /\ \A q \in Topics \ {SagaReply} :
                KeepsRecords(q, t) /\ UnreadOf(q, t)' = UnreadOf(q, t)
           /\ m.transactionID # t =>
                KeepsRecords(SagaReply, t) /\ UnreadOf(SagaReply, t)' = UnreadOf(SagaReply, t)
           /\ m.transactionID = t =>
                /\ topic'[SagaReply][n] = m /\ n \in RecordsOf(SagaReply, t)'
                /\ UnreadOf(SagaReply, t)' = UnreadOf(SagaReply, t) \cup {n}
<1>0. TopicTypeOK /\ SagaReply \in Topics /\ position' = position
  BY DEF TypeOK, Topics, offsets
<1>1. /\ topic'[SagaReply][n] = m
      /\ m.transactionID = t => RecordsOf(SagaReply, t)' = RecordsOf(SagaReply, t) \cup {n}
      /\ m.transactionID # t => KeepsRecords(SagaReply, t)
      /\ \A i \in RecordsOf(SagaReply, t) : topic'[SagaReply][i] = topic[SagaReply][i]
      /\ \A q \in Topics \ {SagaReply} : KeepsRecords(q, t)
  BY <1>0, Appended
<1>2. /\ Heard(t)' = Heard(t)
      /\ m.transactionID # t => UnreadOf(SagaReply, t)' = UnreadOf(SagaReply, t)
      /\ m.transactionID = t => UnreadOf(SagaReply, t)' = UnreadOf(SagaReply, t) \cup {n}
      /\ \A q \in Topics \ {SagaReply} : UnreadOf(q, t)' = UnreadOf(q, t)
  BY <1>0, SentUnread
<1>3. OrdersOf(t)' = OrdersOf(t)
  <2>1. OrdersOf(t)' = {i \in RecordsOf(SagaReply, t)' :
                          topic'[SagaReply][i].kind = "NEW_TRANSACTION_REQUEST"}
    BY DEF OrdersOf
  <2> QED BY <1>1, <2>1 DEF OrdersOf, KeepsRecords
<1> QED BY <1>1, <1>2, <1>3

-----------------------------------------------------------------------------
(* The payment service.                                                     *)

\* A request that is taken becomes a task.
LEMMA PaymentPollSteps ==
    ASSUME TypeOK, ConsumersUp, SagasGoStepByStep, PaymentPoll
    PROVE  SagasGoStepByStep'
<1> SUFFICES ASSUME NEW t \in Calls PROVE GoesStepByStep(t)'
  BY DEF SagasGoStepByStep
<1> PICK m : m = NextRecord(PaymentRequests) OBVIOUS
<1> PICK n : n = position[PaymentRequests] + 1 OBVIOUS
<1> PICK u : u = m.transactionID OBVIOUS
<1> PICK task : task = [offset |-> position[PaymentRequests], kind |-> m.kind,
                        order |-> m.order, transactionID |-> u, pc |-> "submitted"]
  OBVIOUS
<1>0. /\ GoesStepByStep(t) /\ TopicTypeOK /\ PaymentRequests \in Topics
      /\ Consume(PaymentRequests) /\ paymentTasks' = paymentTasks \cup {task}
      /\ UNCHANGED <<topic, paymentEvents, charges, orchestratorLogs, kitchenTasks>>
      /\ task.transactionID = u /\ task.kind = m.kind /\ task.pc = "submitted"
  BY DEF SagasGoStepByStep, TypeOK, Topics, PaymentPoll, PaymentSubscriber, kitchenVars
<1>1. /\ topic[PaymentRequests][n] = m /\ n \in RecordsOf(PaymentRequests, u)
      /\ n \in UnreadOf(PaymentRequests, u)
      /\ t # u => UnreadOf(PaymentRequests, t)' = UnreadOf(PaymentRequests, t)
      /\ UnreadOf(PaymentRequests, t)' = UnreadOf(PaymentRequests, t) \ {n}
      /\ \A p \in Topics \ {PaymentRequests} : position'[p] = position[p]
  BY <1>0, TakenRead
<1>2. /\ \A q \in Topics : KeepsRecords(q, t)
      /\ OrdersOf(t)' = OrdersOf(t) /\ Heard(t)' = Heard(t)
      /\ UnreadOf(SagaReply, t)' = UnreadOf(SagaReply, t)
      /\ UnreadOf(KitchenRequests, t)' = UnreadOf(KitchenRequests, t)
  BY <1>0, <1>1, SameTopics DEF Topics
<1>3. CASE t # u
  <2>1. {v \in paymentTasks' : v.transactionID = t} = {v \in paymentTasks : v.transactionID = t}
    BY <1>0, <1>3
  <2>2. \A p \in Places : At(p, t)' = At(p, t) BY <1>0, <1>1, <1>2, <1>3, <2>1, PlacesKept
  <2>3. Untouched(t) BY <1>0, <1>2, <2>2 DEF Untouched
  <2> QED BY <1>0, <1>2, <2>3, Kept
<1>4. CASE t = u
  <2>1. n \in At(PaymentRequests, t) /\ PaymentRequests \in Places
    BY <1>1, <1>4, Whereabouts DEF Places
  <2>2. Orders(t) # 0 BY <1>0, <1>1, <1>4 DEF GoesStepByStep, NothingOf
  <2>3. ASSUME UnderWay(t) PROVE UnderWay(t)'
    <3>1. OnlyAt(PaymentRequests, n, t) /\ StoryOfRecord(m.kind, t)
      BY <1>1, <2>1, <2>3, FoundThere
    <3>2. /\ At(PaymentRequests, t) = {n} /\ At("payment", t) = {} /\ At(SagaReply, t) = {}
          /\ At(KitchenRequests, t) = {} /\ At("kitchen", t) = {}
      BY <3>1 DEF OnlyAt, Places
    <3>3. At("payment", t)' = {task} BY <1>0, <1>4, <3>2, Whereabouts
    <3>4. /\ At(PaymentRequests, t)' = {} /\ At(SagaReply, t)' = {}
          /\ At(KitchenRequests, t)' = {} /\ At("kitchen", t)' = {}
      BY <1>0, <1>1, <1>2, <3>2, Whereabouts
    <3>5. OnlyAt("payment", task, t)' BY <3>3, <3>4 DEF OnlyAt, Places
    <3>6. \A h, k, l : Story(t, h, k, l)' <=> Story(t, h, k, l)
      <4>1. RefundsOf(t)' = RefundsOf(t) BY <1>0 DEF RefundsOf
      <4> QED BY <1>0, <1>2, <4>1, CountedSets DEF Story
    <3>7. m.kind \in {"PAYMENT_REQUEST", "COMPENSATE_REQUEST"}
      <4>1. m \in MessagesOn(PaymentRequests) BY <1>0, NextRecordSent DEF Consume
      <4>2. m \in Requests({"PAYMENT_REQUEST", "COMPENSATE_REQUEST"}) BY <4>1 DEF MessagesOn
      <4> QED BY <4>2 DEF Requests
    <3>8. StoryOfPayment(task, t)'
      BY <1>0, <3>1, <3>6, <3>7 DEF StoryOfRecord, StoryOfPayment
    <3> QED BY <1>0, <3>5, <3>8 DEF UnderWay
  <2> QED BY <1>0, <1>2, <2>1, <2>2, <2>3, GoesOn
<1> QED BY <1>3, <1>4

\* The refunds of t, counted when a row is stored.
LEMMA RowStored ==
    ASSUME TypeOK, NEW t \in Calls, NEW row,
           paymentEvents' = [paymentEvents EXCEPT ![t] = Append(@, row)]
    PROVE  /\ Refunds(t) \in Nat
           /\ Refunds(t)' = IF row.status = "payment rejected" THEN Refunds(t) + 1 ELSE Refunds(t)
<1> PICK n : n = Len(paymentEvents[t]) + 1 OBVIOUS
<1>1. /\ paymentEvents \in [Calls -> Seq(PaymentEvent)]
      /\ paymentEvents[t] \in Seq(PaymentEvent)
  BY DEF TypeOK, PaymentTypeOK
<1>2. /\ DOMAIN paymentEvents[t] = 1 .. Len(paymentEvents[t]) /\ Len(paymentEvents[t]) \in Nat
      /\ paymentEvents'[t] = Append(paymentEvents[t], row)
  BY <1>1
<1>3. /\ DOMAIN paymentEvents'[t] = 1 .. n /\ paymentEvents'[t][n] = row
      /\ \A i \in 1 .. Len(paymentEvents[t]) : paymentEvents'[t][i] = paymentEvents[t][i]
  BY <1>1, <1>2
<1>4. /\ n \notin RefundsOf(t)
      /\ RefundsOf(t)' = RefundsOf(t) \cup (IF row.status = "payment rejected" THEN {n} ELSE {})
  <2>1. \A i : i \in 1 .. n <=> i \in 1 .. Len(paymentEvents[t]) \/ i = n BY <1>2
  <2>2. n \notin 1 .. Len(paymentEvents[t]) BY <1>2
  <2> QED BY <1>2, <1>3, <2>1, <2>2 DEF RefundsOf
<1>5. IsFiniteSet(RefundsOf(t)) BY CountedSetsFinite
<1>6. Refunds(t) \in Nat BY <1>5, CountedSets, FS_CardinalityType
<1>7. CASE row.status = "payment rejected"
  <2>1. RefundsOf(t)' = RefundsOf(t) \cup {n} BY <1>4, <1>7
  <2>2. Cardinality(RefundsOf(t)') = Cardinality(RefundsOf(t)) + 1
    BY <1>4, <1>5, <2>1, FS_AddElement
  <2> QED BY <1>6, <1>7, <2>2, CountedSets
<1>8. CASE row.status # "payment rejected"
  <2>1. RefundsOf(t)' = RefundsOf(t) BY <1>4, <1>8
  <2> QED BY <1>6, <1>8, <2>1, CountedSets
<1> QED BY <1>7, <1>8

\* A task of another transaction changes nothing of t.
LEMMA PaymentOthers ==
    ASSUME faults' = 0, TypeOK, ConsumersUp, PaymentWork,
           NEW t \in Calls, NEW task \in paymentTasks, task.transactionID # t,
           \/ PaymentRequested(task) \/ PaymentAccepted(task) \/ PaymentAborted(task)
           \/ PaymentRolledBack(task) \/ PaymentFails(task) \/ PaymentAnswers(task)
    PROVE  Untouched(t) /\ Heard(t)' = Heard(t)
<1> PICK u : u = task.transactionID OBVIOUS
<1>0. /\ TopicTypeOK /\ u # t
      /\ paymentTasks \subseteq PaymentTask
      /\ UNCHANGED <<orchestratorLogs, kitchenTasks, offsets>>
  BY DEF TypeOK, PaymentTypeOK, PaymentWork, kitchenVars, PaymentRequested, PaymentAccepted,
         PaymentAborted, PaymentRolledBack, PaymentFails, PaymentAnswers, topicVars
<1>1. {v \in paymentTasks' : v.transactionID = t} = {v \in paymentTasks : v.transactionID = t}
  <2>1. CASE paymentTasks' = paymentTasks \ {task} BY <2>1
  <2>2. ASSUME NEW next, PaymentMoves(task, next)
        PROVE  {v \in paymentTasks' : v.transactionID = t}
                 = {v \in paymentTasks : v.transactionID = t}
    <3> PICK moved : moved = [task EXCEPT !.pc = next] OBVIOUS
    <3>1. moved.transactionID = u BY <1>0 DEF PaymentTask
    <3>2. paymentTasks' = (paymentTasks \ {task}) \cup {moved} BY <2>2 DEF PaymentMoves
    <3> QED BY <1>0, <3>1, <3>2
  <2> QED
    BY <2>1, <2>2 DEF PaymentRequested, PaymentAccepted, PaymentAborted, PaymentRolledBack,
                      PaymentFails, PaymentAnswers
<1>2. charges'[t] = charges[t] /\ paymentEvents'[t] = paymentEvents[t]
  <2>1. charges \in [Calls -> Nat] /\ paymentEvents \in [Calls -> Seq(PaymentEvent)]
    BY DEF TypeOK, PaymentTypeOK
  <2> QED
    BY <1>0, <2>1 DEF PaymentRequested, PaymentAccepted, PaymentAborted, PaymentRolledBack,
                      PaymentFails, PaymentAnswers, savePayment
<1>3. /\ \A q \in Topics : KeepsRecords(q, t) /\ UnreadOf(q, t)' = UnreadOf(q, t)
      /\ Heard(t)' = Heard(t)
  <2>1. CASE UNCHANGED topic BY <1>0, <2>1, SameTopics DEF offsets, Topics
  <2>2. CASE PaymentAnswers(task)
    <3> PICK m : m = SagaAnswer(PaymentAnswer(task.pc), task.transactionID) OBVIOUS
    <3> PICK n : n = Len(topic[SagaReply]) + 1 OBVIOUS
    <3>1. m.transactionID # t /\ m.kind # "NEW_TRANSACTION_REQUEST"
      BY <2>2, <1>0 DEF PaymentAnswers, SagaAnswer, PaymentAnswer
    <3>2. Appends(SagaReply, m) BY <2>2, NothingFails DEF PaymentAnswers, Topics
    <3> QED BY <1>0, <3>1, <3>2, AnswerSent
  <2> QED
    BY <2>1, <2>2 DEF PaymentRequested, PaymentAccepted, PaymentAborted, PaymentRolledBack,
                      PaymentFails, topicVars
<1>4. \A p \in Places : At(p, t)' = At(p, t) BY <1>0, <1>1, <1>3, PlacesKept DEF Topics
<1> QED BY <1>0, <1>2, <1>3, <1>4 DEF Untouched

\* A task whose next step stores a row or charges the card.
LEMMA PaymentMovesOn ==
    ASSUME TypeOK, ConsumersUp, PaymentWork, NEW t \in Calls, GoesStepByStep(t),
           NEW task \in paymentTasks, task.transactionID = t,
           \/ PaymentRequested(task) \/ PaymentAccepted(task)
           \/ PaymentAborted(task) \/ PaymentRolledBack(task)
    PROVE  GoesStepByStep(t)'
<1>0. /\ paymentTasks \subseteq PaymentTask /\ charges \in [Calls -> Nat]
      /\ UNCHANGED <<orchestratorLogs, kitchenTasks, topic, offsets>>
  BY DEF TypeOK, PaymentTypeOK, PaymentWork, kitchenVars, PaymentRequested, PaymentAccepted,
         PaymentAborted, PaymentRolledBack, topicVars
<1>1. /\ \A q \in Topics : KeepsRecords(q, t) /\ UnreadOf(q, t)' = UnreadOf(q, t)
      /\ OrdersOf(t)' = OrdersOf(t) /\ Heard(t)' = Heard(t)
  BY <1>0, SameTopics DEF offsets, Topics
<1>2. task \in At("payment", t) /\ "payment" \in Places BY Whereabouts DEF Places
<1>3. Orders(t) # 0 BY <1>2 DEF GoesStepByStep, NothingOf, Nowhere
<1>4. ASSUME UnderWay(t) PROVE UnderWay(t)'
  <2>1. OnlyAt("payment", task, t) /\ StoryOfPayment(task, t) BY <1>2, <1>4, FoundThere
  <2>2. /\ At(PaymentRequests, t) = {} /\ At("payment", t) = {task} /\ At(SagaReply, t) = {}
        /\ At(KitchenRequests, t) = {} /\ At("kitchen", t) = {}
    BY <2>1 DEF OnlyAt, Places
  <2>3. /\ At(PaymentRequests, t)' = {} /\ At(SagaReply, t)' = {}
        /\ At(KitchenRequests, t)' = {} /\ At("kitchen", t)' = {}
    BY <1>0, <1>1, <2>2, Whereabouts DEF Topics
  <2>4. ASSUME NEW next, PaymentMoves(task, next),
               NEW moved, moved = [task EXCEPT !.pc = next]
        PROVE  /\ moved \in paymentTasks' /\ OnlyAt("payment", moved, t)'
               /\ moved.kind = task.kind /\ moved.pc = next
    <3>1. moved.transactionID = t /\ moved.kind = task.kind /\ moved.pc = next
      BY <1>0, <2>4 DEF PaymentTask
    <3>2. paymentTasks' = (paymentTasks \ {task}) \cup {moved} BY <2>4 DEF PaymentMoves
    <3>3. At("payment", t)' = {moved}
      <4>1. {v \in paymentTasks : v.transactionID = t} = {task} BY <2>2, Whereabouts
      <4>2. {v \in paymentTasks' : v.transactionID = t} = {moved} BY <3>1, <3>2, <4>1
      <4> QED BY <4>2, Whereabouts
    <3>4. OnlyAt("payment", moved, t)' BY <2>3, <3>3 DEF OnlyAt, Places
    <3> QED BY <3>1, <3>2, <3>4
  <2>5. CASE PaymentRequested(task)
    <3> PICK moved : moved = [task EXCEPT !.pc = "requested"] OBVIOUS
    <3>1. /\ moved \in paymentTasks' /\ OnlyAt("payment", moved, t)'
          /\ moved.kind = task.kind /\ moved.pc = "requested"
      BY <2>4, <2>5 DEF PaymentRequested
    <3> PICK row : row = [status |-> "payment_requested", order |-> task.order] OBVIOUS
    <3>2. /\ paymentEvents' = [paymentEvents EXCEPT ![t] = Append(@, row)]
          /\ row.status # "payment rejected" /\ UNCHANGED charges
      BY <2>5 DEF PaymentRequested, savePayment
    <3>3. Refunds(t)' = Refunds(t) BY <3>2, RowStored
    <3>4. Story(t, Placed, 0, 0)
      BY <2>1, <2>5 DEF StoryOfPayment, PaymentRequested
    <3>5. Story(t, Placed, 0, 0)' BY <1>1, <3>2, <3>3, <3>4 DEF Story
    <3>6. StoryOfPayment(moved, t)'
      BY <2>5, <3>1, <3>5 DEF StoryOfPayment, PaymentRequested
    <3> QED BY <3>1, <3>6 DEF UnderWay
  <2>6. CASE PaymentAccepted(task)
    <3> PICK moved : moved = [task EXCEPT !.pc = "accepted"] OBVIOUS
    <3>1. /\ moved \in paymentTasks' /\ OnlyAt("payment", moved, t)'
          /\ moved.kind = task.kind /\ moved.pc = "accepted"
      BY <2>4, <2>6 DEF PaymentAccepted
    <3>2. charges'[t] = charges[t] + 1 /\ UNCHANGED paymentEvents
      BY <1>0, <2>6 DEF PaymentAccepted
    <3>3. RefundsOf(t)' = RefundsOf(t) BY <3>2 DEF RefundsOf
    <3>4. Refunds(t)' = Refunds(t) BY <3>3, CountedSets
    <3>5. task.kind = "PAYMENT_REQUEST" /\ Story(t, Placed, 0, 0)
      BY <2>1, <2>6 DEF StoryOfPayment, PaymentAccepted
    <3>6. Story(t, Placed, 1, 0)' BY <1>1, <3>2, <3>4, <3>5 DEF Story
    <3>7. StoryOfPayment(moved, t)' BY <3>1, <3>5, <3>6 DEF StoryOfPayment
    <3> QED BY <3>1, <3>7 DEF UnderWay
  <2>7. CASE PaymentAborted(task)
    <3> PICK moved : moved = [task EXCEPT !.pc = "aborted"] OBVIOUS
    <3>1. /\ moved \in paymentTasks' /\ OnlyAt("payment", moved, t)'
          /\ moved.kind = task.kind /\ moved.pc = "aborted"
      BY <2>4, <2>7 DEF PaymentAborted
    <3> PICK row : row = [status |-> "payment_aborted", order |-> task.order] OBVIOUS
    <3>2. /\ paymentEvents' = [paymentEvents EXCEPT ![t] = Append(@, row)]
          /\ row.status # "payment rejected" /\ UNCHANGED charges
      BY <2>7 DEF PaymentAborted, savePayment
    <3>3. Refunds(t)' = Refunds(t) BY <3>2, RowStored
    <3>4. task.kind = "PAYMENT_REQUEST" /\ Story(t, Placed, 0, 0)
      BY <2>1, <2>7 DEF StoryOfPayment, PaymentAborted
    <3>5. Story(t, Placed, 0, 0)' BY <1>1, <3>2, <3>3, <3>4 DEF Story
    <3>6. StoryOfPayment(moved, t)' BY <3>1, <3>4, <3>5 DEF StoryOfPayment
    <3> QED BY <3>1, <3>6 DEF UnderWay
  <2>8. CASE PaymentRolledBack(task)
    <3> PICK moved : moved = [task EXCEPT !.pc = "rolledBack"] OBVIOUS
    <3>1. /\ moved \in paymentTasks' /\ OnlyAt("payment", moved, t)'
          /\ moved.kind = task.kind /\ moved.pc = "rolledBack"
      BY <2>4, <2>8 DEF PaymentRolledBack
    <3>2. PICK row : row = [status |-> "payment rejected", order |-> task.order] OBVIOUS
    <3>3. paymentEvents' = [paymentEvents EXCEPT ![t] = Append(@, row)] /\ UNCHANGED charges
      BY <2>8, <3>2 DEF PaymentRolledBack, savePayment
    <3>4. Refunds(t)' = Refunds(t) + 1
      <4>1. row.status = "payment rejected" BY <3>2
      <4> QED BY <3>3, <4>1, RowStored, Zenon
    <3>5. Story(t, Refused, 1, 1)'
      <4>1. Story(t, Refused, 1, 0)
        BY <2>1, <2>8 DEF StoryOfPayment, PaymentRolledBack
      <4> QED BY <1>1, <3>3, <3>4, <4>1 DEF Story
    <3>6. StoryOfPayment(moved, t)'
      BY <2>8, <3>1, <3>5 DEF StoryOfPayment, PaymentRolledBack
    <3> QED BY <3>1, <3>6 DEF UnderWay
  <2> QED BY <2>5, <2>6, <2>7, <2>8
<1> QED BY <1>0, <1>1, <1>2, <1>3, <1>4, GoesOn

\* A service answers: its task ends, and the answer is what is under way.
LEMMA AnswerUnderWay ==
    ASSUME TypeOK, ConsumersUp, NEW t \in Calls, NEW task,
           NEW place \in {"payment", "kitchen"}, OnlyAt(place, task, t),
           place = "payment" => paymentTasks' = paymentTasks \ {task} /\ UNCHANGED kitchenTasks,
           place = "kitchen" => kitchenTasks' = kitchenTasks \ {task} /\ UNCHANGED paymentTasks,
           NEW m, m.transactionID = t, m.kind # "NEW_TRANSACTION_REQUEST",
           Appends(SagaReply, m), UNCHANGED <<offsets, paymentEvents, charges>>,
           StoryOfRecord(m.kind, t)
    PROVE  UnderWay(t)'
<1> PICK n : n = Len(topic[SagaReply]) + 1 OBVIOUS
<1>1. /\ Heard(t)' = Heard(t)
      /\ topic'[SagaReply][n] = m /\ n \in RecordsOf(SagaReply, t)'
      /\ UnreadOf(SagaReply, t)' = UnreadOf(SagaReply, t) \cup {n}
      /\ UnreadOf(PaymentRequests, t)' = UnreadOf(PaymentRequests, t)
      /\ UnreadOf(KitchenRequests, t)' = UnreadOf(KitchenRequests, t)
  BY AnswerSent DEF Topics
<1>2. \A p \in Places : At(p, t) = IF p = place THEN {task} ELSE {} BY DEF OnlyAt
<1>3. At(PaymentRequests, t)' = {} /\ At(SagaReply, t)' = {n} /\ At(KitchenRequests, t)' = {}
  BY <1>1, <1>2, Whereabouts DEF Places
<1>4. At("payment", t)' = {} /\ At("kitchen", t)' = {} BY <1>2, Whereabouts DEF Places
<1>5. OnlyAt(SagaReply, n, t)' BY <1>3, <1>4 DEF OnlyAt, Places
<1>6. RefundsOf(t)' = RefundsOf(t) BY DEF RefundsOf
<1>7. \A h, k, l : Story(t, h, k, l)' <=> Story(t, h, k, l) BY <1>1, <1>6, CountedSets DEF Story
<1>8. (StoryOfRecord(topic[SagaReply][n].kind, t))' BY <1>1, <1>7 DEF StoryOfRecord
<1> QED BY <1>1, <1>5, <1>8 DEF UnderWay

LEMMA PaymentWorkSteps ==
    ASSUME faults' = 0, TypeOK, ConsumersUp, SagasGoStepByStep, PaymentWork
    PROVE  SagasGoStepByStep'
<1> SUFFICES ASSUME NEW t \in Calls PROVE GoesStepByStep(t)'
  BY DEF SagasGoStepByStep
<1>0. GoesStepByStep(t) BY DEF SagasGoStepByStep
<1>1. PICK task \in paymentTasks :
        \/ PaymentRequested(task) \/ PaymentAccepted(task) \/ PaymentAborted(task)
        \/ PaymentRolledBack(task) \/ PaymentFails(task) \/ PaymentAnswers(task)
  BY DEF PaymentWork, PaymentThread
<1>2. CASE task.transactionID # t
  <2>1. Untouched(t) /\ Heard(t)' = Heard(t) BY <1>1, <1>2, PaymentOthers
  <2> QED BY <1>0, <2>1, Kept
<1>3. CASE task.transactionID = t
  <2>1. CASE \/ PaymentRequested(task) \/ PaymentAccepted(task)
             \/ PaymentAborted(task) \/ PaymentRolledBack(task)
    BY <1>0, <1>3, <2>1, PaymentMovesOn
  <2>2. CASE PaymentFails(task)
    BY <1>3, <2>2, NothingFails, NullAssumption DEF PaymentFails
  <2>3. CASE PaymentAnswers(task)
    <3> PICK m : m = SagaAnswer(PaymentAnswer(task.pc), task.transactionID) OBVIOUS
    <3>1. m.transactionID = t /\ m.kind = PaymentAnswer(task.pc)
      BY <1>3 DEF SagaAnswer
    <3>2. /\ task.pc \in {"accepted", "aborted", "rolledBack"}
          /\ m.kind # "NEW_TRANSACTION_REQUEST"
      BY <2>3, <3>1 DEF PaymentAnswers, PaymentAnswer
    <3>3. /\ Appends(SagaReply, m) /\ paymentTasks' = paymentTasks \ {task}
          /\ UNCHANGED <<offsets, paymentEvents, charges, orchestratorLogs, kitchenTasks>>
      BY <2>3, NothingFails DEF PaymentAnswers, PaymentWork, kitchenVars, Topics
    <3>4. /\ OrdersOf(t)' = OrdersOf(t) /\ Heard(t)' = Heard(t)
          /\ \A q \in Topics \ {SagaReply} : KeepsRecords(q, t)
      BY <3>2, <3>3, AnswerSent
    <3>5. task \in At("payment", t) /\ "payment" \in Places BY <1>3, Whereabouts DEF Places
    <3>6. Orders(t) # 0 BY <1>0, <3>5 DEF GoesStepByStep, NothingOf, Nowhere
    <3>7. ASSUME UnderWay(t) PROVE UnderWay(t)'
      <4>1. OnlyAt("payment", task, t) /\ StoryOfPayment(task, t) BY <3>5, <3>7, FoundThere
      <4>2. StoryOfRecord(m.kind, t)
        BY <3>1, <3>2, <4>1 DEF StoryOfPayment, StoryOfRecord, PaymentAnswer
      <4> QED BY <3>1, <3>2, <3>3, <4>1, <4>2, AnswerUnderWay
    <3> QED BY <1>0, <3>3, <3>4, <3>5, <3>6, <3>7, GoesOn
  <2> QED BY <1>1, <2>1, <2>2, <2>3
<1> QED BY <1>2, <1>3

-----------------------------------------------------------------------------
(* The kitchen service.                                                     *)

\* A request that is taken becomes a task.
LEMMA KitchenPollSteps ==
    ASSUME TypeOK, ConsumersUp, SagasGoStepByStep, KitchenPoll
    PROVE  SagasGoStepByStep'
<1> SUFFICES ASSUME NEW t \in Calls PROVE GoesStepByStep(t)'
  BY DEF SagasGoStepByStep
<1> PICK m : m = NextRecord(KitchenRequests) OBVIOUS
<1> PICK n : n = position[KitchenRequests] + 1 OBVIOUS
<1> PICK u : u = m.transactionID OBVIOUS
<1> PICK task : task = [offset |-> position[KitchenRequests], order |-> m.order,
                        transactionID |-> u, pc |-> "submitted"]
  OBVIOUS
<1>0. /\ GoesStepByStep(t) /\ TopicTypeOK /\ KitchenRequests \in Topics
      /\ Consume(KitchenRequests) /\ kitchenTasks' = kitchenTasks \cup {task}
      /\ UNCHANGED <<topic, paymentEvents, charges, orchestratorLogs, paymentTasks>>
      /\ task.transactionID = u
  BY DEF SagasGoStepByStep, TypeOK, Topics, KitchenPoll, KitchenSubscriber, paymentVars
<1>1. /\ topic[KitchenRequests][n] = m /\ n \in RecordsOf(KitchenRequests, u)
      /\ n \in UnreadOf(KitchenRequests, u)
      /\ t # u => UnreadOf(KitchenRequests, t)' = UnreadOf(KitchenRequests, t)
      /\ UnreadOf(KitchenRequests, t)' = UnreadOf(KitchenRequests, t) \ {n}
      /\ \A p \in Topics \ {KitchenRequests} : position'[p] = position[p]
  BY <1>0, TakenRead
<1>2. /\ \A q \in Topics : KeepsRecords(q, t)
      /\ OrdersOf(t)' = OrdersOf(t) /\ Heard(t)' = Heard(t)
      /\ UnreadOf(SagaReply, t)' = UnreadOf(SagaReply, t)
      /\ UnreadOf(PaymentRequests, t)' = UnreadOf(PaymentRequests, t)
  BY <1>0, <1>1, SameTopics DEF Topics
<1>3. CASE t # u
  <2>1. {v \in kitchenTasks' : v.transactionID = t} = {v \in kitchenTasks : v.transactionID = t}
    BY <1>0, <1>3
  <2>2. \A p \in Places : At(p, t)' = At(p, t) BY <1>0, <1>1, <1>2, <1>3, <2>1, PlacesKept
  <2>3. Untouched(t) BY <1>0, <1>2, <2>2 DEF Untouched
  <2> QED BY <1>0, <1>2, <2>3, Kept
<1>4. CASE t = u
  <2>1. n \in At(KitchenRequests, t) /\ KitchenRequests \in Places
    BY <1>1, <1>4, Whereabouts DEF Places
  <2>2. Orders(t) # 0 BY <1>0, <1>1, <1>4 DEF GoesStepByStep, NothingOf
  <2>3. ASSUME UnderWay(t) PROVE UnderWay(t)'
    <3>1. OnlyAt(KitchenRequests, n, t) /\ StoryOfRecord(m.kind, t)
      BY <1>1, <2>1, <2>3, FoundThere
    <3>2. /\ At(PaymentRequests, t) = {} /\ At("payment", t) = {} /\ At(SagaReply, t) = {}
          /\ At(KitchenRequests, t) = {n} /\ At("kitchen", t) = {}
      BY <3>1 DEF OnlyAt, Places
    <3>3. At("kitchen", t)' = {task} BY <1>0, <1>4, <3>2, Whereabouts
    <3>4. /\ At(PaymentRequests, t)' = {} /\ At(SagaReply, t)' = {}
          /\ At(KitchenRequests, t)' = {} /\ At("payment", t)' = {}
      BY <1>0, <1>1, <1>2, <3>2, Whereabouts
    <3>5. OnlyAt("kitchen", task, t)' BY <3>3, <3>4 DEF OnlyAt, Places
    <3>6. m.kind = "KITCHEN_REQUEST"
      <4>1. m \in MessagesOn(KitchenRequests) BY <1>0, NextRecordSent DEF Consume
      <4>2. m \in Requests({"KITCHEN_REQUEST"}) BY <4>1 DEF MessagesOn
      <4> QED BY <4>2 DEF Requests
    <3>7. Story(t, Paid, 1, 0) BY <3>1, <3>6 DEF StoryOfRecord
    <3>8. Story(t, Paid, 1, 0)'
      <4>1. RefundsOf(t)' = RefundsOf(t) BY <1>0 DEF RefundsOf
      <4> QED BY <1>0, <1>2, <3>7, <4>1, CountedSets DEF Story
    <3> QED BY <1>0, <3>5, <3>8 DEF UnderWay
  <2> QED BY <1>0, <1>2, <2>1, <2>2, <2>3, GoesOn
<1> QED BY <1>3, <1>4

LEMMA KitchenWorkSteps ==
    ASSUME faults' = 0, TypeOK, ConsumersUp, SagasGoStepByStep, KitchenWork
    PROVE  SagasGoStepByStep'
<1> SUFFICES ASSUME NEW t \in Calls PROVE GoesStepByStep(t)'
  BY DEF SagasGoStepByStep
<1>1. PICK task \in kitchenTasks : KitchenSaves(task) \/ KitchenFails(task) \/ KitchenAnswers(task)
  BY DEF KitchenWork, KitchenThread
<1> PICK u : u = task.transactionID OBVIOUS
<1>0. /\ GoesStepByStep(t) /\ TopicTypeOK /\ kitchenTasks \subseteq KitchenTask
      /\ UNCHANGED <<orchestratorLogs, offsets, paymentTasks, paymentEvents, charges>>
  BY <1>1 DEF SagasGoStepByStep, TypeOK, KitchenTypeOK, KitchenWork, paymentVars, KitchenSaves,
              KitchenFails, KitchenAnswers, topicVars
<1>2. CASE KitchenAnswers(task)
  <2>1. PICK state \in {"KITCHEN_ACCEPTED", "KITCHEN_REFUSED"} :
          Send(SagaReply, SagaAnswer(state, task.transactionID))
    BY <1>2 DEF KitchenAnswers
  <2> PICK m : m = SagaAnswer(state, task.transactionID) OBVIOUS
  <2>2. /\ m.transactionID = u /\ m.kind \in {"KITCHEN_ACCEPTED", "KITCHEN_REFUSED"}
        /\ m.kind # "NEW_TRANSACTION_REQUEST"
    BY DEF SagaAnswer
  <2>3. Appends(SagaReply, m) /\ kitchenTasks' = kitchenTasks \ {task}
    BY <1>2, <2>1, NothingFails DEF KitchenAnswers, Topics
  <2> PICK n : n = Len(topic[SagaReply]) + 1 OBVIOUS
  <2>4. /\ OrdersOf(t)' = OrdersOf(t) /\ Heard(t)' = Heard(t)
        /\ \A q \in Topics \ {SagaReply} :
              KeepsRecords(q, t) /\ UnreadOf(q, t)' = UnreadOf(q, t)
        /\ u # t => KeepsRecords(SagaReply, t) /\ UnreadOf(SagaReply, t)' = UnreadOf(SagaReply, t)
    BY <1>0, <2>2, <2>3, AnswerSent
  <2>5. CASE u # t
    <3>1. {v \in kitchenTasks' : v.transactionID = t} = {v \in kitchenTasks : v.transactionID = t}
      BY <2>3, <2>5
    <3>2. \A p \in Places : At(p, t)' = At(p, t) BY <1>0, <2>4, <2>5, <3>1, PlacesKept DEF Topics
    <3>3. Untouched(t) BY <1>0, <2>4, <2>5, <3>2 DEF Untouched
    <3> QED BY <1>0, <2>4, <3>3, Kept
  <2>6. CASE u = t
    <3>1. task \in At("kitchen", t) /\ "kitchen" \in Places BY <2>6, Whereabouts DEF Places
    <3>2. Orders(t) # 0 BY <1>0, <3>1 DEF GoesStepByStep, NothingOf, Nowhere
    <3>3. ASSUME UnderWay(t) PROVE UnderWay(t)'
      <4>1. OnlyAt("kitchen", task, t) /\ Story(t, Paid, 1, 0) BY <3>1, <3>3, FoundThere
      <4>2. StoryOfRecord(m.kind, t) BY <2>2, <4>1 DEF StoryOfRecord
      <4> QED BY <1>0, <2>2, <2>3, <2>6, <4>1, <4>2, AnswerUnderWay
    <3> QED BY <1>0, <2>4, <3>1, <3>2, <3>3, GoesOn
  <2> QED BY <2>5, <2>6
<1>3. CASE KitchenSaves(task) \/ KitchenFails(task)
  <2>1. UNCHANGED topic BY <1>3 DEF KitchenSaves, KitchenFails, topicVars
  <2>2. /\ \A q \in Topics : KeepsRecords(q, t) /\ UnreadOf(q, t)' = UnreadOf(q, t)
        /\ OrdersOf(t)' = OrdersOf(t) /\ Heard(t)' = Heard(t)
    BY <1>0, <2>1, SameTopics DEF offsets, Topics
  <2> PICK moved : moved = [task EXCEPT !.pc = "saved"] OBVIOUS
  <2>3. moved.transactionID = u BY <1>0 DEF KitchenTask
  <2>4. \/ kitchenTasks' = kitchenTasks \ {task} /\ u = Null
        \/ kitchenTasks' = (kitchenTasks \ {task}) \cup {moved}
    BY <1>3, NothingFails DEF KitchenSaves, KitchenFails
  <2>5. CASE u # t
    <3>1. {v \in kitchenTasks' : v.transactionID = t} = {v \in kitchenTasks : v.transactionID = t}
      BY <2>3, <2>4, <2>5
    <3>2. \A p \in Places : At(p, t)' = At(p, t) BY <1>0, <2>2, <3>1, PlacesKept DEF Topics
    <3>3. Untouched(t) BY <1>0, <2>2, <3>2 DEF Untouched
    <3> QED BY <1>0, <2>2, <3>3, Kept
  <2>6. CASE u = t
    <3>1. task \in At("kitchen", t) /\ "kitchen" \in Places BY <2>6, Whereabouts DEF Places
    <3>2. Orders(t) # 0 BY <1>0, <3>1 DEF GoesStepByStep, NothingOf, Nowhere
    <3>3. ASSUME UnderWay(t) PROVE UnderWay(t)'
      <4>1. OnlyAt("kitchen", task, t) /\ Story(t, Paid, 1, 0) BY <3>1, <3>3, FoundThere
      <4>2. /\ At(PaymentRequests, t) = {} /\ At("payment", t) = {} /\ At(SagaReply, t) = {}
            /\ At(KitchenRequests, t) = {} /\ At("kitchen", t) = {task}
        BY <4>1 DEF OnlyAt, Places
      <4>3. kitchenTasks' = (kitchenTasks \ {task}) \cup {moved} BY <2>4, <2>6, NullAssumption
      <4>4. At("kitchen", t)' = {moved}
        <5>1. {v \in kitchenTasks : v.transactionID = t} = {task} BY <4>2, Whereabouts
        <5>2. {v \in kitchenTasks' : v.transactionID = t} = {moved} BY <2>3, <2>6, <4>3, <5>1
        <5> QED BY <5>2, Whereabouts
      <4>5. /\ At(PaymentRequests, t)' = {} /\ At("payment", t)' = {} /\ At(SagaReply, t)' = {}
            /\ At(KitchenRequests, t)' = {}
        BY <1>0, <2>2, <4>2, Whereabouts DEF Topics
      <4>6. OnlyAt("kitchen", moved, t)' BY <4>4, <4>5 DEF OnlyAt, Places
      <4>7. Story(t, Paid, 1, 0)'
        <5>1. RefundsOf(t)' = RefundsOf(t) BY <1>0 DEF RefundsOf
        <5> QED BY <1>0, <2>2, <4>1, <5>1, CountedSets DEF Story
      <4> QED BY <4>3, <4>6, <4>7 DEF UnderWay
    <3> QED BY <1>0, <2>2, <3>1, <3>2, <3>3, GoesOn
  <2> QED BY <2>5, <2>6
<1> QED BY <1>1, <1>2, <1>3

-----------------------------------------------------------------------------
(* The invariant holds initially and is kept by every step.                 *)

StepByStepInv == TypeInv /\ (faults = 0 => ConsumersUp /\ SagasGoStepByStep)

LEMMA FaultsAddUp ==
    ASSUME TypeOK, [Next]_vars, faults' = 0
    PROVE  faults = 0
<1>1. CASE \E c \in Calls : NewCall(c)
  BY <1>1 DEF NewCall, CreateOrder, topicVars
<1>2. CASE \E c \in Calls : CallStep(c)
  BY <1>2, NothingFails DEF CallStep, InitiateCheckout, StorePending, SetTransactionID,
       PublishOrder, PollResponse, StoreApproved, PutRow, StoreRejected, CallFails, topicVars,
       Topics
<1>3. CASE CheckoutConsumer \/ PaymentPoll \/ KitchenPoll
  BY <1>3 DEF CheckoutConsumer, ConsumeMessages, PaymentPoll, PaymentSubscriber, KitchenPoll,
              KitchenSubscriber
<1>4. CASE Orchestrator
  BY <1>4, NothingFails DEF Orchestrator, OrchestratorRun, elaborateMessage, startTransaction,
       sendKitchenApprovalRequest, sendCompensationRequest, ignoreUnknownTransaction,
       sendFinalizeTransactionRequest, Topics
<1>5. CASE PaymentWork
  BY <1>5, NothingFails DEF PaymentWork, PaymentThread, PaymentRequested, PaymentAccepted,
       PaymentAborted, PaymentRolledBack, PaymentFails, PaymentAnswers, topicVars, Topics
<1>6. CASE KitchenWork
  BY <1>6, NothingFails DEF KitchenWork, KitchenThread, KitchenSaves, KitchenFails,
       KitchenAnswers, topicVars, Topics
<1>7. CASE \E q \in Topics : Subscribe(q) BY <1>7 DEF Subscribe, Join
<1>8. ~Environment
  BY NothingFails DEF Environment, CheckoutCrash, PaymentCrash, KitchenCrash, ConsumersDown,
                      ProducerRetry
<1>9. CASE UNCHANGED vars BY <1>9 DEF vars, topicVars
<1> QED BY <1>1, <1>2, <1>3, <1>4, <1>5, <1>6, <1>7, <1>8, <1>9 DEF Next

\* When nothing fails a step sends at most one record and takes at most one.
LEMMA TopicStep ==
    ASSUME faults' = 0, TypeOK, ConsumersUp, [Next]_vars
    PROVE  /\ UNCHANGED topic \/ \E q \in Topics : \E m : Appends(q, m)
           /\ UNCHANGED position \/ \E q \in Topics : Consume(q)
<1>1. ASSUME NEW c \in Calls, NewCall(c) \/ CallStep(c)
      PROVE  UNCHANGED offsets /\ (UNCHANGED topic \/ \E q \in Topics : \E m : Appends(q, m))
  <2>1. CASE PublishOrder(c)
    BY <2>1, NothingFails DEF PublishOrder, Topics
  <2>2. CASE ~PublishOrder(c)
    BY <1>1, <2>2 DEF NewCall, CreateOrder, CallStep, InitiateCheckout, StorePending, PutRow,
         SetTransactionID, PollResponse, StoreApproved, StoreRejected, CallFails, topicVars
  <2> QED BY <2>1, <2>2
<1>2. ASSUME Orchestrator
      PROVE  Consume(SagaReply) /\ (UNCHANGED topic \/ \E q \in Topics : \E m : Appends(q, m))
  <2>1. OrchestratorRun BY <1>2 DEF Orchestrator
  <2> QED BY <2>1, OrchestratorDoes DEF Topics
<1>3. ASSUME PaymentWork
      PROVE  UNCHANGED offsets /\ (UNCHANGED topic \/ \E q \in Topics : \E m : Appends(q, m))
  <2>1. PICK task \in paymentTasks :
          \/ PaymentRequested(task) \/ PaymentAccepted(task) \/ PaymentAborted(task)
          \/ PaymentRolledBack(task) \/ PaymentFails(task) \/ PaymentAnswers(task)
    BY <1>3 DEF PaymentWork, PaymentThread
  <2>2. CASE PaymentAnswers(task) BY <2>2, NothingFails DEF PaymentAnswers, Topics
  <2> QED
    BY <2>1, <2>2 DEF PaymentRequested, PaymentAccepted, PaymentAborted, PaymentRolledBack,
                      PaymentFails, topicVars
<1>4. ASSUME KitchenWork
      PROVE  UNCHANGED offsets /\ (UNCHANGED topic \/ \E q \in Topics : \E m : Appends(q, m))
  <2>1. PICK task \in kitchenTasks :
          KitchenSaves(task) \/ KitchenFails(task) \/ KitchenAnswers(task)
    BY <1>4 DEF KitchenWork, KitchenThread
  <2>2. CASE KitchenAnswers(task) BY <2>2, NothingFails DEF KitchenAnswers, Topics
  <2> QED BY <2>1, <2>2 DEF KitchenSaves, KitchenFails, topicVars
<1>5. CASE CheckoutConsumer \/ PaymentPoll \/ KitchenPoll
  BY <1>5 DEF CheckoutConsumer, ConsumeMessages, PaymentPoll, PaymentSubscriber, KitchenPoll,
              KitchenSubscriber, Topics
<1>6. \A q \in Topics : ~Subscribe(q)
  <2>1. \A q \in Topics : position[q] # NoOffset
    BY TopicLength DEF TypeOK, ConsumersUp, NoOffset
  <2> QED BY <2>1 DEF Subscribe, Join
<1>7. ~Environment
  BY NothingFails DEF Environment, CheckoutCrash, PaymentCrash, KitchenCrash, ConsumersDown,
                      ProducerRetry
<1>8. CASE UNCHANGED vars BY <1>8 DEF vars, topicVars, offsets
<1>9. ASSUME UNCHANGED offsets /\ (UNCHANGED topic \/ \E q \in Topics : \E m : Appends(q, m))
      PROVE  /\ UNCHANGED topic \/ \E q \in Topics : \E m : Appends(q, m)
             /\ UNCHANGED position \/ \E q \in Topics : Consume(q)
  BY <1>9 DEF offsets
<1>10. CASE \E c \in Calls : NewCall(c) \/ CallStep(c) BY <1>1, <1>9, <1>10
<1>11. CASE Orchestrator BY <1>2, <1>11 DEF Topics
<1>12. CASE PaymentWork \/ KitchenWork BY <1>3, <1>4, <1>9, <1>12
<1> QED BY <1>5, <1>6, <1>7, <1>8, <1>10, <1>11, <1>12 DEF Next

LEMMA ConsumersStayUp ==
    ASSUME faults' = 0, TypeOK, ConsumersUp, [Next]_vars
    PROVE  ConsumersUp'
<1> SUFFICES ASSUME NEW q \in Topics PROVE position'[q] \in 0 .. Len(topic'[q])
  BY DEF ConsumersUp
<1>1. Len(topic[q]) \in Nat /\ topic[q] \in Seq(MessagesOn(q)) /\ position[q] \in 0 .. Len(topic[q])
  BY TopicLength DEF TypeOK, TopicTypeOK, ConsumersUp
<1>2. Len(topic'[q]) \in {Len(topic[q]), Len(topic[q]) + 1}
  <2>1. CASE UNCHANGED topic BY <2>1
  <2>2. ASSUME NEW p \in Topics, NEW m, Appends(p, m)
        PROVE  Len(topic'[q]) \in {Len(topic[q]), Len(topic[q]) + 1}
    <3>1. topic'[q] = IF q = p THEN Append(topic[q], m) ELSE topic[q]
      BY <2>2 DEF Appends, TypeOK, TopicTypeOK
    <3>2. Len(Append(topic[q], m)) = Len(topic[q]) + 1 BY <1>1
    <3> QED BY <3>1, <3>2
  <2> QED BY <2>1, <2>2, TopicStep
<1>3. \/ position'[q] = position[q]
      \/ position'[q] = position[q] + 1 /\ position[q] < Len(topic[q])
  <2>1. ASSUME NEW p \in Topics, Consume(p)
        PROVE  \/ position'[q] = position[q]
               \/ position'[q] = position[q] + 1 /\ position[q] < Len(topic[q])
    BY <1>1, <2>1 DEF Consume, HasRecord, TypeOK, TopicTypeOK
  <2> QED BY <2>1, TopicStep
<1> QED BY <1>1, <1>2, <1>3

LEMMA StepByStepInit == Init => StepByStepInv
<1> SUFFICES ASSUME Init PROVE StepByStepInv OBVIOUS
<1>1. TypeInv BY TypeInit
<1>2. \A q \in Topics : topic[q] = <<>> /\ position[q] = 0 BY DEF Init, TopicInit
<1>3. ConsumersUp BY <1>2 DEF ConsumersUp
<1>4. ASSUME NEW t \in Calls PROVE GoesStepByStep(t)
  <2>1. \A q \in Topics : RecordsOf(q, t) = {}
    BY <1>2 DEF RecordsOf
  <2>2. OrdersOf(t) = {} BY <2>1 DEF OrdersOf, Topics
  <2>3. RefundsOf(t) = {} BY DEF RefundsOf, Init, PaymentInit
  <2>4. Orders(t) = 0 /\ Refunds(t) = 0 BY <2>2, <2>3, CountedSets, FS_EmptySet
  <2>5. \A q \in {SagaReply, PaymentRequests, KitchenRequests} : UnreadOf(q, t) = {}
    BY <2>1 DEF UnreadOf, Topics
  <2>6. Nowhere(t)
    <3>1. At("payment", t) = {} /\ At("kitchen", t) = {}
      BY Whereabouts DEF Init, PaymentInit, KitchenInit
    <3> QED BY <2>5, <3>1, Whereabouts DEF Nowhere, Places
  <2>7. NothingOf(t)
    BY <2>1, <2>4, <2>6 DEF NothingOf, Init, PaymentInit, OrchestratorInit, initializeLog
  <2> QED BY <2>4, <2>7 DEF GoesStepByStep
<1> QED BY <1>1, <1>3, <1>4 DEF StepByStepInv, SagasGoStepByStep

LEMMA StepByStepStep ==
    ASSUME StepByStepInv, [Next]_vars
    PROVE  StepByStepInv'
<1>1. TypeInv' BY TypeStep DEF StepByStepInv
<1> SUFFICES ASSUME faults' = 0 PROVE ConsumersUp' /\ SagasGoStepByStep'
  BY <1>1 DEF StepByStepInv
<1>0. TypeInv /\ TypeOK /\ ConsumersUp /\ SagasGoStepByStep
  BY FaultsAddUp DEF StepByStepInv, TypeInv
<1>2. ConsumersUp' BY <1>0, ConsumersStayUp
<1>3. ASSUME UNCHANGED <<topic, paymentVars, kitchenVars, orchestratorLogs>>,
             \A q \in Topics \ {CheckoutReply} : position'[q] = position[q]
      PROVE  SagasGoStepByStep'
  <2> SUFFICES ASSUME NEW t \in Calls PROVE GoesStepByStep(t)' BY DEF SagasGoStepByStep
  <2>1. Untouched(t) /\ Heard(t)' = Heard(t) BY <1>3, QuietUntouched
  <2> QED BY <1>0, <2>1, Kept DEF SagasGoStepByStep
<1>4. SagasGoStepByStep'
  <2>1. ASSUME NEW c \in Calls, NewCall(c) \/ CallStep(c) PROVE SagasGoStepByStep'
    BY <1>0, <2>1, CallSteps
  <2>2. CASE CheckoutConsumer
    <3>1. \A q \in Topics \ {CheckoutReply} : position'[q] = position[q]
      BY <1>0, <2>2 DEF CheckoutConsumer, ConsumeMessages, Consume, TypeOK, TopicTypeOK
    <3> QED BY <1>3, <2>2, <3>1 DEF CheckoutConsumer, ConsumeMessages
  <2>3. CASE Orchestrator BY <1>0, <2>3, OrchestratorSteps
  <2>4. CASE PaymentPoll BY <1>0, <2>4, PaymentPollSteps
  <2>5. CASE PaymentWork BY <1>0, <2>5, PaymentWorkSteps
  <2>6. CASE KitchenPoll BY <1>0, <2>6, KitchenPollSteps
  <2>7. CASE KitchenWork BY <1>0, <2>7, KitchenWorkSteps
  <2>8. \A q \in Topics : ~Subscribe(q)
    <3>1. \A q \in Topics : position[q] # NoOffset
      BY <1>0, TopicLength DEF TypeOK, ConsumersUp, NoOffset
    <3> QED BY <3>1 DEF Subscribe, Join
  <2>9. ~Environment
    BY <1>0, NothingFails DEF Environment, CheckoutCrash, PaymentCrash, KitchenCrash,
                              ConsumersDown, ProducerRetry
  <2>10. CASE UNCHANGED vars BY <1>3, <2>10 DEF vars, topicVars, offsets
  <2> QED BY <2>1, <2>2, <2>3, <2>4, <2>5, <2>6, <2>7, <2>8, <2>9, <2>10 DEF Next
<1> QED BY <1>2, <1>4

\* Until something fails, the sagas go step by step.
THEOREM StepByStepAlways == Spec => []StepByStepInv
<1>1. StepByStepInv /\ [Next]_vars => StepByStepInv' BY StepByStepStep
<1> QED BY <1>1, StepByStepInit, PTL DEF Spec

-----------------------------------------------------------------------------
(* What the invariant says of the properties.                               *)

LEMMA InvOneStep == StepByStepInv /\ faults = 0 => OneStepAtATime
<1> SUFFICES ASSUME StepByStepInv, faults = 0, NEW t \in Calls, Orders(t) = 1
             PROVE  InFlight(t) = IF Outcomes(t) = 0 THEN 1 ELSE 0
  BY DEF OneStepAtATime
<1>1. GoesStepByStep(t) BY DEF StepByStepInv, SagasGoStepByStep
<1> DEFINE Size(p) == Cardinality(At(p, t))
<1>2. InFlight(t) = Size(SagaReply) + Size(PaymentRequests) + Size(KitchenRequests)
                      + Size("payment") + Size("kitchen")
  <2>1. \A q \in {SagaReply, PaymentRequests, KitchenRequests} : Unread(q, t) = Size(q)
    <3> SUFFICES ASSUME NEW q \in {SagaReply, PaymentRequests, KitchenRequests}
                 PROVE  Unread(q, t) = Size(q)
      OBVIOUS
    <3>1. UnreadOf(q, t) = {i \in DOMAIN topic[q] :
                              i > position[q] /\ topic[q][i].transactionID = t}
      BY DEF UnreadOf, RecordsOf
    <3>2. At(q, t) = UnreadOf(q, t) BY Whereabouts
    <3> QED BY <3>1, <3>2 DEF Unread
  <2> QED BY <2>1, Whereabouts DEF InFlight
<1>3. CASE Open(t)
  <2>1. Outcomes(t) = 0 /\ UnderWay(t) BY <1>3 DEF Open
  <2>2. PICK place \in Places : \E x : OnlyAt(place, x, t) BY <2>1 DEF UnderWay, Places
  <2>3. PICK x : OnlyAt(place, x, t) BY <2>2
  <2>4. \A p \in Places : Size(p) = IF p = place THEN 1 ELSE 0
    <3> SUFFICES ASSUME NEW p \in Places PROVE Size(p) = IF p = place THEN 1 ELSE 0 OBVIOUS
    <3>1. At(p, t) = IF p = place THEN {x} ELSE {} BY <2>3 DEF OnlyAt
    <3>2. CASE p = place
      <4>1. Cardinality({x}) = 1 BY FS_Singleton
      <4> QED BY <3>1, <3>2, <4>1
    <3>3. CASE p # place BY <3>1, <3>3, FS_EmptySet
    <3> QED BY <3>2, <3>3
  <2> HIDE DEF Size
  <2> QED BY <1>2, <2>1, <2>4 DEF Places
<1>4. CASE Closed(t)
  <2>1. Outcomes(t) = 1 /\ Nowhere(t) BY <1>4 DEF Closed
  <2>2. \A p \in Places : Size(p) = 0 BY <2>1, FS_EmptySet DEF Nowhere
  <2> HIDE DEF Size
  <2> QED BY <1>2, <2>1, <2>2 DEF Places
<1> QED BY <1>1, <1>3, <1>4 DEF GoesStepByStep

\* The orchestrator has read an answer of kind k exactly when it has taken that answer.
LEMMA HeardIsTaken ==
    ASSUME TypeOK, ConsumersUp, NEW t, NEW k \in AnswerStates
    PROVE  k \in Heard(t) <=> Taken(SagaReply, SagaAnswer(k, t))
<1>1. /\ Len(topic[SagaReply]) \in Nat /\ DOMAIN topic[SagaReply] = 1 .. Len(topic[SagaReply])
      /\ topic[SagaReply] \in Seq(MessagesOn(SagaReply))
      /\ position[SagaReply] \in 0 .. Len(topic[SagaReply])
  BY TopicLength DEF TypeOK, TopicTypeOK, ConsumersUp, Topics
<1>2. \A i : i \in 1 .. position[SagaReply]
               <=> i \in DOMAIN topic[SagaReply] /\ i <= position[SagaReply]
  BY <1>1
<1>3. \A i \in DOMAIN topic[SagaReply] :
         topic[SagaReply][i].kind = k /\ topic[SagaReply][i].transactionID = t
           <=> topic[SagaReply][i] = SagaAnswer(k, t)
  <2> SUFFICES ASSUME NEW i \in DOMAIN topic[SagaReply]
               PROVE  topic[SagaReply][i].kind = k /\ topic[SagaReply][i].transactionID = t
                        <=> topic[SagaReply][i] = SagaAnswer(k, t)
    OBVIOUS
  <2> PICK m : m = topic[SagaReply][i] OBVIOUS
  <2>1. m \in MessagesOn(SagaReply) BY <1>1
  <2>2. m \in Requests({"NEW_TRANSACTION_REQUEST"}) \cup Answers(AnswerStates)
    BY <2>1 DEF MessagesOn
  <2>3. m.kind = k /\ m.transactionID = t <=> m = SagaAnswer(k, t)
    BY <2>2 DEF SagaAnswer, Requests, Answers, AnswerStates
  <2> QED BY <2>3
<1>4. k \in Heard(t) <=> \E i \in RecordsOf(SagaReply, t) :
                           i <= position[SagaReply] /\ topic[SagaReply][i].kind = k
  BY HeardKinds
<1> QED BY <1>2, <1>3, <1>4 DEF Taken, RecordsOf

LEMMA InvLog == StepByStepInv /\ faults = 0 => LogMatchesTopics
<1> SUFFICES ASSUME StepByStepInv, faults = 0, NEW t \in Calls,
                    t \in DOMAIN orchestratorLogs, Orders(t) = 1,
                    NEW keys, keys = orchestratorLogs[t].keys,
                    NEW o, o = orchestratorLogs[t].order
             PROVE  /\ "START_KITCHEN_APPROVAL" \in keys
                         <=> Sent(KitchenRequests, KitchenRequest(o, t))
                    /\ "START_COMPENSATE_REQUEST" \in keys
                         <=> Sent(PaymentRequests, CompensatePaymentRequest(o, t))
                    /\ "END_PAYMENT " \in keys
                         <=> Taken(SagaReply, SagaAnswer("PAYMENT_ACCEPTED", t))
                    /\ "END_KITCHEN_APPROVAL" \in keys
                         <=> Taken(SagaReply, SagaAnswer("KITCHEN_REFUSED", t))
  BY DEF LogMatchesTopics
<1>1. RequestsFollow(t) /\ LogTells(t)
  BY DEF StepByStepInv, SagasGoStepByStep, GoesStepByStep
<1>2. /\ "START_KITCHEN_APPROVAL" \in keys <=> "PAYMENT_ACCEPTED" \in Heard(t)
      /\ "END_PAYMENT " \in keys <=> "PAYMENT_ACCEPTED" \in Heard(t)
      /\ "START_COMPENSATE_REQUEST" \in keys <=> "KITCHEN_REFUSED" \in Heard(t)
      /\ "END_KITCHEN_APPROVAL" \in keys <=> "KITCHEN_REFUSED" \in Heard(t)
  BY <1>1, Zenon DEF LogTells
<1>3. "PAYMENT_ACCEPTED" \in Heard(t) <=> Sent(KitchenRequests, KitchenRequest(o, t))
  <2>1. "PAYMENT_ACCEPTED" \in Heard(t) => Sent(KitchenRequests, KitchenRequest(o, t))
    BY <1>1, Zenon DEF LogTells
  <2>2. Sent(KitchenRequests, KitchenRequest(o, t)) => RecordsOf(KitchenRequests, t) # {}
    BY DEF Sent, KitchenRequest, RecordsOf
  <2> QED BY <1>1, <2>1, <2>2 DEF RequestsFollow
<1>4. "KITCHEN_REFUSED" \in Heard(t) <=> Sent(PaymentRequests, CompensatePaymentRequest(o, t))
  <2>1. "KITCHEN_REFUSED" \in Heard(t) => Sent(PaymentRequests, CompensatePaymentRequest(o, t))
    BY <1>1, Zenon DEF LogTells
  <2>2. Sent(PaymentRequests, CompensatePaymentRequest(o, t)) =>
          \E i \in RecordsOf(PaymentRequests, t) :
             topic[PaymentRequests][i].kind = "COMPENSATE_REQUEST"
    BY DEF Sent, CompensatePaymentRequest, RecordsOf
  <2> QED BY <1>1, <2>1, <2>2 DEF RequestsFollow
<1>5. \A k \in {"PAYMENT_ACCEPTED", "KITCHEN_REFUSED"} :
        k \in Heard(t) <=> Taken(SagaReply, SagaAnswer(k, t))
  BY HeardIsTaken DEF StepByStepInv, TypeInv, AnswerStates
<1>6. /\ "PAYMENT_ACCEPTED" \in Heard(t) <=> Taken(SagaReply, SagaAnswer("PAYMENT_ACCEPTED", t))
      /\ "KITCHEN_REFUSED" \in Heard(t) <=> Taken(SagaReply, SagaAnswer("KITCHEN_REFUSED", t))
  BY <1>5
<1> QED BY <1>2, <1>3, <1>4, <1>6, Zenon

LEMMA InvMoney == StepByStepInv /\ faults = 0 => MoneyMatchesOutcome
<1> SUFFICES ASSUME StepByStepInv, faults = 0, NEW t \in Calls, Orders(t) = 1 PROVE MoneyIsRight(t)
  BY DEF MoneyMatchesOutcome, MoneyIsRight
<1>1. TypeOK /\ (Open(t) \/ Closed(t))
  BY DEF StepByStepInv, SagasGoStepByStep, GoesStepByStep, TypeInv
<1>2. CASE Open(t)
  <2>1. RecordsOf(CheckoutReply, t) = {}
    BY <1>1, <1>2, CountedSets, CountedSetsFinite, FS_EmptySet DEF Open, Topics
  <2>2. \A s : ~Finalized(s, t)
    BY <2>1 DEF Finalized, Sent, FinalizeOrderMessage, RecordsOf
  <2> QED BY <2>2 DEF MoneyIsRight
<1> QED BY <1>1, <1>2 DEF Closed

\* As long as nothing has failed, and however many calls overlap: from its publication to
\* its decision exactly one request, task or answer of a transaction published once is
\* under way, and none after.
THEOREM OneStepAlways == Spec => [](faults = 0 => OneStepAtATime)
BY StepByStepAlways, InvOneStep, PTL

\* As long as nothing has failed, the log of such a transaction says what happened: a
\* request is logged as started exactly when it was sent, and as ended exactly when its
\* answer was taken.
THEOREM LogAlwaysMatches == Spec => [](faults = 0 => LogMatchesTopics)
BY StepByStepAlways, InvLog, PTL

\* As long as nothing has failed, its decision leaves the customer's money right: kept once
\* for an approved order, given back as often as taken for a rejected one.
THEOREM MoneyAlwaysMatches == Spec => [](faults = 0 => MoneyMatchesOutcome)
BY StepByStepAlways, InvMoney, PTL

-----------------------------------------------------------------------------
(* Calls served one at a time.                                              *)

\* A call goes on: nobody else is served, so it is enough to look at that call.
LEMMA TrailGoesOn ==
    ASSUME CallsLeaveTheirTrail, pc \in [Calls -> {"idle"} \cup Serving \cup Answered],
           NEW c \in Calls, NEW from \in Serving, NEW to \in Serving \cup Answered, to # "created",
           Goto(c, from, to), UNCHANGED newOrderMessage,
           checkoutEvents \subseteq checkoutEvents', StoredEvents(c)',
           to \in Undecided \ {"stored"} => orderTransactionID'[c] = c,
           orderTable' = orderTable \cup (IF to = "approved" THEN {OwnRow(c)} ELSE {})
    PROVE  CallsLeaveTheirTrail'
<1>1. /\ pc[c] \in Serving /\ newOrderMessage = c /\ pc'[c] = to
      /\ \A d \in Calls : pc[d] \in Serving => d = c
      /\ \A d \in Calls \ {c} : pc'[d] = pc[d]
  BY DEF Goto, CallsLeaveTheirTrail, ServedOne
<1>2. \A d \in Calls : pc'[d] \in Serving => d = c BY <1>1
<1>3. \A d \in Calls : ServedOne(d)' BY <1>1, <1>2 DEF ServedOne
<1>4. \A d \in Calls : StoredEvents(d)'
  <2> SUFFICES ASSUME NEW d \in Calls \ {c} PROVE StoredEvents(d)' OBVIOUS
  <2>1. StoredEvents(d) /\ pc'[d] = pc[d] BY <1>1 DEF CallsLeaveTheirTrail
  <2> QED BY <2>1 DEF StoredEvents, EventStored
<1>5. orderTable' = {OwnRow(d) : d \in {e \in Calls : pc'[e] = "approved"}}
  <2>1. orderTable = {OwnRow(d) : d \in {e \in Calls : pc[e] = "approved"}}
    BY DEF CallsLeaveTheirTrail
  <2>2. pc[c] # "approved" BY <1>1 DEF Serving
  <2>3. {e \in Calls : pc'[e] = "approved"} =
          {e \in Calls : pc[e] = "approved"} \cup (IF to = "approved" THEN {c} ELSE {})
    BY <1>1, <2>2
  <2> QED BY <2>1, <2>3
<1> QED BY <1>3, <1>4, <1>5 DEF CallsLeaveTheirTrail

LEMMA TrailKept ==
    ASSUME CallsLeaveTheirTrail, UNCHANGED <<pc, newOrderMessage, orderTransactionID, storeVars>>
    PROVE  CallsLeaveTheirTrail'
<1>1. orderTable' = orderTable /\ pc' = pc /\ checkoutEvents' = checkoutEvents BY DEF storeVars
<1>2. \A c \in Calls : ServedOne(c)' BY DEF CallsLeaveTheirTrail, ServedOne
<1>3. \A c \in Calls : StoredEvents(c)'
  BY <1>1 DEF CallsLeaveTheirTrail, StoredEvents, EventStored
<1>4. orderTable' = {OwnRow(c) : c \in {d \in Calls : pc'[d] = "approved"}}
  BY <1>1 DEF CallsLeaveTheirTrail
<1> QED BY <1>2, <1>3, <1>4 DEF CallsLeaveTheirTrail

\* A call starts: with one call served at a time nobody is served then.
LEMMA TrailStarts ==
    ASSUME MaxInFlight = 1, CallsLeaveTheirTrail,
           pc \in [Calls -> {"idle"} \cup Serving \cup Answered],
           NEW c \in Calls, CreateOrder(c)
    PROVE  CallsLeaveTheirTrail'
<1> DEFINE Served == {d \in Calls : pc[d] \in Serving}
<1>1. Served = {}
  <2> SUFFICES ASSUME NEW e \in Served PROVE FALSE OBVIOUS
  <2>1. \A d \in Calls : pc[d] \in Serving => d = e BY DEF CallsLeaveTheirTrail, ServedOne
  <2>2. Served = {e} BY <2>1
  <2>3. Cardinality(Served) < 1 BY DEF CreateOrder
  <2>4. Cardinality({e}) = 1 BY FS_Singleton
  <2> HIDE DEF Served
  <2> QED BY <2>2, <2>3, <2>4
<1>2. /\ pc[c] = "idle" /\ pc'[c] = "created" /\ newOrderMessage' = c
      /\ \A d \in Calls \ {c} : pc'[d] = pc[d]
      /\ UNCHANGED <<checkoutEvents, orderTable>>
  BY DEF CreateOrder, Goto, storeVars
<1>3. \A d \in Calls : pc'[d] \in Serving => d = c BY <1>1, <1>2
<1>4. \A d \in Calls : ServedOne(d)' BY <1>2, <1>3 DEF ServedOne, Undecided
<1>5. \A d \in Calls : StoredEvents(d)'
  BY <1>2 DEF CallsLeaveTheirTrail, StoredEvents, EventStored, Undecided
<1>6. orderTable' = {OwnRow(d) : d \in {e \in Calls : pc'[e] = "approved"}}
  <2>1. {e \in Calls : pc'[e] = "approved"} = {e \in Calls : pc[e] = "approved"} BY <1>2
  <2> QED BY <1>2, <2>1 DEF CallsLeaveTheirTrail
<1> QED BY <1>4, <1>5, <1>6 DEF CallsLeaveTheirTrail

LEMMA CallTrail ==
    ASSUME faults' = 0, TypeOK, CallsLeaveTheirTrail, NEW c \in Calls, InitiateCheckout(c)
    PROVE  CallsLeaveTheirTrail'
<1>0. /\ pc \in [Calls -> {"idle"} \cup Serving \cup Answered]
      /\ orderTransactionID \in [Calls -> TransactionIDs]
      /\ orderTable = {OwnRow(d) : d \in {e \in Calls : pc[e] = "approved"}}
      /\ ServedOne(c) /\ StoredEvents(c)
  BY DEF TypeOK, ControllerTypeOK, CallsLeaveTheirTrail
<1>1. CASE StorePending(c)
  <2>1. newOrderMessage = c /\ Goto(c, "created", "stored") /\ pc'[c] = "stored"
    BY <1>0, <1>1 DEF StorePending, Goto, ServedOne, Serving
  <2>2. StoredEvents(c)'
    BY <1>1, <2>1 DEF StorePending, putEvent, StoredEvents, EventStored
  <2>3. checkoutEvents \subseteq checkoutEvents' /\ UNCHANGED <<orderTable, newOrderMessage>>
    BY <1>1 DEF StorePending, putEvent
  <2> QED BY <1>0, <2>1, <2>2, <2>3, TrailGoesOn DEF Serving, Undecided
<1>2. CASE SetTransactionID(c)
  <2>1. newOrderMessage = c /\ Goto(c, "stored", "identified") /\ pc'[c] = "identified"
    BY <1>0, <1>2 DEF SetTransactionID, Goto, ServedOne, Serving
  <2>2. /\ orderTransactionID'[c] = c
        /\ UNCHANGED <<checkoutEvents, orderTable, newOrderMessage>>
    BY <1>0, <1>2, <2>1 DEF SetTransactionID, storeVars
  <2>3. StoredEvents(c)'
    BY <1>0, <2>1, <2>2 DEF StoredEvents, EventStored, Goto, Undecided
  <2> QED BY <1>0, <2>1, <2>2, <2>3, TrailGoesOn DEF Serving, Undecided
<1>3. CASE PublishOrder(c) \/ PollResponse(c)
  <2>1. PICK from \in {"identified", "waiting"}, to \in {"waiting", "approving", "rejecting"} :
          Goto(c, from, to)
    BY <1>3 DEF PublishOrder, PollResponse
  <2>2. UNCHANGED <<checkoutEvents, orderTable, newOrderMessage, orderTransactionID>>
    BY <1>3 DEF PublishOrder, PollResponse, storeVars
  <2>3. orderTransactionID[c] = c /\ pc[c] = from /\ pc'[c] = to
    BY <1>0, <2>1 DEF Goto, ServedOne, Serving, Undecided
  <2>4. StoredEvents(c)'
    BY <1>0, <2>2, <2>3 DEF StoredEvents, EventStored, Undecided
  <2>5. from \in Serving /\ to \in Serving \cup Answered /\ to # "created" /\ to # "approved"
    BY DEF Serving
  <2> QED BY <1>0, <2>1, <2>2, <2>3, <2>4, <2>5, TrailGoesOn
<1>4. CASE StoreApproved(c)
  <2>1. /\ newOrderMessage = c /\ orderTransactionID[c] = c
        /\ Goto(c, "approving", "recording") /\ pc'[c] = "recording" /\ pc[c] = "approving"
    BY <1>0, <1>4 DEF StoreApproved, Goto, ServedOne, Serving, Undecided
  <2>2. /\ checkoutEvents \subseteq checkoutEvents'
        /\ UNCHANGED <<orderTable, newOrderMessage, orderTransactionID>>
    BY <1>4 DEF StoreApproved, putEvent
  <2>3. StoredEvents(c)'
    <3>1. EventStored(c, "APPROVED")'
      BY <1>4, <2>1 DEF StoreApproved, putEvent, EventStored
    <3>2. EventStored(c, "PENDING")'
      BY <1>0, <2>1, <2>2 DEF StoredEvents, EventStored, Undecided
    <3> QED BY <2>1, <3>1, <3>2 DEF StoredEvents
  <2> QED BY <1>0, <2>1, <2>2, <2>3, TrailGoesOn DEF Serving, Undecided
<1>5. CASE PutRow(c)
  <2>1. /\ newOrderMessage = c /\ Goto(c, "recording", "approved")
        /\ pc'[c] = "approved" /\ pc[c] = "recording"
    BY <1>0, <1>5 DEF PutRow, Goto, ServedOne, Serving
  <2>2. {d \in Calls \ {c} : pc[d] \in {"approving", "recording"}} = {}
    BY <1>0, <2>1 DEF ServedOne, Serving
  <2>3. \A r \in orderTable : c \notin r.alongside BY <1>0 DEF OwnRow
  <2>4. orderTable' = orderTable \cup {OwnRow(c)}
    BY <1>5, <2>1, <2>2, <2>3, NothingFails DEF PutRow, OwnRow
  <2>5. UNCHANGED <<checkoutEvents, newOrderMessage, orderTransactionID>> BY <1>5 DEF PutRow
  <2>6. StoredEvents(c)'
    BY <1>0, <2>1, <2>5 DEF StoredEvents, EventStored, Undecided
  <2> QED BY <1>0, <2>1, <2>4, <2>5, <2>6, TrailGoesOn DEF Serving, Answered, Undecided
<1>6. CASE StoreRejected(c)
  <2>1. /\ newOrderMessage = c /\ orderTransactionID[c] = c /\ c # Null
        /\ Goto(c, "rejecting", "rejected") /\ pc'[c] = "rejected" /\ pc[c] = "rejecting"
    BY <1>0, <1>6, NullAssumption DEF StoreRejected, Goto, ServedOne, Serving, Undecided
  <2>2. /\ checkoutEvents \subseteq checkoutEvents'
        /\ UNCHANGED <<orderTable, newOrderMessage, orderTransactionID>>
    BY <1>6 DEF StoreRejected, putEvent
  <2>3. StoredEvents(c)'
    <3>1. EventStored(c, "REJECTED")'
      BY <1>6, <2>1 DEF StoreRejected, putEvent, EventStored
    <3>2. EventStored(c, "PENDING")'
      BY <1>0, <2>1, <2>2 DEF StoredEvents, EventStored, Undecided
    <3> QED BY <2>1, <3>1, <3>2 DEF StoredEvents
  <2> QED BY <1>0, <2>1, <2>2, <2>3, TrailGoesOn DEF Serving, Answered, Undecided
<1>7. ~CallFails(c) BY NothingFails DEF CallFails
<1> QED BY <1>1, <1>2, <1>3, <1>4, <1>5, <1>6, <1>7 DEF InitiateCheckout

TrailInv == TypeInv /\ (faults = 0 => CallsLeaveTheirTrail)

LEMMA TrailInit == Init => TrailInv
<1> SUFFICES ASSUME Init PROVE CallsLeaveTheirTrail BY TypeInit DEF TrailInv
<1>1. \A c \in Calls : pc[c] = "idle" BY DEF Init, ControllerInit
<1>2. orderTable = {} BY DEF Init, ControllerInit
<1> QED
  BY <1>1, <1>2 DEF CallsLeaveTheirTrail, ServedOne, StoredEvents, Serving, Undecided

LEMMA TrailStep ==
    ASSUME MaxInFlight = 1, TrailInv, [Next]_vars
    PROVE  TrailInv'
<1>1. TypeInv' BY TypeStep DEF TrailInv
<1> SUFFICES ASSUME faults' = 0 PROVE CallsLeaveTheirTrail' BY <1>1 DEF TrailInv
<1>0. TypeOK /\ CallsLeaveTheirTrail BY FaultsAddUp DEF TrailInv, TypeInv
<1>2. ASSUME NEW c \in Calls, NewCall(c) PROVE CallsLeaveTheirTrail'
  BY <1>0, <1>2, TrailStarts DEF NewCall, TypeOK, ControllerTypeOK
<1>3. ASSUME NEW c \in Calls, CallStep(c) PROVE CallsLeaveTheirTrail'
  BY <1>0, <1>3, CallTrail DEF CallStep
<1>4. ~Environment
  BY <1>0, NothingFails DEF Environment, CheckoutCrash, PaymentCrash, KitchenCrash,
                            ConsumersDown, ProducerRetry
<1>5. CASE \/ CheckoutConsumer \/ Orchestrator \/ PaymentPoll \/ PaymentWork
           \/ KitchenPoll \/ KitchenWork \/ (\E q \in Topics : Subscribe(q)) \/ UNCHANGED vars
  <2>1. UNCHANGED <<pc, newOrderMessage, orderTransactionID, storeVars>>
    BY <1>5 DEF CheckoutConsumer, ConsumeMessages, Orchestrator, PaymentPoll, PaymentWork,
         KitchenPoll, KitchenWork, Subscribe, vars, controllerVars, storeVars
  <2> QED BY <1>0, <2>1, TrailKept
<1> QED BY <1>2, <1>3, <1>4, <1>5 DEF Next

\* As long as nothing has failed and calls are served one at a time, the event store tells
\* the story of every answered call under its own ID, and OrderTable has a row for each
\* approved order and for nothing else.
THEOREM TrailAlwaysComplete ==
    ASSUME MaxInFlight = 1 PROVE Spec => [](faults = 0 => EventTrailIsComplete)
<1>1. TrailInv /\ [Next]_vars => TrailInv' BY TrailStep
<1>2. TrailInv /\ faults = 0 => EventTrailIsComplete
  <2> SUFFICES ASSUME CallsLeaveTheirTrail PROVE EventTrailIsComplete BY DEF TrailInv
  <2>1. {r.order : r \in orderTable} = {c \in Calls : pc[c] = "approved"}
    <3>1. \A c \in Calls : OwnRow(c).order = c BY DEF OwnRow
    <3>2. \A r : r \in orderTable <=> \E c \in Calls : pc[c] = "approved" /\ r = OwnRow(c)
      BY DEF CallsLeaveTheirTrail
    <3> QED BY <3>1, <3>2
  <2> QED
    BY <2>1 DEF CallsLeaveTheirTrail, StoredEvents, Undecided, EventTrailIsComplete
<1> QED BY <1>1, <1>2, TrailInit, PTL DEF Spec
=============================================================================
