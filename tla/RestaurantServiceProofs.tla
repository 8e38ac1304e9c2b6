---------------------- MODULE RestaurantServiceProofs ----------------------
(***************************************************************************)
(* Theorems about RestaurantService: types; that every menu keeps its      *)
(* first dish and every dish acknowledged without an overlap, and that a   *)
(* deleted restaurant stays deleted.                                       *)
(***************************************************************************)
EXTENDS RestaurantService, FiniteSetTheorems, TLAPS

-----------------------------------------------------------------------------
(* What the steps are made of.                                              *)

LEMMA NewDocumentType ==
    ASSUME NEW info \in Infos
    PROVE  /\ NewDocument(info) \in Document
           /\ NewDocument(info).menu # <<>>
           /\ NewDocument(info).menu[1] = AcquaLiscia
  BY DEF NewDocument, Document, Dishes

LEMMA AppendType ==
    ASSUME NEW old \in Seq(Dishes), NEW q \in Requests
    PROVE  /\ Append(old, q) \in Seq(Dishes)
           /\ Append(old, q) # <<>>
           /\ old # <<>> => Append(old, q)[1] = old[1]
<1>1. q \in Dishes BY DEF Dishes
<1>2. old # <<>> => Len(old) >= 1 OBVIOUS
<1> QED BY <1>1, <1>2

LEMMA WithMenuType ==
    ASSUME NEW document \in Document, NEW new \in Seq(Dishes)
    PROVE  [document EXCEPT !.menu = new] \in Document
<1> DEFINE Menus == Seq(Dishes)
<1>1. new \in Menus /\ document \in [info : Infos, menu : Menus] BY DEF Document
<1> HIDE DEF Menus
<1>2. [document EXCEPT !.menu = new] \in [info : Infos, menu : Menus] BY <1>1
<1> QED BY <1>2 DEF Document, Menus

LEMMA FilledType ==
    ASSUME NEW rows \in [IDs -> Document \cup {Null}], NEW k \in 0 .. MaxFaults
    PROVE  Filled(rows, k) \in [IDs -> Document \cup {Null}]
<1>1. ASSUME NEW id \in IDs, id \in Names \X {k} PROVE NewDocument(id[1]) \in Document
  BY <1>1, NewDocumentType DEF Infos
<1> QED BY <1>1 DEF Filled

\* A step that ends a call with an answer.
LEMMA AnswerType ==
    ASSUME TypeOK, NEW q \in Requests, q \in Serving, NEW a \in {"ok", "error"},
           AnswerWith(q, a)
    PROVE  /\ pc' \in [Requests -> {"idle"} \cup Steps \cup Ends]
           /\ args' \in [Requests -> Arguments \cup {NoArgs}]
           /\ menu' \in [Requests -> Seq(Dishes)]
           /\ found' \in [Requests -> SUBSET (IDs \X Document)]
           /\ answer' \in [Requests -> {"none", "ok", "error"}]
           /\ overlapped' \subseteq Requests
           /\ \A p \in Requests : /\ pc'[p] = "idle" <=> args'[p] = NoArgs
                                  /\ pc'[p] \in Ends <=> answer'[p] # "none"
                                  /\ pc'[p] = "reading" => args'[p].op \in Lists
                                  /\ pc'[p] = "copied" => args'[p].op = "modifyRestaurantMenu"
<1>1. End(a, args[q].op) \in Ends BY DEF End, Ends
<1>2. pc[q] # "idle" BY DEF Serving, Steps
<1>3. <<>> \in Seq(Dishes) OBVIOUS
<1> QED BY <1>1, <1>2, <1>3 DEF TypeOK, AnswerWith, Ends, Steps

LEMMA WrittenType ==
    ASSUME TypeOK, NEW q \in Requests, Writes(q)
    PROVE  Written(q) \in [IDs -> Document \cup {Null}]
<1>1. q \in IDs /\ q \in Infos BY DEF IDs, Infos
<1>2. args[q].id \in IDs
  BY DEF TypeOK, Writes, Arguments, NoArgs
<1> DEFINE id == args[q].id
<1>3. CASE args[q].op = "addRestaurant"
  <2>1. Written(q) = [table EXCEPT ![q] = NewDocument(q)] BY <1>3 DEF Written
  <2> QED BY <2>1, <1>1, NewDocumentType DEF TypeOK
<1>4. CASE args[q].op = "deleteRestaurant"
  <2>1. Written(q) = [table EXCEPT ![id] = Null] BY <1>4 DEF Written
  <2> QED BY <2>1, <1>2 DEF TypeOK
<1>5. CASE args[q].op = "modifyRestaurant"
  <2>1. Written(q) = Update(id, [table[id] EXCEPT !.info = q]) BY <1>5 DEF Written
  <2>2. table[id] # Null => [table[id] EXCEPT !.info = q] \in Document
    BY <1>1, <1>2 DEF TypeOK, Document
  <2> QED BY <2>1, <2>2, <1>2 DEF TypeOK, Update
<1>6. CASE args[q].op = "modifyRestaurantMenu"
  <2> DEFINE new == Append(menu[q], q)
  <2>1. Written(q) = Update(id, [table[id] EXCEPT !.menu = new])
    BY <1>6 DEF Written
  <2>2. new \in Seq(Dishes) BY AppendType DEF TypeOK
  <2> HIDE DEF new
  <2>3. table[id] # Null => [table[id] EXCEPT !.menu = new] \in Document
    BY <2>2, <1>2, WithMenuType DEF TypeOK
  <2> QED BY <2>1, <2>3, <1>2 DEF TypeOK, Update
<1> QED BY <1>3, <1>4, <1>5, <1>6 DEF Writes, TypeOK

\* A writing thread serves a call.
LEMMA WritesServes ==
    ASSUME NEW q \in Requests, Writes(q) PROVE q \in Serving
  BY DEF Writes, Serving, Steps

-----------------------------------------------------------------------------
LEMMA TypesInitially == Init => TypeOK
<1> SUFFICES ASSUME Init PROVE TypeOK OBVIOUS
<1>1. 0 \in 0 .. MaxFaults BY RestaurantAssumption
<1>2. table \in [IDs -> Document \cup {Null}]
  <2>1. [id \in IDs |-> Null] \in [IDs -> Document \cup {Null}] OBVIOUS
  <2> QED BY <2>1, <1>1, FilledType DEF Init
<1> QED BY <1>1, <1>2, RestaurantAssumption DEF Init, TypeOK, Steps, Ends

\* Each step keeps the types.
LEMMA TypesStay == TypeOK /\ [Next]_vars => TypeOK'
<1> SUFFICES ASSUME TypeOK, [Next]_vars PROVE TypeOK' OBVIOUS
<1>1. CASE UNCHANGED vars BY <1>1 DEF TypeOK, vars
<1>2. ASSUME NEW q \in Requests, Request(q) PROVE TypeOK'
  <2>1. ASSUME NEW a \in Arguments, Arrive(q, a) PROVE TypeOK'
    <3>1. a # NoArgs BY DEF Arguments, NoArgs
    <3>2. overlapped' \subseteq Requests
      BY <2>1 DEF Arrive, TypeOK, Changing, Serving
    <3> QED BY <2>1, <3>1, <3>2 DEF Arrive, TypeOK, Steps, Ends
  <2>2. ASSUME NEW op \in Operations,
               NEW id \in IF op \in {"addRestaurant", "getAllRestaurants"} THEN {q} ELSE Existing,
               NEW names \in IF op = "getRestaurantInfoByName" THEN {{table[id].info}} ELSE {Infos},
               NEW plain \in IF op = "modifyRestaurantMenu" THEN BOOLEAN ELSE {TRUE}
        PROVE  [op |-> op, id |-> id, names |-> names, plain |-> plain] \in Arguments
    <3>1. id \in IDs BY DEF IDs, Existing
    <3>2. names \subseteq Infos
      <4>1. CASE op = "getRestaurantInfoByName"
        <5>1. id \in Existing BY <4>1
        <5>2. table[id] \in Document BY <5>1 DEF Existing, TypeOK
        <5> QED BY <4>1, <5>2 DEF Document
      <4>2. CASE op # "getRestaurantInfoByName" BY <4>2
      <4> QED BY <4>1, <4>2
    <3>3. plain \in BOOLEAN OBVIOUS
    <3> QED BY <3>1, <3>2, <3>3 DEF Arguments
  <2> QED BY <1>2, <2>1, <2>2 DEF Request
<1>3. ASSUME NEW q \in Requests, Write(q) PROVE TypeOK'
  <2>1. table' \in [IDs -> Document \cup {Null}] BY <1>3, WrittenType DEF Write
  <2>2. restarts' = restarts /\ failures' = failures BY <1>3 DEF Write, AnswerWith
  <2>3. q \in Serving /\ AnswerWith(q, "ok") BY <1>3, WritesServes DEF Write
  <2> QED BY <2>1, <2>2, <2>3, AnswerType DEF TypeOK
<1>4. ASSUME NEW q \in Requests, ReadMenu(q) PROVE TypeOK'
  <2>0. pc[q] = "called" /\ args[q].op = "modifyRestaurantMenu"
        /\ table' = table /\ failures' = failures
    BY <1>4 DEF ReadMenu
  <2>1. args[q].id \in IDs BY <2>0 DEF TypeOK, Arguments, NoArgs
  <2>2. CASE table[args[q].id] = Null
    <3>1. AnswerWith(q, "error") BY <1>4, <2>2 DEF ReadMenu
    <3>2. q \in Serving /\ restarts' = restarts BY <2>0, <3>1 DEF Serving, Steps, AnswerWith
    <3> QED BY <2>0, <3>1, <3>2, AnswerType DEF TypeOK
  <2>3. CASE table[args[q].id] # Null
    <3>1. table[args[q].id].menu \in Seq(Dishes) BY <2>1, <2>3 DEF TypeOK, Document
    <3>2. /\ pc' = [pc EXCEPT ![q] = "copied"]
          /\ menu' = [menu EXCEPT ![q] = table[args[q].id].menu]
          /\ UNCHANGED <<args, found, answer, overlapped, restarts>>
      BY <1>4, <2>3 DEF ReadMenu
    <3> QED BY <2>0, <3>1, <3>2 DEF TypeOK, Steps, Ends
  <2> QED BY <2>2, <2>3
<1>5. ASSUME NEW q \in Requests, LookUp(q) PROVE TypeOK'
  <2>1. pc[q] = "called" /\ table' = table /\ failures' = failures BY <1>5 DEF LookUp
  <2>2. PICK a \in {"ok", "error"} : AnswerWith(q, a) BY <1>5 DEF LookUp
  <2>3. q \in Serving /\ restarts' = restarts BY <2>1, <2>2 DEF Serving, Steps, AnswerWith
  <2> QED BY <2>1, <2>2, <2>3, AnswerType DEF TypeOK
<1>6. ASSUME NEW q \in Requests, ReadBatch(q) PROVE TypeOK'
  <2>1. PICK ids \in SUBSET Unread(q) : found' = [found EXCEPT ![q] = Returned(q, ids)]
    BY <1>6 DEF ReadBatch
  <2>2. \A id \in Unread(q) : id \in IDs /\ table[id] \in Document
    BY DEF Unread, Existing, TypeOK
  <2>3. Returned(q, ids) \subseteq IDs \X Document
    BY <2>1, <2>2 DEF Returned, TypeOK
  <2>4. found' \in [Requests -> SUBSET (IDs \X Document)] BY <2>1, <2>3 DEF TypeOK
  <2> QED BY <1>6, <2>4 DEF ReadBatch, TypeOK, Steps, Ends
<1>7. ASSUME NEW q \in Requests, ReadLastBatch(q) PROVE TypeOK'
  <2>1. q \in Serving /\ table' = table /\ failures' = failures
    BY <1>7 DEF ReadLastBatch, Serving, Steps
  <2>2. PICK a \in {"ok", "error"} : AnswerWith(q, a) BY <1>7 DEF ReadLastBatch
  <2>3. restarts' = restarts BY <2>2 DEF AnswerWith
  <2> QED BY <2>1, <2>2, <2>3, AnswerType DEF TypeOK
<1>8. ASSUME NEW q \in Requests, CallFails(q) PROVE TypeOK'
  <2>1. table' \in [IDs -> Document \cup {Null}]
    BY <1>8, WrittenType DEF CallFails, TypeOK
  <2>2. q \in Serving /\ AnswerWith(q, "error") BY <1>8 DEF CallFails
  <2>3. restarts' = restarts /\ failures' = failures + 1 /\ restarts + failures < MaxFaults
    BY <1>8 DEF CallFails, AnswerWith
  <2>4. failures' \in 0 .. MaxFaults /\ restarts' + failures' <= MaxFaults
    BY <2>3, RestaurantAssumption DEF TypeOK
  <2> QED BY <2>1, <2>2, <2>3, <2>4, AnswerType DEF TypeOK
<1>9. ASSUME Restart PROVE TypeOK'
  <2>1. restarts' = restarts + 1 /\ restarts' \in 0 .. MaxFaults
        /\ restarts' + failures' <= MaxFaults
    BY <1>9, RestaurantAssumption DEF Restart, TypeOK
  <2>2. table' \in [IDs -> Document \cup {Null}]
    BY <1>9, <2>1, FilledType DEF Restart, TypeOK
  <2>3. \A op : End("error", op) \in Ends BY DEF End, Ends
  <2>4. <<>> \in Seq(Dishes) OBVIOUS
  <2> QED BY <1>9, <2>1, <2>2, <2>3, <2>4 DEF Restart, TypeOK, Serving, Steps, Ends
<1> QED BY <1>1, <1>2, <1>3, <1>4, <1>5, <1>6, <1>7, <1>8, <1>9 DEF Next, Thread

\* Type correctness, for any restaurants, requests, operations and faults: a menu is only
\* written back by the call that has read it, and documents that are not there never pass
\* for documents.
THEOREM RestaurantsTypeCorrect == Spec => []TypeOK
  BY TypesInitially, TypesStay, PTL DEF Spec

-----------------------------------------------------------------------------
LEMMA FirstDishInitially == Init => MenusKeepTheirFirstDish
<1> SUFFICES ASSUME Init PROVE MenusKeepTheirFirstDish OBVIOUS
<1>1. ASSUME NEW id \in Existing PROVE table[id].menu # <<>> /\ table[id].menu[1] = AcquaLiscia
  <2>1. id \in IDs /\ table[id] # Null BY DEF Existing
  <2>2. id \in Names \X {0} /\ table[id] = NewDocument(id[1]) BY <2>1 DEF Init, Filled
  <2> QED BY <2>2, NewDocumentType DEF Infos
<1> QED BY <1>1 DEF Init, MenusKeepTheirFirstDish

\* What is written starts with the dish, if what was stored and copied did.
LEMMA WrittenKeepsFirstDish ==
    ASSUME TypeOK, MenusKeepTheirFirstDish, NEW q \in Requests, Writes(q),
           NEW id \in IDs, Written(q)[id] # Null
    PROVE  Written(q)[id].menu # <<>> /\ Written(q)[id].menu[1] = AcquaLiscia
<1>1. q \in IDs /\ q \in Infos BY DEF IDs, Infos
<1>2. args[q].id \in IDs BY DEF TypeOK, Writes, Arguments, NoArgs
<1>3. table[id] # Null =>
          table[id] \in Document /\ table[id].menu # <<>> /\ table[id].menu[1] = AcquaLiscia
  BY DEF TypeOK, MenusKeepTheirFirstDish, Existing
<1>4. CASE args[q].op = "addRestaurant"
  <2>1. Written(q) = [table EXCEPT ![q] = NewDocument(q)] BY <1>4 DEF Written
  <2> QED BY <2>1, <1>1, <1>3, NewDocumentType DEF TypeOK
<1>5. CASE args[q].op = "deleteRestaurant"
  <2>1. Written(q) = [table EXCEPT ![args[q].id] = Null] BY <1>5 DEF Written
  <2> QED BY <2>1, <1>2, <1>3 DEF TypeOK
<1>6. CASE args[q].op = "modifyRestaurant"
  <2>1. Written(q) = Update(args[q].id, [table[args[q].id] EXCEPT !.info = q])
    BY <1>6 DEF Written
  <2> QED BY <2>1, <1>2, <1>3 DEF TypeOK, Update, Document
<1>7. CASE args[q].op = "modifyRestaurantMenu"
  <2> DEFINE new == Append(menu[q], q)
  <2>1. Written(q) = Update(args[q].id, [table[args[q].id] EXCEPT !.menu = new])
    BY <1>7 DEF Written
  <2>2. menu[q] # <<>> /\ menu[q][1] = AcquaLiscia
    BY <1>7 DEF Writes, MenusKeepTheirFirstDish
  <2>3. new # <<>> /\ new[1] = AcquaLiscia BY <2>2, AppendType DEF TypeOK
  <2> HIDE DEF new
  <2> QED BY <2>1, <2>3, <1>2, <1>3 DEF TypeOK, Update, Document
<1> QED BY <1>4, <1>5, <1>6, <1>7 DEF Writes, TypeOK

LEMMA FirstDishStays ==
    TypeOK /\ MenusKeepTheirFirstDish /\ [Next]_vars => MenusKeepTheirFirstDish'
<1> SUFFICES ASSUME TypeOK, MenusKeepTheirFirstDish, [Next]_vars
             PROVE  MenusKeepTheirFirstDish'
  OBVIOUS
\* The steps that leave the table alone or write, and copy no menu.
<1>1. ASSUME table' = table \/ \E q \in Requests : Writes(q) /\ table' = Written(q),
             \A p \in Requests : pc'[p] = "copied" => pc[p] = "copied" /\ menu'[p] = menu[p]
      PROVE  MenusKeepTheirFirstDish'
  BY <1>1, WrittenKeepsFirstDish DEF MenusKeepTheirFirstDish, Existing
<1>2. ASSUME NEW q \in Requests, NEW a, AnswerWith(q, a)
      PROVE  \A p \in Requests : pc'[p] = "copied" => pc[p] = "copied" /\ menu'[p] = menu[p]
  BY <1>2 DEF AnswerWith, End, TypeOK
<1>3. CASE UNCHANGED vars BY <1>3, <1>1 DEF vars
<1>4. ASSUME NEW q \in Requests, Request(q) PROVE MenusKeepTheirFirstDish'
  BY <1>4, <1>1 DEF Request, Arrive, TypeOK
<1>5. ASSUME NEW q \in Requests, Write(q) PROVE MenusKeepTheirFirstDish'
  BY <1>5, <1>1, <1>2 DEF Write
<1>6. ASSUME NEW q \in Requests, ReadMenu(q) PROVE MenusKeepTheirFirstDish'
  <2>1. CASE table[args[q].id] = Null BY <2>1, <1>6, <1>1, <1>2 DEF ReadMenu
  <2>2. CASE table[args[q].id] # Null
    <3>1. args[q].id \in Existing
      BY <1>6, <2>2 DEF ReadMenu, TypeOK, Arguments, NoArgs, Existing
    <3> QED BY <3>1, <2>2, <1>6 DEF ReadMenu, MenusKeepTheirFirstDish, Existing, TypeOK
  <2> QED BY <2>1, <2>2
<1>7. ASSUME NEW q \in Requests, LookUp(q) PROVE MenusKeepTheirFirstDish'
  BY <1>7, <1>1, <1>2 DEF LookUp
<1>8. ASSUME NEW q \in Requests, ReadBatch(q) PROVE MenusKeepTheirFirstDish'
  BY <1>8, <1>1 DEF ReadBatch, TypeOK
<1>9. ASSUME NEW q \in Requests, ReadLastBatch(q) PROVE MenusKeepTheirFirstDish'
  BY <1>9, <1>1, <1>2 DEF ReadLastBatch
<1>10. ASSUME NEW q \in Requests, CallFails(q) PROVE MenusKeepTheirFirstDish'
  BY <1>10, <1>1, <1>2 DEF CallFails
<1>11. ASSUME Restart PROVE MenusKeepTheirFirstDish'
  <2>1. ASSUME NEW id \in IDs, table'[id] # Null
        PROVE  table'[id].menu # <<>> /\ table'[id].menu[1] = AcquaLiscia
    <3>1. CASE id \in Names \X {restarts + 1}
      <4>1. table'[id] = NewDocument(id[1]) BY <3>1, <1>11 DEF Restart, Filled
      <4> QED BY <4>1, <3>1, NewDocumentType DEF Infos
    <3>2. CASE id \notin Names \X {restarts + 1}
      <4>1. table'[id] = table[id] BY <3>2, <1>11 DEF Restart, Filled
      <4> QED BY <4>1, <2>1 DEF MenusKeepTheirFirstDish, Existing
    <3> QED BY <3>1, <3>2
  <2>2. \A p \in Requests : pc'[p] # "copied"
    BY <1>11 DEF Restart, End, Serving, Steps
  <2> QED BY <2>1, <2>2 DEF MenusKeepTheirFirstDish, Existing
<1> QED BY <1>3, <1>4, <1>5, <1>6, <1>7, <1>8, <1>9, <1>10, <1>11 DEF Next, Thread

\* The details page can print the first dish of any restaurant: whatever menu changes,
\* modifications, failures and restarts overlap, no menu stored or copied is ever empty or
\* starts with another dish than addRestaurant's.
THEOREM FirstDishCorrect == Spec => []MenusKeepTheirFirstDish
  BY RestaurantsTypeCorrect, FirstDishInitially, FirstDishStays, PTL DEF Spec

-----------------------------------------------------------------------------
\* What a write brings into being is the restaurant its request inserts.
LEMMA WrittenCreates ==
    ASSUME TypeOK, NEW q \in Requests, Writes(q),
           NEW id \in IDs, table[id] = Null, Written(q)[id] # Null
    PROVE  id = q /\ args[q].op = "addRestaurant"
<1>1. args[q].id \in IDs BY DEF TypeOK, Writes, Arguments, NoArgs
<1>2. CASE args[q].op = "addRestaurant"
  <2>1. Written(q) = [table EXCEPT ![q] = NewDocument(q)] BY <1>2 DEF Written
  <2> QED BY <2>1, <1>2 DEF TypeOK
<1>3. CASE args[q].op = "deleteRestaurant"
  <2>1. Written(q) = [table EXCEPT ![args[q].id] = Null] BY <1>3 DEF Written
  <2> QED BY <2>1, <1>1 DEF TypeOK
<1>4. CASE args[q].op = "modifyRestaurant"
  <2>1. Written(q) = Update(args[q].id, [table[args[q].id] EXCEPT !.info = q])
    BY <1>4 DEF Written
  <2> QED BY <2>1, <1>1 DEF TypeOK, Update
<1>5. CASE args[q].op = "modifyRestaurantMenu"
  <2>1. Written(q) = Update(args[q].id, [table[args[q].id] EXCEPT !.menu = Append(menu[q], q)])
    BY <1>5 DEF Written
  <2> QED BY <2>1, <1>1 DEF TypeOK, Update
<1> QED BY <1>2, <1>3, <1>4, <1>5 DEF Writes, TypeOK

DeletedStep ==
    \A id \in IDs : table[id] = Null /\ table'[id] # Null =>
        \/ restarts' # restarts
        \/ id \in Requests /\ pc[id] = "called" /\ pc'[id] = "done"

LEMMA DeletedStepCorrect == TypeOK /\ [Next]_vars => DeletedStep \/ UNCHANGED vars
<1> SUFFICES ASSUME TypeOK, Next PROVE DeletedStep OBVIOUS
<1>1. ASSUME NEW q \in Requests, NEW a, Writes(q), table' = Written(q), AnswerWith(q, a)
      PROVE  DeletedStep
  <2> SUFFICES ASSUME NEW id \in IDs, table[id] = Null, table'[id] # Null
               PROVE  id \in Requests /\ pc[id] = "called" /\ pc'[id] = "done"
    BY DEF DeletedStep
  <2>1. id = q /\ args[q].op = "addRestaurant" BY <1>1, WrittenCreates
  <2>2. pc[q] = "called" BY <1>1, <2>1 DEF Writes, TypeOK
  <2>3. End(a, args[q].op) = "done" BY <2>1 DEF End, Lists
  <2>4. pc'[q] = "done" BY <1>1, <2>3 DEF AnswerWith, TypeOK
  <2> QED BY <2>1, <2>2, <2>4
<1>2. ASSUME table' = table PROVE DeletedStep BY <1>2 DEF DeletedStep
<1>3. ASSUME NEW q \in Requests, CallFails(q) PROVE DeletedStep
  BY <1>3, <1>1, <1>2 DEF CallFails
<1>4. ASSUME NEW q \in Requests, Write(q) PROVE DeletedStep BY <1>4, <1>1 DEF Write
<1>5. ASSUME NEW q \in Requests,
             Request(q) \/ ReadMenu(q) \/ LookUp(q) \/ ReadBatch(q) \/ ReadLastBatch(q)
      PROVE  DeletedStep
  <2>1. CASE Request(q)
    <3>1. table' = table BY <2>1 DEF Request, Arrive
    <3> QED BY <3>1, <1>2
  <2>2. CASE ReadMenu(q) BY <2>2, <1>2 DEF ReadMenu
  <2>3. CASE LookUp(q) BY <2>3, <1>2 DEF LookUp
  <2>4. CASE ReadBatch(q) BY <2>4, <1>2 DEF ReadBatch
  <2>5. CASE ReadLastBatch(q) BY <2>5, <1>2 DEF ReadLastBatch
  <2> QED BY <1>5, <2>1, <2>2, <2>3, <2>4, <2>5
<1>6. ASSUME Restart PROVE DeletedStep
  BY <1>6, RestaurantAssumption DEF Restart, DeletedStep, TypeOK
<1> QED BY <1>3, <1>4, <1>5, <1>6 DEF Next, Thread

\* No change in flight brings back a restaurant that was deleted meanwhile: only the
\* insertion of a new one, or the file at a restart, makes a document where none was.
THEOREM DeletionCorrect == Spec => DeletedStaysDeleted
<1>1. TypeOK /\ [Next]_vars => [DeletedStep]_vars BY DeletedStepCorrect
<1>2. Spec => [][DeletedStep]_vars BY <1>1, RestaurantsTypeCorrect, PTL DEF Spec
<1> QED BY <1>2 DEF DeletedStaysDeleted, DeletedStep

-----------------------------------------------------------------------------
(* What stays of the dishes, when no two menu changes overlap.              *)

\* The IDs that are still to be given to restaurants.
Unborn == {p \in Requests : pc[p] \notin Ends} \cup (Names \X (restarts + 1 .. MaxFaults))

ChangesMenu(q) == args[q].op = "modifyRestaurantMenu"

\* No menu change is for a restaurant that is still to be inserted.
IDsAreFresh ==
    /\ \A id \in Unborn : table[id] = Null
    /\ \A q \in Requests : ChangesMenu(q) => args[q].id \notin Unborn

\* Only a call that has ended has put its dish on a menu.
OnlyEnded(dishes) == \A i \in DOMAIN dishes : dishes[i] \in Requests => pc[dishes[i]] \in Ends

DishesHaveEnded ==
    /\ \A id \in Existing : OnlyEnded(table[id].menu)
    /\ \A q \in Requests : pc[q] = "copied" => OnlyEnded(menu[q])

\* Two menu changes of a restaurant that are served at the same time are known to overlap.
OverlapsAreKnown ==
    \A p, q \in Serving : p # q /\ ChangesMenu(p) /\ ChangesMenu(q) /\ args[p].id = args[q].id
                            => q \in overlapped

Once(q, dishes) == \E i \in DOMAIN dishes : \A j \in DOMAIN dishes : dishes[j] = q <=> j = i

Acknowledged(q) ==
    q \notin overlapped /\ pc[q] = "done" /\ answer[q] = "ok" /\ ChangesMenu(q)

\* A dish acknowledged is on the menu, and on every copy of it about to be written back.
DishIsKept(q) ==
    /\ table[args[q].id] # Null => Once(q, table[args[q].id].menu)
    /\ \A p \in Requests : pc[p] = "copied" /\ args[p].id = args[q].id => Once(q, menu[p])

DishesAreKept == \A q \in Requests : Acknowledged(q) => DishIsKept(q)

DishesInv == IDsAreFresh /\ DishesHaveEnded /\ OverlapsAreKnown /\ DishesAreKept

-----------------------------------------------------------------------------
(* The menus.                                                               *)

LEMMA OnceAppended ==
    ASSUME NEW dishes \in Seq(Dishes), NEW q \in Requests, NEW p \in Requests,
           IF p = q THEN \A i \in DOMAIN dishes : dishes[i] # q ELSE Once(q, dishes)
    PROVE  Once(q, Append(dishes, p))
<1>1. PICK n \in Nat : n = Len(dishes) OBVIOUS
<1>2. PICK more : more = Append(dishes, p) OBVIOUS
<1>3. p \in Dishes BY DEF Dishes
<1>4. /\ DOMAIN dishes = 1 .. n /\ DOMAIN more = 1 .. n + 1
      /\ more[n + 1] = p /\ \A i \in 1 .. n : more[i] = dishes[i]
  BY <1>1, <1>2, <1>3
<1>5. /\ \A i \in 1 .. n + 1 : i \in 1 .. n \/ i = n + 1
      /\ \A i \in 1 .. n : i \in 1 .. n + 1 /\ i # n + 1
      /\ n + 1 \in 1 .. n + 1
  BY <1>1
<1>6. \E i \in 1 .. n + 1 : \A j \in 1 .. n + 1 : more[j] = q <=> j = i
  <2>1. CASE p = q
    <3>1. \A i \in 1 .. n : more[i] # q BY <1>4, <2>1
    <3> QED BY <1>4, <1>5, <2>1, <3>1
  <2>2. CASE p # q
    <3>1. PICK D : D = DOMAIN dishes OBVIOUS
    <3>2. PICK i \in D : \A j \in D : dishes[j] = q <=> j = i BY <2>2, <3>1 DEF Once
    <3>3. D = 1 .. n BY <1>4, <3>1
    <3>4. i \in 1 .. n + 1 /\ \A j \in 1 .. n + 1 : more[j] = q <=> j = i
      BY <1>4, <1>5, <2>2, <3>2, <3>3
    <3> QED BY <3>4
  <2> QED BY <2>1, <2>2
<1>7. PICK D : D = DOMAIN more OBVIOUS
<1>8. D = 1 .. n + 1 BY <1>4, <1>7
<1>9. \E i \in D : \A j \in D : more[j] = q <=> j = i BY <1>6, <1>8
<1> QED BY <1>2, <1>7, <1>9 DEF Once

\* Where the menu of a restaurant that is written comes from.
LEMMA WrittenMenus ==
    ASSUME TypeOK, NEW q \in Requests, Writes(q), NEW id \in IDs, Written(q)[id] # Null
    PROVE  \/ /\ id = q /\ args[q].op = "addRestaurant"
              /\ Written(q)[id].menu = <<AcquaLiscia>>
           \/ /\ table[id] # Null /\ Written(q)[id].menu = table[id].menu
              /\ ~(ChangesMenu(q) /\ id = args[q].id)
           \/ /\ table[id] # Null /\ ChangesMenu(q) /\ id = args[q].id /\ pc[q] = "copied"
              /\ Written(q)[id].menu = Append(menu[q], q)
<1>1. q \in IDs BY DEF IDs
<1>2. args[q].id \in IDs BY DEF TypeOK, Writes, Arguments, NoArgs
<1>3. table \in [IDs -> Document \cup {Null}] BY DEF TypeOK
<1>4. CASE args[q].op = "addRestaurant"
  <2>1. Written(q) = [table EXCEPT ![q] = NewDocument(q)] BY <1>4 DEF Written
  <2>2. NewDocument(q).menu = <<AcquaLiscia>> BY DEF NewDocument
  <2> QED BY <2>1, <2>2, <1>1, <1>3, <1>4 DEF ChangesMenu
<1>5. CASE args[q].op = "deleteRestaurant"
  <2>1. Written(q) = [table EXCEPT ![args[q].id] = Null] BY <1>5 DEF Written
  <2> QED BY <2>1, <1>2, <1>3, <1>5 DEF ChangesMenu
<1>6. CASE args[q].op = "modifyRestaurant"
  <2>1. Written(q) = Update(args[q].id, [table[args[q].id] EXCEPT !.info = q])
    BY <1>6 DEF Written
  <2>2. table[args[q].id] # Null =>
          [table[args[q].id] EXCEPT !.info = q].menu = table[args[q].id].menu
    BY <1>2, <1>3 DEF Document
  <2> QED BY <2>1, <2>2, <1>2, <1>3, <1>6 DEF ChangesMenu, Update
<1>7. CASE args[q].op = "modifyRestaurantMenu"
  <2>1. PICK new : new = Append(menu[q], q) OBVIOUS
  <2>2. Written(q) = Update(args[q].id, [table[args[q].id] EXCEPT !.menu = new])
    BY <1>7, <2>1 DEF Written
  <2>3. table[args[q].id] # Null => [table[args[q].id] EXCEPT !.menu = new].menu = new
    BY <1>2, <1>3 DEF Document
  <2>4. pc[q] = "copied" BY <1>7 DEF Writes
  <2>5. CASE table[args[q].id] = Null BY <2>2, <2>5, <1>2, <1>3 DEF Update
  <2>6. CASE table[args[q].id] # Null /\ id = args[q].id
    BY <2>1, <2>2, <2>3, <2>4, <2>6, <1>2, <1>3, <1>7 DEF Update, ChangesMenu
  <2>7. CASE table[args[q].id] # Null /\ id # args[q].id
    BY <2>2, <2>7, <1>2, <1>3 DEF Update
  <2> QED BY <2>5, <2>6, <2>7
<1> QED BY <1>4, <1>5, <1>6, <1>7 DEF Writes, TypeOK

-----------------------------------------------------------------------------
(* The steps.                                                               *)

\* A call ends; its answer is Ok to a menu change only after it has written.
EndsCall(q, a) ==
    /\ q \in Serving /\ AnswerWith(q, a)
    /\ table' = table \/ (Writes(q) /\ table' = Written(q))
    /\ a = "ok" /\ ChangesMenu(q) => pc[q] = "copied" /\ table' = Written(q)

CopiesMenu(q) ==
    /\ pc[q] = "called" /\ ChangesMenu(q) /\ table[args[q].id] # Null
    /\ pc' = [pc EXCEPT ![q] = "copied"]
    /\ menu' = [menu EXCEPT ![q] = table[args[q].id].menu]
    /\ UNCHANGED <<table, args, answer, overlapped, restarts>>

LEMMA StepKinds ==
    ASSUME TypeOK, Next
    PROVE  \/ \E q \in Requests : \/ Request(q) \/ CopiesMenu(q) \/ ReadBatch(q)
                                  \/ \E a : EndsCall(q, a)
           \/ Restart
<1>1. ASSUME NEW q \in Requests, Write(q) PROVE EndsCall(q, "ok")
  BY <1>1, WritesServes DEF Write, EndsCall, Writes, ChangesMenu
<1>2. ASSUME NEW q \in Requests, ReadMenu(q) PROVE EndsCall(q, "error") \/ CopiesMenu(q)
  BY <1>2 DEF ReadMenu, EndsCall, CopiesMenu, ChangesMenu, Serving, Steps
<1>3. ASSUME NEW q \in Requests, LookUp(q) PROVE \E a : EndsCall(q, a)
  <2>1. q \in Serving /\ table' = table /\ ~ChangesMenu(q)
    BY <1>3 DEF LookUp, Serving, Steps, ChangesMenu, Lookups
  <2>2. PICK a : AnswerWith(q, a) BY <1>3 DEF LookUp
  <2> QED BY <2>1, <2>2 DEF EndsCall
<1>4. ASSUME NEW q \in Requests, ReadLastBatch(q) PROVE \E a : EndsCall(q, a)
  <2>1. q \in Serving /\ table' = table /\ ~ChangesMenu(q)
    BY <1>4 DEF ReadLastBatch, Serving, Steps, ChangesMenu, Lists
  <2>2. PICK a : AnswerWith(q, a) BY <1>4 DEF ReadLastBatch
  <2> QED BY <2>1, <2>2 DEF EndsCall
<1>5. ASSUME NEW q \in Requests, CallFails(q) PROVE EndsCall(q, "error")
  BY <1>5 DEF CallFails, EndsCall
<1> QED BY <1>1, <1>2, <1>3, <1>4, <1>5 DEF Next, Thread

\* What the end of a call changes besides the table.
LEMMA EndOfCall ==
    ASSUME TypeOK, NEW q \in Requests, NEW a, EndsCall(q, a)
    PROVE  /\ pc'[q] \in Ends /\ pc[q] \in Steps /\ answer'[q] = a
           /\ \A p \in Requests : p # q => pc'[p] = pc[p] /\ answer'[p] = answer[p]
                                           /\ menu'[p] = menu[p]
           /\ UNCHANGED <<args, overlapped, restarts>>
BY DEF EndsCall, AnswerWith, End, Ends, TypeOK, Serving

\* What a step does to the table.
LEMMA StepOfTable ==
    ASSUME TypeOK, [Next]_vars
    PROVE  \/ table' = table
           \/ \E q \in Requests : \E a :
                EndsCall(q, a) /\ Writes(q) /\ table' = Written(q)
           \/ Restart
<1>1. ASSUME NEW q \in Requests, Request(q) \/ CopiesMenu(q) \/ ReadBatch(q)
      PROVE  table' = table
  <2>1. CASE Request(q)
    <3>1. PICK a : Arrive(q, a) BY <2>1 DEF Request
    <3> QED BY <3>1 DEF Arrive
  <2>2. CASE CopiesMenu(q) BY <2>2 DEF CopiesMenu
  <2>3. CASE ReadBatch(q) BY <2>3 DEF ReadBatch
  <2> QED BY <1>1, <2>1, <2>2, <2>3
<1>2. ASSUME NEW q \in Requests, NEW a, EndsCall(q, a)
      PROVE  table' = table \/ (Writes(q) /\ table' = Written(q))
  BY <1>2 DEF EndsCall
<1>3. CASE UNCHANGED vars BY <1>3 DEF vars
<1>4. CASE Next
  <2>1. CASE \E q \in Requests : Request(q) \/ CopiesMenu(q) \/ ReadBatch(q) BY <1>1, <2>1
  <2>2. CASE \E q \in Requests : \E a : EndsCall(q, a) BY <1>2, <2>2
  <2> QED BY <1>4, <2>1, <2>2, StepKinds
<1> QED BY <1>3, <1>4

LEMMA ArriveIs ==
    ASSUME TypeOK, NEW q \in Requests, Request(q)
    PROVE  \E a \in [op : Operations, id : IDs, names : SUBSET Infos, plain : BOOLEAN] :
             /\ Arrive(q, a)
             /\ a.op = "modifyRestaurantMenu" => table[a.id] # Null
<1>1. PICK op, id, names, plain :
        /\ op \in Operations
        /\ id \in IF op \in {"addRestaurant", "getAllRestaurants"} THEN {q} ELSE Existing
        /\ names \in IF op = "getRestaurantInfoByName" THEN {{table[id].info}} ELSE {Infos}
        /\ plain \in IF op = "modifyRestaurantMenu" THEN BOOLEAN ELSE {TRUE}
        /\ Arrive(q, [op |-> op, id |-> id, names |-> names, plain |-> plain])
  BY DEF Request
<1>2. id \in IDs BY <1>1 DEF IDs, Existing
<1>3. names \subseteq Infos
  <2>1. CASE op = "getRestaurantInfoByName"
    <3>1. table[id] \in Document BY <1>1, <2>1 DEF Existing, TypeOK
    <3> QED BY <1>1, <2>1, <3>1 DEF Document
  <2>2. CASE op # "getRestaurantInfoByName" BY <1>1, <2>2
  <2> QED BY <2>1, <2>2
<1>4. plain \in BOOLEAN BY <1>1
<1>5. op = "modifyRestaurantMenu" => table[id] # Null BY <1>1 DEF Existing
<1> QED BY <1>1, <1>2, <1>3, <1>4, <1>5

-----------------------------------------------------------------------------
(* The invariant.                                                           *)

\* What has ended has ended for good, and an ID once given is never given again.
LEMMA EndsStay ==
    ASSUME TypeOK, [Next]_vars
    PROVE  /\ \A p \in Requests : pc[p] \in Ends => pc'[p] \in Ends
           /\ Unborn' \subseteq Unborn
<1>1. /\ \A p \in Requests : pc[p] \in Ends => pc'[p] \in Ends
      /\ restarts' = restarts \/ restarts' = restarts + 1
  <2>0. pc \in [Requests -> {"idle"} \cup Steps \cup Ends] BY DEF TypeOK
  <2>1. ASSUME NEW q \in Requests, Request(q)
        PROVE  restarts' = restarts /\ pc[q] = "idle" /\ \E to : pc' = [pc EXCEPT ![q] = to]
    <3>1. PICK a : Arrive(q, a) BY <2>1 DEF Request
    <3> QED BY <3>1 DEF Arrive
  <2>2. ASSUME NEW q \in Requests, CopiesMenu(q) \/ ReadBatch(q)
        PROVE  /\ restarts' = restarts /\ pc[q] \in Steps
               /\ \E to : pc' = [pc EXCEPT ![q] = to]
    BY <2>2 DEF CopiesMenu, ReadBatch, Steps
  <2>3. ASSUME NEW q \in Requests, NEW a, EndsCall(q, a)
        PROVE  /\ restarts' = restarts /\ \A p \in Requests : pc[p] \in Ends => pc'[p] \in Ends
    BY <2>3, EndOfCall
  <2>4. CASE Restart
    BY <2>0, <2>4 DEF Restart, Serving, Steps, Ends
  <2>5. CASE UNCHANGED vars BY <2>5 DEF vars
  <2> QED BY <2>0, <2>1, <2>2, <2>3, <2>4, <2>5, StepKinds DEF Ends, Steps
<1>2. restarts' + 1 .. MaxFaults \subseteq restarts + 1 .. MaxFaults
  BY <1>1, RestaurantAssumption DEF TypeOK
<1> QED BY <1>1, <1>2 DEF Unborn

LEMMA UnbornIs ==
    ASSUME TypeOK
    PROVE  /\ Unborn \subseteq IDs
           /\ \A q \in Requests : q \in Unborn <=> pc[q] \notin Ends
           /\ \A q \in Requests : q \notin Names \X (restarts + 1 .. MaxFaults)
           /\ restarts < MaxFaults => Names \X {restarts + 1} \subseteq Unborn
<1>1. restarts + 1 .. MaxFaults \subseteq 0 .. MaxFaults /\ restarts \in Nat
  BY RestaurantAssumption DEF TypeOK
<1>2. restarts < MaxFaults => restarts + 1 \in restarts + 1 .. MaxFaults
  BY <1>1, RestaurantAssumption
<1>3. Names \X (restarts + 1 .. MaxFaults) \subseteq Names \X (0 .. MaxFaults) BY <1>1
<1>4. \A q \in Requests : q \notin Names \X (restarts + 1 .. MaxFaults)
  BY <1>3, RestaurantAssumption
<1> QED BY <1>2, <1>3, <1>4 DEF Unborn, IDs

LEMMA RestartFills ==
    ASSUME TypeOK, Restart, NEW id \in IDs
    PROVE  /\ id \in Names \X {restarts + 1} => table'[id] = NewDocument(id[1])
           /\ id \notin Names \X {restarts + 1} => table'[id] = table[id]
           /\ Names \X {restarts + 1} \subseteq Unborn
           /\ id \in Unborn' => id \notin Names \X {restarts + 1}
<1>1. /\ restarts' = restarts + 1 /\ restarts < MaxFaults /\ restarts \in Nat
      /\ table' = Filled(table, restarts + 1)
  BY RestaurantAssumption DEF Restart, TypeOK
<1>2. Names \X {restarts + 1} \subseteq Unborn BY <1>1, UnbornIs
<1>3. ASSUME id \in Unborn' PROVE id \notin Names \X {restarts + 1}
  <2>1. CASE id \in Requests
    <3>1. restarts + 1 \in 0 .. MaxFaults BY <1>1, RestaurantAssumption
    <3>2. Names \X {restarts + 1} \subseteq Names \X (0 .. MaxFaults) BY <3>1
    <3> QED BY <2>1, <3>2, RestaurantAssumption
  <2>2. CASE id \in Names \X (restarts' + 1 .. MaxFaults)
    <3>1. restarts + 1 \notin restarts' + 1 .. MaxFaults BY <1>1
    <3> QED BY <2>2, <3>1
  <2> QED BY <1>3, <2>1, <2>2 DEF Unborn
<1> QED BY <1>1, <1>2, <1>3 DEF Filled

LEMMA FreshStep == TypeOK /\ IDsAreFresh /\ [Next]_vars => IDsAreFresh'
<1> SUFFICES ASSUME TypeOK, IDsAreFresh, [Next]_vars PROVE IDsAreFresh' OBVIOUS
<1>0. Unborn' \subseteq Unborn /\ Unborn \subseteq IDs BY EndsStay, UnbornIs
<1>1. ASSUME NEW id \in Unborn' PROVE table'[id] = Null
  <2>0. id \in Unborn /\ id \in IDs /\ table[id] = Null BY <1>0, <1>1 DEF IDsAreFresh
  <2>1. CASE table' = table BY <2>0, <2>1
  <2>2. ASSUME NEW q \in Requests, NEW a, EndsCall(q, a), Writes(q), table' = Written(q)
        PROVE  table'[id] = Null
    <3>1. table'[id] # Null => id = q BY <2>0, <2>2, WrittenCreates
    <3>2. pc'[q] \in Ends BY <2>2, EndOfCall
    <3>3. restarts' = restarts /\ q \notin Names \X (restarts + 1 .. MaxFaults)
      BY <2>2, EndOfCall, UnbornIs
    <3>4. q \notin Unborn' BY <3>2, <3>3 DEF Unborn
    <3> QED BY <1>1, <3>1, <3>4
  <2>3. CASE Restart BY <1>1, <2>0, <2>3, RestartFills
  <2> QED BY <2>1, <2>2, <2>3, StepOfTable
<1>2. ASSUME NEW q \in Requests, ChangesMenu(q)' PROVE args'[q].id \notin Unborn'
  <2>1. CASE args'[q] = args[q] BY <1>0, <1>2, <2>1 DEF IDsAreFresh, ChangesMenu
  <2>2. ASSUME NEW p \in Requests, Request(p), args'[q] # args[q]
        PROVE  args'[q].id \notin Unborn'
    <3>1. PICK a \in [op : Operations, id : IDs, names : SUBSET Infos, plain : BOOLEAN] :
            /\ Arrive(p, a)
            /\ a.op = "modifyRestaurantMenu" => table[a.id] # Null
      BY <2>2, ArriveIs
    <3>2. args'[q] = a BY <2>2, <3>1 DEF Arrive, TypeOK
    <3>3. table[a.id] # Null BY <1>2, <3>1, <3>2 DEF ChangesMenu
    <3> QED BY <1>0, <3>2, <3>3 DEF IDsAreFresh
  <2>3. (\E p \in Requests : Request(p)) \/ args' = args
    BY StepKinds, EndOfCall DEF CopiesMenu, ReadBatch, Restart, vars
  <2> QED BY <2>1, <2>2, <2>3
<1> QED BY <1>1, <1>2 DEF IDsAreFresh

LEMMA OnlyEndedStays ==
    ASSUME TypeOK, [Next]_vars, NEW dishes, OnlyEnded(dishes)
    PROVE  OnlyEnded(dishes)'
BY EndsStay DEF OnlyEnded

\* The menus after a step, and the copies, are those before, but for what a call that ends
\* writes, a menu change copies, and the file brings.
LEMMA EndedStep == TypeOK /\ DishesHaveEnded /\ [Next]_vars => DishesHaveEnded'
<1> SUFFICES ASSUME TypeOK, DishesHaveEnded, [Next]_vars PROVE DishesHaveEnded' OBVIOUS
<1>1. OnlyEnded(<<AcquaLiscia>>)'
  <2>1. \A i \in DOMAIN <<AcquaLiscia>> : <<AcquaLiscia>>[i] = AcquaLiscia OBVIOUS
  <2> QED BY <2>1, RestaurantAssumption DEF OnlyEnded
<1>2. ASSUME NEW id \in IDs, table[id] # Null PROVE OnlyEnded(table[id].menu)
  BY <1>2 DEF DishesHaveEnded, Existing
<1>3. ASSUME NEW id \in IDs, NEW document, document = table'[id], document # Null
      PROVE  OnlyEnded(document.menu)'
  <2>1. ASSUME table'[id] = table[id] PROVE OnlyEnded(document.menu)'
    <3>1. OnlyEnded(document.menu) BY <1>2, <1>3, <2>1
    <3> QED BY <3>1, OnlyEndedStays
  <2>2. ASSUME NEW q \in Requests, NEW a, EndsCall(q, a), Writes(q), table' = Written(q)
        PROVE  OnlyEnded(document.menu)'
    <3>1. document = Written(q)[id] BY <1>3, <2>2
    <3>2. CASE document.menu = <<AcquaLiscia>> BY <1>1, <3>2
    <3>3. CASE table[id] # Null /\ document.menu = table[id].menu
      <4>1. OnlyEnded(document.menu) BY <1>2, <3>3
      <4> QED BY <4>1, OnlyEndedStays
    <3>4. CASE document.menu = Append(menu[q], q) /\ pc[q] = "copied"
      <4>1. PICK old \in Seq(Dishes) : old = menu[q] BY DEF TypeOK
      <4>2. OnlyEnded(old)' BY <3>4, <4>1, OnlyEndedStays DEF DishesHaveEnded
      <4>3. pc'[q] \in Ends BY <2>2, EndOfCall
      <4>4. PICK new : new = Append(old, q) OBVIOUS
      <4>5. \A i \in DOMAIN new : new[i] = q \/ (i \in DOMAIN old /\ new[i] = old[i])
        BY <4>4 DEF Dishes
      <4>6. OnlyEnded(new)' BY <4>2, <4>3, <4>5 DEF OnlyEnded
      <4> QED BY <3>4, <4>1, <4>4, <4>6
    <3> QED BY <1>3, <2>2, <3>1, <3>2, <3>3, <3>4, WrittenMenus
  <2>3. CASE Restart
    <3>1. CASE id \in Names \X {restarts + 1}
      <4>1. document = NewDocument(id[1]) BY <1>3, <2>3, <3>1, RestartFills
      <4>2. document.menu = <<AcquaLiscia>> BY <4>1 DEF NewDocument
      <4> QED BY <1>1, <4>2
    <3>2. CASE id \notin Names \X {restarts + 1} BY <2>1, <2>3, <3>2, RestartFills
    <3> QED BY <3>1, <3>2
  <2> QED BY <2>1, <2>2, <2>3, StepOfTable
<1>4. ASSUME NEW p \in Requests, NEW dishes, dishes = menu'[p], pc'[p] = "copied"
      PROVE  OnlyEnded(dishes)'
  <2>0. pc \in [Requests -> {"idle"} \cup Steps \cup Ends] /\ menu \in [Requests -> Seq(Dishes)]
    BY DEF TypeOK
  <2>1. ASSUME pc[p] = "copied", menu'[p] = menu[p] PROVE OnlyEnded(dishes)'
    <3>1. OnlyEnded(dishes) BY <1>4, <2>1 DEF DishesHaveEnded
    <3> QED BY <3>1, OnlyEndedStays
  <2>2. ASSUME NEW q \in Requests, Request(q) PROVE OnlyEnded(dishes)'
    <3>1. PICK a : Arrive(q, a) BY <2>2 DEF Request
    <3> QED BY <1>4, <2>0, <2>1, <3>1 DEF Arrive
  <2>3. ASSUME NEW q \in Requests, CopiesMenu(q) PROVE OnlyEnded(dishes)'
    <3>1. CASE p = q
      <4>1. args[q].id \in IDs /\ table[args[q].id] # Null
        BY <2>3 DEF CopiesMenu, TypeOK, Arguments, NoArgs
      <4>2. dishes = table[args[q].id].menu BY <1>4, <2>0, <2>3, <3>1 DEF CopiesMenu
      <4>3. OnlyEnded(dishes) BY <1>2, <4>1, <4>2
      <4> QED BY <4>3, OnlyEndedStays
    <3>2. CASE p # q BY <1>4, <2>0, <2>1, <2>3, <3>2 DEF CopiesMenu
    <3> QED BY <3>1, <3>2
  <2>4. ASSUME NEW q \in Requests, ReadBatch(q) PROVE OnlyEnded(dishes)'
    BY <1>4, <2>0, <2>1, <2>4 DEF ReadBatch
  <2>5. ASSUME NEW q \in Requests, NEW a, EndsCall(q, a) PROVE OnlyEnded(dishes)'
    <3>1. p # q BY <1>4, <2>5, EndOfCall DEF Ends
    <3> QED BY <1>4, <2>1, <2>5, <3>1, EndOfCall
  <2>6. ~Restart BY <1>4 DEF Restart, End, Serving, Steps
  <2>7. CASE UNCHANGED vars BY <1>4, <2>1, <2>7 DEF vars
  <2> QED BY <2>2, <2>3, <2>4, <2>5, <2>6, <2>7, StepKinds
<1> QED BY <1>3, <1>4 DEF DishesHaveEnded, Existing, OnlyEnded

LEMMA OverlapsStep == TypeOK /\ OverlapsAreKnown /\ [Next]_vars => OverlapsAreKnown'
<1> SUFFICES ASSUME TypeOK, OverlapsAreKnown, [Next]_vars PROVE OverlapsAreKnown' OBVIOUS
<1>0. /\ pc \in [Requests -> {"idle"} \cup Steps \cup Ends]
      /\ args \in [Requests -> Arguments \cup {NoArgs}]
  BY DEF TypeOK
<1>1. ASSUME NEW q \in Requests, Request(q) PROVE OverlapsAreKnown'
  <2>1. PICK a : Arrive(q, a) BY <1>1 DEF Request
  <2>2. /\ pc' = [pc EXCEPT ![q] = "called"] /\ args' = [args EXCEPT ![q] = a]
        /\ pc[q] = "idle"
    BY <2>1 DEF Arrive
  <2>3. \A p \in Serving' : p = q \/ (p \in Serving /\ args'[p] = args[p])
    BY <1>0, <2>2 DEF Serving
  <2>4. args'[q] = a BY <1>0, <2>2
  <2>5. overlapped \subseteq overlapped' BY <2>1 DEF Arrive
  <2>6. ASSUME NEW p \in Serving, ChangesMenu(p), ChangesMenu(q)', args[p].id = a.id
        PROVE  p \in overlapped' /\ q \in overlapped'
    <3>1. p \in Changing(a.id) BY <2>6 DEF Changing, ChangesMenu
    <3>2. a.op = "modifyRestaurantMenu" BY <2>4, <2>6 DEF ChangesMenu
    <3> QED BY <2>1, <3>1, <3>2 DEF Arrive
  <2> QED BY <2>3, <2>4, <2>5, <2>6 DEF OverlapsAreKnown, ChangesMenu
<1>2. ASSUME Serving' \subseteq Serving, args' = args, overlapped' = overlapped
      PROVE  OverlapsAreKnown'
  BY <1>2 DEF OverlapsAreKnown, ChangesMenu
<1>3. ASSUME NEW q \in Requests, CopiesMenu(q) \/ ReadBatch(q) PROVE OverlapsAreKnown'
  <2>1. /\ pc[q] \in Steps /\ args' = args /\ overlapped' = overlapped
        /\ \E to : pc' = [pc EXCEPT ![q] = to]
    BY <1>3 DEF CopiesMenu, ReadBatch, Steps
  <2>2. Serving' \subseteq Serving BY <1>0, <2>1 DEF Serving
  <2> QED BY <1>2, <2>1, <2>2
<1>4. ASSUME NEW q \in Requests, NEW a, EndsCall(q, a) PROVE OverlapsAreKnown'
  <2>1. Serving' \subseteq Serving BY <1>4, EndOfCall DEF Serving
  <2> QED BY <1>2, <1>4, <2>1, EndOfCall
<1>5. CASE Restart
  <2>1. Serving' \subseteq Serving BY <1>0, <1>5 DEF Restart, End, Serving, Steps
  <2> QED BY <1>2, <1>5, <2>1 DEF Restart
<1>6. CASE UNCHANGED vars BY <1>2, <1>6 DEF vars, Serving
<1> QED BY <1>1, <1>3, <1>4, <1>5, <1>6, StepKinds

\* What has been acknowledged stays: the other calls leave it, or write back a copy with it.
LEMMA KeptStays ==
    ASSUME TypeOK, IDsAreFresh, [Next]_vars,
           NEW q \in Requests, pc[q] \in Ends, ChangesMenu(q), DishIsKept(q), args'[q] = args[q]
    PROVE  DishIsKept(q)'
<1>0. /\ pc \in [Requests -> {"idle"} \cup Steps \cup Ends] /\ menu \in [Requests -> Seq(Dishes)]
      /\ args \in [Requests -> Arguments \cup {NoArgs}]
  BY DEF TypeOK
<1> PICK id : id = args[q].id OBVIOUS
<1>1. id \in IDs /\ id \notin Unborn
  BY <1>0 DEF IDsAreFresh, ChangesMenu, Arguments, NoArgs
<1>2. /\ table[id] # Null => Once(q, table[id].menu)
      /\ \A p \in Requests : pc[p] = "copied" /\ args[p].id = id => Once(q, menu[p])
  BY DEF DishIsKept
<1>3. ASSUME NEW document, document = table'[id], document # Null
      PROVE  Once(q, document.menu)
  <2>1. CASE table'[id] = table[id] BY <1>2, <1>3, <2>1
  <2>2. ASSUME NEW r \in Requests, NEW a, EndsCall(r, a), Writes(r), table' = Written(r)
        PROVE  Once(q, document.menu)
    <3>1. document = Written(r)[id] BY <1>3, <2>2
    <3>2. pc[r] \in Steps /\ pc[r] \notin Ends BY <2>2, EndOfCall DEF Steps, Ends
    <3>3. id # r BY <1>1, <3>2, UnbornIs
    <3>4. CASE table[id] # Null /\ document.menu = table[id].menu BY <1>2, <3>4
    <3>5. CASE /\ document.menu = Append(menu[r], r) /\ pc[r] = "copied" /\ id = args[r].id
      <4>1. PICK old \in Seq(Dishes) : old = menu[r] BY <1>0
      <4>2. Once(q, old) /\ r # q BY <1>2, <3>2, <3>5, <4>1
      <4> QED BY <3>5, <4>1, <4>2, OnceAppended
    <3> QED BY <1>1, <1>3, <2>2, <3>1, <3>3, <3>4, <3>5, WrittenMenus
  <2>3. CASE Restart BY <1>1, <2>1, <2>3, RestartFills
  <2> QED BY <2>1, <2>2, <2>3, StepOfTable
<1>4. ASSUME NEW p \in Requests, pc'[p] = "copied", args'[p].id = id PROVE Once(q, menu'[p])
  <2>1. ASSUME pc[p] = "copied", menu'[p] = menu[p], args'[p] = args[p]
        PROVE  Once(q, menu'[p])
    BY <1>2, <1>4, <2>1
  <2>2. ASSUME NEW r \in Requests, Request(r) PROVE Once(q, menu'[p])
    <3>1. PICK a : Arrive(r, a) BY <2>2 DEF Request
    <3> QED BY <1>0, <1>4, <2>1, <3>1 DEF Arrive
  <2>3. ASSUME NEW r \in Requests, CopiesMenu(r) PROVE Once(q, menu'[p])
    <3>1. CASE p = r
      <4>1. args' = args /\ table[args[r].id] # Null /\ menu'[r] = table[args[r].id].menu
        BY <1>0, <2>3 DEF CopiesMenu
      <4>2. args[r].id = id BY <1>4, <3>1, <4>1
      <4> QED BY <1>2, <3>1, <4>1, <4>2
    <3>2. CASE p # r BY <1>0, <1>4, <2>1, <2>3, <3>2 DEF CopiesMenu
    <3> QED BY <3>1, <3>2
  <2>4. ASSUME NEW r \in Requests, ReadBatch(r) PROVE Once(q, menu'[p])
    BY <1>0, <1>4, <2>1, <2>4 DEF ReadBatch
  <2>5. ASSUME NEW r \in Requests, NEW a, EndsCall(r, a) PROVE Once(q, menu'[p])
    <3>1. p # r BY <1>4, <2>5, EndOfCall DEF Ends
    <3> QED BY <1>4, <2>1, <2>5, <3>1, EndOfCall
  <2>6. ~Restart BY <1>4 DEF Restart, End, Serving, Steps
  <2>7. CASE UNCHANGED vars BY <1>4, <2>1, <2>7 DEF vars
  <2> QED BY <2>2, <2>3, <2>4, <2>5, <2>6, <2>7, StepKinds
<1> QED BY <1>3, <1>4 DEF DishIsKept

\* The step that acknowledges a dish puts it on the menu, once, and no other change of the
\* restaurant is being served.
LEMMA KeptFromNowOn ==
    ASSUME TypeOK, DishesHaveEnded, OverlapsAreKnown,
           NEW q \in Requests, EndsCall(q, "ok"), ChangesMenu(q), q \notin overlapped
    PROVE  DishIsKept(q)'
<1>0. /\ pc \in [Requests -> {"idle"} \cup Steps \cup Ends] /\ menu \in [Requests -> Seq(Dishes)]
      /\ args \in [Requests -> Arguments \cup {NoArgs}]
  BY DEF TypeOK
<1>1. /\ pc[q] = "copied" /\ table' = Written(q) /\ Writes(q) /\ q \in Serving
      /\ args' = args /\ pc'[q] \in Ends
      /\ \A p \in Requests : p # q => pc'[p] = pc[p]
  BY EndOfCall DEF EndsCall, Writes
<1> PICK id : id = args[q].id OBVIOUS
<1>2. id \in IDs BY <1>0, <1>1 DEF ChangesMenu, Arguments, NoArgs
<1>3. ASSUME NEW document, document = table'[id], document # Null
      PROVE  Once(q, document.menu)
  <2>1. PICK old \in Seq(Dishes) : old = menu[q] BY <1>0
  <2>2. document.menu = Append(old, q)
    <3>1. args[q].op # "addRestaurant" BY DEF ChangesMenu
    <3> QED BY <1>1, <1>2, <1>3, <2>1, <3>1, WrittenMenus
  <2>3. \A i \in DOMAIN old : old[i] # q
    <3>1. OnlyEnded(old) BY <1>1, <2>1 DEF DishesHaveEnded
    <3>2. pc[q] \notin Ends BY <1>1 DEF Ends
    <3> QED BY <3>1, <3>2 DEF OnlyEnded
  <2> QED BY <2>2, <2>3, OnceAppended
<1>4. ASSUME NEW p \in Requests, pc'[p] = "copied", args'[p].id = id PROVE FALSE
  <2>1. p # q BY <1>1, <1>4 DEF Ends
  <2>2. pc[p] = "copied" /\ args[p].id = args[q].id BY <1>1, <1>4, <2>1
  <2>3. p \in Serving /\ ChangesMenu(p) BY <2>2 DEF Serving, Steps, ChangesMenu, TypeOK
  <2> QED BY <1>1, <2>1, <2>2, <2>3 DEF OverlapsAreKnown
<1> QED BY <1>1, <1>3, <1>4 DEF DishIsKept

LEMMA KeptStep == TypeOK /\ DishesInv /\ [Next]_vars => DishesAreKept'
<1> SUFFICES ASSUME TypeOK, DishesInv, [Next]_vars,
                    NEW q \in Requests, Acknowledged(q)'
             PROVE  DishIsKept(q)'
  BY DEF DishesAreKept
<1>0. /\ IDsAreFresh /\ DishesHaveEnded /\ OverlapsAreKnown
      /\ \A p \in Requests : Acknowledged(p) => DishIsKept(p)
      /\ pc \in [Requests -> {"idle"} \cup Steps \cup Ends]
      /\ answer \in [Requests -> {"none", "ok", "error"}]
  BY DEF DishesInv, DishesAreKept, TypeOK
<1>1. ASSUME Acknowledged(q), args'[q] = args[q] PROVE DishIsKept(q)'
  BY <1>0, <1>1, KeptStays DEF Acknowledged, Ends
<1>2. ASSUME pc[q] = pc'[q], answer[q] = answer'[q], args'[q] = args[q],
             overlapped \subseteq overlapped'
      PROVE  DishIsKept(q)'
  BY <1>1, <1>2 DEF Acknowledged, ChangesMenu
<1>3. ASSUME NEW r \in Requests, Request(r) PROVE DishIsKept(q)'
  <2>1. PICK a : Arrive(r, a) BY <1>3 DEF Request
  <2>2. /\ pc' = [pc EXCEPT ![r] = "called"] /\ args' = [args EXCEPT ![r] = a]
        /\ answer' = answer /\ overlapped \subseteq overlapped'
    BY <2>1 DEF Arrive
  <2>3. q # r BY <1>0, <2>2 DEF Acknowledged
  <2> QED BY <1>0, <1>2, <2>2, <2>3 DEF TypeOK
<1>4. ASSUME NEW r \in Requests, CopiesMenu(r) PROVE DishIsKept(q)'
  <2>1. q # r BY <1>0, <1>4 DEF CopiesMenu, Acknowledged
  <2> QED BY <1>0, <1>2, <1>4, <2>1 DEF CopiesMenu
<1>5. ASSUME NEW r \in Requests, ReadBatch(r) PROVE DishIsKept(q)'
  <2>1. q # r BY <1>0, <1>5 DEF ReadBatch, Acknowledged
  <2> QED BY <1>0, <1>2, <1>5, <2>1 DEF ReadBatch
<1>6. ASSUME NEW r \in Requests, NEW a, EndsCall(r, a) PROVE DishIsKept(q)'
  <2>1. CASE q # r BY <1>2, <1>6, <2>1, EndOfCall
  <2>2. CASE q = r
    <3>1. args' = args /\ overlapped' = overlapped /\ answer'[q] = a BY <1>6, <2>2, EndOfCall
    <3>2. a = "ok" /\ ChangesMenu(q) /\ q \notin overlapped
      BY <3>1 DEF Acknowledged, ChangesMenu
    <3> QED BY <1>0, <1>6, <2>2, <3>2, KeptFromNowOn
  <2> QED BY <2>1, <2>2
<1>7. CASE Restart
  <2>1. q \notin Serving BY <1>0, <1>7 DEF Restart, Acknowledged
  <2> QED BY <1>0, <1>2, <1>7, <2>1 DEF Restart
<1>8. CASE UNCHANGED vars BY <1>2, <1>8 DEF vars
<1> QED BY <1>3, <1>4, <1>5, <1>6, <1>7, <1>8, StepKinds

LEMMA DishesInitially == Init => DishesInv
<1> SUFFICES ASSUME Init PROVE DishesInv OBVIOUS
<1>1. \A q \in Requests : pc[q] = "idle" /\ args[q] = NoArgs BY DEF Init
<1>2. \A q \in Requests : ~ChangesMenu(q) BY <1>1 DEF ChangesMenu, NoArgs
<1>3. ASSUME NEW id \in Unborn PROVE table[id] = Null
  <2>1. TypeOK BY TypesInitially
  <2>2. id \in IDs BY <2>1, UnbornIs
  <2>3. id \notin Names \X {0}
    <3>1. CASE id \in Requests
      <4>1. 0 \in 0 .. MaxFaults BY RestaurantAssumption
      <4>2. Names \X {0} \subseteq Names \X (0 .. MaxFaults) BY <4>1
      <4> QED BY <3>1, <4>2, RestaurantAssumption
    <3>2. CASE id \in Names \X (restarts + 1 .. MaxFaults)
      <4>1. 0 \notin restarts + 1 .. MaxFaults BY DEF Init
      <4> QED BY <3>2, <4>1
    <3> QED BY <1>3, <3>1, <3>2 DEF Unborn
  <2> QED BY <2>2, <2>3 DEF Init, Filled
<1>4. ASSUME NEW id \in Existing PROVE OnlyEnded(table[id].menu)
  <2>1. id \in IDs /\ table[id] # Null BY DEF Existing
  <2>2. table[id] = NewDocument(id[1]) BY <2>1 DEF Init, Filled
  <2>3. PICK dishes : dishes = table[id].menu OBVIOUS
  <2>4. dishes = <<AcquaLiscia>> BY <2>2, <2>3 DEF NewDocument
  <2>5. \A i \in DOMAIN dishes : dishes[i] = AcquaLiscia BY <2>4
  <2> QED BY <2>3, <2>5, RestaurantAssumption DEF OnlyEnded
<1>5. Serving = {} /\ \A q \in Requests : pc[q] # "copied" /\ ~Acknowledged(q)
  BY <1>1 DEF Serving, Steps, Acknowledged
<1> QED BY <1>2, <1>3, <1>4, <1>5
    DEF DishesInv, IDsAreFresh, DishesHaveEnded, OverlapsAreKnown, DishesAreKept

LEMMA KeptMeansStay == DishesAreKept => AcknowledgedDishesStay
<1> SUFFICES ASSUME DishesAreKept, NEW q \in Requests, Acknowledged(q),
                    table[args[q].id] # Null
             PROVE  Cardinality({i \in DOMAIN table[args[q].id].menu :
                                   table[args[q].id].menu[i] = q}) = 1
  BY DEF AcknowledgedDishesStay, Acknowledged, ChangesMenu
<1>1. PICK dishes : dishes = table[args[q].id].menu OBVIOUS
<1>2. PICK i \in DOMAIN dishes : \A j \in DOMAIN dishes : dishes[j] = q <=> j = i
  BY <1>1 DEF DishesAreKept, DishIsKept, Once
<1>3. {j \in DOMAIN dishes : dishes[j] = q} = {i} BY <1>2
<1> QED BY <1>1, <1>3, FS_Singleton

-----------------------------------------------------------------------------
\* A dish that was acknowledged, and that no other menu change of its restaurant overlapped,
\* is on the menu once as long as the restaurant is there: whatever later additions,
\* modifications, failures and restarts overlap among themselves.
THEOREM DishesCorrect == Spec => []AcknowledgedDishesStay
<1>1. TypeOK /\ DishesInv /\ [Next]_vars => DishesInv'
  BY FreshStep, EndedStep, OverlapsStep, KeptStep DEF DishesInv
<1>2. DishesInv => AcknowledgedDishesStay BY KeptMeansStay DEF DishesInv
<1> QED BY <1>1, <1>2, RestaurantsTypeCorrect, DishesInitially, PTL DEF Spec
=============================================================================
