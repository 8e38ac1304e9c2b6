------------------------- MODULE RestaurantService -------------------------
(***************************************************************************)
(* The restaurant service: gRPC threads that insert, change, delete and    *)
(* read the documents of a MongoDB collection, and the frontend's pages    *)
(* that list them.  An update sets fields of one document atomically; a    *)
(* menu is changed by reading it, adding to the copy, and setting it.  At  *)
(* every start the service inserts the restaurants of its file anew.       *)
(*                                                                         *)
(* The name, city, address and tags a request sends are set together, and  *)
(* named by the request; so is the dish it adds to a menu.  A restaurant   *)
(* that is inserted gets a fresh ObjectId: <<n, k>> is that of the file's  *)
(* restaurant n inserted at start k, and q that of request q's.            *)
(***************************************************************************)
EXTENDS Integers, Sequences, FiniteSets

CONSTANTS
    Names,          \* the restaurants of the file, by name
    Requests,       \* the gRPC calls served
    Operations,     \* the operations they may ask for
    Null,           \* no document
    AcquaLiscia,    \* the dish a restaurant is inserted with
    MaxFaults       \* bound on the failures of the database and restarts of the service

Lists == {"getAllRestaurants", "getRestaurantInfoByName"}
Lookups == {"getRestaurantInfoById", "getRestaurantMenu"}
Changes == {"deleteRestaurant", "modifyRestaurant", "modifyRestaurantMenu"}

ASSUME RestaurantAssumption ==
    /\ Operations \subseteq Lists \cup Lookups \cup Changes \cup {"addRestaurant"}
    /\ AcquaLiscia \notin Requests
    /\ MaxFaults \in Nat
    /\ Requests \cap (Names \X (0 .. MaxFaults)) = {}

VARIABLES
    table,      \* table[id]: the document with that ID, Null if there is none
    pc,         \* pc[q]: how far the thread of request q is, or the page it answers
    args,       \* args[q]: what was asked
    menu,       \* menu[q]: the menu it read to add to
    found,      \* found[q]: the documents its cursor has returned
    answer,     \* answer[q]: what it answered
    overlapped, \* the menu changes that overlapped another one of their restaurant
    restarts,   \* the restarts so far
    failures    \* the failures so far

vars == <<table, pc, args, menu, found, answer, overlapped, restarts, failures>>

IDs == (Names \X (0 .. MaxFaults)) \cup Requests
Dishes == Requests \cup {AcquaLiscia}
Infos == Names \cup Requests
Document == [info : Infos, menu : Seq(Dishes)]

ASSUME NoDocumentAssumption == Null \notin Document

\* names: the names a list matches.  plain: whether
\* the dish to be added, put between the names of its fields without quotes, is JSON.
Arguments == [op : Operations, id : IDs, names : SUBSET Infos, plain : BOOLEAN]
NoArgs == [op |-> "none"]

Steps == {"called", "copied", "reading"}
Ends == {"done", "spinning"}

TypeOK ==
    /\ table \in [IDs -> Document \cup {Null}]
    /\ pc \in [Requests -> {"idle"} \cup Steps \cup Ends]
    /\ args \in [Requests -> Arguments \cup {NoArgs}]
    /\ menu \in [Requests -> Seq(Dishes)]
    /\ found \in [Requests -> SUBSET (IDs \X Document)]
    /\ answer \in [Requests -> {"none", "ok", "error"}]
    /\ overlapped \subseteq Requests
    /\ restarts \in 0 .. MaxFaults
    /\ failures \in 0 .. MaxFaults
    /\ restarts + failures <= MaxFaults
    /\ \A q \in Requests : /\ pc[q] = "idle" <=> args[q] = NoArgs
                           /\ pc[q] \in Ends <=> answer[q] # "none"
                           /\ pc[q] = "reading" => args[q].op \in Lists
                           /\ pc[q] = "copied" => args[q].op = "modifyRestaurantMenu"

-----------------------------------------------------------------------------
Existing == {id \in IDs : table[id] # Null}
Serving == {q \in Requests : pc[q] \in Steps}

\* addRestaurant, whose caller always passes no menu.
NewDocument(info) == [info |-> info, menu |-> <<AcquaLiscia>>]

\* fillDB, at start k.
Filled(rows, k) ==
    [id \in IDs |-> IF id \in Names \X {k} THEN NewDocument(id[1]) ELSE rows[id]]

Init ==
    /\ table = Filled([id \in IDs |-> Null], 0)
    /\ pc = [q \in Requests |-> "idle"]
    /\ args = [q \in Requests |-> NoArgs]
    /\ menu = [q \in Requests |-> <<>>]
    /\ found = [q \in Requests |-> {}]
    /\ answer = [q \in Requests |-> "none"]
    /\ overlapped = {}
    /\ restarts = 0
    /\ failures = 0

-----------------------------------------------------------------------------
\* The menu changes of restaurant id being served.
Changing(id) ==
    {q \in Serving : args[q].op = "modifyRestaurantMenu" /\ args[q].id = id}

Arrive(q, a) ==
    /\ pc[q] = "idle"
    /\ pc' = [pc EXCEPT ![q] = "called"]
    /\ args' = [args EXCEPT ![q] = a]
    /\ overlapped' = IF a.op = "modifyRestaurantMenu" /\ Changing(a.id) # {}
                     THEN overlapped \cup Changing(a.id) \cup {q} ELSE overlapped
    /\ UNCHANGED <<table, menu, found, answer, restarts, failures>>

Request(q) ==
    \E op \in Operations :
        \E id \in IF op \in {"addRestaurant", "getAllRestaurants"} THEN {q} ELSE Existing :
            \E names \in IF op = "getRestaurantInfoByName" THEN {{table[id].info}} ELSE {Infos} :
                \E plain \in IF op = "modifyRestaurantMenu" THEN BOOLEAN ELSE {TRUE} :
                    Arrive(q, [op |-> op, id |-> id, names |-> names, plain |-> plain])

\* An answer, or an error; the thread's variables are gone with it.  Reading a stream of
\* restaurants, the frontend takes any error but io.EOF for a restaurant, appends nil, and
\* reads again, for ever.
End(a, op) == IF a = "error" /\ op \in Lists THEN "spinning" ELSE "done"

AnswerWith(q, a) ==
    /\ pc' = [pc EXCEPT ![q] = End(a, args[q].op)]
    /\ answer' = [answer EXCEPT ![q] = a]
    /\ menu' = [menu EXCEPT ![q] = <<>>]
    /\ found' = [found EXCEPT ![q] = {}]
    /\ UNCHANGED <<args, overlapped, restarts>>

-----------------------------------------------------------------------------
\* What the writes do: an update of no document matches nothing.
Update(id, document) == IF table[id] = Null THEN table ELSE [table EXCEPT ![id] = document]

\* Mutant: an update inserts the document it does not find.
WrittenUpserting(q) ==
    LET id == args[q].id IN
    CASE args[q].op = "addRestaurant"        -> [table EXCEPT ![q] = NewDocument(q)]
      [] args[q].op = "deleteRestaurant"     -> [table EXCEPT ![id] = Null]
      [] args[q].op = "modifyRestaurant"     -> Update(id, [table[id] EXCEPT !.info = q])
      [] args[q].op = "modifyRestaurantMenu" ->
           [table EXCEPT ![id] = [info |-> q, menu |-> Append(menu[q], q)]]

\* Mutant: the menu is set to the dishes that were sent.
WrittenAlone(q) ==
    LET id == args[q].id IN
    CASE args[q].op = "addRestaurant"        -> [table EXCEPT ![q] = NewDocument(q)]
      [] args[q].op = "deleteRestaurant"     -> [table EXCEPT ![id] = Null]
      [] args[q].op = "modifyRestaurant"     -> Update(id, [table[id] EXCEPT !.info = q])
      [] args[q].op = "modifyRestaurantMenu" -> Update(id, [table[id] EXCEPT !.menu = <<q>>])

\* Mutant: a restaurant is modified by replacing its document.
WrittenWhole(q) ==
    LET id == args[q].id IN
    CASE args[q].op = "addRestaurant"        -> [table EXCEPT ![q] = NewDocument(q)]
      [] args[q].op = "deleteRestaurant"     -> [table EXCEPT ![id] = Null]
      [] args[q].op = "modifyRestaurant"     -> Update(id, NewDocument(q))
      [] args[q].op = "modifyRestaurantMenu" ->
           Update(id, [table[id] EXCEPT !.menu = Append(menu[q], q)])

Written(q) ==
    LET id == args[q].id IN
    CASE args[q].op = "addRestaurant"        -> [table EXCEPT ![q] = NewDocument(q)]
      [] args[q].op = "deleteRestaurant"     -> [table EXCEPT ![id] = Null]
      [] args[q].op = "modifyRestaurant"     -> Update(id, [table[id] EXCEPT !.info = q])
      [] args[q].op = "modifyRestaurantMenu" ->
           Update(id, [table[id] EXCEPT !.menu = Append(menu[q], q)])

Writes(q) ==
    \/ pc[q] = "called" /\ args[q].op \in {"addRestaurant", "deleteRestaurant",
                                           "modifyRestaurant"}
    \/ pc[q] = "copied"

\* Whether or not a document was updated, the answer is Ok.
Write(q) ==
    /\ Writes(q)
    /\ table' = Written(q)
    /\ AnswerWith(q, "ok")
    /\ UNCHANGED failures

\* Mutant: a restaurant that is not there is answered for, and its empty menu added to.
ReadMenuOfNobody(q) ==
    /\ pc[q] = "called" /\ args[q].op = "modifyRestaurantMenu"
    /\ LET document == table[args[q].id] IN
         /\ pc' = [pc EXCEPT ![q] = "copied"]
         /\ menu' = [menu EXCEPT ![q] = IF document = Null THEN <<>> ELSE document.menu]
         /\ answer' = [answer EXCEPT ![q] = IF document = Null THEN "error" ELSE @]
    /\ UNCHANGED <<table, args, found, overlapped, restarts, failures>>

\* Without the restaurant its menu is asked of null.
ReadMenu(q) ==
    /\ pc[q] = "called" /\ args[q].op = "modifyRestaurantMenu"
    /\ LET document == table[args[q].id] IN
         IF document = Null
         THEN AnswerWith(q, "error")
         ELSE /\ pc' = [pc EXCEPT ![q] = "copied"]
              /\ menu' = [menu EXCEPT ![q] = document.menu]
              /\ UNCHANGED <<args, found, answer, overlapped, restarts>>
    /\ UNCHANGED <<table, failures>>

\* Mutant: the default dish is written without quotes, too.
ReadableUnquoted(dish) == dish # AcquaLiscia /\ args[dish].plain

\* A dish is stored as text, and parsed when it is read.
Readable(dish) == dish = AcquaLiscia \/ args[dish].plain

MenuReadable(document) == \A i \in DOMAIN document.menu : Readable(document.menu[i])

\* getRestaurantInfoById, and getRestaurantMenu, which takes the texts for objects.
LookUp(q) ==
    /\ pc[q] = "called" /\ args[q].op \in Lookups
    /\ LET document == table[args[q].id] IN
         \E a \in {"ok", "error"} :
            /\ a = "error" <=>
                 \/ document = Null
                 \/ args[q].op = "getRestaurantInfoById" /\ ~MenuReadable(document)
                 \/ args[q].op = "getRestaurantMenu" /\ document.menu # <<>>
            /\ AnswerWith(q, a)
    /\ UNCHANGED <<table, failures>>

\* What the query matches and the cursor has not returned.
Unread(q) ==
    {id \in Existing : table[id].info \in args[q].names /\ \A f \in found[q] : f[1] # id}

Returned(q, ids) == found[q] \cup {<<id, table[id]>> : id \in ids}

\* The cursor returns a batch, and more are to come.
ReadBatch(q) ==
    /\ pc[q] \in {"called", "reading"} /\ args[q].op \in Lists
    /\ pc' = [pc EXCEPT ![q] = "reading"]
    /\ \E ids \in SUBSET Unread(q) \ {{}, Unread(q)} :
           found' = [found EXCEPT ![q] = Returned(q, ids)]
    /\ UNCHANGED <<table, args, menu, answer, overlapped, restarts, failures>>

\* It returns the last batch, and generateResponse sends what was found, up to a dish it
\* cannot parse.
ReadLastBatch(q) ==
    /\ pc[q] \in {"called", "reading"} /\ args[q].op \in Lists
    /\ AnswerWith(q, IF \A f \in Returned(q, Unread(q)) : MenuReadable(f[2])
                     THEN "ok" ELSE "error")
    /\ UNCHANGED <<table, failures>>

\* A failure of the database, or a name that is no regular expression, ends the call with
\* an error: no Mongo exception is a StatusRuntimeException.  A write may have happened.
CallFails(q) ==
    /\ q \in Serving
    /\ restarts + failures < MaxFaults
    /\ failures' = failures + 1
    /\ UNCHANGED table \/ (Writes(q) /\ table' = Written(q))
    /\ AnswerWith(q, "error")

\* The service dies and is started again.
Restart ==
    /\ restarts + failures < MaxFaults
    /\ restarts' = restarts + 1
    /\ table' = Filled(table, restarts + 1)
    /\ pc' = [q \in Requests |-> IF q \in Serving THEN End("error", args[q].op) ELSE pc[q]]
    /\ answer' = [q \in Requests |-> IF q \in Serving THEN "error" ELSE answer[q]]
    /\ menu' = [q \in Requests |-> <<>>]
    /\ found' = [q \in Requests |-> {}]
    /\ UNCHANGED <<args, overlapped, failures>>

Thread(q) == Write(q) \/ ReadMenu(q) \/ LookUp(q) \/ ReadBatch(q) \/ ReadLastBatch(q)

Next ==
    \/ \E q \in Requests : Request(q) \/ Thread(q) \/ CallFails(q)
    \/ Restart

\* A thread that serves a call goes on.
Fairness == \A q \in Requests : WF_vars(Thread(q))

Spec == Init /\ [][Next]_vars /\ Fairness

-----------------------------------------------------------------------------
\* The page with a restaurant's details prints its first dish without asking whether
\* there is one: whatever overlaps, every menu stored or copied starts with the dish
\* addRestaurant put there.
MenusKeepTheirFirstDish ==
    /\ \A id \in Existing : table[id].menu # <<>> /\ table[id].menu[1] = AcquaLiscia
    /\ \A q \in Requests : pc[q] = "copied" => menu[q] # <<>> /\ menu[q][1] = AcquaLiscia

\* A dish whose addition was answered Ok is on the menu once, as long as the restaurant is
\* there, if no other menu change of the restaurant overlapped it: neither a later
\* addition nor a modification of the restaurant loses it.
AcknowledgedDishesStay ==
    \A q \in Requests \ overlapped :
        pc[q] = "done" /\ answer[q] = "ok" /\ args[q].op = "modifyRestaurantMenu" =>
            LET document == table[args[q].id] IN
            document # Null =>
                Cardinality({i \in DOMAIN document.menu : document.menu[i] = q}) = 1

\* A change in flight does not bring back a restaurant deleted meanwhile: a document comes
\* into being only when its own request inserts it, or the file is loaded.
DeletedStaysDeleted ==
    [][\A id \in IDs : table[id] = Null /\ table'[id] # Null =>
           \/ restarts' # restarts
           \/ id \in Requests /\ pc[id] = "called" /\ pc'[id] = "done"]_vars

\* A page that lists restaurants ends, unless the database or the service fails, or a
\* restaurant has a dish that cannot be read.
PagesEnd ==
    \A q \in Requests :
        pc[q] \in Steps ~>
            \/ pc[q] = "done"
            \/ failures + restarts > 0
            \/ \E p \in Requests : args[p] # NoArgs /\ ~args[p].plain
=============================================================================
