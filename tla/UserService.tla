---------------------------- MODULE UserService ----------------------------
(***************************************************************************)
(* The user service: gRPC threads that find, change, save and delete the   *)
(* rows of the users table, all over one static JDBC connection.  Whoever  *)
(* needs the connection opens it if the field is null; finding and         *)
(* deleting close whatever connection the field then refers to, and set    *)
(* the field to null.  A change reads the whole row, changes the copy and  *)
(* writes the whole row back.                                              *)
(*                                                                         *)
(* What a request sends (a name, a password, a card, a restaurant) is      *)
(* named by the request, as is what the encoder makes of it; what the      *)
(* loader stored for a user is named by the user.  The user a request      *)
(* saves gets a fresh ID, named by the request.                            *)
(***************************************************************************)
EXTENDS Integers, Sequences, FiniteSets

CONSTANTS
    Users,          \* the users the loader saved
    Admin,          \* the one of them without address and card, if it is a user
    Requests,       \* the gRPC calls served
    Operations,     \* the operations they may ask for
    MaxCards,       \* the cards that fit in the column, VARCHAR(1024)
    Null,           \* Java's null
    NoPreference,   \* the "0" of an empty place of preferiti
    MaxPerUser,     \* bound on the calls for one user served at the same time
    MaxFailures     \* bound on the failures of the database

Columns == {"username", "password", "address", "mail"}
ColumnUpdates == [updateUsername |-> "username", updatePassword |-> "password",
                  updateAddress |-> "address", updateMail |-> "mail"]
Finds == {"findByID", "logIn", "getUserPreferitiByID"}
Updates == DOMAIN ColumnUpdates \cup {"updatePaymentMethod", "updatePreferiti"}

ASSUME UserAssumption ==
    /\ IsFiniteSet(Requests)
    /\ Operations \subseteq Finds \cup Updates \cup {"save", "deleteByID"}
    /\ Users \cap Requests = {}
    /\ Null \notin Users \cup Requests
    /\ NoPreference \notin Users \cup Requests
    /\ MaxCards \in Nat \ {0}
    /\ MaxPerUser \in Nat \ {0}
    /\ MaxFailures \in Nat

VARIABLES
    connection, \* DataSource.connection, the static field
    open,       \* the connections that are open
    lost,       \* those that a failure broke off, instead of being closed
    rows,       \* rows[u]: the row of user u, Null if there is none
    pc,         \* pc[q]: how far the thread of request q is
    args,       \* args[q]: the operation, and the user it is for
    phase,      \* phase[q]: whether it is finding the user or writing
    handle,     \* handle[q]: the connection it executes a statement on
    copy,       \* copy[q]: the user it found
    answer,     \* answer[q]: what it answered
    answered,   \* the changes that were answered, in the order of their answers
    overlapped, \* the requests that were served while another one was
    failures    \* the failures so far

connectionVars == <<connection, open, lost, handle>>
historyVars == <<answered, overlapped>>
vars == <<connectionVars, rows, pc, args, phase, copy, answer, historyVars, failures>>

IDs == Users \cup Requests
Row == [columns : [Columns -> IDs \cup {Null}], cards : Seq(IDs),
        preferiti : [1 .. 3 -> Requests \cup {NoPreference}]]
Phases == {"find", "write"}

\* A connection is named by the request that opened it, and when; the loader's is Null's.
Connections == (Requests \cup {Null}) \X Phases
LoadersConnection == <<Null, "write">>

ASSUME NullAssumption == Null \notin Row /\ Null \notin Connections

Steps == {"connecting", "opening", "returning", "executing", "closing", "nulling", "found"}
Answers == {"ok", "no", "error"}
NoArgs == [op |-> "none"]

TypeOK ==
    /\ connection \in Connections \cup {Null}
    /\ open \subseteq Connections /\ lost \subseteq Connections
    /\ rows \in [IDs -> Row \cup {Null}]
    /\ \A u \in IDs : rows[u] # Null => Len(rows[u].cards) <= MaxCards
    /\ pc \in [Requests -> {"idle", "done"} \cup Steps]
    /\ args \in [Requests -> [op : Operations, user : IDs] \cup {NoArgs}]
    /\ phase \in [Requests -> Phases]
    /\ handle \in [Requests -> Connections \cup {Null}]
    /\ copy \in [Requests -> Row \cup {Null}]
    /\ answer \in [Requests -> Answers \cup {"none"}]
    /\ answered \in Seq(Requests)
    /\ overlapped \subseteq Requests
    /\ failures \in 0 .. MaxFailures
    /\ \A q \in Requests :
         /\ pc[q] = "idle" <=> args[q] = NoArgs
         /\ pc[q] = "executing" => handle[q] # Null
         /\ phase[q] = "write" => args[q].op \in Operations \ Finds
         /\ phase[q] = "write" /\ args[q].op \in Updates => copy[q] # Null

-----------------------------------------------------------------------------
\* The row the constructor of User makes of what ID id stands for.
NewRow(id) ==
    [columns |-> [k \in Columns |-> IF id = Admin /\ k = "address" THEN Null ELSE id],
     cards |-> IF id = Admin THEN <<>> ELSE <<id>>,
     preferiti |-> [i \in 1 .. 3 |-> NoPreference]]

\* The loader's rows.  Its connection stays in the field; in a restarted process, whose
\* loader finds the database made, the field is null.
Init ==
    /\ \/ connection = LoadersConnection /\ open = {LoadersConnection}
       \/ connection = Null /\ open = {}
    /\ lost = {}
    /\ rows = [u \in IDs |-> IF u \in Users THEN NewRow(u) ELSE Null]
    /\ pc = [q \in Requests |-> "idle"]
    /\ args = [q \in Requests |-> NoArgs]
    /\ phase = [q \in Requests |-> "find"]
    /\ handle = [q \in Requests |-> Null]
    /\ copy = [q \in Requests |-> Null]
    /\ answer = [q \in Requests |-> "none"]
    /\ answered = <<>>
    /\ overlapped = {}
    /\ failures = 0

-----------------------------------------------------------------------------
Goto(q, from, to) == pc[q] = from /\ pc' = [pc EXCEPT ![q] = to]
Serving == {q \in Requests : pc[q] \in Steps}
DatabaseFails == failures < MaxFailures /\ failures' = failures + 1

\* A failure while connection c is used, which may be that c is broken off, then or before:
\* a connection nobody uses is not missed.
FailsOn(c) ==
    /\ DatabaseFails
    /\ \/ UNCHANGED <<open, lost>>
       \/ open' = open \ {c} /\ lost' = lost \cup {c}

AnswerWith(q, a) ==
    /\ answer' = [answer EXCEPT ![q] = a]
    /\ answered' = IF args[q].op \in Updates THEN Append(answered, q) ELSE answered
    /\ UNCHANGED overlapped
NoAnswer == UNCHANGED <<answer, historyVars>>

\* A call arrives.  What saves or deletes does not look for the user first.
Arrive(q, op, u) ==
    /\ Goto(q, "idle", "connecting")
    /\ Cardinality({p \in Serving : args[p].user = u}) < MaxPerUser
    /\ args' = [args EXCEPT ![q] = [op |-> op, user |-> u]]
    /\ phase' = [phase EXCEPT ![q] = IF op \in {"save", "deleteByID"} THEN "write" ELSE "find"]
    /\ overlapped' = IF Serving = {} THEN overlapped ELSE overlapped \cup Serving \cup {q}
    /\ UNCHANGED <<connectionVars, rows, copy, answer, answered, failures>>

Request(q) ==
    \E op \in Operations :
        \E u \in IF op = "save" THEN {q} ELSE {u \in IDs : u \in Users \/ rows[u] # Null} :
            Arrive(q, op, u)

-----------------------------------------------------------------------------
(* DataSource                                                               *)

\* Mutant: a connection is opened for every use.
TestConnectionNot(q) ==
    /\ Goto(q, "connecting", "opening")
    /\ NoAnswer
    /\ UNCHANGED <<connectionVars, rows, args, phase, copy, failures>>

\* getConnection: is the field null?
TestConnection(q) ==
    /\ Goto(q, "connecting", IF connection = Null THEN "opening" ELSE "returning")
    /\ NoAnswer
    /\ UNCHANGED <<connectionVars, rows, args, phase, copy, failures>>

\* The field is assigned a connection of its own, whatever it refers to by now; opening
\* one may fail, which is printed.
OpenConnection(q) ==
    /\ Goto(q, "opening", "returning")
    /\ \/ /\ connection' = <<q, phase[q]>>
          /\ open' = open \cup {<<q, phase[q]>>}
          /\ UNCHANGED failures
       \/ DatabaseFails /\ UNCHANGED <<connection, open>>
    /\ NoAnswer
    /\ UNCHANGED <<lost, handle, rows, args, phase, copy>>

\* Mutant: null is returned, and worked on, like any connection.
ReturnConnectionUnchecked(q) ==
    /\ Goto(q, "returning", "executing")
    /\ handle' = [handle EXCEPT ![q] = connection]
    /\ NoAnswer
    /\ UNCHANGED <<connection, open, lost, rows, args, phase, copy, failures>>

\* The field is read again and returned: if it is null by now, the statement is prepared
\* on null, which nobody catches.
ReturnConnection(q) ==
    /\ IF connection = Null
       THEN Goto(q, "returning", "done") /\ AnswerWith(q, "error") /\ UNCHANGED handle
       ELSE /\ Goto(q, "returning", "executing")
            /\ handle' = [handle EXCEPT ![q] = connection]
            /\ NoAnswer
    /\ UNCHANGED <<connection, open, lost, rows, args, phase, copy, failures>>

\* After closeConnection: what deletes is done, what finds looks at the row it read.
GoOn(q, from) ==
    IF phase[q] = "write" THEN Goto(q, from, "done") /\ AnswerWith(q, "ok")
    ELSE Goto(q, from, "found") /\ NoAnswer

\* closeConnection closes what the field refers to, whoever uses it; null is not caught.
CloseConnection(q) ==
    /\ IF connection = Null
       THEN Goto(q, "closing", "done") /\ AnswerWith(q, "error") /\ UNCHANGED open
       ELSE Goto(q, "closing", "nulling") /\ open' = open \ {connection} /\ NoAnswer
    /\ UNCHANGED <<connection, lost, handle, rows, args, phase, copy, failures>>

\* An SQLException of close, which does nothing to a connection that is closed already, is
\* printed, and the field is not set to null.
CloseFails(q) ==
    /\ connection \in open \cup lost
    /\ FailsOn(connection)
    /\ GoOn(q, "closing")
    /\ UNCHANGED <<connection, handle, rows, args, phase, copy>>

\* Mutant: the field keeps the connection that was closed.
NullConnectionNot(q) ==
    /\ GoOn(q, "nulling")
    /\ UNCHANGED <<connectionVars, rows, args, phase, copy, failures>>

\* Then the field is set to null.
NullConnection(q) ==
    /\ connection' = Null
    /\ GoOn(q, "nulling")
    /\ UNCHANGED <<open, lost, handle, rows, args, phase, copy, failures>>

-----------------------------------------------------------------------------
(* UserController                                                           *)

Usable(q) == handle[q] \in open

Executes(q, to) ==
    /\ Goto(q, "executing", to)
    /\ handle' = [handle EXCEPT ![q] = Null]
    /\ UNCHANGED <<connection, args, phase>>

\* findByID, findByMail: the row is read before the connection is closed.
FindUser(q) ==
    /\ phase[q] = "find" /\ Usable(q)
    /\ Executes(q, "closing")
    /\ copy' = [copy EXCEPT ![q] = rows[args[q].user]]
    /\ NoAnswer
    /\ UNCHANGED <<open, lost, rows, failures>>

\* An SQLException is answered as a user who does not exist; the connection is neither
\* closed nor forgotten, whether it still works or not.
FindFails(q) ==
    /\ phase[q] = "find"
    /\ \/ ~Usable(q) /\ UNCHANGED <<open, lost, failures>>
       \/ Usable(q) /\ FailsOn(handle[q])
    /\ Executes(q, "found")
    /\ copy' = [copy EXCEPT ![q] = Null]
    /\ NoAnswer
    /\ UNCHANGED rows

Fits(row) == Len(row.cards) <= MaxCards

\* save, deleteByID and updateUser; an UPDATE of no row succeeds as well.
Written(q) ==
    LET u == args[q].user IN
    CASE args[q].op = "save"       -> [rows EXCEPT ![q] = NewRow(q)]
      [] args[q].op = "deleteByID" -> [rows EXCEPT ![u] = Null]
      [] OTHER -> IF rows[u] = Null THEN rows ELSE [rows EXCEPT ![u] = copy[q]]

MayWrite(q) == Usable(q) /\ (args[q].op \in Updates => Fits(copy[q]))

WriteUser(q) ==
    /\ phase[q] = "write" /\ MayWrite(q)
    /\ rows' = Written(q)
    /\ IF args[q].op = "deleteByID"
       THEN Executes(q, "closing") /\ NoAnswer
       ELSE Executes(q, "done") /\ AnswerWith(q, "ok")
    /\ UNCHANGED <<open, lost, copy, failures>>

\* Mutant: an SQLException of a write is answered TRUE.
WriteFailsUnnoticed(q) ==
    /\ phase[q] = "write"
    /\ ~MayWrite(q)
    /\ Executes(q, "done")
    /\ AnswerWith(q, "ok")
    /\ UNCHANGED <<open, lost, rows, copy, failures>>

\* An SQLException is answered FALSE, though the database may have executed the command;
\* again nothing is done about the connection.
WriteFails(q) ==
    /\ phase[q] = "write"
    /\ \/ ~MayWrite(q) /\ UNCHANGED <<open, lost, rows, failures>>
       \/ /\ Usable(q) /\ FailsOn(handle[q])
          /\ UNCHANGED rows \/ (MayWrite(q) /\ rows' = Written(q))
    /\ Executes(q, "done")
    /\ AnswerWith(q, "no")
    /\ UNCHANGED copy

-----------------------------------------------------------------------------
(* UserServiceImpl, with the user that was found                            *)

\* Mutant: a new preference takes the last place.
ChangedAtTheEnd(op, row, q) ==
    CASE op \in DOMAIN ColumnUpdates ->
           [row EXCEPT !.columns[ColumnUpdates[op]] = q]
      [] op = "updatePaymentMethod" -> [row EXCEPT !.cards = Append(@, q)]
      [] op = "updatePreferiti" ->
           [row EXCEPT !.preferiti = [i \in 1 .. 3 |-> IF i = 3 THEN q ELSE @[i + 1]]]

\* What the updates do to the copy.
Changed(op, row, q) ==
    CASE op \in DOMAIN ColumnUpdates ->
           [row EXCEPT !.columns[ColumnUpdates[op]] = q]
      [] op = "updatePaymentMethod" -> [row EXCEPT !.cards = Append(@, q)]
      [] op = "updatePreferiti" ->
           [row EXCEPT !.preferiti = [i \in 1 .. 3 |-> IF i = 1 THEN q ELSE @[i - 1]]]

ChangeFound(q) ==
    /\ args[q].op \in Updates /\ copy[q] # Null
    /\ Goto(q, "found", "connecting")
    /\ copy' = [copy EXCEPT ![q] = Changed(args[q].op, @, q)]
    /\ phase' = [phase EXCEPT ![q] = "write"]
    /\ NoAnswer
    /\ UNCHANGED <<connectionVars, rows, args, failures>>

\* Without a user findByID ends in a NullPointerException, and so do the others once
\* they have answered.  A user without a card or an address cannot be put in a message.
AnswersTo(op, row) ==
    IF row = Null THEN IF op = "findByID" THEN {"error"} ELSE {"no"}
    ELSE CASE op = "findByID" -> IF row.cards = <<>> \/ row.columns["address"] = Null
                                 THEN {"error"} ELSE {"ok"}
           [] op = "logIn" -> {"ok", "no"}
           [] OTHER -> {"ok"}

AnswerFound(q) ==
    /\ args[q].op \in Finds \/ copy[q] = Null
    /\ Goto(q, "found", "done")
    /\ \E a \in AnswersTo(args[q].op, copy[q]) : AnswerWith(q, a)
    /\ UNCHANGED <<connectionVars, rows, args, phase, copy, failures>>

Thread(q) ==
    \/ TestConnection(q)
    \/ OpenConnection(q)
    \/ ReturnConnection(q)
    \/ CloseConnection(q)
    \/ CloseFails(q)
    \/ NullConnection(q)
    \/ FindUser(q)
    \/ FindFails(q)
    \/ WriteUser(q)
    \/ WriteFails(q)
    \/ ChangeFound(q)
    \/ AnswerFound(q)

Next == \E q \in Requests : Request(q) \/ Thread(q)

Spec == Init /\ [][Next]_vars

-----------------------------------------------------------------------------
(* What holds however requests overlap.                                     *)

\* The field refers to a connection that was closed only while somebody is about to set it to
\* null: whoever closes whose connection, the requests themselves never leave a dead one for
\* those that follow.  What a failure breaks off does stay in the field, which getConnection
\* asks for null only.
FieldIsUsable ==
    connection \notin open \cup lost \cup {Null} => \E q \in Requests : pc[q] = "nulling"

\* getUserPreferitiByID stops at the first empty place of preferiti: none hides a
\* preference, in the table or in a copy about to be written.
NoPreferenceIsHidden ==
    \A row \in {rows[u] : u \in IDs} \cup {copy[q] : q \in Requests} : row # Null =>
        \A i, j \in 1 .. 3 :
            i < j /\ row.preferiti[i] = NoPreference => row.preferiti[j] = NoPreference

\* A request served while no other one is gets its answer, whatever the overlaps before
\* it have done to the connection: a change of an existing user is made, unless one more
\* card does not fit; deleting and saving succeed; a user who can be put in a message is
\* found.
ServedAlone ==
    failures = 0 =>
        \A q \in Requests \ overlapped : pc[q] = "done" =>
            LET op == args[q].op
                row == rows[args[q].user]
            IN  CASE op \in Updates ->
                       answer[q] = "no" => row = Null \/ (op = "updatePaymentMethod"
                                                          /\ ~Fits(copy[q]))
                  [] op \in Finds -> answer[q] = "error" => AnswersTo(op, copy[q]) = {"error"}
                  [] OTHER -> answer[q] = "ok"

-----------------------------------------------------------------------------
(* What holds as long as no two requests of one user overlap.               *)

Position(q) == CHOOSE i \in DOMAIN answered : answered[i] = q
Before(p, q) == p \in Requests /\ q \in Requests /\ Position(p) < Position(q)
Acknowledged(u, op) ==
    {q \in Requests : pc[q] = "done" /\ answer[q] = "ok"
                      /\ args[q].op = op /\ args[q].user = u}

\* What was answered TRUE is in the row of its user until a later request changes the
\* same thing: no column falls back to an older value, each card acknowledged is there
\* once, and the preferences are the latest three, the newest first.
AcknowledgedChangesStay ==
    \A u \in IDs : rows[u] # Null /\ (\A q \in Serving : args[q].user # u) =>
        /\ \A op \in Operations \cap DOMAIN ColumnUpdates : \A q \in Acknowledged(u, op) :
             LET value == rows[u].columns[ColumnUpdates[op]] IN value = q \/ Before(q, value)
        /\ \A q \in Acknowledged(u, "updatePaymentMethod") :
             Cardinality({i \in DOMAIN rows[u].cards : rows[u].cards[i] = q}) = 1
        /\ LET newest == rows[u].preferiti IN
             /\ \A i, j \in 1 .. 3 : i < j /\ newest[j] # NoPreference
                                       => Before(newest[j], newest[i])
             /\ \A q \in Acknowledged(u, "updatePreferiti") : \A i \in 1 .. 3 :
                  (\A j \in 1 .. i : newest[j] # q)
                     => newest[i] # NoPreference /\ Before(q, newest[i])

\* As long as no requests overlap, one connection is open at most, and the field has it.
LeaksComeFromOverlaps == overlapped = {} => open \subseteq {connection}
=============================================================================
