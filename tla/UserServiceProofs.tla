------------------------- MODULE UserServiceProofs -------------------------
(***************************************************************************)
(* Theorems about UserService: types; that no request leaves a closed      *)
(* connection, only overlaps leak one, no empty place hides a preference,  *)
(* a request served alone gets its answer, and acknowledged changes of a   *)
(* user whose requests do not overlap stay.                                *)
(***************************************************************************)
EXTENDS UserService, FiniteSetTheorems, TLAPS

-----------------------------------------------------------------------------
(* The rows that are made and changed.                                      *)

NoneHidden(row) ==
    \A i, j \in 1 .. 3 : i < j /\ row.preferiti[i] = NoPreference => row.preferiti[j] = NoPreference

LEMMA NewRowType ==
    ASSUME NEW id \in IDs
    PROVE  /\ NewRow(id) \in Row
           /\ Len(NewRow(id).cards) <= MaxCards
           /\ NoneHidden(NewRow(id))
<1> DEFINE columns == [k \in Columns |-> IF id = Admin /\ k = "address" THEN Null ELSE id]
           cards == IF id = Admin THEN <<>> ELSE <<id>>
           preferiti == [i \in 1 .. 3 |-> NoPreference]
<1>1. columns \in [Columns -> IDs \cup {Null}] OBVIOUS
<1>2. cards \in Seq(IDs) /\ Len(cards) <= 1 OBVIOUS
<1>3. preferiti \in [1 .. 3 -> Requests \cup {NoPreference}]
      /\ \A i \in 1 .. 3 : preferiti[i] = NoPreference
  OBVIOUS
<1>4. NewRow(id) = [columns |-> columns, cards |-> cards, preferiti |-> preferiti]
  BY DEF NewRow
<1> HIDE DEF columns, cards, preferiti
<1>5. 1 <= MaxCards BY UserAssumption
<1>6. Len(cards) <= MaxCards BY <1>2, <1>5, UserAssumption
<1> QED BY <1>1, <1>2, <1>3, <1>4, <1>6 DEF Row, NoneHidden

LEMMA ChangedType ==
    ASSUME NEW op \in Updates, NEW row \in Row, NoneHidden(row), NEW q \in Requests
    PROVE  Changed(op, row, q) \in Row /\ NoneHidden(Changed(op, row, q))
<1>0. q \in IDs BY DEF IDs
<1>1. /\ row.columns \in [Columns -> IDs \cup {Null}]
      /\ row.cards \in Seq(IDs)
      /\ row.preferiti \in [1 .. 3 -> Requests \cup {NoPreference}]
      /\ row = [columns |-> row.columns, cards |-> row.cards, preferiti |-> row.preferiti]
  BY DEF Row
<1>2. CASE op \in DOMAIN ColumnUpdates
  <2> DEFINE columns == [row.columns EXCEPT ![ColumnUpdates[op]] = q]
  <2>1. columns \in [Columns -> IDs \cup {Null}] BY <1>0, <1>1
  <2>2. Changed(op, row, q) = [row EXCEPT !.columns = columns]
    <3>1. op # "updatePaymentMethod" /\ op # "updatePreferiti"
      BY <1>2 DEF ColumnUpdates
    <3> QED BY <1>2, <3>1 DEF Changed
  <2> HIDE DEF columns
  <2> QED BY <1>1, <2>1, <2>2 DEF Row, NoneHidden
<1>3. CASE op = "updatePaymentMethod"
  <2>1. Changed(op, row, q) = [row EXCEPT !.cards = Append(@, q)]
    BY <1>3 DEF Changed, ColumnUpdates
  <2>2. Append(row.cards, q) \in Seq(IDs) BY <1>0, <1>1
  <2> QED BY <1>1, <2>1, <2>2 DEF Row, NoneHidden
<1>4. CASE op = "updatePreferiti"
  <2> DEFINE newest == [i \in 1 .. 3 |-> IF i = 1 THEN q ELSE row.preferiti[i - 1]]
  <2>1. newest \in [1 .. 3 -> Requests \cup {NoPreference}] BY <1>1
  <2>2. Changed(op, row, q) = [row EXCEPT !.preferiti = newest]
    BY <1>4 DEF Changed, ColumnUpdates
  <2>3. q # NoPreference BY UserAssumption
  <2>4. \A i, j \in 1 .. 3 : i < j /\ newest[i] = NoPreference => newest[j] = NoPreference
    BY <2>3 DEF NoneHidden
  <2> HIDE DEF newest
  <2> QED BY <1>1, <2>1, <2>2, <2>4 DEF Row, NoneHidden
<1> QED BY <1>2, <1>3, <1>4 DEF Updates

-----------------------------------------------------------------------------
(* The invariant, by what its parts are about.                              *)

ConnectionOK ==
    /\ connection \in Connections \cup {Null}
    /\ open \subseteq Connections /\ lost \subseteq Connections
    /\ handle \in [Requests -> Connections \cup {Null}]

RowsOK ==
    /\ rows \in [IDs -> Row \cup {Null}]
    /\ \A u \in IDs : rows[u] # Null => Len(rows[u].cards) <= MaxCards /\ NoneHidden(rows[u])

CopiesOK ==
    /\ copy \in [Requests -> Row \cup {Null}]
    /\ \A q \in Requests : copy[q] # Null => NoneHidden(copy[q])

\* Threads, and what their next steps rely on.
ThreadsOK ==
    /\ pc \in [Requests -> {"idle", "done"} \cup Steps]
    /\ args \in [Requests -> [op : Operations, user : IDs] \cup {NoArgs}]
    /\ phase \in [Requests -> Phases]
    /\ \A q \in Requests :
         /\ pc[q] = "idle" <=> args[q] = NoArgs
         /\ pc[q] = "executing" => handle[q] # Null
         /\ phase[q] = "write" => args[q].op \in Operations \ Finds
         /\ phase[q] = "write" /\ args[q].op \in Updates => copy[q] # Null

HistoryOK ==
    /\ answer \in [Requests -> Answers \cup {"none"}]
    /\ answered \in Seq(Requests)
    /\ overlapped \subseteq Requests

Inv == ConnectionOK /\ RowsOK /\ CopiesOK /\ ThreadsOK /\ HistoryOK /\ failures \in 0 .. MaxFailures

LEMMA InvSplits == Inv <=> TypeOK /\ NoPreferenceIsHidden
<1>1. NoPreferenceIsHidden <=> /\ \A u \in IDs : rows[u] # Null => NoneHidden(rows[u])
                               /\ \A q \in Requests : copy[q] # Null => NoneHidden(copy[q])
  BY DEF NoPreferenceIsHidden, NoneHidden
<1> QED BY <1>1 DEF Inv, ConnectionOK, RowsOK, CopiesOK, ThreadsOK, HistoryOK, TypeOK

-----------------------------------------------------------------------------
(* What the steps have in common.                                           *)

LEMMA NoArgsIsNone == \A op \in Operations, u \in IDs : [op |-> op, user |-> u] # NoArgs
<1>1. "none" \notin Operations BY UserAssumption DEF Finds, Updates, ColumnUpdates
<1> QED BY <1>1 DEF NoArgs

LEMMA AnswerKeepsHistory ==
    ASSUME HistoryOK, NEW q \in Requests,
           (\E a \in Answers : AnswerWith(q, a)) \/ NoAnswer
    PROVE  HistoryOK'
<1>1. CASE \E a \in Answers : AnswerWith(q, a) BY <1>1 DEF HistoryOK, AnswerWith
<1>2. CASE NoAnswer BY <1>2 DEF HistoryOK, NoAnswer, historyVars
<1> QED BY <1>1, <1>2

\* A thread goes on to a step that is not executing: nothing is needed for that.
LEMMA GoesOn ==
    ASSUME ThreadsOK, NEW q \in Requests, NEW from \in Steps,
           NEW to \in {"done"} \cup (Steps \ {"executing"}), Goto(q, from, to),
           UNCHANGED <<args, phase>>,
           \A p \in Requests : p # q => handle'[p] = handle[p] /\ copy'[p] = copy[p],
           phase[q] = "write" => copy'[q] = copy[q]
    PROVE  ThreadsOK'
<1>1. pc' = [pc EXCEPT ![q] = to] /\ pc[q] = from BY DEF Goto
<1>2. pc' \in [Requests -> {"idle", "done"} \cup Steps] BY <1>1 DEF ThreadsOK
<1>3. from # "idle" /\ to # "idle" /\ to # "executing" BY DEF Steps
<1>4. ASSUME NEW p \in Requests
      PROVE  /\ pc'[p] = "idle" <=> args'[p] = NoArgs
             /\ pc'[p] = "executing" => handle'[p] # Null
             /\ phase'[p] = "write" => args'[p].op \in Operations \ Finds
             /\ phase'[p] = "write" /\ args'[p].op \in Updates => copy'[p] # Null
  <2>1. CASE p = q BY <1>1, <1>3, <2>1 DEF ThreadsOK
  <2>2. CASE p # q BY <1>1, <2>2 DEF ThreadsOK
  <2> QED BY <2>1, <2>2
<1> QED BY <1>2, <1>4 DEF ThreadsOK

\* What is written is a row that fits.
LEMMA WrittenType ==
    ASSUME Inv, NEW q \in Requests, MayWrite(q), phase[q] = "write",
           args[q].op \in Operations \ Finds, args[q].user \in IDs
    PROVE  rows' = Written(q) => RowsOK'
<1> SUFFICES ASSUME rows' = Written(q) PROVE RowsOK' OBVIOUS
<1>1. PICK u \in IDs, row \in Row \cup {Null} :
         /\ rows' = [rows EXCEPT ![u] = row] \/ rows' = rows
         /\ row # Null => Len(row.cards) <= MaxCards /\ NoneHidden(row)
  <2>1. CASE args[q].op = "save"
    <3>1. rows' = [rows EXCEPT ![q] = NewRow(q)] BY <2>1 DEF Written
    <3>2. q \in IDs BY DEF IDs
    <3> QED BY <3>1, <3>2, NewRowType
  <2>2. CASE args[q].op = "deleteByID"
    <3>1. rows' = [rows EXCEPT ![args[q].user] = Null] BY <2>2 DEF Written
    <3> QED BY <3>1
  <2>3. CASE args[q].op \in Updates
    <3>1. args[q].op # "save" /\ args[q].op # "deleteByID"
      BY <2>3 DEF Updates, ColumnUpdates
    <3>2. rows' = rows \/ rows' = [rows EXCEPT ![args[q].user] = copy[q]]
      BY <3>1 DEF Written
    <3>3. copy[q] \in Row /\ NoneHidden(copy[q])
      BY <2>3 DEF Inv, CopiesOK, ThreadsOK
    <3>4. Len(copy[q].cards) <= MaxCards BY <2>3 DEF MayWrite, Fits
    <3> QED BY <3>2, <3>3, <3>4
  <2> QED BY <2>1, <2>2, <2>3, UserAssumption
<1> QED BY <1>1 DEF Inv, RowsOK

-----------------------------------------------------------------------------
(* The steps of the connection.                                             *)

LEMMA ConnectionStepKeepsInv ==
    ASSUME Inv, NEW q \in Requests,
           \/ TestConnection(q) \/ OpenConnection(q) \/ ReturnConnection(q)
           \/ CloseConnection(q) \/ CloseFails(q) \/ NullConnection(q)
    PROVE  Inv'
<1>0. ThreadsOK /\ HistoryOK /\ ConnectionOK /\ failures \in 0 .. MaxFailures BY DEF Inv
<1>1. CASE TestConnection(q)
  <2>1. PICK to \in {"opening", "returning"} : Goto(q, "connecting", to)
    BY <1>1 DEF TestConnection
  <2>2. ThreadsOK' BY <1>0, <1>1, <2>1, GoesOn DEF TestConnection, connectionVars, Steps
  <2>3. HistoryOK' BY <1>0, <1>1, AnswerKeepsHistory DEF TestConnection
  <2> QED
    BY <1>1, <2>2, <2>3
    DEF TestConnection, connectionVars, Inv, ConnectionOK, RowsOK, CopiesOK
<1>2. CASE OpenConnection(q)
  <2>1. ThreadsOK' BY <1>0, <1>2, GoesOn DEF OpenConnection, Steps
  <2>2. HistoryOK' BY <1>0, <1>2, AnswerKeepsHistory DEF OpenConnection
  <2>3. <<q, phase[q]>> \in Connections BY <1>0 DEF ThreadsOK, Connections
  <2>4. ConnectionOK' BY <1>0, <1>2, <2>3 DEF OpenConnection, ConnectionOK
  <2>5. failures' \in 0 .. MaxFailures
    BY <1>0, <1>2, UserAssumption DEF OpenConnection, DatabaseFails
  <2> QED BY <1>2, <2>1, <2>2, <2>4, <2>5 DEF OpenConnection, Inv, RowsOK, CopiesOK
<1>3. CASE ReturnConnection(q)
  <2>1. HistoryOK' BY <1>0, <1>3, AnswerKeepsHistory DEF ReturnConnection, Answers
  <2>2. ConnectionOK' BY <1>0, <1>3 DEF ReturnConnection, ConnectionOK
  <2>3. ThreadsOK'
    <3>1. CASE connection = Null
      BY <1>0, <1>3, <3>1, GoesOn DEF ReturnConnection, Steps
    <3>2. CASE connection # Null
      <4>1. /\ pc' = [pc EXCEPT ![q] = "executing"] /\ pc[q] = "returning"
            /\ handle' = [handle EXCEPT ![q] = connection]
        BY <1>3, <3>2 DEF ReturnConnection, Goto
      <4> QED BY <1>0, <1>3, <3>2, <4>1
          DEF ReturnConnection, ThreadsOK, ConnectionOK, Steps
    <3> QED BY <3>1, <3>2
  <2> QED BY <1>3, <2>1, <2>2, <2>3 DEF ReturnConnection, Inv, RowsOK, CopiesOK
<1>4. CASE CloseConnection(q)
  <2>1. HistoryOK' BY <1>0, <1>4, AnswerKeepsHistory DEF CloseConnection, Answers
  <2>2. ConnectionOK' BY <1>0, <1>4 DEF CloseConnection, ConnectionOK
  <2>3. PICK to \in {"done", "nulling"} : Goto(q, "closing", to)
    BY <1>4 DEF CloseConnection
  <2>4. ThreadsOK' BY <1>0, <1>4, <2>3, GoesOn DEF CloseConnection, Steps
  <2> QED BY <1>4, <2>1, <2>2, <2>4 DEF CloseConnection, Inv, RowsOK, CopiesOK
<1>5. CASE NullConnection(q)
  <2>1. HistoryOK' BY <1>0, <1>5, AnswerKeepsHistory DEF NullConnection, GoOn, Answers
  <2>2. ConnectionOK' BY <1>0, <1>5 DEF NullConnection, ConnectionOK
  <2>3. PICK to \in {"done", "found"} : Goto(q, "nulling", to)
    BY <1>5 DEF NullConnection, GoOn
  <2>4. ThreadsOK' BY <1>0, <1>5, <2>3, GoesOn DEF NullConnection, Steps
  <2> QED BY <1>5, <2>1, <2>2, <2>4 DEF NullConnection, Inv, RowsOK, CopiesOK
<1>6. CASE CloseFails(q)
  <2>1. HistoryOK' BY <1>0, <1>6, AnswerKeepsHistory DEF CloseFails, GoOn, Answers
  <2>2. ConnectionOK' BY <1>0, <1>6 DEF CloseFails, FailsOn, ConnectionOK
  <2>3. PICK to \in {"done", "found"} : Goto(q, "closing", to) BY <1>6 DEF CloseFails, GoOn
  <2>4. ThreadsOK' BY <1>0, <1>6, <2>3, GoesOn DEF CloseFails, Steps
  <2>5. failures' \in 0 .. MaxFailures
    BY <1>0, <1>6, UserAssumption DEF CloseFails, FailsOn, DatabaseFails
  <2> QED BY <1>6, <2>1, <2>2, <2>4, <2>5 DEF CloseFails, Inv, RowsOK, CopiesOK
<1> QED BY <1>1, <1>2, <1>3, <1>4, <1>5, <1>6

-----------------------------------------------------------------------------
(* The statements executed, and the answers.                                *)

LEMMA FindKeepsInv ==
    ASSUME Inv, NEW q \in Requests, FindUser(q) \/ FindFails(q)
    PROVE  Inv'
<1>0. ThreadsOK /\ HistoryOK /\ ConnectionOK /\ CopiesOK /\ RowsOK BY DEF Inv
<1>1. /\ handle' = [handle EXCEPT ![q] = Null]
      /\ UNCHANGED <<connection, args, phase, rows>>
      /\ phase[q] = "find" /\ NoAnswer
  BY DEF FindUser, FindFails, Executes
<1>2. PICK to \in {"closing", "found"} : Goto(q, "executing", to)
  BY DEF FindUser, FindFails, Executes
<1>3. PICK row \in Row \cup {Null} :
        copy' = [copy EXCEPT ![q] = row] /\ (row # Null => NoneHidden(row))
  <2>1. CASE FindFails(q) BY <2>1 DEF FindFails
  <2>2. CASE FindUser(q)
    <3>1. pc[q] = "executing" BY <1>2 DEF Goto
    <3>2. args[q].user \in IDs
      <4>1. args[q] # NoArgs BY <1>0, <3>1 DEF ThreadsOK
      <4> QED BY <1>0, <4>1 DEF ThreadsOK
    <3> QED BY <1>0, <2>2, <3>2 DEF FindUser, RowsOK
  <2> QED BY <2>1, <2>2
<1>4. ThreadsOK' BY <1>0, <1>1, <1>2, <1>3, GoesOn DEF ThreadsOK, ConnectionOK, CopiesOK, Steps
<1>5. HistoryOK' BY <1>0, <1>1, AnswerKeepsHistory
<1>6. failures' \in 0 .. MaxFailures
  BY UserAssumption DEF FindUser, FindFails, FailsOn, DatabaseFails, Inv
<1>7. CopiesOK' BY <1>0, <1>3 DEF CopiesOK
<1>8. open' \subseteq Connections /\ lost' \subseteq Connections
  BY <1>0 DEF FindUser, FindFails, FailsOn, Usable, ConnectionOK
<1>9. ConnectionOK' /\ RowsOK' BY <1>0, <1>1, <1>8 DEF ConnectionOK, RowsOK
<1> QED BY <1>4, <1>5, <1>6, <1>7, <1>9 DEF Inv

LEMMA WriteKeepsInv ==
    ASSUME Inv, NEW q \in Requests, WriteUser(q) \/ WriteFails(q)
    PROVE  Inv'
<1>0. ThreadsOK /\ HistoryOK /\ ConnectionOK /\ CopiesOK /\ RowsOK BY DEF Inv
<1>1. /\ handle' = [handle EXCEPT ![q] = Null]
      /\ UNCHANGED <<connection, args, phase, copy>>
      /\ phase[q] = "write"
      /\ rows' = rows \/ (MayWrite(q) /\ rows' = Written(q))
  BY DEF WriteUser, WriteFails, Executes
<1>2. PICK to \in {"closing", "done"} : Goto(q, "executing", to)
  BY DEF WriteUser, WriteFails, Executes
<1>3. args[q].user \in IDs
  <2>1. pc[q] = "executing" BY <1>2 DEF Goto
  <2>2. args[q] # NoArgs BY <1>0, <2>1 DEF ThreadsOK
  <2> QED BY <1>0, <2>2 DEF ThreadsOK
<1>4. RowsOK'
  <2>1. CASE rows' = rows BY <1>0, <2>1 DEF RowsOK
  <2>2. CASE MayWrite(q) /\ rows' = Written(q)
    <3>1. args[q].op \in Operations \ Finds BY <1>0, <1>1 DEF ThreadsOK
    <3> QED BY <1>1, <1>3, <2>2, <3>1, WrittenType
  <2> QED BY <1>1, <2>1, <2>2
<1>5. ThreadsOK' BY <1>0, <1>1, <1>2, GoesOn DEF ConnectionOK, Steps
<1>6. HistoryOK'
  <2>1. (\E a \in Answers : AnswerWith(q, a)) \/ NoAnswer
    BY DEF WriteUser, WriteFails, Answers
  <2> QED BY <1>0, <2>1, AnswerKeepsHistory
<1>7. failures' \in 0 .. MaxFailures
  BY UserAssumption DEF WriteUser, WriteFails, FailsOn, DatabaseFails, Inv
<1>8. open' \subseteq Connections /\ lost' \subseteq Connections
  BY <1>0 DEF WriteUser, WriteFails, FailsOn, Usable, ConnectionOK
<1>9. ConnectionOK' /\ CopiesOK' BY <1>0, <1>1, <1>8 DEF ConnectionOK, CopiesOK
<1> QED BY <1>4, <1>5, <1>6, <1>7, <1>9 DEF Inv

LEMMA ChangeFoundKeepsInv ==
    ASSUME Inv, NEW q \in Requests, ChangeFound(q)
    PROVE  Inv'
<1>0. ThreadsOK /\ HistoryOK /\ ConnectionOK /\ CopiesOK /\ RowsOK BY DEF Inv
<1> DEFINE row == Changed(args[q].op, copy[q], q)
<1>1. /\ pc' = [pc EXCEPT ![q] = "connecting"] /\ pc[q] = "found"
      /\ copy' = [copy EXCEPT ![q] = row]
      /\ phase' = [phase EXCEPT ![q] = "write"]
      /\ UNCHANGED <<connectionVars, rows, args, failures>> /\ NoAnswer
  BY DEF ChangeFound, Goto
<1>2. row \in Row /\ NoneHidden(row)
  <2>1. args[q].op \in Updates /\ copy[q] # Null BY DEF ChangeFound
  <2>2. copy[q] \in Row /\ NoneHidden(copy[q]) BY <1>0, <2>1 DEF CopiesOK
  <2> QED BY <2>1, <2>2, ChangedType
<1> HIDE DEF row
<1>3. CopiesOK' BY <1>0, <1>1, <1>2 DEF CopiesOK
<1>4. ThreadsOK'
  <2>1. row # Null BY <1>2, NullAssumption
  <2>2. /\ pc' \in [Requests -> {"idle", "done"} \cup Steps]
        /\ phase' \in [Requests -> Phases]
    BY <1>0, <1>1 DEF ThreadsOK, Steps, Phases
  <2>3. ASSUME NEW p \in Requests
        PROVE  /\ pc'[p] = "idle" <=> args'[p] = NoArgs
               /\ pc'[p] = "executing" => handle'[p] # Null
               /\ phase'[p] = "write" => args'[p].op \in Operations \ Finds
               /\ phase'[p] = "write" /\ args'[p].op \in Updates => copy'[p] # Null
    <3>1. CASE p = q
      <4>1. pc'[p] = "connecting" /\ copy'[p] = row BY <1>0, <1>1, <3>1 DEF ThreadsOK, CopiesOK
      <4>2. args'[p] = args[q] /\ args[q] # NoArgs BY <1>0, <1>1, <3>1 DEF ThreadsOK
      <4>3. args[q].op \in Operations /\ args[q].op \in Updates
        BY <1>0, <4>2 DEF ThreadsOK, ChangeFound
      <4>4. args[q].op \notin Finds BY <4>3 DEF Finds, Updates, ColumnUpdates
      <4> QED BY <2>1, <4>1, <4>2, <4>3, <4>4
    <3>2. CASE p # q
      <4>1. /\ pc'[p] = pc[p] /\ copy'[p] = copy[p] /\ phase'[p] = phase[p]
            /\ args'[p] = args[p] /\ handle'[p] = handle[p]
        BY <1>0, <1>1, <3>2 DEF ThreadsOK, CopiesOK, connectionVars
      <4> QED BY <1>0, <4>1 DEF ThreadsOK
    <3> QED BY <3>1, <3>2
  <2> QED BY <1>0, <1>1, <2>2, <2>3 DEF ThreadsOK
<1>5. HistoryOK' BY <1>0, <1>1, AnswerKeepsHistory
<1>6. ConnectionOK' /\ RowsOK' BY <1>0, <1>1 DEF ConnectionOK, RowsOK, connectionVars
<1> QED BY <1>1, <1>3, <1>4, <1>5, <1>6 DEF Inv

LEMMA AnswerFoundKeepsInv ==
    ASSUME Inv, NEW q \in Requests, AnswerFound(q)
    PROVE  Inv'
<1>0. ThreadsOK /\ HistoryOK /\ ConnectionOK BY DEF Inv
<1>1. \E a \in Answers : AnswerWith(q, a)
  <2>1. AnswersTo(args[q].op, copy[q]) \subseteq Answers BY DEF AnswersTo, Answers
  <2> QED BY <2>1 DEF AnswerFound
<1>2. HistoryOK' BY <1>0, <1>1, AnswerKeepsHistory
<1>3. ThreadsOK' BY <1>0, GoesOn DEF AnswerFound, connectionVars, Steps
<1> QED BY <1>2, <1>3
    DEF AnswerFound, connectionVars, Inv, ConnectionOK, RowsOK, CopiesOK

LEMMA ArriveKeepsInv ==
    ASSUME Inv, NEW q \in Requests, NEW op \in Operations, NEW u \in IDs, Arrive(q, op, u)
    PROVE  Inv'
<1>0. ThreadsOK /\ HistoryOK /\ ConnectionOK BY DEF Inv
<1>1. /\ pc' = [pc EXCEPT ![q] = "connecting"] /\ pc[q] = "idle"
      /\ args' = [args EXCEPT ![q] = [op |-> op, user |-> u]]
      /\ UNCHANGED <<connectionVars, rows, copy, answer, answered, failures>>
  BY DEF Arrive, Goto
<1>2. PICK ph \in Phases :
        /\ phase' = [phase EXCEPT ![q] = ph]
        /\ ph = "write" => op \notin Finds \cup Updates
  BY DEF Arrive, Phases, Finds, Updates, ColumnUpdates
<1>3. ThreadsOK'
  <2>1. [op |-> op, user |-> u] # NoArgs BY NoArgsIsNone
  <2>2. /\ pc' \in [Requests -> {"idle", "done"} \cup Steps]
        /\ phase' \in [Requests -> Phases]
        /\ args' \in [Requests -> [op : Operations, user : IDs] \cup {NoArgs}]
    BY <1>0, <1>1, <1>2 DEF ThreadsOK, Steps
  <2>3. ASSUME NEW p \in Requests
        PROVE  /\ pc'[p] = "idle" <=> args'[p] = NoArgs
               /\ pc'[p] = "executing" => handle'[p] # Null
               /\ phase'[p] = "write" => args'[p].op \in Operations \ Finds
               /\ phase'[p] = "write" /\ args'[p].op \in Updates => copy'[p] # Null
    <3>1. CASE p = q
      <4>1. pc'[p] = "connecting" /\ phase'[p] = ph /\ args'[p] = [op |-> op, user |-> u]
        BY <1>0, <1>1, <1>2, <3>1 DEF ThreadsOK
      <4> QED BY <1>2, <2>1, <4>1
    <3>2. CASE p # q
      <4>1. /\ pc'[p] = pc[p] /\ copy'[p] = copy[p] /\ phase'[p] = phase[p]
            /\ args'[p] = args[p] /\ handle'[p] = handle[p]
        BY <1>0, <1>1, <1>2, <3>2 DEF ThreadsOK, connectionVars
      <4> QED BY <1>0, <4>1 DEF ThreadsOK
    <3> QED BY <3>1, <3>2
  <2> QED BY <2>2, <2>3 DEF ThreadsOK
<1>4. HistoryOK'
  <2>1. overlapped' \subseteq Requests BY <1>0 DEF Arrive, Serving, HistoryOK
  <2> QED BY <1>0, <1>1, <2>1 DEF HistoryOK
<1> QED BY <1>1, <1>3, <1>4 DEF Inv, connectionVars, ConnectionOK, RowsOK, CopiesOK

-----------------------------------------------------------------------------
(* The theorems.                                                            *)

LEMMA InitInv == Init => Inv
<1> SUFFICES ASSUME Init PROVE Inv OBVIOUS
<1>1. ConnectionOK BY DEF Init, ConnectionOK, Connections, LoadersConnection, Phases
<1>2. RowsOK BY NewRowType DEF Init, RowsOK
<1>3. CopiesOK BY DEF Init, CopiesOK
<1>4. ThreadsOK BY DEF Init, ThreadsOK, Steps, Phases
<1>5. HistoryOK BY DEF Init, HistoryOK
<1>6. failures \in 0 .. MaxFailures BY UserAssumption DEF Init
<1> QED BY <1>1, <1>2, <1>3, <1>4, <1>5, <1>6 DEF Inv

LEMMA NextInv == Inv /\ [Next]_vars => Inv'
<1> SUFFICES ASSUME Inv, [Next]_vars PROVE Inv' OBVIOUS
<1>1. ASSUME NEW q \in Requests, Request(q) PROVE Inv'
  <2>1. PICK op \in Operations, u \in IDs : Arrive(q, op, u) BY <1>1 DEF Request, IDs
  <2> QED BY <2>1, ArriveKeepsInv
<1>2. ASSUME NEW q \in Requests, Thread(q) PROVE Inv'
  BY <1>2, ConnectionStepKeepsInv, FindKeepsInv, WriteKeepsInv, ChangeFoundKeepsInv,
     AnswerFoundKeepsInv DEF Thread
<1>3. CASE UNCHANGED vars
  BY <1>3 DEF vars, connectionVars, historyVars, Inv, ConnectionOK, RowsOK, CopiesOK,
              ThreadsOK, HistoryOK
<1> QED BY <1>1, <1>2, <1>3 DEF Next

\* The types: the bounds of the columns hold, no thread executes a statement on null, and
\* one that writes back has the row it read.
THEOREM UsersTypeCorrect == Spec => []TypeOK
<1>1. Inv => TypeOK BY InvSplits
<1> QED BY <1>1, InitInv, NextInv, PTL DEF Spec

\* No empty place of preferiti hides a preference from getUserPreferitiByID, however
\* requests overlap and statements fail.
THEOREM PreferencesCorrect == Spec => []NoPreferenceIsHidden
<1>1. Inv => NoPreferenceIsHidden BY InvSplits
<1> QED BY <1>1, InitInv, NextInv, PTL DEF Spec

-----------------------------------------------------------------------------
(* The connection in the field.                                             *)

\* What every step of a thread does.
LEMMA ThreadMoves ==
    ASSUME Inv, NEW q \in Requests, Thread(q)
    PROVE  /\ pc[q] \in Steps
           /\ \E to \in Steps \cup {"done"} : pc' = [pc EXCEPT ![q] = to]
           /\ UNCHANGED <<args, overlapped>>
<1>1. pc[q] \in Steps
  BY DEF Thread, TestConnection, OpenConnection, ReturnConnection, CloseConnection,
         CloseFails, GoOn, FailsOn, NullConnection, FindUser, FindFails, WriteUser, WriteFails,
         ChangeFound, AnswerFound,
         Executes, Goto, Steps
<1>2. \E to \in Steps \cup {"done"} : pc' = [pc EXCEPT ![q] = to]
  BY DEF Thread, TestConnection, OpenConnection, ReturnConnection, CloseConnection,
         CloseFails, GoOn, FailsOn, NullConnection, FindUser, FindFails, WriteUser, WriteFails,
         ChangeFound, AnswerFound,
         Executes, Goto, Steps
<1>3. args' = args
  BY DEF Thread, TestConnection, OpenConnection, ReturnConnection, CloseConnection,
         CloseFails, GoOn, FailsOn, NullConnection, FindUser, FindFails, WriteUser, WriteFails,
         ChangeFound, AnswerFound,
         Executes
<1>4. overlapped' = overlapped
  <2>1. NoAnswer \/ \E a : AnswerWith(q, a)
    BY DEF Thread, TestConnection, OpenConnection, ReturnConnection, CloseConnection,
           CloseFails, GoOn, FailsOn, NullConnection, FindUser, FindFails, WriteUser, WriteFails,
           ChangeFound, AnswerFound
  <2> QED BY <2>1 DEF NoAnswer, AnswerWith, historyVars
<1> QED BY <1>1, <1>2, <1>3, <1>4

\* The steps that touch the field or what is open, and the others.
LEMMA ThreadConnects ==
    ASSUME NEW q \in Requests, Thread(q)
    PROVE  \/ OpenConnection(q) \/ CloseConnection(q) \/ NullConnection(q)
           \/ /\ connection' = connection /\ pc[q] # "nulling"
              /\ open' \subseteq open /\ open' \cup lost' = open \cup lost
<1>1. \/ connection' = connection /\ pc[q] # "nulling"
      \/ OpenConnection(q) \/ CloseConnection(q) \/ NullConnection(q)
  BY DEF Thread, TestConnection, ReturnConnection, CloseFails, GoOn, FindUser, FindFails,
         WriteUser, WriteFails, ChangeFound, AnswerFound, Executes, Goto, connectionVars
<1>2. \/ UNCHANGED <<open, lost>>
      \/ \E c \in open \cup lost : FailsOn(c)
      \/ OpenConnection(q) \/ CloseConnection(q) \/ NullConnection(q)
  BY DEF Thread, TestConnection, ReturnConnection, CloseFails, FindUser, FindFails, Usable,
         WriteUser, WriteFails, ChangeFound, AnswerFound, connectionVars
<1>3. ASSUME NEW c \in open \cup lost, FailsOn(c)
      PROVE  open' \subseteq open /\ open' \cup lost' = open \cup lost
  BY <1>3 DEF FailsOn
<1> QED BY <1>1, <1>2, <1>3

LEMMA FieldStep == Inv /\ FieldIsUsable /\ [Next]_vars => FieldIsUsable'
<1> SUFFICES ASSUME Inv, FieldIsUsable, [Next]_vars,
                    connection' \notin open' \cup lost' \cup {Null}
             PROVE  \E q \in Requests : pc'[q] = "nulling"
  BY DEF FieldIsUsable
<1>0. pc \in [Requests -> {"idle", "done"} \cup Steps] BY DEF Inv, ThreadsOK
<1>1. ASSUME NEW q \in Requests, Request(q) PROVE \E p \in Requests : pc'[p] = "nulling"
  <2>1. /\ pc' = [pc EXCEPT ![q] = "connecting"] /\ pc[q] = "idle"
        /\ UNCHANGED <<connection, open, lost>>
    BY <1>1 DEF Request, Arrive, Goto, connectionVars
  <2>2. PICK p \in Requests : pc[p] = "nulling" BY <2>1 DEF FieldIsUsable
  <2> QED BY <1>0, <2>1, <2>2
<1>2. ASSUME NEW q \in Requests, Thread(q) PROVE \E p \in Requests : pc'[p] = "nulling"
  <2>1. CASE OpenConnection(q)
    <3>1. UNCHANGED <<connection, open, lost>> BY <2>1 DEF OpenConnection
    <3>2. PICK p \in Requests : pc[p] = "nulling" BY <3>1 DEF FieldIsUsable
    <3> QED BY <1>0, <2>1, <3>2 DEF OpenConnection, Goto
  <2>2. CASE CloseConnection(q)
    <3>1. connection # Null BY <2>2 DEF CloseConnection
    <3> QED BY <1>0, <2>2, <3>1 DEF CloseConnection, Goto
  <2>3. CASE NullConnection(q) BY <2>3 DEF NullConnection
  <2>4. CASE /\ connection' = connection /\ pc[q] # "nulling"
             /\ open' \cup lost' = open \cup lost
    <3>1. PICK p \in Requests : pc[p] = "nulling" BY <2>4 DEF FieldIsUsable
    <3> QED BY <1>0, <1>2, <2>4, <3>1, ThreadMoves
  <2> QED BY <1>2, <2>1, <2>2, <2>3, <2>4, ThreadConnects
<1>3. CASE UNCHANGED vars BY <1>3 DEF vars, connectionVars, FieldIsUsable
<1> QED BY <1>1, <1>2, <1>3 DEF Next

\* Whoever closes whose connection, and whichever statement or close fails, the requests
\* never leave a connection in the field that one of them has closed: one that is dead there
\* was broken off by a failure, which nothing in the code notices.
THEOREM FieldCorrect == Spec => []FieldIsUsable
<1>1. Init => FieldIsUsable BY DEF Init, FieldIsUsable
<1> QED BY <1>1, InitInv, NextInv, FieldStep, PTL DEF Spec

\* As long as no requests overlap, one is served at a time, and it opens a connection only
\* when the field, and with it everything open, is gone.
NoLeak ==
    overlapped = {} =>
        /\ \A p, q \in Serving : p = q
        /\ open \subseteq {connection}
        /\ \A q \in Requests : /\ pc[q] = "opening" => connection = Null
                               /\ pc[q] = "nulling" => open = {}

LEMMA NoLeakStep == Inv /\ NoLeak /\ [Next]_vars => NoLeak'
<1> SUFFICES ASSUME Inv, NoLeak, [Next]_vars, overlapped' = {}
             PROVE  /\ \A p, q \in Serving' : p = q
                    /\ open' \subseteq {connection'}
                    /\ \A q \in Requests : /\ pc'[q] = "opening" => connection' = Null
                                           /\ pc'[q] = "nulling" => open' = {}
  BY DEF NoLeak
<1>0. /\ pc \in [Requests -> {"idle", "done"} \cup Steps]
      /\ open \subseteq Connections /\ Null \notin Connections
  BY NullAssumption DEF Inv, ThreadsOK, ConnectionOK
<1>1. ASSUME NEW q \in Requests, Request(q)
      PROVE  /\ \A p, r \in Serving' : p = r
             /\ open' \subseteq {connection'}
             /\ \A p \in Requests : /\ pc'[p] = "opening" => connection' = Null
                                    /\ pc'[p] = "nulling" => open' = {}
  <2>1. /\ pc' = [pc EXCEPT ![q] = "connecting"] /\ pc[q] = "idle"
        /\ UNCHANGED <<connection, open>>
        /\ overlapped' = IF Serving = {} THEN overlapped ELSE overlapped \cup Serving \cup {q}
    BY <1>1 DEF Request, Arrive, Goto, connectionVars
  <2>2. Serving = {} /\ overlapped = {} BY <2>1
  <2>3. Serving' \subseteq {q} BY <1>0, <2>1, <2>2 DEF Serving
  <2> QED BY <1>0, <2>1, <2>2, <2>3 DEF NoLeak
<1>2. ASSUME NEW q \in Requests, Thread(q)
      PROVE  /\ \A p, r \in Serving' : p = r
             /\ open' \subseteq {connection'}
             /\ \A p \in Requests : /\ pc'[p] = "opening" => connection' = Null
                                    /\ pc'[p] = "nulling" => open' = {}
  <2>1. PICK to \in Steps \cup {"done"} : pc' = [pc EXCEPT ![q] = to] /\ pc[q] \in Steps
    BY <1>2, ThreadMoves
  <2>2. overlapped = {} BY <1>2, ThreadMoves
  <2>3. Serving = {q} BY <2>1, <2>2 DEF NoLeak, Serving
  <2>4. Serving' \subseteq {q} BY <1>0, <2>1, <2>3 DEF Serving
  <2>5. ASSUME NEW p \in Requests, p # q PROVE pc'[p] \notin Steps
    BY <1>0, <2>4, <2>5 DEF Serving
  <2>6. CASE OpenConnection(q)
    <3>1. pc[q] = "opening" /\ pc'[q] = "returning" BY <1>0, <2>6 DEF OpenConnection, Goto
    <3>2. connection = Null /\ open = {} BY <1>0, <2>2, <3>1 DEF NoLeak
    <3>3. open' \subseteq {connection'} BY <2>6, <3>2 DEF OpenConnection
    <3> QED BY <2>4, <2>5, <3>1, <3>3 DEF Steps
  <2>7. CASE CloseConnection(q)
    <3>1. /\ open' = {} /\ pc'[q] # "opening"
      BY <1>0, <2>2, <2>7 DEF CloseConnection, Goto, NoLeak
    <3> QED BY <2>4, <2>5, <3>1 DEF Steps
  <2>8. CASE NullConnection(q)
    <3>1. /\ pc[q] = "nulling" /\ pc'[q] \in {"done", "found"}
      BY <1>0, <2>8 DEF NullConnection, GoOn, Goto
    <3>2. open = {} BY <2>2, <3>1 DEF NoLeak
    <3> QED BY <2>4, <2>5, <2>8, <3>1, <3>2 DEF NullConnection, Steps
  <2>9. CASE connection' = connection /\ open' \subseteq open /\ ~CloseConnection(q)
    <3>1. pc'[q] = "opening" => connection = Null
      BY <1>0, <1>2
      DEF Thread, TestConnection, OpenConnection, ReturnConnection, CloseConnection,
          CloseFails, GoOn, FailsOn, NullConnection, FindUser, FindFails, WriteUser, WriteFails,
          ChangeFound, AnswerFound,
          Executes, Goto
    <3>2. pc'[q] # "nulling"
      BY <1>0, <1>2, <2>9
      DEF Thread, TestConnection, OpenConnection, ReturnConnection, CloseConnection,
          CloseFails, GoOn, FailsOn, NullConnection, FindUser, FindFails, WriteUser, WriteFails,
          ChangeFound, AnswerFound,
          Executes, Goto
    <3>3. open' \subseteq {connection'} BY <2>2, <2>9 DEF NoLeak
    <3> QED BY <2>4, <2>5, <2>9, <3>1, <3>2, <3>3 DEF Steps
  <2> QED BY <1>2, <2>6, <2>7, <2>8, <2>9, ThreadConnects
<1>3. CASE UNCHANGED vars
  BY <1>3 DEF vars, connectionVars, historyVars, NoLeak, Serving
<1> QED BY <1>1, <1>2, <1>3 DEF Next

\* Only requests that overlap leave connections open that nobody refers to.
THEOREM LeaksCorrect == Spec => []LeaksComeFromOverlaps
<1>1. Init => NoLeak BY DEF Init, NoLeak, Serving, Steps
<1>2. NoLeak => LeaksComeFromOverlaps BY DEF NoLeak, LeaksComeFromOverlaps
<1> QED BY <1>1, <1>2, InitInv, NextInv, NoLeakStep, PTL DEF Spec

-----------------------------------------------------------------------------
(* What a request can count on when it is served while no other one is,     *)
(* whatever the overlaps before it have done.                               *)

-----------------------------------------------------------------------------
(* The invariant.                                                           *)

\* A row saved by a request is there once the request has ended; another request is for
\* it only then.
SavedOK ==
    /\ \A p \in Requests : rows[p] # Null => pc[p] = "done"
    /\ \A q \in Requests :
         args[q] # NoArgs /\ args[q].user \in Requests \ {q} => pc[args[q].user] = "done"

\* What the steps of a request served alone find.
Ready(q) ==
    LET op == args[q].op IN
    /\ pc[q] = "connecting" => connection \in open \cup {Null}
    /\ pc[q] = "returning" => connection \in open
    /\ pc[q] = "executing" => handle[q] \in open /\ connection # Null
    /\ pc[q] = "closing" => connection # Null
    /\ pc[q] = "found" => connection = Null /\ phase[q] = "find"
    /\ phase[q] = "find" => /\ op \in Finds \cup Updates
                            /\ pc[q] \in {"closing", "nulling", "found"}
                                 => copy[q] = rows[args[q].user]
    /\ phase[q] = "write" /\ op \in Updates \ {"updatePaymentMethod"} => Fits(copy[q])

AloneOK == failures = 0 => \A q \in Serving \ overlapped : Serving = {q} /\ Ready(q)

-----------------------------------------------------------------------------
(* Rows that are not there.                                                 *)

\* Only the request that saves a row makes one where there is none.
LEMMA OnlySavingMakesRows ==
    ASSUME Inv, NEW u \in IDs, [Next]_vars, rows[u] = Null, rows'[u] # Null
    PROVE  u \in Requests /\ pc[u] \in Steps /\ pc'[u] = "done"
<1>0. /\ rows \in [IDs -> Row \cup {Null}]
      /\ pc \in [Requests -> {"idle", "done"} \cup Steps]
  BY DEF Inv, RowsOK, ThreadsOK
<1>1. PICK q \in Requests : Thread(q)
  BY DEF Next, Request, Arrive, vars
<1>2. WriteUser(q) \/ WriteFails(q)
  BY <1>1 DEF Thread, TestConnection, OpenConnection, ReturnConnection, CloseConnection,
              CloseFails, NullConnection, FindUser, FindFails, ChangeFound, AnswerFound
<1>3. rows' = Written(q) BY <1>2 DEF WriteUser, WriteFails
<1>4. args[q].op = "save" /\ u = q
  <2>1. CASE args[q].op = "save"
    <3>1. rows' = [rows EXCEPT ![q] = NewRow(q)] BY <1>3, <2>1 DEF Written
    <3> QED BY <1>0, <2>1, <3>1
  <2>2. CASE args[q].op = "deleteByID"
    <3>1. rows' = [rows EXCEPT ![args[q].user] = Null] BY <1>3, <2>2 DEF Written
    <3> QED BY <1>0, <3>1
  <2>3. CASE args[q].op \notin {"save", "deleteByID"}
    <3>1. rows' = IF rows[args[q].user] = Null THEN rows
                  ELSE [rows EXCEPT ![args[q].user] = copy[q]]
      BY <1>3, <2>3 DEF Written
    <3> QED BY <1>0, <3>1
  <2> QED BY <2>1, <2>2, <2>3
<1>5. Goto(q, "executing", "done") BY <1>2, <1>4 DEF WriteUser, WriteFails, Executes
<1> QED BY <1>0, <1>4, <1>5 DEF Goto, Steps

LEMMA SavedStep == Inv /\ SavedOK /\ [Next]_vars => SavedOK'
<1> SUFFICES ASSUME Inv, SavedOK, [Next]_vars PROVE SavedOK' OBVIOUS
<1>0. /\ pc \in [Requests -> {"idle", "done"} \cup Steps]
      /\ args \in [Requests -> [op : Operations, user : IDs] \cup {NoArgs}]
  BY DEF Inv, ThreadsOK
<1>1. ASSUME NEW p \in Requests, pc[p] = "done" PROVE pc'[p] = "done"
  <2>1. ASSUME NEW q \in Requests, Request(q) PROVE pc'[p] = "done"
    BY <1>0, <1>1, <2>1 DEF Request, Arrive, Goto
  <2>2. ASSUME NEW q \in Requests, Thread(q) PROVE pc'[p] = "done"
    <3>1. pc[q] \in Steps /\ \E to : pc' = [pc EXCEPT ![q] = to] BY <2>2, ThreadMoves
    <3> QED BY <1>0, <1>1, <3>1 DEF Steps
  <2>3. CASE UNCHANGED vars BY <1>1, <2>3 DEF vars
  <2> QED BY <2>1, <2>2, <2>3 DEF Next
<1>2. ASSUME NEW p \in Requests, rows'[p] # Null PROVE pc'[p] = "done"
  <2>1. p \in IDs BY DEF IDs
  <2>2. CASE rows[p] = Null BY <1>2, <2>1, <2>2, OnlySavingMakesRows
  <2>3. CASE rows[p] # Null BY <1>1, <2>3 DEF SavedOK
  <2> QED BY <2>2, <2>3
<1>3. ASSUME NEW q \in Requests, args'[q] # NoArgs, args'[q].user \in Requests \ {q}
      PROVE  pc'[args'[q].user] = "done"
  <2>1. CASE args'[q] = args[q] BY <1>1, <1>3, <2>1 DEF SavedOK
  <2>2. CASE args'[q] # args[q]
    <3>1. PICK p \in Requests : Request(p)
      BY <2>2, ThreadMoves DEF Next, vars
    <3>2. PICK op \in Operations, u \in IDs :
            /\ u \in IF op = "save" THEN {p} ELSE {v \in IDs : v \in Users \/ rows[v] # Null}
            /\ Arrive(p, op, u)
      BY <3>1 DEF Request, IDs
    <3>3. p = q /\ args'[q] = [op |-> op, user |-> u]
      BY <1>0, <2>2, <3>2 DEF Arrive
    <3>4. rows[u] # Null BY <1>3, <3>2, <3>3, UserAssumption
    <3> QED BY <1>1, <1>3, <3>3, <3>4 DEF SavedOK
  <2> QED BY <2>1, <2>2
<1> QED BY <1>2, <1>3 DEF SavedOK

-----------------------------------------------------------------------------
(* A request served alone.                                                  *)

\* The state its steps are taken in.
LEMMA ServedAloneFacts ==
    ASSUME Inv, AloneOK, NEW p \in Requests, Thread(p), failures' = 0,
           NEW q \in Requests, q \notin overlapped', q \in Serving \/ p = q
    PROVE  /\ p = q /\ failures = 0 /\ q \notin overlapped
           /\ Serving = {q} /\ Ready(q)
           /\ args[q] \in [op : Operations, user : IDs]
           /\ rows[args[q].user] \in Row \cup {Null}
           /\ UNCHANGED <<args, failures>>
<1>1. failures' = failures \/ DatabaseFails
  BY DEF Thread, TestConnection, OpenConnection, ReturnConnection, CloseConnection,
         CloseFails, GoOn, FailsOn, NullConnection, FindUser, FindFails, WriteUser, WriteFails,
         ChangeFound, AnswerFound
<1>2. failures = 0 /\ failures' = failures BY <1>1, UserAssumption DEF Inv, DatabaseFails
<1>3. pc[p] \in Steps /\ UNCHANGED <<args, overlapped>> BY ThreadMoves
<1>4. q \in Serving BY <1>3 DEF Serving
<1>5. Serving = {q} /\ Ready(q) BY <1>2, <1>3, <1>4 DEF AloneOK
<1>6. p = q BY <1>3, <1>5 DEF Serving
<1>7. pc[q] # "idle" BY <1>3, <1>6 DEF Steps
<1>8. args[q] \in [op : Operations, user : IDs] BY <1>7 DEF Inv, ThreadsOK
<1>9. rows[args[q].user] \in Row \cup {Null} BY <1>8 DEF Inv, RowsOK
<1> QED BY <1>2, <1>3, <1>5, <1>6, <1>8, <1>9

\* Every step of a request served alone leaves it what the next one needs.
LEMMA ReadyStep ==
    ASSUME Inv, NEW q \in Requests, Thread(q), Ready(q), failures' = 0,
           failures = 0, args[q] \in [op : Operations, user : IDs], args' = args
    PROVE  Ready(q)'
<1>0. /\ pc \in [Requests -> {"idle", "done"} \cup Steps]
      /\ phase \in [Requests -> Phases]
      /\ copy \in [Requests -> Row \cup {Null}]
      /\ handle \in [Requests -> Connections \cup {Null}]
      /\ rows \in [IDs -> Row \cup {Null}]
      /\ open \subseteq Connections /\ Null \notin Connections
      /\ args'[q] = args[q]
  BY NullAssumption DEF Inv, ThreadsOK, CopiesOK, ConnectionOK, RowsOK
<1>00. ~DatabaseFails BY DEF DatabaseFails
<1>1. CASE TestConnection(q)
  <2>1. /\ pc[q] = "connecting"
        /\ pc'[q] = IF connection = Null THEN "opening" ELSE "returning"
        /\ UNCHANGED <<connectionVars, rows, phase, copy>>
    BY <1>0, <1>1 DEF TestConnection, Goto
  <2> QED BY <1>0, <2>1 DEF Ready, connectionVars
<1>2. CASE OpenConnection(q)
  <2>1. /\ pc'[q] = "returning" /\ connection' \in open'
        /\ UNCHANGED <<rows, phase, copy, handle>>
    BY <1>0, <1>00, <1>2 DEF OpenConnection, Goto
  <2> QED BY <1>0, <2>1 DEF Ready
<1>3. CASE ReturnConnection(q)
  <2>1. pc[q] = "returning" BY <1>3 DEF ReturnConnection, Goto
  <2>2. connection \in open /\ connection # Null BY <1>0, <2>1 DEF Ready
  <2>3. /\ pc'[q] = "executing" /\ handle'[q] = connection
        /\ UNCHANGED <<connection, open, rows, phase, copy>>
    BY <1>0, <1>3, <2>2 DEF ReturnConnection, Goto
  <2> QED BY <1>0, <2>2, <2>3 DEF Ready
<1>4. CASE CloseConnection(q)
  <2>1. pc[q] = "closing" BY <1>4 DEF CloseConnection, Goto
  <2>2. connection # Null BY <2>1 DEF Ready
  <2>3. /\ pc'[q] = "nulling" /\ UNCHANGED <<connection, handle, rows, phase, copy>>
    BY <1>0, <1>4, <2>2 DEF CloseConnection, Goto
  <2> QED BY <1>0, <2>1, <2>3 DEF Ready
<1>5. CASE NullConnection(q)
  <2>1. /\ pc[q] = "nulling" /\ connection' = Null
        /\ pc'[q] = IF phase[q] = "write" THEN "done" ELSE "found"
        /\ UNCHANGED <<handle, rows, phase, copy>>
    BY <1>0, <1>5 DEF NullConnection, GoOn, Goto
  <2>2. phase[q] \in {"find", "write"} BY <1>0 DEF Phases
  <2> QED BY <1>0, <2>1, <2>2 DEF Ready
<1>6. CASE FindUser(q)
  <2>1. /\ pc[q] = "executing" /\ pc'[q] = "closing" /\ phase[q] = "find"
        /\ copy'[q] = rows[args[q].user]
        /\ UNCHANGED <<connection, open, rows, phase>>
    BY <1>0, <1>6 DEF FindUser, Executes, Goto
  <2> QED BY <1>0, <2>1 DEF Ready
<1>7. CASE FindFails(q)
  <2>1. pc[q] = "executing" /\ ~Usable(q) BY <1>00, <1>7 DEF FindFails, FailsOn, Executes, Goto
  <2> QED BY <2>1 DEF Ready, Usable
<1>8. CASE WriteUser(q) \/ WriteFails(q)
  <2>1. /\ pc[q] = "executing" /\ pc'[q] \in {"closing", "done"} /\ phase[q] = "write"
        /\ UNCHANGED <<connection, open, phase, copy>>
    BY <1>0, <1>00, <1>8 DEF WriteUser, WriteFails, FailsOn, Executes, Goto
  <2> QED BY <1>0, <2>1 DEF Ready
<1>9. CASE ChangeFound(q)
  <2>1. /\ pc[q] = "found" /\ pc'[q] = "connecting" /\ phase'[q] = "write"
        /\ copy'[q] = Changed(args[q].op, copy[q], q)
        /\ args[q].op \in Updates /\ copy[q] # Null
        /\ UNCHANGED <<connectionVars, rows>>
    BY <1>0, <1>9 DEF ChangeFound, Goto
  <2>2. ASSUME args[q].op # "updatePaymentMethod" PROVE Fits(copy'[q])
    <3>1. copy[q] = rows[args[q].user] BY <2>1 DEF Ready
    <3>2. Len(copy[q].cards) <= MaxCards BY <2>1, <3>1 DEF Inv, RowsOK
    <3>3. copy[q] \in Row BY <1>0, <2>1
    <3>4. copy'[q].cards = copy[q].cards
      <4>1. CASE args[q].op \in DOMAIN ColumnUpdates
        <5>1. args[q].op # "updatePreferiti" BY <4>1 DEF ColumnUpdates
        <5> QED BY <2>1, <2>2, <3>3, <4>1, <5>1 DEF Changed, Row
      <4>2. CASE args[q].op = "updatePreferiti"
        BY <2>1, <3>3, <4>2 DEF Changed, Row, ColumnUpdates
      <4> QED BY <2>1, <2>2, <4>1, <4>2 DEF Updates
    <3> QED BY <3>2, <3>4 DEF Fits
  <2>3. connection = Null BY <2>1 DEF Ready
  <2> QED BY <1>0, <2>1, <2>2, <2>3 DEF Ready, connectionVars, Fits
<1>10. CASE AnswerFound(q)
  <2>1. /\ pc[q] = "found" /\ pc'[q] = "done"
        /\ UNCHANGED <<connectionVars, rows, phase, copy>>
    BY <1>0, <1>10 DEF AnswerFound, Goto
  <2> QED BY <1>0, <2>1 DEF Ready, connectionVars
<1>11. ~CloseFails(q) BY <1>00 DEF CloseFails, FailsOn
<1> QED BY <1>1, <1>2, <1>3, <1>4, <1>5, <1>6, <1>7, <1>8, <1>9, <1>10, <1>11 DEF Thread

\* Only a failure breaks off a connection.
NothingLost == failures = 0 => lost = {}

LEMMA NothingLostStep == Inv /\ NothingLost /\ [Next]_vars => NothingLost'
<1> SUFFICES ASSUME Inv, NothingLost, [Next]_vars, failures' = 0 PROVE lost' = {}
  BY DEF NothingLost
<1>0. ~DatabaseFails BY UserAssumption DEF DatabaseFails, Inv
<1>1. ASSUME NEW q \in Requests, Request(q) PROVE UNCHANGED <<lost, failures>>
  BY <1>1 DEF Request, Arrive, connectionVars
<1>2. ASSUME NEW q \in Requests, Thread(q) PROVE UNCHANGED <<lost, failures>>
  BY <1>0, <1>2
  DEF Thread, TestConnection, OpenConnection, ReturnConnection, CloseConnection, CloseFails,
      FailsOn, NullConnection, FindUser, FindFails, WriteUser, WriteFails, ChangeFound,
      AnswerFound, connectionVars
<1>3. CASE UNCHANGED vars BY <1>3 DEF vars, connectionVars, NothingLost
<1> QED BY <1>1, <1>2, <1>3 DEF Next, NothingLost

LEMMA AloneStep ==
    Inv /\ NothingLost /\ FieldIsUsable /\ AloneOK /\ [Next]_vars => AloneOK'
<1> SUFFICES ASSUME Inv, NothingLost, FieldIsUsable, AloneOK, [Next]_vars, failures' = 0,
                    NEW q \in Serving' \ overlapped'
             PROVE  Serving' = {q} /\ Ready(q)'
  BY DEF AloneOK, Serving
<1>0. /\ pc \in [Requests -> {"idle", "done"} \cup Steps] /\ q \in Requests
      /\ args \in [Requests -> [op : Operations, user : IDs] \cup {NoArgs}]
      /\ phase \in [Requests -> Phases]
  BY DEF Inv, ThreadsOK, Serving
<1>1. ASSUME NEW p \in Requests, Request(p) PROVE Serving' = {q} /\ Ready(q)'
  <2>1. PICK op \in Operations, u \in IDs : Arrive(p, op, u) BY <1>1 DEF Request, IDs
  <2>2. /\ pc' = [pc EXCEPT ![p] = "connecting"] /\ pc[p] = "idle"
        /\ UNCHANGED connectionVars
        /\ overlapped' = IF Serving = {} THEN overlapped ELSE overlapped \cup Serving \cup {p}
        /\ args'[p].op = op
        /\ phase'[p] = IF op \in {"save", "deleteByID"} THEN "write" ELSE "find"
    BY <1>0, <2>1 DEF Arrive, Goto
  <2>3. Serving' \subseteq Serving \cup {p} BY <1>0, <2>2 DEF Serving
  <2>4. Serving = {} /\ p = q BY <2>2, <2>3
  <2>5. connection \in open \cup {Null}
    <3>1. failures = 0 BY <2>1 DEF Arrive
    <3> QED BY <2>4, <3>1 DEF NothingLost, FieldIsUsable, Serving, Steps
  <2>6. Serving' = {q} BY <2>3, <2>4
  <2>7. pc'[q] = "connecting" BY <1>0, <2>2, <2>4
  <2>8. phase'[q] = "write" => args'[q].op \notin Updates
    BY <2>2, <2>4 DEF Updates, ColumnUpdates
  <2>9. phase'[q] = "find" => args'[q].op \in Finds \cup Updates
    BY <2>2, <2>4, UserAssumption
  <2> QED BY <2>2, <2>5, <2>6, <2>7, <2>8, <2>9 DEF Ready, connectionVars
<1>2. ASSUME NEW p \in Requests, Thread(p) PROVE Serving' = {q} /\ Ready(q)'
  <2>1. pc[p] \in Steps /\ \E to : pc' = [pc EXCEPT ![p] = to] BY <1>2, ThreadMoves
  <2>2. Serving' \subseteq Serving BY <1>0, <2>1 DEF Serving
  <2>3. q \notin overlapped' /\ q \in Serving BY <2>2
  <2>4. /\ p = q /\ failures = 0 /\ Serving = {q} /\ Ready(q) /\ args' = args
        /\ args[q] \in [op : Operations, user : IDs]
    BY <1>0, <1>2, <2>3, ServedAloneFacts
  <2>5. Ready(q)' BY <1>0, <1>2, <2>4, ReadyStep
  <2> QED BY <2>2, <2>4, <2>5
<1>3. CASE UNCHANGED vars
  <2>1. Serving' = Serving /\ overlapped' = overlapped /\ failures = 0 /\ Ready(q)' = Ready(q)
    BY <1>3 DEF vars, connectionVars, historyVars, Serving, Ready
  <2> QED BY <2>1 DEF AloneOK
<1> QED BY <1>1, <1>2, <1>3 DEF Next

-----------------------------------------------------------------------------
(* What it answers.                                                         *)

\* What ServedAlone says of a request that has ended.
WellAnswered(q) ==
    LET op == args[q].op
        row == rows[args[q].user]
    IN  CASE op \in Updates ->
               answer[q] = "no" => row = Null \/ (op = "updatePaymentMethod" /\ ~Fits(copy[q]))
          [] op \in Finds -> answer[q] = "error" => AnswersTo(op, copy[q]) = {"error"}
          [] OTHER -> answer[q] = "ok"

LEMMA WellAnsweredMeans ==
    ServedAlone <=> (failures = 0 => \A q \in Requests \ overlapped :
                                       pc[q] = "done" => WellAnswered(q))
BY DEF ServedAlone, WellAnswered

LEMMA OperationsApart ==
    /\ Finds \cap Updates = {}
    /\ "save" \notin Finds \cup Updates
    /\ "deleteByID" \notin Finds \cup Updates
BY DEF Finds, Updates, ColumnUpdates

\* The step that ends a request served alone answers what ServedAlone says.
LEMMA EndsWellAnswered ==
    ASSUME Inv, NEW q \in Requests, Thread(q), Ready(q), failures' = 0, failures = 0,
           args[q] \in [op : Operations, user : IDs], args' = args, pc'[q] = "done"
    PROVE  WellAnswered(q)'
<1>0. /\ pc \in [Requests -> {"idle", "done"} \cup Steps]
      /\ phase \in [Requests -> Phases]
      /\ answer \in [Requests -> Answers \cup {"none"}]
      /\ open \subseteq Connections /\ Null \notin Connections
      /\ args'[q] = args[q]
  BY NullAssumption DEF Inv, ThreadsOK, HistoryOK, ConnectionOK
<1>00. ~DatabaseFails BY DEF DatabaseFails
<1>1. ASSUME AnswerWith(q, "ok") PROVE WellAnswered(q)'
  <2>1. answer'[q] = "ok" BY <1>0, <1>1 DEF AnswerWith
  <2> QED BY <2>1 DEF WellAnswered
<1>2. CASE ReturnConnection(q)
  <2>1. pc[q] = "returning" BY <1>2 DEF ReturnConnection, Goto
  <2>2. connection # Null BY <1>0, <2>1 DEF Ready
  <2> QED BY <1>0, <1>2, <2>2 DEF ReturnConnection, Goto
<1>3. CASE CloseConnection(q)
  <2>1. pc[q] = "closing" BY <1>3 DEF CloseConnection, Goto
  <2>2. connection # Null BY <2>1 DEF Ready
  <2> QED BY <1>0, <1>3, <2>2 DEF CloseConnection, Goto
<1>4. CASE NullConnection(q) BY <1>0, <1>1, <1>4 DEF NullConnection, GoOn, Goto
<1>5. CASE WriteUser(q)
  <2>1. AnswerWith(q, "ok") BY <1>0, <1>5 DEF WriteUser, Executes, Goto
  <2> QED BY <1>1, <2>1
<1>6. CASE WriteFails(q)
  <2>1. pc[q] = "executing" /\ ~MayWrite(q) /\ phase[q] = "write" /\ UNCHANGED copy
    BY <1>00, <1>6 DEF WriteFails, FailsOn, Executes, Goto
  <2>2. Usable(q) BY <2>1 DEF Ready, Usable
  <2>3. args[q].op \in Updates /\ ~Fits(copy[q]) BY <2>1, <2>2 DEF MayWrite
  <2>4. args[q].op = "updatePaymentMethod" BY <2>1, <2>3 DEF Ready
  <2>5. ~Fits(copy[q])' BY <2>1, <2>3 DEF Fits
  <2>6. args'[q].op \in Updates /\ args'[q].op = "updatePaymentMethod" BY <1>0, <2>3, <2>4
  <2>7. args'[q].op \notin Finds BY <2>6, OperationsApart
  <2> QED BY <2>5, <2>6, <2>7 DEF WellAnswered
<1>7. CASE AnswerFound(q)
  <2>1. PICK a \in AnswersTo(args[q].op, copy[q]) : AnswerWith(q, a) BY <1>7 DEF AnswerFound
  <2>2. /\ pc[q] = "found" /\ UNCHANGED <<rows, copy>>
        /\ args[q].op \in Finds \/ copy[q] = Null
    BY <1>7 DEF AnswerFound, Goto
  <2>3. answer'[q] = a BY <1>0, <2>1 DEF AnswerWith
  <2>4. copy[q] = rows[args[q].user] /\ args[q].op \in Finds \cup Updates BY <2>2 DEF Ready
  <2>5. CASE args[q].op \in Finds
    <3>1. args'[q].op \in Finds /\ args'[q].op \notin Updates BY <1>0, <2>5, OperationsApart
    <3>2. a = "error" => AnswersTo(args[q].op, copy[q]) = {"error"}
      BY <2>1 DEF AnswersTo
    <3>3. AnswersTo(args'[q].op, copy'[q]) = AnswersTo(args[q].op, copy[q])
      BY <1>0, <2>2
    <3> QED BY <2>3, <3>1, <3>2, <3>3 DEF WellAnswered, AnswersTo
  <2>6. CASE args[q].op \in Updates
    <3>1. args'[q].op \in Updates /\ args'[q].op \notin Finds BY <1>0, <2>6, OperationsApart
    <3>2. rows'[args'[q].user] = Null
      <4>1. copy[q] = Null BY <1>0, <2>2, <3>1
      <4> QED BY <1>0, <2>2, <2>4, <4>1
    <3> QED BY <3>1, <3>2 DEF WellAnswered
  <2> QED BY <2>4, <2>5, <2>6
<1>8. CASE \/ TestConnection(q) \/ OpenConnection(q) \/ FindUser(q) \/ FindFails(q)
           \/ ChangeFound(q)
  BY <1>0, <1>8 DEF TestConnection, OpenConnection, FindUser, FindFails, ChangeFound,
                    Executes, Goto
<1>9. ~CloseFails(q) BY <1>00 DEF CloseFails, FailsOn
<1> QED BY <1>2, <1>3, <1>4, <1>5, <1>6, <1>7, <1>8, <1>9 DEF Thread

\* A step of another request does not change what a request has been answered.
LEMMA OthersLeaveAnswers ==
    ASSUME Inv, NEW p \in Requests, Request(p) \/ Thread(p), NEW q \in Requests, p # q
    PROVE  /\ answer'[q] = answer[q] /\ args'[q] = args[q] /\ copy'[q] = copy[q]
           /\ pc'[q] = pc[q]
<1>0. /\ answer \in [Requests -> Answers \cup {"none"}]
      /\ copy \in [Requests -> Row \cup {Null}]
      /\ args \in [Requests -> [op : Operations, user : IDs] \cup {NoArgs}]
      /\ pc \in [Requests -> {"idle", "done"} \cup Steps]
  BY DEF Inv, ThreadsOK, CopiesOK, HistoryOK
<1>1. CASE Request(p) BY <1>0, <1>1 DEF Request, Arrive, Goto
<1>2. CASE Thread(p)
  <2>1. pc'[q] = pc[q] /\ args' = args BY <1>0, <1>2, ThreadMoves
  <2>2. copy'[q] = copy[q]
    BY <1>0, <1>2
    DEF Thread, TestConnection, OpenConnection, ReturnConnection, CloseConnection,
        CloseFails, GoOn, FailsOn, NullConnection, FindUser, FindFails, WriteUser, WriteFails,
        ChangeFound, AnswerFound
  <2>3. NoAnswer \/ \E a : AnswerWith(p, a)
    BY <1>2
    DEF Thread, TestConnection, OpenConnection, ReturnConnection, CloseConnection,
        CloseFails, GoOn, FailsOn, NullConnection, FindUser, FindFails, WriteUser, WriteFails,
        ChangeFound, AnswerFound
  <2>4. answer'[q] = answer[q] BY <1>0, <2>3 DEF NoAnswer, AnswerWith
  <2> QED BY <2>1, <2>2, <2>4
<1> QED BY <1>1, <1>2

LEMMA ServedStep ==
    Inv /\ AloneOK /\ SavedOK /\ ServedAlone /\ [Next]_vars => ServedAlone'
<1> SUFFICES ASSUME Inv, AloneOK, SavedOK, ServedAlone, [Next]_vars, failures' = 0,
                    NEW q \in Requests, q \notin overlapped', pc'[q] = "done"
             PROVE  WellAnswered(q)'
  <2>1. (failures' = 0 => \A r \in Requests \ overlapped' :
                            pc'[r] = "done" => WellAnswered(r)')
          => ServedAlone'
    BY DEF ServedAlone, WellAnswered
  <2> QED BY <2>1
<1>1. CASE \E p \in Requests : p # q /\ (Request(p) \/ Thread(p))
  <2>1. PICK p \in Requests : p # q /\ (Request(p) \/ Thread(p)) BY <1>1
  <2>2. /\ answer'[q] = answer[q] /\ args'[q] = args[q] /\ copy'[q] = copy[q]
        /\ pc[q] = "done"
    BY <2>1, OthersLeaveAnswers
  <2>3. failures = 0 /\ q \notin overlapped
    <3>1. CASE Request(p) BY <3>1 DEF Request, Arrive
    <3>2. CASE Thread(p)
      <4>1. failures' = failures \/ DatabaseFails
        BY <3>2
        DEF Thread, TestConnection, OpenConnection, ReturnConnection, CloseConnection,
            CloseFails, GoOn, FailsOn, NullConnection, FindUser, FindFails, WriteUser, WriteFails,
            ChangeFound, AnswerFound
      <4>2. failures = 0 BY <4>1, UserAssumption DEF Inv, DatabaseFails
      <4> QED BY <3>2, <4>2, ThreadMoves
    <3> QED BY <2>1, <3>1, <3>2
  <2>4. WellAnswered(q) BY <2>2, <2>3, WellAnsweredMeans
  <2>5. args[q] # NoArgs /\ args[q].user \in IDs
    <3>1. args[q] # NoArgs BY <2>2 DEF Inv, ThreadsOK
    <3> QED BY <3>1 DEF Inv, ThreadsOK
  <2>6. rows[args[q].user] = Null => rows'[args[q].user] = Null
    <3> SUFFICES ASSUME rows[args[q].user] = Null, rows'[args[q].user] # Null PROVE FALSE
      OBVIOUS
    <3>1. args[q].user \in Requests /\ pc[args[q].user] \in Steps
      BY <2>5, OnlySavingMakesRows
    <3>2. pc[args[q].user] = "done" BY <2>2, <2>5, <3>1 DEF SavedOK
    <3> QED BY <3>1, <3>2 DEF Steps
  <2>7. Fits(copy[q])' <=> Fits(copy[q]) BY <2>2 DEF Fits
  <2> QED BY <2>2, <2>4, <2>6, <2>7 DEF WellAnswered
<1>2. CASE Thread(q)
  <2>1. /\ failures = 0 /\ Ready(q) /\ args' = args
        /\ args[q] \in [op : Operations, user : IDs]
    BY <1>2, ServedAloneFacts
  <2> QED BY <1>2, <2>1, EndsWellAnswered
<1>3. CASE Request(q)
  <2>1. pc'[q] = "connecting" BY <1>3 DEF Request, Arrive, Goto, Inv, ThreadsOK
  <2> QED BY <2>1
<1>4. CASE UNCHANGED vars
  <2>1. pc[q] = "done" /\ failures = 0 /\ q \notin overlapped
    BY <1>4 DEF vars, historyVars
  <2>2. WellAnswered(q) BY <2>1, WellAnsweredMeans
  <2> QED BY <1>4, <2>2 DEF vars, WellAnswered, Fits
<1> QED BY <1>1, <1>2, <1>3, <1>4 DEF Next

-----------------------------------------------------------------------------
\* A request served while no other one is gets the answer it should, in whatever state
\* overlapping requests before it have left the connection.
THEOREM ServedAloneCorrect == Spec => []ServedAlone
<1>1. ASSUME Init PROVE AloneOK /\ SavedOK /\ ServedAlone /\ FieldIsUsable /\ NothingLost
  <2>1. \A q \in Requests : pc[q] = "idle" /\ args[q] = NoArgs BY <1>1 DEF Init
  <2>2. \A q \in Requests : rows[q] = Null BY <1>1, UserAssumption DEF Init, IDs
  <2>3. AloneOK /\ ServedAlone BY <2>1 DEF AloneOK, ServedAlone, Serving, Steps
  <2>4. SavedOK BY <2>1, <2>2 DEF SavedOK
  <2>5. FieldIsUsable /\ NothingLost BY <1>1 DEF Init, FieldIsUsable, NothingLost
  <2> QED BY <2>3, <2>4, <2>5
<1> QED BY <1>1, InitInv, NextInv, FieldStep, NothingLostStep, SavedStep, AloneStep,
           ServedStep, PTL DEF Spec

-----------------------------------------------------------------------------
(* What stays of the changes, when no two requests of one user overlap.     *)

Answered(q) == \E i \in DOMAIN answered : answered[i] = q

\* Request v was answered after request q.
After(q, v) == Answered(q) /\ Answered(v) /\ Before(q, v)

OneEach == \A p, q \in Serving : args[p].user = args[q].user => p = q

\* Each change is answered once, when it ends.
AnsweredOnce ==
    /\ \A i, j \in DOMAIN answered : answered[i] = answered[j] => i = j
    /\ \A q \in Requests : Answered(q) <=> pc[q] = "done" /\ args[q].op \in Updates

\* The row a change works on is the row as it still is.
CopyInHand ==
    /\ \A q \in Requests : pc[q] = "idle" => copy[q] = Null
    /\ \A q \in Requests : pc[q] # "idle" => (args[q].op = "save" <=> args[q].user = q)
    /\ \A q \in Requests : pc[q] = "found" => phase[q] = "find"
    /\ \A q \in Requests : pc[q] \in {"closing", "nulling"} /\ phase[q] = "write"
                             => args[q].op \notin Updates
    /\ \A q \in Serving : args[q].op \in Updates /\ copy[q] # Null =>
         LET row == rows[args[q].user] IN
         row # Null /\ copy[q] = IF phase[q] = "find" THEN row ELSE Changed(args[q].op, row, q)

\* What AcknowledgedChangesStay says of a row, and that nothing is in it but what the user
\* was saved with and what was answered.
ColumnsSettled(u) ==
    \A op \in DOMAIN ColumnUpdates : \A q \in Acknowledged(u, op) :
      LET value == rows[u].columns[ColumnUpdates[op]] IN value = q \/ After(q, value)

CardsSettled(u) ==
    LET cards == rows[u].cards IN
    /\ \A i \in DOMAIN cards : cards[i] = u \/ Answered(cards[i])
    /\ \A q \in Acknowledged(u, "updatePaymentMethod") :
         \E i \in DOMAIN cards : \A j \in DOMAIN cards : cards[j] = q <=> j = i

PreferencesSettled(u) ==
    LET newest == rows[u].preferiti IN
    /\ \A i \in 1 .. 3 : newest[i] # NoPreference => Answered(newest[i])
    /\ \A i, j \in 1 .. 3 : i < j /\ newest[j] # NoPreference => After(newest[j], newest[i])
    /\ \A q \in Acknowledged(u, "updatePreferiti") : \A i \in 1 .. 3 :
         (\A j \in 1 .. i : newest[j] # q) => newest[i] # NoPreference /\ After(q, newest[i])

Settled(u) == ColumnsSettled(u) /\ CardsSettled(u) /\ PreferencesSettled(u)

ChangesSettled == \A u \in IDs : rows[u] # Null => Settled(u)

-----------------------------------------------------------------------------
(* The order of the answers.                                                *)

LEMMA PositionIs ==
    ASSUME AnsweredOnce, NEW i \in DOMAIN answered
    PROVE  Position(answered[i]) = i
BY DEF Position, AnsweredOnce

\* The order only grows.
OrderGrows ==
    /\ \A p : Answered(p) => Answered(p)'
    /\ \A p, v : After(p, v) => After(p, v)'

LEMMA SameOrder == answered' = answered => OrderGrows /\ \A p : Answered(p)' <=> Answered(p)
BY DEF OrderGrows, Answered, After, Before, Position

LEMMA AnswerEndsOrder ==
    ASSUME Inv, AnsweredOnce, NEW q \in Requests, ~Answered(q),
           answered' = Append(answered, q)
    PROVE  /\ \A i, j \in DOMAIN answered' : answered'[i] = answered'[j] => i = j
           /\ \A p : Answered(p)' <=> Answered(p) \/ p = q
           /\ OrderGrows
           /\ \A p : Answered(p) => After(p, q)'
<1>0. answered \in Seq(Requests) BY DEF Inv, HistoryOK
<1>1. PICK n \in Nat : n = Len(answered) BY <1>0
<1>2. /\ DOMAIN answered = 1 .. n /\ DOMAIN answered' = 1 .. n + 1
      /\ answered'[n + 1] = q /\ \A i \in 1 .. n : answered'[i] = answered[i]
  BY <1>0, <1>1
<1>3. \A i \in 1 .. n : answered[i] # q /\ answered[i] \in Requests
  BY <1>0, <1>2 DEF Answered
<1>4. \A i \in 1 .. n + 1 : i \in 1 .. n \/ i = n + 1 BY <1>1
<1>5. \A i, j \in 1 .. n + 1 : answered'[i] = answered'[j] => i = j
  <2>1. \A i, j \in 1 .. n : answered[i] = answered[j] => i = j
    BY <1>2 DEF AnsweredOnce
  <2> SUFFICES ASSUME NEW i \in 1 .. n + 1, NEW j \in 1 .. n + 1, answered'[i] = answered'[j]
               PROVE  i = j
    OBVIOUS
  <2>2. CASE i \in 1 .. n /\ j \in 1 .. n BY <1>2, <2>1, <2>2
  <2>3. CASE i = n + 1 /\ j = n + 1 BY <2>3
  <2>4. CASE i \in 1 .. n /\ j = n + 1 BY <1>2, <1>3, <2>4
  <2>5. CASE i = n + 1 /\ j \in 1 .. n BY <1>2, <1>3, <2>5
  <2> QED BY <1>4, <2>2, <2>3, <2>4, <2>5
<1>6. \A i \in 1 .. n : Position(answered[i]) = i BY <1>2, PositionIs
<1>7. ASSUME NEW i \in 1 .. n + 1, NEW a, a = answered'[i] PROVE Position(a)' = i
  <2>1. Position(a)' = CHOOSE j \in DOMAIN answered' : answered'[j] = a BY DEF Position
  <2>2. \A j \in 1 .. n + 1 : answered'[j] = a <=> j = i BY <1>5, <1>7
  <2> QED BY <1>2, <2>1, <2>2
<1>8. \A p : Answered(p) <=> \E i \in 1 .. n : answered[i] = p BY <1>2 DEF Answered
<1>9. \A p : Answered(p)' <=> \E i \in 1 .. n + 1 : answered'[i] = p BY <1>2 DEF Answered
<1>10. n + 1 \in 1 .. n + 1 /\ \A i \in 1 .. n : i \in 1 .. n + 1 BY <1>1
<1>11. \A p : Answered(p)' <=> Answered(p) \/ p = q BY <1>2, <1>4, <1>8, <1>9, <1>10
<1>12. ASSUME NEW p, Answered(p)
       PROVE  /\ p \in Requests /\ Answered(p)' /\ Position(p)' = Position(p)
              /\ Position(p) \in 1 .. n
  <2>1. PICK i \in 1 .. n : answered[i] = p BY <1>8, <1>12
  <2>2. Position(p) = i BY <1>6, <2>1
  <2>3. Position(p)' = i BY <1>2, <1>7, <1>10, <2>1
  <2> QED BY <1>3, <1>11, <1>12, <2>1, <2>2, <2>3
<1>13. Position(q)' = n + 1 BY <1>2, <1>7, <1>10
<1>14. ASSUME NEW p, NEW v, After(p, v) PROVE After(p, v)'
  BY <1>12, <1>14 DEF After, Before
<1>15. ASSUME NEW p, Answered(p) PROVE After(p, q)'
  <2>1. Position(p)' < Position(q)' BY <1>1, <1>12, <1>13, <1>15
  <2> QED BY <1>11, <1>12, <1>15, <2>1 DEF After, Before
<1> QED BY <1>2, <1>5, <1>11, <1>12, <1>14, <1>15 DEF OrderGrows

-----------------------------------------------------------------------------
(* The rows.                                                                *)

LEMMA ChangedParts ==
    ASSUME NEW row \in Row, NEW q \in Requests, NEW op \in Updates
    PROVE  /\ op \in DOMAIN ColumnUpdates =>
                /\ Changed(op, row, q).columns[ColumnUpdates[op]] = q
                /\ \A o \in DOMAIN ColumnUpdates : o # op =>
                     Changed(op, row, q).columns[ColumnUpdates[o]]
                       = row.columns[ColumnUpdates[o]]
           /\ op \notin DOMAIN ColumnUpdates => Changed(op, row, q).columns = row.columns
           /\ op = "updatePaymentMethod" => Changed(op, row, q).cards = Append(row.cards, q)
           /\ op # "updatePaymentMethod" => Changed(op, row, q).cards = row.cards
           /\ op = "updatePreferiti" =>
                /\ Changed(op, row, q).preferiti[1] = q
                /\ \A i \in {1, 2} :
                     Changed(op, row, q).preferiti[i + 1] = row.preferiti[i]
           /\ op # "updatePreferiti" => Changed(op, row, q).preferiti = row.preferiti
<1>1. /\ row.columns \in [Columns -> IDs \cup {Null}] /\ row.cards \in Seq(IDs)
      /\ row.preferiti \in [1 .. 3 -> Requests \cup {NoPreference}]
      /\ row = [columns |-> row.columns, cards |-> row.cards, preferiti |-> row.preferiti]
  BY DEF Row
<1>2. CASE op \in DOMAIN ColumnUpdates
  <2>1. op # "updatePaymentMethod" /\ op # "updatePreferiti" BY <1>2 DEF ColumnUpdates
  <2>2. PICK columns : columns = [row.columns EXCEPT ![ColumnUpdates[op]] = q] OBVIOUS
  <2>3. Changed(op, row, q) = [row EXCEPT !.columns = columns]
    BY <1>2, <2>1, <2>2 DEF Changed
  <2>4. /\ \A o \in DOMAIN ColumnUpdates : ColumnUpdates[o] \in Columns
        /\ \A o \in DOMAIN ColumnUpdates : o # op => ColumnUpdates[o] # ColumnUpdates[op]
    BY <1>2 DEF ColumnUpdates, Columns
  <2>5. columns[ColumnUpdates[op]] = q BY <1>1, <1>2, <2>2, <2>4
  <2>6. \A o \in DOMAIN ColumnUpdates : o # op =>
          columns[ColumnUpdates[o]] = row.columns[ColumnUpdates[o]]
    BY <1>1, <2>2, <2>4
  <2> QED BY <1>1, <1>2, <2>1, <2>3, <2>5, <2>6
<1>3. CASE op = "updatePaymentMethod"
  <2>1. Changed(op, row, q) = [row EXCEPT !.cards = Append(@, q)]
    BY <1>3 DEF Changed, ColumnUpdates
  <2>2. op \notin DOMAIN ColumnUpdates BY <1>3 DEF ColumnUpdates
  <2> QED BY <1>1, <1>3, <2>1, <2>2
<1>4. CASE op = "updatePreferiti"
  <2>1. PICK newest : newest = [i \in 1 .. 3 |-> IF i = 1 THEN q ELSE row.preferiti[i - 1]]
    OBVIOUS
  <2>2. Changed(op, row, q) = [row EXCEPT !.preferiti = newest]
    BY <1>4, <2>1 DEF Changed, ColumnUpdates
  <2>3. op \notin DOMAIN ColumnUpdates BY <1>4 DEF ColumnUpdates
  <2>4. newest[1] = q /\ \A i \in {1, 2} : newest[i + 1] = row.preferiti[i] BY <2>1
  <2> QED BY <1>1, <1>4, <2>2, <2>3, <2>4
<1> QED BY <1>2, <1>3, <1>4 DEF Updates

\* A row that is left alone stays settled: of its user nothing more was acknowledged.
LEMMA SettledStays ==
    ASSUME NEW u, Settled(u), OrderGrows, rows'[u] = rows[u],
           \A op \in Updates : \A q \in Acknowledged(u, op)' : q \in Acknowledged(u, op)
    PROVE  Settled(u)'
<1>0. \A op \in DOMAIN ColumnUpdates : op \in Updates BY DEF Updates
<1>1. ColumnsSettled(u)' BY <1>0 DEF Settled, ColumnsSettled, OrderGrows
<1>2. CardsSettled(u)' BY DEF Settled, CardsSettled, OrderGrows, Updates
<1>3. PreferencesSettled(u)' BY DEF Settled, PreferencesSettled, OrderGrows, Updates
<1> QED BY <1>1, <1>2, <1>3 DEF Settled

\* A change that is written settles its row anew.
LEMMA SettledWritten ==
    ASSUME NEW u, Settled(u), OrderGrows, NEW row \in Row, rows[u] = row,
           NEW q \in Requests, q # u, ~Answered(q), Answered(q)',
           \A p : Answered(p) => After(p, q)',
           NEW op \in Updates, rows'[u] = Changed(op, row, q),
           \A o \in Updates : \A p \in Acknowledged(u, o) : Answered(p),
           \A o \in Updates : \A p \in Acknowledged(u, o)' :
             p \in Acknowledged(u, o) \/ (p = q /\ o = op)
    PROVE  Settled(u)'
<1>0. \A o \in DOMAIN ColumnUpdates : o \in Updates BY DEF Updates
<1>00. /\ row.cards \in Seq(IDs)
       /\ row.preferiti \in [1 .. 3 -> Requests \cup {NoPreference}]
  BY DEF Row
<1>1. ColumnsSettled(u)'
  <2> PICK columns : columns = rows'[u].columns OBVIOUS
  <2>1. ASSUME NEW o \in DOMAIN ColumnUpdates, NEW p \in Acknowledged(u, o)'
        PROVE  columns[ColumnUpdates[o]] = p \/ After(p, columns[ColumnUpdates[o]])'
    <3>1. CASE o = op
      <4>1. columns[ColumnUpdates[o]] = q BY <3>1, ChangedParts
      <4>2. p = q \/ After(p, q)' BY <1>0, <2>1
      <4> QED BY <4>1, <4>2
    <3>2. CASE o # op
      <4>1. columns[ColumnUpdates[o]] = row.columns[ColumnUpdates[o]] BY <3>2, ChangedParts
      <4>2. p \in Acknowledged(u, o) BY <1>0, <2>1, <3>2
      <4>3. PICK value : value = row.columns[ColumnUpdates[o]] OBVIOUS
      <4>4. value = p \/ After(p, value) BY <4>2, <4>3 DEF Settled, ColumnsSettled
      <4> QED BY <4>1, <4>3, <4>4 DEF OrderGrows
    <3> QED BY <3>1, <3>2
  <2> QED BY <2>1 DEF ColumnsSettled
<1>2. CardsSettled(u)'
  <2>1. PICK cards : cards = rows'[u].cards OBVIOUS
  <2>2. /\ \A i \in DOMAIN row.cards : row.cards[i] = u \/ Answered(row.cards[i])
        /\ \A p \in Acknowledged(u, "updatePaymentMethod") :
             \E i \in DOMAIN row.cards : \A j \in DOMAIN row.cards : row.cards[j] = p <=> j = i
    BY DEF Settled, CardsSettled
  <2>3. CASE op # "updatePaymentMethod"
    <3>1. cards = row.cards BY <2>1, <2>3, ChangedParts
    <3>2. \A p \in Acknowledged(u, "updatePaymentMethod")' :
            p \in Acknowledged(u, "updatePaymentMethod")
      BY <2>3 DEF Updates
    <3> QED BY <2>1, <2>2, <3>1, <3>2 DEF CardsSettled, OrderGrows
  <2>4. CASE op = "updatePaymentMethod"
    <3>1. PICK n \in Nat : n = Len(row.cards) BY <1>00
    <3>2. cards = Append(row.cards, q) BY <2>1, <2>4, ChangedParts
    <3>3. /\ DOMAIN row.cards = 1 .. n /\ DOMAIN cards = 1 .. n + 1
          /\ cards[n + 1] = q /\ \A i \in 1 .. n : cards[i] = row.cards[i]
      BY <1>00, <3>1, <3>2
    <3>4. /\ \A i \in 1 .. n + 1 : i \in 1 .. n \/ i = n + 1
          /\ \A i \in 1 .. n : i \in 1 .. n + 1 /\ i # n + 1
          /\ n + 1 \in 1 .. n + 1
      BY <3>1
    <3>5. \A i \in 1 .. n : cards[i] # q BY <2>2, <3>3
    <3>6. \A i \in 1 .. n + 1 : cards[i] = u \/ Answered(cards[i])'
      BY <2>2, <3>3, <3>4 DEF OrderGrows
    <3>7. ASSUME NEW p \in Acknowledged(u, "updatePaymentMethod")'
          PROVE  \E i \in 1 .. n + 1 : \A j \in 1 .. n + 1 : cards[j] = p <=> j = i
      <4>1. CASE p = q BY <3>3, <3>4, <3>5, <4>1
      <4>2. CASE p # q
        <5>1. p \in Acknowledged(u, "updatePaymentMethod") BY <3>7, <4>2 DEF Updates
        <5>2. PICK i \in 1 .. n : \A j \in 1 .. n : row.cards[j] = p <=> j = i
          <6>1. PICK i \in DOMAIN row.cards :
                  \A j \in DOMAIN row.cards : row.cards[j] = p <=> j = i
            BY <2>2, <5>1
          <6>2. PICK D : D = DOMAIN row.cards OBVIOUS
          <6>3. i \in D /\ \A j \in D : row.cards[j] = p <=> j = i BY <6>1, <6>2
          <6>4. D = 1 .. n BY <3>3, <6>2
          <6> QED BY <6>3, <6>4
        <5>3. i \in 1 .. n + 1 /\ \A j \in 1 .. n + 1 : cards[j] = p <=> j = i
          BY <3>3, <3>4, <4>2, <5>2
        <5> QED BY <5>3
      <4> QED BY <4>1, <4>2
    <3>8. /\ \A i \in DOMAIN cards : cards[i] = u \/ Answered(cards[i])'
          /\ \A p \in Acknowledged(u, "updatePaymentMethod")' :
               \E i \in DOMAIN cards : \A j \in DOMAIN cards : cards[j] = p <=> j = i
      <4>1. PICK D : D = DOMAIN cards OBVIOUS
      <4>2. D = 1 .. n + 1 BY <3>3, <4>1
      <4>3. /\ \A i \in D : cards[i] = u \/ Answered(cards[i])'
            /\ \A p \in Acknowledged(u, "updatePaymentMethod")' :
                 \E i \in D : \A j \in D : cards[j] = p <=> j = i
        BY <3>6, <3>7, <4>2
      <4> QED BY <4>1, <4>3
    <3> QED BY <2>1, <3>8 DEF CardsSettled
  <2> QED BY <2>3, <2>4
<1>3. PreferencesSettled(u)'
  <2>1. PICK new : new = rows'[u].preferiti OBVIOUS
  <2>2. PICK old : old = row.preferiti OBVIOUS
  <2>3. /\ \A i \in 1 .. 3 : old[i] # NoPreference => Answered(old[i])
        /\ \A i, j \in 1 .. 3 : i < j /\ old[j] # NoPreference => After(old[j], old[i])
        /\ \A p \in Acknowledged(u, "updatePreferiti") : \A i \in 1 .. 3 :
             (\A j \in 1 .. i : old[j] # p) => old[i] # NoPreference /\ After(p, old[i])
    BY <2>2 DEF Settled, PreferencesSettled
  <2>4. CASE op # "updatePreferiti"
    <3>1. new = old BY <2>1, <2>2, <2>4, ChangedParts
    <3>2. \A p \in Acknowledged(u, "updatePreferiti")' : p \in Acknowledged(u, "updatePreferiti")
      BY <2>4 DEF Updates
    <3> QED BY <2>1, <2>3, <3>1, <3>2 DEF PreferencesSettled, OrderGrows
  <2>5. CASE op = "updatePreferiti"
    <3>1. new[1] = q /\ new[2] = old[1] /\ new[3] = old[2]
      <4>1. new[1] = q /\ \A i \in {1, 2} : new[i + 1] = old[i]
        BY <2>1, <2>2, <2>5, ChangedParts
      <4> QED BY <4>1
    <3>2. q # NoPreference BY UserAssumption
    <3>3. \A i \in 1 .. 3 : i = 1 \/ i = 2 \/ i = 3 OBVIOUS
    <3>4. ASSUME NEW i \in 1 .. 3, new[i] # NoPreference PROVE Answered(new[i])'
      BY <2>3, <3>1, <3>3, <3>4 DEF OrderGrows
    <3>5. ASSUME NEW i \in 1 .. 3, NEW j \in 1 .. 3, i < j, new[j] # NoPreference
          PROVE  After(new[j], new[i])'
      <4>1. CASE i = 1 /\ j = 2 BY <2>3, <3>1, <3>5, <4>1
      <4>2. CASE i = 1 /\ j = 3 BY <2>3, <3>1, <3>5, <4>2
      <4>3. CASE i = 2 /\ j = 3
        <5>1. After(old[2], old[1]) BY <2>3, <3>1, <3>5, <4>3
        <5> QED BY <3>1, <4>3, <5>1 DEF OrderGrows
      <4> QED BY <3>3, <3>5, <4>1, <4>2, <4>3
    <3>6. ASSUME NEW p \in Acknowledged(u, "updatePreferiti")', NEW i \in 1 .. 3,
                 \A j \in 1 .. i : new[j] # p
          PROVE  new[i] # NoPreference /\ After(p, new[i])'
      <4>1. p # q BY <3>1, <3>6
      <4>2. p \in Acknowledged(u, "updatePreferiti") /\ Answered(p) BY <3>6, <4>1 DEF Updates
      <4>3. CASE i = 1 BY <3>1, <3>2, <4>2, <4>3
      <4>4. CASE i = 2
        <5>1. old[1] # p BY <3>1, <3>6, <4>4
        <5>2. old[1] # NoPreference /\ After(p, old[1]) BY <2>3, <4>2, <5>1
        <5> QED BY <3>1, <4>4, <5>2 DEF OrderGrows
      <4>5. CASE i = 3
        <5>1. old[1] # p /\ old[2] # p BY <3>1, <3>6, <4>5
        <5>2. \A j \in 1 .. 2 : j = 1 \/ j = 2 OBVIOUS
        <5>3. old[2] # NoPreference /\ After(p, old[2]) BY <2>3, <4>2, <5>1, <5>2
        <5> QED BY <3>1, <4>5, <5>3 DEF OrderGrows
      <4> QED BY <3>3, <4>3, <4>4, <4>5
    <3> QED BY <2>1, <3>4, <3>5, <3>6 DEF PreferencesSettled
  <2> QED BY <2>4, <2>5
<1> QED BY <1>1, <1>2, <1>3 DEF Settled

\* A row just made is settled: of its user nothing was asked before.
LEMMA SettledFresh ==
    ASSUME NEW u \in IDs, rows'[u] = NewRow(u), \A op \in Updates : Acknowledged(u, op)' = {}
    PROVE  Settled(u)'
<1>0. \A o \in DOMAIN ColumnUpdates : o \in Updates BY DEF Updates
<1>1. ColumnsSettled(u)' BY <1>0 DEF ColumnsSettled
<1>2. CardsSettled(u)'
  <2>1. PICK cards : cards = rows'[u].cards OBVIOUS
  <2>2. cards = <<>> \/ cards = <<u>> BY <2>1 DEF NewRow
  <2>3. \A i \in DOMAIN cards : cards[i] = u BY <2>2
  <2> QED BY <2>1, <2>3 DEF CardsSettled, Updates
<1>3. PreferencesSettled(u)'
  <2>1. \A i \in 1 .. 3 : rows'[u].preferiti[i] = NoPreference BY DEF NewRow
  <2> QED BY <2>1 DEF PreferencesSettled, Updates
<1> QED BY <1>1, <1>2, <1>3 DEF Settled

-----------------------------------------------------------------------------
(* The steps of a thread.                                                   *)

\* The invariant; MaxPerUser is 1.
ChangesInv == OneEach /\ AnsweredOnce /\ CopyInHand /\ ChangesSettled

LEMMA ThreadIsFor ==
    ASSUME Inv, NEW q \in Requests, Thread(q)
    PROVE  /\ q \in Serving /\ pc[q] \in Steps
           /\ args[q] \in [op : Operations, user : IDs]
           /\ args' = args
           /\ \A p \in Requests : p # q => pc'[p] = pc[p]
<1>1. pc[q] \in Steps /\ args' = args /\ \E to : pc' = [pc EXCEPT ![q] = to] BY ThreadMoves
<1>2. pc[q] # "idle" BY <1>1 DEF Steps
<1>3. args[q] \in [op : Operations, user : IDs] BY <1>2 DEF Inv, ThreadsOK
<1>4. pc \in [Requests -> {"idle", "done"} \cup Steps] BY DEF Inv, ThreadsOK
<1> QED BY <1>1, <1>3, <1>4 DEF Serving

\* A change goes on unanswered, or ends: it is answered, and if it is acknowledged its row is
\* the row as it was, changed.
LEMMA ChangeSteps ==
    ASSUME Inv, CopyInHand, NEW q \in Requests, Thread(q), args[q].op \in Updates
    PROVE  LET u == args[q].user IN
           \/ pc'[q] # "done" /\ NoAnswer /\ rows' = rows
           \/ /\ pc'[q] = "done" /\ answered' = Append(answered, q)
              /\ \/ rows' = rows /\ answer'[q] # "ok"
                 \/ /\ rows[u] # Null
                    /\ rows' = [rows EXCEPT ![u] = Changed(args[q].op, rows[u], q)]
<1> PICK u : u = args[q].user OBVIOUS
<1> PICK op : op = args[q].op OBVIOUS
<1>0. /\ pc \in [Requests -> {"idle", "done"} \cup Steps]
      /\ answer \in [Requests -> Answers \cup {"none"}]
      /\ q \in Serving
      /\ op \notin {"save", "deleteByID"} \cup Finds
  BY ThreadIsFor, OperationsApart DEF Inv, ThreadsOK, HistoryOK
<1>1. ASSUME NEW a, AnswerWith(q, a) PROVE answered' = Append(answered, q) /\ answer'[q] = a
  BY <1>0, <1>1 DEF AnswerWith
<1>2. ASSUME NEW a, AnswerWith(q, a), a # "ok", rows' = rows, pc'[q] = "done"
      PROVE  /\ pc'[q] = "done" /\ answered' = Append(answered, q)
             /\ rows' = rows /\ answer'[q] # "ok"
  BY <1>1, <1>2
<1>3. CASE TestConnection(q) \/ OpenConnection(q) \/ FindUser(q) \/ FindFails(q)
           \/ ChangeFound(q)
  BY <1>0, <1>3 DEF TestConnection, OpenConnection, FindUser, FindFails, ChangeFound,
                    Executes, Goto
<1>4. CASE ReturnConnection(q) BY <1>0, <1>2, <1>4 DEF ReturnConnection, Goto
<1>5. CASE CloseConnection(q) BY <1>0, <1>2, <1>5 DEF CloseConnection, Goto
<1>6. CASE NullConnection(q) \/ CloseFails(q)
  <2>1. phase[q] # "write" BY <1>6 DEF NullConnection, CloseFails, GoOn, Goto, CopyInHand
  <2> QED BY <1>0, <1>6, <2>1 DEF NullConnection, CloseFails, GoOn, Goto
<1>7. ASSUME phase[q] = "write", rows' = Written(q)
      PROVE  rows[u] # Null /\ rows' = [rows EXCEPT ![u] = Changed(op, rows[u], q)]
  <2>1. copy[q] # Null BY <1>7 DEF Inv, ThreadsOK
  <2>2. rows[u] # Null /\ copy[q] = Changed(op, rows[u], q) BY <1>0, <1>7, <2>1 DEF CopyInHand
  <2> QED BY <1>0, <1>7, <2>2 DEF Written
<1>8. CASE WriteUser(q)
  <2>1. /\ phase[q] = "write" /\ rows' = Written(q) /\ pc'[q] = "done"
        /\ AnswerWith(q, "ok")
    BY <1>0, <1>8 DEF WriteUser, Executes, Goto
  <2> QED BY <1>1, <1>7, <2>1
<1>9. CASE WriteFails(q)
  <2>1. /\ phase[q] = "write" /\ (rows' = rows \/ rows' = Written(q)) /\ pc'[q] = "done"
        /\ AnswerWith(q, "no")
    BY <1>0, <1>9 DEF WriteFails, Executes, Goto
  <2> QED BY <1>1, <1>7, <2>1
<1>10. CASE AnswerFound(q)
  <2>1. PICK a \in AnswersTo(args[q].op, copy[q]) : AnswerWith(q, a) BY <1>10 DEF AnswerFound
  <2>2. copy[q] = Null /\ rows' = rows /\ pc'[q] = "done" BY <1>0, <1>10 DEF AnswerFound, Goto
  <2>3. AnswersTo(args[q].op, copy[q]) \subseteq {"error", "no"} BY <2>2 DEF AnswersTo
  <2>4. a # "ok" BY <2>1, <2>3
  <2> QED BY <1>2, <2>1, <2>2, <2>4
<1> QED BY <1>3, <1>4, <1>5, <1>6, <1>8, <1>9, <1>10 DEF Thread

\* The other requests are not among the changes answered; one that saves makes its row when
\* it ends.
LEMMA OtherSteps ==
    ASSUME Inv, NEW q \in Requests, Thread(q), args[q].op \notin Updates
    PROVE  /\ answered' = answered
           /\ \/ rows' = rows
              \/ args[q].op = "save" /\ rows' = [rows EXCEPT ![q] = NewRow(q)]
              \/ args[q].op = "deleteByID" /\ rows' = [rows EXCEPT ![args[q].user] = Null]
<1>1. answered' = answered
  <2>1. NoAnswer \/ \E a : AnswerWith(q, a)
    BY DEF Thread, TestConnection, OpenConnection, ReturnConnection, CloseConnection,
           CloseFails, GoOn, FailsOn, NullConnection, FindUser, FindFails, WriteUser, WriteFails,
           ChangeFound, AnswerFound
  <2> QED BY <2>1 DEF NoAnswer, AnswerWith, historyVars
<1>2. rows' = rows \/ (phase[q] = "write" /\ rows' = Written(q))
  BY DEF Thread, TestConnection, OpenConnection, ReturnConnection, CloseConnection,
         CloseFails, GoOn, FailsOn, NullConnection, FindUser, FindFails, WriteUser, WriteFails,
         ChangeFound, AnswerFound
<1>3. CASE phase[q] = "write" /\ rows' = Written(q)
  <2>1. args[q].op \in Operations \ Finds BY <1>3 DEF Inv, ThreadsOK
  <2>2. args[q].op \in {"save", "deleteByID"} BY <2>1, UserAssumption
  <2>3. CASE args[q].op = "save"
    <3>1. Written(q) = [rows EXCEPT ![q] = NewRow(q)] BY <2>3 DEF Written
    <3> QED BY <1>1, <1>3, <2>3, <3>1
  <2>4. CASE args[q].op = "deleteByID"
    <3>1. Written(q) = [rows EXCEPT ![args[q].user] = Null] BY <2>4 DEF Written
    <3> QED BY <1>1, <1>3, <2>4, <3>1
  <2> QED BY <2>2, <2>3, <2>4
<1> QED BY <1>1, <1>2, <1>3

-----------------------------------------------------------------------------
(* One request of a user at a time.                                         *)

LEMMA OneEachStep ==
    ASSUME MaxPerUser = 1, Inv, OneEach, [Next]_vars
    PROVE  OneEach'
<1>0. /\ pc \in [Requests -> {"idle", "done"} \cup Steps]
      /\ args \in [Requests -> [op : Operations, user : IDs] \cup {NoArgs}]
  BY DEF Inv, ThreadsOK
<1>1. ASSUME NEW q \in Requests, Request(q) PROVE OneEach'
  <2>1. PICK op, u : Arrive(q, op, u) BY <1>1 DEF Request
  <2>2. /\ pc' = [pc EXCEPT ![q] = "connecting"]
        /\ args' = [args EXCEPT ![q] = [op |-> op, user |-> u]]
    BY <2>1 DEF Arrive, Goto
  <2> DEFINE same == {p \in Serving : args[p].user = u}
  <2>3. same = {}
    <3>1. IsFiniteSet(same)
      <4>1. same \subseteq Requests BY DEF Serving
      <4> QED BY <4>1, UserAssumption, FS_Subset
    <3>2. Cardinality(same) < 1 BY <2>1 DEF Arrive
    <3>3. Cardinality(same) \in Nat BY <3>1, FS_CardinalityType
    <3>4. Cardinality(same) = 0 BY <3>2, <3>3
    <3> QED BY <3>1, <3>4, FS_EmptySet
  <2>4. \A p \in Serving' : p = q \/ (p \in Serving /\ args'[p] = args[p])
    BY <1>0, <2>2 DEF Serving
  <2>5. args'[q].user = u BY <1>0, <2>2
  <2> QED BY <2>3, <2>4, <2>5 DEF OneEach
<1>2. ASSUME NEW q \in Requests, Thread(q) PROVE OneEach'
  <2>1. pc[q] \in Steps /\ args' = args /\ \E to : pc' = [pc EXCEPT ![q] = to]
    BY <1>2, ThreadMoves
  <2>2. Serving' \subseteq Serving BY <1>0, <2>1 DEF Serving
  <2> QED BY <2>1, <2>2 DEF OneEach
<1>3. CASE UNCHANGED vars BY <1>3 DEF vars, OneEach, Serving
<1> QED BY <1>1, <1>2, <1>3 DEF Next

\* What a change of a user is to find is out of the others' reach.
LEMMA OthersLeaveTheRow ==
    ASSUME Inv, OneEach, CopyInHand, NEW q \in Requests, Thread(q),
           NEW p \in Serving, p # q
    PROVE  rows'[args[p].user] = rows[args[p].user]
<1>0. rows \in [IDs -> Row \cup {Null}] BY DEF Inv, RowsOK
<1>1. q \in Serving /\ args[q].user # args[p].user BY ThreadIsFor DEF OneEach
<1>2. args[q].op = "save" => args[q].user = q
  <2>1. pc[q] # "idle" BY ThreadIsFor DEF Steps
  <2> QED BY <2>1 DEF CopyInHand
<1>3. args[p].user \in IDs
  <2>1. pc[p] # "idle" BY DEF Serving, Steps
  <2>2. p \in Requests BY DEF Serving
  <2> QED BY <2>1, <2>2 DEF Inv, ThreadsOK
<1>4. \/ rows' = rows
      \/ \E row : rows' = [rows EXCEPT ![args[q].user] = row]
  <2>1. CASE args[q].op \in Updates BY <2>1, ChangeSteps DEF NoAnswer
  <2>2. CASE args[q].op \notin Updates
    <3>1. CASE args[q].op = "save" BY <1>2, <2>2, <3>1, OtherSteps
    <3>2. CASE args[q].op # "save" BY <2>2, <3>2, OtherSteps
    <3> QED BY <3>1, <3>2
  <2> QED BY <2>1, <2>2
<1> QED BY <1>0, <1>1, <1>3, <1>4

-----------------------------------------------------------------------------
(* The answers, and the copies.                                             *)

LEMMA AnsweredOnceStep == Inv /\ CopyInHand /\ AnsweredOnce /\ [Next]_vars => AnsweredOnce'
<1> SUFFICES ASSUME Inv, CopyInHand, AnsweredOnce, [Next]_vars PROVE AnsweredOnce' OBVIOUS
<1>0. /\ pc \in [Requests -> {"idle", "done"} \cup Steps]
      /\ args \in [Requests -> [op : Operations, user : IDs] \cup {NoArgs}]
  BY DEF Inv, ThreadsOK
<1>1. ASSUME answered' = answered,
             \A p \in Requests :
               (pc'[p] = "done" /\ args'[p].op \in Updates)
                 <=> (pc[p] = "done" /\ args[p].op \in Updates)
      PROVE  AnsweredOnce'
  BY <1>1, SameOrder DEF AnsweredOnce
<1>2. ASSUME NEW q \in Requests, Request(q) PROVE AnsweredOnce'
  <2>1. PICK op, u : Arrive(q, op, u) BY <1>2 DEF Request
  <2>2. /\ pc[q] = "idle" /\ pc' = [pc EXCEPT ![q] = "connecting"]
        /\ args' = [args EXCEPT ![q] = [op |-> op, user |-> u]] /\ answered' = answered
    BY <2>1 DEF Arrive, Goto
  <2> QED BY <1>0, <1>1, <2>2
<1>3. ASSUME NEW q \in Requests, Thread(q) PROVE AnsweredOnce'
  <2>1. /\ pc[q] \in Steps /\ args' = args /\ \A p \in Requests : p # q => pc'[p] = pc[p]
    BY <1>3, ThreadIsFor
  <2>2. pc[q] # "done" BY <2>1 DEF Steps
  <2>3. CASE args[q].op \notin Updates
    <3>1. answered' = answered BY <1>3, <2>3, OtherSteps
    <3> QED BY <1>1, <2>1, <2>3, <3>1
  <2>4. CASE args[q].op \in Updates /\ pc'[q] # "done"
    <3>1. answered' = answered BY <1>3, <2>4, ChangeSteps DEF NoAnswer, historyVars
    <3> QED BY <1>1, <2>1, <2>2, <2>4, <3>1
  <2>5. CASE args[q].op \in Updates /\ pc'[q] = "done"
    <3>1. answered' = Append(answered, q) BY <1>3, <2>5, ChangeSteps
    <3>2. ~Answered(q) BY <2>2 DEF AnsweredOnce
    <3>3. /\ \A i, j \in DOMAIN answered' : answered'[i] = answered'[j] => i = j
          /\ \A p : Answered(p)' <=> Answered(p) \/ p = q
      BY <3>1, <3>2, AnswerEndsOrder
    <3>4. \A p \in Requests : Answered(p)' <=> pc'[p] = "done" /\ args'[p].op \in Updates
      BY <2>1, <2>5, <3>3 DEF AnsweredOnce
    <3> QED BY <3>3, <3>4 DEF AnsweredOnce
  <2> QED BY <2>3, <2>4, <2>5
<1>4. CASE UNCHANGED vars BY <1>1, <1>4 DEF vars, historyVars
<1> QED BY <1>2, <1>3, <1>4 DEF Next

LEMMA CopySteps ==
    ASSUME Inv, CopyInHand, NEW q \in Requests, Thread(q)
    PROVE  /\ \A p \in Requests : p # q => phase'[p] = phase[p]
           /\ \/ copy'[q] = copy[q] /\ phase'[q] = phase[q]
              \/ /\ phase'[q] = "find" /\ copy'[q] \in {Null, rows[args[q].user]}
              \/ /\ args[q].op \in Updates /\ phase[q] = "find" /\ phase'[q] = "write"
                 /\ copy[q] # Null /\ copy'[q] = Changed(args[q].op, copy[q], q)
           /\ pc'[q] = "found" => phase'[q] = "find"
           /\ pc'[q] \in {"closing", "nulling"} /\ phase'[q] = "write"
                => args[q].op \notin Updates
<1>0. /\ pc \in [Requests -> {"idle", "done"} \cup Steps]
      /\ phase \in [Requests -> Phases]
      /\ copy \in [Requests -> Row \cup {Null}]
  BY DEF Inv, ThreadsOK, CopiesOK
<1>1. CASE TestConnection(q) \/ OpenConnection(q) \/ ReturnConnection(q)
  BY <1>0, <1>1 DEF TestConnection, OpenConnection, ReturnConnection, Goto
<1>2. CASE CloseConnection(q)
  <2>1. pc[q] = "closing" BY <1>2 DEF CloseConnection, Goto
  <2> QED BY <1>0, <1>2, <2>1 DEF CloseConnection, Goto, CopyInHand
<1>3. CASE NullConnection(q) \/ CloseFails(q)
  BY <1>0, <1>3 DEF NullConnection, CloseFails, GoOn, Goto, Phases
<1>4. CASE FindUser(q) BY <1>0, <1>4 DEF FindUser, Executes, Goto
<1>5. CASE FindFails(q) BY <1>0, <1>5 DEF FindFails, Executes, Goto
<1>6. CASE WriteUser(q)
  <2>1. pc'[q] = "closing" => args[q].op \notin Updates
    BY <1>0, <1>6, OperationsApart DEF WriteUser, Executes, Goto
  <2> QED BY <1>0, <1>6, <2>1 DEF WriteUser, Executes, Goto
<1>7. CASE WriteFails(q) BY <1>0, <1>7 DEF WriteFails, Executes, Goto
<1>8. CASE ChangeFound(q)
  <2>1. pc[q] = "found" /\ phase[q] = "find" BY <1>8 DEF ChangeFound, Goto, CopyInHand
  <2> QED BY <1>0, <1>8, <2>1 DEF ChangeFound, Goto
<1>9. CASE AnswerFound(q) BY <1>0, <1>9 DEF AnswerFound, Goto
<1> QED BY <1>1, <1>2, <1>3, <1>4, <1>5, <1>6, <1>7, <1>8, <1>9 DEF Thread

\* A copy in hand is of the row as it is.
CopyIs(q) ==
    args[q].op \in Updates /\ copy[q] # Null =>
        LET row == rows[args[q].user] IN
        row # Null /\ copy[q] = IF phase[q] = "find" THEN row ELSE Changed(args[q].op, row, q)

\* How far a request is, without its copy.
PhaseIs(q) ==
    /\ pc[q] = "idle" => copy[q] = Null
    /\ pc[q] # "idle" => (args[q].op = "save" <=> args[q].user = q)
    /\ pc[q] = "found" => phase[q] = "find"
    /\ pc[q] \in {"closing", "nulling"} /\ phase[q] = "write" => args[q].op \notin Updates

LEMMA CopyInHandMeans ==
    CopyInHand <=> (\A q \in Requests : PhaseIs(q)) /\ (\A q \in Serving : CopyIs(q))
BY DEF CopyInHand, CopyIs, PhaseIs

LEMMA CopyInHandStep ==
    ASSUME Inv, SavedOK, OneEach, CopyInHand, [Next]_vars
    PROVE  CopyInHand'
<1>0. /\ pc \in [Requests -> {"idle", "done"} \cup Steps]
      /\ args \in [Requests -> [op : Operations, user : IDs] \cup {NoArgs}]
      /\ phase \in [Requests -> Phases]
      /\ copy \in [Requests -> Row \cup {Null}]
  BY DEF Inv, ThreadsOK, CopiesOK
<1>1. (\A q \in Requests : PhaseIs(q)) /\ (\A q \in Serving : CopyIs(q)) BY CopyInHandMeans
<1>2. ASSUME NEW q \in Requests, Request(q) PROVE CopyInHand'
  <2>1. PICK op \in Operations, u \in IDs :
          /\ u \in IF op = "save" THEN {q} ELSE {v \in IDs : v \in Users \/ rows[v] # Null}
          /\ Arrive(q, op, u)
    BY <1>2 DEF Request, IDs
  <2>2. /\ pc[q] = "idle" /\ pc' = [pc EXCEPT ![q] = "connecting"]
        /\ args' = [args EXCEPT ![q] = [op |-> op, user |-> u]]
        /\ \A p \in Requests : p # q => phase'[p] = phase[p]
        /\ rows' = rows /\ copy' = copy
    BY <1>0, <2>1 DEF Arrive, Goto
  <2>3. op = "save" <=> u = q
    <3>1. rows[q] = Null BY <2>2 DEF SavedOK
    <3>2. q \notin Users BY UserAssumption
    <3> QED BY <2>1, <3>1, <3>2
  <2>4. \A p \in Requests : p # q => pc'[p] = pc[p] /\ args'[p] = args[p]
    BY <1>0, <2>2
  <2>5. pc'[q] = "connecting" /\ args'[q] = [op |-> op, user |-> u] /\ copy'[q] = Null
    BY <1>0, <1>1, <2>2 DEF PhaseIs
  <2>6. ASSUME NEW p \in Requests PROVE PhaseIs(p)'
    <3>1. CASE p = q BY <2>3, <2>5, <3>1 DEF PhaseIs
    <3>2. CASE p # q BY <1>1, <2>2, <2>4, <3>2 DEF PhaseIs
    <3> QED BY <3>1, <3>2
  <2>7. ASSUME NEW p \in Serving' PROVE CopyIs(p)'
    <3>1. CASE p = q BY <2>5, <3>1 DEF CopyIs
    <3>2. CASE p # q
      <4>1. p \in Serving BY <2>4, <2>7, <3>2 DEF Serving
      <4>2. CopyIs(p) /\ p \in Requests BY <1>1, <4>1 DEF Serving
      <4> QED BY <2>2, <2>4, <3>2, <4>2 DEF CopyIs
    <3> QED BY <3>1, <3>2
  <2> QED BY <2>6, <2>7, CopyInHandMeans DEF CopyInHand, CopyIs, PhaseIs
<1>3. ASSUME NEW q \in Requests, Thread(q) PROVE CopyInHand'
  <2>1. /\ q \in Serving /\ pc[q] \in Steps /\ args' = args
        /\ \A p \in Requests : p # q => pc'[p] = pc[p] /\ copy'[p] = copy[p]
    BY <1>3, ThreadIsFor, OthersLeaveAnswers
  <2>2. \A p \in Requests : p # q => phase'[p] = phase[p] BY <1>3, CopySteps
  <2>3. pc[q] # "idle" /\ pc'[q] # "idle"
    <3>1. \E to \in Steps \cup {"done"} : pc' = [pc EXCEPT ![q] = to] BY <1>3, ThreadMoves
    <3> QED BY <1>0, <2>1, <3>1 DEF Steps
  <2>4. ASSUME NEW p \in Requests PROVE PhaseIs(p)'
    <3>1. CASE p = q BY <1>1, <1>3, <2>1, <2>3, <3>1, CopySteps DEF PhaseIs
    <3>2. CASE p # q BY <1>1, <2>1, <2>2, <3>2 DEF PhaseIs
    <3> QED BY <3>1, <3>2
  <2>5. ASSUME NEW p \in Serving' PROVE CopyIs(p)'
    <3>1. CASE p # q
      <4>1. p \in Serving BY <2>1, <2>5, <3>1 DEF Serving
      <4>2. CopyIs(p) /\ p \in Requests BY <1>1, <4>1 DEF Serving
      <4>3. rows'[args[p].user] = rows[args[p].user] BY <1>3, <3>1, <4>1, OthersLeaveTheRow
      <4> QED BY <2>1, <2>2, <3>1, <4>2, <4>3 DEF CopyIs
    <3>2. CASE p = q
      <4> SUFFICES ASSUME args[q].op \in Updates, copy'[q] # Null PROVE CopyIs(q)'
        BY <2>1, <3>2 DEF CopyIs
      <4>1. pc'[q] # "done" BY <2>5, <3>2 DEF Serving, Steps
      <4>2. rows' = rows BY <1>3, <4>1, ChangeSteps
      <4>3. CopyIs(q) BY <1>1, <2>1
      <4>4. CASE copy'[q] = copy[q] /\ phase'[q] = phase[q]
        BY <2>1, <4>2, <4>3, <4>4 DEF CopyIs
      <4>5. CASE phase'[q] = "find" /\ copy'[q] \in {Null, rows[args[q].user]}
        BY <2>1, <4>2, <4>5 DEF CopyIs
      <4>6. CASE /\ phase[q] = "find" /\ phase'[q] = "write"
                 /\ copy[q] # Null /\ copy'[q] = Changed(args[q].op, copy[q], q)
        BY <2>1, <4>2, <4>3, <4>6 DEF CopyIs
      <4> QED BY <1>3, <4>4, <4>5, <4>6, CopySteps
    <3> QED BY <3>1, <3>2
  <2> QED BY <2>4, <2>5 DEF CopyInHand, CopyIs, PhaseIs
<1>4. CASE UNCHANGED vars BY <1>4 DEF vars, CopyInHand, Serving
<1> QED BY <1>2, <1>3, <1>4 DEF Next

-----------------------------------------------------------------------------
(* The changes.                                                             *)

\* What is acknowledged is acknowledged by the step that ends it.
LEMMA AcknowledgedGrows ==
    ASSUME Inv, NEW q \in Requests, Request(q) \/ Thread(q),
           NEW u \in IDs, NEW op \in Updates, NEW p \in Acknowledged(u, op)'
    PROVE  \/ p \in Acknowledged(u, op)
           \/ /\ p = q /\ Thread(q) /\ pc'[q] = "done" /\ answer'[q] = "ok"
              /\ args[q].op = op /\ args[q].user = u
<1>0. pc \in [Requests -> {"idle", "done"} \cup Steps] BY DEF Inv, ThreadsOK
<1>1. CASE p # q
  <2>1. p \in Requests BY DEF Acknowledged
  <2>2. answer'[p] = answer[p] /\ args'[p] = args[p] /\ pc'[p] = pc[p]
    BY <1>1, <2>1, OthersLeaveAnswers
  <2> QED BY <2>2 DEF Acknowledged
<1>2. CASE p = q /\ Thread(q)
  <2>1. args' = args BY <1>2, ThreadIsFor
  <2> QED BY <1>2, <2>1 DEF Acknowledged
<1>3. CASE p = q /\ Request(q)
  <2>1. pc'[q] = "connecting" BY <1>0, <1>3 DEF Request, Arrive, Goto
  <2> QED BY <1>3, <2>1 DEF Acknowledged
<1> QED BY <1>1, <1>2, <1>3

LEMMA AcknowledgedIsAnswered ==
    ASSUME AnsweredOnce, NEW u, NEW op \in Updates, NEW p \in Acknowledged(u, op)
    PROVE  Answered(p)
BY DEF AnsweredOnce, Acknowledged

LEMMA ChangesSettledStep ==
    ASSUME Inv, SavedOK, OneEach, AnsweredOnce, CopyInHand, ChangesSettled, [Next]_vars
    PROVE  ChangesSettled'
<1> SUFFICES ASSUME NEW u \in IDs, rows'[u] # Null PROVE Settled(u)' BY DEF ChangesSettled
<1>0. /\ pc \in [Requests -> {"idle", "done"} \cup Steps]
      /\ rows \in [IDs -> Row \cup {Null}]
  BY DEF Inv, ThreadsOK, RowsOK
<1>1. ASSUME NEW q \in Requests, Request(q) PROVE Settled(u)'
  <2>1. rows' = rows /\ answered' = answered BY <1>1 DEF Request, Arrive
  <2>2. Settled(u) /\ OrderGrows BY <2>1, SameOrder DEF ChangesSettled
  <2>3. pc'[q] # "done" BY <1>0, <1>1 DEF Request, Arrive, Goto
  <2>4. \A op \in Updates : \A p \in Acknowledged(u, op)' : p \in Acknowledged(u, op)
    BY <1>1, <2>3, AcknowledgedGrows
  <2> QED BY <2>1, <2>2, <2>4, SettledStays
<1>2. ASSUME NEW q \in Requests, Thread(q) PROVE Settled(u)'
  <2>1. /\ q \in Serving /\ pc[q] \in Steps /\ args[q] \in [op : Operations, user : IDs]
        /\ args' = args
    BY <1>2, ThreadIsFor
  <2>2. pc[q] # "done" /\ pc[q] # "idle" BY <2>1 DEF Steps
  <2>3. args[q].op = "save" <=> args[q].user = q BY <2>2 DEF CopyInHand
  <2>4. ~Answered(q) BY <2>2 DEF AnsweredOnce
  <2>5. OrderGrows
    <3>1. answered' = answered \/ answered' = Append(answered, q)
      BY <1>2, ChangeSteps, OtherSteps DEF NoAnswer, historyVars
    <3> QED BY <2>4, <3>1, SameOrder, AnswerEndsOrder
  <2>6. CASE /\ rows'[u] = rows[u]
             /\ args[q].user = u /\ args[q].op \in Updates /\ pc'[q] = "done"
                  => answer'[q] # "ok"
    <3>1. \A op \in Updates : \A p \in Acknowledged(u, op)' : p \in Acknowledged(u, op)
      BY <1>2, <2>6, AcknowledgedGrows
    <3>2. Settled(u) BY <2>6 DEF ChangesSettled
    <3> QED BY <2>5, <2>6, <3>1, <3>2, SettledStays
  <2>7. CASE args[q].op \in Updates
    <3> PICK op \in Updates : op = args[q].op BY <2>7
    <3>1. CASE pc'[q] # "done"
      <4>1. rows' = rows BY <1>2, <2>7, <3>1, ChangeSteps
      <4> QED BY <2>6, <3>1, <4>1
    <3>2. CASE rows' = rows /\ answer'[q] # "ok" BY <2>6, <3>2
    <3>3. CASE args[q].user # u /\ pc'[q] = "done"
      <4>1. rows'[u] = rows[u] BY <1>0, <1>2, <2>7, <3>3, ChangeSteps
      <4> QED BY <2>6, <3>3, <4>1
    <3>4. CASE /\ args[q].user = u /\ pc'[q] = "done" /\ rows[u] # Null
               /\ rows' = [rows EXCEPT ![u] = Changed(op, rows[u], q)]
      <4>1. PICK row \in Row : rows[u] = row BY <1>0, <3>4
      <4>2. rows'[u] = Changed(op, row, q) BY <1>0, <3>4, <4>1
      <4>3. q # u BY <2>3, <2>7, <3>4, OperationsApart
      <4>4. answered' = Append(answered, q) BY <1>2, <2>7, <3>4, ChangeSteps
      <4>5. Answered(q)' /\ \A p : Answered(p) => After(p, q)'
        BY <2>4, <4>4, AnswerEndsOrder
      <4>6. Settled(u) BY <3>4 DEF ChangesSettled
      <4>7. \A o \in Updates : \A p \in Acknowledged(u, o) : Answered(p)
        BY AcknowledgedIsAnswered
      <4>8. \A o \in Updates : \A p \in Acknowledged(u, o)' :
              p \in Acknowledged(u, o) \/ (p = q /\ o = op)
        BY <1>2, AcknowledgedGrows
      <4> QED BY <2>4, <2>5, <4>1, <4>2, <4>3, <4>5, <4>6, <4>7, <4>8, SettledWritten
    <3> QED BY <1>2, <2>7, <3>1, <3>2, <3>3, <3>4, ChangeSteps
  <2>8. CASE args[q].op \notin Updates
    <3>1. CASE rows'[u] = rows[u] BY <2>6, <2>8, <3>1
    <3>2. CASE args[q].op = "save" /\ rows' = [rows EXCEPT ![q] = NewRow(q)] /\ u = q
      <4>1. rows'[u] = NewRow(u) BY <1>0, <3>2
      <4>2. ASSUME NEW op \in Updates, NEW p \in Acknowledged(u, op)' PROVE FALSE
        <5>1. p \in Acknowledged(u, op) BY <1>2, <2>8, <4>2, AcknowledgedGrows
        <5>2. /\ p \in Requests /\ pc[p] = "done"
              /\ args[p].op \in Updates /\ args[p].user = q
          BY <3>2, <5>1 DEF Acknowledged
        <5>3. p # q BY <2>8, <5>2
        <5>4. args[p] # NoArgs BY <5>2 DEF Inv, ThreadsOK
        <5>5. pc[q] = "done" BY <5>2, <5>3, <5>4 DEF SavedOK
        <5> QED BY <2>2, <5>5
      <4> QED BY <4>1, <4>2, SettledFresh
    <3>3. CASE rows' = [rows EXCEPT ![q] = NewRow(q)] /\ u # q BY <1>0, <3>1, <3>3
    <3>4. CASE rows' = [rows EXCEPT ![args[q].user] = Null]
      <4>1. u # args[q].user BY <1>0, <3>4
      <4> QED BY <1>0, <3>1, <3>4, <4>1
    <3> QED BY <1>2, <2>8, <3>1, <3>2, <3>3, <3>4, OtherSteps
  <2> QED BY <2>7, <2>8
<1>3. CASE UNCHANGED vars
  <2>1. rows'[u] = rows[u] /\ OrderGrows BY <1>3, SameOrder DEF vars, historyVars
  <2>2. \A op \in Updates : Acknowledged(u, op)' = Acknowledged(u, op)
    BY <1>3 DEF vars, Acknowledged
  <2> QED BY <2>1, <2>2, SettledStays DEF ChangesSettled
<1> QED BY <1>1, <1>2, <1>3 DEF Next

LEMMA InitChanges == Init => ChangesInv
<1> SUFFICES ASSUME Init PROVE ChangesInv OBVIOUS
<1>1. /\ \A q \in Requests : pc[q] = "idle" /\ copy[q] = Null
      /\ Serving = {} /\ \A q : ~Answered(q)
  BY DEF Init, Serving, Steps, Answered
<1>2. \A u, op : Acknowledged(u, op) = {} BY <1>1 DEF Acknowledged
<1>3. ASSUME NEW u \in IDs, rows[u] # Null PROVE Settled(u)
  <2>1. rows[u] = NewRow(u) BY <1>3 DEF Init
  <2>2. ColumnsSettled(u) BY <1>2 DEF ColumnsSettled
  <2>3. CardsSettled(u)
    <3>1. PICK cards : cards = rows[u].cards OBVIOUS
    <3>2. cards = <<>> \/ cards = <<u>> BY <2>1, <3>1 DEF NewRow
    <3>3. \A i \in DOMAIN cards : cards[i] = u BY <3>2
    <3> QED BY <1>2, <3>1, <3>3 DEF CardsSettled
  <2>4. PreferencesSettled(u)
    <3>1. \A i \in 1 .. 3 : rows[u].preferiti[i] = NoPreference BY <2>1 DEF NewRow
    <3> QED BY <1>2, <3>1 DEF PreferencesSettled
  <2> QED BY <2>2, <2>3, <2>4 DEF Settled
<1>4. OneEach BY <1>1 DEF OneEach
<1>5. AnsweredOnce
  <2>1. DOMAIN answered = {} BY DEF Init
  <2> QED BY <1>1, <2>1 DEF AnsweredOnce
<1>6. CopyInHand BY <1>1 DEF CopyInHand
<1> QED BY <1>3, <1>4, <1>5, <1>6 DEF ChangesInv, ChangesSettled

LEMMA SettledMeansStay == ChangesSettled => AcknowledgedChangesStay
<1> SUFFICES ASSUME NEW u \in IDs, Settled(u)
             PROVE  /\ \A op \in Operations \cap DOMAIN ColumnUpdates :
                         \A q \in Acknowledged(u, op) :
                           LET value == rows[u].columns[ColumnUpdates[op]] IN
                           value = q \/ Before(q, value)
                    /\ \A q \in Acknowledged(u, "updatePaymentMethod") :
                         Cardinality({i \in DOMAIN rows[u].cards : rows[u].cards[i] = q}) = 1
                    /\ LET newest == rows[u].preferiti IN
                         /\ \A i, j \in 1 .. 3 : i < j /\ newest[j] # NoPreference
                                                   => Before(newest[j], newest[i])
                         /\ \A q \in Acknowledged(u, "updatePreferiti") : \A i \in 1 .. 3 :
                              (\A j \in 1 .. i : newest[j] # q)
                                 => newest[i] # NoPreference /\ Before(q, newest[i])
  BY DEF ChangesSettled, AcknowledgedChangesStay
<1>1. \A op \in Operations \cap DOMAIN ColumnUpdates : \A q \in Acknowledged(u, op) :
        LET value == rows[u].columns[ColumnUpdates[op]] IN value = q \/ Before(q, value)
  BY DEF Settled, ColumnsSettled, After
<1>2. ASSUME NEW q \in Acknowledged(u, "updatePaymentMethod")
      PROVE  Cardinality({i \in DOMAIN rows[u].cards : rows[u].cards[i] = q}) = 1
  <2>1. PICK i \in DOMAIN rows[u].cards :
          \A j \in DOMAIN rows[u].cards : rows[u].cards[j] = q <=> j = i
    BY <1>2 DEF Settled, CardsSettled
  <2>2. {j \in DOMAIN rows[u].cards : rows[u].cards[j] = q} = {i} BY <2>1
  <2> QED BY <2>2, FS_Singleton
<1>3. LET newest == rows[u].preferiti IN
        /\ \A i, j \in 1 .. 3 : i < j /\ newest[j] # NoPreference
                                  => Before(newest[j], newest[i])
        /\ \A q \in Acknowledged(u, "updatePreferiti") : \A i \in 1 .. 3 :
             (\A j \in 1 .. i : newest[j] # q)
                => newest[i] # NoPreference /\ Before(q, newest[i])
  BY DEF Settled, PreferencesSettled, After
<1> QED BY <1>1, <1>2, <1>3

-----------------------------------------------------------------------------
\* As long as the calls for one user do not overlap, whatever the calls for others do and
\* whatever statement fails, no change that was answered TRUE is lost: columns keep the
\* latest value, each card stays, once, and the preferences are the latest three.
THEOREM ChangesCorrect ==
    ASSUME MaxPerUser = 1
    PROVE  Spec => []AcknowledgedChangesStay
<1>1. Init => SavedOK
  <2> SUFFICES ASSUME Init PROVE SavedOK OBVIOUS
  <2>1. \A q \in Requests : rows[q] = Null /\ args[q] = NoArgs
    BY UserAssumption DEF Init, IDs
  <2> QED BY <2>1 DEF SavedOK
<1>2. Inv /\ SavedOK /\ ChangesInv /\ [Next]_vars => ChangesInv'
  BY OneEachStep, AnsweredOnceStep, CopyInHandStep, ChangesSettledStep DEF ChangesInv
<1>3. ChangesInv => AcknowledgedChangesStay BY SettledMeansStay DEF ChangesInv
<1> QED BY <1>1, <1>2, <1>3, InitInv, InitChanges, NextInv, SavedStep, PTL DEF Spec
=============================================================================
