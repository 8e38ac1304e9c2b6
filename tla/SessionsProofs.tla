--------------------------- MODULE SessionsProofs ---------------------------
(***************************************************************************)
(* Theorems about Sessions: types; that no session or page shows a user    *)
(* what is another's; and that without overlaps the session is that of who *)
(* logged in last and agrees with the user's row.                          *)
(***************************************************************************)
EXTENDS Sessions, TLAPS

-----------------------------------------------------------------------------
(* Sessions, calls and pages that are made.                                 *)

LEMMA SessionParts ==
    ASSUME NEW s \in Session
    PROVE  /\ s.logged \in {"unset", "no", "yes"} /\ s.user \in Anyone /\ s.shown \in Shown
           /\ s = [logged |-> s.logged, user |-> s.user, shown |-> s.shown]
           /\ s # NoReply
BY DEF Session, NoReply

LEMMA CallParts ==
    ASSUME NEW c \in Call
    PROVE  /\ c.kind \in Navigations \cup {"logIn", "logOut", "update", "register"}
           /\ c.tab \in Tabs /\ c.sent \in Session /\ c.user \in Anyone
           /\ c.change \in (Fields \X Versions) \cup {NoChange}
           /\ c # NoCall
BY DEF Call, NoCall, Navigations

LEMMA SentType ==
    ASSUME NEW kind \in Navigations \cup {"logIn", "logOut", "update", "register"},
           NEW t \in Tabs, NEW s \in Session, NEW u \in Anyone,
           NEW change \in (Fields \X Versions) \cup {NoChange}
    PROVE  Sent(kind, t, s, u, change) \in Call
BY DEF Sent, Call

LEMMA RenderedType ==
    ASSUME NEW c \in Call, c.kind \in Navigations, NEW p \in Rendered(c)
    PROVE  p \in Page
<1>1. c.sent \in Session /\ c.user \in Anyone BY CallParts
<1>2. c.sent.user \in Anyone /\ c.sent.shown \in Shown BY <1>1, SessionParts
<1>3. NothingShown \in Shown BY DEF NothingShown, Shown
<1>4. Nobody \in Anyone BY DEF Anyone
<1>5. PICK u \in Anyone :
        p = [kind |-> IF c.kind = "home" /\ c.sent.logged # "yes" THEN "logIn" ELSE c.kind,
             user |-> IF c.kind = "checkoutDetails" THEN c.user ELSE u,
             shown |-> IF c.kind = "cart" \/ (c.kind = "home" /\ c.sent.logged # "yes")
                       THEN NothingShown ELSE c.sent.shown]
  BY <1>2, <1>4 DEF Rendered
<1> QED BY <1>1, <1>2, <1>3, <1>5 DEF Page, Navigations

\* A row with one column changed is a row.
LEMMA ColumnChanged ==
    ASSUME NEW row \in Row, NEW f \in Fields, NEW value \in Values
    PROVE  [row EXCEPT ![f] = value] \in Row
BY DEF Row

-----------------------------------------------------------------------------
(* Types, by the part of the state they are about.                          *)

RequestsOK ==
    /\ pc \in [Requests -> {"idle", "sent", "authenticated", "answered", "failed"}]
    /\ call \in [Requests -> Call \cup {NoCall}]
    /\ reply \in [Requests -> Session \cup {NoReply}]
    /\ \A q \in Requests : pc[q] # "idle" => call[q] \in Call
    /\ \A q \in Requests : pc[q] = "authenticated" =>
         /\ call[q].user \in Users /\ rows[call[q].user] \in Row
         /\ reply[q] \in Session
    /\ \A q \in Requests : call[q] # NoCall /\ call[q].kind = "register" =>
         call[q].user \in Users /\ call[q].change \in Fields \X Versions
    /\ \A q \in Requests : call[q] # NoCall /\ call[q].kind = "update" =>
         call[q].change \in Fields \X Versions

RowsOK == rows \in [Users -> Row \cup {NoRow}]
BrowserOK == cookie \in Session /\ page \in [Tabs -> Page]
HistoryOK ==
    /\ account \in Anyone
    /\ overlapped \in BOOLEAN /\ crossed \in BOOLEAN
    /\ requests \in 0 .. MaxRequests /\ failures \in 0 .. MaxFailures

Types == RequestsOK /\ RowsOK /\ BrowserOK /\ HistoryOK

LEMMA TypesGiveTypeOK == Types => TypeOK
BY DEF Types, RequestsOK, RowsOK, BrowserOK, HistoryOK, TypeOK, OnTheirWay

LEMMA InitTypes == Init => Types
<1> SUFFICES ASSUME Init PROVE Types OBVIOUS
<1>1. NothingShown \in Shown BY DEF NothingShown, Shown
<1>2. NewSession \in Session /\ NoPage \in Page
  BY <1>1 DEF NewSession, Session, NoPage, Page, Anyone
<1>3. RowsOK
  <2> PICK registered \in SUBSET Users, v \in [Users -> Versions] :
        rows = [u \in Users |->
                  IF u \in registered THEN [f \in Fields |-> <<u, v[u]>>] ELSE NoRow]
    BY DEF Init
  <2>1. \A u \in Users : [f \in Fields |-> <<u, v[u]>>] \in Row BY DEF Row, Values
  <2> QED BY <2>1 DEF RowsOK
<1>4. RequestsOK BY DEF Init, RequestsOK
<1>5. BrowserOK BY <1>2 DEF Init, BrowserOK
<1>6. HistoryOK
  <2>1. /\ account = Nobody /\ overlapped = FALSE /\ crossed = FALSE
        /\ requests = 0 /\ failures = 0
    BY DEF Init
  <2>2. MaxRequests \in Nat /\ MaxFailures \in Nat BY SessionsAssumption
  <2>3. overlapped \in BOOLEAN /\ crossed \in BOOLEAN /\ account \in Anyone
    BY <2>1 DEF Anyone
  <2>4. requests \in 0 .. MaxRequests /\ failures \in 0 .. MaxFailures BY <2>1, <2>2
  <2> QED BY <2>3, <2>4 DEF HistoryOK
<1> QED BY <1>3, <1>4, <1>5, <1>6 DEF Types

-----------------------------------------------------------------------------
(* A request is sent.                                                       *)

Sends(q) ==
    \E kind \in Navigations \cup {"logIn", "logOut", "update", "register"}, t \in Tabs,
       u \in Anyone, change \in (Fields \X Versions) \cup {NoChange} :
      /\ Send(q, kind, t, u, change)
      /\ crossed' \in BOOLEAN
      /\ kind = "register" => u \in Users /\ change \in Fields \X Versions /\ rows[u] = NoRow
      /\ kind = "update" => change \in Fields \X Versions
      /\ kind \in {"update", "checkoutDetails"} /\ ~crossed' => u = cookie.user
      /\ crossed => crossed'

BrowserStep(q) ==
    \E t \in Tabs :
      \/ Visit(q, t) \/ Checkout(q, t) \/ LogIn(q, t) \/ LogOut(q, t)
      \/ Register(q, t) \/ Update(q, t)

LEMMA BrowserSends ==
    ASSUME Types, NEW q \in Requests, BrowserStep(q)
    PROVE  Sends(q)
<1> PICK t \in Tabs : \/ Visit(q, t) \/ Checkout(q, t) \/ LogIn(q, t) \/ LogOut(q, t)
                      \/ Register(q, t) \/ Update(q, t)
  BY DEF BrowserStep
<1>1. crossed \in BOOLEAN /\ page[t].user \in Anyone
  BY DEF Types, HistoryOK, BrowserOK, Page
<1>2. Nobody \in Anyone /\ Users \subseteq Anyone BY DEF Anyone
<1>3. CASE Visit(q, t) BY <1>1, <1>2, <1>3 DEF Visit, Sends, Navigations
<1>4. CASE Checkout(q, t) BY <1>1, <1>2, <1>4 DEF Checkout, Sends, Navigations
<1>5. CASE LogIn(q, t) BY <1>1, <1>2, <1>5 DEF LogIn, Sends
<1>6. CASE LogOut(q, t) BY <1>1, <1>2, <1>6 DEF LogOut, Sends
<1>7. CASE Register(q, t)
  <2> PICK u \in Users, v \in Versions, f \in Fields :
        Send(q, "register", t, u, <<f, v>>) /\ rows[u] = NoRow
    BY <1>7 DEF Register
  <2>1. crossed' = crossed BY <1>7 DEF Register
  <2> QED BY <1>1, <1>2, <2>1 DEF Sends
<1>8. CASE Update(q, t)
  <2> PICK f \in Fields, v \in Versions :
        Send(q, "update", t, page[t].user, <<f, v>>)
    BY <1>8 DEF Update
  <2>1. crossed' = (crossed \/ page[t].user # cookie.user) BY <1>8 DEF Update
  <2>2. /\ crossed' \in BOOLEAN /\ (crossed => crossed')
        /\ ~crossed' => page[t].user = cookie.user
    BY <2>1
  <2>3. <<f, v>> \in Fields \X Versions OBVIOUS
  <2> QED BY <1>1, <2>2, <2>3 DEF Sends
<1> QED BY <1>3, <1>4, <1>5, <1>6, <1>7, <1>8

LEMMA SendTypes ==
    ASSUME Types, NEW q \in Requests, Sends(q)
    PROVE  Types'
<1> PICK kind \in Navigations \cup {"logIn", "logOut", "update", "register"}, t \in Tabs,
         u \in Anyone, change \in (Fields \X Versions) \cup {NoChange} :
      /\ Send(q, kind, t, u, change)
      /\ crossed' \in BOOLEAN
      /\ kind = "register" => u \in Users /\ change \in Fields \X Versions
      /\ kind = "update" => change \in Fields \X Versions
  BY DEF Sends
<1> DEFINE c == Sent(kind, t, cookie, u, change)
<1>1. cookie \in Session BY DEF Types, BrowserOK
<1>2. c \in Call BY <1>1, SentType
<1>3. c.kind = kind /\ c.user = u /\ c.change = change BY DEF Sent
<1>4. /\ pc' = [pc EXCEPT ![q] = "sent"] /\ call' = [call EXCEPT ![q] = c]
      /\ UNCHANGED <<rows, cookie, page, reply, account, failures>>
      /\ requests' = requests + 1 /\ requests < MaxRequests /\ overlapped' \in BOOLEAN
  BY DEF Send, Types, HistoryOK
<1> HIDE DEF c
<1>5. RequestsOK' BY <1>2, <1>3, <1>4 DEF Types, RequestsOK
<1>6. HistoryOK' BY <1>4, SessionsAssumption DEF Types, HistoryOK
<1> QED BY <1>4, <1>5, <1>6 DEF Types, RowsOK, BrowserOK

-----------------------------------------------------------------------------
(* A handler's step.                                                        *)

HandlerStep(q) ==
    \/ HomePage(q) \/ OtherPage(q) \/ Authenticate(q) \/ WrongPassword(q) \/ FindUser(q)
    \/ LogOutHandler(q) \/ RegistrationHandler(q) \/ UpdateHandler(q) \/ NotModified(q)
    \/ ServiceFails(q)

\* The rows and the reply that a handler's step leaves.
LEMMA ChangedRows ==
    ASSUME Types, NEW q \in Requests, call[q] \in Call
    PROVE  /\ call[q].kind = "update" /\ Registered(call[q].user)
                => Changed(q) \in [Users -> Row \cup {NoRow}]
           /\ call[q].kind = "register" => Created(q) \in [Users -> Row \cup {NoRow}]
           /\ \A u \in Users : rows[u] \in Row =>
                /\ call[q].kind = "update" /\ Registered(call[q].user) => Changed(q)[u] \in Row
                /\ call[q].kind = "register" => Created(q)[u] \in Row
<1> DEFINE u == call[q].user
           f == call[q].change[1]
           v == call[q].change[2]
<1>1. rows \in [Users -> Row \cup {NoRow}] BY DEF Types, RowsOK
<1>2. call[q] # NoCall BY CallParts
<1>3. ASSUME call[q].kind = "update", Registered(u)
      PROVE  /\ Changed(q) \in [Users -> Row \cup {NoRow}]
             /\ \A w \in Users : rows[w] \in Row => Changed(q)[w] \in Row
  <2>1. f \in Fields /\ v \in Versions BY <1>2, <1>3 DEF Types, RequestsOK
  <2>2. u \in Users /\ rows[u] \in Row BY <1>1, <1>3 DEF Registered
  <2>3. [rows[u] EXCEPT ![f] = <<u, v>>] \in Row
    BY <2>1, <2>2, ColumnChanged DEF Values
  <2>4. Changed(q) = [rows EXCEPT ![u] = [rows[u] EXCEPT ![f] = <<u, v>>]]
    BY <1>1, <2>2 DEF Changed
  <2> HIDE DEF u, f, v
  <2> QED BY <1>1, <2>2, <2>3, <2>4
<1>4. ASSUME call[q].kind = "register"
      PROVE  /\ Created(q) \in [Users -> Row \cup {NoRow}]
             /\ \A w \in Users : rows[w] \in Row => Created(q)[w] \in Row
  <2>1. u \in Users /\ v \in Versions BY <1>2, <1>4 DEF Types, RequestsOK
  <2>2. [g \in Fields |-> <<u, v>>] \in Row BY <2>1 DEF Row, Values
  <2>3. Created(q) = [rows EXCEPT ![u] = [g \in Fields |-> <<u, v>>]] BY DEF Created
  <2> HIDE DEF u, f, v
  <2> QED BY <1>1, <2>1, <2>2, <2>3
<1> QED BY <1>3, <1>4

LEMMA SavedTypes ==
    ASSUME Types, NEW q \in Requests, call[q] \in Call
    PROVE  /\ [call[q].sent EXCEPT !.logged = "no"] \in Session
           /\ LoggedOut(call[q].sent) \in Session
           /\ Registered(call[q].user) =>
                [logged |-> "yes", user |-> call[q].user, shown |-> rows[call[q].user]]
                  \in Session
           /\ pc[q] = "authenticated" => LoggedIn(q) \in Session
           /\ call[q].kind = "update" /\ Registered(call[q].user) => WithChange(q) \in Session
<1> DEFINE s == call[q].sent
<1>1. s \in Session /\ call[q].user \in Anyone /\ call[q] # NoCall BY CallParts
<1>2. /\ s.logged \in {"unset", "no", "yes"} /\ s.user \in Anyone /\ s.shown \in Shown
      /\ s = [logged |-> s.logged, user |-> s.user, shown |-> s.shown]
  BY <1>1, SessionParts
<1>3. NothingShown \in Shown BY DEF NothingShown, Shown
<1>4. \A row \in Row : row \in Shown BY DEF Row, Shown
<1>5. rows \in [Users -> Row \cup {NoRow}] BY DEF Types, RowsOK
<1>6. [s EXCEPT !.logged = "no"] \in Session BY <1>2 DEF Session
<1>7. LoggedOut(s) \in Session BY <1>3 DEF LoggedOut, Session, Anyone
<1>8. ASSUME Registered(call[q].user)
      PROVE  [logged |-> "yes", user |-> call[q].user, shown |-> rows[call[q].user]] \in Session
  BY <1>1, <1>4, <1>5, <1>8 DEF Registered, Session
<1>9. ASSUME pc[q] = "authenticated" PROVE LoggedIn(q) \in Session
  <2>1. reply[q] \in Session /\ call[q].user \in Users /\ rows[call[q].user] \in Row
    BY <1>9 DEF Types, RequestsOK
  <2> DEFINE shown == [f \in Fields |-> IF f = "userName" THEN reply[q].shown[f]
                                        ELSE rows[call[q].user][f]]
  <2>2. reply[q].logged \in {"unset", "no", "yes"} /\ reply[q].user \in Anyone
        /\ reply[q].shown \in Shown
        /\ reply[q] = [logged |-> reply[q].logged, user |-> reply[q].user,
                       shown |-> reply[q].shown]
    BY <2>1, SessionParts
  <2>3. shown \in Shown BY <2>1, <2>2 DEF Shown, Row
  <2>4. LoggedIn(q) = [reply[q] EXCEPT !.shown = shown] BY DEF LoggedIn
  <2> HIDE DEF shown
  <2> QED BY <2>2, <2>3, <2>4 DEF Session
<1>10. ASSUME call[q].kind = "update", Registered(call[q].user)
       PROVE  WithChange(q) \in Session
  <2> DEFINE f == call[q].change[1]
             value == <<call[q].user, call[q].change[2]>>
  <2>1. call[q].change \in Fields \X Versions
    BY <1>1, <1>10 DEF Types, RequestsOK
  <2>2. f \in Fields /\ value \in Values BY <1>10, <2>1 DEF Registered, Values
  <2>3. [s.shown EXCEPT ![f] = value] \in Shown BY <1>2, <2>2 DEF Shown
  <2>4. WithChange(q) = [s EXCEPT !.shown = [s.shown EXCEPT ![f] = value]]
    BY <1>2 DEF WithChange
  <2> HIDE DEF f, value, s
  <2> QED BY <1>2, <2>3, <2>4 DEF Session
<1> QED BY <1>6, <1>7, <1>8, <1>9, <1>10

\* What the steps of handlers have in common: they leave the browser alone, and change one
\* request's place and reply, and rows that are there to rows.
Handled(q) ==
    /\ pc[q] # "idle" /\ call[q] \in Call
    /\ \E to \in {"authenticated", "answered", "failed"} :
         /\ pc' = [pc EXCEPT ![q] = to]
         /\ to = "authenticated" =>
              /\ call[q].user \in Users /\ rows[call[q].user] \in Row
              /\ reply'[q] \in Session
    /\ \E r \in Session \cup {NoReply} : reply' = [reply EXCEPT ![q] = r]
    /\ rows' \in [Users -> Row \cup {NoRow}]
    /\ \A u \in Users : rows[u] \in Row => rows'[u] \in Row
    /\ failures' \in 0 .. MaxFailures
    /\ UNCHANGED <<cookie, page, call, account, overlapped, crossed, requests>>

LEMMA HandlerHandles ==
    ASSUME Types, NEW q \in Requests, HandlerStep(q)
    PROVE  Handled(q)
<1>1. pc[q] \in {"sent", "authenticated"}
  BY DEF HandlerStep, HomePage, OtherPage, Authenticate, WrongPassword, FindUser,
         LogOutHandler, RegistrationHandler, UpdateHandler, NotModified, ServiceFails, Handle
<1>2. call[q] \in Call BY <1>1 DEF Types, RequestsOK
<1>3. reply \in [Requests -> Session \cup {NoReply}] BY DEF Types, RequestsOK
<1>4. /\ rows \in [Users -> Row \cup {NoRow}] /\ failures \in 0 .. MaxFailures
      /\ MaxFailures \in Nat
  BY SessionsAssumption DEF Types, RowsOK, HistoryOK
<1>5. reply = [reply EXCEPT ![q] = reply[q]] /\ reply[q] \in Session \cup {NoReply} BY <1>3
<1>6. ASSUME NEW from, NEW to \in {"answered", "failed"}, NEW kind,
             Handle(q, kind, from, to),
             \/ UNCHANGED reply
             \/ \E r \in Session \cup {NoReply} : reply' = [reply EXCEPT ![q] = r],
             rows' \in [Users -> Row \cup {NoRow}],
             \A u \in Users : rows[u] \in Row => rows'[u] \in Row
      PROVE  Handled(q)
  BY <1>1, <1>2, <1>4, <1>5, <1>6 DEF Handle, Handled, historyVars
<1>7. CASE HomePage(q)
  BY <1>2, <1>4, <1>6, <1>7, SavedTypes DEF HomePage, Save
<1>8. CASE OtherPage(q) BY <1>4, <1>6, <1>8 DEF OtherPage
<1>9. CASE Authenticate(q)
  <2>1. call[q].user \in Users /\ rows[call[q].user] \in Row
    BY <1>4, <1>9 DEF Authenticate, Registered
  <2> DEFINE r == [logged |-> "yes", user |-> call[q].user, shown |-> rows[call[q].user]]
  <2>2. r \in Session BY <1>2, <1>9, SavedTypes DEF Authenticate
  <2>3. reply' = [reply EXCEPT ![q] = r] /\ rows' = rows
        /\ Handle(q, "logIn", "sent", "authenticated")
    BY <1>9 DEF Authenticate, Save
  <2> HIDE DEF r
  <2>4. reply'[q] \in Session BY <1>3, <2>2, <2>3
  <2>5. pc' = [pc EXCEPT ![q] = "authenticated"] /\ UNCHANGED failures
        /\ UNCHANGED <<cookie, page, call, account, overlapped, crossed, requests>>
    BY <2>3 DEF Handle, historyVars
  <2> QED BY <1>1, <1>2, <1>4, <2>1, <2>2, <2>3, <2>4, <2>5 DEF Handled
<1>10. CASE WrongPassword(q) BY <1>4, <1>6, <1>10 DEF WrongPassword
<1>11. CASE FindUser(q)
  BY <1>2, <1>4, <1>6, <1>11, SavedTypes DEF FindUser, Save, Handle
<1>12. CASE LogOutHandler(q)
  BY <1>2, <1>4, <1>6, <1>12, SavedTypes DEF LogOutHandler, Save
<1>13. CASE RegistrationHandler(q)
  BY <1>2, <1>6, <1>13, ChangedRows DEF RegistrationHandler, Handle
<1>14. CASE UpdateHandler(q)
  BY <1>2, <1>6, <1>14, ChangedRows, SavedTypes DEF UpdateHandler, Handle, Save
<1>15. CASE NotModified(q) BY <1>4, <1>6, <1>15 DEF NotModified
<1>16. CASE ServiceFails(q)
  <2>1. rows' \in [Users -> Row \cup {NoRow}]
        /\ \A u \in Users : rows[u] \in Row => rows'[u] \in Row
    BY <1>2, <1>4, <1>16, ChangedRows DEF ServiceFails
  <2>2. failures' \in 0 .. MaxFailures BY <1>4, <1>16 DEF ServiceFails
  <2> QED BY <1>1, <1>2, <1>16, <2>1, <2>2 DEF ServiceFails, Save, Handled
<1> QED BY <1>7, <1>8, <1>9, <1>10, <1>11, <1>12, <1>13, <1>14, <1>15, <1>16 DEF HandlerStep

LEMMA HandledTypes ==
    ASSUME Types, NEW q \in Requests, Handled(q)
    PROVE  Types'
<1>1. RowsOK' /\ BrowserOK' /\ HistoryOK' BY DEF Handled, Types, RowsOK, BrowserOK, HistoryOK
<1>2. PICK to \in {"authenticated", "answered", "failed"} :
         /\ pc' = [pc EXCEPT ![q] = to]
         /\ to = "authenticated" =>
              /\ call[q].user \in Users /\ rows[call[q].user] \in Row
              /\ reply'[q] \in Session
  BY DEF Handled
<1>3. PICK r \in Session \cup {NoReply} : reply' = [reply EXCEPT ![q] = r] BY DEF Handled
<1>4. /\ call[q] \in Call /\ call' = call /\ pc[q] # "idle"
      /\ \A u \in Users : rows[u] \in Row => rows'[u] \in Row
  BY DEF Handled
<1>5. RequestsOK' BY <1>2, <1>3, <1>4 DEF Types, RequestsOK
<1> QED BY <1>1, <1>5 DEF Types

-----------------------------------------------------------------------------
(* A response is received.                                                  *)

ReceiveStep(q) ==
    ReceivePage(q) \/ ReceiveUpdate(q) \/ ReceiveAndGoHome(q) \/ ReceiveFailure(q)

LEMMA ReceiveTypes ==
    ASSUME Types, NEW q \in Requests, ReceiveStep(q)
    PROVE  Types'
<1>1. pc[q] \in {"answered", "failed"}
  BY DEF ReceiveStep, ReceivePage, ReceiveUpdate, ReceiveAndGoHome, ReceiveFailure
<1>2. call[q] \in Call BY <1>1 DEF Types, RequestsOK
<1>3. RowsOK' /\ UNCHANGED <<rows, overlapped, crossed, requests, failures>>
  BY DEF ReceiveStep, ReceivePage, ReceiveUpdate, ReceiveAndGoHome, ReceiveFailure,
         Finish, GoHome, Types, RowsOK
<1>4. call[q].tab \in Tabs /\ call[q].user \in Anyone BY <1>2, CallParts
<1>5. HistoryOK'
  <2>1. account' \in Anyone
    BY <1>4 DEF ReceiveStep, ReceivePage, ReceiveUpdate, ReceiveAndGoHome, ReceiveFailure,
                Types, HistoryOK, Anyone
  <2> QED BY <1>3, <2>1 DEF Types, HistoryOK
<1>6. cookie' \in Session
  BY DEF ReceiveStep, ReceivePage, ReceiveUpdate, ReceiveAndGoHome, ReceiveFailure,
         SetCookie, Types, BrowserOK, RequestsOK
<1>7. page' \in [Tabs -> Page]
  <2>1. page \in [Tabs -> Page] BY DEF Types, BrowserOK
  <2>2. CASE ReceivePage(q) BY <1>2, <1>4, <2>1, <2>2, RenderedType DEF ReceivePage
  <2>3. CASE ReceiveFailure(q)
    <3>1. NoPage \in Page BY DEF NoPage, Page, NothingShown, Shown, Anyone
    <3> QED BY <1>4, <2>1, <2>3, <3>1 DEF ReceiveFailure
  <2> QED BY <2>1, <2>2, <2>3 DEF ReceiveStep, ReceiveUpdate, ReceiveAndGoHome
<1>8. RequestsOK'
  <2>1. CASE Finish(q)
    BY <1>3, <2>1 DEF Finish, Types, RequestsOK
  <2>2. CASE GoHome(q)
    <3> DEFINE c == Sent("home", call[q].tab, cookie', Nobody, NoChange)
    <3>1. c \in Call BY <1>4, <1>6, SentType DEF Anyone, Navigations
    <3>2. c.kind = "home" BY DEF Sent
    <3>3. call' = [call EXCEPT ![q] = c] BY <2>2 DEF GoHome, Types, RequestsOK
    <3> HIDE DEF c
    <3> QED BY <1>3, <2>2, <3>1, <3>2, <3>3 DEF GoHome, Types, RequestsOK
  <2> QED
    BY <2>1, <2>2
       DEF ReceiveStep, ReceivePage, ReceiveUpdate, ReceiveAndGoHome, ReceiveFailure
<1> QED BY <1>3, <1>5, <1>6, <1>7, <1>8 DEF Types, BrowserOK

LEMMA StepCases ==
    ASSUME Next
    PROVE  \E q \in Requests : BrowserStep(q) \/ HandlerStep(q) \/ ReceiveStep(q)
BY DEF Next, BrowserStep, HandlerStep, ReceiveStep

LEMMA NextTypes == Types /\ [Next]_vars => Types'
<1> SUFFICES ASSUME Types, [Next]_vars PROVE Types' OBVIOUS
<1>1. CASE Next
  <2> PICK q \in Requests : BrowserStep(q) \/ HandlerStep(q) \/ ReceiveStep(q)
    BY <1>1, StepCases
  <2>1. CASE BrowserStep(q) BY <2>1, BrowserSends, SendTypes
  <2>2. CASE HandlerStep(q) BY <2>2, HandlerHandles, HandledTypes
  <2>3. CASE ReceiveStep(q) BY <2>3, ReceiveTypes
  <2> QED BY <2>1, <2>2, <2>3
<1>2. CASE UNCHANGED vars
  BY <1>2 DEF vars, historyVars, Types, RequestsOK, RowsOK, BrowserOK, HistoryOK
<1> QED BY <1>1, <1>2

LEMMA AlwaysTypes == Spec => []Types
<1> QED BY InitTypes, NextTypes, PTL DEF Spec

\* The state of browser, requests and rows is what the handlers can work on, for any users,
\* tabs and requests; in particular a session is only ever made of a row that is there.
THEOREM SessionsTypeCorrect == Spec => []TypeOK
<1> QED BY AlwaysTypes, TypesGiveTypeOK, PTL

-----------------------------------------------------------------------------
(* Whose values are where.                                                  *)

RowsShowOwn == \A u \in Users : rows[u] \in Row => ShowsOwn(u, rows[u])

CallShowsOwn(q) ==
    call[q] # NoCall =>
      /\ ShowsOwn(call[q].sent.user, call[q].sent.shown)
      /\ call[q].kind \in {"update", "checkoutDetails"} => call[q].user = call[q].sent.user

ReplyShowsOwn(q) ==
    /\ reply[q] # NoReply => ShowsOwn(reply[q].user, reply[q].shown)
    /\ pc[q] = "authenticated" => reply[q].user = call[q].user

\* A page of one user that was not used in another's session sends what is that user's; a
\* response takes the request's values and those of rows.
OwnValues ==
    /\ RowsShowOwn
    /\ ~crossed =>
         /\ ShowsOwn(cookie.user, cookie.shown)
         /\ \A t \in Tabs : ShowsOwn(page[t].user, page[t].shown)
         /\ \A q \in Requests : CallShowsOwn(q) /\ ReplyShowsOwn(q)

LEMMA NothingIsOwn == \A u : ShowsOwn(u, NothingShown)
BY DEF ShowsOwn, NothingShown

LEMMA InitOwn == Init => OwnValues
<1> SUFFICES ASSUME Init PROVE OwnValues OBVIOUS
<1>1. RowsShowOwn
  <2> PICK registered \in SUBSET Users, v \in [Users -> Versions] :
        rows = [u \in Users |->
                  IF u \in registered THEN [f \in Fields |-> <<u, v[u]>>] ELSE NoRow]
    BY DEF Init
  <2>1. \A u \in Users : ShowsOwn(u, NoRow) \/ NoRow \notin Row
    BY DEF ShowsOwn, NoRow, Row
  <2>2. \A u \in Users : ShowsOwn(u, [f \in Fields |-> <<u, v[u]>>])
    BY DEF ShowsOwn, Owner
  <2> QED BY <2>1, <2>2 DEF RowsShowOwn
<1>2. ShowsOwn(cookie.user, cookie.shown) BY NothingIsOwn DEF Init, NewSession
<1>3. \A t \in Tabs : ShowsOwn(page[t].user, page[t].shown) BY NothingIsOwn DEF Init, NoPage
<1>4. \A q \in Requests : CallShowsOwn(q) /\ ReplyShowsOwn(q)
  BY DEF Init, CallShowsOwn, ReplyShowsOwn
<1> QED BY <1>1, <1>2, <1>3, <1>4 DEF OwnValues

LEMMA SendOwn ==
    ASSUME Types, OwnValues, NEW q \in Requests, Sends(q)
    PROVE  OwnValues'
<1> PICK kind \in Navigations \cup {"logIn", "logOut", "update", "register"}, t \in Tabs,
         u \in Anyone, change \in (Fields \X Versions) \cup {NoChange} :
      /\ Send(q, kind, t, u, change)
      /\ kind \in {"update", "checkoutDetails"} /\ ~crossed' => u = cookie.user
      /\ crossed => crossed'
  BY DEF Sends
<1> DEFINE c == Sent(kind, t, cookie, u, change)
<1>1. c.kind = kind /\ c.user = u /\ c.sent = cookie BY DEF Sent
<1>2. /\ pc' = [pc EXCEPT ![q] = "sent"] /\ call' = [call EXCEPT ![q] = c]
      /\ UNCHANGED <<rows, cookie, page, reply>>
  BY DEF Send
<1> HIDE DEF c
<1>3. RowsShowOwn' BY <1>2 DEF OwnValues, RowsShowOwn
<1>4. ASSUME ~crossed'
      PROVE  /\ ShowsOwn(cookie.user, cookie.shown)'
             /\ (\A s \in Tabs : ShowsOwn(page[s].user, page[s].shown))'
             /\ \A p \in Requests : CallShowsOwn(p)' /\ ReplyShowsOwn(p)'
  <2>1. ~crossed BY <1>4
  <2>2. ShowsOwn(cookie.user, cookie.shown)' BY <1>2, <2>1 DEF OwnValues
  <2>3. (\A s \in Tabs : ShowsOwn(page[s].user, page[s].shown))'
    BY <1>2, <2>1 DEF OwnValues
  <2>4. ASSUME NEW p \in Requests PROVE CallShowsOwn(p)' /\ ReplyShowsOwn(p)'
    <3>1. CallShowsOwn(p) /\ ReplyShowsOwn(p) BY <2>1 DEF OwnValues
    <3>2. CASE p # q
      BY <1>2, <3>1, <3>2 DEF CallShowsOwn, ReplyShowsOwn, Types, RequestsOK
    <3>3. CASE p = q
      <4>1. call'[q] = c /\ pc'[q] = "sent" /\ reply'[q] = reply[q]
        BY <1>2 DEF Types, RequestsOK
      <4>2. CallShowsOwn(q)' BY <1>1, <1>4, <2>1, <4>1 DEF CallShowsOwn, OwnValues
      <4>3. ReplyShowsOwn(q)' BY <3>1, <3>3, <4>1 DEF ReplyShowsOwn
      <4> QED BY <3>3, <4>2, <4>3
    <3> QED BY <3>2, <3>3
  <2> QED BY <2>2, <2>3, <2>4
<1> QED BY <1>3, <1>4 DEF OwnValues

\* The rows that updates and registrations leave are their users' own.
LEMMA ChangedRowsOwn ==
    ASSUME Types, RowsShowOwn, NEW q \in Requests, HandlerStep(q)
    PROVE  RowsShowOwn'
<1>0. rows \in [Users -> Row \cup {NoRow}] BY DEF Types, RowsOK
<1>1. ASSUME rows' = Changed(q), Registered(call[q].user), call[q].kind = "update",
             call[q] \in Call
      PROVE  RowsShowOwn'
  <2> DEFINE u == call[q].user
             f == call[q].change[1]
             value == <<u, call[q].change[2]>>
  <2>1. u \in Users /\ rows[u] \in Row BY <1>0, <1>1 DEF Registered
  <2>2. rows' = [rows EXCEPT ![u] = [rows[u] EXCEPT ![f] = value]]
    BY <1>0, <1>1, <2>1 DEF Changed
  <2>3. Owner(value) = u BY DEF Owner
  <2> HIDE DEF u, f, value
  <2>4. ShowsOwn(u, [rows[u] EXCEPT ![f] = value])
    BY <2>1, <2>3 DEF RowsShowOwn, ShowsOwn, Row
  <2> QED BY <1>0, <2>1, <2>2, <2>4 DEF RowsShowOwn
<1>2. ASSUME rows' = Created(q), call[q].kind = "register", call[q] \in Call
      PROVE  RowsShowOwn'
  <2> DEFINE u == call[q].user
             row == [f \in Fields |-> <<u, call[q].change[2]>>]
  <2>1. u \in Users BY <1>2, CallParts DEF Types, RequestsOK
  <2>2. rows' = [rows EXCEPT ![u] = row] BY <1>2 DEF Created
  <2>3. ShowsOwn(u, row) BY DEF ShowsOwn, Owner
  <2> HIDE DEF u, row
  <2> QED BY <1>0, <2>1, <2>2, <2>3 DEF RowsShowOwn
<1>3. call[q] \in Call
  BY DEF HandlerStep, HomePage, OtherPage, Authenticate, WrongPassword, FindUser,
         LogOutHandler, RegistrationHandler, UpdateHandler, NotModified, ServiceFails, Handle,
         Types, RequestsOK
<1>4. \/ UNCHANGED rows
      \/ rows' = Changed(q) /\ Registered(call[q].user) /\ call[q].kind = "update"
      \/ rows' = Created(q) /\ call[q].kind = "register"
  BY DEF HandlerStep, HomePage, OtherPage, Authenticate, WrongPassword, FindUser,
         LogOutHandler, RegistrationHandler, UpdateHandler, NotModified, ServiceFails, Handle
<1> QED BY <1>1, <1>2, <1>3, <1>4 DEF RowsShowOwn

\* What a handler saves is one user's, if the request's session was.
LEMMA SavedOwn ==
    ASSUME Types, RowsShowOwn, NEW q \in Requests, CallShowsOwn(q), ReplyShowsOwn(q),
           HandlerStep(q)
    PROVE  ReplyShowsOwn(q)'
<1>1. call[q] \in Call /\ call[q] # NoCall
  BY CallParts
     DEF HandlerStep, HomePage, OtherPage, Authenticate, WrongPassword, FindUser,
         LogOutHandler, RegistrationHandler, UpdateHandler, NotModified, ServiceFails, Handle,
         Types, RequestsOK
<1>2. /\ call[q].sent \in Session
      /\ ShowsOwn(call[q].sent.user, call[q].sent.shown)
      /\ call[q].kind \in {"update", "checkoutDetails"} => call[q].user = call[q].sent.user
  BY <1>1, CallParts DEF CallShowsOwn
<1>3. /\ reply \in [Requests -> Session \cup {NoReply}] /\ rows \in [Users -> Row \cup {NoRow}]
      /\ pc \in [Requests -> {"idle", "sent", "authenticated", "answered", "failed"}]
  BY DEF Types, RequestsOK, RowsOK
<1>4. ASSUME NEW to \in {"answered", "failed"}, pc' = [pc EXCEPT ![q] = to],
             \/ UNCHANGED reply
             \/ \E r : /\ reply' = [reply EXCEPT ![q] = r]
                       /\ r = NoReply \/ ShowsOwn(r.user, r.shown)
      PROVE  ReplyShowsOwn(q)'
  BY <1>3, <1>4 DEF ReplyShowsOwn
<1>5. CASE HomePage(q)
  <2> DEFINE r == [call[q].sent EXCEPT !.logged = "no"]
  <2>1. ShowsOwn(r.user, r.shown) BY <1>2, SessionParts
  <2> HIDE DEF r
  <2>2. reply' = reply \/ reply' = [reply EXCEPT ![q] = r] BY <1>5 DEF HomePage, Save, r
  <2> QED BY <1>4, <1>5, <2>1, <2>2 DEF HomePage, Handle
<1>6. CASE OtherPage(q) BY <1>4, <1>6 DEF OtherPage, Handle
<1>7. CASE Authenticate(q)
  <2> DEFINE r == [logged |-> "yes", user |-> call[q].user, shown |-> rows[call[q].user]]
  <2>1. call[q].user \in Users /\ rows[call[q].user] \in Row
    BY <1>3, <1>7 DEF Authenticate, Registered
  <2>2. ShowsOwn(r.user, r.shown) /\ r.user = call[q].user BY <2>1 DEF RowsShowOwn
  <2> HIDE DEF r
  <2>3. reply' = [reply EXCEPT ![q] = r] /\ call' = call
    BY <1>7 DEF Authenticate, Save, Handle, r
  <2> QED BY <1>3, <2>2, <2>3 DEF ReplyShowsOwn
<1>8. CASE WrongPassword(q) BY <1>4, <1>8 DEF WrongPassword, Handle
<1>9. CASE FindUser(q)
  <2> DEFINE r == LoggedIn(q)
  <2>1. pc[q] = "authenticated" BY <1>9 DEF FindUser, Handle
  <2>2. /\ reply[q] \in Session /\ call[q].user \in Users /\ rows[call[q].user] \in Row
        /\ reply[q].user = call[q].user /\ reply[q] # NoReply
    BY <2>1, SessionParts DEF Types, RequestsOK, ReplyShowsOwn
  <2>3. ShowsOwn(call[q].user, reply[q].shown) /\ ShowsOwn(call[q].user, rows[call[q].user])
    BY <2>2 DEF ReplyShowsOwn, RowsShowOwn
  <2>4. r.user = reply[q].user
        /\ r.shown = [f \in Fields |-> IF f = "userName" THEN reply[q].shown[f]
                                       ELSE rows[call[q].user][f]]
    BY <2>2, SessionParts DEF LoggedIn
  <2>5. ShowsOwn(r.user, r.shown) BY <2>2, <2>3, <2>4 DEF ShowsOwn
  <2> HIDE DEF r
  <2>6. reply' = [reply EXCEPT ![q] = r] BY <1>9 DEF FindUser, Save, r
  <2> QED BY <1>4, <1>9, <2>5, <2>6 DEF FindUser, Handle
<1>10. CASE LogOutHandler(q)
  <2> DEFINE r == LoggedOut(call[q].sent)
  <2>1. ShowsOwn(r.user, r.shown) BY NothingIsOwn DEF LoggedOut
  <2> HIDE DEF r
  <2>2. reply' = [reply EXCEPT ![q] = r] BY <1>10 DEF LogOutHandler, Save, r
  <2> QED BY <1>4, <1>10, <2>1, <2>2 DEF LogOutHandler, Handle
<1>11. CASE RegistrationHandler(q) BY <1>4, <1>11 DEF RegistrationHandler, Handle
<1>12. CASE UpdateHandler(q)
  <2> DEFINE r == WithChange(q)
             s == call[q].sent
             f == call[q].change[1]
             value == <<call[q].user, call[q].change[2]>>
  <2>1. call[q].user = s.user BY <1>2, <1>12 DEF UpdateHandler, Handle
  <2>2. Owner(value) = s.user BY <2>1 DEF Owner
  <2>3. /\ s.shown \in Shown
        /\ s = [logged |-> s.logged, user |-> s.user, shown |-> s.shown]
    BY <1>2, SessionParts
  <2>4. r.user = s.user /\ r.shown = [s.shown EXCEPT ![f] = value]
    BY <2>3 DEF WithChange
  <2>5. ShowsOwn(s.user, s.shown) BY <1>2
  <2>6. reply' = [reply EXCEPT ![q] = r] BY <1>12 DEF UpdateHandler, Save
  <2> HIDE DEF r, s, f, value
  <2>7. ShowsOwn(r.user, r.shown) BY <2>2, <2>3, <2>4, <2>5 DEF ShowsOwn, Shown
  <2> QED BY <1>4, <1>12, <2>6, <2>7 DEF UpdateHandler, Handle
<1>13. CASE NotModified(q) BY <1>4, <1>13 DEF NotModified, Handle
<1>14. CASE ServiceFails(q) BY <1>4, <1>14 DEF ServiceFails, Save
<1> QED BY <1>5, <1>6, <1>7, <1>8, <1>9, <1>10, <1>11, <1>12, <1>13, <1>14 DEF HandlerStep

LEMMA HandlerOwn ==
    ASSUME Types, OwnValues, NEW q \in Requests, HandlerStep(q)
    PROVE  OwnValues'
<1>1. Handled(q) BY HandlerHandles
<1>2. RowsShowOwn' BY ChangedRowsOwn DEF OwnValues
<1>3. UNCHANGED <<cookie, page, call, crossed>> BY <1>1 DEF Handled
<1>4. ASSUME ~crossed, NEW p \in Requests
      PROVE  CallShowsOwn(p)' /\ ReplyShowsOwn(p)'
  <2>1. CallShowsOwn(p) /\ ReplyShowsOwn(p) BY <1>4 DEF OwnValues
  <2>2. CallShowsOwn(p)' BY <1>3, <2>1 DEF CallShowsOwn
  <2>3. CASE p = q BY <1>4, <2>1, <2>2, <2>3, SavedOwn DEF OwnValues
  <2>4. CASE p # q
    <3>1. pc'[p] = pc[p] /\ reply'[p] = reply[p]
      BY <1>1, <2>4 DEF Handled, Types, RequestsOK
    <3> QED BY <1>3, <2>1, <2>2, <3>1 DEF ReplyShowsOwn
  <2> QED BY <2>3, <2>4
<1>5. ASSUME ~crossed
      PROVE  /\ ShowsOwn(cookie.user, cookie.shown)'
             /\ (\A t \in Tabs : ShowsOwn(page[t].user, page[t].shown))'
  BY <1>3, <1>5 DEF OwnValues
<1> QED BY <1>2, <1>3, <1>4, <1>5 DEF OwnValues

LEMMA RenderedOwn ==
    ASSUME Types, NEW q \in Requests, call[q] \in Call, CallShowsOwn(q), NEW p \in Rendered(call[q])
    PROVE  ShowsOwn(p.user, p.shown)
<1> DEFINE c == call[q]
<1>1. /\ ShowsOwn(c.sent.user, c.sent.shown)
      /\ c.kind \in {"update", "checkoutDetails"} => c.user = c.sent.user
  BY CallParts DEF CallShowsOwn
<1>2. PICK u \in (IF c.kind = "cart" THEN {c.sent.user, Nobody} ELSE {c.sent.user}) :
        p = [kind |-> IF c.kind = "home" /\ c.sent.logged # "yes" THEN "logIn" ELSE c.kind,
             user |-> IF c.kind = "checkoutDetails" THEN c.user ELSE u,
             shown |-> IF c.kind = "cart" \/ (c.kind = "home" /\ c.sent.logged # "yes")
                       THEN NothingShown ELSE c.sent.shown]
  BY DEF Rendered
<1> HIDE DEF c
<1>3. CASE p.shown = NothingShown BY <1>3, NothingIsOwn
<1>4. CASE p.shown # NothingShown
  <2>1. p.shown = c.sent.shown /\ c.kind # "cart" BY <1>2, <1>4
  <2>2. p.user = c.sent.user BY <1>1, <1>2, <2>1
  <2> QED BY <1>1, <2>1, <2>2
<1> QED BY <1>3, <1>4

LEMMA ReceiveOwn ==
    ASSUME Types, OwnValues, NEW q \in Requests, ReceiveStep(q)
    PROVE  OwnValues'
<1>1. UNCHANGED <<rows, crossed>>
  BY DEF ReceiveStep, ReceivePage, ReceiveUpdate, ReceiveAndGoHome, ReceiveFailure,
         Finish, GoHome
<1>2. RowsShowOwn' BY <1>1 DEF OwnValues, RowsShowOwn
<1>3. pc[q] \in {"answered", "failed"} /\ call[q] \in Call
  BY DEF ReceiveStep, ReceivePage, ReceiveUpdate, ReceiveAndGoHome, ReceiveFailure,
         Types, RequestsOK
<1>4. ASSUME ~crossed PROVE ShowsOwn(cookie'.user, cookie'.shown)
  <2>1. cookie' = cookie \/ (reply[q] # NoReply /\ cookie' = reply[q])
    BY DEF ReceiveStep, ReceivePage, ReceiveUpdate, ReceiveAndGoHome, ReceiveFailure, SetCookie
  <2> QED BY <1>4, <2>1 DEF OwnValues, ReplyShowsOwn
<1>5. ASSUME ~crossed, NEW t \in Tabs PROVE ShowsOwn(page'[t].user, page'[t].shown)
  <2>1. page \in [Tabs -> Page] BY DEF Types, BrowserOK
  <2>2. ShowsOwn(page[t].user, page[t].shown) /\ CallShowsOwn(q) BY <1>5 DEF OwnValues
  <2>3. CASE ReceivePage(q)
    <3> PICK p \in Rendered(call[q]) : page' = [page EXCEPT ![call[q].tab] = p]
      BY <2>3 DEF ReceivePage
    <3>1. ShowsOwn(p.user, p.shown) BY <1>3, <2>2, RenderedOwn
    <3> QED BY <2>1, <2>2, <3>1
  <2>4. CASE ReceiveFailure(q)
    <3>1. ShowsOwn(NoPage.user, NoPage.shown) BY NothingIsOwn DEF NoPage
    <3>2. page' = page \/ page' = [page EXCEPT ![call[q].tab] = NoPage]
      BY <2>4 DEF ReceiveFailure
    <3> QED BY <2>1, <2>2, <3>1, <3>2
  <2> QED BY <2>2, <2>3, <2>4 DEF ReceiveStep, ReceiveUpdate, ReceiveAndGoHome
<1>6. ASSUME ~crossed, NEW p \in Requests PROVE CallShowsOwn(p)' /\ ReplyShowsOwn(p)'
  <2>1. CallShowsOwn(p) /\ ReplyShowsOwn(p) BY <1>6 DEF OwnValues
  <2>2. CASE Finish(q)
    <3>1. CASE p = q
      BY <2>2, <3>1 DEF Finish, CallShowsOwn, ReplyShowsOwn, Types, RequestsOK
    <3>2. CASE p # q
      BY <2>1, <2>2, <3>2 DEF Finish, CallShowsOwn, ReplyShowsOwn, Types, RequestsOK
    <3> QED BY <3>1, <3>2
  <2>3. CASE GoHome(q)
    <3> DEFINE c == Sent("home", call[q].tab, cookie', Nobody, NoChange)
    <3>1. call' = [call EXCEPT ![q] = c] BY <2>3 DEF GoHome, Types, RequestsOK
    <3>2. c.sent = cookie' /\ c.kind = "home" BY DEF Sent
    <3>3. ShowsOwn(cookie'.user, cookie'.shown) BY <1>4, <1>6
    <3> HIDE DEF c
    <3>4. CASE p = q
      <4>1. call'[q] = c /\ reply'[q] = NoReply /\ pc'[q] = "sent"
        BY <2>3, <3>1 DEF GoHome, Types, RequestsOK
      <4> QED BY <3>2, <3>3, <3>4, <4>1 DEF CallShowsOwn, ReplyShowsOwn
    <3>5. CASE p # q
      BY <2>1, <2>3, <3>1, <3>5 DEF GoHome, CallShowsOwn, ReplyShowsOwn, Types, RequestsOK
    <3> QED BY <3>4, <3>5
  <2> QED
    BY <2>2, <2>3
       DEF ReceiveStep, ReceivePage, ReceiveUpdate, ReceiveAndGoHome, ReceiveFailure
<1> QED BY <1>1, <1>2, <1>4, <1>5, <1>6 DEF OwnValues

LEMMA NextOwn == Types /\ OwnValues /\ [Next]_vars => OwnValues'
<1> SUFFICES ASSUME Types, OwnValues, [Next]_vars PROVE OwnValues' OBVIOUS
<1>1. CASE Next
  <2> PICK q \in Requests : BrowserStep(q) \/ HandlerStep(q) \/ ReceiveStep(q)
    BY <1>1, StepCases
  <2>1. CASE BrowserStep(q) BY <2>1, BrowserSends, SendOwn
  <2>2. CASE HandlerStep(q) BY <2>2, HandlerOwn
  <2>3. CASE ReceiveStep(q) BY <2>3, ReceiveOwn
  <2> QED BY <2>1, <2>2, <2>3
<1>2. CASE UNCHANGED vars
  BY <1>2 DEF vars, historyVars, OwnValues, RowsShowOwn, CallShowsOwn, ReplyShowsOwn, ShowsOwn
<1> QED BY <1>1, <1>2

\* For any users, tabs, requests and failures: however requests overlap and responses race
\* to set the cookie, nobody sees a value of another, unless a page of one user is used in
\* the session of another.
THEOREM SessionsShowTheirOwn == Spec => []NobodySeesAnother
<1>1. OwnValues => NobodySeesAnother
  BY DEF OwnValues, NobodySeesAnother, CallShowsOwn, ReplyShowsOwn
<1> QED BY <1>1, AlwaysTypes, InitOwn, NextOwn, PTL DEF Spec

-----------------------------------------------------------------------------
(* While no two requests were ever on their way at once.                    *)

Alone == \A p, q \in Requests : pc[p] # "idle" /\ pc[q] # "idle" => p = q

SessionOf(s, who) == s.user = who /\ (s.logged = "yes" <=> who # Nobody)

\* The session that the response of request q leaves the browser with, and whose it is.
Arriving(q) == IF reply[q] = NoReply THEN cookie ELSE reply[q]

WhoAfter(q) ==
    IF call[q].kind = "logIn" THEN call[q].user
    ELSE IF call[q].kind = "logOut" THEN Nobody ELSE account

CurrentRequest(q) ==
    /\ pc[q] \in {"idle", "sent", "failed"} => reply[q] = NoReply
    /\ pc[q] \in {"sent", "authenticated"} => call[q].sent = cookie
    /\ pc[q] = "authenticated" =>
         call[q].kind = "logIn" /\ SessionOf(reply[q], call[q].user)
    /\ pc[q] = "answered" => SessionOf(Arriving(q), WhoAfter(q))

\* The one request on its way carries the session the browser has, and its response the
\* one of who is then logged in.
SessionIsCurrent ==
    ~overlapped =>
      /\ Alone
      /\ SessionOf(cookie, account)
      /\ \A q \in Requests : CurrentRequest(q)

Matched(s) ==
    s.user # Nobody => rows[s.user] # NoRow /\ s.shown = rows[s.user]

MatchedRequest(q) ==
    /\ pc[q] = "sent" /\ call[q].kind = "update" => call[q].user = cookie.user
    /\ pc[q] = "sent" /\ call[q].kind = "register" => rows[call[q].user] = NoRow
    /\ pc[q] = "authenticated" => Matched(reply[q])
    /\ pc[q] = "answered" => Matched(Arriving(q))

\* The session is its user's row, except while the response that says how the row changed
\* is on its way.
RowsMatch ==
    ~overlapped /\ ~crossed /\ failures = 0 =>
      /\ (\A q \in Requests : pc[q] # "answered") => Matched(cookie)
      /\ \A q \in Requests : MatchedRequest(q)

\* Between the steps of one request, nothing else happens.
LEMMA OthersIdle ==
    ASSUME Types, Alone, NEW q \in Requests, pc[q] # "idle",
           NEW p \in Requests, p # q
    PROVE  pc[p] = "idle"
BY DEF Alone, Types, RequestsOK

\* A step that keeps the browser as it is, and moves one request that was on its way.
LEMMA HandledAlone ==
    ASSUME Types, Alone, NEW q \in Requests, Handled(q)
    PROVE  /\ Alone'
           /\ pc'[q] # "idle"
           /\ UNCHANGED <<cookie, call, account, overlapped, crossed>>
           /\ \A p \in Requests : p # q =>
                pc[p] = "idle" /\ pc'[p] = "idle" /\ reply'[p] = reply[p]
<1>1. pc[q] # "idle" BY DEF Handled
<1>2. PICK to \in {"authenticated", "answered", "failed"} : pc' = [pc EXCEPT ![q] = to]
  BY DEF Handled
<1>3. PICK r : reply' = [reply EXCEPT ![q] = r] BY DEF Handled
<1>4. \A p \in Requests : p # q => pc[p] = "idle" BY <1>1, OthersIdle
<1>5. pc'[q] = to /\ \A p \in Requests : p # q => pc'[p] = pc[p] /\ reply'[p] = reply[p]
  BY <1>2, <1>3 DEF Types, RequestsOK
<1>6. Alone' BY <1>4, <1>5 DEF Alone
<1> QED BY <1>4, <1>5, <1>6 DEF Handled

LEMMA InitCurrent == Init => SessionIsCurrent
BY DEF Init, SessionIsCurrent, Alone, SessionOf, NewSession, CurrentRequest

LEMMA SendCurrent ==
    ASSUME Types, SessionIsCurrent, NEW q \in Requests, Sends(q)
    PROVE  SessionIsCurrent'
<1> PICK kind \in Navigations \cup {"logIn", "logOut", "update", "register"}, t \in Tabs,
         u \in Anyone, change \in (Fields \X Versions) \cup {NoChange} :
      Send(q, kind, t, u, change)
  BY DEF Sends
<1> DEFINE c == Sent(kind, t, cookie, u, change)
<1>1. c.sent = cookie BY DEF Sent
<1>2. /\ pc' = [pc EXCEPT ![q] = "sent"] /\ call' = [call EXCEPT ![q] = c]
      /\ UNCHANGED <<rows, cookie, page, reply, account>>
      /\ pc[q] = "idle" /\ overlapped' = (overlapped \/ OnTheirWay # {})
  BY DEF Send
<1> HIDE DEF c
<1> SUFFICES ASSUME ~overlapped'
             PROVE  /\ Alone'
                    /\ SessionOf(cookie, account)'
                    /\ \A p \in Requests : CurrentRequest(p)'
  BY DEF SessionIsCurrent
<1>3. ~overlapped /\ \A p \in Requests : pc[p] = "idle" BY <1>2 DEF OnTheirWay
<1>4. /\ pc'[q] = "sent" /\ call'[q] = c /\ reply'[q] = reply[q]
      /\ \A p \in Requests : p # q => pc'[p] = "idle" /\ reply'[p] = reply[p]
  BY <1>2, <1>3 DEF Types, RequestsOK
<1>5. Alone' BY <1>4 DEF Alone
<1>6. SessionOf(cookie, account)' BY <1>2, <1>3 DEF SessionIsCurrent, SessionOf
<1>7. \A p \in Requests : reply[p] = NoReply BY <1>3 DEF SessionIsCurrent, CurrentRequest
<1>8. CurrentRequest(q)' BY <1>1, <1>2, <1>4, <1>7 DEF CurrentRequest
<1>9. ASSUME NEW p \in Requests, p # q PROVE CurrentRequest(p)'
  BY <1>4, <1>7, <1>9 DEF CurrentRequest
<1> QED BY <1>5, <1>6, <1>8, <1>9

\* What a handler answers is the session of who will be logged in.
LEMMA HandlerCurrentRequest ==
    ASSUME Types, NEW q \in Requests, HandlerStep(q), CurrentRequest(q),
           SessionOf(cookie, account)
    PROVE  CurrentRequest(q)'
<1> DEFINE s == call[q].sent
           u == call[q].user
<1>1. pc[q] \in {"sent", "authenticated"} /\ s = cookie
  BY DEF HandlerStep, HomePage, OtherPage, Authenticate, WrongPassword, FindUser,
         LogOutHandler, RegistrationHandler, UpdateHandler, NotModified, ServiceFails, Handle,
         CurrentRequest
<1>2. call[q] \in Call BY <1>1 DEF Types, RequestsOK
<1>3. /\ s \in Session /\ s # NoReply
      /\ s = [logged |-> s.logged, user |-> s.user, shown |-> s.shown]
  BY <1>2, CallParts, SessionParts
<1>4. SessionOf(s, account) BY <1>1
<1>5. /\ reply \in [Requests -> Session \cup {NoReply}] /\ rows \in [Users -> Row \cup {NoRow}]
      /\ pc \in [Requests -> {"idle", "sent", "authenticated", "answered", "failed"}]
  BY DEF Types, RequestsOK, RowsOK
<1>6. UNCHANGED <<cookie, call, account>> BY HandlerHandles DEF Handled
<1>7. ASSUME pc[q] = "sent", pc' = [pc EXCEPT ![q] = "failed"], UNCHANGED reply
      PROVE  CurrentRequest(q)'
  BY <1>5, <1>7 DEF CurrentRequest
<1>8. ASSUME pc[q] = "sent", pc' = [pc EXCEPT ![q] = "answered"], UNCHANGED reply,
             call[q].kind \notin {"logIn", "logOut"}
      PROVE  CurrentRequest(q)'
  <2>1. reply'[q] = NoReply BY <1>8 DEF CurrentRequest
  <2>2. pc'[q] = "answered" BY <1>5, <1>8
  <2>3. SessionOf(cookie', account') BY <1>6
  <2> QED BY <1>6, <1>8, <2>1, <2>2, <2>3 DEF CurrentRequest, Arriving, WhoAfter
<1>9. ASSUME NEW r \in Session, pc' = [pc EXCEPT ![q] = "answered"],
             reply' = [reply EXCEPT ![q] = r], SessionOf(r, WhoAfter(q))
      PROVE  CurrentRequest(q)'
  <2>1. reply'[q] = r /\ pc'[q] = "answered" /\ r # NoReply BY <1>5, <1>9, SessionParts
  <2>2. Arriving(q)' = r BY <2>1 DEF Arriving
  <2>3. WhoAfter(q)' = WhoAfter(q) BY <1>6 DEF WhoAfter
  <2> QED BY <1>9, <2>1, <2>2, <2>3 DEF CurrentRequest
<1>10. CASE HomePage(q)
  <2> DEFINE r == [s EXCEPT !.logged = "no"]
  <2>1. r \in Session BY <1>2, SavedTypes
  <2>2. r.user = s.user /\ r.logged = "no" BY <1>3
  <2>3. CASE s.logged = "unset"
    <3>1. SessionOf(r, WhoAfter(q))
      BY <1>4, <1>10, <2>2, <2>3 DEF SessionOf, WhoAfter, HomePage, Handle
    <3>2. reply' = [reply EXCEPT ![q] = r] /\ pc' = [pc EXCEPT ![q] = "answered"]
      BY <1>10, <2>3 DEF HomePage, Handle, Save
    <3> HIDE DEF r
    <3> QED BY <1>9, <2>1, <3>1, <3>2
  <2>4. CASE s.logged # "unset" BY <1>8, <1>10, <2>4 DEF HomePage, Handle
  <2> QED BY <2>3, <2>4
<1>11. CASE OtherPage(q) BY <1>7, <1>8, <1>11 DEF OtherPage, Handle
<1>12. CASE Authenticate(q)
  <2> DEFINE r == [logged |-> "yes", user |-> u, shown |-> rows[u]]
  <2>1. r.user = u /\ r.logged = "yes" OBVIOUS
  <2>2. u # Nobody BY <1>12, SessionsAssumption DEF Authenticate, Registered
  <2>3. SessionOf(r, u) BY <2>1, <2>2 DEF SessionOf
  <2>4. /\ reply' = [reply EXCEPT ![q] = r] /\ call[q].kind = "logIn"
        /\ pc' = [pc EXCEPT ![q] = "authenticated"]
    BY <1>12 DEF Authenticate, Save, Handle
  <2> HIDE DEF r
  <2>5. reply'[q] = r /\ pc'[q] = "authenticated" BY <1>5, <2>4
  <2> QED BY <1>1, <1>6, <2>3, <2>4, <2>5 DEF CurrentRequest
<1>13. CASE WrongPassword(q) BY <1>7, <1>13 DEF WrongPassword, Handle
<1>14. CASE FindUser(q)
  <2>1. /\ pc[q] = "authenticated" /\ call[q].kind = "logIn"
        /\ reply' = [reply EXCEPT ![q] = LoggedIn(q)] /\ pc' = [pc EXCEPT ![q] = "answered"]
    BY <1>14 DEF FindUser, Handle, Save
  <2>2. reply[q] \in Session /\ SessionOf(reply[q], u)
    BY <2>1 DEF CurrentRequest, Types, RequestsOK
  <2>3. LoggedIn(q).user = reply[q].user /\ LoggedIn(q).logged = reply[q].logged
    BY <2>2, SessionParts DEF LoggedIn
  <2>4. LoggedIn(q) \in Session BY <1>2, <2>1, SavedTypes
  <2>5. SessionOf(LoggedIn(q), WhoAfter(q)) BY <2>1, <2>2, <2>3 DEF SessionOf, WhoAfter
  <2> QED BY <1>9, <2>1, <2>4, <2>5
<1>15. CASE LogOutHandler(q)
  <2>1. /\ call[q].kind = "logOut" /\ reply' = [reply EXCEPT ![q] = LoggedOut(s)]
        /\ pc' = [pc EXCEPT ![q] = "answered"]
    BY <1>15 DEF LogOutHandler, Handle, Save
  <2>2. LoggedOut(s) \in Session BY <1>2, SavedTypes
  <2>3. SessionOf(LoggedOut(s), WhoAfter(q)) BY <2>1 DEF SessionOf, WhoAfter, LoggedOut
  <2> QED BY <1>9, <2>1, <2>2, <2>3
<1>16. CASE RegistrationHandler(q) BY <1>8, <1>16 DEF RegistrationHandler, Handle
<1>17. CASE UpdateHandler(q)
  <2>1. /\ call[q].kind = "update" /\ Registered(u)
        /\ reply' = [reply EXCEPT ![q] = WithChange(q)] /\ pc' = [pc EXCEPT ![q] = "answered"]
    BY <1>17 DEF UpdateHandler, Handle, Save
  <2>2. WithChange(q) \in Session BY <1>2, <2>1, SavedTypes
  <2>3. WithChange(q).user = s.user /\ WithChange(q).logged = s.logged
    BY <1>3 DEF WithChange
  <2>4. SessionOf(WithChange(q), WhoAfter(q)) BY <1>4, <2>1, <2>3 DEF SessionOf, WhoAfter
  <2> QED BY <1>9, <2>1, <2>2, <2>4
<1>18. CASE NotModified(q) BY <1>7, <1>18 DEF NotModified, Handle
<1>19. CASE ServiceFails(q)
  <2>1. pc' = [pc EXCEPT ![q] = "failed"] /\ reply' = [reply EXCEPT ![q] = NoReply]
    BY <1>19 DEF ServiceFails, Save
  <2>2. pc'[q] = "failed" /\ reply'[q] = NoReply BY <1>5, <2>1
  <2> QED BY <2>2 DEF CurrentRequest
<1> QED
  BY <1>10, <1>11, <1>12, <1>13, <1>14, <1>15, <1>16, <1>17, <1>18, <1>19 DEF HandlerStep

LEMMA HandlerCurrent ==
    ASSUME Types, SessionIsCurrent, NEW q \in Requests, HandlerStep(q)
    PROVE  SessionIsCurrent'
<1>1. Handled(q) BY HandlerHandles
<1> SUFFICES ASSUME ~overlapped'
             PROVE  /\ Alone'
                    /\ SessionOf(cookie, account)'
                    /\ \A p \in Requests : CurrentRequest(p)'
  BY DEF SessionIsCurrent
<1>2. ~overlapped BY <1>1 DEF Handled
<1>3. /\ Alone /\ SessionOf(cookie, account) /\ \A p \in Requests : CurrentRequest(p)
  BY <1>2 DEF SessionIsCurrent
<1>4. /\ Alone' /\ UNCHANGED <<cookie, account>>
      /\ \A p \in Requests : p # q =>
                pc[p] = "idle" /\ pc'[p] = "idle" /\ reply'[p] = reply[p]
  BY <1>1, <1>3, HandledAlone
<1>5. SessionOf(cookie, account)' BY <1>3, <1>4
<1>6. CurrentRequest(q)' BY <1>3, HandlerCurrentRequest
<1>7. ASSUME NEW p \in Requests, p # q PROVE CurrentRequest(p)'
  BY <1>3, <1>4, <1>7 DEF CurrentRequest
<1> QED BY <1>4, <1>5, <1>6, <1>7

\* When a response is received, its request is over, or asks for the home page.
LEMMA ReceivedAlone ==
    ASSUME Types, Alone, NEW q \in Requests, ReceiveStep(q)
    PROVE  /\ pc[q] \in {"answered", "failed"}
           /\ Alone'
           /\ UNCHANGED <<rows, overlapped, crossed, failures>>
           /\ \A p \in Requests : p # q =>
                pc[p] = "idle" /\ pc'[p] = "idle" /\ reply'[p] = reply[p]
           /\ reply'[q] = NoReply
           /\ \/ pc'[q] = "idle"
              \/ /\ pc'[q] = "sent" /\ call'[q].sent = cookie' /\ call'[q].kind = "home"
                 /\ pc[q] = "answered"
<1>1. pc[q] \in {"answered", "failed"}
  BY DEF ReceiveStep, ReceivePage, ReceiveUpdate, ReceiveAndGoHome, ReceiveFailure
<1>2. \A p \in Requests : p # q => pc[p] = "idle" BY <1>1, OthersIdle
<1>3. Finish(q) \/ (GoHome(q) /\ pc[q] = "answered")
  BY DEF ReceiveStep, ReceivePage, ReceiveUpdate, ReceiveAndGoHome, ReceiveFailure
<1>4. UNCHANGED <<rows, overlapped, crossed, failures>> BY <1>3 DEF Finish, GoHome
<1>5. PICK to \in {"idle", "sent"} : pc' = [pc EXCEPT ![q] = to]
  BY <1>3 DEF Finish, GoHome
<1>6. reply' = [reply EXCEPT ![q] = NoReply] BY <1>3 DEF Finish, GoHome
<1>7. /\ pc'[q] = to /\ reply'[q] = NoReply
      /\ \A p \in Requests : p # q => pc'[p] = pc[p] /\ reply'[p] = reply[p]
  BY <1>5, <1>6 DEF Types, RequestsOK
<1>8. Alone' BY <1>2, <1>7 DEF Alone
<1>9. CASE Finish(q)
  <2>1. pc' = [pc EXCEPT ![q] = "idle"] BY <1>9 DEF Finish
  <2>2. pc'[q] = "idle" BY <2>1 DEF Types, RequestsOK
  <2> QED BY <1>1, <1>2, <1>4, <1>7, <1>8, <2>2
<1>10. CASE GoHome(q) /\ pc[q] = "answered"
  <2> DEFINE c == Sent("home", call[q].tab, cookie', Nobody, NoChange)
  <2>1. call' = [call EXCEPT ![q] = c] /\ pc' = [pc EXCEPT ![q] = "sent"]
    BY <1>10 DEF GoHome, Types, RequestsOK
  <2>2. c.sent = cookie' /\ c.kind = "home" BY DEF Sent
  <2> HIDE DEF c
  <2>3. call'[q] = c /\ pc'[q] = "sent" BY <2>1 DEF Types, RequestsOK
  <2> QED BY <1>1, <1>2, <1>4, <1>7, <1>8, <1>10, <2>2, <2>3
<1> QED BY <1>3, <1>9, <1>10

LEMMA ReceiveCurrent ==
    ASSUME Types, SessionIsCurrent, NEW q \in Requests, ReceiveStep(q)
    PROVE  SessionIsCurrent'
<1> SUFFICES ASSUME ~overlapped'
             PROVE  /\ Alone'
                    /\ SessionOf(cookie, account)'
                    /\ \A p \in Requests : CurrentRequest(p)'
  BY DEF SessionIsCurrent
<1>1. ~overlapped
  BY DEF ReceiveStep, ReceivePage, ReceiveUpdate, ReceiveAndGoHome, ReceiveFailure,
         Finish, GoHome
<1>2. Alone /\ SessionOf(cookie, account) /\ \A p \in Requests : CurrentRequest(p)
  BY <1>1 DEF SessionIsCurrent
<1>3. /\ Alone'
      /\ \A p \in Requests : p # q => pc'[p] = "idle" /\ reply'[p] = NoReply
      /\ reply'[q] = NoReply
      /\ pc'[q] = "idle" \/ (pc'[q] = "sent" /\ call'[q].sent = cookie')
  BY <1>2, ReceivedAlone DEF CurrentRequest
<1>4. \A p \in Requests : CurrentRequest(p)' BY <1>3 DEF CurrentRequest
<1>5. SessionOf(cookie, account)'
  <2>1. CASE pc[q] = "answered" /\ cookie' = Arriving(q) /\ account' = WhoAfter(q)
    BY <1>2, <2>1 DEF CurrentRequest
  <2>2. CASE UNCHANGED <<cookie, account>> BY <1>2, <2>2
  <2>3. CASE ReceivePage(q)
    <3>1. WhoAfter(q) = account BY <2>3 DEF ReceivePage, WhoAfter, Navigations
    <3> QED BY <2>1, <2>3, <3>1 DEF ReceivePage, SetCookie, Arriving
  <2>4. CASE ReceiveUpdate(q)
    <3>1. WhoAfter(q) = account BY <2>4 DEF ReceiveUpdate, WhoAfter
    <3> QED BY <2>1, <2>4, <3>1 DEF ReceiveUpdate, SetCookie, Arriving
  <2>5. CASE ReceiveAndGoHome(q)
    <3>1. account' = WhoAfter(q) BY <2>5 DEF ReceiveAndGoHome, WhoAfter
    <3> QED BY <2>1, <2>5, <3>1 DEF ReceiveAndGoHome, SetCookie, Arriving
  <2>6. CASE ReceiveFailure(q) BY <2>2, <2>6 DEF ReceiveFailure
  <2> QED BY <2>3, <2>4, <2>5, <2>6 DEF ReceiveStep
<1> QED BY <1>3, <1>4, <1>5

LEMMA NextCurrent == Types /\ SessionIsCurrent /\ [Next]_vars => SessionIsCurrent'
<1> SUFFICES ASSUME Types, SessionIsCurrent, [Next]_vars PROVE SessionIsCurrent' OBVIOUS
<1>1. CASE Next
  <2> PICK q \in Requests : BrowserStep(q) \/ HandlerStep(q) \/ ReceiveStep(q)
    BY <1>1, StepCases
  <2>1. CASE BrowserStep(q) BY <2>1, BrowserSends, SendCurrent
  <2>2. CASE HandlerStep(q) BY <2>2, HandlerCurrent
  <2>3. CASE ReceiveStep(q) BY <2>3, ReceiveCurrent
  <2> QED BY <2>1, <2>2, <2>3
<1>2. CASE UNCHANGED vars
  BY <1>2 DEF vars, historyVars, SessionIsCurrent, Alone, SessionOf, CurrentRequest,
              Arriving, WhoAfter
<1> QED BY <1>1, <1>2

\* For any users, tabs, requests and failures: while no two requests were ever on their way
\* at once, the session is that of who logged in last and did not log out since.
THEOREM SessionsAreWhoLoggedIn == Spec => []SessionIsWhoLoggedIn
<1>1. SessionIsCurrent => SessionIsWhoLoggedIn
  BY DEF SessionIsCurrent, SessionOf, SessionIsWhoLoggedIn
<1> QED BY <1>1, AlwaysTypes, InitCurrent, NextCurrent, PTL DEF Spec

-----------------------------------------------------------------------------
(* The session and its user's row.                                          *)

LEMMA InitMatch == Init => RowsMatch
BY DEF Init, RowsMatch, Matched, NewSession, MatchedRequest

LEMMA SendMatch ==
    ASSUME Types, RowsMatch, NEW q \in Requests, Sends(q)
    PROVE  RowsMatch'
<1> PICK kind \in Navigations \cup {"logIn", "logOut", "update", "register"}, t \in Tabs,
         u \in Anyone, change \in (Fields \X Versions) \cup {NoChange} :
      /\ Send(q, kind, t, u, change)
      /\ kind = "register" => rows[u] = NoRow
      /\ kind \in {"update", "checkoutDetails"} /\ ~crossed' => u = cookie.user
      /\ crossed => crossed'
  BY DEF Sends
<1> DEFINE c == Sent(kind, t, cookie, u, change)
<1>1. c.kind = kind /\ c.user = u BY DEF Sent
<1>2. /\ pc' = [pc EXCEPT ![q] = "sent"] /\ call' = [call EXCEPT ![q] = c]
      /\ UNCHANGED <<rows, cookie, reply, failures>>
      /\ overlapped' = (overlapped \/ OnTheirWay # {})
  BY DEF Send
<1> HIDE DEF c
<1> SUFFICES ASSUME ~overlapped', ~crossed', failures' = 0
             PROVE  Matched(cookie)' /\ \A p \in Requests : MatchedRequest(p)'
  BY DEF RowsMatch
<1>3. ~overlapped /\ ~crossed /\ failures = 0 /\ \A p \in Requests : pc[p] = "idle"
  BY <1>2 DEF OnTheirWay
<1>4. Matched(cookie)' BY <1>2, <1>3 DEF RowsMatch, Matched
<1>5. /\ pc'[q] = "sent" /\ call'[q] = c
      /\ \A p \in Requests : p # q => pc'[p] = "idle"
  BY <1>2, <1>3 DEF Types, RequestsOK
<1>6. MatchedRequest(q)' BY <1>1, <1>2, <1>5 DEF MatchedRequest
<1>7. ASSUME NEW p \in Requests, p # q PROVE MatchedRequest(p)'
  BY <1>5, <1>7 DEF MatchedRequest
<1> QED BY <1>4, <1>6, <1>7

\* The response of an update, and the session it was made of, when the session's user is
\* the one whose column was changed.
LEMMA ChangeMatches ==
    ASSUME Types, NEW q \in Requests, call[q] \in Call, call[q].kind = "update",
           Registered(call[q].user), call[q].user = cookie.user, call[q].sent = cookie,
           Matched(cookie), rows' = Changed(q), NEW r, r = WithChange(q)
    PROVE  Matched(r)'
<1> DEFINE s == call[q].sent
           u == call[q].user
           f == call[q].change[1]
           value == <<u, call[q].change[2]>>
<1>1. /\ s \in Session /\ call[q] # NoCall /\ s.shown \in Shown
      /\ s = [logged |-> s.logged, user |-> s.user, shown |-> s.shown]
  BY CallParts, SessionParts
<1>2. f \in Fields BY <1>1 DEF Types, RequestsOK
<1>3. u \in Users /\ rows[u] \in Row /\ rows \in [Users -> Row \cup {NoRow}] /\ u # Nobody
  BY SessionsAssumption DEF Registered, Types, RowsOK
<1>4. rows' = [rows EXCEPT ![u] = [rows[u] EXCEPT ![f] = value]]
  BY <1>3 DEF Changed
<1>5. s.shown = rows[u] /\ s.user = u BY <1>3 DEF Matched
<1>6. r.user = u /\ r.shown = [s.shown EXCEPT ![f] = value]
  BY <1>1, <1>5 DEF WithChange
<1>7. [rows[u] EXCEPT ![f] = value] # NoRow
  <2>1. DOMAIN [rows[u] EXCEPT ![f] = value] = Fields BY <1>3 DEF Row
  <2>2. DOMAIN NoRow = {} BY DEF NoRow
  <2> QED BY <1>2, <2>1, <2>2
<1> HIDE DEF s, u, f, value
<1>8. rows'[u] = [rows[u] EXCEPT ![f] = value] BY <1>3, <1>4
<1> QED BY <1>5, <1>6, <1>7, <1>8 DEF Matched

\* What a handler answers leaves the browser with the session that is its user's row.
LEMMA HandlerMatchedRequest ==
    ASSUME Types, NEW q \in Requests, HandlerStep(q), CurrentRequest(q), MatchedRequest(q),
           Matched(cookie), failures' = 0
    PROVE  /\ MatchedRequest(q)'
           /\ pc'[q] # "answered" => UNCHANGED rows
<1> DEFINE s == call[q].sent
           u == call[q].user
<1>1. pc[q] \in {"sent", "authenticated"} /\ s = cookie
  BY DEF HandlerStep, HomePage, OtherPage, Authenticate, WrongPassword, FindUser,
         LogOutHandler, RegistrationHandler, UpdateHandler, NotModified, ServiceFails, Handle,
         CurrentRequest
<1>2. call[q] \in Call BY <1>1 DEF Types, RequestsOK
<1>3. /\ s \in Session /\ s # NoReply
      /\ s = [logged |-> s.logged, user |-> s.user, shown |-> s.shown]
  BY <1>2, CallParts, SessionParts
<1>4. /\ reply \in [Requests -> Session \cup {NoReply}] /\ rows \in [Users -> Row \cup {NoRow}]
      /\ pc \in [Requests -> {"idle", "sent", "authenticated", "answered", "failed"}]
  BY DEF Types, RequestsOK, RowsOK
<1>5. UNCHANGED <<cookie, call>> BY HandlerHandles DEF Handled
<1>6. ASSUME pc' = [pc EXCEPT ![q] = "failed"], UNCHANGED rows
      PROVE  MatchedRequest(q)' /\ UNCHANGED rows
  <2>1. pc'[q] = "failed" BY <1>4, <1>6
  <2> QED BY <1>6, <2>1 DEF MatchedRequest
<1>7. ASSUME pc[q] = "sent", pc' = [pc EXCEPT ![q] = "answered"], UNCHANGED reply,
             Matched(cookie)'
      PROVE  MatchedRequest(q)' /\ pc'[q] = "answered"
  <2>1. reply'[q] = NoReply BY <1>7 DEF CurrentRequest
  <2>2. pc'[q] = "answered" BY <1>4, <1>7
  <2> QED BY <1>7, <2>1, <2>2 DEF MatchedRequest, Arriving
<1>8. ASSUME NEW r \in Session, pc' = [pc EXCEPT ![q] = "answered"],
             reply' = [reply EXCEPT ![q] = r], Matched(r)'
      PROVE  MatchedRequest(q)' /\ pc'[q] = "answered"
  <2>1. reply'[q] = r /\ pc'[q] = "answered" /\ r # NoReply BY <1>4, <1>8, SessionParts
  <2> QED BY <1>8, <2>1 DEF MatchedRequest, Arriving
<1>9. UNCHANGED rows => Matched(cookie)' BY <1>5 DEF Matched
<1>10. CASE HomePage(q)
  <2>1. UNCHANGED rows /\ pc[q] = "sent" /\ pc' = [pc EXCEPT ![q] = "answered"]
    BY <1>10 DEF HomePage, Handle
  <2>2. PICK r : r = [s EXCEPT !.logged = "no"] OBVIOUS
  <2>3. r \in Session BY <1>2, <2>2, SavedTypes
  <2>4. r.user = s.user /\ r.shown = s.shown BY <1>3, <2>2
  <2>5. Matched(r)' BY <1>1, <2>1, <2>4 DEF Matched
  <2>6. UNCHANGED reply \/ reply' = [reply EXCEPT ![q] = r]
    BY <1>10, <2>2 DEF HomePage, Save
  <2> QED BY <1>7, <1>8, <1>9, <2>1, <2>3, <2>5, <2>6
<1>11. CASE OtherPage(q) BY <1>6, <1>7, <1>9, <1>11 DEF OtherPage, Handle
<1>12. CASE Authenticate(q)
  <2>1. PICK r : r = [logged |-> "yes", user |-> u, shown |-> rows[u]] OBVIOUS
  <2>2. /\ reply' = [reply EXCEPT ![q] = r] /\ UNCHANGED rows /\ Registered(u)
        /\ pc' = [pc EXCEPT ![q] = "authenticated"]
    BY <1>12, <2>1 DEF Authenticate, Save, Handle
  <2>3. reply'[q] = r /\ pc'[q] = "authenticated" BY <1>4, <2>2
  <2>4. r.user = u /\ r.shown = rows[u] BY <2>1
  <2>5. Matched(r)' BY <2>2, <2>4 DEF Matched, Registered
  <2> QED BY <2>2, <2>3, <2>5 DEF MatchedRequest
<1>13. CASE WrongPassword(q) BY <1>6, <1>13 DEF WrongPassword, Handle
<1>14. CASE FindUser(q)
  <2>1. PICK r : r = LoggedIn(q) OBVIOUS
  <2>2. /\ pc[q] = "authenticated" /\ UNCHANGED rows
        /\ reply' = [reply EXCEPT ![q] = r] /\ pc' = [pc EXCEPT ![q] = "answered"]
    BY <1>14, <2>1 DEF FindUser, Handle, Save
  <2>3. /\ reply[q] \in Session /\ SessionOf(reply[q], u) /\ Matched(reply[q])
        /\ u \in Users /\ rows[u] \in Row /\ u # Nobody
    BY <2>2, SessionsAssumption DEF CurrentRequest, MatchedRequest, Types, RequestsOK
  <2>4. reply[q].shown = rows[u] /\ rows[u] # NoRow /\ reply[q].user = u
    BY <2>3 DEF Matched, SessionOf
  <2>5. r.user = u /\ r.shown = [g \in Fields |-> IF g = "userName" THEN reply[q].shown[g]
                                                ELSE rows[u][g]]
    BY <2>1, <2>3, <2>4, SessionParts DEF LoggedIn
  <2>6. r.shown = rows[u] BY <2>3, <2>4, <2>5 DEF Row
  <2>7. r \in Session BY <1>2, <2>1, <2>2, SavedTypes
  <2>8. Matched(r)' BY <2>2, <2>4, <2>5, <2>6 DEF Matched
  <2> QED BY <1>8, <2>2, <2>7, <2>8
<1>15. CASE LogOutHandler(q)
  <2>1. PICK r : r = LoggedOut(s) OBVIOUS
  <2>2. /\ reply' = [reply EXCEPT ![q] = r] /\ pc' = [pc EXCEPT ![q] = "answered"]
    BY <1>15, <2>1 DEF LogOutHandler, Handle, Save
  <2>3. r \in Session BY <1>2, <2>1, SavedTypes
  <2>4. Matched(r)' BY <2>1 DEF Matched, LoggedOut
  <2> QED BY <1>8, <2>2, <2>3, <2>4
<1>16. CASE RegistrationHandler(q)
  <2>1. /\ pc[q] = "sent" /\ call[q].kind = "register" /\ rows' = Created(q)
        /\ UNCHANGED reply /\ pc' = [pc EXCEPT ![q] = "answered"]
    BY <1>16 DEF RegistrationHandler, Handle
  <2>2. rows[u] = NoRow BY <2>1 DEF MatchedRequest
  <2>3. cookie.user # Nobody => rows'[cookie.user] = rows[cookie.user]
    <3>1. cookie.user # Nobody => cookie.user # u BY <2>2 DEF Matched
    <3>2. cookie.user \in Anyone BY <1>1, <1>3, SessionParts
    <3> QED BY <1>4, <2>1, <3>1, <3>2 DEF Created, Anyone
  <2>4. Matched(cookie)' BY <1>5, <2>3 DEF Matched
  <2> QED BY <1>7, <2>1, <2>4
<1>17. CASE UpdateHandler(q)
  <2>1. PICK r : r = WithChange(q) OBVIOUS
  <2>2. /\ pc[q] = "sent" /\ call[q].kind = "update" /\ Registered(u) /\ rows' = Changed(q)
        /\ reply' = [reply EXCEPT ![q] = r] /\ pc' = [pc EXCEPT ![q] = "answered"]
    BY <1>17, <2>1 DEF UpdateHandler, Handle, Save
  <2>3. r \in Session BY <1>2, <2>1, <2>2, SavedTypes
  <2>4. u = cookie.user BY <2>2 DEF MatchedRequest
  <2>5. Matched(r)' BY <1>1, <1>2, <2>1, <2>2, <2>4, ChangeMatches
  <2> QED BY <1>8, <2>2, <2>3, <2>5
<1>18. CASE NotModified(q) BY <1>6, <1>18 DEF NotModified, Handle
<1>19. CASE ServiceFails(q)
  <2>1. failures' = failures + 1 /\ failures \in Nat
    BY <1>19, SessionsAssumption DEF ServiceFails, Types, HistoryOK
  <2> QED BY <2>1
<1> QED
  BY <1>10, <1>11, <1>12, <1>13, <1>14, <1>15, <1>16, <1>17, <1>18, <1>19 DEF HandlerStep

LEMMA HandlerMatch ==
    ASSUME Types, SessionIsCurrent, RowsMatch, NEW q \in Requests, HandlerStep(q)
    PROVE  RowsMatch'
<1>1. Handled(q) /\ failures \in Nat
  BY HandlerHandles, SessionsAssumption DEF Types, HistoryOK
<1> SUFFICES ASSUME ~overlapped', ~crossed', failures' = 0
             PROVE  /\ (\A p \in Requests : pc'[p] # "answered") => Matched(cookie)'
                    /\ \A p \in Requests : MatchedRequest(p)'
  BY DEF RowsMatch
<1>2. ~overlapped /\ ~crossed BY <1>1 DEF Handled
<1>3. failures = 0
  BY <1>1 DEF HandlerStep, HomePage, OtherPage, Authenticate, WrongPassword, FindUser,
         LogOutHandler, RegistrationHandler, UpdateHandler, NotModified, ServiceFails, Handle,
         historyVars
<1>4. Alone /\ CurrentRequest(q) BY <1>2 DEF SessionIsCurrent
<1>5. pc[q] \in {"sent", "authenticated"}
  BY DEF HandlerStep, HomePage, OtherPage, Authenticate, WrongPassword, FindUser,
         LogOutHandler, RegistrationHandler, UpdateHandler, NotModified, ServiceFails, Handle
<1>6. /\ UNCHANGED <<cookie, call>>
      /\ \A p \in Requests : p # q => pc[p] = "idle" /\ pc'[p] = "idle"
  BY <1>1, <1>4, HandledAlone
<1>7. Matched(cookie) /\ MatchedRequest(q) BY <1>2, <1>3, <1>5, <1>6 DEF RowsMatch
<1>8. /\ MatchedRequest(q)'
      /\ pc'[q] # "answered" => UNCHANGED rows
  BY <1>4, <1>7, HandlerMatchedRequest
<1>9. (\A p \in Requests : pc'[p] # "answered") => Matched(cookie)'
  BY <1>6, <1>7, <1>8 DEF Matched
<1>10. ASSUME NEW p \in Requests, p # q PROVE MatchedRequest(p)'
  BY <1>6, <1>10 DEF MatchedRequest
<1> QED BY <1>8, <1>9, <1>10

LEMMA ReceiveMatch ==
    ASSUME Types, SessionIsCurrent, RowsMatch, NEW q \in Requests, ReceiveStep(q)
    PROVE  RowsMatch'
<1> SUFFICES ASSUME ~overlapped', ~crossed', failures' = 0
             PROVE  Matched(cookie)' /\ \A p \in Requests : MatchedRequest(p)'
  BY DEF RowsMatch
<1>1. ~overlapped /\ ~crossed /\ failures = 0
  BY DEF ReceiveStep, ReceivePage, ReceiveUpdate, ReceiveAndGoHome, ReceiveFailure,
         Finish, GoHome
<1>2. Alone BY <1>1 DEF SessionIsCurrent
<1>3. /\ pc[q] \in {"answered", "failed"} /\ UNCHANGED rows
      /\ \A p \in Requests : p # q => pc[p] = "idle" /\ pc'[p] = "idle"
      /\ pc'[q] = "idle" \/ (pc'[q] = "sent" /\ call'[q].kind = "home")
  BY <1>2, ReceivedAlone
<1>4. \A p \in Requests : MatchedRequest(p)' BY <1>3 DEF MatchedRequest
<1>5. CASE pc[q] = "answered"
  <2>1. Matched(Arriving(q)) BY <1>1, <1>5 DEF RowsMatch, MatchedRequest
  <2>2. cookie' = Arriving(q)
    BY <1>5 DEF ReceiveStep, ReceivePage, ReceiveUpdate, ReceiveAndGoHome, ReceiveFailure,
                SetCookie, Arriving
  <2>3. Matched(cookie)' BY <1>3, <2>1, <2>2 DEF Matched
  <2> QED BY <1>4, <2>3
<1>6. CASE pc[q] = "failed"
  <2>1. Matched(cookie) BY <1>1, <1>3, <1>6 DEF RowsMatch
  <2>2. UNCHANGED cookie
    BY <1>6 DEF ReceiveStep, ReceivePage, ReceiveUpdate, ReceiveAndGoHome, ReceiveFailure
  <2> QED BY <1>3, <1>4, <2>1, <2>2 DEF Matched
<1> QED BY <1>3, <1>5, <1>6

LEMMA NextMatch ==
    Types /\ SessionIsCurrent /\ RowsMatch /\ [Next]_vars => RowsMatch'
<1> SUFFICES ASSUME Types, SessionIsCurrent, RowsMatch, [Next]_vars PROVE RowsMatch' OBVIOUS
<1>1. CASE Next
  <2> PICK q \in Requests : BrowserStep(q) \/ HandlerStep(q) \/ ReceiveStep(q)
    BY <1>1, StepCases
  <2>1. CASE BrowserStep(q) BY <2>1, BrowserSends, SendMatch
  <2>2. CASE HandlerStep(q) BY <2>2, HandlerMatch
  <2>3. CASE ReceiveStep(q) BY <2>3, ReceiveMatch
  <2> QED BY <2>1, <2>2, <2>3
<1>2. CASE UNCHANGED vars
  BY <1>2 DEF vars, historyVars, RowsMatch, Matched, MatchedRequest, Arriving
<1> QED BY <1>1, <1>2

\* For any users, tabs and requests: while no requests overlapped, no page was used in
\* another's session and no call failed, the session's copies of the columns are those of
\* the user's row whenever nothing is on its way.
THEOREM SessionsMatchTheRows == Spec => []SessionMatchesRow
<1>1. RowsMatch => SessionMatchesRow
  BY DEF RowsMatch, SessionMatchesRow, Matched, OnTheirWay
<1> QED
  BY <1>1, AlwaysTypes, InitCurrent, NextCurrent, InitMatch, NextMatch, PTL DEF Spec
=============================================================================
