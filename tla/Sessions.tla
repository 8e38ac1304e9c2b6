------------------------------ MODULE Sessions ------------------------------
(***************************************************************************)
(* The frontend's handlers that work on the session.  The whole session is *)
(* in a cookie: a handler reads the copy its request carried, whatever has *)
(* happened since it was sent, and a handler that saves the session sets   *)
(* the whole cookie.  One browser, with tabs that show what was rendered   *)
(* for them and go on showing it; the rows of the user service behind.     *)
(***************************************************************************)
EXTENDS Naturals, FiniteSets

CONSTANTS
    Users, Tabs, Requests,
    Fields,         \* userName, userMail, userAddress: a column and a session value each
    Versions,       \* what a user's column may hold; values of different users differ
    Nobody,         \* no user
    Null,           \* a session value that is not there
    MaxInFlight,    \* bound on the requests on their way
    MaxRequests,    \* bound on the requests sent
    MaxFailures     \* bound on the calls to the user service that fail

ASSUME SessionsAssumption ==
    /\ Nobody \notin Users
    /\ Null \notin Users \X Versions
    /\ Fields \subseteq {"userName", "userMail", "userAddress"}
    /\ MaxInFlight \in Nat \ {0} /\ MaxRequests \in Nat /\ MaxFailures \in Nat

VARIABLES
    rows,       \* rows[u]: the columns of user u; NoRow when there is none
    cookie,     \* the session the browser holds
    page,       \* page[t]: what tab t shows
    pc,         \* pc[q]: how far request q is
    call,       \* call[q]: the request as it was sent
    reply,      \* reply[q]: the session that the response sets, or NoReply
    account,    \* history: who logged in, by the responses received, and has not logged out
    overlapped, \* history: two requests were on their way at once
    crossed,    \* history: a page of one user was used in the session of another
    requests,   \* the requests sent
    failures    \* the calls to the user service that failed

historyVars == <<account, overlapped, crossed, requests, failures>>
vars == <<rows, cookie, page, pc, call, reply, historyVars>>

Anyone == Users \cup {Nobody}
Values == Users \X Versions
Owner(value) == value[1]
Shown == [Fields -> Values \cup {Null}]
NothingShown == [f \in Fields |-> Null]
Row == [Fields -> Values]
NoRow == [f \in {} |-> Null]

Session == [logged : {"unset", "no", "yes"}, user : Anyone, shown : Shown]
NewSession == [logged |-> "unset", user |-> Nobody, shown |-> NothingShown]
NoReply == [logged |-> "none"]

\* "logIn" is the home page of who is not logged in.
Page == [kind : {"none", "logIn", "home", "userProfile", "cart", "checkoutDetails"},
         user : Anyone, shown : Shown]
NoPage == [kind |-> "none", user |-> Nobody, shown |-> NothingShown]

NoChange == <<>>
Navigations == {"home", "userProfile", "cart", "checkoutDetails"}
Call == [kind : Navigations \cup {"logIn", "logOut", "update", "register"}, tab : Tabs,
         sent : Session, user : Anyone, change : (Fields \X Versions) \cup {NoChange}]
NoCall == [kind |-> "none"]

OnTheirWay == {q \in Requests : pc[q] # "idle"}

TypeOK ==
    /\ rows \in [Users -> Row \cup {NoRow}]
    /\ cookie \in Session
    /\ page \in [Tabs -> Page]
    /\ pc \in [Requests -> {"idle", "sent", "authenticated", "answered", "failed"}]
    /\ call \in [Requests -> Call \cup {NoCall}]
    /\ reply \in [Requests -> Session \cup {NoReply}]
    /\ account \in Anyone
    /\ overlapped \in BOOLEAN /\ crossed \in BOOLEAN
    /\ requests \in 0 .. MaxRequests /\ failures \in 0 .. MaxFailures
    /\ \A q \in OnTheirWay : call[q] \in Call
    /\ \A q \in Requests : pc[q] = "authenticated" =>
         /\ call[q].user \in Users /\ rows[call[q].user] \in Row
         /\ reply[q] \in Session

\* Some users have registered before, and one tab or more is open.
Init ==
    /\ \E registered \in SUBSET Users, v \in [Users -> Versions] :
         rows = [u \in Users |->
                   IF u \in registered THEN [f \in Fields |-> <<u, v[u]>>] ELSE NoRow]
    /\ cookie = NewSession
    /\ page = [t \in Tabs |-> NoPage]
    /\ pc = [q \in Requests |-> "idle"]
    /\ call = [q \in Requests |-> NoCall]
    /\ reply = [q \in Requests |-> NoReply]
    /\ account = Nobody
    /\ overlapped = FALSE /\ crossed = FALSE
    /\ requests = 0 /\ failures = 0

-----------------------------------------------------------------------------
(* What the browser sends.                                                  *)

\* A request carries the session of the moment it is sent.
Sent(kind, t, session, u, change) ==
    [kind |-> kind, tab |-> t, sent |-> session, user |-> u, change |-> change]

Send(q, kind, t, u, change) ==
    /\ pc[q] = "idle"
    /\ Cardinality(OnTheirWay) < MaxInFlight
    /\ requests < MaxRequests
    /\ requests' = requests + 1
    /\ pc' = [pc EXCEPT ![q] = "sent"]
    /\ call' = [call EXCEPT ![q] = Sent(kind, t, cookie, u, change)]
    /\ overlapped' = (overlapped \/ OnTheirWay # {})
    /\ UNCHANGED <<rows, cookie, page, reply, account, failures>>

\* A tab that is loading a page asks for no other.
Loading(t) == \E q \in OnTheirWay : call[q].tab = t /\ call[q].kind \in Navigations

\* A page is asked for by its address, or by a link or script of any page.
Visit(q, t) ==
    /\ ~Loading(t)
    /\ \E kind \in Navigations \ {"checkoutDetails"} : Send(q, kind, t, Nobody, NoChange)
    /\ UNCHANGED crossed

\* confirmCheckout of the cart page, and Retry of the page it leads to, name the user the
\* page was rendered for.
Checkout(q, t) ==
    /\ ~Loading(t)
    /\ page[t].kind \in {"cart", "checkoutDetails"}
    /\ Send(q, "checkoutDetails", t, page[t].user, NoChange)
    /\ crossed' = (crossed \/ page[t].user # cookie.user)

LogIn(q, t) ==
    /\ page[t].kind = "logIn"
    /\ \E u \in Users : Send(q, "logIn", t, u, NoChange)
    /\ UNCHANGED crossed

\* logOut of the header, which the home page of who is not logged in has not.
LogOut(q, t) ==
    /\ page[t].kind \notin {"none", "logIn"}
    /\ Send(q, "logOut", t, Nobody, NoChange)
    /\ UNCHANGED crossed

\* The registration page, which shows nothing of the session; mail addresses are unique.
Register(q, t) ==
    /\ \E u \in Users, v \in Versions, f \in Fields :
         /\ rows[u] = NoRow
         /\ \A p \in OnTheirWay : ~(call[p].kind = "register" /\ call[p].user = u)
         /\ Send(q, "register", t, u, <<f, v>>)
    /\ UNCHANGED crossed

\* updateUsername, updateMail and updateAddress of the profile page, for the user it was
\* rendered for, with a value that is not the one rendered.
Update(q, t) ==
    /\ page[t].kind = "userProfile"
    /\ \E f \in Fields, v \in Versions :
         /\ page[t].shown[f] # <<page[t].user, v>>
         /\ Send(q, "update", t, page[t].user, <<f, v>>)
    /\ crossed' = (crossed \/ page[t].user # cookie.user)

-----------------------------------------------------------------------------
(* The handlers.  All they know of the session is what the request carried. *)

Handle(q, kind, from, to) ==
    /\ call[q].kind = kind
    /\ pc[q] = from
    /\ pc' = [pc EXCEPT ![q] = to]
    /\ UNCHANGED <<cookie, page, call, historyVars>>

Save(q, session) == reply' = [reply EXCEPT ![q] = session]

\* Mutant: a user who is not there is found, and has nothing.
RegisteredOrNot(u) == u \in Users

Registered(u) == u \in Users /\ rows[u] # NoRow

\* homePageHandler saves a session that has no value logged.
HomePage(q) ==
    /\ Handle(q, "home", "sent", "answered")
    /\ IF call[q].sent.logged = "unset"
       THEN Save(q, [call[q].sent EXCEPT !.logged = "no"])
       ELSE UNCHANGED reply
    /\ UNCHANGED rows

\* userProfilePageHandler, cartPageHandler and checkoutPageHandler save nothing.
OtherPage(q) ==
    /\ \/ Handle(q, "userProfile", "sent", "answered")
       \/ Handle(q, "cart", "sent", "answered")
       \/ Handle(q, "checkoutDetails", "sent", "answered") /\ Registered(call[q].user)
       \/ Handle(q, "checkoutDetails", "sent", "failed") /\ ~Registered(call[q].user)
    /\ UNCHANGED <<rows, reply>>

\* loginHandler has the user's name from the first call it makes ...
Authenticate(q) ==
    /\ Handle(q, "logIn", "sent", "authenticated")
    /\ Registered(call[q].user)
    /\ Save(q, [logged |-> "yes", user |-> call[q].user, shown |-> rows[call[q].user]])
    /\ UNCHANGED rows

WrongPassword(q) == Handle(q, "logIn", "sent", "failed") /\ UNCHANGED <<rows, reply>>

\* Mutant: the values that the request's session has already are kept.
LoggedInKeeping(q) ==
    [reply[q] EXCEPT !.shown = [f \in Fields |->
       IF f = "userName" THEN reply[q].shown[f]
       ELSE IF call[q].sent.shown[f] # Null THEN call[q].sent.shown[f]
       ELSE rows[call[q].user][f]]]

\* ... and the mail and the address from the second.
LoggedIn(q) ==
    [reply[q] EXCEPT !.shown = [f \in Fields |->
       IF f = "userName" THEN reply[q].shown[f] ELSE rows[call[q].user][f]]]

FindUser(q) ==
    /\ Handle(q, "logIn", "authenticated", "answered")
    /\ Save(q, LoggedIn(q))
    /\ UNCHANGED rows

\* Mutant: the user's ID stays in the session.
LoggedOutAnonymous(session) ==
    [logged |-> "no", user |-> session.user, shown |-> NothingShown]

\* What logOutHandler makes of the session.
LoggedOut(session) == [logged |-> "no", user |-> Nobody, shown |-> NothingShown]

LogOutHandler(q) ==
    /\ Handle(q, "logOut", "sent", "answered")
    /\ Save(q, LoggedOut(call[q].sent))
    /\ UNCHANGED rows

\* The row that createUser saves.
Created(q) ==
    [rows EXCEPT ![call[q].user] = [f \in Fields |-> <<call[q].user, call[q].change[2]>>]]

RegistrationHandler(q) ==
    /\ Handle(q, "register", "sent", "answered")
    /\ rows' = Created(q)
    /\ UNCHANGED reply

\* The column of the user the page named, as the service leaves it.
Changed(q) ==
    [rows EXCEPT ![call[q].user] =
       [@ EXCEPT ![call[q].change[1]] = <<call[q].user, call[q].change[2]>>]]

\* Mutant: the session is left as it is.
WithoutChange(q) == call[q].sent

\* The session with the new value, whosever session it is.
WithChange(q) ==
    [call[q].sent EXCEPT !.shown[call[q].change[1]] = <<call[q].user, call[q].change[2]>>]

\* The update handlers: the row, and then the session.
UpdateHandler(q) ==
    /\ Handle(q, "update", "sent", "answered")
    /\ Registered(call[q].user)
    /\ rows' = Changed(q)
    /\ Save(q, WithChange(q))

NotModified(q) ==
    /\ Handle(q, "update", "sent", "failed")
    /\ ~Registered(call[q].user)
    /\ UNCHANGED <<rows, reply>>

\* A call to the user service fails, executed or not.  The update and registration handlers
\* and the checkout page answer with an error; loginHandler panics, on the response or on
\* the error it has not got, and its request is never answered.
ServiceFails(q) ==
    /\ failures < MaxFailures
    /\ pc[q] \in {"sent", "authenticated"}
    /\ call[q].kind \in {"logIn", "update", "register", "checkoutDetails"}
    /\ pc' = [pc EXCEPT ![q] = "failed"]
    /\ failures' = failures + 1
    /\ Save(q, NoReply)
    /\ \/ UNCHANGED rows
       \/ call[q].kind = "update" /\ Registered(call[q].user) /\ rows' = Changed(q)
       \/ call[q].kind = "register" /\ rows' = Created(q)
    /\ UNCHANGED <<cookie, page, call, account, overlapped, crossed, requests>>

-----------------------------------------------------------------------------
(* What the browser receives.                                               *)

\* What a tab shows of call c, from the session it carried.  A cart that is empty names no
\* user; the details of a checkout show the address, for the user of the cart.
Rendered(c) ==
    {[kind |-> IF c.kind = "home" /\ c.sent.logged # "yes" THEN "logIn" ELSE c.kind,
      user |-> IF c.kind = "checkoutDetails" THEN c.user ELSE u,
      shown |-> IF c.kind = "cart" \/ (c.kind = "home" /\ c.sent.logged # "yes")
                THEN NothingShown ELSE c.sent.shown]
       : u \in IF c.kind = "cart" THEN {c.sent.user, Nobody} ELSE {c.sent.user}}

Finish(q) ==
    /\ pc' = [pc EXCEPT ![q] = "idle"]
    /\ call' = [call EXCEPT ![q] = NoCall]
    /\ reply' = [reply EXCEPT ![q] = NoReply]
    /\ UNCHANGED <<rows, overlapped, crossed, requests, failures>>

\* The session of the response takes the place of the one the browser has.
SetCookie(q) == cookie' = IF reply[q] = NoReply THEN cookie ELSE reply[q]

ReceivePage(q) ==
    /\ pc[q] = "answered" /\ call[q].kind \in Navigations
    /\ SetCookie(q)
    /\ \E p \in Rendered(call[q]) : page' = [page EXCEPT ![call[q].tab] = p]
    /\ UNCHANGED account
    /\ Finish(q)

\* The profile page tells its user, and shows what it showed.
ReceiveUpdate(q) ==
    /\ pc[q] = "answered" /\ call[q].kind = "update"
    /\ SetCookie(q)
    /\ UNCHANGED <<page, account>>
    /\ Finish(q)

GoHome(q) ==
    /\ pc' = [pc EXCEPT ![q] = "sent"]
    /\ call' = [call EXCEPT ![q] = Sent("home", @.tab, cookie', Nobody, NoChange)]
    /\ reply' = [reply EXCEPT ![q] = NoReply]
    /\ UNCHANGED <<rows, overlapped, crossed, requests, failures>>

\* The scripts of the other requests go to the home page, with the session just set; the
\* script of a tab that is loading another page is gone.
ReceiveAndGoHome(q) ==
    /\ pc[q] = "answered" /\ call[q].kind \in {"logIn", "logOut", "register"}
    /\ SetCookie(q)
    /\ account' = CASE call[q].kind = "logIn"  -> call[q].user
                    [] call[q].kind = "logOut" -> Nobody
                    [] OTHER                   -> account
    /\ IF Loading(call[q].tab) THEN Finish(q) ELSE GoHome(q)
    /\ UNCHANGED page

\* An error, a refusal or no response: a tab that was loading shows an error, any other
\* what it showed.
ReceiveFailure(q) ==
    /\ pc[q] = "failed"
    /\ page' = IF call[q].kind \in Navigations THEN [page EXCEPT ![call[q].tab] = NoPage]
               ELSE page
    /\ UNCHANGED <<cookie, account>>
    /\ Finish(q)

Next ==
    \E q \in Requests :
      \/ \E t \in Tabs :
           \/ Visit(q, t) \/ Checkout(q, t) \/ LogIn(q, t) \/ LogOut(q, t)
           \/ Register(q, t) \/ Update(q, t)
      \/ HomePage(q) \/ OtherPage(q) \/ Authenticate(q) \/ WrongPassword(q) \/ FindUser(q)
      \/ LogOutHandler(q) \/ RegistrationHandler(q) \/ UpdateHandler(q) \/ NotModified(q)
      \/ ServiceFails(q)
      \/ ReceivePage(q) \/ ReceiveUpdate(q) \/ ReceiveAndGoHome(q) \/ ReceiveFailure(q)

Spec == Init /\ [][Next]_vars

-----------------------------------------------------------------------------
(* Properties                                                               *)

ShowsOwn(user, shown) == \A f \in Fields : shown[f] # Null => Owner(shown[f]) = user

\* However requests overlap and their responses race to set the cookie, no session, no
\* request on its way, no response and no page shows one user a value of another, and no
\* order is confirmed with the address of another, as long as no page of one user is used
\* in the session of another.
NobodySeesAnother ==
    ~crossed =>
      /\ ShowsOwn(cookie.user, cookie.shown)
      /\ \A t \in Tabs : ShowsOwn(page[t].user, page[t].shown)
      /\ \A q \in Requests :
           /\ reply[q] # NoReply => ShowsOwn(reply[q].user, reply[q].shown)
           /\ call[q] # NoCall => ShowsOwn(call[q].sent.user, call[q].sent.shown)

\* When requests never overlap, the session is that of the user who logged in last and did
\* not log out since: the cookie of a response that is applied is never older.
SessionIsWhoLoggedIn ==
    ~overlapped =>
      /\ cookie.user = account
      /\ (cookie.logged = "yes") <=> (account # Nobody)

\* The session's copies of the columns are those of the user's row, when no requests ever
\* overlapped, no page was used in another's session and no call failed.
SessionMatchesRow ==
    ~overlapped /\ ~crossed /\ failures = 0 /\ OnTheirWay = {} /\ cookie.user # Nobody =>
      cookie.shown = rows[cookie.user]
=============================================================================
