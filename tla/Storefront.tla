----------------------------- MODULE Storefront -----------------------------
(***************************************************************************)
(* The handlers of the web frontend that work on carts, each a goroutine   *)
(* of its own, over the cart service: adding an item, emptying the cart,   *)
(* and the checkout page, which fetches the cart, orders it, and empties   *)
(* it and mails the user once the order is approved.                       *)
(*                                                                         *)
(* The checkout service is seen as FoodSaga's callers see it: an order is  *)
(* approved, is rejected, or ends in an error that says neither.  A call   *)
(* to a service may fail; MaxFailures bounds the failures.                 *)
(***************************************************************************)
EXTENDS CartService, FiniteSets, FiniteSetsExt

CONSTANTS
    MaxTabs,        \* by user: bound on the requests served at the same time
    MaxFailures     \* bound on the calls that fail

ASSUME StorefrontAssumption ==
    /\ IsFiniteSet(Requests)
    /\ MaxTabs \in [Users -> Nat \ {0}]
    /\ MaxFailures \in Nat

VARIABLES
    pc,         \* pc[q]: how far the handler of q is
    args,       \* args[q]: what the user asked for
    orders,     \* the orders sent to the checkout service, by request
    mails,      \* the requests whose user was mailed ORDER_SUCCESS
    failures    \* the calls that failed

handlerVars == <<args, orders, mails>>
vars == <<cartVars, pc, args, orders, mails, failures>>

Running == {"adding", "copied", "emptying", "fetching", "fetched", "paying", "waiting",
            "approved", "mailing"}
Ended == {"done", "failed"}

Additions == [op : {"addToCart"}, user : Users, restaurantID : Restaurants,
              itemID : Items, quantity : 1 .. MaxQuantity]
Plain == [op : {"emptyCart", "checkoutPage"}, user : Users]
NoArgs == [op |-> "none"]

\* An order of request q: what was ordered, and what the frontend was told of it.
Order == [request : Requests, cart : Cart,
          outcome : {"open", "approved", "rejected", "error"}]

\* What the steps of a handler rely on: the arguments it was called with, and a cart.
HandlersReady ==
    \A q \in Requests :
        /\ pc[q] \in {"adding", "copied"} => args[q] \in Additions
        /\ pc[q] \in Running \ {"adding", "copied"} => args[q] \in Plain
        /\ pc[q] \in {"fetched", "paying"} => held[q] # NoCart

TypeOK ==
    /\ CartTypeOK
    /\ pc \in [Requests -> {"idle"} \cup Running \cup Ended]
    /\ args \in [Requests -> Additions \cup Plain \cup {NoArgs}]
    /\ orders \subseteq Order
    /\ mails \subseteq Requests
    /\ failures \in 0 .. MaxFailures
    /\ HandlersReady

Init ==
    /\ CartInit
    /\ pc = [q \in Requests |-> "idle"]
    /\ args = [q \in Requests |-> NoArgs]
    /\ orders = {}
    /\ mails = {}
    /\ failures = 0

-----------------------------------------------------------------------------
Goto(q, from, to) == pc[q] = from /\ pc' = [pc EXCEPT ![q] = to]
Active(u) == {q \in Requests : pc[q] \in Running /\ args[q].user = u}
User(q) == args[q].user

CallFails == failures < MaxFailures /\ failures' = failures + 1

\* A request arrives.
Arrive(q, a, first) ==
    /\ Goto(q, "idle", first)
    /\ Cardinality(Active(a.user)) < MaxTabs[a.user]
    /\ args' = [args EXCEPT ![q] = a]
    /\ UNCHANGED <<cartVars, orders, mails, failures>>

AddToCart(q) == \E a \in Additions : Arrive(q, a, "adding")
EmptyCartRequest(q) ==
    \E u \in Users : Arrive(q, [op |-> "emptyCart", user |-> u], "emptying")
CheckoutPage(q) ==
    \E u \in Users : Arrive(q, [op |-> "checkoutPage", user |-> u], "fetching")

\* addToCartHandler: AddItem reads and then writes the cart.
ReadForItem(q) ==
    /\ Goto(q, "adding", "copied")
    /\ AddItemRead(q, User(q))
    /\ UNCHANGED <<handlerVars, failures>>

WriteItem(q) ==
    LET a == args[q] IN
    /\ Goto(q, "copied", "done")
    /\ AddItemWrite(q, a.user, a.restaurantID, a.itemID, a.quantity)
    /\ UNCHANGED <<handlerVars, failures>>

\* AddItem or EmptyCart fails: the handler only prints, and Redis may have executed a
\* command whose answer did not come.
CartCallFails(q) ==
    /\ CallFails
    /\ pc[q] \in {"adding", "copied", "emptying"}
    /\ pc' = [pc EXCEPT ![q] = "failed"]
    /\ \/ UNCHANGED cartVars
       \/ pc[q] = "copied" /\ LET a == args[q] IN
            AddItemWrite(q, a.user, a.restaurantID, a.itemID, a.quantity)
       \/ pc[q] = "emptying" /\ EmptyCartAsync(User(q))
    /\ UNCHANGED handlerVars

\* emptyCartHandler
ClearCart(q) ==
    /\ Goto(q, "emptying", "done")
    /\ EmptyCartAsync(User(q))
    /\ UNCHANGED <<handlerVars, failures>>

-----------------------------------------------------------------------------
(* checkoutPageHandler                                                      *)

\* getOrder: a failing call is answered with an empty cart, and the handler goes on.
GetOrder(q) ==
    /\ Goto(q, "fetching", "fetched")
    /\ \/ GetCartAsync(q, User(q)) /\ UNCHANGED failures
       \/ CallFails /\ held' = [held EXCEPT ![q] = EmptyCart] /\ UNCHANGED carts
    /\ UNCHANGED handlerVars

\* getUserByID: without the user's card there is no order.
GetUser(q) ==
    /\ \/ Goto(q, "fetched", "paying") /\ UNCHANGED failures
       \/ Goto(q, "fetched", "failed") /\ CallFails
    /\ UNCHANGED <<cartVars, handlerVars>>

\* executeCheckout: the cart fetched is ordered, whatever has become of it.
ExecuteCheckout(q) ==
    /\ Goto(q, "paying", "waiting")
    /\ orders' = orders \cup {[request |-> q, cart |-> held[q], outcome |-> "open"]}
    /\ UNCHANGED <<cartVars, args, mails, failures>>

\* Mutant: the cart is left as it is when the order is approved.
CheckoutAnsweredUnemptied(q) ==
    \E o \in orders : \E outcome \in {"approved", "rejected"} :
        /\ o.request = q
        /\ orders' = (orders \ {o}) \cup {[o EXCEPT !.outcome = outcome]}
        /\ Goto(q, "waiting", IF outcome = "approved" THEN "mailing" ELSE "done")
        /\ UNCHANGED <<cartVars, args, mails, failures>>

\* Mutant: the handler goes on whatever the checkout service said.
CheckoutAnsweredUnheeded(q) ==
    \E o \in orders : \E outcome \in {"approved", "rejected"} :
        /\ o.request = q
        /\ orders' = (orders \ {o}) \cup {[o EXCEPT !.outcome = outcome]}
        /\ Goto(q, "waiting", "approved")
        /\ UNCHANGED <<cartVars, args, mails, failures>>

\* The checkout service answers; an error counts as a rejection.
CheckoutAnswered(q) ==
    \E o \in orders : \E outcome \in {"approved", "rejected", "error"} :
        /\ o.request = q
        /\ orders' = (orders \ {o}) \cup {[o EXCEPT !.outcome = outcome]}
        /\ Goto(q, "waiting", IF outcome = "approved" THEN "approved" ELSE "done")
        /\ IF outcome = "error" THEN CallFails ELSE UNCHANGED failures
        /\ UNCHANGED <<cartVars, args, mails>>

\* The user's cart is emptied, whatever is in it now; a failure is only printed.
EmptyPaidCart(q) ==
    /\ Goto(q, "approved", "mailing")
    /\ \/ EmptyCartAsync(User(q)) /\ UNCHANGED failures
       \/ CallFails /\ UNCHANGED cartVars
       \/ CallFails /\ EmptyCartAsync(User(q))
    /\ UNCHANGED handlerVars

\* sendMail, whose failure is only printed.
SendMail(q) ==
    /\ Goto(q, "mailing", "done")
    /\ \/ mails' = mails \cup {q} /\ UNCHANGED failures
       \/ CallFails /\ mails' \in {mails, mails \cup {q}}
    /\ UNCHANGED <<cartVars, args, orders>>

Handler(q) ==
    \/ ReadForItem(q)
    \/ WriteItem(q)
    \/ CartCallFails(q)
    \/ ClearCart(q)
    \/ GetOrder(q)
    \/ GetUser(q)
    \/ ExecuteCheckout(q)
    \/ CheckoutAnswered(q)
    \/ EmptyPaidCart(q)
    \/ SendMail(q)

Next ==
    \E q \in Requests :
        \/ AddToCart(q)
        \/ EmptyCartRequest(q)
        \/ CheckoutPage(q)
        \/ Handler(q)

Spec == Init /\ [][Next]_vars

-----------------------------------------------------------------------------
(* What holds however the requests of the users overlap, and whatever fails. *)

\* A cart is of one restaurant: every line was priced by it, and a cart of no restaurant
\* has no lines.  No product has two lines, which a page would show and AddMenuItem would
\* count apart.
WellFormed(cart) ==
    /\ \A k \in DOMAIN cart.menuItems : cart.menuItems[k].price = cart.restaurantID
    /\ \A j, k \in DOMAIN cart.menuItems :
         cart.menuItems[j].itemID = cart.menuItems[k].itemID => j = k

\* Every cart Redis has, every copy a handler works on, and every cart that was ordered
\* is well formed.
CartsAreWellFormed ==
    /\ \A u \in Users : carts[u] # NoCart => WellFormed(carts[u])
    /\ \A q \in Requests : held[q] # NoCart => WellFormed(held[q])
    /\ \A o \in orders : WellFormed(o.cart)

\* The additions of product i of restaurant r user u has made.
Added(u, r, i) ==
    LET additions == {q \in Requests : args[q].op = "addToCart" /\ args[q].user = u
                                       /\ args[q].restaurantID = r /\ args[q].itemID = i}
    IN SumFunction([q \in additions |-> args[q].quantity])

InCart(cart, r, i) ==
    LET lines == {k \in DOMAIN cart.menuItems :
                    cart.menuItems[k].itemID = i /\ cart.menuItems[k].price = r}
    IN SumFunction([k \in lines |-> cart.menuItems[k].quantity])

CartOf(u) == IF carts[u] = NoCart THEN EmptyCart ELSE carts[u]

\* No addition is counted twice, and none reaches the cart or an order of another user,
\* though additions copy carts that were emptied or changed since.
NothingIsAddedTwice ==
    \A r \in Restaurants, i \in Items :
        /\ \A u \in Users : InCart(CartOf(u), r, i) <= Added(u, r, i)
        /\ \A o \in orders : InCart(o.cart, r, i) <= Added(User(o.request), r, i)

\* Nobody is mailed ORDER_SUCCESS without an approved order, and an approved order whose
\* page is through was mailed, unless a call failed.
MailsFollowApprovals ==
    /\ \A q \in mails : \E o \in orders : o.request = q /\ o.outcome = "approved"
    /\ failures = 0 =>
         \A o \in orders : o.outcome = "approved" /\ pc[o.request] = "done"
                             => o.request \in mails

-----------------------------------------------------------------------------
(* What holds for users who make one request at a time, until a call fails. *)

OneAtATime(u) == MaxTabs[u] = 1 /\ failures = 0
Idle(u) == Active(u) = {}
Bought(u, r, i) ==
    LET approved == {o \in orders : o.outcome = "approved" /\ User(o.request) = u}
    IN SumFunction([o \in approved |-> InCart(o.cart, r, i)])

\* What a user has bought and still has in the cart is no more than was added: approving
\* an order takes what it bought out of the cart.
NothingIsBoughtTwice ==
    \A u \in Users : OneAtATime(u) /\ Idle(u) =>
        \A r \in Restaurants, i \in Items :
            Bought(u, r, i) + InCart(CartOf(u), r, i) <= Added(u, r, i)

HasWhatWasAdded(u) ==
    LET made == {q \in Requests : pc[q] # "idle" /\ args[q].user = u} IN
    \A r \in Restaurants :
        (\A q \in made : args[q].op = "addToCart" /\ args[q].restaurantID = r)
           => \A i \in Items : InCart(CartOf(u), r, i) = Added(u, r, i)

\* A user who has only added products of one restaurant, one at a time, has all of them in
\* the cart, whatever other users do meanwhile.
OneTabLosesNothing ==
    \A u \in Users : OneAtATime(u) /\ Idle(u) => HasWhatWasAdded(u)

\* The same of users with several tabs.
CartHoldsWhatWasAdded ==
    \A u \in Users : Idle(u) => HasWhatWasAdded(u)
=============================================================================
