---------------------------- MODULE CartService ----------------------------
(***************************************************************************)
(* The cart service: one cart per user, kept whole, as JSON, in a Redis    *)
(* hash.  Adding an item reads the cart, changes the copy and writes it    *)
(* back; the calls of one user are not serialised.                         *)
(*                                                                         *)
(* The process serves no call before its Redis connection is open, so the  *)
(* connection is not part of the state.  A dish is priced by its           *)
(* restaurant: the price of a line is named by the restaurant asking it.   *)
(***************************************************************************)
EXTENDS Integers, Sequences

CONSTANTS
    Users,
    Restaurants,
    Items,          \* product IDs; two restaurants may offer the same one
    Requests,       \* the HTTP requests served
    MaxQuantity,    \* bound on the quantity of one addition
    Null,           \* C#'s null: the cart is assigned to no restaurant
    NoCart          \* Redis has no cart for the user

ASSUME CartAssumption ==
    /\ Null \notin Restaurants
    /\ MaxQuantity \in Nat \ {0}

VARIABLES
    carts,  \* carts[u]: what Redis has for u
    held    \* held[q]: the copy of a cart the handler of request q works on

cartVars == <<carts, held>>

MenuItem == [itemID : Items, quantity : Nat, price : Restaurants]
Cart == [restaurantID : Restaurants \cup {Null}, menuItems : Seq(MenuItem)]
EmptyCart == [restaurantID |-> Null, menuItems |-> <<>>]

ASSUME NoCartAssumption == NoCart \notin Cart

CartTypeOK ==
    /\ carts \in [Users -> Cart \cup {NoCart}]
    /\ held \in [Requests -> Cart \cup {NoCart}]

CartInit ==
    /\ carts = [u \in Users |-> NoCart]
    /\ held = [q \in Requests |-> NoCart]

-----------------------------------------------------------------------------
HasLine(lines, itemID) == \E k \in DOMAIN lines : lines[k].itemID = itemID

\* The line the loop of AddMenuItem stops at.
FirstLine(lines, itemID) ==
    CHOOSE k \in DOMAIN lines :
        /\ lines[k].itemID = itemID
        /\ \A j \in 1 .. k - 1 : lines[j].itemID # itemID

\* Mutant: the loop is left with a break, so that the item is added as well.
AddMenuItemTwice(lines, item) ==
    IF HasLine(lines, item.itemID)
    THEN Append([lines EXCEPT ![FirstLine(lines, item.itemID)].quantity = @ + item.quantity],
                item)
    ELSE Append(lines, item)

\* Mutant: an item that is in the cart already is left as it is.
AddMenuItemOnce(lines, item) ==
    IF HasLine(lines, item.itemID) THEN lines ELSE Append(lines, item)

\* An item in the cart has its quantity increased, and keeps its price.
AddMenuItem(lines, item) ==
    IF HasLine(lines, item.itemID)
    THEN [lines EXCEPT ![FirstLine(lines, item.itemID)].quantity = @ + item.quantity]
    ELSE Append(lines, item)

\* Mutant: the cart is assigned the new restaurant and keeps its lines.
WithItemUnreset(value, restaurantID, item) ==
    [restaurantID |-> restaurantID,
     menuItems |-> AddMenuItem(IF value = NoCart THEN <<>> ELSE value.menuItems, item)]

\* What is written back for the value read: no cart, or the cart of another restaurant,
\* starts a new one.
WithItem(value, restaurantID, item) ==
    [restaurantID |-> restaurantID,
     menuItems |-> AddMenuItem(IF value # NoCart /\ value.restaurantID = restaurantID
                               THEN value.menuItems ELSE <<>>, item)]

-----------------------------------------------------------------------------
(* The steps of the calls, each one command to Redis.                       *)

\* AddItemAsync up to its first await.
AddItemRead(q, u) ==
    /\ held' = [held EXCEPT ![q] = carts[u]]
    /\ UNCHANGED carts

\* The rest of AddItemAsync.
AddItemWrite(q, u, restaurantID, itemID, quantity) ==
    /\ carts' = [carts EXCEPT ![u] =
                   WithItem(held[q], restaurantID,
                            [itemID |-> itemID, quantity |-> quantity, price |-> restaurantID])]
    /\ UNCHANGED held

EmptyCartAsync(u) ==
    /\ carts' = [carts EXCEPT ![u] = EmptyCart]
    /\ UNCHANGED held

\* Mutant: a user without a cart is answered null.
GetCartUnchecked(q, u) ==
    /\ held' = [held EXCEPT ![q] = carts[u]]
    /\ UNCHANGED carts

\* A user without a cart is answered an empty one.
GetCartAsync(q, u) ==
    /\ held' = [held EXCEPT ![q] = IF carts[u] = NoCart THEN EmptyCart ELSE carts[u]]
    /\ UNCHANGED carts
=============================================================================
