-------------------------- MODULE StorefrontProofs --------------------------
(***************************************************************************)
(* Theorems about Storefront: types; that carts are well formed, hold each *)
(* addition once at most, and mails follow approvals, however requests     *)
(* overlap and calls fail; and that who shops with one tab loses nothing   *)
(* and buys nothing twice.                                                 *)
(***************************************************************************)
EXTENDS Storefront, FiniteSetTheorems, WellFoundedInduction, TLAPS

-----------------------------------------------------------------------------
(* Sums.  SumFunctionOnSet takes the elements of a set out one by one, in an *)
(* order of its own; that any order gives the same sum, and what a sum over  *)
(* more or over other elements is, follows by taking a least set for which   *)
(* it does not hold.                                                         *)

\* Of the subsets of a finite set that are in T, one has no other inside.
LEMMA LeastSubset ==
    ASSUME NEW S, IsFiniteSet(S), NEW T, T \subseteq SUBSET S, T # {}
    PROVE  \E x \in T : \A y \in T : y \subseteq x => y = x
<1>1. IsWellFoundedOn(StrictSubsetOrdering(S), FiniteSubsetsOf(S))
  BY FS_StrictSubsetOrderingWellFounded
<1>2. T \subseteq FiniteSubsetsOf(S) BY FS_Subset DEF FiniteSubsetsOf
<1>3. PICK x \in T : \A y \in T : ~(<<y, x>> \in StrictSubsetOrdering(S))
  BY <1>1, <1>2, WFMin
<1> QED BY <1>3 DEF StrictSubsetOrdering

\* g gives each subset of S the sum of f over it.
Chosen(s) == CHOOSE x \in s : TRUE
Summand(f, g, s) == IF s = {} THEN 0 ELSE f[Chosen(s)] + g[s \ {Chosen(s)}]
Sums(f, S, g) == g = [s \in SUBSET S |-> Summand(f, g, s)]

\* SumFunctionOnSet is the function that sums all the subsets, if there is one.
LEMMA SumUnfolds ==
    ASSUME NEW f, NEW S
    PROVE  SumFunctionOnSet(f, S) = (CHOOSE g : Sums(f, S, g))[S]
BY DEF SumFunctionOnSet, FoldFunctionOnSet, MapThenFoldSet, Sums, Summand, Chosen

LEMMA SumsStep ==
    ASSUME NEW f, NEW S, NEW g, Sums(f, S, g), NEW s \in SUBSET S
    PROVE  g[s] = Summand(f, g, s)
BY DEF Sums

LEMMA ChosenIn == \A s : s # {} => Chosen(s) \in s
BY DEF Chosen

\* There is one such function at most ...
LEMMA SumsAgree ==
    ASSUME NEW f, NEW S, IsFiniteSet(S), NEW T \in SUBSET S,
           NEW g, Sums(f, S, g), NEW h, Sums(f, T, h), NEW s \in SUBSET T
    PROVE  g[s] = h[s]
<1> DEFINE Apart == {t \in SUBSET T : g[t] # h[t]}
<1> SUFFICES ASSUME Apart # {} PROVE FALSE OBVIOUS
<1>1. PICK t \in Apart : \A y \in Apart : y \subseteq t => y = t
  <2>1. Apart \subseteq SUBSET S OBVIOUS
  <2> HIDE DEF Apart
  <2> QED BY <2>1, LeastSubset
<1>2. t \in SUBSET T /\ t \in SUBSET S /\ g[t] # h[t] OBVIOUS
<1>3. g[t] = Summand(f, g, t) /\ h[t] = Summand(f, h, t) BY <1>2, SumsStep
<1>4. CASE t = {} BY <1>2, <1>3, <1>4 DEF Summand
<1>5. CASE t # {}
  <2> DEFINE r == t \ {Chosen(t)}
  <2>1. r \in SUBSET T /\ r # t /\ r \subseteq t BY <1>2, <1>5, ChosenIn
  <2>2. g[r] = h[r] BY <1>1, <2>1
  <2> QED BY <1>2, <1>3, <1>5, <2>2 DEF Summand
<1> QED BY <1>4, <1>5

\* ... and at least.
LEMMA SumsExist ==
    ASSUME NEW f, NEW S, IsFiniteSet(S)
    PROVE  \E g : Sums(f, S, g)
<1> DEFINE Without == {T \in SUBSET S : ~ \E g : Sums(f, T, g)}
<1> SUFFICES ASSUME Without # {} PROVE FALSE OBVIOUS
<1>1. PICK T \in Without : \A y \in Without : y \subseteq T => y = T
  <2>1. Without \subseteq SUBSET S OBVIOUS
  <2> HIDE DEF Without
  <2> QED BY <2>1, LeastSubset
<1>2. T \in SUBSET S /\ ~ \E g : Sums(f, T, g) OBVIOUS
<1> DEFINE A(s) == CHOOSE g : Sums(f, s, g)
           G == [s \in SUBSET T |-> IF s = {} THEN 0
                   ELSE f[Chosen(s)] + A(s \ {Chosen(s)})[s \ {Chosen(s)}]]
<1>3. ASSUME NEW s \in SUBSET T, s # T PROVE Sums(f, s, A(s))
  <2>1. s \notin Without BY <1>1, <1>3
  <2>2. \E g : Sums(f, s, g) BY <1>2, <2>1
  <2> HIDE DEF Without
  <2> QED BY <2>2
<1> HIDE DEF A, Without
<1>4. ASSUME NEW w \in SUBSET T, w # T PROVE G[w] = A(w)[w]
  <2>1. Sums(f, w, A(w)) BY <1>3, <1>4
  <2>2. A(w)[w] = Summand(f, A(w), w) BY <2>1, SumsStep
  <2>3. CASE w = {} BY <2>2, <2>3 DEF Summand
  <2>4. CASE w # {}
    <3>1. PICK v : v = w \ {Chosen(w)} OBVIOUS
    <3>2. v \in SUBSET w /\ v \in SUBSET T /\ v # T BY <2>4, <3>1, ChosenIn
    <3>3. Sums(f, v, A(v)) BY <1>3, <3>2
    <3>4. IsFiniteSet(w) BY <1>2, FS_Subset
    <3>5. A(w)[v] = A(v)[v] BY <2>1, <3>2, <3>3, <3>4, SumsAgree
    <3>6. A(w)[w] = f[Chosen(w)] + A(w)[v] BY <2>2, <2>4, <3>1 DEF Summand
    <3>7. G[w] = f[Chosen(w)] + A(v)[v] BY <2>4, <3>1
    <3> QED BY <3>5, <3>6, <3>7
  <2> QED BY <2>3, <2>4
<1>5. ASSUME NEW s \in SUBSET T PROVE G[s] = Summand(f, G, s)
  <2>1. CASE s = {} BY <2>1 DEF Summand
  <2>2. CASE s # {}
    <3>1. PICK w : w = s \ {Chosen(s)} OBVIOUS
    <3>2. w \in SUBSET T /\ w # T BY <2>2, <3>1, ChosenIn
    <3>3. G[w] = A(w)[w] BY <1>4, <3>2
    <3>4. G[s] = f[Chosen(s)] + A(w)[w] BY <2>2, <3>1
    <3> HIDE DEF G
    <3> QED BY <2>2, <3>1, <3>3, <3>4 DEF Summand
  <2> QED BY <2>1, <2>2
<1>6. Sums(f, T, G)
  <2>1. DOMAIN G = SUBSET T /\ G = [s \in SUBSET T |-> G[s]] OBVIOUS
  <2> HIDE DEF G
  <2> QED BY <1>5, <2>1 DEF Sums
<1> QED BY <1>2, <1>6

\* The recursive equation.
LEMMA SumStep ==
    ASSUME NEW f, NEW S, IsFiniteSet(S)
    PROVE  SumFunctionOnSet(f, S) =
             IF S = {} THEN 0
             ELSE f[Chosen(S)] + SumFunctionOnSet(f, S \ {Chosen(S)})
<1>1. PICK F : F = (CHOOSE g : Sums(f, S, g)) OBVIOUS
<1>2. Sums(f, S, F) BY <1>1, SumsExist
<1>3. SumFunctionOnSet(f, S) = F[S] BY <1>1, SumUnfolds
<1>4. F[S] = Summand(f, F, S) BY <1>2, SumsStep
<1>5. PICK R : R = S \ {Chosen(S)} OBVIOUS
<1>6. PICK H : H = (CHOOSE g : Sums(f, R, g)) OBVIOUS
<1>7. R \in SUBSET S /\ IsFiniteSet(R) BY <1>5, FS_Subset
<1>8. Sums(f, R, H) BY <1>6, <1>7, SumsExist
<1>9. SumFunctionOnSet(f, R) = H[R] BY <1>6, SumUnfolds
<1>10. F[R] = H[R] BY <1>2, <1>7, <1>8, SumsAgree
<1> QED BY <1>3, <1>4, <1>5, <1>9, <1>10 DEF Summand

LEMMA SumOfNone == ASSUME NEW f PROVE SumFunctionOnSet(f, {}) = 0
BY SumStep, FS_EmptySet

LEMMA SumType ==
    ASSUME NEW f, NEW S, IsFiniteSet(S), \A x \in S : f[x] \in Nat
    PROVE  SumFunctionOnSet(f, S) \in Nat
<1> DEFINE Bad == {T \in SUBSET S : SumFunctionOnSet(f, T) \notin Nat}
<1> SUFFICES ASSUME Bad # {} PROVE FALSE OBVIOUS
<1>1. PICK T \in Bad : \A y \in Bad : y \subseteq T => y = T
  <2>1. Bad \subseteq SUBSET S OBVIOUS
  <2> HIDE DEF Bad
  <2> QED BY <2>1, LeastSubset
<1>2. IsFiniteSet(T) BY FS_Subset
<1>3. CASE T = {} BY <1>3, SumOfNone
<1>4. CASE T # {}
  <2>1. PICK R : R = T \ {Chosen(T)} OBVIOUS
  <2>2. R \in SUBSET S /\ R # T /\ R \subseteq T /\ Chosen(T) \in S
    BY <1>4, <2>1, ChosenIn
  <2>3. SumFunctionOnSet(f, R) \in Nat BY <1>1, <2>2
  <2>4. SumFunctionOnSet(f, T) = f[Chosen(T)] + SumFunctionOnSet(f, R)
    BY <1>2, <1>4, <2>1, SumStep
  <2>5. SumFunctionOnSet(f, T) \in Nat BY <2>2, <2>3, <2>4
  <2> QED BY <2>5
<1> QED BY <1>3, <1>4

\* Any element may be taken out first.
LEMMA SumWithout ==
    ASSUME NEW f, NEW S, IsFiniteSet(S), \A x \in S : f[x] \in Nat, NEW a \in S
    PROVE  SumFunctionOnSet(f, S) = f[a] + SumFunctionOnSet(f, S \ {a})
<1> DEFINE Bad == {T \in SUBSET S :
                     \E b \in T : SumFunctionOnSet(f, T) # f[b] + SumFunctionOnSet(f, T \ {b})}
<1> SUFFICES ASSUME Bad # {} PROVE FALSE OBVIOUS
<1>1. PICK T \in Bad : \A y \in Bad : y \subseteq T => y = T
  <2>1. Bad \subseteq SUBSET S OBVIOUS
  <2> HIDE DEF Bad
  <2> QED BY <2>1, LeastSubset
<1>2. PICK b \in T : SumFunctionOnSet(f, T) # f[b] + SumFunctionOnSet(f, T \ {b}) OBVIOUS
<1>3. IsFiniteSet(T) /\ T \in SUBSET S BY FS_Subset
<1>4. PICK c : c = Chosen(T) OBVIOUS
<1>5. c \in T BY <1>4, ChosenIn
<1>6. SumFunctionOnSet(f, T) = f[c] + SumFunctionOnSet(f, T \ {c})
  BY <1>3, <1>4, SumStep
<1>7. b # c BY <1>2, <1>6
<1>8. \A R \in SUBSET T : R # T => R \notin Bad BY <1>1
<1>9. ASSUME NEW R \in SUBSET T, R # T, NEW d \in R
      PROVE  SumFunctionOnSet(f, R) = f[d] + SumFunctionOnSet(f, R \ {d})
  <2>1. R \in SUBSET S /\ R \notin Bad BY <1>3, <1>8, <1>9
  <2> QED BY <2>1
<1> HIDE DEF Bad
<1>10. SumFunctionOnSet(f, T \ {c}) = f[b] + SumFunctionOnSet(f, (T \ {c}) \ {b})
  BY <1>5, <1>7, <1>9
<1>11. SumFunctionOnSet(f, T \ {b}) = f[c] + SumFunctionOnSet(f, (T \ {b}) \ {c})
  BY <1>5, <1>7, <1>9
<1>12. (T \ {c}) \ {b} = (T \ {b}) \ {c} OBVIOUS
<1>13. SumFunctionOnSet(f, (T \ {b}) \ {c}) \in Nat /\ f[b] \in Nat /\ f[c] \in Nat
  <2>1. (T \ {b}) \ {c} \in SUBSET T OBVIOUS
  <2>2. IsFiniteSet((T \ {b}) \ {c}) BY <1>3, <2>1, FS_Subset
  <2> QED BY <1>3, <1>5, <2>2, SumType
<1>14. SumFunctionOnSet(f, T) = f[b] + SumFunctionOnSet(f, T \ {b})
  <2>1. PICK n \in Nat, x \in Nat, y \in Nat :
          n = SumFunctionOnSet(f, (T \ {b}) \ {c}) /\ x = f[b] /\ y = f[c]
    BY <1>13
  <2>2. SumFunctionOnSet(f, T \ {c}) = x + n BY <1>10, <1>12, <2>1
  <2>3. SumFunctionOnSet(f, T \ {b}) = y + n BY <1>11, <2>1
  <2>4. SumFunctionOnSet(f, T) = y + (x + n) BY <1>6, <2>1, <2>2
  <2> QED BY <2>1, <2>3, <2>4
<1> QED BY <1>2, <1>14

\* Functions that agree on a set have the same sum.
LEMMA SumAgrees ==
    ASSUME NEW f, NEW g, NEW S, IsFiniteSet(S), \A x \in S : f[x] = g[x]
    PROVE  SumFunctionOnSet(f, S) = SumFunctionOnSet(g, S)
<1> DEFINE Bad == {T \in SUBSET S : SumFunctionOnSet(f, T) # SumFunctionOnSet(g, T)}
<1> SUFFICES ASSUME Bad # {} PROVE FALSE OBVIOUS
<1>1. PICK T \in Bad : \A y \in Bad : y \subseteq T => y = T
  <2>1. Bad \subseteq SUBSET S OBVIOUS
  <2> HIDE DEF Bad
  <2> QED BY <2>1, LeastSubset
<1>2. IsFiniteSet(T) BY FS_Subset
<1>3. CASE T = {} BY <1>3, SumOfNone
<1>4. CASE T # {}
  <2>1. PICK R : R = T \ {Chosen(T)} OBVIOUS
  <2>2. R \in SUBSET S /\ R # T /\ R \subseteq T /\ Chosen(T) \in S
    BY <1>4, <2>1, ChosenIn
  <2>3. SumFunctionOnSet(f, R) = SumFunctionOnSet(g, R) BY <1>1, <2>2
  <2>4. /\ SumFunctionOnSet(f, T) = f[Chosen(T)] + SumFunctionOnSet(f, R)
        /\ SumFunctionOnSet(g, T) = g[Chosen(T)] + SumFunctionOnSet(g, R)
    BY <1>2, <1>4, <2>1, SumStep
  <2>5. SumFunctionOnSet(f, T) = SumFunctionOnSet(g, T) BY <2>2, <2>3, <2>4
  <2> QED BY <2>5
<1> QED BY <1>3, <1>4

\* What is summed over a part is no more than what is summed over the whole.
LEMMA SumOfPart ==
    ASSUME NEW f, NEW S, IsFiniteSet(S), \A x \in S : f[x] \in Nat, NEW P \in SUBSET S
    PROVE  SumFunctionOnSet(f, P) <= SumFunctionOnSet(f, S)
<1> DEFINE Bad == {T \in SUBSET S : P \subseteq T /\
                      ~(SumFunctionOnSet(f, P) <= SumFunctionOnSet(f, T))}
<1> SUFFICES ASSUME Bad # {} PROVE FALSE OBVIOUS
<1>1. PICK T \in Bad : \A y \in Bad : y \subseteq T => y = T
  <2>1. Bad \subseteq SUBSET S OBVIOUS
  <2> HIDE DEF Bad
  <2> QED BY <2>1, LeastSubset
<1>2. IsFiniteSet(T) /\ IsFiniteSet(P) BY FS_Subset
<1>3. SumFunctionOnSet(f, P) \in Nat BY <1>2, SumType
<1>4. CASE T = P BY <1>3, <1>4
<1>5. CASE T # P
  <2>1. PICK a : a \in T /\ a \notin P BY <1>5
  <2>2. PICK R : R = T \ {a} OBVIOUS
  <2>3. R \in SUBSET S /\ R # T /\ R \subseteq T /\ P \subseteq R /\ a \in S
    BY <2>1, <2>2
  <2>4. SumFunctionOnSet(f, P) <= SumFunctionOnSet(f, R) BY <1>1, <2>3
  <2>5. SumFunctionOnSet(f, T) = f[a] + SumFunctionOnSet(f, R)
    BY <1>2, <2>1, <2>2, SumWithout
  <2>6. SumFunctionOnSet(f, R) \in Nat /\ f[a] \in Nat
    BY <2>3, FS_Subset, SumType
  <2>7. SumFunctionOnSet(f, P) <= SumFunctionOnSet(f, T) BY <1>3, <2>4, <2>5, <2>6
  <2> QED BY <2>7
<1> QED BY <1>4, <1>5

-----------------------------------------------------------------------------
(* What AddMenuItem does to the lines of a cart.                            *)

\* Increasing the quantity of a line leaves its product and price alone.
LEMMA IncreaseKeepsLines ==
    ASSUME NEW lines \in Seq(MenuItem), NEW item \in MenuItem, HasLine(lines, item.itemID)
    PROVE  /\ AddMenuItem(lines, item) \in Seq(MenuItem)
           /\ DOMAIN AddMenuItem(lines, item) = DOMAIN lines
           /\ \A k \in DOMAIN lines :
                /\ AddMenuItem(lines, item)[k].itemID = lines[k].itemID
                /\ AddMenuItem(lines, item)[k].price = lines[k].price
<1> DEFINE x == FirstLine(lines, item.itemID)
           n == item.quantity
           more == AddMenuItem(lines, item)
<1>a. n \in Nat BY DEF MenuItem
<1>b. more = [lines EXCEPT ![x].quantity = @ + n] BY DEF AddMenuItem
<1> HIDE DEF x, n, more
<1>1. DOMAIN more = DOMAIN lines BY <1>b
<1>2. ASSUME NEW k \in DOMAIN lines
      PROVE  /\ more[k] \in MenuItem
             /\ more[k].itemID = lines[k].itemID
             /\ more[k].price = lines[k].price
  <2>1. lines[k] \in MenuItem OBVIOUS
  <2>2. more[k] = IF k = x THEN [lines[k] EXCEPT !.quantity = @ + n] ELSE lines[k]
    BY <1>b
  <2> QED BY <1>a, <2>1, <2>2 DEF MenuItem
<1>3. more \in Seq(MenuItem)
  <2>1. PICK m \in Nat : lines \in [1 .. m -> MenuItem] OBVIOUS
  <2>2. more \in [1 .. m -> MenuItem]
    <3>1. more = [k \in DOMAIN lines |-> more[k]] BY <1>b
    <3> QED BY <1>1, <1>2, <2>1, <3>1
  <2> QED BY <2>2
<1> QED BY <1>1, <1>2, <1>3 DEF more

\* Adding an item priced by the restaurant of the lines keeps them one restaurant's and
\* their products apart.
LEMMA AddMenuItemWellFormed ==
    ASSUME NEW lines \in Seq(MenuItem), NEW item \in MenuItem, NEW r,
           WellFormed([restaurantID |-> r, menuItems |-> lines]), item.price = r
    PROVE  /\ AddMenuItem(lines, item) \in Seq(MenuItem)
           /\ WellFormed([restaurantID |-> r, menuItems |-> AddMenuItem(lines, item)])
<1>1. CASE HasLine(lines, item.itemID)
  <2> DEFINE more == AddMenuItem(lines, item)
  <2>1. /\ more \in Seq(MenuItem)
        /\ DOMAIN more = DOMAIN lines
        /\ \A k \in DOMAIN lines : /\ more[k].itemID = lines[k].itemID
                                   /\ more[k].price = lines[k].price
    BY <1>1, IncreaseKeepsLines
  <2> HIDE DEF more
  <2>2. WellFormed([restaurantID |-> r, menuItems |-> more])
    BY <2>1 DEF WellFormed
  <2> QED BY <2>1, <2>2 DEF more
<1>2. CASE ~HasLine(lines, item.itemID)
  <2>1. AddMenuItem(lines, item) = Append(lines, item) BY <1>2 DEF AddMenuItem
  <2>2. \A k \in DOMAIN lines : lines[k].itemID # item.itemID BY <1>2 DEF HasLine
  <2>3. DOMAIN Append(lines, item) = DOMAIN lines \cup {Len(lines) + 1} OBVIOUS
  <2>4. /\ \A k \in DOMAIN lines : Append(lines, item)[k] = lines[k]
        /\ Append(lines, item)[Len(lines) + 1] = item
    OBVIOUS
  <2> QED BY <2>1, <2>2, <2>3, <2>4 DEF WellFormed
<1> QED BY <1>1, <1>2

\* What AddItem writes back for the value it read.
LEMMA WithItemWellFormed ==
    ASSUME NEW value \in Cart \cup {NoCart}, value # NoCart => WellFormed(value),
           NEW r \in Restaurants, NEW item \in MenuItem, item.price = r
    PROVE  WithItem(value, r, item) \in Cart /\ WellFormed(WithItem(value, r, item))
<1> DEFINE lines == IF value # NoCart /\ value.restaurantID = r THEN value.menuItems ELSE <<>>
<1>1. lines \in Seq(MenuItem) BY DEF Cart
<1>2. WellFormed([restaurantID |-> r, menuItems |-> lines])
  BY DEF WellFormed
<1>3. WithItem(value, r, item)
        = [restaurantID |-> r, menuItems |-> AddMenuItem(lines, item)]
  BY DEF WithItem
<1> HIDE DEF lines
<1> QED BY <1>1, <1>2, <1>3, AddMenuItemWellFormed DEF Cart

LEMMA EmptyCartWellFormed == EmptyCart \in Cart /\ WellFormed(EmptyCart) /\ EmptyCart # NoCart
<1>1. EmptyCart \in Cart BY DEF EmptyCart, Cart
<1>2. WellFormed(EmptyCart) BY DEF EmptyCart, WellFormed
<1> QED BY <1>1, <1>2, NoCartAssumption

-----------------------------------------------------------------------------
(* The theorems.                                                            *)

\* What the invariant says of the carts Redis has and the copies of them.
CartsOK ==
    /\ CartTypeOK
    /\ \A u \in Users : carts[u] # NoCart => WellFormed(carts[u])
    /\ \A q \in Requests : held[q] # NoCart => WellFormed(held[q])

\* What it says of the rest.
OrdersOK == orders \subseteq Order /\ \A o \in orders : WellFormed(o.cart)
PagesOK == /\ pc \in [Requests -> {"idle"} \cup Running \cup Ended]
           /\ args \in [Requests -> Additions \cup Plain \cup {NoArgs}]
           /\ HandlersReady
CountsOK == mails \subseteq Requests /\ failures \in 0 .. MaxFailures

\* The inductive invariant: types, and carts that are well formed.
Inv == CartsOK /\ OrdersOK /\ PagesOK /\ CountsOK

LEMMA InvSplits == Inv <=> TypeOK /\ CartsAreWellFormed
BY DEF Inv, CartsOK, OrdersOK, PagesOK, CountsOK, TypeOK, CartsAreWellFormed

\* The write of AddItem, of whatever copy it read.
LEMMA WriteKeepsCarts ==
    ASSUME Inv, NEW q \in Requests, pc[q] = "copied",
           AddItemWrite(q, args[q].user, args[q].restaurantID, args[q].itemID,
                        args[q].quantity)
    PROVE  CartsOK'
<1> DEFINE a == args[q]
           item == [itemID |-> a.itemID, quantity |-> a.quantity, price |-> a.restaurantID]
           new == WithItem(held[q], a.restaurantID, item)
<1>1. a \in Additions BY DEF Inv, PagesOK, HandlersReady
<1>2. a.user \in Users /\ a.restaurantID \in Restaurants /\ item \in MenuItem
  <2>1. a.quantity \in Nat BY <1>1, CartAssumption DEF Additions
  <2> QED BY <1>1, <2>1 DEF Additions, MenuItem
<1>3. held[q] \in Cart \cup {NoCart} /\ (held[q] # NoCart => WellFormed(held[q]))
  BY DEF Inv, CartsOK, CartTypeOK
<1>4. item.price = a.restaurantID OBVIOUS
<1>5. carts' = [carts EXCEPT ![a.user] = new] /\ held' = held BY DEF AddItemWrite
<1> HIDE DEF a, item
<1>6. new \in Cart /\ WellFormed(new) BY <1>2, <1>3, <1>4, WithItemWellFormed
<1> HIDE DEF new
<1> QED BY <1>5, <1>6 DEF Inv, CartsOK, CartTypeOK

LEMMA EmptyKeepsCarts ==
    ASSUME Inv, NEW u, EmptyCartAsync(u)
    PROVE  CartsOK'
BY EmptyCartWellFormed DEF Inv, CartsOK, CartTypeOK, EmptyCartAsync

\* A handler goes on: what the steps after this one rely on is there.
LEMMA PageGoesOn ==
    ASSUME Inv, NEW q \in Requests, NEW to \in Running \cup Ended,
           pc' = [pc EXCEPT ![q] = to], args' = args,
           to \in {"adding", "copied"} => args[q] \in Additions,
           to \in Running \ {"adding", "copied"} => args[q] \in Plain,
           to \in {"fetched", "paying"} => held'[q] # NoCart,
           \A p \in Requests \ {q} : held'[p] = held[p]
    PROVE  PagesOK'
<1>1. pc' \in [Requests -> {"idle"} \cup Running \cup Ended] BY DEF Inv, PagesOK
<1>2. ASSUME NEW p \in Requests
      PROVE  /\ pc'[p] \in {"adding", "copied"} => args'[p] \in Additions
             /\ pc'[p] \in Running \ {"adding", "copied"} => args'[p] \in Plain
             /\ pc'[p] \in {"fetched", "paying"} => held'[p] # NoCart
  <2>1. CASE p = q BY <2>1 DEF Inv, PagesOK
  <2>2. CASE p # q
    <3>1. pc'[p] = pc[p] /\ held'[p] = held[p] BY <2>2 DEF Inv, PagesOK
    <3> QED BY <3>1 DEF Inv, PagesOK, HandlersReady
  <2> QED BY <2>1, <2>2
<1> QED BY <1>1, <1>2 DEF Inv, PagesOK, HandlersReady

\* A request arrives.
LEMMA ArrivalKeepsPages ==
    ASSUME Inv, NEW q \in Requests, NEW a, NEW first, Arrive(q, a, first),
           \/ first = "adding" /\ a \in Additions
           \/ first \in {"emptying", "fetching"} /\ a \in Plain
    PROVE  PagesOK'
<1>1. pc' = [pc EXCEPT ![q] = first] /\ args' = [args EXCEPT ![q] = a] /\ held' = held
  BY DEF Arrive, Goto, cartVars
<1>2. /\ pc' \in [Requests -> {"idle"} \cup Running \cup Ended]
      /\ args' \in [Requests -> Additions \cup Plain \cup {NoArgs}]
  BY <1>1 DEF Inv, PagesOK, Running
<1>3. ASSUME NEW p \in Requests
      PROVE  /\ pc'[p] \in {"adding", "copied"} => args'[p] \in Additions
             /\ pc'[p] \in Running \ {"adding", "copied"} => args'[p] \in Plain
             /\ pc'[p] \in {"fetched", "paying"} => held'[p] # NoCart
  <2>1. CASE p = q BY <1>1, <2>1 DEF Inv, PagesOK
  <2>2. CASE p # q BY <1>1, <2>2 DEF Inv, PagesOK, HandlersReady
  <2> QED BY <2>1, <2>2
<1> QED BY <1>2, <1>3 DEF PagesOK, HandlersReady

LEMMA InitInv == Init => Inv
<1> SUFFICES ASSUME Init PROVE Inv OBVIOUS
<1>1. CartsOK BY DEF Init, CartInit, CartsOK, CartTypeOK
<1>2. OrdersOK BY DEF Init, OrdersOK
<1>3. PagesOK BY DEF Init, PagesOK, HandlersReady, Running
<1>4. CountsOK BY StorefrontAssumption DEF Init, CountsOK
<1> QED BY <1>1, <1>2, <1>3, <1>4 DEF Inv

\* A step that fails at most one call keeps the count.
LEMMA FailureCounted ==
    ASSUME Inv, CallFails \/ UNCHANGED failures
    PROVE  failures' \in 0 .. MaxFailures
BY StorefrontAssumption DEF Inv, CountsOK, CallFails

\* Each step of the system keeps each part of the invariant.
LEMMA NextInv == Inv /\ [Next]_vars => Inv'
<1> SUFFICES ASSUME Inv, [Next]_vars PROVE Inv' OBVIOUS
<1>1. CASE UNCHANGED vars
  <2>1. UNCHANGED <<carts, held, pc, args, orders, mails, failures>>
    BY <1>1 DEF vars, cartVars
  <2> QED BY <2>1 DEF Inv, CartsOK, CartTypeOK, OrdersOK, PagesOK, HandlersReady, CountsOK
<1>2. ASSUME NEW q \in Requests, AddToCart(q) \/ EmptyCartRequest(q) \/ CheckoutPage(q)
      PROVE  Inv'
  <2>1. PICK a, first : /\ Arrive(q, a, first)
                        /\ \/ first = "adding" /\ a \in Additions
                           \/ first \in {"emptying", "fetching"} /\ a \in Plain
    <3>1. CASE AddToCart(q) BY <3>1 DEF AddToCart
    <3>2. CASE EmptyCartRequest(q) \/ CheckoutPage(q)
      <4>1. PICK u \in Users :
              \/ Arrive(q, [op |-> "emptyCart", user |-> u], "emptying")
              \/ Arrive(q, [op |-> "checkoutPage", user |-> u], "fetching")
        BY <3>2 DEF EmptyCartRequest, CheckoutPage
      <4>2. /\ [op |-> "emptyCart", user |-> u] \in Plain
            /\ [op |-> "checkoutPage", user |-> u] \in Plain
        BY DEF Plain
      <4> QED BY <4>1, <4>2
    <3> QED BY <1>2, <3>1, <3>2
  <2>2. PagesOK' BY <2>1, ArrivalKeepsPages
  <2>3. UNCHANGED <<carts, held, orders, mails, failures>> BY <2>1 DEF Arrive, cartVars
  <2> QED BY <2>2, <2>3 DEF Inv, CartsOK, CartTypeOK, OrdersOK, CountsOK
<1>3. ASSUME NEW q \in Requests, ReadForItem(q)
      PROVE  Inv'
  <2>1. CartsOK'
    <3>1. User(q) \in Users
      BY <1>3 DEF ReadForItem, Goto, User, Inv, PagesOK, HandlersReady, Additions
    <3> QED BY <1>3, <3>1 DEF ReadForItem, AddItemRead, Inv, CartsOK, CartTypeOK
  <2>2. UNCHANGED <<args, orders, mails, failures>> BY <1>3 DEF ReadForItem, handlerVars
  <2>3. PagesOK'
    <3>1. args[q] \in Additions
      BY <1>3 DEF ReadForItem, Goto, Inv, PagesOK, HandlersReady
    <3>2. \A p \in Requests \ {q} : held'[p] = held[p]
      BY <1>3 DEF ReadForItem, AddItemRead, Inv, CartsOK, CartTypeOK
    <3> QED BY <1>3, <2>2, <3>1, <3>2, PageGoesOn DEF ReadForItem, Goto, Running
  <2> QED BY <2>1, <2>2, <2>3 DEF Inv, OrdersOK, CountsOK
<1>4. ASSUME NEW q \in Requests, WriteItem(q)
      PROVE  Inv'
  <2>1. CartsOK' BY <1>4, WriteKeepsCarts DEF WriteItem, Goto
  <2>2. UNCHANGED <<held, args, orders, mails, failures>>
    BY <1>4 DEF WriteItem, AddItemWrite, handlerVars
  <2>3. PagesOK' BY <1>4, <2>2, PageGoesOn DEF WriteItem, Goto, Running, Ended
  <2> QED BY <2>1, <2>2, <2>3 DEF Inv, OrdersOK, CountsOK
<1>5. ASSUME NEW q \in Requests, CartCallFails(q)
      PROVE  Inv'
  <2>1. CartsOK'
    <3>1. CASE UNCHANGED cartVars BY <3>1 DEF cartVars, Inv, CartsOK, CartTypeOK
    <3>2. CASE pc[q] = "copied" /\ AddItemWrite(q, args[q].user, args[q].restaurantID,
                                                args[q].itemID, args[q].quantity)
      BY <3>2, WriteKeepsCarts
    <3>3. CASE EmptyCartAsync(User(q)) BY <3>3, EmptyKeepsCarts
    <3> QED BY <1>5, <3>1, <3>2, <3>3 DEF CartCallFails
  <2>2. UNCHANGED <<held, args, orders, mails>>
    BY <1>5 DEF CartCallFails, AddItemWrite, EmptyCartAsync, handlerVars, cartVars
  <2>3. PagesOK' BY <1>5, <2>2, PageGoesOn DEF CartCallFails, Running, Ended
  <2>4. failures' \in 0 .. MaxFailures BY <1>5, FailureCounted DEF CartCallFails
  <2> QED BY <2>1, <2>2, <2>3, <2>4 DEF Inv, OrdersOK, CountsOK
<1>6. ASSUME NEW q \in Requests, ClearCart(q)
      PROVE  Inv'
  <2>1. CartsOK' BY <1>6, EmptyKeepsCarts DEF ClearCart
  <2>2. UNCHANGED <<held, args, orders, mails, failures>>
    BY <1>6 DEF ClearCart, EmptyCartAsync, handlerVars
  <2>3. PagesOK' BY <1>6, <2>2, PageGoesOn DEF ClearCart, Goto, Running, Ended
  <2> QED BY <2>1, <2>2, <2>3 DEF Inv, OrdersOK, CountsOK
<1>7. ASSUME NEW q \in Requests, GetOrder(q)
      PROVE  Inv'
  <2>1. PICK c \in Cart : /\ held' = [held EXCEPT ![q] = c] /\ UNCHANGED carts
                          /\ WellFormed(c) /\ c # NoCart
    <3>1. args[q].user \in Users
      BY <1>7 DEF GetOrder, Goto, Inv, PagesOK, HandlersReady, Running, Plain
    <3>2. CASE GetCartAsync(q, User(q))
      BY <3>1, <3>2, EmptyCartWellFormed
         DEF GetCartAsync, User, Inv, CartsOK, CartTypeOK
    <3>3. CASE held' = [held EXCEPT ![q] = EmptyCart] /\ UNCHANGED carts
      BY <3>3, EmptyCartWellFormed
    <3> QED BY <1>7, <3>2, <3>3 DEF GetOrder
  <2>2. CartsOK' BY <2>1 DEF Inv, CartsOK, CartTypeOK
  <2>3. UNCHANGED <<args, orders, mails>> BY <1>7 DEF GetOrder, handlerVars
  <2>4. PagesOK'
    <3>1. args[q] \in Plain
      BY <1>7 DEF GetOrder, Goto, Inv, PagesOK, HandlersReady, Running
    <3>2. held'[q] # NoCart /\ \A p \in Requests \ {q} : held'[p] = held[p]
      BY <2>1 DEF Inv, CartsOK, CartTypeOK
    <3> QED BY <1>7, <2>3, <3>1, <3>2, PageGoesOn DEF GetOrder, Goto, Running
  <2>5. failures' \in 0 .. MaxFailures BY <1>7, FailureCounted DEF GetOrder
  <2> QED BY <2>2, <2>3, <2>4, <2>5 DEF Inv, OrdersOK, CountsOK
<1>8. ASSUME NEW q \in Requests, GetUser(q)
      PROVE  Inv'
  <2>1. UNCHANGED <<carts, held, args, orders, mails>>
    BY <1>8 DEF GetUser, cartVars, handlerVars
  <2>2. PagesOK'
    <3>1. args[q] \in Plain /\ held[q] # NoCart
      BY <1>8 DEF GetUser, Goto, Inv, PagesOK, HandlersReady, Running
    <3> QED BY <1>8, <2>1, <3>1, PageGoesOn DEF GetUser, Goto, Running, Ended
  <2>3. failures' \in 0 .. MaxFailures BY <1>8, FailureCounted DEF GetUser
  <2> QED BY <2>1, <2>2, <2>3 DEF Inv, CartsOK, CartTypeOK, OrdersOK, CountsOK
<1>9. ASSUME NEW q \in Requests, ExecuteCheckout(q)
      PROVE  Inv'
  <2>1. UNCHANGED <<carts, held, args, mails, failures>>
    BY <1>9 DEF ExecuteCheckout, cartVars
  <2>2. args[q] \in Plain /\ held[q] # NoCart
    BY <1>9 DEF ExecuteCheckout, Goto, Inv, PagesOK, HandlersReady, Running
  <2>3. OrdersOK'
    <3>1. held[q] \in Cart /\ WellFormed(held[q])
      BY <2>2 DEF Inv, CartsOK, CartTypeOK
    <3> QED BY <1>9, <3>1 DEF ExecuteCheckout, Inv, OrdersOK, Order
  <2>4. PagesOK' BY <1>9, <2>1, <2>2, PageGoesOn DEF ExecuteCheckout, Goto, Running
  <2> QED BY <2>1, <2>3, <2>4 DEF Inv, CartsOK, CartTypeOK, CountsOK
<1>10. ASSUME NEW q \in Requests, CheckoutAnswered(q)
       PROVE  Inv'
  <2>1. PICK o \in orders, outcome \in {"approved", "rejected", "error"} :
          /\ orders' = (orders \ {o}) \cup {[o EXCEPT !.outcome = outcome]}
          /\ Goto(q, "waiting", IF outcome = "approved" THEN "approved" ELSE "done")
          /\ CallFails \/ UNCHANGED failures
    BY <1>10 DEF CheckoutAnswered
  <2>2. UNCHANGED <<carts, held, args, mails>> BY <1>10 DEF CheckoutAnswered, cartVars
  <2>3. OrdersOK'
    <3>1. o \in Order /\ WellFormed(o.cart) BY DEF Inv, OrdersOK
    <3>2. [o EXCEPT !.outcome = outcome] \in Order
          /\ WellFormed([o EXCEPT !.outcome = outcome].cart)
      BY <3>1 DEF Order
    <3> QED BY <2>1, <3>2 DEF Inv, OrdersOK
  <2>4. PagesOK'
    <3>1. args[q] \in Plain
      BY <2>1 DEF Goto, Inv, PagesOK, HandlersReady, Running
    <3> QED BY <2>1, <2>2, <3>1, PageGoesOn DEF Goto, Running, Ended
  <2>5. failures' \in 0 .. MaxFailures BY <2>1, FailureCounted
  <2> QED BY <2>2, <2>3, <2>4, <2>5 DEF Inv, CartsOK, CartTypeOK, CountsOK
<1>11. ASSUME NEW q \in Requests, EmptyPaidCart(q)
       PROVE  Inv'
  <2>1. CartsOK'
    <3>1. CASE EmptyCartAsync(User(q)) BY <3>1, EmptyKeepsCarts
    <3>2. CASE UNCHANGED cartVars BY <3>2 DEF cartVars, Inv, CartsOK, CartTypeOK
    <3> QED BY <1>11, <3>1, <3>2 DEF EmptyPaidCart
  <2>2. UNCHANGED <<held, args, orders, mails>>
    BY <1>11 DEF EmptyPaidCart, EmptyCartAsync, handlerVars, cartVars
  <2>3. PagesOK'
    <3>1. args[q] \in Plain
      BY <1>11 DEF EmptyPaidCart, Goto, Inv, PagesOK, HandlersReady, Running
    <3> QED BY <1>11, <2>2, <3>1, PageGoesOn DEF EmptyPaidCart, Goto, Running
  <2>4. failures' \in 0 .. MaxFailures BY <1>11, FailureCounted DEF EmptyPaidCart
  <2> QED BY <2>1, <2>2, <2>3, <2>4 DEF Inv, OrdersOK, CountsOK
<1>12. ASSUME NEW q \in Requests, SendMail(q)
       PROVE  Inv'
  <2>1. UNCHANGED <<carts, held, args, orders>> BY <1>12 DEF SendMail, cartVars
  <2>2. PagesOK' BY <1>12, <2>1, PageGoesOn DEF SendMail, Goto, Running, Ended
  <2>3. failures' \in 0 .. MaxFailures BY <1>12, FailureCounted DEF SendMail
  <2>4. mails' \subseteq Requests BY <1>12 DEF SendMail, Inv, CountsOK
  <2> QED BY <2>1, <2>2, <2>3, <2>4 DEF Inv, CartsOK, CartTypeOK, OrdersOK, CountsOK
<1> QED BY <1>1, <1>2, <1>3, <1>4, <1>5, <1>6, <1>7, <1>8, <1>9, <1>10, <1>11, <1>12
        DEF Next, Handler

LEMMA Invariant == Spec => []Inv
BY InitInv, NextInv, PTL DEF Spec

\* Type correctness; in particular a page that orders always has a cart in hand, since
\* getOrder answers with an empty one when there is none or the call fails.
THEOREM StorefrontTypeCorrect == Spec => []TypeOK
BY Invariant, InvSplits, PTL

\* Whatever handlers copy, change and write back of carts that others changed since, and
\* whichever calls fail, no cart stored, copied or ordered mixes restaurants or lists a
\* product twice.
THEOREM CartsCorrect == Spec => []CartsAreWellFormed
BY Invariant, InvSplits, PTL

-----------------------------------------------------------------------------
(* Orders and mails.                                                        *)

Sequel == {"waiting", "approved", "mailing", "done"}

\* A page has one order at most, from when it waits for the answer, and goes on to the mail
\* only when that order is approved.
OrdersInPlace ==
    /\ IsFiniteSet(orders)
    /\ \A q \in Requests : pc[q] = "idle" => args[q] = NoArgs
    /\ \A o \in orders : pc[o.request] \in Sequel
    /\ \A o, p \in orders : o.request = p.request => o = p
    /\ \A o \in orders : /\ pc[o.request] = "waiting" => o.outcome = "open"
                         /\ pc[o.request] \in {"approved", "mailing"} => o.outcome = "approved"
    /\ \A q \in Requests : pc[q] \in {"approved", "mailing"} =>
         \E o \in orders : o.request = q /\ o.outcome = "approved"

\* A mail is the last step of a page.
MailsInPlace ==
    /\ \A q \in mails :
         pc[q] = "done" /\ \E o \in orders : o.request = q /\ o.outcome = "approved"
    /\ failures = 0 =>
         \A o \in orders : o.outcome = "approved" /\ pc[o.request] = "done"
                             => o.request \in mails

LEMMA OrderParts ==
    ASSUME Inv, NEW o \in orders
    PROVE  /\ o.request \in Requests /\ o.cart \in Cart /\ WellFormed(o.cart)
           /\ o.outcome \in {"open", "approved", "rejected", "error"}
           /\ \A outcome : /\ [o EXCEPT !.outcome = outcome].request = o.request
                           /\ [o EXCEPT !.outcome = outcome].cart = o.cart
                           /\ [o EXCEPT !.outcome = outcome].outcome = outcome
BY DEF Inv, OrdersOK, Order

\* A handler's step that leaves the orders alone.
LEMMA MoveKeepsOrders ==
    ASSUME Inv, OrdersInPlace, NEW q \in Requests, pc[q] \in Running,
           NEW to \in Running \cup Ended, pc' = [pc EXCEPT ![q] = to],
           UNCHANGED <<args, orders>>,
           pc[q] \in Sequel => to \in {"mailing", "done"},
           to \in {"approved", "mailing"} => pc[q] \in {"approved", "mailing"}
    PROVE  OrdersInPlace'
<1>1. /\ pc'[q] = to /\ \A p \in Requests : p # q => pc'[p] = pc[p]
  BY DEF Inv, PagesOK
<1>2. pc[q] # "idle" /\ to # "idle" BY DEF Running, Ended
<1>3. \A p \in Requests : pc'[p] = "idle" => args'[p] = NoArgs
  BY <1>1, <1>2 DEF OrdersInPlace
<1>4. ASSUME NEW o \in orders
      PROVE  /\ pc'[o.request] \in Sequel
             /\ pc'[o.request] = "waiting" => o.outcome = "open"
             /\ pc'[o.request] \in {"approved", "mailing"} => o.outcome = "approved"
  <2>1. o.request \in Requests BY OrderParts
  <2>2. CASE o.request # q BY <1>1, <2>1, <2>2 DEF OrdersInPlace
  <2>3. CASE o.request = q
    <3>1. pc[q] \in Sequel BY <2>3 DEF OrdersInPlace
    <3>2. to \in {"mailing", "done"} BY <3>1
    <3>3. to = "mailing" => o.outcome = "approved" BY <2>3 DEF OrdersInPlace
    <3> QED BY <1>1, <2>3, <3>2, <3>3 DEF Sequel
  <2> QED BY <2>2, <2>3
<1>5. \A p \in Requests : pc'[p] \in {"approved", "mailing"} =>
        \E o \in orders : o.request = p /\ o.outcome = "approved"
  BY <1>1 DEF OrdersInPlace
<1> QED BY <1>3, <1>4, <1>5 DEF OrdersInPlace

LEMMA ArrivalKeepsOrders ==
    ASSUME Inv, OrdersInPlace, NEW q \in Requests, NEW a, NEW first, Arrive(q, a, first),
           first \in {"adding", "emptying", "fetching"}
    PROVE  OrdersInPlace'
<1>1. /\ pc' = [pc EXCEPT ![q] = first] /\ pc[q] = "idle"
      /\ args' = [args EXCEPT ![q] = a] /\ UNCHANGED orders
  BY DEF Arrive, Goto
<1>2. /\ pc'[q] = first
      /\ \A p \in Requests : p # q => pc'[p] = pc[p] /\ args'[p] = args[p]
  BY <1>1 DEF Inv, PagesOK
<1>3. ASSUME NEW o \in orders PROVE o.request \in Requests /\ o.request # q
  BY <1>1, OrderParts DEF OrdersInPlace, Sequel
<1>4. \A p \in Requests : pc'[p] = "idle" => args'[p] = NoArgs
  BY <1>2 DEF OrdersInPlace
<1>5. \A o \in orders :
        /\ pc'[o.request] \in Sequel
        /\ pc'[o.request] = "waiting" => o.outcome = "open"
        /\ pc'[o.request] \in {"approved", "mailing"} => o.outcome = "approved"
  BY <1>2, <1>3 DEF OrdersInPlace
<1>6. \A p \in Requests : pc'[p] \in {"approved", "mailing"} =>
        \E o \in orders : o.request = p /\ o.outcome = "approved"
  BY <1>2 DEF OrdersInPlace
<1> QED BY <1>1, <1>4, <1>5, <1>6 DEF OrdersInPlace

LEMMA CheckoutKeepsOrders ==
    ASSUME Inv, OrdersInPlace, NEW q \in Requests, ExecuteCheckout(q)
    PROVE  OrdersInPlace'
<1> DEFINE new == [request |-> q, cart |-> held[q], outcome |-> "open"]
<1>1. /\ pc[q] = "paying" /\ pc' = [pc EXCEPT ![q] = "waiting"]
      /\ orders' = orders \cup {new} /\ UNCHANGED args
  BY DEF ExecuteCheckout, Goto
<1>2. new.request = q /\ new.outcome = "open" OBVIOUS
<1> HIDE DEF new
<1>3. pc'[q] = "waiting" /\ \A p \in Requests : p # q => pc'[p] = pc[p]
  BY <1>1 DEF Inv, PagesOK
<1>4. ASSUME NEW o \in orders PROVE o.request \in Requests /\ o.request # q
  BY <1>1, OrderParts DEF OrdersInPlace, Sequel
<1>5. IsFiniteSet(orders') BY <1>1, FS_AddElement DEF OrdersInPlace
<1>6. \A p \in Requests : pc'[p] = "idle" => args'[p] = NoArgs
  BY <1>1, <1>3 DEF OrdersInPlace
<1>7. \A o \in orders' :
        /\ pc'[o.request] \in Sequel
        /\ pc'[o.request] = "waiting" => o.outcome = "open"
        /\ pc'[o.request] \in {"approved", "mailing"} => o.outcome = "approved"
  BY <1>1, <1>2, <1>3, <1>4 DEF OrdersInPlace, Sequel
<1>8. \A o, p \in orders' : o.request = p.request => o = p
  BY <1>1, <1>2, <1>4 DEF OrdersInPlace
<1>9. \A p \in Requests : pc'[p] \in {"approved", "mailing"} =>
        \E o \in orders' : o.request = p /\ o.outcome = "approved"
  BY <1>1, <1>3 DEF OrdersInPlace
<1> QED BY <1>5, <1>6, <1>7, <1>8, <1>9 DEF OrdersInPlace

\* The order that is answered, and what becomes of it.
LEMMA AnsweredOrder ==
    ASSUME Inv, OrdersInPlace, NEW q \in Requests, CheckoutAnswered(q)
    PROVE  \E o \in orders, n \in Order :
             /\ o.request = q /\ n.request = q /\ n.cart = o.cart
             /\ o.outcome = "open" /\ n.outcome \in {"approved", "rejected", "error"}
             /\ orders' = (orders \ {o}) \cup {n}
             /\ \A p \in orders : p # o => p.request # q
             /\ pc[q] = "waiting"
             /\ pc' = [pc EXCEPT ![q] = IF n.outcome = "approved" THEN "approved" ELSE "done"]
             /\ IF n.outcome = "error" THEN CallFails ELSE UNCHANGED failures
             /\ UNCHANGED <<carts, held, args, mails>>
<1>1. PICK o \in orders, outcome \in {"approved", "rejected", "error"} :
        /\ o.request = q
        /\ orders' = (orders \ {o}) \cup {[o EXCEPT !.outcome = outcome]}
        /\ Goto(q, "waiting", IF outcome = "approved" THEN "approved" ELSE "done")
        /\ IF outcome = "error" THEN CallFails ELSE UNCHANGED failures
        /\ UNCHANGED <<carts, held, args, mails>>
  BY DEF CheckoutAnswered, cartVars
<1>2. PICK n : n = [o EXCEPT !.outcome = outcome] OBVIOUS
<1>3. n \in Order /\ n.request = o.request /\ n.cart = o.cart /\ n.outcome = outcome
  BY <1>2 DEF Inv, OrdersOK, Order
<1>4. pc[q] = "waiting"
      /\ pc' = [pc EXCEPT ![q] = IF outcome = "approved" THEN "approved" ELSE "done"]
  BY <1>1 DEF Goto
<1>5. o.outcome = "open" /\ \A p \in orders : p # o => p.request # q
  BY <1>1, <1>4 DEF OrdersInPlace
<1> QED BY <1>1, <1>2, <1>3, <1>4, <1>5

LEMMA AnswerKeepsOrders ==
    ASSUME Inv, OrdersInPlace, NEW q \in Requests, CheckoutAnswered(q)
    PROVE  OrdersInPlace'
<1>1. PICK o \in orders, n \in Order :
             /\ o.request = q /\ n.request = q /\ n.cart = o.cart
             /\ o.outcome = "open" /\ n.outcome \in {"approved", "rejected", "error"}
             /\ orders' = (orders \ {o}) \cup {n}
             /\ \A p \in orders : p # o => p.request # q
             /\ pc[q] = "waiting"
             /\ pc' = [pc EXCEPT ![q] = IF n.outcome = "approved" THEN "approved" ELSE "done"]
             /\ UNCHANGED args
  BY AnsweredOrder
<1>2. PICK to \in {"approved", "done"} :
        to = IF n.outcome = "approved" THEN "approved" ELSE "done"
  OBVIOUS
<1>3. pc'[q] = to /\ \A p \in Requests : p # q => pc'[p] = pc[p]
  BY <1>1, <1>2 DEF Inv, PagesOK
<1>4. IsFiniteSet(orders')
  BY <1>1, FS_AddElement, FS_RemoveElement DEF OrdersInPlace
<1>5. \A p \in Requests : pc'[p] = "idle" => args'[p] = NoArgs
  BY <1>1, <1>3 DEF OrdersInPlace
<1>6. \A p \in orders' : p = n \/ (p \in orders /\ p.request # q /\ p.request \in Requests)
  BY <1>1, OrderParts
<1>7. \A p \in orders' :
        /\ pc'[p.request] \in Sequel
        /\ pc'[p.request] = "waiting" => p.outcome = "open"
        /\ pc'[p.request] \in {"approved", "mailing"} => p.outcome = "approved"
  BY <1>1, <1>2, <1>3, <1>6 DEF OrdersInPlace, Sequel
<1>8. \A p, r \in orders' : p.request = r.request => p = r
  BY <1>1, <1>6 DEF OrdersInPlace
<1>9. \A p \in Requests : pc'[p] \in {"approved", "mailing"} =>
        \E r \in orders' : r.request = p /\ r.outcome = "approved"
  BY <1>1, <1>2, <1>3 DEF OrdersInPlace
<1> QED BY <1>4, <1>5, <1>7, <1>8, <1>9 DEF OrdersInPlace

\* The handler's steps that leave the orders alone; only the mail ends a page that has one.
Quiet(q) ==
    \/ ReadForItem(q) \/ WriteItem(q) \/ CartCallFails(q) \/ ClearCart(q)
    \/ GetOrder(q) \/ GetUser(q) \/ EmptyPaidCart(q)

Arrives(q) ==
    \E a, first : /\ Arrive(q, a, first)
                  /\ \/ first = "adding" /\ a \in Additions
                     \/ first \in {"emptying", "fetching"} /\ a \in Plain

LEMMA StorefrontCases ==
    ASSUME Next
    PROVE  \E q \in Requests :
             \/ Arrives(q) \/ Quiet(q) \/ ExecuteCheckout(q) \/ CheckoutAnswered(q)
             \/ SendMail(q)
<1> PICK q \in Requests : AddToCart(q) \/ EmptyCartRequest(q) \/ CheckoutPage(q) \/ Handler(q)
  BY DEF Next
<1>1. CASE AddToCart(q) BY <1>1 DEF AddToCart, Arrives
<1>2. CASE EmptyCartRequest(q) \/ CheckoutPage(q)
  <2>1. PICK u \in Users :
          \/ Arrive(q, [op |-> "emptyCart", user |-> u], "emptying")
          \/ Arrive(q, [op |-> "checkoutPage", user |-> u], "fetching")
    BY <1>2 DEF EmptyCartRequest, CheckoutPage
  <2>2. /\ [op |-> "emptyCart", user |-> u] \in Plain
        /\ [op |-> "checkoutPage", user |-> u] \in Plain
    BY DEF Plain
  <2> QED BY <2>1, <2>2 DEF Arrives
<1>3. CASE Handler(q) BY <1>3 DEF Handler, Quiet
<1> QED BY <1>1, <1>2, <1>3

LEMMA QuietMoves ==
    ASSUME NEW q, Quiet(q)
    PROVE  \E to \in Running \cup Ended :
             /\ pc[q] \in Running /\ pc' = [pc EXCEPT ![q] = to]
             /\ pc[q] \in Sequel => to = "mailing" /\ pc[q] = "approved"
             /\ to \in {"approved", "mailing"} => pc[q] = "approved"
             /\ UNCHANGED <<args, orders, mails>>
             /\ CallFails \/ UNCHANGED failures
<1>1. CASE ReadForItem(q)
  BY <1>1 DEF ReadForItem, Goto, handlerVars, Running, Ended, Sequel
<1>2. CASE WriteItem(q)
  BY <1>2 DEF WriteItem, Goto, handlerVars, Running, Ended, Sequel
<1>3. CASE CartCallFails(q)
  BY <1>3 DEF CartCallFails, handlerVars, Running, Ended, Sequel
<1>4. CASE ClearCart(q)
  BY <1>4 DEF ClearCart, Goto, handlerVars, Running, Ended, Sequel
<1>5. CASE GetOrder(q)
  BY <1>5 DEF GetOrder, Goto, handlerVars, Running, Ended, Sequel
<1>6. CASE GetUser(q)
  BY <1>6 DEF GetUser, Goto, handlerVars, Running, Ended, Sequel
<1>7. CASE EmptyPaidCart(q)
  BY <1>7 DEF EmptyPaidCart, Goto, handlerVars, Running, Ended, Sequel
<1> QED BY <1>1, <1>2, <1>3, <1>4, <1>5, <1>6, <1>7 DEF Quiet

LEMMA InitOrders == Init => OrdersInPlace /\ MailsInPlace
<1> SUFFICES ASSUME Init PROVE OrdersInPlace /\ MailsInPlace OBVIOUS
<1>1. IsFiniteSet(orders) BY FS_EmptySet DEF Init
<1> QED BY <1>1 DEF Init, OrdersInPlace, MailsInPlace

LEMMA NextOrders == Inv /\ OrdersInPlace /\ [Next]_vars => OrdersInPlace'
<1> SUFFICES ASSUME Inv, OrdersInPlace, [Next]_vars PROVE OrdersInPlace' OBVIOUS
<1>1. CASE UNCHANGED vars BY <1>1 DEF vars, handlerVars, OrdersInPlace
<1>2. CASE Next
  <2> PICK q \in Requests :
        \/ Arrives(q) \/ Quiet(q) \/ ExecuteCheckout(q) \/ CheckoutAnswered(q)
        \/ SendMail(q)
    BY <1>2, StorefrontCases
  <2>1. CASE Arrives(q) BY <2>1, ArrivalKeepsOrders DEF Arrives
  <2>2. CASE Quiet(q)
    <3>1. PICK to \in Running \cup Ended :
             /\ pc[q] \in Running /\ pc' = [pc EXCEPT ![q] = to]
             /\ pc[q] \in Sequel => to = "mailing" /\ pc[q] = "approved"
             /\ to \in {"approved", "mailing"} => pc[q] = "approved"
             /\ UNCHANGED <<args, orders>>
      BY <2>2, QuietMoves
    <3> QED BY <3>1, MoveKeepsOrders
  <2>3. CASE ExecuteCheckout(q) BY <2>3, CheckoutKeepsOrders
  <2>4. CASE CheckoutAnswered(q) BY <2>4, AnswerKeepsOrders
  <2>5. CASE SendMail(q)
    <3>1. /\ pc[q] = "mailing" /\ pc' = [pc EXCEPT ![q] = "done"]
          /\ UNCHANGED <<args, orders>>
      BY <2>5 DEF SendMail, Goto
    <3> QED BY <3>1, MoveKeepsOrders DEF Running, Ended
  <2> QED BY <2>1, <2>2, <2>3, <2>4, <2>5
<1> QED BY <1>1, <1>2

LEMMA FailuresGrow ==
    ASSUME Inv, CallFails \/ UNCHANGED failures, failures' = 0
    PROVE  failures = 0 /\ ~CallFails
BY StorefrontAssumption DEF Inv, CountsOK, CallFails

LEMMA NextMails == Inv /\ OrdersInPlace /\ MailsInPlace /\ [Next]_vars => MailsInPlace'
<1> SUFFICES ASSUME Inv, OrdersInPlace, MailsInPlace, [Next]_vars PROVE MailsInPlace'
  OBVIOUS
<1>1. CASE UNCHANGED vars BY <1>1 DEF vars, handlerVars, MailsInPlace
<1>2. CASE Next
  <2> PICK q \in Requests :
        \/ Arrives(q) \/ Quiet(q) \/ ExecuteCheckout(q) \/ CheckoutAnswered(q)
        \/ SendMail(q)
    BY <1>2, StorefrontCases
  <2>a. mails \subseteq Requests BY DEF Inv, CountsOK
  <2>1. CASE Arrives(q)
    <3>1. PICK first \in {"adding", "emptying", "fetching"} :
            /\ pc[q] = "idle" /\ pc' = [pc EXCEPT ![q] = first]
            /\ UNCHANGED <<orders, mails, failures>>
      BY <2>1 DEF Arrives, Arrive, Goto
    <3>2. \A p \in Requests : p # q => pc'[p] = pc[p] BY <3>1 DEF Inv, PagesOK
    <3>3. q \notin mails /\ \A o \in orders : o.request \in Requests /\ o.request # q
      BY <3>1, OrderParts DEF MailsInPlace, OrdersInPlace, Sequel
    <3> QED BY <2>a, <3>1, <3>2, <3>3 DEF MailsInPlace
  <2>2. CASE Quiet(q)
    <3>1. PICK to \in Running \cup Ended :
             /\ pc[q] \in Running /\ pc' = [pc EXCEPT ![q] = to]
             /\ pc[q] \in Sequel => to = "mailing" /\ pc[q] = "approved"
             /\ UNCHANGED <<args, orders, mails>>
             /\ CallFails \/ UNCHANGED failures
      BY <2>2, QuietMoves
    <3>2. pc'[q] = to /\ \A p \in Requests : p # q => pc'[p] = pc[p]
      BY <3>1 DEF Inv, PagesOK
    <3>3. q \notin mails BY <3>1 DEF MailsInPlace, Running
    <3>4. \A o \in orders : o.request \in Requests /\ (o.request = q => to = "mailing")
      BY <3>1, OrderParts DEF OrdersInPlace
    <3> QED BY <2>a, <3>1, <3>2, <3>3, <3>4, FailuresGrow DEF MailsInPlace
  <2>3. CASE ExecuteCheckout(q)
    <3>1. PICK new :
            /\ new.request = q /\ new.outcome = "open" /\ orders' = orders \cup {new}
            /\ pc[q] = "paying" /\ pc' = [pc EXCEPT ![q] = "waiting"]
            /\ UNCHANGED <<mails, failures>>
      BY <2>3 DEF ExecuteCheckout, Goto
    <3>2. pc'[q] = "waiting" /\ \A p \in Requests : p # q => pc'[p] = pc[p]
      BY <3>1 DEF Inv, PagesOK
    <3>3. q \notin mails /\ \A o \in orders : o.request \in Requests /\ o.request # q
      BY <3>1, OrderParts DEF MailsInPlace, OrdersInPlace, Sequel
    <3> QED BY <2>a, <3>1, <3>2, <3>3 DEF MailsInPlace
  <2>4. CASE CheckoutAnswered(q)
    <3>1. PICK o \in orders, n \in Order :
             /\ o.request = q /\ n.request = q
             /\ o.outcome = "open" /\ n.outcome \in {"approved", "rejected", "error"}
             /\ orders' = (orders \ {o}) \cup {n}
             /\ \A p \in orders : p # o => p.request # q
             /\ pc[q] = "waiting"
             /\ pc' = [pc EXCEPT ![q] = IF n.outcome = "approved" THEN "approved" ELSE "done"]
             /\ CallFails \/ UNCHANGED failures
             /\ UNCHANGED mails
      BY <2>4, AnsweredOrder
    <3>2. /\ pc'[q] = IF n.outcome = "approved" THEN "approved" ELSE "done"
          /\ \A p \in Requests : p # q => pc'[p] = pc[p]
      BY <3>1 DEF Inv, PagesOK
    <3>3. q \notin mails BY <3>1 DEF MailsInPlace
    <3>4. ASSUME NEW p \in mails
          PROVE  pc'[p] = "done" /\ \E r \in orders' : r.request = p /\ r.outcome = "approved"
      <4>1. PICK r \in orders : r.request = p /\ r.outcome = "approved" BY DEF MailsInPlace
      <4>2. p # q /\ r \in orders' BY <3>1, <3>3, <4>1
      <4> QED BY <2>a, <3>2, <4>1, <4>2 DEF MailsInPlace
    <3>5. ASSUME failures' = 0, NEW p \in orders', p.outcome = "approved",
                 pc'[p.request] = "done"
          PROVE  p.request \in mails
      <4>1. p # n BY <3>1, <3>2, <3>5
      <4>2. p \in orders /\ p.request \in Requests /\ p.request # q
        BY <3>1, <4>1, OrderParts
      <4> QED BY <3>1, <3>2, <3>5, <4>2, FailuresGrow DEF MailsInPlace
    <3> QED BY <3>1, <3>4, <3>5 DEF MailsInPlace
  <2>5. CASE SendMail(q)
    <3>1. /\ pc[q] = "mailing" /\ pc' = [pc EXCEPT ![q] = "done"]
          /\ mails' \in {mails, mails \cup {q}} /\ UNCHANGED orders
          /\ (mails' = mails \cup {q} /\ UNCHANGED failures) \/ CallFails
      BY <2>5 DEF SendMail, Goto
    <3>2. pc'[q] = "done" /\ \A p \in Requests : p # q => pc'[p] = pc[p]
      BY <3>1 DEF Inv, PagesOK
    <3>3. \E o \in orders : o.request = q /\ o.outcome = "approved"
      BY <3>1 DEF OrdersInPlace
    <3>4. \A o \in orders : o.request \in Requests BY OrderParts
    <3>5. failures' = 0 => failures = 0 /\ mails' = mails \cup {q} BY <3>1, FailuresGrow
    <3> QED BY <2>a, <3>1, <3>2, <3>3, <3>4, <3>5 DEF MailsInPlace
  <2> QED BY <2>1, <2>2, <2>3, <2>4, <2>5
<1> QED BY <1>1, <1>2

LEMMA AlwaysOrders == Spec => [](OrdersInPlace /\ MailsInPlace)
<1> QED BY Invariant, InitOrders, NextOrders, NextMails, PTL DEF Spec

\* For any users, requests and failures: nobody is mailed without an approved order, and
\* the user of an approved order whose page is through was mailed, unless a call failed.
THEOREM MailsCorrect == Spec => []MailsFollowApprovals
<1>1. MailsInPlace => MailsFollowApprovals BY DEF MailsInPlace, MailsFollowApprovals
<1> QED BY <1>1, AlwaysOrders, PTL

-----------------------------------------------------------------------------
(* What carts hold.                                                         *)

Lines(cart, r, i) ==
    {k \in DOMAIN cart.menuItems :
       cart.menuItems[k].itemID = i /\ cart.menuItems[k].price = r}

LEMMA InCartIsSum ==
    ASSUME NEW cart, NEW r, NEW i
    PROVE  InCart(cart, r, i) =
             SumFunctionOnSet([k \in Lines(cart, r, i) |-> cart.menuItems[k].quantity],
                              Lines(cart, r, i))
BY DEF InCart, SumFunction, Lines

LEMMA NotInCart ==
    ASSUME NEW cart, NEW r, NEW i,
           \A k \in DOMAIN cart.menuItems :
             ~(cart.menuItems[k].itemID = i /\ cart.menuItems[k].price = r)
    PROVE  InCart(cart, r, i) = 0
<1>1. Lines(cart, r, i) = {} BY DEF Lines
<1> QED BY <1>1, InCartIsSum, SumOfNone

LEMMA LineParts ==
    ASSUME NEW cart \in Cart, NEW k \in DOMAIN cart.menuItems
    PROVE  /\ cart.menuItems[k] \in MenuItem
           /\ cart.menuItems[k].quantity \in Nat
<1>1. PICK lines \in Seq(MenuItem) : cart.menuItems = lines BY DEF Cart
<1>2. lines[k] \in MenuItem BY <1>1
<1> QED BY <1>1, <1>2 DEF MenuItem

\* The one line of a well-formed cart that is of a product.
LEMMA LineInCart ==
    ASSUME NEW cart \in Cart, WellFormed(cart), NEW k \in DOMAIN cart.menuItems
    PROVE  InCart(cart, cart.menuItems[k].price, cart.menuItems[k].itemID)
             = cart.menuItems[k].quantity
<1> DEFINE i == cart.menuItems[k].itemID
           r == cart.menuItems[k].price
           f == [j \in Lines(cart, r, i) |-> cart.menuItems[j].quantity]
<1>1. Lines(cart, r, i) = {k} BY DEF Lines, WellFormed
<1>2. cart.menuItems[k].quantity \in Nat BY LineParts
<1>3. f[k] = cart.menuItems[k].quantity BY <1>1
<1>4. InCart(cart, r, i) = SumFunctionOnSet(f, {k}) BY <1>1, InCartIsSum
<1> HIDE DEF f, i, r
<1>5. SumFunctionOnSet(f, {k}) = f[k] + SumFunctionOnSet(f, {k} \ {k})
  <2>1. IsFiniteSet({k}) BY FS_Singleton
  <2>2. \A x \in {k} : f[x] \in Nat BY <1>2, <1>3
  <2>3. k \in {k} OBVIOUS
  <2>4. PICK S : S = {k} OBVIOUS
  <2> QED BY <2>1, <2>2, <2>3, <2>4, SumWithout
<1>6. {k} \ {k} = {} OBVIOUS
<1>7. InCart(cart, r, i) = cart.menuItems[k].quantity
  BY <1>2, <1>3, <1>4, <1>5, <1>6, SumOfNone
<1> QED BY <1>7 DEF i, r

LEMMA InCartType ==
    ASSUME NEW cart \in Cart, WellFormed(cart), NEW r, NEW i
    PROVE  InCart(cart, r, i) \in Nat
<1>1. CASE \E k \in DOMAIN cart.menuItems :
             cart.menuItems[k].itemID = i /\ cart.menuItems[k].price = r
  <2> PICK k \in DOMAIN cart.menuItems :
        cart.menuItems[k].itemID = i /\ cart.menuItems[k].price = r
    BY <1>1
  <2>1. cart.menuItems[k].quantity \in Nat BY LineParts
  <2> QED BY <2>1, LineInCart
<1>2. CASE ~ \E k \in DOMAIN cart.menuItems :
             cart.menuItems[k].itemID = i /\ cart.menuItems[k].price = r
  BY <1>2, NotInCart
<1> QED BY <1>1, <1>2

LEMMA NothingInEmptyCart == \A r, i : InCart(EmptyCart, r, i) = 0
<1>1. DOMAIN EmptyCart.menuItems = {} BY DEF EmptyCart
<1> QED BY <1>1, NotInCart

\* Adding an item to lines of its price: its product is up by its quantity.
LEMMA AddedToLines ==
    ASSUME NEW lines \in Seq(MenuItem), NEW item \in MenuItem, NEW r \in Restaurants,
           WellFormed([restaurantID |-> r, menuItems |-> lines]), item.price = r,
           NEW s, NEW i
    PROVE  InCart([restaurantID |-> r, menuItems |-> AddMenuItem(lines, item)], s, i)
             = InCart([restaurantID |-> r, menuItems |-> lines], s, i)
               + (IF s = r /\ i = item.itemID THEN item.quantity ELSE 0)
<1> DEFINE old == [restaurantID |-> r, menuItems |-> lines]
           more == AddMenuItem(lines, item)
           new == [restaurantID |-> r, menuItems |-> more]
<1>1. more \in Seq(MenuItem) /\ WellFormed(new) BY AddMenuItemWellFormed
<1>2. /\ old \in Cart /\ old.menuItems = lines /\ WellFormed(old)
      /\ new \in Cart /\ new.menuItems = more
  BY <1>1 DEF Cart
<1>3. InCart(old, s, i) \in Nat BY <1>2, InCartType
<1>4. item.quantity \in Nat BY DEF MenuItem
<1>5. \A k \in DOMAIN lines : lines[k].price = r /\ lines[k] \in MenuItem
  BY <1>2 DEF WellFormed
<1>6. CASE HasLine(lines, item.itemID)
  <2> DEFINE x == FirstLine(lines, item.itemID)
  <2>1. x \in DOMAIN lines /\ lines[x].itemID = item.itemID
    <3>1. PICK k \in DOMAIN lines : lines[k].itemID = item.itemID BY <1>6 DEF HasLine
    <3>2. \A j \in 1 .. k - 1 : lines[j].itemID # item.itemID
      <4>1. \A j \in 1 .. k - 1 : j \in DOMAIN lines /\ j # k OBVIOUS
      <4> QED BY <1>2, <3>1, <4>1 DEF WellFormed
    <3> QED BY <3>1, <3>2 DEF FirstLine
  <2>2. more = [lines EXCEPT ![x].quantity = @ + item.quantity] BY <1>6 DEF AddMenuItem
  <2> HIDE DEF x, more
  <2>3. /\ DOMAIN more = DOMAIN lines
        /\ \A k \in DOMAIN lines :
             /\ more[k].itemID = lines[k].itemID /\ more[k].price = lines[k].price
             /\ more[k].quantity = lines[k].quantity + IF k = x THEN item.quantity ELSE 0
    <3>1. DOMAIN more = DOMAIN lines BY <2>2
    <3>2. ASSUME NEW k \in DOMAIN lines
          PROVE  /\ more[k].itemID = lines[k].itemID /\ more[k].price = lines[k].price
                 /\ more[k].quantity = lines[k].quantity + IF k = x THEN item.quantity ELSE 0
      <4>1. more[k] = IF k = x THEN [lines[k] EXCEPT !.quantity = @ + item.quantity]
                      ELSE lines[k]
        BY <2>2
      <4> QED BY <1>4, <1>5, <4>1 DEF MenuItem
    <3> QED BY <3>1, <3>2
  <2>4. CASE \E k \in DOMAIN lines : lines[k].itemID = i /\ lines[k].price = s
    <3> PICK k \in DOMAIN lines : lines[k].itemID = i /\ lines[k].price = s BY <2>4
    <3>1. InCart(old, s, i) = lines[k].quantity BY <1>2, LineInCart
    <3>2. more[k].itemID = i /\ more[k].price = s /\ k \in DOMAIN more BY <2>3
    <3> HIDE DEF new
    <3>3. InCart(new, s, i) = more[k].quantity BY <1>1, <1>2, <3>2, LineInCart
    <3>4. (s = r /\ i = item.itemID) <=> k = x BY <1>2, <1>5, <2>1 DEF WellFormed
    <3>5. more[k].quantity = lines[k].quantity + IF k = x THEN item.quantity ELSE 0 BY <2>3
    <3> QED BY <1>3, <3>1, <3>3, <3>4, <3>5 DEF old, new, more
  <2>5. CASE ~ \E k \in DOMAIN lines : lines[k].itemID = i /\ lines[k].price = s
    <3>1. InCart(old, s, i) = 0 BY <1>2, <2>5, NotInCart
    <3>2. InCart(new, s, i) = 0 BY <1>2, <2>3, <2>5, NotInCart
    <3>3. ~(s = r /\ i = item.itemID) BY <1>5, <2>1, <2>5
    <3> QED BY <3>1, <3>2, <3>3 DEF old, new, more
  <2> QED BY <2>4, <2>5
<1>7. CASE ~HasLine(lines, item.itemID)
  <2>1. more = Append(lines, item) BY <1>7 DEF AddMenuItem
  <2> HIDE DEF more
  <2>2. \A k \in DOMAIN lines : lines[k].itemID # item.itemID BY <1>7 DEF HasLine
  <2>3. /\ DOMAIN more = DOMAIN lines \cup {Len(lines) + 1}
        /\ \A k \in DOMAIN lines : more[k] = lines[k]
        /\ more[Len(lines) + 1] = item
    BY <2>1
  <2> DEFINE n == Len(lines) + 1
  <2> HIDE DEF n, new
  <2>4. CASE s = r /\ i = item.itemID
    <3>1. InCart(old, s, i) = 0 BY <1>2, <2>2, <2>4, NotInCart
    <3>2. n \in DOMAIN more /\ more[n] = item BY <2>3 DEF n
    <3>3. InCart(new, s, i) = item.quantity BY <1>1, <1>2, <2>4, <3>2, LineInCart
    <3> QED BY <1>4, <2>4, <3>1, <3>3 DEF old, new, more
  <2>5. CASE ~(s = r /\ i = item.itemID)
    <3>1. CASE \E k \in DOMAIN lines : lines[k].itemID = i /\ lines[k].price = s
      <4> PICK k \in DOMAIN lines : lines[k].itemID = i /\ lines[k].price = s BY <3>1
      <4>1. InCart(old, s, i) = lines[k].quantity BY <1>2, LineInCart
      <4>2. k \in DOMAIN more /\ more[k] = lines[k] BY <2>3
      <4>3. InCart(new, s, i) = lines[k].quantity BY <1>1, <1>2, <4>2, LineInCart
      <4> QED BY <1>3, <2>5, <4>1, <4>3 DEF old, new, more
    <3>2. CASE ~ \E k \in DOMAIN lines : lines[k].itemID = i /\ lines[k].price = s
      <4>1. InCart(old, s, i) = 0 BY <1>2, <3>2, NotInCart
      <4>2. \A k \in DOMAIN more : ~(more[k].itemID = i /\ more[k].price = s)
        BY <2>3, <2>5, <3>2
      <4>3. InCart(new, s, i) = 0 BY <1>2, <4>2, NotInCart
      <4> QED BY <2>5, <4>1, <4>3 DEF old, new, more
    <3> QED BY <3>1, <3>2
  <2> QED BY <2>4, <2>5
<1> QED BY <1>6, <1>7

\* AddItem, of whatever it read: its product is up by its quantity, and a cart of another
\* restaurant is given up.
LEMMA AddedToCart ==
    ASSUME NEW value \in Cart \cup {NoCart}, value # NoCart => WellFormed(value),
           NEW r \in Restaurants, NEW item \in MenuItem, item.price = r,
           NEW s \in Restaurants, NEW i
    PROVE  InCart(WithItem(value, r, item), s, i) =
             IF s # r THEN 0
             ELSE InCart(IF value = NoCart THEN EmptyCart ELSE value, s, i)
                  + (IF i = item.itemID THEN item.quantity ELSE 0)
<1> DEFINE whole == IF value = NoCart THEN EmptyCart ELSE value
           lines == IF value # NoCart /\ value.restaurantID = r THEN value.menuItems ELSE <<>>
           old == [restaurantID |-> r, menuItems |-> lines]
           new == WithItem(value, r, item)
<1>1. new = [restaurantID |-> r, menuItems |-> AddMenuItem(lines, item)] BY DEF WithItem
<1>2. new \in Cart /\ WellFormed(new) BY WithItemWellFormed
<1>3. lines \in Seq(MenuItem) /\ WellFormed(old) BY DEF Cart, WellFormed
<1>4. CASE s # r
  <2>1. \A k \in DOMAIN new.menuItems : new.menuItems[k].price = r
    BY <1>1, <1>2 DEF WellFormed
  <2> QED BY <1>4, <2>1, NotInCart
<1>5. CASE s = r
  <2>1. InCart(old, r, i) = InCart(whole, r, i)
    <3>1. CASE value # NoCart /\ value.restaurantID = r
      <4>1. old = value BY <3>1 DEF Cart
      <4> QED BY <3>1, <4>1
    <3>2. CASE ~(value # NoCart /\ value.restaurantID = r)
      <4>1. InCart(old, r, i) = 0
        <5>1. DOMAIN old.menuItems = {} BY <3>2
        <5> QED BY <5>1, NotInCart
      <4>2. InCart(whole, r, i) = 0
        <5>1. CASE value = NoCart BY <5>1, NothingInEmptyCart
        <5>2. CASE value # NoCart
          <6>1. \A k \in DOMAIN value.menuItems : value.menuItems[k].price # r
            BY <3>2, <5>2 DEF WellFormed
          <6> QED BY <5>2, <6>1, NotInCart
        <5> QED BY <5>1, <5>2
      <4> QED BY <4>1, <4>2
    <3> QED BY <3>1, <3>2
  <2> HIDE DEF lines, whole
  <2>2. InCart(new, r, i) = InCart(old, r, i) + (IF i = item.itemID THEN item.quantity ELSE 0)
    BY <1>1, <1>3, AddedToLines
  <2> HIDE DEF old, new
  <2> QED BY <1>5, <2>1, <2>2 DEF whole, new
<1> QED BY <1>4, <1>5

-----------------------------------------------------------------------------
(* What was added.                                                          *)

\* The additions of product i of restaurant r by user u that are over.
Over(u, r, i) ==
    {q \in Requests : /\ pc[q] \in Ended
                      /\ args[q].op = "addToCart" /\ args[q].user = u
                      /\ args[q].restaurantID = r /\ args[q].itemID = i}

Written(u, r, i) ==
    SumFunctionOnSet([q \in Over(u, r, i) |-> args[q].quantity], Over(u, r, i))

LEMMA AdditionArgs ==
    ASSUME Inv, NEW q \in Requests, args[q].op = "addToCart"
    PROVE  args[q] \in Additions /\ args[q].quantity \in Nat
<1>1. args[q] \in Additions \cup Plain \cup {NoArgs} BY DEF Inv, PagesOK
<1>2. args[q] \in Additions BY <1>1 DEF Plain, NoArgs
<1>3. args[q].quantity \in 1 .. MaxQuantity BY <1>2 DEF Additions
<1> QED BY <1>2, <1>3, CartAssumption

LEMMA OverFinite ==
    ASSUME Inv, NEW u, NEW r, NEW i
    PROVE  /\ IsFiniteSet(Over(u, r, i))
           /\ \A q \in Over(u, r, i) : q \in Requests /\ args[q].quantity \in Nat
BY StorefrontAssumption, FS_Subset, AdditionArgs DEF Over

LEMMA WrittenType ==
    ASSUME Inv, NEW u, NEW r, NEW i
    PROVE  Written(u, r, i) \in Nat
<1> DEFINE f == [q \in Over(u, r, i) |-> args[q].quantity]
<1>1. \A q \in Over(u, r, i) : f[q] \in Nat BY OverFinite
<1> HIDE DEF f
<1>2. SumFunctionOnSet(f, Over(u, r, i)) \in Nat BY <1>1, OverFinite, SumType
<1> QED BY <1>2 DEF Written, f

\* What was added is what is over and more.
LEMMA WrittenWithinAdded ==
    ASSUME Inv, NEW u, NEW r, NEW i
    PROVE  Written(u, r, i) <= Added(u, r, i) /\ Added(u, r, i) \in Nat
<1> DEFINE All == {q \in Requests : args[q].op = "addToCart" /\ args[q].user = u
                                     /\ args[q].restaurantID = r /\ args[q].itemID = i}
           f == [q \in All |-> args[q].quantity]
           g == [q \in Over(u, r, i) |-> args[q].quantity]
<1>1. Added(u, r, i) = SumFunctionOnSet(f, All) BY DEF Added, SumFunction
<1>2. IsFiniteSet(All) BY StorefrontAssumption, FS_Subset
<1>3. \A q \in All : f[q] \in Nat BY AdditionArgs
<1>4. Over(u, r, i) \in SUBSET All BY DEF Over
<1>5. \A q \in Over(u, r, i) : f[q] = g[q] BY <1>4
<1>6. Written(u, r, i) = SumFunctionOnSet(g, Over(u, r, i)) BY DEF Written
<1> HIDE DEF All, f, g
<1>7. SumFunctionOnSet(f, Over(u, r, i)) = SumFunctionOnSet(g, Over(u, r, i))
  BY <1>5, OverFinite, SumAgrees
<1>8. SumFunctionOnSet(f, Over(u, r, i)) <= SumFunctionOnSet(f, All)
  BY <1>2, <1>3, <1>4, SumOfPart
<1>9. SumFunctionOnSet(f, All) \in Nat BY <1>2, <1>3, SumType
<1> QED BY <1>1, <1>6, <1>7, <1>8, <1>9

LEMMA WrittenSame ==
    ASSUME Inv, NEW u, NEW r, NEW i, Over(u, r, i)' = Over(u, r, i),
           \A q \in Over(u, r, i) : args'[q] = args[q]
    PROVE  Written(u, r, i)' = Written(u, r, i)
<1> DEFINE f == [q \in Over(u, r, i) |-> args[q].quantity]
<1>1. PICK O : O = Over(u, r, i) OBVIOUS
<1>2. PICK g : g = [q \in O |-> args'[q].quantity] OBVIOUS
<1>3. Written(u, r, i)' = SumFunctionOnSet(g, O) BY <1>1, <1>2 DEF Written
<1>4. Written(u, r, i) = SumFunctionOnSet(f, O) BY <1>1 DEF Written
<1>5. \A q \in O : f[q] = g[q] BY <1>1, <1>2
<1>6. IsFiniteSet(O) BY <1>1, OverFinite
<1> HIDE DEF f
<1> QED BY <1>3, <1>4, <1>5, <1>6, SumAgrees

LEMMA WrittenMore ==
    ASSUME Inv, NEW u, NEW r, NEW i, NEW p \in Requests, p \notin Over(u, r, i),
           args[p].op = "addToCart",
           Over(u, r, i)' = Over(u, r, i) \cup {p}, UNCHANGED args
    PROVE  Written(u, r, i)' = Written(u, r, i) + args[p].quantity
<1>1. PICK O : O = Over(u, r, i) OBVIOUS
<1>2. PICK P : P = O \cup {p} OBVIOUS
<1>3. PICK f : f = [q \in O |-> args[q].quantity] OBVIOUS
<1>4. PICK g : g = [q \in P |-> args[q].quantity] OBVIOUS
<1>5. Written(u, r, i)' = SumFunctionOnSet(g, P) BY <1>1, <1>2, <1>4 DEF Written
<1>6. Written(u, r, i) = SumFunctionOnSet(f, O) BY <1>1, <1>3 DEF Written
<1>7. IsFiniteSet(O) /\ IsFiniteSet(P) BY <1>1, <1>2, OverFinite, FS_AddElement
<1>8. SumFunctionOnSet(g, O) = SumFunctionOnSet(f, O)
  <2>1. \A q \in O : g[q] = f[q] BY <1>2, <1>3, <1>4
  <2> QED BY <1>7, <2>1, SumAgrees
<1>9. SumFunctionOnSet(g, P) = g[p] + SumFunctionOnSet(g, P \ {p})
  <2>1. \A q \in P : g[q] \in Nat BY <1>1, <1>2, <1>4, OverFinite, AdditionArgs
  <2>2. p \in P BY <1>2
  <2> QED BY <1>7, <2>1, <2>2, SumWithout
<1>10. P \ {p} = O BY <1>1, <1>2
<1>11. g[p] = args[p].quantity BY <1>2, <1>4
<1>12. Written(u, r, i) \in Nat /\ args[p].quantity \in Nat BY WrittenType, AdditionArgs
<1> QED BY <1>5, <1>6, <1>8, <1>9, <1>10, <1>11, <1>12

Adds(q, u, r, i) ==
    /\ args[q].op = "addToCart" /\ args[q].user = u
    /\ args[q].restaurantID = r /\ args[q].itemID = i

\* What a handler that goes on to step to writes.
Increment(q, to, u, r, i) ==
    IF to \in Ended /\ Adds(q, u, r, i) THEN args[q].quantity ELSE 0

LEMMA WrittenMoves ==
    ASSUME Inv, NEW q \in Requests, NEW to, pc[q] \in Running, pc' = [pc EXCEPT ![q] = to],
           UNCHANGED args
    PROVE  \A u, r, i : Written(u, r, i)' = Written(u, r, i) + Increment(q, to, u, r, i)
<1> SUFFICES ASSUME NEW u, NEW r, NEW i
             PROVE  Written(u, r, i)' = Written(u, r, i) + Increment(q, to, u, r, i)
  OBVIOUS
<1>1. pc'[q] = to /\ \A p \in Requests : p # q => pc'[p] = pc[p] BY DEF Inv, PagesOK
<1>2. pc[q] \notin Ended BY DEF Running, Ended
<1>3. q \notin Over(u, r, i) BY <1>2 DEF Over
<1>4. CASE to \in Ended /\ Adds(q, u, r, i)
  <2>1. Over(u, r, i)' = Over(u, r, i) \cup {q}
    BY <1>1, <1>4 DEF Over, Adds
  <2>2. Written(u, r, i)' = Written(u, r, i) + args[q].quantity
    BY <1>3, <1>4, <2>1, WrittenMore DEF Adds
  <2> QED BY <1>4, <2>2 DEF Increment
<1>5. CASE ~(to \in Ended /\ Adds(q, u, r, i))
  <2>1. Over(u, r, i)' = Over(u, r, i)
    BY <1>1, <1>2, <1>5 DEF Over, Adds
  <2>2. Written(u, r, i)' = Written(u, r, i) /\ Written(u, r, i) \in Nat
    BY <2>1, WrittenSame, WrittenType
  <2> QED BY <1>5, <2>2 DEF Increment
<1> QED BY <1>4, <1>5

LEMMA WrittenAtArrival ==
    ASSUME Inv, NEW q \in Requests, Arrives(q), NEW u, NEW r, NEW i
    PROVE  /\ Written(u, r, i)' = Written(u, r, i)
           /\ pc[q] = "idle" /\ UNCHANGED <<carts, held, orders, mails, failures>>
           /\ pc'[q] \in {"adding", "emptying", "fetching"}
           /\ args'[q] \in Additions \cup Plain
           /\ pc'[q] = "adding" <=> args'[q] \in Additions
           /\ \A p \in Requests : p # q => pc'[p] = pc[p] /\ args'[p] = args[p]
<1>1. PICK a, first : /\ Arrive(q, a, first)
                      /\ \/ first = "adding" /\ a \in Additions
                         \/ first \in {"emptying", "fetching"} /\ a \in Plain
  BY DEF Arrives
<1>2. /\ pc[q] = "idle" /\ pc' = [pc EXCEPT ![q] = first] /\ args' = [args EXCEPT ![q] = a]
      /\ UNCHANGED <<carts, held, orders, mails, failures>>
  BY <1>1 DEF Arrive, Goto, cartVars
<1>3. /\ pc'[q] = first /\ args'[q] = a
      /\ \A p \in Requests : p # q => pc'[p] = pc[p] /\ args'[p] = args[p]
  BY <1>2 DEF Inv, PagesOK
<1>4. first \notin Ended /\ "idle" \notin Ended BY <1>1 DEF Ended
<1>5. Over(u, r, i)' = Over(u, r, i) BY <1>2, <1>3, <1>4 DEF Over
<1>6. \A p \in Over(u, r, i) : args'[p] = args[p] BY <1>2, <1>3, <1>4 DEF Over
<1>7. Written(u, r, i)' = Written(u, r, i) BY <1>5, <1>6, WrittenSame
<1>8. pc'[q] = "adding" <=> args'[q] \in Additions
  BY <1>1, <1>3 DEF Additions, Plain
<1> QED BY <1>1, <1>2, <1>3, <1>7, <1>8

-----------------------------------------------------------------------------
(* Nothing is added twice.                                                  *)

HandsOn == {"copied", "fetched", "paying"}

\* The carts Redis has, the copies that are to be written or ordered and the carts ordered
\* hold no more than the additions that are over.
CartsWithinWritten ==
    \A r \in Restaurants, i \in Items :
      /\ \A u \in Users : InCart(CartOf(u), r, i) <= Written(u, r, i)
      /\ \A q \in Requests : pc[q] \in HandsOn /\ held[q] # NoCart =>
           InCart(held[q], r, i) <= Written(User(q), r, i)
      /\ \A o \in orders : InCart(o.cart, r, i) <= Written(User(o.request), r, i)

LEMMA UserOfRequest ==
    ASSUME Inv, NEW q \in Requests, pc[q] \in Running
    PROVE  args[q].user \in Users /\ User(q) = args[q].user
BY DEF Inv, PagesOK, HandlersReady, Additions, Plain, User

LEMMA CartOfUser ==
    ASSUME Inv, NEW u \in Users, NEW r, NEW i
    PROVE  /\ CartOf(u) \in Cart /\ WellFormed(CartOf(u)) /\ CartOf(u) # NoCart
           /\ InCart(CartOf(u), r, i) \in Nat
<1>1. CartOf(u) \in Cart /\ WellFormed(CartOf(u)) /\ CartOf(u) # NoCart
  BY EmptyCartWellFormed, NoCartAssumption DEF CartOf, Inv, CartsOK, CartTypeOK
<1> QED BY <1>1, InCartType

\* What keeps carts within what was written: the additions that are over only grow, and a
\* cart is kept, emptied, copied from what was within, or written within.
LEMMA KeptWithin ==
    ASSUME Inv, Inv', OrdersInPlace, CartsWithinWritten,
           \A u, r, i : Written(u, r, i)' \in Nat /\ Written(u, r, i) <= Written(u, r, i)',
           \A p \in Requests : pc[p] # "idle" => args'[p] = args[p],
           \A u \in Users :
             \/ carts'[u] = carts[u] \/ carts'[u] = EmptyCart
             \/ /\ carts'[u] # NoCart
                /\ \A r \in Restaurants, i \in Items :
                     InCart(carts'[u], r, i) <= Written(u, r, i)',
           \A p \in Requests : pc'[p] \in HandsOn =>
             /\ pc[p] \in Running
             /\ \/ pc[p] \in HandsOn /\ held'[p] = held[p]
                \/ held'[p] = EmptyCart \/ held'[p] = carts[User(p)],
           \A o \in orders' :
             \/ \E n \in orders : o.request = n.request /\ o.cart = n.cart
             \/ /\ o.request \in Requests /\ pc[o.request] = "paying"
                /\ o.cart = held[o.request]
    PROVE  CartsWithinWritten'
<1> SUFFICES ASSUME NEW r \in Restaurants, NEW i \in Items
             PROVE  /\ \A u \in Users : InCart(CartOf(u), r, i)' <= Written(u, r, i)'
                    /\ \A q \in Requests : pc'[q] \in HandsOn /\ held'[q] # NoCart =>
                         InCart(held[q], r, i)' <= Written(User(q), r, i)'
                    /\ \A o \in orders' : InCart(o.cart, r, i)' <= Written(User(o.request), r, i)'
  BY DEF CartsWithinWritten
<1>1. \A u : /\ Written(u, r, i) \in Nat /\ Written(u, r, i)' \in Nat
             /\ Written(u, r, i) <= Written(u, r, i)'
  BY WrittenType
<1>2. InCart(EmptyCart, r, i) = 0 BY NothingInEmptyCart
<1>3. \A c, s, j : InCart(c, s, j)' = InCart(c, s, j) BY DEF InCart
<1>4. ASSUME NEW u \in Users PROVE InCart(CartOf(u), r, i)' <= Written(u, r, i)'
  <2>1. InCart(CartOf(u), r, i) <= Written(u, r, i) BY DEF CartsWithinWritten
  <2>2. InCart(CartOf(u), r, i) \in Nat BY CartOfUser
  <2>3. CASE carts'[u] = carts[u]
    <3>1. CartOf(u)' = CartOf(u) BY <2>3 DEF CartOf
    <3> QED BY <1>1, <2>1, <2>2, <3>1
  <2>4. CASE carts'[u] = EmptyCart
    <3>1. CartOf(u)' = EmptyCart BY <2>4, EmptyCartWellFormed DEF CartOf
    <3> QED BY <1>1, <1>2, <3>1
  <2>5. CASE /\ carts'[u] # NoCart
             /\ \A s \in Restaurants, j \in Items :
                  InCart(carts'[u], s, j) <= Written(u, s, j)'
    <3>1. CartOf(u)' = carts'[u] BY <2>5 DEF CartOf
    <3> QED BY <2>5, <3>1
  <2> QED BY <2>3, <2>4, <2>5
<1>5. ASSUME NEW q \in Requests, pc'[q] \in HandsOn, held'[q] # NoCart
      PROVE  InCart(held[q], r, i)' <= Written(User(q), r, i)'
  <2>1. pc[q] \in Running BY <1>5
  <2>2. PICK u \in Users : u = User(q) /\ u = User(q)'
    <3>1. pc[q] # "idle" BY <2>1 DEF Running
    <3> QED BY <2>1, <3>1, UserOfRequest DEF User
  <2>3. PICK c : c = held'[q] OBVIOUS
  <2>4. InCart(c, r, i) \in Nat
    <3>1. c \in Cart /\ WellFormed(c) BY <1>5, <2>3 DEF Inv, CartsOK, CartTypeOK
    <3> QED BY <3>1, InCartType
  <2>5. InCart(c, r, i) <= Written(u, r, i)'
    <3>1. CASE pc[q] \in HandsOn /\ c = held[q]
      <4>1. InCart(c, r, i) <= Written(u, r, i)
        BY <1>5, <2>2, <2>3, <3>1 DEF CartsWithinWritten
      <4> QED BY <1>1, <2>4, <4>1
    <3>2. CASE c = EmptyCart BY <1>1, <1>2, <3>2
    <3>3. CASE c = carts[u]
      <4>1. c = CartOf(u) BY <1>5, <2>3, <3>3 DEF CartOf
      <4>2. InCart(c, r, i) <= Written(u, r, i) BY <4>1 DEF CartsWithinWritten
      <4> QED BY <1>1, <2>4, <4>2
    <3> QED BY <1>5, <2>2, <2>3, <3>1, <3>2, <3>3
  <2> QED BY <2>2, <2>3, <2>5
<1>6. ASSUME NEW o \in orders'
      PROVE  InCart(o.cart, r, i)' <= Written(User(o.request), r, i)'
  <2>1. o.request \in Requests /\ pc[o.request] # "idle"
    <3>1. CASE \E n \in orders : o.request = n.request /\ o.cart = n.cart
      <4>1. PICK n \in orders : o.request = n.request BY <3>1
      <4>2. n.request \in Requests BY OrderParts
      <4>3. pc[n.request] # "idle" BY DEF OrdersInPlace, Sequel
      <4> QED BY <4>1, <4>2, <4>3
    <3>2. CASE o.request \in Requests /\ pc[o.request] = "paying" BY <3>2
    <3> QED BY <1>6, <3>1, <3>2
  <2>2. PICK u : u = User(o.request) /\ u = User(o.request)' BY <2>1 DEF User
  <2>3. PICK c : c = o.cart OBVIOUS
  <2>4. InCart(c, r, i) \in Nat
    <3>1. c \in Cart /\ WellFormed(c) BY <1>6, <2>3 DEF Inv, OrdersOK, Order
    <3> QED BY <3>1, InCartType
  <2>5. InCart(c, r, i) <= Written(u, r, i)
    <3>1. CASE \E n \in orders : o.request = n.request /\ o.cart = n.cart
      <4>1. PICK n \in orders : o.request = n.request /\ o.cart = n.cart BY <3>1
      <4>2. InCart(n.cart, r, i) <= Written(User(n.request), r, i) BY DEF CartsWithinWritten
      <4>3. User(n.request) = u BY <2>2, <4>1 DEF User
      <4> QED BY <2>3, <4>1, <4>2, <4>3
    <3>2. CASE /\ o.request \in Requests /\ pc[o.request] = "paying"
               /\ o.cart = held[o.request]
      <4>1. held[o.request] # NoCart BY <3>2 DEF Inv, PagesOK, HandlersReady
      <4> QED BY <2>2, <2>3, <3>2, <4>1 DEF CartsWithinWritten, HandsOn
    <3> QED BY <1>6, <3>1, <3>2
  <2>6. InCart(c, r, i) <= Written(u, r, i)' BY <1>1, <2>4, <2>5
  <2>7. InCart(c, r, i)' = InCart(c, r, i) BY DEF InCart
  <2> QED BY <2>2, <2>3, <2>6, <2>7
<1> QED BY <1>4, <1>5, <1>6

LEMMA WrittenGrows ==
    ASSUME Inv, NEW q \in Requests, NEW to, pc[q] \in Running, pc' = [pc EXCEPT ![q] = to],
           UNCHANGED args
    PROVE  \A u, r, i : Written(u, r, i)' \in Nat /\ Written(u, r, i) <= Written(u, r, i)'
<1> SUFFICES ASSUME NEW u, NEW r, NEW i
             PROVE  Written(u, r, i)' \in Nat /\ Written(u, r, i) <= Written(u, r, i)'
  OBVIOUS
<1>1. PICK n : n = Increment(q, to, u, r, i) OBVIOUS
<1>2. n \in Nat
  <2>1. CASE Adds(q, u, r, i)
    <3>1. args[q].op = "addToCart" BY <2>1 DEF Adds
    <3>2. args[q].quantity \in Nat BY <3>1, AdditionArgs
    <3> QED BY <1>1, <3>2 DEF Increment
  <2>2. CASE ~Adds(q, u, r, i) BY <1>1, <2>2 DEF Increment
  <2> QED BY <2>1, <2>2
<1>3. Written(u, r, i)' = Written(u, r, i) + n BY <1>1, WrittenMoves
<1>4. Written(u, r, i) \in Nat BY WrittenType
<1> QED BY <1>2, <1>3, <1>4

\* The write of AddItem adds no more to what its handler read than what it was asked to.
LEMMA WriteWithin ==
    ASSUME Inv, CartsWithinWritten, NEW q \in Requests, NEW to \in Ended, pc[q] = "copied",
           NEW c, c = User(q),
           pc' = [pc EXCEPT ![q] = to], UNCHANGED args,
           AddItemWrite(q, args[q].user, args[q].restaurantID, args[q].itemID,
                        args[q].quantity)
    PROVE  /\ \A u \in Users : u # c => carts'[u] = carts[u]
           /\ carts'[c] # NoCart
           /\ \A s \in Restaurants, i \in Items :
                InCart(carts'[c], s, i) <= Written(c, s, i)'
<1>0. \A s, i : Written(c, s, i)' = Written(c, s, i) + Increment(q, to, c, s, i)
  <2>1. pc[q] \in Running BY DEF Running
  <2> QED BY <2>1, WrittenMoves
<1> DEFINE a == args[q]
           item == [itemID |-> a.itemID, quantity |-> a.quantity, price |-> a.restaurantID]
           new == WithItem(held[q], a.restaurantID, item)
           whole == IF held[q] = NoCart THEN EmptyCart ELSE held[q]
<1>1. a \in Additions BY DEF Inv, PagesOK, HandlersReady
<1>2. a.user \in Users /\ a.restaurantID \in Restaurants /\ item \in MenuItem
  <2>1. a.quantity \in Nat BY <1>1, CartAssumption DEF Additions
  <2> QED BY <1>1, <2>1 DEF Additions, MenuItem
<1>3. held[q] \in Cart \cup {NoCart} /\ (held[q] # NoCart => WellFormed(held[q]))
  BY DEF Inv, CartsOK, CartTypeOK
<1>4. item.price = a.restaurantID /\ item.itemID = a.itemID /\ item.quantity = a.quantity
  OBVIOUS
<1>5. carts' = [carts EXCEPT ![a.user] = new] BY DEF AddItemWrite
<1>6. c = a.user /\ c = User(q) /\ pc[q] \in Running BY DEF User, Running
<1>7. a.op = "addToCart" /\ a.quantity \in Nat BY <1>1, CartAssumption DEF Additions
<1>8. ASSUME NEW s \in Restaurants, NEW i \in Items
      PROVE  InCart(new, s, i) <= Written(c, s, i)'
  <2>1. Written(c, s, i)' =
          Written(c, s, i) + IF Adds(q, c, s, i) THEN a.quantity ELSE 0
    BY <1>0 DEF Increment
  <2>2. InCart(new, s, i) =
          IF s # a.restaurantID THEN 0
          ELSE InCart(whole, s, i) + (IF i = item.itemID THEN item.quantity ELSE 0)
    <3> HIDE DEF a, item
    <3> QED BY <1>2, <1>3, <1>4, AddedToCart
  <2>3. InCart(whole, s, i) \in Nat /\ InCart(whole, s, i) <= Written(c, s, i)
    <3>1. CASE held[q] = NoCart BY <3>1, NothingInEmptyCart, WrittenType
    <3>2. CASE held[q] # NoCart
      BY <1>3, <1>6, <3>2, InCartType DEF CartsWithinWritten, HandsOn
    <3> QED BY <3>1, <3>2
  <2>4. Adds(q, c, s, i) <=> s = a.restaurantID /\ i = a.itemID BY <1>6, <1>7 DEF Adds
  <2>5. Written(c, s, i) \in Nat BY WrittenType
  <2> HIDE DEF a, item, new, whole
  <2> QED BY <1>4, <1>7, <2>1, <2>2, <2>3, <2>4, <2>5
<1>9. new \in Cart
  <2> HIDE DEF a, item
  <2> QED BY <1>2, <1>3, <1>4, WithItemWellFormed
<1>10. carts'[c] = new /\ \A u \in Users : u # c => carts'[u] = carts[u]
  <2> HIDE DEF a, item, new
  <2> QED BY <1>2, <1>5, <1>6 DEF Inv, CartsOK, CartTypeOK
<1>11. new # NoCart
  <2> HIDE DEF a, item, new
  <2> QED BY <1>9, NoCartAssumption
<1> HIDE DEF a, item, new
<1> QED BY <1>8, <1>10, <1>11

\* How a handler's step may change its copy, the cart of its user and the orders.
CopyKept(q, to) ==
    /\ \A p \in Requests \ {q} : held'[p] = held[p]
    /\ to \in HandsOn =>
         \/ pc[q] \in HandsOn /\ held'[q] = held[q]
         \/ held'[q] = EmptyCart \/ held'[q] = carts[User(q)]

CartKept(q, to) ==
    \/ UNCHANGED carts
    \/ EmptyCartAsync(User(q))
    \/ /\ pc[q] = "copied" /\ to \in Ended
       /\ AddItemWrite(q, args[q].user, args[q].restaurantID, args[q].itemID,
                       args[q].quantity)

OrdersKept(q) ==
    \A o \in orders' :
      \/ \E n \in orders : o.request = n.request /\ o.cart = n.cart
      \/ o.request = q /\ pc[q] = "paying" /\ o.cart = held[q]

\* A handler's step.
LEMMA MoveWithin ==
    ASSUME Inv, Inv', OrdersInPlace, CartsWithinWritten, NEW q \in Requests, NEW to,
           pc[q] \in Running, pc' = [pc EXCEPT ![q] = to], UNCHANGED args,
           CopyKept(q, to), CartKept(q, to), OrdersKept(q)
    PROVE  CartsWithinWritten'
<1>1. \A u, r, i : Written(u, r, i)' \in Nat /\ Written(u, r, i) <= Written(u, r, i)'
  BY WrittenGrows
<1>2. pc'[q] = to /\ \A p \in Requests : p # q => pc'[p] = pc[p] BY DEF Inv, PagesOK
<1>3. ASSUME NEW u \in Users
      PROVE  \/ carts'[u] = carts[u] \/ carts'[u] = EmptyCart
             \/ /\ carts'[u] # NoCart
                /\ \A r \in Restaurants, i \in Items :
                     InCart(carts'[u], r, i) <= Written(u, r, i)'
  <2>1. CASE UNCHANGED carts BY <2>1
  <2>2. CASE EmptyCartAsync(User(q))
    BY <2>2 DEF EmptyCartAsync, Inv, CartsOK, CartTypeOK
  <2>3. CASE /\ pc[q] = "copied" /\ to \in Ended
             /\ AddItemWrite(q, args[q].user, args[q].restaurantID, args[q].itemID,
                             args[q].quantity)
    <3>1. PICK c : c = User(q) OBVIOUS
    <3>2. CASE u = c BY <2>3, <3>1, <3>2, WriteWithin
    <3>3. CASE u # c BY <2>3, <3>1, <3>3, WriteWithin
    <3> QED BY <3>2, <3>3
  <2> QED BY <2>1, <2>2, <2>3 DEF CartKept
<1>4. ASSUME NEW p \in Requests, pc'[p] \in HandsOn
      PROVE  /\ pc[p] \in Running
             /\ \/ pc[p] \in HandsOn /\ held'[p] = held[p]
                \/ held'[p] = EmptyCart \/ held'[p] = carts[User(p)]
  <2>1. CASE p = q BY <1>2, <1>4, <2>1 DEF CopyKept
  <2>2. CASE p # q BY <1>2, <1>4, <2>2 DEF HandsOn, Running, CopyKept
  <2> QED BY <2>1, <2>2
<1>5. \A p \in Requests : pc[p] # "idle" => args'[p] = args[p] OBVIOUS
<1> QED BY <1>1, <1>3, <1>4, <1>5, KeptWithin DEF OrdersKept

\* Each handler's step keeps the carts within what was written.
LEMMA HandlerWithin ==
    ASSUME Inv, Inv', OrdersInPlace, CartsWithinWritten, NEW q \in Requests, Handler(q)
    PROVE  CartsWithinWritten'
<1>0. UNCHANGED orders => OrdersKept(q) BY DEF OrdersKept
<1>1. CASE ReadForItem(q)
  <2>1. /\ pc[q] \in Running /\ pc' = [pc EXCEPT ![q] = "copied"]
        /\ held' = [held EXCEPT ![q] = carts[User(q)]] /\ UNCHANGED <<carts, args, orders>>
    BY <1>1 DEF ReadForItem, AddItemRead, Goto, handlerVars, Running
  <2>2. CopyKept(q, "copied") BY <2>1 DEF Inv, CartsOK, CartTypeOK, CopyKept
  <2>3. CartKept(q, "copied") BY <2>1 DEF CartKept
  <2> QED BY <1>0, <2>1, <2>2, <2>3, MoveWithin
<1>2. CASE WriteItem(q)
  <2>1. /\ pc[q] = "copied" /\ pc' = [pc EXCEPT ![q] = "done"] /\ UNCHANGED <<args, orders>>
        /\ AddItemWrite(q, args[q].user, args[q].restaurantID, args[q].itemID,
                        args[q].quantity)
    BY <1>2 DEF WriteItem, Goto, handlerVars
  <2>2. CopyKept(q, "done") BY <2>1 DEF AddItemWrite, CopyKept, HandsOn
  <2>3. CartKept(q, "done") BY <2>1 DEF CartKept, Ended
  <2>4. pc[q] \in Running BY <2>1 DEF Running
  <2> QED BY <1>0, <2>1, <2>2, <2>3, <2>4, MoveWithin
<1>3. CASE CartCallFails(q)
  <2>1. /\ pc[q] \in Running /\ pc' = [pc EXCEPT ![q] = "failed"]
        /\ UNCHANGED <<args, held, orders>>
    BY <1>3 DEF CartCallFails, handlerVars, cartVars, AddItemWrite, EmptyCartAsync, Running
  <2>2. CopyKept(q, "failed") BY <2>1 DEF CopyKept, HandsOn
  <2>3. CartKept(q, "failed") BY <1>3 DEF CartCallFails, cartVars, CartKept, Ended
  <2> QED BY <1>0, <2>1, <2>2, <2>3, MoveWithin
<1>4. CASE ClearCart(q)
  <2>1. /\ pc[q] \in Running /\ pc' = [pc EXCEPT ![q] = "done"]
        /\ UNCHANGED <<args, held, orders>> /\ EmptyCartAsync(User(q))
    BY <1>4 DEF ClearCart, EmptyCartAsync, Goto, handlerVars, Running
  <2>2. CopyKept(q, "done") BY <2>1 DEF CopyKept, HandsOn
  <2>3. CartKept(q, "done") BY <2>1 DEF CartKept
  <2> QED BY <1>0, <2>1, <2>2, <2>3, MoveWithin
<1>5. CASE GetOrder(q)
  <2>1. PICK cart : /\ held' = [held EXCEPT ![q] = cart]
                    /\ cart = EmptyCart \/ cart = carts[User(q)]
    BY <1>5 DEF GetOrder, GetCartAsync
  <2>2. /\ pc[q] \in Running /\ pc' = [pc EXCEPT ![q] = "fetched"]
        /\ UNCHANGED <<carts, args, orders>>
    BY <1>5 DEF GetOrder, GetCartAsync, Goto, handlerVars, Running
  <2>3. CopyKept(q, "fetched") BY <2>1 DEF Inv, CartsOK, CartTypeOK, CopyKept
  <2>4. CartKept(q, "fetched") BY <2>2 DEF CartKept
  <2> QED BY <1>0, <2>2, <2>3, <2>4, MoveWithin
<1>6. CASE GetUser(q)
  <2>1. PICK to \in {"paying", "failed"} : pc[q] = "fetched" /\ pc' = [pc EXCEPT ![q] = to]
    BY <1>6 DEF GetUser, Goto
  <2>2. UNCHANGED <<carts, held, args, orders>> BY <1>6 DEF GetUser, handlerVars, cartVars
  <2>3. pc[q] \in Running BY <2>1 DEF Running
  <2>4. CopyKept(q, to) BY <2>1, <2>2 DEF CopyKept, HandsOn
  <2>5. CartKept(q, to) BY <2>2 DEF CartKept
  <2> QED BY <1>0, <2>1, <2>2, <2>3, <2>4, <2>5, MoveWithin
<1>7. CASE ExecuteCheckout(q)
  <2>1. /\ pc[q] = "paying" /\ pc' = [pc EXCEPT ![q] = "waiting"]
        /\ UNCHANGED <<carts, held, args>>
        /\ orders' = orders \cup {[request |-> q, cart |-> held[q], outcome |-> "open"]}
    BY <1>7 DEF ExecuteCheckout, Goto, cartVars
  <2>2. pc[q] \in Running BY <2>1 DEF Running
  <2>3. CopyKept(q, "waiting") BY <2>1 DEF CopyKept, HandsOn
  <2>4. CartKept(q, "waiting") BY <2>1 DEF CartKept
  <2>5. OrdersKept(q) BY <2>1 DEF OrdersKept
  <2> QED BY <2>1, <2>2, <2>3, <2>4, <2>5, MoveWithin
<1>8. CASE CheckoutAnswered(q)
  <2>1. PICK o \in orders, outcome \in {"approved", "rejected", "error"} :
          /\ orders' = (orders \ {o}) \cup {[o EXCEPT !.outcome = outcome]}
          /\ Goto(q, "waiting", IF outcome = "approved" THEN "approved" ELSE "done")
          /\ UNCHANGED <<cartVars, args>>
    BY <1>8 DEF CheckoutAnswered
  <2>2. PICK to : to = IF outcome = "approved" THEN "approved" ELSE "done" OBVIOUS
  <2>3. /\ pc[q] \in Running /\ pc' = [pc EXCEPT ![q] = to] /\ UNCHANGED <<args, carts, held>>
    BY <2>1, <2>2 DEF Goto, cartVars, Running
  <2>4. OrdersKept(q)
    <3>1. PICK r : r = [o EXCEPT !.outcome = outcome] OBVIOUS
    <3>2. r.request = o.request /\ r.cart = o.cart BY <3>1, OrderParts
    <3> QED BY <2>1, <3>1, <3>2 DEF OrdersKept
  <2>5. CopyKept(q, to) BY <2>2, <2>3 DEF CopyKept, HandsOn
  <2>6. CartKept(q, to) BY <2>3 DEF CartKept
  <2> QED BY <2>3, <2>4, <2>5, <2>6, MoveWithin
<1>9. CASE EmptyPaidCart(q)
  <2>1. /\ pc[q] \in Running /\ pc' = [pc EXCEPT ![q] = "mailing"]
        /\ UNCHANGED <<held, args, orders>>
    BY <1>9 DEF EmptyPaidCart, EmptyCartAsync, Goto, handlerVars, cartVars, Running
  <2>2. CopyKept(q, "mailing") BY <2>1 DEF CopyKept, HandsOn
  <2>3. CartKept(q, "mailing") BY <1>9 DEF EmptyPaidCart, cartVars, CartKept
  <2> QED BY <1>0, <2>1, <2>2, <2>3, MoveWithin
<1>10. CASE SendMail(q)
  <2>1. /\ pc[q] \in Running /\ pc' = [pc EXCEPT ![q] = "done"]
        /\ UNCHANGED <<carts, held, args, orders>>
    BY <1>10 DEF SendMail, Goto, cartVars, Running
  <2>2. CopyKept(q, "done") BY <2>1 DEF CopyKept, HandsOn
  <2>3. CartKept(q, "done") BY <2>1 DEF CartKept
  <2> QED BY <1>0, <2>1, <2>2, <2>3, MoveWithin
<1> QED
  BY <1>1, <1>2, <1>3, <1>4, <1>5, <1>6, <1>7, <1>8, <1>9, <1>10 DEF Handler

LEMMA ArrivalWithin ==
    ASSUME Inv, Inv', OrdersInPlace, CartsWithinWritten, NEW q \in Requests, Arrives(q)
    PROVE  CartsWithinWritten'
<1>1. /\ pc[q] = "idle" /\ UNCHANGED <<carts, held, orders>>
      /\ pc'[q] \in {"adding", "emptying", "fetching"}
      /\ \A p \in Requests : p # q => pc'[p] = pc[p] /\ args'[p] = args[p]
  BY WrittenAtArrival
<1>2. \A u, r, i : Written(u, r, i)' \in Nat /\ Written(u, r, i) <= Written(u, r, i)'
  BY WrittenAtArrival, WrittenType
<1>3. \A p \in Requests : pc[p] # "idle" => args'[p] = args[p] BY <1>1
<1>4. \A p \in Requests : pc'[p] \in HandsOn =>
        pc[p] \in Running /\ pc[p] \in HandsOn /\ held'[p] = held[p]
  BY <1>1 DEF HandsOn, Running
<1> QED BY <1>1, <1>2, <1>3, <1>4, KeptWithin

LEMMA InitWithin == Init => CartsWithinWritten
<1> SUFFICES ASSUME Init PROVE CartsWithinWritten OBVIOUS
<1>1. Inv BY InitInv
<1>2. \A u \in Users : CartOf(u) = EmptyCart BY DEF Init, CartInit, CartOf
<1>3. \A u, r, i : Written(u, r, i) \in Nat BY <1>1, WrittenType
<1> QED BY <1>2, <1>3, NothingInEmptyCart DEF Init, CartInit, CartsWithinWritten, HandsOn

LEMMA StutterWithin ==
    ASSUME Inv, CartsWithinWritten, UNCHANGED vars
    PROVE  CartsWithinWritten'
<1>1. UNCHANGED <<carts, held, pc, args, orders>> BY DEF vars, cartVars
<1>2. ASSUME NEW u, NEW r, NEW i PROVE Written(u, r, i)' = Written(u, r, i)
  <2>1. Over(u, r, i)' = Over(u, r, i) BY <1>1 DEF Over
  <2> QED BY <1>1, <2>1, WrittenSame
<1>3. \A u \in Users : CartOf(u)' = CartOf(u) BY <1>1 DEF CartOf
<1>4. \A q \in Requests : User(q)' = User(q) BY <1>1 DEF User
<1>5. \A o \in orders : User(o.request)' = User(o.request) BY <1>1 DEF User
<1> SUFFICES ASSUME NEW r \in Restaurants, NEW i \in Items
             PROVE  /\ \A u \in Users : InCart(CartOf(u), r, i)' <= Written(u, r, i)'
                    /\ \A q \in Requests : pc'[q] \in HandsOn /\ held'[q] # NoCart =>
                         InCart(held[q], r, i)' <= Written(User(q), r, i)'
                    /\ \A o \in orders' : InCart(o.cart, r, i)' <= Written(User(o.request), r, i)'
  BY DEF CartsWithinWritten
<1>6. ASSUME NEW u \in Users PROVE InCart(CartOf(u), r, i)' <= Written(u, r, i)'
  <2>1. InCart(CartOf(u), r, i)' = InCart(CartOf(u), r, i) BY <1>1, <1>3 DEF InCart
  <2> QED BY <1>2, <2>1 DEF CartsWithinWritten
<1>7. ASSUME NEW q \in Requests, pc'[q] \in HandsOn, held'[q] # NoCart
      PROVE  InCart(held[q], r, i)' <= Written(User(q), r, i)'
  <2>1. PICK u : u = User(q) /\ u = User(q)' BY <1>4
  <2>2. InCart(held[q], r, i)' = InCart(held[q], r, i) BY <1>1 DEF InCart
  <2>3. InCart(held[q], r, i) <= Written(u, r, i) BY <1>1, <1>7, <2>1 DEF CartsWithinWritten
  <2> QED BY <1>2, <2>1, <2>2, <2>3
<1>8. ASSUME NEW o \in orders' PROVE InCart(o.cart, r, i)' <= Written(User(o.request), r, i)'
  <2>1. PICK u : u = User(o.request) /\ u = User(o.request)' BY <1>1, <1>5
  <2>2. InCart(o.cart, r, i)' = InCart(o.cart, r, i) BY DEF InCart
  <2>3. InCart(o.cart, r, i) <= Written(u, r, i) BY <1>1, <2>1 DEF CartsWithinWritten
  <2> QED BY <1>2, <2>1, <2>2, <2>3
<1> QED BY <1>6, <1>7, <1>8

LEMMA NextWithin ==
    Inv /\ OrdersInPlace /\ CartsWithinWritten /\ [Next]_vars => CartsWithinWritten'
<1> SUFFICES ASSUME Inv, OrdersInPlace, CartsWithinWritten, [Next]_vars
             PROVE  CartsWithinWritten'
  OBVIOUS
<1>1. Inv' BY NextInv
<1>2. CASE UNCHANGED vars BY <1>2, StutterWithin
<1>3. CASE Next
  <2>1. PICK q \in Requests :
          Arrives(q) \/ Quiet(q) \/ ExecuteCheckout(q) \/ CheckoutAnswered(q) \/ SendMail(q)
    BY <1>3, StorefrontCases
  <2>2. CASE Arrives(q) BY <1>1, <2>2, ArrivalWithin
  <2>3. CASE ~Arrives(q)
    <3>1. Handler(q) BY <2>1, <2>3 DEF Quiet, Handler
    <3> QED BY <1>1, <3>1, HandlerWithin
  <2> QED BY <2>2, <2>3
<1> QED BY <1>2, <1>3

LEMMA WithinIsOnce == Inv /\ CartsWithinWritten => NothingIsAddedTwice
<1> SUFFICES ASSUME Inv, CartsWithinWritten, NEW r \in Restaurants, NEW i \in Items
             PROVE  /\ \A u \in Users : InCart(CartOf(u), r, i) <= Added(u, r, i)
                    /\ \A o \in orders : InCart(o.cart, r, i) <= Added(User(o.request), r, i)
  BY DEF NothingIsAddedTwice
<1>1. \A u : /\ Written(u, r, i) \in Nat /\ Added(u, r, i) \in Nat
             /\ Written(u, r, i) <= Added(u, r, i)
  BY WrittenType, WrittenWithinAdded
<1>2. ASSUME NEW u \in Users PROVE InCart(CartOf(u), r, i) <= Added(u, r, i)
  <2>1. InCart(CartOf(u), r, i) \in Nat BY CartOfUser
  <2> QED BY <1>1, <2>1 DEF CartsWithinWritten
<1>3. ASSUME NEW o \in orders PROVE InCart(o.cart, r, i) <= Added(User(o.request), r, i)
  <2>1. InCart(o.cart, r, i) \in Nat BY OrderParts, InCartType
  <2> QED BY <1>1, <2>1 DEF CartsWithinWritten
<1> QED BY <1>2, <1>3

LEMMA AlwaysWithin == Spec => []CartsWithinWritten
<1> QED BY Invariant, AlwaysOrders, InitWithin, NextWithin, PTL DEF Spec

\* No addition is counted twice: however the additions, the emptyings and the checkouts of
\* a user overlap, and whatever calls fail, a cart and an order hold no more of a product
\* than its user has added.
THEOREM AdditionsCountOnce == Spec => []NothingIsAddedTwice
<1> QED BY Invariant, AlwaysWithin, WithinIsOnce, PTL

-----------------------------------------------------------------------------
(* One request at a time.                                                   *)

OfUser(u) == {q \in Requests : pc[q] # "idle" /\ args[q].user = u}

OneActive(u) == \A p, q \in Active(u) : p = q

\* The copy a request works on is the cart as it still is, and so is the cart it ordered.
InHand(u) ==
    \A q \in Active(u) :
      /\ pc[q] = "copied" => held[q] = carts[u]
      /\ pc[q] \in {"fetched", "paying"} => held[q] = CartOf(u)
      /\ pc[q] = "waiting" => \A o \in orders : o.request = q => o.cart = CartOf(u)

\* A user who has only added products of one restaurant has all of them in the cart that
\* were written.
HasWritten(u) ==
    \A r \in Restaurants :
      (\A q \in OfUser(u) : args[q].op = "addToCart" /\ args[q].restaurantID = r)
        => \A i \in Items : InCart(CartOf(u), r, i) = Written(u, r, i)

\* What was bought and what is in the cart make no more than what was written; a cart that
\* is ordered and not emptied yet counts once.
BoughtOrHas(u) ==
    \A r \in Restaurants, i \in Items :
      Bought(u, r, i) + (IF \E q \in Active(u) : pc[q] = "approved" THEN 0
                         ELSE InCart(CartOf(u), r, i)) <= Written(u, r, i)

TabOf(u) == OneActive(u) /\ InHand(u) /\ HasWritten(u) /\ BoughtOrHas(u)

OneTabInPlace == \A u \in Users : OneAtATime(u) => TabOf(u)

ApprovedOf(u) == {o \in orders : o.outcome = "approved" /\ User(o.request) = u}

LEMMA BoughtIsSum ==
    ASSUME NEW u, NEW r, NEW i
    PROVE  Bought(u, r, i) =
             SumFunctionOnSet([o \in ApprovedOf(u) |-> InCart(o.cart, r, i)], ApprovedOf(u))
BY DEF Bought, SumFunction, ApprovedOf

LEMMA ApprovedParts ==
    ASSUME Inv, OrdersInPlace, NEW u, NEW r, NEW i
    PROVE  /\ IsFiniteSet(ApprovedOf(u))
           /\ \A o \in ApprovedOf(u) : InCart(o.cart, r, i) \in Nat
<1>1. IsFiniteSet(ApprovedOf(u)) BY FS_Subset DEF ApprovedOf, OrdersInPlace
<1>2. ASSUME NEW o \in ApprovedOf(u) PROVE InCart(o.cart, r, i) \in Nat
  BY OrderParts, InCartType DEF ApprovedOf
<1> QED BY <1>1, <1>2

LEMMA BoughtType ==
    ASSUME Inv, OrdersInPlace, NEW u, NEW r, NEW i
    PROVE  Bought(u, r, i) \in Nat
<1>1. PICK A : A = ApprovedOf(u) OBVIOUS
<1>2. PICK f : f = [o \in A |-> InCart(o.cart, r, i)] OBVIOUS
<1>3. IsFiniteSet(A) /\ \A o \in A : f[o] \in Nat BY <1>1, <1>2, ApprovedParts
<1>4. SumFunctionOnSet(f, A) \in Nat BY <1>3, SumType
<1> QED BY <1>1, <1>2, <1>4, BoughtIsSum

LEMMA BoughtSame ==
    ASSUME NEW u, NEW r, NEW i, ApprovedOf(u)' = ApprovedOf(u)
    PROVE  Bought(u, r, i)' = Bought(u, r, i)
<1>1. PICK A : A = ApprovedOf(u) OBVIOUS
<1>2. PICK f : f = [o \in A |-> InCart(o.cart, r, i)] OBVIOUS
<1>3. Bought(u, r, i) = SumFunctionOnSet(f, A) BY <1>1, <1>2, BoughtIsSum
<1>4. Bought(u, r, i)' = SumFunctionOnSet(f, A)
  BY <1>1, <1>2 DEF Bought, SumFunction, ApprovedOf, InCart
<1> QED BY <1>3, <1>4

LEMMA BoughtMore ==
    ASSUME Inv, OrdersInPlace, NEW u, NEW r, NEW i, NEW p, p \notin ApprovedOf(u),
           ApprovedOf(u)' = ApprovedOf(u) \cup {p}, InCart(p.cart, r, i) \in Nat
    PROVE  Bought(u, r, i)' = Bought(u, r, i) + InCart(p.cart, r, i)
<1>1. PICK A : A = ApprovedOf(u) OBVIOUS
<1>2. PICK B : B = A \cup {p} OBVIOUS
<1>3. PICK f : f = [o \in A |-> InCart(o.cart, r, i)] OBVIOUS
<1>4. PICK g : g = [o \in B |-> InCart(o.cart, r, i)] OBVIOUS
<1>5. Bought(u, r, i) = SumFunctionOnSet(f, A) BY <1>1, <1>3, BoughtIsSum
<1>6. Bought(u, r, i)' = SumFunctionOnSet(g, B)
  <2>1. B = ApprovedOf(u)' BY <1>1, <1>2
  <2> QED BY <1>4, <2>1 DEF Bought, SumFunction, ApprovedOf, InCart
<1>7. IsFiniteSet(A) /\ IsFiniteSet(B) /\ \A o \in B : g[o] \in Nat
  BY <1>1, <1>2, <1>4, ApprovedParts, FS_AddElement
<1>8. SumFunctionOnSet(g, A) = SumFunctionOnSet(f, A)
  <2>1. \A o \in A : g[o] = f[o] BY <1>2, <1>3, <1>4
  <2> QED BY <1>7, <2>1, SumAgrees
<1>9. SumFunctionOnSet(g, B) = g[p] + SumFunctionOnSet(g, B \ {p})
  <2>1. p \in B BY <1>2
  <2> QED BY <1>7, <2>1, SumWithout
<1>10. B \ {p} = A /\ g[p] = InCart(p.cart, r, i) BY <1>1, <1>2, <1>4
<1>11. PICK n : n = InCart(p.cart, r, i) OBVIOUS
<1>12. PICK m : m = Bought(u, r, i) OBVIOUS
<1>13. Bought(u, r, i)' = n + m BY <1>5, <1>6, <1>8, <1>9, <1>10, <1>11, <1>12
<1>14. n \in Nat /\ m \in Nat BY <1>11, <1>12, BoughtType
<1> QED BY <1>11, <1>12, <1>13, <1>14

\* A handler goes on.
Moves(q, to) == pc[q] \in Running /\ pc' = [pc EXCEPT ![q] = to] /\ UNCHANGED args

\* What a handler's step leaves alone: the copies and the orders of other requests, and the
\* carts of other users.
LEMMA HandlerFrame ==
    ASSUME Inv, NEW q \in Requests, Handler(q)
    PROVE  \E to \in Running \cup Ended :
             /\ Moves(q, to)
             /\ \A p \in Requests \ {q} : held'[p] = held[p]
             /\ \A v \in Users : v # User(q) => carts'[v] = carts[v]
             /\ \A o : o.request # q => (o \in orders' <=> o \in orders)
<1>0. /\ AddItemRead(q, User(q)) \/ GetCartAsync(q, User(q))
           \/ held' = [held EXCEPT ![q] = EmptyCart]
         => \A p \in Requests \ {q} : held'[p] = held[p]
      /\ \A c : carts' = [carts EXCEPT ![User(q)] = c]
                  => \A v \in Users : v # User(q) => carts'[v] = carts[v]
  BY DEF AddItemRead, GetCartAsync, Inv, CartsOK, CartTypeOK
<1>1. CASE ReadForItem(q)
  BY <1>0, <1>1 DEF Moves, ReadForItem, AddItemRead, Goto, handlerVars, Running
<1>2. CASE WriteItem(q)
  BY <1>0, <1>2 DEF Moves, WriteItem, AddItemWrite, Goto, handlerVars, Running, Ended, User
<1>3. CASE CartCallFails(q)
  BY <1>0, <1>3
     DEF Moves, CartCallFails, AddItemWrite, EmptyCartAsync, handlerVars, cartVars, Running,
         Ended, User
<1>4. CASE ClearCart(q)
  BY <1>0, <1>4 DEF Moves, ClearCart, EmptyCartAsync, Goto, handlerVars, Running, Ended
<1>5. CASE GetOrder(q)
  <2>1. /\ pc[q] \in Running /\ pc' = [pc EXCEPT ![q] = "fetched"]
        /\ UNCHANGED <<carts, args, orders>>
    BY <1>5 DEF GetOrder, GetCartAsync, Goto, handlerVars, Running
  <2>2. \A p \in Requests \ {q} : held'[p] = held[p] BY <1>0, <1>5 DEF GetOrder
  <2>3. "fetched" \in Running \cup Ended BY DEF Running
  <2> QED BY <2>1, <2>2, <2>3 DEF Moves
<1>6. CASE GetUser(q)
  BY <1>6 DEF Moves, GetUser, Goto, handlerVars, cartVars, Running, Ended
<1>7. CASE ExecuteCheckout(q)
  <2>1. PICK n : n = [request |-> q, cart |-> held[q], outcome |-> "open"] OBVIOUS
  <2>2. /\ pc[q] \in Running /\ pc' = [pc EXCEPT ![q] = "waiting"]
        /\ orders' = orders \cup {n} /\ UNCHANGED <<carts, held, args>>
    BY <1>7, <2>1 DEF ExecuteCheckout, Goto, cartVars, Running
  <2>3. n.request = q BY <2>1
  <2>4. \A o : o.request # q => (o \in orders' <=> o \in orders) BY <2>2, <2>3
  <2>5. "waiting" \in Running \cup Ended BY DEF Running
  <2> QED BY <2>2, <2>4, <2>5 DEF Moves
<1>8. CASE CheckoutAnswered(q)
  <2>1. PICK o \in orders, outcome \in {"approved", "rejected", "error"} :
          /\ o.request = q
          /\ orders' = (orders \ {o}) \cup {[o EXCEPT !.outcome = outcome]}
          /\ Goto(q, "waiting", IF outcome = "approved" THEN "approved" ELSE "done")
          /\ UNCHANGED <<cartVars, args>>
    BY <1>8 DEF CheckoutAnswered
  <2>2. PICK to : to = IF outcome = "approved" THEN "approved" ELSE "done" OBVIOUS
  <2>3. /\ to \in Running \cup Ended /\ pc[q] \in Running /\ pc' = [pc EXCEPT ![q] = to]
        /\ UNCHANGED <<args, carts, held>>
    BY <2>1, <2>2 DEF Goto, cartVars, Running, Ended
  <2>4. \A p : p.request # q => (p \in orders' <=> p \in orders)
    <3>1. PICK r : r = [o EXCEPT !.outcome = outcome] OBVIOUS
    <3>2. r.request = q BY <2>1, <3>1, OrderParts
    <3> QED BY <2>1, <3>1, <3>2
  <2> QED BY <2>3, <2>4 DEF Moves
<1>9. CASE EmptyPaidCart(q)
  BY <1>0, <1>9 DEF Moves, EmptyPaidCart, EmptyCartAsync, Goto, handlerVars, cartVars, Running
<1>10. CASE SendMail(q)
  BY <1>10 DEF Moves, SendMail, Goto, cartVars, Running, Ended
<1> QED
  BY <1>1, <1>2, <1>3, <1>4, <1>5, <1>6, <1>7, <1>8, <1>9, <1>10 DEF Handler

\* The requests of the users, as a handler goes on.
LEMMA ActiveMoves ==
    ASSUME Inv, NEW q \in Requests, NEW to \in Running \cup Ended, Moves(q, to), NEW u
    PROVE  /\ OfUser(u)' = OfUser(u)
           /\ \A p : p \in Active(u)' <=> p \in Active(u) /\ (p # q \/ to \in Running)
           /\ pc'[q] = to /\ \A p \in Requests : p # q => pc'[p] = pc[p]
           /\ q \in Active(User(q)) /\ User(q)' = User(q)
           /\ \A r, i : Written(u, r, i)' =
                Written(u, r, i) + IF to \in Ended /\ Adds(q, u, r, i) THEN args[q].quantity ELSE 0
           /\ ApprovedOf(u)' = {o \in orders' : o.outcome = "approved" /\ User(o.request) = u}
<1> USE DEF Moves
<1>1. pc'[q] = to /\ \A p \in Requests : p # q => pc'[p] = pc[p] BY DEF Inv, PagesOK
<1>2. pc[q] # "idle" /\ to # "idle" BY DEF Running, Ended
<1>3. OfUser(u)' = OfUser(u) BY <1>1, <1>2 DEF OfUser
<1>4. \A p : p \in Active(u)' <=> p \in Active(u) /\ (p # q \/ to \in Running)
  BY <1>1 DEF Active
<1>5. q \in Active(User(q)) /\ User(q)' = User(q) BY DEF Active, User
<1>6. ApprovedOf(u)' = {o \in orders' : o.outcome = "approved" /\ User(o.request) = u}
  BY DEF ApprovedOf, User
<1>7. \A r, i : Written(u, r, i)' = Written(u, r, i) + Increment(q, to, u, r, i)
  BY WrittenMoves
<1>8. \A r, i : Written(u, r, i)' =
        Written(u, r, i) + IF to \in Ended /\ Adds(q, u, r, i) THEN args[q].quantity ELSE 0
  BY <1>7 DEF Increment
<1> QED BY <1>1, <1>3, <1>4, <1>5, <1>6, <1>8

\* A step of another user's request.
LEMMA OthersKeep ==
    ASSUME Inv, OrdersInPlace, NEW u \in Users, TabOf(u), NEW q \in Requests, Handler(q),
           User(q) # u
    PROVE  TabOf(u)'
<1> PICK to \in Running \cup Ended :
      /\ Moves(q, to)
      /\ \A p \in Requests \ {q} : held'[p] = held[p]
      /\ \A v \in Users : v # User(q) => carts'[v] = carts[v]
      /\ \A o : o.request # q => (o \in orders' <=> o \in orders)
  BY HandlerFrame
<1>1. /\ OfUser(u)' = OfUser(u)
      /\ \A p : p \in Active(u)' <=> p \in Active(u) /\ (p # q \/ to \in Running)
      /\ pc'[q] = to /\ \A p \in Requests : p # q => pc'[p] = pc[p]
      /\ ApprovedOf(u)' = {o \in orders' : o.outcome = "approved" /\ User(o.request) = u}
  BY ActiveMoves
<1>2. \A p \in Active(u) : p \in Requests /\ p # q BY DEF Active, User
<1>3. Active(u)' = Active(u) BY <1>1, <1>2
<1>4. carts'[u] = carts[u] /\ CartOf(u)' = CartOf(u) BY DEF CartOf
<1>5. ApprovedOf(u)' = ApprovedOf(u)
  <2>1. \A o : User(o.request) = u => o.request # q OBVIOUS
  <2> QED BY <1>1, <2>1 DEF ApprovedOf
<1>6. ASSUME NEW r, NEW i
      PROVE  /\ Bought(u, r, i)' = Bought(u, r, i) /\ Written(u, r, i)' = Written(u, r, i)
             /\ InCart(CartOf(u), r, i)' = InCart(CartOf(u), r, i)
  <2>1. Bought(u, r, i)' = Bought(u, r, i) BY <1>5, BoughtSame
  <2>2. PICK n : n = IF to \in Ended /\ Adds(q, u, r, i) THEN args[q].quantity ELSE 0 OBVIOUS
  <2>3. Written(u, r, i)' = Written(u, r, i) + n BY <2>2, ActiveMoves
  <2>4. n = 0 BY <2>2 DEF Adds, User
  <2>5. Written(u, r, i) \in Nat BY WrittenType
  <2>6. InCart(CartOf(u), r, i)' = InCart(CartOf(u), r, i) BY <1>4 DEF InCart
  <2> QED BY <2>1, <2>3, <2>4, <2>5, <2>6
<1>7. OneActive(u)' BY <1>3 DEF TabOf, OneActive
<1>8. InHand(u)'
  <2> SUFFICES ASSUME NEW p \in Active(u)
               PROVE  /\ pc'[p] = "copied" => held'[p] = carts'[u]
                      /\ pc'[p] \in {"fetched", "paying"} => held'[p] = CartOf(u)'
                      /\ pc'[p] = "waiting" =>
                           \A o \in orders' : o.request = p => o.cart = CartOf(u)'
    BY <1>3 DEF InHand
  <2>1. p \in Requests /\ p # q /\ pc'[p] = pc[p] /\ held'[p] = held[p] BY <1>1, <1>2
  <2>2. \A o : o.request = p => (o \in orders' <=> o \in orders) BY <2>1
  <2>3. held[p] = held'[p] /\ args' = args BY <2>1 DEF Moves
  <2> QED BY <1>4, <2>1, <2>2, <2>3 DEF TabOf, InHand
<1>9. HasWritten(u)'
  <2> SUFFICES ASSUME NEW r \in Restaurants,
                      \A p \in OfUser(u) : args[p].op = "addToCart" /\ args[p].restaurantID = r,
                      NEW i \in Items
               PROVE  InCart(CartOf(u), r, i)' = Written(u, r, i)'
    BY <1>1 DEF HasWritten, Moves
  <2>1. InCart(CartOf(u), r, i) = Written(u, r, i) BY DEF TabOf, HasWritten
  <2> QED BY <1>6, <2>1
<1>10. BoughtOrHas(u)'
  <2>1. (\E p \in Active(u)' : pc'[p] = "approved") <=> \E p \in Active(u) : pc[p] = "approved"
    BY <1>1, <1>2, <1>3
  <2> SUFFICES ASSUME NEW r \in Restaurants, NEW i \in Items
               PROVE  Bought(u, r, i)' + (IF \E p \in Active(u)' : pc'[p] = "approved" THEN 0
                                          ELSE InCart(CartOf(u), r, i)') <= Written(u, r, i)'
    BY DEF BoughtOrHas
  <2>2. Bought(u, r, i) + (IF \E p \in Active(u) : pc[p] = "approved" THEN 0
                           ELSE InCart(CartOf(u), r, i)) <= Written(u, r, i)
    BY DEF TabOf, BoughtOrHas
  <2> QED BY <1>6, <2>1, <2>2
<1> QED BY <1>7, <1>8, <1>9, <1>10 DEF TabOf

\* What a user's own request relies on and has to keep, when it is the only one.
HandKept(q, to, u) ==
    /\ to = "copied" => held'[q] = carts'[u]
    /\ to \in {"fetched", "paying"} => held'[q] = CartOf(u)'
    /\ to = "waiting" => \A o \in orders' : o.request = q => o.cart = CartOf(u)'

LEMMA OwnHand ==
    ASSUME Inv, NEW u \in Users, TabOf(u), NEW q \in Requests, NEW to \in Running \cup Ended,
           Moves(q, to), User(q) = u, HandKept(q, to, u)
    PROVE  OneActive(u)' /\ InHand(u)'
<1>1. /\ \A p : p \in Active(u)' <=> p \in Active(u) /\ (p # q \/ to \in Running)
      /\ pc'[q] = to /\ q \in Active(u)
  BY ActiveMoves
<1>2. \A p \in Active(u)' : p = q BY <1>1 DEF TabOf, OneActive
<1> QED BY <1>1, <1>2 DEF OneActive, InHand, HandKept

LEMMA OwnBounds ==
    ASSUME Inv, OrdersInPlace, NEW u \in Users, TabOf(u), NEW q \in Active(u),
           NEW r \in Restaurants, NEW i \in Items
    PROVE  /\ Bought(u, r, i) \in Nat /\ Written(u, r, i) \in Nat
           /\ InCart(CartOf(u), r, i) \in Nat
           /\ Bought(u, r, i) <= Written(u, r, i)
           /\ pc[q] # "approved" =>
                Bought(u, r, i) + InCart(CartOf(u), r, i) <= Written(u, r, i)
<1>1. (\E p \in Active(u) : pc[p] = "approved") <=> pc[q] = "approved"
  BY DEF TabOf, OneActive
<1>2. PICK b : b = Bought(u, r, i) OBVIOUS
<1>3. PICK c : c = InCart(CartOf(u), r, i) OBVIOUS
<1>4. PICK w : w = Written(u, r, i) OBVIOUS
<1>5. b \in Nat /\ c \in Nat /\ w \in Nat
  BY <1>2, <1>3, <1>4, BoughtType, WrittenType, CartOfUser
<1>6. b + (IF pc[q] = "approved" THEN 0 ELSE c) <= w
  BY <1>1, <1>2, <1>3, <1>4 DEF TabOf, BoughtOrHas
<1>7. b <= w /\ (pc[q] # "approved" => b + c <= w) BY <1>5, <1>6
<1> QED BY <1>2, <1>3, <1>4, <1>5, <1>7

\* Once the bound is kept, it is kept however the cart is counted.
LEMMA OwnBought ==
    ASSUME Inv', NEW u \in Users,
           \A r \in Restaurants, i \in Items :
             /\ Bought(u, r, i)' \in Nat /\ Written(u, r, i)' \in Nat
             /\ Bought(u, r, i)' + InCart(CartOf(u), r, i)' <= Written(u, r, i)'
    PROVE  BoughtOrHas(u)'
<1> SUFFICES ASSUME NEW r \in Restaurants, NEW i \in Items
             PROVE  Bought(u, r, i)' + (IF \E p \in Active(u)' : pc'[p] = "approved" THEN 0
                                        ELSE InCart(CartOf(u), r, i)') <= Written(u, r, i)'
  BY DEF BoughtOrHas
<1>1. PICK c : c = InCart(CartOf(u), r, i)' OBVIOUS
<1>2. PICK cart : cart = CartOf(u)' OBVIOUS
<1>3. cart \in Cart /\ WellFormed(cart)
  BY <1>2, EmptyCartWellFormed, NoCartAssumption DEF CartOf, Inv, CartsOK, CartTypeOK
<1>4. c = InCart(cart, r, i) BY <1>1, <1>2 DEF InCart
<1>5. c \in Nat BY <1>3, <1>4, InCartType
<1> QED BY <1>1, <1>5

\* A step that buys nothing and leaves the cart as it is or empties it.
LEMMA OwnQuiet ==
    ASSUME Inv, Inv', OrdersInPlace, OrdersInPlace', NEW u \in Users, TabOf(u),
           NEW q \in Requests, NEW to \in Running \cup Ended, Moves(q, to), User(q) = u,
           pc[q] # "approved", HandKept(q, to, u), ApprovedOf(u)' = ApprovedOf(u),
           carts'[u] = carts[u] \/ carts'[u] = EmptyCart,
           args[q].op = "addToCart" => carts'[u] = carts[u] /\ to \notin Ended
    PROVE  TabOf(u)'
<1>1. /\ OfUser(u)' = OfUser(u) /\ q \in Active(u)
      /\ \A r, i : Written(u, r, i)' =
           Written(u, r, i) + IF to \in Ended /\ Adds(q, u, r, i) THEN args[q].quantity ELSE 0
  BY ActiveMoves
<1>2. ASSUME NEW r, NEW i
      PROVE  Bought(u, r, i)' = Bought(u, r, i) /\ Written(u, r, i)' = Written(u, r, i)
  <2>1. Bought(u, r, i)' = Bought(u, r, i) BY BoughtSame
  <2>2. ~(to \in Ended /\ Adds(q, u, r, i)) BY DEF Adds
  <2>3. Written(u, r, i) \in Nat BY WrittenType
  <2> QED BY <1>1, <2>1, <2>2, <2>3
<1>3. OneActive(u)' /\ InHand(u)' BY OwnHand
<1>4. carts'[u] = carts[u] => CartOf(u)' = CartOf(u) BY DEF CartOf
<1>5. carts'[u] = EmptyCart => CartOf(u)' = EmptyCart BY DEF CartOf
<1>6. HasWritten(u)'
  <2> SUFFICES ASSUME NEW r \in Restaurants,
                      \A p \in OfUser(u) : args[p].op = "addToCart" /\ args[p].restaurantID = r,
                      NEW i \in Items
               PROVE  InCart(CartOf(u), r, i)' = Written(u, r, i)'
    BY <1>1 DEF HasWritten, Moves
  <2>1. InCart(CartOf(u), r, i) = Written(u, r, i) BY DEF TabOf, HasWritten
  <2>2. q \in OfUser(u) BY <1>1 DEF OfUser, Moves, Active, Running
  <2>3. CartOf(u)' = CartOf(u) BY <1>4, <2>2
  <2>4. InCart(CartOf(u), r, i)' = InCart(CartOf(u), r, i) BY <2>3 DEF InCart
  <2> QED BY <1>2, <2>1, <2>4
<1>7. BoughtOrHas(u)'
  <2>1. ASSUME NEW r \in Restaurants, NEW i \in Items
        PROVE  /\ Bought(u, r, i)' \in Nat /\ Written(u, r, i)' \in Nat
               /\ Bought(u, r, i)' + InCart(CartOf(u), r, i)' <= Written(u, r, i)'
    <3>1. /\ Bought(u, r, i) \in Nat /\ Written(u, r, i) \in Nat
          /\ InCart(CartOf(u), r, i) \in Nat
          /\ Bought(u, r, i) + InCart(CartOf(u), r, i) <= Written(u, r, i)
      BY <1>1, OwnBounds
    <3>2. \/ InCart(CartOf(u), r, i)' = InCart(CartOf(u), r, i)
          \/ InCart(CartOf(u), r, i)' = 0
      <4>1. CASE carts'[u] = carts[u] BY <1>4, <4>1 DEF InCart
      <4>2. CASE carts'[u] = EmptyCart
        <5>1. CartOf(u)' = EmptyCart BY <1>5, <4>2
        <5>2. InCart(CartOf(u), r, i)' = InCart(EmptyCart, r, i) BY <5>1 DEF InCart
        <5> QED BY <5>2, NothingInEmptyCart
      <4> QED BY <4>1, <4>2
    <3> QED BY <1>2, <3>1, <3>2
  <2> QED BY <2>1, OwnBought
<1> QED BY <1>3, <1>6, <1>7 DEF TabOf

LEMMA OwnAddition ==
    ASSUME Inv, Inv', OrdersInPlace, OrdersInPlace', NEW u \in Users, TabOf(u),
           NEW q \in Requests, WriteItem(q), User(q) = u
    PROVE  TabOf(u)'
<1> DEFINE a == args[q]
           item == [itemID |-> a.itemID, quantity |-> a.quantity, price |-> a.restaurantID]
           new == WithItem(carts[u], a.restaurantID, item)
<1>1. /\ pc[q] = "copied" /\ Moves(q, "done") /\ UNCHANGED orders
      /\ AddItemWrite(q, u, a.restaurantID, a.itemID, a.quantity)
  BY DEF WriteItem, Goto, handlerVars, Moves, Running, User
<1>2. a \in Additions /\ a.user = u BY <1>1 DEF Inv, PagesOK, HandlersReady, User
<1>3. /\ a.restaurantID \in Restaurants /\ item \in MenuItem /\ item.price = a.restaurantID
      /\ item.itemID = a.itemID /\ item.quantity = a.quantity /\ a.op = "addToCart"
      /\ a.quantity \in Nat
  <2>1. a.quantity \in Nat BY <1>2, CartAssumption DEF Additions
  <2> QED BY <1>2, <2>1 DEF Additions, MenuItem
<1>4. /\ "done" \in Running \cup Ended /\ "done" \in Ended BY DEF Ended
<1>5. /\ OfUser(u)' = OfUser(u) /\ q \in Active(u)
      /\ \A r, i : Written(u, r, i)' =
           Written(u, r, i) + IF "done" \in Ended /\ Adds(q, u, r, i) THEN args[q].quantity ELSE 0
      /\ ApprovedOf(u)' = {o \in orders' : o.outcome = "approved" /\ User(o.request) = u}
  BY <1>1, <1>4, ActiveMoves
<1>6. held[q] = carts[u] BY <1>1, <1>5 DEF TabOf, InHand
<1>7. carts'[u] = new /\ carts[u] \in Cart \cup {NoCart}
      /\ (carts[u] # NoCart => WellFormed(carts[u]))
  BY <1>1, <1>6 DEF AddItemWrite, Inv, CartsOK, CartTypeOK
<1>8. new \in Cart /\ WellFormed(new)
  <2> HIDE DEF a, item
  <2> QED BY <1>3, <1>7, WithItemWellFormed
<1>9. CartOf(u)' = new
  <2> HIDE DEF a, item, new
  <2> QED BY <1>7, <1>8, NoCartAssumption DEF CartOf
<1>10. ASSUME NEW r \in Restaurants, NEW i \in Items
       PROVE  /\ InCart(CartOf(u), r, i)' =
                   IF r # a.restaurantID THEN 0
                   ELSE InCart(CartOf(u), r, i) + (IF i = a.itemID THEN a.quantity ELSE 0)
              /\ Written(u, r, i)' =
                   Written(u, r, i)
                   + (IF r = a.restaurantID /\ i = a.itemID THEN a.quantity ELSE 0)
              /\ Bought(u, r, i)' = Bought(u, r, i)
  <2>1. InCart(new, r, i) =
          IF r # a.restaurantID THEN 0
          ELSE InCart(CartOf(u), r, i) + (IF i = item.itemID THEN item.quantity ELSE 0)
    <3> HIDE DEF a, item
    <3> QED BY <1>3, <1>7, AddedToCart DEF CartOf
  <2>2. PICK c : c = new OBVIOUS
  <2>3. InCart(CartOf(u), r, i)' = InCart(c, r, i) BY <1>9, <2>2 DEF InCart
  <2>4. Adds(q, u, r, i) <=> r = a.restaurantID /\ i = a.itemID BY <1>2, <1>3 DEF Adds
  <2>5. Bought(u, r, i)' = Bought(u, r, i)
    <3>1. ApprovedOf(u)' = ApprovedOf(u) BY <1>1, <1>5 DEF ApprovedOf
    <3> QED BY <3>1, BoughtSame
  <2> HIDE DEF a, item, new
  <2> QED BY <1>3, <1>4, <1>5, <2>1, <2>2, <2>3, <2>4, <2>5 DEF a
<1>11. OneActive(u)' /\ InHand(u)'
  <2>1. HandKept(q, "done", u) BY DEF HandKept
  <2> QED BY <1>1, <1>4, <2>1, OwnHand
<1>12. HasWritten(u)'
  <2> SUFFICES ASSUME NEW r \in Restaurants,
                      \A p \in OfUser(u) : args[p].op = "addToCart" /\ args[p].restaurantID = r,
                      NEW i \in Items
               PROVE  InCart(CartOf(u), r, i)' = Written(u, r, i)'
    BY <1>1, <1>5 DEF HasWritten, Moves
  <2>1. InCart(CartOf(u), r, i) = Written(u, r, i) BY DEF TabOf, HasWritten
  <2>2. q \in OfUser(u) BY <1>2, <1>5, <1>1 DEF OfUser, Active
  <2>3. a.restaurantID = r BY <2>2
  <2> HIDE DEF a
  <2> QED BY <1>10, <2>1, <2>3
<1>13. BoughtOrHas(u)'
  <2>1. ASSUME NEW r \in Restaurants, NEW i \in Items
        PROVE  /\ Bought(u, r, i)' \in Nat /\ Written(u, r, i)' \in Nat
               /\ Bought(u, r, i)' + InCart(CartOf(u), r, i)' <= Written(u, r, i)'
    <3>1. /\ Bought(u, r, i) \in Nat /\ Written(u, r, i) \in Nat
          /\ InCart(CartOf(u), r, i) \in Nat
          /\ Bought(u, r, i) + InCart(CartOf(u), r, i) <= Written(u, r, i)
      BY <1>1, <1>5, OwnBounds
    <3> HIDE DEF a
    <3> QED BY <1>3, <1>10, <3>1
  <2> QED BY <2>1, OwnBought
<1> QED BY <1>11, <1>12, <1>13 DEF TabOf

LEMMA OwnEmptying ==
    ASSUME Inv, Inv', OrdersInPlace, OrdersInPlace', NEW u \in Users, TabOf(u),
           NEW q \in Requests, EmptyPaidCart(q), User(q) = u, failures' = failures
    PROVE  TabOf(u)'
<1>1. /\ pc[q] = "approved" /\ Moves(q, "mailing") /\ UNCHANGED orders
      /\ carts' = [carts EXCEPT ![u] = EmptyCart]
  <2>1. ~CallFails BY DEF CallFails, Inv, CountsOK
  <2> QED BY <2>1 DEF EmptyPaidCart, EmptyCartAsync, Goto, handlerVars, Moves, Running
<1>2. "mailing" \in Running \cup Ended /\ "mailing" \notin Ended BY DEF Running, Ended
<1>3. /\ OfUser(u)' = OfUser(u) /\ q \in Active(u)
      /\ \A r, i : Written(u, r, i)' =
           Written(u, r, i)
           + IF "mailing" \in Ended /\ Adds(q, u, r, i) THEN args[q].quantity ELSE 0
      /\ ApprovedOf(u)' = {o \in orders' : o.outcome = "approved" /\ User(o.request) = u}
  BY <1>1, <1>2, ActiveMoves
<1>4. CartOf(u)' = EmptyCart
  <2>1. carts'[u] = EmptyCart BY <1>1 DEF Inv, CartsOK, CartTypeOK
  <2> QED BY <2>1 DEF CartOf
<1>5. OneActive(u)' /\ InHand(u)'
  <2>1. HandKept(q, "mailing", u) BY DEF HandKept
  <2> QED BY <1>1, <1>2, <2>1, OwnHand
<1>6. args[q].op # "addToCart"
  <2>1. args[q] \in Plain BY <1>1 DEF Inv, PagesOK, HandlersReady, Running
  <2> QED BY <2>1 DEF Plain
<1>7. HasWritten(u)'
  <2>1. q \in OfUser(u)' /\ args'[q].op # "addToCart"
    BY <1>1, <1>3, <1>6 DEF OfUser, Active, Moves
  <2> QED BY <2>1 DEF HasWritten
<1>8. BoughtOrHas(u)'
  <2>1. ASSUME NEW r \in Restaurants, NEW i \in Items
        PROVE  /\ Bought(u, r, i)' \in Nat /\ Written(u, r, i)' \in Nat
               /\ Bought(u, r, i)' + InCart(CartOf(u), r, i)' <= Written(u, r, i)'
    <3>1. /\ Bought(u, r, i) \in Nat /\ Written(u, r, i) \in Nat
          /\ Bought(u, r, i) <= Written(u, r, i)
      BY <1>3, OwnBounds
    <3>2. Bought(u, r, i)' = Bought(u, r, i)
      <4>1. ApprovedOf(u)' = ApprovedOf(u) BY <1>1, <1>3 DEF ApprovedOf
      <4> QED BY <4>1, BoughtSame
    <3>3. Written(u, r, i)' = Written(u, r, i) BY <1>2, <1>3, <3>1
    <3>4. InCart(CartOf(u), r, i)' = 0
      <4>1. InCart(CartOf(u), r, i)' = InCart(EmptyCart, r, i) BY <1>4 DEF InCart
      <4> QED BY <4>1, NothingInEmptyCart
    <3> QED BY <3>1, <3>2, <3>3, <3>4
  <2> QED BY <2>1, OwnBought
<1> QED BY <1>5, <1>7, <1>8 DEF TabOf

LEMMA OwnAnswer ==
    ASSUME Inv, Inv', OrdersInPlace, OrdersInPlace', NEW u \in Users, TabOf(u),
           NEW q \in Requests, CheckoutAnswered(q), User(q) = u
    PROVE  TabOf(u)'
<1>1. PICK o \in orders, outcome \in {"approved", "rejected", "error"} :
        /\ o.request = q
        /\ orders' = (orders \ {o}) \cup {[o EXCEPT !.outcome = outcome]}
        /\ Goto(q, "waiting", IF outcome = "approved" THEN "approved" ELSE "done")
        /\ UNCHANGED <<cartVars, args>>
  BY DEF CheckoutAnswered
<1>2. PICK to : to = IF outcome = "approved" THEN "approved" ELSE "done" OBVIOUS
<1>3. PICK n : n = [o EXCEPT !.outcome = outcome] OBVIOUS
<1>4. /\ pc[q] = "waiting" /\ Moves(q, to) /\ UNCHANGED <<carts, held>>
      /\ orders' = (orders \ {o}) \cup {n}
  BY <1>1, <1>2, <1>3 DEF Goto, cartVars, Moves, Running
<1>5. to \in Running \cup Ended BY <1>2 DEF Running, Ended
<1>6. n.request = q /\ n.cart = o.cart /\ n.outcome = outcome BY <1>1, <1>3, OrderParts
<1>7. o.outcome = "open" BY <1>1, <1>4 DEF OrdersInPlace
<1>8. /\ OfUser(u)' = OfUser(u) /\ q \in Active(u) /\ pc'[q] = to
      /\ \A p : p \in Active(u)' <=> p \in Active(u) /\ (p # q \/ to \in Running)
      /\ \A r, i : Written(u, r, i)' =
           Written(u, r, i) + IF to \in Ended /\ Adds(q, u, r, i) THEN args[q].quantity ELSE 0
      /\ ApprovedOf(u)' = {p \in orders' : p.outcome = "approved" /\ User(p.request) = u}
  BY <1>4, <1>5, ActiveMoves
<1>9. HandKept(q, to, u) BY <1>2 DEF HandKept
<1>10. args[q].op # "addToCart"
  <2>1. args[q] \in Plain BY <1>4 DEF Inv, PagesOK, HandlersReady, Running
  <2> QED BY <2>1 DEF Plain
<1>11. CASE outcome # "approved"
  <2>1. ApprovedOf(u)' = ApprovedOf(u)
    BY <1>4, <1>6, <1>7, <1>8, <1>11 DEF ApprovedOf
  <2> QED BY <1>4, <1>5, <1>9, <1>10, <2>1, OwnQuiet
<1>12. CASE outcome = "approved"
  <2>1. to = "approved" /\ to \in Running /\ to \notin Ended BY <1>2, <1>12 DEF Running, Ended
  <2>2. o.cart = CartOf(u) BY <1>1, <1>4, <1>8 DEF TabOf, InHand
  <2>3. ApprovedOf(u)' = ApprovedOf(u) \cup {n}
    BY <1>4, <1>6, <1>7, <1>8, <1>12 DEF ApprovedOf
  <2>4. n \notin ApprovedOf(u)
    <3>1. \A p \in orders : p.request = q => p = o BY <1>1 DEF OrdersInPlace
    <3> QED BY <1>6, <1>7, <3>1 DEF ApprovedOf
  <2>5. OneActive(u)' /\ InHand(u)' BY <1>4, <1>5, <1>9, OwnHand
  <2>6. HasWritten(u)'
    <3>1. q \in OfUser(u)' /\ args'[q].op # "addToCart"
      BY <1>4, <1>8, <1>10 DEF OfUser, Active, Moves
    <3> QED BY <3>1 DEF HasWritten
  <2>7. BoughtOrHas(u)'
    <3> SUFFICES ASSUME NEW r \in Restaurants, NEW i \in Items
                 PROVE  Bought(u, r, i)' + (IF \E p \in Active(u)' : pc'[p] = "approved" THEN 0
                                            ELSE InCart(CartOf(u), r, i)') <= Written(u, r, i)'
      BY DEF BoughtOrHas
    <3>1. /\ Bought(u, r, i) \in Nat /\ Written(u, r, i) \in Nat
          /\ InCart(CartOf(u), r, i) \in Nat
          /\ Bought(u, r, i) + InCart(CartOf(u), r, i) <= Written(u, r, i)
      BY <1>4, <1>8, OwnBounds
    <3>2. InCart(n.cart, r, i) = InCart(CartOf(u), r, i) BY <1>6, <2>2
    <3>3. Bought(u, r, i)' = Bought(u, r, i) + InCart(CartOf(u), r, i)
      BY <2>3, <2>4, <3>1, <3>2, BoughtMore
    <3>4. Written(u, r, i)' = Written(u, r, i) BY <1>8, <2>1, <3>1
    <3>5. \E p \in Active(u)' : pc'[p] = "approved" BY <1>8, <2>1
    <3> QED BY <3>1, <3>3, <3>4, <3>5
  <2> QED BY <2>5, <2>6, <2>7 DEF TabOf
<1> QED BY <1>11, <1>12

\* A step of the user's own request, until a call fails.
LEMMA OwnKeep ==
    ASSUME Inv, Inv', OrdersInPlace, OrdersInPlace', NEW u \in Users, TabOf(u),
           NEW q \in Requests, Handler(q), User(q) = u, failures = 0, failures' = 0
    PROVE  TabOf(u)'
<1>0. ~CallFails BY DEF CallFails
<1>1. CASE ReadForItem(q)
  <2>1. /\ pc[q] = "adding" /\ Moves(q, "copied") /\ UNCHANGED <<carts, orders>>
        /\ held' = [held EXCEPT ![q] = carts[u]]
    BY <1>1 DEF ReadForItem, AddItemRead, Goto, handlerVars, Moves, Running
  <2>2. "copied" \in Running \cup Ended /\ "copied" \notin Ended BY DEF Running, Ended
  <2>3. HandKept(q, "copied", u) BY <2>1 DEF HandKept, Inv, CartsOK, CartTypeOK
  <2>4. ApprovedOf(u)' = ApprovedOf(u) BY <2>1 DEF ApprovedOf, Moves, User
  <2> QED BY <2>1, <2>2, <2>3, <2>4, OwnQuiet
<1>2. CASE WriteItem(q) BY <1>2, OwnAddition
<1>3. CASE CartCallFails(q) BY <1>0, <1>3 DEF CartCallFails
<1>4. CASE ClearCart(q)
  <2>1. /\ pc[q] = "emptying" /\ Moves(q, "done") /\ UNCHANGED orders
        /\ carts' = [carts EXCEPT ![u] = EmptyCart]
    BY <1>4 DEF ClearCart, EmptyCartAsync, Goto, handlerVars, Moves, Running
  <2>2. "done" \in Running \cup Ended BY DEF Ended
  <2>3. HandKept(q, "done", u) BY DEF HandKept
  <2>4. ApprovedOf(u)' = ApprovedOf(u) BY <2>1 DEF ApprovedOf, Moves, User
  <2>5. carts'[u] = EmptyCart BY <2>1 DEF Inv, CartsOK, CartTypeOK
  <2>6. args[q].op # "addToCart" BY <2>1 DEF Inv, PagesOK, HandlersReady, Running, Plain
  <2> QED BY <2>1, <2>2, <2>3, <2>4, <2>5, <2>6, OwnQuiet
<1>5. CASE GetOrder(q)
  <2>1. /\ pc[q] = "fetching" /\ Moves(q, "fetched") /\ UNCHANGED <<carts, orders>>
        /\ held' = [held EXCEPT ![q] = CartOf(u)]
    BY <1>0, <1>5 DEF GetOrder, GetCartAsync, Goto, handlerVars, Moves, Running, CartOf
  <2>2. "fetched" \in Running \cup Ended BY DEF Running
  <2>3. HandKept(q, "fetched", u)
    <3>1. held'[q] = CartOf(u) BY <2>1 DEF Inv, CartsOK, CartTypeOK
    <3>2. CartOf(u)' = CartOf(u) BY <2>1 DEF CartOf
    <3> QED BY <3>1, <3>2 DEF HandKept
  <2>4. ApprovedOf(u)' = ApprovedOf(u) BY <2>1 DEF ApprovedOf, Moves, User
  <2>5. args[q].op # "addToCart" BY <2>1 DEF Inv, PagesOK, HandlersReady, Running, Plain
  <2> QED BY <2>1, <2>2, <2>3, <2>4, <2>5, OwnQuiet
<1>6. CASE GetUser(q)
  <2>1. /\ pc[q] = "fetched" /\ Moves(q, "paying") /\ UNCHANGED <<carts, held, orders>>
    BY <1>0, <1>6 DEF GetUser, Goto, handlerVars, cartVars, Moves, Running
  <2>2. "paying" \in Running \cup Ended BY DEF Running
  <2>3. HandKept(q, "paying", u)
    <3>1. q \in Active(u) BY <2>1 DEF Active, User, Running
    <3>2. held'[q] = CartOf(u) BY <2>1, <3>1 DEF TabOf, InHand
    <3>3. CartOf(u)' = CartOf(u) BY <2>1 DEF CartOf
    <3> QED BY <3>2, <3>3 DEF HandKept
  <2>4. ApprovedOf(u)' = ApprovedOf(u) BY <2>1 DEF ApprovedOf, Moves, User
  <2>5. args[q].op # "addToCart" BY <2>1 DEF Inv, PagesOK, HandlersReady, Running, Plain
  <2> QED BY <2>1, <2>2, <2>3, <2>4, <2>5, OwnQuiet
<1>7. CASE ExecuteCheckout(q)
  <2>0. PICK n : n = [request |-> q, cart |-> held[q], outcome |-> "open"] OBVIOUS
  <2>1. /\ pc[q] = "paying" /\ Moves(q, "waiting") /\ UNCHANGED <<carts, held>>
        /\ orders' = orders \cup {n}
    BY <1>7, <2>0 DEF ExecuteCheckout, Goto, cartVars, Moves, Running
  <2>2. "waiting" \in Running \cup Ended BY DEF Running
  <2>3. HandKept(q, "waiting", u)
    <3>1. q \in Active(u) BY <2>1 DEF Active, User, Running
    <3>2. held[q] = CartOf(u) BY <2>1, <3>1 DEF TabOf, InHand
    <3>3. CartOf(u)' = CartOf(u) BY <2>1 DEF CartOf
    <3>4. \A o \in orders : o.request # q BY <2>1 DEF OrdersInPlace, Sequel
    <3>5. n.request = q /\ n.cart = held[q] BY <2>0
    <3> QED BY <2>1, <3>2, <3>3, <3>4, <3>5 DEF HandKept
  <2>4. ApprovedOf(u)' = ApprovedOf(u)
    <3>1. n.outcome # "approved" BY <2>0
    <3> QED BY <2>1, <3>1 DEF ApprovedOf, Moves, User
  <2>5. args[q].op # "addToCart" BY <2>1 DEF Inv, PagesOK, HandlersReady, Running, Plain
  <2> QED BY <2>1, <2>2, <2>3, <2>4, <2>5, OwnQuiet
<1>8. CASE CheckoutAnswered(q) BY <1>8, OwnAnswer
<1>9. CASE EmptyPaidCart(q) BY <1>9, OwnEmptying
<1>10. CASE SendMail(q)
  <2>1. /\ pc[q] = "mailing" /\ Moves(q, "done") /\ UNCHANGED <<carts, held, orders>>
    BY <1>10 DEF SendMail, Goto, cartVars, Moves, Running
  <2>2. "done" \in Running \cup Ended BY DEF Ended
  <2>3. HandKept(q, "done", u) BY DEF HandKept
  <2>4. ApprovedOf(u)' = ApprovedOf(u) BY <2>1 DEF ApprovedOf, Moves, User
  <2>5. args[q].op # "addToCart" BY <2>1 DEF Inv, PagesOK, HandlersReady, Running, Plain
  <2> QED BY <2>1, <2>2, <2>3, <2>4, <2>5, OwnQuiet
<1> QED
  BY <1>1, <1>2, <1>3, <1>4, <1>5, <1>6, <1>7, <1>8, <1>9, <1>10 DEF Handler

LEMMA ArrivalKeepsTab ==
    ASSUME Inv, OrdersInPlace, NEW u \in Users, MaxTabs[u] = 1, TabOf(u),
           NEW q \in Requests, Arrives(q)
    PROVE  TabOf(u)'
<1>1. PICK a \in Additions \cup Plain, first \in {"adding", "emptying", "fetching"} :
        Arrive(q, a, first)
  BY DEF Arrives
<1>2. /\ pc[q] = "idle" /\ pc'[q] = first /\ args'[q] = a
      /\ UNCHANGED <<carts, held, orders>>
      /\ Cardinality(Active(a.user)) < MaxTabs[a.user]
      /\ \A p \in Requests : p # q => pc'[p] = pc[p] /\ args'[p] = args[p]
  BY <1>1 DEF Arrive, Goto, cartVars, Inv, PagesOK
<1>3. \A r, i : Written(u, r, i)' = Written(u, r, i) BY WrittenAtArrival
<1>4. CartOf(u)' = CartOf(u) /\ \A r, i : InCart(CartOf(u), r, i)' = InCart(CartOf(u), r, i)
  BY <1>2 DEF CartOf, InCart
<1>5. \A o \in orders : o.request \in Requests /\ o.request # q
  BY <1>2, OrderParts DEF OrdersInPlace, Sequel
<1>6. ApprovedOf(u)' = ApprovedOf(u) BY <1>2, <1>5 DEF ApprovedOf, User
<1>7. \A r, i : Bought(u, r, i)' = Bought(u, r, i) BY <1>6, BoughtSame
<1>8. \A p : p \in OfUser(u) => p \in OfUser(u)' /\ args'[p] = args[p] BY <1>2 DEF OfUser
<1>9. \/ Active(u)' = Active(u) /\ \A p \in Active(u) : pc'[p] = pc[p]
      \/ Active(u) = {} /\ Active(u)' = {q}
  <2>1. CASE a.user # u BY <1>2, <2>1 DEF Active, Running
  <2>2. CASE a.user = u
    <3>1. Active(u) = {}
      <4>1. IsFiniteSet(Active(u)) BY StorefrontAssumption, FS_Subset DEF Active
      <4>2. Cardinality(Active(u)) < 1 BY <1>2, <2>2
      <4>3. Cardinality(Active(u)) \in Nat BY <4>1, FS_CardinalityType
      <4>4. Cardinality(Active(u)) = 0 BY <4>2, <4>3
      <4> QED BY <4>1, <4>4, FS_EmptySet
    <3>2. Active(u)' = {q} BY <1>2, <2>2, <3>1 DEF Active, Running
    <3> QED BY <3>1, <3>2
  <2> QED BY <2>1, <2>2
<1>10. \A p \in Active(u)' : \/ pc'[p] \in {"adding", "emptying", "fetching"}
                             \/ p \in Active(u) /\ pc'[p] = pc[p]
  BY <1>2, <1>9
<1>11. OneActive(u)' BY <1>9 DEF TabOf, OneActive
<1>12. InHand(u)' BY <1>2, <1>4, <1>10 DEF TabOf, InHand
<1>13. HasWritten(u)'
  <2> SUFFICES ASSUME NEW r \in Restaurants,
                      \A p \in OfUser(u)' : args'[p].op = "addToCart" /\ args'[p].restaurantID = r,
                      NEW i \in Items
               PROVE  InCart(CartOf(u), r, i)' = Written(u, r, i)'
    BY DEF HasWritten
  <2>1. InCart(CartOf(u), r, i) = Written(u, r, i) BY <1>8 DEF TabOf, HasWritten
  <2> QED BY <1>3, <1>4, <2>1
<1>14. BoughtOrHas(u)'
  <2> SUFFICES ASSUME NEW r \in Restaurants, NEW i \in Items
               PROVE  Bought(u, r, i)' + (IF \E p \in Active(u)' : pc'[p] = "approved" THEN 0
                                          ELSE InCart(CartOf(u), r, i)') <= Written(u, r, i)'
    BY DEF BoughtOrHas
  <2>1. Bought(u, r, i) + (IF \E p \in Active(u) : pc[p] = "approved" THEN 0
                           ELSE InCart(CartOf(u), r, i)) <= Written(u, r, i)
    BY DEF TabOf, BoughtOrHas
  <2>2. (\E p \in Active(u)' : pc'[p] = "approved") <=> \E p \in Active(u) : pc[p] = "approved"
    BY <1>2, <1>9, <1>10
  <2> QED BY <1>3, <1>4, <1>7, <2>1, <2>2
<1> QED BY <1>11, <1>12, <1>13, <1>14 DEF TabOf

LEMMA StutterKeepsTab ==
    ASSUME Inv, NEW u \in Users, TabOf(u), UNCHANGED vars
    PROVE  TabOf(u)'
<1>1. UNCHANGED <<carts, held, pc, args, orders>> BY DEF vars, cartVars
<1>2. /\ CartOf(u)' = CartOf(u) /\ Active(u)' = Active(u) /\ OfUser(u)' = OfUser(u)
      /\ ApprovedOf(u)' = ApprovedOf(u)
  BY <1>1 DEF CartOf, Active, OfUser, ApprovedOf, User
<1>3. ASSUME NEW r, NEW i
      PROVE  /\ Bought(u, r, i)' = Bought(u, r, i) /\ Written(u, r, i)' = Written(u, r, i)
             /\ InCart(CartOf(u), r, i)' = InCart(CartOf(u), r, i)
  <2>1. Over(u, r, i)' = Over(u, r, i) BY <1>1 DEF Over
  <2> QED BY <1>1, <1>2, <2>1, BoughtSame, WrittenSame DEF InCart
<1>4. OneActive(u)' /\ InHand(u)' BY <1>1, <1>2 DEF TabOf, OneActive, InHand
<1>5. HasWritten(u)' BY <1>1, <1>2, <1>3 DEF TabOf, HasWritten
<1>6. BoughtOrHas(u)' BY <1>1, <1>2, <1>3 DEF TabOf, BoughtOrHas
<1> QED BY <1>4, <1>5, <1>6 DEF TabOf

LEMMA InitTabs == Init => OneTabInPlace
<1> SUFFICES ASSUME Init, NEW u \in Users PROVE TabOf(u) BY DEF OneTabInPlace
<1>1. Inv /\ OrdersInPlace BY InitInv, InitOrders
<1>2. Active(u) = {} /\ CartOf(u) = EmptyCart
  BY DEF Init, CartInit, Active, CartOf, Running
<1>3. ASSUME NEW r, NEW i
      PROVE  /\ Bought(u, r, i) = 0 /\ Written(u, r, i) = 0 /\ InCart(CartOf(u), r, i) = 0
  <2>1. ApprovedOf(u) = {} BY DEF Init, ApprovedOf
  <2>2. Bought(u, r, i) = 0 BY <2>1, BoughtIsSum, SumOfNone
  <2>3. Over(u, r, i) = {} BY DEF Init, Over, Ended
  <2>4. Written(u, r, i) = 0 BY <2>3, SumOfNone DEF Written
  <2> QED BY <1>2, <2>2, <2>4, NothingInEmptyCart
<1> QED BY <1>2, <1>3 DEF TabOf, OneActive, InHand, HasWritten, BoughtOrHas

LEMMA NextTabs == Inv /\ OrdersInPlace /\ OneTabInPlace /\ [Next]_vars => OneTabInPlace'
<1> SUFFICES ASSUME Inv, OrdersInPlace, OneTabInPlace, [Next]_vars, NEW u \in Users,
                    MaxTabs[u] = 1, failures' = 0
             PROVE  TabOf(u)'
  BY DEF OneTabInPlace, OneAtATime
<1>1. Inv' /\ OrdersInPlace' BY NextInv, NextOrders
<1>2. CASE UNCHANGED vars
  <2>1. TabOf(u) BY <1>2 DEF vars, OneTabInPlace, OneAtATime
  <2> QED BY <1>2, <2>1, StutterKeepsTab
<1>3. CASE Next
  <2>1. PICK q \in Requests :
          Arrives(q) \/ Quiet(q) \/ ExecuteCheckout(q) \/ CheckoutAnswered(q) \/ SendMail(q)
    BY <1>3, StorefrontCases
  <2>2. CASE Arrives(q)
    <3>1. TabOf(u) BY <2>2, WrittenAtArrival DEF OneTabInPlace, OneAtATime
    <3> QED BY <2>2, <3>1, ArrivalKeepsTab
  <2>3. CASE ~Arrives(q)
    <3>1. Handler(q) BY <2>1, <2>3 DEF Quiet, Handler
    <3>2. failures = 0
      <4>1. CallFails \/ UNCHANGED failures
        BY <2>1, <2>3, QuietMoves DEF ExecuteCheckout, CheckoutAnswered, SendMail
      <4> QED BY <4>1, FailuresGrow
    <3>3. TabOf(u) BY <3>2 DEF OneTabInPlace, OneAtATime
    <3>4. CASE User(q) = u BY <1>1, <3>1, <3>2, <3>3, <3>4, OwnKeep
    <3>5. CASE User(q) # u BY <3>1, <3>3, <3>5, OthersKeep
    <3> QED BY <3>4, <3>5
  <2> QED BY <2>2, <2>3
<1> QED BY <1>2, <1>3

LEMMA AlwaysTabs == Spec => []OneTabInPlace
<1> QED BY Invariant, AlwaysOrders, InitTabs, NextTabs, PTL DEF Spec

\* When no request of a user is under way, what was written is what was added.
LEMMA WrittenIsAdded ==
    ASSUME Inv, OrdersInPlace, NEW u \in Users, Idle(u), NEW r, NEW i
    PROVE  Written(u, r, i) = Added(u, r, i)
<1> DEFINE All == {q \in Requests : args[q].op = "addToCart" /\ args[q].user = u
                                     /\ args[q].restaurantID = r /\ args[q].itemID = i}
<1>1. ASSUME NEW q \in All PROVE pc[q] \in Ended
  <2>1. pc[q] # "idle" BY DEF OrdersInPlace, NoArgs
  <2>2. pc[q] \notin Running BY DEF Idle, Active
  <2> QED BY <2>1, <2>2 DEF Inv, PagesOK
<1>2. Over(u, r, i) = All BY <1>1 DEF Over
<1>3. Added(u, r, i) = SumFunctionOnSet([q \in All |-> args[q].quantity], All)
  BY DEF Added, SumFunction
<1> HIDE DEF All
<1> QED BY <1>2, <1>3 DEF Written

LEMMA TabsAreSound ==
    Inv /\ OrdersInPlace /\ OneTabInPlace => NothingIsBoughtTwice /\ OneTabLosesNothing
<1> SUFFICES ASSUME Inv, OrdersInPlace, OneTabInPlace
             PROVE  NothingIsBoughtTwice /\ OneTabLosesNothing
  OBVIOUS
<1>1. ASSUME NEW u \in Users, OneAtATime(u), Idle(u), NEW r \in Restaurants, NEW i \in Items
      PROVE  Bought(u, r, i) + InCart(CartOf(u), r, i) <= Added(u, r, i)
  <2>1. Bought(u, r, i) + InCart(CartOf(u), r, i) <= Written(u, r, i)
    BY <1>1 DEF OneTabInPlace, TabOf, BoughtOrHas, Idle
  <2> QED BY <1>1, <2>1, WrittenIsAdded
<1>2. ASSUME NEW u \in Users, OneAtATime(u), Idle(u) PROVE HasWhatWasAdded(u)
  <2> SUFFICES ASSUME NEW r \in Restaurants,
                      \A q \in OfUser(u) : args[q].op = "addToCart" /\ args[q].restaurantID = r,
                      NEW i \in Items
               PROVE  InCart(CartOf(u), r, i) = Added(u, r, i)
    BY DEF HasWhatWasAdded, OfUser
  <2>1. InCart(CartOf(u), r, i) = Written(u, r, i)
    BY <1>2 DEF OneTabInPlace, TabOf, HasWritten
  <2> QED BY <1>2, <2>1, WrittenIsAdded
<1> QED BY <1>1, <1>2 DEF NothingIsBoughtTwice, OneTabLosesNothing

\* Until a call fails, what a user who makes one request at a time has bought and still has
\* in the cart is no more than was added: the page empties what it ordered.
THEOREM OneTabBuysOnce == Spec => []NothingIsBoughtTwice
<1> QED BY Invariant, AlwaysOrders, AlwaysTabs, TabsAreSound, PTL

\* Until a call fails, a user who only adds products of one restaurant, one at a time, has
\* all of them in the cart, whatever other users do meanwhile.
THEOREM OneTabKeepsAll == Spec => []OneTabLosesNothing
<1> QED BY Invariant, AlwaysOrders, AlwaysTabs, TabsAreSound, PTL
=============================================================================
