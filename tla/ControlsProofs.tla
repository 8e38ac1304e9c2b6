--------------------------- MODULE ControlsProofs ---------------------------
(***************************************************************************)
(* Lemmas about numbers and lists, and the inductive invariants of the     *)
(* widgets other than the datepicker, the carousel, the tabs and the       *)
(* scrollspy, for which WidgetsProofs has them.  For a widget X the        *)
(* invariant is XFits: XInitFits says that the widget starts in it, XKeeps *)
(* or XKeep that its steps keep it, and XGives or XGive what it implies.   *)
(***************************************************************************)
EXTENDS Widgets, FiniteSetTheorems, SequenceTheorems, WellFoundedInduction, TLAPS

\* A step of a widget becomes w.
LEMMA BecomesIs ==
    ASSUME NEW name, OnPage(name), NEW w, Becomes(name, w)
    PROVE  widget'[name] = w
BY DEF OnPage, Becomes

-----------------------------------------------------------------------------
(* Numbers                                                                  *)

\* A set of natural numbers has a least element,
LEMMA LeastNat ==
    ASSUME NEW S \in SUBSET Nat, S # {}
    PROVE  \E x \in S : \A y \in S : x <= y
<1> DEFINE T == {0 .. x : x \in S}
<1>1. IsWellFoundedOn(StrictSubsetOrdering(Nat), FiniteSubsetsOf(Nat))
  BY FS_StrictSubsetOrderingWellFounded
<1>2. T \subseteq FiniteSubsetsOf(Nat) /\ T # {}
  <2>1. ASSUME NEW x \in S PROVE 0 .. x \in FiniteSubsetsOf(Nat)
    BY FS_Interval DEF FiniteSubsetsOf
  <2> QED BY <2>1
<1>3. PICK t \in T : \A u \in T : ~(<<u, t>> \in StrictSubsetOrdering(Nat))
  BY <1>1, <1>2, WFMin
<1>4. PICK x \in S : t = 0 .. x BY <1>3
<1>5. ASSUME NEW y \in S, y < x PROVE FALSE
  <2>1. 0 .. y \in T /\ 0 .. y \subseteq Nat /\ 0 .. x \subseteq Nat /\ 0 .. y \subseteq 0 .. x /\ 0 .. y # 0 .. x
    BY <1>5
  <2> QED BY <1>3, <1>4, <2>1 DEF StrictSubsetOrdering
<1> QED BY <1>5

\* and a finite one a greatest one.
LEMMA LeastAndGreatest ==
    ASSUME NEW n \in Nat, NEW S \in SUBSET (0 .. n - 1), S # {}
    PROVE  Min(S) \in S /\ Max(S) \in S
<1>1. PICK x \in S : \A y \in S : x <= y BY LeastNat
<1> DEFINE T == {n - y : y \in S}
<1>2. T \in SUBSET Nat /\ T # {} OBVIOUS
<1>3. PICK t \in T : \A y \in T : t <= y BY <1>2, LeastNat
<1>4. PICK z \in S : t = n - z BY <1>3
<1>5. \A y \in S : z >= y BY <1>3, <1>4
<1> QED BY <1>1, <1>5 DEF Min, Max

-----------------------------------------------------------------------------
(* Lists                                                                    *)

\* A list of which an element is removed
LEMMA RemoveAtIs ==
    ASSUME NEW S, NEW s \in Seq(S), NEW p \in 1 .. Len(s)
    PROVE  /\ RemoveAt(s, p) \in Seq(S) /\ Len(RemoveAt(s, p)) = Len(s) - 1
           /\ \A j \in 1 .. Len(s) - 1 : RemoveAt(s, p)[j] = s[IF j < p THEN j ELSE j + 1]
<1>1. PICK n \in Nat : n = Len(s) OBVIOUS
<1>2. SubSeq(s, 1, p - 1) \in Seq(S) /\ Len(SubSeq(s, 1, p - 1)) = p - 1
      /\ \A j \in 1 .. p - 1 : SubSeq(s, 1, p - 1)[j] = s[j]
  BY <1>1
<1>3. PICK before \in Seq(S) : /\ before = SubSeq(s, 1, p - 1) /\ Len(before) = p - 1
                                  /\ \A j \in 1 .. p - 1 : before[j] = s[j]
  BY <1>2
<1>4. SubSeq(s, p + 1, n) \in Seq(S) /\ Len(SubSeq(s, p + 1, n)) = n - p
      /\ \A j \in 1 .. n - p : SubSeq(s, p + 1, n)[j] = s[j + p]
  <2>1. \A i \in p + 1 .. n : s[i] \in S BY <1>1
  <2>2. p + 1 \in Int /\ n \in Int BY <1>1
  <2>3. /\ SubSeq(s, p + 1, n) \in Seq(S)
        /\ Len(SubSeq(s, p + 1, n)) = IF p + 1 <= n THEN n - (p + 1) + 1 ELSE 0
        /\ \A i \in 1 .. n - (p + 1) + 1 : SubSeq(s, p + 1, n)[i] = s[(p + 1) + i - 1]
    BY <2>1, <2>2, SubSeqProperties
  <2>4. /\ (IF p + 1 <= n THEN n - (p + 1) + 1 ELSE 0) = n - p
        /\ n - (p + 1) + 1 = n - p
        /\ \A i \in 1 .. n - p : (p + 1) + i - 1 = i + p
    BY <1>1
  <2> QED BY <2>3, <2>4
<1>5. PICK after \in Seq(S) : /\ after = SubSeq(s, p + 1, n) /\ Len(after) = n - p
                                 /\ \A j \in 1 .. n - p : after[j] = s[j + p]
  BY <1>4
<1>6. RemoveAt(s, p) = before \o after BY <1>1, <1>3, <1>5 DEF RemoveAt
<1>7. PICK r : r = before \o after OBVIOUS
<1>8. /\ r \in Seq(S) /\ Len(r) = Len(before) + Len(after)
      /\ \A j \in 1 .. Len(before) + Len(after) :
           r[j] = IF j <= Len(before) THEN before[j] ELSE after[j - Len(before)]
  BY <1>7, ConcatProperties
<1>9. Len(r) = n - 1
      /\ \A j \in 1 .. n - 1 : r[j] = IF j <= p - 1 THEN before[j] ELSE after[j - (p - 1)]
  <2>0. p \in Int /\ (p - 1) + (n - p) = n - 1 BY <1>1
  <2>1. Len(before) = p - 1 /\ Len(before) + Len(after) = n - 1 BY <1>3, <1>5, <2>0
  <2> QED BY <1>8, <2>1
<1>10. ASSUME NEW j \in 1 .. n - 1 PROVE r[j] = s[IF j < p THEN j ELSE j + 1]
  <2>1. CASE j < p
    <3>1. j \in 1 .. p - 1 BY <2>1
    <3> QED BY <1>3, <1>9, <2>1, <3>1
  <2>2. CASE ~(j < p)
    <3>1. j - (p - 1) \in 1 .. n - p /\ (j - (p - 1)) + p = j + 1 /\ ~(j <= p - 1) BY <1>1, <2>2
    <3>2. r[j] = after[j - (p - 1)] BY <1>9, <3>1
    <3>3. after[j - (p - 1)] = s[j + 1] BY <1>5, <3>1
    <3> QED BY <2>2, <3>2, <3>3
  <2> QED BY <2>1, <2>2
<1> QED BY <1>1, <1>6, <1>7, <1>8, <1>9, <1>10


\* A list of different elements of which one is removed
LEMMA RemovedIs ==
    ASSUME NEW S, NEW s \in Seq(S), IsInjective(s), NEW p \in 1 .. Len(s),
           NEW r, r = RemoveAt(s, p)
    PROVE  /\ r \in Seq(S) /\ IsInjective(r) /\ Len(r) = Len(s) - 1
           /\ ToSet(r) = ToSet(s) \ {s[p]}
           /\ p # Len(s) => Last(r) = Last(s)
<1>1. PICK n \in Nat : n = Len(s) OBVIOUS
<1>2. p \in 1 .. n BY <1>1
<1>3. /\ r \in Seq(S) /\ Len(r) = n - 1
      /\ \A j \in 1 .. n - 1 : r[j] = s[IF j < p THEN j ELSE j + 1]
  BY <1>1, RemoveAtIs
<1>4. DOMAIN r = 1 .. n - 1 /\ DOMAIN s = 1 .. n BY <1>1, <1>3
<1>5. \A i, j \in 1 .. n : s[i] = s[j] => i = j BY <1>4 DEF IsInjective
<1>6. ASSUME NEW i \in 1 .. n - 1, NEW j \in 1 .. n - 1, r[i] = r[j] PROVE i = j
  <2>1. PICK k \in 1 .. n, l \in 1 .. n : k = (IF i < p THEN i ELSE i + 1)
                                          /\ l = (IF j < p THEN j ELSE j + 1)
    OBVIOUS
  <2>2. s[k] = s[l] BY <1>3, <1>6, <2>1
  <2>3. k = l BY <1>5, <2>2
  <2> QED BY <2>1, <2>3
<1>7. IsInjective(r) BY <1>4, <1>6 DEF IsInjective
<1>8. ASSUME NEW j \in 1 .. n - 1 PROVE r[j] \in ToSet(s) \ {s[p]}
  <2>1. PICK k \in 1 .. n : k = (IF j < p THEN j ELSE j + 1) OBVIOUS
  <2>2. k # p /\ r[j] = s[k] BY <1>2, <1>3, <2>1
  <2>3. s[k] # s[p] BY <1>2, <1>5, <2>2
  <2> QED BY <1>4, <2>2, <2>3 DEF ToSet
<1>9. ASSUME NEW k \in 1 .. n, k # p PROVE s[k] \in ToSet(r)
  <2>1. PICK j \in 1 .. n - 1 : k = (IF j < p THEN j ELSE j + 1)
    <3>1. CASE k < p
      <4>1. k \in 1 .. n - 1 BY <1>2, <3>1
      <4> QED BY <3>1, <4>1
    <3>2. CASE ~(k < p)
      <4>1. k - 1 \in 1 .. n - 1 /\ ~(k - 1 < p) /\ (k - 1) + 1 = k BY <1>2, <1>9, <3>2
      <4> QED BY <4>1
    <3> QED BY <3>1, <3>2
  <2>2. r[j] = s[k] BY <1>3, <2>1
  <2> QED BY <1>4, <2>2 DEF ToSet
<1>10. ToSet(r) = ToSet(s) \ {s[p]}
  <2>1. ToSet(r) \subseteq ToSet(s) \ {s[p]} BY <1>4, <1>8 DEF ToSet
  <2>2. ASSUME NEW e \in ToSet(s) \ {s[p]} PROVE e \in ToSet(r)
    <3>1. PICK k \in 1 .. n : e = s[k] BY <1>4 DEF ToSet
    <3> QED BY <1>9, <3>1
  <2> QED BY <2>1, <2>2
<1>11. ASSUME p # n PROVE Last(r) = Last(s)
  <2>1. n - 1 \in 1 .. n - 1 /\ ~(n - 1 < p) /\ (n - 1) + 1 = n BY <1>2, <1>11
  <2>2. r[n - 1] = s[n] BY <1>3, <2>1
  <2> QED BY <1>1, <1>3, <2>2 DEF Last
<1> QED BY <1>1, <1>3, <1>7, <1>10, <1>11

\* An element that is not in the list is appended.
LEMMA AppendedIs ==
    ASSUME NEW S, NEW s \in Seq(S), IsInjective(s), NEW e \in S, e \notin ToSet(s)
    PROVE  /\ Append(s, e) \in Seq(S) /\ IsInjective(Append(s, e)) /\ Len(Append(s, e)) = Len(s) + 1
           /\ ToSet(Append(s, e)) = ToSet(s) \cup {e} /\ Last(Append(s, e)) = e
<1>0. PICK r : r = Append(s, e) OBVIOUS
<1>1. PICK n \in Nat : n = Len(s) OBVIOUS
<1>2. Append(s, e) \in Seq(S) OBVIOUS
<1>3. /\ r \in Seq(S) /\ Len(r) = n + 1 /\ r[n + 1] = e /\ DOMAIN r = 1 .. n + 1
      /\ DOMAIN s = 1 .. n /\ \A j \in 1 .. n : r[j] = s[j]
  BY <1>0, <1>1, <1>2
<1>4. \A j \in 1 .. n : r[j] # e BY <1>3 DEF ToSet
<1>5. ASSUME NEW i \in 1 .. n + 1, NEW j \in 1 .. n + 1, r[i] = r[j] PROVE i = j
  <2>1. CASE i = n + 1 \/ j = n + 1 BY <1>3, <1>4, <1>5, <2>1
  <2>2. CASE i \in 1 .. n /\ j \in 1 .. n BY <1>3, <1>5, <2>2 DEF IsInjective
  <2> QED BY <2>1, <2>2
<1>6. IsInjective(r) BY <1>3, <1>5 DEF IsInjective
<1>7. \A i \in 1 .. n + 1 : i \in 1 .. n \/ i = n + 1 OBVIOUS
<1>8. n + 1 \in 1 .. n + 1 /\ 1 .. n \subseteq 1 .. n + 1 OBVIOUS
<1>9. ToSet(r) = ToSet(s) \cup {e}
  <2>1. ToSet(r) \subseteq ToSet(s) \cup {e} BY <1>3, <1>7 DEF ToSet
  <2>2. ToSet(s) \cup {e} \subseteq ToSet(r) BY <1>3, <1>8 DEF ToSet
  <2> QED BY <2>1, <2>2
<1>10. Last(r) = e BY <1>3 DEF Last
<1> QED BY <1>0, <1>1, <1>3, <1>6, <1>9, <1>10

LEMMA EmptyIs == ASSUME NEW S PROVE <<>> \in Seq(S) /\ IsInjective(<<>>) /\ ToSet(<<>>) = {}
<1>1. <<>> \in Seq(S) /\ DOMAIN <<>> = {} OBVIOUS
<1> QED BY <1>1 DEF IsInjective, ToSet

LEMMA NonemptyIs ==
    ASSUME NEW S, NEW s \in Seq(S)
    PROVE  /\ s = <<>> <=> ToSet(s) = {}
           /\ s # <<>> => Last(s) \in ToSet(s) /\ Head(s) \in ToSet(s)
           /\ ToSet(s) \subseteq S
<1>1. PICK n \in Nat : n = Len(s) /\ DOMAIN s = 1 .. n OBVIOUS
<1>2. s = <<>> => ToSet(s) = {} BY EmptyIs
<1>3. ASSUME s # <<>> PROVE Last(s) \in ToSet(s) /\ Head(s) \in ToSet(s)
  <2>1. n > 0 BY <1>1, <1>3
  <2>2. n \in 1 .. n /\ 1 \in 1 .. n BY <2>1
  <2>3. Head(s) = s[1] BY <1>3
  <2> QED BY <1>1, <2>2, <2>3 DEF Last, ToSet
<1>4. ToSet(s) \subseteq S BY <1>1 DEF ToSet
<1> QED BY <1>2, <1>3, <1>4

\* One of different elements is removed from a list.
LEMMA WithoutIs ==
    ASSUME NEW S, NEW s \in Seq(S), IsInjective(s), NEW e, NEW r, r = Without(s, e)
    PROVE  /\ r \in Seq(S) /\ IsInjective(r) /\ ToSet(r) = ToSet(s) \ {e}
           /\ r # <<>> /\ s # <<>> /\ Last(s) # e => Last(r) = Last(s)
<1>1. CASE e \notin ToSet(s)
  <2>1. r = s BY <1>1 DEF Without
  <2> QED BY <1>1, <2>1
<1>2. CASE e \in ToSet(s)
  <2>1. \E i \in DOMAIN s : s[i] = e BY <1>2 DEF ToSet
  <2>2. PICK p \in DOMAIN s : p = CHOOSE i \in DOMAIN s : s[i] = e BY <2>1
  <2>3. s[p] = e BY <2>1, <2>2
  <2>4. r = RemoveAt(s, p) BY <1>2, <2>2 DEF Without
  <2>5. p \in 1 .. Len(s) OBVIOUS
  <2>6. /\ r \in Seq(S) /\ IsInjective(r) /\ ToSet(r) = ToSet(s) \ {e}
        /\ p # Len(s) => Last(r) = Last(s)
    BY <2>3, <2>4, <2>5, RemovedIs
  <2>7. Last(s) # e => p # Len(s) BY <2>3 DEF Last
  <2> QED BY <2>6, <2>7
<1> QED BY <1>1, <1>2

-----------------------------------------------------------------------------
(* The drawer                                                               *)

Twice == 0 .. 2
SidenavStates ==
    [made : Twice, sidenavs : Twice, handlers : Twice, isOpen : BOOLEAN,
     isDragged : BOOLEAN, percentOpen : Percents, place : {"out", "between", "in"},
     overlay : BOOLEAN, slide : {"none", "in", "out"}, fade : {"none", "in", "out"},
     mixed : BOOLEAN]

\* Under one finger the animations lead to where isOpen says, and a drag keeps the overlay and
\* places the drawer.
OneFinger(n) ==
    /\ n.isDragged => /\ n.slide = "none" /\ n.fade = "none" /\ n.overlay
                      /\ n.percentOpen = "0" <=> n.place = "out"
                      /\ n.percentOpen = "1" <=> n.place = "in"
    /\ ~n.isDragged =>
         /\ n.isOpen <=> (IF n.slide = "none" THEN n.place ELSE n.slide) = "in"
         /\ n.fade = "none" => n.isOpen = n.overlay
         /\ n.fade = "in" => n.isOpen /\ n.overlay
         /\ n.fade = "out" => ~n.isOpen

SidenavFits(n) ==
    /\ n \in SidenavStates
    /\ n.sidenavs = IF n.made = 0 THEN 0 ELSE 1
    /\ n.handlers = n.sidenavs
    /\ n.isOpen \/ n.isDragged => n.made = 2
    /\ ~n.mixed => OneFinger(n)

LEMMA SidenavInitFits == SidenavFits(SidenavInit)
BY DEF SidenavFits, SidenavStates, SidenavInit, OneFinger, Percents, Twice

\* OneFinger does not speak of the lists.
SameDrawer(m, n) ==
    /\ m.isOpen = n.isOpen /\ m.isDragged = n.isDragged /\ m.percentOpen = n.percentOpen
    /\ m.place = n.place /\ m.overlay = n.overlay /\ m.slide = n.slide /\ m.fade = n.fade
    /\ m.mixed = n.mixed
LEMMA SameFinger ==
    ASSUME NEW m, NEW n, SameDrawer(m, n)
    PROVE  OneFinger(m) <=> OneFinger(n)
BY DEF SameDrawer, OneFinger

LEMMA MakeFits ==
    ASSUME NEW n, SidenavFits(n), n.made < 2, NEW d, d = SidenavDestroy(n)
    PROVE  SidenavFits([d EXCEPT !.made = @ + 1, !.sidenavs = @ + 1,
                                 !.handlers = IF d.sidenavs = 0 THEN @ + 1 ELSE @])
<1> n \in SidenavStates BY DEF SidenavFits
<1> 0 \in Twice /\ 1 \in Twice /\ 2 \in Twice BY DEF Twice
<1> n.made \in {0, 1} BY DEF SidenavStates, Twice
<1>1. d \in SidenavStates /\ d.made = n.made /\ d.sidenavs = 0 /\ d.handlers = 0 /\ SameDrawer(d, n)
  <2>1. CASE n.made = 0
    BY <2>1 DEF SidenavFits, SidenavDestroy, SameDrawer
  <2>2. CASE n.made = 1
    <3>1. n.sidenavs = 1 /\ n.sidenavs - 1 = 0
      BY <2>2 DEF SidenavFits
    <3>2. d = [n EXCEPT !.handlers = 0, !.sidenavs = 0]
      BY <2>2, <3>1 DEF SidenavDestroy
    <3> HIDE DEF SidenavDestroy
    <3> QED BY <3>2 DEF SidenavStates, SameDrawer
  <2> QED BY <2>1, <2>2
<1>2. PICK made \in Twice : made = d.made + 1
  BY <1>1
<1> DEFINE m == [d EXCEPT !.made = made, !.sidenavs = 1, !.handlers = 1]
<1>3. m = [d EXCEPT !.made = @ + 1, !.sidenavs = @ + 1,
                    !.handlers = IF d.sidenavs = 0 THEN @ + 1 ELSE @]
  BY <1>1, <1>2
<1>a. m = [d EXCEPT !.made = made, !.sidenavs = 1, !.handlers = 1]
  OBVIOUS
<1> HIDE DEF m
<1>4. m \in SidenavStates /\ m.made = made /\ m.sidenavs = 1 /\ m.handlers = 1 /\ SameDrawer(m, d)
  BY <1>1, <1>a DEF SidenavStates, SameDrawer
<1>b. ~n.isOpen /\ ~n.isDragged BY DEF SidenavFits
<1>5. ~m.mixed => OneFinger(m)
  BY <1>1, <1>4, SameFinger DEF SidenavFits, SameDrawer
<1> QED BY <1>1, <1>2, <1>3, <1>4, <1>b, <1>5 DEF SidenavFits, SameDrawer

LEMMA MixingFits ==
    ASSUME NEW n, SidenavFits(n)
    PROVE  SidenavFits(Mixing(n)) /\ Mixing(n).made = n.made /\ (Mixing(n).mixed \/ ~Mixing(n).isDragged)
BY DEF SidenavFits, SidenavStates, Mixing, OneFinger

LEMMA ClicksFit ==
    ASSUME NEW n, SidenavFits(n), n.made = 2, n.mixed \/ ~n.isDragged
    PROVE  SidenavFits(Open(n)) /\ SidenavFits(Close(n))
<1>1. CASE n.isOpen
  <2>1. SidenavFits(Open(n)) BY <1>1 DEF Open
  <2>2. Close(n) \in SidenavStates
    BY <1>1 DEF SidenavFits, SidenavStates, Close, AnimateOut
  <2>3. SidenavFits(Close(n))
    BY <1>1, <2>2 DEF SidenavFits, SidenavStates, Close, AnimateOut, OneFinger
  <2> QED BY <2>1, <2>3
<1>2. CASE ~n.isOpen
  <2>1. SidenavFits(Close(n)) BY <1>2 DEF Close
  <2> SUFFICES SidenavFits(Open(n)) BY <2>1
  <2>2. CASE n.isDragged /\ n.percentOpen = "1"
    BY <1>2, <2>2 DEF SidenavFits, SidenavStates, Open, OneFinger
  <2>3. CASE ~(n.isDragged /\ n.percentOpen = "1")
    <3>1. Open(n) \in SidenavStates
      BY <1>2, <2>3 DEF SidenavFits, SidenavStates, Open, AnimateIn
    <3>2. CASE n.mixed
      BY <1>2, <2>3, <3>1, <3>2 DEF SidenavFits, SidenavStates, Open, AnimateIn
    <3>3. CASE ~n.isDragged
      BY <1>2, <2>3, <3>1, <3>3 DEF SidenavFits, SidenavStates, Open, AnimateIn, OneFinger
    <3> QED BY <3>2, <3>3
  <2> QED BY <2>2, <2>3
<1> QED BY <1>1, <1>2

LEMMA DragFits ==
    ASSUME NEW n, SidenavFits(n), n.made = 2, NEW percent \in Percents
    PROVE  SidenavFits(Dragged(n, percent))
<1>1. CASE n.isDragged
  <2>1. Dragged(n, percent) \in SidenavStates
    BY <1>1 DEF SidenavFits, SidenavStates, Dragged
  <2> QED BY <1>1, <2>1 DEF SidenavFits, SidenavStates, Dragged, OneFinger
<1>2. CASE ~n.isDragged
  <2>1. Dragged(n, percent) \in SidenavStates
    BY <1>2 DEF SidenavFits, SidenavStates, Dragged
  <2> QED BY <1>2, <2>1 DEF SidenavFits, SidenavStates, Dragged, OneFinger
<1> QED BY <1>1, <1>2 DEF SidenavFits, SidenavStates

\* A finger at the edge of an open drawer is a second one.
Edge(n) == [n EXCEPT !.mixed = @ \/ n.isOpen]
LEMMA EdgeFits ==
    ASSUME NEW n, SidenavFits(n)
    PROVE  SidenavFits(Edge(n)) /\ Edge(n).made = n.made /\ (Edge(n).mixed \/ ~Edge(n).isOpen) /\ Edge(n).isDragged = n.isDragged
BY DEF SidenavFits, SidenavStates, Edge, OneFinger

LEMMA ReleaseEdgeFits ==
    ASSUME NEW n, SidenavFits(n), n.isDragged, n.mixed \/ ~n.isOpen
    PROVE  /\ SidenavFits(Released(AnimateOut(n)))
           /\ SidenavFits(Released(Open(n)))
<1>1. SidenavFits(Released(AnimateOut(n)))
  BY DEF SidenavFits, SidenavStates, Released, AnimateOut, OneFinger
<1>2. CASE n.isOpen
  BY <1>1, <1>2 DEF SidenavFits, SidenavStates, Released, Open, OneFinger
<1>3. CASE ~n.isOpen
  <2> SUFFICES SidenavFits(Released(Open(n))) BY <1>1
  <2>1. CASE n.percentOpen = "1"
    BY <1>3, <2>1 DEF SidenavFits, SidenavStates, Released, Open, OneFinger
  <2>2. CASE n.percentOpen # "1"
    <3>1. Released(Open(n)) \in SidenavStates
      BY <1>3, <2>2 DEF SidenavFits, SidenavStates, Released, Open, AnimateIn
    <3>2. SidenavFits(Released(Open(n)))
      BY <1>3, <2>2, <3>1 DEF SidenavFits, SidenavStates, Released, Open, AnimateIn, OneFinger
    <3> QED BY <3>2
  <2> QED BY <2>1, <2>2
<1> QED BY <1>2, <1>3 DEF SidenavFits, SidenavStates

LEMMA ReleaseDrawerFits ==
    ASSUME NEW n, SidenavFits(n), n.isDragged, n.isOpen
    PROVE  /\ SidenavFits(Released(AnimateIn(n)))
           /\ SidenavFits(Released(Close(n)))
BY DEF SidenavFits, SidenavStates, Released, Close, AnimateOut, AnimateIn, OneFinger

LEMMA EndsFit ==
    ASSUME NEW n, SidenavFits(n)
    PROVE  /\ n.slide # "none" => SidenavFits([n EXCEPT !.place = n.slide, !.slide = "none"])
           /\ n.fade # "none" =>
                SidenavFits([n EXCEPT !.overlay = @ /\ n.fade = "in", !.fade = "none"])
BY DEF SidenavFits, SidenavStates, OneFinger

LEMMA NavFits ==
    ASSUME OnPage("Sidenav"), NEW n, SidenavFits(n),
           Becomes("Sidenav", n) \/ Steps("Sidenav", n) \/ NavBecomes(n)
    PROVE  SidenavFits(nav)'
<1>1. Becomes("Sidenav", n) BY DEF Steps, NavBecomes
<1>2. widget'["Sidenav"] = n BY <1>1, BecomesIs
<1> QED BY <1>2 DEF nav

LEMMA SidenavKeeps ==
    ASSUME OnPage("Sidenav"), SidenavFits(nav), SidenavStep
    PROVE  SidenavFits(nav)'
<1>0. ASSUME NEW n, SidenavFits(n), Becomes("Sidenav", n) \/ Steps("Sidenav", n) \/ NavBecomes(n)
      PROVE  SidenavFits(nav)'
  BY <1>0, NavFits
<1>1. CASE MakeSidenav
  <2>1. PICK n : /\ n = [SidenavDestroy(nav) EXCEPT
                           !.made = @ + 1, !.sidenavs = @ + 1,
                           !.handlers = IF SidenavDestroy(nav).sidenavs = 0 THEN @ + 1 ELSE @]
                 /\ Becomes("Sidenav", n)
    BY <1>1 DEF MakeSidenav
  <2>2. SidenavFits(n) BY <1>1, <2>1, MakeFits DEF MakeSidenav
  <2> QED BY <1>0, <2>1, <2>2
<1>2. CASE ClickTrigger \/ ClickOverlay \/ ClickCloseTrigger
  <2>1. nav.made = 2 BY <1>2 DEF ClickTrigger, ClickOverlay, ClickCloseTrigger, Ready
  <2>2. SidenavFits(Open(Mixing(nav))) /\ SidenavFits(Close(Mixing(nav)))
    BY <2>1, MixingFits, ClicksFit
  <2>3. NavBecomes(Open(Mixing(nav))) \/ NavBecomes(Close(Mixing(nav)))
    BY <1>2 DEF ClickTrigger, ClickOverlay, ClickCloseTrigger
  <2> QED BY <1>0, <2>2, <2>3
<1>3. CASE DragEdge
  <2>1. PICK percent \in Percents : Steps("Sidenav", Dragged(Edge(nav), percent))
    BY <1>3 DEF DragEdge, AtEdge, Edge
  <2>2. nav.made = 2 BY <1>3 DEF DragEdge, Ready
  <2>3. SidenavFits(Edge(nav)) /\ Edge(nav).made = 2 BY <2>2, EdgeFits
  <2>4. SidenavFits(Dragged(Edge(nav), percent)) BY <2>3, DragFits
  <2> QED BY <1>0, <2>1, <2>4
<1>4. CASE ReleaseEdge
  <2>1. \/ NavBecomes(Released(AnimateOut(Edge(nav)))) \/ NavBecomes(Released(Open(Edge(nav))))
    BY <1>4 DEF ReleaseEdge, AtEdge, Edge
  <2>2. Edge(nav).isDragged BY <1>4, EdgeFits DEF ReleaseEdge
  <2>3. /\ SidenavFits(Released(AnimateOut(Edge(nav)))) /\ SidenavFits(Released(Open(Edge(nav))))
    BY <2>2, EdgeFits, ReleaseEdgeFits
  <2> QED BY <1>0, <2>1, <2>3
<1>5. CASE DragDrawer
  <2>1. PICK percent \in Percents : Steps("Sidenav", Dragged(nav, percent)) BY <1>5 DEF DragDrawer
  <2>2. nav.made = 2 BY <1>5 DEF DragDrawer, SidenavFits
  <2>3. SidenavFits(Dragged(nav, percent)) BY <2>2, DragFits
  <2> QED BY <1>0, <2>1, <2>3
<1>6. CASE ReleaseDrawer
  BY <1>0, <1>6, ReleaseDrawerFits DEF ReleaseDrawer
<1>7. CASE SlideEnds \/ FadeEnds
  BY <1>0, <1>7, EndsFit DEF SlideEnds, FadeEnds
<1> QED
  BY <1>1, <1>2, <1>3, <1>4, <1>5, <1>6, <1>7 DEF SidenavStep

LEMMA SidenavGives ==
    ASSUME SidenavFits(nav)
    PROVE  SidenavTypeOK /\ SidenavShowsState /\ SidenavListensOnce
BY DEF SidenavFits, SidenavStates, SidenavTypeOK, Twice, SidenavShowsState, SidenavSettled, OneFinger,
       SidenavListensOnce

-----------------------------------------------------------------------------
(* Modals                                                                   *)

Heights == 0 .. Cardinality(Modals)
ModalStates ==
    [dismissible : [Modals -> BOOLEAN], isOpen : [Modals -> BOOLEAN], _modalsOpen : Heights,
     _nthModalOpened : [Modals -> Heights], displayed : [Modals -> BOOLEAN],
     overlay : [Modals -> BOOLEAN], anim : [Modals -> {"none", "in", "out"}]]

OpenOf(s) == {m \in Modals : s.isOpen[m]}
EscapeClosesAll(s) == \A m \in Modals : s.dismissible[m]

\* The animation of a modal leads to what isOpen says.
AnimatesTo(s, m) ==
    /\ s.anim[m] = "none" => s.displayed[m] = s.isOpen[m] /\ s.overlay[m] = s.isOpen[m]
    /\ s.anim[m] = "in" => s.isOpen[m] /\ s.displayed[m] /\ s.overlay[m]
    /\ s.anim[m] = "out" => ~s.isOpen[m]

\* The open modals lie at the heights 1, 2 and so on, no two at the same.
Stacked(s) ==
    /\ \A m \in OpenOf(s) : s._nthModalOpened[m] \in 1 .. s._modalsOpen
    /\ \A h \in 1 .. s._modalsOpen : \E m \in OpenOf(s) : s._nthModalOpened[m] = h
    /\ \A m, o \in OpenOf(s) : s._nthModalOpened[m] = s._nthModalOpened[o] => m = o

ModalFits(s) ==
    /\ s \in ModalStates
    /\ s._modalsOpen = Cardinality(OpenOf(s))
    /\ \A m \in Modals : AnimatesTo(s, m)
    /\ EscapeClosesAll(s) => Stacked(s)

LEMMA SomeModals ==
    ASSUME NEW S \in SUBSET Modals
    PROVE  IsFiniteSet(S) /\ Cardinality(S) \in Heights /\ Cardinality(S) \in Nat
<1>1. IsFiniteSet(S) /\ Cardinality(S) <= Cardinality(Modals)
  BY ModalAssumption, FS_Subset
<1>2. Cardinality(S) \in Nat /\ Cardinality(Modals) \in Nat
  BY <1>1, ModalAssumption, FS_CardinalityType
<1> QED BY <1>1, <1>2 DEF Heights

LEMMA ZeroHeight == 0 \in Heights
BY SomeModals, FS_EmptySet

LEMMA ModalInitFits == ASSUME NEW s \in ModalInit PROVE ModalFits(s)
<1>1. PICK dismissible \in [Modals -> BOOLEAN] :
        s = [dismissible |-> dismissible, isOpen |-> [m \in Modals |-> FALSE], _modalsOpen |-> 0,
             _nthModalOpened |-> [m \in Modals |-> 0], displayed |-> [m \in Modals |-> FALSE],
             overlay |-> [m \in Modals |-> FALSE], anim |-> [m \in Modals |-> "none"]]
  BY DEF ModalInit
<1>2. Cardinality({}) = 0 BY FS_EmptySet
<1>3. 0 \in Heights BY ZeroHeight
<1>4. s \in ModalStates BY <1>1, <1>3 DEF ModalStates
<1>5. OpenOf(s) = {} BY <1>1 DEF OpenOf
<1>6. \A m \in Modals : AnimatesTo(s, m) BY <1>1 DEF AnimatesTo
<1>7. Stacked(s)
  <2>1. s._modalsOpen = 0 BY <1>1
  <2> QED BY <1>5, <2>1 DEF Stacked
<1> QED BY <1>1, <1>2, <1>4, <1>5, <1>6, <1>7 DEF ModalFits

OpenedModal(s, m) ==
    [s EXCEPT !.isOpen[m] = TRUE, !._modalsOpen = @ + 1, !._nthModalOpened[m] = s._modalsOpen + 1,
              !.displayed[m] = TRUE, !.overlay[m] = TRUE, !.anim[m] = "in"]

LEMMA OpenedFits ==
    ASSUME NEW s, ModalFits(s), NEW m \in Modals, ~s.isOpen[m]
    PROVE  ModalFits(OpenedModal(s, m))
<1> DEFINE r == OpenedModal(s, m)
           k == s._modalsOpen
<1> s \in ModalStates BY DEF ModalFits
<1>1. m \notin OpenOf(s) /\ OpenOf(s) \cup {m} \subseteq Modals /\ OpenOf(s) \in SUBSET Modals
  BY DEF OpenOf
<1>2. Cardinality(OpenOf(s) \cup {m}) = k + 1
  BY <1>1, SomeModals, FS_AddElement DEF ModalFits
<1>3. k \in Nat /\ k + 1 \in Heights
  BY <1>1, <1>2, SomeModals DEF ModalFits
<1>4. /\ r \in ModalStates
      /\ r.dismissible = s.dismissible /\ r._modalsOpen = k + 1
      /\ r.isOpen = [s.isOpen EXCEPT ![m] = TRUE]
      /\ r._nthModalOpened = [s._nthModalOpened EXCEPT ![m] = k + 1]
      /\ r.displayed = [s.displayed EXCEPT ![m] = TRUE]
      /\ r.overlay = [s.overlay EXCEPT ![m] = TRUE]
      /\ r.anim = [s.anim EXCEPT ![m] = "in"]
  BY <1>3 DEF ModalStates, OpenedModal
<1> HIDE DEF r
<1>5. OpenOf(r) = OpenOf(s) \cup {m}
  BY <1>4 DEF OpenOf, ModalStates
<1>6. ASSUME NEW o \in Modals PROVE AnimatesTo(r, o)
  <2>1. CASE o = m
    <3>1. /\ r.isOpen[o] = TRUE /\ r.displayed[o] = TRUE
          /\ r.overlay[o] = TRUE /\ r.anim[o] = "in"
      BY <1>4, <2>1 DEF ModalStates
    <3> QED BY <3>1 DEF AnimatesTo
  <2>2. CASE o # m
    <3>1. /\ r.isOpen[o] = s.isOpen[o] /\ r.displayed[o] = s.displayed[o]
          /\ r.overlay[o] = s.overlay[o] /\ r.anim[o] = s.anim[o]
      BY <1>4, <2>2 DEF ModalStates
    <3>2. AnimatesTo(s, o) BY DEF ModalFits
    <3> QED BY <3>1, <3>2 DEF AnimatesTo
  <2> QED BY <2>1, <2>2
<1>7. ASSUME EscapeClosesAll(r) PROVE Stacked(r)
  <2>1. Stacked(s) BY <1>4, <1>7 DEF ModalFits, EscapeClosesAll
  <2>2. \A o \in OpenOf(r) : r._nthModalOpened[o] = IF o = m THEN k + 1 ELSE s._nthModalOpened[o]
    BY <1>4 DEF OpenOf, ModalStates
  <2>3. \A o \in OpenOf(s) : r._nthModalOpened[o] = s._nthModalOpened[o]
                             /\ s._nthModalOpened[o] \in 1 .. k
    BY <1>1, <1>5, <2>1, <2>2 DEF Stacked
  <2>4. r._nthModalOpened[m] = k + 1 BY <1>5, <2>2
  <2> QED BY <1>3, <1>4, <1>5, <2>1, <2>3, <2>4 DEF Stacked
<1> QED BY <1>2, <1>4, <1>5, <1>6, <1>7 DEF ModalFits, r

ClosedModals(s, closed) ==
    [s EXCEPT !.isOpen = [m \in Modals |-> @[m] /\ m \notin closed],
              !._modalsOpen = @ - Cardinality(closed),
              !._nthModalOpened = [m \in Modals |-> IF m \in closed THEN 0 ELSE @[m]],
              !.anim = [m \in Modals |-> IF m \in closed THEN "out" ELSE @[m]]]

\* All of the open modals are closed, or the one on top.
LEMMA ClosedFits ==
    ASSUME NEW s, ModalFits(s), NEW closed \in SUBSET OpenOf(s),
           EscapeClosesAll(s) =>
             \/ closed = OpenOf(s)
             \/ \E m \in OpenOf(s) : /\ closed = {m}
                                     /\ \A o \in OpenOf(s) :
                                          s._nthModalOpened[o] <= s._nthModalOpened[m]
    PROVE  ModalFits(ClosedModals(s, closed))
<1> DEFINE r == ClosedModals(s, closed)
           k == s._modalsOpen
           j == Cardinality(closed)
<1> s \in ModalStates BY DEF ModalFits
<1>1. OpenOf(s) \in SUBSET Modals /\ closed \in SUBSET Modals /\ OpenOf(s) \ closed \in SUBSET Modals
      /\ OpenOf(s) \cap closed = closed
  BY DEF OpenOf
<1>2. Cardinality(OpenOf(s) \ closed) = k - j
  <2>1. IsFiniteSet(OpenOf(s)) /\ IsFiniteSet(closed) BY <1>1, SomeModals
  <2>2. Cardinality(OpenOf(s) \ closed) = Cardinality(OpenOf(s)) - Cardinality(OpenOf(s) \cap closed)
    BY <2>1, FS_Difference
  <2> QED BY <1>1, <2>2 DEF ModalFits
<1>3. k \in Nat /\ j \in Nat /\ k - j \in Heights /\ k - j \in Nat
  BY <1>1, <1>2, SomeModals DEF ModalFits
<1> HIDE DEF j
<1>a. 0 \in Heights
  BY ZeroHeight
<1>4. /\ r \in ModalStates
      /\ r.dismissible = s.dismissible /\ r._modalsOpen = k - j
      /\ r.isOpen = [m \in Modals |-> s.isOpen[m] /\ m \notin closed]
      /\ r._nthModalOpened = [m \in Modals |-> IF m \in closed THEN 0 ELSE s._nthModalOpened[m]]
      /\ r.displayed = s.displayed /\ r.overlay = s.overlay
      /\ r.anim = [m \in Modals |-> IF m \in closed THEN "out" ELSE s.anim[m]]
  BY <1>3, <1>a DEF ModalStates, ClosedModals, j
<1> HIDE DEF r
<1>5. OpenOf(r) = OpenOf(s) \ closed
  BY <1>4 DEF OpenOf, ModalStates
<1>6. \A o \in Modals : AnimatesTo(r, o)
  BY <1>1, <1>4 DEF ModalFits, AnimatesTo, ModalStates, OpenOf
<1>7. ASSUME EscapeClosesAll(r) PROVE Stacked(r)
  <2>1. Stacked(s) /\ EscapeClosesAll(s) BY <1>4, <1>7 DEF ModalFits, EscapeClosesAll
  <2>2. \A o \in OpenOf(r) : r._nthModalOpened[o] = s._nthModalOpened[o]
    BY <1>1, <1>4, <1>5
  <2>3. CASE closed = OpenOf(s)
    <3>1. OpenOf(r) = {} /\ k - j = 0
      BY <1>5, <2>3, <1>3 DEF ModalFits, j
    <3> QED BY <3>1, <1>4 DEF Stacked
  <2>4. ASSUME NEW m \in OpenOf(s), closed = {m},
               \A o \in OpenOf(s) : s._nthModalOpened[o] <= s._nthModalOpened[m]
        PROVE  Stacked(r)
    <3>1. j = 1 BY <2>4, FS_Singleton DEF j
    <3>2. s._nthModalOpened[m] \in 1 .. k BY <2>1 DEF Stacked
    <3>3. PICK o \in OpenOf(s) : s._nthModalOpened[o] = k
      BY <1>3, <2>1, <3>2 DEF Stacked
    <3>4. s._nthModalOpened[m] = k
      BY <1>3, <2>4, <3>2, <3>3
    <3>5. \A p \in OpenOf(r) : p \in OpenOf(s) /\ s._nthModalOpened[p] \in 1 .. k - 1
      BY <1>3, <1>5, <2>1, <2>4, <3>4 DEF Stacked
    <3>6. ASSUME NEW h \in 1 .. k - 1 PROVE \E p \in OpenOf(r) : s._nthModalOpened[p] = h
      <4>1. PICK p \in OpenOf(s) : s._nthModalOpened[p] = h
        BY <1>3, <2>1 DEF Stacked
      <4>2. p # m BY <1>3, <3>4, <4>1
      <4> QED BY <1>5, <2>4, <4>1, <4>2
    <3>7. r._modalsOpen = k - 1 BY <1>4, <3>1
    <3>8. \A p \in OpenOf(r) : r._nthModalOpened[p] \in 1 .. r._modalsOpen
      BY <2>2, <3>5, <3>7
    <3>9. \A h \in 1 .. r._modalsOpen : \E p \in OpenOf(r) : r._nthModalOpened[p] = h
      BY <2>2, <3>6, <3>7
    <3>10. \A p, q \in OpenOf(r) : r._nthModalOpened[p] = r._nthModalOpened[q] => p = q
      BY <2>1, <2>2, <3>5 DEF Stacked
    <3> QED BY <3>8, <3>9, <3>10 DEF Stacked
  <2> QED BY <2>1, <2>3, <2>4
<1> QED BY <1>2, <1>4, <1>5, <1>6, <1>7 DEF ModalFits, r, j

AnimatedModal(s, m) ==
    [s EXCEPT !.anim[m] = "none", !.displayed[m] = @ /\ s.anim[m] = "in",
              !.overlay[m] = @ /\ s.anim[m] = "in"]

LEMMA AnimatedFits ==
    ASSUME NEW s, ModalFits(s), NEW m \in Modals, s.anim[m] # "none"
    PROVE  ModalFits(AnimatedModal(s, m))
<1> DEFINE r == AnimatedModal(s, m)
<1> s \in ModalStates BY DEF ModalFits
<1>1. /\ r \in ModalStates
      /\ r.dismissible = s.dismissible /\ r._modalsOpen = s._modalsOpen
      /\ r.isOpen = s.isOpen /\ r._nthModalOpened = s._nthModalOpened
      /\ r.displayed = [s.displayed EXCEPT ![m] = @ /\ s.anim[m] = "in"]
      /\ r.overlay = [s.overlay EXCEPT ![m] = @ /\ s.anim[m] = "in"]
      /\ r.anim = [s.anim EXCEPT ![m] = "none"]
  BY DEF ModalStates, AnimatedModal
<1> HIDE DEF r
<1>2. OpenOf(r) = OpenOf(s) BY <1>1 DEF OpenOf
<1>3. \A o \in Modals : AnimatesTo(r, o)
  BY <1>1 DEF ModalFits, AnimatesTo, ModalStates
<1>4. EscapeClosesAll(r) => Stacked(r)
  BY <1>1, <1>2 DEF ModalFits, EscapeClosesAll, Stacked
<1> QED BY <1>1, <1>2, <1>3, <1>4 DEF ModalFits, r

LEMMA ModalBecomesFits ==
    ASSUME OnPage("Modal"), NEW s, ModalFits(s), Becomes("Modal", s)
    PROVE  ModalFits(ms)'
BY BecomesIs DEF ms

LEMMA ModalKeeps ==
    ASSUME OnPage("Modal"), ModalFits(ms), ModalStep
    PROVE  ModalFits(ms)'
<1>0. OpenModals = OpenOf(ms) BY DEF OpenModals, OpenOf
<1>1. ASSUME NEW m \in Modals, OpenModal(m) PROVE ModalFits(ms)'
  BY <1>1, OpenedFits, ModalBecomesFits DEF OpenModal, OpenedModal
<1>2. ASSUME NEW m \in Modals, ClickModalClose(m) \/ ClickModalOverlay(m) PROVE ModalFits(ms)'
  <2>1. /\ m \in OpenOf(ms)
        /\ \A o \in OpenOf(ms) : ms._nthModalOpened[o] <= ms._nthModalOpened[m]
        /\ Becomes("Modal", ClosedModals(ms, {m}))
    BY <1>0, <1>2 DEF ClickModalClose, ClickModalOverlay, OnTop, CloseModals, ClosedModals
  <2>2. ModalFits(ClosedModals(ms, {m})) BY <2>1, ClosedFits
  <2> QED BY <2>1, <2>2, ModalBecomesFits
<1>3. CASE PressEscape
  <2> DEFINE listening == {m \in OpenModals : ms.dismissible[m]}
  <2>1. Becomes("Modal", ClosedModals(ms, listening))
    BY <1>3 DEF PressEscape, CloseModals, ClosedModals
  <2>2. listening \in SUBSET OpenOf(ms) /\ (EscapeClosesAll(ms) => listening = OpenOf(ms))
    BY <1>0 DEF EscapeClosesAll, OpenOf
  <2> HIDE DEF listening
  <2>3. ModalFits(ClosedModals(ms, listening)) BY <2>2, ClosedFits
  <2> QED BY <2>1, <2>3, ModalBecomesFits
<1>4. ASSUME NEW m \in Modals, ModalAnimated(m) PROVE ModalFits(ms)'
  BY <1>4, AnimatedFits, ModalBecomesFits DEF ModalAnimated, AnimatedModal, Steps
<1> QED BY <1>1, <1>2, <1>3, <1>4 DEF ModalStep

LEMMA ModalGives ==
    ASSUME ModalFits(ms)
    PROVE  ModalTypeOK /\ ModalShowsState /\ ModalsStackUp
<1>0. OpenModals = OpenOf(ms) BY DEF OpenModals, OpenOf
<1>1. ModalTypeOK BY DEF ModalFits, ModalStates, ModalTypeOK, Heights
<1>2. ModalShowsState BY DEF ModalFits, AnimatesTo, ModalShowsState
<1>3. ModalsStackUp
  BY <1>0 DEF ModalFits, ModalsStackUp, Stacked, EscapeClosesAll
<1> QED BY <1>1, <1>2, <1>3

-----------------------------------------------------------------------------
(* The tooltip                                                              *)

TooltipStates ==
    [isOpen : BOOLEAN, isHovered : BOOLEAN, isFocused : BOOLEAN,
     enter : {"none", "manual", "user"}, exit : BOOLEAN, shown : BOOLEAN, hasty : BOOLEAN]

Attended(t) == t.isHovered \/ t.isFocused

\* Only an open tooltip is attended to, and one that the user opens is.  The delays lead to what
\* isOpen says: an open one shows or will, and one that a delay may hide is attended to; a
\* closed one does not show or a delay will hide it, and no delay of a script's will show it.
TooltipFits(t) ==
    /\ t \in TooltipStates
    /\ Attended(t) => t.isOpen
    /\ t.isOpen /\ t.enter = "user" => Attended(t)
    /\ ~t.hasty /\ t.isOpen => (t.exit => Attended(t)) /\ (t.enter # "none" \/ t.shown)
    /\ ~t.hasty /\ ~t.isOpen => t.enter # "manual" /\ (t.exit \/ ~t.shown)

LEMMA TooltipInitFits == TooltipFits(TooltipInit)
BY DEF TooltipFits, TooltipStates, TooltipInit, Attended

LEMMA OpenTipFits ==
    ASSUME NEW t, TooltipFits(t)
    PROVE  /\ TooltipFits(OpenTip(t, "manual"))
           /\ TooltipFits(OpenTip([t EXCEPT !.isHovered = TRUE, !.isFocused = FALSE], "user"))
           /\ TooltipFits(OpenTip([t EXCEPT !.isFocused = TRUE], "user"))
<1>1. TooltipFits(OpenTip(t, "manual"))
  BY DEF TooltipFits, TooltipStates, OpenTip, Attended
<1>2. TooltipFits(OpenTip([t EXCEPT !.isHovered = TRUE, !.isFocused = FALSE], "user"))
  BY DEF TooltipFits, TooltipStates, OpenTip, Attended
<1>3. TooltipFits(OpenTip([t EXCEPT !.isFocused = TRUE], "user"))
  BY DEF TooltipFits, TooltipStates, OpenTip, Attended
<1> QED BY <1>1, <1>2, <1>3

LEMMA CloseTipFits ==
    ASSUME NEW t, TooltipFits(t)
    PROVE  /\ TooltipFits(CloseTip(t))
           /\ TooltipFits(CloseTip([t EXCEPT !.isHovered = FALSE, !.isFocused = FALSE]))
           /\ TooltipFits(CloseTip([t EXCEPT !.isFocused = FALSE]))
<1>1. TooltipFits(CloseTip(t))
  BY DEF TooltipFits, TooltipStates, CloseTip, Attended
<1>2. TooltipFits(CloseTip([t EXCEPT !.isHovered = FALSE, !.isFocused = FALSE]))
  BY DEF TooltipFits, TooltipStates, CloseTip, Attended
<1>3. TooltipFits(CloseTip([t EXCEPT !.isFocused = FALSE]))
  BY DEF TooltipFits, TooltipStates, CloseTip, Attended
<1> QED BY <1>1, <1>2, <1>3

LEMMA DelaysFit ==
    ASSUME NEW t, TooltipFits(t)
    PROVE  /\ t.enter # "none" => TooltipFits(EnterDelay(t))
           /\ t.exit => TooltipFits(ExitDelay(t))
<1>1. ASSUME t.enter # "none" PROVE TooltipFits(EnterDelay(t))
  BY <1>1 DEF TooltipFits, TooltipStates, EnterDelay, Attended
<1>2. ASSUME t.exit PROVE TooltipFits(ExitDelay(t))
  BY <1>2 DEF TooltipFits, TooltipStates, ExitDelay, Attended
<1> QED BY <1>1, <1>2

LEMMA TooltipKeeps ==
    ASSUME OnPage("Tooltip"), TooltipFits(tip), TooltipStep
    PROVE  TooltipFits(tip)'
<1>1. ASSUME NEW t, TooltipFits(t), TipBecomes(t) PROVE TooltipFits(tip)'
  BY <1>1, BecomesIs DEF tip, TipBecomes, Steps
<1>2. CASE OpenTipByScript \/ EnterTip \/ FocusTip
  BY <1>1, <1>2, OpenTipFits DEF OpenTipByScript, EnterTip, FocusTip
<1>3. CASE CloseTipByScript \/ LeaveTip \/ BlurTip
  BY <1>1, <1>3, CloseTipFits DEF CloseTipByScript, LeaveTip, BlurTip
<1>4. CASE tip.enter # "none" /\ TipBecomes(EnterDelay(tip))
  BY <1>1, <1>4, DelaysFit
<1>5. CASE tip.exit /\ TipBecomes(ExitDelay(tip))
  BY <1>1, <1>5, DelaysFit
<1> QED BY <1>2, <1>3, <1>4, <1>5 DEF TooltipStep

LEMMA TooltipGives == ASSUME TooltipFits(tip) PROVE TooltipTypeOK /\ TooltipShowsState
BY DEF TooltipFits, TooltipStates, Attended, TooltipTypeOK, TooltipShowsState

-----------------------------------------------------------------------------
(* The list of dishes                                                       *)

CollapsibleStates ==
    [accordion : BOOLEAN, active : SUBSET Items, displayed : SUBSET Items,
     slides : [Items -> {"none", "in", "out"}]]

\* The animation of a body leads to what the class of its item says.
SlidesTo(s, i) ==
    /\ s.slides[i] = "none" => (i \in s.active <=> i \in s.displayed)
    /\ s.slides[i] = "in" => i \in s.active /\ i \in s.displayed
    /\ s.slides[i] = "out" => i \notin s.active

CollapsibleFits(s) ==
    /\ s \in CollapsibleStates
    /\ \A i \in Items : SlidesTo(s, i)
    /\ s.accordion => \A i, j \in s.active : i = j

LEMMA CollapsibleInitFits == ASSUME NEW s \in CollapsibleInit PROVE CollapsibleFits(s)
BY DEF CollapsibleInit, CollapsibleFits, CollapsibleStates, SlidesTo

LEMMA CloseAllFits ==
    ASSUME NEW s, CollapsibleFits(s), NEW items \in SUBSET Items
    PROVE  CollapsibleFits(CloseAll(s, items))
<1> DEFINE r == CloseAll(s, items)
<1>1. /\ r \in CollapsibleStates /\ r.accordion = s.accordion
      /\ r.active = s.active \ items /\ r.displayed = s.displayed
      /\ r.slides = [i \in Items |-> IF i \in items \cap s.active THEN "out" ELSE s.slides[i]]
  BY DEF CollapsibleFits, CollapsibleStates, CloseAll
<1> HIDE DEF r
<1> QED BY <1>1 DEF CollapsibleFits, SlidesTo, CollapsibleStates, r

LEMMA OpenItemFits ==
    ASSUME NEW s, CollapsibleFits(s), NEW i \in Items, s.accordion => s.active = {}
    PROVE  CollapsibleFits(OpenItem(s, i))
<1> DEFINE r == OpenItem(s, i)
<1>1. /\ r \in CollapsibleStates /\ r.accordion = s.accordion
      /\ r.active = s.active \cup {i} /\ r.displayed = s.displayed \cup {i}
      /\ r.slides = [s.slides EXCEPT ![i] = "in"]
  BY DEF CollapsibleFits, CollapsibleStates, OpenItem
<1> HIDE DEF r
<1> QED BY <1>1 DEF CollapsibleFits, SlidesTo, CollapsibleStates, r

LEMMA SlidFits ==
    ASSUME NEW s, CollapsibleFits(s), NEW i \in Items, s.slides[i] # "none",
           NEW r, r = [s EXCEPT !.slides[i] = "none",
                                !.displayed = IF s.slides[i] = "out" THEN @ \ {i} ELSE @]
    PROVE  CollapsibleFits(r)
<1>1. /\ r \in CollapsibleStates /\ r.accordion = s.accordion /\ r.active = s.active
      /\ r.displayed = IF s.slides[i] = "out" THEN s.displayed \ {i} ELSE s.displayed
      /\ r.slides = [s.slides EXCEPT ![i] = "none"]
  BY DEF CollapsibleFits, CollapsibleStates
<1> QED BY <1>1 DEF CollapsibleFits, SlidesTo, CollapsibleStates

LEMMA CollapsibleKeeps ==
    ASSUME OnPage("Collapsible"), CollapsibleFits(list), CollapsibleStep
    PROVE  CollapsibleFits(list)'
<1>1. ASSUME NEW s, CollapsibleFits(s), Steps("Collapsible", s) PROVE CollapsibleFits(list)'
  BY <1>1, BecomesIs DEF list, Steps
<1>2. PICK i \in Items : ClickHeader(i) \/ BodySlid(i) BY DEF CollapsibleStep
<1>3. list.active \in SUBSET Items BY DEF CollapsibleFits, CollapsibleStates
<1>4. CASE ClickHeader(i) /\ i \in list.active
  BY <1>1, <1>4, CloseAllFits DEF ClickHeader
<1>5. CASE ClickHeader(i) /\ i \notin list.active
  <2> DEFINE shut == IF list.accordion THEN CloseAll(list, list.active) ELSE list
  <2>1. CollapsibleFits(shut) BY <1>3, CloseAllFits
  <2>2. shut.accordion => shut.active = {} BY DEF CloseAll, CollapsibleFits, CollapsibleStates
  <2> HIDE DEF shut
  <2>3. CollapsibleFits(OpenItem(shut, i)) BY <2>1, <2>2, OpenItemFits
  <2> QED BY <1>1, <1>5, <2>3 DEF ClickHeader, Opened, shut
<1>6. CASE BodySlid(i)
  BY <1>1, <1>6, SlidFits DEF BodySlid
<1> QED BY <1>2, <1>4, <1>5, <1>6

LEMMA CollapsibleGives ==
    ASSUME CollapsibleFits(list) PROVE CollapsibleTypeOK /\ CollapsibleShowsState
<1>1. CollapsibleTypeOK BY DEF CollapsibleFits, CollapsibleStates, CollapsibleTypeOK
<1>2. ASSUME list.accordion PROVE Cardinality(list.active) <= 1
  <2>1. CASE list.active = {} BY <2>1, FS_EmptySet
  <2>2. ASSUME NEW i \in list.active PROVE Cardinality(list.active) <= 1
    <3>1. list.active = {i} BY <1>2 DEF CollapsibleFits
    <3> QED BY <3>1, FS_Singleton
  <2> QED BY <2>1, <2>2
<1> QED BY <1>1, <1>2 DEF CollapsibleFits, SlidesTo, CollapsibleShowsState

-----------------------------------------------------------------------------
(* The menu                                                                 *)

Timers == 0 .. MaxTimers
DropdownStates ==
    [hover : BOOLEAN, closeOnClick : BOOLEAN, focusable : SUBSET Entries, isOpen : BOOLEAN,
     isTouchMoving : BOOLEAN, focusedIndex : Entries \cup {-1}, filterQuery : BOOLEAN,
     forgets : Timers, closes : Timers, listens : BOOLEAN, displayed : BOOLEAN,
     anim : {"none", "in", "out"}]

\* The animation of the menu leads to what isOpen says.
DropdownFits(d) ==
    /\ d \in DropdownStates
    /\ d.listens = d.isOpen
    /\ d.filterQuery => d.forgets # 0
    /\ ~d.isOpen => d.focusedIndex = -1
    /\ IF d.anim = "none" THEN d.displayed = d.isOpen ELSE d.isOpen <=> d.anim = "in"

LEMMA TimersCount ==
    /\ Timers \subseteq Nat /\ 0 \in Timers
    /\ \A n \in Timers : n < MaxTimers => n + 1 \in Timers /\ n + 1 # 0
    /\ \A n \in Timers : n > 0 => n - 1 \in Timers
BY DropdownAssumption DEF Timers

LEMMA DropdownInitFits == ASSUME NEW d \in DropdownInit PROVE DropdownFits(d)
<1>1. PICK hover \in BOOLEAN, closeOnClick \in BOOLEAN, focusable \in SUBSET Entries :
        d = [hover |-> hover, closeOnClick |-> closeOnClick, focusable |-> focusable,
             isOpen |-> FALSE, isTouchMoving |-> FALSE, focusedIndex |-> -1,
             filterQuery |-> FALSE, forgets |-> 0, closes |-> 0, listens |-> FALSE,
             displayed |-> FALSE, anim |-> "none"]
  BY DEF DropdownInit
<1>2. 0 \in Timers /\ -1 \in Entries \cup {-1} BY TimersCount
<1>3. d \in DropdownStates BY <1>1, <1>2 DEF DropdownStates
<1> QED BY <1>1, <1>3 DEF DropdownFits

LEMMA MenuOpensFits ==
    ASSUME NEW d, DropdownFits(d)
    PROVE  DropdownFits(DropdownOpen(d)) /\ DropdownOpen(d).forgets = d.forgets
BY DEF DropdownFits, DropdownStates, DropdownOpen

LEMMA MenuClosesFits ==
    ASSUME NEW d, DropdownFits(d)
    PROVE  DropdownFits(DropdownClose(d)) /\ DropdownClose(d).forgets = d.forgets
BY DEF DropdownFits, DropdownStates, DropdownClose

LEMMA HeardFits ==
    ASSUME NEW d, DropdownFits(d), d.closes < MaxTimers, NEW target
    PROVE  DropdownFits(_handleDocumentClick(d, target)) /\ _handleDocumentClick(d, target).forgets = d.forgets
<1>1. d.closes + 1 \in Timers /\ d.closes \in Timers
  BY TimersCount DEF DropdownFits, DropdownStates
<1>2. PICK closes \in Timers :
        closes = IF target = "content" /\ (~d.closeOnClick \/ d.isTouchMoving)
                 THEN d.closes ELSE d.closes + 1
  BY <1>1
<1>3. _handleDocumentClick(d, target) = IF ~d.listens THEN d
                                        ELSE [d EXCEPT !.isTouchMoving = FALSE, !.closes = closes]
  BY <1>2 DEF _handleDocumentClick
<1> QED BY <1>3 DEF DropdownFits, DropdownStates

LEMMA ClickAtFits ==
    ASSUME NEW d, DropdownFits(d), d.closes < MaxTimers, NEW target
    PROVE  DropdownFits(ClickAt(d, target)) /\ ClickAt(d, target).forgets = d.forgets
BY HeardFits, MenuOpensFits DEF ClickAt

\* The focus is moved on to an entry.
LEMMA NextFocusedIsEntry ==
    ASSUME NEW d, DropdownFits(d), NEW down
    PROVE  NextFocused(d, down) \in Entries \cup {-1}
<1> DEFINE onward == {i \in d.focusable : IF down THEN i > d.focusedIndex ELSE i < d.focusedIndex}
<1>1. d.focusable \in SUBSET Entries /\ d.focusedIndex \in Entries \cup {-1}
  BY DEF DropdownFits, DropdownStates
<1>2. onward \in SUBSET (0 .. MenuSize - 1) BY <1>1 DEF Entries
<1>3. NextFocused(d, down) =
        IF onward = {} THEN d.focusedIndex ELSE IF down THEN Min(onward) ELSE Max(onward)
  BY DEF NextFocused
<1> HIDE DEF onward
<1>4. onward # {} => Min(onward) \in Entries /\ Max(onward) \in Entries
  BY <1>2, LeastAndGreatest, DropdownAssumption DEF Entries
<1> QED BY <1>1, <1>3, <1>4

LEMMA RefocusedFits ==
    ASSUME NEW d, DropdownFits(d), d.listens, NEW i \in Entries \cup {-1}
    PROVE  /\ DropdownFits([d EXCEPT !.focusedIndex = i])
           /\ [d EXCEPT !.focusedIndex = i].forgets = d.forgets
BY DEF DropdownFits, DropdownStates

\* What a key may make of the menu, but for the timer that the key starts.
LetterFits(d) ==
    /\ d \in DropdownStates
    /\ d.listens = d.isOpen
    /\ ~d.isOpen => d.focusedIndex = -1
    /\ IF d.anim = "none" THEN d.displayed = d.isOpen ELSE d.isOpen <=> d.anim = "in"

LEMMA KeyedFits ==
    ASSUME NEW d, DropdownFits(d), d.listens, d.closes < MaxTimers, NEW key,
           NEW e \in Keyed(d, key),
           key \in {"tab", "escape", "down", "up", "enter", "letter"}
    PROVE  LetterFits(e) /\ e.forgets = d.forgets
<1>1. CASE key \in {"tab", "escape"}
  <2>1. e = DropdownClose(d) BY <1>1 DEF Keyed
  <2> QED BY <2>1, MenuClosesFits DEF DropdownFits, LetterFits
<1>2. CASE key \in {"down", "up"}
  <2>1. e = [d EXCEPT !.focusedIndex = NextFocused(d, key = "down")] BY <1>2 DEF Keyed
  <2>2. PICK i \in Entries \cup {-1} : i = NextFocused(d, key = "down")
    BY NextFocusedIsEntry
  <2>3. e = [d EXCEPT !.focusedIndex = i] BY <2>1, <2>2
  <2>4. DropdownFits(e) /\ e.forgets = d.forgets BY <2>3, RefocusedFits
  <2> QED BY <2>4 DEF DropdownFits, LetterFits
<1>3. CASE key = "enter"
  <2>1. CASE e = d BY <2>1 DEF DropdownFits, LetterFits
  <2>2. CASE e = ClickAt(d, "content") BY <2>2, ClickAtFits DEF DropdownFits, LetterFits
  <2> QED BY <1>3, <2>1, <2>2 DEF Keyed
<1>4. CASE key = "letter"
  <2>1. PICK i \in Entries \cup {d.focusedIndex} :
          e = [d EXCEPT !.filterQuery = TRUE, !.focusedIndex = i]
    BY <1>4 DEF Keyed
  <2>2. i \in Entries \cup {-1} BY DEF DropdownFits, DropdownStates
  <2> QED BY <2>1, <2>2 DEF DropdownFits, LetterFits, DropdownStates
<1> QED BY <1>1, <1>2, <1>3, <1>4

LEMMA ForgetsFits ==
    ASSUME NEW e, LetterFits(e), e.forgets < MaxTimers
    PROVE  DropdownFits([e EXCEPT !.forgets = @ + 1])
<1>1. PICK n \in Timers : n = e.forgets + 1 /\ n # 0
  BY TimersCount DEF LetterFits, DropdownStates
<1>2. DropdownFits([e EXCEPT !.forgets = n])
  BY <1>1 DEF LetterFits, DropdownFits, DropdownStates
<1> QED BY <1>1, <1>2

LEMMA TimersFit ==
    ASSUME NEW d, DropdownFits(d)
    PROVE  /\ d.closes > 0 => DropdownFits([d EXCEPT !.closes = @ - 1])
           /\ d.forgets > 0 => DropdownFits([d EXCEPT !.filterQuery = FALSE, !.forgets = @ - 1])
<1>1. ASSUME d.closes > 0 PROVE DropdownFits([d EXCEPT !.closes = @ - 1])
  <2>1. PICK n \in Timers : n = d.closes - 1
    BY <1>1, TimersCount DEF DropdownFits, DropdownStates
  <2>2. DropdownFits([d EXCEPT !.closes = n]) BY DEF DropdownFits, DropdownStates
  <2> QED BY <2>1, <2>2
<1>2. ASSUME d.forgets > 0
      PROVE  DropdownFits([d EXCEPT !.filterQuery = FALSE, !.forgets = @ - 1])
  <2>1. PICK n \in Timers : n = d.forgets - 1
    BY <1>2, TimersCount DEF DropdownFits, DropdownStates
  <2>2. DropdownFits([d EXCEPT !.filterQuery = FALSE, !.forgets = n])
    BY DEF DropdownFits, DropdownStates
  <2> QED BY <2>1, <2>2
<1> QED BY <1>1, <1>2

LEMMA MovesFit ==
    ASSUME NEW d, DropdownFits(d)
    PROVE  /\ DropdownFits([d EXCEPT !.isTouchMoving = TRUE])
           /\ d.anim # "none" =>
                DropdownFits([d EXCEPT !.anim = "none", !.displayed = d.anim = "in"])
BY DEF DropdownFits, DropdownStates

LEMMA DropdownKeeps ==
    ASSUME OnPage("Dropdown"), DropdownFits(menu), DropdownStep
    PROVE  DropdownFits(menu)'
<1>1. ASSUME NEW d, DropdownFits(d), Steps("Dropdown", d) PROVE DropdownFits(menu)'
  BY <1>1, BecomesIs DEF menu, Steps
<1>2. ASSUME NEW target \in Targets, ClickMenu(target) \/ TouchEnd(target)
      PROVE  DropdownFits(menu)'
  BY <1>1, <1>2, ClickAtFits, HeardFits DEF ClickMenu, TouchEnd, MayTime
<1>3. CASE TouchMove \/ MenuAnimated
  BY <1>1, <1>3, MovesFit DEF TouchMove, MenuAnimated
<1>4. CASE MouseEnter \/ MouseLeave \/ TriggerKey
  BY <1>1, <1>4, MenuOpensFits, MenuClosesFits DEF MouseEnter, MouseLeave, TriggerKey
<1>5. CASE CloseTimer
  BY <1>1, <1>5, TimersFit, MenuClosesFits DEF CloseTimer
<1>6. ASSUME NEW key \in {"tab", "escape", "down", "up", "enter", "letter"}, MenuKey(key)
      PROVE  DropdownFits(menu)'
  <2>1. PICK e \in Keyed(menu, key) : Steps("Dropdown", [e EXCEPT !.forgets = @ + 1])
    BY <1>6 DEF MenuKey
  <2>2. LetterFits(e) /\ e.forgets = menu.forgets
    BY <1>6, <2>1, KeyedFits DEF MenuKey, MayTime
  <2>3. e.forgets < MaxTimers BY <1>6, <2>2 DEF MenuKey, MayTime
  <2> QED BY <1>1, <2>1, <2>2, <2>3, ForgetsFits
<1>7. CASE _resetFilterQuery
  BY <1>1, <1>7, TimersFit DEF _resetFilterQuery
<1> QED BY <1>2, <1>3, <1>4, <1>5, <1>6, <1>7 DEF DropdownStep

LEMMA DropdownGives ==
    ASSUME DropdownFits(menu)
    PROVE  DropdownTypeOK /\ DropdownShowsState /\ DropdownListens /\ DropdownForgets
<1>1. menu.forgets \in Nat BY TimersCount DEF DropdownFits, DropdownStates
<1> QED BY <1>1 DEF DropdownFits, DropdownStates, Timers, DropdownTypeOK, DropdownShowsState,
                    DropdownListens, DropdownForgets

-----------------------------------------------------------------------------
(* A text field                                                             *)

TextFieldStates ==
    [validate : BOOLEAN, required : BOOLEAN, hasLength : BOOLEAN, placeholder : BOOLEAN,
     default : {"empty", "good"}, value : Contents, changed : BOOLEAN, focused : BOOLEAN,
     active : BOOLEAN, verdict : Verdicts, reset : BOOLEAN]

TextFieldFits(f) ==
    /\ f \in TextFieldStates
    /\ ~f.reset /\ f.focused => f.active
    /\ ~f.reset /\ ~f.focused => /\ f.active <=> f.value # "empty" \/ f.placeholder
                                 /\ f.verdict \in {"none", VerdictOn(f)}

LEMMA TextFieldInitFits == ASSUME NEW f \in TextFieldInit PROVE TextFieldFits(f)
<1>1. PICK validate \in BOOLEAN, required \in BOOLEAN, hasLength \in BOOLEAN,
           placeholder \in BOOLEAN, default \in {"empty", "good"} :
        f = [validate |-> validate, required |-> required, hasLength |-> hasLength,
             placeholder |-> placeholder, default |-> default, value |-> default,
             changed |-> FALSE, focused |-> FALSE, active |-> default # "empty" \/ placeholder,
             verdict |-> "none", reset |-> FALSE]
  BY DEF TextFieldInit
<1>2. default \in Contents /\ "none" \in Verdicts BY DEF Contents, Verdicts
<1>3. f \in TextFieldStates BY <1>1, <1>2 DEF TextFieldStates
<1> QED BY <1>1, <1>3 DEF TextFieldFits

LEMMA VerdictIsOne == ASSUME NEW f PROVE VerdictOn(f) \in Verdicts
BY DEF VerdictOn, Verdicts

\* What a verdict is on
SameField(f, g) ==
    /\ f.validate = g.validate /\ f.required = g.required /\ f.hasLength = g.hasLength
    /\ f.value = g.value

LEMMA SameVerdict == ASSUME NEW f, NEW g, SameField(f, g) PROVE VerdictOn(f) = VerdictOn(g)
BY DEF SameField, VerdictOn, Accepted

LEMMA ValidatedFits ==
    ASSUME NEW f \in TextFieldStates
    PROVE  /\ validate_field(f) \in TextFieldStates /\ validate_field(f).verdict = VerdictOn(f)
           /\ SameField(validate_field(f), f) /\ validate_field(f).placeholder = f.placeholder
           /\ validate_field(f).focused = f.focused /\ validate_field(f).active = f.active
           /\ validate_field(f).reset = f.reset
<1> PICK verdict \in Verdicts : verdict = VerdictOn(f) BY VerdictIsOne
<1> QED BY DEF TextFieldStates, validate_field, SameField

\* The change event
LEMMA ChangedFits ==
    ASSUME NEW f, TextFieldFits(f)
    PROVE  /\ Changed(f) \in TextFieldStates /\ SameField(Changed(f), f)
           /\ Changed(f).placeholder = f.placeholder /\ Changed(f).focused = f.focused
           /\ Changed(f).reset = f.reset /\ (f.active => Changed(f).active)
<1>1. CASE ~f.changed
  BY <1>1 DEF Changed, SameField, TextFieldFits
<1>2. CASE f.changed
  <2> DEFINE g == [f EXCEPT !.changed = FALSE, !.active = @ \/ f.value # "empty" \/ f.placeholder]
  <2>1. /\ g \in TextFieldStates /\ SameField(g, f) /\ g.placeholder = f.placeholder
        /\ g.focused = f.focused /\ g.reset = f.reset /\ (f.active => g.active)
    BY DEF TextFieldFits, TextFieldStates, SameField
  <2>2. Changed(f) = validate_field(g) BY <1>2 DEF Changed
  <2> HIDE DEF g
  <2> QED BY <2>1, <2>2, ValidatedFits DEF SameField
<1> QED BY <1>1, <1>2

LEMMA FocusFits ==
    ASSUME NEW f, TextFieldFits(f)
    PROVE  /\ TextFieldFits([f EXCEPT !.focused = TRUE, !.active = TRUE, !.reset = FALSE])
           /\ \A value \in Contents : f.focused =>
                TextFieldFits([f EXCEPT !.value = value, !.changed = TRUE])
           /\ TextFieldFits([f EXCEPT !.value = f.default, !.changed = FALSE, !.verdict = "none",
                                      !.active = @ /\ f.value = "empty", !.reset = TRUE])
<1>1. TextFieldFits([f EXCEPT !.focused = TRUE, !.active = TRUE, !.reset = FALSE])
  BY DEF TextFieldFits, TextFieldStates
<1>2. ASSUME NEW value \in Contents, f.focused
      PROVE  TextFieldFits([f EXCEPT !.value = value, !.changed = TRUE])
  BY <1>2 DEF TextFieldFits, TextFieldStates
<1>3. TextFieldFits([f EXCEPT !.value = f.default, !.changed = FALSE, !.verdict = "none",
                              !.active = @ /\ f.value = "empty", !.reset = TRUE])
  <2>1. PICK active \in BOOLEAN : active = (f.active /\ f.value = "empty") OBVIOUS
  <2>2. PICK value \in Contents : value = f.default
    BY DEF TextFieldFits, TextFieldStates, Contents
  <2>3. "none" \in Verdicts BY DEF Verdicts
  <2>4. TextFieldFits([f EXCEPT !.value = value, !.changed = FALSE, !.verdict = "none",
                                !.active = active, !.reset = TRUE])
    BY <2>3 DEF TextFieldFits, TextFieldStates
  <2> QED BY <2>1, <2>2, <2>4
<1> QED BY <1>1, <1>2, <1>3

LEMMA BlurFits ==
    ASSUME NEW f, TextFieldFits(f), f.focused
    PROVE  TextFieldFits(validate_field([Changed(f) EXCEPT !.focused = FALSE,
               !.active = @ /\ (Changed(f).value # "empty" \/ Changed(f).placeholder)]))
<1> PICK g : g = Changed(f) OBVIOUS
<1>1. /\ g \in TextFieldStates /\ g.reset = f.reset /\ (f.active => g.active)
  BY ChangedFits
<1>h. PICK active \in BOOLEAN : active = (g.active /\ (g.value # "empty" \/ g.placeholder))
  OBVIOUS
<1> DEFINE h == [g EXCEPT !.focused = FALSE, !.active = active]
<1>2. /\ h \in TextFieldStates /\ h.reset = g.reset /\ ~h.focused
      /\ h.value = g.value /\ h.placeholder = g.placeholder
      /\ h.active = active
  BY <1>1 DEF TextFieldStates
<1> HIDE DEF h
<1> PICK r : r = validate_field(h) OBVIOUS
<1>3. /\ r \in TextFieldStates /\ r.verdict = VerdictOn(h) /\ SameField(r, h)
      /\ r.placeholder = h.placeholder /\ r.focused = h.focused /\ r.active = h.active
      /\ r.reset = h.reset
  BY <1>2, ValidatedFits
<1>4. r.verdict = VerdictOn(r) BY <1>3, SameVerdict
<1>5. TextFieldFits(r)
  BY <1>1, <1>h, <1>2, <1>3, <1>4 DEF TextFieldFits, SameField
<1> QED BY <1>h, <1>5 DEF h

LEMMA TextFieldKeeps ==
    ASSUME OnPage("TextField"), TextFieldFits(field), TextFieldStep
    PROVE  TextFieldFits(field)'
<1>1. ASSUME NEW f, TextFieldFits(f), FieldBecomes(f) PROVE TextFieldFits(field)'
  BY <1>1, BecomesIs DEF field, FieldBecomes, Steps
<1>2. CASE FocusTextField \/ TypeInTextField \/ ResetTextField
  BY <1>1, <1>2, FocusFits DEF FocusTextField, TypeInTextField, ResetTextField
<1>3. CASE PressEnterInTextField
  <2>1. TextFieldFits(Changed(field))
    BY <1>3, ChangedFits DEF PressEnterInTextField, TextFieldFits
  <2> QED BY <1>1, <1>3, <2>1 DEF PressEnterInTextField
<1>4. CASE BlurTextField
  BY <1>1, <1>4, BlurFits DEF BlurTextField
<1> QED BY <1>2, <1>3, <1>4 DEF TextFieldStep

LEMMA TextFieldGives == ASSUME TextFieldFits(field) PROVE TextFieldTypeOK /\ FieldsShowState
BY DEF TextFieldFits, TextFieldStates, TextFieldTypeOK, FieldsShowState

-----------------------------------------------------------------------------
(* An area of text                                                          *)

Lines == 1 .. MostLines
TextAreaStates ==
    [lines : Lines, length : 0 .. MostLines, original : Lines, previous : 0 .. MostLines,
     height : Lines, typing : BOOLEAN]

TextAreaFits(a) ==
    /\ a \in TextAreaStates
    /\ ~a.typing => a.lines <= a.height
    /\ a.original <= a.height

LEMMA ResizedFits ==
    ASSUME NEW a \in TextAreaStates, a.original <= a.height
    PROVE  TextAreaFits(textareaAutoResize(a))
<1> PICK height \in Lines :
      height = IF a.original <= a.lines THEN a.lines
               ELSE IF a.length < a.previous THEN a.original ELSE a.height
  BY DEF TextAreaStates
<1>1. textareaAutoResize(a) = [a EXCEPT !.previous = a.length, !.typing = FALSE, !.height = height]
  BY DEF textareaAutoResize
<1>2. Lines \subseteq Nat BY FormsAssumption DEF Lines
<1> PICK lines \in Nat, original \in Nat, most \in Nat :
      lines = a.lines /\ original = a.original /\ most = a.height
  BY <1>2 DEF TextAreaStates
<1>3. lines <= height /\ original <= height
  <2>1. CASE original <= lines BY <1>2, <2>1
  <2>2. CASE ~(original <= lines)
    <3>1. lines <= most /\ lines <= original /\ original <= original /\ original <= most BY <2>2
    <3>2. height = original \/ height = most BY <2>2
    <3> QED BY <3>1, <3>2
  <2> QED BY <2>1, <2>2
<1> PICK b : b = textareaAutoResize(a) OBVIOUS
<1>4. b \in TextAreaStates /\ b.height = height /\ b.lines = lines /\ b.original = original
  BY <1>1 DEF TextAreaStates
<1> QED BY <1>3, <1>4 DEF TextAreaFits

LEMMA TextAreaInitFits == ASSUME NEW a \in TextAreaInit PROVE TextAreaFits(a)
<1>1. PICK n \in Lines, original \in Lines :
        a = textareaAutoResize([lines |-> n, length |-> n, original |-> original, previous |-> n,
                                height |-> original, typing |-> FALSE])
  BY DEF TextAreaInit, Lines
<1> PICK b : b = [lines |-> n, length |-> n, original |-> original, previous |-> n,
                  height |-> original, typing |-> FALSE]
  OBVIOUS
<1>2. n \in 0 .. MostLines /\ original <= original BY FormsAssumption DEF Lines
<1>3. b \in TextAreaStates /\ b.original <= b.height BY <1>2 DEF TextAreaStates
<1> QED BY <1>1, <1>3, ResizedFits

LEMMA TextAreaKeeps ==
    ASSUME OnPage("TextArea"), TextAreaFits(area), TextAreaStep
    PROVE  TextAreaFits(area)'
<1>1. ASSUME NEW a, TextAreaFits(a), Steps("TextArea", a) PROVE TextAreaFits(area)'
  BY <1>1, BecomesIs DEF area, Steps
<1>2. CASE KeyInArea
  BY <1>1, <1>2, ResizedFits DEF KeyInArea, TextAreaFits
<1>3. CASE TypeInArea
  <2>0. PICK lines \in Lines : \E length \in lines - 1 .. MostLines :
          Steps("TextArea", [area EXCEPT !.lines = lines, !.length = length, !.typing = TRUE])
    BY <1>3 DEF TypeInArea, Lines
  <2>1. PICK length \in lines - 1 .. MostLines :
          Steps("TextArea", [area EXCEPT !.lines = lines, !.length = length, !.typing = TRUE])
    BY <2>0
  <2>2. length \in 0 .. MostLines BY FormsAssumption DEF Lines
  <2>3. TextAreaFits([area EXCEPT !.lines = lines, !.length = length, !.typing = TRUE])
    BY <2>2 DEF TextAreaFits, TextAreaStates
  <2> QED BY <1>1, <2>1, <2>3
<1> QED BY <1>2, <1>3 DEF TextAreaStep

LEMMA TextAreaGives == ASSUME TextAreaFits(area) PROVE TextAreaTypeOK /\ AreasShowState
BY DEF TextAreaFits, TextAreaStates, Lines, TextAreaTypeOK, AreasShowState

-----------------------------------------------------------------------------
(* A select                                                                 *)

FormSelectStates ==
    [isMultiple : BOOLEAN, first : SUBSET Options, selected : SUBSET Options,
     _keysSelected : SUBSET Options, marked : SUBSET Options, input : SUBSET Options,
     isOpen : BOOLEAN, closing : BOOLEAN, resetting : BOOLEAN, stale : BOOLEAN]

AtMostOne(S) == \A o, p \in S : o = p

\* The entries of the menu and the keys are those selected.
MenuAgrees(s) ==
    /\ s.marked \cap Enabled = s.selected \cap Enabled
    /\ s.isMultiple => s._keysSelected \cap Enabled = s.selected \cap Enabled

FormSelectFits(s) ==
    /\ s \in FormSelectStates
    /\ AtMostOne(s.first)
    /\ ~s.resetting => s.input = TextsOf(s.selected)
    /\ ~s.stale => MenuAgrees(s)
    /\ ~s.isMultiple => AtMostOne(s.selected)

LEMMA TextsAreOptions == ASSUME NEW S \in SUBSET Options PROVE TextsOf(S) \in SUBSET Options
BY FormSelectAssumption DEF TextsOf, Options, Placeholder

LEMMA FormSelectInitFits == ASSUME NEW s \in FormSelectInit PROVE FormSelectFits(s)
<1>1. PICK isMultiple \in BOOLEAN, first \in {{Placeholder}, {}, {1}} :
        s = [isMultiple |-> isMultiple, first |-> first, selected |-> first,
             _keysSelected |-> first, marked |-> first, input |-> TextsOf(first),
             isOpen |-> FALSE, closing |-> FALSE, resetting |-> FALSE, stale |-> FALSE]
  BY DEF FormSelectInit
<1>2. first \in SUBSET Options /\ AtMostOne(first)
  BY FormSelectAssumption DEF Options, Placeholder, AtMostOne
<1>3. TextsOf(first) \in SUBSET Options BY <1>2, TextsAreOptions
<1>4. s \in FormSelectStates BY <1>1, <1>2, <1>3 DEF FormSelectStates
<1> QED BY <1>1, <1>2, <1>4 DEF FormSelectFits, MenuAgrees

\* A toggled entry is marked and among the keys, or neither; other entries stay as they are.
LEMMA ToggledIs ==
    ASSUME NEW s \in FormSelectStates, NEW o \in Options,
           NEW t, t = _toggleEntryFromArray(s, o)
    PROVE  /\ t \in FormSelectStates
           /\ t.isMultiple = s.isMultiple /\ t.first = s.first /\ t.selected = s.selected
           /\ t.input = s.input /\ t.resetting = s.resetting /\ t.stale = s.stale
           /\ (o \in t._keysSelected <=> o \notin s._keysSelected)
           /\ (o \in t.marked <=> o \notin s._keysSelected)
           /\ \A p \in Options : p # o => /\ (p \in t._keysSelected <=> p \in s._keysSelected)
                                         /\ (p \in t.marked <=> p \in s.marked)
<1>1. CASE o \in s._keysSelected
  <2>0. PICK keys \in SUBSET Options, marked \in SUBSET Options :
        keys = s._keysSelected \ {o} /\ marked = s.marked \ {o}
    BY DEF FormSelectStates
  <2>1. t = [s EXCEPT !._keysSelected = keys, !.marked = marked]
    BY <1>1, <2>0 DEF _toggleEntryFromArray
  <2>2. /\ t \in FormSelectStates /\ t._keysSelected = keys /\ t.marked = marked
        /\ t.isMultiple = s.isMultiple /\ t.first = s.first /\ t.selected = s.selected
        /\ t.input = s.input /\ t.resetting = s.resetting /\ t.stale = s.stale
    BY <2>1 DEF FormSelectStates
  <2>3. \A p \in Options : p # o => /\ (p \in keys <=> p \in s._keysSelected)
                                    /\ (p \in marked <=> p \in s.marked)
    BY <2>0
  <2>4. o \notin keys /\ o \notin marked BY <2>0
  <2> QED BY <1>1, <2>2, <2>3, <2>4
<1>2. CASE o \notin s._keysSelected
  <2>0. PICK keys \in SUBSET Options, marked \in SUBSET Options :
        keys = s._keysSelected \cup {o} /\ marked = s.marked \cup {o}
    BY DEF FormSelectStates
  <2>1. t = [s EXCEPT !._keysSelected = keys, !.marked = marked]
    BY <1>2, <2>0 DEF _toggleEntryFromArray
  <2>2. /\ t \in FormSelectStates /\ t._keysSelected = keys /\ t.marked = marked
        /\ t.isMultiple = s.isMultiple /\ t.first = s.first /\ t.selected = s.selected
        /\ t.input = s.input /\ t.resetting = s.resetting /\ t.stale = s.stale
    BY <2>1 DEF FormSelectStates
  <2>3. \A p \in Options : p # o => /\ (p \in keys <=> p \in s._keysSelected)
                                    /\ (p \in marked <=> p \in s.marked)
    BY <2>0
  <2>4. o \in keys /\ o \in marked BY <2>0
  <2> QED BY <1>2, <2>2, <2>3, <2>4
<1> QED BY <1>1, <1>2

\* The select follows.
LEMMA SelectsIs ==
    ASSUME NEW t \in FormSelectStates, NEW o \in Options, NEW chosen \in BOOLEAN,
           NEW r, r = Selects(t, o, chosen)
    PROVE  /\ r \in FormSelectStates
           /\ r.isMultiple = t.isMultiple /\ r.first = t.first /\ r.marked = t.marked
           /\ r._keysSelected = t._keysSelected /\ r.resetting = t.resetting /\ r.stale = t.stale
           /\ (r.selected = t.selected /\ r.input = t.input) \/ r.input = TextsOf(r.selected)
           /\ (chosen <=> o \in r.selected)
           /\ t.isMultiple => \A p \in Options : p # o => (p \in r.selected <=> p \in t.selected)
           /\ (chosen /\ ~t.isMultiple => r.selected = t.selected \/ r.selected = {o})
<1> PICK selected \in SUBSET Options :
      selected = IF ~chosen THEN t.selected \ {o}
                 ELSE IF t.isMultiple THEN t.selected \cup {o} ELSE {o}
  BY DEF FormSelectStates
<1> PICK input \in SUBSET Options : input = TextsOf(selected) BY TextsAreOptions
<1>1. CASE chosen <=> o \in t.selected
  <2>1. r = t BY <1>1 DEF Selects
  <2> QED BY <1>1, <2>1
<1>2. CASE ~(chosen <=> o \in t.selected)
  <2>1. r = [t EXCEPT !.selected = selected, !.input = input]
    BY <1>2 DEF Selects
  <2>2. /\ r \in FormSelectStates /\ r.selected = selected /\ r.input = input
        /\ r.isMultiple = t.isMultiple /\ r.first = t.first /\ r.marked = t.marked
        /\ r._keysSelected = t._keysSelected /\ r.resetting = t.resetting /\ r.stale = t.stale
    BY <2>1 DEF FormSelectStates
  <2>3. (chosen <=> o \in selected)
    BY <1>2
  <2> QED BY <1>2, <2>2, <2>3
<1> QED BY <1>1, <1>2

\* A placeholder that is unmarked makes no difference to the other entries.
LEMMA UnmarkedIs ==
    ASSUME NEW s \in FormSelectStates, NEW q, q = PlaceholderToggled(s)
    PROVE  /\ q \in FormSelectStates
           /\ q.isMultiple = s.isMultiple /\ q.first = s.first /\ q.selected = s.selected
           /\ q.input = s.input /\ q.resetting = s.resetting /\ q.stale = s.stale
           /\ \A p \in Enabled : /\ (p \in q._keysSelected <=> p \in s._keysSelected)
                                  /\ (p \in q.marked <=> p \in s.marked)
<1>0. Placeholder \in Options BY FormSelectAssumption DEF Options, Placeholder
<1>1. CASE Placeholder \in s.marked
  <2>1. q = _toggleEntryFromArray(s, Placeholder) BY <1>1 DEF PlaceholderToggled
  <2>2. \A p \in Enabled : p \in Options /\ p # Placeholder BY DEF Enabled
  <2> QED BY <1>0, <2>1, <2>2, ToggledIs
<1>2. CASE Placeholder \notin s.marked
  BY <1>2 DEF PlaceholderToggled
<1> QED BY <1>1, <1>2

\* A click on an option of a multiple select
LEMMA MultipleFits ==
    ASSUME NEW s, FormSelectFits(s), NEW o \in Options, o # Placeholder, s.isMultiple,
           NEW t, t = _toggleEntryFromArray(PlaceholderToggled(s), o)
    PROVE  FormSelectFits(Selects(t, o, o \in t._keysSelected))
<1> s \in FormSelectStates BY DEF FormSelectFits
<1> PICK q : q = PlaceholderToggled(s) OBVIOUS
<1>1. /\ q \in FormSelectStates
      /\ q.isMultiple = s.isMultiple /\ q.first = s.first /\ q.selected = s.selected
      /\ q.input = s.input /\ q.resetting = s.resetting /\ q.stale = s.stale
      /\ \A p \in Enabled : /\ (p \in q._keysSelected <=> p \in s._keysSelected)
                             /\ (p \in q.marked <=> p \in s.marked)
  BY UnmarkedIs
<1>0. o \in Enabled /\ t = _toggleEntryFromArray(q, o) BY DEF Enabled
<1>2. /\ t \in FormSelectStates
      /\ t.isMultiple = q.isMultiple /\ t.first = q.first /\ t.selected = q.selected
      /\ t.input = q.input /\ t.resetting = q.resetting /\ t.stale = q.stale
      /\ (o \in t._keysSelected <=> o \notin q._keysSelected)
      /\ (o \in t.marked <=> o \notin q._keysSelected)
      /\ \A p \in Options : p # o => /\ (p \in t._keysSelected <=> p \in q._keysSelected)
                                      /\ (p \in t.marked <=> p \in q.marked)
  BY <1>0, <1>1, ToggledIs
<1> PICK chosen \in BOOLEAN : chosen <=> o \in t._keysSelected OBVIOUS
<1> PICK r : r = Selects(t, o, o \in t._keysSelected) OBVIOUS
<1>a. r = Selects(t, o, chosen)
  BY Zenon DEF Selects
<1>3. /\ r \in FormSelectStates
      /\ r.isMultiple = t.isMultiple /\ r.first = t.first /\ r.marked = t.marked
      /\ r._keysSelected = t._keysSelected /\ r.resetting = t.resetting /\ r.stale = t.stale
      /\ (r.selected = t.selected /\ r.input = t.input) \/ r.input = TextsOf(r.selected)
      /\ (chosen <=> o \in r.selected)
      /\ t.isMultiple => \A p \in Options : p # o => (p \in r.selected <=> p \in t.selected)
  BY <1>2, <1>a, SelectsIs
<1>4. ~r.resetting => r.input = TextsOf(r.selected)
  BY <1>1, <1>2, <1>3 DEF FormSelectFits
<1>5. ~r.stale => MenuAgrees(r)
  <2> SUFFICES ASSUME ~r.stale PROVE MenuAgrees(r) OBVIOUS
  <2>1. \A p \in Enabled : /\ (p \in s.marked <=> p \in s.selected)
                           /\ (p \in s._keysSelected <=> p \in s.selected)
    BY <1>1, <1>2, <1>3 DEF FormSelectFits, MenuAgrees
  <2>2. ASSUME NEW p \in Enabled
        PROVE  (p \in r.marked <=> p \in r.selected) /\ (p \in r._keysSelected <=> p \in r.selected)
    <3>0. p \in Options BY DEF Enabled
    <3>1. CASE p = o BY <3>1, <1>2, <1>3
    <3>2. CASE p # o BY <3>0, <3>2, <1>1, <1>2, <1>3, <2>1
    <3> QED BY <3>1, <3>2
  <2> QED BY <2>2 DEF MenuAgrees
<1> QED BY <1>1, <1>2, <1>3, <1>4, <1>5 DEF FormSelectFits

\* A click on an option of a select of one
LEMMA SingleFits ==
    ASSUME NEW s, FormSelectFits(s), NEW o \in Options, o # Placeholder, ~s.isMultiple
    PROVE  FormSelectFits(Selects([s EXCEPT !.marked = {o}], o, TRUE))
<1>t. PICK t : t = [s EXCEPT !.marked = {o}] OBVIOUS
<1>1. /\ t \in FormSelectStates /\ t.marked = {o}
      /\ t.isMultiple = s.isMultiple /\ t.first = s.first /\ t.selected = s.selected
      /\ t.input = s.input /\ t.resetting = s.resetting /\ t.stale = s.stale
  BY <1>t DEF FormSelectFits, FormSelectStates
<1>c. PICK chosen \in BOOLEAN : chosen OBVIOUS
<1>0. chosen = TRUE BY <1>c
<1>r. PICK r : r = Selects(t, o, chosen) OBVIOUS
<1>2. /\ r \in FormSelectStates
      /\ r.isMultiple = t.isMultiple /\ r.first = t.first /\ r.marked = t.marked
      /\ r.resetting = t.resetting /\ r.stale = t.stale
      /\ (r.selected = t.selected /\ r.input = t.input) \/ r.input = TextsOf(r.selected)
      /\ (chosen <=> o \in r.selected)
      /\ (chosen /\ ~t.isMultiple => r.selected = t.selected \/ r.selected = {o})
  BY <1>1, <1>r, SelectsIs
<1>3. r.selected = {o}
  <2>1. o \in r.selected /\ (r.selected = t.selected \/ r.selected = {o}) BY <1>c, <1>1, <1>2
  <2>2. CASE r.selected = t.selected
    <3>1. \A p \in s.selected : p = o BY <1>1, <2>1, <2>2 DEF FormSelectFits, AtMostOne
    <3> QED BY <1>1, <2>1, <2>2, <3>1
  <2> QED BY <2>1, <2>2
<1>4. ~r.resetting => r.input = TextsOf(r.selected)
  BY <1>1, <1>2 DEF FormSelectFits
<1>5. AtMostOne(r.selected) /\ MenuAgrees(r)
  BY <1>1, <1>2, <1>3 DEF AtMostOne, MenuAgrees
<1>6. r = Selects([s EXCEPT !.marked = {o}], o, TRUE) BY <1>0, <1>t, <1>r
<1> QED BY <1>1, <1>2, <1>4, <1>5, <1>6 DEF FormSelectFits

\* A change of what none of the promises speaks of
LEMMA TimedFits ==
    ASSUME NEW s, FormSelectFits(s), NEW isOpen \in BOOLEAN, NEW closing \in BOOLEAN
    PROVE  /\ FormSelectFits([s EXCEPT !.isOpen = isOpen])
           /\ FormSelectFits([s EXCEPT !.closing = closing])
           /\ FormSelectFits([s EXCEPT !.closing = closing, !.isOpen = isOpen])
BY DEF FormSelectFits, FormSelectStates, MenuAgrees

LEMMA ResetsFit ==
    ASSUME NEW s, FormSelectFits(s)
    PROVE  /\ FormSelectFits([s EXCEPT !.selected = s.first, !.resetting = TRUE, !.stale = TRUE])
           /\ FormSelectFits([s EXCEPT !.resetting = FALSE, !.input = TextsOf(s.selected)])
<1> PICK input \in SUBSET Options : input = TextsOf(s.selected)
  BY TextsAreOptions DEF FormSelectFits, FormSelectStates
<1>1. FormSelectFits([s EXCEPT !.selected = s.first, !.resetting = TRUE, !.stale = TRUE])
  BY DEF FormSelectFits, FormSelectStates
<1>2. FormSelectFits([s EXCEPT !.resetting = FALSE, !.input = input])
  BY DEF FormSelectFits, FormSelectStates, MenuAgrees
<1> QED BY <1>1, <1>2

LEMMA UpToDateFits ==
    ASSUME NEW s, FormSelectFits(s), NEW closing \in BOOLEAN
    PROVE  FormSelectFits([_setSelectedStates(s) EXCEPT !.isOpen = TRUE, !.closing = closing,
                                                        !.input = TextsOf(s.selected)])
<1> PICK input \in SUBSET Options : input = TextsOf(s.selected)
  BY TextsAreOptions DEF FormSelectFits, FormSelectStates
<1>1. FormSelectFits([_setSelectedStates(s) EXCEPT !.isOpen = TRUE, !.closing = closing,
                                                   !.input = input])
  BY DEF FormSelectFits, FormSelectStates, _setSelectedStates, MenuAgrees
<1> QED BY <1>1

LEMMA FormSelectKeeps ==
    ASSUME OnPage("FormSelect"), FormSelectFits(select), FormSelectStep
    PROVE  FormSelectFits(select)'
<1>1. ASSUME NEW s, FormSelectFits(s), SelectBecomes(s) PROVE FormSelectFits(select)'
  BY <1>1, BecomesIs DEF select, SelectBecomes, Steps
<1>2. ASSUME NEW o \in Options, ClickOption(o) PROVE FormSelectFits(select)'
  <2>1. o # Placeholder BY <1>2 DEF ClickOption
  <2> DEFINE toggled == _toggleEntryFromArray(PlaceholderToggled(select), o)
             clicked == IF select.isMultiple
                        THEN Selects(toggled, o, o \in toggled._keysSelected)
                        ELSE Selects([select EXCEPT !.marked = {o}], o, TRUE)
  <2>2. FormSelectFits(clicked) BY <2>1, MultipleFits, SingleFits
  <2>3. SelectBecomes([clicked EXCEPT !.closing = @ \/ ~select.isMultiple])
    BY <1>2 DEF ClickOption
  <2> HIDE DEF clicked
  <2>4. FormSelectFits([clicked EXCEPT !.closing = @ \/ ~select.isMultiple])
    BY <2>2, TimedFits
  <2> QED BY <1>1, <2>3, <2>4
<1>3. CASE ClickSelect
  BY <1>1, <1>3, UpToDateFits DEF ClickSelect
<1>4. CASE OpenSelectByKey \/ ClickBesideSelect \/ CloseSelectTimer
  BY <1>1, <1>4, TimedFits DEF OpenSelectByKey, ClickBesideSelect, CloseSelectTimer
<1>5. CASE ResetForm \/ ResetTimer
  BY <1>1, <1>5, ResetsFit DEF ResetForm, ResetTimer
<1> QED BY <1>2, <1>3, <1>4, <1>5 DEF FormSelectStep

LEMMA FormSelectGives == ASSUME FormSelectFits(select) PROVE FormSelectTypeOK /\ SelectAgrees
<1>1. FormSelectTypeOK BY DEF FormSelectFits, FormSelectStates, FormSelectTypeOK
<1>2. ASSUME ~select.isMultiple PROVE Cardinality(select.selected) <= 1
  <2>1. CASE select.selected = {} BY <2>1, FS_EmptySet
  <2>2. ASSUME NEW o \in select.selected PROVE Cardinality(select.selected) <= 1
    <3>0. \A p \in select.selected : p = o BY <1>2 DEF FormSelectFits, AtMostOne
    <3>1. select.selected = {o} BY <3>0
    <3>2. Cardinality({o}) = 1 BY FS_Singleton
    <3> QED BY <3>1, <3>2
  <2> QED BY <2>1, <2>2
<1> QED BY <1>1, <1>2 DEF FormSelectFits, MenuAgrees, SelectAgrees

-----------------------------------------------------------------------------
(* The slider                                                               *)

Fades == [from : SlideIndices \cup {NoIndex}, to : SlideIndices]
SliderStates ==
    [activeIndex : SlideIndices, active : SlideIndices, indicator : SlideIndices \cup {NoIndex},
     opaque : SUBSET SlideIndices, fades : Seq(Fades), interval : BOOLEAN, marked : BOOLEAN]

\* The turns under way end with one to the active slide, and only the first may have begun
\* with no slide shown.
TurnsEndAt(fades, i) == fades # <<>> => fades[Len(fades)].to = i
TurnsStartFrom(fades, opaque) ==
    /\ fades # <<>> /\ fades[1].from = NoIndex => opaque = {}
    /\ \A i \in 2 .. Len(fades) : fades[i].from # NoIndex

SliderFits(s) ==
    /\ s \in SliderStates
    /\ s.active = s.activeIndex
    /\ ~s.marked => s.indicator = s.activeIndex
    /\ s.marked => s.fades = <<>>
    /\ ~s.marked /\ s.fades = <<>> => s.opaque = {s.activeIndex}
    /\ TurnsEndAt(s.fades, s.activeIndex)
    /\ TurnsStartFrom(s.fades, s.opaque)

LEMMA SliderInitFits == ASSUME NEW s \in SliderInit PROVE SliderFits(s)
<1>0. 0 \in SlideIndices BY SliderAssumption DEF SlideIndices
<1>1. CASE s = [activeIndex |-> 0, active |-> 0, indicator |-> 0, opaque |-> {},
                fades |-> <<[from |-> NoIndex, to |-> 0]>>, interval |-> TRUE, marked |-> FALSE]
  <2>1. PICK turn \in Fades : turn = [from |-> NoIndex, to |-> 0] BY <1>0 DEF Fades
  <2>a. <<turn>> \in Seq(Fades) OBVIOUS
  <2>2. PICK fades \in Seq(Fades) : fades = <<turn>> BY <2>a
  <2>3. fades # <<>> /\ Len(fades) = 1 /\ fades[1] = turn BY <2>2
  <2>4. s \in SliderStates /\ s.fades = fades /\ s.opaque = {} /\ s.activeIndex = 0
    BY <1>0, <1>1, <2>1, <2>2 DEF SliderStates
  <2>5. TurnsEndAt(fades, 0) /\ TurnsStartFrom(fades, {})
    BY <2>1, <2>3 DEF TurnsEndAt, TurnsStartFrom
  <2> QED BY <1>1, <2>3, <2>4, <2>5 DEF SliderFits
<1>2. CASE s \in {[activeIndex |-> i, active |-> i, indicator |-> NoIndex, opaque |-> {},
                   fades |-> <<>>, interval |-> TRUE, marked |-> TRUE] : i \in SlideIndices}
  <2>0. PICK i \in SlideIndices :
          s = [activeIndex |-> i, active |-> i, indicator |-> NoIndex, opaque |-> {},
               fades |-> <<>>, interval |-> TRUE, marked |-> TRUE]
    BY <1>2
  <2>a. <<>> \in Seq(Fades) OBVIOUS
  <2>1. s \in SliderStates /\ s.active = s.activeIndex /\ s.marked /\ s.fades = <<>>
    BY <2>0, <2>a DEF SliderStates
  <2> QED BY <2>1 DEF SliderFits, TurnsEndAt, TurnsStartFrom
<1> QED BY <1>1, <1>2 DEF SliderInit

LEMMA TurnAppended ==
    ASSUME NEW fades \in Seq(Fades), NEW opaque, TurnsStartFrom(fades, opaque),
           NEW turn \in Fades, turn.from # NoIndex
    PROVE  /\ Append(fades, turn) \in Seq(Fades) /\ Append(fades, turn) # <<>>
           /\ TurnsEndAt(Append(fades, turn), turn.to)
           /\ TurnsStartFrom(Append(fades, turn), opaque)
<1>0. Append(fades, turn) \in Seq(Fades) OBVIOUS
<1>1. PICK longer \in Seq(Fades) : longer = Append(fades, turn) BY <1>0
<1>2. PICK n \in Nat : n = Len(fades) OBVIOUS
<1>3. /\ Len(longer) = n + 1 /\ longer[n + 1] = turn
      /\ \A i \in 1 .. n : longer[i] = fades[i]
  BY <1>1, <1>2
<1>4. longer # <<>> BY <1>3
<1>5. TurnsEndAt(longer, turn.to) BY <1>3 DEF TurnsEndAt
<1>6. ASSUME longer[1].from = NoIndex PROVE opaque = {}
  <2>1. CASE n = 0 BY <1>3, <1>6, <2>1
  <2>2. CASE n > 0
    <3>1. fades # <<>> /\ fades[1] = longer[1] BY <1>2, <1>3, <2>2
    <3> QED BY <1>6, <3>1 DEF TurnsStartFrom
  <2> QED BY <2>1, <2>2
<1>7. ASSUME NEW i \in 2 .. n + 1 PROVE longer[i].from # NoIndex
  <2>1. CASE i = n + 1 BY <1>3, <2>1
  <2>2. CASE i \in 2 .. n BY <1>2, <1>3, <2>2 DEF TurnsStartFrom
  <2> QED BY <2>1, <2>2
<1>8. TurnsStartFrom(longer, opaque) BY <1>3, <1>6, <1>7 DEF TurnsStartFrom
<1> QED BY <1>1, <1>4, <1>5, <1>8

LEMMA SetIndexFits ==
    ASSUME NEW s, SliderFits(s), NEW i \in Int
    PROVE  SliderFits(SetIndex(s, i))
<1>1. PICK to \in SlideIndices :
        to = IF i >= SliderSize THEN 0 ELSE IF i < 0 THEN SliderSize - 1 ELSE i
  BY SliderAssumption DEF SlideIndices
<1>2. CASE s.activeIndex = to BY <1>1, <1>2 DEF SetIndex
<1>3. CASE s.activeIndex # to
  <2>1. s.activeIndex # NoIndex /\ s.activeIndex \in SlideIndices
    BY SliderAssumption DEF SliderFits, SliderStates, SlideIndices, NoIndex
  <2>2. PICK turn \in Fades : turn = [from |-> s.activeIndex, to |-> to] BY <2>1 DEF Fades
  <2>a. s.fades \in Seq(Fades) BY DEF SliderFits, SliderStates
  <2>b. Append(s.fades, turn) \in Seq(Fades) BY <2>a
  <2>3. PICK fades \in Seq(Fades) : fades = Append(s.fades, turn) BY <2>b
  <2>4. fades # <<>> /\ TurnsEndAt(fades, to) /\ TurnsStartFrom(fades, s.opaque)
    BY <2>1, <2>2, <2>3, TurnAppended DEF SliderFits, SliderStates
  <2>5. SetIndex(s, i) = [s EXCEPT !.activeIndex = to, !.active = to, !.indicator = to,
                                   !.fades = fades, !.marked = FALSE, !.interval = TRUE]
    BY <1>1, <1>3, <2>2, <2>3 DEF SetIndex, Start, SliderFits, SliderStates
  <2> QED BY <2>4, <2>5 DEF SliderFits, SliderStates
<1> QED BY <1>2, <1>3

LEMMA FadesEndFits ==
    ASSUME NEW s, SliderFits(s), s.fades # <<>>, NEW turn, turn = Head(s.fades),
           NEW faded, faded = (s.opaque \ {turn.from}) \cup {turn.to}
    PROVE  SliderFits([s EXCEPT !.fades = Tail(@),
                                !.opaque = IF turn.from = NoIndex THEN faded
                                           ELSE faded \cap {s.active}])
<1>1. PICK fades \in Seq(Fades) : fades = s.fades BY DEF SliderFits, SliderStates
<1>0. Tail(fades) \in Seq(Fades) BY <1>1
<1>2. PICK rest \in Seq(Fades) : rest = Tail(fades) BY <1>0
<1>3. PICK n \in Nat : n = Len(rest) OBVIOUS
<1>4. Len(fades) = n + 1 /\ \A i \in 1 .. n : rest[i] = fades[i + 1]
  BY <1>1, <1>2, <1>3
<1>5. turn = fades[1] /\ turn \in Fades BY <1>1
<1>6. PICK i \in SlideIndices : i = s.activeIndex /\ i = s.active
  BY DEF SliderFits, SliderStates
<1>7. TurnsEndAt(rest, i)
  <2> SUFFICES ASSUME rest # <<>> PROVE rest[n].to = i BY <1>3 DEF TurnsEndAt
  <2>1. n > 0 BY <1>3
  <2>2. rest[n] = fades[n + 1] BY <1>4, <2>1
  <2> QED BY <1>1, <1>4, <1>6, <2>2 DEF SliderFits, TurnsEndAt
<1>8. PICK opaque \in SUBSET SlideIndices :
        opaque = IF turn.from = NoIndex THEN faded ELSE faded \cap {s.active}
  BY <1>5, <1>6 DEF SliderFits, SliderStates, Fades
<1>9. \A j \in 1 .. n : rest[j].from # NoIndex
  <2>1. ASSUME NEW j \in 1 .. n PROVE rest[j].from # NoIndex
    <3>1. rest[j] = fades[j + 1] /\ j + 1 \in 2 .. Len(fades) BY <1>4
    <3> QED BY <1>1, <3>1 DEF SliderFits, TurnsStartFrom
  <2> QED BY <2>1
<1>10. TurnsStartFrom(rest, opaque)
  <2>1. rest # <<>> => 1 \in 1 .. n BY <1>3
  <2>2. \A j \in 2 .. Len(rest) : j \in 1 .. n BY <1>3
  <2> QED BY <1>9, <2>1, <2>2 DEF TurnsStartFrom
<1>11. rest = <<>> => opaque = {i}
  <2> SUFFICES ASSUME rest = <<>> PROVE opaque = {i} OBVIOUS
  <2>1. Len(fades) = 1 BY <1>3, <1>4
  <2>2. turn.to = i BY <1>1, <1>5, <1>6, <2>1 DEF SliderFits, TurnsEndAt
  <2>3. CASE turn.from = NoIndex
    <3>1. s.opaque = {} BY <1>1, <1>5, <2>3 DEF SliderFits, TurnsStartFrom
    <3> QED BY <1>8, <2>2, <2>3, <3>1
  <2>4. CASE turn.from # NoIndex BY <1>6, <1>8, <2>2, <2>4
  <2> QED BY <2>3, <2>4
<1>12. SliderFits([s EXCEPT !.fades = rest, !.opaque = opaque])
  BY <1>1, <1>6, <1>7, <1>10, <1>11 DEF SliderFits, SliderStates
<1> QED BY <1>1, <1>2, <1>8, <1>12

LEMMA IntervalFits ==
    ASSUME NEW s, SliderFits(s), NEW interval \in BOOLEAN
    PROVE  SliderFits([s EXCEPT !.interval = interval])
BY DEF SliderFits, SliderStates

LEMMA SliderKeeps ==
    ASSUME OnPage("Slider"), SliderFits(slider), SliderStep
    PROVE  SliderFits(slider)'
<1>1. ASSUME NEW s, SliderFits(s), SliderBecomes(s) PROVE SliderFits(slider)'
  BY <1>1, BecomesIs DEF slider, SliderBecomes, Steps
<1>2. PICK i \in Int : i = slider.activeIndex /\ i = slider.active
  BY SliderAssumption DEF SliderFits, SliderStates, SlideIndices
<1>3. CASE _handleInterval
  <2>1. PICK j \in Int : j = IF slider.active + 1 = SliderSize THEN 0 ELSE slider.active + 1
    BY <1>2
  <2>2. SliderFits(SetIndex(slider, j)) BY SetIndexFits
  <2> QED BY <1>1, <1>3, <2>1, <2>2 DEF _handleInterval
<1>4. CASE NextSlide \/ PrevSlide
  <2>1. PICK next \in Int, prev \in Int :
          next = slider.activeIndex + 1 /\ prev = slider.activeIndex - 1
    BY <1>2
  <2>2. SliderFits(SetIndex(slider, next)) /\ SliderFits(SetIndex(slider, prev))
    BY SetIndexFits
  <2> QED BY <1>1, <1>4, <2>1, <2>2 DEF NextSlide, PrevSlide
<1>5. ASSUME NEW j \in -1 .. SliderSize, ClickIndicator(j) PROVE SliderFits(slider)'
  <2>1. j \in Int BY SliderAssumption
  <2> QED BY <1>1, <1>5, <2>1, SetIndexFits DEF ClickIndicator
<1>6. CASE SliderBecomes(Start(slider)) \/ SliderBecomes(Pause(slider))
  BY <1>1, <1>6, IntervalFits DEF Start, Pause
<1>7. CASE FadesEnd
  BY <1>1, <1>7, FadesEndFits DEF FadesEnd
<1> QED BY <1>3, <1>4, <1>5, <1>6, <1>7 DEF SliderStep

LEMMA SliderGives == ASSUME SliderFits(slider) PROVE SliderTypeOK /\ SliderShowsState
BY DEF SliderFits, SliderStates, Fades, SliderTypeOK, SliderShowsState

-----------------------------------------------------------------------------
(* The picture                                                              *)

LightboxStates ==
    [overlayActive : BOOLEAN, doneAnimating : BOOLEAN, captioned : BOOLEAN, active : BOOLEAN,
     overlay : BOOLEAN, hears : BOOLEAN, photoCaption : BOOLEAN, listens : BOOLEAN,
     anim : {"none", "in", "out"}, early : BOOLEAN]

\* While it is put back the picture listens no more; otherwise all of it is there or none.
LightboxFits(b) ==
    /\ b \in LightboxStates
    /\ b.doneAnimating <=> b.anim = "none"
    /\ b.anim = "in" => b.overlayActive
    /\ b.anim = "out" => ~b.listens
    /\ b.anim # "out" =>
         /\ b.active <=> b.overlayActive
         /\ b.overlay <=> b.overlayActive
         /\ b.listens <=> b.overlayActive
         /\ b.photoCaption <=> b.overlayActive /\ b.captioned
         /\ b.overlayActive /\ ~b.early => b.hears

LEMMA LightboxInitFits == ASSUME NEW b \in LightboxInit PROVE LightboxFits(b)
<1>1. PICK captioned \in BOOLEAN :
        b = [overlayActive |-> FALSE, doneAnimating |-> TRUE, captioned |-> captioned,
             active |-> FALSE, overlay |-> FALSE, hears |-> FALSE, photoCaption |-> FALSE,
             listens |-> FALSE, anim |-> "none", early |-> FALSE]
  BY DEF LightboxInit
<1>2. b \in LightboxStates BY <1>1 DEF LightboxStates
<1> QED BY <1>1, <1>2 DEF LightboxFits

LEMMA BoxOpensFits == ASSUME NEW b, LightboxFits(b), b.doneAnimating, ~b.overlayActive
                      PROVE  LightboxFits(OpenBox(b))
<1>1. PICK captioned \in BOOLEAN : captioned = b.captioned BY DEF LightboxFits, LightboxStates
<1>2. LightboxFits([b EXCEPT !.overlayActive = TRUE, !.doneAnimating = FALSE, !.active = TRUE,
                             !.overlay = TRUE, !.hears = TRUE, !.photoCaption = captioned,
                             !.listens = TRUE, !.anim = "in", !.early = FALSE])
  BY <1>1 DEF LightboxFits, LightboxStates
<1> QED BY <1>1, <1>2 DEF OpenBox

LEMMA BoxClosesFits == ASSUME NEW b \in LightboxStates PROVE LightboxFits(CloseBox(b))
BY DEF LightboxFits, LightboxStates, CloseBox

LEMMA OverlayHeardFits ==
    ASSUME NEW b, LightboxFits(b)
    PROVE  /\ [b EXCEPT !.hears = FALSE] \in LightboxStates
           /\ ~b.doneAnimating => LightboxFits([[b EXCEPT !.hears = FALSE] EXCEPT !.early = TRUE])
BY DEF LightboxFits, LightboxStates

LEMMA BoxAnimatedFits ==
    ASSUME NEW b, LightboxFits(b)
    PROVE  /\ b.anim = "in" => LightboxFits([b EXCEPT !.anim = "none", !.doneAnimating = TRUE])
           /\ b.anim = "out" =>
                LightboxFits([b EXCEPT !.anim = "none", !.doneAnimating = TRUE, !.active = FALSE,
                                       !.overlayActive = FALSE, !.overlay = FALSE,
                                       !.photoCaption = FALSE])
BY DEF LightboxFits, LightboxStates

LEMMA LightboxKeeps ==
    ASSUME OnPage("Lightbox"), LightboxFits(box), LightboxStep
    PROVE  LightboxFits(box)'
<1>1. ASSUME NEW b, LightboxFits(b), LightboxBecomes(b) PROVE LightboxFits(box)'
  BY <1>1, BecomesIs DEF box, LightboxBecomes, Steps
<1>2. LightboxFits(CloseBox(box)) BY BoxClosesFits DEF LightboxFits
<1>3. CASE ClickPicture
  BY <1>1, <1>2, <1>3, BoxOpensFits DEF ClickPicture
<1>4. CASE ScrollOrResize \/ ReleaseEscape
  BY <1>1, <1>2, <1>4 DEF ScrollOrResize, ReleaseEscape
<1>5. CASE ClickBoxOverlay
  BY <1>1, <1>5, BoxClosesFits, OverlayHeardFits DEF ClickBoxOverlay
<1>6. CASE PictureIsLarge \/ PictureIsBack
  BY <1>1, <1>6, BoxAnimatedFits DEF PictureIsLarge, PictureIsBack
<1> QED BY <1>3, <1>4, <1>5, <1>6 DEF LightboxStep

LEMMA LightboxGives == ASSUME LightboxFits(box) PROVE LightboxTypeOK /\ LightboxShowsState
<1>1. LightboxTypeOK BY DEF LightboxFits, LightboxStates, LightboxTypeOK
<1>2. ASSUME box.anim = "none"
      PROVE  /\ box.active = box.overlayActive /\ box.overlay = box.overlayActive
             /\ box.listens = box.overlayActive
             /\ box.photoCaption = (box.overlayActive /\ box.captioned)
  BY <1>2 DEF LightboxFits, LightboxStates
<1> QED BY <1>1, <1>2 DEF LightboxFits, LightboxShowsState

-----------------------------------------------------------------------------
(* The floating button                                                      *)

FabStates ==
    [mode : {"hover", "click", "toolbar"}, isOpen : BOOLEAN, active : BOOLEAN,
     folding : BOOLEAN, spread : BOOLEAN, starts : Nat, spreads : Nat, shrinks : Nat,
     scrollHeard : BOOLEAN, clicks : Nat, bound : BOOLEAN, hasty : BOOLEAN, leaked : BOOLEAN]

\* A toolbar hears the page, does not, or will when one of its timers has come.
FabListens(f) == f.starts + f.spreads = 0 /\ f.scrollHeard /\ f.bound /\ f.clicks = 1
FabDeaf(f) == f.starts + f.spreads = 0 /\ ~f.scrollHeard /\ ~f.bound /\ f.clicks = 0
FabWillListen(f) == f.starts + f.spreads = 1 /\ ~f.scrollHeard /\ ~f.bound /\ f.clicks = 0

FabSound(f) ==
    /\ f \in FabStates
    /\ f.bound => f.clicks > 0
    /\ f.hasty => f.isOpen
    /\ f.mode # "toolbar" => FabDeaf(f) /\ f.shrinks = 0 /\ ~f.spread
    /\ f.mode = "toolbar" => ~f.folding
    /\ f.mode = "toolbar" /\ ~f.leaked =>
         IF f.isOpen THEN FabListens(f) \/ FabWillListen(f) ELSE FabDeaf(f)
    /\ ~f.isOpen => IF f.mode = "toolbar" THEN ~f.active /\ (f.spread => f.shrinks > 0)
                    ELSE f.active => f.folding
    /\ f.isOpen /\ ~f.hasty => /\ f.active /\ ~f.folding /\ f.shrinks = 0
                               /\ f.spread <=> f.mode = "toolbar"

FloatingButtonFits(f) ==
    /\ FabSound(f)
    /\ f.starts <= MaxStages /\ f.spreads <= MaxStages /\ f.shrinks <= MaxStages
    /\ f.clicks <= MaxStages

LEMMA FloatingButtonInitFits ==
    ASSUME NEW f \in FloatingButtonInit PROVE FloatingButtonFits(f)
<1>1. PICK mode \in {"hover", "click", "toolbar"} :
        f = [mode |-> mode, isOpen |-> FALSE, active |-> FALSE, folding |-> FALSE,
             spread |-> FALSE, starts |-> 0, spreads |-> 0, shrinks |-> 0,
             scrollHeard |-> FALSE, clicks |-> 0, bound |-> FALSE, hasty |-> FALSE,
             leaked |-> FALSE]
  BY DEF FloatingButtonInit
<1>2. f \in FabStates BY <1>1 DEF FabStates
<1>3. FabDeaf(f) BY <1>1 DEF FabDeaf
<1>4. FabSound(f) BY <1>1, <1>2, <1>3 DEF FabSound
<1> QED BY <1>1, <1>4, FloatingButtonAssumption DEF FloatingButtonFits

LEMMA FabOpensSound == ASSUME NEW f, FabSound(f) PROVE FabSound(OpenFab(f))
<1>1. PICK hasty \in BOOLEAN : hasty = ~FabAtRest(f) OBVIOUS
<1>2. ~hasty => ~f.folding /\ f.starts = 0 /\ f.spreads = 0 /\ f.shrinks = 0
  <2>1. f.starts \in Nat /\ f.spreads \in Nat /\ f.shrinks \in Nat BY DEF FabSound, FabStates
  <2>2. FabAtRest(f) => ~f.folding /\ f.starts = 0 /\ f.spreads = 0 /\ f.shrinks = 0
    BY <2>1 DEF FabAtRest
  <2>3. ~hasty => FabAtRest(f) BY <1>1
  <2> QED BY <2>2, <2>3
<1>3. CASE f.isOpen BY <1>3 DEF OpenFab
<1>4. CASE ~f.isOpen /\ f.mode # "toolbar"
  <2>1. OpenFab(f) = [f EXCEPT !.isOpen = TRUE, !.active = TRUE, !.hasty = hasty]
    BY <1>1, <1>4 DEF OpenFab
  <2>2. FabSound([f EXCEPT !.isOpen = TRUE, !.active = TRUE, !.hasty = hasty])
    BY <1>2, <1>4 DEF FabSound, FabStates, FabDeaf
  <2> QED BY <2>1, <2>2
<1>5. CASE ~f.isOpen /\ f.mode = "toolbar"
  <2>1. PICK starts \in Nat : starts = f.starts + 1 BY DEF FabSound, FabStates
  <2>2. PICK g : g = [f EXCEPT !.isOpen = TRUE, !.active = TRUE, !.hasty = hasty,
                               !.spread = TRUE, !.starts = starts]
    OBVIOUS
  <2>3. OpenFab(f) = g BY <1>1, <1>5, <2>1, <2>2 DEF OpenFab, FabSound, FabStates
  <2>4. /\ g \in FabStates /\ g.mode = f.mode /\ g.isOpen /\ g.active /\ g.hasty = hasty
        /\ g.spread /\ g.starts = starts /\ g.spreads = f.spreads /\ g.shrinks = f.shrinks
        /\ g.folding = f.folding /\ g.scrollHeard = f.scrollHeard /\ g.clicks = f.clicks
        /\ g.bound = f.bound /\ g.leaked = f.leaked
    BY <2>2 DEF FabSound, FabStates
  <2>5. ~g.leaked => FabWillListen(g)
    <3>1. ~g.leaked => FabDeaf(f) BY <1>5, <2>4 DEF FabSound
    <3>2. f.starts \in Nat /\ f.spreads \in Nat BY DEF FabSound, FabStates
    <3> QED BY <2>1, <2>4, <3>1, <3>2 DEF FabDeaf, FabWillListen
  <2>6. FabSound(g) BY <1>2, <1>5, <2>4, <2>5 DEF FabSound
  <2> QED BY <2>3, <2>6
<1> QED BY <1>3, <1>4, <1>5

LEMMA FabClosesSound == ASSUME NEW f, FabSound(f) PROVE FabSound(CloseFab(f))
<1>1. CASE ~f.isOpen BY <1>1 DEF CloseFab
<1>2. CASE f.isOpen /\ f.mode # "toolbar"
  <2>1. FabSound([f EXCEPT !.isOpen = FALSE, !.hasty = FALSE, !.folding = TRUE])
    BY <1>2 DEF FabSound, FabStates, FabDeaf
  <2> QED BY <1>2, <2>1 DEF CloseFab
<1>3. CASE f.isOpen /\ f.mode = "toolbar"
  <2>1. PICK shrinks \in Nat : shrinks = f.shrinks + 1 BY DEF FabSound, FabStates
  <2>2. PICK clicks \in Nat : clicks = IF f.bound THEN f.clicks - 1 ELSE f.clicks
    BY DEF FabSound, FabStates
  <2>3. PICK leaked \in BOOLEAN : leaked = (f.leaked \/ ~f.bound) OBVIOUS
  <2>4. PICK g : g = [f EXCEPT !.isOpen = FALSE, !.hasty = FALSE, !.active = FALSE,
                               !.shrinks = shrinks, !.scrollHeard = FALSE,
                               !.clicks = clicks, !.bound = FALSE, !.leaked = leaked]
    OBVIOUS
  <2>5. CloseFab(f) = g
    BY <1>3, <2>1, <2>2, <2>3, <2>4 DEF CloseFab, FabSound, FabStates
  <2>6. /\ g \in FabStates /\ g.mode = f.mode /\ ~g.isOpen /\ ~g.active /\ ~g.hasty
        /\ g.spread = f.spread /\ g.starts = f.starts /\ g.spreads = f.spreads
        /\ g.shrinks = shrinks /\ g.folding = f.folding /\ ~g.scrollHeard
        /\ g.clicks = clicks /\ ~g.bound /\ g.leaked = leaked
    BY <2>4 DEF FabSound, FabStates
  <2>7. ~leaked => FabDeaf(g)
    <3>1. ~leaked => FabListens(f) BY <1>3, <2>3 DEF FabSound, FabWillListen
    <3>2. ~leaked => clicks = f.clicks - 1 BY <2>2, <2>3
    <3> QED BY <2>6, <3>1, <3>2 DEF FabListens, FabDeaf
  <2>8. shrinks > 0 BY <2>1 DEF FabSound, FabStates
  <2>9. FabSound(g) BY <1>3, <2>6, <2>7, <2>8 DEF FabSound
  <2> QED BY <2>5, <2>9
<1> QED BY <1>1, <1>2, <1>3

LEMMA FabFolds ==
    ASSUME NEW f, FabSound(f), f.folding
    PROVE  FabSound([f EXCEPT !.folding = FALSE, !.active = FALSE])
BY DEF FabSound, FabStates, FabDeaf

LEMMA FabStarts ==
    ASSUME NEW f, FabSound(f), f.starts > 0
    PROVE  FabSound([f EXCEPT !.starts = @ - 1, !.spreads = @ + 1])
<1>1. PICK starts \in Nat, spreads \in Nat : starts = f.starts - 1 /\ spreads = f.spreads + 1
  BY DEF FabSound, FabStates
<1>2. PICK g : g = [f EXCEPT !.starts = starts, !.spreads = spreads] OBVIOUS
<1>3. /\ g \in FabStates /\ g.mode = f.mode /\ g.isOpen = f.isOpen /\ g.active = f.active
      /\ g.hasty = f.hasty /\ g.spread = f.spread /\ g.starts = starts
      /\ g.spreads = spreads /\ g.shrinks = f.shrinks /\ g.folding = f.folding
      /\ g.scrollHeard = f.scrollHeard /\ g.clicks = f.clicks /\ g.bound = f.bound
      /\ g.leaked = f.leaked
  BY <1>2 DEF FabSound, FabStates
<1>4. g.starts + g.spreads = f.starts + f.spreads
  BY <1>1, <1>3 DEF FabSound, FabStates
<1>5. /\ FabDeaf(g) <=> FabDeaf(f)
      /\ FabListens(g) <=> FabListens(f)
      /\ FabWillListen(g) <=> FabWillListen(f)
  BY <1>3, <1>4 DEF FabDeaf, FabListens, FabWillListen
<1>6. FabSound(g) BY <1>3, <1>5 DEF FabSound
<1> QED BY <1>1, <1>2, <1>6 DEF FabSound, FabStates

LEMMA FabSpreads ==
    ASSUME NEW f, FabSound(f), f.spreads > 0
    PROVE  FabSound([f EXCEPT !.spreads = @ - 1, !.scrollHeard = TRUE, !.clicks = @ + 1,
                              !.bound = TRUE])
<1>1. PICK spreads \in Nat, clicks \in Nat : spreads = f.spreads - 1 /\ clicks = f.clicks + 1
  BY DEF FabSound, FabStates
<1>2. PICK g : g = [f EXCEPT !.spreads = spreads, !.scrollHeard = TRUE, !.clicks = clicks,
                             !.bound = TRUE]
  OBVIOUS
<1>3. /\ g \in FabStates /\ g.mode = f.mode /\ g.isOpen = f.isOpen /\ g.active = f.active
      /\ g.hasty = f.hasty /\ g.spread = f.spread /\ g.starts = f.starts
      /\ g.spreads = spreads /\ g.shrinks = f.shrinks /\ g.folding = f.folding
      /\ g.scrollHeard /\ g.clicks = clicks /\ g.bound /\ g.leaked = f.leaked
  BY <1>2 DEF FabSound, FabStates
<1>4. /\ f.starts \in Nat /\ f.spreads \in Nat /\ f.clicks \in Nat
      /\ f.starts + f.spreads # 0 /\ clicks > 0
  BY <1>1 DEF FabSound, FabStates
<1>5. f.mode = "toolbar" BY <1>4 DEF FabSound, FabDeaf
<1>6. ~f.leaked => f.isOpen /\ FabListens(g)
  <2>1. ~f.leaked => f.isOpen /\ FabWillListen(f)
    BY <1>4, <1>5 DEF FabSound, FabDeaf, FabListens
  <2> QED BY <1>1, <1>3, <1>4, <2>1 DEF FabWillListen, FabListens
<1>7. FabSound(g) BY <1>3, <1>4, <1>5, <1>6 DEF FabSound
<1> QED BY <1>1, <1>2, <1>7 DEF FabSound, FabStates

LEMMA FabShrinks ==
    ASSUME NEW f, FabSound(f), f.shrinks > 0
    PROVE  FabSound([f EXCEPT !.shrinks = @ - 1, !.spread = FALSE])
<1>1. PICK shrinks \in Nat : shrinks = f.shrinks - 1 BY DEF FabSound, FabStates
<1>2. PICK g : g = [f EXCEPT !.shrinks = shrinks, !.spread = FALSE] OBVIOUS
<1>3. /\ g \in FabStates /\ g.mode = f.mode /\ g.isOpen = f.isOpen /\ g.active = f.active
      /\ g.hasty = f.hasty /\ ~g.spread /\ g.starts = f.starts /\ g.spreads = f.spreads
      /\ g.folding = f.folding /\ g.scrollHeard = f.scrollHeard /\ g.clicks = f.clicks
      /\ g.bound = f.bound /\ g.leaked = f.leaked
  BY <1>2 DEF FabSound, FabStates
<1>4. /\ FabDeaf(g) <=> FabDeaf(f)
      /\ FabListens(g) <=> FabListens(f)
      /\ FabWillListen(g) <=> FabWillListen(f)
  BY <1>3 DEF FabDeaf, FabListens, FabWillListen
<1>5. f.mode = "toolbar" /\ ~(f.isOpen /\ ~f.hasty) BY DEF FabSound
<1>6. FabSound(g) BY <1>3, <1>4, <1>5 DEF FabSound
<1> QED BY <1>1, <1>2, <1>6 DEF FabSound, FabStates

LEMMA FabHears ==
    ASSUME NEW f, FabSound(f), NEW inMenu PROVE FabSound(DocumentClicked(f, inMenu))
BY FabClosesSound DEF DocumentClicked

LEMMA FloatingButtonKeeps ==
    ASSUME OnPage("FloatingButton"), FloatingButtonFits(fab), FloatingButtonStep
    PROVE  FloatingButtonFits(fab)'
<1>0. FabSound(fab) BY DEF FloatingButtonFits
<1>1. ASSUME NEW f, FabSound(f), FabBecomes(f) PROVE FloatingButtonFits(fab)'
  <2>1. FloatingButtonFits(f) BY <1>1 DEF FabBecomes, FloatingButtonFits
  <2>2. widget'["FloatingButton"] = f BY <1>1, BecomesIs DEF FabBecomes, Steps
  <2> QED BY <2>1, <2>2 DEF fab
<1>2. CASE EnterFab \/ LeaveFab \/ ScrollPage
  BY <1>0, <1>1, <1>2, FabOpensSound, FabClosesSound DEF EnterFab, LeaveFab, ScrollPage
<1>3. CASE ClickBesideFab
  BY <1>0, <1>1, <1>3, FabHears DEF ClickBesideFab
<1>4. ASSUME NEW inMenu \in BOOLEAN, ClickFab(inMenu) PROVE FloatingButtonFits(fab)'
  <2>1. PICK heard : heard = DocumentClicked(fab, inMenu) OBVIOUS
  <2>2. FabSound(heard) BY <1>0, <2>1, FabHears
  <2>3. FabBecomes(CloseFab(heard)) \/ FabBecomes(OpenFab(heard))
    BY <1>4, <2>1 DEF ClickFab
  <2> QED BY <1>1, <2>2, <2>3, FabOpensSound, FabClosesSound
<1>5. CASE Folded
  BY <1>0, <1>1, <1>5, FabFolds DEF Folded
<1>6. CASE StartTimer
  BY <1>0, <1>1, <1>6, FabStarts DEF StartTimer
<1>7. CASE SpreadTimer
  BY <1>0, <1>1, <1>7, FabSpreads DEF SpreadTimer
<1>8. CASE ShrinkTimer
  BY <1>0, <1>1, <1>8, FabShrinks DEF ShrinkTimer
<1> QED BY <1>2, <1>3, <1>4, <1>5, <1>6, <1>7, <1>8 DEF FloatingButtonStep

LEMMA FloatingButtonGives ==
    ASSUME FloatingButtonFits(fab) PROVE FloatingButtonTypeOK /\ FloatingButtonShowsState
<1>0. PICK f : f = fab OBVIOUS
<1>1. f \in FabStates BY <1>0 DEF FloatingButtonFits, FabSound
<1>2. /\ f.starts \in 0 .. MaxStages /\ f.spreads \in 0 .. MaxStages
      /\ f.shrinks \in 0 .. MaxStages /\ f.clicks \in 0 .. MaxStages
  BY <1>0, <1>1, FloatingButtonAssumption DEF FloatingButtonFits, FabStates
<1>3. FloatingButtonTypeOK BY <1>0, <1>1, <1>2 DEF FloatingButtonTypeOK, FabStates
<1>4. ASSUME FabAtRest(f)
      PROVE  /\ ~f.hasty => /\ f.active = f.isOpen
                            /\ f.spread = (f.isOpen /\ f.mode = "toolbar")
             /\ f.mode = "toolbar" /\ ~f.leaked =>
                  /\ f.scrollHeard = f.isOpen
                  /\ f.clicks = (IF f.isOpen THEN 1 ELSE 0)
  <2>1. ~f.folding /\ f.starts + f.spreads = 0 /\ f.shrinks = 0
    BY <1>1, <1>4 DEF FabAtRest, FabStates
  <2>2. ~f.hasty => f.active = f.isOpen /\ f.spread = (f.isOpen /\ f.mode = "toolbar")
    BY <1>0, <1>1, <2>1 DEF FloatingButtonFits, FabSound, FabStates
  <2>3. f.mode = "toolbar" /\ ~f.leaked => IF f.isOpen THEN FabListens(f) ELSE FabDeaf(f)
    BY <1>0, <2>1 DEF FloatingButtonFits, FabSound, FabWillListen
  <2> QED BY <1>1, <2>2, <2>3 DEF FabListens, FabDeaf, FabStates
<1> QED BY <1>0, <1>3, <1>4 DEF FloatingButtonShowsState

-----------------------------------------------------------------------------
(* The suggestions                                                          *)

ItemCounts == 0 .. MaxMatches
Places == -1 .. MaxMatches - 1
Counts == 0 .. Limit
AutocompleteStates ==
    [value : Texts \cup {NoText}, oldVal : Texts \cup {NoText, "null"}, focused : BOOLEAN,
     of : Texts \cup {NoText}, items : ItemCounts, count : Counts, activeIndex : Places,
     _mousedown : BOOLEAN, dropdown : BOOLEAN, closing : BOOLEAN, recounted : BOOLEAN,
     strayed : BOOLEAN]

Wanted(text) == IF Matches[text] < Limit THEN Matches[text] ELSE Limit

AutocompleteFits(a) ==
    /\ a \in AutocompleteStates
    /\ a.activeIndex < a.items
    /\ a.of # NoText /\ ~a.recounted => a.items = Wanted(a.of)
    /\ ~a.focused /\ ~a._mousedown /\ ~a.strayed => a.items = 0

LEMMA NoneSuggested == 0 \in ItemCounts /\ 0 \in Counts /\ -1 \in Places
BY AutocompleteAssumption DEF ItemCounts, Counts, Places

LEMMA AutocompleteInitFits == AutocompleteFits(AutocompleteInit)
<1>1. AutocompleteInit \in AutocompleteStates
  BY NoneSuggested DEF AutocompleteInit, AutocompleteStates
<1> QED BY <1>1 DEF AutocompleteFits, AutocompleteInit

LEMMA AutocompleteReset ==
    ASSUME NEW a \in AutocompleteStates
    PROVE  /\ AutocompleteFits(_resetAutocomplete(a))
           /\ _resetAutocomplete(a).focused = a.focused
<1>1. PICK none \in ItemCounts, before \in Places : none = 0 /\ before = -1 BY NoneSuggested
<1>2. PICK r : r = [a EXCEPT !.items = none, !.of = NoText, !.activeIndex = before,
                             !.oldVal = "null", !._mousedown = FALSE]
  OBVIOUS
<1>3. /\ r \in AutocompleteStates /\ r.items = none /\ r.of = NoText
      /\ r.activeIndex = before /\ r.focused = a.focused
  BY <1>2 DEF AutocompleteStates
<1>4. before < none BY <1>1
<1>5. AutocompleteFits(r) BY <1>1, <1>3, <1>4 DEF AutocompleteFits
<1>6. r = _resetAutocomplete(a) BY <1>1, <1>2 DEF _resetAutocomplete
<1> QED BY <1>3, <1>5, <1>6

\* The menu, the timer of its click, and what the field holds or held make no difference.
LEMMA MenuFits ==
    ASSUME NEW a, AutocompleteFits(a), NEW there \in BOOLEAN, NEW text \in Texts \cup {NoText}
    PROVE  /\ AutocompleteFits([a EXCEPT !.dropdown = there])
           /\ AutocompleteFits([a EXCEPT !.closing = there])
           /\ AutocompleteFits([a EXCEPT !.value = text])
           /\ AutocompleteFits([a EXCEPT !.oldVal = text])
<1>1. AutocompleteFits([a EXCEPT !.dropdown = there])
  BY DEF AutocompleteFits, AutocompleteStates
<1>2. AutocompleteFits([a EXCEPT !.closing = there])
  BY DEF AutocompleteFits, AutocompleteStates
<1>3. AutocompleteFits([a EXCEPT !.value = text])
  BY DEF AutocompleteFits, AutocompleteStates
<1>4. AutocompleteFits([a EXCEPT !.oldVal = text])
  BY DEF AutocompleteFits, AutocompleteStates
<1> QED BY <1>1, <1>2, <1>3, <1>4

LEMMA RenderFits ==
    ASSUME NEW a \in AutocompleteStates, a.value # NoText, a.focused
    PROVE  AutocompleteFits(_renderDropdown(a)) /\ _renderDropdown(a).focused
<1>1. PICK text \in Texts : text = a.value BY DEF AutocompleteStates
<1>2. PICK wanted \in Nat : wanted = Matches[text] /\ wanted <= MaxMatches
  BY AutocompleteAssumption
<1>3. PICK count \in Nat : count = a.count /\ count <= Limit
  BY AutocompleteAssumption DEF AutocompleteStates, Counts
<1>4. PICK room \in Nat : room = (IF count < Limit THEN Limit - count ELSE 0)
  <2>1. Limit - count \in Nat BY <1>3, AutocompleteAssumption
  <2> QED BY <2>1
<1>5. PICK made \in Nat : made = (IF wanted < room THEN wanted ELSE room) OBVIOUS
<1>6. made \in ItemCounts /\ count + made \in Counts
  BY <1>2, <1>3, <1>4, <1>5, AutocompleteAssumption DEF ItemCounts, Counts
<1>7. PICK total \in Counts : total = count + made BY <1>6
<1>8. PICK recounted \in BOOLEAN : recounted <=> count > 0 OBVIOUS
<1>9. PICK b : b = _resetAutocomplete(a) OBVIOUS
<1>10. b \in AutocompleteStates /\ b.focused /\ b.activeIndex = -1
  BY <1>9, AutocompleteReset DEF AutocompleteFits, _resetAutocomplete, AutocompleteStates
<1>11. PICK r : r = [b EXCEPT !.items = made, !.of = text, !.count = total,
                              !.recounted = recounted]
  OBVIOUS
<1>12. _renderDropdown(a) = r
  <2>1. recounted = (count > 0) BY <1>8
  <2> QED BY <1>1, <1>2, <1>3, <1>4, <1>5, <1>7, <1>9, <1>11, <2>1 DEF _renderDropdown
<1>13. /\ r \in AutocompleteStates /\ r.items = made /\ r.of = text /\ r.activeIndex = -1
       /\ r.recounted = recounted /\ r.focused
  BY <1>6, <1>10, <1>11 DEF AutocompleteStates
<1>14. ~recounted => made = Wanted(text)
  <2> SUFFICES ASSUME ~recounted PROVE made = Wanted(text) OBVIOUS
  <2>1. count = 0 BY <1>3, <1>8
  <2>2. room = Limit BY <1>4, <2>1, AutocompleteAssumption
  <2> QED BY <1>2, <1>5, <2>2 DEF Wanted
<1>15. -1 < made BY <1>5
<1> QED BY <1>12, <1>13, <1>14, <1>15 DEF AutocompleteFits

LEMMA SuggestionsOpenFit ==
    ASSUME NEW a \in AutocompleteStates, a.focused
    PROVE  AutocompleteFits(OpenSuggestions(a)) /\ OpenSuggestions(a).focused
<1>1. PICK b : b = IF a.value = NoText THEN _resetAutocomplete(a) ELSE _renderDropdown(a)
  OBVIOUS
<1>2. AutocompleteFits(b) /\ b.focused
  <2>1. CASE a.value = NoText BY <1>1, <2>1, AutocompleteReset
  <2>2. CASE a.value # NoText BY <1>1, <2>2, RenderFits
  <2> QED BY <2>1, <2>2
<1>3. OpenSuggestions(a) = [b EXCEPT !.dropdown = TRUE] BY <1>1 DEF OpenSuggestions
<1>4. AutocompleteFits([b EXCEPT !.dropdown = TRUE]) BY <1>2, MenuFits
<1>5. [b EXCEPT !.dropdown = TRUE].focused BY <1>2 DEF AutocompleteFits, AutocompleteStates
<1> QED BY <1>3, <1>4, <1>5

\* A key is let go, or the field has got the focus.
LEMMA HandledFits ==
    ASSUME NEW a, AutocompleteFits(a), a.focused, NEW opens \in BOOLEAN
    PROVE  AutocompleteFits([IF opens THEN OpenSuggestions(a) ELSE a EXCEPT !.oldVal = a.value])
<1>1. PICK b : b = IF opens THEN OpenSuggestions(a) ELSE a OBVIOUS
<1>2. AutocompleteFits(b) BY <1>1, SuggestionsOpenFit DEF AutocompleteFits
<1>3. a.value \in Texts \cup {NoText} BY DEF AutocompleteFits, AutocompleteStates
<1>4. AutocompleteFits([b EXCEPT !.oldVal = a.value]) BY <1>2, <1>3, MenuFits
<1> QED BY <1>1, <1>4

LEMMA CountedBackFits ==
    ASSUME NEW a, AutocompleteFits(a)
    PROVE  /\ AutocompleteFits([a EXCEPT !.count = 0])
           /\ AutocompleteFits([a EXCEPT !.count = 0, !.focused = TRUE])
<1>1. PICK none \in Counts : none = 0 BY NoneSuggested
<1>2. AutocompleteFits([a EXCEPT !.count = none])
  BY DEF AutocompleteFits, AutocompleteStates
<1>3. AutocompleteFits([a EXCEPT !.count = none, !.focused = TRUE])
  BY DEF AutocompleteFits, AutocompleteStates
<1> QED BY <1>1, <1>2, <1>3

LEMMA FieldLeftFits ==
    ASSUME NEW a \in AutocompleteStates, AutocompleteFits(a) \/ a._mousedown,
           a.activeIndex < a.items, a.of # NoText /\ ~a.recounted => a.items = Wanted(a.of)
    PROVE  AutocompleteFits(LeftField(a))
<1>1. PICK b : b = [a EXCEPT !.focused = FALSE] OBVIOUS
<1>2. b \in AutocompleteStates BY <1>1 DEF AutocompleteStates
<1>3. CASE a._mousedown
  <2>1. AutocompleteFits(b) BY <1>1, <1>2, <1>3 DEF AutocompleteFits, AutocompleteStates
  <2> QED BY <1>1, <1>3, <2>1 DEF LeftField
<1>4. CASE ~a._mousedown
  <2>1. [b EXCEPT !.dropdown = FALSE] \in AutocompleteStates
    BY <1>2 DEF AutocompleteStates
  <2>2. AutocompleteFits(_resetAutocomplete([b EXCEPT !.dropdown = FALSE]))
    BY <2>1, AutocompleteReset
  <2> QED BY <1>1, <1>4, <2>2 DEF LeftField, CloseSuggestions
<1> QED BY <1>3, <1>4

LEMMA KeyMovedFits ==
    ASSUME NEW a, AutocompleteFits(a)
    PROVE  /\ a.activeIndex > 0 => AutocompleteFits([a EXCEPT !.activeIndex = @ - 1])
           /\ AutocompleteFits([a EXCEPT !.activeIndex = IF @ < a.items - 1 THEN @ + 1 ELSE @,
                                         !.dropdown = TRUE])
<1>1. PICK i \in Int, n \in Int : /\ i = a.activeIndex /\ n = a.items
                                  /\ -1 <= i /\ i < n /\ n <= MaxMatches
  BY AutocompleteAssumption DEF AutocompleteFits, AutocompleteStates, Places, ItemCounts
<1>2. ASSUME i > 0 PROVE AutocompleteFits([a EXCEPT !.activeIndex = @ - 1])
  <2>1. PICK j \in Places : j = i - 1 BY <1>1, <1>2, AutocompleteAssumption DEF Places
  <2>2. j < n BY <1>1, <2>1
  <2>3. AutocompleteFits([a EXCEPT !.activeIndex = j])
    BY <1>1, <2>2 DEF AutocompleteFits, AutocompleteStates
  <2> QED BY <1>1, <2>1, <2>3
<1>3. PICK j \in Places : j = (IF i < n - 1 THEN i + 1 ELSE i) /\ j < n
  BY <1>1, AutocompleteAssumption DEF Places
<1>4. AutocompleteFits([a EXCEPT !.activeIndex = j, !.dropdown = TRUE])
  BY <1>1, <1>3 DEF AutocompleteFits, AutocompleteStates
<1> QED BY <1>1, <1>2, <1>3, <1>4

LEMMA MouseFits ==
    ASSUME NEW a, AutocompleteFits(a)
    PROVE  /\ AutocompleteFits([a EXCEPT !._mousedown = TRUE])
           /\ \A down \in BOOLEAN : AutocompleteFits([a EXCEPT !._mousedown = down, !.strayed = TRUE])
           /\ [a EXCEPT !._mousedown = FALSE] \in AutocompleteStates
<1>1. AutocompleteFits([a EXCEPT !._mousedown = TRUE])
  BY DEF AutocompleteFits, AutocompleteStates
<1>2. ASSUME NEW down \in BOOLEAN
      PROVE  AutocompleteFits([a EXCEPT !._mousedown = down, !.strayed = TRUE])
  BY DEF AutocompleteFits, AutocompleteStates
<1>3. [a EXCEPT !._mousedown = FALSE] \in AutocompleteStates
  BY DEF AutocompleteFits, AutocompleteStates
<1> QED BY <1>1, <1>2, <1>3

LEMMA AutocompleteKeeps ==
    ASSUME OnPage("Autocomplete"), AutocompleteFits(auto), AutocompleteStep
    PROVE  AutocompleteFits(auto)'
<1>1. ASSUME NEW a, AutocompleteFits(a), AutoBecomes(a) PROVE AutocompleteFits(auto)'
  BY <1>1, BecomesIs DEF auto, AutoBecomes, Steps
<1>2. ASSUME NEW a \in AutocompleteStates, Select(a) PROVE AutocompleteFits(auto)'
  <2>1. PICK text \in Texts :
          AutoBecomes(CloseSuggestions(_resetAutocomplete([a EXCEPT !.value = text])))
    BY <1>2 DEF Select
  <2>2. [a EXCEPT !.value = text] \in AutocompleteStates BY DEF AutocompleteStates
  <2>3. PICK b : b = _resetAutocomplete([a EXCEPT !.value = text]) OBVIOUS
  <2>4. AutocompleteFits(b) BY <2>2, <2>3, AutocompleteReset
  <2>5. AutocompleteFits(CloseSuggestions(b)) BY <2>4, MenuFits DEF CloseSuggestions
  <2> QED BY <1>1, <2>1, <2>3, <2>5
<1>3. CASE TypeInField
  BY <1>1, <1>3, MenuFits DEF TypeInField
<1>4. CASE KeyUp
  <2>1. PICK a : a = [auto EXCEPT !.count = 0] OBVIOUS
  <2>2. AutocompleteFits(a) /\ a.focused
    BY <1>4, <2>1, CountedBackFits DEF KeyUp, AutocompleteFits, AutocompleteStates
  <2>3. PICK opens \in BOOLEAN : opens <=> a.oldVal # a.value OBVIOUS
  <2>4. AutoBecomes([IF opens THEN OpenSuggestions(a) ELSE a EXCEPT !.oldVal = a.value])
    BY <1>4, <2>1, <2>3 DEF KeyUp
  <2> QED BY <1>1, <2>2, <2>4, HandledFits
<1>5. CASE KeyUpOfArrowOrEnter
  BY <1>1, <1>5, CountedBackFits DEF KeyUpOfArrowOrEnter
<1>6. ASSUME NEW tabbed \in BOOLEAN, FocusField(tabbed) PROVE AutocompleteFits(auto)'
  <2>1. PICK a : a = [auto EXCEPT !.count = 0, !.focused = TRUE] OBVIOUS
  <2>2. AutocompleteFits(a) /\ a.focused
    BY <2>1, CountedBackFits DEF AutocompleteFits, AutocompleteStates
  <2>3. PICK opens \in BOOLEAN : opens <=> a.oldVal # a.value /\ tabbed OBVIOUS
  <2>4. AutoBecomes([IF opens THEN OpenSuggestions(a) ELSE a EXCEPT !.oldVal = a.value])
    BY <1>6, <2>1, <2>3 DEF FocusField
  <2> QED BY <1>1, <2>2, <2>4, HandledFits
<1>7. CASE BlurField
  <2>1. AutocompleteFits(LeftField(auto)) BY FieldLeftFits DEF AutocompleteFits
  <2> QED BY <1>1, <1>7, <2>1 DEF BlurField
<1>8. CASE PressEnter
  <2>1. AutocompleteFits([auto EXCEPT !.dropdown = TRUE]) BY MenuFits
  <2> QED BY <1>1, <1>2, <1>8, <2>1 DEF PressEnter, AutocompleteFits
<1>9. CASE PressUp \/ PressDown
  BY <1>1, <1>9, KeyMovedFits DEF PressUp, PressDown
<1>10. CASE ClickField
  <2>1. PICK a : a = OpenSuggestions(auto) OBVIOUS
  <2>2. AutocompleteFits(a)
    BY <1>10, <2>1, SuggestionsOpenFit DEF ClickField, AutocompleteFits
  <2>3. PICK closing \in BOOLEAN : closing = (a.closing \/ auto.dropdown) OBVIOUS
  <2>4. AutocompleteFits([a EXCEPT !.closing = closing]) BY <2>2, MenuFits
  <2> QED BY <1>1, <1>10, <2>1, <2>3, <2>4 DEF ClickField
<1>11. CASE CloseSuggestionsTimer
  <2>1. AutocompleteFits(CloseSuggestions(auto)) BY MenuFits DEF CloseSuggestions
  <2>2. AutocompleteFits([CloseSuggestions(auto) EXCEPT !.closing = FALSE]) BY <2>1, MenuFits
  <2> QED BY <1>1, <1>11, <2>2 DEF CloseSuggestionsTimer
<1>12. CASE PressSuggestion
  <2>1. PICK a : a = [auto EXCEPT !._mousedown = TRUE] OBVIOUS
  <2>2. AutocompleteFits(a) BY <2>1, MouseFits
  <2>3. AutocompleteFits(LeftField(a)) BY <2>2, FieldLeftFits DEF AutocompleteFits
  <2> QED BY <1>1, <1>12, <2>1, <2>2, <2>3 DEF PressSuggestion
<1>13. CASE ReleaseSuggestion
  BY <1>2, <1>13, MouseFits DEF ReleaseSuggestion
<1>14. CASE ReleaseBeside
  <2>1. PICK inMenu \in BOOLEAN :
          AutoBecomes([auto EXCEPT !._mousedown = ~inMenu, !.strayed = TRUE])
    BY <1>14 DEF ReleaseBeside
  <2>2. PICK down \in BOOLEAN : down = ~inMenu OBVIOUS
  <2> QED BY <1>1, <2>1, <2>2, MouseFits
<1> QED BY <1>3, <1>4, <1>5, <1>6, <1>7, <1>8, <1>9, <1>10, <1>11, <1>12, <1>13, <1>14
        DEF AutocompleteStep

LEMMA AutocompleteGives ==
    ASSUME AutocompleteFits(auto) PROVE AutocompleteTypeOK /\ SuggestionsFit
<1>1. AutocompleteTypeOK
  BY DEF AutocompleteFits, AutocompleteStates, ItemCounts, Places, Counts, AutocompleteTypeOK
<1> QED BY <1>1 DEF AutocompleteFits, Wanted, SuggestionsFit

-----------------------------------------------------------------------------
(* The chips                                                                *)

ChipLists == {s \in Seq(Tags) : IsInjective(s) /\ Len(s) <= MostChips}
ChipsStates ==
    [chipsData : ChipLists, shown : ChipLists, _selectedChip : Tags \cup {NoTag, GoneTag},
     input : Tags \cup {NoTag}, focus : Focusable, _keydown : BOOLEAN, mixed : BOOLEAN]

\* The two lists agree,
ChipsSound(c) == c \in ChipsStates /\ c.shown = c.chipsData
\* and the chip with the focus is selected.
FocusIsSelected(c) == c.focus \in Tags /\ ~c.mixed => c._selectedChip = c.focus
ChipsFits(c) == ChipsSound(c) /\ FocusIsSelected(c)

LEMMA ChipsInitFits == ASSUME NEW c \in ChipsInit PROVE ChipsFits(c)
<1>1. PICK data \in {<<>>} \cup {<<tag>> : tag \in Tags} :
        c = [chipsData |-> data, shown |-> data, _selectedChip |-> NoTag, input |-> NoTag,
             focus |-> "elsewhere", _keydown |-> FALSE, mixed |-> FALSE]
  BY DEF ChipsInit
<1>2. data \in ChipLists
  <2>0. 1 <= MostChips /\ 0 <= MostChips BY ChipsAssumption
  <2>1. CASE data = <<>>
    <3>1. data \in Seq(Tags) /\ Len(data) = 0 BY <2>1
    <3>2. IsInjective(data) BY <2>1 DEF IsInjective
    <3> QED BY <2>0, <3>1, <3>2 DEF ChipLists
  <2>2. ASSUME NEW tag \in Tags, data = <<tag>> PROVE data \in ChipLists
    <3>1. data \in Seq(Tags) /\ Len(data) = 1 /\ DOMAIN data = 1 .. 1 BY <2>2
    <3>2. \A i, j \in 1 .. 1 : i = j OBVIOUS
    <3>3. IsInjective(data) BY <3>1, <3>2 DEF IsInjective
    <3> QED BY <2>0, <3>1, <3>3 DEF ChipLists
  <2> QED BY <2>1, <2>2
<1>3. "elsewhere" \in Focusable /\ "elsewhere" \notin Tags BY ChipsAssumption DEF Focusable
<1>4. c \in ChipsStates BY <1>1, <1>2, <1>3 DEF ChipsStates
<1> QED BY <1>1, <1>3, <1>4 DEF ChipsFits, ChipsSound, FocusIsSelected

LEMMA RemovedFits ==
    ASSUME NEW s \in ChipLists, NEW index \in Int
    PROVE  /\ RemovedAt(s, index) \in ChipLists
           /\ PlaceOf(s, index) \in 1 .. Len(s) => Len(RemovedAt(s, index)) = Len(s) - 1
           /\ PlaceOf(s, index) \notin 1 .. Len(s) => RemovedAt(s, index) = s
<1>1. s \in Seq(Tags) /\ IsInjective(s) /\ Len(s) <= MostChips BY DEF ChipLists
<1>2. CASE PlaceOf(s, index) \notin 1 .. Len(s) BY <1>2 DEF RemovedAt
<1>3. CASE PlaceOf(s, index) \in 1 .. Len(s)
  <2>1. PICK p \in 1 .. Len(s) : p = PlaceOf(s, index) BY <1>3
  <2>2. PICK r : r = RemoveAt(s, p) OBVIOUS
  <2>3. r \in Seq(Tags) /\ IsInjective(r) /\ Len(r) = Len(s) - 1
    BY <1>1, <2>2, RemovedIs
  <2>4. Len(r) <= MostChips BY <1>1, <2>3, ChipsAssumption
  <2> QED BY <1>3, <2>1, <2>2, <2>3, <2>4 DEF RemovedAt, ChipLists
<1> QED BY <1>2, <1>3

LEMMA AddedFits ==
    ASSUME NEW s \in ChipLists, NEW tag \in Tags, tag \notin ToSet(s), Len(s) < MostChips
    PROVE  Append(s, tag) \in ChipLists
<1>1. s \in Seq(Tags) /\ IsInjective(s) BY DEF ChipLists
<1>2. PICK r : r = Append(s, tag) OBVIOUS
<1>3. r \in Seq(Tags) /\ IsInjective(r) /\ Len(r) = Len(s) + 1
  BY <1>1, <1>2, AppendedIs
<1>4. Len(r) <= MostChips BY <1>1, <1>3, ChipsAssumption
<1> QED BY <1>2, <1>3, <1>4 DEF ChipLists

LEMMA IndexIs ==
    ASSUME NEW c, ChipsSound(c), NEW tag
    PROVE  /\ IndexOf(c, tag) \in -1 .. Len(c.shown) - 1
           /\ tag \in ToSet(c.shown) => /\ IndexOf(c, tag) \in 0 .. Len(c.shown) - 1
                                        /\ c.shown[IndexOf(c, tag) + 1] = tag
<1>1. PICK s \in Seq(Tags) : s = c.shown BY DEF ChipsSound, ChipsStates, ChipLists
<1>2. PICK n \in Nat : n = Len(s) OBVIOUS
<1>3. CASE tag \in ToSet(s)
  <2>1. \E i \in 1 .. n : s[i] = tag BY <1>2, <1>3 DEF ToSet
  <2>2. PICK i \in 1 .. n : i = CHOOSE j \in 1 .. n : s[j] = tag BY <2>1
  <2>3. s[i] = tag BY <2>1, <2>2
  <2>4. IndexOf(c, tag) = i - 1 BY <1>1, <1>2, <1>3, <2>2 DEF IndexOf
  <2>5. i - 1 \in 0 .. n - 1 /\ i - 1 \in -1 .. n - 1 /\ (i - 1) + 1 = i OBVIOUS
  <2> QED BY <1>1, <1>2, <2>3, <2>4, <2>5
<1>4. CASE tag \notin ToSet(s)
  <2>1. IndexOf(c, tag) = -1 BY <1>1, <1>4 DEF IndexOf
  <2> QED BY <1>1, <1>2, <1>4, <2>1
<1> QED BY <1>3, <1>4

\* The focus moves.
LEMMA MovedIs ==
    ASSUME NEW c, ChipsSound(c), NEW to \in Focusable, NEW d, d = FocusMoved(c, to)
    PROVE  /\ ChipsSound(d) /\ d.focus = to
           /\ d.shown = c.shown /\ d.mixed = c.mixed /\ d._keydown = c._keydown
           /\ c.focus \in {to, "elsewhere"} \/ c._keydown => d._selectedChip = c._selectedChip
<1>1. CASE c.focus = to
  <2>1. d = c BY <1>1 DEF FocusMoved
  <2> QED BY <1>1, <2>1
<1>2. CASE c.focus # to
  <2>1. PICK tag \in Tags \cup {NoTag, GoneTag} :
          tag = IF c.focus = "elsewhere" \/ c._keydown THEN c._selectedChip ELSE NoTag
    BY DEF ChipsSound, ChipsStates
  <2>2. d = [c EXCEPT !.focus = to, !._selectedChip = tag]
    BY <1>2, <2>1 DEF FocusMoved, ChipsSound, ChipsStates
  <2>3. /\ ChipsSound(d) /\ d.focus = to /\ d._selectedChip = tag
        /\ d.shown = c.shown /\ d.mixed = c.mixed /\ d._keydown = c._keydown
    BY <2>2 DEF ChipsSound, ChipsStates
  <2> QED BY <1>2, <2>1, <2>3
<1> QED BY <1>1, <1>2

\* A chip is selected.
LEMMA SelectedIs ==
    ASSUME NEW c, ChipsSound(c), NEW index \in Int, index + 1 \in 1 .. Len(c.shown),
           c.focus \in {c.shown[index + 1], "elsewhere"} \/ c._keydown
    PROVE  ChipsFits(selectChip(c, index))
<1>1. c.shown \in Seq(Tags) BY DEF ChipsSound, ChipsStates, ChipLists
<1>2. PICK tag \in Tags : tag = c.shown[index + 1] BY <1>1
<1>3. tag \in Focusable BY DEF Focusable
<1>4. PICK d : d = [c EXCEPT !._selectedChip = tag] OBVIOUS
<1>5. /\ ChipsSound(d) /\ d._selectedChip = tag /\ d.focus = c.focus /\ d._keydown = c._keydown
  BY <1>4 DEF ChipsSound, ChipsStates
<1>6. PICK r : r = FocusMoved(d, tag) OBVIOUS
<1>7. /\ ChipsSound(r) /\ r.focus = tag
      /\ d.focus \in {tag, "elsewhere"} \/ d._keydown => r._selectedChip = d._selectedChip
  BY <1>3, <1>5, <1>6, MovedIs
<1>8. r._selectedChip = tag BY <1>2, <1>5, <1>7
<1>9. selectChip(c, index) = r BY <1>2, <1>4, <1>6 DEF selectChip
<1> QED BY <1>7, <1>8, <1>9 DEF ChipsFits, FocusIsSelected

\* A chip is deleted.
LEMMA DeletedIs ==
    ASSUME NEW c, ChipsSound(c), NEW index \in Int, NEW d, d = deleteChip(c, index)
    PROVE  /\ ChipsSound(d) /\ d.focus = c.focus /\ d.mixed = c.mixed /\ d._keydown = c._keydown
           /\ d.shown = RemovedAt(c.shown, index)
<1>1. PICK s \in ChipLists : s = c.shown /\ s = c.chipsData
  BY DEF ChipsSound, ChipsStates
<1>2. PICK r \in ChipLists : r = RemovedAt(s, index) BY RemovedFits
<1>3. PICK tag \in Tags \cup {NoTag, GoneTag} :
        tag = IF c._selectedChip \in ToSet(c.shown)
                 /\ c._selectedChip = c.shown[PlaceOf(c.shown, index)]
              THEN GoneTag ELSE c._selectedChip
  BY DEF ChipsSound, ChipsStates
<1>4. d = [c EXCEPT !.chipsData = r, !.shown = r, !._selectedChip = tag]
  BY <1>1, <1>2, <1>3 DEF deleteChip, ChipsSound, ChipsStates
<1>5. /\ ChipsSound(d) /\ d.focus = c.focus /\ d.mixed = c.mixed /\ d._keydown = c._keydown
      /\ d.shown = r
  BY <1>4 DEF ChipsSound, ChipsStates
<1> QED BY <1>1, <1>2, <1>5

LEMMA NotTags == "input" \in Focusable \ Tags /\ "elsewhere" \in Focusable \ Tags
BY ChipsAssumption DEF Focusable

LEMMA ElsewhereFits == ASSUME NEW c, ChipsSound(c), c.focus \notin Tags PROVE ChipsFits(c)
BY DEF ChipsFits, FocusIsSelected

LEMMA NotedFits ==
    ASSUME NEW c, ChipsSound(c), NEW mixed \in BOOLEAN
    PROVE  /\ ChipsSound([c EXCEPT !.mixed = mixed]) /\ [c EXCEPT !.mixed = mixed].shown = c.shown
           /\ ChipsSound([c EXCEPT !.focus = "input"]) /\ [c EXCEPT !.focus = "input"].focus = "input"
           /\ ChipsSound([c EXCEPT !.focus = "elsewhere"])
           /\ [c EXCEPT !.focus = "elsewhere"].focus = "elsewhere"
           /\ ChipsSound([c EXCEPT !._selectedChip = NoTag])
           /\ [c EXCEPT !._selectedChip = NoTag].shown = c.shown
           /\ [c EXCEPT !._selectedChip = NoTag]._keydown = c._keydown
           /\ ChipsSound([c EXCEPT !._selectedChip = GoneTag])
           /\ [c EXCEPT !._selectedChip = GoneTag].focus = c.focus
           /\ [c EXCEPT !._selectedChip = GoneTag].mixed = c.mixed
BY NotTags DEF ChipsSound, ChipsStates

LEMMA KeyDownIs ==
    ASSUME NEW c, ChipsSound(c)
    PROVE  /\ ChipsSound(KeyDown(c)) /\ KeyDown(c)._keydown /\ KeyDown(c).shown = c.shown
           /\ KeyDown(c).focus = c.focus
           /\ FocusIsSelected(c) => FocusIsSelected(KeyDown(c))
BY DEF ChipsSound, ChipsStates, KeyDown, FocusIsSelected

\* A chip is pressed with the mouse.
LEMMA PressedIs ==
    ASSUME NEW c, ChipsSound(c), NEW to \in Focusable,
           NEW d, d = FocusMoved([c EXCEPT !.mixed = @ \/ c._keydown], to)
    PROVE  ChipsSound(d) /\ d.focus = to /\ d.shown = c.shown
<1>1. PICK mixed \in BOOLEAN : mixed = (c.mixed \/ c._keydown) OBVIOUS
<1>2. PICK e : e = [c EXCEPT !.mixed = mixed] OBVIOUS
<1>3. ChipsSound(e) /\ e.shown = c.shown BY <1>2, NotedFits
<1>4. d = FocusMoved(e, to) BY <1>1, <1>2
<1> QED BY <1>3, <1>4, MovedIs

LEMMA AddFits ==
    ASSUME NEW c, ChipsSound(c), NEW tag \in Tags \cup {NoTag}, NEW d, d = addChip(c, tag)
    PROVE  ChipsSound(d) /\ d.focus = c.focus
<1>1. PICK s \in ChipLists : s = c.shown /\ s = c.chipsData
  BY DEF ChipsSound, ChipsStates
<1>2. CASE d = c BY <1>2
<1>3. CASE d # c
  <2>1. tag # NoTag /\ tag \notin ToSet(s) /\ ~(Len(s) >= MostChips)
    BY <1>1, <1>3 DEF addChip
  <2>2. Len(s) < MostChips BY <2>1, ChipsAssumption DEF ChipLists
  <2>3. Append(s, tag) \in ChipLists BY <2>1, <2>2, AddedFits
  <2>4. PICK r \in ChipLists : r = Append(s, tag) BY <2>3
  <2>5. d = [c EXCEPT !.chipsData = r, !.shown = r]
    BY <1>1, <1>3, <2>4 DEF addChip, ChipsSound, ChipsStates
  <2> QED BY <2>5 DEF ChipsSound, ChipsStates
<1> QED BY <1>2, <1>3

LEMMA ChipsKeep ==
    ASSUME OnPage("Chips"), ChipsFits(chips), ChipsStep
    PROVE  ChipsFits(chips)'
<1>0. ChipsSound(chips) /\ FocusIsSelected(chips) BY DEF ChipsFits
<1>1. ASSUME NEW c, ChipsFits(c), ChipsBecome(c) PROVE ChipsFits(chips)'
  BY <1>1, BecomesIs DEF chips, ChipsBecome, Steps
<1>2. ASSUME NEW c, ChipsSound(c), c.focus \notin Tags, ChipsBecome(c) PROVE ChipsFits(chips)'
  BY <1>1, <1>2, ElsewhereFits
<1> PICK k : k = KeyDown(chips) OBVIOUS
<1>3. /\ ChipsSound(k) /\ k._keydown /\ k.shown = chips.shown /\ k.focus = chips.focus
      /\ FocusIsSelected(k)
  BY <1>0, KeyDownIs
<1>4. chips.shown \in Seq(Tags) /\ chips.chipsData = chips.shown
  BY <1>0 DEF ChipsSound, ChipsStates, ChipLists
<1>5. ASSUME NEW tag \in Tags, ClickChip(tag) PROVE ChipsFits(chips)'
  <2>1. PICK pressed : pressed = FocusMoved([chips EXCEPT !.mixed = @ \/ chips._keydown], tag)
    OBVIOUS
  <2>2. tag \in Focusable BY DEF Focusable
  <2>3. ChipsSound(pressed) /\ pressed.focus = tag /\ pressed.shown = chips.shown
    BY <1>0, <2>1, <2>2, PressedIs
  <2>4. tag \in ToSet(pressed.shown) BY <1>5, <2>3 DEF ClickChip
  <2>5. PICK i : i = IndexOf(pressed, tag) OBVIOUS
  <2>6. i \in 0 .. Len(pressed.shown) - 1 /\ pressed.shown[i + 1] = tag
    BY <2>3, <2>4, <2>5, IndexIs
  <2>7. i \in Int /\ i + 1 \in 1 .. Len(pressed.shown) BY <1>4, <2>3, <2>6
  <2>8. ChipsFits(selectChip(pressed, i)) BY <2>3, <2>6, <2>7, SelectedIs
  <2> QED BY <1>1, <1>5, <2>1, <2>5, <2>8 DEF ClickChip
<1>6. ASSUME NEW tag \in Tags, ClickCloseChip(tag) PROVE ChipsFits(chips)'
  <2>1. PICK pressed : pressed = FocusMoved([chips EXCEPT !.mixed = @ \/ chips._keydown], tag)
    OBVIOUS
  <2>2. tag \in Focusable BY DEF Focusable
  <2>3. ChipsSound(pressed) BY <1>0, <2>1, <2>2, PressedIs
  <2>4. PICK i : i = IndexOf(pressed, tag) OBVIOUS
  <2>5. i \in Int
    <3>1. Len(pressed.shown) \in Nat BY <2>3 DEF ChipsSound, ChipsStates, ChipLists
    <3>2. i \in -1 .. Len(pressed.shown) - 1 BY <2>3, <2>4, IndexIs
    <3> QED BY <3>1, <3>2
  <2>6. PICK deleted : deleted = deleteChip(pressed, i) OBVIOUS
  <2>7. ChipsSound(deleted) BY <2>3, <2>5, <2>6, DeletedIs
  <2>8. \/ ChipsBecome(FocusMoved(deleted, "input"))
        \/ ChipsBecome([deleted EXCEPT !.focus = "input"])
    BY <1>6, <2>1, <2>4, <2>6 DEF ClickCloseChip
  <2>9. /\ ChipsSound(FocusMoved(deleted, "input")) /\ FocusMoved(deleted, "input").focus = "input"
    BY <2>7, NotTags, MovedIs
  <2>10. /\ ChipsSound([deleted EXCEPT !.focus = "input"])
         /\ [deleted EXCEPT !.focus = "input"].focus = "input"
    BY <2>7, NotedFits
  <2> QED BY <1>2, <2>8, <2>9, <2>10, NotTags
<1>7. CASE ClickBesideChips
  <2>1. PICK to \in {"input", "elsewhere"} :
          ChipsBecome(FocusMoved([chips EXCEPT !.mixed = @ \/ chips._keydown], to))
    BY <1>7 DEF ClickBesideChips
  <2>2. to \in Focusable /\ to \notin Tags BY NotTags
  <2>3. PICK c : c = FocusMoved([chips EXCEPT !.mixed = @ \/ chips._keydown], to) OBVIOUS
  <2>4. ChipsSound(c) /\ c.focus = to BY <1>0, <2>2, <2>3, PressedIs
  <2> QED BY <1>2, <2>1, <2>2, <2>3, <2>4
<1>8. CASE TypeTag
  <2>1. PICK tag \in Tags : ChipsBecome([chips EXCEPT !.input = tag]) BY <1>8 DEF TypeTag
  <2>2. ChipsFits([chips EXCEPT !.input = tag])
    BY <1>0 DEF ChipsFits, ChipsSound, ChipsStates, FocusIsSelected
  <2> QED BY <1>1, <2>1, <2>2
<1>9. CASE EnterChip
  <2>1. PICK tag \in Tags \cup {NoTag} : tag = chips.input BY <1>0 DEF ChipsSound, ChipsStates
  <2>2. PICK c : c = addChip(k, tag) OBVIOUS
  <2>3. ChipsSound(c) /\ c.focus = "input" BY <1>3, <1>9, <2>2, AddFits DEF EnterChip
  <2>4. ChipsSound([c EXCEPT !.input = NoTag]) /\ [c EXCEPT !.input = NoTag].focus = "input"
    BY <2>3 DEF ChipsSound, ChipsStates
  <2> QED BY <1>2, <1>9, <2>1, <2>2, <2>4, NotTags DEF EnterChip
<1>10. CASE LeaveInput
  <2>1. PICK n \in Nat : n = Len(chips.shown) /\ n > 0 BY <1>4, <1>10 DEF LeaveInput
  <2>2. n - 1 \in Int /\ (n - 1) + 1 \in 1 .. Len(k.shown) BY <1>3, <2>1
  <2>3. ChipsFits(selectChip(k, n - 1)) BY <1>3, <2>2, SelectedIs
  <2> QED BY <1>1, <1>4, <1>10, <2>1, <2>3 DEF LeaveInput
<1>11. CASE Backspace
  <2>1. PICK i : i = IndexOf(chips, chips._selectedChip) OBVIOUS
  <2>2. PICK n \in Nat : n = Len(chips.shown) BY <1>4
  <2>3. i \in -1 .. n - 1 /\ i \in Int BY <1>0, <2>1, <2>2, IndexIs
  <2>4. PICK d : d = deleteChip(k, i) OBVIOUS
  <2>5. ChipsSound(d) /\ d._keydown /\ d.shown = RemovedAt(chips.shown, i)
    BY <1>3, <2>3, <2>4, DeletedIs
  <2>6. PICK e : e = [d EXCEPT !._selectedChip = NoTag] OBVIOUS
  <2>7. ChipsSound(e) /\ e._keydown /\ e.shown = RemovedAt(chips.shown, i)
    BY <2>5, <2>6, NotedFits
  <2>8. CASE chips._selectedChip = NoTag
    <3>1. chips.mixed /\ k.mixed
      BY <1>0, <1>11, <2>8, ChipsAssumption
         DEF Backspace, FocusIsSelected, KeyDown, ChipsSound, ChipsStates
    <3>2. PICK c : c = [k EXCEPT !._selectedChip = IF chips.chipsData = <<>> THEN @ ELSE GoneTag]
      OBVIOUS
    <3>3. c = k \/ c = [k EXCEPT !._selectedChip = GoneTag]
      BY <1>3, <3>2 DEF ChipsSound, ChipsStates
    <3>4. TRUE \in BOOLEAN OBVIOUS
    <3>a. /\ ChipsSound([k EXCEPT !._selectedChip = GoneTag])
          /\ [k EXCEPT !._selectedChip = GoneTag].mixed = k.mixed
      BY ONLY <1>3, <3>4, NotedFits
    <3>5. ChipsSound(c) /\ c.mixed BY <1>3, <3>1, <3>3, <3>a
    <3>6. ChipsFits(c) BY <3>5 DEF ChipsFits, FocusIsSelected
    <3> QED BY <1>1, <1>11, <2>8, <3>2, <3>6 DEF Backspace
  <2>9. CASE chips._selectedChip # NoTag /\ e.chipsData = <<>>
    <3>1. ChipsBecome([e EXCEPT !.focus = "elsewhere"])
      BY <1>11, <2>1, <2>4, <2>6, <2>9 DEF Backspace
    <3> QED BY <1>2, <2>7, <3>1, NotedFits, NotTags
  <2>10. CASE chips._selectedChip # NoTag /\ e.chipsData # <<>>
    <3>1. PICK j \in Int : j = IF i > 0 THEN i - 1 ELSE 0 BY <2>3
    <3>2. ChipsBecome(selectChip(e, j))
      BY <1>11, <2>1, <2>4, <2>6, <2>10, <3>1 DEF Backspace
    <3>3. e.shown \in Seq(Tags) /\ e.shown # <<>>
      BY <2>7, <2>10 DEF ChipsSound, ChipsStates, ChipLists
    <3>4. PICK m \in Nat : m = Len(e.shown) /\ m > 0 BY <3>3
    <3>5. chips.shown \in ChipLists BY <1>0 DEF ChipsSound, ChipsStates
    <3>6. m = n - 1 \/ m = n BY <2>2, <2>3, <2>7, <3>4, <3>5, RemovedFits
    <3>7. i > 0 => i \in 1 .. n - 1 BY <2>3
    <3>8. j + 1 \in 1 .. m BY <2>3, <3>1, <3>4, <3>6, <3>7
    <3>9. ChipsFits(selectChip(e, j)) BY <2>7, <3>4, <3>8, SelectedIs
    <3> QED BY <1>1, <3>2, <3>9
  <2> QED BY <2>8, <2>9, <2>10
<1>12. ASSUME NEW right \in BOOLEAN, Arrow(right) PROVE ChipsFits(chips)'
  <2>1. PICK n \in Nat : n = Len(chips.shown) BY <1>4
  <2>2. PICK i \in -1 .. n - 1 : i = IndexOf(chips, chips._selectedChip) BY <1>0, <2>1, IndexIs
  <2>3. PICK index \in Int : index = i + (IF right THEN 1 ELSE -1) OBVIOUS
  <2>4. CASE chips._selectedChip = NoTag \/ index < 0
    <3>1. ChipsBecome(k) BY <1>12, <2>2, <2>3, <2>4 DEF Arrow
    <3> QED BY <1>1, <1>3, <3>1 DEF ChipsFits
  <2>5. CASE ~(chips._selectedChip = NoTag \/ index < 0) /\ index >= n
    <3>1. ChipsBecome(FocusMoved(k, "input"))
      BY <1>4, <1>12, <2>1, <2>2, <2>3, <2>5 DEF Arrow
    <3>2. ChipsSound(FocusMoved(k, "input")) /\ FocusMoved(k, "input").focus = "input"
      BY <1>3, NotTags, MovedIs
    <3> QED BY <1>2, <3>1, <3>2, NotTags
  <2>6. CASE ~(chips._selectedChip = NoTag \/ index < 0) /\ ~(index >= n)
    <3>1. ChipsBecome(selectChip(k, index))
      BY <1>4, <1>12, <2>1, <2>2, <2>3, <2>6 DEF Arrow
    <3>2. index + 1 \in 1 .. Len(k.shown) BY <1>3, <2>1, <2>6
    <3>3. ChipsFits(selectChip(k, index)) BY <1>3, <3>2, SelectedIs
    <3> QED BY <1>1, <3>1, <3>3
  <2> QED BY <2>4, <2>5, <2>6
<1>13. CASE Tab
  <2>1. PICK to \in ToSet(chips.shown) \cup {"input", "elsewhere"} :
          ChipsBecome(FocusMoved([k EXCEPT !.mixed = TRUE], to))
    BY <1>13 DEF Tab
  <2>2. to \in Focusable BY <1>4, NotTags DEF ToSet, Focusable
  <2>3. PICK c : c = [k EXCEPT !.mixed = TRUE] OBVIOUS
  <2>4. ChipsSound(c) /\ c.mixed = TRUE BY <1>3, <2>3 DEF ChipsSound, ChipsStates
  <2>5. PICK d : d = FocusMoved(c, to) OBVIOUS
  <2>6. ChipsSound(d) /\ d.mixed = TRUE BY <2>2, <2>4, <2>5, MovedIs
  <2>7. ChipsFits(d) BY <2>6 DEF ChipsFits, FocusIsSelected
  <2> QED BY <1>1, <2>1, <2>3, <2>5, <2>7
<1>14. CASE ChipsKeyUp
  <2>1. ChipsFits([chips EXCEPT !._keydown = FALSE])
    BY <1>0 DEF ChipsFits, ChipsSound, ChipsStates, FocusIsSelected
  <2> QED BY <1>1, <1>14, <2>1 DEF ChipsKeyUp
<1> QED BY <1>5, <1>6, <1>7, <1>8, <1>9, <1>10, <1>11, <1>12, <1>13, <1>14 DEF ChipsStep

LEMMA ChipsGive == ASSUME ChipsFits(chips) PROVE ChipsTypeOK /\ ChipsAgree
<1>1. ChipLists \subseteq Seq(Tags) BY DEF ChipLists
<1>2. ChipsTypeOK BY <1>1 DEF ChipsFits, ChipsSound, ChipsStates, ChipsTypeOK
<1>3. chips.chipsData \in ChipLists BY DEF ChipsFits, ChipsSound, ChipsStates
<1> QED BY <1>2, <1>3 DEF ChipsFits, ChipsSound, FocusIsSelected, ChipLists, ChipsAgree

-----------------------------------------------------------------------------
(* The ripples                                                              *)

Touches == 0 .. MaxTouches
WavesStates ==
    [touches : Touches, pops : Touches, fingers : Touches, mouse : BOOLEAN, attached : BOOLEAN,
     ripples : Seq(Ripples), fades : [Ripples -> Touches], removes : [Ripples -> Touches],
     together : BOOLEAN, outside : BOOLEAN]

RipplesSound(w) ==
    /\ w \in WavesStates /\ IsInjective(w.ripples)
    /\ \A r \in Ripples : w.fades[r] + w.removes[r] <= MaxTouches

\* A ripple that is not on its way out is the last,
LastIsHeld(w) == ~w.together => \A r \in ToSet(w.ripples) : ~Hiding(w, r) => r = Last(w.ripples)
\* and somebody holds it.
SomebodyHolds(w) ==
    ~w.together /\ w.fingers = 0 /\ ~w.mouse => \A r \in ToSet(w.ripples) : Hiding(w, r)

TouchesSound(w) == /\ w.touches >= w.fingers + w.pops
                   /\ ~w.outside => w.touches = w.fingers + w.pops

WavesFits(w) == RipplesSound(w) /\ LastIsHeld(w) /\ SomebodyHolds(w) /\ TouchesSound(w)

LEMMA TouchesCount == Touches \subseteq Nat /\ 0 \in Touches
BY WavesAssumption DEF Touches

LEMMA WavesInitFits == WavesFits(WavesInit)
<1>1. PICK none \in [Ripples -> Touches] : none = [r \in Ripples |-> 0] BY TouchesCount
<1>2. PICK w : w = WavesInit OBVIOUS
<1>3. /\ w.touches = 0 /\ w.fingers = 0 /\ w.pops = 0 /\ w.ripples = <<>>
      /\ w.fades = none /\ w.removes = none
  BY <1>1, <1>2 DEF WavesInit
<1>4. w \in WavesStates BY <1>1, <1>2, TouchesCount, EmptyIs DEF WavesInit, WavesStates
<1>5. RipplesSound(w) BY <1>1, <1>3, <1>4, EmptyIs, WavesAssumption DEF RipplesSound
<1> QED BY <1>2, <1>3, <1>5, EmptyIs DEF WavesFits, LastIsHeld, SomebodyHolds, TouchesSound

\* What counts for the ripples and who holds them
SameRipples(v, w) ==
    /\ v.ripples = w.ripples /\ v.fades = w.fades /\ v.removes = w.removes
    /\ v.together = w.together

LEMMA SameHeld ==
    ASSUME NEW v \in WavesStates, NEW w, RipplesSound(w), SameRipples(v, w)
    PROVE  /\ RipplesSound(v) /\ (LastIsHeld(w) => LastIsHeld(v))
           /\ \A r : Hiding(v, r) <=> Hiding(w, r)
BY DEF RipplesSound, SameRipples, LastIsHeld, Hiding

LEMMA ShowFits ==
    ASSUME NEW w, RipplesSound(w), NEW r \in Ripples, r \notin ToSet(w.ripples),
           w.fingers > 0 \/ w.mouse, TouchesSound(w), w.fingers \in Touches
    PROVE  WavesFits(Show(w, r))
<1>1. w.ripples \in Seq(Ripples) /\ IsInjective(w.ripples) BY DEF RipplesSound, WavesStates
<1>2. PICK ripples : ripples = Append(w.ripples, r) OBVIOUS
<1>3. /\ ripples \in Seq(Ripples) /\ IsInjective(ripples) /\ Last(ripples) = r
      /\ ToSet(ripples) = ToSet(w.ripples) \cup {r}
  <2>1. PICK s \in Seq(Ripples) : s = w.ripples BY <1>1
  <2>2. IsInjective(s) /\ r \notin ToSet(s) /\ ripples = Append(s, r) BY <1>1, <1>2, <2>1
  <2>3. /\ ripples \in Seq(Ripples) /\ IsInjective(ripples) /\ Last(ripples) = r
        /\ ToSet(ripples) = ToSet(s) \cup {r}
    BY <2>2, AppendedIs
  <2> QED BY <2>1, <2>3
<1>4. PICK together \in BOOLEAN :
        together = (w.together \/ \E s \in ToSet(w.ripples) : ~Hiding(w, s))
  OBVIOUS
<1>5. PICK v : v = [w EXCEPT !.ripples = ripples, !.together = together] OBVIOUS
<1>6. Show(w, r) = v BY <1>2, <1>4, <1>5 DEF Show
<1>7. /\ v \in WavesStates /\ v.ripples = ripples /\ v.together = together
      /\ v.fades = w.fades /\ v.removes = w.removes /\ v.fingers = w.fingers
      /\ v.mouse = w.mouse /\ v.touches = w.touches /\ v.pops = w.pops /\ v.outside = w.outside
  BY <1>3, <1>5 DEF RipplesSound, WavesStates
<1>8. RipplesSound(v) BY <1>3, <1>7 DEF RipplesSound
<1>9. \A s : Hiding(v, s) <=> Hiding(w, s) BY <1>7 DEF Hiding
<1>10. LastIsHeld(v)
  <2>1. ~together => \A s \in ToSet(w.ripples) : Hiding(w, s) BY <1>4
  <2> QED BY <1>3, <1>7, <1>9, <2>1 DEF LastIsHeld
<1>11. SomebodyHolds(v) BY <1>7, TouchesCount DEF SomebodyHolds
<1>12. TouchesSound(v) BY <1>7 DEF TouchesSound
<1> QED BY <1>6, <1>8, <1>10, <1>11, <1>12 DEF WavesFits

LEMMA HideFits ==
    ASSUME NEW w, RipplesSound(w), LastIsHeld(w), TouchesSound(w),
           \A r \in Ripples : w.fades[r] + w.removes[r] < MaxTouches
    PROVE  WavesFits(Hide(w))
<1>1. w.ripples \in Seq(Ripples) BY DEF RipplesSound, WavesStates
<1>2. CASE w.ripples = <<>>
  BY <1>2, EmptyIs DEF Hide, WavesFits, SomebodyHolds
<1>3. CASE w.ripples # <<>>
  <2>1. PICK l \in Ripples : l = Last(w.ripples) /\ l \in ToSet(w.ripples)
    BY <1>1, <1>3, NonemptyIs
  <2>2. PICK m \in Nat, n \in Nat : m = w.fades[l] /\ n = w.removes[l]
    BY TouchesCount DEF RipplesSound, WavesStates
  <2>3. m + 1 \in Touches /\ (m + 1) + n <= MaxTouches /\ (m + 1) + n > 0
    BY <2>2, WavesAssumption DEF Touches
  <2>4. PICK fades \in [Ripples -> Touches] : fades = [w.fades EXCEPT ![l] = m + 1]
    BY <2>3 DEF RipplesSound, WavesStates
  <2>5. PICK v : v = [w EXCEPT !.fades = fades] OBVIOUS
  <2>6. Hide(w) = v BY <1>3, <2>1, <2>2, <2>4, <2>5 DEF Hide, RipplesSound, WavesStates
  <2>7. /\ v \in WavesStates /\ v.ripples = w.ripples /\ v.together = w.together
        /\ v.fades = fades /\ v.removes = w.removes /\ v.fingers = w.fingers
        /\ v.mouse = w.mouse /\ v.touches = w.touches /\ v.pops = w.pops
        /\ v.outside = w.outside
    BY <2>5 DEF RipplesSound, WavesStates
  <2>8. fades[l] = m + 1 /\ \A r \in Ripples : r # l => fades[r] = w.fades[r]
    BY <2>4 DEF RipplesSound, WavesStates
  <2>9. ASSUME NEW r \in Ripples
        PROVE  v.fades[r] + v.removes[r] <= MaxTouches /\ (Hiding(w, r) \/ r = l => Hiding(v, r))
    <3>1. CASE r = l BY <2>2, <2>3, <2>7, <2>8, <3>1 DEF Hiding
    <3>2. CASE r # l BY <2>7, <2>8, <3>2 DEF Hiding, RipplesSound
    <3> QED BY <3>1, <3>2
  <2>10. RipplesSound(v) BY <2>7, <2>9 DEF RipplesSound
  <2>11. ToSet(w.ripples) \subseteq Ripples BY <1>1, NonemptyIs
  <2>12. ~v.together => \A r \in ToSet(v.ripples) : Hiding(v, r)
    BY <2>1, <2>7, <2>9, <2>11 DEF LastIsHeld
  <2>13. LastIsHeld(v) /\ SomebodyHolds(v) BY <2>12 DEF LastIsHeld, SomebodyHolds
  <2>14. TouchesSound(v) BY <2>7 DEF TouchesSound
  <2> QED BY <2>6, <2>10, <2>13, <2>14 DEF WavesFits
<1> QED BY <1>2, <1>3

\* A ripple fades out and is removed: it is on its way out before as after.
LEMMA FadeFits ==
    ASSUME NEW w, WavesFits(w), NEW r \in Ripples, w.fades[r] > 0
    PROVE  WavesFits([w EXCEPT !.fades[r] = @ - 1, !.removes[r] = @ + 1])
<1>0. RipplesSound(w) /\ w \in WavesStates BY DEF WavesFits, RipplesSound
<1>1. PICK m \in Nat, n \in Nat : m = w.fades[r] /\ n = w.removes[r] /\ m > 0
  BY <1>0, TouchesCount DEF WavesStates
<1>2. m + n <= MaxTouches BY <1>0, <1>1 DEF RipplesSound
<1>3. m - 1 \in Touches /\ n + 1 \in Touches /\ (m - 1) + (n + 1) = m + n
  BY <1>1, <1>2, WavesAssumption DEF Touches
<1>4. PICK fades \in [Ripples -> Touches], removes \in [Ripples -> Touches] :
        fades = [w.fades EXCEPT ![r] = m - 1] /\ removes = [w.removes EXCEPT ![r] = n + 1]
  BY <1>0, <1>3 DEF WavesStates
<1>5. PICK v : v = [w EXCEPT !.fades = fades, !.removes = removes] OBVIOUS
<1>6. [w EXCEPT !.fades[r] = @ - 1, !.removes[r] = @ + 1] = v
  BY <1>0, <1>1, <1>4, <1>5 DEF WavesStates
<1>7. /\ v \in WavesStates /\ v.ripples = w.ripples /\ v.together = w.together
      /\ v.fades = fades /\ v.removes = removes /\ v.fingers = w.fingers
      /\ v.mouse = w.mouse /\ v.touches = w.touches /\ v.pops = w.pops
      /\ v.outside = w.outside
  BY <1>0, <1>5 DEF WavesStates
<1>8. /\ fades[r] = m - 1 /\ removes[r] = n + 1
      /\ \A s \in Ripples : s # r => fades[s] = w.fades[s] /\ removes[s] = w.removes[s]
  BY <1>0, <1>4 DEF WavesStates
<1>9. ASSUME NEW s \in Ripples
      PROVE  v.fades[s] + v.removes[s] <= MaxTouches /\ (Hiding(w, s) <=> Hiding(v, s))
  <2>1. CASE s = r BY <1>1, <1>2, <1>3, <1>7, <1>8, <2>1 DEF Hiding
  <2>2. CASE s # r BY <1>0, <1>7, <1>8, <2>2 DEF Hiding, RipplesSound
  <2> QED BY <2>1, <2>2
<1>10. ToSet(w.ripples) \subseteq Ripples BY <1>0, NonemptyIs DEF WavesStates
<1>11. RipplesSound(v) BY <1>0, <1>7, <1>9 DEF RipplesSound
<1>12. LastIsHeld(v) BY <1>7, <1>9, <1>10 DEF WavesFits, LastIsHeld
<1>13. SomebodyHolds(v) BY <1>7, <1>9, <1>10 DEF WavesFits, SomebodyHolds
<1>14. TouchesSound(v) BY <1>7 DEF WavesFits, TouchesSound
<1> QED BY <1>6, <1>11, <1>12, <1>13, <1>14 DEF WavesFits

LEMMA RemoveFits ==
    ASSUME NEW w, WavesFits(w), NEW r \in Ripples, w.removes[r] > 0
    PROVE  WavesFits([w EXCEPT !.removes[r] = @ - 1, !.ripples = Without(@, r)])
<1>0. RipplesSound(w) /\ w \in WavesStates BY DEF WavesFits, RipplesSound
<1>1. PICK n \in Nat : n = w.removes[r] /\ n > 0 BY <1>0, TouchesCount DEF WavesStates
<1>2. n - 1 \in Touches
  <2>1. n <= MaxTouches BY <1>0, <1>1, WavesAssumption DEF WavesStates, Touches
  <2> QED BY <1>1, <2>1, WavesAssumption DEF Touches
<1>3. PICK removes \in [Ripples -> Touches] : removes = [w.removes EXCEPT ![r] = n - 1]
  BY <1>0, <1>2 DEF WavesStates
<1>4. PICK ripples : ripples = Without(w.ripples, r) OBVIOUS
<1>5. /\ ripples \in Seq(Ripples) /\ IsInjective(ripples)
      /\ ToSet(ripples) = ToSet(w.ripples) \ {r}
      /\ ripples # <<>> /\ w.ripples # <<>> /\ Last(w.ripples) # r => Last(ripples) = Last(w.ripples)
  BY <1>0, <1>4, WithoutIs DEF RipplesSound, WavesStates
<1>6. PICK v : v = [w EXCEPT !.removes = removes, !.ripples = ripples] OBVIOUS
<1>7. [w EXCEPT !.removes[r] = @ - 1, !.ripples = Without(@, r)] = v
  BY <1>0, <1>1, <1>3, <1>4, <1>6 DEF WavesStates
<1>8. /\ v \in WavesStates /\ v.ripples = ripples /\ v.together = w.together
      /\ v.fades = w.fades /\ v.removes = removes /\ v.fingers = w.fingers
      /\ v.mouse = w.mouse /\ v.touches = w.touches /\ v.pops = w.pops
      /\ v.outside = w.outside
  BY <1>0, <1>5, <1>6 DEF WavesStates
<1>9. removes[r] = n - 1 /\ \A s \in Ripples : s # r => removes[s] = w.removes[s]
  BY <1>0, <1>3 DEF WavesStates
<1>10. ASSUME NEW s \in Ripples
       PROVE  v.fades[s] + v.removes[s] <= MaxTouches /\ (s # r => (Hiding(w, s) <=> Hiding(v, s)))
  <2>1. CASE s = r
    <3>1. w.fades[r] \in Nat /\ w.fades[r] + n <= MaxTouches
      BY <1>0, <1>1, TouchesCount DEF WavesStates, RipplesSound
    <3> QED BY <1>1, <1>8, <1>9, <2>1, <3>1, WavesAssumption
  <2>2. CASE s # r BY <1>0, <1>8, <1>9, <2>2 DEF Hiding, RipplesSound
  <2> QED BY <2>1, <2>2
<1>11. ToSet(w.ripples) \subseteq Ripples BY <1>0, NonemptyIs DEF WavesStates
<1>12. RipplesSound(v) BY <1>5, <1>8, <1>10 DEF RipplesSound
<1>13. LastIsHeld(v)
  <2> SUFFICES ASSUME ~w.together, NEW s \in ToSet(ripples), ~Hiding(v, s)
               PROVE  s = Last(ripples)
    BY <1>8 DEF LastIsHeld
  <2>1. s \in ToSet(w.ripples) /\ s # r /\ s \in Ripples BY <1>5, <1>11
  <2>2. s = Last(w.ripples) BY <1>10, <2>1 DEF WavesFits, LastIsHeld
  <2>3. ripples # <<>> /\ w.ripples # <<>> BY <2>1, EmptyIs
  <2> QED BY <1>5, <2>1, <2>2, <2>3
<1>14. SomebodyHolds(v) BY <1>5, <1>8, <1>10, <1>11 DEF WavesFits, SomebodyHolds
<1>15. TouchesSound(v) BY <1>8 DEF WavesFits, TouchesSound
<1> QED BY <1>7, <1>12, <1>13, <1>14, <1>15 DEF WavesFits

LEMMA WavesKeep ==
    ASSUME OnPage("Waves"), WavesFits(waves), WavesStep
    PROVE  WavesFits(waves)'
<1>1. ASSUME NEW w, WavesFits(w), Steps("Waves", w) PROVE WavesFits(waves)'
  BY <1>1, BecomesIs DEF waves, Steps
<1>0. /\ RipplesSound(waves) /\ LastIsHeld(waves) /\ SomebodyHolds(waves) /\ TouchesSound(waves)
      /\ waves \in WavesStates
  BY DEF WavesFits, RipplesSound
<1>a. PICK touches \in Nat, fingers \in Nat, pops \in Nat :
        /\ touches = waves.touches /\ fingers = waves.fingers /\ pops = waves.pops
        /\ touches <= MaxTouches /\ touches >= fingers + pops
        /\ ~waves.outside => touches = fingers + pops
  BY <1>0, WavesAssumption DEF WavesStates, Touches, TouchesSound
<1>2. ASSUME NEW r \in Ripples, TouchButton(r) PROVE WavesFits(waves)'
  <2>1. touches + 1 \in Touches /\ fingers + 1 \in Touches
    BY <1>a, <1>2, WavesAssumption DEF TouchButton, MayTouch, Touches
  <2>2. PICK m \in Touches, n \in Touches : m = touches + 1 /\ n = fingers + 1 BY <2>1
  <2>3. PICK w : w = [waves EXCEPT !.touches = m, !.fingers = n, !.attached = TRUE] OBVIOUS
  <2>4. /\ w \in WavesStates /\ SameRipples(w, waves) /\ w.touches = m /\ w.fingers = n
        /\ w.pops = pops /\ w.outside = waves.outside
    BY <1>0, <1>a, <2>3 DEF WavesStates, SameRipples
  <2>5. RipplesSound(w) BY <1>0, <2>4, SameHeld
  <2>6. w.fingers > 0 /\ w.fingers \in Touches BY <2>2, <2>4
  <2>7. TouchesSound(w) BY <1>a, <2>2, <2>4 DEF TouchesSound
  <2>8. r \notin ToSet(w.ripples) BY <1>2, <2>4 DEF TouchButton, NewRipples, SameRipples
  <2>9. WavesFits(Show(w, r)) BY <2>5, <2>6, <2>7, <2>8, ShowFits
  <2>10. Steps("Waves", Show(w, r)) BY <1>2, <1>a, <2>2, <2>3 DEF TouchButton
  <2> QED BY <1>1, <2>9, <2>10
<1>3. CASE TouchBeside
  <2>1. (IF touches < MaxTouches THEN touches + 1 ELSE touches) \in Touches
    BY <1>a, WavesAssumption DEF Touches
  <2>2. PICK m \in Touches : m = IF touches < MaxTouches THEN touches + 1 ELSE touches BY <2>1
  <2>3. PICK w : w = [waves EXCEPT !.touches = m, !.outside = TRUE] OBVIOUS
  <2>4. /\ w \in WavesStates /\ SameRipples(w, waves) /\ w.touches = m /\ w.fingers = fingers
        /\ w.pops = pops /\ w.outside /\ w.mouse = waves.mouse
    BY <1>0, <1>a, <2>3 DEF WavesStates, SameRipples
  <2>5. RipplesSound(w) /\ LastIsHeld(w) /\ SomebodyHolds(w)
    BY <1>0, <1>a, <2>4, SameHeld DEF SomebodyHolds, SameRipples
  <2>6. TouchesSound(w) BY <1>a, <2>2, <2>4 DEF TouchesSound
  <2>7. Steps("Waves", w) BY <1>3, <1>a, <2>2, <2>3 DEF TouchBeside
  <2> QED BY <1>1, <2>5, <2>6, <2>7 DEF WavesFits
<1>4. CASE TouchEnds
  <2>1. fingers - 1 \in Touches /\ pops + 1 \in Touches
    BY <1>a, <1>4, WavesAssumption DEF TouchEnds, Touches
  <2>2. PICK m \in Touches, n \in Touches : m = fingers - 1 /\ n = pops + 1 BY <2>1
  <2>3. PICK w : w = [waves EXCEPT !.fingers = m, !.pops = n] OBVIOUS
  <2>4. /\ w \in WavesStates /\ SameRipples(w, waves) /\ w.touches = touches /\ w.fingers = m
        /\ w.pops = n /\ w.outside = waves.outside
    BY <1>0, <1>a, <2>3 DEF WavesStates, SameRipples
  <2>5. RipplesSound(w) /\ LastIsHeld(w) BY <1>0, <2>4, SameHeld
  <2>6. TouchesSound(w) BY <1>a, <2>2, <2>4 DEF TouchesSound
  <2>7. \A r \in Ripples : w.fades[r] + w.removes[r] < MaxTouches
    BY <1>4, <2>4 DEF TouchEnds, MayHide, SameRipples
  <2>8. WavesFits(Hide(w)) BY <2>5, <2>6, <2>7, HideFits
  <2>9. Steps("Waves", Hide(w)) BY <1>4, <1>a, <2>2, <2>3 DEF TouchEnds
  <2> QED BY <1>1, <2>8, <2>9
<1>5. CASE TouchPops
  <2>1. pops > 0 /\ touches > 0 BY <1>5, <1>a DEF TouchPops
  <2>2. pops - 1 \in Touches /\ touches - 1 \in Touches
    BY <1>a, <2>1, WavesAssumption DEF Touches
  <2>3. PICK m \in Touches, n \in Touches : m = pops - 1 /\ n = touches - 1 BY <2>2
  <2>4. PICK w : w = [waves EXCEPT !.pops = m, !.touches = n] OBVIOUS
  <2>5. /\ w \in WavesStates /\ SameRipples(w, waves) /\ w.touches = n /\ w.fingers = fingers
        /\ w.pops = m /\ w.outside = waves.outside /\ w.mouse = waves.mouse
    BY <1>0, <1>a, <2>4 DEF WavesStates, SameRipples
  <2>6. RipplesSound(w) /\ LastIsHeld(w) /\ SomebodyHolds(w)
    BY <1>0, <1>a, <2>5, SameHeld DEF SomebodyHolds, SameRipples
  <2>7. TouchesSound(w) BY <1>a, <2>1, <2>3, <2>5 DEF TouchesSound
  <2>8. Steps("Waves", w) BY <1>5, <1>a, <2>1, <2>3, <2>4 DEF TouchPops
  <2> QED BY <1>1, <2>6, <2>7, <2>8 DEF WavesFits
<1>6. CASE MouseOff
  <2>1. PICK w : w = [waves EXCEPT !.mouse = FALSE] OBVIOUS
  <2>2. /\ w \in WavesStates /\ SameRipples(w, waves) /\ w.touches = touches
        /\ w.fingers = fingers /\ w.pops = pops /\ w.outside = waves.outside
    BY <1>0, <1>a, <2>1 DEF WavesStates, SameRipples
  <2>3. RipplesSound(w) /\ LastIsHeld(w) BY <1>0, <2>2, SameHeld
  <2>4. TouchesSound(w) BY <1>a, <2>2 DEF TouchesSound
  <2>5. \A r \in Ripples : w.fades[r] + w.removes[r] < MaxTouches
    BY <1>6, <2>2 DEF MouseOff, MayHide, SameRipples
  <2>6. WavesFits(Hide(w)) BY <2>3, <2>4, <2>5, HideFits
  <2>7. Steps("Waves", Hide(w)) BY <1>6, <2>1 DEF MouseOff
  <2> QED BY <1>1, <2>6, <2>7
<1>7. ASSUME NEW right \in BOOLEAN, MouseDown(right) PROVE WavesFits(waves)'
  <2>1. PICK w : w = [waves EXCEPT !.attached = TRUE] OBVIOUS
  <2>2. /\ w \in WavesStates /\ SameRipples(w, waves) /\ w.touches = touches
        /\ w.fingers = fingers /\ w.pops = pops /\ w.outside = waves.outside
        /\ w.mouse = waves.mouse
    BY <1>0, <1>a, <2>1 DEF WavesStates, SameRipples
  <2>3. RipplesSound(w) /\ LastIsHeld(w) /\ SomebodyHolds(w) /\ TouchesSound(w)
    BY <1>0, <1>a, <2>2, SameHeld DEF SomebodyHolds, SameRipples, TouchesSound
  <2>4. PICK r \in NewRipples : Steps("Waves", IF right THEN w ELSE Show([w EXCEPT !.mouse = TRUE], r))
    BY <1>7, <2>1 DEF MouseDown
  <2>5. r \in Ripples /\ r \notin ToSet(w.ripples) BY <2>2 DEF NewRipples, SameRipples
  <2>6. PICK v : v = [w EXCEPT !.mouse = TRUE] OBVIOUS
  <2>7. /\ v \in WavesStates /\ SameRipples(v, w) /\ v.touches = touches
        /\ v.fingers = fingers /\ v.pops = pops /\ v.outside = w.outside /\ v.mouse = TRUE
        /\ v.fingers \in Touches /\ v.ripples = w.ripples
    BY <2>2, <2>6 DEF WavesStates, SameRipples
  <2>8. RipplesSound(v) /\ TouchesSound(v)
    BY <2>2, <2>3, <2>7, SameHeld DEF TouchesSound
  <2>9. WavesFits(Show(v, r)) BY <2>5, <2>7, <2>8, ShowFits
  <2>10. CASE right BY <1>1, <2>3, <2>4, <2>10 DEF WavesFits
  <2>11. CASE ~right BY <1>1, <2>4, <2>6, <2>9, <2>11
  <2> QED BY <2>10, <2>11
<1>8. ASSUME NEW r \in Ripples, FadeTimer(r) \/ RemoveTimer(r) PROVE WavesFits(waves)'
  BY <1>1, <1>8, FadeFits, RemoveFits DEF FadeTimer, RemoveTimer
<1> QED BY <1>2, <1>3, <1>4, <1>5, <1>6, <1>7, <1>8 DEF WavesStep

LEMMA WavesGive ==
    ASSUME WavesFits(waves) PROVE WavesTypeOK /\ RipplesGo /\ TouchesAreCounted
<1>1. WavesTypeOK BY DEF WavesFits, RipplesSound, WavesStates, Touches, WavesTypeOK
<1>2. waves.ripples \in Seq(Ripples) BY DEF WavesFits, RipplesSound, WavesStates
<1>3. RipplesGo
  <2> SUFFICES ASSUME waves.fingers = 0, ~waves.mouse, ~waves.together,
                      \A r \in Ripples : ~Hiding(waves, r), waves.ripples # <<>>
               PROVE  FALSE
    BY DEF RipplesGo
  <2>1. PICK r \in ToSet(waves.ripples) : r \in Ripples BY <1>2, NonemptyIs
  <2> QED BY <2>1 DEF WavesFits, SomebodyHolds
<1>4. TouchesAreCounted BY DEF WavesFits, TouchesSound, TouchesAreCounted
<1> QED BY <1>1, <1>3, <1>4

-----------------------------------------------------------------------------
(* The toasts                                                               *)

ToastStates ==
    [place : [ToastNames -> {"none", "page", "removed"}], toasts : Seq(ToastNames),
     container : BOOLEAN, timer : [ToastNames -> BOOLEAN],
     timeRemaining : [ToastNames -> 0 .. DisplayLength], panning : [ToastNames -> BOOLEAN],
     leaving : [ToastNames -> 0 .. 2], dragged : ToastNames \cup {NoToast},
     held : [ToastNames -> 0 .. Fingers], again : BOOLEAN, crossed : BOOLEAN]

\* The timer of a toast has time left, and stops before the toast leaves.
TimerSound(s, t) == s.timer[t] => s.leaving[t] = 0 /\ s.timeRemaining[t] > 0

ToastsListed(s) ==
    ~s.again =>
      /\ ToSet(s.toasts) = {t \in ToastNames : s.place[t] = "page"}
      /\ IsInjective(s.toasts)
      /\ s.container <=> s.toasts # <<>>
      /\ \A t \in ToastNames : s.leaving[t] > 0 => s.leaving[t] = 1 /\ s.place[t] = "page"

ToastsFits(s) ==
    s \in ToastStates /\ (\A t \in ToastNames : TimerSound(s, t)) /\ ToastsListed(s)

LEMMA ToastsInitFits == ToastsFits(ToastsInit)
<1>1. PICK s : s = ToastsInit OBVIOUS
<1>2. /\ s.toasts = <<>> /\ s.container = FALSE /\ \A t \in ToastNames : s.place[t] = "none"
      /\ \A t \in ToastNames : s.leaving[t] = 0 /\ s.timer[t] = FALSE
  BY <1>1 DEF ToastsInit
<1>3. s \in ToastStates
  <2>1. 0 \in 0 .. Fingers /\ 0 \in 0 .. DisplayLength BY ToastAssumption
  <2> QED BY <1>1, <2>1, EmptyIs DEF ToastsInit, ToastStates
<1>4. ToastsListed(s)
  <2>1. {t \in ToastNames : s.place[t] = "page"} = {} BY <1>2
  <2> QED BY <1>2, <2>1, EmptyIs DEF ToastsListed
<1> QED BY <1>1, <1>2, <1>3, <1>4 DEF ToastsFits, TimerSound

LEMMA DismissFits ==
    ASSUME NEW s \in ToastStates, ToastsListed(s), NEW t \in ToastNames, s.leaving[t] < 2,
           \A u \in ToastNames : u # t => TimerSound(s, u)
    PROVE  ToastsFits(Dismiss(s, t))
<1>1. PICK n \in 0 .. 2 : n = s.leaving[t] /\ n + 1 \in 0 .. 2 BY DEF ToastStates
<1>2. PICK again \in BOOLEAN : /\ again = (s.again \/ n > 0 \/ s.place[t] # "page")
                               /\ again <=> (s.again \/ n > 0 \/ s.place[t] # "page")
  OBVIOUS
<1>3. PICK timer \in [ToastNames -> BOOLEAN], leaving \in [ToastNames -> 0 .. 2] :
        timer = [s.timer EXCEPT ![t] = FALSE] /\ leaving = [s.leaving EXCEPT ![t] = n + 1]
  BY <1>1 DEF ToastStates
<1>4. /\ timer[t] = FALSE /\ leaving[t] = n + 1
      /\ \A u \in ToastNames : u # t => timer[u] = s.timer[u] /\ leaving[u] = s.leaving[u]
  BY <1>3 DEF ToastStates
<1>5. PICK v : v = [s EXCEPT !.timer = timer, !.leaving = leaving, !.again = again] OBVIOUS
<1>6. Dismiss(s, t) = v BY <1>1, <1>2, <1>3, <1>5 DEF Dismiss, ToastStates
<1>7. /\ v \in ToastStates /\ v.timer = timer /\ v.leaving = leaving /\ v.again = again
      /\ v.place = s.place /\ v.toasts = s.toasts /\ v.container = s.container
      /\ v.timeRemaining = s.timeRemaining
  BY <1>5 DEF ToastStates
<1>8. ASSUME NEW u \in ToastNames PROVE TimerSound(v, u)
  <2>1. CASE u = t BY <1>4, <1>7, <2>1 DEF TimerSound
  <2>2. CASE u # t BY <1>4, <1>7, <2>2 DEF TimerSound
  <2> QED BY <2>1, <2>2
<1>9. ToastsListed(v)
  <2> SUFFICES ASSUME ~v.again PROVE ToastsListed(v) BY DEF ToastsListed
  <2>1. ~s.again /\ n = 0 /\ s.place[t] = "page" BY <1>1, <1>2, <1>7, n # 0 => n > 0
  <2>2. ASSUME NEW u \in ToastNames, v.leaving[u] > 0
        PROVE  v.leaving[u] = 1 /\ v.place[u] = "page"
    <3>1. CASE u = t BY <1>4, <1>7, <2>1, <3>1
    <3>2. CASE u # t BY <1>4, <1>7, <2>1, <2>2, <3>2 DEF ToastsListed
    <3> QED BY <3>1, <3>2
  <2> QED BY <1>7, <2>1, <2>2 DEF ToastsListed
<1> QED BY <1>6, <1>7, <1>8, <1>9 DEF ToastsFits

\* What the list of the toasts does not depend on
LEMMA SameToasts ==
    ASSUME NEW s, ToastsFits(s), NEW v \in ToastStates, v.place = s.place, v.toasts = s.toasts,
           v.container = s.container, v.timer = s.timer, v.leaving = s.leaving,
           v.again = s.again
    PROVE  ToastsListed(v) /\ (v.timeRemaining = s.timeRemaining => ToastsFits(v))
<1>1. ToastsListed(v) BY DEF ToastsFits, ToastsListed
<1> QED BY <1>1 DEF ToastsFits, TimerSound

LEMMA UnlistedIs ==
    ASSUME NEW s \in Seq(ToastNames), NEW t
    PROVE  Unlisted(s, t) \in Seq(ToastNames)
<1>1. CASE t \in ToSet(s)
  <2>1. \E i \in DOMAIN s : s[i] = t BY <1>1 DEF ToSet
  <2>2. PICK p \in DOMAIN s : p = CHOOSE i \in DOMAIN s : s[i] = t BY <2>1
  <2>3. p \in 1 .. Len(s) OBVIOUS
  <2>4. RemoveAt(s, p) \in Seq(ToastNames) BY <2>3, RemoveAtIs
  <2> QED BY <1>1, <2>2, <2>4 DEF Unlisted, Without
<1>2. CASE t \notin ToSet(s) /\ s = <<>> BY <1>2 DEF Unlisted
<1>3. CASE t \notin ToSet(s) /\ s # <<>>
  <2>1. PICK n \in Nat : n = Len(s) OBVIOUS
  <2>2. n > 0 BY <1>3, <2>1
  <2>3. SubSeq(s, 1, n - 1) \in Seq(ToastNames) BY <2>1, <2>2
  <2> QED BY <1>3, <2>1, <2>3 DEF Unlisted, Front
<1> QED BY <1>1, <1>2, <1>3

LEMMA MakeToastFits ==
    ASSUME OnPage("Toasts"), ToastsFits(ts), NEW t \in ToastNames, MakeToast(t)
    PROVE  ToastsFits(ts)'
<1>1. ts \in ToastStates /\ ts.toasts \in Seq(ToastNames) BY DEF ToastsFits, ToastStates
<1>2. PICK toasts \in Seq(ToastNames) : toasts = Append(ts.toasts, t)
  <2>1. Append(ts.toasts, t) \in Seq(ToastNames) BY <1>1
  <2> QED BY <2>1
<1>3. PICK place \in [ToastNames -> {"none", "page", "removed"}],
           timer \in [ToastNames -> BOOLEAN],
           timeRemaining \in [ToastNames -> 0 .. DisplayLength],
           panning \in [ToastNames -> BOOLEAN] :
        /\ place = [ts.place EXCEPT ![t] = "page"]
        /\ timer = [ts.timer EXCEPT ![t] = TRUE]
        /\ timeRemaining = [ts.timeRemaining EXCEPT ![t] = DisplayLength]
        /\ panning = [ts.panning EXCEPT ![t] = FALSE]
  <2>1. DisplayLength \in 0 .. DisplayLength BY ToastAssumption
  <2>2. [ts.place EXCEPT ![t] = "page"] \in [ToastNames -> {"none", "page", "removed"}]
    BY <1>1 DEF ToastStates
  <2>3. [ts.timer EXCEPT ![t] = TRUE] \in [ToastNames -> BOOLEAN] BY <1>1 DEF ToastStates
  <2>4. [ts.timeRemaining EXCEPT ![t] = DisplayLength] \in [ToastNames -> 0 .. DisplayLength]
    BY <1>1, <2>1 DEF ToastStates
  <2>5. [ts.panning EXCEPT ![t] = FALSE] \in [ToastNames -> BOOLEAN] BY <1>1 DEF ToastStates
  <2> QED BY <2>2, <2>3, <2>4, <2>5
<1>4. /\ place[t] = "page" /\ timer[t] = TRUE /\ timeRemaining[t] = DisplayLength
      /\ \A u \in ToastNames : u # t => /\ place[u] = ts.place[u] /\ timer[u] = ts.timer[u]
                                        /\ timeRemaining[u] = ts.timeRemaining[u]
  BY <1>1, <1>3 DEF ToastStates
<1>5. PICK v : v = [ts EXCEPT !.place = place, !.toasts = toasts, !.container = TRUE,
                              !.timer = timer, !.timeRemaining = timeRemaining,
                              !.panning = panning]
  OBVIOUS
<1>6. widget'["Toasts"] = v
  <2>1. Steps("Toasts", v) BY <1>1, <1>2, <1>3, <1>5 DEF MakeToast, ToastStates
  <2> QED BY <2>1, BecomesIs DEF Steps
<1>7. /\ v \in ToastStates /\ v.place = place /\ v.toasts = toasts /\ v.container = TRUE
      /\ v.timer = timer /\ v.timeRemaining = timeRemaining /\ v.leaving = ts.leaving
      /\ v.again = ts.again
  BY <1>1, <1>2, <1>5 DEF ToastStates
<1>8. ts.leaving[t] = 0 /\ ts.place[t] = "none" BY DEF MakeToast
<1>9. ASSUME NEW u \in ToastNames PROVE TimerSound(v, u)
  <2>1. CASE u = t BY <1>4, <1>7, <1>8, <2>1, ToastAssumption DEF TimerSound
  <2>2. CASE u # t BY <1>4, <1>7, <2>2 DEF TimerSound, ToastsFits
  <2> QED BY <2>1, <2>2
<1>10. ToastsListed(v)
  <2> SUFFICES ASSUME ~v.again PROVE ToastsListed(v) BY DEF ToastsListed
  <2>1. /\ ToSet(ts.toasts) = {u \in ToastNames : ts.place[u] = "page"}
        /\ IsInjective(ts.toasts)
        /\ \A u \in ToastNames : ts.leaving[u] > 0 => ts.leaving[u] = 1 /\ ts.place[u] = "page"
    BY <1>7 DEF ToastsFits, ToastsListed
  <2>2. t \notin ToSet(ts.toasts) BY <1>8, <2>1
  <2>3. IsInjective(toasts) /\ ToSet(toasts) = ToSet(ts.toasts) \cup {t}
    BY <1>1, <1>2, <2>1, <2>2, AppendedIs
  <2>4. ToSet(toasts) = {u \in ToastNames : place[u] = "page"} BY <1>4, <2>1, <2>3
  <2>5. toasts # <<>> BY <2>3, EmptyIs
  <2>6. \A u \in ToastNames : ts.leaving[u] > 0 => ts.leaving[u] = 1 /\ place[u] = "page"
    BY <1>4, <2>1
  <2> QED BY <1>7, <2>3, <2>4, <2>5, <2>6 DEF ToastsListed
<1> QED BY <1>6, <1>7, <1>9, <1>10 DEF ToastsFits, ts

LEMMA TickFits ==
    ASSUME OnPage("Toasts"), ToastsFits(ts), NEW t \in ToastNames, Tick(t)
    PROVE  ToastsFits(ts)'
<1>1. ts \in ToastStates BY DEF ToastsFits
<1>2. PICK n \in Nat : n = ts.timeRemaining[t] /\ n > 0 /\ n <= DisplayLength
  BY <1>1, ToastAssumption DEF ToastsFits, TimerSound, Tick, ToastStates
<1>3. n - 1 \in 0 .. DisplayLength BY <1>2, ToastAssumption
<1>4. PICK timeRemaining \in [ToastNames -> 0 .. DisplayLength] :
        timeRemaining = [ts.timeRemaining EXCEPT ![t] = n - 1]
  BY <1>1, <1>3 DEF ToastStates
<1>5. timeRemaining[t] = n - 1
      /\ \A u \in ToastNames : u # t => timeRemaining[u] = ts.timeRemaining[u]
  BY <1>1, <1>4 DEF ToastStates
<1>6. PICK v : v = [ts EXCEPT !.timeRemaining = timeRemaining] OBVIOUS
<1>7. /\ v \in ToastStates /\ v.timeRemaining = timeRemaining /\ v.place = ts.place
      /\ v.toasts = ts.toasts /\ v.container = ts.container /\ v.timer = ts.timer
      /\ v.leaving = ts.leaving /\ v.again = ts.again
  BY <1>1, <1>6 DEF ToastStates
<1>8. ToastsListed(v) BY <1>7, SameToasts
<1>9. \A u \in ToastNames : u # t => TimerSound(v, u) BY <1>5, <1>7 DEF TimerSound, ToastsFits
<1>10. Steps("Toasts", IF n - 1 = 0 THEN Dismiss(v, t) ELSE v)
  <2>1. CASE n - 1 = 0 BY <1>1, <1>2, <1>4, <1>6, <2>1 DEF Tick, ToastStates
  <2>2. CASE n - 1 # 0 BY <1>1, <1>2, <1>4, <1>6, <2>2 DEF Tick, ToastStates
  <2> QED BY <2>1, <2>2
<1>11. CASE n - 1 = 0
  <2>1. v.leaving[t] < 2 BY <1>7 DEF ToastsFits, TimerSound, Tick
  <2>2. ToastsFits(Dismiss(v, t)) BY <1>7, <1>8, <1>9, <2>1, DismissFits
  <2> QED BY <1>10, <1>11, <2>2, BecomesIs DEF Steps, ts
<1>12. CASE n - 1 # 0
  <2>1. TimerSound(v, t) BY <1>2, <1>5, <1>7, <1>12 DEF TimerSound, ToastsFits
  <2>2. ToastsFits(v) BY <1>7, <1>8, <1>9, <2>1 DEF ToastsFits
  <2> QED BY <1>10, <1>12, <2>2, BecomesIs DEF Steps, ts
<1> QED BY <1>11, <1>12

LEMMA ToastLeftFits ==
    ASSUME OnPage("Toasts"), ToastsFits(ts), NEW t \in ToastNames, Left(t)
    PROVE  ToastsFits(ts)'
<1>1. ts \in ToastStates /\ ts.toasts \in Seq(ToastNames) BY DEF ToastsFits, ToastStates
<1>2. PICK rest \in Seq(ToastNames) : rest = Unlisted(ts.toasts, t) BY <1>1, UnlistedIs
<1>3. PICK n \in 0 .. 2 : n = ts.leaving[t] /\ n > 0 /\ n - 1 \in 0 .. 2
  BY <1>1 DEF Left, ToastStates
<1>4. PICK leaving \in [ToastNames -> 0 .. 2] : leaving = [ts.leaving EXCEPT ![t] = n - 1]
  BY <1>1, <1>3 DEF ToastStates
<1>5. PICK one \in [ToastNames -> {"none", "page", "removed"}] :
        one = [ts.place EXCEPT ![t] = "none"]
  BY <1>1 DEF ToastStates
<1>6. PICK place \in [ToastNames -> {"none", "page", "removed"}] :
        place = IF rest # <<>> THEN one
                ELSE [u \in ToastNames |->
                        IF u # t /\ ts.place[u] = "page" THEN "removed" ELSE one[u]]
  OBVIOUS
<1>7. PICK container \in BOOLEAN : container = IF rest # <<>> THEN ts.container ELSE FALSE
  BY <1>1 DEF ToastStates
<1>8. /\ leaving[t] = n - 1 /\ one[t] = "none"
      /\ \A u \in ToastNames : u # t => leaving[u] = ts.leaving[u] /\ one[u] = ts.place[u]
  BY <1>1, <1>4, <1>5 DEF ToastStates
<1>9. PICK v : v = [ts EXCEPT !.leaving = leaving, !.place = place, !.toasts = rest,
                              !.container = container]
  OBVIOUS
<1>10. widget'["Toasts"] = v
  <2>1. PICK gone : gone = [ts EXCEPT !.leaving = leaving, !.place = one, !.toasts = rest]
    OBVIOUS
  <2>2. gone = [ts EXCEPT !.leaving[t] = @ - 1, !.place[t] = "none", !.toasts = rest]
    BY <1>1, <1>3, <1>4, <1>5, <2>1 DEF ToastStates
  <2>3. gone.place = one /\ gone.container = ts.container BY <1>1, <2>1 DEF ToastStates
  <2>4. CASE rest # <<>>
    <3>1. Steps("Toasts", gone) BY <1>2, <2>2, <2>4 DEF Left
    <3>2. gone = v BY <1>1, <1>6, <1>7, <1>9, <2>1, <2>4 DEF ToastStates
    <3> QED BY <3>1, <3>2, BecomesIs DEF Steps
  <2>5. CASE rest = <<>>
    <3>1. Steps("Toasts", [gone EXCEPT !.container = FALSE,
                             !.place = [u \in ToastNames |->
                                          IF u # t /\ ts.place[u] = "page" THEN "removed"
                                          ELSE gone.place[u]]])
      BY <1>2, <2>2, <2>5 DEF Left
    <3>2. Steps("Toasts", [gone EXCEPT !.container = FALSE, !.place = place])
      BY <1>6, <2>3, <2>5, <3>1
    <3>3. [gone EXCEPT !.container = FALSE, !.place = place] = v
      BY <1>1, <1>7, <1>9, <2>1, <2>5 DEF ToastStates
    <3> QED BY <3>2, <3>3, BecomesIs DEF Steps
  <2> QED BY <2>4, <2>5
<1>11. /\ v \in ToastStates /\ v.place = place /\ v.toasts = rest /\ v.container = container
       /\ v.leaving = leaving /\ v.timer = ts.timer /\ v.timeRemaining = ts.timeRemaining
       /\ v.again = ts.again
  BY <1>1, <1>2, <1>7, <1>9 DEF ToastStates
<1>12. ASSUME NEW u \in ToastNames PROVE TimerSound(v, u)
  <2>1. CASE u = t BY <1>3, <1>11, <2>1 DEF TimerSound, ToastsFits
  <2>2. CASE u # t BY <1>8, <1>11, <2>2 DEF TimerSound, ToastsFits
  <2> QED BY <2>1, <2>2
<1>13. ToastsListed(v)
  <2> SUFFICES ASSUME ~v.again PROVE ToastsListed(v) BY DEF ToastsListed
  <2>1. /\ ToSet(ts.toasts) = {u \in ToastNames : ts.place[u] = "page"}
        /\ IsInjective(ts.toasts) /\ (ts.container <=> ts.toasts # <<>>)
        /\ \A u \in ToastNames : ts.leaving[u] > 0 => ts.leaving[u] = 1 /\ ts.place[u] = "page"
    BY <1>11 DEF ToastsFits, ToastsListed
  <2>2. t \in ToSet(ts.toasts) /\ n = 1 BY <1>3, <2>1
  <2>3. rest = Without(ts.toasts, t) BY <1>2, <2>2 DEF Unlisted
  <2>4. IsInjective(rest) /\ ToSet(rest) = ToSet(ts.toasts) \ {t}
    BY <1>1, <2>1, <2>3, WithoutIs
  <2>5. place = one
    <3>1. CASE rest # <<>> BY <1>6, <3>1
    <3>2. CASE rest = <<>>
      <4>1. \A u \in ToastNames : ~(u # t /\ ts.place[u] = "page")
        BY <2>1, <2>4, <3>2, EmptyIs
      <4>2. place = [u \in ToastNames |-> one[u]] BY <1>6, <3>2, <4>1
      <4> QED BY <4>2
    <3> QED BY <3>1, <3>2
  <2>6. ToSet(rest) = {u \in ToastNames : place[u] = "page"}
    <3>1. \A u \in ToastNames : place[u] = "page" <=> u # t /\ ts.place[u] = "page"
      BY <1>8, <2>5
    <3> QED BY <2>1, <2>4, <3>1
  <2>7. container <=> rest # <<>>
    <3>1. rest # <<>> => ts.toasts # <<>> BY <1>2, <2>2, EmptyIs
    <3> QED BY <1>7, <2>1, <3>1
  <2>8. ASSUME NEW u \in ToastNames, leaving[u] > 0
        PROVE  leaving[u] = 1 /\ place[u] = "page"
    <3>1. u # t BY <1>8, <2>2, <2>8
    <3> QED BY <1>8, <2>1, <2>5, <2>8, <3>1
  <2> QED BY <1>11, <2>4, <2>6, <2>7, <2>8 DEF ToastsListed
<1> QED BY <1>10, <1>11, <1>12, <1>13 DEF ToastsFits, ts

LEMMA DragEndFits ==
    ASSUME NEW s \in ToastStates, ToastsFits(s), NEW far \in BOOLEAN,
           far => s.dragged # NoToast /\ s.leaving[s.dragged] < 2
    PROVE  ToastsFits(_onDragEnd(s, far))
<1>1. CASE s.dragged = NoToast BY <1>1 DEF _onDragEnd
<1>2. CASE s.dragged # NoToast
  <2>1. PICK t \in ToastNames : t = s.dragged BY <1>2 DEF ToastStates
  <2>2. PICK v : v = [s EXCEPT !.panning[t] = FALSE, !.dragged = NoToast] OBVIOUS
  <2>3. /\ v \in ToastStates /\ v.place = s.place /\ v.toasts = s.toasts
        /\ v.container = s.container /\ v.timer = s.timer /\ v.leaving = s.leaving
        /\ v.again = s.again /\ v.timeRemaining = s.timeRemaining
    BY <2>2 DEF ToastStates
  <2>4. ToastsFits(v) BY <2>3, SameToasts
  <2>5. far => ToastsFits(Dismiss(v, t)) BY <2>1, <2>3, <2>4, DismissFits DEF ToastsFits
  <2>6. _onDragEnd(s, far) = IF far THEN Dismiss(v, t) ELSE v
    BY <1>2, <2>1, <2>2 DEF _onDragEnd
  <2> QED BY <2>4, <2>5, <2>6
<1> QED BY <1>1, <1>2

LEMMA ToastsKeeps ==
    ASSUME OnPage("Toasts"), ToastsFits(ts), ToastsStep
    PROVE  ToastsFits(ts)'
<1>1. ts \in ToastStates BY DEF ToastsFits
<1>2. ASSUME NEW t \in ToastNames, MakeToast(t) \/ Tick(t) \/ Left(t) PROVE ToastsFits(ts)'
  BY <1>2, MakeToastFits, TickFits, ToastLeftFits
<1>3. ASSUME NEW t \in ToastNames, _onDragStart(t) PROVE ToastsFits(ts)'
  <2>1. PICK held \in [ToastNames -> 0 .. Fingers] :
          held = [ts.held EXCEPT ![t] = ts.held[t] + 1]
    <3>1. ts.held[t] + 1 \in 0 .. Fingers
      BY <1>1, <1>3, ToastAssumption DEF _onDragStart, ToastStates
    <3> QED BY <1>1, <3>1 DEF ToastStates
  <2>2. PICK crossed \in BOOLEAN :
          crossed = (ts.crossed \/ \E u \in ToastNames : ts.held[u] > 0)
    OBVIOUS
  <2>3. PICK v : v = [ts EXCEPT !.panning[t] = TRUE, !.dragged = t, !.held = held,
                                !.crossed = crossed]
    OBVIOUS
  <2>4. /\ v \in ToastStates /\ v.place = ts.place /\ v.toasts = ts.toasts
        /\ v.container = ts.container /\ v.timer = ts.timer /\ v.leaving = ts.leaving
        /\ v.again = ts.again /\ v.timeRemaining = ts.timeRemaining
    BY <1>1, <2>3 DEF ToastStates
  <2>5. ToastsFits(v) BY <2>4, SameToasts
  <2>6. Steps("Toasts", v)
    BY <1>1, <1>3, <2>1, <2>2, <2>3 DEF _onDragStart, ToastStates
  <2> QED BY <2>5, <2>6, BecomesIs DEF Steps, ts
<1>4. ASSUME NEW far \in BOOLEAN, MouseUp(far) PROVE ToastsFits(ts)'
  <2>1. far => ts.dragged # NoToast /\ ts.leaving[ts.dragged] < 2
    BY <1>4 DEF MouseUp, MayBeSwiped
  <2>2. ToastsFits(_onDragEnd(ts, far)) BY <1>1, <2>1, DragEndFits
  <2> QED BY <1>4, <2>2, BecomesIs DEF MouseUp, Steps, ts
<1>5. ASSUME NEW t \in ToastNames, FingerLeaves(t) PROVE ToastsFits(ts)'
  <2>1. PICK held \in [ToastNames -> 0 .. Fingers] :
          held = [ts.held EXCEPT ![t] = ts.held[t] - 1]
    <3>1. ts.held[t] - 1 \in 0 .. Fingers
      BY <1>1, <1>5, ToastAssumption DEF FingerLeaves, LetGo, LetGoUnheard, ToastStates
    <3> QED BY <1>1, <3>1 DEF ToastStates
  <2>2. CASE LetGoUnheard(t)
    <3>1. PICK v : v = [ts EXCEPT !.held = held, !.crossed = TRUE] OBVIOUS
    <3>2. /\ v \in ToastStates /\ v.place = ts.place /\ v.toasts = ts.toasts
          /\ v.container = ts.container /\ v.timer = ts.timer /\ v.leaving = ts.leaving
          /\ v.again = ts.again /\ v.timeRemaining = ts.timeRemaining
      BY <1>1, <3>1 DEF ToastStates
    <3>3. ToastsFits(v) BY <3>2, SameToasts
    <3>4. Steps("Toasts", v) BY <1>1, <2>1, <2>2, <3>1 DEF LetGoUnheard, ToastStates
    <3> QED BY <3>3, <3>4, BecomesIs DEF Steps, ts
  <2>3. ASSUME NEW far \in BOOLEAN, LetGo(t, far) PROVE ToastsFits(ts)'
    <3>1. PICK v : v = [ts EXCEPT !.held = held] OBVIOUS
    <3>2. /\ v \in ToastStates /\ v.place = ts.place /\ v.toasts = ts.toasts
          /\ v.container = ts.container /\ v.timer = ts.timer /\ v.leaving = ts.leaving
          /\ v.again = ts.again /\ v.timeRemaining = ts.timeRemaining
          /\ v.dragged = ts.dragged
      BY <1>1, <3>1 DEF ToastStates
    <3>3. ToastsFits(v) BY <3>2, SameToasts
    <3>4. far => v.dragged # NoToast /\ v.leaving[v.dragged] < 2
      BY <2>3, <3>2 DEF LetGo, MayBeSwiped
    <3>5. ToastsFits(_onDragEnd(v, far)) BY <3>2, <3>3, <3>4, DragEndFits
    <3>6. Steps("Toasts", _onDragEnd(v, far))
      BY <1>1, <2>1, <2>3, <3>1 DEF LetGo, ToastStates
    <3> QED BY <3>5, <3>6, BecomesIs DEF Steps, ts
  <2> QED BY <1>5, <2>2, <2>3 DEF FingerLeaves
<1> QED BY <1>2, <1>3, <1>4, <1>5 DEF ToastsStep

LEMMA ToastsGive == ASSUME ToastsFits(ts) PROVE ToastsTypeOK /\ ToastsAreListed
<1>1. ToastsTypeOK BY DEF ToastsFits, ToastStates, ToastsTypeOK
<1>2. ToastsAreListed BY DEF ToastsFits, ToastsListed, ToastsAreListed
<1> QED BY <1>1, <1>2

-----------------------------------------------------------------------------
(* The clock                                                                *)

ClockStates ==
    [twelveHour : BOOLEAN, autoClose : BOOLEAN, isOpen : BOOLEAN, modal : DialogStates,
     hours : 0 .. 23, minutes : 0 .. 59, amOrPm : {"AM", "PM"},
     currentView : {"hours", "minutes"}, visible : SUBSET {"hours", "minutes"},
     toggling : BOOLEAN, resets : Seq(0 .. 59), dones : 0 .. MaxResets, pressing : BOOLEAN,
     value : Times \cup {NoTime}, misread : BOOLEAN, late : BOOLEAN]

\* The hour that setHand reads on a dial of 12 or of 24 hours
HourOf(twelveHour, angle, inner) ==
    LET twelfth == (angle + 2) \div 5 IN
    IF twelveHour THEN IF twelfth = 0 THEN 12 ELSE twelfth
    ELSE IF inner THEN IF twelfth % 12 = 0 THEN 12 ELSE twelfth % 12
    ELSE IF twelfth % 12 = 0 THEN 0 ELSE (twelfth % 12) + 12

LEMMA Twelfths ==
    ASSUME NEW angle \in 0 .. 60
    PROVE  \E k \in 0 .. 12 : /\ k = (angle + 2) \div 5
                              /\ angle + 2 - 5 * k \in 0 .. 4
                              /\ k % 12 = IF k = 12 THEN 0 ELSE k
<1>1. /\ (angle + 2) \div 5 \in 0 .. 12
      /\ (angle + 2) - 5 * ((angle + 2) \div 5) \in 0 .. 4
  OBVIOUS
<1>2. \A k \in 0 .. 12 : k % 12 = IF k = 12 THEN 0 ELSE k OBVIOUS
<1> QED BY <1>1, <1>2

LEMMA HourOfIs ==
    ASSUME NEW twelveHour \in BOOLEAN, NEW angle \in 0 .. 60, NEW inner \in BOOLEAN
    PROVE  /\ HourOf(twelveHour, angle, inner) \in 0 .. 23
           /\ twelveHour => HourOf(twelveHour, angle, inner) \in 1 .. 12
           /\ ~twelveHour => (HourOf(twelveHour, angle, inner) \in 1 .. 12 <=> inner)
           /\ (angle - 5 * HourOf(twelveHour, angle, inner) + 2) % 60 \in 0 .. 4
<1>1. PICK k \in 0 .. 12 : /\ k = (angle + 2) \div 5 /\ angle + 2 - 5 * k \in 0 .. 4
                           /\ k % 12 = IF k = 12 THEN 0 ELSE k
  BY Twelfths
<1>2. PICK h \in 0 .. 23 : h = HourOf(twelveHour, angle, inner)
  BY <1>1 DEF HourOf
<1>3. \/ h = k \/ h = k - 12 \/ h = k + 12
  BY <1>1, <1>2 DEF HourOf
<1>4. twelveHour => h \in 1 .. 12 BY <1>1, <1>2 DEF HourOf
<1>5. ~twelveHour => (h \in 1 .. 12 <=> inner)
  BY <1>1, <1>2 DEF HourOf
<1>6. (angle - 5 * h + 2) % 60 \in 0 .. 4
  BY <1>1, <1>3
<1> QED BY <1>2, <1>4, <1>5, <1>6

\* The hand of an hour stands at it.
LEMMA HourOfHour ==
    ASSUME NEW twelveHour \in BOOLEAN, NEW h \in 0 .. 23, NEW inner \in BOOLEAN,
           inner <=> h \in 1 .. 12
    PROVE  /\ (5 * h) % 60 \in 0 .. 59
           /\ HourOf(twelveHour, (5 * h) % 60, inner)
                = IF ~twelveHour THEN h ELSE IF h % 12 = 0 THEN 12 ELSE h % 12
<1>1. PICK k \in 0 .. 11 : k = h % 12 /\ (h = k \/ h = k + 12) OBVIOUS
<1>2. (5 * h) % 60 = 5 * k /\ (5 * k + 2) \div 5 = k /\ k % 12 = k BY <1>1
<1>3. CASE twelveHour BY <1>1, <1>2, <1>3 DEF HourOf
<1>4. CASE ~twelveHour BY <1>1, <1>2, <1>4 DEF HourOf
<1> QED BY <1>3, <1>4

\* No two of the hours that are printed on a ring are at the same angle.
LEMMA PrintedOnce ==
    ASSUME NEW twelveHour \in BOOLEAN, NEW angle \in 0 .. 60, NEW inner \in BOOLEAN,
           NEW c, c.twelveHour = twelveHour
    PROVE  HourPrinted(c, angle, inner) = HourOf(twelveHour, angle, inner)
<1> DEFINE ring == IF twelveHour THEN 1 .. 12 ELSE {h \in 0 .. 23 : h \in 1 .. 12 <=> inner}
           at(h) == (angle - 5 * h + 2) % 60 \in 0 .. 4
<1>1. PICK o \in 0 .. 23 : o = HourOf(twelveHour, angle, inner) BY HourOfIs
<1>2. o \in ring /\ at(o)
  <2>1. /\ twelveHour => o \in 1 .. 12 
        /\ ~twelveHour => (o \in 1 .. 12 <=> inner)
        /\ at(o)
    BY <1>1, HourOfIs
  <2> QED BY <2>1
<1>3. ASSUME NEW h \in ring, at(h) PROVE h = o
  <2>1. /\ h \in 0 .. 23 /\ (h \in 1 .. 12 <=> o \in 1 .. 12) BY <1>2
  <2>2. PICK p \in 0 .. 4, q \in 0 .. 4 : p = (angle - 5 * h + 2) % 60
                                          /\ q = (angle - 5 * o + 2) % 60
    BY <1>2, <1>3
  <2>3. PICK i \in Int, j \in Int : angle - 5 * h + 2 = 60 * i + p
                                    /\ angle - 5 * o + 2 = 60 * j + q
    <3>1. \A x \in Int : x = 60 * (x \div 60) + (x % 60) /\ x \div 60 \in Int OBVIOUS
    <3>2. angle - 5 * h + 2 \in Int /\ angle - 5 * o + 2 \in Int BY <2>1
    <3> QED BY <2>2, <3>1, <3>2
  <2>4. 5 * (h - o) = 60 * (j - i) + q - p BY <2>1, <2>3
  <2>5. h - o = 12 * (j - i) BY <2>1, <2>4
  <2> QED BY <2>1, <2>5
<1>4. o = CHOOSE h \in ring : at(h) BY <1>2, <1>3
<1>5. HourPrinted(c, angle, inner) = CHOOSE h \in ring : at(h) BY DEF HourPrinted
<1> QED BY <1>1, <1>4, <1>5

\* The hand of the dial in view is turned, and nothing else.
SameClock(v, c) ==
    /\ v.twelveHour = c.twelveHour /\ v.autoClose = c.autoClose /\ v.isOpen = c.isOpen
    /\ v.modal = c.modal /\ v.currentView = c.currentView /\ v.visible = c.visible
    /\ v.toggling = c.toggling /\ v.misread = c.misread /\ v.late = c.late
    /\ v.amOrPm = c.amOrPm /\ v.resets = c.resets /\ v.dones = c.dones /\ v.value = c.value

LEMMA HandIs ==
    ASSUME NEW c \in ClockStates, NEW angle \in 0 .. 60, NEW inner \in BOOLEAN
    PROVE  LET v == setHand(c, angle, inner) IN
           /\ v \in ClockStates /\ SameClock(v, c)
           /\ c.currentView = "hours" => /\ v.hours = HourOf(c.twelveHour, angle, inner)
                                         /\ v.minutes = c.minutes
           /\ c.currentView # "hours" => v.hours = c.hours /\ v.minutes = angle % 60
<1>1. PICK v : v = setHand(c, angle, inner) OBVIOUS
<1>2. PICK hour \in 0 .. 23 : hour = HourOf(c.twelveHour, angle, inner)
  BY HourOfIs DEF ClockStates
<1>3. ASSUME c.currentView = "hours"
      PROVE  /\ v \in ClockStates /\ SameClock(v, c)
             /\ v.hours = hour /\ v.minutes = c.minutes
  <2>1. v = [c EXCEPT !.hours = hour] BY <1>1, <1>2, <1>3 DEF setHand, HourOf
  <2> QED BY <2>1 DEF ClockStates, SameClock
<1>4. ASSUME c.currentView # "hours"
      PROVE  /\ v \in ClockStates /\ SameClock(v, c)
             /\ v.hours = c.hours /\ v.minutes = angle % 60
  <2>1. PICK minute \in 0 .. 59 : minute = angle % 60 /\ minute = IF angle = 60 THEN 0 ELSE angle
    OBVIOUS
  <2>2. v = [c EXCEPT !.minutes = minute] BY <1>1, <1>4, <2>1 DEF setHand
  <2> QED BY <2>1, <2>2 DEF ClockStates, SameClock
<1>5. /\ v \in ClockStates /\ SameClock(v, c)
      /\ c.currentView = "hours" => /\ v.hours = HourOf(c.twelveHour, angle, inner)
                                    /\ v.minutes = c.minutes
      /\ c.currentView # "hours" => v.hours = c.hours /\ v.minutes = angle % 60
  BY <1>2, <1>3, <1>4
<1> QED BY <1>1, <1>5

\* resetClock brings the hand to where the value is: of a clock of twelve, to an hour from 1.
LEMMA ResetHandIs ==
    ASSUME NEW c \in ClockStates
    PROVE  LET v == ResetHand(c) IN
           /\ v \in ClockStates /\ SameClock(v, c) /\ v.minutes = c.minutes
           /\ c.twelveHour /\ c.currentView = "hours" =>
                v.hours = (IF c.hours % 12 = 0 THEN 12 ELSE c.hours % 12) /\ v.hours \in 1 .. 12
           /\ (~c.twelveHour \/ c.hours \in 1 .. 12 \/ c.currentView # "hours")
                => v.hours = c.hours
<1>0. PICK v : v = ResetHand(c) OBVIOUS
<1>1. PICK h \in 0 .. 23, m \in 0 .. 59 : h = c.hours /\ m = c.minutes BY DEF ClockStates
<1>2. CASE c.currentView = "hours"
  <2>1. PICK angle \in 0 .. 60 : angle = (5 * h) % 60 OBVIOUS
  <2>2. PICK inner \in BOOLEAN : inner <=> h \in 1 .. 12 OBVIOUS
  <2>3. HourOf(c.twelveHour, angle, inner)
          = IF ~c.twelveHour THEN h ELSE IF h % 12 = 0 THEN 12 ELSE h % 12
    <3>1. PICK twelveHour \in BOOLEAN : twelveHour = c.twelveHour BY DEF ClockStates
    <3>2. HourOf(twelveHour, (5 * h) % 60, inner)
            = IF ~twelveHour THEN h ELSE IF h % 12 = 0 THEN 12 ELSE h % 12
      BY <2>2, HourOfHour
    <3> QED BY <2>1, <3>1, <3>2
  <2>4. v = setHand(c, angle, inner)
    BY <1>0, <1>1, <1>2, <2>1, <2>2 DEF ResetHand, setHand
  <2>5. /\ v \in ClockStates /\ SameClock(v, c)
        /\ v.hours = HourOf(c.twelveHour, angle, inner) /\ v.minutes = c.minutes
    BY <1>2, <2>4, HandIs
  <2>6. (IF h % 12 = 0 THEN 12 ELSE h % 12) \in 1 .. 12
        /\ (h \in 1 .. 12 => (IF h % 12 = 0 THEN 12 ELSE h % 12) = h)
    OBVIOUS
  <2>7. PICK t : t = IF h % 12 = 0 THEN 12 ELSE h % 12 OBVIOUS
  <2>8. /\ ~c.twelveHour => v.hours = h
        /\ c.twelveHour => v.hours = t
        /\ t \in 1 .. 12 /\ (h \in 1 .. 12 => t = h)
    BY <2>3, <2>5, <2>6, <2>7
  <2> QED BY <1>0, <1>1, <1>2, <2>5, <2>7, <2>8
<1>3. CASE c.currentView # "hours"
  <2>1. v = setHand(c, m, FALSE) BY <1>0, <1>1, <1>3 DEF ResetHand
  <2>2. m \in 0 .. 60 /\ m % 60 = m OBVIOUS
  <2>3. v \in ClockStates /\ SameClock(v, c) /\ v.hours = c.hours /\ v.minutes = m
    BY <1>3, <2>1, <2>2, HandIs
  <2> QED BY <1>0, <1>1, <1>3, <2>3
<1> QED BY <1>2, <1>3

-----------------------------------------------------------------------------
DialsSound(c) == /\ DialogAgrees(c)
                 /\ ~c.toggling => c.visible = {c.currentView}

\* An open clock of twelve hours shows an hour from 1, and has not misread, unless a timer
\* turned a hand.
ReadsRight(c) == c.isOpen /\ ~c.late => ~c.misread /\ (c.twelveHour => c.hours \in 1 .. 12)

TimepickerFits(c) == c \in ClockStates /\ DialsSound(c) /\ ReadsRight(c)

LEMMA TimepickerInitFits == ASSUME NEW c \in TimepickerInit PROVE TimepickerFits(c)
<1>1. PICK twelveHour \in BOOLEAN, autoClose \in BOOLEAN :
        c = [twelveHour |-> twelveHour, autoClose |-> autoClose,
             isOpen |-> FALSE, modal |-> "closed", hours |-> 0, minutes |-> 0, amOrPm |-> "PM",
             currentView |-> "hours", visible |-> {"hours"}, toggling |-> FALSE,
             resets |-> <<>>, dones |-> 0, pressing |-> FALSE, value |-> NoTime,
             misread |-> FALSE, late |-> FALSE]
  BY DEF TimepickerInit
<1>2. 0 \in 0 .. MaxResets /\ 0 \in 0 .. 23 /\ 0 \in 0 .. 59 /\ <<>> \in Seq(0 .. 59)
  BY TimepickerAssumption
<1>3. c \in ClockStates BY <1>1, <1>2 DEF ClockStates, DialogStates
<1> QED BY <1>1, <1>3 DEF TimepickerFits, DialsSound, DialogAgrees, ReadsRight

\* A step that takes neither the dials nor the dialog to another state
LEMMA SameDials ==
    ASSUME NEW c, TimepickerFits(c), NEW v \in ClockStates, v.isOpen = c.isOpen,
           v.modal = c.modal, v.currentView = c.currentView, v.visible = c.visible,
           v.toggling = c.toggling
    PROVE  /\ DialsSound(v)
           /\ /\ v.late = c.late /\ v.misread = c.misread /\ v.hours = c.hours
              /\ v.twelveHour = c.twelveHour
              => TimepickerFits(v)
BY DEF TimepickerFits, DialsSound, DialogAgrees, ReadsRight

\* Closing and opening the dialog
LEMMA ClockClosedFits ==
    ASSUME NEW c \in ClockStates, DialsSound(c), ReadsRight(c), NEW v, v = ClosePicker(c)
    PROVE  TimepickerFits(v)
<1>1. CASE ~c.isOpen BY <1>1 DEF ClosePicker, TimepickerFits
<1>2. CASE c.isOpen
  <2>1. v = [c EXCEPT !.isOpen = FALSE, !.modal = IF c.modal = "open" THEN "closing" ELSE c.modal]
    BY <1>2 DEF ClosePicker, ClockStates
  <2>2. v \in ClockStates BY <2>1 DEF ClockStates, DialogStates
  <2>3. v.isOpen = FALSE /\ v.modal # "open" /\ v.toggling = c.toggling
        /\ v.visible = c.visible /\ v.currentView = c.currentView
    BY <2>1 DEF ClockStates
  <2> QED BY <2>2, <2>3 DEF TimepickerFits, DialsSound, DialogAgrees, ReadsRight
<1> QED BY <1>1, <1>2

LEMMA InViewIs ==
    ASSUME NEW c \in ClockStates, NEW view \in {"hours", "minutes"}
    PROVE  LET v == InView(c, view) IN
           /\ v \in ClockStates /\ v.currentView = view /\ v.toggling = TRUE
           /\ v.isOpen = c.isOpen /\ v.modal = c.modal /\ v.misread = c.misread
           /\ v.late = c.late /\ v.hours = c.hours /\ v.minutes = c.minutes
           /\ v.twelveHour = c.twelveHour /\ v.amOrPm = c.amOrPm /\ v.resets = c.resets
           /\ v.dones = c.dones /\ v.value = c.value
<1>0. PICK v : v = InView(c, view) OBVIOUS
<1>1. PICK visible \in SUBSET {"hours", "minutes"} : visible = c.visible \cup {view}
  BY DEF ClockStates
<1>2. v = [c EXCEPT !.currentView = view, !.visible = visible, !.toggling = TRUE]
  BY <1>0, <1>1 DEF InView, ClockStates
<1>3. view \in {"hours", "minutes"} OBVIOUS
<1>4. v \in ClockStates BY <1>1, <1>2, <1>3 DEF ClockStates
<1>5. /\ v.currentView = view /\ v.toggling = TRUE
      /\ v.isOpen = c.isOpen /\ v.modal = c.modal /\ v.misread = c.misread
      /\ v.late = c.late /\ v.hours = c.hours /\ v.minutes = c.minutes
      /\ v.twelveHour = c.twelveHour /\ v.amOrPm = c.amOrPm /\ v.resets = c.resets
      /\ v.dones = c.dones /\ v.value = c.value
  BY <1>2 DEF ClockStates
<1> QED BY <1>0, <1>4, <1>5

LEMMA ShowViewIs ==
    ASSUME NEW c \in ClockStates, DialogAgrees(c), NEW view \in {"hours", "minutes"},
           NEW v, v = showView(c, view)
    PROVE  /\ v \in ClockStates /\ DialsSound(v) /\ v.minutes = c.minutes
           /\ v.isOpen = c.isOpen /\ v.modal = c.modal /\ v.misread = c.misread
           /\ v.late = c.late /\ v.twelveHour = c.twelveHour /\ v.amOrPm = c.amOrPm
           /\ v.value = c.value /\ v.currentView = view
           /\ c.twelveHour /\ view = "hours" =>
                v.hours = (IF c.hours % 12 = 0 THEN 12 ELSE c.hours % 12) /\ v.hours \in 1 .. 12
           /\ (~c.twelveHour \/ c.hours \in 1 .. 12 \/ view # "hours") => v.hours = c.hours
<1>1. PICK d : d = InView(c, view) OBVIOUS
<1>2. /\ d \in ClockStates /\ d.currentView = view /\ d.toggling = TRUE
      /\ d.isOpen = c.isOpen /\ d.modal = c.modal /\ d.misread = c.misread
      /\ d.late = c.late /\ d.hours = c.hours /\ d.minutes = c.minutes
      /\ d.twelveHour = c.twelveHour /\ d.amOrPm = c.amOrPm /\ d.resets = c.resets
      /\ d.dones = c.dones /\ d.value = c.value
  BY <1>1, InViewIs
<1>3. v = ResetHand(d) BY <1>1 DEF showView
<1>4. /\ v \in ClockStates /\ SameClock(v, d) /\ v.minutes = d.minutes
      /\ d.twelveHour /\ d.currentView = "hours" =>
           v.hours = (IF d.hours % 12 = 0 THEN 12 ELSE d.hours % 12) /\ v.hours \in 1 .. 12
      /\ (~d.twelveHour \/ d.hours \in 1 .. 12 \/ d.currentView # "hours") => v.hours = d.hours
  BY <1>2, <1>3, ResetHandIs
<1>5. /\ v.isOpen = c.isOpen /\ v.modal = c.modal /\ v.misread = c.misread
      /\ v.late = c.late /\ v.twelveHour = c.twelveHour /\ v.amOrPm = c.amOrPm
      /\ v.value = c.value /\ v.currentView = view /\ v.toggling = TRUE
      /\ v.minutes = c.minutes
  BY <1>2, <1>4 DEF SameClock
<1>6. DialsSound(v) BY <1>5 DEF DialsSound, DialogAgrees
<1> QED BY <1>2, <1>4, <1>5, <1>6

-----------------------------------------------------------------------------
(* The steps of the clock                                                   *)

LEMMA ClockTaken ==
    ASSUME OnPage("Timepicker"), NEW v, TimepickerFits(v), ClockBecomes(v)
    PROVE  TimepickerFits(clock)'
BY BecomesIs DEF ClockBecomes, PickerBecomes, clock

LEMMA TouchDialFits ==
    ASSUME OnPage("Timepicker"), TimepickerFits(clock), NEW angle \in Angles, NEW inner \in BOOLEAN,
           TouchDial(angle, inner)
    PROVE  TimepickerFits(clock)'
<1>0. clock \in ClockStates /\ angle \in 0 .. 60 BY TimepickerAssumption DEF TimepickerFits
<1>1. PICK c : c = setHand(clock, angle, inner) OBVIOUS
<1>2. /\ c \in ClockStates /\ SameClock(c, clock)
      /\ clock.currentView = "hours" => /\ c.hours = HourOf(clock.twelveHour, angle, inner)
                                        /\ c.minutes = clock.minutes
      /\ clock.currentView # "hours" => c.hours = clock.hours /\ c.minutes = angle % 60
  BY <1>0, <1>1, HandIs
<1>3. PICK twelveHour \in BOOLEAN : twelveHour = clock.twelveHour BY <1>0 DEF ClockStates
<1>4. c.twelveHour = twelveHour /\ c.currentView = clock.currentView /\ c.isOpen = clock.isOpen
      /\ c.modal = clock.modal /\ c.visible = clock.visible /\ c.toggling = clock.toggling
      /\ c.misread = clock.misread /\ c.late = clock.late
  BY <1>2, <1>3 DEF SameClock
<1>5. HourPrinted(c, angle, inner) = HourOf(twelveHour, angle, inner)
  BY <1>0, <1>4, PrintedOnce
<1>6. PICK misread \in BOOLEAN :
        misread = (\/ c.misread
                   \/ IF c.currentView = "hours" THEN c.hours # HourPrinted(c, angle, inner)
                      ELSE c.minutes # angle % 60)
  OBVIOUS
<1>7. misread => c.misread BY <1>2, <1>3, <1>4, <1>5, <1>6
<1>8. PICK v : v = [c EXCEPT !.pressing = TRUE, !.misread = misread] OBVIOUS
<1>9. ClockBecomes(v)
  <2>1. ClockBecomes(
         [c EXCEPT !.pressing = TRUE,
                   !.misread = @ \/ IF c.currentView = "hours"
                                    THEN c.hours # HourPrinted(c, angle, inner)
                                    ELSE c.minutes # angle % 60])
    BY <1>1 DEF TouchDial
  <2>2. [c EXCEPT !.pressing = TRUE,
                  !.misread = @ \/ IF c.currentView = "hours"
                                   THEN c.hours # HourPrinted(c, angle, inner)
                                   ELSE c.minutes # angle % 60]
          = [c EXCEPT !.pressing = TRUE,
                      !.misread = c.misread \/ IF c.currentView = "hours"
                                               THEN c.hours # HourPrinted(c, angle, inner)
                                               ELSE c.minutes # angle % 60]
    BY <1>2 DEF ClockStates
  <2> QED BY <1>6, <1>8, <2>1, <2>2
<1>10. /\ v \in ClockStates /\ v.isOpen = clock.isOpen /\ v.modal = clock.modal
       /\ v.currentView = clock.currentView /\ v.visible = clock.visible
       /\ v.toggling = clock.toggling /\ v.late = clock.late /\ v.misread = misread
       /\ v.hours = c.hours /\ v.twelveHour = twelveHour
  BY <1>2, <1>4, <1>8 DEF ClockStates
<1>11. DialsSound(v) BY <1>10, SameDials
<1>12. twelveHour => HourOf(twelveHour, angle, inner) \in 1 .. 12 BY <1>0, HourOfIs
<1>13. ReadsRight(v)
  BY <1>2, <1>3, <1>4, <1>7, <1>10, <1>12 DEF ReadsRight, TimepickerFits
<1> QED BY <1>9, <1>10, <1>11, <1>13, ClockTaken DEF TimepickerFits

LEMMA ReleaseDialFits ==
    ASSUME OnPage("Timepicker"), TimepickerFits(clock), ReleaseDial
    PROVE  TimepickerFits(clock)'
<1>0. clock \in ClockStates /\ DialsSound(clock) /\ ReadsRight(clock) BY DEF TimepickerFits
<1>1. PICK c : c = [clock EXCEPT !.pressing = FALSE] OBVIOUS
<1>2. /\ c \in ClockStates /\ c.isOpen = clock.isOpen /\ c.modal = clock.modal
      /\ c.currentView = clock.currentView /\ c.visible = clock.visible
      /\ c.toggling = clock.toggling /\ c.late = clock.late /\ c.misread = clock.misread
      /\ c.hours = clock.hours /\ c.twelveHour = clock.twelveHour /\ c.resets = clock.resets
      /\ c.dones = clock.dones
  BY <1>0, <1>1 DEF ClockStates
<1>3. TimepickerFits(c) BY <1>2, SameDials
<1>4. ClockBecomes(IF c.currentView = "hours" THEN ShowMinutesLater(c)
                   ELSE IF c.autoClose THEN [c EXCEPT !.dones = @ + 1] ELSE c)
  BY <1>1 DEF ReleaseDial
<1>5. CASE c.currentView = "hours"
  <2>1. PICK d : d = InView(c, "minutes") OBVIOUS
  <2>2. /\ d \in ClockStates /\ d.currentView = "minutes" /\ d.toggling = TRUE
        /\ d.isOpen = c.isOpen /\ d.modal = c.modal /\ d.misread = c.misread
        /\ d.late = c.late /\ d.hours = c.hours /\ d.minutes = c.minutes
        /\ d.twelveHour = c.twelveHour /\ d.resets = c.resets
    BY <1>2, <2>1, InViewIs
  <2>3. Append(d.resets, c.minutes) \in Seq(0 .. 59) BY <1>2, <2>2 DEF ClockStates
  <2>4. PICK resets \in Seq(0 .. 59) : resets = Append(d.resets, c.minutes) BY <2>3
  <2>5. PICK v : v = [d EXCEPT !.resets = resets] OBVIOUS
  <2>6. ShowMinutesLater(c) = v BY <2>1, <2>2, <2>4, <2>5 DEF ShowMinutesLater, ClockStates
  <2>7. /\ v \in ClockStates /\ v.currentView = "minutes" /\ v.toggling = TRUE
        /\ v.isOpen = c.isOpen /\ v.modal = c.modal /\ v.misread = c.misread
        /\ v.late = c.late /\ v.hours = c.hours /\ v.twelveHour = c.twelveHour
    BY <2>2, <2>5 DEF ClockStates
  <2>8. TimepickerFits(v)
    BY <1>3, <2>7 DEF TimepickerFits, DialsSound, DialogAgrees, ReadsRight
  <2> QED BY <1>4, <1>5, <2>6, <2>8, ClockTaken
<1>6. CASE c.currentView # "hours" /\ c.autoClose
  <2>1. PICK n \in Nat : n = c.dones BY <1>2, TimepickerAssumption DEF ClockStates
  <2>2. PICK v : v = [c EXCEPT !.dones = n + 1] OBVIOUS
  <2>3. ClockBecomes(v) BY <1>2, <1>4, <1>6, <2>1, <2>2 DEF ClockStates
  <2>4. v.dones = n + 1 /\ v.dones <= MaxResets
    BY <1>2, <2>2, <2>3 DEF ClockBecomes, ClockStates
  <2>5. n + 1 \in 0 .. MaxResets BY <2>1, <2>4, TimepickerAssumption
  <2>6. /\ v \in ClockStates /\ v.isOpen = c.isOpen /\ v.modal = c.modal
        /\ v.currentView = c.currentView /\ v.visible = c.visible
        /\ v.toggling = c.toggling /\ v.late = c.late /\ v.misread = c.misread
        /\ v.hours = c.hours /\ v.twelveHour = c.twelveHour
    BY <1>2, <2>2, <2>5 DEF ClockStates
  <2>7. TimepickerFits(v) BY <1>3, <2>6, SameDials
  <2> QED BY <2>3, <2>7, ClockTaken
<1>7. CASE c.currentView # "hours" /\ ~c.autoClose
  BY <1>3, <1>4, <1>7, ClockTaken
<1> QED BY <1>5, <1>6, <1>7

LEMMA ClickViewFits ==
    ASSUME OnPage("Timepicker"), TimepickerFits(clock), NEW view \in {"hours", "minutes"},
           ClickView(view)
    PROVE  TimepickerFits(clock)'
<1>0. /\ clock \in ClockStates /\ DialsSound(clock) /\ ReadsRight(clock)
      /\ DialogAgrees(clock)
  BY DEF TimepickerFits, DialsSound
<1>1. PICK c : c = showView(clock, view) OBVIOUS
<1>2. /\ c \in ClockStates /\ DialsSound(c) /\ c.minutes = clock.minutes
      /\ c.isOpen = clock.isOpen /\ c.modal = clock.modal /\ c.misread = clock.misread
      /\ c.late = clock.late /\ c.twelveHour = clock.twelveHour
      /\ clock.twelveHour /\ view = "hours" => c.hours \in 1 .. 12
      /\ (~clock.twelveHour \/ clock.hours \in 1 .. 12 \/ view # "hours")
           => c.hours = clock.hours
  BY <1>0, <1>1, ShowViewIs
<1>3. PICK misread \in BOOLEAN :
        misread = (c.misread \/ c.hours # clock.hours \/ c.minutes # clock.minutes)
  OBVIOUS
<1>4. PICK v : v = [c EXCEPT !.misread = misread] OBVIOUS
<1>5. ClockBecomes(v) BY <1>1, <1>2, <1>3, <1>4 DEF ClickView, ClockStates
<1>6. /\ v \in ClockStates /\ v.isOpen = c.isOpen /\ v.modal = c.modal
      /\ v.currentView = c.currentView /\ v.visible = c.visible
      /\ v.toggling = c.toggling /\ v.late = c.late /\ v.misread = misread
      /\ v.hours = c.hours /\ v.twelveHour = c.twelveHour
  BY <1>2, <1>4 DEF ClockStates
<1>7. DialsSound(v) BY <1>2, <1>6 DEF DialsSound, DialogAgrees
<1>8. ReadsRight(v)
  <2> SUFFICES ASSUME v.isOpen, ~v.late
               PROVE  ~misread /\ (v.twelveHour => v.hours \in 1 .. 12)
    BY <1>6 DEF ReadsRight
  <2>1. /\ ~clock.misread /\ (clock.twelveHour => clock.hours \in 1 .. 12)
    BY <1>0, <1>2, <1>6 DEF ReadsRight
  <2>2. c.hours = clock.hours BY <1>2, <2>1
  <2>3. ~misread BY <1>2, <1>3, <2>1, <2>2
  <2> QED BY <1>2, <1>6, <2>1, <2>2, <2>3
<1> QED BY <1>5, <1>6, <1>7, <1>8, ClockTaken DEF TimepickerFits

LEMMA TimeSet ==
    ASSUME NEW p \in ClockStates, NEW hours \in 0 .. 23, NEW minutes \in 0 .. 59,
           NEW amOrPm \in {"AM", "PM"}
    PROVE  [p EXCEPT !.hours = hours, !.minutes = minutes, !.amOrPm = amOrPm] \in ClockStates
BY DEF ClockStates

LEMMA ClickTimeFieldFits ==
    ASSUME OnPage("Timepicker"), TimepickerFits(clock), ClickTimeField
    PROVE  TimepickerFits(clock)'
<1>0. /\ clock \in ClockStates /\ DialogAgrees(clock) BY DEF TimepickerFits, DialsSound
<1>1. CASE clock.isOpen
  <2>1. ClockBecomes(clock) BY <1>1 DEF ClickTimeField
  <2> QED BY <2>1, ClockTaken
<1>2. CASE ~clock.isOpen
  <2>1. PICK p : p = [clock EXCEPT !.isOpen = TRUE, !.modal = "open"] OBVIOUS
  <2>2. /\ OpenPicker(clock) = p /\ p \in ClockStates /\ p.isOpen = TRUE /\ p.modal = "open"
        /\ p.twelveHour = clock.twelveHour
    BY <1>0, <1>2, <2>1 DEF OpenPicker, ClockStates, DialogStates
  <2>3. PICK text \in Times : text = TextRead(p)
    <3>1. TypedTimes \subseteq Times BY TimepickerAssumption DEF Times
    <3> QED BY <2>2, <3>1, TimepickerAssumption DEF ClockStates, TextRead
  <2>4. PICK hours \in 0 .. 23, minutes \in 0 .. 59, half \in {"AM", "PM", "none"} :
          hours = text.hours /\ minutes = text.minutes /\ half = text.half
    BY DEF Times
  <2>5. PICK amOrPm \in {"AM", "PM"} :
          amOrPm = IF ~p.twelveHour THEN p.amOrPm ELSE IF half = "AM" THEN "AM" ELSE "PM"
    BY <2>2 DEF ClockStates
  <2>6. PICK c : c = [p EXCEPT !.hours = hours, !.minutes = minutes, !.amOrPm = amOrPm] OBVIOUS
  <2>7. FromInput(p) = c BY <2>2, <2>3, <2>4, <2>5, <2>6 DEF FromInput, ClockStates
  <2>8. /\ c \in ClockStates /\ c.isOpen = TRUE /\ c.modal = "open" /\ c.hours = hours
        /\ c.minutes = minutes /\ c.amOrPm = amOrPm /\ c.twelveHour = p.twelveHour
        /\ c.value = p.value
    <3>1. c \in ClockStates BY <2>2, <2>6, TimeSet
    <3> QED BY <2>2, <2>6, <3>1 DEF ClockStates
  <2>9. DialogAgrees(c) BY <2>8 DEF DialogAgrees
  <2>10. PICK s : s = showView(c, "hours") OBVIOUS
  <2>11. /\ s \in ClockStates /\ DialsSound(s) /\ s.minutes = minutes
         /\ s.isOpen = TRUE /\ s.modal = "open" /\ s.twelveHour = c.twelveHour
         /\ c.twelveHour => s.hours = (IF hours % 12 = 0 THEN 12 ELSE hours % 12)
                            /\ s.hours \in 1 .. 12
         /\ ~c.twelveHour => s.hours = hours
    BY <2>8, <2>9, <2>10, ShowViewIs
  <2>12. PICK meant : meant = Meaning(c, text) OBVIOUS
  <2>13. /\ s.hours = meant.hours /\ s.minutes = meant.minutes
         /\ amOrPm # meant.half => half = "none"
    <3>1. CASE c.twelveHour
      <4>1. s.hours = IF hours % 12 = 0 THEN 12 ELSE hours % 12 BY <2>11, <3>1
      <4>2. half # "none" => amOrPm = half BY <2>5, <2>8, <3>1
      <4> QED BY <2>4, <2>11, <2>12, <3>1, <4>1, <4>2 DEF Meaning
    <3>2. CASE ~c.twelveHour BY <2>4, <2>8, <2>11, <2>12, <3>2 DEF Meaning
    <3> QED BY <3>1, <3>2
  <2>14. PICK other \in BOOLEAN : other = (half = "none" /\ amOrPm # meant.half) OBVIOUS
  <2>a. PICK v : v = [s EXCEPT !.misread = FALSE, !.late = FALSE] OBVIOUS
  <2>15. ClockBecomes(v)
    <3>1. ClockBecomes(ClockOpened(c)) BY <1>2, <2>2, <2>7 DEF ClickTimeField
    <3>2. TextRead(c) = text BY <2>3, <2>8 DEF TextRead
    <3>3. ClockOpened(c) =
            [s EXCEPT !.misread = \/ s.hours # meant.hours
                                  \/ s.minutes # meant.minutes
                                  \/ ~other /\ c.amOrPm # meant.half,
                      !.late = FALSE]
      BY <2>4, <2>8, <2>10, <2>12, <2>14, <3>2 DEF ClockOpened
    <3>4. (\/ s.hours # meant.hours
           \/ s.minutes # meant.minutes
           \/ ~other /\ c.amOrPm # meant.half) = FALSE
      BY <2>8, <2>13, <2>14
    <3> QED BY <2>a, <3>1, <3>3, <3>4
  <2>16. /\ v \in ClockStates /\ v.isOpen = s.isOpen /\ v.modal = s.modal
         /\ v.currentView = s.currentView /\ v.visible = s.visible
         /\ v.toggling = s.toggling /\ v.misread = FALSE
         /\ v.hours = s.hours /\ v.twelveHour = s.twelveHour
    <3>1. v \in ClockStates BY <2>11, <2>a DEF ClockStates
    <3> QED BY <2>11, <2>a, <3>1 DEF ClockStates
  <2>17. DialsSound(v) BY <2>11, <2>16 DEF DialsSound, DialogAgrees
  <2>18. ReadsRight(v) BY <2>11, <2>16 DEF ReadsRight
  <2> QED BY <2>15, <2>16, <2>17, <2>18, ClockTaken DEF TimepickerFits
<1> QED BY <1>1, <1>2

\* done, after the timer of autoClose or not, and clear: the dialog closes.
LEMMA ValueFits ==
    ASSUME NEW c, TimepickerFits(c), NEW value \in Times \cup {NoTime}, NEW n \in 0 .. MaxResets
    PROVE  TimepickerFits(ClosePicker([c EXCEPT !.dones = n, !.value = value]))
<1>1. PICK d : d = [c EXCEPT !.dones = n, !.value = value] OBVIOUS
<1>2. /\ d \in ClockStates /\ d.isOpen = c.isOpen /\ d.modal = c.modal
      /\ d.currentView = c.currentView /\ d.visible = c.visible
      /\ d.toggling = c.toggling /\ d.late = c.late /\ d.misread = c.misread
      /\ d.hours = c.hours /\ d.twelveHour = c.twelveHour
  BY <1>1 DEF TimepickerFits, ClockStates
<1>3. TimepickerFits(d) BY <1>2, SameDials
<1>4. PICK v : v = ClosePicker(d) OBVIOUS
<1>5. TimepickerFits(v) BY <1>3, <1>4, ClockClosedFits DEF TimepickerFits
<1> QED BY <1>1, <1>4, <1>5

LEMMA TimepickerKeeps ==
    ASSUME OnPage("Timepicker"), TimepickerFits(clock), TimepickerStep
    PROVE  TimepickerFits(clock)'
<1>0. clock \in ClockStates /\ DialsSound(clock) /\ ReadsRight(clock) BY DEF TimepickerFits
<1>1. ASSUME NEW angle \in Angles, NEW inner \in BOOLEAN, TouchDial(angle, inner)
      PROVE  TimepickerFits(clock)'
  BY <1>1, TouchDialFits
<1>2. CASE ReleaseDial BY <1>2, ReleaseDialFits
<1>3. ASSUME NEW view \in {"hours", "minutes"}, ClickView(view) PROVE TimepickerFits(clock)'
  BY <1>3, ClickViewFits
<1>4. ASSUME NEW half \in {"AM", "PM"}, ClickHalf(half) PROVE TimepickerFits(clock)'
  <2>1. PICK v : v = [clock EXCEPT !.amOrPm = half] OBVIOUS
  <2>2. /\ v \in ClockStates /\ v.isOpen = clock.isOpen /\ v.modal = clock.modal
        /\ v.currentView = clock.currentView /\ v.visible = clock.visible
        /\ v.toggling = clock.toggling /\ v.late = clock.late /\ v.misread = clock.misread
        /\ v.hours = clock.hours /\ v.twelveHour = clock.twelveHour
    BY <1>0, <2>1 DEF ClockStates
  <2>3. TimepickerFits(v) BY <2>2, SameDials
  <2>4. ClockBecomes(v) BY <1>4, <2>1 DEF ClickHalf
  <2> QED BY <2>3, <2>4, ClockTaken
<1>5. CASE ClickTimeField BY <1>5, ClickTimeFieldFits
<1>6. PICK n \in 0 .. MaxResets : n = clock.dones BY <1>0 DEF ClockStates
<1>7. PICK time \in Times :
        time = [hours |-> clock.hours, minutes |-> clock.minutes,
                half |-> IF clock.twelveHour THEN clock.amOrPm ELSE "none"]
  BY <1>0 DEF ClockStates, Times
<1>8. CASE ClickOk
  <2>1. Done(clock) = ClosePicker([clock EXCEPT !.value = time]) BY <1>7 DEF Done
  <2>2. [clock EXCEPT !.value = time] = [clock EXCEPT !.dones = n, !.value = time]
    BY <1>0, <1>6 DEF ClockStates
  <2>3. TimepickerFits(ClosePicker([clock EXCEPT !.dones = n, !.value = time])) BY ValueFits
  <2>4. ClockBecomes(ClosePicker([clock EXCEPT !.dones = n, !.value = time]))
    BY <1>8, <2>1, <2>2 DEF ClickOk
  <2> QED BY <2>3, <2>4, ClockTaken
<1>9. CASE DoneTimer
  <2>1. n - 1 \in 0 .. MaxResets BY <1>6, <1>9, TimepickerAssumption DEF DoneTimer
  <2>2. PICK c : c = [clock EXCEPT !.dones = n - 1] OBVIOUS
  <2>3. /\ c \in ClockStates /\ c.hours = clock.hours /\ c.minutes = clock.minutes
        /\ c.twelveHour = clock.twelveHour /\ c.amOrPm = clock.amOrPm
    BY <1>0, <2>1, <2>2 DEF ClockStates
  <2>4. Done(c) = ClosePicker([c EXCEPT !.value = time]) BY <1>7, <2>3 DEF Done
  <2>5. [c EXCEPT !.value = time] = [clock EXCEPT !.dones = n - 1, !.value = time]
    BY <1>0, <2>2 DEF ClockStates
  <2>6. TimepickerFits(ClosePicker([clock EXCEPT !.dones = n - 1, !.value = time]))
    BY <2>1, ValueFits
  <2>7. ClockBecomes(Done(c)) BY <1>0, <1>6, <1>9, <2>2 DEF DoneTimer, ClockStates
  <2>8. ClockBecomes(ClosePicker([clock EXCEPT !.dones = n - 1, !.value = time]))
    BY <2>4, <2>5, <2>7
  <2> QED BY <2>6, <2>8, ClockTaken
<1>10. CASE ClickCancelTime
  <2>1. PICK v : v = ClosePicker(clock) OBVIOUS
  <2>2. TimepickerFits(v) BY <1>0, <2>1, ClockClosedFits
  <2>3. ClockBecomes(v) BY <1>10, <2>1 DEF ClickCancelTime
  <2> QED BY <2>2, <2>3, ClockTaken
<1>11. CASE ClickClearTime
  <2>1. [clock EXCEPT !.value = NoTime] = [clock EXCEPT !.dones = n, !.value = NoTime]
    BY <1>0, <1>6 DEF ClockStates
  <2>2. TimepickerFits(ClosePicker([clock EXCEPT !.value = NoTime])) BY <2>1, ValueFits
  <2>3. ClockBecomes(ClosePicker([clock EXCEPT !.value = NoTime])) BY <1>11 DEF ClickClearTime
  <2> QED BY <2>2, <2>3, ClockTaken
<1>12. CASE TypeTime
  <2>1. PICK value \in Times \cup {NoTime} : ClockBecomes([clock EXCEPT !.value = value])
    BY <1>12, TimepickerAssumption DEF TypeTime, Times
  <2>2. PICK v : v = [clock EXCEPT !.value = value] OBVIOUS
  <2>3. /\ v \in ClockStates /\ v.isOpen = clock.isOpen /\ v.modal = clock.modal
        /\ v.currentView = clock.currentView /\ v.visible = clock.visible
        /\ v.toggling = clock.toggling /\ v.late = clock.late /\ v.misread = clock.misread
        /\ v.hours = clock.hours /\ v.twelveHour = clock.twelveHour
    BY <1>0, <2>2 DEF ClockStates
  <2>4. TimepickerFits(v) BY <2>3, SameDials
  <2> QED BY <2>1, <2>2, <2>4, ClockTaken
<1>13. CASE ToggleViewTimer
  <2>1. PICK view \in {"hours", "minutes"} : view = clock.currentView BY <1>0 DEF ClockStates
  <2>2. PICK v : v = [clock EXCEPT !.toggling = FALSE, !.visible = {view}] OBVIOUS
  <2>3. {view} \in SUBSET {"hours", "minutes"} OBVIOUS
  <2>4. /\ v \in ClockStates /\ v.isOpen = clock.isOpen /\ v.modal = clock.modal
        /\ v.currentView = view /\ v.visible = {view}
        /\ v.late = clock.late /\ v.misread = clock.misread
        /\ v.hours = clock.hours /\ v.twelveHour = clock.twelveHour
    <3>1. v \in ClockStates BY <1>0, <2>2, <2>3 DEF ClockStates
    <3> QED BY <1>0, <2>1, <2>2, <3>1 DEF ClockStates
  <2>5. TimepickerFits(v)
    BY <1>0, <2>4 DEF TimepickerFits, DialsSound, DialogAgrees, ReadsRight
  <2>6. ClockBecomes(v) BY <1>13, <2>1, <2>2 DEF ToggleViewTimer
  <2> QED BY <2>5, <2>6, ClockTaken
<1>14. CASE ResetHandTimer
  <2>1. clock.resets \in Seq(0 .. 59) /\ clock.resets # <<>>
    BY <1>0, <1>14 DEF ResetHandTimer, ClockStates
  <2>2. Head(clock.resets) \in 0 .. 59 /\ Tail(clock.resets) \in Seq(0 .. 59)
    BY <2>1, HeadTailProperties
  <2>3. PICK angle \in 0 .. 60, resets \in Seq(0 .. 59) :
          angle = Head(clock.resets) /\ resets = Tail(clock.resets)
    <3>1. \A m \in 0 .. 59 : m \in 0 .. 60 OBVIOUS
    <3> QED BY <2>2, <3>1
  <2>4. PICK c : c = setHand(clock, angle, FALSE) OBVIOUS
  <2>5. c \in ClockStates /\ SameClock(c, clock) BY <1>0, <2>4, HandIs
  <2>6. /\ c.isOpen = clock.isOpen /\ c.modal = clock.modal /\ c.currentView = clock.currentView
        /\ c.visible = clock.visible /\ c.toggling = clock.toggling /\ c.late = clock.late
        /\ c.misread = clock.misread /\ c.twelveHour = clock.twelveHour
        /\ c.resets = clock.resets
    BY <2>5 DEF SameClock
  <2>7. PICK late \in BOOLEAN : late = (c.late \/ c # clock) OBVIOUS
  <2>8. PICK v : v = [c EXCEPT !.resets = resets, !.late = late] OBVIOUS
  <2>9. ClockBecomes(v)
    <3>1. ClockBecomes([c EXCEPT !.resets = Tail(@), !.late = @ \/ c # clock])
      BY <1>14, <2>3, <2>4 DEF ResetHandTimer
    <3>2. [c EXCEPT !.resets = Tail(@), !.late = @ \/ c # clock]
            = [c EXCEPT !.resets = Tail(c.resets), !.late = c.late \/ c # clock]
      BY <2>5 DEF ClockStates
    <3> QED BY <2>3, <2>6, <2>7, <2>8, <3>1, <3>2
  <2>10. /\ v \in ClockStates /\ v.isOpen = clock.isOpen /\ v.modal = clock.modal
         /\ v.currentView = clock.currentView /\ v.visible = clock.visible
         /\ v.toggling = clock.toggling /\ v.late = late /\ v.misread = clock.misread
         /\ v.hours = c.hours /\ v.twelveHour = clock.twelveHour
    BY <2>5, <2>6, <2>8 DEF ClockStates
  <2>11. DialsSound(v) BY <2>10, SameDials
  <2>12. ReadsRight(v) BY <1>0, <2>6, <2>7, <2>10 DEF ReadsRight
  <2> QED BY <2>9, <2>10, <2>11, <2>12, ClockTaken DEF TimepickerFits
<1>15. ASSUME NEW v, v \in ClockStates, v.isOpen \in BOOLEAN, v.currentView = clock.currentView,
              v.visible = clock.visible, v.toggling = clock.toggling, v.late = clock.late,
              v.misread = clock.misread, v.hours = clock.hours,
              v.twelveHour = clock.twelveHour, v.isOpen => clock.isOpen,
              DialogAgrees(v), PickerBecomes("Timepicker", v)
       PROVE  TimepickerFits(clock)'
  <2>1. TimepickerFits(v) BY <1>0, <1>15 DEF TimepickerFits, DialsSound, ReadsRight
  <2> QED BY <1>15, <2>1, BecomesIs DEF PickerBecomes, clock
<1>16. CASE DismissDialog("Timepicker")
  <2>1. PICK v : v = [clock EXCEPT !.modal = "closing"] OBVIOUS
  <2>2. PickerBecomes("Timepicker", v) BY <1>16, <2>1 DEF DismissDialog, clock
  <2>3. /\ v \in ClockStates /\ v.isOpen = clock.isOpen /\ v.modal = "closing"
        /\ v.currentView = clock.currentView /\ v.visible = clock.visible
        /\ v.toggling = clock.toggling /\ v.late = clock.late /\ v.misread = clock.misread
        /\ v.hours = clock.hours /\ v.twelveHour = clock.twelveHour /\ v.isOpen \in BOOLEAN
    BY <1>0, <2>1 DEF ClockStates, DialogStates
  <2>4. DialogAgrees(v) BY <2>3 DEF DialogAgrees
  <2> QED BY <1>15, <2>2, <2>3, <2>4
<1>17. CASE DialogClosed("Timepicker")
  <2>1. PICK v : v = [clock EXCEPT !.modal = "closed", !.isOpen = FALSE] OBVIOUS
  <2>2. PickerBecomes("Timepicker", v) BY <1>17, <2>1 DEF DialogClosed, clock
  <2>3. /\ v \in ClockStates /\ v.isOpen = FALSE /\ v.modal = "closed"
        /\ v.currentView = clock.currentView /\ v.visible = clock.visible
        /\ v.toggling = clock.toggling /\ v.late = clock.late /\ v.misread = clock.misread
        /\ v.hours = clock.hours /\ v.twelveHour = clock.twelveHour
    BY <1>0, <2>1 DEF ClockStates, DialogStates
  <2>4. DialogAgrees(v) BY <2>3 DEF DialogAgrees
  <2> QED BY <1>15, <2>2, <2>3, <2>4
<1> QED BY <1>1, <1>2, <1>3, <1>4, <1>5, <1>8, <1>9, <1>10, <1>11, <1>12, <1>13, <1>14, <1>16,
           <1>17 DEF TimepickerStep

LEMMA TimepickerGives ==
    ASSUME TimepickerFits(clock) PROVE TimepickerTypeOK /\ TimepickerShowsState
<1>1. TimepickerTypeOK BY DEF TimepickerFits, ClockStates, TimepickerTypeOK
<1>2. TimepickerShowsState
  BY DEF TimepickerFits, DialsSound, ReadsRight, TimepickerShowsState
<1> QED BY <1>1, <1>2
=============================================================================
