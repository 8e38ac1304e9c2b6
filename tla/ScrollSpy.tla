------------------------------ MODULE ScrollSpy -----------------------------
(***************************************************************************)
(* Sections whose link is highlighted while they are in the window, class  *)
(* ScrollSpy of materialize.js.  One handler of the window serves all of   *)
(* them; section n was the n-th to be made, from the top of the page down. *)
(***************************************************************************)
EXTENDS Document

CONSTANT Sections     \* how many sections there are

ASSUME ScrollSpyAssumption == Sections \in Nat \ {0}

spy == widget["ScrollSpy"]

SectionIds == 1 .. Sections

ScrollSpyTypeOK ==
    spy \in [inView : SUBSET SectionIds,            \* those in the window now
             _elementsInView : SUBSET SectionIds,   \* and at the last scroll
             ticking : [SectionIds -> BOOLEAN],     \* tickId >= 0
             _visibleElements : Seq(SectionIds),
             hidden : SUBSET SectionIds,            \* of no height
             highlighted : SUBSET SectionIds,       \* links of class active
             shrank : BOOLEAN]     \* history: a section lost its height while it was visible

\* Before the first constructor's call of _handleWindowScroll
ScrollSpyInit ==
    {[inView |-> {}, _elementsInView |-> {}, ticking |-> [n \in SectionIds |-> FALSE],
      _visibleElements |-> <<>>, hidden |-> {}, highlighted |-> {}, shrank |-> FALSE]}

\* filter of a JavaScript array: the list without the elements of a set
Filtered(list, gone) ==
    LET kept[i \in 0 .. Len(list)] ==
          IF i = 0 THEN <<>>
          ELSE IF list[i] \in gone THEN kept[i - 1] ELSE Append(kept[i - 1], list[i])
    IN kept[Len(list)]

\* The visible elements that have a height
StillVisible(s) == Filtered(s._visibleElements, s.hidden)

\* _enter: the first of the visible elements gives its place to one made before it.
_enter(s, n) ==
    LET visible == StillVisible(s)
        entered == IF visible # <<>> /\ n < Head(visible) THEN <<n>> \o visible
                   ELSE Append(visible, n)
        off == IF visible = <<>> THEN {} ELSE {Head(visible)}
    IN [s EXCEPT !._visibleElements = entered, !.ticking[n] = TRUE,
                 !.highlighted = (@ \ off) \cup {Head(entered)}]

\* _exit
_exit(s, n) ==
    LET visible == StillVisible(s)
        left == Filtered(visible, {n})
        on == IF left = <<>> THEN {} ELSE {Head(left)}
        exited == [s EXCEPT !.ticking[n] = FALSE]
    IN IF visible = <<>> THEN [exited EXCEPT !._visibleElements = <<>>]
       ELSE [exited EXCEPT !._visibleElements = left,
                           !.highlighted = (@ \ {Head(visible)}) \cup on]

\* Some sections enter, or exit, in the order in which they were made.
Entered(s, ns) ==
    LET entered[n \in 0 .. Sections] ==
          IF n = 0 THEN s
          ELSE IF n \in ns THEN _enter(entered[n - 1], n) ELSE entered[n - 1]
    IN entered[Sections]
Exited(s, ns) ==
    LET exited[n \in 0 .. Sections] ==
          IF n = 0 THEN s
          ELSE IF n \in ns THEN _exit(exited[n - 1], n) ELSE exited[n - 1]
    IN exited[Sections]

\* _handleWindowScroll: those that come into view, and then those that were in view and are not
_handleWindowScroll(s, found) ==
    LET entering == {n \in found : ~s.ticking[n]}
        exiting == {n \in s._elementsInView \ found : s.ticking[n]}
    IN [Exited(Entered(s, entering), exiting) EXCEPT !._elementsInView = found]

\* The page is scrolled, to where sections that follow one another are in the window, or
\* resized: _findElements passes over those without a height.
ScrollTo(first, last) ==
    Steps("ScrollSpy", [_handleWindowScroll(spy, (first .. last) \ spy.hidden)
                          EXCEPT !.inView = first .. last])

\* A script of the page hides a section or shows it again; nobody tells the widget.
ToggleSection(n) ==
    Steps("ScrollSpy",
      [spy EXCEPT !.hidden = IF n \in @ THEN @ \ {n} ELSE @ \cup {n},
                  !.shrank = @ \/ n \in ToSet(spy._visibleElements)])

ScrollSpyStep ==
    \/ \E first, last \in 0 .. Sections : ScrollTo(first + 1, last)
    \/ \E n \in SectionIds : ToggleSection(n)

-----------------------------------------------------------------------------
\* Unless a visible section was hidden, the visible elements are those that were in the window
\* when it was last scrolled; while there are any one link is highlighted, of one of them.
\* It need not be the one on top.
ScrollSpyShowsState ==
    ~spy.shrank =>
      /\ ToSet(spy._visibleElements) = spy._elementsInView
      /\ IsInjective(spy._visibleElements)
      /\ \A n \in SectionIds : spy.ticking[n] <=> n \in spy._elementsInView
      /\ spy.highlighted = IF spy._visibleElements = <<>> THEN {}
                           ELSE {Head(spy._visibleElements)}
=============================================================================
