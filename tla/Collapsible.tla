---------------------------- MODULE Collapsible -----------------------------
(***************************************************************************)
(* The list of dishes of restaurantDetails.html, class Collapsible of      *)
(* materialize.js: items whose bodies slide open and shut, one at a time   *)
(* when it is an accordion, as it is unless an option says otherwise.      *)
(***************************************************************************)
EXTENDS Document

CONSTANT Items   \* the items of the list

list == widget["Collapsible"]

CollapsibleTypeOK ==
    list \in [accordion : BOOLEAN,
              active : SUBSET Items,                       \* with the class active
              displayed : SUBSET Items,                    \* whose body is displayed
              slides : [Items -> {"none", "in", "out"}]]   \* the animation of the body

\* An item may be active in the markup, and its body is then displayed.
CollapsibleInit ==
    {[accordion |-> accordion, active |-> active, displayed |-> active,
      slides |-> [i \in Items |-> "none"]] :
        accordion \in BOOLEAN, active \in {{}} \cup {{i} : i \in Items}}

\* _animateIn and _animateOut take the body out of the animation it may be in.
CloseAll(s, items) ==
    [s EXCEPT !.active = @ \ items,
              !.slides = [i \in Items |-> IF i \in items \cap s.active THEN "out" ELSE @[i]]]

\* Mutant: the animation that shuts the body goes on to its end.
OpenUnstopped(s, i) ==
    [s EXCEPT !.active = @ \cup {i}, !.displayed = @ \cup {i},
              !.slides[i] = IF @ = "out" THEN @ ELSE "in"]

OpenItem(s, i) ==
    [s EXCEPT !.active = @ \cup {i}, !.displayed = @ \cup {i}, !.slides[i] = "in"]

\* open
Opened(s, i) ==
    IF i \in s.active THEN s
    ELSE OpenItem(IF s.accordion THEN CloseAll(s, s.active) ELSE s, i)

\* _handleCollapsibleClick, and Enter on a header
ClickHeader(i) ==
    Steps("Collapsible", IF i \in list.active THEN CloseAll(list, {i}) ELSE Opened(list, i))

\* The animation of a body ends; shut, it is displayed no more.
BodySlid(i) ==
    /\ list.slides[i] # "none"
    /\ Steps("Collapsible",
         [list EXCEPT !.slides[i] = "none",
                      !.displayed = IF list.slides[i] = "out" THEN @ \ {i} ELSE @])

CollapsibleStep == \E i \in Items : ClickHeader(i) \/ BodySlid(i)

-----------------------------------------------------------------------------
\* At rest the bodies displayed are those of the active items; an accordion has at most one
\* active item, and never two bodies that slide open.
CollapsibleShowsState ==
    /\ \A i \in Items : list.slides[i] = "none" => (i \in list.active <=> i \in list.displayed)
    /\ list.accordion => /\ Cardinality(list.active) <= 1
                         /\ \A i \in Items : list.slides[i] = "in" => i \in list.active
=============================================================================
