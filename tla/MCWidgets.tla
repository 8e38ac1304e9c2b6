------------------------------ MODULE MCWidgets -----------------------------
(* Widgets for TLC: pages of one widget, and one with a drawer and modals.  *)
EXTENDS Widgets, TLC

CONSTANTS t1, t2, i1, i2, m1, m2, r1, r2, x1, x2, g1, g2, g3

SomePages == {{"Sidenav"}, {"Toasts"}, {"Collapsible"}, {"Modal"}, {"Dropdown"},
              {"Carousel"}, {"Tabs"}, {"Tooltip"}, {"Waves"}, {"Autocomplete"}, {"Chips"},
              {"FormSelect"}, {"TextField"}, {"TextArea"},
              {"Slider"}, {"Lightbox"}, {"FloatingButton"}, {"ScrollSpy"}, {"Datepicker"},
              {"Timepicker"}, {"Sidenav", "Modal"}}

\* A page of toasts alone
ToastPage == {{"Toasts"}}

\* One value matches the text x1, three x2.
MatchesOf == [text \in {x1, x2} |-> IF text = x1 THEN 1 ELSE 3]
\* The end of a February, in a year of 365 and of 366 days, and a Saturday at the turn of a year
Day(year, month, day) == [year |-> year, month |-> month, day |-> day]
SomeDates == {Day(1900, 1, 28), Day(2000, 0, 1), Day(2000, 1, 29)}
SomeRanges == {[min |-> NoDate, max |-> NoDate],
               [min |-> Day(2000, 0, 1), max |-> Day(2000, 0, 1)]}

\* A quarter of an hour after midnight, written without a half, and in the afternoon
QuarterPast == [hours |-> 0, minutes |-> 15, half |-> "none"]
SomeTimes == {QuarterPast, [hours |-> 13, minutes |-> 58, half |-> "PM"]}
=============================================================================
