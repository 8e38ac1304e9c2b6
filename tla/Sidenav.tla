------------------------------ MODULE Sidenav -------------------------------
(***************************************************************************)
(* The navigation drawer of header.html, class Sidenav of materialize.js.  *)
(* Every page makes it twice: init.js, and then M.AutoInit in footer.html, *)
(* whose constructor destroys the instance it finds.  The drawer is not    *)
(* fixed, so the branches for fixed drawers are left out.                  *)
(***************************************************************************)
EXTENDS Document

nav == widget["Sidenav"]

\* How far a drag has opened the drawer, as the code tells percentOpen apart.
Percents == {"0", "to 0.2", "to 0.8", "to 1", "1"}

SidenavTypeOK ==
    nav \in [made : 0 .. 2,                     \* how often it was constructed
             sidenavs : 0 .. 2,                 \* Sidenav._sidenavs.length
             handlers : 0 .. 2,                 \* trigger handlers of the body
             isOpen : BOOLEAN, isDragged : BOOLEAN, percentOpen : Percents,
             place : {"out", "between", "in"},  \* where the drawer is seen
             overlay : BOOLEAN,                 \* whether the overlay is displayed
             slide : {"none", "in", "out"},     \* the animation of the drawer
             fade : {"none", "in", "out"},      \* the animation of the overlay
             mixed : BOOLEAN]                   \* history: two fingers at once

SidenavInit == [made |-> 0, sidenavs |-> 0, handlers |-> 0, isOpen |-> FALSE,
                isDragged |-> FALSE, percentOpen |-> "0", place |-> "out",
                overlay |-> FALSE, slide |-> "none", fade |-> "none", mixed |-> FALSE]

\* Mutant: the destroyed instance stays in the list.
SidenavDestroyUnlisted(n) ==
    IF n.made = 0 THEN n
    ELSE [n EXCEPT !.handlers = IF n.sidenavs = 1 THEN 0 ELSE @]

\* destroy, if there is an instance.
SidenavDestroy(n) ==
    IF n.made = 0 THEN n
    ELSE [n EXCEPT !.handlers = IF n.sidenavs = 1 THEN 0 ELSE @, !.sidenavs = @ - 1]

\* The constructor; only the first of the list listens for clicks on triggers.  The instance it
\* destroys lets the body scroll.
MakeSidenav ==
    LET n == SidenavDestroy(nav) IN
    /\ nav.made < 2
    /\ Becomes("Sidenav", [n EXCEPT !.made = @ + 1, !.sidenavs = @ + 1,
                                    !.handlers = IF n.sidenavs = 0 THEN @ + 1 ELSE @])
    /\ scrolls' = (scrolls \/ nav.made > 0)

Ready == nav.made = 2

AnimateIn(n) ==
    [n EXCEPT !.slide = "in", !.fade = "in", !.overlay = @ \/ ~n.isDragged]
AnimateOut(n) == [n EXCEPT !.slide = "out", !.fade = "out"]

Open(n) ==
    LET opened == [n EXCEPT !.isOpen = TRUE] IN
    IF n.isOpen THEN n
    ELSE IF n.isDragged /\ n.percentOpen = "1" THEN opened ELSE AnimateIn(opened)

Close(n) ==
    LET closed == [n EXCEPT !.isOpen = FALSE] IN
    IF ~n.isOpen THEN n
    ELSE IF n.isDragged /\ n.percentOpen = "0" THEN [closed EXCEPT !.overlay = FALSE]
    ELSE AnimateOut(closed)

\* open prevents the body from scrolling and close lets it, unless they do nothing.
NavBecomes(n) ==
    /\ Becomes("Sidenav", n)
    /\ scrolls' = IF n.isOpen = nav.isOpen THEN scrolls ELSE ~n.isOpen

-----------------------------------------------------------------------------
(* Clicks.  One that comes while a finger drags is another finger's.        *)

Mixing(n) == [n EXCEPT !.mixed = @ \/ n.isDragged]

\* _handleTriggerClick, which the body calls
ClickTrigger == Ready /\ nav.handlers > 0 /\ NavBecomes(Open(Mixing(nav)))

\* A click on the overlay, or on an element of class sidenav-close
ClickOverlay == Ready /\ nav.overlay /\ NavBecomes(Close(Mixing(nav)))
ClickCloseTrigger == Ready /\ nav.place # "out" /\ NavBecomes(Close(Mixing(nav)))

-----------------------------------------------------------------------------
(* Drags                                                                    *)

\* _startDrag, unless the drawer is dragged already, and the move to a percentage
Dragged(n, percent) ==
    LET started == IF n.isDragged THEN n
                   ELSE [n EXCEPT !.isDragged = TRUE, !.overlay = TRUE,
                                  !.slide = "none", !.fade = "none"]
    IN [started EXCEPT !.percentOpen = percent,
                       !.place = CASE percent = "0" -> "out" [] percent = "1" -> "in"
                                   [] OTHER -> "between"]
Released(n) == [n EXCEPT !.isDragged = FALSE]

\* The edge of the page lies under an open drawer.
AtEdge == [nav EXCEPT !.mixed = @ \/ nav.isOpen]

DragEdge ==
    /\ Ready
    /\ \E percent \in Percents : Steps("Sidenav", Dragged(AtEdge, percent))

\* _handleDragTargetRelease
ReleaseEdge ==
    /\ nav.isDragged
    /\ NavBecomes(Released(IF nav.percentOpen \in {"0", "to 0.2"} THEN AnimateOut(AtEdge)
                           ELSE Open(AtEdge)))

\* _handleCloseDrag of the drawer and the overlay
DragDrawer ==
    /\ nav.isOpen
    /\ \E percent \in Percents : Steps("Sidenav", Dragged(nav, percent))

\* _handleCloseRelease
ReleaseDrawer ==
    /\ nav.isOpen /\ nav.isDragged
    /\ NavBecomes(Released(IF nav.percentOpen \in {"to 1", "1"} THEN AnimateIn(nav)
                           ELSE Close(nav)))

-----------------------------------------------------------------------------
(* The ends of the animations                                               *)

SlideEnds ==
    /\ nav.slide # "none"
    /\ Steps("Sidenav", [nav EXCEPT !.place = nav.slide, !.slide = "none"])

FadeEnds ==
    /\ nav.fade # "none"
    /\ Steps("Sidenav", [nav EXCEPT !.overlay = @ /\ nav.fade = "in", !.fade = "none"])

SidenavStep ==
    \/ MakeSidenav
    \/ ClickTrigger \/ ClickOverlay \/ ClickCloseTrigger
    \/ DragEdge \/ ReleaseEdge \/ DragDrawer \/ ReleaseDrawer
    \/ SlideEnds \/ FadeEnds

-----------------------------------------------------------------------------
(* What the drawer promises                                                 *)

SidenavSettled == ~nav.isDragged /\ nav.slide = "none" /\ nav.fade = "none"

\* At rest the drawer and its overlay are where isOpen says, unless fingers were mixed.
SidenavShowsState ==
    SidenavSettled /\ ~nav.mixed =>
      /\ nav.isOpen <=> nav.place = "in"
      /\ nav.isOpen <=> nav.overlay

\* The second construction leaves one instance, and the body one handler for triggers.
SidenavListensOnce == nav.sidenavs = (IF nav.made = 0 THEN 0 ELSE 1) /\ nav.handlers = nav.sidenavs
=============================================================================
