-------------------------------- MODULE Hover -------------------------------
(***************************************************************************)
(* What comes up under the mouse, classes Tooltip and FloatingActionButton *)
(* of materialize.js: a hint that shows while the mouse is over an element *)
(* or the tab key has led to it, and a round button over the page that     *)
(* unfolds a menu: buttons that come up when the mouse is over it or it is *)
(* clicked, or a toolbar into which it spreads in stages, by timers.       *)
(***************************************************************************)
EXTENDS Document

CONSTANT MaxStages     \* bound: timers of each kind that run at once

ASSUME FloatingButtonAssumption == MaxStages \in Nat

-----------------------------------------------------------------------------
(* Tooltip.  It comes and goes after a delay; its animations call nobody    *)
(* back.                                                                    *)

tip == widget["Tooltip"]

TooltipTypeOK ==
    tip \in [isOpen : BOOLEAN, isHovered : BOOLEAN, isFocused : BOOLEAN,
             enter : {"none", "manual", "user"},   \* _enterDelayTimeout, and isManual
             exit : BOOLEAN,                       \* _exitDelayTimeout
             shown : BOOLEAN,                      \* animated in last, not out
             hasty : BOOLEAN]    \* history: opened by a script during a delay, or closed in its own

TooltipInit == [isOpen |-> FALSE, isHovered |-> FALSE, isFocused |-> FALSE,
                enter |-> "none", exit |-> FALSE, shown |-> FALSE, hasty |-> FALSE]

OpenTip(t, by) ==
    IF t.isOpen THEN t
    ELSE [t EXCEPT !.isOpen = TRUE, !.enter = by, !.hasty = by = "manual" /\ t.exit]

CloseTip(t) ==
    IF ~t.isOpen THEN t
    ELSE [t EXCEPT !.isOpen = FALSE, !.isHovered = FALSE, !.isFocused = FALSE,
                   !.exit = TRUE, !.hasty = t.enter = "manual"]

TipBecomes(t) == Steps("Tooltip", t)

OpenTipByScript == TipBecomes(OpenTip(tip, "manual"))
CloseTipByScript == TipBecomes(CloseTip(tip))

EnterTip == TipBecomes(OpenTip([tip EXCEPT !.isHovered = TRUE, !.isFocused = FALSE], "user"))
LeaveTip == TipBecomes(CloseTip([tip EXCEPT !.isHovered = FALSE, !.isFocused = FALSE]))

\* _handleFocus does nothing unless M.tabPressed.
FocusTip == TipBecomes(OpenTip([tip EXCEPT !.isFocused = TRUE], "user"))
BlurTip == TipBecomes(CloseTip([tip EXCEPT !.isFocused = FALSE]))

\* _setEnterDelayTimeout and _setExitDelayTimeout when the delay is over
EnterDelay(t) ==
    [t EXCEPT !.enter = "none",
              !.shown = @ \/ t.isHovered \/ t.isFocused \/ t.enter = "manual"]
ExitDelay(t) ==
    [t EXCEPT !.exit = FALSE, !.shown = @ /\ (t.isHovered \/ t.isFocused)]

TooltipStep ==
    \/ OpenTipByScript \/ CloseTipByScript
    \/ EnterTip \/ LeaveTip \/ FocusTip \/ BlurTip
    \/ tip.enter # "none" /\ TipBecomes(EnterDelay(tip))
    \/ tip.exit /\ TipBecomes(ExitDelay(tip))

-----------------------------------------------------------------------------
\* When no delay is left a tooltip shows when it is open and only then, unless a script opened
\* it while it was going, or it was closed before the script's opening took effect.
TooltipShowsState ==
    tip.enter = "none" /\ ~tip.exit /\ ~tip.hasty => tip.shown = tip.isOpen

-----------------------------------------------------------------------------
(* FloatingActionButton                                                     *)

fab == widget["FloatingButton"]

FloatingButtonTypeOK ==
    fab \in [mode : {"hover", "click", "toolbar"},    \* hoverEnabled, toolbarEnabled
             isOpen : BOOLEAN,
             active : BOOLEAN,                        \* the class: its menu is visible
             folding : BOOLEAN,                       \* the animations of _animateOutFAB
             spread : BOOLEAN,                        \* has the toolbar's width
             starts : 0 .. MaxStages,                 \* timers of _animateInToolbar:
             spreads : 0 .. MaxStages,                \* the outer ones and the inner ones
             shrinks : 0 .. MaxStages,                \* timers of _animateOutToolbar
             scrollHeard : BOOLEAN,                   \* scrolling closes it
             clicks : 0 .. MaxStages,                 \* click handlers of the body
             bound : BOOLEAN,                         \* the last of them is its own
             hasty : BOOLEAN,      \* history: it is open since before it had come to rest
             leaked : BOOLEAN]     \* history: closed before it listened

FloatingButtonInit ==
    {[mode |-> mode, isOpen |-> FALSE, active |-> FALSE, folding |-> FALSE, spread |-> FALSE,
      starts |-> 0, spreads |-> 0, shrinks |-> 0, scrollHeard |-> FALSE, clicks |-> 0,
      bound |-> FALSE, hasty |-> FALSE, leaked |-> FALSE] :
        mode \in {"hover", "click", "toolbar"}}

FabAtRest(f) == ~f.folding /\ f.starts + f.spreads + f.shrinks = 0

\* open: _animateInFAB, or the first stage of _animateInToolbar
OpenFab(f) ==
    LET opened == [f EXCEPT !.isOpen = TRUE, !.active = TRUE, !.hasty = ~FabAtRest(f)] IN
    IF f.isOpen THEN f
    ELSE IF f.mode = "toolbar" THEN [opened EXCEPT !.spread = TRUE, !.starts = @ + 1]
    ELSE opened

\* close: _animateOutFAB, or the first stage of _animateOutToolbar
CloseFab(f) ==
    LET closed == [f EXCEPT !.isOpen = FALSE, !.hasty = FALSE] IN
    IF ~f.isOpen THEN f
    ELSE IF f.mode = "toolbar"
    THEN [closed EXCEPT !.active = FALSE, !.shrinks = @ + 1, !.scrollHeard = FALSE,
                        !.clicks = IF f.bound THEN @ - 1 ELSE @, !.bound = FALSE,
                        !.leaked = @ \/ ~f.bound]
    ELSE [closed EXCEPT !.folding = TRUE]

FabBecomes(f) ==
    /\ f.starts <= MaxStages /\ f.spreads <= MaxStages /\ f.shrinks <= MaxStages
    /\ f.clicks <= MaxStages
    /\ Steps("FloatingButton", f)

EnterFab == fab.mode = "hover" /\ FabBecomes(OpenFab(fab))
LeaveFab == fab.mode = "hover" /\ FabBecomes(CloseFab(fab))

\* _handleDocumentClick, which the body hears first, of a click that is not in the menu
DocumentClicked(f, inMenu) == IF f.clicks > 0 /\ ~inMenu THEN CloseFab(f) ELSE f

\* A click on the button or its menu: the body's handlers, and then _handleFABClick
ClickFab(inMenu) ==
    LET heard == DocumentClicked(fab, inMenu) IN
    /\ fab.mode # "hover"
    /\ inMenu => fab.active
    /\ FabBecomes(IF heard.isOpen THEN CloseFab(heard) ELSE OpenFab(heard))

ClickBesideFab == fab.clicks > 0 /\ FabBecomes(DocumentClicked(fab, FALSE))
ScrollPage == fab.scrollHeard /\ FabBecomes(CloseFab(fab))

\* The animations of _animateOutFAB end and take the class off, whatever has happened since.
Folded == fab.folding /\ FabBecomes([fab EXCEPT !.folding = FALSE, !.active = FALSE])

\* The timers of _animateInToolbar; the inner one adds the handlers that close the toolbar.
StartTimer ==
    fab.starts > 0 /\ FabBecomes([fab EXCEPT !.starts = @ - 1, !.spreads = @ + 1])
SpreadTimer ==
    /\ fab.spreads > 0
    /\ FabBecomes([fab EXCEPT !.spreads = @ - 1, !.scrollHeard = TRUE, !.clicks = @ + 1,
                              !.bound = TRUE])

\* The timer of _animateOutToolbar takes off the backdrop and the width.
ShrinkTimer ==
    fab.shrinks > 0 /\ FabBecomes([fab EXCEPT !.shrinks = @ - 1, !.spread = FALSE])

FloatingButtonStep ==
    \/ EnterFab \/ LeaveFab \/ ClickBesideFab \/ ScrollPage
    \/ \E inMenu \in BOOLEAN : ClickFab(inMenu)
    \/ Folded \/ StartTimer \/ SpreadTimer \/ ShrinkTimer

-----------------------------------------------------------------------------
\* At rest the button is unfolded when it is open and only then, unless it was opened
\* before it had come to rest; and as a toolbar it listens to the page exactly while it is
\* open, unless it was ever closed before it listened.
FloatingButtonShowsState ==
    FabAtRest(fab) =>
      /\ ~fab.hasty => /\ fab.active = fab.isOpen
                       /\ fab.spread = (fab.isOpen /\ fab.mode = "toolbar")
      /\ fab.mode = "toolbar" /\ ~fab.leaked =>
           /\ fab.scrollHeard = fab.isOpen
           /\ fab.clicks = (IF fab.isOpen THEN 1 ELSE 0)
=============================================================================
