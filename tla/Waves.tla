-------------------------------- MODULE Waves -------------------------------
(***************************************************************************)
(* The ripples of the buttons of class waves-effect, materialize.js.  A    *)
(* press adds a ripple to the button; its end fades the last ripple out    *)
(* and later removes it.  TouchHandler counts touches, so that the mouse   *)
(* events a browser adds to a touch make no second ripple.                 *)
(***************************************************************************)
EXTENDS Document

CONSTANTS
    Ripples,
    MaxTouches    \* bound: touches that count at a time, and timers of a ripple

ASSUME WavesAssumption == MaxTouches \in Nat

waves == widget["Waves"]

WavesTypeOK ==
    waves \in [touches : 0 .. MaxTouches,              \* TouchHandler.touches
               pops : 0 .. MaxTouches,                 \* timers that take a touch off
               fingers : 0 .. MaxTouches,              \* fingers on the button
               mouse : BOOLEAN,                        \* the mouse presses the button
               attached : BOOLEAN,                     \* the button listens for ends
               ripples : Seq(Ripples),                 \* in the button
               fades : [Ripples -> 0 .. MaxTouches],   \* timers of hide, for the delay
               removes : [Ripples -> 0 .. MaxTouches], \* and for the duration of the effect
               together : BOOLEAN,       \* history: pressed while a ripple was held
               outside : BOOLEAN]        \* history: touched beside the button

WavesInit ==
    [touches |-> 0, pops |-> 0, fingers |-> 0, mouse |-> FALSE, attached |-> FALSE,
     ripples |-> <<>>, fades |-> [r \in Ripples |-> 0], removes |-> [r \in Ripples |-> 0],
     together |-> FALSE, outside |-> FALSE]

Hiding(w, r) == w.fades[r] + w.removes[r] > 0

\* show: a new ripple, the last of the button
Show(w, r) ==
    [w EXCEPT !.ripples = Append(@, r),
              !.together = @ \/ \E s \in ToSet(w.ripples) : ~Hiding(w, s)]

\* hide, of the last ripple
Hide(w) == IF w.ripples = <<>> THEN w ELSE [w EXCEPT !.fades[Last(w.ripples)] = @ + 1]

NewRipples == {r \in Ripples : r \notin ToSet(waves.ripples) /\ ~Hiding(waves, r)}

MayTouch == waves.touches < MaxTouches /\ waves.pops < MaxTouches
MayHide == \A r \in Ripples : waves.fades[r] + waves.removes[r] < MaxTouches

\* showEffect for a touch of the button, and of the rest of the body
TouchButton(r) ==
    /\ MayTouch /\ r \in NewRipples
    /\ Steps("Waves", Show([waves EXCEPT !.touches = @ + 1, !.fingers = @ + 1,
                                         !.attached = TRUE], r))
TouchBeside ==
    Steps("Waves", [waves EXCEPT !.touches = IF @ < MaxTouches THEN @ + 1 ELSE @,
                                 !.outside = TRUE])

\* touchend or touchcancel of the button
TouchEnds ==
    /\ waves.fingers > 0 /\ waves.pops < MaxTouches /\ MayHide
    /\ Steps("Waves", Hide([waves EXCEPT !.fingers = @ - 1, !.pops = @ + 1]))

TouchPops ==
    /\ waves.pops > 0
    /\ Steps("Waves", [waves EXCEPT !.pops = @ - 1, !.touches = IF @ > 0 THEN @ - 1 ELSE @])

\* showEffect for a button of the mouse; the right one makes no ripple.
MouseDown(right) ==
    /\ ~waves.mouse /\ waves.touches = 0
    /\ \E r \in NewRipples :
         LET w == [waves EXCEPT !.attached = TRUE] IN
         Steps("Waves", IF right THEN w ELSE Show([w EXCEPT !.mouse = TRUE], r))

\* mouseup, mouseleave, dragend
MouseOff ==
    /\ waves.attached /\ MayHide
    /\ Steps("Waves", Hide([waves EXCEPT !.mouse = FALSE]))

FadeTimer(r) ==
    /\ waves.fades[r] > 0
    /\ Steps("Waves", [waves EXCEPT !.fades[r] = @ - 1, !.removes[r] = @ + 1])

RemoveTimer(r) ==
    /\ waves.removes[r] > 0
    /\ Steps("Waves", [waves EXCEPT !.removes[r] = @ - 1, !.ripples = Without(@, r)])

WavesStep ==
    \/ \E r \in Ripples : TouchButton(r) \/ FadeTimer(r) \/ RemoveTimer(r)
    \/ TouchBeside \/ TouchEnds \/ TouchPops \/ MouseOff
    \/ \E right \in BOOLEAN : MouseDown(right)

-----------------------------------------------------------------------------
\* A button that nobody presses loses its ripples, unless it was pressed twice at once.
RipplesGo ==
    /\ waves.fingers = 0 /\ ~waves.mouse /\ ~waves.together
    /\ \A r \in Ripples : ~Hiding(waves, r)
    => waves.ripples = <<>>

\* Every touch of the button is taken off the count, so that the mouse is heard again, unless
\* the body was touched beside it.
TouchesAreCounted == ~waves.outside => waves.touches = waves.fingers + waves.pops
=============================================================================
