------------------------------- MODULE Toasts -------------------------------
(***************************************************************************)
(* The toasts that the pages' scripts show with M.toast, class Toast of    *)
(* materialize.js: a container that comes with the first toast and goes    *)
(* with the last, a timer for each, and swipes.                            *)
(***************************************************************************)
EXTENDS Document

CONSTANTS
    ToastNames,
    NoToast,
    DisplayLength,   \* the time a toast is given, in turns of its timer
    Fingers,         \* bound: the most fingers that are on each toast, the mouse among them
    TouchIsCancelled \* whether the browser may cancel a touch, for a gesture of its own

ASSUME ToastAssumption ==
    /\ NoToast \notin ToastNames /\ DisplayLength \in Nat \ {0} /\ Fingers \in Nat
    /\ TouchIsCancelled \in BOOLEAN

ts == widget["Toasts"]

ToastsTypeOK ==
    ts \in [place : [ToastNames -> {"none", "page", "removed"}],  \* in the page, or detached
            toasts : Seq(ToastNames),                             \* Toast._toasts
            container : BOOLEAN,                                  \* Toast._container
            timer : [ToastNames -> BOOLEAN],
            timeRemaining : [ToastNames -> 0 .. DisplayLength],
            panning : [ToastNames -> BOOLEAN],
            leaving : [ToastNames -> 0 .. 2],                     \* animations of dismiss
            dragged : ToastNames \cup {NoToast},                  \* Toast._draggedToast
            held : [ToastNames -> 0 .. Fingers],                  \* the fingers on each
            again : BOOLEAN,              \* history: one leaving or gone was dismissed
            crossed : BOOLEAN]            \* history: two fingers touched, or one was not heard of

ToastsInit ==
    [place |-> [t \in ToastNames |-> "none"], toasts |-> <<>>, container |-> FALSE,
     timer |-> [t \in ToastNames |-> FALSE], timeRemaining |-> [t \in ToastNames |-> 0],
     panning |-> [t \in ToastNames |-> FALSE], leaving |-> [t \in ToastNames |-> 0],
     dragged |-> NoToast, held |-> [t \in ToastNames |-> 0], again |-> FALSE,
     crossed |-> FALSE]

\* M.toast.  The first toast of the list makes the container.
MakeToast(t) ==
    /\ ts.place[t] = "none" /\ ts.leaving[t] = 0 /\ ts.dragged # t /\ ts.held[t] = 0
    /\ Steps("Toasts",
         [ts EXCEPT !.place[t] = "page", !.toasts = Append(@, t), !.container = TRUE,
                    !.timer[t] = TRUE, !.timeRemaining[t] = DisplayLength,
                    !.panning[t] = FALSE])

\* dismiss stops the timer and starts an animation, also when there is one, or the toast
\* has gone.
Dismiss(s, t) ==
    [s EXCEPT !.timer[t] = FALSE, !.leaving[t] = @ + 1,
              !.again = @ \/ s.leaving[t] > 0 \/ s.place[t] # "page"]

\* A turn of the timer of t.
Tick(t) ==
    LET left == ts.timeRemaining[t] - 1 IN
    /\ ts.timer[t] /\ ~ts.panning[t]
    /\ Steps("Toasts", IF left = 0 THEN Dismiss([ts EXCEPT !.timeRemaining[t] = 0], t)
                       ELSE [ts EXCEPT !.timeRemaining[t] = left])

\* _toasts.splice(_toasts.indexOf(t), 1): at the index -1, of a toast that is not there,
\* splice takes the last.
Unlisted(toasts, t) ==
    IF t \in ToSet(toasts) THEN Without(toasts, t)
    ELSE IF toasts = <<>> THEN toasts ELSE Front(toasts)

\* The animation of a dismissal ends: the toast goes, and with the last the container, and
\* what else is in it.
Left(t) ==
    LET rest == Unlisted(ts.toasts, t)
        gone == [ts EXCEPT !.leaving[t] = @ - 1, !.place[t] = "none", !.toasts = rest]
    IN
    /\ ts.leaving[t] > 0
    /\ Steps("Toasts",
         IF rest # <<>> THEN gone
         ELSE [gone EXCEPT !.container = FALSE,
                           !.place = [u \in ToastNames |->
                                        IF u # t /\ ts.place[u] = "page" THEN "removed"
                                        ELSE gone.place[u]]])

-----------------------------------------------------------------------------
(* Swipes.  Whichever toast a finger is on, the one touched last is dragged.  *)

_onDragStart(t) ==
    /\ ts.place[t] = "page" /\ ts.held[t] < Fingers
    /\ Steps("Toasts",
         [ts EXCEPT !.panning[t] = TRUE, !.dragged = t, !.held[t] = @ + 1,
                    !.crossed = @ \/ \E u \in ToastNames : ts.held[u] > 0])

\* Mutant: the toast that is let go goes on panning.
_onDragEndHolding(s, far) ==
    LET t == s.dragged
        let == [s EXCEPT !.dragged = NoToast]
    IN  IF t = NoToast THEN s ELSE IF far THEN Dismiss(let, t) ELSE let

\* _onDragEnd lets go of the toast dragged, if there is one, swiped far enough or not.
_onDragEnd(s, far) ==
    LET t == s.dragged
        let == [s EXCEPT !.panning[t] = FALSE, !.dragged = NoToast]
    IN  IF t = NoToast THEN s ELSE IF far THEN Dismiss(let, t) ELSE let

\* The bound on the animations: a toast is swiped away twice at the most.
MayBeSwiped(far) == far => ts.dragged # NoToast /\ ts.leaving[ts.dragged] < 2

\* A finger or the mouse leaves toast t, which the page hears of as long as the toast is in
\* its container, also a detached one, or the document still listens to the mouse.
LetGo(t, far) ==
    /\ ts.held[t] > 0
    /\ ts.place[t] # "none" \/ ts.container
    /\ MayBeSwiped(far)
    /\ Steps("Toasts", _onDragEnd([ts EXCEPT !.held[t] = @ - 1], far))

\* It does not hear of a touch that is cancelled, or that ends on a toast that has gone.
LetGoUnheard(t) ==
    /\ ts.held[t] > 0
    /\ TouchIsCancelled \/ ts.place[t] = "none"
    /\ Steps("Toasts", [ts EXCEPT !.held[t] = @ - 1, !.crossed = TRUE])

\* The mouse is released elsewhere in the document.
MouseUp(far) ==
    /\ ts.container /\ ts.dragged # NoToast
    /\ MayBeSwiped(far)
    /\ Steps("Toasts", _onDragEnd(ts, far))

FingerLeaves(t) == LetGoUnheard(t) \/ \E far \in BOOLEAN : LetGo(t, far)

ToastsStep ==
    \/ \E t \in ToastNames :
         MakeToast(t) \/ Tick(t) \/ Left(t) \/ _onDragStart(t) \/ FingerLeaves(t)
    \/ \E far \in BOOLEAN : MouseUp(far)

\* The timers and the animations go on, a timer for long enough between two touches to turn.
\* No finger stays on a toast: it leaves, heard of or not.
ToastsFairness ==
    \A t \in ToastNames :
      /\ SF_pageVars(OnPage("Toasts") /\ Tick(t))
      /\ WF_pageVars(OnPage("Toasts") /\ Left(t))
      /\ WF_pageVars(OnPage("Toasts") /\ FingerLeaves(t))

-----------------------------------------------------------------------------
(* What toasts promise                                                      *)

\* The list is of the toasts in the page, and there is a container when there are any, as
\* long as no toast is dismissed that leaves or has left.
ToastsAreListed ==
    ~ts.again =>
      /\ ToSet(ts.toasts) = {t \in ToastNames : ts.place[t] = "page"}
      /\ IsInjective(ts.toasts)
      /\ ts.container <=> ts.toasts # <<>>

Shown(t) == OnPage("Toasts") /\ ts.place[t] = "page"

\* A toast whose timer runs is in the page, whatever other toasts do.
ToastsStayTheirTime ==
    OnPage("Toasts") => \A t \in ToastNames : ts.timer[t] => Shown(t)

\* No finger is on the toast, and yet it takes itself to be dragged, as it does once two
\* fingers touched toasts or one left unheard of: its time does not run.
Stranded(t) == ts.crossed /\ ts.panning[t] /\ ts.held[t] = 0

\* A toast that is shown goes away, by itself or dismissed, unless it is left stranded.
ToastsGo ==
    \A t \in ToastNames : Shown(t) ~> ~Shown(t) \/ (OnPage("Toasts") /\ Stranded(t))
=============================================================================
