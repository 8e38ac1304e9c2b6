----------------------------- MODULE Timepicker -----------------------------
(***************************************************************************)
(* A clock in a dialog from which the time of a field is picked, class     *)
(* Timepicker of materialize.js: the hour on one dial, then the minute on  *)
(* another.  An angle of a hand is given in minutes, 60 just before a full *)
(* turn; the hours 1 to 12 of a clock of 24 are on an inner ring.          *)
(***************************************************************************)
EXTENDS Modal

CONSTANTS
    Angles,       \* bound: where a dial is touched
    TypedTimes,   \* bound: times that are typed, [hours, minutes, half]
    DefaultTime,  \* the option defaultTime, one of them
    NoTime,
    MaxResets     \* bound: timers of each kind that run at once

ASSUME TimepickerAssumption ==
    /\ Angles \subseteq 0 .. 60 /\ MaxResets \in Nat
    /\ NoTime \notin TypedTimes /\ DefaultTime \in TypedTimes
    /\ \A t \in TypedTimes :
         t \in [hours : 0 .. 23, minutes : 0 .. 59, half : {"AM", "PM", "none"}]

clock == widget["Timepicker"]

Times == [hours : 0 .. 23, minutes : 0 .. 59, half : {"AM", "PM", "none"}]

TimepickerTypeOK ==
    clock \in [twelveHour : BOOLEAN, autoClose : BOOLEAN,          \* options
               isOpen : BOOLEAN, modal : DialogStates,
               hours : 0 .. 23, minutes : 0 .. 59, amOrPm : {"AM", "PM"},
               currentView : {"hours", "minutes"},
               visible : SUBSET {"hours", "minutes"},       \* dials
               toggling : BOOLEAN,                          \* toggleViewTimer
               resets : Seq(0 .. 59),                       \* timers of resetClock
               dones : 0 .. MaxResets,                      \* timers that call done
               pressing : BOOLEAN,                          \* the dial is held
               value : Times \cup {NoTime},                 \* of the field
               misread : BOOLEAN,   \* history: the clock took another time than it was given
               late : BOOLEAN]      \* history: a timer turned a hand the user had turned

TimepickerInit ==
    {[twelveHour |-> twelveHour, autoClose |-> autoClose,
      isOpen |-> FALSE, modal |-> "closed", hours |-> 0, minutes |-> 0, amOrPm |-> "PM",
      currentView |-> "hours", visible |-> {"hours"}, toggling |-> FALSE, resets |-> <<>>,
      dones |-> 0, pressing |-> FALSE, value |-> NoTime, misread |-> FALSE,
      late |-> FALSE] :
        twelveHour, autoClose \in BOOLEAN}

-----------------------------------------------------------------------------
(* The hands                                                                *)

\* setHand: the value on the dial in view at an angle, on the inner ring or not
setHand(c, angle, inner) ==
    LET twelfth == (angle + 2) \div 5
        hour == IF c.twelveHour THEN IF twelfth = 0 THEN 12 ELSE twelfth
                ELSE IF inner THEN IF twelfth % 12 = 0 THEN 12 ELSE twelfth % 12
                ELSE IF twelfth % 12 = 0 THEN 0 ELSE (twelfth % 12) + 12
    IN IF c.currentView = "hours" THEN [c EXCEPT !.hours = hour]
       ELSE [c EXCEPT !.minutes = IF angle = 60 THEN 0 ELSE angle]

\* resetClock without a delay
ResetHand(c) ==
    IF c.currentView = "hours" THEN setHand(c, (5 * c.hours) % 60, c.hours \in 1 .. 12)
    ELSE setHand(c, c.minutes, FALSE)

\* showView; with a delay the hand comes later, to where the value is now.
InView(c, view) ==
    [c EXCEPT !.currentView = view, !.visible = @ \cup {view}, !.toggling = TRUE]
showView(c, view) == ResetHand(InView(c, view))
ShowMinutesLater(c) == [InView(c, "minutes") EXCEPT !.resets = Append(@, c.minutes)]

ClockBecomes(c) == Len(c.resets) <= MaxResets /\ c.dones <= MaxResets
                     /\ PickerBecomes("Timepicker", c)

\* toggleViewTimer: the dial that was in view before is hidden.
ToggleViewTimer ==
    /\ clock.toggling
    /\ ClockBecomes([clock EXCEPT !.toggling = FALSE, !.visible = {clock.currentView}])

\* The timer of resetClock turns the hand of whatever dial is in view.
ResetHandTimer ==
    /\ clock.resets # <<>>
    /\ LET turned == setHand(clock, Head(clock.resets), FALSE) IN
       ClockBecomes([turned EXCEPT !.resets = Tail(@),
                                   !.late = @ \/ turned # clock])

-----------------------------------------------------------------------------
(* Choosing a time                                                          *)

\* What is printed at an angle: _buildHoursView and _buildMinutesView
HourPrinted(c, angle, inner) ==
    CHOOSE hour \in IF c.twelveHour THEN 1 .. 12
                    ELSE {h \in 0 .. 23 : h \in 1 .. 12 <=> inner} :
        (angle - 5 * hour + 2) % 60 \in 0 .. 4

TouchDial(angle, inner) ==
    LET c == setHand(clock, angle, inner) IN
    /\ clock.modal # "closed"
    /\ ClockBecomes(
         [c EXCEPT !.pressing = TRUE,
                   !.misread = @ \/ IF c.currentView = "hours"
                                    THEN c.hours # HourPrinted(c, angle, inner)
                                    ELSE c.minutes # angle % 60])

\* _handleDocumentClickEnd
ReleaseDial ==
    LET c == [clock EXCEPT !.pressing = FALSE] IN
    /\ clock.pressing
    /\ ClockBecomes(IF c.currentView = "hours" THEN ShowMinutesLater(c)
                    ELSE IF c.autoClose THEN [c EXCEPT !.dones = @ + 1] ELSE c)

\* The number of the hours or of the minutes above the dial is clicked: no hand turns.
ClickView(view) ==
    LET c == showView(clock, view) IN
    /\ clock.modal # "closed"
    /\ ClockBecomes([c EXCEPT !.misread = @ \/ c.hours # clock.hours
                                           \/ c.minutes # clock.minutes])

\* _handleAmPmClick
ClickHalf(half) ==
    /\ clock.modal # "closed" /\ clock.twelveHour
    /\ ClockBecomes([clock EXCEPT !.amOrPm = half])

-----------------------------------------------------------------------------
(* The field and the dialog                                                 *)

TextRead(c) == IF c.value = NoTime THEN DefaultTime ELSE c.value

\* _updateTimeFromInput: of a clock of twelve a text without a half is of the afternoon.
FromInput(c) ==
    LET text == TextRead(c) IN
    [c EXCEPT !.hours = text.hours, !.minutes = text.minutes,
              !.amOrPm = IF ~c.twelveHour THEN @ ELSE IF text.half = "AM" THEN "AM" ELSE "PM"]

\* The time a text stands for, as the clock shows it: without a half it is of a day of 24 hours.
Meaning(c, text) ==
    [hours |-> IF ~c.twelveHour THEN text.hours
               ELSE IF text.hours % 12 = 0 THEN 12 ELSE text.hours % 12,
     minutes |-> text.minutes,
     half |-> IF ~c.twelveHour THEN c.amOrPm
              ELSE IF text.half # "none" THEN text.half
              ELSE IF text.hours < 12 THEN "AM" ELSE "PM"]

\* The clock that is opened, and what it made of the text; that it may take the other half of the
\* day when the text names none is left aside.
ClockOpened(c) ==
    LET shown == showView(c, "hours")
        meant == Meaning(c, TextRead(c))
        other == TextRead(c).half = "none" /\ c.amOrPm # meant.half
    IN [shown EXCEPT !.misread = \/ shown.hours # meant.hours
                                 \/ shown.minutes # meant.minutes
                                 \/ ~other /\ c.amOrPm # meant.half,
                     !.late = FALSE]

\* open
ClickTimeField ==
    /\ clock.modal # "open"
    /\ ClockBecomes(IF clock.isOpen THEN clock ELSE ClockOpened(FromInput(OpenPicker(clock))))

\* done, and clear
Done(c) ==
    ClosePicker([c EXCEPT !.value = [hours |-> c.hours, minutes |-> c.minutes,
                                     half |-> IF c.twelveHour THEN c.amOrPm ELSE "none"]])

ClickOk == clock.modal # "closed" /\ ClockBecomes(Done(clock))
ClickCancelTime == clock.modal # "closed" /\ ClockBecomes(ClosePicker(clock))
ClickClearTime ==
    clock.modal # "closed" /\ ClockBecomes(ClosePicker([clock EXCEPT !.value = NoTime]))

\* The timer of autoClose, whether the dialog was cancelled meanwhile or not
DoneTimer == clock.dones > 0 /\ ClockBecomes(Done([clock EXCEPT !.dones = @ - 1]))

TypeTime ==
    /\ clock.modal = "closed"
    /\ \E text \in {t \in TypedTimes : clock.twelveHour \/ t.half = "none"} \cup {NoTime} :
         ClockBecomes([clock EXCEPT !.value = text])

TimepickerStep ==
    \/ \E angle \in Angles, inner \in BOOLEAN : TouchDial(angle, inner)
    \/ ReleaseDial \/ \E view \in {"hours", "minutes"} : ClickView(view)
    \/ \E half \in {"AM", "PM"} : ClickHalf(half)
    \/ ClickTimeField \/ ClickOk \/ ClickCancelTime \/ ClickClearTime \/ TypeTime
    \/ ToggleViewTimer \/ ResetHandTimer \/ DoneTimer
    \/ DismissDialog("Timepicker") \/ DialogClosed("Timepicker")

-----------------------------------------------------------------------------
\* The open clock takes the time in the field, and then what is printed where the dials are
\* touched, on a clock of 12 as of 24 hours, unless a timer turned a hand too late; but a clock of
\* 12 hours may take the other half of the day of a text that names none.  At rest one dial is to be seen, the
\* one in view.
TimepickerShowsState ==
    /\ DialogAgrees(clock)
    /\ ~clock.toggling => clock.visible = {clock.currentView}
    /\ clock.isOpen /\ ~clock.late => ~clock.misread
=============================================================================
