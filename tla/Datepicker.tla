----------------------------- MODULE Datepicker -----------------------------
(***************************************************************************)
(* A calendar in a dialog from which the date of a field is picked, class  *)
(* Datepicker of materialize.js.  Months are counted from 0, as in the     *)
(* code.  The Date of JavaScript is external: its calendar is given below  *)
(* by the number of days before a date.                                    *)
(***************************************************************************)
EXTENDS Modal

CONSTANTS
    Years,        \* bound: the years the calendar is turned to
    Dates,        \* bound: the dates that are picked or typed
    DateRanges,   \* options minDate and maxDate, [min, max]
    FirstDays,    \* option firstDay, 0 for Sunday
    NoDate        \* no date, or a text that is not one

\* new Date(year, month, day) takes the years 0 to 99 for those from 1900 on: a calendar is of a
\* later year.
ASSUME DatepickerAssumption ==
    /\ NoDate \notin Dates
    /\ Years \subseteq Nat /\ \A y \in Years : y >= 100
    /\ FirstDays \subseteq 0 .. 6
    /\ \A d \in Dates : d \in [year : Years, month : 0 .. 11, day : 1 .. 31]
    /\ \A r \in DateRanges : r \in [min : Dates \cup {NoDate}, max : Dates \cup {NoDate}]

picker == widget["Datepicker"]

DatepickerTypeOK ==
    picker \in [firstDay : 0 .. 6, weekends : BOOLEAN,      \* options: disableWeekends
                autoClose : BOOLEAN, outside : BOOLEAN,     \* showDaysInNextAndPreviousMonths
                range : DateRanges,
                isOpen : BOOLEAN, modal : DialogStates,
                year : Years, month : 0 .. 11,              \* calendars[0]
                date : Dates \cup {NoDate},
                value : Dates \cup {NoDate},                \* of the field
                typed : BOOLEAN]          \* history: the date was typed, not picked

-----------------------------------------------------------------------------
(* Dates                                                                    *)

\* The Date of JavaScript: how many days a date is after the first of its calendar.
DaysBeforeYear(year) ==
    LET y == year - 1 IN 365 * y + y \div 4 - y \div 100 + y \div 400
DaysBeforeMonth == <<0, 31, 59, 90, 120, 151, 181, 212, 243, 273, 304, 334>>
DayNumber(d) ==
    LET long == DaysBeforeYear(d.year + 1) - DaysBeforeYear(d.year) = 366 IN
    DaysBeforeYear(d.year) + DaysBeforeMonth[d.month + 1] + d.day
      + (IF long /\ d.month > 1 THEN 1 ELSE 0)
WeekDay(n) == n % 7                   \* getDay of day number n

_isLeapYear(year) == (year % 4 = 0 /\ year % 100 # 0) \/ year % 400 = 0

_getDaysInMonth(year, month) ==
    <<31, IF _isLeapYear(year) THEN 29 ELSE 28, 31, 30, 31, 30, 31, 31, 30, 31, 30, 31>>[month + 1]

Earlier(d, e) == DayNumber(d) < DayNumber(e)

\* The code takes minDate and maxDate to be in order.
ASSUME DateRangesAssumption ==
    \A r \in DateRanges : r.min # NoDate /\ r.max # NoDate => ~Earlier(r.max, r.min)

\* A date as setDate brings it into the range
InRange(range, d) ==
    IF range.min # NoDate /\ Earlier(d, range.min) THEN range.min
    ELSE IF range.max # NoDate /\ Earlier(range.max, d) THEN range.max ELSE d

\* isDisabled, of day number n
IsDisabled(p, n) ==
    \/ p.range.min # NoDate /\ n < DayNumber(p.range.min)
    \/ p.range.max # NoDate /\ n > DayNumber(p.range.max)
    \/ p.weekends /\ WeekDay(n) \in {0, 6}

-----------------------------------------------------------------------------
(* The calendar                                                             *)

\* adjustCalendar
adjustCalendar(p, month) ==
    IF month < 0 THEN [p EXCEPT !.year = @ - 1, !.month = month + 12]
    ELSE IF month > 11 THEN [p EXCEPT !.year = @ + 1, !.month = month - 12]
    ELSE [p EXCEPT !.month = month]

\* gotoDate: a calendar of one month is turned if the date is not in it.
gotoDate(p, d) == [p EXCEPT !.year = d.year, !.month = d.month]

FirstOf(p) == [year |-> p.year, month |-> p.month, day |-> 1]

\* How many cells come before the first of the month
Before(p) == (WeekDay(DayNumber(FirstOf(p))) - p.firstDay) % 7

\* The date that render writes into cell i
CellDate(p, i) ==
    LET dayNumber == 1 + i - Before(p)
        days == _getDaysInMonth(p.year, p.month)
        previous == adjustCalendar(p, p.month - 1)
        next == adjustCalendar(p, p.month + 1)
        at(q, day) == [year |-> q.year, month |-> q.month, day |-> day]
    IN IF dayNumber < 1
       THEN at(previous, _getDaysInMonth(previous.year, previous.month) + dayNumber)
       ELSE IF dayNumber > days THEN at(next, dayNumber - days) ELSE at(p, dayNumber)

\* The cells of render, in whole weeks
Cells(p) == 0 .. 7 * ((_getDaysInMonth(p.year, p.month) + Before(p) + 6) \div 7) - 1

\* renderDay: a day of another month has a button only if it is to be shown.
HasButton(p, i) == p.outside \/ CellDate(p, i).month = p.month

-----------------------------------------------------------------------------
\* setDate, and setInputValue
setDate(p, d) == gotoDate([p EXCEPT !.date = InRange(p.range, d)], InRange(p.range, d))
setInputValue(p) == [p EXCEPT !.value = p.date]

\* The constructor: the field may hold a date, which is selected by setDefaultDate.
DatepickerInit ==
    LET new(d, firstDay, weekends, autoClose, range) ==
            [firstDay |-> firstDay, weekends |-> weekends, autoClose |-> autoClose,
             outside |-> ~autoClose, range |-> range, isOpen |-> FALSE, modal |-> "closed",
             year |-> d.year, month |-> d.month, date |-> NoDate, value |-> d,
             typed |-> FALSE]
        some == {new(d, firstDay, weekends, autoClose, range) :
                   d \in Dates, firstDay \in FirstDays, weekends, autoClose \in BOOLEAN,
                   range \in DateRanges}
    IN some \cup {[setInputValue(setDate(p, p.value)) EXCEPT !.typed = TRUE] : p \in some}

DatepickerBecomes(p) == p.year \in Years /\ PickerBecomes("Datepicker", p)

\* _handleInputClick, and the enter key; draw renders the calendar.
ClickDateField == picker.modal # "open" /\ DatepickerBecomes(OpenPicker(picker))

\* _finishSelection
Finished(p) == ClosePicker(setInputValue(p))

\* _handleCalendarClick
CalendarHears == picker.isOpen /\ picker.modal # "closed"

PickDay(i) ==
    LET d == CellDate(picker, i)
        picked == [setDate(picker, d) EXCEPT !.typed = FALSE]
    IN
    /\ CalendarHears
    /\ HasButton(picker, i) /\ d \in Dates
    /\ ~IsDisabled(picker, DayNumber(FirstOf(picker)) + i - Before(picker))
    /\ DatepickerBecomes(IF picker.autoClose THEN Finished(picked) ELSE picked)
TurnMonth(by) == CalendarHears /\ DatepickerBecomes(adjustCalendar(picker, picker.month + by))

\* _handleMonthChange and _handleYearChange
SelectMonth(month) == CalendarHears /\ DatepickerBecomes(adjustCalendar(picker, month))
SelectYear(year) == CalendarHears /\ DatepickerBecomes([picker EXCEPT !.year = year])

\* The buttons: done, cancel and _handleClearClick
ClickDone == picker.modal # "closed" /\ DatepickerBecomes(Finished(picker))
ClickCancel == picker.modal # "closed" /\ DatepickerBecomes(ClosePicker(picker))
ClickClear ==
    /\ picker.modal # "closed"
    /\ DatepickerBecomes(ClosePicker([picker EXCEPT !.date = NoDate, !.value = NoDate]))

\* _handleInputChange: what is typed stays in the field as it is.
TypeDate(text) ==
    /\ picker.modal # "open"
    /\ DatepickerBecomes(
         IF text \in Dates THEN [setDate(picker, text) EXCEPT !.value = text, !.typed = TRUE]
         ELSE [picker EXCEPT !.value = text])

DatepickerStep ==
    \/ ClickDateField \/ ClickDone \/ ClickCancel \/ ClickClear
    \/ CalendarHears /\ \E i \in Cells(picker) : PickDay(i)
    \/ \E by \in {-1, 1} : TurnMonth(by)
    \/ \E month \in 0 .. 11 : SelectMonth(month)
    \/ \E year \in Years : SelectYear(year)
    \/ \E text \in Dates \cup {NoDate} : TypeDate(text)
    \/ DismissDialog("Datepicker") \/ DialogClosed("Datepicker")

-----------------------------------------------------------------------------
\* The calendar is right: whole weeks from the first day of the week on, each cell the day
\* after the one before it, through leap years and the turns of years, and no day of the month
\* is left out.
CalendarIsTrue(p) ==
    LET first == DayNumber(FirstOf(p)) - Before(p)
        last == DayNumber(adjustCalendar(FirstOf(p), p.month + 1)) - 1
    IN /\ WeekDay(first) = p.firstDay
       /\ \A i \in Cells(p) : DayNumber(CellDate(p, i)) = first + i
       /\ first + Cardinality(Cells(p)) - 1 \in last .. last + 6
       /\ Cardinality(Cells(p)) % 7 = 0

\* The date is in the range of the options, and was not disabled when it was picked.
DateMayBePicked(p) ==
    p.date # NoDate => /\ p.date = InRange(p.range, p.date)
                       /\ p.typed \/ ~IsDisabled(p, DayNumber(p.date))

DatepickerShowsState ==
    DialogAgrees(picker) /\ CalendarIsTrue(picker) /\ DateMayBePicked(picker)
=============================================================================
