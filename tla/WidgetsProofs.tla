---------------------------- MODULE WidgetsProofs ---------------------------
(***************************************************************************)
(* Theorems about Widgets: types, that a widget at rest shows its state,   *)
(* that lists, counts and handlers agree, and that the body scrolls when   *)
(* nothing lies over it, whatever widgets a page has.  First the           *)
(* inductive invariants of the datepicker, the carousel, the tabs and the  *)
(* scrollspy, then that of the page.                                       *)
(***************************************************************************)
EXTENDS ControlsProofs

-----------------------------------------------------------------------------
(* The calendar                                                             *)

\* A year after n of which 1 is divisible by k
LEMMA NextMultiple ==
    ASSUME NEW k \in {4, 100, 400}, NEW y \in Nat
    PROVE  y \div k \in Int /\ (y - 1) \div k = (y \div k) - (IF y % k = 0 THEN 1 ELSE 0)
<1>1. CASE k = 4 BY <1>1
<1>2. CASE k = 100 BY <1>2
<1>3. CASE k = 400 BY <1>3
<1> QED BY <1>1, <1>2, <1>3

LEMMA YearLength ==
    ASSUME NEW y \in Nat
    PROVE  /\ DaysBeforeYear(y) \in Int
           /\ DaysBeforeYear(y + 1) = DaysBeforeYear(y) + (IF _isLeapYear(y) THEN 366 ELSE 365)
<1>1. PICK a \in Int, b \in Int, c \in Int :
        a = y \div 4 /\ b = y \div 100 /\ c = y \div 400
  BY NextMultiple
<1>2. /\ (y - 1) \div 4 = a - (IF y % 4 = 0 THEN 1 ELSE 0)
      /\ (y - 1) \div 100 = b - (IF y % 100 = 0 THEN 1 ELSE 0)
      /\ (y - 1) \div 400 = c - (IF y % 400 = 0 THEN 1 ELSE 0)
  BY <1>1, NextMultiple
<1>3. (y % 400 = 0 => y % 100 = 0) /\ (y % 100 = 0 => y % 4 = 0) OBVIOUS
<1>4. DaysBeforeYear(y + 1) = 365 * y + a - b + c
  <2>1. (y + 1) - 1 = y OBVIOUS
  <2> QED BY <1>1, <2>1 DEF DaysBeforeYear
<1>5. DaysBeforeYear(y)
        = 365 * (y - 1) + (a - (IF y % 4 = 0 THEN 1 ELSE 0)) - (b - (IF y % 100 = 0 THEN 1 ELSE 0))
            + (c - (IF y % 400 = 0 THEN 1 ELSE 0))
  BY <1>2 DEF DaysBeforeYear
<1>6. CASE _isLeapYear(y) BY <1>3, <1>4, <1>5, <1>6 DEF _isLeapYear
<1>7. CASE ~_isLeapYear(y) BY <1>3, <1>4, <1>5, <1>7 DEF _isLeapYear
<1> QED BY <1>6, <1>7

\* The days before the first of a month
DaysBefore(y, m) ==
    DaysBeforeYear(y) + DaysBeforeMonth[m + 1] + (IF _isLeapYear(y) /\ m > 1 THEN 1 ELSE 0)

LEMMA MonthsAre ==
    ASSUME NEW m \in 0 .. 11
    PROVE  DaysBeforeMonth[m + 1] \in Int
<1>1. \/ m = 0 \/ m = 1 \/ m = 2 \/ m = 3 \/ m = 4 \/ m = 5 \/ m = 6 \/ m = 7 \/ m = 8 \/ m = 9
      \/ m = 10 \/ m = 11
  OBVIOUS
<1> QED BY <1>1 DEF DaysBeforeMonth

LEMMA DayNumberIs ==
    ASSUME NEW y \in Nat, NEW m \in 0 .. 11, NEW n \in Int
    PROVE  /\ DayNumber([year |-> y, month |-> m, day |-> n]) = DaysBefore(y, m) + n
           /\ DaysBefore(y, m) \in Int
<1>1. PICK d : d = [year |-> y, month |-> m, day |-> n] OBVIOUS
<1>2. d.year = y /\ d.month = m /\ d.day = n BY <1>1
<1>3. PICK a \in Int, b \in Int : a = DaysBeforeYear(y) /\ b = DaysBeforeMonth[m + 1]
  BY YearLength, MonthsAre
<1>4. PICK long \in BOOLEAN : long <=> DaysBeforeYear(y + 1) - DaysBeforeYear(y) = 366 OBVIOUS
<1>5. long <=> _isLeapYear(y) BY <1>3, <1>4, YearLength
<1>6. DayNumber(d) = a + b + n + (IF long /\ m > 1 THEN 1 ELSE 0)
  BY <1>2, <1>3, <1>4 DEF DayNumber
<1>7. DaysBefore(y, m) = a + b + (IF long /\ m > 1 THEN 1 ELSE 0)
  BY <1>3, <1>5 DEF DaysBefore
<1> QED BY <1>1, <1>3, <1>6, <1>7

\* A month is as long as it takes to the first of the next.
LEMMA MonthLength ==
    ASSUME NEW y \in Nat, NEW m \in 0 .. 11
    PROVE  /\ _getDaysInMonth(y, m) \in 28 .. 31
           /\ m < 11 => DaysBefore(y, m + 1) = DaysBefore(y, m) + _getDaysInMonth(y, m)
           /\ m = 11 => DaysBefore(y + 1, 0) = DaysBefore(y, m) + _getDaysInMonth(y, m)
<1>1. PICK leap \in BOOLEAN : leap <=> _isLeapYear(y) OBVIOUS
<1>2. PICK a \in Int : a = DaysBeforeYear(y) BY YearLength
<1>3. DaysBeforeYear(y + 1) = a + (IF leap THEN 366 ELSE 365) BY <1>1, <1>2, YearLength
<1>4. \A k \in 0 .. 11 : DaysBefore(y, k) = a + DaysBeforeMonth[k + 1] + (IF leap /\ k > 1 THEN 1 ELSE 0)
  BY <1>1, <1>2 DEF DaysBefore
<1>5. DaysBefore(y + 1, 0) = DaysBeforeYear(y + 1) + 0
  <2>1. DaysBeforeMonth[0 + 1] = 0 BY DEF DaysBeforeMonth
  <2> QED BY <1>2, <1>3, <2>1 DEF DaysBefore
<1>6. /\ m = 0 => _getDaysInMonth(y, m) = 31
      /\ m = 1 => _getDaysInMonth(y, m) = IF leap THEN 29 ELSE 28
      /\ m = 2 => _getDaysInMonth(y, m) = 31
      /\ m = 3 => _getDaysInMonth(y, m) = 30
      /\ m = 4 => _getDaysInMonth(y, m) = 31
      /\ m = 5 => _getDaysInMonth(y, m) = 30
      /\ m = 6 => _getDaysInMonth(y, m) = 31
      /\ m = 7 => _getDaysInMonth(y, m) = 31
      /\ m = 8 => _getDaysInMonth(y, m) = 30
      /\ m = 9 => _getDaysInMonth(y, m) = 31
      /\ m = 10 => _getDaysInMonth(y, m) = 30
      /\ m = 11 => _getDaysInMonth(y, m) = 31
  BY <1>1 DEF _getDaysInMonth
<1>7. /\ DaysBeforeMonth[1] = 0 /\ DaysBeforeMonth[2] = 31 /\ DaysBeforeMonth[3] = 59
      /\ DaysBeforeMonth[4] = 90 /\ DaysBeforeMonth[5] = 120 /\ DaysBeforeMonth[6] = 151
      /\ DaysBeforeMonth[7] = 181 /\ DaysBeforeMonth[8] = 212 /\ DaysBeforeMonth[9] = 243
      /\ DaysBeforeMonth[10] = 273 /\ DaysBeforeMonth[11] = 304 /\ DaysBeforeMonth[12] = 334
  BY DEF DaysBeforeMonth
<1>8. \/ m = 0 \/ m = 1 \/ m = 2 \/ m = 3 \/ m = 4 \/ m = 5 \/ m = 6 \/ m = 7 \/ m = 8 \/ m = 9
      \/ m = 10 \/ m = 11
  OBVIOUS
<1>9. _getDaysInMonth(y, m) \in 28 .. 31 BY <1>6, <1>8
<1>10. ASSUME m = 11 PROVE DaysBefore(y + 1, 0) = DaysBefore(y, m) + _getDaysInMonth(y, m)
  BY <1>3, <1>4, <1>5, <1>6, <1>7, <1>10
<1>11. ASSUME m < 11 PROVE DaysBefore(y, m + 1) = DaysBefore(y, m) + _getDaysInMonth(y, m)
  <2>1. m + 1 \in 0 .. 11 /\ (m + 1) + 1 = m + 2 BY <1>11
  <2>2. DaysBefore(y, m + 1)
          = a + DaysBeforeMonth[m + 2] + (IF leap /\ m + 1 > 1 THEN 1 ELSE 0)
    BY <1>4, <2>1
  <2> QED BY <1>4, <1>6, <1>7, <1>8, <1>11, <2>2
<1> QED BY <1>9, <1>10, <1>11

-----------------------------------------------------------------------------
(* The cells of the calendar                                                *)

PickerStates ==
    [firstDay : 0 .. 6, weekends : BOOLEAN, autoClose : BOOLEAN, outside : BOOLEAN,
     range : DateRanges, isOpen : BOOLEAN, modal : DialogStates, year : Years, month : 0 .. 11,
     date : Dates \cup {NoDate}, value : Dates \cup {NoDate}, typed : BOOLEAN]

\* The year and the month to which a calendar is turned
LEMMA AdjustIs ==
    ASSUME NEW p, "year" \in DOMAIN p, "month" \in DOMAIN p, p.year \in Nat,
           NEW month \in -1 .. 12
    PROVE  LET q == adjustCalendar(p, month) IN
           /\ month < 0 => q.year = p.year - 1 /\ q.month = 11
           /\ month > 11 => q.year = p.year + 1 /\ q.month = 0
           /\ month \in 0 .. 11 => q.year = p.year /\ q.month = month
<1>1. PICK q : q = adjustCalendar(p, month) OBVIOUS
<1>2. ASSUME month < 0 PROVE q.year = p.year - 1 /\ q.month = 11
  <2>1. q = [p EXCEPT !.year = p.year - 1, !.month = month + 12] BY <1>1, <1>2 DEF adjustCalendar
  <2>2. month + 12 = 11 BY <1>2
  <2> QED BY <2>1, <2>2
<1>3. ASSUME month > 11 PROVE q.year = p.year + 1 /\ q.month = 0
  <2>1. q = [p EXCEPT !.year = p.year + 1, !.month = month - 12]
    BY <1>1, <1>3 DEF adjustCalendar
  <2>2. month - 12 = 0 BY <1>3
  <2> QED BY <2>1, <2>2
<1>4. ASSUME month \in 0 .. 11 PROVE q.year = p.year /\ q.month = month
  <2>1. q = [p EXCEPT !.month = month] BY <1>1, <1>4 DEF adjustCalendar
  <2> QED BY <2>1
<1>5. /\ month < 0 => q.year = p.year - 1 /\ q.month = 11
      /\ month > 11 => q.year = p.year + 1 /\ q.month = 0
      /\ month \in 0 .. 11 => q.year = p.year /\ q.month = month
  BY <1>2, <1>3, <1>4
<1> QED BY <1>1, <1>5

LEMMA PickerHas ==
    ASSUME NEW p \in PickerStates
    PROVE  /\ "year" \in DOMAIN p /\ "month" \in DOMAIN p /\ p.year \in Nat \ {0} /\ p.month \in 0 .. 11
           /\ "year" \in DOMAIN FirstOf(p) /\ "month" \in DOMAIN FirstOf(p)
           /\ FirstOf(p).year = p.year /\ FirstOf(p).month = p.month
           /\ DayNumber(FirstOf(p)) = DaysBefore(p.year, p.month) + 1
           /\ DaysBefore(p.year, p.month) \in Int
<1>1. p.year \in Nat \ {0} /\ p.month \in 0 .. 11
  <2>1. p.year \in Years /\ p.month \in 0 .. 11 BY DEF PickerStates
  <2>2. PICK year \in Years : year = p.year BY <2>1
  <2>3. year \in Nat /\ year >= 100 BY DatepickerAssumption
  <2>4. year \in Nat \ {0} BY <2>3
  <2> QED BY <2>1, <2>2, <2>4
<1>2. "year" \in DOMAIN p /\ "month" \in DOMAIN p BY DEF PickerStates
<1>3. /\ "year" \in DOMAIN FirstOf(p) /\ "month" \in DOMAIN FirstOf(p)
      /\ FirstOf(p).year = p.year /\ FirstOf(p).month = p.month
  BY DEF FirstOf
<1>4. /\ DayNumber(FirstOf(p)) = DaysBefore(p.year, p.month) + 1
      /\ DaysBefore(p.year, p.month) \in Int
  BY <1>1, DayNumberIs DEF FirstOf
<1> QED BY <1>1, <1>2, <1>3, <1>4

\* The month before, at the end of which the first cells are
LEMMA MonthBefore ==
    ASSUME NEW p \in PickerStates
    PROVE  LET q == adjustCalendar(p, p.month - 1) IN
           /\ q.year \in Nat /\ q.month \in 0 .. 11
           /\ DaysBefore(p.year, p.month)
                = DaysBefore(q.year, q.month) + _getDaysInMonth(q.year, q.month)
<1>1. PICK y \in Nat \ {0}, m \in 0 .. 11 : y = p.year /\ m = p.month BY PickerHas
<1>2. PICK q : q = adjustCalendar(p, m - 1) OBVIOUS
<1>3. /\ m - 1 < 0 => q.year = y - 1 /\ q.month = 11
      /\ m - 1 \in 0 .. 11 => q.year = y /\ q.month = m - 1
  <2>1. p.year \in Nat /\ m - 1 \in -1 .. 12 BY <1>1
  <2> QED BY <1>1, <1>2, <2>1, PickerHas, AdjustIs
<1>4. CASE m = 0
  <2>1. q.year = y - 1 /\ q.month = 11 /\ y - 1 \in Nat /\ (y - 1) + 1 = y BY <1>3, <1>4
  <2>2. PICK x \in Nat : x = y - 1 BY <2>1
  <2>3. DaysBefore(x + 1, 0) = DaysBefore(x, 11) + _getDaysInMonth(x, 11) BY MonthLength
  <2>4. x + 1 = y BY <2>1, <2>2
  <2>5. DaysBefore(y, 0) = DaysBefore(x, 11) + _getDaysInMonth(x, 11) BY <2>3, <2>4
  <2> QED BY <1>1, <1>2, <1>4, <2>1, <2>2, <2>5
<1>5. CASE m # 0
  <2>1. PICK k \in 0 .. 11 : k = m - 1 /\ k < 11 /\ k + 1 = m BY <1>5
  <2>2. q.year = y /\ q.month = k BY <1>3, <2>1
  <2>3. DaysBefore(y, k + 1) = DaysBefore(y, k) + _getDaysInMonth(y, k) BY <2>1, MonthLength
  <2>4. DaysBefore(y, m) = DaysBefore(y, k) + _getDaysInMonth(y, k) BY <2>1, <2>3
  <2> QED BY <1>1, <1>2, <2>2, <2>4
<1> QED BY <1>4, <1>5

\* The month after, in which the last cells are
LEMMA MonthAfter ==
    ASSUME NEW p \in PickerStates, NEW r, "year" \in DOMAIN r, "month" \in DOMAIN r,
           r.year = p.year, r.month = p.month
    PROVE  LET q == adjustCalendar(r, p.month + 1) IN
           /\ q.year \in Nat /\ q.month \in 0 .. 11
           /\ DaysBefore(q.year, q.month)
                = DaysBefore(p.year, p.month) + _getDaysInMonth(p.year, p.month)
<1>1. PICK y \in Nat \ {0}, m \in 0 .. 11 : y = p.year /\ m = p.month BY PickerHas
<1>2. PICK q : q = adjustCalendar(r, m + 1) OBVIOUS
<1>3. /\ m + 1 > 11 => q.year = y + 1 /\ q.month = 0
      /\ m + 1 \in 0 .. 11 => q.year = y /\ q.month = m + 1
  <2>1. r.year \in Nat /\ m + 1 \in -1 .. 12 BY <1>1
  <2> QED BY <1>1, <1>2, <2>1, AdjustIs
<1>4. CASE m = 11
  <2>1. q.year = y + 1 /\ q.month = 0 /\ y + 1 \in Nat BY <1>3, <1>4
  <2>2. DaysBefore(y + 1, 0) = DaysBefore(y, m) + _getDaysInMonth(y, m) BY <1>4, MonthLength
  <2> QED BY <1>1, <1>2, <2>1, <2>2
<1>5. CASE m # 11
  <2>1. m < 11 /\ m + 1 \in 0 .. 11 BY <1>5
  <2>2. q.year = y /\ q.month = m + 1 BY <1>3, <2>1
  <2>3. DaysBefore(y, m + 1) = DaysBefore(y, m) + _getDaysInMonth(y, m) BY <2>1, MonthLength
  <2> QED BY <1>1, <1>2, <2>1, <2>2, <2>3
<1> QED BY <1>4, <1>5

LEMMA BeforeIs ==
    ASSUME NEW p \in PickerStates
    PROVE  /\ Before(p) \in 0 .. 6
           /\ WeekDay(DayNumber(FirstOf(p)) - Before(p)) = p.firstDay
<1>1. PICK n \in Int, f \in 0 .. 6 : n = DayNumber(FirstOf(p)) /\ f = p.firstDay
  BY PickerHas DEF PickerStates
<1>2. Before(p) = ((n % 7) - f) % 7 BY <1>1 DEF Before, WeekDay
<1>3. PICK b \in 0 .. 6 : b = ((n % 7) - f) % 7 OBVIOUS
<1>4. (n - b) % 7 = f
  <2>1. PICK q \in Int, r \in 0 .. 6 : q = n \div 7 /\ r = n % 7 /\ n = 7 * q + r OBVIOUS
  <2>2. b = IF r >= f THEN r - f ELSE r - f + 7 BY <1>3, <2>1
  <2>3. n - b = 7 * q + f \/ n - b = 7 * (q - 1) + f BY <2>1, <2>2
  <2> QED BY <2>1, <2>3
<1> QED BY <1>1, <1>2, <1>3, <1>4 DEF WeekDay

\* A cell is as many days after the first of the month as it is cells after it.
LEMMA CellDateIs ==
    ASSUME NEW p \in PickerStates, NEW i \in Int
    PROVE  DayNumber(CellDate(p, i)) = (DayNumber(FirstOf(p)) - Before(p)) + i
<1>1. PICK y \in Nat \ {0}, m \in 0 .. 11, f \in Int : /\ y = p.year /\ m = p.month
                                                         /\ f = DaysBefore(p.year, p.month)
                                                         /\ DayNumber(FirstOf(p)) = f + 1
  BY PickerHas
<1>2. PICK b \in Int : b = Before(p) BY BeforeIs
<1>3. PICK k \in Int : k = 1 + i - b BY <1>2
<1>4. PICK days \in Int : days = _getDaysInMonth(y, m) BY MonthLength
<1>5. CASE k < 1
  <2>1. PICK q : q = adjustCalendar(p, m - 1) OBVIOUS
  <2>2. /\ q.year \in Nat /\ q.month \in 0 .. 11
        /\ f = DaysBefore(q.year, q.month) + _getDaysInMonth(q.year, q.month)
    BY <1>1, <2>1, MonthBefore
  <2>0. PICK x \in Nat, l \in 0 .. 11 : x = q.year /\ l = q.month BY <2>2
  <2>a. DaysBefore(x, l) \in Int /\ _getDaysInMonth(x, l) \in Int
    <3>1. 0 \in Int OBVIOUS
    <3>2. DaysBefore(x, l) \in Int BY <3>1, DayNumberIs
    <3>3. _getDaysInMonth(x, l) \in 28 .. 31 BY MonthLength
    <3> QED BY <3>2, <3>3
  <2>3. PICK g \in Int, d \in Int :
          /\ x = q.year /\ l = q.month
          /\ g = DaysBefore(x, l) /\ d = _getDaysInMonth(x, l) /\ f = g + d
    BY <2>0, <2>a, <2>2
  <2>4. CellDate(p, i) = [year |-> x, month |-> l, day |-> d + k]
    BY <1>1, <1>2, <1>3, <1>5, <2>1, <2>3 DEF CellDate
  <2>5. DayNumber([year |-> x, month |-> l, day |-> d + k]) = g + (d + k)
    BY <2>3, DayNumberIs
  <2> QED BY <1>1, <1>2, <1>3, <2>3, <2>4, <2>5
<1>6. CASE k > days
  <2>1. PICK q : q = adjustCalendar(p, m + 1) OBVIOUS
  <2>2. /\ q.year \in Nat /\ q.month \in 0 .. 11
        /\ DaysBefore(q.year, q.month) = f + days
    BY <1>1, <1>4, <2>1, PickerHas, MonthAfter
  <2>3. PICK x \in Nat, l \in 0 .. 11 :
          /\ x = q.year /\ l = q.month /\ DaysBefore(x, l) = f + days
    BY <2>2
  <2>4. ~(k < 1) BY <1>4, <1>6, MonthLength
  <2>5. CellDate(p, i) = [year |-> x, month |-> l, day |-> k - days]
    BY <1>1, <1>2, <1>3, <1>4, <1>6, <2>1, <2>3, <2>4 DEF CellDate
  <2>6. DayNumber([year |-> x, month |-> l, day |-> k - days]) = (f + days) + (k - days)
    BY <2>3, DayNumberIs
  <2> QED BY <1>1, <1>2, <1>3, <2>5, <2>6
<1>7. CASE ~(k < 1) /\ ~(k > days)
  <2>1. CellDate(p, i) = [year |-> y, month |-> m, day |-> k]
    BY <1>1, <1>2, <1>3, <1>4, <1>7 DEF CellDate
  <2>2. DayNumber([year |-> y, month |-> m, day |-> k]) = f + k BY <1>1, DayNumberIs
  <2> QED BY <1>1, <1>2, <1>3, <2>1, <2>2
<1> QED BY <1>5, <1>6, <1>7

LEMMA CalendarHolds == ASSUME NEW p \in PickerStates PROVE CalendarIsTrue(p)
<1>1. PICK y \in Nat \ {0}, m \in 0 .. 11, f \in Int : /\ y = p.year /\ m = p.month
                                                         /\ f = DaysBefore(p.year, p.month)
                                                         /\ DayNumber(FirstOf(p)) = f + 1
  BY PickerHas
<1>2. PICK b \in 0 .. 6 : b = Before(p) BY BeforeIs
<1>3. PICK days \in 28 .. 31 : days = _getDaysInMonth(y, m) BY MonthLength
<1>4. PICK first \in Int : first = DayNumber(FirstOf(p)) - Before(p) /\ first = f + 1 - b
  BY <1>1, <1>2
<1>5. PICK k \in Nat : k = (days + b + 6) \div 7 /\ 7 * k \in days + b .. days + b + 6
  <2>1. PICK s \in Nat : s = days + b OBVIOUS
  <2>2. (s + 6) \div 7 \in Nat /\ 7 * ((s + 6) \div 7) \in s .. s + 6 OBVIOUS
  <2> QED BY <2>1, <2>2
<1>6. Cells(p) = 0 .. 7 * k - 1 BY <1>1, <1>2, <1>3, <1>5 DEF Cells
<1>7. Cardinality(Cells(p)) = 7 * k
  <2>1. 7 * k - 1 \in Int /\ 7 * k - 1 >= 0 /\ (7 * k - 1) - 0 + 1 = 7 * k BY <1>5
  <2>2. Cardinality(0 .. 7 * k - 1) = 7 * k BY <2>1, FS_Interval
  <2> QED BY <1>6, <2>2
<1>8. PICK next : next = adjustCalendar(FirstOf(p), m + 1) OBVIOUS
<1>9. DayNumber(next) = f + days + 1
  <2>1. /\ next.year \in Nat /\ next.month \in 0 .. 11
        /\ DaysBefore(next.year, next.month) = f + days
    BY <1>1, <1>3, <1>8, PickerHas, MonthAfter
  <2>2. next = [year |-> next.year, month |-> next.month, day |-> 1]
    BY <1>8 DEF adjustCalendar, FirstOf
  <2>3. DayNumber(next) = DaysBefore(next.year, next.month) + 1
    BY <2>1, <2>2, DayNumberIs
  <2> QED BY <2>1, <2>3
<1>10. PICK last \in Int : last = DayNumber(next) - 1 /\ last = f + days BY <1>9
<1>11. WeekDay(first) = p.firstDay BY <1>4, BeforeIs
<1>12. \A i \in Cells(p) : DayNumber(CellDate(p, i)) = first + i
  BY <1>4, <1>6, CellDateIs
<1>13. first + 7 * k - 1 \in last .. last + 6 BY <1>4, <1>5, <1>10
<1>14. (7 * k) % 7 = 0 OBVIOUS
<1> QED BY <1>1, <1>4, <1>7, <1>8, <1>10, <1>11, <1>12, <1>13, <1>14 DEF CalendarIsTrue

-----------------------------------------------------------------------------
(* The date                                                                 *)

LEMMA DatesAre ==
    ASSUME NEW d \in Dates
    PROVE  d.year \in Years /\ d.month \in 0 .. 11 /\ DayNumber(d) \in Int
<1>1. d \in [year : Years, month : 0 .. 11, day : 1 .. 31] BY DatepickerAssumption
<1>2. PICK y \in Nat, m \in 0 .. 11, n \in Int : y = d.year /\ m = d.month /\ n = d.day
  <2>1. Years \subseteq Nat BY DatepickerAssumption
  <2>2. d.year \in Years /\ d.month \in 0 .. 11 /\ d.day \in 1 .. 31 BY <1>1
  <2>3. d.year \in Nat BY <2>1, <2>2
  <2>4. d.day \in Int BY <2>2
  <2> QED BY <2>2, <2>3, <2>4
<1>3. d = [year |-> y, month |-> m, day |-> n] BY <1>1, <1>2
<1> QED BY <1>1, <1>3, DayNumberIs

LEMMA InRangeIs ==
    ASSUME NEW range \in DateRanges, NEW d \in Dates
    PROVE  /\ InRange(range, d) \in Dates
           /\ InRange(range, InRange(range, d)) = InRange(range, d)
<1>1. /\ range.min \in Dates \cup {NoDate} /\ range.max \in Dates \cup {NoDate}
      /\ range.min # NoDate /\ range.max # NoDate => ~Earlier(range.max, range.min)
  BY DatepickerAssumption, DateRangesAssumption
<1>2. PICK e \in Dates : e = InRange(range, d) BY <1>1 DEF InRange
<1>3. \A x \in Dates : ~Earlier(x, x) BY DatesAre DEF Earlier
<1>4. CASE range.min # NoDate /\ Earlier(d, range.min)
  <2>1. e = range.min BY <1>2, <1>4 DEF InRange
  <2> QED BY <1>1, <1>2, <1>3, <1>4, <2>1 DEF InRange
<1>5. CASE ~(range.min # NoDate /\ Earlier(d, range.min)) /\ range.max # NoDate /\ Earlier(range.max, d)
  <2>1. e = range.max BY <1>2, <1>5 DEF InRange
  <2> QED BY <1>1, <1>2, <1>3, <1>5, <2>1 DEF InRange
<1>6. CASE ~(range.min # NoDate /\ Earlier(d, range.min)) /\ ~(range.max # NoDate /\ Earlier(range.max, d))
  <2>1. e = d BY <1>2, <1>6 DEF InRange
  <2> QED BY <1>2, <2>1
<1> QED BY <1>4, <1>5, <1>6

PickerFits(p) == p \in PickerStates /\ DialogAgrees(p) /\ DateMayBePicked(p)

LEMMA SetDateIs ==
    ASSUME NEW p \in PickerStates, NEW d \in Dates
    PROVE  LET s == setDate(p, d) IN
           /\ s \in PickerStates /\ s.date = InRange(p.range, d)
           /\ s.weekends = p.weekends /\ s.autoClose = p.autoClose /\ s.range = p.range
           /\ s.isOpen = p.isOpen /\ s.modal = p.modal /\ s.value = p.value /\ s.typed = p.typed
<1>1. PICK e \in Dates : e = InRange(p.range, d) BY InRangeIs DEF PickerStates
<1>2. PICK y \in Years, m \in 0 .. 11 : y = e.year /\ m = e.month BY DatesAre
<1>3. PICK s : s = [p EXCEPT !.date = e, !.year = y, !.month = m] OBVIOUS
<1>4. setDate(p, d) = s BY <1>1, <1>2, <1>3 DEF setDate, gotoDate, PickerStates
<1>5. s \in PickerStates BY <1>3 DEF PickerStates
<1>6. /\ s.date = e /\ s.weekends = p.weekends /\ s.autoClose = p.autoClose /\ s.range = p.range
      /\ s.isOpen = p.isOpen /\ s.modal = p.modal /\ s.value = p.value /\ s.typed = p.typed
  BY <1>3 DEF PickerStates
<1> QED BY <1>1, <1>4, <1>5, <1>6

\* The date stays as it is.
LEMMA SameDate ==
    ASSUME NEW p, DateMayBePicked(p), NEW v, v.date = p.date, v.typed = p.typed,
           v.range = p.range, v.weekends = p.weekends
    PROVE  DateMayBePicked(v)
BY DEF DateMayBePicked, IsDisabled

LEMMA TypedDate ==
    ASSUME NEW v, NEW d \in Dates, v.range \in DateRanges, v.typed = TRUE,
           v.date = InRange(v.range, d)
    PROVE  DateMayBePicked(v)
BY InRangeIs DEF DateMayBePicked

LEMMA DatepickerInitFits ==
    ASSUME NEW p \in DatepickerInit PROVE PickerFits(p) /\ p.modal # "open"
<1> DEFINE new(d, firstDay, weekends, autoClose, range) ==
              [firstDay |-> firstDay, weekends |-> weekends, autoClose |-> autoClose,
               outside |-> ~autoClose, range |-> range, isOpen |-> FALSE, modal |-> "closed",
               year |-> d.year, month |-> d.month, date |-> NoDate, value |-> d,
               typed |-> FALSE]
           some == {new(d, firstDay, weekends, autoClose, range) :
                      d \in Dates, firstDay \in FirstDays, weekends \in BOOLEAN,
                      autoClose \in BOOLEAN, range \in DateRanges}
<1>1. PICK n \in some : n = p \/ p = [setInputValue(setDate(n, n.value)) EXCEPT !.typed = TRUE]
  BY DEF DatepickerInit
<1>2. PICK d \in Dates, firstDay \in FirstDays, weekends \in BOOLEAN, autoClose \in BOOLEAN,
           range \in DateRanges :
        n = new(d, firstDay, weekends, autoClose, range)
  OBVIOUS
<1>3. d.year \in Years /\ d.month \in 0 .. 11 /\ firstDay \in 0 .. 6
  BY DatesAre, DatepickerAssumption
<1> HIDE DEF some
<1>4. n \in PickerStates BY <1>2, <1>3 DEF PickerStates, DialogStates
<1>5. n.isOpen = FALSE /\ n.modal = "closed" /\ n.date = NoDate /\ n.value = d BY <1>2
<1>6. PickerFits(n) /\ n.modal # "open"
  BY <1>4, <1>5 DEF PickerFits, DialogAgrees, DateMayBePicked
<1>7. CASE p = [setInputValue(setDate(n, n.value)) EXCEPT !.typed = TRUE]
  <2>1. PICK s : s = setDate(n, d) OBVIOUS
  <2>2. /\ s \in PickerStates /\ s.date = InRange(n.range, d) /\ s.range = n.range
        /\ s.isOpen = FALSE /\ s.modal = "closed"
    BY <1>4, <1>5, <2>1, SetDateIs
  <2>3. p = [s EXCEPT !.value = s.date, !.typed = TRUE]
    BY <1>5, <1>7, <2>1, <2>2 DEF setInputValue, PickerStates
  <2>4. p \in PickerStates BY <2>2, <2>3 DEF PickerStates
  <2>5. /\ p.isOpen = FALSE /\ p.modal = "closed" /\ p.date = InRange(p.range, d)
        /\ p.typed = TRUE /\ p.range \in DateRanges
    BY <2>2, <2>3 DEF PickerStates
  <2> QED BY <2>4, <2>5, TypedDate DEF PickerFits, DialogAgrees
<1> QED BY <1>1, <1>6, <1>7

-----------------------------------------------------------------------------
(* The steps of the datepicker                                              *)

LEMMA PickerTaken ==
    ASSUME OnPage("Datepicker"), NEW p, PickerFits(p), PickerBecomes("Datepicker", p)
    PROVE  PickerFits(picker)'
BY BecomesIs DEF PickerBecomes, picker

LEMMA PickerClosedFits ==
    ASSUME NEW p, PickerFits(p)
    PROVE  PickerFits(ClosePicker(p))
<1>1. CASE ~p.isOpen BY <1>1 DEF ClosePicker
<1>2. CASE p.isOpen
  <2>1. PICK v : v = [p EXCEPT !.isOpen = FALSE,
                               !.modal = IF p.modal = "open" THEN "closing" ELSE p.modal]
    OBVIOUS
  <2>2. ClosePicker(p) = v BY <1>2, <2>1 DEF ClosePicker, PickerFits, PickerStates
  <2>3. v \in PickerStates BY <2>1 DEF PickerFits, PickerStates, DialogStates
  <2>4. /\ v.isOpen = FALSE /\ v.modal # "open" /\ v.date = p.date /\ v.typed = p.typed
        /\ v.range = p.range /\ v.weekends = p.weekends
    BY <2>1 DEF PickerFits, PickerStates
  <2> QED BY <2>2, <2>3, <2>4, SameDate DEF PickerFits, DialogAgrees
<1> QED BY <1>1, <1>2

LEMMA FinishedFits ==
    ASSUME NEW p, PickerFits(p)
    PROVE  PickerFits(Finished(p))
<1>1. PICK v : v = [p EXCEPT !.value = p.date] OBVIOUS
<1>2. setInputValue(p) = v BY <1>1 DEF setInputValue
<1>3. v \in PickerStates BY <1>1 DEF PickerFits, PickerStates
<1>4. /\ v.isOpen = p.isOpen /\ v.modal = p.modal /\ v.date = p.date /\ v.typed = p.typed
      /\ v.range = p.range /\ v.weekends = p.weekends
  BY <1>1 DEF PickerFits, PickerStates
<1>5. PickerFits(v) BY <1>3, <1>4, SameDate DEF PickerFits, DialogAgrees
<1> QED BY <1>2, <1>5, PickerClosedFits DEF Finished

\* The calendar is turned, within the years.
LEMMA TurnedFits ==
    ASSUME NEW p, PickerFits(p), NEW month \in -1 .. 12, NEW v, v = adjustCalendar(p, month),
           v.year \in Years
    PROVE  PickerFits(v)
<1>1. PICK m \in 0 .. 11, y \in Int : v = [p EXCEPT !.year = y, !.month = m]
  <2>0. p \in PickerStates /\ p.year \in Nat BY PickerHas DEF PickerFits
  <2>1. CASE month < 0
    <3>1. PICK m \in 0 .. 11, y \in Int : m = month + 12 /\ y = p.year - 1 BY <2>0, <2>1
    <3>2. v = [p EXCEPT !.year = y, !.month = m]
      BY <2>0, <2>1, <3>1 DEF adjustCalendar, PickerStates
    <3> QED BY <3>2
  <2>2. CASE month > 11
    <3>1. PICK m \in 0 .. 11, y \in Int : m = month - 12 /\ y = p.year + 1 BY <2>0, <2>2
    <3>2. v = [p EXCEPT !.year = y, !.month = m]
      BY <2>0, <2>2, <3>1 DEF adjustCalendar, PickerStates
    <3> QED BY <3>2
  <2>3. CASE month \in 0 .. 11
    <3>1. PICK m \in 0 .. 11, y \in Int : m = month /\ y = p.year BY <2>0, <2>3
    <3>2. v = [p EXCEPT !.month = m] BY <2>3, <3>1 DEF adjustCalendar
    <3>3. v = [p EXCEPT !.year = y, !.month = m] BY <2>0, <3>1, <3>2 DEF PickerStates
    <3> QED BY <3>3
  <2>4. month < 0 \/ month > 11 \/ month \in 0 .. 11 OBVIOUS
  <2> QED BY <2>1, <2>2, <2>3, <2>4
<1>2. v \in PickerStates
  <2>1. v.year = y BY <1>1 DEF PickerFits, PickerStates
  <2>2. y \in Years BY <2>1
  <2> QED BY <1>1, <2>2 DEF PickerFits, PickerStates
<1>3. /\ v.isOpen = p.isOpen /\ v.modal = p.modal /\ v.date = p.date /\ v.typed = p.typed
      /\ v.range = p.range /\ v.weekends = p.weekends
  BY <1>1 DEF PickerFits, PickerStates
<1> QED BY <1>2, <1>3, SameDate DEF PickerFits, DialogAgrees

\* A day with a button that is not disabled is the date that is taken.
LEMMA PickedFits ==
    ASSUME NEW p, PickerFits(p), NEW d \in Dates, ~IsDisabled(p, DayNumber(d))
    PROVE  PickerFits([setDate(p, d) EXCEPT !.typed = FALSE])
<1>0. p \in PickerStates BY DEF PickerFits
<1>1. PICK s : s = setDate(p, d) OBVIOUS
<1>2. /\ s \in PickerStates /\ s.date = InRange(p.range, d)
      /\ s.weekends = p.weekends /\ s.range = p.range /\ s.isOpen = p.isOpen /\ s.modal = p.modal
  BY <1>0, <1>1, SetDateIs
<1>3. InRange(p.range, d) = d
  <2>1. p.range.min \in Dates \cup {NoDate} /\ p.range.max \in Dates \cup {NoDate}
    BY <1>0, DatepickerAssumption DEF PickerStates
  <2>2. ~(p.range.min # NoDate /\ Earlier(d, p.range.min)) BY DEF IsDisabled, Earlier
  <2>3. ~(p.range.max # NoDate /\ Earlier(p.range.max, d))
    <3>1. CASE p.range.max # NoDate
      <4>1. DayNumber(d) \in Int /\ DayNumber(p.range.max) \in Int BY <2>1, <3>1, DatesAre
      <4>2. ~(DayNumber(d) > DayNumber(p.range.max)) BY <3>1 DEF IsDisabled
      <4> QED BY <4>1, <4>2 DEF Earlier
    <3> QED BY <3>1
  <2> QED BY <2>2, <2>3 DEF InRange
<1>4. PICK v : v = [s EXCEPT !.typed = FALSE] OBVIOUS
<1>5. v \in PickerStates BY <1>2, <1>4 DEF PickerStates
<1>6. /\ v.isOpen = p.isOpen /\ v.modal = p.modal /\ v.date = d /\ v.range = p.range
      /\ v.weekends = p.weekends
  BY <1>2, <1>3, <1>4 DEF PickerStates
<1>7. DateMayBePicked(v) BY <1>3, <1>6 DEF DateMayBePicked, IsDisabled
<1> QED BY <1>1, <1>4, <1>5, <1>6, <1>7 DEF PickerFits, DialogAgrees

LEMMA DatepickerKeeps ==
    ASSUME OnPage("Datepicker"), PickerFits(picker), DatepickerStep
    PROVE  PickerFits(picker)'
<1>0. picker \in PickerStates /\ DialogAgrees(picker) /\ DateMayBePicked(picker)
  BY DEF PickerFits
<1>1. ASSUME NEW p, PickerFits(p), DatepickerBecomes(p) PROVE PickerFits(picker)'
  BY <1>1, PickerTaken DEF DatepickerBecomes
<1>2. CASE ClickDateField
  <2>1. PICK v : v = [picker EXCEPT !.isOpen = TRUE, !.modal = "open"] OBVIOUS
  <2>2. /\ v.isOpen = TRUE /\ v.modal = "open" /\ v.date = picker.date /\ v.typed = picker.typed
        /\ v.range = picker.range /\ v.weekends = picker.weekends
    BY <1>0, <2>1 DEF PickerStates
  <2>3. v \in PickerStates BY <1>0, <2>1 DEF PickerStates, DialogStates
  <2>4. PickerFits(v) BY <1>0, <2>2, <2>3, SameDate DEF PickerFits, DialogAgrees
  <2>5. DatepickerBecomes(OpenPicker(picker)) BY <1>2 DEF ClickDateField
  <2>6. OpenPicker(picker) = picker \/ OpenPicker(picker) = v BY <2>1 DEF OpenPicker
  <2> QED BY <1>1, <2>4, <2>5, <2>6
<1>3. CASE ClickDone BY <1>1, <1>3, FinishedFits DEF ClickDone
<1>4. CASE ClickCancel BY <1>1, <1>4, PickerClosedFits DEF ClickCancel
<1>5. CASE ClickClear
  <2>1. PICK v : v = [picker EXCEPT !.date = NoDate, !.value = NoDate] OBVIOUS
  <2>2. v.isOpen = picker.isOpen /\ v.modal = picker.modal /\ v.date = NoDate
    BY <1>0, <2>1 DEF PickerStates
  <2>3. v \in PickerStates BY <1>0, <2>1 DEF PickerStates
  <2>4. PickerFits(v)
    BY <1>0, <2>2, <2>3 DEF PickerFits, DialogAgrees, DateMayBePicked
  <2>5. DatepickerBecomes(ClosePicker(v)) BY <1>5, <2>1 DEF ClickClear
  <2> QED BY <1>1, <2>4, <2>5, PickerClosedFits
<1>6. ASSUME NEW i \in Cells(picker), PickDay(i) PROVE PickerFits(picker)'
  <2>1. PICK d \in Dates : d = CellDate(picker, i) BY <1>6 DEF PickDay
  <2>2. PICK picked : picked = [setDate(picker, d) EXCEPT !.typed = FALSE] OBVIOUS
  <2>3. DatepickerBecomes(IF picker.autoClose THEN Finished(picked) ELSE picked)
    BY <1>6, <2>1, <2>2 DEF PickDay
  <2>4. ~IsDisabled(picker, DayNumber(d))
    <3>1. PICK n \in Int, b \in Int : n = DayNumber(FirstOf(picker)) /\ b = Before(picker)
      BY <1>0, PickerHas, BeforeIs
    <3>2. i \in Int BY DEF Cells
    <3>3. DayNumber(d) = (n - b) + i BY <1>0, <2>1, <3>1, <3>2, CellDateIs
    <3>4. ~IsDisabled(picker, n + i - b) BY <1>6, <3>1 DEF PickDay
    <3>5. n + i - b = (n - b) + i BY <3>1, <3>2
    <3> QED BY <3>3, <3>4, <3>5
  <2>5. PickerFits(picked) BY <2>2, <2>4, PickedFits
  <2> QED BY <1>1, <2>3, <2>5, FinishedFits
<1>7. ASSUME NEW month \in -1 .. 12, DatepickerBecomes(adjustCalendar(picker, month))
      PROVE  PickerFits(picker)'
  <2>1. PICK v : v = adjustCalendar(picker, month) OBVIOUS
  <2>2. v.year \in Years BY <1>7, <2>1 DEF DatepickerBecomes
  <2>3. PickerFits(v) BY <2>1, <2>2, TurnedFits
  <2> QED BY <1>1, <1>7, <2>1, <2>3
<1>8. ASSUME NEW by \in {-1, 1}, TurnMonth(by) PROVE PickerFits(picker)'
  <2>1. picker.month + by \in -1 .. 12 BY <1>0, PickerHas
  <2> QED BY <1>7, <1>8, <2>1 DEF TurnMonth
<1>9. ASSUME NEW month \in 0 .. 11, SelectMonth(month) PROVE PickerFits(picker)'
  <2>1. month \in -1 .. 12 OBVIOUS
  <2> QED BY <1>7, <1>9, <2>1 DEF SelectMonth
<1>10. ASSUME NEW year \in Years, SelectYear(year) PROVE PickerFits(picker)'
  <2>1. PICK v : v = [picker EXCEPT !.year = year] OBVIOUS
  <2>2. /\ v.isOpen = picker.isOpen /\ v.modal = picker.modal /\ v.date = picker.date
        /\ v.typed = picker.typed /\ v.range = picker.range /\ v.weekends = picker.weekends
    BY <1>0, <2>1 DEF PickerStates
  <2>3. v \in PickerStates BY <1>0, <2>1 DEF PickerStates
  <2>4. PickerFits(v) BY <1>0, <2>2, <2>3, SameDate DEF PickerFits, DialogAgrees
  <2> QED BY <1>1, <1>10, <2>1, <2>4 DEF SelectYear
<1>11. ASSUME NEW text \in Dates \cup {NoDate}, TypeDate(text) PROVE PickerFits(picker)'
  <2>1. CASE text \in Dates
    <3>1. PICK s : s = setDate(picker, text) OBVIOUS
    <3>2. /\ s \in PickerStates /\ s.date = InRange(picker.range, text)
          /\ s.range = picker.range /\ s.isOpen = picker.isOpen /\ s.modal = picker.modal
      BY <1>0, <2>1, <3>1, SetDateIs
    <3>3. PICK v : v = [s EXCEPT !.value = text, !.typed = TRUE] OBVIOUS
    <3>4. v \in PickerStates BY <3>2, <3>3 DEF PickerStates
    <3>5. /\ v.isOpen = picker.isOpen /\ v.modal = picker.modal /\ v.typed = TRUE
          /\ v.date = InRange(v.range, text) /\ v.range \in DateRanges
      BY <3>2, <3>3 DEF PickerStates
    <3>6. PickerFits(v)
      BY <1>0, <2>1, <3>4, <3>5, TypedDate DEF PickerFits, DialogAgrees
    <3> QED BY <1>1, <1>11, <2>1, <3>1, <3>3, <3>6 DEF TypeDate
  <2>2. CASE text \notin Dates
    <3>1. PICK v : v = [picker EXCEPT !.value = text] OBVIOUS
    <3>2. /\ v.isOpen = picker.isOpen /\ v.modal = picker.modal /\ v.date = picker.date
          /\ v.typed = picker.typed /\ v.range = picker.range /\ v.weekends = picker.weekends
      BY <1>0, <3>1 DEF PickerStates
    <3>3. v \in PickerStates BY <1>0, <3>1 DEF PickerStates
    <3>4. PickerFits(v) BY <1>0, <3>2, <3>3, SameDate DEF PickerFits, DialogAgrees
    <3> QED BY <1>1, <1>11, <2>2, <3>1, <3>4 DEF TypeDate
  <2> QED BY <2>1, <2>2
<1>12. CASE DismissDialog("Datepicker")
  <2>1. PICK v : v = [picker EXCEPT !.modal = "closing"] OBVIOUS
  <2>2. /\ v.modal = "closing" /\ v.date = picker.date
        /\ v.typed = picker.typed /\ v.range = picker.range /\ v.weekends = picker.weekends
    BY <1>0, <2>1 DEF PickerStates
  <2>3. v \in PickerStates BY <1>0, <2>1 DEF PickerStates, DialogStates
  <2>4. PickerFits(v) BY <1>0, <2>2, <2>3, SameDate DEF PickerFits, DialogAgrees
  <2>5. PickerBecomes("Datepicker", v) BY <1>12, <2>1 DEF DismissDialog, picker
  <2> QED BY <2>4, <2>5, PickerTaken
<1>13. CASE DialogClosed("Datepicker")
  <2>1. PICK v : v = [picker EXCEPT !.modal = "closed", !.isOpen = FALSE] OBVIOUS
  <2>2. /\ v.modal = "closed" /\ v.isOpen = FALSE /\ v.date = picker.date
        /\ v.typed = picker.typed /\ v.range = picker.range /\ v.weekends = picker.weekends
    BY <1>0, <2>1 DEF PickerStates
  <2>3. v \in PickerStates BY <1>0, <2>1 DEF PickerStates, DialogStates
  <2>4. PickerFits(v) BY <1>0, <2>2, <2>3, SameDate DEF PickerFits, DialogAgrees
  <2>5. PickerBecomes("Datepicker", v) BY <1>13, <2>1 DEF DialogClosed, picker
  <2> QED BY <2>4, <2>5, PickerTaken
<1> QED BY <1>2, <1>3, <1>4, <1>5, <1>6, <1>8, <1>9, <1>10, <1>11, <1>12, <1>13
       DEF DatepickerStep

LEMMA DatepickerGives ==
    ASSUME PickerFits(picker) PROVE DatepickerTypeOK /\ DatepickerShowsState
<1>1. DatepickerTypeOK BY DEF PickerFits, PickerStates, DatepickerTypeOK
<1>2. DatepickerShowsState BY CalendarHolds DEF PickerFits, DatepickerShowsState
<1> QED BY <1>1, <1>2

-----------------------------------------------------------------------------
(* Slots                                                                    *)

LEMMA Division ==
    ASSUME NEW n \in Nat, n > 0, NEW x \in Int
    PROVE  \E d \in Int, e \in 0 .. n - 1 : e = x % n /\ x = n * d + e
<1>1. x % n \in 0 .. n - 1 /\ x \div n \in Int OBVIOUS
<1>2. x = n * (x \div n) + (x % n) OBVIOUS
<1>3. PICK d \in Int, e \in 0 .. n - 1 : d = x \div n /\ e = x % n BY <1>1
<1>4. x = n * d + e BY <1>2, <1>3
<1> QED BY <1>3, <1>4

LEMMA WrapIs ==
    ASSUME NEW i \in Int
    PROVE  /\ _wrap(i) \in 0 .. Slides - 1
           /\ (i - _wrap(i)) % Slides = 0
           /\ HasSlide(i) => _wrap(i) = i
<1>1. PICK n \in Nat : n = Slides /\ n > 0 BY CarouselAssumption
<1>2. i % n \in 0 .. n - 1 BY <1>1
<1>3. PICK q \in Int, r \in 0 .. n - 1 : r = i % n /\ i = n * q + r BY <1>1, <1>2
<1>4. (n * q) % n = 0
  <2>0. PICK x \in Int : x = n * q BY <1>1
  <2>a. PICK d \in Int, e \in 0 .. n - 1 : e = x % n /\ x = n * d + e BY <1>1, Division
  <2>1. e = (n * q) % n /\ n * q = n * d + e BY <2>0, <2>a
  <2>2. n * (q - d) = e BY <2>1
  <2>3. q - d < 1 BY <1>1, <2>1, <2>2
  <2>4. q - d >= 0 BY <1>1, <2>1, <2>2
  <2> QED BY <2>1, <2>2, <2>3, <2>4
<1>5. ASSUME i \in 0 .. n - 1 PROVE i % n = i
  <2>1. n * q = i - r BY <1>3
  <2>2. q < 1 /\ q > -1 BY <1>1, <1>3, <1>5, <2>1
  <2> QED BY <1>3, <2>1, <2>2
<1>6. i - r = n * q BY <1>3
<1> QED BY <1>1, <1>2, <1>3, <1>4, <1>5, <1>6 DEF _wrap, HasSlide

LEMMA SlotIs ==
    ASSUME NEW x \in Int
    PROVE  /\ Slot(x) \in Int /\ Slot(2 * x) = x
           /\ x \in Offsets => Slot(x) \in -1 .. MaxReach
BY CarouselAssumption DEF Slot, Offsets

-----------------------------------------------------------------------------
(* The carousel, before it is kept within reach                             *)

CarouselShapes ==
    [noWrap : BOOLEAN, fullWidth : BOOLEAN, padded : BOOLEAN, pressed : BOOLEAN,
     dragged : BOOLEAN, verticalDragged : BOOLEAN, offset : Int, target : Int, center : Int,
     amplitude : Int, frame : BOOLEAN, active : 0 .. Slides - 1, indicator : 0 .. Slides - 1,
     astray : BOOLEAN, skewed : BOOLEAN]

\* What is shown follows from the offset, which at rest is at the target, which is a slot,
\* unless the window was resized under a padding.
MiddleShown(c) ==
    /\ c.center = Slot(c.offset) \/ (c.skewed /\ c.center \in -1 .. MaxReach)
    /\ c.indicator = _wrap(c.center)
    /\ ~c.noWrap \/ HasSlide(c.center) => c.active = _wrap(c.center)
TargetIsSlot(c) ==
    ~c.skewed => /\ c.target = 2 * Slot(c.target)
                 /\ ~c.pressed /\ ~c.astray /\ c.noWrap => HasSlide(Slot(c.target))
RestsAtTarget(c) == ~c.pressed /\ (~c.frame \/ c.amplitude = 0) => c.offset = c.target
AmplitudeSound(c) ==
    \/ c.amplitude \in -(2 * MaxReach + 2) .. 2 * MaxReach + 2
    \/ c.amplitude = c.target - c.offset

CarouselSound(c) ==
    /\ c \in CarouselShapes /\ MiddleShown(c) /\ TargetIsSlot(c) /\ RestsAtTarget(c)
    /\ AmplitudeSound(c)

CarouselFits(c) == CarouselSound(c) /\ WithinReach(c)

LEMMA CarouselIsState == ASSUME NEW c, CarouselFits(c) PROVE c \in CarouselStates
<1>1. PICK m \in Nat : m = MaxReach BY CarouselAssumption
<1>2. c \in CarouselShapes /\ c.offset \in -2 .. 2 * m /\ c.target \in -2 .. 2 * m
  BY <1>1 DEF CarouselFits, CarouselSound, WithinReach, Offsets
<1>3. c.center \in -1 .. m
  <2>1. Slot(c.offset) \in -1 .. m BY <1>1, <1>2, SlotIs DEF Offsets
  <2> QED BY <1>1, <2>1 DEF CarouselFits, CarouselSound, MiddleShown
<1>4. c.amplitude \in -(2 * m + 2) .. 2 * m + 2
  <2>1. c.target - c.offset \in -(2 * m + 2) .. 2 * m + 2 BY <1>1, <1>2
  <2> QED BY <1>1, <2>1 DEF CarouselFits, CarouselSound, AmplitudeSound
<1> QED BY <1>1, <1>2, <1>3, <1>4 DEF CarouselStates, CarouselShapes, Offsets

LEMMA CarouselHas ==
    ASSUME NEW c \in CarouselShapes
    PROVE  /\ c.offset \in Int /\ c.target \in Int /\ c.center \in Int /\ c.amplitude \in Int
           /\ c.noWrap \in BOOLEAN /\ c.pressed \in BOOLEAN /\ c.frame \in BOOLEAN
           /\ c.astray \in BOOLEAN /\ c.skewed \in BOOLEAN /\ c.padded \in BOOLEAN
BY DEF CarouselShapes

\* What a step leaves alone
SameTurning(r, c) ==
    /\ r.noWrap = c.noWrap /\ r.fullWidth = c.fullWidth /\ r.padded = c.padded
    /\ r.pressed = c.pressed /\ r.target = c.target /\ r.amplitude = c.amplitude
    /\ r.frame = c.frame /\ r.astray = c.astray /\ r.skewed = c.skewed
SameMiddle(r, c) ==
    /\ r.offset = c.offset /\ r.center = c.center /\ r.active = c.active
    /\ r.indicator = c.indicator /\ r.skewed = c.skewed

LEMMA NewCarouselSound ==
    ASSUME NEW noWrap \in BOOLEAN, NEW fullWidth \in BOOLEAN, NEW padded \in BOOLEAN
    PROVE  LET c == NewCarousel(noWrap, fullWidth, padded) IN
           /\ CarouselFits(c) /\ c.noWrap = noWrap /\ c.fullWidth = fullWidth
           /\ c.padded = padded /\ ~c.pressed /\ c.center = 0 /\ ~c.frame /\ ~c.skewed
<1>1. PICK c : c = NewCarousel(noWrap, fullWidth, padded) OBVIOUS
<1>2. /\ c.noWrap = noWrap /\ c.fullWidth = fullWidth /\ c.padded = padded
      /\ c.pressed = FALSE /\ c.center = 0 /\ c.frame = FALSE /\ c.offset = 0 /\ c.target = 0
      /\ c.amplitude = 0 /\ c.active = 0 /\ c.indicator = 0 /\ c.skewed = FALSE
  BY <1>1 DEF NewCarousel
<1>3. 0 \in 0 .. Slides - 1 /\ 0 \in Int BY CarouselAssumption
<1>4. c \in CarouselShapes BY <1>1, <1>3 DEF CarouselShapes, NewCarousel
<1>5. HasSlide(0) /\ _wrap(0) = 0 BY <1>3, WrapIs DEF HasSlide
<1>6. Slot(0) = 0 /\ 2 * 0 = 0
  <2>1. Slot(2 * 0) = 0 /\ 2 * 0 = 0 BY SlotIs
  <2> QED BY <2>1
<1>7. MiddleShown(c)
  <2>1. c.center = Slot(c.offset) BY <1>2, <1>6
  <2>2. c.indicator = _wrap(c.center) /\ c.active = _wrap(c.center) BY <1>2, <1>5
  <2> QED BY <2>1, <2>2 DEF MiddleShown
<1>8. TargetIsSlot(c) BY <1>2, <1>5, <1>6 DEF TargetIsSlot
<1>9. RestsAtTarget(c) BY <1>2 DEF RestsAtTarget
<1>10. AmplitudeSound(c) BY <1>2, CarouselAssumption DEF AmplitudeSound
<1>11. WithinReach(c) BY <1>2, CarouselAssumption DEF WithinReach, Offsets
<1> QED BY <1>1, <1>2, <1>4, <1>7, <1>8, <1>9, <1>10, <1>11 DEF CarouselFits, CarouselSound

LEMMA ScrolledIs ==
    ASSUME NEW c \in CarouselShapes, NEW x \in Int
    PROVE  LET r == Scrolled(c, x) IN
           /\ r \in CarouselShapes /\ r.offset = x /\ MiddleShown(r) /\ SameTurning(r, c)
<1>1. PICK slot \in Int, wrapped \in 0 .. Slides - 1 : slot = Slot(x) /\ wrapped = _wrap(slot)
  BY SlotIs, WrapIs
<1>2. PICK active \in 0 .. Slides - 1 :
        active = IF ~c.noWrap \/ HasSlide(slot) THEN wrapped ELSE c.active
  BY DEF CarouselShapes
<1>3. PICK r : r = [c EXCEPT !.offset = x, !.center = slot, !.indicator = wrapped,
                             !.active = active]
  OBVIOUS
<1>4. Scrolled(c, x) = r BY <1>1, <1>2, <1>3 DEF Scrolled, CarouselShapes
<1>5. r \in CarouselShapes BY <1>3 DEF CarouselShapes
<1>6. /\ r.offset = x /\ r.center = slot /\ r.indicator = wrapped /\ r.active = active
      /\ r.noWrap = c.noWrap /\ SameTurning(r, c)
  BY <1>3 DEF CarouselShapes, SameTurning
<1>7. MiddleShown(r)
  <2>1. r.center = Slot(r.offset) /\ r.indicator = _wrap(r.center) BY <1>1, <1>6
  <2>2. ~r.noWrap \/ HasSlide(r.center) => r.active = _wrap(r.center) BY <1>1, <1>2, <1>6
  <2> QED BY <2>1, <2>2 DEF MiddleShown
<1> QED BY <1>4, <1>5, <1>6, <1>7

\* On the way to the target, at it, or under the finger
LEMMA ScrolledSound ==
    ASSUME NEW c \in CarouselShapes, TargetIsSlot(c), NEW x \in Int,
           c.amplitude \in -(2 * MaxReach + 2) .. 2 * MaxReach + 2,
           c.pressed \/ (c.frame /\ c.amplitude # 0) \/ x = c.target
    PROVE  LET r == Scrolled(c, x) IN CarouselSound(r) /\ r.offset = x /\ SameTurning(r, c)
<1>1. PICK r : r = Scrolled(c, x) OBVIOUS
<1>2. r \in CarouselShapes /\ r.offset = x /\ MiddleShown(r) /\ SameTurning(r, c)
  BY <1>1, ScrolledIs
<1>3. TargetIsSlot(r) BY <1>2 DEF TargetIsSlot, SameTurning
<1>4. RestsAtTarget(r) BY <1>2 DEF RestsAtTarget, SameTurning
<1>5. AmplitudeSound(r) BY <1>2 DEF AmplitudeSound, SameTurning
<1> QED BY <1>1, <1>2, <1>3, <1>4, <1>5 DEF CarouselSound

LEMMA FitsHas ==
    ASSUME NEW c, CarouselFits(c)
    PROVE  /\ c \in CarouselShapes /\ TargetIsSlot(c) /\ MiddleShown(c) /\ RestsAtTarget(c)
           /\ c.amplitude \in -(2 * MaxReach + 2) .. 2 * MaxReach + 2
           /\ c.center \in -1 .. MaxReach
<1>1. c \in CarouselStates BY CarouselIsState
<1> QED BY <1>1 DEF CarouselFits, CarouselSound, CarouselStates

\* A carousel that turns the same way, and the same but for what a finger sets
SameOptions(r, c) ==
    /\ r.noWrap = c.noWrap /\ r.fullWidth = c.fullWidth /\ r.padded = c.padded
    /\ ~c.padded => r.skewed = c.skewed

LEMMA TurnedToSound ==
    ASSUME NEW c, CarouselFits(c), NEW astray \in BOOLEAN, NEW slot \in Int,
           c.noWrap /\ ~c.pressed /\ ~astray /\ ~c.skewed => HasSlide(slot)
    PROVE  LET r == TurnedTo([c EXCEPT !.astray = astray], 2 * slot) IN
           /\ CarouselSound(r) /\ SameOptions(r, c) /\ SameMiddle(r, c)
           /\ r.pressed = c.pressed /\ r.target = 2 * slot /\ r.astray = astray
<1>1. c \in CarouselShapes /\ TargetIsSlot(c) /\ MiddleShown(c) BY FitsHas
<1>2. PICK a : a = [c EXCEPT !.astray = astray] OBVIOUS
<1>3. PICK target \in Int : target = 2 * slot OBVIOUS
<1>4. /\ a \in CarouselShapes /\ a.offset = c.offset /\ a.amplitude = c.amplitude
      /\ a.astray = astray
  BY <1>1, <1>2 DEF CarouselShapes
<1>5. PICK amplitude \in Int : amplitude = target - a.offset BY <1>3, <1>4 DEF CarouselShapes
<1>6. PICK r : r = IF target = a.offset THEN [a EXCEPT !.target = target]
                   ELSE [a EXCEPT !.target = target, !.amplitude = amplitude, !.frame = TRUE]
  OBVIOUS
<1>7. TurnedTo(a, target) = r BY <1>5, <1>6 DEF TurnedTo
<1>8. r \in CarouselShapes BY <1>4, <1>6 DEF CarouselShapes
<1>9. /\ SameOptions(r, c) /\ SameMiddle(r, c) /\ r.pressed = c.pressed /\ r.astray = astray
      /\ r.target = target
  BY <1>1, <1>2, <1>6 DEF CarouselShapes, SameOptions, SameMiddle
<1>10. MiddleShown(r) BY <1>1, <1>9 DEF MiddleShown, SameMiddle, SameOptions
<1>11. TargetIsSlot(r)
  <2>1. Slot(target) = slot BY <1>3, SlotIs
  <2> QED BY <1>3, <1>9, <2>1 DEF TargetIsSlot, SameOptions, SameMiddle
<1>12. RestsAtTarget(r) /\ AmplitudeSound(r)
  <2>1. CASE target = a.offset
    <3>1. r.offset = r.target BY <1>4, <1>9, <2>1 DEF SameMiddle
    <3>2. r.amplitude = c.amplitude BY <1>4, <1>6, <2>1 DEF CarouselShapes
    <3> QED BY <3>1, <3>2, FitsHas DEF RestsAtTarget, AmplitudeSound
  <2>2. CASE target # a.offset
    <3>1. r.frame = TRUE /\ r.amplitude = amplitude BY <1>4, <1>6, <2>2 DEF CarouselShapes
    <3>2. amplitude = r.target - r.offset BY <1>4, <1>5, <1>9 DEF SameMiddle
    <3>3. amplitude # 0 BY <1>3, <1>4, <1>5, <2>2 DEF CarouselShapes
    <3> QED BY <3>1, <3>2, <3>3 DEF RestsAtTarget, AmplitudeSound
  <2> QED BY <2>1, <2>2
<1> QED BY <1>2, <1>3, <1>7, <1>8, <1>9, <1>10, <1>11, <1>12 DEF CarouselSound

-----------------------------------------------------------------------------
(* Turning by the shorter way round                                         *)

LEMMA RemainderIs ==
    ASSUME NEW x \in Int
    PROVE  /\ Remainder(x, Slides) \in Int
           /\ HasSlide(x) => Remainder(x, Slides) = x
           /\ x >= 0 => Remainder(x, Slides) = _wrap(x)
           /\ -1 <= x /\ x < 0 /\ Slides > 1 => Remainder(x, Slides) = x
<1>1. PICK n \in Nat : n = Slides /\ n > 0 BY CarouselAssumption
<1>2. x >= 0 => Remainder(x, Slides) = _wrap(x) BY DEF Remainder, _wrap
<1>3. HasSlide(x) => Remainder(x, Slides) = x BY <1>2, WrapIs DEF HasSlide
<1>4. _wrap(x) \in Int /\ _wrap(-x) \in Int BY WrapIs, <1>1
<1>5. Remainder(x, Slides) \in Int
  <2>1. CASE x >= 0 BY <1>2, <1>4, <2>1
  <2>2. CASE x < 0
    <3>1. Remainder(x, Slides) = -_wrap(-x) BY <2>2 DEF Remainder, _wrap
    <3> QED BY <1>4, <3>1
  <2> QED BY <2>1, <2>2
<1>6. ASSUME -1 <= x, x < 0, n > 1 PROVE Remainder(x, Slides) = x
  <2>1. x = -1 /\ -x = 1 BY <1>6
  <2>2. Remainder(x, Slides) = -_wrap(1) BY <2>1 DEF Remainder, _wrap
  <2>3. _wrap(1) = 1 BY <1>1, <1>6, WrapIs DEF HasSlide
  <2> QED BY <2>1, <2>2, <2>3
<1> QED BY <1>1, <1>2, <1>3, <1>5, <1>6

LEMMA DifferenceIs ==
    ASSUME NEW c \in CarouselShapes, NEW n \in Int
    PROVE  /\ _difference(c, n) \in Int
           /\ c.noWrap => _difference(c, n) = Remainder(c.center, Slides) - n
<1>1. PICK diff \in Int : diff = Remainder(c.center, Slides) - n
  BY RemainderIs DEF CarouselShapes
<1>2. PICK s \in Nat : s = Slides BY CarouselAssumption
<1>3. PICK near \in Int, far \in Int :
        near = diff /\ far = IF diff < 0 THEN diff + s ELSE diff - s
  BY <1>1, <1>2
<1>4. {near, far} = IF diff < 0 THEN {diff, diff + s} ELSE {diff, diff - s} BY <1>3
<1>5. \E d \in {near, far} : /\ \A e \in {near, far} : Abs(d) <= Abs(e)
                             /\ Abs(d) = Abs(near) => d = near
  <2>1. Abs(near) \in Int /\ Abs(far) \in Int BY DEF Abs
  <2>2. CASE Abs(near) <= Abs(far) BY <2>1, <2>2
  <2>3. CASE ~(Abs(near) <= Abs(far))
    <3>1. Abs(far) <= Abs(near) /\ Abs(far) # Abs(near) /\ Abs(far) <= Abs(far) BY <2>1, <2>3
    <3> QED BY <3>1
  <2> QED BY <2>2, <2>3
<1>6. PICK ways : ways = IF diff < 0 THEN {diff, diff + s} ELSE {diff, diff - s} OBVIOUS
<1>7. PICK way \in ways : way = CHOOSE d \in ways : /\ \A e \in ways : Abs(d) <= Abs(e)
                                                    /\ Abs(d) = Abs(diff) => d = diff
  <2>1. ways = {near, far} /\ near = diff BY <1>3, <1>4, <1>6
  <2> QED BY <1>5, <2>1
<1>8. _difference(c, n) = IF c.noWrap \/ diff = 0 THEN diff ELSE way
  BY <1>1, <1>2, <1>6, <1>7 DEF _difference
<1>9. way \in Int BY <1>2, <1>6
<1> QED BY <1>1, <1>8, <1>9


\* What becomes of it when it is asked to turn
Turning(r, c) ==
    CarouselSound(r) /\ SameOptions(r, c) /\ SameMiddle(r, c) /\ r.pressed = c.pressed

LEMMA CycleSound ==
    ASSUME NEW c, CarouselFits(c), NEW n \in Int
    PROVE  LET r == _cycleTo(c, n) IN
           /\ Turning(r, c)
           /\ c.noWrap /\ ~c.skewed =>
                r.target = 2 * (c.center - (Remainder(c.center, Slides) - n))
<1>1. c \in CarouselShapes /\ TargetIsSlot(c) /\ MiddleShown(c) /\ c.center \in Int
  BY FitsHas DEF CarouselShapes
<1>2. PICK d \in Int : d = _difference(c, n) BY <1>1, DifferenceIs
<1>3. PICK slot \in Int : slot = Slot(c.offset) - d
  <2>1. Slot(c.offset) \in Int BY <1>1, SlotIs DEF CarouselShapes
  <2> QED BY <2>1
<1>a. ~c.skewed => slot = c.center - d BY <1>1, <1>3 DEF MiddleShown
<1>4. PICK astray \in BOOLEAN :
        /\ astray = (c.astray \/ (c.noWrap /\ ~(HasSlide(n) /\ HasSlide(c.center))))
        /\ c.noWrap /\ ~astray => HasSlide(n) /\ HasSlide(c.center)
  <2>1. CASE c.astray \/ (c.noWrap /\ ~(HasSlide(n) /\ HasSlide(c.center)))
    BY <2>1
  <2>2. CASE ~(c.astray \/ (c.noWrap /\ ~(HasSlide(n) /\ HasSlide(c.center))))
    BY <2>2
  <2> QED BY <2>1, <2>2
<1>5. c.noWrap => d = Remainder(c.center, Slides) - n BY <1>1, <1>2, DifferenceIs
<1>6. c.noWrap /\ ~c.pressed /\ ~astray /\ ~c.skewed => HasSlide(slot)
  <2>1. SUFFICES ASSUME c.noWrap, ~astray, ~c.skewed PROVE HasSlide(slot) OBVIOUS
  <2>2. Remainder(c.center, Slides) = c.center BY <1>1, <1>4, <2>1, RemainderIs
  <2>3. slot = n BY <1>1, <1>a, <1>5, <2>1, <2>2
  <2> QED BY <1>4, <2>1, <2>3
<1>7. PICK r : r = TurnedTo([c EXCEPT !.astray = astray], 2 * slot) OBVIOUS
<1>8. /\ CarouselSound(r) /\ SameOptions(r, c) /\ SameMiddle(r, c) /\ r.pressed = c.pressed
      /\ r.target = 2 * slot
  BY <1>6, <1>7, TurnedToSound
<1>9. _cycleTo(c, n) = r BY <1>2, <1>3, <1>4, <1>7 DEF _cycleTo
<1>10. c.noWrap /\ ~c.skewed =>
         r.target = 2 * (c.center - (Remainder(c.center, Slides) - n))
  BY <1>a, <1>5, <1>8
<1> QED BY <1>8, <1>9, <1>10 DEF Turning

LEMMA AskedSound ==
    ASSUME NEW c, CarouselFits(c), NEW by \in {-1, 1}, NEW n \in Int
    PROVE  Turning(Turned(c, by), c) /\ Turning(SetSlide(c, n), c) /\ Turning(Clicked(c, n), c)
<1>1. Turning(c, c) BY DEF Turning, CarouselFits, SameOptions, SameMiddle
<1>2. _wrap(n) \in Int /\ _wrap(c.center + by) \in Int
  BY WrapIs, FitsHas, CarouselAssumption DEF CarouselShapes
<1>3. \A m \in Int : Turning(_cycleTo(c, m), c)
  <2>1. TAKE m \in Int
  <2>2. PICK r : r = _cycleTo(c, m) OBVIOUS
  <2> QED BY <2>2, CycleSound
<1>4. Turning(Turned(c, by), c) BY <1>1, <1>2, <1>3 DEF Turned
<1>5. Turning(SetSlide(c, n), c) BY <1>1, <1>2, <1>3 DEF SetSlide
<1>6. Turning(Clicked(c, n), c) BY <1>1, <1>3 DEF Clicked
<1> QED BY <1>4, <1>5, <1>6

\* The window is resized.
LEMMA ResizedSound ==
    ASSUME NEW c, CarouselFits(c)
    PROVE  LET r == Resized(c) IN
           /\ CarouselSound(r) /\ SameOptions(r, c) /\ r.pressed = c.pressed
           /\ c.fullWidth => r.center = c.center
<1>0. /\ c \in CarouselShapes /\ TargetIsSlot(c) /\ MiddleShown(c) /\ RestsAtTarget(c)
      /\ c.amplitude \in -(2 * MaxReach + 2) .. 2 * MaxReach + 2
      /\ c.center \in -1 .. MaxReach
  BY FitsHas
<1>1. CASE c.fullWidth
  <2>1. PICK slot \in Int : slot = c.center BY <1>0 DEF CarouselShapes
  <2>x. PICK x \in Int : x = WithoutPadding(c, slot) /\ (~c.padded \/ slot = 0 => x = 2 * slot)
    BY DEF WithoutPadding
  <2>2. PICK astray \in BOOLEAN : /\ astray = (c.astray \/ (c.noWrap /\ ~HasSlide(slot)))
                                  /\ c.noWrap /\ ~astray => HasSlide(slot)
    <3>1. CASE c.astray \/ (c.noWrap /\ ~HasSlide(slot)) BY <3>1
    <3>2. CASE ~(c.astray \/ (c.noWrap /\ ~HasSlide(slot))) BY <3>2
    <3> QED BY <3>1, <3>2
  <2>y. PICK skewed \in BOOLEAN : /\ skewed = (c.skewed \/ (c.padded /\ slot # 0))
                                  /\ ~skewed => ~c.padded \/ slot = 0
                                  /\ ~c.padded => skewed = c.skewed
    <3>1. c.skewed \in BOOLEAN /\ c.padded \in BOOLEAN BY <1>0, CarouselHas
    <3>2. CASE c.skewed \/ (c.padded /\ slot # 0) BY <3>1, <3>2
    <3>3. CASE ~(c.skewed \/ (c.padded /\ slot # 0)) BY <3>1, <3>3
    <3> QED BY <3>2, <3>3
  <2>3. PICK r : r = [c EXCEPT !.offset = x, !.target = x, !.astray = astray,
                               !.skewed = skewed]
    OBVIOUS
  <2>4. Resized(c) = r
    BY <1>0, <1>1, <2>1, <2>2, <2>3, <2>x, <2>y DEF Resized, CarouselShapes
  <2>5. r \in CarouselShapes BY <1>0, <2>3 DEF CarouselShapes
  <2>6. /\ r.offset = x /\ r.target = x /\ r.astray = astray /\ r.center = slot
        /\ r.indicator = c.indicator /\ r.active = c.active /\ r.noWrap = c.noWrap
        /\ r.pressed = c.pressed /\ r.amplitude = c.amplitude /\ SameOptions(r, c)
        /\ r.skewed = skewed
    BY <1>0, <2>1, <2>3, <2>y DEF CarouselShapes, SameOptions
  <2>7. ~skewed => x = 2 * slot /\ Slot(x) = slot BY <2>x, <2>y, SlotIs
  <2>8. MiddleShown(r) BY <1>0, <2>1, <2>6, <2>7 DEF MiddleShown
  <2>9. TargetIsSlot(r) BY <2>2, <2>6, <2>7 DEF TargetIsSlot
  <2>10. RestsAtTarget(r) /\ AmplitudeSound(r)
    BY <1>0, <2>6 DEF RestsAtTarget, AmplitudeSound
  <2> QED BY <2>1, <2>4, <2>5, <2>6, <2>8, <2>9, <2>10 DEF CarouselSound
<1>2. CASE ~c.fullWidth
  <2>1. PICK r : r = Scrolled(c, c.offset) OBVIOUS
  <2>2. Resized(c) = r BY <1>2, <2>1 DEF Resized
  <2>3. c.offset \in Int /\ (c.pressed \/ (c.frame /\ c.amplitude # 0) \/ c.offset = c.target)
    BY <1>0 DEF RestsAtTarget, CarouselShapes
  <2>4. CarouselSound(r) /\ SameTurning(r, c) BY <1>0, <2>1, <2>3, ScrolledSound
  <2> QED BY <1>2, <2>2, <2>4 DEF SameTurning, SameOptions
<1> QED BY <1>1, <1>2

-----------------------------------------------------------------------------
(* The finger, and the frames on the way                                    *)

\* A step keeps the middle, is made while the finger moves it, or on the way to the target.
LEMMA TappedSound ==
    ASSUME NEW c, CarouselFits(c)
    PROVE  LET r == Tapped(c) IN
           CarouselSound(r) /\ SameOptions(r, c) /\ SameMiddle(r, c) /\ r.pressed
<1>1. c \in CarouselShapes /\ TargetIsSlot(c) /\ MiddleShown(c) BY FitsHas
<1>2. PICK r : r = [c EXCEPT !.pressed = TRUE, !.dragged = FALSE, !.verticalDragged = FALSE,
                             !.amplitude = 0]
  OBVIOUS
<1>a. PICK a : a = [c EXCEPT !.pressed = TRUE, !.dragged = FALSE] OBVIOUS
<1>b. a \in CarouselShapes BY <1>1, <1>a DEF CarouselShapes
<1>0. PICK none \in Int : none = 0 OBVIOUS
<1>c. PICK b : b = [a EXCEPT !.verticalDragged = FALSE, !.amplitude = none] OBVIOUS
<1>d. b \in CarouselShapes BY <1>b, <1>c DEF CarouselShapes
<1>e. r = b BY <1>0, <1>1, <1>2, <1>a, <1>c DEF CarouselShapes
<1>3. r \in CarouselShapes BY <1>d, <1>e
<1>4. /\ SameOptions(r, c) /\ SameMiddle(r, c) /\ r.pressed = TRUE /\ r.amplitude = 0
      /\ r.target = c.target
  BY <1>1, <1>2 DEF CarouselShapes, SameOptions, SameMiddle
<1>5. MiddleShown(r) BY <1>1, <1>4 DEF MiddleShown, SameMiddle, SameOptions
<1>6. TargetIsSlot(r) /\ RestsAtTarget(r)
  BY <1>1, <1>4 DEF TargetIsSlot, RestsAtTarget, SameMiddle
<1>7. AmplitudeSound(r) BY <1>4, CarouselAssumption DEF AmplitudeSound
<1> QED BY <1>2, <1>3, <1>4, <1>5, <1>6, <1>7 DEF Tapped, CarouselSound

LEMMA DraggedSound ==
    ASSUME NEW c, CarouselFits(c), c.pressed, NEW r \in DraggedAlong(c) \cup {DraggedAcross(c)}
    PROVE  CarouselSound(r) /\ SameOptions(r, c) /\ r.pressed
<1>0. /\ c \in CarouselShapes /\ TargetIsSlot(c) /\ MiddleShown(c) /\ CarouselSound(c)
      /\ c.amplitude \in -(2 * MaxReach + 2) .. 2 * MaxReach + 2
  BY FitsHas DEF CarouselFits
<1>1. CASE r = c BY <1>0, <1>1 DEF SameOptions
<1>2. CASE r = DraggedAcross(c) /\ r # c
  <2>1. PICK d : d = [c EXCEPT !.verticalDragged = TRUE] OBVIOUS
  <2>a. r = d BY <1>2, <2>1 DEF DraggedAcross
  <2>b. d \in CarouselShapes BY <1>0, <2>1 DEF CarouselShapes
  <2>2. r \in CarouselShapes BY <2>a, <2>b
  <2>3. SameOptions(r, c) /\ SameMiddle(r, c) /\ SameTurning(r, c)
    BY <1>0, <2>1, <2>a DEF CarouselShapes, SameOptions, SameMiddle, SameTurning
  <2>4. MiddleShown(r) BY <1>0, <2>3 DEF MiddleShown, SameMiddle, SameOptions
  <2>5. TargetIsSlot(r) /\ RestsAtTarget(r) /\ AmplitudeSound(r)
    BY <1>0, <2>3 DEF TargetIsSlot, RestsAtTarget, AmplitudeSound, SameTurning
  <2> QED BY <2>2, <2>3, <2>4, <2>5 DEF CarouselSound, SameTurning
<1>3. CASE r \in DraggedAlong(c) /\ r # c
  <2>1. PICK by \in {-2, -1, 1, 2} : r = Scrolled([c EXCEPT !.dragged = TRUE], c.offset + by)
    BY <1>3 DEF DraggedAlong
  <2>2. PICK d : d = [c EXCEPT !.dragged = TRUE] OBVIOUS
  <2>3. PICK x \in Int : x = c.offset + by BY <1>0 DEF CarouselShapes
  <2>4. d \in CarouselShapes BY <1>0, <2>2 DEF CarouselShapes
  <2>5. SameOptions(d, c) /\ SameTurning(d, c)
    BY <1>0, <2>2 DEF CarouselShapes, SameOptions, SameTurning
  <2>6. TargetIsSlot(d) BY <1>0, <2>5 DEF TargetIsSlot, SameTurning
  <2>7. d.pressed /\ d.amplitude \in -(2 * MaxReach + 2) .. 2 * MaxReach + 2
    BY <1>0, <2>5 DEF SameTurning
  <2>8. CarouselSound(r) /\ SameTurning(r, d) BY <2>1, <2>2, <2>3, <2>4, <2>6, <2>7, ScrolledSound
  <2> QED BY <2>5, <2>8 DEF SameTurning, SameOptions
<1> QED BY <1>1, <1>2, <1>3

LEMMA ReleasedSound ==
    ASSUME NEW c, CarouselFits(c), NEW r \in CarouselReleased(c)
    PROVE  CarouselSound(r) /\ SameOptions(r, c) /\ SameMiddle(r, c) /\ ~r.pressed
<1>0. c \in CarouselShapes /\ TargetIsSlot(c) /\ MiddleShown(c) BY FitsHas
<1>1. PICK n \in Nat : n = Slides /\ n > 0 BY CarouselAssumption
<1> DEFINE within(x) == IF ~c.noWrap THEN x
                        ELSE IF x >= 2 * (n - 1) THEN 2 * (n - 1)
                        ELSE IF x < 0 THEN 0 ELSE x
<1>2. PICK fling \in {-2, 0, 2} :
        r = [c EXCEPT !.pressed = FALSE, !.target = within(2 * Slot(c.offset + fling)),
                      !.amplitude = within(2 * Slot(c.offset + fling)) - c.offset,
                      !.frame = TRUE, !.astray = FALSE]
  BY <1>1 DEF CarouselReleased
<1>3. PICK near \in Int : near = Slot(c.offset + fling)
  <2>1. c.offset + fling \in Int BY <1>0 DEF CarouselShapes
  <2> QED BY <2>1, SlotIs
<1>4. PICK slot \in Int : within(2 * near) = 2 * slot /\ (c.noWrap => slot \in 0 .. n - 1)
  <2>1. CASE ~c.noWrap
    <3>1. within(2 * near) = 2 * near BY <2>1
    <3> QED BY <2>1, <3>1
  <2>2. CASE c.noWrap /\ near >= n - 1
    <3>1. within(2 * near) = 2 * (n - 1) /\ n - 1 \in 0 .. n - 1 BY <1>1, <2>2
    <3> QED BY <3>1
  <2>3. CASE c.noWrap /\ near < n - 1 /\ near < 0
    <3>1. within(2 * near) = 2 * 0 /\ 0 \in 0 .. n - 1 BY <1>1, <2>3
    <3> QED BY <3>1
  <2>4. CASE c.noWrap /\ near < n - 1 /\ near >= 0
    <3>1. within(2 * near) = 2 * near /\ near \in 0 .. n - 1 BY <1>1, <2>4
    <3> QED BY <3>1
  <2> QED BY <1>1, <2>1, <2>2, <2>3, <2>4
<1>5. PICK target \in Int, amplitude \in Int : target = 2 * slot /\ amplitude = target - c.offset
  BY <1>0 DEF CarouselShapes
<1>6. r = [c EXCEPT !.pressed = FALSE, !.target = target, !.amplitude = amplitude,
                    !.frame = TRUE, !.astray = FALSE]
  BY <1>2, <1>3, <1>4, <1>5
<1>7. r \in CarouselShapes BY <1>0, <1>6 DEF CarouselShapes
<1>8. /\ SameOptions(r, c) /\ SameMiddle(r, c) /\ r.pressed = FALSE /\ r.target = target
      /\ r.amplitude = amplitude /\ r.frame = TRUE
  BY <1>0, <1>6 DEF CarouselShapes, SameOptions, SameMiddle
<1>9. MiddleShown(r) BY <1>0, <1>8 DEF MiddleShown, SameMiddle, SameOptions
<1>10. TargetIsSlot(r)
  <2>1. Slot(target) = slot BY <1>5, SlotIs
  <2>2. c.noWrap => HasSlide(slot) BY <1>1, <1>4 DEF HasSlide
  <2> QED BY <1>5, <1>8, <2>1, <2>2 DEF TargetIsSlot, SameOptions, SameMiddle
<1>11. AmplitudeSound(r) BY <1>5, <1>8 DEF AmplitudeSound, SameMiddle
<1>12. RestsAtTarget(r)
  <2>1. amplitude = 0 => target = c.offset
    <3>1. c.offset \in Int BY <1>0 DEF CarouselShapes
    <3> QED BY <1>5, <3>1
  <2> QED BY <1>8, <2>1 DEF RestsAtTarget, SameMiddle
<1> QED BY <1>7, <1>8, <1>9, <1>10, <1>11, <1>12 DEF CarouselSound

LEMMA TouchingSound ==
    ASSUME NEW c, CarouselFits(c), NEW r \in Touching(c)
    PROVE  /\ CarouselSound(r) /\ SameOptions(r, c)
           /\ ~c.pressed \/ ~r.pressed => SameMiddle(r, c)
<1>1. CASE c.pressed
  <2>1. CASE r \in DraggedAlong(c) \cup {DraggedAcross(c)} BY <1>1, <2>1, DraggedSound
  <2>2. CASE r \in CarouselReleased(c) BY <1>1, <2>2, ReleasedSound
  <2> QED BY <1>1, <2>1, <2>2 DEF Touching
<1>2. CASE ~c.pressed
  <2>1. r = Tapped(c) BY <1>2 DEF Touching
  <2> QED BY <2>1, TappedSound
<1> QED BY <1>1, <1>2

\* A frame leaves the target.
LEMMA FrameSound ==
    ASSUME NEW c, CarouselFits(c), c.frame, NEW r \in Frame(c)
    PROVE  /\ CarouselSound(r) /\ SameOptions(r, c) /\ r.pressed = c.pressed
           /\ r.target = c.target
<1>0. /\ c \in CarouselShapes /\ TargetIsSlot(c) /\ MiddleShown(c) /\ RestsAtTarget(c)
      /\ c.amplitude \in -(2 * MaxReach + 2) .. 2 * MaxReach + 2 /\ c.target \in Int
  BY FitsHas DEF CarouselShapes
<1>1. ASSUME NEW s, s \in CarouselShapes, SameOptions(s, c), s.pressed = c.pressed,
             s.target = c.target, s.astray = c.astray, s.amplitude = c.amplitude,
             s.skewed = c.skewed, s.offset = s.target, MiddleShown(s)
      PROVE  CarouselSound(s)
  <2>1. TargetIsSlot(s) /\ RestsAtTarget(s) /\ AmplitudeSound(s)
    BY <1>0, <1>1 DEF TargetIsSlot, RestsAtTarget, AmplitudeSound, SameOptions
  <2> QED BY <1>1, <2>1 DEF CarouselSound
<1>2. ASSUME NEW s, s \in CarouselShapes, MiddleShown(s), SameTurning(s, c), s.offset = c.target,
             r = [s EXCEPT !.frame = FALSE]
      PROVE  CarouselSound(r) /\ SameOptions(r, c) /\ r.pressed = c.pressed /\ r.target = c.target
  <2>1. r \in CarouselShapes BY <1>2 DEF CarouselShapes
  <2>2. /\ SameMiddle(r, s) /\ SameOptions(r, c) /\ r.pressed = c.pressed
        /\ r.target = c.target /\ r.astray = c.astray /\ r.amplitude = c.amplitude
        /\ r.skewed = c.skewed
    BY <1>2 DEF CarouselShapes, SameMiddle, SameOptions, SameTurning
  <2>3. MiddleShown(r)
    BY <1>2, <2>2 DEF MiddleShown, SameMiddle, SameOptions, SameTurning
  <2>4. r.offset = r.target BY <1>2, <2>2 DEF SameMiddle
  <2> QED BY <1>1, <2>1, <2>2, <2>3, <2>4
<1>3. CASE c.amplitude = 0 /\ ~c.pressed
  <2>1. r = [c EXCEPT !.frame = FALSE] BY <1>3 DEF Frame
  <2>2. c.offset = c.target BY <1>0, <1>3 DEF RestsAtTarget
  <2>3. SameTurning(c, c) BY DEF SameTurning
  <2> QED BY <1>0, <1>2, <2>1, <2>2, <2>3
<1>4. CASE c.amplitude = 0 /\ c.pressed
  <2>1. r = [c EXCEPT !.frame = FALSE] BY <1>4 DEF Frame
  <2>2. r \in CarouselShapes BY <1>0, <2>1 DEF CarouselShapes
  <2>3. /\ SameMiddle(r, c) /\ SameOptions(r, c) /\ r.pressed = c.pressed
        /\ r.target = c.target /\ r.astray = c.astray /\ r.amplitude = c.amplitude
    BY <1>0, <2>1 DEF CarouselShapes, SameMiddle, SameOptions
  <2>4. MiddleShown(r) BY <1>0, <2>3 DEF MiddleShown, SameMiddle, SameOptions
  <2>5. TargetIsSlot(r) /\ RestsAtTarget(r) /\ AmplitudeSound(r)
    BY <1>0, <1>4, <2>3 DEF TargetIsSlot, RestsAtTarget, AmplitudeSound, SameMiddle, SameOptions
  <2> QED BY <2>2, <2>3, <2>4, <2>5 DEF CarouselSound
<1>5. CASE c.amplitude # 0 /\ r = [Scrolled(c, c.target) EXCEPT !.frame = FALSE]
  <2>1. PICK s : s = Scrolled(c, c.target) OBVIOUS
  <2>2. s \in CarouselShapes /\ s.offset = c.target /\ MiddleShown(s) /\ SameTurning(s, c)
    BY <1>0, <2>1, ScrolledIs
  <2> QED BY <1>2, <1>5, <2>1, <2>2
<1>6. CASE c.amplitude # 0 /\ \E x \in Int : r = Scrolled(c, x)
  <2>1. PICK x \in Int : r = Scrolled(c, x) BY <1>6
  <2>2. CarouselSound(r) /\ SameTurning(r, c) BY <1>0, <1>6, <2>1, ScrolledSound
  <2> QED BY <2>2 DEF SameTurning, SameOptions
<1>7. c.amplitude # 0 => \/ r = [Scrolled(c, c.target) EXCEPT !.frame = FALSE]
                         \/ \E x \in Int : r = Scrolled(c, x)
  <2>1. SUFFICES ASSUME c.amplitude # 0, r # [Scrolled(c, c.target) EXCEPT !.frame = FALSE]
                 PROVE  \E x \in Int : r = Scrolled(c, x)
    OBVIOUS
  <2>2. PICK left : left = IF c.amplitude > 0 THEN 1 .. c.amplitude ELSE c.amplitude .. -1
    OBVIOUS
  <2>3. PICK d \in left : r = Scrolled(c, c.target - d) BY <2>1, <2>2 DEF Frame
  <2>4. d \in Int BY <2>2
  <2>5. c.target - d \in Int BY <1>0, <2>4
  <2> QED BY <2>3, <2>5
<1> QED BY <1>3, <1>4, <1>5, <1>6, <1>7

-----------------------------------------------------------------------------
LEMMA CarouselInitFits ==
    ASSUME NEW c \in CarouselInit PROVE CarouselFits(c)
<1>1. PICK noWrap \in BOOLEAN, fullWidth \in BOOLEAN, padded \in BOOLEAN :
        c = NewCarousel(noWrap, fullWidth, padded)
  BY DEF CarouselInit
<1> QED BY <1>1, NewCarouselSound

LEMMA CarouselKeeps ==
    ASSUME OnPage("Carousel"), CarouselFits(widget["Carousel"]), CarouselStep
    PROVE  CarouselFits(widget["Carousel"])'
<1>1. PICK now : now = widget["Carousel"] OBVIOUS
<1>2. CarouselFits(now) BY <1>1
<1>3. PICK d : /\ d \in UNION {Touching(now), Asked(now), {Resized(now)},
                               {Clicked(now, n) : n \in -1 .. Slides - 1},
                               IF now.frame THEN Frame(now) ELSE {}}
               /\ WithinReach(d) /\ Steps("Carousel", d)
  BY <1>1 DEF CarouselStep
<1>4. widget'["Carousel"] = d BY <1>3, BecomesIs DEF Steps
<1>5. Slides \in Int BY CarouselAssumption
<1>6. CarouselSound(d)
  <2>1. CASE d \in Touching(now) BY <1>2, <2>1, TouchingSound
  <2>2. CASE d \in Asked(now)
    <3>1. CASE \E by \in {-1, 1} : d = Turned(now, by)
      <4>1. PICK by \in {-1, 1} : d = Turned(now, by) BY <3>1
      <4>2. 0 \in Int OBVIOUS
      <4>3. Turning(Turned(now, by), now) BY <1>2, <4>2, AskedSound
      <4> QED BY <4>1, <4>3 DEF Turning
    <3>2. CASE \E n \in -1 .. Slides + 1 : d = SetSlide(now, n)
      <4>1. PICK n \in Int : d = SetSlide(now, n) BY <3>2, <1>5
      <4>2. 1 \in {-1, 1} OBVIOUS
      <4>3. Turning(SetSlide(now, n), now) BY <1>2, <4>2, AskedSound
      <4> QED BY <4>1, <4>3 DEF Turning
    <3> QED BY <2>2, <3>1, <3>2 DEF Asked
  <2>3. CASE d = Resized(now) BY <1>2, <2>3, ResizedSound
  <2>4. CASE \E n \in -1 .. Slides - 1 : d = Clicked(now, n)
    <3>1. PICK n \in Int : d = Clicked(now, n) BY <2>4, <1>5
    <3>2. 1 \in {-1, 1} OBVIOUS
    <3>3. Turning(Clicked(now, n), now) BY <1>2, <3>2, AskedSound
    <3> QED BY <3>1, <3>3 DEF Turning
  <2>5. CASE now.frame /\ d \in Frame(now) BY <1>2, <2>5, FrameSound
  <2> QED BY <1>3, <2>1, <2>2, <2>3, <2>4, <2>5
<1> QED BY <1>3, <1>4, <1>6 DEF CarouselFits

LEMMA CarouselGives ==
    ASSUME NEW c, CarouselFits(c) PROVE c \in CarouselStates /\ CarouselShows(c)
<1>1. /\ c \in CarouselShapes /\ MiddleShown(c) /\ TargetIsSlot(c) /\ RestsAtTarget(c)
      /\ c.center \in -1 .. MaxReach
  BY FitsHas
<1>2. c.center \in Int BY <1>1, CarouselAssumption
<1>3. ~c.noWrap \/ HasSlide(c.center) =>
        c.active = c.indicator /\ (c.center - c.active) % Slides = 0
  BY <1>1, <1>2, WrapIs DEF MiddleShown
<1>4. ~c.pressed /\ ~c.frame =>
        /\ c.offset = c.target
        /\ ~c.skewed => /\ c.offset = 2 * c.center
                        /\ c.noWrap => c.astray \/ HasSlide(c.center)
  BY <1>1 DEF MiddleShown, TargetIsSlot, RestsAtTarget
<1> QED BY <1>3, <1>4, CarouselIsState DEF CarouselShows

-----------------------------------------------------------------------------
(* Tabs                                                                     *)

TabsStates ==
    [swipeable : BOOLEAN, disabled : SUBSET TabLinks, panel : [TabLinks -> TabLinks \cup {NoPanel}],
     activeTabLink : TabLinks, index : TabLinks \cup {NoLink},
     content : TabLinks \cup {NoPanel}, displayed : SUBSET TabLinks, wrapped : BOOLEAN,
     carousel : CarouselStates, width : {"known", "none", "lost"}, indicator : TabLinks,
     moving : SUBSET TabLinks, timer : BOOLEAN, interrupted : BOOLEAN]

IndicatorFollows(t) ==
    /\ t.width # "lost" => t.index = t.activeTabLink
    /\ t.moving \subseteq {t.activeTabLink}
    /\ ~t.timer /\ t.moving = {} => t.indicator = t.activeTabLink
PanelDisplayed(t) ==
    ~t.wrapped /\ NoPanel \notin ToSet(t.panel) =>
      t.displayed = {t.panel[t.activeTabLink]} /\ t.content = t.panel[t.activeTabLink]

\* Panels made slides are panels of all links, and those of swipeable tabs are never hidden.
OfTabs(c) == c.noWrap /\ c.fullWidth /\ ~c.padded /\ ~c.skewed
PanelsWrapped(t) ==
    /\ t.swipeable => t.wrapped
    /\ t.wrapped =>
         /\ \A i \in TabLinks : t.panel[i] = i
         /\ t.content \in t.displayed /\ OfTabs(t.carousel)
         /\ t.swipeable => t.displayed = TabLinks
    /\ t.swipeable \/ ~t.wrapped => t.width = "known"

\* Under a finger that did not break in, and at the target, the tab in the middle is active.
Settled(c) == c.pressed \/ c.center = Slot(c.target)
MiddleIsActive(t) ==
    t.swipeable /\ ~t.interrupted /\ Settled(t.carousel) =>
      t.activeTabLink = _wrap(t.carousel.center)

TabsFits(t) ==
    /\ t \in TabsStates /\ CarouselFits(t.carousel)
    /\ IndicatorFollows(t) /\ PanelDisplayed(t) /\ PanelsWrapped(t) /\ MiddleIsActive(t)

LEMMA TabsHas ==
    ASSUME NEW t, TabsFits(t)
    PROVE  /\ t \in TabsStates /\ CarouselFits(t.carousel) /\ t.activeTabLink \in TabLinks
           /\ t.carousel \in CarouselShapes /\ t.carousel.center \in Int
           /\ t.interrupted \in BOOLEAN /\ t.swipeable \in BOOLEAN /\ t.wrapped \in BOOLEAN
           /\ t.carousel.pressed \in BOOLEAN /\ t.carousel.frame \in BOOLEAN
           /\ t.panel \in [TabLinks -> TabLinks \cup {NoPanel}]
<1>1. t \in TabsStates /\ CarouselFits(t.carousel) BY DEF TabsFits
<1>2. t.carousel \in CarouselShapes BY <1>1, FitsHas
<1>3. /\ t.carousel.center \in Int /\ t.carousel.pressed \in BOOLEAN
      /\ t.carousel.frame \in BOOLEAN
  BY <1>2 DEF CarouselShapes
<1> QED BY <1>1, <1>2, <1>3 DEF TabsStates

\* The carousel goes on to c.
LEMMA WithCarouselFits ==
    ASSUME NEW t, TabsFits(t), t.wrapped, NEW c, CarouselFits(c), SameOptions(c, t.carousel),
           NEW broken \in BOOLEAN,
           t.swipeable /\ ~broken /\ Settled(c) /\ c.center = t.carousel.center =>
             t.activeTabLink = _wrap(c.center)
    PROVE  TabsFits([WithCarousel(t, c) EXCEPT !.interrupted = broken])
<1>0. t \in TabsStates /\ t.activeTabLink \in TabLinks BY TabsHas
<1>1. PICK i \in TabLinks : i = IF c.center = t.carousel.center THEN t.activeTabLink
                                ELSE _wrap(c.center)
  <2>1. c.center \in Int BY FitsHas, CarouselAssumption
  <2> QED BY <1>0, <2>1, WrapIs DEF TabLinks
<1>2. PICK r : r = IF c.center = t.carousel.center
                   THEN [t EXCEPT !.carousel = c, !.interrupted = broken]
                   ELSE [t EXCEPT !.carousel = c, !.index = i, !.activeTabLink = i, !.moving = {i},
                                  !.interrupted = broken]
  OBVIOUS
<1>3. r = [WithCarousel(t, c) EXCEPT !.interrupted = broken]
  BY <1>0, <1>1, <1>2 DEF WithCarousel, CycledTo, TabsStates
<1>4. c \in CarouselStates BY CarouselIsState
<1>5. {i} \in SUBSET TabLinks OBVIOUS
<1>6. r \in TabsStates BY <1>0, <1>2, <1>4, <1>5 DEF TabsStates
<1>7. /\ r.carousel = c /\ r.interrupted = broken /\ r.activeTabLink = i
      /\ r.swipeable = t.swipeable /\ r.panel = t.panel /\ r.displayed = t.displayed
      /\ r.content = t.content /\ r.timer = t.timer /\ r.indicator = t.indicator
      /\ r.wrapped = t.wrapped /\ r.width = t.width
  BY <1>0, <1>1, <1>2 DEF TabsStates
<1>8. IndicatorFollows(r)
  <2>1. CASE c.center = t.carousel.center
    <3>1. r.index = t.index /\ r.moving = t.moving BY <1>0, <1>2, <2>1 DEF TabsStates
    <3> QED BY <1>1, <1>7, <2>1, <3>1 DEF TabsFits, IndicatorFollows
  <2>2. CASE c.center # t.carousel.center
    <3>1. r.index = i /\ r.moving = {i} BY <1>0, <1>2, <2>2 DEF TabsStates
    <3> QED BY <1>7, <3>1 DEF IndicatorFollows
  <2> QED BY <2>1, <2>2
<1>9. MiddleIsActive(r) /\ PanelDisplayed(r) BY <1>1, <1>7 DEF MiddleIsActive, PanelDisplayed
<1>a. PanelsWrapped(r)
  <2>1. OfTabs(c) BY DEF TabsFits, PanelsWrapped, OfTabs, SameOptions
  <2> QED BY <1>7, <2>1 DEF TabsFits, PanelsWrapped
<1>10. TabsFits(r) BY <1>6, <1>7, <1>8, <1>9, <1>a DEF TabsFits
<1> QED BY <1>3, <1>10

\* The indicator is put under the active tab,
LEMMA PutFits ==
    ASSUME NEW t, TabsFits(t)
    PROVE  TabsFits([t EXCEPT !.indicator = t.activeTabLink])
<1>0. t \in TabsStates /\ t.activeTabLink \in TabLinks BY TabsHas
<1>1. PICK r : r = [t EXCEPT !.indicator = t.activeTabLink] OBVIOUS
<1>2. r \in TabsStates BY <1>0, <1>1 DEF TabsStates
<1>3. /\ r.carousel = t.carousel /\ r.interrupted = t.interrupted /\ r.index = t.index
      /\ r.activeTabLink = t.activeTabLink /\ r.swipeable = t.swipeable /\ r.panel = t.panel
      /\ r.displayed = t.displayed /\ r.content = t.content /\ r.timer = t.timer
      /\ r.indicator = t.activeTabLink /\ r.moving = t.moving
      /\ r.wrapped = t.wrapped /\ r.width = t.width
  BY <1>0, <1>1 DEF TabsStates
<1>4. IndicatorFollows(r) BY <1>3 DEF IndicatorFollows, TabsFits
<1>5. PanelDisplayed(r) /\ PanelsWrapped(r) /\ MiddleIsActive(r)
  BY <1>3 DEF PanelDisplayed, PanelsWrapped, MiddleIsActive, TabsFits
<1> QED BY <1>1, <1>2, <1>3, <1>4, <1>5 DEF TabsFits

\* and the width is noted, where it is not lost,
LEMMA MeasuredFits ==
    ASSUME NEW t, TabsFits(t), NEW width \in {"known", "none", "lost"},
           t.width = "lost" => width = "lost", t.swipeable \/ ~t.wrapped => width = "known"
    PROVE  TabsFits([t EXCEPT !.width = width])
<1>0. t \in TabsStates /\ t.activeTabLink \in TabLinks BY TabsHas
<1>1. PICK r : r = [t EXCEPT !.width = width] OBVIOUS
<1>2. r \in TabsStates BY <1>0, <1>1 DEF TabsStates
<1>3. /\ r.carousel = t.carousel /\ r.interrupted = t.interrupted /\ r.index = t.index
      /\ r.activeTabLink = t.activeTabLink /\ r.swipeable = t.swipeable /\ r.panel = t.panel
      /\ r.displayed = t.displayed /\ r.content = t.content /\ r.timer = t.timer
      /\ r.indicator = t.indicator /\ r.moving = t.moving
      /\ r.wrapped = t.wrapped /\ r.width = width
  BY <1>0, <1>1 DEF TabsStates
<1>4. IndicatorFollows(r) BY <1>3 DEF IndicatorFollows, TabsFits
<1>5. PanelDisplayed(r) /\ PanelsWrapped(r) /\ MiddleIsActive(r)
  BY <1>3 DEF PanelDisplayed, PanelsWrapped, MiddleIsActive, TabsFits
<1> QED BY <1>1, <1>2, <1>3, <1>4, <1>5 DEF TabsFits

\* by the timer,
LEMMA TimerFits ==
    ASSUME NEW t, TabsFits(t)
    PROVE  TabsFits([t EXCEPT !.timer = FALSE, !.indicator = t.activeTabLink])
<1>0. t \in TabsStates /\ t.activeTabLink \in TabLinks BY TabsHas
<1>1. PICK r : r = [t EXCEPT !.timer = FALSE, !.indicator = t.activeTabLink] OBVIOUS
<1>2. r \in TabsStates BY <1>0, <1>1 DEF TabsStates
<1>3. /\ r.carousel = t.carousel /\ r.interrupted = t.interrupted /\ r.index = t.index
      /\ r.activeTabLink = t.activeTabLink /\ r.swipeable = t.swipeable /\ r.panel = t.panel
      /\ r.displayed = t.displayed /\ r.content = t.content
      /\ r.indicator = t.activeTabLink /\ r.moving = t.moving
      /\ r.wrapped = t.wrapped /\ r.width = t.width
  BY <1>0, <1>1 DEF TabsStates
<1>4. IndicatorFollows(r) BY <1>3 DEF IndicatorFollows, TabsFits
<1>5. PanelDisplayed(r) /\ PanelsWrapped(r) /\ MiddleIsActive(r)
  BY <1>3 DEF PanelDisplayed, PanelsWrapped, MiddleIsActive, TabsFits
<1> QED BY <1>1, <1>2, <1>3, <1>4, <1>5 DEF TabsFits

\* and at the end of its way there.
LEMMA PanelsMovedFits ==
    ASSUME NEW t, TabsFits(t), NEW i \in t.moving
    PROVE  TabsFits([t EXCEPT !.moving = {}, !.indicator = i])
<1>0. t \in TabsStates /\ t.activeTabLink \in TabLinks BY TabsHas
<1>1. i = t.activeTabLink BY DEF TabsFits, IndicatorFollows
<1>2. PICK r : r = [t EXCEPT !.moving = {}, !.indicator = i] OBVIOUS
<1>3. r \in TabsStates
  <2>1. {} \in SUBSET TabLinks OBVIOUS
  <2> QED BY <1>0, <1>1, <1>2, <2>1 DEF TabsStates
<1>4. /\ r.carousel = t.carousel /\ r.interrupted = t.interrupted /\ r.index = t.index
      /\ r.activeTabLink = t.activeTabLink /\ r.swipeable = t.swipeable /\ r.panel = t.panel
      /\ r.displayed = t.displayed /\ r.content = t.content
      /\ r.indicator = t.activeTabLink /\ r.moving = {}
      /\ r.wrapped = t.wrapped /\ r.width = t.width
  BY <1>0, <1>1, <1>2 DEF TabsStates
<1>5. IndicatorFollows(r) BY <1>4 DEF IndicatorFollows, TabsFits
<1>6. PanelDisplayed(r) /\ PanelsWrapped(r) /\ MiddleIsActive(r)
  BY <1>4 DEF PanelDisplayed, PanelsWrapped, MiddleIsActive, TabsFits
<1> QED BY <1>2, <1>3, <1>4, <1>5, <1>6 DEF TabsFits

\* A finger, the window and the frames
LEMMA SwipedFits ==
    ASSUME NEW t, TabsFits(t), t.wrapped, NEW c \in Touching(t.carousel), WithinReach(c)
    PROVE  TabsFits([WithCarousel(t, c) EXCEPT
                       !.interrupted = @ \/ (t.carousel.frame /\ ~t.carousel.pressed)])
<1>0. t \in TabsStates /\ CarouselFits(t.carousel) /\ t.carousel \in CarouselShapes BY TabsHas
<1>1. /\ CarouselSound(c) /\ SameOptions(c, t.carousel)
      /\ ~t.carousel.pressed \/ ~c.pressed => SameMiddle(c, t.carousel)
  BY <1>0, TouchingSound
<1>2. CarouselFits(c) BY <1>1 DEF CarouselFits
<1>3. PICK broken \in BOOLEAN :
        /\ broken = (t.interrupted \/ (t.carousel.frame /\ ~t.carousel.pressed))
        /\ ~broken => ~t.interrupted /\ (t.carousel.pressed \/ ~t.carousel.frame)
  <2>1. CASE t.interrupted \/ (t.carousel.frame /\ ~t.carousel.pressed) BY <2>1
  <2>2. CASE ~(t.interrupted \/ (t.carousel.frame /\ ~t.carousel.pressed)) BY <2>2
  <2> QED BY <2>1, <2>2
<1>4. ASSUME t.swipeable, ~broken, c.center = t.carousel.center
      PROVE  t.activeTabLink = _wrap(c.center)
  <2>1. t.carousel.pressed \/ t.carousel.center = Slot(t.carousel.target)
    <3>1. SUFFICES ASSUME ~t.carousel.pressed
                   PROVE  t.carousel.center = Slot(t.carousel.target)
      OBVIOUS
    <3>2. ~t.carousel.frame BY <1>3, <1>4, <3>1
    <3>3. ~t.carousel.skewed BY DEF TabsFits, PanelsWrapped, OfTabs
    <3> QED BY <1>0, <3>1, <3>2, <3>3, FitsHas DEF MiddleShown, RestsAtTarget
  <2> QED BY <1>3, <1>4, <2>1 DEF TabsFits, MiddleIsActive, Settled
<1>5. TabsFits([WithCarousel(t, c) EXCEPT !.interrupted = broken])
  BY <1>1, <1>2, <1>4, WithCarouselFits
<1>6. PICK r : r = WithCarousel(t, c) OBVIOUS
<1>7. r.interrupted = t.interrupted
  <2>1. CASE c.center = t.carousel.center
    <3>1. r = [t EXCEPT !.carousel = c] BY <1>6, <2>1 DEF WithCarousel
    <3> QED BY <1>0, <3>1 DEF TabsStates
  <2>2. CASE c.center # t.carousel.center
    <3>1. PICK s : s = [t EXCEPT !.carousel = c] OBVIOUS
    <3>2. r = [s EXCEPT !.index = _wrap(c.center), !.activeTabLink = _wrap(c.center),
                        !.moving = {_wrap(c.center)}]
      BY <1>6, <2>2, <3>1 DEF WithCarousel, CycledTo
    <3> QED BY <1>0, <3>1, <3>2 DEF TabsStates
  <2> QED BY <2>1, <2>2
<1>8. [r EXCEPT !.interrupted = @ \/ (t.carousel.frame /\ ~t.carousel.pressed)]
      = [r EXCEPT !.interrupted = broken]
  <2>1. (r.interrupted \/ (t.carousel.frame /\ ~t.carousel.pressed)) = broken BY <1>3, <1>7
  <2> QED BY <2>1
<1> QED BY <1>5, <1>6, <1>8

LEMMA FramedFits ==
    ASSUME NEW t, TabsFits(t), t.wrapped, t.carousel.frame,
           NEW c \in Frame(t.carousel), WithinReach(c)
    PROVE  TabsFits(WithCarousel(t, c))
<1>0. /\ t \in TabsStates /\ CarouselFits(t.carousel) /\ t.carousel \in CarouselShapes
      /\ t.interrupted \in BOOLEAN
  BY TabsHas
<1>1. /\ CarouselSound(c) /\ SameOptions(c, t.carousel) /\ c.pressed = t.carousel.pressed
      /\ c.target = t.carousel.target
  BY <1>0, FrameSound
<1>2. CarouselFits(c) BY <1>1 DEF CarouselFits
<1>3. t.swipeable /\ ~t.interrupted /\ Settled(c) /\ c.center = t.carousel.center =>
        t.activeTabLink = _wrap(c.center)
  BY <1>1 DEF TabsFits, MiddleIsActive, Settled
<1>4. TabsFits([WithCarousel(t, c) EXCEPT !.interrupted = t.interrupted])
  BY <1>0, <1>1, <1>2, <1>3, WithCarouselFits
<1>5. [WithCarousel(t, c) EXCEPT !.interrupted = t.interrupted] = WithCarousel(t, c)
  <2>1. CASE c.center = t.carousel.center
    BY <1>0, <2>1 DEF WithCarousel, TabsStates
  <2>2. CASE c.center # t.carousel.center
    BY <1>0, <2>2 DEF WithCarousel, CycledTo, TabsStates
  <2> QED BY <2>1, <2>2
<1> QED BY <1>4, <1>5

LEMMA WindowFits ==
    ASSUME NEW t, TabsFits(t), t.wrapped, t.width # "lost", WithinReach(Resized(t.carousel))
    PROVE  TabsFits([WithCarousel(t, Resized(t.carousel)) EXCEPT
                       !.indicator = t.activeTabLink, !.interrupted = @ \/ t.carousel.frame,
                       !.width = "known"])
<1>0. /\ t \in TabsStates /\ CarouselFits(t.carousel) /\ t.carousel \in CarouselShapes
      /\ t.interrupted \in BOOLEAN /\ t.carousel.frame \in BOOLEAN
      /\ t.activeTabLink \in TabLinks
  BY TabsHas
<1>1. t.carousel.fullWidth /\ ~t.carousel.skewed BY DEF TabsFits, PanelsWrapped, OfTabs
<1>2. PICK c : c = Resized(t.carousel) OBVIOUS
<1>3. /\ CarouselSound(c) /\ SameOptions(c, t.carousel) /\ c.pressed = t.carousel.pressed
      /\ c.center = t.carousel.center
  BY <1>0, <1>1, <1>2, ResizedSound
<1>4. CarouselFits(c) BY <1>2, <1>3 DEF CarouselFits
<1>5. PICK broken \in BOOLEAN : /\ broken = (t.interrupted \/ t.carousel.frame)
                                /\ ~broken => ~t.interrupted /\ ~t.carousel.frame
  <2>1. CASE t.interrupted \/ t.carousel.frame BY <2>1
  <2>2. CASE ~(t.interrupted \/ t.carousel.frame) BY <2>2
  <2> QED BY <2>1, <2>2
<1>6. ASSUME t.swipeable, ~broken PROVE t.activeTabLink = _wrap(c.center)
  <2>1. t.carousel.pressed \/ t.carousel.center = Slot(t.carousel.target)
    BY <1>0, <1>1, <1>5, <1>6, FitsHas DEF MiddleShown, RestsAtTarget
  <2> QED BY <1>3, <1>5, <1>6, <2>1 DEF TabsFits, MiddleIsActive, Settled
<1>7. TabsFits([WithCarousel(t, c) EXCEPT !.interrupted = broken])
  BY <1>3, <1>4, <1>6, WithCarouselFits
<1>8. PICK r : r = [t EXCEPT !.carousel = c, !.interrupted = broken] OBVIOUS
<1>9. WithCarousel(t, c) = [t EXCEPT !.carousel = c] BY <1>3 DEF WithCarousel
<1>10. TabsFits(r)
  <2>1. [WithCarousel(t, c) EXCEPT !.interrupted = broken] = r BY <1>0, <1>8, <1>9 DEF TabsStates
  <2> QED BY <1>7, <2>1
<1>11. PICK s : s = [t EXCEPT !.carousel = c] OBVIOUS
<1>12. [s EXCEPT !.indicator = t.activeTabLink, !.interrupted = @ \/ t.carousel.frame,
                 !.width = "known"]
       = [[r EXCEPT !.indicator = r.activeTabLink] EXCEPT !.width = "known"]
  <2>1. s.interrupted = t.interrupted BY <1>0, <1>11 DEF TabsStates
  <2>2. (s.interrupted \/ t.carousel.frame) = broken BY <1>5, <2>1
  <2>3. r.activeTabLink = t.activeTabLink BY <1>0, <1>8 DEF TabsStates
  <2>4. [s EXCEPT !.indicator = t.activeTabLink, !.interrupted = broken, !.width = "known"]
        = [[r EXCEPT !.indicator = t.activeTabLink] EXCEPT !.width = "known"]
    BY <1>0, <1>8, <1>11 DEF TabsStates
  <2> QED BY <2>2, <2>3, <2>4
<1>13. PICK q : q = [r EXCEPT !.indicator = r.activeTabLink] OBVIOUS
<1>14. TabsFits(q) BY <1>10, <1>13, PutFits
<1>15. q.width = t.width /\ q.swipeable = t.swipeable /\ q.wrapped = t.wrapped
  BY <1>0, <1>8, <1>13 DEF TabsStates
<1>16. TabsFits([q EXCEPT !.width = "known"]) BY <1>14, <1>15, MeasuredFits
<1> QED BY <1>2, <1>9, <1>11, <1>12, <1>13, <1>16

-----------------------------------------------------------------------------
(* A click                                                                  *)

\* Swipeable tabs are turned to tab i; where nothing is left to turn it is in the middle.
LEMMA SetIs ==
    ASSUME NEW c, CarouselFits(c), c.noWrap, ~c.skewed, NEW i \in TabLinks,
           NEW r, r = SetSlide(c, i), r.center = Slot(r.target)
    PROVE  _wrap(r.center) = i
<1>1. PICK n \in Nat : n = Slides /\ n > 0 BY CarouselAssumption
<1>2. PICK m \in Nat : m = MaxReach BY CarouselAssumption
<1>3. i \in 0 .. n - 1 /\ i \in 0 .. n BY <1>1 DEF TabLinks
<1>4. c.center \in -1 .. m BY <1>2, FitsHas
<1>5. PICK rest \in Int : rest = Remainder(c.center, Slides) BY <1>4, RemainderIs
<1>6. PICK slot \in Int : slot = c.center - (rest - i) BY <1>3, <1>4, <1>5
<1>7. r = _cycleTo(c, i) BY <1>1, <1>3 DEF SetSlide
<1>8. SameMiddle(r, c) /\ r.target = 2 * slot
  BY <1>3, <1>5, <1>6, <1>7, CycleSound DEF Turning
<1>9. r.center = slot BY <1>6, <1>8, SlotIs
<1>10. r.center = c.center BY <1>8 DEF SameMiddle
<1>11. rest = i BY <1>3, <1>4, <1>5, <1>6, <1>9, <1>10
<1>12. CASE c.center >= 0
  <2>1. rest = _wrap(c.center) BY <1>4, <1>5, <1>12, RemainderIs
  <2> QED BY <1>10, <1>11, <2>1
<1>13. CASE c.center < 0 /\ n > 1
  <2>1. rest = c.center BY <1>1, <1>4, <1>5, <1>13, RemainderIs
  <2> QED BY <1>3, <1>4, <1>11, <1>13, <2>1
<1>14. CASE n = 1
  <2>1. _wrap(c.center) \in 0 .. 0 BY <1>1, <1>4, <1>14, WrapIs
  <2> QED BY <1>3, <1>10, <1>14, <2>1
<1> QED BY <1>1, <1>4, <1>12, <1>13, <1>14

Clicks(t, i) ==
    [t EXCEPT !.activeTabLink = i, !.index = i, !.content = t.panel[i], !.moving = {i}]

LEMMA ClicksIs ==
    ASSUME NEW t, TabsFits(t), NEW i \in TabLinks
    PROVE  LET r == Clicks(t, i) IN
           /\ r \in TabsStates /\ IndicatorFollows(r)
           /\ r.activeTabLink = i /\ r.content = t.panel[i]
           /\ r.carousel = t.carousel /\ r.interrupted = t.interrupted
           /\ r.swipeable = t.swipeable /\ r.panel = t.panel /\ r.displayed = t.displayed
           /\ r.wrapped = t.wrapped /\ r.width = t.width
<1>1. t \in TabsStates /\ t.panel \in [TabLinks -> TabLinks \cup {NoPanel}] BY TabsHas
<1>2. PICK p \in TabLinks \cup {NoPanel} : p = t.panel[i] BY <1>1
<1>3. PICK r : r = [t EXCEPT !.activeTabLink = i, !.index = i, !.content = p, !.moving = {i}]
  OBVIOUS
<1>4. {i} \in SUBSET TabLinks OBVIOUS
<1>5. r \in TabsStates BY <1>1, <1>3, <1>4 DEF TabsStates
<1>6. /\ r.activeTabLink = i /\ r.index = i /\ r.moving = {i} /\ r.content = p
      /\ r.carousel = t.carousel /\ r.interrupted = t.interrupted
      /\ r.swipeable = t.swipeable /\ r.panel = t.panel /\ r.displayed = t.displayed
      /\ r.wrapped = t.wrapped /\ r.width = t.width
  BY <1>1, <1>3 DEF TabsStates
<1>7. IndicatorFollows(r) BY <1>6 DEF IndicatorFollows
<1> QED BY <1>2, <1>3, <1>5, <1>6, <1>7 DEF Clicks

LEMMA SwipeableClicked ==
    ASSUME NEW t, TabsFits(t), t.swipeable, NEW i \in TabLinks,
           WithinReach(SetSlide(t.carousel, i))
    PROVE  TabsFits([Clicks(t, i) EXCEPT !.carousel = SetSlide(@, i),
                                         !.interrupted = t.carousel.pressed])
<1>0. CarouselFits(t.carousel) /\ t.carousel.pressed \in BOOLEAN BY TabsHas
<1>1. PICK s : s = Clicks(t, i) OBVIOUS
<1>2. /\ s \in TabsStates /\ IndicatorFollows(s) /\ s.activeTabLink = i
      /\ s.carousel = t.carousel /\ s.swipeable = t.swipeable /\ s.wrapped = t.wrapped
      /\ s.panel = t.panel /\ s.displayed = t.displayed /\ s.content = t.panel[i]
      /\ s.width = t.width
  BY <1>1, ClicksIs
<1>3. PICK c : c = SetSlide(t.carousel, i) OBVIOUS
<1>4. CarouselSound(c) /\ SameOptions(c, t.carousel) /\ c.pressed = t.carousel.pressed
  <2>1. i \in Int /\ 1 \in {-1, 1} BY CarouselAssumption DEF TabLinks
  <2> QED BY <1>0, <1>3, <2>1, AskedSound DEF Turning
<1>5. CarouselFits(c) BY <1>3, <1>4 DEF CarouselFits
<1>6. c \in CarouselStates BY <1>5, CarouselIsState
<1>7. PICK r : r = [s EXCEPT !.carousel = c, !.interrupted = t.carousel.pressed] OBVIOUS
<1>8. r \in TabsStates BY <1>0, <1>2, <1>6, <1>7 DEF TabsStates
<1>9. /\ r.carousel = c /\ r.interrupted = c.pressed /\ r.activeTabLink = i /\ r.swipeable
      /\ r.index = s.index /\ r.moving = s.moving /\ r.timer = s.timer
      /\ r.indicator = s.indicator /\ r.wrapped = t.wrapped /\ r.panel = t.panel
      /\ r.displayed = t.displayed /\ r.content = t.panel[i] /\ r.width = s.width
  BY <1>2, <1>4, <1>7 DEF TabsStates
<1>10. IndicatorFollows(r) BY <1>2, <1>9 DEF IndicatorFollows
<1>a. /\ t.wrapped /\ OfTabs(t.carousel) /\ t.displayed = TabLinks /\ t.width = "known"
      /\ \A j \in TabLinks : t.panel[j] = j
  BY DEF TabsFits, PanelsWrapped
<1>b. PanelsWrapped(r)
  <2>1. OfTabs(c) BY <1>4, <1>a DEF OfTabs, SameOptions
  <2> QED BY <1>2, <1>9, <1>a, <2>1 DEF PanelsWrapped
<1>11. PanelDisplayed(r) BY <1>9, <1>a DEF PanelDisplayed
<1>12. MiddleIsActive(r)
  <2>1. c.center = Slot(c.target) => i = _wrap(c.center)
    BY <1>0, <1>3, <1>a, SetIs DEF OfTabs
  <2> QED BY <1>9, <2>1 DEF MiddleIsActive, Settled
<1> QED BY <1>1, <1>2, <1>3, <1>5, <1>7, <1>8, <1>9, <1>10, <1>11, <1>12, <1>b DEF TabsFits

LEMMA NormalClicked ==
    ASSUME NEW t, TabsFits(t), ~t.swipeable, NEW i \in TabLinks
    PROVE  TabsFits([Clicks(t, i) EXCEPT !.displayed = Swapped(t, i).displayed])
<1>0. /\ t \in TabsStates /\ CarouselFits(t.carousel)
      /\ t.panel \in [TabLinks -> TabLinks \cup {NoPanel}]
  BY TabsHas
<1>1. PICK s : s = Clicks(t, i) OBVIOUS
<1>2. /\ s \in TabsStates /\ IndicatorFollows(s) /\ s.activeTabLink = i
      /\ s.carousel = t.carousel /\ s.swipeable = t.swipeable /\ s.content = t.panel[i]
      /\ s.panel = t.panel /\ s.wrapped = t.wrapped /\ s.width = t.width
  BY <1>1, ClicksIs
<1>3. PICK p \in TabLinks \cup {NoPanel} : p = t.panel[i] BY <1>0
<1>4. PICK shown \in SUBSET TabLinks :
        shown = IF p = NoPanel THEN t.displayed ELSE (t.displayed \ {t.content}) \cup {p}
  <2>1. t.displayed \in SUBSET TabLinks BY <1>0 DEF TabsStates
  <2> QED BY <2>1
<1>5. Swapped(t, i).displayed = shown
  <2>1. CASE p = NoPanel BY <1>3, <1>4, <2>1 DEF Swapped
  <2>2. CASE p # NoPanel
    <3>1. Swapped(t, i) = [t EXCEPT !.displayed = (@ \ {t.content}) \cup {p}]
      BY <1>3, <2>2 DEF Swapped
    <3> QED BY <1>0, <1>4, <2>2, <3>1 DEF TabsStates
  <2> QED BY <2>1, <2>2
<1>6. PICK r : r = [s EXCEPT !.displayed = shown] OBVIOUS
<1>7. r \in TabsStates BY <1>2, <1>6 DEF TabsStates
<1>8. /\ r.carousel = t.carousel /\ r.activeTabLink = i /\ r.swipeable = t.swipeable
      /\ r.index = s.index /\ r.moving = s.moving /\ r.timer = s.timer
      /\ r.indicator = s.indicator /\ r.displayed = shown /\ r.content = t.panel[i]
      /\ r.panel = t.panel /\ r.wrapped = t.wrapped /\ r.width = s.width
  BY <1>2, <1>6 DEF TabsStates
<1>9. IndicatorFollows(r) BY <1>2, <1>8 DEF IndicatorFollows
<1>10. ASSUME ~t.wrapped, NoPanel \notin ToSet(t.panel) PROVE shown = {p}
  <2>1. p # NoPanel BY <1>0, <1>3, <1>10 DEF ToSet
  <2>2. t.displayed = {t.panel[t.activeTabLink]} /\ t.content = t.panel[t.activeTabLink]
    BY <1>10 DEF TabsFits, PanelDisplayed
  <2> QED BY <1>4, <2>1, <2>2
<1>11. PanelDisplayed(r) BY <1>3, <1>8, <1>10 DEF PanelDisplayed
<1>12. MiddleIsActive(r) BY <1>8 DEF MiddleIsActive
<1>13. PanelsWrapped(r)
  <2>1. SUFFICES ASSUME t.wrapped PROVE p \in shown
    <3>1. CASE ~t.wrapped BY <1>2, <1>8, <3>1 DEF TabsFits, PanelsWrapped
    <3>2. ~t.swipeable /\ r.width = t.width BY <1>2, <1>8
    <3>3. CASE t.wrapped
      <4>1. /\ \A j \in TabLinks : r.panel[j] = j
            /\ OfTabs(r.carousel)
        BY <1>8, <3>3 DEF TabsFits, PanelsWrapped
      <4>2. r.content \in r.displayed BY <1>3, <1>8, <2>1, <3>3
      <4> QED BY <1>8, <3>2, <3>3, <4>1, <4>2 DEF PanelsWrapped
    <3> QED BY <3>1, <3>3
  <2>2. p = i /\ i # NoPanel
    BY <1>3, <2>1, CarouselAssumption DEF TabsFits, PanelsWrapped, TabLinks, NoPanel
  <2> QED BY <1>4, <2>2
<1> QED BY <1>0, <1>1, <1>5, <1>6, <1>7, <1>8, <1>9, <1>11, <1>12, <1>13 DEF TabsFits

-----------------------------------------------------------------------------
\* A fresh carousel turns to the active tab.
LEMMA FreshCarousel ==
    ASSUME NEW i \in TabLinks
    PROVE  LET c == SetSlide(NewCarousel(TRUE, TRUE, FALSE), i) IN
           /\ CarouselFits(c) /\ OfTabs(c) /\ ~c.pressed /\ c.center = 0 /\ c.target = 2 * i
<1>1. PICK a : a = NewCarousel(TRUE, TRUE, FALSE) OBVIOUS
<1>2. CarouselFits(a) /\ OfTabs(a) /\ ~a.pressed /\ a.center = 0
  <2>1. TRUE \in BOOLEAN /\ FALSE \in BOOLEAN OBVIOUS
  <2> QED BY <1>1, <2>1, NewCarouselSound DEF OfTabs
<1>3. PICK n \in Nat, m \in Nat : n = Slides /\ m = MaxReach /\ n > 0 /\ n <= m + 1
  BY CarouselAssumption
<1>4. i \in 0 .. n - 1 BY <1>3 DEF TabLinks
<1>5. PICK c : c = _cycleTo(a, i) OBVIOUS
<1>6. c = SetSlide(a, i) BY <1>3, <1>4, <1>5 DEF SetSlide
<1>7. Turning(c, a) /\ c.target = 2 * (a.center - (Remainder(a.center, Slides) - i))
  BY <1>2, <1>4, <1>5, CycleSound DEF OfTabs
<1>8. Remainder(0, Slides) = 0 BY <1>3, RemainderIs DEF HasSlide
<1>9. 2 * (0 - (0 - i)) = 2 * i BY <1>4
<1>10. c.target = 2 * i BY <1>2, <1>7, <1>8, <1>9
<1>11. c.offset = a.offset /\ c.center = 0 BY <1>2, <1>7 DEF Turning, SameMiddle
<1>12. WithinReach(c)
  <2>1. 2 * i \in -2 .. 2 * m BY <1>3, <1>4
  <2> QED BY <1>2, <1>3, <1>10, <1>11, <2>1 DEF WithinReach, Offsets, CarouselFits
<1>13. CarouselFits(c) BY <1>7, <1>12 DEF Turning, CarouselFits
<1> QED BY <1>1, <1>2, <1>6, <1>7, <1>10, <1>11, <1>13 DEF Turning, SameOptions, OfTabs

LEMMA NormalTabsAre ==
    ASSUME NEW active \in TabLinks, NEW panel \in [TabLinks -> TabLinks \cup {NoPanel}],
           \A i \in TabLinks : panel[i] \in {i, NoPanel}, NEW disabled \in SUBSET TabLinks
    PROVE  TabsFits(NormalTabs(active, panel, disabled))
<1>1. PICK c : c = NewCarousel(TRUE, TRUE, FALSE) OBVIOUS
<1>2. CarouselFits(c)
  <2>1. TRUE \in BOOLEAN /\ FALSE \in BOOLEAN OBVIOUS
  <2> QED BY <1>1, <2>1, NewCarouselSound
<1>3. c \in CarouselStates BY <1>2, CarouselIsState
<1>4. ToSet(panel) = {panel[i] : i \in TabLinks} BY DEF ToSet
<1>5. PICK shown : shown = ToSet(panel)
                             \ ({NoPanel} \cup {panel[i] : i \in TabLinks \ {active}})
  OBVIOUS
<1>6. shown \in SUBSET TabLinks BY <1>4, <1>5
<1>7. 0 \in TabLinks BY CarouselAssumption DEF TabLinks
<1>8. PICK t : t = NormalTabs(active, panel, disabled) OBVIOUS
<1>9. t \in TabsStates
  <2>1. panel[active] \in TabLinks \cup {NoPanel} /\ {} \in SUBSET TabLinks OBVIOUS
  <2> QED BY <1>1, <1>3, <1>5, <1>6, <1>7, <1>8, <2>1 DEF TabsStates, NormalTabs
<1>10. /\ t.swipeable = FALSE /\ t.panel = panel /\ t.activeTabLink = active /\ t.index = active
       /\ t.content = panel[active] /\ t.displayed = shown /\ t.carousel = c
       /\ t.moving = {} /\ t.timer = TRUE /\ t.wrapped = FALSE /\ t.width = "known"
  BY <1>1, <1>5, <1>8 DEF NormalTabs
<1>11. IndicatorFollows(t) BY <1>10 DEF IndicatorFollows
<1>12. ASSUME NoPanel \notin ToSet(panel) PROVE shown = {panel[active]}
  <2>1. \A i \in TabLinks : panel[i] = i BY <1>4, <1>12
  <2>2. ToSet(panel) = TabLinks BY <1>4, <2>1
  <2>3. {panel[i] : i \in TabLinks \ {active}} = TabLinks \ {active} BY <2>1
  <2>4. NoPanel \notin TabLinks BY <1>12, <2>2
  <2> QED BY <1>5, <2>1, <2>2, <2>3, <2>4
<1>13. PanelDisplayed(t) BY <1>10, <1>12 DEF PanelDisplayed
<1>14. MiddleIsActive(t) /\ PanelsWrapped(t) BY <1>10 DEF MiddleIsActive, PanelsWrapped
<1> QED BY <1>2, <1>8, <1>9, <1>10, <1>11, <1>13, <1>14 DEF TabsFits

LEMMA SwipeableTabsAre ==
    ASSUME NEW active \in TabLinks, NEW wide \in BOOLEAN
    PROVE  TabsFits(SwipeableTabs(active, wide))
<1>1. 0 \in TabLinks BY CarouselAssumption DEF TabLinks
<1>2. PICK panel \in [TabLinks -> TabLinks \cup {NoPanel}] : panel = [i \in TabLinks |-> i]
  OBVIOUS
<1>3. PICK s : s = NormalTabs(0, panel, {}) OBVIOUS
<1>4. TabsFits(s)
  <2>1. (\A i \in TabLinks : panel[i] \in {i, NoPanel}) /\ {} \in SUBSET TabLinks BY <1>2
  <2> QED BY <1>1, <1>3, <2>1, NormalTabsAre
<1>5. s \in TabsStates BY <1>4 DEF TabsFits
<1>6. /\ s.activeTabLink = 0 /\ s.index = 0 /\ s.moving = {} /\ s.timer = TRUE
      /\ s.carousel = NewCarousel(TRUE, TRUE, FALSE)
  BY <1>3 DEF NormalTabs
<1>7. PICK c : c = SetSlide(NewCarousel(TRUE, TRUE, FALSE), active) OBVIOUS
<1>8. /\ CarouselFits(c) /\ OfTabs(c) /\ c.center = 0 /\ c.target = 2 * active
      /\ c.pressed = FALSE
  <2>1. CarouselFits(c) /\ OfTabs(c) /\ c.center = 0 /\ c.target = 2 * active /\ ~c.pressed
    BY <1>7, FreshCarousel
  <2>2. c.pressed \in BOOLEAN BY <2>1, FitsHas DEF CarouselShapes
  <2> QED BY <2>1, <2>2
<1>9. c \in CarouselStates BY <1>8, CarouselIsState
<1>10. PICK t : t = [s EXCEPT !.swipeable = ~wide, !.content = active, !.displayed = TabLinks,
                              !.wrapped = TRUE, !.carousel = c]
  OBVIOUS
<1>11. t = SwipeableTabs(active, wide) BY <1>2, <1>3, <1>6, <1>7, <1>10 DEF SwipeableTabs
<1>12. t \in TabsStates
  <2>1. (~wide) \in BOOLEAN /\ TRUE \in BOOLEAN OBVIOUS
  <2> QED BY <1>5, <1>9, <1>10, <2>1 DEF TabsStates
<1>13. /\ t.activeTabLink = 0 /\ t.index = 0 /\ t.moving = {} /\ t.timer = TRUE
       /\ t.carousel = c /\ t.wrapped = TRUE /\ t.content = active /\ t.displayed = TabLinks
       /\ t.panel = panel /\ t.width = "known"
  BY <1>3, <1>5, <1>6, <1>10 DEF TabsStates, NormalTabs
<1>14. IndicatorFollows(t) BY <1>13 DEF IndicatorFollows
<1>15. PanelDisplayed(t) BY <1>13 DEF PanelDisplayed
<1>16. MiddleIsActive(t)
  <2>1. _wrap(0) = 0 BY <1>1, WrapIs DEF TabLinks, HasSlide
  <2> QED BY <1>8, <1>13, <2>1 DEF MiddleIsActive
<1>17. PanelsWrapped(t) BY <1>2, <1>8, <1>13 DEF PanelsWrapped
<1> QED BY <1>17, <1>8, <1>11, <1>12, <1>13, <1>14, <1>15, <1>16 DEF TabsFits

LEMMA TabsInitFits ==
    ASSUME NEW t \in TabsInit PROVE TabsFits(t)
<1>1. CASE \E active \in TabLinks, wide \in BOOLEAN : t = SwipeableTabs(active, wide)
  BY <1>1, SwipeableTabsAre
<1>2. CASE \E active \in TabLinks, disabled \in {{}, {0}},
              panel \in {p \in [TabLinks -> TabLinks \cup {NoPanel}] :
                           \A i \in TabLinks : p[i] \in {i, NoPanel}} :
             t = NormalTabs(active, panel, disabled)
  <2>1. PICK active \in TabLinks, disabled \in {{}, {0}},
              panel \in {p \in [TabLinks -> TabLinks \cup {NoPanel}] :
                           \A i \in TabLinks : p[i] \in {i, NoPanel}} :
             t = NormalTabs(active, panel, disabled)
    BY <1>2
  <2>2. disabled \in SUBSET TabLinks BY CarouselAssumption DEF TabLinks
  <2> QED BY <2>1, <2>2, NormalTabsAre
<1> QED BY <1>1, <1>2 DEF TabsInit

LEMMA CarouselOf ==
    ASSUME NEW t \in TabsStates, NEW c
    PROVE  WithCarousel(t, c).carousel = c /\ "carousel" \in DOMAIN WithCarousel(t, c)
<1>1. PICK s : s = [t EXCEPT !.carousel = c] OBVIOUS
<1>2. s.carousel = c /\ DOMAIN s = DOMAIN t BY <1>1 DEF TabsStates
<1>3. CASE c.center = t.carousel.center
  <2>1. WithCarousel(t, c) = s BY <1>1, <1>3 DEF WithCarousel
  <2> QED BY <1>2, <2>1 DEF TabsStates
<1>4. CASE c.center # t.carousel.center
  <2>1. WithCarousel(t, c) = CycledTo(s, _wrap(c.center)) BY <1>1, <1>4 DEF WithCarousel
  <2> QED BY <1>2, <2>1 DEF CycledTo, TabsStates
<1> QED BY <1>3, <1>4

\* Slides without a width are not those of swipeable tabs; where they turn is lost.
LEMMA LostFits ==
    ASSUME NEW t, TabsFits(t), t.width # "known",
           NEW r, r = [t EXCEPT !.width = "lost", !.carousel = NewCarousel(TRUE, TRUE, FALSE)],
           NEW q, q = [r EXCEPT !.index = NoLink, !.activeTabLink = Slides - 1,
                                !.moving = {Slides - 1}]
    PROVE  TabsFits(r) /\ TabsFits(q)
<1>0. t \in TabsStates /\ t.activeTabLink \in TabLinks /\ ~t.swipeable /\ t.wrapped
  BY TabsHas DEF TabsFits, PanelsWrapped
<1>1. PICK c : c = NewCarousel(TRUE, TRUE, FALSE) OBVIOUS
<1>2. CarouselFits(c) /\ OfTabs(c)
  <2>1. TRUE \in BOOLEAN /\ FALSE \in BOOLEAN OBVIOUS
  <2> QED BY <1>1, <2>1, NewCarouselSound DEF OfTabs
<1>3. c \in CarouselStates BY <1>2, CarouselIsState
<1>4. PICK last \in TabLinks : last = Slides - 1 BY CarouselAssumption DEF TabLinks
<1>5. r \in TabsStates BY <1>0, <1>1, <1>3 DEF TabsStates
<1>6. q \in TabsStates
  <2>1. {last} \in SUBSET TabLinks OBVIOUS
  <2> QED BY <1>4, <1>5, <2>1 DEF TabsStates
<1>7. /\ r.carousel = c /\ r.width = "lost" /\ r.activeTabLink = t.activeTabLink
      /\ r.swipeable = t.swipeable /\ r.panel = t.panel /\ r.displayed = t.displayed
      /\ r.content = t.content /\ r.timer = t.timer /\ r.indicator = t.indicator
      /\ r.moving = t.moving /\ r.wrapped = t.wrapped
  BY <1>0, <1>1 DEF TabsStates
<1>8. /\ q.carousel = c /\ q.width = "lost" /\ q.activeTabLink = last
      /\ q.swipeable = t.swipeable /\ q.panel = t.panel /\ q.displayed = t.displayed
      /\ q.content = t.content /\ q.moving = {last} /\ q.wrapped = t.wrapped
  BY <1>4, <1>5, <1>7 DEF TabsStates
<1>9. IndicatorFollows(r) /\ IndicatorFollows(q)
  BY <1>7, <1>8 DEF IndicatorFollows, TabsFits
<1>10. PanelDisplayed(r) /\ PanelDisplayed(q) BY <1>0, <1>7, <1>8 DEF PanelDisplayed
<1>11. PanelsWrapped(r) /\ PanelsWrapped(q)
  BY <1>0, <1>2, <1>7, <1>8 DEF PanelsWrapped, TabsFits
<1>12. MiddleIsActive(r) /\ MiddleIsActive(q) BY <1>0, <1>7, <1>8 DEF MiddleIsActive
<1> QED BY <1>2, <1>5, <1>6, <1>7, <1>8, <1>9, <1>10, <1>11, <1>12 DEF TabsFits

LEMMA TabsKeep ==
    ASSUME OnPage("Tabs"), TabsFits(tabs), TabsStep
    PROVE  TabsFits(tabs)'
<1>1. PICK t : t = tabs OBVIOUS
<1>2. TabsFits(t) BY <1>1
<1>3. ASSUME NEW r, TabsBecome(r) PROVE tabs' = r /\ WithinReach(r.carousel)
  BY <1>3, BecomesIs DEF TabsBecome, Steps, tabs
<1>4. ASSUME NEW r, TabsBecome(r), TabsFits(r) PROVE TabsFits(tabs)'
  BY <1>3, <1>4
<1>5. ASSUME NEW i \in TabLinks, ClickTab(i) PROVE TabsFits(tabs)'
  <2>1. CASE i \in t.disabled
    <3>1. TabsBecome(t) BY <1>1, <1>5, <2>1 DEF ClickTab
    <3> QED BY <1>2, <1>4, <3>1
  <2>2. CASE i \notin t.disabled /\ t.swipeable
    <3>1. PICK r : r = [Clicks(t, i) EXCEPT !.carousel = SetSlide(@, i),
                                            !.interrupted = t.carousel.pressed]
      OBVIOUS
    <3>2. TabsBecome(r) BY <1>1, <1>5, <2>2, <3>1 DEF ClickTab, Clicks
    <3>3. r.carousel = SetSlide(t.carousel, i)
      <4>1. PICK s : s = Clicks(t, i) OBVIOUS
      <4>2. s \in TabsStates /\ s.carousel = t.carousel BY <1>2, <4>1, ClicksIs
      <4>3. r = [s EXCEPT !.carousel = SetSlide(@, i), !.interrupted = t.carousel.pressed]
        BY <3>1, <4>1
      <4> QED BY <4>2, <4>3 DEF TabsStates
    <3>4. WithinReach(SetSlide(t.carousel, i)) BY <1>3, <3>2, <3>3
    <3>5. TabsFits(r) BY <1>2, <2>2, <3>1, <3>4, SwipeableClicked
    <3> QED BY <1>4, <3>2, <3>5
  <2>3. CASE i \notin t.disabled /\ ~t.swipeable
    <3>1. PICK r : r = [Clicks(t, i) EXCEPT !.displayed = Swapped(t, i).displayed] OBVIOUS
    <3>2. TabsBecome(r) BY <1>1, <1>5, <2>3, <3>1 DEF ClickTab, Clicks
    <3>3. TabsFits(r) BY <1>2, <2>3, <3>1, NormalClicked
    <3> QED BY <1>4, <3>2, <3>3
  <2> QED BY <2>1, <2>2, <2>3
<1>6. ASSUME SwipePanels PROVE TabsFits(tabs)'
  <2>1. PICK c \in Touching(t.carousel) :
          TabsBecome([WithCarousel(t, c) EXCEPT
                        !.interrupted = @ \/ (t.carousel.frame /\ ~t.carousel.pressed)])
    BY <1>1, <1>6 DEF SwipePanels
  <2>2. PICK r : r = [WithCarousel(t, c) EXCEPT
                        !.interrupted = @ \/ (t.carousel.frame /\ ~t.carousel.pressed)]
    OBVIOUS
  <2>3. r.carousel = c BY <1>2, <2>2, TabsHas, CarouselOf
  <2>4. WithinReach(c) /\ t.wrapped BY <1>1, <1>3, <1>6, <2>1, <2>2, <2>3 DEF SwipePanels
  <2>5. TabsFits(r) BY <1>2, <2>1, <2>2, <2>4, SwipedFits
  <2> QED BY <1>4, <2>1, <2>2, <2>5
<1>7. ASSUME ResizeWindow PROVE TabsFits(tabs)'
  <2>1. CASE Measures(t)
    <3>1. PICK c : c = Resized(t.carousel) OBVIOUS
    <3>2. PICK r : r = [WithCarousel(t, c) EXCEPT
                          !.indicator = t.activeTabLink, !.interrupted = @ \/ t.carousel.frame,
                          !.width = "known"]
      OBVIOUS
    <3>3. TabsBecome(r) BY <1>1, <1>7, <2>1, <3>1, <3>2 DEF ResizeWindow
    <3>4. r.carousel = c BY <1>2, <3>2, TabsHas, CarouselOf
    <3>5. WithinReach(c) BY <1>3, <3>3, <3>4
    <3>6. TabsFits(r) BY <1>2, <2>1, <3>1, <3>2, <3>5, WindowFits DEF Measures
    <3> QED BY <1>4, <3>3, <3>6
  <2>2. CASE ~Measures(t)
    <3>1. PICK width \in {"known", "none", "lost"} :
            /\ width = IF t.wrapped /\ t.width = "known" THEN "none" ELSE t.width
            /\ t.width = "lost" => width = "lost"
            /\ t.swipeable \/ ~t.wrapped => width = "known"
      <4>0. /\ t.swipeable \/ ~t.wrapped => t.width = "known"
            /\ t.swipeable => t.wrapped /\ t.displayed = TabLinks
        BY <1>2 DEF TabsFits, PanelsWrapped
      <4>a. 0 \in TabLinks BY CarouselAssumption DEF TabLinks
      <4>b. t.swipeable => FALSE BY <2>2, <4>0, <4>a DEF Measures
      <4>1. t.width \in {"known", "none", "lost"} BY <1>2, TabsHas DEF TabsStates
      <4>2. CASE t.wrapped /\ t.width = "known" BY <4>2, <4>b
      <4>3. CASE ~(t.wrapped /\ t.width = "known") BY <4>0, <4>1, <4>3, <4>b
      <4> QED BY <4>2, <4>3
    <3>2. PICK r : r = [t EXCEPT !.indicator = t.activeTabLink] OBVIOUS
    <3>3. /\ TabsFits(r) /\ r.width = t.width /\ r.swipeable = t.swipeable
          /\ r.wrapped = t.wrapped
      <4>1. t \in TabsStates BY <1>2, TabsHas
      <4> QED BY <1>2, <3>2, <4>1, PutFits DEF TabsStates
    <3>4. TabsFits([r EXCEPT !.width = width]) BY <3>1, <3>3, MeasuredFits
    <3>5. TabsBecome([t EXCEPT !.indicator = t.activeTabLink,
                               !.width = IF t.wrapped /\ @ = "known" THEN "none" ELSE @])
      BY <1>1, <1>7, <2>2 DEF ResizeWindow
    <3>6. [t EXCEPT !.indicator = t.activeTabLink,
                    !.width = IF t.wrapped /\ @ = "known" THEN "none" ELSE @]
          = [r EXCEPT !.width = width]
      BY <3>1, <3>2
    <3> QED BY <1>4, <3>4, <3>5, <3>6
  <2> QED BY <2>1, <2>2
<1>8. ASSUME PanelsFrame PROVE TabsFits(tabs)'
  <2>1. PICK c \in Frame(t.carousel) : TabsBecome(WithCarousel(t, c))
    BY <1>1, <1>8 DEF PanelsFrame
  <2>2. PICK r : r = WithCarousel(t, c) OBVIOUS
  <2>3. r.carousel = c BY <1>2, <2>2, TabsHas, CarouselOf
  <2>4. WithinReach(c) /\ t.wrapped /\ t.carousel.frame
    BY <1>1, <1>3, <1>8, <2>1, <2>2, <2>3 DEF PanelsFrame
  <2>5. TabsFits(r) BY <1>2, <2>1, <2>2, <2>4, FramedFits
  <2> QED BY <1>4, <2>1, <2>2, <2>5
<1>9. ASSUME IndicatorTimer PROVE TabsFits(tabs)'
  <2>1. TabsBecome([t EXCEPT !.timer = FALSE, !.indicator = t.activeTabLink])
    BY <1>1, <1>9 DEF IndicatorTimer
  <2> QED BY <1>2, <1>4, <2>1, TimerFits
<1>10. ASSUME IndicatorMoved PROVE TabsFits(tabs)'
  <2>1. PICK i \in t.moving : TabsBecome([t EXCEPT !.moving = {}, !.indicator = i])
    BY <1>1, <1>10 DEF IndicatorMoved
  <2> QED BY <1>2, <1>4, <2>1, PanelsMovedFits
<1>11. ASSUME ScrollNothing PROVE TabsFits(tabs)'
  <2>1. PICK r : r = [t EXCEPT !.width = "lost", !.carousel = NewCarousel(TRUE, TRUE, FALSE)]
    OBVIOUS
  <2>2. PICK q : q = [r EXCEPT !.index = NoLink, !.activeTabLink = Slides - 1,
                               !.moving = {Slides - 1}]
    OBVIOUS
  <2>3. TabsFits(r) /\ TabsFits(q) BY <1>1, <1>2, <1>11, <2>1, <2>2, LostFits DEF ScrollNothing
  <2>4. TabsBecome(r) \/ TabsBecome(q) BY <1>1, <1>11, <2>1, <2>2 DEF ScrollNothing
  <2> QED BY <1>4, <2>3, <2>4
<1> QED BY <1>5, <1>6, <1>7, <1>8, <1>9, <1>10, <1>11 DEF TabsStep

LEMMA TabsGive ==
    ASSUME TabsFits(tabs) PROVE TabsTypeOK /\ TabsShowState
<1>1. PICK t : t = tabs OBVIOUS
<1>2. TabsFits(t) BY <1>1
<1>3. PICK c : c = t.carousel OBVIOUS
<1>4. /\ t \in TabsStates /\ CarouselFits(c) /\ IndicatorFollows(t) /\ PanelDisplayed(t)
      /\ PanelsWrapped(t) /\ MiddleIsActive(t)
  BY <1>2, <1>3 DEF TabsFits
<1>5. TabsTypeOK BY <1>1, <1>4 DEF TabsTypeOK, TabsStates
<1>6. ASSUME t.swipeable, ~t.interrupted, ~c.astray, ~c.pressed, ~c.frame
      PROVE  t.activeTabLink = c.active
  <2>1. MiddleShown(c) /\ TargetIsSlot(c) /\ RestsAtTarget(c) BY <1>4, FitsHas
  <2>0. c.noWrap /\ ~c.skewed BY <1>3, <1>4, <1>6 DEF PanelsWrapped, OfTabs
  <2>2. c.center = Slot(c.target) BY <1>6, <2>0, <2>1 DEF MiddleShown, RestsAtTarget
  <2>3. c.noWrap /\ t.activeTabLink = _wrap(c.center)
    BY <1>3, <1>4, <1>6, <2>0, <2>2 DEF MiddleIsActive, Settled
  <2>4. HasSlide(c.center) BY <1>6, <2>0, <2>1, <2>2, <2>3 DEF TargetIsSlot
  <2> QED BY <2>1, <2>3, <2>4 DEF MiddleShown
<1>7. TabsShowState
  BY <1>1, <1>3, <1>4, <1>6
  DEF TabsShowState, IndicatorFollows, PanelDisplayed, PanelsWrapped
<1> QED BY <1>5, <1>7

-----------------------------------------------------------------------------
(* Recursion over 1 .. N                                                    *)

Iterates(f, n, S, G, base) ==
    /\ f \in [0 .. n -> S] /\ f[0] = base
    /\ \A k \in 1 .. n : f[k] = G[<<f[k - 1], k>>]

LEMMA Recursion ==
    ASSUME NEW S, NEW N \in Nat, NEW G \in [S \X (1 .. N) -> S], NEW base \in S
    PROVE  \E f : Iterates(f, N, S, G, base)
<1> DEFINE Bad == {n \in 0 .. N : ~\E f : Iterates(f, n, S, G, base)}
<1>1. SUFFICES ASSUME Bad # {} PROVE FALSE
  <2>1. N \in 0 .. N OBVIOUS
  <2> QED BY <2>1
<1>2. PICK m \in Bad : \A y \in Bad : m <= y
  <2>1. Bad \in SUBSET Nat OBVIOUS
  <2> QED BY <1>1, <2>1, LeastNat
<1>3. m \in 0 .. N /\ ~\E f : Iterates(f, m, S, G, base) BY <1>2
<1>4. m # 0
  <2>1. PICK f : f = [k \in 0 .. 0 |-> base] OBVIOUS
  <2>2. Iterates(f, 0, S, G, base) BY <2>1 DEF Iterates
  <2> QED BY <1>3, <2>2
<1>5. m - 1 \in 0 .. N /\ m \in 1 .. N BY <1>3, <1>4
<1>6. m - 1 \notin Bad
  <2>1. SUFFICES ASSUME m - 1 \in Bad PROVE FALSE OBVIOUS
  <2>2. m <= m - 1 BY <1>2, <2>1
  <2> QED BY <1>5, <2>2
<1>7. PICK f : Iterates(f, m - 1, S, G, base) BY <1>5, <1>6
<1>8. PICK next \in S : next = G[<<f[m - 1], m>>]
  <2>1. f[m - 1] \in S BY <1>5, <1>7 DEF Iterates
  <2>2. <<f[m - 1], m>> \in S \X (1 .. N) BY <1>5, <2>1
  <2> QED BY <2>2
<1>9. PICK g : g = [k \in 0 .. m |-> IF k = m THEN next ELSE f[k]] OBVIOUS
<1>10. /\ g[m] = next /\ \A k \in 0 .. m - 1 : g[k] = f[k]
       /\ g \in [0 .. m -> S]
  <2>1. \A k \in 0 .. m - 1 : k \in 0 .. m /\ k # m BY <1>5
  <2>2. \A k \in 0 .. m : k = m \/ k \in 0 .. m - 1 BY <1>5
  <2>3. m \in 0 .. m BY <1>5
  <2>4. \A k \in 0 .. m - 1 : f[k] \in S BY <1>7 DEF Iterates
  <2> QED BY <1>9, <2>1, <2>2, <2>3, <2>4
<1>11. g[0] = base BY <1>5, <1>7, <1>10 DEF Iterates
<1>12. ASSUME NEW k \in 1 .. m PROVE g[k] = G[<<g[k - 1], k>>]
  <2>1. k - 1 \in 0 .. m - 1 BY <1>5
  <2>2. CASE k = m BY <1>8, <1>10, <2>1, <2>2
  <2>3. CASE k # m
    <3>1. k \in 1 .. m - 1 /\ k \in 0 .. m - 1 BY <1>5, <2>3
    <3>2. f[k] = G[<<f[k - 1], k>>] BY <1>7, <3>1 DEF Iterates
    <3> QED BY <1>10, <2>1, <3>1, <3>2
  <2> QED BY <2>2, <2>3
<1> QED BY <1>3, <1>10, <1>11, <1>12 DEF Iterates

-----------------------------------------------------------------------------
(* Lists                                                                    *)

\* An element that is not in the list is put before it.
LEMMA PrependedIs ==
    ASSUME NEW S, NEW s \in Seq(S), IsInjective(s), NEW e \in S, e \notin ToSet(s)
    PROVE  /\ <<e>> \o s \in Seq(S) /\ IsInjective(<<e>> \o s)
           /\ ToSet(<<e>> \o s) = ToSet(s) \cup {e} /\ <<e>> \o s # <<>>
<1>1. PICK n \in Nat : n = Len(s) OBVIOUS
<1>2. PICK one : one = <<e>> /\ one \in Seq(S) /\ Len(one) = 1 /\ one[1] = e
  <2>1. <<e>> \in Seq(S) OBVIOUS
  <2>2. Len(<<e>>) = 1 /\ <<e>>[1] = e OBVIOUS
  <2> QED BY <2>1, <2>2
<1>3. PICK r : r = one \o s OBVIOUS
<1>4. /\ r \in Seq(S) /\ Len(r) = 1 + n
      /\ \A j \in 1 .. 1 + n : r[j] = IF j <= 1 THEN one[j] ELSE s[j - 1]
  BY <1>1, <1>2, <1>3, ConcatProperties
<1>5. r[1] = e BY <1>1, <1>2, <1>4
<1>6. \A j \in 1 .. n : r[j + 1] = s[j]
  <2>1. TAKE j \in 1 .. n
  <2>2. j + 1 \in 1 .. 1 + n /\ ~(j + 1 <= 1) /\ (j + 1) - 1 = j OBVIOUS
  <2> QED BY <1>4, <2>2
<1>7. DOMAIN r = 1 .. n + 1 /\ DOMAIN s = 1 .. n BY <1>1, <1>4
<1>8. \A j \in 1 .. n + 1 : j = 1 \/ (j - 1 \in 1 .. n /\ r[j] = s[j - 1])
  <2>1. TAKE j \in 1 .. n + 1
  <2>2. SUFFICES ASSUME j # 1 PROVE j - 1 \in 1 .. n /\ r[j] = s[j - 1] OBVIOUS
  <2>3. j - 1 \in 1 .. n /\ (j - 1) + 1 = j BY <2>2
  <2> QED BY <1>6, <2>3
<1>9. \A j \in 1 .. n : s[j] # e BY <1>7 DEF ToSet
<1>10. \A i, j \in 1 .. n : s[i] = s[j] => i = j BY <1>7 DEF IsInjective
<1>11. ASSUME NEW i \in 1 .. n + 1, NEW j \in 1 .. n + 1, r[i] = r[j] PROVE i = j
  <2>1. CASE i = 1 \/ j = 1 BY <1>5, <1>8, <1>9, <1>11, <2>1
  <2>2. CASE i # 1 /\ j # 1
    <3>1. /\ i - 1 \in 1 .. n /\ r[i] = s[i - 1] /\ j - 1 \in 1 .. n /\ r[j] = s[j - 1]
      BY <1>8, <2>2
    <3>2. i - 1 = j - 1 BY <1>10, <1>11, <3>1
    <3> QED BY <3>2
  <2> QED BY <2>1, <2>2
<1>12. IsInjective(r) BY <1>7, <1>11 DEF IsInjective
<1>13. ToSet(r) = ToSet(s) \cup {e}
  <2>1. ASSUME NEW x \in ToSet(r) PROVE x \in ToSet(s) \cup {e}
    <3>1. PICK j \in 1 .. n + 1 : x = r[j] BY <1>7 DEF ToSet
    <3> QED BY <1>5, <1>7, <1>8, <3>1 DEF ToSet
  <2>2. ASSUME NEW x \in ToSet(s) PROVE x \in ToSet(r)
    <3>1. PICK j \in 1 .. n : x = s[j] BY <1>7 DEF ToSet
    <3>2. j + 1 \in 1 .. n + 1 /\ r[j + 1] = x BY <1>6, <3>1
    <3> QED BY <1>7, <3>2 DEF ToSet
  <2>3. e \in ToSet(r)
    <3>1. 1 \in 1 .. n + 1 OBVIOUS
    <3> QED BY <1>5, <1>7, <3>1 DEF ToSet
  <2> QED BY <2>1, <2>2, <2>3
<1>14. r # <<>> BY <1>4
<1> QED BY <1>2, <1>3, <1>4, <1>12, <1>13, <1>14

\* The list without the elements of a set, element by element
Keeping(kept, v, gone) ==
    [i \in 0 .. Len(v) |->
       IF i = 0 THEN <<>>
       ELSE IF v[i] \in gone THEN kept[i - 1] ELSE Append(kept[i - 1], v[i])]

LEMMA FilterExists ==
    ASSUME NEW S, NEW v \in Seq(S), NEW gone
    PROVE  \E kept : kept = Keeping(kept, v, gone)
<1>1. PICK n \in Nat : n = Len(v) OBVIOUS
<1>2. PICK G : G = [p \in Seq(S) \X (1 .. n) |->
                      IF v[p[2]] \in gone THEN p[1] ELSE Append(p[1], v[p[2]])]
  OBVIOUS
<1>3. ASSUME NEW a \in Seq(S), NEW i \in 1 .. n
      PROVE  /\ G[<<a, i>>] = IF v[i] \in gone THEN a ELSE Append(a, v[i])
             /\ G[<<a, i>>] \in Seq(S)
  <2>1. G[<<a, i>>] = IF v[i] \in gone THEN a ELSE Append(a, v[i]) BY <1>2
  <2>2. v[i] \in S BY <1>1
  <2>3. Append(a, v[i]) \in Seq(S) BY <2>2
  <2> QED BY <2>1, <2>3
<1>4. G \in [Seq(S) \X (1 .. n) -> Seq(S)]
  <2>1. \A p \in Seq(S) \X (1 .. n) : p = <<p[1], p[2]>> /\ p[1] \in Seq(S) /\ p[2] \in 1 .. n
    OBVIOUS
  <2>2. \A p \in Seq(S) \X (1 .. n) : G[p] \in Seq(S) BY <1>3, <2>1
  <2> QED BY <1>2, <2>2
<1>5. <<>> \in Seq(S) OBVIOUS
<1>a. PICK f : Iterates(f, n, Seq(S), G, <<>>)
  BY <1>4, <1>5, Recursion
<1>6. /\ f \in [0 .. n -> Seq(S)] /\ f[0] = <<>>
      /\ \A i \in 1 .. n : f[i] = G[<<f[i - 1], i>>]
  BY <1>a DEF Iterates
<1>7. ASSUME NEW i \in 0 .. n
      PROVE  f[i] = IF i = 0 THEN <<>>
                    ELSE IF v[i] \in gone THEN f[i - 1] ELSE Append(f[i - 1], v[i])
  <2>1. CASE i = 0 BY <1>6, <2>1
  <2>2. CASE i # 0
    <3>1. i \in 1 .. n /\ i - 1 \in 0 .. n BY <2>2
    <3>2. f[i - 1] \in Seq(S) BY <1>6, <3>1
    <3> QED BY <1>3, <1>6, <2>2, <3>1, <3>2
  <2> QED BY <2>1, <2>2
<1>8. f = [i \in 0 .. n |-> IF i = 0 THEN <<>>
                            ELSE IF v[i] \in gone THEN f[i - 1] ELSE Append(f[i - 1], v[i])]
  BY <1>6, <1>7
<1> QED BY <1>1, <1>8 DEF Keeping

LEMMA FilteredIs ==
    ASSUME NEW S, NEW v \in Seq(S), NEW gone
    PROVE  LET r == Filtered(v, gone) IN
           /\ r \in Seq(S) /\ ToSet(r) = ToSet(v) \ gone
           /\ IsInjective(v) => IsInjective(r)
           /\ ToSet(v) \cap gone = {} => r = v
<1> DEFINE kept[i \in 0 .. Len(v)] ==
             IF i = 0 THEN <<>>
             ELSE IF v[i] \in gone THEN kept[i - 1] ELSE Append(kept[i - 1], v[i])
<1>1. PICK r : r = Filtered(v, gone) OBVIOUS
<1>2. r = kept[Len(v)] BY <1>1 DEF Filtered
<1>3. kept = CHOOSE k : k = Keeping(k, v, gone) BY DEF Keeping
<1> HIDE DEF kept
<1>4. kept = Keeping(kept, v, gone) BY <1>3, FilterExists
<1>5. PICK n \in Nat : n = Len(v) /\ DOMAIN v = 1 .. n OBVIOUS
<1>6. ASSUME NEW i \in 0 .. n
      PROVE  kept[i] = IF i = 0 THEN <<>>
                       ELSE IF v[i] \in gone THEN kept[i - 1] ELSE Append(kept[i - 1], v[i])
  <2>1. Keeping(kept, v, gone)[i] = IF i = 0 THEN <<>>
                       ELSE IF v[i] \in gone THEN kept[i - 1] ELSE Append(kept[i - 1], v[i])
    BY <1>5 DEF Keeping
  <2> QED BY <1>4, <2>1
\* What is kept of the first i elements
<1> DEFINE Good(k, i) == /\ k \in Seq(S)
                         /\ \A x : x \in ToSet(k) <=> \E j \in 1 .. i : x = v[j] /\ x \notin gone
                         /\ IsInjective(v) => IsInjective(k)
                         /\ ToSet(v) \cap gone = {} =>
                              Len(k) = i /\ \A j \in 1 .. i : k[j] = v[j]
<1> DEFINE Bad == {i \in 0 .. n : ~Good(kept[i], i)}
<1>7. Good(kept[0], 0)
  <2>1. 0 \in 0 .. n /\ \A j \in 1 .. 0 : FALSE OBVIOUS
  <2>2. kept[0] = <<>> BY <1>6, <2>1
  <2>3. Len(<<>>) = 0 OBVIOUS
  <2> QED BY <2>1, <2>2, <2>3, EmptyIs
<1>8. ASSUME NEW i \in 1 .. n, Good(kept[i - 1], i - 1) PROVE Good(kept[i], i)
  <2>1. PICK k \in Seq(S), e \in S : k = kept[i - 1] /\ e = v[i] BY <1>5, <1>8
  <2>2. kept[i] = IF e \in gone THEN k ELSE Append(k, e) BY <1>6, <2>1
  <2>3. /\ \A x : x \in ToSet(k) <=> \E j \in 1 .. i - 1 : x = v[j] /\ x \notin gone
        /\ IsInjective(v) => IsInjective(k)
        /\ ToSet(v) \cap gone = {} => Len(k) = i - 1 /\ \A j \in 1 .. i - 1 : k[j] = v[j]
    BY <1>8, <2>1
  <2>4. \A j \in 1 .. i : j = i \/ j \in 1 .. i - 1 OBVIOUS
  <2>5. i \in 1 .. i /\ 1 .. i - 1 \subseteq 1 .. i OBVIOUS
  <2>6. e \in ToSet(v) BY <1>5, <2>1 DEF ToSet
  <2>7. CASE e \in gone
    <3>1. kept[i] = k BY <2>2, <2>7
    <3>2. \A x : x \in ToSet(k) <=> \E j \in 1 .. i : x = v[j] /\ x \notin gone
      BY <2>1, <2>3, <2>4, <2>5, <2>7
    <3>3. ToSet(v) \cap gone # {} BY <2>6, <2>7
    <3> QED BY <2>3, <3>1, <3>2, <3>3
  <2>8. CASE e \notin gone
    <3>1. kept[i] = Append(k, e) BY <2>2, <2>8
    <3>2. PICK m \in Nat : m = Len(k) OBVIOUS
    <3>a. PICK r1 : r1 = Append(k, e) OBVIOUS
    <3>3. /\ r1 \in Seq(S) /\ Len(r1) = m + 1 /\ r1[m + 1] = e
          /\ DOMAIN r1 = 1 .. m + 1 /\ DOMAIN k = 1 .. m
          /\ \A j \in 1 .. m : r1[j] = k[j]
      <4>1. Append(k, e) \in Seq(S) OBVIOUS
      <4> QED BY <3>2, <3>a, <4>1
    <3>4. ToSet(r1) = ToSet(k) \cup {e}
      <4>1. \A j \in 1 .. m + 1 : j = m + 1 \/ j \in 1 .. m OBVIOUS
      <4>2. m + 1 \in 1 .. m + 1 /\ 1 .. m \subseteq 1 .. m + 1 OBVIOUS
      <4>3. ToSet(r1) \subseteq ToSet(k) \cup {e} BY <3>3, <4>1 DEF ToSet
      <4>4. ToSet(k) \cup {e} \subseteq ToSet(r1) BY <3>3, <4>2 DEF ToSet
      <4> QED BY <4>3, <4>4
    <3>5. \A x : x \in ToSet(r1) <=> \E j \in 1 .. i : x = v[j] /\ x \notin gone
      BY <2>1, <2>3, <2>4, <2>5, <2>8, <3>4
    <3>6. ASSUME IsInjective(v) PROVE IsInjective(r1)
      <4>1. \A a, b \in 1 .. n : v[a] = v[b] => a = b BY <1>5, <3>6 DEF IsInjective
      <4>2. e \notin ToSet(k)
        <5>1. SUFFICES ASSUME e \in ToSet(k) PROVE FALSE OBVIOUS
        <5>2. PICK j \in 1 .. i - 1 : e = v[j] BY <2>3, <5>1
        <5>3. j \in 1 .. n /\ j # i BY <1>5
        <5> QED BY <2>1, <4>1, <5>2, <5>3
      <4> QED BY <2>3, <3>a, <3>6, <4>2, AppendedIs
    <3>7. ASSUME ToSet(v) \cap gone = {} PROVE Len(r1) = i /\ \A j \in 1 .. i : r1[j] = v[j]
      <4>1. m = i - 1 /\ \A j \in 1 .. i - 1 : k[j] = v[j] BY <2>3, <3>2, <3>7
      <4> QED BY <2>1, <2>4, <3>3, <4>1
    <3> QED BY <3>1, <3>a, <3>3, <3>5, <3>6, <3>7
  <2> QED BY <2>7, <2>8
<1> HIDE DEF Good
<1>9. Bad = {}
  <2>1. SUFFICES ASSUME Bad # {} PROVE FALSE OBVIOUS
  <2>2. Bad \in SUBSET Nat OBVIOUS
  <2>3. PICK m \in Bad : \A y \in Bad : m <= y BY <2>1, <2>2, LeastNat
  <2>4. m \in 0 .. n /\ ~Good(kept[m], m) BY <2>3
  <2>5. m # 0 BY <1>7, <2>4
  <2>6. m \in 1 .. n /\ m - 1 \in 0 .. n /\ ~(m <= m - 1) BY <2>4, <2>5
  <2>7. m - 1 \notin Bad BY <2>3, <2>6
  <2>8. Good(kept[m - 1], m - 1) BY <2>6, <2>7
  <2> QED BY <1>8, <2>4, <2>6, <2>8
<1>10. n \in 0 .. n OBVIOUS
<1>11. Good(kept[n], n) BY <1>9, <1>10
<1>12. r = kept[n] BY <1>2, <1>5
<1>13. /\ r \in Seq(S) /\ (IsInjective(v) => IsInjective(r))
       /\ \A x : x \in ToSet(r) <=> \E j \in 1 .. n : x = v[j] /\ x \notin gone
       /\ ToSet(v) \cap gone = {} => Len(r) = n /\ \A j \in 1 .. n : r[j] = v[j]
  BY <1>11, <1>12 DEF Good
<1>14. ToSet(r) = ToSet(v) \ gone
  <2>1. \A x : x \in ToSet(v) <=> \E j \in 1 .. n : x = v[j] BY <1>5 DEF ToSet
  <2> QED BY <1>13, <2>1
<1>15. ASSUME ToSet(v) \cap gone = {} PROVE r = v
  <2>1. Len(r) = Len(v) /\ \A j \in 1 .. Len(r) : r[j] = v[j] BY <1>5, <1>13, <1>15
  <2> QED BY <1>13, <2>1, SeqEqual
<1> QED BY <1>1, <1>13, <1>14, <1>15

-----------------------------------------------------------------------------
(* The sections                                                             *)

SpyStates ==
    [inView : SUBSET SectionIds, _elementsInView : SUBSET SectionIds,
     ticking : [SectionIds -> BOOLEAN], _visibleElements : Seq(SectionIds),
     hidden : SUBSET SectionIds, highlighted : SUBSET SectionIds, shrank : BOOLEAN]

\* The visible elements are ns, none of them hidden, and one of them is highlighted.
Tracks(s, ns) ==
    /\ IsInjective(s._visibleElements) /\ ToSet(s._visibleElements) = ns
    /\ ns \cap s.hidden = {} /\ \A n \in SectionIds : s.ticking[n] <=> n \in ns
    /\ s.highlighted = IF s._visibleElements = <<>> THEN {} ELSE {Head(s._visibleElements)}

ScrollSpyFits(s) == s \in SpyStates /\ (~s.shrank => Tracks(s, s._elementsInView))

\* What a section that enters or exits leaves alone
SameWindow(r, s) ==
    /\ r \in SpyStates /\ r.inView = s.inView /\ r._elementsInView = s._elementsInView
    /\ r.hidden = s.hidden /\ r.shrank = s.shrank

LEMMA StillVisibleIs ==
    ASSUME NEW s \in SpyStates
    PROVE  /\ StillVisible(s) \in Seq(SectionIds)
           /\ \A ns : Tracks(s, ns) => StillVisible(s) = s._visibleElements
<1>1. PICK v \in Seq(SectionIds) : v = s._visibleElements BY DEF SpyStates
<1>2. PICK r : r = Filtered(v, s.hidden) OBVIOUS
<1>3. r \in Seq(SectionIds) /\ (ToSet(v) \cap s.hidden = {} => r = v)
  BY <1>2, FilteredIs
<1> QED BY <1>1, <1>2, <1>3 DEF StillVisible, Tracks

\* A section of which the list, the tick and the highlight are set
Setting(s, v, n, tick, lit) ==
    [s EXCEPT !._visibleElements = v, !.ticking[n] = tick, !.highlighted = lit]

LEMMA SetSection ==
    ASSUME NEW s \in SpyStates, NEW v \in Seq(SectionIds), NEW n \in SectionIds,
           NEW tick \in BOOLEAN, NEW lit \in SUBSET SectionIds
    PROVE  LET r == Setting(s, v, n, tick, lit) IN
           /\ SameWindow(r, s) /\ r._visibleElements = v /\ r.highlighted = lit
           /\ r.ticking[n] = tick /\ \A m \in SectionIds \ {n} : r.ticking[m] = s.ticking[m]
<1>1. PICK ticking \in [SectionIds -> BOOLEAN] : ticking = [s.ticking EXCEPT ![n] = tick]
  BY DEF SpyStates
<1>2. PICK r : r = [s EXCEPT !._visibleElements = v, !.ticking = ticking, !.highlighted = lit]
  OBVIOUS
<1>3. r = Setting(s, v, n, tick, lit) BY <1>1, <1>2 DEF SpyStates, Setting
<1>4. r \in SpyStates BY <1>2 DEF SpyStates
<1>5. /\ r._visibleElements = v /\ r.highlighted = lit /\ r.ticking = ticking
      /\ r.inView = s.inView /\ r._elementsInView = s._elementsInView
      /\ r.hidden = s.hidden /\ r.shrank = s.shrank
  BY <1>2 DEF SpyStates
<1>6. ticking[n] = tick /\ \A m \in SectionIds \ {n} : ticking[m] = s.ticking[m]
  BY <1>1 DEF SpyStates
<1> QED BY <1>3, <1>4, <1>5, <1>6 DEF SameWindow

LEMMA EnterIs ==
    ASSUME NEW s \in SpyStates, NEW n \in SectionIds
    PROVE  LET r == _enter(s, n) IN
           /\ SameWindow(r, s)
           /\ \A ns : Tracks(s, ns) /\ n \notin ns /\ n \notin s.hidden => Tracks(r, ns \cup {n})
<1>1. PICK visible \in Seq(SectionIds) : visible = StillVisible(s) BY StillVisibleIs
<1>2. PICK v : v = IF visible # <<>> /\ n < Head(visible) THEN <<n>> \o visible
                   ELSE Append(visible, n)
  OBVIOUS
<1>3. v \in Seq(SectionIds) /\ v # <<>>
  <2>1. <<n>> \o visible \in Seq(SectionIds) /\ <<n>> \o visible # <<>>
    <3>1. <<n>> \in Seq(SectionIds) OBVIOUS
    <3>2. PICK one \in Seq(SectionIds) : one = <<n>> /\ Len(one) = 1 BY <3>1
    <3>3. PICK k \in Nat : k = Len(visible) OBVIOUS
    <3>4. one \o visible \in Seq(SectionIds) /\ Len(one \o visible) = 1 + k
      BY <3>2, <3>3, ConcatProperties
    <3>5. 1 + k # 0 /\ Len(<<>>) = 0 OBVIOUS
    <3> QED BY <3>2, <3>4, <3>5
  <2>2. Append(visible, n) \in Seq(SectionIds) /\ Append(visible, n) # <<>>
    <3>1. Append(visible, n) \in Seq(SectionIds) OBVIOUS
    <3>2. PICK k \in Nat : k = Len(visible) OBVIOUS
    <3>3. Len(Append(visible, n)) = k + 1 BY <3>2
    <3>4. k + 1 # 0 /\ Len(<<>>) = 0 OBVIOUS
    <3> QED BY <3>1, <3>3, <3>4
  <2> QED BY <1>2, <2>1, <2>2
<1>4. PICK off : off = IF visible = <<>> THEN {} ELSE {Head(visible)} OBVIOUS
<1>5. PICK lit \in SUBSET SectionIds : lit = (s.highlighted \ off) \cup {Head(v)}
  <2>1. Head(v) \in SectionIds BY <1>3
  <2> QED BY <2>1 DEF SpyStates
<1>6. PICK tick \in BOOLEAN : tick = TRUE OBVIOUS
<1>7. PICK r : r = Setting(s, v, n, tick, lit) OBVIOUS
<1>8. /\ SameWindow(r, s) /\ r._visibleElements = v /\ r.highlighted = lit
      /\ r.ticking[n] = tick /\ \A m \in SectionIds \ {n} : r.ticking[m] = s.ticking[m]
  BY <1>3, <1>7, SetSection
<1>9. r = _enter(s, n) BY <1>1, <1>2, <1>4, <1>5, <1>6, <1>7 DEF _enter, Setting
<1>10. ASSUME NEW ns, Tracks(s, ns), n \notin ns, n \notin s.hidden
       PROVE  Tracks(r, ns \cup {n})
  <2>1. visible = s._visibleElements BY <1>1, <1>10, StillVisibleIs
  <2>2. IsInjective(visible) /\ ToSet(visible) = ns BY <1>10, <2>1 DEF Tracks
  <2>3. IsInjective(v) /\ ToSet(v) = ns \cup {n}
    BY <1>2, <1>10, <2>2, PrependedIs, AppendedIs
  <2>4. lit = {Head(v)} BY <1>4, <1>5, <1>10, <2>1 DEF Tracks
  <2>5. (ns \cup {n}) \cap r.hidden = {} BY <1>8, <1>10 DEF Tracks, SameWindow
  <2>6. \A m \in SectionIds : r.ticking[m] <=> m \in ns \cup {n} BY <1>6, <1>8, <1>10 DEF Tracks
  <2> QED BY <1>3, <1>8, <2>3, <2>4, <2>5, <2>6 DEF Tracks
<1> QED BY <1>8, <1>9, <1>10

LEMMA ExitIs ==
    ASSUME NEW s \in SpyStates, NEW n \in SectionIds
    PROVE  LET r == _exit(s, n) IN
           /\ SameWindow(r, s)
           /\ \A ns : Tracks(s, ns) /\ n \in ns => Tracks(r, ns \ {n})
<1>1. PICK visible \in Seq(SectionIds) : visible = StillVisible(s) BY StillVisibleIs
<1>2. PICK left : left = Filtered(visible, {n}) OBVIOUS
<1>3. /\ left \in Seq(SectionIds) /\ ToSet(left) = ToSet(visible) \ {n}
      /\ IsInjective(visible) => IsInjective(left)
  BY <1>2, FilteredIs
<1>4. PICK on : on = IF left = <<>> THEN {} ELSE {Head(left)} OBVIOUS
<1>5. PICK v \in Seq(SectionIds) : v = IF visible = <<>> THEN <<>> ELSE left BY <1>3
<1>6. PICK lit \in SUBSET SectionIds :
        lit = IF visible = <<>> THEN s.highlighted
              ELSE (s.highlighted \ {Head(visible)}) \cup on
  <2>1. left # <<>> => Head(left) \in SectionIds BY <1>3
  <2>2. s.highlighted \in SUBSET SectionIds BY DEF SpyStates
  <2> QED BY <1>4, <2>1, <2>2
<1>7. PICK tick \in BOOLEAN : tick = FALSE OBVIOUS
<1>8. PICK r : r = Setting(s, v, n, tick, lit) OBVIOUS
<1>9. /\ SameWindow(r, s) /\ r._visibleElements = v /\ r.highlighted = lit
      /\ r.ticking[n] = tick /\ \A m \in SectionIds \ {n} : r.ticking[m] = s.ticking[m]
  BY <1>8, SetSection
<1>10. r = _exit(s, n)
  <2>1. PICK exited : exited = [s EXCEPT !.ticking[n] = FALSE] OBVIOUS
  <2>2. CASE visible = <<>>
    <3>1. _exit(s, n) = [exited EXCEPT !._visibleElements = <<>>] BY <1>1, <2>1, <2>2 DEF _exit
    <3>2. r = [exited EXCEPT !._visibleElements = <<>>]
      BY <1>5, <1>6, <1>7, <1>8, <2>1, <2>2 DEF SpyStates, Setting
    <3> QED BY <3>1, <3>2
  <2>3. CASE visible # <<>>
    <3>1. _exit(s, n) = [exited EXCEPT !._visibleElements = left,
                                       !.highlighted = (@ \ {Head(visible)}) \cup on]
      BY <1>1, <1>2, <1>4, <2>1, <2>3 DEF _exit
    <3>2. r = [exited EXCEPT !._visibleElements = left,
                             !.highlighted = (@ \ {Head(visible)}) \cup on]
      BY <1>5, <1>6, <1>7, <1>8, <2>1, <2>3 DEF SpyStates, Setting
    <3> QED BY <3>1, <3>2
  <2> QED BY <2>2, <2>3
<1>11. ASSUME NEW ns, Tracks(s, ns), n \in ns PROVE Tracks(r, ns \ {n})
  <2>1. visible = s._visibleElements BY <1>1, <1>11, StillVisibleIs
  <2>2. IsInjective(visible) /\ ToSet(visible) = ns BY <1>11, <2>1 DEF Tracks
  <2>3. visible # <<>> BY <1>11, <2>2, NonemptyIs
  <2>4. v = left /\ IsInjective(v) /\ ToSet(v) = ns \ {n} BY <1>3, <1>5, <2>2, <2>3
  <2>5. lit = IF v = <<>> THEN {} ELSE {Head(v)}
    <3>1. s.highlighted = {Head(visible)} BY <1>11, <2>1, <2>3 DEF Tracks
    <3> QED BY <1>4, <1>6, <2>3, <2>4, <3>1
  <2>6. (ns \ {n}) \cap r.hidden = {} BY <1>9, <1>11 DEF Tracks, SameWindow
  <2>7. \A m \in SectionIds : r.ticking[m] <=> m \in ns \ {n} BY <1>7, <1>9, <1>11 DEF Tracks
  <2> QED BY <1>9, <2>4, <2>5, <2>6, <2>7 DEF Tracks
<1> QED BY <1>9, <1>10, <1>11

Entering(f, s, ns) ==
    [n \in 0 .. Sections |->
       IF n = 0 THEN s ELSE IF n \in ns THEN _enter(f[n - 1], n) ELSE f[n - 1]]
Exiting(f, s, ns) ==
    [n \in 0 .. Sections |->
       IF n = 0 THEN s ELSE IF n \in ns THEN _exit(f[n - 1], n) ELSE f[n - 1]]

LEMMA EnteringExists ==
    ASSUME NEW s \in SpyStates, NEW ns PROVE \E f : f = Entering(f, s, ns)
<1>1. PICK N \in Nat : N = Sections /\ SectionIds = 1 .. N
  BY ScrollSpyAssumption DEF SectionIds
<1>2. PICK G : G = [p \in SpyStates \X (1 .. N) |->
                      IF p[2] \in ns THEN _enter(p[1], p[2]) ELSE p[1]]
  OBVIOUS
<1>3. ASSUME NEW a \in SpyStates, NEW n \in 1 .. N
      PROVE  /\ G[<<a, n>>] = IF n \in ns THEN _enter(a, n) ELSE a
             /\ G[<<a, n>>] \in SpyStates
  <2>1. G[<<a, n>>] = IF n \in ns THEN _enter(a, n) ELSE a BY <1>2
  <2>2. _enter(a, n) \in SpyStates
    <3>1. PICK r : r = _enter(a, n) OBVIOUS
    <3> QED BY <1>1, <3>1, EnterIs DEF SameWindow
  <2> QED BY <2>1, <2>2
<1>4. G \in [SpyStates \X (1 .. N) -> SpyStates]
  <2>1. \A p \in SpyStates \X (1 .. N) :
          p = <<p[1], p[2]>> /\ p[1] \in SpyStates /\ p[2] \in 1 .. N
    OBVIOUS
  <2>2. \A p \in SpyStates \X (1 .. N) : G[p] \in SpyStates BY <1>3, <2>1
  <2> QED BY <1>2, <2>2
<1>5. PICK f : Iterates(f, N, SpyStates, G, s) BY <1>4, Recursion
<1>6. /\ f \in [0 .. N -> SpyStates] /\ f[0] = s
      /\ \A n \in 1 .. N : f[n] = G[<<f[n - 1], n>>]
  BY <1>5 DEF Iterates
<1>7. ASSUME NEW n \in 0 .. N
      PROVE  f[n] = IF n = 0 THEN s
                    ELSE IF n \in ns THEN _enter(f[n - 1], n) ELSE f[n - 1]
  <2>1. CASE n = 0 BY <1>6, <2>1
  <2>2. CASE n # 0
    <3>1. n \in 1 .. N /\ n - 1 \in 0 .. N BY <2>2
    <3>2. f[n - 1] \in SpyStates BY <1>6, <3>1
    <3> QED BY <1>3, <1>6, <2>2, <3>1, <3>2
  <2> QED BY <2>1, <2>2
<1>8. f = [n \in 0 .. N |-> IF n = 0 THEN s
                            ELSE IF n \in ns THEN _enter(f[n - 1], n) ELSE f[n - 1]]
  BY <1>6, <1>7
<1> QED BY <1>1, <1>8 DEF Entering

LEMMA EnteredIs ==
    ASSUME NEW s \in SpyStates, NEW ns \in SUBSET SectionIds
    PROVE  LET r == Entered(s, ns) IN
           /\ SameWindow(r, s)
           /\ \A old : Tracks(s, old) /\ ns \cap (old \cup s.hidden) = {} => Tracks(r, old \cup ns)
<1> DEFINE f[n \in 0 .. Sections] ==
             IF n = 0 THEN s ELSE IF n \in ns THEN _enter(f[n - 1], n) ELSE f[n - 1]
<1>1. Entered(s, ns) = f[Sections] BY DEF Entered
<1>2. f = CHOOSE g : g = Entering(g, s, ns) BY DEF Entering
<1> HIDE DEF f
<1>3. f = Entering(f, s, ns) BY <1>2, EnteringExists
<1>4. PICK N \in Nat : N = Sections /\ SectionIds = 1 .. N
  BY ScrollSpyAssumption DEF SectionIds
<1>5. ASSUME NEW n \in 0 .. N
      PROVE  f[n] = IF n = 0 THEN s
                    ELSE IF n \in ns THEN _enter(f[n - 1], n) ELSE f[n - 1]
  <2>1. Entering(f, s, ns)[n] = IF n = 0 THEN s
                    ELSE IF n \in ns THEN _enter(f[n - 1], n) ELSE f[n - 1]
    BY <1>4 DEF Entering
  <2> QED BY <1>3, <2>1
<1> DEFINE Good(n) ==
      /\ SameWindow(f[n], s)
      /\ \A old : Tracks(s, old) /\ ns \cap (old \cup s.hidden) = {} =>
                    Tracks(f[n], old \cup (ns \cap 1 .. n))
<1> DEFINE Bad == {n \in 0 .. N : ~Good(n)}
<1>6. Good(0)
  <2>1. 0 \in 0 .. N OBVIOUS
  <2>2. f[0] = s BY <1>5, <2>1
  <2>3. \A old : old \cup (ns \cap 1 .. 0) = old OBVIOUS
  <2>4. SameWindow(s, s) BY DEF SameWindow
  <2> QED BY <2>2, <2>3, <2>4
<1>7. ASSUME NEW n \in 1 .. N, Good(n - 1) PROVE Good(n)
  <2>1. PICK a : a = f[n - 1] OBVIOUS
  <2>2. a \in SpyStates /\ SameWindow(a, s) BY <1>7, <2>1 DEF SameWindow
  <2>3. f[n] = IF n \in ns THEN _enter(a, n) ELSE a BY <1>5, <2>1
  <2>4. 1 .. n = (1 .. n - 1) \cup {n} /\ n \notin 1 .. n - 1 OBVIOUS
  <2>5. CASE n \notin ns
    <3>1. ns \cap 1 .. n = ns \cap 1 .. n - 1 BY <2>4, <2>5
    <3> QED BY <1>7, <2>1, <2>3, <2>5, <3>1
  <2>6. CASE n \in ns
    <3>1. PICK r : r = _enter(a, n) OBVIOUS
    <3>2. /\ SameWindow(r, a)
          /\ \A m : Tracks(a, m) /\ n \notin m /\ n \notin a.hidden => Tracks(r, m \cup {n})
      BY <1>4, <2>2, <3>1, EnterIs
    <3>3. SameWindow(r, s) BY <2>2, <3>2 DEF SameWindow
    <3>4. ASSUME NEW old, Tracks(s, old), ns \cap (old \cup s.hidden) = {}
          PROVE  Tracks(r, old \cup (ns \cap 1 .. n))
      <4>1. Tracks(a, old \cup (ns \cap 1 .. n - 1)) BY <1>7, <2>1, <3>4
      <4>2. n \notin old \cup (ns \cap 1 .. n - 1) /\ n \notin a.hidden
        BY <2>2, <2>4, <2>6, <3>4 DEF SameWindow
      <4>3. (old \cup (ns \cap 1 .. n - 1)) \cup {n} = old \cup (ns \cap 1 .. n)
        BY <2>4, <2>6
      <4>4. Tracks(r, (old \cup (ns \cap 1 .. n - 1)) \cup {n}) BY <3>2, <4>1, <4>2
      <4> QED BY <4>3, <4>4
    <3> QED BY <2>3, <2>6, <3>1, <3>3, <3>4
  <2> QED BY <2>5, <2>6
<1> HIDE DEF Good
<1>8. Bad = {}
  <2>1. SUFFICES ASSUME Bad # {} PROVE FALSE OBVIOUS
  <2>2. Bad \in SUBSET Nat OBVIOUS
  <2>3. PICK m \in Bad : \A y \in Bad : m <= y BY <2>1, <2>2, LeastNat
  <2>4. m \in 0 .. N /\ ~Good(m) BY <2>3
  <2>5. m # 0 BY <1>6, <2>4
  <2>6. m \in 1 .. N /\ m - 1 \in 0 .. N /\ ~(m <= m - 1) BY <2>4, <2>5
  <2>7. m - 1 \notin Bad BY <2>3, <2>6
  <2>8. Good(m - 1) BY <2>6, <2>7
  <2> QED BY <1>7, <2>4, <2>6, <2>8
<1>9. N \in 0 .. N /\ ns \cap 1 .. N = ns
  <2>1. N \in 0 .. N OBVIOUS
  <2>2. ns \subseteq 1 .. N BY <1>4
  <2>3. ns \cap 1 .. N = ns BY <2>2
  <2> QED BY <2>1, <2>3
<1>10. Good(N) BY <1>8, <1>9
<1> QED BY <1>1, <1>4, <1>9, <1>10 DEF Good

LEMMA ExitingExists ==
    ASSUME NEW s \in SpyStates, NEW ns PROVE \E f : f = Exiting(f, s, ns)
<1>1. PICK N \in Nat : N = Sections /\ SectionIds = 1 .. N
  BY ScrollSpyAssumption DEF SectionIds
<1>2. PICK G : G = [p \in SpyStates \X (1 .. N) |->
                      IF p[2] \in ns THEN _exit(p[1], p[2]) ELSE p[1]]
  OBVIOUS
<1>3. ASSUME NEW a \in SpyStates, NEW n \in 1 .. N
      PROVE  /\ G[<<a, n>>] = IF n \in ns THEN _exit(a, n) ELSE a
             /\ G[<<a, n>>] \in SpyStates
  <2>1. G[<<a, n>>] = IF n \in ns THEN _exit(a, n) ELSE a BY <1>2
  <2>2. _exit(a, n) \in SpyStates
    <3>1. PICK r : r = _exit(a, n) OBVIOUS
    <3> QED BY <1>1, <3>1, ExitIs DEF SameWindow
  <2> QED BY <2>1, <2>2
<1>4. G \in [SpyStates \X (1 .. N) -> SpyStates]
  <2>1. \A p \in SpyStates \X (1 .. N) :
          p = <<p[1], p[2]>> /\ p[1] \in SpyStates /\ p[2] \in 1 .. N
    OBVIOUS
  <2>2. \A p \in SpyStates \X (1 .. N) : G[p] \in SpyStates BY <1>3, <2>1
  <2> QED BY <1>2, <2>2
<1>5. PICK f : Iterates(f, N, SpyStates, G, s) BY <1>4, Recursion
<1>6. /\ f \in [0 .. N -> SpyStates] /\ f[0] = s
      /\ \A n \in 1 .. N : f[n] = G[<<f[n - 1], n>>]
  BY <1>5 DEF Iterates
<1>7. ASSUME NEW n \in 0 .. N
      PROVE  f[n] = IF n = 0 THEN s
                    ELSE IF n \in ns THEN _exit(f[n - 1], n) ELSE f[n - 1]
  <2>1. CASE n = 0 BY <1>6, <2>1
  <2>2. CASE n # 0
    <3>1. n \in 1 .. N /\ n - 1 \in 0 .. N BY <2>2
    <3>2. f[n - 1] \in SpyStates BY <1>6, <3>1
    <3> QED BY <1>3, <1>6, <2>2, <3>1, <3>2
  <2> QED BY <2>1, <2>2
<1>8. f = [n \in 0 .. N |-> IF n = 0 THEN s
                            ELSE IF n \in ns THEN _exit(f[n - 1], n) ELSE f[n - 1]]
  BY <1>6, <1>7
<1> QED BY <1>1, <1>8 DEF Exiting

LEMMA ExitedIs ==
    ASSUME NEW s \in SpyStates, NEW ns \in SUBSET SectionIds
    PROVE  LET r == Exited(s, ns) IN
           /\ SameWindow(r, s)
           /\ \A old : Tracks(s, old) /\ ns \subseteq old => Tracks(r, old \ ns)
<1> DEFINE f[n \in 0 .. Sections] ==
             IF n = 0 THEN s ELSE IF n \in ns THEN _exit(f[n - 1], n) ELSE f[n - 1]
<1>1. Exited(s, ns) = f[Sections] BY DEF Exited
<1>2. f = CHOOSE g : g = Exiting(g, s, ns) BY DEF Exiting
<1> HIDE DEF f
<1>3. f = Exiting(f, s, ns) BY <1>2, ExitingExists
<1>4. PICK N \in Nat : N = Sections /\ SectionIds = 1 .. N
  BY ScrollSpyAssumption DEF SectionIds
<1>5. ASSUME NEW n \in 0 .. N
      PROVE  f[n] = IF n = 0 THEN s
                    ELSE IF n \in ns THEN _exit(f[n - 1], n) ELSE f[n - 1]
  <2>1. Exiting(f, s, ns)[n] = IF n = 0 THEN s
                    ELSE IF n \in ns THEN _exit(f[n - 1], n) ELSE f[n - 1]
    BY <1>4 DEF Exiting
  <2> QED BY <1>3, <2>1
<1> DEFINE Good(n) ==
      /\ SameWindow(f[n], s)
      /\ \A old : Tracks(s, old) /\ ns \subseteq old => Tracks(f[n], old \ (ns \cap 1 .. n))
<1> DEFINE Bad == {n \in 0 .. N : ~Good(n)}
<1>6. Good(0)
  <2>1. 0 \in 0 .. N OBVIOUS
  <2>2. f[0] = s BY <1>5, <2>1
  <2>3. \A old : old \ (ns \cap 1 .. 0) = old OBVIOUS
  <2>4. SameWindow(s, s) BY DEF SameWindow
  <2> QED BY <2>2, <2>3, <2>4
<1>7. ASSUME NEW n \in 1 .. N, Good(n - 1) PROVE Good(n)
  <2>1. PICK a : a = f[n - 1] OBVIOUS
  <2>2. a \in SpyStates /\ SameWindow(a, s) BY <1>7, <2>1 DEF SameWindow
  <2>3. f[n] = IF n \in ns THEN _exit(a, n) ELSE a BY <1>5, <2>1
  <2>4. 1 .. n = (1 .. n - 1) \cup {n} /\ n \notin 1 .. n - 1 OBVIOUS
  <2>5. CASE n \notin ns
    <3>1. ns \cap 1 .. n = ns \cap 1 .. n - 1 BY <2>4, <2>5
    <3> QED BY <1>7, <2>1, <2>3, <2>5, <3>1
  <2>6. CASE n \in ns
    <3>1. PICK r : r = _exit(a, n) OBVIOUS
    <3>2. /\ SameWindow(r, a)
          /\ \A m : Tracks(a, m) /\ n \in m => Tracks(r, m \ {n})
      BY <1>4, <2>2, <3>1, ExitIs
    <3>3. SameWindow(r, s) BY <2>2, <3>2 DEF SameWindow
    <3>4. ASSUME NEW old, Tracks(s, old), ns \subseteq old
          PROVE  Tracks(r, old \ (ns \cap 1 .. n))
      <4>1. Tracks(a, old \ (ns \cap 1 .. n - 1)) BY <1>7, <2>1, <3>4
      <4>2. n \in old \ (ns \cap 1 .. n - 1)
        BY <2>2, <2>4, <2>6, <3>4 DEF SameWindow
      <4>3. (old \ (ns \cap 1 .. n - 1)) \ {n} = old \ (ns \cap 1 .. n)
        BY <2>4, <2>6
      <4>4. Tracks(r, (old \ (ns \cap 1 .. n - 1)) \ {n}) BY <3>2, <4>1, <4>2
      <4> QED BY <4>3, <4>4
    <3> QED BY <2>3, <2>6, <3>1, <3>3, <3>4
  <2> QED BY <2>5, <2>6
<1> HIDE DEF Good
<1>8. Bad = {}
  <2>1. SUFFICES ASSUME Bad # {} PROVE FALSE OBVIOUS
  <2>2. Bad \in SUBSET Nat OBVIOUS
  <2>3. PICK m \in Bad : \A y \in Bad : m <= y BY <2>1, <2>2, LeastNat
  <2>4. m \in 0 .. N /\ ~Good(m) BY <2>3
  <2>5. m # 0 BY <1>6, <2>4
  <2>6. m \in 1 .. N /\ m - 1 \in 0 .. N /\ ~(m <= m - 1) BY <2>4, <2>5
  <2>7. m - 1 \notin Bad BY <2>3, <2>6
  <2>8. Good(m - 1) BY <2>6, <2>7
  <2> QED BY <1>7, <2>4, <2>6, <2>8
<1>9. N \in 0 .. N /\ ns \cap 1 .. N = ns
  <2>1. N \in 0 .. N OBVIOUS
  <2>2. ns \subseteq 1 .. N BY <1>4
  <2>3. ns \cap 1 .. N = ns BY <2>2
  <2> QED BY <2>1, <2>3
<1>10. Good(N) BY <1>8, <1>9
<1> QED BY <1>1, <1>4, <1>9, <1>10 DEF Good

\* The page is scrolled.
LEMMA ScrolledToFits ==
    ASSUME NEW s, ScrollSpyFits(s), NEW found \in SUBSET SectionIds, found \cap s.hidden = {},
           NEW inView \in SUBSET SectionIds
    PROVE  ScrollSpyFits([_handleWindowScroll(s, found) EXCEPT !.inView = inView])
<1>1. s \in SpyStates BY DEF ScrollSpyFits
<1>2. PICK entering \in SUBSET SectionIds : entering = {n \in found : ~s.ticking[n]} OBVIOUS
<1>3. PICK exiting \in SUBSET SectionIds :
        exiting = {n \in s._elementsInView \ found : s.ticking[n]}
  BY <1>1 DEF SpyStates
<1>4. PICK a : a = Entered(s, entering) OBVIOUS
<1>5. /\ SameWindow(a, s)
      /\ \A old : Tracks(s, old) /\ entering \cap (old \cup s.hidden) = {} =>
                    Tracks(a, old \cup entering)
  BY <1>1, <1>4, EnteredIs
<1>6. PICK b : b = Exited(a, exiting) OBVIOUS
<1>7. /\ SameWindow(b, a)
      /\ \A old : Tracks(a, old) /\ exiting \subseteq old => Tracks(b, old \ exiting)
  <2>1. a \in SpyStates BY <1>5 DEF SameWindow
  <2> QED BY <1>6, <2>1, ExitedIs
<1>8. PICK r : r = [b EXCEPT !._elementsInView = found, !.inView = inView] OBVIOUS
<1>9. [_handleWindowScroll(s, found) EXCEPT !.inView = inView] = r
  <2>1. _handleWindowScroll(s, found) = [b EXCEPT !._elementsInView = found]
    BY <1>2, <1>3, <1>4, <1>6 DEF _handleWindowScroll
  <2> QED BY <1>8, <2>1
<1>10. b \in SpyStates /\ b.shrank = s.shrank BY <1>5, <1>7 DEF SameWindow
<1>11. r \in SpyStates BY <1>8, <1>10 DEF SpyStates
<1>12. /\ r.shrank = s.shrank /\ r._elementsInView = found /\ r.ticking = b.ticking
       /\ r._visibleElements = b._visibleElements /\ r.hidden = b.hidden
       /\ r.highlighted = b.highlighted
  BY <1>8, <1>10 DEF SpyStates
<1>13. ASSUME ~s.shrank PROVE Tracks(b, found)
  <2>1. PICK old \in SUBSET SectionIds : old = s._elementsInView BY <1>1 DEF SpyStates
  <2>2. Tracks(s, old) BY <1>13, <2>1 DEF ScrollSpyFits
  <2>3. \A n \in SectionIds : s.ticking[n] <=> n \in old BY <2>2 DEF Tracks
  <2>4. entering = found \ old /\ exiting = old \ found BY <1>2, <1>3, <2>1, <2>3
  <2>5. entering \cap (old \cup s.hidden) = {} BY <2>4
  <2>6. Tracks(a, old \cup entering) BY <1>5, <2>2, <2>5
  <2>7. exiting \subseteq old \cup entering BY <2>4
  <2>8. Tracks(b, (old \cup entering) \ exiting) BY <1>7, <2>6, <2>7
  <2>9. (old \cup entering) \ exiting = found BY <2>4
  <2> QED BY <2>8, <2>9
<1>14. ~r.shrank => Tracks(r, r._elementsInView) BY <1>12, <1>13 DEF Tracks
<1> QED BY <1>9, <1>11, <1>14 DEF ScrollSpyFits

\* A section is hidden or shown.
LEMMA ToggledFits ==
    ASSUME NEW s, ScrollSpyFits(s), NEW n \in SectionIds
    PROVE  ScrollSpyFits([s EXCEPT !.hidden = IF n \in @ THEN @ \ {n} ELSE @ \cup {n},
                                   !.shrank = @ \/ n \in ToSet(s._visibleElements)])
<1>1. s \in SpyStates BY DEF ScrollSpyFits
<1>2. PICK hidden \in SUBSET SectionIds :
        hidden = IF n \in s.hidden THEN s.hidden \ {n} ELSE s.hidden \cup {n}
  BY <1>1 DEF SpyStates
<1>3. s.shrank \in BOOLEAN BY <1>1 DEF SpyStates
<1>4. PICK shrank \in BOOLEAN :
        /\ shrank = (s.shrank \/ n \in ToSet(s._visibleElements))
        /\ ~shrank => ~s.shrank /\ n \notin ToSet(s._visibleElements)
  <2>1. CASE s.shrank \/ n \in ToSet(s._visibleElements) BY <2>1
  <2>2. CASE ~(s.shrank \/ n \in ToSet(s._visibleElements)) BY <2>2
  <2> QED BY <2>1, <2>2
<1>5. PICK r : r = [s EXCEPT !.hidden = hidden, !.shrank = shrank] OBVIOUS
<1>6. r = [s EXCEPT !.hidden = IF n \in @ THEN @ \ {n} ELSE @ \cup {n},
                    !.shrank = @ \/ n \in ToSet(s._visibleElements)]
  BY <1>1, <1>2, <1>4, <1>5 DEF SpyStates
<1>7. r \in SpyStates BY <1>1, <1>5 DEF SpyStates
<1>8. /\ r.shrank = shrank /\ r._elementsInView = s._elementsInView /\ r.ticking = s.ticking
      /\ r._visibleElements = s._visibleElements /\ r.hidden = hidden
      /\ r.highlighted = s.highlighted
  BY <1>1, <1>5 DEF SpyStates
<1>9. ASSUME ~shrank PROVE Tracks(r, s._elementsInView)
  <2>1. Tracks(s, s._elementsInView) /\ n \notin ToSet(s._visibleElements)
    BY <1>4, <1>9 DEF ScrollSpyFits
  <2>2. s._elementsInView \cap hidden = {} BY <1>2, <2>1 DEF Tracks
  <2> QED BY <1>8, <2>1, <2>2 DEF Tracks
<1> QED BY <1>6, <1>7, <1>8, <1>9 DEF ScrollSpyFits

LEMMA ScrollSpyInitFits ==
    ASSUME NEW s \in ScrollSpyInit PROVE ScrollSpyFits(s)
<1>1. s = [inView |-> {}, _elementsInView |-> {}, ticking |-> [n \in SectionIds |-> FALSE],
           _visibleElements |-> <<>>, hidden |-> {}, highlighted |-> {}, shrank |-> FALSE]
  BY DEF ScrollSpyInit
<1>2. <<>> \in Seq(SectionIds) /\ IsInjective(<<>>) /\ ToSet(<<>>) = {} BY EmptyIs
<1>3. {} \in SUBSET SectionIds /\ [n \in SectionIds |-> FALSE] \in [SectionIds -> BOOLEAN]
  OBVIOUS
<1>4. s \in SpyStates BY <1>1, <1>2, <1>3 DEF SpyStates
<1>5. /\ s._elementsInView = {} /\ s._visibleElements = <<>> /\ s.highlighted = {}
      /\ s.ticking = [n \in SectionIds |-> FALSE]
  BY <1>1
<1>6. Tracks(s, {}) BY <1>2, <1>5 DEF Tracks
<1> QED BY <1>4, <1>5, <1>6 DEF ScrollSpyFits

LEMMA ScrollSpyKeeps ==
    ASSUME OnPage("ScrollSpy"), ScrollSpyFits(spy), ScrollSpyStep
    PROVE  ScrollSpyFits(spy)'
<1>1. PICK s : s = spy OBVIOUS
<1>2. ScrollSpyFits(s) /\ s \in SpyStates BY <1>1 DEF ScrollSpyFits
<1>3. ASSUME NEW r, Steps("ScrollSpy", r), ScrollSpyFits(r) PROVE ScrollSpyFits(spy)'
  BY <1>3, BecomesIs DEF Steps, spy
<1>4. PICK N \in Nat : N = Sections /\ SectionIds = 1 .. N
  BY ScrollSpyAssumption DEF SectionIds
<1>5. ASSUME NEW first \in 0 .. Sections, NEW last \in 0 .. Sections, ScrollTo(first + 1, last)
      PROVE  ScrollSpyFits(spy)'
  <2>1. PICK inView \in SUBSET SectionIds : inView = (first + 1) .. last BY <1>4
  <2>a. PICK found : found = inView \ s.hidden OBVIOUS
  <2>2. found \in SUBSET SectionIds /\ found = inView \ s.hidden /\ found \cap s.hidden = {}
    BY <2>a
  <2>3. Steps("ScrollSpy", [_handleWindowScroll(s, found) EXCEPT !.inView = inView])
    BY <1>1, <1>5, <2>1, <2>2 DEF ScrollTo
  <2>4. ScrollSpyFits([_handleWindowScroll(s, found) EXCEPT !.inView = inView])
    BY <1>2, <2>2, ScrolledToFits
  <2> QED BY <1>3, <2>3, <2>4
<1>6. ASSUME NEW n \in SectionIds, ToggleSection(n) PROVE ScrollSpyFits(spy)'
  <2>1. PICK r : r = [s EXCEPT !.hidden = IF n \in @ THEN @ \ {n} ELSE @ \cup {n},
                               !.shrank = @ \/ n \in ToSet(s._visibleElements)]
    OBVIOUS
  <2>2. Steps("ScrollSpy", r) BY <1>1, <1>6, <2>1 DEF ToggleSection
  <2>3. ScrollSpyFits(r) BY <1>2, <2>1, ToggledFits
  <2> QED BY <1>3, <2>2, <2>3
<1> QED BY <1>5, <1>6 DEF ScrollSpyStep

LEMMA ScrollSpyGives ==
    ASSUME ScrollSpyFits(spy) PROVE ScrollSpyTypeOK /\ ScrollSpyShowsState
BY DEF ScrollSpyFits, SpyStates, Tracks, ScrollSpyTypeOK, ScrollSpyShowsState

-----------------------------------------------------------------------------
(* A widget's step leaves the other widgets alone.                          *)

Only(name) ==
    /\ DOMAIN widget' = DOMAIN widget
    /\ \A n \in DOMAIN widget \ {name} : widget'[n] = widget[n]

LEMMA BecomesOnly ==
    ASSUME NEW name, NEW w, Becomes(name, w) PROVE Only(name)
BY DEF Becomes, Only

LEMMA StepsOnly ==
    ASSUME NEW name, NEW w, Steps(name, w) PROVE Only(name) /\ scrolls' = scrolls
BY BecomesOnly DEF Steps

\* All but the drawer, the modals and the pickers leave the body alone as well.
LEMMA ToastsAlone == ASSUME ToastsStep PROVE Only("Toasts") /\ scrolls' = scrolls
BY StepsOnly DEF ToastsStep, _onDragStart, FingerLeaves, LetGo, LetGoUnheard, MouseUp, Tick,
                 MakeToast, Left

LEMMA CollapsibleAlone == ASSUME CollapsibleStep PROVE Only("Collapsible") /\ scrolls' = scrolls
BY StepsOnly DEF CollapsibleStep, ClickHeader, BodySlid

LEMMA DropdownAlone == ASSUME DropdownStep PROVE Only("Dropdown") /\ scrolls' = scrolls
BY StepsOnly DEF DropdownStep, _resetFilterQuery, TriggerKey, TouchMove, TouchEnd, MouseLeave,
   MouseEnter, MenuKey, MenuAnimated, CloseTimer, ClickMenu

LEMMA CarouselAlone == ASSUME CarouselStep PROVE Only("Carousel") /\ scrolls' = scrolls
BY StepsOnly DEF CarouselStep

LEMMA TabsAlone == ASSUME TabsStep PROVE Only("Tabs") /\ scrolls' = scrolls
BY StepsOnly DEF TabsStep, SwipePanels, TabsBecome, ResizeWindow, PanelsFrame, ScrollNothing,
   IndicatorTimer, IndicatorMoved, ClickTab

LEMMA TooltipAlone == ASSUME TooltipStep PROVE Only("Tooltip") /\ scrolls' = scrolls
BY StepsOnly DEF TooltipStep, TipBecomes, OpenTipByScript, LeaveTip, FocusTip, EnterTip,
   CloseTipByScript, BlurTip

LEMMA WavesAlone == ASSUME WavesStep PROVE Only("Waves") /\ scrolls' = scrolls
BY StepsOnly DEF WavesStep, TouchPops, TouchEnds, TouchButton, TouchBeside, RemoveTimer,
   MouseOff, MouseDown, FadeTimer

LEMMA AutocompleteAlone == ASSUME AutocompleteStep PROVE Only("Autocomplete") /\ scrolls' = scrolls
BY StepsOnly DEF AutocompleteStep, TypeInField, AutoBecomes, ReleaseSuggestion, Select,
   ReleaseBeside, PressUp, PressSuggestion, PressEnter, PressDown, KeyUpOfArrowOrEnter, KeyUp,
   FocusField, CloseSuggestionsTimer, ClickField, BlurField

LEMMA ChipsAlone == ASSUME ChipsStep PROVE Only("Chips") /\ scrolls' = scrolls
BY StepsOnly DEF ChipsStep, TypeTag, ChipsBecome, Tab, LeaveInput, EnterChip, ClickCloseChip,
   ClickChip, ClickBesideChips, ChipsKeyUp, Backspace, Arrow

LEMMA FormSelectAlone == ASSUME FormSelectStep PROVE Only("FormSelect") /\ scrolls' = scrolls
BY StepsOnly DEF FormSelectStep, ResetTimer, SelectBecomes, ResetForm, OpenSelectByKey,
   CloseSelectTimer, ClickSelect, ClickOption, ClickBesideSelect

LEMMA TextFieldAlone == ASSUME TextFieldStep PROVE Only("TextField") /\ scrolls' = scrolls
BY StepsOnly DEF TextFieldStep, TypeInTextField, FieldBecomes, ResetTextField,
   PressEnterInTextField, FocusTextField, BlurTextField

LEMMA TextAreaAlone == ASSUME TextAreaStep PROVE Only("TextArea") /\ scrolls' = scrolls
BY StepsOnly DEF TextAreaStep, TypeInArea, KeyInArea

LEMMA SliderAlone == ASSUME SliderStep PROVE Only("Slider") /\ scrolls' = scrolls
BY StepsOnly DEF SliderStep, _handleInterval, SliderBecomes, PrevSlide, NextSlide, FadesEnd,
   ClickIndicator

LEMMA LightboxAlone == ASSUME LightboxStep PROVE Only("Lightbox") /\ scrolls' = scrolls
BY StepsOnly DEF LightboxStep, ScrollOrResize, LightboxBecomes, ReleaseEscape, PictureIsLarge,
   PictureIsBack, ClickPicture, ClickBoxOverlay

LEMMA FloatingButtonAlone == ASSUME FloatingButtonStep PROVE Only("FloatingButton") /\ scrolls' = scrolls
BY StepsOnly DEF FloatingButtonStep, StartTimer, FabBecomes, SpreadTimer, ShrinkTimer,
   ScrollPage, LeaveFab, Folded, EnterFab, ClickFab, ClickBesideFab

LEMMA ScrollSpyAlone == ASSUME ScrollSpyStep PROVE Only("ScrollSpy") /\ scrolls' = scrolls
BY StepsOnly DEF ScrollSpyStep, ToggleSection, ScrollTo

LEMMA SidenavAlone == ASSUME SidenavStep PROVE Only("Sidenav")
BY BecomesOnly DEF SidenavStep, SlideEnds, ReleaseEdge, NavBecomes, ReleaseDrawer,
   MakeSidenav, FadeEnds, DragEdge, DragDrawer, ClickTrigger, ClickOverlay, ClickCloseTrigger,
   Steps

LEMMA ModalAlone == ASSUME ModalStep PROVE Only("Modal")
BY BecomesOnly DEF ModalStep, PressEscape, CloseModals, OpenModal, ModalAnimated,
   ClickModalOverlay, ClickModalClose, Steps

LEMMA DatepickerAlone == ASSUME DatepickerStep PROVE Only("Datepicker")
BY BecomesOnly DEF DatepickerStep, TypeDate, DatepickerBecomes, PickerBecomes, TurnMonth,
   SelectYear, SelectMonth, PickDay, DismissDialog, DialogClosed, ClickDone, ClickDateField,
   ClickClear, ClickCancel, Steps

LEMMA TimepickerAlone == ASSUME TimepickerStep PROVE Only("Timepicker")
BY BecomesOnly DEF TimepickerStep, TypeTime, ClockBecomes, PickerBecomes, TouchDial,
   ToggleViewTimer, ResetHandTimer, ReleaseDial, DoneTimer, DismissDialog, DialogClosed,
   ClickView, ClickTimeField, ClickOk, ClickHalf, ClickClearTime, ClickCancelTime, Steps

-----------------------------------------------------------------------------
(* The page                                                                 *)

\* What the proofs keep of a widget, by its name.
FitsAs(name, w) ==
    /\ name = "Sidenav" => SidenavFits(w)
    /\ name = "Toasts" => ToastsFits(w)
    /\ name = "Collapsible" => CollapsibleFits(w)
    /\ name = "Modal" => ModalFits(w)
    /\ name = "Dropdown" => DropdownFits(w)
    /\ name = "Carousel" => CarouselFits(w)
    /\ name = "Tabs" => TabsFits(w)
    /\ name = "Tooltip" => TooltipFits(w)
    /\ name = "Waves" => WavesFits(w)
    /\ name = "Autocomplete" => AutocompleteFits(w)
    /\ name = "Chips" => ChipsFits(w)
    /\ name = "FormSelect" => FormSelectFits(w)
    /\ name = "TextField" => TextFieldFits(w)
    /\ name = "TextArea" => TextAreaFits(w)
    /\ name = "Slider" => SliderFits(w)
    /\ name = "Lightbox" => LightboxFits(w)
    /\ name = "FloatingButton" => FloatingButtonFits(w)
    /\ name = "ScrollSpy" => ScrollSpyFits(w)
    /\ name = "Timepicker" => TimepickerFits(w)
    /\ name = "Datepicker" => PickerFits(w)

WidgetNames == {"Sidenav", "Toasts", "Collapsible", "Modal", "Dropdown", "Carousel", "Tabs", "Tooltip",
                "Waves", "Autocomplete", "Chips", "FormSelect", "TextField", "TextArea", "Slider",
                "Lightbox", "FloatingButton", "ScrollSpy", "Timepicker", "Datepicker"}

\* The widgets that keep the body from scrolling while they are open, and whether one is open
OverTheBody == Dialogs \cup {"Sidenav"}
Covers(name, w) ==
    \/ name = "Sidenav" /\ w.isOpen
    \/ name = "Modal" /\ OpenOf(w) # {}
    \/ name \in {"Datepicker", "Timepicker"} /\ w.modal = "open"
Covered == \E name \in DOMAIN widget : Covers(name, widget[name])

\* Both the drawer and a modal decide whether the body scrolls.
Shared == OnPage("Sidenav") /\ \E name \in Dialogs : OnPage(name)

\* The inductive invariant of a page
WidgetsFit ==
    /\ DOMAIN widget \in Pages
    /\ scrolls \in BOOLEAN
    /\ \A name \in DOMAIN widget : FitsAs(name, widget[name])
    /\ ~scrolls => Covered
    /\ ~Shared => (Covered => ~scrolls)

\* The same, with the names the widgets' states have.
LEMMA WidgetsFitIs ==
    ASSUME WidgetsFit
    PROVE  /\ OnPage("Sidenav") => SidenavFits(nav)
           /\ OnPage("Toasts") => ToastsFits(ts)
           /\ OnPage("Collapsible") => CollapsibleFits(list)
           /\ OnPage("Modal") => ModalFits(ms)
           /\ OnPage("Dropdown") => DropdownFits(menu)
           /\ OnPage("Carousel") => CarouselFits(widget["Carousel"])
           /\ OnPage("Tabs") => TabsFits(tabs)
           /\ OnPage("Tooltip") => TooltipFits(tip)
           /\ OnPage("Waves") => WavesFits(waves)
           /\ OnPage("Autocomplete") => AutocompleteFits(auto)
           /\ OnPage("Chips") => ChipsFits(chips)
           /\ OnPage("FormSelect") => FormSelectFits(select)
           /\ OnPage("TextField") => TextFieldFits(field)
           /\ OnPage("TextArea") => TextAreaFits(area)
           /\ OnPage("Slider") => SliderFits(slider)
           /\ OnPage("Lightbox") => LightboxFits(box)
           /\ OnPage("FloatingButton") => FloatingButtonFits(fab)
           /\ OnPage("ScrollSpy") => ScrollSpyFits(spy)
           /\ OnPage("Timepicker") => TimepickerFits(clock)
           /\ OnPage("Datepicker") => PickerFits(picker)
<1>1. \A name : OnPage(name) => FitsAs(name, widget[name]) BY DEF WidgetsFit, OnPage
<1> QED
  BY <1>1 DEF FitsAs, nav, ts, list, ms, menu, tabs, tip, waves, auto, chips, select, field,
              area, slider, box, fab, spy, clock, picker

LEMMA InitialFits ==
    ASSUME NEW name, NEW w \in Initial(name)
    PROVE  FitsAs(name, w) /\ ~Covers(name, w)
<1>1. CASE name = "Sidenav"
  <2>1. w \in Initial("Sidenav") BY <1>1
  <2>2. w \in {SidenavInit} BY <2>1 DEF Initial
  <2>3. SidenavFits(w) BY <2>2, SidenavInitFits
  <2>4. ~Covers(name, w) BY <1>1, <2>2 DEF SidenavInit, Covers
  <2> QED BY <1>1, <2>3, <2>4 DEF FitsAs
<1>2. CASE name = "Toasts"
  <2>1. w \in Initial("Toasts") BY <1>2
  <2>2. w \in {ToastsInit} BY <2>1 DEF Initial
  <2>3. ToastsFits(w) BY <2>2, ToastsInitFits
  <2> QED BY <1>2, <2>3 DEF FitsAs, Covers
<1>3. CASE name = "Collapsible"
  <2>1. w \in Initial("Collapsible") BY <1>3
  <2>2. w \in CollapsibleInit BY <2>1 DEF Initial
  <2>3. CollapsibleFits(w) BY <2>2, CollapsibleInitFits
  <2> QED BY <1>3, <2>3 DEF FitsAs, Covers
<1>4. CASE name = "Modal"
  <2>1. w \in Initial("Modal") BY <1>4
  <2>2. w \in ModalInit BY <2>1 DEF Initial
  <2>3. ModalFits(w) BY <2>2, ModalInitFits
  <2>4. ~Covers(name, w) BY <1>4, <2>2 DEF ModalInit, OpenOf, Covers
  <2> QED BY <1>4, <2>3, <2>4 DEF FitsAs
<1>5. CASE name = "Dropdown"
  <2>1. w \in Initial("Dropdown") BY <1>5
  <2>2. w \in DropdownInit BY <2>1 DEF Initial
  <2>3. DropdownFits(w) BY <2>2, DropdownInitFits
  <2> QED BY <1>5, <2>3 DEF FitsAs, Covers
<1>6. CASE name = "Carousel"
  <2>1. w \in Initial("Carousel") BY <1>6
  <2>2. w \in CarouselInit BY <2>1 DEF Initial
  <2>3. CarouselFits(w) BY <2>2, CarouselInitFits
  <2> QED BY <1>6, <2>3 DEF FitsAs, Covers
<1>7. CASE name = "Tabs"
  <2>1. w \in Initial("Tabs") BY <1>7
  <2>2. w \in TabsInit BY <2>1 DEF Initial
  <2>3. TabsFits(w) BY <2>2, TabsInitFits
  <2> QED BY <1>7, <2>3 DEF FitsAs, Covers
<1>8. CASE name = "Tooltip"
  <2>1. w \in Initial("Tooltip") BY <1>8
  <2>2. w \in {TooltipInit} BY <2>1 DEF Initial
  <2>3. TooltipFits(w) BY <2>2, TooltipInitFits
  <2> QED BY <1>8, <2>3 DEF FitsAs, Covers
<1>9. CASE name = "Waves"
  <2>1. w \in Initial("Waves") BY <1>9
  <2>2. w \in {WavesInit} BY <2>1 DEF Initial
  <2>3. WavesFits(w) BY <2>2, WavesInitFits
  <2> QED BY <1>9, <2>3 DEF FitsAs, Covers
<1>10. CASE name = "Autocomplete"
  <2>1. w \in Initial("Autocomplete") BY <1>10
  <2>2. w \in {AutocompleteInit} BY <2>1 DEF Initial
  <2>3. AutocompleteFits(w) BY <2>2, AutocompleteInitFits
  <2> QED BY <1>10, <2>3 DEF FitsAs, Covers
<1>11. CASE name = "Chips"
  <2>1. w \in Initial("Chips") BY <1>11
  <2>2. w \in ChipsInit BY <2>1 DEF Initial
  <2>3. ChipsFits(w) BY <2>2, ChipsInitFits
  <2> QED BY <1>11, <2>3 DEF FitsAs, Covers
<1>12. CASE name = "FormSelect"
  <2>1. w \in Initial("FormSelect") BY <1>12
  <2>2. w \in FormSelectInit BY <2>1 DEF Initial
  <2>3. FormSelectFits(w) BY <2>2, FormSelectInitFits
  <2> QED BY <1>12, <2>3 DEF FitsAs, Covers
<1>13. CASE name = "TextField"
  <2>1. w \in Initial("TextField") BY <1>13
  <2>2. w \in TextFieldInit BY <2>1 DEF Initial
  <2>3. TextFieldFits(w) BY <2>2, TextFieldInitFits
  <2> QED BY <1>13, <2>3 DEF FitsAs, Covers
<1>14. CASE name = "TextArea"
  <2>1. w \in Initial("TextArea") BY <1>14
  <2>2. w \in TextAreaInit BY <2>1 DEF Initial
  <2>3. TextAreaFits(w) BY <2>2, TextAreaInitFits
  <2> QED BY <1>14, <2>3 DEF FitsAs, Covers
<1>15. CASE name = "Slider"
  <2>1. w \in Initial("Slider") BY <1>15
  <2>2. w \in SliderInit BY <2>1 DEF Initial
  <2>3. SliderFits(w) BY <2>2, SliderInitFits
  <2> QED BY <1>15, <2>3 DEF FitsAs, Covers
<1>16. CASE name = "Lightbox"
  <2>1. w \in Initial("Lightbox") BY <1>16
  <2>2. w \in LightboxInit BY <2>1 DEF Initial
  <2>3. LightboxFits(w) BY <2>2, LightboxInitFits
  <2> QED BY <1>16, <2>3 DEF FitsAs, Covers
<1>17. CASE name = "FloatingButton"
  <2>1. w \in Initial("FloatingButton") BY <1>17
  <2>2. w \in FloatingButtonInit BY <2>1 DEF Initial
  <2>3. FloatingButtonFits(w) BY <2>2, FloatingButtonInitFits
  <2> QED BY <1>17, <2>3 DEF FitsAs, Covers
<1>18. CASE name = "ScrollSpy"
  <2>1. w \in Initial("ScrollSpy") BY <1>18
  <2>2. w \in ScrollSpyInit BY <2>1 DEF Initial
  <2>3. ScrollSpyFits(w) BY <2>2, ScrollSpyInitFits
  <2> QED BY <1>18, <2>3 DEF FitsAs, Covers
<1>19. CASE name = "Timepicker"
  <2>1. w \in Initial("Timepicker") BY <1>19
  <2>2. w \in TimepickerInit BY <2>1 DEF Initial
  <2>3. TimepickerFits(w) BY <2>2, TimepickerInitFits
  <2>4. ~Covers(name, w) BY <1>19, <2>2 DEF TimepickerInit, Covers
  <2> QED BY <1>19, <2>3, <2>4 DEF FitsAs
<1>20. CASE name = "Datepicker"
  <2>1. w \in Initial("Datepicker") BY <1>20
  <2>2. w \in DatepickerInit BY <2>1 DEF Initial
  <2>3. PickerFits(w) BY <2>2, DatepickerInitFits
  <2>4. ~Covers(name, w) BY <1>20, <2>2, DatepickerInitFits DEF Covers
  <2> QED BY <1>20, <2>3, <2>4 DEF FitsAs
<1>21. CASE name \notin WidgetNames BY <1>21 DEF FitsAs, Covers, WidgetNames
<1> QED BY <1>1, <1>2, <1>3, <1>4, <1>5, <1>6, <1>7, <1>8, <1>9, <1>10, <1>11, <1>12, <1>13, <1>14, <1>15, <1>16, <1>17, <1>18, <1>19, <1>20, <1>21 DEF WidgetNames

LEMMA InitialPageFits == Init => WidgetsFit
<1> SUFFICES ASSUME Init PROVE WidgetsFit
  OBVIOUS
<1>1. PICK page \in Pages :
        widget \in {w \in [page -> UNION {Initial(name) : name \in page}] :
                      \A name \in page : w[name] \in Initial(name)}
  BY DEF Init
<1>2. DOMAIN widget = page /\ \A name \in page : widget[name] \in Initial(name)
  BY <1>1
<1>3. \A name \in page : FitsAs(name, widget[name]) /\ ~Covers(name, widget[name])
  BY <1>2, InitialFits
<1>4. ~Covered BY <1>2, <1>3 DEF Covered
<1> QED BY <1>2, <1>3, <1>4 DEF Init, WidgetsFit

\* A step of a widget, and what it does to the body: what opens keeps it from scrolling, what
\* closes lets it, and what does neither leaves it as it was.
Moves(name) ==
    /\ name \in DOMAIN widget
    /\ Only(name)
    /\ FitsAs(name, widget'[name])
    /\ \/ Covers(name, widget'[name]) /\ scrolls' = FALSE
       \/ name \in OverTheBody /\ ~Covers(name, widget'[name]) /\ scrolls' = TRUE
       \/ Covers(name, widget'[name]) = Covers(name, widget[name]) /\ scrolls' = scrolls

LEMMA QuietMoves ==
    ASSUME NEW name, OnPage(name), FitsAs(name, widget'[name]), name \notin OverTheBody,
           Only(name) /\ scrolls' = scrolls
    PROVE  Moves(name)
BY DEF Moves, Covers, OverTheBody, Dialogs, OnPage

LEMMA SidenavMoves ==
    ASSUME OnPage("Sidenav"), SidenavFits(nav), scrolls \in BOOLEAN, SidenavStep
    PROVE  Moves("Sidenav")
<1>1. SidenavFits(widget'["Sidenav"]) BY SidenavKeeps DEF nav
<1>2. \/ nav'.isOpen = nav.isOpen /\ scrolls' = scrolls
      \/ scrolls' = ~nav'.isOpen
  <2> nav \in SidenavStates BY DEF SidenavFits
  <2>1. ASSUME NEW n, Becomes("Sidenav", n) PROVE nav' = n
    BY <2>1, BecomesIs DEF nav
  <2>2. ASSUME NEW n, NavBecomes(n)
        PROVE  (nav'.isOpen = nav.isOpen /\ scrolls' = scrolls) \/ scrolls' = ~nav'.isOpen
    BY <2>1, <2>2 DEF NavBecomes
  <2>3. ASSUME NEW n, Steps("Sidenav", n), n.isOpen = nav.isOpen
        PROVE  nav'.isOpen = nav.isOpen /\ scrolls' = scrolls
    BY <2>1, <2>3 DEF Steps
  <2>4. CASE MakeSidenav
    <3>1. PICK d : d = SidenavDestroy(nav)
      OBVIOUS
    <3>2. \A a, b, c : [d EXCEPT !.made = a, !.sidenavs = b, !.handlers = c].isOpen = nav.isOpen
      BY <3>1 DEF SidenavDestroy, SidenavStates
    <3>3. PICK w : /\ w = [d EXCEPT !.made = @ + 1, !.sidenavs = @ + 1,
                                   !.handlers = IF d.sidenavs = 0 THEN @ + 1 ELSE @]
                   /\ Becomes("Sidenav", w)
      BY <2>4, <3>1 DEF MakeSidenav
    <3>4. w.isOpen = nav.isOpen
      <4>1. PICK a, b, c : w = [d EXCEPT !.made = a, !.sidenavs = b, !.handlers = c]
        BY <3>3
      <4> QED BY <3>2, <4>1
    <3>5. nav.isOpen = FALSE BY <2>4 DEF MakeSidenav, SidenavFits, SidenavStates
    <3>6. scrolls' = scrolls \/ scrolls' = TRUE BY <2>4 DEF MakeSidenav
    <3>7. nav' = w BY <2>1, <3>3
    <3> QED BY <3>4, <3>5, <3>6, <3>7
  <2>5. CASE DragEdge \/ DragDrawer
    BY <2>3, <2>5 DEF DragEdge, DragDrawer, Dragged, AtEdge, SidenavStates
  <2>6. CASE SlideEnds \/ FadeEnds
    BY <2>3, <2>6 DEF SlideEnds, FadeEnds, SidenavStates
  <2>7. CASE ClickTrigger \/ ClickOverlay \/ ClickCloseTrigger
    BY <2>2, <2>7 DEF ClickTrigger, ClickOverlay, ClickCloseTrigger
  <2>8. CASE ReleaseEdge \/ ReleaseDrawer
    BY <2>2, <2>8 DEF ReleaseEdge, ReleaseDrawer
  <2> QED BY <2>4, <2>5, <2>6, <2>7, <2>8 DEF SidenavStep
<1>3. Only("Sidenav") BY SidenavAlone
<1>4. nav.isOpen \in BOOLEAN /\ nav'.isOpen \in BOOLEAN
  BY <1>1 DEF SidenavFits, SidenavStates, nav
<1>5. /\ Covers("Sidenav", widget["Sidenav"]) = nav.isOpen
      /\ Covers("Sidenav", widget'["Sidenav"]) = nav'.isOpen
  BY <1>4 DEF Covers, nav
<1>6. FitsAs("Sidenav", widget'["Sidenav"]) BY <1>1 DEF FitsAs
<1> QED BY <1>2, <1>3, <1>4, <1>5, <1>6 DEF Moves, OverTheBody, Dialogs, OnPage

LEMMA ModalMoves ==
    ASSUME OnPage("Modal"), ModalFits(ms), scrolls \in BOOLEAN, ModalStep
    PROVE  Moves("Modal")
<1> DEFINE before == OpenOf(ms)
           after == OpenOf(ms')
<1>0. OpenModals = before /\ ms \in ModalStates BY DEF OpenModals, OpenOf, ModalFits
<1>1. ModalFits(widget'["Modal"]) BY ModalKeeps DEF ms
<1>2. ASSUME NEW s, Becomes("Modal", s) PROVE ms' = s
  BY <1>2, BecomesIs DEF ms
<1>3. \/ after # {} /\ scrolls' = FALSE
      \/ after = {} /\ scrolls' = TRUE
      \/ (after = {} <=> before = {}) /\ scrolls' = scrolls
  <2>1. ASSUME NEW m \in Modals, OpenModal(m)
        PROVE  after # {} /\ scrolls' = FALSE
    <3>1. ms' = OpenedModal(ms, m) /\ scrolls' = FALSE
      BY <1>2, <2>1 DEF OpenModal, OpenedModal
    <3>2. OpenedModal(ms, m).isOpen[m]
      BY <1>0 DEF OpenedModal, ModalStates
    <3> QED BY <3>1, <3>2 DEF OpenOf
  <2>2. ASSUME NEW closed \in SUBSET OpenModals, closed # {}, CloseModals(closed)
        PROVE  \/ after = {} /\ scrolls' = TRUE
               \/ after # {} /\ before # {} /\ scrolls' = scrolls
    <3>1. ms' = ClosedModals(ms, closed)
      BY <1>2, <2>2 DEF CloseModals, ClosedModals
    <3>2. scrolls' = (scrolls \/ Cardinality(before) = Cardinality(closed))
      BY <2>2 DEF CloseModals, ModalFits
    <3>3. ClosedModals(ms, closed).isOpen = [m \in Modals |-> ms.isOpen[m] /\ m \notin closed]
      BY <1>0 DEF ClosedModals, ModalStates
    <3>4. after = before \ closed
      BY <3>1, <3>3 DEF OpenOf
    <3>5. closed \subseteq before /\ before \in SUBSET Modals /\ closed \in SUBSET Modals
      BY <1>0, <2>2 DEF OpenOf
    <3>6. IsFiniteSet(before) BY <3>5, SomeModals
    <3>7. Cardinality(before) = Cardinality(closed) <=> closed = before
      BY <3>5, <3>6, FS_Subset
    <3>8. before # {} BY <2>2, <3>5
    <3>9. CASE closed = before BY <3>2, <3>4, <3>7, <3>9
    <3>10. CASE closed # before BY <3>2, <3>4, <3>5, <3>7, <3>8, <3>10
    <3> QED BY <3>9, <3>10
  <2>3. ASSUME NEW m \in Modals, ModalAnimated(m)
        PROVE  after = before /\ scrolls' = scrolls
    <3>1. ms' = AnimatedModal(ms, m) /\ scrolls' = scrolls
      BY <1>2, <2>3 DEF ModalAnimated, AnimatedModal, Steps
    <3>2. AnimatedModal(ms, m).isOpen = ms.isOpen
      BY <1>0 DEF AnimatedModal, ModalStates
    <3> QED BY <3>1, <3>2 DEF OpenOf
  <2> HIDE DEF before, after
  <2>4. ASSUME NEW m \in Modals, ClickModalClose(m) \/ ClickModalOverlay(m)
        PROVE  \/ after = {} /\ scrolls' = TRUE
               \/ after # {} /\ before # {} /\ scrolls' = scrolls
    <3>1. {m} \in SUBSET OpenModals /\ {m} # {} /\ CloseModals({m})
      BY <2>4 DEF ClickModalClose, ClickModalOverlay, OnTop
    <3> QED BY <2>2, <3>1
  <2>5. CASE PressEscape
    <3>1. PICK closed \in SUBSET OpenModals : closed # {} /\ CloseModals(closed)
      BY <2>5 DEF PressEscape
    <3> QED BY <2>2, <3>1
  <2> QED BY <2>1, <2>3, <2>4, <2>5 DEF ModalStep
<1>4. Only("Modal") BY ModalAlone
<1>5. /\ Covers("Modal", widget["Modal"]) = (before # {})
      /\ Covers("Modal", widget'["Modal"]) = (after # {})
  BY DEF Covers, ms
<1>6. FitsAs("Modal", widget'["Modal"]) BY <1>1 DEF FitsAs
<1> QED BY <1>3, <1>4, <1>5, <1>6 DEF Moves, OverTheBody, Dialogs, OnPage

\* A picker says at each step whether the body scrolls.
LEMMA PickerMoves ==
    ASSUME NEW name \in {"Datepicker", "Timepicker"}, OnPage(name), Only(name),
           FitsAs(name, widget'[name]), NEW p, PickerBecomes(name, p)
    PROVE  Moves(name)
<1>1. /\ widget'[name] = p
      /\ scrolls' = IF (p.modal = "open") = (widget[name].modal = "open") THEN scrolls
                    ELSE p.modal # "open"
  BY BecomesIs DEF PickerBecomes
<1>2. /\ Covers(name, widget[name]) <=> widget[name].modal = "open"
      /\ Covers(name, widget'[name]) <=> p.modal = "open"
  BY <1>1 DEF Covers
<1>3. name \in OverTheBody BY DEF OverTheBody, Dialogs
<1>4. CASE (p.modal = "open") = (widget[name].modal = "open")
  <2>1. Covers(name, widget'[name]) = Covers(name, widget[name]) BY <1>2, <1>4 DEF Covers
  <2> QED BY <1>1, <1>4, <2>1 DEF Moves, OnPage
<1>5. CASE p.modal = "open" /\ widget[name].modal # "open"
  BY <1>1, <1>2, <1>5 DEF Moves, OnPage
<1>6. CASE p.modal # "open" /\ widget[name].modal = "open"
  BY <1>1, <1>2, <1>3, <1>6 DEF Moves, OnPage
<1> QED BY <1>4, <1>5, <1>6

LEMMA DatepickerMoves ==
    ASSUME OnPage("Datepicker"), PickerFits(picker), DatepickerStep
    PROVE  Moves("Datepicker")
<1>1. FitsAs("Datepicker", widget'["Datepicker"]) BY DatepickerKeeps DEF FitsAs, picker
<1>2. \E p : PickerBecomes("Datepicker", p)
  BY DEF DatepickerStep, TypeDate, DatepickerBecomes, TurnMonth, SelectYear, SelectMonth, PickDay,
         DismissDialog, DialogClosed, ClickDone, ClickDateField, ClickClear, ClickCancel
<1> QED BY <1>1, <1>2, DatepickerAlone, PickerMoves

LEMMA TimepickerMoves ==
    ASSUME OnPage("Timepicker"), TimepickerFits(clock), TimepickerStep
    PROVE  Moves("Timepicker")
<1>1. FitsAs("Timepicker", widget'["Timepicker"]) BY TimepickerKeeps DEF FitsAs, clock
<1>2. \E p : PickerBecomes("Timepicker", p)
  BY DEF TimepickerStep, TypeTime, ClockBecomes, TouchDial, ToggleViewTimer, ResetHandTimer,
         ReleaseDial, DoneTimer, DismissDialog, DialogClosed, ClickView, ClickTimeField, ClickOk,
         ClickHalf, ClickClearTime, ClickCancelTime
<1> QED BY <1>1, <1>2, TimepickerAlone, PickerMoves

LEMMA NextMoves == ASSUME WidgetsFit, Next PROVE \E name : Moves(name)
<1>0. scrolls \in BOOLEAN BY DEF WidgetsFit
<1>a. \A name : OnPage(name) => FitsAs(name, widget[name]) BY DEF WidgetsFit, OnPage
<1>1. CASE OnPage("Sidenav") /\ SidenavStep
  <2>1. SidenavFits(nav) BY <1>a, <1>1 DEF FitsAs, nav
  <2> QED BY <1>0, <1>1, <2>1, SidenavMoves
<1>2. CASE OnPage("Toasts") /\ ToastsStep
  <2>1. ToastsFits(ts) BY <1>a, <1>2 DEF FitsAs, ts
  <2>2. ToastsFits(ts)' BY <1>2, <2>1, ToastsKeeps
  <2>3. FitsAs("Toasts", widget'["Toasts"]) BY <2>2 DEF FitsAs, ts
  <2> QED BY <1>2, <2>3, ToastsAlone, QuietMoves DEF OverTheBody, Dialogs
<1>3. CASE OnPage("Collapsible") /\ CollapsibleStep
  <2>1. CollapsibleFits(list) BY <1>a, <1>3 DEF FitsAs, list
  <2>2. CollapsibleFits(list)' BY <1>3, <2>1, CollapsibleKeeps
  <2>3. FitsAs("Collapsible", widget'["Collapsible"]) BY <2>2 DEF FitsAs, list
  <2> QED BY <1>3, <2>3, CollapsibleAlone, QuietMoves DEF OverTheBody, Dialogs
<1>4. CASE OnPage("Modal") /\ ModalStep
  <2>1. ModalFits(ms) BY <1>a, <1>4 DEF FitsAs, ms
  <2> QED BY <1>0, <1>4, <2>1, ModalMoves
<1>5. CASE OnPage("Dropdown") /\ DropdownStep
  <2>1. DropdownFits(menu) BY <1>a, <1>5 DEF FitsAs, menu
  <2>2. DropdownFits(menu)' BY <1>5, <2>1, DropdownKeeps
  <2>3. FitsAs("Dropdown", widget'["Dropdown"]) BY <2>2 DEF FitsAs, menu
  <2> QED BY <1>5, <2>3, DropdownAlone, QuietMoves DEF OverTheBody, Dialogs
<1>6. CASE OnPage("Carousel") /\ CarouselStep
  <2>1. CarouselFits(widget["Carousel"]) BY <1>a, <1>6 DEF FitsAs
  <2>2. CarouselFits(widget["Carousel"])' BY <1>6, <2>1, CarouselKeeps
  <2>3. FitsAs("Carousel", widget'["Carousel"]) BY <2>2 DEF FitsAs
  <2> QED BY <1>6, <2>3, CarouselAlone, QuietMoves DEF OverTheBody, Dialogs
<1>7. CASE OnPage("Tabs") /\ TabsStep
  <2>1. TabsFits(tabs) BY <1>a, <1>7 DEF FitsAs, tabs
  <2>2. TabsFits(tabs)' BY <1>7, <2>1, TabsKeep
  <2>3. FitsAs("Tabs", widget'["Tabs"]) BY <2>2 DEF FitsAs, tabs
  <2> QED BY <1>7, <2>3, TabsAlone, QuietMoves DEF OverTheBody, Dialogs
<1>8. CASE OnPage("Tooltip") /\ TooltipStep
  <2>1. TooltipFits(tip) BY <1>a, <1>8 DEF FitsAs, tip
  <2>2. TooltipFits(tip)' BY <1>8, <2>1, TooltipKeeps
  <2>3. FitsAs("Tooltip", widget'["Tooltip"]) BY <2>2 DEF FitsAs, tip
  <2> QED BY <1>8, <2>3, TooltipAlone, QuietMoves DEF OverTheBody, Dialogs
<1>9. CASE OnPage("Waves") /\ WavesStep
  <2>1. WavesFits(waves) BY <1>a, <1>9 DEF FitsAs, waves
  <2>2. WavesFits(waves)' BY <1>9, <2>1, WavesKeep
  <2>3. FitsAs("Waves", widget'["Waves"]) BY <2>2 DEF FitsAs, waves
  <2> QED BY <1>9, <2>3, WavesAlone, QuietMoves DEF OverTheBody, Dialogs
<1>10. CASE OnPage("Autocomplete") /\ AutocompleteStep
  <2>1. AutocompleteFits(auto) BY <1>a, <1>10 DEF FitsAs, auto
  <2>2. AutocompleteFits(auto)' BY <1>10, <2>1, AutocompleteKeeps
  <2>3. FitsAs("Autocomplete", widget'["Autocomplete"]) BY <2>2 DEF FitsAs, auto
  <2> QED BY <1>10, <2>3, AutocompleteAlone, QuietMoves DEF OverTheBody, Dialogs
<1>11. CASE OnPage("Chips") /\ ChipsStep
  <2>1. ChipsFits(chips) BY <1>a, <1>11 DEF FitsAs, chips
  <2>2. ChipsFits(chips)' BY <1>11, <2>1, ChipsKeep
  <2>3. FitsAs("Chips", widget'["Chips"]) BY <2>2 DEF FitsAs, chips
  <2> QED BY <1>11, <2>3, ChipsAlone, QuietMoves DEF OverTheBody, Dialogs
<1>12. CASE OnPage("FormSelect") /\ FormSelectStep
  <2>1. FormSelectFits(select) BY <1>a, <1>12 DEF FitsAs, select
  <2>2. FormSelectFits(select)' BY <1>12, <2>1, FormSelectKeeps
  <2>3. FitsAs("FormSelect", widget'["FormSelect"]) BY <2>2 DEF FitsAs, select
  <2> QED BY <1>12, <2>3, FormSelectAlone, QuietMoves DEF OverTheBody, Dialogs
<1>13. CASE OnPage("TextField") /\ TextFieldStep
  <2>1. TextFieldFits(field) BY <1>a, <1>13 DEF FitsAs, field
  <2>2. TextFieldFits(field)' BY <1>13, <2>1, TextFieldKeeps
  <2>3. FitsAs("TextField", widget'["TextField"]) BY <2>2 DEF FitsAs, field
  <2> QED BY <1>13, <2>3, TextFieldAlone, QuietMoves DEF OverTheBody, Dialogs
<1>14. CASE OnPage("TextArea") /\ TextAreaStep
  <2>1. TextAreaFits(area) BY <1>a, <1>14 DEF FitsAs, area
  <2>2. TextAreaFits(area)' BY <1>14, <2>1, TextAreaKeeps
  <2>3. FitsAs("TextArea", widget'["TextArea"]) BY <2>2 DEF FitsAs, area
  <2> QED BY <1>14, <2>3, TextAreaAlone, QuietMoves DEF OverTheBody, Dialogs
<1>15. CASE OnPage("Slider") /\ SliderStep
  <2>1. SliderFits(slider) BY <1>a, <1>15 DEF FitsAs, slider
  <2>2. SliderFits(slider)' BY <1>15, <2>1, SliderKeeps
  <2>3. FitsAs("Slider", widget'["Slider"]) BY <2>2 DEF FitsAs, slider
  <2> QED BY <1>15, <2>3, SliderAlone, QuietMoves DEF OverTheBody, Dialogs
<1>16. CASE OnPage("Lightbox") /\ LightboxStep
  <2>1. LightboxFits(box) BY <1>a, <1>16 DEF FitsAs, box
  <2>2. LightboxFits(box)' BY <1>16, <2>1, LightboxKeeps
  <2>3. FitsAs("Lightbox", widget'["Lightbox"]) BY <2>2 DEF FitsAs, box
  <2> QED BY <1>16, <2>3, LightboxAlone, QuietMoves DEF OverTheBody, Dialogs
<1>17. CASE OnPage("FloatingButton") /\ FloatingButtonStep
  <2>1. FloatingButtonFits(fab) BY <1>a, <1>17 DEF FitsAs, fab
  <2>2. FloatingButtonFits(fab)' BY <1>17, <2>1, FloatingButtonKeeps
  <2>3. FitsAs("FloatingButton", widget'["FloatingButton"]) BY <2>2 DEF FitsAs, fab
  <2> QED BY <1>17, <2>3, FloatingButtonAlone, QuietMoves DEF OverTheBody, Dialogs
<1>18. CASE OnPage("ScrollSpy") /\ ScrollSpyStep
  <2>1. ScrollSpyFits(spy) BY <1>a, <1>18 DEF FitsAs, spy
  <2>2. ScrollSpyFits(spy)' BY <1>18, <2>1, ScrollSpyKeeps
  <2>3. FitsAs("ScrollSpy", widget'["ScrollSpy"]) BY <2>2 DEF FitsAs, spy
  <2> QED BY <1>18, <2>3, ScrollSpyAlone, QuietMoves DEF OverTheBody, Dialogs
<1>19. CASE OnPage("Timepicker") /\ TimepickerStep
  <2>1. TimepickerFits(clock) BY <1>a, <1>19 DEF FitsAs, clock
  <2> QED BY <1>0, <1>19, <2>1, TimepickerMoves
<1>20. CASE OnPage("Datepicker") /\ DatepickerStep
  <2>1. PickerFits(picker) BY <1>a, <1>20 DEF FitsAs, picker
  <2> QED BY <1>0, <1>20, <2>1, DatepickerMoves
<1> QED BY <1>1, <1>2, <1>3, <1>4, <1>5, <1>6, <1>7, <1>8, <1>9, <1>10, <1>11, <1>12, <1>13, <1>14, <1>15, <1>16, <1>17, <1>18, <1>19, <1>20 DEF Next

LEMMA MovesKeep == ASSUME WidgetsFit, NEW name, Moves(name) PROVE WidgetsFit'
<1>1. /\ DOMAIN widget' = DOMAIN widget /\ name \in DOMAIN widget
      /\ \A n \in DOMAIN widget : n # name => widget'[n] = widget[n]
      /\ FitsAs(name, widget'[name])
  BY DEF Moves, Only
<1>2. DOMAIN widget' \in Pages BY <1>1 DEF WidgetsFit
<1>3. scrolls' \in BOOLEAN BY DEF WidgetsFit, Moves
<1>4. \A n \in DOMAIN widget' : FitsAs(n, widget'[n])
  BY <1>1 DEF WidgetsFit
<1>5. Covered' <=> \E n \in DOMAIN widget : Covers(n, widget'[n])
  BY <1>1 DEF Covered
<1>6. \A n \in DOMAIN widget : Covers(n, widget[n]) => n \in OverTheBody
  BY DEF Covers, OverTheBody, Dialogs
<1>7. Covers(name, widget'[name]) => name \in OverTheBody
  BY DEF Covers, OverTheBody, Dialogs
<1>8. ~scrolls' => Covered'
  <2>1. CASE Covers(name, widget'[name])
    BY <1>1, <1>5, <2>1
  <2>2. CASE ~Covers(name, widget'[name])
    <3> SUFFICES ASSUME ~scrolls' PROVE Covered'
      OBVIOUS
    <3>1. ~Covers(name, widget[name]) /\ scrolls' = scrolls
      BY <2>2 DEF Moves
    <3>2. PICK n \in DOMAIN widget : Covers(n, widget[n])
      BY <3>1 DEF WidgetsFit, Covered
    <3>3. n # name BY <3>1, <3>2
    <3> QED BY <1>1, <1>5, <3>2, <3>3
  <2> QED BY <2>1, <2>2
<1>9. ASSUME ~Shared', Covered'
      PROVE  ~scrolls'
  <2>0. ~Shared BY <1>1, <1>9 DEF Shared, OnPage
  <2>1. \A m, n \in DOMAIN widget \cap OverTheBody : m = n
    <3>1. \A m, n \in DOMAIN widget \cap Dialogs : m = n
      BY PagesAssumption DEF WidgetsFit
    <3> QED BY <2>0, <3>1 DEF Shared, OnPage, OverTheBody
  <2>2. Covered => ~scrolls BY <2>0 DEF WidgetsFit
  <2>3. PICK n \in DOMAIN widget : Covers(n, widget'[n])
    BY <1>5, <1>9
  <2>4. CASE n = name
    <3>1. CASE scrolls' = FALSE BY <3>1
    <3>2. CASE Covers(name, widget[name]) /\ scrolls' = scrolls
      BY <1>1, <2>2, <3>2 DEF Covered
    <3> QED BY <2>3, <2>4, <3>1, <3>2 DEF Moves
  <2>5. CASE n # name
    <3>1. Covers(n, widget[n]) BY <1>1, <2>3, <2>5
    <3>2. ~scrolls BY <2>2, <2>3, <3>1 DEF Covered
    <3>3. name \notin OverTheBody
      BY <1>1, <1>6, <2>1, <2>3, <2>5, <3>1
    <3>4. ~Covers(name, widget[name]) /\ ~Covers(name, widget'[name])
      BY <1>1, <1>6, <1>7, <3>3
    <3> QED BY <3>2, <3>3, <3>4 DEF Moves
  <2> QED BY <2>4, <2>5
<1> QED BY <1>1, <1>2, <1>3, <1>4, <1>8, <1>9 DEF WidgetsFit

\* On every page each widget stays within its own invariant, and what keeps the body from
\* scrolling is open: the inductive invariant, from which the other theorems follow.
THEOREM PagesFit == Spec => []WidgetsFit
<1>1. Init => WidgetsFit BY InitialPageFits
<1>2. WidgetsFit /\ [Next]_pageVars => WidgetsFit'
  <2>1. ASSUME WidgetsFit, Next PROVE WidgetsFit'
    BY <2>1, NextMoves, MovesKeep
  <2>2. ASSUME WidgetsFit, UNCHANGED pageVars PROVE WidgetsFit'
    <3>1. widget' = widget /\ scrolls' = scrolls BY <2>2 DEF pageVars
    <3> QED BY <2>2, <3>1 DEF WidgetsFit, Covered, Shared, OnPage
  <2> QED BY <2>1, <2>2
<1> QED BY <1>1, <1>2, PTL DEF Spec

\* A page's widgets keep to their types: no list of toasts, chips or sections, no count of
\* modals, touches or timers and no index into a carousel or a menu leaves its bounds, whatever
\* the page has and in whatever order clicks, keys, fingers, timers and animations come.
THEOREM PageTypes == Spec => []TypeOK
<1>1. WidgetsFit => TypeOK
  <2> SUFFICES ASSUME WidgetsFit PROVE TypeOK
    OBVIOUS
  <2> QED
    BY WidgetsFitIs, SidenavGives, ToastsGive, CollapsibleGives, ModalGives, DropdownGives,
       CarouselGives, TabsGive, TooltipGives, WavesGive, AutocompleteGives, ChipsGive,
       FormSelectGives, TextFieldGives, TextAreaGives, SliderGives, LightboxGives,
       FloatingButtonGives, ScrollSpyGives, TimepickerGives, DatepickerGives
    DEF TypeOK, WidgetsFit
<1> QED BY <1>1, PagesFit, PTL

\* A widget that has come to rest shows what it takes its state to be: a drawer, a modal, a
\* menu or a tip that holds itself for open is seen, one that does not is not, the slide that is
\* seen is the one that is counted, the panel chosen last is displayed, and a picker's dials and
\* dialog agree with what it has read.  The widgets' own properties name what they leave aside: a
\* carousel resized under a padding, tabs whose slides have lost their width, the half of the
\* day of a text that names none, and the other orders of events their history fields record.
THEOREM WidgetsAtRest == Spec => []WidgetsShowTheirState
<1>1. WidgetsFit => WidgetsShowTheirState
  <2> SUFFICES ASSUME WidgetsFit PROVE WidgetsShowTheirState
    OBVIOUS
  <2> QED
    BY WidgetsFitIs, SidenavGives, CollapsibleGives, ModalGives, DropdownGives,
       CarouselGives, TabsGive, TooltipGives, TextFieldGives, TextAreaGives, SliderGives,
       LightboxGives, FloatingButtonGives, ScrollSpyGives, TimepickerGives, DatepickerGives
    DEF WidgetsShowTheirState
<1> QED BY <1>1, PagesFit, PTL

\* What is counted, listed or copied agrees with what it counts, lists and copies, and handlers
\* are added and removed in pairs.
THEOREM WidgetsCount == Spec => []WidgetsKeepCount
<1>1. WidgetsFit => WidgetsKeepCount
  <2> SUFFICES ASSUME WidgetsFit PROVE WidgetsKeepCount
    OBVIOUS
  <2> QED
    BY WidgetsFitIs, SidenavGives, ToastsGive, ModalGives, DropdownGives, WavesGive,
       AutocompleteGives, ChipsGive, FormSelectGives
    DEF WidgetsKeepCount
<1> QED BY <1>1, PagesFit, PTL

LEMMA CoveredIs ==
    Covered <=> \/ OnPage("Modal") /\ OpenModals # {}
                \/ OnPage("Datepicker") /\ picker.modal = "open"
                \/ OnPage("Timepicker") /\ clock.modal = "open"
                \/ OnPage("Sidenav") /\ nav.isOpen
BY DEF Covered, Covers, OnPage, OpenModals, OpenOf, ms, picker, clock, nav

\* Whatever closed last, the drawer, a modal or the dialog of a picker: when none is open the
\* body scrolls, and while one is it does not, unless the page has both a drawer and modals.
THEOREM BodyCorrect == Spec => []BodyScrolls
<1>1. WidgetsFit => BodyScrolls
  <2> SUFFICES ASSUME WidgetsFit PROVE BodyScrolls
    OBVIOUS
  <2>1. ~scrolls => Covered BY DEF WidgetsFit
  <2>2. Shared \/ (Covered => ~scrolls) BY DEF WidgetsFit
  <2> QED BY <2>1, <2>2, CoveredIs DEF BodyScrolls, Shared
<1> QED BY <1>1, PagesFit, PTL
=============================================================================
