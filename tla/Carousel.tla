------------------------------ MODULE Carousel ------------------------------
(***************************************************************************)
(* Slides that turn, class Carousel of materialize.js.  Offsets are        *)
(* counted in half slots: slide i of the first round is in the middle at   *)
(* the offset 2 * i.  The operators are of the state of a carousel, so     *)
(* that swipeable tabs can have one.                                       *)
(***************************************************************************)
EXTENDS Document

CONSTANTS
    Slides,      \* this.count
    MaxReach     \* bound: the last slot a carousel is turned to; the first is -1

ASSUME CarouselAssumption ==
    Slides \in Nat \ {0} /\ MaxReach \in Nat /\ Slides <= MaxReach + 1

Offsets == -2 .. 2 * MaxReach

CarouselStates ==
    [noWrap : BOOLEAN, fullWidth : BOOLEAN,        \* options; with padding each slot is
     padded : BOOLEAN,                             \* half a slot wider than its slide
     pressed : BOOLEAN, dragged : BOOLEAN, verticalDragged : BOOLEAN,
     offset : Offsets, target : Offsets, center : -1 .. MaxReach,
     amplitude : -(2 * MaxReach + 2) .. 2 * MaxReach + 2,
     frame : BOOLEAN,                              \* _autoScroll waits for a frame
     active : 0 .. Slides - 1,                     \* the slide of class active
     indicator : 0 .. Slides - 1,                  \* the active indicator
     astray : BOOLEAN,                             \* history: turned from or to no slide
     skewed : BOOLEAN]                             \* history: put between two slots

\* The state in which the constructor leaves it.
NewCarousel(noWrap, fullWidth, padded) ==
    [noWrap |-> noWrap, fullWidth |-> fullWidth, padded |-> padded, pressed |-> FALSE,
     dragged |-> FALSE, verticalDragged |-> FALSE, offset |-> 0, target |-> 0, center |-> 0,
     amplitude |-> 0, frame |-> FALSE, active |-> 0, indicator |-> 0, astray |-> FALSE,
     skewed |-> FALSE]

CarouselInit ==
    {NewCarousel(noWrap, fullWidth, padded) : noWrap, fullWidth, padded \in BOOLEAN}

\* The slot nearest to an offset; half way it is the later one.
Slot(x) == (x + 1) \div 2

Abs(x) == IF x < 0 THEN -x ELSE x
Remainder(a, b) == IF a < 0 THEN -(-a % b) ELSE a % b   \* a % b of JavaScript

HasSlide(i) == i \in 0 .. Slides - 1
_wrap(i) == i % Slides

\* _scroll
Scrolled(c, x) ==
    LET center == Slot(x) IN
    [c EXCEPT !.offset = x, !.center = center, !.indicator = _wrap(center),
              !.active = IF ~c.noWrap \/ HasSlide(center) THEN _wrap(center) ELSE @]

\* Turn from a target a to a target b.
TurnedTo(c, target) ==
    IF target = c.offset THEN [c EXCEPT !.target = target]
    ELSE [c EXCEPT !.target = target, !.amplitude = target - c.offset, !.frame = TRUE]

\* How far from slide n the carousel is, the shorter way round if it turns round.
_difference(c, n) ==
    LET diff == Remainder(c.center, Slides) - n
        ways == IF diff < 0 THEN {diff, diff + Slides} ELSE {diff, diff - Slides}
    IN IF c.noWrap \/ diff = 0 THEN diff
       ELSE CHOOSE d \in ways : /\ \A e \in ways : Abs(d) <= Abs(e)
                                /\ Abs(d) = Abs(diff) => d = diff

_cycleTo(c, n) ==
    TurnedTo([c EXCEPT !.astray = @ \/ (c.noWrap /\ ~(HasSlide(n) /\ HasSlide(c.center)))],
             2 * (Slot(c.offset) - _difference(c, n)))

\* next and prev, by 1 or -1, and set
Turned(c, by) ==
    IF c.noWrap /\ ~HasSlide(c.center + by) THEN c ELSE _cycleTo(c, _wrap(c.center + by))
SetSlide(c, n) ==
    IF n \in 0 .. Slides THEN _cycleTo(c, n)
    ELSE IF c.noWrap THEN c ELSE _cycleTo(c, _wrap(n))

\* _handleCarouselClick; -1 is a click beside the slides
Clicked(c, n) == IF c.dragged \/ c.fullWidth THEN c ELSE _cycleTo(c, n)

\* _handleResize: the offset is of the widths of the slides alone, without the padding.
WithoutPadding(c, slot) == IF c.padded THEN slot ELSE 2 * slot
Resized(c) ==
    IF c.fullWidth
    THEN [c EXCEPT !.offset = WithoutPadding(c, c.center),
                   !.target = WithoutPadding(c, c.center),
                   !.astray = @ \/ (c.noWrap /\ ~HasSlide(c.center)),
                   !.skewed = @ \/ (c.padded /\ c.center # 0)]
    ELSE Scrolled(c, c.offset)

-----------------------------------------------------------------------------
(* The finger                                                               *)

\* _handleCarouselTap
Tapped(c) ==
    [c EXCEPT !.pressed = TRUE, !.dragged = FALSE, !.verticalDragged = FALSE,
              !.amplitude = 0]

\* _handleCarouselDrag along the slides, by a slot or a half, or across them
DraggedAlong(c) ==
    IF c.verticalDragged THEN {c}
    ELSE {Scrolled([c EXCEPT !.dragged = TRUE], c.offset + by) : by \in {-2, -1, 1, 2}}
DraggedAcross(c) == IF c.dragged THEN c ELSE [c EXCEPT !.verticalDragged = TRUE]

\* _handleCarouselRelease, where the finger's speed carries the slides a slot at most
CarouselReleased(c) ==
    LET within(x) == IF ~c.noWrap THEN x
                     ELSE IF x >= 2 * (Slides - 1) THEN 2 * (Slides - 1)
                     ELSE IF x < 0 THEN 0 ELSE x
        let(fling) == within(2 * Slot(c.offset + fling))
    IN {[c EXCEPT !.pressed = FALSE, !.target = let(fling), !.amplitude = let(fling) - c.offset,
                  !.frame = TRUE, !.astray = FALSE] : fling \in {-2, 0, 2}}

-----------------------------------------------------------------------------
(* The steps of a carousel: the states that may follow c                    *)

\* A frame: _autoScroll is at the target, or somewhere on the way there and asks for another.
Frame(c) ==
    LET left == IF c.amplitude > 0 THEN 1 .. c.amplitude ELSE c.amplitude .. -1 IN
    IF c.amplitude = 0 THEN {[c EXCEPT !.frame = FALSE]}
    ELSE {[Scrolled(c, c.target) EXCEPT !.frame = FALSE]}
           \cup {Scrolled(c, c.target - d) : d \in left}

WithinReach(c) == c.offset \in Offsets /\ c.target \in Offsets

Touching(c) ==
    IF c.pressed THEN DraggedAlong(c) \cup {DraggedAcross(c)} \cup CarouselReleased(c)
    ELSE {Tapped(c)}

Asked(c) ==
    {Turned(c, by) : by \in {-1, 1}} \cup {SetSlide(c, n) : n \in -1 .. Slides + 1}

CarouselStep ==
    \E c \in LET now == widget["Carousel"] IN
             {d \in UNION {Touching(now), Asked(now), {Resized(now)},
                           {Clicked(now, n) : n \in -1 .. Slides - 1},
                           IF now.frame THEN Frame(now) ELSE {}} : WithinReach(d)} :
        Steps("Carousel", c)

-----------------------------------------------------------------------------
\* The slide in the middle is the active one and so is its indicator.  At rest a carousel is
\* where it was to turn, and a slide is in the middle, also in one that does not turn round,
\* unless it was turned from or to a place without one, or the window was resized under the
\* padding of slides of full width.
CarouselShows(c) ==
    /\ ~c.noWrap \/ HasSlide(c.center) =>
         /\ c.active = c.indicator
         /\ (c.center - c.active) % Slides = 0
    /\ ~c.pressed /\ ~c.frame =>
         /\ c.offset = c.target
         /\ ~c.skewed => /\ c.offset = 2 * c.center
                         /\ c.noWrap => c.astray \/ HasSlide(c.center)
=============================================================================
