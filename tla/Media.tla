------------------------------- MODULE Media --------------------------------
(***************************************************************************)
(* The pictures of a page.  A slider, class Slider of materialize.js, whose*)
(* slides fade one into another by the indicators, by a script or by an    *)
(* interval that begins anew with each turn; and a picture that a click    *)
(* enlarges over the page, class Materialbox (Lightbox here), and a click, *)
(* the escape key, scrolling or resizing the window puts back.  Scripts of *)
(* the page do not open or close it.                                       *)
(***************************************************************************)
EXTENDS Document

CONSTANTS
    SliderSize,     \* how many slides there are
    MaxFades        \* bound: turns whose animations have not ended

ASSUME SliderAssumption == SliderSize \in Nat \ {0} /\ MaxFades \in Nat

slider == widget["Slider"]

SlideIndices == 0 .. SliderSize - 1
NoIndex == -1

SliderTypeOK ==
    slider \in [activeIndex : SlideIndices,
                active : SlideIndices,                   \* the slide of class active
                indicator : SlideIndices \cup {NoIndex}, \* the active indicator
                opaque : SUBSET SlideIndices,
                fades : Seq([from : SlideIndices \cup {NoIndex}, to : SlideIndices]),
                interval : BOOLEAN,
                marked : BOOLEAN]     \* history: the markup's active slide, not turned yet

\* The constructor.  A slide that is active in the markup is neither faded in nor indicated.
SliderInit ==
    {[activeIndex |-> 0, active |-> 0, indicator |-> 0, opaque |-> {},
      fades |-> <<[from |-> NoIndex, to |-> 0]>>, interval |-> TRUE, marked |-> FALSE]}
    \cup
    {[activeIndex |-> i, active |-> i, indicator |-> NoIndex, opaque |-> {},
      fades |-> <<>>, interval |-> TRUE, marked |-> TRUE] : i \in SlideIndices}

\* start, and pause
Start(s) == [s EXCEPT !.interval = TRUE]
Pause(s) == [s EXCEPT !.interval = FALSE]

\* set, to an index that is brought round if there is no such slide
SetIndex(s, i) ==
    LET to == IF i >= SliderSize THEN 0 ELSE IF i < 0 THEN SliderSize - 1 ELSE i IN
    IF s.activeIndex = to THEN s
    ELSE Start([s EXCEPT !.activeIndex = to, !.active = to, !.indicator = to,
                         !.fades = Append(@, [from |-> s.activeIndex, to |-> to]),
                         !.marked = FALSE])

SliderBecomes(s) == Len(s.fades) <= MaxFades /\ Steps("Slider", s)

\* _handleInterval goes on from the slide of class active.
_handleInterval ==
    /\ slider.interval
    /\ SliderBecomes(SetIndex(slider, IF slider.active + 1 = SliderSize THEN 0
                                      ELSE slider.active + 1))

\* _handleIndicatorClick, and set, next and prev by a script
ClickIndicator(i) == SliderBecomes(SetIndex(slider, i))
NextSlide == SliderBecomes(SetIndex(slider, slider.activeIndex + 1))
PrevSlide == SliderBecomes(SetIndex(slider, slider.activeIndex - 1))

\* The animations of a turn end, after those of the turns before, which took as long.  With a
\* turn's the slides that are not active any more disappear.
FadesEnd ==
    /\ slider.fades # <<>>
    /\ LET turn == Head(slider.fades)
           faded == (slider.opaque \ {turn.from}) \cup {turn.to}
       IN SliderBecomes(
            [slider EXCEPT !.fades = Tail(@),
                           !.opaque = IF turn.from = NoIndex THEN faded
                                      ELSE faded \cap {slider.active}])

SliderStep ==
    \/ _handleInterval \/ NextSlide \/ PrevSlide
    \/ \E i \in -1 .. SliderSize : ClickIndicator(i)
    \/ SliderBecomes(Start(slider)) \/ SliderBecomes(Pause(slider))
    \/ FadesEnd

-----------------------------------------------------------------------------
\* However fast it was turned, the slider shows the active slide and no other when it comes to
\* rest, and indicates it, unless the markup chose it.
SliderShowsState ==
    /\ slider.active = slider.activeIndex
    /\ ~slider.marked => /\ slider.indicator = slider.activeIndex
                         /\ slider.fades = <<>> => slider.opaque = {slider.activeIndex}

-----------------------------------------------------------------------------
(* The picture that is enlarged.                                            *)

box == widget["Lightbox"]

LightboxTypeOK ==
    box \in [overlayActive : BOOLEAN, doneAnimating : BOOLEAN,
             captioned : BOOLEAN,                   \* data-caption is given
             active : BOOLEAN,                      \* the class of the picture
             overlay : BOOLEAN,                     \* $overlay is in the document
             hears : BOOLEAN,                       \* its click has not come yet
             photoCaption : BOOLEAN,                \* is in the document
             listens : BOOLEAN,                     \* the handlers of the window
             anim : {"none", "in", "out"},
             early : BOOLEAN]      \* history: the overlay was clicked during an animation

LightboxInit ==
    {[overlayActive |-> FALSE, doneAnimating |-> TRUE, captioned |-> captioned,
      active |-> FALSE, overlay |-> FALSE, hears |-> FALSE, photoCaption |-> FALSE,
      listens |-> FALSE, anim |-> "none", early |-> FALSE] : captioned \in BOOLEAN}

LightboxBecomes(b) == Steps("Lightbox", b)

OpenBox(b) ==
    [b EXCEPT !.overlayActive = TRUE, !.doneAnimating = FALSE, !.active = TRUE,
              !.overlay = TRUE, !.hears = TRUE, !.photoCaption = b.captioned,
              !.listens = TRUE, !.anim = "in", !.early = FALSE]

CloseBox(b) ==
    [b EXCEPT !.doneAnimating = FALSE, !.listens = FALSE, !.anim = "out"]

\* _handleMaterialboxClick: while it is animated a click puts it back, once more if need be.
ClickPicture ==
    LightboxBecomes(IF ~box.doneAnimating \/ box.overlayActive THEN CloseBox(box)
                    ELSE OpenBox(box))

\* _handleWindowScroll, _handleWindowResize
ScrollOrResize == box.listens /\ box.overlayActive /\ LightboxBecomes(CloseBox(box))

\* _handleWindowEscape
ReleaseEscape ==
    box.listens /\ box.doneAnimating /\ box.overlayActive /\ LightboxBecomes(CloseBox(box))

\* The overlay hears one click, and heeds it if nothing is animated.
ClickBoxOverlay ==
    LET heard == [box EXCEPT !.hears = FALSE] IN
    /\ box.overlay /\ box.hears
    /\ LightboxBecomes(IF box.doneAnimating THEN CloseBox(heard)
                       ELSE [heard EXCEPT !.early = TRUE])

\* _animateImageIn ends
PictureIsLarge ==
    box.anim = "in" /\ LightboxBecomes([box EXCEPT !.anim = "none", !.doneAnimating = TRUE])

\* The animations of close end, in one frame.
PictureIsBack ==
    /\ box.anim = "out"
    /\ LightboxBecomes(
         [box EXCEPT !.anim = "none", !.doneAnimating = TRUE, !.active = FALSE,
                     !.overlayActive = FALSE, !.overlay = FALSE, !.photoCaption = FALSE])

LightboxStep ==
    \/ ClickPicture \/ ScrollOrResize \/ ReleaseEscape \/ ClickBoxOverlay
    \/ PictureIsLarge \/ PictureIsBack

-----------------------------------------------------------------------------
\* At rest all there is to a large picture is there or none of it, and a large one can be put
\* back by every means, by the overlay unless it was clicked too early.
LightboxShowsState ==
    box.anim = "none" =>
      /\ box.doneAnimating
      /\ \A there \in {box.active, box.overlay, box.listens} : there = box.overlayActive
      /\ box.photoCaption = (box.overlayActive /\ box.captioned)
      /\ box.overlayActive /\ ~box.early => box.hears
=============================================================================
