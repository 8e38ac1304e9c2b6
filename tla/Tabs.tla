-------------------------------- MODULE Tabs --------------------------------
(***************************************************************************)
(* Tabs, class Tabs of materialize.js: links, each with a panel or         *)
(* without, and an indicator under the active one.  The panels of          *)
(* swipeable tabs are the slides of a carousel that calls back when        *)
(* another comes into the middle.  Tab i is the link at index i; the       *)
(* widths the window gives the tabs are left out.                          *)
(***************************************************************************)
EXTENDS Carousel

tabs == widget["Tabs"]

TabLinks == 0 .. Slides - 1
NoPanel == -1
NoLink == -1

TabsTypeOK ==
    tabs \in [swipeable : BOOLEAN,
              disabled : SUBSET TabLinks,
              panel : [TabLinks -> TabLinks \cup {NoPanel}],  \* what a link's hash leads to
              activeTabLink : TabLinks, index : TabLinks \cup {NoLink},
              content : TabLinks \cup {NoPanel},              \* $content
              displayed : SUBSET TabLinks,                    \* panels
              wrapped : BOOLEAN,                              \* it has a _tabsCarousel
              carousel : CarouselStates,                      \* that
              width : {"known", "none", "lost"},              \* of its slides, as it measured
              indicator : TabLinks,                           \* the tab it is under
              moving : SUBSET TabLinks,                       \* where it is animated to
              timer : BOOLEAN,                                \* of _createIndicator
              interrupted : BOOLEAN]   \* history: a finger, or the window, broke in

\* _setupActiveTabLink and _setupNormalTabs, which hides the panels of the other links
NormalTabs(active, panel, disabled) ==
    [swipeable |-> FALSE, disabled |-> disabled, panel |-> panel, activeTabLink |-> active,
     index |-> active, content |-> panel[active],
     displayed |-> ToSet(panel) \ ({NoPanel} \cup {panel[i] : i \in TabLinks \ {active}}),
     wrapped |-> FALSE, carousel |-> NewCarousel(TRUE, TRUE, FALSE), width |-> "known",
     indicator |-> 0, moving |-> {}, timer |-> TRUE, interrupted |-> FALSE]

\* _setupSwipeableTabs: the carousel calls back for the first slide as it is made, and is
\* then set to the active tab.  In a window above responsiveThreshold the tabs are not
\* swipeable, but the carousel is made.
SwipeableTabs(active, wide) ==
    [NormalTabs(0, [i \in TabLinks |-> i], {}) EXCEPT
        !.swipeable = ~wide, !.content = active, !.displayed = TabLinks, !.wrapped = TRUE,
        !.carousel = SetSlide(@, active)]

TabsInit ==
    {SwipeableTabs(active, wide) : active \in TabLinks, wide \in BOOLEAN} \cup
    {NormalTabs(active, panel, disabled) :
        active \in TabLinks, disabled \in {{}, {0}},
        panel \in {p \in [TabLinks -> TabLinks \cup {NoPanel}] :
                     \A i \in TabLinks : p[i] \in {i, NoPanel}}}

\* onCycleTo
CycledTo(t, i) == [t EXCEPT !.index = i, !.activeTabLink = i, !.moving = {i}]

\* The carousel goes on to c and calls back when another slide is in the middle.
WithCarousel(t, c) ==
    LET turned == [t EXCEPT !.carousel = c] IN
    IF c.center = t.carousel.center THEN turned ELSE CycledTo(turned, _wrap(c.center))

\* The panel of a link takes the place of the one before it, if the link has one.
Swapped(t, i) ==
    IF t.panel[i] = NoPanel THEN t
    ELSE [t EXCEPT !.displayed = (@ \ {t.content}) \cup {t.panel[i]}]

TabsBecome(t) == WithinReach(t.carousel) /\ Steps("Tabs", t)

\* _handleTabClick, and select
ClickTab(i) ==
    LET t == [tabs EXCEPT !.activeTabLink = i, !.index = i, !.content = tabs.panel[i],
                          !.moving = {i}]
    IN TabsBecome(
         IF i \in tabs.disabled THEN tabs
         ELSE IF tabs.swipeable
         THEN [t EXCEPT !.carousel = SetSlide(@, i), !.interrupted = tabs.carousel.pressed]
         ELSE [t EXCEPT !.displayed = Swapped(tabs, i).displayed])

\* A finger touches the panels, drags them or lets them go.
SwipePanels ==
    /\ tabs.wrapped /\ tabs.width = "known"
    /\ \E c \in Touching(tabs.carousel) :
         TabsBecome([WithCarousel(tabs, c) EXCEPT
                       !.interrupted = @ \/ (tabs.carousel.frame /\ ~tabs.carousel.pressed)])

\* _handleWindowResize; the carousel listens to the window as well, and measures its slides by
\* the first panel, which has no width where it is hidden.
Measures(t) == t.wrapped /\ 0 \in t.displayed /\ t.width # "lost"
ResizeWindow ==
    TabsBecome(
      IF Measures(tabs)
      THEN [WithCarousel(tabs, Resized(tabs.carousel)) EXCEPT
              !.indicator = tabs.activeTabLink, !.interrupted = @ \/ tabs.carousel.frame,
              !.width = "known"]
      ELSE [tabs EXCEPT !.indicator = tabs.activeTabLink,
                        !.width = IF tabs.wrapped /\ @ = "known" THEN "none" ELSE @])

PanelsFrame ==
    /\ tabs.wrapped /\ tabs.width = "known" /\ tabs.carousel.frame
    /\ \E c \in Frame(tabs.carousel) : TabsBecome(WithCarousel(tabs, c))

\* Slides of no width are dragged, or on their way: the carousel divides by zero, and fails on
\* a slide that is not there or calls back without one, which eq takes for the last link.
\* What the carousel then holds are no numbers any more, and its state here no longer matters.
ScrollNothing ==
    LET lost == [tabs EXCEPT !.width = "lost", !.carousel = NewCarousel(TRUE, TRUE, FALSE)] IN
    /\ tabs.width # "known"
    /\ \/ TabsBecome(lost)
       \/ TabsBecome([lost EXCEPT !.index = NoLink, !.activeTabLink = Slides - 1,
                                  !.moving = {Slides - 1}])

\* The timer of _createIndicator, and the end of the animation of _animateIndicator
IndicatorTimer ==
    /\ tabs.timer
    /\ TabsBecome([tabs EXCEPT !.timer = FALSE, !.indicator = tabs.activeTabLink])
IndicatorMoved ==
    \E i \in tabs.moving : TabsBecome([tabs EXCEPT !.moving = {}, !.indicator = i])

TabsStep ==
    \/ \E i \in TabLinks : ClickTab(i)
    \/ SwipePanels \/ ResizeWindow \/ PanelsFrame \/ ScrollNothing \/ IndicatorTimer \/ IndicatorMoved

-----------------------------------------------------------------------------
\* At rest the indicator is under the active tab.  The active tab shows its panel and no
\* other when each has one, and where the panels were made slides the one chosen last is among
\* those shown.  In swipeable tabs the active one is the slide in the middle when the carousel
\* has come to rest, unless it is astray or a finger or the window stopped it on its way.
TabsShowState ==
    /\ tabs.width # "lost" => tabs.index = tabs.activeTabLink
    /\ ~tabs.timer /\ tabs.moving = {} => tabs.indicator = tabs.activeTabLink
    /\ tabs.wrapped => tabs.content \in tabs.displayed
    /\ ~tabs.wrapped /\ NoPanel \notin ToSet(tabs.panel) =>
         tabs.displayed = {tabs.panel[tabs.activeTabLink]}
    /\ tabs.swipeable /\ ~tabs.interrupted /\ ~tabs.carousel.astray
         /\ ~tabs.carousel.pressed /\ ~tabs.carousel.frame =>
         tabs.activeTabLink = tabs.carousel.active
=============================================================================
