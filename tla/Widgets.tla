------------------------------ MODULE Widgets -------------------------------
(***************************************************************************)
(* Pages with widgets of materialize.js.  A page has some of the widgets,  *)
(* which share its body.                                                   *)
(***************************************************************************)
EXTENDS Sidenav, Toasts, Collapsible, Dropdown, Tabs, Hover, Waves, Autocomplete, Chips,
        Forms, Media, ScrollSpy, Datepicker, Timepicker

CONSTANT Pages   \* which widgets a page may have

\* The widgets that are modals or have one.  A page has one of them: the modal of a picker would
\* count among the others.
Dialogs == {"Modal", "Datepicker", "Timepicker"}

ASSUME PagesAssumption == \A page \in Pages : \A m, n \in page \cap Dialogs : m = n

\* The states in which a page finds a widget.
Initial(name) ==
    CASE name = "Sidenav"      -> {SidenavInit}
      [] name = "Toasts"       -> {ToastsInit}
      [] name = "Collapsible"  -> CollapsibleInit
      [] name = "Modal"        -> ModalInit
      [] name = "Dropdown"     -> DropdownInit
      [] name = "Carousel"     -> CarouselInit
      [] name = "Tabs"         -> TabsInit
      [] name = "Tooltip"      -> {TooltipInit}
      [] name = "Waves"        -> {WavesInit}
      [] name = "Autocomplete" -> {AutocompleteInit}
      [] name = "Chips"        -> ChipsInit
      [] name = "FormSelect"   -> FormSelectInit
      [] name = "TextField"    -> TextFieldInit
      [] name = "TextArea"     -> TextAreaInit
      [] name = "Slider"       -> SliderInit
      [] name = "Lightbox"     -> LightboxInit
      [] name = "FloatingButton" -> FloatingButtonInit
      [] name = "ScrollSpy"    -> ScrollSpyInit
      [] name = "Timepicker" -> TimepickerInit
      [] name = "Datepicker" -> DatepickerInit

Init ==
    /\ \E page \in Pages :
         widget \in {w \in [page -> UNION {Initial(name) : name \in page}] :
                       \A name \in page : w[name] \in Initial(name)}
    /\ scrolls = TRUE

Next ==
    \/ OnPage("Sidenav") /\ SidenavStep
    \/ OnPage("Toasts") /\ ToastsStep
    \/ OnPage("Collapsible") /\ CollapsibleStep
    \/ OnPage("Modal") /\ ModalStep
    \/ OnPage("Dropdown") /\ DropdownStep
    \/ OnPage("Carousel") /\ CarouselStep
    \/ OnPage("Tabs") /\ TabsStep
    \/ OnPage("Tooltip") /\ TooltipStep
    \/ OnPage("Waves") /\ WavesStep
    \/ OnPage("Autocomplete") /\ AutocompleteStep
    \/ OnPage("Chips") /\ ChipsStep
    \/ OnPage("FormSelect") /\ FormSelectStep
    \/ OnPage("TextField") /\ TextFieldStep
    \/ OnPage("TextArea") /\ TextAreaStep
    \/ OnPage("Slider") /\ SliderStep
    \/ OnPage("Lightbox") /\ LightboxStep
    \/ OnPage("FloatingButton") /\ FloatingButtonStep
    \/ OnPage("ScrollSpy") /\ ScrollSpyStep
    \/ OnPage("Timepicker") /\ TimepickerStep
    \/ OnPage("Datepicker") /\ DatepickerStep

Spec == Init /\ [][Next]_pageVars /\ ToastsFairness

TypeOK ==
    /\ scrolls \in BOOLEAN
    /\ OnPage("Sidenav") => SidenavTypeOK
    /\ OnPage("Toasts") => ToastsTypeOK
    /\ OnPage("Collapsible") => CollapsibleTypeOK
    /\ OnPage("Modal") => ModalTypeOK
    /\ OnPage("Dropdown") => DropdownTypeOK
    /\ OnPage("Carousel") => widget["Carousel"] \in CarouselStates
    /\ OnPage("Tabs") => TabsTypeOK
    /\ OnPage("Tooltip") => TooltipTypeOK
    /\ OnPage("Waves") => WavesTypeOK
    /\ OnPage("Autocomplete") => AutocompleteTypeOK
    /\ OnPage("Chips") => ChipsTypeOK
    /\ OnPage("FormSelect") => FormSelectTypeOK
    /\ OnPage("TextField") => TextFieldTypeOK
    /\ OnPage("TextArea") => TextAreaTypeOK
    /\ OnPage("Slider") => SliderTypeOK
    /\ OnPage("Lightbox") => LightboxTypeOK
    /\ OnPage("FloatingButton") => FloatingButtonTypeOK
    /\ OnPage("ScrollSpy") => ScrollSpyTypeOK
    /\ OnPage("Timepicker") => TimepickerTypeOK
    /\ OnPage("Datepicker") => DatepickerTypeOK

-----------------------------------------------------------------------------
(* What the pages promise.  The parts stand in the widgets' modules.        *)

\* What a widget shows is what it takes its state to be, when its timers and animations have
\* come to an end, in whatever order clicks, keys, fingers, timers and animations came.
WidgetsShowTheirState ==
    /\ OnPage("Sidenav") => SidenavShowsState
    /\ OnPage("Collapsible") => CollapsibleShowsState
    /\ OnPage("Modal") => ModalShowsState
    /\ OnPage("Dropdown") => DropdownShowsState
    /\ OnPage("Carousel") => CarouselShows(widget["Carousel"])
    /\ OnPage("Tabs") => TabsShowState
    /\ OnPage("Tooltip") => TooltipShowsState
    /\ OnPage("TextField") => FieldsShowState
    /\ OnPage("TextArea") => AreasShowState
    /\ OnPage("Slider") => SliderShowsState
    /\ OnPage("Lightbox") => LightboxShowsState
    /\ OnPage("FloatingButton") => FloatingButtonShowsState
    /\ OnPage("ScrollSpy") => ScrollSpyShowsState
    /\ OnPage("Timepicker") => TimepickerShowsState
    /\ OnPage("Datepicker") => DatepickerShowsState

\* Counts, lists and copies agree with what they count and copy: the toasts listed, the
\* modals open, the touches, the ripples, the suggestions, the chips, the options selected.
\* Handlers are added and removed in pairs: a drawer that is made twice hears a click once,
\* and a menu listens to the document exactly while it is open.
WidgetsKeepCount ==
    /\ OnPage("Sidenav") => SidenavListensOnce
    /\ OnPage("Dropdown") => DropdownListens
    /\ OnPage("Toasts") => ToastsAreListed
    /\ OnPage("Modal") => ModalsStackUp
    /\ OnPage("Dropdown") => DropdownForgets
    /\ OnPage("Waves") => RipplesGo /\ TouchesAreCounted
    /\ OnPage("Autocomplete") => SuggestionsFit
    /\ OnPage("Chips") => ChipsAgree
    /\ OnPage("FormSelect") => SelectAgrees

\* Where neither a modal nor the drawer is open the body scrolls, whichever of them closed
\* last; and it does not while one is open, on a page without both.
BodyScrolls ==
    LET modal == \/ OnPage("Modal") /\ OpenModals # {}
                 \/ OnPage("Datepicker") /\ picker.modal = "open"
                 \/ OnPage("Timepicker") /\ clock.modal = "open"
        drawer == OnPage("Sidenav") /\ nav.isOpen
    IN /\ ~modal /\ ~drawer => scrolls
       /\ ~(OnPage("Sidenav") /\ \E name \in Dialogs : OnPage(name)) /\ (modal \/ drawer) => ~scrolls
=============================================================================
