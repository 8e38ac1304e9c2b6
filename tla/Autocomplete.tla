---------------------------- MODULE Autocomplete ----------------------------
(***************************************************************************)
(* A text field that suggests values, class Autocomplete of                *)
(* materialize.js.  The suggestions are the entries of a menu below it,    *)
(* whose state here is whether it is open (see Dropdown.tla for the rest). *)
(***************************************************************************)
EXTENDS Document

CONSTANTS
    Texts,         \* what may be typed, longer than options.minLength
    NoText,
    Matches,       \* how many values match each of the texts
    Limit,         \* options.limit
    MaxMatches     \* the most that match

ASSUME AutocompleteAssumption ==
    /\ NoText \notin Texts /\ Limit \in Nat /\ MaxMatches \in Nat
    /\ Matches \in [Texts -> 0 .. MaxMatches]

auto == widget["Autocomplete"]

AutocompleteTypeOK ==
    auto \in [value : Texts \cup {NoText},       \* of the field
              oldVal : Texts \cup {NoText, "null"},
              focused : BOOLEAN,                 \* the field
              of : Texts \cup {NoText},          \* the text the suggestions are for
              items : 0 .. MaxMatches,           \* suggestions in the container
              count : 0 .. Limit,
              activeIndex : -1 .. MaxMatches - 1,
              _mousedown : BOOLEAN,
              dropdown : BOOLEAN,                \* dropdown.isOpen
              closing : BOOLEAN,                 \* the timer of its _handleDocumentClick
              recounted : BOOLEAN,    \* history: made without setting count back
              strayed : BOOLEAN]      \* history: not let go over the suggestion that was pressed

AutocompleteInit ==
    [value |-> NoText, oldVal |-> "null", focused |-> FALSE,
     of |-> NoText, items |-> 0, count |-> 0, activeIndex |-> -1, _mousedown |-> FALSE,
     dropdown |-> FALSE, closing |-> FALSE, recounted |-> FALSE, strayed |-> FALSE]

_resetAutocomplete(a) ==
    [a EXCEPT !.items = 0, !.of = NoText, !.activeIndex = -1, !.oldVal = "null",
              !._mousedown = FALSE]

CloseSuggestions(a) == [a EXCEPT !.dropdown = FALSE]

\* _renderDropdown, which goes on from the last count up to the limit.
_renderDropdown(a) ==
    LET wanted == Matches[a.value]
        room == IF a.count < Limit THEN Limit - a.count ELSE 0
        made == IF wanted < room THEN wanted ELSE room
    IN [_resetAutocomplete(a) EXCEPT
          !.items = made, !.of = a.value, !.count = a.count + made,
          !.recounted = a.count > 0]

\* open: the menu is opened also when there is nothing to suggest.  isOpen is set before
\* _renderDropdown has it set back, so it is never TRUE for anyone, and updateData, which asks
\* for it, renders nothing.
OpenSuggestions(a) ==
    [IF a.value = NoText THEN _resetAutocomplete(a) ELSE _renderDropdown(a)
        EXCEPT !.dropdown = TRUE]

AutoBecomes(a) == Steps("Autocomplete", a)

\* The field gets another value with keys that are not let go yet.
TypeInField ==
    /\ auto.focused
    /\ \E text \in Texts \cup {NoText} : AutoBecomes([auto EXCEPT !.value = text])

\* _handleInputKeyupAndFocus for a key, and for the focus, which came with the tab key or not
KeyUp ==
    LET a == [auto EXCEPT !.count = 0] IN
    /\ auto.focused
    /\ AutoBecomes([IF a.oldVal # a.value THEN OpenSuggestions(a) ELSE a
                       EXCEPT !.oldVal = a.value])
KeyUpOfArrowOrEnter == auto.focused /\ AutoBecomes([auto EXCEPT !.count = 0])
FocusField(tabbed) ==
    LET a == [auto EXCEPT !.count = 0, !.focused = TRUE] IN
    /\ ~auto.focused
    /\ AutoBecomes([IF a.oldVal # a.value /\ tabbed THEN OpenSuggestions(a) ELSE a
                       EXCEPT !.oldVal = a.value])

\* The field loses the focus: _handleInputBlur
LeftField(a) ==
    LET left == [a EXCEPT !.focused = FALSE] IN
    IF a._mousedown THEN left ELSE _resetAutocomplete(CloseSuggestions(left))
BlurField == auto.focused /\ AutoBecomes(LeftField(auto))

\* selectOption
Select(a) == \E text \in Texts :
    AutoBecomes(CloseSuggestions(_resetAutocomplete([a EXCEPT !.value = text])))

\* _handleInputKeydown; the menu hears enter and down as well and opens.
PressEnter ==
    /\ auto.focused
    /\ IF auto.activeIndex >= 0 THEN Select(auto)
       ELSE AutoBecomes([auto EXCEPT !.dropdown = TRUE])
PressUp ==
    /\ auto.focused /\ auto.activeIndex > 0
    /\ AutoBecomes([auto EXCEPT !.activeIndex = @ - 1])
PressDown ==
    /\ auto.focused
    /\ AutoBecomes([auto EXCEPT !.activeIndex = IF @ < auto.items - 1 THEN @ + 1 ELSE @,
                                !.dropdown = TRUE])

-----------------------------------------------------------------------------
(* The mouse                                                                *)

\* A click on the field; the open menu closes by its timer, after the field has opened it.
ClickField ==
    /\ auto.focused
    /\ AutoBecomes([OpenSuggestions(auto) EXCEPT !.closing = @ \/ auto.dropdown])

CloseSuggestionsTimer ==
    auto.closing /\ AutoBecomes([CloseSuggestions(auto) EXCEPT !.closing = FALSE])

\* The mouse presses a suggestion, which takes the focus from the field.
PressSuggestion ==
    /\ auto.dropdown /\ ~auto._mousedown
    /\ AutoBecomes(IF auto.focused THEN LeftField([auto EXCEPT !._mousedown = TRUE])
                   ELSE [auto EXCEPT !._mousedown = TRUE])

\* It lets go over the suggestion, or over something else, in the menu or out of it.
ReleaseSuggestion ==
    auto._mousedown /\ auto.items > 0 /\ Select([auto EXCEPT !._mousedown = FALSE])
ReleaseBeside ==
    /\ auto._mousedown
    /\ \E inMenu \in BOOLEAN :
         AutoBecomes([auto EXCEPT !._mousedown = ~inMenu, !.strayed = TRUE])

AutocompleteStep ==
    \/ TypeInField \/ KeyUp \/ KeyUpOfArrowOrEnter \/ BlurField
    \/ \E tabbed \in BOOLEAN : FocusField(tabbed)
    \/ PressEnter \/ PressUp \/ PressDown
    \/ ClickField \/ CloseSuggestionsTimer
    \/ PressSuggestion \/ ReleaseSuggestion \/ ReleaseBeside

-----------------------------------------------------------------------------
\* The active suggestion is one of those in the menu, which are all that match the text, up
\* to the limit, unless they were counted twice.  A field that is left keeps none, unless the
\* mouse let go of them beside.
SuggestionsFit ==
    /\ auto.activeIndex < auto.items
    /\ auto.of # NoText /\ ~auto.recounted =>
         auto.items = IF Matches[auto.of] < Limit THEN Matches[auto.of] ELSE Limit
    /\ ~auto.focused /\ ~auto._mousedown /\ ~auto.strayed =>
         auto.items = 0
=============================================================================
