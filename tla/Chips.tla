-------------------------------- MODULE Chips -------------------------------
(***************************************************************************)
(* Tags in a field, class Chips of materialize.js: chips that are added    *)
(* with the enter key and removed with a click or the backspace key.  The  *)
(* list of the data and the chips in the document are kept apart and       *)
(* changed by index.                                                       *)
(***************************************************************************)
EXTENDS Document

CONSTANTS
    Tags,
    NoTag,
    GoneTag,     \* a chip that was removed from the document, or none: a collection without an element
    MostChips    \* options.limit

ASSUME ChipsAssumption ==
    {NoTag, GoneTag, "input", "elsewhere"} \cap Tags = {} /\ MostChips \in Nat \ {0}

chips == widget["Chips"]

Focusable == Tags \cup {"input", "elsewhere"}

ChipsTypeOK ==
    chips \in [chipsData : Seq(Tags),
               shown : Seq(Tags),             \* the chips in the document, by their tags
               _selectedChip : Tags \cup {NoTag, GoneTag},
               input : Tags \cup {NoTag},     \* the value of the input
               focus : Focusable,
               _keydown : BOOLEAN,
               mixed : BOOLEAN]               \* history: tab, or a click with a key down

ChipsInit ==
    {[chipsData |-> data, shown |-> data, _selectedChip |-> NoTag, input |-> NoTag,
      focus |-> "elsewhere", _keydown |-> FALSE, mixed |-> FALSE] :
        data \in {<<>>} \cup {<<tag>> : tag \in Tags}}

ChipsBecome(c) == Steps("Chips", c)

\* The focus moves; _handleChipsBlur forgets the selected chip if no key is down.
FocusMoved(c, to) ==
    IF c.focus = to THEN c
    ELSE [c EXCEPT !.focus = to,
                   !._selectedChip = IF c.focus = "elsewhere" \/ c._keydown THEN @ ELSE NoTag]

\* eq and splice count a negative index from the end.
PlaceOf(s, index) == IF index >= 0 THEN index + 1 ELSE Len(s) + 1 + index
RemovedAt(s, index) ==
    IF PlaceOf(s, index) \in 1 .. Len(s) THEN RemoveAt(s, PlaceOf(s, index)) ELSE s

\* $chip.index(), -1 for a chip that was removed
IndexOf(c, tag) ==
    IF tag \in ToSet(c.shown) THEN (CHOOSE i \in 1 .. Len(c.shown) : c.shown[i] = tag) - 1 ELSE -1

deleteChip(c, index) ==
    [c EXCEPT !.chipsData = RemovedAt(@, index), !.shown = RemovedAt(@, index),
              !._selectedChip = IF @ \in ToSet(c.shown) /\ @ = c.shown[PlaceOf(c.shown, index)]
                                THEN GoneTag ELSE @]

\* The chip is noted before it gets the focus, when the blur of another may forget it.
selectChip(c, index) ==
    LET tag == c.shown[index + 1] IN FocusMoved([c EXCEPT !._selectedChip = tag], tag)

addChip(c, tag) ==
    IF tag = NoTag \/ tag \in ToSet(c.chipsData) \/ Len(c.chipsData) >= MostChips THEN c
    ELSE [c EXCEPT !.chipsData = Append(@, tag), !.shown = Append(@, tag)]

-----------------------------------------------------------------------------
(* The mouse                                                                *)

ClickChip(tag) ==
    LET pressed == FocusMoved([chips EXCEPT !.mixed = @ \/ chips._keydown], tag) IN
    /\ tag \in ToSet(chips.shown)
    /\ ChipsBecome(selectChip(pressed, IndexOf(pressed, tag)))

\* The icon of a chip that deletes it.  Whether a removed element that has the focus is
\* blurred is the browser's affair.
ClickCloseChip(tag) ==
    LET pressed == FocusMoved([chips EXCEPT !.mixed = @ \/ chips._keydown], tag)
        deleted == deleteChip(pressed, IndexOf(pressed, tag))
    IN
    /\ tag \in ToSet(chips.shown)
    /\ \/ ChipsBecome(FocusMoved(deleted, "input"))
       \/ ChipsBecome([deleted EXCEPT !.focus = "input"])

ClickBesideChips ==
    \E to \in {"input", "elsewhere"} :
        ChipsBecome(FocusMoved([chips EXCEPT !.mixed = @ \/ chips._keydown], to))

-----------------------------------------------------------------------------
(* Keys                                                                     *)

TypeTag == chips.focus = "input" /\ \E tag \in Tags : ChipsBecome([chips EXCEPT !.input = tag])

KeyDown(c) == [c EXCEPT !._keydown = TRUE]

\* _handleInputKeydown
EnterChip ==
    /\ chips.focus = "input"
    /\ ChipsBecome([addChip(KeyDown(chips), chips.input) EXCEPT !.input = NoTag])
LeaveInput ==
    /\ chips.focus = "input" /\ chips.input = NoTag /\ chips.chipsData # <<>>
    /\ ChipsBecome(selectChip(KeyDown(chips), Len(chips.chipsData) - 1))

\* _handleChipsKeydown for backspace.  Without a selected chip it selects the one past the
\* last, a collection without an element, and fails when it gives that the focus.
Backspace ==
    LET index == IndexOf(chips, chips._selectedChip)
        deleted == [deleteChip(KeyDown(chips), index) EXCEPT !._selectedChip = NoTag]
    IN
    /\ chips.focus \in Tags
    /\ ChipsBecome(
         IF chips._selectedChip = NoTag
         THEN [KeyDown(chips) EXCEPT !._selectedChip = IF chips.chipsData = <<>> THEN @ ELSE GoneTag]
         ELSE IF deleted.chipsData = <<>> THEN [deleted EXCEPT !.focus = "elsewhere"]
         ELSE selectChip(deleted, IF index > 0 THEN index - 1 ELSE 0))

\* The same for the arrow keys
Arrow(right) ==
    LET index == IndexOf(chips, chips._selectedChip) + (IF right THEN 1 ELSE -1) IN
    /\ chips.focus \in Tags
    /\ ChipsBecome(
         IF chips._selectedChip = NoTag \/ index < 0 THEN KeyDown(chips)
         ELSE IF index >= Len(chips.chipsData) THEN FocusMoved(KeyDown(chips), "input")
         ELSE selectChip(KeyDown(chips), index))

\* The tab key moves the focus, to any place here, while it is down.
Tab ==
    \E to \in ToSet(chips.shown) \cup {"input", "elsewhere"} :
        ChipsBecome(FocusMoved([KeyDown(chips) EXCEPT !.mixed = TRUE], to))

ChipsKeyUp == chips._keydown /\ ChipsBecome([chips EXCEPT !._keydown = FALSE])

ChipsStep ==
    \/ \E tag \in Tags : ClickChip(tag) \/ ClickCloseChip(tag)
    \/ ClickBesideChips \/ TypeTag \/ EnterChip \/ LeaveInput \/ Backspace
    \/ \E right \in BOOLEAN : Arrow(right)
    \/ Tab \/ ChipsKeyUp

-----------------------------------------------------------------------------
\* The chips shown are those of the data, no two alike and no more than the limit, whatever
\* index they were deleted by.  The chip that has the focus is the one that backspace deletes,
\* unless the focus was moved with the tab key or the mouse while a key was down.
ChipsAgree ==
    /\ chips.shown = chips.chipsData
    /\ IsInjective(chips.chipsData) /\ Len(chips.chipsData) <= MostChips
    /\ chips.focus \in Tags /\ ~chips.mixed => chips._selectedChip = chips.focus
=============================================================================
