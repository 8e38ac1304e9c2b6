------------------------------ MODULE Dropdown ------------------------------
(***************************************************************************)
(* A menu that drops down from its trigger, class Dropdown of              *)
(* materialize.js, with the mouse, a finger or the keyboard.  What closes  *)
(* it on a click waits for a timer of no time, so that the click is first  *)
(* handled by everyone.                                                    *)
(***************************************************************************)
EXTENDS Document

CONSTANTS
    MenuSize,     \* how many entries the menu has
    MaxTimers     \* bound: timers of a menu that run at once

ASSUME DropdownAssumption == MenuSize \in Nat /\ MaxTimers \in Nat

menu == widget["Dropdown"]

Entries == 0 .. MenuSize - 1

DropdownTypeOK ==
    menu \in [hover : BOOLEAN, closeOnClick : BOOLEAN,  \* options
              focusable : SUBSET Entries,               \* entries whose tabIndex is not -1
              isOpen : BOOLEAN, isTouchMoving : BOOLEAN,
              focusedIndex : Entries \cup {-1},
              filterQuery : BOOLEAN,                    \* whether any letter is in it
              forgets : 0 .. MaxTimers,                 \* timers of _resetFilterQuery
              closes : 0 .. MaxTimers,                  \* timers that close the menu
              listens : BOOLEAN,                        \* the temporary event handlers
              displayed : BOOLEAN,
              anim : {"none", "in", "out"}]

DropdownInit ==
    {[hover |-> hover, closeOnClick |-> closeOnClick, focusable |-> focusable,
      isOpen |-> FALSE, isTouchMoving |-> FALSE, focusedIndex |-> -1,
      filterQuery |-> FALSE, forgets |-> 0, closes |-> 0, listens |-> FALSE,
      displayed |-> FALSE, anim |-> "none"] :
        hover \in BOOLEAN, closeOnClick \in BOOLEAN, focusable \in SUBSET Entries}

DropdownOpen(d) ==
    IF d.isOpen THEN d
    ELSE [d EXCEPT !.isOpen = TRUE, !.displayed = TRUE, !.anim = "in", !.listens = TRUE]

DropdownClose(d) ==
    IF ~d.isOpen THEN d
    ELSE [d EXCEPT !.isOpen = FALSE, !.focusedIndex = -1, !.anim = "out",
                   !.listens = FALSE]

Targets == {"trigger", "content", "elsewhere"}

\* A click, or a finger let go, on a target, before it reaches the target itself.
_handleDocumentClick(d, target) ==
    IF ~d.listens THEN d
    ELSE [d EXCEPT !.isTouchMoving = FALSE,
                   !.closes = IF target = "content" /\ (~d.closeOnClick \/ d.isTouchMoving)
                              THEN @ ELSE @ + 1]

\* _handleClick of the trigger, after the above
ClickAt(d, target) ==
    LET heard == _handleDocumentClick(d, target) IN
    IF target = "trigger" /\ ~d.hover THEN DropdownOpen(heard) ELSE heard

MayTime == menu.closes < MaxTimers /\ menu.forgets < MaxTimers

ClickMenu(target) == MayTime /\ Steps("Dropdown", ClickAt(menu, target))
TouchEnd(target) == MayTime /\ Steps("Dropdown", _handleDocumentClick(menu, target))

\* _handleDocumentTouchmove, over the content
TouchMove == menu.listens /\ Steps("Dropdown", [menu EXCEPT !.isTouchMoving = TRUE])

\* _handleMouseEnter, and _handleMouseLeave for elsewhere
MouseEnter == menu.hover /\ Steps("Dropdown", DropdownOpen(menu))
MouseLeave == menu.hover /\ Steps("Dropdown", DropdownClose(menu))

\* The timer of _handleDocumentClick
CloseTimer ==
    /\ menu.closes > 0
    /\ Steps("Dropdown", DropdownClose([menu EXCEPT !.closes = @ - 1]))

-----------------------------------------------------------------------------
(* The keyboard                                                             *)

\* Down or enter on the trigger: _handleTriggerKeydown
TriggerKey == ~menu.isOpen /\ Steps("Dropdown", DropdownOpen(menu))

\* Mutant: the index is moved on whether there is an entry or not.
NextFocusedBlindly(d, down) == d.focusedIndex + (IF down THEN 1 ELSE -1)

\* The next entry, down or up, that can have the focus; the same when there is none.
NextFocused(d, down) ==
    LET onward == {i \in d.focusable : IF down THEN i > d.focusedIndex
                                               ELSE i < d.focusedIndex}
    IN IF onward = {} THEN d.focusedIndex ELSE IF down THEN Min(onward) ELSE Max(onward)

\* What _handleDropdownKeydown does of each key; every key starts a timer.
Keyed(d, key) ==
    CASE key \in {"tab", "escape"} -> {DropdownClose(d)}
      [] key \in {"down", "up"} -> {[d EXCEPT !.focusedIndex = NextFocused(d, key = "down")]}
      [] key = "enter" -> {IF d.focusedIndex = -1 THEN d ELSE ClickAt(d, "content")}
      [] key = "letter" -> {[d EXCEPT !.filterQuery = TRUE, !.focusedIndex = i] :
                              i \in Entries \cup {d.focusedIndex}}

MenuKey(key) ==
    /\ menu.listens /\ MayTime
    /\ \E d \in Keyed(menu, key) : Steps("Dropdown", [d EXCEPT !.forgets = @ + 1])

_resetFilterQuery ==
    /\ menu.forgets > 0
    /\ Steps("Dropdown", [menu EXCEPT !.filterQuery = FALSE, !.forgets = @ - 1])

\* An animation ends; _resetDropdownStyles hides a menu that has closed.
MenuAnimated ==
    /\ menu.anim # "none"
    /\ Steps("Dropdown", [menu EXCEPT !.anim = "none", !.displayed = menu.anim = "in"])

DropdownStep ==
    \/ \E target \in Targets : ClickMenu(target) \/ TouchEnd(target)
    \/ TouchMove \/ MouseEnter \/ MouseLeave \/ CloseTimer \/ TriggerKey
    \/ \E key \in {"tab", "escape", "down", "up", "enter", "letter"} : MenuKey(key)
    \/ _resetFilterQuery \/ MenuAnimated

-----------------------------------------------------------------------------
\* At rest the menu is displayed when it is open, and closed it has no focused entry.
DropdownShowsState ==
    /\ menu.anim = "none" => menu.displayed = menu.isOpen
    /\ ~menu.isOpen => menu.focusedIndex = -1

\* A menu listens to the document exactly while it is open.
DropdownListens == menu.listens = menu.isOpen

\* Letters typed are forgotten: there is a timer for them.
DropdownForgets == menu.filterQuery => menu.forgets > 0
=============================================================================
