------------------------------- MODULE Modal --------------------------------
(***************************************************************************)
(* Dialogs, class Modal of materialize.js.  One may be opened from another *)
(* and lies above it.  Each has an overlay in the document while it shows, *)
(* and listens to the keyboard while it is open and may be dismissed.      *)
(***************************************************************************)
EXTENDS Document

CONSTANT Modals

ASSUME ModalAssumption == IsFiniteSet(Modals)

ms == widget["Modal"]

ModalTypeOK ==
    ms \in [dismissible : [Modals -> BOOLEAN],
            isOpen : [Modals -> BOOLEAN],
            _modalsOpen : 0 .. Cardinality(Modals),
            _nthModalOpened : [Modals -> 0 .. Cardinality(Modals)],
            displayed : [Modals -> BOOLEAN],
            overlay : [Modals -> BOOLEAN],                  \* $overlay is in the document
            anim : [Modals -> {"none", "in", "out"}]]

ModalInit ==
    {[dismissible |-> dismissible, isOpen |-> [m \in Modals |-> FALSE], _modalsOpen |-> 0,
      _nthModalOpened |-> [m \in Modals |-> 0], displayed |-> [m \in Modals |-> FALSE],
      overlay |-> [m \in Modals |-> FALSE], anim |-> [m \in Modals |-> "none"]] :
        dismissible \in [Modals -> BOOLEAN]}

OpenModals == {m \in Modals : ms.isOpen[m]}

\* open, by a trigger or by a script of the page
OpenModal(m) ==
    /\ ~ms.isOpen[m]
    /\ Becomes("Modal",
         [ms EXCEPT !.isOpen[m] = TRUE, !._modalsOpen = @ + 1,
                    !._nthModalOpened[m] = ms._modalsOpen + 1,
                    !.displayed[m] = TRUE, !.overlay[m] = TRUE, !.anim[m] = "in"])
    /\ scrolls' = FALSE

\* Mutant: a modal that closes makes the body scroll, whatever else is open.
CloseModalsAndScroll(closed) ==
    /\ Becomes("Modal",
         [ms EXCEPT !.isOpen = [m \in Modals |-> @[m] /\ m \notin closed],
                    !._modalsOpen = @ - Cardinality(closed),
                    !._nthModalOpened = [m \in Modals |-> IF m \in closed THEN 0 ELSE @[m]],
                    !.anim = [m \in Modals |-> IF m \in closed THEN "out" ELSE @[m]]])
    /\ scrolls' = TRUE

\* close, of each of some open modals.  The body scrolls again after the last.
CloseModals(closed) ==
    /\ Becomes("Modal",
         [ms EXCEPT !.isOpen = [m \in Modals |-> @[m] /\ m \notin closed],
                    !._modalsOpen = @ - Cardinality(closed),
                    !._nthModalOpened = [m \in Modals |-> IF m \in closed THEN 0 ELSE @[m]],
                    !.anim = [m \in Modals |-> IF m \in closed THEN "out" ELSE @[m]]])
    /\ scrolls' = (scrolls \/ ms._modalsOpen = Cardinality(closed))

\* The overlay of the modal opened last covers the others, by its z-index.
OnTop(m) ==
    m \in OpenModals
      /\ \A o \in OpenModals : ms._nthModalOpened[o] <= ms._nthModalOpened[m]

\* _handleModalCloseClick, and _handleOverlayClick
ClickModalClose(m) == OnTop(m) /\ CloseModals({m})
ClickModalOverlay(m) == OnTop(m) /\ ms.dismissible[m] /\ CloseModals({m})

\* The escape key: _handleKeydown of every modal that listens.
PressEscape ==
    LET listening == {m \in OpenModals : ms.dismissible[m]} IN
    listening # {} /\ CloseModals(listening)

\* An animation ends.  One that anim.remove has stopped never does.
ModalAnimated(m) ==
    /\ ms.anim[m] # "none"
    /\ Steps("Modal",
         [ms EXCEPT !.anim[m] = "none", !.displayed[m] = @ /\ ms.anim[m] = "in",
                    !.overlay[m] = @ /\ ms.anim[m] = "in"])

ModalStep ==
    \/ \E m \in Modals : \/ OpenModal(m) \/ ClickModalClose(m)
                         \/ ClickModalOverlay(m) \/ ModalAnimated(m)
    \/ PressEscape

-----------------------------------------------------------------------------
\* At rest a modal and its overlay show what isOpen says.
ModalShowsState ==
    \A m \in Modals : ms.anim[m] = "none" =>
        ms.displayed[m] = ms.isOpen[m] /\ ms.overlay[m] = ms.isOpen[m]

\* The open modals are counted, and when the escape key closes all of them they lie one above
\* the other, each at a height of its own: only the highest holds the focus.
ModalsStackUp ==
    /\ ms._modalsOpen = Cardinality(OpenModals)
    /\ (\A m \in Modals : ms.dismissible[m]) =>
         {ms._nthModalOpened[m] : m \in OpenModals} = 1 .. ms._modalsOpen

-----------------------------------------------------------------------------
(* The dialog of a picker of dates or times.  The picker and its modal each *)
(* keep whether they are open: the picker opens and closes the modal, which *)
(* the user may dismiss by himself, and then tells the picker when its      *)
(* animation has come to an end.                                            *)

DialogStates == {"closed", "open", "closing"}

\* open, which stops the animation of a modal that closes
OpenPicker(p) == IF p.isOpen THEN p ELSE [p EXCEPT !.isOpen = TRUE, !.modal = "open"]

\* close
ClosePicker(p) ==
    IF ~p.isOpen THEN p
    ELSE [p EXCEPT !.isOpen = FALSE, !.modal = IF @ = "open" THEN "closing" ELSE @]

\* The modal, the only one of its page, keeps the body from scrolling when it opens and lets it
\* when it closes.
PickerBecomes(name, p) ==
    /\ Becomes(name, p)
    /\ scrolls' = IF (p.modal = "open") = (widget[name].modal = "open") THEN scrolls
                  ELSE p.modal # "open"

\* The modal is dismissed with the escape key or a click on its overlay.
DismissDialog(name) ==
    /\ widget[name].modal = "open"
    /\ PickerBecomes(name, [widget[name] EXCEPT !.modal = "closing"])

\* onCloseEnd
DialogClosed(name) ==
    /\ widget[name].modal = "closing"
    /\ PickerBecomes(name, [widget[name] EXCEPT !.modal = "closed", !.isOpen = FALSE])

\* When nothing moves the picker and its modal agree.
DialogAgrees(p) == p.modal # "closing" => p.isOpen = (p.modal = "open")
=============================================================================
