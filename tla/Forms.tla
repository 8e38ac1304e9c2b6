-------------------------------- MODULE Forms -------------------------------
(***************************************************************************)
(* The text fields of the pages' forms and areas of text, as materialize.js*)
(* treats them with handlers of the document: a label that floats above    *)
(* what a field holds, a verdict on it, and the height of an area.         *)
(***************************************************************************)
EXTENDS Document

CONSTANT MostLines      \* bound: how many lines an area of text may have

ASSUME FormsAssumption == MostLines \in Nat \ {0}

field == widget["TextField"]
area == widget["TextArea"]

\* What a field may hold: nothing, what its form accepts, what it does not, and what is
\* longer than the field's data-length.
Contents == {"empty", "good", "bad", "long"}
Verdicts == {"none", "valid", "invalid"}

TextFieldTypeOK ==
    field \in [validate : BOOLEAN, required : BOOLEAN, hasLength : BOOLEAN,
               placeholder : BOOLEAN, default : {"empty", "good"},  \* of the markup
               value : Contents, changed : BOOLEAN,            \* since the last change event
               focused : BOOLEAN,
               active : BOOLEAN,                               \* the label
               verdict : Verdicts,                             \* the class of the field
               reset : BOOLEAN]      \* history: the form was reset over what the field shows

\* updateTextFields, when the document is ready
TextFieldInit ==
    {[validate |-> validate, required |-> required, hasLength |-> hasLength,
      placeholder |-> placeholder, default |-> default, value |-> default, changed |-> FALSE,
      focused |-> FALSE, active |-> default # "empty" \/ placeholder, verdict |-> "none",
      reset |-> FALSE] :
        validate, required, hasLength, placeholder \in BOOLEAN, default \in {"empty", "good"}}

Accepted(f) ==
    IF f.value = "empty" THEN ~f.required
    ELSE f.value = "good" \/ (f.value = "long" /\ ~f.hasLength)

VerdictOn(f) ==
    IF ~f.validate \/ (f.value = "empty" /\ ~f.required) THEN "none"
    ELSE IF Accepted(f) THEN "valid" ELSE "invalid"

validate_field(f) == [f EXCEPT !.verdict = VerdictOn(f)]

\* The change event, before the field loses the focus or by itself
Changed(f) ==
    IF ~f.changed THEN f
    ELSE validate_field([f EXCEPT !.changed = FALSE,
                                  !.active = @ \/ f.value # "empty" \/ f.placeholder])

FieldBecomes(f) == Steps("TextField", f)

FocusTextField ==
    ~field.focused /\ FieldBecomes([field EXCEPT !.focused = TRUE, !.active = TRUE, !.reset = FALSE])

TypeInTextField ==
    /\ field.focused
    /\ \E value \in Contents \ {field.value} :
         FieldBecomes([field EXCEPT !.value = value, !.changed = TRUE])

PressEnterInTextField == field.focused /\ FieldBecomes(Changed(field))

BlurTextField ==
    LET f == Changed(field) IN
    /\ field.focused
    /\ FieldBecomes(validate_field(
         [f EXCEPT !.focused = FALSE, !.active = @ /\ (f.value # "empty" \/ f.placeholder)]))

\* The handler of reset looks at the value the field had before.
ResetTextField ==
    FieldBecomes([field EXCEPT !.value = field.default, !.changed = FALSE, !.verdict = "none",
                               !.active = @ /\ field.value = "empty", !.reset = TRUE])

TextFieldStep ==
    FocusTextField \/ TypeInTextField \/ PressEnterInTextField \/ BlurTextField \/ ResetTextField

\* The label floats above a field that holds something or has a placeholder, also when the
\* field was left, and only then; and a verdict is on what the field holds now.  Both until
\* the form is reset, when the label goes by what the field held.
FieldsShowState ==
    ~field.reset /\ ~field.focused =>
      /\ field.active <=> field.value # "empty" \/ field.placeholder
      /\ field.verdict \in {"none", VerdictOn(field)}

-----------------------------------------------------------------------------
(* An area of text.  Its keys are down and up; the text comes between.      *)

TextAreaTypeOK ==
    area \in [lines : 1 .. MostLines,            \* that the text takes
              length : 0 .. MostLines,           \* of the text
              original : 1 .. MostLines,         \* original-height, in lines
              previous : 0 .. MostLines,         \* previous-length
              height : 1 .. MostLines,
              typing : BOOLEAN]                  \* the text has changed since

\* textareaAutoResize
textareaAutoResize(a) ==
    [a EXCEPT !.previous = a.length, !.typing = FALSE,
              !.height = IF a.original <= a.lines THEN a.lines
                         ELSE IF a.length < a.previous THEN a.original ELSE @]

TextAreaInit ==
    {textareaAutoResize([lines |-> n, length |-> n, original |-> original, previous |-> n,
                         height |-> original, typing |-> FALSE]) :
        n, original \in 1 .. MostLines}

KeyInArea == Steps("TextArea", textareaAutoResize(area))

\* A text of other lines and another length, at least a character for each line but one
TypeInArea ==
    \E lines \in 1 .. MostLines : \E length \in lines - 1 .. MostLines :
        Steps("TextArea", [area EXCEPT !.lines = lines, !.length = length, !.typing = TRUE])

TextAreaStep == KeyInArea \/ TypeInArea

\* After a key the text fits into the area, which is never smaller than it was made.
AreasShowState == /\ ~area.typing => area.lines <= area.height
                  /\ area.original <= area.height

-----------------------------------------------------------------------------
(* A select of a form, class FormSelect.  What is selected is kept four     *)
(* times: in the select itself, which the form sends; in _keysSelected,   *)
(* which getSelectedValues reads; in the marks of the entries of the menu;   *)
(* and as the text of the field above it.                                    *)

CONSTANT LastOption     \* options 0 to LastOption; option 0 is a disabled one without a value

ASSUME FormSelectAssumption == LastOption \in Nat \ {0}

select == widget["FormSelect"]

Options == 0 .. LastOption
Placeholder == 0

FormSelectTypeOK ==
    select \in [isMultiple : BOOLEAN,
                first : SUBSET Options,           \* what the markup selects
                selected : SUBSET Options,        \* of the select
                _keysSelected : SUBSET Options,
                marked : SUBSET Options,          \* of class selected
                input : SUBSET Options,           \* the texts of the field
                isOpen : BOOLEAN,                 \* dropdown.isOpen
                closing : BOOLEAN,                \* the timer that closes it
                resetting : BOOLEAN,              \* the timer after a reset of the form
                stale : BOOLEAN]   \* history: reset since the menu was last brought up to date

\* _setValueToInput: the texts of the options selected, or of the placeholder
TextsOf(options) == IF options = {} THEN {Placeholder} ELSE options

FormSelectInit ==
    {[isMultiple |-> isMultiple, first |-> first, selected |-> first,
      _keysSelected |-> first, marked |-> first, input |-> TextsOf(first),
      isOpen |-> FALSE, closing |-> FALSE, resetting |-> FALSE, stale |-> FALSE] :
        isMultiple \in BOOLEAN, first \in {{Placeholder}, {}, {1}}}

SelectBecomes(s) == Steps("FormSelect", s)

\* _setSelectedStates
_setSelectedStates(s) ==
    [s EXCEPT !._keysSelected = s.selected, !.marked = s.selected, !.stale = FALSE]

_toggleEntryFromArray(s, o) ==
    IF o \in s._keysSelected
    THEN [s EXCEPT !._keysSelected = @ \ {o}, !.marked = @ \ {o}]
    ELSE [s EXCEPT !._keysSelected = @ \cup {o}, !.marked = @ \cup {o}]

\* A placeholder that is still marked is unmarked and toggled.
PlaceholderToggled(s) ==
    IF Placeholder \in s.marked THEN _toggleEntryFromArray(s, Placeholder) ELSE s

\* The select follows, and its change event sets the text.
Selects(s, o, chosen) ==
    LET selected == IF ~chosen THEN s.selected \ {o}
                    ELSE IF s.isMultiple THEN s.selected \cup {o} ELSE {o}
    IN IF chosen = (o \in s.selected) THEN s
       ELSE [s EXCEPT !.selected = selected, !.input = TextsOf(selected)]

\* _handleOptionClick
ClickOption(o) ==
    LET toggled == _toggleEntryFromArray(PlaceholderToggled(select), o)
        clicked == IF select.isMultiple
                   THEN Selects(toggled, o, o \in toggled._keysSelected)
                   ELSE Selects([select EXCEPT !.marked = {o}], o, TRUE)
    IN
    /\ select.isOpen /\ o # Placeholder
    /\ SelectBecomes([clicked EXCEPT !.closing = @ \/ ~select.isMultiple])

\* A click on the field opens the menu, or has it closed, and _handleInputClick brings the
\* menu up to date.  Opened by a key it is as it was left.
ClickSelect ==
    SelectBecomes([_setSelectedStates(select)
                     EXCEPT !.isOpen = TRUE, !.closing = @ \/ select.isOpen,
                            !.input = TextsOf(select.selected)])
OpenSelectByKey == ~select.isOpen /\ SelectBecomes([select EXCEPT !.isOpen = TRUE])

ClickBesideSelect == select.isOpen /\ SelectBecomes([select EXCEPT !.closing = TRUE])
CloseSelectTimer ==
    select.closing /\ SelectBecomes([select EXCEPT !.closing = FALSE, !.isOpen = FALSE])

\* The form is reset, and the select hears of it by a timer: only the text follows.
ResetForm ==
    SelectBecomes([select EXCEPT !.selected = select.first, !.resetting = TRUE, !.stale = TRUE])
ResetTimer ==
    /\ select.resetting
    /\ SelectBecomes([select EXCEPT !.resetting = FALSE, !.input = TextsOf(select.selected)])

FormSelectStep ==
    \/ \E o \in Options : ClickOption(o)
    \/ ClickSelect \/ OpenSelectByKey \/ ClickBesideSelect \/ CloseSelectTimer
    \/ ResetForm \/ ResetTimer

-----------------------------------------------------------------------------
Enabled == Options \ {Placeholder}

\* The field reads as the form will be sent, and so do the menu and, of a multiple select,
\* getSelectedValues, until the form is reset.  A select of one has one option at most.
SelectAgrees ==
    /\ ~select.resetting => select.input = TextsOf(select.selected)
    /\ ~select.stale => /\ select.marked \cap Enabled = select.selected \cap Enabled
                        /\ select.isMultiple =>
                             select._keysSelected \cap Enabled = select.selected \cap Enabled
    /\ ~select.isMultiple => Cardinality(select.selected) <= 1
=============================================================================
