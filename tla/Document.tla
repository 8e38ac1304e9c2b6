------------------------------ MODULE Document ------------------------------
(***************************************************************************)
(* A page of the frontend in the browser, as the widgets of materialize.js *)
(* share it.  A widget's state is a record, widget[name]; what they share  *)
(* is whether the body scrolls.  Handlers, timers and the callbacks of     *)
(* animations run one at a time, each as one step.                         *)
(*                                                                         *)
(* anime.js is external: an animation of an element ends, and calls its    *)
(* callback, unless anim.remove has taken the element out of it.           *)
(***************************************************************************)
EXTENDS Integers, FiniteSets, Sequences, SequencesExt, Functions

VARIABLES
    widget,     \* widget[name]: the state of the widget of that name on this page
    scrolls     \* whether the body scrolls: body.style.overflow is not "hidden"

pageVars == <<widget, scrolls>>

OnPage(name) == name \in DOMAIN widget

\* The widget is left in state w.
Becomes(name, w) == widget' = [widget EXCEPT ![name] = w]

\* The same, and the body is left as it is.
Steps(name, w) == Becomes(name, w) /\ UNCHANGED scrolls

\* A list of different elements without one of them
Without(s, e) == IF e \in ToSet(s) THEN RemoveAt(s, CHOOSE i \in DOMAIN s : s[i] = e) ELSE s
=============================================================================
