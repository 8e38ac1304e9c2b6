----------------------------- MODULE OrderSaga ------------------------------
(***************************************************************************)
(* What the order saga promises its customers, with no word of topics,     *)
(* threads or logs: the facts about an order are established in the order  *)
(* in which they may cause each other and are never taken back; the        *)
(* customer is told once, and told nothing that is not a fact; and no      *)
(* order is placed once its customer was told that the call had failed.    *)
(* An order may be left where it is at any point.                          *)
(***************************************************************************)
CONSTANT Calls   \* the customers' calls; the order of call c is called c

VARIABLES
    facts,   \* facts[t]: what has been established about order t
    told     \* told[c]: what the customer of call c has been told

promiseVars == <<facts, told>>

Outcomes == {"approved", "rejected"}

Init ==
    /\ facts = [t \in Calls |-> {}]
    /\ told = [c \in Calls |-> "nothing"]

\* A fact is added to what is known of order t.
Establish(t, fact) ==
    /\ facts' = [facts EXCEPT ![t] = @ \cup {fact}]
    /\ UNCHANGED told

Place(t)  == told[t] = "nothing" /\ Establish(t, "ordered")
Charge(t) == "ordered" \in facts[t] /\ Establish(t, "charged")
Deny(t)   == "ordered" \in facts[t] /\ Establish(t, "denied")
Cook(t)   == "charged" \in facts[t] /\ Establish(t, "accepted")
Refuse(t) == "charged" \in facts[t] /\ Establish(t, "refused")
Refund(t) == "refused" \in facts[t] /\ Establish(t, "refunded")

Approve(t) == "accepted" \in facts[t] /\ Establish(t, "approved")
Reject(t)  == {"denied", "refunded"} \cap facts[t] # {} /\ Establish(t, "rejected")

Tell(c, outcome) ==
    /\ told[c] = "nothing"
    /\ outcome \in facts[c]
    /\ told' = [told EXCEPT ![c] = outcome]
    /\ UNCHANGED facts

\* The calls of cs, whose customers have not been told anything, end with an error.
Fail(cs) ==
    /\ \A c \in cs : told[c] = "nothing"
    /\ told' = [c \in Calls |-> IF c \in cs THEN "failed" ELSE told[c]]
    /\ UNCHANGED facts

Next ==
    \/ \E t \in Calls :
         \/ Place(t) \/ Charge(t) \/ Deny(t) \/ Cook(t) \/ Refuse(t) \/ Refund(t)
         \/ Approve(t) \/ Reject(t)
    \/ \E c \in Calls, outcome \in Outcomes : Tell(c, outcome)
    \/ \E cs \in SUBSET Calls : Fail(cs)

Spec == Init /\ [][Next]_promiseVars
=============================================================================
