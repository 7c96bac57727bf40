------------------------------ MODULE FillLedger ------------------------------
(***************************************************************************)
(* What the fuel pipeline promises of each fill of the tank that two       *)
(* packets did not have in hand at once: it is announced at most once and  *)
(* only while it is open, a fill that was closed stays closed, and its     *)
(* announcement ends as one row, as a duplicate, or with a failed call.    *)
(***************************************************************************)
EXTENDS Integers

VARIABLES
  fills, \* fills begun so far, which numbers them
  phase  \* of each of them

vars == <<fills, phase>>

Phases == {"open", "closed", "announced", "told", "duplicate", "lost", "disturbed"}

Init == fills = 0 /\ phase = [s \in 1 .. 0 |-> "open"]

Advances == {"open"} \X {"closed", "announced", "disturbed"}
            \cup {"announced"} \X {"told", "duplicate", "lost"}

\* A restart may close several fills.
Next == /\ fills' \in {fills, fills + 1}
        /\ phase' \in [1 .. fills' -> Phases]
        /\ \A s \in 1 .. fills : phase'[s] = phase[s] \/ <<phase[s], phase'[s]>> \in Advances
        /\ fills' > fills => phase'[fills'] = "open"

Spec == Init /\ [][Next]_vars
=============================================================================
