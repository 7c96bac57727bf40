--------------------------- MODULE ScanLifecycle ---------------------------
(***************************************************************************)
(* What the document scanner promises of an accepted document, whatever    *)
(* happens to the processes that work on it: it is run a bounded number of *)
(* times, a run either settles it or gives it back while it has runs left, *)
(* and once settled it stays settled.  A run cut off by a shutdown may     *)
(* strand its document.                                                    *)
(***************************************************************************)
EXTENDS Integers

CONSTANTS Scans, MaxAttempts

VARIABLES
  phase, \* of each document
  tries  \* runs charged to a document that is not settled

vars == <<phase, tries>>

Init == /\ phase = [s \in Scans |-> "none"]
        /\ tries = [s \in Scans |-> 0]

Go(s, from, to) == phase[s] \in from /\ phase' = [phase EXCEPT ![s] = to]

Accept(s) == Go(s, {"none"}, "pending") /\ UNCHANGED tries

Start(s) == /\ Go(s, {"pending"}, "running")
            /\ tries[s] < MaxAttempts
            /\ tries' = [tries EXCEPT ![s] = @ + 1]

GiveBack(s) == /\ Go(s, {"running"}, "pending")
               /\ tries[s] < MaxAttempts
               /\ UNCHANGED tries

CutOff(s) == /\ Go(s, {"running"}, "stranded")
             /\ tries[s] = MaxAttempts
             /\ UNCHANGED tries

Settle(s) == /\ Go(s, {"pending", "running", "stranded"}, "settled")
             /\ tries' = [tries EXCEPT ![s] = 0]

\* One statement of the database may give back or settle several documents.
Recover == /\ \E S \in SUBSET Scans :
                /\ \A s \in S : phase[s] = "running"
                /\ phase' = [s \in Scans |->
                     IF s \notin S THEN phase[s]
                     ELSE IF tries[s] < MaxAttempts THEN "pending" ELSE "settled"]
           /\ tries' = [s \in Scans |-> IF phase'[s] = "settled" THEN 0 ELSE tries[s]]

Next == \/ Recover
        \/ \E s \in Scans : Accept(s) \/ Start(s) \/ GiveBack(s) \/ CutOff(s) \/ Settle(s)

Spec == Init /\ [][Next]_vars
=============================================================================
