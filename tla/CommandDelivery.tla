--------------------------- MODULE CommandDelivery ---------------------------
(***************************************************************************)
(* What the downlink promises of the commands of one device: each is       *)
(* delivered at most once, after it was issued and in the order of issue,  *)
(* unless a newer one passed it on its way; a command that was dropped     *)
(* (superseded, expired, lost, refused) is never delivered.  It does not   *)
(* promise that a command is delivered at all.                             *)
(***************************************************************************)
EXTENDS Integers, Sequences

CONSTANT Requests  \* numbered in the order of issue

VARIABLES
  standing, \* of each request
  received, \* requests the device was sent, in order
  late      \* requests that a newer one passed on its way

vars == <<standing, received, late>>

Init == /\ standing = [r \in Requests |-> "new"]
        /\ received = <<>>
        /\ late = {}

Open == {r \in Requests : standing[r] = "open"}

Becomes(r, s) == standing' = [standing EXCEPT ![r] = s]

\* A request is dropped at once if nobody listens.
Issue(r) == /\ standing[r] = "new"
            /\ \A q \in Requests : q < r => standing[q] # "new"
            /\ Becomes(r, "open") \/ Becomes(r, "dropped")
            /\ UNCHANGED <<received, late>>

\* The device's turn comes to r; older requests still on their way are passed.
Turn(r) == /\ standing[r] = "open"
           /\ \E P \in SUBSET {q \in Open : q < r} : late' = late \cup P

Deliver(r) == /\ Turn(r)
              /\ r \in late \/ \A i \in DOMAIN received : received[i] < r
              /\ Becomes(r, "delivered")
              /\ received' = Append(received, r)

Refuse(r) == Turn(r) /\ Becomes(r, "dropped") /\ UNCHANGED received

Drop == /\ \E D \in SUBSET Open :
             standing' = [r \in Requests |-> IF r \in D THEN "dropped" ELSE standing[r]]
        /\ UNCHANGED <<received, late>>

Next == Drop \/ \E r \in Requests : Issue(r) \/ Deliver(r) \/ Refuse(r)

Spec == Init /\ [][Next]_vars
=============================================================================
