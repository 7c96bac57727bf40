----------------------------- MODULE ArchiveLedger -----------------------------
(***************************************************************************)
(* What the cold archive promises of the points of a day and of those who  *)
(* ask for them back: points leave the database for the archive, or are    *)
(* lost because nobody attended to them on their night; a restore waits    *)
(* until it is done or the whole request is given up; and a request is     *)
(* answered by one mail, which says what became of all of its restores     *)
(* and stays true of them.                                                 *)
(***************************************************************************)
CONSTANTS Files, Users, Groups, NoGroup

VARIABLES
  place,    \* of the points of each file
  restores, \* the restore each user has asked for of each file, if any
  told      \* what each request was told

vars == <<place, restores, told>>

Slots == Files \X Users
NoRestore == [group |-> NoGroup, status |-> "none"]

Init == /\ place \in [Files -> {"nowhere", "database"}]
        /\ restores = [s \in Slots |-> NoRestore]
        /\ told = [g \in Groups |-> "nothing"]

\* A day's points are copied before they go, or were not attended to.
Shifts == {<<"database", "both">>, <<"both", "archive">>,
           <<"database", "unattended">>, <<"unattended", "lost">>}

Shift == /\ \A f \in Files : place'[f] = place[f] \/ <<place[f], place'[f]>> \in Shifts
         /\ UNCHANGED <<restores, told>>

Group(g) == {s \in Slots : restores[s].group = g}
All(g, status) == \A s \in Group(g) : restores[s].status = status

Becomes(S, g, status) ==
  restores' = [s \in Slots |-> IF s \in S THEN [group |-> g, status |-> status] ELSE restores[s]]

\* A request that nothing was settled of yet asks for one more archived file.
Ask(s, g) == /\ place[s[1]] \in {"both", "archive"}
             /\ restores[s] = NoRestore
             /\ All(g, "pending") /\ told[g] = "nothing"
             /\ Becomes({s}, g, "pending")
             /\ UNCHANGED <<place, told>>

Complete(g) == /\ \E S \in SUBSET {s \in Group(g) : restores[s].status = "pending"} :
                    Becomes(S, g, "completed")
               /\ UNCHANGED <<place, told>>

\* Those that were done are given up with the others.
GiveUp(g) == /\ ~All(g, "completed") /\ ~All(g, "failed")
             /\ Becomes(Group(g), g, "failed")
             /\ UNCHANGED <<place, told>>

Tell(g) == /\ told[g] = "nothing" /\ Group(g) # {}
           /\ \E status \in {"completed", "failed"} :
                All(g, status) /\ told' = [told EXCEPT ![g] = status]
           /\ UNCHANGED <<place, restores>>

Next == \/ Shift
        \/ \E g \in Groups : \/ \E s \in Slots : Ask(s, g)
                             \/ Complete(g) \/ GiveUp(g) \/ Tell(g)

Spec == Init /\ [][Next]_vars
=============================================================================
