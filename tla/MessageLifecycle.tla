-------------------------- MODULE MessageLifecycle --------------------------
(***************************************************************************)
(* What the outbox promises of a message that nothing disturbs: it is      *)
(* tried a bounded number of times, one try at a time; a try that handed   *)
(* it to the provider ends as sent and is never repeated; only a message   *)
(* the provider has is reported delivered or read, in that order; and a    *)
(* settled message stays settled until an operator reopens it, which may   *)
(* not be done to a message that was handed over.                          *)
(*                                                                         *)
(* A disturbed message is one of which the program cannot know whether it  *)
(* was handed over, and of which nothing more is promised.                 *)
(***************************************************************************)
EXTENDS Integers

CONSTANTS Messages, MaxAttempts

VARIABLES
  phase, \* of each message
  tries, \* tries charged to a message that is not settled
  given  \* times the provider was handed the message

vars == <<phase, tries, given>>

Phases == {"none", "waiting", "attempting", "sent", "delivered", "read",
           "dead", "expired", "disturbed"}

Init == /\ phase = [m \in Messages |-> "none"]
        /\ tries = [m \in Messages |-> 0]
        /\ given = [m \in Messages |-> 0]

Becomes(m, p, t, g) == phase'[m] = p /\ tries'[m] = t /\ given'[m] = g

Stays(m) == Becomes(m, phase[m], tries[m], given[m])

Queue(m) == phase[m] = "none" /\ Becomes(m, "waiting", 0, 0)

Attempt(m) == /\ phase[m] = "waiting" /\ tries[m] < MaxAttempts
              /\ Becomes(m, "attempting", tries[m], given[m])

HandOver(m) == /\ phase[m] = "attempting" /\ given[m] = 0
               /\ Becomes(m, "attempting", tries[m], 1)

\* A failed try costs one of the budget, a deferred one nothing.
GiveBack(m) == /\ phase[m] = "attempting" /\ given[m] = 0
               /\ \E t \in {tries[m], tries[m] + 1} :
                    t < MaxAttempts /\ Becomes(m, "waiting", t, 0)

GiveUp(m) == /\ phase[m] = "attempting" /\ given[m] = 0
             /\ Becomes(m, "dead", 0, 0)

Settle(m) == /\ phase[m] = "attempting" /\ given[m] = 1
             /\ Becomes(m, "sent", 0, 1)

Report(m) == \/ phase[m] = "sent" /\ Becomes(m, "delivered", 0, 1)
             \/ phase[m] \in {"sent", "delivered"} /\ Becomes(m, "read", 0, 1)

Expire(m) == phase[m] = "waiting" /\ Becomes(m, "expired", 0, 0)

Reopen(m) == /\ phase[m] \in {"waiting", "attempting", "dead", "expired"}
             /\ given[m] = 0
             /\ Becomes(m, "waiting", 0, 0)

Disturb(m) == /\ phase[m] \in {"attempting", "sent", "delivered", "read"}
              /\ Becomes(m, "disturbed", 0, 0)

Move(m) == \/ Queue(m) \/ Attempt(m) \/ HandOver(m) \/ GiveBack(m) \/ GiveUp(m)
           \/ Settle(m) \/ Report(m) \/ Expire(m) \/ Reopen(m) \/ Disturb(m)

\* One statement of the database may move several messages.
Next == /\ \A m \in Messages : Stays(m) \/ Move(m)
        /\ phase' \in [Messages -> Phases]
        /\ tries' \in [Messages -> Nat]
        /\ given' \in [Messages -> {0, 1}]

Spec == Init /\ [][Next]_vars
=============================================================================
