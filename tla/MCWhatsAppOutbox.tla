-------------------------- MODULE MCWhatsAppOutbox --------------------------
(***************************************************************************)
(* Small instances of WhatsAppOutbox for TLC: the rows are numbered in     *)
(* insertion order, all of one customer.                                   *)
(***************************************************************************)
EXTENDS WhatsAppOutbox, TLC

CONSTANTS r1, w1, w2

OneRow == {1}
TwoRows == {1, 2}
ToR1 == [m \in Messages |-> r1]

\* Workers differ in name only.
WorkerSymmetry == Permutations(Workers)

AnAlert == [m \in Messages |-> "fuel_theft"]
Reports == [m \in Messages |-> "daily_report"]
=============================================================================
