----------------------------- MODULE MCScanQueue -----------------------------
(* Small instances of ScanQueue for TLC. *)
EXTENDS ScanQueue

CONSTANTS w1, none

TwoScans == {1, 2}

\* The second upload is the same file as the first, or another one.
SameOrOther == {<<"a", "a">>, <<"a", "b">>}
=============================================================================
