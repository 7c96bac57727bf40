----------------------------- MODULE MCColdArchive -----------------------------
\* A small instance of ColdArchive: the vehicle moved every day, or stood still
\* after the first one.
EXTENDS ColdArchive

CONSTANTS v1, r1, r2, u1

MCHistories == {Files, {f \in Files : f[1] = 1}}
=============================================================================
