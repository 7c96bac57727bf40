-------------------------- MODULE MCIgnitionTracking --------------------------
\* A small instance of IgnitionTracking: handlers are interchangeable.
EXTENDS IgnitionTracking, TLC
HandlerSymmetry == Permutations(Handlers)
=============================================================================
