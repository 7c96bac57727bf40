----------------------------- MODULE MCFuelAlerts -----------------------------
\* A small instance of FuelAlerts: a tank that is empty, low or full.
EXTENDS FuelAlerts, TLC

MCLevels == {0, 1, 3}
MCIds == 1 .. 2
HandlerSymmetry == Permutations(Handlers)
=============================================================================
