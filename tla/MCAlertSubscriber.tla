-------------------------- MODULE MCAlertSubscriber --------------------------
\* A small instance of AlertSubscriber.
EXTENDS AlertSubscriber

MCIds == 1 .. 3
=============================================================================
