-------------------------- MODULE MCDeviceCommands --------------------------
(* Small instances of DeviceCommands for TLC. *)
EXTENDS DeviceCommands, TLC

CONSTANTS s1, s2, s3, none

\* Connections differ in name only.
Connections == Permutations(Sockets)
=============================================================================
