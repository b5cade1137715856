------------------------------- MODULE MCEventLog -------------------------------
(* Instances of EventLog for TLC.                                          *)
EXTENDS EventLog

CONSTANTS client1, manager1, stdout

=============================================================================
