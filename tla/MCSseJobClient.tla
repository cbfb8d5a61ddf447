-------------------------- MODULE MCSseJobClient --------------------------
(* TLC instance of SseJobClient: two runs one after the other, one          *)
(* connection broken in either of them.                                     *)
EXTENDS SseJobClient, TLC
=============================================================================
