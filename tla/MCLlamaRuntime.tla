---------------------------- MODULE MCLlamaRuntime ----------------------------
(* Two request threads, the first of which also starts the service, and as *)
(* many processes as there are calls.                                      *)
EXTENDS LlamaRuntime
=============================================================================
