--------------------------- MODULE MCGatewayJobs ---------------------------
(* TLC instances of GatewayJobs: one job and three streams that compete for *)
(* its events.  Jobs share nothing, so one job is enough for this module.   *)
EXTENDS GatewayJobs, TLC
=============================================================================
