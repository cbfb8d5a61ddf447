------------------------- MODULE MCAsyncSyncQueue -------------------------
(* TLC instances of AsyncSyncQueue: MCAsyncSyncQueue.cfg has enough jobs to *)
(* fill the queue while both workers are busy; MCAsyncSyncQueue_drain.cfg   *)
(* is the smallest instance in which a drain leaves a job behind.           *)
EXTENDS AsyncSyncQueue, TLC
=============================================================================
