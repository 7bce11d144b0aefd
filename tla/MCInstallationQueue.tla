------------------------ MODULE MCInstallationQueue ------------------------
(* The complete queue, two queues to nest, and two tasks.                   *)
EXTENDS InstallationQueue

CONSTANTS complete, storage, payload, t1, t2
=============================================================================
