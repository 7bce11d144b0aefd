----------------------------- MODULE PayloadRuns -----------------------------
(***************************************************************************)
(* What the payload manager promises to the screens: a restart waits for   *)
(* the run before, and a run enters STARTED, then perhaps                  *)
(* DOWNLOADING_PKG_METADATA, and ends with FINISHED or ERROR.  The states  *)
(* in between are left out.  PayloadManager implements this module and     *)
(* SummaryHub builds on it.                                                *)
(***************************************************************************)
EXTENDS Integers

VARIABLES
    pending,    \* the restart thread: "no", "waiting" or "started" the run
    run,        \* the payload thread
    phase       \* the last state that was entered, of those in Phases

Error == -1
Started == 0
PackageMetadata == 4
Finished == 6
Phases == {Error, Started, PackageMetadata, Finished}

runVars == <<pending, run, phase>>

RunsInit == pending = "no" /\ run = "none" /\ phase = Started

\* restart_thread, which has no effect while a restart is pending.
Restart == /\ pending = "no" /\ pending' = "waiting"
           /\ UNCHANGED <<run, phase>>

StartRun ==
    \/ /\ pending = "waiting" /\ pending' = "started"
       /\ run = "none" /\ run' = "begin"
       /\ UNCHANGED phase
    \/ /\ pending = "started" /\ pending' = "no"
       /\ UNCHANGED <<run, phase>>

Enter(from, to, p) == run \in from /\ run' = to /\ phase' = p

RunStep ==
    /\ \/ Enter({"begin"}, "started", Started)
       \/ Enter({"started"}, "loading", PackageMetadata)
       \/ Enter({"loading"}, "loaded", phase)               \* update_base_repo
       \/ Enter({"started", "loaded"}, "ending", Finished)
       \/ Enter({"loading", "loaded"}, "failed", Error)
       \/ Enter({"failed"}, "ending", phase)                \* unsetup
       \/ Enter({"ending"}, "none", phase)                  \* the thread leaves the registry
    /\ UNCHANGED pending

RunsNext == Restart \/ StartRun \/ RunStep

RunsSpec == RunsInit /\ [][RunsNext]_runVars
=============================================================================
