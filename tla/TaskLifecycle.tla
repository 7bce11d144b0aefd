--------------------------- MODULE TaskLifecycle ---------------------------
(***************************************************************************)
(* What a task promises the listeners of its signals (Runnable.start and   *)
(* the signals of TaskInterface): Started opens a run, then progress may   *)
(* be reported, at most one of Succeeded and Failed tells the outcome, and *)
(* Stopped closes the run.  Succeeded is only said of work that was done   *)
(* and Failed only of work that raised; a cancelled run says neither.      *)
(***************************************************************************)
CONSTANTS Run, None

VARIABLES
    signal,     \* the last emitted signal, [kind, run]
    outcome     \* what became of the work of each run

absVars == <<signal, outcome>>

Kinds == {"started", "progress", "succeeded", "failed", "stopped"}

AbsInit == signal = None /\ outcome = [r \in Run |-> "none"]

Emit(k, r) == signal' = [kind |-> k, run |-> r] /\ UNCHANGED outcome

Open == IF signal = None THEN FALSE ELSE signal.kind # "stopped"

Started(r) == ~Open /\ Emit("started", r)

Within(r, kinds) == signal # None /\ signal.run = r /\ signal.kind \in kinds

Progress(r) == Within(r, {"started", "progress"}) /\ Emit("progress", r)

Succeeded(r) ==
    Within(r, {"started", "progress"}) /\ outcome[r] = "done" /\ Emit("succeeded", r)

Failed(r) ==
    Within(r, {"started", "progress"}) /\ outcome[r] = "error" /\ Emit("failed", r)

Stopped(r) ==
    /\ Within(r, Kinds \ {"stopped"})
    /\ outcome[r] = "error" => signal.kind = "failed"
    /\ Emit("stopped", r)

\* The work of a run ends, at any time.
Work(r) ==
    /\ outcome[r] = "none"
    /\ \E o \in {"done", "error", "skipped"} : outcome' = [outcome EXCEPT ![r] = o]
    /\ UNCHANGED signal

AbsNext ==
    \E r \in Run : Started(r) \/ Progress(r) \/ Succeeded(r) \/ Failed(r) \/ Stopped(r) \/ Work(r)

AbsSpec == AbsInit /\ [][AbsNext]_absVars
=============================================================================
