------------------------------ MODULE DBusTask ------------------------------
(***************************************************************************)
(* A long-running task of a D-Bus module (pyanaconda/modules/common/task): *)
(* the task thread, the main loop of the module that serves the D-Bus      *)
(* calls and runs the signal callbacks the thread has queued with          *)
(* idle_add, and a client that runs the task with sync_run_task or         *)
(* async_run_task while others may cancel it.  Of ThreadManager it uses    *)
(* the registry entry and the kept error of the one thread name.           *)
(***************************************************************************)
EXTENDS Naturals, Sequences

CONSTANTS
    MaxRuns,    \* bound: how often the client starts the task
    MaxIdle,    \* bound: progress is reported only below this queue length
    None

Run == 1..MaxRuns
Signals == [kind : {"started", "progress", "succeeded", "failed", "stopped"}, run : Run]

ASSUME TaskAssumption ==
    MaxRuns \in Nat \ {0} /\ MaxIdle \in Nat /\ None \notin Signals

VARIABLES
    protocol,   \* the client's: sync_run_task or async_run_task
    runs,       \* how many runs have been started
    phase,      \* where the thread of each run is
    registered, \* the run whose thread is in the ThreadManager, or 0
    error,      \* the run whose exception is kept in the ThreadManager, or 0
    cancel,     \* __cancel
    result,     \* the run whose result is stored, or 0
    outcome,    \* history: what became of the work of each run
    idle,       \* idle sources of the main loop, [kind, run]
    signal,     \* the last emitted signal
    client,     \* where the client is
    finished    \* how Finish() ended for each run

vars == <<protocol, runs, phase, registered, error, cancel, result, outcome, idle, signal,
          client, finished>>

Alive == {"start", "check", "run", "report", "failing", "failed", "remove"}
Phases == Alive \cup {"new", "stopping", "dead"}

TypeOK ==
    /\ protocol \in {"sync", "async"}
    /\ runs \in 0..MaxRuns
    /\ phase \in [Run -> Phases]
    /\ registered \in 0..runs /\ error \in 0..runs /\ result \in 0..runs
    /\ cancel \in BOOLEAN
    /\ outcome \in [Run -> {"none", "done", "error", "skipped"}]
    /\ idle \in Seq(Signals)
    /\ signal \in Signals \cup {None}
    /\ client \in {"idle", "poll", "await", "finish"}
    /\ finished \in [Run -> {"none", "ok", "raised"}]
    \* is_running tells the truth
    /\ \A r \in Run : phase[r] \in Alive <=> registered = r

Init ==
    /\ protocol \in {"sync", "async"}
    /\ runs = 0 /\ registered = 0 /\ error = 0 /\ result = 0
    /\ phase = [r \in Run |-> "new"]
    /\ cancel = FALSE
    /\ outcome = [r \in Run |-> "none"]
    /\ idle = <<>> /\ signal = None
    /\ client = "idle"
    /\ finished = [r \in Run |-> "none"]

Goto(r, p) == phase' = [phase EXCEPT ![r] = p]
Later(k, r) == Append(idle, [kind |-> k, run |-> r])      \* @async_action_nowait

-----------------------------------------------------------------------------
(* The client and the D-Bus calls it makes.                                *)

Start ==
    /\ client = "idle" /\ runs < MaxRuns
    /\ registered = 0                     \* add() refuses a living name
    /\ runs' = runs + 1
    /\ registered' = runs + 1
    /\ Goto(runs + 1, "start")
    /\ client' = IF protocol = "sync" THEN "poll" ELSE "await"
    /\ UNCHANGED <<protocol, error, cancel, result, outcome, idle, signal, finished>>

\* sync_run_task: `while task_proxy.IsRunning`.
Poll ==
    /\ client = "poll" /\ registered = 0
    /\ client' = "finish"
    /\ UNCHANGED <<protocol, runs, phase, registered, error, cancel, result, outcome, idle, signal, finished>>

\* raise_if_error of the thread name.
Finish ==
    /\ client = "finish"
    /\ finished' = [finished EXCEPT ![runs] = IF error = 0 THEN "ok" ELSE "raised"]
    /\ error' = 0
    /\ client' = "idle"
    /\ UNCHANGED <<protocol, runs, phase, registered, cancel, result, outcome, idle, signal>>

\* Anybody may cancel, at any time; the flag is never cleared.
Cancel ==
    /\ ~cancel /\ cancel' = TRUE
    /\ UNCHANGED <<protocol, runs, phase, registered, error, result, outcome, idle, signal, client, finished>>

-----------------------------------------------------------------------------
(* The thread of run r.                                                    *)

threadOnly == <<protocol, runs, registered, error, cancel, result, outcome, signal, client, finished>>

TaskStarted(r) ==
    /\ phase[r] = "start" /\ Goto(r, "check")
    /\ idle' = Later("started", r)
    /\ UNCHANGED threadOnly

CancelCleared == FALSE      \* mutant: "If yes, clear the cancel flag."
CancelAfterCheck == cancel

CheckCancel(r) ==
    /\ phase[r] = "check"
    /\ cancel' = CancelAfterCheck
    /\ \/ /\ cancel
          /\ Goto(r, "report")
          /\ outcome' = [outcome EXCEPT ![r] = "skipped"]
          /\ UNCHANGED idle
       \/ /\ ~cancel
          /\ Goto(r, "run")
          /\ idle' = Later("progress", r)
          /\ UNCHANGED outcome
    /\ UNCHANGED <<protocol, runs, registered, error, result, signal, client, finished>>

ReportProgress(r) ==
    /\ phase[r] = "run" /\ Len(idle) < MaxIdle
    /\ idle' = Later("progress", r)
    /\ UNCHANGED <<threadOnly, phase>>

\* run() returns a result, or None.
RunReturns(r) ==
    /\ phase[r] = "run" /\ Goto(r, "report")
    /\ result' \in {0, r}
    /\ outcome' = [outcome EXCEPT ![r] = "done"]
    /\ UNCHANGED <<protocol, runs, registered, error, cancel, idle, signal, client, finished>>

RunRaises(r) ==
    /\ phase[r] = "run" /\ Goto(r, "failing")
    /\ outcome' = [outcome EXCEPT ![r] = "error"]
    /\ UNCHANGED <<protocol, runs, registered, error, cancel, result, idle, signal, client, finished>>

\* _task_succeeded_callback, unless the task was cancelled meanwhile.
ReportSuccess(r) ==
    /\ phase[r] = "report" /\ Goto(r, "remove")
    /\ idle' = IF cancel THEN idle ELSE Later("succeeded", r)
    /\ UNCHANGED threadOnly

NoError(r) == error         \* mutant: the exception is only logged
KeptError(r) == r

\* fatal=False: set_error, then the failed callback.
SetError(r) ==
    /\ phase[r] = "failing" /\ Goto(r, "failed")
    /\ error' = KeptError(r)
    /\ UNCHANGED <<protocol, runs, registered, cancel, result, outcome, idle, signal, client, finished>>

ReportFailure(r) ==
    /\ phase[r] = "failed" /\ Goto(r, "remove")
    /\ idle' = Later("failed", r)
    /\ UNCHANGED threadOnly

Unregistered == 0

Remove(r) ==
    /\ phase[r] = "remove" /\ Goto(r, "stopping")
    /\ registered' = Unregistered
    /\ UNCHANGED <<protocol, runs, error, cancel, result, outcome, idle, signal, client, finished>>

StopUnlessCancelled(r) == IF cancel THEN idle ELSE Later("stopped", r)    \* mutant
StopAlways(r) == Later("stopped", r)

TaskStopped(r) ==
    /\ phase[r] = "stopping" /\ Goto(r, "dead")
    /\ idle' = StopAlways(r)
    /\ UNCHANGED threadOnly

ThreadStep(r) ==
    \/ TaskStarted(r) \/ CheckCancel(r) \/ ReportSuccess(r) \/ SetError(r)
    \/ ReportFailure(r) \/ Remove(r) \/ TaskStopped(r)

-----------------------------------------------------------------------------
(* The main loop.                                                          *)

Newest == idle[Len(idle)]         \* mutant: the last source is run first
Oldest == Head(idle)

\* One idle source: the signal is emitted, its handlers run, D-Bus sends it to
\* the client, and the callback of async_run_task answers Stopped.
Dispatch ==
    /\ idle # <<>>
    /\ signal' = Oldest
    /\ idle' = Tail(idle)
    /\ client' = IF client = "await" /\ Oldest.kind = "stopped" THEN "finish" ELSE client
    /\ UNCHANGED <<protocol, runs, phase, registered, error, cancel, result, outcome, finished>>

Next ==
    \/ Start \/ Poll \/ Finish \/ Cancel \/ Dispatch
    \/ \E r \in Run : ThreadStep(r) \/ ReportProgress(r) \/ RunReturns(r) \/ RunRaises(r)

Spec == Init /\ [][Next]_vars

\* The thread runs on, the main loop iterates, the client keeps polling and calls
\* Finish. Nothing is assumed of run(), which may take for ever.
Fairness ==
    /\ WF_vars(Dispatch) /\ WF_vars(Poll) /\ WF_vars(Finish)
    /\ \A r \in Run : WF_vars(ThreadStep(r))

FairSpec == Spec /\ Fairness

-----------------------------------------------------------------------------
(* Properties                                                              *)

\* A client of async_run_task sees what TaskLifecycle promises, across all runs
\* of the task: bracketed by Started and Stopped, and a true outcome in between.
\* One of sync_run_task does not listen; a restart may get ahead of Stopped there.
Heard == IF protocol = "async" THEN signal ELSE None
Lifecycle == INSTANCE TaskLifecycle WITH signal <- Heard
LifecycleImplemented == Lifecycle!AbsSpec

\* Success is only reported of a run whose work was done, however a Cancel falls
\* between the two checks of the flag: a task that was cancelled before run()
\* never reports Succeeded.
SuccessIsEarned ==
    \A i \in 1..Len(idle) : idle[i].kind = "succeeded" => outcome[idle[i].run] = "done"

\* Finish() raises exactly for a run that raised: IsRunning turns false, and
\* Stopped is sent, only after the exception of the thread is kept.
FinishTellsTheTruth ==
    \A r \in Run : finished[r] # "none" => (finished[r] = "raised" <=> outcome[r] = "error")

\* "Finish the task after it stopped" (TaskInterface.Finish): no signal of the
\* run is left to be handled when the client calls Finish, so what the module
\* does on Succeeded is done.  A client of sync_run_task polls IsRunning and may
\* finish before that.
HandlersDoneAtFinish ==
    client = "finish" => /\ phase[runs] = "dead"
                         /\ \A i \in 1..Len(idle) : idle[i].run # runs

\* async_run_task keeps that promise: it waits for Stopped, the last signal.
AsyncWaitsForHandlers == protocol = "async" => HandlersDoneAtFinish

\* Once run() has returned or raised, or was skipped, Stopped follows and the
\* client gets to the end of its protocol.
ClientGetsDone ==
    \A r \in Run : (runs = r /\ phase[r] \in {"report", "failing"}) ~> finished[r] # "none"
=============================================================================
