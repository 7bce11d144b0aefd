--------------------------- MODULE PayloadManager ---------------------------
(***************************************************************************)
(* pyanaconda/payload/manager.py: any thread of the user interface asks    *)
(* for a restart of the payload, a restart thread waits for the running    *)
(* payload thread and starts the next one, and listeners follow the states *)
(* of the payload thread.  The thread manager appears as the registry      *)
(* entries of the two threads; set_state and add_listener hold one lock    *)
(* while they run the listeners and are atomic here.                       *)
(***************************************************************************)
EXTENDS Integers, FiniteSets

CONSTANTS
    Caller,         \* threads that call restart_thread
    Listener,
    EventOf,        \* the state each listener listens for
    Busy,           \* the threads the payload thread waits for
    DnfPayload,     \* is the payload of the type DNF?
    MaxRequests     \* bound: how often the configuration changes

States == -1..6
ERROR == -1
STARTED == 0
WAITING_STORAGE == 1
WAITING_NETWORK == 2
VERIFYING_AVAILABILITY == 3
DOWNLOADING_PKG_METADATA == 4
DOWNLOADING_GROUP_METADATA == 5
FINISHED == 6

BusyThreads == {"storage", "network"}

ASSUME PayloadAssumption ==
    /\ EventOf \in [Listener -> States]
    /\ Busy \subseteq BusyThreads
    /\ DnfPayload \in BOOLEAN
    /\ MaxRequests \in Nat

VARIABLES
    config,     \* history: version of the configuration the user asked for
    used,       \* history: the version the last payload thread has set up
    caller,     \* where each caller is in restart_thread
    failed,     \* history: callers that got a KeyError
    late,       \* history: did a request meet a restart thread that had done its work?
    restart,    \* the restart thread: where it is, or "none"
    restartArg, \* its argument onlyOnChange
    pay,        \* the payload thread: what it does next, or "none"
    onlyOnChange,
    state,      \* _thread_state
    error,      \* is _error set?
    listening,  \* the listeners that are registered
    heard,      \* history: how often each listener was run since STARTED
    visited,    \* history: the states of this run
    busy        \* which of the awaited threads are running

requests == <<config, caller, failed, late>>
threads == <<restart, restartArg>>
listeners == <<listening, heard>>
vars == <<requests, used, threads, pay, onlyOnChange, state, error, listeners, visited, busy>>

PayPCs == {"none", "begin", "started", "storage", "network", "setup", "verify", "finish",
           "download", "repos", "groups", "ready", "unsetup", "remove", "raised"}

TypeOK ==
    /\ config \in 0..MaxRequests /\ used \in 0..config
    /\ caller \in [Caller -> {"idle", "get", "add"}]
    /\ failed \subseteq Caller /\ late \in BOOLEAN
    /\ restart \in {"none", "wait", "add", "remove"}
    /\ restartArg \in BOOLEAN /\ onlyOnChange \in BOOLEAN
    /\ pay \in PayPCs
    /\ state \in States
    /\ error \in BOOLEAN
    /\ listening \subseteq Listener
    /\ heard \in [Listener -> Nat]
    /\ visited \subseteq States /\ state \in visited
    /\ state = VERIFYING_AVAILABILITY => onlyOnChange
    /\ busy \subseteq Busy

Init ==
    /\ config = 0 /\ used = 0
    /\ caller = [c \in Caller |-> "idle"] /\ failed = {} /\ late = FALSE
    /\ restart = "none" /\ restartArg = FALSE
    /\ pay = "none" /\ onlyOnChange = FALSE
    /\ state = STARTED /\ visited = {STARTED} /\ error = FALSE
    /\ listening = {} /\ heard = [l \in Listener |-> 0]
    /\ busy \in SUBSET Busy

-----------------------------------------------------------------------------
(* restart_thread                                                          *)

\* The user changes the source, the network or the subscription, and the caller
\* asks for a restart.
Request(c) ==
    /\ caller[c] = "idle" /\ config < MaxRequests
    /\ config' = config + 1
    /\ caller' = [caller EXCEPT ![c] = "get"]
    /\ UNCHANGED <<failed, late, used, threads, pay, onlyOnChange, state, error, listeners, visited, busy>>

\* threadMgr.get: with a restart thread the request has no effect.
AnyThread == restart # "none" \/ pay # "none"   \* mutant: nor with a payload thread
RestartPending == restart # "none"

TooLate == late' = (late \/ restart = "remove")

FindRestart(c) ==
    /\ caller[c] = "get"
    /\ caller' = [caller EXCEPT ![c] = IF RestartPending THEN "idle" ELSE "add"]
    /\ TooLate
    /\ UNCHANGED <<config, failed, used, threads, pay, onlyOnChange, state, error, listeners, visited, busy>>

\* threadMgr.add: KeyError if somebody else was faster.
AddRestart(c) ==
    /\ caller[c] = "add"
    /\ caller' = [caller EXCEPT ![c] = "idle"]
    /\ \/ /\ restart = "none"
          /\ restart' = "wait"
          /\ restartArg' \in BOOLEAN
          /\ UNCHANGED failed
       \/ /\ restart # "none"
          /\ failed' = failed \cup {c}
          /\ UNCHANGED threads
    /\ TooLate
    /\ UNCHANGED <<config, used, pay, onlyOnChange, state, error, listeners, visited, busy>>

-----------------------------------------------------------------------------
(* _restart_thread                                                         *)

StartAnyway == TRUE                 \* mutant: the old thread is not awaited
OldPayloadGone == pay = "none"

RestartThread ==
    /\ \/ /\ restart = "wait" /\ OldPayloadGone
          /\ restart' = "add"
          /\ UNCHANGED <<pay, onlyOnChange>>
       \/ /\ restart = "add"
          /\ pay' = "begin"
          /\ onlyOnChange' = restartArg
          /\ restart' = "remove"
       \/ /\ restart = "remove"
          /\ restart' = "none"
          /\ UNCHANGED <<pay, onlyOnChange>>
    /\ UNCHANGED <<requests, used, restartArg, state, error, listeners, visited, busy>>

-----------------------------------------------------------------------------
(* Listeners                                                               *)

Notified(L, counts) == [l \in Listener |-> counts[l] + (IF l \in L THEN 1 ELSE 0)]

AllReached(s) == {l \in listening : EventOf[l] <= s}        \* mutant
ListenersOf(s) == {l \in listening : EventOf[l] = s}

\* _set_state: the listeners of the new state are run.
SetState(s) ==
    /\ state' = s
    /\ heard' = Notified(ListenersOf(s), IF s = STARTED THEN [l \in Listener |-> 0] ELSE heard)
    /\ visited' = IF s = STARTED THEN {s} ELSE visited \cup {s}

NotPassed(l) == EventOf[l] = state                          \* mutant
AlreadyReached(l) ==
    IF EventOf[l] = ERROR THEN state = ERROR ELSE EventOf[l] <= state

AddListener(l) ==
    /\ l \notin listening
    /\ listening' = listening \cup {l}
    /\ heard' = Notified(IF AlreadyReached(l) THEN {l} ELSE {}, heard)
    /\ UNCHANGED <<requests, used, threads, pay, onlyOnChange, state, error, visited, busy>>

-----------------------------------------------------------------------------
(* _run_thread                                                             *)

Goto(from, to) == pay = from /\ pay' = to

KeptError == error                  \* mutant: the error of the last run stays
NoError == FALSE

Begin ==
    /\ Goto("begin", "started")
    /\ error' = NoError
    /\ UNCHANGED <<used, state, heard, visited>>

\* STARTED, WAITING_STORAGE, and WAITING_NETWORK after the storage threads.
Waiting ==
    /\ \/ Goto("started", "storage") /\ SetState(STARTED)
       \/ Goto("storage", "network") /\ SetState(WAITING_STORAGE)
       \/ /\ Goto("network", "setup") /\ SetState(WAITING_NETWORK)
          /\ "storage" \notin busy
    /\ UNCHANGED <<used, error>>

\* payload.setup() after the network; its error may be survived, or raised: then
\* the thread stays in sys.excepthook, which ends the program.
Setup ==
    /\ pay = "setup" /\ "network" \notin busy
    /\ used' = config
    /\ pay' \in IF DnfPayload THEN {"verify", "raised"} ELSE {"finish", "raised"}
    /\ UNCHANGED <<state, error, heard, visited>>

VerifyFirst == onlyOnChange

Verify ==
    /\ \/ /\ VerifyFirst
          /\ \/ Goto("verify", "finish")
             \/ Goto("verify", "download")
          /\ SetState(VERIFYING_AVAILABILITY)
       \/ ~VerifyFirst /\ Goto("verify", "download") /\ UNCHANGED <<state, heard, visited>>
    /\ UNCHANGED <<used, error>>

\* DOWNLOADING_PKG_METADATA, update_base_repo, DOWNLOADING_GROUP_METADATA, is_ready.
Download ==
    /\ \/ Goto("download", "repos") /\ SetState(DOWNLOADING_PKG_METADATA) /\ UNCHANGED error
       \/ Goto("repos", "groups") /\ UNCHANGED <<state, heard, visited, error>>
       \/ Goto("groups", "ready") /\ SetState(DOWNLOADING_GROUP_METADATA) /\ UNCHANGED error
       \/ Goto("ready", "finish") /\ UNCHANGED <<state, heard, visited, error>>
    /\ UNCHANGED used

\* _error is set before the state and its listeners.
ErrorBeforeState == TRUE
AfterError == "unsetup"

Fail ==
    /\ Goto("repos", AfterError) \/ Goto("ready", AfterError)
    /\ error' = ErrorBeforeState
    /\ SetState(ERROR)
    /\ UNCHANGED used

Finish ==
    /\ Goto("finish", "remove") /\ SetState(FINISHED)
    /\ UNCHANGED <<used, error>>

StillRegistered == "remove"         \* mutant: the thread stays in the registry
Unregistered == "none"

End ==
    /\ Goto("unsetup", "remove") \/ Goto("remove", Unregistered)
    /\ UNCHANGED <<used, error, state, heard, visited>>

PayloadThread ==
    /\ Begin \/ Waiting \/ Setup \/ Verify \/ Download \/ Fail \/ Finish \/ End
    /\ UNCHANGED <<requests, threads, onlyOnChange, listening, busy>>

\* The storage, network and subscription threads come and go.
OtherThread ==
    /\ \E t \in Busy : busy' \in {busy \cup {t}, busy \ {t}}
    /\ UNCHANGED <<requests, used, threads, pay, onlyOnChange, state, error, listeners, visited>>

-----------------------------------------------------------------------------

Next ==
    \/ \E c \in Caller : Request(c) \/ FindRestart(c) \/ AddRestart(c)
    \/ RestartThread
    \/ PayloadThread
    \/ \E l \in Listener : AddListener(l)
    \/ OtherThread

Spec == Init /\ [][Next]_vars

\* The threads run; whether the storage and network threads end is left open.
Fairness ==
    /\ \A c \in Caller : WF_vars(FindRestart(c) \/ AddRestart(c))
    /\ WF_vars(RestartThread) /\ WF_vars(PayloadThread)

FairSpec == Spec /\ Fairness

-----------------------------------------------------------------------------
(* Properties                                                              *)

\* The screens see a restart and a run of the payload thread as PayloadRuns says:
\* never two runs at once (restart_thread waits and threadMgr.add finds no other
\* payload thread), the states of a run in their order, one end of each.
pendingRuns ==
    CASE restart = "none" -> "no" [] restart = "remove" -> "started" [] OTHER -> "waiting"

runRuns ==
    CASE pay \in {"none", "begin"} -> pay
      [] pay = "started" -> "begin"
      [] pay = "repos" -> "loading"
      [] pay \in {"groups", "ready"} \/ (pay = "finish" /\ state = 5) -> "loaded"
      [] pay = "unsetup" -> "failed"
      [] pay = "remove" -> "ending"
      [] OTHER -> "started"

phaseRuns == CASE state \in 0..3 -> 0 [] state \in {4, 5} -> 4 [] OTHER -> state

Runs == INSTANCE PayloadRuns WITH pending <- pendingRuns, run <- runRuns, phase <- phaseRuns

RunsImplemented == Runs!RunsSpec

\* "to make sure the listener isn't triggered twice" (add_listener): at most once
\* in a run, whether it is added before, during or after its state.
ListenersHeardOnce == \A l \in Listener : heard[l] <= 1

\* A registered listener has been run if its state was visited in this run, or is
\* passed, no matter how add_listener and the payload thread interleave.
ListenersNotMissed ==
    state # ERROR =>
        \A l \in listening : EventOf[l] \in visited => heard[l] = 1

\* Who is told ERROR finds a message, and nobody finds the message of an earlier
\* run: only between the first two steps of a run is the state still the old one.
ErrorIsExplained == pay # "started" => (state = ERROR <=> error)

\* "Start or restart the payload thread": when nothing is pending any more, the
\* last configuration somebody asked to restart for is the one that was set up.  A
\* request is lost only if it meets a restart thread that is registered although
\* it has started its payload thread.
RequestsHonoured ==
    restart = "none" /\ pay = "none" /\ ~late /\ (\A c \in Caller : caller[c] = "idle") => used = config

\* A restart comes to its end, or to an error that ends the program, when the
\* threads it waits for do.
RestartEnds ==
    <>[](busy = {}) => /\ restart = "wait" ~> pay \in {"begin", "raised"}
                       /\ pay = "begin" ~> pay \in {"none", "raised"}
=============================================================================
