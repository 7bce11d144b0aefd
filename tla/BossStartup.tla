---------------------------- MODULE BossStartup ----------------------------
(***************************************************************************)
(* modules/boss/module_manager: the boss starts the D-Bus modules.         *)
(* StartModulesTask runs in a thread of its own; replies to the            *)
(* asynchronous StartServiceByName calls and name changes of the services  *)
(* arrive in the main loop, which queues callbacks for the thread.  The    *)
(* message bus and the observers' name watches (dasbus) are external.      *)
(***************************************************************************)
EXTENDS Integers, Sequences, FiniteSets

CONSTANTS
    Service,        \* the names the bus can activate
    Activatable,    \* those that match activatable_modules
    Forbidden,      \* ... forbidden_modules
    Optional,       \* ... optional_modules
    MaxCrashes      \* bound: how often services vanish from the bus

ASSUME StartupAssumption ==
    /\ IsFiniteSet(Service)
    /\ Activatable \subseteq Service /\ Forbidden \subseteq Service /\ Optional \subseteq Service
    /\ MaxCrashes \in Nat

VARIABLES
    task,           \* what the thread of the task does
    toStart,        \* observers whose service is not yet asked to start
    starting,       \* StartServiceByName calls without a reply
    queue,          \* _callbacks
    observers,      \* the list of available observers
    unprocessed,    \* observers without a final callback
    running,        \* services that own their name on the bus
    watched,        \* observers connected to the name of their service
    seen,           \* observers whose _is_service_available is set
    published,      \* ModuleManager.module_observers, and its two copies
    pinged,         \* history: observers that have answered a Ping
    broken,         \* history: services that failed to start or to answer
    crashes

bus == <<running, crashes>>
watches == <<watched, seen>>
history == <<pinged, broken>>
vars == <<task, toStart, starting, queue, observers, unprocessed, bus, watches, published, history>>

Callbacks == [observer : Service, handler : {"started", "failed", "available"}]
On(o, h) == [observer |-> o, handler |-> h]

TypeOK ==
    /\ task \in {"find", "start", "process", "succeeded", "failed", "done"}
    /\ toStart \subseteq Service /\ starting \subseteq Service /\ toStart \cap starting = {}
    /\ queue \in Seq(Callbacks)
    /\ observers \subseteq Service /\ unprocessed \subseteq observers
    /\ running \subseteq Service /\ watched \subseteq Service /\ seen \subseteq watched
    /\ published \subseteq Service /\ pinged \subseteq Service /\ broken \subseteq Service
    /\ crashes \in 0..MaxCrashes

Init ==
    /\ task = "find"
    /\ toStart = {} /\ starting = {} /\ queue = <<>> /\ observers = {} /\ unprocessed = {}
    /\ running \in SUBSET Service
    /\ watched = {} /\ seen = {} /\ published = {} /\ pinged = {} /\ broken = {} /\ crashes = 0

-----------------------------------------------------------------------------
(* The thread of the task                                                  *)

ModuleNames == Activatable \ Forbidden

FindModules ==
    /\ task = "find" /\ task' = "start"
    /\ toStart' = ModuleNames /\ observers' = ModuleNames
    /\ UNCHANGED <<starting, queue, unprocessed, bus, watches, published, history>>

\* _start_modules does not wait for the replies.
StartModules ==
    /\ task = "start"
    /\ \/ \E o \in toStart :
              /\ toStart' = toStart \ {o} /\ starting' = starting \cup {o}
              /\ UNCHANGED <<task, unprocessed>>
       \/ /\ toStart = {}
          /\ task' = "process" /\ unprocessed' = observers
          /\ UNCHANGED <<toStart, starting>>
    /\ UNCHANGED <<queue, observers, bus, watches, published, history>>

EndProcessing ==
    /\ task = "process" /\ unprocessed = {} /\ task' = "succeeded"
    /\ UNCHANGED <<toStart, starting, queue, observers, unprocessed, bus, watches, published, history>>

NeverFatal(o) == TRUE                       \* mutant: required modules may fail, too
IsOptional(o) == o \in Optional

KeepUnprocessed(o) == unprocessed           \* mutant: the failed module is awaited forever
Processed(o) == unprocessed \ {o}

\* UnavailableModuleError of the handler of a failed start.
StartFailed(o) ==
    /\ broken' = broken \cup {o}
    /\ IF IsOptional(o)
       THEN /\ observers' = observers \ {o} /\ unprocessed' = Processed(o)
            /\ UNCHANGED task
       ELSE task' = "failed" /\ UNCHANGED <<observers, unprocessed>>
    /\ UNCHANGED <<bus, watches, pinged>>

\* The observer starts to watch the name, which may own its name already or no more.
Started(o) ==
    /\ watched' = watched \cup {o}
    /\ UNCHANGED <<task, observers, unprocessed, bus, seen, history>>

\* A Ping activates a service that has vanished unnoticed.  The observer of one
\* that is known to have vanished has no proxy: DBusObserverError.
Available(o) ==
    \/ /\ o \in seen
       /\ pinged' = pinged \cup {o} /\ unprocessed' = Processed(o)
       /\ running' = running \cup {o}
       /\ UNCHANGED <<task, broken>>
    \/ /\ broken' = broken \cup {o}
       /\ task' = "failed"
       /\ UNCHANGED <<unprocessed, pinged, running>>

ProcessCallback ==
    /\ task = "process" /\ unprocessed # {} /\ queue # <<>>
    /\ queue' = Tail(queue)
    /\ LET o == Head(queue).observer
       IN  CASE Head(queue).handler = "failed" -> StartFailed(o)
             [] Head(queue).handler = "started" -> Started(o)
             [] Head(queue).handler = "available" ->
                    Available(o) /\ UNCHANGED <<observers, crashes, watches>>
    /\ UNCHANGED <<toStart, starting, published>>

-----------------------------------------------------------------------------
(* The main loop                                                           *)

\* The reply to StartServiceByName, a failure or the timeout of the bus.
StartReply(o) ==
    /\ o \in starting
    /\ starting' = starting \ {o}
    /\ \/ running' = running \cup {o} /\ queue' = Append(queue, On(o, "started"))
       \/ o \notin running /\ queue' = Append(queue, On(o, "failed")) /\ UNCHANGED running
    /\ UNCHANGED <<task, toStart, observers, unprocessed, crashes, watches, published, history>>

SignalMissed(o) == queue            \* mutant: the signal is connected too late
ServiceAvailable(o) == Append(queue, On(o, "available"))

NameAppeared(o) ==
    /\ o \in (watched \cap running) \ seen
    /\ seen' = seen \cup {o}
    /\ queue' = ServiceAvailable(o)
    /\ UNCHANGED <<task, toStart, starting, observers, unprocessed, bus, watched, published, history>>

NameVanished(o) ==
    /\ o \in seen \ running
    /\ seen' = seen \ {o}
    /\ UNCHANGED <<task, toStart, starting, queue, observers, unprocessed, bus, watched, published, history>>

\* The handler of the task's Succeeded signal; without it nothing is published.
PublishAvailable == observers

SetModuleObservers ==
    /\ task = "succeeded" /\ task' = "done"
    /\ published' = PublishAvailable
    /\ UNCHANGED <<toStart, starting, queue, observers, unprocessed, bus, watches, history>>

-----------------------------------------------------------------------------

\* A service ends or crashes.
Crash(o) ==
    /\ o \in running /\ crashes < MaxCrashes
    /\ running' = running \ {o} /\ crashes' = crashes + 1
    /\ UNCHANGED <<task, toStart, starting, queue, observers, unprocessed, watches, published, history>>

Thread == FindModules \/ StartModules \/ EndProcessing \/ ProcessCallback

MainLoop(o) == StartReply(o) \/ NameAppeared(o) \/ NameVanished(o)

Next ==
    \/ Thread
    \/ SetModuleObservers
    \/ \E o \in Service : MainLoop(o) \/ Crash(o)

Spec == Init /\ [][Next]_vars

\* The thread and the main loop run; the bus answers or times out.
Fairness ==
    /\ WF_vars(Thread) /\ WF_vars(SetModuleObservers)
    /\ \A o \in Service : WF_vars(StartReply(o)) /\ WF_vars(NameAppeared(o) \/ NameVanished(o))

FairSpec == Spec /\ Fairness

-----------------------------------------------------------------------------
(* Properties                                                              *)

\* "The failure of a required module is fatal": when the boss goes on, nothing
\* but an optional module that failed to start is missing, and the modules that
\* the kickstart, the locale and the installation tasks go to have answered.
NothingRequiredMissing ==
    /\ published \subseteq pinged
    /\ task = "done" => /\ ModuleNames \ published \subseteq Optional \cap broken
                        /\ published \cap broken = {}

\* The watch of a name and the callback queue lose nothing: a module the task
\* still waits for is being started, has a callback in the queue, or is gone.
NoCallbackLost ==
    \A o \in unprocessed :
        \/ task # "process"
        \/ o \in starting
        \/ \E i \in DOMAIN queue : queue[i].observer = o
        \/ o \in watched \ seen

\* The startup comes to its end if no service vanishes once it was started.
StartupEnds == [](crashes = 0) => <>(task \in {"done", "failed"})
=============================================================================
