------------------------- MODULE BossStartupProofs -------------------------
(***************************************************************************)
(* What holds of the startup for every set of services, whichever of them  *)
(* are optional or forbidden and however often they vanish from the bus.   *)
(***************************************************************************)
EXTENDS BossStartup, SequenceTheorems, TLAPS

\* The observers that are left out are optional and failed; those that are processed
\* have answered; the manager gets the list of the end.
ModuleInv ==
    /\ task = "find" => /\ broken = {} /\ observers = {} /\ toStart = {} /\ starting = {}
                        /\ queue = <<>> /\ watched = {}
    /\ task # "find" => ModuleNames \ observers \subseteq Optional \cap broken
    /\ task # "failed" => observers \cap broken = {}
    /\ task \in {"process", "succeeded", "done"} => observers \ unprocessed \subseteq pinged
    /\ task # "done" => published = {}
    /\ task = "done" => published = observers
    /\ task \in {"succeeded", "done"} => unprocessed = {}

Queued(o) == \E i \in DOMAIN queue : queue[i].observer = o

\* There is one reply for an observer, and its name is watched only after it: until
\* the reply is processed nothing else comes for the observer.
OneReply ==
    /\ \A o \in toStart \cup starting : ~Queued(o) /\ o \notin watched
    /\ \A i \in DOMAIN queue : queue[i].handler = "started" =>
           /\ queue[i].observer \notin watched
           /\ \A j \in DOMAIN queue : queue[j].observer = queue[i].observer => j = i

Awaited == IF task = "start" THEN observers ELSE unprocessed

WaitInv ==
    /\ task = "process" => toStart = {}
    /\ task \in {"start", "process"} =>
           \A o \in Awaited : o \in toStart \cup starting \/ Queued(o) \/ o \in watched \ seen

-----------------------------------------------------------------------------
(* The type invariant and the modules that are missing.                    *)

LEMMA TypeStep ==
  ASSUME TypeOK, ModuleInv, [Next]_vars
  PROVE  TypeOK'
<1> USE DEF TypeOK
<1>0. /\ ModuleNames \subseteq Service /\ MaxCrashes \in Nat
      /\ \A o \in Service, h \in {"started", "failed", "available"} : On(o, h) \in Callbacks
  BY StartupAssumption DEF ModuleNames, On, Callbacks
<1>1. CASE FindModules
  BY <1>0, <1>1 DEF FindModules, ModuleInv, bus, watches, history
<1>2. CASE StartModules
  BY <1>2 DEF StartModules, bus, watches, history
<1>3. CASE EndProcessing
  BY <1>3 DEF EndProcessing, bus, watches, history
<1>4. CASE ProcessCallback
  <2>1. queue \in Seq(Callbacks) /\ queue # <<>>
    BY <1>4 DEF ProcessCallback
  <2>2. Head(queue) \in Callbacks /\ queue' \in Seq(Callbacks)
    BY <1>4, <2>1, HeadTailProperties DEF ProcessCallback
  <2> DEFINE o == Head(queue).observer
  <2>3. o \in Service /\ UNCHANGED <<toStart, starting, published>>
    BY <1>4, <2>2 DEF ProcessCallback, Callbacks
  <2>4. CASE Head(queue).handler = "failed"
    <3>1. StartFailed(o)
      BY <1>4, <2>4 DEF ProcessCallback
    <3> QED
      BY <2>2, <2>3, <3>1 DEF StartFailed, Processed, bus, watches
  <2>5. CASE Head(queue).handler = "started"
    <3>1. Started(o)
      BY <1>4, <2>5 DEF ProcessCallback
    <3> QED
      BY <2>2, <2>3, <3>1 DEF Started, bus, history
  <2>6. CASE Head(queue).handler = "available"
    <3>1. Available(o) /\ UNCHANGED <<observers, crashes, watches>>
      BY <1>4, <2>6 DEF ProcessCallback
    <3> QED
      BY <2>2, <2>3, <3>1 DEF Available, Processed, watches
  <2> QED
    BY <2>2, <2>4, <2>5, <2>6 DEF Callbacks
<1>5. CASE SetModuleObservers
  BY <1>5 DEF SetModuleObservers, PublishAvailable, bus, watches, history
<1>6. CASE \E o \in Service : MainLoop(o) \/ Crash(o)
  <2>1. PICK o \in Service : MainLoop(o) \/ Crash(o)
    BY <1>6
  <2>2. /\ Append(queue, On(o, "started")) \in Seq(Callbacks)
        /\ Append(queue, On(o, "failed")) \in Seq(Callbacks)
        /\ Append(queue, On(o, "available")) \in Seq(Callbacks)
    BY <1>0, AppendProperties
  <2>3. CASE StartReply(o)
    BY <2>1, <2>2, <2>3 DEF StartReply, watches, history
  <2>4. CASE NameAppeared(o)
    BY <2>1, <2>2, <2>4 DEF NameAppeared, ServiceAvailable, bus, history
  <2>5. CASE NameVanished(o)
    BY <2>1, <2>5 DEF NameVanished, bus, history
  <2>6. CASE Crash(o)
    BY <1>0, <2>1, <2>6 DEF Crash, watches, history
  <2> QED
    BY <2>1, <2>3, <2>4, <2>5, <2>6 DEF MainLoop
<1>7. CASE UNCHANGED vars
  BY <1>7 DEF vars, bus, watches, history
<1> QED
  BY <1>1, <1>2, <1>3, <1>4, <1>5, <1>6, <1>7 DEF Next, Thread

LEMMA ModuleStep ==
  ASSUME TypeOK, ModuleInv, [Next]_vars
  PROVE  ModuleInv'
<1> USE DEF ModuleInv
<1>1. CASE FindModules
  BY <1>1 DEF FindModules, history, watches, ModuleNames
<1>2. CASE StartModules
  BY <1>2 DEF StartModules, history, watches, ModuleNames
<1>3. CASE EndProcessing
  BY <1>3 DEF EndProcessing, history, watches, ModuleNames
<1>4. CASE ProcessCallback
  <2>1. /\ task = "process" /\ queue \in Seq(Callbacks) /\ queue # <<>>
        /\ UNCHANGED <<toStart, starting, published>> /\ ModuleNames' = ModuleNames
    BY <1>4 DEF ProcessCallback, TypeOK, ModuleNames
  <2>2. Head(queue) \in Callbacks
    BY <2>1, HeadTailProperties
  <2> DEFINE o == Head(queue).observer
  <2>3. CASE Head(queue).handler = "failed"
    <3>1. StartFailed(o)
      BY <1>4, <2>3 DEF ProcessCallback
    <3> QED
      BY <2>1, <3>1 DEF StartFailed, IsOptional, Processed
  <2>4. CASE Head(queue).handler = "started"
    <3>1. Started(o)
      BY <1>4, <2>4 DEF ProcessCallback
    <3> QED
      BY <2>1, <3>1 DEF Started, history
  <2>5. CASE Head(queue).handler = "available"
    <3>1. Available(o) /\ UNCHANGED <<observers, crashes, watches>>
      BY <1>4, <2>5 DEF ProcessCallback
    <3> QED
      BY <2>1, <3>1 DEF Available, Processed
  <2> QED
    BY <2>2, <2>3, <2>4, <2>5 DEF Callbacks
<1>5. CASE SetModuleObservers
  BY <1>5 DEF SetModuleObservers, PublishAvailable, history, watches, ModuleNames
<1>6. CASE \E o \in Service : MainLoop(o) \/ Crash(o)
  <2>1. PICK o \in Service : MainLoop(o) \/ Crash(o)
    BY <1>6
  <2>2. UNCHANGED <<task, toStart, observers, unprocessed, watched, published, pinged, broken>>
    BY <2>1 DEF MainLoop, StartReply, NameAppeared, NameVanished, Crash, watches, history
  <2>3. task = "find" => UNCHANGED <<starting, queue>>
    BY <2>1 DEF MainLoop, StartReply, NameAppeared, NameVanished, Crash
  <2> QED
    BY <2>2, <2>3 DEF ModuleNames
<1>7. CASE UNCHANGED vars
  BY <1>7 DEF vars, watches, history, ModuleNames
<1> QED
  BY <1>1, <1>2, <1>3, <1>4, <1>5, <1>6, <1>7 DEF Next, Thread

LEMMA StartupInvariant == Spec => [](TypeOK /\ ModuleInv)
<1>1. Init => TypeOK /\ ModuleInv
  BY StartupAssumption DEF Init, TypeOK, ModuleInv
<1> QED
  BY <1>1, TypeStep, ModuleStep, PTL DEF Spec

\* Type correctness of the startup: the sets of observers are nested and the queue
\* holds callbacks.
THEOREM StartupTypeCorrect == Spec => []TypeOK
  BY StartupInvariant, PTL

\* When the boss goes on, no required module is missing: a module is left out only
\* if it is optional and failed, and all others have answered.
THEOREM NothingIsMissing == Spec => []NothingRequiredMissing
<1>1. ModuleInv => NothingRequiredMissing
  BY DEF ModuleInv, NothingRequiredMissing
<1> QED
  BY <1>1, StartupInvariant, PTL

-----------------------------------------------------------------------------
(* Callbacks.                                                              *)

\* A callback is added for an observer that has no reply in the queue.
LEMMA AddCallback ==
  ASSUME TypeOK, OneReply, WaitInv, NEW o \in Service, NEW h \in {"started", "failed", "available"},
         queue' = Append(queue, On(o, h)), UNCHANGED <<task, toStart, observers, unprocessed, watched>>,
         \/ h \in {"started", "failed"} /\ o \in starting /\ starting' = starting \ {o} /\ seen' = seen
         \/ h = "available" /\ o \in watched /\ starting' = starting /\ seen' = seen \cup {o}
  PROVE  OneReply' /\ WaitInv'
<1>1. /\ queue \in Seq(Callbacks) /\ On(o, h) \in Callbacks
      /\ On(o, h).observer = o /\ On(o, h).handler = h
  BY DEF TypeOK, On, Callbacks
<1> DEFINE last == Len(queue) + 1
<1>2. /\ DOMAIN queue = 1..Len(queue) /\ DOMAIN queue' = 1..last /\ last \in Nat
      /\ \A i \in DOMAIN queue : queue'[i] = queue[i] /\ i # last
      /\ queue'[last] = On(o, h)
  BY <1>1, AppendProperties
<1>3. \A i \in DOMAIN queue' : i = last \/ i \in DOMAIN queue
  BY <1>2
<1> HIDE DEF last
<1>4. last \in DOMAIN queue' /\ \A i \in DOMAIN queue : i \in DOMAIN queue'
  BY <1>2 DEF last
<1>5. \A p : Queued(p)' <=> Queued(p) \/ p = o
  BY <1>1, <1>2, <1>3, <1>4 DEF Queued
<1>6. o \notin toStart' \cup starting'
  BY DEF TypeOK, OneReply
<1>7. \A i \in DOMAIN queue : queue[i].handler = "started" => queue[i].observer # o
  BY DEF OneReply, Queued
<1>8. h = "started" => o \notin watched /\ \A i \in DOMAIN queue : queue[i].observer # o
  BY DEF OneReply, Queued
<1>9. OneReply'
  <2>1. \A p \in toStart' \cup starting' : ~Queued(p)' /\ p \notin watched'
    BY <1>5, <1>6 DEF OneReply
  <2>2. ASSUME NEW i \in DOMAIN queue', queue'[i].handler = "started"
        PROVE  /\ queue'[i].observer \notin watched'
               /\ \A j \in DOMAIN queue' : queue'[j].observer = queue'[i].observer => j = i
    <3>1. CASE i = last
      BY <1>1, <1>2, <1>3, <1>8, <2>2, <3>1
    <3>2. CASE i \in DOMAIN queue
      <4>1. queue[i].handler = "started" /\ queue'[i] = queue[i]
        BY <1>2, <2>2, <3>2
      <4> QED
        BY <1>1, <1>2, <1>3, <1>7, <3>2, <4>1 DEF OneReply
    <3> QED
      BY <1>3, <3>1, <3>2
  <2> QED
    BY <2>1, <2>2 DEF OneReply
<1>10. WaitInv'
  BY <1>5 DEF WaitInv, Awaited
<1> QED
  BY <1>9, <1>10

\* The first callback is taken from the queue: whoever has no other one was processed,
\* or is watched now and has not been seen.
LEMMA TakeCallback ==
  ASSUME TypeOK, OneReply, WaitInv, ProcessCallback
  PROVE  OneReply' /\ WaitInv'
<1>1. /\ task = "process" /\ queue \in Seq(Callbacks) /\ queue # <<>> /\ queue' = Tail(queue)
      /\ UNCHANGED <<toStart, starting>>
  BY DEF ProcessCallback, TypeOK
<1>2. PICK o \in Service : o = Head(queue).observer
  <2>1. Head(queue) \in Callbacks
    BY <1>1, HeadTailProperties
  <2> QED
    BY <2>1 DEF Callbacks
<1>3. /\ Head(queue) = queue[1] /\ queue[1] \in Callbacks /\ 1 \in DOMAIN queue
      /\ \A i \in DOMAIN queue' : i + 1 \in DOMAIN queue /\ queue'[i] = queue[i + 1] /\ i \in Nat /\ i >= 1
      /\ \A i \in DOMAIN queue : i = 1 \/ (i - 1 \in DOMAIN queue' /\ queue'[i - 1] = queue[i] /\ i \in Nat)
  BY <1>1
<1>4. /\ \A p : Queued(p)' => Queued(p)
      /\ \A p : Queued(p) => Queued(p)' \/ p = o
  BY <1>2, <1>3 DEF Queued
<1>5. queue[1].handler = "started" => o \notin watched /\ ~Queued(o)'
  <2> SUFFICES ASSUME queue[1].handler = "started"
               PROVE  o \notin watched /\ ~Queued(o)'
    OBVIOUS
  <2>1. o \notin watched /\ \A j \in DOMAIN queue : queue[j].observer = o => j = 1
    BY <1>2, <1>3 DEF OneReply
  <2>2. ASSUME NEW i \in DOMAIN queue', queue'[i].observer = o
        PROVE  FALSE
    <3>1. i + 1 \in DOMAIN queue /\ queue[i + 1].observer = o /\ i >= 1 /\ i \in Nat
      BY <1>3, <2>2
    <3>2. i + 1 = 1
      BY <2>1, <3>1
    <3> QED
      BY <3>1, <3>2
  <2> QED
    BY <2>1, <2>2 DEF Queued
<1>6. o \notin toStart \cup starting
  BY <1>2, <1>3 DEF OneReply, Queued
<1>7. watched' = watched \/ (queue[1].handler = "started" /\ watched' = watched \cup {o})
  BY <1>2, <1>3 DEF ProcessCallback, StartFailed, Started, Available, watches, Callbacks
<1>8. OneReply'
  <2>1. \A p \in toStart' \cup starting' : ~Queued(p)' /\ p \notin watched'
    BY <1>1, <1>4, <1>6, <1>7 DEF OneReply
  <2>2. ASSUME NEW i \in DOMAIN queue', queue'[i].handler = "started"
        PROVE  /\ queue'[i].observer \notin watched'
               /\ \A j \in DOMAIN queue' : queue'[j].observer = queue'[i].observer => j = i
    <3>1. /\ i + 1 \in DOMAIN queue /\ queue[i + 1] = queue'[i] /\ i \in Nat
          /\ queue[i + 1].handler = "started"
      BY <1>3, <2>2
    <3>2. queue'[i].observer \notin watched
      BY <3>1 DEF OneReply
    <3>3. queue'[i].observer = o => Queued(o)'
      BY DEF Queued
    <3>4. queue'[i].observer \notin watched'
      BY <1>5, <1>7, <3>2, <3>3
    <3>5. ASSUME NEW j \in DOMAIN queue', queue'[j].observer = queue'[i].observer
          PROVE  j = i
      <4>1. j + 1 \in DOMAIN queue /\ queue[j + 1] = queue'[j] /\ j \in Nat
        BY <1>3
      <4>2. j + 1 = i + 1
        BY <3>1, <3>5, <4>1 DEF OneReply
      <4> QED
        BY <3>1, <4>1, <4>2
    <3> QED
      BY <3>4, <3>5
  <2> QED
    BY <2>1, <2>2 DEF OneReply
<1>9. WaitInv'
  <2>1. CASE queue[1].handler = "failed"
    <3>1. StartFailed(o)
      BY <1>2, <1>3, <2>1 DEF ProcessCallback
    <3>2. /\ task' = "failed" \/ (task' = task /\ unprocessed' = unprocessed \ {o})
          /\ watched' = watched /\ seen' = seen
      BY <3>1 DEF StartFailed, Processed, watches
    <3> QED
      BY <1>1, <1>4, <3>2 DEF WaitInv, Awaited
  <2>2. CASE queue[1].handler = "started"
    <3>1. Started(o)
      BY <1>2, <1>3, <2>2 DEF ProcessCallback
    <3>2. UNCHANGED <<task, unprocessed, seen>> /\ watched' = watched \cup {o}
      BY <3>1 DEF Started
    <3>3. o \in watched' \ seen'
      BY <1>5, <2>2, <3>2 DEF TypeOK
    <3> QED
      BY <1>1, <1>4, <3>2, <3>3 DEF WaitInv, Awaited
  <2>3. CASE queue[1].handler = "available"
    <3>1. Available(o) /\ UNCHANGED watches
      BY <1>2, <1>3, <2>3 DEF ProcessCallback
    <3>2. /\ task' = "failed" \/ (task' = task /\ unprocessed' = unprocessed \ {o})
          /\ watched' = watched /\ seen' = seen
      BY <3>1 DEF Available, Processed, watches
    <3> QED
      BY <1>1, <1>4, <3>2 DEF WaitInv, Awaited
  <2> QED
    BY <1>3, <2>1, <2>2, <2>3 DEF Callbacks
<1> QED
  BY <1>8, <1>9

LEMMA WaitStep ==
  ASSUME TypeOK, ModuleInv, OneReply, WaitInv, [Next]_vars
  PROVE  OneReply' /\ WaitInv'
<1>1. CASE FindModules
  BY <1>1 DEF FindModules, ModuleInv, OneReply, WaitInv, Awaited, Queued, watches
<1>2. CASE StartModules
  BY <1>2 DEF StartModules, OneReply, WaitInv, Awaited, Queued, watches
<1>3. CASE EndProcessing \/ SetModuleObservers
  BY <1>3 DEF EndProcessing, SetModuleObservers, OneReply, WaitInv, Awaited, Queued, watches
<1>4. CASE ProcessCallback
  BY <1>4, TakeCallback
<1>5. CASE \E o \in Service : MainLoop(o) \/ Crash(o)
  <2>1. PICK o \in Service : MainLoop(o) \/ Crash(o)
    BY <1>5
  <2>2. CASE StartReply(o)
    BY <2>1, <2>2, AddCallback DEF StartReply, watches
  <2>3. CASE NameAppeared(o)
    BY <2>1, <2>3, AddCallback DEF NameAppeared, ServiceAvailable
  <2>4. CASE NameVanished(o) \/ Crash(o)
    BY <2>4 DEF NameVanished, Crash, OneReply, WaitInv, Awaited, Queued, watches
  <2> QED
    BY <2>1, <2>2, <2>3, <2>4 DEF MainLoop
<1>6. CASE UNCHANGED vars
  BY <1>6 DEF vars, OneReply, WaitInv, Awaited, Queued, watches
<1> QED
  BY <1>1, <1>2, <1>3, <1>4, <1>5, <1>6 DEF Next, Thread

\* No callback is lost: while the task waits for a module, something is on its way
\* that will end the wait, or the service is gone.
THEOREM CallbacksAreNotLost == Spec => []NoCallbackLost
<1>1. Init => OneReply /\ WaitInv
  BY DEF Init, OneReply, WaitInv, Queued
<1>2. TypeOK /\ ModuleInv /\ OneReply /\ WaitInv /\ [Next]_vars => OneReply' /\ WaitInv'
  BY WaitStep
<1>3. WaitInv => NoCallbackLost
  BY DEF WaitInv, Awaited, Queued, NoCallbackLost
<1> QED
  BY <1>1, <1>2, <1>3, StartupInvariant, PTL DEF Spec

=============================================================================
