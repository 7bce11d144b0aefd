--------------------------- MODULE ThreadManager ---------------------------
(***************************************************************************)
(* The thread registry of pyanaconda/threading.py: ThreadManager, the      *)
(* singleton that knows the running threads by name and keeps the          *)
(* exceptions of the non-fatal ones, and AnacondaThread, the thread class  *)
(* that reports its failure and removes itself from the registry.          *)
(*                                                                         *)
(* Every operation is cut where another thread can interleave: at the two  *)
(* locks (_objs_lock, _errors_lock), at join(), and at the lock-free test  *)
(* `name not in self._errors` of raise_if_error.                           *)
(***************************************************************************)
EXTENDS FiniteSets

CONSTANTS
    Thread,     \* AnacondaThread objects, each started at most once
    Name,       \* thread names
    NameOf,     \* the name of each thread object; two objects may share one
    Fatal,      \* the threads created with fatal=True (the default)
    AttrErr,    \* the threads whose failure is an AttributeError
    Main,       \* the main thread
    Caller,     \* the actors that call the manager
    Ops,        \* the operations each of them calls
    None

AllOps == {"add", "get", "wait", "wait_all", "raise_if_error",
           "wait_for_error_threads"}

ASSUME ConstantsAssumption ==
    /\ NameOf \in [Thread -> Name]
    /\ Fatal \subseteq Thread
    /\ AttrErr \subseteq Thread
    /\ Main \notin Thread
    /\ Caller \subseteq Thread \cup {Main}
    /\ Ops \in [Thread \cup {Main} -> SUBSET AllOps]
    /\ None \notin Thread \cup {Main} \cup Name

Actor == Thread \cup {Main}

VARIABLES
    objs,       \* _objs: name -> registered thread or None
    errors,     \* _errors: name -> the thread whose exception is kept, or None
    objsLock,   \* holder of _objs_lock
    errsLock,   \* holder of _errors_lock
    life,       \* how far AnacondaThread.run of each thread has got
    pc,         \* where each actor is in its current call
    op,         \* which operation that is
    nm,         \* its argument `name` (or the loop variable of wait_all)
    obj,        \* the thread object a lookup returned
    todo,       \* names a loop has left
    seen,       \* history: the threads the current call has to wait for
    out,        \* how the last call of each actor ended
    raised      \* history: threads whose exception was re-raised in a caller

callVars == <<pc, op, nm, obj, todo, seen, out>>
locks == <<objsLock, errsLock>>
vars == <<objs, errors, locks, life, callVars, raised>>

Lives == {"new", "adding", "target", "failing", "hook", "failed", "removing",
          "stopping", "dead"}

PCs == {"idle", "add_start", "get", "get_pop", "join", "check", "pop",
        "next", "scan", "scan_pop", "any_errors", "err_next", "err_join"}

Outs == {"none", "ok", "raised", "KeyError", "RuntimeError"}

\* A thread is in the registry from add() until remove().
Registered == {"adding", "target", "failing", "hook", "failed", "removing"}

\* The target has returned or raised, and the thread has left the registry.
Gone == {"stopping", "dead"}

TypeOK ==
    /\ objs \in [Name -> Thread \cup {None}]
    /\ errors \in [Name -> Thread \cup {None}]
    /\ objsLock \in Actor \cup {None}
    /\ errsLock \in Actor \cup {None}
    /\ life \in [Thread -> Lives]
    /\ pc \in [Actor -> PCs]
    /\ op \in [Actor -> AllOps \cup {None}]
    /\ nm \in [Actor -> Name \cup {None}]
    /\ obj \in [Actor -> Thread \cup {None}]
    /\ todo \in [Actor -> SUBSET Name]
    /\ seen \in [Actor -> SUBSET Thread]
    /\ out \in [Actor -> Outs]
    /\ raised \subseteq Thread
    /\ \A a \in Actor :
          /\ pc[a] \in {"add_start", "join", "err_join"} => obj[a] \in Thread
          /\ pc[a] \in {"get", "get_pop", "join", "check", "pop", "scan", "scan_pop"}
                => nm[a] \in Name

Init ==
    /\ objs = [n \in Name |-> None]
    /\ errors = [n \in Name |-> None]
    /\ objsLock = None
    /\ errsLock = None
    /\ life = [t \in Thread |-> "new"]
    /\ pc = [a \in Actor |-> "idle"]
    /\ op = [a \in Actor |-> None]
    /\ nm = [a \in Actor |-> None]
    /\ obj = [a \in Actor |-> None]
    /\ todo = [a \in Actor |-> {}]
    /\ seen = [a \in Actor |-> {}]
    /\ out = [a \in Actor |-> "none"]
    /\ raised = {}

-----------------------------------------------------------------------------
(* Control of a call.                                                      *)

\* A managed thread calls the manager from its target.
CanCall(a) == a \in Caller /\ pc[a] = "idle" /\ (a # Main => life[a] = "target")

Goto(a, l) == pc' = [pc EXCEPT ![a] = l]

\* The call of a ends with the outcome o, its locals are gone.
Return(a, o) ==
    /\ Goto(a, "idle")
    /\ out' = [out EXCEPT ![a] = o]
    /\ op' = [op EXCEPT ![a] = None]
    /\ nm' = [nm EXCEPT ![a] = None]
    /\ obj' = [obj EXCEPT ![a] = None]
    /\ todo' = [todo EXCEPT ![a] = {}]
    /\ seen' = [seen EXCEPT ![a] = {}]

NoLock == TRUE                  \* mutant: get() without _objs_lock
LookupAllowed == objsLock = None

RegisteredNames == {n \in Name : objs[n] # None}
FailedNames == {n \in Name : errors[n] # None}

-----------------------------------------------------------------------------
(* add(obj)                                                                *)

AnyNameFree(n) == TRUE          \* mutant: add() without the check
NameFree(n) == objs[n] = None

\* The name is taken: KeyError, nothing changes.
AddRefused(a, t) ==
    /\ CanCall(a) /\ "add" \in Ops[a]
    /\ life[t] = "new"
    /\ objsLock = None
    /\ ~NameFree(NameOf[t])
    /\ Return(a, "KeyError")
    /\ UNCHANGED <<objs, errors, locks, life, raised>>

\* The name is free: the object is registered, the lock stays held.
AddInsert(a, t) ==
    /\ CanCall(a) /\ "add" \in Ops[a]
    /\ life[t] = "new"
    /\ objsLock = None
    /\ NameFree(NameOf[t])
    /\ objs' = [objs EXCEPT ![NameOf[t]] = t]
    /\ objsLock' = a
    /\ life' = [life EXCEPT ![t] = "adding"]
    /\ Goto(a, "add_start")
    /\ op' = [op EXCEPT ![a] = "add"]
    /\ obj' = [obj EXCEPT ![a] = t]
    /\ UNCHANGED <<errors, errsLock, nm, todo, seen, out, raised>>

\* obj.start(), then the lock is released.
AddStart(a) ==
    /\ pc[a] = "add_start"
    /\ life' = [life EXCEPT ![obj[a]] = "target"]
    /\ objsLock' = None
    /\ Return(a, "ok")
    /\ UNCHANGED <<objs, errors, errsLock, raised>>

-----------------------------------------------------------------------------
(* get(name), wait(name), raise_if_error(name), wait_all()                 *)

Get(a, n) ==
    /\ CanCall(a) /\ "get" \in Ops[a]
    /\ Goto(a, "get")
    /\ op' = [op EXCEPT ![a] = "get"]
    /\ nm' = [nm EXCEPT ![a] = n]
    /\ UNCHANGED <<objs, errors, locks, life, obj, todo, seen, out, raised>>

Wait(a, n) ==
    /\ CanCall(a) /\ "wait" \in Ops[a]
    /\ Goto(a, "get")
    /\ op' = [op EXCEPT ![a] = "wait"]
    /\ nm' = [nm EXCEPT ![a] = n]
    /\ seen' = [seen EXCEPT ![a] = {objs[n]} \ {None}]
    /\ UNCHANGED <<objs, errors, locks, life, obj, todo, out, raised>>

RaiseIfError(a, n) ==
    /\ CanCall(a) /\ "raise_if_error" \in Ops[a]
    /\ Goto(a, "check")
    /\ op' = [op EXCEPT ![a] = "raise_if_error"]
    /\ nm' = [nm EXCEPT ![a] = n]
    /\ UNCHANGED <<objs, errors, locks, life, obj, todo, seen, out, raised>>

\* wait_all takes the names under the lock and then waits for one at a time.
WaitAll(a) ==
    /\ CanCall(a) /\ "wait_all" \in Ops[a]
    /\ objsLock = None
    /\ Goto(a, "next")
    /\ op' = [op EXCEPT ![a] = "wait_all"]
    /\ todo' = [todo EXCEPT ![a] = RegisteredNames]
    /\ seen' = [seen EXCEPT ![a] = {objs[n] : n \in RegisteredNames} \ {a}]
    /\ UNCHANGED <<objs, errors, locks, life, nm, obj, out, raised>>

NextName(a) ==
    /\ pc[a] = "next"
    /\ \/ \E n \in todo[a] :
            /\ nm' = [nm EXCEPT ![a] = n]
            /\ todo' = [todo EXCEPT ![a] = @ \ {n}]
            /\ Goto(a, "scan")
       \/ /\ todo[a] = {}
          /\ Goto(a, "any_errors")
          /\ UNCHANGED <<nm, todo>>
    /\ UNCHANGED <<objs, errors, locks, life, op, obj, seen, out, raised>>

\* The lookup of get(): an error of a registered thread is to be raised, which
\* keeps _objs_lock while it asks for _errors_lock.
GetError(a) ==
    /\ pc[a] \in {"get", "scan"}
    /\ LookupAllowed
    /\ objs[nm[a]] # None
    /\ errors[nm[a]] # None
    /\ objsLock' = a
    /\ Goto(a, IF pc[a] = "get" THEN "get_pop" ELSE "scan_pop")
    /\ UNCHANGED <<objs, errors, errsLock, life, op, nm, obj, todo, seen, out, raised>>

NoErrorToRaise(n) == objs[n] = None \/ errors[n] = None

\* get() returns to its own caller.
GetReturn(a) ==
    /\ pc[a] = "get" /\ op[a] = "get"
    /\ LookupAllowed
    /\ NoErrorToRaise(nm[a])
    /\ Return(a, "ok")
    /\ UNCHANGED <<objs, errors, locks, life, raised>>

\* get() returns to wait(): join the thread, or None.join() is suppressed.
AfterGet(t) == IF t = None THEN "check" ELSE "join"

GetForWait(a) ==
    /\ pc[a] = "get" /\ op[a] # "get"
    /\ LookupAllowed
    /\ NoErrorToRaise(nm[a])
    /\ obj' = [obj EXCEPT ![a] = objs[nm[a]]]
    /\ Goto(a, AfterGet(objs[nm[a]]))
    /\ UNCHANGED <<objs, errors, locks, life, op, nm, todo, seen, out, raised>>

\* get() returns to wait_all(), which skips the current thread.
SkipOthers(a) == objs[nm[a]] # a        \* mutant: the test is negated
SkipSelf(a) == objs[nm[a]] = a

GetForScan(a) ==
    /\ pc[a] = "scan"
    /\ LookupAllowed
    /\ NoErrorToRaise(nm[a])
    /\ Goto(a, IF SkipSelf(a) THEN "next" ELSE "get")
    /\ UNCHANGED <<objs, errors, locks, life, op, nm, obj, todo, seen, out, raised>>

\* Thread.join() refuses the current thread and one that is not started.
JoinRefused(a) == obj[a] = a \/ life[obj[a]] = "adding"

Exited(t) == life[t] = "dead"

Join(a) ==
    /\ pc[a] = "join"
    /\ \/ /\ JoinRefused(a)
          /\ Return(a, "RuntimeError")
       \/ /\ Exited(obj[a])
          /\ Goto(a, "check")
          /\ UNCHANGED <<op, nm, obj, todo, seen, out>>
    /\ UNCHANGED <<objs, errors, locks, life, raised>>

\* raise_if_error: the test is made without the lock.
Check(a) ==
    /\ pc[a] = "check"
    /\ \/ /\ errors[nm[a]] # None
          /\ Goto(a, "pop")
          /\ UNCHANGED <<op, nm, obj, todo, seen, out>>
       \/ /\ errors[nm[a]] = None
          /\ op[a] = "wait_all"
          /\ Goto(a, "next")
          /\ UNCHANGED <<op, nm, obj, todo, seen, out>>
       \/ /\ errors[nm[a]] = None
          /\ op[a] # "wait_all"
          /\ Return(a, "ok")
    /\ UNCHANGED <<objs, errors, locks, life, raised>>

\* wait() suppresses every AttributeError its get() lets through, also the one
\* a thread has failed with.
SwallowsAny(a, t) == pc[a] = "get_pop" /\ op[a] # "get"    \* mutant
Swallows(a, t) == pc[a] = "get_pop" /\ op[a] # "get" /\ t \in AttrErr

Peek(n) == errors                       \* mutant: the error is left in place
Popped(n) == [errors EXCEPT ![n] = None]

KeepLock(a) == objsLock                 \* mutant: an exception keeps the lock
ObjsLockAfter(a) == IF pc[a] = "pop" THEN objsLock ELSE None

\* raise_if_error: the pop under _errors_lock, which finds the error of a
\* thread, or nothing any more (KeyError). A get() also leaves _objs_lock.
Pop(a) ==
    /\ pc[a] \in {"pop", "get_pop", "scan_pop"}
    /\ errsLock = None
    /\ objsLock' = ObjsLockAfter(a)
    /\ errors' = Popped(nm[a])
    /\ \/ /\ errors[nm[a]] = None
          /\ Return(a, "KeyError")
          /\ UNCHANGED raised
       \/ /\ errors[nm[a]] # None
          /\ ~Swallows(a, errors[nm[a]])
          /\ Return(a, "raised")
          /\ raised' = raised \cup {errors[nm[a]]}
       \/ /\ errors[nm[a]] # None
          /\ Swallows(a, errors[nm[a]])
          /\ Goto(a, "check")
          /\ UNCHANGED <<op, nm, obj, todo, seen, out, raised>>
    /\ UNCHANGED <<objs, errsLock, life>>

\* wait_all: the final any_errors.
AnyErrors(a) ==
    /\ pc[a] = "any_errors"
    /\ errsLock = None
    /\ Return(a, IF FailedNames = {} THEN "ok" ELSE "RuntimeError")
    /\ UNCHANGED <<objs, errors, locks, life, raised>>

-----------------------------------------------------------------------------
(* wait_for_error_threads(), which joins while it holds _errors_lock.      *)

ErrWait(a) ==
    /\ CanCall(a) /\ "wait_for_error_threads" \in Ops[a]
    /\ errsLock = None
    /\ errsLock' = a
    /\ Goto(a, "err_next")
    /\ op' = [op EXCEPT ![a] = "wait_for_error_threads"]
    /\ todo' = [todo EXCEPT ![a] = FailedNames]
    /\ seen' = [seen EXCEPT ![a] = {errors[n] : n \in FailedNames}]
    /\ UNCHANGED <<objs, errors, objsLock, life, nm, obj, out, raised>>

\* self._objs[thread_name], without _objs_lock: KeyError if the thread left.
ErrNext(a) ==
    /\ pc[a] = "err_next"
    /\ \/ /\ todo[a] = {}
          /\ errsLock' = None
          /\ Return(a, "ok")
       \/ \E n \in todo[a] :
            /\ objs[n] = None
            /\ errsLock' = None
            /\ Return(a, "KeyError")
       \/ \E n \in todo[a] :
            /\ objs[n] # None
            /\ obj' = [obj EXCEPT ![a] = objs[n]]
            /\ todo' = [todo EXCEPT ![a] = @ \ {n}]
            /\ Goto(a, "err_join")
            /\ UNCHANGED <<errsLock, op, nm, seen, out>>
    /\ UNCHANGED <<objs, errors, objsLock, life, raised>>

ErrJoin(a) ==
    /\ pc[a] = "err_join"
    /\ \/ /\ JoinRefused(a)
          /\ errsLock' = None
          /\ Return(a, "RuntimeError")
       \/ /\ Exited(obj[a])
          /\ Goto(a, "err_next")
          /\ UNCHANGED <<errsLock, op, nm, obj, todo, seen, out>>
    /\ UNCHANGED <<objs, errors, objsLock, life, raised>>

-----------------------------------------------------------------------------
(* AnacondaThread.run                                                      *)

Step(t, from, to) == life[t] = from /\ life' = [life EXCEPT ![t] = to]

\* The started callback and the target return, or one of them raises.
TargetEnds(t) ==
    /\ pc[t] = "idle"
    /\ Step(t, "target", "removing") \/ Step(t, "target", "failing")
    /\ UNCHANGED <<objs, errors, locks, callVars, raised>>

\* A non-fatal failure is kept for the one who waits.
SetError(t) ==
    /\ t \notin Fatal
    /\ Step(t, "failing", "failed")
    /\ errsLock = None
    /\ errors' = [errors EXCEPT ![NameOf[t]] = t]
    /\ UNCHANGED <<objs, locks, callVars, raised>>

\* A fatal failure runs the exception handling in the thread itself.
ExceptHook(t) ==
    /\ t \in Fatal
    /\ Step(t, "failing", "hook")
    /\ UNCHANGED <<objs, errors, locks, callVars, raised>>

HookReturns(t) ==
    /\ Step(t, "hook", "failed")
    /\ UNCHANGED <<objs, errors, locks, callVars, raised>>

RemoveUnderBothLocks == objsLock = None /\ errsLock = None    \* mutant
RemoveAllowed == objsLock = None

\* remove(self.name) in the finally block.
Remove(t) ==
    /\ Step(t, "removing", "stopping")
    /\ RemoveAllowed
    /\ objs' = [objs EXCEPT ![NameOf[t]] = None]
    /\ UNCHANGED <<errors, locks, callVars, raised>>

\* target_failed before, target_stopped after the removal.
Callback(t) ==
    /\ Step(t, "failed", "removing") \/ Step(t, "stopping", "dead")
    /\ UNCHANGED <<objs, errors, locks, callVars, raised>>

-----------------------------------------------------------------------------

CallStep(a) ==
    \/ AddStart(a) \/ NextName(a) \/ GetError(a) \/ GetReturn(a)
    \/ GetForWait(a) \/ GetForScan(a) \/ Join(a) \/ Check(a) \/ Pop(a)
    \/ AnyErrors(a) \/ ErrNext(a) \/ ErrJoin(a)

StartCall(a) ==
    \/ \E t \in Thread : AddRefused(a, t) \/ AddInsert(a, t)
    \/ \E n \in Name : Get(a, n) \/ Wait(a, n) \/ RaiseIfError(a, n)
    \/ WaitAll(a)
    \/ ErrWait(a)

\* What run() does by itself once the target has ended.
EndStep(t) == SetError(t) \/ ExceptHook(t) \/ Remove(t) \/ Callback(t)

Next ==
    \/ \E a \in Actor : StartCall(a) \/ CallStep(a)
    \/ \E t \in Thread : TargetEnds(t) \/ HookReturns(t) \/ EndStep(t)

Spec == Init /\ [][Next]_vars

\* A call and the end of run() go on, and a free lock is handed to everyone who
\* keeps asking for it. Nothing is assumed of targets, of the exception dialog
\* or of new calls.
Fairness ==
    /\ \A a \in Actor : SF_vars(CallStep(a))
    /\ \A t \in Thread : SF_vars(EndStep(t))

FairSpec == Spec /\ Fairness

-----------------------------------------------------------------------------
(* Properties                                                              *)

\* The registry and the threads agree: a thread is the one registered under its
\* name exactly from add() to its own remove(). Hence no two living threads
\* share a name, and remove() always pops the thread that calls it.
RegistryExact ==
    \A t \in Thread : (life[t] \in Registered) <=> (objs[NameOf[t]] = t)

\* "callers can't get & join threads that are not yet started" (add, get).
NoJoinBeforeStart ==
    \A a \in Actor : pc[a] = "join" => life[obj[a]] \notin {"new", "adding"}

\* An exception that was re-raised in a caller is not kept, so nobody can raise
\* it a second time.
RaisedOnce == \A n \in Name : errors[n] \notin raised

Returns(a, o) == pc[a] # "idle" /\ pc'[a] = "idle" /\ out'[a] = o

\* wait(name) and wait_all() return normally only after the target of every
\* thread that was registered at the call has ended and the thread has left
\* the registry, whatever was started, renamed or failed in between.
WaitedForTargets ==
    [][\A a \in Actor : op[a] \in {"wait", "wait_all"} /\ Returns(a, "ok") =>
          \A t \in seen[a] : life[t] \in Gone]_vars

\* A kept exception leaves _errors only by being raised in a caller, "if the thread
\* exited with an error re-raise it here" (wait): true of threads with names of
\* their own whose exception is no AttributeError, which wait() drops.
ErrorsReachACaller ==
    [][\A n \in Name : errors[n] # None /\ errors'[n] # errors[n] =>
          errors[n] \in raised']_vars

\* Whom an actor waits for: the holder of a lock, or the thread it joins.
NeedsObjsLock(a) ==
    pc[a] \in {"get", "scan"} \/ (a \in Thread /\ life[a] = "removing")
NeedsErrsLock(a) ==
    \/ pc[a] \in {"pop", "get_pop", "scan_pop", "any_errors"}
    \/ a \in Thread \ Fatal /\ life[a] = "failing"
WaitsFor(a) ==
    (   (IF NeedsObjsLock(a) THEN {objsLock} ELSE {})
    \cup (IF NeedsErrsLock(a) THEN {errsLock} ELSE {})
    \cup (IF pc[a] \in {"join", "err_join"} THEN {obj[a]} ELSE {})) \ {None}

\* No holder of a lock of the manager waits in a circle. (Targets that join each
\* other hold no lock and are not the manager's fault.)
NoCircularWait ==
    \A S \in SUBSET Actor :
        S \cap {objsLock, errsLock} # {} => \E a \in S : WaitsFor(a) \cap S = {}

\* Once its target has ended (and the exception dialog, if it comes to that),
\* a thread reaches the end of run() in spite of everyone who holds the locks.
EndedThreadsDie ==
    \A t \in Thread : life[t] \in {"failed", "removing", "stopping"} ~> life[t] = "dead"

\* When no target and no dialog runs any more, no call stays blocked: a waiter
\* always notices that the thread has gone.
QuietCallsReturn ==
    <>[](\A t \in Thread : life[t] \notin {"target", "hook"})
        => \A a \in Actor : []<>(pc[a] = "idle")
=============================================================================
