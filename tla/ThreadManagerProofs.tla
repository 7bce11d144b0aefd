------------------------ MODULE ThreadManagerProofs ------------------------
(***************************************************************************)
(* What holds of the thread registry for every set of threads, names and   *)
(* callers.  The invariants of the runs are not inductive: a lookup must   *)
(* know that a registered thread under a free _objs_lock is started        *)
(* (LockInv), that the registry files a thread under its own name          *)
(* (NameInv), and who can be in _errors (ErrorInv).                        *)
(***************************************************************************)
EXTENDS ThreadManager, TLAPS

\* The registry files every thread under its own name.
NameInv == \A n \in Name : objs[n] # None => NameOf[objs[n]] = n

\* _objs_lock is held exactly in the sections that the code guards with it, and
\* only the holder can have a registered thread that is not started.
Holding == {"add_start", "get_pop", "scan_pop"}

LockInv ==
    /\ \A a \in Actor : pc[a] \in Holding <=> objsLock = a
    /\ \A a \in Actor : pc[a] = "add_start" => life[obj[a]] = "adding"
    /\ \A t \in Thread : life[t] = "adding" =>
          objsLock # None /\ pc[objsLock] = "add_start" /\ obj[objsLock] = t

\* A kept or raised exception belongs to a thread that is past set_error, and
\* is kept under the name of that thread.
PastSetError == {"failed", "removing", "stopping", "dead"}

ErrorInv ==
    /\ \A n \in Name : errors[n] # None =>
          NameOf[errors[n]] = n /\ life[errors[n]] \in PastSetError
    /\ \A t \in raised : life[t] \in PastSetError

-----------------------------------------------------------------------------

LEMMA TypeInit == Init => TypeOK
  BY ConstantsAssumption DEF Init, TypeOK, Actor, Lives, PCs, Outs

\* The types of what a call keeps for itself, the registry left aside.
CallTypeOK ==
    /\ pc \in [Actor -> PCs]
    /\ op \in [Actor -> AllOps \cup {None}]
    /\ nm \in [Actor -> Name \cup {None}]
    /\ obj \in [Actor -> Thread \cup {None}]
    /\ todo \in [Actor -> SUBSET Name]
    /\ seen \in [Actor -> SUBSET Thread]
    /\ out \in [Actor -> Outs]
    /\ \A a \in Actor :
          /\ pc[a] \in {"add_start", "join", "err_join"} => obj[a] \in Thread
          /\ pc[a] \in {"get", "get_pop", "join", "check", "pop", "scan", "scan_pop"}
                => nm[a] \in Name

\* A call that returns leaves its locals well-typed.
LEMMA ReturnTyped ==
  ASSUME CallTypeOK, NEW a \in Actor, NEW o \in Outs, Return(a, o)
  PROVE  CallTypeOK'
<1>1. "idle" \in PCs
  BY DEF PCs
<1>2. /\ pc' \in [Actor -> PCs]
      /\ \A b \in Actor : pc'[b] = IF b = a THEN "idle" ELSE pc[b]
  BY <1>1 DEF CallTypeOK, Return, Goto
<1>3. /\ op' \in [Actor -> AllOps \cup {None}]
      /\ out' \in [Actor -> Outs]
  BY DEF CallTypeOK, Return
<1>4. /\ nm' \in [Actor -> Name \cup {None}]
      /\ obj' \in [Actor -> Thread \cup {None}]
      /\ \A b \in Actor : b # a => nm'[b] = nm[b] /\ obj'[b] = obj[b]
  BY DEF CallTypeOK, Return
<1>5. /\ todo' \in [Actor -> SUBSET Name]
      /\ seen' \in [Actor -> SUBSET Thread]
  BY DEF CallTypeOK, Return
<1> QED
  BY <1>2, <1>3, <1>4, <1>5 DEF CallTypeOK

\* A call that goes on to another place needs there the name it is about, or the
\* thread it joins.
NeedsThread == {"add_start", "join", "err_join"}
NeedsName == {"get", "get_pop", "join", "check", "pop", "scan", "scan_pop"}

LEMMA GotoTyped ==
  ASSUME CallTypeOK, NEW a \in Actor, NEW l \in PCs, Goto(a, l),
         l \in NeedsThread => obj[a] \in Thread,
         l \in NeedsName => nm[a] \in Name,
         UNCHANGED <<op, nm, obj, todo, seen, out>>
  PROVE  CallTypeOK'
<1>1. /\ pc' \in [Actor -> PCs]
      /\ \A b \in Actor : pc'[b] = IF b = a THEN l ELSE pc[b]
  BY DEF CallTypeOK, Goto
<1> QED
  BY <1>1 DEF CallTypeOK, NeedsThread, NeedsName

\* The types of the registry itself.
RegistryTypeOK ==
    /\ objs \in [Name -> Thread \cup {None}]
    /\ errors \in [Name -> Thread \cup {None}]
    /\ objsLock \in Actor \cup {None}
    /\ errsLock \in Actor \cup {None}
    /\ life \in [Thread -> Lives]
    /\ raised \subseteq Thread

LEMMA TypeParts == TypeOK <=> RegistryTypeOK /\ CallTypeOK
  BY DEF TypeOK, RegistryTypeOK, CallTypeOK

LEMMA TypePartsNext == RegistryTypeOK' /\ CallTypeOK' => TypeOK'
  BY DEF TypeOK, RegistryTypeOK, CallTypeOK

LEMMA JoinTyped ==
  ASSUME TypeOK, NEW a \in Actor, Join(a)
  PROVE  TypeOK'
<1>1. RegistryTypeOK /\ CallTypeOK
  BY TypeParts
<1>2. RegistryTypeOK'
  BY <1>1 DEF Join, RegistryTypeOK, locks
<1>3. "RuntimeError" \in Outs
  BY DEF Outs
<1>4. nm[a] \in Name
  BY <1>1 DEF Join, CallTypeOK
<1>5. CASE Return(a, "RuntimeError")
  BY <1>1, <1>3, <1>5, ReturnTyped, <1>2, TypePartsNext
<1>6. CASE Goto(a, "check") /\ UNCHANGED <<op, nm, obj, todo, seen, out>>
  <2>1. "check" \in PCs /\ "check" \notin NeedsThread
    BY DEF PCs, NeedsThread
  <2> QED
    BY <1>1, <1>2, <1>4, <1>6, <2>1, GotoTyped, TypePartsNext
<1> QED
  BY <1>5, <1>6 DEF Join

LEMMA PopTyped ==
  ASSUME TypeOK, NEW a \in Actor, Pop(a)
  PROVE  TypeOK'
<1>1. RegistryTypeOK /\ CallTypeOK
  BY TypeParts
<1>2. nm[a] \in Name
  BY <1>1 DEF Pop, CallTypeOK
<1>3. errors' \in [Name -> Thread \cup {None}]
  BY <1>1 DEF Pop, Popped, RegistryTypeOK
<1>4. errors[nm[a]] # None => errors[nm[a]] \in Thread
  BY <1>1, <1>2 DEF RegistryTypeOK
<1>5. raised' \subseteq Thread
  BY <1>1, <1>4 DEF Pop, RegistryTypeOK
<1>6. objs' = objs /\ errsLock' = errsLock /\ life' = life /\ objsLock' \in Actor \cup {None}
  BY <1>1 DEF Pop, ObjsLockAfter, RegistryTypeOK
<1>7. RegistryTypeOK'
  BY <1>1, <1>3, <1>5, <1>6 DEF RegistryTypeOK
<1>8. "KeyError" \in Outs /\ "raised" \in Outs
  BY DEF Outs
<1>9. \/ Return(a, "KeyError") \/ Return(a, "raised")
      \/ Goto(a, "check") /\ UNCHANGED <<op, nm, obj, todo, seen, out>>
  BY DEF Pop
<1>10. CASE Return(a, "KeyError") \/ Return(a, "raised")
  BY <1>1, <1>7, <1>8, <1>10, ReturnTyped, TypePartsNext
<1>11. CASE Goto(a, "check") /\ UNCHANGED <<op, nm, obj, todo, seen, out>>
  <2>1. "check" \in PCs /\ "check" \notin NeedsThread
    BY DEF PCs, NeedsThread
  <2> QED
    BY <1>1, <1>2, <1>7, <1>11, <2>1, GotoTyped, TypePartsNext
<1> QED
  BY <1>9, <1>10, <1>11

LEMMA CheckTyped ==
  ASSUME TypeOK, NEW a \in Actor, Check(a)
  PROVE  TypeOK'
<1>1. RegistryTypeOK /\ CallTypeOK
  BY TypeParts
<1>2. RegistryTypeOK'
  BY <1>1 DEF Check, RegistryTypeOK, locks
<1>3. nm[a] \in Name
  BY <1>1 DEF Check, CallTypeOK
<1>4. "ok" \in Outs /\ "pop" \in PCs /\ "next" \in PCs
  BY DEF Outs, PCs
<1>5. "pop" \notin NeedsThread /\ "next" \notin NeedsThread
  BY DEF NeedsThread
<1>6. CASE Return(a, "ok")
  BY <1>1, <1>2, <1>4, <1>6, ReturnTyped, TypePartsNext
<1>7. CASE Goto(a, "pop") /\ UNCHANGED <<op, nm, obj, todo, seen, out>>
  BY <1>1, <1>2, <1>3, <1>4, <1>5, <1>7, GotoTyped, TypePartsNext
<1>8. CASE Goto(a, "next") /\ UNCHANGED <<op, nm, obj, todo, seen, out>>
  BY <1>1, <1>2, <1>3, <1>4, <1>5, <1>8, GotoTyped, TypePartsNext
<1> QED
  BY <1>6, <1>7, <1>8 DEF Check

LEMMA ErrNextTyped ==
  ASSUME TypeOK, NEW a \in Actor, ErrNext(a)
  PROVE  TypeOK'
<1>1. RegistryTypeOK /\ CallTypeOK
  BY TypeParts
<1>2. RegistryTypeOK'
  BY <1>1 DEF ErrNext, RegistryTypeOK
<1>3. "ok" \in Outs /\ "KeyError" \in Outs
  BY DEF Outs
<1>4. CASE Return(a, "ok") \/ Return(a, "KeyError")
  BY <1>1, <1>2, <1>3, <1>4, ReturnTyped, TypePartsNext
<1>5. ASSUME NEW n \in todo[a], objs[n] # None,
             obj' = [obj EXCEPT ![a] = objs[n]],
             todo' = [todo EXCEPT ![a] = @ \ {n}],
             Goto(a, "err_join"), UNCHANGED <<op, nm, seen, out>>
      PROVE  TypeOK'
  <2>1. objs[n] \in Thread
    BY <1>1, <1>5 DEF RegistryTypeOK, CallTypeOK
  <2>2. /\ pc' \in [Actor -> PCs]
        /\ \A b \in Actor : pc'[b] = IF b = a THEN "err_join" ELSE pc[b]
    BY <1>1, <1>5 DEF CallTypeOK, Goto, PCs
  <2>3. /\ obj' \in [Actor -> Thread \cup {None}]
        /\ \A b \in Actor : obj'[b] = IF b = a THEN objs[n] ELSE obj[b]
    BY <1>1, <1>5, <2>1 DEF CallTypeOK
  <2>4. todo' \in [Actor -> SUBSET Name]
    BY <1>1, <1>5 DEF CallTypeOK
  <2>5. CallTypeOK'
    BY <1>1, <1>5, <2>1, <2>2, <2>3, <2>4 DEF CallTypeOK
  <2> QED
    BY <1>2, <2>5, TypePartsNext
<1> QED
  BY <1>4, <1>5 DEF ErrNext

LEMMA ErrJoinTyped ==
  ASSUME TypeOK, NEW a \in Actor, ErrJoin(a)
  PROVE  TypeOK'
<1>1. RegistryTypeOK /\ CallTypeOK
  BY TypeParts
<1>2. RegistryTypeOK'
  BY <1>1 DEF ErrJoin, RegistryTypeOK
<1>3. "RuntimeError" \in Outs /\ "err_next" \in PCs
  BY DEF Outs, PCs
<1>4. "err_next" \notin NeedsThread /\ "err_next" \notin NeedsName
  BY DEF NeedsThread, NeedsName
<1>5. CASE Return(a, "RuntimeError")
  BY <1>1, <1>2, <1>3, <1>5, ReturnTyped, TypePartsNext
<1>6. CASE Goto(a, "err_next") /\ UNCHANGED <<op, nm, obj, todo, seen, out>>
  BY <1>1, <1>2, <1>3, <1>4, <1>6, GotoTyped, TypePartsNext
<1> QED
  BY <1>5, <1>6 DEF ErrJoin

LEMMA TypeStep == TypeOK /\ [Next]_vars => TypeOK'
<1> SUFFICES ASSUME TypeOK, [Next]_vars PROVE TypeOK'
  OBVIOUS
<1> USE ConstantsAssumption DEF TypeOK, Actor, Lives, PCs, Outs, AllOps, Return, Goto, locks, callVars
<1>1. ASSUME NEW a \in Actor, NEW t \in Thread, AddRefused(a, t) \/ AddInsert(a, t)
      PROVE  TypeOK'
  <2>1. CASE AddRefused(a, t)
    BY <2>1 DEF AddRefused
  <2>2. CASE AddInsert(a, t)
    BY <2>2 DEF AddInsert
  <2> QED
    BY <1>1, <2>1, <2>2
<1>2. ASSUME NEW a \in Actor, NEW n \in Name,
             Get(a, n) \/ Wait(a, n) \/ RaiseIfError(a, n)
      PROVE  TypeOK'
  BY <1>2 DEF Get, Wait, RaiseIfError
<1>3. ASSUME NEW a \in Actor, WaitAll(a) \/ ErrWait(a)
      PROVE  TypeOK'
  <2>1. CASE WaitAll(a)
    BY <2>1 DEF WaitAll, RegisteredNames
  <2>2. CASE ErrWait(a)
    BY <2>2 DEF ErrWait, FailedNames
  <2> QED
    BY <1>3, <2>1, <2>2
<1>4. ASSUME NEW a \in Actor, CallStep(a)
      PROVE  TypeOK'
  <2>1. CASE AddStart(a)
    BY <2>1 DEF AddStart
  <2>2. CASE NextName(a)
    BY <2>2 DEF NextName
  <2>3. CASE GetError(a)
    BY <2>3 DEF GetError
  <2>4. CASE GetReturn(a)
    BY <2>4 DEF GetReturn
  <2>5. CASE GetForWait(a)
    BY <2>5 DEF GetForWait, AfterGet
  <2>6. CASE GetForScan(a)
    BY <2>6 DEF GetForScan
  <2>7. CASE Join(a)
    BY <2>7, JoinTyped
  <2>8. CASE Check(a)
    BY <2>8, CheckTyped
  <2>9. CASE Pop(a)
    BY <2>9, PopTyped
  <2>10. CASE AnyErrors(a)
    BY <2>10 DEF AnyErrors
  <2>11. CASE ErrNext(a)
    BY <2>11, ErrNextTyped
  <2>12. CASE ErrJoin(a)
    BY <2>12, ErrJoinTyped
  <2> QED
    BY <1>4, <2>1, <2>2, <2>3, <2>4, <2>5, <2>6, <2>7, <2>8, <2>9, <2>10, <2>11, <2>12
       DEF CallStep
<1>5. ASSUME NEW t \in Thread, TargetEnds(t) \/ HookReturns(t) \/ EndStep(t)
      PROVE  TypeOK'
  BY <1>5 DEF TargetEnds, HookReturns, EndStep, SetError, ExceptHook, Remove, Callback, Step
<1>6. CASE UNCHANGED vars
  BY <1>6 DEF vars
<1> QED
  BY <1>1, <1>2, <1>3, <1>4, <1>5, <1>6 DEF Next, StartCall

\* TypeOK holds in every state of every instance of the registry.
THEOREM TypeCorrect == Spec => []TypeOK
<1> QED
  BY TypeInit, TypeStep, PTL DEF Spec
-----------------------------------------------------------------------------

LEMMA RegistryStep ==
  ASSUME TypeOK, NameInv, RegistryExact, LockInv, [Next]_vars
  PROVE  NameInv' /\ RegistryExact'
<1> USE ConstantsAssumption DEF TypeOK, Actor, Lives, NameInv, RegistryExact, Registered
<1>1. ASSUME NEW a \in Actor, NEW t \in Thread, AddRefused(a, t) \/ AddInsert(a, t)
      PROVE  NameInv' /\ RegistryExact'
  <2>1. CASE AddRefused(a, t)
    BY <2>1 DEF AddRefused
  <2>2. CASE AddInsert(a, t)
    BY <2>2 DEF AddInsert, NameFree
  <2> QED
    BY <1>1, <2>1, <2>2
<1>2. ASSUME NEW a \in Actor, AddStart(a)
      PROVE  NameInv' /\ RegistryExact'
  BY <1>2 DEF AddStart, LockInv
<1>3. ASSUME NEW t \in Thread, TargetEnds(t) \/ HookReturns(t) \/ EndStep(t)
      PROVE  NameInv' /\ RegistryExact'
  <2>1. CASE Remove(t)
    BY <2>1 DEF Remove, Step
  <2>2. CASE ~Remove(t)
    BY <1>3, <2>2 DEF TargetEnds, HookReturns, EndStep, SetError, ExceptHook, Callback, Step
  <2> QED
    BY <2>1, <2>2
<1>4. CASE UNCHANGED <<objs, life>>
  BY <1>4
<1>5. ASSUME NEW a \in Actor, CallStep(a), ~AddStart(a)
      PROVE  UNCHANGED <<objs, life>>
  BY <1>5 DEF CallStep, NextName, GetError, GetReturn, GetForWait, GetForScan, Join,
       Check, Pop, AnyErrors, ErrNext, ErrJoin
<1>6. ASSUME NEW a \in Actor, StartCall(a),
             ~ \E t \in Thread : AddRefused(a, t) \/ AddInsert(a, t)
      PROVE  UNCHANGED <<objs, life>>
  BY <1>6 DEF StartCall, Get, Wait, RaiseIfError, WaitAll, ErrWait
<1> QED
  BY <1>1, <1>2, <1>3, <1>4, <1>5, <1>6 DEF Next, vars

LEMMA LockStep ==
  ASSUME TypeOK, NameInv, RegistryExact, LockInv, NoJoinBeforeStart, [Next]_vars
  PROVE  LockInv' /\ NoJoinBeforeStart'
<1> USE ConstantsAssumption DEF TypeOK, Actor, Lives, PCs, LockInv, Holding,
        NoJoinBeforeStart, Goto, Return, locks, callVars
<1>1. ASSUME NEW a \in Actor, NEW t \in Thread, AddRefused(a, t) \/ AddInsert(a, t)
      PROVE  LockInv' /\ NoJoinBeforeStart'
  <2>1. CASE AddRefused(a, t)
    BY <2>1 DEF AddRefused, CanCall
  <2>2. CASE AddInsert(a, t)
    BY <2>2 DEF AddInsert, CanCall
  <2> QED
    BY <1>1, <2>1, <2>2
<1>2. ASSUME NEW a \in Actor, NEW n \in Name,
             Get(a, n) \/ Wait(a, n) \/ RaiseIfError(a, n)
      PROVE  LockInv' /\ NoJoinBeforeStart'
  BY <1>2 DEF Get, Wait, RaiseIfError, CanCall
<1>3. ASSUME NEW a \in Actor, WaitAll(a) \/ ErrWait(a)
      PROVE  LockInv' /\ NoJoinBeforeStart'
  BY <1>3 DEF WaitAll, ErrWait, CanCall
<1>4. ASSUME NEW a \in Actor, CallStep(a)
      PROVE  LockInv' /\ NoJoinBeforeStart'
  <2>1. CASE AddStart(a)
    BY <2>1 DEF AddStart
  <2>2. CASE NextName(a) \/ AnyErrors(a)
    BY <2>2 DEF NextName, AnyErrors
  <2>3. CASE GetError(a)
    BY <2>3 DEF GetError, LookupAllowed
  <2>4. CASE GetReturn(a)
    BY <2>4 DEF GetReturn
  <2>5. CASE GetForWait(a)
    <3>1. ASSUME objs[nm[a]] # None PROVE life[objs[nm[a]]] \notin {"new", "adding"}
      BY <2>5, <3>1 DEF GetForWait, LookupAllowed, NameInv, RegistryExact, Registered
    <3> QED
      BY <2>5, <3>1 DEF GetForWait, AfterGet
  <2>6. CASE GetForScan(a)
    BY <2>6 DEF GetForScan
  <2>7. CASE Join(a)
    BY <2>7 DEF Join, Exited
  <2>8. CASE Check(a)
    BY <2>8 DEF Check
  <2>9. CASE Pop(a)
    BY <2>9 DEF Pop, ObjsLockAfter
  <2>10. CASE ErrNext(a)
    BY <2>10 DEF ErrNext
  <2>11. CASE ErrJoin(a)
    BY <2>11 DEF ErrJoin, Exited
  <2> QED
    BY <1>4, <2>1, <2>2, <2>3, <2>4, <2>5, <2>6, <2>7, <2>8, <2>9, <2>10, <2>11 DEF CallStep
<1>5. ASSUME NEW t \in Thread, TargetEnds(t) \/ HookReturns(t) \/ EndStep(t)
      PROVE  LockInv' /\ NoJoinBeforeStart'
  BY <1>5 DEF TargetEnds, HookReturns, EndStep, SetError, ExceptHook, Remove, Callback, Step
<1>6. CASE UNCHANGED vars
  BY <1>6 DEF vars
<1> QED
  BY <1>1, <1>2, <1>3, <1>4, <1>5, <1>6 DEF Next, StartCall

LEMMA ErrorStep ==
  ASSUME TypeOK, ErrorInv, LockInv, RaisedOnce, [Next]_vars
  PROVE  ErrorInv' /\ RaisedOnce'
<1> USE ConstantsAssumption DEF TypeOK, Actor, Lives, ErrorInv, RaisedOnce, PastSetError
<1>1. ASSUME NEW a \in Actor, Pop(a)
      PROVE  ErrorInv' /\ RaisedOnce'
  BY <1>1 DEF Pop, Popped
<1>2. ASSUME NEW t \in Thread, TargetEnds(t) \/ HookReturns(t) \/ EndStep(t)
      PROVE  ErrorInv' /\ RaisedOnce'
  <2>1. CASE SetError(t)
    BY <2>1 DEF SetError, Step
  <2>2. CASE ~SetError(t)
    BY <1>2, <2>2 DEF TargetEnds, HookReturns, EndStep, ExceptHook, Remove, Callback, Step
  <2> QED
    BY <2>1, <2>2
<1>3. ASSUME NEW a \in Actor, NEW t \in Thread, AddInsert(a, t)
      PROVE  ErrorInv' /\ RaisedOnce'
  BY <1>3 DEF AddInsert
<1>4. ASSUME NEW a \in Actor, AddStart(a)
      PROVE  ErrorInv' /\ RaisedOnce'
  BY <1>4 DEF AddStart, LockInv
<1>5. CASE UNCHANGED <<errors, life, raised>>
  BY <1>5
<1>6. ASSUME NEW a \in Actor, CallStep(a), ~AddStart(a), ~Pop(a)
      PROVE  UNCHANGED <<errors, life, raised>>
  BY <1>6 DEF CallStep, NextName, GetError, GetReturn, GetForWait, GetForScan, Join,
       Check, AnyErrors, ErrNext, ErrJoin
<1>7. ASSUME NEW a \in Actor, StartCall(a), ~ \E t \in Thread : AddInsert(a, t)
      PROVE  UNCHANGED <<errors, life, raised>>
  BY <1>7 DEF StartCall, AddRefused, Get, Wait, RaiseIfError, WaitAll, ErrWait
<1> QED
  BY <1>1, <1>2, <1>3, <1>4, <1>5, <1>6, <1>7 DEF Next, vars

\* The inductive invariant.
IInv ==
    /\ TypeOK
    /\ NameInv /\ RegistryExact
    /\ LockInv /\ NoJoinBeforeStart
    /\ ErrorInv /\ RaisedOnce

LEMMA InductiveInvariant == Spec => []IInv
<1>1. Init => IInv
  BY TypeInit, ConstantsAssumption
     DEF Init, IInv, NameInv, RegistryExact, LockInv, NoJoinBeforeStart, ErrorInv,
         RaisedOnce, Registered, Holding, Actor
<1>2. IInv /\ [Next]_vars => IInv'
  BY TypeStep, RegistryStep, LockStep, ErrorStep DEF IInv
<1> QED
  BY <1>1, <1>2, PTL DEF Spec

\* A thread is registered under its name exactly from add() to remove(), so two
\* living threads never share a name.
THEOREM RegistryIsExact == Spec => []RegistryExact
<1>1. IInv => RegistryExact
  BY DEF IInv
<1> QED
  BY <1>1, InductiveInvariant, PTL

\* wait() never joins a thread that is registered and not yet started: the lock
\* of add() and get() does what their comments say.
THEOREM JoinsAreStarted == Spec => []NoJoinBeforeStart
<1>1. IInv => NoJoinBeforeStart
  BY DEF IInv
<1> QED
  BY <1>1, InductiveInvariant, PTL

\* The exception of a thread is raised in at most one caller.
THEOREM ErrorsAreRaisedOnce == Spec => []RaisedOnce
<1>1. IInv => RaisedOnce
  BY DEF IInv
<1> QED
  BY <1>1, InductiveInvariant, PTL
-----------------------------------------------------------------------------
(* wait() and wait_all() wait for what was registered at the call.         *)

\* Which operation a program point belongs to.
OpInv ==
    \A a \in Actor :
        /\ pc[a] = "add_start" => op[a] = "add"
        /\ pc[a] \in {"err_next", "err_join"} => op[a] = "wait_for_error_threads"
        /\ pc[a] \in {"next", "scan", "scan_pop", "any_errors"} => op[a] = "wait_all"
        /\ pc[a] = "any_errors" => todo[a] = {}

\* A thread the call has to wait for is gone, or it is still to come, or it is
\* the one being looked up or joined.
Tracked(a, t) ==
    \/ life[t] \in Gone
    \/ op[a] = "wait_all" /\ NameOf[t] \in todo[a]
    \/ pc[a] \in {"get", "get_pop", "scan", "scan_pop"} /\ NameOf[t] = nm[a]
    \/ pc[a] = "join" /\ obj[a] = t

SeenInv ==
    \A a \in Actor : op[a] \in {"wait", "wait_all"} =>
        \A t \in seen[a] :
            /\ life[t] # "new"
            /\ op[a] = "wait_all" => t # a
            /\ Tracked(a, t)

WInv == IInv /\ OpInv /\ SeenInv

LEMMA OpStep == ASSUME TypeOK, OpInv, [Next]_vars PROVE OpInv'
<1> USE ConstantsAssumption DEF TypeOK, Actor, OpInv, Goto, Return, callVars
<1>1. ASSUME NEW a \in Actor, StartCall(a) PROVE OpInv'
  BY <1>1 DEF StartCall, AddRefused, AddInsert, Get, Wait, RaiseIfError, WaitAll, ErrWait
<1>2. ASSUME NEW a \in Actor, CallStep(a) PROVE OpInv'
  <2>1. CASE AddStart(a) \/ GetReturn(a) \/ GetError(a) \/ GetForScan(a) \/ AnyErrors(a)
    BY <2>1 DEF AddStart, GetReturn, GetError, GetForScan, AnyErrors
  <2>2. CASE GetForWait(a)
    BY <2>2 DEF GetForWait, AfterGet
  <2>3. CASE Join(a)
    BY <2>3 DEF Join, Exited
  <2>4. CASE Check(a)
    BY <2>4 DEF Check
  <2>5. CASE Pop(a)
    BY <2>5 DEF Pop
  <2>6. CASE ErrNext(a)
    BY <2>6 DEF ErrNext
  <2>7. CASE ErrJoin(a)
    BY <2>7 DEF ErrJoin, Exited
  <2>8. CASE NextName(a)
    BY <2>8 DEF NextName
  <2> QED
    BY <1>2, <2>1, <2>2, <2>3, <2>4, <2>5, <2>6, <2>7, <2>8 DEF CallStep
<1>3. CASE UNCHANGED callVars
  BY <1>3
<1>4. ASSUME NEW t \in Thread, TargetEnds(t) \/ HookReturns(t) \/ EndStep(t)
      PROVE  UNCHANGED callVars
  BY <1>4 DEF TargetEnds, HookReturns, EndStep, SetError, ExceptHook, Remove, Callback
<1> QED
  BY <1>1, <1>2, <1>3, <1>4 DEF Next, vars

LEMMA SeenStep == ASSUME AttrErr = {}, WInv, [Next]_vars PROVE SeenInv'
<1> USE ConstantsAssumption DEF WInv, IInv, TypeOK, Actor, Lives, SeenInv, Tracked, Gone,
        Goto, Return, callVars
<1>1. ASSUME NEW a \in Actor, StartCall(a) PROVE SeenInv'
  <2>1. ASSUME NEW t \in Thread, AddRefused(a, t) PROVE SeenInv'
    BY <2>1 DEF AddRefused
  <2>2. ASSUME NEW t \in Thread, AddInsert(a, t) PROVE SeenInv'
    BY <2>2 DEF AddInsert, CanCall
  <2>3. ASSUME NEW n \in Name, Get(a, n) \/ RaiseIfError(a, n) PROVE SeenInv'
    BY <2>3 DEF Get, RaiseIfError
  <2>4. ASSUME NEW n \in Name, Wait(a, n) PROVE SeenInv'
    BY <2>4 DEF Wait, NameInv, RegistryExact, Registered
  <2>5. CASE WaitAll(a)
    BY <2>5 DEF WaitAll, RegisteredNames, NameInv, RegistryExact, Registered
  <2>6. CASE ErrWait(a)
    BY <2>6 DEF ErrWait, FailedNames
  <2> QED
    BY <1>1, <2>1, <2>2, <2>3, <2>4, <2>5, <2>6 DEF StartCall
<1>2. ASSUME NEW a \in Actor, CallStep(a) PROVE SeenInv'
  <2>1. CASE AddStart(a)
    BY <2>1 DEF AddStart, LockInv
  <2>2. CASE GetReturn(a) \/ AnyErrors(a)
    BY <2>2 DEF GetReturn, AnyErrors
  <2>3. CASE GetError(a)
    BY <2>3 DEF GetError
  <2>4. CASE GetForScan(a)
    BY <2>4 DEF GetForScan, SkipSelf, RegistryExact, Registered, OpInv
  <2>5. CASE GetForWait(a)
    BY <2>5 DEF GetForWait, AfterGet, RegistryExact, Registered
  <2>6. CASE Join(a)
    BY <2>6 DEF Join, Exited
  <2>7. CASE Check(a)
    BY <2>7 DEF Check
  <2>8. CASE Pop(a)
    BY <2>8 DEF Pop, Swallows
  <2>9. CASE ErrNext(a)
    BY <2>9 DEF ErrNext, OpInv
  <2>10. CASE ErrJoin(a)
    BY <2>10 DEF ErrJoin, Exited, OpInv
  <2>11. CASE NextName(a)
    BY <2>11 DEF NextName
  <2> QED
    BY <1>2, <2>1, <2>2, <2>3, <2>4, <2>5, <2>6, <2>7, <2>8, <2>9, <2>10, <2>11 DEF CallStep
<1>3. ASSUME NEW t \in Thread, TargetEnds(t) \/ HookReturns(t) \/ EndStep(t)
      PROVE  SeenInv'
  BY <1>3 DEF TargetEnds, HookReturns, EndStep, SetError, ExceptHook, Remove, Callback, Step
<1>4. CASE UNCHANGED vars
  BY <1>4 DEF vars
<1> QED
  BY <1>1, <1>2, <1>3, <1>4 DEF Next

\* What WaitedForTargets says of one step.
WaitStep ==
    \A a \in Actor : op[a] \in {"wait", "wait_all"} /\ Returns(a, "ok") =>
        \A t \in seen[a] : life[t] \in Gone

LEMMA ReturnStep == ASSUME AttrErr = {}, WInv, Next PROVE WaitStep
<1> USE ConstantsAssumption DEF WInv, IInv, TypeOK, Actor, SeenInv, Tracked, OpInv, Returns,
        Goto, Return, callVars
<1> SUFFICES ASSUME NEW a \in Actor, op[a] \in {"wait", "wait_all"}, Returns(a, "ok")
             PROVE  \A t \in seen[a] : life[t] \in Gone
  BY DEF WaitStep
<1>1. ASSUME NEW b \in Actor, StartCall(b) PROVE FALSE
  BY <1>1 DEF StartCall, AddRefused, AddInsert, Get, Wait, RaiseIfError, WaitAll, ErrWait,
       CanCall
<1>2. ASSUME NEW t \in Thread, TargetEnds(t) \/ HookReturns(t) \/ EndStep(t)
      PROVE  FALSE
  BY <1>2 DEF TargetEnds, HookReturns, EndStep, SetError, ExceptHook, Remove, Callback
<1>3. ASSUME NEW b \in Actor, CallStep(b) PROVE \A t \in seen[a] : life[t] \in Gone
  <2>1. CASE AddStart(b) \/ GetReturn(b) \/ NextName(b) \/ GetError(b) \/ GetForScan(b)
    BY <2>1 DEF AddStart, GetReturn, NextName, GetError, GetForScan
  <2>2. CASE GetForWait(b)
    BY <2>2 DEF GetForWait, AfterGet
  <2>3. CASE Join(b) \/ Pop(b)
    BY <2>3 DEF Join, Pop
  <2>4. CASE ErrNext(b) \/ ErrJoin(b)
    BY <2>4 DEF ErrNext, ErrJoin
  <2>5. CASE Check(b)
    BY <2>5 DEF Check
  <2>6. CASE AnyErrors(b)
    BY <2>6 DEF AnyErrors
  <2> QED
    BY <1>3, <2>1, <2>2, <2>3, <2>4, <2>5, <2>6 DEF CallStep
<1> QED
  BY <1>1, <1>2, <1>3 DEF Next

\* Unless a thread fails with an AttributeError (which wait() may swallow), a
\* wait() or wait_all() that returns normally has waited for the target of every
\* thread that was registered when it was called.
THEOREM WaitsAreComplete == ASSUME AttrErr = {} PROVE Spec => WaitedForTargets
<1>1. Init => WInv
  <2>1. Init => IInv
    BY TypeInit, ConstantsAssumption
       DEF Init, IInv, NameInv, RegistryExact, LockInv, NoJoinBeforeStart, ErrorInv,
           RaisedOnce, Registered, Holding, Actor
  <2> QED
    BY <2>1, ConstantsAssumption DEF Init, WInv, OpInv, SeenInv, Actor
<1>2. WInv /\ [Next]_vars => WInv'
  BY TypeStep, RegistryStep, LockStep, ErrorStep, OpStep, SeenStep DEF WInv, IInv
<1>3. WInv /\ [Next]_vars => [WaitStep]_vars
  BY ReturnStep
<1>4. Spec => [][WaitStep]_vars
  BY <1>1, <1>2, <1>3, PTL DEF Spec
<1> QED
  BY <1>4 DEF WaitedForTargets, WaitStep
=============================================================================
