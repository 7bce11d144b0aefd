------------------------ MODULE PayloadManagerProofs ------------------------
(***************************************************************************)
(* What holds of the payload manager for every set of callers, listeners   *)
(* and awaited threads and for any number of requests.                     *)
(***************************************************************************)
EXTENDS PayloadManager, TLAPS

\* The state that a running payload thread has entered last.
PcState ==
    /\ pay \in {"none", "begin", "started", "remove"} => state \in {STARTED, FINISHED, ERROR}
    /\ pay = "storage" => state = STARTED
    /\ pay = "network" => state = WAITING_STORAGE
    /\ pay \in {"setup", "verify", "raised"} => state = WAITING_NETWORK
    /\ pay = "download" => state \in {WAITING_NETWORK, VERIFYING_AVAILABILITY}
    /\ pay \in {"repos", "groups"} => state = DOWNLOADING_PKG_METADATA
    /\ pay = "ready" => state = DOWNLOADING_GROUP_METADATA
    /\ pay = "finish" =>
           state \in {WAITING_NETWORK, VERIFYING_AVAILABILITY, DOWNLOADING_GROUP_METADATA}
    /\ pay = "unsetup" => state = ERROR

\* A restart thread starts a payload thread only when there is none.
OneThread == restart = "add" => pay = "none"

Working ==
    {"started", "storage", "network", "setup", "verify", "download", "repos", "groups", "ready", "finish"}

ErrorInv == ErrorIsExplained /\ (pay \in Working => ~error)

\* Who was run is registered, and the state it listens for is not ahead.
HeardInv ==
    /\ \A l \in Listener : heard[l] \in {0, 1}
    /\ \A l \in Listener : heard[l] = 1 =>
           /\ l \in listening
           /\ EventOf[l] = ERROR => state = ERROR
           /\ state # ERROR => EventOf[l] <= state
    /\ state # ERROR => visited \subseteq 0..state
    /\ ListenersNotMissed

\* A request that is not yet served is on its way, or came too late.
RequestInv ==
    \/ late \/ used = config
    \/ \E c \in Caller : caller[c] # "idle"
    \/ restart \in {"wait", "add"}
    \/ pay \in {"begin", "started", "storage", "network", "setup", "raised"}

StateNames ==
    /\ ERROR = -1 /\ STARTED = 0 /\ WAITING_STORAGE = 1 /\ WAITING_NETWORK = 2
    /\ VERIFYING_AVAILABILITY = 3 /\ DOWNLOADING_PKG_METADATA = 4
    /\ DOWNLOADING_GROUP_METADATA = 5 /\ FINISHED = 6 /\ States = -1..6

LEMMA Names == StateNames
  BY DEF StateNames, ERROR, STARTED, WAITING_STORAGE, WAITING_NETWORK, VERIFYING_AVAILABILITY,
         DOWNLOADING_PKG_METADATA, DOWNLOADING_GROUP_METADATA, FINISHED, States

-----------------------------------------------------------------------------
(* The type invariant.                                                     *)

LEMMA NotifiedType ==
  ASSUME NEW L, NEW counts \in [Listener -> Nat]
  PROVE  Notified(L, counts) \in [Listener -> Nat]
<1>1. \A l \in Listener : counts[l] + (IF l \in L THEN 1 ELSE 0) \in Nat
  OBVIOUS
<1> QED
  BY <1>1 DEF Notified

LEMMA SetStateType ==
  ASSUME TypeOK, NEW s \in States, SetState(s)
  PROVE  /\ state' = s /\ state' \in States
         /\ heard' \in [Listener -> Nat]
         /\ visited' \subseteq States /\ state' \in visited'
<1>1. (IF s = STARTED THEN [l \in Listener |-> 0] ELSE heard) \in [Listener -> Nat]
  BY DEF TypeOK
<1>2. heard' \in [Listener -> Nat]
  BY <1>1, NotifiedType DEF SetState
<1> QED
  BY <1>2 DEF SetState, TypeOK

\* Every step of the payload thread leaves its record where it belongs.
LEMMA PayloadThreadType ==
  ASSUME TypeOK, PcState, PayloadThread
  PROVE  TypeOK' /\ PcState'
<1>0. TypeOK /\ PcState /\ StateNames
  BY Names
<1> USE DEF PayPCs
<1>1. CASE Begin
  BY <1>0, <1>1 DEF TypeOK, PcState, PayloadThread, Begin, Goto, NoError, requests, threads, StateNames
<1>2. CASE Waiting
  <2>1. CASE Goto("started", "storage") /\ SetState(STARTED)
    BY <1>0, <1>2, <2>1, SetStateType DEF TypeOK, PcState, PayloadThread, Waiting, Goto, requests, threads, StateNames
  <2>2. CASE Goto("storage", "network") /\ SetState(WAITING_STORAGE)
    BY <1>0, <1>2, <2>2, SetStateType DEF TypeOK, PcState, PayloadThread, Waiting, Goto, requests, threads, StateNames
  <2>3. CASE Goto("network", "setup") /\ SetState(WAITING_NETWORK)
    BY <1>0, <1>2, <2>3, SetStateType DEF TypeOK, PcState, PayloadThread, Waiting, Goto, requests, threads, StateNames
  <2> QED
    BY <1>2, <2>1, <2>2, <2>3 DEF Waiting
<1>3. CASE Setup
  BY <1>0, <1>3 DEF TypeOK, PcState, PayloadThread, Setup, requests, threads, StateNames
<1>4. CASE Verify
  <2>1. CASE VerifyFirst
    <3>1. SetState(VERIFYING_AVAILABILITY) /\ onlyOnChange
      BY <1>4, <2>1 DEF Verify, VerifyFirst
    <3>2. Goto("verify", "finish") \/ Goto("verify", "download")
      BY <1>4, <2>1 DEF Verify
    <3> QED
      BY <1>0, <1>4, <3>1, <3>2, SetStateType
      DEF TypeOK, PcState, PayloadThread, Verify, Goto, requests, threads, StateNames
  <2>2. CASE ~VerifyFirst
    BY <1>0, <1>4, <2>2 DEF TypeOK, PcState, PayloadThread, Verify, Goto, requests, threads, StateNames
  <2> QED
    BY <2>1, <2>2
<1>5. CASE Download
  <2>1. CASE Goto("download", "repos") /\ SetState(DOWNLOADING_PKG_METADATA)
    BY <1>0, <1>5, <2>1, SetStateType DEF TypeOK, PcState, PayloadThread, Download, Goto, requests, threads, StateNames
  <2>2. CASE Goto("groups", "ready") /\ SetState(DOWNLOADING_GROUP_METADATA)
    BY <1>0, <1>5, <2>2, SetStateType DEF TypeOK, PcState, PayloadThread, Download, Goto, requests, threads, StateNames
  <2>3. CASE (Goto("repos", "groups") \/ Goto("ready", "finish")) /\ UNCHANGED <<state, heard, visited, error>>
    BY <1>0, <1>5, <2>3 DEF TypeOK, PcState, PayloadThread, Download, Goto, requests, threads, StateNames
  <2> QED
    BY <1>5, <2>1, <2>2, <2>3 DEF Download
<1>6. CASE Fail
  BY <1>0, <1>6, SetStateType
  DEF TypeOK, PcState, PayloadThread, Fail, Goto, AfterError, ErrorBeforeState, requests, threads, StateNames
<1>7. CASE Finish
  BY <1>0, <1>7, SetStateType DEF TypeOK, PcState, PayloadThread, Finish, Goto, requests, threads, StateNames
<1>8. CASE End
  BY <1>0, <1>8 DEF TypeOK, PcState, PayloadThread, End, Goto, Unregistered, requests, threads, StateNames
<1> QED
  BY <1>1, <1>2, <1>3, <1>4, <1>5, <1>6, <1>7, <1>8 DEF PayloadThread

LEMMA TypeInit ==
  ASSUME Init
  PROVE  TypeOK /\ PcState /\ OneThread
<1>1. PcState /\ OneThread
  BY DEF Init, PcState, OneThread
<1>2. config \in 0..MaxRequests /\ used \in 0..config
  BY PayloadAssumption DEF Init
<1>3. /\ heard \in [Listener -> Nat] /\ state \in States /\ visited \subseteq States
      /\ state = VERIFYING_AVAILABILITY => onlyOnChange
  BY Names DEF Init, StateNames
<1>4. /\ caller \in [Caller -> {"idle", "get", "add"}] /\ failed \subseteq Caller
      /\ listening \subseteq Listener /\ busy \subseteq Busy
  BY DEF Init
<1> QED
  BY <1>1, <1>2, <1>3, <1>4 DEF Init, TypeOK, PayPCs

LEMMA TypeStep ==
  ASSUME TypeOK, PcState, OneThread, [Next]_vars
  PROVE  TypeOK' /\ PcState' /\ OneThread'
<1> USE PayloadAssumption DEF PayPCs
<1>1. CASE \E c \in Caller : Request(c) \/ FindRestart(c) \/ AddRestart(c)
  <2>1. PICK c \in Caller : Request(c) \/ FindRestart(c) \/ AddRestart(c)
    BY <1>1
  <2>2. CASE Request(c)
    BY <2>2 DEF Request, TypeOK, PcState, OneThread, threads, listeners
  <2>3. CASE FindRestart(c)
    BY <2>3 DEF FindRestart, TooLate, TypeOK, PcState, OneThread, threads, listeners
  <2>4. CASE AddRestart(c)
    BY <2>4 DEF AddRestart, TooLate, TypeOK, PcState, OneThread, threads, listeners
  <2> QED
    BY <2>1, <2>2, <2>3, <2>4
<1>2. CASE RestartThread
  <2>1. CASE restart = "add"
    BY <1>2, <2>1, Names DEF RestartThread, TypeOK, PcState, OneThread, requests, listeners, StateNames
  <2>2. CASE restart # "add"
    BY <1>2, <2>2 DEF RestartThread, OldPayloadGone, TypeOK, PcState, OneThread, requests, listeners
  <2> QED
    BY <2>1, <2>2
<1>3. CASE PayloadThread
  <2>1. TypeOK' /\ PcState'
    BY <1>3, PayloadThreadType
  <2>2. restart' = restart /\ pay # "none"
    BY <1>3 DEF PayloadThread, threads, Begin, Waiting, Setup, Verify, Download, Fail, Finish, End, Goto
  <2> QED
    BY <2>1, <2>2 DEF OneThread
<1>4. CASE \E l \in Listener : AddListener(l)
  <2>1. PICK l \in Listener : AddListener(l)
    BY <1>4
  <2>2. heard' \in [Listener -> Nat]
    BY <2>1, NotifiedType DEF AddListener, TypeOK
  <2> QED
    BY <2>1, <2>2 DEF AddListener, TypeOK, PcState, OneThread, requests, threads
<1>5. CASE OtherThread
  BY <1>5 DEF OtherThread, TypeOK, PcState, OneThread, requests, threads, listeners
<1>6. CASE UNCHANGED vars
  BY <1>6 DEF vars, TypeOK, PcState, OneThread, requests, threads, listeners
<1> QED
  BY <1>1, <1>2, <1>3, <1>4, <1>5, <1>6 DEF Next

\* Type correctness of the payload manager: the states, the two threads and the
\* listeners stay in their ranges.
THEOREM PayloadTypeCorrect == Spec => []TypeOK
<1>1. Spec => [](TypeOK /\ PcState /\ OneThread)
  BY TypeInit, TypeStep, PTL DEF Spec
<1> QED
  BY <1>1, PTL

-----------------------------------------------------------------------------
(* Errors.                                                                 *)

LEMMA ErrorStep ==
  ASSUME TypeOK, TypeOK', PcState, OneThread, ErrorInv, [Next]_vars
  PROVE  ErrorInv'
<1> USE DEF ErrorInv, ErrorIsExplained, Working
<1>1. CASE PayloadThread
  <2>1. CASE Begin
    BY <2>1 DEF Begin, Goto, NoError
  <2>2. CASE Waiting
    BY <2>2, Names DEF Waiting, Goto, SetState, StateNames
  <2>3. CASE Setup
    BY <2>3 DEF Setup
  <2>4. CASE Verify
    BY <2>4, Names DEF Verify, Goto, SetState, StateNames
  <2>5. CASE Download
    BY <2>5, Names DEF Download, Goto, SetState, StateNames
  <2>6. CASE Fail
    BY <2>6, Names DEF Fail, Goto, SetState, AfterError, ErrorBeforeState, StateNames
  <2>7. CASE Finish
    BY <2>7, Names DEF Finish, Goto, SetState, StateNames
  <2>8. CASE End
    BY <2>8 DEF End, Goto, Unregistered
  <2> QED
    BY <1>1, <2>1, <2>2, <2>3, <2>4, <2>5, <2>6, <2>7, <2>8 DEF PayloadThread
<1>2. CASE RestartThread
  <2>1. state' = state /\ error' = error /\ (pay' = pay \/ (pay = "none" /\ pay' = "begin"))
    BY <1>2 DEF RestartThread, OneThread
  <2> QED
    BY <2>1
<1>3. CASE UNCHANGED <<pay, state, error>>
  BY <1>3
<1> QED
  BY <1>1, <1>2, <1>3
  DEF Next, vars, Request, FindRestart, AddRestart, AddListener, OtherThread

\* Whoever is told ERROR finds a message, and nobody finds the message of an
\* earlier run of the payload thread, whatever the listeners and callers do.
THEOREM ErrorsAreExplained == Spec => []ErrorIsExplained
<1>1. Init => ErrorInv
  BY Names DEF Init, ErrorInv, ErrorIsExplained, Working, StateNames
<1>2. Spec => [](TypeOK /\ PcState /\ OneThread)
  BY TypeInit, TypeStep, PTL DEF Spec
<1>3. TypeOK /\ TypeOK' /\ PcState /\ OneThread /\ ErrorInv /\ [Next]_vars => ErrorInv'
  BY ErrorStep
<1>4. ErrorInv => ErrorIsExplained
  BY DEF ErrorInv
<1> QED
  BY <1>1, <1>2, <1>3, <1>4, PTL DEF Spec

-----------------------------------------------------------------------------
(* Requests.                                                               *)

\* No request is lost unless it comes while a restart thread that has done its
\* work is still registered: the last configuration is the one that is set up.
THEOREM RequestsAreHonoured == Spec => []RequestsHonoured
<1>1. Init => RequestInv
  BY DEF Init, RequestInv
<1>2. TypeOK /\ RequestInv /\ [Next]_vars => RequestInv'
  <2> SUFFICES ASSUME TypeOK, RequestInv, [Next]_vars
               PROVE  RequestInv'
    OBVIOUS
  <2>1. CASE \E c \in Caller : Request(c)
    <3>1. PICK c \in Caller : Request(c)
      BY <2>1
    <3>2. caller'[c] = "get"
      BY <3>1 DEF Request, TypeOK
    <3> QED
      BY <3>2 DEF RequestInv
  <2>2. CASE \E c \in Caller : FindRestart(c)
    <3>1. PICK c \in Caller : FindRestart(c)
      BY <2>2
    <3>2. CASE restart = "none"
      <4>1. caller'[c] = "add"
        BY <3>1, <3>2 DEF FindRestart, RestartPending, TypeOK
      <4> QED
        BY <4>1 DEF RequestInv
    <3>3. CASE restart = "remove"
      BY <3>1, <3>3 DEF FindRestart, TooLate, RequestInv
    <3>4. CASE restart \in {"wait", "add"}
      BY <3>1, <3>4 DEF FindRestart, threads, RequestInv
    <3> QED
      BY <3>2, <3>3, <3>4 DEF TypeOK
  <2>3. CASE \E c \in Caller : AddRestart(c)
    <3>1. PICK c \in Caller : AddRestart(c)
      BY <2>3
    <3>2. CASE restart = "none"
      BY <3>1, <3>2 DEF AddRestart, RequestInv
    <3>3. CASE restart = "remove"
      BY <3>1, <3>3 DEF AddRestart, TooLate, RequestInv
    <3>4. CASE restart \in {"wait", "add"}
      BY <3>1, <3>4 DEF AddRestart, threads, RequestInv
    <3> QED
      BY <3>2, <3>3, <3>4 DEF TypeOK
  <2>4. CASE RestartThread
    BY <2>4 DEF RestartThread, RequestInv, requests
  <2>5. CASE PayloadThread
    <3>1. CASE Setup
      BY <2>5, <3>1 DEF PayloadThread, Setup, RequestInv, requests
    <3>2. CASE Begin \/ Waiting \/ Verify \/ Download \/ Fail \/ Finish \/ End
      BY <2>5, <3>2 DEF PayloadThread, Begin, Waiting, Verify, Download, Fail, Finish, End, Goto,
                        RequestInv, requests, threads
    <3> QED
      BY <2>5, <3>1, <3>2 DEF PayloadThread
  <2>6. CASE UNCHANGED <<requests, threads, used, pay>>
    BY <2>6 DEF RequestInv, requests, threads
  <2> QED
    BY <2>1, <2>2, <2>3, <2>4, <2>5, <2>6 DEF Next, vars, AddListener, OtherThread
<1>3. RequestInv => RequestsHonoured
  BY DEF RequestInv, RequestsHonoured
<1>4. Spec => []TypeOK
  BY PayloadTypeCorrect
<1> QED
  BY <1>1, <1>2, <1>3, <1>4, PTL DEF Spec

-----------------------------------------------------------------------------
(* Listeners.                                                              *)

LEMMA HeardStates ==
  ASSUME TypeOK, HeardInv, NEW s \in States, SetState(s), listening' = listening,
         s = STARTED \/ (state # ERROR /\ (s = ERROR \/ state < s))
  PROVE  HeardInv'
<1> DEFINE Before == IF s = STARTED THEN [l \in Listener |-> 0] ELSE heard
<1>0. StateNames /\ \A l \in Listener : EventOf[l] \in States
  BY Names, PayloadAssumption
<1>1. /\ state' = s
      /\ visited' = IF s = STARTED THEN {s} ELSE visited \cup {s}
      /\ \A l \in Listener : heard'[l] = Before[l] + (IF l \in listening /\ EventOf[l] = s THEN 1 ELSE 0)
  BY DEF SetState, Notified, ListenersOf
<1>2. \A l \in Listener : /\ Before[l] \in {0, 1}
                          /\ l \in listening /\ EventOf[l] = s => Before[l] = 0
                          /\ Before[l] = 1 => s # STARTED /\ heard[l] = 1
  BY <1>0 DEF HeardInv, TypeOK, StateNames
<1>3. \A l \in Listener : heard'[l] \in {0, 1}
  BY <1>1, <1>2
<1>4. ASSUME NEW l \in Listener, heard'[l] = 1
      PROVE  /\ l \in listening'
             /\ EventOf[l] = ERROR => state' = ERROR
             /\ state' # ERROR => EventOf[l] <= state'
  <2>1. CASE l \in listening /\ EventOf[l] = s
    BY <1>0, <1>1, <2>1 DEF StateNames
  <2>2. CASE ~(l \in listening /\ EventOf[l] = s)
    <3>1. heard[l] = 1 /\ s # STARTED
      BY <1>1, <1>2, <1>4, <2>2
    <3> QED
      BY <1>0, <1>1, <3>1 DEF HeardInv, TypeOK, StateNames
  <2> QED
    BY <2>1, <2>2
<1>5. state' # ERROR => visited' \subseteq 0..state'
  <2> SUFFICES ASSUME s # ERROR
               PROVE  visited' \subseteq 0..s
    BY <1>1
  <2>1. CASE s = STARTED
    BY <1>0, <1>1, <2>1 DEF StateNames
  <2>2. CASE s # STARTED
    BY <1>0, <1>1, <2>2 DEF HeardInv, TypeOK, StateNames
  <2> QED
    BY <2>1, <2>2
<1>6. ListenersNotMissed'
  <2> SUFFICES ASSUME s # ERROR, NEW l \in listening, EventOf[l] \in visited'
               PROVE  heard'[l] = 1
    BY <1>1 DEF ListenersNotMissed
  <2>1. l \in Listener
    BY DEF TypeOK
  <2>2. CASE EventOf[l] = s
    BY <1>1, <1>2, <2>1, <2>2
  <2>3. CASE EventOf[l] # s
    <3>1. s # STARTED /\ EventOf[l] \in visited
      BY <1>1, <2>3
    <3>2. state # ERROR
      BY <3>1
    <3>3. heard[l] = 1
      BY <3>1, <3>2 DEF HeardInv, ListenersNotMissed
    <3> QED
      BY <1>1, <2>1, <2>3, <3>1, <3>3
  <2> QED
    BY <2>2, <2>3
<1> QED
  BY <1>3, <1>4, <1>5, <1>6 DEF HeardInv

LEMMA HeardAdd ==
  ASSUME TypeOK, HeardInv, NEW l \in Listener, AddListener(l)
  PROVE  HeardInv'
<1>0. StateNames /\ \A k \in Listener : EventOf[k] \in States
  BY Names, PayloadAssumption
<1>1. /\ l \notin listening /\ listening' = listening \cup {l}
      /\ state' = state /\ visited' = visited
      /\ \A k \in Listener : heard'[k] = heard[k] + (IF k = l /\ AlreadyReached(l) THEN 1 ELSE 0)
  BY DEF AddListener, Notified
<1>2. heard[l] = 0
  BY <1>1 DEF HeardInv
<1>3. \A k \in Listener : k # l => heard'[k] = heard[k]
  BY <1>1 DEF TypeOK
<1>4. heard'[l] = IF AlreadyReached(l) THEN 1 ELSE 0
  BY <1>1, <1>2
<1>5. /\ \A k \in Listener : heard'[k] \in {0, 1}
      /\ \A k \in Listener : heard'[k] = 1 =>
             /\ k \in listening'
             /\ EventOf[k] = ERROR => state' = ERROR
             /\ state' # ERROR => EventOf[k] <= state'
  BY <1>0, <1>1, <1>3, <1>4 DEF HeardInv, AlreadyReached, TypeOK, StateNames
<1>6. state # ERROR /\ EventOf[l] \in visited => AlreadyReached(l)
  BY <1>0 DEF HeardInv, AlreadyReached, TypeOK, StateNames
<1>7. ListenersNotMissed'
  <2> SUFFICES ASSUME state # ERROR, NEW k \in listening', EventOf[k] \in visited
               PROVE  heard'[k] = 1
    BY <1>1 DEF ListenersNotMissed
  <2>1. CASE k = l
    BY <1>4, <1>6, <2>1
  <2>2. CASE k # l
    <3>1. k \in listening /\ k \in Listener
      BY <1>1, <2>2 DEF TypeOK
    <3> QED
      BY <1>3, <2>2, <3>1 DEF HeardInv, ListenersNotMissed
  <2> QED
    BY <2>1, <2>2
<1> QED
  BY <1>1, <1>5, <1>7 DEF HeardInv

LEMMA HeardStep ==
  ASSUME TypeOK, PcState, HeardInv, [Next]_vars
  PROVE  HeardInv'
<1>0. StateNames
  BY Names
<1>1. CASE UNCHANGED <<state, heard, visited, listening>>
  BY <1>1 DEF HeardInv, ListenersNotMissed
<1>2. CASE PayloadThread
  <2>1. listening' = listening
    BY <1>2 DEF PayloadThread
  <2>2. CASE Waiting
    BY <1>0, <2>1, <2>2, HeardStates DEF Waiting, Goto, PcState, StateNames
  <2>3. CASE Verify
    BY <1>0, <1>1, <2>1, <2>3, HeardStates DEF Verify, Goto, PcState, StateNames
  <2>4. CASE Download
    BY <1>0, <1>1, <2>1, <2>4, HeardStates DEF Download, Goto, PcState, StateNames
  <2>5. CASE Fail
    BY <1>0, <2>1, <2>5, HeardStates DEF Fail, Goto, PcState, StateNames
  <2>6. CASE Finish
    BY <1>0, <2>1, <2>6, HeardStates DEF Finish, Goto, PcState, StateNames
  <2>7. CASE Begin \/ Setup \/ End
    BY <1>1, <2>1, <2>7 DEF Begin, Setup, End
  <2> QED
    BY <1>2, <2>2, <2>3, <2>4, <2>5, <2>6, <2>7 DEF PayloadThread
<1>3. CASE \E l \in Listener : AddListener(l)
  BY <1>3, HeardAdd
<1> QED
  BY <1>1, <1>2, <1>3
  DEF Next, vars, Request, FindRestart, AddRestart, RestartThread, OtherThread, listeners

LEMMA HeardAlways == Spec => []HeardInv
<1>1. Init => HeardInv
  <2> SUFFICES ASSUME Init
               PROVE  HeardInv
    OBVIOUS
  <2>1. StateNames
    BY Names
  <2> QED
    BY <2>1 DEF Init, HeardInv, ListenersNotMissed, StateNames
<1>2. TypeOK /\ PcState /\ HeardInv /\ [Next]_vars => HeardInv'
  BY HeardStep
<1>3. Spec => [](TypeOK /\ PcState /\ OneThread)
  BY TypeInit, TypeStep, PTL DEF Spec
<1> QED
  BY <1>1, <1>2, <1>3, PTL DEF Spec

\* No listener is run twice in one run of the payload thread: add_listener runs it
\* at once only when its state is reached, and the states are entered upwards.
THEOREM ListenersAreHeardOnce == Spec => []ListenersHeardOnce
<1>1. HeardInv => ListenersHeardOnce
  BY DEF HeardInv, ListenersHeardOnce
<1> QED
  BY <1>1, HeardAlways, PTL

\* No registered listener misses the state it listens for.
THEOREM ListenersAreNotMissed == Spec => []ListenersNotMissed
<1>1. HeardInv => ListenersNotMissed
  BY DEF HeardInv
<1> QED
  BY <1>1, HeardAlways, PTL

-----------------------------------------------------------------------------
(* The refinement.                                                         *)

RunsDone == <<pendingRuns, runRuns, phaseRuns>>

\* A step of the payload thread is a step of a run, or is not seen.
LEMMA RunsStep ==
  ASSUME TypeOK, PcState, OneThread, PayloadThread
  PROVE  Runs!RunStep \/ UNCHANGED RunsDone
<1>0. StateNames /\ pendingRuns' = pendingRuns
  BY Names DEF PayloadThread, threads, pendingRuns
<1> USE DEF RunsDone, runRuns, phaseRuns, Goto
<1>1. CASE Begin
  BY <1>0, <1>1 DEF Begin, PcState, StateNames
<1>2. CASE Waiting
  <2>1. CASE Goto("started", "storage") /\ SetState(STARTED)
    BY <1>0, <2>1 DEF SetState, StateNames, Runs!RunStep, Runs!Enter, Runs!Started
  <2>2. CASE Goto("storage", "network") /\ SetState(WAITING_STORAGE)
    BY <1>0, <2>2 DEF SetState, PcState, StateNames
  <2>3. CASE Goto("network", "setup") /\ SetState(WAITING_NETWORK)
    BY <1>0, <2>3 DEF SetState, PcState, StateNames
  <2> QED
    BY <1>2, <2>1, <2>2, <2>3 DEF Waiting
<1>3. CASE Setup
  BY <1>0, <1>3 DEF Setup, PcState, StateNames
<1>4. CASE Verify
  BY <1>0, <1>4 DEF Verify, SetState, PcState, StateNames
<1>5. CASE Download
  <2>1. CASE Goto("download", "repos") /\ SetState(DOWNLOADING_PKG_METADATA)
    BY <1>0, <2>1 DEF SetState, PcState, StateNames, Runs!RunStep, Runs!Enter, Runs!PackageMetadata
  <2>2. CASE Goto("repos", "groups") /\ UNCHANGED <<state, heard, visited, error>>
    BY <1>0, <2>2 DEF PcState, StateNames, Runs!RunStep, Runs!Enter
  <2>3. CASE Goto("groups", "ready") /\ SetState(DOWNLOADING_GROUP_METADATA)
    BY <1>0, <2>3 DEF SetState, PcState, StateNames
  <2>4. CASE Goto("ready", "finish") /\ UNCHANGED <<state, heard, visited, error>>
    BY <1>0, <2>4 DEF PcState, StateNames
  <2> QED
    BY <1>5, <2>1, <2>2, <2>3, <2>4 DEF Download
<1>6. CASE Fail
  BY <1>0, <1>6 DEF Fail, AfterError, SetState, PcState, StateNames, Runs!RunStep, Runs!Enter, Runs!Error
<1>7. CASE Finish
  BY <1>0, <1>7 DEF Finish, SetState, PcState, StateNames, Runs!RunStep, Runs!Enter, Runs!Finished
<1>8. CASE End
  BY <1>0, <1>8 DEF End, Unregistered, PcState, StateNames, Runs!RunStep, Runs!Enter
<1> QED
  BY <1>1, <1>2, <1>3, <1>4, <1>5, <1>6, <1>7, <1>8 DEF PayloadThread

\* The payload manager implements PayloadRuns, on which the hub is built: one run
\* at a time, its states in their order and with one end.
THEOREM PayloadImplementsRuns == Spec => RunsImplemented
<1>1. Init => Runs!RunsInit
  BY Names DEF Init, Runs!RunsInit, Runs!Started, pendingRuns, runRuns, phaseRuns, StateNames
<1>2. ASSUME TypeOK, PcState, OneThread, [Next]_vars
      PROVE  [Runs!RunsNext]_(Runs!runVars)
  <2>1. CASE PayloadThread
    BY <1>2, <2>1, RunsStep DEF RunsDone, Runs!RunsNext, Runs!runVars
  <2>2. CASE RestartThread
    BY <1>2, <2>2 DEF RestartThread, OldPayloadGone, OneThread, Runs!RunsNext, Runs!runVars, Runs!StartRun,
                pendingRuns, runRuns, phaseRuns
  <2>3. CASE \E c \in Caller : AddRestart(c)
    BY <2>3 DEF AddRestart, threads, Runs!RunsNext, Runs!runVars, Runs!Restart, pendingRuns, runRuns, phaseRuns
  <2>4. CASE UNCHANGED <<restart, pay, state>>
    BY <2>4 DEF Runs!runVars, pendingRuns, runRuns, phaseRuns
  <2> QED
    BY <1>2, <2>1, <2>2, <2>3, <2>4
    DEF Next, vars, Request, FindRestart, AddListener, OtherThread, threads
<1>3. Spec => [](TypeOK /\ PcState /\ OneThread)
  BY TypeInit, TypeStep, PTL DEF Spec
<1> QED
  BY <1>1, <1>2, <1>3, PTL DEF Spec, RunsImplemented, Runs!RunsSpec

=============================================================================
