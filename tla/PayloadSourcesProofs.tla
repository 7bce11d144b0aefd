------------------------ MODULE PayloadSourcesProofs ------------------------
(***************************************************************************)
(* What holds of the installation sources for any number of changes by the *)
(* user, each default source and each source of a kickstart: no mount point *)
(* is lost, no CDN source outlives the subscription it was made for, and    *)
(* the packages come from the source that is attached.                     *)
(***************************************************************************)
EXTENDS PayloadSources, SequenceTheorems, TLAPS

SourceRecord == [type : Type, mount : {"no", "device", "both"}, tree : BOOLEAN]
PCs == PayloadPC \cup SubscriptionPC \cup MainPC

\* The first step of a hard drive task is done: the device is mounted, the tree is
\* not known yet.
HalfSetUp(o) ==
    \E c \in Client : /\ task[c] # None
                      /\ task[c].kind = "set_up" /\ task[c].source = o /\ task[c].at = "rest"

\* The service: a source that was replaced is not mounted and nobody mounts it,
\* unless a set up task had it.
ServiceTypes ==
    /\ sources \in Seq(SourceRecord) /\ attached \in Object /\ attached = Len(sources)
    /\ task \in [Client -> TaskRecord \cup {None}]
    /\ \A c \in Client : task[c] # None => task[c].source \in Object
    /\ replacedLate \subseteq Object

MountInv ==
    /\ \A o \in Object : o # attached /\ o \notin replacedLate => sources[o].mount = "no" /\ ~SettingUp(o)
    /\ \A o \in Object : sources[o].type \in {"URL", "CDN"} => sources[o].mount = "no"
    /\ \A o \in Object : sources[o].type = "HDD" /\ sources[o].mount # "no" /\ ~sources[o].tree => HalfSetUp(o)

\* The clients.
ClientTypes ==
    /\ media \in BOOLEAN
    /\ pc \in [Client -> PCs]
    /\ pc["payload"] \in PayloadPC /\ pc["subscription"] \in SubscriptionPC /\ pc["main"] \in MainPC
    /\ pending \in {"no", "waiting", "started"} /\ restartKind \in Kind /\ runKind \in Kind
    /\ registered \in BOOLEAN /\ subscribed \in BOOLEAN
    /\ overridden \in {"no", "CDROM"} /\ wanted \in Type
    /\ override \in Int /\ bySpoke \in BOOLEAN
    /\ used \in Nat /\ dropped \in BOOLEAN /\ crashed \in BOOLEAN /\ acts \in 0..MaxActs
    /\ pc[Sub] \in {"back", "revert"} => overridden = "CDROM"

\* What each client may do to the service: start a task, get its result, replace
\* the source; the tasks work on their own.
Called ==
    /\ \E c \in Client, kind \in {"set_up", "tear_down"} : task[c] = None /\ Start(c, kind)
    /\ UNCHANGED <<sources, attached, replacedLate>>
Answered == \E c \in Client, at \in {"ok", "failed"} : Returned(c, at)
Replaced == \E t \in Type : SetSources(t) /\ UNCHANGED task
Worked == \E c \in Client : SetUpSources(c) \/ TearDownSources(c)
Kept == UNCHANGED serviceVars

-----------------------------------------------------------------------------
(* The service.                                                            *)

LEMMA ServiceTypesStep ==
  ASSUME ServiceTypes, Called \/ Answered \/ Replaced \/ Worked \/ Kept
  PROVE  ServiceTypes'
<1> USE DEF ServiceTypes
<1>1. CASE Called
  <2>1. PICK c \in Client, kind \in {"set_up", "tear_down"} : Start(c, kind)
    BY <1>1 DEF Called
  <2>2. UNCHANGED <<sources, attached, replacedLate>>
    BY <1>1 DEF Called
  <2>3. [kind |-> kind, source |-> attached, at |-> "begin"] \in TaskRecord
    BY DEF TaskRecord, Object
  <2> QED
    BY <2>1, <2>2, <2>3 DEF Start, Object
<1>2. CASE Answered
  BY <1>2 DEF Answered, Returned, Object
<1>3. CASE Replaced
  <2>1. PICK t \in Type : SetSources(t) /\ UNCHANGED task
    BY <1>3 DEF Replaced
  <2>2. NewSource(t) \in SourceRecord
    BY DEF NewSource, SourceRecord
  <2>3. sources' \in Seq(SourceRecord) /\ Len(sources') = Len(sources) + 1
    BY <2>1, <2>2, AppendProperties DEF SetSources
  <2>4. Object \subseteq Object' /\ attached' \in Object' /\ attached' = Len(sources')
    BY <2>1, <2>3 DEF SetSources, Object
  <2> QED
    BY <2>1, <2>3, <2>4 DEF SetSources
<1>4. CASE Worked
  <2>1. PICK c \in Client : SetUpSources(c) \/ TearDownSources(c)
    BY <1>4 DEF Worked
  <2> DEFINE o == task[c].source
  <2>2. task[c] # None /\ o \in Object /\ task[c] \in TaskRecord /\ UNCHANGED <<attached, replacedLate>>
    BY <2>1 DEF SetUpSources, TearDownSources
  <2>3. sources[o] \in SourceRecord
    BY <2>2 DEF Object
  <2>4. /\ \A m \in {"no", "device", "both"} : [sources[o] EXCEPT !.mount = m] \in SourceRecord
        /\ \A m \in {"no", "device", "both"} : [sources[o] EXCEPT !.mount = m, !.tree = TRUE] \in SourceRecord
    BY <2>3 DEF SourceRecord
  <2>5. sources' = sources \/ \E r \in SourceRecord : sources' = [sources EXCEPT ![o] = r]
    <3>1. CASE SetUpSources(c)
      BY <2>4, <3>1 DEF SetUpSources, Mount
    <3>2. CASE TearDownSources(c)
      <4>1. WithoutImage(sources[o].mount) \in {"no", "device", "both"}
        BY <2>3 DEF WithoutImage, SourceRecord
      <4> QED
        BY <2>4, <3>2, <4>1 DEF TearDownSources, Mount
    <3> QED
      BY <2>1, <3>1, <3>2
  <2>6. sources' \in Seq(SourceRecord) /\ Len(sources') = Len(sources)
    <3>1. ASSUME NEW r \in SourceRecord, sources' = [sources EXCEPT ![o] = r]
          PROVE  sources' \in Seq(SourceRecord) /\ Len(sources') = Len(sources)
      BY <2>2, <3>1, ExceptSeq DEF Object
    <3> QED
      BY <2>5, <3>1
  <2>7. \E at \in {"rest", "ok", "failed"} : Gets(c, at)
    BY <2>1 DEF SetUpSources, TearDownSources
  <2>8. PICK at \in {"rest", "ok", "failed"} : Gets(c, at)
    BY <2>7
  <2>9. [task[c] EXCEPT !.at = at] \in TaskRecord /\ [task[c] EXCEPT !.at = at].source = o
    BY <2>2 DEF TaskRecord
  <2> HIDE DEF o
  <2>10. task' \in [Client -> TaskRecord \cup {None}]
         /\ \A d \in Client : task'[d] # None => task'[d].source \in Object
    BY <2>2, <2>8, <2>9 DEF Gets
  <2> QED
    BY <2>2, <2>6, <2>10 DEF Object
<1>5. CASE Kept
  BY <1>5 DEF Kept, serviceVars, Object
<1> QED
  BY <1>1, <1>2, <1>3, <1>4, <1>5

\* A new task is for the attached source.
LEMMA MountCalled ==
  ASSUME ServiceTypes, MountInv, Called
  PROVE  MountInv'
<1>1. PICK c \in Client, kind \in {"set_up", "tear_down"} : task[c] = None /\ Start(c, kind)
  BY DEF Called
<1>2. UNCHANGED <<sources, attached, replacedLate>> /\ Object' = Object
  BY DEF Called, Object
<1>3. \A o \in Object : o # attached => (SettingUp(o)' => SettingUp(o))
  BY <1>1 DEF Start, SettingUp, ServiceTypes
<1>4. \A o \in Object : HalfSetUp(o) => HalfSetUp(o)'
  BY <1>1 DEF Start, HalfSetUp, ServiceTypes
<1> QED
  BY <1>2, <1>3, <1>4 DEF MountInv

\* A task that has a result is not between its steps.
LEMMA MountAnswered ==
  ASSUME ServiceTypes, MountInv, Answered
  PROVE  MountInv'
<1>1. PICK c \in Client, at \in {"ok", "failed"} : Returned(c, at)
  BY DEF Answered
<1>2. UNCHANGED <<sources, attached, replacedLate>> /\ Object' = Object
  BY <1>1 DEF Returned, Object
<1>3. \A o \in Object : SettingUp(o)' => SettingUp(o)
  BY <1>1 DEF Returned, SettingUp, ServiceTypes
<1>4. \A o \in Object : HalfSetUp(o) => HalfSetUp(o)'
  BY <1>1 DEF Returned, HalfSetUp, ServiceTypes
<1> QED
  BY <1>2, <1>3, <1>4 DEF MountInv

\* set_sources: a source that is not ready is not mounted, or is being set up.
LEMMA MountReplaced ==
  ASSUME ServiceTypes, MountInv, Replaced
  PROVE  MountInv'
<1>1. PICK t \in Type : SetSources(t) /\ UNCHANGED task
  BY DEF Replaced
<1> DEFINE new == Len(sources) + 1
<1>2. /\ Object' = Object \cup {new} /\ new \notin Object /\ attached' = new
      /\ \A o \in Object : sources'[o] = sources[o]
      /\ sources'[new] = NewSource(t)
  <2>1. NewSource(t) \in SourceRecord
    BY DEF NewSource, SourceRecord
  <2>2. sources' = Append(sources, NewSource(t)) /\ attached' = new
    BY <1>1 DEF SetSources
  <2> QED
    BY <2>1, <2>2, AppendProperties DEF ServiceTypes, Object
<1>3. replacedLate' = replacedLate \cup {o \in {attached} : SettingUp(o)}
  BY <1>1 DEF SetSources
<1>4. \A o : (SettingUp(o)' <=> SettingUp(o)) /\ (HalfSetUp(o)' <=> HalfSetUp(o))
  BY <1>1 DEF SettingUp, HalfSetUp
<1>5. \A o : HalfSetUp(o) => SettingUp(o)
  BY DEF HalfSetUp, SettingUp
<1>6. sources[attached].mount = "no" \/ SettingUp(attached)
  <2>1. attached \in Object /\ sources[attached] \in SourceRecord
    BY DEF ServiceTypes, Object
  <2>2. ~Ready(attached)
    BY <1>1 DEF SetSources, NoneReady
  <2>3. sources[attached].type \in {"CDROM", "HDD", "URL", "CDN"}
    BY <2>1 DEF SourceRecord, Type
  <2> QED
    BY <1>5, <2>1, <2>2, <2>3 DEF Ready, MountInv
<1>7. NewSource(t).mount = "no"
  BY DEF NewSource
<1> HIDE DEF new
<1> QED
  BY <1>2, <1>3, <1>4, <1>6, <1>7 DEF MountInv

\* The tasks: a set up leaves a drive without its tree only between its two steps,
\* and a source that is not attached any more is not mounted again.
LEMMA MountWorked ==
  ASSUME ServiceTypes, MountInv, Worked
  PROVE  MountInv'
<1>1. PICK c \in Client : SetUpSources(c) \/ TearDownSources(c)
  BY DEF Worked
<1>o. task[c] # None /\ task[c].source \in Object
  BY <1>1 DEF SetUpSources, TearDownSources, ServiceTypes
<1>p. PICK o \in Object : task[c].source = o
  BY <1>o
<1>2. /\ task[c] # None /\ task[c].source = o /\ o \in Object /\ UNCHANGED <<attached, replacedLate>>
      /\ sources[o] \in SourceRecord /\ task[c] \in TaskRecord
  BY <1>1, <1>p DEF SetUpSources, TearDownSources, ServiceTypes, Object
<1>3. PICK at \in {"rest", "ok", "failed"} : Gets(c, at)
  BY <1>1 DEF SetUpSources, TearDownSources
<1>4. /\ \A d \in Client : d # c => task'[d] = task[d]
      /\ task'[c] # None /\ task'[c] \in TaskRecord /\ task'[c].kind = task[c].kind /\ task'[c].source = o /\ task'[c].at = at
  <2>1. task'[c] = [task[c] EXCEPT !.at = at] /\ \A d \in Client : d # c => task'[d] = task[d]
    BY <1>2, <1>3 DEF Gets, ServiceTypes
  <2>2. task'[c] \in TaskRecord
    BY <1>2, <2>1 DEF TaskRecord
  <2> QED
    BY <1>2, <2>1, <2>2, SourcesAssumption DEF TaskRecord
<1>5. \A k \in Object : SettingUp(k)' => SettingUp(k)
  BY <1>2, <1>4 DEF SettingUp
<1>6. /\ Object' = Object
      /\ \A k \in Object : k # o => sources'[k] = sources[k]
      /\ sources'[o].type = sources[o].type
  BY <1>1, <1>2 DEF SetUpSources, TearDownSources, Mount, ServiceTypes, Object, SourceRecord
<1>7. \A k \in Object : k # o /\ HalfSetUp(k) => HalfSetUp(k)'
  BY <1>2, <1>4 DEF HalfSetUp
<1>8. CASE SetUpSources(c)
  <2>1. SettingUp(o)
    BY <1>2, <1>8 DEF SettingUp, SetUpSources
  <2>2. o = attached \/ o \in replacedLate
    BY <1>2, <2>1 DEF MountInv
  <2>3. sources[o].type \in {"URL", "CDN"} => sources'[o].mount = "no"
    <3> SUFFICES ASSUME sources[o].type \in {"URL", "CDN"}
                 PROVE  sources'[o].mount = "no"
      OBVIOUS
    <3>1. sources[o].mount = "no"
      BY <1>2 DEF MountInv
    <3>2. sources' = sources \/ sources' = [sources EXCEPT ![o].mount = "no"]
      BY <1>2, <1>8, <3>1 DEF SetUpSources, Mount
    <3> QED
      BY <1>2, <3>1, <3>2 DEF ServiceTypes, Object, SourceRecord
  <2>4. sources[o].type = "HDD" /\ sources'[o].mount # "no" /\ ~sources'[o].tree => HalfSetUp(o)'
    <3> SUFFICES ASSUME sources[o].type = "HDD", sources'[o].mount # "no", ~sources'[o].tree
                 PROVE  HalfSetUp(o)'
      OBVIOUS
    <3>1. CASE at = "rest"
      BY <1>2, <1>4, <1>8, <3>1 DEF HalfSetUp, SetUpSources, TaskRecord
    <3>2. CASE sources' = sources /\ task[c].at = "begin"
      <4>1. PICK d \in Client : /\ task[d] # None
                                /\ task[d].kind = "set_up" /\ task[d].source = o /\ task[d].at = "rest"
        BY <1>2, <3>2 DEF MountInv, HalfSetUp
      <4>2. d # c
        BY <3>2, <4>1
      <4> QED
        BY <1>4, <4>1, <4>2 DEF HalfSetUp
    <3>3. CASE sources' = [sources EXCEPT ![o].mount = "no"]
      BY <1>2, <3>3 DEF ServiceTypes, Object, SourceRecord
    <3>4. CASE \E m \in {"device", "both"} : sources' = [sources EXCEPT ![o].mount = m, ![o].tree = TRUE]
      BY <1>2, <3>4 DEF ServiceTypes, Object, SourceRecord
    <3>5. at = "rest" \/ (sources' = sources /\ task[c].at = "begin")
          \/ sources' = [sources EXCEPT ![o].mount = "no"]
          \/ \E m \in {"device", "both"} : sources' = [sources EXCEPT ![o].mount = m, ![o].tree = TRUE]
      <4>1. at = "rest" <=> Gets(c, "rest")
        BY <1>2, <1>3 DEF Gets, ServiceTypes, TaskRecord
      <4> QED
        BY <1>2, <1>8, <4>1 DEF SetUpSources, Mount
    <3> QED
      BY <3>1, <3>2, <3>3, <3>4, <3>5
  <2>5. /\ \A k \in Object : k # attached /\ k \notin replacedLate => sources'[k].mount = "no" /\ ~SettingUp(k)'
        /\ \A k \in Object : sources'[k].type \in {"URL", "CDN"} => sources'[k].mount = "no"
    BY <1>5, <1>6, <2>2, <2>3 DEF MountInv
  <2>6. \A k \in Object : sources'[k].type = "HDD" /\ sources'[k].mount # "no" /\ ~sources'[k].tree => HalfSetUp(k)'
    <3> SUFFICES ASSUME NEW k \in Object, sources'[k].type = "HDD", sources'[k].mount # "no", ~sources'[k].tree
                 PROVE  HalfSetUp(k)'
      OBVIOUS
    <3>1. CASE k = o
      BY <1>6, <2>4, <3>1
    <3>2. CASE k # o
      <4>1. HalfSetUp(k)
        BY <1>6, <3>2 DEF MountInv
      <4> QED
        BY <1>7, <3>2, <4>1
    <3> QED
      BY <3>1, <3>2
  <2> QED
    BY <1>2, <1>6, <2>5, <2>6 DEF MountInv
<1>9. CASE TearDownSources(c)
  <2>1. /\ sources[o].mount = "no" => sources'[o].mount = "no"
        /\ sources'[o].tree = sources[o].tree
    BY <1>2, <1>9 DEF TearDownSources, Mount, WithoutImage, ServiceTypes, Object, SourceRecord
  <2>2. HalfSetUp(o) => HalfSetUp(o)'
    <3>1. task[c].kind = "tear_down"
      BY <1>9 DEF TearDownSources
    <3> QED
      BY <1>4, <3>1 DEF HalfSetUp
  <2>3. /\ \A k \in Object : k # attached /\ k \notin replacedLate => sources'[k].mount = "no" /\ ~SettingUp(k)'
        /\ \A k \in Object : sources'[k].type \in {"URL", "CDN"} => sources'[k].mount = "no"
    BY <1>5, <1>6, <2>1 DEF MountInv
  <2>4. \A k \in Object : sources'[k].type = "HDD" /\ sources'[k].mount # "no" /\ ~sources'[k].tree => HalfSetUp(k)'
    <3> SUFFICES ASSUME NEW k \in Object, sources'[k].type = "HDD", sources'[k].mount # "no", ~sources'[k].tree
                 PROVE  HalfSetUp(k)'
      OBVIOUS
    <3>1. CASE k = o
      <4>1. HalfSetUp(k)
        BY <1>6, <2>1, <3>1 DEF MountInv
      <4> QED
        BY <2>2, <3>1, <4>1
    <3>2. CASE k # o
      <4>1. HalfSetUp(k)
        BY <1>6, <3>2 DEF MountInv
      <4> QED
        BY <1>7, <3>2, <4>1
    <3> QED
      BY <3>1, <3>2
  <2> QED
    BY <1>2, <1>6, <2>3, <2>4 DEF MountInv
<1> QED
  BY <1>1, <1>8, <1>9

LEMMA MountStep ==
  ASSUME ServiceTypes, MountInv, Called \/ Answered \/ Replaced \/ Worked \/ Kept
  PROVE  MountInv'
<1>1. CASE Kept
  BY <1>1 DEF Kept, serviceVars, MountInv, Object, SettingUp, HalfSetUp
<1> QED
  BY <1>1, MountCalled, MountAnswered, MountReplaced, MountWorked

-----------------------------------------------------------------------------
(* The clients.                                                            *)

\* What the calls of the clients are for the service.
LEMMA CallIs ==
  ASSUME NEW c \in Client
  PROVE  /\ \A kind \in {"set_up", "tear_down"} : Call(c, kind) => Called
         /\ \A at \in {"ok", "failed"} : Returned(c, at) => Answered
         /\ \A next : \A t \in Type : Attach(c, t, next) => Replaced
         /\ Refused => Kept
  BY DEF Call, Called, Returned, Answered, Attach, Replaced, Refused, Kept

LEMMA ServiceSteps ==
  ASSUME ClientTypes, [Next]_vars
  PROVE  Called \/ Answered \/ Replaced \/ Worked \/ Kept
<1>0. /\ Default \in Type /\ "CDROM" \in Type /\ "CDN" \in Type /\ wanted \in Type
      /\ "payload" \in Client /\ Sub \in Client /\ "main" \in Client
  BY SourcesAssumption DEF Type, Client, Sub, ClientTypes
<1>1. CASE Service
  BY <1>1 DEF Service, Worked
<1>2. CASE UpdateBaseRepo
  BY <1>0, <1>2, CallIs DEF UpdateBaseRepo, Kept
<1>3. CASE SwitchSource
  <2>1. CASE At(Sub, "revert")
    <3>1. overridden \in Type
      BY <2>1 DEF ClientTypes, At, Type
    <3> QED
      BY <1>0, <1>3, <2>1, <3>1, CallIs DEF SwitchSource, Kept, At
  <2>2. CASE ~At(Sub, "revert")
    BY <1>0, <1>3, <2>2, CallIs DEF SwitchSource, Kept
  <2> QED
    BY <2>1, <2>2
<1>4. CASE ApplySource
  BY <1>0, <1>4, CallIs DEF ApplySource, Kept
<1>5. CASE RestartThread \/ PayloadWaits \/ SubscriptionTask \/ RestartAfterSwitch
  BY <1>5 DEF RestartThread, PayloadWaits, SubscriptionTask, RestartAfterSwitch, Kept
<1>6. CASE Register \/ Unregister \/ EnterSource \/ RestartAfterApply \/ NetworkChanged
  BY <1>6 DEF Register, Unregister, EnterSource, RestartAfterApply, NetworkChanged, Kept
<1>7. CASE UNCHANGED vars
  BY <1>7 DEF vars, Kept
<1> QED
  BY <1>1, <1>2, <1>3, <1>4, <1>5, <1>6, <1>7 DEF Next, Payload, Subscription, Main

\* A step of one client leaves the others where they are.
LEMMA PcStep ==
  ASSUME ClientTypes, NEW c \in Client, NEW p, GoTo(c, p),
         c = "payload" => p \in PayloadPC, c = Sub => p \in SubscriptionPC, c = "main" => p \in MainPC
  PROVE  /\ pc' \in [Client -> PCs] /\ pc'[c] = p
         /\ \A d \in Client : d # c => pc'[d] = pc[d]
         /\ pc'["payload"] \in PayloadPC /\ pc'["subscription"] \in SubscriptionPC /\ pc'["main"] \in MainPC
<1>1. p \in PCs
  BY DEF PCs, Client, Sub
<1> QED
  BY <1>1 DEF ClientTypes, GoTo, Client, Sub

LEMMA RestartTypes ==
  ASSUME ClientTypes, NEW kind \in Kind, Restart(kind)
  PROVE  /\ pending' \in {"no", "waiting", "started"} /\ restartKind' \in Kind /\ dropped' \in BOOLEAN
         /\ UNCHANGED <<runKind, used>>
  BY DEF ClientTypes, Restart

LEMMA ClientPayload ==
  ASSUME ServiceTypes, ClientTypes, Payload
  PROVE  ClientTypes'
<1>0. "payload" \in Client /\ Sub \in Client /\ "payload" # Sub
  BY DEF Client, Sub
<1>1. CASE RestartThread
  <2>1. /\ pending' \in {"started", "no"} /\ runKind' \in Kind
        /\ GoTo("payload", "wait") \/ pc' = pc
        /\ UNCHANGED <<media, restartKind, used, dropped, subVars, userVars, crashed>>
    BY <1>1 DEF RestartThread, ClientTypes
  <2>2. CASE pc' = pc
    BY <2>1, <2>2 DEF ClientTypes, subVars, userVars
  <2>3. CASE GoTo("payload", "wait")
    BY <1>0, <2>1, <2>3, PcStep DEF ClientTypes, subVars, userVars, PayloadPC, Sub
  <2> QED
    BY <2>1, <2>2, <2>3
<1>2. CASE PayloadWaits
  <2>1. /\ \E p \in {"reset", "none"} : Goes("payload", p)
        /\ UNCHANGED <<media, payloadVars, subVars, userVars>>
    BY <1>2 DEF PayloadWaits
  <2>2. PICK p \in {"reset", "none"} : Goes("payload", p)
    BY <2>1
  <2> QED
    BY <1>0, <2>1, <2>2, PcStep DEF Goes, ClientTypes, payloadVars, subVars, userVars, PayloadPC, Sub
<1>3. CASE UpdateBaseRepo
  <2>1. UNCHANGED <<media, pending, restartKind, runKind, dropped, subVars, userVars>>
    BY <1>3 DEF UpdateBaseRepo
  <2>2. \/ \E p \in PayloadPC : Goes("payload", p)
        \/ UNCHANGED pc /\ crashed' \in {crashed, TRUE}
    BY <1>3 DEF UpdateBaseRepo, Call, Attach, Failed, Crash, PayloadPC
  <2>3. used' \in {used, 0} \/ (task["payload"] # None /\ used' = task["payload"].source)
    BY <1>3 DEF UpdateBaseRepo, Returned, Failed
  <2>4. used' \in Nat
    BY <1>0, <2>3 DEF ServiceTypes, ClientTypes, Object
  <2>5. CASE \E p \in PayloadPC : Goes("payload", p)
    <3>1. PICK p \in PayloadPC : Goes("payload", p)
      BY <2>5
    <3> QED
      BY <1>0, <2>1, <2>4, <3>1, PcStep DEF Goes, ClientTypes, subVars, userVars, Sub
  <2>6. CASE UNCHANGED pc /\ crashed' \in {crashed, TRUE}
    BY <2>1, <2>4, <2>6 DEF ClientTypes, subVars, userVars
  <2> QED
    BY <2>2, <2>5, <2>6
<1> QED
  BY <1>1, <1>2, <1>3 DEF Payload

LEMMA ClientSubscription ==
  ASSUME ServiceTypes, ClientTypes, Subscription
  PROVE  ClientTypes'
<1>0. Sub \in Client /\ Sub # "main" /\ Sub # "payload" /\ Sub = "subscription"
  BY DEF Client, Sub
<1>1. CASE SubscriptionTask
  <2>1. UNCHANGED <<media, payloadVars, overridden, override, bySpoke, userVars>>
    BY <1>1 DEF SubscriptionTask
  <2>2. registered' \in BOOLEAN /\ subscribed' \in BOOLEAN
    BY <1>1 DEF SubscriptionTask, Becomes, ClientTypes
  <2>3. \/ \E p \in SubscriptionPC \ {"back", "revert"} : Goes(Sub, p)
        \/ UNCHANGED pc /\ crashed' = TRUE
    BY <1>1 DEF SubscriptionTask, Ends, Crash, SubscriptionPC
  <2>4. CASE \E p \in SubscriptionPC \ {"back", "revert"} : Goes(Sub, p)
    <3>1. PICK p \in SubscriptionPC \ {"back", "revert"} : Goes(Sub, p)
      BY <2>4
    <3> QED
      BY <1>0, <2>1, <2>2, <3>1, PcStep DEF Goes, ClientTypes, payloadVars, userVars
  <2>5. CASE UNCHANGED pc /\ crashed' = TRUE
    BY <2>1, <2>2, <2>5 DEF ClientTypes, payloadVars, userVars
  <2> QED
    BY <2>3, <2>4, <2>5
<1>2. CASE SwitchSource
  <2>1. UNCHANGED <<media, payloadVars, registered, subscribed, overridden, bySpoke, userVars>>
    BY <1>2 DEF SwitchSource
  <2>2. override' \in Int
    <3>1. override' \in {override, attached', -attached', 0}
      BY <1>2 DEF SwitchSource
    <3>2. Attach(Sub, "CDN", "restart") => attached' \in Int
      BY DEF Attach, SetSources, ServiceTypes
    <3>3. override' \in {override, 0} \/ Attach(Sub, "CDN", "restart")
      BY <1>2 DEF SwitchSource
    <3> QED
      BY <3>1, <3>2, <3>3 DEF ClientTypes
  <2>3. \/ \E p \in SubscriptionPC : Goes(Sub, p) /\ (p \in {"back", "revert"} => overridden = "CDROM")
        \/ UNCHANGED pc /\ crashed' \in {crashed, TRUE}
    <3>1. CASE At(Sub, "check")
      BY <1>0, <1>2, <3>1 DEF SwitchSource, At, Overridden, ClientTypes, SubscriptionPC
    <3>2. CASE At(Sub, "drop")
      BY <1>0, <1>2, <3>2 DEF SwitchSource, At, Call, Crash, SubscriptionPC
    <3>3. CASE At(Sub, "back")
      BY <1>0, <1>2, <3>3 DEF SwitchSource, At, Call, Crash, ClientTypes, SubscriptionPC
    <3>4. CASE At(Sub, "override")
      BY <1>0, <1>2, <3>4 DEF SwitchSource, At, Attach, Crash, SubscriptionPC
    <3>5. CASE At(Sub, "revert")
      BY <1>0, <1>2, <3>5 DEF SwitchSource, At, Attach, Crash, SubscriptionPC
    <3> QED
      BY <1>2, <3>1, <3>2, <3>3, <3>4, <3>5 DEF SwitchSource
  <2>4. CASE \E p \in SubscriptionPC : Goes(Sub, p) /\ (p \in {"back", "revert"} => overridden = "CDROM")
    <3>1. PICK p \in SubscriptionPC : Goes(Sub, p) /\ (p \in {"back", "revert"} => overridden = "CDROM")
      BY <2>4
    <3> QED
      BY <1>0, <2>1, <2>2, <3>1, PcStep DEF Goes, ClientTypes, payloadVars, userVars
  <2>5. CASE UNCHANGED pc /\ crashed' \in {crashed, TRUE}
    BY <2>1, <2>2, <2>5 DEF ClientTypes, payloadVars, userVars
  <2> QED
    BY <2>3, <2>4, <2>5
<1>3. CASE RestartAfterSwitch
  <2>1. Goes(Sub, "none") /\ UNCHANGED <<media, subVars, userVars>>
    BY <1>3 DEF RestartAfterSwitch, Ends
  <2>2. Restart("again") \/ UNCHANGED payloadVars
    BY <1>3 DEF RestartAfterSwitch
  <2>3. /\ pending' \in {"no", "waiting", "started"} /\ restartKind' \in Kind /\ dropped' \in BOOLEAN
        /\ UNCHANGED <<runKind, used>>
    BY <2>2, RestartTypes DEF Kind, payloadVars, ClientTypes
  <2> QED
    BY <1>0, <2>1, <2>3, PcStep DEF Goes, ClientTypes, subVars, userVars, SubscriptionPC
<1> QED
  BY <1>1, <1>2, <1>3 DEF Subscription

LEMMA ClientMain ==
  ASSUME ServiceTypes, ClientTypes, Main
  PROVE  ClientTypes'
<1>0. /\ Sub \in Client /\ "main" \in Client /\ Sub # "main" /\ Sub # "payload" /\ Sub = "subscription"
      /\ MaxActs \in Nat
  BY SourcesAssumption DEF Client, Sub
<1>1. CASE Register
  <2>1. /\ pc[Sub] = "none" /\ overridden' \in {"no", "CDROM"} /\ bySpoke' = TRUE /\ Goes(Sub, "connect")
        /\ acts' \in 0..MaxActs
        /\ UNCHANGED <<media, payloadVars, registered, subscribed, override, wanted>>
    BY <1>0, <1>1 DEF Register, At, Acts, ClientTypes
  <2> QED
    BY <1>0, <2>1, PcStep DEF Goes, ClientTypes, payloadVars, SubscriptionPC
<1>2. CASE Unregister
  <2>1. /\ bySpoke' = TRUE /\ Goes(Sub, "unregister") /\ acts' \in 0..MaxActs
        /\ UNCHANGED <<media, payloadVars, registered, subscribed, overridden, override, wanted>>
    BY <1>0, <1>2 DEF Unregister, Acts, ClientTypes
  <2> QED
    BY <1>0, <2>1, PcStep DEF Goes, ClientTypes, payloadVars, SubscriptionPC
<1>3. CASE EnterSource
  <2>1. /\ Goes("main", "source") /\ acts' \in 0..MaxActs
        /\ UNCHANGED <<media, payloadVars, subVars, wanted>>
    BY <1>0, <1>3 DEF EnterSource, Acts, ClientTypes
  <2> QED
    BY <1>0, <2>1, PcStep DEF Goes, ClientTypes, payloadVars, subVars, MainPC
<1>4. CASE ApplySource
  <2>1. UNCHANGED <<media, payloadVars, registered, subscribed, overridden, bySpoke, acts>>
    BY <1>4 DEF ApplySource
  <2>2. override' \in Int /\ wanted' \in Type
    BY <1>4 DEF ApplySource, ClientTypes
  <2>3. \/ \E p \in MainPC : Goes("main", p)
        \/ UNCHANGED pc /\ crashed' \in {crashed, TRUE}
    BY <1>4 DEF ApplySource, Call, Attach, Crash, MainPC
  <2>4. CASE \E p \in MainPC : Goes("main", p)
    <3>1. PICK p \in MainPC : Goes("main", p)
      BY <2>4
    <3> QED
      BY <1>0, <2>1, <2>2, <3>1, PcStep DEF Goes, ClientTypes, payloadVars
  <2>5. CASE UNCHANGED pc /\ crashed' \in {crashed, TRUE}
    BY <2>1, <2>2, <2>5 DEF ClientTypes, payloadVars
  <2> QED
    BY <2>3, <2>4, <2>5
<1>5. CASE RestartAfterApply
  <2>1. Goes("main", "idle") /\ UNCHANGED <<media, subVars, userVars>>
    BY <1>5 DEF RestartAfterApply
  <2>2. Restart("again") \/ UNCHANGED payloadVars
    BY <1>5 DEF RestartAfterApply
  <2>3. /\ pending' \in {"no", "waiting", "started"} /\ restartKind' \in Kind /\ dropped' \in BOOLEAN
        /\ UNCHANGED <<runKind, used>>
    BY <2>2, RestartTypes DEF Kind, payloadVars, ClientTypes
  <2> QED
    BY <1>0, <2>1, <2>3, PcStep DEF Goes, ClientTypes, subVars, userVars, MainPC
<1>6. CASE NetworkChanged
  <2>1. /\ pending' \in {"no", "waiting", "started"} /\ restartKind' \in Kind /\ dropped' \in BOOLEAN
        /\ UNCHANGED <<runKind, used>>
    BY <1>6, RestartTypes DEF NetworkChanged, Kind
  <2>2. acts' \in 0..MaxActs /\ UNCHANGED <<media, pc, subVars, wanted, crashed>>
    BY <1>0, <1>6 DEF NetworkChanged, Acts, ClientTypes
  <2> QED
    BY <2>1, <2>2 DEF ClientTypes, subVars
<1> QED
  BY <1>1, <1>2, <1>3, <1>4, <1>5, <1>6 DEF Main

LEMMA TypesInit ==
  ASSUME Init
  PROVE  ServiceTypes /\ MountInv /\ ClientTypes
<1>1. PICK t \in First : sources = <<NewSource(t)>> /\ wanted = t
  BY DEF Init
<1>2. t \in Type /\ NewSource(t) \in SourceRecord
  BY SourcesAssumption DEF NewSource, SourceRecord
<1>3. /\ sources \in Seq(SourceRecord) /\ Len(sources) = 1 /\ Object = {1} /\ sources[1] = NewSource(t)
  BY <1>1, <1>2 DEF Object
<1>4. ServiceTypes
  BY <1>3 DEF Init, ServiceTypes
<1>5. MountInv
  <2>1. NewSource(t).mount = "no"
    BY DEF NewSource
  <2> QED
    BY <1>3, <2>1 DEF Init, MountInv, SettingUp
<1>6. ClientTypes
  <2>1. PICK s \in {"none", "connect"} :
          pc = [c \in Client |-> CASE c = "payload" -> "none" [] c = "main" -> "idle" [] OTHER -> s]
    BY DEF Init
  <2>2. /\ pc["payload"] = "none" /\ pc["main"] = "idle" /\ pc[Sub] = s
        /\ pc \in [Client -> {"none", "idle", "connect"}]
    BY <2>1 DEF Client, Sub
  <2>3. /\ pc \in [Client -> PCs]
        /\ pc["payload"] \in PayloadPC /\ pc["subscription"] \in SubscriptionPC /\ pc["main"] \in MainPC
        /\ pc[Sub] \notin {"back", "revert"}
    BY <2>2 DEF PCs, PayloadPC, SubscriptionPC, MainPC, Sub
  <2>4. wanted \in Type /\ 0 \in 0..MaxActs
    BY <1>1, <1>2, SourcesAssumption
  <2>5. /\ media \in BOOLEAN /\ pending = "waiting" /\ restartKind = "boot" /\ runKind = "boot"
        /\ registered \in BOOLEAN /\ subscribed \in BOOLEAN /\ overridden = "no" /\ override = 0
        /\ bySpoke \in BOOLEAN /\ used = 0 /\ dropped \in BOOLEAN /\ crashed \in BOOLEAN /\ acts = 0
    BY DEF Init
  <2> QED
    BY <2>3, <2>4, <2>5 DEF ClientTypes, Kind
<1> QED
  BY <1>4, <1>5, <1>6

LEMMA TypesAlways == Spec => [](ServiceTypes /\ MountInv /\ ClientTypes)
<1>1. ServiceTypes /\ MountInv /\ ClientTypes /\ [Next]_vars => ServiceTypes' /\ MountInv' /\ ClientTypes'
  <2> SUFFICES ASSUME ServiceTypes, MountInv, ClientTypes, [Next]_vars
               PROVE  ServiceTypes' /\ MountInv' /\ ClientTypes'
    OBVIOUS
  <2>1. ServiceTypes' /\ MountInv'
    BY ServiceSteps, ServiceTypesStep, MountStep
  <2>2. CASE Service \/ UNCHANGED vars
    <3>1. UNCHANGED <<media, pc, payloadVars, subVars, userVars, crashed>>
      BY <2>2 DEF Service, vars
    <3>2. ClientTypes'
      BY <3>1 DEF ClientTypes, payloadVars, subVars, userVars
    <3> QED
      BY <2>1, <3>2
  <2> QED
    BY <2>1, <2>2, ClientPayload, ClientSubscription, ClientMain DEF Next
<1> QED
  BY <1>1, TypesInit, PTL DEF Spec

\* Type correctness of the sources, the tasks and the three threads that use them.
THEOREM SourcesTypeCorrect == Spec => []TypeOK
<1>1. ServiceTypes /\ ClientTypes => TypeOK
  BY DEF ServiceTypes, ClientTypes, TypeOK, SourceRecord
<1> QED
  BY <1>1, TypesAlways, PTL

\* No mount point is lost: a source that was replaced is not mounted, unless a set
\* up task had it when it was replaced.  set_sources refuses to replace a source
\* that is ready, and a source that is mounted is ready or has such a task.
THEOREM MountsAreNotLost == Spec => []NoLostMount
<1>1. MountInv => NoLostMount
  BY DEF MountInv, NoLostMount
<1> QED
  BY <1>1, TypesAlways, PTL

-----------------------------------------------------------------------------
(* The subscription.                                                       *)

\* The CDN source of a registration is attached only while the registration holds:
\* the spoke remembers what it replaced, and the subscription thread is the only
\* one that unsubscribes.
OverrideInv ==
    /\ override <= attached
    /\ pc[Sub] \in {"connect", "register", "attach"} => attached # override
    /\ pc[Sub] \in {"parse", "drop", "override", "restart"} => subscribed
    /\ attached = override =>
           /\ overridden = "CDROM" /\ AttachedType = "CDN"
           /\ subscribed \/ pc[Sub] \in {"check", "back", "revert"}

\* The attached source keeps its type, or there is a new one.
LEMMA AttachedStep ==
  ASSUME ServiceTypes, ServiceTypes', Called \/ Answered \/ Replaced \/ Worked \/ Kept
  PROVE  \/ attached' = attached /\ AttachedType' = AttachedType
         \/ attached' = attached + 1
<1>1. CASE Called \/ Answered \/ Kept
  BY <1>1 DEF Called, Answered, Returned, Kept, serviceVars, AttachedType
<1>2. CASE Replaced
  BY <1>2 DEF Replaced, SetSources, ServiceTypes
<1>3. CASE Worked
  <2>1. PICK c \in Client : SetUpSources(c) \/ TearDownSources(c)
    BY <1>3 DEF Worked
  <2>2. task[c].source \in Object /\ attached \in Object /\ attached' = attached
        /\ sources \in Seq(SourceRecord)
    BY <2>1 DEF SetUpSources, TearDownSources, ServiceTypes
  <2>3. PICK o \in Object : task[c].source = o /\ sources[o] \in SourceRecord
    BY <2>2 DEF Object
  <2>4. /\ \A k \in Object : k # o => sources'[k] = sources[k]
        /\ sources'[o].type = sources[o].type
    BY <2>1, <2>2, <2>3 DEF SetUpSources, TearDownSources, Mount, Object, SourceRecord
  <2> QED
    BY <2>2, <2>3, <2>4 DEF AttachedType
<1> QED
  BY <1>1, <1>2, <1>3

LEMMA OverrideKept ==
  ASSUME OverrideInv, ServiceTypes, ClientTypes, UNCHANGED <<override, overridden, subscribed>>, pc'[Sub] = pc[Sub],
         (attached' = attached /\ AttachedType' = AttachedType) \/ attached' = attached + 1
  PROVE  OverrideInv'
  BY DEF OverrideInv, ServiceTypes, ClientTypes, Object

LEMMA OverrideSubscription ==
  ASSUME OverrideInv, ServiceTypes, ServiceTypes', ClientTypes, Subscription
  PROVE  OverrideInv'
<1>0. Sub \in Client /\ attached \in Nat /\ attached >= 1 /\ override \in Int /\ pc \in [Client -> PCs]
  BY DEF Client, Sub, ServiceTypes, ClientTypes, Object
<1>1. CASE SubscriptionTask
  <2>1. UNCHANGED <<sources, attached, overridden, override>> /\ AttachedType' = AttachedType
    BY <1>1 DEF SubscriptionTask, serviceVars, AttachedType
  <2>2. CASE At(Sub, "connect")
    BY <1>0, <1>1, <2>1, <2>2 DEF SubscriptionTask, At, Becomes, Goes, GoTo, Crash, Ends, OverrideInv
  <2>3. CASE At(Sub, "register")
    BY <1>0, <1>1, <2>1, <2>3 DEF SubscriptionTask, At, Becomes, Goes, GoTo, Crash, Ends, OverrideInv
  <2>4. CASE At(Sub, "attach")
    BY <1>0, <1>1, <2>1, <2>4 DEF SubscriptionTask, At, Becomes, Goes, GoTo, Crash, Ends, OverrideInv
  <2>5. CASE At(Sub, "parse")
    BY <1>0, <1>1, <2>1, <2>5 DEF SubscriptionTask, At, Becomes, Goes, GoTo, Crash, Ends, OverrideInv
  <2>6. CASE At(Sub, "unregister")
    BY <1>0, <1>1, <2>1, <2>6 DEF SubscriptionTask, At, Becomes, Goes, GoTo, Crash, Ends, OverrideInv
  <2> QED
    BY <1>1, <2>2, <2>3, <2>4, <2>5, <2>6 DEF SubscriptionTask
<1>2. CASE SwitchSource
  <2>1. UNCHANGED <<subscribed, overridden>>
    BY <1>2 DEF SwitchSource
  <2>2. CASE At(Sub, "check")
    <3>1. /\ Goes(Sub, IF AttachedType # "CDN" THEN "none" ELSE IF Overridden THEN "back" ELSE "refresh")
          /\ UNCHANGED <<sources, attached, override>> /\ AttachedType' = AttachedType
      BY <1>2, <2>2 DEF SwitchSource, At, serviceVars, AttachedType
    <3> QED
      BY <1>0, <2>1, <3>1 DEF Goes, GoTo, OverrideInv, Overridden
  <2>3. CASE At(Sub, "drop") \/ At(Sub, "back")
    <3>1. UNCHANGED <<sources, attached, override>> /\ AttachedType' = AttachedType
      BY <1>2, <2>3 DEF SwitchSource, At, Call, Returned, AttachedType
    <3>2. CASE At(Sub, "drop")
      <4>1. pc'[Sub] \in {"drop", "override"}
        BY <1>0, <1>2, <3>2 DEF SwitchSource, At, Call, Crash, Goes, GoTo
      <4> QED
        BY <1>0, <2>1, <3>1, <3>2, <4>1 DEF At, OverrideInv
    <3>3. CASE At(Sub, "back")
      <4>1. pc'[Sub] \in {"back", "revert"}
        BY <1>0, <1>2, <3>3 DEF SwitchSource, At, Call, Crash, Goes, GoTo
      <4> QED
        BY <1>0, <2>1, <3>1, <3>3, <4>1 DEF At, OverrideInv
    <3> QED
      BY <2>3, <3>2, <3>3
  <2>4. CASE At(Sub, "override")
    <3>1. CASE Attach(Sub, "CDN", "restart") /\ override' = IF overridden = "CDROM" THEN attached' ELSE -attached'
      <4>1. attached' = attached + 1 /\ AttachedType' = "CDN"
        <5>1. sources' = Append(sources, NewSource("CDN")) /\ attached' = Len(sources) + 1
          BY <3>1 DEF Attach, SetSources
        <5>2. NewSource("CDN") \in SourceRecord /\ NewSource("CDN").type = "CDN"
          BY DEF NewSource, SourceRecord, Type
        <5> QED
          BY <5>1, <5>2, AppendProperties DEF ServiceTypes, AttachedType
      <4>2. pc'[Sub] = "restart" /\ subscribed
        BY <1>0, <2>4, <3>1 DEF Attach, Goes, GoTo, At, OverrideInv
      <4> QED
        BY <1>0, <2>1, <3>1, <4>1, <4>2 DEF OverrideInv
    <3>2. CASE Refused /\ Crash /\ UNCHANGED override
      BY <2>1, <3>2 DEF Refused, Crash, serviceVars, AttachedType, OverrideInv
    <3> QED
      BY <1>2, <2>4, <3>1, <3>2 DEF SwitchSource, At
  <2>5. CASE At(Sub, "revert")
    <3>1. CASE Attach(Sub, overridden, "refresh") /\ override' = 0
      <4>1. attached' = attached + 1 /\ pc'[Sub] = "refresh"
        BY <1>0, <3>1 DEF Attach, SetSources, Goes, GoTo, ServiceTypes
      <4> QED
        BY <1>0, <3>1, <4>1 DEF OverrideInv
    <3>2. CASE Refused /\ Crash /\ UNCHANGED override
      BY <2>1, <3>2 DEF Refused, Crash, serviceVars, AttachedType, OverrideInv
    <3> QED
      BY <1>2, <2>5, <3>1, <3>2 DEF SwitchSource, At
  <2> QED
    BY <1>2, <2>2, <2>3, <2>4, <2>5 DEF SwitchSource
<1>3. CASE RestartAfterSwitch
  <2>1. /\ pc[Sub] \in {"refresh", "restart"} /\ pc'[Sub] = "none"
        /\ UNCHANGED <<sources, attached, override, overridden, subscribed>>
    BY <1>0, <1>3 DEF RestartAfterSwitch, At, Ends, Goes, GoTo, serviceVars, subVars
  <2> QED
    BY <2>1 DEF OverrideInv, AttachedType
<1> QED
  BY <1>1, <1>2, <1>3 DEF Subscription

LEMMA OverrideMain ==
  ASSUME OverrideInv, ServiceTypes, ServiceTypes', ClientTypes, Main,
         (attached' = attached /\ AttachedType' = AttachedType) \/ attached' = attached + 1
  PROVE  OverrideInv'
<1>0. /\ Sub \in Client /\ "main" \in Client /\ Sub # "main" /\ attached >= 1 /\ attached \in Nat
      /\ override \in Int /\ pc \in [Client -> PCs]
  BY DEF Client, Sub, ServiceTypes, ClientTypes, Object
<1>1. CASE Register
  <2>1. /\ pc[Sub] = "none" /\ ~subscribed /\ pc'[Sub] = "connect"
        /\ UNCHANGED <<serviceVars, subscribed, override>>
    BY <1>0, <1>1 DEF Register, At, Goes, GoTo
  <2>2. attached # override
    BY <2>1 DEF OverrideInv
  <2> QED
    BY <2>1, <2>2 DEF OverrideInv, serviceVars
<1>2. CASE Unregister
  <2>1. /\ pc'[Sub] = "unregister" /\ subscribed
        /\ UNCHANGED <<serviceVars, subscribed, overridden, override>>
    BY <1>0, <1>2 DEF Unregister, At, Goes, GoTo
  <2> QED
    BY <2>1 DEF OverrideInv, serviceVars, AttachedType
<1>3. CASE EnterSource \/ RestartAfterApply \/ NetworkChanged
  <2>1. UNCHANGED <<override, overridden, subscribed>> /\ pc'[Sub] = pc[Sub]
    BY <1>0, <1>3 DEF EnterSource, RestartAfterApply, NetworkChanged, Goes, GoTo, subVars
  <2> QED
    BY <2>1, OverrideKept
<1>4. CASE ApplySource
  <2>1. UNCHANGED <<subscribed, overridden>> /\ pc'[Sub] = pc[Sub]
    BY <1>0, <1>4 DEF ApplySource, Call, Attach, Crash, Goes, GoTo
  <2>2. override' = override \/ (override' = 0 /\ attached' = attached + 1)
    BY <1>4 DEF ApplySource, Attach, SetSources, ServiceTypes
  <2>3. CASE override' = override
    BY <2>1, <2>3, OverrideKept
  <2>4. CASE override' = 0 /\ attached' = attached + 1
    BY <1>0, <2>1, <2>4 DEF OverrideInv
  <2> QED
    BY <2>2, <2>3, <2>4
<1> QED
  BY <1>1, <1>2, <1>3, <1>4 DEF Main

\* The CDN source of a registration stays no longer than the subscription, however
\* the three threads interleave and whichever step of the registration fails.
THEOREM OverridesAreRegistered == Spec => []OverrideIsRegistered
<1>1. Init => OverrideInv
  <2> SUFFICES ASSUME Init
               PROVE  OverrideInv
    OBVIOUS
  <2>1. PICK s \in {"none", "connect"} :
          pc = [c \in Client |-> CASE c = "payload" -> "none" [] c = "main" -> "idle" [] OTHER -> s]
    BY DEF Init
  <2>2. pc[Sub] = s
    BY <2>1 DEF Client, Sub
  <2> QED
    BY <2>2 DEF Init, OverrideInv
<1>2. ServiceTypes /\ ServiceTypes' /\ ClientTypes /\ OverrideInv /\ [Next]_vars => OverrideInv'
  <2> SUFFICES ASSUME ServiceTypes, ServiceTypes', ClientTypes, OverrideInv, [Next]_vars
               PROVE  OverrideInv'
    OBVIOUS
  <2>1. (attached' = attached /\ AttachedType' = AttachedType) \/ attached' = attached + 1
    BY ServiceSteps, AttachedStep
  <2>2. CASE Service \/ Payload \/ UNCHANGED vars
    <3>1. UNCHANGED <<override, overridden, subscribed>>
      BY <2>2 DEF Service, Payload, RestartThread, PayloadWaits, UpdateBaseRepo, vars, subVars
    <3>2. pc'[Sub] = pc[Sub]
      <4>1. pc \in [Client -> PCs] /\ Sub \in Client /\ Sub # "payload"
        BY DEF ClientTypes, Client, Sub
      <4>2. CASE Service \/ UNCHANGED vars
        BY <4>2 DEF Service, vars
      <4>3. CASE RestartThread \/ PayloadWaits
        BY <4>1, <4>3 DEF RestartThread, PayloadWaits, Goes, GoTo
      <4>4. CASE UpdateBaseRepo
        <5>1. pc' = pc \/ \E p \in PayloadPC : GoTo("payload", p)
          BY <4>4 DEF UpdateBaseRepo, Call, Attach, Failed, Crash, Goes, PayloadPC
        <5> QED
          BY <4>1, <5>1 DEF GoTo
      <4> QED
        BY <2>2, <4>2, <4>3, <4>4 DEF Payload
    <3> QED
      BY <2>1, <3>1, <3>2, OverrideKept
  <2> QED
    BY <2>1, <2>2, OverrideSubscription, OverrideMain DEF Next
<1>3. OverrideInv => OverrideIsRegistered
  BY DEF OverrideInv, OverrideIsRegistered
<1> QED
  BY <1>1, <1>2, <1>3, TypesAlways, PTL DEF Spec


-----------------------------------------------------------------------------
(* The packages.                                                           *)

\* A registration of the kickstart holds the first run of the payload back.
BootWaits ==
    ~bySpoke /\ pc[Sub] # "none" =>
        \/ pc["payload"] = "none" /\ pending = "waiting" /\ restartKind = "boot"
        \/ pc["payload"] = "wait" /\ runKind = "boot"

Idle == pc["payload"] \in {"media", "default"} => task["payload"] = None

\* This run of the payload has still to set a source up.
WillSetUp ==
    \/ pc["payload"] = "wait" /\ runKind # "changed"
    \/ pc["payload"] \in {"reset", "media", "setup", "drop", "default", "again"}

\* Somebody has asked for another run or is about to, or the CDN is not tried.
Owed ==
    \/ pending = "waiting" /\ restartKind # "changed"
    \/ pc["main"] = "restart"
    \/ pc[Sub] = "refresh"
    \/ pc[Sub] \in {"parse", "restart"} /\ bySpoke /\ AttachedType = "CDN"
    \/ AttachedType = "CDN" /\ ~subscribed

\* What was set up last is attached, or will be replaced by what is; and what is
\* being set up is attached, or another run follows.
SetUpLast == used \in {0, attached} \/ WillSetUp \/ Owed
SetsUpThis ==
    pc["payload"] \in {"setup", "again"} /\ task["payload"] # None =>
        task["payload"].source = attached \/ Owed

FollowInv == Idle /\ BootWaits /\ (crashed \/ dropped \/ (SetUpLast /\ SetsUpThis))

\* A task works on the source it was made for.
LEMMA WorkedTask ==
  ASSUME ServiceTypes, Worked, NEW d \in Client
  PROVE  /\ task'[d] = None <=> task[d] = None
         /\ task[d] # None => task'[d].source = task[d].source
<1>1. PICK c \in Client : SetUpSources(c) \/ TearDownSources(c)
  BY DEF Worked
<1>2. task[c] # None /\ task[c] \in TaskRecord /\ task \in [Client -> TaskRecord \cup {None}]
  BY <1>1 DEF SetUpSources, TearDownSources, ServiceTypes
<1>3. PICK at \in {"rest", "ok", "failed"} : Gets(c, at)
  BY <1>1 DEF SetUpSources, TearDownSources
<1>4. CASE d = c
  <2>1. task'[c] = [task[c] EXCEPT !.at = at]
    BY <1>2, <1>3 DEF Gets
  <2>2. task'[c] \in TaskRecord /\ task'[c].source = task[c].source
    BY <1>2, <2>1 DEF TaskRecord
  <2> QED
    BY <1>2, <1>4, <2>2, SourcesAssumption
<1>5. CASE d # c
  BY <1>2, <1>3, <1>5 DEF Gets
<1> QED
  BY <1>4, <1>5

\* The calls of the other clients leave the task of the payload alone.
LEMMA OthersTask ==
  ASSUME ServiceTypes, NEW c \in Client, c # "payload",
         \/ \E kind \in {"set_up", "tear_down"} : Call(c, kind)
         \/ \E at \in {"ok", "failed"} : Returned(c, at)
         \/ UNCHANGED task
  PROVE  task'["payload"] = task["payload"]
<1>1. task \in [Client -> TaskRecord \cup {None}] /\ "payload" \in Client
  BY DEF ServiceTypes, Client
<1> QED
  BY <1>1 DEF Call, Start, Returned

\* A step of another client is harmless if nothing is owed and the source stays, or
\* if something is owed after it.
LEMMA FollowOthers ==
  ASSUME FollowInv, pc'["payload"] = pc["payload"], UNCHANGED <<runKind, used>>,
         task'["payload"] = None <=> task["payload"] = None,
         task["payload"] # None => task'["payload"].source = task["payload"].source,
         crashed => crashed', dropped => dropped',
         UNCHANGED <<pending, restartKind>> \/ pending = "no",
         ~bySpoke' /\ pc'[Sub] # "none" => ~bySpoke /\ pc[Sub] # "none",
         \/ crashed' \/ dropped' \/ Owed'
         \/ ~bySpoke' /\ pc'[Sub] # "none"
         \/ attached' = attached /\ ~Owed
  PROVE  FollowInv'
<1>1. Idle'
  BY DEF FollowInv, Idle
<1>2. BootWaits'
  BY DEF FollowInv, BootWaits
<1>3. ASSUME ~crashed', ~dropped'
      PROVE  SetUpLast' /\ SetsUpThis'
  <2>1. SetUpLast /\ SetsUpThis
    BY <1>3 DEF FollowInv
  <2>2. CASE Owed'
    BY <2>2 DEF SetUpLast, SetsUpThis
  <2>3. CASE ~bySpoke' /\ pc'[Sub] # "none"
    BY <1>2, <2>3 DEF BootWaits, SetUpLast, SetsUpThis, WillSetUp, Owed
  <2>4. CASE attached' = attached /\ ~Owed
    BY <2>1, <2>4 DEF SetUpLast, SetsUpThis, WillSetUp
  <2> QED
    BY <1>3, <2>2, <2>3, <2>4
<1> QED
  BY <1>1, <1>2, <1>3 DEF FollowInv

\* What is owed depends on these variables only.
LEMMA OwedSame ==
  ASSUME UNCHANGED <<pending, restartKind, bySpoke, subscribed>>, AttachedType' = AttachedType,
         pc'["main"] = pc["main"], pc'[Sub] = pc[Sub]
  PROVE  Owed' <=> Owed
  BY DEF Owed

LEMMA FollowService ==
  ASSUME ServiceTypes, ServiceTypes', FollowInv, Service \/ UNCHANGED vars
  PROVE  FollowInv'
<1>1. UNCHANGED <<pc, pending, restartKind, runKind, used, dropped, bySpoke, subscribed, crashed>>
  BY DEF Service, vars, payloadVars, subVars
<1>2. Worked \/ Kept
  BY DEF Service, Worked, vars, Kept
<1>3. attached' = attached /\ AttachedType' = AttachedType
  <2>a. attached' = attached
    BY <1>2 DEF Worked, SetUpSources, TearDownSources, Kept, serviceVars
  <2>b. attached \in Nat
    BY DEF ServiceTypes, Object
  <2>1. attached' = attached /\ attached \in Nat
    BY <2>a, <2>b
  <2>2. attached' # attached + 1
    BY <2>1
  <2> QED
    BY <1>2, <2>1, <2>2, AttachedStep
<1>4. "payload" \in Client
  BY DEF Client
<1>5. /\ task'["payload"] = None <=> task["payload"] = None
      /\ task["payload"] # None => task'["payload"].source = task["payload"].source
  BY <1>2, <1>4, WorkedTask DEF Kept, serviceVars
<1>6. Owed' <=> Owed
  BY <1>1, <1>3, OwedSame
<1> QED
  BY <1>1, <1>3, <1>5, <1>6, FollowOthers

\* restart_thread: a request that is not dropped is pending.
LEMMA RestartOwes ==
  ASSUME Restart("again")
  PROVE  /\ dropped' \/ Owed'
         /\ dropped => dropped'
         /\ UNCHANGED <<pending, restartKind>> \/ pending = "no"
         /\ UNCHANGED <<runKind, used>>
<1>1. CASE pending = "no"
  BY <1>1 DEF Restart, Owed
<1>2. CASE pending # "no"
  BY <1>2 DEF Restart
<1> QED
  BY <1>1, <1>2

\* The subscription thread restarts the payload after each switch of the source,
\* and after a registration that finds the CDN attached.
LEMMA FollowSubscription ==
  ASSUME ServiceTypes, ServiceTypes', ClientTypes, FollowInv, Subscription
  PROVE  FollowInv'
<1>0. /\ "payload" \in Client /\ "main" \in Client /\ Sub \in Client /\ pc \in [Client -> PCs]
      /\ Sub # "payload" /\ Sub # "main" /\ "main" # "payload"
  BY DEF Client, Sub, ClientTypes
<1>1. CASE SubscriptionTask
  <2>1. /\ UNCHANGED <<task, attached, pending, restartKind, runKind, used, dropped, bySpoke>>
        /\ AttachedType' = AttachedType
    BY <1>1 DEF SubscriptionTask, serviceVars, payloadVars, AttachedType
  <2>2. crashed => crashed'
    BY <1>1 DEF SubscriptionTask, At
  <2>3. /\ pc'["payload"] = pc["payload"] /\ pc'["main"] = pc["main"] /\ pc[Sub] # "none"
        /\ pc[Sub] \notin {"restart", "refresh"}
    BY <1>0, <1>1 DEF SubscriptionTask, At, Goes, GoTo, Ends, Crash
  <2>4. \/ crashed'
        \/ subscribed' = subscribed /\ pc[Sub] # "parse"
        \/ ~subscribed'
        \/ pc'[Sub] = "parse"
        \/ pc[Sub] = "parse" /\ subscribed' = subscribed /\ (AttachedType = "CDN" => pc'[Sub] = "restart")
    BY <1>0, <1>1 DEF SubscriptionTask, At, Goes, GoTo, Ends, Crash, Becomes
  <2>a. pc[Sub] = "parse" => subscribed' = subscribed /\ (crashed' \/ (AttachedType = "CDN" => pc'[Sub] = "restart"))
    BY <1>0, <1>1 DEF SubscriptionTask, At, Goes, GoTo, Ends, Crash, Becomes
  <2>5. Owed => crashed' \/ Owed' \/ (~bySpoke' /\ pc'[Sub] # "none")
    <3> SUFFICES ASSUME Owed, ~crashed'
                 PROVE  Owed' \/ (~bySpoke' /\ pc'[Sub] # "none")
      OBVIOUS
    <3>1. CASE (pending = "waiting" /\ restartKind # "changed") \/ pc["main"] = "restart"
      BY <2>1, <2>3, <3>1 DEF Owed
    <3>2. CASE pc[Sub] = "parse" /\ bySpoke /\ AttachedType = "CDN"
      BY <2>1, <2>a, <3>2 DEF Owed
    <3>3. CASE AttachedType = "CDN" /\ ~subscribed
      BY <2>1, <2>4, <2>a, <3>3 DEF Owed
    <3> QED
      BY <2>3, <3>1, <3>2, <3>3 DEF Owed
  <2> QED
    BY <2>1, <2>2, <2>3, <2>5, FollowOthers
<1>2. CASE SwitchSource
  <2>1. /\ UNCHANGED <<pending, restartKind, runKind, used, dropped, bySpoke, subscribed>>
        /\ crashed => crashed'
    BY <1>2 DEF SwitchSource, payloadVars, At
  <2>2. /\ pc'["payload"] = pc["payload"] /\ pc'["main"] = pc["main"] /\ pc[Sub] # "none"
        /\ pc[Sub] \notin {"parse", "restart", "refresh"}
    BY <1>0, <1>2 DEF SwitchSource, At, Call, Attach, Goes, GoTo, Crash
  <2>3. task'["payload"] = task["payload"]
    <3>1. \/ \E kind \in {"set_up", "tear_down"} : Call(Sub, kind)
          \/ \E at \in {"ok", "failed"} : Returned(Sub, at)
          \/ UNCHANGED task
      BY <1>2 DEF SwitchSource, Attach, Refused, serviceVars
    <3> QED
      BY <1>0, <3>1, OthersTask
  <2>4. \/ crashed'
        \/ UNCHANGED <<attached, sources>>
        \/ Attach(Sub, "CDN", "restart")
        \/ pc'[Sub] = "refresh"
    BY <1>0, <1>2 DEF SwitchSource, Call, Returned, Attach, Goes, GoTo, Crash, serviceVars
  <2>5. CASE crashed' \/ pc'[Sub] = "refresh"
    BY <2>1, <2>2, <2>3, <2>5, FollowOthers DEF Owed
  <2>6. CASE UNCHANGED <<attached, sources>>
    <3>1. AttachedType' = AttachedType
      BY <2>6 DEF AttachedType
    <3>2. Owed => Owed'
      BY <2>1, <2>2, <3>1 DEF Owed
    <3> QED
      BY <2>1, <2>2, <2>3, <2>6, <3>2, FollowOthers
  <2>7. CASE Attach(Sub, "CDN", "restart")
    <3>1. pc'[Sub] = "restart"
      BY <1>0, <2>7 DEF Attach, Goes, GoTo
    <3>2. AttachedType' = "CDN"
      <4>1. sources' = Append(sources, NewSource("CDN")) /\ attached' = Len(sources) + 1
        BY <2>7 DEF Attach, SetSources
      <4>2. NewSource("CDN") \in SourceRecord /\ NewSource("CDN").type = "CDN"
        BY DEF NewSource, SourceRecord, Type
      <4> QED
        BY <4>1, <4>2, AppendProperties DEF ServiceTypes, AttachedType
    <3>3. Owed' \/ (~bySpoke' /\ pc'[Sub] # "none")
      BY <3>1, <3>2 DEF Owed
    <3> QED
      BY <2>1, <2>2, <2>3, <3>3, FollowOthers
  <2> QED
    BY <2>4, <2>5, <2>6, <2>7
<1>3. CASE RestartAfterSwitch
  <2>1. /\ UNCHANGED <<task, attached, bySpoke, subscribed, crashed>> /\ AttachedType' = AttachedType
        /\ pc'["payload"] = pc["payload"] /\ pc'["main"] = pc["main"] /\ pc'[Sub] = "none"
    BY <1>0, <1>3 DEF RestartAfterSwitch, Ends, Goes, GoTo, serviceVars, subVars, AttachedType
  <2>2. CASE Restart("again")
    BY <2>1, <2>2, RestartOwes, FollowOthers
  <2>3. CASE At(Sub, "restart") /\ ~(bySpoke /\ AttachedType = "CDN") /\ UNCHANGED payloadVars
    <3>1. UNCHANGED <<pending, restartKind, runKind, used, dropped>> /\ pc[Sub] = "restart"
      BY <2>3 DEF payloadVars, At
    <3>2. Owed => Owed'
      BY <2>1, <2>3, <3>1 DEF Owed
    <3> QED
      BY <2>1, <3>1, <3>2, FollowOthers
  <2> QED
    BY <1>3, <2>2, <2>3 DEF RestartAfterSwitch
<1> QED
  BY <1>1, <1>2, <1>3 DEF Subscription

\* The main thread restarts the payload after it has attached a source, unless the
\* source is a CDN without a subscription.
LEMMA FollowMain ==
  ASSUME ServiceTypes, ServiceTypes', ClientTypes, FollowInv, Main
  PROVE  FollowInv'
<1>0. /\ "payload" \in Client /\ "main" \in Client /\ Sub \in Client /\ pc \in [Client -> PCs]
      /\ Sub # "payload" /\ Sub # "main" /\ "main" # "payload"
  BY DEF Client, Sub, ClientTypes
<1>1. CASE Register \/ Unregister \/ EnterSource
  <2>1. /\ UNCHANGED <<task, attached, pending, restartKind, runKind, used, dropped, subscribed, crashed>>
        /\ AttachedType' = AttachedType /\ pc'["payload"] = pc["payload"]
        /\ pc["main"] = "idle"
    BY <1>0, <1>1 DEF Register, Unregister, EnterSource, At, Goes, GoTo, serviceVars, payloadVars, subVars,
                AttachedType
  <2>2. \/ bySpoke' /\ pc[Sub] = "none"
        \/ bySpoke' = bySpoke /\ pc'[Sub] = pc[Sub]
    BY <1>0, <1>1 DEF Register, Unregister, EnterSource, At, Goes, GoTo, subVars
  <2>3. Owed => Owed'
    BY <2>1, <2>2 DEF Owed
  <2> QED
    BY <2>1, <2>2, <2>3, FollowOthers
<1>2. CASE ApplySource
  <2>1. /\ UNCHANGED <<pending, restartKind, runKind, used, dropped, bySpoke, subscribed>>
        /\ crashed => crashed'
    BY <1>2 DEF ApplySource, payloadVars, At
  <2>2. pc'["payload"] = pc["payload"] /\ pc'[Sub] = pc[Sub] /\ pc["main"] # "restart"
    BY <1>0, <1>2 DEF ApplySource, At, Call, Attach, Goes, GoTo, Crash
  <2>3. task'["payload"] = task["payload"]
    <3>1. \/ \E kind \in {"set_up", "tear_down"} : Call("main", kind)
          \/ \E at \in {"ok", "failed"} : Returned("main", at)
          \/ UNCHANGED task
      BY <1>2 DEF ApplySource, Attach, Refused, serviceVars
    <3> QED
      BY <1>0, <3>1, OthersTask
  <2>4. \/ crashed'
        \/ UNCHANGED <<attached, sources>>
        \/ pc'["main"] = "restart"
    BY <1>0, <1>2 DEF ApplySource, Call, Returned, Attach, Goes, GoTo, Crash, serviceVars
  <2>5. CASE crashed' \/ pc'["main"] = "restart"
    BY <2>1, <2>2, <2>3, <2>5, FollowOthers DEF Owed
  <2>6. CASE UNCHANGED <<attached, sources>>
    <3>1. AttachedType' = AttachedType
      BY <2>6 DEF AttachedType
    <3>2. Owed => Owed'
      BY <2>1, <2>2, <3>1 DEF Owed
    <3> QED
      BY <2>1, <2>2, <2>3, <2>6, <3>2, FollowOthers
  <2> QED
    BY <2>4, <2>5, <2>6
<1>3. CASE RestartAfterApply
  <2>1. /\ UNCHANGED <<task, attached, bySpoke, subscribed, crashed>> /\ AttachedType' = AttachedType
        /\ pc'["payload"] = pc["payload"] /\ pc'[Sub] = pc[Sub]
    BY <1>0, <1>3 DEF RestartAfterApply, Goes, GoTo, serviceVars, subVars, AttachedType
  <2>2. CASE Restart("again")
    BY <2>1, <2>2, RestartOwes, FollowOthers
  <2>3. CASE AttachedType = "CDN" /\ ~subscribed /\ UNCHANGED payloadVars
    BY <2>1, <2>3, FollowOthers DEF Owed, payloadVars
  <2> QED
    BY <1>3, <2>2, <2>3 DEF RestartAfterApply
<1>4. CASE NetworkChanged
  <2>1. /\ UNCHANGED <<task, attached, bySpoke, subscribed, crashed, pc>> /\ AttachedType' = AttachedType
    BY <1>4 DEF NetworkChanged, serviceVars, subVars, AttachedType
  <2>2. /\ UNCHANGED <<runKind, used>> /\ (dropped => dropped')
        /\ \/ pending = "no" /\ UNCHANGED dropped
           \/ dropped' /\ UNCHANGED <<pending, restartKind>>
    BY <1>4 DEF NetworkChanged, Restart
  <2>3. CASE pending = "no"
    <3>1. Owed => Owed'
      BY <2>1, <2>3 DEF Owed
    <3> QED
      BY <2>1, <2>2, <2>3, <3>1, FollowOthers
  <2>4. CASE dropped' /\ UNCHANGED <<pending, restartKind>>
    BY <2>1, <2>2, <2>4, FollowOthers
  <2> QED
    BY <2>2, <2>3, <2>4
<1> QED
  BY <1>1, <1>2, <1>3, <1>4 DEF Main

\* A run of the payload sets up what is attached then; it changes the source itself
\* only before a set up.
LEMMA FollowPayload ==
  ASSUME ServiceTypes, ServiceTypes', ClientTypes, FollowInv, Payload
  PROVE  FollowInv'
<1>0. /\ "payload" \in Client /\ "main" \in Client /\ Sub \in Client /\ pc \in [Client -> PCs]
      /\ Sub # "payload" /\ Sub # "main" /\ "main" # "payload"
      /\ task \in [Client -> TaskRecord \cup {None}]
  BY DEF Client, Sub, ClientTypes, ServiceTypes
<1>1. CASE RestartThread
  <2>1. /\ UNCHANGED <<task, attached, restartKind, used, dropped, bySpoke, subscribed, crashed>>
        /\ AttachedType' = AttachedType
        /\ pc'["main"] = pc["main"] /\ pc'[Sub] = pc[Sub]
    BY <1>0, <1>1 DEF RestartThread, GoTo, serviceVars, subVars, AttachedType
  <2>2. CASE /\ pending = "waiting" /\ pc["payload"] = "none"
             /\ runKind' = restartKind /\ pc'["payload"] = "wait"
    <3>1. Idle' /\ SetsUpThis'
      BY <2>2 DEF Idle, SetsUpThis
    <3>2. BootWaits'
      BY <2>1, <2>2 DEF FollowInv, BootWaits
    <3>3. SetUpLast => SetUpLast'
      BY <2>1, <2>2 DEF SetUpLast, WillSetUp, Owed
    <3> QED
      BY <2>1, <3>1, <3>2, <3>3 DEF FollowInv
  <2>3. CASE pending = "started" /\ UNCHANGED <<runKind, pc>>
    <3>1. Owed => Owed'
      BY <2>1, <2>3 DEF Owed
    <3>2. Idle' /\ BootWaits'
      BY <2>1, <2>3 DEF FollowInv, Idle, BootWaits
    <3>3. SetUpLast /\ SetsUpThis => SetUpLast' /\ SetsUpThis'
      BY <2>1, <2>3, <3>1 DEF SetUpLast, SetsUpThis, WillSetUp
    <3> QED
      BY <2>1, <3>2, <3>3 DEF FollowInv
  <2>4. \/ /\ pending = "waiting" /\ pc["payload"] = "none"
           /\ runKind' = restartKind /\ pc'["payload"] = "wait"
        \/ pending = "started" /\ UNCHANGED <<runKind, pc>>
    BY <1>0, <1>1 DEF RestartThread, GoTo
  <2> QED
    BY <2>2, <2>3, <2>4
<1>2. CASE PayloadWaits
  <2>1. /\ UNCHANGED <<task, attached, pending, restartKind, runKind, used, dropped, bySpoke, subscribed, crashed>>
        /\ AttachedType' = AttachedType
        /\ pc'["main"] = pc["main"] /\ pc'[Sub] = pc[Sub] /\ pc[Sub] = "none"
        /\ pc["payload"] = "wait"
        /\ pc'["payload"] = "reset" \/ (runKind = "changed" /\ pc'["payload"] = "none")
    BY <1>0, <1>2
    DEF PayloadWaits, SubscriptionThreadGone, At, Goes, GoTo, serviceVars, subVars, payloadVars, AttachedType, Sub
  <2>2. Idle' /\ BootWaits' /\ SetsUpThis'
    BY <2>1 DEF Idle, BootWaits, SetsUpThis
  <2>3. Owed' <=> Owed
    BY <2>1, OwedSame
  <2>4. SetUpLast => SetUpLast'
    BY <2>1, <2>3 DEF SetUpLast, WillSetUp
  <2> QED
    BY <2>1, <2>2, <2>4 DEF FollowInv
<1>3. CASE UpdateBaseRepo
  <2>1. /\ UNCHANGED <<pending, restartKind, runKind, dropped, bySpoke, subscribed>> /\ ~crashed
        /\ pc["payload"] \notin {"none", "wait"}
    BY <1>3 DEF UpdateBaseRepo, subVars, At
  <2>2. pc'["main"] = pc["main"] /\ pc'[Sub] = pc[Sub]
    <3>1. pc' = pc \/ \E p \in PayloadPC : GoTo("payload", p)
      BY <1>3 DEF UpdateBaseRepo, Call, Attach, Failed, Crash, Goes, PayloadPC
    <3> QED
      BY <1>0, <3>1 DEF GoTo
  <2>3. BootWaits'
    BY <2>1, <2>2 DEF FollowInv, BootWaits
  <2>4. (SetUpLast /\ SetsUpThis) \/ dropped'
    BY <2>1 DEF FollowInv
  <2>5. UNCHANGED <<attached, sources>> => (Owed' <=> Owed)
    <3>1. UNCHANGED <<attached, sources>> => AttachedType' = AttachedType
      BY DEF AttachedType
    <3> QED
      BY <2>1, <2>2, <3>1, OwedSame
  \* It ends with an error, or nobody handles one.
  <2>6. CASE Failed \/ Crash
    <3>1. CASE Failed
      <4>1. used' = 0 /\ pc'["payload"] = "unsetup"
        BY <1>0, <3>1 DEF Failed, Goes, GoTo
      <4> QED
        BY <2>3, <4>1 DEF FollowInv, Idle, SetUpLast, SetsUpThis
    <3>2. CASE Crash
      <4>1. crashed' /\ pc' = pc
        BY <3>2 DEF Crash
      <4>2. pc["payload"] = "unsetup"
        <5>1. crashed' # crashed
          BY <2>1, <4>1
        <5> QED
          BY <1>3, <5>1 DEF UpdateBaseRepo, Call, Goes, Attach, Failed, At
      <4> QED
        BY <2>3, <4>1, <4>2 DEF FollowInv, Idle
    <3> QED
      BY <2>6, <3>1, <3>2
  \* It starts a task, for the source that is attached now.
  <2>7. CASE \E kind \in {"set_up", "tear_down"} : Call("payload", kind)
    <3>1. PICK kind \in {"set_up", "tear_down"} : Call("payload", kind)
      BY <2>7
    <3>2. /\ UNCHANGED <<pc, crashed, attached, sources>> /\ task'["payload"].source = attached
      BY <1>0, <3>1 DEF Call, Start
    <3>3. used' = used /\ pc["payload"] \notin {"media", "default"}
      <4>1. task["payload"] = None /\ task'["payload"] # None
        <5>1. /\ task["payload"] = None
              /\ task'["payload"] = [kind |-> kind, source |-> attached, at |-> "begin"]
          BY <1>0, <3>1 DEF Call, Start
        <5>2. [kind |-> kind, source |-> attached, at |-> "begin"] \in TaskRecord
          BY DEF TaskRecord, ServiceTypes, Object
        <5> QED
          BY <5>1, <5>2, SourcesAssumption
      <4> QED
        BY <1>0, <1>3, <3>2, <4>1
        DEF UpdateBaseRepo, Returned, Attach, Refused, Failed, Goes, GoTo, At, serviceVars
    <3>4. Idle' /\ SetsUpThis'
      BY <3>2, <3>3 DEF Idle, SetsUpThis
    <3>5. SetUpLast => SetUpLast'
      BY <2>1, <2>5, <3>2, <3>3 DEF SetUpLast, WillSetUp
    <3> QED
      BY <2>1, <2>3, <2>4, <3>4, <3>5 DEF FollowInv
  \* A task has its result.
  <2>8. CASE Returned("payload", "ok") /\ ~Failed /\ ~Crash
    <3>1. UNCHANGED <<attached, sources>> /\ task'["payload"] = None /\ task["payload"] # None
      BY <1>0, <2>8 DEF Returned
    <3>2. Idle' /\ SetsUpThis'
      BY <3>1 DEF Idle, SetsUpThis
    <3>3. CASE pc["payload"] \in {"setup", "again"} /\ used' = task["payload"].source
      <4>1. SetsUpThis => SetUpLast'
        BY <2>5, <3>1, <3>3 DEF SetsUpThis, SetUpLast
      <4> QED
        BY <2>3, <2>4, <3>2, <4>1 DEF FollowInv
    <3>4. CASE used' = used /\ pc'["payload"] \in {"media", "default"}
      BY <2>3, <3>2, <3>4 DEF FollowInv, SetUpLast, WillSetUp
    <3>5. CASE used' = used /\ pc["payload"] = "unsetup"
      <4>1. SetUpLast => SetUpLast'
        BY <2>5, <3>1, <3>5 DEF SetUpLast, WillSetUp
      <4> QED
        BY <2>3, <2>4, <3>2, <4>1 DEF FollowInv
    <3>6. \/ pc["payload"] \in {"setup", "again"} /\ used' = task["payload"].source
          \/ used' = used /\ pc'["payload"] \in {"media", "default"}
          \/ used' = used /\ pc["payload"] = "unsetup"
      BY <1>0, <1>3, <2>8, <3>1
      DEF UpdateBaseRepo, Call, Start, Returned, Attach, Refused, Goes, GoTo, At, serviceVars
    <3> QED
      BY <3>3, <3>4, <3>5, <3>6
  \* It attaches another source, which it will set up.
  <2>9. CASE \E t \in Type : \E p \in {"setup", "again"} : Attach("payload", t, p)
    <3>1. pc'["payload"] \in {"setup", "again"} /\ task' = task
      BY <1>0, <2>9 DEF Attach, Goes, GoTo
    <3>2. pc["payload"] \in {"media", "default"}
      <4>1. attached' # attached
        BY <2>9 DEF Attach, SetSources, ServiceTypes
      <4> QED
        BY <1>3, <4>1 DEF UpdateBaseRepo, Call, Returned, At, serviceVars
    <3>3. task'["payload"] = None
      BY <3>1, <3>2 DEF FollowInv, Idle
    <3> QED
      BY <2>3, <3>1, <3>3 DEF FollowInv, Idle, SetUpLast, SetsUpThis, WillSetUp
  \* The source stays and there is no task.
  <2>10. CASE UNCHANGED serviceVars /\ used' = used
    <3>1. UNCHANGED <<task, attached, sources>>
      BY <2>10 DEF serviceVars
    <3>2. \/ pc["payload"] = "media" /\ pc'["payload"] = "setup"
          \/ pc["payload"] = "load" /\ pc'["payload"] \in {"none", "drop"}
          \/ Failed
      <4>1. \A kind \in {"set_up", "tear_down"} : ~Call("payload", kind)
        <5> SUFFICES ASSUME NEW kind \in {"set_up", "tear_down"}, Call("payload", kind)
                     PROVE  FALSE
          OBVIOUS
        <5>1. /\ task["payload"] = None
              /\ task'["payload"] = [kind |-> kind, source |-> attached, at |-> "begin"]
          BY <1>0 DEF Call, Start
        <5>2. [kind |-> kind, source |-> attached, at |-> "begin"] \in TaskRecord
          BY DEF TaskRecord, ServiceTypes, Object
        <5> QED
          BY <3>1, <5>1, <5>2, SourcesAssumption
      <4>2. \A at : ~Returned("payload", at)
        BY <1>0, <3>1 DEF Returned
      <4>3. \A t, p : ~Attach("payload", t, p)
        BY <3>1 DEF Attach, SetSources, ServiceTypes
      <4> QED
        BY <1>0, <1>3, <2>1, <4>1, <4>2, <4>3 DEF UpdateBaseRepo, Goes, GoTo, At
    <3>3. Idle
      BY DEF FollowInv
    <3>4. CASE pc["payload"] = "media" /\ pc'["payload"] = "setup"
      BY <2>3, <3>1, <3>3, <3>4 DEF FollowInv, Idle, SetUpLast, SetsUpThis, WillSetUp
    <3>5. CASE pc["payload"] = "load" /\ pc'["payload"] \in {"none", "drop"}
      <4>1. Idle' /\ SetsUpThis'
        BY <3>5 DEF Idle, SetsUpThis
      <4>2. SetUpLast => SetUpLast'
        BY <2>5, <2>10, <3>1, <3>5 DEF SetUpLast, WillSetUp
      <4> QED
        BY <2>1, <2>3, <2>4, <4>1, <4>2 DEF FollowInv
    <3> QED
      BY <2>6, <3>2, <3>4, <3>5
  <2>11. \/ Failed \/ Crash
         \/ \E kind \in {"set_up", "tear_down"} : Call("payload", kind)
         \/ Returned("payload", "ok")
         \/ \E t \in Type : \E p \in {"setup", "again"} : Attach("payload", t, p)
         \/ UNCHANGED serviceVars /\ used' = used
    <3>1. "CDROM" \in Type /\ Default \in Type
      BY SourcesAssumption DEF Type
    <3> QED
      BY <1>3, <3>1 DEF UpdateBaseRepo
  <2> QED
    BY <2>6, <2>7, <2>8, <2>9, <2>10, <2>11
<1> QED
  BY <1>1, <1>2, <1>3 DEF Payload

\* The packages come from the attached source: however the three threads that attach
\* sources and restart the payload interleave, the last run has set up this source,
\* unless it failed, a restart was dropped, or the CDN is not tried.
THEOREM PackagesFollowTheSource == Spec => []PayloadFollowsSource
<1>1. Init => FollowInv
  <2> SUFFICES ASSUME Init PROVE FollowInv
    OBVIOUS
  <2>1. PICK s \in {"none", "connect"} :
          pc = [c \in Client |-> CASE c = "payload" -> "none" [] c = "main" -> "idle" [] OTHER -> s]
    BY DEF Init
  <2>2. pc["payload"] = "none"
    BY <2>1 DEF Client
  <2> QED
    BY <2>2 DEF Init, FollowInv, Idle, BootWaits, SetUpLast, SetsUpThis
<1>2. /\ ServiceTypes /\ ServiceTypes' /\ ClientTypes /\ FollowInv /\ [Next]_vars
      => FollowInv'
  BY FollowService, FollowPayload, FollowSubscription, FollowMain DEF Next
<1>3. FollowInv => PayloadFollowsSource
  <2> SUFFICES ASSUME FollowInv, Quiet, ~dropped, AttachedType = "CDN" => subscribed
               PROVE  used \in {0, attached}
    BY DEF PayloadFollowsSource
  <2>1. pc["payload"] = "none" /\ pc["main"] = "idle" /\ pc[Sub] = "none" /\ pending = "no" /\ ~crashed
    BY DEF Quiet, Client, Sub
  <2> QED
    BY <2>1 DEF FollowInv, SetUpLast, WillSetUp, Owed
<1> QED
  BY <1>1, <1>2, <1>3, TypesAlways, PTL DEF Spec
=============================================================================
