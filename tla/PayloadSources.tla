--------------------------- MODULE PayloadSources ---------------------------
(***************************************************************************)
(* The installation source of the DNF payload (modules/payloads): objects  *)
(* with mount points, tasks that set them up and tear them down, and       *)
(* set_sources; and the three who use them over D-Bus, each in a thread of *)
(* the user interface: the payload thread (update_base_repo), the          *)
(* subscription thread (register_and_subscribe, unregister) and the main   *)
(* thread (the source, subscription and network spokes).                   *)
(***************************************************************************)
EXTENDS Integers, Sequences

CONSTANTS
    None,
    Default,        \* conf.payload.default_source
    First,          \* the types of the source a kickstart may ask for
    MaxActs         \* bound: how often the user changes something

Type == {"CDROM", "HDD", "URL", "CDN"}
TaskRecord == [kind : {"set_up", "tear_down"}, source : Nat, at : {"begin", "rest", "ok", "failed"}]

ASSUME SourcesAssumption ==
    /\ None \notin TaskRecord
    /\ Default \in {"URL", "CDN"}
    /\ First \subseteq Type
    /\ MaxActs \in Nat

Client == {"payload", "subscription", "main"}

VARIABLES
    sources,        \* the source objects: [type, mount, tree]
    attached,       \* _sources of the payload: always one object
    media,          \* is there a valid optical medium?
    task,           \* the source task a client waits for
    pc,             \* what each client does next
    pending,        \* the restart thread: "no", "waiting", "started" the run
    restartKind,    \* its arguments: "boot", "changed" by the network, or "again"
    runKind,        \* those of the payload thread
    registered,     \* IsRegistered
    subscribed,     \* IsSubscriptionAttached
    overridden,     \* _overridden_source_type of the subscription spoke
    wanted,         \* what the main thread is about to attach
    override,       \* history: the CDN source that a registration attached, or 0;
                    \* negative if the spoke does not remember what it replaced
    bySpoke,        \* does the subscription thread run for the spoke (restart_payload)?
    replacedLate,   \* history: sources replaced while a set up task had them
    used,           \* history: the source of the last good run of the payload
    dropped,        \* history: was a restart dropped?
    crashed,        \* has a thread ended with an exception nobody handles?
    acts

serviceVars == <<sources, attached, task, replacedLate>>
payloadVars == <<pending, restartKind, runKind, used, dropped>>
subVars == <<registered, subscribed, overridden, override, bySpoke>>
userVars == <<wanted, acts>>
vars == <<serviceVars, media, pc, payloadVars, subVars, userVars, crashed>>

Object == 1..Len(sources)
NewSource(t) == [type |-> t, mount |-> "no", tree |-> FALSE]
AttachedType == sources[attached].type

Kind == {"boot", "changed", "again"}
PayloadPC == {"none", "wait", "reset", "media", "setup", "load", "drop", "default", "again", "unsetup"}
SubscriptionPC == {"none", "connect", "register", "attach", "parse", "drop", "override", "restart",
                   "unregister", "check", "back", "revert", "refresh"}
MainPC == {"idle", "source", "drop", "set", "restart"}

TypeOK ==
    /\ sources \in Seq([type : Type, mount : {"no", "device", "both"}, tree : BOOLEAN])
    /\ attached \in Object /\ media \in BOOLEAN
    /\ task \in [Client -> TaskRecord \cup {None}]
    /\ pc["payload"] \in PayloadPC /\ pc["subscription"] \in SubscriptionPC /\ pc["main"] \in MainPC
    /\ pending \in {"no", "waiting", "started"} /\ restartKind \in Kind /\ runKind \in Kind
    /\ registered \in BOOLEAN /\ subscribed \in BOOLEAN
    /\ overridden \in {"no", "CDROM"} /\ wanted \in Type
    /\ override \in Int /\ bySpoke \in BOOLEAN /\ replacedLate \subseteq Object
    /\ used \in Nat /\ dropped \in BOOLEAN /\ crashed \in BOOLEAN /\ acts \in 0..MaxActs

\* A kickstart may register the system in the subscription thread (anaconda.py)
\* before the payload thread is asked for.
Init ==
    /\ \E t \in First : sources = <<NewSource(t)>> /\ wanted = t
    /\ attached = 1 /\ media \in BOOLEAN
    /\ task = [c \in Client |-> None]
    /\ \E s \in {"none", "connect"} :
          pc = [c \in Client |-> CASE c = "payload" -> "none" [] c = "main" -> "idle" [] OTHER -> s]
    /\ pending = "waiting" /\ restartKind = "boot" /\ runKind = "boot"
    /\ registered = FALSE /\ subscribed = FALSE /\ overridden = "no" /\ override = 0 /\ bySpoke = FALSE
    /\ replacedLate = {} /\ used = 0 /\ dropped = FALSE /\ crashed = FALSE /\ acts = 0

-----------------------------------------------------------------------------
(* The service                                                             *)

\* get_state: a hard drive source is ready when its device is mounted and the path
\* to the tree is known, even from an earlier set up.
Ready(o) ==
    /\ sources[o].type \in {"CDROM", "HDD"} /\ sources[o].mount # "no"
    /\ sources[o].type = "HDD" => sources[o].tree

SettingUp(o) == \E c \in Client : task[c] # None /\ task[c].kind = "set_up" /\ task[c].source = o

\* set_up_sources_with_task, tear_down_sources_with_task: the task keeps the source
\* that is attached now.
Start(c, kind) ==
    task' = [task EXCEPT ![c] = [kind |-> kind, source |-> attached, at |-> "begin"]]

AnyState == TRUE                    \* mutant: sources are replaced in any state
NoneReady == ~Ready(attached)

\* create_source and set_sources.
SetSources(t) ==
    /\ NoneReady
    /\ sources' = Append(sources, NewSource(t))
    /\ attached' = Len(sources) + 1
    /\ replacedLate' = replacedLate \cup {o \in {attached} : SettingUp(o)}

Mount(o, m) == sources' = [sources EXCEPT ![o].mount = m]
Gets(c, at) == task' = [task EXCEPT ![c].at = at]

\* SetUpSourcesTask.run with the task of the source: a source without a mount point,
\* a CD-ROM, and the two steps of a hard drive.
SetUpSources(c) ==
    LET o == task[c].source
        at == task[c].at
    IN  /\ task[c] # None /\ task[c].kind = "set_up" /\ at \in {"begin", "rest"}
        /\ \/ /\ sources[o].type \in {"URL", "CDN"} /\ Gets(c, "ok")
              /\ UNCHANGED sources
           \/ /\ at = "begin" /\ sources[o].mount # "no" /\ Gets(c, "failed")
              /\ UNCHANGED sources
           \/ /\ at = "begin" /\ sources[o].type = "CDROM" /\ sources[o].mount = "no"
              /\ IF media THEN Mount(o, "device") /\ Gets(c, "ok")
                          ELSE UNCHANGED sources /\ Gets(c, "failed")
           \/ /\ at = "begin" /\ sources[o].type = "HDD" /\ sources[o].mount = "no"
              /\ \/ Mount(o, "device") /\ Gets(c, "rest")
                 \/ UNCHANGED sources /\ Gets(c, "failed")
           \/ /\ at = "rest" /\ sources[o].mount # "no" /\ Gets(c, "ok")
              /\ \E m \in {"device", "both"} : sources' = [sources EXCEPT ![o].mount = m, ![o].tree = TRUE]
           \/ /\ at = "rest" /\ Gets(c, "failed")
              /\ Mount(o, "no")
        /\ UNCHANGED <<attached, replacedLate>>

\* TearDownSourcesTask.run: the image and then the device are unmounted, unless they
\* are in use.
WithoutImage(m) == IF m = "both" THEN "device" ELSE m

TearDownSources(c) ==
    LET o == task[c].source
        m == sources[o].mount
    IN  /\ task[c] # None /\ task[c].kind = "tear_down"
        /\ \/ /\ task[c].at = "begin" /\ Gets(c, "rest")
              /\ Mount(o, WithoutImage(m)) \/ (m # "no" /\ UNCHANGED sources)
           \/ /\ task[c].at = "rest"
              /\ \/ m # "both" /\ Mount(o, "no") /\ Gets(c, "ok")
                 \/ m # "no" /\ UNCHANGED sources /\ Gets(c, "failed")
        /\ UNCHANGED <<attached, replacedLate>>

Service ==
    /\ ~crashed
    /\ \E c \in Client : SetUpSources(c) \/ TearDownSources(c)
    /\ UNCHANGED <<media, pc, payloadVars, subVars, userVars, crashed>>

-----------------------------------------------------------------------------
(* How a client goes on                                                    *)

At(c, p) == ~crashed /\ pc[c] = p
GoTo(c, p) == pc' = [pc EXCEPT ![c] = p]
Crash == crashed' = TRUE /\ UNCHANGED pc
Goes(c, p) == GoTo(c, p) /\ UNCHANGED crashed

\* sync_run_task: the client starts a task and waits until it is finished.
Call(c, kind) ==
    /\ task[c] = None /\ Start(c, kind)
    /\ UNCHANGED <<sources, attached, replacedLate, pc, crashed>>

Returned(c, at) ==
    /\ task[c] # None /\ task[c].at = at
    /\ task' = [task EXCEPT ![c] = None]
    /\ UNCHANGED <<sources, attached, replacedLate>>

\* A new source, or what happens when it is refused.
Attach(c, t, next) ==
    /\ SetSources(t)
    /\ Goes(c, next) /\ UNCHANGED task

Refused == ~NoneReady /\ UNCHANGED serviceVars

\* restart_thread of the payload manager.
Restart(kind) ==
    /\ IF pending = "no" THEN pending' = "waiting" /\ restartKind' = kind /\ UNCHANGED dropped
                         ELSE dropped' = TRUE /\ UNCHANGED <<pending, restartKind>>
    /\ UNCHANGED <<runKind, used>>

-----------------------------------------------------------------------------
(* The payload thread and its restart thread                               *)

RestartThread ==
    /\ ~crashed
    /\ \/ /\ pending = "waiting" /\ pc["payload"] = "none"
          /\ pending' = "started" /\ runKind' = restartKind
          /\ GoTo("payload", "wait")
       \/ /\ pending = "started" /\ pending' = "no"
          /\ UNCHANGED <<runKind, pc>>
    /\ UNCHANGED <<serviceVars, media, restartKind, used, dropped, subVars, userVars, crashed>>

NoWait == TRUE                      \* mutant: does not wait for the subscription thread
SubscriptionThreadGone == pc["subscription"] = "none"

\* With onlyOnChange the run may end before update_base_repo.
PayloadWaits ==
    /\ At("payload", "wait") /\ SubscriptionThreadGone
    /\ Goes("payload", "reset") \/ (runKind = "changed" /\ Goes("payload", "none"))
    /\ UNCHANGED <<serviceVars, media, payloadVars, subVars, userVars>>

\* An error leads to unsetup; an error in unsetup is handled by nobody.
Failed == Goes("payload", "unsetup") /\ used' = 0

UseMedia == runKind # "again" /\ AttachedType = Default /\ media

UpdateBaseRepo ==
    /\ \/ /\ At("payload", "reset")
          /\ \/ Call("payload", "tear_down") /\ UNCHANGED used
             \/ Returned("payload", "ok") /\ Goes("payload", "media") /\ UNCHANGED used
             \/ Returned("payload", "failed") /\ Failed
       \/ /\ At("payload", "media")
          /\ \/ ~UseMedia /\ Goes("payload", "setup") /\ UNCHANGED <<serviceVars, used>>
             \/ UseMedia /\ Attach("payload", "CDROM", "setup") /\ UNCHANGED used
             \/ UseMedia /\ Refused /\ Failed
       \/ /\ At("payload", "setup")
          /\ \/ Call("payload", "set_up") /\ UNCHANGED used
             \/ /\ Returned("payload", "ok") /\ used' = task["payload"].source
                /\ Goes("payload", "load")
             \/ Returned("payload", "failed") /\ Failed
       \/ /\ At("payload", "load")
          /\ \/ Goes("payload", "none") /\ UNCHANGED used
             \/ runKind # "again" /\ Goes("payload", "drop") /\ UNCHANGED used
             \/ Failed
          /\ UNCHANGED serviceVars
       \/ /\ At("payload", "drop")
          /\ \/ Call("payload", "tear_down") /\ UNCHANGED used
             \/ Returned("payload", "ok") /\ Goes("payload", "default") /\ UNCHANGED used
             \/ Returned("payload", "failed") /\ Failed
       \/ /\ At("payload", "default")
          /\ \/ Attach("payload", Default, "again") /\ UNCHANGED used
             \/ Refused /\ Failed
       \/ /\ At("payload", "again")
          /\ \/ Call("payload", "set_up") /\ UNCHANGED used
             \/ /\ Returned("payload", "ok") /\ used' = task["payload"].source
                /\ Goes("payload", "none")
             \/ Returned("payload", "failed") /\ Failed
       \/ /\ At("payload", "unsetup")
          /\ \/ Call("payload", "tear_down")
             \/ Returned("payload", "ok") /\ Goes("payload", "none")
             \/ Returned("payload", "failed") /\ Crash
          /\ UNCHANGED used
    /\ UNCHANGED <<media, pending, restartKind, runKind, dropped, subVars, userVars>>

-----------------------------------------------------------------------------
(* The subscription thread                                                 *)

Sub == "subscription"
Ends == Goes(Sub, "none")

\* The tasks of the subscription service: registered, subscribed.
Becomes(r, s) == registered' = r /\ subscribed' = s

SubscriptionTask ==
    /\ \/ /\ At(Sub, "connect") /\ ~registered
          /\ Goes(Sub, "register") \/ Crash
          /\ UNCHANGED <<registered, subscribed>>
       \/ /\ At(Sub, "connect") /\ registered
          /\ \/ Becomes(FALSE, FALSE) /\ Goes(Sub, "register")
             \/ Becomes(TRUE, subscribed) /\ Ends
       \/ /\ At(Sub, "register")
          /\ \/ Becomes(TRUE, subscribed) /\ Goes(Sub, "attach")
             \/ Becomes(registered, subscribed) /\ Ends
       \/ /\ At(Sub, "attach")
          /\ \/ Becomes(registered, TRUE) /\ Goes(Sub, "parse")
             \/ Becomes(registered, subscribed) /\ Ends
       \/ /\ At(Sub, "parse")
          /\ Goes(Sub, IF AttachedType = "CDROM" THEN "drop" ELSE "restart") \/ Crash
          /\ UNCHANGED <<registered, subscribed>>
       \/ /\ At(Sub, "unregister")
          /\ \/ Becomes(FALSE, FALSE) /\ Goes(Sub, "check")
             \/ Becomes(registered, subscribed) /\ Ends
    /\ UNCHANGED <<serviceVars, media, payloadVars, overridden, override, bySpoke, userVars>>

NoRollBack == FALSE                 \* mutant: the source is never switched back
Overridden == overridden # "no"

\* switch_source, and what is done after it.
SwitchSource ==
    /\ \/ /\ At(Sub, "check")
          /\ Goes(Sub, IF AttachedType # "CDN" THEN "none" ELSE IF Overridden THEN "back" ELSE "refresh")
          /\ UNCHANGED <<serviceVars, override>>
       \/ \E p \in {"drop", "back"} :
             /\ At(Sub, p)
             /\ \/ Call(Sub, "tear_down")
                \/ Returned(Sub, "ok") /\ Goes(Sub, IF p = "drop" THEN "override" ELSE "revert")
                \/ Returned(Sub, "failed") /\ Crash
             /\ UNCHANGED override
       \/ /\ At(Sub, "override")
          /\ \/ Attach(Sub, "CDN", "restart") /\ override' = IF overridden = "CDROM" THEN attached' ELSE -attached'
             \/ Refused /\ Crash /\ UNCHANGED override
       \/ /\ At(Sub, "revert")
          /\ \/ Attach(Sub, overridden, "refresh") /\ override' = 0
             \/ Refused /\ Crash /\ UNCHANGED override
    /\ UNCHANGED <<media, payloadVars, registered, subscribed, overridden, bySpoke, userVars>>

RestartAfterSwitch ==
    /\ \/ At(Sub, "refresh") /\ Restart("again")
       \/ At(Sub, "restart") /\ bySpoke /\ AttachedType = "CDN" /\ Restart("again")
       \/ At(Sub, "restart") /\ ~(bySpoke /\ AttachedType = "CDN") /\ UNCHANGED payloadVars
    /\ Ends
    /\ UNCHANGED <<serviceVars, media, subVars, userVars>>

-----------------------------------------------------------------------------
(* The main thread                                                         *)

Acts == acts < MaxActs /\ acts' = acts + 1

\* _register and _unregister of the subscription spoke.
Register ==
    /\ At("main", "idle") /\ pc[Sub] = "none" /\ ~subscribed /\ Acts
    /\ overridden' = IF AttachedType = "CDROM" THEN "CDROM" ELSE "no"
    /\ bySpoke' = TRUE
    /\ Goes(Sub, "connect")
    /\ UNCHANGED <<serviceVars, media, payloadVars, registered, subscribed, override, wanted>>

Unregister ==
    /\ At("main", "idle") /\ pc[Sub] = "none" /\ subscribed /\ Acts
    /\ bySpoke' = TRUE
    /\ Goes(Sub, "unregister")
    /\ UNCHANGED <<serviceVars, media, payloadVars, registered, subscribed, overridden, override, wanted>>

\* The source spoke can be entered while no payload thread works.
EnterSource ==
    /\ At("main", "idle") /\ pc["payload"] = "none" /\ Acts
    /\ Goes("main", "source")
    /\ UNCHANGED <<serviceVars, media, payloadVars, subVars, wanted>>

\* apply(): the user has chosen another source or not; changed repositories or an
\* error restart the payload anyway.
Chosen(t) == (t \in {"CDROM", "CDN"} => t # AttachedType) /\ (t = "CDROM" => media)

ApplySource ==
    /\ \/ /\ At("main", "source")
          /\ \/ \E t \in Type : Chosen(t) /\ wanted' = t /\ Goes("main", "drop")
             \/ \E p \in {"idle", "restart"} : Goes("main", p) /\ UNCHANGED wanted
          /\ UNCHANGED <<serviceVars, override>>
       \/ /\ At("main", "drop")
          /\ \/ Call("main", "tear_down")
             \/ Returned("main", "ok") /\ Goes("main", "set")
             \/ Returned("main", "failed") /\ Crash
          /\ UNCHANGED <<override, wanted>>
       \/ /\ At("main", "set")
          /\ \/ Attach("main", wanted, "restart") /\ override' = 0
             \/ Refused /\ Crash /\ UNCHANGED override
          /\ UNCHANGED wanted
    /\ UNCHANGED <<media, payloadVars, registered, subscribed, overridden, bySpoke, acts>>

\* Without a subscription the CDN is not tried.
RestartAfterApply ==
    /\ At("main", "restart") /\ Goes("main", "idle")
    /\ IF AttachedType = "CDN" /\ ~subscribed THEN UNCHANGED payloadVars ELSE Restart("again")
    /\ UNCHANGED <<serviceVars, media, subVars, userVars>>

\* apply() of the network spoke.
NetworkChanged ==
    /\ At("main", "idle") /\ Acts
    /\ Restart("changed")
    /\ UNCHANGED <<serviceVars, media, pc, subVars, wanted, crashed>>

-----------------------------------------------------------------------------

Payload == RestartThread \/ PayloadWaits \/ UpdateBaseRepo
Subscription == SubscriptionTask \/ SwitchSource \/ RestartAfterSwitch
Main == Register \/ Unregister \/ EnterSource \/ ApplySource \/ RestartAfterApply \/ NetworkChanged

Next == Service \/ Payload \/ Subscription \/ Main

Spec == Init /\ [][Next]_vars

-----------------------------------------------------------------------------
(* Properties                                                              *)

Quiet == ~crashed /\ pending = "no" /\ pc = [c \in Client |-> IF c = "main" THEN "idle" ELSE "none"]

\* set_sources: "there is still a possibility that the task to initialize sources
\* ... was created with the old list".  Only such a source stays mounted after it
\* was replaced: every other one was torn down completely, by whomever.
NoLostMount ==
    \A o \in Object : sources[o].mount # "no" => o = attached \/ o \in replacedLate

\* A CDN source that replaced the medium for a registration of the spoke stays no
\* longer than the subscription, whichever step of the subscription thread fails.
OverrideIsRegistered ==
    ~crashed /\ attached = override => subscribed \/ pc[Sub] \in {"check", "back", "revert"}

\* The packages come from the source that is attached: unless it failed, the last
\* run of the payload has set up this one, or a restart was dropped (restart_thread:
\* "If there is already a payload thread restart pending ... no effect").
PayloadFollowsSource ==
    Quiet /\ ~dropped /\ (AttachedType = "CDN" => subscribed) => used \in {0, attached}

\* "sources the Red Hat CDN should automatically override if the system gets
\* registered": after the registration the medium is not used until the user
\* unregisters or chooses it.
OverrideSticks == Quiet /\ subscribed /\ override # 0 => AttachedType # "CDROM"
=============================================================================
