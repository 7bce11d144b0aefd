----------------------------- MODULE SummaryHub -----------------------------
(***************************************************************************)
(* ui/gui/hubs: the summary hub with its queue hubQ, composed with the     *)
(* source and software spokes and their threads, a spoke that is always    *)
(* ready (network), what the payload manager promises (PayloadRuns) and    *)
(* the initialization controller (InitController).  The source is one with *)
(* a base repository (not CDN), and status lines are left out.             *)
(***************************************************************************)
EXTENDS Integers, Sequences, FiniteSets

CONSTANTS
    MaxVisits,      \* bound: how often the user enters a spoke
    Automated       \* a kickstart installation, an interactive one, or both

ASSUME HubAssumption ==
    /\ MaxVisits \in Nat
    /\ Automated \subseteq BOOLEAN

Source == "SourceSpoke"
Software == "SoftwareSelectionSpoke"
Network == "NetworkSpoke"
Spoke == {Source, Software, Network}
None == "none"

Listener == {"_payload_refresh", "_downloading_package_md", "_payload_finished", "_payload_error"}

VARIABLES
    main,           \* what the main thread does next
    inSpoke,        \* the spoke the user is in (_inSpoke), or None
    visits,         \* history: how often the user entered a spoke
    hubQ,           \* messages [code, spoke]
    created,        \* _spokes: the spokes whose boxes exist
    sensitive,      \* the spokes whose selectors can be clicked
    incomplete,     \* _incompleteSpokes
    notReady,       \* _notReadySpokes
    autoContinue,   \* _auto_continue
    clickContinue,  \* _click_continue
    mayContinue,    \* is the continue button sensitive?
    success,        \* does the space suffice, by the last check?
    ignored,        \* _checker_ignore
    clicked,        \* how continue-clicked was emitted: "no", "user", "auto"
    srcReady,       \* _ready of the source spoke
    srcError,       \* _error of the source spoke
    srcWatcher,     \* THREAD_SOURCE_WATCHER
    swWatcher,      \* THREAD_SOFTWARE_WATCHER
    check,          \* THREAD_CHECK_SOFTWARE
    clash,          \* history: was the check started while one was registered?
    kickstarted,    \* _kickstarted of the software spoke
    selected,       \* is an environment selected?
    swErrors,       \* _errors
    swTx,           \* _tx_id of the software spoke
    tx,             \* tx_id of the payload, 0 for None
    baseRepo,       \* is a base repository enabled?
    checked,        \* history: was the selection checked "never", with the repositories as
                    \* they are "now" or "before", or reset "during" the check?
    listening,      \* the listeners of the source spoke that are registered
    automated       \* flags.automatedInstall

\* The variables of the payload manager and of the controller.
VARIABLES pending, run, phase, initializing, allAdded, triggered, emitted, started, done

Payload == INSTANCE PayloadRuns
Controller == INSTANCE InitController WITH Module <- {Source, Software}

payloadVars == <<pending, run, phase>>
ctlVars == <<initializing, allAdded, triggered, emitted, started, done>>
listVars == <<created, sensitive, incomplete, notReady>>
contVars == <<autoContinue, clickContinue, mayContinue, success, ignored, clicked>>
uiVars == <<main, inSpoke, visits>>
srcVars == <<srcReady, srcError, srcWatcher>>
swVars == <<swWatcher, check, clash, kickstarted, selected, swErrors, swTx>>
repoVars == <<tx, baseRepo, checked>>
restVars == <<listening, automated>>
vars == <<uiVars, hubQ, listVars, contVars, srcVars, swVars, repoVars, restVars, payloadVars, ctlVars>>

Codes == {"READY", "NOT_READY"}
MainPC == {"boot", "create", "listen", "place", "added", "idle", "drain", "refresh", "leave", "left"}

TypeOK ==
    /\ main \in MainPC /\ inSpoke \in Spoke \cup {None} /\ visits \in 0..MaxVisits
    /\ hubQ \in Seq([code : Codes, spoke : Spoke])
    /\ created \subseteq Spoke /\ sensitive \subseteq created
    /\ incomplete \subseteq created /\ notReady \subseteq created
    /\ autoContinue \in BOOLEAN /\ clickContinue \in BOOLEAN /\ mayContinue \in BOOLEAN
    /\ success \in BOOLEAN /\ ignored \in BOOLEAN /\ clicked \in {"no", "user", "auto"}
    /\ srcReady \in BOOLEAN /\ srcError \in BOOLEAN
    /\ srcWatcher \in {"none", "wait", "poll", "send", "gone"}
    /\ swWatcher \in {"none", "wait", "join", "send", "end", "gone"}
    /\ check \in {"none", "bump", "report", "end"}
    /\ clash \in BOOLEAN /\ kickstarted \in BOOLEAN /\ selected \in BOOLEAN
    /\ swErrors \in BOOLEAN /\ swTx \in Nat /\ tx \in Nat /\ baseRepo \in BOOLEAN
    /\ checked \in {"never", "now", "during", "before"} /\ listening \subseteq Listener /\ automated \in Automated

Init ==
    /\ Payload!RunsInit /\ Controller!CtlInit
    /\ main = "boot" /\ inSpoke = None /\ visits = 0
    /\ hubQ = <<>> /\ created = {} /\ sensitive = {} /\ incomplete = {} /\ notReady = {}
    /\ automated \in Automated /\ listening = {}
    /\ autoContinue = automated /\ clickContinue = FALSE /\ mayContinue = FALSE
    /\ success = FALSE /\ ignored = FALSE /\ clicked = "no"
    /\ srcReady = FALSE /\ srcError = FALSE /\ srcWatcher = "none"
    /\ swWatcher = "none" /\ check = "none" /\ clash = FALSE
    /\ kickstarted = automated /\ selected = automated
    /\ swErrors = FALSE /\ swTx = 0 /\ tx = 0 /\ baseRepo = FALSE /\ checked = "never"

-----------------------------------------------------------------------------
(* What the spokes say of themselves                                       *)

Ready(spokes) == [i \in 1..Len(spokes) |-> [code |-> "READY", spoke |-> spokes[i]]]
NotReady(spokes) == [i \in 1..Len(spokes) |-> [code |-> "NOT_READY", spoke |-> spokes[i]]]

Registered(watcher) == watcher \notin {"none", "gone"}

NoTask == run = "none" /\ check = "none"            \* mutant: forgets the watcher
NoThreads == run = "none" /\ ~Registered(swWatcher) /\ check = "none"

SpokeReady(s) ==
    CASE s = Source -> srcReady /\ NoThreads
      [] s = Software -> NoThreads /\ baseRepo
      [] s = Network -> TRUE

SourceCompleted == ~srcError /\ SpokeReady(Source) /\ (automated => baseRepo)
SoftwareCompleted == SpokeReady(Software) /\ ~swErrors /\ swTx = tx /\ selected

Completed(s) ==
    CASE s = Source -> SourceCompleted
      [] s = Software -> SoftwareCompleted
      [] s = Network -> TRUE

-----------------------------------------------------------------------------
(* The lists of the hub                                                    *)

\* _updateCompleteness and _handleCompleteness of the spokes in S.
UpdateCompleteness(S) ==
    /\ sensitive' = (sensitive \ S) \cup {s \in S : SpokeReady(s)}
    /\ incomplete' = (incomplete \ S) \cup {s \in S : ~Completed(s)}

ContinuePossible == incomplete' = {} /\ notReady' = {} /\ (success' \/ ignored')

\* _updateContinue: once no spoke is incomplete the space is checked; if it does
\* not suffice, a kickstart installation goes on by hand only.
Warned == automated /\ incomplete' = {} /\ ~success'

UpdateContinue ==
    /\ success' \in IF incomplete' = {} THEN BOOLEAN ELSE {success}
    /\ ignored' = (ignored \/ Warned)
    /\ mayContinue' = ContinuePossible

WarnedOnce == autoContinue /\ ~Warned

-----------------------------------------------------------------------------
(* _createBox, after the start of the first payload thread in anaconda.py  *)

\* A call of restart_thread in the main thread.
RestartPayload == IF pending = "no" THEN Payload!Restart ELSE UNCHANGED payloadVars

Boot ==
    /\ main = "boot" /\ main' = "create"
    /\ RestartPayload
    /\ UNCHANGED <<inSpoke, visits, hubQ, listVars, contVars, srcVars, swVars, repoVars, restVars, ctlVars>>

NextSpoke == CASE created = {} -> Source [] created = {Source} -> Software [] OTHER -> Network

\* initialize(): the source spoke adds its listeners and starts its thread last.
Initialize ==
    /\ \/ /\ main = "create" /\ NextSpoke = Source
          /\ main' = "listen"
          /\ Controller!ModuleInitStart(Source)
          /\ UNCHANGED swWatcher
       \/ /\ main = "create" /\ NextSpoke = Software
          /\ main' = "place"
          /\ Controller!ModuleInitStart(Software)
          /\ swWatcher' = "wait"
       \/ /\ main = "create" /\ NextSpoke = Network
          /\ main' = "place"
          /\ UNCHANGED <<ctlVars, swWatcher>>
    /\ UNCHANGED <<inSpoke, visits, hubQ, listVars, contVars, srcVars, check, clash, kickstarted,
                   selected, swErrors, swTx, repoVars, restVars, payloadVars>>

\* The listeners of the source spoke, and the states they listen for.
Refresh == "_payload_refresh"
PackageMd == "_downloading_package_md"
Finished == "_payload_finished"
Error == "_payload_error"
ListenerOrder == <<Refresh, PackageMd, Finished, Error>>

ListensFor(l) ==
    CASE l = Refresh -> Payload!Started [] l = PackageMd -> Payload!PackageMetadata
      [] l = Finished -> Payload!Finished [] l = Error -> Payload!Error

Run(l) ==
    /\ hubQ' = hubQ \o CASE l = Refresh -> NotReady(<<Software, Source>>)
                         [] l = PackageMd -> <<>>
                         [] l = Finished -> Ready(<<Software, Source>>)
                         [] l = Error -> Ready(<<Source>>)
    /\ srcReady' = (srcReady \/ l \in {Finished, Error})
    /\ srcError' = CASE l = PackageMd -> FALSE [] l = Error -> TRUE [] OTHER -> srcError

Reached(l) == IF l = Error THEN phase = Payload!Error ELSE ListensFor(l) <= phase

Listen ==
    /\ main = "listen"
    /\ LET l == ListenerOrder[Cardinality(listening) + 1]
       IN  /\ listening' = listening \cup {l}
           /\ IF Reached(l) THEN Run(l) ELSE UNCHANGED <<hubQ, srcReady, srcError>>
    /\ IF listening' = Listener THEN main' = "place" /\ srcWatcher' = "wait"
                                ELSE UNCHANGED <<main, srcWatcher>>
    /\ UNCHANGED <<inSpoke, visits, listVars, contVars, swVars, repoVars, automated, payloadVars, ctlVars>>

Place ==
    /\ main = "place"
    /\ main' = IF NextSpoke = Network THEN "added" ELSE "create"
    /\ created' = created \cup {NextSpoke}
    /\ notReady' = notReady \cup {s \in {NextSpoke} : ~SpokeReady(s)}
    /\ UpdateCompleteness({NextSpoke})
    /\ UNCHANGED <<inSpoke, visits, hubQ, contVars, srcVars, swVars, repoVars, restVars, payloadVars, ctlVars>>

AllAdded ==
    /\ main = "added" /\ main' = "idle"
    /\ Controller!AllModulesAdded
    /\ UNCHANGED <<listVars, clickContinue, clicked>>
    /\ UpdateContinue /\ autoContinue' = WarnedOnce
    /\ UNCHANGED <<inSpoke, visits, hubQ, srcVars, swVars, repoVars, restVars, payloadVars>>

-----------------------------------------------------------------------------
(* _update_spokes: the timer of the hub                                    *)

\* A message for a spoke changes its selector, the lists and the button; a READY
\* in a kickstart installation decides on the automatic continue.
Decides(m) == automated /\ m.code = "READY" /\ ContinuePossible

AutoAfter(m) == WarnedOnce /\ ~(Decides(m) /\ inSpoke # None)
ClickAfter(m) == clickContinue \/ (Decides(m) /\ inSpoke = None /\ WarnedOnce)

Message ==
    /\ main \in {"idle", "drain"} /\ hubQ # <<>> /\ clicked = "no"
    /\ main' = "drain"
    /\ LET m == Head(hubQ)
       IN  /\ UpdateCompleteness({m.spoke})
           /\ notReady' = IF m.code = "READY" THEN notReady \ {m.spoke} ELSE notReady \cup {m.spoke}
           /\ UpdateContinue
           /\ autoContinue' = AutoAfter(m)
           /\ clickContinue' = ClickAfter(m)
    /\ hubQ' = Tail(hubQ)
    /\ UNCHANGED <<created, clicked, inSpoke, visits, srcVars, swVars, repoVars, restVars, payloadVars, ctlVars>>

StillWanted == autoContinue /\ clickContinue /\ mayContinue

QueueEmpty ==
    /\ main = "drain" /\ hubQ = <<>>
    /\ IF StillWanted THEN main' = "left" /\ clicked' = "auto"
                      ELSE main' = "idle" /\ UNCHANGED clicked
    /\ UNCHANGED <<inSpoke, visits, hubQ, listVars, autoContinue, clickContinue, mayContinue, success, ignored,
                   srcVars, swVars, repoVars, restVars, payloadVars, ctlVars>>

-----------------------------------------------------------------------------
(* The user                                                                *)

\* _on_spoke_clicked.
AutoGoesOn == autoContinue          \* mutant: a visit does not stop the automatic continue
AutoIsOff == FALSE

SpokeClicked(s) ==
    /\ main = "idle" /\ inSpoke = None /\ s \in sensitive /\ ~clickContinue
    /\ visits < MaxVisits /\ visits' = visits + 1
    /\ autoContinue' = AutoIsOff
    /\ inSpoke' = s
    /\ main' = IF s = Software THEN "refresh" ELSE "idle"
    /\ UNCHANGED <<hubQ, listVars, clickContinue, mayContinue, success, ignored, clicked, srcVars, swVars,
                   repoVars, restVars, payloadVars, ctlVars>>

\* refresh() of the software spoke waits for the payload thread.
RefreshSoftware ==
    /\ main = "refresh" /\ run = "none"
    /\ main' = "idle"
    /\ UNCHANGED <<inSpoke, visits, hubQ, listVars, contVars, srcVars, swVars, repoVars, restVars, payloadVars, ctlVars>>

\* The software spoke applies its selection and starts a check.
ApplySoftware ==
    /\ kickstarted' = FALSE /\ selected' = TRUE
    /\ hubQ' = hubQ \o NotReady(<<Software, Source>>)

Execute ==
    /\ check' = IF check = "none" THEN "bump" ELSE check
    /\ clash' = (clash \/ check # "none")

\* spoke_done: apply and execute; the source and the network may have changed, and
\* an error of the source spoke restarts the payload anyway ...
SpokeDone ==
    /\ main = "idle" /\ inSpoke # None /\ main' = "leave"
    /\ \/ /\ inSpoke = Software
          /\ ApplySoftware /\ Execute
          /\ UNCHANGED payloadVars
       \/ /\ inSpoke # Software /\ (inSpoke = Source => ~srcError)
          /\ UNCHANGED <<hubQ, kickstarted, selected, check, clash, payloadVars>>
       \/ /\ inSpoke # Software
          /\ RestartPayload
          /\ UNCHANGED <<hubQ, kickstarted, selected, check, clash>>
    /\ UNCHANGED <<inSpoke, visits, listVars, contVars, srcVars, swWatcher, swErrors, swTx, repoVars,
                   restVars, ctlVars>>

\* ... then the selectors of all spokes are updated.
Leave ==
    /\ main = "leave" /\ main' = "idle"
    /\ inSpoke' = None
    /\ UNCHANGED <<created, notReady, clickContinue, clicked>>
    /\ UpdateCompleteness(created)
    /\ UpdateContinue /\ autoContinue' = WarnedOnce
    /\ UNCHANGED <<visits, hubQ, srcVars, swVars, repoVars, restVars, payloadVars, ctlVars>>

ContinueClicked ==
    /\ main = "idle" /\ inSpoke = None /\ mayContinue
    /\ main' = "left" /\ clicked' = "user"
    /\ UNCHANGED <<inSpoke, visits, hubQ, listVars, autoContinue, clickContinue, mayContinue, success, ignored,
                   srcVars, swVars, repoVars, restVars, payloadVars, ctlVars>>

-----------------------------------------------------------------------------
(* The threads of the spokes, as long as the hub is shown                  *)

OnHub == main # "left"

\* SourceSpoke._initialize: the loop waits until the spoke is ready.
SourceWatcher ==
    /\ OnHub
    /\ \/ /\ srcWatcher = "wait" /\ run = "none"
          /\ srcWatcher' = "poll" /\ srcReady' = TRUE
          /\ UNCHANGED <<hubQ, ctlVars>>
       \/ /\ srcWatcher = "poll" /\ SpokeReady(Source)
          /\ srcWatcher' = "send"
          /\ UNCHANGED <<srcReady, hubQ, ctlVars>>
       \/ /\ srcWatcher = "send" /\ srcWatcher' = "gone"
          /\ hubQ' = hubQ \o Ready(<<Source>>)
          /\ Controller!ModuleInitDone(Source)
          /\ UNCHANGED srcReady
    /\ UNCHANGED <<uiVars, listVars, contVars, srcError, swVars, repoVars, restVars, payloadVars>>

\* SoftwareSelectionSpoke._initialize and the end of its thread.
SoftwareWatcher ==
    /\ OnHub
    /\ \/ /\ swWatcher = "wait" /\ run = "none" /\ ~baseRepo
          /\ swWatcher' = "send"
          /\ UNCHANGED <<hubQ, check, clash, kickstarted, selected, ctlVars>>
       \/ /\ swWatcher = "wait" /\ run = "none" /\ baseRepo
          /\ swWatcher' = "join"
          /\ IF kickstarted THEN UNCHANGED <<hubQ, kickstarted, selected>> ELSE ApplySoftware
          /\ Execute
          /\ UNCHANGED ctlVars
       \/ /\ swWatcher = "join" /\ check = "none"
          /\ swWatcher' = "send"
          /\ UNCHANGED <<hubQ, check, clash, kickstarted, selected, ctlVars>>
       \/ /\ swWatcher = "send" /\ swWatcher' = "end"
          /\ hubQ' = hubQ \o Ready(<<Software>>)
          /\ Controller!ModuleInitDone(Software)
          /\ UNCHANGED <<check, clash, kickstarted, selected>>
       \/ /\ swWatcher = "end" /\ swWatcher' = "gone"
          /\ UNCHANGED <<hubQ, check, clash, kickstarted, selected, ctlVars>>
    /\ UNCHANGED <<uiVars, listVars, contVars, srcVars, swErrors, swTx, repoVars, restVars, payloadVars>>

OwnSpoke == <<Software>>            \* mutant: the source spoke is forgotten
CheckReports == <<Software, Source>>

\* _check_software_selection: the report is about the repositories of its time,
\* the transaction id is read again after it.
CheckSoftware ==
    /\ OnHub
    /\ \/ /\ check = "bump" /\ check' = "report"
          /\ tx' = tx + 1
          /\ checked' = "now"
          /\ UNCHANGED <<hubQ, swErrors, swTx>>
       \/ /\ check = "report" /\ check' = "end"
          /\ swErrors' \in BOOLEAN
          /\ swTx' = tx
          /\ hubQ' = hubQ \o Ready(CheckReports)
          /\ UNCHANGED <<tx, checked>>
       \/ /\ check = "end" /\ check' = "none"
          /\ UNCHANGED <<hubQ, swErrors, swTx, tx, checked>>
    /\ UNCHANGED <<uiVars, listVars, contVars, srcVars, swWatcher, clash, kickstarted, selected,
                   baseRepo, restVars, payloadVars, ctlVars>>

-----------------------------------------------------------------------------
(* The payload threads                                                     *)

\* The listener that the next step of the payload thread runs.
Heard ==
    {l \in listening :
        \/ l = Refresh /\ run = "begin"
        \/ l = PackageMd /\ run' = "loading"
        \/ l = Finished /\ run \in {"started", "loaded"} /\ run' = "ending"
        \/ l = Error /\ run' = "failed"}

CheckedBefore ==
    CASE checked = "now" /\ check = "report" -> "during"
      [] checked = "now" /\ check # "report" -> "before"
      [] OTHER -> checked

\* update_base_repo resets tx_id and sets up the repositories, is_ready is asked
\* after it, and unsetup removes them.
KeptTransaction == tx               \* mutant: the payload keeps its transaction id
NoTransaction == 0

Repositories ==
    /\ IF run = "loading" THEN /\ tx' = NoTransaction
                              /\ checked' = CheckedBefore
                         ELSE UNCHANGED <<tx, checked>>
    /\ baseRepo' \in CASE run = "loading" /\ run' = "loaded" -> BOOLEAN
                       [] run = "failed" -> {FALSE}
                       [] OTHER -> {baseRepo}
    /\ run = "loaded" => (run' = "ending" <=> baseRepo)

PayloadThread ==
    /\ OnHub
    /\ Payload!RunStep
    /\ Repositories
    /\ IF Heard = {} THEN UNCHANGED <<hubQ, srcReady, srcError>> ELSE \A l \in Heard : Run(l)
    /\ UNCHANGED <<uiVars, listVars, contVars, srcWatcher, swVars, restVars, ctlVars>>

RestartThread ==
    /\ OnHub
    /\ Payload!StartRun
    /\ UNCHANGED <<uiVars, hubQ, listVars, contVars, srcVars, swVars, repoVars, restVars, ctlVars>>

-----------------------------------------------------------------------------

MainLoop == Boot \/ Initialize \/ Listen \/ Place \/ AllAdded \/ Message \/ QueueEmpty
            \/ RefreshSoftware \/ Leave
User == (\E s \in Spoke : SpokeClicked(s)) \/ SpokeDone \/ ContinueClicked
Threads == SourceWatcher \/ SoftwareWatcher \/ CheckSoftware \/ PayloadThread \/ RestartThread

Next == MainLoop \/ User \/ Threads

Spec == Init /\ [][Next]_vars

\* The main loop and the threads run; what the user does is left open.
Fairness == WF_vars(MainLoop \/ Threads)

FairSpec == Spec /\ Fairness

-----------------------------------------------------------------------------
(* Properties                                                              *)

NoThread ==
    /\ run = "none" /\ pending = "no" /\ check = "none"
    /\ ~Registered(swWatcher) /\ ~Registered(srcWatcher)

Quiet == NoThread /\ hubQ = <<>> /\ main = "idle" /\ inSpoke = None

\* The hub goes on by itself only when the user never entered a spoke, no check
\* or payload thread works, the source and the space are good and the check has found
\* no error (it may not have run: see the README).
AutoContinueEarned ==
    clicked = "auto" =>
        /\ automated /\ success /\ visits = 0
        /\ NoThreads /\ baseRepo /\ ~srcError /\ ~swErrors

\* A spoke stays in the list of the unready ones only while there is work, or,
\* for the software, after a failed set up of the source.
NoForgottenNotReady ==
    Quiet => notReady \subseteq (IF phase = Payload!Error THEN {Software} ELSE {})

\* The software spoke never starts a check while one is registered, which would
\* be a KeyError in the main thread.
OneCheck == ~clash

InitDoneOnceAfterAll == Controller!InitDoneOnceAfterAll

\* All spokes are initialized at last: the loop of the source spoke, which waits
\* until no thread works, ends whatever the user does, unless the hub is left.
InitDoneComes == <>(emitted = 1 \/ clicked # "no")

\* "On automated kickstart installs, our desired behavior is to ... skip to the
\* progress hub immediately after everything's done": when nothing works any more
\* and every spoke is complete, the hub has gone on.
SkipsWhenDone ==
    Quiet /\ automated /\ autoContinue => \E s \in Spoke : ~Completed(s)

\* "Has the installation source changed?" (_source_has_changed): a selection that
\* was checked with other repositories does not count as complete, unless they were
\* reset while it was checked: the check stores tx_id, None by then, as its own.
CompletedIsChecked == SoftwareCompleted => checked # "before"
=============================================================================
