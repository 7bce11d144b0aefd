-------------------------- MODULE SummaryHubProofs --------------------------
(***************************************************************************)
(* What holds of the summary hub for any number of visits of the user: its *)
(* lists and queues stay in their ranges, its spokes are built in order,   *)
(* init_done is sent once, the two places that start a check of the        *)
(* software never do so while one is registered, a selection counts as     *)
(* complete only with the repositories it was checked with, the automatic  *)
(* continue is earned, and no spoke is forgotten as not ready.             *)
(***************************************************************************)
EXTENDS SummaryHub, FiniteSetTheorems, SequenceTheorems, TLAPS

Messages == [code : Codes, spoke : Spoke]

\* The boxes are made in the order of the categories, the listeners are added in
\* the order of SourceSpoke.initialize, and the loop starts when all are made.
Building ==
    /\ created \in {{}, {Source}, {Source, Software}, Spoke}
    /\ main \notin {"boot", "create", "listen", "place"} <=> created = Spoke
    /\ main \in {"boot", "listen"} => created = {}
    /\ listening \in {{}, {Refresh}, {Refresh, PackageMd}, {Refresh, PackageMd, Finished}, Listener}
    /\ main = "boot" \/ (main = "create" /\ created = {}) => listening = {}
    /\ main = "listen" => listening # Listener

\* Where the check of the software can be: with the thread of the spoke, or with
\* the user who leaves the spoke, whose selector is sensitive only without a check.
CheckInv ==
    /\ ~clash
    /\ swWatcher \in {"none", "wait"} => check = "none"
    /\ Software \in created \/ (main = "place" /\ created = {Source}) => swWatcher # "none"
    /\ created = {} \/ (main = "create" /\ created = {Source}) => swWatcher = "none"
    /\ inSpoke = Software => swWatcher = "gone" /\ (check = "none" \/ main = "leave")
    /\ Software \in sensitive => swWatcher = "gone" /\ (check = "none" \/ main = "leave")

\* The controller: who was accepted is initializing or done.
CtlInv ==
    /\ emitted = IF triggered THEN 1 ELSE 0
    /\ triggered => allAdded /\ started \subseteq done
    /\ started \subseteq initializing \cup done

SpokesDiffer == Source # Software /\ Source # Network /\ Software # Network /\ None \notin Spoke
ListenersDiffer ==
    /\ Refresh # PackageMd /\ Refresh # Finished /\ Refresh # Error
    /\ PackageMd # Finished /\ PackageMd # Error /\ Finished # Error
    /\ Listener = {Refresh, PackageMd, Finished, Error}

LEMMA Constants == SpokesDiffer /\ ListenersDiffer /\ Spoke = {Source, Software, Network}
  BY DEF SpokesDiffer, ListenersDiffer, Source, Software, Network, None, Spoke,
         Refresh, PackageMd, Finished, Error, Listener

-----------------------------------------------------------------------------
(* init_done.                                                              *)

LEMMA ControllerSteps ==
  ASSUME Next
  PROVE  Controller!CtlNext \/ UNCHANGED ctlVars
<1>1. CASE Initialize
  BY <1>1 DEF Initialize, Controller!CtlNext
<1>2. CASE AllAdded
  BY <1>2 DEF AllAdded, Controller!CtlNext
<1>3. CASE SourceWatcher
  BY <1>3 DEF SourceWatcher, Controller!CtlNext
<1>4. CASE SoftwareWatcher
  BY <1>4 DEF SoftwareWatcher, Controller!CtlNext
<1>5. CASE Boot \/ Listen \/ Place \/ Message \/ QueueEmpty \/ RefreshSoftware \/ Leave
  BY <1>5 DEF Boot, Listen, Place, Message, QueueEmpty, RefreshSoftware, Leave
<1>6. CASE User
  BY <1>6 DEF User, SpokeClicked, SpokeDone, ContinueClicked
<1>7. CASE CheckSoftware \/ PayloadThread \/ RestartThread
  BY <1>7 DEF CheckSoftware, PayloadThread, RestartThread
<1> QED
  BY <1>1, <1>2, <1>3, <1>4, <1>5, <1>6, <1>7 DEF Next, MainLoop, Threads

LEMMA ControllerStep ==
  ASSUME CtlInv, Controller!CtlNext
  PROVE  CtlInv'
<1> USE DEF CtlInv
<1>1. CASE \E m \in {Source, Software} : Controller!ModuleInitStart(m)
  <2>1. CASE allAdded
    BY <1>1, <2>1 DEF Controller!ModuleInitStart
  <2>2. CASE ~allAdded
    BY <1>1, <2>2 DEF Controller!ModuleInitStart
  <2> QED
    BY <2>1, <2>2
<1>2. CASE \E m \in {Source, Software} : Controller!ModuleInitDone(m)
  <2>1. PICK m \in {Source, Software} : Controller!ModuleInitDone(m)
    BY <1>2
  <2>2. CASE ~triggered /\ allAdded /\ initializing \ {m} = {}
    <3>1. started \subseteq done'
      BY <2>1, <2>2 DEF Controller!ModuleInitDone
    <3>2. allAdded' /\ started' = started /\ triggered' /\ emitted' = 1
      BY <2>1, <2>2 DEF Controller!ModuleInitDone, Controller!LastOne
    <3> QED
      BY <3>1, <3>2
  <2>3. CASE ~(~triggered /\ allAdded /\ initializing \ {m} = {})
    <3>1. UNCHANGED <<allAdded, started, triggered, emitted>> /\ done' = done \cup {m}
      BY <2>1, <2>3 DEF Controller!ModuleInitDone, Controller!LastOne
    <3>2. initializing' = IF triggered THEN initializing ELSE initializing \ {m}
      BY <2>1 DEF Controller!ModuleInitDone
    <3> QED
      BY <3>1, <3>2
  <2> QED
    BY <2>2, <2>3
<1>3. CASE Controller!AllModulesAdded
  <2>1. CASE Controller!NothingLeft
    <3>1. ~triggered /\ initializing = {}
      BY <2>1 DEF Controller!NothingLeft
    <3>2. allAdded' /\ triggered' /\ emitted' = emitted + 1 /\ UNCHANGED <<started, done>>
      BY <1>3, <2>1 DEF Controller!AllModulesAdded
    <3> QED
      BY <3>1, <3>2
  <2>2. CASE ~Controller!NothingLeft
    <3>1. triggered' <=> triggered
      BY <1>3, <2>2 DEF Controller!AllModulesAdded
    <3>2. allAdded' /\ UNCHANGED <<emitted, initializing, started, done>>
      BY <1>3, <2>2 DEF Controller!AllModulesAdded
    <3> QED
      BY <3>1, <3>2
  <2> QED
    BY <2>1, <2>2
<1> QED
  BY <1>1, <1>2, <1>3 DEF Controller!CtlNext

\* init_done is sent at most once, and only when all spokes were declared added and
\* each of those that were accepted is done, in whatever order the main thread and
\* the threads of the spokes call the controller.
THEOREM InitDoneIsLast == Spec => []InitDoneOnceAfterAll
<1>1. Init => CtlInv
  BY DEF Init, Controller!CtlInit, CtlInv
<1>2. CtlInv /\ [Next]_vars => CtlInv'
  <2>1. CtlInv /\ UNCHANGED ctlVars => CtlInv'
    BY DEF CtlInv, ctlVars
  <2> QED
    BY <2>1, ControllerSteps, ControllerStep DEF vars
<1>3. CtlInv => InitDoneOnceAfterAll
  BY DEF CtlInv, InitDoneOnceAfterAll, Controller!InitDoneOnceAfterAll
<1> QED
  BY <1>1, <1>2, <1>3, PTL DEF Spec

-----------------------------------------------------------------------------
(* The type invariant.                                                     *)

LEMMA QueueType ==
  /\ \A s \in Spoke : Ready(<<s>>) \in Seq(Messages)
  /\ \A s, t \in Spoke : Ready(<<s, t>>) \in Seq(Messages)
  /\ \A s, t \in Spoke : NotReady(<<s, t>>) \in Seq(Messages)
  BY DEF Ready, NotReady, Messages, Codes

LEMMA ListType ==
  ASSUME TypeOK, NEW S, S \subseteq created', created \subseteq created', UpdateCompleteness(S)
  PROVE  sensitive' \subseteq created' /\ incomplete' \subseteq created'
  BY DEF TypeOK, UpdateCompleteness

LEMMA ContinueType ==
  ASSUME TypeOK, UpdateContinue
  PROVE  success' \in BOOLEAN /\ ignored' \in BOOLEAN /\ mayContinue' \in BOOLEAN
<1>1. success' \in BOOLEAN
  BY DEF TypeOK, UpdateContinue
<1>2. ignored' \in BOOLEAN /\ mayContinue' \in BOOLEAN
  BY ZenonT(20) DEF UpdateContinue, Warned, ContinuePossible
<1> QED
  BY <1>1, <1>2

LEMMA RunType ==
  ASSUME TypeOK, NEW l \in Listener, Run(l)
  PROVE  hubQ' \in Seq(Messages) /\ srcReady' \in BOOLEAN /\ srcError' \in BOOLEAN
<1>0. ListenersDiffer /\ Spoke = {Source, Software, Network} /\ hubQ \in Seq(Messages)
  BY Constants DEF TypeOK, Messages
<1>1. hubQ' \in Seq(Messages)
  <2> DEFINE added == CASE l = Refresh -> NotReady(<<Software, Source>>)
                        [] l = PackageMd -> <<>>
                        [] l = Finished -> Ready(<<Software, Source>>)
                        [] l = Error -> Ready(<<Source>>)
  <2>1. NotReady(<<Software, Source>>) \in Seq(Messages) /\ Ready(<<Software, Source>>) \in Seq(Messages)
        /\ Ready(<<Source>>) \in Seq(Messages) /\ <<>> \in Seq(Messages)
    BY <1>0, QueueType
  <2>2. added \in Seq(Messages)
    BY <1>0, <2>1 DEF ListenersDiffer
  <2>3. hubQ' = hubQ \o added
    BY DEF Run
  <2> HIDE DEF added
  <2> QED
    BY <1>0, <2>2, <2>3
<1>2. srcError' \in BOOLEAN
  <2>1. srcError \in BOOLEAN
    BY DEF TypeOK
  <2>2. CASE l = PackageMd
    BY <1>0, <2>2 DEF Run, ListenersDiffer
  <2>3. CASE l = Error
    BY <1>0, <2>3 DEF Run, ListenersDiffer
  <2>4. CASE l # PackageMd /\ l # Error
    BY <1>0, <2>1, <2>4 DEF Run
  <2> QED
    BY <2>2, <2>3, <2>4
<1>3. srcReady' \in BOOLEAN
  <2>1. srcReady' = (srcReady \/ l \in {Finished, Error})
    BY DEF Run
  <2> QED
    BY <2>1, Zenon
<1> QED
  BY <1>1, <1>2, <1>3

\* A conjunction, a disjunction and a negation are Boolean values.
LEMMA BooleanValues ==
  /\ WarnedOnce \in BOOLEAN
  /\ \A m : AutoAfter(m) \in BOOLEAN /\ ClickAfter(m) \in BOOLEAN
  /\ (clash \/ check # "none") \in BOOLEAN
  BY Zenon DEF WarnedOnce, AutoAfter, ClickAfter

LEMMA SoftwareTypes ==
  ASSUME TypeOK
  PROVE  /\ Execute => check' \in {"none", "bump", "report", "end"} /\ clash' \in BOOLEAN
         /\ ApplySoftware => /\ kickstarted' \in BOOLEAN /\ selected' \in BOOLEAN
                             /\ hubQ' \in Seq(Messages)
<1>1. Execute => check' \in {"none", "bump", "report", "end"} /\ clash' \in BOOLEAN
  BY BooleanValues DEF TypeOK, Execute
<1>2. hubQ \in Seq(Messages) /\ Source \in Spoke /\ Software \in Spoke
  BY Constants DEF TypeOK, Messages
<1>3. hubQ \o NotReady(<<Software, Source>>) \in Seq(Messages)
  BY <1>2, QueueType
<1> QED
  BY <1>1, <1>3 DEF ApplySoftware

LEMMA ListenerCount ==
  ASSUME Building, main = "listen"
  PROVE  LET k == ListenerOrder[Cardinality(listening) + 1]
         IN  /\ k \in Listener
             /\ listening \cup {k} \in
                    {{Refresh}, {Refresh, PackageMd}, {Refresh, PackageMd, Finished}, Listener}
<1>0. ListenersDiffer
  BY Constants
<1>1. /\ IsFiniteSet({Refresh}) /\ IsFiniteSet({Refresh, PackageMd})
      /\ Cardinality({}) = 0 /\ Cardinality({Refresh}) = 1
      /\ Cardinality({Refresh, PackageMd}) = 2
      /\ Cardinality({Refresh, PackageMd, Finished}) = 3
  <2>1. IsFiniteSet({}) /\ Cardinality({}) = 0
    BY FS_EmptySet
  <2>2. IsFiniteSet({Refresh}) /\ Cardinality({Refresh}) = 1
    BY FS_Singleton
  <2>3. {Refresh} \cup {PackageMd} = {Refresh, PackageMd} /\ PackageMd \notin {Refresh}
    BY <1>0 DEF ListenersDiffer
  <2>4. IsFiniteSet({Refresh, PackageMd}) /\ Cardinality({Refresh, PackageMd}) = 2
    BY <2>2, <2>3, FS_AddElement
  <2>5. /\ {Refresh, PackageMd} \cup {Finished} = {Refresh, PackageMd, Finished}
        /\ Finished \notin {Refresh, PackageMd}
    BY <1>0 DEF ListenersDiffer
  <2>6. Cardinality({Refresh, PackageMd, Finished}) = 3
    BY <2>4, <2>5, FS_AddElement
  <2> QED
    BY <2>1, <2>2, <2>4, <2>6
<1>2. listening \in {{}, {Refresh}, {Refresh, PackageMd}, {Refresh, PackageMd, Finished}}
  BY DEF Building
<1>a. /\ ListenerOrder[1] = Refresh /\ ListenerOrder[2] = PackageMd
      /\ ListenerOrder[3] = Finished /\ ListenerOrder[4] = Error
  BY DEF ListenerOrder
<1>b. {Refresh, PackageMd, Finished} \cup {Error} = Listener
  BY <1>0 DEF ListenersDiffer
<1>3. CASE listening = {}
  BY <1>0, <1>1, <1>a, <1>b, <1>3 DEF ListenersDiffer
<1>4. CASE listening = {Refresh}
  BY <1>0, <1>1, <1>a, <1>b, <1>4 DEF ListenersDiffer
<1>5. CASE listening = {Refresh, PackageMd}
  BY <1>0, <1>1, <1>a, <1>b, <1>5 DEF ListenersDiffer
<1>6. CASE listening = {Refresh, PackageMd, Finished}
  BY <1>0, <1>1, <1>a, <1>b, <1>6 DEF ListenersDiffer
<1> QED
  BY <1>2, <1>3, <1>4, <1>5, <1>6

LEMMA TypeMainLoop ==
  ASSUME TypeOK, Building, MainLoop
  PROVE  TypeOK' /\ Building'
<1> USE DEF Building, MainPC
<1>0. SpokesDiffer /\ Spoke = {Source, Software, Network}
  BY Constants
<1>1. CASE Boot
  BY <1>0, <1>1
  DEF Boot, TypeOK, listVars, contVars, srcVars, swVars, repoVars, restVars
<1>2. CASE Initialize
  <2>1. /\ main = "create" /\ created \in {{}, {Source}, {Source, Software}}
        /\ main' \in {"listen", "place"} /\ (main' = "listen" => created = {})
        /\ swWatcher' \in {swWatcher, "wait"}
    BY <1>0, <1>2 DEF Initialize, NextSpoke, SpokesDiffer
  <2>2. UNCHANGED <<inSpoke, visits, hubQ, listVars, contVars, srcVars, check, clash, kickstarted,
                    selected, swErrors, swTx, repoVars, restVars>>
    BY <1>2 DEF Initialize
  <2>3. TypeOK'
    BY <2>1, <2>2 DEF TypeOK, listVars, contVars, srcVars, repoVars, restVars
  <2>4. {} # Listener
    BY DEF Listener
  <2> QED
    BY <1>0, <2>1, <2>2, <2>3, <2>4 DEF listVars, restVars, SpokesDiffer
<1>3. CASE Listen
  <2> DEFINE l == ListenerOrder[Cardinality(listening) + 1]
  <2>1. /\ main = "listen" /\ created = {}
        /\ listening' = listening \cup {l}
        /\ Run(l) \/ UNCHANGED <<hubQ, srcReady, srcError>>
        /\ IF listening' = Listener THEN main' = "place" /\ srcWatcher' = "wait"
                                    ELSE UNCHANGED <<main, srcWatcher>>
        /\ UNCHANGED <<inSpoke, visits, listVars, contVars, swVars, repoVars, automated>>
    BY <1>3 DEF Listen
  <2>2. l \in Listener /\ listening' \in
          {{Refresh}, {Refresh, PackageMd}, {Refresh, PackageMd, Finished}, Listener}
    BY <2>1, ListenerCount
  <2> HIDE DEF l
  <2>3. hubQ' \in Seq(Messages) /\ srcReady' \in BOOLEAN /\ srcError' \in BOOLEAN
    BY <2>1, <2>2, RunType DEF TypeOK, Messages
  <2>4. listening' \subseteq Listener
    BY <2>1, <2>2 DEF TypeOK
  <2>5. main' \in {"listen", "place"} /\ srcWatcher' \in {srcWatcher, "wait"}
        /\ (main' = "listen" => listening' # Listener)
    BY <2>1
  <2>6. created' = created
    BY <2>1 DEF listVars
  <2>7. TypeOK'
    BY <2>1, <2>3, <2>4, <2>5 DEF TypeOK, Messages, listVars, contVars, swVars, repoVars
  <2> QED
    BY <1>0, <2>1, <2>2, <2>5, <2>6, <2>7 DEF SpokesDiffer
<1>4. CASE Place
  <2>1. /\ main = "place"
        /\ main' = IF NextSpoke = Network THEN "added" ELSE "create"
        /\ created' = created \cup {NextSpoke}
        /\ notReady' \subseteq notReady \cup {NextSpoke}
        /\ UpdateCompleteness({NextSpoke})
        /\ UNCHANGED <<inSpoke, visits, hubQ, contVars, srcVars, swVars, repoVars, restVars>>
    BY <1>4 DEF Place
  <2>2. /\ NextSpoke \in Spoke /\ created' # {}
        /\ created' \in {{Source}, {Source, Software}, Spoke}
        /\ created' = Spoke <=> NextSpoke = Network
    BY <1>0, <2>1 DEF NextSpoke, SpokesDiffer
  <2>3. sensitive' \subseteq created' /\ incomplete' \subseteq created'
    BY <2>1, ListType
  <2>4. created' \subseteq Spoke /\ notReady' \subseteq created'
    BY <2>1, <2>2 DEF TypeOK
  <2>5. TypeOK'
    BY <2>1, <2>3, <2>4 DEF TypeOK, contVars, srcVars, swVars, repoVars, restVars
  <2>6. listening' = listening
    BY <2>1 DEF restVars
  <2> QED
    BY <1>0, <2>1, <2>2, <2>5, <2>6
<1>5. CASE AllAdded
  <2>1. /\ main = "added" /\ main' = "idle" /\ autoContinue' = WarnedOnce
        /\ UNCHANGED <<listVars, clickContinue, clicked>> /\ UpdateContinue
        /\ UNCHANGED <<inSpoke, visits, hubQ, srcVars, swVars, repoVars, restVars>>
    BY <1>5 DEF AllAdded
  <2>2. TypeOK'
    BY <2>1, ContinueType, BooleanValues DEF TypeOK, listVars, srcVars, swVars, repoVars, restVars
  <2> QED
    BY <2>1, <2>2 DEF listVars, restVars
<1>6. CASE Message
  <2> DEFINE m == Head(hubQ)
  <2>1. /\ main \in {"idle", "drain"} /\ hubQ # <<>> /\ main' = "drain"
        /\ UpdateCompleteness({m.spoke}) /\ UpdateContinue
        /\ notReady' \subseteq notReady \cup {m.spoke}
        /\ autoContinue' = AutoAfter(m) /\ clickContinue' = ClickAfter(m)
        /\ hubQ' = Tail(hubQ)
        /\ UNCHANGED <<created, clicked, inSpoke, visits, srcVars, swVars, repoVars, restVars>>
    BY <1>6 DEF Message
  <2>2. m \in Messages /\ hubQ' \in Seq(Messages)
    <3>1. hubQ \in Seq(Messages) /\ hubQ # <<>>
      BY <2>1 DEF TypeOK, Messages
    <3> QED
      BY <2>1, <3>1, HeadTailProperties
  <2>3. m.spoke \in created' /\ created' = created
    BY <2>1, <2>2 DEF Messages
  <2>4. sensitive' \subseteq created' /\ incomplete' \subseteq created'
    BY <2>1, <2>3, ListType
  <2>5. autoContinue' \in BOOLEAN /\ clickContinue' \in BOOLEAN
    BY <2>1, BooleanValues
  <2>6. success' \in BOOLEAN /\ ignored' \in BOOLEAN /\ mayContinue' \in BOOLEAN
    BY <2>1, ContinueType
  <2> HIDE DEF m
  <2>7. TypeOK'
    BY <2>1, <2>2, <2>3, <2>4, <2>5, <2>6 DEF TypeOK, Messages, srcVars, swVars, repoVars, restVars
  <2> QED
    BY <2>1, <2>3, <2>7 DEF restVars
<1>7. CASE QueueEmpty
  BY <1>7 DEF QueueEmpty, TypeOK, listVars, srcVars, swVars, repoVars, restVars
<1>8. CASE RefreshSoftware
  BY <1>8 DEF RefreshSoftware, TypeOK, listVars, contVars, srcVars, swVars, repoVars, restVars
<1>9. CASE Leave
  <2>1. /\ main = "leave" /\ main' = "idle" /\ inSpoke' = None /\ autoContinue' = WarnedOnce
        /\ UNCHANGED <<created, notReady, clickContinue, clicked>>
        /\ UpdateCompleteness(created) /\ UpdateContinue
        /\ UNCHANGED <<visits, hubQ, srcVars, swVars, repoVars, restVars>>
    BY <1>9 DEF Leave
  <2>2. sensitive' \subseteq created' /\ incomplete' \subseteq created'
    BY <2>1, ListType
  <2>3. TypeOK'
    BY <2>1, <2>2, ContinueType, BooleanValues DEF TypeOK, srcVars, swVars, repoVars, restVars
  <2> QED
    BY <2>1, <2>3 DEF restVars
<1> QED
  BY <1>1, <1>2, <1>3, <1>4, <1>5, <1>6, <1>7, <1>8, <1>9 DEF MainLoop

LEMMA TypeUser ==
  ASSUME TypeOK, Building, User
  PROVE  TypeOK' /\ Building'
<1> USE DEF Building, MainPC
<1>1. CASE \E s \in Spoke : SpokeClicked(s)
  <2>1. PICK s \in Spoke : SpokeClicked(s)
    BY <1>1
  <2>2. visits' \in 0..MaxVisits
    BY <2>1, HubAssumption DEF SpokeClicked, TypeOK
  <2>3. /\ main = "idle" /\ main' \in {"refresh", "idle"} /\ inSpoke' \in Spoke
        /\ autoContinue' \in BOOLEAN
        /\ UNCHANGED <<hubQ, listVars, clickContinue, mayContinue, success, ignored, clicked, srcVars,
                       swVars, repoVars, restVars>>
    BY <2>1 DEF SpokeClicked, AutoIsOff
  <2>4. TypeOK'
    BY <2>1, <2>2, <2>3 DEF TypeOK, listVars, srcVars, swVars, repoVars, restVars
  <2> QED
    BY <2>3, <2>4 DEF listVars, restVars
<1>2. CASE SpokeDone
  <2>1. /\ hubQ' = hubQ \/ hubQ' \in Seq(Messages)
        /\ kickstarted' \in BOOLEAN /\ selected' \in BOOLEAN
        /\ check' \in {"none", "bump", "report", "end"} /\ clash' \in BOOLEAN
    BY <1>2, SoftwareTypes DEF SpokeDone, TypeOK
  <2>2. /\ main = "idle" /\ main' = "leave"
        /\ UNCHANGED <<inSpoke, visits, listVars, contVars, srcVars, swWatcher, swErrors, swTx, repoVars, restVars>>
    BY <1>2 DEF SpokeDone
  <2>3. TypeOK'
    BY <2>1, <2>2 DEF TypeOK, Messages, listVars, contVars, srcVars, repoVars, restVars
  <2> QED
    BY <2>2, <2>3 DEF listVars, restVars
<1>3. CASE ContinueClicked
  BY <1>3 DEF ContinueClicked, TypeOK, listVars, srcVars, swVars, repoVars, restVars
<1> QED
  BY <1>1, <1>2, <1>3 DEF User

LEMMA TypeThreads ==
  ASSUME TypeOK, Building, Threads
  PROVE  TypeOK' /\ Building'
<1>0. Spoke = {Source, Software, Network} /\ hubQ \in Seq(Messages)
  BY Constants DEF TypeOK, Messages
<1>1. CASE SourceWatcher
  <2>1. hubQ \o Ready(<<Source>>) \in Seq(Messages)
    BY <1>0, QueueType
  <2>2. hubQ' \in Seq(Messages)
    BY <1>0, <1>1, <2>1 DEF SourceWatcher
  <2>3. srcWatcher' \in {"poll", "send", "gone"} /\ srcReady' \in BOOLEAN
    BY <1>1 DEF SourceWatcher, TypeOK
  <2>4. UNCHANGED <<uiVars, listVars, contVars, srcError, swVars, repoVars, restVars>>
    BY <1>1 DEF SourceWatcher
  <2> QED
    BY <2>2, <2>3, <2>4
    DEF TypeOK, Building, Messages, uiVars, listVars, contVars, swVars, repoVars, restVars
<1>2. CASE SoftwareWatcher
  <2>1. hubQ \o Ready(<<Software>>) \in Seq(Messages)
    BY <1>0, QueueType
  <2>2. hubQ' \in Seq(Messages) /\ kickstarted' \in BOOLEAN /\ selected' \in BOOLEAN
    BY <1>0, <1>2, <2>1, SoftwareTypes DEF SoftwareWatcher, TypeOK
  <2>3. check' \in {"none", "bump", "report", "end"} /\ clash' \in BOOLEAN
    BY <1>2, SoftwareTypes DEF SoftwareWatcher, TypeOK
  <2>4. swWatcher' \in {"join", "send", "end", "gone"}
    BY <1>2 DEF SoftwareWatcher
  <2>5. UNCHANGED <<uiVars, listVars, contVars, srcVars, swErrors, swTx, repoVars, restVars>>
    BY <1>2 DEF SoftwareWatcher
  <2> QED
    BY <2>2, <2>3, <2>4, <2>5
    DEF TypeOK, Building, Messages, uiVars, listVars, contVars, srcVars, repoVars, restVars
<1>3. CASE CheckSoftware
  <2>1. hubQ \o Ready(CheckReports) \in Seq(Messages)
    BY <1>0, QueueType DEF CheckReports
  <2>2. hubQ' \in Seq(Messages)
    BY <1>0, <1>3, <2>1 DEF CheckSoftware
  <2>3. /\ check' \in {"none", "report", "end"} /\ tx' \in Nat /\ swTx' \in Nat
        /\ swErrors' \in BOOLEAN /\ checked' \in {"never", "now", "during", "before"}
    BY <1>3 DEF CheckSoftware, TypeOK
  <2>4. UNCHANGED <<uiVars, listVars, contVars, srcVars, swWatcher, clash, kickstarted, selected,
                    baseRepo, restVars>>
    BY <1>3 DEF CheckSoftware
  <2> QED
    BY <2>2, <2>3, <2>4
    DEF TypeOK, Building, Messages, uiVars, listVars, contVars, srcVars, restVars
<1>4. CASE PayloadThread
  <2>1. hubQ' \in Seq(Messages) /\ srcReady' \in BOOLEAN /\ srcError' \in BOOLEAN
    <3>1. CASE Heard = {}
      BY <1>0, <1>4, <3>1 DEF PayloadThread, TypeOK
    <3>2. CASE Heard # {}
      <4>1. PICK l \in Heard : Run(l)
        BY <1>4, <3>2 DEF PayloadThread
      <4>2. l \in Listener
        BY DEF Heard, TypeOK
      <4> QED
        BY <4>1, <4>2, RunType
    <3> QED
      BY <3>1, <3>2
  <2>2. tx' \in Nat /\ checked' \in {"never", "now", "during", "before"}
    <3>1. tx' \in {tx, 0} /\ checked' \in {checked, "during", "before"}
      BY <1>4 DEF PayloadThread, Repositories, NoTransaction, CheckedBefore
    <3> QED
      BY <3>1 DEF TypeOK
  <2>3. baseRepo' \in BOOLEAN
    BY <1>4 DEF PayloadThread, Repositories, TypeOK
  <2>4. UNCHANGED <<uiVars, listVars, contVars, srcWatcher, swVars, restVars>>
    BY <1>4 DEF PayloadThread
  <2> QED
    BY <2>1, <2>2, <2>3, <2>4
    DEF TypeOK, Building, Messages, uiVars, listVars, contVars, swVars, restVars
<1>5. CASE RestartThread
  BY <1>5
  DEF RestartThread, TypeOK, Building, uiVars, listVars, contVars, srcVars, swVars, repoVars, restVars
<1> QED
  BY <1>1, <1>2, <1>3, <1>4, <1>5 DEF Threads

LEMMA TypeInit ==
  ASSUME Init
  PROVE  TypeOK /\ Building
<1>1. Building
  BY Constants DEF Init, Building
<1>2. automated \in BOOLEAN /\ automated \in Automated /\ 0 \in 0..MaxVisits
  BY HubAssumption DEF Init
<1>3. <<>> \in Seq(Messages)
  OBVIOUS
<1> QED
  BY <1>1, <1>2, <1>3 DEF Init, TypeOK, MainPC, Messages

\* Type correctness of the hub: its lists are lists of spokes that have boxes, and
\* its queue holds messages for them.
THEOREM HubTypeCorrect == Spec => []TypeOK
<1>1. TypeOK /\ Building /\ [Next]_vars => TypeOK' /\ Building'
  <2>1. TypeOK /\ Building /\ UNCHANGED vars => TypeOK' /\ Building'
    BY DEF vars, TypeOK, Building, uiVars, listVars, contVars, srcVars, swVars, repoVars, restVars
  <2> QED
    BY <2>1, TypeMainLoop, TypeUser, TypeThreads DEF Next
<1>2. Spec => [](TypeOK /\ Building)
  BY <1>1, TypeInit, PTL DEF Spec
<1> QED
  BY <1>2, PTL

-----------------------------------------------------------------------------
(* The check of the software.                                              *)

\* A spoke is sensitive after _updateCompleteness only if it is ready.
LEMMA SensitiveIsReady ==
  ASSUME NEW S, UpdateCompleteness(S), Software \in S, Software \in sensitive'
  PROVE  SpokeReady(Software)
  BY Constants DEF UpdateCompleteness, SpokesDiffer

LEMMA ReadyIsChecked ==
  ASSUME SpokeReady(Software), swWatcher # "none"
  PROVE  (swWatcher \notin {"wait", "join", "send", "end"}) /\ check = "none"
  BY Constants DEF SpokeReady, NoThreads, Registered, SpokesDiffer

LEMMA CheckMainLoop ==
  ASSUME TypeOK, Building, CheckInv, MainLoop
  PROVE  CheckInv'
<1>0. SpokesDiffer /\ Spoke = {Source, Software, Network} /\ inSpoke \in Spoke \cup {None}
  BY Constants DEF TypeOK
<1> USE DEF CheckInv
<1>1. CASE Boot
  BY <1>1 DEF Boot, Building, TypeOK, listVars, swVars
<1>2. CASE Initialize
  <2>1. CASE NextSpoke = Source
    BY <1>0, <1>2, <2>1 DEF Initialize, NextSpoke, SpokesDiffer, Building, listVars
  <2>2. CASE NextSpoke = Software
    <3>1. created = {Source}
      BY <1>0, <2>2 DEF NextSpoke, SpokesDiffer
    <3> QED
      BY <1>0, <1>2, <2>2, <3>1 DEF Initialize, SpokesDiffer, TypeOK, listVars
  <2>3. CASE NextSpoke = Network
    <3>1. created # {} /\ created # {Source}
      BY <1>0, <2>3 DEF NextSpoke, SpokesDiffer
    <3> QED
      BY <1>0, <1>2, <2>3, <3>1 DEF Initialize, SpokesDiffer, listVars
  <2> QED
    BY <1>0, <2>1, <2>2, <2>3 DEF NextSpoke
<1>3. CASE Listen
  BY <1>0, <1>3 DEF Listen, Building, listVars, swVars, SpokesDiffer
<1>4. CASE Place
  <2>1. /\ main = "place" /\ main' \in {"added", "create"}
        /\ created' = created \cup {NextSpoke} /\ UpdateCompleteness({NextSpoke})
        /\ UNCHANGED <<inSpoke, swVars>>
    BY <1>4 DEF Place
  <2>2. created = {} \/ created = {Source} \/ created = {Source, Software}
    BY <2>1 DEF Building
  <2>3. UNCHANGED <<swWatcher, check, clash, inSpoke>>
    BY <2>1 DEF swVars
  <2>4. Software \in sensitive' => swWatcher = "gone" /\ check = "none"
    <3>1. CASE NextSpoke = Software
      <4>1. created = {Source}
        BY <1>0, <3>1 DEF NextSpoke, SpokesDiffer
      <4>2. swWatcher # "none"
        BY <2>1, <4>1
      <4> QED
        BY <2>1, <3>1, <4>2, SensitiveIsReady, ReadyIsChecked DEF TypeOK
    <3>2. CASE NextSpoke # Software
      BY <2>1, <3>2 DEF UpdateCompleteness
    <3> QED
      BY <3>1, <3>2
  <2>5. Software \in created' => swWatcher # "none"
    BY <1>0, <2>1, <2>2 DEF NextSpoke, SpokesDiffer
  <2>6. created' \in {{}, {Source}} => swWatcher = "none"
    BY <1>0, <2>1, <2>2 DEF NextSpoke, SpokesDiffer
  <2> QED
    BY <2>1, <2>3, <2>4, <2>5, <2>6
<1>5. CASE AllAdded
  BY <1>5 DEF AllAdded, listVars, swVars
<1>6. CASE Message
  <2>1. /\ main \in {"idle", "drain"} /\ main' = "drain" /\ created' = created
        /\ UpdateCompleteness({Head(hubQ).spoke})
        /\ UNCHANGED <<inSpoke, swVars>>
    BY <1>6 DEF Message
  <2>2. UNCHANGED <<swWatcher, check, clash, inSpoke>> /\ created = Spoke
    BY <2>1 DEF swVars, Building
  <2>3. swWatcher # "none"
    BY <1>0, <2>2
  <2>4. Software \in sensitive' => swWatcher = "gone" /\ check = "none"
    <3>1. CASE Head(hubQ).spoke = Software
      BY <2>1, <2>3, <3>1, SensitiveIsReady, ReadyIsChecked DEF TypeOK
    <3>2. CASE Head(hubQ).spoke # Software
      BY <2>1, <3>2 DEF UpdateCompleteness
    <3> QED
      BY <3>1, <3>2
  <2> QED
    BY <2>1, <2>2, <2>4
<1>7. CASE QueueEmpty
  BY <1>7 DEF QueueEmpty, listVars, swVars
<1>8. CASE RefreshSoftware
  BY <1>8 DEF RefreshSoftware, listVars, swVars
<1>9. CASE Leave
  <2>1. /\ main = "leave" /\ main' = "idle" /\ inSpoke' = None /\ created' = created
        /\ UpdateCompleteness(created)
        /\ UNCHANGED swVars
    BY <1>9 DEF Leave
  <2>2. UNCHANGED <<swWatcher, check, clash>> /\ created = Spoke
    BY <2>1 DEF swVars, Building
  <2>3. swWatcher # "none"
    BY <1>0, <2>2
  <2>4. Software \in sensitive' => swWatcher = "gone" /\ check = "none"
    BY <1>0, <2>1, <2>2, <2>3, SensitiveIsReady, ReadyIsChecked DEF TypeOK
  <2> QED
    BY <1>0, <2>1, <2>2, <2>4 DEF SpokesDiffer
<1> QED
  BY <1>1, <1>2, <1>3, <1>4, <1>5, <1>6, <1>7, <1>8, <1>9 DEF MainLoop

LEMMA CheckUser ==
  ASSUME TypeOK, Building, CheckInv, User
  PROVE  CheckInv'
<1> USE DEF CheckInv
<1>1. CASE \E s \in Spoke : SpokeClicked(s)
  BY <1>1 DEF SpokeClicked, Building, listVars, swVars
<1>2. CASE SpokeDone
  <2>1. /\ main = "idle" /\ main' = "leave" /\ UNCHANGED <<inSpoke, listVars, swWatcher>>
        /\ inSpoke = Software => Execute
        /\ inSpoke # Software => UNCHANGED <<check, clash>>
    BY <1>2 DEF SpokeDone
  <2>2. inSpoke = Software => swWatcher = "gone" /\ check = "none"
    BY <2>1
  <2>3. ~clash'
    BY <2>1, <2>2 DEF Execute
  <2>4. Software \in sensitive => swWatcher = "gone"
    OBVIOUS
  <2>5. swWatcher \in {"none", "wait"} => check' = "none"
    BY <2>1, <2>2
  <2> QED
    BY <2>1, <2>2, <2>3, <2>4, <2>5 DEF listVars
<1>3. CASE ContinueClicked
  BY <1>3 DEF ContinueClicked, listVars, swVars
<1> QED
  BY <1>1, <1>2, <1>3 DEF User

LEMMA CheckThreads ==
  ASSUME TypeOK, Building, CheckInv, Threads
  PROVE  CheckInv'
<1> USE DEF CheckInv
<1>1. CASE SourceWatcher \/ PayloadThread \/ RestartThread
  BY <1>1 DEF SourceWatcher, PayloadThread, RestartThread, uiVars, listVars, swVars
<1>2. CASE SoftwareWatcher
  <2>1. UNCHANGED <<main, inSpoke, created, sensitive>>
    BY <1>2 DEF SoftwareWatcher, uiVars, listVars
  <2>2. swWatcher = "wait" /\ swWatcher' = "join" => ~clash'
    BY <1>2 DEF SoftwareWatcher, Execute
  <2>3. /\ swWatcher \in {"wait", "join", "send", "end"} /\ swWatcher' \in {"join", "send", "end", "gone"}
        /\ (swWatcher = "wait" /\ swWatcher' = "join") \/ UNCHANGED <<check, clash>>
    BY <1>2 DEF SoftwareWatcher
  <2> QED
    BY <2>1, <2>2, <2>3
<1>3. CASE CheckSoftware
  BY <1>3 DEF CheckSoftware, uiVars, listVars
<1> QED
  BY <1>1, <1>2, <1>3 DEF Threads

\* The types, the order of the boxes and the place of the check, which every later
\* invariant of the hub is relative to.
THEOREM HubInvariant == Spec => [](TypeOK /\ Building /\ CheckInv)
<1>1. Init => TypeOK /\ Building /\ CheckInv
  <2>1. Init => CheckInv
    BY Constants DEF Init, CheckInv, SpokesDiffer
  <2> QED
    BY <2>1, TypeInit
<1>2. TypeOK /\ Building /\ CheckInv /\ [Next]_vars => TypeOK' /\ Building' /\ CheckInv'
  <2>1. TypeOK /\ Building /\ UNCHANGED vars => TypeOK' /\ Building'
    BY DEF vars, TypeOK, Building, uiVars, listVars, contVars, srcVars, swVars, repoVars, restVars
  <2>2. CheckInv /\ UNCHANGED vars => CheckInv'
    BY DEF vars, CheckInv, uiVars, listVars, swVars
  <2> QED
    BY <2>1, <2>2, TypeMainLoop, TypeUser, TypeThreads, CheckMainLoop, CheckUser, CheckThreads DEF Next
<1> QED
  BY <1>1, <1>2, PTL DEF Spec

\* The thread of the spoke and the user who leaves it never start a second check of
\* the software: its selector is sensitive only when both are done.
THEOREM OneCheckAtATime == Spec => []OneCheck
<1>1. CheckInv => OneCheck
  BY DEF CheckInv, OneCheck
<1> QED
  BY <1>1, HubInvariant, PTL

-----------------------------------------------------------------------------
(* The transaction of the payload.                                         *)

\* A check takes a new transaction id, which is not 0, and the software spoke stores
\* it with the report; update_base_repo resets it to 0.  So a report that was made
\* before the reset can never have the id of the payload.
TxInv ==
    /\ checked = "now" => tx > 0 /\ (check = "report" \/ swTx = tx)
    /\ checked = "before" => tx = 0 /\ swTx > 0 /\ check # "report"

\* What the user, the main loop and the watchers do leaves the two ids alone, and
\* starts at most a check.
LEMMA TxLeft ==
  ASSUME MainLoop \/ User \/ SourceWatcher \/ SoftwareWatcher \/ RestartThread
  PROVE  UNCHANGED <<checked, tx, swTx>> /\ check' \in {check, "bump"}
         /\ (check' # check => check = "none")
<1>1. CASE Boot \/ Initialize \/ Listen \/ Place \/ AllAdded
  BY <1>1 DEF Boot, Initialize, Listen, Place, AllAdded, repoVars, swVars
<1>2. CASE Message \/ QueueEmpty \/ RefreshSoftware \/ Leave
  BY <1>2 DEF Message, QueueEmpty, RefreshSoftware, Leave, repoVars, swVars
<1>3. CASE User
  BY <1>3 DEF User, SpokeClicked, SpokeDone, ContinueClicked, Execute, repoVars, swVars
<1>4. CASE SourceWatcher \/ RestartThread
  BY <1>4 DEF SourceWatcher, RestartThread, repoVars, swVars
<1>5. CASE SoftwareWatcher
  BY <1>5 DEF SoftwareWatcher, Execute, repoVars
<1> QED
  BY <1>1, <1>2, <1>3, <1>4, <1>5 DEF MainLoop

\* TxInv is inductive.
LEMMA TxStep ==
  ASSUME TypeOK, TxInv, [Next]_vars
  PROVE  TxInv'
<1>0. tx \in Nat /\ swTx \in Nat
  BY DEF TypeOK
<1> USE DEF TxInv
<1>1. CASE MainLoop \/ User \/ SourceWatcher \/ SoftwareWatcher \/ RestartThread
  BY <1>1, TxLeft
<1>2. CASE CheckSoftware
  <2>1. CASE check = "bump"
    BY <1>0, <1>2, <2>1 DEF CheckSoftware
  <2>2. CASE check = "report"
    BY <1>2, <2>2 DEF CheckSoftware
  <2>3. CASE check = "end"
    BY <1>2, <2>3 DEF CheckSoftware
  <2> QED
    BY <1>2, <2>1, <2>2, <2>3 DEF CheckSoftware
<1>3. CASE PayloadThread
  <2>1. UNCHANGED <<check, swTx>>
    BY <1>3 DEF PayloadThread, swVars
  <2>2. \/ UNCHANGED <<tx, checked>>
        \/ tx' = 0 /\ checked' = CheckedBefore
    BY <1>3 DEF PayloadThread, Repositories, NoTransaction
  <2> QED
    BY <1>0, <2>1, <2>2 DEF CheckedBefore
<1>4. CASE UNCHANGED vars
  BY <1>4 DEF vars, swVars, repoVars
<1> QED
  BY <1>1, <1>2, <1>3, <1>4 DEF Next, Threads

\* _source_has_changed: a selection whose check was reported before the repositories
\* were reset does not count as complete, however many checks, restarts of the
\* payload and visits of the user follow one another.
THEOREM CompletedSelectionIsChecked == Spec => []CompletedIsChecked
<1>1. Init => TxInv
  BY DEF Init, TxInv
<1>2. TypeOK /\ TxInv => CompletedIsChecked
  BY DEF TypeOK, TxInv, CompletedIsChecked, SoftwareCompleted
<1> QED
  BY <1>1, <1>2, TxStep, HubTypeCorrect, PTL DEF Spec


-----------------------------------------------------------------------------
(* The automatic continue.                                                 *)

\* What the automatic continue means: the user never entered a spoke and the space
\* was never too small; the button is sensitive only with the lists it was
\* computed from.
ContinueInv ==
    /\ autoContinue => automated /\ visits = 0 /\ ~ignored
    /\ inSpoke # None => visits > 0
    /\ mayContinue => created = Spoke /\ incomplete = {} /\ (success \/ ignored)

\* Until the user enters a spoke there is one run of the payload: that of anaconda.py.
OneRun ==
    /\ main = "boot" => pending = "no" /\ run = "none" /\ ~baseRepo
    /\ visits = 0 /\ (run # "none" \/ baseRepo) => pending # "waiting"

\* So a spoke that was found complete by then stays complete: what it looked at
\* cannot change any more.
GoodSource ==
    visits = 0 /\ automated /\ Source \in created \ incomplete =>
        run = "none" /\ baseRepo /\ ~srcError

GoodSoftware ==
    visits = 0 /\ Software \in created \ incomplete =>
        run = "none" /\ baseRepo /\ swWatcher = "gone" /\ check = "none" /\ ~swErrors

\* The hub has gone on by itself, and nothing moves.
Concluded == clicked = "auto" => main = "left" /\ AutoContinueEarned

AutoInv == ContinueInv /\ OneRun /\ GoodSource /\ GoodSoftware /\ Concluded

\* Once the hub was left it does nothing more.
LEMMA LeftIsLast ==
  ASSUME main = "left", Next
  PROVE  FALSE
<1>1. ~MainLoop
  BY DEF MainLoop, Boot, Initialize, Listen, Place, AllAdded, Message, QueueEmpty, RefreshSoftware, Leave
<1>2. ~User
  BY DEF User, SpokeClicked, SpokeDone, ContinueClicked
<1>3. ~Threads
  BY DEF Threads, OnHub, SourceWatcher, SoftwareWatcher, CheckSoftware, PayloadThread, RestartThread
<1> QED
  BY <1>1, <1>2, <1>3 DEF Next

\* _updateContinue keeps ContinueInv, whether or not it warns.
LEMMA ContinueUpdated ==
  ASSUME ContinueInv, UpdateContinue, autoContinue' => WarnedOnce, created' = Spoke,
         UNCHANGED <<automated, visits>>, inSpoke' \in {inSpoke, None}
  PROVE  ContinueInv'
<1>1. ignored' <=> (ignored \/ Warned)
  BY DEF UpdateContinue
<1>2. autoContinue' => automated' /\ visits' = 0 /\ ~ignored'
  BY <1>1 DEF ContinueInv, WarnedOnce
<1>3. mayContinue' => incomplete' = {} /\ (success' \/ ignored')
  BY DEF UpdateContinue, ContinuePossible
<1> QED
  BY <1>2, <1>3 DEF ContinueInv

LEMMA ContinueStep ==
  ASSUME TypeOK, Building, ContinueInv, Next
  PROVE  ContinueInv'
<1>0. visits \in Nat
  BY HubAssumption DEF TypeOK
<1>1. CASE Boot \/ Initialize \/ Listen
  <2>1. UNCHANGED <<autoContinue, automated, visits, ignored, inSpoke, mayContinue, created, incomplete,
                    success>>
    BY <1>1 DEF Boot, Initialize, Listen, listVars, contVars, restVars
  <2> QED
    BY <2>1 DEF ContinueInv
<1>2. CASE Place
  <2>1. /\ main = "place"
        /\ UNCHANGED <<autoContinue, automated, visits, ignored, inSpoke, mayContinue>>
    BY <1>2 DEF Place, contVars, restVars
  <2>2. created # Spoke
    BY <2>1 DEF Building
  <2> QED
    BY <2>1, <2>2 DEF ContinueInv
<1>3. CASE AllAdded
  <2>1. /\ main' = "idle" /\ main = "added" /\ autoContinue' = WarnedOnce /\ UpdateContinue
        /\ UNCHANGED <<automated, visits, inSpoke, created>>
    BY <1>3 DEF AllAdded, listVars, restVars
  <2>2. created' = Spoke
    BY <2>1 DEF Building
  <2> QED
    BY <2>1, <2>2, ContinueUpdated
<1>4. CASE Message
  <2>1. /\ main \in {"idle", "drain"} /\ autoContinue' = AutoAfter(Head(hubQ)) /\ UpdateContinue
        /\ UNCHANGED <<automated, visits, inSpoke, created>>
    BY <1>4 DEF Message, restVars
  <2>2. created' = Spoke
    BY <2>1 DEF Building
  <2>3. autoContinue' => WarnedOnce
    BY <2>1 DEF AutoAfter
  <2> QED
    BY <2>1, <2>2, <2>3, ContinueUpdated
<1>5. CASE QueueEmpty \/ RefreshSoftware
  <2>1. UNCHANGED <<autoContinue, automated, visits, ignored, inSpoke, mayContinue, created, incomplete,
                    success>>
    BY <1>5 DEF QueueEmpty, RefreshSoftware, listVars, contVars, restVars
  <2> QED
    BY <2>1 DEF ContinueInv
<1>6. CASE Leave
  <2>1. /\ main = "leave" /\ autoContinue' = WarnedOnce /\ UpdateContinue /\ inSpoke' = None
        /\ UNCHANGED <<automated, visits, created>>
    BY <1>6 DEF Leave, restVars
  <2>2. created' = Spoke
    BY <2>1 DEF Building
  <2> QED
    BY <2>1, <2>2, ContinueUpdated
<1>7. CASE \E s \in Spoke : SpokeClicked(s)
  <2>1. /\ ~autoContinue' /\ visits' = visits + 1
        /\ UNCHANGED <<mayContinue, created, incomplete, success, ignored>>
    BY <1>7 DEF SpokeClicked, AutoIsOff, listVars
  <2> QED
    BY <1>0, <2>1 DEF ContinueInv
<1>8. CASE SpokeDone \/ ContinueClicked
  <2>1. UNCHANGED <<autoContinue, automated, visits, ignored, inSpoke, mayContinue, created, incomplete,
                    success>>
    BY <1>8 DEF SpokeDone, ContinueClicked, listVars, contVars, restVars
  <2> QED
    BY <2>1 DEF ContinueInv
<1>9. CASE Threads
  <2>1. UNCHANGED <<autoContinue, automated, visits, ignored, inSpoke, mayContinue, created, incomplete,
                    success>>
    BY <1>9 DEF Threads, SourceWatcher, SoftwareWatcher, CheckSoftware, PayloadThread, RestartThread,
                uiVars, listVars, contVars, restVars
  <2> QED
    BY <2>1 DEF ContinueInv
<1> QED
  BY <1>1, <1>2, <1>3, <1>4, <1>5, <1>6, <1>7, <1>8, <1>9 DEF Next, MainLoop, User

LEMMA OneRunStep ==
  ASSUME TypeOK, ContinueInv, OneRun, Next
  PROVE  OneRun'
<1>0. visits \in Nat
  BY HubAssumption DEF TypeOK
<1>1. CASE Boot
  <2>1. main = "boot" /\ UNCHANGED <<visits, baseRepo, run>> /\ main' = "create"
    BY <1>1 DEF Boot, RestartPayload, Payload!Restart, repoVars, payloadVars
  <2> QED
    BY <2>1 DEF OneRun
<1>2. CASE MainLoop /\ ~Boot
  <2>1. main' # "boot" /\ UNCHANGED <<visits, baseRepo, run, pending>>
    BY <1>2 DEF MainLoop, Initialize, Listen, Place, AllAdded, Message, QueueEmpty, RefreshSoftware,
                Leave, repoVars, payloadVars
  <2> QED
    BY <2>1 DEF OneRun
<1>3. CASE \E s \in Spoke : SpokeClicked(s)
  <2>1. visits' = visits + 1 /\ main' # "boot"
    BY <1>3 DEF SpokeClicked
  <2> QED
    BY <1>0, <2>1 DEF OneRun
<1>4. CASE SpokeDone
  <2>1. inSpoke # None /\ visits' = visits /\ main' = "leave"
    BY <1>4 DEF SpokeDone
  <2> QED
    BY <1>0, <2>1 DEF OneRun, ContinueInv
<1>5. CASE ContinueClicked
  BY <1>5 DEF ContinueClicked, OneRun, repoVars, payloadVars
<1>6. CASE SourceWatcher \/ SoftwareWatcher \/ CheckSoftware
  <2>1. UNCHANGED <<main, visits, baseRepo, run, pending>>
    BY <1>6 DEF SourceWatcher, SoftwareWatcher, CheckSoftware, uiVars, repoVars, payloadVars
  <2> QED
    BY <2>1 DEF OneRun
<1>7. CASE PayloadThread
  <2>1. run # "none" /\ UNCHANGED <<main, visits, pending>>
    BY <1>7 DEF PayloadThread, Payload!RunStep, Payload!Enter, uiVars
  <2> QED
    BY <2>1 DEF OneRun
<1>8. CASE RestartThread
  <2>1. pending' # "waiting" /\ UNCHANGED <<main, visits, baseRepo>>
    BY <1>8 DEF RestartThread, Payload!StartRun, uiVars, repoVars
  <2>2. main # "boot"
    BY <1>8 DEF RestartThread, Payload!StartRun, OneRun
  <2>3. pending = "waiting" \/ run' = run
    BY <1>8 DEF RestartThread, Payload!StartRun
  <2> QED
    BY <2>1, <2>2, <2>3 DEF OneRun
<1> QED
  BY <1>1, <1>2, <1>3, <1>4, <1>5, <1>6, <1>7, <1>8 DEF Next, User, Threads

\* A spoke that _updateCompleteness does not list as incomplete is complete.
LEMMA CompleteNow ==
  ASSUME NEW S, NEW s \in S, UpdateCompleteness(S), s \notin incomplete'
  PROVE  Completed(s)
  BY DEF UpdateCompleteness

\* An update of the completeness of some spokes keeps what is known of the good ones.
LEMMA GoodUpdated ==
  ASSUME TypeOK, GoodSource, GoodSoftware, NEW S, UpdateCompleteness(S), created' = created \cup S,
         Software \in created' => swWatcher # "none",
         UNCHANGED <<visits, automated, run, baseRepo, srcError, swWatcher, check, swErrors>>
  PROVE  GoodSource' /\ GoodSoftware'
<1>0. SpokesDiffer
  BY Constants
<1>1. ASSUME visits' = 0, automated', Source \in created' \ incomplete'
      PROVE  run = "none" /\ baseRepo /\ ~srcError
  <2>1. CASE Source \in S
    <3>1. SourceCompleted
      BY <1>0, <1>1, <2>1, CompleteNow DEF Completed, SpokesDiffer
    <3>2. NoThreads /\ baseRepo /\ ~srcError
      BY <1>0, <1>1, <3>1 DEF SourceCompleted, SpokeReady, SpokesDiffer
    <3> QED
      BY <3>2 DEF NoThreads
  <2>2. CASE Source \notin S
    <3>1. Source \in created \ incomplete
      BY <1>1, <2>2 DEF UpdateCompleteness
    <3> QED
      BY <1>1, <3>1 DEF GoodSource
  <2> QED
    BY <2>1, <2>2
<1>2. ASSUME visits' = 0, Software \in created' \ incomplete'
      PROVE  run = "none" /\ baseRepo /\ swWatcher = "gone" /\ check = "none" /\ ~swErrors
  <2>1. CASE Software \in S
    <3>1. SoftwareCompleted
      BY <1>0, <1>2, <2>1, CompleteNow DEF Completed, SpokesDiffer
    <3>2. NoThreads /\ baseRepo /\ ~swErrors
      BY <1>0, <1>2, <3>1 DEF SoftwareCompleted, SpokeReady, SpokesDiffer
    <3>3. swWatcher # "none"
      BY <1>2
    <3> QED
      BY <3>2, <3>3 DEF NoThreads, Registered, TypeOK
  <2>2. CASE Software \notin S
    <3>1. Software \in created \ incomplete
      BY <1>2, <2>2 DEF UpdateCompleteness
    <3> QED
      BY <1>2, <3>1 DEF GoodSoftware
  <2> QED
    BY <2>1, <2>2
<1> QED
  BY <1>1, <1>2 DEF GoodSource, GoodSoftware

LEMMA GoodMainLoop ==
  ASSUME TypeOK, Building, CheckInv, CheckInv', ContinueInv, GoodSource, GoodSoftware, MainLoop
  PROVE  GoodSource' /\ GoodSoftware'
<1>0. Spoke = {Source, Software, Network} /\ SpokesDiffer
  BY Constants
<1>1. CASE Boot \/ AllAdded \/ QueueEmpty \/ RefreshSoftware
  <2>1. UNCHANGED <<created, incomplete, visits, automated, run, baseRepo, srcError, swWatcher, check,
                    swErrors>>
    BY <1>1 DEF Boot, AllAdded, QueueEmpty, RefreshSoftware, RestartPayload, Payload!Restart,
                listVars, srcVars, swVars, repoVars, restVars, payloadVars
  <2> QED
    BY <2>1 DEF GoodSource, GoodSoftware
<1>2. CASE Initialize
  <2>1. /\ UNCHANGED <<created, incomplete, visits, automated, run, baseRepo, srcError, check, swErrors>>
        /\ swWatcher' = swWatcher \/ NextSpoke = Software
    BY <1>0, <1>2 DEF Initialize, SpokesDiffer, listVars, srcVars, repoVars, restVars, payloadVars
  <2>2. NextSpoke = Software => created = {Source}
    BY <1>0 DEF NextSpoke, SpokesDiffer
  <2>3. Software \in created => swWatcher' = swWatcher
    BY <1>0, <2>1, <2>2 DEF SpokesDiffer
  <2> QED
    BY <2>1, <2>3 DEF GoodSource, GoodSoftware
<1>3. CASE Listen
  <2>1. main = "listen" /\ created' = created
    BY <1>3 DEF Listen, listVars
  <2>2. created' = {}
    BY <2>1 DEF Building
  <2> QED
    BY <2>2 DEF GoodSource, GoodSoftware
<1>4. CASE Place
  <2>1. /\ created' = created \cup {NextSpoke} /\ UpdateCompleteness({NextSpoke})
        /\ UNCHANGED <<visits, automated, run, baseRepo, srcError, swWatcher, check, swErrors>>
    BY <1>4 DEF Place, srcVars, swVars, repoVars, restVars, payloadVars
  <2>2. Software \in created' => swWatcher # "none"
    BY <2>1 DEF CheckInv
  <2> QED
    BY <2>1, <2>2, GoodUpdated
<1>5. CASE Message
  <2> DEFINE s == Head(hubQ).spoke
  <2>1. /\ main \in {"idle", "drain"} /\ hubQ # <<>>
        /\ created' = created /\ UpdateCompleteness({s})
        /\ UNCHANGED <<visits, automated, run, baseRepo, srcError, swWatcher, check, swErrors>>
    BY <1>5 DEF Message, srcVars, swVars, repoVars, restVars, payloadVars
  <2>2. created = Spoke
    BY <2>1 DEF Building
  <2>3. hubQ \in Seq(Messages)
    BY DEF TypeOK, Messages
  <2>4. s \in Spoke
    <3>1. Head(hubQ) \in Messages
      BY <2>1, <2>3, HeadTailProperties
    <3> QED
      BY <3>1 DEF Messages
  <2>5. Software \in created' => swWatcher # "none"
    BY <2>1 DEF CheckInv
  <2> HIDE DEF s
  <2>6. created' = created \cup {s}
    BY <2>1, <2>2, <2>4
  <2> QED
    BY <2>1, <2>5, <2>6, GoodUpdated
<1>6. CASE Leave
  <2>1. /\ created' = created /\ UpdateCompleteness(created)
        /\ UNCHANGED <<visits, automated, run, baseRepo, srcError, swWatcher, check, swErrors>>
    BY <1>6 DEF Leave, srcVars, swVars, repoVars, restVars, payloadVars
  <2>2. Software \in created' => swWatcher # "none"
    BY <2>1 DEF CheckInv
  <2>3. created' = created \cup created
    BY <2>1
  <2> QED
    BY <2>1, <2>2, <2>3, GoodUpdated
<1> QED
  BY <1>1, <1>2, <1>3, <1>4, <1>5, <1>6 DEF MainLoop

LEMMA GoodUserThreads ==
  ASSUME TypeOK, ContinueInv, OneRun, GoodSource, GoodSoftware, User \/ Threads
  PROVE  GoodSource' /\ GoodSoftware'
<1>0. visits \in Nat
  BY HubAssumption DEF TypeOK
<1>1. CASE \E s \in Spoke : SpokeClicked(s)
  <2>1. visits' = visits + 1
    BY <1>1 DEF SpokeClicked
  <2> QED
    BY <1>0, <2>1 DEF GoodSource, GoodSoftware
<1>2. CASE SpokeDone
  <2>1. visits' = visits /\ inSpoke # None
    BY <1>2 DEF SpokeDone
  <2> QED
    BY <1>0, <2>1 DEF GoodSource, GoodSoftware, ContinueInv
<1>3. CASE ContinueClicked \/ SourceWatcher
  <2>1. UNCHANGED <<created, incomplete, visits, automated, run, baseRepo, srcError, swWatcher, check,
                    swErrors>>
    BY <1>3 DEF ContinueClicked, SourceWatcher, uiVars, listVars, srcVars, swVars, repoVars, restVars, payloadVars
  <2> QED
    BY <2>1 DEF GoodSource, GoodSoftware
<1>4. CASE SoftwareWatcher
  <2>1. /\ swWatcher # "gone"
        /\ UNCHANGED <<created, incomplete, visits, automated, run, baseRepo, srcError>>
    BY <1>4 DEF SoftwareWatcher, uiVars, listVars, srcVars, repoVars, restVars, payloadVars
  <2> QED
    BY <2>1 DEF GoodSource, GoodSoftware
<1>5. CASE CheckSoftware
  <2>1. /\ check # "none"
        /\ UNCHANGED <<created, incomplete, visits, automated, run, baseRepo, srcError>>
    BY <1>5 DEF CheckSoftware, uiVars, listVars, srcVars, restVars, payloadVars
  <2> QED
    BY <2>1 DEF GoodSource, GoodSoftware
<1>6. CASE PayloadThread
  <2>1. /\ run # "none"
        /\ UNCHANGED <<created, incomplete, visits, automated>>
    BY <1>6 DEF PayloadThread, Payload!RunStep, Payload!Enter, uiVars, listVars, restVars
  <2> QED
    BY <2>1 DEF GoodSource, GoodSoftware
<1>7. CASE RestartThread
  <2>1. /\ pending = "waiting" \/ run' = run
        /\ UNCHANGED <<created, incomplete, visits, automated, baseRepo, srcError, swWatcher, check, swErrors>>
    BY <1>7 DEF RestartThread, Payload!StartRun, uiVars, listVars, srcVars, swVars, repoVars, restVars
  <2> QED
    BY <2>1 DEF GoodSource, GoodSoftware, OneRun
<1> QED
  BY <1>1, <1>2, <1>3, <1>4, <1>5, <1>6, <1>7 DEF User, Threads

LEMMA ConcludedStep ==
  ASSUME TypeOK, Building, AutoInv, Next
  PROVE  Concluded'
<1>0. Spoke = {Source, Software, Network} /\ clicked # "auto"
  BY Constants, LeftIsLast DEF AutoInv, Concluded
<1>1. CASE QueueEmpty /\ StillWanted
  <2>1. /\ main' = "left"
        /\ UNCHANGED <<automated, success, visits, run, swWatcher, check, baseRepo, srcError, swErrors>>
    BY <1>1 DEF QueueEmpty, srcVars, swVars, repoVars, restVars, payloadVars
  <2>2. autoContinue /\ mayContinue
    BY <1>1 DEF StillWanted
  <2>3. automated /\ visits = 0 /\ success /\ created = Spoke /\ incomplete = {}
    BY <2>2 DEF AutoInv, ContinueInv
  <2>4. run = "none" /\ baseRepo /\ ~srcError /\ swWatcher = "gone" /\ check = "none" /\ ~swErrors
    BY <1>0, <2>3 DEF AutoInv, GoodSource, GoodSoftware
  <2> QED
    BY <2>1, <2>3, <2>4 DEF Concluded, AutoContinueEarned, NoThreads, Registered
<1>2. CASE ~(QueueEmpty /\ StillWanted)
  <2>1. clicked' # "auto"
    <3>1. CASE MainLoop
      BY <1>0, <1>2, <3>1 DEF MainLoop, Boot, Initialize, Listen, Place, AllAdded, Message, QueueEmpty,
                          RefreshSoftware, Leave, contVars
    <3>2. CASE User
      BY <1>0, <3>2 DEF User, SpokeClicked, SpokeDone, ContinueClicked, contVars
    <3>3. CASE Threads
      BY <1>0, <3>3 DEF Threads, SourceWatcher, SoftwareWatcher, CheckSoftware, PayloadThread,
                        RestartThread, contVars
    <3> QED
      BY <3>1, <3>2, <3>3 DEF Next
  <2> QED
    BY <2>1 DEF Concluded
<1> QED
  BY <1>1, <1>2

\* The hub goes on by itself only when nothing works, the source and the space are
\* good and no check has found an error: what the spokes said when they were listed as
\* complete still holds, because before the first visit only one run of the payload
\* and one check can happen, and both are over by then.
THEOREM AutoContinueIsEarned == Spec => []AutoContinueEarned
<1> DEFINE HubInv == TypeOK /\ Building /\ CheckInv
<1>1. Init => AutoInv
  BY Constants DEF Init, Payload!RunsInit, AutoInv, ContinueInv, OneRun, GoodSource, GoodSoftware, Concluded
<1>2. AutoInv /\ HubInv /\ HubInv' /\ [Next]_vars => AutoInv'
  <2>1. HubInv /\ HubInv' /\ AutoInv /\ Next => AutoInv'
    <3> SUFFICES ASSUME HubInv, HubInv', AutoInv, Next PROVE AutoInv'
      OBVIOUS
    <3>1. ContinueInv' /\ OneRun'
      BY ContinueStep, OneRunStep DEF AutoInv
    <3>2. GoodSource' /\ GoodSoftware'
      BY GoodMainLoop, GoodUserThreads DEF AutoInv, Next
    <3>3. Concluded'
      BY ConcludedStep
    <3> QED
      BY <3>1, <3>2, <3>3 DEF AutoInv
  <2>2. AutoInv /\ UNCHANGED vars => AutoInv'
    <3> SUFFICES ASSUME AutoInv, UNCHANGED vars PROVE AutoInv'
      OBVIOUS
    <3>1. UNCHANGED <<main, inSpoke, visits, created, incomplete, autoContinue, mayContinue, success,
                      ignored, clicked, automated>>
      BY DEF vars, uiVars, listVars, contVars, restVars
    <3>2. UNCHANGED <<srcError, swWatcher, check, swErrors, baseRepo, run, pending>>
      BY DEF vars, srcVars, swVars, repoVars, payloadVars
    <3> QED
      BY <3>1, <3>2 DEF AutoInv, ContinueInv, OneRun, GoodSource, GoodSoftware, Concluded,
                        AutoContinueEarned, NoThreads, Registered
  <2> QED
    BY <2>1, <2>2
<1>3. Spec => []HubInv
  BY HubInvariant
<1>4. AutoInv => AutoContinueEarned
  BY DEF AutoInv, Concluded, AutoContinueEarned
<1> QED
  BY <1>1, <1>2, <1>3, <1>4, PTL DEF Spec

-----------------------------------------------------------------------------
(* The spokes that are not ready.                                          *)

ReadyMessage(s) == [code |-> "READY", spoke |-> s]
NotReadyMessage(s) == [code |-> "NOT_READY", spoke |-> s]

\* The last that the queue says of a spoke is that it is ready.
Answered(s) ==
    \E i \in 1..Len(hubQ) :
        /\ hubQ[i] = ReadyMessage(s)
        /\ \A j \in 1..Len(hubQ) : j > i => hubQ[j] # NotReadyMessage(s)

\* Neither the list nor the queue says that the spoke is not ready.
Silent(s) == s \notin notReady /\ \A i \in 1..Len(hubQ) : hubQ[i] # NotReadyMessage(s)

\* Once the queue is read the spoke will not be in the list.
Settled(s) == Answered(s) \/ Silent(s)

\* The threads of which each sends a READY for the spoke before it ends.
Working(s) ==
    \/ s # Network /\ (run \in {"started", "loading", "loaded"} \/ check \in {"bump", "report"})
    \/ s = Source /\ srcWatcher \in {"none", "wait", "poll", "send"}
    \/ s = Software /\ (phase = Payload!Error \/ swWatcher \in {"none", "wait", "join", "send"})

Answering == \A s \in Spoke : Settled(s) \/ Working(s)

\* The source spoke starts its thread when all its listeners are registered.
AllListen ==
    /\ listening = Listener <=> srcWatcher # "none"
    /\ listening # Listener => created = {} /\ main \in {"boot", "create", "listen"}

\* The queue is not read before all boxes are made: a spoke whose thread has ended
\* by then finds its message there.
Queued(s) == \E i \in 1..Len(hubQ) : hubQ[i] = ReadyMessage(s)

Told ==
    created # Spoke =>
        /\ srcWatcher = "gone" => Queued(Source)
        /\ swWatcher \in {"end", "gone"} => Queued(Software)

ReadyInv == AllListen /\ Told /\ Answering

\* What is sent at a time, message by message.
LEMMA Sent ==
  /\ \A s, t : ReadyMessage(s) # NotReadyMessage(t)
  /\ \A s, t : NotReadyMessage(s) = NotReadyMessage(t) => s = t
  /\ \A s : Len(Ready(<<s>>)) = 1 /\ Ready(<<s>>)[1] = ReadyMessage(s)
  /\ \A s, t : /\ Len(Ready(<<s, t>>)) = 2
               /\ Ready(<<s, t>>)[1] = ReadyMessage(s) /\ Ready(<<s, t>>)[2] = ReadyMessage(t)
  /\ \A s, t : /\ Len(NotReady(<<s, t>>)) = 2
               /\ NotReady(<<s, t>>)[1] = NotReadyMessage(s) /\ NotReady(<<s, t>>)[2] = NotReadyMessage(t)
<1>1. \A s, t : ReadyMessage(s) # NotReadyMessage(t)
  BY DEF ReadyMessage, NotReadyMessage
<1>2. \A s, t : NotReadyMessage(s) = NotReadyMessage(t) => s = t
  BY DEF NotReadyMessage
<1>3. \A s : Len(Ready(<<s>>)) = 1 /\ Ready(<<s>>)[1] = ReadyMessage(s)
  BY DEF Ready, ReadyMessage
<1>4. \A s, t : /\ Len(Ready(<<s, t>>)) = 2
                /\ Ready(<<s, t>>)[1] = ReadyMessage(s) /\ Ready(<<s, t>>)[2] = ReadyMessage(t)
  BY DEF Ready, ReadyMessage
<1>5. \A s, t : /\ Len(NotReady(<<s, t>>)) = 2
                /\ NotReady(<<s, t>>)[1] = NotReadyMessage(s)
                /\ NotReady(<<s, t>>)[2] = NotReadyMessage(t)
  BY DEF NotReady, NotReadyMessage
<1> QED
  BY <1>1, <1>2, <1>3, <1>4, <1>5

\* What a sequence that is appended to the queue does with a spoke: if it says
\* nothing bad of it, the spoke stays settled; if it also says something good, it is
\* settled from then on; and what was queued stays queued.
LEMMA Appended ==
  ASSUME TypeOK, NEW s \in Spoke, NEW q \in Seq(Messages), hubQ' = hubQ \o q
  PROVE  /\ (notReady' = notReady /\ Settled(s) /\ \A i \in 1..Len(q) : q[i] # NotReadyMessage(s)) => Settled(s)'
         /\ (\A i \in 1..Len(q) : q[i] # NotReadyMessage(s)) =>
                \A k \in 1..Len(q) : q[k] = ReadyMessage(s) => Settled(s)'
         /\ Queued(s) => Queued(s)'
         /\ \A k \in 1..Len(q) : q[k] = ReadyMessage(s) => Queued(s)'
<1>0. hubQ \in Seq(Messages)
  BY DEF TypeOK, Messages
<1>1. /\ Len(hubQ) \in Nat /\ Len(q) \in Nat /\ Len(hubQ') = Len(hubQ) + Len(q)
      /\ \A i \in 1..Len(hubQ) : hubQ'[i] = hubQ[i]
      /\ \A i \in 1..Len(q) : hubQ'[Len(hubQ) + i] = q[i]
  BY <1>0
<1>2. \A i \in 1..Len(hubQ') : i \in 1..Len(hubQ) \/ i - Len(hubQ) \in 1..Len(q)
  BY <1>1
<1>a. \A i \in 1..Len(hubQ') : i \notin 1..Len(hubQ) => hubQ'[i] = q[i - Len(hubQ)]
  BY <1>1
<1>3. ASSUME \A i \in 1..Len(q) : q[i] # NotReadyMessage(s), notReady' = notReady, Settled(s)
      PROVE  Settled(s)'
  <2>1. CASE Answered(s)
    <3>1. PICK i \in 1..Len(hubQ) : /\ hubQ[i] = ReadyMessage(s)
                                    /\ \A j \in 1..Len(hubQ) : j > i => hubQ[j] # NotReadyMessage(s)
      BY <2>1 DEF Answered
    <3>2. i \in 1..Len(hubQ') /\ hubQ'[i] = ReadyMessage(s)
      BY <1>1, <3>1
    <3>3. \A j \in 1..Len(hubQ') : j > i => hubQ'[j] # NotReadyMessage(s)
      BY <1>1, <1>2, <1>3, <1>a, <3>1
    <3> QED
      BY <3>2, <3>3 DEF Settled, Answered, ReadyMessage, NotReadyMessage
  <2>2. CASE Silent(s)
    <3>1. \A j \in 1..Len(hubQ') : hubQ'[j] # NotReadyMessage(s)
      BY <1>1, <1>2, <1>3, <1>a, <2>2 DEF Silent
    <3> QED
      BY <1>3, <2>2, <3>1 DEF Settled, Silent, NotReadyMessage
  <2> QED
    BY <1>3, <2>1, <2>2 DEF Settled
<1>4. ASSUME \A i \in 1..Len(q) : q[i] # NotReadyMessage(s), NEW k \in 1..Len(q), q[k] = ReadyMessage(s)
      PROVE  Settled(s)'
  <2>1. Len(hubQ) + k \in 1..Len(hubQ') /\ hubQ'[Len(hubQ) + k] = ReadyMessage(s)
    BY <1>1, <1>4
  <2>2. \A j \in 1..Len(hubQ') : j > Len(hubQ) + k => hubQ'[j] # NotReadyMessage(s)
    BY <1>1, <1>2, <1>4, <1>a
  <2> QED
    BY <2>1, <2>2 DEF Settled, Answered, ReadyMessage, NotReadyMessage
<1>5. Queued(s) => Queued(s)'
  BY <1>1 DEF Queued, ReadyMessage
<1>6. ASSUME NEW k \in 1..Len(q), q[k] = ReadyMessage(s)
      PROVE  Queued(s)'
  <2>1. Len(hubQ) + k \in 1..Len(hubQ') /\ hubQ'[Len(hubQ) + k] = ReadyMessage(s)
    BY <1>1, <1>6
  <2> QED
    BY <2>1 DEF Queued, ReadyMessage
<1> QED
  BY <1>3, <1>4, <1>5, <1>6

\* A message that is read takes its own effect out of the queue.
LEMMA ReadOne ==
  ASSUME TypeOK, NEW s \in Spoke, hubQ # <<>>, hubQ' = Tail(hubQ),
         notReady' = IF Head(hubQ).code = "READY" THEN notReady \ {Head(hubQ).spoke}
                                                  ELSE notReady \cup {Head(hubQ).spoke},
         Settled(s)
  PROVE  Settled(s)'
<1>0. hubQ \in Seq(Messages)
  BY DEF TypeOK, Messages
<1>1. /\ Len(hubQ) \in Nat \ {0} /\ Len(hubQ') = Len(hubQ) - 1 /\ Head(hubQ) = hubQ[1]
      /\ \A i \in 1..Len(hubQ') : hubQ'[i] = hubQ[i + 1]
  BY <1>0
<1>2. Head(hubQ) \in Messages
  BY <1>0, HeadTailProperties
<1>3. ASSUME s \notin notReady, Head(hubQ) # NotReadyMessage(s)
      PROVE  s \notin notReady'
  BY <1>2, <1>3 DEF Messages, Codes, NotReadyMessage
<1>4. CASE Silent(s)
  <2>1. Head(hubQ) # NotReadyMessage(s)
    BY <1>1, <1>4 DEF Silent
  <2>2. \A i \in 1..Len(hubQ') : hubQ'[i] # NotReadyMessage(s)
    BY <1>1, <1>4 DEF Silent
  <2>3. s \notin notReady'
    BY <1>3, <1>4, <2>1 DEF Silent
  <2> QED
    BY <2>2, <2>3 DEF Settled, Silent, NotReadyMessage
<1>5. CASE Answered(s)
  <2>1. PICK i \in 1..Len(hubQ) : /\ hubQ[i] = ReadyMessage(s)
                                  /\ \A j \in 1..Len(hubQ) : j > i => hubQ[j] # NotReadyMessage(s)
    BY <1>5 DEF Answered
  <2>2. CASE i = 1
    <3>1. s \notin notReady'
      BY <1>1, <2>1, <2>2 DEF ReadyMessage
    <3>2. \A j \in 1..Len(hubQ') : hubQ'[j] # NotReadyMessage(s)
      BY <1>1, <2>1, <2>2
    <3> QED
      BY <3>1, <3>2 DEF Settled, Silent, NotReadyMessage
  <2>3. CASE i # 1
    <3>1. i - 1 \in 1..Len(hubQ') /\ hubQ'[i - 1] = ReadyMessage(s)
      BY <1>1, <2>1, <2>3
    <3>2. \A j \in 1..Len(hubQ') : j > i - 1 => hubQ'[j] # NotReadyMessage(s)
      BY <1>1, <2>1, <2>3
    <3> QED
      BY <3>1, <3>2 DEF Settled, Answered, ReadyMessage, NotReadyMessage
  <2> QED
    BY <2>2, <2>3
<1> QED
  BY <1>4, <1>5 DEF Settled

\* One READY, of a thread that ends.
LEMMA SaysReady ==
  ASSUME TypeOK, NEW s \in Spoke, NEW t \in Spoke, hubQ' = hubQ \o Ready(<<t>>), notReady' = notReady
  PROVE  (s = t \/ Settled(s) => Settled(s)') /\ (s = t \/ Queued(s) => Queued(s)')
<1>1. Ready(<<t>>) \in Seq(Messages) /\ Len(Ready(<<t>>)) = 1 /\ Ready(<<t>>)[1] = ReadyMessage(t)
  BY QueueType, Sent
<1>2. \A i \in 1..1 : Ready(<<t>>)[i] # NotReadyMessage(s)
  BY <1>1, Sent
<1>3. 1 \in 1..1
  OBVIOUS
<1>4. s = t => Settled(s)' /\ Queued(s)'
  BY <1>1, <1>2, <1>3, Appended
<1> QED
  BY <1>1, <1>2, <1>4, Appended

\* The READY for both, of a check or of a run of the payload that ends well.
LEMMA SaysBothReady ==
  ASSUME TypeOK, NEW s \in Spoke, hubQ' = hubQ \o Ready(<<Software, Source>>), notReady' = notReady
  PROVE  /\ s \in {Source, Software} \/ Settled(s) => Settled(s)'
         /\ s \in {Source, Software} \/ Queued(s) => Queued(s)'
<1> DEFINE q == Ready(<<Software, Source>>)
<1>1. Software \in Spoke /\ Source \in Spoke
  BY Constants
<1>2. q \in Seq(Messages) /\ Len(q) = 2 /\ q[1] = ReadyMessage(Software) /\ q[2] = ReadyMessage(Source)
  BY <1>1, QueueType, Sent
<1> HIDE DEF q
<1>3. \A i \in 1..2 : q[i] # NotReadyMessage(s)
  BY <1>2, Sent
<1>4. 1 \in 1..2 /\ 2 \in 1..2
  OBVIOUS
<1>5. hubQ' = hubQ \o q
  BY DEF q
<1>6. s \in {Source, Software} => Settled(s)' /\ Queued(s)'
  BY <1>2, <1>3, <1>4, <1>5, Appended
<1> QED
  BY <1>2, <1>3, <1>5, <1>6, Appended

\* The NOT_READY for both, of a run of the payload that begins or of a selection.
LEMMA SaysNotReady ==
  ASSUME TypeOK, NEW s \in Spoke, hubQ' = hubQ \o NotReady(<<Software, Source>>), notReady' = notReady
  PROVE  (s = Network /\ Settled(s) => Settled(s)') /\ (Queued(s) => Queued(s)')
<1> DEFINE q == NotReady(<<Software, Source>>)
<1>1. Software \in Spoke /\ Source \in Spoke /\ SpokesDiffer
  BY Constants
<1>2. /\ q \in Seq(Messages) /\ Len(q) = 2
      /\ q[1] = NotReadyMessage(Software) /\ q[2] = NotReadyMessage(Source)
  BY <1>1, QueueType, Sent
<1> HIDE DEF q
<1>3. ASSUME s = Network
      PROVE  \A i \in 1..2 : q[i] # NotReadyMessage(s)
  <2>1. Software # s /\ Source # s
    BY <1>1, <1>3 DEF SpokesDiffer
  <2> QED
    BY <1>2, <2>1, Sent
<1>4. hubQ' = hubQ \o q
  BY DEF q
<1> QED
  BY <1>2, <1>3, <1>4, Appended

\* A step that sends nothing.
LEMMA SaysNothing ==
  ASSUME NEW s, UNCHANGED <<hubQ, notReady>>
  PROVE  (Settled(s)' <=> Settled(s)) /\ (Queued(s)' <=> Queued(s))
  BY DEF Settled, Answered, Silent, Queued, ReadyMessage, NotReadyMessage

\* Not to be ready is to be without an answer.
LEMMA QueuedIsAnswered ==
  ASSUME NEW s \in Spoke, Settled(s), Queued(s)
  PROVE  Answered(s)
<1>1. PICK i \in 1..Len(hubQ) : hubQ[i] = ReadyMessage(s)
  BY DEF Queued
<1>2. CASE Silent(s)
  BY <1>1, <1>2 DEF Silent, Answered
<1> QED
  BY <1>2 DEF Settled

LEMMA AllListenStep ==
  ASSUME TypeOK, Building, AllListen, Next
  PROVE  AllListen'
<1>0. Spoke = {Source, Software, Network} /\ SpokesDiffer
  BY Constants
<1>1. CASE Boot
  BY <1>1 DEF Boot, AllListen, listVars, srcVars, restVars
<1>2. CASE Initialize
  <2>1. main = "create" /\ UNCHANGED <<listening, srcWatcher, created>>
    BY <1>2 DEF Initialize, listVars, srcVars, restVars
  <2>2. created = {} => main' = "listen"
    BY <1>0, <1>2 DEF Initialize, NextSpoke, SpokesDiffer
  <2> QED
    BY <2>1, <2>2 DEF AllListen
<1>3. CASE Listen
  <2>1. /\ main = "listen" /\ created' = created
        /\ IF listening' = Listener THEN main' = "place" /\ srcWatcher' = "wait"
                                    ELSE UNCHANGED <<main, srcWatcher>>
    BY <1>3 DEF Listen, listVars
  <2>2. created = {} /\ listening # Listener
    BY <2>1 DEF Building
  <2> QED
    BY <2>1, <2>2 DEF AllListen
<1>4. CASE MainLoop /\ ~Boot /\ ~Initialize /\ ~Listen
  <2>1. main \notin {"boot", "create", "listen"} /\ UNCHANGED <<listening, srcWatcher>>
    BY <1>4 DEF MainLoop, Place, AllAdded, Message, QueueEmpty, RefreshSoftware, Leave, srcVars, restVars
  <2> QED
    BY <2>1 DEF AllListen
<1>5. CASE User
  <2>1. main = "idle" /\ UNCHANGED <<listening, srcWatcher>>
    BY <1>5 DEF User, SpokeClicked, SpokeDone, ContinueClicked, srcVars, restVars
  <2> QED
    BY <2>1 DEF AllListen
<1>6. CASE Threads
  <2>1. UNCHANGED <<main, created, listening>>
    BY <1>6 DEF Threads, SourceWatcher, SoftwareWatcher, CheckSoftware, PayloadThread, RestartThread,
                uiVars, listVars, restVars
  <2>2. srcWatcher' = "none" <=> srcWatcher = "none"
    BY <1>6 DEF Threads, SourceWatcher, SoftwareWatcher, CheckSoftware, PayloadThread, RestartThread,
                srcVars
  <2> QED
    BY <2>1, <2>2 DEF AllListen
<1> QED
  BY <1>1, <1>2, <1>3, <1>4, <1>5, <1>6 DEF Next

\* What the listeners of the source spoke send while the payload thread goes on.
LEMMA RunSays ==
  ASSUME NEW l, Run(l)
  PROVE  /\ l = Refresh => hubQ' = hubQ \o NotReady(<<Software, Source>>)
         /\ l = PackageMd => hubQ' = hubQ \o <<>>
         /\ l = Finished => hubQ' = hubQ \o Ready(<<Software, Source>>)
         /\ l = Error => hubQ' = hubQ \o Ready(<<Source>>)
  BY Constants DEF Run, ListenersDiffer

\* A run of the payload sends NOT_READY as it begins and READY as it ends, if the
\* listeners are registered; after a failure only the source is told.
LEMMA PayloadSays ==
  ASSUME TypeOK, PayloadThread
  PROVE  \/ /\ run' = "started"
            /\ hubQ' = hubQ \/ hubQ' = hubQ \o NotReady(<<Software, Source>>)
         \/ run' \in {"loading", "loaded"} /\ hubQ' = hubQ
         \/ /\ run \in {"started", "loaded"} /\ run' = "ending"
            /\ hubQ' = IF Finished \in listening THEN hubQ \o Ready(<<Software, Source>>) ELSE hubQ
         \/ /\ run' = "failed" /\ phase' = Payload!Error
            /\ hubQ' = IF Error \in listening THEN hubQ \o Ready(<<Source>>) ELSE hubQ
         \/ run \in {"failed", "ending"} /\ run' # "failed" /\ phase' = phase /\ hubQ' = hubQ
<1>0. ListenersDiffer
  BY Constants
<1>1. IF Heard = {} THEN hubQ' = hubQ ELSE \A l \in Heard : Run(l)
  BY DEF PayloadThread
<1>2. \A l \in Heard : l \in listening
  BY DEF Heard
<1>3. hubQ \o <<>> = hubQ
  BY DEF TypeOK
<1>4. \A l \in Heard :
        \/ l = Refresh /\ run = "begin"
        \/ l = PackageMd /\ run' = "loading"
        \/ l = Finished /\ run \in {"started", "loaded"} /\ run' = "ending"
        \/ l = Error /\ run' = "failed"
  BY DEF Heard
<1>5. CASE run = "begin"
  <2>1. run' = "started"
    BY <1>5 DEF PayloadThread, Payload!RunStep, Payload!Enter
  <2>2. \A l \in Heard : l = Refresh
    BY <1>4, <1>5, <2>1
  <2> QED
    BY <1>1, <2>1, <2>2, RunSays
<1>6. CASE run = "started" /\ run' = "loading"
  <2>1. \A l \in Heard : l = PackageMd
    BY <1>4, <1>6
  <2>2. Heard # {} => hubQ' = hubQ \o <<>>
    BY <1>1, <2>1, RunSays
  <2> QED
    BY <1>1, <1>3, <1>6, <2>2
<1>7. CASE run = "loading" /\ run' = "loaded"
  <2>1. Heard = {}
    BY <1>4, <1>7
  <2> QED
    BY <1>1, <1>7, <2>1
<1>8. CASE run \in {"started", "loaded"} /\ run' = "ending"
  <2>1. \A l \in Heard : l = Finished
    BY <1>4, <1>8
  <2>2. Finished \in listening => Finished \in Heard
    BY <1>8 DEF Heard
  <2>3. Heard = {} \/ Heard = {Finished}
    BY <2>1
  <2>4. CASE Finished \in listening
    <3>1. hubQ' = hubQ \o Ready(<<Software, Source>>)
      BY <1>1, <2>2, <2>4, RunSays
    <3> QED
      BY <1>8, <2>4, <3>1
  <2>5. CASE Finished \notin listening
    <3>1. hubQ' = hubQ
      BY <1>1, <1>2, <2>3, <2>5
    <3> QED
      BY <1>8, <2>5, <3>1
  <2> QED
    BY <2>4, <2>5
<1>9. CASE run \in {"loading", "loaded"} /\ run' = "failed"
  <2>1. \A l \in Heard : l = Error
    BY <1>4, <1>9
  <2>2. Error \in listening => Error \in Heard
    BY <1>9 DEF Heard
  <2>3. phase' = Payload!Error
    BY <1>9 DEF PayloadThread, Payload!RunStep, Payload!Enter
  <2>4. CASE Error \in listening
    <3>1. hubQ' = hubQ \o Ready(<<Source>>)
      BY <1>1, <2>2, <2>4, RunSays
    <3> QED
      BY <1>9, <2>3, <2>4, <3>1
  <2>5. CASE Error \notin listening
    <3>1. Heard = {}
      BY <1>2, <2>1, <2>5
    <3> QED
      BY <1>1, <1>9, <2>3, <2>5, <3>1
  <2> QED
    BY <2>4, <2>5
<1>10. CASE run \in {"failed", "ending"}
  <2>1. run' \in {"ending", "none"} /\ phase' = phase
    BY <1>10 DEF PayloadThread, Payload!RunStep, Payload!Enter
  <2>2. Heard = {}
    BY <1>4, <1>10, <2>1
  <2> QED
    BY <1>1, <1>10, <2>1, <2>2
<1>11. \/ run = "begin" \/ (run = "started" /\ run' = "loading") \/ (run = "loading" /\ run' = "loaded")
       \/ (run \in {"started", "loaded"} /\ run' = "ending")
       \/ (run \in {"loading", "loaded"} /\ run' = "failed") \/ run \in {"failed", "ending"}
  BY DEF PayloadThread, Payload!RunStep, Payload!Enter
<1> QED
  BY <1>5, <1>6, <1>7, <1>8, <1>9, <1>10, <1>11

LEMMA AnswersPayload ==
  ASSUME TypeOK, Building, CheckInv, ReadyInv, PayloadThread
  PROVE  Told' /\ Answering'
<1>0. Spoke = {Source, Software, Network} /\ SpokesDiffer /\ ListenersDiffer
  BY Constants
<1>1. UNCHANGED <<notReady, created, srcWatcher, swWatcher, check>>
  BY DEF PayloadThread, listVars, swVars
<1>2. listening # Listener => srcWatcher = "none" /\ swWatcher = "none"
  BY DEF ReadyInv, AllListen, CheckInv
<1>3. Settled(Network)
  BY <1>0 DEF ReadyInv, Answering, Working, SpokesDiffer
<1>4. \A s \in Spoke : (Queued(s) => Queued(s)') /\ (s = Network => Settled(s)')
  BY <1>1, <1>3, PayloadSays, SaysNothing, SaysNotReady, SaysBothReady, SaysReady, <1>0
<1>5. Told'
  <2>1. (Queued(Source) => Queued(Source)') /\ (Queued(Software) => Queued(Software)')
    BY <1>0, <1>4
  <2> QED
    BY <1>1, <2>1 DEF ReadyInv, Told
<1>6. CASE run' \in {"started", "loading", "loaded"}
  BY <1>0, <1>4, <1>5, <1>6 DEF Answering, Working
<1>7. CASE run \in {"started", "loaded"} /\ run' = "ending"
  <2>1. CASE listening = Listener
    <3>1. hubQ' = hubQ \o Ready(<<Software, Source>>)
      BY <1>0, <1>7, <2>1, PayloadSays DEF ListenersDiffer
    <3> QED
      BY <1>0, <1>1, <1>4, <1>5, <3>1, SaysBothReady DEF Answering
  <2>2. CASE listening # Listener
    BY <1>0, <1>1, <1>2, <1>4, <1>5, <2>2 DEF Answering, Working
  <2> QED
    BY <2>1, <2>2
<1>8. CASE run' = "failed" /\ phase' = Payload!Error
  <2>1. Working(Software)'
    BY <1>8 DEF Working
  <2>2. Settled(Source)' \/ Working(Source)'
    <3>1. CASE listening = Listener
      <4>1. hubQ' = hubQ \o Ready(<<Source>>)
        BY <1>0, <1>8, <3>1, PayloadSays DEF ListenersDiffer
      <4> QED
        BY <1>0, <1>1, <4>1, SaysReady
    <3>2. CASE listening # Listener
      BY <1>1, <1>2, <3>2 DEF Working
    <3> QED
      BY <3>1, <3>2
  <2> QED
    BY <1>0, <1>4, <1>5, <2>1, <2>2 DEF Answering
<1>9. CASE run \in {"failed", "ending"} /\ phase' = phase /\ hubQ' = hubQ
  <2>1. \A s \in Spoke : Settled(s) => Settled(s)'
    BY <1>1, <1>9, SaysNothing
  <2>2. \A s \in Spoke : Working(s) => Working(s)'
    BY <1>1, <1>9 DEF Working
  <2> QED
    BY <1>5, <2>1, <2>2 DEF ReadyInv, Answering
<1> QED
  BY <1>5, <1>6, <1>7, <1>8, <1>9, PayloadSays

\* The watchers and the check send READY as their last message, and the software
\* selection that they or the user apply starts a check.
LEMMA AnswersThreads ==
  ASSUME TypeOK, Building, CheckInv, ReadyInv, Threads
  PROVE  Told' /\ Answering'
<1>0. Spoke = {Source, Software, Network} /\ SpokesDiffer
  BY Constants
<1>1. UNCHANGED <<notReady, created>>
  BY DEF Threads, SourceWatcher, SoftwareWatcher, CheckSoftware, PayloadThread, RestartThread, listVars
<1>2. Settled(Network)
  BY <1>0 DEF ReadyInv, Answering, Working, SpokesDiffer
<1>3. CASE SourceWatcher
  <2>1. UNCHANGED <<run, phase, check, swWatcher>>
    BY <1>3 DEF SourceWatcher, swVars, payloadVars
  <2>2. \/ srcWatcher \in {"wait", "poll"} /\ srcWatcher' \in {"poll", "send"} /\ hubQ' = hubQ
        \/ srcWatcher' = "gone" /\ hubQ' = hubQ \o Ready(<<Source>>)
    BY <1>3 DEF SourceWatcher
  <2>3. \A s \in Spoke : (Settled(s) => Settled(s)') /\ (Queued(s) => Queued(s)')
    BY <1>0, <1>1, <2>2, SaysNothing, SaysReady
  <2>4. srcWatcher' = "gone" => Settled(Source)' /\ Queued(Source)'
    BY <1>0, <1>1, <2>2, SaysReady
  <2>5. Told'
    <3>1. Queued(Software) => Queued(Software)'
      BY <1>0, <2>3
    <3> QED
      BY <1>1, <2>1, <2>4, <3>1 DEF ReadyInv, Told
  <2>6. Settled(Source)' \/ Working(Source)'
    BY <2>2, <2>4 DEF Working
  <2>7. Settled(Software)' \/ Working(Software)'
    BY <1>0, <2>1, <2>3 DEF ReadyInv, Answering, Working, SpokesDiffer
  <2> QED
    BY <1>0, <1>2, <2>3, <2>5, <2>6, <2>7 DEF Answering
<1>4. CASE SoftwareWatcher
  <2>1. UNCHANGED <<run, phase, srcWatcher>>
    BY <1>4 DEF SoftwareWatcher, srcVars, payloadVars
  <2>2. CASE swWatcher = "wait" /\ swWatcher' = "join"
    <3>1. check' = "bump" /\ (hubQ' = hubQ \/ hubQ' = hubQ \o NotReady(<<Software, Source>>))
      BY <1>4, <2>2 DEF SoftwareWatcher, Execute, ApplySoftware, CheckInv
    <3>2. Settled(Network)' /\ (Queued(Source) => Queued(Source)')
      BY <1>0, <1>1, <1>2, <3>1, SaysNothing, SaysNotReady
    <3>3. Told'
      BY <1>1, <2>1, <2>2, <3>2 DEF ReadyInv, Told
    <3> QED
      BY <1>0, <3>1, <3>2, <3>3 DEF Answering, Working
  <2>3. CASE swWatcher = "send" /\ swWatcher' = "end"
    <3>1. hubQ' = hubQ \o Ready(<<Software>>) /\ check' = check
      BY <1>4, <2>3 DEF SoftwareWatcher
    <3>2. /\ \A s \in Spoke : (Settled(s) => Settled(s)') /\ (Queued(s) => Queued(s)')
          /\ Settled(Software)' /\ Queued(Software)'
      BY <1>0, <1>1, <3>1, SaysReady
    <3>3. Told'
      BY <1>0, <1>1, <2>1, <3>2 DEF ReadyInv, Told
    <3>4. Working(Source) => Working(Source)'
      BY <1>0, <2>1, <3>1 DEF Working, SpokesDiffer
    <3> QED
      BY <1>0, <1>2, <3>2, <3>3, <3>4 DEF ReadyInv, Answering
  <2>4. CASE \/ swWatcher \in {"wait", "join"} /\ swWatcher' = "send"
             \/ swWatcher = "end" /\ swWatcher' = "gone"
    <3>1. hubQ' = hubQ /\ check' = check
      BY <1>4, <2>4 DEF SoftwareWatcher
    <3>2. \A s \in Spoke : (Settled(s) => Settled(s)') /\ (Queued(s) => Queued(s)')
      BY <1>1, <3>1, SaysNothing
    <3>3. Told'
      BY <1>0, <1>1, <2>1, <2>4, <3>2 DEF ReadyInv, Told
    <3>4. \A s \in Spoke : Working(s) => Working(s)'
      BY <1>0, <2>1, <2>4, <3>1 DEF Working
    <3> QED
      BY <3>2, <3>3, <3>4 DEF ReadyInv, Answering
  <2>5. \/ swWatcher = "wait" /\ swWatcher' \in {"join", "send"}
        \/ swWatcher = "join" /\ swWatcher' = "send"
        \/ swWatcher = "send" /\ swWatcher' = "end"
        \/ swWatcher = "end" /\ swWatcher' = "gone"
    BY <1>4 DEF SoftwareWatcher
  <2> QED
    BY <2>2, <2>3, <2>4, <2>5
<1>5. CASE CheckSoftware
  <2>1. UNCHANGED <<run, phase, srcWatcher, swWatcher>>
    BY <1>5 DEF CheckSoftware, srcVars, payloadVars
  <2>2. CASE check = "report"
    <3>1. hubQ' = hubQ \o Ready(<<Software, Source>>)
      BY <1>5, <2>2 DEF CheckSoftware, CheckReports
    <3>2. \A s \in Spoke : Settled(s)' /\ (Queued(s) => Queued(s)')
      BY <1>0, <1>1, <1>2, <3>1, SaysBothReady
    <3>3. Told'
      BY <1>0, <1>1, <2>1, <3>2 DEF ReadyInv, Told
    <3> QED
      BY <3>2, <3>3 DEF Answering
  <2>3. CASE check # "report"
    <3>1. hubQ' = hubQ /\ (check \in {"bump", "report"} => check' \in {"bump", "report"})
      BY <1>5, <2>3 DEF CheckSoftware
    <3>2. \A s \in Spoke : (Settled(s) => Settled(s)') /\ (Queued(s) => Queued(s)')
      BY <1>1, <3>1, SaysNothing
    <3>3. Told'
      BY <1>0, <1>1, <2>1, <3>2 DEF ReadyInv, Told
    <3>4. \A s \in Spoke : Working(s) => Working(s)'
      BY <2>1, <3>1 DEF Working
    <3> QED
      BY <3>2, <3>3, <3>4 DEF ReadyInv, Answering
  <2> QED
    BY <2>2, <2>3
<1>6. CASE RestartThread
  <2>1. /\ UNCHANGED <<hubQ, phase, check, srcWatcher, swWatcher>>
        /\ run' = run \/ run = "none"
    BY <1>6 DEF RestartThread, Payload!StartRun, srcVars, swVars
  <2>2. \A s \in Spoke : (Settled(s) => Settled(s)') /\ (Queued(s) => Queued(s)')
    BY <1>1, <2>1, SaysNothing
  <2>3. Told'
    BY <1>0, <1>1, <2>1, <2>2 DEF ReadyInv, Told
  <2>4. \A s \in Spoke : Working(s) => Working(s)'
    BY <2>1 DEF Working
  <2> QED
    BY <2>2, <2>3, <2>4 DEF ReadyInv, Answering
<1> QED
  BY <1>3, <1>4, <1>5, <1>6, AnswersPayload DEF Threads

LEMMA AnswersUser ==
  ASSUME TypeOK, Building, CheckInv, ReadyInv, User
  PROVE  Told' /\ Answering'
<1>0. Spoke = {Source, Software, Network} /\ SpokesDiffer
  BY Constants
<1>1. /\ main = "idle" /\ UNCHANGED <<notReady, created, run, phase, srcWatcher, swWatcher>>
      /\ \/ UNCHANGED <<hubQ, check>>
         \/ inSpoke = Software /\ ApplySoftware /\ Execute
  <2>1. CASE \E s \in Spoke : SpokeClicked(s)
    BY <2>1 DEF SpokeClicked, listVars, srcVars, swVars, payloadVars
  <2>2. CASE SpokeDone
    BY <2>2 DEF SpokeDone, RestartPayload, Payload!Restart, listVars, srcVars, payloadVars
  <2>3. CASE ContinueClicked
    BY <2>3 DEF ContinueClicked, listVars, srcVars, swVars, payloadVars
  <2> QED
    BY <2>1, <2>2, <2>3 DEF User
<1>2. Told'
  BY <1>1 DEF Building, Told
<1>3. CASE UNCHANGED <<hubQ, check>>
  <2>1. \A s \in Spoke : Settled(s) => Settled(s)'
    BY <1>1, <1>3, SaysNothing
  <2>2. \A s \in Spoke : Working(s) => Working(s)'
    BY <1>1, <1>3 DEF Working
  <2> QED
    BY <1>2, <2>1, <2>2 DEF ReadyInv, Answering
<1>4. CASE inSpoke = Software /\ ApplySoftware /\ Execute
  <2>1. check' = "bump" /\ hubQ' = hubQ \o NotReady(<<Software, Source>>)
    BY <1>1, <1>4 DEF CheckInv, Execute, ApplySoftware
  <2>2. Settled(Network)
    BY <1>0 DEF ReadyInv, Answering, Working, SpokesDiffer
  <2>3. Settled(Network)'
    BY <1>0, <1>1, <2>1, <2>2, SaysNotReady
  <2> QED
    BY <1>0, <1>2, <2>1, <2>3 DEF Answering, Working
<1> QED
  BY <1>1, <1>3, <1>4

\* A spoke that gets its box while it is not ready has a thread that works, or finds
\* its READY in the queue.
LEMMA AnswersPlace ==
  ASSUME TypeOK, Building, CheckInv, ReadyInv, Place
  PROVE  Told' /\ Answering'
<1>0. Spoke = {Source, Software, Network} /\ SpokesDiffer
  BY Constants
<1>1. /\ main = "place" /\ created' = created \cup {NextSpoke}
      /\ notReady' = notReady \cup {s \in {NextSpoke} : ~SpokeReady(s)}
      /\ UNCHANGED <<hubQ, run, phase, check, srcWatcher, swWatcher>>
  BY DEF Place, srcVars, swVars, payloadVars
<1>2. created = {} \/ created = {Source} \/ created = {Source, Software}
  BY <1>1 DEF Building
<1>3. \A s : Queued(s)' <=> Queued(s)
  BY <1>1 DEF Queued, ReadyMessage
<1>4. created # Spoke
  BY <1>1 DEF Building
<1>5. Told'
  BY <1>1, <1>3, <1>4 DEF ReadyInv, Told
<1>6. srcWatcher # "none"
  BY <1>1 DEF ReadyInv, AllListen
<1>7. ASSUME NEW s \in Spoke
      PROVE  Working(s)' <=> Working(s)
  BY <1>1 DEF Working
<1>8. ASSUME NEW s \in Spoke, Answered(s)
      PROVE  Settled(s)'
  BY <1>1, <1>8 DEF Settled, Answered, ReadyMessage, NotReadyMessage
<1>9. ASSUME NEW s \in Spoke, s # NextSpoke \/ SpokeReady(s), Settled(s)
      PROVE  Settled(s)'
  <2>1. s \notin notReady => s \notin notReady'
    BY <1>1, <1>9
  <2> QED
    BY <1>1, <1>8, <1>9, <2>1 DEF Settled, Silent, NotReadyMessage
<1>10. ASSUME NEW s \in Spoke, s = NextSpoke, ~SpokeReady(s), Settled(s)
       PROVE  Settled(s)' \/ Working(s)
  <2>1. CASE s = Source
    BY <1>0, <1>4, <1>6, <1>8, <1>10, <2>1, QueuedIsAnswered DEF ReadyInv, Told, Working, TypeOK
  <2>2. CASE s = Software
    <3>1. created = {Source}
      BY <1>0, <1>10, <2>2 DEF NextSpoke, SpokesDiffer
    <3>2. swWatcher # "none"
      BY <1>1, <3>1 DEF CheckInv
    <3> QED
      BY <1>0, <1>4, <1>8, <1>10, <2>2, <3>2, QueuedIsAnswered DEF ReadyInv, Told, Working, TypeOK
  <2>3. CASE s = Network
    BY <1>0, <1>10, <2>3 DEF SpokeReady, SpokesDiffer
  <2> QED
    BY <1>0, <2>1, <2>2, <2>3
<1> QED
  BY <1>5, <1>7, <1>9, <1>10 DEF ReadyInv, Answering

LEMMA AnswersMainLoop ==
  ASSUME TypeOK, Building, CheckInv, ReadyInv, MainLoop
  PROVE  Told' /\ Answering'
<1>0. Spoke = {Source, Software, Network} /\ SpokesDiffer /\ ListenersDiffer
  BY Constants
<1>1. CASE Boot \/ AllAdded \/ QueueEmpty \/ RefreshSoftware \/ Leave
  <2>1. UNCHANGED <<hubQ, notReady, created, run, phase, check, srcWatcher, swWatcher>>
    BY <1>1 DEF Boot, AllAdded, QueueEmpty, RefreshSoftware, Leave, RestartPayload, Payload!Restart,
                listVars, srcVars, swVars, payloadVars
  <2>2. \A s \in Spoke : (Settled(s) => Settled(s)') /\ (Queued(s) => Queued(s)')
    BY <2>1, SaysNothing
  <2>3. Told'
    BY <1>0, <2>1, <2>2 DEF ReadyInv, Told
  <2>4. \A s \in Spoke : Working(s) => Working(s)'
    BY <2>1 DEF Working
  <2> QED
    BY <2>2, <2>3, <2>4 DEF ReadyInv, Answering
<1>2. CASE Initialize
  <2>1. /\ UNCHANGED <<hubQ, notReady, created, run, phase, check, srcWatcher>>
        /\ swWatcher' = swWatcher \/ swWatcher' = "wait"
    BY <1>2 DEF Initialize, listVars, srcVars, payloadVars
  <2>2. \A s \in Spoke : (Settled(s) => Settled(s)') /\ (Queued(s) => Queued(s)')
    BY <2>1, SaysNothing
  <2>3. Told'
    BY <1>0, <2>1, <2>2 DEF ReadyInv, Told
  <2>4. \A s \in Spoke : Working(s) => Working(s)'
    BY <2>1 DEF Working
  <2> QED
    BY <2>2, <2>3, <2>4 DEF ReadyInv, Answering
<1>3. CASE Listen
  <2> DEFINE l == ListenerOrder[Cardinality(listening) + 1]
  <2>1. /\ main = "listen" /\ srcWatcher' \in {srcWatcher, "wait"}
        /\ Run(l) \/ hubQ' = hubQ
        /\ UNCHANGED <<notReady, created, swWatcher>>
    BY <1>3 DEF Listen, listVars, swVars
  <2>2. created = {} /\ srcWatcher = "none" /\ swWatcher = "none"
    <3>1. created = {} /\ listening # Listener
      BY <2>1 DEF Building
    <3> QED
      BY <3>1 DEF ReadyInv, AllListen, CheckInv
  <2>3. Settled(Network)
    BY <1>0 DEF ReadyInv, Answering, Working, SpokesDiffer
  <2>4. l \in Listener
    BY <2>1, ListenerCount
  <2> HIDE DEF l
  <2>5. hubQ \o <<>> = hubQ
    BY DEF TypeOK
  <2>6. Settled(Network)'
    BY <1>0, <2>1, <2>3, <2>4, <2>5, RunSays, SaysNothing, SaysReady, SaysBothReady, SaysNotReady
    DEF ListenersDiffer
  <2>7. Told'
    BY <2>1, <2>2 DEF Told
  <2>8. Working(Source)' /\ Working(Software)'
    BY <2>1, <2>2 DEF Working
  <2> QED
    BY <1>0, <2>6, <2>7, <2>8 DEF Answering
<1>4. CASE Message
  <2>1. /\ main \in {"idle", "drain"} /\ hubQ # <<>> /\ hubQ' = Tail(hubQ)
        /\ notReady' = IF Head(hubQ).code = "READY" THEN notReady \ {Head(hubQ).spoke}
                                                    ELSE notReady \cup {Head(hubQ).spoke}
        /\ UNCHANGED <<created, run, phase, check, srcWatcher, swWatcher>>
    BY <1>4 DEF Message, srcVars, swVars, payloadVars
  <2>2. Told'
    BY <2>1 DEF Building, Told
  <2>3. \A s \in Spoke : Settled(s) => Settled(s)'
    BY <2>1, ReadOne
  <2>4. \A s \in Spoke : Working(s) => Working(s)'
    BY <2>1 DEF Working
  <2> QED
    BY <2>2, <2>3, <2>4 DEF ReadyInv, Answering
<1> QED
  BY <1>1, <1>2, <1>3, <1>4, AnswersPlace DEF MainLoop

\* No spoke is forgotten in the list of the unready ones: whatever marks a spoke as
\* not ready is followed by a READY behind it in the queue, or a thread that will
\* send one still works; the one exception is the software after a failed set up.
THEOREM NoneIsForgotten == Spec => []NoForgottenNotReady
<1> DEFINE HubInv == TypeOK /\ Building /\ CheckInv
<1>0. Spoke = {Source, Software, Network} /\ SpokesDiffer /\ ListenersDiffer
  BY Constants
<1>1. Init => ReadyInv
  <2> SUFFICES ASSUME Init PROVE ReadyInv
    OBVIOUS
  <2>1. AllListen
    BY DEF Init, AllListen, Listener
  <2>2. Told
    BY DEF Init, Told
  <2>3. \A s \in Spoke : Settled(s)
    BY DEF Init, Settled, Silent
  <2> QED
    BY <2>1, <2>2, <2>3 DEF ReadyInv, Answering
<1>2. ReadyInv /\ HubInv /\ [Next]_vars => ReadyInv'
  <2>1. ReadyInv /\ HubInv /\ Next => ReadyInv'
    BY AllListenStep, AnswersMainLoop, AnswersUser, AnswersThreads DEF Next, ReadyInv
  <2>2. ReadyInv /\ UNCHANGED vars => ReadyInv'
    <3> SUFFICES ASSUME ReadyInv, UNCHANGED vars PROVE ReadyInv'
      OBVIOUS
    <3>1. UNCHANGED <<main, hubQ, notReady, created, run, phase, check, srcWatcher, swWatcher, listening>>
      BY DEF vars, uiVars, listVars, srcVars, swVars, restVars, payloadVars
    <3>2. \A s \in Spoke : (Settled(s) <=> Settled(s)') /\ (Queued(s) <=> Queued(s)')
      BY <3>1, SaysNothing
    <3>3. \A s \in Spoke : Working(s) => Working(s)'
      BY <3>1 DEF Working
    <3>4. Answering'
      BY <3>2, <3>3 DEF ReadyInv, Answering
    <3>5. Told'
      BY <1>0, <3>1, <3>2 DEF ReadyInv, Told
    <3>6. AllListen'
      BY <3>1 DEF ReadyInv, AllListen
    <3> QED
      BY <3>4, <3>5, <3>6 DEF ReadyInv
  <2> QED
    BY <2>1, <2>2
<1>3. ReadyInv /\ HubInv => NoForgottenNotReady
  <2> SUFFICES ASSUME ReadyInv, HubInv, Quiet, NEW s \in notReady
               PROVE  s = Software /\ phase = Payload!Error
    BY DEF NoForgottenNotReady
  <2>1. /\ run = "none" /\ check = "none" /\ ~Registered(swWatcher) /\ ~Registered(srcWatcher)
        /\ hubQ = <<>> /\ main = "idle"
    BY DEF Quiet, NoThread
  <2>2. created = Spoke /\ s \in Spoke
    BY <2>1 DEF Building, TypeOK
  <2>3. srcWatcher # "none" /\ swWatcher # "none"
    BY <1>0, <2>1, <2>2 DEF ReadyInv, AllListen, CheckInv
  <2>4. ~Settled(s)
    BY <2>1 DEF Settled, Answered, Silent
  <2>5. Working(s)
    BY <2>2, <2>4 DEF ReadyInv, Answering
  <2> QED
    BY <1>0, <2>1, <2>3, <2>5 DEF Working, Registered, TypeOK
<1>4. Spec => []HubInv
  BY HubInvariant
<1> QED
  BY <1>1, <1>2, <1>3, <1>4, PTL DEF Spec
=============================================================================
