--------------------------- MODULE InitController ---------------------------
(***************************************************************************)
(* pyanaconda/lifecycle.py, class Controller: modules (the spokes of a     *)
(* hub) say that their initialization starts and ends, the latter from     *)
(* their threads; init_done is sent when all are declared added and done.  *)
(* The lock makes each call atomic; the signal is sent after its release,  *)
(* by the one call that has set _init_done_triggered, as part of the call. *)
(***************************************************************************)
EXTENDS Naturals

CONSTANT Module

VARIABLES
    initializing,   \* _modules
    allAdded,       \* _all_modules_added
    triggered,      \* _init_done_triggered
    emitted,        \* history: how often init_done was emitted
    started,        \* history: the modules that were accepted
    done            \* history: the modules that said they are done

ctlVars == <<initializing, allAdded, triggered, emitted, started, done>>

CtlTypeOK ==
    /\ initializing \subseteq Module /\ started \subseteq Module /\ done \subseteq Module
    /\ allAdded \in BOOLEAN /\ triggered \in BOOLEAN
    /\ emitted \in Nat

CtlInit ==
    /\ initializing = {} /\ started = {} /\ done = {}
    /\ allAdded = FALSE /\ triggered = FALSE
    /\ emitted = 0

\* A late module is refused.
ModuleInitStart(m) ==
    /\ initializing' = IF allAdded THEN initializing ELSE initializing \cup {m}
    /\ started' = IF allAdded THEN started ELSE started \cup {m}
    /\ UNCHANGED <<allAdded, triggered, emitted, done>>

NotHere == FALSE                    \* mutant: only module_init_done sends the signal
NothingLeft == initializing = {} /\ ~triggered

AllModulesAdded ==
    /\ allAdded' = TRUE
    /\ triggered' = (triggered \/ NothingLeft)
    /\ emitted' = IF NothingLeft THEN emitted + 1 ELSE emitted
    /\ UNCHANGED <<initializing, started, done>>

LastNow(m) == initializing \ {m} = {}       \* mutant: does not wait for all_modules_added
LastOne(m) == allAdded /\ initializing \ {m} = {}

ModuleInitDone(m) ==
    /\ done' = done \cup {m}
    /\ initializing' = IF triggered THEN initializing ELSE initializing \ {m}
    /\ IF ~triggered /\ LastOne(m)
         THEN triggered' = TRUE /\ emitted' = emitted + 1
         ELSE UNCHANGED <<triggered, emitted>>
    /\ UNCHANGED <<allAdded, started>>

CtlNext ==
    \/ \E m \in Module : ModuleInitStart(m) \/ ModuleInitDone(m)
    \/ AllModulesAdded

CtlSpec == CtlInit /\ [][CtlNext]_ctlVars

\* "no more modules are being initialized": init_done is sent once, and not
\* before all modules were added and each of them was done, whichever comes last.
InitDoneOnceAfterAll ==
    /\ emitted <= 1
    /\ emitted = 1 => allAdded /\ started \subseteq done
=============================================================================
