---------------------------- MODULE StorageSpokes ----------------------------
(***************************************************************************)
(* The clients of the storage service in the graphical installer: the      *)
(* storage spoke and the custom partitioning spoke in the main thread, the *)
(* thread that applies a partitioning (ui/lib/storage.py                   *)
(* apply_partitioning), and the threads that scan (reset_storage).         *)
(***************************************************************************)
EXTENDS StorageService

VARIABLES
    scan,           \* what reset_storage is doing, in each thread that calls it
    exec,           \* the run of apply_partitioning
    spoke,          \* where the user is
    picked,         \* the disks picked in the storage spoke
    lastDisks,      \* StorageSpoke._last_selected_disks
    method,         \* StorageSpoke._last_partitioning_method
    auto,           \* StorageSpoke._partitioning
    custom,         \* CustomPartitioningSpoke._partitioning
    errors,         \* StorageCheckHandler.errors
    ready,          \* StorageSpoke._ready
    crashed         \* an error nobody handles

ui == <<spoke, picked, lastDisks, method, auto, custom>>
clientVars == <<scan, exec, ui, errors, ready, crashed>>
vars == <<storageVars, clientVars>>

(* THREAD_STORAGE or THREAD_DASDFMT, and the thread that runs               *)
(* apply_partitioning.                                                     *)
Scanner == {"storage", "execute"}
Method == {"automatic", "interactive"}

TypeOK ==
    /\ StorageTypeOK
    /\ scan \in [Scanner -> [at : {"idle", "scan", "scanned", "reset"}, number : 0 .. MaxScans]]
    /\ exec \in [at : {"idle", "configure", "configuring", "validate", "validating", "apply", "rescan"},
                 part : Part \cup {None}]
    /\ spoke \in {"hub", "storage", "refresh", "leaving", "format", "plan", "custom", "rescan", "checking"}
    /\ {picked, lastDisks} \subseteq Selection
    /\ method \in Method /\ auto \in Part /\ custom \in Part \cup {None}
    /\ auto <= created /\ custom <= created
    /\ {errors, ready, crashed} \subseteq BOOLEAN
    /\ exec.at \in {"configuring", "validating"} <=> obj # None

(* The spoke has found or created a partitioning; THREAD_STORAGE scans.     *)
Init ==
    /\ heap = [c \in Cell |-> IF c = 1 THEN Scanned(0) ELSE Garbage]
    /\ current = 1 /\ playground = None /\ applied = None /\ created = 1
    /\ base = [p \in Part |-> IF p = 1 THEN 1 ELSE None]
    /\ own = [p \in Part |-> None]
    /\ selected = NoDisks /\ disksOf = [p \in Part |-> NoDisks]
    /\ obj = None /\ scans = 0
    /\ scan = [t \in Scanner |-> [at |-> IF t = "storage" THEN "scan" ELSE "idle", number |-> 0]]
    /\ exec = [at |-> "idle", part |-> None]
    /\ spoke = "hub" /\ picked = NoDisks /\ lastDisks = NoDisks
    /\ method = "automatic" /\ auto = 1 /\ custom = None
    /\ errors = FALSE /\ ready = FALSE /\ crashed = FALSE

-----------------------------------------------------------------------------
(* Where the threads are, until one of them dies of an error.              *)

ScanIs(t, at) == ~ crashed /\ scan[t].at = at
ExecIs(at) == ~ crashed /\ exec.at = at
In(place) == ~ crashed /\ spoke = place

-----------------------------------------------------------------------------
(* reset_storage                                                           *)

ScanAt(t, at) == scan' = [scan EXCEPT ![t].at = at]

(* ScanDevicesTask.run: blivet reads the hardware into the private copy.    *)
Scan(t) ==
    /\ ScanIs(t, "scan") /\ scans < MaxScans
    /\ scans' = scans + 1
    /\ scan' = [scan EXCEPT ![t] = [at |-> "scanned", number |-> scans + 1]]
    /\ UNCHANGED <<heap, models, applied, created, selected, disksOf, exec, ui, errors, ready, crashed>>

(* It fails: the user retries, which leaves everything as it is, or gives   *)
(* up and the thread dies of the error.                                    *)
GiveUp(t) ==
    /\ ScanIs(t, "scan")
    /\ crashed' = TRUE
    /\ UNCHANGED <<storageVars, scan, exec, ui, errors, ready>>

Succeed(t) ==
    /\ ScanIs(t, "scanned")
    /\ SetStorage(scan[t].number)
    /\ ScanAt(t, "reset")
    /\ UNCHANGED <<scans, exec, ui, errors, ready, crashed>>

(* The storage spoke sees its thread end; apply_partitioning returns.      *)
Reset(t) ==
    /\ ScanIs(t, "reset")
    /\ ResetPartitioning
    /\ scan' = [scan EXCEPT ![t] = [at |-> "idle", number |-> 0]]
    /\ exec' = IF t = "execute" THEN [exec EXCEPT !.at = "idle"] ELSE exec
    /\ errors' = (errors \/ t = "execute")
    /\ UNCHANGED <<selected, disksOf, obj, ui, ready, crashed>>
    /\ Store(heap)

-----------------------------------------------------------------------------
(* apply_partitioning: in THREAD_EXECUTE_STORAGE for the storage spoke, in  *)
(* the main thread for the custom spoke.                                   *)

NoReport(failed) == FALSE                               \* mutant: the report is not kept
Report(failed) == failed
Finish(failed) == exec' = [exec EXCEPT !.at = "idle"] /\ errors' = Report(failed)
Go(at) == exec' = [exec EXCEPT !.at = at] /\ UNCHANGED errors
InCustomSpoke == exec.part = custom

Hold(p) ==
    /\ CanAccess(p) /\ Access(p) /\ obj' = Playground(p)
    /\ UNCHANGED <<current, playground, applied, created, base, selected, disksOf, scans>>
    /\ Store(Accessed(p))

ConfigureWithTask ==
    /\ ExecIs("configure")
    /\ Hold(exec.part) /\ Go("configuring")
    /\ UNCHANGED <<scan, ui, ready, crashed>>

(* PartitioningTask.run and the call that sees it end.  What was changed    *)
(* before an error stays in the model.                                     *)
Configured ==
    /\ ExecIs("configuring") /\ CanChange(obj)
    /\ obj' = None
    /\ UNCHANGED <<created, selected, disksOf, scans, ui, ready, crashed>>

(* _clear_partitions raises NoDisksError when all disks are hidden.         *)
HasDisks == heap[obj].disks # NoDisks

Configure(ok) ==
    /\ Configured /\ HasDisks /\ Go("validate")
    /\ UNCHANGED <<current, playground, applied, base, own, scan>>
    /\ Store(Changed(obj, exec.part, ok))

BootloaderError(ok) ==
    /\ Configured /\ HasDisks /\ Finish(TRUE)
    /\ UNCHANGED <<current, playground, applied, base, own, scan>>
    /\ Store(Changed(obj, exec.part, ok))

StorageError(ok) ==
    /\ Configured
    /\ IF InCustomSpoke
       THEN ResetPartitioning /\ Finish(TRUE) /\ UNCHANGED scan
       ELSE /\ Go("rescan") /\ ScanAt("execute", "scan")
            /\ UNCHANGED <<current, playground, applied, base, own>>
    /\ Store(Changed(obj, exec.part, ok))

ValidateWithTask ==
    /\ ExecIs("validate")
    /\ Hold(exec.part) /\ Go("validating")
    /\ UNCHANGED <<scan, ui, ready, crashed>>

Validate ==
    /\ ExecIs("validating")
    /\ obj' = None
    /\ IF heap[obj].valid THEN Go("apply") ELSE Finish(TRUE)
    /\ UNCHANGED <<current, playground, base, own, applied, created, selected, disksOf, scans,
                   scan, ui, ready, crashed>>
    /\ Store(heap)

Apply ==
    /\ ExecIs("apply")
    /\ ApplyPartitioning(exec.part) /\ Finish(FALSE)
    /\ UNCHANGED <<scan, ui, ready, crashed>>

(* Nothing in apply_partitioning expects the error of the second check.     *)
ApplyRaises ==
    /\ ExecIs("apply")
    /\ RefusePartitioning(exec.part)
    /\ crashed' = TRUE
    /\ UNCHANGED <<scan, exec, ui, errors, ready>>

-----------------------------------------------------------------------------
(* The storage spoke.                                                      *)

NoThreads == exec.at = "idle" /\ \A t \in Scanner : scan[t].at = "idle"
Ready == ready /\ NoThreads

Execute(p) == exec' = [at |-> "configure", part |-> p]
Select(disks) ==
    /\ UNCHANGED <<heap, models, applied, created, scans>>
    /\ SelectDisks(disks)

(* _initialize: default disks; a kickstart file may have its partitioning   *)
(* applied at once.                                                        *)
Initialize(disks) ==
    /\ ~ crashed /\ ~ ready /\ scan["storage"].at = "idle"
    /\ Select(disks)
    /\ ready' = TRUE
    /\ exec' \in {exec, [at |-> "configure", part |-> auto]}
    /\ UNCHANGED <<scan, ui, errors, crashed>>

EnterStorage ==
    /\ In("hub") /\ Ready
    /\ spoke' = "storage"
    /\ UNCHANGED <<storageVars, scan, exec, picked, lastDisks, method, auto, custom, errors, ready, crashed>>

(* on_specialized_clicked: the selection is applied on the way to the       *)
(* filter spoke, and the user comes back.                                  *)
Specialize(disks) ==
    /\ In("storage")
    /\ Select(disks)
    /\ UNCHANGED clientVars

(* Leaving with no disks: apply, and execute for the automatic method.      *)
BackOut ==
    /\ In("storage")
    /\ Select(NoDisks)
    /\ spoke' = "hub"
    /\ IF method = "automatic" THEN Execute(auto) ELSE UNCHANGED exec
    /\ UNCHANGED <<scan, picked, lastDisks, method, auto, custom, errors, ready, crashed>>

NeverChanged(disks) == FALSE                            \* mutant: only the method counts
DisksChanged(disks) == lastDisks # NoDisks /\ lastDisks # disks

(* Done: _reset_to_snapshot.                                               *)
Done(disks, m) ==
    /\ In("storage") /\ disks # NoDisks
    /\ picked' = disks /\ lastDisks' = disks /\ method' = m
    /\ IF DisksChanged(disks) \/ method # m
       THEN ResetPartitioning
       ELSE UNCHANGED <<current, playground, applied, created, base, own, scans>>
    /\ spoke' = "leaving"
    /\ UNCHANGED <<selected, disksOf, obj, scan, exec, auto, custom, errors, ready, crashed>>
    /\ Store(heap)

(* _check_dasd_formats: format and scan, or nothing to format.              *)
FormatDisks ==
    /\ In("leaving")
    /\ Select(picked)
    /\ ScanAt("storage", "scan") /\ spoke' = "format"
    /\ UNCHANGED <<exec, picked, lastDisks, method, auto, custom, errors, ready, crashed>>

NothingToFormat ==
    /\ \/ In("leaving")
       \/ In("format") /\ scan["storage"].at = "idle"
    /\ spoke' = "plan"
    /\ UNCHANGED <<storageVars, scan, exec, picked, lastDisks, method, auto, custom, errors, ready, crashed>>

(* on_refresh_clicked, with other disks picked already.                     *)
RefreshDisks(disks) ==
    /\ In("storage")
    /\ picked' = disks
    /\ ScanAt("storage", "scan") /\ spoke' = "refresh"
    /\ UNCHANGED <<storageVars, exec, lastDisks, method, auto, custom, errors, ready, crashed>>

Refreshed ==
    /\ In("refresh") /\ scan["storage"].at = "idle"
    /\ spoke' = "storage"
    /\ UNCHANGED <<storageVars, scan, exec, picked, lastDisks, method, auto, custom, errors, ready, crashed>>

(* In either dialog, the link back to the hub does not wait for the scan.   *)
ReturnToHub ==
    /\ In("refresh") \/ In("format")
    /\ Select(picked)
    /\ spoke' = "hub"
    /\ IF method = "automatic" THEN Execute(auto) ELSE UNCHANGED exec
    /\ UNCHANGED <<scan, picked, lastDisks, method, auto, custom, errors, ready, crashed>>

(* _skip_to_automatic_partitioning: the user confirms, or stays.            *)
PlanAutomatic(confirmed) ==
    /\ In("plan") /\ method = "automatic"
    /\ CreatePartitioning(picked)
    /\ auto' = created + 1
    /\ IF confirmed THEN spoke' = "hub" /\ Execute(created + 1)
                    ELSE spoke' = "storage" /\ UNCHANGED exec
    /\ UNCHANGED <<scan, picked, lastDisks, method, custom, errors, ready, crashed>>

-----------------------------------------------------------------------------
(* The custom partitioning spoke.                                          *)

(* The storage spoke applies the selection; the custom spoke makes its      *)
(* module on the first visit, and shows it.                                *)
EnterCustom ==
    /\ In("plan") /\ method = "interactive" /\ NoThreads
    /\ spoke' = "custom"
    /\ \/ /\ custom = None
          /\ CreatePartitioning(picked) /\ custom' = created + 1
       \/ /\ custom # None /\ UNCHANGED custom
          /\ Select(picked)
    /\ UNCHANGED <<scan, exec, picked, lastDisks, method, auto, errors, ready, crashed>>

InSpoke == In("custom") \/ (In("checking") /\ exec.at = "idle")

(* AddDevice, ChangeDevice, DestroyDevice on the device tree.               *)
Edit(ok) ==
    /\ InSpoke /\ own[custom] # None /\ CanChange(own[custom])
    /\ spoke' = "custom"
    /\ UNCHANGED <<models, applied, created, selected, disksOf, scans>>
    /\ UNCHANGED <<scan, exec, picked, lastDisks, method, auto, custom, errors, ready, crashed>>
    /\ Store(Changed(own[custom], custom, ok))

(* The refreshed spoke shows the device tree of its module.                *)
Show ==
    /\ InSpoke /\ own[custom] = None /\ HasFree(heap)
    /\ Access(custom)
    /\ UNCHANGED <<current, playground, base, obj, applied, created, selected, disksOf, scans, clientVars>>
    /\ Store(Accessed(custom))

(* on_reset_clicked, and an edit that fails.                                *)
ResetCustom ==
    /\ InSpoke
    /\ ResetPartitioning
    /\ spoke' = "custom"
    /\ UNCHANGED <<selected, disksOf, obj, scan, exec, picked, lastDisks, method, auto, custom, errors, ready, crashed>>
    /\ Store(heap)

(* Done: _do_check runs apply_partitioning.                                *)
Check ==
    /\ In("custom") /\ own[custom] # None
    /\ Execute(custom) /\ spoke' = "checking"
    /\ UNCHANGED <<storageVars, scan, picked, lastDisks, method, auto, custom, errors, ready, crashed>>

(* Confirmed in the summary, or done again despite the errors.              *)
LeaveCustom ==
    /\ In("checking") /\ exec.at = "idle"
    /\ spoke' = "hub"
    /\ UNCHANGED <<storageVars, scan, exec, picked, lastDisks, method, auto, custom, errors, ready, crashed>>

Rescan ==
    /\ InSpoke
    /\ ScanAt("storage", "scan") /\ spoke' = "rescan"
    /\ UNCHANGED <<storageVars, exec, picked, lastDisks, method, auto, custom, errors, ready, crashed>>

(* The dialog waits for the scan and leads to the storage spoke, or its     *)
(* link to the hub.                                                        *)
EndRescan ==
    /\ In("rescan")
    /\ \/ scan["storage"].at = "idle" /\ spoke' = "storage"
       \/ spoke' = "hub"
    /\ UNCHANGED <<storageVars, scan, exec, picked, lastDisks, method, auto, custom, errors, ready, crashed>>

-----------------------------------------------------------------------------
Executor ==
    \/ ConfigureWithTask \/ ValidateWithTask \/ Validate \/ Apply \/ ApplyRaises
    \/ \E ok \in BOOLEAN : Configure(ok) \/ BootloaderError(ok) \/ StorageError(ok)

User ==
    \/ EnterStorage \/ BackOut \/ FormatDisks \/ NothingToFormat \/ Refreshed \/ ReturnToHub
    \/ EnterCustom \/ Show \/ ResetCustom \/ Check \/ LeaveCustom \/ Rescan \/ EndRescan
    \/ \E disks \in Selection : Initialize(disks) \/ Specialize(disks) \/ RefreshDisks(disks)
    \/ \E disks \in Selection, m \in Method : Done(disks, m)
    \/ \E ok \in BOOLEAN : Edit(ok) \/ PlanAutomatic(ok)

Next ==
    \/ Executor
    \/ User
    \/ \E t \in Scanner : Scan(t) \/ GiveUp(t) \/ Succeed(t) \/ Reset(t)

Spec == Init /\ [][Next]_vars

-----------------------------------------------------------------------------
(* Properties.                                                             *)

(* What will be installed is a valid layout, made by the module that is    *)
(* said to be applied and by no other, whatever was applied before it.     *)
AppliedIsOwnWork ==
    playground # None =>
        heap[playground].valid /\ heap[playground].by = {applied}

(* When no reset_storage has its last call to make, a layout is planned on *)
(* the storage as it was last scanned.                                     *)
AppliedIsFresh ==
    (playground # None /\ \A t \in Scanner : scan[t].at # "reset") =>
        heap[playground].scan = heap[current].scan

(* The modules build on the scanned storage whenever nothing is applied.    *)
ModulesFollow ==
    playground = None => \A p \in 1 .. created : base[p] = current

(* StorageSpoke.completed, with the spoke closed.                           *)
Completed == Ready /\ ~ errors /\ playground # None /\ spoke = "hub" /\ ~ crashed

(* A completed spoke stands for the layout that was checked last, and for   *)
(* what its module shows to the user.                                      *)
AppliedIsShown ==
    Completed =>
        /\ applied = exec.part /\ own[applied] # None
        /\ heap[own[applied]] = heap[playground]

(* A completed spoke uses the disks that are selected, if any are.          *)
AppliedUsesSelection ==
    (Completed /\ selected # NoDisks) => heap[playground].disks = selected

(* An applied layout is not changed: only applied again or dropped.         *)
AppliedIsNotEdited ==
    [][(playground # None /\ playground' = playground) =>
            heap'[playground] = heap[playground]]_vars
=============================================================================
