--------------------------- MODULE StorageService ---------------------------
(***************************************************************************)
(* pyanaconda/modules/storage/storage.py and partitioning/base.py: the     *)
(* models of the storage that the service and its partitioning modules     *)
(* hold, and the D-Bus calls that copy, replace and drop them.  A model is *)
(* a Python object: two variables may name the same one, a thread may keep *)
(* one that everybody else has dropped, and what nobody names is gone.     *)
(***************************************************************************)
EXTENDS Naturals, FiniteSets

CONSTANTS
    Cell,           \* bound: where models are kept, 1 .. number of cells
    MaxParts,       \* bound: partitioning modules that are created
    MaxScans,       \* bound: scans of the devices
    MaxChanges,     \* bound: changes made to one model
    Selection,      \* the sets of disks the user may select
    NoDisks,        \* the empty one
    Garbage         \* in a cell that nobody names

ASSUME StorageAssumption ==
    /\ Cell \subseteq Nat \ {0} /\ 1 \in Cell /\ IsFiniteSet(Cell)
    /\ MaxParts \in Nat \ {0} /\ MaxScans \in Nat /\ MaxChanges \in Nat
    /\ NoDisks \in Selection

VARIABLES
    heap,           \* the model in each cell
    current,        \* StorageService._current_storage
    playground,     \* StorageService._storage_playground
    applied,        \* _applied_partitioning
    created,        \* _created_partitioning: the modules 1 .. created
    base,           \* _current_storage of each partitioning module
    own,            \* _storage_playground of each partitioning module
    selected,       \* DiskSelectionModule._selected_disks
    disksOf,        \* _selected_disks of each partitioning module
    obj,            \* the model a partitioning or validation task holds
    scans           \* how many times the hardware was scanned

models == <<current, playground, base, own, obj>>
storageVars == <<heap, models, applied, created, selected, disksOf, scans>>

None == 0
Part == 1 .. MaxParts

(* A model: the scan it comes from, the disks it does not hide, the modules *)
(* that have scheduled actions in it, how often it was changed and whether *)
(* storage_checker.check accepts it.                                       *)
Model == [scan : 0 .. MaxScans, disks : Selection, by : SUBSET Part,
          changes : 0 .. MaxChanges, valid : BOOLEAN]

ASSUME GarbageAssumption == Garbage \notin Model

Scanned(n) == [scan |-> n, disks |-> NoDisks, by |-> {}, changes |-> 0, valid |-> FALSE]

Live == {current, playground, obj} \cup {base[p] : p \in Part} \cup {own[p] : p \in Part}

StorageTypeOK ==
    /\ heap \in [Cell -> Model \cup {Garbage}]
    /\ current \in Cell /\ {playground, obj} \subseteq Cell \cup {None}
    /\ applied \in Part \cup {None}
    /\ (applied = None) <=> (playground = None)
    /\ created \in 0 .. MaxParts
    /\ base \in [Part -> Cell \cup {None}] /\ own \in [Part -> Cell \cup {None}]
    /\ \A p \in Part : (base[p] # None) <=> p <= created
    /\ selected \in Selection /\ disksOf \in [Part -> Selection]
    /\ scans \in 0 .. MaxScans

-----------------------------------------------------------------------------
(* Objects.                                                                *)

FreeIn(h) == {c \in Cell : h[c] = Garbage}
HasFree(h) == FreeIn(h) # {}
Free(h) == CHOOSE c \in FreeIn(h) : TRUE
New(h, model) == [h EXCEPT ![Free(h)] = model]

(* What the step leaves in memory: the last conjunct of every action.      *)
Store(h) == heap' = [c \in Cell |-> IF c \in Live' THEN h[c] ELSE Garbage]

-----------------------------------------------------------------------------
(* The partitioning modules.                                               *)

(* PartitioningModule.storage: a playground is made when it is asked for.   *)
Prepared(p) == [heap[base[p]] EXCEPT !.disks = disksOf[p]]
Playground(p) == IF own[p] = None THEN Free(heap) ELSE own[p]
Accessed(p) == IF own[p] = None THEN New(heap, Prepared(p)) ELSE heap
CanAccess(p) == own[p] = None => HasFree(heap)
Access(p) == own' = [own EXCEPT ![p] = Playground(p)]

(* Devices are changed in the model c by the module p.  The result may or   *)
(* may not pass the checks.                                                *)
Changed(c, p, ok) == [heap EXCEPT ![c].by = @ \cup {p}, ![c].changes = @ + 1, ![c].valid = ok]
CanChange(c) == heap[c].changes < MaxChanges

-----------------------------------------------------------------------------
(* The service.  Tell is storage_changed.emit: every module that was made   *)
(* takes the model.                                                        *)

KeepPlaygrounds == UNCHANGED own                        \* mutant: no reset of the modules
DropPlaygrounds == own' = [p \in Part |-> None]
NotApplied == applied' = None
TellNobody(c) == UNCHANGED base                         \* mutant: no signal
Tell(c) == base' = [p \in Part |-> IF p <= created THEN c ELSE base[p]]

(* reset_partitioning                                                      *)
ResetPartitioning ==
    /\ playground' = None /\ NotApplied
    /\ Tell(current)
    /\ DropPlaygrounds
    /\ UNCHANGED <<current, created, scans>>

(* The signal succeeded of ScanDevicesTask: _set_storage with the scanned   *)
(* copy, which nobody hears of while a partitioning is applied.            *)
SetStorage(n) ==
    /\ HasFree(heap)
    /\ current' = Free(heap)
    /\ IF playground = None THEN Tell(Free(heap)) ELSE UNCHANGED base
    /\ UNCHANGED <<playground, applied, created, own, selected, disksOf, obj>>
    /\ Store(New(heap, Scanned(n)))

PlannedForNew == IF playground = None THEN current ELSE playground     \* mutant: self.storage
ModelForNew == current

(* set_selected_disks                                                      *)
SelectDisks(disks) ==
    /\ selected' = disks
    /\ disksOf' = [p \in Part |-> IF p <= created' THEN disks ELSE disksOf[p]]

(* create_partitioning for the disks that its creator has just selected,    *)
(* and the access to the device tree of the module that the creator makes. *)
CreatePartitioning(disks) ==
    LET p == created + 1 IN
    /\ created < MaxParts /\ HasFree(heap)
    /\ created' = p
    /\ base' = [base EXCEPT ![p] = ModelForNew]
    /\ SelectDisks(disks)
    /\ own' = [own EXCEPT ![p] = Free(heap)]
    /\ UNCHANGED <<current, playground, applied, obj, scans>>
    /\ Store(New(heap, [heap[ModelForNew] EXCEPT !.disks = disks]))

AnythingPasses(p) == TRUE                               \* mutant: no second validation
PassesCheck(p) == Accessed(p)[Playground(p)].valid
Shared(p) == Playground(p)                              \* mutant: no copy
CopyOf(p) == Free(Accessed(p))

(* apply_partitioning, when the report is valid: the validated copy is the *)
(* model of the installation.                                              *)
ApplyPartitioning(p) ==
    /\ PassesCheck(p) /\ CanAccess(p) /\ HasFree(Accessed(p))
    /\ playground' = CopyOf(p) /\ applied' = p
    /\ Tell(CopyOf(p))
    /\ Access(p)
    /\ UNCHANGED <<current, created, selected, disksOf, scans>>
    /\ obj' = None
    /\ Store([Accessed(p) EXCEPT ![CopyOf(p)] = Accessed(p)[Playground(p)]])

(* apply_partitioning, when it is not: InvalidStorageError.                 *)
RefusePartitioning(p) ==
    /\ ~ PassesCheck(p) /\ CanAccess(p)
    /\ Access(p) /\ obj' = None
    /\ UNCHANGED <<current, playground, applied, created, base, selected, disksOf, scans>>
    /\ Store(Accessed(p))

=============================================================================
