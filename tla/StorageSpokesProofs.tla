------------------------- MODULE StorageSpokesProofs -------------------------
(***************************************************************************)
(* What holds of the storage models for every number of modules, scans,    *)
(* cells and disks: who shares a model with whom, what the applied layout  *)
(* was made from, what a completed spoke shows and which disks it uses.    *)
(***************************************************************************)
EXTENDS StorageSpokes, TLAPS

\* Every model that somebody names is in memory.
Allocated == \A c \in Live \ {None} : c \in Cell /\ heap[c] \in Model

\* Nobody who changes devices holds the applied layout.
Apart ==
    playground # None =>
        playground # obj /\ \A p \in Part : playground # own[p]

StorageInv == StorageTypeOK /\ Allocated /\ Apart /\ ModulesFollow

\* Whoever works has a module to work on, and the user does not start
\* apply_partitioning a second time.
Busy ==
    /\ exec.at # "idle" => exec.part \in 1 .. created
    /\ scan["execute"].at # "idle" => exec.at = "rescan"
    /\ spoke \in {"custom", "rescan", "checking"} => custom # None
    /\ spoke \notin {"hub", "checking"} => exec.at = "idle"
    /\ ~ ready => spoke = "hub" /\ exec.at = "idle"

IInv == TypeOK /\ StorageInv /\ Busy

-----------------------------------------------------------------------------
(* Memory.                                                                 *)

Heap == [Cell -> Model \cup {Garbage}]

\* A cell that is free can be found.
LEMMA FreeCell ==
  ASSUME NEW h, HasFree(h)
  PROVE  Free(h) \in Cell /\ h[Free(h)] = Garbage
<1>1. Free(h) \in FreeIn(h)
  BY DEF HasFree, Free
<1> QED
  BY <1>1 DEF FreeIn

\* A new object changes no other.
LEMMA NewModel ==
  ASSUME NEW h \in Heap, HasFree(h), NEW model \in Model
  PROVE  /\ New(h, model) \in Heap
         /\ New(h, model)[Free(h)] = model
         /\ \A c \in Cell \ {Free(h)} : New(h, model)[c] = h[c]
  BY FreeCell DEF New, Heap

\* Nor does a change of the devices in one model.
LEMMA ChangedModel ==
  ASSUME heap \in Heap, NEW c \in Cell, heap[c] \in Model, CanChange(c),
         NEW p \in Part, NEW ok \in BOOLEAN
  PROVE  /\ Changed(c, p, ok) \in Heap
         /\ Changed(c, p, ok)[c] \in Model
         /\ \A d \in Cell \ {c} : Changed(c, p, ok)[d] = heap[d]
<1> DEFINE m == [heap[c] EXCEPT !.by = @ \cup {p}, !.changes = @ + 1, !.valid = ok]
<1>1. m \in Model
  <2>1. /\ heap[c].scan \in 0 .. MaxScans /\ heap[c].disks \in Selection
        /\ heap[c].by \in SUBSET Part /\ heap[c].changes \in 0 .. MaxChanges
    BY DEF Model
  <2>2. heap[c].changes + 1 \in 0 .. MaxChanges
    BY <2>1, StorageAssumption DEF CanChange
  <2>3. heap[c].by \cup {p} \in SUBSET Part
    BY <2>1
  <2> QED
    BY <2>2, <2>3 DEF Model
<1>2. Changed(c, p, ok) = [heap EXCEPT ![c] = m]
  BY DEF Changed, Heap
<1> HIDE DEF m
<1> QED
  BY <1>1, <1>2 DEF Heap

\* What a step writes is what its names then find.
LEMMA Stored ==
  ASSUME NEW h \in Heap, Store(h),
         \A c \in Live' \ {None} : c \in Cell /\ h[c] \in Model
  PROVE  /\ heap' \in Heap
         /\ Allocated'
         /\ \A c \in Live' \ {None} : heap'[c] = h[c]
  BY DEF Store, Heap, Allocated

-----------------------------------------------------------------------------
(* The calls of the service: each keeps StorageInv and the applied layout.  *)

\* A memory that has all models, and the applied one as it was.
Good(h) ==
    /\ h \in Heap
    /\ \A c \in Live \ {None} : h[c] \in Model
    /\ playground # None => h[playground] = heap[playground]

Untouched ==
    (playground # None /\ playground' = playground) =>
        heap'[playground] = heap[playground]

\* Memory as it is.
LEMMA GoodHeap == StorageInv => Good(heap)
  BY DEF StorageInv, StorageTypeOK, Good, Heap, Allocated, Live

\* Devices may change in any model but the applied one.
LEMMA GoodChange ==
  ASSUME StorageInv, NEW c \in Live \ {None}, c # playground, CanChange(c),
         NEW p \in Part, NEW ok \in BOOLEAN
  PROVE  Good(Changed(c, p, ok))
<1>1. c \in Cell /\ heap[c] \in Model /\ heap \in Heap
  BY DEF StorageInv, StorageTypeOK, Allocated, Heap
<1>2. \A d \in Live \ {None} : d \in Cell /\ heap[d] \in Model
  BY DEF StorageInv, Allocated
<1>3. playground # None => playground \in Live \ {None}
  BY DEF Live
<1> QED
  BY <1>1, <1>2, <1>3, ChangedModel DEF Good

\* The models are named as before, or one name less is kept.
LEMMA WriteKeeps ==
  ASSUME StorageInv, NEW h, Good(h), Store(h), obj' \in {obj, None},
         UNCHANGED <<current, playground, base, own, applied, created, selected, disksOf, scans>>
  PROVE  StorageInv' /\ Untouched
<1>1. Live' \subseteq Live \cup {None}
  BY DEF Live
<1>2. \A c \in Live' \ {None} : c \in Cell /\ h[c] \in Model
  BY <1>1 DEF StorageInv, Allocated, Good
<1>3. heap' \in Heap /\ Allocated' /\ \A c \in Live' \ {None} : heap'[c] = h[c]
  BY <1>2, Stored DEF Good
<1>4. StorageTypeOK'
  BY <1>3 DEF StorageInv, StorageTypeOK, Heap
<1>5. Apart' /\ ModulesFollow'
  BY DEF StorageInv, Apart, ModulesFollow, None
<1>6. Untouched
  BY <1>3 DEF Untouched, Good, Live
<1> QED
  BY <1>3, <1>4, <1>5, <1>6 DEF StorageInv

\* reset_partitioning, perhaps after a failed change.
LEMMA ResetKeeps ==
  ASSUME StorageInv, NEW h, Good(h), Store(h), obj' \in {obj, None},
         ResetPartitioning, UNCHANGED <<selected, disksOf>>
  PROVE  StorageInv' /\ Untouched
<1> USE DEF ResetPartitioning, NotApplied, Tell, DropPlaygrounds
<1>1. Live' \subseteq Live \cup {None}
  BY DEF Live
<1>2. \A c \in Live' \ {None} : c \in Cell /\ h[c] \in Model
  BY <1>1 DEF StorageInv, Allocated, Good
<1>3. heap' \in Heap /\ Allocated'
  BY <1>2, Stored DEF Good
<1>4. StorageTypeOK'
  BY <1>3, StorageAssumption DEF StorageInv, StorageTypeOK, Heap, None
<1>5. Apart' /\ ModulesFollow'
  BY StorageAssumption DEF StorageInv, StorageTypeOK, Apart, ModulesFollow, Part
<1>6. Untouched
  BY DEF Untouched, None
<1> QED
  BY <1>3, <1>4, <1>5, <1>6 DEF StorageInv

\* _set_storage.
LEMMA SetStorageKeeps ==
  ASSUME StorageInv, NEW n \in 0 .. MaxScans, SetStorage(n), UNCHANGED scans
  PROVE  StorageInv' /\ Untouched
<1> DEFINE h == New(heap, Scanned(n))
           f == Free(heap)
<1> USE DEF SetStorage, Tell
<1>1. Scanned(n) \in Model
  BY StorageAssumption DEF Scanned, Model
<1>2. heap \in Heap
  BY DEF StorageInv, StorageTypeOK, Heap
<1>3. /\ h \in Heap /\ h[f] \in Model
      /\ \A c \in Cell \ {f} : h[c] = heap[c]
  BY <1>1, <1>2, NewModel
<1>4. f \in Cell /\ heap[f] = Garbage
  BY FreeCell
<1>5. f \notin Live \ {None} /\ f # None
  BY <1>4, GarbageAssumption, StorageAssumption DEF StorageInv, Allocated, None
<1>6. Live' \subseteq Live \cup {f, None}
  BY DEF Live
<1>7. \A c \in Live' \ {None} : c \in Cell /\ h[c] \in Model
  BY <1>3, <1>4, <1>6 DEF StorageInv, Allocated
<1>8. Store(h)
  OBVIOUS
<1> HIDE DEF h
<1>9. heap' \in Heap /\ Allocated' /\ \A c \in Live' \ {None} : heap'[c] = h[c]
  BY <1>3, <1>7, <1>8, Stored
<1>10. StorageTypeOK'
  BY <1>4, <1>5, <1>9 DEF StorageInv, StorageTypeOK, Heap
<1>11. Apart' /\ ModulesFollow'
  BY StorageAssumption DEF StorageInv, StorageTypeOK, Apart, ModulesFollow, Part
<1>12. Untouched
  <2> SUFFICES ASSUME playground # None PROVE heap'[playground] = heap[playground]
    BY DEF Untouched
  <2>1. playground \in Live' \ {None} /\ playground \in Live \ {None}
    BY DEF Live
  <2>2. playground \in Cell \ {f}
    BY <2>1, <1>5 DEF StorageInv, Allocated
  <2> QED
    BY <2>1, <2>2, <1>3, <1>9
<1> QED
  BY <1>9, <1>10, <1>11, <1>12 DEF StorageInv

\* set_selected_disks.
LEMMA SelectKeeps ==
  ASSUME StorageInv, NEW disks \in Selection, Select(disks)
  PROVE  StorageInv' /\ Untouched
<1> USE DEF Select, SelectDisks, models
<1>1. StorageTypeOK'
  BY DEF StorageInv, StorageTypeOK
<1>2. Allocated' /\ Apart' /\ ModulesFollow'
  BY DEF StorageInv, Allocated, Live, Apart, ModulesFollow, None
<1> QED
  BY <1>1, <1>2 DEF StorageInv, Untouched

\* create_partitioning.
LEMMA CreateKeeps ==
  ASSUME StorageInv, NEW disks \in Selection, CreatePartitioning(disks)
  PROVE  StorageInv' /\ Untouched /\ created' = created + 1
<1> DEFINE m == [heap[current] EXCEPT !.disks = disks]
           h == New(heap, m)
           f == Free(heap)
<1> USE DEF CreatePartitioning, SelectDisks, ModelForNew
<1>1. heap[current] \in Model /\ current \in Cell /\ current # None
  BY StorageAssumption DEF StorageInv, StorageTypeOK, Allocated, Live, None
<1>2. m \in Model
  BY <1>1 DEF Model
<1>3. heap \in Heap
  BY DEF StorageInv, StorageTypeOK, Heap
<1> HIDE DEF m
<1>4. /\ h \in Heap /\ h[f] \in Model
      /\ \A c \in Cell \ {f} : h[c] = heap[c]
  BY <1>2, <1>3, NewModel
<1>5. f \in Cell /\ heap[f] = Garbage
  BY FreeCell
<1>6. f \notin Live \ {None} /\ f # None
  BY <1>5, GarbageAssumption, StorageAssumption DEF StorageInv, Allocated, None
<1>7. Live' \subseteq Live \cup {f, None}
  BY DEF Live
<1>8. \A c \in Live' \ {None} : c \in Cell /\ h[c] \in Model
  BY <1>4, <1>5, <1>7 DEF StorageInv, Allocated
<1>9. Store(h)
  BY DEF m
<1> HIDE DEF h
<1>10. heap' \in Heap /\ Allocated' /\ \A c \in Live' \ {None} : heap'[c] = h[c]
  BY <1>4, <1>8, <1>9, Stored
<1>11. created + 1 \in Part /\ created + 1 \in 0 .. MaxParts /\ created \in 0 .. MaxParts
  BY StorageAssumption DEF StorageInv, StorageTypeOK, Part
<1>12. StorageTypeOK'
  <2>1. /\ base' \in [Part -> Cell \cup {None}] /\ own' \in [Part -> Cell \cup {None}]
        /\ disksOf' \in [Part -> Selection]
    BY <1>1, <1>5, <1>11 DEF StorageInv, StorageTypeOK
  <2>2. \A p \in Part : (base'[p] # None) <=> p <= created'
    BY <1>1, <1>11, StorageAssumption DEF StorageInv, StorageTypeOK, Part
  <2> QED
    BY <2>1, <2>2, <1>10, <1>11 DEF StorageInv, StorageTypeOK, Heap
<1>13. Apart'
  <2>1. playground # f
    BY <1>6 DEF Live
  <2>2. playground' = playground /\ obj' = obj
    OBVIOUS
  <2>3. \A p \in Part : own'[p] \in {own[p], f}
    BY <1>11 DEF StorageInv, StorageTypeOK
  <2> QED
    BY <2>1, <2>2, <2>3 DEF StorageInv, Apart
<1>14. ModulesFollow'
  BY <1>11 DEF StorageInv, StorageTypeOK, ModulesFollow, Part
<1>15. Untouched
  <2> SUFFICES ASSUME playground # None PROVE heap'[playground] = heap[playground]
    BY DEF Untouched
  <2>1. playground \in Live' \ {None} /\ playground \in Live \ {None}
    BY DEF Live
  <2>2. playground \in Cell \ {f}
    BY <2>1, <1>6 DEF StorageInv, Allocated
  <2> QED
    BY <2>1, <2>2, <1>4, <1>10
<1> QED
  BY <1>10, <1>12, <1>13, <1>14, <1>15 DEF StorageInv

\* The playground of a module is there once it was asked for.
LEMMA Accessible ==
  ASSUME StorageInv, NEW p \in 1 .. created, CanAccess(p)
  PROVE  /\ p \in Part /\ Playground(p) \in Cell
         /\ Accessed(p) \in Heap /\ Accessed(p)[Playground(p)] \in Model
         /\ Playground(p) # playground \/ playground = None
         /\ \A c \in Live \ {None} : Accessed(p)[c] = heap[c]
<1>1. p \in Part /\ heap \in Heap
  BY StorageAssumption DEF StorageInv, StorageTypeOK, Part, Heap
<1>2. CASE own[p] # None
  <2>1. own[p] \in Live \ {None}
    BY <1>1, <1>2 DEF Live
  <2> QED
    BY <1>1, <1>2, <2>1 DEF StorageInv, Allocated, Apart, Playground, Accessed
<1>3. CASE own[p] = None
  <2>1. HasFree(heap)
    BY <1>3 DEF CanAccess
  <2>2. base[p] \in Live \ {None}
    BY <1>1, StorageAssumption DEF StorageInv, StorageTypeOK, Part, Live
  <2>3. heap[base[p]] \in Model /\ disksOf[p] \in Selection
    BY <1>1, <2>2 DEF StorageInv, StorageTypeOK, Allocated
  <2>4. Prepared(p) \in Model
    BY <2>3 DEF Prepared, Model
  <2>5. /\ New(heap, Prepared(p)) \in Heap /\ New(heap, Prepared(p))[Free(heap)] = Prepared(p)
        /\ \A c \in Cell \ {Free(heap)} : New(heap, Prepared(p))[c] = heap[c]
    BY <1>1, <2>1, <2>4, NewModel
  <2>6. Free(heap) \in Cell /\ heap[Free(heap)] = Garbage
    BY <2>1, FreeCell
  <2>7. Free(heap) \notin Live \ {None} /\ Free(heap) # None
    BY <2>6, GarbageAssumption, StorageAssumption DEF StorageInv, Allocated, None
  <2>8. playground \in Live
    BY DEF Live
  <2>9. \A c \in Live \ {None} : c \in Cell
    BY DEF StorageInv, Allocated
  <2>10. Accessed(p) = New(heap, Prepared(p)) /\ Playground(p) = Free(heap)
    BY <1>3 DEF Accessed, Playground
  <2> QED
    BY <1>1, <2>4, <2>5, <2>6, <2>7, <2>8, <2>9, <2>10
<1> QED
  BY <1>2, <1>3

\* A playground is made, and perhaps handed to a task.
LEMMA AccessKeeps ==
  ASSUME StorageInv, NEW p \in 1 .. created, CanAccess(p), Access(p), Store(Accessed(p)),
         obj' \in {obj, None, Playground(p)},
         UNCHANGED <<current, playground, applied, created, base, selected, disksOf, scans>>
  PROVE  StorageInv' /\ Untouched
<1> DEFINE h == Accessed(p)
           c0 == Playground(p)
<1>1. /\ p \in Part /\ c0 \in Cell /\ h \in Heap /\ h[c0] \in Model
      /\ c0 # playground \/ playground = None
      /\ \A c \in Live \ {None} : h[c] = heap[c]
  BY Accessible
<1>2. Store(h) /\ obj' \in {obj, None, c0} /\ own' = [own EXCEPT ![p] = c0]
  BY DEF Access
<1> HIDE DEF h, c0
<1>3. Live' \subseteq Live \cup {c0, None}
  BY <1>2 DEF Live
<1>4. \A c \in Live' \ {None} : c \in Cell /\ h[c] \in Model
  BY <1>1, <1>3 DEF StorageInv, Allocated
<1>5. heap' \in Heap /\ Allocated' /\ \A c \in Live' \ {None} : heap'[c] = h[c]
  BY <1>1, <1>2, <1>4, Stored
<1>6. StorageTypeOK'
  BY <1>1, <1>2, <1>5 DEF StorageInv, StorageTypeOK, Heap
<1>7. Apart'
  <2>1. \A q \in Part : own'[q] \in {own[q], c0}
    BY <1>2 DEF StorageInv, StorageTypeOK
  <2> QED
    BY <1>1, <1>2, <2>1 DEF StorageInv, Apart
<1>8. ModulesFollow'
  BY DEF StorageInv, ModulesFollow, None
<1>9. Untouched
  BY <1>1, <1>5 DEF Untouched, Live
<1> QED
  BY <1>5, <1>6, <1>7, <1>8, <1>9 DEF StorageInv

\* apply_partitioning: the new copy is named by the service and, as their
\* current storage, by the modules, but is no playground of theirs.
LEMMA ApplyKeeps ==
  ASSUME StorageInv, NEW p \in 1 .. created, ApplyPartitioning(p)
  PROVE  StorageInv' /\ Untouched
<1> DEFINE a == Accessed(p)
           c0 == Playground(p)
           f == CopyOf(p)
           h == [a EXCEPT ![f] = a[c0]]
<1>1. /\ p \in Part /\ c0 \in Cell /\ a \in Heap /\ a[c0] \in Model
      /\ \A c \in Live \ {None} : a[c] = heap[c]
  BY Accessible DEF ApplyPartitioning
<1>2. f \in Cell /\ a[f] = Garbage
  BY FreeCell DEF ApplyPartitioning, CopyOf
<1>3. /\ playground' = f /\ applied' = p /\ obj' = None /\ own' = [own EXCEPT ![p] = c0]
      /\ base' = [q \in Part |-> IF q <= created THEN f ELSE base[q]]
      /\ UNCHANGED <<current, created, selected, disksOf, scans>>
      /\ Store(h)
  BY DEF ApplyPartitioning, Access, Tell
<1> HIDE DEF a, c0, f
<1>4. f # c0 /\ f # None /\ f \notin Live \ {None}
  BY <1>1, <1>2, GarbageAssumption, StorageAssumption DEF StorageInv, Allocated, None
<1>5. h \in Heap /\ h[f] \in Model /\ h[c0] \in Model /\ \A c \in Cell \ {f} : h[c] = a[c]
  BY <1>1, <1>2, <1>4 DEF Heap
<1> HIDE DEF h
<1>6. Live' \subseteq Live \cup {f, c0, None}
  BY <1>3 DEF Live
<1>7. \A c \in Live' \ {None} : c \in Cell /\ h[c] \in Model
  BY <1>1, <1>2, <1>5, <1>6 DEF StorageInv, Allocated
<1>8. heap' \in Heap /\ Allocated'
  BY <1>3, <1>5, <1>7, Stored
<1>9. StorageTypeOK'
  BY <1>1, <1>2, <1>3, <1>4, <1>8, StorageAssumption DEF StorageInv, StorageTypeOK, Heap, Part, None
<1>10. Apart'
  <2>1. \A q \in Part : own'[q] \in {own[q], c0}
    BY <1>3 DEF StorageInv, StorageTypeOK
  <2>2. \A q \in Part : own[q] \in Live
    BY DEF Live
  <2> QED
    BY <1>3, <1>4, <2>1, <2>2 DEF Apart
<1>11. ModulesFollow' /\ Untouched
  <2>1. playground \in Live
    BY DEF Live
  <2> QED
    BY <1>3, <1>4, <2>1 DEF ModulesFollow, Untouched
<1> QED
  BY <1>8, <1>9, <1>10, <1>11 DEF StorageInv

\* Nothing happens to the models.
LEMMA NothingKeeps ==
  ASSUME StorageInv, UNCHANGED <<heap, models, applied, created, selected, disksOf>>,
         scans' \in 0 .. MaxScans
  PROVE  StorageInv' /\ Untouched
<1> USE DEF models
<1>1. StorageTypeOK'
  BY DEF StorageInv, StorageTypeOK
<1>2. Allocated' /\ Apart' /\ ModulesFollow'
  BY DEF StorageInv, Allocated, Live, Apart, ModulesFollow, None
<1> QED
  BY <1>1, <1>2 DEF StorageInv, Untouched

-----------------------------------------------------------------------------
(* The steps.                                                              *)

\* The service starts with one scanned model that the first module builds on.
LEMMA InitInv == Init => IInv
<1> SUFFICES ASSUME Init PROVE IInv
  OBVIOUS
<1> USE StorageAssumption DEF Init, None, Part
<1>1. Scanned(0) \in Model
  BY DEF Scanned, Model
<1>2. heap \in [Cell -> Model \cup {Garbage}] /\ heap[1] \in Model
  BY <1>1
<1>3. StorageTypeOK
  BY <1>2 DEF StorageTypeOK
<1>4. TypeOK
  <2>1. scan \in [Scanner -> [at : {"idle", "scan", "scanned", "reset"}, number : 0 .. MaxScans]]
    OBVIOUS
  <2>2. /\ exec.at = "idle"
        /\ exec \in [at : {"idle", "configure", "configuring", "validate", "validating", "apply", "rescan"},
                    part : Part \cup {None}]
    OBVIOUS
  <2>3. auto \in Part /\ custom \in Part \cup {None} /\ auto <= created /\ custom <= created
    OBVIOUS
  <2>4. {errors, ready, crashed} \subseteq BOOLEAN /\ {picked, lastDisks} \subseteq Selection
    OBVIOUS
  <2>5. spoke = "hub" /\ method \in Method /\ obj = None
    BY DEF Method
  <2> HIDE DEF Init
  <2> QED
    BY <1>3, <2>1, <2>2, <2>3, <2>4, <2>5 DEF TypeOK
<1>5. Live \ {None} = {1}
  BY DEF Live
<1>6. Allocated /\ Apart /\ ModulesFollow
  BY <1>2, <1>5 DEF Allocated, Apart, ModulesFollow
<1> QED
  BY <1>3, <1>4, <1>6 DEF IInv, StorageInv, Busy, Scanner

\* apply_partitioning of ui/lib/storage.py.
LEMMA ExecutorKeeps ==
  ASSUME IInv, Executor
  PROVE  IInv' /\ Untouched
<1> USE DEF IInv, ScanIs, ExecIs, In
<1>1. /\ StorageInv /\ TypeOK /\ Busy
      /\ exec.at \in {"idle", "configure", "configuring", "validate", "validating", "apply", "rescan"}
      /\ exec.at # "idle" => exec.part \in 1 .. created
      /\ created \in 0 .. MaxParts
  BY DEF TypeOK, Busy, StorageInv, StorageTypeOK
<1>2. \A at \in {"idle", "configure", "configuring", "validate", "validating", "apply", "rescan"} :
        [exec EXCEPT !.at = at] =
            [at |-> at, part |-> exec.part]
  BY DEF TypeOK
<1>3. \A p \in 1 .. created : p \in Part
  BY <1>1, StorageAssumption DEF Part
<1>4. ASSUME NEW at \in {"idle", "configure", "configuring", "validate", "validating", "apply", "rescan"},
             exec' = [exec EXCEPT !.at = at],
             StorageInv', created' = created, ui' = ui,
             at \in {"configuring", "validating"} <=> obj' # None,
             errors' \in BOOLEAN, ready' = ready, crashed' \in BOOLEAN,
             exec.at \notin {"idle", "rescan"},
             \/ scan' = scan
             \/ at = "rescan" /\ scan' = [scan EXCEPT !["execute"].at = "scan"]
      PROVE  IInv'
  <2>1. exec' = [at |-> at, part |-> exec.part]
    BY <1>2, <1>4
  <2>2. exec'.at = at /\ exec'.part = exec.part
    BY <2>1
  <2>3. Busy'
    BY <1>1, <1>4, <2>2 DEF Busy, ui
  <2>4. scan' \in [Scanner -> [at : {"idle", "scan", "scanned", "reset"}, number : 0 .. MaxScans]]
    BY <1>4 DEF TypeOK, Scanner
  <2>5. TypeOK'
    BY <1>4, <2>1, <2>2, <2>4 DEF TypeOK, ui, StorageInv
  <2> QED
    BY <1>4, <2>3, <2>5
<1>5. ASSUME Configured, NEW ok \in BOOLEAN
      PROVE  Good(Changed(obj, exec.part, ok)) /\ created' = created /\ obj' = None
  <2>1. exec.part \in Part /\ obj # None /\ obj \in Live \ {None}
    BY <1>1, <1>3, <1>5 DEF Configured, TypeOK, Live
  <2>2. obj # playground
    BY <2>1 DEF StorageInv, Apart
  <2> QED
    BY <2>1, <2>2, <1>5, GoodChange DEF Configured
<1>6. ASSUME exec.part \in 1 .. created, Hold(exec.part)
      PROVE  StorageInv' /\ Untouched /\ created' = created /\ obj' # None
  <2>1. Playground(exec.part) \in Cell
    BY <1>6, Accessible DEF Hold
  <2> QED
    BY <1>1, <1>6, <2>1, AccessKeeps, StorageAssumption DEF Hold, None
<1>10. CASE ConfigureWithTask
  <2>1. StorageInv' /\ Untouched /\ created' = created /\ obj' # None
    BY <1>1, <1>6, <1>10 DEF ConfigureWithTask
  <2> QED
    BY <2>1, <1>4, <1>10 DEF ConfigureWithTask, Go, TypeOK
<1>11. CASE ValidateWithTask
  <2>1. StorageInv' /\ Untouched /\ created' = created /\ obj' # None
    BY <1>1, <1>6, <1>11 DEF ValidateWithTask
  <2> QED
    BY <2>1, <1>4, <1>11 DEF ValidateWithTask, Go, TypeOK
<1>12. CASE Validate
  <2>1. StorageInv' /\ Untouched
    BY <1>1, <1>12, GoodHeap, WriteKeeps DEF Validate
  <2>2. CASE heap[obj].valid
    BY <2>1, <2>2, <1>4, <1>12 DEF Validate, Go, TypeOK
  <2>3. CASE ~ heap[obj].valid
    BY <2>1, <2>3, <1>4, <1>12 DEF Validate, Finish, Report, TypeOK
  <2> QED
    BY <2>2, <2>3
<1>13. CASE Apply
  <2>1. StorageInv' /\ Untouched
    BY <1>1, <1>13, ApplyKeeps DEF Apply
  <2>2. created' = created /\ obj' = None
    BY <1>13 DEF Apply, ApplyPartitioning
  <2> QED
    BY <2>1, <2>2, <1>4, <1>13 DEF Apply, Finish, Report, TypeOK
<1>14. CASE ApplyRaises
  <2>1. StorageInv' /\ Untouched
    BY <1>1, <1>14, AccessKeeps DEF ApplyRaises, RefusePartitioning
  <2>2. created' = created /\ obj' = None
    BY <1>14 DEF ApplyRaises, RefusePartitioning
  <2>3. exec' = [exec EXCEPT !.at = "apply"]
    BY <1>14 DEF ApplyRaises, TypeOK
  <2> QED
    BY <2>1, <2>2, <2>3, <1>4, <1>14 DEF ApplyRaises, TypeOK
<1>15. ASSUME NEW ok \in BOOLEAN, Configure(ok)
       PROVE  IInv' /\ Untouched
  <2>1. Good(Changed(obj, exec.part, ok)) /\ created' = created /\ obj' = None
    BY <1>5, <1>15 DEF Configure
  <2>2. StorageInv' /\ Untouched
    BY <1>1, <1>15, <2>1, WriteKeeps DEF Configure, Configured
  <2> QED
    BY <2>1, <2>2, <1>4, <1>15 DEF Configure, Configured, Go, TypeOK
<1>16. ASSUME NEW ok \in BOOLEAN, BootloaderError(ok)
       PROVE  IInv' /\ Untouched
  <2>1. Good(Changed(obj, exec.part, ok)) /\ created' = created /\ obj' = None
    BY <1>5, <1>16 DEF BootloaderError
  <2>2. StorageInv' /\ Untouched
    BY <1>1, <1>16, <2>1, WriteKeeps DEF BootloaderError, Configured
  <2> QED
    BY <2>1, <2>2, <1>4, <1>16 DEF BootloaderError, Configured, Finish, Report, TypeOK
<1>17. ASSUME NEW ok \in BOOLEAN, StorageError(ok)
       PROVE  IInv' /\ Untouched
  <2>1. Good(Changed(obj, exec.part, ok)) /\ created' = created /\ obj' = None
    BY <1>5, <1>17 DEF StorageError
  <2>2. CASE InCustomSpoke
    <3>1. StorageInv' /\ Untouched
      BY <1>1, <1>17, <2>1, <2>2, ResetKeeps DEF StorageError, Configured
    <3> QED
      BY <2>1, <2>2, <3>1, <1>4, <1>17 DEF StorageError, Configured, Finish, Report, TypeOK
  <2>3. CASE ~ InCustomSpoke
    <3>1. StorageInv' /\ Untouched
      BY <1>1, <1>17, <2>1, <2>3, WriteKeeps DEF StorageError, Configured
    <3> QED
      BY <2>1, <2>3, <3>1, <1>4, <1>17 DEF StorageError, Configured, Go, ScanAt, TypeOK
  <2> QED
    BY <2>2, <2>3
<1> QED
  BY <1>10, <1>11, <1>12, <1>13, <1>14, <1>15, <1>16, <1>17 DEF Executor

\* reset_storage, in either thread.
LEMMA ScannersKeep ==
  ASSUME IInv, NEW t \in Scanner, Scan(t) \/ GiveUp(t) \/ Succeed(t) \/ Reset(t)
  PROVE  IInv' /\ Untouched
<1> DEFINE S == [at : {"idle", "scan", "scanned", "reset"}, number : 0 .. MaxScans]
<1> USE DEF IInv, ScanIs, ExecIs, In
<1>1. StorageInv /\ TypeOK /\ Busy /\ scan \in [Scanner -> S] /\ scans \in 0 .. MaxScans
  BY DEF TypeOK, StorageInv, StorageTypeOK
<1>2. scan[t] \in S /\ scan[t].number \in 0 .. MaxScans /\ 0 \in 0 .. MaxScans
  BY <1>1, StorageAssumption
<1>3. scan'["execute"].at # "idle" => scan["execute"].at # "idle"
  BY <1>1 DEF Scan, GiveUp, Succeed, Reset, ScanAt, Scanner
<1>4. CASE Scan(t)
  <2>1. scans' \in 0 .. MaxScans
    BY <1>1, <1>4, StorageAssumption DEF Scan
  <2>2. StorageInv' /\ Untouched
    BY <1>1, <1>4, <2>1, NothingKeeps DEF Scan
  <2>3. scan' \in [Scanner -> S]
    BY <1>1, <1>4, <2>1 DEF Scan
  <2>4. TypeOK' /\ Busy'
    BY <1>1, <1>4, <1>3, <2>2, <2>3 DEF Scan, models, ui, StorageInv, TypeOK, Busy
  <2> QED
    BY <2>2, <2>4
<1>5. CASE GiveUp(t)
  <2>1. StorageInv' /\ Untouched
    BY <1>1, <1>5, NothingKeeps DEF GiveUp, storageVars
  <2>2. TypeOK' /\ Busy'
    BY <1>1, <1>5, <2>1 DEF GiveUp, storageVars, models, ui, StorageInv, TypeOK, Busy
  <2> QED
    BY <2>1, <2>2
<1>6. CASE Succeed(t)
  <2>1. StorageInv' /\ Untouched
    BY <1>1, <1>2, <1>6, SetStorageKeeps DEF Succeed
  <2>2. scan' \in [Scanner -> S]
    BY <1>1, <1>2, <1>6 DEF Succeed, ScanAt
  <2>3. created' = created /\ obj' = obj
    BY <1>6 DEF Succeed, SetStorage
  <2>4. TypeOK' /\ Busy'
    BY <1>1, <1>6, <1>3, <2>1, <2>2, <2>3 DEF Succeed, ui, StorageInv, TypeOK, Busy
  <2> QED
    BY <2>1, <2>4
<1>7. CASE Reset(t)
  <2>1. StorageInv' /\ Untouched
    BY <1>1, <1>7, GoodHeap, ResetKeeps DEF Reset
  <2>2. scan' \in [Scanner -> S]
    BY <1>1, <1>2, <1>7 DEF Reset
  <2>3. created' = created /\ obj' = obj
    BY <1>7 DEF Reset, ResetPartitioning
  <2>4. errors' \in BOOLEAN /\ ready' \in BOOLEAN /\ crashed' \in BOOLEAN
    BY <1>1, <1>7 DEF Reset, TypeOK
  <2>5. CASE t = "storage"
    BY <1>1, <1>3, <1>7, <2>1, <2>2, <2>3, <2>4, <2>5 DEF Reset, ui, StorageInv, TypeOK, Busy
  <2>6. CASE t = "execute"
    <3>1. exec.at = "rescan" /\ obj = None
      BY <1>1, <1>7, <2>6 DEF Reset, Busy, TypeOK
    <3>2. scan'["execute"].at = "idle"
      BY <1>1, <1>7, <2>6 DEF Reset
    <3>3. exec' = [at |-> "idle", part |-> exec.part] /\ exec.part \in Part \cup {None}
      BY <1>1, <1>7, <2>6 DEF Reset, TypeOK
    <3>4. TypeOK'
      BY <1>1, <1>7, <2>1, <2>2, <2>3, <2>4, <3>1, <3>3 DEF Reset, ui, StorageInv, TypeOK
    <3>5. Busy'
      BY <1>1, <1>7, <2>3, <3>2, <3>3 DEF Reset, ui, Busy
    <3> QED
      BY <2>1, <3>4, <3>5
  <2> QED
    BY <2>5, <2>6 DEF Scanner
<1> QED
  BY <1>4, <1>5, <1>6, <1>7

\* The spokes.
LEMMA UserKeeps ==
  ASSUME IInv, User
  PROVE  IInv' /\ Untouched
<1> DEFINE S == [at : {"idle", "scan", "scanned", "reset"}, number : 0 .. MaxScans]
           E == [at : {"idle", "configure", "configuring", "validate", "validating", "apply", "rescan"},
                 part : Part \cup {None}]
<1> USE DEF IInv, ScanIs, ExecIs, In
<1>1. /\ StorageInv /\ TypeOK /\ Busy
      /\ scan \in [Scanner -> S] /\ exec \in E
      /\ scans \in 0 .. MaxScans /\ created \in 0 .. MaxParts /\ auto \in 1 .. created
  BY StorageAssumption DEF TypeOK, StorageInv, StorageTypeOK, Part
<1>2. ASSUME NEW p \in 1 .. created', created' \in 0 .. MaxParts, Execute(p)
      PROVE  exec' \in E /\ exec'.at = "configure" /\ exec'.part = p
  BY <1>2, StorageAssumption DEF Execute, Part
<1>3. ASSUME ScanAt("storage", "scan")
      PROVE  scan' \in [Scanner -> S] /\ scan'["execute"] = scan["execute"]
  BY <1>1, <1>3 DEF ScanAt, Scanner
<1>4. ASSUME NEW disks \in Selection, Select(disks)
      PROVE  StorageInv' /\ Untouched /\ created' = created /\ obj' = obj
  BY <1>1, <1>4, SelectKeeps DEF Select, models
<1>5. ASSUME UNCHANGED storageVars
      PROVE  StorageInv' /\ Untouched /\ created' = created /\ obj' = obj
  BY <1>1, <1>5, NothingKeeps DEF storageVars, models
<1>6. ASSUME NEW disks \in Selection, CreatePartitioning(disks)
      PROVE  StorageInv' /\ Untouched /\ created' = created + 1 /\ obj' = obj
             /\ created' \in 0 .. MaxParts /\ created' \in Part
  BY <1>1, <1>6, CreateKeeps, StorageAssumption DEF CreatePartitioning, StorageInv, StorageTypeOK, Part
\* The client's part of a step that leaves its task alone.
<1>7. ASSUME StorageInv', created <= created', obj' = obj,
             scan' \in [Scanner -> S],
             scan'["execute"].at # "idle" => scan["execute"].at # "idle" /\ exec' = exec,
             exec' \in E,
             exec' = exec \/ (exec.at = "idle" /\ exec'.at = "configure" /\ exec'.part \in 1 .. created'),
             spoke' \in {"hub", "storage", "refresh", "leaving", "format", "plan", "custom", "rescan", "checking"},
             spoke' \notin {"hub", "checking"} => exec'.at = "idle",
             {picked', lastDisks'} \subseteq Selection, method' \in Method,
             auto' \in Part, auto' <= created', custom' \in Part \cup {None}, custom' <= created',
             spoke' \in {"custom", "rescan", "checking"} => custom' # None,
             {errors', ready', crashed'} \subseteq BOOLEAN,
             ready' \/ (~ ready /\ UNCHANGED <<spoke, exec>>)
      PROVE  IInv'
  <2>1. created' \in 0 .. MaxParts
    BY <1>7 DEF StorageInv, StorageTypeOK
  <2>2. exec'.at \in {"configuring", "validating"} <=> obj' # None
    BY <1>1, <1>7 DEF TypeOK
  <2>3. TypeOK'
    BY <1>7, <2>2 DEF TypeOK, StorageInv
  <2>4. exec'.at # "idle" => exec'.part \in 1 .. created'
    BY <1>1, <1>7, <2>1 DEF Busy
  <2>5. scan'["execute"].at # "idle" => exec'.at = "rescan"
    BY <1>1, <1>7 DEF Busy
  <2>6. ~ ready' => spoke' = "hub" /\ exec'.at = "idle"
    BY <1>1, <1>7 DEF Busy
  <2>7. Busy'
    BY <1>7, <2>4, <2>5, <2>6 DEF Busy
  <2> QED
    BY <1>7, <2>3, <2>7
<1>10. CASE EnterStorage
  <2>1. StorageInv' /\ Untouched /\ created' = created /\ obj' = obj
    BY <1>5, <1>10 DEF EnterStorage
  <2> QED
    BY <1>1, <1>7, <1>10, <2>1 DEF EnterStorage, Ready, NoThreads, TypeOK, Busy
<1>11. CASE NothingToFormat
  <2>1. StorageInv' /\ Untouched /\ created' = created /\ obj' = obj
    BY <1>5, <1>11 DEF NothingToFormat
  <2> QED
    BY <1>1, <1>7, <1>11, <2>1 DEF NothingToFormat, TypeOK, Busy
<1>12. CASE Refreshed
  <2>1. StorageInv' /\ Untouched /\ created' = created /\ obj' = obj
    BY <1>5, <1>12 DEF Refreshed
  <2> QED
    BY <1>1, <1>7, <1>12, <2>1 DEF Refreshed, TypeOK, Busy
<1>13. CASE LeaveCustom
  <2>1. StorageInv' /\ Untouched /\ created' = created /\ obj' = obj
    BY <1>5, <1>13 DEF LeaveCustom
  <2> QED
    BY <1>1, <1>7, <1>13, <2>1 DEF LeaveCustom, TypeOK, Busy
<1>14. CASE Check
  <2>1. StorageInv' /\ Untouched /\ created' = created /\ obj' = obj
    BY <1>5, <1>14 DEF Check
  <2>2. custom \in 1 .. created' /\ created' \in 0 .. MaxParts
    BY <1>1, <1>14, <2>1, StorageAssumption DEF Check, Busy, TypeOK, Part, None
  <2>3. exec' \in E /\ exec'.at = "configure" /\ exec'.part = custom
    BY <1>2, <1>14, <2>2 DEF Check
  <2> QED
    BY <1>1, <1>7, <1>14, <2>1, <2>2, <2>3 DEF Check, TypeOK, Busy
<1>15. CASE Rescan
  <2>1. StorageInv' /\ Untouched /\ created' = created /\ obj' = obj
    BY <1>5, <1>15 DEF Rescan
  <2>2. scan' \in [Scanner -> S] /\ scan'["execute"] = scan["execute"]
    BY <1>3, <1>15 DEF Rescan
  <2> QED
    BY <1>1, <1>7, <1>15, <2>1, <2>2 DEF Rescan, InSpoke, TypeOK, Busy
<1>16. CASE EndRescan
  <2>1. StorageInv' /\ Untouched /\ created' = created /\ obj' = obj
    BY <1>5, <1>16 DEF EndRescan
  <2> QED
    BY <1>1, <1>7, <1>16, <2>1 DEF EndRescan, TypeOK, Busy
<1>17. CASE FormatDisks
  <2>1. StorageInv' /\ Untouched /\ created' = created /\ obj' = obj
    BY <1>1, <1>4, <1>17 DEF FormatDisks, TypeOK
  <2>2. scan' \in [Scanner -> S] /\ scan'["execute"] = scan["execute"]
    BY <1>3, <1>17 DEF FormatDisks
  <2> QED
    BY <1>1, <1>7, <1>17, <2>1, <2>2 DEF FormatDisks, TypeOK, Busy
<1>18. CASE BackOut
  <2>1. StorageInv' /\ Untouched /\ created' = created /\ obj' = obj
    BY <1>1, <1>4, <1>18, StorageAssumption DEF BackOut, TypeOK
  <2>2. exec.at = "idle"
    BY <1>1, <1>18 DEF BackOut, Busy
  <2>3. exec' = exec \/ (exec' \in E /\ exec'.at = "configure" /\ exec'.part = auto)
    BY <1>1, <1>2, <1>18, <2>1 DEF BackOut
  <2> QED
    BY <1>1, <1>7, <1>18, <2>1, <2>2, <2>3 DEF BackOut, TypeOK, Busy
<1>19. CASE ReturnToHub
  <2>1. StorageInv' /\ Untouched /\ created' = created /\ obj' = obj
    BY <1>1, <1>4, <1>19, StorageAssumption DEF ReturnToHub, TypeOK
  <2>2. exec.at = "idle"
    BY <1>1, <1>19 DEF ReturnToHub, Busy
  <2>3. exec' = exec \/ (exec' \in E /\ exec'.at = "configure" /\ exec'.part = auto)
    BY <1>1, <1>2, <1>19, <2>1 DEF ReturnToHub
  <2> QED
    BY <1>1, <1>7, <1>19, <2>1, <2>2, <2>3 DEF ReturnToHub, TypeOK, Busy
<1>20. CASE EnterCustom
  <2>1. CASE custom = None
    <3>1. CreatePartitioning(picked) /\ custom' = created + 1
      BY <1>20, <2>1 DEF EnterCustom
    <3>2. StorageInv' /\ Untouched /\ created' = created + 1 /\ obj' = obj
          /\ created' \in 0 .. MaxParts /\ created' \in Part
      BY <1>1, <1>6, <3>1 DEF TypeOK
    <3>3. custom' # None /\ auto <= created' /\ created <= created'
      BY <1>1, <3>1, <3>2 DEF None
    <3> QED
      BY <1>1, <1>7, <1>20, <3>1, <3>2, <3>3 DEF EnterCustom, NoThreads, TypeOK, Busy
  <2>2. CASE custom # None
    <3>1. Select(picked) /\ custom' = custom
      BY <1>20, <2>2 DEF EnterCustom
    <3>2. StorageInv' /\ Untouched /\ created' = created /\ obj' = obj
      BY <1>1, <1>4, <3>1 DEF TypeOK
    <3> QED
      BY <1>1, <1>7, <1>20, <2>2, <3>1, <3>2 DEF EnterCustom, NoThreads, TypeOK, Busy
  <2> QED
    BY <2>1, <2>2
<1>21. CASE Show
  <2>1. custom \in 1 .. created
    BY <1>1, <1>21, StorageAssumption DEF Show, InSpoke, Busy, TypeOK, Part, None
  <2>2. StorageInv' /\ Untouched
    BY <1>1, <1>21, <2>1, AccessKeeps DEF Show, CanAccess
  <2> QED
    BY <1>1, <1>7, <1>21, <2>2 DEF Show, clientVars, ui, TypeOK, Busy
<1>22. CASE ResetCustom
  <2>1. StorageInv' /\ Untouched
    BY <1>1, <1>22, GoodHeap, ResetKeeps DEF ResetCustom
  <2>2. created' = created
    BY <1>22 DEF ResetCustom, ResetPartitioning
  <2> QED
    BY <1>1, <1>7, <1>22, <2>1, <2>2 DEF ResetCustom, InSpoke, TypeOK, Busy
<1>23. ASSUME NEW disks \in Selection, Initialize(disks)
      PROVE  IInv' /\ Untouched
  <2>1. StorageInv' /\ Untouched /\ created' = created /\ obj' = obj
    BY <1>4, <1>23 DEF Initialize
  <2>2. exec.at = "idle" /\ spoke = "hub" /\ scan["execute"].at = "idle"
    BY <1>1, <1>23 DEF Initialize, Busy
  <2>3. exec' = exec \/ (exec' \in E /\ exec'.at = "configure" /\ exec'.part = auto)
    BY <1>1, <1>2, <1>23, <2>1 DEF Initialize, Execute
  <2> QED
    BY <1>1, <1>7, <1>23, <2>1, <2>2, <2>3 DEF Initialize, ui, TypeOK, Busy
<1>24. ASSUME NEW disks \in Selection, Specialize(disks)
      PROVE  IInv' /\ Untouched
  <2>1. StorageInv' /\ Untouched /\ created' = created /\ obj' = obj
    BY <1>4, <1>24 DEF Specialize
  <2> QED
    BY <1>1, <1>7, <1>24, <2>1 DEF Specialize, clientVars, ui, TypeOK, Busy
<1>25. ASSUME NEW disks \in Selection, RefreshDisks(disks)
      PROVE  IInv' /\ Untouched
  <2>1. StorageInv' /\ Untouched /\ created' = created /\ obj' = obj
    BY <1>5, <1>25 DEF RefreshDisks
  <2>2. scan' \in [Scanner -> S] /\ scan'["execute"] = scan["execute"]
    BY <1>3, <1>25 DEF RefreshDisks
  <2> QED
    BY <1>1, <1>7, <1>25, <2>1, <2>2 DEF RefreshDisks, TypeOK, Busy
<1>26. ASSUME NEW disks \in Selection, NEW m \in Method, Done(disks, m)
      PROVE  IInv' /\ Untouched
  <2>1. StorageInv' /\ Untouched
    <3>1. CASE ResetPartitioning
      BY <1>1, <1>26, <3>1, GoodHeap, ResetKeeps DEF Done
    <3>2. CASE UNCHANGED <<current, playground, applied, created, base, own, scans>>
      BY <1>1, <1>26, <3>2, GoodHeap, WriteKeeps DEF Done
    <3> QED
      BY <1>26, <3>1, <3>2 DEF Done
  <2>2. created' = created
    BY <1>26 DEF Done, ResetPartitioning
  <2> QED
    BY <1>1, <1>7, <1>26, <2>1, <2>2 DEF Done, TypeOK, Busy
<1>27. ASSUME NEW ok \in BOOLEAN, Edit(ok)
      PROVE  IInv' /\ Untouched
  <2>1. custom \in Part /\ own[custom] \in Live \ {None}
    BY <1>1, <1>27 DEF Edit, InSpoke, Busy, TypeOK, Live
  <2>2. own[custom] # playground
    BY <1>1, <2>1 DEF StorageInv, Apart
  <2>3. Good(Changed(own[custom], custom, ok))
    BY <1>1, <1>27, <2>1, <2>2, GoodChange DEF Edit
  <2>4. StorageInv' /\ Untouched
    BY <1>1, <1>27, <2>3, WriteKeeps DEF Edit, models
  <2>5. created' = created /\ obj' = obj
    BY <1>27 DEF Edit, models
  <2> QED
    BY <1>1, <1>7, <1>27, <2>4, <2>5 DEF Edit, InSpoke, TypeOK, Busy
<1>28. ASSUME NEW ok \in BOOLEAN, PlanAutomatic(ok)
      PROVE  IInv' /\ Untouched
  <2>1. StorageInv' /\ Untouched /\ created' = created + 1 /\ obj' = obj
        /\ created' \in 0 .. MaxParts /\ created' \in Part
    BY <1>1, <1>6, <1>28 DEF PlanAutomatic, TypeOK
  <2>2. exec.at = "idle"
    BY <1>1, <1>28 DEF PlanAutomatic, Busy
  <2>3. custom <= created' /\ created <= created' /\ created' \in 1 .. created'
    BY <1>1, <2>1, StorageAssumption DEF TypeOK, Part, None
  <2>4. exec' = exec \/ (exec' \in E /\ exec'.at = "configure" /\ exec'.part = created')
    BY <1>2, <1>28, <2>1, <2>3 DEF PlanAutomatic
  <2> QED
    BY <1>1, <1>7, <1>28, <2>1, <2>2, <2>3, <2>4 DEF PlanAutomatic, TypeOK, Busy
<1> QED
  BY <1>10, <1>11, <1>12, <1>13, <1>14, <1>15, <1>16, <1>17, <1>18, <1>19, <1>20, <1>21, <1>22, <1>23, <1>24, <1>25, <1>26, <1>27, <1>28 DEF User

\* Every step of the program keeps the inductive invariant, and the layout
\* that is applied before and after it.
LEMMA StepKeeps == IInv /\ [Next]_vars => IInv' /\ Untouched
<1> SUFFICES ASSUME IInv, [Next]_vars PROVE IInv' /\ Untouched
  OBVIOUS
<1>1. CASE Executor
  BY <1>1, ExecutorKeeps
<1>2. CASE User
  BY <1>2, UserKeeps
<1>3. CASE \E t \in Scanner : Scan(t) \/ GiveUp(t) \/ Succeed(t) \/ Reset(t)
  BY <1>3, ScannersKeep
<1>4. CASE UNCHANGED vars
  BY <1>4 DEF vars, storageVars, models, clientVars, ui, IInv, TypeOK, Busy, StorageInv,
              StorageTypeOK, Allocated, Apart, ModulesFollow, Live, Untouched
<1> QED
  BY <1>1, <1>2, <1>3, <1>4 DEF Next

\* The inductive invariant holds: no variable names a model that is gone, the
\* applied layout is nobody else's, and whoever works has a module.
THEOREM StorageInvariant == Spec => []IInv
<1>1. Init => IInv
  BY InitInv
<1>2. IInv /\ [Next]_vars => IInv'
  BY StepKeeps
<1> QED
  BY <1>1, <1>2, PTL DEF Spec

-----------------------------------------------------------------------------
(* The results.                                                            *)

\* Every variable of the service and of its clients keeps its type: the
\* service has an applied partitioning exactly when it has the playground
\* that was copied from it (storage.py _set_storage_playground), a
\* partitioning module has a storage from the moment it is created, and a
\* task holds a model exactly while apply_partitioning waits for it.
THEOREM StorageTypeCorrect == Spec => []TypeOK
<1>1. IInv => TypeOK
  BY DEF IInv
<1> QED
  BY <1>1, StorageInvariant, PTL

\* While nothing is applied, every partitioning module that was created
\* builds on the storage that the service has scanned last, in any order of
\* scans, resets, applications and new modules (storage_changed.emit).
THEOREM ModulesFollowTheStorage == Spec => []ModulesFollow
<1>1. IInv => ModulesFollow
  BY DEF IInv, StorageInv
<1> QED
  BY <1>1, StorageInvariant, PTL

\* The layout that will be installed is a copy that nobody works on: no edit
\* in a spoke, no configuration task, and nobody who was handed it as a
\* current storage changes it until it is replaced or dropped.
THEOREM AppliedStaysAsValidated == Spec => AppliedIsNotEdited
<1>1. IInv /\ [Next]_vars =>
        [(playground # None /\ playground' = playground) =>
            heap'[playground] = heap[playground]]_vars
  BY StepKeeps DEF Untouched
<1> QED
  BY <1>1, StorageInvariant, PTL DEF Spec, AppliedIsNotEdited

-----------------------------------------------------------------------------
(* Whose turn it is.                                                       *)

\* No layout anywhere: as reset_partitioning leaves the service.
Quiet == playground = None /\ \A p \in Part : own[p] = None

\* The module of the method that the user chose.
Chosen == IF method = "automatic" THEN auto ELSE custom

\* Who may reach the service, and when: apply_partitioning works on the
\* module of the chosen method, in the custom spoke if that is the custom
\* one; that module has its playground as long as anything is applied; the
\* spoke is entered, and left behind a dialog, only when no scan runs, or
\* when the scan that was started has emptied the service.  Before the spoke
\* is ready there is only the automatic method, and nothing to install.
Turn ==
    /\ exec.at # "idle" =>
            exec.part = Chosen /\ (method = "automatic" \/ spoke = "checking")
    /\ spoke \in {"custom", "checking", "rescan"} => method = "interactive"
    /\ playground # None => Chosen # None /\ own[Chosen] # None
    /\ auto # custom
    /\ ~ ready => Quiet /\ method = "automatic"
    /\ spoke \in {"storage", "leaving", "plan", "custom", "checking"} =>
            scan["storage"].at = "idle"
    /\ (spoke \in {"refresh", "format", "rescan"} /\ scan["storage"].at = "idle") => Quiet

\* Nobody has a layout in the beginning.
LEMMA InitTurn == Init => Turn
  BY StorageAssumption DEF Init, Turn, Quiet, Chosen, None, Scanner, Part

\* What apply_partitioning does to whose turn it is.
LEMMA ExecutorTurns ==
  ASSUME IInv, Turn, Executor
  PROVE  Turn'
<1> USE DEF ExecIs
<1>1. /\ exec.at \notin {"idle", "rescan"} /\ exec.part = Chosen /\ exec.part \in 1 .. created
      /\ exec.part \in Part /\ own \in [Part -> Cell \cup {None}]
      /\ method = "automatic" \/ spoke = "checking"
      /\ ready /\ spoke \in {"hub", "checking"}
  <2>1. exec.at \notin {"idle", "rescan"}
    BY DEF Executor, ConfigureWithTask, ValidateWithTask, Validate, Apply, ApplyRaises, Configure,
           BootloaderError, StorageError, Configured
  <2> QED
    BY <2>1, StorageAssumption DEF IInv, TypeOK, StorageInv, StorageTypeOK, Busy, Turn, Part
<1>2. ASSUME playground' # None => own'[Chosen] # None,
             exec' = exec \/ \E at \in {"idle", "configuring", "validate", "validating", "apply", "rescan"} :
                                exec' = [exec EXCEPT !.at = at],
             scan'["storage"] = scan["storage"],
             UNCHANGED <<ui, ready>>
      PROVE  Turn'
  <2>1. exec'.part = exec.part /\ Chosen' = Chosen /\ Chosen # None
    BY <1>1, <1>2 DEF IInv, TypeOK, ui, Chosen, None
  <2> QED
    BY <1>1, <1>2, <2>1 DEF Turn, ui
<1>3. playground # None => own[Chosen] # None
  BY DEF Turn
<1>4. ASSUME Access(exec.part), CanAccess(exec.part)
      PROVE  own'[Chosen] # None
  BY <1>1, <1>4, Accessible, StorageAssumption DEF Access, IInv, None
<1>10. CASE ConfigureWithTask
  BY <1>2, <1>4, <1>10 DEF ConfigureWithTask, Hold, Go
<1>11. CASE ValidateWithTask
  BY <1>2, <1>4, <1>11 DEF ValidateWithTask, Hold, Go
<1>12. CASE Validate
  BY <1>2, <1>3, <1>12 DEF Validate, Go, Finish
<1>13. CASE Apply
  BY <1>2, <1>4, <1>13 DEF Apply, ApplyPartitioning, Finish
<1>14. CASE ApplyRaises
  BY <1>2, <1>4, <1>14 DEF ApplyRaises, RefusePartitioning
<1>15. ASSUME NEW ok \in BOOLEAN, Configure(ok) \/ BootloaderError(ok)
       PROVE  Turn'
  BY <1>2, <1>3, <1>15 DEF Configure, BootloaderError, Configured, Go, Finish
<1>16. ASSUME NEW ok \in BOOLEAN, StorageError(ok)
       PROVE  Turn'
  <2>1. scan'["storage"] = scan["storage"]
    BY <1>16 DEF StorageError, ScanAt, IInv, TypeOK, Scanner
  <2> QED
    BY <1>2, <1>3, <1>16, <2>1 DEF StorageError, Configured, ResetPartitioning, Go, Finish
<1> QED
  BY <1>10, <1>11, <1>12, <1>13, <1>14, <1>15, <1>16 DEF Executor

\* What a scan does to it.
LEMMA ScannersTurn ==
  ASSUME IInv, Turn, NEW t \in Scanner, Scan(t) \/ GiveUp(t) \/ Succeed(t) \/ Reset(t)
  PROVE  Turn'
<1> USE DEF ScanIs
<1>1. /\ scan \in [Scanner -> [at : {"idle", "scan", "scanned", "reset"}, number : 0 .. MaxScans]]
      /\ scan[t].at # "idle"
  BY DEF IInv, TypeOK, Scan, GiveUp, Succeed, Reset
<1>2. CASE Scan(t)
  BY <1>1, <1>2 DEF Scan, Scanner, models, ui, Turn, Quiet, Chosen
<1>3. CASE GiveUp(t)
  BY <1>1, <1>3 DEF GiveUp, storageVars, models, ui, Turn, Quiet, Chosen
<1>4. CASE Succeed(t)
  BY <1>1, <1>4 DEF Succeed, SetStorage, ScanAt, Scanner, ui, Turn, Quiet, Chosen
<1>5. CASE Reset(t)
  <2>1. Quiet'
    BY <1>5 DEF Reset, ResetPartitioning, DropPlaygrounds, Quiet
  <2>2. exec'.at # "idle" => exec' = exec
    BY <1>5 DEF Reset, IInv, TypeOK
  <2>3. \A u \in Scanner : scan[u].at = "idle" => scan'[u].at = "idle"
    BY <1>1, <1>5 DEF Reset
  <2> QED
    BY <1>1, <1>5, <2>1, <2>2, <2>3 DEF Reset, ui, Scanner, Turn, Quiet, Chosen
<1> QED
  BY <1>2, <1>3, <1>4, <1>5

\* The user's steps that leave every model where it is.
Calm == UNCHANGED <<heap, models, applied, created>>

\* They are all but five of them.
LEMMA CalmSteps ==
  ASSUME \/ EnterStorage \/ BackOut \/ FormatDisks \/ NothingToFormat \/ Refreshed \/ ReturnToHub
         \/ Check \/ LeaveCustom \/ Rescan \/ EndRescan
         \/ EnterCustom /\ custom # None
         \/ \E disks \in Selection : Initialize(disks) \/ Specialize(disks) \/ RefreshDisks(disks)
  PROVE  Calm
  BY DEF EnterStorage, BackOut, FormatDisks, NothingToFormat, Refreshed, ReturnToHub, Check, LeaveCustom,
         Rescan, EndRescan, EnterCustom, Initialize, Specialize, RefreshDisks, Select, storageVars, Calm

\* What the user does to whose turn it is.
LEMMA UserTurns ==
  ASSUME IInv, Turn, User
  PROVE  Turn'
<1> USE DEF In
<1>1. /\ own \in [Part -> Cell \cup {None}] /\ created \in 0 .. MaxParts
      /\ auto <= created /\ custom <= created /\ auto \in Part /\ custom \in Part \cup {None}
      /\ exec.at # "idle" => ready /\ spoke \in {"hub", "checking"}
      /\ spoke # "hub" => ready
  BY DEF IInv, TypeOK, StorageInv, StorageTypeOK, Busy
<1>2. scan \in [Scanner -> [at : {"idle", "scan", "scanned", "reset"}, number : 0 .. MaxScans]]
  BY DEF IInv, TypeOK
<1>3. ASSUME ScanAt("storage", "scan")
      PROVE  scan'["storage"].at = "scan"
  BY <1>2, <1>3 DEF ScanAt, Scanner
<1>4. NoThreads => scan["storage"].at = "idle"
  BY DEF NoThreads, Scanner
<1>5. ASSUME NEW disks \in Selection, CreatePartitioning(disks)
      PROVE  /\ created' = created + 1 /\ created' \in Part
             /\ auto # created' /\ custom # created'
             /\ playground' = playground
             /\ \A p \in Part \ {created'} : own'[p] = own[p]
             /\ own'[created'] # None
  <2>1. created' = created + 1 /\ created' \in Part
    BY <1>1, <1>5, StorageAssumption DEF CreatePartitioning, Part
  <2>2. auto # created' /\ custom # created'
    BY <1>1, <2>1, StorageAssumption DEF Part, None
  <2>3. Free(heap) \in Cell
    BY <1>5, FreeCell DEF CreatePartitioning
  <2> QED
    BY <1>1, <1>5, <2>1, <2>2, <2>3, StorageAssumption DEF CreatePartitioning, None
<1>10. CASE EnterStorage
  BY <1>4, <1>10 DEF EnterStorage, Ready, NoThreads, storageVars, models, Turn, Quiet, Chosen
<1>11. CASE NothingToFormat
  BY <1>1, <1>11 DEF NothingToFormat, storageVars, models, Turn, Quiet, Chosen
<1>12. CASE Refreshed
  BY <1>1, <1>12 DEF Refreshed, storageVars, models, Turn, Quiet, Chosen
<1>13. CASE LeaveCustom
  BY <1>1, <1>13 DEF LeaveCustom, storageVars, models, Turn, Quiet, Chosen
<1>14. CASE Check
  BY <1>1, <1>14 DEF Check, Execute, storageVars, models, Turn, Quiet, Chosen
<1>15. CASE Rescan
  BY <1>1, <1>3, <1>15 DEF Rescan, InSpoke, storageVars, models, Turn, Quiet, Chosen
<1>16. CASE EndRescan
  BY <1>1, <1>16 DEF EndRescan, storageVars, models, Turn, Quiet, Chosen
<1>17. CASE FormatDisks
  BY <1>1, <1>3, <1>17 DEF FormatDisks, Select, models, Turn, Quiet, Chosen
<1>18. CASE BackOut
  BY <1>1, <1>18 DEF BackOut, Select, Execute, models, Turn, Quiet, Chosen
<1>19. CASE ReturnToHub
  BY <1>1, <1>19 DEF ReturnToHub, Select, Execute, models, Turn, Quiet, Chosen
<1>20. CASE EnterCustom
  <2>1. CASE custom = None
    <3>1. CreatePartitioning(picked) /\ custom' = created' /\ picked \in Selection
      BY <1>20, <2>1 DEF EnterCustom, CreatePartitioning, IInv, TypeOK
    <3> QED
      BY <1>1, <1>4, <1>5, <1>20, <3>1, <2>1 DEF EnterCustom, NoThreads, Turn, Quiet, Chosen, None, Part
  <2>2. CASE custom # None
    BY <1>1, <1>4, <1>20, <2>2 DEF EnterCustom, Select, NoThreads, models, Turn, Quiet, Chosen
  <2> QED
    BY <2>1, <2>2
<1>21. CASE Show
  <2>1. custom \in 1 .. created /\ CanAccess(custom)
    BY <1>1, <1>21, StorageAssumption DEF Show, InSpoke, CanAccess, IInv, Busy, Part, None
  <2>2. Playground(custom) # None
    BY <2>1, Accessible, StorageAssumption DEF IInv, None
  <2> QED
    BY <1>1, <1>21, <2>1, <2>2 DEF Show, InSpoke, Access, clientVars, ui, Turn, Quiet, Chosen
<1>22. CASE ResetCustom
  BY <1>1, <1>22 DEF ResetCustom, ResetPartitioning, DropPlaygrounds, InSpoke, Turn, Quiet, Chosen
<1>23. ASSUME NEW disks \in Selection, Initialize(disks)
       PROVE  Turn'
  BY <1>1, <1>23 DEF Initialize, Select, models, ui, Turn, Quiet, Chosen
<1>24. ASSUME NEW disks \in Selection, Specialize(disks)
       PROVE  Turn'
  BY <1>24 DEF Specialize, Select, models, clientVars, ui, Turn, Quiet, Chosen
<1>25. ASSUME NEW disks \in Selection, RefreshDisks(disks)
       PROVE  Turn'
  BY <1>1, <1>3, <1>25 DEF RefreshDisks, storageVars, models, Turn, Quiet, Chosen
<1>26. ASSUME NEW disks \in Selection, NEW m \in Method, Done(disks, m)
       PROVE  Turn'
  <2>1. exec' = exec /\ exec.at = "idle" /\ ready' = ready /\ ready /\ auto' = auto /\ custom' = custom
        /\ scan' = scan /\ spoke' = "leaving" /\ method' = m
    BY <1>1, <1>26 DEF Done, IInv, Busy
  <2>2. CASE ResetPartitioning
    BY <1>26, <2>1, <2>2 DEF Done, ResetPartitioning, DropPlaygrounds, Turn
  <2>3. CASE ~ ResetPartitioning
    BY <1>26, <2>1, <2>3 DEF Done, Turn, Chosen
  <2> QED
    BY <2>2, <2>3
<1>27. ASSUME NEW ok \in BOOLEAN, Edit(ok)
       PROVE  Turn'
  BY <1>1, <1>27 DEF Edit, InSpoke, models, Turn, Quiet, Chosen
<1>28. ASSUME NEW ok \in BOOLEAN, PlanAutomatic(ok)
       PROVE  Turn'
  <2>1. CreatePartitioning(picked) /\ auto' = created' /\ picked \in Selection
    BY <1>28 DEF PlanAutomatic, CreatePartitioning, IInv, TypeOK
  <2>2. exec.at = "idle" /\ ready /\ method = "automatic" /\ Chosen' = created'
    BY <1>1, <1>28, <2>1 DEF PlanAutomatic, IInv, Busy, Chosen
  <2>3. exec'.at # "idle" => exec'.part = created'
    BY <1>28, <2>1, <2>2 DEF PlanAutomatic, Execute, CreatePartitioning
  <2> QED
    BY <1>1, <1>5, <1>28, <2>1, <2>2, <2>3, StorageAssumption DEF PlanAutomatic, Turn, None, Part
<1> QED
  BY <1>10, <1>11, <1>12, <1>13, <1>14, <1>15, <1>16, <1>17, <1>18, <1>19, <1>20, <1>21, <1>22, <1>23,
     <1>24, <1>25, <1>26, <1>27, <1>28 DEF User

\* Every step keeps it.
LEMMA StepTurns == IInv /\ Turn /\ [Next]_vars => Turn'
<1> SUFFICES ASSUME IInv, Turn, [Next]_vars PROVE Turn'
  OBVIOUS
<1>1. CASE Executor
  BY <1>1, ExecutorTurns
<1>2. CASE User
  BY <1>2, UserTurns
<1>3. CASE \E t \in Scanner : Scan(t) \/ GiveUp(t) \/ Succeed(t) \/ Reset(t)
  BY <1>3, ScannersTurn
<1>4. CASE UNCHANGED vars
  BY <1>4 DEF vars, storageVars, models, clientVars, ui, Turn, Quiet, Chosen
<1> QED
  BY <1>1, <1>2, <1>3, <1>4 DEF Next

-----------------------------------------------------------------------------
(* Who made which model, and from which scan.                              *)

\* No two modules share a playground, none works on the scanned storage, and
\* a task holds the playground of the module it works for or one that was
\* dropped.
Separate ==
    /\ \A p \in Part : own[p] # None =>
            own[p] # current /\ \A q \in Part : own[q] = own[p] => q = p
    /\ obj # None => obj # current /\ \A p \in Part : obj = own[p] => p = exec.part

\* A model that nobody or the module p has changed, and that is valid only if
\* p has.
WorkOf(m, p) == m.by \subseteq {p} /\ (m.valid => m.by = {p})

OwnWork ==
    /\ heap[current].by = {} /\ ~ heap[current].valid
    /\ \A p \in Part : own[p] # None => WorkOf(heap[own[p]], p)
    /\ obj # None => WorkOf(heap[obj], exec.part)
    /\ AppliedIsOwnWork

\* Every layout is planned on the last scan, unless a thread has yet to empty
\* the service.
Emptying == \E t \in Scanner : scan[t].at = "reset"
Planned(m) == ~ Emptying => m.scan = heap[current].scan

Fresh ==
    /\ \A p \in Part : own[p] # None => Planned(heap[own[p]])
    /\ playground # None => Planned(heap[playground])

Made == Separate /\ OwnWork /\ Fresh

\* What the names find is what the step has written.
LEMMA Reading ==
  ASSUME StorageInv', NEW h, Store(h)
  PROVE  \A c \in Live' \ {None} : c \in Cell /\ heap'[c] = h[c]
  BY DEF StorageInv, StorageTypeOK, Allocated, Store

\* The names of models, and that they are in memory.
LEMMA Names ==
  ASSUME StorageInv
  PROVE  /\ current \in Live \ {None} /\ current \in Cell /\ current # None
         /\ playground # None => playground \in Live \ {None}
         /\ obj # None => obj \in Live \ {None}
         /\ \A p \in Part : own[p] # None => own[p] \in Live \ {None}
         /\ \A c \in Live \ {None} : c \in Cell /\ heap[c] \in Model /\ heap[c] # Garbage
  BY GarbageAssumption, StorageAssumption DEF StorageInv, StorageTypeOK, Allocated, Live, None

\* A step that keeps the names, and what they stand for.
LEMMA MadeKept ==
  ASSUME Made, StorageInv,
         UNCHANGED <<current, playground, own, applied>>, obj' \in {obj, None},
         obj' # None => exec'.part = exec.part,
         Emptying => Emptying',
         heap'[current] = heap[current],
         playground # None => heap'[playground] = heap[playground],
         \A p \in Part : own[p] # None =>
            WorkOf(heap'[own[p]], p) /\ heap'[own[p]].scan = heap[own[p]].scan,
         obj' # None => WorkOf(heap'[obj], exec.part)
  PROVE  Made'
<1>1. Separate'
  BY DEF Made, Separate
<1>2. OwnWork'
  BY DEF Made, OwnWork, AppliedIsOwnWork
<1>3. Fresh'
  BY DEF Made, Fresh, Planned
<1> QED
  BY <1>1, <1>2, <1>3 DEF Made

\* Nothing happens to the models.
LEMMA MadeStays ==
  ASSUME Made, StorageInv, UNCHANGED <<heap, current, playground, own, applied>>, obj' \in {obj, None},
         obj' # None => exec'.part = exec.part,
         Emptying => Emptying'
  PROVE  Made'
<1>1. \A p \in Part : own[p] # None => WorkOf(heap'[own[p]], p) /\ heap'[own[p]].scan = heap[own[p]].scan
  BY DEF Made, OwnWork
<1>2. obj # None => WorkOf(heap'[obj], exec.part)
  BY DEF Made, OwnWork
<1> QED
  BY <1>1, <1>2, MadeKept

\* A module changes the devices in its own model, or in the one that its task
\* holds.
LEMMA MadeChanged ==
  ASSUME Made, StorageInv, StorageInv', NEW p \in Part, NEW c \in {own[p], obj}, c # None, CanChange(c),
         c = obj => p = exec.part,
         obj # None => p = exec.part,
         NEW ok \in BOOLEAN, Store(Changed(c, p, ok)),
         UNCHANGED <<current, playground, own, applied>>, obj' \in {obj, None},
         obj' # None => exec'.part = exec.part,
         Emptying => Emptying'
  PROVE  /\ Made'
         /\ \A q \in Part : own[q] # None => heap'[own[q]].disks = heap[own[q]].disks
<1>1. c \in Cell /\ c \in Live \ {None} /\ heap[c] \in Model /\ heap \in Heap
  BY Names DEF StorageInv, StorageTypeOK, Heap
<1>2. /\ Changed(c, p, ok)[c].by = heap[c].by \cup {p} /\ Changed(c, p, ok)[c].valid = ok
      /\ Changed(c, p, ok)[c].scan = heap[c].scan /\ Changed(c, p, ok)[c].disks = heap[c].disks
      /\ \A d \in Cell \ {c} : Changed(c, p, ok)[d] = heap[d]
  BY <1>1 DEF Changed, Heap, Model
<1>3. \A d \in Live' \ {None} : d \in Cell /\ heap'[d] = Changed(c, p, ok)[d]
  BY Reading
<1>4. current # c /\ playground # c
  BY <1>1 DEF Made, Separate, StorageInv, Apart
<1>5. /\ current \in Live' \ {None} /\ (playground # None => playground \in Live' \ {None})
      /\ (obj' # None => obj \in Live' \ {None})
      /\ \A q \in Part : own[q] # None => own[q] \in Live' \ {None}
  BY Names DEF Live
<1>6. heap'[current] = heap[current] /\ (playground # None => heap'[playground] = heap[playground])
  BY <1>2, <1>3, <1>4, <1>5
<1>7. WorkOf(heap[c], p)
  BY DEF Made, OwnWork
<1>8. \A d \in Live' \ {None} : d = c =>
            heap'[d].by = {p} /\ heap'[d].scan = heap[d].scan /\ heap'[d].disks = heap[d].disks
  BY <1>2, <1>3, <1>7 DEF WorkOf
<1>9. ASSUME NEW q \in Part, own[q] # None
      PROVE  /\ WorkOf(heap'[own[q]], q) /\ heap'[own[q]].scan = heap[own[q]].scan
             /\ heap'[own[q]].disks = heap[own[q]].disks
  <2>1. CASE own[q] = c
    <3>1. q = p
      BY <1>9, <2>1 DEF Made, Separate
    <3> QED
      BY <1>5, <1>8, <1>9, <2>1, <3>1 DEF WorkOf
  <2>2. CASE own[q] # c
    BY <1>2, <1>3, <1>5, <1>9, <2>2 DEF Made, OwnWork
  <2> QED
    BY <2>1, <2>2
<1>10. obj' # None => WorkOf(heap'[obj], exec.part)
  <2> SUFFICES ASSUME obj' # None PROVE WorkOf(heap'[obj], exec.part)
    OBVIOUS
  <2>1. CASE obj = c
    BY <1>5, <1>8, <2>1 DEF WorkOf
  <2>2. CASE obj # c
    BY <1>2, <1>3, <1>5, <2>2 DEF Made, OwnWork
  <2> QED
    BY <2>1, <2>2
<1> QED
  BY <1>6, <1>9, <1>10, MadeKept

\* reset_partitioning.
LEMMA MadeReset ==
  ASSUME Made, StorageInv, ResetPartitioning, obj' \in {obj, None},
         obj' # None => exec'.part = exec.part,
         heap'[current] = heap[current],
         obj' # None => heap'[obj] = heap[obj]
  PROVE  Made'
<1> USE DEF ResetPartitioning, DropPlaygrounds
<1>1. Separate'
  BY DEF Made, Separate, None
<1>2. OwnWork'
  BY DEF Made, OwnWork, AppliedIsOwnWork
<1>3. Fresh'
  BY DEF Fresh
<1> QED
  BY <1>1, <1>2, <1>3 DEF Made

\* _set_storage: what is planned is out of date, and will be dropped.
LEMMA MadeSet ==
  ASSUME Made, StorageInv, StorageInv', NEW n \in 0 .. MaxScans, SetStorage(n),
         Emptying', exec' = exec
  PROVE  /\ Made'
         /\ \A p \in Part : own[p] # None => heap'[own[p]] = heap[own[p]]
<1> DEFINE f == Free(heap)
<1>1. f \in Cell /\ heap[f] = Garbage
  BY FreeCell DEF SetStorage
<1>2. f \notin Live \ {None}
  BY <1>1, Names
<1>3. Scanned(n) \in Model /\ heap \in Heap /\ HasFree(heap)
  BY StorageAssumption DEF Scanned, Model, StorageInv, StorageTypeOK, Heap, SetStorage
<1>4. New(heap, Scanned(n))[f] = Scanned(n) /\ \A c \in Cell \ {f} : New(heap, Scanned(n))[c] = heap[c]
  BY <1>3, NewModel
<1>5. /\ current' = f /\ UNCHANGED <<playground, own, applied, obj>>
      /\ \A c \in Live' \ {None} : c \in Cell /\ heap'[c] = New(heap, Scanned(n))[c]
  BY Reading DEF SetStorage
<1> HIDE DEF f
<1>6. \A c \in (Live \cap Live') \ {None} : heap'[c] = heap[c]
  BY <1>2, <1>4, <1>5
<1>7. f \in Live' /\ f # None
  BY <1>1, <1>5, StorageAssumption DEF Live, None
<1>8. heap'[f].by = {} /\ ~ heap'[f].valid
  <2>1. heap'[f] = Scanned(n)
    BY <1>4, <1>5, <1>7
  <2> QED
    BY <2>1 DEF Scanned
<1>9. /\ playground # None => heap'[playground] = heap[playground]
      /\ obj # None => heap'[obj] = heap[obj]
      /\ \A p \in Part : own[p] # None => heap'[own[p]] = heap[own[p]]
  BY <1>5, <1>6, Names DEF Live
<1>10. Separate'
  BY <1>2, <1>5, Names DEF Made, Separate
<1>11. OwnWork'
  BY <1>5, <1>8, <1>9 DEF Made, OwnWork, AppliedIsOwnWork
<1>12. Fresh'
  BY DEF Fresh, Planned
<1> QED
  BY <1>9, <1>10, <1>11, <1>12 DEF Made

\* create_partitioning, and the playground that its caller asks for.
LEMMA MadeCreated ==
  ASSUME Made, StorageInv, StorageInv', NEW disks \in Selection, CreatePartitioning(disks),
         obj = None, Emptying => Emptying'
  PROVE  /\ Made'
         /\ heap'[own'[created']].disks = disks
         /\ playground # None => heap'[playground] = heap[playground]
         /\ \A p \in Part \ {created'} : own[p] # None => heap'[own[p]] = heap[own[p]]
<1> DEFINE f == Free(heap)
           m == [heap[current] EXCEPT !.disks = disks]
<1>1. f \in Cell /\ heap[f] = Garbage
  BY FreeCell DEF CreatePartitioning
<1>2. f \notin Live \ {None} /\ f # None
  BY <1>1, Names, StorageAssumption DEF None
<1>3. heap \in Heap /\ HasFree(heap) /\ heap[current] \in Model
  BY Names DEF StorageInv, StorageTypeOK, Heap, CreatePartitioning
<1>4. m \in Model /\ m.by = heap[current].by /\ m.valid = heap[current].valid
      /\ m.scan = heap[current].scan /\ m.disks = disks
  BY <1>3 DEF Model
<1>5. created' = created + 1 /\ created' \in Part
  BY StorageAssumption DEF CreatePartitioning, Part, StorageInv, StorageTypeOK
<1>6. /\ UNCHANGED <<current, playground, applied, obj>>
      /\ own' = [own EXCEPT ![created'] = f]
      /\ Store(New(heap, m))
  BY <1>5 DEF CreatePartitioning, ModelForNew
<1> HIDE DEF f, m
<1>7. New(heap, m)[Free(heap)] = m /\ \A c \in Cell \ {Free(heap)} : New(heap, m)[c] = heap[c]
  BY <1>3, <1>4, NewModel
<1>8. \A c \in Live' \ {None} : c \in Cell /\ heap'[c] = New(heap, m)[c]
  BY <1>6, Reading
<1>9. own'[created'] = f /\ \A p \in Part \ {created'} : own'[p] = own[p]
  BY <1>5, <1>6 DEF StorageInv, StorageTypeOK
<1>10. f \in Live' \ {None}
  BY <1>2, <1>5, <1>9 DEF Live
<1>11. heap'[f] = m
  BY <1>7, <1>8, <1>10 DEF f
<1>12. \A c \in (Live \cap Live') \ {None} : heap'[c] = heap[c]
  BY <1>2, <1>7, <1>8 DEF f
<1>13. /\ heap'[current] = heap[current]
       /\ playground # None => heap'[playground] = heap[playground]
       /\ \A p \in Part \ {created'} : own[p] # None => heap'[own[p]] = heap[own[p]]
  BY <1>6, <1>9, <1>12, Names DEF Live
<1>14. Separate'
  BY <1>2, <1>5, <1>6, <1>9, Names DEF Made, Separate
<1>15. OwnWork'
  <2>1. ASSUME NEW p \in Part, own'[p] # None
        PROVE  WorkOf(heap'[own'[p]], p)
    <3>1. CASE p = created'
      BY <1>4, <1>9, <1>11, <3>1 DEF Made, OwnWork, WorkOf
    <3>2. CASE p # created'
      BY <1>9, <1>13, <2>1, <3>2 DEF Made, OwnWork
    <3> QED
      BY <3>1, <3>2
  <2> QED
    BY <1>6, <1>13, <2>1 DEF Made, OwnWork, AppliedIsOwnWork
<1>16. Fresh'
  <2>1. ASSUME NEW p \in Part, own'[p] # None
        PROVE  ~ Emptying' => heap'[own'[p]].scan = heap'[current'].scan
    <3>1. CASE p = created'
      BY <1>4, <1>6, <1>9, <1>11, <1>13, <3>1
    <3>2. CASE p # created'
      BY <1>6, <1>9, <1>13, <2>1, <3>2 DEF Made, Fresh, Planned
    <3> QED
      BY <3>1, <3>2
  <2> QED
    BY <1>6, <1>13, <2>1 DEF Made, Fresh, Planned
<1> QED
  BY <1>4, <1>9, <1>11, <1>13, <1>14, <1>15, <1>16 DEF Made

\* What a module works on when it is asked for its playground: what it had,
\* or a copy of the scanned storage for the disks that are selected.
LEMMA MadeAccess ==
  ASSUME Made, StorageInv, NEW p \in 1 .. created, CanAccess(p),
         own[p] = None => playground = None
  PROVE  LET m == Accessed(p)[Playground(p)]
         IN  /\ WorkOf(m, p) /\ Planned(m)
             /\ own[p] = None => ~ m.valid /\ m.disks = disksOf[p]
             /\ own[p] # None => m = heap[own[p]]
<1>1. p \in Part /\ heap \in Heap
  BY StorageAssumption DEF StorageInv, StorageTypeOK, Part, Heap
<1>2. CASE own[p] # None
  BY <1>1, <1>2 DEF Accessed, Playground, Made, OwnWork, Fresh
<1>3. CASE own[p] = None
  <2>1. base[p] = current /\ heap[current] \in Model /\ disksOf[p] \in Selection
    BY <1>1, <1>3, Names DEF StorageInv, ModulesFollow, StorageTypeOK
  <2>2. /\ Prepared(p) \in Model /\ Prepared(p).by = heap[current].by /\ Prepared(p).scan = heap[current].scan
        /\ Prepared(p).valid = heap[current].valid /\ Prepared(p).disks = disksOf[p]
    BY <2>1 DEF Prepared, Model
  <2>3. HasFree(heap)
    BY <1>3 DEF CanAccess
  <2>4. Accessed(p)[Playground(p)] = Prepared(p)
    BY <1>1, <1>3, <2>2, <2>3, NewModel DEF Accessed, Playground
  <2> QED
    BY <1>3, <2>2, <2>4 DEF Made, OwnWork, WorkOf, Planned
<1> QED
  BY <1>2, <1>3

\* A module is asked for its playground, which a task may take.
LEMMA MadeAccessed ==
  ASSUME Made, StorageInv, StorageInv', NEW p \in 1 .. created, CanAccess(p), Access(p), Store(Accessed(p)),
         own[p] = None => playground = None,
         obj = None, obj' \in {None, Playground(p)}, obj' # None => exec'.part = p,
         UNCHANGED <<current, playground, applied>>,
         Emptying => Emptying'
  PROVE  /\ Made'
         /\ p \in Part /\ own'[p] = Playground(p) /\ own'[p] # None
         /\ heap'[own'[p]] = Accessed(p)[Playground(p)]
         /\ playground # None => heap'[playground] = heap[playground]
         /\ \A q \in Part \ {p} : own'[q] = own[q] /\ (own[q] # None => heap'[own[q]] = heap[own[q]])
<1> DEFINE a == Accessed(p)
           c0 == Playground(p)
<1>1. /\ p \in Part /\ c0 \in Cell /\ a[c0] \in Model
      /\ \A c \in Live \ {None} : a[c] = heap[c]
  BY Accessible
<1>2. WorkOf(a[c0], p) /\ Planned(a[c0])
  BY MadeAccess
<1>3. own' = [own EXCEPT ![p] = c0] /\ (own[p] # None => c0 = own[p])
      /\ (own[p] = None => heap[c0] = Garbage)
  BY FreeCell DEF Access, Playground, CanAccess
<1>4. \A c \in Live' \ {None} : c \in Cell /\ heap'[c] = a[c]
  BY Reading
<1> HIDE DEF a, c0
<1>5. c0 # None
  BY <1>1, StorageAssumption DEF None
<1>6. own'[p] = c0 /\ \A q \in Part \ {p} : own'[q] = own[q]
  BY <1>1, <1>3 DEF StorageInv, StorageTypeOK
<1>7. heap'[c0] = a[c0]
  BY <1>1, <1>4, <1>5, <1>6 DEF Live
<1>8. /\ heap'[current] = heap[current]
      /\ playground # None => heap'[playground] = heap[playground]
      /\ \A q \in Part \ {p} : own[q] # None => heap'[own[q]] = heap[own[q]]
  BY <1>1, <1>4, <1>6, Names DEF Live
<1>9. own[p] = None => c0 \notin Live \ {None}
  BY <1>3, Names
<1>10. c0 # current /\ \A q \in Part : own[q] = c0 => q = p
  <2>1. CASE own[p] = None
    BY <1>5, <1>9, <2>1, Names
  <2>2. CASE own[p] # None
    BY <1>1, <1>3, <2>2 DEF Made, Separate
  <2> QED
    BY <2>1, <2>2
<1>11. Separate'
  <2>1. ASSUME NEW q \in Part, own'[q] # None
        PROVE  own'[q] # current /\ \A r \in Part : own'[r] = own'[q] => r = q
    <3>1. CASE q = p
      BY <1>6, <1>10, <3>1
    <3>2. CASE q # p
      BY <1>6, <1>10, <2>1, <3>2 DEF Made, Separate
    <3> QED
      BY <3>1, <3>2
  <2>2. obj' # None => obj' # current /\ \A q \in Part : obj' = own'[q] => q = exec'.part
    BY <1>6, <1>10 DEF c0
  <2> QED
    BY <2>1, <2>2 DEF Separate
<1>12. \A q \in Part : own'[q] # None => WorkOf(heap'[own'[q]], q) /\ (~ Emptying' => heap'[own'[q]].scan = heap[current].scan)
  BY <1>2, <1>6, <1>7, <1>8 DEF Made, OwnWork, Fresh, Planned
<1>13. obj' # None => WorkOf(heap'[obj'], exec'.part)
  BY <1>2, <1>7 DEF c0
<1>14. OwnWork'
  BY <1>8, <1>12, <1>13 DEF Made, OwnWork, AppliedIsOwnWork
<1>15. Fresh'
  BY <1>8, <1>12 DEF Made, Fresh, Planned
<1> QED
  BY <1>1, <1>5, <1>6, <1>7, <1>8, <1>11, <1>14, <1>15 DEF Made, a, c0

\* apply_partitioning: the model is valid, so it is what the module made, and
\* the copy is no model that was there.
LEMMA MadeApplied ==
  ASSUME Made, StorageInv, StorageInv', NEW p \in 1 .. created, ApplyPartitioning(p),
         own[p] = None => playground = None,
         obj = None, Emptying => Emptying'
  PROVE  /\ Made'
         /\ own[p] # None /\ own' = own /\ playground' # None /\ applied' = p
         /\ heap'[own[p]] = heap[own[p]] /\ heap'[playground'] = heap[own[p]]
         /\ \A q \in Part : own[q] # None => heap'[own[q]] = heap[own[q]]
<1> DEFINE f == Free(heap)
           h == [heap EXCEPT ![f] = heap[own[p]]]
<1>1. p \in Part /\ own \in [Part -> Cell \cup {None}] /\ heap \in Heap
  BY StorageAssumption DEF StorageInv, StorageTypeOK, Part, Heap
<1>2. WorkOf(Accessed(p)[Playground(p)], p) /\ Planned(Accessed(p)[Playground(p)])
      /\ (own[p] = None => ~ Accessed(p)[Playground(p)].valid)
  BY MadeAccess DEF ApplyPartitioning
<1>3. own[p] # None
  BY <1>2 DEF ApplyPartitioning, PassesCheck
<1>4. Accessed(p) = heap /\ Playground(p) = own[p] /\ CopyOf(p) = f /\ own' = own /\ HasFree(heap)
  BY <1>1, <1>3 DEF Accessed, Playground, CopyOf, ApplyPartitioning, Access
<1>5. /\ playground' = f /\ applied' = p /\ current' = current /\ obj' = None
      /\ Store(h)
  BY <1>4 DEF ApplyPartitioning
<1>6. heap[own[p]].valid /\ heap[own[p]].by = {p} /\ Planned(heap[own[p]])
  BY <1>2, <1>4 DEF ApplyPartitioning, PassesCheck, WorkOf
<1>7. f \in Cell /\ heap[f] = Garbage
  BY <1>4, FreeCell
<1>8. f \notin Live \ {None} /\ f # None
  BY <1>7, Names, StorageAssumption DEF None
<1>9. h[f] = heap[own[p]] /\ \A c \in Cell \ {f} : h[c] = heap[c]
  BY <1>1, <1>7 DEF Heap
<1>10. \A c \in Live' \ {None} : c \in Cell /\ heap'[c] = h[c]
  BY <1>5, Reading
<1> HIDE DEF f, h
<1>11. heap'[f] = heap[own[p]]
  BY <1>5, <1>8, <1>9, <1>10 DEF Live
<1>12. \A c \in (Live \cap Live') \ {None} : heap'[c] = heap[c]
  BY <1>8, <1>9, <1>10
<1>13. heap'[current] = heap[current] /\ \A q \in Part : own[q] # None => heap'[own[q]] = heap[own[q]]
  BY <1>4, <1>5, <1>12, Names DEF Live
<1>14. Separate'
  BY <1>4, <1>5 DEF Made, Separate
<1>15. OwnWork'
  BY <1>4, <1>5, <1>6, <1>11, <1>13 DEF Made, OwnWork, AppliedIsOwnWork
<1>16. Fresh'
  BY <1>4, <1>5, <1>6, <1>11, <1>13 DEF Made, Fresh, Planned
<1> QED
  BY <1>1, <1>3, <1>4, <1>5, <1>8, <1>11, <1>13, <1>14, <1>15, <1>16 DEF Made

\* In the beginning there is the scanned model only.
LEMMA InitMade == Init => Made
<1> SUFFICES ASSUME Init PROVE Made
  OBVIOUS
<1>1. current = 1 /\ playground = None /\ obj = None /\ own = [p \in Part |-> None]
  BY DEF Init
<1>2. heap[1] = Scanned(0)
  BY StorageAssumption DEF Init
<1>3. heap[1].by = {} /\ ~ heap[1].valid
  BY <1>2 DEF Scanned
<1> QED
  BY <1>1, <1>3 DEF Made, Separate, OwnWork, AppliedIsOwnWork, Fresh

\* What reset_partitioning leaves is as it was written.
LEMMA ResetReads ==
  ASSUME StorageInv, StorageInv', NEW h, Store(h), ResetPartitioning
  PROVE  /\ heap'[current] = h[current]
         /\ (obj' = obj /\ obj # None) => heap'[obj] = h[obj]
<1>1. \A c \in Live' \ {None} : heap'[c] = h[c]
  BY Reading
<1>2. current' = current /\ current # None
  BY Names DEF ResetPartitioning
<1>3. current \in Live' /\ (obj' = obj => obj \in Live')
  BY <1>2 DEF Live
<1> QED
  BY <1>1, <1>2, <1>3

\* apply_partitioning keeps it.
LEMMA ExecutorMakes ==
  ASSUME IInv, StorageInv', Turn, Made, Executor
  PROVE  Made'
<1> USE DEF ExecIs
<1>1. /\ exec.at \notin {"idle", "rescan"} /\ exec.part \in 1 .. created /\ exec.part \in Part
      /\ own[exec.part] = None => playground = None
      /\ scan["execute"].at = "idle"
      /\ StorageInv
  <2>1. exec.at \notin {"idle", "rescan"}
    BY DEF Executor, ConfigureWithTask, ValidateWithTask, Validate, Apply, ApplyRaises, Configure,
           BootloaderError, StorageError, Configured
  <2> QED
    BY <2>1, StorageAssumption DEF IInv, TypeOK, StorageInv, StorageTypeOK, Busy, Turn, Part
<1>2. ASSUME NEW at, exec' = [exec EXCEPT !.at = at]
      PROVE  exec'.part = exec.part
  BY <1>2 DEF IInv, TypeOK
<1>3. scan' = scan => (Emptying => Emptying')
  BY DEF Emptying
<1>4. ASSUME Hold(exec.part), exec.at \notin {"configuring", "validating"}, scan' = scan,
             exec'.part = exec.part
      PROVE  Made'
  <2>1. obj = None
    BY <1>4 DEF IInv, TypeOK
  <2> QED
    BY <1>1, <1>3, <1>4, <2>1, MadeAccessed DEF Hold
<1>5. ASSUME Configured
      PROVE  obj # None /\ CanChange(obj) /\ obj' = None
  BY <1>5 DEF Configured, IInv, TypeOK
<1>10. CASE ConfigureWithTask
  BY <1>2, <1>4, <1>10 DEF ConfigureWithTask, Go
<1>11. CASE ValidateWithTask
  BY <1>2, <1>4, <1>11 DEF ValidateWithTask, Go
<1>12. CASE Validate
  <2>1. scan' = scan /\ obj' = None /\ UNCHANGED <<current, playground, own, applied>> /\ Store(heap)
    BY <1>12 DEF Validate
  <2>2. \A c \in Live' \ {None} : heap'[c] = heap[c]
    BY <2>1, Reading
  <2>3. /\ heap'[current] = heap[current]
        /\ playground # None => heap'[playground] = heap[playground]
        /\ \A p \in Part : own[p] # None => heap'[own[p]] = heap[own[p]]
    BY <1>1, <2>1, <2>2, Names DEF Live
  <2>4. \A p \in Part : own[p] # None => WorkOf(heap'[own[p]], p) /\ heap'[own[p]].scan = heap[own[p]].scan
    BY <2>3 DEF Made, OwnWork
  <2> QED
    BY <1>1, <1>3, <2>1, <2>3, <2>4, MadeKept
<1>13. CASE Apply
  <2>1. obj = None
    BY <1>13 DEF Apply, IInv, TypeOK
  <2> QED
    BY <1>1, <1>3, <1>13, <2>1, MadeApplied DEF Apply
<1>14. CASE ApplyRaises
  <2>1. obj = None
    BY <1>14 DEF ApplyRaises, IInv, TypeOK
  <2> QED
    BY <1>1, <1>3, <1>14, <2>1, MadeAccessed DEF ApplyRaises, RefusePartitioning
<1>15. ASSUME NEW ok \in BOOLEAN, Configure(ok) \/ BootloaderError(ok)
       PROVE  Made'
  <2>1. Configured /\ scan' = scan /\ UNCHANGED <<current, playground, own, applied>>
        /\ Store(Changed(obj, exec.part, ok))
    BY <1>15 DEF Configure, BootloaderError
  <2> QED
    BY <1>1, <1>3, <1>5, <2>1, MadeChanged
<1>16. ASSUME NEW ok \in BOOLEAN, StorageError(ok)
       PROVE  Made'
  <2>1. Configured /\ Store(Changed(obj, exec.part, ok)) /\ obj # None /\ CanChange(obj) /\ obj' = None
    BY <1>5, <1>16 DEF StorageError
  <2>2. CASE InCustomSpoke
    <3>1. ResetPartitioning
      BY <1>16, <2>2 DEF StorageError
    <3>2. obj \in Cell /\ heap \in Heap /\ heap[obj] \in Model /\ current # obj /\ current \in Cell
      BY <1>1, <2>1, Names DEF StorageInv, StorageTypeOK, Heap, Made, Separate
    <3>3. Changed(obj, exec.part, ok)[current] = heap[current]
      BY <1>1, <2>1, <3>2, ChangedModel DEF Heap
    <3>4. heap'[current] = heap[current]
      BY <1>1, <2>1, <3>1, <3>3, ResetReads
    <3> QED
      BY <1>1, <2>1, <3>1, <3>4, MadeReset
  <2>3. CASE ~ InCustomSpoke
    <3>1. UNCHANGED <<current, playground, own, applied>> /\ ScanAt("execute", "scan")
      BY <1>16, <2>3 DEF StorageError
    <3>2. Emptying => Emptying'
      BY <1>1, <3>1 DEF Emptying, ScanAt, IInv, TypeOK
    <3> QED
      BY <1>1, <2>1, <3>1, <3>2, MadeChanged
  <2> QED
    BY <2>2, <2>3
<1> QED
  BY <1>10, <1>11, <1>12, <1>13, <1>14, <1>15, <1>16 DEF Executor

\* So does a scan.
LEMMA ScannersMake ==
  ASSUME IInv, StorageInv', Turn, Made,
         NEW t \in Scanner, Scan(t) \/ GiveUp(t) \/ Succeed(t) \/ Reset(t)
  PROVE  Made'
<1> USE DEF ScanIs
<1>1. /\ scan \in [Scanner -> [at : {"idle", "scan", "scanned", "reset"}, number : 0 .. MaxScans]]
      /\ StorageInv /\ scan[t].number \in 0 .. MaxScans
  BY DEF IInv, TypeOK
<1>2. CASE Scan(t)
  <2>1. Emptying => Emptying'
    BY <1>1, <1>2 DEF Scan, Emptying
  <2> QED
    BY <1>1, <1>2, <2>1, MadeStays DEF Scan, models
<1>3. CASE GiveUp(t)
  BY <1>1, <1>3, MadeStays DEF GiveUp, storageVars, models, Emptying
<1>4. CASE Succeed(t)
  <2>1. Emptying'
    BY <1>1, <1>4 DEF Succeed, ScanAt, Emptying
  <2> QED
    BY <1>1, <1>4, <2>1, MadeSet DEF Succeed
<1>5. CASE Reset(t)
  <2>1. exec'.part = exec.part
    BY <1>5 DEF Reset, IInv, TypeOK
  <2>2. /\ heap'[current] = heap[current]
        /\ obj # None => heap'[obj] = heap[obj]
    BY <1>1, <1>5, ResetReads DEF Reset
  <2> QED
    BY <1>1, <1>5, <2>1, <2>2, MadeReset DEF Reset
<1> QED
  BY <1>2, <1>3, <1>4, <1>5

\* So do the spokes.
LEMMA UserMakes ==
  ASSUME IInv, StorageInv', Turn, Made, User
  PROVE  Made'
<1> USE DEF In
<1>1. /\ scan \in [Scanner -> [at : {"idle", "scan", "scanned", "reset"}, number : 0 .. MaxScans]]
      /\ StorageInv
      /\ exec.at = "idle" => obj = None
      /\ spoke # "hub" => ready
      /\ ~ ready => exec.at = "idle"
      /\ spoke \notin {"hub", "checking"} => exec.at = "idle"
      /\ spoke \in {"leaving", "storage", "custom", "checking"} => scan["storage"].at = "idle"
  BY DEF IInv, TypeOK, Busy, Turn
<1>2. ASSUME scan' = scan \/ (ScanAt("storage", "scan") /\ scan["storage"].at = "idle")
      PROVE  Emptying => Emptying'
  BY <1>1, <1>2 DEF ScanAt, Emptying, Scanner
<1>3. ASSUME Calm, exec.at = "idle" \/ exec' = exec,
             scan' = scan \/ (ScanAt("storage", "scan") /\ scan["storage"].at = "idle")
      PROVE  Made'
  <2>1. Emptying => Emptying'
    BY <1>2, <1>3
  <2>2. UNCHANGED <<heap, current, playground, own, applied, obj>>
    BY <1>3 DEF Calm, models
  <2> QED
    BY <1>1, <1>3, <2>1, <2>2, MadeStays
<1>4. CASE \/ EnterStorage \/ BackOut \/ FormatDisks \/ NothingToFormat \/ Refreshed \/ ReturnToHub
           \/ Check \/ LeaveCustom \/ Rescan \/ EndRescan
           \/ EnterCustom /\ custom # None
           \/ \E disks \in Selection : Initialize(disks) \/ Specialize(disks) \/ RefreshDisks(disks)
  <2>1. Calm
    BY <1>4, CalmSteps
  <2>2. exec.at = "idle" \/ exec' = exec
    BY <1>1, <1>4 DEF EnterStorage, BackOut, FormatDisks, NothingToFormat, Refreshed, ReturnToHub, Check,
         LeaveCustom, Rescan, EndRescan, EnterCustom, Initialize, Specialize, RefreshDisks, clientVars
  <2>3. scan' = scan \/ (ScanAt("storage", "scan") /\ scan["storage"].at = "idle")
    <3>1. CASE FormatDisks \/ Rescan \/ \E disks \in Selection : RefreshDisks(disks)
      BY <1>1, <3>1 DEF FormatDisks, Rescan, InSpoke, RefreshDisks
    <3>2. CASE \/ EnterStorage \/ BackOut \/ NothingToFormat \/ Refreshed \/ ReturnToHub
               \/ Check \/ LeaveCustom \/ EndRescan \/ EnterCustom
               \/ \E disks \in Selection : Initialize(disks) \/ Specialize(disks)
      BY <3>2 DEF EnterStorage, BackOut, NothingToFormat, Refreshed, ReturnToHub, Check,
         LeaveCustom, EndRescan, EnterCustom, Initialize, Specialize, clientVars
    <3> QED
      BY <1>4, <3>1, <3>2
  <2> QED
    BY <1>3, <2>1, <2>2, <2>3
<1>5. CASE EnterCustom /\ custom = None
  <2>1. CreatePartitioning(picked) /\ picked \in Selection /\ scan' = scan /\ exec.at = "idle"
    BY <1>1, <1>5 DEF EnterCustom, IInv, TypeOK
  <2>2. (Emptying => Emptying') /\ obj = None /\ StorageInv
    BY <1>1, <1>2, <2>1
  <2> QED
    BY <2>1, <2>2, MadeCreated
<1>6. CASE Show
  <2>1. custom \in 1 .. created /\ CanAccess(custom) /\ exec.at = "idle" /\ custom = Chosen
    BY <1>1, <1>6, StorageAssumption
       DEF Show, InSpoke, CanAccess, IInv, TypeOK, Busy, Part, None, Turn, Chosen
  <2>2. scan' = scan /\ exec' = exec /\ obj = None /\ obj' = None
    BY <1>1, <1>6, <2>1 DEF Show, clientVars
  <2>3. playground = None
    BY <1>6, <2>1 DEF Show, Turn
  <2>4. (Emptying => Emptying') /\ StorageInv
    BY <1>1, <1>2, <2>2
  <2>5. Access(custom) /\ Store(Accessed(custom)) /\ UNCHANGED <<current, playground, applied>>
    BY <1>6 DEF Show
  <2> QED
    BY <2>1, <2>2, <2>3, <2>4, <2>5, MadeAccessed
<1>7. CASE ResetCustom
  <2>1. Store(heap) /\ ResetPartitioning /\ obj' = obj /\ exec' = exec
    BY <1>7 DEF ResetCustom
  <2>2. heap'[current] = heap[current] /\ (obj # None => heap'[obj] = heap[obj])
    BY <1>1, <2>1, ResetReads
  <2> QED
    BY <1>1, <2>1, <2>2, MadeReset
<1>8. ASSUME NEW disks \in Selection, NEW m \in Method, Done(disks, m)
      PROVE  Made'
  <2>1. exec' = exec /\ obj' = obj /\ scan' = scan /\ current' = current /\ Store(heap)
    BY <1>8 DEF Done, ResetPartitioning
  <2>2. \A c \in Live' \ {None} : heap'[c] = heap[c]
    BY <2>1, Reading
  <2>3. /\ heap'[current] = heap[current]
        /\ obj # None => heap'[obj] = heap[obj]
    BY <1>1, <2>1, <2>2, Names DEF Live
  <2>4. CASE ResetPartitioning
    BY <1>1, <2>1, <2>3, <2>4, MadeReset
  <2>5. CASE ~ ResetPartitioning
    <3>1. UNCHANGED <<current, playground, applied, own>>
      BY <1>8, <2>5 DEF Done
    <3>2. /\ playground # None => heap'[playground] = heap[playground]
          /\ \A p \in Part : own[p] # None => heap'[own[p]] = heap[own[p]]
      BY <1>1, <2>2, <3>1, Names DEF Live
    <3>3. \A p \in Part : own[p] # None => WorkOf(heap'[own[p]], p) /\ heap'[own[p]].scan = heap[own[p]].scan
      BY <3>2 DEF Made, OwnWork
    <3>4. obj # None => WorkOf(heap'[obj], exec.part)
      BY <2>3 DEF Made, OwnWork
    <3>5. (Emptying => Emptying') /\ StorageInv
      BY <1>1, <1>2, <2>1
    <3> QED
      BY <2>1, <2>3, <3>1, <3>2, <3>3, <3>4, <3>5, MadeKept
  <2> QED
    BY <2>4, <2>5
<1>9. ASSUME NEW ok \in BOOLEAN, Edit(ok)
      PROVE  Made'
  <2>1. custom \in Part /\ exec.at = "idle" /\ exec' = exec /\ scan' = scan /\ obj = None /\ obj' = None
    BY <1>1, <1>9 DEF Edit, InSpoke, models, IInv, Busy, TypeOK
  <2>2. (Emptying => Emptying') /\ StorageInv
    BY <1>1, <1>2, <2>1
  <2>3. own[custom] # None /\ CanChange(own[custom]) /\ Store(Changed(own[custom], custom, ok))
        /\ UNCHANGED <<current, playground, own, applied>>
    BY <1>9 DEF Edit, models
  <2> QED
    BY <2>1, <2>2, <2>3, MadeChanged
<1>10. ASSUME NEW ok \in BOOLEAN, PlanAutomatic(ok)
       PROVE  Made'
  <2>1. CreatePartitioning(picked) /\ picked \in Selection /\ scan' = scan /\ exec.at = "idle"
    BY <1>1, <1>10 DEF PlanAutomatic, IInv, TypeOK
  <2>2. (Emptying => Emptying') /\ obj = None /\ StorageInv
    BY <1>1, <1>2, <2>1
  <2> QED
    BY <2>1, <2>2, MadeCreated
<1> QED
  BY <1>4, <1>5, <1>6, <1>7, <1>8, <1>9, <1>10 DEF User

\* Every step keeps it.
LEMMA StepMakes == IInv /\ IInv' /\ Turn /\ Made /\ [Next]_vars => Made'
<1> SUFFICES ASSUME IInv, StorageInv', Turn, Made, [Next]_vars PROVE Made'
  BY DEF IInv
<1>1. CASE Executor
  BY <1>1, ExecutorMakes
<1>2. CASE User
  BY <1>2, UserMakes
<1>3. CASE \E t \in Scanner : Scan(t) \/ GiveUp(t) \/ Succeed(t) \/ Reset(t)
  BY <1>3, ScannersMake
<1>4. CASE UNCHANGED vars
  <2>1. UNCHANGED <<heap, current, playground, own, applied, obj, exec, scan>>
    BY <1>4 DEF vars, storageVars, models, clientVars
  <2> QED
    BY <2>1, MadeStays DEF IInv, Emptying
<1> QED
  BY <1>1, <1>2, <1>3, <1>4 DEF Next

\* The inductive invariant of the clients' layouts.
THEOREM LayoutInvariant == Spec => [](IInv /\ Turn /\ Made)
<1>1. Init => Turn /\ Made
  BY InitTurn, InitMade
<1>2. IInv /\ IInv' /\ Turn /\ Made /\ [Next]_vars => Turn' /\ Made'
  BY StepTurns, StepMakes
<1> QED
  BY <1>1, <1>2, StorageInvariant, PTL DEF Spec

-----------------------------------------------------------------------------
(* What a completed spoke stands for.                                      *)

\* When no thread runs and no error is shown, the layout that is applied is
\* the last one that was checked, unless the user is editing it.
Shown ==
    /\ applied <= created
    /\ (playground # None /\ ~ errors /\ NoThreads /\ spoke # "custom") =>
            /\ applied = exec.part /\ own[applied] # None
            /\ heap[own[applied]] = heap[playground]

\* The threads that run are not idle.
LEMMA Running ==
  ASSUME IInv, Executor
  PROVE  /\ exec.at \notin {"idle", "rescan"} /\ exec.part \in 1 .. created /\ exec.part \in Part
         /\ created' = created
         /\ UNCHANGED <<ui, ready>>
         /\ \A at : exec' = [exec EXCEPT !.at = at] => exec'.at = at /\ exec'.part = exec.part
<1>1. exec.at \notin {"idle", "rescan"} /\ created' = created /\ UNCHANGED <<ui, ready>>
  <2>1. ASSUME Configured
        PROVE  exec.at = "configuring" /\ created' = created /\ UNCHANGED <<ui, ready>>
    BY <2>1 DEF Configured, ExecIs
  <2>2. CASE \E ok \in BOOLEAN : Configure(ok) \/ BootloaderError(ok) \/ StorageError(ok)
    BY <2>1, <2>2 DEF Configure, BootloaderError, StorageError
  <2>3. CASE Apply \/ ApplyRaises
    BY <2>3 DEF Apply, ApplyRaises, ApplyPartitioning, RefusePartitioning, ExecIs
  <2>4. CASE ConfigureWithTask \/ ValidateWithTask \/ Validate
    BY <2>4 DEF ConfigureWithTask, ValidateWithTask, Validate, Hold, ExecIs
  <2> QED
    BY <2>2, <2>3, <2>4 DEF Executor
<1> QED
  BY <1>1, StorageAssumption DEF IInv, TypeOK, StorageInv, StorageTypeOK, Busy, Part

\* Only apply_partitioning ends without an error.
LEMMA ExecutorShows ==
  ASSUME IInv, StorageInv', Turn, Made, Shown, Executor
  PROVE  Shown'
<1>1. /\ exec.at \notin {"idle", "rescan"} /\ exec.part \in 1 .. created /\ exec.part \in Part
      /\ created' = created
      /\ \A at : exec' = [exec EXCEPT !.at = at] => exec'.at = at /\ exec'.part = exec.part
      /\ created \in Nat
  <2>1. created \in Nat
    BY DEF IInv, StorageInv, StorageTypeOK
  <2> QED
    BY <2>1, Running
<1>2. ASSUME applied' \in {applied, None},
             errors' \/ exec' = exec
               \/ \E at \in {"configuring", "validate", "validating", "apply", "rescan"} : exec' = [exec EXCEPT !.at = at]
      PROVE  Shown'
  <2>1. applied' <= created'
    BY <1>1, <1>2 DEF Shown, None
  <2>2. errors' \/ exec'.at # "idle"
    BY <1>1, <1>2
  <2> QED
    BY <2>1, <2>2 DEF Shown, NoThreads
<1>3. CASE ConfigureWithTask \/ ValidateWithTask
  BY <1>2, <1>3 DEF ConfigureWithTask, ValidateWithTask, Hold, Go
<1>4. CASE Validate
  BY <1>2, <1>4 DEF Validate, Go, Finish, Report
<1>5. CASE ApplyRaises
  BY <1>2, <1>5 DEF ApplyRaises, RefusePartitioning
<1>6. CASE \E ok \in BOOLEAN : Configure(ok) \/ BootloaderError(ok)
  BY <1>2, <1>6 DEF Configure, BootloaderError, Go, Finish, Report
<1>7. CASE \E ok \in BOOLEAN : StorageError(ok)
  BY <1>2, <1>7 DEF StorageError, ResetPartitioning, NotApplied, Go, Finish, Report
<1>8. CASE Apply
  <2>1. obj = None /\ scan' = scan /\ ApplyPartitioning(exec.part) /\ exec' = [exec EXCEPT !.at = "idle"]
    BY <1>8 DEF Apply, ExecIs, Finish, IInv, TypeOK
  <2>2. own[exec.part] = None => playground = None
    BY <1>1 DEF Turn
  <2>3. Emptying => Emptying'
    BY <2>1 DEF Emptying
  <2>4. /\ own[exec.part] # None /\ own' = own /\ applied' = exec.part
        /\ heap'[own[exec.part]] = heap[own[exec.part]] /\ heap'[playground'] = heap[own[exec.part]]
    BY <1>1, <2>1, <2>2, <2>3, MadeApplied DEF IInv
  <2>5. exec'.part = exec.part
    BY <1>1, <2>1
  <2> QED
    BY <1>1, <2>4, <2>5 DEF Shown
<1> QED
  BY <1>3, <1>4, <1>5, <1>6, <1>7, <1>8 DEF Executor

\* A scan ends with nothing applied.
LEMMA ScannersShow ==
  ASSUME IInv, Shown,
         NEW t \in Scanner, Scan(t) \/ GiveUp(t) \/ Succeed(t) \/ Reset(t)
  PROVE  Shown'
<1> USE DEF ScanIs
<1>1. /\ scan \in [Scanner -> [at : {"idle", "scan", "scanned", "reset"}, number : 0 .. MaxScans]]
      /\ created \in Nat
  BY DEF IInv, TypeOK, StorageInv, StorageTypeOK
<1>2. CASE Scan(t)
  BY <1>1, <1>2 DEF Scan, Shown, NoThreads
<1>3. CASE GiveUp(t)
  BY <1>1, <1>3 DEF GiveUp, storageVars, Shown, NoThreads
<1>4. CASE Succeed(t)
  BY <1>1, <1>4 DEF Succeed, SetStorage, ScanAt, Shown, NoThreads
<1>5. CASE Reset(t)
  BY <1>1, <1>5 DEF Reset, ResetPartitioning, NotApplied, Shown, None
<1> QED
  BY <1>2, <1>3, <1>4, <1>5

\* The user edits in the custom spoke only, and leaves it after a check or by
\* way of a scan.
LEMMA UserShows ==
  ASSUME IInv, StorageInv', Turn, Made, Shown, User
  PROVE  Shown'
<1> USE DEF In
<1>1. /\ scan \in [Scanner -> [at : {"idle", "scan", "scanned", "reset"}, number : 0 .. MaxScans]]
      /\ StorageInv /\ created \in 0 .. MaxParts /\ applied \in Part \cup {None} /\ applied <= created
      /\ exec.at = "idle" => obj = None
      /\ spoke \notin {"hub", "checking"} => exec.at = "idle"
  BY DEF IInv, TypeOK, StorageInv, StorageTypeOK, Busy, Shown
<1>2. ASSUME ScanAt("storage", "scan")
      PROVE  ~ NoThreads'
  BY <1>1, <1>2 DEF ScanAt, NoThreads, Scanner
<1>3. ASSUME NEW p, Execute(p)
      PROVE  ~ NoThreads'
  BY <1>3 DEF Execute, NoThreads
<1>4. ASSUME UNCHANGED <<heap, own, playground, applied, created, errors>>,
             ~ NoThreads' \/ (UNCHANGED <<exec, scan>> /\ (spoke = "custom" => spoke' = "custom"))
      PROVE  Shown'
  BY <1>1, <1>4 DEF Shown, NoThreads
<1>5. CASE EnterStorage \/ NothingToFormat \/ Refreshed \/ LeaveCustom \/ EndRescan
  BY <1>4, <1>5 DEF EnterStorage, NothingToFormat, Refreshed, LeaveCustom, EndRescan, storageVars, models
<1>6. CASE Check
  BY <1>3, <1>4, <1>6 DEF Check, storageVars, models
<1>7. CASE Rescan \/ FormatDisks \/ \E disks \in Selection : RefreshDisks(disks)
  BY <1>2, <1>4, <1>7 DEF Rescan, FormatDisks, RefreshDisks, Select, storageVars, models
<1>8. CASE BackOut \/ ReturnToHub
  BY <1>3, <1>4, <1>8 DEF BackOut, ReturnToHub, Select, models
<1>9. CASE \E disks \in Selection : Initialize(disks) \/ Specialize(disks)
  BY <1>3, <1>4, <1>9 DEF Initialize, Specialize, Select, Execute, NoThreads, models, clientVars, ui
<1>10. CASE EnterCustom
  <2>1. spoke' = "custom" /\ applied' = applied /\ created' \in {created, created + 1}
    BY <1>10 DEF EnterCustom, Select, CreatePartitioning
  <2> QED
    BY <1>1, <2>1, StorageAssumption DEF Shown, Part, None
<1>11. CASE Show
  <2>1. playground = None
    BY <1>1, <1>11 DEF Show, InSpoke, Turn, Chosen
  <2> QED
    BY <1>1, <1>11, <2>1 DEF Show, Shown
<1>12. CASE ResetCustom
  BY <1>1, <1>12 DEF ResetCustom, ResetPartitioning, NotApplied, Shown, None
<1>13. ASSUME NEW disks \in Selection, NEW m \in Method, Done(disks, m)
       PROVE  Shown'
  <2>1. UNCHANGED <<exec, scan, errors, current>> /\ Store(heap) /\ spoke # "custom"
    BY <1>13 DEF Done, ResetPartitioning
  <2>2. CASE ResetPartitioning
    BY <1>1, <2>2 DEF ResetPartitioning, NotApplied, Shown, None
  <2>3. CASE ~ ResetPartitioning
    <3>1. UNCHANGED <<playground, applied, created, own>>
      BY <1>13, <2>3 DEF Done
    <3>2. \A c \in Live' \ {None} : heap'[c] = heap[c]
      BY <2>1, Reading
    <3>3. playground # None => heap'[playground] = heap[playground]
      BY <3>1, <3>2 DEF Live
    <3>4. \A p \in Part : own[p] # None => heap'[own[p]] = heap[own[p]]
      BY <3>1, <3>2 DEF Live
    <3>5. (playground # None) => applied \in Part
      BY <1>1 DEF StorageInv, StorageTypeOK
    <3>6. NoThreads' = NoThreads
      BY <2>1 DEF NoThreads
    <3> QED
      BY <2>1, <3>1, <3>3, <3>4, <3>5, <3>6 DEF Shown
  <2> QED
    BY <2>2, <2>3
<1>14. ASSUME NEW ok \in BOOLEAN, Edit(ok)
       PROVE  Shown'
  BY <1>1, <1>14 DEF Edit, Shown
<1>15. ASSUME NEW ok \in BOOLEAN, PlanAutomatic(ok)
       PROVE  Shown'
  <2>1. CreatePartitioning(picked) /\ picked \in Selection /\ UNCHANGED <<scan, errors>> /\ exec.at = "idle"
        /\ obj = None /\ spoke = "plan"
    BY <1>1, <1>15 DEF PlanAutomatic, IInv, TypeOK
  <2>2. Emptying => Emptying'
    BY <2>1 DEF Emptying
  <2>3. /\ playground # None => heap'[playground] = heap[playground]
        /\ \A p \in Part \ {created'} : own[p] # None => heap'[own[p]] = heap[own[p]]
    BY <1>1, <2>1, <2>2, MadeCreated
  <2>4. UNCHANGED <<playground, applied>> /\ created' = created + 1
        /\ \A p \in Part \ {created'} : own'[p] = own[p]
    BY <1>1, <2>1 DEF CreatePartitioning, StorageInv, StorageTypeOK
  <2>5. applied # created' /\ applied <= created' /\ (playground # None => applied \in Part)
    BY <1>1, <2>4, StorageAssumption DEF StorageInv, StorageTypeOK, Part, None
  <2>6. ok => ~ NoThreads'
    BY <1>3, <1>15 DEF PlanAutomatic
  <2>7. ~ ok => exec' = exec
    BY <1>15 DEF PlanAutomatic
  <2> QED
    BY <2>1, <2>3, <2>4, <2>5, <2>6, <2>7 DEF Shown, NoThreads
<1> QED
  BY <1>5, <1>6, <1>7, <1>8, <1>9, <1>10, <1>11, <1>12, <1>13, <1>14, <1>15 DEF User

\* Every step keeps it.
LEMMA StepShows == IInv /\ IInv' /\ Turn /\ Made /\ Shown /\ [Next]_vars => Shown'
<1> SUFFICES ASSUME IInv, StorageInv', Turn, Made, Shown, [Next]_vars PROVE Shown'
  BY DEF IInv
<1>1. CASE Executor
  BY <1>1, ExecutorShows
<1>2. CASE User
  BY <1>2, UserShows
<1>3. CASE \E t \in Scanner : Scan(t) \/ GiveUp(t) \/ Succeed(t) \/ Reset(t)
  BY <1>3, ScannersShow
<1>4. CASE UNCHANGED vars
  BY <1>4 DEF vars, storageVars, models, clientVars, ui, Shown, NoThreads
<1> QED
  BY <1>1, <1>2, <1>3, <1>4 DEF Next

\* The disks that the user picked, and those that the models do not hide:
\* the modules know the selection; in the custom spoke the selection is what
\* was picked last, and so are the disks of its module; a layout that is
\* being made is one for the selection, unless the scan that is running will
\* drop it.
Picked ==
    /\ \A p \in 1 .. created : disksOf[p] = selected
    /\ spoke \in {"leaving", "format", "plan", "custom", "checking"} => picked = lastDisks
    /\ spoke \in {"custom", "checking"} => selected = lastDisks
    /\ custom # None \/ spoke \in {"leaving", "format", "plan"} => lastDisks # NoDisks
    /\ (custom # None /\ own[custom] # None) => heap[own[custom]].disks = lastDisks
    /\ (exec.at # "idle" /\ scan["storage"].at = "idle" /\ selected # NoDisks /\ own[exec.part] # None) =>
            heap[own[exec.part]].disks = selected

\* So are those of the layout that was made, outside of the spokes.
Used ==
    (playground # None /\ ~ errors /\ NoThreads /\ spoke \in {"hub", "checking"} /\ selected # NoDisks) =>
        heap[playground].disks = selected

\* What apply_partitioning does to them.
LEMMA ExecutorUses ==
  ASSUME IInv, StorageInv', Turn, Made, Picked, Used, Executor
  PROVE  Picked' /\ Used'
<1>1. /\ exec.at \notin {"idle", "rescan"} /\ exec.part \in 1 .. created /\ exec.part \in Part
      /\ created' = created
      /\ UNCHANGED <<ui, ready>>
      /\ \A at : exec' = [exec EXCEPT !.at = at] => exec'.at = at /\ exec'.part = exec.part
  BY Running
<1>2. /\ StorageInv /\ custom \in Part \cup {None} /\ exec.part = Chosen
      /\ own[exec.part] = None => playground = None
      /\ exec.part # custom => method = "automatic"
      /\ exec.part = custom => spoke = "checking"
      /\ scan \in [Scanner -> [at : {"idle", "scan", "scanned", "reset"}, number : 0 .. MaxScans]]
      /\ own \in [Part -> Cell \cup {None}]
      /\ scan["execute"].at = "idle"
  BY <1>1 DEF IInv, TypeOK, StorageInv, StorageTypeOK, Busy, Turn, Chosen
<1>3. ASSUME UNCHANGED <<selected, disksOf>>, exec'.part = exec.part,
             scan'["storage"] = scan["storage"],
             custom # None /\ own'[custom] # None => heap'[own'[custom]].disks = lastDisks,
             own'[exec.part] # None /\ selected # NoDisks /\ scan["storage"].at = "idle" =>
                heap'[own'[exec.part]].disks = selected
      PROVE  Picked'
  BY <1>1, <1>3 DEF Picked, ui
<1>4. ASSUME errors' \/ exec'.at # "idle"
      PROVE  Used'
  BY <1>4 DEF Used, NoThreads
<1>5. ASSUME UNCHANGED <<selected, disksOf>>, exec'.part = exec.part,
             scan'["storage"] = scan["storage"],
             UNCHANGED own,
             \A p \in Part : own[p] # None => heap'[own[p]].disks = heap[own[p]].disks
      PROVE  Picked'
  <2>1. custom # None /\ own[custom] # None => heap'[own[custom]].disks = lastDisks
    BY <1>2, <1>5 DEF Picked
  <2>2. own[exec.part] # None /\ selected # NoDisks /\ scan["storage"].at = "idle" =>
            heap'[own[exec.part]].disks = selected
    BY <1>1, <1>5 DEF Picked
  <2> QED
    BY <1>3, <1>5, <2>1, <2>2
<1>6. ASSUME CanAccess(exec.part), Access(exec.part), Store(Accessed(exec.part)), obj = None,
             obj' \in {None, Playground(exec.part)},
             UNCHANGED <<current, playground, applied, selected, disksOf, scan>>,
             exec'.part = exec.part
      PROVE  Picked'
  <2>1. Emptying => Emptying'
    BY <1>6 DEF Emptying
  <2>2. /\ heap'[own'[exec.part]] = Accessed(exec.part)[Playground(exec.part)]
        /\ \A q \in Part \ {exec.part} : own'[q] = own[q] /\ (own[q] # None => heap'[own[q]] = heap[own[q]])
    BY <1>1, <1>2, <1>6, <2>1, MadeAccessed
  <2>3. /\ own[exec.part] = None => heap'[own'[exec.part]].disks = disksOf[exec.part]
        /\ own[exec.part] # None => heap'[own'[exec.part]] = heap[own[exec.part]]
    BY <1>1, <1>2, <1>6, <2>2, MadeAccess
  <2>4. own'[exec.part] # None /\ selected # NoDisks /\ scan["storage"].at = "idle" =>
            heap'[own'[exec.part]].disks = selected
    BY <1>1, <2>3 DEF Picked
  <2>5. custom # None /\ own'[custom] # None => heap'[own'[custom]].disks = lastDisks
    <3>1. CASE custom = exec.part
      BY <1>1, <1>2, <2>3, <3>1 DEF Picked
    <3>2. CASE custom # exec.part
      BY <1>2, <2>2, <3>2 DEF Picked
    <3> QED
      BY <3>1, <3>2
  <2> QED
    BY <1>3, <1>6, <2>4, <2>5
<1>10. CASE ConfigureWithTask \/ ValidateWithTask
  <2>1. Hold(exec.part) /\ scan' = scan /\ obj = None
    BY <1>10 DEF ConfigureWithTask, ValidateWithTask, ExecIs, IInv, TypeOK
  <2>2. exec'.at # "idle" /\ exec'.part = exec.part
    BY <1>1, <1>10 DEF ConfigureWithTask, ValidateWithTask, Go
  <2> QED
    BY <1>4, <1>6, <2>1, <2>2 DEF Hold
<1>11. CASE Validate
  <2>1. UNCHANGED <<own, selected, disksOf, scan>> /\ Store(heap)
    BY <1>11 DEF Validate
  <2>2. (errors' \/ exec'.at # "idle") /\ exec'.part = exec.part
    BY <1>1, <1>11 DEF Validate, Go, Finish, Report
  <2>3. \A p \in Part : own[p] # None => heap'[own[p]] = heap[own[p]]
    <3>1. \A c \in Live' \ {None} : heap'[c] = heap[c]
      BY <2>1, Reading
    <3>2. \A p \in Part : own[p] \in Live'
      BY <2>1 DEF Live
    <3> QED
      BY <3>1, <3>2
  <2> QED
    BY <1>4, <1>5, <2>1, <2>2, <2>3
<1>12. CASE Apply
  <2>1. obj = None /\ scan' = scan /\ ApplyPartitioning(exec.part) /\ exec' = [exec EXCEPT !.at = "idle"]
    BY <1>12 DEF Apply, ExecIs, Finish, IInv, TypeOK
  <2>2. Emptying => Emptying'
    BY <2>1 DEF Emptying
  <2>3. /\ own[exec.part] # None /\ own' = own
        /\ \A q \in Part : own[q] # None => heap'[own[q]] = heap[own[q]]
        /\ heap'[playground'] = heap[own[exec.part]]
    BY <1>1, <1>2, <2>1, <2>2, MadeApplied
  <2>4. exec'.part = exec.part /\ UNCHANGED <<selected, disksOf>>
    BY <1>1, <2>1 DEF ApplyPartitioning
  <2>5. Picked'
    BY <1>5, <2>1, <2>3, <2>4
  <2>6. Used'
    <3>1. NoThreads' => scan["storage"].at = "idle"
      BY <2>1 DEF NoThreads, Scanner
    <3> QED
      BY <1>1, <2>3, <2>4, <3>1 DEF Picked, Used
  <2> QED
    BY <2>5, <2>6
<1>13. CASE ApplyRaises
  <2>1. obj = None /\ RefusePartitioning(exec.part) /\ scan' = scan /\ exec' = exec
    BY <1>13 DEF ApplyRaises, ExecIs, IInv, TypeOK
  <2> QED
    BY <1>1, <1>4, <1>6, <2>1 DEF RefusePartitioning
<1>14. ASSUME NEW ok \in BOOLEAN, Configured, Store(Changed(obj, exec.part, ok)),
              UNCHANGED <<current, playground, applied, own>>,
              Emptying => Emptying'
       PROVE  \A p \in Part : own[p] # None => heap'[own[p]].disks = heap[own[p]].disks
  <2>1. obj # None /\ CanChange(obj) /\ obj' = None
    BY <1>14 DEF Configured, ExecIs, IInv, TypeOK
  <2> QED
    BY <1>1, <1>2, <1>14, <2>1, MadeChanged
<1>15. ASSUME NEW ok \in BOOLEAN, Configure(ok) \/ BootloaderError(ok)
       PROVE  Picked' /\ Used'
  <2>1. /\ Configured /\ scan' = scan /\ UNCHANGED <<current, playground, applied, own>>
        /\ Store(Changed(obj, exec.part, ok)) /\ UNCHANGED <<selected, disksOf>>
    BY <1>15 DEF Configure, BootloaderError, Configured
  <2>2. (errors' \/ exec'.at # "idle") /\ exec'.part = exec.part
    BY <1>1, <1>15 DEF Configure, BootloaderError, Go, Finish, Report
  <2>3. Emptying => Emptying'
    BY <2>1 DEF Emptying
  <2> QED
    BY <1>4, <1>5, <1>14, <2>1, <2>2, <2>3
<1>16. ASSUME NEW ok \in BOOLEAN, StorageError(ok)
       PROVE  Picked' /\ Used'
  <2>1. Configured /\ Store(Changed(obj, exec.part, ok)) /\ UNCHANGED <<selected, disksOf>>
    BY <1>16 DEF StorageError, Configured
  <2>2. (errors' \/ exec'.at # "idle") /\ exec'.part = exec.part
    BY <1>1, <1>16 DEF StorageError, Go, Finish, Report
  <2>3. scan'["storage"] = scan["storage"] /\ (Emptying => Emptying')
    BY <1>2, <1>16 DEF StorageError, ScanAt, Scanner, Emptying
  <2>4. CASE InCustomSpoke
    <3>1. own' = [p \in Part |-> None]
      BY <1>16, <2>4 DEF StorageError, ResetPartitioning, DropPlaygrounds
    <3>2. own'[exec.part] = None /\ (custom # None => own'[custom] = None)
      BY <1>1, <1>2, <3>1
    <3> QED
      BY <1>3, <1>4, <2>1, <2>2, <2>3, <3>2
  <2>5. CASE ~ InCustomSpoke
    <3>1. UNCHANGED <<current, playground, applied, own>>
      BY <1>16, <2>5 DEF StorageError
    <3> QED
      BY <1>4, <1>5, <1>14, <2>1, <2>2, <2>3, <3>1
  <2> QED
    BY <2>4, <2>5
<1> QED
  BY <1>10, <1>11, <1>12, <1>13, <1>15, <1>16 DEF Executor

\* What a scan does to them.
LEMMA ScannersUse ==
  ASSUME IInv, StorageInv', Turn, Made, Picked, Used,
         NEW t \in Scanner, Scan(t) \/ GiveUp(t) \/ Succeed(t) \/ Reset(t)
  PROVE  Picked' /\ Used'
<1> USE DEF ScanIs
<1>1. /\ scan \in [Scanner -> [at : {"idle", "scan", "scanned", "reset"}, number : 0 .. MaxScans]]
      /\ StorageInv /\ custom \in Part \cup {None} /\ scan[t].number \in 0 .. MaxScans
      /\ exec.at # "idle" => exec.part \in Part
  BY StorageAssumption DEF IInv, TypeOK, StorageInv, StorageTypeOK, Busy, Part
<1>2. CASE Scan(t)
  BY <1>1, <1>2 DEF Scan, models, ui, Scanner, Picked, Used, NoThreads
<1>3. CASE GiveUp(t)
  BY <1>1, <1>3 DEF GiveUp, storageVars, models, ui, Picked, Used, NoThreads
<1>4. CASE Succeed(t)
  <2>1. scan'[t].at = "reset" /\ \A u \in Scanner \ {t} : scan'[u] = scan[u]
    BY <1>1, <1>4 DEF Succeed, ScanAt
  <2>2. Emptying' /\ exec' = exec /\ SetStorage(scan[t].number)
    BY <1>4, <2>1 DEF Succeed, Emptying
  <2>3. \A p \in Part : own[p] # None => heap'[own[p]] = heap[own[p]]
    BY <1>1, <2>2, MadeSet
  <2>4. UNCHANGED <<own, selected, disksOf, created, ui>>
    BY <1>4, <2>2 DEF Succeed, SetStorage
  <2>5. scan'["storage"].at = "idle" => scan["storage"].at = "idle"
    BY <1>1, <2>1 DEF Scanner
  <2>6. UNCHANGED <<spoke, picked, lastDisks, custom>>
    BY <2>4 DEF ui
  <2>7. (custom # None /\ own[custom] # None) => heap'[own[custom]].disks = lastDisks
    BY <1>1, <2>3 DEF Picked
  <2>8. (exec.at # "idle" /\ scan'["storage"].at = "idle" /\ selected # NoDisks /\ own[exec.part] # None) =>
            heap'[own[exec.part]].disks = selected
    BY <1>1, <2>3, <2>5 DEF Picked
  <2>9. Picked'
    BY <2>2, <2>4, <2>6, <2>7, <2>8 DEF Picked
  <2> QED
    BY <2>1, <2>9 DEF Used, NoThreads
<1>5. CASE Reset(t)
  <2>1. own' = [p \in Part |-> None] /\ playground' = None /\ UNCHANGED <<selected, disksOf, created, ui>>
    BY <1>5 DEF Reset, ResetPartitioning, DropPlaygrounds
  <2>2. exec'.at # "idle" => exec' = exec
    BY <1>5 DEF Reset, IInv, TypeOK
  <2> QED
    BY <1>1, <2>1, <2>2 DEF Picked, Used, ui
<1> QED
  BY <1>2, <1>3, <1>4, <1>5

\* What the user does to them.
LEMMA UserUses ==
  ASSUME IInv, StorageInv', Turn, Made, Picked, Used, User
  PROVE  Picked' /\ Used'
<1> USE DEF In
<1>1. /\ scan \in [Scanner -> [at : {"idle", "scan", "scanned", "reset"}, number : 0 .. MaxScans]]
      /\ StorageInv /\ created \in 0 .. MaxParts
      /\ own \in [Part -> Cell \cup {None}]
      /\ auto \in Part /\ custom \in Part \cup {None} /\ auto <= created /\ custom <= created /\ auto # custom
      /\ exec.at = "idle" => obj = None
      /\ exec.at # "idle" => exec.part \in Part
      /\ spoke \notin {"hub", "checking"} => exec.at = "idle"
      /\ spoke \in {"custom", "checking", "rescan"} => custom # None
      /\ ~ ready => exec.at = "idle" /\ spoke = "hub" /\ Quiet
      /\ (spoke \in {"refresh", "format", "rescan"} /\ scan["storage"].at = "idle") => Quiet
  BY StorageAssumption DEF IInv, TypeOK, StorageInv, StorageTypeOK, Busy, Turn, Part
<1>2. ASSUME ScanAt("storage", "scan")
      PROVE  scan'["storage"].at = "scan" /\ ~ NoThreads'
  BY <1>1, <1>2 DEF ScanAt, NoThreads, Scanner
<1>3. ASSUME NEW p, Execute(p)
      PROVE  exec'.at = "configure" /\ exec'.part = p /\ ~ NoThreads'
  BY <1>3 DEF Execute, NoThreads
<1>4. NoThreads => scan["storage"].at = "idle"
  BY DEF NoThreads, Scanner
<1>5. ASSUME NEW disks \in Selection, Select(disks)
      PROVE  /\ UNCHANGED <<heap, own, playground, created>> /\ selected' = disks
             /\ \A p \in 1 .. created : disksOf'[p] = disks
  <2>1. \A p \in 1 .. created : p \in Part
    BY <1>1, StorageAssumption DEF Part
  <2> QED
    BY <1>5, <2>1 DEF Select, SelectDisks, models
<1>6. ASSUME NEW disks \in Selection, CreatePartitioning(disks), exec.at = "idle", scan' = scan
      PROVE  /\ selected' = disks /\ created' = created + 1 /\ created' \in Part
             /\ \A p \in 1 .. created' : disksOf'[p] = disks
             /\ own'[created'] # None /\ heap'[own'[created']].disks = disks
             /\ \A p \in Part \ {created'} :
                    own'[p] = own[p] /\ (own[p] # None => heap'[own[p]] = heap[own[p]])
  <2>1. (Emptying => Emptying') /\ obj = None
    BY <1>1, <1>6 DEF Emptying
  <2>2. created' = created + 1 /\ created' \in Part /\ selected' = disks
    BY <1>1, <1>6, StorageAssumption DEF CreatePartitioning, SelectDisks, Part
  <2>3. \A p \in 1 .. created' : p \in Part /\ disksOf'[p] = disks
    BY <1>1, <1>6, <2>2, StorageAssumption DEF CreatePartitioning, SelectDisks, Part
  <2>4. Free(heap) \in Cell /\ Free(heap) # None
    BY <1>6, FreeCell, StorageAssumption DEF CreatePartitioning, None
  <2>5. own'[created'] # None /\ \A p \in Part \ {created'} : own'[p] = own[p]
    BY <1>1, <1>6, <2>2, <2>4 DEF CreatePartitioning
  <2>6. /\ heap'[own'[created']].disks = disks
        /\ \A p \in Part \ {created'} : own[p] # None => heap'[own[p]] = heap[own[p]]
    BY <1>1, <1>6, <2>1, MadeCreated
  <2> QED
    BY <2>2, <2>3, <2>5, <2>6
<1>10. CASE EnterStorage
  BY <1>1, <1>10 DEF EnterStorage, Ready, NoThreads, storageVars, models, Picked, Used
<1>11. CASE NothingToFormat \/ Refreshed
  BY <1>1, <1>11 DEF NothingToFormat, Refreshed, storageVars, models, Picked, Used
<1>12. CASE LeaveCustom
  BY <1>1, <1>12 DEF LeaveCustom, storageVars, models, Picked, Used, NoThreads
<1>13. CASE EndRescan
  BY <1>1, <1>4, <1>13 DEF EndRescan, storageVars, models, Picked, Used, Quiet, NoThreads, Scanner
<1>14. CASE Check
  BY <1>1, <1>3, <1>14 DEF Check, storageVars, models, Picked, Used
<1>15. CASE Rescan
  BY <1>1, <1>2, <1>15 DEF Rescan, InSpoke, storageVars, models, Picked, Used
<1>16. CASE FormatDisks
  <2>1. Select(picked) /\ picked \in Selection
    BY <1>16 DEF FormatDisks, IInv, TypeOK
  <2> QED
    BY <1>1, <1>2, <1>5, <1>16, <2>1 DEF FormatDisks, Picked, Used
<1>17. CASE BackOut
  <2>1. UNCHANGED <<heap, own, playground, created>> /\ selected' = NoDisks
        /\ \A p \in 1 .. created : disksOf'[p] = NoDisks
    BY <1>5, <1>17, StorageAssumption DEF BackOut
  <2> QED
    BY <1>1, <1>17, <2>1 DEF BackOut, Picked, Used
<1>18. CASE ReturnToHub
  <2>1. UNCHANGED <<heap, own, playground, created>> /\ selected' = picked
        /\ \A p \in 1 .. created : disksOf'[p] = picked
    BY <1>5, <1>18 DEF ReturnToHub, IInv, TypeOK
  <2>2. exec'.at # "idle" => exec'.part = auto
    BY <1>1, <1>3, <1>18 DEF ReturnToHub
  <2>3. NoThreads' => scan["storage"].at = "idle"
    BY <1>18 DEF ReturnToHub, NoThreads, Scanner
  <2>4. scan["storage"].at = "idle" => Quiet
    BY <1>1, <1>18 DEF ReturnToHub
  <2> QED
    BY <1>1, <1>18, <2>1, <2>2, <2>3, <2>4 DEF ReturnToHub, Picked, Used, Quiet
<1>19. CASE EnterCustom
  <2>1. /\ exec.at = "idle" /\ UNCHANGED <<exec, scan, picked, lastDisks>> /\ spoke = "plan" /\ spoke' = "custom"
        /\ picked \in Selection /\ picked = lastDisks /\ lastDisks # NoDisks
    BY <1>1, <1>19 DEF EnterCustom, IInv, TypeOK, Picked
  <2>2. CASE custom = None
    <3>1. CreatePartitioning(picked) /\ custom' = created'
      BY <1>19, <2>2 DEF EnterCustom, CreatePartitioning
    <3> QED
      BY <1>6, <2>1, <3>1 DEF Picked, Used
  <2>3. CASE custom # None
    <3>1. Select(picked) /\ custom' = custom
      BY <1>19, <2>3 DEF EnterCustom
    <3> QED
      BY <1>1, <1>5, <2>1, <2>3, <3>1 DEF Picked, Used
  <2> QED
    BY <2>2, <2>3
<1>20. CASE Show
  <2>1. custom \in 1 .. created /\ CanAccess(custom) /\ exec.at = "idle" /\ spoke \in {"custom", "checking"}
    BY <1>1, <1>20, StorageAssumption DEF Show, InSpoke, CanAccess, Part, None
  <2>2. UNCHANGED <<scan, exec, spoke, picked, lastDisks, custom, selected, disksOf, created>>
        /\ obj = None /\ obj' = None
    BY <1>1, <1>20, <2>1 DEF Show, clientVars, ui
  <2>3. playground = None /\ own[custom] = None
    BY <1>20, <2>1 DEF Show, Turn, Chosen
  <2>4. Emptying => Emptying'
    BY <2>2 DEF Emptying
  <2>5. Access(custom) /\ Store(Accessed(custom)) /\ UNCHANGED <<current, playground, applied>>
    BY <1>20 DEF Show
  <2>6. heap'[own'[custom]] = Accessed(custom)[Playground(custom)]
    BY <1>1, <2>1, <2>2, <2>3, <2>4, <2>5, MadeAccessed
  <2>7. Accessed(custom)[Playground(custom)].disks = disksOf[custom]
    BY <1>1, <2>1, <2>3, MadeAccess
  <2>8. disksOf[custom] = lastDisks
    BY <2>1 DEF Picked
  <2> QED
    BY <2>1, <2>2, <2>3, <2>5, <2>6, <2>7, <2>8 DEF Picked, Used
<1>21. CASE ResetCustom
  <2>1. own' = [p \in Part |-> None] /\ playground' = None /\ created' = created
    BY <1>21 DEF ResetCustom, ResetPartitioning, DropPlaygrounds
  <2> QED
    BY <1>1, <1>21, <2>1 DEF ResetCustom, InSpoke, Picked, Used
<1>22. ASSUME NEW disks \in Selection, Initialize(disks)
       PROVE  Picked' /\ Used'
  <2>1. UNCHANGED <<heap, own, playground, created>> /\ selected' = disks
        /\ \A p \in 1 .. created : disksOf'[p] = disks
    BY <1>5, <1>22 DEF Initialize
  <2>2. exec'.at # "idle" => exec'.part = auto
    BY <1>1, <1>22 DEF Initialize
  <2>3. Quiet /\ spoke = "hub" /\ UNCHANGED ui
    BY <1>1, <1>22 DEF Initialize
  <2> QED
    BY <1>1, <2>1, <2>2, <2>3 DEF ui, Picked, Used, Quiet
<1>23. ASSUME NEW disks \in Selection, Specialize(disks)
       PROVE  Picked' /\ Used'
  BY <1>1, <1>5, <1>23 DEF Specialize, clientVars, ui, Picked, Used
<1>24. ASSUME NEW disks \in Selection, RefreshDisks(disks)
       PROVE  Picked' /\ Used'
  BY <1>1, <1>2, <1>24 DEF RefreshDisks, storageVars, models, Picked, Used
<1>25. ASSUME NEW disks \in Selection, NEW m \in Method, Done(disks, m)
       PROVE  Picked' /\ Used'
  <2>1. /\ exec.at = "idle" /\ disks # NoDisks /\ picked' = disks /\ lastDisks' = disks /\ spoke' = "leaving"
        /\ UNCHANGED <<selected, disksOf, created, exec, custom>> /\ Store(heap)
    BY <1>1, <1>25 DEF Done, ResetPartitioning
  <2>2. custom # None /\ own'[custom] # None => heap'[own'[custom]].disks = disks
    <3>1. CASE ResetPartitioning
      BY <1>1, <3>1 DEF ResetPartitioning, DropPlaygrounds
    <3>2. CASE ~ ResetPartitioning
      <4>1. own' = own /\ ~ DisksChanged(disks)
        BY <1>25, <3>2 DEF Done
      <4>2. custom # None => lastDisks = disks
        BY <4>1 DEF DisksChanged, Picked
      <4>3. \A c \in Live' \ {None} : heap'[c] = heap[c]
        BY <2>1, Reading
      <4>4. \A p \in Part : own[p] \in Live'
        BY <4>1 DEF Live
      <4>5. custom # None /\ own[custom] # None => heap'[own[custom]] = heap[own[custom]]
        BY <1>1, <4>3, <4>4
      <4> QED
        BY <4>1, <4>2, <4>5 DEF Picked
    <3> QED
      BY <3>1, <3>2
  <2> QED
    BY <2>1, <2>2 DEF Picked, Used
<1>26. ASSUME NEW ok \in BOOLEAN, Edit(ok)
       PROVE  Picked' /\ Used'
  <2>1. /\ custom \in Part /\ custom # None /\ exec.at = "idle" /\ obj = None /\ obj' = None
        /\ spoke \in {"custom", "checking"}
        /\ UNCHANGED <<scan, exec, picked, lastDisks, custom, selected, disksOf, created>>
        /\ UNCHANGED <<current, playground, own, applied>> /\ spoke' = "custom"
    BY <1>1, <1>26 DEF Edit, InSpoke, models
  <2>2. own[custom] # None /\ CanChange(own[custom]) /\ Store(Changed(own[custom], custom, ok))
    BY <1>26 DEF Edit
  <2>3. Emptying => Emptying'
    BY <2>1 DEF Emptying
  <2>4. \A q \in Part : own[q] # None => heap'[own[q]].disks = heap[own[q]].disks
    BY <1>1, <2>1, <2>2, <2>3, MadeChanged
  <2> QED
    BY <2>1, <2>4 DEF Picked, Used
<1>27. ASSUME NEW ok \in BOOLEAN, PlanAutomatic(ok)
       PROVE  Picked' /\ Used'
  <2>1. /\ CreatePartitioning(picked) /\ picked \in Selection /\ exec.at = "idle" /\ spoke = "plan"
        /\ UNCHANGED <<scan, picked, lastDisks, custom>>
        /\ (ok /\ spoke' = "hub" /\ Execute(created')) \/ (spoke' = "storage" /\ exec' = exec)
    BY <1>1, <1>27 DEF PlanAutomatic, CreatePartitioning, IInv, TypeOK
  <2>2. custom # created'
    BY <1>1, <1>6, <2>1, StorageAssumption DEF Part, None
  <2>3. custom # None /\ own'[custom] # None => heap'[own'[custom]].disks = lastDisks
    BY <1>1, <1>6, <2>1, <2>2 DEF Picked
  <2>4. exec'.at # "idle" => exec'.part = created' /\ ~ NoThreads'
    BY <1>3, <2>1
  <2>5. /\ selected' = picked /\ (\A p \in 1 .. created' : disksOf'[p] = selected')
        /\ heap'[own'[created']].disks = picked
    BY <1>6, <2>1
  <2>6. exec'.at = "idle" \/ (exec'.part = created' /\ ~ NoThreads')
    BY <2>4
  <2>7. spoke' \in {"hub", "storage"} /\ (spoke' = "hub" => ~ NoThreads')
    BY <1>3, <2>1
  <2>8. Used'
    BY <2>1, <2>7 DEF Used
  <2>9. Picked'
    BY <2>1, <2>3, <2>5, <2>6, <2>7 DEF Picked
  <2> QED
    BY <2>8, <2>9
<1> QED
  BY <1>10, <1>11, <1>12, <1>13, <1>14, <1>15, <1>16, <1>17, <1>18, <1>19, <1>20, <1>21, <1>22, <1>23,
     <1>24, <1>25, <1>26, <1>27 DEF User

\* Every step keeps them.
LEMMA StepUses == IInv /\ IInv' /\ Turn /\ Made /\ Picked /\ Used /\ [Next]_vars => Picked' /\ Used'
<1> SUFFICES ASSUME IInv, StorageInv', Turn, Made, Picked, Used, [Next]_vars PROVE Picked' /\ Used'
  BY DEF IInv
<1>1. CASE Executor
  BY <1>1, ExecutorUses
<1>2. CASE User
  BY <1>2, UserUses
<1>3. CASE \E t \in Scanner : Scan(t) \/ GiveUp(t) \/ Succeed(t) \/ Reset(t)
  BY <1>3, ScannersUse
<1>4. CASE UNCHANGED vars
  BY <1>4 DEF vars, storageVars, models, clientVars, ui, Picked, Used, NoThreads
<1> QED
  BY <1>1, <1>2, <1>3, <1>4 DEF Next

\* No layout is there to be shown or used in the beginning.
LEMMA InitShown == Init => Shown /\ Picked /\ Used
  BY StorageAssumption DEF Init, Shown, Picked, Used, None, Part

\* The inductive invariant of the spokes: with the layouts of the clients,
\* what a completed spoke shows and the disks that it uses.
THEOREM SpokeInvariant == Spec => [](IInv /\ Turn /\ Made /\ Shown /\ Picked /\ Used)
<1>1. Init => Shown /\ Picked /\ Used
  BY InitShown
<1>2. IInv /\ IInv' /\ Turn /\ Made /\ Shown /\ Picked /\ Used /\ [Next]_vars => Shown' /\ Picked' /\ Used'
  BY StepShows, StepUses
<1> QED
  BY <1>1, <1>2, LayoutInvariant, PTL DEF Spec

\* What will be installed passed the checks of the storage checker and was
\* made by the module that is said to be applied and by no other, whatever
\* modules were created, applied, dropped or asked for their playground
\* before (StorageService.apply_partitioning, PartitioningModule.storage).
THEOREM AppliedIsOfItsModule == Spec => []AppliedIsOwnWork
<1>1. Made => AppliedIsOwnWork
  BY DEF Made, OwnWork
<1> QED
  BY <1>1, LayoutInvariant, PTL

\* The layout that will be installed is planned on the storage as it was last
\* scanned, but for the moment between the two calls of reset_storage
\* (ui/lib/storage.py), in whatever order the threads that scan and those
\* that plan take their steps.
THEOREM AppliedOnLastScan == Spec => []AppliedIsFresh
<1>1. Made => AppliedIsFresh
  BY DEF Made, Fresh, Planned, Emptying, AppliedIsFresh
<1> QED
  BY <1>1, LayoutInvariant, PTL

\* When the storage spoke says that it is completed, what will be installed
\* is what the last check was about and what its module still shows: no edit,
\* reset or new module came in between (StorageSpoke.completed,
\* CustomPartitioningSpoke._do_check).
THEOREM CompletedShowsApplied == Spec => []AppliedIsShown
<1>1. Shown => AppliedIsShown
  BY DEF Shown, AppliedIsShown, Completed, Ready
<1> QED
  BY <1>1, SpokeInvariant, PTL

\* A completed spoke uses the disks that are selected, unless the user left it
\* with none: no way through the dialogs leaves a layout for other disks
\* (StorageSpoke.on_back_clicked, _reset_to_snapshot, apply).
THEOREM CompletedUsesSelection == Spec => []AppliedUsesSelection
<1>1. Used => AppliedUsesSelection
  BY DEF Used, AppliedUsesSelection, Completed, Ready
<1> QED
  BY <1>1, SpokeInvariant, PTL
=============================================================================
