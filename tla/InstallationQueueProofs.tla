---------------------- MODULE InstallationQueueProofs ----------------------
(***************************************************************************)
(* "This can be done only once": for every tree of queues and tasks that   *)
(* the list operations can build, a task is run at most once, and a queue  *)
(* is done after everything that is listed in it.                          *)
(*                                                                         *)
(* The argument is about the stack of the start methods.  An item of the   *)
(* stack is listed by the item below it, which is its parent; the top      *)
(* queue has no parent; so no item is on the stack twice, although nothing *)
(* forbids a queue to be listed twice.  Hence an item that start refuses   *)
(* is done and not running.                                                *)
(*                                                                         *)
(* "The number of the current task", and the bar: the items that have      *)
(* started are closed under the parent and listed by it, so every task     *)
(* below a queue is counted in it, through whatever queues lie between;    *)
(* and what the bar shows together with the steps that are still in the    *)
(* queue of messages is the number of the tasks that were reported.        *)
(***************************************************************************)
EXTENDS InstallationQueue, SequenceTheorems, FiniteSetTheorems, TLAPS

TreeInv ==
    /\ list \in [Queue -> Seq(Item)]
    /\ parent \in [Item -> Queue \cup {NoItem}]
    /\ parent[Top] = NoItem
    /\ phase # "raised" =>
           \A q \in Queue : \A k \in 1..Len(list[q]) : parent[list[q][k]] = q

StateInv ==
    /\ phase \in {"build", "run", "ok", "raised"}
    /\ runs \in [Task -> Nat]
    /\ phase = "build" => running = {} /\ done = {} /\ stack = <<>> /\ \A t \in Task : runs[t] = 0
    /\ stack # <<>> => phase = "run"

\* A frame that has called another one stands behind the item it has called.
StackInv ==
    /\ stack \in Seq(Frame)
    /\ stack # <<>> => stack[1].item = Top
    /\ \A k \in 1..Len(stack) - 1 :
           /\ stack[k].item \in Queue
           /\ stack[k].next - 1 \in 1..Len(list[stack[k].item])
           /\ list[stack[k].item][stack[k].next - 1] = stack[k + 1].item
    /\ \A j, k \in 1..Len(stack) : stack[j].item = stack[k].item => j = k

\* The items of a queue before the one that is being started are done.
Passed(k) == IF k < Len(stack) THEN stack[k].next - 1 ELSE stack[k].next

FrameInv ==
    \A k \in 1..Len(stack) :
        /\ stack[k].item \in Queue =>
               \A j \in 1..Len(list[stack[k].item]) :
                   j < Passed(k) => list[stack[k].item][j] \in done
        /\ stack[k].item \in Task =>
               /\ stack[k].next = 1 => runs[stack[k].item] = 0
               /\ stack[k].next > 1 => runs[stack[k].item] = 1

RunInv ==
    /\ \A k \in 1..Len(stack) : stack[k].next > 0 => stack[k].item \in running
    /\ phase = "run" =>
           /\ \A i \in running : \E k \in 1..Len(stack) : stack[k].item = i /\ stack[k].next > 0
           /\ \A t \in Task : runs[t] > 0 => t \in running \cup done
    /\ \A t \in Task : runs[t] <= 1
    /\ \A t \in done \cap Task : runs[t] = 1
    /\ \A q \in done \cap Queue : \A k \in 1..Len(list[q]) : list[q][k] \in done

IInv == TreeInv /\ StateInv /\ StackInv /\ FrameInv /\ RunInv

-----------------------------------------------------------------------------
(* What the two moves on the stack do                                      *)

\* NextLine moves the last frame on and no other.
LEMMA NextLineMoves ==
    ASSUME stack \in Seq(Frame), stack # <<>>, NextLine
    PROVE  /\ stack' \in Seq(Frame) /\ Len(stack') = Len(stack) /\ Len(stack) \in Nat \ {0}
           /\ \A k \in 1..Len(stack) :
                  /\ stack'[k].item = stack[k].item
                  /\ stack'[k].next = IF k = Len(stack) THEN stack[k].next + 1 ELSE stack[k].next
<1>1. Len(stack) \in Nat \ {0} /\ stack[Len(stack)] \in Frame
  BY EmptySeq, ElementOfSeq, LenProperties
<1>2. stack' = [stack EXCEPT ![Len(stack)] = [stack[Len(stack)] EXCEPT !.next = @ + 1]]
  BY <1>1 DEF NextLine, Frame
<1>3. [stack[Len(stack)] EXCEPT !.next = @ + 1] \in Frame
  BY <1>1 DEF Frame
<1>4. stack' \in Seq(Frame) /\ Len(stack') = Len(stack)
  BY <1>1, <1>2, <1>3, ExceptSeq
<1>5. \A k \in 1..Len(stack) :
          stack'[k] = IF k = Len(stack) THEN [stack[Len(stack)] EXCEPT !.next = @ + 1] ELSE stack[k]
  BY <1>1, <1>2, LenProperties
<1>6. \A k \in 1..Len(stack) : stack[k] \in Frame
  BY ElementOfSeq
<1>7. QED BY <1>1, <1>4, <1>5, <1>6 DEF Frame

\* Return leaves the frames below as they are.
LEMMA ReturnDrops ==
    ASSUME stack \in Seq(Frame), stack # <<>>, Return
    PROVE  /\ stack' \in Seq(Frame) /\ Len(stack) \in Nat \ {0} /\ Len(stack') = Len(stack) - 1
           /\ \A k \in 1..Len(stack) - 1 : stack'[k] = stack[k]
           /\ stack' # <<>> => Len(stack) > 1
<1>1. Len(stack) \in Nat \ {0}
  BY EmptySeq, LenProperties
<1>2. stack' \in Seq(Frame) /\ Len(stack') = Len(stack) - 1
      /\ \A k \in 1..Len(stack) - 1 : stack'[k] = stack[k]
  <2>1. \A k \in 1..Len(stack) - 1 : stack[k] \in Frame
    BY <1>1, ElementOfSeq
  <2> DEFINE last == Len(stack) - 1
  <2>2. last \in Nat /\ \A k \in 1..last : stack[k] \in Frame
    BY <1>1, <2>1
  <2> HIDE DEF last
  <2>3. /\ SubSeq(stack, 1, last) \in Seq(Frame)
        /\ Len(SubSeq(stack, 1, last)) = IF 1 <= last THEN last - 1 + 1 ELSE 0
        /\ \A k \in 1..last - 1 + 1 : SubSeq(stack, 1, last)[k] = stack[1 + k - 1]
    BY <2>2, SubSeqProperties
  <2>4. \A k \in 1..last : 1 + k - 1 = k /\ k \in 1..last - 1 + 1
    BY <2>2
  <2>5. Len(SubSeq(stack, 1, last)) = last /\ \A k \in 1..last : SubSeq(stack, 1, last)[k] = stack[k]
    BY <2>2, <2>3, <2>4
  <2>6. QED BY <2>3, <2>5 DEF Return, last
<1>3. stack' # <<>> => Len(stack) > 1
  BY <1>1, <1>2, EmptySeq
<1>4. QED BY <1>1, <1>2, <1>3

-----------------------------------------------------------------------------
(* The initial state and the list operations                               *)

LEMMA InitEstablishes ==
    ASSUME Init
    PROVE  IInv
<1> USE DEF Init
<1>1. TreeInv BY QueueAssumption DEF TreeInv, Item
<1>2. StateInv BY DEF StateInv
<1>3. StackInv BY DEF StackInv
<1>4. FrameInv BY DEF FrameInv
<1>5. RunInv BY DEF RunInv
<1>6. QED BY <1>1, <1>2, <1>3, <1>4, <1>5 DEF IInv

\* While the tree is built nothing has run, so nothing but the tree is of interest.
LEMMA EditKeepsTheRest ==
    ASSUME IInv, Edit, TreeInv', phase' \in {"build", "raised"}
    PROVE  IInv'
<1>1. running = {} /\ done = {} /\ stack = <<>> /\ \A t \in Task : runs[t] = 0
  BY DEF IInv, StateInv, Edit
<1>2. running' = {} /\ done' = {} /\ stack' = <<>> /\ runs' = runs
  BY <1>1 DEF Edit, flags
<1>3. StateInv' BY <1>1, <1>2 DEF IInv, StateInv
<1>4. StackInv' BY <1>2 DEF StackInv
<1>5. FrameInv' BY <1>2 DEF FrameInv
<1>6. RunInv' BY <1>1, <1>2 DEF RunInv
<1>7. QED BY <1>3, <1>4, <1>5, <1>6 DEF IInv

LEMMA AppendItemKeeps ==
    ASSUME IInv, NEW q \in Queue, NEW i \in Item, AppendItem(q, i)
    PROVE  IInv'
<1> USE DEF AppendItem
<1>1. TreeInv /\ phase = "build" /\ phase' = "build"
  BY DEF IInv, Edit
<1>2. i # Top /\ (parent[i] = NoItem \/ parent[i] = q)
  BY <1>1, QueueAssumption DEF Fits, TreeInv
<1>3. /\ Append(list[q], i) \in Seq(Item)
      /\ Len(Append(list[q], i)) = Len(list[q]) + 1
      /\ \A k \in 1..Len(list[q]) : Append(list[q], i)[k] = list[q][k]
      /\ Append(list[q], i)[Len(list[q]) + 1] = i
  BY <1>1, AppendProperties DEF TreeInv
<1>4. list' \in [Queue -> Seq(Item)] /\ parent' \in [Item -> Queue \cup {NoItem}] /\ parent'[Top] = NoItem
  BY <1>1, <1>2, <1>3, QueueAssumption DEF TreeInv, Item
<1>5. ASSUME NEW p \in Queue, NEW k \in 1..Len(list'[p])
      PROVE  parent'[list'[p][k]] = p
  <2>1. CASE p = q
    <3>1. list'[p] = Append(list[q], i) /\ Len(list[q]) \in Nat
      BY <1>1, <2>1, LenProperties DEF TreeInv
    <3>2. CASE k = Len(list[q]) + 1
      BY <1>1, <1>3, <2>1, <3>1, <3>2 DEF TreeInv
    <3>3. CASE k \in 1..Len(list[q])
      <4>1. list'[p][k] = list[q][k] /\ list[q][k] \in Item /\ parent[list[q][k]] = q
        BY <1>1, <1>3, <3>1, <3>3, ElementOfSeq DEF TreeInv
      <4>2. QED BY <1>1, <2>1, <4>1 DEF TreeInv
    <3>4. QED BY <1>3, <3>1, <3>2, <3>3
  <2>2. CASE p # q
    <3>1. list'[p] = list[p] /\ list[p][k] \in Item /\ parent[list[p][k]] = p
      BY <1>1, <2>2, ElementOfSeq DEF TreeInv
    <3>2. list[p][k] # i
      BY <1>2, <2>2, <3>1, QueueAssumption
    <3>3. QED BY <1>1, <3>1, <3>2 DEF TreeInv
  <2>3. QED BY <2>1, <2>2
<1>6. TreeInv'
  BY <1>4, <1>5 DEF TreeInv
<1>7. QED BY <1>1, <1>6, EditKeepsTheRest

LEMMA InsertItemKeeps ==
    ASSUME IInv, NEW q \in Queue, NEW i \in Item, InsertItem(q, i)
    PROVE  IInv'
<1> USE DEF InsertItem
<1>1. TreeInv /\ phase = "build" /\ phase' = "build"
  BY DEF IInv, Edit
<1>2. i # Top /\ parent[i] = NoItem
  BY DEF Fits
<1>3. list[q] \in Seq(Item) /\ Len(list[q]) \in Nat
  BY <1>1, LenProperties DEF TreeInv
<1>4. /\ <<i>> \o list[q] \in Seq(Item)
      /\ Len(<<i>> \o list[q]) = Len(list[q]) + 1
      /\ \A k \in 1..Len(list[q]) + 1 :
             (<<i>> \o list[q])[k] = IF k = 1 THEN i ELSE list[q][k - 1]
  BY <1>3
<1>5. list' \in [Queue -> Seq(Item)] /\ parent' \in [Item -> Queue \cup {NoItem}] /\ parent'[Top] = NoItem
  BY <1>1, <1>2, <1>4, QueueAssumption DEF TreeInv, Item
<1>6. ASSUME NEW p \in Queue, NEW k \in 1..Len(list'[p])
      PROVE  parent'[list'[p][k]] = p
  <2>1. CASE p = q
    <3>1. list'[p] = <<i>> \o list[q] /\ k \in 1..Len(list[q]) + 1
      BY <1>1, <1>4, <2>1 DEF TreeInv
    <3>2. CASE k = 1
      BY <1>1, <1>4, <2>1, <3>1, <3>2 DEF TreeInv
    <3>3. CASE k # 1
      <4>1. k - 1 \in 1..Len(list[q]) /\ list'[p][k] = list[q][k - 1]
        BY <1>3, <1>4, <3>1, <3>3
      <4>2. list[q][k - 1] \in Item /\ parent[list[q][k - 1]] = q
        BY <1>1, <1>3, <4>1, ElementOfSeq DEF TreeInv
      <4>3. QED BY <1>1, <2>1, <4>1, <4>2 DEF TreeInv
    <3>4. QED BY <3>2, <3>3
  <2>2. CASE p # q
    <3>1. list'[p] = list[p] /\ list[p][k] \in Item /\ parent[list[p][k]] = p
      BY <1>1, <2>2, ElementOfSeq DEF TreeInv
    <3>2. list[p][k] # i
      BY <1>2, <3>1, QueueAssumption
    <3>3. QED BY <1>1, <3>1, <3>2 DEF TreeInv
  <2>3. QED BY <2>1, <2>2
<1>7. TreeInv'
  BY <1>5, <1>6 DEF TreeInv
<1>8. QED BY <1>1, <1>7, EditKeepsTheRest

LEMMA SetItemKeeps ==
    ASSUME IInv, NEW q \in Queue, NEW n \in DOMAIN list[q], NEW i \in Item, SetItem(q, n, i)
    PROVE  IInv'
<1> USE DEF SetItem
<1>1. TreeInv /\ phase = "build" /\ phase' = "build"
  BY DEF IInv, Edit
<1>2. i # Top /\ parent[i] = NoItem
  BY DEF Fits
<1>3. list[q] \in Seq(Item) /\ n \in 1..Len(list[q])
  BY <1>1, LenProperties DEF TreeInv
<1>4. /\ [list[q] EXCEPT ![n] = i] \in Seq(Item)
      /\ Len([list[q] EXCEPT ![n] = i]) = Len(list[q])
      /\ \A k \in 1..Len(list[q]) :
             [list[q] EXCEPT ![n] = i][k] = IF k = n THEN i ELSE list[q][k]
  BY <1>3, ExceptSeq
<1>5. list' = [list EXCEPT ![q] = [list[q] EXCEPT ![n] = i]]
  BY <1>1 DEF TreeInv
<1>6. list' \in [Queue -> Seq(Item)] /\ parent' \in [Item -> Queue \cup {NoItem}] /\ parent'[Top] = NoItem
  BY <1>1, <1>2, <1>4, <1>5, QueueAssumption DEF TreeInv, Item
<1>7. ASSUME NEW p \in Queue, NEW k \in 1..Len(list'[p])
      PROVE  parent'[list'[p][k]] = p
  <2>1. CASE p = q
    <3>1. list'[p][k] = (IF k = n THEN i ELSE list[q][k]) /\ k \in 1..Len(list[q])
      BY <1>1, <1>4, <1>5, <2>1 DEF TreeInv
    <3>2. list[q][k] \in Item /\ parent[list[q][k]] = q
      BY <1>1, <1>3, <3>1, ElementOfSeq DEF TreeInv
    <3>3. QED BY <1>1, <2>1, <3>1, <3>2 DEF TreeInv
  <2>2. CASE p # q
    <3>1. list'[p] = list[p] /\ list[p][k] \in Item /\ parent[list[p][k]] = p
      BY <1>1, <1>5, <2>2, ElementOfSeq DEF TreeInv
    <3>2. list[p][k] # i
      BY <1>2, <3>1, QueueAssumption
    <3>3. QED BY <1>1, <3>1, <3>2 DEF TreeInv
  <2>3. QED BY <2>1, <2>2
<1>8. TreeInv'
  BY <1>6, <1>7 DEF TreeInv
<1>9. QED BY <1>1, <1>8, EditKeepsTheRest

LEMMA RemovalKeeps ==
    ASSUME IInv, NEW q \in Queue, PopItem(q) \/ \E k \in DOMAIN list[q] : DeleteItem(q, k)
    PROVE  IInv'
<1>1. TreeInv /\ Edit /\ phase' = "raised"
  BY DEF IInv, PopItem, DeleteItem
<1>2. list[q] \in Seq(Item) /\ DOMAIN list[q] = 1..Len(list[q])
  BY <1>1, LenProperties DEF TreeInv
<1>3. PICK i : parent' = [parent EXCEPT ![i] = NoItem]
  BY DEF PopItem, DeleteItem
<1>4. parent' \in [Item -> Queue \cup {NoItem}] /\ parent'[Top] = NoItem
  BY <1>1, <1>3, QueueAssumption DEF TreeInv, Item
<1>5. list' \in [Queue -> Seq(Item)]
  <2>1. CASE PopItem(q)
    <3>1. Len(list[q]) \in Nat \ {0}
      BY <1>2, <2>1, EmptySeq DEF PopItem
    <3> DEFINE last == Len(list[q]) - 1
    <3>2. last \in Nat /\ \A k \in 1..last : list[q][k] \in Item
      BY <1>2, <3>1, ElementOfSeq
    <3> HIDE DEF last
    <3>3. SubSeq(list[q], 1, last) \in Seq(Item)
      BY <3>2, SubSeqProperties
    <3>4. QED BY <1>1, <2>1, <3>3 DEF PopItem, TreeInv, last
  <2>2. CASE \E k \in DOMAIN list[q] : DeleteItem(q, k)
    BY <1>1, <2>2 DEF DeleteItem, TreeInv
  <2>3. QED BY <2>1, <2>2
<1>6. TreeInv'
  BY <1>1, <1>4, <1>5 DEF TreeInv
<1>7. QED BY <1>1, <1>6, EditKeepsTheRest

-----------------------------------------------------------------------------
(* Start and return                                                        *)

LEMMA RunInstallationKeeps ==
    ASSUME IInv, RunInstallation
    PROVE  IInv'
<1> USE DEF RunInstallation
<1>1. running = {} /\ done = {} /\ \A t \in Task : runs[t] = 0
  BY DEF IInv, StateInv
<1>2. /\ UNCHANGED <<list, parent, running, done, runs>>
      /\ phase = "build" /\ phase' = "run"
      /\ stack' = <<[item |-> Top, next |-> 0]>>
  BY DEF tree, flags
<1>3. stack' \in Seq(Frame) /\ Len(stack') = 1 /\ stack'[1] = [item |-> Top, next |-> 0]
  BY <1>2, QueueAssumption DEF Frame, Item
<1>4. TreeInv' BY <1>2 DEF IInv, TreeInv
<1>5. StateInv' BY <1>1, <1>2 DEF IInv, StateInv
<1>6. StackInv' BY <1>3 DEF StackInv
<1>7. FrameInv'
  BY <1>2, <1>3, QueueAssumption DEF FrameInv, Passed, IInv, TreeInv
<1>8. RunInv' BY <1>1, <1>2, <1>3 DEF RunInv
<1>9. QED BY <1>4, <1>5, <1>6, <1>7, <1>8 DEF IInv

\* What is known while a start method is running.
LEMMA WhileRunning ==
    ASSUME IInv, stack # <<>>
    PROVE  /\ phase = "run" /\ stack \in Seq(Frame) /\ Len(stack) \in Nat \ {0}
           /\ Len(stack) \in 1..Len(stack)
           /\ \A k \in 1..Len(stack) :
                  stack[k].item \in Item /\ stack[k].next \in Nat
<1>1. phase = "run" /\ stack \in Seq(Frame)
  BY DEF IInv, StateInv, StackInv
<1>2. Len(stack) \in Nat \ {0}
  BY <1>1, EmptySeq
<1>3. \A k \in 1..Len(stack) : stack[k] \in Frame
  BY <1>1, ElementOfSeq
<1>4. QED BY <1>1, <1>2, <1>3 DEF Frame

\* An exception empties the stack and leaves done and what is listed alone.
LEMMA RaiseKeeps ==
    ASSUME IInv, stack # <<>>, UNCHANGED <<list, parent, done>>,
           stack' = <<>>, phase' = "raised",
           runs' \in [Task -> Nat], \A t \in Task : runs'[t] <= 1,
           \A t \in done \cap Task : runs'[t] = 1
    PROVE  IInv'
<1>1. phase = "run" BY WhileRunning
<1>2. TreeInv' BY <1>1 DEF IInv, TreeInv
<1>3. StateInv' BY DEF StateInv
<1>4. StackInv' BY DEF StackInv
<1>5. FrameInv' BY DEF FrameInv
<1>6. RunInv' BY DEF IInv, RunInv
<1>7. QED BY <1>2, <1>3, <1>4, <1>5, <1>6 DEF IInv

\* The items of the stack stay distinct and connected when the last frame moves on.
LEMMA NextLineKeepsStack ==
    ASSUME IInv, stack # <<>>, NextLine, UNCHANGED <<list, parent>>
    PROVE  StackInv'
<1>1. /\ stack \in Seq(Frame) /\ Len(stack) \in Nat \ {0}
      /\ stack' \in Seq(Frame) /\ Len(stack') = Len(stack)
      /\ \A k \in 1..Len(stack) :
             /\ stack'[k].item = stack[k].item
             /\ stack'[k].next = IF k = Len(stack) THEN stack[k].next + 1 ELSE stack[k].next
  BY WhileRunning, NextLineMoves
<1>2. stack'[1].item = Top
  BY <1>1 DEF IInv, StackInv
<1>3. ASSUME NEW k \in 1..Len(stack') - 1
      PROVE  /\ stack'[k].item \in Queue
             /\ stack'[k].next - 1 \in 1..Len(list'[stack'[k].item])
             /\ list'[stack'[k].item][stack'[k].next - 1] = stack'[k + 1].item
  <2>1. k \in 1..Len(stack) - 1 /\ k \in 1..Len(stack) /\ k + 1 \in 1..Len(stack) /\ k # Len(stack)
    BY <1>1
  <2>2. stack'[k].item = stack[k].item /\ stack'[k].next = stack[k].next
        /\ stack'[k + 1].item = stack[k + 1].item
    BY <1>1, <2>1
  <2>3. QED BY <2>1, <2>2 DEF IInv, StackInv
<1>4. \A j, k \in 1..Len(stack') : stack'[j].item = stack'[k].item => j = k
  BY <1>1 DEF IInv, StackInv
<1>5. QED BY <1>1, <1>2, <1>3, <1>4 DEF StackInv

LEMMA ReturnKeepsStack ==
    ASSUME IInv, stack # <<>>, Return, UNCHANGED <<list, parent>>
    PROVE  StackInv'
<1>1. /\ Len(stack) \in Nat \ {0} /\ stack' \in Seq(Frame) /\ Len(stack') = Len(stack) - 1
      /\ \A k \in 1..Len(stack) - 1 : stack'[k] = stack[k]
      /\ stack' # <<>> => Len(stack) > 1
  BY WhileRunning, ReturnDrops
<1>2. stack' # <<>> => stack'[1].item = Top
  BY <1>1 DEF IInv, StackInv
<1>3. ASSUME NEW k \in 1..Len(stack') - 1
      PROVE  /\ stack'[k].item \in Queue
             /\ stack'[k].next - 1 \in 1..Len(list'[stack'[k].item])
             /\ list'[stack'[k].item][stack'[k].next - 1] = stack'[k + 1].item
  <2>1. k \in 1..Len(stack) - 1 /\ k + 1 \in 1..Len(stack) - 1
    BY <1>1
  <2>2. stack'[k] = stack[k] /\ stack'[k + 1] = stack[k + 1]
    BY <1>1, <2>1
  <2>3. QED BY <2>1, <2>2 DEF IInv, StackInv
<1>4. \A j, k \in 1..Len(stack') : stack'[j].item = stack'[k].item => j = k
  <2>1. \A j \in 1..Len(stack') : j \in 1..Len(stack) /\ stack'[j] = stack[j]
    BY <1>1
  <2>2. QED BY <2>1 DEF IInv, StackInv
<1>5. QED BY <1>1, <1>2, <1>3, <1>4 DEF StackInv

\* The caller of an item that returns has passed it, and the item is done.
LEMMA ReturnKeepsFrames ==
    ASSUME IInv, stack # <<>>, Return, UNCHANGED <<list, runs>>,
           done \subseteq done', stack[Len(stack)].item \in done'
    PROVE  FrameInv'
<1>1. /\ Len(stack) \in Nat \ {0} /\ Len(stack') = Len(stack) - 1
      /\ \A k \in 1..Len(stack) - 1 : stack'[k] = stack[k]
  BY WhileRunning, ReturnDrops
<1>2. SUFFICES ASSUME NEW k \in 1..Len(stack')
      PROVE  /\ stack'[k].item \in Queue =>
                    \A j \in 1..Len(list'[stack'[k].item]) :
                        j < Passed(k)' => list'[stack'[k].item][j] \in done'
             /\ stack'[k].item \in Task =>
                    /\ stack'[k].next = 1 => runs'[stack'[k].item] = 0
                    /\ stack'[k].next > 1 => runs'[stack'[k].item] = 1
  BY DEF FrameInv
<1>3. k \in 1..Len(stack) - 1 /\ k \in 1..Len(stack) /\ stack'[k] = stack[k] /\ k < Len(stack)
  BY <1>1
<1>4. stack'[k].item \in Task =>
          /\ stack'[k].next = 1 => runs'[stack'[k].item] = 0
          /\ stack'[k].next > 1 => runs'[stack'[k].item] = 1
  BY <1>3 DEF IInv, FrameInv
<1>5. ASSUME stack'[k].item \in Queue,
             NEW j \in 1..Len(list'[stack'[k].item]), j < Passed(k)'
      PROVE  list'[stack'[k].item][j] \in done'
  <2>1. Passed(k) = stack[k].next - 1 /\ stack[k].next \in Nat
    BY <1>3, WhileRunning DEF Passed
  <2>2. CASE j < stack[k].next - 1
    BY <1>3, <1>5, <2>1, <2>2 DEF IInv, FrameInv
  <2>3. CASE ~(j < stack[k].next - 1)
    <3>1. k = Len(stack')
      <4>1. SUFFICES ASSUME k < Len(stack') PROVE FALSE
        BY <1>1
      <4>2. Passed(k)' = stack[k].next - 1
        BY <1>3, <4>1 DEF Passed
      <4>3. QED BY <1>5, <2>3, <4>2
    <3>2. Passed(k)' = stack[k].next
      BY <1>1, <1>3, <3>1 DEF Passed
    <3>3. j = stack[k].next - 1 /\ k = Len(stack) - 1
      BY <1>1, <1>5, <2>1, <2>3, <3>1, <3>2
    <3>4. list[stack[k].item][j] = stack[Len(stack)].item
      BY <1>1, <1>3, <3>3 DEF IInv, StackInv
    <3>5. QED BY <1>3, <3>4
  <2>4. QED BY <2>2, <2>3
<1>6. QED BY <1>4, <1>5

-----------------------------------------------------------------------------
(* The steps of start                                                      *)

\* An item that is refused is not running: it would be on the stack a second time.
LEMMA RefuseKeeps ==
    ASSUME IInv, NEW i \in Item, Refuse(i)
    PROVE  IInv'
<1> DEFINE last == Len(stack)
<1>1. /\ stack # <<>> /\ stack[last].item = i /\ stack[last].next = 0
      /\ i \in running \cup done /\ Return
      /\ UNCHANGED <<list, parent, running, done, phase, runs>>
  BY DEF Refuse, Inside, StartedBefore, tree, flags
<1>2. phase = "run" /\ last \in Nat \ {0} /\ last \in 1..last
  BY <1>1, WhileRunning
<1>3. i \in done
  <2>1. SUFFICES ASSUME i \in running PROVE FALSE
    BY <1>1
  <2>2. PICK k \in 1..last : stack[k].item = i /\ stack[k].next > 0
    BY <1>2, <2>1 DEF IInv, RunInv
  <2>3. k = last
    BY <1>1, <1>2, <2>2 DEF IInv, StackInv
  <2>4. QED BY <1>1, <2>2, <2>3
<1>4. TreeInv' BY <1>1 DEF IInv, TreeInv
<1>5. StateInv' BY <1>1, <1>2 DEF IInv, StateInv
<1>6. StackInv' BY <1>1, ReturnKeepsStack
<1>7. FrameInv' BY <1>1, <1>3, ReturnKeepsFrames
<1>8. ASSUME NEW m \in running
      PROVE  \E k \in 1..Len(stack') : stack'[k].item = m /\ stack'[k].next > 0
  <2>1. PICK k \in 1..last : stack[k].item = m /\ stack[k].next > 0
    BY <1>2 DEF IInv, RunInv
  <2>2. k # last
    BY <1>1, <2>1
  <2>3. k \in 1..Len(stack') /\ stack'[k] = stack[k]
    BY <1>1, <1>2, <2>2, WhileRunning, ReturnDrops
  <2>4. QED BY <2>1, <2>3
<1>9. \A k \in 1..Len(stack') : stack'[k].next > 0 => stack'[k].item \in running'
  BY <1>1, <1>2, WhileRunning, ReturnDrops DEF IInv, RunInv
<1>10. RunInv' BY <1>1, <1>2, <1>8, <1>9 DEF IInv, RunInv
<1>11. QED BY <1>4, <1>5, <1>6, <1>7, <1>10 DEF IInv

\* The frames when the last one moves on from its first or a later line: a task has
\* to show whether it has run, a queue that the item it leaves behind is done.
LEMMA NextLineKeepsFrames ==
    ASSUME IInv, stack # <<>>, NextLine, UNCHANGED <<list, done>>,
           NEW i \in Item, stack[Len(stack)].item = i,
           i \in Queue => stack[Len(stack)].next = 0,
           \A t \in Task : t # i => runs'[t] = runs[t],
           i \in Task => runs'[i] = IF stack[Len(stack)].next = 0 THEN 0 ELSE 1
    PROVE  FrameInv'
<1>1. /\ Len(stack) \in Nat \ {0} /\ Len(stack') = Len(stack)
      /\ \A k \in 1..Len(stack) :
             /\ stack'[k].item = stack[k].item
             /\ stack'[k].next = IF k = Len(stack) THEN stack[k].next + 1 ELSE stack[k].next
      /\ \A k \in 1..Len(stack) : stack[k].item \in Item /\ stack[k].next \in Nat
  BY WhileRunning, NextLineMoves
<1>2. SUFFICES ASSUME NEW k \in 1..Len(stack')
      PROVE  /\ stack'[k].item \in Queue =>
                    \A j \in 1..Len(list'[stack'[k].item]) :
                        j < Passed(k)' => list'[stack'[k].item][j] \in done'
             /\ stack'[k].item \in Task =>
                    /\ stack'[k].next = 1 => runs'[stack'[k].item] = 0
                    /\ stack'[k].next > 1 => runs'[stack'[k].item] = 1
  BY DEF FrameInv
<1>3. CASE k = Len(stack)
  <2>1. stack'[k].item = i /\ stack'[k].next = stack[k].next + 1 /\ stack[k].next \in Nat
    BY <1>1, <1>3
  <2>2. i \in Queue => Passed(k)' = 1
    BY <1>1, <1>3, <2>1 DEF Passed
  <2>3. QED BY <1>3, <2>1, <2>2
<1>4. CASE k # Len(stack)
  <2>1. k \in 1..Len(stack) /\ k < Len(stack) /\ k < Len(stack')
        /\ stack'[k].item = stack[k].item /\ stack'[k].next = stack[k].next
    BY <1>1, <1>4
  <2>2. Passed(k)' = Passed(k)
    BY <2>1 DEF Passed
  <2>3. stack[k].item # i
    BY <1>1, <2>1 DEF IInv, StackInv
  <2>4. QED BY <2>1, <2>2, <2>3 DEF IInv, FrameInv
<1>5. QED BY <1>3, <1>4

LEMMA StartKeeps ==
    ASSUME IInv, NEW i \in Item, Start(i)
    PROVE  IInv'
<1> DEFINE last == Len(stack)
<1>1. /\ stack # <<>> /\ stack[last].item = i /\ stack[last].next = 0
      /\ i \notin running \cup done /\ running' = running \cup {i}
      /\ UNCHANGED <<list, parent, done, runs>>
  BY DEF Start, Inside, StartedBefore, tree
<1>2. phase = "run" /\ last \in Nat \ {0} /\ last \in 1..last
  BY <1>1, WhileRunning
<1>3. CASE stack' = <<>> /\ phase' = "raised"
  BY <1>1, <1>3, RaiseKeeps DEF IInv, StateInv, RunInv
<1>4. CASE NextLine /\ UNCHANGED phase
  <2>1. TreeInv' BY <1>1, <1>4 DEF IInv, TreeInv
  <2>2. StateInv' BY <1>1, <1>2, <1>4 DEF IInv, StateInv
  <2>3. StackInv' BY <1>1, <1>4, NextLineKeepsStack
  <2>4. i \in Task => runs[i] = 0
    BY <1>1, <1>2 DEF IInv, StateInv, RunInv
  <2>5. FrameInv' BY <1>1, <1>4, <2>4, NextLineKeepsFrames
  <2>6. Len(stack') = last
        /\ \A k \in 1..last : stack'[k].item = stack[k].item
                              /\ stack'[k].next = IF k = last THEN stack[k].next + 1 ELSE stack[k].next
    BY <1>1, <1>4, WhileRunning, NextLineMoves
  <2>7. ASSUME NEW m \in running'
        PROVE  \E k \in 1..Len(stack') : stack'[k].item = m /\ stack'[k].next > 0
    <3>1. CASE m = i
      BY <1>1, <1>2, <2>6, <3>1
    <3>2. CASE m \in running
      <4>1. PICK k \in 1..last : stack[k].item = m /\ stack[k].next > 0
        BY <1>2, <3>2 DEF IInv, RunInv
      <4>2. k # last BY <1>1, <4>1
      <4>3. QED BY <2>6, <4>1, <4>2
    <3>3. QED BY <1>1, <3>1, <3>2
  <2>8. \A k \in 1..Len(stack') : stack'[k].next > 0 => stack'[k].item \in running'
    BY <1>1, <2>6 DEF IInv, RunInv
  <2>9. RunInv' BY <1>1, <1>2, <1>4, <2>7, <2>8 DEF IInv, RunInv
  <2>10. QED BY <2>1, <2>2, <2>3, <2>5, <2>9 DEF IInv
<1>5. QED BY <1>3, <1>4 DEF Start, Raise

\* CallTask and CompleteTask move a task on that is running.
LEMMA MoveTaskKeeps ==
    ASSUME IInv, NEW t \in Task, stack # <<>>, NextLine,
           stack[Len(stack)].item = t, stack[Len(stack)].next > 0,
           UNCHANGED <<list, parent, running, done, phase>>,
           runs' = [runs EXCEPT ![t] = 1]
    PROVE  IInv'
<1>1. phase = "run" /\ Len(stack) \in 1..Len(stack) /\ t \in Item /\ t \notin Queue
  BY WhileRunning, QueueAssumption DEF Item
<1>2. runs \in [Task -> Nat]
  BY DEF IInv, StateInv
<1>3. /\ Len(stack') = Len(stack)
      /\ \A k \in 1..Len(stack) :
             /\ stack'[k].item = stack[k].item
             /\ stack'[k].next = IF k = Len(stack) THEN stack[k].next + 1 ELSE stack[k].next
             /\ stack[k].next \in Nat
  BY WhileRunning, NextLineMoves
<1>4. TreeInv' BY DEF IInv, TreeInv
<1>5. StateInv' BY <1>1, <1>2 DEF IInv, StateInv
<1>6. StackInv' BY NextLineKeepsStack
<1>7. FrameInv' BY <1>1, <1>2, NextLineKeepsFrames
<1>8. ASSUME NEW m \in running
      PROVE  \E k \in 1..Len(stack') : stack'[k].item = m /\ stack'[k].next > 0
  <2>1. PICK k \in 1..Len(stack) : stack[k].item = m /\ stack[k].next > 0
    BY <1>1 DEF IInv, RunInv
  <2>2. QED BY <1>3, <2>1
<1>9. \A k \in 1..Len(stack') : stack'[k].next > 0 => stack'[k].item \in running'
  <2>1. ASSUME NEW k \in 1..Len(stack'), stack'[k].next > 0
        PROVE  stack'[k].item \in running
    <3>1. k \in 1..Len(stack) /\ stack'[k].item = stack[k].item /\ stack[k].next > 0
      BY <1>3, <2>1
    <3>2. QED BY <3>1 DEF IInv, RunInv
  <2>2. QED BY <2>1
<1>10. t \in running
  BY <1>1 DEF IInv, RunInv
<1>11. RunInv'
  BY <1>1, <1>2, <1>8, <1>9, <1>10 DEF IInv, RunInv
<1>12. QED BY <1>4, <1>5, <1>6, <1>7, <1>11 DEF IInv

LEMMA CallTaskKeeps ==
    ASSUME IInv, NEW t \in Task, CallTask(t)
    PROVE  IInv'
<1>1. /\ stack # <<>> /\ stack[Len(stack)].item = t /\ stack[Len(stack)].next = 1
      /\ runs' = [runs EXCEPT ![t] = @ + 1]
      /\ UNCHANGED <<list, parent, running, done>>
  BY DEF CallTask, Inside, tree, flags
<1>2. phase = "run" /\ Len(stack) \in 1..Len(stack) /\ runs \in [Task -> Nat]
  BY <1>1, WhileRunning DEF IInv, StateInv
<1>3. runs[t] = 0
  BY <1>1, <1>2 DEF IInv, FrameInv
<1>4. runs' = [runs EXCEPT ![t] = 1]
  BY <1>1, <1>2, <1>3
<1>5. CASE NextLine /\ UNCHANGED phase
  <2>1. stack[Len(stack)].next > 0
    BY <1>1
  <2>2. UNCHANGED <<list, parent, running, done, phase>>
    BY <1>1, <1>5
  <2>3. QED BY <1>1, <1>4, <1>5, <2>1, <2>2, MoveTaskKeeps
<1>6. CASE Raise("task")
  <2>1. \A m \in Task : runs'[m] <= 1 /\ (m \in done => runs'[m] = 1)
    BY <1>2, <1>4 DEF IInv, RunInv
  <2>2. stack' = <<>> /\ phase' = "raised" /\ runs' \in [Task -> Nat]
    BY <1>2, <1>4, <1>6 DEF Raise
  <2>3. QED BY <1>1, <2>1, <2>2, RaiseKeeps
<1>7. QED BY <1>5, <1>6 DEF CallTask

LEMMA CompleteTaskKeeps ==
    ASSUME IInv, NEW t \in Task, CompleteTask(t)
    PROVE  IInv'
<1>1. /\ stack # <<>> /\ stack[Len(stack)].item = t /\ stack[Len(stack)].next = 2
      /\ NextLine /\ UNCHANGED <<list, parent, running, done, phase, runs>>
  BY DEF CompleteTask, Inside, tree, flags
<1>2. Len(stack) \in 1..Len(stack) /\ runs \in [Task -> Nat]
  BY <1>1, WhileRunning DEF IInv, StateInv
<1>3. runs[t] = 1
  BY <1>1, <1>2 DEF IInv, FrameInv
<1>4. runs' = [runs EXCEPT ![t] = 1]
  BY <1>1, <1>2, <1>3
<1>5. stack[Len(stack)].next > 0
  BY <1>1
<1>6. QED BY <1>1, <1>4, <1>5, MoveTaskKeeps

\* FinishTask and FinishQueue: the item leaves the stack and is done.
LEMMA FinishKeeps ==
    ASSUME IInv, NEW i \in Item, stack # <<>>, Return,
           stack[Len(stack)].item = i,
           running' = NotRunning(i), done' = done \cup {i},
           UNCHANGED <<list, parent, phase, runs>>,
           i \in Task => runs[i] = 1,
           i \in Queue => \A k \in 1..Len(list[i]) : list[i][k] \in done
    PROVE  IInv'
<1>1. /\ phase = "run" /\ Len(stack) \in Nat \ {0} /\ Len(stack) \in 1..Len(stack)
      /\ Len(stack') = Len(stack) - 1
      /\ \A k \in 1..Len(stack) - 1 : stack'[k] = stack[k]
  BY WhileRunning, ReturnDrops
<1>2. TreeInv' BY DEF IInv, TreeInv
<1>3. StateInv' BY <1>1 DEF IInv, StateInv
<1>4. StackInv' BY ReturnKeepsStack
<1>5. FrameInv' BY ReturnKeepsFrames
<1>6. ASSUME NEW m \in running'
      PROVE  \E k \in 1..Len(stack') : stack'[k].item = m /\ stack'[k].next > 0
  <2>1. m \in running /\ m # i
    BY DEF NotRunning
  <2>2. PICK k \in 1..Len(stack) : stack[k].item = m /\ stack[k].next > 0
    BY <1>1, <2>1 DEF IInv, RunInv
  <2>3. k \in 1..Len(stack) - 1 /\ k \in 1..Len(stack')
    BY <1>1, <2>1, <2>2
  <2>4. QED BY <1>1, <2>2, <2>3
<1>7. ASSUME NEW k \in 1..Len(stack'), stack'[k].next > 0
      PROVE  stack'[k].item \in running'
  <2>1. k \in 1..Len(stack) /\ k # Len(stack) /\ stack'[k] = stack[k]
    BY <1>1
  <2>2. stack[k].item \in running /\ stack[k].item # i
    BY <1>1, <1>7, <2>1 DEF IInv, RunInv, StackInv
  <2>3. QED BY <2>1, <2>2 DEF NotRunning
<1>8. RunInv'
  <2>1. \A t \in Task : runs'[t] > 0 => t \in running' \cup done'
    BY <1>1 DEF IInv, RunInv, NotRunning
  <2>2. \A t \in done' \cap Task : runs'[t] = 1
    BY DEF IInv, RunInv
  <2>3. \A q \in done' \cap Queue : \A k \in 1..Len(list'[q]) : list'[q][k] \in done'
    BY DEF IInv, RunInv
  <2>4. QED BY <1>6, <1>7, <2>1, <2>2, <2>3 DEF IInv, RunInv
<1>9. QED BY <1>2, <1>3, <1>4, <1>5, <1>8 DEF IInv

LEMMA FinishTaskKeeps ==
    ASSUME IInv, NEW t \in Task, FinishTask(t)
    PROVE  IInv'
<1>1. /\ stack # <<>> /\ stack[Len(stack)].item = t /\ stack[Len(stack)].next = 3 /\ Return
      /\ running' = NotRunning(t) /\ done' = done \cup {t}
      /\ UNCHANGED <<list, parent, phase, runs>>
  BY DEF FinishTask, Inside, tree
<1>2. Len(stack) \in 1..Len(stack) /\ t \in Item /\ t \notin Queue
  BY <1>1, WhileRunning, QueueAssumption DEF Item
<1>3. runs[t] = 1
  BY <1>1, <1>2 DEF IInv, FrameInv
<1>4. QED BY <1>1, <1>2, <1>3, FinishKeeps

LEMMA FinishQueueKeeps ==
    ASSUME IInv, NEW q \in Queue, FinishQueue(q)
    PROVE  IInv'
<1>1. /\ stack # <<>> /\ stack[Len(stack)].item = q
      /\ stack[Len(stack)].next > Len(list[q]) /\ Return
      /\ running' = NotRunning(q) /\ done' = done \cup {q}
      /\ UNCHANGED <<list, parent, phase, runs>>
  BY DEF FinishQueue, tree, AllItems
<1>2. /\ Len(stack) \in 1..Len(stack) /\ Len(stack) \in Nat /\ q \in Item /\ q \notin Task
      /\ stack[Len(stack)].next \in Nat /\ Len(list[q]) \in Nat
  BY <1>1, WhileRunning, QueueAssumption, LenProperties DEF Item, IInv, TreeInv
<1>3. Passed(Len(stack)) = stack[Len(stack)].next
  BY <1>2 DEF Passed
<1>4. ASSUME NEW k \in 1..Len(list[q])
      PROVE  list[q][k] \in done
  <2>1. k < Passed(Len(stack))
    BY <1>1, <1>2, <1>3
  <2>2. QED BY <1>1, <1>2, <2>1 DEF IInv, FrameInv
<1>5. QED BY <1>1, <1>2, <1>4, FinishKeeps

\* A queue moves on to its next item and pushes it: it was not on the stack before,
\* because its parent, the queue, is the last item there.
LEMMA StartItemKeeps ==
    ASSUME IInv, NEW q \in Queue, StartItem(q)
    PROVE  IInv'
<1> DEFINE last == Len(stack)
<1>1. PICK n \in 1..Len(list[q]) :
          /\ stack # <<>> /\ stack[last].item = q /\ stack[last].next = n
          /\ stack' = Append([stack EXCEPT ![last].next = @ + 1], [item |-> list[q][n], next |-> 0])
          /\ UNCHANGED <<list, parent, running, done, phase, runs>>
  BY DEF StartItem, Inside, AllItems, tree, flags
<1>2. /\ phase = "run" /\ stack \in Seq(Frame) /\ last \in Nat \ {0} /\ last \in 1..last
      /\ stack[last] \in Frame
      /\ \A k \in 1..last : stack[k].item \in Item /\ stack[k].next \in Nat
  BY <1>1, WhileRunning, ElementOfSeq
<1>3. list[q] \in Seq(Item) /\ list[q][n] \in Item /\ parent[list[q][n]] = q /\ n \in Nat \ {0}
  BY <1>2, ElementOfSeq, LenProperties DEF IInv, TreeInv
<1> DEFINE i == list[q][n]
           moved == [stack EXCEPT ![last].next = @ + 1]
<1>4. /\ moved \in Seq(Frame) /\ Len(moved) = last
      /\ \A k \in 1..last : moved[k] = IF k = last THEN [stack[last] EXCEPT !.next = @ + 1] ELSE stack[k]
  <2>1. moved = [stack EXCEPT ![last] = [stack[last] EXCEPT !.next = @ + 1]]
    BY <1>2 DEF Frame
  <2>2. [stack[last] EXCEPT !.next = @ + 1] \in Frame
    BY <1>2 DEF Frame
  <2> HIDE DEF moved
  <2>3. QED BY <1>2, <2>1, <2>2, ExceptSeq
<1>5. /\ stack' \in Seq(Frame) /\ Len(stack') = last + 1
      /\ \A k \in 1..last : stack'[k] = moved[k]
      /\ stack'[last + 1] = [item |-> i, next |-> 0]
  <2>1. [item |-> i, next |-> 0] \in Frame
    BY <1>3 DEF Frame
  <2>2. stack' = Append(moved, [item |-> i, next |-> 0])
    BY <1>1
  <2> HIDE DEF moved, i
  <2>3. QED BY <1>4, <2>1, <2>2, AppendProperties
<1>6. \A k \in 1..last :
          /\ stack'[k].item = stack[k].item
          /\ stack'[k].next = IF k = last THEN stack[k].next + 1 ELSE stack[k].next
  BY <1>2, <1>4, <1>5 DEF Frame
<1> HIDE DEF moved, i, last
<1>7. i \in Item /\ parent[i] = q /\ i = list[q][n]
  BY <1>3 DEF i
<1>8. \A k \in 1..last : stack[k].item # i
  <2>1. SUFFICES ASSUME NEW k \in 1..last, stack[k].item = i PROVE FALSE
    OBVIOUS
  <2>2. CASE k = 1
    BY <1>1, <1>7, <2>1, <2>2, QueueAssumption DEF IInv, StackInv, TreeInv
  <2>3. CASE k # 1
    <3>1. k - 1 \in 1..Len(stack) - 1 /\ k - 1 \in 1..last /\ (k - 1) + 1 = k
      BY <1>2, <2>3 DEF last
    <3>2. /\ stack[k - 1].item \in Queue
          /\ stack[k - 1].next - 1 \in 1..Len(list[stack[k - 1].item])
          /\ list[stack[k - 1].item][stack[k - 1].next - 1] = stack[k].item
      BY <3>1 DEF IInv, StackInv
    <3>3. parent[stack[k].item] = stack[k - 1].item
      <4>1. \A p \in Queue : \A m \in 1..Len(list[p]) : parent[list[p][m]] = p
        BY <1>2 DEF IInv, TreeInv
      <4>2. parent[list[stack[k - 1].item][stack[k - 1].next - 1]] = stack[k - 1].item
        BY <3>2, <4>1
      <4>3. QED BY <3>2, <4>2
    <3>4. stack[k - 1].item = stack[last].item
      BY <1>1, <1>7, <2>1, <3>3
    <3>5. k - 1 = last
      BY <1>2, <3>1, <3>4 DEF IInv, StackInv, last
    <3>6. QED BY <1>2, <3>5
  <2>4. QED BY <2>2, <2>3
<1>9. TreeInv' BY <1>1 DEF IInv, TreeInv
<1>10. StateInv' BY <1>1, <1>2 DEF IInv, StateInv
<1>11. StackInv'
  <2>1. stack'[1].item = Top
    BY <1>1, <1>2, <1>6 DEF IInv, StackInv
  <2>2. ASSUME NEW k \in 1..Len(stack') - 1
        PROVE  /\ stack'[k].item \in Queue
               /\ stack'[k].next - 1 \in 1..Len(list'[stack'[k].item])
               /\ list'[stack'[k].item][stack'[k].next - 1] = stack'[k + 1].item
    <3>1. CASE k = last
      BY <1>1, <1>2, <1>3, <1>5, <1>6, <1>7, <3>1
    <3>2. CASE k # last
      <4>1. k \in 1..last - 1 /\ k \in 1..last /\ k + 1 \in 1..last
        BY <1>2, <1>5, <3>2
      <4>2. stack'[k].item = stack[k].item /\ stack'[k].next = stack[k].next
            /\ stack'[k + 1].item = stack[k + 1].item
        BY <1>6, <3>2, <4>1
      <4>3. QED BY <1>1, <4>1, <4>2 DEF IInv, StackInv, last
    <3>3. QED BY <3>1, <3>2
  <2>3. ASSUME NEW j \in 1..Len(stack'), NEW k \in 1..Len(stack'),
               stack'[j].item = stack'[k].item
        PROVE  j = k
    <3>1. CASE j \in 1..last /\ k \in 1..last
      BY <1>6, <2>3, <3>1 DEF IInv, StackInv, last
    <3>2. CASE ~(j \in 1..last /\ k \in 1..last)
      <4>1. \A m \in 1..last : stack'[m].item # i
        BY <1>6, <1>8
      <4>2. j \in 1..last + 1 /\ k \in 1..last + 1 /\ stack'[last + 1].item = i /\ last \in Nat
        BY <1>2, <1>5 DEF last
      <4>3. QED BY <2>3, <3>2, <4>1, <4>2
    <3>3. QED BY <3>1, <3>2
  <2>4. QED BY <1>5, <2>1, <2>2, <2>3 DEF StackInv
<1>12. FrameInv'
  <2>1. SUFFICES ASSUME NEW k \in 1..Len(stack')
        PROVE  /\ stack'[k].item \in Queue =>
                      \A j \in 1..Len(list'[stack'[k].item]) :
                          j < Passed(k)' => list'[stack'[k].item][j] \in done'
               /\ stack'[k].item \in Task =>
                      /\ stack'[k].next = 1 => runs'[stack'[k].item] = 0
                      /\ stack'[k].next > 1 => runs'[stack'[k].item] = 1
    BY DEF FrameInv
  <2>2. CASE k = last + 1
    <3>1. stack'[k].next = 0 /\ Passed(k)' = 0
      BY <1>2, <1>5, <2>2 DEF Passed
    <3>2. QED BY <3>1
  <2>3. CASE k \in 1..last
    <3>1. Passed(k)' = Passed(k) /\ stack'[k].item = stack[k].item
      BY <1>2, <1>5, <1>6, <2>3 DEF Passed, last
    <3>2. stack[k].item \in Task => k # last
      BY <1>1, QueueAssumption
    <3>3. stack[k].item \in Task => stack'[k].next = stack[k].next
      BY <1>6, <2>3, <3>2
    <3>4. QED BY <1>1, <2>3, <3>1, <3>3 DEF IInv, FrameInv, last
  <2>4. QED BY <1>2, <1>5, <2>2, <2>3
<1>13. ASSUME NEW m \in running
       PROVE  \E k \in 1..Len(stack') : stack'[k].item = m /\ stack'[k].next > 0
  <2>1. PICK k \in 1..last : stack[k].item = m /\ stack[k].next > 0
    BY <1>2 DEF IInv, RunInv, last
  <2>2. k \in 1..Len(stack') /\ stack'[k].item = m /\ stack'[k].next > 0
    BY <1>2, <1>5, <1>6, <2>1
  <2>3. QED BY <2>2
<1>14. ASSUME NEW k \in 1..Len(stack'), stack'[k].next > 0
       PROVE  stack'[k].item \in running'
  <2>1. k \in 1..last
    BY <1>2, <1>5, <1>14
  <2>2. stack[k].next > 0
    BY <1>1, <1>3, <1>6, <1>14, <2>1
  <2>3. QED BY <1>1, <1>6, <2>1, <2>2 DEF IInv, RunInv, last
<1>15. RunInv'
  BY <1>1, <1>2, <1>13, <1>14 DEF IInv, RunInv
<1>16. QED BY <1>9, <1>10, <1>11, <1>12, <1>15 DEF IInv

-----------------------------------------------------------------------------
(* The theorem                                                             *)

LEMMA FinishInstallationKeeps ==
    ASSUME IInv, FinishInstallation
    PROVE  IInv'
<1>1. /\ UNCHANGED <<list, parent, running, done, stack, runs>>
      /\ phase = "run" /\ phase' = "ok" /\ stack = <<>>
  BY DEF FinishInstallation, tree, flags
<1>2. TreeInv' BY <1>1 DEF IInv, TreeInv
<1>3. StateInv' BY <1>1 DEF IInv, StateInv
<1>4. StackInv' BY <1>1 DEF IInv, StackInv
<1>5. FrameInv' BY <1>1 DEF FrameInv
<1>6. RunInv' BY <1>1 DEF IInv, RunInv
<1>7. QED BY <1>2, <1>3, <1>4, <1>5, <1>6 DEF IInv

LEMMA StutterKeeps ==
    ASSUME IInv, UNCHANGED <<list, parent, running, done, phase, stack, runs>>
    PROVE  IInv'
<1>1. TreeInv' BY DEF IInv, TreeInv
<1>2. StateInv' BY DEF IInv, StateInv
<1>3. StackInv' BY DEF IInv, StackInv
<1>4. FrameInv' BY DEF IInv, FrameInv, Passed
<1>5. RunInv' BY DEF IInv, RunInv
<1>6. QED BY <1>1, <1>2, <1>3, <1>4, <1>5 DEF IInv

LEMMA StepKeeps ==
    ASSUME IInv, [Next]_vars
    PROVE  IInv'
<1>1. ASSUME Build PROVE IInv'
  BY <1>1, AppendItemKeeps, InsertItemKeeps, SetItemKeeps, RemovalKeeps DEF Build
<1>2. ASSUME RunInstallation PROVE IInv'
  BY <1>2, RunInstallationKeeps
<1>3. ASSUME Running PROVE IInv'
  <2>1. ASSUME NEW i \in Item, Refuse(i) \/ Start(i) PROVE IInv'
    BY <2>1, RefuseKeeps, StartKeeps
  <2>2. ASSUME NEW t \in Task, CallTask(t) \/ CompleteTask(t) \/ FinishTask(t) PROVE IInv'
    BY <2>2, CallTaskKeeps, CompleteTaskKeeps, FinishTaskKeeps
  <2>3. ASSUME NEW q \in Queue, StartItem(q) \/ FinishQueue(q) PROVE IInv'
    BY <2>3, StartItemKeeps, FinishQueueKeeps
  <2>4. QED BY <1>3, <2>1, <2>2, <2>3, FinishInstallationKeeps DEF Running
<1>4. ASSUME UpdateProgress PROVE IInv'
  BY <1>4, StutterKeeps DEF UpdateProgress, tree, flags
<1>5. ASSUME UNCHANGED vars PROVE IInv'
  BY <1>5, StutterKeeps DEF vars, tree, flags
<1>6. QED BY <1>1, <1>2, <1>3, <1>4, <1>5 DEF Next

\* TaskQueue.start and Task.start (installation_tasks.py:282-322, 476-503), for every
\* set of tasks and queues and every tree that is built from them: no task is run
\* twice, a queue that is done has nothing left, and an installation that ended
\* well has run each task that is listed in a queue that is done.
THEOREM TasksRunOnce == Spec => []EachTaskRunsOnce
<1>1. IInv => EachTaskRunsOnce
  BY LenProperties DEF IInv, TreeInv, RunInv, EachTaskRunsOnce, Listed
<1>2. QED BY <1>1, InitEstablishes, StepKeeps, PTL DEF Spec

-----------------------------------------------------------------------------
(* Induction, with sets in place of predicates                             *)

\* A set of numbers that is not empty has a smallest one.
LEMMA SmallestExists ==
    ASSUME NEW S, S \subseteq Nat, S # {}
    PROVE  \E n \in S : \A k \in S : ~(k < n)
<1> DEFINE less == OpToRel(<, Nat)
<1>1. IsWellFoundedOn(less, Nat)
  BY NatLessThanWellFounded
<1>2. \A j, k \in Nat : j < k => <<j, k>> \in less
  BY DEF OpToRel
<1> HIDE DEF less
<1>3. \E n \in S : \A k \in S : ~(<<k, n>> \in less)
  BY <1>1, WFMin
<1>4. QED BY <1>2, <1>3

\* A set of numbers with 0 and, for each of its numbers, the next one has them all.
LEMMA NaturalsBySteps ==
    ASSUME NEW S, 0 \in S, \A n \in Nat : n \in S => n + 1 \in S
    PROVE  Nat \subseteq S
<1>1. SUFFICES ASSUME Nat \ S # {} PROVE FALSE
  OBVIOUS
<1>2. PICK n \in Nat \ S : \A k \in Nat \ S : ~(k < n)
  BY <1>1, SmallestExists
<1>3. n # 0 /\ n - 1 \in Nat /\ n - 1 < n
  BY <1>2
<1>4. n - 1 \in S
  BY <1>2, <1>3
<1>5. QED BY <1>2, <1>3, <1>4

\* What holds of the empty set, and of every finite set when it holds of the set
\* without any one of its elements, holds of every finite set.
LEMMA FiniteSetsBySteps ==
    ASSUME NEW S, IsFiniteSet(S), NEW F, {} \in F,
           \A T \in SUBSET S : T # {} /\ (\A x \in T : T \ {x} \in F) => T \in F
    PROVE  SUBSET S \subseteq F
<1> DEFINE less == StrictSubsetOrdering(S)
           bad == (SUBSET S) \ F
<1>1. SUFFICES ASSUME bad # {} PROVE FALSE
  OBVIOUS
<1>2. IsWellFoundedOn(less, SUBSET S)
  BY FS_StrictSubsetOrderingWellFounded, FS_FiniteSubsetsOfFinite
<1>3. bad \subseteq SUBSET S
  OBVIOUS
<1>4. \E T \in bad : \A U \in bad : ~(<<U, T>> \in less)
  <2> HIDE DEF less, bad
  <2>1. QED BY <1>1, <1>2, <1>3, WFMin
<1>5. PICK T \in bad : \A U \in bad : ~(<<U, T>> \in less)
  BY <1>4
<1>6. ASSUME NEW x \in T PROVE T \ {x} \in F
  <2>1. <<T \ {x}, T>> \in less
    BY <1>6 DEF StrictSubsetOrdering
  <2>2. QED BY <1>5, <2>1
<1>7. QED BY <1>5, <1>6

-----------------------------------------------------------------------------
(* Sums                                                                    *)

\* The element that the folds of the community modules take out first.
Pick(s) == CHOOSE x \in s : TRUE

\* The function that Total evaluates on the domain of f.
IsSum(h, f) ==
    h = [s \in SUBSET DOMAIN f |-> IF s = {} THEN 0 ELSE f[Pick(s)] + h[s \ {Pick(s)}]]

\* Total(f) is the value of that function at the domain of f.
LEMMA TotalIs ==
    ASSUME NEW f
    PROVE  Total(f) = (CHOOSE h : IsSum(h, f))[DOMAIN f]
BY DEF Total, FoldFunction, FoldFunctionOnSet, MapThenFoldSet, IsSum, Pick

\* That function exists: finite sets can be summed one element at a time.
LEMMA SumExists ==
    ASSUME NEW f, IsFiniteSet(DOMAIN f)
    PROVE  \E h : IsSum(h, f)
<1> DEFINE Small(n) == {s \in SUBSET DOMAIN f : Cardinality(s) <= n}
           IsPart(h, n) == h = [s \in Small(n) |->
               IF s = {} THEN 0 ELSE f[Pick(s)] + h[s \ {Pick(s)}]]
           S == {n \in Nat : \E h : IsPart(h, n)}
<1>1. 0 \in S
  <2>1. Small(0) \subseteq {{}}
    BY FS_EmptySet, FS_Subset, FS_CardinalityType
  <2>2. IsPart([s \in Small(0) |-> 0], 0)
    BY <2>1
  <2>3. QED BY <2>2
<1>2. ASSUME NEW n \in Nat, n \in S PROVE n + 1 \in S
  <2>1. PICK h : IsPart(h, n)
    BY <1>2
  <2> DEFINE g == [s \in Small(n + 1) |->
                     IF s = {} THEN 0 ELSE f[Pick(s)] + h[s \ {Pick(s)}]]
  <2>2. \A s \in Small(n) : s \in Small(n + 1) /\ g[s] = h[s]
    <3>1. ASSUME NEW s \in Small(n) PROVE s \in Small(n + 1)
      BY FS_Subset, FS_CardinalityType
    <3>2. \A s \in Small(n) : h[s] = IF s = {} THEN 0 ELSE f[Pick(s)] + h[s \ {Pick(s)}]
      BY <2>1
    <3>3. QED BY <3>1, <3>2
  <2>3. \A s \in Small(n + 1) : s # {} => s \ {Pick(s)} \in Small(n)
    <3>1. SUFFICES ASSUME NEW s \in Small(n + 1), s # {}
                   PROVE  s \ {Pick(s)} \in Small(n)
      OBVIOUS
    <3>2. Pick(s) \in s /\ IsFiniteSet(s) /\ Cardinality(s) \in Nat /\ Cardinality(s) <= n + 1
      BY <3>1, FS_Subset, FS_CardinalityType DEF Pick
    <3>3. Cardinality(s \ {Pick(s)}) = Cardinality(s) - 1
      BY <3>2, FS_RemoveElement
    <3>4. QED BY <3>1, <3>2, <3>3
  <2>4. \A s \in Small(n + 1) : s # {} => g[s \ {Pick(s)}] = h[s \ {Pick(s)}]
    BY <2>2, <2>3
  <2>5. IsPart(g, n + 1)
    BY <2>4
  <2>6. \E k : IsPart(k, n + 1)
    <3> HIDE DEF IsPart, g
    <3>1. QED BY <2>5
  <2>7. n + 1 \in Nat
    OBVIOUS
  <2> HIDE DEF IsPart
  <2>8. QED BY <2>6, <2>7
<1>3. Cardinality(DOMAIN f) \in S
  <2> HIDE DEF S
  <2>1. QED BY <1>1, <1>2, NaturalsBySteps, FS_CardinalityType
<1>4. Small(Cardinality(DOMAIN f)) = SUBSET DOMAIN f
  BY FS_Subset
<1>5. QED BY <1>3, <1>4 DEF IsSum

\* If every number of f bounds the size of a finite set, Total(f) bounds that of a set
\* that these sets cover.
LEMMA TotalBounds ==
    ASSUME NEW D, IsFiniteSet(D), NEW f \in [D -> Nat], NEW G,
           \A k \in D : IsFiniteSet(G[k]) /\ Cardinality(G[k]) <= f[k],
           NEW W, \A w \in W : \E k \in D : w \in G[k]
    PROVE  Total(f) \in Nat /\ Cardinality(W) <= Total(f)
<1> DEFINE h == CHOOSE g : IsSum(g, f)
           U(s) == UNION {G[k] : k \in s}
           F == {s \in SUBSET D : h[s] \in Nat /\ IsFiniteSet(U(s)) /\ Cardinality(U(s)) <= h[s]}
<1>1. IsSum(h, f)
  BY SumExists
<1>2. \A s \in SUBSET D : h[s] = IF s = {} THEN 0 ELSE f[Pick(s)] + h[s \ {Pick(s)}]
  BY <1>1 DEF IsSum
<1> HIDE DEF h
<1>3. {} \in F
  <2>1. U({}) = {} /\ h[{}] = 0
    BY <1>2
  <2> HIDE DEF U
  <2>2. QED BY <2>1, FS_EmptySet
<1>4. ASSUME NEW T \in SUBSET D, T # {}, \A x \in T : T \ {x} \in F
      PROVE  T \in F
  <2> DEFINE p == Pick(T)
             R == T \ {p}
  <2>1. p \in T
    BY <1>4 DEF Pick
  <2>2. h[T] = f[p] + h[R]
    BY <1>2, <1>4
  <2> HIDE DEF p
  <2>3. R \in F
    BY <1>4, <2>1
  <2>4. h[R] \in Nat /\ IsFiniteSet(U(R)) /\ Cardinality(U(R)) <= h[R] /\ f[p] \in Nat
    BY <2>1, <2>3
  <2>5. U(T) = G[p] \cup U(R)
    BY <2>1
  <2>6. IsFiniteSet(G[p]) /\ Cardinality(G[p]) <= f[p]
    BY <2>1
  <2> HIDE DEF U
  <2>7. /\ IsFiniteSet(G[p] \cup U(R))
        /\ Cardinality(G[p] \cup U(R)) =
               Cardinality(G[p]) + Cardinality(U(R)) - Cardinality(G[p] \cap U(R))
    BY <2>4, <2>6, FS_Union
  <2>8. IsFiniteSet(G[p] \cap U(R))
    BY <2>6, FS_Intersection
  <2>9. Cardinality(G[p] \cap U(R)) \in Nat /\ Cardinality(G[p]) \in Nat /\ Cardinality(U(R)) \in Nat
    BY <2>4, <2>6, <2>8, FS_CardinalityType
  <2>10. Cardinality(U(T)) <= h[T]
    BY <2>2, <2>4, <2>5, <2>6, <2>7, <2>9
  <2>11. h[T] \in Nat /\ IsFiniteSet(U(T))
    BY <2>2, <2>4, <2>5, <2>7
  <2>12. QED BY <2>10, <2>11
<1>5. D \in F
  <2> HIDE DEF F
  <2>1. QED BY <1>3, <1>4, FiniteSetsBySteps
<1>6. Total(f) = h[D]
  BY TotalIs DEF h
<1>7. W \in SUBSET U(D)
  OBVIOUS
<1>8. h[D] \in Nat /\ IsFiniteSet(U(D)) /\ Cardinality(U(D)) <= h[D]
  BY <1>5
<1> HIDE DEF U
<1>9. IsFiniteSet(W) /\ Cardinality(W) <= Cardinality(U(D))
  BY <1>7, <1>8, FS_Subset
<1>10. Cardinality(W) \in Nat /\ Cardinality(U(D)) \in Nat
  BY <1>8, <1>9, FS_CardinalityType
<1>11. QED BY <1>6, <1>8, <1>9, <1>10

-----------------------------------------------------------------------------
(* The recursions over the tree                                            *)

\* What the functions of Above and of TaskCount give at a depth, from what they
\* give at the depth before.
UpFrom(depth, before) ==
    [i \in Item |-> IF parent[i] = NoItem \/ depth = 0 THEN {}
                    ELSE {parent[i]} \cup before[depth - 1][parent[i]]]

CountFrom(depth, before) ==
    [q \in Queue |->
        Total([k \in DOMAIN list[q] |->
                  IF list[q][k] \in Task THEN 1
                  ELSE IF depth = 0 THEN 0 ELSE before[depth - 1][list[q][k]]])]

\* Above, as a function of the depth and of the item.
LEMMA AboveIs ==
    ASSUME NEW i
    PROVE  Above(i) = (CHOOSE h : h = [d \in 0..Cardinality(Queue) |-> UpFrom(d, h)])
                          [Cardinality(Queue)][i]
BY DEF Above, UpFrom

\* TaskCount, as a function of the depth and of the queue.
LEMMA TaskCountIs ==
    ASSUME NEW q
    PROVE  TaskCount(q) = (CHOOSE h : h = [d \in 0..Cardinality(Queue) |-> CountFrom(d, h)])
                              [Cardinality(Queue)][q]
BY DEF TaskCount, CountFrom

\* What is known of the two functions.
GoesUp(up) ==
    /\ \A i \in Item : Above(i) = up[Cardinality(Queue)][i]
    /\ \A i \in Item : up[0][i] = {}
    /\ \A d \in Nat : d + 1 <= Cardinality(Queue) =>
           \A i \in Item : up[d + 1][i] = IF parent[i] = NoItem THEN {}
                                         ELSE {parent[i]} \cup up[d][parent[i]]

GoesDown(count) ==
    /\ \A q \in Queue : TaskCount(q) = count[Cardinality(Queue)][q]
    /\ \A q \in Queue :
           count[0][q] = Total([k \in DOMAIN list[q] |-> IF list[q][k] \in Task THEN 1 ELSE 0])
    /\ \A d \in Nat : d + 1 <= Cardinality(Queue) =>
           \A q \in Queue :
               count[d + 1][q] =
                   Total([k \in DOMAIN list[q] |->
                             IF list[q][k] \in Task THEN 1 ELSE count[d][list[q][k]]])

\* Above goes up by one queue with each step of the depth.
LEMMA AboveByDepth == \E up : GoesUp(up)
<1> DEFINE IsPart(h, n) == h = [d \in 0..n |-> UpFrom(d, h)]
           S == {n \in Nat : \E h : IsPart(h, n)}
           N == Cardinality(Queue)
<1>0. N \in Nat
  BY QueueAssumption, FS_CardinalityType
<1>1. 0 \in S
  <2>1. \A g, h : UpFrom(0, g) = UpFrom(0, h)
    BY DEF UpFrom
  <2>2. IsPart([d \in 0..0 |-> UpFrom(0, <<>>)], 0)
    BY <2>1
  <2>3. QED BY <2>2
<1>2. ASSUME NEW n \in Nat, n \in S PROVE n + 1 \in S
  <2>1. PICK h : IsPart(h, n)
    BY <1>2
  <2> DEFINE g == [d \in 0..n + 1 |-> IF d <= n THEN h[d] ELSE UpFrom(d, h)]
  <2>2. \A d \in 0..n : g[d] = h[d] /\ h[d] = UpFrom(d, h)
    BY <2>1
  <2>3. g[n + 1] = UpFrom(n + 1, h)
    OBVIOUS
  <2>4. \A d \in 0..n + 1 : UpFrom(d, g) = UpFrom(d, h)
    <3>1. SUFFICES ASSUME NEW d \in 0..n + 1 PROVE UpFrom(d, g) = UpFrom(d, h)
      OBVIOUS
    <3>2. d # 0 => g[d - 1] = h[d - 1]
      BY <2>2
    <3> HIDE DEF g
    <3>3. QED BY <3>2 DEF UpFrom
  <2>5. \A d \in 0..n + 1 : g[d] = UpFrom(d, g)
    BY <2>2, <2>3, <2>4
  <2>6. IsPart(g, n + 1)
    BY <2>5
  <2>7. \E k : IsPart(k, n + 1)
    <3> HIDE DEF IsPart, g
    <3>1. QED BY <2>6
  <2> HIDE DEF IsPart
  <2>8. QED BY <2>7
<1>3. N \in S
  <2> HIDE DEF S
  <2>1. QED BY <1>0, <1>1, <1>2, NaturalsBySteps
<1> DEFINE up == CHOOSE h : h = [d \in 0..N |-> UpFrom(d, h)]
<1>4. up = [d \in 0..N |-> UpFrom(d, up)]
  BY <1>3
<1>5. \A i \in Item : Above(i) = up[N][i]
  BY AboveIs
<1> HIDE DEF up
<1>6. \A d \in 0..N : up[d] = UpFrom(d, up)
  BY <1>4
<1>7. \A i \in Item : up[0][i] = {}
  <2>1. 0 \in 0..N
    BY <1>0
  <2>2. up[0] = UpFrom(0, up)
    BY <1>6, <2>1
  <2>3. QED BY <2>2 DEF UpFrom
<1>8. ASSUME NEW d \in Nat, d + 1 <= N, NEW i \in Item
      PROVE  up[d + 1][i] = IF parent[i] = NoItem THEN {} ELSE {parent[i]} \cup up[d][parent[i]]
  <2>1. d + 1 \in 0..N /\ d + 1 # 0 /\ d + 1 - 1 = d
    BY <1>0, <1>8
  <2>2. up[d + 1] = UpFrom(d + 1, up)
    BY <1>6, <2>1
  <2>3. UpFrom(d + 1, up) = [m \in Item |-> IF parent[m] = NoItem \/ d + 1 = 0 THEN {}
                                           ELSE {parent[m]} \cup up[d + 1 - 1][parent[m]]]
    BY DEF UpFrom
  <2>4. QED BY <2>1, <2>2, <2>3
<1>9. GoesUp(up)
  BY <1>5, <1>7, <1>8 DEF GoesUp
<1>10. QED BY <1>9

\* TaskCount goes down by one queue with each step of the depth.
LEMMA TaskCountByDepth == \E count : GoesDown(count)
<1> DEFINE IsPart(h, n) == h = [d \in 0..n |-> CountFrom(d, h)]
           S == {n \in Nat : \E h : IsPart(h, n)}
           N == Cardinality(Queue)
<1>0. N \in Nat
  BY QueueAssumption, FS_CardinalityType
<1>1. 0 \in S
  <2>1. \A g, h : CountFrom(0, g) = CountFrom(0, h)
    BY DEF CountFrom
  <2>2. IsPart([d \in 0..0 |-> CountFrom(0, <<>>)], 0)
    BY <2>1
  <2>3. QED BY <2>2
<1>2. ASSUME NEW n \in Nat, n \in S PROVE n + 1 \in S
  <2>1. PICK h : IsPart(h, n)
    BY <1>2
  <2> DEFINE g == [d \in 0..n + 1 |-> IF d <= n THEN h[d] ELSE CountFrom(d, h)]
  <2>2. \A d \in 0..n : g[d] = h[d] /\ h[d] = CountFrom(d, h)
    BY <2>1
  <2>3. g[n + 1] = CountFrom(n + 1, h)
    OBVIOUS
  <2>4. \A d \in 0..n + 1 : CountFrom(d, g) = CountFrom(d, h)
    <3>1. SUFFICES ASSUME NEW d \in 0..n + 1 PROVE CountFrom(d, g) = CountFrom(d, h)
      OBVIOUS
    <3>2. d # 0 => g[d - 1] = h[d - 1]
      BY <2>2
    <3> HIDE DEF g
    <3>3. CASE d = 0
      BY <3>3 DEF CountFrom
    <3>4. CASE d # 0
      BY <3>2, <3>4 DEF CountFrom
    <3>5. QED BY <3>3, <3>4
  <2>5. \A d \in 0..n + 1 : g[d] = CountFrom(d, g)
    BY <2>2, <2>3, <2>4
  <2>6. IsPart(g, n + 1)
    BY <2>5
  <2>7. \E k : IsPart(k, n + 1)
    <3> HIDE DEF IsPart, g
    <3>1. QED BY <2>6
  <2> HIDE DEF IsPart
  <2>8. QED BY <2>7
<1>3. N \in S
  <2> HIDE DEF S
  <2>1. QED BY <1>0, <1>1, <1>2, NaturalsBySteps
<1> DEFINE count == CHOOSE h : h = [d \in 0..N |-> CountFrom(d, h)]
<1>4. count = [d \in 0..N |-> CountFrom(d, count)]
  BY <1>3
<1>5. \A q \in Queue : TaskCount(q) = count[N][q]
  BY TaskCountIs
<1> HIDE DEF count
<1>6. \A d \in 0..N : count[d] = CountFrom(d, count)
  BY <1>4
<1>7. \A q \in Queue :
          count[0][q] = Total([k \in DOMAIN list[q] |-> IF list[q][k] \in Task THEN 1 ELSE 0])
  <2>1. 0 \in 0..N
    BY <1>0
  <2>2. count[0] = CountFrom(0, count)
    BY <1>6, <2>1
  <2>3. CountFrom(0, count) =
            [q \in Queue |-> Total([k \in DOMAIN list[q] |-> IF list[q][k] \in Task THEN 1 ELSE 0])]
    BY DEF CountFrom
  <2>4. QED BY <2>2, <2>3
<1>8. ASSUME NEW d \in Nat, d + 1 <= N, NEW q \in Queue
      PROVE  count[d + 1][q] =
                 Total([k \in DOMAIN list[q] |->
                           IF list[q][k] \in Task THEN 1 ELSE count[d][list[q][k]]])
  <2> DEFINE e == d + 1
  <2>1. e \in 0..N /\ e # 0 /\ e - 1 = d
    BY <1>0, <1>8
  <2> HIDE DEF e
  <2>2. count[e] = CountFrom(e, count)
    BY <1>6, <2>1
  <2>3. CountFrom(e, count)[q] =
            Total([k \in DOMAIN list[q] |->
                      IF list[q][k] \in Task THEN 1 ELSE IF e = 0 THEN 0 ELSE count[e - 1][list[q][k]]])
    BY DEF CountFrom
  <2>4. [k \in DOMAIN list[q] |->
            IF list[q][k] \in Task THEN 1 ELSE IF e = 0 THEN 0 ELSE count[e - 1][list[q][k]]]
        = [k \in DOMAIN list[q] |-> IF list[q][k] \in Task THEN 1 ELSE count[d][list[q][k]]]
    BY <2>1
  <2>5. count[e][q] = Total([k \in DOMAIN list[q] |->
                                IF list[q][k] \in Task THEN 1 ELSE count[d][list[q][k]]])
    BY <2>2, <2>3, <2>4
  <2>6. QED BY <2>5 DEF e
<1>9. GoesDown(count)
  BY <1>5, <1>7, <1>8 DEF GoesDown
<1>10. QED BY <1>9

\* Every item of X other than a root has its parent in X, and is listed there.
Connected(X) ==
    \A i \in X : parent[i] # NoItem =>
        /\ parent[i] \in X
        /\ \E k \in 1..Len(list[parent[i]]) : list[parent[i]][k] = i

\* What is above an item of X is in X, at every depth.
LEMMA ClimbStaysConnected ==
    ASSUME parent \in [Item -> Queue \cup {NoItem}],
           NEW X \in SUBSET Item, Connected(X), NEW up, GoesUp(up)
    PROVE  \A d \in 0..Cardinality(Queue) : \A i \in X : up[d][i] \subseteq X \cap Queue
<1> DEFINE N == Cardinality(Queue)
           S == {d \in Nat : d <= N => \A i \in X : up[d][i] \subseteq X \cap Queue}
<1>1. N \in Nat
  BY QueueAssumption, FS_CardinalityType
<1>2. \A i \in X : parent[i] # NoItem => parent[i] \in X \cap Queue
  BY DEF Connected
<1>3. 0 \in S
  BY DEF GoesUp
<1>4. ASSUME NEW d \in Nat, d \in S PROVE d + 1 \in S
  <2>1. SUFFICES ASSUME d + 1 <= N, NEW i \in X PROVE up[d + 1][i] \subseteq X \cap Queue
    OBVIOUS
  <2>2. d <= N
    BY <1>1, <2>1
  <2>3. up[d + 1][i] = IF parent[i] = NoItem THEN {} ELSE {parent[i]} \cup up[d][parent[i]]
    BY <2>1 DEF GoesUp
  <2>4. QED BY <1>2, <1>4, <2>2, <2>3
<1>5. Nat \subseteq S
  <2> HIDE DEF S
  <2>1. QED BY <1>3, <1>4, NaturalsBySteps
<1>6. QED BY <1>1, <1>5

\* What is above an item of a connected set is in the set.
LEMMA AboveStaysConnected ==
    ASSUME parent \in [Item -> Queue \cup {NoItem}], NEW X \in SUBSET Item, Connected(X)
    PROVE  \A i \in X : Above(i) \subseteq X \cap Queue
<1>1. PICK up : GoesUp(up)
  BY AboveByDepth
<1>2. Cardinality(Queue) \in 0..Cardinality(Queue)
  BY QueueAssumption, FS_CardinalityType
<1>3. \A i \in X : Above(i) = up[Cardinality(Queue)][i]
  BY <1>1 DEF GoesUp
<1>4. QED BY <1>1, <1>2, <1>3, ClimbStaysConnected

\* A queue is reached from an item through one of the items it is the parent of.
LEMMA ClimbEndsAtChild ==
    ASSUME parent \in [Item -> Queue \cup {NoItem}],
           NEW X \in SUBSET Item, Connected(X), NEW up, GoesUp(up)
    PROVE  \A d \in Nat : d + 1 <= Cardinality(Queue) =>
               \A i \in X : \A q \in up[d + 1][i] :
                   \E j \in X : parent[j] = q /\ (j = i \/ j \in up[d][i])
<1> DEFINE N == Cardinality(Queue)
           Child(e, m, p) == \E j \in X : parent[j] = p /\ (j = m \/ j \in up[e][m])
           S == {e \in Nat : e + 1 <= N => \A m \in X : \A p \in up[e + 1][m] : Child(e, m, p)}
<1>1. N \in Nat
  BY QueueAssumption, FS_CardinalityType
<1>2. \A e \in Nat : e + 1 <= N => \A m \in X :
          up[e + 1][m] = IF parent[m] = NoItem THEN {} ELSE {parent[m]} \cup up[e][parent[m]]
  BY DEF GoesUp
<1>3. \A m \in X : parent[m] # NoItem => parent[m] \in X
  BY DEF Connected
<1>4. \A m \in X : up[0][m] = {}
  BY DEF GoesUp
<1> HIDE DEF N
<1>5. 0 \in S
  <2>1. SUFFICES ASSUME 0 + 1 <= N, NEW m \in X, NEW p \in up[0 + 1][m] PROVE Child(0, m, p)
    OBVIOUS
  <2>2. up[0 + 1][m] = IF parent[m] = NoItem THEN {} ELSE {parent[m]} \cup up[0][parent[m]]
    BY <1>2, <2>1
  <2>3. parent[m] = p
    BY <1>3, <1>4, <2>1, <2>2
  <2>4. QED BY <2>3
<1>6. ASSUME NEW e \in Nat, e \in S PROVE e + 1 \in S
  <2>1. SUFFICES ASSUME e + 1 + 1 <= N, NEW m \in X, NEW p \in up[e + 1 + 1][m]
                 PROVE  Child(e + 1, m, p)
    OBVIOUS
  <2>2. e + 1 <= N /\ e + 1 \in Nat
    BY <1>1, <2>1
  <2>3. up[e + 1 + 1][m] = IF parent[m] = NoItem THEN {} ELSE {parent[m]} \cup up[e + 1][parent[m]]
    BY <1>2, <2>1, <2>2
  <2>4. up[e + 1][m] = IF parent[m] = NoItem THEN {} ELSE {parent[m]} \cup up[e][parent[m]]
    BY <1>2, <2>2
  <2>5. parent[m] # NoItem /\ parent[m] \in X
    BY <1>3, <2>1, <2>3
  <2>6. CASE p = parent[m]
    BY <2>6
  <2>7. CASE p \in up[e + 1][parent[m]]
    <3>1. PICK j \in X : parent[j] = p /\ (j = parent[m] \/ j \in up[e][parent[m]])
      BY <1>6, <2>2, <2>5, <2>7
    <3>2. j \in up[e + 1][m]
      BY <2>4, <2>5, <3>1
    <3>3. QED BY <3>1, <3>2
  <2>8. QED BY <2>1, <2>3, <2>5, <2>6, <2>7
<1>7. Nat \subseteq S
  <2> HIDE DEF S
  <2>1. QED BY <1>5, <1>6, NaturalsBySteps
<1>8. QED BY <1>7 DEF N, S

\* The tasks of X whose signals go to q.
Below(X, q) == {t \in X \cap Task : q \in Above(t)}

\* A queue counts at least the tasks of a connected set that are below it, even
\* those that are nested in it through queues that are listed more than once.
LEMMA TasksAreCounted ==
    ASSUME list \in [Queue -> Seq(Item)], parent \in [Item -> Queue \cup {NoItem}],
           NEW X \in SUBSET Item, Connected(X), NEW q \in Queue
    PROVE  /\ TaskCount(q) \in Nat
           /\ IsFiniteSet(Below(X, q)) /\ Cardinality(Below(X, q)) \in Nat
           /\ Cardinality(Below(X, q)) <= TaskCount(q)
<1> DEFINE N == Cardinality(Queue)
<1>1. N \in Nat
  BY QueueAssumption, FS_CardinalityType
<1>2. PICK up : GoesUp(up)
  BY AboveByDepth
<1>3. PICK count : GoesDown(count)
  BY TaskCountByDepth
<1> DEFINE U(d, p) == {t \in X \cap Task : p \in up[d][t]}
           Good(d) == \A p \in Queue : count[d][p] \in Nat /\ Cardinality(U(d, p)) <= count[d][p]
           S == {d \in Nat : d <= N => Good(d)}
<1>4. \A d \in Nat : d + 1 <= N =>
           \A i \in X : \A p \in up[d + 1][i] :
               \E j \in X : parent[j] = p /\ (j = i \/ j \in up[d][i])
  BY <1>2, ClimbEndsAtChild
<1>5. \A d, p : IsFiniteSet(U(d, p)) /\ Cardinality(U(d, p)) \in Nat
  BY QueueAssumption, FS_Subset, FS_CardinalityType
<1>6. \A p \in Queue : IsFiniteSet(DOMAIN list[p]) /\ DOMAIN list[p] = 1..Len(list[p])
                       /\ \A k \in DOMAIN list[p] : list[p][k] \in Item
  <2>1. SUFFICES ASSUME NEW p \in Queue
                 PROVE  IsFiniteSet(DOMAIN list[p]) /\ DOMAIN list[p] = 1..Len(list[p])
                        /\ \A k \in DOMAIN list[p] : list[p][k] \in Item
    OBVIOUS
  <2>2. list[p] \in Seq(Item) /\ Len(list[p]) \in Nat /\ DOMAIN list[p] = 1..Len(list[p])
    BY LenProperties
  <2>3. QED BY <2>2, FS_Interval, ElementOfSeq
<1>7. 0 \in S
  <2>1. SUFFICES ASSUME NEW p \in Queue PROVE count[0][p] \in Nat /\ Cardinality(U(0, p)) <= count[0][p]
    OBVIOUS
  <2> DEFINE f == [k \in DOMAIN list[p] |-> IF list[p][k] \in Task THEN 1 ELSE 0]
             G == [k \in DOMAIN list[p] |-> {}]
  <2>2. count[0][p] = Total(f)
    BY <1>3 DEF GoesDown
  <2>3. f \in [DOMAIN list[p] -> Nat]
    OBVIOUS
  <2>4. \A k \in DOMAIN list[p] : IsFiniteSet(G[k]) /\ Cardinality(G[k]) <= f[k]
    BY FS_EmptySet
  <2>5. U(0, p) = {}
    BY <1>2 DEF GoesUp
  <2>6. Total(f) \in Nat /\ Cardinality(U(0, p)) <= Total(f)
    <3> DEFINE D == DOMAIN list[p]
               W == U(0, p)
    <3>1. IsFiniteSet(D) /\ f \in [D -> Nat]
          /\ \A k \in D : IsFiniteSet(G[k]) /\ Cardinality(G[k]) <= f[k]
      BY <1>6, <2>3, <2>4
    <3>2. \A t \in W : \E k \in D : t \in G[k]
      BY <2>5
    <3> HIDE DEF f, G, D, W
    <3>3. Total(f) \in Nat /\ Cardinality(W) <= Total(f)
      BY <3>1, <3>2, TotalBounds
    <3>4. QED BY <3>3 DEF W
  <2> HIDE DEF U, f
  <2>7. QED BY <2>2, <2>6
<1>8. ASSUME NEW d \in Nat, d \in S PROVE d + 1 \in S
  <2>1. SUFFICES ASSUME d + 1 <= N, NEW p \in Queue
                 PROVE  count[d + 1][p] \in Nat /\ Cardinality(U(d + 1, p)) <= count[d + 1][p]
    <3> HIDE DEF U, N
    <3>1. QED OBVIOUS
  <2>2. Good(d)
    <3> HIDE DEF Good, N
    <3>1. QED BY <1>1, <1>8, <2>1
  <2> DEFINE f == [k \in DOMAIN list[p] |->
                      IF list[p][k] \in Task THEN 1 ELSE count[d][list[p][k]]]
             G == [k \in DOMAIN list[p] |->
                      IF list[p][k] \in Task THEN {list[p][k]} ELSE U(d, list[p][k])]
  <2>3. count[d + 1][p] = Total(f)
    BY <1>3, <2>1 DEF GoesDown
  <2>4. \A k \in DOMAIN list[p] : list[p][k] \in Task \/ list[p][k] \in Queue
    BY <1>6 DEF Item
  <2>5. f \in [DOMAIN list[p] -> Nat]
    BY <2>2, <2>4
  <2>6. \A k \in DOMAIN list[p] : IsFiniteSet(G[k]) /\ Cardinality(G[k]) <= f[k]
    <3>1. SUFFICES ASSUME NEW k \in DOMAIN list[p]
                   PROVE  IsFiniteSet(G[k]) /\ Cardinality(G[k]) <= f[k]
      OBVIOUS
    <3>2. CASE list[p][k] \in Task
      <4>1. G[k] = {list[p][k]} /\ f[k] = 1
        BY <3>2
      <4>2. IsFiniteSet({list[p][k]}) /\ Cardinality({list[p][k]}) = 1
        BY FS_Singleton
      <4> HIDE DEF f, G
      <4>3. QED BY <4>1, <4>2
    <3>3. CASE list[p][k] \notin Task
      <4>1. G[k] = U(d, list[p][k]) /\ f[k] = count[d][list[p][k]] /\ list[p][k] \in Queue
        BY <2>4, <3>3
      <4>2. count[d][list[p][k]] \in Nat /\ Cardinality(U(d, list[p][k])) <= count[d][list[p][k]]
        BY <2>2, <4>1
      <4> HIDE DEF U, f, G
      <4>3. QED BY <1>5, <4>1, <4>2
    <3>4. QED BY <3>2, <3>3
  <2>7. ASSUME NEW t \in U(d + 1, p)
        PROVE  \E k \in DOMAIN list[p] : t \in G[k]
    <3>1. t \in X \cap Task /\ p \in up[d + 1][t]
      BY <2>7
    <3>2. PICK j \in X : parent[j] = p /\ (j = t \/ j \in up[d][t])
      BY <1>4, <2>1, <3>1
    <3>3. PICK k \in 1..Len(list[p]) : list[p][k] = j
      BY <3>2, QueueAssumption DEF Connected
    <3>4. k \in DOMAIN list[p]
      BY <1>6
    <3>5. CASE j = t
      BY <3>1, <3>3, <3>4, <3>5
    <3>6. CASE j \in up[d][t]
      <4>1. d \in 0..N
        BY <1>1, <2>1
      <4>2. j \in Queue
        BY <1>2, <3>1, <3>6, <4>1, ClimbStaysConnected
      <4>3. j \notin Task
        BY <4>2, QueueAssumption
      <4>4. G[k] = U(d, j) /\ t \in U(d, j)
        BY <3>1, <3>3, <3>4, <3>6, <4>3
      <4>5. QED BY <3>4, <4>4
    <3>7. QED BY <3>2, <3>5, <3>6
  <2>8. Total(f) \in Nat /\ Cardinality(U(d + 1, p)) <= Total(f)
    <3> DEFINE D == DOMAIN list[p]
               W == U(d + 1, p)
    <3>1. IsFiniteSet(D) /\ f \in [D -> Nat]
          /\ \A k \in D : IsFiniteSet(G[k]) /\ Cardinality(G[k]) <= f[k]
      BY <1>6, <2>5, <2>6
    <3>2. \A t \in W : \E k \in D : t \in G[k]
      <4> HIDE DEF U, G
      <4>1. QED BY <2>7
    <3> HIDE DEF f, G, D, W
    <3>3. Total(f) \in Nat /\ Cardinality(W) <= Total(f)
      BY <3>1, <3>2, TotalBounds
    <3>4. QED BY <3>3 DEF W
  <2>9. QED
    <3> HIDE DEF U, f
    <3>1. QED BY <2>3, <2>8
<1>9. N \in S
  <2> HIDE DEF S
  <2>1. QED BY <1>1, <1>7, <1>8, NaturalsBySteps
<1>10. TaskCount(q) = count[N][q]
  BY <1>3 DEF GoesDown
<1>11. Below(X, q) = U(N, q)
  BY <1>2 DEF GoesUp, Below, Item
<1>12. count[N][q] \in Nat /\ Cardinality(U(N, q)) <= count[N][q]
  <2> HIDE DEF U, N
  <2>1. QED BY <1>1, <1>9
<1> HIDE DEF U
<1>13. QED BY <1>5, <1>10, <1>11, <1>12

-----------------------------------------------------------------------------
(* The numbers of the queues                                               *)

\* A queue that is started and has tasks has a number, and it is the number of the
\* tasks below it that are started; what is above a started item is started.
NumberInv ==
    /\ number \in [Queue -> Nat \cup {None}]
    /\ phase = "build" => \A q \in Queue : number[q] = None
    /\ StartedBefore \in SUBSET Item /\ Connected(StartedBefore)
    /\ \A q \in Queue : number[q] # None => number[q] = Cardinality(Below(StartedBefore, q))
    /\ phase = "run" => \A q \in running \cap Queue : TaskCount(q) > 0 => number[q] # None

\* The items whose start is being called.
OnStack == {i \in Item : \E k \in 1..Len(stack) : stack[k].item = i}

\* The caller of an item that is being started is its parent, and runs.
LEMMA CallerIsParent ==
    ASSUME IInv, NEW k \in 1..Len(stack), parent[stack[k].item] # NoItem
    PROVE  /\ k - 1 \in 1..Len(stack) - 1 /\ k - 1 \in 1..Len(stack)
           /\ parent[stack[k].item] = stack[k - 1].item
           /\ stack[k - 1].item \in running
           /\ \E j \in 1..Len(list[stack[k - 1].item]) : list[stack[k - 1].item][j] = stack[k].item
<1>1. stack # <<>>
  BY DEF IInv, StackInv
<1>2. phase = "run" /\ Len(stack) \in Nat \ {0} /\ \A j \in 1..Len(stack) : stack[j].next \in Nat
  BY <1>1, WhileRunning
<1>3. k # 1
  BY <1>1 DEF IInv, StackInv, TreeInv
<1> DEFINE j == k - 1
<1>4. j \in 1..Len(stack) - 1 /\ j \in 1..Len(stack) /\ j + 1 = k
  BY <1>2, <1>3
<1> HIDE DEF j
<1>5. /\ stack[j].item \in Queue
      /\ stack[j].next - 1 \in 1..Len(list[stack[j].item])
      /\ list[stack[j].item][stack[j].next - 1] = stack[k].item
  BY <1>4 DEF IInv, StackInv
<1>6. parent[list[stack[j].item][stack[j].next - 1]] = stack[j].item
  BY <1>2, <1>5 DEF IInv, TreeInv
<1>7. Len(list[stack[j].item]) \in Nat /\ stack[j].next \in Nat /\ stack[j].next > 0
  BY <1>2, <1>4, <1>5, LenProperties DEF IInv, TreeInv
<1>8. stack[j].item \in running
  BY <1>4, <1>7 DEF IInv, RunInv
<1>9. QED BY <1>4, <1>5, <1>6, <1>8 DEF j

\* The items on the stack are connected, with their listings.
LEMMA StackIsConnected ==
    ASSUME IInv
    PROVE  OnStack \in SUBSET Item /\ Connected(OnStack)
<1>1. SUFFICES ASSUME NEW i \in OnStack, parent[i] # NoItem
               PROVE  /\ parent[i] \in OnStack
                      /\ \E k \in 1..Len(list[parent[i]]) : list[parent[i]][k] = i
  BY DEF Connected, OnStack
<1>2. PICK k \in 1..Len(stack) : stack[k].item = i
  BY DEF OnStack
<1>3. stack # <<>>
  BY <1>2 DEF IInv, StackInv
<1>4. \A j \in 1..Len(stack) : stack[j].item \in Item
  BY <1>3, WhileRunning
<1>5. QED BY <1>1, <1>2, <1>4, CallerIsParent DEF OnStack

\* All queues above a task that is being started run and have a number.
LEMMA CallersHaveNumbers ==
    ASSUME IInv, NumberInv, stack # <<>>, NEW t \in Task, stack[Len(stack)].item = t
    PROVE  \A q \in Above(t) : q \in Queue \cap running /\ number[q] \in Nat
<1>1. t \in OnStack /\ phase = "run"
  BY WhileRunning DEF OnStack, Item
<1>2. list \in [Queue -> Seq(Item)] /\ parent \in [Item -> Queue \cup {NoItem}]
  BY DEF IInv, TreeInv
<1>3. SUFFICES ASSUME NEW q \in Above(t) PROVE q \in Queue \cap running /\ number[q] \in Nat
  OBVIOUS
<1>4. q \in OnStack \cap Queue
  BY <1>1, <1>2, StackIsConnected, AboveStaysConnected
<1>5. PICK k \in 1..Len(stack) : stack[k].item = q
  BY <1>4 DEF OnStack
<1>6. k # Len(stack)
  BY <1>4, <1>5, QueueAssumption
<1>7. Len(stack) \in Nat /\ \A j \in 1..Len(stack) : stack[j].next \in Nat
  BY WhileRunning
<1>8. k \in 1..Len(stack) - 1
  BY <1>6, <1>7
<1>9. stack[k].next > 0
  <2>1. stack[k].next - 1 \in 1..Len(list[q]) /\ Len(list[q]) \in Nat
    BY <1>2, <1>4, <1>5, <1>8, LenProperties DEF IInv, StackInv
  <2>2. QED BY <1>5, <1>7, <2>1
<1>10. q \in running
  BY <1>5, <1>9 DEF IInv, RunInv
<1>11. TaskCount(q) > 0
  <2>1. /\ TaskCount(q) \in Nat
        /\ IsFiniteSet(Below(OnStack, q)) /\ Cardinality(Below(OnStack, q)) \in Nat
        /\ Cardinality(Below(OnStack, q)) <= TaskCount(q)
    BY <1>2, <1>4, StackIsConnected, TasksAreCounted
  <2>2. t \in Below(OnStack, q)
    BY <1>1 DEF Below
  <2>3. Cardinality(Below(OnStack, q)) # 0
    BY <2>1, <2>2, FS_EmptySet
  <2>4. QED BY <2>1, <2>3
<1>12. number[q] # None
  BY <1>1, <1>4, <1>10, <1>11 DEF NumberInv
<1>13. QED BY <1>4, <1>10, <1>12 DEF NumberInv

\* What is above an item and how many tasks a queue has is a matter of the tree.
LEMMA TreeStays ==
    ASSUME UNCHANGED tree
    PROVE  /\ \A i : Above(i)' = Above(i)
           /\ \A q : TaskCount(q)' = TaskCount(q)
           /\ \A X : Connected(X)' <=> Connected(X)
<1>1. list' = list /\ parent' = parent
  BY DEF tree
<1>2. ASSUME NEW i PROVE Above(i)' = Above(i)
  BY <1>1 DEF Above
<1>3. ASSUME NEW q PROVE TaskCount(q)' = TaskCount(q)
  BY <1>1 DEF TaskCount
<1>4. ASSUME NEW X PROVE Connected(X)' <=> Connected(X)
  BY <1>1 DEF Connected
<1>5. QED BY <1>2, <1>3, <1>4

\* Steps that neither count nor start anything.
LEMMA NumbersStay ==
    ASSUME NumberInv, UNCHANGED <<tree, number>>, running' \cup done' = running \cup done,
           phase' # "build",
           phase' = "run" => running' \subseteq running /\ (phase = "run" \/ running = {})
    PROVE  NumberInv'
<1>1. list' = list /\ parent' = parent /\ number' = number
  BY DEF tree
<1>2. StartedBefore' = StartedBefore
  BY DEF StartedBefore
<1>3. StartedBefore' \in SUBSET Item /\ Connected(StartedBefore)'
  BY <1>1, <1>2 DEF NumberInv, Connected
<1>4. \A q \in Queue : Below(StartedBefore, q)' = Below(StartedBefore, q)
  BY <1>2, TreeStays DEF Below
<1>5. \A q \in Queue : number'[q] # None => number'[q] = Cardinality(Below(StartedBefore, q)')
  BY <1>1, <1>4 DEF NumberInv
<1>6. phase' = "run" => \A q \in running' \cap Queue : TaskCount(q)' > 0 => number'[q] # None
  BY <1>1, TreeStays DEF NumberInv
<1>7. QED BY <1>1, <1>3, <1>5, <1>6 DEF NumberInv

\* The list operations come before any number.
LEMMA EditKeepsNumbers ==
    ASSUME IInv, NumberInv, Edit
    PROVE  NumberInv'
<1>1. running = {} /\ done = {} /\ \A q \in Queue : number[q] = None
  BY DEF Edit, IInv, StateInv, NumberInv
<1>2. running' = {} /\ done' = {} /\ number' = number
  BY <1>1 DEF Edit, flags, numbers
<1>3. StartedBefore' = {}
  BY <1>2 DEF StartedBefore
<1>4. Connected(StartedBefore)'
  BY <1>3 DEF Connected
<1>5. QED BY <1>1, <1>2, <1>3, <1>4 DEF NumberInv

\* start counts its item in every queue above it, or raises.
LEMMA StartKeepsNumbers ==
    ASSUME IInv, NumberInv, NEW i \in Item, Start(i)
    PROVE  NumberInv'
<1> DEFINE S == StartedBefore
<1>1. /\ stack # <<>> /\ stack[Len(stack)].item = i /\ i \notin S
      /\ running' = running \cup {i} /\ done' = done /\ UNCHANGED tree
  BY DEF Start, Inside
<1>2. /\ phase = "run" /\ Len(stack) \in 1..Len(stack)
      /\ list \in [Queue -> Seq(Item)] /\ parent \in [Item -> Queue \cup {NoItem}]
      /\ list' = list /\ parent' = parent
      /\ number \in [Queue -> Nat \cup {None}]
  BY <1>1, WhileRunning DEF IInv, TreeInv, NumberInv, tree
<1>3. S' = S \cup {i}
  BY <1>1 DEF StartedBefore
<1>4. S' \in SUBSET Item /\ Connected(S)'
  <2>1. parent[i] # NoItem => /\ parent[i] \in S
                              /\ \E k \in 1..Len(list[parent[i]]) : list[parent[i]][k] = i
    BY <1>1, <1>2, CallerIsParent DEF StartedBefore
  <2>2. S \in SUBSET Item /\ Connected(S)
    BY DEF NumberInv
  <2> HIDE DEF S
  <2>3. QED BY <1>2, <1>3, <2>1, <2>2 DEF Connected
<1>5. \A q \in Queue : /\ IsFiniteSet(Below(S, q)) /\ Cardinality(Below(S, q)) \in Nat
                       /\ TaskCount(q) \in Nat
  BY <1>2, TasksAreCounted DEF NumberInv
<1>6. \A q \in Queue : number[q] # None => number[q] = Cardinality(Below(S, q))
  BY DEF NumberInv
<1>7. /\ \A j : Above(j)' = Above(j)
      /\ \A q : TaskCount(q)' = TaskCount(q)
  BY <1>1, TreeStays
<1>8. \A q \in running \cap Queue : TaskCount(q) > 0 => number[q] # None
  BY <1>2 DEF NumberInv
<1>9. CASE i \in Task
  <2>1. i \notin Queue /\ Numbered(number, i) = number
    BY <1>9, QueueAssumption DEF Numbered
  <2>2. \A q \in Above(i) : q \in Queue \cap running /\ number[q] \in Nat
    BY <1>1, <1>9, CallersHaveNumbers
  <2>3. number' = Counted(number, Above(i))
    <3>1. ~\E q \in Above(i) : number[q] = None
      BY <2>2 DEF None
    <3>2. QED BY <1>9, <2>1, <3>1 DEF Start
  <2>4. \A q \in Queue : number'[q] = number[q] + (IF q \in Above(i) THEN 1 ELSE 0)
    BY <2>3 DEF Counted
  <2>5. \A q \in Queue : number[q] = -1 \/ number[q] \in Nat
    BY <1>2 DEF None
  <2>6. number' \in [Queue -> Nat \cup {None}]
    <3>1. number' = [q \in Queue |-> number[q] + (IF q \in Above(i) THEN 1 ELSE 0)]
      BY <2>3 DEF Counted
    <3>2. \A q \in Queue : number[q] + (IF q \in Above(i) THEN 1 ELSE 0) \in Nat \cup {None}
      BY <2>2, <2>5 DEF None
    <3>3. QED BY <3>1, <3>2
  <2>7. ASSUME NEW q \in Queue, number'[q] # None
        PROVE  number'[q] = Cardinality(Below(S, q)')
    <3>1. CASE q \in Above(i)
      <4>1. Below(S, q)' = Below(S, q) \cup {i} /\ i \notin Below(S, q)
        BY <1>1, <1>3, <1>7, <1>9, <3>1 DEF Below
      <4>2. Cardinality(Below(S, q) \cup {i}) = Cardinality(Below(S, q)) + 1
        BY <1>5, <4>1, FS_AddElement
      <4>3. number[q] \in Nat /\ number[q] # None
        BY <2>2, <3>1 DEF None
      <4>4. QED BY <1>6, <2>4, <3>1, <4>1, <4>2, <4>3
    <3>2. CASE q \notin Above(i)
      <4>1. Below(S, q)' = Below(S, q)
        BY <1>3, <1>7, <3>2 DEF Below
      <4>2. number'[q] = number[q]
        BY <2>4, <2>5, <3>2
      <4>3. QED BY <1>6, <2>7, <4>1, <4>2
    <3>3. QED BY <3>1, <3>2
  <2>8. \A q \in running' \cap Queue : TaskCount(q)' > 0 => number'[q] # None
    <3>1. SUFFICES ASSUME NEW q \in running' \cap Queue, TaskCount(q) > 0 PROVE number'[q] # None
      BY <1>7
    <3>2. number[q] # None
      BY <1>1, <1>8, <2>1, <3>1
    <3>3. QED BY <2>4, <2>5, <3>2 DEF None
  <2>9. QED BY <1>2, <1>4, <2>6, <2>7, <2>8 DEF NumberInv, Start, Raise
<1>10. CASE i \in Queue
  <2>1. i \notin Task
    BY <1>10, QueueAssumption
  <2>2. number' = Numbered(number, i) \/ number' = Counted(Numbered(number, i), {})
    BY <2>1 DEF Start
  <2>3. Numbered(number, i) = [q \in Queue |-> IF q = i /\ TaskCount(i) > 0 THEN 0 ELSE number[q]]
    BY <1>2, <1>10 DEF Numbered
  <2>4. \A q \in Queue : number[q] = -1 \/ number[q] \in Nat
    BY <1>2 DEF None
  <2>5. \A q \in Queue : number'[q] = IF q = i /\ TaskCount(i) > 0 THEN 0 ELSE number[q]
    BY <2>2, <2>3, <2>4 DEF Counted
  <2>6. number' \in [Queue -> Nat \cup {None}]
    <3>1. number' = [q \in Queue |-> number'[q]]
      BY <2>2, <2>3 DEF Counted
    <3>2. \A q \in Queue : number'[q] \in Nat \cup {None}
      BY <2>4, <2>5 DEF None
    <3>3. QED BY <3>1, <3>2
  <2>7. \A q \in Queue : Below(S, q)' = Below(S, q)
    BY <1>3, <1>7, <2>1 DEF Below
  <2>8. Below(S, i) = {}
    <3>1. \A t \in S : Above(t) \subseteq S
      BY <1>2, AboveStaysConnected DEF NumberInv
    <3>2. QED BY <1>1, <3>1 DEF Below
  <2>9. \A q \in Queue : number'[q] # None => number'[q] = Cardinality(Below(S, q)')
    <3>1. Cardinality(Below(S, i)) = 0
      BY <2>8, FS_EmptySet
    <3> HIDE DEF S
    <3>2. QED BY <1>6, <2>5, <2>7, <3>1
  <2>10. \A q \in running' \cap Queue : TaskCount(q)' > 0 => number'[q] # None
    BY <1>1, <1>7, <1>8, <2>5 DEF None
  <2>11. QED BY <1>2, <1>4, <2>6, <2>9, <2>10 DEF NumberInv, Start, Raise
<1>11. QED BY <1>9, <1>10 DEF Item

\* A queue that is done has no number any more.
LEMMA FinishQueueKeepsNumbers ==
    ASSUME IInv, NumberInv, NEW q \in Queue, FinishQueue(q)
    PROVE  NumberInv'
<1>1. /\ stack # <<>> /\ stack[Len(stack)].item = q /\ stack[Len(stack)].next > 0
      /\ running' = running \ {q} /\ done' = done \cup {q} /\ UNCHANGED <<tree, phase>>
      /\ number' = [number EXCEPT ![q] = None]
  BY DEF FinishQueue, NotRunning
<1>2. Len(stack) \in 1..Len(stack) /\ phase = "run" /\ list' = list /\ parent' = parent
  BY <1>1, WhileRunning DEF tree
<1>3. q \in running
  BY <1>1, <1>2 DEF IInv, RunInv
<1>4. StartedBefore' = StartedBefore
  BY <1>1, <1>3 DEF StartedBefore
<1>5. StartedBefore' \in SUBSET Item /\ Connected(StartedBefore)'
  BY <1>2, <1>4 DEF NumberInv, Connected
<1>6. \A p \in Queue : Below(StartedBefore, p)' = Below(StartedBefore, p)
  BY <1>1, <1>4, TreeStays DEF Below
<1>7. \A p \in Queue : number'[p] # None => number'[p] = Cardinality(Below(StartedBefore, p)')
  BY <1>1, <1>6 DEF NumberInv
<1>8. \A p \in running' \cap Queue : TaskCount(p)' > 0 => number'[p] # None
  BY <1>1, <1>2, TreeStays DEF NumberInv
<1>9. number' \in [Queue -> Nat \cup {None}]
  BY <1>1 DEF NumberInv
<1>10. QED BY <1>1, <1>2, <1>5, <1>7, <1>8, <1>9 DEF NumberInv

\* At first nothing has started.
LEMMA InitEstablishesNumbers ==
    ASSUME Init
    PROVE  NumberInv
<1>1. StartedBefore = {} /\ number = [q \in Queue |-> None]
  BY DEF Init, StartedBefore
<1>2. Connected(StartedBefore)
  BY <1>1 DEF Connected
<1>3. QED BY <1>1, <1>2 DEF NumberInv, Init

\* Every step keeps the numbers.
LEMMA StepKeepsNumbers ==
    ASSUME IInv, NumberInv, [Next]_vars
    PROVE  NumberInv'
<1>1. ASSUME Build PROVE NumberInv'
  <2>1. Edit
    BY <1>1 DEF Build, AppendItem, InsertItem, SetItem, PopItem, DeleteItem
  <2>2. QED BY <2>1, EditKeepsNumbers
<1>2. ASSUME RunInstallation PROVE NumberInv'
  <2>1. running = {}
    BY <1>2 DEF RunInstallation, IInv, StateInv
  <2>2. QED BY <1>2, <2>1, NumbersStay DEF RunInstallation, numbers, flags
<1>3. ASSUME Running PROVE NumberInv'
  <2>1. ASSUME NEW i \in Item, Refuse(i) PROVE NumberInv'
    <3>1. phase = "run"
      BY <2>1, WhileRunning DEF Refuse, Inside
    <3>2. QED BY <2>1, <3>1, NumbersStay DEF Refuse, numbers, flags
  <2>2. ASSUME NEW i \in Item, Start(i) PROVE NumberInv'
    BY <2>2, StartKeepsNumbers
  <2>3. ASSUME NEW t \in Task, CallTask(t) PROVE NumberInv'
    <3>1. phase = "run"
      BY <2>3, WhileRunning DEF CallTask, Inside
    <3>2. QED BY <2>3, <3>1, NumbersStay DEF CallTask, Raise, numbers, flags
  <2>4. ASSUME NEW t \in Task, CompleteTask(t) PROVE NumberInv'
    <3>1. phase = "run"
      BY <2>4, WhileRunning DEF CompleteTask, Inside
    <3>2. QED BY <2>4, <3>1, NumbersStay DEF CompleteTask, numbers, flags
  <2>5. ASSUME NEW t \in Task, FinishTask(t) PROVE NumberInv'
    <3>1. stack # <<>> /\ stack[Len(stack)].item = t /\ stack[Len(stack)].next = 3
      BY <2>5 DEF FinishTask, Inside
    <3>2. phase = "run" /\ Len(stack) \in 1..Len(stack)
      BY <3>1, WhileRunning
    <3>3. t \in running
      BY <3>1, <3>2 DEF IInv, RunInv
    <3>4. QED BY <2>5, <3>2, <3>3, NumbersStay DEF FinishTask, NotRunning, numbers
  <2>6. ASSUME NEW q \in Queue, StartItem(q) PROVE NumberInv'
    <3>1. phase = "run"
      BY <2>6, WhileRunning DEF StartItem, Inside
    <3>2. QED BY <2>6, <3>1, NumbersStay DEF StartItem, numbers, flags
  <2>7. ASSUME NEW q \in Queue, FinishQueue(q) PROVE NumberInv'
    BY <2>7, FinishQueueKeepsNumbers
  <2>8. ASSUME FinishInstallation PROVE NumberInv'
    BY <2>8, NumbersStay DEF FinishInstallation, numbers, flags
  <2>9. QED BY <1>3, <2>1, <2>2, <2>3, <2>4, <2>5, <2>6, <2>7, <2>8 DEF Running
<1>4. CASE UpdateProgress \/ UNCHANGED vars
  <2>1. UNCHANGED <<tree, number, running, done, phase>>
    BY <1>4 DEF UpdateProgress, vars, numbers, flags
  <2>2. CASE phase = "build"
    <3>1. running = {} /\ done = {} /\ \A q \in Queue : number[q] = None
      BY <2>2 DEF IInv, StateInv, NumberInv
    <3>2. StartedBefore' = {}
      BY <2>1, <3>1 DEF StartedBefore
    <3>3. Connected(StartedBefore)'
      BY <3>2 DEF Connected
    <3>4. QED BY <2>1, <3>1, <3>2, <3>3 DEF NumberInv
  <2>3. CASE phase # "build"
    BY <2>1, <2>3, NumbersStay
  <2>4. QED BY <2>2, <2>3
<1>5. QED BY <1>1, <1>2, <1>3, <1>4 DEF Next

\* The queues, the stack and the numbers at every moment of every installation.
THEOREM QueueInvariant == Spec => [](IInv /\ NumberInv)
BY InitEstablishes, InitEstablishesNumbers, StepKeeps, StepKeepsNumbers, PTL DEF Spec

\* TaskQueue._task_started_cb, start and task_count (installation_tasks.py:128-134,
\* 168-183, 282-322), for every tree that can be built: a queue that has a number
\* has seen exactly that many of the tasks below it start, through whatever queues
\* lie between, and its number never exceeds the count it announces.
THEOREM NumbersTellTheTruth == Spec => []CurrentTaskNumber
<1>1. IInv /\ NumberInv => CurrentTaskNumber
  <2>1. SUFFICES ASSUME IInv, NumberInv, NEW q \in Queue, number[q] # None
        PROVE  /\ number[q] = Cardinality({t \in running \cup done : t \in Task /\ q \in Above(t)})
               /\ number[q] <= TaskCount(q)
    BY DEF CurrentTaskNumber
  <2>2. {t \in running \cup done : t \in Task /\ q \in Above(t)} = Below(StartedBefore, q)
    BY DEF Below, StartedBefore
  <2>3. number[q] = Cardinality(Below(StartedBefore, q))
    BY <2>1 DEF NumberInv
  <2>4. list \in [Queue -> Seq(Item)] /\ parent \in [Item -> Queue \cup {NoItem}]
    BY <2>1 DEF IInv, TreeInv
  <2>5. Cardinality(Below(StartedBefore, q)) <= TaskCount(q)
    BY <2>1, <2>4, TasksAreCounted DEF NumberInv
  <2>6. QED BY <2>2, <2>3, <2>5
<1>2. QED BY <1>1, QueueInvariant, PTL

-----------------------------------------------------------------------------
(* The progress                                                            *)

\* A task whose step was reported: it is done, or its start is just about to return.
Reported(t) ==
    \/ t \in done
    \/ stack # <<>> /\ stack[Len(stack)].item = t /\ stack[Len(stack)].next > 2

Stepped == {t \in Task : Top \in Above(t) /\ Reported(t)}

\* The "complete" message, while it is in the queue.
Ending == IF phase = "ok" /\ ~bar.complete THEN 1 ELSE 0

\* "init" comes first, "complete" last, and all messages between them are steps.
MessageInv ==
    /\ progressQ \in Seq(Messages)
    /\ bar \in [current : Nat, total : Nat, complete : BOOLEAN]
    /\ phase = "build" => progressQ = <<>> /\ bar = [current |-> 0, total |-> 0, complete |-> FALSE]
    /\ bar.complete => phase = "ok" /\ progressQ = <<>>
    /\ phase = "ok" /\ ~bar.complete => progressQ # <<>>
    /\ \A k \in 1..Len(progressQ) :
           /\ progressQ[k].code = "init" =>
                  /\ k = 1 /\ progressQ[k].steps = TaskCount(Top)
                  /\ bar.current = 0 /\ bar.total = 0
                  /\ Len(progressQ) - 1 - Ending = Cardinality(Stepped)
           /\ progressQ[k].code = "complete" <=> phase = "ok" /\ k = Len(progressQ)

\* What the bar shows and the steps in the queue are the steps that were reported.
BarInv ==
    /\ bar.total > 0 =>
           /\ bar.total = TaskCount(Top)
           /\ bar.current + Len(progressQ) - Ending = Cardinality(Stepped)
    /\ running \cap done = {}
    /\ phase = "ok" => \A t \in Task : runs[t] > 0 => t \in done

ProgressInv == MessageInv /\ BarInv

\* The tasks that were reported can be counted.
LEMMA SteppedIsFinite == IsFiniteSet(Stepped) /\ Cardinality(Stepped) \in Nat
<1>1. Stepped \in SUBSET Task
  BY DEF Stepped
<1>2. QED BY <1>1, QueueAssumption, FS_Subset, FS_CardinalityType

\* Steps that send and read no message, and report no task.
LEMMA ProgressStays ==
    ASSUME ProgressInv, UNCHANGED <<tree, spoke>>, phase' # "build",
           \A t \in Task : Reported(t)' <=> Reported(t),
           phase' = "ok" <=> phase = "ok",
           phase = "ok" => runs' = runs /\ done' = done,
           running' \cap done' = {}
    PROVE  ProgressInv'
<1>1. progressQ' = progressQ /\ bar' = bar /\ TaskCount(Top)' = TaskCount(Top)
  BY TreeStays DEF spoke
<1>2. Stepped' = Stepped
  BY TreeStays DEF Stepped
<1>3. Ending' = Ending
  BY <1>1 DEF Ending
<1>4. MessageInv'
  BY <1>1, <1>2, <1>3 DEF ProgressInv, MessageInv
<1>5. BarInv'
  BY <1>1, <1>2, <1>3 DEF ProgressInv, BarInv
<1>6. QED BY <1>4, <1>5 DEF ProgressInv

\* The last frame after a return is that of a queue.
LEMMA ReturnsToQueue ==
    ASSUME IInv, stack # <<>>, Return, stack' # <<>>
    PROVE  stack'[Len(stack')].item \in Queue
<1>1. /\ Len(stack) \in Nat \ {0} /\ Len(stack') = Len(stack) - 1 /\ Len(stack) > 1
      /\ \A k \in 1..Len(stack) - 1 : stack'[k] = stack[k]
  BY WhileRunning, ReturnDrops
<1>2. Len(stack') \in 1..Len(stack) - 1
  BY <1>1
<1>3. QED BY <1>1, <1>2 DEF IInv, StackInv

\* At first there is no message and no bar.
LEMMA InitEstablishesProgress ==
    ASSUME Init
    PROVE  ProgressInv
<1> USE DEF Init
<1>1. progressQ = <<>> /\ progressQ \in Seq(Messages) /\ Len(progressQ) = 0
  OBVIOUS
<1>2. MessageInv
  BY <1>1 DEF MessageInv
<1>3. BarInv
  BY DEF BarInv
<1>4. QED BY <1>2, <1>3 DEF ProgressInv

\* The list operations come before any message.
LEMMA EditKeepsProgress ==
    ASSUME IInv, ProgressInv, Edit, phase' \in {"build", "raised"}
    PROVE  ProgressInv'
<1>1. /\ progressQ = <<>> /\ bar = [current |-> 0, total |-> 0, complete |-> FALSE]
      /\ running = {} /\ done = {}
  BY DEF Edit, IInv, StateInv, ProgressInv, MessageInv
<1>2. /\ progressQ' = <<>> /\ bar' = [current |-> 0, total |-> 0, complete |-> FALSE]
      /\ running' = {} /\ done' = {}
  BY <1>1 DEF Edit, spoke, flags
<1>3. progressQ' \in Seq(Messages) /\ Len(progressQ') = 0
  BY <1>2
<1>4. MessageInv'
  BY <1>2, <1>3 DEF MessageInv
<1>5. BarInv'
  BY <1>2 DEF BarInv
<1>6. QED BY <1>4, <1>5 DEF ProgressInv

\* The first message announces the steps.
LEMMA RunInstallationKeepsProgress ==
    ASSUME IInv, ProgressInv, RunInstallation
    PROVE  ProgressInv'
<1>1. /\ progressQ = <<>> /\ bar = [current |-> 0, total |-> 0, complete |-> FALSE]
      /\ running = {} /\ done = {}
  BY DEF RunInstallation, IInv, StateInv, ProgressInv, MessageInv
<1>2. TaskCount(Top) \in Nat /\ TaskCount(Top)' = TaskCount(Top)
  <2>1. {} \in SUBSET Item /\ Connected({}) /\ Top \in Queue
    BY QueueAssumption DEF Connected
  <2>2. TaskCount(Top) \in Nat
    BY <2>1, TasksAreCounted DEF IInv, TreeInv
  <2>3. QED BY <2>2, TreeStays DEF RunInstallation
<1> DEFINE first == Message("init", TaskCount(Top))
<1>3. first \in Messages /\ first.code = "init" /\ first.steps = TaskCount(Top)
  BY <1>2 DEF Message, Messages
<1>4. progressQ' = <<first>>
  BY <1>1 DEF RunInstallation
<1> HIDE DEF first
<1>5. progressQ' \in Seq(Messages) /\ Len(progressQ') = 1 /\ progressQ'[1] = first /\ progressQ' # <<>>
  BY <1>3, <1>4
<1>6. phase' = "run" /\ bar' = bar /\ running' = {} /\ done' = {}
      /\ stack' = <<[item |-> Top, next |-> 0]>>
  BY <1>1 DEF RunInstallation, flags
<1>7. Stepped' = {}
  <2>1. Len(stack') = 1 /\ stack'[1].next = 0
    BY <1>6
  <2>2. QED BY <1>6, <2>1 DEF Stepped, Reported
<1>8. Ending' = 0 /\ Cardinality(Stepped') = 0
  BY <1>6, <1>7, FS_EmptySet DEF Ending
<1>9. MessageInv'
  BY <1>1, <1>2, <1>3, <1>5, <1>6, <1>8 DEF MessageInv
<1>10. BarInv'
  BY <1>1, <1>6 DEF BarInv
<1>11. QED BY <1>9, <1>10 DEF ProgressInv

\* The steps of the stack that report nothing.
LEMMA QuietStepKeepsProgress ==
    ASSUME IInv, ProgressInv,
           \/ \E i \in Item : Refuse(i) \/ Start(i)
           \/ \E t \in Task : CallTask(t) \/ FinishTask(t)
           \/ \E q \in Queue : StartItem(q) \/ FinishQueue(q)
    PROVE  ProgressInv'
<1> DEFINE last == stack[Len(stack)]
<1>1. stack # <<>>
  BY DEF Refuse, Start, CallTask, FinishTask, StartItem, FinishQueue, Inside
<1>2. /\ phase = "run" /\ Len(stack) \in 1..Len(stack) /\ Queue \cap Task = {} /\ Task \subseteq Item
      /\ last.next \in Nat
  BY <1>1, WhileRunning, QueueAssumption DEF Item
<1>3. running \cap done = {}
  BY DEF ProgressInv, BarInv
<1>4. last.next > 0 => last.item \in running
  BY <1>2 DEF IInv, RunInv
<1>5. NextLine => /\ stack' # <<>> /\ stack'[Len(stack')].item = last.item
                  /\ stack'[Len(stack')].next = last.next + 1
  <2>1. SUFFICES ASSUME NextLine
                 PROVE  /\ stack' # <<>> /\ stack'[Len(stack')].item = last.item
                        /\ stack'[Len(stack')].next = last.next + 1
    OBVIOUS
  <2>2. stack' \in Seq(Frame) /\ Len(stack') = Len(stack)
        /\ stack'[Len(stack)].item = last.item /\ stack'[Len(stack)].next = last.next + 1
    BY <1>1, <1>2, <2>1, WhileRunning, NextLineMoves
  <2>3. QED BY <1>2, <2>2
<1>6. Return /\ stack' # <<>> => stack'[Len(stack')].item \notin Task
  BY <1>1, <1>2, ReturnsToQueue
<1>7. ASSUME NEW i \in Item, Refuse(i) PROVE ProgressInv'
  <2>1. last.next = 0 /\ Return /\ UNCHANGED <<tree, spoke, phase, runs, running, done>>
    BY <1>7 DEF Refuse, Inside, flags
  <2>2. \A t \in Task : Reported(t)' <=> Reported(t)
    BY <1>6, <2>1 DEF Reported
  <2>3. QED BY <1>2, <1>3, <2>1, <2>2, ProgressStays
<1>8. ASSUME NEW i \in Item, Start(i) PROVE ProgressInv'
  <2>1. /\ last.next = 0 /\ i \notin running \cup done /\ UNCHANGED <<tree, spoke, done, runs>>
        /\ running' = running \cup {i}
        /\ (NextLine /\ phase' = phase) \/ (stack' = <<>> /\ phase' = "raised")
    BY <1>8 DEF Start, Inside, StartedBefore, Raise
  <2>2. \A t \in Task : Reported(t)' <=> Reported(t)
    BY <1>5, <2>1 DEF Reported
  <2>3. QED BY <1>2, <1>3, <2>1, <2>2, ProgressStays
<1>9. ASSUME NEW t \in Task, CallTask(t) PROVE ProgressInv'
  <2>1. /\ last.next = 1 /\ UNCHANGED <<tree, spoke, running, done>>
        /\ (NextLine /\ phase' = phase) \/ (stack' = <<>> /\ phase' = "raised")
    BY <1>9 DEF CallTask, Inside, Raise, flags
  <2>2. \A m \in Task : Reported(m)' <=> Reported(m)
    BY <1>5, <2>1 DEF Reported
  <2>3. QED BY <1>2, <1>3, <2>1, <2>2, ProgressStays
<1>10. ASSUME NEW t \in Task, FinishTask(t) PROVE ProgressInv'
  <2>1. /\ last.item = t /\ last.next = 3 /\ Return /\ UNCHANGED <<tree, spoke, phase, runs>>
        /\ running' = running \ {t} /\ done' = done \cup {t}
    BY <1>10 DEF FinishTask, Inside, NotRunning
  <2>2. \A m \in Task : Reported(m)' <=> Reported(m)
    BY <1>1, <1>6, <2>1 DEF Reported
  <2>3. running' \cap done' = {}
    BY <1>3, <2>1
  <2>4. QED BY <1>2, <2>1, <2>2, <2>3, ProgressStays
<1>11. ASSUME NEW q \in Queue, StartItem(q) PROVE ProgressInv'
  <2>1. PICK n \in 1..Len(list[q]) :
            /\ last.item = q
            /\ stack' = Append([stack EXCEPT ![Len(stack)].next = @ + 1], [item |-> list[q][n], next |-> 0])
            /\ UNCHANGED <<tree, spoke, phase, runs, running, done>>
    BY <1>11 DEF StartItem, Inside, AllItems, flags
  <2> DEFINE moved == [stack EXCEPT ![Len(stack)].next = @ + 1]
  <2>2. moved \in Seq(Frame) /\ list[q][n] \in Item
    <3>1. stack \in Seq(Frame) /\ last \in Frame
      BY <1>1, <1>2, WhileRunning, ElementOfSeq
    <3>2. moved = [stack EXCEPT ![Len(stack)] = [last EXCEPT !.next = @ + 1]]
      BY <3>1 DEF Frame
    <3>3. [last EXCEPT !.next = @ + 1] \in Frame
      BY <3>1 DEF Frame
    <3>4. list[q] \in Seq(Item)
      BY DEF IInv, TreeInv
    <3> HIDE DEF moved, last
    <3>5. moved \in Seq(Frame)
      BY <1>2, <3>1, <3>2, <3>3, ExceptSeq
    <3>6. QED BY <3>4, <3>5, ElementOfSeq
  <2>3. /\ stack' # <<>> /\ stack'[Len(stack')].next = 0
    <3>1. stack' = Append(moved, [item |-> list[q][n], next |-> 0]) /\ [item |-> list[q][n], next |-> 0] \in Frame
      BY <2>1, <2>2 DEF Frame
    <3> HIDE DEF moved
    <3>2. stack' \in Seq(Frame) /\ Len(stack') = Len(moved) + 1 /\ Len(moved) \in Nat
          /\ stack'[Len(moved) + 1] = [item |-> list[q][n], next |-> 0]
      BY <2>2, <3>1, AppendProperties
    <3>3. QED BY <3>2
  <2>4. \A m \in Task : Reported(m)' <=> Reported(m)
    BY <1>2, <2>1, <2>3 DEF Reported
  <2>5. QED BY <1>2, <1>3, <2>1, <2>4, ProgressStays
<1>12. ASSUME NEW q \in Queue, FinishQueue(q) PROVE ProgressInv'
  <2>1. /\ last.item = q /\ last.next > 0 /\ Return /\ UNCHANGED <<tree, spoke, phase, runs>>
        /\ running' = running \ {q} /\ done' = done \cup {q}
    BY <1>12 DEF FinishQueue, NotRunning
  <2>2. \A m \in Task : Reported(m)' <=> Reported(m)
    BY <1>2, <1>6, <2>1 DEF Reported
  <2>3. running' \cap done' = {}
    BY <1>3, <2>1
  <2>4. QED BY <1>2, <2>1, <2>2, <2>3, ProgressStays
<1>13. QED BY <1>7, <1>8, <1>9, <1>10, <1>11, <1>12

\* A task below the top queue that returns is one more step, sent and reported.
LEMMA CompleteTaskKeepsProgress ==
    ASSUME IInv, ProgressInv, NEW t \in Task, CompleteTask(t)
    PROVE  ProgressInv'
<1>1. /\ stack # <<>> /\ stack[Len(stack)].item = t /\ stack[Len(stack)].next = 2 /\ NextLine
      /\ progressQ' = progressQ \o [k \in 1..OneStep(t) |-> Message("step", 0)]
      /\ UNCHANGED <<tree, running, done, phase, runs, bar>>
  BY DEF CompleteTask, Inside, flags
<1>2. phase = "run" /\ Len(stack) \in 1..Len(stack)
  BY <1>1, WhileRunning
<1>3. t \in running /\ running \cap done = {}
  BY <1>1, <1>2 DEF IInv, RunInv, ProgressInv, BarInv
<1>4. /\ stack' # <<>> /\ stack'[Len(stack')].item = t /\ stack'[Len(stack')].next = 3
  <2>1. stack' \in Seq(Frame) /\ Len(stack') = Len(stack)
        /\ stack'[Len(stack)].item = t /\ stack'[Len(stack)].next = 3
    BY <1>1, <1>2, WhileRunning, NextLineMoves
  <2>2. QED BY <1>2, <2>1
<1>5. ~Reported(t) /\ \A m \in Task : Reported(m)' <=> (Reported(m) \/ m = t)
  BY <1>1, <1>3, <1>4 DEF Reported
<1>6. \A m : Above(m)' = Above(m)
  BY <1>1, TreeStays
<1>7. TaskCount(Top)' = TaskCount(Top) /\ Ending = 0 /\ Ending' = 0
  BY <1>1, <1>2, TreeStays DEF Ending
<1>8. progressQ \in Seq(Messages) /\ Len(progressQ) \in Nat
  BY DEF ProgressInv, MessageInv
<1>9. \A k \in 1..Len(progressQ) :
          /\ progressQ[k].code # "complete"
          /\ progressQ[k].code = "init" =>
                 /\ k = 1 /\ progressQ[k].steps = TaskCount(Top)
                 /\ bar.current = 0 /\ bar.total = 0
                 /\ Len(progressQ) - 1 = Cardinality(Stepped)
  BY <1>2, <1>7 DEF ProgressInv, MessageInv
<1>10. CASE Top \in Above(t)
  <2> DEFINE step == Message("step", 0)
  <2>1. Stepped' = Stepped \cup {t} /\ t \notin Stepped
    BY <1>5, <1>6, <1>10 DEF Stepped
  <2>2. Cardinality(Stepped') = Cardinality(Stepped) + 1
    BY <2>1, SteppedIsFinite, FS_AddElement
  <2>3. step \in Messages /\ step.code = "step"
    BY DEF Message, Messages
  <2>4. progressQ' = progressQ \o [k \in 1..1 |-> step]
    BY <1>1, <1>10 DEF OneStep
  <2> HIDE DEF step
  <2>5. [k \in 1..1 |-> step] \in Seq(Messages) /\ Len([k \in 1..1 |-> step]) = 1
        /\ [k \in 1..1 |-> step][1] = step
    BY <2>3
  <2>6. /\ progressQ' \in Seq(Messages) /\ Len(progressQ') = Len(progressQ) + 1
        /\ \A k \in 1..Len(progressQ) : progressQ'[k] = progressQ[k]
        /\ progressQ'[Len(progressQ) + 1] = step
    BY <1>8, <2>4, <2>5
  <2>7. ASSUME NEW k \in 1..Len(progressQ')
        PROVE  /\ progressQ'[k].code # "complete"
               /\ progressQ'[k].code = "init" =>
                      /\ k = 1 /\ progressQ'[k].steps = TaskCount(Top)
                      /\ bar.current = 0 /\ bar.total = 0
                      /\ Len(progressQ') - 1 - Ending' = Cardinality(Stepped')
    <3>1. CASE k \in 1..Len(progressQ)
      BY <1>7, <1>8, <1>9, <2>2, <2>6, <3>1, SteppedIsFinite
    <3>2. CASE k = Len(progressQ) + 1
      BY <2>3, <2>6, <3>2
    <3>3. QED BY <1>8, <2>6, <3>1, <3>2
  <2>8. MessageInv'
    <3>1. /\ bar' \in [current : Nat, total : Nat, complete : BOOLEAN] /\ ~bar'.complete
          /\ phase' = "run" /\ TaskCount(Top)' = TaskCount(Top)
      BY <1>1, <1>2, <1>7 DEF ProgressInv, MessageInv
    <3>2. \A k \in 1..Len(progressQ') :
              /\ progressQ'[k].code = "init" =>
                     /\ k = 1 /\ progressQ'[k].steps = TaskCount(Top)
                     /\ bar'.current = 0 /\ bar'.total = 0
                     /\ Len(progressQ') - 1 - Ending' = Cardinality(Stepped')
              /\ progressQ'[k].code # "complete"
      BY <1>1, <2>7
    <3>3. QED BY <2>6, <3>1, <3>2 DEF MessageInv
  <2>9. BarInv'
    <3>1. bar.total > 0 => /\ bar.total = TaskCount(Top) /\ bar.current \in Nat
                           /\ bar.current + Len(progressQ) - Ending = Cardinality(Stepped)
      BY DEF ProgressInv, MessageInv, BarInv
    <3>2. bar'.total > 0 => /\ bar'.total = TaskCount(Top)'
                            /\ bar'.current + Len(progressQ') - Ending' = Cardinality(Stepped')
      <4>1. Cardinality(Stepped)' = Cardinality(Stepped) + 1 /\ Cardinality(Stepped) \in Nat
        BY <2>2, SteppedIsFinite
      <4>2. bar' = bar /\ Ending = 0 /\ Ending' = 0 /\ Len(progressQ)' = Len(progressQ) + 1
        BY <1>1, <1>7, <2>6
      <4>3. QED BY <1>7, <1>8, <3>1, <4>1, <4>2
    <3>3. QED BY <1>1, <1>2, <1>3, <3>2 DEF BarInv
  <2>10. QED BY <2>8, <2>9 DEF ProgressInv
<1>11. CASE Top \notin Above(t)
  <2>1. Stepped' = Stepped
    BY <1>5, <1>6, <1>11 DEF Stepped
  <2>2. progressQ' = progressQ
    <3>1. progressQ' = progressQ \o [k \in 1..0 |-> Message("step", 0)]
      BY <1>1, <1>11 DEF OneStep
    <3>2. [k \in 1..0 |-> Message("step", 0)] = <<>>
      OBVIOUS
    <3>3. QED BY <1>8, <3>1, <3>2
  <2>3. MessageInv'
    BY <1>1, <1>7, <2>1, <2>2 DEF ProgressInv, MessageInv
  <2>4. BarInv'
    BY <1>1, <1>2, <1>7, <2>1, <2>2 DEF ProgressInv, BarInv
  <2>5. QED BY <2>3, <2>4 DEF ProgressInv
<1>12. QED BY <1>10, <1>11

\* After the last start nothing runs, and the last message is sent.
LEMMA FinishInstallationKeepsProgress ==
    ASSUME IInv, ProgressInv, FinishInstallation
    PROVE  ProgressInv'
<1> DEFINE last == Message("complete", 0)
<1>1. /\ phase = "run" /\ stack = <<>> /\ phase' = "ok"
      /\ progressQ' = progressQ \o <<last>>
      /\ UNCHANGED <<tree, running, done, stack, runs, bar>>
  BY DEF FinishInstallation, ProgressComplete, flags
<1>2. progressQ \in Seq(Messages) /\ Len(progressQ) \in Nat /\ last \in Messages /\ last.code = "complete"
  BY DEF ProgressInv, MessageInv, Message, Messages
<1> HIDE DEF last
<1>3. /\ progressQ' \in Seq(Messages) /\ Len(progressQ') = Len(progressQ) + 1
      /\ \A k \in 1..Len(progressQ) : progressQ'[k] = progressQ[k]
      /\ progressQ'[Len(progressQ) + 1] = last
      /\ progressQ' # <<>>
  BY <1>1, <1>2
<1>4. ~bar.complete /\ Ending = 0 /\ Ending' = 1
  BY <1>1 DEF ProgressInv, MessageInv, Ending
<1>5. Stepped' = Stepped /\ TaskCount(Top)' = TaskCount(Top)
  BY <1>1, TreeStays DEF Stepped, Reported
<1>6. \A k \in 1..Len(progressQ) :
          /\ progressQ[k].code # "complete"
          /\ progressQ[k].code = "init" =>
                 /\ k = 1 /\ progressQ[k].steps = TaskCount(Top)
                 /\ bar.current = 0 /\ bar.total = 0
                 /\ Len(progressQ) - 1 = Cardinality(Stepped)
  BY <1>1, <1>4 DEF ProgressInv, MessageInv
<1>7. ASSUME NEW k \in 1..Len(progressQ')
      PROVE  /\ progressQ'[k].code = "complete" <=> k = Len(progressQ')
             /\ progressQ'[k].code = "init" =>
                    /\ k = 1 /\ progressQ'[k].steps = TaskCount(Top)
                    /\ bar.current = 0 /\ bar.total = 0
                    /\ Len(progressQ') - 1 - 1 = Cardinality(Stepped)
  <2>1. CASE k \in 1..Len(progressQ)
    BY <1>2, <1>3, <1>6, <2>1, SteppedIsFinite
  <2>2. CASE k = Len(progressQ) + 1
    BY <1>2, <1>3, <2>2
  <2>3. QED BY <1>2, <1>3, <2>1, <2>2
<1>8. MessageInv'
  BY <1>1, <1>3, <1>4, <1>5, <1>7 DEF ProgressInv, MessageInv
<1>9. BarInv'
  <2>1. \A m \in running : FALSE
    BY <1>1 DEF IInv, RunInv
  <2>2. \A m \in Task : runs[m] > 0 => m \in done
    BY <1>1, <2>1 DEF IInv, RunInv
  <2>3. bar'.total > 0 =>
            /\ bar'.total = TaskCount(Top)'
            /\ bar'.current + Len(progressQ') - Ending' = Cardinality(Stepped)'
    BY <1>1, <1>2, <1>3, <1>4, <1>5, SteppedIsFinite DEF ProgressInv, MessageInv, BarInv
  <2>4. QED BY <1>1, <2>1, <2>2, <2>3 DEF BarInv
<1>10. QED BY <1>8, <1>9 DEF ProgressInv

\* The spoke takes one message and moves the bar by it.
LEMMA UpdateProgressKeepsProgress ==
    ASSUME IInv, ProgressInv, UpdateProgress
    PROVE  ProgressInv'
<1>1. /\ progressQ # <<>> /\ ~bar.complete /\ progressQ' = Tail(progressQ)
      /\ UNCHANGED <<tree, running, done, phase, stack, runs>>
  BY DEF UpdateProgress, flags
<1>2. /\ progressQ \in Seq(Messages) /\ Len(progressQ) \in Nat \ {0} /\ phase # "build"
      /\ bar \in [current : Nat, total : Nat, complete : BOOLEAN]
  BY <1>1 DEF ProgressInv, MessageInv
<1>3. /\ progressQ' \in Seq(Messages) /\ Len(progressQ') = Len(progressQ) - 1
      /\ \A k \in 1..Len(progressQ') : k + 1 \in 1..Len(progressQ) /\ progressQ'[k] = progressQ[k + 1]
      /\ Len(progressQ') = 0 <=> progressQ' = <<>>
  <2>1. progressQ' \in Seq(Messages) /\ Len(progressQ') = Len(progressQ) - 1
    BY <1>1, <1>2
  <2>2. \A k \in 1..Len(progressQ') : k + 1 \in 1..Len(progressQ) /\ progressQ'[k] = progressQ[k + 1]
    BY <1>1, <1>2, <2>1
  <2>3. Len(progressQ') = 0 <=> progressQ' = <<>>
    BY <2>1
  <2>4. QED BY <2>1, <2>2, <2>3
<1>4. Stepped' = Stepped /\ TaskCount(Top)' = TaskCount(Top)
  BY <1>1, TreeStays DEF Stepped, Reported
<1>5. Cardinality(Stepped) \in Nat /\ Cardinality(Stepped)' = Cardinality(Stepped)
  BY <1>4, SteppedIsFinite
<1> DEFINE message == progressQ[1]
<1>6. /\ message.code \in {"init", "step", "complete"} /\ message.steps \in Nat
      /\ message.code = "init" =>
             /\ message.steps = TaskCount(Top)
             /\ Len(progressQ) - 1 - Ending = Cardinality(Stepped)
      /\ message.code = "complete" <=> phase = "ok" /\ Len(progressQ) = 1
  <2>1. 1 \in 1..Len(progressQ)
    BY <1>2
  <2>2. message \in Messages
    BY <1>2, <2>1, ElementOfSeq
  <2>3. message.code \in {"init", "step", "complete"} /\ message.steps \in Nat
    BY <2>2 DEF Messages
  <2>4. QED BY <1>2, <2>1, <2>3 DEF ProgressInv, MessageInv
<1>7. \A k \in 1..Len(progressQ') :
          /\ progressQ'[k].code # "init"
          /\ progressQ'[k].code = "complete" <=> phase' = "ok" /\ k = Len(progressQ')
  <2>1. \A k \in 1..Len(progressQ) :
            /\ progressQ[k].code = "init" => k = 1
            /\ progressQ[k].code = "complete" <=> phase = "ok" /\ k = Len(progressQ)
    BY DEF ProgressInv, MessageInv
  <2>2. ASSUME NEW k \in 1..Len(progressQ')
        PROVE  /\ progressQ'[k].code # "init"
               /\ progressQ'[k].code = "complete" <=> phase' = "ok" /\ k = Len(progressQ')
    <3>1. /\ k + 1 \in 1..Len(progressQ) /\ progressQ'[k] = progressQ[k + 1]
          /\ k + 1 # 1 /\ (k + 1 = Len(progressQ) <=> k = Len(progressQ'))
      BY <1>2, <1>3, <2>2
    <3>2. QED BY <1>1, <2>1, <3>1
  <2>3. QED BY <2>2
<1>8. bar' = CASE message.code = "init" -> [bar EXCEPT !.total = message.steps, !.current = 0]
               [] message.code = "step" ->
                      [bar EXCEPT !.current = IF bar.total = 0 THEN @ ELSE @ + 1]
               [] message.code = "complete" -> [bar EXCEPT !.complete = TRUE]
  <2>1. message = Head(progressQ)
    BY <1>2
  <2> HIDE DEF message
  <2>2. QED BY <2>1 DEF UpdateProgress
<1>9. running \cap done = {} /\ (phase = "ok" => \A t \in Task : runs[t] > 0 => t \in done)
  BY DEF ProgressInv, BarInv
<1>10. bar.total > 0 =>
           /\ bar.total = TaskCount(Top)
           /\ bar.current + Len(progressQ) - Ending = Cardinality(Stepped)
  BY DEF ProgressInv, BarInv
<1>11. Ending = (IF phase = "ok" THEN 1 ELSE 0)
  BY <1>1 DEF Ending
<1>12. message.code # "complete" /\ phase = "ok" => progressQ' # <<>>
  BY <1>2, <1>3, <1>6
<1> HIDE DEF message
<1>13. CASE message.code = "init"
  <2>1. bar' = [current |-> 0, total |-> message.steps, complete |-> FALSE]
    BY <1>1, <1>2, <1>8, <1>13
  <2>2. Ending' = Ending
    BY <1>1, <2>1 DEF Ending
  <2>3. MessageInv'
    BY <1>1, <1>2, <1>3, <1>6, <1>7, <1>13, <1>12, <2>1 DEF MessageInv
  <2>4. bar'.total = TaskCount(Top)' /\ bar'.current + Len(progressQ') - Ending' = Cardinality(Stepped)'
    BY <1>2, <1>3, <1>4, <1>5, <1>6, <1>11, <1>13, <2>1, <2>2
  <2>5. BarInv'
    BY <1>1, <1>9, <2>4 DEF BarInv
  <2>6. QED BY <2>3, <2>5 DEF ProgressInv
<1>14. CASE message.code = "step"
  <2>1. /\ bar' \in [current : Nat, total : Nat, complete : BOOLEAN]
        /\ bar'.total = bar.total /\ ~bar'.complete
        /\ bar.total > 0 => bar'.current = bar.current + 1
    BY <1>1, <1>2, <1>8, <1>14
  <2>2. Ending' = Ending
    BY <1>1, <2>1 DEF Ending
  <2>3. MessageInv'
    BY <1>1, <1>2, <1>3, <1>6, <1>7, <1>14, <1>12, <2>1 DEF MessageInv
  <2>4. bar'.total > 0 =>
            /\ bar'.total = TaskCount(Top)'
            /\ bar'.current + Len(progressQ') - Ending' = Cardinality(Stepped)'
    <3>1. SUFFICES ASSUME bar.total > 0
                   PROVE  bar'.current + Len(progressQ') - Ending' = Cardinality(Stepped)
      BY <1>4, <1>5, <1>10, <2>1
    <3>2. Ending' = Ending /\ Ending \in Nat /\ bar.current \in Nat /\ bar'.current = bar.current + 1
      BY <1>2, <1>11, <2>1, <2>2, <3>1
    <3>3. QED BY <1>2, <1>3, <1>5, <1>10, <3>1, <3>2
  <2>5. BarInv'
    BY <1>1, <1>9, <2>4 DEF BarInv
  <2>6. QED BY <2>3, <2>5 DEF ProgressInv
<1>15. CASE message.code = "complete"
  <2>1. /\ bar' = [bar EXCEPT !.complete = TRUE] /\ phase = "ok" /\ progressQ' = <<>>
        /\ Len(progressQ) = 1 /\ Len(progressQ') = 0
    BY <1>2, <1>3, <1>6, <1>8, <1>15
  <2>2. /\ bar' \in [current : Nat, total : Nat, complete : BOOLEAN]
        /\ bar'.total = bar.total /\ bar'.complete /\ bar'.current = bar.current
    BY <1>2, <2>1
  <2>3. Ending = 1 /\ Ending' = 0
    BY <1>11, <2>1, <2>2 DEF Ending
  <2>4. MessageInv'
    BY <1>1, <1>3, <2>1, <2>2 DEF MessageInv
  <2>5. bar'.total > 0 =>
            /\ bar'.total = TaskCount(Top)'
            /\ bar'.current + Len(progressQ') - Ending' = Cardinality(Stepped)'
    BY <1>2, <1>4, <1>5, <1>10, <2>1, <2>2, <2>3
  <2>6. BarInv'
    BY <1>1, <1>9, <2>5 DEF BarInv
  <2>7. QED BY <2>4, <2>6 DEF ProgressInv
<1>16. QED BY <1>6, <1>13, <1>14, <1>15

\* Every step keeps the messages and the bar.
LEMMA StepKeepsProgress == IInv /\ ProgressInv /\ [Next]_vars => ProgressInv'
<1> SUFFICES ASSUME IInv, ProgressInv, [Next]_vars PROVE ProgressInv'
  OBVIOUS
<1>1. CASE Build
  <2>1. Edit /\ phase' \in {"build", "raised"}
    BY <1>1 DEF Build, AppendItem, InsertItem, SetItem, PopItem, DeleteItem, Edit
  <2>2. QED BY <2>1, EditKeepsProgress
<1>2. CASE RunInstallation
  BY <1>2, RunInstallationKeepsProgress
<1>3. CASE Running
  <2>1. CASE \/ \E i \in Item : Refuse(i) \/ Start(i)
             \/ \E t \in Task : CallTask(t) \/ FinishTask(t)
             \/ \E q \in Queue : StartItem(q) \/ FinishQueue(q)
    BY <2>1, QuietStepKeepsProgress
  <2>2. CASE \E t \in Task : CompleteTask(t)
    BY <2>2, CompleteTaskKeepsProgress
  <2>3. CASE FinishInstallation
    BY <2>3, FinishInstallationKeepsProgress
  <2>4. QED BY <1>3, <2>1, <2>2, <2>3 DEF Running
<1>4. CASE UpdateProgress
  BY <1>4, UpdateProgressKeepsProgress
<1>5. CASE UNCHANGED vars
  <2>1. UNCHANGED <<tree, spoke, running, done, phase, stack, runs>>
    BY <1>5 DEF vars, flags
  <2>2. /\ progressQ' = progressQ /\ bar' = bar /\ phase' = phase /\ running' = running
        /\ done' = done /\ runs' = runs /\ TaskCount(Top)' = TaskCount(Top)
    BY <2>1, TreeStays DEF spoke
  <2>3. Stepped' = Stepped /\ Ending' = Ending
    BY <2>1, <2>2, TreeStays DEF Stepped, Reported, Ending
  <2>4. MessageInv'
    BY <2>2, <2>3 DEF ProgressInv, MessageInv
  <2>5. BarInv'
    BY <2>2, <2>3 DEF ProgressInv, BarInv
  <2>6. QED BY <2>4, <2>5 DEF ProgressInv
<1>6. QED BY <1>1, <1>2, <1>3, <1>4, <1>5 DEF Next

\* progress.py and spokes/installation_progress.py:72-116: whatever tree was built,
\* in whatever order the timer of the spoke and the installation thread take their
\* turns, the bar never exceeds its total, and where it ends it has a step for every
\* task that was run and is connected to the top queue.
THEOREM ProgressIsTrue == Spec => []BarIsTrue
<1>1. IInv /\ NumberInv /\ ProgressInv => BarIsTrue
  <2> SUFFICES ASSUME IInv, NumberInv, ProgressInv PROVE BarIsTrue
    OBVIOUS
  <2>1. Cardinality(Stepped) <= TaskCount(Top)
    <3>1. Top \in Queue /\ StartedBefore \in SUBSET Item /\ Connected(StartedBefore)
          /\ list \in [Queue -> Seq(Item)] /\ parent \in [Item -> Queue \cup {NoItem}]
      BY QueueAssumption DEF IInv, TreeInv, NumberInv
    <3>2. /\ IsFiniteSet(Below(StartedBefore, Top)) /\ TaskCount(Top) \in Nat
          /\ Cardinality(Below(StartedBefore, Top)) \in Nat
          /\ Cardinality(Below(StartedBefore, Top)) <= TaskCount(Top)
      BY <3>1, TasksAreCounted
    <3>3. \A t \in Task : Reported(t) => t \in StartedBefore
      <4>1. stack # <<>> => Len(stack) \in 1..Len(stack) /\ stack[Len(stack)].next \in Nat
        BY WhileRunning
      <4>2. stack # <<>> /\ stack[Len(stack)].next > 0 => stack[Len(stack)].item \in running
        BY <4>1 DEF IInv, RunInv
      <4>3. QED BY <4>1, <4>2 DEF Reported, StartedBefore
    <3>4. Stepped \subseteq Below(StartedBefore, Top)
      BY <3>3 DEF Stepped, Below
    <3>5. Cardinality(Stepped) <= Cardinality(Below(StartedBefore, Top))
      BY <3>2, <3>4, FS_Subset
    <3>6. QED BY <3>2, <3>5, SteppedIsFinite
  <2>2. /\ progressQ \in Seq(Messages) /\ Len(progressQ) \in Nat
        /\ progressQ = <<>> <=> Len(progressQ) = 0
        /\ bar \in [current : Nat, total : Nat, complete : BOOLEAN]
        /\ bar.complete => phase = "ok" /\ progressQ = <<>>
        /\ phase = "ok" /\ ~bar.complete => progressQ # <<>>
    BY DEF ProgressInv, MessageInv
  <2>3. Ending \in Nat /\ Ending <= Len(progressQ) /\ (bar.complete => Ending = 0)
    BY <2>2 DEF Ending
  <2>4. bar.total > 0 =>
            /\ bar.total = TaskCount(Top)
            /\ bar.current + Len(progressQ) - Ending = Cardinality(Stepped)
    BY DEF ProgressInv, BarInv
  <2>5. bar.total > 0 => bar.current <= bar.total
    BY <2>1, <2>2, <2>3, <2>4, SteppedIsFinite
  <2>6. bar.complete => Stepped = {t \in Task : runs[t] = 1 /\ Top \in Above(t)}
    <3>1. SUFFICES ASSUME bar.complete
                   PROVE  Stepped = {t \in Task : runs[t] = 1 /\ Top \in Above(t)}
      OBVIOUS
    <3>2. phase = "ok" /\ stack = <<>>
      BY <2>2, <3>1 DEF IInv, StateInv
    <3>3. \A t \in Task : runs[t] = 1 => t \in done
      BY <3>2 DEF ProgressInv, BarInv
    <3>4. \A t \in Task : t \in done => runs[t] = 1
      BY DEF IInv, RunInv
    <3>5. QED BY <3>2, <3>3, <3>4 DEF Stepped, Reported
  <2>7. bar.complete /\ bar.total > 0 => bar.current = Cardinality(Stepped)
    BY <2>2, <2>3, <2>4, SteppedIsFinite
  <2>8. QED BY <2>5, <2>6, <2>7 DEF BarIsTrue
<1>2. QED BY <1>1, QueueInvariant, InitEstablishesProgress, StepKeepsProgress, PTL DEF Spec
=============================================================================
