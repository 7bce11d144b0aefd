------------------------- MODULE InstallationQueue -------------------------
(***************************************************************************)
(* pyanaconda/installation_tasks.py and installation.py: a tree of task    *)
(* queues is put together, started and run depth first in the installation *)
(* thread; signals go up the tree, every completed task is a step in       *)
(* progressQ, and the progress spoke reads that queue in the main loop.    *)
(***************************************************************************)
EXTENDS Integers, Sequences, FiniteSets, Functions

CONSTANTS
    Task,
    Queue,
    Top,            \* the "Complete installation queue"
    MaxEdits        \* bound: how many list operations build the tree

NoItem == "no item"

ASSUME QueueAssumption ==
    /\ Top \in Queue /\ Queue \cap Task = {} /\ NoItem \notin Queue
    /\ IsFiniteSet(Queue) /\ IsFiniteSet(Task)
    /\ MaxEdits \in Nat

VARIABLES
    list,           \* _list of each queue
    parent,         \* _parent of each item
    number,         \* _current_task_number of each queue
    queueNumber,    \* _current_queue_number
    running,
    done,
    phase,          \* of run_installation
    stack,          \* the items whose start is being called, outermost first
    raised,         \* history: what was raised
    runs,           \* history: how often the callable of a task was run
    progressQ,
    bar,            \* the progress spoke: steps so far and in total
    edits

Item == Task \cup Queue
None == -1

tree == <<list, parent>>
numbers == <<number, queueNumber>>
flags == <<running, done>>
spoke == <<progressQ, bar>>
vars == <<tree, numbers, flags, phase, stack, raised, runs, spoke, edits>>

Frame == [item : Item, next : Nat]
Messages == [code : {"init", "step", "complete"}, steps : Nat]

TypeOK ==
    /\ list \in [Queue -> Seq(Item)]
    /\ parent \in [Item -> Queue \cup {NoItem}]
    /\ number \in [Queue -> Nat \cup {None}]
    /\ queueNumber \in [Queue -> Nat \cup {None}]
    /\ running \subseteq Item /\ done \subseteq Item /\ running \cap done = {}
    /\ phase \in {"build", "run", "ok", "raised"}
    /\ stack \in Seq(Frame)
    /\ raised \subseteq {"AttributeError", "TypeError", "task"}
    /\ runs \in [Task -> Nat]
    /\ progressQ \in Seq(Messages)
    /\ bar \in [current : Nat, total : Nat, complete : BOOLEAN]
    /\ edits \in 0..MaxEdits

Init ==
    /\ list = [q \in Queue |-> <<>>]
    /\ parent = [i \in Item |-> NoItem]
    /\ number = [q \in Queue |-> None] /\ queueNumber = [q \in Queue |-> None]
    /\ running = {} /\ done = {}
    /\ phase = "build" /\ stack = <<>>
    /\ raised = {} /\ runs = [t \in Task |-> 0]
    /\ progressQ = <<>>
    /\ bar = [current |-> 0, total |-> 0, complete |-> FALSE]
    /\ edits = 0

-----------------------------------------------------------------------------
(* The tree                                                                *)

Total(f) == FoldFunction(LAMBDA x, y : x + y, 0, f)

\* task_count: the tasks of the queue and of all nested queues.
TaskCount(queue) ==
    LET count[depth \in 0..Cardinality(Queue)] ==
            [q \in Queue |->
                Total([k \in DOMAIN list[q] |->
                          IF list[q][k] \in Task THEN 1
                          ELSE IF depth = 0 THEN 0 ELSE count[depth - 1][list[q][k]]])]
    IN  count[Cardinality(Queue)][queue]

\* The queues the signals of an item go to.
Above(item) ==
    LET up[depth \in 0..Cardinality(Queue)] ==
            [i \in Item |-> IF parent[i] = NoItem \/ depth = 0 THEN {}
                            ELSE {parent[i]} \cup up[depth - 1][parent[i]]]
    IN  up[Cardinality(Queue)][item]

Edit ==
    /\ phase = "build" /\ edits < MaxEdits /\ edits' = edits + 1
    /\ UNCHANGED <<numbers, flags, stack, runs, spoke>>

\* An item is put into a queue it is not part of yet, directly or as its parent.
Fits(q, i) == i # Top /\ parent[i] = NoItem /\ i # q /\ i \notin Above(q)

\* The setter of parent connects the signals, and nothing twice.
AppendItem(q, i) ==
    /\ Edit /\ (Fits(q, i) \/ parent[i] = q)
    /\ list' = [list EXCEPT ![q] = Append(@, i)]
    /\ parent' = [parent EXCEPT ![i] = q]
    /\ UNCHANGED <<phase, raised>>

\* insert(0, item)
InsertItem(q, i) ==
    /\ Edit /\ Fits(q, i)
    /\ list' = [list EXCEPT ![q] = <<i>> \o @]
    /\ parent' = [parent EXCEPT ![i] = q]
    /\ UNCHANGED <<phase, raised>>

\* __setitem__: the item that was there keeps its parent and its connections.
SetItem(q, k, i) ==
    /\ Edit /\ Fits(q, i)
    /\ list' = [list EXCEPT ![q][k] = i]
    /\ parent' = [parent EXCEPT ![i] = q]
    /\ UNCHANGED <<phase, raised>>

\* pop: the setter disconnects the item, sets its parent to None and then wants to
\* connect it to the signals of None; nobody handles the error.
PopItem(q) ==
    /\ Edit /\ list[q] # <<>>
    /\ list' = [list EXCEPT ![q] = SubSeq(@, 1, Len(@) - 1)]
    /\ parent' = [parent EXCEPT ![list[q][Len(list[q])]] = NoItem]
    /\ phase' = "raised" /\ raised' = {"AttributeError"}

\* __delitem__, and clear with k = 1: the same error, before the list is changed.
DeleteItem(q, k) ==
    /\ Edit
    /\ parent' = [parent EXCEPT ![list[q][k]] = NoItem]
    /\ phase' = "raised" /\ raised' = {"AttributeError"}
    /\ UNCHANGED list

Build ==
    \E q \in Queue :
        \/ \E i \in Item : AppendItem(q, i) \/ InsertItem(q, i)
        \/ \E k \in DOMAIN list[q] : DeleteItem(q, k) \/ \E i \in Item : SetItem(q, k, i)
        \/ PopItem(q)

-----------------------------------------------------------------------------
(* start                                                                   *)

Message(code, steps) == [code |-> code, steps |-> steps]

\* run_installation: the number of steps, then the top queue.
RunInstallation ==
    /\ phase = "build" /\ phase' = "run"
    /\ stack' = <<[item |-> Top, next |-> 0]>>
    /\ progressQ' = Append(progressQ, Message("init", TaskCount(Top)))
    /\ UNCHANGED <<tree, numbers, flags, raised, runs, bar, edits>>

Inside(item, next) ==
    /\ stack # <<>>
    /\ stack[Len(stack)].item = item /\ stack[Len(stack)].next = next

NextLine == stack' = [stack EXCEPT ![Len(stack)].next = @ + 1]
Return == stack' = SubSeq(stack, 1, Len(stack) - 1)

\* An exception leaves every start on the stack; their flags stay as they are.
Raise(what) == stack' = <<>> /\ phase' = "raised" /\ raised' = raised \cup {what}

OnlyRunning == running                      \* mutant: what is done can start again
StartedBefore == running \cup done

Refuse(item) ==
    /\ Inside(item, 0) /\ item \in StartedBefore
    /\ Return
    /\ UNCHANGED <<tree, numbers, flags, phase, raised, runs, spoke, edits>>

FromOne(counter, item) ==                   \* mutant: off by one
    IF item \in Queue /\ TaskCount(item) > 0 THEN [counter EXCEPT ![item] = 1] ELSE counter

\* The numbers of a queue start at 0 if it has any tasks, and stay None otherwise.
Numbered(counter, item) ==
    IF item \in Queue /\ TaskCount(item) > 0 THEN [counter EXCEPT ![item] = 0] ELSE counter

Counted(counter, queues) ==
    [q \in Queue |-> counter[q] + (IF q \in queues THEN 1 ELSE 0)]

\* The started signal goes up the tree; None + 1 is a TypeError.
Start(item) ==
    /\ Inside(item, 0) /\ item \notin StartedBefore
    /\ running' = running \cup {item}
    /\ IF \E q \in Above(item) : number[q] = None
       THEN /\ Raise("TypeError")
            /\ number' = Numbered(number, item) /\ queueNumber' = Numbered(queueNumber, item)
       ELSE /\ number' = Counted(Numbered(number, item), IF item \in Task THEN Above(item) ELSE {})
            /\ queueNumber' = Counted(Numbered(queueNumber, item),
                                      IF item \in Queue THEN Above(item) ELSE {})
            /\ NextLine
            /\ UNCHANGED <<phase, raised>>
    /\ UNCHANGED <<tree, done, runs, spoke, edits>>

\* The callable: the error handler may let the installation go on.
CallTask(t) ==
    /\ Inside(t, 1)
    /\ runs' = [runs EXCEPT ![t] = @ + 1]
    /\ \/ NextLine /\ UNCHANGED <<phase, raised>>
       \/ Raise("task")
    /\ UNCHANGED <<tree, numbers, flags, spoke, edits>>

StepsOf(t) == Cardinality(Above(t))         \* mutant: every queue above reports a step
OneStep(t) == IF Top \in Above(t) THEN 1 ELSE 0

\* The completed signal, whose callback is the step of the progress.
CompleteTask(t) ==
    /\ Inside(t, 2) /\ NextLine
    /\ progressQ' = progressQ \o [k \in 1..OneStep(t) |-> Message("step", 0)]
    /\ UNCHANGED <<tree, numbers, flags, phase, raised, runs, bar, edits>>

NotRunning(item) == running \ {item}

FinishTask(t) ==
    /\ Inside(t, 3) /\ Return
    /\ running' = NotRunning(t) /\ done' = done \cup {t}
    /\ UNCHANGED <<tree, numbers, phase, raised, runs, spoke, edits>>

AllItems(q) == Len(list[q])

\* start of the items in order, called from start of the queue.
StartItem(q) ==
    \E k \in 1..AllItems(q) :
        /\ Inside(q, k)
        /\ stack' = Append([stack EXCEPT ![Len(stack)].next = @ + 1],
                           [item |-> list[q][k], next |-> 0])
        /\ UNCHANGED <<tree, numbers, flags, phase, raised, runs, spoke, edits>>

FinishQueue(q) ==
    /\ stack # <<>> /\ stack[Len(stack)].item = q
    /\ stack[Len(stack)].next > AllItems(q) /\ stack[Len(stack)].next > 0
    /\ Return
    /\ running' = NotRunning(q) /\ done' = done \cup {q}
    /\ number' = [number EXCEPT ![q] = None]
    /\ queueNumber' = [queueNumber EXCEPT ![q] = None]
    /\ UNCHANGED <<tree, phase, raised, runs, spoke, edits>>

Silent == <<>>                              \* mutant: nobody is told
ProgressComplete == <<Message("complete", 0)>>

\* progress_complete, after queue.start has returned.
FinishInstallation ==
    /\ phase = "run" /\ stack = <<>> /\ phase' = "ok"
    /\ progressQ' = progressQ \o ProgressComplete
    /\ UNCHANGED <<tree, numbers, flags, stack, raised, runs, bar, edits>>

-----------------------------------------------------------------------------
(* The progress spoke                                                      *)

\* One round of the loop of _update_progress; after "complete" the timer is gone.
UpdateProgress ==
    /\ progressQ # <<>> /\ ~bar.complete
    /\ progressQ' = Tail(progressQ)
    /\ LET message == Head(progressQ)
       IN  bar' = CASE message.code = "init" -> [bar EXCEPT !.total = message.steps, !.current = 0]
                    [] message.code = "step" ->
                           [bar EXCEPT !.current = IF bar.total = 0 THEN @ ELSE @ + 1]
                    [] message.code = "complete" -> [bar EXCEPT !.complete = TRUE]
    /\ UNCHANGED <<tree, numbers, flags, phase, stack, raised, runs, edits>>

-----------------------------------------------------------------------------

Running ==
    \/ \E i \in Item : Refuse(i) \/ Start(i)
    \/ \E t \in Task : CallTask(t) \/ CompleteTask(t) \/ FinishTask(t)
    \/ \E q \in Queue : StartItem(q) \/ FinishQueue(q)
    \/ FinishInstallation

Next == Build \/ RunInstallation \/ Running \/ UpdateProgress

Spec == Init /\ [][Next]_vars

\* The installation thread and the main loop run.
FairSpec == Spec /\ WF_vars(Running) /\ WF_vars(UpdateProgress)

-----------------------------------------------------------------------------
(* Properties                                                              *)

Listed(q) == {list[q][k] : k \in DOMAIN list[q]}

\* "This can be done only once": a task that is listed twice runs once, a queue
\* is done after all of its items, whatever they contain, and when the
\* installation has ended without an error, every listed task has run.
EachTaskRunsOnce ==
    /\ \A t \in Task : runs[t] <= 1
    /\ \A q \in done \cap Queue :
           /\ Listed(q) \subseteq done
           /\ phase = "ok" => \A t \in Listed(q) \cap Task : runs[t] = 1

\* The number of the current task is how many tasks below the queue have started,
\* and never more than there are.
CurrentTaskNumber ==
    \A q \in Queue : number[q] # None =>
        /\ number[q] = Cardinality({t \in running \cup done : t \in Task /\ q \in Above(t)})
        /\ number[q] <= TaskCount(q)

\* The bar never exceeds its total, and in the end has a step for every task that was
\* run and still is connected.
BarIsTrue ==
    /\ bar.total > 0 => bar.current <= bar.total
    /\ bar.complete /\ bar.total > 0 =>
           bar.current = Cardinality({t \in Task : runs[t] = 1 /\ Top \in Above(t)})

\* The spoke comes to its end, or the installation has raised.
InstallationEnds == phase = "run" ~> bar.complete \/ phase = "raised"

=============================================================================
