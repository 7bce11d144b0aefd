--------------------------- MODULE DBusTaskProofs ---------------------------
(***************************************************************************)
(* What holds of a task for every number of runs and every length of the   *)
(* main loop's queue: its success is earned, Finish tells the truth, a     *)
(* client that waits for Stopped calls Finish after every handler, and the *)
(* signals it hears are those that TaskLifecycle promises.                 *)
(***************************************************************************)
EXTENDS DBusTask, SequenceTheorems, TLAPS

\* What the place of a run's thread says of its work.
Progressed ==
    \A r \in Run :
        /\ phase[r] = "new" <=> r > runs
        /\ outcome[r] = "none" <=> phase[r] \in {"new", "start", "check", "run"}
        /\ phase[r] \in {"failing", "failed"} => outcome[r] = "error"
        /\ phase[r] = "report" => outcome[r] \in {"done", "skipped"}
        /\ outcome[r] = "skipped" => cancel

\* The work of the last run raised and its exception is kept.
ErrorKept == phase[runs] \in {"failed", "remove", "stopping", "dead"} /\ outcome[runs] = "error"

\* The client is at the last run, whose error nobody else takes; a run that was
\* finished has left the registry.
Settled ==
    /\ client # "idle" => runs > 0
    /\ registered \in {0, runs}
    /\ client = "idle" => error = 0 /\ registered = 0
    /\ client # "idle" => error = IF ErrorKept THEN runs ELSE 0
    /\ client = "finish" => registered = 0
    /\ client = "poll" => protocol = "sync"
    /\ client = "await" => protocol = "async"
    /\ \A r \in Run : finished[r] # "none" => phase[r] \in {"stopping", "dead"}

\* A client that listens starts a run after it has heard the end of the last one,
\* and Stopped is the last thing it hears.
Listens ==
    protocol = "async" =>
        /\ \A r \in Run : r < runs => phase[r] = "dead"
        /\ client # "await" => idle = <<>> /\ \A r \in Run : r <= runs => phase[r] = "dead"
        /\ \A i \in 1..Len(idle) :
              idle[i].kind = "stopped" => i = Len(idle) /\ phase[runs] = "dead"

\* The signals from the one the client heard last to the one that was queued last:
\* each may follow the one before it.
Sent(i) == IF i = 0 THEN signal ELSE idle[i]
Last == Sent(Len(idle))

MayFollow(s, t) ==
    /\ t.kind = "started" => s = None \/ s.kind = "stopped"
    /\ t.kind # "started" => s # None /\ s.run = t.run
    /\ t.kind \in {"progress", "succeeded", "failed"} => s.kind \in {"started", "progress"}
    /\ t.kind = "succeeded" => outcome[t.run] = "done"
    /\ t.kind = "failed" => outcome[t.run] = "error"
    /\ t.kind = "stopped" => s.kind # "stopped"
    /\ t.kind = "stopped" /\ outcome[t.run] = "error" => s.kind = "failed"

Chained == \A i \in 1..Len(idle) : MayFollow(Sent(i - 1), Sent(i))

\* What the thread of the last run has told.
Told ==
    /\ runs = 0 => Last = None
    /\ runs > 0 =>
          /\ phase[runs] = "start" => Last = None \/ Last.kind = "stopped"
          /\ phase[runs] # "start" => Last # None /\ Last.run = runs
          /\ phase[runs] \in {"check", "run", "report", "failing", "failed"} =>
                Last.kind \in {"started", "progress"}
          /\ phase[runs] \in {"remove", "stopping"} =>
                Last.kind # "stopped" /\ (outcome[runs] = "error" => Last.kind = "failed")
          /\ phase[runs] = "dead" => Last.kind = "stopped"

IInv == TypeOK /\ Progressed /\ Settled /\ Listens

Story == protocol = "async" => Chained /\ Told

-----------------------------------------------------------------------------
(* The queue of the main loop.                                             *)

\* A queued signal is the last one, the others stay where they are.
LEMMA Queued ==
  ASSUME idle \in Seq(Signals), NEW k \in {"started", "progress", "succeeded", "failed", "stopped"},
         NEW r \in Run
  PROVE  /\ Later(k, r) \in Seq(Signals)
         /\ Len(Later(k, r)) = Len(idle) + 1 /\ Len(idle) \in Nat
         /\ Later(k, r)[Len(idle) + 1] = [kind |-> k, run |-> r]
         /\ \A i \in 1..Len(idle) : Later(k, r)[i] = idle[i]
<1>1. [kind |-> k, run |-> r] \in Signals
  BY DEF Signals
<1> QED
  BY <1>1 DEF Later

\* The same, of the next state.
LEMMA Appended ==
  ASSUME idle \in Seq(Signals), NEW k \in {"started", "progress", "succeeded", "failed", "stopped"},
         NEW r \in Run, idle' = Later(k, r)
  PROVE  /\ Len(idle') = Len(idle) + 1 /\ Len(idle) \in Nat
         /\ idle'[Len(idle) + 1] = [kind |-> k, run |-> r]
         /\ \A i \in 1..Len(idle) : idle'[i] = idle[i]
<1> DEFINE q == Later(k, r)
<1>1. /\ Len(q) = Len(idle) + 1 /\ Len(idle) \in Nat
      /\ q[Len(idle) + 1] = [kind |-> k, run |-> r]
      /\ \A i \in 1..Len(idle) : q[i] = idle[i]
  BY Queued
<1>2. idle' = q
  OBVIOUS
<1> HIDE DEF q
<1> QED
  BY <1>1, <1>2

\* A dispatched signal was the first one, the others move up.
LEMMA Dispatched ==
  ASSUME idle \in Seq(Signals), idle # <<>>
  PROVE  /\ Oldest = idle[1] /\ Oldest \in Signals
         /\ Tail(idle) \in Seq(Signals)
         /\ Len(idle) \in Nat \ {0} /\ Len(Tail(idle)) = Len(idle) - 1
         /\ \A i \in 1..Len(idle) - 1 : Tail(idle)[i] = idle[i + 1]
  BY HeadTailProperties DEF Oldest

LEMMA Elements ==
  ASSUME idle \in Seq(Signals)
  PROVE  Len(idle) \in Nat /\ \A i \in 1..Len(idle) : idle[i] \in Signals
  OBVIOUS

-----------------------------------------------------------------------------

LEMMA TypeInit == Init => TypeOK
<1> SUFFICES ASSUME Init PROVE TypeOK
  OBVIOUS
<1> USE TaskAssumption DEF Init
<1>1. idle \in Seq(Signals)
  OBVIOUS
<1>2. \A r \in Run : r # 0
  BY DEF Run
<1>3. /\ runs \in 0..MaxRuns /\ registered \in 0..runs /\ error \in 0..runs /\ result \in 0..runs
  OBVIOUS
<1> QED
  BY <1>1, <1>2, <1>3 DEF TypeOK, Phases, Alive

LEMMA TypeStep == TypeOK /\ [Next]_vars => TypeOK'
<1> SUFFICES ASSUME TypeOK, [Next]_vars PROVE TypeOK'
  OBVIOUS
<1>0. \A k \in {"started", "progress", "succeeded", "failed", "stopped"}, r \in Run :
         Later(k, r) \in Seq(Signals)
  BY Queued DEF TypeOK
<1> USE TaskAssumption DEF TypeOK, Run, Phases, Alive, Goto
<1>1. CASE Start
  BY <1>1 DEF Start
<1>2. CASE Poll
  BY <1>2 DEF Poll
<1>3. CASE Finish
  <2>1. finished' \in [Run -> {"none", "ok", "raised"}]
    BY <1>3 DEF Finish
  <2> QED
    BY <1>3, <2>1 DEF Finish
<1>4. CASE Cancel
  BY <1>4 DEF Cancel
<1>5. CASE Dispatch
  <2>1. Oldest \in Signals /\ Tail(idle) \in Seq(Signals)
    BY <1>5, Dispatched DEF Dispatch
  <2> QED
    BY <1>5, <2>1 DEF Dispatch
<1>6. ASSUME NEW r \in Run, TaskStarted(r) PROVE TypeOK'
  BY <1>6, <1>0 DEF TaskStarted, threadOnly
<1>7. ASSUME NEW r \in Run, CheckCancel(r) PROVE TypeOK'
  BY <1>7, <1>0 DEF CheckCancel, CancelAfterCheck
<1>8. ASSUME NEW r \in Run, ReportProgress(r) PROVE TypeOK'
  BY <1>8, <1>0 DEF ReportProgress, threadOnly
<1>9. ASSUME NEW r \in Run, RunReturns(r) PROVE TypeOK'
  BY <1>9 DEF RunReturns
<1>10. ASSUME NEW r \in Run, RunRaises(r) PROVE TypeOK'
  BY <1>10 DEF RunRaises
<1>11. ASSUME NEW r \in Run, ReportSuccess(r) PROVE TypeOK'
  BY <1>11, <1>0 DEF ReportSuccess, threadOnly
<1>12. ASSUME NEW r \in Run, SetError(r) PROVE TypeOK'
  BY <1>12 DEF SetError, KeptError
<1>13. ASSUME NEW r \in Run, ReportFailure(r) PROVE TypeOK'
  BY <1>13, <1>0 DEF ReportFailure, threadOnly
<1>14. ASSUME NEW r \in Run, Remove(r) PROVE TypeOK'
  BY <1>14 DEF Remove, Unregistered
<1>15. ASSUME NEW r \in Run, TaskStopped(r) PROVE TypeOK'
  BY <1>15, <1>0 DEF TaskStopped, StopAlways, threadOnly
<1>16. CASE UNCHANGED vars
  BY <1>16 DEF vars
<1> QED
  BY <1>1, <1>2, <1>3, <1>4, <1>5, <1>6, <1>7, <1>8, <1>9, <1>10, <1>11, <1>12, <1>13,
     <1>14, <1>15, <1>16 DEF Next, ThreadStep

\* TypeOK holds in every state of every task.
THEOREM TaskTypeCorrect == Spec => []TypeOK
<1> QED
  BY TypeInit, TypeStep, PTL DEF Spec
-----------------------------------------------------------------------------

LEMMA ProgressedStep ==
  ASSUME TypeOK, Progressed, [Next]_vars
  PROVE  Progressed'
<1> USE TaskAssumption DEF TypeOK, Progressed, Run, Phases, Alive, Goto
<1>1. CASE Start
  BY <1>1 DEF Start
<1>2. CASE Cancel
  BY <1>2 DEF Cancel
<1>3. CASE Poll \/ Finish \/ Dispatch \/ UNCHANGED vars
  BY <1>3 DEF Poll, Finish, Dispatch, vars
<1>4. ASSUME NEW r \in Run, CheckCancel(r) PROVE Progressed'
  BY <1>4 DEF CheckCancel, CancelAfterCheck
<1>5. ASSUME NEW r \in Run, TaskStarted(r) \/ ReportSuccess(r) PROVE Progressed'
  BY <1>5 DEF TaskStarted, ReportSuccess, threadOnly
<1>6. ASSUME NEW r \in Run, SetError(r) \/ Remove(r) PROVE Progressed'
  BY <1>6 DEF SetError, Remove
<1>7. ASSUME NEW r \in Run, ReportFailure(r) \/ TaskStopped(r) \/ ReportProgress(r) PROVE Progressed'
  BY <1>7 DEF ReportFailure, TaskStopped, ReportProgress, threadOnly
<1>8. ASSUME NEW r \in Run, RunReturns(r) PROVE Progressed'
  BY <1>8 DEF RunReturns
<1>9. ASSUME NEW r \in Run, RunRaises(r) PROVE Progressed'
  BY <1>9 DEF RunRaises
<1> QED
  BY <1>1, <1>2, <1>3, <1>4, <1>5, <1>6, <1>7, <1>8, <1>9 DEF Next, ThreadStep

\* A thread that is neither new nor dead is that of the last run when the client
\* listens, which has not heard its end.
LEMMA AtLastRun ==
  ASSUME IInv, protocol = "async", NEW r \in Run, phase[r] \notin {"new", "dead"}
  PROVE  /\ r = runs /\ client = "await"
         /\ \A i \in 1..Len(idle) : idle[i].kind # "stopped"
<1>1. r <= runs /\ r \in Nat /\ runs \in Nat
  BY TaskAssumption DEF IInv, TypeOK, Progressed, Run
<1> QED
  BY <1>1 DEF IInv, Listens

LEMMA SettledStep ==
  ASSUME IInv, [Next]_vars
  PROVE  Settled'
<1> USE TaskAssumption DEF IInv, TypeOK, Progressed, Settled, ErrorKept, Run, Phases, Alive, Goto
<1>1. CASE Start
  BY <1>1 DEF Start
<1>2. CASE Poll
  BY <1>2 DEF Poll
<1>3. CASE Finish
  BY <1>3 DEF Finish
<1>4. CASE Cancel \/ UNCHANGED vars
  BY <1>4 DEF Cancel, vars
<1>5. CASE Dispatch
  <2>1. CASE client = "await" /\ Oldest.kind = "stopped"
    <3>1. phase[runs] = "dead"
      <4>1. 1 \in 1..Len(idle) /\ idle[1].kind = "stopped"
        BY <1>5, <2>1, Dispatched DEF Dispatch
      <4>2. \A i \in 1..Len(idle) : idle[i].kind = "stopped" => phase[runs] = "dead"
        BY <2>1 DEF Listens
      <4> QED
        BY <4>1, <4>2
    <3>2. registered = 0
      BY <3>1
    <3> QED
      BY <1>5, <2>1, <3>1, <3>2 DEF Dispatch
  <2>2. CASE ~(client = "await" /\ Oldest.kind = "stopped")
    <3>1. UNCHANGED <<protocol, runs, phase, registered, error, outcome, client, finished>>
      BY <1>5, <2>2 DEF Dispatch
    <3> QED
      BY <3>1
  <2> QED
    BY <2>1, <2>2
<1>6. ASSUME NEW r \in Run, TaskStarted(r) \/ CheckCancel(r) \/ ReportProgress(r) PROVE Settled'
  <2>1. UNCHANGED <<protocol, runs, registered, error, client, finished>>
    BY <1>6 DEF TaskStarted, CheckCancel, ReportProgress, threadOnly
  <2>2. \/ TaskStarted(r) /\ UNCHANGED outcome
        \/ CheckCancel(r)
        \/ UNCHANGED <<phase, outcome>>
    BY <1>6 DEF TaskStarted, ReportProgress, threadOnly
  <2>3. CASE TaskStarted(r) /\ UNCHANGED outcome
    BY <2>1, <2>3 DEF TaskStarted
  <2>4. CASE CheckCancel(r)
    BY <2>1, <2>4 DEF CheckCancel
  <2>5. CASE UNCHANGED <<phase, outcome>>
    BY <2>1, <2>5
  <2> QED
    BY <2>2, <2>3, <2>4, <2>5
<1>7. ASSUME NEW r \in Run, RunReturns(r) \/ RunRaises(r) PROVE Settled'
  BY <1>7 DEF RunReturns, RunRaises
<1>8. ASSUME NEW r \in Run, ReportSuccess(r) \/ ReportFailure(r) PROVE Settled'
  <2>1. r = runs /\ UNCHANGED <<protocol, runs, registered, error, outcome, client, finished>>
    BY <1>8 DEF ReportSuccess, ReportFailure, threadOnly
  <2>2. CASE ReportSuccess(r)
    BY <2>1, <2>2 DEF ReportSuccess
  <2>3. CASE ReportFailure(r)
    BY <2>1, <2>3 DEF ReportFailure
  <2> QED
    BY <1>8, <2>2, <2>3
<1>9. ASSUME NEW r \in Run, SetError(r) PROVE Settled'
  BY <1>9 DEF SetError, KeptError
<1>10. ASSUME NEW r \in Run, Remove(r) PROVE Settled'
  BY <1>10 DEF Remove, Unregistered
<1>11. ASSUME NEW r \in Run, TaskStopped(r) PROVE Settled'
  BY <1>11 DEF TaskStopped, threadOnly
<1> QED
  BY <1>1, <1>2, <1>3, <1>4, <1>5, <1>6, <1>7, <1>8, <1>9, <1>10, <1>11 DEF Next, ThreadStep

LEMMA ListensStep ==
  ASSUME IInv, [Next]_vars
  PROVE  Listens'
<1> USE TaskAssumption DEF Listens
<1>0. SUFFICES ASSUME protocol = "async"
      PROVE  Listens'
  <2>1. protocol' = protocol
    BY DEF Next, vars, Start, Poll, Finish, Cancel, Dispatch, ThreadStep, TaskStarted, CheckCancel,
       ReportProgress, RunReturns, RunRaises, ReportSuccess, SetError, ReportFailure, Remove,
       TaskStopped, threadOnly
  <2> QED
    BY <2>1
<1>1. /\ runs \in Nat /\ Len(idle) \in Nat /\ Run = 1..MaxRuns
      /\ phase \in [Run -> Phases] /\ idle \in Seq(Signals)
  BY Elements DEF IInv, TypeOK, Run
<1>8. \A i \in 1..Len(idle) : idle[i].kind = "stopped" => i = Len(idle) /\ phase[runs] = "dead"
  BY <1>0 DEF IInv
<1>2. CASE Start
  <2>1. phase' = [phase EXCEPT ![runs + 1] = "start"] /\ idle = <<>> /\ client' = "await"
        /\ runs' = runs + 1 /\ idle' = idle
    BY <1>0, <1>2 DEF Start, Goto, IInv
  <2>2. \A r \in Run : r <= runs => phase[r] = "dead"
    BY <1>0, <1>2 DEF Start, IInv
  <2> QED
    BY <1>1, <2>1, <2>2
<1>3. CASE Poll
  BY <1>0, <1>3 DEF Poll, IInv, Settled
<1>4. CASE Finish
  BY <1>0, <1>4 DEF Finish, IInv
<1>5. CASE Cancel \/ UNCHANGED vars
  BY <1>0, <1>5 DEF Cancel, vars, IInv
<1>6. CASE Dispatch
  <2>1. /\ idle' = Tail(idle) /\ Oldest = idle[1] /\ Len(idle) \in Nat \ {0}
        /\ Len(idle') = Len(idle) - 1
        /\ \A i \in 1..Len(idle) - 1 : idle'[i] = idle[i + 1]
        /\ UNCHANGED <<runs, phase>> /\ idle # <<>>
    BY <1>6, Dispatched DEF Dispatch, IInv, TypeOK
  <2>2. client = "await"
    BY <1>0, <2>1 DEF IInv
  <2>3. \A i \in 1..Len(idle') : idle'[i].kind = "stopped" => i = Len(idle') /\ phase'[runs'] = "dead"
    <3> SUFFICES ASSUME NEW i \in 1..Len(idle'), idle'[i].kind = "stopped"
                 PROVE  i = Len(idle') /\ phase'[runs'] = "dead"
      OBVIOUS
    <3>1. i + 1 \in 1..Len(idle) /\ idle[i + 1].kind = "stopped"
      BY <2>1
    <3>2. i + 1 = Len(idle) /\ phase[runs] = "dead"
      BY <1>8, <3>1
    <3>3. Len(idle) \in Nat /\ i \in Nat /\ Len(idle') = Len(idle) - 1
      BY <1>1, <2>1
    <3>4. i = Len(idle')
      BY <3>2, <3>3
    <3> QED
      BY <2>1, <3>2, <3>4
  <2>4. CASE Oldest.kind = "stopped"
    <3>1. Len(idle) = 1 /\ phase[runs] = "dead"
      <4>1. 1 \in 1..Len(idle) /\ idle[1].kind = "stopped"
        BY <2>1, <2>4
      <4> QED
        BY <1>8, <4>1
    <3>2. idle' = <<>>
      BY <1>6, <2>1, <3>1, Dispatched, EmptySeq DEF IInv, TypeOK
    <3> QED
      BY <1>0, <1>1, <2>1, <2>3, <3>1, <3>2 DEF IInv
  <2>5. CASE Oldest.kind # "stopped"
    <3>1. client' = "await"
      BY <1>6, <2>2, <2>5 DEF Dispatch
    <3> QED
      BY <1>0, <2>1, <2>3, <3>1 DEF IInv
  <2> QED
    BY <2>4, <2>5
<1>7. ASSUME NEW r \in Run, ThreadStep(r) \/ ReportProgress(r) \/ RunReturns(r) \/ RunRaises(r)
      PROVE  Listens'
  <2>1. /\ phase[r] \notin {"new", "dead"} /\ UNCHANGED <<runs, client>>
        /\ \A q \in Run \ {r} : phase'[q] = phase[q]
    BY <1>1, <1>7 DEF ThreadStep, TaskStarted, CheckCancel, ReportProgress, RunReturns, RunRaises,
       ReportSuccess, SetError, ReportFailure, Remove, TaskStopped, threadOnly, Goto
  <2>2. r = runs /\ client = "await" /\ \A i \in 1..Len(idle) : idle[i].kind # "stopped"
    BY <1>0, <2>1, AtLastRun
  <2>3. CASE TaskStopped(r)
    <3>1. idle' = Later("stopped", r) /\ phase'[r] = "dead"
      BY <1>1, <2>3 DEF TaskStopped, StopAlways, Goto
    <3>2. Len(idle') = Len(idle) + 1 /\ \A i \in 1..Len(idle) : idle'[i] = idle[i]
      BY <1>1, <3>1, Appended
    <3> QED
      BY <1>0, <1>1, <2>1, <2>2, <3>1, <3>2 DEF IInv
  <2>4. CASE ~ TaskStopped(r)
    <3>1. \/ idle' = idle
          \/ \E k \in {"started", "progress", "succeeded", "failed"} : idle' = Later(k, r)
      BY <1>7, <2>4 DEF ThreadStep, TaskStarted, CheckCancel, ReportProgress, RunReturns, RunRaises,
         ReportSuccess, SetError, ReportFailure, Remove
    <3>2. \A i \in 1..Len(idle') : idle'[i].kind # "stopped"
      <4>1. CASE idle' = idle
        BY <2>2, <4>1
      <4>2. ASSUME NEW k \in {"started", "progress", "succeeded", "failed"}, idle' = Later(k, r)
            PROVE  \A i \in 1..Len(idle') : idle'[i].kind # "stopped"
        <5>1. /\ Len(idle') = Len(idle) + 1 /\ \A i \in 1..Len(idle) : idle'[i] = idle[i]
              /\ idle'[Len(idle) + 1] = [kind |-> k, run |-> r]
          BY <1>1, <4>2, Appended
        <5>2. idle'[Len(idle) + 1].kind # "stopped"
          BY <5>1
        <5> QED
          BY <1>1, <2>2, <5>1, <5>2
      <4> QED
        BY <3>1, <4>1, <4>2
    <3> QED
      BY <1>0, <2>1, <2>2, <3>2 DEF IInv
  <2> QED
    BY <2>3, <2>4
<1> QED
  BY <1>2, <1>3, <1>4, <1>5, <1>6, <1>7 DEF Next

LEMMA Inductive == IInv /\ [Next]_vars => IInv'
  BY TypeStep, ProgressedStep, SettledStep, ListensStep DEF IInv

LEMMA Initial == Init => IInv
<1> SUFFICES ASSUME Init PROVE IInv
  OBVIOUS
<1>1. TypeOK
  BY TypeInit
<1>2. Progressed /\ Settled
  BY TaskAssumption DEF Init, Progressed, Settled, ErrorKept, Run
<1>3. Listens
  BY DEF Init, Listens, Run
<1> QED
  BY <1>1, <1>2, <1>3 DEF IInv

LEMMA Invariant == Spec => []IInv
<1> QED
  BY Initial, Inductive, PTL DEF Spec

\* FinishTellsTheTruth of a run that was finished before, or is finished now.
LEMMA TruthStep ==
  ASSUME IInv, FinishTellsTheTruth, [Next]_vars
  PROVE  FinishTellsTheTruth'
<1> USE TaskAssumption DEF IInv, TypeOK, Progressed, Settled, FinishTellsTheTruth, Run
<1>1. CASE Finish
  <2>1. runs \in Run /\ outcome' = outcome
        /\ finished' = [finished EXCEPT ![runs] = IF error = 0 THEN "ok" ELSE "raised"]
    BY <1>1 DEF Finish
  <2>2. phase[runs] \in {"stopping", "dead"}
    BY <1>1, <2>1 DEF Finish, Phases, Alive
  <2>3. error # 0 <=> outcome[runs] = "error"
    BY <1>1, <2>1, <2>2 DEF Finish, ErrorKept
  <2> QED
    BY <2>1, <2>3
<1>2. CASE ~ Finish
  <2>1. finished' = finished
    BY <1>2 DEF Next, vars, Start, Poll, Cancel, Dispatch, ThreadStep, TaskStarted, CheckCancel,
       ReportProgress, RunReturns, RunRaises, ReportSuccess, SetError, ReportFailure, Remove,
       TaskStopped, threadOnly
  <2>2. \A r \in Run : phase[r] \in {"stopping", "dead"} => outcome'[r] = outcome[r]
    BY <1>2 DEF Next, vars, Start, Poll, Cancel, Dispatch, ThreadStep, TaskStarted, CheckCancel,
       ReportProgress, RunReturns, RunRaises, ReportSuccess, SetError, ReportFailure, Remove,
       TaskStopped, threadOnly
  <2> QED
    BY <2>1, <2>2
<1> QED
  BY <1>1, <1>2

\* Whatever a task is asked for, and however often it is started and cancelled,
\* Finish raises exactly for the runs whose work has raised.
THEOREM FinishIsTrue == Spec => []FinishTellsTheTruth
<1>1. Init => FinishTellsTheTruth
  BY DEF Init, FinishTellsTheTruth
<1> QED
  BY <1>1, Invariant, TruthStep, PTL DEF Spec

\* A client that waits for Stopped calls Finish when every signal of the run was
\* handled, so what the module does on Succeeded is done.
THEOREM FinishAfterHandlers == Spec => []AsyncWaitsForHandlers
<1>1. IInv => AsyncWaitsForHandlers
  <2> SUFFICES ASSUME IInv, protocol = "async", client = "finish"
               PROVE  phase[runs] = "dead" /\ \A i \in 1..Len(idle) : idle[i].run # runs
    BY DEF AsyncWaitsForHandlers, HandlersDoneAtFinish
  <2>1. runs \in Run
    BY TaskAssumption DEF IInv, TypeOK, Settled, Run
  <2>2. idle = <<>> /\ \A r \in Run : r <= runs => phase[r] = "dead"
    BY DEF IInv, Listens
  <2>3. Len(idle) = 0
    BY <2>2
  <2> QED
    BY <2>1, <2>2, <2>3 DEF Run
<1> QED
  BY <1>1, Invariant, PTL
-----------------------------------------------------------------------------
(* The signals that are sent.                                              *)

LEMMA NoneIsNoSignal ==
  ASSUME NEW k \in {"started", "progress", "succeeded", "failed", "stopped"}, NEW r \in Run
  PROVE  [kind |-> k, run |-> r] # None
  BY TaskAssumption DEF Signals

\* A step that does the work of the last run leaves what was told true: nothing
\* that was told depends on the outcome of a run that goes on.
LEMMA WorkKeepsStory ==
  ASSUME IInv, Story, protocol = "async", NEW r \in Run, phase[r] \in {"check", "run"},
         NEW o \in {"done", "error", "skipped"}, outcome' = [outcome EXCEPT ![r] = o],
         UNCHANGED <<idle, signal, runs>>
  PROVE  Chained'
<1>1. r = runs /\ \A i \in 1..Len(idle) : idle[i].kind # "stopped"
  BY AtLastRun
<1>2. outcome[r] = "none" /\ outcome \in [Run -> {"none", "done", "error", "skipped"}]
  BY DEF IInv, Progressed, TypeOK
<1>3. ASSUME NEW i \in 1..Len(idle)
      PROVE  MayFollow(Sent(i - 1), Sent(i))'
  <2>1. idle[i] \in Signals /\ i # 0
    BY <1>3, Elements DEF IInv, TypeOK
  <2>2. Sent(i)' = idle[i] /\ Sent(i) = idle[i] /\ Sent(i - 1)' = Sent(i - 1)
    BY <2>1 DEF Sent
  <2>3. MayFollow(Sent(i - 1), idle[i])
    BY <1>3, <2>2 DEF Story, Chained
  <2>4. idle[i].run \in Run /\ idle[i].kind # "stopped"
    BY <1>1, <1>3, <2>1 DEF Signals
  <2>5. outcome[idle[i].run] # "none" => outcome'[idle[i].run] = outcome[idle[i].run]
    BY <1>2, <2>4
  <2> DEFINE s == Sent(i - 1)
  <2>6. s' = s
    BY <2>2
  <2>7. MayFollow(s, idle[i])
    BY <2>3
  <2> HIDE DEF s
  <2>8. MayFollow(s, idle[i])'
    BY <2>4, <2>5, <2>6, <2>7 DEF MayFollow
  <2> QED
    BY <2>2, <2>8 DEF s
<1> QED
  BY <1>3 DEF Chained

\* A step that queues what may be told next adds it to the story.
LEMMA TellsNext ==
  ASSUME IInv, Story, protocol = "async", NEW r \in Run,
         NEW k \in {"started", "progress", "succeeded", "failed", "stopped"},
         idle' = Later(k, r), UNCHANGED <<signal, outcome>>,
         MayFollow(Last, [kind |-> k, run |-> r])
  PROVE  Chained' /\ Last' = [kind |-> k, run |-> r]
<1>1. /\ Len(idle') = Len(idle) + 1 /\ Len(idle) \in Nat
      /\ idle'[Len(idle) + 1] = [kind |-> k, run |-> r]
      /\ \A i \in 1..Len(idle) : idle'[i] = idle[i]
  BY Appended DEF IInv, TypeOK
<1>2. \A i \in 0..Len(idle) : Sent(i)' = Sent(i)
  BY <1>1 DEF Sent
<1>3. \A i \in Nat : i = Len(idle) + 1 => Sent(i)' = [kind |-> k, run |-> r]
  BY <1>1 DEF Sent
<1>4. ASSUME NEW i \in 1..Len(idle')
      PROVE  MayFollow(Sent(i - 1), Sent(i))'
  <2>1. CASE i \in 1..Len(idle)
    <3>1. MayFollow(Sent(i - 1), Sent(i))
      BY <2>1 DEF Story, Chained
    <3>2. Sent(i - 1)' = Sent(i - 1) /\ Sent(i)' = Sent(i)
      BY <1>1, <1>2, <2>1
    <3> QED
      BY <3>1, <3>2 DEF MayFollow
  <2>2. CASE i = Len(idle) + 1
    <3>1. Sent(i)' = [kind |-> k, run |-> r]
      BY <1>1, <1>3, <2>2
    <3>2. i - 1 = Len(idle) /\ i - 1 \in 0..Len(idle)
      BY <1>1, <2>2
    <3>3. Sent(i - 1)' = Last
      BY <1>2, <3>2 DEF Last
    <3> QED
      BY <3>1, <3>3 DEF MayFollow
  <2> QED
    BY <1>1, <2>1, <2>2
<1>5. Last' = [kind |-> k, run |-> r]
  BY <1>1 DEF Last, Sent
<1> QED
  BY <1>4, <1>5 DEF Chained

\* A step that neither queues, emits nor works leaves the story as it is.
LEMMA SameStory ==
  ASSUME Chained, UNCHANGED <<idle, signal, outcome>>
  PROVE  Chained' /\ Last' = Last
  BY DEF Chained, Sent, Last, MayFollow

\* A dispatched signal leaves the story of the others.
LEMMA StoryGoesOn ==
  ASSUME IInv, Story, protocol = "async", Dispatch
  PROVE  Chained' /\ Last' = Last /\ MayFollow(signal, signal')
<1>1. /\ idle' = Tail(idle) /\ signal' = idle[1] /\ Len(idle) \in Nat \ {0}
      /\ Len(idle') = Len(idle) - 1
      /\ \A i \in 1..Len(idle) - 1 : idle'[i] = idle[i + 1]
      /\ outcome' = outcome
  BY Dispatched DEF Dispatch, IInv, TypeOK
<1>2. \A i \in 0..Len(idle) - 1 : Sent(i)' = Sent(i + 1)
  BY <1>1 DEF Sent
<1>3. ASSUME NEW i \in 1..Len(idle')
      PROVE  MayFollow(Sent(i - 1), Sent(i))'
  <2>1. i \in 1..Len(idle) - 1 /\ i + 1 \in 1..Len(idle) /\ i - 1 \in 0..Len(idle) - 1
    BY <1>1
  <2>2. MayFollow(Sent(i + 1 - 1), Sent(i + 1))
    BY <2>1 DEF Story, Chained
  <2>3. Sent(i)' = Sent(i + 1)
    BY <1>1, <1>2, <2>1
  <2>4. Sent(i - 1)' = Sent(i + 1 - 1)
    <3>1. i - 1 + 1 = i + 1 - 1
      BY <2>1
    <3> QED
      BY <1>2, <2>1, <3>1
  <2> QED
    BY <1>1, <2>2, <2>3, <2>4 DEF MayFollow
<1>4. Last' = Last
  BY <1>1 DEF Last, Sent
<1>5. MayFollow(signal, signal')
  <2>1. 1 \in 1..Len(idle) /\ Sent(1) = idle[1] /\ Sent(1 - 1) = signal
    BY <1>1 DEF Sent
  <2>2. MayFollow(Sent(1 - 1), Sent(1))
    BY <2>1 DEF Story, Chained
  <2> QED
    BY <1>1, <2>1, <2>2
<1> QED
  BY <1>3, <1>4, <1>5 DEF Chained

\* What the thread does goes with what it tells.
LEMMA ThreadTells ==
  ASSUME IInv, Story, protocol = "async", NEW r \in Run,
         ThreadStep(r) \/ ReportProgress(r) \/ RunReturns(r) \/ RunRaises(r)
  PROVE  Chained' /\ Told'
<1>1. /\ Chained /\ Told
      /\ runs \in Nat /\ phase \in [Run -> Phases]
      /\ outcome \in [Run -> {"none", "done", "error", "skipped"}]
  BY TaskAssumption DEF Story, IInv, TypeOK
<1>2. phase[r] \notin {"new", "dead"} /\ UNCHANGED <<runs, signal>>
  BY DEF ThreadStep, TaskStarted, CheckCancel, ReportProgress, RunReturns, RunRaises,
     ReportSuccess, SetError, ReportFailure, Remove, TaskStopped, threadOnly
<1>3. r = runs /\ runs > 0
  BY <1>2, AtLastRun, TaskAssumption DEF Run
<1>4. /\ phase[r] = "start" => Last = None \/ Last.kind = "stopped"
      /\ phase[r] # "start" => Last # None /\ Last.run = r
      /\ phase[r] \in {"check", "run", "report", "failing", "failed"} =>
            Last.kind \in {"started", "progress"}
      /\ phase[r] \in {"remove", "stopping"} =>
            Last.kind # "stopped" /\ (outcome[r] = "error" => Last.kind = "failed")
  BY <1>1, <1>2, <1>3 DEF Told
<1>5. TaskStarted(r) => Chained' /\ Told'
  <2> SUFFICES ASSUME TaskStarted(r) PROVE Chained' /\ Told'
    OBVIOUS
  <2>1. /\ idle' = Later("started", r) /\ outcome' = outcome /\ phase'[r] = "check"
    BY <1>1 DEF TaskStarted, Goto, threadOnly
  <2>2. MayFollow(Last, [kind |-> "started", run |-> r])
    BY <1>4 DEF TaskStarted, MayFollow
  <2>3. Chained' /\ Last' = [kind |-> "started", run |-> r]
    BY <1>2, <2>1, <2>2, TellsNext
  <2> QED
    BY <1>2, <1>3, <2>1, <2>3, NoneIsNoSignal DEF Told
<1>6. CheckCancel(r) \/ ReportProgress(r) => Chained' /\ Told'
  <2>0. Later("progress", r) # idle
    <3>1. Len(Later("progress", r)) = Len(idle) + 1 /\ Len(idle) \in Nat
      BY Queued DEF IInv, TypeOK
    <3> QED
      BY <3>1
  <2>1. CASE idle' = idle /\ CheckCancel(r)
    <3>1. outcome' = [outcome EXCEPT ![r] = "skipped"] /\ phase'[r] = "report"
      BY <1>1, <2>0, <2>1 DEF CheckCancel, Goto
    <3>2. Chained' /\ Last' = Last
      BY <1>2, <2>1, <3>1, WorkKeepsStory DEF CheckCancel, Last, Sent
    <3> QED
      BY <1>2, <1>3, <1>4, <2>1, <3>1, <3>2 DEF Told, CheckCancel
  <2>2. CASE idle' = Later("progress", r) /\ (CheckCancel(r) \/ ReportProgress(r))
    <3>1. outcome' = outcome /\ phase'[r] = "run" /\ phase[r] \in {"check", "run"}
      <4>1. CASE ReportProgress(r)
        BY <4>1 DEF ReportProgress, threadOnly
      <4>2. CASE CheckCancel(r)
        <5>1. idle' # idle
          BY <2>0, <2>2
        <5> QED
          BY <1>1, <4>2, <5>1 DEF CheckCancel, Goto
      <4> QED
        BY <2>2, <4>1, <4>2
    <3>2. MayFollow(Last, [kind |-> "progress", run |-> r])
      BY <1>4, <3>1 DEF MayFollow
    <3>3. Chained' /\ Last' = [kind |-> "progress", run |-> r]
      BY <1>2, <2>2, <3>1, <3>2, TellsNext
    <3> QED
      BY <1>2, <1>3, <3>1, <3>3, NoneIsNoSignal DEF Told
  <2> QED
    BY <2>1, <2>2 DEF CheckCancel, ReportProgress
<1>7. RunReturns(r) \/ RunRaises(r) => Chained' /\ Told'
  <2> SUFFICES ASSUME RunReturns(r) \/ RunRaises(r) PROVE Chained' /\ Told'
    OBVIOUS
  <2>1. /\ phase[r] = "run" /\ UNCHANGED <<idle, signal, runs>>
        /\ phase'[r] \in {"report", "failing"}
        /\ \E o \in {"done", "error"} : outcome' = [outcome EXCEPT ![r] = o]
    BY <1>1 DEF RunReturns, RunRaises, Goto
  <2>2. Chained'
    BY <2>1, WorkKeepsStory
  <2>3. Last' = Last
    BY <2>1 DEF Last, Sent
  <2> QED
    BY <1>2, <1>3, <1>4, <2>1, <2>2, <2>3 DEF Told
<1>8. ReportSuccess(r) => Chained' /\ Told'
  <2> SUFFICES ASSUME ReportSuccess(r) PROVE Chained' /\ Told'
    OBVIOUS
  <2>1. /\ phase[r] = "report" /\ phase'[r] = "remove" /\ outcome' = outcome
        /\ idle' = IF cancel THEN idle ELSE Later("succeeded", r)
    BY <1>1 DEF ReportSuccess, Goto, threadOnly
  <2>2. outcome[r] \in {"done", "skipped"} /\ (outcome[r] = "skipped" => cancel)
    BY <2>1 DEF IInv, Progressed
  <2>3. CASE cancel
    <3>1. Chained' /\ Last' = Last
      BY <1>1, <1>2, <2>1, <2>3, SameStory
    <3> QED
      BY <1>2, <1>3, <1>4, <2>1, <2>2, <3>1 DEF Told
  <2>4. CASE ~ cancel
    <3>1. MayFollow(Last, [kind |-> "succeeded", run |-> r])
      BY <1>4, <2>1, <2>2, <2>4 DEF MayFollow
    <3>2. Chained' /\ Last' = [kind |-> "succeeded", run |-> r]
      BY <1>2, <2>1, <2>4, <3>1, TellsNext
    <3> QED
      BY <1>2, <1>3, <2>1, <2>2, <3>2, NoneIsNoSignal DEF Told
  <2> QED
    BY <2>3, <2>4
<1>9. SetError(r) \/ Remove(r) => Chained' /\ Told'
  <2> SUFFICES ASSUME SetError(r) \/ Remove(r) PROVE Chained' /\ Told'
    OBVIOUS
  <2>1. UNCHANGED <<idle, signal, outcome>>
    BY DEF SetError, Remove
  <2>2. Chained' /\ Last' = Last
    BY <1>1, <2>1, SameStory
  <2>3. \/ phase[r] = "failing" /\ phase'[r] = "failed"
        \/ phase[r] = "remove" /\ phase'[r] = "stopping"
    BY <1>1 DEF SetError, Remove, Goto
  <2> QED
    BY <1>2, <1>3, <1>4, <2>1, <2>2, <2>3 DEF Told
<1>10. ReportFailure(r) => Chained' /\ Told'
  <2> SUFFICES ASSUME ReportFailure(r) PROVE Chained' /\ Told'
    OBVIOUS
  <2>1. /\ phase[r] = "failed" /\ phase'[r] = "remove" /\ outcome' = outcome
        /\ idle' = Later("failed", r)
    BY <1>1 DEF ReportFailure, Goto, threadOnly
  <2>2. MayFollow(Last, [kind |-> "failed", run |-> r])
    BY <1>4, <2>1 DEF MayFollow, IInv, Progressed
  <2>3. Chained' /\ Last' = [kind |-> "failed", run |-> r]
    BY <1>2, <2>1, <2>2, TellsNext
  <2> QED
    BY <1>2, <1>3, <2>1, <2>3, NoneIsNoSignal DEF Told
<1>11. TaskStopped(r) => Chained' /\ Told'
  <2> SUFFICES ASSUME TaskStopped(r) PROVE Chained' /\ Told'
    OBVIOUS
  <2>1. /\ phase[r] = "stopping" /\ phase'[r] = "dead" /\ outcome' = outcome
        /\ idle' = Later("stopped", r)
    BY <1>1 DEF TaskStopped, Goto, threadOnly, StopAlways
  <2>2. MayFollow(Last, [kind |-> "stopped", run |-> r])
    BY <1>4, <2>1 DEF MayFollow
  <2>3. Chained' /\ Last' = [kind |-> "stopped", run |-> r]
    BY <1>2, <2>1, <2>2, TellsNext
  <2> QED
    BY <1>2, <1>3, <2>1, <2>3, NoneIsNoSignal DEF Told
<1> QED
  BY <1>5, <1>6, <1>7, <1>8, <1>9, <1>10, <1>11 DEF ThreadStep

LEMMA StoryInit == Init => Story
<1> SUFFICES ASSUME Init PROVE Story
  OBVIOUS
<1>1. Len(idle) = 0 /\ signal = None /\ runs = 0
  BY DEF Init
<1> QED
  BY <1>1 DEF Story, Chained, Told, Last, Sent

LEMMA StoryStep ==
  ASSUME IInv, Story, [Next]_vars
  PROVE  Story'
<1>0. SUFFICES ASSUME protocol = "async" PROVE Chained' /\ Told'
  <2>1. protocol' = protocol
    BY DEF Next, vars, Start, Poll, Finish, Cancel, Dispatch, ThreadStep, TaskStarted, CheckCancel,
       ReportProgress, RunReturns, RunRaises, ReportSuccess, SetError, ReportFailure, Remove,
       TaskStopped, threadOnly
  <2> QED
    BY <2>1 DEF Story
<1>1. Chained /\ Told
  BY <1>0 DEF Story
<1>2. CASE Start
  <2>1. /\ UNCHANGED <<idle, signal, outcome>> /\ runs' = runs + 1 /\ runs \in Nat
        /\ phase' = [phase EXCEPT ![runs + 1] = "start"] /\ runs + 1 \in Run
        /\ phase \in [Run -> Phases] /\ client # "await"
    BY <1>2, TaskAssumption DEF Start, Goto, IInv, TypeOK, Run
  <2>2. runs > 0 => phase[runs] = "dead"
    <3>1. runs > 0 => runs \in Run
      BY <2>1, TaskAssumption DEF Run
    <3>2. \A r \in Run : r <= runs => phase[r] = "dead"
      BY <1>0, <2>1 DEF IInv, Listens
    <3> QED
      BY <2>1, <3>1, <3>2
  <2>3. Last = None \/ Last.kind = "stopped"
    BY <1>1, <2>1, <2>2 DEF Told
  <2>4. Chained' /\ Last' = Last
    BY <1>1, <2>1, SameStory
  <2>5. phase'[runs'] = "start" /\ runs' > 0
    BY <2>1
  <2> QED
    BY <2>3, <2>4, <2>5 DEF Told
<1>3. CASE Poll \/ Finish \/ Cancel \/ UNCHANGED vars
  <2>1. UNCHANGED <<idle, signal, outcome, runs, phase>>
    BY <1>3 DEF Poll, Finish, Cancel, vars
  <2>2. Chained' /\ Last' = Last
    BY <1>1, <2>1, SameStory
  <2> QED
    BY <1>1, <2>1, <2>2 DEF Told
<1>4. CASE Dispatch
  <2>1. UNCHANGED <<outcome, runs, phase>>
    BY <1>4 DEF Dispatch
  <2>2. Chained' /\ Last' = Last
    BY <1>0, <1>4, StoryGoesOn
  <2> QED
    BY <1>1, <2>1, <2>2 DEF Told
<1>5. ASSUME NEW r \in Run, ThreadStep(r) \/ ReportProgress(r) \/ RunReturns(r) \/ RunRaises(r)
      PROVE  Chained' /\ Told'
  BY <1>0, <1>5, ThreadTells
<1> QED
  BY <1>2, <1>3, <1>4, <1>5 DEF Next

\* What a step does to the signal and the outcomes the client can know of.
LEMMA OutcomeStep ==
  ASSUME IInv, [Next]_vars
  PROVE  \/ UNCHANGED outcome
         \/ ~ Dispatch /\ signal' = signal
            /\ \E r \in Run : outcome[r] = "none" /\ \E o \in {"done", "error", "skipped"} :
                                  outcome' = [outcome EXCEPT ![r] = o]
<1>1. CASE Start \/ Poll \/ Finish \/ Cancel \/ Dispatch \/ UNCHANGED vars
  BY <1>1 DEF Start, Poll, Finish, Cancel, Dispatch, vars
<1>2. ASSUME NEW r \in Run, CheckCancel(r) \/ RunReturns(r) \/ RunRaises(r)
      PROVE  \/ UNCHANGED outcome
             \/ /\ signal' = signal /\ outcome[r] = "none"
                /\ UNCHANGED runs /\ phase' # phase
                /\ \E o \in {"done", "error", "skipped"} : outcome' = [outcome EXCEPT ![r] = o]
  BY <1>2 DEF CheckCancel, RunReturns, RunRaises, IInv, Progressed, TypeOK, Goto
<1>3. ASSUME NEW r \in Run, ThreadStep(r) \/ ReportProgress(r) \/ RunReturns(r) \/ RunRaises(r),
             ~ (CheckCancel(r) \/ RunReturns(r) \/ RunRaises(r))
      PROVE  UNCHANGED outcome
  BY <1>3 DEF ThreadStep, TaskStarted, ReportProgress, ReportSuccess, SetError, ReportFailure, Remove,
     TaskStopped, threadOnly
<1>4. Dispatch => UNCHANGED outcome
  BY DEF Dispatch
<1> QED
  BY <1>1, <1>2, <1>3, <1>4 DEF Next

\* Every step of the task is one of the lifecycle, or one the listeners do not see.
LEMMA LifecycleStep ==
  ASSUME IInv, Story, [Next]_vars
  PROVE  [Lifecycle!AbsNext]_(Lifecycle!absVars)
<1> USE DEF Lifecycle!absVars, Heard
<1>1. protocol' = protocol
  BY DEF Next, vars, Start, Poll, Finish, Cancel, Dispatch, ThreadStep, TaskStarted, CheckCancel,
     ReportProgress, RunReturns, RunRaises, ReportSuccess, SetError, ReportFailure, Remove,
     TaskStopped, threadOnly
<1>2. CASE ~ UNCHANGED outcome
  <2>1. PICK r \in Run : /\ signal' = signal /\ outcome[r] = "none"
                         /\ \E o \in {"done", "error", "skipped"} : outcome' = [outcome EXCEPT ![r] = o]
    BY <1>2, OutcomeStep
  <2>2. Lifecycle!Work(r)
    BY <1>1, <2>1 DEF Lifecycle!Work
  <2> QED
    BY <2>2 DEF Lifecycle!AbsNext
<1>3. CASE UNCHANGED outcome /\ ~ (Dispatch /\ protocol = "async")
  <2>1. UNCHANGED Heard
    <3>1. CASE protocol = "sync"
      BY <1>1, <3>1
    <3>2. CASE ~ Dispatch
      <4>1. signal' = signal
        BY <3>2 DEF Next, vars, Start, Poll, Finish, Cancel, ThreadStep, TaskStarted, CheckCancel,
           ReportProgress, RunReturns, RunRaises, ReportSuccess, SetError, ReportFailure, Remove,
           TaskStopped, threadOnly
      <4> QED
        BY <1>1, <4>1
    <3> QED
      BY <1>3, <3>1, <3>2 DEF IInv, TypeOK
  <2> QED
    BY <1>3, <2>1
<1>4. CASE UNCHANGED outcome /\ Dispatch /\ protocol = "async"
  <2>1. MayFollow(signal, signal') /\ signal' \in Signals
    BY <1>4, StoryGoesOn, Dispatched DEF Dispatch, IInv, TypeOK
  <2>2. PICK r \in Run, k \in {"started", "progress", "succeeded", "failed", "stopped"} :
            signal' = [kind |-> k, run |-> r]
    BY <2>1 DEF Signals
  <2>3. Heard = signal /\ Heard' = signal'
    BY <1>1, <1>4
  <2> USE <1>4, <2>1, <2>2, <2>3 DEF MayFollow, Lifecycle!Emit, Lifecycle!Within
  <2>4. k = "started" => Lifecycle!Started(r)
    BY DEF Lifecycle!Started, Lifecycle!Open
  <2>5. k = "progress" => Lifecycle!Progress(r)
    BY DEF Lifecycle!Progress
  <2>6. k = "succeeded" => Lifecycle!Succeeded(r)
    BY DEF Lifecycle!Succeeded
  <2>7. k = "failed" => Lifecycle!Failed(r)
    BY DEF Lifecycle!Failed
  <2>8. k = "stopped" => Lifecycle!Stopped(r)
    <3> SUFFICES ASSUME k = "stopped" PROVE Lifecycle!Stopped(r)
      OBVIOUS
    <3>1. signal \in Signals
      BY DEF IInv, TypeOK
    <3> QED
      BY <3>1 DEF Lifecycle!Stopped, Lifecycle!Kinds, Signals
  <2> QED
    BY <2>4, <2>5, <2>6, <2>7, <2>8 DEF Lifecycle!AbsNext
<1> QED
  BY <1>2, <1>3, <1>4

\* A client of async_run_task hears what TaskLifecycle promises, however often the
\* task is started again, cancelled or fails.
THEOREM TaskImplementsLifecycle == Spec => LifecycleImplemented
<1>1. Init => Lifecycle!AbsInit
  BY DEF Init, Lifecycle!AbsInit, Heard
<1> QED
  BY <1>1, StoryInit, StoryStep, LifecycleStep, Invariant, PTL
     DEF Spec, LifecycleImplemented, Lifecycle!AbsSpec

-----------------------------------------------------------------------------

LEMMA EarnedStep ==
  ASSUME IInv, SuccessIsEarned, [Next]_vars
  PROVE  SuccessIsEarned'
<1>1. \A r \in Run : outcome[r] = "done" => outcome'[r] = "done"
  BY OutcomeStep DEF IInv, TypeOK
<1>2. \A i \in 1..Len(idle) : idle[i].run \in Run
  BY Elements DEF IInv, TypeOK, Signals
<1>3. CASE idle' = idle
  BY <1>1, <1>2, <1>3 DEF SuccessIsEarned
<1>4. ASSUME NEW r \in Run, NEW k \in {"started", "progress", "succeeded", "failed", "stopped"},
             idle' = Later(k, r), k = "succeeded" => outcome[r] = "done"
      PROVE  SuccessIsEarned'
  <2>1. /\ Len(idle') = Len(idle) + 1 /\ Len(idle) \in Nat
        /\ idle'[Len(idle) + 1] = [kind |-> k, run |-> r]
        /\ \A i \in 1..Len(idle) : idle'[i] = idle[i]
    BY <1>4, Appended DEF IInv, TypeOK
  <2> SUFFICES ASSUME NEW i \in 1..Len(idle'), idle'[i].kind = "succeeded"
               PROVE  outcome'[idle'[i].run] = "done"
    BY DEF SuccessIsEarned
  <2>2. CASE i \in 1..Len(idle)
    BY <1>1, <1>2, <2>1, <2>2 DEF SuccessIsEarned
  <2>3. CASE i = Len(idle) + 1
    <3>1. idle'[i] = [kind |-> k, run |-> r]
      BY <2>1, <2>3
    <3> QED
      BY <1>1, <1>4, <3>1
  <2> QED
    BY <2>1, <2>2, <2>3
<1>5. CASE Dispatch
  <2>1. /\ Len(idle) \in Nat \ {0} /\ Len(idle') = Len(idle) - 1
        /\ \A i \in 1..Len(idle) - 1 : idle'[i] = idle[i + 1]
    BY <1>5, Dispatched DEF Dispatch, IInv, TypeOK
  <2> SUFFICES ASSUME NEW i \in 1..Len(idle'), idle'[i].kind = "succeeded"
               PROVE  outcome'[idle'[i].run] = "done"
    BY DEF SuccessIsEarned
  <2>2. i + 1 \in 1..Len(idle) /\ idle'[i] = idle[i + 1]
    BY <2>1
  <2> QED
    BY <1>1, <1>2, <2>2 DEF SuccessIsEarned
<1>6. ASSUME NEW r \in Run, ReportSuccess(r)
      PROVE  SuccessIsEarned'
  <2>1. ~ cancel => outcome[r] = "done"
    BY <1>6 DEF ReportSuccess, IInv, Progressed
  <2> QED
    BY <1>3, <1>4, <1>6, <2>1 DEF ReportSuccess
<1>7. ASSUME NEW r \in Run, ThreadStep(r) \/ ReportProgress(r) \/ RunReturns(r) \/ RunRaises(r),
             ~ ReportSuccess(r)
      PROVE  SuccessIsEarned'
  <2>1. \/ idle' = idle
        \/ \E k \in {"started", "progress", "failed", "stopped"} : idle' = Later(k, r)
    BY <1>7 DEF ThreadStep, TaskStarted, CheckCancel, ReportProgress, RunReturns, RunRaises,
       SetError, ReportFailure, Remove, TaskStopped, StopAlways
  <2> QED
    BY <1>3, <1>4, <2>1
<1>8. Start \/ Poll \/ Finish \/ Cancel \/ UNCHANGED vars => idle' = idle
  BY DEF Start, Poll, Finish, Cancel, vars
<1> QED
  BY <1>3, <1>5, <1>6, <1>7, <1>8 DEF Next

\* Whenever and by whomever the task is cancelled, and however often it is started:
\* a Succeeded is queued only for a run whose work was done.
THEOREM SuccessWasEarned == Spec => []SuccessIsEarned
<1>1. Init => SuccessIsEarned
  <2>1. Init => Len(idle) = 0
    BY DEF Init
  <2> QED
    BY <2>1 DEF SuccessIsEarned
<1> QED
  BY <1>1, Invariant, EarnedStep, PTL DEF Spec
=============================================================================
