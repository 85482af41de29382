------------------------------ MODULE GuiProofs ------------------------------
(***************************************************************************)
(* Theorems about the window and its workers, for any names, disks and     *)
(* number of writes.                                                       *)
(***************************************************************************)
EXTENDS Gui, SequenceTheorems, TLAPS

\* Workers are created one after the other, after the question.
Created ==
  /\ \A w \in Workers : run[w] = "new" <=> w > worker
  /\ pc \in {"question", "reset"} => worker < MaxWorkers

\* Only the last worker can be at work.
LastAtWork ==
  /\ \A w \in Workers : Active(w) => w = worker
  /\ pc = "closed" => \A w \in Workers : ~Active(w)

\* The last worker has told its outcome.
Told == worker \in Workers /\ run[worker] \in {"leaving", "ended"}

\* Its signal is the last one in the queue, or the window has handled it.
LastSignal ==
  Told =>
    /\ events # <<>> => events[Len(events)] = worker
    /\ events = <<>> /\ pc # "reset" =>
         status = IF success[worker] THEN "Done" ELSE "Error"

\* An event is due, and the combo box shows another device than the question
\* names, only for one of the causes.
Redirected ==
  /\ udev => RefreshCause(worker)
  /\ pc = "question" /\ selected \notin {NoName, asked[worker + 1]} =>
       RefreshCause(worker)
  /\ \A w \in Workers : w > worker =>
       target[w] = NoName \/ (w = worker + 1 /\ pc = "reset")
  /\ OnlyEventsRedirect

GuiInv == TypeOK /\ Created /\ LastAtWork /\ LastSignal /\ Redirected

-----------------------------------------------------------------------------
(* What the groups of actions change.                                      *)

\* What the list of devices is about.
ListStep ==
  \/ DiskChange \/ OnDebounceTimeout \/ ClickRefresh \/ ToggleHardDrives
  \/ ChooseDevice \/ EditIso \/ UpdateSummary

\* The list's actions leave the workers, their signals and the chip alone.
LEMMA ListFrame ==
  ASSUME ListStep
  PROVE  UNCHANGED <<pc, status, worker, workVars, events>>
BY DEF ListStep, DiskChange, OnDebounceTimeout, ClickRefresh, ToggleHardDrives,
   ChooseDevice, EditIso, UpdateSummary

\* All others leave the list alone.
OtherStep ==
  \/ OnStart \/ AnswerNo \/ AnswerYes \/ ResetWorker \/ OnFinished \/ Close
  \/ DeleteWorker \/ Closed \/ \E w \in Workers : Worker(w)

LEMMA OtherFrame ==
  ASSUME OtherStep
  PROVE  UNCHANGED <<hostVars, listVars, iso>>
BY DEF OtherStep, OnStart, AnswerNo, AnswerYes, ResetWorker, OnFinished, Close,
   DeleteWorker, Closed, Worker, WorkerFails, WorkerWrites, WorkerSucceeds,
   WorkerLeaves, vars

LEMMA NextIsListOrOther ==
  ASSUME [Next]_vars
  PROVE  ListStep \/ OtherStep \/ UNCHANGED vars
BY DEF Next, User, Window, ListStep, OtherStep

-----------------------------------------------------------------------------
(* Types.                                                                  *)

LEMMA RefreshTypes ==
  ASSUME TypeOK, NEW b \in BOOLEAN, Refresh(b)
  PROVE  /\ listed' \in [Names -> Disks \union {NoDisk}]
         /\ selected' \in Names \union {NoName}
         /\ iso \in BOOLEAN => start' \in BOOLEAN
BY DEF TypeOK, Refresh, Visible, Listed, Ready

LEMMA ListStepTypes ==
  ASSUME TypeOK, ListStep
  PROVE  TypeOK'
<1>0. UNCHANGED <<pc, status, worker, workVars, events>>
  BY ListFrame
<1>1. /\ at' \in [Names -> Disks \union {NoDisk}] /\ changes' \in 0..MaxChanges
      /\ udev' \in BOOLEAN
  <2>1. CASE DiskChange
    <3>1. at' \in [Names -> Disks \union {NoDisk}]
      BY <2>1 DEF DiskChange, TypeOK
    <3>2. changes' \in 0..MaxChanges /\ udev' \in BOOLEAN
      BY <2>1, GuiAssumption DEF DiskChange, TypeOK
    <3> QED
      BY <3>1, <3>2
  <2>2. CASE ~DiskChange
    BY <2>2 DEF ListStep, OnDebounceTimeout, ClickRefresh, ToggleHardDrives,
       ChooseDevice, EditIso, UpdateSummary, hostVars, TypeOK
  <2> QED
    BY <2>1, <2>2
<1>2. /\ listed' \in [Names -> Disks \union {NoDisk}]
      /\ selected' \in Names \union {NoName}
      /\ hardDrives' \in BOOLEAN /\ iso' \in BOOLEAN /\ start' \in BOOLEAN
  <2>1. CASE DiskChange
    BY <2>1 DEF DiskChange, listVars, TypeOK
  <2>2. CASE OnDebounceTimeout
    BY <2>2, RefreshTypes DEF OnDebounceTimeout, TypeOK
  <2>3. CASE ClickRefresh
    BY <2>3, RefreshTypes DEF ClickRefresh, TypeOK
  <2>4. CASE ToggleHardDrives
    BY <2>4, RefreshTypes DEF ToggleHardDrives, TypeOK
  <2>5. CASE ChooseDevice
    BY <2>5 DEF ChooseDevice, Listed, Ready, TypeOK
  <2>6. CASE EditIso
    BY <2>6 DEF EditIso, listVars, TypeOK
  <2>7. CASE UpdateSummary
    BY <2>7 DEF UpdateSummary, listVars, Ready, TypeOK
  <2> QED
    BY <2>1, <2>2, <2>3, <2>4, <2>5, <2>6, <2>7 DEF ListStep
<1> QED
  BY <1>0, <1>1, <1>2 DEF TypeOK, workVars

\* A worker that is at work was created, so its signal is of one.
LEMMA EmitTypes ==
  ASSUME TypeOK, Created, NEW w \in Workers, NEW ok \in BOOLEAN,
         run[w] \in {"checking", "writing"}, Emit(w, ok)
  PROVE  /\ run' \in [Workers -> {"new", "checking", "writing", "leaving",
                                  "ended"}]
         /\ success' \in [Workers -> BOOLEAN]
         /\ events' \in Seq(1..worker)
         /\ events' # <<>> /\ events'[Len(events')] = w
<1>1. w \in 1..worker
  BY GuiAssumption DEF Created, TypeOK, Workers
<1>2. /\ events' \in Seq(1..worker)
      /\ events' # <<>> /\ events'[Len(events')] = w
  BY <1>1, AppendProperties DEF Emit, TypeOK
<1> QED
  BY <1>2 DEF Emit, TypeOK

LEMMA OtherStepTypes ==
  ASSUME TypeOK, Created, OtherStep
  PROVE  TypeOK'
<1>0. UNCHANGED <<hostVars, listVars, iso>>
  BY OtherFrame
<1>1. CASE OnStart
  <2>1. asked' \in [Workers -> Names \union {NoName}]
    BY <1>1 DEF OnStart, TypeOK, Listed
  <2> QED
    BY <1>0, <1>1, <2>1 DEF OnStart, TypeOK, hostVars, listVars
<1>2. CASE AnswerNo \/ Close \/ DeleteWorker
  BY <1>0, <1>2 DEF AnswerNo, Close, DeleteWorker, TypeOK, hostVars, listVars,
     workVars
<1>3. CASE AnswerYes
  BY <1>0, <1>3 DEF AnswerYes, TypeOK, hostVars, listVars
<1>4. CASE ResetWorker
  <2>1. worker' \in 0..MaxWorkers
    BY <1>4, GuiAssumption DEF ResetWorker, TypeOK, Created
  <2>2. events' \in Seq(1..worker')
    <3>1. 1..worker \subseteq 1..worker'
      BY <1>4 DEF ResetWorker, TypeOK
    <3> QED
      BY <1>4, <3>1, SeqMonotonic DEF ResetWorker, TypeOK
  <2> QED
    BY <1>0, <1>4, <2>1, <2>2 DEF ResetWorker, TypeOK, hostVars, listVars
<1>5. CASE OnFinished
  <2>1. events' \in Seq(1..worker)
    BY <1>5, HeadTailProperties DEF OnFinished, TypeOK
  <2> QED
    BY <1>0, <1>5, <2>1 DEF OnFinished, TypeOK, hostVars, listVars, workVars
<1>6. CASE Closed
  BY <1>6 DEF Closed, TypeOK, vars, hostVars, listVars, workVars
<1>7. ASSUME NEW w \in Workers, Worker(w)
      PROVE  TypeOK'
  <2>1. CASE WorkerFails(w)
    BY <1>0, <2>1, EmitTypes DEF WorkerFails, TypeOK, hostVars, listVars
  <2>2. CASE WorkerWrites(w)
    <3>1. written' \in [Workers -> SUBSET Disks]
      BY <2>2 DEF WorkerWrites, TypeOK
    <3> QED
      BY <1>0, <2>2, <3>1 DEF WorkerWrites, TypeOK, hostVars, listVars
  <2>3. CASE WorkerSucceeds(w)
    BY <1>0, <2>3, EmitTypes DEF WorkerSucceeds, TypeOK, hostVars, listVars
  <2>4. CASE WorkerLeaves(w)
    BY <1>0, <2>4 DEF WorkerLeaves, TypeOK, hostVars, listVars
  <2> QED
    BY <1>7, <2>1, <2>2, <2>3, <2>4 DEF Worker
<1> QED
  BY <1>1, <1>2, <1>3, <1>4, <1>5, <1>6, <1>7 DEF OtherStep

-----------------------------------------------------------------------------
(* The workers.                                                            *)

LEMMA WorkerStep ==
  ASSUME TypeOK, Created, LastAtWork, NEW w \in Workers, Worker(w)
  PROVE  /\ Created' /\ LastAtWork'
         /\ Active(w) /\ w = worker /\ UNCHANGED <<worker, pc, status>>
<1>1. Active(w) /\ w = worker /\ UNCHANGED <<worker, pc, status>>
  BY DEF Worker, WorkerFails, WorkerWrites, WorkerSucceeds, WorkerLeaves, Active,
     LastAtWork
<1>2. /\ run'[w] \in {"writing", "leaving", "ended"}
      /\ \A v \in Workers \ {w} : run'[v] = run[v]
  BY DEF Worker, WorkerFails, WorkerWrites, WorkerSucceeds, WorkerLeaves, Emit,
     TypeOK
<1>3. Created'
  BY <1>1, <1>2 DEF Created, Active
<1>4. LastAtWork'
  BY <1>1, <1>2 DEF LastAtWork, Active
<1> QED
  BY <1>1, <1>3, <1>4

LEMMA WorkersStep ==
  ASSUME TypeOK, Created, LastAtWork, OtherStep
  PROVE  Created' /\ LastAtWork'
<1>1. CASE OnStart
  BY <1>1 DEF OnStart, Created, LastAtWork, Active, TypeOK
<1>2. CASE AnswerNo \/ Close \/ AnswerYes \/ OnFinished
  BY <1>2 DEF AnswerNo, Close, AnswerYes, OnFinished, Created, LastAtWork,
     Active, workVars
<1>3. CASE ResetWorker
  <2>1. worker + 1 \in Workers /\ worker' = worker + 1 /\ pc' = "loop"
    BY <1>3, GuiAssumption DEF ResetWorker, Created, TypeOK, Workers
  <2>2. /\ run'[worker + 1] = "checking"
        /\ \A v \in Workers \ {worker + 1} : run'[v] = run[v]
    BY <1>3, <2>1 DEF ResetWorker, TypeOK
  <2>3. \A v \in Workers : ~Active(v)
    BY <1>3 DEF ResetWorker, Gone, LastAtWork, Active
  <2>4. Created'
    BY <2>1, <2>2, GuiAssumption DEF Created, TypeOK, Workers
  <2>5. LastAtWork'
    BY <2>1, <2>2, <2>3 DEF LastAtWork, Active
  <2> QED
    BY <2>4, <2>5
<1>4. CASE DeleteWorker
  BY <1>4 DEF DeleteWorker, Gone, Created, LastAtWork, Active, workVars
<1>5. CASE Closed
  BY <1>5 DEF Closed, vars, workVars, Created, LastAtWork, Active
<1>6. CASE \E w \in Workers : Worker(w)
  BY <1>6, WorkerStep
<1> QED
  BY <1>1, <1>2, <1>3, <1>4, <1>5, <1>6 DEF OtherStep

-----------------------------------------------------------------------------
(* The signals.                                                            *)

\* The chip shows the signal that is handled, and what is behind it in the
\* queue stays.
LEMMA OnFinishedStep ==
  ASSUME TypeOK, LastSignal, OnFinished
  PROVE  LastSignal'
<1> SUFFICES ASSUME Told
             PROVE  LastSignal'
  BY DEF OnFinished, LastSignal, Told, workVars
<1>1. /\ events \in Seq(1..worker) /\ events # <<>>
      /\ Len(events) \in Nat \ {0} /\ events[Len(events)] = worker
  BY EmptySeq DEF OnFinished, TypeOK, LastSignal
<1>2. /\ events' \in Seq(1..worker) /\ Len(events') = Len(events) - 1
      /\ \A i \in 1..Len(events') : events'[i] = events[i + 1]
      /\ Head(events) = events[1]
  BY <1>1, HeadTailProperties DEF OnFinished
<1>3. ASSUME events' # <<>> PROVE events'[Len(events')] = worker
  <2>1. Len(events') \in Nat \ {0}
    BY <1>2, <1>3, EmptySeq
  <2> QED
    BY <1>1, <1>2, <2>1
<1>4. ASSUME events' = <<>>
      PROVE  status' = IF success[worker] THEN "Done" ELSE "Error"
  <2>1. Len(events) = 1
    BY <1>1, <1>2, <1>4
  <2> QED
    BY <1>1, <1>2, <2>1 DEF OnFinished
<1> QED
  BY <1>3, <1>4 DEF OnFinished, LastSignal, workVars

LEMMA SignalStep ==
  ASSUME TypeOK, Created, LastAtWork, LastSignal, OtherStep
  PROVE  LastSignal'
<1>1. CASE OnStart \/ AnswerNo \/ Close \/ AnswerYes \/ DeleteWorker \/ Closed
  BY <1>1 DEF OnStart, AnswerNo, Close, AnswerYes, DeleteWorker, Closed, vars,
     workVars, LastSignal, Told
<1>2. CASE ResetWorker
  <2>1. worker' \in Workers /\ run'[worker'] = "checking"
    BY <1>2, GuiAssumption DEF ResetWorker, Created, TypeOK, Workers
  <2> QED
    BY <2>1 DEF LastSignal, Told
<1>3. CASE OnFinished
  BY <1>3, OnFinishedStep
<1>4. ASSUME NEW w \in Workers, Worker(w)
      PROVE  LastSignal'
  <2>1. Active(w) /\ w = worker /\ UNCHANGED <<worker, pc, status>>
    BY <1>4, WorkerStep
  <2>2. CASE WorkerFails(w)
    BY <2>1, <2>2, EmitTypes DEF WorkerFails, LastSignal, Told
  <2>3. CASE WorkerWrites(w)
    <3>1. run'[worker] = "writing"
      BY <2>1, <2>3 DEF WorkerWrites, TypeOK
    <3> QED
      BY <2>1, <3>1 DEF LastSignal, Told
  <2>4. CASE WorkerSucceeds(w)
    BY <2>1, <2>4, EmitTypes DEF WorkerSucceeds, LastSignal, Told
  <2>5. CASE WorkerLeaves(w)
    BY <2>1, <2>5 DEF WorkerLeaves, LastSignal, Told
  <2> QED
    BY <1>4, <2>2, <2>3, <2>4, <2>5 DEF Worker
<1> QED
  BY <1>1, <1>2, <1>3, <1>4 DEF OtherStep

-----------------------------------------------------------------------------
(* The device of the question and that of the worker.                      *)

\* A cause remains one, for later workers too.
LEMMA CauseRemains ==
  ASSUME TypeOK, [Next]_vars, NEW m \in Int, NEW n \in Int,
         m <= n, m <= MaxWorkers, RefreshCause(m)
  PROVE  RefreshCause(n)'
<1>1. /\ changes \in Nat /\ changes' \in Nat /\ changes' >= changes
      /\ \A v \in Workers : written[v] \subseteq written'[v]
  <2>1. CASE ListStep
    <3>0. changes \in Nat
      BY GuiAssumption DEF TypeOK
    <3>1. changes' = changes \/ changes' = changes + 1
      BY <2>1 DEF ListStep, DiskChange, OnDebounceTimeout, ClickRefresh,
         ToggleHardDrives, ChooseDevice, EditIso, UpdateSummary, hostVars
    <3>2. written' = written
      BY <2>1, ListFrame DEF workVars
    <3> QED
      BY <3>0, <3>1, <3>2
  <2>2. CASE OtherStep
    <3>1. changes' = changes /\ changes \in Nat
      BY <2>2, OtherFrame, GuiAssumption DEF hostVars, TypeOK
    <3>2. ASSUME NEW w \in Workers, WorkerWrites(w)
          PROVE  \A v \in Workers : written[v] \subseteq written'[v]
      BY <3>2 DEF WorkerWrites, TypeOK
    <3>3. CASE written' = written
      BY <3>1, <3>3
    <3>4. written' = written \/ \E w \in Workers : WorkerWrites(w)
      <4>1. CASE \E w \in Workers : Worker(w)
        BY <4>1 DEF Worker, WorkerFails, WorkerSucceeds, WorkerLeaves
      <4>2. CASE ~\E w \in Workers : Worker(w)
        BY <2>2, <4>2 DEF OtherStep, OnStart, AnswerNo, AnswerYes, ResetWorker,
           OnFinished, Close, DeleteWorker, Closed, vars, workVars
      <4> QED
        BY <4>1, <4>2
    <3> QED
      BY <3>1, <3>2, <3>3, <3>4
  <2>3. CASE UNCHANGED vars
    BY <2>3, GuiAssumption DEF vars, hostVars, workVars, TypeOK
  <2> QED
    BY <2>1, <2>2, <2>3, NextIsListOrOther
<1>2. CASE changes > 0
  BY <1>1, <1>2 DEF RefreshCause
<1>3. CASE \E v \in 1..m : written[v] # {}
  <2>1. PICK v \in 1..m : written[v] # {}
    BY <1>3
  <2>2. v \in Workers /\ v \in 1..n
    BY GuiAssumption DEF Workers
  <2>3. written'[v] # {}
    BY <1>1, <2>1, <2>2
  <2> QED
    BY <2>2, <2>3 DEF RefreshCause
<1> QED
  BY <1>2, <1>3 DEF RefreshCause

\* The list's actions show another device under a question only for an event.
LEMMA ListRedirects ==
  ASSUME TypeOK, Redirected, ListStep, [Next]_vars
  PROVE  Redirected'
<1>0. UNCHANGED <<pc, status, worker, workVars, events>>
  BY ListFrame
<1>1. \A n \in Int : n <= MaxWorkers /\ RefreshCause(n) => RefreshCause(n)'
  BY CauseRemains
<1>2. worker \in Int /\ worker <= MaxWorkers
  BY GuiAssumption DEF TypeOK
<1>3. udev' => RefreshCause(worker)'
  <2>1. CASE DiskChange
    BY <2>1, GuiAssumption DEF DiskChange, RefreshCause, TypeOK
  <2>2. CASE ~DiskChange
    BY <1>0, <1>1, <1>2, <2>2 DEF ListStep, OnDebounceTimeout, ClickRefresh,
       ToggleHardDrives, ChooseDevice, EditIso, UpdateSummary, Redirected,
       RefreshCause
  <2> QED
    BY <2>1, <2>2
<1>4. pc = "question" /\ selected' \notin {NoName, asked[worker + 1]} =>
        RefreshCause(worker)'
  <2>1. CASE OnDebounceTimeout
    BY <1>0, <1>1, <1>2, <2>1 DEF OnDebounceTimeout, Redirected, RefreshCause
  <2>2. CASE ~OnDebounceTimeout
    BY <1>0, <1>1, <1>2, <2>2 DEF ListStep, DiskChange, ClickRefresh,
       ToggleHardDrives, ChooseDevice, EditIso, UpdateSummary, listVars,
       Redirected, RefreshCause
  <2> QED
    BY <2>1, <2>2
<1>5. OnlyEventsRedirect'
  <2> SUFFICES ASSUME NEW w \in Workers, target'[w] \notin {NoName, asked'[w]}
               PROVE  RefreshCause(w - 1)'
    BY DEF OnlyEventsRedirect
  <2> QED
    BY <1>0, <1>1, GuiAssumption DEF Redirected, OnlyEventsRedirect, workVars,
       Workers, RefreshCause
<1> QED
  BY <1>0, <1>3, <1>4, <1>5 DEF Redirected, workVars

\* So does what the workers and the question do.
LEMMA OtherRedirects ==
  ASSUME TypeOK, Created, LastAtWork, Redirected, OtherStep, [Next]_vars
  PROVE  Redirected'
<1>0. UNCHANGED <<hostVars, listVars, iso>>
  BY OtherFrame
<1>1. \A m, n \in Int :
        m <= n /\ m <= MaxWorkers /\ RefreshCause(m) => RefreshCause(n)'
  BY CauseRemains
<1>2. worker \in Int /\ 0 <= worker /\ worker <= MaxWorkers
  BY GuiAssumption DEF TypeOK
<1>3. ASSUME UNCHANGED <<asked, target>>
      PROVE  OnlyEventsRedirect'
  <2> SUFFICES ASSUME NEW w \in Workers, target'[w] \notin {NoName, asked'[w]}
               PROVE  RefreshCause(w - 1)'
    BY DEF OnlyEventsRedirect
  <2> QED
    BY <1>1, <1>3, GuiAssumption DEF Redirected, OnlyEventsRedirect, Workers,
       RefreshCause
<1>4. CASE OnStart
  <2>1. worker + 1 \in Workers /\ worker' = worker /\ udev' = udev
        /\ target' = target /\ selected' = selected
    BY <1>2, <1>4, GuiAssumption DEF OnStart, Workers, listVars
  <2>2. \A w \in Workers \ {worker + 1} : asked'[w] = asked[w]
    BY <1>4 DEF OnStart, TypeOK
  <2>3. pc' = "question" => asked'[worker + 1] = selected
    BY <1>4, <2>1 DEF OnStart, TypeOK
  <2>4. target[worker + 1] = NoName
    BY <1>2, <1>4, <2>1 DEF OnStart, Redirected
  <2>5. \A w \in Workers : target'[w] \notin {NoName, asked'[w]} =>
          RefreshCause(w - 1)'
    BY <1>1, <2>1, <2>2, <2>4, GuiAssumption DEF Redirected, OnlyEventsRedirect,
       Workers, RefreshCause
  <2>6. udev' => RefreshCause(worker)'
    BY <1>1, <1>2, <2>1 DEF Redirected, RefreshCause
  <2>7. pc' = "loop" \/ pc' = "question"
    BY <1>4 DEF OnStart
  <2>8. \A w \in Workers : w > worker => target[w] = NoName
    BY <1>4 DEF OnStart, Redirected
  <2> QED
    BY <2>1, <2>3, <2>5, <2>6, <2>8 DEF Redirected, OnlyEventsRedirect,
       RefreshCause
<1>5. CASE AnswerYes
  <2>1. worker + 1 \in Workers /\ worker' = worker /\ udev' = udev
        /\ asked' = asked /\ pc' = "reset"
    BY <1>2, <1>5, GuiAssumption DEF AnswerYes, Created, Workers
  <2>2. /\ target'[worker + 1] = selected
        /\ \A w \in Workers \ {worker + 1} : target'[w] = target[w]
    BY <1>5, <2>1 DEF AnswerYes, TypeOK
  <2>3. \A w \in Workers : target'[w] \notin {NoName, asked'[w]} =>
          RefreshCause(w - 1)'
    <3> SUFFICES ASSUME NEW w \in Workers, target'[w] \notin {NoName, asked'[w]}
                 PROVE  RefreshCause(w - 1)'
      OBVIOUS
    <3>1. CASE w = worker + 1
      <4>1. RefreshCause(worker)
        BY <1>5, <2>1, <2>2, <3>1 DEF AnswerYes, Redirected
      <4>2. w - 1 = worker
        BY <1>2, <3>1
      <4> QED
        BY <1>1, <1>2, <4>1, <4>2 DEF RefreshCause
    <3>2. CASE w # worker + 1
      BY <1>1, <2>1, <2>2, <3>2, GuiAssumption DEF Redirected,
         OnlyEventsRedirect, Workers, RefreshCause
    <3> QED
      BY <3>1, <3>2
  <2>4. udev' => RefreshCause(worker)'
    <3>1. RefreshCause(worker) => RefreshCause(worker)'
      BY <1>1, <1>2, <2>1 DEF RefreshCause
    <3> QED
      BY <2>1, <3>1 DEF Redirected
  <2>5. \A w \in Workers : w > worker =>
          target'[w] = NoName \/ w = worker + 1
    BY <1>5, <2>2 DEF AnswerYes, Redirected
  <2> QED
    BY <2>1, <2>3, <2>4, <2>5 DEF Redirected, OnlyEventsRedirect, RefreshCause
<1>6. CASE ResetWorker
  <2>1. /\ worker' = worker + 1 /\ udev' = udev /\ pc' = "loop"
        /\ UNCHANGED <<asked, target>>
    BY <1>6 DEF ResetWorker
  <2>2. udev' => RefreshCause(worker)'
    BY <1>1, <1>2, <2>1 DEF Redirected, RefreshCause
  <2>3. \A w \in Workers : w > worker' => target'[w] = NoName
    BY <1>2, <2>1 DEF Redirected, Workers
  <2> QED
    BY <1>3, <2>1, <2>2, <2>3 DEF Redirected
<1>7. CASE AnswerNo \/ OnFinished \/ Close \/ DeleteWorker \/ Closed
  <2>1. /\ worker' = worker /\ udev' = udev /\ UNCHANGED <<asked, target>>
        /\ selected' = selected
        /\ pc' = "question" => pc = "question"
        /\ pc = "reset" => pc' = "reset"
    BY <1>7 DEF AnswerNo, OnFinished, Close, DeleteWorker, Closed, vars, workVars,
       listVars
  <2>2. RefreshCause(worker) => RefreshCause(worker)'
    BY <1>1, <1>2, <2>1 DEF RefreshCause
  <2> QED
    BY <1>3, <2>1, <2>2 DEF Redirected, RefreshCause
<1>8. ASSUME NEW w \in Workers, Worker(w)
      PROVE  Redirected'
  <2>1. /\ worker' = worker /\ pc' = pc /\ UNCHANGED <<asked, target>>
        /\ selected' = selected /\ w = worker
    BY <1>0, <1>8, WorkerStep DEF Worker, WorkerFails, WorkerWrites,
       WorkerSucceeds, WorkerLeaves, listVars
  <2>2. udev' => RefreshCause(worker)'
    <3>1. CASE WorkerWrites(w)
      <4>1. at[target[w]] \in written'[w]
        BY <3>1 DEF WorkerWrites, TypeOK
      <4>2. w \in 1..worker
        BY <1>2, <2>1 DEF Workers
      <4> QED
        BY <2>1, <4>1, <4>2 DEF RefreshCause
    <3>2. CASE ~WorkerWrites(w)
      <4>1. udev' = udev
        BY <1>8, <3>2 DEF Worker, WorkerFails, WorkerSucceeds, WorkerLeaves
      <4>2. RefreshCause(worker) => RefreshCause(worker)'
        BY <1>1, <1>2, <2>1 DEF RefreshCause
      <4> QED
        BY <4>1, <4>2 DEF Redirected
    <3> QED
      BY <3>1, <3>2
  <2>3. RefreshCause(worker) => RefreshCause(worker)'
    BY <1>1, <1>2, <2>1 DEF RefreshCause
  <2> QED
    BY <1>3, <2>1, <2>2, <2>3 DEF Redirected, RefreshCause
<1> QED
  BY <1>4, <1>5, <1>6, <1>7, <1>8 DEF OtherStep

-----------------------------------------------------------------------------
(* The theorems.                                                           *)

LEMMA GuiInit == Init => GuiInv
<1> SUFFICES ASSUME Init PROVE GuiInv
  OBVIOUS
<1>1. TypeOK
  <2>1. /\ listed \in [Names -> Disks \union {NoDisk}]
        /\ selected \in Names \union {NoName}
    BY DEF Init, Visible, Listed
  <2>2. events \in Seq(1..worker)
    BY EmptySeq DEF Init
  <2>3. changes \in 0..MaxChanges /\ worker \in 0..MaxWorkers
    BY GuiAssumption DEF Init
  <2>4. written \in [Workers -> SUBSET Disks]
    BY DEF Init
  <2> QED
    BY <2>1, <2>2, <2>3, <2>4 DEF Init, TypeOK
<1>2. Created /\ LastAtWork
  BY GuiAssumption DEF Init, Created, LastAtWork, Active, Workers
<1>3. Redirected
  BY DEF Init, Redirected, OnlyEventsRedirect, Workers
<1>4. LastSignal
  BY DEF Init, LastSignal, Told, Workers
<1> QED
  BY <1>1, <1>2, <1>3, <1>4 DEF GuiInv

LEMMA GuiStep == GuiInv /\ [Next]_vars => GuiInv'
<1> SUFFICES ASSUME GuiInv, [Next]_vars PROVE GuiInv'
  OBVIOUS
<1>1. CASE ListStep
  <2>1. TypeOK' /\ Redirected'
    BY <1>1, ListStepTypes, ListRedirects DEF GuiInv
  <2>2. Created' /\ LastAtWork' /\ LastSignal'
    BY <1>1, ListFrame DEF GuiInv, Created, LastAtWork, Active, LastSignal, Told,
       workVars
  <2> QED
    BY <2>1, <2>2 DEF GuiInv
<1>2. CASE OtherStep
  BY <1>2, OtherStepTypes, WorkersStep, SignalStep, OtherRedirects DEF GuiInv
<1>3. CASE UNCHANGED vars
  BY <1>3 DEF GuiInv, vars, hostVars, listVars, workVars, TypeOK, Created,
     LastAtWork, Active, LastSignal, Told, Redirected, OnlyEventsRedirect,
     RefreshCause
<1> QED
  BY <1>1, <1>2, <1>3, NextIsListOrOther

LEMMA GuiInvariant == Spec => []GuiInv
BY GuiInit, GuiStep, PTL DEF Spec

\* Every variable of the window and of its workers has its type, and every
\* queued signal is of a worker that was created.
THEOREM GuiTypeCorrect == Spec => []TypeOK
<1>1. GuiInv => TypeOK
  BY DEF GuiInv
<1> QED
  BY <1>1, GuiInvariant, PTL

\* However often START is clicked and whatever a refresh enables, at most one
\* worker is at work, and none when the window is gone (MainWindow.cpp:305-314,
\* WorkerThread.cpp:21-23).
THEOREM OneWriterHolds == Spec => []OneWriter
<1>1. GuiInv => OneWriter
  BY DEF GuiInv, LastAtWork, OneWriter
<1> QED
  BY <1>1, GuiInvariant, PTL

\* A worker is given the device of its question unless a disk came or went or
\* an earlier worker wrote a table, for any number of writes and events
\* (MainWindow.cpp:264, 299-307).
THEOREM OnlyEventsRedirectHolds == Spec => []OnlyEventsRedirect
<1>1. GuiInv => OnlyEventsRedirect
  BY DEF GuiInv, Redirected
<1> QED
  BY <1>1, GuiInvariant, PTL

\* Once nothing runs and nothing is queued the chip tells how the last write
\* ended, for any number of writes and late signals (MainWindow.cpp:328-335).
THEOREM StatusHolds == Spec => []StatusSettles
<1>1. GuiInv => StatusSettles
  <2> SUFFICES ASSUME GuiInv, pc = "loop", worker # 0, Gone(worker),
                      events = <<>>
               PROVE  status = IF success[worker] THEN "Done" ELSE "Error"
    BY DEF StatusSettles
  <2>1. worker \in Workers
    BY GuiAssumption DEF GuiInv, TypeOK, Workers
  <2> QED
    BY <2>1 DEF GuiInv, Gone, LastSignal, Told
<1> QED
  BY <1>1, GuiInvariant, PTL
=============================================================================
