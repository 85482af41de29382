--------------------------- MODULE HashDialogProofs ---------------------------
(***************************************************************************)
(* Theorems about the hash dialog and its workers, for any algorithms and  *)
(* any number of verifications and faults.                                 *)
(***************************************************************************)
EXTENDS HashDialog, SequenceTheorems, TLAPS

Live(w) == run[w] \notin {"none", "done"}

\* The dialog and its workers: the last one only can be at work, for the dialog
\* that is open; in the dialog's loop it is not interrupted, and what it read
\* is told after the reading.
WorkersInv ==
  /\ mine <= worker + 1
  /\ ~open => queue = <<>>
  /\ pc = "replacing" => text # "empty" /\ worker < MaxVerifies
  /\ \A w \in Workers : Live(w) => open /\ w = worker /\ mine <= worker
  /\ \A w \in Workers : w > worker => ~interrupted[w]
  /\ \A w \in Workers : run[w] \notin {"compare", "done"} => read[w] = "nothing"
  /\ Idle /\ HasWorker => ~interrupted[worker]

\* What the last worker tells, once it has ended.
Verdict == [of |-> worker, match |-> Match(worker)]

\* Its verdict is the last one in the queue, or it is on the label.
VerdictInv ==
  Idle /\ HasWorker /\ Ended(worker) =>
    /\ queue # <<>> => queue[Len(queue)] = Verdict
    /\ queue = <<>> => label = Says("error") \/ label = Shown(Verdict)

\* As long as every image could be opened there is a verdict for each worker:
\* the controls are disabled from the click to the verdict.
ControlsInv ==
  open /\ NoOpenFailed =>
    /\ Len(queue) <= 1
    /\ queue # <<>> => ~controls /\ Joined
    /\ controls => Joined
    /\ pc = "replacing" => Joined /\ ~controls /\ queue = <<>>

HashInv == TypeOK /\ WorkersInv /\ VerdictInv /\ ControlsInv

-----------------------------------------------------------------------------
(* The steps in groups.                                                    *)

\* What changes neither a worker nor a verdict.
InputStep == TextTyped \/ HashTypeChanged \/ BrowseHashFile \/ ImageChanges

LEMMA InputFrame ==
  ASSUME TypeOK, InputStep
  PROVE  /\ UNCHANGED <<open, pc, controls, label, worker, mine, workerVars,
                        queue>>
         /\ text' \in Texts /\ type' \in HashTypes
         /\ readable' \in BOOLEAN /\ faults' \in 0..MaxFaults
         /\ Idle \/ UNCHANGED <<text, type>>
<1>1. CASE TextTyped \/ HashTypeChanged \/ BrowseHashFile
  BY <1>1 DEF TextTyped, HashTypeChanged, BrowseHashFile, Input, TypeOK, Texts,
     imageVars
<1>2. CASE ImageChanges
  <2>1. faults' \in 0..MaxFaults /\ readable' \in BOOLEAN
    BY <1>2, HashAssumption DEF ImageChanges, TypeOK
  <2> QED
    BY <1>2, <2>1 DEF ImageChanges, inputVars, TypeOK
<1> QED
  BY <1>1, <1>2 DEF InputStep

LEMMA InputStepInv == HashInv /\ InputStep => HashInv'
<1> SUFFICES ASSUME HashInv, InputStep PROVE HashInv'
  OBVIOUS
<1> USE InputFrame DEF HashInv
<1>1. TypeOK'
  BY DEF TypeOK, workerVars
<1>2. WorkersInv'
  BY DEF WorkersInv, Live, Idle, HasWorker, workerVars
<1>3. VerdictInv'
  BY DEF VerdictInv, Verdict, Match, Idle, HasWorker, Ended, workerVars
<1>4. ControlsInv'
  BY DEF ControlsInv, NoOpenFailed, Joined, HasWorker, Ended, workerVars
<1> QED
  BY <1>1, <1>2, <1>3, <1>4

\* A step of a worker's thread is one of the last worker's, for the open
\* dialog.
LEMMA RunFrame ==
  ASSUME TypeOK, WorkersInv, NEW w \in Workers, RunStep(w)
  PROVE  /\ UNCHANGED <<open, pc, inputVars, controls, label, worker, mine,
                        given, interrupted, imageVars>>
         /\ open /\ w = worker /\ HasWorker /\ Live(w)
         /\ run'[w] \in {"open", "read", "compare", "done"}
         /\ \A v \in Workers \ {w} : run'[v] = run[v] /\ read'[v] = read[v]
         /\ run' \in [Workers -> {"none", "start", "open", "read", "compare",
                                  "done"}]
         /\ read' \in [Workers -> {"nothing", "unopened", "part", "whole"}]
<1>1. Live(w)
  BY DEF RunStep, Begin, OpenImage, ReadImage, Compare, Worker, Live
<1>2. open /\ w = worker /\ HasWorker
  BY <1>1 DEF WorkersInv, HasWorker, TypeOK, Workers
<1>3. CASE Begin(w)
  BY <1>1, <1>2, <1>3 DEF Begin, Worker, TypeOK
<1>4. CASE OpenImage(w)
  BY <1>1, <1>2, <1>4 DEF OpenImage, Worker, TypeOK
<1>5. CASE ReadImage(w)
  BY <1>1, <1>2, <1>5 DEF ReadImage, Worker, TypeOK
<1>6. CASE Compare(w)
  BY <1>1, <1>2, <1>6 DEF Compare, Worker, TypeOK
<1> QED
  BY <1>3, <1>4, <1>5, <1>6 DEF RunStep

\* What a step of it tells: nothing, that the image cannot be opened, or the
\* verdict of a worker that nobody interrupted.
LEMMA RunTells ==
  ASSUME TypeOK, WorkersInv, NEW w \in Workers, RunStep(w)
  PROVE  \/ /\ UNCHANGED queue
            /\ UNCHANGED read \/ read[w] = "nothing"
            /\ run'[w] = "done" => interrupted[w]
         \/ Tells(w, FALSE) /\ run'[w] = "compare" /\ read'[w] = "unopened"
         \/ Tells(w, Match(w)) /\ run'[w] = "done" /\ UNCHANGED read
<1>1. CASE Begin(w)
  <2>1. run'[w] = "done" => interrupted[w]
    BY <1>1 DEF Begin, Worker, TypeOK
  <2> QED
    BY <1>1, <2>1 DEF Begin
<1>2. CASE OpenImage(w)
  <2>1. CASE readable
    <3>1. run'[w] = "read"
      BY <1>2, <2>1 DEF OpenImage, Worker, TypeOK
    <3> QED
      BY <1>2, <2>1, <3>1 DEF OpenImage
  <2>2. CASE ~readable
    <3>1. run'[w] = "compare" /\ read'[w] = "unopened"
      BY <1>2, <2>2 DEF OpenImage, Worker, TypeOK
    <3> QED
      BY <1>2, <2>2, <3>1 DEF OpenImage
  <2> QED
    BY <2>1, <2>2
<1>3. CASE ReadImage(w)
  <2>1. run'[w] = "compare" /\ read[w] = "nothing"
    BY <1>3 DEF ReadImage, Worker, TypeOK, WorkersInv
  <2> QED
    BY <1>3, <2>1 DEF ReadImage
<1>4. CASE Compare(w)
  <2>1. run'[w] = "done"
    BY <1>4 DEF Compare, Worker, TypeOK
  <2> QED
    BY <1>4, <2>1 DEF Compare
<1> QED
  BY <1>1, <1>2, <1>3, <1>4 DEF RunStep

\* A worker has read nothing until it is asked to compare.
LEMMA RunReads ==
  ASSUME TypeOK, WorkersInv, NEW w \in Workers, RunStep(w),
         run'[w] \notin {"compare", "done"}
  PROVE  read'[w] = "nothing"
<1>1. CASE Begin(w)
  BY <1>1 DEF Begin, Worker, TypeOK, WorkersInv
<1>2. CASE OpenImage(w)
  BY <1>2 DEF OpenImage, Worker, TypeOK, WorkersInv
<1>3. CASE ReadImage(w) \/ Compare(w)
  BY <1>3 DEF ReadImage, Compare, Worker, TypeOK
<1> QED
  BY <1>1, <1>2, <1>3 DEF RunStep

\* The queue with one more verdict.
LEMMA TellsQueue ==
  ASSUME TypeOK, NEW w \in Workers, NEW match \in BOOLEAN, Tells(w, match)
  PROVE  /\ queue' \in Seq(Verdicts) /\ queue' # <<>>
         /\ Len(queue') = Len(queue) + 1
         /\ queue'[Len(queue')] = [of |-> w, match |-> match]
<1>1. [of |-> w, match |-> match] \in Verdicts
  BY DEF Verdicts
<1>2. queue \in Seq(Verdicts)
  BY DEF TypeOK
<1>3. queue' = Append(queue, [of |-> w, match |-> match])
  BY DEF Tells
<1> HIDE DEF Verdicts
<1> QED
  BY <1>1, <1>2, <1>3, AppendProperties

LEMMA RunStepInv ==
  ASSUME HashInv, NEW w \in Workers, RunStep(w)
  PROVE  HashInv'
<1> USE DEF HashInv
<1>0. /\ Match(w) \in BOOLEAN /\ FALSE \in BOOLEAN
  BY DEF Match
<1>1. TypeOK'
  <2>1. queue' \in Seq(Verdicts)
    BY <1>0, RunTells, TellsQueue DEF TypeOK
  <2>2. /\ pc' # "idle" => open'
        /\ \A v \in Workers : run'[v] = "none" <=> v > worker'
    BY RunFrame DEF TypeOK, Live
  <2>3. \A v \in Workers :
          run'[v] \notin {"none", "done"} /\ ~interrupted'[v]
            => given'[v].text # "empty"
    BY RunFrame DEF TypeOK, Live
  <2> QED
    BY <2>1, <2>2, <2>3, RunFrame DEF TypeOK, inputVars, imageVars
<1>2. WorkersInv'
  <2>1. ~open' => queue' = <<>>
    BY RunFrame
  <2>2. \A v \in Workers : Live(v)' => open' /\ v = worker' /\ mine' <= worker'
    BY RunFrame DEF WorkersInv, Live, HasWorker
  <2>3. \A v \in Workers : run'[v] \notin {"compare", "done"} => read'[v] = "nothing"
    BY RunFrame, RunReads DEF WorkersInv
  <2> QED
    BY <2>1, <2>2, <2>3, RunFrame DEF WorkersInv, Idle, HasWorker, inputVars
<1>3. VerdictInv'
  <2> SUFFICES ASSUME Idle', HasWorker', Ended(worker)'
               PROVE  /\ queue' # <<>> => queue'[Len(queue')] = Verdict'
                      /\ queue' = <<>> => \/ label' = Says("error")
                                          \/ label' = Shown(Verdict)'
    BY DEF VerdictInv
  <2>1. run'[w] = "done" /\ ~interrupted[w] /\ w = worker
    BY RunFrame DEF Idle, HasWorker, Ended, WorkersInv
  <2>2. Tells(w, Match(w)) /\ UNCHANGED read
    BY <2>1, RunTells
  <2>3. Verdict' = [of |-> w, match |-> Match(w)]
    BY <2>1, <2>2, RunFrame DEF Verdict, Match
  <2> QED
    BY <1>0, <2>2, <2>3, TellsQueue
<1>4. ControlsInv'
  <2> SUFFICES ASSUME open', NoOpenFailed'
               PROVE  /\ Len(queue') <= 1
                      /\ queue' # <<>> => ~controls' /\ Joined'
                      /\ controls' => Joined'
                      /\ pc' = "replacing" => Joined' /\ ~controls' /\ queue' = <<>>
    BY DEF ControlsInv
  <2>1. w \in mine..worker /\ ~Ended(w) /\ w = worker /\ HasWorker
    <3>1. w = worker /\ HasWorker /\ Live(w)
      BY RunFrame
    <3>2. mine \in Nat /\ worker \in Nat
      BY HashAssumption DEF TypeOK
    <3> QED
      BY <3>1, <3>2 DEF HasWorker, Live, Ended
  <2>2. NoOpenFailed /\ read'[w] # "unopened"
    <3>1. \A v \in mine'..worker' : read'[v] # "unopened"
      BY DEF NoOpenFailed
    <3>2. \A v \in mine..worker : read'[v] # "unopened"
      BY <3>1, RunFrame
    <3>3. read[w] # "unopened" /\ read'[w] # "unopened"
      BY <2>1, <3>2, RunTells, RunFrame
    <3>4. \A v \in mine..worker : v \in Workers
      BY HashAssumption DEF TypeOK, Workers
    <3> QED
      BY <3>2, <3>3, <3>4, RunFrame DEF NoOpenFailed
  <2>3. ~Joined /\ ~controls /\ queue = <<>> /\ pc # "replacing"
    BY <2>1, <2>2, RunFrame DEF ControlsInv, Joined
  <2>4. UNCHANGED <<pc, controls, worker, mine>>
    BY RunFrame
  <2>5. CASE UNCHANGED queue
    BY <2>3, <2>4, <2>5
  <2>6. CASE run'[w] = "done"
    <3>1. Joined'
      BY <2>1, <2>4, <2>6 DEF Joined, Ended
    <3>2. queue' = queue \/ Tells(w, Match(w))
      BY <2>6, RunTells
    <3>3. Len(queue') <= 1
      <4>1. Tells(w, Match(w)) => Len(queue') = Len(queue) + 1
        <5>1. w \in Workers /\ Match(w) \in BOOLEAN /\ TypeOK
          BY <1>0
        <5> HIDE DEF HashInv
        <5> QED
          BY <5>1, TellsQueue
      <4>2. Len(queue) = 0
        BY <2>3
      <4>3. CASE Tells(w, Match(w))
        <5>1. Len(queue') = 1
          BY <4>1, <4>2, <4>3
        <5> QED
          BY <5>1
      <4>4. CASE queue' = queue
        BY <4>2, <4>4
      <4> QED
        BY <3>2, <4>3, <4>4
    <3> QED
      BY <2>3, <2>4, <3>1, <3>3
  <2> QED
    BY <2>2, <2>5, <2>6, RunTells
<1> QED
  BY <1>1, <1>2, <1>3, <1>4

\* The window's other steps, one at a time.
LEMMA RequestInv == HashInv /\ HashRequested => HashInv'
<1> SUFFICES ASSUME HashInv, HashRequested PROVE HashInv'
  OBVIOUS
<1> USE DEF HashInv, HashRequested, workerVars, imageVars
<1>1. TypeOK'
  BY HashAssumption DEF TypeOK, Texts, Labels, Says
<1>2. WorkersInv'
  BY HashAssumption DEF WorkersInv, Live, Idle, HasWorker, TypeOK
<1>3. VerdictInv' /\ ControlsInv'
  BY DEF VerdictInv, ControlsInv, WorkersInv, HasWorker, Joined, TypeOK
<1> QED
  BY <1>1, <1>2, <1>3

LEMMA WithoutHashInv == HashInv /\ VerifyWithoutHash => HashInv'
<1> SUFFICES ASSUME HashInv, VerifyWithoutHash PROVE HashInv'
  OBVIOUS
<1> USE DEF HashInv, VerifyWithoutHash, workerVars, imageVars, inputVars
<1>1. TypeOK'
  BY DEF TypeOK, Labels, Says
<1>2. WorkersInv'
  BY DEF WorkersInv, Live, Idle, HasWorker
<1>3. VerdictInv'
  BY DEF VerdictInv, Verdict, Match, Idle, HasWorker, Ended
<1>4. ControlsInv'
  BY DEF ControlsInv, NoOpenFailed, Joined, HasWorker, Ended
<1> QED
  BY <1>1, <1>2, <1>3, <1>4

LEMMA VerifyInv == HashInv /\ Verify => HashInv'
<1> SUFFICES ASSUME HashInv, Verify PROVE HashInv'
  OBVIOUS
<1> USE DEF HashInv, Verify, imageVars, inputVars
<1>1. TypeOK'
  BY DEF TypeOK, Labels, Says, Interrupt, Idle
<1>2. WorkersInv'
  BY DEF WorkersInv, Live, Idle, HasWorker, Interrupt, TypeOK
<1>3. VerdictInv'
  BY DEF VerdictInv, Idle
<1>4. ControlsInv'
  BY DEF ControlsInv, NoOpenFailed, Joined, HasWorker, Ended, Idle
<1> QED
  BY <1>1, <1>2, <1>3, <1>4

LEMMA CloseInv == HashInv /\ Close => HashInv'
<1> SUFFICES ASSUME HashInv, Close PROVE HashInv'
  OBVIOUS
<1> USE DEF HashInv, Close, imageVars, inputVars
<1>1. TypeOK'
  BY DEF TypeOK, Interrupt, Idle
<1>2. WorkersInv'
  BY DEF WorkersInv, Live, Idle, HasWorker, Interrupt, TypeOK
<1>3. VerdictInv'
  BY DEF VerdictInv, Idle
<1>4. ControlsInv'
  BY DEF ControlsInv, NoOpenFailed, Joined, HasWorker, Ended
<1> QED
  BY <1>1, <1>2, <1>3, <1>4

LEMMA ClosedInv == HashInv /\ Closed => HashInv'
<1> SUFFICES ASSUME HashInv, Closed PROVE HashInv'
  OBVIOUS
<1> USE DEF HashInv, Closed, imageVars, inputVars
<1>1. \A w \in Workers : ~Live(w)
  BY DEF WorkersInv, Joined, HasWorker, Ended, Live, TypeOK
<1>2. TypeOK'
  BY <1>1, EmptySeq, HashAssumption DEF TypeOK, NotGiven, Texts, Live
<1>3. WorkersInv'
  BY <1>1 DEF WorkersInv, Live, Idle
<1>4. VerdictInv' /\ ControlsInv'
  BY DEF VerdictInv, ControlsInv, Idle
<1> QED
  BY <1>2, <1>3, <1>4

\* The new worker: the one before has ended, so all others have.
LEMMA StartInv == HashInv /\ StartWorker => HashInv'
<1> SUFFICES ASSUME HashInv, StartWorker PROVE HashInv'
  OBVIOUS
<1> USE DEF HashInv, StartWorker, imageVars, inputVars
<1>0. /\ worker' = worker + 1 /\ worker' \in Workers /\ open
      /\ worker \in Nat /\ mine \in Nat /\ mine <= worker'
      /\ text # "empty" /\ ~interrupted[worker'] /\ read[worker'] = "nothing"
  BY HashAssumption DEF TypeOK, WorkersInv, Workers
<1>1. \A w \in Workers : ~Live(w)
  BY DEF WorkersInv, Joined, HasWorker, Ended, Live, TypeOK
<1>2. /\ run'[worker'] = "start"
      /\ \A w \in Workers \ {worker'} : run'[w] = run[w]
      /\ given'[worker'] = [text |-> text, type |-> type]
  BY <1>0 DEF TypeOK
<1>3. TypeOK'
  <2>1. worker' \in 0..MaxVerifies
    BY <1>0, HashAssumption DEF Workers
  <2>2. given' \in [Workers -> [text : Texts, type : HashTypes]]
    BY HashAssumption DEF NotGiven, Texts, TypeOK
  <2>3. run' \in [Workers -> {"none", "start", "open", "read", "compare",
                               "done"}]
    BY DEF TypeOK
  <2>4. \A w \in Workers : run'[w] = "none" <=> w > worker'
    BY <1>0, <1>2 DEF TypeOK, Workers
  <2>5. \A w \in Workers : run'[w] \notin {"none", "done"} /\ ~interrupted'[w]
                             => given'[w].text # "empty"
    BY <1>0, <1>1, <1>2 DEF Live
  <2> QED
    BY <2>1, <2>2, <2>3, <2>4, <2>5 DEF TypeOK
<1>4. WorkersInv'
  <2>1. \A w \in Workers : Live(w)' => open' /\ w = worker' /\ mine' <= worker'
    BY <1>0, <1>1, <1>2 DEF Live
  <2>2. \A w \in Workers : w > worker' => ~interrupted'[w]
    BY <1>0 DEF WorkersInv, Workers
  <2>3. \A w \in Workers : run'[w] \notin {"compare", "done"} => read'[w] = "nothing"
    BY <1>0, <1>2 DEF WorkersInv
  <2> QED
    BY <1>0, <2>1, <2>2, <2>3 DEF WorkersInv
<1>5. VerdictInv'
  BY <1>2 DEF VerdictInv, Ended
<1>6. ControlsInv'
  <2>1. NoOpenFailed' => NoOpenFailed
    BY <1>0 DEF NoOpenFailed
  <2> QED
    BY <1>0, <2>1 DEF ControlsInv
<1> QED
  BY <1>3, <1>4, <1>5, <1>6

\* The verdict shown is the first one queued; the last worker's is the last.
LEMMA CompleteInv == HashInv /\ VerifyComplete => HashInv'
<1> SUFFICES ASSUME HashInv, VerifyComplete PROVE HashInv'
  OBVIOUS
<1> USE DEF HashInv, VerifyComplete, imageVars, inputVars, workerVars
<1>1. /\ Head(queue) \in Verdicts /\ queue' \in Seq(Verdicts)
      /\ Len(queue) \in Nat \ {0} /\ Len(queue') = Len(queue) - 1
      /\ \A i \in 1..Len(queue') : queue'[i] = queue[i + 1]
      /\ Head(queue) = queue[1]
  <2>1. queue \in Seq(Verdicts) /\ queue # <<>>
    BY DEF TypeOK
  <2> HIDE DEF VerifyComplete
  <2>2. queue' = Tail(queue)
    BY DEF VerifyComplete
  <2> QED
    BY <2>1, <2>2, HeadTailProperties, EmptySeq
<1>2. Shown(Head(queue)) \in Labels
  BY <1>1 DEF Shown, Labels, Verdicts
<1>3. TypeOK'
  BY <1>1, <1>2 DEF TypeOK
<1>4. WorkersInv'
  BY DEF WorkersInv, Live, Idle, HasWorker
<1>5. Len(queue') > 0 => queue'[Len(queue')] = queue[Len(queue)]
  <2> HIDE DEF HashInv, VerifyComplete
  <2> QED
    BY <1>1
<1>6. queue' # <<>> => Len(queue') \in Nat \ {0}
  BY <1>1, EmptySeq
<1>7. queue' = <<>> => Len(queue) = 1
  <2>1. queue' = <<>> => Len(queue') = 0
    BY EmptySeq
  <2> HIDE DEF HashInv, VerifyComplete
  <2> QED
    BY <1>1, <2>1
<1>8. VerdictInv'
  <2> SUFFICES ASSUME Idle, HasWorker, Ended(worker)
               PROVE  /\ queue' # <<>> => queue'[Len(queue')] = Verdict
                      /\ queue' = <<>> => label' = Shown(Verdict)
    BY DEF VerdictInv, Idle, HasWorker, Ended, Verdict, Match
  <2>1. queue[Len(queue)] = Verdict
    BY DEF VerdictInv
  <2>2. queue' # <<>> => queue'[Len(queue')] = Verdict
    BY <1>5, <1>6, <2>1
  <2>3. queue' = <<>> => label' = Shown(Verdict)
    BY <1>1, <1>7, <2>1
  <2> QED
    BY <2>2, <2>3
<1>9. ControlsInv'
  <2> SUFFICES ASSUME open, NoOpenFailed
               PROVE  Len(queue') <= 1 /\ queue' = <<>> /\ Joined
    BY DEF ControlsInv, NoOpenFailed, Joined, HasWorker, Ended, Idle
  <2>1. Len(queue) <= 1 /\ Joined
    BY DEF ControlsInv
  <2>2. Len(queue') = 0
    BY <1>1, <2>1
  <2> QED
    BY <1>1, <1>6, <2>1, <2>2
<1> QED
  BY <1>3, <1>4, <1>8, <1>9

-----------------------------------------------------------------------------
(* The theorems.                                                           *)

LEMMA HashInit == Init => HashInv
<1> SUFFICES ASSUME Init PROVE HashInv
  OBVIOUS
<1>1. TypeOK
  <2>1. queue \in Seq(Verdicts)
    BY EmptySeq DEF Init
  <2>2. given \in [Workers -> [text : Texts, type : HashTypes]]
    BY HashAssumption DEF Init, NotGiven, Texts
  <2>3. /\ worker \in 0..MaxVerifies /\ mine \in 1..(MaxVerifies + 1)
        /\ faults \in 0..MaxFaults /\ type \in HashTypes /\ label \in Labels
    BY HashAssumption DEF Init, Labels, Says
  <2>4. \A w \in Workers : w > worker
    BY HashAssumption DEF Init, Workers
  <2> QED
    BY <2>1, <2>2, <2>3, <2>4 DEF Init, TypeOK, Texts
<1>2. WorkersInv
  BY DEF Init, WorkersInv, Live, Idle
<1>3. VerdictInv /\ ControlsInv
  BY DEF Init, VerdictInv, ControlsInv, Idle
<1> QED
  BY <1>1, <1>2, <1>3 DEF HashInv

LEMMA HashStep == HashInv /\ [Next]_vars => HashInv'
<1> SUFFICES ASSUME HashInv, [Next]_vars PROVE HashInv'
  OBVIOUS
<1>1. CASE InputStep
  BY <1>1, InputStepInv
<1>2. CASE \E w \in Workers : RunStep(w)
  BY <1>2, RunStepInv
<1>3. CASE UNCHANGED vars
  BY <1>3 DEF HashInv, vars, inputVars, workerVars, imageVars, TypeOK, WorkersInv,
     Live, Idle, HasWorker, VerdictInv, Verdict, Match, Ended, ControlsInv,
     NoOpenFailed, Joined
<1> QED
  BY <1>1, <1>2, <1>3, RequestInv, WithoutHashInv, VerifyInv, CloseInv, ClosedInv,
     StartInv, CompleteInv DEF Next, User, InputStep

LEMMA HashInvariant == Spec => []HashInv
BY HashInit, HashStep, PTL DEF Spec

\* Every variable of the dialog and of its workers has its type, and no worker
\* is started for an empty input.
THEOREM HashTypeCorrect == Spec => []TypeOK
<1>1. HashInv => TypeOK
  BY DEF HashInv
<1> QED
  BY <1>1, HashInvariant, PTL

\* However often a verification is started and the dialog closed, one worker at
\* most is at work, and none without its dialog (ISOHashDialog.cpp:20-26,
\* 174-178).
THEOREM OneThreadHolds == Spec => []OneThread
<1>1. HashInv => OneThread
  BY DEF HashInv, WorkersInv, Live, OneThread
<1> QED
  BY <1>1, HashInvariant, PTL

\* As long as the image could be opened, enabled controls mean that nothing is
\* at work and nothing waits (ISOHashDialog.cpp:163, 201).
THEOREM ControlsHold == Spec => []ControlsMeanIdle
<1>1. HashInv => ControlsMeanIdle
  BY DEF HashInv, ControlsInv, ControlsMeanIdle, Idle, Joined
<1> QED
  BY <1>1, HashInvariant, PTL

\* When all is quiet the label tells the truth about what was asked last, for
\* any number of verdicts that came late (ISOHashWorkerThread.cpp:29-44,
\* ISOHashDialog.cpp:191-202).
THEOREM VerdictHolds == Spec => []LastVerdictStays
<1>1. HashInv => LastVerdictStays
  <2> SUFFICES ASSUME HashInv, Idle, HasWorker, Ended(worker), queue = <<>>,
                      label # Says("error")
               PROVE  /\ label.of = worker
                      /\ given[worker].text # "blank" =>
                           (label.says = "match" <=> Right(worker))
    BY DEF LastVerdictStays
  <2>1. label = Shown(Verdict)
    BY DEF HashInv, VerdictInv
  <2>2. label.of = worker /\ (label.says = "match" <=> Match(worker))
    BY <2>1 DEF Shown, Verdict
  <2> QED
    BY <2>2 DEF Match, Right
<1> QED
  BY <1>1, HashInvariant, PTL
=============================================================================
