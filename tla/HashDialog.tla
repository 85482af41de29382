----------------------------- MODULE HashDialog -----------------------------
(***************************************************************************)
(* The hash dialog and its worker threads (ISOHashDialog.cpp,              *)
(* ISOHashWorkerThread.cpp, opened by MainWindow.cpp).                     *)
(*                                                                         *)
(* A worker tells its verdict by a queued signal.  The signal is posted to *)
(* the dialog, so it is delivered although the worker that sent it was     *)
(* deleted in the meantime.  A digest is told by what it is the digest of. *)
(***************************************************************************)
EXTENDS Naturals, Sequences, FiniteSets

CONSTANTS
  HashTypes,    \* the entries of the combo box
  SHA256,       \* the one it starts with
  MaxVerifies,  \* bound on the workers created
  MaxFaults     \* bound on how often the image goes away or comes back

ASSUME HashAssumption ==
  /\ SHA256 \in HashTypes
  /\ HashTypes \intersect {"empty", "blank"} = {}
  /\ MaxVerifies \in Nat /\ MaxFaults \in Nat

Workers == 1..MaxVerifies

\* What the input holds: nothing, spaces, or the digest of the image by one of
\* the algorithms, which is as wrong as anything else for the other ones.
Texts == {"empty", "blank"} \union HashTypes

VARIABLES
  open,         \* the dialog is on the screen
  pc,           \* the window's thread: "idle", or in wait() for the worker in
                \* onVerify ("replacing") or in the destructor ("closing")
  text, type,   \* hash_input_ and hash_type_combo_
  controls,     \* the controls are enabled
  label,        \* result_label_, and the worker whose verdict it shows
  worker,       \* workers created so far; worker_thread_ is the last
  mine,         \* the first worker of this dialog
  given,        \* the text and the algorithm each worker was given, until it
                \* is deleted
  run,          \* where each worker is
  interrupted,  \* requestInterruption() was called
  read,         \* what each worker computed the digest of
  queue,        \* the verdicts not yet delivered
  readable,     \* the image can be opened and read
  faults

inputVars == <<text, type>>
workerVars == <<given, run, interrupted, read>>
imageVars == <<readable, faults>>
vars == <<open, pc, inputVars, controls, label, worker, mine, workerVars,
          queue, imageVars>>

Verdicts == [of : Workers, match : BOOLEAN]
Says(message) == [of |-> 0, says |-> message]
Labels == {Says(m) : m \in {"ready", "error", "verifying"}}
          \union [of : Workers, says : {"match", "failed"}]
Shown(verdict) ==
  [of |-> verdict.of, says |-> IF verdict.match THEN "match" ELSE "failed"]

\* Every variable has its type; the window's thread waits for a worker only
\* while the dialog lives, and no worker is started for an empty input
\* (ISOHashDialog.cpp:20-26, 157-184).
TypeOK ==
  /\ open \in BOOLEAN /\ pc \in {"idle", "replacing", "closing"}
  /\ text \in Texts /\ type \in HashTypes
  /\ controls \in BOOLEAN
  /\ label \in Labels
  /\ worker \in 0..MaxVerifies /\ mine \in 1..(MaxVerifies + 1)
  /\ given \in [Workers -> [text : Texts, type : HashTypes]]
  /\ run \in [Workers -> {"none", "start", "open", "read", "compare", "done"}]
  /\ interrupted \in [Workers -> BOOLEAN]
  /\ read \in [Workers -> {"nothing", "unopened", "part", "whole"}]
  /\ queue \in Seq(Verdicts)
  /\ readable \in BOOLEAN /\ faults \in 0..MaxFaults
  /\ pc # "idle" => open
  /\ \A w \in Workers : run[w] = "none" <=> w > worker
  /\ \A w \in Workers :
       run[w] \notin {"none", "done"} /\ ~interrupted[w] =>
         given[w].text # "empty"

HasWorker == worker >= mine
Ended(w) == run[w] = "done"
\* wait() returns.
Joined == HasWorker => Ended(worker)

NotGiven == [text |-> "empty", type |-> SHA256]

Init ==
  /\ open = FALSE /\ pc = "idle"
  /\ text = "empty" /\ type = SHA256 /\ controls = TRUE /\ label = Says("ready")
  /\ worker = 0 /\ mine = 1
  /\ given = [w \in Workers |-> NotGiven]
  /\ run = [w \in Workers |-> "none"]
  /\ interrupted = [w \in Workers |-> FALSE]
  /\ read = [w \in Workers |-> "nothing"]
  /\ queue = <<>>
  /\ readable = TRUE /\ faults = 0

-----------------------------------------------------------------------------
(* The window's thread.                                                    *)

\* onHashRequested: the dialog opens on an image that could be loaded.
HashRequested ==
  /\ ~open /\ readable
  /\ open' = TRUE
  /\ text' = "empty" /\ type' = SHA256 /\ controls' = TRUE
  /\ label' = Says("ready") /\ mine' = worker + 1
  /\ UNCHANGED <<pc, worker, workerVars, queue, imageVars>>

Idle == open /\ pc = "idle"
Input ==
  /\ Idle /\ controls
  /\ UNCHANGED <<open, pc, controls, label, worker, mine, workerVars, queue,
                 imageVars>>

TextTyped == Input /\ text' \in Texts /\ UNCHANGED type

HashTypeChanged == Input /\ type' \in HashTypes \ {type} /\ text' = "empty"

\* The first word of the first line of a file: never blank.
BrowseHashFile ==
  Input /\ text' \in Texts \ {"empty", "blank"} /\ UNCHANGED type

VerifyWithoutHash ==
  /\ Idle /\ controls /\ text = "empty"
  /\ label' = Says("error")
  /\ UNCHANGED <<open, pc, inputVars, controls, worker, mine, workerVars,
                 queue, imageVars>>

\* requestInterruption() of the worker there is.
Interrupt ==
  interrupted' = [w \in Workers |-> interrupted[w] \/ (HasWorker /\ w = worker)]

\* A mutant: the controls stay enabled while a worker is at work.
VerifyKeepsControls ==
  /\ Idle /\ controls /\ text # "empty" /\ worker < MaxVerifies
  /\ label' = Says("verifying")
  /\ pc' = "replacing"
  /\ Interrupt
  /\ UNCHANGED <<open, inputVars, controls, worker, mine, given, run, read,
                 queue, imageVars>>

\* A mutant: an empty input is not refused.
VerifyAnyText ==
  /\ Idle /\ controls /\ worker < MaxVerifies
  /\ controls' = FALSE /\ label' = Says("verifying")
  /\ pc' = "replacing"
  /\ Interrupt
  /\ UNCHANGED <<open, inputVars, worker, mine, given, run, read, queue,
                 imageVars>>

\* onVerify, up to the wait for the worker before.
Verify ==
  /\ Idle /\ controls /\ text # "empty" /\ worker < MaxVerifies
  /\ controls' = FALSE /\ label' = Says("verifying")
  /\ pc' = "replacing"
  /\ Interrupt
  /\ UNCHANGED <<open, inputVars, worker, mine, given, run, read, queue,
                 imageVars>>

\* The rest of onVerify.
StartWorker ==
  /\ pc = "replacing" /\ Joined
  /\ pc' = "idle" /\ worker' = worker + 1
  /\ given' = [w \in Workers |->
       IF w = worker + 1 THEN [text |-> text, type |-> type] ELSE NotGiven]
  /\ run' = [run EXCEPT ![worker + 1] = "start"]
  /\ UNCHANGED <<open, inputVars, controls, label, mine, interrupted, read,
                 queue, imageVars>>

\* onVerifyComplete shows whichever verdict comes.
VerifyComplete ==
  /\ Idle /\ queue # <<>>
  /\ label' = Shown(Head(queue)) /\ controls' = TRUE
  /\ queue' = Tail(queue)
  /\ UNCHANGED <<open, pc, inputVars, worker, mine, workerVars, imageVars>>

\* Escape or the window's close button: the dialog is rejected and destroyed.
Close ==
  /\ Idle
  /\ pc' = "closing"
  /\ Interrupt
  /\ UNCHANGED <<open, inputVars, controls, label, worker, mine, given, run,
                 read, queue, imageVars>>

\* A mutant: the destructor leaves the worker running.
ClosedNoWait ==
  /\ pc = "closing"
  /\ pc' = "idle" /\ open' = FALSE
  /\ queue' = <<>> /\ given' = [w \in Workers |-> NotGiven]
  /\ UNCHANGED <<inputVars, controls, label, worker, mine, run, interrupted,
                 read, imageVars>>

\* The destructor's wait() is over; what is queued for the dialog goes with it.
Closed ==
  /\ pc = "closing" /\ Joined
  /\ pc' = "idle" /\ open' = FALSE
  /\ queue' = <<>> /\ given' = [w \in Workers |-> NotGiven]
  /\ UNCHANGED <<inputVars, controls, label, worker, mine, run, interrupted,
                 read, imageVars>>

-----------------------------------------------------------------------------
(* A worker's run().                                                       *)

Worker(w, from, to) ==
  /\ run[w] = from
  /\ run' = [run EXCEPT ![w] = to]
  /\ UNCHANGED <<open, pc, inputVars, controls, label, worker, mine, given,
                 interrupted, imageVars>>

Tells(w, match) == queue' = Append(queue, [of |-> w, match |-> match])

Begin(w) ==
  /\ Worker(w, "start", IF interrupted[w] THEN "done" ELSE "open")
  /\ UNCHANGED <<read, queue>>

\* A mutant: a worker that cannot open the image leaves it at that.
OpenImageSilently(w) ==
  /\ Worker(w, "open", IF readable THEN "read" ELSE "done")
  /\ UNCHANGED <<read, queue>>

\* An image that cannot be opened is a verdict of its own; the comparison
\* comes all the same.
OpenImage(w) ==
  /\ Worker(w, "open", IF readable THEN "read" ELSE "compare")
  /\ IF readable THEN UNCHANGED <<read, queue>>
     ELSE Tells(w, FALSE) /\ read' = [read EXCEPT ![w] = "unopened"]

\* The loop over the chunks: an interruption returns no digest, and a read
\* that fails leaves the digest of what was read before.
ReadImage(w) ==
  /\ Worker(w, "read", "compare")
  /\ UNCHANGED queue
  /\ IF interrupted[w] THEN UNCHANGED read
     ELSE read' = [read EXCEPT ![w] = IF readable THEN "whole" ELSE "part"]

\* A mutant: a digest of a part of the image counts.
MatchAnyRead(w) ==
  \/ given[w].text = "blank" /\ read[w] \in {"nothing", "unopened"}
  \/ given[w].text = given[w].type /\ read[w] \in {"part", "whole"}

\* The texts are equal, without case and the spaces around.
Match(w) ==
  \/ given[w].text = "blank" /\ read[w] \in {"nothing", "unopened"}
  \/ given[w].text = given[w].type /\ read[w] = "whole"

\* An interrupted worker has no verdict.
Compare(w) ==
  /\ Worker(w, "compare", "done")
  /\ UNCHANGED read
  /\ IF interrupted[w] THEN UNCHANGED queue ELSE Tells(w, Match(w))

RunStep(w) == Begin(w) \/ OpenImage(w) \/ ReadImage(w) \/ Compare(w)

\* The image is deleted or its medium pulled out, or it is back.
ImageChanges ==
  /\ faults < MaxFaults
  /\ faults' = faults + 1 /\ readable' = ~readable
  /\ UNCHANGED <<open, pc, inputVars, controls, label, worker, mine,
                 workerVars, queue>>

User == TextTyped \/ HashTypeChanged \/ BrowseHashFile \/ VerifyWithoutHash
        \/ Verify \/ Close \/ HashRequested
Next ==
  \/ User \/ StartWorker \/ VerifyComplete \/ Closed
  \/ \E w \in Workers : RunStep(w)
  \/ ImageChanges

\* The window's loop delivers what is queued and wait() returns; a worker's
\* thread runs.  The user need do nothing.
Fairness ==
  /\ WF_vars(StartWorker) /\ WF_vars(VerifyComplete) /\ WF_vars(Closed)
  /\ \A w \in Workers : WF_vars(RunStep(w))

Spec == Init /\ [][Next]_vars /\ Fairness

-----------------------------------------------------------------------------
(* Properties.                                                             *)

\* At most one worker runs, and none once the dialog is gone: a worker reads
\* a dialog's image and signals the dialog only while it lives
\* (ISOHashDialog.cpp:20-26, 174-178).
OneThread ==
  \A w \in Workers : run[w] \notin {"none", "done"} => open /\ w = worker

\* The truth about what a worker was asked.
Right(w) == given[w].text = given[w].type /\ read[w] = "whole"

\* Once nothing runs and nothing is queued, the label is the verdict on what
\* was last asked, however many verdicts of earlier workers came in between,
\* and it says "match" only if the whole image has that digest.  An input of
\* spaces only is excepted: it equals the digest of an image that could not be
\* opened (ISOHashWorkerThread.cpp:29-44, ISOHashDialog.cpp:191-202).
LastVerdictStays ==
  Idle /\ HasWorker /\ Ended(worker) /\ queue = <<>> /\ label # Says("error") =>
    /\ label.of = worker
    /\ given[worker].text # "blank" => (label.says = "match" <=> Right(worker))

NoOpenFailed == \A w \in mine..worker : read[w] # "unopened"

\* As long as every worker of the dialog could open the image, the controls
\* are enabled only when none is at work and no verdict waits.  A failed open
\* breaks this, by its two verdicts (ISOHashDialog.cpp:163, 201,
\* ISOHashWorkerThread.cpp:50, 37-44).
ControlsMeanIdle ==
  Idle /\ controls /\ NoOpenFailed =>
    (HasWorker => Ended(worker)) /\ queue = <<>>

\* Disabled controls come back, unless the dialog is closed: no path of a
\* worker that is not interrupted ends without a verdict
\* (ISOHashWorkerThread.cpp:14-45).
ControlsComeBack == open /\ ~controls ~> controls \/ ~open
=============================================================================
