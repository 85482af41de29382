-------------------------------- MODULE Gui --------------------------------
(***************************************************************************)
(* The window, its worker threads and udev's events (MainWindow.cpp,       *)
(* WorkerThread.cpp, UdevMonitor.cpp, TargetSection.cpp).                  *)
(*                                                                         *)
(* The window's thread handles one click or event at a time.  A message    *)
(* box runs a loop of its own: events are handled under it, clicks on the  *)
(* window are not.  A worker's write is told only by its disk and outcome; *)
(* what it does in between is module Session.                              *)
(***************************************************************************)
EXTENDS Naturals, Sequences

CONSTANTS
  Names,       \* device nodes
  Disks,       \* disks
  Removable,   \* those that are
  NoDisk, NoName,
  MaxWorkers,  \* bound on the writes started
  MaxChanges   \* bound on the disks plugged in or pulled out

ASSUME GuiAssumption ==
  /\ NoDisk \notin Disks /\ NoName \notin Names
  /\ Removable \subseteq Disks
  /\ MaxWorkers \in Nat /\ MaxChanges \in Nat

Workers == 1..MaxWorkers

VARIABLES
  at,          \* the disk that has each name now
  changes,     \* how often that changed
  udev,        \* an event of a whole disk waits, or the debounce timer runs
  listed,      \* m_deviceInfo: the disk that had each listed name
  selected,    \* the name shown in the combo box
  hardDrives,  \* "Show hard drives" is ticked
  iso,         \* the path of the image is not empty
  start,       \* the START button is enabled
  pc,          \* what the window's thread is at
  status,      \* the status chip
  worker,      \* how many workers were created; m_worker is the last
  asked,       \* the name in the question before each worker
  target,      \* the name each worker was given
  run,         \* where each thread is
  success,     \* what each reported
  events,      \* finished signals queued for the window, by worker
  written      \* the disks each worker has written to

hostVars == <<at, changes>>
listVars == <<listed, selected, hardDrives>>
workVars == <<asked, target, run, success, written>>
vars == <<hostVars, udev, listVars, iso, start, pc, status, worker, workVars,
          events>>

\* Every variable has its type, and every queued signal is of a worker that
\* was created.
TypeOK ==
  /\ at \in [Names -> Disks \union {NoDisk}] /\ changes \in 0..MaxChanges
  /\ udev \in BOOLEAN
  /\ listed \in [Names -> Disks \union {NoDisk}]
  /\ selected \in Names \union {NoName}
  /\ hardDrives \in BOOLEAN /\ iso \in BOOLEAN /\ start \in BOOLEAN
  /\ pc \in {"loop", "question", "reset", "closing", "closed"}
  /\ status \in {"Ready", "Writing", "Done", "Error"}
  /\ worker \in 0..MaxWorkers
  /\ asked \in [Workers -> Names \union {NoName}]
  /\ target \in [Workers -> Names \union {NoName}]
  /\ run \in [Workers -> {"new", "checking", "writing", "leaving", "ended"}]
  /\ success \in [Workers -> BOOLEAN]
  /\ events \in Seq(1..worker)
  /\ written \in [Workers -> SUBSET Disks]

-----------------------------------------------------------------------------
(* The list of devices.                                                    *)

Visible(shownToo) ==
  [n \in Names |-> IF at[n] \in Removable \/ shownToo THEN at[n] ELSE NoDisk]
Listed(list) == {n \in Names : list[n] # NoDisk}
Ready(name, path) == path /\ name # NoName

\* onRefreshDevices: the list is cleared and, if the devices can be
\* enumerated, filled.  The first entry, whichever comes first, becomes the
\* selected one.  updateSummary sets START.
Refresh(shownToo) ==
  /\ listed' \in {Visible(shownToo), [n \in Names |-> NoDisk]}
  /\ selected' \in (IF Listed(listed') = {} THEN {NoName} ELSE Listed(listed'))
  /\ start' = Ready(selected', iso)

\* The window is shown after one refresh; a disk that changed between that
\* and the start of the monitor goes unnoticed.
Init ==
  /\ at \in [Names -> Disks \union {NoDisk}]
  /\ \A m, n \in Names : at[m] = at[n] /\ m # n => at[m] = NoDisk
  /\ changes = 0 /\ udev = FALSE
  /\ listed \in {Visible(FALSE), [n \in Names |-> NoDisk]}
  /\ selected \in IF Listed(listed) = {} THEN {NoName} ELSE Listed(listed)
  /\ hardDrives = FALSE /\ iso = FALSE /\ start = FALSE
  /\ pc = "loop" /\ status = "Ready" /\ worker = 0
  /\ asked = [w \in Workers |-> NoName] /\ target = [w \in Workers |-> NoName]
  /\ run = [w \in Workers |-> "new"] /\ success = [w \in Workers |-> FALSE]
  /\ events = <<>> /\ written = [w \in Workers |-> {}]

\* A disk comes or goes: an event of a whole disk starts the debounce timer.
DiskChange ==
  /\ changes < MaxChanges /\ changes' = changes + 1
  /\ \E n \in Names :
       \/ at[n] # NoDisk /\ at' = [at EXCEPT ![n] = NoDisk]
       \/ \E d \in Disks : /\ at[n] = NoDisk /\ \A m \in Names : at[m] # d
                           /\ at' = [at EXCEPT ![n] = d]
  /\ udev' = TRUE
  /\ UNCHANGED <<listVars, iso, start, pc, status, worker, workVars, events>>

\* The timer fires, in the window's loop or under the question.
OnDebounceTimeout ==
  /\ pc \in {"loop", "question"} /\ udev
  /\ udev' = FALSE /\ Refresh(hardDrives)
  /\ UNCHANGED <<hostVars, hardDrives, iso, pc, status, worker, workVars, events>>

ClickRefresh ==
  /\ pc = "loop" /\ Refresh(hardDrives)
  /\ UNCHANGED <<hostVars, udev, hardDrives, iso, pc, status, worker, workVars,
                 events>>

ToggleHardDrives ==
  /\ pc = "loop" /\ hardDrives' = ~hardDrives /\ Refresh(hardDrives')
  /\ UNCHANGED <<hostVars, udev, iso, pc, status, worker, workVars, events>>

\* A mutant: the combo box can be used under the question.
ChooseDeviceUnderQuestion ==
  /\ pc \in {"loop", "question"} /\ selected' \in Listed(listed)
  /\ start' = Ready(selected', iso)
  /\ UNCHANGED <<hostVars, udev, listed, hardDrives, iso, pc, status, worker,
                 workVars, events>>

ChooseDevice ==
  /\ pc = "loop" /\ selected' \in Listed(listed)
  /\ start' = Ready(selected', iso)
  /\ UNCHANGED <<hostVars, udev, listed, hardDrives, iso, pc, status, worker,
                 workVars, events>>

\* The path is typed: no signal is connected to that.
EditIso ==
  /\ pc = "loop" /\ iso' = ~iso
  /\ UNCHANGED <<hostVars, udev, listVars, start, pc, status, worker, workVars,
                 events>>

\* The path is chosen in the file dialog, or it is verified, or an option
\* changes: all come to updateSummary.
UpdateSummary ==
  /\ pc = "loop" /\ iso' \in {iso, TRUE} /\ start' = Ready(selected, iso')
  /\ UNCHANGED <<hostVars, udev, listVars, pc, status, worker, workVars, events>>

-----------------------------------------------------------------------------
(* START.                                                                  *)

\* onStart until the question; without a selected device there is a warning
\* only.
OnStart ==
  /\ pc = "loop" /\ start /\ worker < MaxWorkers
  /\ IF selected \in Listed(listed)
     THEN pc' = "question" /\ asked' = [asked EXCEPT ![worker + 1] = selected]
     ELSE UNCHANGED <<pc, asked>>
  /\ UNCHANGED <<hostVars, udev, listVars, iso, start, status, worker, target,
                 run, success, written, events>>

AnswerNo ==
  /\ pc = "question" /\ pc' = "loop"
  /\ UNCHANGED <<hostVars, udev, listVars, iso, start, status, worker, workVars,
                 events>>

\* onStart after the question: the selected name is read once more for the
\* new worker.
AnswerYes ==
  /\ pc = "question" /\ pc' = "reset"
  /\ status' = "Writing" /\ start' = FALSE
  /\ target' = [target EXCEPT ![worker + 1] = selected]
  /\ UNCHANGED <<hostVars, udev, listVars, iso, worker, asked, run, success,
                 written, events>>

Gone(w) == w \in Workers => run[w] = "ended"

\* A mutant: the destructor of a worker does not wait.
ResetWorkerAtOnce ==
  /\ pc = "reset" /\ pc' = "loop"
  /\ worker' = worker + 1
  /\ run' = [run EXCEPT ![worker + 1] = "checking"]
  /\ UNCHANGED <<hostVars, udev, listVars, iso, start, status, asked, target,
                 success, written, events>>

\* A mutant: the new worker is not started.
ResetWorkerUnstarted ==
  /\ pc = "reset" /\ Gone(worker) /\ pc' = "loop"
  /\ worker' = worker + 1
  /\ UNCHANGED <<hostVars, udev, listVars, iso, start, status, workVars, events>>

\* A mutant: the new worker is kept in a local variable, not in m_worker.
ResetWorkerLocal ==
  /\ pc = "reset" /\ Gone(worker) /\ pc' = "loop"
  /\ run' = [run EXCEPT ![worker + 1] = "checking"]
  /\ UNCHANGED <<hostVars, udev, listVars, iso, start, status, worker, asked,
                 target, success, written, events>>

\* m_worker.reset: the destructor of the old worker waits for its thread,
\* and the window with it.  Its signal stays in the queue.
ResetWorker ==
  /\ pc = "reset" /\ Gone(worker) /\ pc' = "loop"
  /\ worker' = worker + 1
  /\ run' = [run EXCEPT ![worker + 1] = "checking"]
  /\ UNCHANGED <<hostVars, udev, listVars, iso, start, status, asked, target,
                 success, written, events>>

\* onFinished enables START whatever is selected.
OnFinished ==
  /\ pc \in {"loop", "question"} /\ events # <<>>
  /\ events' = Tail(events)
  /\ status' = IF success[Head(events)] THEN "Done" ELSE "Error"
  /\ start' = TRUE
  /\ UNCHANGED <<hostVars, udev, listVars, iso, pc, worker, workVars>>

\* The window is closed; its destructor deletes the worker.
Close ==
  /\ pc = "loop" /\ pc' = "closing"
  /\ UNCHANGED <<hostVars, udev, listVars, iso, start, status, worker, workVars,
                 events>>
DeleteWorker ==
  /\ pc = "closing" /\ Gone(worker) /\ pc' = "closed"
  /\ UNCHANGED <<hostVars, udev, listVars, iso, start, status, worker, workVars,
                 events>>

-----------------------------------------------------------------------------
(* A worker's thread.                                                      *)

Emit(w, ok) ==
  /\ run' = [run EXCEPT ![w] = "leaving"]
  /\ success' = [success EXCEPT ![w] = ok]
  /\ events' = Append(events, w)

\* A mutant: one of the early returns forgets the signal.
WorkerFailsSilently(w) ==
  /\ run[w] \in {"checking", "writing"}
  /\ \/ Emit(w, FALSE)
     \/ run' = [run EXCEPT ![w] = "leaving"] /\ UNCHANGED <<success, events>>
  /\ UNCHANGED <<hostVars, udev, listVars, iso, start, pc, status, worker, asked,
                 target, written>>

\* The image, the device, a check or the write fails.
WorkerFails(w) ==
  /\ run[w] \in {"checking", "writing"} /\ Emit(w, FALSE)
  /\ UNCHANGED <<hostVars, udev, listVars, iso, start, pc, status, worker, asked,
                 target, written>>

\* The checks pass for the name and execute writes to the disk that has it;
\* the kernel reads the new table, which is an event of the whole disk.
WorkerWrites(w) ==
  /\ run[w] = "checking" /\ target[w] # NoName /\ at[target[w]] # NoDisk
  /\ run' = [run EXCEPT ![w] = "writing"]
  /\ written' = [written EXCEPT ![w] = @ \union {at[target[w]]}]
  /\ udev' = TRUE
  /\ UNCHANGED <<hostVars, listVars, iso, start, pc, status, worker, asked,
                 target, success, events>>

WorkerSucceeds(w) ==
  /\ run[w] = "writing" /\ Emit(w, TRUE)
  /\ UNCHANGED <<hostVars, udev, listVars, iso, start, pc, status, worker, asked,
                 target, written>>

\* After the signal the session is destroyed, and run returns.
WorkerLeaves(w) ==
  /\ run[w] = "leaving" /\ run' = [run EXCEPT ![w] = "ended"]
  /\ UNCHANGED <<hostVars, udev, listVars, iso, start, pc, status, worker, asked,
                 target, success, written, events>>

Worker(w) ==
  WorkerFails(w) \/ WorkerWrites(w) \/ WorkerSucceeds(w) \/ WorkerLeaves(w)

-----------------------------------------------------------------------------
Closed == pc = "closed" /\ UNCHANGED vars

User ==
  \/ ClickRefresh \/ ToggleHardDrives \/ ChooseDevice \/ EditIso
  \/ UpdateSummary \/ OnStart \/ AnswerNo \/ AnswerYes \/ Close
Window == OnFinished \/ OnDebounceTimeout
Next == User \/ Window \/ ResetWorker \/ DeleteWorker \/ DiskChange \/ Closed
        \/ \E w \in Workers : Worker(w)

\* The window's loop handles what is queued, its thread goes on when a wait
\* is over, and a worker comes back: execute does (see Session), and the
\* other calls only read.
Fairness ==
  /\ WF_vars(OnFinished) /\ WF_vars(ResetWorker) /\ WF_vars(DeleteWorker)
  /\ \A w \in Workers : WF_vars(Worker(w))

Spec == Init /\ [][Next]_vars /\ Fairness

-----------------------------------------------------------------------------
(* Properties.                                                             *)

Active(w) == run[w] \in {"checking", "writing", "leaving"}

\* There is never more than one thread at work, whatever is clicked during a
\* write, and none when the window is gone (WorkerThread.cpp:21-23,
\* MainWindow.cpp:305-314).
OneWriter ==
  /\ \A v, w \in Workers : Active(v) /\ Active(w) => v = w
  /\ pc = "closed" => \A w \in Workers : ~Active(w)

\* What can have made the window refresh by itself before the worker n + 1: a
\* disk came or went, or one of the workers until n wrote a table.
RefreshCause(n) == changes > 0 \/ \E v \in 1..n : written[v] # {}

\* A worker is given another device than the one in its question only if a
\* disk was plugged in or pulled out, or an earlier write had changed a table:
\* nothing the user clicks comes between the question and the second reading
\* of the combo box (MainWindow.cpp:264, 299-307, UdevMonitor.cpp:56-65).
OnlyEventsRedirect ==
  \A w \in Workers : target[w] \notin {NoName, asked[w]} => RefreshCause(w - 1)

\* When all is quiet the chip tells how the last write ended, whatever
\* signals were late before (MainWindow.cpp:303-314, 328-335).
StatusSettles ==
  pc = "loop" /\ worker # 0 /\ Gone(worker) /\ events = <<>> =>
    status = IF success[worker] THEN "Done" ELSE "Error"

\* The window does not show "Writing" for ever.
WritingEnds == status = "Writing" ~> status # "Writing" \/ pc = "closed"
=============================================================================
