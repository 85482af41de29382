------------------------------ MODULE WriteJob ------------------------------
(***************************************************************************)
(* What a caller may rely on, however a write is carried out: disks are    *)
(* overwritten only by a job that was made ready first, never a protected  *)
(* disk, a job that is done leaves a whole image on a disk, and a job that *)
(* began ends.                                                             *)
(***************************************************************************)
CONSTANTS
  Disks,      \* the disks of the machine
  Contents,   \* what a disk may hold
  Whole       \* the contents that hold all of an image

VARIABLES job, content, protected

vars == <<job, content, protected>>

Init ==
  /\ job = "open"
  /\ content \in [Disks -> Contents]
  /\ protected \subseteq Disks

Ready ==
  /\ job # "writing" /\ job' = "ready"
  /\ UNCHANGED <<content, protected>>

\* The caller turned to something else, or was refused.
Withdraw ==
  /\ job # "writing" /\ job' = "open"
  /\ UNCHANGED <<content, protected>>

Begin ==
  /\ job = "ready" /\ job' = "writing"
  /\ UNCHANGED <<content, protected>>

Overwrite(d, c) ==
  /\ job = "writing" /\ d \notin protected
  /\ content' = [content EXCEPT ![d] = c]
  /\ UNCHANGED <<job, protected>>

Abandon ==
  /\ job = "writing" /\ job' = "open"
  /\ UNCHANGED <<content, protected>>

Complete ==
  /\ job = "writing" /\ job' = "done"
  /\ \E d \in Disks \ protected : content[d] \in Whole
  /\ UNCHANGED <<content, protected>>

End == Abandon \/ Complete

Next ==
  \/ Ready \/ Withdraw \/ Begin \/ End
  \/ \E d \in Disks, c \in Contents : Overwrite(d, c)

Spec == Init /\ [][Next]_vars /\ WF_vars(End)
=============================================================================
