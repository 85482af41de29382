----------------------------- MODULE IsoExtract -----------------------------
(***************************************************************************)
(* iso_extract_to_mountpoint: an image is put onto the mounted partition,  *)
(* either entry by entry through libarchive, or, for an image with a UDF   *)
(* file system, by a child running cp from a loop mount while the parent   *)
(* looks every five seconds (iso_extract.c:941-1438).                      *)
(*                                                                         *)
(* A place is a path on the partition.  Two names of an image that the     *)
(* partition's file system does not tell apart are the same place.  Data   *)
(* of a file is the number of the entry it came from, 0 if incomplete.     *)
(* A symbolic link is taken to lead to nothing on the partition.           *)
(***************************************************************************)
EXTENDS Naturals, Sequences

CONSTANTS
  Paths,      \* the places: paths on the partition
  Above,      \* Above[p]: the directories p is in
  Images,     \* [udf |-> BOOLEAN, entries |-> sequence of [kind, at]]
  MaxBytes    \* bound on the bytes of progress

Kinds == {"file",     \* a regular file with its data
          "twin",     \* a file whose data libarchive gave with an earlier one
          "dir", "link",
          "special",  \* device, pipe, socket or unknown
          "bad"}      \* no name, or one validate_iso_path refuses: absolute,
                      \* with ".." in it, or longer than PATH_MAX over there

ASSUME PathsAssumption == Above \in [Paths -> SUBSET Paths]
ASSUME ImagesAssumption ==
  \A im \in Images :
    /\ im.udf \in BOOLEAN
    /\ im.entries \in Seq([kind : Kinds, at : Paths])
    /\ im.udf => \A i, j \in 1..Len(im.entries) :
                  /\ im.entries[i].kind \in {"file", "dir"}
                  /\ im.entries[i].at = im.entries[j].at => i = j
ASSUME BytesAssumption == MaxBytes \in Nat

VARIABLES
  image,      \* the image being extracted
  pc,         \* where the parent is
  ret,        \* what the call returns, "none" before
  pos,        \* the entry at hand, of the archive or of cp
  node,       \* what is at each place
  holds,      \* the entry whose data a file has, 0 if not all of it
  tracked,    \* extracted_files_list_t
  cancelled,  \* the session's flag, which the callback returns
  shown,      \* bytes in the last progress report
  cp,         \* the child; "erring": it runs on but missed something
  loop        \* the temporary directory: gone, there, or with the image on it

treeVars == <<node, holds>>
vars == <<image, pc, ret, pos, node, holds, tracked, cancelled, shown, cp,
          loop>>

Results == {"none", "ok", "NOT_FOUND", "NOT_ISO", "FAILED", "ARCHIVE_ERROR"}

\* Every variable has its type, and the parent is past the child's end
\* wherever it is out of the waiting loop.
TypeOK ==
  /\ image \in Images
  /\ pc \in {"start", "header", "report", "poll", "reap", "umount", "done"}
  /\ ret \in Results
  /\ pos \in 1..Len(image.entries) + 1
  /\ node \in [Paths -> {"none", "dir", "link", "file"}]
  /\ holds \in [Paths -> 0..Len(image.entries)]
  /\ tracked \subseteq Paths
  /\ cancelled \in BOOLEAN
  /\ shown \in 0..MaxBytes
  /\ cp \in {"none", "running", "erring", "ok", "failed", "killed"}
  /\ loop \in {"none", "dir", "mounted"}

Init ==
  /\ image \in Images
  /\ pc = "start" /\ ret = "none" /\ pos = 1
  /\ node = [p \in Paths |-> "none"]
  /\ holds = [p \in Paths |-> 0]
  /\ tracked = {} /\ cancelled = FALSE /\ shown = 0
  /\ cp = "none" /\ loop = "none"

\* winafi_session_cancel, from another thread.
Cancel ==
  /\ pc # "done" /\ ~cancelled
  /\ cancelled' = TRUE
  /\ UNCHANGED <<image, pc, ret, pos, treeVars, tracked, shown, cp, loop>>

-----------------------------------------------------------------------------
(* The way through libarchive.                                             *)

Entry == image.entries[pos]
Here == Entry.at

\* ensure_directory creates what is missing from the top down; on a failure
\* some of it is there.  A file or link in the way stops it before that.
Blocked(ds) == \E d \in ds : node[d] \in {"link", "file"}
TopDown(ds) == {made \in SUBSET ds : \A d \in made : Above[d] \subseteq made}
MadeDirs(ds) == IF Blocked(ds) THEN {{}} ELSE TopDown(ds)
Ensured(ds, made) == ~Blocked(ds) /\ made = ds
WithDirs(made) == [p \in Paths |-> IF p \in made THEN "dir" ELSE node[p]]

\* extracted_files_list_remove_all.  unlinkat takes no flag but AT_REMOVEDIR:
\* with AT_SYMLINK_NOFOLLOW it returns EINVAL and the file stays.
Unlinked(places) == UNCHANGED treeVars

Return(code) == pc' = "done" /\ ret' = code

\* The checks of arguments, image and mount point, and the choice of the way.
StartArchive ==
  /\ pc = "start" /\ ~image.udf
  /\ \/ \E code \in {"NOT_FOUND", "FAILED", "NOT_ISO"} : Return(code)
     \/ pc' = "header" /\ UNCHANGED ret
  /\ UNCHANGED <<image, pos, treeVars, tracked, cancelled, shown, cp, loop>>

\* An error in the loop or after it: everything tracked is to be removed.
FailArchive(code) == Return(code) /\ UNCHANGED <<image, pos, cancelled, shown,
                                                 cp, loop>>

\* A mutant: whatever ended the archive, the extraction is a success.
ArchiveEndUnchecked ==
  /\ pc = "header"
  /\ \/ pos > Len(image.entries) /\ Return("ok")
     \/ Return("ok")
  /\ UNCHANGED <<image, pos, treeVars, tracked, cancelled, shown, cp, loop>>

\* archive_read_next_header does not return an entry: at the end, which is
\* reported with nobody looking at the answer, or because the image is
\* damaged there.
ArchiveEnd ==
  /\ pc = "header"
  /\ \/ /\ pos > Len(image.entries) /\ Return("ok")
        /\ shown' = MaxBytes /\ UNCHANGED treeVars
     \/ Return("ARCHIVE_ERROR") /\ Unlinked(tracked) /\ UNCHANGED shown
  /\ UNCHANGED <<image, pos, tracked, cancelled, cp, loop>>

AtEntry(kinds) ==
  pc = "header" /\ pos <= Len(image.entries) /\ Entry.kind \in kinds

\* A mutant: what is skipped takes the entry behind it along.
BadEntryTwice ==
  /\ AtEntry({"bad"})
  /\ pos' = pos + 2
  /\ UNCHANGED <<image, pc, ret, treeVars, tracked, cancelled, shown, cp, loop>>

\* Skipped without a progress report; the extraction goes on and can succeed.
\* A name that is too long ends here: the check of its length behind
\* validate_iso_path finds nothing that was not refused (iso_extract.c:1260).
BadEntry ==
  /\ AtEntry({"bad"})
  /\ pos' = pos + 1
  /\ UNCHANGED <<image, pc, ret, treeVars, tracked, cancelled, shown, cp, loop>>

SpecialEntry ==
  /\ AtEntry({"special"})
  /\ pc' = "report"
  /\ UNCHANGED <<image, ret, pos, treeVars, tracked, cancelled, shown, cp, loop>>

\* A directory that cannot be made is passed over.
DirEntry ==
  /\ AtEntry({"dir"})
  /\ \E made \in MadeDirs(Above[Here] \union {Here}) : node' = WithDirs(made)
  /\ pc' = "report"
  /\ UNCHANGED <<image, ret, pos, holds, tracked, cancelled, shown, cp, loop>>

\* A link that cannot be made is passed over, and tracked all the same.
LinkEntry ==
  /\ AtEntry({"link"})
  /\ \E made \in MadeDirs(Above[Here]) :
       \/ node' = WithDirs(made)
       \/ /\ Ensured(Above[Here], made) /\ node[Here] = "none"
          /\ node' = [WithDirs(made) EXCEPT ![Here] = "link"]
  /\ tracked' = tracked \union {Here}
  /\ pc' = "report"
  /\ UNCHANGED <<image, ret, pos, holds, cancelled, shown, cp, loop>>

\* O_TRUNC and O_NOFOLLOW: an older file loses its data, a link is refused.
CanOpen == node[Here] \in {"none", "file"}

\* A regular file is opened, filled and tracked; or its directory, the open
\* or the data fails, and what was tracked before is to be removed.
FileEntry ==
  /\ AtEntry({"file", "twin"})
  /\ \E made \in MadeDirs(Above[Here]) :
       \/ /\ FailArchive("FAILED") /\ UNCHANGED <<holds, tracked>>
          /\ node' = WithDirs(made)
       \/ /\ Ensured(Above[Here], made) /\ CanOpen
          /\ node' = [WithDirs(made) EXCEPT ![Here] = "file"]
          /\ holds' = [holds EXCEPT ![Here] = 0]
          /\ FailArchive("FAILED") /\ UNCHANGED tracked
       \/ /\ Ensured(Above[Here], made) /\ CanOpen
          /\ node' = [WithDirs(made) EXCEPT ![Here] = "file"]
          /\ holds' = [holds EXCEPT ![Here] =
                         IF Entry.kind = "twin" THEN 0 ELSE pos]
          /\ tracked' = tracked \union {Here}
          /\ pc' = "report"
          /\ UNCHANGED <<image, ret, pos, cancelled, shown, cp, loop>>

\* The callback after an entry.
Report ==
  /\ pc = "report"
  /\ shown' = IF pos > MaxBytes THEN MaxBytes ELSE pos
  /\ IF cancelled
     THEN Return("FAILED") /\ Unlinked(tracked) /\ UNCHANGED pos
     ELSE pc' = "header" /\ pos' = pos + 1 /\ UNCHANGED <<ret, treeVars>>
  /\ UNCHANGED <<image, tracked, cancelled, cp, loop>>

-----------------------------------------------------------------------------
(* The way through a loop mount and cp.                                    *)

\* mkdtemp, mount, the count of bytes and fork: what fails is undone.
StartUdf ==
  /\ pc = "start" /\ image.udf
  /\ \/ /\ \/ \E code \in {"NOT_FOUND", "FAILED"} :
                Return(code) /\ UNCHANGED loop
           \/ Return("FAILED") /\ loop' \in {"dir", "mounted"}
        /\ UNCHANGED cp
     \/ pc' = "poll" /\ loop' = "mounted" /\ cp' = "running" /\ UNCHANGED ret
  /\ UNCHANGED <<image, pos, treeVars, tracked, cancelled, shown>>

Running == cp \in {"running", "erring"}

\* What becomes of the entry at hand if cp does not finish it.
Unfinished ==
  IF pos <= Len(image.entries) /\ Entry.kind = "file"
     /\ \A d \in Above[Here] : node[d] = "dir"
  THEN node' \in {node, [node EXCEPT ![Here] = "file"]}
  ELSE UNCHANGED node

\* cp -r makes the next file or directory of the image.
CpEntry ==
  /\ Running /\ pos <= Len(image.entries)
  /\ \A d \in Above[Here] : node[d] = "dir"
  /\ node' = [node EXCEPT ![Here] = Entry.kind]
  /\ holds' = IF Entry.kind = "dir" THEN holds ELSE [holds EXCEPT ![Here] = pos]
  /\ pos' = pos + 1
  /\ UNCHANGED <<image, pc, ret, tracked, cancelled, shown, cp, loop>>

\* cp cannot make an entry, or not all of it, and goes on with the next.
CpMisses ==
  /\ Running /\ pos <= Len(image.entries)
  /\ cp' = "erring" /\ pos' = pos + 1
  /\ Unfinished
  /\ UNCHANGED <<image, pc, ret, holds, tracked, cancelled, shown, loop>>

\* It exits with 1 if it missed anything.
CpEnd ==
  /\ Running /\ pos > Len(image.entries)
  /\ cp' = IF cp = "running" THEN "ok" ELSE "failed"
  /\ UNCHANGED <<image, pc, ret, pos, treeVars, tracked, cancelled, shown, loop>>

\* A signal that is not the parent's ends it.
CpDies ==
  /\ Running /\ cp' = "killed"
  /\ Unfinished
  /\ UNCHANGED <<image, pc, ret, pos, holds, tracked, cancelled, shown, loop>>

\* The parent's SIGTERM arrives.
CpKilled ==
  /\ Running /\ pc = "reap"
  /\ cp' = "killed"
  /\ Unfinished
  /\ UNCHANGED <<image, pc, ret, pos, holds, tracked, cancelled, shown, loop>>

\* A mutant: the free space is reported as it is, without the maximum so far.
PollFreeSpace ==
  /\ pc = "poll" /\ Running
  /\ \E used \in 0..MaxBytes : shown' = used
  /\ pc' = IF cancelled THEN "reap" ELSE "poll"
  /\ UNCHANGED <<image, ret, pos, treeVars, tracked, cancelled, cp, loop>>

\* A mutant: the callback's answer is not looked at.
PollDeaf ==
  /\ pc = "poll" /\ Running
  /\ \E used \in 0..MaxBytes : shown' = IF used > shown THEN used ELSE shown
  /\ UNCHANGED <<image, pc, ret, pos, treeVars, tracked, cancelled, cp, loop>>

\* A mutant: after the kill the child is not waited for.
PollNoWait ==
  /\ pc = "poll" /\ Running
  /\ \E used \in 0..MaxBytes : shown' = IF used > shown THEN used ELSE shown
  /\ IF cancelled THEN pc' = "umount" /\ ret' = "FAILED"
     ELSE UNCHANGED <<pc, ret>>
  /\ UNCHANGED <<image, pos, treeVars, tracked, cancelled, cp, loop>>

\* One look while cp runs: the free space has fallen by anything since the
\* start, the most so far is reported, and the callback's refusal kills cp.
Poll ==
  /\ pc = "poll" /\ Running
  /\ \E used \in 0..MaxBytes : shown' = IF used > shown THEN used ELSE shown
  /\ pc' = IF cancelled THEN "reap" ELSE "poll"
  /\ UNCHANGED <<image, ret, pos, treeVars, tracked, cancelled, cp, loop>>

\* waitpid after the kill.
Reap ==
  /\ pc = "reap" /\ ~Running
  /\ pc' = "umount" /\ ret' = "FAILED"
  /\ UNCHANGED <<image, pos, treeVars, tracked, cancelled, shown, cp, loop>>

\* A mutant: how cp has ended is not looked at.
CollectAnyExit ==
  /\ pc = "poll" /\ ~Running
  /\ pc' = "umount" /\ ret' = "ok"
  /\ UNCHANGED <<image, pos, treeVars, tracked, cancelled, shown, cp, loop>>

\* waitpid finds that cp has ended.
Collect ==
  /\ pc = "poll" /\ ~Running
  /\ pc' = "umount"
  /\ ret' = IF cp = "ok" THEN "ok" ELSE "FAILED"
  /\ UNCHANGED <<image, pos, treeVars, tracked, cancelled, shown, cp, loop>>

\* umount and rmdir, whose results nobody looks at.
UdfUnmount ==
  /\ pc = "umount"
  /\ loop' \in {"none", "dir", "mounted"}
  /\ pc' = "done"
  /\ UNCHANGED <<image, ret, pos, treeVars, tracked, cancelled, shown, cp>>

-----------------------------------------------------------------------------
Returned == pc = "done" /\ ~Running /\ UNCHANGED vars

Archive ==
  \/ StartArchive \/ ArchiveEnd \/ BadEntry \/ SpecialEntry
  \/ DirEntry \/ LinkEntry \/ FileEntry \/ Report
Udf == StartUdf \/ Poll \/ Reap \/ Collect \/ UdfUnmount
Cp == CpEntry \/ CpMisses \/ CpEnd \/ CpDies
Next == Archive \/ Udf \/ Cp \/ CpKilled \/ Cancel \/ Returned

\* The calling thread runs on and a killed cp ends; nothing is assumed of a
\* cp that was not killed, which may hang on a slow disk.
Fairness == WF_vars(Archive) /\ WF_vars(Udf) /\ WF_vars(CpKilled)

Spec == Init /\ [][Next]_vars /\ Fairness

-----------------------------------------------------------------------------
(* Properties.                                                             *)

\* Of the first n entries, those that were opened as regular files at a place.
Takers(p, n) ==
  {i \in 1..n : /\ image.entries[i].kind \in {"file", "twin"}
                /\ image.entries[i].at = p}

\* There is a file where one of them was and nowhere else, and it has the data
\* of the last of them: all of it, or none if libarchive gave it with another.
WholeUpTo(n) ==
  \A p \in Paths :
    /\ node[p] = "file" <=> Takers(p, n) # {}
    /\ \A i \in Takers(p, n) :
         (\A j \in Takers(p, n) : j <= i) =>
           holds[p] = IF image.entries[i].kind = "file" THEN i ELSE 0

Whole == WholeUpTo(Len(image.entries))

\* What ISO_OK means, to the file: each name that validate_iso_path lets pass
\* as a regular file is there, and holds the data of the last entry of that
\* name.  It is less than "Success, all files extracted" (iso_extract.h:277),
\* and the model says so: the file of a refused name is missing, a second name
\* of a hard-linked file is empty, of colliding names the last one wins, and
\* directories and links may be missing (iso_extract.c:1162-1170, 1237-1257,
\* 1281-1287, 1311-1315, 1341-1372, 1412-1416).
OkMeansWhole == ret = "ok" => Whole

\* cp does not write on behind the caller's back: it has ended before the
\* parent unmounts the image and returns (iso_extract.c:1151-1156).
CopyEndsFirst == pc \in {"umount", "done"} => ~Running

\* The progress of an extraction never goes back, though the free space of
\* the partition may grow (iso_extract.c:1129-1141).
ProgressForward == [][shown' >= shown]_shown

\* A cancel is heeded within a report, even if cp hangs
\* (iso_extract.c:1143-1157, 1387-1405).
CancelHeeded == cancelled ~> pc = "done"
-----------------------------------------------------------------------------
(* The extraction as what a session sees of it: the steps of execute from  *)
(* the mounts to the customization or the error label.                     *)

Failed == pc = "done" /\ ret # "ok"
AllOut == pc = "done" /\ ret = "ok" /\ Whole

\* Of the images, let those with a UDF file system be Windows'.
Os == [im \in Images |-> IF im.udf THEN "windows" ELSE "linux"]

Stage ==
  CASE pc # "done" -> "extract"
    [] pc = "done" /\ ret = "ok" -> IF image.udf THEN "customize" ELSE "boot"
    [] Failed -> "cleanup"

\* The disk holds an extraction only once all of the image is there.
Content == CASE pc = "start" -> "wiped" [] AllOut -> "extracted"
             [] OTHER -> "partial"

Stick == {"stick"}

S == INSTANCE Session WITH
       Disks <- Stick, NoDisk <- "nodisk", Names <- {"sdx"}, Layouts <- {{}},
       HotPlug <- FALSE, MaxEvents <- 0, ISOs <- Images, NoIso <- "noiso",
       OsOf <- Os, SizeOf <- [im \in Images |-> 0],
       CapacityOf <- [d \in Stick |-> 0], NodeTries <- 0, MaxRuns <- 1,
       MaxCrashes <- 0,
       at <- [n \in {"sdx"} |-> "stick"],
       claims <- [d \in Stick |-> [place : {"p1", "p2"}, kind : {"ours"}]],
       isRoot <- TRUE, events <- 0,
       state <- IF Failed THEN "ERROR" ELSE "EXECUTING",
       error <- IF ~Failed THEN "none"
                ELSE IF cancelled THEN "E-30-C" ELSE "E-30-A",
       iso <- image, devices <- [n \in {"sdx"} |-> "stick"],
       selected <- "sdx", stage <- Stage, tries <- 0,
       fatMp <- "stick", ntfsMp <- "stick", dirs <- "empty",
       content <- [d \in Stick |-> Content],
       dirty <- IF pc = "start" THEN {} ELSE Stick \X {"p2"},
       nodes <- TRUE, isoThere <- Images, runs <- 1, crashes <- 0

\* Entry by entry or through cp, whatever fails, is skipped or is cancelled at
\* whatever time, the call is what session.c takes it for: it is under way
\* until it is over, with its data partial, then execute goes on with
\* everything on the disk, or it goes to its error label, where a cancel is
\* told from an error (session.c:586-612, iso_extract.c:941-1438).
ExtractsForSession ==
  [][S!ExtractEntry \/ S!ExtractEnd \/ S!Cancel]_(S!vars)
=============================================================================
