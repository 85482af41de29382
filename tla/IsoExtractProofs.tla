--------------------------- MODULE IsoExtractProofs ---------------------------
(***************************************************************************)
(* Theorems about the extraction, for any image, places and bounds.        *)
(***************************************************************************)
EXTENDS IsoExtract, SequenceTheorems, TLAPS

N == Len(image.entries)

\* Which way the parent goes and where the child can be: it is started on the
\* way through UDF only, and collected before the parent goes on.
WayInv ==
  /\ pc \in {"start", "header", "report"} => cp = "none"
  /\ pc \in {"header", "report"} => ~image.udf
  /\ cp # "none" => image.udf
  /\ pc = "start" => pos = 1
  /\ pc = "report" => pos <= N
  /\ CopyEndsFirst
  /\ ret = "ok" => pc \in {"umount", "done"}

\* WholeUpTo(n) of what is there before a step, or after it.
Kept(n, nodes, data) ==
  \A p \in Paths :
    /\ nodes[p] = "file" <=> Takers(p, n) # {}
    /\ \A i \in Takers(p, n) :
         (\A j \in Takers(p, n) : j <= i) =>
           data[p] = IF image.entries[i].kind = "file" THEN i ELSE 0

\* How far the extraction has come, as long as nothing went wrong.
KeptInv ==
  /\ pc = "start" => Kept(0, node, holds)
  /\ pc = "header" => Kept(pos - 1, node, holds)
  /\ pc = "report" => Kept(pos, node, holds)
  /\ cp \in {"running", "ok"} => Kept(pos - 1, node, holds)
  /\ cp = "ok" => pos > N
  /\ ret = "ok" => Kept(N, node, holds)

ExtractInv == TypeOK /\ WayInv /\ KeptInv

-----------------------------------------------------------------------------
\* What the images are made of.
LEMMA EntriesOf ==
  ASSUME TypeOK
  PROVE  /\ N \in Nat
         /\ \A i \in 1..N : image.entries[i].kind \in Kinds
                            /\ image.entries[i].at \in Paths
         /\ image.udf => \A i \in 1..N : image.entries[i].kind \in {"file", "dir"}
         /\ image.udf => \A i, j \in 1..N :
              image.entries[i].at = image.entries[j].at => i = j
<1>1. image \in Images
  BY DEF TypeOK
<1>2. image.entries \in Seq([kind : Kinds, at : Paths])
  BY <1>1, ImagesAssumption
<1>3. N \in Nat
  BY <1>2, LenProperties DEF N
<1>4. \A i \in 1..N : image.entries[i] \in [kind : Kinds, at : Paths]
  BY <1>2, ElementOfSeq DEF N
<1>5. image.udf => \A i, j \in 1..N :
        /\ image.entries[i].kind \in {"file", "dir"}
        /\ image.entries[i].at = image.entries[j].at => i = j
  BY <1>1, ImagesAssumption DEF N
<1> QED
  BY <1>3, <1>4, <1>5

\* An entry that is no file and leaves the files alone keeps what is there.
LEMMA KeptNext ==
  ASSUME TypeOK, NEW n \in Nat, Kept(n, node, holds), n + 1 <= N,
         image.entries[n + 1].kind \notin {"file", "twin"},
         \A p \in Paths : node[p] = "file" <=> node'[p] = "file",
         holds' = holds
  PROVE  Kept(n + 1, node', holds')
<1>1. \A p \in Paths : Takers(p, n + 1) = Takers(p, n)
  BY DEF Takers
<1> QED
  BY <1>1 DEF Kept

\* A file takes its place, with its data or, if it is a twin, without.
LEMMA KeptFile ==
  ASSUME TypeOK, NEW n \in Nat, Kept(n, node, holds), n + 1 <= N,
         NEW at \in Paths, image.entries[n + 1].at = at,
         image.entries[n + 1].kind \in {"file", "twin"},
         \A p \in Paths \ {at} : /\ node[p] = "file" <=> node'[p] = "file"
                                 /\ holds'[p] = holds[p],
         node'[at] = "file",
         holds'[at] = IF image.entries[n + 1].kind = "file" THEN n + 1 ELSE 0
  PROVE  Kept(n + 1, node', holds')
<1>1. \A p \in Paths \ {at} : Takers(p, n + 1) = Takers(p, n)
  BY DEF Takers
<1>2. n + 1 \in Takers(at, n + 1) /\ \A i \in Takers(at, n + 1) : i <= n + 1
  BY DEF Takers
<1>3. \A i \in Takers(at, n + 1) :
        (\A j \in Takers(at, n + 1) : j <= i) => i = n + 1
  BY <1>2 DEF Takers
<1>4. ASSUME NEW p \in Paths
      PROVE  /\ node'[p] = "file" <=> Takers(p, n + 1) # {}
             /\ \A i \in Takers(p, n + 1) :
                  (\A j \in Takers(p, n + 1) : j <= i) =>
                    holds'[p] = IF image.entries[i].kind = "file" THEN i ELSE 0
  <2>1. CASE p = at
    BY <1>2, <1>3, <2>1
  <2>2. CASE p # at
    BY <1>1, <2>2 DEF Kept
  <2> QED
    BY <2>1, <2>2
<1> QED
  BY <1>4 DEF Kept

\* Directories are made where nothing else is.
LEMMA DirsKeepFiles ==
  ASSUME TypeOK, NEW ds \in SUBSET Paths, NEW made \in MadeDirs(ds)
  PROVE  /\ made \in SUBSET Paths
         /\ WithDirs(made) \in [Paths -> {"none", "dir", "link", "file"}]
         /\ \A p \in Paths : node[p] = "file" <=> WithDirs(made)[p] = "file"
BY DEF MadeDirs, TopDown, Blocked, WithDirs, TypeOK

\* What an entry of a kind says of the step that treats it.
LEMMA AtEntryFacts ==
  ASSUME TypeOK, NEW kinds, AtEntry(kinds)
  PROVE  /\ pc = "header" /\ pos \in 1..N /\ pos - 1 \in Nat
         /\ Entry = image.entries[pos] /\ Entry.kind \in kinds
         /\ Here \in Paths /\ Above[Here] \in SUBSET Paths
         /\ N \in Nat
BY EntriesOf, PathsAssumption DEF AtEntry, Entry, Here, TypeOK, N

-----------------------------------------------------------------------------
(* The way through libarchive.                                             *)

LEMMA StartArchiveInv == ExtractInv /\ StartArchive => ExtractInv'
<1> SUFFICES ASSUME ExtractInv, StartArchive PROVE ExtractInv'
  OBVIOUS
<1> USE DEF ExtractInv, StartArchive, treeVars, Return
<1>1. TypeOK'
  BY DEF TypeOK, Results
<1>2. WayInv'
  BY DEF WayInv, CopyEndsFirst, Running, N
<1>3. pos = 1 /\ cp = "none" /\ ret # "ok" /\ ret' # "ok"
  BY DEF WayInv
<1>4. Kept(0, node', holds')
  <2>1. Kept(0, node, holds) /\ node' = node /\ holds' = holds
    BY DEF KeptInv
  <2> QED
    BY <2>1
<1>5. KeptInv'
  BY <1>3, <1>4 DEF KeptInv, Kept, Takers, N
<1> QED
  BY <1>1, <1>2, <1>5

\* At the end all entries are behind.
LEMMA ArchiveEndInv == ExtractInv /\ ArchiveEnd => ExtractInv'
<1> SUFFICES ASSUME ExtractInv, ArchiveEnd PROVE ExtractInv'
  OBVIOUS
<1> USE DEF ExtractInv, ArchiveEnd, treeVars, Return, Unlinked
<1>0. pc = "header" /\ cp = "none" /\ UNCHANGED <<image, pos, cp, node, holds>>
  BY DEF WayInv
<1>1. TypeOK'
  BY BytesAssumption DEF TypeOK, Results
<1>2. WayInv'
  BY <1>0 DEF WayInv, CopyEndsFirst, Running
<1>3. ASSUME ret' = "ok" PROVE Kept(N, node', holds')
  <2>1. pos > N
    BY <1>0, <1>3 DEF WayInv, N
  <2>2. pos - 1 = N
    BY <2>1, EntriesOf DEF TypeOK, N
  <2> QED
    BY <1>0, <2>2 DEF KeptInv, Kept, Takers, N
<1>4. KeptInv'
  BY <1>0, <1>3 DEF KeptInv, Kept, Takers, N
<1> QED
  BY <1>1, <1>2, <1>4

\* An entry that is done with: what is common to all kinds.
LEMMA EntryDone ==
  ASSUME ExtractInv, NEW kinds, AtEntry(kinds), pc' = "report",
         UNCHANGED <<image, ret, pos, cancelled, shown, cp, loop>>,
         node' \in [Paths -> {"none", "dir", "link", "file"}],
         holds' \in [Paths -> 0..N], tracked' \subseteq Paths,
         Kept(pos, node', holds')
  PROVE  ExtractInv'
<1>1. pos \in 1..N
  BY AtEntryFacts DEF ExtractInv
<1>2. TypeOK'
  BY DEF ExtractInv, TypeOK, N
<1>3. WayInv'
  BY <1>1 DEF ExtractInv, WayInv, AtEntry, CopyEndsFirst, Running, N
<1>4. cp = "none" /\ ret # "ok"
  BY DEF ExtractInv, WayInv, AtEntry
<1>5. KeptInv'
  BY <1>4 DEF KeptInv, Kept, Takers
<1> QED
  BY <1>2, <1>3, <1>5 DEF ExtractInv

\* What Kept says of the entries before the one at hand.
LEMMA KeptBefore ==
  ASSUME ExtractInv, NEW kinds, AtEntry(kinds)
  PROVE  Kept(pos - 1, node, holds)
BY DEF ExtractInv, KeptInv, AtEntry

\* An entry whose treatment leaves all files alone.
LEMMA PassedOver ==
  ASSUME ExtractInv, NEW kinds, AtEntry(kinds),
         kinds \intersect {"file", "twin"} = {},
         \A p \in Paths : node[p] = "file" <=> node'[p] = "file",
         holds' = holds
  PROVE  Kept(pos, node', holds')
<1>1. /\ pos \in 1..N /\ pos - 1 \in Nat /\ N \in Nat
      /\ image.entries[pos].kind \in kinds
  BY AtEntryFacts DEF ExtractInv
<1> DEFINE n == pos - 1
<1>2. n \in Nat /\ n + 1 = pos /\ Kept(n, node, holds) /\ TypeOK
  BY <1>1, KeptBefore DEF ExtractInv
<1> HIDE DEF n
<1>3. Kept(n + 1, node', holds')
  BY <1>1, <1>2, KeptNext
<1> QED
  BY <1>2, <1>3

LEMMA BadEntryInv == ExtractInv /\ BadEntry => ExtractInv'
<1> SUFFICES ASSUME ExtractInv, BadEntry PROVE ExtractInv'
  OBVIOUS
<1>0. AtEntry({"bad"}) /\ TypeOK /\ WayInv /\ KeptInv
  BY DEF BadEntry, ExtractInv
<1>1. /\ pc = "header" /\ pos \in 1..N /\ pos - 1 \in Nat /\ N \in Nat
      /\ image.entries[pos].kind = "bad"
  BY <1>0, AtEntryFacts
<1>2. /\ UNCHANGED <<image, pc, ret, node, holds, tracked, cancelled, shown, cp, loop>>
      /\ pos' = pos + 1
  BY DEF BadEntry, treeVars
<1>3. cp = "none" /\ ret # "ok"
  BY <1>0, <1>1 DEF WayInv
<1>4. TypeOK'
  BY <1>0, <1>1, <1>2 DEF TypeOK, N
<1>5. WayInv'
  BY <1>0, <1>1, <1>2 DEF WayInv, CopyEndsFirst, Running, N
<1>6. Kept(pos, node', holds')
  <2>1. \A p \in Paths : node[p] = "file" <=> node'[p] = "file"
    BY <1>2
  <2> QED
    BY <1>0, <1>2, <2>1, PassedOver
<1>7. KeptInv'
  <2>1. pos' - 1 = pos
    BY <1>1, <1>2
  <2>2. Kept(pos' - 1, node', holds')
    BY <1>6, <2>1
  <2> QED
    BY <1>1, <1>2, <1>3, <2>2 DEF KeptInv, Kept, Takers
<1> QED
  BY <1>4, <1>5, <1>7 DEF ExtractInv

LEMMA SpecialEntryInv == ExtractInv /\ SpecialEntry => ExtractInv'
<1> SUFFICES ASSUME ExtractInv, SpecialEntry PROVE ExtractInv'
  OBVIOUS
<1>1. AtEntry({"special"}) /\ pc' = "report"
      /\ UNCHANGED <<image, ret, pos, node, holds, tracked, cancelled, shown,
                     cp, loop>>
  BY DEF SpecialEntry, treeVars
<1>2. Kept(pos, node', holds')
  BY <1>1, PassedOver
<1>3. /\ node' \in [Paths -> {"none", "dir", "link", "file"}]
      /\ holds' \in [Paths -> 0..N] /\ tracked' \subseteq Paths
  BY <1>1 DEF ExtractInv, TypeOK, N
<1> QED
  BY <1>1, <1>2, <1>3, EntryDone

LEMMA DirEntryInv == ExtractInv /\ DirEntry => ExtractInv'
<1> SUFFICES ASSUME ExtractInv, DirEntry PROVE ExtractInv'
  OBVIOUS
<1>1. AtEntry({"dir"}) /\ pc' = "report"
      /\ UNCHANGED <<image, ret, pos, holds, tracked, cancelled, shown, cp, loop>>
  BY DEF DirEntry
<1>2. Here \in Paths /\ Above[Here] \in SUBSET Paths
  BY <1>1, AtEntryFacts DEF ExtractInv
<1>3. PICK made \in MadeDirs(Above[Here] \union {Here}) : node' = WithDirs(made)
  BY DEF DirEntry
<1>4. /\ node' \in [Paths -> {"none", "dir", "link", "file"}]
      /\ \A p \in Paths : node[p] = "file" <=> node'[p] = "file"
  BY <1>2, <1>3, DirsKeepFiles DEF ExtractInv
<1>5. Kept(pos, node', holds')
  BY <1>1, <1>4, PassedOver
<1>6. holds' \in [Paths -> 0..N] /\ tracked' \subseteq Paths
  BY <1>1 DEF ExtractInv, TypeOK, N
<1> QED
  BY <1>1, <1>4, <1>5, <1>6, EntryDone

LEMMA LinkEntryInv == ExtractInv /\ LinkEntry => ExtractInv'
<1> SUFFICES ASSUME ExtractInv, LinkEntry PROVE ExtractInv'
  OBVIOUS
<1>1. AtEntry({"link"}) /\ pc' = "report" /\ tracked' = tracked \union {Here}
      /\ UNCHANGED <<image, ret, pos, holds, cancelled, shown, cp, loop>>
  BY DEF LinkEntry
<1>2. Here \in Paths /\ Above[Here] \in SUBSET Paths
  BY <1>1, AtEntryFacts DEF ExtractInv
<1>3. PICK made \in MadeDirs(Above[Here]) :
        \/ node' = WithDirs(made)
        \/ node[Here] = "none" /\ node' = [WithDirs(made) EXCEPT ![Here] = "link"]
  BY DEF LinkEntry
<1>4. /\ WithDirs(made) \in [Paths -> {"none", "dir", "link", "file"}]
      /\ \A p \in Paths : node[p] = "file" <=> WithDirs(made)[p] = "file"
  BY <1>2, DirsKeepFiles DEF ExtractInv
<1>5. /\ node' \in [Paths -> {"none", "dir", "link", "file"}]
      /\ \A p \in Paths : node[p] = "file" <=> node'[p] = "file"
  BY <1>2, <1>3, <1>4
<1>6. Kept(pos, node', holds')
  BY <1>1, <1>5, PassedOver
<1>7. holds' \in [Paths -> 0..N] /\ tracked' \subseteq Paths
  BY <1>1, <1>2 DEF ExtractInv, TypeOK, N
<1> QED
  BY <1>1, <1>5, <1>6, <1>7, EntryDone

LEMMA FileEntryInv == ExtractInv /\ FileEntry => ExtractInv'
<1> SUFFICES ASSUME ExtractInv, FileEntry PROVE ExtractInv'
  OBVIOUS
<1>0. AtEntry({"file", "twin"})
  BY DEF FileEntry
<1>1. /\ pc = "header" /\ pos \in 1..N /\ pos - 1 \in Nat /\ N \in Nat
      /\ Entry = image.entries[pos] /\ Entry.kind \in {"file", "twin"}
      /\ Here \in Paths /\ Above[Here] \in SUBSET Paths
  BY <1>0, AtEntryFacts DEF ExtractInv
<1>2. PICK made \in MadeDirs(Above[Here]) :
       \/ /\ FailArchive("FAILED") /\ UNCHANGED <<holds, tracked>>
          /\ node' = WithDirs(made)
       \/ /\ node' = [WithDirs(made) EXCEPT ![Here] = "file"]
          /\ holds' = [holds EXCEPT ![Here] = 0]
          /\ FailArchive("FAILED") /\ UNCHANGED tracked
       \/ /\ node' = [WithDirs(made) EXCEPT ![Here] = "file"]
          /\ holds' = [holds EXCEPT ![Here] =
                         IF Entry.kind = "twin" THEN 0 ELSE pos]
          /\ tracked' = tracked \union {Here}
          /\ pc' = "report"
          /\ UNCHANGED <<image, ret, pos, cancelled, shown, cp, loop>>
  BY DEF FileEntry
<1>3. /\ WithDirs(made) \in [Paths -> {"none", "dir", "link", "file"}]
      /\ \A p \in Paths : node[p] = "file" <=> WithDirs(made)[p] = "file"
  BY <1>1, DirsKeepFiles DEF ExtractInv
<1>4. holds \in [Paths -> 0..N] /\ tracked \subseteq Paths
  BY DEF ExtractInv, TypeOK, N
<1>5. /\ node' \in [Paths -> {"none", "dir", "link", "file"}]
      /\ holds' \in [Paths -> 0..N] /\ tracked' \subseteq Paths
  BY <1>1, <1>2, <1>3, <1>4
<1>6. CASE FailArchive("FAILED")
  <2>1. TypeOK'
    BY <1>5, <1>6 DEF ExtractInv, TypeOK, FailArchive, Return, Results, N
  <2>2. cp = "none"
    BY <1>1 DEF ExtractInv, WayInv
  <2>3. WayInv' /\ KeptInv'
    BY <1>6, <2>2 DEF FailArchive, Return, ExtractInv, WayInv, KeptInv,
       CopyEndsFirst, Running
  <2> QED
    BY <2>1, <2>3 DEF ExtractInv
<1>7. CASE ~FailArchive("FAILED")
  <2>1. /\ node' = [WithDirs(made) EXCEPT ![Here] = "file"]
        /\ holds' = [holds EXCEPT ![Here] =
                       IF Entry.kind = "twin" THEN 0 ELSE pos]
        /\ pc' = "report"
        /\ UNCHANGED <<image, ret, pos, cancelled, shown, cp, loop>>
    BY <1>2, <1>7
  <2>2. Here = image.entries[pos].at
    BY <1>1 DEF Here
  <2>3. \A p \in Paths \ {Here} : /\ node[p] = "file" <=> node'[p] = "file"
                                  /\ holds'[p] = holds[p]
    BY <1>3, <1>4, <2>1
  <2>4. /\ node'[Here] = "file"
        /\ holds'[Here] = IF Entry.kind = "file" THEN pos ELSE 0
    BY <1>1, <1>3, <1>4, <2>1
  <2>5. (pos - 1) + 1 = pos
    BY <1>1
  <2>6. Kept(pos, node', holds')
    <3> DEFINE n == pos - 1
    <3>1. n \in Nat /\ Kept(n, node, holds) /\ n + 1 = pos
      BY <1>0, <1>1, <2>5, KeptBefore
    <3> HIDE DEF n
    <3>2. /\ n + 1 <= N /\ image.entries[n + 1].kind \in {"file", "twin"}
          /\ image.entries[n + 1].at = Here /\ Here \in Paths
          /\ holds'[Here] =
               IF image.entries[n + 1].kind = "file" THEN n + 1 ELSE 0
      BY <1>1, <2>2, <2>3, <2>4, <3>1
    <3>3. TypeOK
      BY DEF ExtractInv
    <3>4. Kept(n + 1, node', holds')
      BY <2>3, <2>4, <3>1, <3>2, <3>3, KeptFile
    <3> QED
      BY <3>1, <3>4
  <2> QED
    BY <1>0, <1>5, <2>1, <2>6, EntryDone
<1> QED
  BY <1>6, <1>7

LEMMA ReportInv == ExtractInv /\ Report => ExtractInv'
<1> SUFFICES ASSUME ExtractInv, Report PROVE ExtractInv'
  OBVIOUS
<1> USE DEF ExtractInv, Report, Return, Unlinked, treeVars
<1>0. pos \in Nat /\ pos <= N /\ N \in Nat /\ pos \in 1..N + 1 /\ cp = "none"
      /\ ret # "ok" /\ UNCHANGED <<image, node, holds, cp>>
  BY EntriesOf DEF TypeOK, WayInv, N
<1>1. TypeOK'
  <2>1. shown' \in 0..MaxBytes
    BY <1>0, BytesAssumption DEF TypeOK
  <2>2. pos' \in 1..Len(image'.entries) + 1
    BY <1>0 DEF N
  <2> QED
    BY <2>1, <2>2 DEF TypeOK, Results
<1>2. WayInv'
  BY <1>0 DEF WayInv, CopyEndsFirst, Running
<1>3. KeptInv'
  <2>1. ret' # "ok" /\ pc' # "report"
    BY <1>0
  <2>2. ASSUME pc' = "header" PROVE Kept(pos' - 1, node', holds')
    <3>1. pos' - 1 = pos /\ Kept(pos, node, holds)
      BY <1>0, <2>2 DEF KeptInv
    <3> QED
      BY <1>0, <3>1
  <2> QED
    BY <1>0, <2>1, <2>2 DEF KeptInv, Kept, Takers
<1> QED
  BY <1>1, <1>2, <1>3

LEMMA ArchiveInv == ExtractInv /\ Archive => ExtractInv'
BY StartArchiveInv, ArchiveEndInv, BadEntryInv, SpecialEntryInv,
   DirEntryInv, LinkEntryInv, FileEntryInv, ReportInv DEF Archive

-----------------------------------------------------------------------------
(* The way through the loop mount.                                         *)

LEMMA StartUdfInv == ExtractInv /\ StartUdf => ExtractInv'
<1> SUFFICES ASSUME ExtractInv, StartUdf PROVE ExtractInv'
  OBVIOUS
<1> USE DEF ExtractInv, StartUdf, Return, treeVars
<1>0. pos = 1 /\ cp = "none" /\ ret # "ok" /\ ret' # "ok"
      /\ UNCHANGED <<image, pos>>
  BY DEF WayInv
<1>1. TypeOK'
  BY DEF TypeOK, Results
<1>2. WayInv'
  BY <1>0 DEF WayInv, CopyEndsFirst, Running
<1>3. Kept(0, node', holds') /\ cp' # "ok"
  <2>1. Kept(0, node, holds) /\ node' = node /\ holds' = holds
    BY DEF KeptInv
  <2> QED
    BY <1>0, <2>1
<1>4. KeptInv'
  BY <1>0, <1>3 DEF KeptInv, Kept, Takers, N
<1> QED
  BY <1>1, <1>2, <1>4

\* What the child has made stays when it goes no further.
LEMMA UdfInv == ExtractInv /\ Udf => ExtractInv'
<1> SUFFICES ASSUME ExtractInv, Udf PROVE ExtractInv'
  OBVIOUS
<1>1. CASE StartUdf
  BY <1>1, StartUdfInv
<1>2. CASE Poll
  <2>1. shown' \in 0..MaxBytes
    BY <1>2 DEF Poll, ExtractInv, TypeOK
  <2>2. TypeOK'
    BY <1>2, <2>1 DEF Poll, ExtractInv, TypeOK, treeVars
  <2>3. WayInv' /\ KeptInv'
    BY <1>2 DEF Poll, ExtractInv, WayInv, KeptInv, Kept, Takers, CopyEndsFirst, Running, N,
       treeVars
  <2> QED
    BY <2>2, <2>3 DEF ExtractInv
<1>3. CASE Reap \/ UdfUnmount
  <2>1. TypeOK'
    BY <1>3 DEF Reap, UdfUnmount, ExtractInv, TypeOK, treeVars, Results
  <2>2. WayInv' /\ KeptInv'
    BY <1>3 DEF Reap, UdfUnmount, ExtractInv, WayInv, KeptInv, Kept, Takers,
       CopyEndsFirst, Running, N, treeVars
  <2> QED
    BY <2>1, <2>2 DEF ExtractInv
<1>4. CASE Collect
  <2> USE <1>4 DEF ExtractInv, Collect, treeVars
  <2>1. TypeOK'
    BY DEF TypeOK, Results
  <2>2. WayInv'
    BY DEF WayInv, CopyEndsFirst, Running, N
  <2>3. ASSUME cp = "ok" PROVE Kept(N, node', holds')
    <3>1. pos > N /\ Kept(pos - 1, node, holds)
      BY <2>3 DEF KeptInv
    <3>2. pos - 1 = N
      BY <3>1, EntriesOf DEF TypeOK, N
    <3> QED
      BY <3>1, <3>2 DEF Kept, Takers, N
  <2>4. KeptInv'
    BY <2>3 DEF KeptInv, Kept, Takers, N
  <2> QED
    BY <2>1, <2>2, <2>4
<1> QED
  BY <1>1, <1>2, <1>3, <1>4 DEF Udf

LEMMA UnfinishedTypes ==
  ASSUME TypeOK, Unfinished
  PROVE  node' \in [Paths -> {"none", "dir", "link", "file"}]
BY DEF TypeOK, Unfinished

LEMMA CpEntryInv == ExtractInv /\ CpEntry => ExtractInv'
<1> SUFFICES ASSUME ExtractInv, CpEntry PROVE ExtractInv'
  OBVIOUS
<1>0. /\ image.udf /\ N \in Nat /\ pos \in 1..N /\ pos - 1 \in Nat
      /\ Entry = image.entries[pos] /\ Here = image.entries[pos].at
      /\ Here \in Paths /\ Entry.kind \in {"file", "dir"}
      /\ pos' = pos + 1 /\ cp # "ok" /\ cp # "none"
      /\ UNCHANGED <<image, pc, ret, tracked, cancelled, shown, cp, loop>>
  <2>1. image.udf
    BY DEF ExtractInv, WayInv, CpEntry, Running
  <2>2. N \in Nat /\ pos \in 1..N /\ pos - 1 \in Nat
    BY EntriesOf DEF ExtractInv, CpEntry, TypeOK, N
  <2>3. Here \in Paths /\ Entry.kind \in {"file", "dir"}
    BY <2>1, <2>2, EntriesOf DEF ExtractInv, Here, Entry
  <2> QED
    BY <2>1, <2>2, <2>3 DEF CpEntry, Running, Entry, Here
<1>1. node' = [node EXCEPT ![Here] = Entry.kind]
      /\ holds' = IF Entry.kind = "dir" THEN holds ELSE [holds EXCEPT ![Here] = pos]
  BY DEF CpEntry
<1>2. TypeOK'
  <2>1. node' \in [Paths -> {"none", "dir", "link", "file"}]
    BY <1>0, <1>1 DEF ExtractInv, TypeOK
  <2>2. holds' \in [Paths -> 0..N]
    BY <1>0, <1>1 DEF ExtractInv, TypeOK, N
  <2>3. pos' \in 1..N + 1
    BY <1>0
  <2> QED
    BY <1>0, <2>1, <2>2, <2>3 DEF ExtractInv, TypeOK, N
<1>3. pc \in {"poll", "reap"}
  BY DEF ExtractInv, WayInv, CpEntry, Running, CopyEndsFirst, TypeOK
<1>4. WayInv'
  BY <1>0, <1>3 DEF ExtractInv, WayInv, CopyEndsFirst
<1>5. ASSUME cp = "running" PROVE Kept(pos, node', holds')
  <2> DEFINE n == pos - 1
  <2>1. n \in Nat /\ n + 1 = pos /\ Kept(n, node, holds) /\ TypeOK
    BY <1>0, <1>5 DEF ExtractInv, KeptInv
  <2>2. Takers(Here, n) = {}
    BY <1>0, EntriesOf DEF ExtractInv, Takers
  <2> HIDE DEF n
  <2>3. node[Here] # "file"
    BY <1>0, <2>1, <2>2 DEF Kept
  <2>4. CASE Entry.kind = "dir"
    <3>1. holds' = holds /\ \A p \in Paths : node[p] = "file" <=> node'[p] = "file"
      BY <1>0, <1>1, <2>3, <2>4 DEF ExtractInv, TypeOK
    <3> QED
      BY <1>0, <2>1, <2>4, <3>1, KeptNext
  <2>5. CASE Entry.kind = "file"
    <3>1. /\ \A p \in Paths \ {Here} :
               /\ node[p] = "file" <=> node'[p] = "file"
               /\ holds'[p] = holds[p]
          /\ node'[Here] = "file" /\ holds'[Here] = n + 1
      BY <1>0, <1>1, <2>1, <2>5 DEF ExtractInv, TypeOK
    <3> QED
      BY <1>0, <2>1, <2>5, <3>1, KeptFile
  <2> QED
    BY <1>0, <2>4, <2>5
<1>6. KeptInv'
  <2>1. cp' = "running" => Kept(pos' - 1, node', holds')
    <3>1. pos' - 1 = pos
      BY <1>0
    <3> QED
      BY <1>0, <1>5, <3>1
  <2>2. ret # "ok"
    BY <1>3 DEF ExtractInv, WayInv
  <2> QED
    BY <1>0, <1>3, <2>1, <2>2 DEF KeptInv, Kept, Takers
<1> QED
  BY <1>2, <1>4, <1>6 DEF ExtractInv

\* A child that missed something, died or was killed cannot make the call a
\* success any more.
LEMMA CpFailsInv == ExtractInv /\ (CpMisses \/ CpDies \/ CpKilled) => ExtractInv'
<1> SUFFICES ASSUME ExtractInv, CpMisses \/ CpDies \/ CpKilled PROVE ExtractInv'
  OBVIOUS
<1>1. /\ Running /\ Unfinished /\ cp' \in {"erring", "killed"}
      /\ UNCHANGED <<image, pc, ret, holds, tracked, cancelled, shown, loop>>
      /\ \/ pos' = pos
         \/ pos <= N /\ pos' = pos + 1
  BY DEF CpMisses, CpDies, CpKilled, N
<1>2. pc \in {"poll", "reap"}
  BY <1>1 DEF ExtractInv, WayInv, Running, CopyEndsFirst, TypeOK
<1>3. TypeOK'
  <2>1. pos' \in 1..N + 1
    BY <1>1, EntriesOf DEF ExtractInv, TypeOK, N
  <2>2. node' \in [Paths -> {"none", "dir", "link", "file"}]
    BY <1>1, UnfinishedTypes DEF ExtractInv
  <2> QED
    BY <1>1, <2>1, <2>2 DEF ExtractInv, TypeOK, N
<1>4. WayInv'
  BY <1>1, <1>2 DEF ExtractInv, WayInv, CopyEndsFirst, Running
<1>5. KeptInv'
  BY <1>1, <1>2 DEF ExtractInv, WayInv, KeptInv
<1> QED
  BY <1>3, <1>4, <1>5 DEF ExtractInv

LEMMA CpEndInv == ExtractInv /\ CpEnd => ExtractInv'
<1> SUFFICES ASSUME ExtractInv, CpEnd PROVE ExtractInv'
  OBVIOUS
<1> USE DEF ExtractInv, CpEnd, treeVars
<1>1. TypeOK'
  BY DEF TypeOK
<1>2. pc \in {"poll", "reap"}
  BY DEF WayInv, Running, CopyEndsFirst, TypeOK
<1>3. WayInv'
  BY <1>2 DEF WayInv, CopyEndsFirst, Running
<1>4. KeptInv'
  BY <1>2 DEF KeptInv, Kept, Takers, WayInv, Running, N
<1> QED
  BY <1>1, <1>3, <1>4

-----------------------------------------------------------------------------
(* The theorems.                                                           *)

LEMMA ExtractInit == Init => ExtractInv
<1> SUFFICES ASSUME Init PROVE ExtractInv
  OBVIOUS
<1>1. Len(image.entries) \in Nat
  BY ImagesAssumption, LenProperties DEF Init
<1>2. TypeOK
  <2>1. pos \in 1..Len(image.entries) + 1 /\ shown \in 0..MaxBytes
    BY <1>1, BytesAssumption DEF Init
  <2>2. holds \in [Paths -> 0..Len(image.entries)]
    BY <1>1 DEF Init
  <2> QED
    BY <2>1, <2>2 DEF Init, TypeOK, Results
<1>3. WayInv
  BY DEF Init, WayInv, CopyEndsFirst, Running
<1>4. Kept(0, node, holds)
  <2>1. \A p \in Paths : Takers(p, 0) = {}
    BY DEF Takers
  <2>2. \A p \in Paths : node[p] = "none"
    BY DEF Init
  <2> QED
    BY <2>1, <2>2 DEF Kept
<1>5. KeptInv
  BY <1>4 DEF Init, KeptInv
<1> QED
  BY <1>2, <1>3, <1>5 DEF ExtractInv

LEMMA ExtractStep == ExtractInv /\ [Next]_vars => ExtractInv'
<1> SUFFICES ASSUME ExtractInv, [Next]_vars PROVE ExtractInv'
  OBVIOUS
<1>1. CASE Cancel
  BY <1>1 DEF Cancel, ExtractInv, TypeOK, WayInv, KeptInv, Kept, Takers, CopyEndsFirst,
     Running, N, treeVars
<1>2. CASE UNCHANGED vars
  BY <1>2 DEF vars, ExtractInv, TypeOK, WayInv, KeptInv, Kept, Takers,
     CopyEndsFirst, Running, N, treeVars
<1> QED
  BY <1>1, <1>2, ArchiveInv, UdfInv, CpEntryInv, CpFailsInv, CpEndInv
  DEF Next, Cp, Returned

LEMMA ExtractInvariant == Spec => []ExtractInv
BY ExtractInit, ExtractStep, PTL DEF Spec

\* Every variable of the extraction has its type, for any images and bounds.
THEOREM ExtractTypeCorrect == Spec => []TypeOK
<1>1. ExtractInv => TypeOK
  BY DEF ExtractInv
<1> QED
  BY <1>1, ExtractInvariant, PTL

\* However it ends and whenever it is cancelled, the child that copies has ended
\* before the image is unmounted and the call returns (iso_extract.c:1151-1156).
THEOREM CopyEndsFirstHolds == Spec => []CopyEndsFirst
<1>1. ExtractInv => CopyEndsFirst
  BY DEF ExtractInv, WayInv
<1> QED
  BY <1>1, ExtractInvariant, PTL

\* What is kept at the end is what the image asks for.
LEMMA KeptIsWhole == ExtractInv => OkMeansWhole
BY DEF ExtractInv, KeptInv, Kept, Takers, OkMeansWhole, Whole, WholeUpTo, N

\* For any image, at a success there is a file exactly where a name was not
\* refused and was a regular file's, with the data of the last entry of that
\* name, or empty where that one is a second name of a hard-linked file
\* (iso_extract.c:1162-1170, 1237-1257, 1341-1372, 1412-1416).
THEOREM OkMeansWholeHolds == Spec => []OkMeansWhole
BY KeptIsWhole, ExtractInvariant, PTL

\* In an archive no report was ahead of the entry at hand.
ShownInv == pc \in {"start", "header", "report"} => shown <= pos

ProgressInv == ExtractInv /\ ShownInv

\* What a step does to the progress: a report of an archive goes up to the
\* entry at hand, one of a copy never below the last.
LEMMA ShownMoves ==
  ASSUME ProgressInv, [Next]_vars
  PROVE  /\ shown' >= shown
         /\ \/ pc' \in {"start", "header", "report"} => shown' <= pos /\ pos <= pos'
            \/ pc' = pc /\ shown' = shown /\ pos <= pos'
<1>1. shown \in 0..MaxBytes /\ MaxBytes \in Nat /\ pos \in Nat
  BY BytesAssumption DEF ProgressInv, ExtractInv, TypeOK
<1>2. CASE Report
  BY <1>1, <1>2 DEF Report, Return, ProgressInv, ShownInv
<1>3. CASE ArchiveEnd
  BY <1>1, <1>3 DEF ArchiveEnd, Return
<1>4. CASE StartArchive \/ BadEntry \/ SpecialEntry \/ DirEntry
           \/ LinkEntry \/ FileEntry
  <2>1. /\ shown' = shown /\ pos' \in {pos, pos + 1}
        /\ pc \in {"start", "header"}
    BY <1>4 DEF StartArchive, BadEntry, SpecialEntry, DirEntry,
       LinkEntry, FileEntry, FailArchive, Return, AtEntry
  <2> QED
    BY <1>1, <2>1 DEF ProgressInv, ShownInv
<1>5. CASE Poll
  BY <1>1, <1>5 DEF Poll
<1>6. CASE StartUdf \/ Reap \/ Collect \/ UdfUnmount
  BY <1>1, <1>6 DEF StartUdf, Reap, Collect, UdfUnmount, Return
<1>7. CASE Cp \/ CpKilled
  BY <1>1, <1>7 DEF Cp, CpEntry, CpMisses, CpEnd, CpDies, CpKilled
<1>8. CASE Cancel \/ Returned \/ UNCHANGED vars
  BY <1>1, <1>8 DEF Cancel, Returned, vars
<1> QED
  BY <1>2, <1>3, <1>4, <1>5, <1>6, <1>7, <1>8 DEF Next, Archive, Udf

\* The progress that is shown never goes back, whatever is written to the
\* partition or freed on it meanwhile (iso_extract.c:1134-1141, 1387-1391).
THEOREM ProgressHolds == Spec => ProgressForward
<1>1. Init => ProgressInv
  <2>1. Init => ShownInv
    BY DEF Init, ShownInv
  <2> QED
    BY <2>1, ExtractInit DEF ProgressInv
<1>2. ProgressInv /\ [Next]_vars => ProgressInv'
  <2> SUFFICES ASSUME ProgressInv, [Next]_vars PROVE ProgressInv'
    OBVIOUS
  <2>1. ExtractInv'
    BY ExtractStep DEF ProgressInv
  <2>2. /\ shown \in Nat /\ shown' \in Nat /\ pos \in Nat /\ pos' \in Nat
    BY <2>1, BytesAssumption DEF ProgressInv, ExtractInv, TypeOK
  <2>3. ShownInv'
    BY <2>2, ShownMoves DEF ProgressInv, ShownInv
  <2> QED
    BY <2>1, <2>3 DEF ProgressInv
<1>3. ProgressInv /\ [Next]_vars => [shown' >= shown]_shown
  BY ShownMoves
<1> QED
  BY <1>1, <1>2, <1>3, PTL DEF Spec, ProgressForward
-----------------------------------------------------------------------------
(* The extraction is what the session takes it for.                        *)

\* Unfolded, one disk and its steps of Session.
LEMMA OneDisk ==
  ASSUME NEW c
  PROVE  [[d \in Stick |-> Content] EXCEPT !["stick"] = c] = [d \in Stick |-> c]
BY DEF Stick

\* A step of the call that is under way and stays so is one that writes.
LEMMA SeesEntry ==
  ASSUME pc # "done", pc' \notin {"start", "done"},
         UNCHANGED <<image, cancelled>>
  PROVE  S!ExtractEntry
<1>1. /\ Stage = "extract" /\ Stage' = "extract" /\ Content' = "partial"
      /\ ~Failed /\ ~Failed' /\ Stick' = Stick
  BY DEF Stage, Content, Failed, AllOut, Stick
<1>2. S!InExtract
  BY <1>1 DEF S!InExtract, S!At, S!Step, S!apiVars, S!boundVars
<1>3. S!Overwrite("stick", "partial")
  BY <1>1, OneDisk DEF S!Overwrite, Stick
<1>4. S!Write("stick", "p2")
  BY <1>1 DEF S!Write, Stick, S!Unmounted
<1> QED
  BY <1>1, <1>2, <1>3, <1>4 DEF S!ExtractEntry

\* A step that ends it with success leaves the whole image on the disk.
LEMMA SeesSuccess ==
  ASSUME pc # "done", pc' = "done", ret' = "ok", Whole',
         UNCHANGED <<image, cancelled>>, image \in Images, image.udf \in BOOLEAN
  PROVE  S!ExtractEnd
<1>1. /\ Stage = "extract" /\ Content' = "extracted"
      /\ Stage' = IF image.udf THEN "customize" ELSE "boot"
      /\ ~Failed /\ ~Failed' /\ Stick' = Stick
  BY DEF Stage, Content, Failed, AllOut, Stick
<1>2. S!InExtract
  BY <1>1 DEF S!InExtract, S!At, S!Step, S!apiVars, S!boundVars
<1>3. S!Overwrite("stick", "extracted")
  BY <1>1, OneDisk DEF S!Overwrite, Stick
<1>4. S!Write("stick", "p2")
  BY <1>1 DEF S!Write, Stick, S!Unmounted
<1>5. S!Goto(S!AfterExtract)
  BY <1>1 DEF S!Goto, S!AfterExtract, Os
<1> QED
  BY <1>1, <1>2, <1>3, <1>4, <1>5 DEF S!ExtractEnd

\* One that ends it otherwise sends the session to its error label.
LEMMA SeesFailure ==
  ASSUME pc # "done", pc' = "done", ret' # "ok", UNCHANGED <<image, cancelled>>
  PROVE  S!ExtractEnd
<1>1. /\ Stage = "extract" /\ Stage' = "cleanup" /\ Content' = "partial"
      /\ ~Failed /\ Failed' /\ Stick' = Stick
  BY DEF Stage, Content, Failed, AllOut, Stick
<1>2. S!InExtract
  BY <1>1 DEF S!InExtract, S!At, S!Step, S!apiVars, S!boundVars
<1>3. S!Overwrite("stick", "partial")
  BY <1>1, OneDisk DEF S!Overwrite, Stick
<1>4. S!Write("stick", "p2")
  BY <1>1 DEF S!Write, Stick, S!Unmounted
<1>5. S!Fail(IF cancelled THEN "E-30-C" ELSE "E-30-A")
  BY <1>1 DEF S!Fail
<1> QED
  BY <1>1, <1>2, <1>3, <1>4, <1>5 DEF S!ExtractEnd

\* The cancel flag is set while the call is under way.
LEMMA SeesCancel ==
  ASSUME Cancel
  PROVE  S!Cancel
<1>1. /\ pc # "done" /\ pc' = pc /\ ~cancelled /\ cancelled' = TRUE
      /\ UNCHANGED <<image, ret, node, holds>>
  BY DEF Cancel, treeVars
<1>2. /\ Stage' = Stage /\ Content' = Content /\ ~Failed /\ ~Failed'
      /\ Stick' = Stick
  BY <1>1 DEF Stage, Content, Failed, AllOut, Whole, WholeUpTo, Takers, Stick
<1> QED
  BY <1>1, <1>2 DEF S!Cancel, S!hostVars, S!apiVars, S!mountVars, S!diskVars,
     S!boundVars

LEMMA SeesNothing ==
  ASSUME UNCHANGED vars
  PROVE  UNCHANGED S!vars
<1>1. UNCHANGED <<image, pc, ret, node, holds, cancelled>>
  BY DEF vars, treeVars
<1>2. /\ Stage' = Stage /\ Content' = Content /\ Failed' = Failed
      /\ Stick' = Stick
  BY <1>1 DEF Stage, Content, Failed, AllOut, Whole, WholeUpTo, Takers, Stick
<1> QED
  BY <1>1, <1>2 DEF S!vars

\* What every other step leaves alone, and that nothing follows the return.
LEMMA UnderWay ==
  ASSUME ExtractInv, Next
  PROVE  \/ Cancel \/ UNCHANGED vars
         \/ /\ pc # "done" /\ pc' # "start"
            /\ UNCHANGED <<image, cancelled>>
<1>1. /\ pc = "start" => ~Running
      /\ pc = "done" => ~Running
  BY DEF ExtractInv, WayInv, CopyEndsFirst, Running
<1>2. CASE Archive
  BY <1>2 DEF Archive, StartArchive, ArchiveEnd, BadEntry, SpecialEntry, DirEntry, LinkEntry, FileEntry, Report, AtEntry, FailArchive,
     Return
<1>3. CASE Udf
  BY <1>3 DEF Udf, StartUdf, Poll, Reap, Collect, UdfUnmount, Return
<1>4. CASE Cp \/ CpKilled
  BY <1>1, <1>4 DEF Cp, CpEntry, CpMisses, CpEnd, CpDies, CpKilled
<1>5. CASE Cancel \/ Returned
  BY <1>5 DEF Returned
<1> QED
  BY <1>2, <1>3, <1>4, <1>5 DEF Next

\* The extraction, for any images, does only what Session says the call does,
\* with all data on the disk when execute goes on (session.c:586-612).
THEOREM ExtractsForSessionHolds == Spec => ExtractsForSession
<1>1. ExtractInv' => OkMeansWhole'
  BY KeptIsWhole, PTL
<1>2. ExtractInv /\ ExtractInv' /\ [Next]_vars =>
        [S!ExtractEntry \/ S!ExtractEnd \/ S!Cancel]_(S!vars)
  <2> SUFFICES ASSUME ExtractInv, ExtractInv', [Next]_vars
               PROVE  [S!ExtractEntry \/ S!ExtractEnd \/ S!Cancel]_(S!vars)
    OBVIOUS
  <2>1. CASE Cancel
    BY <2>1, SeesCancel
  <2>2. CASE UNCHANGED vars
    BY <2>2, SeesNothing
  <2>3. CASE /\ pc # "done" /\ pc' # "start"
             /\ UNCHANGED <<image, cancelled>>
    <3>1. CASE pc' # "done"
      BY <2>3, <3>1, SeesEntry
    <3>2. CASE pc' = "done" /\ ret' # "ok"
      BY <2>3, <3>2, SeesFailure
    <3>3. CASE pc' = "done" /\ ret' = "ok"
      <4>1. Whole'
        BY <1>1, <3>3 DEF OkMeansWhole
      <4>2. image \in Images /\ image.udf \in BOOLEAN
        BY ImagesAssumption DEF ExtractInv, TypeOK
      <4> QED
        BY <2>3, <3>3, <4>1, <4>2, SeesSuccess
    <3> QED
      BY <3>1, <3>2, <3>3
  <2> QED
    BY <2>1, <2>2, <2>3, UnderWay
<1> QED
  BY <1>2, ExtractInvariant, PTL DEF Spec, ExtractsForSession
=============================================================================
