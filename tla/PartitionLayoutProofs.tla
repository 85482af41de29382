------------------------ MODULE PartitionLayoutProofs ------------------------
(***************************************************************************)
(* Theorems about PartitionLayout for all sizes, alignments and limits.    *)
(***************************************************************************)
EXTENDS PartitionLayout, SequenceTheorems, TLAPS

\* What memory holds at each step, which is what a commit will write, and what
\* the caller is told.
LabelSound ==
  /\ (ret = "none") <=> (pc # "done")
  /\ ret = "ok" => table # <<>>
  /\ pc \in {"add boot", "add data", "set flag", "commit"} =>
       layout = Layout(asked, total)
  /\ pc = "add data" => label = <<Boot>>
  /\ pc \in {"set flag", "commit"} =>
       \E slack \in 0..Slack :
         /\ label = <<Boot, Data(slack)>>
         /\ Data(slack).first <= Data(slack).last
         /\ Data(slack).last < length
  /\ table # <<>> =>
       /\ pc = "done" /\ layout = Layout(asked, total)
       /\ \E slack \in 0..Slack :
            /\ table = <<Boot, Data(slack)>>
            /\ Data(slack).first <= Data(slack).last
            /\ Data(slack).last < length

LayoutInv == TypeOK /\ LabelSound

\* What Append makes of a sequence of one.
LEMMA AppendToOne ==
  ASSUME NEW T, NEW e \in T, NEW f \in T
  PROVE  /\ Append(<<e>>, f) \in Seq(T) /\ Len(Append(<<e>>, f)) = 2
         /\ Append(<<e>>, f)[1] = e /\ Append(<<e>>, f)[2] = f
OBVIOUS

\* Sequences of two are equal if their elements are.
LEMMA TwoEqual ==
  ASSUME NEW T, NEW s \in Seq(T), NEW t \in Seq(T), Len(s) = 2, Len(t) = 2,
         s[1] = t[1], s[2] = t[2]
  PROVE  s = t
BY SeqEqual

LEMMA AppendSecond ==
  ASSUME NEW e, NEW f
  PROVE  Append(<<e>>, f) = <<e, f>>
<1> DEFINE T == {e, f}
<1>1. e \in T /\ f \in T
  OBVIOUS
<1>2. /\ <<e, f>> \in Seq(T) /\ Len(<<e, f>>) = 2
      /\ <<e, f>>[1] = e /\ <<e, f>>[2] = f
  OBVIOUS
<1> HIDE DEF T
<1>3. /\ Append(<<e>>, f) \in Seq(T) /\ Len(Append(<<e>>, f)) = 2
      /\ Append(<<e>>, f)[1] = e /\ Append(<<e>>, f)[2] = f
  BY <1>1, AppendToOne, ZenonT(60)
<1> QED
  BY <1>2, <1>3, TwoEqual, ZenonT(60)

USE SizesAssumption, UnitsAssumption, MacrosAssumption

\* A clamped boot size is within its limits, and a layout made of it is of
\* natural numbers if the disk was not refused.
LEMMA LayoutType ==
  ASSUME NEW boot \in Nat, NEW size \in Nat
  PROVE  /\ Clamped(boot) \in Nat
         /\ MinBoot <= Clamped(boot) /\ Clamped(boot) <= MaxBoot
         /\ ~TooSmall(boot, size) =>
              Layout(boot, size) \in [boot : Nat, dataStart : Nat, dataSize : Nat]
<1>1. /\ Clamped(boot) \in Nat
      /\ MinBoot <= Clamped(boot) /\ Clamped(boot) <= MaxBoot
  BY DEF Clamped
<1>2. ASSUME ~TooSmall(boot, size)
      PROVE  size - (Clamped(boot) + Align) \in Nat
  BY <1>1, <1>2 DEF TooSmall
<1>3. QED
  BY <1>1, <1>2 DEF Layout

\* Initially nothing is in memory or on the disk.
LEMMA LayoutInit == Init => LayoutInv
<1> SUFFICES ASSUME Init PROVE LayoutInv
  OBVIOUS
<1>1. length \in Nat
  <2>1. PICK size \in Sizes : length = size \div unit
    BY DEF Init
  <2>2. size \in Nat /\ unit \in Nat \ {0}
    BY DEF Init
  <2>3. QED
    BY <2>1, <2>2
<1>2. TypeOK
  <2>1. <<>> \in Seq(Extents) /\ Len(<<>>) = 0
    OBVIOUS
  <2>2. NoLayout \in [boot : Nat, dataStart : Nat, dataSize : Nat]
    BY DEF NoLayout
  <2>3. QED
    BY <1>1, <2>1, <2>2 DEF Init, TypeOK
<1>3. LabelSound
  BY DEF Init, LabelSound
<1>4. QED
  BY <1>2, <1>3 DEF LayoutInv

\* Every step keeps memory and disk as described.
LEMMA LayoutStep == LayoutInv /\ [Next]_vars => LayoutInv'
<1> SUFFICES ASSUME LayoutInv, [Next]_vars PROVE LayoutInv'
  OBVIOUS
<1> USE DEF LayoutInv
<1>1. CASE Calculate
  <2>1. total \in Nat /\ asked \in Nat
    BY DEF TypeOK
  <2>2. layout' \in [boot : Nat, dataStart : Nat, dataSize : Nat]
    <3>1. CASE TooSmall(asked, total) /\ UNCHANGED layout
      BY <3>1 DEF TypeOK
    <3>2. CASE ~TooSmall(asked, total) /\ layout' = Layout(asked, total)
      BY <2>1, <3>2, LayoutType
    <3>3. QED
      BY <1>1, <3>1, <3>2 DEF Calculate
  <2>3. TypeOK'
    BY <1>1, <2>2 DEF Calculate, TypeOK
  <2>4. table = <<>> /\ table' = <<>>
    BY <1>1 DEF Calculate, LabelSound
  <2>5. pc' = "add boot" => layout' = Layout(asked, total)'
    BY <1>1 DEF Calculate, Layout, Clamped
  <2>6. LabelSound'
    BY <1>1, <2>4, <2>5 DEF Calculate, LabelSound
  <2>7. QED
    BY <2>3, <2>6
<1>2. CASE Refuse
  <2>1. TypeOK'
    BY <1>2 DEF Refuse, TypeOK
  <2>2. table = <<>> /\ table' = <<>> /\ pc' = "done" /\ ret' = "failed"
    BY <1>2 DEF Refuse, LabelSound
  <2>3. QED
    BY <2>1, <2>2 DEF LabelSound
<1>3. CASE AddBoot
  <2>1. layout.boot \in Nat /\ Boot \in Extents
    <3>1. layout.boot \in Nat /\ layout.boot >= 1
      <4>1. layout.boot = Clamped(asked)
        <5>1. layout = Layout(asked, total)
          BY <1>3 DEF AddBoot, LabelSound
        <5>2. QED
          BY <5>1 DEF Layout
      <4>2. asked \in Nat /\ total \in Nat
        BY DEF TypeOK
      <4>3. QED
        BY <4>1, <4>2, LayoutType
    <3>2. QED
      BY <3>1 DEF Boot, Extent, Extents
  <2>2. TypeOK'
    <3>1. label' = <<Boot>>
      BY <1>3 DEF AddBoot
    <3>2. <<Boot>> \in Seq(Extents) /\ Len(<<Boot>>) = 1
      BY <2>1
    <3>3. /\ UNCHANGED <<total, length, unit, asked, layout, table, ret>>
          /\ pc' = "add data"
      BY <1>3 DEF AddBoot
    <3>4. label' \in Seq(Extents) /\ Len(label') = 1
      BY <3>1, <3>2, Zenon
    <3>5. Len(label') <= 2
      BY <3>4
    <3>6. QED
      BY <3>3, <3>4, <3>5, Zenon DEF TypeOK, Extents
  <2>3. /\ table = <<>> /\ table' = <<>> /\ pc' = "add data"
        /\ ret = "none" /\ ret' = "none"
    BY <1>3 DEF AddBoot, LabelSound
  <2>4. layout' = Layout(asked, total)' /\ label' = <<Boot>>'
    BY <1>3 DEF AddBoot, LabelSound, Layout, Clamped, Boot, Extent
  <2>5. LabelSound'
    BY <2>3, <2>4 DEF LabelSound
  <2>6. QED
    BY <2>2, <2>5
<1>4. CASE AddData
  <2>1. PICK slack \in 0..Slack :
          Accepted(Data(slack)) /\ label' = Append(label, Data(slack))
    BY <1>4 DEF AddData
  <2>2. /\ label = <<Boot>> /\ layout = Layout(asked, total) /\ table = <<>>
        /\ ret = "none"
    BY <1>4 DEF AddData, LabelSound
  <2>3. label' = <<Boot, Data(slack)>>
    BY <2>1, <2>2, AppendSecond, Zenon
  <2>4. Data(slack).first <= Data(slack).last /\ Data(slack).last < length
    BY <2>1 DEF Accepted
  <2>5. Boot \in Extents /\ Data(slack) \in Extents
    <3>1. layout.boot \in Nat /\ layout.boot >= 1 /\ length \in Nat
      <4>1. asked \in Nat /\ total \in Nat /\ length \in Nat
        BY DEF TypeOK
      <4>2. layout.boot = Clamped(asked)
        BY <2>2 DEF Layout
      <4>3. QED
        BY <4>1, <4>2, LayoutType
    <3>2. Boot \in Extents
      BY <3>1 DEF Boot, Extent, Extents
    <3>3. /\ Data(slack).first = Align + layout.boot - 1 + 1
          /\ Data(slack).last = length - 1 - slack
      BY DEF Data, Boot, Extent
    <3>4. Data(slack).first \in Nat /\ Data(slack).last \in Nat
      BY <2>4, <3>1, <3>3
    <3>5. QED
      BY <3>2, <3>4 DEF Data, Extent, Extents
  <2>6. TypeOK'
    <3>1. /\ <<Boot, Data(slack)>> \in Seq(Extents)
          /\ Len(<<Boot, Data(slack)>>) = 2
      BY <2>5
    <3>2. /\ UNCHANGED <<total, length, unit, asked, layout, table, ret>>
          /\ pc' = "set flag"
      BY <1>4 DEF AddData
    <3>3. label' \in Seq(Extents) /\ Len(label') = 2
      BY <2>3, <3>1, Zenon
    <3>4. Len(label') <= 2
      BY <3>3
    <3>5. QED
      BY <3>2, <3>3, <3>4, Zenon DEF TypeOK, Extents
  <2>7. /\ layout' = Layout(asked, total)'
        /\ label' = <<Boot', Data(slack)'>>
        /\ Data(slack)'.first <= Data(slack)'.last
        /\ Data(slack)'.last < length'
    BY <1>4, <2>2, <2>3, <2>4
    DEF AddData, Layout, Clamped, Boot, Data, Extent
  <2>8. table' = <<>> /\ pc' = "set flag" /\ ret' = "none"
    BY <1>4, <2>2 DEF AddData
  <2>9. LabelSound'
    BY <2>7, <2>8 DEF LabelSound
  <2>10. QED
    BY <2>6, <2>9
<1>5. CASE SetFlag
  <2>1. TypeOK'
    BY <1>5 DEF SetFlag, TypeOK
  <2>2. LabelSound'
    BY <1>5 DEF SetFlag, LabelSound, Layout, Clamped, Boot, Data, Extent
  <2>3. QED
    BY <2>1, <2>2
<1>6. CASE Commit
  <2>1. TypeOK'
    <3>1. Len(label) = 2
      BY <1>6 DEF Commit, LabelSound
    <3>2. QED
      BY <1>6, <3>1 DEF Commit, TypeOK
  <2>2. LabelSound'
    BY <1>6 DEF Commit, LabelSound, Layout, Clamped, Boot, Data, Extent
  <2>3. QED
    BY <2>1, <2>2
<1>7. CASE Done \/ UNCHANGED vars
  <2>1. UNCHANGED vars
    BY <1>7 DEF Done
  <2>2. QED
    BY <2>1 DEF vars, TypeOK, LabelSound, Layout, Clamped, Boot, Data, Extent
<1>8. QED
  BY <1>1, <1>2, <1>3, <1>4, <1>5, <1>6, <1>7 DEF Next

\* Memory and disk are as described throughout.
LEMMA LayoutAlways == Spec => []LayoutInv
  BY LayoutInit, LayoutStep, PTL DEF Spec

\* Every variable has its type: no size of disk makes the arithmetic leave
\* the naturals (partition.c:201-237).
THEOREM LayoutTypeCorrect == Spec => []TypeOK
<1>1. LayoutInv => TypeOK
  BY DEF LayoutInv
<1>2. QED
  BY <1>1, LayoutAlways, PTL

\* A table that is written is sound, for all sizes, even if the disk is not
\* the one whose size was listed (partition.c:293-402).
THEOREM WrittenTableSound == Spec => []TableSound
<1>1. ASSUME LayoutInv, table # <<>>
      PROVE  TableSound
  <2>1. PICK slack \in 0..Slack :
          /\ table = <<Boot, Data(slack)>>
          /\ Data(slack).first <= Data(slack).last
          /\ Data(slack).last < length
    BY <1>1 DEF LayoutInv, LabelSound
  <2>2. layout.boot = Clamped(asked)
    BY <1>1 DEF LayoutInv, LabelSound, Layout
  <2>3. asked \in Nat /\ total \in Nat
    BY <1>1 DEF LayoutInv, TypeOK
  <2>4. MinBoot <= layout.boot /\ layout.boot <= MaxBoot
    BY <2>2, <2>3, LayoutType
  <2>5. table[1] = Boot /\ table[2] = Data(slack)
    BY <2>1
  <2>6. /\ Boot.first = Align /\ Boot.last = Align + layout.boot - 1
        /\ Data(slack).first = Boot.last + 1
    BY DEF Boot, Data, Extent
  <2>7. QED
    BY <2>1, <2>4, <2>5, <2>6 DEF TableSound
<1>2. LayoutInv => TableSound
  BY <1>1 DEF TableSound
<1>3. QED
  BY <1>2, LayoutAlways, PTL

\* The two computations of the data partition agree, for all sizes
\* (partition.c:222-234, 338-341).
THEOREM WrittenLayoutKept == Spec => []LayoutKept
<1>1. ASSUME LayoutInv, table # <<>>, length = total
      PROVE  LayoutKept
  <2>1. PICK slack \in 0..Slack : table = <<Boot, Data(slack)>>
    BY <1>1 DEF LayoutInv, LabelSound
  <2>2. layout = Layout(asked, total)
    BY <1>1 DEF LayoutInv, LabelSound
  <2>3. asked \in Nat /\ total \in Nat /\ length \in Nat
    BY <1>1 DEF LayoutInv, TypeOK
  <2>4. /\ layout.boot \in Nat /\ layout.dataStart = layout.boot + Align
        /\ layout.dataSize = total - (layout.boot + Align)
    BY <2>2, <2>3, LayoutType DEF Layout
  <2>5. /\ table[2].first = Align + layout.boot - 1 + 1
        /\ table[2].last = length - 1 - slack
    BY <2>1 DEF Boot, Data, Extent
  <2>6. slack \in Nat /\ slack <= Slack
    OBVIOUS
  <2>7. Sectors(table[2]) = layout.dataSize - slack
    BY <1>1, <2>3, <2>4, <2>5, <2>6 DEF Sectors
  <2>8. table[2].first = layout.dataStart
    BY <2>4, <2>5
  <2>9. layout.dataSize - slack \in layout.dataSize - Slack..layout.dataSize
    BY <2>3, <2>4, <2>6
  <2>10. QED
    BY <2>7, <2>8, <2>9 DEF LayoutKept
<1>2. LayoutInv => LayoutKept
  BY <1>1 DEF LayoutKept
<1>3. QED
  BY <1>2, LayoutAlways, PTL

-----------------------------------------------------------------------------
(* The planners.                                                           *)

\* n equal shares of a number are not more than the number.
LEMMA SharesFit ==
  ASSUME NEW x \in Nat, NEW n \in Nat \ {0}
  PROVE  /\ x \div n \in Nat
         /\ n * (x \div n) <= x
  OBVIOUS

\* The start of each share is where the one before it ends.
LEMMA SharesFollow ==
  ASSUME NEW s \in Nat, NEW i \in Nat \ {0}
  PROVE  /\ i * s = (i - 1) * s + s
         /\ (i - 1) * s \in Nat
  OBVIOUS

\* The partitions of an MBR plan follow each other between the first megabyte
\* and the end of the disk, for every number there may be (partition.c:88-108).
THEOREM MbrPlanFollows ==
  ASSUME NEW sectors \in Nat, NEW n \in Nat, ~MbrRefused(sectors, n)
  PROVE  Follow(MbrPlan(sectors, n), n, Align, sectors - 1)
<1> DEFINE s == MbrShare(sectors, n)
           plan == MbrPlan(sectors, n)
<1>1. n \in 1..4 /\ sectors > 2 * Align /\ s >= Align
  BY MacrosAssumption DEF MbrRefused, MbrShare
<1>2. s \in Nat /\ n * s <= sectors - 2 * Align
  <2>1. sectors - 2 * Align \in Nat
    BY <1>1, MacrosAssumption
  <2> QED
    BY <1>1, <2>1, SharesFit DEF MbrShare
<1>3. \A i \in 1..n : /\ plan[i].first = Align + (i - 1) * s
                      /\ plan[i].last = IF i = n THEN sectors - 1
                                        ELSE Align + (i - 1) * s + s - 1
  BY DEF MbrPlan, Extent
<1> HIDE DEF s, plan
<1>4. \A i \in 1..n : i * s = (i - 1) * s + s /\ (i - 1) * s \in Nat
  BY <1>1, <1>2, SharesFollow
<1>5. plan[1].first = Align /\ plan[n].last = sectors - 1
  BY <1>1, <1>2, <1>3, MacrosAssumption
<1>6. ASSUME NEW i \in 1..n PROVE plan[i].first <= plan[i].last
  <2>1. CASE i = n
    BY <1>1, <1>2, <1>3, <1>4, <2>1, MacrosAssumption
  <2>2. CASE i # n
    BY <1>1, <1>2, <1>3, <1>4, <2>2, MacrosAssumption
  <2> QED
    BY <2>1, <2>2
<1>7. ASSUME NEW i \in 1..n - 1 PROVE plan[i + 1].first = plan[i].last + 1
  <2>1. i \in 1..n /\ i + 1 \in 1..n /\ i # n /\ i + 1 - 1 = i
    BY <1>1, <1>7
  <2>2. plan[i + 1].first = Align + i * s
    BY <1>3, <2>1
  <2>3. plan[i].last = Align + (i - 1) * s + s - 1
    BY <1>3, <2>1
  <2> QED
    BY <1>2, <1>4, <2>1, <2>2, <2>3, MacrosAssumption
<1> QED
  BY <1>5, <1>6, <1>7, <1>1, <1>2, MacrosAssumption DEF Follow, plan

\* So do those of a GPT plan, clear of the headers at both ends, for any number
\* of partitions, the array of four aside (partition.c:156-176).
THEOREM GptPlanFollows ==
  ASSUME NEW sectors \in Nat, NEW n \in Nat, ~GptRefused(sectors, n)
  PROVE  Follow(GptPlan(sectors, n), n, 34, sectors - 34 - 1)
<1> DEFINE s == GptShare(sectors, n)
           plan == GptPlan(sectors, n)
<1>0. GptFirst = 34 + Align /\ GptFirst \in Nat
  BY MacrosAssumption DEF GptFirst
<1>1. n \in Nat \ {0} /\ sectors > 67 + Align
  BY MacrosAssumption DEF GptRefused
<1>2. s \in Nat /\ n * s <= sectors - GptFirst - 33 /\ s >= Align
  <2>1. sectors - GptFirst - 33 \in Nat
    BY <1>0, <1>1, MacrosAssumption
  <2>2. s \in Nat /\ n * s <= sectors - GptFirst - 33
    BY <1>1, <2>1, SharesFit DEF GptShare
  <2>3. ~(s < Align)
    BY DEF GptRefused
  <2> HIDE DEF s
  <2> QED
    BY <2>2, <2>3, MacrosAssumption
<1>3. \A i \in 1..n : /\ plan[i].first = GptFirst + (i - 1) * s
                      /\ plan[i].last = IF i = n THEN sectors - 34 - 1
                                        ELSE GptFirst + (i - 1) * s + s - 1
  BY DEF GptPlan, Extent
<1> HIDE DEF s, plan
<1>4. \A i \in 1..n : i * s = (i - 1) * s + s /\ (i - 1) * s \in Nat
  BY <1>1, <1>2, SharesFollow
<1>5. plan[1].first = GptFirst /\ plan[n].last = sectors - 34 - 1
  BY <1>0, <1>1, <1>2, <1>3
<1>6. ASSUME NEW i \in 1..n PROVE plan[i].first <= plan[i].last
  <2>1. CASE i = n
    <3>1. (n - 1) * s + s <= sectors - GptFirst - 33
      BY <1>1, <1>2, <1>4
    <3>2. (n - 1) * s \in Nat
      BY <1>1, <1>4
    <3>3. plan[i].first = GptFirst + (n - 1) * s /\ plan[i].last = sectors - 34 - 1
      BY <1>3, <2>1
    <3> DEFINE t == (n - 1) * s
    <3> HIDE DEF t
    <3>4. GptFirst + t <= sectors - 34 - 1
      BY <1>0, <1>2, <3>1, <3>2, MacrosAssumption DEF t
    <3> QED
      BY <3>3, <3>4 DEF t
  <2>2. CASE i # n
    BY <1>0, <1>1, <1>2, <1>3, <1>4, <2>2, MacrosAssumption
  <2> QED
    BY <2>1, <2>2
<1>7. ASSUME NEW i \in 1..n - 1 PROVE plan[i + 1].first = plan[i].last + 1
  <2>1. i \in 1..n /\ i + 1 \in 1..n /\ i # n /\ i + 1 - 1 = i
    BY <1>1, <1>7
  <2>2. plan[i + 1].first = GptFirst + i * s
    BY <1>3, <2>1
  <2>3. plan[i].last = GptFirst + (i - 1) * s + s - 1
    BY <1>3, <2>1
  <2> QED
    BY <1>0, <1>2, <1>4, <2>1, <2>2, <2>3
<1> QED
  BY <1>0, <1>5, <1>6, <1>7, <1>1, <1>2, MacrosAssumption DEF Follow, plan

\* Every plan for the listed disk is sound (partition.c:88-108, 156-176).
THEOREM PlansHold == Spec => []PlansSound
<1>1. TypeOK => PlansSound
  <2> SUFFICES ASSUME TypeOK, NEW n \in 1..4
               PROVE  /\ ~MbrRefused(total, n) =>
                           Follow(MbrPlan(total, n), n, Align, total - 1)
                      /\ ~GptRefused(total, n) =>
                           Follow(GptPlan(total, n), n, 34, total - 34 - 1)
    BY DEF PlansSound
  <2>1. total \in Nat
    BY SizesAssumption DEF TypeOK
  <2>2. n \in Nat
    OBVIOUS
  <2> QED
    BY <2>1, <2>2, MbrPlanFollows, GptPlanFollows
<1> QED
  BY <1>1, LayoutTypeCorrect, PTL

-----------------------------------------------------------------------------
(* The call as the session's.                                              *)

LEMMA OneDisk == ASSUME NEW c, NEW e
                 PROVE  [[d \in Stick |-> c] EXCEPT !["stick"] = e]
                          = [d \in Stick |-> e]
BY DEF Stick

\* A success with a table on the disk is the session's way on.
LEMMA SeesWritten ==
  ASSUME pc # "done", pc' = "done", ret = "none", ret' = "ok", table' # <<>>
  PROVE  S!Commit
<1>1. /\ Stage = "commit" /\ Stage' = "nodes" /\ Content' = "wiped"
      /\ Over' /\ ~Failed /\ ~Failed' /\ Stick' = Stick
  BY DEF Stage, Content, Over, Failed, Stick
<1>2. S!At("commit")
  BY <1>1 DEF S!At, S!Step, S!apiVars, S!boundVars
<1>3. S!Present("sdx")
  BY DEF S!Present
<1>4. S!Overwrite("stick", "wiped")
  BY <1>1, OneDisk DEF S!Overwrite, Stick
<1>5. S!Goto("nodes")
  BY <1>1 DEF S!Goto
<1> QED
  BY <1>1, <1>2, <1>3, <1>4, <1>5 DEF S!Commit, S!mountVars

\* A failure is the session's way to its error label, whether the table was
\* written or not.
LEMMA SeesFailure ==
  ASSUME pc # "done", pc' = "done", ret = "none", ret' = "failed"
  PROVE  (table' # <<>> \/ UNCHANGED table) => S!Commit
<1>1. /\ Stage = "commit" /\ Stage' = "cleanup"
      /\ Over' /\ ~Failed /\ Failed' /\ Stick' = Stick
  BY DEF Stage, Over, Failed, Stick
<1>2. S!At("commit")
  BY <1>1 DEF S!At, S!Step, S!apiVars, S!boundVars
<1>3. S!Fail("E-20-A")
  BY <1>1 DEF S!Fail
<1>4. CASE table' # <<>>
  <2>1. Content' = "wiped"
    BY <1>4 DEF Content
  <2>2. S!Present("sdx")
    BY DEF S!Present
  <2>3. S!Overwrite("stick", "wiped")
    BY <1>1, <2>1, OneDisk DEF S!Overwrite, Stick
  <2> QED
    BY <1>1, <1>2, <1>3, <2>2, <2>3 DEF S!Commit, S!mountVars
<1>5. CASE UNCHANGED table
  <2>1. Content' = Content
    BY <1>5 DEF Content
  <2> QED
    BY <1>1, <1>2, <1>3, <2>1 DEF S!Commit, S!mountVars
<1> QED
  BY <1>4, <1>5

\* Until it returns a session sees nothing of it.
LEMMA SeesNothing ==
  ASSUME UNCHANGED <<ret, table>>, (pc' = "done") <=> (pc = "done")
  PROVE  UNCHANGED S!vars
<1>1. /\ Stage' = Stage /\ Content' = Content /\ Over' = Over
      /\ Failed' = Failed /\ Stick' = Stick
  BY DEF Stage, Content, Over, Failed, Stick
<1> QED
  BY <1>1 DEF S!vars

\* Each step is one of three: it goes on, it fails, or it has written.
LEMMA CallSteps ==
  ASSUME LayoutInv, [Next]_vars
  PROVE  \/ UNCHANGED <<ret, table>> /\ (pc' = "done" <=> pc = "done")
         \/ /\ pc # "done" /\ pc' = "done" /\ ret = "none" /\ ret' = "failed"
            /\ table' # <<>> \/ UNCHANGED table
         \/ /\ pc # "done" /\ pc' = "done" /\ ret = "none" /\ ret' = "ok"
            /\ table' # <<>>
<1> USE DEF LayoutInv, LabelSound
<1>1. CASE Calculate
  BY <1>1 DEF Calculate
<1>2. CASE Refuse
  BY <1>2 DEF Refuse
<1>3. CASE AddBoot \/ AddData \/ SetFlag
  BY <1>3 DEF AddBoot, AddData, SetFlag
<1>4. CASE Commit
  <2>1. PICK slack \in 0..Slack : label = <<Boot, Data(slack)>>
    BY <1>4 DEF Commit
  <2>2. Len(label) = 2
    BY <2>1
  <2>3. table' # <<>>
    BY <1>4, <2>2 DEF Commit
  <2> QED
    BY <1>4, <2>3 DEF Commit
<1>5. CASE Done \/ UNCHANGED vars
  BY <1>5 DEF Done, vars
<1> QED
  BY <1>1, <1>2, <1>3, <1>4, <1>5 DEF Next

\* For all sizes and limits the call is Session's commit: one step, which goes
\* on only with a table on the disk (partition.c:243-402, session.c:530-534).
THEOREM CommitsForSessionHolds == Spec => CommitsForSession
<1>1. LayoutInv /\ [Next]_vars => [S!Commit]_(S!vars)
  BY CallSteps, SeesNothing, SeesFailure, SeesWritten
<1> QED
  BY <1>1, LayoutAlways, PTL DEF Spec, CommitsForSession
=============================================================================
