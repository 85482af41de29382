---------------------------- MODULE UnattendProofs ----------------------------
(***************************************************************************)
(* Theorems of Unattend, for any table of bypasses, any settings of a      *)
(* caller and any bounds.                                                  *)
(***************************************************************************)
EXTENDS Unattend, FiniteSetTheorems, TLAPS

-----------------------------------------------------------------------------
(* The operators.                                                          *)

\* The panel hands out flags and a name that are those of wue.h and the box.
LEMMA PanelTypes ==
  ASSUME NEW ticked \in SUBSET Boxes, NEW n \in Names
  PROVE  /\ Trimmed(n) \in Names /\ Safe(n) \in Names
         /\ WueFlags(ticked, n) \subseteq Flags
         /\ Username(ticked, n) \in Names
<1>1. Trimmed(n) \in Names /\ Safe(n) \in Names
  BY DEF Trimmed, Safe, Names
<1>2. Username(ticked, n) \in Names
  BY <1>1 DEF Username, Names
<1>3. WueFlags(ticked, n) \subseteq Flags
  BY DEF WueFlags, Flags, OtherFlags
<1> QED
  BY <1>1, <1>2, <1>3

\* Without a flag there is no name either: an account is asked for by both.
LEMMA NoFlagNoName ==
  ASSUME NEW ticked, NEW n, WueFlags(ticked, n) = {}
  PROVE  Username(ticked, n) = "none"
BY DEF WueFlags, Username

\* A generated text is well formed.
LEMMA GeneratedWell ==
  ASSUME NEW flags \in SUBSET Flags, NEW user \in Names
  PROVE  /\ Well(Torn) /\ Well(NoFile)
         /\ Well(Answers(GenerateXml(flags, user)))
<1>1. "none" \in Names /\ Safe(user) \in Names
  BY DEF Safe, Names
<1> QED
  BY <1>1 DEF Well, Torn, NoFile, Answers, GenerateXml, Nothing, Flags, OtherFlags

\* Every flag of a write is one of wue.h.
LEMMA EffectiveTypes ==
  ASSUME NEW s \in [option : ImageOptions, flags : SUBSET Flags, name : Names]
  PROVE  EffectiveFlags(s) \subseteq Flags
BY DEF EffectiveFlags, Flags, OtherFlags

\* The protection has the number 1, and of two commands the one that is first
\* in the table has the lower number: the counter goes up between them.
LEMMA NumbersFollowTable ==
  ASSUME NEW chosen, chosen \subseteq Bypasses \union {"hideInstallMedia"},
         NEW b \in chosen, NEW c \in chosen, Rank(b) < Rank(c)
  PROVE  /\ Numbered(chosen)[b] \in Nat /\ Numbered(chosen)[c] \in Nat
         /\ Numbered(chosen)[b] < Numbered(chosen)[c]
<1> DEFINE upTo(x) == {a \in chosen : Rank(a) <= Rank(x)}
<1>1. IsFiniteSet(chosen)
  <2>1. IsFiniteSet(Bypasses \union {"hideInstallMedia"})
    BY TableAssumption, FS_AddElement
  <2> QED
    BY <2>1, FS_Subset
<1>2. IsFiniteSet(upTo(b)) /\ IsFiniteSet(upTo(c))
  BY <1>1, FS_Subset
<1>3. \A a \in chosen : Rank(a) \in Nat
  BY TableAssumption DEF Rank
<1>4. upTo(b) \subseteq upTo(c) /\ c \in upTo(c) /\ c \notin upTo(b)
  BY <1>3
<1>5. Cardinality(upTo(b)) \in Nat /\ Cardinality(upTo(c)) \in Nat
  BY <1>2, FS_CardinalityType
<1>6. /\ Cardinality(upTo(b)) <= Cardinality(upTo(c))
      /\ Cardinality(upTo(b)) # Cardinality(upTo(c))
  <2>1. upTo(b) \in SUBSET upTo(c) /\ upTo(b) # upTo(c)
    BY <1>4
  <2> HIDE DEF upTo
  <2> QED
    BY <1>2, <2>1, FS_Subset
<1>7. /\ Numbered(chosen)[b] = Cardinality(upTo(b))
      /\ Numbered(chosen)[c] = Cardinality(upTo(c))
  BY DEF Numbered
<1> HIDE DEF upTo
<1> QED
  BY <1>5, <1>6, <1>7

-----------------------------------------------------------------------------
(* Types.                                                                  *)

\* The panel, START, the setters and the write keep the types.
LEMMA PanelTypeOK == TypeOK /\ Panel => TypeOK'
<1> SUFFICES ASSUME TypeOK, Panel PROVE TypeOK'
  OBVIOUS
<1>1. /\ UNCHANGED <<workVars, stickVars>>
      /\ clicks' \in 0..MaxClicks
  BY UnattendAssumption DEF Panel, ApplyAllToggled, NameTyped, BoxToggled, Click, TypeOK
<1>2. boxes' \subseteq Boxes /\ all' \in BOOLEAN /\ name' \in Names
  BY DEF Panel, ApplyAllToggled, NameTyped, BoxToggled, TypeOK, Boxes
<1> QED
  BY <1>1, <1>2 DEF TypeOK, workVars, stickVars, Well

LEMMA StartTypeOK == TypeOK /\ Start => TypeOK'
<1> SUFFICES ASSUME TypeOK, Start PROVE TypeOK'
  OBVIOUS
<1>1. writes' \in 0..MaxWrites
  BY UnattendAssumption DEF Start, TypeOK
<1>2. /\ started' \in [boxes : SUBSET Boxes, name : Names]
      /\ given' \in [flags : SUBSET Flags, name : Names]
  BY PanelTypes DEF Start, TypeOK
<1> QED
  BY <1>1, <1>2 DEF Start, TypeOK, panelVars, stickVars, Well

LEMMA CallerTypeOK == TypeOK /\ Caller => TypeOK'
<1> SUFFICES ASSUME TypeOK, Caller PROVE TypeOK'
  OBVIOUS
<1>1. CASE Execute
  <2>1. writes' \in 0..MaxWrites
    BY <1>1, UnattendAssumption DEF Execute, TypeOK
  <2> QED
    BY <1>1, <2>1 DEF Execute, TypeOK, panelVars, stickVars, Well
<1>2. ASSUME NEW o \in ImageOptions \union {"invalid"}, SetImageOption(o)
      PROVE  TypeOK'
  <2>1. session' \in [option : ImageOptions, flags : SUBSET Flags, name : Names]
    BY <1>2 DEF SetImageOption, TypeOK
  <2>2. Call
    BY <1>2 DEF SetImageOption
  <2>3. calls' \in 0..MaxCalls
    BY <2>2, UnattendAssumption DEF Call, TypeOK
  <2> QED
    BY <2>1, <2>2, <2>3 DEF Call, TypeOK, panelVars, stickVars, Well
<1>3. ASSUME NEW s \in CallerSettings, SetUnattend(s)
      PROVE  TypeOK'
  <2>1. session' \in [option : ImageOptions, flags : SUBSET Flags, name : Names]
    BY <1>3, UnattendAssumption DEF SetUnattend, TypeOK
  <2>2. Call
    BY <1>3 DEF SetUnattend
  <2>3. calls' \in 0..MaxCalls
    BY <2>2, UnattendAssumption DEF Call, TypeOK
  <2> QED
    BY <2>1, <2>2, <2>3 DEF Call, TypeOK, panelVars, stickVars, Well
<1> QED
  BY <1>1, <1>2, <1>3 DEF Caller

LEMMA WriteTypeOK == TypeOK /\ Write => TypeOK'
<1> SUFFICES ASSUME TypeOK, Write PROVE TypeOK'
  OBVIOUS
<1>1. UNCHANGED <<panelVars, client, started, given, calls, writes, image>>
  BY DEF Write, Configure, Extract, InjectAutounattend, InjectXml, Complete,
     Fail, Step
<1>2. phase' \in {"idle", "open", "extract", "auto", "togo", "rest", "done", "failed"}
  BY DEF Write, Configure, Extract, InjectAutounattend, InjectXml, Complete,
     Fail, Step
<1>3. session' \in [option : ImageOptions, flags : SUBSET Flags, name : Names]
  <2>1. CASE Configure
    BY <2>1 DEF Configure, TypeOK, Defaults, ImageOptions, Names
  <2>2. CASE ~Configure
    BY <2>2 DEF Write, Extract, InjectAutounattend, InjectXml, Complete,
       Fail, TypeOK
  <2> QED
    BY <2>1, <2>2
<1>4. used' \in [option : ImageOptions, flags : SUBSET Flags, name : Names]
  BY DEF Write, Configure, Extract, InjectAutounattend, InjectXml, Complete,
     Fail, TypeOK
<1>5. Well(auto)' /\ Well(panther)'
  <2> DEFINE F == EffectiveFlags(session)
  <2>1. /\ F \in SUBSET Flags /\ session.name \in Names
        /\ {"offlineDrives"} \in SUBSET Flags /\ "none" \in Names
    BY EffectiveTypes DEF TypeOK, Flags, OtherFlags, Names
  <2>2. /\ Well(Torn) /\ Well(NoFile)
        /\ Well(Answers(GenerateXml(F, session.name)))
        /\ Well(Answers(GenerateXml({"offlineDrives"}, "none")))
    BY <2>1, GeneratedWell
  <2>3. Well([kind |-> "image", xml |-> Nothing])
    BY DEF Well, Nothing, Names
  <2>4. Well(auto) /\ Well(panther)
    BY DEF TypeOK
  <2>5. auto' \in {auto, Torn, NoFile, [kind |-> "image", xml |-> Nothing],
                   Answers(GenerateXml(F, session.name))}
    BY DEF Write, Configure, Extract, InjectAutounattend, InjectXml, Complete,
       Fail, Wrote, stickVars
  <2>6. panther' \in {panther, Torn, NoFile,
                      Answers(GenerateXml({"offlineDrives"}, "none"))}
    BY DEF Write, Configure, Extract, InjectAutounattend, InjectXml, Complete,
       Fail, Wrote, stickVars
  <2>7. Well(auto')
    BY <2>2, <2>3, <2>4, <2>5
  <2>8. Well(panther')
    BY <2>2, <2>4, <2>6
  <2> QED
    BY <2>7, <2>8 DEF Well
<1> QED
  BY <1>1, <1>2, <1>3, <1>4, <1>5 DEF TypeOK, panelVars

LEMMA InitTypeOK == Init => TypeOK
<1> SUFFICES ASSUME Init PROVE TypeOK
  OBVIOUS
<1>1. Well(NoFile)
  BY DEF Well, NoFile, Nothing, Names
<1>2. Well(auto) /\ Well(panther)
  BY <1>1 DEF Init
<1>3. /\ session \in [option : ImageOptions, flags : SUBSET Flags, name : Names]
      /\ used \in [option : ImageOptions, flags : SUBSET Flags, name : Names]
      /\ given \in [flags : SUBSET Flags, name : Names]
      /\ started \in [boxes : SUBSET Boxes, name : Names]
  BY DEF Init, Defaults, ImageOptions, Names
<1>4. clicks \in 0..MaxClicks /\ calls \in 0..MaxCalls /\ writes \in 0..MaxWrites
  BY UnattendAssumption DEF Init
<1>5. /\ client \in {"window", "caller"}
      /\ boxes \subseteq Boxes /\ all \in BOOLEAN /\ name \in Names
      /\ phase = "idle" /\ image \in [windows : BOOLEAN, own : BOOLEAN]
  BY DEF Init, Names
<1> QED
  BY <1>2, <1>3, <1>4, <1>5 DEF TypeOK

LEMMA TypeOKStep == TypeOK /\ [Next]_vars => TypeOK'
<1> SUFFICES ASSUME TypeOK, [Next]_vars PROVE TypeOK'
  OBVIOUS
<1>1. CASE UNCHANGED vars
  BY <1>1 DEF vars, panelVars, workVars, stickVars, TypeOK, Well
<1>2. CASE Next
  BY <1>2, PanelTypeOK, StartTypeOK, CallerTypeOK, WriteTypeOK DEF Next
<1> QED
  BY <1>1, <1>2

\* Whatever is clicked, set and written, the panel, the worker, the session and
\* the two files hold only what the code stores in them.
THEOREM UnattendTypeCorrect == Spec => []TypeOK
BY InitTypeOK, TypeOKStep, PTL DEF Spec
-----------------------------------------------------------------------------
(* What the files are made from.                                           *)

\* What the worker is given for a panel, and the session it makes of that.
HandedOut(panel) == [flags |-> WueFlags(panel.boxes, panel.name),
                     name |-> Username(panel.boxes, panel.name)]
Made(orders) == [option |-> "standard", flags |-> orders.flags,
                 name |-> orders.name]

\* The worker has what the panel said at START; from the extraction to the end
\* the write uses the session as it was, and the window's session is made of
\* nothing but the worker's orders.
GivenInv == given = HandedOut(started)
UsedInv == phase \in {"auto", "togo", "rest"} => used = session
WindowInv ==
  client = "window" =>
    /\ phase \in {"extract", "auto", "togo", "rest"} => session = Made(given)
    /\ phase = "done" => used = Made(given)

\* What each file may be after its step, told by the session that was used.
Shipped == [kind |-> "image", xml |-> Nothing]
AutoOf(s) == IF EffectiveFlags(s) = {} THEN {NoFile, Shipped}
             ELSE Wrote(GenerateXml(EffectiveFlags(s), s.name))
PantherOf(s) == IF ToGo(s) THEN Wrote(GenerateXml({"offlineDrives"}, "none"))
                ELSE {NoFile}

FileInv ==
  /\ phase = "auto" => auto \in {NoFile, Shipped}
  /\ phase \in {"auto", "togo"} => panther = NoFile
  /\ phase \in {"togo", "rest", "done"} /\ image.windows => auto \in AutoOf(used)
  /\ phase \in {"rest", "done"} /\ image.windows => panther \in PantherOf(used)

UnattendInv == TypeOK /\ GivenInv /\ UsedInv /\ WindowInv /\ FileInv

LEMMA InitUnattendInv == Init => UnattendInv
<1> SUFFICES ASSUME Init PROVE UnattendInv
  OBVIOUS
<1>1. TypeOK
  BY InitTypeOK
<1>2. GivenInv
  BY DEF Init, GivenInv, HandedOut, WueFlags, Username
<1>3. UsedInv /\ WindowInv /\ FileInv
  BY DEF Init, UsedInv, WindowInv, FileInv
<1> QED
  BY <1>1, <1>2, <1>3 DEF UnattendInv

\* A click during a write changes nothing of it.
LEMMA PanelKeeps == UnattendInv /\ Panel => UnattendInv'
<1> SUFFICES ASSUME UnattendInv, Panel PROVE UnattendInv'
  OBVIOUS
<1>1. UNCHANGED <<workVars, stickVars>>
  BY DEF Panel, ApplyAllToggled, NameTyped, BoxToggled, Click
<1>2. TypeOK'
  BY PanelTypeOK DEF UnattendInv
<1> QED
  BY <1>1, <1>2 DEF UnattendInv, GivenInv, UsedInv, WindowInv, FileInv, workVars,
     stickVars

LEMMA StartKeeps == UnattendInv /\ Start => UnattendInv'
<1> SUFFICES ASSUME UnattendInv, Start PROVE UnattendInv'
  OBVIOUS
<1>1. TypeOK'
  BY StartTypeOK DEF UnattendInv
<1>2. GivenInv'
  BY DEF Start, GivenInv, HandedOut
<1>3. UsedInv' /\ WindowInv' /\ FileInv'
  BY DEF Start, UsedInv, WindowInv, FileInv
<1> QED
  BY <1>1, <1>2, <1>3 DEF UnattendInv

\* A setter is called between writes, and changes nothing of the last one.
LEMMA CallerKeeps == UnattendInv /\ Caller => UnattendInv'
<1> SUFFICES ASSUME UnattendInv, Caller PROVE UnattendInv'
  OBVIOUS
<1>1. TypeOK'
  BY CallerTypeOK DEF UnattendInv
<1>2. CASE Execute
  BY <1>1, <1>2 DEF Execute, UnattendInv, GivenInv, UsedInv, WindowInv, FileInv,
     panelVars, stickVars
<1>3. CASE Call
  BY <1>1, <1>3 DEF Call, Resting, UnattendInv, GivenInv, UsedInv, WindowInv,
     FileInv, panelVars, stickVars
<1> QED
  BY <1>2, <1>3 DEF Caller, SetImageOption, SetUnattend

LEMMA WriteKeeps == UnattendInv /\ Write => UnattendInv'
<1> SUFFICES ASSUME UnattendInv, Write PROVE UnattendInv'
  OBVIOUS
<1>1. TypeOK'
  BY WriteTypeOK DEF UnattendInv
<1>2. UNCHANGED <<panelVars, client, started, given, calls, writes, image>>
  BY DEF Write, Configure, Extract, InjectAutounattend, InjectXml, Complete,
     Fail, Step
<1>3. GivenInv'
  BY <1>2 DEF UnattendInv, GivenInv
<1>4. UsedInv'
  BY DEF UnattendInv, UsedInv, Write, Configure, Extract, InjectAutounattend,
     InjectXml, Complete, Fail, Step
<1>5. WindowInv'
  <2>1. CASE Configure
    <3>1. given.flags = {} => given.name = "none"
      BY NoFlagNoName DEF UnattendInv, GivenInv, HandedOut
    <3>2. session' = Made(given)
      BY <2>1, <3>1 DEF Configure, Made, Defaults
    <3> QED
      BY <1>2, <2>1, <3>2 DEF WindowInv, Configure, Step, Made
  <2>2. CASE Extract \/ InjectAutounattend \/ InjectXml \/ Fail
    BY <1>2, <2>2 DEF UnattendInv, WindowInv, Extract, InjectAutounattend,
       InjectXml, Fail, Step, Made
  <2>3. CASE Complete
    BY <1>2, <2>3 DEF UnattendInv, UsedInv, WindowInv, Complete, Step, Made
  <2> QED
    BY <2>1, <2>2, <2>3 DEF Write
<1>6. FileInv'
  <2>1. CASE Configure \/ Fail
    BY <2>1 DEF FileInv, Configure, Fail, Step
  <2>2. CASE Extract
    BY <2>2 DEF FileInv, Extract, Step, Shipped
  <2>3. CASE InjectAutounattend
    <3>1. used' = session /\ used' = used
      BY <2>3 DEF UnattendInv, UsedInv, InjectAutounattend, Step
    <3>2. auto' \in AutoOf(used')
      BY <2>3, <3>1 DEF UnattendInv, FileInv, InjectAutounattend, Step, AutoOf
    <3> QED
      BY <2>3, <3>2 DEF UnattendInv, FileInv, InjectAutounattend, Step
  <2>4. CASE InjectXml
    <3>1. used' = session /\ used' = used
      BY <2>4 DEF UnattendInv, UsedInv, InjectXml, Step
    <3>2. panther' \in PantherOf(used')
      BY <2>4, <3>1 DEF UnattendInv, FileInv, InjectXml, Step, PantherOf
    <3> QED
      BY <2>4, <3>1, <3>2 DEF UnattendInv, FileInv, InjectXml, Step
  <2>5. CASE Complete
    BY <2>5 DEF UnattendInv, FileInv, Complete, Step, stickVars
  <2> QED
    BY <2>1, <2>2, <2>3, <2>4, <2>5 DEF Write
<1> QED
  BY <1>1, <1>3, <1>4, <1>5, <1>6 DEF UnattendInv

LEMMA UnattendInvStep == UnattendInv /\ [Next]_vars => UnattendInv'
<1> SUFFICES ASSUME UnattendInv, [Next]_vars PROVE UnattendInv'
  OBVIOUS
<1>1. CASE UNCHANGED vars
  <2>1. TypeOK'
    BY <1>1, TypeOKStep DEF UnattendInv
  <2> QED
    BY <1>1, <2>1 DEF vars, panelVars, workVars, stickVars, UnattendInv, GivenInv,
       UsedInv, WindowInv, FileInv
<1>2. CASE Next
  BY <1>2, PanelKeeps, StartKeeps, CallerKeeps, WriteKeeps DEF Next
<1> QED
  BY <1>1, <1>2

THEOREM UnattendInvHolds == Spec => []UnattendInv
  BY InitUnattendInv, UnattendInvStep, PTL DEF Spec

-----------------------------------------------------------------------------
(* What Setup finds.                                                       *)

\* A file that was generated, and neither lost nor left out, is read with the
\* flags and the name it was made from.
LEMMA FoundAsMade ==
  ASSUME UnattendInv, phase = "done", image.windows, auto.kind # "torn",
         EffectiveFlags(used) # {}
  PROVE  auto = Answers(GenerateXml(EffectiveFlags(used), used.name))
BY DEF UnattendInv, FileInv, AutoOf, Wrote, Torn

\* However a standard installation came to be written, its answer file hides the
\* stick, with the first command (session.c:618-642, wue.c:51-99).
THEOREM InstallerProtectedHolds == Spec => []InstallerProtected
<1>1. UnattendInv => InstallerProtected
  <2> SUFFICES ASSUME UnattendInv, Finished, used.option # "togo",
                      auto.kind # "torn"
               PROVE  /\ auto.kind = "answers" /\ Hides(auto)
                      /\ \A c \in DOMAIN auto.xml.commands \ {"hideInstallMedia"} :
                           auto.xml.commands["hideInstallMedia"]
                             < auto.xml.commands[c]
    BY DEF InstallerProtected
  <2> DEFINE chosen == EffectiveFlags(used) \intersect
                         (Bypasses \union {"hideInstallMedia"})
  <2>1. "hideInstallMedia" \in EffectiveFlags(used)
    BY DEF EffectiveFlags, ToGo
  <2>2. auto = Answers(GenerateXml(EffectiveFlags(used), used.name))
    BY <2>1, FoundAsMade DEF Finished
  <2>3. auto.kind = "answers" /\ auto.xml.commands = Numbered(chosen)
    BY <2>2 DEF Answers, GenerateXml
  <2>4. DOMAIN auto.xml.commands = chosen
    BY <2>3 DEF Numbered
  <2>5. \A c \in chosen \ {"hideInstallMedia"} : Rank("hideInstallMedia") < Rank(c)
    BY TableAssumption DEF Rank
  <2>6. "hideInstallMedia" \in chosen /\ chosen \subseteq Bypasses \union {"hideInstallMedia"}
    BY <2>1
  <2> HIDE DEF chosen
  <2>7. \A c \in chosen \ {"hideInstallMedia"} :
          Numbered(chosen)["hideInstallMedia"] < Numbered(chosen)[c]
    BY <2>5, <2>6, NumbersFollowTable
  <2> QED
    BY <2>3, <2>4, <2>6, <2>7 DEF Hides
<1> QED
  BY <1>1, UnattendInvHolds, PTL

\* A Windows To Go stick has the policy that leaves internal disks alone, and is
\* not hidden on its own (session.c:623-659).
THEOREM ToGoHolds == Spec => []ToGoIsToGo
<1>1. UnattendInv => ToGoIsToGo
  <2> SUFFICES ASSUME UnattendInv, Finished, used.option = "togo"
               PROVE  /\ panther.kind # "torn" => panther.xml.sanPolicy
                      /\ Hides(auto) => "hideInstallMedia" \in used.flags
    BY DEF ToGoIsToGo
  <2>1. panther.kind # "torn" => panther.xml.sanPolicy
    <3>1. panther \in Wrote(GenerateXml({"offlineDrives"}, "none"))
      BY DEF UnattendInv, FileInv, Finished, PantherOf, ToGo
    <3>2. GenerateXml({"offlineDrives"}, "none").sanPolicy
      BY DEF GenerateXml
    <3> QED
      BY <3>1, <3>2 DEF Wrote, Torn, Answers
  <2>2. EffectiveFlags(used) = used.flags
    BY DEF EffectiveFlags, ToGo
  <2>3. auto \in AutoOf(used)
    BY DEF UnattendInv, FileInv, Finished
  <2>4. CASE auto \in {NoFile, Shipped, Torn}
    BY <2>1, <2>4 DEF NoFile, Shipped, Torn, Nothing, Hides
  <2>5. CASE auto = Answers(GenerateXml(used.flags, used.name))
    BY <2>1, <2>5 DEF Answers, GenerateXml, Numbered, Hides
  <2> QED
    BY <2>2, <2>3, <2>4, <2>5 DEF AutoOf, Wrote
<1> QED
  BY <1>1, UnattendInvHolds, PTL

\* The bypasses, the account and the Microsoft account in what the window
\* writes are what its panel said at START, whatever is clicked meanwhile and
\* was written before (WorkerThread.cpp:66-76, wue.c:69-188).
THEOREM AsAskedHolds == Spec => []AsAsked
<1>1. UnattendInv => AsAsked
  <2> SUFFICES ASSUME UnattendInv, Finished, client = "window",
                      auto.kind # "torn"
               PROVE  AsAsked
    BY DEF AsAsked
  <2> DEFINE flags == WueFlags(started.boxes, started.name)
             user == Username(started.boxes, started.name)
             effective == flags \union {"hideInstallMedia"}
             asked == started.boxes \intersect Bypasses
             chosen == {"hideInstallMedia"} \union asked
  <2>1. used = [option |-> "standard", flags |-> flags, name |-> user]
    BY DEF UnattendInv, WindowInv, GivenInv, HandedOut, Made, Finished
  <2>2. EffectiveFlags(used) = effective
    BY <2>1 DEF EffectiveFlags, ToGo
  <2>3. auto = Answers(GenerateXml(effective, user))
    <3> HIDE DEF flags, user
    <3> QED
      BY <2>1, <2>2, FoundAsMade DEF Finished
  <2>4. /\ effective \intersect (Bypasses \union {"hideInstallMedia"}) = chosen
        /\ "noOnlineAccount" \in effective <=> "skipMs" \in started.boxes
        /\ "setUser" \in effective <=> /\ "createAccount" \in started.boxes
                                       /\ Trimmed(started.name) # "none"
    BY TableAssumption DEF WueFlags, OtherFlags
  <2>5. /\ auto.xml.commands = Numbered(chosen)
        /\ "noOnlineAccount" \in auto.xml.oobe <=> "noOnlineAccount" \in effective
        /\ auto.xml.account = IF "setUser" \in effective THEN Safe(user) ELSE "none"
    <3> HIDE DEF effective, user
    <3> QED
      BY <2>3, <2>4 DEF Answers, GenerateXml
  <2>6. DOMAIN auto.xml.commands = chosen
    BY <2>5 DEF Numbered
  <2>7. \A b, c \in asked : Place[b] < Place[c] =>
          Numbered(chosen)[b] < Numbered(chosen)[c]
    <3>1. \A b \in asked : Rank(b) = Place[b] /\ b \in chosen
      BY TableAssumption DEF Rank, OtherFlags
    <3>2. chosen \subseteq Bypasses \union {"hideInstallMedia"}
      OBVIOUS
    <3> HIDE DEF chosen, asked
    <3> QED
      BY <3>1, <3>2, NumbersFollowTable
  <2>8. panther.kind = "none"
    BY <2>1 DEF UnattendInv, FileInv, Finished, PantherOf, ToGo, NoFile
  <2>9. /\ auto.xml.account =
             Safe(IF "createAccount" \in started.boxes
                  THEN Trimmed(started.name) ELSE "none")
        /\ auto.xml.account # "odd"
    BY <2>4, <2>5 DEF Username, Safe
  <2> HIDE DEF flags, user, effective
  <2> QED
    BY <2>4, <2>5, <2>6, <2>7, <2>8, <2>9 DEF AsAsked
<1> QED
  BY <1>1, UnattendInvHolds, PTL
=============================================================================
