------------------------------ MODULE Unattend ------------------------------
(***************************************************************************)
(* From the boxes of the Windows panel to the answer files on the stick    *)
(* (WindowsCustomizeSection.cpp, WorkerThread.cpp, the option setters and  *)
(* step 5 of session.c, wue.c).                                            *)
(*                                                                         *)
(* The window starts a worker with a new session for each write and lets   *)
(* the panel be changed meanwhile; another caller of the library keeps one *)
(* session for all its writes.  An answer file is told by what Setup finds *)
(* in it.                                                                  *)
(***************************************************************************)
EXTENDS Naturals, FiniteSets, Functions

CONSTANTS
  Bypasses,        \* the bypasses of wue.c
  Place,           \* the place of each in its table
  CallerSettings,  \* what a caller sets: records of flags and a name
  MaxClicks,       \* bound on the changes of the panel
  MaxCalls,        \* bound on the setters called
  MaxWrites        \* bound on the writes

Boxes == Bypasses \union {"createAccount", "admin", "skipMs", "offline"}
OtherFlags ==
  {"hideInstallMedia", "noOnlineAccount", "noDataCollection", "offlineDrives",
   "duplicateLocale", "setUser", "disableBitlocker", "silentInstall", "qol"}
Flags == Bypasses \union OtherFlags
ImageOptions == {"standard", "portable", "vhd", "togo"}

\* A name: none at all, spaces only, a good one, the good one with spaces
\* around, one with a character that is forbidden, the same with "_" for it,
\* and one with an ampersand.
Names == {"none", "spaces", "plain", "padded", "odd", "replaced", "ampersand"}

ASSUME TableAssumption ==
  /\ IsFiniteSet(Bypasses) /\ Bypasses \intersect OtherFlags = {}
  /\ Place \in [Bypasses -> Nat \ {0}] /\ IsInjective(Place)
ASSUME UnattendAssumption ==
  /\ CallerSettings \subseteq [flags : SUBSET Flags, name : Names]
  /\ MaxClicks \in Nat /\ MaxCalls \in Nat /\ MaxWrites \in Nat

VARIABLES
  client,   \* who writes: the "window" or a "caller" of the library
  boxes,    \* the ticked boxes
  all,      \* "Apply all" is ticked
  name,     \* m_username
  clicks,
  started,  \* the panel as it was when START was confirmed
  given,    \* m_wueFlags and m_username of the worker
  session,  \* image_option, unattend_flags, unattend_username
  calls,
  used,     \* the session as it was when the write began
  phase,    \* where the write is
  writes,
  image,    \* the image written: for Windows, with an answer file of its own
  auto,     \* autounattend.xml in the root of the stick
  panther   \* sources/$OEM$/$$/Panther/unattend.xml

panelVars == <<boxes, all, name, clicks>>
workVars == <<client, started, given, session, calls, used, phase, writes,
              image>>
stickVars == <<auto, panther>>
vars == <<panelVars, workVars, stickVars>>

-----------------------------------------------------------------------------
(* wue_generate_xml.                                                       *)

\* "_" for each forbidden character; an ampersand is none of them.
Safe(n) == IF n = "odd" THEN "replaced" ELSE n

Nothing == [commands |-> [c \in {} |-> 0], eula |-> FALSE, sanPolicy |-> FALSE,
            oobe |-> {}, account |-> "none"]

\* The number in a command's Order element: a counter through the protection
\* of the stick and then the table, one up for each command that is written.
Rank(c) == IF c = "hideInstallMedia" THEN 0 ELSE Place[c]
Numbered(chosen) ==
  [c \in chosen |-> Cardinality({b \in chosen : Rank(b) <= Rank(c)})]

\* The commands of the windowsPE pass with their numbers, whether the licence
\* is accepted there, the policy for internal disks, and what the OOBE pass
\* says.
GenerateXml(flags, user) ==
  [commands |->
     Numbered(flags \intersect (Bypasses \union {"hideInstallMedia"})),
   eula |-> flags \intersect (Bypasses \union
              {"silentInstall", "hideInstallMedia"}) # {},
   sanPolicy |-> "offlineDrives" \in flags,
   oobe |-> flags \intersect {"noOnlineAccount", "noDataCollection", "qol"},
   account |-> IF "setUser" \in flags THEN Safe(user) ELSE "none"]

NoFile == [kind |-> "none", xml |-> Nothing]
Answers(xml) == [kind |-> "answers", xml |-> xml]

-----------------------------------------------------------------------------
Defaults == [option |-> "standard", flags |-> {}, name |-> "none"]

Well(file) ==
  /\ file.kind \in {"none", "image", "torn", "answers"}
  /\ file.xml.account \in Names
  /\ file.xml.oobe \subseteq Flags

\* Every variable has its type; an image option that is none of the four never
\* reaches the session (session.c:849-853).
TypeOK ==
  /\ client \in {"window", "caller"}
  /\ boxes \subseteq Boxes /\ all \in BOOLEAN /\ name \in Names
  /\ clicks \in 0..MaxClicks /\ calls \in 0..MaxCalls /\ writes \in 0..MaxWrites
  /\ started \in [boxes : SUBSET Boxes, name : Names]
  /\ given \in [flags : SUBSET Flags, name : Names]
  /\ session \in [option : ImageOptions, flags : SUBSET Flags, name : Names]
  /\ used \in [option : ImageOptions, flags : SUBSET Flags, name : Names]
  /\ phase \in {"idle", "open", "extract", "auto", "togo", "rest", "done",
                "failed"}
  /\ image \in [windows : BOOLEAN, own : BOOLEAN]
  /\ Well(auto) /\ Well(panther)

Init ==
  /\ client \in {"window", "caller"}
  /\ boxes = {} /\ all = FALSE /\ name \in {"none", "plain"}
  /\ clicks = 0 /\ calls = 0 /\ writes = 0
  /\ started = [boxes |-> {}, name |-> "none"]
  /\ given = [flags |-> {}, name |-> "none"]
  /\ session = Defaults /\ used = Defaults
  /\ phase = "idle"
  /\ image \in [windows : BOOLEAN, own : BOOLEAN]
  /\ auto = NoFile /\ panther = NoFile

Resting == phase \in {"idle", "done", "failed"}

-----------------------------------------------------------------------------
(* The panel, which may be changed during a write too.                     *)

Trimmed(n) == CASE n = "spaces" -> "none" [] n = "padded" -> "plain"
                [] OTHER -> n

\* wueFlags: the box of the administrator is not read.
WueFlags(ticked, n) ==
  (ticked \intersect Bypasses)
  \union {f \in {"noOnlineAccount"} : "skipMs" \in ticked}
  \union {f \in {"offlineDrives"} : "offline" \in ticked}
  \union {f \in {"setUser"} :
            "createAccount" \in ticked /\ Trimmed(n) # "none"}

Username(ticked, n) ==
  IF "createAccount" \in ticked THEN Trimmed(n) ELSE "none"

Click ==
  /\ client = "window" /\ clicks < MaxClicks /\ clicks' = clicks + 1
  /\ UNCHANGED <<workVars, stickVars>>

\* A box changes; "Apply all" keeps its tick.
BoxToggled(b) ==
  /\ Click
  /\ boxes' = IF b \in boxes THEN boxes \ {b} ELSE boxes \union {b}
  /\ UNCHANGED <<all, name>>

\* onApplyAllToggled sets the five boxes, whatever they were.
ApplyAllToggled ==
  /\ Click
  /\ all' = ~all
  /\ boxes' = IF all' THEN boxes \union Bypasses ELSE boxes \ Bypasses
  /\ UNCHANGED name

NameTyped ==
  /\ Click
  /\ name' \in Names \ {name}
  /\ UNCHANGED <<boxes, all>>

-----------------------------------------------------------------------------
(* The two ways to a write.                                                *)

\* onStart: the worker gets what the panel says now.
Start ==
  /\ client = "window" /\ Resting /\ writes < MaxWrites
  /\ writes' = writes + 1
  /\ started' = [boxes |-> boxes, name |-> name]
  /\ given' = [flags |-> WueFlags(boxes, name), name |-> Username(boxes, name)]
  /\ phase' = "open"
  /\ image' \in [windows : BOOLEAN, own : BOOLEAN]
  /\ UNCHANGED <<panelVars, client, session, calls, used, stickVars>>

Step(from, to) ==
  /\ phase = from /\ phase' = to
  /\ UNCHANGED <<panelVars, client, started, given, calls, writes, image>>

\* A mutant: the options of the write before are still there.
ConfigureOnTop ==
  /\ Step("open", "extract")
  /\ session' = IF given.flags = {} THEN session
                ELSE [option |-> "standard", flags |-> given.flags,
                      name |-> given.name]
  /\ UNCHANGED <<used, stickVars>>

\* WorkerThread::run up to execute: a new session, and the setters.
Configure ==
  /\ Step("open", "extract")
  /\ session' = IF given.flags = {} THEN Defaults
                ELSE [option |-> "standard", flags |-> given.flags,
                      name |-> given.name]
  /\ UNCHANGED <<used, stickVars>>

Call ==
  /\ client = "caller" /\ Resting /\ calls < MaxCalls /\ calls' = calls + 1
  /\ UNCHANGED <<panelVars, client, started, given, used, phase, writes,
                 image, stickVars>>

\* A mutant: any number is taken for an image option.
SetImageOptionUnchecked(option) ==
  Call /\ session' = [session EXCEPT !.option = option]

SetImageOption(option) ==
  /\ Call
  /\ session' = IF option \in ImageOptions
                THEN [session EXCEPT !.option = option] ELSE session

\* The flags are taken as they are.
SetUnattend(s) ==
  Call /\ session' = [session EXCEPT !.flags = s.flags, !.name = s.name]

\* execute of a session that is prepared for some image.
Execute ==
  /\ client = "caller" /\ Resting /\ writes < MaxWrites
  /\ writes' = writes + 1 /\ phase' = "extract"
  /\ image' \in [windows : BOOLEAN, own : BOOLEAN]
  /\ UNCHANGED <<panelVars, client, started, given, session, calls, used,
                 stickVars>>

-----------------------------------------------------------------------------
(* The write.                                                              *)

\* The stick is formatted and filled with the image's files.
Extract ==
  /\ Step("extract", IF image.windows THEN "auto" ELSE "rest")
  /\ auto' = IF image.own THEN [kind |-> "image", xml |-> Nothing] ELSE NoFile
  /\ panther' = NoFile
  /\ used' = session /\ UNCHANGED session

ToGo(s) == s.option = "togo"

Torn == [kind |-> "torn", xml |-> Nothing]
\* A text that does not reach the disk when the file is closed is not noticed.
Wrote(xml) == {Answers(xml), Torn}

\* A mutant: Windows To Go is protected as well.
EffectiveFlagsAlways(s) == s.flags \union {"hideInstallMedia"}

\* A mutant: the protection is added to flags that were asked for.
EffectiveFlagsIfAny(s) ==
  s.flags \union {f \in {"hideInstallMedia"} : ~ToGo(s) /\ s.flags # {}}

EffectiveFlags(s) ==
  s.flags \union {f \in {"hideInstallMedia"} : ~ToGo(s)}

\* wue_inject_autounattend.
InjectAutounattend ==
  /\ Step("auto", "togo")
  /\ auto' \in IF EffectiveFlags(session) = {} THEN {auto}
               ELSE Wrote(GenerateXml(EffectiveFlags(session), session.name))
  /\ UNCHANGED <<session, used, panther>>

\* wue_inject_xml.
InjectXml ==
  /\ Step("togo", "rest")
  /\ panther' \in IF ToGo(session)
                  THEN Wrote(GenerateXml({"offlineDrives"}, "none"))
                  ELSE {panther}
  /\ UNCHANGED <<session, used, auto>>

Complete == Step("rest", "done") /\ UNCHANGED <<session, used, stickVars>>

\* Any of it fails: the answer files as well as all that is left out here.
Fail ==
  /\ ~Resting
  /\ phase' = "failed"
  /\ auto' \in {auto} \union {f \in {Torn} : phase = "auto"}
  /\ panther' \in {panther} \union {f \in {Torn} : phase = "togo"}
  /\ UNCHANGED <<panelVars, client, started, given, session, calls, used,
                 writes, image>>

Panel == ApplyAllToggled \/ NameTyped \/ \E b \in Boxes : BoxToggled(b)
Caller ==
  \/ \E o \in ImageOptions \union {"invalid"} : SetImageOption(o)
  \/ \E s \in CallerSettings : SetUnattend(s)
  \/ Execute
Write == Configure \/ Extract \/ InjectAutounattend \/ InjectXml \/ Complete
         \/ Fail
Next == Panel \/ Start \/ Caller \/ Write

Spec == Init /\ [][Next]_vars

-----------------------------------------------------------------------------
(* Properties.                                                             *)

Finished == phase = "done" /\ image.windows
Hides(file) == "hideInstallMedia" \in DOMAIN file.xml.commands

\* A standard installation that was written tells Setup first of all not to
\* install to the stick, whatever was set for it or for a write before, and in
\* place of the image's own file (session.c:618-642).  Excepted are a text
\* that was lost when the file was closed, and a name with an ampersand, which
\* makes the file no XML.
InstallerProtected ==
  Finished /\ used.option # "togo" /\ auto.kind # "torn"
    /\ auto.xml.account # "ampersand" =>
    /\ auto.kind = "answers" /\ Hides(auto)
    /\ \A c \in DOMAIN auto.xml.commands \ {"hideInstallMedia"} :
         auto.xml.commands["hideInstallMedia"] < auto.xml.commands[c]

\* A stick for Windows To Go tells Windows to leave the internal disks
\* offline, and does not hide itself unless its caller asked for it
\* (session.c:623-659).
ToGoIsToGo ==
  Finished /\ used.option = "togo" =>
    /\ panther.kind # "torn" => panther.xml.sanPolicy
    /\ Hides(auto) => "hideInstallMedia" \in used.flags

\* Of what the window writes, the bypasses, the account and the Microsoft
\* account are what the panel said when START was confirmed, although it may be
\* changed during the write and another write may have left its answers: each
\* bypass once, in the order of the table, and nothing of another write; an
\* account if there is a name for it; no Microsoft account if its box is ticked
\* (WindowsCustomizeSection.cpp:118-134, WorkerThread.cpp:66-76, wue.c:69-188,
\* USER_MANUAL.md:40-47).  Nothing is said of two boxes that the code does not
\* treat as the manual does, "Administrator account" (never read) and "Allow
\* offline installation" (the policy for internal disks, for the manual a
\* setup without a network), nor of a name with an ampersand, which makes the
\* file no XML.
AsAsked ==
  Finished /\ client = "window" /\ auto.kind # "torn"
    /\ auto.xml.account # "ampersand" =>
    LET account == IF "createAccount" \in started.boxes
                   THEN Trimmed(started.name) ELSE "none" IN
    /\ DOMAIN auto.xml.commands =
         {"hideInstallMedia"} \union (started.boxes \intersect Bypasses)
    /\ \A b, c \in started.boxes \intersect Bypasses :
         Place[b] < Place[c] => auto.xml.commands[b] < auto.xml.commands[c]
    /\ "noOnlineAccount" \in auto.xml.oobe <=> "skipMs" \in started.boxes
    /\ auto.xml.account = Safe(account) /\ auto.xml.account # "odd"
    /\ panther.kind = "none"
=============================================================================
