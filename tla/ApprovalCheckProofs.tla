------------------------ MODULE ApprovalCheckProofs ------------------------
(***************************************************************************)
(* For any number of files, inode numbers and texts, and any setting of    *)
(* the build knobs: check() keeps its pin from the moment it takes it, and *)
(* the file it allows on a human's answer is the file the human was asked  *)
(* about.                                                                  *)
(***************************************************************************)
EXTENDS ApprovalCheck, TLAPS

USE DEF world, command, locals, process, outside, waiting

-----------------------------------------------------------------------------
(* Type correctness, one lemma per group of actions.                       *)

LEMMA EnvironmentType ==
  ASSUME TypeOK, Environment
  PROVE  TypeOK'
<1>1. CASE ConsoleChanges
  BY <1>1 DEF TypeOK, ConsoleChanges
<1>2. CASE \E t \in Texts : RewriteSudoLocal(t)
  BY <1>2 DEF TypeOK, RewriteSudoLocal
<1>3. CASE \E i \in Inodes : ReplaceTarget(i)
  <2> PICK i \in Inodes : ReplaceTarget(i)  BY <1>3
  <2>1. created' \in 1..MaxFiles
    BY MaxFilesAssumption DEF TypeOK, ReplaceTarget
  <2>2. path' \in Files
    BY <2>1 DEF ReplaceTarget, File, Files
  <2>3. QED  BY <2>1, <2>2 DEF TypeOK, ReplaceTarget
<1>4. CASE RemoveTarget
  BY <1>4 DEF TypeOK, RemoveTarget
<1>5. CASE KeepAside
  BY <1>5 DEF TypeOK, KeepAside
<1>6. CASE \E f \in aside : PutBack(f)
  BY <1>6 DEF TypeOK, PutBack
<1>7. QED  BY <1>1, <1>2, <1>3, <1>4, <1>5, <1>6 DEF Environment

LEMMA SudoType ==
  ASSUME TypeOK, Sudo
  PROVE  TypeOK'
<1>1. CASE Open
  <2>1. authRan' \in BOOLEAN  BY <1>1 DEF Open
  <2>2. marker' \in BOOLEAN  BY <1>1, <2>1 DEF Open
  <2>3. QED  BY <1>1, <2>1, <2>2 DEF TypeOK, Open, Deciding
<1>2. CASE OpenFails
  BY <1>2 DEF TypeOK, OpenFails
<1>3. CASE NextCommand
  BY <1>3 DEF TypeOK, NextCommand, Reset
<1>4. CASE NextProcess
  BY <1>4 DEF TypeOK, NextProcess, Reset
<1>5. QED  BY <1>1, <1>2, <1>3, <1>4 DEF Sudo

LEMMA EmitType ==
  ASSUME TypeOK, NEW wanted, NEW row \in {"verify", "execute"}, Emit(row, wanted)
  PROVE  shown' \subseteq {"verify", "execute", "question"}
<1>1. shown' \in {shown, shown \cup {row}}
  BY DEF Emit
<1>2. QED  BY <1>1 DEF TypeOK

LEMMA PinType ==
  ASSUME TypeOK, NEW next \in Asked, Pin(next)
  PROVE  TypeOK'
BY FilesAssumption DEF TypeOK, Pin, Return, CloseAndReturn, Files

LEMMA StepAsideType ==
  ASSUME TypeOK,
         \/ VerifyBundles \/ ReadMarker \/ RunForRoot \/ ClassifySession
         \/ ReadChain \/ StepAside \/ Confirm \/ PinForQuestion
         \/ ShowForQuestion \/ AskAgain \/ Answered
  PROVE  TypeOK'
<1>1. CASE VerifyBundles
  BY <1>1 DEF TypeOK, VerifyBundles, Return, Deciding
<1>2. CASE ReadMarker
  <2>1. mk' \in BOOLEAN /\ marker' \in BOOLEAN
    BY <1>2 DEF ReadMarker, TypeOK
  <2>2. QED  BY <1>2, <2>1 DEF TypeOK, ReadMarker, Deciding
<1>3. CASE RunForRoot
  <2>1. shown' \subseteq {"verify", "execute", "question"}
    BY <1>3, EmitType DEF RunForRoot, EmitExecLine
  <2>2. QED  BY <1>3, <2>1 DEF TypeOK, RunForRoot, Return
<1>4. CASE ClassifySession
  BY <1>4 DEF TypeOK, ClassifySession, Classified
<1>5. CASE ReadChain
  BY <1>5 DEF TypeOK, ReadChain, Return, Classified
<1>6. CASE StepAside
  <2>1. shown' \subseteq {"verify", "execute", "question"}
    BY <1>6, EmitType DEF StepAside, EmitExecLine
  <2>2. QED  BY <1>6, <2>1 DEF TypeOK, StepAside, Return
<1>7. CASE Confirm
  BY <1>7 DEF TypeOK, Confirm, Return, Classified
<1>8. CASE PinForQuestion
  BY <1>8, PinType DEF PinForQuestion, Asked
<1>9. CASE ShowForQuestion
  <2>1. shown' \subseteq {"verify", "execute", "question"}
    BY <1>9 DEF TypeOK, ShowForQuestion
  <2>2. QED  BY <1>9, <2>1 DEF TypeOK, ShowForQuestion, CloseAndReturn, Asked
<1>10. CASE AskAgain
  BY <1>10 DEF TypeOK, AskAgain
<1>11. CASE Answered
  BY <1>11 DEF TypeOK, Answered, CloseAndReturn, Asked
<1>12. QED
  BY <1>1, <1>2, <1>3, <1>4, <1>5, <1>6, <1>7, <1>8, <1>9, <1>10, <1>11

LEMMA SheetType ==
  ASSUME TypeOK,
         \/ Resolve \/ PinForSheet \/ FormatPrompt \/ EmitVerifyCode \/ EmitLine
         \/ DropEuid \/ ChoosePolicy \/ NoPolicy \/ Sheet \/ PasswordSheet
         \/ RestoreEuid \/ Decide \/ Restat
  PROVE  TypeOK'
<1>1. CASE Resolve
  <2>1. shown' \subseteq {"verify", "execute", "question"}
    <3>1. shown' = shown \/ EmitExecLine
      BY <1>1 DEF Resolve
    <3>2. QED  BY <3>1, EmitType DEF EmitExecLine, TypeOK
  <2>2. QED  BY <1>1, <2>1 DEF TypeOK, Resolve, Return, Classified
<1>2. CASE PinForSheet
  BY <1>2, PinType DEF PinForSheet, Asked
<1>3. CASE FormatPrompt
  BY <1>3 DEF TypeOK, FormatPrompt, CloseAndReturn, Asked
<1>4. CASE EmitVerifyCode
  <2>1. shown' \subseteq {"verify", "execute", "question"}
    BY <1>4, EmitType DEF EmitVerifyCode
  <2>2. QED  BY <1>4, <2>1 DEF TypeOK, EmitVerifyCode, Asked
<1>5. CASE EmitLine
  <2>1. shown' \subseteq {"verify", "execute", "question"}
    BY <1>5, EmitType DEF EmitLine, EmitExecLine
  <2>2. QED  BY <1>5, <2>1 DEF TypeOK, EmitLine, Asked
<1>6. CASE DropEuid
  BY <1>6 DEF TypeOK, DropEuid, CloseAndReturn, Asked
<1>7. CASE ChoosePolicy
  BY <1>7 DEF TypeOK, ChoosePolicy, Asked
<1>8. CASE NoPolicy
  BY <1>8 DEF TypeOK, NoPolicy, CloseAndReturn
<1>9. CASE Sheet
  BY <1>9 DEF TypeOK, Sheet, Asked
<1>10. CASE PasswordSheet
  BY <1>10 DEF TypeOK, PasswordSheet, Asked
<1>11. CASE RestoreEuid
  BY <1>11 DEF TypeOK, RestoreEuid, Asked
<1>12. CASE Decide
  BY <1>12 DEF TypeOK, Decide, CloseAndReturn, Asked
<1>13. CASE Restat
  BY <1>13 DEF TypeOK, Restat, CloseAndReturn
<1>14. QED
  BY <1>1, <1>2, <1>3, <1>4, <1>5, <1>6, <1>7, <1>8, <1>9, <1>10, <1>11,
     <1>12, <1>13

(* Type correctness: no step of check(), of sudo or of the environment     *)
(* takes a variable out of its type.                                       *)
THEOREM TypeCorrect == Spec => []TypeOK
<1>1. Init => TypeOK
  <2> SUFFICES ASSUME Init PROVE TypeOK
    OBVIOUS
  <2>1. path \in Files
    BY MaxFilesAssumption DEF Init, File, Files
  <2>2. created \in 1..MaxFiles /\ marker \in BOOLEAN /\ inherited \in BOOLEAN
    BY MaxFilesAssumption DEF Init
  <2>3. QED  BY <2>1, <2>2 DEF Init, TypeOK
<1>2. TypeOK /\ [Next]_vars => TypeOK'
  <2> SUFFICES ASSUME TypeOK, [Next]_vars PROVE TypeOK'
    OBVIOUS
  <2>1. CASE UNCHANGED vars
    BY <2>1 DEF vars, TypeOK
  <2>2. CASE Next
    BY <2>2, EnvironmentType, SudoType, StepAsideType, SheetType DEF Next, Check
  <2>3. QED  BY <2>1, <2>2
<1>3. QED  BY <1>1, <1>2, PTL DEF Spec

-----------------------------------------------------------------------------
(* The pin.                                                                *)

LEMMA HeldShrinks ==
  ASSUME NumbersApart, HeldFiles' \subseteq HeldFiles
  PROVE  NumbersApart'
BY DEF NumbersApart

LEMMA EnvironmentKeepsPin ==
  ASSUME TypeOK, PinInv, Environment
  PROVE  PinInv'
<1>1. PinExactlyWhileAsked'
  BY DEF PinInv, PinExactlyWhileAsked, Environment, ConsoleChanges, RewriteSudoLocal,
         ReplaceTarget, RemoveTarget, KeepAside, PutBack
<1>2. NumbersApart'
  <2>1. CASE \E i \in Inodes : ReplaceTarget(i)
    <3> PICK i \in Inodes : ReplaceTarget(i)  BY <2>1
    <3>1. path'.ino = i /\ HeldFiles' \subseteq HeldFiles \cup {path'}
      BY DEF ReplaceTarget, File, HeldFiles
    <3>2. \A f \in HeldFiles : f.ino # i
      BY DEF ReplaceTarget, InUse
    <3>3. QED  BY <3>1, <3>2 DEF PinInv, NumbersApart
  <2>2. CASE ConsoleChanges \/ (\E t \in Texts : RewriteSudoLocal(t))
             \/ RemoveTarget \/ KeepAside \/ (\E f \in aside : PutBack(f))
    <3>1. HeldFiles' \subseteq HeldFiles
      BY <2>2 DEF HeldFiles, ConsoleChanges, RewriteSudoLocal, RemoveTarget,
                  KeepAside, PutBack
    <3>2. QED  BY <3>1, HeldShrinks DEF PinInv
  <2>3. QED  BY <2>1, <2>2 DEF Environment
<1>3. QED  BY <1>1, <1>2 DEF PinInv

LEMMA SudoKeepsPin ==
  ASSUME TypeOK, PinInv, Sudo
  PROVE  PinInv'
<1>1. HeldFiles' \subseteq HeldFiles
  BY DEF HeldFiles, Sudo, Open, OpenFails, NextCommand, NextProcess, Reset
<1>2. pc' \notin Asked /\ fd' = NoFile
  BY DEF PinInv, PinExactlyWhileAsked, Asked, Sudo, Open, OpenFails, NextCommand,
         NextProcess, Reset
<1>3. QED  BY <1>1, <1>2, HeldShrinks DEF PinInv, PinExactlyWhileAsked

(* Taking it, from a place where none is held.                             *)
LEMMA PinTaken ==
  ASSUME TypeOK, PinInv, pc \notin Asked, NEW next \in Asked, Pin(next)
  PROVE  PinInv'
<1>1. HeldFiles' \subseteq HeldFiles
  BY DEF HeldFiles, Pin, Return, CloseAndReturn
<1>2. PinExactlyWhileAsked'
  <2>1. "done" \notin Asked  BY DEF Asked
  <2>2. QED
    BY <2>1 DEF TypeOK, PinInv, PinExactlyWhileAsked, Pin, Return, CloseAndReturn
<1>3. QED  BY <1>1, <1>2, HeldShrinks DEF PinInv

(* Every other step of check() keeps the pin, or closes it as it returns.  *)
LEMMA PinKept ==
  ASSUME TypeOK, PinInv, UNCHANGED <<path, aside, preIno, subject>>,
         \/ pc \notin Asked /\ pc' \notin Asked /\ fd' = fd
         \/ pc \in Asked /\ pc' \in Asked /\ fd' = fd
         \/ pc' \notin Asked /\ fd' = NoFile
  PROVE  PinInv'
<1>1. HeldFiles' \subseteq HeldFiles
  BY DEF HeldFiles, PinInv, PinExactlyWhileAsked
<1>2. PinExactlyWhileAsked'
  BY DEF PinInv, PinExactlyWhileAsked
<1>3. QED  BY <1>1, <1>2, HeldShrinks DEF PinInv

LEMMA StepAsideKeepsPin ==
  ASSUME TypeOK, PinInv,
         \/ VerifyBundles \/ ReadMarker \/ RunForRoot \/ ClassifySession
         \/ ReadChain \/ StepAside \/ Confirm \/ PinForQuestion
         \/ ShowForQuestion \/ AskAgain \/ Answered
  PROVE  PinInv'
<1>1. CASE PinForQuestion
  BY <1>1, PinTaken DEF PinForQuestion, Asked
<1>2. CASE VerifyBundles \/ ReadMarker \/ RunForRoot \/ ClassifySession
           \/ ReadChain \/ StepAside \/ Confirm
  BY <1>2, PinKept DEF Asked, VerifyBundles, ReadMarker, RunForRoot,
     ClassifySession, ReadChain, StepAside, Confirm, Return
<1>3. CASE ShowForQuestion \/ AskAgain \/ Answered
  BY <1>3, PinKept DEF Asked, ShowForQuestion, AskAgain, Answered, CloseAndReturn
<1>4. QED  BY <1>1, <1>2, <1>3

LEMMA SheetKeepsPin ==
  ASSUME TypeOK, PinInv,
         \/ Resolve \/ PinForSheet \/ FormatPrompt \/ EmitVerifyCode \/ EmitLine
         \/ DropEuid \/ ChoosePolicy \/ NoPolicy \/ Sheet \/ PasswordSheet
         \/ RestoreEuid \/ Decide \/ Restat
  PROVE  PinInv'
<1>1. CASE PinForSheet
  BY <1>1, PinTaken DEF PinForSheet, Asked
<1>2. CASE Resolve
  BY <1>2, PinKept DEF Asked, Resolve, Return
<1>3. CASE FormatPrompt \/ EmitVerifyCode \/ EmitLine \/ DropEuid
           \/ ChoosePolicy \/ NoPolicy
  BY <1>3, PinKept DEF Asked, FormatPrompt, EmitVerifyCode, EmitLine, DropEuid,
     ChoosePolicy, NoPolicy, CloseAndReturn
<1>4. CASE Sheet \/ PasswordSheet \/ RestoreEuid \/ Decide \/ Restat
  BY <1>4, PinKept DEF Asked, Sheet, PasswordSheet, RestoreEuid, Decide, Restat,
     CloseAndReturn
<1>5. QED  BY <1>1, <1>2, <1>3, <1>4

(* The pin is held exactly while the human is being asked, and while it is *)
(* no other file that is named or held has its number.                     *)
THEOREM PinInvariant == Spec => []PinInv
<1>1. Init => PinInv
  <2> SUFFICES ASSUME Init PROVE PinInv
    OBVIOUS
  <2>1. PinExactlyWhileAsked  BY DEF Init, PinExactlyWhileAsked, Asked
  <2>2. HeldFiles \subseteq {path}  BY DEF Init, HeldFiles
  <2>3. QED  BY <2>1, <2>2 DEF PinInv, NumbersApart
<1>2. TypeOK /\ PinInv /\ [Next]_vars => PinInv'
  <2> SUFFICES ASSUME TypeOK, PinInv, [Next]_vars PROVE PinInv'
    OBVIOUS
  <2>1. CASE UNCHANGED vars
    BY <2>1 DEF vars, PinInv, PinExactlyWhileAsked, NumbersApart, HeldFiles
  <2>2. CASE Next
    BY <2>2, EnvironmentKeepsPin, SudoKeepsPin, StepAsideKeepsPin, SheetKeepsPin
       DEF Next, Check
  <2>3. QED  BY <2>1, <2>2
<1>3. QED  BY <1>1, <1>2, TypeCorrect, PTL DEF Spec

(* No return of check() leaks the pinned descriptor, and no step between   *)
(* taking the pin and the last look at the path lets go of it.             *)
THEOREM PinIsKept == Spec => []PinExactlyWhileAsked
<1>1. PinInv => PinExactlyWhileAsked  BY DEF PinInv
<1>2. QED  BY <1>1, PinInvariant, PTL

(* The file allowed on a human's answer is the file the human was asked    *)
(* about, although check() compares inode numbers only.                    *)
THEOREM ApprovedFileIsTheSubject == Spec => ApprovedFileRuns
<1> DEFINE Allowed == ground' = "human" /\ ground # "human"
                        => path = subject /\ subject # NoFile
<1>1. TypeOK /\ PinInv /\ [Next]_vars => [Allowed]_vars
  <2> SUFFICES ASSUME TypeOK, PinInv, Next, ground' = "human", ground # "human"
               PROVE  path = subject /\ subject # NoFile
    BY DEF vars
  <2>1. Restat
    BY DEF Next, Check, Environment, ConsoleChanges, RewriteSudoLocal, ReplaceTarget,
      RemoveTarget, KeepAside, PutBack, Sudo, Open, OpenFails, NextCommand, NextProcess,
      Reset, VerifyBundles, ReadMarker, RunForRoot, ClassifySession, ReadChain,
      StepAside, Confirm, PinForQuestion, PinForSheet, Pin, ShowForQuestion, AskAgain,
      Answered, Resolve, FormatPrompt, EmitVerifyCode, EmitLine, DropEuid,
      ChoosePolicy, NoPolicy, Sheet, PasswordSheet, RestoreEuid, Decide,
      Return, CloseAndReturn
  <2>2. path # NoFile /\ path.ino = preIno /\ pc \in Asked
    BY <2>1 DEF Restat, CloseAndReturn, Asked
  <2>3. fd = subject /\ subject \in Files /\ preIno = subject.ino
    BY <2>2 DEF PinInv, PinExactlyWhileAsked
  <2>4. path \in HeldFiles /\ fd \in HeldFiles
    BY <2>2, <2>3, FilesAssumption DEF HeldFiles
  <2>5. QED
    BY <2>2, <2>3, <2>4, FilesAssumption DEF PinInv, NumbersApart
<1>2. QED  BY <1>1, TypeCorrect, PinInvariant, PTL DEF Spec, ApprovedFileRuns

-----------------------------------------------------------------------------
(* The caller, the marker, the answer and the effective uid.               *)

USE DEF StageInv, CallerInv, MarkerInv, AnswerInv, EuidInv, AllowHasGround,
        MarkerTellsThisCommand, EuidScoped, Classified, Asked, OnSheetPath

LEMMA EnvironmentKeepsStage ==
  ASSUME StageInv, Environment
  PROVE  StageInv'
BY DEF Environment, ConsoleChanges, RewriteSudoLocal, ReplaceTarget, RemoveTarget,
       KeepAside, PutBack

LEMMA SudoKeepsStage ==
  ASSUME TypeOK, StageInv, Sudo
  PROVE  StageInv'
<1>1. CASE Open
  BY <1>1 DEF Open, TypeOK
<1>2. CASE OpenFails
  BY <1>2 DEF OpenFails
<1>3. CASE NextCommand
  BY <1>3 DEF NextCommand, Reset
<1>4. CASE NextProcess
  BY <1>4 DEF NextProcess, Reset
<1>5. QED  BY <1>1, <1>2, <1>3, <1>4 DEF Sudo

LEMMA StepAsideKeepsStage ==
  ASSUME TypeOK, StageInv,
         \/ VerifyBundles \/ ReadMarker \/ RunForRoot \/ ClassifySession
         \/ ReadChain \/ StepAside \/ Confirm \/ PinForQuestion
         \/ ShowForQuestion \/ AskAgain \/ Answered
  PROVE  StageInv'
<1>1. CASE VerifyBundles
  BY <1>1 DEF VerifyBundles, Return
<1>2. CASE ReadMarker
  BY <1>2 DEF ReadMarker, TypeOK
<1>3. CASE RunForRoot
  BY <1>3 DEF RunForRoot, Return
<1>4. CASE ClassifySession
  BY <1>4 DEF ClassifySession, TypeOK
<1>5. CASE ReadChain
  BY <1>5 DEF ReadChain, Return
<1>6. CASE StepAside
  BY <1>6 DEF StepAside, Return
<1>7. CASE Confirm
  BY <1>7 DEF Confirm, Return
<1>8. CASE PinForQuestion
  BY <1>8 DEF PinForQuestion, Pin, Return, CloseAndReturn
<1>9. CASE ShowForQuestion
  BY <1>9 DEF ShowForQuestion, CloseAndReturn
<1>10. CASE AskAgain \/ Answered
  BY <1>10 DEF AskAgain, Answered, CloseAndReturn
<1>11. QED
  BY <1>1, <1>2, <1>3, <1>4, <1>5, <1>6, <1>7, <1>8, <1>9, <1>10

LEMMA SheetKeepsStage ==
  ASSUME TypeOK, StageInv,
         \/ Resolve \/ PinForSheet \/ FormatPrompt \/ EmitVerifyCode \/ EmitLine
         \/ DropEuid \/ ChoosePolicy \/ NoPolicy \/ Sheet \/ PasswordSheet
         \/ RestoreEuid \/ Decide \/ Restat
  PROVE  StageInv'
<1>1. CASE Resolve
  BY <1>1 DEF Resolve, Return, DeferDecision
<1>2. CASE PinForSheet
  BY <1>2 DEF PinForSheet, Pin, Return, CloseAndReturn
<1>3. CASE FormatPrompt \/ EmitVerifyCode \/ EmitLine
  <2>1. CASE FormatPrompt
    BY <2>1 DEF FormatPrompt, CloseAndReturn
  <2>2. CASE EmitVerifyCode
    BY <2>2 DEF EmitVerifyCode
  <2>3. CASE EmitLine
    BY <2>3 DEF EmitLine
  <2>4. QED  BY <1>3, <2>1, <2>2, <2>3
<1>4. CASE DropEuid
  BY <1>4 DEF DropEuid, CloseAndReturn
<1>5. CASE ChoosePolicy \/ NoPolicy
  <2>1. CASE ChoosePolicy
    BY <2>1 DEF ChoosePolicy
  <2>2. CASE NoPolicy
    BY <2>2 DEF NoPolicy, CloseAndReturn
  <2>3. QED  BY <1>5, <2>1, <2>2
<1>6. CASE Sheet \/ PasswordSheet
  BY <1>6 DEF Sheet, PasswordSheet
<1>7. CASE RestoreEuid
  BY <1>7 DEF RestoreEuid
<1>8. CASE Decide
  BY <1>8 DEF Decide, CloseAndReturn
<1>9. CASE Restat
  BY <1>9 DEF Restat, CloseAndReturn
<1>10. QED
  BY <1>1, <1>2, <1>3, <1>4, <1>5, <1>6, <1>7, <1>8, <1>9

HIDE DEF StageInv, CallerInv, MarkerInv, AnswerInv, EuidInv, AllowHasGround,
         MarkerTellsThisCommand, EuidScoped, Classified, Asked, OnSheetPath

(* What each stage of check() has established.                             *)
THEOREM StageInvariant == Spec => []StageInv
<1>1. Init => StageInv
  BY DEF Init, StageInv, CallerInv, MarkerInv, AnswerInv, EuidInv, AllowHasGround,
         MarkerTellsThisCommand, EuidScoped, Classified, Asked, OnSheetPath
<1>2. TypeOK /\ StageInv /\ [Next]_vars => StageInv'
  <2> SUFFICES ASSUME TypeOK, StageInv, [Next]_vars PROVE StageInv'
    OBVIOUS
  <2>1. CASE UNCHANGED vars
    BY <2>1 DEF vars, StageInv, CallerInv, MarkerInv, AnswerInv, EuidInv, AllowHasGround,
         MarkerTellsThisCommand, EuidScoped, Classified, Asked, OnSheetPath
  <2>2. CASE Next
    BY <2>2, EnvironmentKeepsStage, SudoKeepsStage, StepAsideKeepsStage,
       SheetKeepsStage DEF Next, Check
  <2>3. QED  BY <2>1, <2>2
<1>3. QED  BY <1>1, <1>2, TypeCorrect, PTL DEF Spec

(* No command is allowed without its ground: no sheet and no question is   *)
(* skipped for a command sudo authenticated.                               *)
THEOREM AllowIsGrounded == Spec => []AllowHasGround
<1>1. StageInv => AllowHasGround  BY DEF StageInv
<1>2. QED  BY <1>1, StageInvariant, PTL

(* The marker read in check() is this command's own, or the caller's.      *)
THEOREM MarkerIsThisCommands == Spec => []MarkerTellsThisCommand
<1>1. StageInv => MarkerTellsThisCommand  BY DEF StageInv, MarkerInv
<1>2. QED  BY <1>1, StageInvariant, PTL

(* The effective uid is dropped for the dialogs only.                      *)
THEOREM EuidIsScoped == Spec => []EuidScoped
<1>1. StageInv => EuidScoped  BY DEF StageInv, EuidInv
<1>2. QED  BY <1>1, StageInvariant, PTL

(* A dialog is up for the console's own unprivileged caller only, under    *)
(* his uid, with the command's file pinned.                                *)
THEOREM SheetIsOwn == Spec => []SheetIsTheCallersOwn
<1>1. StageInv /\ PinInv => SheetIsTheCallersOwn
  BY FilesAssumption DEF PinInv, PinExactlyWhileAsked, SheetIsTheCallersOwn, StageInv,
     CallerInv, EuidInv, Classified, Asked, OnSheetPath
<1>2. QED  BY <1>1, StageInvariant, PinInvariant, PTL

-----------------------------------------------------------------------------
(* The plugin implements the gate.                                         *)

USE DEF Phase, Verdict, Deciding, Classified, Asked, AnswerInv, Gate!vars

LEMMA EnvironmentIsGate ==
  ASSUME TypeOK, TypeOK', Environment
  PROVE  Gate!Environment
BY DEF Gate!Environment, TypeOK, Environment, ConsoleChanges, RewriteSudoLocal,
       ReplaceTarget, RemoveTarget, KeepAside, PutBack

LEMMA SudoIsGate ==
  ASSUME TypeOK, StageInv, Sudo
  PROVE  Gate!Begin \/ Gate!RefuseUnopened \/ Gate!Finish
<1>0. AnswerInv  BY DEF StageInv
<1>1. Open => Gate!Begin
  BY <1>0 DEF Open, Gate!Begin
<1>2. OpenFails => Gate!RefuseUnopened
  BY <1>0 DEF OpenFails, Gate!RefuseUnopened
<1>3. NextCommand => Gate!Finish
  BY DEF NextCommand, Reset, Gate!Finish
<1>4. NextProcess => Gate!Finish
  BY DEF NextProcess, Reset, Gate!Finish
<1>5. QED  BY <1>1, <1>2, <1>3, <1>4 DEF Sudo

(* Returns: before and after the pin.                                      *)
LEMMA RefusalIsGate ==
  ASSUME StageInv, pc \in Deciding \cup Classified \cup Asked, pc' \in {"done", "exited"},
         verdict' \in {"deny", "error", "exit"}, ground' = "none",
         UNCHANGED <<class, subject, path, onConsole, uid, authRan>>
  PROVE  Gate!Refuse
BY DEF Gate!Refuse, Gate!Conclude

(* Going on within a phase.                                                *)
LEMMA StepWithin ==
  ASSUME \/ pc \in Deciding /\ pc' \in Deciding
         \/ pc \in Classified /\ pc' \in Classified
         \/ pc \in Asked /\ pc' \in Asked,
         UNCHANGED <<class, verdict, ground, subject, path, onConsole, uid, authRan>>
  PROVE  UNCHANGED Gate!vars
OBVIOUS

LEMMA PinIsGate ==
  ASSUME TypeOK, StageInv, pc \in Classified, NEW next \in Asked, Pin(next)
  PROVE  Gate!Ask \/ Gate!Refuse
<1>1. CASE pc' = "done"
  BY <1>1, RefusalIsGate DEF Pin, Return, CloseAndReturn
<1>2. CASE pc' # "done"
  BY <1>2 DEF Pin, Return, CloseAndReturn, Gate!Ask
<1>3. QED  BY <1>1, <1>2

LEMMA StepAsideIsGate ==
  ASSUME TypeOK, StageInv,
         \/ VerifyBundles \/ ReadMarker \/ RunForRoot \/ ClassifySession
         \/ ReadChain \/ StepAside \/ Confirm \/ PinForQuestion
         \/ ShowForQuestion \/ AskAgain \/ Answered
  PROVE  Gate!Next \/ UNCHANGED Gate!vars
<1>0. AnswerInv  BY DEF StageInv
<1>1. CASE VerifyBundles
  BY <1>1, RefusalIsGate, StepWithin DEF VerifyBundles, Return, Gate!Next
<1>2. CASE ReadMarker
  BY <1>2, StepWithin DEF ReadMarker
<1>3. CASE RunForRoot
  BY <1>3 DEF RunForRoot, Return, Gate!Next, Gate!RunForRoot, Gate!Conclude
<1>4. CASE ClassifySession
  <2>1. Gate!Classify  BY <1>4 DEF ClassifySession, Gate!Classify
  <2>2. QED  BY <2>1 DEF Gate!Next
<1>5. CASE ReadChain
  BY <1>5, RefusalIsGate, StepWithin DEF ReadChain, Return, Gate!Next
<1>6. CASE StepAside
  <2>1. class = "other" /\ (~mk => ~authRan)
    BY <1>6 DEF StageInv, CallerInv, MarkerInv, MarkerTellsThisCommand, StepAside
  <2>2. CASE mk
    <3>1. Gate!RunAuthenticated
      BY <1>6, <2>1, <2>2 DEF StepAside, Return, Gate!RunAuthenticated, Gate!Conclude
    <3>2. QED  BY <3>1 DEF Gate!Next
  <2>3. CASE ~mk
    <3>1. Gate!RunWaived
      BY <1>6, <2>1, <2>3 DEF StepAside, Return, Gate!RunWaived, Gate!Conclude
    <3>2. QED  BY <3>1 DEF Gate!Next
  <2>4. QED  BY <2>2, <2>3
<1>7. CASE Confirm
  BY <1>7, RefusalIsGate, StepWithin DEF Confirm, Return, Gate!Next
<1>8. CASE PinForQuestion
  BY <1>8, PinIsGate DEF PinForQuestion, Gate!Next
<1>9. CASE ShowForQuestion
  BY <1>9, RefusalIsGate, StepWithin DEF ShowForQuestion, CloseAndReturn, Gate!Next
<1>10. CASE AskAgain
  BY <1>10, StepWithin DEF AskAgain
<1>11. CASE Answered
  BY <1>11, RefusalIsGate, StepWithin DEF Answered, CloseAndReturn, Gate!Next
<1>12. QED
  BY <1>1, <1>2, <1>3, <1>4, <1>5, <1>6, <1>7, <1>8, <1>9, <1>10, <1>11

LEMMA SheetIsGate ==
  ASSUME TypeOK, StageInv, PinInv,
         \/ Resolve \/ PinForSheet \/ FormatPrompt \/ EmitVerifyCode \/ EmitLine
         \/ DropEuid \/ ChoosePolicy \/ NoPolicy \/ Sheet \/ PasswordSheet
         \/ RestoreEuid \/ Decide
  PROVE  Gate!Next \/ UNCHANGED Gate!vars
<1>0. AnswerInv  BY DEF StageInv
<1>1. CASE Resolve
  <2>1. CASE verdict' = "error"
    BY <1>0, <1>1, <2>1, RefusalIsGate DEF Resolve, Return, Gate!Next
  <2>2. CASE pc' = "pinSheet"
    BY <1>0, <1>1, <2>2, StepWithin DEF Resolve, Return
  <2>3. CASE verdict' = "allow" /\ pc' # "pinSheet"
    <3>1. ~mk /\ pc = "resolve"
      BY <1>0, <1>1, <2>3 DEF Resolve, Return, DeferDecision
    <3>2. ~authRan
      BY <3>1 DEF StageInv, MarkerInv, MarkerTellsThisCommand
    <3>3. Gate!RunWaived
      BY <1>0, <1>1, <2>3, <3>2 DEF Resolve, Return, Gate!RunWaived, Gate!Conclude
    <3>4. QED  BY <3>3 DEF Gate!Next
  <2>4. QED  BY <1>1, <2>1, <2>2, <2>3 DEF Resolve, Return
<1>2. CASE PinForSheet
  BY <1>2, PinIsGate DEF PinForSheet, Gate!Next
<1>3. CASE FormatPrompt
  BY <1>3, RefusalIsGate, StepWithin DEF FormatPrompt, CloseAndReturn, Gate!Next
<1>4. CASE EmitVerifyCode \/ EmitLine \/ ChoosePolicy \/ Sheet \/ PasswordSheet
  BY <1>4, StepWithin DEF EmitVerifyCode, EmitLine, ChoosePolicy, Sheet, PasswordSheet
<1>5. CASE DropEuid
  BY <1>5, RefusalIsGate, StepWithin DEF DropEuid, CloseAndReturn, Gate!Next
<1>6. CASE NoPolicy
  BY <1>6, RefusalIsGate DEF NoPolicy, CloseAndReturn, Gate!Next
<1>7. CASE RestoreEuid
  BY <1>0, <1>7, RefusalIsGate, StepWithin DEF RestoreEuid, Gate!Next
<1>8. CASE Decide
  BY <1>8, RefusalIsGate, StepWithin DEF Decide, CloseAndReturn, Gate!Next
<1>9. QED  BY <1>1, <1>2, <1>3, <1>4, <1>5, <1>6, <1>7, <1>8

(* The last look at the path: the inode number is the pin's, so the file   *)
(* is.                                                                     *)
LEMMA RestatIsGate ==
  ASSUME TypeOK, StageInv, PinInv, Restat
  PROVE  Gate!RunAnswered \/ Gate!Refuse
<1>1. CASE verdict' = "allow"
  <2>1. pc = "restat" /\ path # NoFile /\ path.ino = preIno
    BY <1>1 DEF Restat, CloseAndReturn
  <2>2. fd = subject /\ subject \in Files /\ preIno = subject.ino
    BY <2>1 DEF PinInv, PinExactlyWhileAsked
  <2>3. path \in HeldFiles /\ fd \in HeldFiles
    BY <2>1, <2>2, FilesAssumption DEF HeldFiles
  <2>4. path = subject
    BY <2>1, <2>2, <2>3 DEF PinInv, NumbersApart
  <2>5. QED
    BY <1>1, <2>1, <2>4 DEF Restat, CloseAndReturn, Gate!RunAnswered, Gate!Conclude
<1>2. CASE verdict' # "allow"
  BY <1>2, RefusalIsGate DEF Restat, CloseAndReturn
<1>3. QED  BY <1>1, <1>2

HIDE DEF Phase, Verdict, Gate!vars, AnswerInv

(* The detailed check() implements the gate: every one of its steps is a   *)
(* step the gate allows, or none at all.                                   *)
THEOREM CheckImplementsGate == Spec => ImplementsGate
<1>1. Init => Gate!Init
  <2> SUFFICES ASSUME Init PROVE Gate!Init
    OBVIOUS
  <2>1. path \in Files  BY MaxFilesAssumption DEF Init, File, Files
  <2>2. QED  BY <2>1 DEF Init, Gate!Init, Phase, Verdict
<1>2. TypeOK /\ TypeOK' /\ StageInv /\ PinInv /\ [Next]_vars => [Gate!Next]_(Gate!vars)
  <2> SUFFICES ASSUME TypeOK, TypeOK', StageInv, PinInv, [Next]_vars
               PROVE  Gate!Next \/ UNCHANGED Gate!vars
    OBVIOUS
  <2>1. CASE UNCHANGED vars
    BY <2>1 DEF vars, Gate!vars, Phase, Verdict
  <2>2. CASE Next
    <3>1. CASE Environment
      BY <3>1, EnvironmentIsGate DEF Gate!Next
    <3>2. CASE Sudo
      BY <3>2, SudoIsGate DEF Gate!Next
    <3>3. CASE Restat
      BY <3>3, RestatIsGate DEF Gate!Next
    <3>4. CASE (Check \/ AskAgain) /\ ~Restat
      BY <3>4, StepAsideIsGate, SheetIsGate DEF Check
    <3>5. QED  BY <2>2, <3>1, <3>2, <3>3, <3>4 DEF Next
  <2>3. QED  BY <2>1, <2>2
<1>3. QED
  BY <1>1, <1>2, TypeCorrect, StageInvariant, PinInvariant, PTL
     DEF Spec, ImplementsGate, Gate!Spec

-----------------------------------------------------------------------------
(* The run question and the line it is about.                              *)

BlindInv == QuestionNotBlind /\ (pc = "ask" => "execute" \in shown)

(* A row that is emitted on the way is not the question.                   *)
LEMMA EmitIsNoQuestion ==
  ASSUME BlindInv, NEW wanted, NEW row \in {"verify", "execute"}, Emit(row, wanted),
         pc' # "ask"
  PROVE  BlindInv'
BY DEF BlindInv, QuestionNotBlind, Emit

LEMMA StepAsideIsNotBlind ==
  ASSUME TypeOK, BlindInv,
         \/ VerifyBundles \/ ReadMarker \/ RunForRoot \/ ClassifySession
         \/ ReadChain \/ StepAside \/ Confirm \/ PinForQuestion
         \/ ShowForQuestion \/ AskAgain \/ Answered
  PROVE  BlindInv'
<1>1. CASE VerifyBundles \/ ReadMarker \/ ClassifySession \/ ReadChain \/ Confirm
           \/ PinForQuestion
  BY <1>1 DEF BlindInv, QuestionNotBlind, VerifyBundles, ReadMarker, ClassifySession,
     ReadChain, Confirm, PinForQuestion, Pin, Return, CloseAndReturn
<1>2. CASE RunForRoot \/ StepAside
  BY <1>2, EmitIsNoQuestion DEF RunForRoot, StepAside, EmitExecLine, Return
<1>3. CASE ShowForQuestion
  BY <1>3 DEF BlindInv, QuestionNotBlind, ShowForQuestion, CloseAndReturn
<1>4. CASE AskAgain \/ Answered
  BY <1>4 DEF BlindInv, QuestionNotBlind, AskAgain, Answered, CloseAndReturn
<1>5. QED  BY <1>1, <1>2, <1>3, <1>4

LEMMA SheetIsNotBlind ==
  ASSUME TypeOK, BlindInv,
         \/ Resolve \/ PinForSheet \/ FormatPrompt \/ EmitVerifyCode \/ EmitLine
         \/ DropEuid \/ ChoosePolicy \/ NoPolicy \/ Sheet \/ PasswordSheet
         \/ RestoreEuid \/ Decide \/ Restat
  PROVE  BlindInv'
<1>1. CASE Resolve
  <2>1. pc' # "ask" /\ (UNCHANGED shown \/ EmitExecLine)
    BY <1>1 DEF Resolve, Return
  <2>2. QED  BY <2>1, EmitIsNoQuestion DEF EmitExecLine, BlindInv, QuestionNotBlind
<1>2. CASE EmitVerifyCode \/ EmitLine
  BY <1>2, EmitIsNoQuestion DEF EmitVerifyCode, EmitLine, EmitExecLine
<1>3. CASE \/ PinForSheet \/ FormatPrompt \/ DropEuid \/ ChoosePolicy \/ NoPolicy
           \/ Sheet \/ PasswordSheet \/ RestoreEuid \/ Decide \/ Restat
  BY <1>3 DEF BlindInv, QuestionNotBlind, PinForSheet, Pin, FormatPrompt, DropEuid,
     ChoosePolicy, NoPolicy, Sheet, PasswordSheet, RestoreEuid, Decide, Restat,
     Return, CloseAndReturn
<1>4. QED  BY <1>1, <1>2, <1>3

LEMMA OthersAreNotBlind ==
  ASSUME BlindInv, Environment \/ Sudo
  PROVE  BlindInv'
<1>1. CASE Environment
  BY <1>1 DEF BlindInv, QuestionNotBlind, Environment, ConsoleChanges,
     RewriteSudoLocal, ReplaceTarget, RemoveTarget, KeepAside, PutBack
<1>2. CASE Sudo
  BY <1>2 DEF BlindInv, QuestionNotBlind, Sudo, Open, OpenFails, NextCommand,
     NextProcess, Reset
<1>3. QED  BY <1>1, <1>2

(* Whether execDisplay is on or off, the run question is only ever put     *)
(* under a command that reached the terminal whole.                        *)
THEOREM QuestionIsNotBlind == Spec => []QuestionNotBlind
<1>1. Init => BlindInv
  BY DEF Init, BlindInv, QuestionNotBlind
<1>2. TypeOK /\ BlindInv /\ [Next]_vars => BlindInv'
  <2> SUFFICES ASSUME TypeOK, BlindInv, [Next]_vars PROVE BlindInv'
    OBVIOUS
  <2>1. CASE UNCHANGED vars
    BY <2>1 DEF vars, BlindInv, QuestionNotBlind
  <2>2. CASE Next
    BY <2>2, OthersAreNotBlind, StepAsideIsNotBlind, SheetIsNotBlind DEF Next, Check
  <2>3. QED  BY <2>1, <2>2
<1>3. BlindInv => QuestionNotBlind
  BY DEF BlindInv
<1>4. QED  BY <1>1, <1>2, <1>3, TypeCorrect, PTL DEF Spec
-----------------------------------------------------------------------------
(* Why a cancel is final: once given it is only carried through the return *)
(* to root to the decision, and until then there is no verdict.            *)
Final == {"cancel", "no"}

FinalInv ==
  /\ pc \notin {"done", "exited"} => verdict = "none"
  /\ answer \in Final => pc \in {"restore", "decide", "done", "exited"}

CancelStands == pc \notin {"done", "exited"} /\ answer \in Final
                  => answer' = answer /\ verdict' # "allow"

LEMMA StepAsideIsFinal ==
  ASSUME FinalInv,
         \/ VerifyBundles \/ ReadMarker \/ RunForRoot \/ ClassifySession
         \/ ReadChain \/ StepAside \/ Confirm \/ PinForQuestion
         \/ ShowForQuestion \/ AskAgain \/ Answered
  PROVE  FinalInv' /\ CancelStands
<1>1. CASE VerifyBundles \/ ReadMarker \/ RunForRoot \/ ClassifySession
  BY <1>1 DEF FinalInv, CancelStands, Final, VerifyBundles, ReadMarker, RunForRoot,
     ClassifySession, Return, locals, waiting
<1>2. CASE ReadChain \/ StepAside \/ Confirm
  BY <1>2 DEF FinalInv, CancelStands, Final, ReadChain, StepAside, Confirm, Return,
     locals, waiting
<1>3. CASE PinForQuestion
  BY <1>3 DEF FinalInv, CancelStands, Final, PinForQuestion, Pin, Return,
     CloseAndReturn, waiting
<1>4. CASE ShowForQuestion \/ AskAgain \/ Answered
  BY <1>4 DEF FinalInv, CancelStands, Final, ShowForQuestion, AskAgain, Answered,
     CloseAndReturn, locals, waiting
<1>5. QED  BY <1>1, <1>2, <1>3, <1>4

LEMMA SheetIsFinal ==
  ASSUME FinalInv,
         \/ Resolve \/ PinForSheet \/ FormatPrompt \/ EmitVerifyCode \/ EmitLine
         \/ DropEuid \/ ChoosePolicy \/ NoPolicy \/ Sheet \/ PasswordSheet
         \/ RestoreEuid \/ Decide \/ Restat
  PROVE  FinalInv' /\ CancelStands
<1>1. CASE Resolve \/ PinForSheet \/ FormatPrompt
  BY <1>1 DEF FinalInv, CancelStands, Final, Resolve, PinForSheet, Pin, FormatPrompt,
     Return, CloseAndReturn, locals, waiting
<1>2. CASE EmitVerifyCode \/ EmitLine \/ DropEuid \/ ChoosePolicy \/ NoPolicy
  BY <1>2 DEF FinalInv, CancelStands, Final, EmitVerifyCode, EmitLine, DropEuid,
     ChoosePolicy, NoPolicy, CloseAndReturn, locals, waiting
<1>3. CASE Sheet \/ PasswordSheet
  BY <1>3 DEF FinalInv, CancelStands, Final, Sheet, PasswordSheet, Retryable, waiting
<1>4. CASE RestoreEuid \/ Decide \/ Restat
  BY <1>4 DEF FinalInv, CancelStands, Final, RestoreEuid, Decide, Restat,
     CloseAndReturn, locals, waiting
<1>5. QED  BY <1>1, <1>2, <1>3, <1>4

LEMMA OthersAreFinal ==
  ASSUME FinalInv, Environment \/ Sudo
  PROVE  FinalInv' /\ CancelStands
<1>1. CASE Environment
  BY <1>1 DEF FinalInv, CancelStands, Final, Environment, ConsoleChanges,
     RewriteSudoLocal, ReplaceTarget, RemoveTarget, KeepAside, PutBack, process, locals
<1>2. CASE Sudo
  BY <1>2 DEF FinalInv, CancelStands, Final, Sudo, Open, OpenFails, NextCommand,
     NextProcess, Reset, locals
<1>3. QED  BY <1>1, <1>2

(* A cancelled sheet or a declined question ends in a refusal: no second   *)
(* dialog, no second question, whatever the environment does meanwhile.    *)
THEOREM CancelEndsIt == Spec => CancelIsFinal
<1>1. Init => FinalInv
  BY DEF Init, FinalInv, Final
<1>2. FinalInv /\ [Next]_vars => FinalInv' /\ [CancelStands]_vars
  <2> SUFFICES ASSUME FinalInv, [Next]_vars
               PROVE  FinalInv' /\ [CancelStands]_vars
    OBVIOUS
  <2>1. CASE UNCHANGED vars
    BY <2>1 DEF vars, FinalInv, Final
  <2>2. CASE Next
    BY <2>2, OthersAreFinal, StepAsideIsFinal, SheetIsFinal DEF Next, Check
  <2>3. QED  BY <2>1, <2>2
<1>3. [CancelStands]_vars =>
        [pc \notin {"done", "exited"} /\ answer \in {"cancel", "no"}
           => answer' = answer /\ verdict' # "allow"]_vars
  BY DEF CancelStands, Final
<1>4. QED  BY <1>1, <1>2, <1>3, PTL DEF Spec, CancelIsFinal
=============================================================================
