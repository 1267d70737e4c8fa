--------------------------- MODULE ApprovalCheck ---------------------------
(***************************************************************************)
(* The approval plugin (plugin/sudowhat_approval.m): open(), check() and   *)
(* close(), step by step, in one sudo process, between an environment that *)
(* goes on moving: the console changes hands, sudo_local is rewritten, the *)
(* file at the command's path is replaced, and the human takes as long as  *)
(* he likes.                                                               *)
(*                                                                         *)
(* check() is cut where it reads or changes something it shares with that  *)
(* environment, or where it can return.  `pc' names the next step.         *)
(***************************************************************************)
EXTENDS PamConf, FiniteSets

CONSTANTS
  Inodes,           \* the inode numbers of the file system of the path
  MaxFiles,         \* bound: how many files are ever created at the path
  NoFile,
  Texts,            \* the texts /etc/pam.d/sudo_local can hold
  PolicyDeference,  \* build knob SW_POLICY_DEFERENCE
  ExecConfirm,      \* build knob SW_EXEC_CONFIRM
  ExecDisplay       \* build knob SW_EXEC_DISPLAY

ASSUME KnobsAssumption ==
  PolicyDeference \in BOOLEAN /\ ExecConfirm \in BOOLEAN /\ ExecDisplay \in BOOLEAN

ASSUME MaxFilesAssumption == MaxFiles \in Nat \ {0}

\* A file is its inode number and which file of that number it is: the kernel
\* gives a number out again once no name and no descriptor holds the file.
Files == [ino : Inodes, gen : 1..MaxFiles]

ASSUME FilesAssumption == Inodes # {} /\ NoFile \notin Files

VARIABLES
  (* the environment *)
  onConsole,   \* what SessionGuard answers for this process now
  text,        \* /etc/pam.d/sudo_local
  path,        \* the file the command's path names, or NoFile
  aside,       \* files that once were at the path and have another name now
  created,     \* how many files were created so far
  (* the command, as sudo presents it *)
  uid,         \* "root" or "user"
  authRan,     \* ghost: sudo ran the auth stack for this command
  cmdKnown,    \* command_info has a "command" key
  haveTty,     \* there is a controlling terminal
  (* the process *)
  pc,
  marker,      \* SUDOWHAT_AUTH_RAN is in the process environment
  inherited,   \* ghost: it was there before sudo did anything
  mk,          \* markerPresent
  class,       \* ghost: what the session look found, "console" or "other"
  fd,          \* the file preFd holds open, or NoFile
  preIno,      \* preSt.st_ino
  subject,     \* ghost: the file that was pinned
  euid,        \* "root" or "user"
  policy,      \* the LAPolicy chosen: "none", "companion", "owner"
  answer,      \* the last answer to the sheet or the question
  shown,       \* the rows this command put on the terminal
  verdict,     \* what check() returned
  ground       \* ghost: why it allowed

world   == <<onConsole, text, path, aside, created>>
command == <<uid, authRan, cmdKnown, haveTty>>
locals  == <<mk, class, preIno, subject, policy, answer>>
vars    == <<world, command, locals, pc, marker, inherited, fd, euid, shown,
             verdict, ground>>

-----------------------------------------------------------------------------
(* The environment.                                                        *)

\* The files a name or the pinned descriptor holds, and their numbers.
HeldFiles == ({path, fd} \cup aside) \ {NoFile}
InUse     == {f.ino : f \in HeldFiles}

File(i, g) == [ino |-> i, gen |-> g]

Init ==
  /\ onConsole \in BOOLEAN /\ text \in Texts
  /\ \E i \in Inodes : path = File(i, 1)
  /\ aside = {} /\ created = 1
  /\ uid = "user" /\ authRan = FALSE /\ cmdKnown = TRUE /\ haveTty = TRUE
  /\ pc = "idle" /\ marker \in BOOLEAN /\ inherited = marker
  /\ mk = FALSE /\ class = "none" /\ preIno = NoFile /\ subject = NoFile
  /\ policy = "none" /\ answer = "none"
  /\ fd = NoFile /\ euid = "root" /\ shown = {} /\ verdict = "none" /\ ground = "none"

process == <<command, locals, pc, marker, inherited, fd, euid, shown, verdict, ground>>

\* Fast user switching, logging out, or the caller's session losing graphics.
ConsoleChanges ==
  /\ onConsole' = ~onConsole
  /\ UNCHANGED <<text, path, aside, created, process>>

\* A rebuild switch, or an administrator, replaces sudo_local.
RewriteSudoLocal(t) ==
  /\ text' = t
  /\ UNCHANGED <<onConsole, path, aside, created, process>>

\* A new file is put at the path (written there, or renamed over it).
ReplaceTarget(i) ==
  /\ created < MaxFiles /\ i \notin InUse
  /\ created' = created + 1 /\ path' = File(i, created + 1)
  /\ UNCHANGED <<onConsole, text, aside, process>>

RemoveTarget ==
  /\ path # NoFile /\ path' = NoFile
  /\ UNCHANGED <<onConsole, text, aside, created, process>>

\* The file at the path gets a second name; later it is moved back.
KeepAside ==
  /\ path # NoFile /\ aside' = aside \cup {path}
  /\ UNCHANGED <<onConsole, text, path, created, process>>

PutBack(f) ==
  /\ f \in aside /\ path' = f
  /\ UNCHANGED <<onConsole, text, aside, created, process>>

Environment ==
  \/ ConsoleChanges
  \/ \E t \in Texts : RewriteSudoLocal(t)
  \/ \E i \in Inodes : ReplaceTarget(i)
  \/ RemoveTarget
  \/ KeepAside
  \/ \E f \in aside : PutBack(f)

-----------------------------------------------------------------------------
(* sudo around the plugin.                                                 *)

\* sudo's policy step let the command through; pam_sudowhat left the marker if
\* it ran.  open() keeps the caller's uid, terminal and conversation.
Open ==
  /\ pc = "idle" /\ pc' = "verify"
  /\ uid' \in {"root", "user"}
  /\ authRan' \in (IF uid' = "root" THEN {FALSE} ELSE BOOLEAN)
  /\ marker' = (marker \/ authRan')
  /\ cmdKnown' \in BOOLEAN /\ haveTty' \in BOOLEAN
  /\ UNCHANGED <<world, locals, inherited, fd, euid, shown, verdict, ground>>

\* open() fails (API version, no uid in user_info): sudo does not go on.
OpenFails ==
  /\ pc = "idle" /\ pc' = "done" /\ verdict' = "error"
  /\ UNCHANGED <<world, command, locals, marker, inherited, fd, euid, shown, ground>>

Reset ==
  /\ uid' = "user" /\ authRan' = FALSE /\ cmdKnown' = TRUE /\ haveTty' = TRUE
  /\ mk' = FALSE /\ class' = "none" /\ preIno' = NoFile /\ subject' = NoFile
  /\ policy' = "none" /\ answer' = "none"
  /\ pc' = "idle" /\ shown' = {} /\ verdict' = "none" /\ ground' = "none"
  /\ UNCHANGED world

\* close(), and the next command in the same process (sudo intercepting what
\* an allowed command runs): the process environment and its fds stay.
NextCommand ==
  /\ pc = "done" /\ verdict = "allow"
  /\ inherited' = FALSE
  /\ Reset
  /\ UNCHANGED <<marker, fd, euid>>

\* The process ends; another sudo starts, with the environment it is given.
NextProcess ==
  /\ pc \in {"done", "exited"}
  /\ marker' \in BOOLEAN /\ inherited' = marker'
  /\ fd' = NoFile /\ euid' = "root"
  /\ Reset

-----------------------------------------------------------------------------
(* check(): what its steps share.                                          *)

\* Return before the pin is taken, and after it: each later return closes preFd
\* for itself.
Return(v, g) == pc' = "done" /\ verdict' = v /\ ground' = g /\ UNCHANGED fd

CloseAndReturn(v, g) == pc' = "done" /\ verdict' = v /\ ground' = g /\ fd' = NoFile

\* A row the code would like on the terminal, and goes on without.
Emit(row, wanted) ==
  IF wanted /\ haveTty THEN shown' \in {shown, shown \cup {row}} ELSE UNCHANGED shown

\* emit_exec_line: informational, behind the execDisplay knob.
EmitExecLine == Emit("execute", ExecDisplay /\ cmdKnown)

outside == <<world, command, marker, inherited>>
waiting == <<verdict, ground>>

\* (1), (1b): the signatures of pam_sudowhat and, if installed, of the audit
\* bundle.
VerifyBundles ==
  /\ pc = "verify"
  /\ \/ pc' = "readMarker" /\ UNCHANGED <<fd, waiting>>
     \/ Return("deny", "none")
  /\ UNCHANGED <<outside, locals, euid, shown>>

\* Slips, for mutants only: the marker cleared before it is read; never cleared.
ReadMarkerTooLate ==
  /\ pc = "readMarker" /\ pc' = "classify"
  /\ mk' = FALSE /\ marker' = FALSE
  /\ UNCHANGED <<world, command, inherited, class, preIno, subject, policy, answer,
                 fd, euid, shown, waiting>>

ReadMarkerKeep ==
  /\ pc = "readMarker" /\ pc' = "classify"
  /\ mk' = marker
  /\ UNCHANGED <<outside, class, preIno, subject, policy, answer,
                 fd, euid, shown, waiting>>

\* (1d): the marker is read once, and cleared.
ReadMarker ==
  /\ pc = "readMarker" /\ pc' = "classify"
  /\ mk' = marker /\ marker' = FALSE
  /\ UNCHANGED <<world, command, inherited, class, preIno, subject, policy, answer,
                 fd, euid, shown, waiting>>

\* (2): root passes, and is only shown the line.
RunForRoot ==
  /\ pc = "classify" /\ uid = "root"
  /\ EmitExecLine /\ Return("allow", "root")
  /\ UNCHANGED <<outside, locals, euid>>

\* A slip, for mutants only: any caller taken down the console branch.
ClassifyNobody ==
  /\ pc = "classify" /\ uid # "root"
  /\ class' = IF onConsole THEN "console" ELSE "other"
  /\ pc' = "resolve"
  /\ UNCHANGED <<outside, mk, preIno, subject, policy, answer, fd, euid, shown, waiting>>

\* (2): the one look at the session.
ClassifySession ==
  /\ pc = "classify" /\ uid # "root"
  /\ class' = IF onConsole THEN "console" ELSE "other"
  /\ pc' = IF onConsole THEN "resolve" ELSE "nonConsole"
  /\ UNCHANGED <<outside, mk, preIno, subject, policy, answer, fd, euid, shown, waiting>>

-----------------------------------------------------------------------------
(* The non-console branch: step aside, or refuse.                          *)

ReadChain ==
  /\ pc = "nonConsole"
  /\ \/ /\ NonConsoleAllows(NonConsoleChainOf(text), mk)
        /\ pc' = "stepAside" /\ UNCHANGED <<fd, waiting>>
     \/ /\ ~NonConsoleAllows(NonConsoleChainOf(text), mk)
        /\ Return("deny", "none")
  /\ UNCHANGED <<outside, locals, euid, shown>>

\* sw_step_aside_allow: sudo_local is read a second time here, for its
\* integrity line.
StepAside ==
  /\ pc = "stepAside"
  /\ ~ConfirmDecision(ExecConfirm, haveTty, mk, HasIntegrityLine(text))
  /\ EmitExecLine
  /\ Return("allow", IF mk THEN "authenticated" ELSE "waived")
  /\ UNCHANGED <<outside, locals, euid>>

Confirm ==
  /\ pc = "stepAside"
  /\ ConfirmDecision(ExecConfirm, haveTty, mk, HasIntegrityLine(text))
  /\ \/ cmdKnown /\ pc' = "pinQuestion" /\ UNCHANGED <<fd, waiting>>
     \/ ~cmdKnown /\ Return("deny", "none")
  /\ UNCHANGED <<outside, locals, euid, shown>>

\* A slip, for mutants only: the identity noted, the file not held.
PinByStat(next) ==
  /\ \/ path = NoFile /\ Return("deny", "none") /\ UNCHANGED <<preIno, subject>>
     \/ /\ path # NoFile /\ pc' = next
        /\ preIno' = path.ino /\ subject' = path
        /\ UNCHANGED <<fd, waiting>>
  /\ UNCHANGED <<outside, mk, class, policy, answer, euid, shown>>

\* open(commandC) and fstat: on the sheet's path (3a) and in sw_confirm_run.
\* open fails where the path names nothing, and may fail anywhere.
Pin(next) ==
  /\ \/ Return("deny", "none") /\ UNCHANGED <<preIno, subject>>   \* open fails
     \/ path # NoFile /\ CloseAndReturn("error", "none") /\ UNCHANGED <<preIno, subject>>
     \/ /\ path # NoFile /\ pc' = next
        /\ fd' = path /\ preIno' = path.ino /\ subject' = path
        /\ UNCHANGED waiting
  /\ UNCHANGED <<outside, mk, class, policy, answer, euid, shown>>

PinForQuestion == pc = "pinQuestion" /\ Pin("showQuestion")

\* A slip, for mutants only: the line goes through emit_exec_line.
ShowThroughEmit ==
  /\ pc = "showQuestion" /\ EmitExecLine /\ pc' = "ask"
  /\ UNCHANGED <<outside, locals, fd, euid, waiting>>

\* write_exec_line_to_tty, below the execDisplay knob: a line that does not
\* reach the terminal whole ends the command.
ShowForQuestion ==
  /\ pc = "showQuestion"
  /\ \/ /\ haveTty /\ shown' = shown \cup {"execute"}
        /\ pc' = "ask" /\ UNCHANGED <<fd, waiting>>
     \/ CloseAndReturn("deny", "none") /\ UNCHANGED shown
  /\ UNCHANGED <<outside, locals, euid>>

\* sw_ask_run_confirm: an answer that is none is met with the question again.
\* "no" is also a bare Enter, end of input, a conversation that failed, and no
\* conversation at all.
AskAgain ==
  /\ pc = "ask" /\ answer' = "unknown" /\ shown' = shown \cup {"question"}
  /\ UNCHANGED <<outside, mk, class, preIno, subject, policy, pc, fd, euid, waiting>>

Answered ==
  /\ pc = "ask" /\ shown' \in {shown, shown \cup {"question"}}
  /\ \/ /\ answer' = "yes" /\ shown' = shown \cup {"question"}
        /\ pc' = "restat" /\ UNCHANGED <<fd, waiting>>
     \/ answer' = "no" /\ CloseAndReturn("deny", "none")
  /\ UNCHANGED <<outside, mk, class, preIno, subject, policy, euid>>

-----------------------------------------------------------------------------
(* The console branch: defer to sudoers, or raise the sheet.               *)

\* (3), (3.5)
Resolve ==
  /\ pc = "resolve"
  /\ \/ ~cmdKnown /\ Return("error", "none") /\ UNCHANGED shown
     \/ /\ cmdKnown /\ DeferDecision(PolicyDeference, mk, HasIntegrityLine(text))
        /\ EmitExecLine /\ Return("allow", "waived")
     \/ /\ cmdKnown /\ ~DeferDecision(PolicyDeference, mk, HasIntegrityLine(text))
        /\ pc' = "pinSheet" /\ UNCHANGED <<fd, waiting, shown>>
  /\ UNCHANGED <<outside, locals, euid>>

PinForSheet == pc = "pinSheet" /\ Pin("format")

\* (4): the sheet's text, the code, the execute: line.
FormatPrompt ==
  /\ pc = "format"
  /\ \/ pc' = "code" /\ UNCHANGED <<fd, waiting>>
     \/ CloseAndReturn("error", "none")
  /\ UNCHANGED <<outside, locals, euid, shown>>

EmitVerifyCode ==
  /\ pc = "code" /\ pc' = "line" /\ Emit("verify", TRUE)
  /\ UNCHANGED <<outside, locals, fd, euid, waiting>>

EmitLine ==
  /\ pc = "line" /\ pc' = "drop" /\ EmitExecLine
  /\ UNCHANGED <<outside, locals, fd, euid, waiting>>

\* A slip, for mutants only: the failure path forgets to close preFd.
DropEuidLeaky ==
  /\ pc = "drop"
  /\ \/ euid' = "user" /\ pc' = "policy" /\ UNCHANGED <<fd, waiting>>
     \/ UNCHANGED euid /\ Return("error", "none")
  /\ UNCHANGED <<outside, locals, shown>>

\* (5): seteuid(invoking uid).
DropEuid ==
  /\ pc = "drop"
  /\ \/ euid' = "user" /\ pc' = "policy" /\ UNCHANGED <<fd, waiting>>
     \/ UNCHANGED euid /\ CloseAndReturn("error", "none")
  /\ UNCHANGED <<outside, locals, shown>>

ChoosePolicy ==
  /\ pc = "policy"
  /\ policy' \in {"companion", "owner"} /\ pc' = "sheet"
  /\ UNCHANGED <<outside, mk, class, preIno, subject, answer, fd, euid, shown, waiting>>

\* No policy can be evaluated; the result of this seteuid(0) is not looked at.
NoPolicy ==
  /\ pc = "policy"
  /\ euid' \in {"root", "user"} /\ CloseAndReturn("deny", "none")
  /\ UNCHANGED <<outside, locals, shown>>

Failures  == {"cancel", "fallback", "failed", "lockout", "other"}
Retryable == {"fallback", "failed", "lockout"}

\* A slip, for mutants only: every failure, a cancel too, is asked again.
SheetRetryAll ==
  /\ pc = "sheet" /\ answer' \in {"yes"} \cup Failures
  /\ pc' = IF policy = "companion" /\ answer' # "yes"
           THEN "passwordSheet" ELSE "restore"
  /\ UNCHANGED <<outside, mk, class, preIno, subject, policy, fd, euid, shown, waiting>>

\* The first dialog answers.
Sheet ==
  /\ pc = "sheet" /\ answer' \in {"yes"} \cup Failures
  /\ pc' = IF policy = "companion" /\ answer' \in Retryable
           THEN "passwordSheet" ELSE "restore"
  /\ UNCHANGED <<outside, mk, class, preIno, subject, policy, fd, euid, shown, waiting>>

\* A slip, for mutants only: the second dialog is retried like the first.
PasswordSheetAgain ==
  /\ pc = "passwordSheet" /\ answer' \in {"yes"} \cup Failures
  /\ pc' = IF answer' \in Retryable THEN "sheet" ELSE "restore"
  /\ UNCHANGED <<outside, mk, class, preIno, subject, policy, fd, euid, shown, waiting>>

\* The second dialog, with the password-capable policy, answers.
PasswordSheet ==
  /\ pc = "passwordSheet" /\ answer' \in {"yes"} \cup Failures /\ pc' = "restore"
  /\ UNCHANGED <<outside, mk, class, preIno, subject, policy, fd, euid, shown, waiting>>

\* A slip, for mutants only: the result of seteuid(0) ignored here as well.
RestoreEuidLax ==
  /\ pc = "restore" /\ euid' \in {"root", "user"} /\ pc' = "decide"
  /\ UNCHANGED <<outside, locals, fd, shown, waiting>>

\* seteuid(0), or _exit(1).
RestoreEuid ==
  /\ pc = "restore"
  /\ \/ euid' = "root" /\ pc' = "decide" /\ UNCHANGED <<fd, waiting>>
     \/ UNCHANGED <<euid, ground>> /\ pc' = "exited" /\ verdict' = "exit" /\ fd' = NoFile
  /\ UNCHANGED <<outside, locals, shown>>

Decide ==
  /\ pc = "decide"
  /\ \/ answer = "yes" /\ pc' = "restat" /\ UNCHANGED <<fd, waiting>>
     \/ answer # "yes" /\ CloseAndReturn("deny", "none")
  /\ UNCHANGED <<outside, locals, euid, shown>>

-----------------------------------------------------------------------------
\* A slip, for mutants only: the path looked at, its identity not compared.
RestatExistence ==
  /\ pc = "restat"
  /\ \/ path # NoFile /\ CloseAndReturn("allow", "human")
     \/ CloseAndReturn("deny", "none")
  /\ UNCHANGED <<outside, locals, euid, shown>>

\* (6), and the end of sw_confirm_run: stat the path while the pin still holds
\* its inode, then close, then compare.  A stat that fails refuses too.
Restat ==
  /\ pc = "restat"
  /\ \/ path # NoFile /\ path.ino = preIno /\ CloseAndReturn("allow", "human")
     \/ CloseAndReturn("deny", "none")
  /\ UNCHANGED <<outside, locals, euid, shown>>

-----------------------------------------------------------------------------
Sudo == Open \/ OpenFails \/ NextCommand \/ NextProcess

Check ==
  \/ VerifyBundles \/ ReadMarker \/ RunForRoot \/ ClassifySession
  \/ ReadChain \/ StepAside \/ Confirm \/ PinForQuestion \/ ShowForQuestion
  \/ Answered
  \/ Resolve \/ PinForSheet \/ FormatPrompt \/ EmitVerifyCode \/ EmitLine
  \/ DropEuid \/ ChoosePolicy \/ NoPolicy \/ Sheet \/ PasswordSheet
  \/ RestoreEuid \/ Decide \/ Restat

Next == Environment \/ Sudo \/ Check \/ AskAgain

Spec == Init /\ [][Next]_vars

\* check() runs on, the human and LocalAuthentication answer in the end, and a
\* question is not answered with nonsense for ever.
FairSpec == Spec /\ WF_vars(Check)

-----------------------------------------------------------------------------
Deciding   == {"verify", "readMarker", "classify"}
Classified == {"nonConsole", "stepAside", "pinQuestion", "resolve", "pinSheet"}
Asked      == {"showQuestion", "ask", "format", "code", "line", "drop", "policy",
               "sheet", "passwordSheet", "restore", "decide", "restat"}

TypeOK ==
  /\ onConsole \in BOOLEAN /\ text \in Texts
  /\ path \in Files \cup {NoFile} /\ aside \subseteq Files /\ created \in 1..MaxFiles
  /\ uid \in {"root", "user"}
  /\ authRan \in BOOLEAN /\ cmdKnown \in BOOLEAN /\ haveTty \in BOOLEAN
  /\ pc \in {"idle", "done", "exited"} \cup Deciding \cup Classified \cup Asked
  /\ marker \in BOOLEAN /\ inherited \in BOOLEAN /\ mk \in BOOLEAN
  /\ class \in {"none", "console", "other"}
  /\ fd \in Files \cup {NoFile} /\ subject \in Files \cup {NoFile}
  /\ preIno \in Inodes \cup {NoFile}
  /\ euid \in {"root", "user"}
  /\ policy \in {"none", "companion", "owner"}
  /\ answer \in {"none", "yes", "no", "unknown"} \cup Failures
  /\ shown \subseteq {"verify", "execute", "question"}
  /\ verdict \in {"none", "allow", "deny", "error", "exit"}
  /\ ground \in {"none", "root", "waived", "authenticated", "human"}

\* The pin is held from the moment it is taken until check() has looked at the
\* path again, and by no return of check(): not one of its error paths leaks
\* the descriptor into the command sudo executes next.
PinExactlyWhileAsked ==
  IF pc \in Asked
  THEN fd = subject /\ subject \in Files /\ preIno = subject.ino
  ELSE fd = NoFile

\* Why the comparison is sound: a number is given out again only when nothing
\* holds its file, and the pin does.
NumbersApart == \A f, g \in HeldFiles : f.ino = g.ino => f = g

PinInv == PinExactlyWhileAsked /\ NumbersApart

\* What check() allows on a human's answer is the file the human was shown:
\* whatever was done to the path meanwhile, and though the comparison sees
\* inode numbers only, which the file system gives out again.
ApprovedFileRuns ==
  [][ground' = "human" /\ ground # "human" => path = subject /\ subject # NoFile]_vars

\* The effective uid is the caller's only around the dialogs.  Nothing is
\* written to the terminal, compared or allowed under it; the one return that
\* can leave it so is the refusal when no policy can be evaluated.
EuidScoped ==
  euid = "user" =>
    \/ pc \in {"policy", "sheet", "passwordSheet", "restore", "exited"}
    \/ pc = "done" /\ verdict = "deny" /\ policy = "none"

\* A dialog is only ever up for a caller whose session was found to hold the
\* console, bound to that user, about a named command whose file is pinned.
SheetIsTheCallersOwn ==
  pc \in {"sheet", "passwordSheet"} =>
    /\ class = "console" /\ uid = "user" /\ euid = "user"
    /\ cmdKnown /\ fd # NoFile

\* A cancelled sheet and a declined question are final: no second dialog, no
\* re-ask, and the command does not run.
CancelIsFinal ==
  [][pc \notin {"done", "exited"} /\ answer \in {"cancel", "no"}
       => answer' = answer /\ verdict' # "allow"]_vars

\* The marker check() read speaks of this command: present whenever sudo ran
\* its auth stack for it, and otherwise only if the caller's environment held
\* it, never left over from an earlier command of the process.
MarkerTellsThisCommand ==
  pc \in {"classify"} \cup Classified \cup Asked =>
    /\ authRan => mk
    /\ mk => authRan \/ inherited

\* Every allow rests on its ground: no sheet and no question is skipped for a
\* command sudo authenticated, on the strength of a missing marker.
AllowHasGround ==
  verdict = "allow" =>
    \/ ground = "root" /\ uid = "root"
    \/ ground = "waived" /\ uid = "user" /\ ~authRan
    \/ ground = "authenticated" /\ class = "other" /\ (authRan \/ inherited)
    \/ ground = "human" /\ answer = "yes"

\* What the four of them rest on, stage by stage: what each step has established
\* about the caller, the marker and the answer by the time the next one runs.
OnSheetPath == {"resolve", "pinSheet", "format", "code", "line", "drop", "policy",
                "sheet", "passwordSheet", "restore", "decide"}

CallerInv ==
  /\ pc \in Classified \cup Asked => uid = "user"
  /\ pc \in OnSheetPath => class = "console"
  /\ pc \in OnSheetPath \ {"resolve"} => cmdKnown
  /\ pc \in {"nonConsole", "stepAside"} => class = "other"

MarkerInv ==
  /\ pc = "idle" /\ marker => inherited
  /\ pc \in {"verify", "readMarker"} =>
       (authRan => marker) /\ (marker => authRan \/ inherited)
  /\ MarkerTellsThisCommand
  /\ pc \in {"classify"} \cup Classified \cup Asked \/ verdict = "allow" => ~marker

AnswerInv ==
  /\ pc \notin {"done", "exited"} => verdict = "none" /\ ground = "none"
  /\ pc = "restat" => answer = "yes"

EuidInv ==
  /\ EuidScoped
  /\ pc \in {"policy", "sheet", "passwordSheet"} => euid = "user"
  /\ pc \notin {"sheet", "passwordSheet", "restore", "decide", "restat",
                "done", "exited"} => policy = "none"

StageInv == CallerInv /\ MarkerInv /\ AnswerInv /\ EuidInv /\ AllowHasGround

\* The question is never put under a command the terminal does not show, not
\* even with execDisplay off.
QuestionNotBlind == "question" \in shown => "execute" \in shown

\* check() returns: no wait, re-ask or second dialog holds sudo for ever.
CheckReturns ==
  pc \notin {"idle", "done", "exited"} ~> pc \in {"done", "exited"}

-----------------------------------------------------------------------------
(* The plugin implements the gate it promises.                             *)

Phase == IF pc \in Asked THEN "asked"
         ELSE IF pc \in Classified THEN "classified"
         ELSE IF pc \in Deciding THEN "deciding"
         ELSE IF pc = "idle" THEN "idle" ELSE "done"

Verdict == IF verdict \in {"deny", "error", "exit"} THEN "refuse" ELSE verdict

Gate == INSTANCE ApprovalGate WITH
          phase <- Phase, verdict <- Verdict, target <- path,
          isRoot <- (uid = "root")

\* Every behaviour of the plugin is one the gate allows.
ImplementsGate == Gate!Spec
=============================================================================
