------------------------------- MODULE Display ------------------------------
(***************************************************************************)
(* What one sudo invocation puts on the controlling terminal and on the    *)
(* Touch ID sheet: the audit plugin's block before authentication          *)
(* (plugin/sudowhat_audit.m, and linux/sudowhat_audit for Linux), then, on *)
(* macOS, the approval plugin's verify: and execute: lines and the sheet   *)
(* of a console run (plugin/sudowhat_approval.m).  In between, the policy  *)
(* resolves the command, its user and its directory.                       *)
(*                                                                         *)
(* A row is a label and a value; write(2) may take any part of what is     *)
(* pending, so a row is two pieces, and a terminal can hold the first      *)
(* without the second.                                                     *)
(***************************************************************************)
EXTENDS PromptSheet, Sequences, FiniteSets

CONSTANTS
  Invocations,   \* what sudo hands the audit plugin, and the build
  Users, Dirs, Commands,   \* what the policy resolves to
  BareNames,     \* the words a command line is typed with that have no slash
  Root,          \* the user called root
  Empty,         \* the empty value
  None,          \* a value that is absent
  Length,        \* of the escaped rendering of each value
  CodeLength,    \* of the verify code
  Headline       \* whether the sheet is macOS 27's

Values == Users \cup Dirs \cup Commands

\* What there may be no memory for, on macOS: the escape core then draws nothing.
Drawn == {"input", "run as", "directory", "PATH", "execute", "sheet"}

ASSUME InvocationsAssumption ==
  \A i \in Invocations :
    /\ i.platform \in {"macos", "linux"} /\ i.knownAPI \in BOOLEAN
    /\ i.display \in BOOLEAN /\ i.echo \in BOOLEAN    \* auditDisplay, execDisplay
    /\ i.bundles \in {"ours", "approval is not", "pam is not"}
    /\ i.refused \subseteq Drawn
    /\ Len(i.argv) \in Nat /\ i.optind \in 0..Len(i.argv)

ASSUME ValuesAssumption ==
  /\ Root \in Users
  /\ None \notin Values /\ Empty \notin Values
  /\ Length \in [Values -> Nat \ {0}]
  /\ CodeLength \in Nat
  /\ Headline \in BOOLEAN

VARIABLES
  inv,      \* the invocation
  info,     \* command_info: user, directory (or None), command
  pc,       \* what is being done
  pending,  \* the pieces write(2) has not taken yet
  term,     \* the pieces the terminal has
  lost,     \* whether a write was given up
  sheet     \* the sheet that was raised

vars == <<inv, info, pc, pending, term, lost, sheet>>

NoInfo == [user |-> None, dir |-> None, command |-> None]
NoSheet == [elided |-> {}, length |-> 0, raised |-> FALSE]

-----------------------------------------------------------------------------
(* sudo's context: arrays of "key=value", an entry as the tokens of its key *)
(* and its value.  The two plugins read them each in its own language.      *)

First(arr, matches) ==
  IF matches = {} THEN None
  ELSE arr[CHOOSE k \in matches : \A j \in matches : k <= j].value

MacFindKv(arr, key) == First(arr, {k \in DOMAIN arr : arr[k].key = key})

\* A slip, for mutants only: the key need only begin like the one looked for.
FindKvByPrefix(arr, key) ==
  First(arr, {k \in DOMAIN arr : SubSeq(arr[k].key, 1, Len(key)) = key})

FindKv(arr, key) == First(arr, {k \in DOMAIN arr : arr[k].key = key})

\* A value that is absent or empty is no value.
Given(v) == v # None /\ v # Empty

\* submit_argv from submit_optind on; the array's end is its null pointer.
Collect(arr, start) == SubSeq(arr, start + 1, Len(arr))
Typed(i) == Collect(i.argv, i.optind)

\* strtoul and parse_uid: leading digits, so no digits are 0 as well.
IsUidZero(digits) == \A k \in DOMAIN digits : digits[k] = 0

\* NO_COLOR and TERM; isatty has the last word.
MacColor(envp) ==
  /\ ~Given(MacFindKv(envp, <<"NO_COLOR">>))
  /\ Given(MacFindKv(envp, <<"TERM">>))
  /\ MacFindKv(envp, <<"TERM">>) # "dumb"

ColorAllowed(envp) ==
  LET term_ == FindKv(envp, <<"TERM">>)
  IN  /\ FindKv(envp, <<"NO_COLOR">>) \in {None, Empty}
      /\ term_ \notin {None, Empty, "dumb"}

-----------------------------------------------------------------------------
(* The audit block of macOS.                                               *)

\* A value is the words it is made of.
Row(label, value, bold) == <<[label |-> label, value |-> value, bold |-> bold]>>

SettingTrue(i, key) == MacFindKv(i.settings, key) = "true"
RunsShell(i) ==
  \E key \in {<<"run_shell">>, <<"login_shell">>, <<"implied_shell">>} : SettingTrue(i, key)
HasCommandWord(i) == i.optind < Len(i.argv)

\* -D as typed; nothing under -i; else the invoking directory, if it is known.
DirValue(i) ==
  LET dashD == MacFindKv(i.settings, <<"cmnd_cwd">>)
      cwd   == MacFindKv(i.user_info, <<"cwd">>)
  IN  CASE Given(dashD) -> dashD
        [] ~Given(dashD) /\ ~SettingTrue(i, <<"login_shell">>) /\ Given(cwd) -> cwd
        [] OTHER -> None

DirRow(i, bold) ==
  IF DirValue(i) = None \/ "directory" \in i.refused THEN <<>>
  ELSE Row("directory:", <<DirValue(i)>>, bold)

\* The caller's PATH decides something only for a bare name.
PathRow(i, bold) ==
  LET path == MacFindKv(i.envp, <<"PATH">>)
  IN  IF /\ HasCommandWord(i) /\ Typed(i)[1] \in BareNames
         /\ Given(path) /\ "PATH" \notin i.refused
      THEN Row("PATH:", <<path>>, bold) ELSE <<>>

RunasUser(i) ==
  LET typed == MacFindKv(i.settings, <<"runas_user">>)
  IN  IF Given(typed) THEN typed ELSE Root

InputRow(i, bold) == IF HasCommandWord(i) THEN Row("input:", Typed(i), bold) ELSE <<>>

\* Nothing is shown for another API generation, with the knob off, without a uid,
\* for root, or when one of the two other bundles is not ours.
MacShows(i) ==
  LET uid == MacFindKv(i.user_info, <<"uid">>)
  IN  /\ i.knownAPI /\ i.display
      /\ uid # None /\ ~IsUidZero(uid)
      /\ i.bundles = "ours"
      /\ HasCommandWord(i) \/ RunsShell(i)

\* Nor is anything when the command or the user cannot be drawn.
MacBlock(i) ==
  LET color == MacColor(i.envp)
  IN  IF \/ ~MacShows(i)
         \/ HasCommandWord(i) /\ "input" \in i.refused
         \/ Given(MacFindKv(i.settings, <<"runas_user">>)) /\ "run as" \in i.refused
      THEN <<>>
      ELSE Row("run as:", <<RunasUser(i)>>, color) \o DirRow(i, color)
             \o InputRow(i, color) \o PathRow(i, color)

-----------------------------------------------------------------------------
(* The audit block of Linux: no bundle to check, no PATH: row, and its own *)
(* walk through the arrays.                                                *)

IsTrue(settings, key) == FindKv(settings, key) = "true"

DirLine(settings, user_info) ==
  LET dashD == FindKv(settings, <<"cmnd_cwd">>)
      cwd   == FindKv(user_info, <<"cwd">>)
  IN  CASE Given(dashD) -> dashD
        [] ~Given(dashD) /\ IsTrue(settings, <<"login_shell">>) -> None
        [] OTHER -> IF cwd = Empty THEN None ELSE cwd

StartsShell(settings) ==
  \/ IsTrue(settings, <<"run_shell">>)
  \/ IsTrue(settings, <<"login_shell">>)
  \/ IsTrue(settings, <<"implied_shell">>)

BuildBlock(settings, user_info, argv, color) ==
  LET runas == FindKv(settings, <<"runas_user">>)
      dir   == DirLine(settings, user_info)
  IN  IF argv = <<>> /\ ~StartsShell(settings) THEN <<>>
      ELSE Row("run as:", <<IF runas \in {None, Empty} THEN Root ELSE runas>>, color)
             \o (IF dir = None THEN <<>> ELSE Row("directory:", <<dir>>, color))
             \o (IF argv = <<>> THEN <<>> ELSE Row("input:", argv, color))

LinuxBlock(i) ==
  LET uid == FindKv(i.user_info, <<"uid">>)
  IN  IF ~i.knownAPI \/ ~i.display \/ uid = None THEN <<>>
      ELSE IF IsUidZero(uid) THEN <<>>
      ELSE BuildBlock(i.settings, i.user_info, Collect(i.argv, i.optind), ColorAllowed(i.envp))

Block(i) == IF i.platform = "linux" THEN LinuxBlock(i) ELSE MacBlock(i)

Pieces(rows) ==
  [k \in 1..(2 * Len(rows)) |-> [row |-> rows[(k + 1) \div 2], second |-> k % 2 = 0]]

-----------------------------------------------------------------------------
(* The approval plugin's lines.                                            *)

VerifyRow(i) == Row("verify:", <<"code">>, MacColor(i.envp))
\* The execDisplay knob silences the line, and it is not written if it cannot be drawn.
ExecRow(i, f) ==
  IF i.echo /\ "execute" \notin i.refused THEN Row("execute:", <<f.command>>, MacColor(i.envp))
  ELSE <<>>

\* The directory on the sheet: the policy's, else the invoking one.
SheetDir(i, f) == IF f.dir # None THEN f.dir ELSE MacFindKv(i.user_info, <<"cwd">>)

LengthOf(v) == IF v \in Dirs THEN Length[v] ELSE 0

SheetFor(i, f) ==
  LET user == Length[f.user]
      dir  == LengthOf(SheetDir(i, f))
      cmd  == Length[f.command]
  IN  [ elided |-> Elided(user, dir, cmd, CodeLength),
        length |-> Layout(user, dir, cmd, CodeLength, Headline),
        raised |-> TRUE ]

-----------------------------------------------------------------------------
TypeOK ==
  /\ inv \in Invocations
  /\ info \in {NoInfo} \cup [user : Users, dir : Dirs \cup {None}, command : Commands]
  /\ pc \in {"open", "block", "policy", "verify", "execute", "done"}
  /\ pending # <<>> => pc \in {"block", "verify", "execute"}
  /\ lost \in BOOLEAN
  /\ sheet.raised \in BOOLEAN
  /\ sheet.raised => pc = "done"
  /\ pc \in {"verify", "execute"} \/ sheet.raised => info # NoInfo

Init ==
  /\ inv \in Invocations
  /\ info = NoInfo
  /\ pc = "open"
  /\ pending = <<>>
  /\ term = <<>>
  /\ lost = FALSE
  /\ sheet = NoSheet

\* The audit plugin's open() puts its block together.
Open ==
  /\ pc = "open"
  /\ pc' = "block"
  /\ pending' = Pieces(Block(inv))
  /\ UNCHANGED <<inv, info, term, lost, sheet>>

\* write(2) takes some of what is pending.
Write ==
  /\ pending # <<>>
  /\ \E k \in 1..Len(pending) :
       /\ term' = term \o SubSeq(pending, 1, k)
       /\ pending' = SubSeq(pending, k + 1, Len(pending))
  /\ UNCHANGED <<inv, info, pc, lost, sheet>>

\* A slip, for mutants only: after an interruption the first piece goes out again.
InterruptedRestarts ==
  /\ pending # <<>>
  /\ term # <<>> /\ Len(term) < 12
  /\ pending' = <<term[Len(term)]>> \o pending
  /\ UNCHANGED <<inv, info, pc, term, lost, sheet>>

\* write(2) is interrupted and tried again; on macOS, too, when it takes nothing.
Interrupted ==
  /\ pending # <<>>
  /\ UNCHANGED vars

\* No terminal to open, or not one, or a write fails; on Linux, too, when it
\* takes nothing.
GiveUp ==
  /\ pending # <<>>
  /\ pending' = <<>>
  /\ lost' = TRUE
  /\ UNCHANGED <<inv, info, pc, term, sheet>>

\* Nothing more is shown where there is no approval plugin, or without a command
\* (sudo -v); the runs for which check() raises no sheet, root's among them, are
\* in ApprovalCheck.
AfterBlock(i) ==
  IF \/ i.platform = "linux"
     \/ ~i.knownAPI \/ MacFindKv(i.user_info, <<"uid">>) = None
     \/ IsUidZero(MacFindKv(i.user_info, <<"uid">>))
     \/ i.bundles = "pam is not"
     \/ ~(HasCommandWord(i) \/ RunsShell(i))
  THEN "done" ELSE "policy"

\* A slip, for mutants only: open() tries again for ever what failed.
OpenReturnsIfWritten ==
  /\ pc = "block"
  /\ pending = <<>> /\ ~lost
  /\ pc' = AfterBlock(inv)
  /\ UNCHANGED <<inv, info, pending, term, lost, sheet>>

\* The block is out, or given up: open() returns.
OpenReturns ==
  /\ pc = "block"
  /\ pending = <<>>
  /\ pc' = AfterBlock(inv)
  /\ UNCHANGED <<inv, info, pending, term, lost, sheet>>

DashD(i) == MacFindKv(i.settings, <<"cmnd_cwd">>)

\* sudo's policy resolves the invocation: -D or nothing is where the command
\* starts, unless it is a login shell's home or the sudoers runcwd.  check() of
\* a console run makes the sheet's text first, and refuses when it cannot; then it
\* has the verify line to write.
PolicyResolves ==
  /\ pc = "policy"
  /\ \E f \in [user : Users, dir : Dirs \cup {None}, command : Commands] :
       /\ Given(DashD(inv)) => f.dir = DashD(inv)
       /\ SettingTrue(inv, <<"login_shell">>) => f.dir # None
       /\ info' = f
  /\ IF "sheet" \in inv.refused THEN pc' = "done" /\ pending' = <<>>
     ELSE pc' = "verify" /\ pending' = Pieces(VerifyRow(inv))
  /\ UNCHANGED <<inv, term, lost, sheet>>

\* Then the resolved command, if the build narrates.
VerifyWritten ==
  /\ pc = "verify"
  /\ pending = <<>>
  /\ pc' = "execute"
  /\ pending' = Pieces(ExecRow(inv, info))
  /\ UNCHANGED <<inv, info, term, lost, sheet>>

\* A slip, for mutants only: the sheet is up before the line is out.
RaiseSheetFirst ==
  /\ pc = "execute"
  /\ pc' = "done"
  /\ pending' = <<>>
  /\ sheet' = SheetFor(inv, info)
  /\ UNCHANGED <<inv, info, term, lost>>

\* Then the sheet.
RaiseSheet ==
  /\ pc = "execute"
  /\ pending = <<>>
  /\ pc' = "done"
  /\ sheet' = SheetFor(inv, info)
  /\ UNCHANGED <<inv, info, pending, term, lost>>

Next ==
  \/ Open
  \/ Write
  \/ Interrupted
  \/ GiveUp
  \/ OpenReturns
  \/ PolicyResolves
  \/ VerifyWritten
  \/ RaiseSheet

\* The plugins run on; a terminal takes what it is given or fails, in the end.
Fairness ==
  /\ WF_vars(Open) /\ WF_vars(OpenReturns) /\ WF_vars(PolicyResolves)
  /\ WF_vars(VerifyWritten) /\ WF_vars(RaiseSheet)
  /\ WF_vars(Write \/ GiveUp)

Spec == Init /\ [][Next]_vars /\ Fairness

-----------------------------------------------------------------------------
\* The text of the sheet stays within the length macOS shows, so the line that
\* asks to compare the code is never the one that is cut off (PromptFormatter.m,
\* the budget), whatever the values' lengths.
SheetFits == sheet.raised => sheet.length <= MaxTotal

\* The terminal holds a beginning of the block, then one of the verify line, then
\* one of the execute: line: no row twice, none out of order, none after one that
\* was cut short in the same write, however write(2) splits them.
TranscriptInOrder ==
  LET block == Pieces(Block(inv))
      line  == Pieces(ExecRow(inv, info))
  IN  \E b \in 0..Len(block), v \in 0..2 :
        LET e == Len(term) - b - v
        IN  /\ e \in 0..Len(line)
            /\ SubSeq(term, 1, b) = SubSeq(block, 1, b)
            /\ SubSeq(term, b + 1, b + v) = SubSeq(Pieces(VerifyRow(inv)), 1, v)
            /\ SubSeq(term, b + v + 1, Len(term)) = SubSeq(line, 1, e)

\* One invocation reads the same on both platforms, whatever keys stand beside the
\* ones looked for: with bundles that are ours, and memory, the macOS block is what
\* the Linux one shows, with the same emphasis, and the PATH: row after it.
TwinsShowTheSame ==
  inv.bundles = "ours" /\ inv.refused = {} =>
    MacBlock(inv) = IF LinuxBlock(inv) = <<>> THEN <<>>
                    ELSE LinuxBlock(inv) \o PathRow(inv, MacColor(inv.envp))

OnTerminal(label, value) ==
  \A second \in BOOLEAN :
    \E k \in DOMAIN term :
      /\ term[k].row.label = label /\ term[k].row.value = <<value>>
      /\ term[k].second = second

\* "(see terminal)" on the sheet points at something.  The resolved command is on
\* the terminal, whole, before the sheet is up; a user or a directory is when the
\* block was shown and the policy resolved to what it names.
MarkersBacked ==
  sheet.raised /\ ~lost =>
    /\ "command" \in sheet.elided /\ inv.echo /\ "execute" \notin inv.refused
         => OnTerminal("execute:", info.command)
    /\ MacBlock(inv) # <<>> =>
         /\ "user" \in sheet.elided /\ info.user = RunasUser(inv)
              => OnTerminal("run as:", info.user)
         /\ /\ "directory" \in sheet.elided /\ "directory" \notin inv.refused
            /\ info.dir \in {None, DashD(inv)}
            /\ Given(DashD(inv)) \/ ~SettingTrue(inv, <<"login_shell">>)
            => OnTerminal("directory:", SheetDir(inv, info))

\* A display that meets a slow or a failing terminal never keeps sudo from going
\* on: the audit plugin's open() and the approval plugin's lines come to an end.
\* (A terminal stopped by its user does hold sudo: the writes wait for it.)
NeverHoldsSudo == <>(pc = "done")
=============================================================================
