# sudowhat in TLA+

sudowhat puts a human between sudo's policy decision and the command: a PAM
module, an approval plugin and an audit plugin, wired by `/etc/sudo.conf` and
`/etc/pam.d/sudo_local`. This directory models the parts that decide whether a
command runs, checks them with TLC and proves the central facts with TLAPS.

## The system

| Component | State it keeps | Operations | What makes it correct |
|---|---|---|---|
| `sudo_local` (`nix/module.nix`, `config/pam.d`) | the lines of the file | written, truncated, swapped by a rebuild | its two readers, OpenPAM and the plugin, draw compatible conclusions |
| PAM module (`pam/pam_sudowhat.m`) | the marker `SUDOWHAT_AUTH_RAN` in sudo's environment | integrity, console-gate, console-only | refuses, accepts and leaves the marker so that the plugin can tell what happened |
| Session guard (`shared/SessionGuard.m`) | none | is the caller's session the local console one? | compares sessions, not only users |
| Approval plugin (`plugin/sudowhat_approval.m`) | `g_inv`, a pinned descriptor, the effective uid | `open`, `check`, `close` | every allow has a ground; a human's yes covers the file that runs; nothing leaks on any return |
| sudoers and its credential cache | a record per terminal | external | modelled as far as the plugins depend on it |
| Installer (`install/*.bash`) | six files, backups, the rollback list | install, rollback, uninstall, self-test | a failure restores; no state in between lets sudo run ungated |
| Linux installer (`install/linux/*.bash`, `verify-plugin-so.bash`, `Makefile`) | the artefact, the installed `.so`, what its directories allow | build, verify, install, `--verify`, uninstall | no sudo dies of the plugin while the documented order is kept; "ready" is true |
| Deploy helper (`nix/bin/deploy`) | the pin in the system flake, the running system | read, ask, pin, rebuild | what it reports (complete, in sync) is true of the running system |
| Prompt formatter (`plugin/PromptFormatter.m`) | none | the sheet's text within its budget | the line about the code is never cut off, whatever the values' lengths |
| Escape core (`shared/escape_core`) | none; the caller's buffer | decodes, escapes, quotes, colours; a C interface that is called twice, for the length and for the bytes | two commands never look alike; the line pasted into a shell is the command; a colour means one thing; a plugin is given a whole drawing or none |
| Audit plugins (`plugin/sudowhat_audit.m`, `linux/sudowhat_audit`) | how much of the block is out; on Linux an exported struct sudo reads and writes | `open`, the terminal write; `accept`, `reject`, `error`, `close` | never decide and never hold sudo; both platforms show the same rows; what the sheet leaves to the terminal is there |
| `sudo.conf` checker, signature verifier | none | a verdict each | fail closed |

How they interact. sudo loads both plugins from `sudo.conf`, asks sudoers, which
asks PAM unless authentication is waived or a credential is cached; PAM runs
`sudo_local`, which runs pam_sudowhat (it checks that the approval plugin is wired
and intact, and leaves the marker in the process environment). sudo then calls
the approval plugin's `check`, which reads the marker, asks the session guard
and `sudo_local` again, and either steps aside, defers to sudoers, or asks the
human, by a sheet on the console or by a question on the terminal.

What is hard. The two readers of `sudo_local` and of the session look at
different moments, with fast user switching, a rebuild, or another sudo in
between. The human takes any time to answer while the file at the command's path
can be replaced and its inode number reused. sudoers caches a credential before
the approval plugin has asked. `check` has some twenty returns, each of which
has to close a descriptor and restore the effective uid by itself. The
installer can fail or be cut short between any two commands. The block on the
terminal is drawn before the policy resolves anything, the sheet after it, by
different plugins that refer to each other's rows; `write(2)` takes what it
likes. Every value in them was chosen by somebody else, byte by byte, and is drawn
through a buffer whose every allocation may be refused. On Linux no script edits
`sudo.conf`, so the administrator's line and the file it names come and go in any
order, and sudo writes into a struct the loader may have sealed. `deploy` reads a
pin, waits for a human, and then edits a file that others edit too.

## Modules

| Module | What it is |
|---|---|
| `PamConf` | the texts of `sudo_local`, the plugin's classifiers and OpenPAM's run of the lines, as operators |
| `SudoLocal` | the file written one line at a time, met by callers in any situation |
| `ApprovalGate` | abstract: on which grounds a command may run |
| `ApprovalCheck` | detailed: `open`, `check`, `close` step by step in a moving environment; implements `ApprovalGate` |
| `SudoPipeline` | several sudo processes, from sudoers over PAM to the plugin's verdict, with sessions, the console, the cache |
| `Install` | `install.bash`, its rollback, `uninstall.bash`, and a sudo that loads and authenticates meanwhile |
| `EscapeCore` | escape_core's decoding, escaping, quoting and command line, as operators |
| `EscapeColour` | its colouriser, for the `execute:` and the `input:` line |
| `DeployEscape` | the same escaping rules as `nix/bin/deploy` writes them, in bash on bytes |
| `EscapeInput` | commands growing byte by byte, and the readers (an unescaper, a shell, a terminal) the drawings are held against |
| `EscapeContract` | abstract: the whole drawing of the first renderer that got its memory, or nothing |
| `EscapeABI` | detailed: the C boundary and the plugins' helpers that call it, step by step under failing allocations; implements `EscapeContract` |
| `EscapeCalls` | composes `EscapeInput` with `EscapeABI`: a plugin draws a command somebody typed |
| `PromptSheet` | PromptFormatter's budget, as operators on lengths |
| `Display` | one invocation's rows on the terminal and its sheet: the audit plugins' reading of sudo's context arrays, the approval plugin's two lines, the policy in between |
| `LinuxPlugin` | the Linux plugin's struct as sudo reads it, the scripts that build, verify, install and remove it, the administrator and a sudo |
| `Deploy` | deploy's run, with everybody else who edits the flake, tags a release or interrupts it |
| `MC...` | the instances TLC checks |
| `...Proofs` | the theorems and their proofs |

`SudoPipeline` and `ApprovalCheck` both extend `PamConf`. The pipeline does not
instantiate `ApprovalCheck`: it keeps of `check` the steps that other processes
and sessions can see (the look at the session, the read of `sudo_local`, the
sheet), so that several processes stay within TLC's reach; `ApprovalCheck` has
the rest for one process. `Display` likewise follows one console invocation to
its sheet, where `ApprovalCheck` decides whether there is one: `ApprovalCheck`
knows which rows were shown, `Display` what they say and how they got out.
`Display` takes from escape_core only the length of a value's rendering;
`EscapeInput` composes `EscapeColour` and `DeployEscape`, both over `EscapeCore`.
`EscapeABI` knows no drawing: what a renderer draws is its constant `Text`, so that
its theorems hold for drawings of any length, and `EscapeCalls` gives it the real
ones. `LinuxPlugin` begins where `Display` ends: there `open` is a member that is
called, here it is what the member does.

### PamConf and SudoLocal

A file is the sequence of its lines, a line the sequence of its tokens: what
`sw_pam_lines` leaves of it. `IsGateVariant`, `IsNopasswdOnlyVariant`,
`HasIntegrityLine`, `NonConsoleAllows`, `DeferDecision` and `ConfirmDecision` are
the functions of the same names in `sudowhat_approval.m` (`sudowhat_text_...`,
`sw_...`). The `Chain...` operators are OpenPAM: `requisite` that fails ends the
chain with a refusal, `sufficient` that succeeds ends it with success, and a chain
that runs out goes on to the rest of `/etc/pam.d/sudo`. What each line returns
depends on a situation: does the caller hold the console, is the integrity role
content, does a foreign module succeed.

### ApprovalCheck

`pc` names the next step of `check`. The function is cut where it reads or
changes something it shares with the rest of the machine, or where it can
return; the comments name the source's own section numbers (1) to (6). The
environment may act between any two steps: `ConsoleChanges`,
`RewriteSudoLocal`, `ReplaceTarget`, `RemoveTarget`, `KeepAside`, `PutBack`.
A file is an inode number with a generation. A number can be given out again
only while nothing holds its file, neither a name nor the pinned descriptor, and
the code compares numbers only: `ApprovedFileRuns` therefore depends on the pin
being held across the comparison. `NextCommand` is a second command in one
process (sudo's intercept mode), which is what makes a marker left behind a
hazard. Ghost variables (`authRan`, `inherited`, `class`, `subject`, `ground`)
record what happened and are read by properties only.

`FinalInv`, `StageInv` and `BlindInv`, in the proofs, say what each `pc` may rely
on. The wording of rows and sheets is abstracted to which rows were shown. The device
comparison that goes with the inode comparison is left out: there is one device.

### SudoPipeline

Each process is a record in `run`. `OnConsole` is SessionGuard. `Policy` is
sudoers: authentication is skipped for root, for a waiver, and for a terminal
with a live credential; `Remember` writes that credential when PAM succeeds.
`proved` and `disturbed` are ghosts: the sessions on which a factor was ever
presented, and the processes under which the console or `sudo_local` changed.

### Install

Commands of `install.bash` are numbered: 1 to 3 copy bundles, 4 to 7 edit
`sudo.conf`, 8 to 10 place the sudoers snippet, 11 and 12 place `sudo_local`, 13
is the self-test. `Fail` is a command that fails (the ERR trap), `Cut` a signal or
a power cut. A failing or interrupted `install(1)` may have removed its target.
`spoilt` remembers that a failed command lost a file that had been there, or that
an undo command failed: then there is nothing left to promise. The preflight for
files that nix owns is the guard of `Start`; a refused preflight changes nothing.

### EscapeCore, EscapeColour, DeployEscape, EscapeInput

A value is its bytes. `Decode` turns them into units: a code point stands for
itself, a byte that is not valid UTF-8 for its own negative, as the code's
`Result<char, u8>` does. `Pieces`, `Escaped`, `RenderToken`, `CommandTokens` and
`FullCommandLine` are the functions of those names; a rendered token is the
list of marked parts the code builds the plain and both coloured lines from.
`Paint` carries the painter's state (is the base colour in effect) from part to
part as the code's `armed` does; `PaintProgram` splits the path into its first
segment, the rest of the directory and the name. In a drawing each SGR sequence
of the palette is one item, negative so that it is no code point. The code puts a
notable run of spaces out as one span where `PaintPart` gives each space its own:
on a terminal the two are the same.

`DeployEscape` decodes as the bash does: the lead byte's range gives a length and a
smallest code point, the continuation bytes are folded in, and what they spell is
judged afterwards. Its hidden list is a second list.

`EscapeInput`'s state is a command; `Type` adds a chunk of its alphabet and
`NextToken` starts another argument, so the reachable states are the commands within
the bounds. The properties hold the drawings against definitions that do not use the
code's: `Unescape`, a POSIX shell's word splitting, a terminal that keeps the SGR
in effect, and a style computed per character from its place and mark.

### EscapeContract, EscapeABI, EscapeCalls

`call` is where a helper stands: `arrays` (the two arrays of tokens and lengths),
`probe` (the call without a buffer), `buffer`, `fill` (the second call), `wrap`
(the bytes become a string), `free`, then `FallBack` to the plain renderer or
`Release`. Each allocation has a step that gets it and one that does not
(`NoArrays`, `NoBuffer`, `NoString`). A buffer is a function of its slots, a slot
nothing was written to holds `Junk`, and `Written` writes slots 1 to n + 1
whatever the buffer has: a buffer too short grows in the model, and `InBounds`
would fail. `heap` is the set of live blocks.

The helpers differ and the model keeps it: `escape` draws one value, the `input:`
line always has a token, the `execute:` line allocates no arrays for none, the
sheet's line one slot each even then, and only the first two lines have a coloured
renderer to fall back from.

### PromptSheet and Display

`PromptSheet` is the formatter's arithmetic: fixed lines by their length in UTF-16
units, a value by the length of its rendering. `Layout` adds up the text as
it is put together, separately from `Overhead`, which reserved the room.

`Display` runs one invocation. What sudo hands over are arrays of `key=value`; an
entry is the tokens of its key and its value, because one key may begin with
another. The macOS plugin (`MacFindKv`, `MacShows`, `MacBlock`) and the Linux one
(`FindKv`, `DirLine`, `StartsShell`, `BuildBlock`) walk through them each in its own way,
and `refused` is what there was no memory to draw on macOS. `Open` builds the block, `Write`,
`Interrupted` and `GiveUp` are the write loop, `PolicyResolves` is sudoers,
`VerifyWritten` and `RaiseSheet` are `check` from its verify line to the sheet. A row
is two pieces, so the terminal can hold half of one. The loops differ on a write that
takes nothing: on macOS it is tried again (a stuttering step), on Linux it ends the
loop (`GiveUp`). Values are abstract and have a length; whether a directory comes
from `-D`, from the invocation, from sudoers or from a login shell's home is kept apart.

### LinuxPlugin

An image is what a build may leave, reduced to what `verify-plugin-so.bash` looks
at and the loader acts on: where the struct lies, the range to be sealed, the two
flags. `Offset` lays the struct out, `Member` reads it as sudo does. `Verifies` is the
script's verdict, `Sealed` the pages the loader makes read-only; that the first keeps sudo's
event allocator out of the second is arithmetic on page bounds, and a theorem.

The commands of `install.bash` are numbered: 1 makes the directory, 2 to 4 are
`install(1)` (unlink, create, fill), 5 says owner and mode again, 6 is the walk over
the directories. `conf` is what the administrator wrote, `Loose` the directories
whose owner or mode may be changed. A sudo reads `sudo.conf` first, loads the file later,
then calls `open`, asks the policy and tells the plugin. `lapse` is history: the first
thing done against the documented order. `crossed` marks a sudo that loaded while
`install(1)` was replacing the file or after its line was taken back.

### Deploy

A flake is a sequence of lines that name an input; `layout` says which name this
repository and which of them nix reads. `Start` is the script up to the first thing that
stops it: it takes the first line that names the repository, commented out or not.
`Pin` runs both substitutions over every line, as the perl does: a ref that begins
with the one read keeps its rest, a line with neither is left alone and perl
succeeds all the same. Between `Start`, `Answer`, `Pin` and `Rebuild` anybody may edit the
flake (`EditFlake`), tag or check out (`MoveHead`), and `Stops` is a failure, a refused
password or an interrupt. `owed` is history: the flake changed and was not rebuilt since.

## Runs

| Run | Bound | Shows |
|---|---|---|
| `sudo_local` | 6 kinds of line, files of at most 4 lines | the plugin's reading of the file follows from OpenPAM's; 4 lines are one more than the longest installed text, so every insertion, omission and swap of one line is there |
| `approval` | 2 inode numbers, 2 generations, 4 texts; deference and the run question on, execDisplay off | all properties of `check`, the refinement of `ApprovalGate`, and that `check` returns |
| `pipeline` | 2 processes, 4 sessions, 3 users, 3 texts, cache on | sheets and factors across sessions, and who can come to hold a credential; the inductive invariant of the proofs |
| `pipeline_cache_doc` | 1 process, 1 session | violated: finding 1 |
| `pipeline_password_doc` | 1 process, 2 sessions | violated: finding 2 |
| `install` | one build, administrator's own `sudo.conf` and `sudo_local` present or not | gating, rollback and uninstall, from every state failures and interruptions lead to |
| `install_doc` | two builds | violated: finding 3 |
| `escape` | five alphabets: 9 shell bytes, at most 4 bytes and token ends in 3 tokens; 6 bytes escapes are made of, at most 5; 15 bytes at the decoder's bounds, at most 4; every code point at or next to an end of a range of the hidden list; and 4 chunks, at most 2 in 2 tokens, whose commands are drawn through the C boundary | escapes, quotes and colours read back; deploy's twin agrees; the boundary's inductive invariant, and that it implements `EscapeContract` |
| `escape_doc` | 3 bytes, at most 4 | violated: finding 4 |
| `display` | both platforms, every combination of `-s`/`-i`, command word, `-u`, `-D` and invoking directory, keys that begin like the ones looked for, every reason to be silent and every drawing refused; 3 users, 3 directories, 3 commands | the transcript, the sheet, and that sudo goes on |
| `linux` | 4 images on pages of 8 units with 8-byte pointers, 3 API versions, 5 states of `sudo.conf`, 2 of the 3 directories loose | when a sudo breaks, what "ready" means, and that the policy's answer stands |
| `deploy` | 3 releases, 6 pins, 4 layouts of at most 2 lines, refs of at most 3 parts | what "complete" and "in sync" mean |

Why the bounds are enough. Two inode numbers and two files let the path get a
file of another number, or of the same one as soon as nothing holds it; longer
histories of the path are covered by the proof. The three knobs are set so that
every branch of `check` is there: with deference off or the question off the
code takes a subset of the branches, and with execDisplay off a question can be
blind, which is what `QuestionNotBlind` is about; the theorems hold for all
settings. Two processes
are the fewest that can share a terminal's record or meet on the console; the
pipeline's processes interact through the console, the file and the cache only,
and its invariant is proved for any number of them. Four sessions are one of each
kind: at the screen, remote, behind a fast user switch, root's. In `install` the
depth is not bounded: every script may be run again from every state. In `escape`,
5 bytes hold the shortest complete escape that a value can imitate (`\u{A}` or
`\xAA` and one byte next to it), 4 bytes the longest UTF-8 sequence with each byte
on either side of every bound the decoder compares with, 3 tokens a path, an
`argv[0]` that repeats it or not, and an argument. A part is drawn from
its own mark and from whether the colour is in effect, so what can happen between two
neighbours happens in 4. In `display` the lengths are the ones on either side of
each cap, and of the room the command has beside a user that is elided and a
directory at its cap; that the sheet fits for all lengths is a theorem. In `linux`
the images are the good one (the struct in the page the sealed range ends in, the
tightest place that is right), one with the struct inside the range, and one for each of
the other two reasons to fail; the versions are one before the event allocator, one with
it, one of another generation. In `deploy` the second tag begins with the first and the third does
not, one ref is a branch and one is missing; the repository's line stands alone,
below another input, below a commented-out copy of itself and above one. `RefLength`
stops a ref that grows (`v1` to `v1.0` on a line that already said `v1.0`) after
it has grown once; the theorems know no such bound. Neither run bounds how often a script is
run or a sudo is started.

`pipeline` has a VIEW, everything but the ghost `proved`: no guard reads that
variable and only `CachedRunFollowsFactor`, which the run does not check, does.
The two processes are interchangeable, and the run uses that symmetry.

Deadlock checking is on except in `escape`, `escape_doc` and `display`.
There a behaviour has an end: a command as long as the bound allows,
an invocation whose sheet is up or which shows nothing more.

Each property of a passing run has a mutant, an operator named in the module next to
the definition it replaces and marked as a slip; they are not part of the
specification.

## Fairness

`approval` assumes `WF_vars(Check)`: `check` itself runs on, since nothing it
does waits for another process; LocalAuthentication calls back in the end (the
code waits for it without a timeout, so this is an assumption about the system
service and the human, not about the code); and a human asked again and again
finally gives an answer that is one. The environment has no
fairness. The safety properties do not depend on it.

`display` assumes weak fairness of the plugins' own steps and of
`Write \/ GiveUp`: a terminal takes something or fails, in the end. A terminal its
user has stopped (control-S) does neither and does hold sudo, which is why that is
an assumption; so is that an interrupted write, or on macOS one that takes nothing,
does not go on for ever. Under it `NeverHoldsSudo` says that no error, short write or
missing terminal keeps `open` from returning.

## Theorems

All proofs are checked with Z3, Zenon and, for temporal steps, LS4.

`SudoLocalProofs`: for any set of lines and any length, a file read as nopasswd-only
refuses every non-console caller (`NopasswdOnlyRefuses`), and for every file whose
gate variant is all ours the plugin refuses whom PAM let through without a
factor (`StepAsideImpliesFactor`). The argument is in its lemmas on the operators of
`PamConf`: where a chain can stop, and what has run by then (`SudoPipelineProofs` states
the four it needs for itself). `MarkerWitnessesAuth`
rests on `LeadSetsMarker`, an invariant along the growth of the file: an auth line with only
pam_sudowhat's lines ahead of it means that the marker is set, whoever calls. (Proved on a
given file it would be an induction over its lines; along `AddLine` it is a step.)

`ApprovalCheckProofs`: for every finite or infinite set of inode numbers, every
bound on files, all texts and all knobs.
- `TypeCorrect`, and `PinInvariant`: the descriptor is held exactly from the pin to
  the comparison, and (`NumbersApart`) two files that are held never share a
  number. `PinExactlyWhileAsked` alone is not enough for `ApprovedFileRuns`: that
  the path's number equals the pinned one gives the same *file* only because the
  pin keeps the number from being reused, which is `NumbersApart`. The proof that
  it is inductive is one case: a replaced file takes a number not in use.
- `StageInvariant`: what each step has established about caller, marker, answer
  and effective uid by the time the next one runs. `AllowHasGround`,
  `MarkerTellsThisCommand`, `EuidScoped` and `SheetIsTheCallersOwn` follow from it;
  none of them is inductive by itself, because a verdict is justified by steps
  several `pc` values back.
- `QuestionNotBlind` needs that the run question's step is only reached with the
  line on the terminal (`BlindInv`), whatever execDisplay says. `CancelIsFinal`
  needs `FinalInv`: after a cancel or a "no" only the return to root and the
  decision are left, and there is no verdict before the end.
- `CheckImplementsGate`: each step of the plugin is a step of `ApprovalGate` or
  a stutter under the refinement mapping at the end of `ApprovalCheck`.

`SudoPipelineProofs`: for any processes, sessions, users and any `sudo_local`
texts that are `WellFormed` (they start with the integrity line, and a gate
variant holds no foreign line). `IInv` says of every process that went through
PAM undisturbed that it carries the marker and that it was given a factor, or
still holds the console (so the sheet is ahead of it), or meets a text under which
the plugin refuses. From it follow `SheetAtTheScreen` and `RunsHaveFactor`. A second
invariant, `MarkedInv`, holds for disturbed processes too: whoever is past PAM has
the marker, unless root, a waiver or a credential spared it PAM; and under nopasswd-only
no undisturbed remote process is at the password prompt. From it follow
`DeferredOnlyUnauthenticated` and the action properties
`NopasswdOnlyStepsAsideForWaived` and `RemoteNeverCaches`: an absent marker means
what the plugin takes it to mean.

`DisplayProofs`: for all users, directories, commands and codes of any length, the
sheet's text is at most 480 units (`SheetAlwaysFits`). The argument is
`BudgetBound`: the caps keep everything but the command within 359, so the
subtraction never reaches the code's branch for a negative budget and leaves at
least 121, more than the marker; `LayoutFits` then compares the text as it is put
together with the room reserved for it, for each closing line. The invariant is
inductive with the types, which know that a value was resolved before a sheet is.
`RowsKeepTheirOrder` is `TranscriptInOrder` for every context and every way write(2)
splits the rows. Its invariant `TranscriptInv` counts how many pieces of the block, the
verify line and the `execute:` line are out (`Has`), and says that what is pending is
the rest of the one being written (`Rest`): without the latter a write could append
anything. A write moves the count of one part (`WriteContinues`), a lost write
stops it, and `info` changes only while nothing of the `execute:` line is out.
`TwinsReadTheSame` compares two walks written in two languages: for arrays of any
length over any keys, the macOS block is the Linux block with the `PATH:` row after it.
It needs of sudo only that `submit_optind` is not past the last argument, and goes condition
by condition (`LinuxBlockIs`). `MarkersHaveTheirRows` is `MarkersBacked`: `Accounted`
says that unless a write was given up, what is out and what is pending add up to what was due
at each `pc`, so with `TranscriptInv` the terminal holds both lines and the block whole when the
sheet is up; `Told` remembers that `-D` went through the policy, and `DirectoryNamed` that an
elided directory is one that a row could name.

`InstallProofs`: for any set of builds, any contents of the administrator's files, and
scripts run one after the other, failing or cut short anywhere. The rollback list is described by
the order in which `install.bash` registers (`Slot`, `StackInv`), so that no entry is in it twice
and `sudo.conf`'s backup is put back before a `sudo.conf` that was not there is removed.
`RestoreInv` says, per file, what undoing the entries that are left comes to: a file
registered for removal was not there before, a configuration file registered for its backup has
that in the backup, and one registered for neither is as it was. This holds before, within and
after a rollback, and is what `RollbackRestores` is once the list is empty. `ConfInv` speaks of
a sudo in flight: the backup of a registered `sudo.conf` has no line that the file has not,
so putting it back can add no plugin to a sudo that has read the file. From it follows
`FreeRunIsGated`. `WorksAfterwards` needs both of a rolled back install, and `UninstallInv`,
which says how far `uninstall.bash` has come, gives it and `UninstallIsComplete` for the third.

`EscapeProofs`, the drawings: for words of any length over any bytes, `EscapeReadsBack`.
What is proved here is about recursive functions, and the library's induction theorems, which
take an operator, cannot be used. The module has its own, on sets (`Induction`, from the
well-foundedness of `<`), and `Recursion`: a definition that looks only at lower ranks has a
solution, its step given as a function. On these rest what a concatenation is
(`FlattenIsLaid`: which item is where), that hexadecimal reads back (`HexReadsBack`), and
that both scans, the decoder's and the reader's, have a value at every place (`ScanExists`). The
argument is `UnitReadsBack`: at the offset of a unit's text the reader finds that unit and goes
on at the offset of the next. Its one hard case is `BackslashIsPlain`, a backslash drawn as
itself: what would make it an introducer in the text is no backslash, so it is drawn as
itself too, stands next to it in the value, and the code would have escaped the first.
`TwinsReadAlike` is `TwinReadsAlike`, the deploy helper beside escape_core, for words of any
length. `SameEverywhere` compares the two decoders at one place of the bytes, one row of
`WellFormed` (a shape per lead byte) against arithmetic on what the bytes spell:
`SpelledBy2` to `SpelledBy4` show that the smallest value, the surrogates and the last
code point exclude exactly the second bytes that the rows leave out. `BeginsAlike` compares
the two tests for an introducer, of which the helper's looks at decoded items one by one.
The helper's list of hidden code points is compared range by range, and the drawings agree by
induction from the right end (`TwinPaints`).

`EscapeProofs`, the lines: for any number of tokens, `LinesReadBack`, `LinesStripToPlain` and
`StylesMeanTheirMarks`. Each of the three readers, the shell, the pipe and the terminal, is a
step on a state, and what it makes of a drawing is put together from what it makes of the
drawing's pieces: `Leads` says that a sequence takes a reader from one state to another,
`LeadsBoth` that two such sequences after one another do, `LeadsAll` that any number does,
with the concatenation's own values after each piece (`FlattenPiles`) for the states between.
`LinesReadBack` goes by the pieces of a token: inside quotes each adds its spelling to the
word and the shell is inside quotes again (`PieceReads`), a quote of the value included, which
leaves and re-enters; a token drawn bare has only characters that are themselves outside
quotes, and between tokens the space ends a word. The other two share the painter.
`PaintLeads` is its invariant, for any reader: `armed` says whether the reader has the base in
effect, so each part is read from the state with no colour to that state or under the base
from the state with the base to itself. For the pipe
both states are the text so far (`PaintStrips`), for the terminal they differ in the sequences
in effect (`PaintShows`), and from that come both: no colour leaks on, none runs under another.
What is left of the terminal's theorem is where the styles belong. `SpansStand` says that the
three spans the code cuts a path into are the longest stretches of places with one base, and
`StyleAgrees` that a space the painter finds notable within its span (`NotableIs`) is the
one that the definition finds next to an end or another space.

`EscapeProofs`, the C boundary: for requests and drawings of any length over any bytes. `CallInv`
(the types, which blocks are live at each step, what is in each slot) is
inductive: the second call reads the same arrays and therefore draws the same
bytes as the first, so the buffer asked for in between has their length and one more.
`CallsImplementContract` maps every step to one of `EscapeContract` or a stutter.

`LinuxPluginProofs`: for every image a linker may leave, every page size, both
pointer sizes, all versions and all contents of `sudo.conf`. `VerifiedIsWritable` is the
arithmetic: a struct at or behind the sealed range's end has its last member in a page
the loader leaves writable. `LinuxInv` says that a whole installed file comes from a verified
artefact or from a lapse, and that a live line has its file, a lapse, or `install(1)` at work;
`BreaksOnlyForALapse` is one of its parts and not inductive without them, because the sudo that
breaks read the line earlier. `ReadyMeansReady` and `AnswerStands` follow from it.

`DeployProofs`: for any tags, pins and layouts, with refs that begin like one another.
`DeployInv` remembers what the flake was when it was read (`RunInOrder`), so that what the
substitution did to the line that was read (`SubstOnItself`: a ref begins with itself and
leaves no rest) and to the others (`SubstElsewhere`) can be told once the rebuild is over.

Assumptions on constants, all named and evaluated by TLC: `KnobsAssumption`,
`MaxFilesAssumption`, `FilesAssumption`, `SessionsAssumption`, `TextsAssumption`,
`LinesAssumption`, `MaxLinesAssumption`, `BuildsAssumption`,
`InvocationsAssumption`, `ValuesAssumption`, `BoundsAssumption`, `ChunksAssumption` (words are bytes),
`RequestsAssumption`, `TextAssumption`, `ImagesAssumption` (the linker puts nothing
writable in front of the range it asks to seal), `WordsAssumption`,
`VersionsAssumption`, `ConfsAssumption`, `LooseAssumption`, `TagAssumption`,
`PinsAssumption`, `LayoutsAssumption` (nix reads exactly one of the lines that
name this repository; flakes that name it nowhere are left out, `deploy` refuses them).

The type invariants of the modules with proofs are proved there, and not run.

Only model-checked: the liveness properties `CheckReturns` and `NeverHoldsSudo`; fairness is
beyond the prover's reach. Every other property of a passing run is a theorem.

## Findings

Each is a run that TLC refutes, stating what a comment or a document says.

1. `CachedRunFollowsFactor`: the console gate lets the console user through PAM
   before the sheet, so sudoers caches a credential no factor stands behind; after
   a refused sheet the next command is deferred to sudoers. Needs a non-zero
   `authCacheMinutes`.
2. `StepAsideHasFactor`: PAM and the plugin look at the session at different
   moments; a console switch between them lets a command run without a factor.
3. `NeverHalfInstalled`: an upgrade that fails keeps the bundles it has already
   copied over the old ones.
4. `PaddingIsMarked`: a path with a space in it is always quoted, and the closing
   quote belongs to the span whose end a run of spaces has to touch, so a single
   space at the end of the program's path is not marked.

The passing properties say how far the code does go: `RunsHaveFactor` exempts runs
taken from the cache and runs under which the console or `sudo_local` changed;
`StepAsideImpliesFactor` exempts a console-gate file that also holds a foreign
line (the plugin recognises the gate variant by the presence of its two lines, so
a `pam_permit` ahead of the gate line goes unnoticed; no installer writes such a
file); `FreeRunIsGated` exempts a sudo that had read `sudo.conf` just before the
installer added the approval line to it; `MarkersBacked` vouches for the command
wherever the `execute:` line is on and could be drawn, for a user or a directory when
the policy resolved to what the block had named; `StylesMeanWhatTheyMark` defines a
padding space as the code draws it; `BreaksOnlyForALapse` exempts a sudo that loads
in the moment `install(1)` replaces the file; `InSyncMeansRunning` a flake whose last
change was not followed by a rebuild that succeeded.

Noticed on the way, without a run of its own:

- A credential cached at the console is accepted under nopasswd-only after a fast
  user switch, where `README.md:384` says that a cached credential never stands in for a
  waiver. `NopasswdOnlyStepsAsideForWaived` names the credential next to the waiver for
  this reason. It needs a non-zero `authCacheMinutes`.
- An over-long directory that sudoers chose, or a user other than the typed one, is
  `(see terminal)` on the sheet and on no row of the terminal, where
  `docs/security-design.md:272` says that the marker always points at something. The same
  goes for a command whose `execute:` line there was no memory to draw.
- `deploy` compares revisions only: a pin of the release's revision under a branch
  ref is "already in sync", though `nix/bin/deploy:10` says it bumps both. Refs of other
  lines that begin with the one read (`v1.2`, `v1.20`) are rewritten too. A pin changed by
  hand between the reading and the substitution makes perl match nothing and succeed.
  A rebuild that fails leaves the new pin in the flake, and the next run calls it in sync.
- `install/linux/install.bash:41` takes an artefact `verify-linux` has refused, since a failed
  `make` leaves it in place; an upgrade cut short in `install(1)` has no rollback, and a sudo
  with the line in its `sudo.conf` does not start until it is run again. The Linux
  `uninstall.bash` warns of a commented-out line as well.
- The path is split after its first segment on the `execute:` line only, so a single
  space before the second slash (`/A /B`) is marked there and not on `input:`; an `argv[0]`
  that repeats neither the path nor its name reads like a first argument (`-bash` under
  `sudo -i`); under a `runas_default` the block says root.

## Not modelled

The Security framework (a signature check is a nondeterministic verdict), the
parsing of `sudo.conf` (its tokenizer asks one question, whether the approval line is
there, and the models take the answer), logging, the gutter of the rows (their three
colours are one emphasis), allocations that fail outside the drawing of values, the guards of
the C interface against null inputs its callers never pass, `sw_quote_token` (nothing calls it),
`deploy-plan` (it prints what `deploy` would do), `--print` of the installers, sudo's
own plugin protocol beyond the calls named above, packaging and activation by nix. The
binaries-only installer keeps no state. See `components` in `PROJECT.json`.

## Plan

Done, in this order: `PamConf` and `SudoLocal`; `ApprovalGate` and
`ApprovalCheck` with the refinement; `SudoPipeline`; their proofs; `Install`; the
escape modules; `PromptSheet` and `Display` with the budget theorem; the C boundary with
its contract; `Display` over raw arrays; `LinuxPlugin`; `Deploy`; the proofs of the three; the
remaining safety properties of `SudoLocal`, `ApprovalCheck` and `SudoPipeline`; `Install`; the
twins and the markers of `Display`; the drawings of escape_core and the helper that must draw
alike (`EscapeReadsBack`, `TwinReadsAlike`); its lines (`LineReadsBack`, `StripsToPlain`,
`StylesMeanWhatTheyMark`), with the shell, the pipe and the terminal as recursive functions.

Left, most important first:
1. `SudoConf`: the checker's reading of `sudo.conf` against sudo's.
2. An abstract display (what a human can rely on when the sheet is up), `Display`
   shown to implement it.
