------------------------------ MODULE Install ------------------------------
(***************************************************************************)
(* install.bash with its rollback, uninstall.bash, and a sudo that starts  *)
(* and authenticates while they run.                                       *)
(*                                                                         *)
(* Six files are written, one command at a time.  Any command may fail     *)
(* (the ERR trap then undoes what was registered, last first) and the      *)
(* whole script may be cut short (a signal, a power cut: no trap is set    *)
(* for those).  A file is << >> when absent and <<content>> when present;  *)
(* what a script writes is told apart by the build it comes from.          *)
(***************************************************************************)
EXTENDS Naturals, Sequences

CONSTANTS
  Builds    \* the builds `make' may leave in build/

ASSUME BuildsAssumption == Builds \subseteq STRING /\ "theirs" \notin Builds

Bundles == {"approval", "audit", "pam"}
Configs == {"conf", "sudoers", "local"}
Files   == Bundles \cup Configs
Ours    == {"approval", "audit"}      \* the Plugin lines sudowhat adds to sudo.conf

VARIABLES
  fs,      \* the six files
  bak,     \* the .sudowhat-bak copies of the configuration files
  build,   \* the build the next install takes its files from
  job,     \* the script running: "idle", "install", "rollback", "uninstall"
  pc,      \* the next command of install.bash or uninstall.bash
  stack,   \* ROLLBACK
  before,  \* history: the files when the script started
  ended,   \* history: how the last script ended
  spoilt,  \* history: a failed copy lost an old bundle or an undo failed
  run      \* a sudo in flight

script == <<job, pc, stack, before, ended, spoilt>>
vars   == <<fs, bak, build, script, run>>

NoRun == [stage |-> "none", gated |-> FALSE, crossed |-> FALSE, free |-> FALSE]

\* The stock system, with or without files of the administrator's own.
Init ==
  /\ \E c \in {<< >>, <<{"theirs"}>>}, l \in {<< >>, <<"theirs">>} :
       fs = [f \in Files |-> CASE f = "conf" -> c [] f = "local" -> l [] OTHER -> << >>]
  /\ bak = [f \in Configs |-> << >>]
  /\ build \in Builds
  /\ job = "idle" /\ pc = 0 /\ stack = << >>
  /\ before = fs /\ ended = "none" /\ spoilt = FALSE
  /\ run = NoRun

-----------------------------------------------------------------------------
Present(f)  == fs[f] # << >>
Write(f, c) == fs' = [fs EXCEPT ![f] = <<c>>]
Remove(f)   == fs' = [fs EXCEPT ![f] = << >>]

ConfLines == IF Present("conf") THEN fs["conf"][1] ELSE {}

At(j, k) == job = j /\ pc = k
Go(k)    == pc' = k /\ UNCHANGED <<job, before, ended, spoilt>>
Finish(how) == /\ job' = "idle" /\ pc' = 0 /\ stack' = << >> /\ ended' = how
               /\ UNCHANGED before

Register(do, f) == Append(stack, [do |-> do, file |-> f])
RegisterIfAbsent(f) == IF Present(f) THEN stack ELSE Register("rm", f)

\* A script starts: preflight has passed, with what `make' left in build/.
Start(j) ==
  /\ job = "idle"
  /\ job' = j /\ pc' = 1 /\ stack' = << >>
  /\ IF j = "install" THEN build' \in Builds ELSE UNCHANGED build
  /\ before' = fs /\ ended' = "none" /\ spoilt' = FALSE
  /\ UNCHANGED <<fs, bak, run>>

-----------------------------------------------------------------------------
(* install.bash.  Commands 1-3 copy the bundles, 4-7 edit sudo.conf, 8-10  *)
(* place the sudoers snippet, 11-12 sudo_local, 13 is the self-test.       *)

Copied == <<"approval", "audit", "pam">>

\* A bundle that was there already is overwritten and not registered.
CopyBundle ==
  /\ job = "install" /\ pc \in 1..3
  /\ Write(Copied[pc], build)
  /\ stack' = RegisterIfAbsent(Copied[pc])
  /\ Go(pc + 1) /\ UNCHANGED <<bak, build, run>>

CreateConf ==
  /\ At("install", 4)
  /\ IF Present("conf") THEN UNCHANGED fs ELSE Write("conf", {})
  /\ stack' = RegisterIfAbsent("conf")
  /\ Go(5) /\ UNCHANGED <<bak, build, run>>

BackUpConf ==
  /\ At("install", 5)
  /\ IF Ours \subseteq ConfLines
     THEN Go(8) /\ UNCHANGED <<bak, stack>>
     ELSE /\ bak' = [bak EXCEPT !["conf"] = fs["conf"]]
          /\ stack' = Register("mv", "conf")
          /\ Go(6)
  /\ UNCHANGED <<fs, build, run>>

AppendLine ==
  /\ job = "install" /\ pc \in {6, 7}
  /\ LET line == IF pc = 6 THEN "audit" ELSE "approval" IN
       /\ Write("conf", ConfLines \cup {line})
       /\ run' = [run EXCEPT !.crossed = @ \/ (line = "approval" /\ line \notin ConfLines)]
  /\ Go(pc + 1) /\ UNCHANGED <<bak, stack, build>>

\* A slip, for mutants only: sudo_local backed up, but not registered.
BackUpUnregistered ==
  \E k \in {8, 11} :
    LET f == IF k = 8 THEN "sudoers" ELSE "local" IN
    /\ At("install", k)
    /\ bak' = IF Present(f) THEN [bak EXCEPT ![f] = fs[f]] ELSE bak
    /\ stack' = IF k = 8 THEN RegisterIfAbsent(f) ELSE stack
    /\ Go(k + 1) /\ UNCHANGED <<fs, build, run>>

BackUp ==
  \E k \in {8, 11} :
    LET f == IF k = 8 THEN "sudoers" ELSE "local" IN
    /\ At("install", k)
    /\ IF Present(f)
       THEN bak' = [bak EXCEPT ![f] = fs[f]] /\ stack' = Register("mv", f)
       ELSE stack' = Register("rm", f) /\ UNCHANGED bak
    /\ Go(k + 1) /\ UNCHANGED <<fs, build, run>>

Place ==
  \E k \in {9, 12} :
    /\ At("install", k)
    /\ Write(IF k = 9 THEN "sudoers" ELSE "local", build)
    /\ Go(k + 1) /\ UNCHANGED <<bak, stack, build, run>>

\* visudo -c accepts the snippet.
Visudo == /\ At("install", 10)
          /\ Go(11) /\ UNCHANGED <<fs, bak, stack, build, run>>

\* self-test.bash: every file in place, both lines and the PAM path named.
SelfTestPasses ==
  /\ \A f \in Files : Present(f)
  /\ Ours \subseteq ConfLines
  /\ fs["local"][1] # "theirs"

SelfTest == /\ At("install", 13) /\ SelfTestPasses
            /\ Finish("installed") /\ UNCHANGED <<fs, bak, build, spoilt, run>>

\* The file install(1) is writing at command pc; when it fails or is cut
\* short the file may be gone.
Target == [k \in {1, 2, 3, 9, 12} |->
            CASE k <= 3 -> Copied[k] [] k = 9 -> "sudoers" [] OTHER -> "local"]

Spoils == \/ UNCHANGED <<fs, spoilt>>
          \/ /\ job = "install" /\ pc \in DOMAIN Target
             /\ Remove(Target[pc])
             /\ spoilt' = (spoilt \/ (pc <= 3 /\ Present(Target[pc])))

\* Command pc fails; commands 1-4 have registered before they act, a backup
\* registers only once its cp is done.  (A command that finds nothing to do
\* cannot fail; here that only ends the script one command sooner.)
Fail ==
  /\ job = "install"
  /\ Spoils
  /\ stack' = CASE pc <= 3 -> RegisterIfAbsent(Copied[pc])
                [] pc = 4  -> RegisterIfAbsent("conf")
                [] OTHER   -> stack
  /\ job' = "rollback" /\ pc' = 0
  /\ UNCHANGED <<bak, build, before, ended, run>>

Undone(e) ==
  IF e.do = "rm"
  THEN Remove(e.file) /\ UNCHANGED bak
  ELSE /\ fs'  = [fs EXCEPT ![e.file] = bak[e.file]]
       /\ bak' = [bak EXCEPT ![e.file] = << >>]

\* A slip, for mutants only: undone in the order of registration.
UndoFirst ==
  /\ job = "rollback" /\ stack # << >>
  /\ Undone(Head(stack))
  /\ stack' = Tail(stack)
  /\ UNCHANGED <<job, pc, before, ended, spoilt, build, run>>

\* rollback(): the last entry first.
Undo ==
  /\ job = "rollback" /\ stack # << >>
  /\ Undone(stack[Len(stack)])
  /\ stack' = SubSeq(stack, 1, Len(stack) - 1)
  /\ UNCHANGED <<job, pc, before, ended, spoilt, build, run>>

\* ... and each is `|| true'.
UndoFails ==
  /\ job = "rollback" /\ stack # << >>
  /\ stack' = SubSeq(stack, 1, Len(stack) - 1)
  /\ spoilt' = TRUE
  /\ UNCHANGED <<fs, bak, job, pc, before, ended, build, run>>

RolledBack == /\ job = "rollback" /\ stack = << >>
              /\ Finish("rolled back") /\ UNCHANGED <<fs, bak, build, spoilt, run>>

-----------------------------------------------------------------------------
(* uninstall.bash.  Commands 1-3 remove the bundles (one rm, one file at a *)
(* time), 4-5 rewrite sudo.conf (the shell truncates it, cat refills it),  *)
(* 6-7 remove the other two files.                                         *)

RemoveBundle ==
  /\ job = "uninstall" /\ pc \in 1..3
  /\ Remove(Copied[pc])
  /\ Go(pc + 1) /\ UNCHANGED <<bak, stack, build, run>>

\* A slip, for mutants only: the audit line is not looked for.
TruncateForApproval ==
  /\ At("uninstall", 4)
  /\ IF "approval" \in ConfLines
     THEN Write("conf", {}) /\ Go(5)
     ELSE Go(6) /\ UNCHANGED fs
  /\ UNCHANGED <<bak, stack, build, run>>

TruncateConf ==
  /\ At("uninstall", 4)
  /\ IF Ours \cap ConfLines # {}
     THEN Write("conf", {}) /\ Go(5)
     ELSE Go(6) /\ UNCHANGED fs
  /\ UNCHANGED <<bak, stack, build, run>>

\* $tmp holds what was there, without our lines.
RefillConf ==
  /\ At("uninstall", 5)
  /\ Write("conf", before["conf"][1] \ Ours)
  /\ Go(6) /\ UNCHANGED <<bak, stack, build, run>>

RemoveSudoers ==
  /\ At("uninstall", 6)
  /\ Remove("sudoers")
  /\ Go(7) /\ UNCHANGED <<bak, stack, build, run>>

RemoveLocal ==
  /\ At("uninstall", 7)
  /\ Remove("local")
  /\ Finish("uninstalled") /\ UNCHANGED <<bak, build, spoilt, run>>

\* Either script, or the rollback, is cut short.  uninstall.bash sets no trap
\* either, so one of its commands failing (set -e) is the same.
Cut ==
  /\ job # "idle"
  /\ Spoils
  /\ Finish("cut") /\ UNCHANGED <<bak, build, run>>

-----------------------------------------------------------------------------
(* sudo: it loads the plugins sudo.conf names, then runs the PAM stack.    *)

Loads == \A p \in Ours : p \in ConfLines => Present(p)

LocalIsOurs == Present("local") /\ fs["local"][1] # "theirs"

SudoLoads ==
  /\ run.stage # "loaded" /\ Loads
  /\ run' = [stage |-> "loaded", gated |-> "approval" \in ConfLines,
             crossed |-> FALSE, free |-> FALSE]
  /\ UNCHANGED <<fs, bak, build, script>>

\* A slip, for mutants only: the bundle alone is verified.
BundleIntact == Present("approval")

\* pam_sudowhat's integrity role.
IntegrityHolds == "approval" \in ConfLines /\ Present("approval")

\* With our sudo_local the console user needs no factor once the integrity
\* line passes, and nobody gets in when it does not (or cannot be loaded).
SudoAuthenticates ==
  /\ run.stage = "loaded"
  /\ run' = [run EXCEPT !.stage = "done",
                        !.free = LocalIsOurs /\ Present("pam") /\ IntegrityHolds]
  /\ UNCHANGED <<fs, bak, build, script>>

-----------------------------------------------------------------------------
Next ==
  \/ Start("install") \/ Start("uninstall")
  \/ CopyBundle \/ CreateConf \/ BackUpConf \/ AppendLine \/ BackUp \/ Place
  \/ Visudo \/ SelfTest \/ Fail \/ Undo \/ UndoFails \/ RolledBack
  \/ RemoveBundle \/ TruncateConf \/ RefillConf \/ RemoveSudoers \/ RemoveLocal
  \/ Cut \/ SudoLoads \/ SudoAuthenticates

Spec == Init /\ [][Next]_vars

-----------------------------------------------------------------------------
\* What a file may hold: sudo.conf the Plugin lines in it, the others what a build or
\* the administrator put there.
Lines == Ours \cup {"theirs"}

Content(f) == CASE f = "conf"  -> SUBSET Lines
                [] f = "local" -> Builds \cup {"theirs"}
                [] OTHER       -> Builds

Kept(f) == {<< >>} \cup {<<c>> : c \in Content(f)}

FilesOf(files, names) ==
  /\ DOMAIN files = names
  /\ \A f \in names : files[f] \in Kept(f)

Entries == [do : {"rm", "mv"}, file : Files]

TypeOK ==
  /\ FilesOf(fs, Files) /\ FilesOf(before, Files) /\ FilesOf(bak, Configs)
  /\ build \in Builds
  /\ job \in {"idle", "install", "rollback", "uninstall"}
  /\ job = "install" => pc \in 1..13
  /\ job = "uninstall" => pc \in 1..7
  /\ stack \in Seq(Entries)
  /\ spoilt \in BOOLEAN
  /\ ended \in {"none", "installed", "rolled back", "uninstalled", "cut"}
  /\ run \in [stage : {"none", "loaded", "done"},
              gated : BOOLEAN, crossed : BOOLEAN, free : BOOLEAN]

\* A console user whom PAM lets through without a factor is in a sudo that
\* loaded the approval plugin, in whatever state install, rollback, uninstall
\* and their interruptions left the files; except a sudo that had read
\* sudo.conf just before the installer added the approval line to it.
FreeRunIsGated == run.free => run.gated \/ run.crossed

\* A failed install puts every configuration file back, and takes away every
\* bundle it brought (unless an undo failed or a copy lost a file).
RollbackRestores ==
  ended = "rolled back" /\ ~spoilt =>
    \A f \in Files : f \in Configs \/ before[f] = << >> => fs[f] = before[f]

\* A script that ran to its end leaves a sudo that works: every plugin named is
\* there, and sudo_local does not refuse everybody.
SudoWorks == Loads /\ (LocalIsOurs => Present("pam") /\ IntegrityHolds)

BeforeWorks ==
  LET lines == IF before["conf"] = << >> THEN {} ELSE before["conf"][1] IN
  /\ \A p \in Ours \cap lines : before[p] # << >>
  /\ before["local"] \in {<< >>, <<"theirs">>}
     \/ (before["pam"] # << >> /\ before["approval"] # << >> /\ "approval" \in lines)

WorksAfterwards ==
  \/ (ended = "rolled back" /\ ~spoilt /\ BeforeWorks)
  \/ ended \in {"installed", "uninstalled"}
  => SudoWorks

\* uninstall.bash, from whatever an earlier script left half done, removes all
\* of sudowhat and nothing of the administrator's sudo.conf.
UninstallIsComplete ==
  ended = "uninstalled" =>
    /\ \A f \in Files \ {"conf"} : ~Present(f)
    /\ Present("conf") = (before["conf"] # << >>)
    /\ Present("conf") => ConfLines = before["conf"][1] \ Ours

\* The header of install.bash: "On any failure after a partial change, rolls
\* back so the system is left with stock sudo behavior, never half-installed":
\* a rolled back install does not mix the files of two builds.
BuildsIn(files) == {files[f][1] : f \in {g \in Files \ {"conf"} : files[g] # << >>}} \ {"theirs"}
OneBuild(files) == \A b, c \in BuildsIn(files) : b = c

NeverHalfInstalled ==
  ended = "rolled back" /\ ~spoilt /\ OneBuild(before) => OneBuild(fs)
=============================================================================
