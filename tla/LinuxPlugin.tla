---------------------------- MODULE LinuxPlugin ----------------------------
(***************************************************************************)
(* The Linux audit plugin as sudo meets it: an exported struct read by     *)
(* offset, written into once, and called; the make targets that build and  *)
(* verify it; install.bash and uninstall.bash for Linux; the administrator *)
(* who edits sudo.conf, because no script does; and the sudos that run     *)
(* meanwhile.                                                              *)
(*                                                                         *)
(* Addresses and offsets count 4-byte units.  What open() shows is the     *)
(* subject of module Display; here it is only a member that is called.     *)
(***************************************************************************)
EXTENDS Integers, Sequences

CONSTANTS
  Images,   \* the .so files a build may leave: [sym, lo, hi, relro, now]
  Page,     \* the size of a page
  Ptr,      \* the size of a pointer, 1 or 2 units
  Versions, \* the API versions <<major, minor>> of the sudos
  Confs,    \* what the administrator may put in sudo.conf
  Loose,    \* the directories whose owner or mode may change
  Nil       \* no file, no symbol, no member

Files == [image : Images, whole : BOOLEAN, safe : BOOLEAN]

\* The linker puts nothing writable in front of the range it asks to seal.
ASSUME ImagesAssumption ==
  /\ Images \subseteq [sym : Nat \cup {Nil}, lo : Nat, hi : Nat,
                       relro : BOOLEAN, now : BOOLEAN]
  /\ \A i \in Images : i.lo <= i.hi /\ (i.relro /\ i.sym # Nil => i.lo <= i.sym)
  /\ Nil \notin Images \cup Files \cup Nat \cup STRING
ASSUME WordsAssumption == Page \in Nat \ {0} /\ Ptr \in {1, 2}
ASSUME VersionsAssumption == Versions \subseteq Nat \X Nat
ASSUME ConfsAssumption ==
  Confs \subseteq [trusted : BOOLEAN, sudoers : BOOLEAN,
                  ours : {"live", "comment", "absent"}]

Dirs == {"/usr/local", "/usr/local/libexec", "/usr/local/libexec/sudo"}

ASSUME LooseAssumption == Loose \subseteq Dirs

-----------------------------------------------------------------------------
(* The exported struct.                                                    *)

Members == <<"type_", "version", "open", "close", "accept", "reject", "error",
             "show_version", "register_hooks", "deregister_hooks", "event_alloc">>

\* sudo reads the members where its own header has them.
SudoMembers == <<"type_", "version", "open", "close", "accept", "reject", "error",
                 "show_version", "register_hooks", "deregister_hooks", "event_alloc">>

SUDO_AUDIT_PLUGIN == 3
SUDO_API_VERSION  == <<1, 18>>

\* The optional tail is there, and empty.
sudowhat_audit_plugin ==
  [m \in {Members[i] : i \in 1..Len(Members)} |->
     CASE m = "type_"   -> SUDO_AUDIT_PLUGIN
       [] m = "version" -> SUDO_API_VERSION
       [] m \in {"open", "close", "accept", "reject", "error"} -> m
       [] OTHER         -> Nil]

\* repr(C): two ints fill the first 8 bytes, pointers follow without a gap.
Offset(i) == IF i <= 2 THEN i - 1 ELSE 2 + Ptr * (i - 3)

\* What lies at an offset of the exported struct; past its end, anything.
ReadAt(o) ==
  IF \E i \in 1..Len(Members) : Offset(i) = o
  THEN sudowhat_audit_plugin[Members[CHOOSE i \in 1..Len(Members) : Offset(i) = o]]
  ELSE "junk"

\* What sudo finds when it reads a member.
Member(m) == ReadAt(Offset(CHOOSE i \in 1..Len(SudoMembers) : SudoMembers[i] = m))

\* A slip, for mutants only: a display that finds no API of its own aborts.
OpenOrAbort(version) == IF version[1] # SUDO_API_VERSION[1] THEN -1 ELSE 1

OpenAnswer(version) == IF version[1] # SUDO_API_VERSION[1] THEN 0 ELSE 1

\* accept(), reject() and error() all answer 1.
TellAnswer == 1

-----------------------------------------------------------------------------
(* verify-plugin-so.bash, and the loader it foresees.                      *)

Verifies(i) == /\ i.relro                          \* 1. GNU_RELRO present
               /\ i.now                            \* 2. BIND_NOW present
               /\ i.sym # Nil                      \* 3. the struct is exported,
               /\ i.sym \notin i.lo..(i.hi - 1)    \*    outside the range

PageOf(a) == a - (a % Page)

\* The loader seals whole pages, and not the page the range ends in.
Sealed(i) == IF i.relro THEN PageOf(i.lo)..(PageOf(i.hi) - 1) ELSE {}

EventAllocAt(i) == i.sym + Offset(Len(SudoMembers))

-----------------------------------------------------------------------------
VARIABLES
  made,    \* target/release/libsudowhat_audit.so: an image, or Nil
  passed,  \* make verify-linux accepted what is there
  so,      \* the installed .so: Nil, or [image, whole, safe]
  dirs,    \* the directories above it that are root's and nobody else's to write
  conf,    \* sudo.conf: [trusted, sudoers, ours]
  job,     \* the script at work
  pc,      \* its next command
  said,    \* what the last script ended with
  lapse,   \* history: what was first done against the documented procedure
  sudo     \* one sudo

files  == <<made, passed, so, dirs>>
script == <<job, pc, said>>
vars   == <<files, conf, script, lapse, sudo>>

NoConf == [trusted |-> TRUE, sudoers |-> FALSE, ours |-> "absent"]
NoSudo == [stage |-> "none", version |-> <<1, 0>>, loaded |-> FALSE,
           answer |-> "none", crossed |-> FALSE]

Init ==
  /\ made = Nil /\ passed = FALSE /\ so = Nil
  /\ dirs \in {Dirs \ loose : loose \in SUBSET Loose}
  /\ conf = NoConf
  /\ job = "idle" /\ pc = 0 /\ said = "nothing"
  /\ lapse = "none"
  /\ sudo = NoSudo

Whole == so # Nil /\ so.whole

At(j, k) == job = j /\ pc = k
Go(k)    == pc' = k /\ UNCHANGED <<job, said>>
End(how) == job' = "idle" /\ pc' = 0 /\ said' = how
Lapse(what, really) == lapse' = IF really /\ lapse = "none" THEN what ELSE lapse

-----------------------------------------------------------------------------
(* make build-linux.                                                       *)

\* cargo replaces the artefact before anything has looked at it.
Build(i) ==
  /\ job = "idle"
  /\ made' = i /\ passed' = FALSE
  /\ job' = "build" /\ pc' = 1 /\ said' = "nothing"
  /\ UNCHANGED <<so, dirs, conf, lapse, sudo>>

\* A failure stops make; the artefact stays where install.bash looks for it.
VerifyLinux ==
  /\ At("build", 1)
  /\ passed' = Verifies(made)
  /\ End(IF passed' THEN "built" ELSE "failed")
  /\ UNCHANGED <<made, so, dirs, conf, lapse, sudo>>

-----------------------------------------------------------------------------
(* install/linux/install.bash.                                             *)

\* Any artefact will do: install.bash only looks that there is one.
StartInstall ==
  /\ job = "idle" /\ made # Nil
  /\ job' = "install" /\ pc' = 1 /\ said' = "nothing"
  /\ Lapse("unverified", ~passed)
  /\ UNCHANGED <<files, conf, sudo>>

MakeDir ==
  /\ At("install", 1)
  /\ dirs' = dirs \cup {"/usr/local/libexec/sudo"}
  /\ Go(2)
  /\ UNCHANGED <<made, passed, so, conf, lapse, sudo>>

\* install(1) unlinks the old file, so a sudo that mapped it keeps it, ...
Unlink ==
  /\ At("install", 2)
  /\ so' = Nil
  /\ Go(3)
  /\ UNCHANGED <<made, passed, dirs, conf, lapse, sudo>>

\* ... then creates the new one under its name and fills it.
Create ==
  /\ At("install", 3)
  /\ so' = [image |-> made, whole |-> FALSE, safe |-> TRUE]
  /\ Go(4)
  /\ UNCHANGED <<made, passed, dirs, conf, lapse, sudo>>

Fill ==
  /\ At("install", 4)
  /\ so' = [so EXCEPT !.whole = TRUE]
  /\ Go(5)
  /\ UNCHANGED <<made, passed, dirs, conf, lapse, sudo>>

\* chown and chmod say again what install(1) did.
Reassert ==
  /\ At("install", 5)
  /\ so' = [so EXCEPT !.safe = TRUE]
  /\ Go(6)
  /\ UNCHANGED <<made, passed, dirs, conf, lapse, sudo>>

\* A slip, for mutants only: the walk starts below /usr/local.
WalkFromLibexec == so # Nil /\ so.safe /\ Dirs \ {"/usr/local"} \subseteq dirs

\* The walk over the three directories and the .so.
verify_perms == so # Nil /\ so.safe /\ Dirs \subseteq dirs

\* Only now are the lines for sudo.conf printed.
VerifyPath ==
  /\ At("install", 6)
  /\ End(IF verify_perms THEN "ready" ELSE "failed")
  /\ UNCHANGED <<files, conf, lapse, sudo>>

\* set -e: a command fails and the script is over, with no rollback.
InstallFails ==
  /\ job = "install" /\ pc \in 1..5
  /\ End("failed")
  /\ Lapse("cut short", pc \in {3, 4})
  /\ UNCHANGED <<files, conf, sudo>>

\* install.bash --verify: only the walk.
VerifyOnly ==
  /\ job = "idle"
  /\ said' = IF so # Nil /\ verify_perms THEN "verified" ELSE "failed"
  /\ UNCHANGED <<files, conf, job, pc, lapse, sudo>>

-----------------------------------------------------------------------------
(* install/linux/uninstall.bash.                                           *)

\* A slip, for mutants only: no look at sudo.conf.
StartUninstallBlind ==
  /\ job = "idle"
  /\ job' = "uninstall" /\ pc' = 1 /\ said' = "nothing"
  /\ UNCHANGED <<files, conf, lapse, sudo>>

\* The text is searched, so a commented-out line raises the warning too.
StartUninstall ==
  /\ job = "idle"
  /\ job' = "uninstall" /\ pc' = 1
  /\ said' = IF conf.ours # "absent" THEN "warned" ELSE "nothing"
  /\ Lapse("warned", conf.ours # "absent")
  /\ UNCHANGED <<files, conf, sudo>>

\* Warned or not, the .so goes.
RemovePlugin ==
  /\ At("uninstall", 1)
  /\ so' = Nil
  /\ End(said)
  /\ UNCHANGED <<made, passed, dirs, conf, lapse, sudo>>

-----------------------------------------------------------------------------
(* The administrator.                                                      *)

\* sudo.conf is written by hand, from what was printed or otherwise.
EditConf(c) ==
  /\ job = "idle" /\ c # conf
  /\ conf' = c
  /\ IF c.ours = "live" /\ ~c.sudoers THEN Lapse("no sudoers", TRUE)
     ELSE Lapse("early line", c.ours = "live" /\ ~Whole)
  /\ UNCHANGED <<files, script, sudo>>

\* A directory changes hands or modes.
ChangeDir(d) ==
  /\ job = "idle"
  /\ dirs' = IF d \in dirs THEN dirs \ {d} ELSE dirs \cup {d}
  /\ said' = "nothing"
  /\ UNCHANGED <<made, passed, so, conf, job, pc, lapse, sudo>>

-----------------------------------------------------------------------------
(* One sudo.                                                               *)

Move(stage) == sudo' = [sudo EXCEPT !.stage = stage]

\* An untrusted sudo.conf is ignored; with no Plugin line the stock plugins are
\* loaded, with any only those named.
SudoStarts(v) ==
  /\ sudo.stage \in {"none", "broken", "ended"}
  /\ LET c    == IF conf.trusted THEN conf ELSE NoConf
         ours == c.ours = "live" IN
     sudo' = [NoSudo EXCEPT !.version = v,
                            !.stage = CASE ours /\ ~c.sudoers -> "broken"
                                        [] ours /\ c.sudoers  -> "load"
                                        [] OTHER              -> "ask"]
  /\ UNCHANGED <<files, conf, script, lapse>>

\* dlopen() wants the whole file, dlsym() the symbol; then sudo checks the type
\* and writes its event allocator into the struct.
SudoLoads ==
  /\ sudo.stage = "load"
  /\ LET fits == /\ Whole /\ so.image.sym # Nil
                 /\ Member("type_") = SUDO_AUDIT_PLUGIN
         dies == /\ sudo.version[2] >= 17 /\ SUDO_API_VERSION[2] >= 17
                 /\ EventAllocAt(so.image) \in Sealed(so.image) IN
     sudo' = [sudo EXCEPT
       !.stage = IF fits /\ ~dies THEN "open" ELSE "broken",
       !.crossed = conf.ours # "live" \/ (job = "install" /\ pc \in {3, 4})]
  /\ UNCHANGED <<files, conf, script, lapse>>

\* 1: loaded; 0: sudo goes on without us; anything else stops it.
SudoOpens ==
  /\ sudo.stage = "open"
  /\ LET r == IF Member("open") = "open" THEN OpenAnswer(sudo.version) ELSE -1 IN
     sudo' = [sudo EXCEPT !.stage = IF r \in {0, 1} THEN "ask" ELSE "broken",
                          !.loaded = r = 1]
  /\ UNCHANGED <<files, conf, script, lapse>>

\* The policy plugin answers, after whatever authentication it asks for.
PolicyAnswers(a) ==
  /\ sudo.stage = "ask"
  /\ sudo' = [sudo EXCEPT !.answer = a, !.stage = IF sudo.loaded THEN "tell" ELSE "ended"]
  /\ UNCHANGED <<files, conf, script, lapse>>

\* The audit plugin hears of the answer, and must say 1.
SudoTells ==
  /\ sudo.stage = "tell"
  /\ Move(IF Member(sudo.answer) = sudo.answer /\ TellAnswer = 1 THEN "close" ELSE "broken")
  /\ UNCHANGED <<files, conf, script, lapse>>

SudoCloses ==
  /\ sudo.stage = "close"
  /\ Move(IF Member("close") \in {"close", Nil} THEN "ended" ELSE "broken")
  /\ UNCHANGED <<files, conf, script, lapse>>

-----------------------------------------------------------------------------
Answers == {"accept", "reject", "error"}

Scripts == \/ \E i \in Images : Build(i)
           \/ VerifyLinux
           \/ StartInstall \/ MakeDir \/ Unlink \/ Create \/ Fill \/ Reassert
           \/ VerifyPath \/ InstallFails \/ VerifyOnly
           \/ StartUninstall \/ RemovePlugin

People  == \/ \E c \in Confs : EditConf(c)
           \/ \E d \in Loose : ChangeDir(d)

Sudo    == \/ \E v \in Versions : SudoStarts(v)
           \/ SudoLoads \/ SudoOpens
           \/ \E a \in Answers : PolicyAnswers(a)
           \/ SudoTells \/ SudoCloses

Next == Scripts \/ People \/ Sudo

Spec == Init /\ [][Next]_vars

-----------------------------------------------------------------------------
(* What the properties rest on.                                            *)

LinuxTypeOK ==
  /\ made \in Images \cup {Nil} /\ passed \in BOOLEAN
  /\ so \in Files \cup {Nil}
  /\ conf \in Confs \cup {NoConf}
  /\ \/ job = "idle"
     \/ job = "build" /\ pc = 1
     \/ job = "uninstall" /\ pc = 1 /\ said \in {"warned", "nothing"}
     \/ job = "install" /\ pc \in 1..6

SudoTypeOK ==
  /\ sudo \in [stage : {"none", "load", "open", "ask", "tell", "close", "broken", "ended"},
               version : Versions \cup {<<1, 0>>}, loaded : BOOLEAN,
               answer : Answers \cup {"none"}, crossed : BOOLEAN]
  /\ sudo.stage = "tell" => sudo.answer \in Answers

\* What is installed comes from what was verified, or there was a lapse.
ComesFromVerified ==
  /\ passed => made # Nil /\ Verifies(made)
  /\ job = "build" => made # Nil
  /\ job = "install" => made # Nil /\ (passed \/ lapse # "none")
  /\ job = "install" /\ pc \in 4..6 => so # Nil /\ so.image = made
  /\ job = "install" /\ pc \in 5..6 => Whole
  /\ Whole => Verifies(so.image) \/ lapse # "none"

\* A live line has the stock lines and a whole file, or there was a lapse, or
\* install(1) is at it.
LineIsServed ==
  /\ conf.ours = "live" /\ lapse = "none" =>
       /\ conf.sudoers
       /\ Whole \/ (job = "install" /\ pc \in {3, 4})
       /\ job # "uninstall"

ReadyInPlace ==
  said = "ready" /\ job = "idle" =>
    Whole /\ so.safe /\ Dirs \subseteq dirs /\ so.image = made

-----------------------------------------------------------------------------
(* Properties.                                                             *)

\* The plugin never costs anybody their sudo while the documented procedure is
\* followed: a sudo that dies or gives up had a lapse before it (an artefact
\* verify-plugin-so.bash did not pass, a line in sudo.conf ahead of the .so or
\* without the stock lines, a copy cut short, an uninstall that warned), or it
\* met the two commands in which install(1) replaces the file, or it had read
\* a line that is no longer there.
BreaksOnlyForALapse ==
  sudo.stage = "broken" => lapse # "none" \/ sudo.crossed

\* When install.bash prints the lines to put in sudo.conf, the .so is whole and
\* it and every directory above it are root's alone; if the artefact passed its
\* verification, no sudo of any version would die writing into it.
ReadyMeansReady ==
  said = "ready" /\ job = "idle" =>
    /\ Whole /\ so.safe /\ Dirs \subseteq dirs
    /\ passed => EventAllocAt(so.image) \notin Sealed(so.image)

\* The plugin has no say: once the policy has answered, its answer stands
\* whatever accept(), reject(), error() and close() return, and a sudo whose
\* API generation the plugin does not know goes on without it.
AnswerStands ==
  [][/\ sudo.stage \in {"tell", "close"} => sudo'.stage # "broken"
     /\ sudo.stage = "open" => sudo'.stage = "ask"]_sudo

-----------------------------------------------------------------------------
\* The two state properties follow from these, which every step preserves.
LinuxInv == /\ LinuxTypeOK /\ ComesFromVerified /\ LineIsServed /\ ReadyInPlace
            /\ SudoTypeOK /\ BreaksOnlyForALapse
=============================================================================
