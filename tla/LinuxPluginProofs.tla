------------------------- MODULE LinuxPluginProofs -------------------------
(* For every set of images a linker can make, every page and pointer size, *)
(* every sudo version and every sudo.conf: LinuxInv is inductive, and the  *)
(* properties follow from it.                                              *)
EXTENDS LinuxPlugin, TLAPS

\* sudo reads each member where the plugin has it.
LEMMA MembersAgree ==
  ASSUME NEW m \in {"type_", "version", "open", "close", "accept", "reject", "error",
                    "show_version", "register_hooks", "deregister_hooks", "event_alloc"}
  PROVE  Member(m) = sudowhat_audit_plugin[m]
<1>1. Len(Members) = 11 /\ Len(SudoMembers) = 11
  BY DEF Members, SudoMembers
<1>2. PICK k \in 1..11 : SudoMembers[k] = m
  BY DEF SudoMembers
<1>3. \A i, j \in 1..11 : SudoMembers[i] = SudoMembers[j] => i = j
  BY SMTT(60) DEF SudoMembers
<1>4. (CHOOSE i \in 1..Len(SudoMembers) : SudoMembers[i] = m) = k
  BY <1>1, <1>2, <1>3
<1>5. \A i, j \in 1..11 : Offset(i) = Offset(j) => i = j
  <2>1. CASE Ptr = 1
    BY <2>1 DEF Offset
  <2>2. CASE Ptr = 2
    BY <2>2 DEF Offset
  <2> QED BY <2>1, <2>2, WordsAssumption
<1>6. (CHOOSE i \in 1..Len(Members) : Offset(i) = Offset(k)) = k
  BY <1>1, <1>2, <1>5
<1>7. Members[k] = m
  BY <1>2 DEF Members, SudoMembers
<1> QED
  <2>1. Member(m) = ReadAt(Offset(k))
    BY <1>4 DEF Member
  <2>2. \E i \in 1..Len(Members) : Offset(i) = Offset(k)
    BY <1>1, <1>2
  <2> QED BY <2>1, <2>2, <1>6, <1>7 DEF ReadAt

\* ... and finds there what the Rust side put in.
LEMMA MembersFound ==
  /\ Member("type_") = SUDO_AUDIT_PLUGIN
  /\ \A m \in {"open", "close", "accept", "reject", "error"} : Member(m) = m
<1>1. {Members[i] : i \in 1..Len(Members)} =
        {"type_", "version", "open", "close", "accept", "reject", "error",
         "show_version", "register_hooks", "deregister_hooks", "event_alloc"}
  <2>1. Len(Members) = 11
    BY DEF Members
  <2>2. 1..11 = {1, 2, 3, 4, 5, 6, 7, 8, 9, 10, 11}
    OBVIOUS
  <2> QED BY <2>1, <2>2 DEF Members
<1>2. sudowhat_audit_plugin["type_"] = SUDO_AUDIT_PLUGIN
  BY <1>1 DEF sudowhat_audit_plugin
<1>3. ASSUME NEW m \in {"open", "close", "accept", "reject", "error"}
      PROVE  sudowhat_audit_plugin[m] = m
  BY <1>1 DEF sudowhat_audit_plugin
<1> QED BY <1>2, <1>3, MembersAgree

\* What verify-plugin-so.bash passes, no loader seals.
LEMMA VerifiedIsWritable ==
  ASSUME NEW i \in Images, Verifies(i)
  PROVE  i.sym # Nil /\ EventAllocAt(i) \notin Sealed(i)
<1>1. i.sym \in Nat /\ i.lo \in Nat /\ i.hi \in Nat /\ i.lo <= i.sym /\ i.hi <= i.sym
  BY ImagesAssumption DEF Verifies
<1>2. Offset(Len(SudoMembers)) \in Nat
  <2>1. Len(SudoMembers) = 11
    BY DEF SudoMembers
  <2> QED BY <2>1, WordsAssumption DEF Offset
<1>3. PageOf(i.hi) <= i.hi /\ PageOf(i.hi) \in Int /\ PageOf(i.lo) \in Int
  <2>1. (i.hi % Page) \in Nat /\ (i.lo % Page) \in Nat
    BY <1>1, WordsAssumption
  <2> QED BY <2>1, <1>1 DEF PageOf
<1>4. EventAllocAt(i) \in Nat /\ EventAllocAt(i) >= i.hi
  BY <1>1, <1>2 DEF EventAllocAt
<1>5. EventAllocAt(i) \notin Sealed(i)
  BY <1>3, <1>4, <1>1 DEF Sealed
<1> QED BY <1>5 DEF Verifies

\* The stock system satisfies the invariant.
LEMMA LinuxInit == Init => LinuxInv
<1> SUFFICES ASSUME Init PROVE LinuxInv
  OBVIOUS
<1> USE DEF Init, NoConf, NoSudo
<1>1. LinuxTypeOK /\ SudoTypeOK
  BY DEF LinuxTypeOK, SudoTypeOK, Answers
<1>2. ComesFromVerified
  BY DEF ComesFromVerified, Whole
<1> QED BY <1>1, <1>2 DEF LinuxInv, LineIsServed, ReadyInPlace, BreaksOnlyForALapse

FilesInv == LinuxTypeOK /\ ComesFromVerified /\ LineIsServed /\ ReadyInPlace

\* A script or a person leaves the sudo alone and no lapse is forgotten.
LEMMA SudoLeftAlone ==
  ASSUME LinuxInv, sudo' = sudo, lapse # "none" => lapse' # "none", FilesInv'
  PROVE  LinuxInv'
<1>1. SudoTypeOK'
  BY DEF LinuxInv, SudoTypeOK
<1>2. BreaksOnlyForALapse'
  BY DEF LinuxInv, BreaksOnlyForALapse
<1> QED BY <1>1, <1>2 DEF LinuxInv, FilesInv

\* make keeps the invariant: what verify-plugin-so.bash has not seen has not passed.
LEMMA MakeKeeps ==
  ASSUME LinuxInv, (\E i \in Images : Build(i)) \/ VerifyLinux
  PROVE  LinuxInv'
<1> FilesInv
  BY DEF LinuxInv, FilesInv
<1> USE DEF FilesInv, LinuxTypeOK, ComesFromVerified, LineIsServed, ReadyInPlace, Whole
<1>1. ASSUME NEW i \in Images, Build(i)
      PROVE  FilesInv' /\ lapse' = lapse /\ sudo' = sudo
  BY <1>1, ImagesAssumption DEF Build
<1>2. ASSUME VerifyLinux
      PROVE  FilesInv' /\ lapse' = lapse /\ sudo' = sudo
  <2>1. made' = made /\ so' = so /\ dirs' = dirs /\ conf' = conf /\ lapse' = lapse /\ sudo' = sudo
        /\ job = "build" /\ job' = "idle" /\ said' # "ready" /\ passed' = Verifies(made)
    BY <1>2 DEF VerifyLinux, At, End
  <2>2. passed' \in BOOLEAN
    BY <2>1 DEF Verifies
  <2> QED BY <2>1, <2>2
<1> QED BY <1>1, <1>2, SudoLeftAlone

\* install.bash keeps the invariant.
LEMMA InstallKeeps ==
  ASSUME LinuxInv,
         \/ StartInstall \/ MakeDir \/ Unlink \/ Create \/ Fill \/ Reassert
         \/ VerifyPath \/ InstallFails \/ VerifyOnly
  PROVE  LinuxInv'
<1> DEFINE Kept == FilesInv' /\ (lapse # "none" => lapse' # "none") /\ sudo' = sudo
<1> FilesInv
  BY DEF LinuxInv, FilesInv
<1> USE DEF FilesInv, LinuxTypeOK, ComesFromVerified, LineIsServed, ReadyInPlace, Whole, Files
<1>1. ASSUME StartInstall PROVE Kept
  BY <1>1 DEF StartInstall, files, Lapse
<1>2. ASSUME MakeDir PROVE Kept
  BY <1>2 DEF MakeDir, At, Go
<1>3. ASSUME Unlink PROVE Kept
  BY <1>3 DEF Unlink, At, Go
<1>4. ASSUME Create PROVE Kept
  <2>1. so' \in Files /\ so'.image = made /\ so'.whole = FALSE
    BY <1>4 DEF Create, At
  <2>2. so' # Nil
    BY <2>1, ImagesAssumption
  <2>3. /\ job = "install" /\ pc = 3 /\ job' = job /\ pc' = 4 /\ said' = said
        /\ UNCHANGED <<made, passed, dirs, conf, lapse, sudo>>
    BY <1>4 DEF Create, At, Go
  <2> QED BY <2>1, <2>2, <2>3
<1>5. ASSUME Fill PROVE Kept
  <2>0. so \in Files
    BY <1>5 DEF Fill, At
  <2>1. so' \in Files /\ so'.image = so.image /\ so'.whole = TRUE
    BY <1>5, <2>0 DEF Fill
  <2>2. so' # Nil
    BY <2>1, ImagesAssumption
  <2>3. /\ job = "install" /\ pc = 4 /\ job' = job /\ pc' = 5 /\ said' = said
        /\ UNCHANGED <<made, passed, dirs, conf, lapse, sudo>>
    BY <1>5 DEF Fill, At, Go
  <2> QED BY <2>1, <2>2, <2>3
<1>6. ASSUME Reassert PROVE Kept
  <2>0. so \in Files
    BY <1>6 DEF Reassert, At
  <2>1. so' \in Files /\ so'.image = so.image /\ so'.whole = so.whole
    BY <1>6, <2>0 DEF Reassert
  <2>2. so' # Nil
    BY <2>1, ImagesAssumption
  <2>3. /\ job = "install" /\ pc = 5 /\ job' = job /\ pc' = 6 /\ said' = said
        /\ UNCHANGED <<made, passed, dirs, conf, lapse, sudo>>
    BY <1>6 DEF Reassert, At, Go
  <2> QED BY <2>1, <2>2, <2>3
<1>7. ASSUME VerifyPath PROVE Kept
  BY <1>7 DEF VerifyPath, At, End, files, verify_perms
<1>8. ASSUME InstallFails PROVE Kept
  BY <1>8 DEF InstallFails, End, files, Lapse
<1>9. ASSUME VerifyOnly PROVE Kept
  BY <1>9 DEF VerifyOnly, files
<1> QED BY <1>1, <1>2, <1>3, <1>4, <1>5, <1>6, <1>7, <1>8, <1>9, SudoLeftAlone

\* uninstall.bash and the administrator keep it: what they may do against the
\* documented procedure is a lapse.
LEMMA PeopleKeep ==
  ASSUME LinuxInv, StartUninstall \/ RemovePlugin \/ People
  PROVE  LinuxInv'
<1> DEFINE Kept == FilesInv' /\ (lapse # "none" => lapse' # "none") /\ sudo' = sudo
<1> FilesInv
  BY DEF LinuxInv, FilesInv
<1> USE DEF FilesInv, LinuxTypeOK, ComesFromVerified, LineIsServed, ReadyInPlace, Whole
<1>1. ASSUME StartUninstall PROVE Kept
  BY <1>1 DEF StartUninstall, files, Lapse
<1>2. ASSUME RemovePlugin PROVE Kept
  BY <1>2 DEF RemovePlugin, At, End
<1>3. ASSUME NEW c \in Confs, EditConf(c) PROVE Kept
  BY <1>3 DEF EditConf, files, script, Lapse
<1>4. ASSUME NEW d \in Loose, ChangeDir(d) PROVE Kept
  BY <1>4 DEF ChangeDir
<1> QED BY <1>1, <1>2, <1>3, <1>4, SudoLeftAlone DEF People

\* A sudo keeps it: a verified image is read right and never written where it
\* is sealed.
LEMMA SudoKeeps ==
  ASSUME LinuxInv, Sudo
  PROVE  LinuxInv'
<1>1. FilesInv'
  <2>1. UNCHANGED <<files, conf, script, lapse>>
    BY DEF Sudo, SudoStarts, SudoLoads, SudoOpens, PolicyAnswers, SudoTells, SudoCloses
  <2> QED BY <2>1 DEF LinuxInv, FilesInv, LinuxTypeOK, ComesFromVerified, LineIsServed,
                    ReadyInPlace, Whole, files, script
<1>2. SudoTypeOK' /\ BreaksOnlyForALapse'
  <2> DEFINE Kept == SudoTypeOK' /\ BreaksOnlyForALapse'
  <2> USE DEF LinuxInv, SudoTypeOK, BreaksOnlyForALapse, Answers
  <2>1. ASSUME NEW v \in Versions, SudoStarts(v) PROVE Kept
    BY <2>1 DEF SudoStarts, NoSudo, NoConf, LineIsServed
  <2>2. ASSUME SudoLoads PROVE Kept
    <3>1. conf.ours = "live" /\ ~(job = "install" /\ pc \in {3, 4}) /\ lapse = "none" =>
            Whole /\ so.image \in Images /\ Verifies(so.image)
      BY DEF Files, LinuxTypeOK, LineIsServed, ComesFromVerified, Whole
    <3>2. conf.ours = "live" /\ ~(job = "install" /\ pc \in {3, 4}) /\ lapse = "none" =>
            so.image.sym # Nil /\ EventAllocAt(so.image) \notin Sealed(so.image)
      BY <3>1, VerifiedIsWritable
    <3>3. sudo' = [sudo EXCEPT !.stage = sudo'.stage, !.crossed = sudo'.crossed]
          /\ sudo'.stage \in {"open", "broken"} /\ sudo'.crossed \in BOOLEAN
      BY <2>2 DEF SudoLoads
    <3>4. sudo'.stage = "broken" => lapse # "none" \/ sudo'.crossed
      BY <2>2, <3>1, <3>2, MembersFound DEF SudoLoads
    <3>5. lapse' = lapse
      BY <2>2 DEF SudoLoads
    <3> QED BY <3>3, <3>4, <3>5
  <2>3. ASSUME SudoOpens PROVE Kept
    BY <2>3, MembersFound DEF SudoOpens, OpenAnswer
  <2>4. ASSUME NEW a \in Answers, PolicyAnswers(a) PROVE Kept
    BY <2>4 DEF PolicyAnswers
  <2>5. ASSUME SudoTells PROVE Kept
    BY <2>5, MembersFound DEF SudoTells, Move, TellAnswer
  <2>6. ASSUME SudoCloses PROVE Kept
    BY <2>6, MembersFound DEF SudoCloses, Move
  <2> QED BY <2>1, <2>2, <2>3, <2>4, <2>5, <2>6 DEF Sudo
<1> QED BY <1>1, <1>2 DEF LinuxInv, FilesInv

\* LinuxInv holds of every behaviour.
THEOREM LinuxInvariant == Spec => []LinuxInv
<1>1. LinuxInv /\ [Next]_vars => LinuxInv'
  <2> SUFFICES ASSUME LinuxInv, [Next]_vars PROVE LinuxInv'
    OBVIOUS
  <2>1. CASE Next
    BY <2>1, MakeKeeps, InstallKeeps, PeopleKeep, SudoKeeps DEF Next, Scripts
  <2>2. CASE UNCHANGED vars
    BY <2>2 DEF vars, files, script, LinuxInv, LinuxTypeOK, ComesFromVerified, LineIsServed,
            ReadyInPlace, SudoTypeOK, BreaksOnlyForALapse, Whole
  <2> QED BY <2>1, <2>2
<1> QED BY <1>1, LinuxInit, PTL DEF Spec

\* While the documented procedure is followed the plugin costs nobody their sudo.
THEOREM SudoSurvives == Spec => []BreaksOnlyForALapse
<1>1. LinuxInv => BreaksOnlyForALapse
  BY DEF LinuxInv
<1> QED BY <1>1, LinuxInvariant, PTL

\* When install.bash is done, what it installed is whole, protected and, if it
\* was verified, writable where sudo writes.
THEOREM ReadyIsReady == Spec => []ReadyMeansReady
<1>1. LinuxInv => ReadyMeansReady
  <2> SUFFICES ASSUME LinuxInv, said = "ready", job = "idle"
               PROVE  /\ Whole /\ so.safe /\ Dirs \subseteq dirs
                      /\ passed => EventAllocAt(so.image) \notin Sealed(so.image)
    BY DEF ReadyMeansReady
  <2>1. Whole /\ so.safe /\ Dirs \subseteq dirs /\ so.image = made
    BY DEF LinuxInv, ReadyInPlace
  <2>2. passed => made \in Images /\ Verifies(made)
    BY DEF LinuxInv, LinuxTypeOK, ComesFromVerified
  <2> QED BY <2>1, <2>2, VerifiedIsWritable
<1> QED BY <1>1, LinuxInvariant, PTL

\* Once the policy has answered, nothing the plugin returns changes the answer.
THEOREM PluginHasNoSay == Spec => AnswerStands
<1>1. LinuxInv /\ [Next]_vars =>
        [/\ sudo.stage \in {"tell", "close"} => sudo'.stage # "broken"
         /\ sudo.stage = "open" => sudo'.stage = "ask"]_sudo
  <2> SUFFICES ASSUME LinuxInv, [Next]_vars, sudo' # sudo
               PROVE  /\ sudo.stage \in {"tell", "close"} => sudo'.stage # "broken"
                      /\ sudo.stage = "open" => sudo'.stage = "ask"
    OBVIOUS
  <2>1. Sudo
    BY DEF vars, Next, Scripts, People, Build, VerifyLinux, StartInstall, MakeDir, Unlink, Create,
           Fill, Reassert, VerifyPath, InstallFails, VerifyOnly, StartUninstall, RemovePlugin,
           EditConf, ChangeDir
  <2> USE DEF LinuxInv, SudoTypeOK
  <2>2. ASSUME NEW v \in Versions, SudoStarts(v)
        PROVE  sudo.stage \notin {"tell", "close", "open"}
    BY <2>2 DEF SudoStarts
  <2>3. CASE SudoLoads
    BY <2>3 DEF SudoLoads
  <2>4. CASE SudoOpens
    BY <2>4, MembersFound DEF SudoOpens, OpenAnswer
  <2>5. ASSUME NEW a \in Answers, PolicyAnswers(a)
        PROVE  sudo.stage \notin {"tell", "close", "open"}
    BY <2>5 DEF PolicyAnswers
  <2>6. CASE SudoTells
    BY <2>6, MembersFound DEF SudoTells, Move, TellAnswer, Answers
  <2>7. CASE SudoCloses
    BY <2>7, MembersFound DEF SudoCloses, Move
  <2> QED BY <2>1, <2>2, <2>3, <2>4, <2>5, <2>6, <2>7 DEF Sudo
<1> QED BY <1>1, LinuxInvariant, PTL DEF Spec, AnswerStands
=============================================================================
