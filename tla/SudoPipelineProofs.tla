------------------------- MODULE SudoPipelineProofs -------------------------
(***************************************************************************)
(* For any number of processes, sessions and users, and any well-formed    *)
(* sudo_local: sheets go to the screen's own session only, a command       *)
(* sudoers wants authenticated runs on a factor, and an absent marker      *)
(* means what the plugin takes it to mean.                                 *)
(***************************************************************************)
EXTENDS SudoPipeline, TLAPS

-----------------------------------------------------------------------------
(* The two readings of sudo_local, for a text of any length.  The first two *)
(* lemmas are in SudoLocalProofs too: PamConf has two machines over it, and *)
(* no module can extend both.                                              *)

(* The nopasswd-only text refuses a non-console caller, at its first or at *)
(* its second line.                                                        *)
LEMMA NopasswdOnlyTextRefuses ==
  ASSUME NEW c \in Situations, ~c.console
  PROVE  /\ ChainRefuses(NopasswdOnlyText, c)
         /\ ~ChainAcceptsWithoutFactor(NopasswdOnlyText, c)
<1> DEFINE t == NopasswdOnlyText
<1>1. /\ DOMAIN t = 1..3
      /\ t[1] = IntegrityLine /\ t[2] = ConsoleOnlyLine /\ t[3] = PermitLine
  BY DEF NopasswdOnlyText
<1>2. Refuses(t[2], c)
  BY <1>1 DEF Refuses, LineSucceeds, RoleOf, ConsoleOnlyLine, ConsoleOnly,
              PAM_PATH, Permit, GateArg
<1>3. ~Accepts(t[1], c) /\ ~Accepts(t[2], c)
  BY <1>1 DEF Accepts, IntegrityLine, ConsoleOnlyLine
<1>4. ChainRefuses(t, c)
  <2>1. CASE Refuses(t[1], c)
    BY <1>1, <2>1 DEF ChainRefuses, Reaches
  <2>2. CASE ~Refuses(t[1], c)
    BY <1>1, <1>2, <1>3, <2>2 DEF ChainRefuses, Reaches, Stops
  <2>3. QED  BY <2>1, <2>2
<1>5. ~ChainAcceptsWithoutFactor(t, c)
  <2> SUFFICES ASSUME NEW i \in DOMAIN t, Reaches(t, i, c), Accepts(t[i], c)
               PROVE  FALSE
    BY DEF ChainAcceptsWithoutFactor
  <2>1. i = 3  BY <1>1, <1>3
  <2>2. ~Stops(t[2], c)  BY <2>1 DEF Reaches
  <2>3. QED  BY <1>2, <2>2 DEF Stops
<1>6. QED  BY <1>4, <1>5

(* A file that is all sudowhat's own lines cannot let a non-console caller *)
(* through: its one sufficient line is the console gate.                   *)
LEMMA OwnLinesNeedFactor ==
  ASSUME NEW t, NEW c \in Situations, OwnLines(t), ~c.console
  PROVE  ~ChainAcceptsWithoutFactor(t, c)
<1> SUFFICES ASSUME NEW i \in DOMAIN t, Accepts(t[i], c)
             PROVE  FALSE
  BY DEF ChainAcceptsWithoutFactor
<1>1. t[i] \in {IntegrityLine, GateLine, ConsoleOnlyLine}
  BY DEF OwnLines, LinesOf
<1>2. CASE t[i] = GateLine
  BY <1>2 DEF Accepts, LineSucceeds, RoleOf, GateLine, GateArg, PAM_PATH, Permit
<1>3. CASE t[i] # GateLine
  BY <1>1, <1>3 DEF Accepts, IntegrityLine, ConsoleOnlyLine
<1>4. QED  BY <1>2, <1>3

(* A well-formed text that lets a non-console caller through PAM without a *)
(* factor is one the plugin refuses such a caller under.                   *)
LEMMA WellFormedAccepts ==
  ASSUME NEW t, WellFormed(t), NEW c \in Situations,
         ChainAcceptsWithoutFactor(t, c)
  PROVE  c.console \/ NonConsoleChainOf(t) = "deny"
<1> SUFFICES ASSUME ~c.console
             PROVE  NonConsoleChainOf(t) = "deny"
  OBVIOUS
<1>1. ~IsGateVariant(t)
  BY OwnLinesNeedFactor DEF WellFormed
<1>2. ~IsNopasswdOnlyVariant(t)
  BY NopasswdOnlyTextRefuses DEF IsNopasswdOnlyVariant
<1>3. QED  BY <1>1, <1>2 DEF NonConsoleChainOf

(* Running the chain of a well-formed text sets the marker: pam_sudowhat's *)
(* integrity line is the first to run.                                     *)
LEMMA WellFormedSetsMarker ==
  ASSUME NEW t, WellFormed(t), DOMAIN t = 1..Len(t), Len(t) \in Nat, NEW c
  PROVE  ChainSetsMarker(t, c) = TRUE
<1>1. 1 \in DOMAIN t  BY DEF WellFormed
<1>2. Reaches(t, 1, c)  BY DEF Reaches
<1>3. t[1][1] = "auth" /\ t[1][3] = PAM_PATH
  BY DEF WellFormed, IntegrityLine
<1>4. QED  BY <1>1, <1>2, <1>3 DEF ChainSetsMarker

-----------------------------------------------------------------------------
(* A step gives its process one of the states of a run.                   *)
LEMMA StepType ==
  ASSUME TypeOK, NEW p \in Procs, NEW from, NEW r \in Run, Step(p, from, r)
  PROVE  run' \in [Procs -> Run]
BY DEF Step, TypeOK

LEMMA IdleType ==
  ASSUME NEW s \in Sessions
  PROVE  Idle(s) \in Run
BY DEF Idle, Run

LEMMA SituationType ==
  ASSUME NEW p \in Procs, NEW intact \in BOOLEAN
  PROVE  Situation(p, intact) \in Situations
BY DEF Situation, Situations, OnConsole

LEMMA MarkerType ==
  ASSUME TypeOK, NEW c
  PROVE  ChainSetsMarker(text, c) = TRUE
<1>1. WellFormed(text) /\ text \in Seq(Seq(STRING))
  BY TextsAssumption DEF TypeOK
<1>2. DOMAIN text = 1..Len(text) /\ Len(text) \in Nat
  BY <1>1
<1>3. QED  BY <1>1, <1>2, WellFormedSetsMarker

(* Type correctness: no interleaving of processes, console switches,       *)
(* rebuilds and expiries takes a variable out of its type.                 *)
THEOREM TypeCorrect == Spec => []TypeOK
<1>1. Init => TypeOK
  BY IdleType DEF Init, TypeOK
<1>2. TypeOK /\ [Next]_vars => TypeOK'
  <2> SUFFICES ASSUME TypeOK, [Next]_vars
               PROVE  TypeOK'
    OBVIOUS
  <2>1. ASSUME NEW p \in Procs, NEW s \in Sessions, NEW w \in BOOLEAN, Start(p, s, w)
        PROVE  TypeOK'
    <3>1. [Idle(s) EXCEPT !.pc = "policy", !.waived = w] \in Run
      BY DEF Idle, Run
    <3>2. QED  BY <2>1, <3>1, StepType DEF Start, TypeOK
  <2>2. ASSUME NEW p \in Procs, Progress(p)
        PROVE  TypeOK'
    <3>0. run[p] \in Run  BY DEF TypeOK
    <3>1. CASE Policy(p)
      <4>1. [run[p] EXCEPT
               !.pc = IF NoAuthNeeded(p) \/ run[p].sess \in cred THEN "check" ELSE "pam",
               !.cached = ~NoAuthNeeded(p) /\ run[p].sess \in cred] \in Run
        BY <3>0 DEF Run, NoAuthNeeded
      <4>2. QED  BY <3>1, <4>1, StepType DEF Policy, TypeOK, world
    <3>2. CASE Pam(p)
      <4> PICK i \in BOOLEAN :
            \/ PamRefuses(p, Situation(p, i)) \/ PamAccepts(p, Situation(p, i))
            \/ PamFallsThrough(p, Situation(p, i))
        BY <3>2 DEF Pam
      <4> DEFINE m == ChainSetsMarker(text, Situation(p, i))
      <4>0. m = TRUE  BY MarkerType
      <4>1. CASE PamRefuses(p, Situation(p, i))
        <5>1. [run[p] EXCEPT !.pc = "done", !.marker = m] \in Run
          BY <3>0, <4>0 DEF Run
        <5>2. QED  BY <4>1, <5>1, StepType DEF PamRefuses, TypeOK, world
      <4>2. CASE PamAccepts(p, Situation(p, i))
        <5>1. [run[p] EXCEPT !.pc = "check", !.marker = m] \in Run
          BY <3>0, <4>0 DEF Run
        <5>2. cred' \subseteq Sessions
          BY <3>0, <4>2 DEF PamAccepts, Remember, TypeOK, Run
        <5>3. QED  BY <4>2, <5>1, <5>2, StepType DEF PamAccepts, TypeOK
      <4>3. CASE PamFallsThrough(p, Situation(p, i))
        <5>1. [run[p] EXCEPT !.pc = "password", !.marker = m] \in Run
          BY <3>0, <4>0 DEF Run
        <5>2. QED  BY <4>3, <5>1, StepType DEF PamFallsThrough, TypeOK, world
      <4>4. QED  BY <4>1, <4>2, <4>3
    <3>3. CASE PasswordRight(p)
      <4>1. [run[p] EXCEPT !.pc = "check", !.factor = "password"] \in Run
        BY <3>0 DEF Run
      <4>2. cred' \subseteq Sessions /\ proved' \subseteq Sessions
        BY <3>0, <3>3 DEF PasswordRight, Remember, TypeOK, Run
      <4>3. QED  BY <3>3, <4>1, <4>2, StepType DEF PasswordRight, TypeOK
    <3>4. CASE PasswordWrong(p)
      <4>1. [run[p] EXCEPT !.pc = "done"] \in Run  BY <3>0 DEF Run
      <4>2. QED  BY <3>4, <4>1, StepType DEF PasswordWrong, TypeOK, world
    <3>5. CASE Classify(p)
      <4>1. /\ Verdict(run[p], TRUE, "root") \in Run
            /\ [run[p] EXCEPT !.pc = IF OnConsole(run[p].sess)
                                     THEN "console" ELSE "nonConsole"] \in Run
        BY <3>0 DEF Run, Verdict
      <4>2. QED  BY <3>5, <4>1, StepType DEF Classify, TypeOK, world
    <3>6. CASE StepAside(p)
      <4>1. NonConsoleAllows(NonConsoleChainOf(text), run[p].marker) \in BOOLEAN
        BY DEF NonConsoleAllows
      <4>2. Verdict(run[p], NonConsoleAllows(NonConsoleChainOf(text), run[p].marker),
                    "stepAside") \in Run
        BY <3>0, <4>1 DEF Run, Verdict
      <4>3. QED  BY <3>6, <4>2, StepType DEF StepAside, TypeOK, world
    <3>7. CASE Defer(p)
      <4>1. Verdict(run[p], TRUE, "deferred") \in Run  BY <3>0 DEF Run, Verdict
      <4>2. QED  BY <3>7, <4>1, StepType DEF Defer, TypeOK, world
    <3>8. CASE RaiseSheet(p)
      <4>1. [run[p] EXCEPT !.pc = "asked"] \in Run  BY <3>0 DEF Run
      <4>2. QED  BY <3>8, <4>1, StepType DEF RaiseSheet, TypeOK, world
    <3>9. CASE SheetApproved(p)
      <4>1. [Verdict(run[p], TRUE, "sheet") EXCEPT !.factor = "sheet"] \in Run
        BY <3>0 DEF Run, Verdict
      <4>2. proved' \subseteq Sessions
        BY <3>0, <3>9 DEF SheetApproved, TypeOK, Run
      <4>3. QED  BY <3>9, <4>1, <4>2, StepType DEF SheetApproved, TypeOK
    <3>10. CASE SheetRefused(p)
      <4>1. Verdict(run[p], FALSE, "sheet") \in Run  BY <3>0 DEF Run, Verdict
      <4>2. QED  BY <3>10, <4>1, StepType DEF SheetRefused, TypeOK, world
    <3>11. QED
      BY <2>2, <3>1, <3>2, <3>3, <3>4, <3>5, <3>6, <3>7, <3>8, <3>9, <3>10 DEF Progress
  <2>3. ASSUME NEW p \in Procs, Finish(p)
        PROVE  TypeOK'
    <3>1. Idle(run[p].sess) \in Run  BY IdleType DEF TypeOK, Run
    <3>2. QED  BY <2>3, <3>1, StepType DEF Finish, TypeOK, world
  <2>4. CASE Environment
    BY <2>4 DEF Environment, SwitchConsole, Rebuild, Expire, TypeOK
  <2>5. CASE UNCHANGED vars
    BY <2>5 DEF vars, world, TypeOK
  <2>6. QED  BY <2>1, <2>2, <2>3, <2>4, <2>5 DEF Next
<1>3. QED  BY <1>1, <1>2, PTL DEF Spec

-----------------------------------------------------------------------------
(* Grounded(q) looks at q's record, the console, sudo_local and disturbed. *)
LEMMA GroundedFrame ==
  ASSUME NEW q \in Procs, Grounded(q), run'[q] = run[q],
         consoleUser' = consoleUser, text' = text,
         q \in disturbed' <=> q \in disturbed
  PROVE  Grounded(q)'
BY DEF Grounded, ViaPam, NoAuthNeeded, User, OnConsole

(* Authentication is waived for the same processes after p's step, when    *)
(* the step leaves session and waiver alone.                               *)
LEMMA ViaPamFrame ==
  ASSUME NEW p \in Procs, run'[p].sess = run[p].sess,
         run'[p].waived = run[p].waived, run'[p].cached = run[p].cached,
         disturbed' = disturbed
  PROVE  /\ ViaPam(p)' <=> ViaPam(p)
         /\ User(p)' = User(p)
BY DEF ViaPam, NoAuthNeeded, User

(* One step of process p up to PAM's answer.                               *)
LEMMA PamGrounds ==
  ASSUME TypeOK, NEW p \in Procs, Grounded(p), Policy(p) \/ Pam(p)
  PROVE  Grounded(p)'
<1>0. run[p] \in Run /\ (run[p].pc # "done" => ~run[p].allowed)
  BY DEF TypeOK, Grounded
<1>1. CASE Policy(p)
  <2> DEFINE asks == ~NoAuthNeeded(p) /\ run[p].sess \notin cred
  <2>1. /\ run[p].pc = "policy" /\ run'[p].allowed = run[p].allowed
        /\ run'[p].pc = (IF asks THEN "pam" ELSE "check")
        /\ run'[p].sess = run[p].sess /\ run'[p].waived = run[p].waived
        /\ run'[p].cached = (~NoAuthNeeded(p) /\ run[p].sess \in cred)
    BY <1>0, <1>1 DEF Step, TypeOK, Policy, Run, NoAuthNeeded
  <2>2. ViaPam(p)' => asks
    BY <2>1 DEF ViaPam, NoAuthNeeded, User
  <2>3. QED  BY <1>0, <2>1, <2>2 DEF Grounded
<1>2. CASE Pam(p)
  <2> PICK i \in BOOLEAN :
        \/ PamRefuses(p, Situation(p, i)) \/ PamAccepts(p, Situation(p, i))
        \/ PamFallsThrough(p, Situation(p, i))
    BY <1>2 DEF Pam
  <2> DEFINE c == Situation(p, i)
  <2>1. ChainSetsMarker(text, c) = TRUE  BY MarkerType
  <2>2. /\ run[p].pc = "pam" /\ run'[p].allowed = run[p].allowed
        /\ run'[p].pc \in {"done", "password", "check"} /\ run'[p].marker
        /\ run'[p].sess = run[p].sess
    <3>1. PICK pc \in {"done", "password", "check"} :
            /\ run[p].pc = "pam"
            /\ run'[p] = [run[p] EXCEPT !.pc = pc, !.marker = ChainSetsMarker(text, c)]
      BY DEF Step, TypeOK, PamRefuses, PamAccepts, PamFallsThrough
    <3>2. QED  BY <1>0, <2>1, <3>1 DEF Run
  <2>w. consoleUser' = consoleUser /\ text' = text
    BY DEF PamRefuses, PamAccepts, PamFallsThrough, world
  <2>3. run'[p].pc = "check" => ChainAcceptsWithoutFactor(text, c)
    BY <1>0 DEF Step, TypeOK, PamRefuses, PamAccepts, PamFallsThrough, Run
  <2>4. ChainAcceptsWithoutFactor(text, c)
          => OnConsole(run[p].sess) \/ NonConsoleChainOf(text) = "deny"
    <3>1. WellFormed(text)  BY TextsAssumption DEF TypeOK
    <3>2. c \in Situations /\ c.console = OnConsole(run[p].sess)
      BY SituationType DEF Situation
    <3>3. QED  BY <3>1, <3>2, WellFormedAccepts
  <2>5. OnConsole(run[p].sess)' = OnConsole(run[p].sess)
    BY <2>2, <2>w DEF OnConsole
  <2>6. QED  BY <1>0, <2>2, <2>3, <2>4, <2>5, <2>w DEF Grounded
<1>3. QED  BY <1>1, <1>2

(* One step of process p in the plugin.                                    *)
LEMMA PluginGrounds ==
  ASSUME TypeOK, NEW p \in Procs, Grounded(p),
         Classify(p) \/ StepAside(p) \/ Defer(p) \/ RaiseSheet(p)
  PROVE  Grounded(p)'
<1>0. run[p] \in Run /\ (run[p].pc # "done" => ~run[p].allowed)
  BY DEF TypeOK, Grounded
<1>1. CASE Classify(p)
  <2>w. UNCHANGED world
    BY <1>1 DEF Classify
  <2>r. PICK r \in {Verdict(run[p], TRUE, "root"),
                   [run[p] EXCEPT !.pc = IF OnConsole(run[p].sess)
                                         THEN "console" ELSE "nonConsole"]} :
             run[p].pc = "check" /\ run'[p] = r
    BY <1>1 DEF Classify, Step, TypeOK
  <2>1. /\ run[p].pc = "check" /\ UNCHANGED world
        /\ run'[p].sess = run[p].sess /\ run'[p].waived = run[p].waived
        /\ run'[p].cached = run[p].cached /\ run'[p].marker = run[p].marker
        /\ run'[p].factor = run[p].factor
    BY <1>0, <2>w, <2>r DEF Run, Verdict
  <2>2. ViaPam(p)' <=> ViaPam(p)
    BY <2>1, ViaPamFrame DEF world
  <2>3. CASE User(p) = Root
    <3>0. run'[p] = Verdict(run[p], TRUE, "root")
      BY <1>1, <2>3 DEF Classify, Step, TypeOK
    <3>1. run'[p].pc = "done" /\ ~ViaPam(p)
      BY <1>0, <2>3, <3>0 DEF Run, Verdict, ViaPam, NoAuthNeeded
    <3>2. QED  BY <2>2, <3>1 DEF Grounded
  <2>4. CASE User(p) # Root
    <3>0. run'[p] = [run[p] EXCEPT !.pc = IF OnConsole(run[p].sess)
                                          THEN "console" ELSE "nonConsole"]
      BY <1>1, <2>4 DEF Classify, Step, TypeOK
    <3>1. /\ run'[p].allowed = run[p].allowed
          /\ run'[p].pc = IF OnConsole(run[p].sess) THEN "console" ELSE "nonConsole"
      BY <1>0, <3>0 DEF Run
    <3>2. OnConsole(run[p].sess)' = OnConsole(run[p].sess) /\ User(p)' = User(p)
      BY <2>1 DEF OnConsole, world, User
    <3>3. OnConsole(run[p].sess) => run[p].sess \in Graphical
      BY DEF OnConsole
    <3>4. QED  BY <1>0, <2>1, <2>2, <2>4, <3>1, <3>2, <3>3 DEF Grounded, world
  <2>5. QED  BY <2>3, <2>4
<1>2. CASE StepAside(p)
  <2>1. /\ run[p].pc = "nonConsole" /\ UNCHANGED world /\ run'[p].pc = "done"
        /\ run'[p].sess = run[p].sess /\ run'[p].waived = run[p].waived
        /\ run'[p].cached = run[p].cached /\ run'[p].factor = run[p].factor
        /\ run'[p].allowed = NonConsoleAllows(NonConsoleChainOf(text), run[p].marker)
    BY <1>0, <1>2 DEF Step, TypeOK, StepAside, Run, Verdict
  <2>2. ViaPam(p)' <=> ViaPam(p)
    BY <2>1, ViaPamFrame DEF world
  <2>3. ViaPam(p) /\ run'[p].allowed => run[p].factor # "none"
    <3> SUFFICES ASSUME ViaPam(p), run'[p].allowed
                 PROVE  run[p].factor # "none"
      OBVIOUS
    <3>1. run[p].marker /\ ~OnConsole(run[p].sess)
      BY <2>1 DEF Grounded
    <3>2. NonConsoleChainOf(text) = "password"
      BY <2>1, <3>1 DEF NonConsoleAllows
    <3>3. QED  BY <2>1, <3>1, <3>2 DEF Grounded
  <2>4. QED  BY <2>1, <2>2, <2>3 DEF Grounded
<1>3. CASE Defer(p)
  <2>1. /\ run[p].pc = "console" /\ UNCHANGED world /\ run'[p].pc = "done"
        /\ run'[p].sess = run[p].sess /\ run'[p].waived = run[p].waived
        /\ run'[p].cached = run[p].cached
    BY <1>0, <1>3 DEF Step, TypeOK, Defer, Run, Verdict
  <2>2. ViaPam(p)' <=> ViaPam(p)
    BY <2>1, ViaPamFrame DEF world
  <2>3. ~ViaPam(p)
    BY <1>3, <2>1 DEF Defer, Defers, DeferDecision, Grounded
  <2>4. QED  BY <2>1, <2>2, <2>3 DEF Grounded
<1>4. CASE RaiseSheet(p)
  <2>1. /\ run[p].pc = "console" /\ UNCHANGED world /\ run'[p].pc = "asked"
        /\ run'[p].sess = run[p].sess /\ run'[p].waived = run[p].waived
        /\ run'[p].cached = run[p].cached /\ run'[p].marker = run[p].marker
        /\ run'[p].allowed = run[p].allowed
    BY <1>0, <1>4 DEF Step, TypeOK, RaiseSheet, Run
  <2>2. (ViaPam(p)' <=> ViaPam(p)) /\ User(p)' = User(p)
    BY <2>1, ViaPamFrame DEF world
  <2>3. QED  BY <1>0, <2>1, <2>2 DEF Grounded
<1>5. QED  BY <1>1, <1>2, <1>3, <1>4

(* The human's answers.                                                    *)
LEMMA AnswersGround ==
  ASSUME TypeOK, NEW p \in Procs, Grounded(p),
         \/ PasswordRight(p) \/ PasswordWrong(p)
         \/ SheetApproved(p) \/ SheetRefused(p)
  PROVE  Grounded(p)'
<1>0. run[p] \in Run /\ (run[p].pc # "done" => ~run[p].allowed)
  BY DEF TypeOK, Grounded
<1>1. CASE PasswordRight(p)
  <2>1. /\ run[p].pc = "password" /\ disturbed' = disturbed
        /\ run'[p] = [run[p] EXCEPT !.pc = "check", !.factor = "password"]
    BY <1>1 DEF PasswordRight, Step, TypeOK
  <2>2. /\ run'[p].pc = "check" /\ run'[p].factor = "password"
        /\ run'[p].sess = run[p].sess /\ run'[p].waived = run[p].waived
        /\ run'[p].cached = run[p].cached /\ run'[p].marker = run[p].marker
        /\ run'[p].allowed = run[p].allowed
    BY <1>0, <2>1 DEF Run
  <2>3. ViaPam(p)' <=> ViaPam(p)
    BY <2>1, <2>2, ViaPamFrame
  <2>4. QED  BY <1>0, <2>1, <2>2, <2>3 DEF Grounded
<1>2. CASE PasswordWrong(p)
  <2>1. run[p].pc = "password" /\ run'[p] = [run[p] EXCEPT !.pc = "done"]
    BY <1>2 DEF PasswordWrong, Step, TypeOK
  <2>2. run'[p].pc = "done" /\ run'[p].allowed = run[p].allowed
    BY <1>0, <2>1 DEF Run
  <2>3. QED  BY <1>0, <2>1, <2>2 DEF Grounded
<1>3. CASE SheetApproved(p)
  <2>1. run'[p] = [Verdict(run[p], TRUE, "sheet") EXCEPT !.factor = "sheet"]
    BY <1>3 DEF SheetApproved, Step, TypeOK
  <2>2. run'[p].pc = "done" /\ run'[p].factor = "sheet"
    BY <1>0, <2>1 DEF Run, Verdict
  <2>3. QED  BY <2>2 DEF Grounded
<1>4. CASE SheetRefused(p)
  <2>1. run'[p] = Verdict(run[p], FALSE, "sheet")
    BY <1>4 DEF SheetRefused, Step, TypeOK
  <2>2. run'[p].pc = "done" /\ ~run'[p].allowed
    BY <1>0, <2>1 DEF Run, Verdict
  <2>3. QED  BY <2>2 DEF Grounded
<1>5. QED  BY <1>1, <1>2, <1>3, <1>4

(* A process that starts, or has finished, has been granted nothing.       *)
LEMMA FreshGround ==
  ASSUME TypeOK, NEW p \in Procs, Finish(p) \/ \E s \in Sessions, w \in BOOLEAN : Start(p, s, w)
  PROVE  Grounded(p)'
<1>1. run'[p].pc \in {"idle", "policy"} /\ ~run'[p].allowed
  <2>1. CASE Finish(p)
    BY <2>1 DEF Finish, Step, TypeOK, Idle
  <2>2. ASSUME NEW s \in Sessions, NEW w \in BOOLEAN, Start(p, s, w)
        PROVE  run'[p].pc \in {"idle", "policy"} /\ ~run'[p].allowed
    <3>1. run'[p] = [Idle(s) EXCEPT !.pc = "policy", !.waived = w]
      BY <2>2 DEF Start, Step, TypeOK
    <3>2. QED  BY <3>1 DEF Idle
  <2>3. QED  BY <2>1, <2>2
<1>2. QED  BY <1>1 DEF Grounded

(* A step of one process leaves the others' console, text and disturbance. *)
LEMMA OthersKeepGround ==
  ASSUME TypeOK, IInv, NEW p \in Procs, NEW q \in Procs, q # p,
         \/ Progress(p) \/ Finish(p)
         \/ \E s \in Sessions, w \in BOOLEAN : Start(p, s, w)
  PROVE  Grounded(q)'
<1>1. \E from, r : Step(p, from, r)
  BY DEF Progress, Policy, Pam, PamRefuses, PamAccepts, PamFallsThrough,
         PasswordRight, PasswordWrong, Classify, StepAside, Defer, RaiseSheet,
         SheetApproved, SheetRefused, Finish, Start
<1>2. run'[q] = run[q]
  BY <1>1 DEF Step, TypeOK
<1>3. /\ consoleUser' = consoleUser /\ text' = text
      /\ q \in disturbed' <=> q \in disturbed
  BY DEF Progress, Policy, Pam, PamRefuses, PamAccepts, PamFallsThrough,
         PasswordRight, PasswordWrong, Classify, StepAside, Defer, RaiseSheet,
         SheetApproved, SheetRefused, Finish, Start, world
<1>4. QED  BY <1>2, <1>3, GroundedFrame DEF IInv

(* The console changing hands and a rebuild disturb every process.         *)
LEMMA EnvironmentKeepsGround ==
  ASSUME TypeOK, IInv, Environment, NEW q \in Procs
  PROVE  Grounded(q)'
<1>1. Grounded(q) /\ run'[q] = run[q]
  BY DEF IInv, Environment, SwitchConsole, Rebuild, Expire
<1>2. CASE \E s \in Sessions : Expire(s)
  BY <1>1, <1>2, GroundedFrame DEF Expire
<1>3. CASE disturbed' = Procs
  BY <1>1, <1>3 DEF Grounded, ViaPam, User
<1>4. QED  BY <1>2, <1>3 DEF Environment, SwitchConsole, Rebuild

(* The inductive invariant: what each process still owes before its        *)
(* command may run, stage by stage.                                        *)
THEOREM GroundInvariant == Spec => []IInv
<1>1. Init => IInv
  <2> SUFFICES ASSUME Init, NEW p \in Procs PROVE Grounded(p)
    BY DEF IInv
  <2>1. run[p].pc = "idle" /\ ~run[p].allowed
    BY DEF Init, Idle
  <2>2. QED  BY <2>1 DEF Grounded
<1>2. TypeOK /\ IInv /\ [Next]_vars => IInv'
  <2> SUFFICES ASSUME TypeOK, IInv, [Next]_vars, NEW q \in Procs
               PROVE  Grounded(q)'
    BY DEF IInv
  <2>0. Grounded(q)  BY DEF IInv
  <2>1. ASSUME NEW p \in Procs,
               \/ Progress(p) \/ Finish(p)
               \/ \E s \in Sessions, w \in BOOLEAN : Start(p, s, w)
        PROVE  Grounded(q)'
    <3>1. CASE q # p
      BY <2>1, <3>1, OthersKeepGround
    <3>2. CASE q = p /\ Progress(p)
      BY <2>0, <3>2, PamGrounds, PluginGrounds, AnswersGround DEF Progress
    <3>3. CASE q = p /\ ~Progress(p)
      BY <2>1, <3>3, FreshGround
    <3>4. QED  BY <3>1, <3>2, <3>3
  <2>2. CASE Environment
    BY <2>2, EnvironmentKeepsGround
  <2>3. CASE UNCHANGED vars
    BY <2>0, <2>3, GroundedFrame DEF vars, world
  <2>4. QED  BY <2>1, <2>2, <2>3 DEF Next
<1>3. QED  BY <1>1, <1>2, TypeCorrect, PTL DEF Spec

(* A sheet is only ever raised for the session at the screen: the          *)
(* approval plugin's session look, not PAM's, decides it.                  *)
THEOREM SheetsAtTheScreen == Spec => []SheetAtTheScreen
<1>1. IInv => SheetAtTheScreen
  BY DEF IInv, Grounded, SheetAtTheScreen
<1>2. QED  BY <1>1, GroundInvariant, PTL

(* No command sudoers wants authenticated is run without a factor, when    *)
(* the console and sudo_local stay what they were: the console user PAM    *)
(* waves through is asked by check(), and check() refuses whoever PAM let  *)
(* through under a text it does not know.                                  *)
THEOREM FactorBehindEveryRun == Spec => []RunsHaveFactor
<1>1. IInv => RunsHaveFactor
  BY DEF IInv, Grounded, RunsHaveFactor
<1>2. QED  BY <1>1, GroundInvariant, PTL
-----------------------------------------------------------------------------
(* What the marker of a process says, whatever changes under it: a process *)
(* past PAM carries it unless nothing was authenticated.  Under            *)
(* nopasswd-only no undisturbed remote process is at the password prompt.  *)
Unproved(p) == run[p].waived \/ run[p].cached

Marked(p) ==
  /\ run[p].pc \in {"password", "check", "nonConsole", "console"}
       => run[p].marker \/ NoAuthNeeded(p) \/ run[p].cached
  /\ run[p].pc \in {"nonConsole", "console"} => User(p) # Root
  /\ run[p].by # "none" => run[p].pc = "done"
  /\ run[p].allowed => run[p].pc = "done"
  /\ run[p].allowed /\ run[p].by = "deferred" => ~run[p].marker /\ Unproved(p)
  /\ run[p].pc = "password" /\ p \notin disturbed /\ run[p].sess \notin Graphical
       => NonConsoleChainOf(text) # "nopasswd-only"

MarkedInv == \A p \in Procs : Marked(p)

LEMMA MarkedFrame ==
  ASSUME NEW q \in Procs, Marked(q), run'[q] = run[q],
         q \notin disturbed' => text' = text /\ q \notin disturbed
  PROVE  Marked(q)'
BY DEF Marked, Unproved, NoAuthNeeded, User

(* The nopasswd-only text never leaves a remote caller to the password.    *)
LEMMA NopasswdOnlyNeverFallsThrough ==
  ASSUME NEW t, NonConsoleChainOf(t) = "nopasswd-only",
         NEW c \in Situations, ~c.console
  PROVE  ~ChainFallsThrough(t, c) /\ ~ChainAcceptsWithoutFactor(t, c)
<1>1. t = NopasswdOnlyText
  BY DEF NonConsoleChainOf, IsNopasswdOnlyVariant
<1>2. QED
  BY <1>1, NopasswdOnlyTextRefuses DEF ChainFallsThrough, ChainRefuses, Stops

LEMMA PamMarks ==
  ASSUME TypeOK, NEW p \in Procs, Marked(p), Pam(p)
  PROVE  Marked(p)'
<1> PICK i \in BOOLEAN :
      \/ PamRefuses(p, Situation(p, i)) \/ PamAccepts(p, Situation(p, i))
      \/ PamFallsThrough(p, Situation(p, i))
  BY DEF Pam
<1> DEFINE c == Situation(p, i)
<1>0. run[p] \in Run /\ c \in Situations /\ c.console = OnConsole(run[p].sess)
  BY SituationType DEF TypeOK, Situation
<1>1. ChainSetsMarker(text, c) = TRUE  BY MarkerType
<1>2. PICK pc \in {"done", "password", "check"} :
        /\ run[p].pc = "pam" /\ (pc = "password" => ChainFallsThrough(text, c))
        /\ run'[p] = [run[p] EXCEPT !.pc = pc, !.marker = ChainSetsMarker(text, c)]
  BY DEF Step, TypeOK, PamRefuses, PamAccepts, PamFallsThrough
<1>3. /\ run'[p].pc = pc /\ run'[p].marker /\ run'[p].sess = run[p].sess
      /\ run'[p].allowed = run[p].allowed /\ run'[p].by = run[p].by
  BY <1>0, <1>1, <1>2 DEF Run
<1>4. text' = text /\ disturbed' = disturbed
  BY DEF PamRefuses, PamAccepts, PamFallsThrough, world
<1>5. pc = "password" /\ run[p].sess \notin Graphical
        => NonConsoleChainOf(text) # "nopasswd-only"
  BY <1>0, <1>2, NopasswdOnlyNeverFallsThrough DEF OnConsole
<1>6. ~run[p].allowed /\ run[p].by = "none"
  BY <1>2 DEF Marked
<1>7. QED  BY <1>3, <1>4, <1>5, <1>6 DEF Marked

(* The other steps of p: its record is given by what the step returns.     *)
LEMMA OwnStepMarks ==
  ASSUME TypeOK, NEW p \in Procs, Marked(p),
         \/ Progress(p) \/ Finish(p)
         \/ \E s \in Sessions, w \in BOOLEAN : Start(p, s, w)
  PROVE  Marked(p)'
<1>0. run[p] \in Run  BY DEF TypeOK
<1>1. CASE Policy(p)
  <2> DEFINE ask == ~(NoAuthNeeded(p) \/ run[p].sess \in cred)
  <2>1. /\ run[p].pc = "policy"
        /\ run'[p] = [run[p] EXCEPT !.pc = IF ask THEN "pam" ELSE "check",
                        !.cached = ~NoAuthNeeded(p) /\ run[p].sess \in cred]
    BY <1>1 DEF Policy, Step, TypeOK
  <2>2. /\ run'[p].pc = IF ask THEN "pam" ELSE "check"
        /\ run'[p].cached = (~NoAuthNeeded(p) /\ run[p].sess \in cred)
        /\ run'[p].waived = run[p].waived /\ run'[p].sess = run[p].sess
        /\ run'[p].allowed = run[p].allowed /\ run'[p].by = run[p].by
    BY <1>0, <2>1 DEF Run, NoAuthNeeded
  <2>3. NoAuthNeeded(p)' <=> NoAuthNeeded(p)
    BY <2>2 DEF NoAuthNeeded, User
  <2>4. QED  BY <2>1, <2>2, <2>3 DEF Marked
<1>2. CASE Pam(p)
  BY <1>2, PamMarks
<1>3. CASE PasswordRight(p) \/ PasswordWrong(p)
  <2>1. /\ run[p].pc = "password"
        /\ \/ run'[p] = [run[p] EXCEPT !.pc = "check", !.factor = "password"]
           \/ run'[p] = [run[p] EXCEPT !.pc = "done"]
    BY <1>3 DEF PasswordRight, PasswordWrong, Step, TypeOK
  <2>2. /\ run'[p].pc \in {"check", "done"} /\ run'[p].marker = run[p].marker
        /\ run'[p].cached = run[p].cached
        /\ run'[p].waived = run[p].waived /\ run'[p].sess = run[p].sess
        /\ run'[p].allowed = run[p].allowed /\ run'[p].by = run[p].by
    BY <1>0, <2>1 DEF Run
  <2>3. QED  BY <2>1, <2>2 DEF Marked, NoAuthNeeded, User
<1>4. CASE Classify(p)
  <2>1. CASE User(p) = Root
    <3>1. run'[p] = Verdict(run[p], TRUE, "root")
      BY <1>4, <2>1 DEF Classify, Step, TypeOK
    <3>2. run'[p].pc = "done" /\ run'[p].by = "root"
      BY <1>0, <3>1 DEF Run, Verdict
    <3>3. QED  BY <3>2 DEF Marked
  <2>2. CASE User(p) # Root
    <3>1. /\ run[p].pc = "check"
          /\ run'[p] = [run[p] EXCEPT !.pc = IF OnConsole(run[p].sess)
                                             THEN "console" ELSE "nonConsole"]
      BY <1>4, <2>2 DEF Classify, Step, TypeOK
    <3>2. /\ run'[p].pc \in {"console", "nonConsole"}
          /\ run'[p].marker = run[p].marker /\ run'[p].cached = run[p].cached
          /\ run'[p].waived = run[p].waived /\ run'[p].sess = run[p].sess
          /\ run'[p].allowed = run[p].allowed /\ run'[p].by = run[p].by
      BY <1>0, <3>1 DEF Run
    <3>3. QED  BY <2>2, <3>1, <3>2 DEF Marked, NoAuthNeeded, User
  <2>3. QED  BY <2>1, <2>2
<1>5. CASE StepAside(p)
  <2>1. run'[p] = Verdict(run[p],
             NonConsoleAllows(NonConsoleChainOf(text), run[p].marker), "stepAside")
    BY <1>5 DEF StepAside, Step, TypeOK
  <2>2. run'[p].pc = "done" /\ run'[p].by = "stepAside"
    BY <1>0, <2>1 DEF Run, Verdict
  <2>3. QED  BY <2>2 DEF Marked
<1>6. CASE Defer(p)
  <2>1. /\ run[p].pc = "console" /\ ~run[p].marker
        /\ run'[p] = Verdict(run[p], TRUE, "deferred")
    BY <1>6 DEF Defer, Defers, DeferDecision, Step, TypeOK
  <2>2. /\ run'[p].pc = "done" /\ run'[p].marker = run[p].marker
        /\ run'[p].cached = run[p].cached /\ run'[p].waived = run[p].waived
    BY <1>0, <2>1 DEF Run, Verdict
  <2>3. Unproved(p)
    BY <2>1 DEF Marked, NoAuthNeeded, Unproved
  <2>4. QED  BY <2>1, <2>2, <2>3 DEF Marked, Unproved
<1>7. CASE RaiseSheet(p)
  <2>1. run[p].pc = "console" /\ run'[p] = [run[p] EXCEPT !.pc = "asked"]
    BY <1>7 DEF RaiseSheet, Step, TypeOK
  <2>2. /\ run'[p].pc = "asked" /\ run'[p].allowed = run[p].allowed
        /\ run'[p].by = run[p].by
    BY <1>0, <2>1 DEF Run
  <2>3. QED  BY <2>1, <2>2 DEF Marked
<1>8. CASE SheetApproved(p) \/ SheetRefused(p)
  <2>1. \/ run'[p] = [Verdict(run[p], TRUE, "sheet") EXCEPT !.factor = "sheet"]
        \/ run'[p] = Verdict(run[p], FALSE, "sheet")
    BY <1>8 DEF SheetApproved, SheetRefused, Step, TypeOK
  <2>2. run'[p].pc = "done" /\ run'[p].by = "sheet"
    BY <1>0, <2>1 DEF Run, Verdict
  <2>3. QED  BY <2>2 DEF Marked
<1>9. CASE Finish(p)
  <2>1. run'[p] = Idle(run[p].sess)
    BY <1>9 DEF Finish, Step, TypeOK
  <2>2. run'[p].pc = "idle" /\ ~run'[p].allowed /\ run'[p].by = "none"
    BY <2>1 DEF Idle
  <2>3. QED  BY <2>2 DEF Marked
<1>10. ASSUME NEW s \in Sessions, NEW w \in BOOLEAN, Start(p, s, w)
       PROVE  Marked(p)'
  <2>1. run'[p] = [Idle(s) EXCEPT !.pc = "policy", !.waived = w]
    BY <1>10 DEF Start, Step, TypeOK
  <2>2. run'[p].pc = "policy" /\ ~run'[p].allowed /\ run'[p].by = "none"
    BY <2>1 DEF Idle
  <2>3. QED  BY <2>2 DEF Marked
<1>11. QED
  BY <1>1, <1>2, <1>3, <1>4, <1>5, <1>6, <1>7, <1>8, <1>9, <1>10 DEF Progress

(* A step of the other process does not touch this one's record.           *)
LEMMA OthersKeepMarks ==
  ASSUME TypeOK, MarkedInv, NEW p \in Procs, NEW q \in Procs, q # p,
         \/ Progress(p) \/ Finish(p)
         \/ \E s \in Sessions, w \in BOOLEAN : Start(p, s, w)
  PROVE  Marked(q)'
<1>1. \E from, r : Step(p, from, r)
  BY DEF Progress, Policy, Pam, PamRefuses, PamAccepts, PamFallsThrough,
         PasswordRight, PasswordWrong, Classify, StepAside, Defer, RaiseSheet,
         SheetApproved, SheetRefused, Finish, Start
<1>2. run'[q] = run[q]
  BY <1>1 DEF Step, TypeOK
<1>3. text' = text /\ (q \in disturbed' <=> q \in disturbed)
  BY DEF Progress, Policy, Pam, PamRefuses, PamAccepts, PamFallsThrough,
         PasswordRight, PasswordWrong, Classify, StepAside, Defer, RaiseSheet,
         SheetApproved, SheetRefused, Finish, Start, world
<1>4. QED  BY <1>2, <1>3, MarkedFrame DEF MarkedInv

(* No interleaving separates a process from the marker PAM left it.        *)
THEOREM MarkInvariant == Spec => []MarkedInv
<1>1. Init => MarkedInv
  <2> SUFFICES ASSUME Init, NEW p \in Procs PROVE Marked(p)
    BY DEF MarkedInv
  <2>1. run[p].pc = "idle" /\ ~run[p].allowed /\ run[p].by = "none"
    BY DEF Init, Idle
  <2>2. QED  BY <2>1 DEF Marked
<1>2. TypeOK /\ MarkedInv /\ [Next]_vars => MarkedInv'
  <2> SUFFICES ASSUME TypeOK, MarkedInv, [Next]_vars, NEW q \in Procs
               PROVE  Marked(q)'
    BY DEF MarkedInv
  <2>0. Marked(q)  BY DEF MarkedInv
  <2>1. ASSUME NEW p \in Procs,
               \/ Progress(p) \/ Finish(p)
               \/ \E s \in Sessions, w \in BOOLEAN : Start(p, s, w)
        PROVE  Marked(q)'
    <3>1. CASE q # p
      BY <2>1, <3>1, OthersKeepMarks
    <3>2. CASE q = p
      BY <2>0, <2>1, <3>2, OwnStepMarks
    <3>3. QED  BY <3>1, <3>2
  <2>2. CASE Environment
    <3>1. run'[q] = run[q]
      BY <2>2 DEF Environment, SwitchConsole, Rebuild, Expire
    <3>2. q \notin disturbed' => text' = text /\ q \notin disturbed
      BY <2>2 DEF Environment, SwitchConsole, Rebuild, Expire
    <3>3. QED  BY <2>0, <3>1, <3>2, MarkedFrame
  <2>3. CASE UNCHANGED vars
    BY <2>0, <2>3, MarkedFrame DEF vars, world
  <2>4. QED  BY <2>1, <2>2, <2>3 DEF Next
<1>3. QED  BY <1>1, <1>2, TypeCorrect, PTL DEF Spec

(* check() defers to sudoers only what sudo did not authenticate itself,   *)
(* and no switch of console or sudo_local in between changes that.         *)
THEOREM DeferenceIsForTheUnproved == Spec => []DeferredOnlyUnauthenticated
<1>1. MarkedInv => DeferredOnlyUnauthenticated
  BY DEF MarkedInv, Marked, Unproved, DeferredOnlyUnauthenticated
<1>2. QED  BY <1>1, MarkInvariant, PTL

(* Under nopasswd-only the step aside is for a waiver or a credential,     *)
(* whichever of the two readings of the session the caller slipped between.*)
THEOREM NopasswdOnlyStepAside == Spec => NopasswdOnlyStepsAsideForWaived
<1> DEFINE A == \A p \in Procs :
                  /\ NonConsoleChainOf(text) = "nopasswd-only"
                  /\ run[p].pc = "nonConsole" /\ run'[p].allowed
                  => run[p].waived \/ run[p].cached
<1>1. TypeOK /\ MarkedInv /\ [Next]_vars => [A]_vars
  <2> SUFFICES ASSUME TypeOK, MarkedInv, [Next]_vars, NEW p \in Procs,
                      NonConsoleChainOf(text) = "nopasswd-only",
                      run[p].pc = "nonConsole", run'[p].allowed
               PROVE  run[p].waived \/ run[p].cached
    OBVIOUS
  <2>0. Marked(p) /\ run[p] \in Run  BY DEF MarkedInv, TypeOK
  <2>1. run'[p] # run[p]  BY <2>0 DEF Marked
  <2>2. StepAside(p)
    <3>1. PICK q \in Procs :
            \/ Progress(q) \/ Finish(q)
            \/ \E s \in Sessions, w \in BOOLEAN : Start(q, s, w)
      BY <2>1 DEF Next, Environment, SwitchConsole, Rebuild, Expire, vars
    <3>2. \E from, r : Step(q, from, r)
      BY <3>1 DEF Progress, Policy, Pam, PamRefuses, PamAccepts, PamFallsThrough,
           PasswordRight, PasswordWrong, Classify, StepAside, Defer, RaiseSheet,
           SheetApproved, SheetRefused, Finish, Start
    <3>3. q = p
      BY <2>1, <3>2 DEF Step, TypeOK
    <3>4. QED
      BY <3>1, <3>3 DEF Progress, Policy, Pam, PamRefuses, PamAccepts, PamFallsThrough,
           PasswordRight, PasswordWrong, Classify, Defer, RaiseSheet,
           SheetApproved, SheetRefused, Finish, Start, Step
  <2>3. run'[p] = Verdict(run[p],
             NonConsoleAllows(NonConsoleChainOf(text), run[p].marker), "stepAside")
    BY <2>2 DEF StepAside, Step, TypeOK
  <2>4. NonConsoleAllows("nopasswd-only", run[p].marker)
    BY <2>0, <2>3 DEF Verdict, Run
  <2>5. ~run[p].marker  BY <2>4 DEF NonConsoleAllows
  <2>6. QED  BY <2>0, <2>5 DEF Marked, NoAuthNeeded
<1>2. QED
  BY <1>1, TypeCorrect, MarkInvariant, PTL DEF Spec, NopasswdOnlyStepsAsideForWaived

(* Under nopasswd-only PAM turns every remote caller away before the       *)
(* password prompt, so that no remote session comes by a credential.       *)
THEOREM RemoteHoldsNoCredential == Spec => RemoteNeverCaches
<1> DEFINE A == \A p \in Procs :
                  /\ run[p].sess \in cred' \ cred /\ run'[p] # run[p]
                  /\ run[p].sess \notin Graphical /\ p \notin disturbed
                  => NonConsoleChainOf(text) # "nopasswd-only"
<1>1. TypeOK /\ MarkedInv /\ [Next]_vars => [A]_vars
  <2> SUFFICES ASSUME TypeOK, MarkedInv, [Next]_vars, NEW p \in Procs,
                      run[p].sess \in cred' \ cred, run'[p] # run[p],
                      run[p].sess \notin Graphical, p \notin disturbed
               PROVE  NonConsoleChainOf(text) # "nopasswd-only"
    OBVIOUS
  <2>0. Marked(p) /\ run[p] \in Run  BY DEF MarkedInv, TypeOK
  <2>1. PasswordRight(p) \/ Pam(p)
    <3>1. PICK q \in Procs :
            \/ Progress(q) \/ Finish(q)
            \/ \E s \in Sessions, w \in BOOLEAN : Start(q, s, w)
      BY DEF Next, Environment, SwitchConsole, Rebuild, Expire, vars
    <3>2. \E from, r : Step(q, from, r)
      BY <3>1 DEF Progress, Policy, Pam, PamRefuses, PamAccepts, PamFallsThrough,
           PasswordRight, PasswordWrong, Classify, StepAside, Defer, RaiseSheet,
           SheetApproved, SheetRefused, Finish, Start
    <3>3. q = p
      BY <3>2 DEF Step, TypeOK
    <3>4. QED
      BY <3>1, <3>3 DEF Progress, Policy, PasswordWrong, Classify, StepAside,
           Defer, RaiseSheet, SheetApproved, SheetRefused, Finish, Start, world
  <2>2. CASE PasswordRight(p)
    BY <2>0, <2>2 DEF PasswordRight, Step, Marked
  <2>3. CASE Pam(p)
    <3> PICK i \in BOOLEAN :
          \/ PamRefuses(p, Situation(p, i)) \/ PamAccepts(p, Situation(p, i))
          \/ PamFallsThrough(p, Situation(p, i))
      BY <2>3 DEF Pam
    <3>1. ChainAcceptsWithoutFactor(text, Situation(p, i))
      BY DEF PamRefuses, PamAccepts, PamFallsThrough, world
    <3>2. Situation(p, i) \in Situations /\ ~Situation(p, i).console
      BY SituationType DEF Situation, OnConsole
    <3>3. QED  BY <3>1, <3>2, NopasswdOnlyNeverFallsThrough
  <2>4. QED  BY <2>1, <2>2, <2>3
<1>2. QED
  BY <1>1, TypeCorrect, MarkInvariant, PTL DEF Spec, RemoteNeverCaches
=============================================================================
