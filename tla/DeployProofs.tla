---------------------------- MODULE DeployProofs ----------------------------
(* For every list of releases and every flake: what `rebuild complete' and *)
(* `already in sync' say is so.                                            *)
EXTENDS Deploy, TLAPS

LEMMA LineRead == layout \in Layouts => PinLine \in Lines
BY LayoutsAssumption DEF PinLine, PinLines, Lines, Ours

LEMMA LineLive == layout \in Layouts => LiveLine \in Lines
BY LayoutsAssumption DEF LiveLine, Lines, Ours

\* The two substitutions put the release on the line that was read, ...
LEMMA SubstOnItself ==
  ASSUME NEW p \in Pinned, NEW k \in Releases
  PROVE  /\ Subst(p, p, k).rev = k
         /\ p.ref # << >> => Subst(p, p, k).ref = Tag[k]
<1>1. p.ref \in Seq(STRING) /\ Tag[k] \in Seq(STRING)
  BY TagAssumption DEF Pinned
<1>2. SubSeq(p.ref, 1, Len(p.ref)) = p.ref
  BY <1>1
<1>3. Tag[k] \o SubSeq(p.ref, Len(p.ref) + 1, Len(p.ref)) = Tag[k]
  <2>1. SubSeq(p.ref, Len(p.ref) + 1, Len(p.ref)) = << >>
    BY <1>1
  <2>2. Tag[k] \o << >> = Tag[k]
    BY <1>1
  <2> QED BY <2>1, <2>2
<1>4. BeginsWith(p.ref, p.ref)
  BY <1>1, <1>2 DEF BeginsWith
<1> QED BY <1>3, <1>4 DEF Subst

\* ... leave a line alone that has neither the old ref nor the old revision, ...
LEMMA SubstElsewhere ==
  ASSUME NEW p \in Pinned, NEW old, NEW k, Subst(p, old, k) # p
  PROVE  BeginsWith(p.ref, old.ref) \/ p.rev = old.rev
<1> SUFFICES ASSUME ~BeginsWith(p.ref, old.ref), p.rev # old.rev PROVE FALSE
  OBVIOUS
<1>1. Subst(p, old, k) = [ref |-> p.ref, rev |-> p.rev]
  BY DEF Subst
<1> QED BY <1>1 DEF Pinned

\* ... and never leave anything but a pin.
LEMMA SubstIsPin ==
  ASSUME NEW p \in Pinned, NEW old \in Pinned, NEW k \in Releases
  PROVE  Subst(p, old, k) \in Pinned
<1>1. p.ref \in Seq(STRING) /\ old.ref \in Seq(STRING) /\ Tag[k] \in Seq(STRING)
  BY TagAssumption DEF Pinned
<1>2. ASSUME BeginsWith(p.ref, old.ref)
      PROVE  Tag[k] \o SubSeq(p.ref, Len(old.ref) + 1, Len(p.ref)) \in Seq(STRING)
  <2>1. SubSeq(p.ref, Len(old.ref) + 1, Len(p.ref)) \in Seq(STRING)
    BY <1>1
  <2> QED BY <1>1, <2>1
<1> QED BY <1>1, <1>2 DEF Subst, Pinned

LEMMA NoPin == << >> \in Seq(STRING) /\ 0 \in Releases \cup {0}
OBVIOUS

LEMMA DeployInit == Init => DeployInv
<1> SUFFICES ASSUME Init PROVE DeployInv
  OBVIOUS
<1>1. flake \in [Lines -> Pinned]
  BY PinsAssumption DEF Init, Pinned
<1> QED BY <1>1, NoPin DEF Init, NoRun, DeployInv, DeployTypeOK, NothingOwed, RunInOrder, Pinned

LEMMA QuitsKeeps ==
  ASSUME DeployInv, NEW said \in {"refused", "dry run", "aborted", "failed"}, Quits(said),
         UNCHANGED <<layout, flake, system, release, owed>>
  PROVE  DeployInv'
BY NoPin DEF Quits, NoRun, DeployInv, DeployTypeOK, NothingOwed, RunInOrder, Pinned, Lines,
   Releases, LiveLine, Ours

LEMMA StartKeeps ==
  ASSUME DeployInv, NEW clean \in BOOLEAN, NEW yes \in BOOLEAN, NEW dry \in BOOLEAN,
         NEW tty \in BOOLEAN, Start(clean, yes, dry, tty)
  PROVE  DeployInv'
<1>1. UNCHANGED <<layout, flake, system, release, owed>>
  BY DEF Start
<1>2. \/ Quits("refused") \/ Quits("dry run")
      \/ /\ release # 0 /\ run.pc = "idle"
         /\ \E pc \in {"idle", "ask", "pin"}, said \in {"in sync", "nothing"} :
              /\ pc = "idle" <=> said = "in sync"
              /\ said = "in sync" => flake[PinLine].rev = release
              /\ run' = [pc |-> pc, said |-> said, target |-> release, line |-> PinLine,
                         pin |-> flake[PinLine], before |-> flake, edited |-> FALSE]
  BY DEF Start, InSync
<1>3. CASE Quits("refused") \/ Quits("dry run")
  BY <1>1, <1>3, QuitsKeeps
<1>4. CASE ~(Quits("refused") \/ Quits("dry run"))
  <2>1. PICK pc \in {"idle", "ask", "pin"}, said \in {"in sync", "nothing"} :
          /\ pc = "idle" <=> said = "in sync"
          /\ said = "in sync" => flake[PinLine].rev = release
          /\ run' = [pc |-> pc, said |-> said, target |-> release, line |-> PinLine,
                     pin |-> flake[PinLine], before |-> flake, edited |-> FALSE]
    BY <1>2, <1>4
  <2>2. PinLine \in Lines /\ flake[PinLine] \in Pinned /\ release \in Releases
    BY <1>2, <1>4, LineRead DEF DeployInv, DeployTypeOK
  <2>3. DeployTypeOK'
    BY <1>1, <2>1, <2>2 DEF DeployInv, DeployTypeOK, Lines
  <2>4. NothingOwed'
    BY <1>1 DEF DeployInv, NothingOwed, LiveLine, Lines, Ours
  <2>5. RunInOrder'
    BY <1>1, <2>1, <2>2 DEF RunInOrder, Lines
  <2> QED BY <2>3, <2>4, <2>5 DEF DeployInv
<1> QED BY <1>3, <1>4

LEMMA AnswerKeeps ==
  ASSUME DeployInv, NEW a \in {"y", "n", "?"}, Answer(a)
  PROVE  DeployInv'
<1>1. UNCHANGED <<layout, flake, system, release, owed>> /\ run.pc = "ask"
  BY DEF Answer
<1>2. CASE a = "n"
  BY <1>1, <1>2, QuitsKeeps DEF Answer
<1>3. CASE a # "n"
  <2>1. run' \in {run, [run EXCEPT !.pc = "pin"]}
    BY <1>3 DEF Answer
  <2> QED BY <1>1, <2>1 DEF DeployInv, DeployTypeOK, NothingOwed, RunInOrder, LiveLine, Lines, Ours
<1> QED BY <1>2, <1>3

\* The pin is rewritten on every line.
LEMMA PinKeeps ==
  ASSUME DeployInv, Pin
  PROVE  DeployInv'
<1>1. /\ run.pc = "pin" /\ layout' = layout /\ system' = system /\ release' = release
      /\ flake' = [i \in Lines |-> Subst(flake[i], run.pin, run.target)]
      /\ run' = [run EXCEPT !.pc = "rebuild", !.said = "pin updated"]
      /\ owed' = (owed \/ flake' # flake)
  BY DEF Pin
<1>2. run.line \in Lines /\ run.target \in Releases /\ run.pin \in Pinned
  BY <1>1 DEF DeployInv, DeployTypeOK, RunInOrder
<1>3. flake' \in [Lines -> Pinned]
  BY <1>1, <1>2, SubstIsPin DEF DeployInv, DeployTypeOK
<1>4. DeployTypeOK'
  BY <1>1, <1>3 DEF DeployInv, DeployTypeOK, Lines
<1>5. NothingOwed'
  BY <1>1 DEF DeployInv, NothingOwed, LiveLine, Lines, Ours
<1>6. RunInOrder'
  BY <1>1, <1>2 DEF DeployInv, DeployTypeOK, RunInOrder, Lines
<1> QED BY <1>4, <1>5, <1>6 DEF DeployInv

LEMMA RebuildKeeps ==
  ASSUME DeployInv, Rebuild
  PROVE  DeployInv'
BY DEF Rebuild, DeployInv, DeployTypeOK, NothingOwed, RunInOrder, LiveLine, Lines, Ours

LEMMA EditKeeps ==
  ASSUME DeployInv, NEW i \in Lines, NEW p \in Pins, EditFlake(i, p)
  PROVE  DeployInv'
<1>1. /\ layout' = layout /\ system' = system /\ release' = release
      /\ flake' = [flake EXCEPT ![i] = p] /\ owed' = (owed \/ i = LiveLine)
      /\ run' = IF run.pc = "idle" THEN NoRun
                ELSE [run EXCEPT !.edited = TRUE, !.before = << >>]
  BY DEF EditFlake
<1>2. DeployTypeOK'
  <2>1. flake' \in [Lines -> Pinned]
    BY <1>1, PinsAssumption DEF DeployInv, DeployTypeOK, Pinned
  <2> QED BY <1>1, <2>1, NoPin DEF DeployInv, DeployTypeOK, NoRun, Pinned, Lines
<1>3. NothingOwed'
  <2>1. LiveLine' = LiveLine /\ LiveLine \in Lines
    BY <1>1, LineLive DEF LiveLine, Lines, Ours, DeployInv, DeployTypeOK
  <2> QED BY <1>1, <2>1 DEF DeployInv, DeployTypeOK, NothingOwed
<1>4. RunInOrder'
  BY <1>1 DEF DeployInv, DeployTypeOK, RunInOrder, NoRun, Lines
<1> QED BY <1>2, <1>3, <1>4 DEF DeployInv

LEMMA HeadKeeps ==
  ASSUME DeployInv, NEW k \in Releases \cup {0}, MoveHead(k)
  PROVE  DeployInv'
BY DEF MoveHead, DeployInv, DeployTypeOK, NothingOwed, RunInOrder, LiveLine, Lines, Ours

\* DeployInv holds of every behaviour.
THEOREM DeployInvariant == Spec => []DeployInv
<1>1. DeployInv /\ [Next]_vars => DeployInv'
  <2> SUFFICES ASSUME DeployInv, [Next]_vars PROVE DeployInv'
    OBVIOUS
  <2>1. CASE Stops
    BY <2>1, QuitsKeeps DEF Stops
  <2>2. CASE UNCHANGED vars
    BY <2>2 DEF vars, DeployInv, DeployTypeOK, NothingOwed, RunInOrder, LiveLine, Lines, Ours
  <2> QED BY <2>1, <2>2, StartKeeps, AnswerKeeps, PinKeeps, RebuildKeeps, EditKeeps, HeadKeeps DEF Next
<1> QED BY <1>1, DeployInit, PTL DEF Spec

\* `rebuild complete' means that the release that was shown is pinned and running.
THEOREM CompleteIsDeployed == Spec => []CompleteMeansDeployed
<1>1. DeployInv => CompleteMeansDeployed
  <2> SUFFICES ASSUME DeployInv, run.said = "complete", ~run.edited
               PROVE  /\ flake[run.line].rev = run.target
                      /\ run.pin.ref # << >> => flake[run.line].ref = Tag[run.target]
                      /\ run.line = LiveLine => system = run.target
                      /\ \A i \in Lines : flake[i] # run.before[i] =>
                           BeginsWith(run.before[i].ref, run.pin.ref)
                             \/ run.before[i].rev = run.pin.rev
    BY DEF CompleteMeansDeployed
  <2>1. /\ run.line \in Lines /\ run.target \in Releases
        /\ run.before \in [Lines -> Pinned] /\ run.pin = run.before[run.line]
        /\ flake = [i \in Lines |-> Subst(run.before[i], run.pin, run.target)]
        /\ system = flake[LiveLine].rev
    BY DEF DeployInv, RunInOrder
  <2>2. flake[run.line] = Subst(run.pin, run.pin, run.target) /\ run.pin \in Pinned
    BY <2>1
  <2> QED BY <2>1, <2>2, SubstOnItself, SubstElsewhere
<1> QED BY <1>1, DeployInvariant, PTL

\* `already in sync' is true of the system when nothing is owed to it.
THEOREM InSyncIsRunning == Spec => []InSyncMeansRunning
<1>1. DeployInv => InSyncMeansRunning
  BY DEF DeployInv, NothingOwed, RunInOrder, InSyncMeansRunning
<1> QED BY <1>1, DeployInvariant, PTL
=============================================================================
