------------------------------- MODULE Deploy -------------------------------
(***************************************************************************)
(* nix/bin/deploy: it reads the release to deploy from git and the pin     *)
(* from the flake, shows two commands, asks, rewrites the pin and rebuilds *)
(* the system.  Between any two of these somebody may edit the flake, tag  *)
(* a release or move HEAD, and a command may fail or be interrupted.       *)
(*                                                                         *)
(* Release k has tag Tag[k] and revision k; 0 is no release, no revision.  *)
(* A ref is a sequence, because one may begin with another (v1.2, v1.20).  *)
(***************************************************************************)
EXTENDS Naturals, Sequences

CONSTANTS
  Tag,       \* the release tags, as refs, oldest first
  Pins,      \* the [ref, rev] a line of the flake may hold
  RefLength, \* bound: no ref of the flake grows beyond this
  Layouts    \* the flakes: sequences of [ours, live], one per line with an input

Releases == 1..Len(Tag)

ASSUME TagAssumption  == \A k \in Releases : Tag[k] \in Seq(STRING) /\ Tag[k] # << >>
ASSUME PinsAssumption == Pins \subseteq [ref : Seq(STRING), rev : Releases \cup {0}]
\* Whatever else names this repository, nix reads one line (and some line is
\* the first, which needs saying only to the provers).
ASSUME LayoutsAssumption ==
  \A l \in Layouts :
    /\ l \in Seq([ours : BOOLEAN, live : BOOLEAN])
    /\ \E i \in 1..Len(l) : l[i].ours /\ l[i].live
    /\ \E i \in 1..Len(l) : l[i].ours /\ \A j \in 1..Len(l) : l[j].ours => i <= j
    /\ \A i, j \in 1..Len(l) : l[i].ours /\ l[i].live /\ l[j].ours /\ l[j].live => i = j

VARIABLES
  layout,   \* which lines of the flake are what
  flake,    \* the pin on each of them
  system,   \* the revision the running system was built from
  release,  \* the highest release reachable from HEAD, or 0
  run,      \* one deploy
  owed      \* history: the flake was changed and not rebuilt since

vars == <<layout, flake, system, release, run, owed>>

Lines    == 1..Len(layout)
Ours(i)  == layout[i].ours
LiveLine == CHOOSE i \in Lines : Ours(i) /\ layout[i].live

NoRun == [pc |-> "idle", said |-> "nothing", target |-> 0, line |-> 0,
          pin |-> [ref |-> << >>, rev |-> 0], before |-> << >>, edited |-> FALSE]

Init ==
  /\ layout \in Layouts
  /\ flake \in [Lines -> Pins]
  /\ system = flake[LiveLine].rev
  /\ release \in Releases \cup {0}
  /\ run = NoRun /\ owed = FALSE

-----------------------------------------------------------------------------
BeginsWith(s, t) == Len(t) <= Len(s) /\ SubSeq(s, 1, Len(t)) = t

\* Every line that names the repository, commented out or not ...
PinLines == {i \in Lines : Ours(i)}

\* ... and of these the first.
PinLine == CHOOSE i \in PinLines : \A j \in PinLines : i <= j

\* A slip, for mutants only: the ref is swapped, the rev is not.
SubstRefOnly(p, old, k) ==
  IF BeginsWith(p.ref, old.ref)
  THEN [p EXCEPT !.ref = Tag[k] \o SubSeq(p.ref, Len(old.ref) + 1, Len(p.ref))] ELSE p

\* The two substitutions, on any line: what follows the ref that was read stays.
Subst(p, old, k) ==
  [ref |-> IF old.ref # << >> /\ BeginsWith(p.ref, old.ref)
           THEN Tag[k] \o SubSeq(p.ref, Len(old.ref) + 1, Len(p.ref)) ELSE p.ref,
   rev |-> IF p.rev = old.rev THEN k ELSE p.rev]

\* A run that changed nothing, or did not finish, has nothing to answer for.
Quits(said) == run' = [NoRun EXCEPT !.said = said]

\* A slip, for mutants only: no older than the release will do.
InSyncOrAhead(pin) == pin.rev >= release

InSync(pin) == pin.rev = release

\* deploy, up to the first thing that stops it; a dirty tree is in no release.
Start(clean, yes, dry, tty) ==
  LET pin  == flake[PinLine]
      Goes(pc, said) == run' = [pc |-> pc, said |-> said, target |-> release, line |-> PinLine,
                                pin |-> pin, before |-> flake, edited |-> FALSE] IN
  /\ run.pc = "idle"
  /\ IF ~clean \/ release = 0 \/ pin.rev = 0 THEN Quits("refused")
     ELSE IF InSync(pin)               THEN Goes("idle", "in sync")
     ELSE IF ~dry /\ ~yes /\ ~tty      THEN Quits("refused")
     ELSE IF dry                       THEN Quits("dry run")
     ELSE Goes(IF yes THEN "pin" ELSE "ask", "nothing")
  /\ UNCHANGED <<layout, flake, system, release, owed>>

\* Anything but an answer asks again; the end of the input declines.
Answer(a) ==
  /\ run.pc = "ask"
  /\ CASE a = "y" -> run' = [run EXCEPT !.pc = "pin"]
       [] a = "n" -> Quits("aborted")
       [] OTHER   -> UNCHANGED run
  /\ UNCHANGED <<layout, flake, system, release, owed>>

\* perl succeeds whether it found what it was to replace or not.
Pin ==
  /\ run.pc = "pin"
  /\ flake' = [i \in Lines |-> Subst(flake[i], run.pin, run.target)]
  /\ \A i \in Lines : Len(flake'[i].ref) <= RefLength
  /\ run' = [run EXCEPT !.pc = "rebuild", !.said = "pin updated"]
  /\ owed' = (owed \/ flake' # flake)
  /\ UNCHANGED <<layout, system, release>>

Rebuild ==
  /\ run.pc = "rebuild"
  /\ system' = flake[LiveLine].rev
  /\ run' = [run EXCEPT !.pc = "idle", !.said = "complete"]
  /\ owed' = FALSE
  /\ UNCHANGED <<layout, flake, release>>

\* set -e, a refused password, an interrupt: what was done stays done.
Stops ==
  /\ run.pc \in {"ask", "pin", "rebuild"}
  /\ Quits("failed")
  /\ UNCHANGED <<layout, flake, system, release, owed>>

-----------------------------------------------------------------------------
(* Everybody else.                                                         *)

EditFlake(i, p) ==
  /\ flake[i] # p
  /\ flake' = [flake EXCEPT ![i] = p]
  /\ run' = IF run.pc = "idle" THEN NoRun
            ELSE [run EXCEPT !.edited = TRUE, !.before = << >>]
  /\ owed' = (owed \/ i = LiveLine)
  /\ UNCHANGED <<layout, system, release>>

\* A tag, a checkout.
MoveHead(k) ==
  /\ k # release
  /\ release' = k
  /\ UNCHANGED <<layout, flake, system, run, owed>>

Next ==
  \/ \E clean, yes, dry, tty \in BOOLEAN : Start(clean, yes, dry, tty)
  \/ \E a \in {"y", "n", "?"} : Answer(a)
  \/ Pin \/ Rebuild \/ Stops
  \/ \E i \in Lines, p \in Pins : EditFlake(i, p)
  \/ \E k \in Releases \cup {0} : MoveHead(k)

Spec == Init /\ [][Next]_vars

-----------------------------------------------------------------------------
(* What the properties rest on.                                            *)

Pinned == [ref : Seq(STRING), rev : Releases \cup {0}]

DeployTypeOK ==
  /\ layout \in Layouts
  /\ flake \in [Lines -> Pinned]
  /\ release \in Releases \cup {0}
  /\ run \in [pc : {"idle", "ask", "pin", "rebuild"},
              said : {"nothing", "refused", "in sync", "dry run", "aborted", "failed",
                      "pin updated", "complete"},
              target : Releases \cup {0}, line : Lines \cup {0}, pin : Pinned,
              before : [Lines -> Pinned] \cup {<< >>}, edited : BOOLEAN]

\* The system runs what nix reads, unless something is owed.
NothingOwed == ~owed => system = flake[LiveLine].rev

\* What was read is what is there, and later what was there.
RunInOrder ==
  /\ run.pc \in {"ask", "pin"} \/ run.said = "in sync" =>
       run.line \in Lines /\ run.target \in Releases
  /\ run.pc \in {"ask", "pin"} => run.said = "nothing"
  /\ run.pc = "rebuild" => run.said = "pin updated"
  /\ run.pc \in {"ask", "pin"} /\ ~run.edited =>
       run.before = flake /\ run.pin = flake[run.line]
  /\ run.said = "in sync" => flake[run.line].rev = run.target
  /\ run.said \in {"pin updated", "complete"} =>
       run.line \in Lines /\ run.target \in Releases
  /\ run.said \in {"pin updated", "complete"} /\ ~run.edited =>
       /\ run.before \in [Lines -> Pinned] /\ run.pin = run.before[run.line]
       /\ flake = [i \in Lines |-> Subst(run.before[i], run.pin, run.target)]
  /\ run.said = "complete" /\ ~run.edited => system = flake[LiveLine].rev

DeployInv == DeployTypeOK /\ NothingOwed /\ RunInOrder

-----------------------------------------------------------------------------
(* Properties.                                                             *)

\* `rebuild complete' is true: unless somebody edited the flake meanwhile, the
\* line that was read has the ref and the revision of the release that was
\* shown, the system runs that revision if nix reads that line, and of the
\* other lines only those changed whose ref begins with the old one or whose
\* revision was the old one.
CompleteMeansDeployed ==
  run.said = "complete" /\ ~run.edited =>
    /\ flake[run.line].rev = run.target
    /\ run.pin.ref # << >> => flake[run.line].ref = Tag[run.target]
    /\ run.line = LiveLine => system = run.target
    /\ \A i \in Lines : flake[i] # run.before[i] =>
         BeginsWith(run.before[i].ref, run.pin.ref) \/ run.before[i].rev = run.pin.rev

\* `already in sync' is true of the system, not only of the flake: unless the
\* line that was read is not the one nix reads, or the last change of the
\* flake was not followed by a rebuild that succeeded.
InSyncMeansRunning ==
  run.said = "in sync" /\ ~run.edited /\ ~owed /\ run.line = LiveLine =>
    system = run.target
=============================================================================
