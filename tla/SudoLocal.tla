----------------------------- MODULE SudoLocal -----------------------------
(***************************************************************************)
(* sudo_local as a file that is written one line at a time, by the nix     *)
(* module, the Makefile or an administrator, and met by sudo in any of     *)
(* the states in between, for a caller whose situation may change.         *)
(*                                                                         *)
(* The properties relate the two readers of the file: what the approval    *)
(* plugin concludes from its shape has to follow from what OpenPAM does    *)
(* with it, for the shapes the plugin steps aside for.                     *)
(***************************************************************************)
EXTENDS PamConf

CONSTANTS
  Lines,      \* the lines a writer may add
  MaxLines    \* bound: the longest file looked at

ASSUME LinesAssumption ==
  \A l \in Lines : l \in Seq(STRING) /\ Len(l) >= 3

ASSUME MaxLinesAssumption == MaxLines \in Nat

VARIABLES
  text,   \* the file
  caller  \* the caller's situation

vars == <<text, caller>>

Init == text = Absent /\ caller \in Situations

AddLine(l) == /\ Len(text) < MaxLines
              /\ text' = Append(text, l)
              /\ UNCHANGED caller

Truncate == text' = Absent /\ UNCHANGED caller

\* Fast user switching, a bundle replaced, another module's answer.
SituationChanges == caller' \in Situations /\ UNCHANGED text

Next == \/ \E l \in Lines : AddLine(l)
        \/ Truncate
        \/ SituationChanges

Spec == Init /\ [][Next]_vars

-----------------------------------------------------------------------------
TypeOK == text \in Seq(Lines) /\ caller \in Situations

\* What the plugin concludes from the file, and the marker PAM would leave.
Chain  == NonConsoleChainOf(text)
Marker == ChainSetsMarker(text, caller)

\* A file that sudowhat reads as nopasswd-only never lets a non-console caller
\* through PAM, neither by pam_permit nor on to a password: the premise on
\* which the plugin takes an absent marker for a waiver.
NopasswdOnlyRefuses ==
  Chain = "nopasswd-only" /\ ~caller.console => ChainRefuses(text, caller)

\* Whatever the file holds (as long as a console-gate file holds no pam_permit
\* or foreign line), a non-console caller whom PAM let through without a factor
\* is refused by the plugin, on the marker this very chain leaves behind.
StepAsideImpliesFactor ==
  /\ Chain = "password" => OwnLines(text)
  /\ ~caller.console
  /\ ChainAcceptsWithoutFactor(text, caller)
  => ~NonConsoleAllows(Chain, Marker)

\* With the integrity line ahead of every line that could end the chain,
\* running the auth stack sets the marker: an absent marker then means that
\* sudo never ran it, which is what deference and the confirm gate read it as.
IntegrityAhead(t) ==
  \E i \in DOMAIN t : /\ t[i] = IntegrityLine
                      /\ \A j \in 1..(i - 1) : t[j][3] = PAM_PATH

MarkerWitnessesAuth == IntegrityAhead(text) => Marker
=============================================================================
