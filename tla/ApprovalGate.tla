---------------------------- MODULE ApprovalGate ----------------------------
(***************************************************************************)
(* What the approval plugin promises sudo, one command at a time, with no  *)
(* word on how: on which ground a command may run, and that a ground which *)
(* is a human's answer covers the very file that is at the command's path  *)
(* when the plugin says yes.                                               *)
(***************************************************************************)
CONSTANTS
  Files,     \* what the command's path can name
  NoFile     \* the path names nothing

VARIABLES
  phase,     \* idle, deciding, classified, asked, done
  class,     \* a caller that is not root, once classified: console, other
  verdict,   \* none, allow, refuse
  ground,    \* why the command runs
  subject,   \* the file the human was asked about
  target,    \* the file at the path                    (environment)
  onConsole, \* does the caller hold the console        (environment)
  isRoot,    \* is the caller uid 0                     (per command)
  authRan    \* did sudo run its auth stack for it      (per command)

vars == <<phase, class, verdict, ground, subject, target, onConsole, isRoot, authRan>>

Init ==
  /\ phase = "idle" /\ class = "none" /\ verdict = "none" /\ ground = "none"
  /\ subject = NoFile /\ target \in Files
  /\ onConsole \in BOOLEAN /\ isRoot = FALSE /\ authRan = FALSE

Begin ==
  /\ phase = "idle" /\ phase' = "deciding"
  /\ isRoot' \in BOOLEAN /\ authRan' \in BOOLEAN
  /\ UNCHANGED <<class, verdict, ground, subject, target, onConsole>>

Classify ==
  /\ phase = "deciding" /\ ~isRoot /\ phase' = "classified"
  /\ class' = IF onConsole THEN "console" ELSE "other"
  /\ UNCHANGED <<verdict, ground, subject, target, onConsole, isRoot, authRan>>

Conclude(v, g) ==
  /\ phase' = "done" /\ verdict' = v /\ ground' = g
  /\ UNCHANGED <<class, subject, target, onConsole, isRoot, authRan>>

RunForRoot == phase = "deciding" /\ isRoot /\ Conclude("allow", "root")

\* sudoers waived authentication: only when the auth stack did not run.
RunWaived ==
  /\ phase = "classified" /\ ~authRan
  /\ Conclude("allow", "waived")

\* sudo did the authenticating, on the caller's own terminal: never on the console.
RunAuthenticated ==
  phase = "classified" /\ class = "other" /\ Conclude("allow", "authenticated")

Ask ==
  /\ phase = "classified"
  /\ target # NoFile
  /\ phase' = "asked" /\ subject' = target
  /\ UNCHANGED <<class, verdict, ground, target, onConsole, isRoot, authRan>>

RunAnswered == phase = "asked" /\ target = subject /\ Conclude("allow", "human")

Refuse == phase \in {"deciding", "classified", "asked"} /\ Conclude("refuse", "none")

\* open() itself may refuse, before there is anything to decide.
RefuseUnopened ==
  /\ phase = "idle" /\ phase' = "done" /\ verdict' = "refuse"
  /\ UNCHANGED <<class, ground, subject, target, onConsole, isRoot, authRan>>

Finish ==
  /\ phase = "done" /\ phase' = "idle"
  /\ class' = "none" /\ verdict' = "none" /\ ground' = "none" /\ subject' = NoFile
  /\ isRoot' = FALSE /\ authRan' = FALSE
  /\ UNCHANGED <<target, onConsole>>

Environment ==
  /\ target' \in Files \cup {NoFile} /\ onConsole' \in BOOLEAN
  /\ UNCHANGED <<phase, class, verdict, ground, subject, isRoot, authRan>>

Next == \/ Begin \/ Classify \/ RunForRoot \/ RunWaived \/ RunAuthenticated
        \/ Ask \/ RunAnswered \/ Refuse \/ RefuseUnopened \/ Finish \/ Environment

Spec == Init /\ [][Next]_vars
=============================================================================
