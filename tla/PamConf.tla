------------------------------ MODULE PamConf ------------------------------
(***************************************************************************)
(* /etc/pam.d/sudo_local as the two programs that read it see it: OpenPAM, *)
(* which runs its lines, and the approval plugin, which classifies them.   *)
(*                                                                         *)
(* A file is the sequence of its lines, a line the sequence of its tokens, *)
(* as the plugin's tokenizer sw_pam_lines leaves them (no comments, no     *)
(* blank lines).  A file that cannot be read has no lines here: every      *)
(* classifier answers for it as for a missing file.                        *)
(***************************************************************************)
EXTENDS Naturals, Sequences

PAM_PATH    == "pam_sudowhat.so"   \* SUDOWHAT_PAM_PATH
GateArg     == "console-gate"      \* SUDOWHAT_GATE_ARG
ConsoleOnly == "console-only"      \* SUDOWHAT_CONSOLE_ONLY_ARG
Permit      == "pam_permit.so"

IntegrityLine   == <<"auth", "requisite", PAM_PATH>>
GateLine        == <<"auth", "sufficient", PAM_PATH, GateArg>>
ConsoleOnlyLine == <<"auth", "requisite", PAM_PATH, ConsoleOnly>>
PermitLine      == <<"auth", "sufficient", Permit>>

Absent == << >>   \* no sudo_local, or an unreadable one

-----------------------------------------------------------------------------
(* What the installers write, one text per value of nonConsole.            *)

PasswordText     == <<IntegrityLine, GateLine>>
NopasswdOnlyText == <<IntegrityLine, ConsoleOnlyLine, PermitLine>>
DenyText         == <<IntegrityLine, PermitLine>>

InstalledTexts == {PasswordText, NopasswdOnlyText, DenyText}

-----------------------------------------------------------------------------
(* The approval plugin's reading of the file.                              *)

LinesOf(text) == {text[i] : i \in DOMAIN text}

\* Presence-based: the order of the lines, and any other line, is ignored.
\* (f.count >= 4: further arguments after console-gate do not matter.)
IsGateVariant(text) ==
  /\ IntegrityLine \in LinesOf(text)
  /\ \E f \in LinesOf(text) : Len(f) >= 4 /\ SubSeq(f, 1, 4) = GateLine

\* A slip, for mutants only: the exact match made presence-based.
LooseNopasswdOnlyVariant(text) ==
  {IntegrityLine, ConsoleOnlyLine, PermitLine} \subseteq LinesOf(text)

\* The exact lines, in this order.
IsNopasswdOnlyVariant(text) == text = NopasswdOnlyText

NonConsoleChainOf(text) ==
  CASE IsGateVariant(text)         -> "password"
    [] /\ ~IsGateVariant(text)
       /\ IsNopasswdOnlyVariant(text) -> "nopasswd-only"
    [] OTHER                       -> "deny"

NonConsoleAllows(chain, markerPresent) ==
  \/ chain = "password"
  \/ chain = "nopasswd-only" /\ ~markerPresent

HasIntegrityLine(text) == IntegrityLine \in LinesOf(text)

\* What a text may look like for the plugin's reading of it to be right:
\* sudowhat's own lines come first, and a gate variant holds no other.
OwnLines(text) == LinesOf(text) \subseteq {IntegrityLine, GateLine, ConsoleOnlyLine}

WellFormed(text) ==
  /\ Len(text) > 0 /\ text[1] = IntegrityLine
  /\ IsGateVariant(text) => OwnLines(text)

\* Policy deference on the console path: skip the sheet?
DeferDecision(deferenceOn, markerPresent, integrityInstalled) ==
  deferenceOn /\ ~markerPresent /\ integrityInstalled

\* The step-aside's question: ask before running?
ConfirmDecision(confirmOn, haveTty, markerPresent, integrityInstalled) ==
  confirmOn /\ haveTty /\ (markerPresent \/ ~integrityInstalled)

-----------------------------------------------------------------------------
(* OpenPAM's reading: what each line of the auth chain returns, and where  *)
(* the chain stops, for a caller in situation c:                           *)
(*   c.console  what SessionGuard answers for the caller,                  *)
(*   c.intact   whether the integrity role finds sudo.conf and the bundles *)
(*              in order,                                                  *)
(*   c.other    whether a module that is not ours succeeds.                *)

Situations == [console : BOOLEAN, intact : BOOLEAN, other : BOOLEAN]

\* pam_sudowhat picks its role by argv[0]; an unknown argument is no role.
RoleOf(line) ==
  IF Len(line) >= 4 /\ line[4] \in {GateArg, ConsoleOnly}
  THEN line[4] ELSE "integrity"

LineSucceeds(line, c) ==
  CASE line[3] = Permit   -> TRUE
    [] line[3] = PAM_PATH -> IF RoleOf(line) = "integrity" THEN c.intact ELSE c.console
    [] OTHER              -> c.other

Refuses(line, c) ==
  line[1] = "auth" /\ line[2] = "requisite" /\ ~LineSucceeds(line, c)

Accepts(line, c) ==
  line[1] = "auth" /\ line[2] = "sufficient" /\ LineSucceeds(line, c)

Stops(line, c) == Refuses(line, c) \/ Accepts(line, c)

\* The chain gets as far as line i.
Reaches(text, i, c) == \A j \in 1..(i - 1) : ~Stops(text[j], c)

ChainRefuses(text, c) ==
  \E i \in DOMAIN text : Reaches(text, i, c) /\ Refuses(text[i], c)

\* PAM succeeds on sudo_local alone: nobody was asked for a factor.
ChainAcceptsWithoutFactor(text, c) ==
  \E i \in DOMAIN text : Reaches(text, i, c) /\ Accepts(text[i], c)

\* sudo_local decides nothing: the rest of /etc/pam.d/sudo (smart card, then
\* password, on the caller's own terminal) does.
ChainFallsThrough(text, c) == \A i \in DOMAIN text : ~Stops(text[i], c)

\* A slip, for mutants only: the marker set on success, not on entry.
MarkerOnSuccess(text, c) ==
  \E i \in DOMAIN text :
    /\ Reaches(text, i, c) /\ text[i][1] = "auth" /\ text[i][3] = PAM_PATH
    /\ LineSucceeds(text[i], c)

\* pam_sudowhat's auth entry runs, in any role: the marker is set.
ChainSetsMarker(text, c) ==
  \E i \in DOMAIN text :
    Reaches(text, i, c) /\ text[i][1] = "auth" /\ text[i][3] = PAM_PATH
=============================================================================
