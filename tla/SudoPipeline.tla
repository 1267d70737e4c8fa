---------------------------- MODULE SudoPipeline ----------------------------
(***************************************************************************)
(* Several sudo processes on one Mac, from their policy step to the        *)
(* verdict: sudoers and its credential cache, the PAM chain with the three *)
(* roles of pam_sudowhat, and the approval plugin's decision, interleaved  *)
(* with fast user switching, a rebuild that swaps sudo_local, and cached   *)
(* credentials running out.                                                *)
(*                                                                         *)
(* ApprovalCheck has the inside of check(); here it is what matters to     *)
(* sessions: the look at the session, the read of sudo_local, the sheet.   *)
(***************************************************************************)
EXTENDS PamConf, FiniteSets

CONSTANTS
  Procs,            \* sudo processes
  Sessions,         \* login sessions, each with its terminal
  Users, Root, NoUser,
  Uid,              \* the user of a session
  Graphical,        \* sessions with graphic access that are not remote
  Texts,            \* the texts sudo_local can hold
  CacheOn,          \* timestamp_timeout is not 0
  PolicyDeference   \* build knob SW_POLICY_DEFERENCE

ASSUME SessionsAssumption ==
  /\ Root \in Users /\ NoUser \notin Users
  /\ Uid \in [Sessions -> Users] /\ Graphical \subseteq Sessions

\* sudo_local starts with our integrity line, and a gate variant is all ours.
ASSUME TextsAssumption ==
  \A t \in Texts : t \in Seq(Seq(STRING)) /\ WellFormed(t)

ASSUME KnobsAssumption == CacheOn \in BOOLEAN /\ PolicyDeference \in BOOLEAN

VARIABLES
  consoleUser,  \* who owns the screen, or NoUser
  text,         \* /etc/pam.d/sudo_local
  cred,         \* the sessions with a live credential (a record per terminal)
  proved,       \* ghost: sessions on whose terminal a factor was presented
  disturbed,    \* ghost: processes under which console or sudo_local changed
  run           \* the processes

world == <<consoleUser, text, cred, proved, disturbed>>
vars  == <<world, run>>

Run == [ pc      : {"idle", "policy", "pam", "password", "check", "nonConsole",
                    "console", "asked", "done"},
         sess    : Sessions,
         waived  : BOOLEAN,   \* sudoers waives authentication (NOPASSWD, !authenticate)
         cached  : BOOLEAN,   \* the policy step found a live credential
         marker  : BOOLEAN,   \* SUDOWHAT_AUTH_RAN in the process environment
         factor  : {"none", "password", "sheet"},
         allowed : BOOLEAN,
         by      : {"none", "root", "stepAside", "deferred", "sheet"} ]

User(p) == Uid[run[p].sess]

\* A slip, for mutants only: the session not looked at, only its user.
GuardByUid(s) == consoleUser \notin {NoUser, Root} /\ consoleUser = Uid[s]

\* SessionGuard: a local GUI session, whose user owns the console now.
OnConsole(s) ==
  /\ s \in Graphical
  /\ consoleUser \notin {NoUser, Root} /\ consoleUser = Uid[s]

Idle(s) == [pc |-> "idle", sess |-> s, waived |-> FALSE, cached |-> FALSE,
            marker |-> FALSE, factor |-> "none", allowed |-> FALSE, by |-> "none"]

Init ==
  /\ consoleUser \in Users \cup {NoUser} /\ text \in Texts
  /\ cred = {} /\ proved = {} /\ disturbed = {}
  /\ \E s \in Sessions : run = [p \in Procs |-> Idle(s)]

Step(p, from, r) == run[p].pc = from /\ run' = [run EXCEPT ![p] = r]

-----------------------------------------------------------------------------
(* sudo, sudoers and PAM.                                                  *)

Start(p, s, waived) ==
  /\ Step(p, "idle", [Idle(s) EXCEPT !.pc = "policy", !.waived = waived])
  /\ disturbed' = disturbed \ {p}
  /\ UNCHANGED <<consoleUser, text, cred, proved>>

\* sudo asks for authentication unless the caller is root, sudoers waives it,
\* or the terminal has a live credential; only then PAM runs at all.
NoAuthNeeded(p) == User(p) = Root \/ run[p].waived

Policy(p) ==
  /\ Step(p, "policy",
       [run[p] EXCEPT
          !.pc = IF NoAuthNeeded(p) \/ run[p].sess \in cred THEN "check" ELSE "pam",
          !.cached = ~NoAuthNeeded(p) /\ run[p].sess \in cred])
  /\ UNCHANGED world

\* sudoers writes the terminal's record when PAM succeeds, before the approval
\* plugin is asked anything.
Remember(s) == cred' = IF CacheOn THEN cred \cup {s} ELSE cred

Situation(p, intact) ==
  [console |-> OnConsole(run[p].sess), intact |-> intact, other |-> FALSE]

\* The lines of sudo_local, with pam_sudowhat's reading of session and bundles.
PamRefuses(p, c) ==
  /\ ChainRefuses(text, c)
  /\ Step(p, "pam", [run[p] EXCEPT !.pc = "done", !.marker = ChainSetsMarker(text, c)])
  /\ UNCHANGED world

\* A slip, for mutants only: a marker the accepting role does not set.
PamAcceptsUnmarked(p, c) ==
  /\ ChainAcceptsWithoutFactor(text, c)
  /\ Step(p, "pam", [run[p] EXCEPT !.pc = "check"])
  /\ Remember(run[p].sess)
  /\ UNCHANGED <<consoleUser, text, proved, disturbed>>

PamAccepts(p, c) ==
  /\ ChainAcceptsWithoutFactor(text, c)
  /\ Step(p, "pam", [run[p] EXCEPT !.pc = "check", !.marker = ChainSetsMarker(text, c)])
  /\ Remember(run[p].sess)
  /\ UNCHANGED <<consoleUser, text, proved, disturbed>>

PamFallsThrough(p, c) ==
  /\ ChainFallsThrough(text, c)
  /\ Step(p, "pam", [run[p] EXCEPT !.pc = "password",
                                   !.marker = ChainSetsMarker(text, c)])
  /\ UNCHANGED world

Pam(p) == \E intact \in BOOLEAN :
  LET c == Situation(p, intact) IN
  PamRefuses(p, c) \/ PamAccepts(p, c) \/ PamFallsThrough(p, c)

\* The rest of /etc/pam.d/sudo, on the caller's own terminal.
PasswordRight(p) ==
  /\ Step(p, "password", [run[p] EXCEPT !.pc = "check", !.factor = "password"])
  /\ Remember(run[p].sess) /\ proved' = proved \cup {run[p].sess}
  /\ UNCHANGED <<consoleUser, text, disturbed>>

PasswordWrong(p) ==
  Step(p, "password", [run[p] EXCEPT !.pc = "done"]) /\ UNCHANGED world

-----------------------------------------------------------------------------
(* The approval plugin.                                                    *)

Verdict(r, allowed, by) == [r EXCEPT !.pc = "done", !.allowed = allowed, !.by = by]

\* Root passes; anyone else is looked at once, by session.
Classify(p) ==
  /\ \/ /\ User(p) = Root
        /\ Step(p, "check", Verdict(run[p], TRUE, "root"))
     \/ /\ User(p) # Root
        /\ Step(p, "check", [run[p] EXCEPT
             !.pc = IF OnConsole(run[p].sess) THEN "console" ELSE "nonConsole"])
  /\ UNCHANGED world

\* A slip, for mutants only: PASSWORD and NOPASSWD_ONLY treated alike.
StepAsideAlways(p) ==
  /\ Step(p, "nonConsole",
       Verdict(run[p], NonConsoleChainOf(text) # "deny", "stepAside"))
  /\ UNCHANGED world

StepAside(p) ==
  /\ Step(p, "nonConsole",
       Verdict(run[p], NonConsoleAllows(NonConsoleChainOf(text), run[p].marker),
               "stepAside"))
  /\ UNCHANGED world

Defers(p) == DeferDecision(PolicyDeference, run[p].marker, HasIntegrityLine(text))

Defer(p) ==
  /\ Defers(p)
  /\ Step(p, "console", Verdict(run[p], TRUE, "deferred"))
  /\ UNCHANGED world

RaiseSheet(p) ==
  /\ ~Defers(p)
  /\ Step(p, "console", [run[p] EXCEPT !.pc = "asked"])
  /\ UNCHANGED world

SheetApproved(p) ==
  /\ Step(p, "asked", [Verdict(run[p], TRUE, "sheet") EXCEPT !.factor = "sheet"])
  /\ proved' = proved \cup {run[p].sess}
  /\ UNCHANGED <<consoleUser, text, cred, disturbed>>

SheetRefused(p) ==
  Step(p, "asked", Verdict(run[p], FALSE, "sheet")) /\ UNCHANGED world

Finish(p) ==
  Step(p, "done", Idle(run[p].sess)) /\ UNCHANGED world

-----------------------------------------------------------------------------
(* The machine around them.                                                *)

SwitchConsole(u) ==
  /\ u # consoleUser /\ consoleUser' = u /\ disturbed' = Procs
  /\ UNCHANGED <<text, cred, proved, run>>

Rebuild(t) ==
  /\ t # text /\ text' = t /\ disturbed' = Procs
  /\ UNCHANGED <<consoleUser, cred, proved, run>>

Expire(s) ==
  /\ s \in cred /\ cred' = cred \ {s}
  /\ UNCHANGED <<consoleUser, text, proved, disturbed, run>>

Environment ==
  \/ \E u \in Users \cup {NoUser} : SwitchConsole(u)
  \/ \E t \in Texts : Rebuild(t)
  \/ \E s \in Sessions : Expire(s)

Progress(p) ==
  \/ Policy(p) \/ Pam(p) \/ PasswordRight(p) \/ PasswordWrong(p)
  \/ Classify(p) \/ StepAside(p) \/ Defer(p) \/ RaiseSheet(p)
  \/ SheetApproved(p) \/ SheetRefused(p)

Next ==
  \/ \E p \in Procs : \/ \E s \in Sessions, w \in BOOLEAN : Start(p, s, w)
                      \/ Progress(p) \/ Finish(p)
  \/ Environment

Spec == Init /\ [][Next]_vars

-----------------------------------------------------------------------------
TypeOK ==
  /\ consoleUser \in Users \cup {NoUser} /\ text \in Texts
  /\ cred \subseteq Sessions /\ proved \subseteq Sessions /\ disturbed \subseteq Procs
  /\ run \in [Procs -> Run]

\* A sheet is only ever up for a local GUI session of an unprivileged user: a
\* remote session of the very user at the screen never raises one there.
SheetAtTheScreen ==
  \A p \in Procs : run[p].pc = "asked" => run[p].sess \in Graphical /\ User(p) # Root

\* Sudoers wants authentication, PAM ran, and nothing changed under the process.
ViaPam(p) == ~NoAuthNeeded(p) /\ ~run[p].cached /\ p \notin disturbed

\* A command sudoers wants authenticated runs, while neither the console nor
\* sudo_local changed under it, only on a factor presented for it (or on the
\* credential of its terminal): PAM letting the console user through without
\* one is always made good by the sheet.
RunsHaveFactor ==
  \A p \in Procs :
    run[p].allowed /\ ViaPam(p) => run[p].factor # "none"

\* What RunsHaveFactor rests on.  A process that went through PAM undisturbed
\* carries the marker; and it was given a factor, or holds the console still, or
\* has the plugin's refusal ahead of it.
Grounded(p) ==
  /\ ViaPam(p) =>
       /\ run[p].pc \in {"password", "check", "nonConsole", "console", "asked"}
            => run[p].marker
       /\ run[p].pc \in {"check", "nonConsole"}
            => \/ run[p].factor # "none"
               \/ OnConsole(run[p].sess)
               \/ NonConsoleChainOf(text) = "deny"
       /\ run[p].pc = "nonConsole" => ~OnConsole(run[p].sess)
       /\ run[p].allowed => run[p].factor # "none"
  /\ run[p].allowed => run[p].pc = "done"
  /\ run[p].pc \in {"console", "asked"} => run[p].sess \in Graphical /\ User(p) # Root

IInv == \A p \in Procs : Grounded(p)

\* Deference is for what sudo did not authenticate, whatever changed between
\* PAM and the plugin.
DeferredOnlyUnauthenticated ==
  \A p \in Procs : run[p].allowed /\ run[p].by = "deferred"
                     => ~run[p].marker /\ (run[p].waived \/ run[p].cached)

\* Under nopasswd-only, a caller PAM let through as the console user and the
\* plugin meets as a non-console one is refused: PAM and plugin disagree.
NopasswdOnlyStepsAsideForWaived ==
  [][\A p \in Procs :
       /\ NonConsoleChainOf(text) = "nopasswd-only"
       /\ run[p].pc = "nonConsole" /\ run'[p].allowed
       => run[p].waived \/ run[p].cached]_vars

\* Under nopasswd-only a remote session never comes to hold a credential, unless
\* sudo_local was swapped between its PAM run and its factor: the comment of the
\* console-only role builds the meaning of an absent marker on this.
RemoteNeverCaches ==
  [][\A p \in Procs :
       /\ run[p].sess \in cred' \ cred /\ run'[p] # run[p]
       /\ run[p].sess \notin Graphical /\ p \notin disturbed
       => NonConsoleChainOf(text) # "nopasswd-only"]_vars

-----------------------------------------------------------------------------
(* What the documentation says of the same steps.                          *)

\* docs: a cached credential is only reused on a terminal that authenticated a
\* real factor.
CachedRunFollowsFactor ==
  \A p \in Procs : run[p].allowed /\ run[p].cached => run[p].sess \in proved

\* docs: when the password variant is installed, "a real factor on the
\* caller's OWN session was required" of a non-console caller who gets here.
StepAsideHasFactor ==
  \A p \in Procs :
    /\ run[p].allowed /\ run[p].by = "stepAside" /\ ~run[p].waived /\ ~run[p].cached
    => run[p].factor = "password"
=============================================================================
