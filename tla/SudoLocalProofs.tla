-------------------------- MODULE SudoLocalProofs --------------------------
(***************************************************************************)
(* What holds of every sudo_local, of any length and over any lines: the   *)
(* shapes the approval plugin steps aside for are safe to step aside for.  *)
(***************************************************************************)
EXTENDS SudoLocal, TLAPS

-----------------------------------------------------------------------------
(* The two readings of a text, whatever its length.                        *)

(* The nopasswd-only text refuses a non-console caller, at its first or at *)
(* its second line.                                                        *)
LEMMA NopasswdOnlyTextRefuses ==
  ASSUME NEW c \in Situations, ~c.console
  PROVE  /\ ChainRefuses(NopasswdOnlyText, c)
         /\ ~ChainAcceptsWithoutFactor(NopasswdOnlyText, c)
<1> DEFINE t == NopasswdOnlyText
<1>1. /\ DOMAIN t = 1..3
      /\ t[1] = IntegrityLine /\ t[2] = ConsoleOnlyLine /\ t[3] = PermitLine
  BY DEF NopasswdOnlyText
<1>2. Refuses(t[2], c)
  BY <1>1 DEF Refuses, LineSucceeds, RoleOf, ConsoleOnlyLine, ConsoleOnly,
              PAM_PATH, Permit, GateArg
<1>3. ~Accepts(t[1], c) /\ ~Accepts(t[2], c)
  BY <1>1 DEF Accepts, IntegrityLine, ConsoleOnlyLine
<1>4. ChainRefuses(t, c)
  <2>1. CASE Refuses(t[1], c)
    BY <1>1, <2>1 DEF ChainRefuses, Reaches
  <2>2. CASE ~Refuses(t[1], c)
    BY <1>1, <1>2, <1>3, <2>2 DEF ChainRefuses, Reaches, Stops
  <2>3. QED  BY <2>1, <2>2
<1>5. ~ChainAcceptsWithoutFactor(t, c)
  <2> SUFFICES ASSUME NEW i \in DOMAIN t, Reaches(t, i, c), Accepts(t[i], c)
               PROVE  FALSE
    BY DEF ChainAcceptsWithoutFactor
  <2>1. i = 3  BY <1>1, <1>3
  <2>2. ~Stops(t[2], c)  BY <2>1 DEF Reaches
  <2>3. QED  BY <1>2, <2>2 DEF Stops
<1>6. QED  BY <1>4, <1>5

(* A file that is all sudowhat's own lines cannot let a non-console caller *)
(* through: its one sufficient line is the console gate.                   *)
LEMMA OwnLinesNeedFactor ==
  ASSUME NEW t, NEW c \in Situations, OwnLines(t), ~c.console
  PROVE  ~ChainAcceptsWithoutFactor(t, c)
<1> SUFFICES ASSUME NEW i \in DOMAIN t, Accepts(t[i], c)
             PROVE  FALSE
  BY DEF ChainAcceptsWithoutFactor
<1>1. t[i] \in {IntegrityLine, GateLine, ConsoleOnlyLine}
  BY DEF OwnLines, LinesOf
<1>2. CASE t[i] = GateLine
  BY <1>2 DEF Accepts, LineSucceeds, RoleOf, GateLine, GateArg, PAM_PATH, Permit
<1>3. CASE t[i] # GateLine
  BY <1>1, <1>3 DEF Accepts, IntegrityLine, ConsoleOnlyLine
<1>4. QED  BY <1>2, <1>3

-----------------------------------------------------------------------------

(* The file is always a list of lines that a writer may leave.             *)
THEOREM TypeCorrect == Spec => []TypeOK
<1>1. Init => TypeOK
  BY DEF Init, TypeOK, Absent
<1>2. TypeOK /\ [Next]_vars => TypeOK'
  <2> SUFFICES ASSUME TypeOK, [Next]_vars
               PROVE  TypeOK'
    OBVIOUS
  <2>1. ASSUME NEW l \in Lines, AddLine(l)
        PROVE  TypeOK'
    BY <2>1 DEF TypeOK, AddLine
  <2>2. CASE Truncate
    BY <2>2 DEF TypeOK, Truncate, Absent
  <2>3. CASE SituationChanges
    BY <2>3 DEF TypeOK, SituationChanges
  <2>4. CASE UNCHANGED vars
    BY <2>4 DEF TypeOK, vars
  <2>5. QED  BY <2>1, <2>2, <2>3, <2>4 DEF Next
<1>3. QED  BY <1>1, <1>2, PTL DEF Spec

(* For every file of any length: read as nopasswd-only, it refuses every   *)
(* non-console caller in PAM.                                              *)
THEOREM NopasswdOnlyIsSafe == Spec => []NopasswdOnlyRefuses
<1>1. TypeOK => NopasswdOnlyRefuses
  <2> SUFFICES ASSUME TypeOK, Chain = "nopasswd-only", ~caller.console
               PROVE  ChainRefuses(text, caller)
    BY DEF NopasswdOnlyRefuses
  <2>1. text = NopasswdOnlyText
    BY DEF Chain, NonConsoleChainOf, IsNopasswdOnlyVariant
  <2>2. QED  BY <2>1, NopasswdOnlyTextRefuses DEF TypeOK
<1>2. QED  BY <1>1, TypeCorrect, PTL

(* For every file of any length: a non-console caller whom PAM let through *)
(* without a factor is not stepped aside for, on the marker that chain     *)
(* leaves (with a console-gate file free of pam_permit and foreign lines). *)
THEOREM StepAsideIsSafe == Spec => []StepAsideImpliesFactor
<1>1. TypeOK => StepAsideImpliesFactor
  <2> SUFFICES ASSUME TypeOK,
                      Chain = "password" => OwnLines(text),
                      ~caller.console,
                      ChainAcceptsWithoutFactor(text, caller)
               PROVE  ~NonConsoleAllows(Chain, Marker)
    BY DEF StepAsideImpliesFactor
  <2>1. Chain # "password"
    BY OwnLinesNeedFactor DEF TypeOK
  <2>2. Chain # "nopasswd-only"
    <3> SUFFICES ASSUME Chain = "nopasswd-only"
                 PROVE  FALSE
      OBVIOUS
    <3>1. text = NopasswdOnlyText
      BY DEF Chain, NonConsoleChainOf, IsNopasswdOnlyVariant
    <3>2. QED  BY <3>1, NopasswdOnlyTextRefuses DEF TypeOK
  <2>3. QED  BY <2>1, <2>2 DEF NonConsoleAllows
<1>2. QED  BY <1>1, TypeCorrect, PTL

(* Whatever the lines, a chain that PAM_PATH lines lead up to an auth line *)
(* of ours sets the marker.  The file grows line by line, so the statement *)
(* is proved along its growth, for every situation at once.                *)
OurLead(t, n) == \A j \in 1..n : t[j][3] = PAM_PATH
LeadSetsMarker ==
  \A c \in Situations, i \in 1..Len(text) :
    OurLead(text, i) /\ text[i][1] = "auth" => ChainSetsMarker(text, c)

LEMMA LeadingLinesSetTheMarker == Spec => []LeadSetsMarker
<1>1. Init => LeadSetsMarker
  BY DEF Init, Absent, LeadSetsMarker
<1>2. TypeOK /\ LeadSetsMarker /\ [Next]_vars => LeadSetsMarker'
  <2> SUFFICES ASSUME TypeOK, LeadSetsMarker, [Next]_vars,
                      NEW c \in Situations, NEW i \in 1..Len(text'),
                      OurLead(text', i), text'[i][1] = "auth"
               PROVE  ChainSetsMarker(text', c)
    BY DEF LeadSetsMarker
  <2>1. ASSUME NEW l \in Lines, AddLine(l)
        PROVE  ChainSetsMarker(text', c)
    <3>1. /\ text' = Append(text, l) /\ Len(text) \in Nat
          /\ Len(text') = Len(text) + 1
          /\ DOMAIN text = 1..Len(text) /\ DOMAIN text' = 1..Len(text')
          /\ \A j \in 1..Len(text) : text'[j] = text[j]
      BY <2>1 DEF AddLine, TypeOK
    <3>2. CASE \E j \in 1..Len(text) : j <= i /\ text[j][1] = "auth"
      <4>1. PICK j \in 1..Len(text) : j <= i /\ text[j][1] = "auth"
        BY <3>2
      <4>2. OurLead(text, j)
        BY <3>1, <4>1 DEF OurLead
      <4>3. ChainSetsMarker(text, c)
        BY <4>1, <4>2 DEF LeadSetsMarker
      <4>4. PICK k \in DOMAIN text :
              Reaches(text, k, c) /\ text[k][1] = "auth" /\ text[k][3] = PAM_PATH
        BY <4>3 DEF ChainSetsMarker
      <4>5. Reaches(text', k, c)
        BY <3>1, <4>4 DEF Reaches
      <4>6. QED  BY <3>1, <4>4, <4>5 DEF ChainSetsMarker
    <3>3. CASE ~\E j \in 1..Len(text) : j <= i /\ text[j][1] = "auth"
      <4>1. i = Len(text) + 1
        BY <3>1, <3>3
      <4>2. \A j \in 1..(i - 1) : text'[j][1] # "auth"
        BY <3>1, <3>3, <4>1
      <4>3. Reaches(text', i, c)
        BY <4>2 DEF Reaches, Stops, Refuses, Accepts
      <4>4. text'[i][3] = PAM_PATH
        BY <3>1 DEF OurLead
      <4>5. QED  BY <3>1, <4>3, <4>4 DEF ChainSetsMarker
    <3>4. QED  BY <3>2, <3>3
  <2>2. CASE Truncate
    BY <2>2 DEF Truncate, Absent
  <2>3. CASE SituationChanges
    BY <2>3 DEF SituationChanges, LeadSetsMarker
  <2>4. CASE UNCHANGED vars
    BY <2>4 DEF vars, LeadSetsMarker
  <2>5. QED  BY <2>1, <2>2, <2>3, <2>4 DEF Next
<1>3. QED  BY <1>1, <1>2, TypeCorrect, PTL DEF Spec

(* For every file of any length whose integrity line comes before any line *)
(* that is not pam_sudowhat's: running the auth chain sets the marker, so  *)
(* its absence means that sudo never ran it.                               *)
THEOREM MarkerIsAWitness == Spec => []MarkerWitnessesAuth
<1>1. TypeOK /\ LeadSetsMarker => MarkerWitnessesAuth
  <2> SUFFICES ASSUME TypeOK, LeadSetsMarker, IntegrityAhead(text)
               PROVE  ChainSetsMarker(text, caller)
    BY DEF MarkerWitnessesAuth, Marker
  <2>1. PICK i \in DOMAIN text : /\ text[i] = IntegrityLine
                                 /\ \A j \in 1..(i - 1) : text[j][3] = PAM_PATH
    BY DEF IntegrityAhead
  <2>2. i \in 1..Len(text) /\ i \in Nat
    BY <2>1 DEF TypeOK
  <2>3. text[i][1] = "auth" /\ text[i][3] = PAM_PATH
    BY <2>1 DEF IntegrityLine
  <2>4. OurLead(text, i)
    BY <2>1, <2>2, <2>3 DEF OurLead
  <2>5. QED  BY <2>2, <2>3, <2>4 DEF LeadSetsMarker, TypeOK
<1>2. QED  BY <1>1, TypeCorrect, LeadingLinesSetTheMarker, PTL
=============================================================================
