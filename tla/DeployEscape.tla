---------------------------- MODULE DeployEscape ----------------------------
(***************************************************************************)
(* escape_untrusted of nix/bin/deploy (nix/bin/deploy-plan carries a       *)
(* copy): the same rules as escape_core, in bash, on the bytes.  UTF-8 is  *)
(* decoded by hand, from the lead byte's range, the number of bytes it     *)
(* asks for and the smallest code point they may spell.                    *)
(***************************************************************************)
EXTENDS EscapeCore

Invalid == [len |-> 0, low |-> 0, min |-> 0]
Lead(b) ==
  CASE b < 128              -> [len |-> 1, low |-> b,       min |-> 0]
    [] Within(b, {<<194, 223>>}) -> [len |-> 2, low |-> b % 32, min |-> 128]
    [] Within(b, {<<224, 239>>}) -> [len |-> 3, low |-> b % 16, min |-> 2048]
    [] Within(b, {<<240, 244>>}) -> [len |-> 4, low |-> b % 8,  min |-> 65536]
    [] OTHER                -> Invalid

\* A slip, for mutants only: a three- or four-byte sequence may spell any code point.
SpellsAnything(lead, cp) == TRUE

\* What the bytes spell is at home in that many bytes, and no surrogate.
Spells(lead, cp) ==
  /\ cp >= lead.min
  /\ ~Within(cp, {<<55296, 57343>>})
  /\ cp <= 1114111

\* The unit at byte i: its length and its code point; length 0 if it is not one.
UnitAt(s, i) ==
  LET lead == Lead(s[i])
      rest == SubSeq(s, i + 1, i + lead.len - 1)
      cp   == Spelt(lead.low, rest)
  IN  IF /\ lead.len > 0
         /\ i + lead.len - 1 <= Len(s)
         /\ \A k \in DOMAIN rest : Within(rest[k], {<<128, 191>>})
         /\ lead.len > 1 => Spells(lead, cp)
      THEN [len |-> lead.len, cp |-> cp]
      ELSE [len |-> 0, cp |-> 0]

\* is_hidden is a second list, written out again.
TwinHidden(u) ==
  \/ u <= 31 \/ (u >= 127 /\ u <= 159) \/ u = 160 \/ u = 173
  \/ u = 847 \/ u = 1564 \/ (u >= 4447 /\ u <= 4448)
  \/ (u >= 6068 /\ u <= 6069) \/ (u >= 6155 /\ u <= 6158)
  \/ (u >= 8192 /\ u <= 8207) \/ (u >= 8232 /\ u <= 8239)
  \/ (u >= 8287 /\ u <= 8303) \/ u = 12288 \/ u = 12644
  \/ (u >= 65024 /\ u <= 65039) \/ u = 65279 \/ u = 65440
  \/ (u >= 65529 /\ u <= 65531) \/ (u >= 917504 /\ u <= 917631)
  \/ (u >= 917760 /\ u <= 917999)

\* Whether the two bytes after a backslash make an escape of it.
TwinBegins(s, i) ==
  /\ i + 2 <= Len(s)
  /\ \/ s[i + 1] = LetterU /\ s[i + 2] = OpenBrace
     \/ s[i + 1] = LetterX /\ IsHexDigit(s[i + 2])

\* The text, a hidden code point between on and off.
EscapeUntrusted(s, on, off) ==
  LET from[i \in 1..(Len(s) + 1)] ==
        IF i > Len(s) THEN <<>>
        ELSE LET u == UnitAt(s, i)
             IN  IF u.len = 0 THEN ByteEscape(s[i]) \o from[i + 1]
                 ELSE (IF TwinHidden(u.cp) THEN on \o CodePoint(u.cp) \o off
                       ELSE IF u.cp = Backslash /\ TwinBegins(s, i) THEN CodePoint(Backslash)
                       ELSE <<u.cp>>) \o from[i + u.len]
  IN  from[1]
=============================================================================
