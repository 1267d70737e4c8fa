----------------------------- MODULE EscapeCore -----------------------------
(***************************************************************************)
(* escape_core (shared/escape_core/src/lib.rs): how a value somebody else  *)
(* chose is drawn.  Pure operators: a value is a sequence of bytes, which  *)
(* decodes to a sequence of units, a code point standing for itself and a  *)
(* byte that is not valid UTF-8 for the negative of the byte.  A drawing   *)
(* is the sequence of the code points shown; in a coloured one the SGR     *)
(* sequences of the palette are in between, each one item, negative too.   *)
(***************************************************************************)
EXTENDS Integers, SequencesExt

Space == 32
DQuote == 34
Quote == 39
Dash == 45
Slash == 47
Backslash == 92
Backtick == 96
LetterU == 117
LetterX == 120
OpenBrace == 123
CloseBrace == 125

Within(u, ranges) == \E r \in ranges : r[1] <= u /\ u <= r[2]

HiddenRanges ==
  { <<0, 31>>, <<127, 159>>, <<160, 160>>, <<173, 173>>, <<847, 847>>, <<1564, 1564>>,
    <<4447, 4448>>, <<6068, 6069>>, <<6155, 6158>>, <<8192, 8207>>, <<8232, 8239>>,
    <<8287, 8303>>, <<12288, 12288>>, <<12644, 12644>>, <<65024, 65039>>,
    <<65279, 65279>>, <<65440, 65440>>, <<65529, 65531>>, <<917504, 917631>>,
    <<917760, 917999>> }

IsHidden(u) == Within(u, HiddenRanges)

IsHexDigit(u) == Within(u, {<<48, 57>>, <<65, 70>>, <<97, 102>>})

\* + , - . / 0-9 : = @ A-Z _ a-z %
IsSafe(u) == Within(u, {<<43, 58>>, <<61, 61>>, <<64, 90>>, <<95, 95>>, <<97, 122>>, <<37, 37>>})

-----------------------------------------------------------------------------
(* UTF-8, as str::from_utf8 and utf8_chunks of the standard library read   *)
(* it: the rows of well-formed sequences.  The bytes of an invalid chunk   *)
(* come out one by one, and none of its later bytes could begin a          *)
(* sequence.                                                               *)

Continuation == <<128, 191>>
WellFormed ==
  { << <<0, 127>> >>,
    << <<194, 223>>, Continuation >>,
    << <<224, 224>>, <<160, 191>>, Continuation >>,
    << <<225, 236>>, Continuation, Continuation >>,
    << <<237, 237>>, <<128, 159>>, Continuation >>,
    << <<238, 239>>, Continuation, Continuation >>,
    << <<240, 240>>, <<144, 191>>, Continuation, Continuation >>,
    << <<241, 243>>, Continuation, Continuation, Continuation >>,
    << <<244, 244>>, <<128, 143>>, Continuation, Continuation >> }

\* The length of the well-formed sequence that begins at i, 0 if none does.
SequenceLength(bytes, i) ==
  LET fits(row) == /\ i + Len(row) - 1 <= Len(bytes)
                   /\ \A k \in DOMAIN row : Within(bytes[i + k - 1], {row[k]})
      rows == {row \in WellFormed : fits(row)}
  IN  IF rows = {} THEN 0 ELSE Len(CHOOSE row \in rows : TRUE)

LeadBits == <<128, 32, 16, 8>>

\* Six more bits from each continuation byte; there are three at most.
SixMore(u, b) == (u * 64) + (b % 64)
Spelt(low, rest) ==
  CASE Len(rest) = 0 -> low
    [] Len(rest) = 1 -> SixMore(low, rest[1])
    [] Len(rest) = 2 -> SixMore(SixMore(low, rest[1]), rest[2])
    [] OTHER         -> SixMore(SixMore(SixMore(low, rest[1]), rest[2]), rest[3])

ScalarOf(bytes) == Spelt(bytes[1] % LeadBits[Len(bytes)], Tail(bytes))

Decode(bytes) ==
  LET from[i \in 1..(Len(bytes) + 1)] ==
        LET n == SequenceLength(bytes, i)
        IN  IF i > Len(bytes) THEN <<>>
            ELSE IF n = 0 THEN <<-bytes[i]>> \o from[i + 1]
            ELSE <<ScalarOf(SubSeq(bytes, i, i + n - 1))>> \o from[i + n]
  IN  from[1]

-----------------------------------------------------------------------------
(* Escaping.                                                               *)

\* Whether what follows a backslash makes it read as the start of an escape.
BeginsEscape(rest) ==
  /\ Len(rest) >= 2
  /\ \/ rest[1] = LetterU /\ rest[2] = OpenBrace
     \/ rest[1] = LetterX /\ IsHexDigit(rest[2])

After(t, i) == SubSeq(t, i + 1, Len(t))

\* A slip, for mutants only: a backslash is never taken for an introducer.
KindNoBackslash(t, i) ==
  CASE t[i] < 0       -> "byte"
    [] IsHidden(t[i]) -> "hidden"
    [] OTHER          -> "char"

\* What a unit of the value is to be drawn as.
Kind(t, i) ==
  CASE t[i] < 0       -> "byte"
    [] IsHidden(t[i]) -> "hidden"
    [] t[i] = Backslash /\ BeginsEscape(After(t, i)) -> "backslash"
    [] OTHER          -> "char"

Pieces(t) == [i \in DOMAIN t |-> [kind |-> Kind(t, i), code |-> t[i]]]

HexDigit(d) == IF d < 10 THEN 48 + d ELSE 55 + d

\* Uppercase, no leading zeros.
Hex(u) ==
  LET h[n \in 0..u] == IF n < 16 THEN <<HexDigit(n)>>
                       ELSE Append(h[n \div 16], HexDigit(n % 16))
  IN  h[u]

CodePoint(u) == <<Backslash, LetterU, OpenBrace>> \o Hex(u) \o <<CloseBrace>>

ByteEscape(b) == <<Backslash, LetterX, HexDigit(b \div 16), HexDigit(b % 16)>>

PieceText(p) ==
  CASE p.kind = "byte" -> ByteEscape(-p.code)
    [] p.kind = "char" -> <<p.code>>
    [] OTHER           -> CodePoint(p.code)

Escaped(t) ==
  LET ps == Pieces(t) IN FlattenSeq([i \in DOMAIN ps |-> PieceText(ps[i])])

-----------------------------------------------------------------------------
(* Quoting, and the command line.                                          *)

Part(text, mark) == [text |-> text, mark |-> mark]
Ours == Part(<<Quote>>, "ours")

\* A slip, for mutants only: a quote of the value drawn as it is.
QuotedPieceBare(p) ==
  <<Part(PieceText(p), CASE p.kind = "hidden" -> "hidden"
                         [] p.kind = "char" /\ p.code \in {Quote, DQuote, Backtick} -> "meta"
                         [] OTHER -> "plain")>>

\* A piece inside a quoted token; a quote takes the '\'' idiom.
QuotedPiece(p) ==
  IF p.kind = "char" /\ p.code = Quote
  THEN <<Ours, Part(<<Backslash>>, "plain"), Part(<<Quote>>, "meta"), Ours>>
  ELSE <<Part(PieceText(p), CASE p.kind = "hidden" -> "hidden"
                              [] p.kind = "char" /\ p.code \in {DQuote, Backtick} -> "meta"
                              [] OTHER -> "plain")>>

NeedsNoQuotes(ps) == \A i \in DOMAIN ps : ps[i].kind = "char" /\ IsSafe(ps[i].code)

\* The parts of a token; their texts, one after the other, are the plain token.
RenderToken(t) ==
  LET ps == Pieces(t)
  IN  IF t # <<>> /\ NeedsNoQuotes(ps)
      THEN [i \in DOMAIN ps |-> Part(PieceText(ps[i]), "plain")]
      ELSE <<Ours>> \o FlattenSeq([i \in DOMAIN ps |-> QuotedPiece(ps[i])]) \o <<Ours>>

TextOf(parts) == FlattenSeq([i \in DOMAIN parts |-> parts[i].text])

LastPathComponent(p) ==
  LET end     == SelectLastInSeq(p, LAMBDA u : u # Slash)
      trimmed == SubSeq(p, 1, end)
  IN  IF p = <<>> THEN <<>>
      ELSE IF end = 0 THEN <<Slash>>
      ELSE After(trimmed, SelectLastInSeq(trimmed, LAMBDA u : u = Slash))

\* The path, then argv without an argv[0] that repeats the path or its name.
CommandTokens(path, argv) ==
  LET name    == LastPathComponent(path)
      repeats == /\ argv # <<>>
                 /\ argv[1] = path \/ (name # <<>> /\ argv[1] = name)
  IN  <<path>> \o (IF repeats THEN Tail(argv) ELSE argv)

\* Drawings of the tokens, a space between each two.
Spaced(drawings) ==
  FlattenSeq([i \in DOMAIN drawings |->
                IF i = 1 THEN drawings[i] ELSE <<Space>> \o drawings[i]])

FullCommandLine(path, argv) ==
  LET toks == CommandTokens(path, argv)
  IN  Spaced([i \in DOMAIN toks |-> TextOf(RenderToken(Decode(toks[i])))])
=============================================================================
