---------------------------- MODULE EscapeColour ----------------------------
(***************************************************************************)
(* escape_core's colouriser (shared/escape_core/src/lib.rs): SGR around    *)
(* the parts of the rendered tokens, for the execute: line (Roles) and,    *)
(* dim, for the input: line (Dim).                                         *)
(***************************************************************************)
EXTENDS EscapeCore

\* The palette; a number is the parameters of the sequence, negated.
None == 0
Reset == -100000
SgrHidden == -731
SgrMeta == -136
SgrSpace == -1000
SgrOurs == -2

Roles == [head |-> -136, middle |-> None, base |-> -134, flag |-> -134, value |-> None]
Dim   == [head |-> -2, middle |-> -2, base |-> -12, flag |-> -2, value |-> -2]

SgrOf(mark) == CASE mark = "ours" -> SgrOurs [] mark = "meta" -> SgrMeta
                 [] mark = "hidden" -> SgrHidden

IsPlain(p, u) == p.mark = "plain" /\ p.text = <<u>>

\* The painter's state: what it has put out, and whether the base is in effect.
PushPlain(st, text, base) ==
  [ out   |-> st.out \o (IF base # None /\ ~st.armed THEN <<base>> ELSE <<>>) \o text,
    armed |-> base # None ]

\* A slip, for mutants only: the base is not taken off before a mark.
PushSpanOnTop(st, text, colour) ==
  [out |-> st.out \o <<colour>> \o text \o <<Reset>>, armed |-> FALSE]

PushSpan(st, text, colour) ==
  [ out   |-> st.out \o (IF st.armed THEN <<Reset>> ELSE <<>>) \o <<colour>> \o text \o <<Reset>>,
    armed |-> FALSE ]

\* A run of spaces in the program's token is notable when it is two long or
\* more, or touches an end of the span.
IsSpaceAt(span, i) == i \in DOMAIN span /\ IsPlain(span[i], Space)
Notable(span, i) ==
  LET from == CHOOSE a \in 1..i : /\ \A k \in a..i : IsSpaceAt(span, k)
                                  /\ ~IsSpaceAt(span, a - 1)
      upto == CHOOSE b \in i..Len(span) : /\ \A k \in i..b : IsSpaceAt(span, k)
                                          /\ ~IsSpaceAt(span, b + 1)
  IN  upto - from >= 1 \/ from = 1 \/ upto = Len(span)

\* A slip, for mutants only: a run of spaces is drawn as one block.
PaintPartOneBlock(st, span, i, base, markSpaces) ==
  IF span[i].mark # "plain" THEN PushSpan(st, span[i].text, SgrOf(span[i].mark))
  ELSE IF IsSpaceAt(span, i) /\ IsSpaceAt(span, i - 1) THEN st
  ELSE IF markSpaces /\ IsSpaceAt(span, i) /\ Notable(span, i)
  THEN PushSpan(st, span[i].text, SgrSpace)
  ELSE PushPlain(st, span[i].text, base)

\* One span of parts over a base.  (The code puts a notable run out as one span
\* of its own; here each space is one.)
PaintPart(st, span, i, base, markSpaces) ==
  IF span[i].mark # "plain" THEN PushSpan(st, span[i].text, SgrOf(span[i].mark))
  ELSE IF markSpaces /\ IsSpaceAt(span, i) /\ Notable(span, i)
  THEN PushSpan(st, span[i].text, SgrSpace)
  ELSE PushPlain(st, span[i].text, base)

Paint(span, base, markSpaces) ==
  LET st[i \in 0..Len(span)] ==
        IF i = 0 THEN [out |-> <<>>, armed |-> FALSE]
        ELSE PaintPart(st[i - 1], span, i, base, markSpaces)
      end == st[Len(span)]
  IN  end.out \o (IF end.armed THEN <<Reset>> ELSE <<>>)

SlashesOf(parts) == {i \in DOMAIN parts : IsPlain(parts[i], Slash)}

\* How many parts of a program's directory are its first segment: up to the
\* second slash, our opening quote included; none in a relative directory or "/".
HeadLength(dir) ==
  LET start == IF Len(dir) >= 2 /\ dir[1] = Ours /\ IsPlain(dir[2], Slash) THEN 2 ELSE 1
      later == {i \in SlashesOf(dir) : i > start}
  IN  IF start \in SlashesOf(dir) /\ later # {} THEN Min(later) - 1 ELSE 0

\* token[0]: its first segment, the rest of its directory, its name.
PaintProgram(r, palette) ==
  LET cut == IF SlashesOf(r) = {} THEN 0 ELSE Max(SlashesOf(r))
      dir == SubSeq(r, 1, cut)
      hl  == IF palette.head = palette.middle THEN 0 ELSE HeadLength(dir)
  IN  Paint(SubSeq(dir, 1, hl), palette.head, TRUE)
        \o Paint(After(dir, hl), palette.middle, TRUE)
        \o Paint(After(r, cut), palette.base, TRUE)

\* The option flag's mark is lexical: the token as drawn starts with '-'.
PaintArgument(r, palette) ==
  Paint(r, IF IsPlain(r[1], Dash) THEN palette.flag ELSE palette.value, FALSE)

RenderCommandLine(path, argv, palette) ==
  LET toks == CommandTokens(path, argv)
  IN  Spaced([i \in DOMAIN toks |->
                IF i = 1 THEN PaintProgram(RenderToken(Decode(toks[i])), palette)
                ELSE PaintArgument(RenderToken(Decode(toks[i])), palette)])
=============================================================================
