---------------------------- MODULE EscapeInput -----------------------------
(***************************************************************************)
(* What reaches escape_core: a program path and an argv, bytes that        *)
(* somebody else chose.  The state is one such command; the actions put it *)
(* together a chunk of bytes at a time, so that the reachable states are   *)
(* all the commands within the bounds, and the properties read what is     *)
(* drawn for them against definitions of their own: a reader that undoes   *)
(* the escapes, a shell, and a terminal.                                   *)
(***************************************************************************)
EXTENDS EscapeColour, DeployEscape

CONSTANTS
  Chunks,     \* by name, the alphabets commands are written in: sets of byte strings
  MaxSize,    \* with fewer bytes and ends of tokens a command of the alphabet may grow
  MaxTokens   \* how many tokens a command of each alphabet has

\* What a C string is made of; the NUL that ends one is not kept out.
Octets == 0..255

ASSUME ChunksAssumption == \A a \in DOMAIN Chunks : Chunks[a] \subseteq Seq(Octets)

ASSUME BoundsAssumption ==
  /\ MaxSize \in [DOMAIN Chunks -> Nat]
  /\ MaxTokens \in [DOMAIN Chunks -> Nat \ {0}]

VARIABLES
  alphabet,   \* which alphabet
  words       \* the path, then argv

vars == <<alphabet, words>>

path == words[1]
argv == Tail(words)

Size == Len(FlattenSeq(words)) + Len(words) - 1

Init == alphabet \in DOMAIN Chunks /\ words = << <<>> >>

Type(chunk) ==
  /\ Size < MaxSize[alphabet]
  /\ words' = [words EXCEPT ![Len(words)] = @ \o chunk]
  /\ UNCHANGED alphabet

NextToken ==
  /\ Size < MaxSize[alphabet]
  /\ Len(words) < MaxTokens[alphabet]
  /\ words' = Append(words, <<>>)
  /\ UNCHANGED alphabet

Next == NextToken \/ \E chunk \in Chunks[alphabet] : Type(chunk)

Spec == Init /\ [][Next]_vars

-----------------------------------------------------------------------------
(* Readers.                                                                *)

DigitOf(c) == IF c <= 57 THEN c - 48 ELSE IF c <= 70 THEN c - 55 ELSE c - 87
ValueOf(digits) ==
  LET value[n \in 0..Len(digits)] ==
        IF n = 0 THEN 0 ELSE value[n - 1] * 16 + DigitOf(digits[n])
  IN  value[Len(digits)]

\* Undoing the escapes: what begins at i, and where the next begins.  An introducer
\* must begin an escape that is complete; Broken stands for the rest otherwise.
Broken == -1000000
AllHex(ds) == ds # <<>> /\ \A k \in DOMAIN ds : IsHexDigit(ds[k])
ReadAt(text, i) ==
  LET rest   == After(text, i)
      close  == SelectInSeq(rest, LAMBDA c : c = CloseBrace)
      hex    == SubSeq(rest, 3, close - 1)
      byte   == SubSeq(rest, 2, 3)
      broken == [unit |-> Broken, next |-> Len(text) + 1]
  IN  IF text[i] # Backslash \/ ~BeginsEscape(rest) THEN [unit |-> text[i], next |-> i + 1]
      ELSE IF rest[1] = LetterU
      THEN IF close > 0 /\ AllHex(hex) THEN [unit |-> ValueOf(hex), next |-> i + 1 + close]
           ELSE broken
      ELSE IF Len(rest) >= 3 /\ AllHex(byte) THEN [unit |-> -ValueOf(byte), next |-> i + 4]
           ELSE broken

Unescape(text) ==
  LET from[i \in 1..(Len(text) + 1)] ==
        LET r == ReadAt(text, i)
        IN  IF i > Len(text) THEN <<>> ELSE <<r.unit>> \o from[r.next]
  IN  from[1]

\* The words a POSIX shell reads; Broken for a character that would not be
\* itself outside quotes, and for a quote left open.
ShellAt(mode, word, read) == [mode |-> mode, word |-> word, read |-> read]
ShellRead(st, c) ==
  LET to(mode)      == ShellAt(mode, st.word, st.read)
      with(mode, d) == ShellAt(mode, Append(st.word, d), st.read)
  IN  IF st.mode = "quoted" THEN (IF c = Quote THEN to("bare") ELSE with("quoted", c))
      ELSE IF st.mode = "escaped" THEN with("bare", c)
      ELSE CASE c = Quote     -> to("quoted")
             [] c = Backslash -> to("escaped")
             [] c = Space     -> ShellAt("bare", <<>>, Append(st.read, st.word))
             [] OTHER         -> with("bare", IF IsSafe(c) THEN c ELSE Broken)

ShellFrom(st, line) ==
  LET at[i \in 0..Len(line)] == IF i = 0 THEN st ELSE ShellRead(at[i - 1], line[i])
  IN  at[Len(line)]

ShellWords(line) ==
  LET st == ShellFrom(ShellAt("bare", <<>>, <<>>), line)
  IN  Append(st.read, IF st.mode = "bare" THEN st.word ELSE Append(st.word, Broken))

\* A terminal: the characters it shows, each with the sequences in effect.
Put(st, c) ==
  IF c = Reset THEN [st EXCEPT !.sgr = <<>>]
  ELSE IF c < 0 THEN [st EXCEPT !.sgr = Append(@, c)]
  ELSE [st EXCEPT !.shown = Append(@, [char |-> c, sgr |-> st.sgr])]

TerminalFrom(st, drawing) ==
  LET at[i \in 0..Len(drawing)] == IF i = 0 THEN st ELSE Put(at[i - 1], drawing[i])
  IN  at[Len(drawing)]

Terminal(drawing) == TerminalFrom([sgr |-> <<>>, shown |-> <<>>], drawing)

Palettes == {Roles, Dim}
Shown(palette) == Terminal(RenderCommandLine(path, argv, palette)).shown

\* A pipe: what is left of a drawing without the sequences.
Keep(kept, c) == IF c < 0 THEN kept ELSE Append(kept, c)
Strip(drawing) ==
  LET kept[i \in 0..Len(drawing)] == IF i = 0 THEN <<>> ELSE Keep(kept[i - 1], drawing[i])
  IN  kept[Len(drawing)]

-----------------------------------------------------------------------------
(* What a reader of the drawing may rely on.                               *)

\* A reader who undoes the escapes has the value back, unit by unit, and nothing
\* on the hidden list is drawn as itself: an escape on screen can only ever be
\* one, whatever backslashes, braces and broken bytes the value holds.
EscapeReadsBack ==
  \A i \in DOMAIN words :
    LET units == Decode(words[i])
        text  == Escaped(units)
    IN  /\ Unescape(text) = units
        /\ \A k \in DOMAIN text : ~IsHidden(text[k])

\* The line pasted into a shell is the command: its words are the escaped tokens,
\* one for one, and no character of a token is live outside quotes.
LineReadsBack ==
  LET toks == CommandTokens(path, argv)
  IN  ShellWords(FullCommandLine(path, argv)) = [i \in DOMAIN toks |-> Escaped(Decode(toks[i]))]

\* The colours are laid around the plain line and change none of it, on the
\* execute: line and on the input: line, so the two lines spell the same tokens.
StripsToPlain ==
  \A p \in Palettes : Strip(RenderCommandLine(path, argv, p)) = FullCommandLine(path, argv)

\* The style a part of a token has to read in, with no painter: its mark, a
\* notable space, or the base of the role its place in the token gives it.
Two(set) == \E a, b \in set : a # b
BaseAt(r, i, isProgram, p) ==
  LET slashes == SlashesOf(r)
      rooted  == IsPlain(r[1], Slash) \/ (r[1] = Ours /\ Len(r) > 1 /\ IsPlain(r[2], Slash))
  IN  IF ~isProgram THEN (IF IsPlain(r[1], Dash) THEN p.flag ELSE p.value)
      ELSE IF \A k \in slashes : k < i THEN p.base
      ELSE IF rooted /\ Two(slashes) /\ ~Two({k \in slashes : k <= i}) THEN p.head
      ELSE p.middle

StyleAt(r, i, isProgram, p) ==
  LET base == BaseAt(r, i, isProgram, p)
      \* the parts next to it in the same span: those with the same base
      padded(k) == \/ k \notin DOMAIN r
                   \/ BaseAt(r, k, isProgram, p) # base
                   \/ IsSpaceAt(r, k)
  IN  IF r[i].mark # "plain" THEN <<SgrOf(r[i].mark)>>
      ELSE IF isProgram /\ IsSpaceAt(r, i) /\ (padded(i - 1) \/ padded(i + 1)) THEN <<SgrSpace>>
      ELSE IF base = None THEN <<>> ELSE <<base>>

Expected(p) ==
  LET toks == CommandTokens(path, argv)
      styled(i) ==
        LET r == RenderToken(Decode(toks[i]))
        IN  FlattenSeq([k \in DOMAIN r |->
              [c \in DOMAIN r[k].text |->
                [char |-> r[k].text[c], sgr |-> StyleAt(r, k, i = 1, p)]]])
      gap == <<[char |-> Space, sgr |-> <<>>]>>
  IN  FlattenSeq([i \in DOMAIN toks |-> IF i = 1 THEN styled(i) ELSE gap \o styled(i)])

\* On a terminal every character wears the one style of its mark and its role:
\* the reserved style of a hidden code point never leaks on or runs under
\* another colour, and what is between two tokens is plain.
StylesMeanWhatTheyMark == \A p \in Palettes : Shown(p) = Expected(p)

\* The deploy helper's own escaper draws what escape_core draws, byte for byte,
\* with the same code points called hidden: two lists and two decoders, one reading.
TwinReadsAlike ==
  \A i \in DOMAIN words :
    LET ps == Pieces(Decode(words[i]))
        drawn(q) == IF q.kind = "hidden" THEN <<SgrHidden>> \o PieceText(q) \o <<Reset>>
                    ELSE PieceText(q)
    IN  EscapeUntrusted(words[i], <<SgrHidden>>, <<Reset>>)
          = FlattenSeq([k \in DOMAIN ps |-> drawn(ps[k])])

\* lib.rs names the case the mark of spaces is for: "a trailing space on a path",
\* "a trailing space or a hidden double space in the thing that runs".  A space
\* of an absolute program path that ends it, or has another beside it, is marked.
PaddingIsMarked ==
  LET marked == Cardinality({k \in DOMAIN Shown(Roles) : Shown(Roles)[k].sgr = <<SgrSpace>>})
      padding == {k \in DOMAIN path :
                    /\ path[k] = Space
                    /\ \/ k = Len(path)
                       \/ path[k + 1] = Space
                       \/ k > 1 /\ path[k - 1] = Space}
  IN  path # <<>> /\ path[1] = Slash => marked >= Cardinality(padding)
=============================================================================
