------------------------------ MODULE MCEscape ------------------------------
(* The alphabets: shell words, what escapes are made of, the bounds of the  *)
(* UTF-8 decoder, the bounds of the hidden list, and what is drawn through  *)
(* the C boundary: drawings longer than their characters, and than the      *)
(* bytes that came in.                                                      *)
EXTENDS EscapeCalls

Singly(bytes) == {<<b>> : b \in bytes}

\* A, space, both quotes, dash, slash, line feed (hidden), backslash, a broken byte.
ShellBytes == Singly({65, Space, Quote, DQuote, Dash, Slash, 10, Backslash, 255})
EscapeBytes == Singly({Backslash, LetterU, OpenBrace, CloseBrace, LetterX, 65})
\* Either side of every bound of the decoder; some spell hidden code points (C2 A0, E2 80 8F).
BoundaryBytes == Singly({65, 128, 143, 144, 159, 160, 191, 193, 194, 224, 226, 237, 240, 244, 245})

\* The code points at the ends of every range of the list, and next to them.
ListBounds ==
  {Utf8(u) : u \in UNION {{r[1] - 1, r[1], r[2], r[2] + 1} : r \in HiddenRanges} \ {-1}}

\* Space, line feed (hidden), a broken byte, e acute.
DrawnChunks == Singly({Space, 10, 255}) \cup {Utf8(233)}

MCChunks    == [shell |-> ShellBytes, escape |-> EscapeBytes, utf8 |-> BoundaryBytes,
                list |-> ListBounds, drawn |-> DrawnChunks]
MCMaxSize   == [shell |-> 4, escape |-> 5, utf8 |-> 4, list |-> 1, drawn |-> 2]
MCMaxTokens == [shell |-> 3, escape |-> 1, utf8 |-> 1, list |-> 1, drawn |-> 2]

\* Every request a command of the drawn alphabet leads to.
DrawnWords == {FlattenSeq(s) : s \in UNION {[1..n -> DrawnChunks] : n \in 0..2}}
DrawnCommands ==
  {<<w>> : w \in DrawnWords} \cup {<<v, w>> : v \in {<<>>} \cup DrawnChunks, w \in {<<>>} \cup DrawnChunks}
MCRequests == {RequestOf(h, ws) : h \in Helpers, ws \in DrawnCommands}

\* For the run on padding only.
PadChunks    == [shell |-> Singly({65, Space, Slash})]
PadMaxSize   == [shell |-> 4]
PadMaxTokens == [shell |-> 1]
=============================================================================
