----------------------------- MODULE EscapeCalls ----------------------------
(***************************************************************************)
(* A plugin draws a command somebody typed: the commands of EscapeInput,   *)
(* through the helpers and the C boundary of EscapeABI.                    *)
(***************************************************************************)
EXTENDS EscapeInput, EscapeABI

CONSTANT Drawn   \* the alphabets whose commands a plugin goes on to draw

\* UTF-8 of a drawing; an SGR sequence of the palette stays one item.
Utf8(u) ==
  LET tail(n) == 128 + ((u \div 64^n) % 64)
  IN  CASE u < 128                   -> <<u>>
        [] u >= 128 /\ u < 2048      -> <<192 + u \div 64, tail(0)>>
        [] u >= 2048 /\ u < 65536    -> <<224 + u \div 4096, tail(1), tail(0)>>
        [] OTHER                     -> <<240 + u \div 262144, tail(2), tail(1), tail(0)>>
Bytes(drawing) == FlattenSeq([i \in DOMAIN drawing |-> Utf8(drawing[i])])

\* sw_escape_control, sw_full_command_line, _colored and _colored_dim.
ControlText(q) == Bytes(Escaped(Decode(q.path)))
LineText(q) == Bytes(FullCommandLine(q.path, q.argv))
ColoredText(q) == Bytes(RenderCommandLine(q.path, q.argv, Roles))
DimText(q) == Bytes(RenderCommandLine(q.path, q.argv, Dim))

TextOfRequest(r, q) ==
  CASE r = "control" -> ControlText(q)
    [] r = "plain"   -> LineText(q)
    [] r = "roles"   -> ColoredText(q)
    [] r = "dim"     -> DimText(q)

\* A value alone; the words typed, the first of them as the path too; the resolved
\* path and argv.
RequestOf(helper, ws) ==
  CASE helper = "escape"     -> [path |-> ws[1], argv |-> <<>>]
    [] helper = "input line" -> [path |-> ws[1], argv |-> ws]
    [] OTHER                 -> [path |-> ws[1], argv |-> Tail(ws)]

Typing == /\ call = "idle" /\ Next
          /\ UNCHANGED callVars

Draw ==
  /\ alphabet \in Drawn
  /\ \E h \in Helpers, c \in BOOLEAN : BeginCall(h, c, RequestOf(h, words))
  /\ UNCHANGED vars

Drawing == CallStep /\ UNCHANGED vars

CallsInit == Init /\ CallInit
CallsNext == Typing \/ Draw \/ Drawing
CallsSpec == CallsInit /\ [][CallsNext]_<<vars, callVars>>
=============================================================================
