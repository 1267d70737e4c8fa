------------------------------ MODULE EscapeABI -----------------------------
(***************************************************************************)
(* The C boundary of escape_core, from both sides: write_result and the    *)
(* readers of shared/escape_core/src/lib.rs, and the plugins' helpers that *)
(* call it twice, once for the length and once to fill a buffer of that    *)
(* length and a NUL, while every allocation may be refused.                *)
(*                                                                         *)
(* What is drawn is the constant Text, so the module speaks of drawings of *)
(* any length.  A buffer is a function of its slots; a slot nothing was    *)
(* written to holds Junk.                                                  *)
(***************************************************************************)
EXTENDS Integers, Sequences

CONSTANTS
  Requests,     \* what can be asked for: a path and the tokens after it
  Text(_, _),   \* the bytes a renderer draws for a request
  Byte,         \* what a drawing is made of; 0, the NUL, among them
  Junk,         \* a slot nothing was written to
  Nil           \* no string

Helpers == {"escape", "input line", "execute line", "sheet line"}
NotOK == -1
Renderers == {"control", "plain", "roles", "dim"}

ASSUME RequestsAssumption ==
  /\ Requests # {}
  /\ \A q \in Requests : q = [path |-> q.path, argv |-> q.argv]

ASSUME TextAssumption ==
  \A r \in Renderers, q \in Requests : Text(r, q) \in Seq(Byte) /\ Text(r, q) # Nil

\* The renderers a helper tries: with colour, its coloured one and then the plain one.
Attempts(helper, color) ==
  CASE helper = "escape"       -> <<"control">>
    [] helper = "sheet line"   -> <<"plain">>
    [] helper = "input line"   -> IF color THEN <<"dim", "plain">> ELSE <<"plain">>
    [] helper = "execute line" -> IF color THEN <<"roles", "plain">> ELSE <<"plain">>

\* A value is drawn alone, and the input: line has at least the word typed.
Suits(helper, q) ==
  /\ helper = "escape" => q.argv = <<>>
  /\ helper = "input line" => q.argv # <<>>

\* The execute: line allocates no arrays for no tokens, the sheet's one slot each.
HasArrays(helper, q) ==
  \/ helper \in {"input line", "sheet line"}
  \/ helper = "execute line" /\ q.argv # <<>>

VARIABLES
  call,     \* where the helper is
  job,      \* who asked for what
  attempt,  \* which of its renderers is tried
  needed,   \* the length the probe reported
  buffer,   \* the buffer's slots, none for a null pointer
  got,      \* the length the second call reported, if it returned OK
  string,   \* what this attempt has made
  heap,     \* the blocks that are allocated
  refused   \* what there was no memory for

callVars == <<call, job, attempt, needed, buffer, got, string, heap, refused>>

Order == Attempts(job.helper, job.color)
Renderer == Order[attempt]

-----------------------------------------------------------------------------
(* The callee.                                                             *)

\* read_argv: a null array is no tokens.
ReadRequest ==
  IF {"argv", "lens"} \subseteq heap THEN job.request ELSE [job.request EXCEPT !.argv = <<>>]

\* A slip, for mutants only: one slot too many is asked for.
FitsWithTwo(n, out) == Len(out) > n + 1

\* write_result: the bytes and the NUL, when there is room for both; a null pointer
\* has room for nothing.
Fits(n, out) == Len(out) >= n + 1

\* The slots it writes are 1..n+1, whatever the buffer has.
Written(text, out) ==
  LET n == Len(text)
  IN  [ i \in 1..(n + 1) \cup 1..Len(out) |->
          IF i <= n THEN text[i] ELSE IF i = n + 1 THEN 0 ELSE out[i] ]

-----------------------------------------------------------------------------
(* The callers.                                                            *)

CallInit ==
  /\ call = "idle"
  /\ job = CHOOSE j \in [helper : Helpers, color : BOOLEAN, request : Requests] : TRUE
  /\ attempt = 1 /\ needed = 0 /\ buffer = <<>> /\ got = NotOK /\ string = Nil
  /\ heap = {} /\ refused = {}

BeginCall(h, c, q) ==
  /\ call = "idle"
  /\ Suits(h, q)
  /\ call' = IF HasArrays(h, q) THEN "arrays" ELSE "probe"
  /\ job' = [helper |-> h, color |-> c, request |-> q]
  /\ attempt' = 1 /\ needed' = 0 /\ refused' = {}
  /\ UNCHANGED <<buffer, got, string, heap>>

\* The two arrays of tokens and lengths.
Arrays ==
  /\ call = "arrays"
  /\ heap' = {"argv", "lens"}
  /\ call' = "probe"
  /\ UNCHANGED <<job, attempt, needed, buffer, got, string, refused>>

\* A slip, for mutants only: the array that was got is not freed.
NoArraysKeepsOne ==
  /\ call = "arrays"
  /\ \E kept \in {{}, {"argv"}, {"lens"}} : heap' = kept
  /\ call' = "drawn"
  /\ refused' = {"arrays"}
  /\ UNCHANGED <<job, attempt, needed, buffer, got, string>>

\* One of them, or both, could not be had: the other is freed, and there is no line.
NoArrays ==
  /\ call = "arrays"
  /\ call' = "drawn"
  /\ refused' = {"arrays"}
  /\ UNCHANGED <<job, attempt, needed, buffer, got, string, heap>>

\* The first call, without a buffer, for the length.
Probe ==
  /\ call = "probe"
  /\ needed' = Len(Text(Renderer, ReadRequest))
  /\ call' = "buffer"
  /\ UNCHANGED <<job, attempt, buffer, got, string, heap, refused>>

\* A slip, for mutants only: no room for the NUL.
BufferWithoutNul ==
  /\ call = "buffer"
  /\ buffer' = [i \in 1..needed |-> Junk]
  /\ heap' = heap \cup {"buffer"}
  /\ call' = "fill"
  /\ UNCHANGED <<job, attempt, needed, got, string, refused>>

Buffer ==
  /\ call = "buffer"
  /\ buffer' = [i \in 1..(needed + 1) |-> Junk]
  /\ heap' = heap \cup {"buffer"}
  /\ call' = "fill"
  /\ UNCHANGED <<job, attempt, needed, got, string, refused>>

NoBuffer ==
  /\ call = "buffer"
  /\ refused' = refused \cup {Renderer}
  /\ call' = "tried"
  /\ UNCHANGED <<job, attempt, needed, buffer, got, string, heap>>

\* The second call.
Fill ==
  LET text == Text(Renderer, ReadRequest)
      n    == Len(text)
  IN  /\ call = "fill"
      /\ buffer' = IF Fits(n, buffer) THEN Written(text, buffer) ELSE buffer
      /\ got' = IF Fits(n, buffer) THEN n ELSE NotOK
      /\ call' = "wrap"
      /\ UNCHANGED <<job, attempt, needed, string, heap, refused>>

\* OK: the bytes that were got become a string.
Wrap ==
  /\ call = "wrap"
  /\ string' = IF got = NotOK THEN Nil ELSE [i \in 1..got |-> buffer[i]]
  /\ call' = "free"
  /\ UNCHANGED <<job, attempt, needed, buffer, got, heap, refused>>

\* OK, but no memory for the string.
NoString ==
  /\ call = "wrap"
  /\ got # NotOK
  /\ refused' = refused \cup {Renderer}
  /\ call' = "free"
  /\ UNCHANGED <<job, attempt, needed, buffer, got, string, heap>>

Free ==
  /\ call = "free"
  /\ heap' = heap \ {"buffer"}
  /\ buffer' = <<>>
  /\ got' = NotOK
  /\ call' = "tried"
  /\ UNCHANGED <<job, attempt, needed, string, refused>>

\* The coloured renderer made nothing: the plain one.
FallBack ==
  /\ call = "tried"
  /\ string = Nil /\ attempt < Len(Order)
  /\ attempt' = attempt + 1
  /\ call' = "probe"
  /\ UNCHANGED <<job, needed, buffer, got, string, heap, refused>>

Release ==
  /\ call = "tried"
  /\ string # Nil \/ attempt = Len(Order)
  /\ heap' = heap \ {"argv", "lens"}
  /\ call' = "drawn"
  /\ UNCHANGED <<job, attempt, needed, buffer, got, string, refused>>

\* The plugin goes on with the string, or without.
TakeString ==
  /\ call = "drawn"
  /\ call' = "idle"
  /\ string' = Nil
  /\ UNCHANGED <<job, attempt, needed, buffer, got, heap, refused>>

CallStep ==
  \/ Arrays \/ NoArrays
  \/ Probe \/ Buffer \/ NoBuffer \/ Fill \/ Wrap \/ NoString \/ Free
  \/ FallBack \/ Release \/ TakeString

CallNext ==
  \/ \E h \in Helpers, c \in BOOLEAN, q \in Requests : BeginCall(h, c, q)
  \/ CallStep

CallSpec == CallInit /\ [][CallNext]_callVars

-----------------------------------------------------------------------------
CallTypeOK ==
  /\ call \in {"idle", "arrays", "probe", "buffer", "fill", "wrap", "free", "tried", "drawn"}
  /\ job \in [helper : Helpers, color : BOOLEAN, request : Requests]
  /\ attempt \in DOMAIN Order
  /\ needed \in Nat

\* Every block is held exactly while it is used, on every path: what a helper that
\* is out of memory leaves behind would stay in a sudo process that runs for hours.
NothingLeaks ==
  heap = (IF HasArrays(job.helper, job.request) /\ call \notin {"idle", "arrays", "drawn"}
          THEN {"argv", "lens"} ELSE {})
         \cup (IF call \in {"fill", "wrap", "free"} THEN {"buffer"} ELSE {})

\* The buffer has the slots of the drawing and of its NUL, no write goes past them,
\* and a renderer is behind only those that could not have their memory.
InBounds ==
  LET text == Text(Renderer, job.request)
      n    == Len(text)
      made == [i \in 1..n |-> text[i]]
      before == {Order[k] : k \in 1..(attempt - 1)}
  IN  /\ call \in {"arrays", "probe", "buffer", "fill", "wrap"} => refused = before
      /\ call \in {"free", "tried"} =>
           \/ string = made /\ refused = before
           \/ string = Nil /\ refused = before \cup {Renderer}
      /\ call = "drawn" =>
           \/ string = made /\ refused = before
           \/ string = Nil /\ (refused = {"arrays"} \/ refused = {Order[k] : k \in DOMAIN Order})
      /\ call \notin {"free", "tried", "drawn"} => string = Nil
      /\ call \in {"buffer", "fill", "wrap", "free"} => needed = n
      /\ call \notin {"fill", "wrap", "free"} => buffer = <<>>
      /\ call = "fill" => buffer = [i \in 1..(n + 1) |-> Junk]
      /\ call \in {"wrap", "free"} =>
           buffer = [i \in 1..(n + 1) |-> IF i <= n THEN text[i] ELSE 0]
      /\ got = IF call \in {"wrap", "free"} THEN n ELSE NotOK
      /\ call # "idle" => Suits(job.helper, job.request)
      /\ call = "arrays" => HasArrays(job.helper, job.request) /\ attempt = 1

\* The inductive invariant of the boundary: the types, the blocks and the buffer.
CallInv == CallTypeOK /\ NothingLeaks /\ InBounds

\* The plugin is given the whole drawing of the first renderer that got its memory,
\* byte for byte, or nothing when there was none for the arrays or for any: never a
\* beginning, never the plain line while the coloured one could be had.
Contract == INSTANCE EscapeContract WITH
  phase <- IF call \in {"idle", "drawn"} THEN call ELSE "drawing",
  outcome <- IF call = "drawn" THEN string ELSE Nil

DrawnWholeOrNotAtAll == Contract!Spec
=============================================================================
