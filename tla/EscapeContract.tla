--------------------------- MODULE EscapeContract ---------------------------
(***************************************************************************)
(* What a plugin may expect of a value it asks to have drawn, with no word *)
(* on buffers: the whole drawing of the first renderer that got its        *)
(* memory, in the order the plugin names them, or nothing.                 *)
(***************************************************************************)
EXTENDS Integers, Sequences

CONSTANTS
  Requests,       \* what can be asked for: a path and the tokens after it
  Text(_, _),     \* the bytes a renderer draws for a request
  Helpers,        \* the plugins' functions that ask
  Attempts(_, _), \* the renderers a helper names, in order, with colour or without
  Suits(_, _),    \* whether a helper makes such a request
  Nil             \* no string

VARIABLES
  phase,    \* idle, drawing, drawn
  job,      \* who asked for what
  refused,  \* what there was no memory for: the arrays, or a renderer's string
  outcome   \* what the plugin was given

vars == <<phase, job, refused, outcome>>

Init ==
  /\ phase = "idle"
  /\ job \in [helper : Helpers, color : BOOLEAN, request : Requests]
  /\ refused = {} /\ outcome = Nil

Ask(h, c, q) ==
  /\ phase = "idle" /\ phase' = "drawing"
  /\ job' = [helper |-> h, color |-> c, request |-> q]
  /\ refused' = {} /\ outcome' = Nil

\* No memory for the arrays of tokens: nothing is drawn.
NoArrays ==
  /\ phase = "drawing" /\ phase' = "drawn"
  /\ refused' = {"arrays"} /\ outcome' = Nil
  /\ UNCHANGED job

NoMemory(renderer) ==
  /\ phase = "drawing"
  /\ refused' = refused \cup {renderer}
  /\ UNCHANGED <<phase, job, outcome>>

\* The whole drawing of the i-th renderer: none before it got its memory.
Deliver(i) ==
  LET order == Attempts(job.helper, job.color)
  IN  /\ phase = "drawing" /\ phase' = "drawn"
      /\ i \in DOMAIN order
      /\ refused = {order[k] : k \in 1..(i - 1)}
      /\ outcome' = Text(order[i], job.request)
      /\ UNCHANGED <<job, refused>>

\* Nothing, and only when there was no memory for any of the renderers.
DeliverNothing ==
  LET order == Attempts(job.helper, job.color)
  IN  /\ phase = "drawing" /\ phase' = "drawn"
      /\ refused = {order[k] : k \in DOMAIN order}
      /\ outcome' = Nil
      /\ UNCHANGED <<job, refused>>

Take ==
  /\ phase = "drawn" /\ phase' = "idle"
  /\ outcome' = Nil
  /\ UNCHANGED <<job, refused>>

Next ==
  \/ \E h \in Helpers, c \in BOOLEAN, q \in Requests : Suits(h, q) /\ Ask(h, c, q)
  \/ NoArrays
  \/ \E i \in 1..2 : /\ i \in DOMAIN Attempts(job.helper, job.color)
                     /\ NoMemory(Attempts(job.helper, job.color)[i])
  \/ \E i \in 1..2 : Deliver(i)
  \/ DeliverNothing
  \/ Take

Spec == Init /\ [][Next]_vars
=============================================================================
