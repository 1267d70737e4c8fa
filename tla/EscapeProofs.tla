---------------------------- MODULE EscapeProofs ----------------------------
(***************************************************************************)
(* Theorems about escape_core.  Its drawings, for values of any length: a  *)
(* reader who undoes the escapes has the value back, and the deploy        *)
(* helper's own decoder and escaper draw the same.  Its lines, for any     *)
(* number of tokens: a shell reads the command back, the colours take      *)
(* nothing from the plain line and add nothing to it, and a terminal shows *)
(* every character in the one style of its mark and its role.  Its C       *)
(* boundary, for drawings of any length: the buffer always has room for    *)
(* them, nothing leaks, and a plugin is given the whole drawing or, for    *)
(* want of memory, nothing.                                                *)
(*                                                                         *)
(* What a drawing is and how it is read back are recursive functions, and  *)
(* what is proved of them is proved by induction on a set of numbers: a    *)
(* set that holds 0 and n + 1 whenever it holds n holds every number,      *)
(* because < is well-founded.                                              *)
(***************************************************************************)
EXTENDS EscapeCalls, WellFoundedInduction, SequenceTheorems, TLAPS

-----------------------------------------------------------------------------
(* The C boundary.                                                         *)

\* A helper names one or two renderers.
LEMMA OrderShape ==
  ASSUME NEW h \in Helpers, NEW c \in BOOLEAN
  PROVE  /\ Attempts(h, c) \in Seq(Renderers)
         /\ Len(Attempts(h, c)) \in {1, 2}
         /\ DOMAIN Attempts(h, c) = 1..Len(Attempts(h, c))
         /\ \A i, k \in DOMAIN Attempts(h, c) : Attempts(h, c)[i] = Attempts(h, c)[k] => i = k
<1>1. \E a \in Renderers :
        Attempts(h, c) = <<a>> \/ (a # "plain" /\ Attempts(h, c) = <<a, "plain">>)
  <2>1. CASE h = "escape"
    BY <2>1 DEF Attempts, Renderers
  <2>2. CASE h = "sheet line"
    BY <2>2 DEF Attempts, Renderers
  <2>3. CASE h = "input line"
    BY <2>3 DEF Attempts, Renderers
  <2>4. CASE h = "execute line"
    BY <2>4 DEF Attempts, Renderers
  <2>5. QED
    BY <2>1, <2>2, <2>3, <2>4 DEF Helpers
<1>2. PICK a \in Renderers :
        Attempts(h, c) = <<a>> \/ (a # "plain" /\ Attempts(h, c) = <<a, "plain">>)
  BY <1>1
<1>3. "plain" \in Renderers
  BY DEF Renderers
<1>4. CASE Attempts(h, c) = <<a>>
  BY <1>2, <1>4
<1>5. CASE a # "plain" /\ Attempts(h, c) = <<a, "plain">>
  BY <1>2, <1>3, <1>5
<1>6. QED
  BY <1>2, <1>4, <1>5

\* A drawing is the function of its slots that the string is made of.
LEMMA TextIsFunction ==
  ASSUME NEW r \in Renderers, NEW q \in Requests
  PROVE  /\ Len(Text(r, q)) \in Nat
         /\ Text(r, q) = [i \in 1..Len(Text(r, q)) |-> Text(r, q)[i]]
         /\ Text(r, q) # Nil
BY TextAssumption

LEMMA InitInv == CallInit => CallInv
<1> SUFFICES ASSUME CallInit PROVE CallInv
  OBVIOUS
<1>1. job \in [helper : Helpers, color : BOOLEAN, request : Requests]
  <2>1. \E j \in [helper : Helpers, color : BOOLEAN, request : Requests] : TRUE
    <3>1. PICK q \in Requests : TRUE
      BY RequestsAssumption
    <3>2. [helper |-> "escape", color |-> TRUE, request |-> q]
            \in [helper : Helpers, color : BOOLEAN, request : Requests]
      BY DEF Helpers
    <3>3. QED
      BY <3>2
  <2>2. QED
    BY <2>1 DEF CallInit
<1>2. attempt \in DOMAIN Order
  BY <1>1, OrderShape DEF CallInit, Order
<1>3. QED
  BY <1>1, <1>2 DEF CallInit, CallInv, CallTypeOK, NothingLeaks, InBounds

\* The renderers before the next attempt are those before this one, and this one.
LEMMA BeforeNext ==
  ASSUME NEW order, NEW k \in Nat, k >= 1
  PROVE  {order[i] : i \in 1..((k + 1) - 1)} = {order[i] : i \in 1..(k - 1)} \cup {order[k]}
<1>1. 1..((k + 1) - 1) = 1..(k - 1) \cup {k}
  OBVIOUS
<1>2. QED
  BY <1>1

\* Within a call the helper's renderers and what is read of its request are known.
LEMMA InCall ==
  ASSUME CallTypeOK
  PROVE  /\ job.request \in Requests /\ job.helper \in Helpers /\ job.color \in BOOLEAN
         /\ DOMAIN Order = 1..Len(Order) /\ Len(Order) \in {1, 2}
         /\ attempt \in 1..Len(Order)
         /\ Renderer \in Renderers
         /\ Len(Text(Renderer, job.request)) \in Nat
         /\ Text(Renderer, job.request)
              = [i \in 1..Len(Text(Renderer, job.request)) |-> Text(Renderer, job.request)[i]]
         /\ Text(Renderer, job.request) # Nil
<1>1. job.request \in Requests /\ job.helper \in Helpers /\ job.color \in BOOLEAN
  BY DEF CallTypeOK
<1>2. /\ Order \in Seq(Renderers) /\ DOMAIN Order = 1..Len(Order) /\ Len(Order) \in {1, 2}
  BY <1>1, OrderShape DEF Order
<1>3. attempt \in 1..Len(Order) /\ Renderer \in Renderers
  BY <1>2 DEF CallTypeOK, Renderer
<1>4. QED
  BY <1>1, <1>2, <1>3, TextIsFunction

\* What the callee reads is what was asked, whether or not there are arrays.
LEMMA ReadsTheRequest ==
  ASSUME CallInv, call \in {"probe", "fill"}
  PROVE  ReadRequest = job.request
<1>1. CASE HasArrays(job.helper, job.request)
  BY <1>1 DEF CallInv, NothingLeaks, ReadRequest
<1>2. CASE ~HasArrays(job.helper, job.request)
  <2>1. job.request.argv = <<>>
    BY <1>2, InCall DEF CallInv, InBounds, Suits, HasArrays, Helpers
  <2>2. job.request = [job.request EXCEPT !.argv = <<>>]
    BY <2>1, InCall, RequestsAssumption DEF CallInv
  <2>3. QED
    BY <2>2 DEF ReadRequest
<1>3. QED
  BY <1>1, <1>2

LEMMA NextInv == CallInv /\ [CallNext]_callVars => CallInv'
<1> SUFFICES ASSUME CallInv, [CallNext]_callVars PROVE CallInv'
  OBVIOUS
<1> USE DEF CallInv
<1>0. /\ Len(Order) \in {1, 2} /\ attempt \in 1..Len(Order) /\ DOMAIN Order = 1..Len(Order)
      /\ Len(Text(Renderer, job.request)) \in Nat
  BY InCall
<1>1. ASSUME NEW h \in Helpers, NEW c \in BOOLEAN, NEW q \in Requests, BeginCall(h, c, q)
      PROVE  CallInv'
  <2>1. /\ job' = [helper |-> h, color |-> c, request |-> q]
        /\ job' \in [helper : Helpers, color : BOOLEAN, request : Requests]
        /\ call' \in {"arrays", "probe"}
    BY <1>1 DEF BeginCall
  <2>2. attempt' \in DOMAIN Order'
    BY <1>1, <2>1, OrderShape DEF BeginCall, Order
  <2>3. CallTypeOK'
    BY <1>1, <2>1, <2>2 DEF BeginCall, CallTypeOK
  <2>4. NothingLeaks'
    BY <1>1, <2>1 DEF BeginCall, NothingLeaks
  <2>5. {Order[k] : k \in 1..(attempt - 1)}' = {}
    BY <1>1 DEF BeginCall
  <2>6. InBounds'
    BY <1>1, <2>1, <2>5 DEF BeginCall, InBounds
  <2>7. QED
    BY <2>3, <2>4, <2>6
<1>2. CASE Arrays
  BY <1>2 DEF Arrays, CallTypeOK, NothingLeaks, InBounds, Order, Renderer
<1>3. CASE NoArrays
  BY <1>3 DEF NoArrays, CallTypeOK, NothingLeaks, InBounds, Order, Renderer
<1>4. CASE Probe
  <2>1. ReadRequest = job.request
    BY <1>4, ReadsTheRequest DEF Probe
  <2>2. QED
    BY <1>0, <1>4, <2>1 DEF Probe, CallTypeOK, NothingLeaks, InBounds, Order, Renderer
<1>5. CASE Buffer
  BY <1>0, <1>5 DEF Buffer, CallTypeOK, NothingLeaks, InBounds, Order, Renderer
<1>6. CASE NoBuffer
  BY <1>0, <1>6 DEF NoBuffer, CallTypeOK, NothingLeaks, InBounds, Order, Renderer
<1>7. CASE Fill
  <2>1. ReadRequest = job.request
    BY <1>7, ReadsTheRequest DEF Fill
  <2> DEFINE text == Text(Renderer, job.request)
             n    == Len(text)
  <2>2. n \in Nat /\ buffer = [i \in 1..(n + 1) |-> Junk]
    BY <1>0, <1>7 DEF Fill, InBounds
  <2>3. Len(buffer) = n + 1
    BY <2>2
  <2>4. Fits(n, buffer)
    BY <2>2, <2>3 DEF Fits
  <2>5. Written(text, buffer) = [i \in 1..(n + 1) |-> IF i <= n THEN text[i] ELSE 0]
    <3>1. 1..(n + 1) \cup 1..Len(buffer) = 1..(n + 1)
      BY <2>3
    <3>2. \A i \in 1..(n + 1) : ~(i <= n) => i = n + 1
      BY <2>2
    <3>3. QED
      BY <3>1, <3>2 DEF Written
  <2>6. buffer' = [i \in 1..(n + 1) |-> IF i <= n THEN text[i] ELSE 0] /\ got' = n
    BY <1>7, <2>1, <2>4, <2>5 DEF Fill
  <2>7. text' = text
    BY <1>7 DEF Fill, Order, Renderer
  <2>8. QED
    BY <1>7, <2>6, <2>7 DEF Fill, CallTypeOK, NothingLeaks, InBounds, Order, Renderer
<1>8. CASE Wrap
  <2> DEFINE text == Text(Renderer, job.request)
             n    == Len(text)
  <2>1. /\ n \in Nat /\ got = n
        /\ buffer = [i \in 1..(n + 1) |-> IF i <= n THEN text[i] ELSE 0]
    BY <1>0, <1>8 DEF Wrap, InBounds
  <2>2. string' = [i \in 1..n |-> buffer[i]]
    BY <1>8, <2>1 DEF Wrap, NotOK
  <2>3. string' = [i \in 1..n |-> text[i]]
    BY <2>1, <2>2
  <2>4. text' = text
    BY <1>8 DEF Wrap, Order, Renderer
  <2>5. QED
    BY <1>8, <2>3, <2>4 DEF Wrap, CallTypeOK, NothingLeaks, InBounds, Order, Renderer
<1>9. CASE NoString
  BY <1>9 DEF NoString, CallTypeOK, NothingLeaks, InBounds, Order, Renderer
<1>10. CASE Free
  BY <1>10 DEF Free, CallTypeOK, NothingLeaks, InBounds, Order, Renderer
<1>11. CASE FallBack
  <2>1. Order' = Order /\ attempt' = attempt + 1 /\ attempt' \in 1..Len(Order)
    BY <1>0, <1>11 DEF FallBack, Order
  <2>2. CallTypeOK'
    BY <1>0, <1>11, <2>1 DEF FallBack, CallTypeOK
  <2>3. NothingLeaks'
    BY <1>11 DEF FallBack, NothingLeaks
  <2>4. refused = {Order[k] : k \in 1..(attempt - 1)} \cup {Renderer}
    <3>1. Text(Renderer, job.request) # Nil /\ Text(Renderer, job.request)
              = [i \in 1..Len(Text(Renderer, job.request)) |-> Text(Renderer, job.request)[i]]
      BY InCall
    <3>2. QED
      BY <1>11, <3>1 DEF FallBack, InBounds
  <2>5. refused' = {Order[k] : k \in 1..(attempt - 1)}'
    <3>1. {Order[k] : k \in 1..((attempt + 1) - 1)}
            = {Order[k] : k \in 1..(attempt - 1)} \cup {Order[attempt]}
      BY <1>0, BeforeNext
    <3>2. QED
      BY <1>11, <2>1, <2>4, <3>1 DEF FallBack, Renderer
  <2>6. InBounds'
    BY <1>11, <2>1, <2>5 DEF FallBack, InBounds
  <2>7. QED
    BY <2>2, <2>3, <2>6
<1>12. CASE Release
  <2>1. {Order[k] : k \in 1..(attempt - 1)} \cup {Renderer} = {Order[k] : k \in DOMAIN Order}
          \/ attempt # Len(Order)
    <3>1. CASE attempt = Len(Order)
      <4>1. {Order[k] : k \in 1..((attempt + 1) - 1)}
              = {Order[k] : k \in 1..(attempt - 1)} \cup {Order[attempt]}
        BY <1>0, BeforeNext
      <4>2. 1..((attempt + 1) - 1) = DOMAIN Order
        BY <1>0, <3>1
      <4>3. QED
        BY <4>1, <4>2 DEF Renderer
    <3>2. QED
      BY <3>1
  <2>2. CallTypeOK' /\ NothingLeaks'
    BY <1>12 DEF Release, CallTypeOK, NothingLeaks, Order
  <2>3. InBounds'
    BY <1>0, <1>12, <2>1 DEF Release, InBounds, Order, Renderer
  <2>4. QED
    BY <2>2, <2>3
<1>13. CASE TakeString
  BY <1>13 DEF TakeString, CallTypeOK, NothingLeaks, InBounds, Order, Renderer
<1>14. CASE UNCHANGED callVars
  BY <1>14 DEF callVars, CallTypeOK, NothingLeaks, InBounds, Order, Renderer
<1>15. QED
  BY <1>1, <1>2, <1>3, <1>4, <1>5, <1>6, <1>7, <1>8, <1>9, <1>10, <1>11, <1>12, <1>13, <1>14
     DEF CallNext, CallStep

\* Whatever is drawn and whichever allocation is refused, the boundary is in order.
THEOREM CallsAreInOrder == CallSpec => []CallInv
BY InitInv, NextInv, PTL DEF CallSpec

\* No allocation a helper makes outlives its call, whichever one is refused.
THEOREM NothingIsLeaked == CallSpec => []NothingLeaks
BY CallsAreInOrder, PTL DEF CallInv

-----------------------------------------------------------------------------
LEMMA ContractStep == CallInv /\ [CallNext]_callVars => [Contract!Next]_Contract!vars
<1> SUFFICES ASSUME CallInv, [CallNext]_callVars PROVE [Contract!Next]_Contract!vars
  OBVIOUS
<1> USE DEF CallInv
<1>0. /\ Order = Attempts(job.helper, job.color) /\ DOMAIN Order = 1..Len(Order)
      /\ Len(Order) \in {1, 2} /\ attempt \in 1..Len(Order) /\ attempt \in 1..2
      /\ Renderer = Order[attempt]
      /\ Text(Renderer, job.request)
           = [i \in 1..Len(Text(Renderer, job.request)) |-> Text(Renderer, job.request)[i]]
      /\ Text(Renderer, job.request) # Nil
  BY InCall DEF Order, Renderer
<1>1. ASSUME NEW h \in Helpers, NEW c \in BOOLEAN, NEW q \in Requests, BeginCall(h, c, q)
      PROVE  Contract!Next
  <2>1. Contract!Ask(h, c, q)
    BY <1>1 DEF BeginCall, Contract!Ask
  <2>2. Suits(h, q)
    BY <1>1 DEF BeginCall
  <2>3. QED
    BY <2>1, <2>2 DEF Contract!Next
<1>2. CASE Arrays
  BY <1>2 DEF Arrays, Contract!vars
<1>3. CASE NoArrays
  BY <1>3 DEF NoArrays, Contract!NoArrays, Contract!Next, InBounds
<1>4. CASE Probe
  BY <1>4 DEF Probe, Contract!vars
<1>5. CASE Buffer
  BY <1>5 DEF Buffer, Contract!vars
<1>6. CASE NoBuffer \/ NoString
  <2>1. Contract!NoMemory(Attempts(job.helper, job.color)[attempt])
    BY <1>0, <1>6 DEF NoBuffer, NoString, Contract!NoMemory
  <2>2. QED
    BY <1>0, <2>1 DEF Contract!Next
<1>7. CASE Fill
  BY <1>7 DEF Fill, Contract!vars
<1>8. CASE Wrap
  BY <1>8 DEF Wrap, Contract!vars
<1>9. CASE Free
  BY <1>9 DEF Free, Contract!vars
<1>10. CASE FallBack
  BY <1>10 DEF FallBack, Contract!vars
<1>11. CASE Release
  <2>1. CASE string # Nil
    <3>1. /\ string = Text(Order[attempt], job.request)
          /\ refused = {Order[k] : k \in 1..(attempt - 1)}
      BY <1>0, <1>11, <2>1 DEF Release, InBounds
    <3>2. Contract!Deliver(attempt)
      BY <1>0, <1>11, <3>1 DEF Release, Contract!Deliver
    <3>3. QED
      BY <1>0, <3>2 DEF Contract!Next
  <2>2. CASE string = Nil
    <3>1. attempt = Len(Order) /\ refused = {Order[k] : k \in 1..(attempt - 1)} \cup {Renderer}
      BY <1>0, <1>11, <2>2 DEF Release, InBounds
    <3>2. {Order[k] : k \in 1..((attempt + 1) - 1)}
            = {Order[k] : k \in 1..(attempt - 1)} \cup {Order[attempt]}
      BY <1>0, BeforeNext
    <3>3. 1..((attempt + 1) - 1) = DOMAIN Order
      BY <1>0, <3>1
    <3>4. refused = {Order[k] : k \in DOMAIN Order}
      BY <1>0, <3>1, <3>2, <3>3
    <3>5. Contract!DeliverNothing
      BY <1>0, <1>11, <2>2, <3>4 DEF Release, Contract!DeliverNothing
    <3>6. QED
      BY <3>5 DEF Contract!Next
  <2>3. QED
    BY <2>1, <2>2
<1>12. CASE TakeString
  BY <1>12 DEF TakeString, Contract!Take, Contract!Next
<1>13. CASE UNCHANGED callVars
  BY <1>13 DEF callVars, Contract!vars
<1>14. QED
  BY <1>1, <1>2, <1>3, <1>4, <1>5, <1>6, <1>7, <1>8, <1>9, <1>10, <1>11, <1>12, <1>13
     DEF CallNext, CallStep

\* For drawings of any length, a plugin is given the whole drawing of the first
\* renderer that got its memory, or nothing when none did.
THEOREM CallsImplementContract == CallSpec => DrawnWholeOrNotAtAll
<1>1. CallInit => Contract!Init
  BY InitInv DEF CallInit, CallInv, CallTypeOK, Contract!Init
<1>2. QED
  BY <1>1, CallsAreInOrder, ContractStep, PTL DEF CallSpec, DrawnWholeOrNotAtAll, Contract!Spec

-----------------------------------------------------------------------------
(* Induction, and what a recursive definition needs.                       *)

\* A set of numbers that is not empty has a least one.
LEMMA Least ==
  ASSUME NEW T, T \subseteq Nat, T # {}
  PROVE  \E n \in T : \A m \in T : n <= m
<1>1. \E n \in T : \A m \in T : ~ (<<m, n>> \in OpToRel(<, Nat))
  BY NatLessThanWellFounded, WFMin
<1>2. PICK n \in T : \A m \in T : ~ (<<m, n>> \in OpToRel(<, Nat))
  BY <1>1
<1>3. \A m \in T : m \in Nat /\ n \in Nat /\ ~(m < n)
  BY <1>2 DEF OpToRel
<1>4. \A m \in T : n <= m
  BY <1>3
<1>5. QED  BY <1>4

\* Induction, on a set.
LEMMA Induction ==
  ASSUME NEW S, 0 \in S, \A n \in Nat : n \in S => n + 1 \in S
  PROVE  Nat \subseteq S
<1> SUFFICES ASSUME Nat \ S # {} PROVE FALSE
  OBVIOUS
<1>1. PICK n \in Nat \ S : \A m \in Nat \ S : n <= m
  BY Least
<1>2. n # 0 /\ n - 1 \in Nat
  BY <1>1
<1>3. n - 1 \in S
  BY <1>1, <1>2
<1>4. (n - 1) + 1 \in S
  BY <1>2, <1>3
<1>5. QED  BY <1>1, <1>4

\* H[i][f] is in S, and depends on f below the rank of i only.
LooksDown(D, S, rank, H) ==
  /\ \A i \in D : \A f \in [D -> S] : H[i][f] \in S
  /\ \A i \in D : \A f, g \in [D -> S] :
       (\A j \in D : rank[j] < rank[i] => f[j] = g[j]) => H[i][f] = H[i][g]

Solution(f, D, H) == \A i \in D : f[i] = H[i][f]
Solvable(D, S, H) == \E f \in [D -> S] : Solution(f, D, H)

\* A function that is defined by itself at lower ranks exists.
LEMMA Recursion ==
  ASSUME NEW D, NEW S, S # {}, NEW N \in Nat, NEW rank \in [D -> 0..N], NEW H,
         LooksDown(D, S, rank, H)
  PROVE  Solvable(D, S, H)
<1> DEFINE Below(f, k) == \A i \in D : rank[i] < k => f[i] = H[i][f]
           Good == {k \in Nat : \E f \in [D -> S] : Below(f, k)}
<1>1. 0 \in Good
  <2>1. PICK e \in S : TRUE
    OBVIOUS
  <2>2. [i \in D |-> e] \in [D -> S]
    OBVIOUS
  <2>3. \A i \in D : rank[i] \in Nat /\ ~(rank[i] < 0)
    OBVIOUS
  <2>4. Below([i \in D |-> e], 0)
    BY <2>3
  <2>5. QED  BY <2>2, <2>4
<1>2. ASSUME NEW k \in Nat, k \in Good
      PROVE  k + 1 \in Good
  <2>1. PICK f \in [D -> S] : Below(f, k)
    BY <1>2
  <2> DEFINE g == [i \in D |-> IF rank[i] = k THEN H[i][f] ELSE f[i]]
  <2>2. g \in [D -> S]
    <3>1. \A i \in D : H[i][f] \in S
      BY DEF LooksDown
    <3>2. QED  BY <3>1
  <2>3. \A j \in D : rank[j] < k => g[j] = f[j]
    OBVIOUS
  <2>4. ASSUME NEW i \in D, rank[i] < k + 1
        PROVE  g[i] = H[i][g]
    <3>1. \A j \in D : rank[j] < rank[i] => g[j] = f[j]
      BY <2>3, <2>4
    <3>2. H[i][g] = H[i][f]
      BY <2>2, <3>1 DEF LooksDown
    <3>3. CASE rank[i] = k
      BY <3>2, <3>3
    <3>4. CASE rank[i] # k
      <4>1. \A r \in 0..N : r < k + 1 /\ r # k => r < k
        OBVIOUS
      <4>2. rank[i] < k
        BY <2>4, <3>4, <4>1
      <4>3. QED  BY <2>1, <2>3, <3>2, <4>2
    <3>5. QED  BY <3>3, <3>4
  <2>5. Below(g, k + 1)
    BY <2>4
  <2> HIDE DEF g
  <2>6. \E h \in [D -> S] : Below(h, k + 1)
    BY <2>2, <2>5
  <2>7. QED  BY <2>6
<1> HIDE DEF Good
<1>3. Nat \subseteq Good
  BY <1>1, <1>2, Induction
<1>4. N + 1 \in Good
  BY <1>3
<1>5. PICK f \in [D -> S] : Below(f, N + 1)
  BY <1>4 DEF Good
<1>6. \A r \in 0..N : r < N + 1
  OBVIOUS
<1>7. Solution(f, D, H)
  BY <1>5, <1>6 DEF Solution
<1>8. QED  BY <1>7 DEF Solvable

-----------------------------------------------------------------------------
(* Sequences one after the other.                                          *)

\* Concatenation is associative, of three sequences.
Groups(a, b, c) == (a \o b) \o c = a \o (b \o c)

LEMMA Regroup ==
  ASSUME NEW R, NEW a \in Seq(R), NEW b \in Seq(R), NEW c \in Seq(R)
  PROVE  Groups(a, b, c)
BY ConcatAssociative DEF Groups

Recurs(F, s) == F = [i \in 1..Len(s) |-> IF i = 1 THEN s[i] ELSE F[i - 1] \o s[i]]

LEMMA FlattenUnfolds ==
  ASSUME NEW s, Len(s) # 0
  PROVE  FlattenSeq(s) = (CHOOSE F : Recurs(F, s))[Len(s)]
BY DEF FlattenSeq, Recurs

LEMMA FlattenRecurs ==
  ASSUME NEW R, NEW s \in Seq(Seq(R)), Len(s) # 0
  PROVE  \E F : Recurs(F, s) /\ FlattenSeq(s) = F[Len(s)]
<1> DEFINE D == 1..Len(s)
           S == Seq(R)
           H == [i \in D |-> [f \in [D -> S] |-> IF i = 1 THEN s[i] ELSE f[i - 1] \o s[i]]]
           rank == [i \in D |-> i]
<1>1. Len(s) \in Nat /\ \A i \in D : s[i] \in S /\ i \in Nat
  OBVIOUS
<1>2. ASSUME NEW i \in D, NEW f \in [D -> S]
      PROVE  (IF i = 1 THEN s[i] ELSE f[i - 1] \o s[i]) \in S
  <2>1. s[i] \in S
    BY <1>1
  <2>2. CASE i # 1
    <3>1. i - 1 \in D
      BY <1>1, <2>2
    <3>2. f[i - 1] \in S
      BY <3>1
    <3>3. QED  BY <2>1, <2>2, <3>2
  <2>3. QED  BY <2>1, <2>2
<1>3. LooksDown(D, S, rank, H)
  <2>1. \A i \in D : \A f \in [D -> S] : H[i][f] \in S
    BY <1>2
  <2>2. ASSUME NEW i \in D, NEW f \in [D -> S], NEW g \in [D -> S],
               \A j \in D : rank[j] < rank[i] => f[j] = g[j]
        PROVE  H[i][f] = H[i][g]
    <3>1. CASE i # 1
      <4>1. i - 1 \in D /\ rank[i - 1] < rank[i]
        BY <1>1, <3>1
      <4>2. f[i - 1] = g[i - 1]
        BY <2>2, <4>1
      <4>3. QED  BY <3>1, <4>2
    <3>2. QED  BY <3>1
  <2> HIDE DEF H
  <2>3. QED  BY <2>1, <2>2 DEF LooksDown
<1>4. \A i \in D, f \in [D -> S] : H[i][f] = IF i = 1 THEN s[i] ELSE f[i - 1] \o s[i]
  OBVIOUS
<1>5. rank \in [D -> 0..Len(s)] /\ S # {}
  BY <1>1
<1> HIDE DEF H, rank, S, D
<1>6. Solvable(D, S, H)
  BY <1>1, <1>3, <1>5, Recursion
<1>7. PICK F \in [D -> S] : Solution(F, D, H)
  BY <1>6 DEF Solvable
<1>8. Recurs(F, s)
  <2>1. \A i \in D : F[i] = IF i = 1 THEN s[i] ELSE F[i - 1] \o s[i]
    BY <1>4, <1>7 DEF Solution
  <2>2. F = [i \in D |-> IF i = 1 THEN s[i] ELSE F[i - 1] \o s[i]]
    BY <2>1
  <2>3. QED  BY <2>2 DEF Recurs, D
<1>9. Recurs(CHOOSE G : Recurs(G, s), s)
  BY <1>8
<1>10. QED  BY <1>9, FlattenUnfolds

\* Two sequences as one.
Joins(ab, a, b) ==
  /\ Len(ab) = Len(a) + Len(b)
  /\ \A k \in 1..Len(a) : ab[k] = a[k]
  /\ \A k \in 1..Len(b) : ab[Len(a) + k] = b[k]

LEMMA Joined ==
  ASSUME NEW R, NEW a \in Seq(R), NEW b \in Seq(R)
  PROVE  a \o b \in Seq(R) /\ Joins(a \o b, a, b)
<1>1. /\ a \o b \in Seq(R) /\ Len(a \o b) = Len(a) + Len(b)
      /\ \A k \in 1..(Len(a) + Len(b)) :
           (a \o b)[k] = IF k <= Len(a) THEN a[k] ELSE b[k - Len(a)]
  BY ConcatProperties
<1>2. Len(a) \in Nat /\ Len(b) \in Nat
  OBVIOUS
<1>3. \A k \in 1..Len(b) : (a \o b)[Len(a) + k] = b[k]
  <2> SUFFICES ASSUME NEW k \in 1..Len(b)
               PROVE  (a \o b)[Len(a) + k] = b[k]
    OBVIOUS
  <2>1. Len(a) + k \in 1..(Len(a) + Len(b)) /\ ~(Len(a) + k <= Len(a))
        /\ (Len(a) + k) - Len(a) = k
    BY <1>2
  <2>2. QED  BY <1>1, <2>1
<1>4. \A k \in 1..Len(a) : (a \o b)[k] = a[k]
  BY <1>1, <1>2
<1>5. QED  BY <1>1, <1>3, <1>4 DEF Joins

\* t is the sequences of s one after the other: off[k] of its items are of the first k.
Laid(off, s, t) ==
  /\ off \in [0..Len(s) -> Nat] /\ off[0] = 0
  /\ \A k \in 1..Len(s) : off[k] = off[k - 1] + Len(s[k])
  /\ Len(t) = off[Len(s)]
  /\ \A k \in 1..Len(s) : \A j \in 1..Len(s[k]) : t[off[k - 1] + j] = s[k][j]

\* The first k sequences.
LaidTo(F, R, off, s, k) ==
  /\ F[k] \in Seq(R) /\ Len(F[k]) = off[k]
  /\ \A h \in 1..k : \A j \in 1..Len(s[h]) :
       off[h - 1] + j \in 1..off[k] /\ F[k][off[h - 1] + j] = s[h][j]

LEMMA LaidOneMore ==
  ASSUME NEW R, NEW s \in Seq(Seq(R)), NEW F, NEW off, NEW k \in Nat, k + 1 \in 1..Len(s),
         k >= 1, LaidTo(F, R, off, s, k), F[k + 1] = F[k] \o s[k + 1], off[k + 1] = Len(F[k + 1]),
         \A h \in 1..(k + 1) : off[h - 1] \in Nat
  PROVE  LaidTo(F, R, off, s, k + 1)
<1> DEFINE a == F[k]
           b == s[k + 1]
           ab == a \o b
<1>1. a \in Seq(R) /\ b \in Seq(R) /\ off[k] = Len(a)
  BY DEF LaidTo
<1>2. ab \in Seq(R)
  BY <1>1
<1>3. Len(ab) = Len(a) + Len(b)
  BY <1>1
<1>4. \A j \in 1..Len(a) : ab[j] = a[j]
  <2> HIDE DEF a, b
  <2>1. Joins(a \o b, a, b)
    BY <1>1, Joined
  <2>2. QED  BY <2>1 DEF Joins
<1>5. \A j \in 1..Len(b) : ab[Len(a) + j] = b[j]
  <2> HIDE DEF a, b
  <2>1. Joins(a \o b, a, b)
    BY <1>1, Joined
  <2>2. QED  BY <2>1 DEF Joins
<1>6. Len(a) \in Nat /\ Len(b) \in Nat
  BY <1>1
<1>7. F[k + 1] = ab /\ off[k + 1] = Len(ab)
  OBVIOUS
<1>8. \A h \in 1..k : \A j \in 1..Len(s[h]) :
        off[h - 1] + j \in 1..Len(a) /\ a[off[h - 1] + j] = s[h][j]
  BY <1>1 DEF LaidTo
<1> HIDE DEF a, b, ab
<1>9. ASSUME NEW h \in 1..(k + 1), NEW j \in 1..Len(s[h])
      PROVE  off[h - 1] + j \in 1..Len(ab) /\ ab[off[h - 1] + j] = s[h][j]
  <2>1. CASE h = k + 1
    <3>1. off[h - 1] = Len(a) /\ s[h] = b
      BY <1>1, <2>1 DEF b
    <3>2. Len(a) + j \in 1..Len(ab)
      BY <1>3, <1>6, <3>1
    <3>3. ab[Len(a) + j] = b[j]
      BY <1>5, <3>1
    <3>4. QED  BY <3>1, <3>2, <3>3
  <2>2. CASE h # k + 1
    <3>1. h \in 1..k
      BY <2>2
    <3>2. off[h - 1] + j \in 1..Len(a) /\ a[off[h - 1] + j] = s[h][j]
      BY <1>8, <3>1
    <3>3. off[h - 1] + j \in 1..Len(ab)
      <4>1. \A x \in 1..Len(a) : x \in 1..Len(ab)
        BY <1>3, <1>6
      <4>2. QED  BY <3>2, <4>1
    <3>4. QED  BY <1>4, <3>2, <3>3
  <2>3. QED  BY <2>1, <2>2
<1>10. QED  BY <1>2, <1>7, <1>9 DEF LaidTo

LEMMA FlattenIsLaid ==
  ASSUME NEW R, NEW s \in Seq(Seq(R))
  PROVE  FlattenSeq(s) \in Seq(R) /\ \E off : Laid(off, s, FlattenSeq(s))
<1>1. CASE Len(s) = 0
  <2> DEFINE off == [k \in 0..Len(s) |-> 0]
  <2>1. s = << >> /\ FlattenSeq(s) = s
    BY <1>1 DEF FlattenSeq
  <2>2. Laid(off, s, s)
    BY <1>1 DEF Laid
  <2>3. << >> \in Seq(R)
    OBVIOUS
  <2>4. QED  BY <2>1, <2>2, <2>3
<1>2. CASE Len(s) # 0
  <2>1. PICK F : Recurs(F, s) /\ FlattenSeq(s) = F[Len(s)]
    BY <1>2, FlattenRecurs
  <2>2. Len(s) \in Nat /\ Len(s) >= 1 /\ \A k \in 1..Len(s) : s[k] \in Seq(R)
    BY <1>2
  <2>3. F[1] = s[1] /\ \A k \in 2..Len(s) : F[k] = F[k - 1] \o s[k]
    <3>1. \A k \in 1..Len(s) : F[k] = IF k = 1 THEN s[k] ELSE F[k - 1] \o s[k]
      BY <2>1 DEF Recurs
    <3>2. 1 \in 1..Len(s) /\ \A k \in 2..Len(s) : k \in 1..Len(s) /\ k # 1
      BY <2>2
    <3>3. F[1] = s[1]
      BY <3>1, <3>2
    <3>4. \A k \in 2..Len(s) : F[k] = F[k - 1] \o s[k]
      BY <3>1, <3>2
    <3>5. QED  BY <3>3, <3>4
  <2> DEFINE off == [k \in 0..Len(s) |-> IF k = 0 THEN 0 ELSE Len(F[k])]
             Good == {k \in Nat : k + 1 \in 1..Len(s) =>
                                    /\ LaidTo(F, R, off, s, k + 1)
                                    /\ \A h \in 1..(k + 1) : off[h] \in Nat}
  <2>4. off[0] = 0 /\ \A k \in 1..Len(s) : off[k] = Len(F[k])
    BY <2>2
  <2> HIDE DEF off
  <2>5. 0 \in Good
    <3>1. F[1] \in Seq(R) /\ Len(F[1]) \in Nat /\ off[1] = Len(F[1])
      BY <2>2, <2>3, <2>4
    <3>2. \A j \in 1..Len(s[1]) : off[0] + j = j
      BY <2>4
    <3>3. LaidTo(F, R, off, s, 1)
      BY <2>3, <2>4, <3>1, <3>2 DEF LaidTo
    <3>4. QED  BY <3>1, <3>3
  <2>6. ASSUME NEW k \in Nat, k \in Good
        PROVE  k + 1 \in Good
    <3> SUFFICES ASSUME (k + 1) + 1 \in 1..Len(s)
                 PROVE  /\ LaidTo(F, R, off, s, (k + 1) + 1)
                        /\ \A h \in 1..((k + 1) + 1) : off[h] \in Nat
      OBVIOUS
    <3> DEFINE m == k + 1
    <3>1. m \in Nat /\ m >= 1 /\ m \in 1..Len(s) /\ m + 1 \in 2..Len(s) /\ (m + 1) - 1 = m
      BY <2>2
    <3>2. LaidTo(F, R, off, s, m) /\ \A h \in 1..m : off[h] \in Nat
      BY <2>6, <3>1
    <3> HIDE DEF m
    <3>3. F[m + 1] = F[m] \o s[m + 1] /\ off[m + 1] = Len(F[m + 1])
      <4>1. F[m + 1] = F[(m + 1) - 1] \o s[m + 1]
        BY <2>3, <3>1
      <4>2. m + 1 \in 1..Len(s)
        BY <2>2, <3>1
      <4>3. off[m + 1] = Len(F[m + 1])
        BY <2>4, <4>2
      <4>4. QED  BY <3>1, <4>1, <4>3
    <3>4. \A h \in 1..(m + 1) : off[h - 1] \in Nat
      <4>1. ASSUME NEW h \in 1..(m + 1)
            PROVE  off[h - 1] \in Nat
        <5>1. h - 1 = 0 \/ h - 1 \in 1..m
          BY <3>1
        <5>2. QED  BY <2>4, <3>2, <5>1
      <4>2. QED  BY <4>1
    <3>5. m + 1 \in 1..Len(s)
      BY <3>1
    <3>6. LaidTo(F, R, off, s, m + 1)
      BY <3>1, <3>2, <3>3, <3>4, <3>5, LaidOneMore
    <3>7. F[m + 1] \in Seq(R)
      BY <3>6 DEF LaidTo
    <3>8. off[m + 1] \in Nat
      <4>1. Len(F[m + 1]) \in Nat
        BY <3>7
      <4>2. QED  BY <3>3, <4>1
    <3>9. \A h \in 1..(m + 1) : h = m + 1 \/ h \in 1..m
      BY <3>1
    <3>10. QED  BY <3>2, <3>6, <3>8, <3>9 DEF m
  <2> HIDE DEF Good
  <2>7. \A k \in Nat : k \in Good
    BY <2>5, <2>6, Induction
  <2>8. \A k \in 1..Len(s) : LaidTo(F, R, off, s, k) /\ off[k] \in Nat
    <3>1. ASSUME NEW k \in 1..Len(s)
          PROVE  LaidTo(F, R, off, s, k) /\ off[k] \in Nat
      <4>1. k - 1 \in Nat /\ (k - 1) + 1 = k /\ k \in 1..k
        BY <2>2
      <4>2. QED  BY <2>7, <4>1 DEF Good
    <3>2. QED  BY <3>1
  <2>9. Len(s) \in 1..Len(s)
    BY <2>2
  <2>10. FlattenSeq(s) \in Seq(R) /\ Len(FlattenSeq(s)) = off[Len(s)]
    <3>1. LaidTo(F, R, off, s, Len(s))
      BY <2>8, <2>9
    <3>2. QED  BY <2>1, <3>1 DEF LaidTo
  <2>11. \A k \in 1..Len(s) : \A j \in 1..Len(s[k]) : FlattenSeq(s)[off[k - 1] + j] = s[k][j]
    <3>1. LaidTo(F, R, off, s, Len(s))
      BY <2>8, <2>9
    <3>2. QED  BY <2>1, <3>1 DEF LaidTo
  <2>12. \A k \in 1..Len(s) : off[k] = off[k - 1] + Len(s[k])
    <3>1. ASSUME NEW k \in 1..Len(s)
          PROVE  off[k] = off[k - 1] + Len(s[k])
      <4>1. CASE k = 1
        BY <2>2, <2>3, <2>4, <4>1
      <4>2. CASE k # 1
        <5>1. k \in 2..Len(s) /\ k - 1 \in 1..Len(s)
          BY <4>2
        <5>2. F[k] = F[k - 1] \o s[k]
          BY <2>3, <5>1
        <5>3. F[k - 1] \in Seq(R) /\ s[k] \in Seq(R)
          BY <2>2, <2>8, <5>1 DEF LaidTo
        <5>4. Len(F[k]) = Len(F[k - 1]) + Len(s[k])
          BY <5>2, <5>3
        <5>5. QED  BY <2>4, <5>1, <5>4
      <4>3. QED  BY <4>1, <4>2
    <3>2. QED  BY <3>1
  <2>13. off \in [0..Len(s) -> Nat]
    <3>1. \A k \in 0..Len(s) : k = 0 \/ k \in 1..Len(s)
      BY <2>2
    <3>2. \A k \in 0..Len(s) : off[k] \in Nat
      BY <2>4, <2>8, <3>1
    <3>3. off = [k \in 0..Len(s) |-> off[k]]
      BY DEF off
    <3>4. QED  BY <3>2, <3>3
  <2>14. Laid(off, s, FlattenSeq(s))
    BY <2>4, <2>10, <2>11, <2>12, <2>13 DEF Laid
  <2>15. QED  BY <2>10, <2>14
<1>3. QED  BY <1>1, <1>2

\* Every item is one of some sequence.
Covered(off, s, t) ==
  \A p \in 1..Len(t) :
    \E k \in 1..Len(s) : \E j \in 1..Len(s[k]) : p = off[k - 1] + j /\ t[p] = s[k][j]

LEMMA LaidCovers ==
  ASSUME NEW R, NEW s \in Seq(Seq(R)), NEW off, NEW t, Laid(off, s, t)
  PROVE  Covered(off, s, t)
<1> DEFINE At(p, k, j) == p = off[k - 1] + j /\ t[p] = s[k][j]
           Found(n) == \A p \in 1..off[n] :
                         \E k \in 1..Len(s) : \E j \in 1..Len(s[k]) : At(p, k, j)
           Good == {n \in Nat : n \in 0..Len(s) => Found(n)}
<1>1. /\ off \in [0..Len(s) -> Nat] /\ off[0] = 0 /\ Len(t) = off[Len(s)]
      /\ \A k \in 1..Len(s) : off[k] = off[k - 1] + Len(s[k])
      /\ \A k \in 1..Len(s) : \A j \in 1..Len(s[k]) : t[off[k - 1] + j] = s[k][j]
  BY DEF Laid
<1>2. Len(s) \in Nat /\ \A k \in 1..Len(s) : s[k] \in Seq(R)
  OBVIOUS
<1>3. 0 \in Good
  BY <1>1
<1>4. ASSUME NEW n \in Nat, n \in Good
      PROVE  n + 1 \in Good
  <2> HIDE DEF Found
  <2> SUFFICES ASSUME n + 1 \in 0..Len(s)
               PROVE  Found(n + 1)
    OBVIOUS
  <2> SUFFICES ASSUME NEW p \in 1..off[n + 1]
               PROVE  \E k \in 1..Len(s) : \E j \in 1..Len(s[k]) : At(p, k, j)
    BY DEF Found
  <2>1. n + 1 \in 1..Len(s) /\ n \in 0..Len(s) /\ (n + 1) - 1 = n
    BY <1>2
  <2>2. off[n] \in Nat /\ off[n + 1] = off[n] + Len(s[n + 1]) /\ Len(s[n + 1]) \in Nat
    <3>1. off[n] \in Nat
      BY <1>1, <2>1
    <3>2. off[n + 1] = off[(n + 1) - 1] + Len(s[n + 1])
      BY <1>1, <2>1
    <3>3. Len(s[n + 1]) \in Nat
      BY <1>2, <2>1
    <3>4. QED  BY <2>1, <3>1, <3>2, <3>3
  <2>3. CASE p <= off[n]
    <3>1. p \in 1..off[n]
      BY <2>2, <2>3
    <3>2. Found(n)
      BY <1>4, <2>1
    <3>3. QED  BY <3>1, <3>2 DEF Found
  <2>4. CASE ~(p <= off[n])
    <3> DEFINE j == p - off[n]
    <3>1. j \in 1..Len(s[n + 1]) /\ p = off[n] + j
      BY <2>2, <2>4
    <3> HIDE DEF j
    <3>2. At(p, n + 1, j)
      BY <1>1, <2>1, <3>1
    <3> HIDE DEF At
    <3>3. QED  BY <2>1, <3>1, <3>2
  <2>5. QED  BY <2>3, <2>4
<1> HIDE DEF Good
<1>5. Len(s) \in Good
  BY <1>2, <1>3, <1>4, Induction
<1>6. Len(s) \in 0..Len(s)
  BY <1>2
<1>7. QED  BY <1>1, <1>5, <1>6 DEF Good, Covered

-----------------------------------------------------------------------------
(* Hexadecimal digits: as the code writes them, and as a reader reads them. *)

HexDigits == (48..57) \cup (65..70)

LEMMA DigitReadsBack ==
  ASSUME NEW d \in 0..15
  PROVE  HexDigit(d) \in HexDigits /\ DigitOf(HexDigit(d)) = d /\ IsHexDigit(HexDigit(d))
<1>1. HexDigit(d) \in HexDigits /\ DigitOf(HexDigit(d)) = d
  BY DEF HexDigit, HexDigits, DigitOf
<1>2. \A c \in HexDigits : IsHexDigit(c)
  <2>1. \A c \in 48..57 : \E r \in {<<48, 57>>, <<65, 70>>, <<97, 102>>} : r[1] <= c /\ c <= r[2]
    OBVIOUS
  <2>2. \A c \in 65..70 : \E r \in {<<48, 57>>, <<65, 70>>, <<97, 102>>} : r[1] <= c /\ c <= r[2]
    OBVIOUS
  <2>3. QED  BY <2>1, <2>2 DEF IsHexDigit, Within, HexDigits
<1>3. QED  BY <1>1, <1>2

\* What reading the first n digits comes to.
Reads(v, digits) ==
  v = [n \in 0..Len(digits) |-> IF n = 0 THEN 0 ELSE v[n - 1] * 16 + DigitOf(digits[n])]

LEMMA ValueUnfolds ==
  ASSUME NEW digits
  PROVE  ValueOf(digits) = (CHOOSE v : Reads(v, digits))[Len(digits)]
BY DEF ValueOf, Reads

LEMMA ValueReads ==
  ASSUME NEW digits \in Seq(HexDigits)
  PROVE  \E v : /\ Reads(v, digits) /\ ValueOf(digits) = v[Len(digits)]
                /\ v \in [0..Len(digits) -> Nat]
<1> DEFINE D == 0..Len(digits)
           S == Nat
           H == [n \in D |-> [f \in [D -> S] |->
                   IF n = 0 THEN 0 ELSE f[n - 1] * 16 + DigitOf(digits[n])]]
           rank == [n \in D |-> n]
<1>1. Len(digits) \in Nat /\ \A n \in 1..Len(digits) : digits[n] \in HexDigits
  OBVIOUS
<1>2. \A c \in HexDigits : DigitOf(c) \in Nat
  BY DEF HexDigits, DigitOf
<1>3. ASSUME NEW n \in D, NEW v, n # 0 => v[n - 1] \in Nat
      PROVE  (IF n = 0 THEN 0 ELSE v[n - 1] * 16 + DigitOf(digits[n])) \in Nat
  <2>1. CASE n # 0
    <3>1. DigitOf(digits[n]) \in Nat
      BY <1>1, <1>2, <2>1
    <3>2. v[n - 1] * 16 \in Nat
      BY <1>3, <2>1
    <3>3. QED  BY <2>1, <3>1, <3>2
  <2>2. QED  BY <2>1
<1>4. \A n \in D, f \in [D -> S] :
        H[n][f] = IF n = 0 THEN 0 ELSE f[n - 1] * 16 + DigitOf(digits[n])
  OBVIOUS
<1>5. LooksDown(D, S, rank, H)
  <2>1. ASSUME NEW n \in D, NEW f \in [D -> S]
        PROVE  H[n][f] \in S
    <3>1. n # 0 => f[n - 1] \in Nat
      BY <1>1
    <3>2. QED  BY <1>3, <1>4, <3>1
  <2>2. ASSUME NEW n \in D, NEW f \in [D -> S], NEW g \in [D -> S],
               \A j \in D : rank[j] < rank[n] => f[j] = g[j]
        PROVE  H[n][f] = H[n][g]
    <3>1. CASE n # 0
      <4>1. n - 1 \in D /\ rank[n - 1] < rank[n]
        BY <1>1, <3>1
      <4>2. f[n - 1] = g[n - 1]
        BY <2>2, <4>1
      <4>3. QED  BY <1>4, <4>2
    <3>2. QED  BY <1>4, <3>1
  <2> HIDE DEF H
  <2>3. QED  BY <2>1, <2>2 DEF LooksDown
<1>6. rank \in [D -> 0..Len(digits)] /\ S # {}
  BY <1>1
<1> HIDE DEF H, rank, S, D
<1>7. Solvable(D, S, H)
  BY <1>1, <1>5, <1>6, Recursion
<1>8. PICK f \in [D -> S] : Solution(f, D, H)
  BY <1>7 DEF Solvable
<1>9. Reads(f, digits)
  <2>1. \A n \in D : f[n] = IF n = 0 THEN 0 ELSE f[n - 1] * 16 + DigitOf(digits[n])
    BY <1>4, <1>8 DEF Solution
  <2>2. f = [n \in D |-> IF n = 0 THEN 0 ELSE f[n - 1] * 16 + DigitOf(digits[n])]
    BY <2>1
  <2>3. QED  BY <2>2 DEF Reads, D
<1> DEFINE v == CHOOSE w : Reads(w, digits)
<1>10. Reads(v, digits) /\ ValueOf(digits) = v[Len(digits)]
  BY <1>9, ValueUnfolds
<1> HIDE DEF v
<1>11. \A n \in D : v[n] \in Nat
  <2> DEFINE Good == {n \in Nat : n \in D => v[n] \in Nat}
  <2>1. \A n \in D : v[n] = IF n = 0 THEN 0 ELSE v[n - 1] * 16 + DigitOf(digits[n])
    BY <1>10 DEF Reads, D
  <2>2. 0 \in Good
    BY <2>1
  <2>3. ASSUME NEW n \in Nat, n \in Good
        PROVE  n + 1 \in Good
    <3>1. CASE n + 1 \in D
      <4>1. n \in D /\ (n + 1) - 1 = n /\ n + 1 # 0
        BY <1>1, <3>1 DEF D
      <4>2. v[n] \in Nat
        BY <2>3, <4>1
      <4>3. n + 1 # 0 => v[(n + 1) - 1] \in Nat
        BY <4>1, <4>2
      <4>4. (IF n + 1 = 0 THEN 0 ELSE v[(n + 1) - 1] * 16 + DigitOf(digits[n + 1])) \in Nat
        BY <1>3, <3>1, <4>3
      <4>5. v[n + 1] \in Nat
        BY <2>1, <3>1, <4>4
      <4>6. QED  BY <4>5
    <3>2. QED  BY <3>1
  <2> HIDE DEF Good
  <2>4. \A n \in Nat : n \in Good
    BY <2>2, <2>3, Induction
  <2>5. \A n \in D : n \in Nat
    BY <1>1 DEF D
  <2>6. QED  BY <2>4, <2>5 DEF Good
<1>12. v \in [0..Len(digits) -> Nat]
  BY <1>10, <1>11 DEF Reads, D
<1>13. QED  BY <1>10, <1>12

LEMMA ValueOfOne == ASSUME NEW c \in HexDigits PROVE ValueOf(<<c>>) = DigitOf(c)
<1>1. <<c>> \in Seq(HexDigits) /\ Len(<<c>>) = 1 /\ <<c>>[1] = c
  OBVIOUS
<1>2. PICK v : Reads(v, <<c>>) /\ ValueOf(<<c>>) = v[1]
  BY <1>1, ValueReads
<1>3. v[0] = 0 /\ v[1] = v[0] * 16 + DigitOf(c)
  BY <1>1, <1>2 DEF Reads
<1>4. DigitOf(c) \in Int
  BY DEF DigitOf, HexDigits
<1>5. QED  BY <1>2, <1>3, <1>4

LEMMA ValueOfMore ==
  ASSUME NEW digits \in Seq(HexDigits), NEW c \in HexDigits
  PROVE  ValueOf(Append(digits, c)) = ValueOf(digits) * 16 + DigitOf(c)
<1> DEFINE more == Append(digits, c)
           n == Len(digits)
<1>1. more \in Seq(HexDigits)
  OBVIOUS
<1>2. n \in Nat /\ Len(more) = n + 1
  OBVIOUS
<1>3. more[n + 1] = c /\ \A k \in 1..n : more[k] = digits[k]
  OBVIOUS
<1> HIDE DEF more, n
<1>4. PICK v : Reads(v, digits) /\ ValueOf(digits) = v[n]
  BY ValueReads DEF n
<1>5. PICK w : Reads(w, more) /\ ValueOf(more) = w[n + 1]
  BY <1>1, <1>2, ValueReads
<1>6. \A k \in 0..n : v[k] = IF k = 0 THEN 0 ELSE v[k - 1] * 16 + DigitOf(digits[k])
  BY <1>4 DEF Reads, n
<1>7. \A k \in 0..(n + 1) : w[k] = IF k = 0 THEN 0 ELSE w[k - 1] * 16 + DigitOf(more[k])
  BY <1>2, <1>5 DEF Reads
<1>8. v[n] = w[n]
  <2> DEFINE Good == {k \in Nat : k \in 0..n => v[k] = w[k]}
  <2>1. 0 \in Good
    BY <1>2, <1>6, <1>7
  <2>2. ASSUME NEW k \in Nat, k \in Good
        PROVE  k + 1 \in Good
    <3>1. CASE k + 1 \in 0..n
      <4>1. k \in 0..n /\ k + 1 \in 1..n /\ k + 1 \in 0..(n + 1) /\ k + 1 # 0 /\ (k + 1) - 1 = k
        BY <1>2, <3>1
      <4>2. v[k] = w[k]
        BY <2>2, <4>1
      <4>3. v[k + 1] = v[k] * 16 + DigitOf(digits[k + 1])
        BY <1>6, <3>1, <4>1
      <4>4. w[k + 1] = w[k] * 16 + DigitOf(more[k + 1])
        BY <1>7, <4>1
      <4>5. more[k + 1] = digits[k + 1]
        BY <1>3, <4>1
      <4>6. v[k + 1] = w[k + 1]
        BY <4>2, <4>3, <4>4, <4>5
      <4>7. QED  BY <4>6
    <3>2. QED  BY <3>1
  <2> HIDE DEF Good
  <2>3. n \in Good
    BY <1>2, <2>1, <2>2, Induction
  <2>4. QED  BY <1>2, <2>3 DEF Good
<1>9. w[n + 1] = w[n] * 16 + DigitOf(c)
  <2>1. n + 1 \in 0..(n + 1) /\ n + 1 # 0 /\ (n + 1) - 1 = n
    BY <1>2
  <2>2. w[n + 1] = w[n] * 16 + DigitOf(more[n + 1])
    BY <1>7, <2>1
  <2>3. QED  BY <1>3, <2>2
<1>10. QED  BY <1>4, <1>5, <1>8, <1>9 DEF more

HexStep(h, n) == IF n < 16 THEN <<HexDigit(n)>> ELSE Append(h[n \div 16], HexDigit(n % 16))
HexWrites(h, u) == h = [n \in 0..u |-> HexStep(h, n)]

LEMMA HexUnfolds ==
  ASSUME NEW u
  PROVE  Hex(u) = (CHOOSE h : HexWrites(h, u))[u]
BY DEF Hex, HexWrites, HexStep

\* A number is sixteen times what is before its last digit, and the digit.
LEMMA LastDigit ==
  ASSUME NEW n \in Nat, n >= 16
  PROVE  /\ n \div 16 \in Nat /\ n \div 16 < n /\ n % 16 \in 0..15
         /\ n = (n \div 16) * 16 + (n % 16)
OBVIOUS

LEMMA HexIsWritten ==
  ASSUME NEW u \in Nat
  PROVE  \E h : HexWrites(h, u)
<1> DEFINE D == 0..u
           S == Seq(HexDigits)
           H == [n \in D |-> [f \in [D -> S] |-> HexStep(f, n)]]
           rank == [n \in D |-> n]
<1>1. \A n \in D, f \in [D -> S] : H[n][f] = HexStep(f, n)
  OBVIOUS
<1>2. \A n \in D : n >= 16 =>
        n \in Nat /\ ~(n < 16) /\ n \div 16 \in D /\ n \div 16 < n /\ n % 16 \in 0..15
  BY LastDigit
<1>3. \A n \in D : n < 16 => n \in 0..15
  OBVIOUS
<1>4. \A n \in D : n < 16 \/ n >= 16
  OBVIOUS
<1>5. rank \in [D -> 0..u] /\ \A n \in D : rank[n] = n
  OBVIOUS
<1>6. S # {}
  <2>1. << >> \in S
    OBVIOUS
  <2>2. QED  BY <2>1
<1> HIDE DEF H, rank, D
<1>7. ASSUME NEW n \in D, NEW f \in [D -> S]
      PROVE  HexStep(f, n) \in S
  <2>1. CASE n < 16
    <3>1. HexDigit(n) \in HexDigits
      BY <1>3, <2>1, DigitReadsBack
    <3>2. HexStep(f, n) = <<HexDigit(n)>>
      BY <2>1 DEF HexStep
    <3>3. QED  BY <3>1, <3>2
  <2>2. CASE n >= 16
    <3>1. n \div 16 \in D /\ n % 16 \in 0..15 /\ ~(n < 16)
      BY <1>2, <2>2
    <3>2. HexDigit(n % 16) \in HexDigits
      BY <3>1, DigitReadsBack
    <3>3. f[n \div 16] \in Seq(HexDigits)
      BY <3>1
    <3>4. HexStep(f, n) = Append(f[n \div 16], HexDigit(n % 16))
      BY <3>1 DEF HexStep
    <3>5. QED  BY <3>2, <3>3, <3>4
  <2>3. QED  BY <1>4, <2>1, <2>2
<1>8. ASSUME NEW n \in D, NEW f \in [D -> S], NEW g \in [D -> S],
             \A j \in D : rank[j] < rank[n] => f[j] = g[j]
      PROVE  HexStep(f, n) = HexStep(g, n)
  <2>1. CASE n < 16
    BY <2>1 DEF HexStep
  <2>2. CASE n >= 16
    <3>1. n \div 16 \in D /\ rank[n \div 16] < rank[n]
      BY <1>2, <1>5, <2>2
    <3>2. f[n \div 16] = g[n \div 16]
      BY <1>8, <3>1
    <3>3. QED  BY <1>2, <2>2, <3>2 DEF HexStep
  <2>3. QED  BY <1>4, <2>1, <2>2
<1> HIDE DEF S
<1>9. LooksDown(D, S, rank, H)
  BY <1>1, <1>7, <1>8 DEF LooksDown
<1>10. Solvable(D, S, H)
  BY <1>5, <1>6, <1>9, Recursion
<1>11. PICK f \in [D -> S] : Solution(f, D, H)
  BY <1>10 DEF Solvable
<1>12. f = [n \in D |-> HexStep(f, n)]
  BY <1>1, <1>11 DEF Solution
<1>13. QED  BY <1>12 DEF HexWrites, D

\* A code point is written in at least one digit, and read back.
LEMMA HexReadsBack ==
  ASSUME NEW u \in Nat
  PROVE  Hex(u) \in Seq(HexDigits) /\ Len(Hex(u)) >= 1 /\ ValueOf(Hex(u)) = u
<1> DEFINE h == CHOOSE g : HexWrites(g, u)
           P(n) == h[n] \in Seq(HexDigits) /\ Len(h[n]) >= 1 /\ ValueOf(h[n]) = n
           Good == {n \in Nat : \A m \in 0..u : m <= n => P(m)}
<1>1. HexWrites(h, u)
  BY HexIsWritten
<1>2. Hex(u) = h[u]
  BY HexUnfolds
<1> HIDE DEF h
<1>3. \A n \in 0..u : h[n] = IF n < 16 THEN <<HexDigit(n)>>
                             ELSE Append(h[n \div 16], HexDigit(n % 16))
  BY <1>1 DEF HexWrites, HexStep
<1>4. ASSUME NEW n \in 0..u, n < 16
      PROVE  P(n)
  <2>1. n \in 0..15
    BY <1>4
  <2>2. HexDigit(n) \in HexDigits /\ DigitOf(HexDigit(n)) = n
    BY <2>1, DigitReadsBack
  <2>3. ValueOf(<<HexDigit(n)>>) = n
    BY <2>2, ValueOfOne
  <2>4. h[n] = <<HexDigit(n)>>
    BY <1>3, <1>4
  <2>5. QED  BY <2>2, <2>3, <2>4
<1>5. ASSUME NEW n \in 0..u, n >= 16, P(n \div 16)
      PROVE  P(n)
  <2> DEFINE a == h[n \div 16]
             c == HexDigit(n % 16)
  <2>1. n \in Nat /\ ~(n < 16) /\ n % 16 \in 0..15 /\ n = (n \div 16) * 16 + (n % 16)
    BY <1>5, LastDigit
  <2>2. c \in HexDigits /\ DigitOf(c) = n % 16
    BY <2>1, DigitReadsBack
  <2>3. h[n] = Append(a, c)
    BY <1>3, <2>1
  <2>4. a \in Seq(HexDigits) /\ ValueOf(a) = n \div 16
    BY <1>5
  <2> HIDE DEF a, c
  <2>5. ValueOf(Append(a, c)) = ValueOf(a) * 16 + DigitOf(c)
    BY <2>2, <2>4, ValueOfMore
  <2>6. Append(a, c) \in Seq(HexDigits) /\ Len(Append(a, c)) >= 1
    BY <2>2, <2>4
  <2>7. ValueOf(h[n]) = n
    <3>1. ValueOf(h[n]) = (n \div 16) * 16 + (n % 16)
      BY <2>2, <2>3, <2>4, <2>5
    <3>2. QED  BY <2>1, <3>1
  <2>8. QED  BY <2>3, <2>6, <2>7
<1> HIDE DEF P
<1>6. 0 \in Good
  <2>1. \A m \in 0..u : m <= 0 => m < 16
    OBVIOUS
  <2>2. QED  BY <1>4, <2>1
<1>7. ASSUME NEW n \in Nat, n \in Good
      PROVE  n + 1 \in Good
  <2> SUFFICES ASSUME NEW m \in 0..u, m <= n + 1
               PROVE  P(m)
    OBVIOUS
  <2>1. CASE m < 16
    BY <1>4, <2>1
  <2>2. CASE m >= 16
    <3>1. m \in Nat /\ m \div 16 \in Nat /\ m \div 16 < m
      BY <2>2, LastDigit
    <3>2. m \div 16 \in 0..u /\ m \div 16 <= n
      BY <3>1
    <3>3. P(m \div 16)
      BY <1>7, <3>2
    <3>4. QED  BY <1>5, <2>2, <3>3
  <2>3. m < 16 \/ m >= 16
    OBVIOUS
  <2>4. QED  BY <2>1, <2>2, <2>3
<1> HIDE DEF Good
<1>8. u \in Good
  BY <1>6, <1>7, Induction
<1>9. P(u)
  BY <1>8 DEF Good
<1>10. QED  BY <1>2, <1>9 DEF P

-----------------------------------------------------------------------------
(* Reading from left to right: at each place, a piece, and where the next  *)
(* begins.                                                                 *)

Scans(F, n, piece, next) ==
  F = [i \in 1..(n + 1) |-> IF i > n THEN <<>> ELSE piece[i] \o F[next[i]]]

LEMMA ScanExists ==
  ASSUME NEW n \in Nat, NEW R, NEW piece \in [1..n -> Seq(R)],
         NEW next \in [1..n -> 1..(n + 1)], \A i \in 1..n : next[i] > i
  PROVE  \E F : Scans(F, n, piece, next)
<1> DEFINE D == 1..(n + 1)
           S == Seq(R)
           H == [i \in D |-> [f \in [D -> S] |->
                   IF i > n THEN <<>> ELSE piece[i] \o f[next[i]]]]
           rank == [i \in D |-> n + 1 - i]
<1>1. \A i \in D, f \in [D -> S] :
        H[i][f] = IF i > n THEN <<>> ELSE piece[i] \o f[next[i]]
  OBVIOUS
<1>2. \A i \in D : i > n \/ i \in 1..n
  OBVIOUS
<1>3. rank \in [D -> 0..n] /\ \A i \in D : rank[i] = n + 1 - i
  OBVIOUS
<1>4. << >> \in S
  OBVIOUS
<1>5. \A i \in 1..n : next[i] \in D /\ next[i] > i /\ piece[i] \in S /\ ~(i > n) /\ i \in D
  OBVIOUS
<1>6. \A i \in 1..n : rank[next[i]] < rank[i]
  BY <1>3, <1>5
<1> HIDE DEF H, rank, D
<1>7. ASSUME NEW i \in D, NEW f \in [D -> S]
      PROVE  H[i][f] \in S
  <2>1. CASE i > n
    BY <1>1, <1>4, <2>1
  <2>2. CASE i \in 1..n
    <3>1. f[next[i]] \in S /\ piece[i] \in S
      BY <1>5, <2>2
    <3>2. piece[i] \o f[next[i]] \in S
      BY <3>1
    <3>3. H[i][f] = piece[i] \o f[next[i]]
      BY <1>1, <1>5, <2>2
    <3>4. QED  BY <3>2, <3>3
  <2>3. QED  BY <1>2, <2>1, <2>2
<1>8. ASSUME NEW i \in D, NEW f \in [D -> S], NEW g \in [D -> S],
             \A j \in D : rank[j] < rank[i] => f[j] = g[j]
      PROVE  H[i][f] = H[i][g]
  <2>1. CASE i > n
    BY <1>1, <2>1
  <2>2. CASE i \in 1..n
    <3>1. f[next[i]] = g[next[i]]
      BY <1>5, <1>6, <1>8, <2>2
    <3>2. H[i][f] = piece[i] \o f[next[i]]
      BY <1>1, <1>5, <2>2
    <3>3. H[i][g] = piece[i] \o g[next[i]]
      BY <1>1, <1>5, <2>2
    <3>4. QED  BY <3>1, <3>2, <3>3
  <2>3. QED  BY <1>2, <2>1, <2>2
<1> HIDE DEF S
<1>9. LooksDown(D, S, rank, H)
  BY <1>7, <1>8 DEF LooksDown
<1>10. S # {}
  BY <1>4
<1>11. Solvable(D, S, H)
  BY <1>3, <1>9, <1>10, Recursion
<1>12. PICK f \in [D -> S] : Solution(f, D, H)
  BY <1>11 DEF Solvable
<1>13. \A i \in D : f[i] = IF i > n THEN <<>> ELSE piece[i] \o f[next[i]]
  BY <1>1, <1>12 DEF Solution
<1>14. f = [i \in D |-> IF i > n THEN <<>> ELSE piece[i] \o f[next[i]]]
  BY <1>13
<1>15. QED  BY <1>14 DEF Scans, D

LEMMA ScanTyped ==
  ASSUME NEW n \in Nat, NEW R, NEW piece \in [1..n -> Seq(R)],
         NEW next \in [1..n -> 1..(n + 1)], \A i \in 1..n : next[i] > i,
         NEW F, Scans(F, n, piece, next)
  PROVE  \A i \in 1..(n + 1) : F[i] \in Seq(R)
<1> DEFINE Good == {k \in Nat : \A i \in 1..(n + 1) : n + 1 - i <= k => F[i] \in Seq(R)}
<1>1. \A i \in 1..(n + 1) : F[i] = IF i > n THEN <<>> ELSE piece[i] \o F[next[i]]
  BY DEF Scans
<1>2. << >> \in Seq(R)
  OBVIOUS
<1>3. \A i \in 1..(n + 1) : i > n => F[i] \in Seq(R)
  BY <1>1, <1>2
<1>4. 0 \in Good
  <2>1. \A i \in 1..(n + 1) : n + 1 - i <= 0 => i > n
    OBVIOUS
  <2>2. QED  BY <1>3, <2>1
<1>5. ASSUME NEW k \in Nat, k \in Good
      PROVE  k + 1 \in Good
  <2> SUFFICES ASSUME NEW i \in 1..(n + 1), n + 1 - i <= k + 1
               PROVE  F[i] \in Seq(R)
    OBVIOUS
  <2>1. CASE i > n
    BY <1>3, <2>1
  <2>2. CASE ~(i > n)
    <3>1. i \in 1..n
      BY <2>2
    <3>2. next[i] \in 1..(n + 1) /\ next[i] > i
      BY <3>1
    <3>3. n + 1 - next[i] <= k
      BY <3>1, <3>2
    <3>4. F[next[i]] \in Seq(R)
      BY <1>5, <3>2, <3>3
    <3>5. piece[i] \in Seq(R)
      BY <3>1
    <3>6. F[i] = piece[i] \o F[next[i]]
      BY <1>1, <2>2
    <3>7. QED  BY <3>4, <3>5, <3>6
  <2>3. QED  BY <2>1, <2>2
<1> HIDE DEF Good
<1>6. \A k \in Nat : k \in Good
  BY <1>4, <1>5, Induction
<1>7. \A i \in 1..(n + 1) : n + 1 - i \in Nat /\ n + 1 - i <= n + 1 - i
  OBVIOUS
<1>8. QED  BY <1>6, <1>7 DEF Good

-----------------------------------------------------------------------------
(* Decoding.                                                               *)

\* A code point, or the negative of a byte that is none.
Unit == Nat \cup (-255..-1)

LEMMA RowSize == \A row \in WellFormed : Len(row) \in 1..4
BY DEF WellFormed

LEMMA SequenceFits ==
  ASSUME NEW bytes \in Seq(Octets), NEW i \in 1..Len(bytes)
  PROVE  /\ SequenceLength(bytes, i) \in 0..4
         /\ i + SequenceLength(bytes, i) - 1 <= Len(bytes)
         /\ SequenceLength(bytes, i) = 0 => bytes[i] \in 128..255
<1> DEFINE fits(row) == /\ i + Len(row) - 1 <= Len(bytes)
                        /\ \A k \in DOMAIN row : Within(bytes[i + k - 1], {row[k]})
           rows == {row \in WellFormed : fits(row)}
           n == SequenceLength(bytes, i)
<1>1. n = IF rows = {} THEN 0 ELSE Len(CHOOSE row \in rows : TRUE)
  BY DEF SequenceLength
<1>2. i \in Nat /\ Len(bytes) \in Nat /\ i <= Len(bytes) /\ bytes[i] \in 0..255
  <2>1. bytes[i] \in Octets
    OBVIOUS
  <2>2. QED  BY <2>1 DEF Octets
<1>3. \A row \in rows : row \in WellFormed /\ i + Len(row) - 1 <= Len(bytes)
  OBVIOUS
<1>4. bytes[i] < 128 => << <<0, 127>> >> \in rows
  <2> DEFINE row == << <<0, 127>> >>
  <2>1. row \in WellFormed
    BY DEF WellFormed
  <2>2. Len(row) = 1 /\ DOMAIN row = {1} /\ row[1] = <<0, 127>>
    OBVIOUS
  <2>3. bytes[i] < 128 => Within(bytes[i], {<<0, 127>>})
    <3>1. \A x \in 0..255 : x < 128 => 0 <= x /\ x <= 127
      OBVIOUS
    <3>2. <<0, 127>>[1] = 0 /\ <<0, 127>>[2] = 127
      OBVIOUS
    <3>3. \A x \in 0..255 : x < 128 => Within(x, {<<0, 127>>})
      BY <3>1, <3>2 DEF Within
    <3>4. QED  BY <1>2, <3>3
  <2>4. i + Len(row) - 1 <= Len(bytes) /\ i + 1 - 1 = i
    BY <1>2, <2>2
  <2> HIDE DEF row
  <2>5. bytes[i] < 128 => fits(row)
    BY <2>2, <2>3, <2>4
  <2> HIDE DEF fits
  <2>6. bytes[i] < 128 => row \in rows
    BY <2>1, <2>5
  <2>7. QED  BY <2>6 DEF row
<1> HIDE DEF rows, n
<1>5. CASE rows = {}
  <2>1. n = 0 /\ ~(bytes[i] < 128)
    BY <1>1, <1>4, <1>5
  <2>2. n \in 0..4 /\ i + n - 1 <= Len(bytes)
    BY <1>2, <2>1
  <2>3. \A x \in 0..255 : ~(x < 128) => x \in 128..255
    OBVIOUS
  <2>4. bytes[i] \in 128..255
    BY <1>2, <2>1, <2>3
  <2>5. QED  BY <2>2, <2>4 DEF n
<1>6. CASE rows # {}
  <2>1. PICK row \in rows : n = Len(row)
    BY <1>1, <1>6
  <2>2. n \in 1..4 /\ i + n - 1 <= Len(bytes)
    BY <1>3, <2>1, RowSize
  <2>3. n \in 0..4 /\ n # 0
    BY <2>2
  <2>4. QED  BY <2>2, <2>3 DEF n
<1>7. QED  BY <1>5, <1>6

\* A well-formed sequence spells a number.
LEMMA ScalarIsNat ==
  ASSUME NEW b \in Seq(Octets), Len(b) \in 1..4
  PROVE  ScalarOf(b) \in Nat
<1> DEFINE low == b[1] % LeadBits[Len(b)]
           rest == Tail(b)
<1>1. \A m \in 1..4 : LeadBits[m] \in Nat \ {0}
  BY DEF LeadBits
<1>2. b[1] \in Nat /\ Len(b) \in Nat /\ b # <<>>
  <2>1. 1 \in 1..Len(b) /\ Len(b) \in Nat
    OBVIOUS
  <2>2. b[1] \in Octets
    BY <2>1
  <2>3. Octets \subseteq Nat
    BY DEF Octets
  <2>4. b # <<>>
    BY <2>1
  <2>5. QED  BY <2>1, <2>2, <2>3, <2>4
<1>3. low \in Nat
  <2>1. \A x \in Nat, m \in Nat \ {0} : x % m \in Nat
    OBVIOUS
  <2>2. LeadBits[Len(b)] \in Nat \ {0}
    BY <1>1
  <2>3. QED  BY <1>2, <2>1, <2>2
<1>4. rest \in Seq(Nat) /\ Len(rest) = Len(b) - 1
  <2>1. rest \in Seq(Octets) /\ Len(rest) = Len(b) - 1
    BY <1>2, HeadTailProperties
  <2>2. Octets \subseteq Nat
    BY DEF Octets
  <2>3. rest \in Seq(Nat)
    BY <2>1, <2>2, SeqMonotonic
  <2>4. QED  BY <2>1, <2>3
<1>5. \A u \in Nat, x \in Nat : SixMore(u, x) \in Nat
  BY DEF SixMore
<1> HIDE DEF low, rest
<1>6. Len(rest) \in 0..3 /\ \A k \in 1..Len(rest) : rest[k] \in Nat
  <2>1. Len(rest) \in 0..3
    BY <1>4
  <2>2. QED  BY <1>4, <2>1
<1>7. Spelt(low, rest) \in Nat
  <2>1. CASE Len(rest) = 0
    BY <1>3, <2>1 DEF Spelt
  <2>2. CASE Len(rest) = 1
    <3>1. rest[1] \in Nat
      BY <1>6, <2>2
    <3>2. SixMore(low, rest[1]) \in Nat
      BY <1>3, <1>5, <3>1
    <3>3. QED  BY <2>2, <3>2 DEF Spelt
  <2>3. CASE Len(rest) = 2
    <3>1. rest[1] \in Nat /\ rest[2] \in Nat
      BY <1>6, <2>3
    <3>2. SixMore(low, rest[1]) \in Nat
      BY <1>3, <1>5, <3>1
    <3>3. SixMore(SixMore(low, rest[1]), rest[2]) \in Nat
      BY <1>5, <3>1, <3>2
    <3>4. QED  BY <2>3, <3>3 DEF Spelt
  <2>4. CASE Len(rest) = 3
    <3>1. rest[1] \in Nat /\ rest[2] \in Nat /\ rest[3] \in Nat
      BY <1>6, <2>4
    <3>2. SixMore(low, rest[1]) \in Nat
      BY <1>3, <1>5, <3>1
    <3>3. SixMore(SixMore(low, rest[1]), rest[2]) \in Nat
      BY <1>5, <3>1, <3>2
    <3>4. SixMore(SixMore(SixMore(low, rest[1]), rest[2]), rest[3]) \in Nat
      BY <1>5, <3>1, <3>3
    <3>5. QED  BY <2>4, <3>4 DEF Spelt
  <2>5. QED  BY <1>6, <2>1, <2>2, <2>3, <2>4
<1>8. QED  BY <1>7 DEF ScalarOf, low, rest

\* What is read at i, and where the next unit begins.
UnitHere(bytes, i) ==
  LET n == SequenceLength(bytes, i)
  IN  IF n = 0 THEN <<-bytes[i]>> ELSE <<ScalarOf(SubSeq(bytes, i, i + n - 1))>>
NextUnit(bytes, i) ==
  LET n == SequenceLength(bytes, i) IN IF n = 0 THEN i + 1 ELSE i + n

LEMMA UnitHereIs ==
  ASSUME NEW bytes \in Seq(Octets), NEW i \in 1..Len(bytes)
  PROVE  /\ UnitHere(bytes, i) \in Seq(Unit)
         /\ NextUnit(bytes, i) \in 1..(Len(bytes) + 1) /\ NextUnit(bytes, i) > i
<1> DEFINE n == SequenceLength(bytes, i)
           b == SubSeq(bytes, i, i + n - 1)
<1>1. i \in Nat /\ Len(bytes) \in Nat /\ i <= Len(bytes)
  OBVIOUS
<1>2. n \in 0..4 /\ i + n - 1 <= Len(bytes) /\ (n = 0 => bytes[i] \in 128..255)
  BY SequenceFits
<1> HIDE DEF n
<1>3. NextUnit(bytes, i) \in 1..(Len(bytes) + 1) /\ NextUnit(bytes, i) > i
  <2>1. NextUnit(bytes, i) = IF n = 0 THEN i + 1 ELSE i + n
    BY DEF NextUnit, n
  <2>2. QED  BY <1>1, <1>2, <2>1
<1>4. CASE n = 0
  <2>1. UnitHere(bytes, i) = <<-bytes[i]>>
    BY <1>4 DEF UnitHere, n
  <2>2. \A x \in 128..255 : -x \in Unit
    BY DEF Unit
  <2>3. -bytes[i] \in Unit
    BY <1>2, <1>4, <2>2
  <2>4. QED  BY <1>3, <2>1, <2>3
<1>5. CASE n # 0
  <2>1. \A k \in i..(i + n - 1) : bytes[k] \in Octets
    <3>1. \A k \in i..(i + n - 1) : k \in 1..Len(bytes)
      BY <1>1, <1>2
    <3>2. QED  BY <3>1
  <2>2. b \in Seq(Octets) /\ Len(b) = n
    <3>1. i \in Int /\ i + n - 1 \in Int /\ i <= i + n - 1 /\ (i + n - 1) - i + 1 = n
      BY <1>1, <1>2, <1>5
    <3>2. b \in Seq(Octets)
      BY <2>1, <3>1, SubSeqProperties
    <3>3. Len(b) = IF i <= i + n - 1 THEN (i + n - 1) - i + 1 ELSE 0
      <4> HIDE DEF n
      <4>1. QED  BY <2>1, <3>1, SubSeqProperties
    <3>4. QED  BY <3>1, <3>2, <3>3
  <2>3. Len(b) \in 1..4
    BY <1>2, <1>5, <2>2
  <2>4. UnitHere(bytes, i) = <<ScalarOf(b)>>
    BY <1>5 DEF UnitHere, n
  <2> HIDE DEF b
  <2>5. ScalarOf(b) \in Unit
    BY <2>2, <2>3, ScalarIsNat DEF Unit
  <2>6. QED  BY <1>3, <2>4, <2>5
<1>6. QED  BY <1>4, <1>5

DecodeStep(f, bytes, i) ==
  LET n == SequenceLength(bytes, i)
  IN  IF i > Len(bytes) THEN <<>>
      ELSE IF n = 0 THEN <<-bytes[i]>> \o f[i + 1]
      ELSE <<ScalarOf(SubSeq(bytes, i, i + n - 1))>> \o f[i + n]
Decodes(f, bytes) == f = [i \in 1..(Len(bytes) + 1) |-> DecodeStep(f, bytes, i)]

LEMMA DecodeUnfolds ==
  ASSUME NEW bytes
  PROVE  Decode(bytes) = (CHOOSE f : Decodes(f, bytes))[1]
BY DEF Decode, Decodes, DecodeStep

LEMMA DecodeScans ==
  ASSUME NEW f, NEW bytes, NEW i
  PROVE  DecodeStep(f, bytes, i) =
           IF i > Len(bytes) THEN <<>> ELSE UnitHere(bytes, i) \o f[NextUnit(bytes, i)]
<1>1. CASE i > Len(bytes)
  BY <1>1 DEF DecodeStep
<1>2. CASE ~(i > Len(bytes)) /\ SequenceLength(bytes, i) = 0
  BY <1>2 DEF DecodeStep, UnitHere, NextUnit
<1>3. CASE ~(i > Len(bytes)) /\ SequenceLength(bytes, i) # 0
  BY <1>3 DEF DecodeStep, UnitHere, NextUnit
<1>4. QED  BY <1>1, <1>2, <1>3

\* Whatever the bytes are, they are read as units.
LEMMA DecodeSolves ==
  ASSUME NEW bytes \in Seq(Octets)
  PROVE  LET F == CHOOSE f : Decodes(f, bytes)
         IN  Decodes(F, bytes) /\ \A i \in 1..(Len(bytes) + 1) : F[i] \in Seq(Unit)
<1> DEFINE n == Len(bytes)
           piece == [i \in 1..n |-> UnitHere(bytes, i)]
           next == [i \in 1..n |-> NextUnit(bytes, i)]
<1>1. n \in Nat
  OBVIOUS
<1>2. piece \in [1..n -> Seq(Unit)]
  BY UnitHereIs
<1>3. next \in [1..n -> 1..(n + 1)]
  BY UnitHereIs
<1>4. \A i \in 1..n : next[i] > i
  BY UnitHereIs
<1>5. \A f : \A i \in 1..(n + 1) :
        DecodeStep(f, bytes, i) = IF i > n THEN <<>> ELSE piece[i] \o f[next[i]]
  <2> SUFFICES ASSUME NEW f, NEW i \in 1..(n + 1)
               PROVE  DecodeStep(f, bytes, i) = IF i > n THEN <<>> ELSE piece[i] \o f[next[i]]
    OBVIOUS
  <2>1. CASE i > n
    BY <2>1, DecodeScans
  <2>2. CASE ~(i > n)
    <3>1. i \in 1..n
      BY <1>1, <2>2
    <3>2. piece[i] = UnitHere(bytes, i) /\ next[i] = NextUnit(bytes, i)
      BY <3>1
    <3>3. DecodeStep(f, bytes, i) = UnitHere(bytes, i) \o f[NextUnit(bytes, i)]
      BY <2>2, DecodeScans
    <3>4. QED  BY <2>2, <3>2, <3>3
  <2>3. QED  BY <2>1, <2>2
<1> HIDE DEF piece, next
<1>6. \A f : Decodes(f, bytes) <=> Scans(f, n, piece, next)
  <2> SUFFICES ASSUME NEW f PROVE Decodes(f, bytes) <=> Scans(f, n, piece, next)
    OBVIOUS
  <2>1. [i \in 1..(n + 1) |-> DecodeStep(f, bytes, i)]
          = [i \in 1..(n + 1) |-> IF i > n THEN <<>> ELSE piece[i] \o f[next[i]]]
    BY <1>5
  <2>2. QED  BY <2>1 DEF Decodes, Scans
<1> HIDE DEF n
<1>7. \E F : Scans(F, n, piece, next)
  BY <1>1, <1>2, <1>3, <1>4, ScanExists
<1> DEFINE F == CHOOSE f : Decodes(f, bytes)
<1>8. Decodes(F, bytes)
  BY <1>6, <1>7
<1> HIDE DEF F
<1>9. \A i \in 1..(n + 1) : F[i] \in Seq(Unit)
  BY <1>1, <1>2, <1>3, <1>4, <1>6, <1>8, ScanTyped
<1>10. QED  BY <1>8, <1>9 DEF F, n

LEMMA DecodeIsUnits ==
  ASSUME NEW bytes \in Seq(Octets)
  PROVE  Decode(bytes) \in Seq(Unit)
<1> DEFINE F == CHOOSE f : Decodes(f, bytes)
<1>1. \A i \in 1..(Len(bytes) + 1) : F[i] \in Seq(Unit)
  BY DecodeSolves
<1>2. Decode(bytes) = F[1]
  BY DecodeUnfolds
<1>3. 1 \in 1..(Len(bytes) + 1)
  OBVIOUS
<1> HIDE DEF F
<1>4. QED  BY <1>1, <1>2, <1>3

-----------------------------------------------------------------------------
(* What a unit is spelled as.                                              *)

\* What escapes are made of, and none of it is hidden.
EscapeCodes == HexDigits \cup {Backslash, LetterU, LetterX, OpenBrace, CloseBrace}

LEMMA EscapesAreSeen == \A c \in EscapeCodes : ~IsHidden(c) /\ c \in Nat
<1>1. \A c \in 33..126 : \A r \in HiddenRanges : ~(r[1] <= c /\ c <= r[2])
  BY DEF HiddenRanges
<1>2. \A c \in 33..126 : ~IsHidden(c)
  BY <1>1 DEF IsHidden, Within
<1>3. EscapeCodes \subseteq 33..126
  BY DEF EscapeCodes, HexDigits, Backslash, LetterU, LetterX, OpenBrace, CloseBrace
<1>4. QED  BY <1>2, <1>3

LEMMA NegatedByte ==
  ASSUME NEW x \in -255..-1
  PROVE  -x \in 1..255 /\ -(-x) = x
OBVIOUS

LEMMA NegativesAreNot == \A x \in -255..-1 : ~IsHidden(x) /\ x # Backslash
<1>1. \A x \in -255..-1 : \A r \in HiddenRanges : ~(r[1] <= x /\ x <= r[2])
  BY DEF HiddenRanges
<1>2. QED  BY <1>1 DEF IsHidden, Within, Backslash

LEMMA DigitsAreNat == Seq(HexDigits) \subseteq Seq(EscapeCodes)
<1>1. HexDigits \subseteq EscapeCodes
  BY DEF EscapeCodes
<1>2. QED  BY <1>1, SeqMonotonic

\* A byte: four items, the last two its digits.
LEMMA ByteEscapeIs ==
  ASSUME NEW b \in 1..255
  PROVE  /\ ByteEscape(b) \in Seq(EscapeCodes) /\ Len(ByteEscape(b)) = 4
         /\ ByteEscape(b)[1] = Backslash /\ ByteEscape(b)[2] = LetterX
         /\ ByteEscape(b)[3] \in HexDigits /\ ByteEscape(b)[4] \in HexDigits
         /\ ValueOf(<<ByteEscape(b)[3], ByteEscape(b)[4]>>) = b
<1> DEFINE c == HexDigit(b \div 16)
           d == HexDigit(b % 16)
<1>1. b \div 16 \in 0..15 /\ b % 16 \in 0..15 /\ b = (b \div 16) * 16 + (b % 16)
  OBVIOUS
<1>2. c \in HexDigits /\ DigitOf(c) = b \div 16
  BY <1>1, DigitReadsBack
<1>3. d \in HexDigits /\ DigitOf(d) = b % 16
  BY <1>1, DigitReadsBack
<1>4. ByteEscape(b) = <<Backslash, LetterX, c, d>>
  BY DEF ByteEscape
<1> HIDE DEF c, d
<1>5. Backslash \in EscapeCodes /\ LetterX \in EscapeCodes /\ c \in EscapeCodes /\ d \in EscapeCodes
  BY <1>2, <1>3 DEF EscapeCodes
<1>6. <<Backslash, LetterX, c, d>> \in Seq(EscapeCodes)
  BY <1>5
<1>7. ValueOf(<<c, d>>) = b
  <2>1. <<c>> \in Seq(HexDigits) /\ <<c, d>> = Append(<<c>>, d)
    BY <1>2
  <2>2. ValueOf(<<c>>) = DigitOf(c)
    BY <1>2, ValueOfOne
  <2>3. ValueOf(Append(<<c>>, d)) = ValueOf(<<c>>) * 16 + DigitOf(d)
    BY <1>3, <2>1, ValueOfMore
  <2>4. ValueOf(<<c, d>>) = (b \div 16) * 16 + (b % 16)
    BY <1>2, <1>3, <2>1, <2>2, <2>3
  <2>5. QED  BY <1>1, <2>4
<1>8. QED  BY <1>2, <1>3, <1>4, <1>6, <1>7

\* A code point: its digits between braces.
LEMMA CodePointIs ==
  ASSUME NEW u \in Nat
  PROVE  /\ CodePoint(u) \in Seq(EscapeCodes) /\ Len(CodePoint(u)) = Len(Hex(u)) + 4
         /\ CodePoint(u)[1] = Backslash /\ CodePoint(u)[2] = LetterU
         /\ CodePoint(u)[3] = OpenBrace /\ CodePoint(u)[Len(Hex(u)) + 4] = CloseBrace
         /\ \A j \in 1..Len(Hex(u)) : CodePoint(u)[3 + j] = Hex(u)[j]
<1> DEFINE a == <<Backslash, LetterU, OpenBrace>>
           h == Hex(u)
           z == <<CloseBrace>>
           ah == a \o h
<1>1. /\ Backslash \in EscapeCodes /\ LetterU \in EscapeCodes
      /\ OpenBrace \in EscapeCodes /\ CloseBrace \in EscapeCodes
  BY DEF EscapeCodes
<1>2. a \in Seq(EscapeCodes) /\ Len(a) = 3 /\ a[1] = Backslash /\ a[2] = LetterU /\ a[3] = OpenBrace
  BY <1>1
<1>3. z \in Seq(EscapeCodes) /\ Len(z) = 1 /\ z[1] = CloseBrace
  BY <1>1
<1>4. h \in Seq(EscapeCodes) /\ Len(h) \in Nat
  <2>1. h \in Seq(HexDigits)
    BY HexReadsBack
  <2>2. QED  BY <2>1, DigitsAreNat
<1>5. CodePoint(u) = ah \o z
  BY DEF CodePoint
<1> HIDE DEF a, h, z, ah
<1>6. ah \in Seq(EscapeCodes) /\ Joins(ah, a, h)
  BY <1>2, <1>4, Joined DEF ah
<1>7. Len(ah) = 3 + Len(h) /\ \A k \in 1..3 : ah[k] = a[k]
  BY <1>2, <1>6 DEF Joins
<1>8. \A j \in 1..Len(h) : ah[3 + j] = h[j]
  BY <1>2, <1>6 DEF Joins
<1>9. ah \o z \in Seq(EscapeCodes) /\ Joins(ah \o z, ah, z)
  BY <1>3, <1>6, Joined
<1>10. Len(ah \o z) = Len(ah) + 1 /\ \A k \in 1..Len(ah) : (ah \o z)[k] = ah[k]
  BY <1>3, <1>9 DEF Joins
<1>11. (ah \o z)[Len(ah) + 1] = CloseBrace
  <2>1. 1 \in 1..Len(z)
    BY <1>3
  <2>2. QED  BY <1>3, <1>9, <2>1 DEF Joins
<1>12. Len(ah) + 1 = Len(h) + 4
  BY <1>4, <1>7
<1>13. \A k \in 1..3 : (ah \o z)[k] = a[k]
  <2>1. \A k \in 1..3 : k \in 1..Len(ah)
    BY <1>4, <1>7
  <2>2. QED  BY <1>7, <1>10, <2>1
<1>14. \A j \in 1..Len(h) : (ah \o z)[3 + j] = h[j]
  <2>1. \A j \in 1..Len(h) : 3 + j \in 1..Len(ah)
    BY <1>4, <1>7
  <2>2. QED  BY <1>8, <1>10, <2>1
<1>15. \A j \in 1..Len(h) : CodePoint(u)[3 + j] = h[j]
  BY <1>5, <1>14
<1>16. CodePoint(u)[1] = Backslash /\ CodePoint(u)[2] = LetterU /\ CodePoint(u)[3] = OpenBrace
  <2>1. \A k \in 1..3 : CodePoint(u)[k] = a[k]
    BY <1>5, <1>13
  <2>2. CodePoint(u)[1] = a[1]
    BY <2>1
  <2>3. CodePoint(u)[2] = a[2]
    BY <2>1
  <2>4. CodePoint(u)[3] = a[3]
    BY <2>1
  <2>5. QED  BY <1>2, <2>2, <2>3, <2>4
<1>17. CodePoint(u)[Len(h) + 4] = CloseBrace
  BY <1>5, <1>11, <1>12
<1>18. CodePoint(u) \in Seq(EscapeCodes) /\ Len(CodePoint(u)) = Len(h) + 4
  BY <1>5, <1>9, <1>10, <1>12
<1>19. QED  BY <1>15, <1>16, <1>17, <1>18 DEF h

\* The texts of the units of t.
Spelled(t) == [k \in DOMAIN t |-> PieceText([kind |-> Kind(t, k), code |-> t[k]])]

LEMMA EscapedIsSpelled ==
  ASSUME NEW t
  PROVE  Escaped(t) = FlattenSeq(Spelled(t))
<1>1. DOMAIN Pieces(t) = DOMAIN t
  BY DEF Pieces
<1>2. \A k \in DOMAIN t : Pieces(t)[k] = [kind |-> Kind(t, k), code |-> t[k]]
  BY DEF Pieces
<1>3. [k \in DOMAIN Pieces(t) |-> PieceText(Pieces(t)[k])] = Spelled(t)
  BY <1>1, <1>2 DEF Spelled
<1>4. QED  BY <1>3 DEF Escaped

LEMMA KindIs ==
  ASSUME NEW t \in Seq(Unit), NEW k \in 1..Len(t)
  PROVE  \/ Kind(t, k) = "byte" /\ t[k] \in -255..-1
         \/ Kind(t, k) \in {"hidden", "backslash"} /\ t[k] \in Nat
         \/ /\ Kind(t, k) = "char" /\ t[k] \in Nat /\ ~IsHidden(t[k])
            /\ ~(t[k] = Backslash /\ BeginsEscape(After(t, k)))
<1>1. t[k] \in Nat \/ t[k] \in -255..-1
  <2>1. t[k] \in Unit
    OBVIOUS
  <2>2. QED  BY <2>1 DEF Unit
<1>2. CASE t[k] \in -255..-1
  <2>1. \A x \in -255..-1 : x < 0
    OBVIOUS
  <2>2. t[k] < 0
    BY <1>2, <2>1
  <2>3. ~IsHidden(t[k]) /\ t[k] # Backslash
    BY <1>2, NegativesAreNot
  <2>4. Kind(t, k) = "byte"
    BY <2>2, <2>3 DEF Kind
  <2>5. QED  BY <1>2, <2>4
<1>3. CASE t[k] \in Nat
  <2>1. ~(t[k] < 0)
    BY <1>3
  <2>2. CASE IsHidden(t[k])
    <3>1. t[k] # Backslash
      BY <2>2, EscapesAreSeen DEF EscapeCodes
    <3>2. Kind(t, k) = "hidden"
      BY <2>1, <2>2, <3>1 DEF Kind
    <3>3. QED  BY <1>3, <3>2
  <2>3. CASE ~IsHidden(t[k]) /\ t[k] = Backslash /\ BeginsEscape(After(t, k))
    <3>1. Kind(t, k) = "backslash"
      BY <2>1, <2>3 DEF Kind
    <3>2. QED  BY <1>3, <3>1
  <2>4. CASE ~IsHidden(t[k]) /\ ~(t[k] = Backslash /\ BeginsEscape(After(t, k)))
    <3>1. Kind(t, k) = "char"
      BY <2>1, <2>4 DEF Kind
    <3>2. QED  BY <1>3, <2>4, <3>1
  <2>5. QED  BY <2>2, <2>3, <2>4
<1>4. QED  BY <1>1, <1>2, <1>3

\* The text of the unit k: an escape of a byte, of a code point, or the unit itself.
IsByte(t, k)  == t[k] \in -255..-1 /\ Spelled(t)[k] = ByteEscape(-t[k])
IsPoint(t, k) == t[k] \in Nat /\ Spelled(t)[k] = CodePoint(t[k])
IsChar(t, k)  == /\ t[k] \in Nat /\ ~IsHidden(t[k]) /\ Spelled(t)[k] = <<t[k]>>
                 /\ ~(t[k] = Backslash /\ BeginsEscape(After(t, k)))

LEMMA SpelledIs ==
  ASSUME NEW t \in Seq(Unit), NEW k \in 1..Len(t)
  PROVE  IsByte(t, k) \/ IsPoint(t, k) \/ IsChar(t, k)
<1> DEFINE p == [kind |-> Kind(t, k), code |-> t[k]]
<1>1. Spelled(t)[k] = PieceText(p)
  <2>1. k \in DOMAIN t
    OBVIOUS
  <2>2. QED  BY <2>1 DEF Spelled
<1>2. p.kind = Kind(t, k) /\ p.code = t[k]
  OBVIOUS
<1> HIDE DEF p
<1>3. CASE Kind(t, k) = "byte" /\ t[k] \in -255..-1
  <2>1. PieceText(p) = ByteEscape(-t[k])
    BY <1>2, <1>3 DEF PieceText
  <2>2. QED  BY <1>1, <1>3, <2>1 DEF IsByte
<1>4. CASE Kind(t, k) \in {"hidden", "backslash"} /\ t[k] \in Nat
  <2>1. PieceText(p) = CodePoint(t[k])
    BY <1>2, <1>4 DEF PieceText
  <2>2. QED  BY <1>1, <1>4, <2>1 DEF IsPoint
<1>5. CASE /\ Kind(t, k) = "char" /\ t[k] \in Nat /\ ~IsHidden(t[k])
           /\ ~(t[k] = Backslash /\ BeginsEscape(After(t, k)))
  <2>1. PieceText(p) = <<t[k]>>
    BY <1>2, <1>5 DEF PieceText
  <2>2. QED  BY <1>1, <1>5, <2>1 DEF IsChar
<1>6. QED  BY <1>3, <1>4, <1>5, KindIs

\* A drawing, empty nowhere and hidden nowhere.
Readable(p) == p \in Seq(Nat) /\ Len(p) >= 1 /\ \A j \in 1..Len(p) : ~IsHidden(p[j])

LEMMA EscapesAreReadable ==
  ASSUME NEW p \in Seq(EscapeCodes), Len(p) >= 1
  PROVE  Readable(p)
<1>1. EscapeCodes \subseteq Nat
  BY EscapesAreSeen
<1>2. p \in Seq(Nat)
  BY <1>1, SeqMonotonic
<1>3. \A j \in 1..Len(p) : p[j] \in EscapeCodes
  BY ElementOfSeq
<1>4. QED  BY <1>2, <1>3, EscapesAreSeen DEF Readable

LEMMA BytesAreReadable ==
  ASSUME NEW b \in 1..255
  PROVE  Readable(ByteEscape(b))
<1> DEFINE p == ByteEscape(b)
<1>1. p \in Seq(EscapeCodes) /\ Len(p) = 4
  BY Zenon, ByteEscapeIs
<1> HIDE DEF p
<1>2. Len(p) >= 1
  BY <1>1
<1>3. Readable(p)
  BY <1>1, <1>2, EscapesAreReadable
<1>4. QED  BY <1>3 DEF p

LEMMA SpelledIsSeq ==
  ASSUME NEW t \in Seq(Unit)
  PROVE  /\ Spelled(t) \in Seq(Seq(Nat)) /\ Len(Spelled(t)) = Len(t)
         /\ \A k \in 1..Len(t) : /\ Len(Spelled(t)[k]) >= 1
                                 /\ \A j \in 1..Len(Spelled(t)[k]) : ~IsHidden(Spelled(t)[k][j])
<1>1. ASSUME NEW k \in 1..Len(t)
      PROVE  Readable(Spelled(t)[k])
  <2>1. CASE IsByte(t, k)
    <3>1. t[k] \in -255..-1 /\ Spelled(t)[k] = ByteEscape(-t[k])
      BY <2>1 DEF IsByte
    <3>2. -t[k] \in 1..255
      BY <3>1, NegatedByte
    <3>3. QED  BY Zenon, <3>1, <3>2, BytesAreReadable
  <2>2. CASE IsPoint(t, k)
    <3>1. t[k] \in Nat /\ Spelled(t)[k] = CodePoint(t[k])
      BY <2>2 DEF IsPoint
    <3>2. Spelled(t)[k] \in Seq(EscapeCodes)
      BY <3>1, CodePointIs
    <3>3. Len(Spelled(t)[k]) = Len(Hex(t[k])) + 4 /\ Hex(t[k]) \in Seq(HexDigits)
      BY <3>1, CodePointIs, HexReadsBack
    <3>4. Len(Hex(t[k])) \in Nat
      BY <3>3
    <3>5. Len(Spelled(t)[k]) >= 1
      BY <3>3, <3>4
    <3>6. QED  BY <3>2, <3>5, EscapesAreReadable
  <2>3. CASE IsChar(t, k)
    <3>1. Spelled(t)[k] = <<t[k]>> /\ t[k] \in Nat /\ ~IsHidden(t[k])
      BY <2>3 DEF IsChar
    <3>2. <<t[k]>> \in Seq(Nat) /\ Len(<<t[k]>>) = 1 /\ <<t[k]>>[1] = t[k]
      BY <3>1
    <3>3. QED  BY <3>1, <3>2 DEF Readable
  <2>4. QED  BY <2>1, <2>2, <2>3, SpelledIs
<1>2. Spelled(t) = [k \in 1..Len(t) |-> Spelled(t)[k]] /\ Len(t) \in Nat
  BY DEF Spelled
<1>3. \A k \in 1..Len(t) : Spelled(t)[k] \in Seq(Nat)
  BY <1>1 DEF Readable
<1>4. Spelled(t) \in [1..Len(t) -> Seq(Nat)]
  BY <1>2, <1>3
<1>5. Spelled(t) \in Seq(Seq(Nat)) /\ Len(Spelled(t)) = Len(t)
  BY <1>2, <1>4
<1>6. QED  BY <1>1, <1>5 DEF Readable

-----------------------------------------------------------------------------
(* Reading one escape.                                                     *)

LEMMA AfterIs ==
  ASSUME NEW R, NEW text \in Seq(R), NEW i \in 1..Len(text)
  PROVE  /\ After(text, i) \in Seq(R) /\ Len(After(text, i)) = Len(text) - i
         /\ \A j \in 1..(Len(text) - i) : After(text, i)[j] = text[i + j]
<1> DEFINE n == Len(text)
<1>1. n \in Nat /\ i \in Nat /\ i <= n
  OBVIOUS
<1>2. \A k \in (i + 1)..n : text[k] \in R
  <2>1. \A k \in (i + 1)..n : k \in 1..n
    BY <1>1
  <2>2. QED  BY <2>1
<1>3. i + 1 \in Int /\ n \in Int /\ n - (i + 1) + 1 = n - i
  BY <1>1
<1> HIDE DEF n
<1>4. SubSeq(text, i + 1, n) \in Seq(R)
  BY <1>2, <1>3, SubSeqProperties
<1>5. Len(SubSeq(text, i + 1, n)) = IF i + 1 <= n THEN n - (i + 1) + 1 ELSE 0
  BY <1>2, <1>3, SubSeqProperties
<1>6. Len(SubSeq(text, i + 1, n)) = n - i
  BY <1>1, <1>5
<1>7. \A j \in 1..(n - i) : SubSeq(text, i + 1, n)[j] = text[i + j]
  BY <1>1
<1>8. QED  BY <1>4, <1>6, <1>7 DEF After, n

FirstClose(rest) == SelectInSeq(rest, LAMBDA c : c = CloseBrace)

LEMMA FirstCloseIs ==
  ASSUME NEW rest, NEW k \in 1..Len(rest), Len(rest) \in Nat, rest[k] = CloseBrace,
         \A j \in 1..Len(rest) : j < k => rest[j] # CloseBrace
  PROVE  FirstClose(rest) = k
<1> DEFINE I == {i \in 1..Len(rest) : rest[i] = CloseBrace}
<1>1. k \in I /\ \A i \in I : k <= i
  OBVIOUS
<1>2. FirstClose(rest) = IF I # {} THEN Min(I) ELSE 0
  BY DEF FirstClose, SelectInSeq
<1>3. I \subseteq Nat
  OBVIOUS
<1> HIDE DEF I
<1>4. Min(I) \in I /\ \A i \in I : Min(I) <= i
  BY <1>1 DEF Min
<1>5. Min(I) <= k /\ k <= Min(I) /\ Min(I) \in Nat /\ k \in Nat
  BY <1>1, <1>3, <1>4
<1>6. QED  BY <1>1, <1>2, <1>5

\* The three ways a reader goes on.
LEMMA ReadPlain ==
  ASSUME NEW text, NEW i, text[i] # Backslash \/ ~BeginsEscape(After(text, i))
  PROVE  ReadAt(text, i) = [unit |-> text[i], next |-> i + 1]
BY DEF ReadAt

PointAt(text, i, rest, close, hex) ==
  /\ rest = After(text, i) /\ text[i] = Backslash
  /\ BeginsEscape(rest) /\ rest[1] = LetterU
  /\ close \in Nat /\ close > 0 /\ close = FirstClose(rest)
  /\ hex = SubSeq(rest, 3, close - 1) /\ AllHex(hex)

LEMMA ReadPoint ==
  ASSUME NEW text, NEW i, NEW rest, NEW close, NEW hex, PointAt(text, i, rest, close, hex)
  PROVE  ReadAt(text, i) = [unit |-> ValueOf(hex), next |-> i + 1 + close]
BY DEF PointAt, ReadAt, FirstClose

LEMMA ReadByte ==
  ASSUME NEW text, NEW i, NEW rest, NEW hex, rest = After(text, i),
         text[i] = Backslash, BeginsEscape(rest), rest[1] # LetterU,
         Len(rest) >= 3, hex = SubSeq(rest, 2, 3), AllHex(hex)
  PROVE  ReadAt(text, i) = [unit |-> -ValueOf(hex), next |-> i + 4]
BY DEF ReadAt

LEMMA DigitsAreHex ==
  ASSUME NEW ds \in Seq(HexDigits), Len(ds) >= 1
  PROVE  AllHex(ds)
<1>1. \A c \in HexDigits : IsHexDigit(c)
  <2>1. \A c \in 48..57 : \E r \in {<<48, 57>>, <<65, 70>>, <<97, 102>>} : r[1] <= c /\ c <= r[2]
    OBVIOUS
  <2>2. \A c \in 65..70 : \E r \in {<<48, 57>>, <<65, 70>>, <<97, 102>>} : r[1] <= c /\ c <= r[2]
    OBVIOUS
  <2>3. QED  BY <2>1, <2>2 DEF IsHexDigit, Within, HexDigits
<1>2. ds # <<>> /\ DOMAIN ds = 1..Len(ds) /\ \A k \in 1..Len(ds) : ds[k] \in HexDigits
  OBVIOUS
<1>3. QED  BY <1>1, <1>2 DEF AllHex

\* s stands in text from i on.
Stands(text, i, s) == i + Len(s) - 1 <= Len(text) /\ \A j \in 1..Len(s) : text[i + j - 1] = s[j]

LEMMA ReadsByteBack ==
  ASSUME NEW text \in Seq(Nat), NEW i \in 1..Len(text), NEW b \in 1..255,
         Stands(text, i, ByteEscape(b))
  PROVE  ReadAt(text, i) = [unit |-> -b, next |-> i + 4]
<1> DEFINE e == ByteEscape(b)
           rest == After(text, i)
           hex == SubSeq(rest, 2, 3)
<1>1. /\ Len(e) = 4 /\ e[1] = Backslash /\ e[2] = LetterX
      /\ e[3] \in HexDigits /\ e[4] \in HexDigits /\ ValueOf(<<e[3], e[4]>>) = b
  BY Zenon, ByteEscapeIs
<1>2. i \in Nat /\ Len(text) \in Nat
  OBVIOUS
<1> HIDE DEF e
<1>3. i + 3 <= Len(text) /\ \A j \in 1..4 : text[i + j - 1] = e[j]
  BY <1>1, <1>2 DEF Stands, e
<1>4. text[i] = e[1] /\ text[i + 1] = e[2] /\ text[i + 2] = e[3] /\ text[i + 3] = e[4]
  <2>1. i + 1 - 1 = i /\ i + 2 - 1 = i + 1 /\ i + 3 - 1 = i + 2 /\ i + 4 - 1 = i + 3
    BY <1>2
  <2>2. text[i + 1 - 1] = e[1] /\ text[i + 2 - 1] = e[2]
        /\ text[i + 3 - 1] = e[3] /\ text[i + 4 - 1] = e[4]
    BY <1>3
  <2>3. QED  BY <2>1, <2>2
<1>5. rest \in Seq(Nat) /\ Len(rest) = Len(text) - i
  BY AfterIs
<1>6. \A j \in 1..(Len(text) - i) : rest[j] = text[i + j]
  BY AfterIs
<1> HIDE DEF rest
<1>7. rest[1] = LetterX /\ rest[2] = e[3] /\ rest[3] = e[4]
  <2>1. 1 \in 1..(Len(text) - i) /\ 2 \in 1..(Len(text) - i) /\ 3 \in 1..(Len(text) - i)
    <3>1. i + 3 <= Len(text)
      BY <1>3
    <3>2. Len(text) - i \in Nat /\ Len(text) - i >= 3
      BY <1>2, <3>1
    <3>3. \A n \in Nat : n >= 3 => 1 \in 1..n /\ 2 \in 1..n /\ 3 \in 1..n
      OBVIOUS
    <3>4. QED  BY <3>2, <3>3
  <2>2. rest[1] = text[i + 1]
    BY <1>6, <2>1
  <2>3. rest[2] = text[i + 2]
    BY <1>6, <2>1
  <2>4. rest[3] = text[i + 3]
    BY <1>6, <2>1
  <2>5. QED  BY <1>1, <1>4, <2>2, <2>3, <2>4
<1>8. Len(rest) \in Nat /\ Len(rest) >= 3
  BY <1>2, <1>3, <1>5
<1>9. hex = <<e[3], e[4]>>
  <2>1. \A k \in 2..3 : rest[k] \in Nat
    <3>1. \A k \in 2..3 : k \in 1..Len(rest)
      BY <1>8
    <3>2. \A k \in 1..Len(rest) : rest[k] \in Nat
      <4>1. rest \in Seq(Nat)
        BY <1>5
      <4>2. QED  BY <4>1, ElementOfSeq
    <3>3. QED  BY <3>1, <3>2
  <2>2. hex \in Seq(Nat)
    BY <2>1, SubSeqProperties
  <2>3. Len(hex) = IF 2 <= 3 THEN 3 - 2 + 1 ELSE 0
    BY <2>1, SubSeqProperties
  <2>4. \A k \in 1..2 : hex[k] = rest[k + 1]
    OBVIOUS
  <2>5. Len(hex) = 2 /\ hex[1] = e[3] /\ hex[2] = e[4]
    BY <1>7, <2>3, <2>4
  <2> HIDE DEF hex
  <2>6. QED  BY <2>2, <2>5
<1>10. hex \in Seq(HexDigits) /\ Len(hex) >= 1
  <2>1. \A c, d \in HexDigits : <<c, d>> \in Seq(HexDigits) /\ Len(<<c, d>>) >= 1
    OBVIOUS
  <2> HIDE DEF hex
  <2>2. QED  BY <1>1, <1>9, <2>1
<1> HIDE DEF hex
<1>11. AllHex(hex) /\ ValueOf(hex) = b
  BY <1>1, <1>9, <1>10, DigitsAreHex
<1>12. BeginsEscape(rest) /\ rest[1] # LetterU
  <2>1. IsHexDigit(rest[2])
    <3>1. DOMAIN hex = 1..Len(hex) /\ Len(hex) \in Nat
      BY <1>10
    <3>2. 1 \in DOMAIN hex
      BY <1>10, <3>1
    <3>3. IsHexDigit(hex[1])
      BY <1>11, <3>2 DEF AllHex
    <3>4. hex[1] = e[3]
      BY <1>9
    <3>5. QED  BY <1>7, <3>3, <3>4
  <2>2. Len(rest) >= 2
    BY <1>8
  <2>3. LetterX # LetterU
    BY DEF LetterX, LetterU
  <2>4. QED  BY <1>7, <2>1, <2>2, <2>3 DEF BeginsEscape
<1>13. ReadAt(text, i) = [unit |-> -ValueOf(hex), next |-> i + 4]
  <2>1. text[i] = Backslash /\ Len(rest) >= 3
    BY <1>1, <1>4, <1>8
  <2>2. QED  BY <1>11, <1>12, <2>1, ReadByte DEF hex, rest
<1> HIDE DEF hex
<1>14. QED  BY <1>11, <1>13

LEMMA ReadsPointBack ==
  ASSUME NEW text \in Seq(Nat), NEW i \in 1..Len(text), NEW u \in Nat,
         Stands(text, i, CodePoint(u))
  PROVE  ReadAt(text, i) = [unit |-> u, next |-> i + Len(CodePoint(u))]
<1> DEFINE e == CodePoint(u)
           h == Hex(u)
           m == Len(h)
           rest == After(text, i)
           hex == SubSeq(rest, 3, m + 2)
<1>1. h \in Seq(HexDigits) /\ m \in Nat /\ m >= 1 /\ ValueOf(h) = u
  BY HexReadsBack
<1>2. /\ Len(e) = m + 4 /\ e[1] = Backslash /\ e[2] = LetterU /\ e[3] = OpenBrace
      /\ e[m + 4] = CloseBrace
  BY CodePointIs
<1>3. \A j \in 1..m : e[3 + j] = h[j]
  BY CodePointIs
<1>4. i \in Nat /\ Len(text) \in Nat
  OBVIOUS
<1> HIDE DEF e, h, m
<1>5. i + m + 3 <= Len(text) /\ \A j \in 1..(m + 4) : text[i + j - 1] = e[j]
  BY <1>1, <1>2, <1>4 DEF Stands, e
<1>6. rest \in Seq(Nat) /\ Len(rest) = Len(text) - i
  BY AfterIs
<1>7. \A j \in 1..(Len(text) - i) : rest[j] = text[i + j]
  BY AfterIs
<1> HIDE DEF rest
<1>8. \A j \in 1..(m + 3) : rest[j] = e[j + 1]
  <2> SUFFICES ASSUME NEW j \in 1..(m + 3)
               PROVE  rest[j] = e[j + 1]
    OBVIOUS
  <2>1. j \in 1..(Len(text) - i) /\ j + 1 \in 1..(m + 4) /\ i + (j + 1) - 1 = i + j
    BY <1>1, <1>4, <1>5
  <2>2. rest[j] = text[i + j]
    BY <1>7, <2>1
  <2>3. text[i + (j + 1) - 1] = e[j + 1]
    BY <1>5, <2>1
  <2>4. QED  BY <2>1, <2>2, <2>3
<1>9. text[i] = Backslash
  <2>1. 1 \in 1..(m + 4) /\ i + 1 - 1 = i
    BY <1>1, <1>4
  <2>2. text[i + 1 - 1] = e[1]
    BY <1>5, <2>1
  <2>3. QED  BY <1>2, <2>1, <2>2
<1>10. rest[1] = LetterU /\ rest[2] = OpenBrace /\ Len(rest) >= m + 3
  <2>1. 1 \in 1..(m + 3) /\ 2 \in 1..(m + 3) /\ 1 + 1 = 2 /\ 2 + 1 = 3
    BY <1>1
  <2>2. rest[1] = e[2] /\ rest[2] = e[3]
    BY <1>8, <2>1
  <2>3. Len(rest) >= m + 3
    BY <1>1, <1>4, <1>5, <1>6
  <2>4. QED  BY <1>2, <2>2, <2>3
<1>11. \A j \in 1..m : rest[2 + j] = h[j]
  <2> SUFFICES ASSUME NEW j \in 1..m
               PROVE  rest[2 + j] = h[j]
    OBVIOUS
  <2>1. 2 + j \in 1..(m + 3) /\ (2 + j) + 1 = 3 + j
    BY <1>1
  <2>2. rest[2 + j] = e[3 + j]
    BY <1>8, <2>1
  <2>3. QED  BY <1>3, <2>2
<1>12. rest[m + 3] = CloseBrace
  <2>1. m + 3 \in 1..(m + 3) /\ (m + 3) + 1 = m + 4
    BY <1>1
  <2>2. rest[m + 3] = e[m + 4]
    BY <1>8, <2>1
  <2>3. QED  BY <1>2, <2>2
<1>13. FirstClose(rest) = m + 3
  <2>1. m + 3 \in 1..Len(rest) /\ Len(rest) \in Nat
    BY <1>1, <1>6, <1>10
  <2>2. ASSUME NEW j \in 1..Len(rest), j < m + 3
        PROVE  rest[j] # CloseBrace
    <3>1. j = 1 \/ j = 2 \/ (j - 2 \in 1..m /\ 2 + (j - 2) = j)
      BY <1>1, <2>1, <2>2
    <3>2. LetterU # CloseBrace /\ OpenBrace # CloseBrace
      BY DEF LetterU, OpenBrace, CloseBrace
    <3>3. \A c \in HexDigits : c # CloseBrace
      BY DEF HexDigits, CloseBrace
    <3>4. CASE j = 1
      BY <1>10, <3>2, <3>4
    <3>5. CASE j = 2
      BY <1>10, <3>2, <3>5
    <3>6. CASE j - 2 \in 1..m /\ 2 + (j - 2) = j
      <4>1. rest[j] = h[j - 2] /\ h[j - 2] \in HexDigits
        <5>1. rest[2 + (j - 2)] = h[j - 2]
          BY <1>11, <3>6
        <5>2. h[j - 2] \in HexDigits
          BY <1>1, <3>6 DEF m
        <5>3. QED  BY <3>6, <5>1, <5>2
      <4>2. QED  BY <3>3, <4>1
    <3>7. QED  BY <3>1, <3>4, <3>5, <3>6
  <2>3. QED  BY <1>12, <2>1, <2>2, FirstCloseIs
<1>14. hex = h
  <2>1. \A k \in 3..(m + 2) : rest[k] \in Nat
    <3>1. \A k \in 3..(m + 2) : k \in 1..Len(rest)
      BY <1>1, <1>6, <1>10
    <3>2. \A k \in 1..Len(rest) : rest[k] \in Nat
      <4>1. rest \in Seq(Nat)
        BY <1>6
      <4>2. QED  BY <4>1, ElementOfSeq
    <3>3. QED  BY <3>1, <3>2
  <2>2. 3 \in Int /\ m + 2 \in Int /\ (m + 2) - 3 + 1 = m /\ 3 <= m + 2
    BY <1>1
  <2>3. hex \in Seq(Nat)
    BY <2>1, <2>2, SubSeqProperties
  <2>4. Len(hex) = IF 3 <= m + 2 THEN (m + 2) - 3 + 1 ELSE 0
    BY <2>1, <2>2, SubSeqProperties
  <2>5. Len(hex) = m
    BY <2>2, <2>4
  <2>6. \A k \in 1..m : hex[k] = h[k]
    <3>1. \A k \in 1..m : hex[k] = rest[2 + k]
      BY <1>1
    <3>2. QED  BY <1>11, <3>1
  <2>7. h \in Seq(Nat) /\ Len(h) = m
    <3>1. HexDigits \subseteq Nat
      BY DEF HexDigits
    <3>2. h \in Seq(Nat)
      BY <1>1, <3>1, SeqMonotonic
    <3>3. QED  BY <3>2 DEF m
  <2> HIDE DEF hex
  <2>8. QED  BY <2>3, <2>5, <2>6, <2>7, SeqEqual
<1> HIDE DEF hex
<1>15. AllHex(hex) /\ ValueOf(hex) = u
  <2>1. AllHex(h)
    BY <1>1, DigitsAreHex DEF m
  <2>2. QED  BY <1>1, <1>14, <2>1
<1>16. ReadAt(text, i) = [unit |-> ValueOf(hex), next |-> i + 1 + (m + 3)]
  <2> DEFINE close == m + 3
  <2>1. close \in Nat /\ close > 0 /\ close - 1 = m + 2 /\ Len(rest) >= 2
    BY <1>1, <1>6, <1>10
  <2>2. BeginsEscape(rest)
    BY <1>10, <2>1 DEF BeginsEscape
  <2>3. close = FirstClose(rest) /\ hex = SubSeq(rest, 3, close - 1)
    BY <1>13, <2>1 DEF hex
  <2> HIDE DEF close
  <2>4. rest = After(text, i)
    BY DEF rest
  <2>5. ReadAt(text, i) = [unit |-> ValueOf(hex), next |-> i + 1 + close]
    <3>1. PointAt(text, i, rest, close, hex)
      BY <1>9, <1>10, <1>15, <2>1, <2>2, <2>3, <2>4 DEF PointAt
    <3>2. QED  BY <3>1, ReadPoint
  <2>6. QED  BY <2>5 DEF close
<1>17. i + 1 + (m + 3) = i + Len(e)
  BY <1>1, <1>2, <1>4
<1>18. QED  BY <1>15, <1>16, <1>17 DEF e

-----------------------------------------------------------------------------
(* Reading a drawing.                                                      *)

LEMMA OffsetsGrow ==
  ASSUME NEW R, NEW s \in Seq(Seq(R)), NEW off, NEW t, Laid(off, s, t)
  PROVE  \A k \in 0..Len(s) : off[k] \in Nat /\ off[k] <= Len(t)
<1> DEFINE n == Len(s)
           Good == {m \in Nat : m \in 0..n => off[n - m] <= Len(t)}
<1>1. /\ n \in Nat /\ off \in [0..n -> Nat] /\ Len(t) = off[n]
      /\ \A k \in 1..n : off[k] = off[k - 1] + Len(s[k])
  BY DEF Laid
<1>2. \A k \in 1..n : Len(s[k]) \in Nat
  <2>1. \A k \in 1..n : s[k] \in Seq(R)
    OBVIOUS
  <2>2. QED  BY <2>1
<1> HIDE DEF n
<1>3. 0 \in Good
  <2>1. n - 0 = n /\ off[n] \in Nat
    BY <1>1
  <2>2. QED  BY <1>1, <2>1
<1>4. ASSUME NEW m \in Nat, m \in Good
      PROVE  m + 1 \in Good
  <2> SUFFICES ASSUME m + 1 \in 0..n
               PROVE  off[n - (m + 1)] <= Len(t)
    OBVIOUS
  <2>1. /\ m \in 0..n /\ n - m \in 1..n /\ (n - m) - 1 = n - (m + 1)
        /\ n - (m + 1) \in 0..n /\ n - m \in 0..n
    BY <1>1
  <2>2. off[n - m] = off[n - (m + 1)] + Len(s[n - m])
    <3>1. off[n - m] = off[(n - m) - 1] + Len(s[n - m])
      BY <1>1, <2>1
    <3>2. QED  BY <2>1, <3>1
  <2>3. off[n - (m + 1)] \in Nat /\ Len(s[n - m]) \in Nat /\ off[n] \in Nat
    BY <1>1, <1>2, <2>1
  <2>4. off[n - m] <= Len(t)
    BY <1>4, <2>1
  <2>5. QED  BY <1>1, <2>2, <2>3, <2>4
<1> HIDE DEF Good
<1>5. \A m \in Nat : m \in Good
  BY <1>3, <1>4, Induction
<1>6. ASSUME NEW k \in 0..n
      PROVE  off[k] \in Nat /\ off[k] <= Len(t)
  <2>1. n - k \in Nat /\ n - k \in 0..n /\ n - (n - k) = k
    BY <1>1
  <2>2. off[n - (n - k)] <= Len(t)
    BY <1>5, <2>1 DEF Good
  <2>3. QED  BY <1>1, <2>1, <2>2
<1>7. QED  BY <1>6 DEF n

\* Where the unit k of t is in the text.
LEMMA UnitStands ==
  ASSUME NEW t \in Seq(Unit), NEW text \in Seq(Nat), NEW off, Laid(off, Spelled(t), text),
         NEW k \in 1..Len(t)
  PROVE  /\ off[k - 1] \in Nat /\ off[k] = off[k - 1] + Len(Spelled(t)[k])
         /\ Len(Spelled(t)[k]) \in Nat /\ Len(Spelled(t)[k]) >= 1
         /\ off[k - 1] + 1 \in 1..Len(text) /\ off[k] <= Len(text)
         /\ Stands(text, off[k - 1] + 1, Spelled(t)[k])
<1> DEFINE s == Spelled(t)
           o == off[k - 1]
<1>1. s \in Seq(Seq(Nat)) /\ Len(s) = Len(t) /\ Len(s[k]) >= 1
  BY SpelledIsSeq
<1>2. Len(t) \in Nat /\ k \in 1..Len(s) /\ k - 1 \in 0..Len(s) /\ k \in 0..Len(s)
  BY <1>1
<1>3. Len(s[k]) \in Nat
  <2>1. s[k] \in Seq(Nat)
    BY <1>1, <1>2
  <2>2. QED  BY <2>1
<1> HIDE DEF s
<1>4. /\ off[k] = o + Len(s[k])
      /\ \A j \in 1..Len(s[k]) : text[o + j] = s[k][j]
  BY <1>2 DEF Laid, s
<1>5. \A m \in 0..Len(s) : off[m] \in Nat /\ off[m] <= Len(text)
  BY <1>1, OffsetsGrow DEF s
<1>6. o \in Nat /\ off[k] <= Len(text)
  BY <1>2, <1>5
<1> HIDE DEF o
<1>7. Len(text) \in Nat
  OBVIOUS
<1>8. o + 1 \in 1..Len(text)
  BY <1>1, <1>3, <1>4, <1>6, <1>7
<1>9. Stands(text, o + 1, s[k])
  <2>1. (o + 1) + Len(s[k]) - 1 <= Len(text)
    BY <1>3, <1>4, <1>6, <1>7
  <2>2. \A j \in 1..Len(s[k]) : (o + 1) + j - 1 = o + j
    BY <1>3, <1>6
  <2>3. \A j \in 1..Len(s[k]) : text[(o + 1) + j - 1] = s[k][j]
    BY <1>4, <2>2
  <2>4. QED  BY <2>1, <2>3 DEF Stands
<1>10. QED  BY <1>1, <1>3, <1>4, <1>6, <1>8, <1>9 DEF s, o

\* It begins with itself, or with a backslash.
LEMMA UnitBegins ==
  ASSUME NEW t \in Seq(Unit), NEW text \in Seq(Nat), NEW off, Laid(off, Spelled(t), text),
         NEW k \in 1..Len(t), text[off[k - 1] + 1] # Backslash
  PROVE  IsChar(t, k) /\ text[off[k - 1] + 1] = t[k] /\ off[k] = off[k - 1] + 1
<1> DEFINE p == Spelled(t)[k]
           o == off[k - 1]
<1>1. o \in Nat /\ off[k] = o + Len(p) /\ Len(p) \in Nat /\ Len(p) >= 1 /\ Stands(text, o + 1, p)
  BY UnitStands
<1> HIDE DEF p, o
<1>2. text[o + 1] = p[1]
  <2>1. 1 \in 1..Len(p) /\ (o + 1) + 1 - 1 = o + 1
    BY <1>1
  <2>2. text[(o + 1) + 1 - 1] = p[1]
    BY <1>1, <2>1 DEF Stands
  <2>3. QED  BY <2>1, <2>2
<1>3. ~IsByte(t, k)
  <2> SUFFICES ASSUME IsByte(t, k) PROVE FALSE
    OBVIOUS
  <2>1. -t[k] \in 1..255 /\ p = ByteEscape(-t[k])
    <3>1. t[k] \in -255..-1 /\ p = ByteEscape(-t[k])
      BY DEF IsByte, p
    <3>2. QED  BY <3>1, NegatedByte
  <2>2. p[1] = Backslash
    BY Zenon, <2>1, ByteEscapeIs
  <2>3. QED  BY <1>2, <2>2 DEF o
<1>4. ~IsPoint(t, k)
  <2> SUFFICES ASSUME IsPoint(t, k) PROVE FALSE
    OBVIOUS
  <2>1. t[k] \in Nat /\ p = CodePoint(t[k])
    BY DEF IsPoint, p
  <2>2. p[1] = Backslash
    BY <2>1, CodePointIs
  <2>3. QED  BY <1>2, <2>2 DEF o
<1>5. IsChar(t, k)
  BY <1>3, <1>4, SpelledIs
<1>6. p = <<t[k]>>
  BY <1>5 DEF IsChar, p
<1>7. p[1] = t[k] /\ Len(p) = 1
  BY <1>6
<1>8. QED  BY <1>1, <1>2, <1>5, <1>7 DEF o

\* A backslash that is drawn as itself does not read as an introducer: what follows
\* it in the text would follow it in the value.
LEMMA BackslashIsPlain ==
  ASSUME NEW t \in Seq(Unit), NEW text \in Seq(Nat), NEW off, Laid(off, Spelled(t), text),
         NEW k \in 1..Len(t), BeginsEscape(After(text, off[k]))
  PROVE  BeginsEscape(After(t, k))
<1> DEFINE n == Len(t)
           o == off[k]
           rest == After(text, o)
<1>1. n \in Nat /\ k \in Nat /\ k <= n /\ Len(text) \in Nat
  OBVIOUS
<1>2. Len(text) = off[n]
  <2>1. Len(Spelled(t)) = n
    BY SpelledIsSeq
  <2>2. QED  BY <2>1 DEF Laid
<1>3. \A j \in 1..n : off[j] \in Nat /\ off[j] <= Len(text)
  <2>1. Laid(off, Spelled(t), text) /\ Spelled(t) \in Seq(Seq(Nat)) /\ Len(Spelled(t)) = n
    BY SpelledIsSeq
  <2>2. \A j \in 0..n : off[j] \in Nat /\ off[j] <= Len(text)
    BY <2>1, OffsetsGrow
  <2>3. QED  BY <2>2
<1>4. o \in Nat /\ o <= Len(text)
  BY <1>3
<1>5. o >= 1
  <2>1. off[k - 1] \in Nat
    BY UnitStands
  <2>2. off[k] = off[k - 1] + Len(Spelled(t)[k])
    BY UnitStands
  <2>3. Len(Spelled(t)[k]) \in Nat /\ Len(Spelled(t)[k]) >= 1
    BY UnitStands
  <2>4. QED  BY <2>1, <2>2, <2>3
<1> HIDE DEF n, o, rest
<1>6. o \in 1..Len(text)
  BY <1>1, <1>4, <1>5
<1>7. Len(rest) = Len(text) - o
  BY <1>6, AfterIs DEF rest
<1>8. \A j \in 1..(Len(text) - o) : rest[j] = text[o + j]
  BY <1>6, AfterIs DEF rest
<1>9. /\ Len(rest) >= 2
      /\ \/ rest[1] = LetterU /\ rest[2] = OpenBrace
         \/ rest[1] = LetterX /\ IsHexDigit(rest[2])
  BY DEF BeginsEscape, rest, o
<1>10. rest[1] = text[o + 1] /\ rest[2] = text[o + 2] /\ o + 2 <= Len(text)
  <2>1. o + 2 <= Len(text)
    BY <1>1, <1>4, <1>7, <1>9
  <2>2. 1 \in 1..(Len(text) - o) /\ 2 \in 1..(Len(text) - o)
    BY <1>1, <1>4, <2>1
  <2>3. QED  BY <1>8, <2>1, <2>2
<1>11. rest[1] # Backslash /\ rest[2] # Backslash
  <2>1. LetterU # Backslash /\ LetterX # Backslash /\ OpenBrace # Backslash
    BY DEF LetterU, LetterX, OpenBrace, Backslash
  <2>2. ~IsHexDigit(Backslash)
    <3>1. \A r \in {<<48, 57>>, <<65, 70>>, <<97, 102>>} : ~(r[1] <= 92 /\ 92 <= r[2])
      OBVIOUS
    <3>2. QED  BY <3>1 DEF IsHexDigit, Within, Backslash
  <2>3. QED  BY <1>9, <2>1, <2>2
<1>12. k + 1 \in 1..n /\ (k + 1) - 1 = k
  <2>1. k # n
    BY <1>1, <1>2, <1>4, <1>10 DEF o
  <2>2. QED  BY <1>1, <2>1
<1>13. text[o + 1] = t[k + 1] /\ off[k + 1] = o + 1
  <2>1. text[off[(k + 1) - 1] + 1] # Backslash
    BY <1>10, <1>11, <1>12 DEF o
  <2>2. text[off[(k + 1) - 1] + 1] = t[k + 1] /\ off[k + 1] = off[(k + 1) - 1] + 1
    <3>1. k + 1 \in 1..Len(t)
      BY <1>12 DEF n
    <3>2. QED  BY <2>1, <3>1, UnitBegins
  <2>3. QED  BY <1>12, <2>2 DEF o
<1>14. k + 2 \in 1..n /\ (k + 2) - 1 = k + 1
  <2>1. k + 1 # n
    BY <1>1, <1>2, <1>4, <1>10, <1>13
  <2>2. QED  BY <1>1, <1>12, <2>1
<1>15. text[o + 2] = t[k + 2]
  <2>1. off[(k + 2) - 1] + 1 = o + 2
    BY <1>4, <1>13, <1>14
  <2>2. text[off[(k + 2) - 1] + 1] # Backslash
    BY <1>10, <1>11, <2>1
  <2>3. k + 2 \in 1..Len(t)
    BY <1>14 DEF n
  <2>4. text[off[(k + 2) - 1] + 1] = t[k + 2]
    BY <2>2, <2>3, UnitBegins
  <2>5. QED  BY <2>1, <2>4
<1>16. Len(After(t, k)) = n - k
  BY AfterIs DEF n
<1>17. \A j \in 1..(n - k) : After(t, k)[j] = t[k + j]
  BY AfterIs DEF n
<1>18. Len(After(t, k)) >= 2 /\ After(t, k)[1] = rest[1] /\ After(t, k)[2] = rest[2]
  <2>1. 1 \in 1..(n - k) /\ 2 \in 1..(n - k) /\ n - k >= 2
    BY <1>1, <1>14
  <2>2. QED  BY <1>10, <1>13, <1>15, <1>16, <1>17, <2>1
<1>19. QED  BY <1>9, <1>18 DEF BeginsEscape

LEMMA UnitReadsBack ==
  ASSUME NEW t \in Seq(Unit), NEW text \in Seq(Nat), NEW off, Laid(off, Spelled(t), text),
         NEW k \in 1..Len(t)
  PROVE  ReadAt(text, off[k - 1] + 1) = [unit |-> t[k], next |-> off[k] + 1]
<1> DEFINE p == Spelled(t)[k]
           o == off[k - 1]
<1>1. o \in Nat /\ off[k] = o + Len(p) /\ Len(p) \in Nat
  BY UnitStands
<1>2. o + 1 \in 1..Len(text) /\ Stands(text, o + 1, p)
  BY UnitStands
<1> HIDE DEF o, p
<1>3. CASE IsByte(t, k)
  <2>1. -t[k] \in 1..255 /\ -(-t[k]) = t[k] /\ p = ByteEscape(-t[k])
    <3>1. t[k] \in -255..-1 /\ p = ByteEscape(-t[k])
      BY <1>3 DEF IsByte, p
    <3>2. QED  BY <3>1, NegatedByte
  <2>2. Len(p) = 4
    BY Zenon, <2>1, ByteEscapeIs
  <2>3. ReadAt(text, o + 1) = [unit |-> -(-t[k]), next |-> (o + 1) + 4]
    BY <1>2, <2>1, ReadsByteBack
  <2>4. (o + 1) + 4 = off[k] + 1
    BY <1>1, <2>2
  <2>5. QED  BY <2>1, <2>3, <2>4 DEF o
<1>4. CASE IsPoint(t, k)
  <2>1. t[k] \in Nat /\ p = CodePoint(t[k])
    BY <1>4 DEF IsPoint, p
  <2>2. ReadAt(text, o + 1) = [unit |-> t[k], next |-> (o + 1) + Len(p)]
    BY <1>2, <2>1, ReadsPointBack
  <2>3. (o + 1) + Len(p) = off[k] + 1
    BY <1>1
  <2>4. QED  BY <2>2, <2>3 DEF o
<1>5. CASE IsChar(t, k)
  <2>1. p = <<t[k]>> /\ ~(t[k] = Backslash /\ BeginsEscape(After(t, k)))
    BY <1>5 DEF IsChar, p
  <2>2. Len(p) = 1 /\ p[1] = t[k]
    BY <2>1
  <2>3. off[k] = o + 1
    BY <1>1, <2>2
  <2>4. text[o + 1] = t[k]
    <3>1. 1 \in 1..Len(p) /\ (o + 1) + 1 - 1 = o + 1
      BY <1>1, <2>2
    <3>2. text[(o + 1) + 1 - 1] = p[1]
      BY <1>2, <3>1 DEF Stands
    <3>3. QED  BY <2>2, <3>1, <3>2
  <2>5. text[o + 1] # Backslash \/ ~BeginsEscape(After(text, o + 1))
    <3>1. BeginsEscape(After(text, off[k])) => BeginsEscape(After(t, k))
      BY BackslashIsPlain
    <3>2. QED  BY <2>1, <2>3, <2>4, <3>1
  <2>6. ReadAt(text, o + 1) = [unit |-> text[o + 1], next |-> (o + 1) + 1]
    BY <2>5, ReadPlain
  <2>7. QED  BY <2>3, <2>4, <2>6 DEF o
<1>6. QED  BY <1>3, <1>4, <1>5, SpelledIs

\* What is read is behind what was read, within the text.
LEMMA ReadMoves ==
  ASSUME NEW text \in Seq(Nat), NEW i \in 1..Len(text)
  PROVE  ReadAt(text, i).next \in 1..(Len(text) + 1) /\ ReadAt(text, i).next > i
<1> DEFINE rest == After(text, i)
           close == FirstClose(rest)
           hex == SubSeq(rest, 3, close - 1)
           byte == SubSeq(rest, 2, 3)
           n == Len(text)
<1>1. n \in Nat /\ i \in Nat /\ i <= n /\ i >= 1
  OBVIOUS
<1>2. Len(rest) = n - i
  BY AfterIs
<1>3. close \in 0..Len(rest)
  <2> DEFINE I == {j \in 1..Len(rest) : rest[j] = CloseBrace}
  <2>1. close = IF I # {} THEN Min(I) ELSE 0
    BY DEF FirstClose, SelectInSeq
  <2>2. I \subseteq Nat /\ I \subseteq 1..Len(rest)
    OBVIOUS
  <2>3. Len(rest) \in Nat
    BY <1>1, <1>2
  <2> HIDE DEF I, rest, close
  <2>4. CASE I # {}
    <3>1. \E j \in I : \A k \in I : j <= k
      BY <2>2, <2>4, Least
    <3>2. Min(I) \in I
      BY <3>1 DEF Min
    <3>3. close = Min(I) /\ Min(I) \in 1..Len(rest)
      BY <2>1, <2>2, <2>4, <3>2
    <3>4. QED  BY <2>3, <3>3
  <2>5. QED  BY <2>1, <2>3, <2>4
<1>4. ReadAt(text, i).next =
        IF text[i] # Backslash \/ ~BeginsEscape(rest) THEN i + 1
        ELSE IF rest[1] = LetterU
        THEN IF close > 0 /\ AllHex(hex) THEN i + 1 + close ELSE n + 1
        ELSE IF Len(rest) >= 3 /\ AllHex(byte) THEN i + 4 ELSE n + 1
  BY DEF ReadAt, FirstClose
<1> HIDE DEF rest, close, hex, byte, n
<1>5. i + 1 \in 1..(n + 1) /\ i + 1 > i /\ n + 1 \in 1..(n + 1) /\ n + 1 > i
  BY <1>1
<1>6. close > 0 => i + 1 + close \in 1..(n + 1) /\ i + 1 + close > i
  BY <1>1, <1>2, <1>3
<1>7. Len(rest) >= 3 => i + 4 \in 1..(n + 1) /\ i + 4 > i
  BY <1>1, <1>2
<1>8. \/ ReadAt(text, i).next = i + 1 \/ ReadAt(text, i).next = n + 1
      \/ close > 0 /\ ReadAt(text, i).next = i + 1 + close
      \/ Len(rest) >= 3 /\ ReadAt(text, i).next = i + 4
  BY <1>4
<1>9. QED  BY <1>5, <1>6, <1>7, <1>8 DEF n

UnescapeStep(f, text, i) ==
  LET r == ReadAt(text, i) IN IF i > Len(text) THEN <<>> ELSE <<r.unit>> \o f[r.next]
Unescapes(f, text) == f = [i \in 1..(Len(text) + 1) |-> UnescapeStep(f, text, i)]

LEMMA UnescapeUnfolds ==
  ASSUME NEW text
  PROVE  Unescape(text) = (CHOOSE f : Unescapes(f, text))[1]
BY DEF Unescape, Unescapes, UnescapeStep

LEMMA UnescapeSolves ==
  ASSUME NEW text \in Seq(Nat)
  PROVE  \E f : Unescapes(f, text)
<1> DEFINE n == Len(text)
           R == {ReadAt(text, i).unit : i \in 1..n}
           piece == [i \in 1..n |-> <<ReadAt(text, i).unit>>]
           next == [i \in 1..n |-> ReadAt(text, i).next]
<1>1. n \in Nat
  OBVIOUS
<1>2. piece \in [1..n -> Seq(R)]
  <2>1. \A i \in 1..n : ReadAt(text, i).unit \in R
    OBVIOUS
  <2> HIDE DEF R
  <2>2. \A i \in 1..n : <<ReadAt(text, i).unit>> \in Seq(R)
    BY <2>1
  <2>3. QED  BY <2>2
<1>3. next \in [1..n -> 1..(n + 1)] /\ \A i \in 1..n : next[i] > i
  BY ReadMoves
<1>4. \A i \in 1..n : piece[i] = <<ReadAt(text, i).unit>> /\ next[i] = ReadAt(text, i).next
  OBVIOUS
<1>5. \A i \in 1..(n + 1) : i > n \/ i \in 1..n
  BY <1>1
<1> HIDE DEF piece, next, R
<1>6. PICK F : Scans(F, n, piece, next)
  <2> HIDE DEF n
  <2>1. QED  BY <1>1, <1>2, <1>3, ScanExists
<1>7. \A i \in 1..(n + 1) :
        UnescapeStep(F, text, i) = IF i > n THEN <<>> ELSE piece[i] \o F[next[i]]
  <2> SUFFICES ASSUME NEW i \in 1..(n + 1)
               PROVE  UnescapeStep(F, text, i) = IF i > n THEN <<>> ELSE piece[i] \o F[next[i]]
    OBVIOUS
  <2>1. CASE i > n
    BY <2>1 DEF UnescapeStep
  <2>2. CASE ~(i > n)
    <3>1. i \in 1..n
      BY <1>5, <2>2
    <3>2. UnescapeStep(F, text, i) = <<ReadAt(text, i).unit>> \o F[ReadAt(text, i).next]
      BY <2>2 DEF UnescapeStep
    <3>3. QED  BY <1>4, <2>2, <3>1, <3>2
  <2>3. QED  BY <2>1, <2>2
<1>8. F = [i \in 1..(n + 1) |-> UnescapeStep(F, text, i)]
  BY <1>6, <1>7 DEF Scans
<1>9. QED  BY <1>8 DEF Unescapes

\* Undoing the escapes of a drawing gives the units drawn.
LEMMA UnescapeUndoes ==
  ASSUME NEW t \in Seq(Unit)
  PROVE  Unescape(Escaped(t)) = t
<1> DEFINE text == FlattenSeq(Spelled(t))
           n == Len(t)
           F == CHOOSE f : Unescapes(f, text)
<1>1. Spelled(t) \in Seq(Seq(Nat)) /\ Len(Spelled(t)) = n /\ n \in Nat
  BY SpelledIsSeq
<1>2. text \in Seq(Nat) /\ \E off : Laid(off, Spelled(t), text)
  BY <1>1, FlattenIsLaid
<1>3. Unescapes(F, text)
  <2> HIDE DEF text
  <2>1. QED  BY <1>2, UnescapeSolves
<1>4. Unescape(Escaped(t)) = F[1]
  BY EscapedIsSpelled, UnescapeUnfolds
<1> HIDE DEF text, F
<1>5. PICK off : Laid(off, Spelled(t), text)
  BY <1>2
<1>6. off[0] = 0 /\ Len(text) = off[n] /\ Len(text) \in Nat
  BY <1>1, <1>2, <1>5 DEF Laid
<1>7. \A i \in 1..(Len(text) + 1) : F[i] = UnescapeStep(F, text, i)
  BY <1>3 DEF Unescapes
<1> DEFINE Good == {m \in Nat : m \in 0..n => F[off[n - m] + 1] = SubSeq(t, n - m + 1, n)}
<1>8. 0 \in Good
  <2>1. Len(text) + 1 \in 1..(Len(text) + 1) /\ Len(text) + 1 > Len(text)
    BY <1>6
  <2>2. F[Len(text) + 1] = <<>>
    BY <1>7, <2>1 DEF UnescapeStep
  <2>3. n - 0 = n /\ n - 0 + 1 = n + 1 /\ n + 1 \in Int /\ n \in Int /\ n < n + 1
    BY <1>1
  <2>4. SubSeq(t, n + 1, n) = <<>>
    BY <2>3, SubSeqEmpty
  <2>5. F[off[n - 0] + 1] = SubSeq(t, n - 0 + 1, n)
    BY <1>6, <2>2, <2>3, <2>4
  <2>6. QED  BY <2>5
<1>9. ASSUME NEW m \in Nat, m \in Good
      PROVE  m + 1 \in Good
  <2> SUFFICES ASSUME m + 1 \in 0..n
               PROVE  F[off[n - (m + 1)] + 1] = SubSeq(t, n - (m + 1) + 1, n)
    OBVIOUS
  <2> DEFINE k == n - m
  <2>1. /\ m \in 0..n /\ k \in 1..n /\ n - (m + 1) = k - 1 /\ n - (m + 1) + 1 = k
        /\ n - m = k /\ n - m + 1 = k + 1
    BY <1>1
  <2> HIDE DEF k
  <2>2. F[off[k] + 1] = SubSeq(t, k + 1, n)
    BY <1>9, <2>1
  <2>3. ReadAt(text, off[k - 1] + 1) = [unit |-> t[k], next |-> off[k] + 1]
    BY <1>2, <1>5, <2>1, UnitReadsBack
  <2>4. off[k - 1] + 1 \in 1..Len(text)
    BY <1>2, <1>5, <2>1, UnitStands
  <2>5. F[off[k - 1] + 1] = <<t[k]>> \o F[off[k] + 1]
    <3>1. off[k - 1] + 1 \in 1..(Len(text) + 1) /\ ~(off[k - 1] + 1 > Len(text))
      BY <1>6, <2>4
    <3>2. F[off[k - 1] + 1] = UnescapeStep(F, text, off[k - 1] + 1)
      BY <1>7, <3>1
    <3>3. QED  BY <2>3, <3>1, <3>2 DEF UnescapeStep
  <2>6. SubSeq(t, k, n) = <<t[k]>> \o SubSeq(t, k + 1, n)
    <3>1. k \in 1..Len(t) /\ n \in k..Len(t)
      BY <1>1, <2>1
    <3>2. QED  BY <3>1, SubSeqRecursiveFirst
  <2>7. F[off[k - 1] + 1] = SubSeq(t, k, n)
    BY <2>2, <2>5, <2>6
  <2>8. QED  BY <2>1, <2>7
<1> HIDE DEF Good
<1>10. n \in Good
  BY <1>1, <1>8, <1>9, Induction
<1>11. F[off[0] + 1] = SubSeq(t, 1, n)
  <2>1. n \in 0..n /\ n - n = 0 /\ n - n + 1 = 1
    BY <1>1
  <2>2. F[off[n - n] + 1] = SubSeq(t, n - n + 1, n)
    BY <1>10, <2>1 DEF Good
  <2>3. QED  BY <2>1, <2>2
<1>12. SubSeq(t, 1, n) = t
  BY SubSeqFull
<1>13. QED  BY <1>4, <1>6, <1>11, <1>12

\* Nothing hidden is drawn as itself.
LEMMA NothingHidden ==
  ASSUME NEW t \in Seq(Unit)
  PROVE  \A p \in DOMAIN Escaped(t) : ~IsHidden(Escaped(t)[p])
<1> DEFINE text == FlattenSeq(Spelled(t))
<1>1. Spelled(t) \in Seq(Seq(Nat)) /\ Len(Spelled(t)) = Len(t)
  BY SpelledIsSeq
<1>2. \A k \in 1..Len(t) : \A j \in 1..Len(Spelled(t)[k]) : ~IsHidden(Spelled(t)[k][j])
  BY SpelledIsSeq
<1>3. text \in Seq(Nat) /\ \E off : Laid(off, Spelled(t), text)
  BY <1>1, FlattenIsLaid
<1> HIDE DEF text
<1>4. PICK off : Laid(off, Spelled(t), text)
  BY <1>3
<1>5. Covered(off, Spelled(t), text)
  BY <1>1, <1>4, LaidCovers
<1>6. \A p \in 1..Len(text) : ~IsHidden(text[p])
  BY <1>1, <1>2, <1>5 DEF Covered
<1>7. DOMAIN text = 1..Len(text) /\ Escaped(t) = text
  BY <1>3, EscapedIsSpelled DEF text
<1>8. QED  BY <1>6, <1>7

-----------------------------------------------------------------------------
(* Two decoders.                                                           *)

Cont(b) == b \in 128..191

LEMMA ContIs ==
  ASSUME NEW b \in Octets
  PROVE  /\ Within(b, {Continuation}) <=> Cont(b)
         /\ Within(b, {<<128, 191>>}) <=> Cont(b)
         /\ Cont(b) => b % 64 = b - 128
<1>1. \A x \in Octets : x \in Int /\ (x \in 128..191 => x % 64 = x - 128)
  BY DEF Octets
<1>2. \A x \in Octets : (128 <= x /\ x <= 191) <=> x \in 128..191
  BY DEF Octets
<1>3. QED  BY <1>1, <1>2 DEF Within, Continuation, Cont

\* What two, three or four bytes spell, as arithmetic.
At2(u) == u \in Int /\ u >= 128 /\ u <= 2047
At3(b, c, u) == /\ u >= 2048 <=> (b = 224 => c >= 160)
                /\ (55296 <= u /\ u <= 57343) <=> (b = 237 /\ c >= 160)
                /\ u <= 1114111
At4(b, c, u) == /\ u >= 65536 <=> (b = 240 => c >= 144)
                /\ u <= 1114111 <=> (b = 244 => c <= 143)
                /\ u >= 65536 => ~(55296 <= u /\ u <= 57343)

LEMMA SpelledBy2 ==
  ASSUME NEW b \in 194..223, NEW c \in 128..191
  PROVE  At2(SixMore(b % 32, c))
<1>1. b % 32 = b - 192 /\ c % 64 = c - 128
  OBVIOUS
<1>2. SixMore(b % 32, c) = (b - 192) * 64 + (c - 128)
  BY <1>1 DEF SixMore
<1> DEFINE u == (b - 192) * 64 + (c - 128)
<1>3. u \in Int /\ u >= 128 /\ u <= 2047
  OBVIOUS
<1> HIDE DEF u
<1>4. At2(u)
  BY <1>3 DEF At2
<1>5. QED  BY <1>2, <1>4 DEF u

LEMMA SpelledBy3 ==
  ASSUME NEW b \in 224..239, NEW c \in 128..191, NEW d \in 128..191
  PROVE  At3(b, c, SixMore(SixMore(b % 16, c), d))
<1>1. b % 16 = b - 224 /\ c % 64 = c - 128 /\ d % 64 = d - 128
  OBVIOUS
<1>2. SixMore(SixMore(b % 16, c), d) = (b - 224) * 4096 + (c - 128) * 64 + (d - 128)
  BY <1>1 DEF SixMore
<1> DEFINE u == (b - 224) * 4096 + (c - 128) * 64 + (d - 128)
<1>3. u >= 2048 <=> (b = 224 => c >= 160)
  OBVIOUS
<1>4. (55296 <= u /\ u <= 57343) <=> (b = 237 /\ c >= 160)
  OBVIOUS
<1>5. u <= 1114111
  OBVIOUS
<1> HIDE DEF u
<1>6. At3(b, c, u)
  BY <1>3, <1>4, <1>5 DEF At3
<1>7. QED  BY <1>2, <1>6 DEF u

LEMMA SpelledBy4 ==
  ASSUME NEW b \in 240..244, NEW c \in 128..191, NEW d \in 128..191, NEW e \in 128..191
  PROVE  At4(b, c, SixMore(SixMore(SixMore(b % 8, c), d), e))
<1>1. b % 8 = b - 240 /\ c % 64 = c - 128 /\ d % 64 = d - 128 /\ e % 64 = e - 128
  OBVIOUS
<1>2. SixMore(SixMore(SixMore(b % 8, c), d), e)
        = (b - 240) * 262144 + (c - 128) * 4096 + (d - 128) * 64 + (e - 128)
  BY <1>1 DEF SixMore
<1> DEFINE u == (b - 240) * 262144 + (c - 128) * 4096 + (d - 128) * 64 + (e - 128)
<1>3. u >= 65536 <=> (b = 240 => c >= 144)
  OBVIOUS
<1>4. u <= 1114111 <=> (b = 244 => c <= 143)
  OBVIOUS
<1>5. u >= 65536 => ~(55296 <= u /\ u <= 57343)
  OBVIOUS
<1> HIDE DEF u
<1>6. At4(b, c, u)
  BY <1>3, <1>4, <1>5 DEF At4
<1>7. QED  BY <1>2, <1>6 DEF u

LEMMA TwinHiddenIs == \A u \in Nat : TwinHidden(u) <=> IsHidden(u)
<1>1. ASSUME NEW u \in Nat
      PROVE  (\E r \in HiddenRanges : r[1] <= u /\ u <= r[2]) <=> TwinHidden(u)
  BY DEF HiddenRanges, TwinHidden
<1>2. QED  BY <1>1 DEF IsHidden, Within

\* The bytes from i on are as a row says.
Matches(bytes, i, row) ==
  /\ i + Len(row) - 1 <= Len(bytes)
  /\ \A k \in DOMAIN row : Within(bytes[i + k - 1], {row[k]})

LEMMA RowsApart ==
  ASSUME NEW row \in WellFormed, NEW other \in WellFormed, NEW b \in Octets,
         Within(b, {row[1]}), Within(b, {other[1]})
  PROVE  row = other
<1>1. \A r \in WellFormed : r[1][1] <= b /\ b <= r[1][2] =>
        r = CHOOSE q \in WellFormed : q[1][1] <= b /\ b <= q[1][2]
  OBVIOUS
<1>2. QED  BY <1>1 DEF Within

LEMMA LengthIs ==
  ASSUME NEW bytes \in Seq(Octets), NEW i \in 1..Len(bytes), NEW row \in WellFormed,
         \A other \in WellFormed : Within(bytes[i], {other[1]}) => other = row
  PROVE  SequenceLength(bytes, i) = IF Matches(bytes, i, row) THEN Len(row) ELSE 0
<1> DEFINE rows == {r \in WellFormed : Matches(bytes, i, r)}
<1>1. SequenceLength(bytes, i) = IF rows = {} THEN 0 ELSE Len(CHOOSE r \in rows : TRUE)
  BY DEF SequenceLength, Matches
<1>2. ASSUME NEW r \in rows
      PROVE  r = row
  <2>1. 1 \in DOMAIN r
    <3>1. \A q \in WellFormed : 1 \in DOMAIN q
      BY DEF WellFormed
    <3>2. QED  BY <3>1
  <2>2. Within(bytes[i + 1 - 1], {r[1]})
    BY <2>1 DEF Matches
  <2>3. i + 1 - 1 = i
    OBVIOUS
  <2>4. QED  BY <2>2, <2>3
<1>3. CASE Matches(bytes, i, row)
  <2>1. row \in rows
    BY <1>3
  <2> HIDE DEF rows
  <2>2. (CHOOSE r \in rows : TRUE) = row
    BY <1>2, <2>1
  <2>3. QED  BY <1>1, <1>3, <2>1, <2>2
<1>4. CASE ~Matches(bytes, i, row)
  <2>1. rows = {}
    BY <1>2, <1>4
  <2> HIDE DEF rows
  <2>2. QED  BY <1>1, <1>4, <2>1
<1>5. QED  BY <1>3, <1>4

LEMMA NoLength ==
  ASSUME NEW bytes \in Seq(Octets), NEW i \in 1..Len(bytes),
         \A row \in WellFormed : ~Within(bytes[i], {row[1]})
  PROVE  SequenceLength(bytes, i) = 0
<1> DEFINE rows == {r \in WellFormed : Matches(bytes, i, r)}
<1>1. SequenceLength(bytes, i) = IF rows = {} THEN 0 ELSE Len(CHOOSE r \in rows : TRUE)
  BY DEF SequenceLength, Matches
<1>2. \A q \in WellFormed : 1 \in DOMAIN q
  BY DEF WellFormed
<1>3. i + 1 - 1 = i
  OBVIOUS
<1>4. rows = {}
  BY <1>2, <1>3 DEF Matches
<1> HIDE DEF rows
<1>5. QED  BY <1>1, <1>4

\* b is between the two numbers of p.
In(b, p) == p[1] <= b /\ b <= p[2]

LEMMA Matches1 ==
  ASSUME NEW bytes, NEW i \in Nat, NEW p
  PROVE  Matches(bytes, i, <<p>>) <=> i <= Len(bytes) /\ In(bytes[i], p)
<1>1. Len(<<p>>) = 1 /\ DOMAIN <<p>> = {1} /\ <<p>>[1] = p
  OBVIOUS
<1>2. i + 1 - 1 = i
  OBVIOUS
<1>3. QED  BY <1>1, <1>2 DEF Matches, Within, In

LEMMA Matches2 ==
  ASSUME NEW bytes, NEW i \in Nat, NEW p, NEW q
  PROVE  Matches(bytes, i, <<p, q>>) <=>
           i + 1 <= Len(bytes) /\ In(bytes[i], p) /\ In(bytes[i + 1], q)
<1> DEFINE row == <<p, q>>
<1>1. Len(row) = 2 /\ DOMAIN row = {1, 2} /\ row[1] = p /\ row[2] = q
  OBVIOUS
<1>2. i + 1 - 1 = i /\ i + 2 - 1 = i + 1
  OBVIOUS
<1> HIDE DEF row
<1>3. Matches(bytes, i, row) <=>
        i + 1 <= Len(bytes) /\ In(bytes[i], p) /\ In(bytes[i + 1], q)
  BY <1>1, <1>2 DEF Matches, Within, In
<1>4. QED  BY <1>3 DEF row

LEMMA Matches3 ==
  ASSUME NEW bytes, NEW i \in Nat, NEW p, NEW q, NEW r
  PROVE  Matches(bytes, i, <<p, q, r>>) <=>
           i + 2 <= Len(bytes) /\ In(bytes[i], p) /\ In(bytes[i + 1], q) /\ In(bytes[i + 2], r)
<1> DEFINE row == <<p, q, r>>
<1>1. Len(row) = 3 /\ DOMAIN row = {1, 2, 3} /\ row[1] = p /\ row[2] = q /\ row[3] = r
  OBVIOUS
<1>2. i + 1 - 1 = i /\ i + 2 - 1 = i + 1 /\ i + 3 - 1 = i + 2
  OBVIOUS
<1> HIDE DEF row
<1>3. Matches(bytes, i, row) <=>
        i + 2 <= Len(bytes) /\ In(bytes[i], p) /\ In(bytes[i + 1], q) /\ In(bytes[i + 2], r)
  BY <1>1, <1>2 DEF Matches, Within, In
<1>4. QED  BY <1>3 DEF row

LEMMA Matches4 ==
  ASSUME NEW bytes, NEW i \in Nat, NEW p, NEW q, NEW r, NEW s
  PROVE  Matches(bytes, i, <<p, q, r, s>>) <=>
           /\ i + 3 <= Len(bytes) /\ In(bytes[i], p) /\ In(bytes[i + 1], q)
           /\ In(bytes[i + 2], r) /\ In(bytes[i + 3], s)
<1> DEFINE row == <<p, q, r, s>>
<1>1. /\ Len(row) = 4 /\ DOMAIN row = {1, 2, 3, 4}
      /\ row[1] = p /\ row[2] = q /\ row[3] = r /\ row[4] = s
  OBVIOUS
<1>2. i + 1 - 1 = i /\ i + 2 - 1 = i + 1 /\ i + 3 - 1 = i + 2 /\ i + 4 - 1 = i + 3
  OBVIOUS
<1> HIDE DEF row
<1>3. Matches(bytes, i, row) <=>
        /\ i + 3 <= Len(bytes) /\ In(bytes[i], p) /\ In(bytes[i + 1], q)
        /\ In(bytes[i + 2], r) /\ In(bytes[i + 3], s)
  BY <1>1, <1>2 DEF Matches, Within, In
<1>4. QED  BY <1>3 DEF row

LEMMA LengthOf ==
  ASSUME NEW bytes \in Seq(Octets), NEW i \in 1..Len(bytes), NEW row \in WellFormed,
         Within(bytes[i], {row[1]})
  PROVE  SequenceLength(bytes, i) = IF Matches(bytes, i, row) THEN Len(row) ELSE 0
<1>1. bytes[i] \in Octets
  OBVIOUS
<1>2. \A other \in WellFormed : Within(bytes[i], {other[1]}) => other = row
  BY <1>1, RowsApart
<1>3. QED  BY <1>2, LengthIs

\* A row of one, two, three or four bytes that begins with what stands at i.
LEMMA Rows1 ==
  ASSUME NEW bytes \in Seq(Octets), NEW i \in 1..Len(bytes), NEW p,
         <<p>> \in WellFormed, In(bytes[i], p)
  PROVE  SequenceLength(bytes, i) = 1
<1> DEFINE row == <<p>>
<1>1. Len(row) = 1 /\ row[1] = p /\ i \in Nat /\ i <= Len(bytes)
  OBVIOUS
<1>2. Within(bytes[i], {row[1]})
  BY <1>1 DEF Within, In
<1>3. Matches(bytes, i, row)
  BY <1>1, Matches1
<1> HIDE DEF row
<1>4. row \in WellFormed
  BY DEF row
<1>5. QED  BY <1>1, <1>2, <1>3, <1>4, LengthOf

LEMMA Rows2 ==
  ASSUME NEW bytes \in Seq(Octets), NEW i \in 1..Len(bytes), NEW p, NEW q,
         <<p, q>> \in WellFormed, In(bytes[i], p)
  PROVE  SequenceLength(bytes, i) = IF i + 1 <= Len(bytes) /\ In(bytes[i + 1], q) THEN 2 ELSE 0
<1> DEFINE row == <<p, q>>
<1>1. Len(row) = 2 /\ row[1] = p /\ i \in Nat
  OBVIOUS
<1>2. Within(bytes[i], {row[1]})
  BY <1>1 DEF Within, In
<1>3. Matches(bytes, i, row) <=> i + 1 <= Len(bytes) /\ In(bytes[i + 1], q)
  BY <1>1, Matches2
<1> HIDE DEF row
<1>4. row \in WellFormed
  BY DEF row
<1>5. SequenceLength(bytes, i) = IF Matches(bytes, i, row) THEN Len(row) ELSE 0
  BY <1>2, <1>4, LengthOf
<1>6. QED  BY <1>1, <1>3, <1>5

LEMMA Rows3 ==
  ASSUME NEW bytes \in Seq(Octets), NEW i \in 1..Len(bytes), NEW p, NEW q, NEW r,
         <<p, q, r>> \in WellFormed, In(bytes[i], p)
  PROVE  SequenceLength(bytes, i) =
           IF i + 2 <= Len(bytes) /\ In(bytes[i + 1], q) /\ In(bytes[i + 2], r) THEN 3 ELSE 0
<1> DEFINE row == <<p, q, r>>
<1>1. Len(row) = 3 /\ row[1] = p /\ i \in Nat
  OBVIOUS
<1>2. Within(bytes[i], {row[1]})
  BY <1>1 DEF Within, In
<1>3. Matches(bytes, i, row) <=>
        i + 2 <= Len(bytes) /\ In(bytes[i + 1], q) /\ In(bytes[i + 2], r)
  BY <1>1, Matches3
<1> HIDE DEF row
<1>4. row \in WellFormed
  BY DEF row
<1>5. SequenceLength(bytes, i) = IF Matches(bytes, i, row) THEN Len(row) ELSE 0
  BY <1>2, <1>4, LengthOf
<1>6. QED  BY <1>1, <1>3, <1>5

LEMMA Rows4 ==
  ASSUME NEW bytes \in Seq(Octets), NEW i \in 1..Len(bytes), NEW p, NEW q, NEW row,
         row = <<p, q, Continuation, Continuation>>, row \in WellFormed, In(bytes[i], p)
  PROVE  SequenceLength(bytes, i) =
           IF /\ i + 3 <= Len(bytes) /\ In(bytes[i + 1], q)
              /\ In(bytes[i + 2], Continuation) /\ In(bytes[i + 3], Continuation) THEN 4 ELSE 0
<1>1. Len(row) = 4 /\ row[1] = p /\ i \in Nat
  OBVIOUS
<1>2. Within(bytes[i], {row[1]})
  BY <1>1 DEF Within, In
<1>3. Matches(bytes, i, row) <=>
        /\ i + 3 <= Len(bytes) /\ In(bytes[i + 1], q)
        /\ In(bytes[i + 2], Continuation) /\ In(bytes[i + 3], Continuation)
  BY <1>1, Matches4
<1>4. SequenceLength(bytes, i) = IF Matches(bytes, i, row) THEN Len(row) ELSE 0
  BY <1>2, LengthOf
<1>5. QED  BY <1>1, <1>3, <1>4

\* What is there, from i on.
LEMMA Slice ==
  ASSUME NEW bytes \in Seq(Octets), NEW i \in 1..(Len(bytes) + 1), NEW m \in 0..4,
         i + m - 1 <= Len(bytes)
  PROVE  /\ SubSeq(bytes, i, i + m - 1) \in Seq(Octets)
         /\ Len(SubSeq(bytes, i, i + m - 1)) = m
         /\ \A k \in 1..m : SubSeq(bytes, i, i + m - 1)[k] = bytes[i + k - 1]
<1>1. i \in Int /\ i + m - 1 \in Int /\ Len(bytes) \in Nat /\ i >= 1 /\ (i + m - 1) - i + 1 = m
  OBVIOUS
<1>2. \A k \in i..(i + m - 1) : bytes[k] \in Octets
  <2>1. \A k \in i..(i + m - 1) : k \in 1..Len(bytes)
    BY <1>1
  <2>2. QED  BY <2>1
<1>3. /\ SubSeq(bytes, i, i + m - 1) \in Seq(Octets)
      /\ Len(SubSeq(bytes, i, i + m - 1)) = IF i <= i + m - 1 THEN (i + m - 1) - i + 1 ELSE 0
      /\ \A k \in 1..((i + m - 1) - i + 1) :
           SubSeq(bytes, i, i + m - 1)[k] = bytes[i + k - 1]
  BY <1>1, <1>2, SubSeqProperties
<1>4. (IF i <= i + m - 1 THEN (i + m - 1) - i + 1 ELSE 0) = m
  BY <1>1
<1>5. QED  BY <1>1, <1>3, <1>4

-----------------------------------------------------------------------------
(* The deploy helper's decoder, at one place.                              *)

LEMMA LeadIs ==
  ASSUME NEW b \in Octets
  PROVE  /\ b \in 0..127 => Lead(b) = [len |-> 1, low |-> b, min |-> 0]
         /\ b \in 194..223 => Lead(b) = [len |-> 2, low |-> b % 32, min |-> 128]
         /\ b \in 224..239 => Lead(b) = [len |-> 3, low |-> b % 16, min |-> 2048]
         /\ b \in 240..244 => Lead(b) = [len |-> 4, low |-> b % 8, min |-> 65536]
         /\ b \in (128..193) \cup (245..255) => Lead(b) = Invalid
<1>1. b \in 0..255
  BY DEF Octets
<1>2. Within(b, {<<194, 223>>}) <=> 194 <= b /\ b <= 223
  BY DEF Within
<1>3. Within(b, {<<224, 239>>}) <=> 224 <= b /\ b <= 239
  BY DEF Within
<1>4. Within(b, {<<240, 244>>}) <=> 240 <= b /\ b <= 244
  BY DEF Within
<1>5. CASE b \in 0..127
  <2>1. b < 128 /\ ~(194 <= b) /\ ~(224 <= b) /\ ~(240 <= b) /\ ~(b \in 194..223)
        /\ ~(b \in 224..239) /\ ~(b \in 240..244) /\ ~(b \in (128..193) \cup (245..255))
    BY <1>5
  <2>2. Lead(b) = [len |-> 1, low |-> b, min |-> 0]
    BY <1>2, <1>3, <1>4, <2>1 DEF Lead
  <2>3. QED  BY <2>1, <2>2
<1>6. CASE b \in 194..223
  <2>1. ~(b < 128) /\ 194 <= b /\ b <= 223 /\ ~(224 <= b) /\ ~(240 <= b) /\ ~(b \in 0..127)
        /\ ~(b \in 224..239) /\ ~(b \in 240..244) /\ ~(b \in (128..193) \cup (245..255))
    BY <1>6
  <2>2. Lead(b) = [len |-> 2, low |-> b % 32, min |-> 128]
    BY <1>2, <1>3, <1>4, <2>1 DEF Lead
  <2>3. QED  BY <2>1, <2>2
<1>7. CASE b \in 224..239
  <2>1. ~(b < 128) /\ ~(b <= 223) /\ 224 <= b /\ b <= 239 /\ ~(240 <= b) /\ ~(b \in 0..127)
        /\ ~(b \in 194..223) /\ ~(b \in 240..244) /\ ~(b \in (128..193) \cup (245..255))
    BY <1>7
  <2>2. Lead(b) = [len |-> 3, low |-> b % 16, min |-> 2048]
    BY <1>2, <1>3, <1>4, <2>1 DEF Lead
  <2>3. QED  BY <2>1, <2>2
<1>8. CASE b \in 240..244
  <2>1. ~(b < 128) /\ ~(b <= 223) /\ ~(b <= 239) /\ 240 <= b /\ b <= 244 /\ ~(b \in 0..127)
        /\ ~(b \in 194..223) /\ ~(b \in 224..239) /\ ~(b \in (128..193) \cup (245..255))
    BY <1>8
  <2>2. Lead(b) = [len |-> 4, low |-> b % 8, min |-> 65536]
    BY <1>2, <1>3, <1>4, <2>1 DEF Lead
  <2>3. QED  BY <2>1, <2>2
<1>9. CASE b \in (128..193) \cup (245..255)
  <2>1. ~(b < 128) /\ ~(194 <= b /\ b <= 223) /\ ~(224 <= b /\ b <= 239)
        /\ ~(240 <= b /\ b <= 244) /\ ~(b \in 0..127)
        /\ ~(b \in 194..223) /\ ~(b \in 224..239) /\ ~(b \in 240..244)
    BY <1>9
  <2>2. Lead(b) = Invalid
    BY <1>2, <1>3, <1>4, <2>1 DEF Lead
  <2>3. QED  BY <2>1, <2>2
<1>10. QED  BY <1>1, <1>5, <1>6, <1>7, <1>8, <1>9

TwinUnit(s, i, lead, rest) ==
  IF /\ lead.len > 0
     /\ i + lead.len - 1 <= Len(s)
     /\ \A k \in DOMAIN rest : Within(rest[k], {<<128, 191>>})
     /\ lead.len > 1 => Spells(lead, Spelt(lead.low, rest))
  THEN [len |-> lead.len, cp |-> Spelt(lead.low, rest)]
  ELSE [len |-> 0, cp |-> 0]

LEMMA UnitAtIs ==
  ASSUME NEW s, NEW i
  PROVE  UnitAt(s, i) = TwinUnit(s, i, Lead(s[i]), SubSeq(s, i + 1, i + Lead(s[i]).len - 1))
BY DEF UnitAt, TwinUnit

\* At i the helper sees a unit where escape_core does, as long, and the same one; and
\* a unit of several bytes is no ASCII character.
SameAt(s, i) ==
  LET n == SequenceLength(s, i)
  IN  /\ UnitAt(s, i).len = n
      /\ n # 0 => UnitAt(s, i).cp = ScalarOf(SubSeq(s, i, i + n - 1))
      /\ n # 0 /\ s[i] >= 128 => UnitAt(s, i).cp >= 128

LEMMA SameByte ==
  ASSUME NEW s \in Seq(Octets), NEW i \in 1..Len(s), NEW b \in 0..127, s[i] = b
  PROVE  SameAt(s, i) /\ SequenceLength(s, i) = 1 /\ UnitAt(s, i).cp = b
<1> DEFINE lead == [len |-> 1, low |-> b, min |-> 0]
           rest == SubSeq(s, i + 1, i)
<1>1. i \in Int /\ i + 1 \in Int /\ i < i + 1 /\ i + 1 - 1 = i /\ i <= Len(s)
  OBVIOUS
<1>2. SequenceLength(s, i) = 1
  <2>1. << <<0, 127>> >> \in WellFormed
    BY DEF WellFormed
  <2>2. 0 <= b /\ b <= 127
    OBVIOUS
  <2>3. In(b, <<0, 127>>)
    BY <2>2 DEF In
  <2>4. QED  BY <2>1, <2>3, Rows1
<1>3. Lead(b) = lead
  <2>1. b \in Octets
    BY DEF Octets
  <2> HIDE DEF lead
  <2>2. Lead(b) = [len |-> 1, low |-> b, min |-> 0]
    BY <2>1, LeadIs
  <2>3. QED  BY <2>2 DEF lead
<1>4. rest = << >>
  BY <1>1, SubSeqEmpty
<1>5. UnitAt(s, i) = TwinUnit(s, i, lead, rest)
  <2>1. UnitAt(s, i) = TwinUnit(s, i, lead, SubSeq(s, i + 1, i + lead.len - 1))
    BY <1>3, UnitAtIs
  <2>2. lead.len = 1
    OBVIOUS
  <2>3. QED  BY <2>1, <2>2
<1>6. Spelt(b, << >>) = b
  BY DEF Spelt
<1>7. UnitAt(s, i) = [len |-> 1, cp |-> b]
  <2> HIDE DEF rest
  <2>1. lead.len = 1 /\ lead.low = b /\ ~(lead.len > 1) /\ i + lead.len - 1 <= Len(s)
    BY <1>1
  <2>2. DOMAIN rest = {}
    BY <1>4
  <2> HIDE DEF lead
  <2>3. QED  BY <1>4, <1>5, <1>6, <2>1, <2>2 DEF TwinUnit
<1>8. ScalarOf(SubSeq(s, i, i + 1 - 1)) = b
  <2> DEFINE one == SubSeq(s, i, i + 1 - 1)
  <2>1. one \in Seq(Octets) /\ Len(one) = 1 /\ one[1] = b
    <3>1. 1 \in 0..4 /\ i \in 1..(Len(s) + 1) /\ i + 1 - 1 <= Len(s) /\ 1 \in 1..1
      OBVIOUS
    <3>2. one \in Seq(Octets) /\ Len(one) = 1 /\ \A k \in 1..1 : one[k] = s[i + k - 1]
      BY <3>1, Slice
    <3> HIDE DEF one
    <3>3. one[1] = s[i + 1 - 1]
      BY <3>1, <3>2
    <3>4. QED  BY <1>1, <3>2, <3>3
  <2> HIDE DEF one
  <2>2. Tail(one) = << >>
    <3>1. i \in i..Len(s)
      BY <1>1
    <3>2. Tail(SubSeq(s, i, i)) = rest
      BY <3>1, HeadTailOfSubSeq
    <3>3. QED  BY <1>1, <1>4, <3>2 DEF one
  <2>3. LeadBits[1] = 128
    BY DEF LeadBits
  <2>4. b % 128 = b
    OBVIOUS
  <2>5. ScalarOf(one) = b
    <3>1. one[1] % LeadBits[Len(one)] = b
      BY <2>1, <2>3, <2>4
    <3> QED  BY <1>6, <2>2, <3>1 DEF ScalarOf
  <2>6. QED  BY <2>5 DEF one
<1>9. QED  BY <1>2, <1>7, <1>8 DEF SameAt

LEMMA SameNone ==
  ASSUME NEW s \in Seq(Octets), NEW i \in 1..Len(s), s[i] \in (128..193) \cup (245..255)
  PROVE  SameAt(s, i)
<1>1. Lead(s[i]) = Invalid
  <2>1. s[i] \in Octets
    OBVIOUS
  <2>2. QED  BY <2>1, LeadIs
<1>2. SequenceLength(s, i) = 0
  <2>1. \A x \in (128..193) \cup (245..255) : \A row \in WellFormed : ~Within(x, {row[1]})
    BY DEF WellFormed, Within
  <2>2. \A row \in WellFormed : ~Within(s[i], {row[1]})
    BY <2>1
  <2>3. QED  BY <2>2, NoLength
<1>3. UnitAt(s, i).len = 0
  <2>1. UnitAt(s, i) = TwinUnit(s, i, Invalid, SubSeq(s, i + 1, i + Invalid.len - 1))
    BY <1>1, UnitAtIs
  <2>2. Invalid.len = 0
    BY DEF Invalid
  <2>3. QED  BY <2>1, <2>2 DEF TwinUnit
<1>4. QED  BY <1>2, <1>3 DEF SameAt

LEMMA InRanges ==
  ASSUME NEW x \in Octets
  PROVE  /\ In(x, Continuation) <=> Cont(x)
         /\ In(x, <<160, 191>>) <=> Cont(x) /\ x >= 160
         /\ In(x, <<128, 159>>) <=> Cont(x) /\ x < 160
         /\ In(x, <<144, 191>>) <=> Cont(x) /\ x >= 144
         /\ In(x, <<128, 143>>) <=> Cont(x) /\ x <= 143
<1>1. x \in 0..255
  BY DEF Octets
<1>2. Cont(x) <=> 128 <= x /\ x <= 191
  BY <1>1 DEF Cont
<1>3. In(x, Continuation) <=> 128 <= x /\ x <= 191
  BY DEF In, Continuation
<1>4. In(x, <<160, 191>>) <=> 160 <= x /\ x <= 191
  BY DEF In
<1>5. In(x, <<128, 159>>) <=> 128 <= x /\ x <= 159
  BY DEF In
<1>6. In(x, <<144, 191>>) <=> 144 <= x /\ x <= 191
  BY DEF In
<1>7. In(x, <<128, 143>>) <=> 128 <= x /\ x <= 143
  BY DEF In
<1>8. QED  BY <1>1, <1>2, <1>3, <1>4, <1>5, <1>6, <1>7

\* The bytes behind a lead byte, and with it.
LEMMA Behind ==
  ASSUME NEW s \in Seq(Octets), NEW i \in 1..Len(s), NEW n \in 2..4, i + n - 1 <= Len(s)
  PROVE  /\ Len(SubSeq(s, i + 1, i + n - 1)) = n - 1
         /\ DOMAIN SubSeq(s, i + 1, i + n - 1) = 1..(n - 1)
         /\ \A k \in 1..(n - 1) : SubSeq(s, i + 1, i + n - 1)[k] = s[i + k]
         /\ SubSeq(s, i, i + n - 1) \in Seq(Octets)
         /\ Len(SubSeq(s, i, i + n - 1)) = n /\ SubSeq(s, i, i + n - 1)[1] = s[i]
         /\ Tail(SubSeq(s, i, i + n - 1)) = SubSeq(s, i + 1, i + n - 1)
<1> DEFINE rest == SubSeq(s, i + 1, i + n - 1)
           all == SubSeq(s, i, i + n - 1)
<1>1. /\ i + 1 \in 1..(Len(s) + 1) /\ n - 1 \in 0..4 /\ i + 1 + (n - 1) - 1 = i + n - 1
      /\ i \in 1..(Len(s) + 1) /\ n \in 0..4 /\ i + n - 1 \in i..Len(s)
  OBVIOUS
<1>2. /\ rest \in Seq(Octets) /\ Len(rest) = n - 1
      /\ \A k \in 1..(n - 1) : rest[k] = s[i + 1 + k - 1]
  <2>1. i + 1 + (n - 1) - 1 <= Len(s)
    BY <1>1
  <2> DEFINE slice == SubSeq(s, i + 1, i + 1 + (n - 1) - 1)
  <2>2. /\ slice \in Seq(Octets) /\ Len(slice) = n - 1
        /\ \A k \in 1..(n - 1) : slice[k] = s[i + 1 + k - 1]
    BY <1>1, <2>1, Slice
  <2>3. slice = rest
    BY <1>1
  <2> HIDE DEF slice, rest
  <2>4. QED  BY <2>2, <2>3
<1>3. /\ all \in Seq(Octets) /\ Len(all) = n
      /\ \A k \in 1..n : all[k] = s[i + k - 1]
  BY <1>1, Slice
<1>4. Tail(all) = rest
  BY <1>1, HeadTailOfSubSeq
<1> HIDE DEF rest, all
<1>5. \A k \in 1..(n - 1) : rest[k] = s[i + k]
  <2>1. \A k \in 1..(n - 1) : i + 1 + k - 1 = i + k
    OBVIOUS
  <2>2. QED  BY <1>2, <2>1
<1>6. all[1] = s[i]
  <2>1. 1 \in 1..n /\ i + 1 - 1 = i
    OBVIOUS
  <2>2. all[1] = s[i + 1 - 1]
    BY <1>3, <2>1
  <2>3. QED  BY <2>1, <2>2
<1>7. DOMAIN rest = 1..(n - 1)
  BY <1>2
<1>8. QED  BY <1>2, <1>3, <1>4, <1>5, <1>6, <1>7 DEF rest, all

\* A lead byte that asks for n - 1 more: if escape_core sees its unit just when the
\* helper finds the bytes to continue and what they spell at home, the two agree.
LEMMA SameMany ==
  ASSUME NEW s \in Seq(Octets), NEW i \in 1..Len(s), NEW n \in 2..4, NEW m \in Nat, m >= 128,
         NEW low, low = s[i] % LeadBits[n], NEW lead, lead = [len |-> n, low |-> low, min |-> m],
         Lead(s[i]) = lead, NEW cp, cp = Spelt(low, SubSeq(s, i + 1, i + n - 1)),
         SequenceLength(s, i) =
           IF i + n - 1 <= Len(s) /\ (\A k \in 1..(n - 1) : Cont(s[i + k])) /\ Spells(lead, cp)
           THEN n ELSE 0
  PROVE  SameAt(s, i)
<1> DEFINE rest == SubSeq(s, i + 1, i + n - 1)
<1>1. lead.len = n /\ lead.low = low /\ lead.min = m
  OBVIOUS
<1>2. n > 0 /\ n > 1 /\ n # 0
  OBVIOUS
<1>3. UnitAt(s, i) = TwinUnit(s, i, lead, rest)
  BY <1>1, UnitAtIs
<1>4. cp = Spelt(lead.low, rest)
  BY <1>1
<1>5. CASE i + n - 1 <= Len(s)
  <2>1. /\ Len(rest) = n - 1 /\ DOMAIN rest = 1..(n - 1)
        /\ \A k \in 1..(n - 1) : rest[k] = s[i + k]
    BY <1>5, Behind
  <2>2. \A k \in 1..(n - 1) : s[i + k] \in Octets
    BY <1>5
  <2> HIDE DEF rest
  <2>3. (\A k \in DOMAIN rest : Within(rest[k], {<<128, 191>>}))
          <=> \A k \in 1..(n - 1) : Cont(s[i + k])
    <3>1. \A k \in 1..(n - 1) : Within(rest[k], {<<128, 191>>}) <=> Cont(s[i + k])
      BY <2>1, <2>2, ContIs
    <3>2. QED  BY <2>1, <3>1
  <2>4. CASE (\A k \in 1..(n - 1) : Cont(s[i + k])) /\ Spells(lead, cp)
    <3>1. SequenceLength(s, i) = n
      BY <1>5, <2>4
    <3>2. UnitAt(s, i) = [len |-> n, cp |-> cp]
      BY <1>1, <1>2, <1>3, <1>4, <1>5, <2>3, <2>4 DEF TwinUnit
    <3>3. UnitAt(s, i).len = n /\ UnitAt(s, i).cp = cp
      BY <3>2
    <3>4. ScalarOf(SubSeq(s, i, i + n - 1)) = cp
      <4> DEFINE all == SubSeq(s, i, i + n - 1)
      <4>1. Len(all) = n /\ all[1] = s[i] /\ Tail(all) = rest
        BY <1>5, Behind DEF rest
      <4> HIDE DEF all
      <4>2. ScalarOf(all) = Spelt(low, rest)
        BY <4>1 DEF ScalarOf
      <4>3. QED  BY <1>1, <1>4, <4>2 DEF all
    <3>5. cp >= 128
      <4>1. cp >= m
        BY <1>1, <2>4 DEF Spells
      <4>2. cp \in Nat
        <5> DEFINE all == SubSeq(s, i, i + n - 1)
        <5>1. all \in Seq(Octets) /\ Len(all) \in 1..4
          BY <1>5, Behind
        <5>2. ScalarOf(all) = cp
          BY <3>4
        <5> HIDE DEF all
        <5>3. ScalarOf(all) \in Nat
          BY <5>1, ScalarIsNat
        <5>4. QED  BY <5>2, <5>3
      <4>3. QED  BY <4>1, <4>2
    <3>6. QED  BY <3>1, <3>3, <3>4, <3>5 DEF SameAt
  <2>5. CASE ~((\A k \in 1..(n - 1) : Cont(s[i + k])) /\ Spells(lead, cp))
    <3>1. SequenceLength(s, i) = 0
      BY <2>5
    <3>2. UnitAt(s, i).len = 0
      BY <1>1, <1>2, <1>3, <1>4, <2>3, <2>5 DEF TwinUnit
    <3>3. QED  BY <3>1, <3>2 DEF SameAt
  <2>6. QED  BY <2>4, <2>5
<1>6. CASE ~(i + n - 1 <= Len(s))
  <2>1. SequenceLength(s, i) = 0
    BY <1>6
  <2> HIDE DEF rest
  <2>2. UnitAt(s, i).len = 0
    BY <1>1, <1>3, <1>6 DEF TwinUnit
  <2>3. QED  BY <2>1, <2>2 DEF SameAt
<1>7. QED  BY <1>5, <1>6

LEMMA InIs ==
  ASSUME NEW a \in Int, NEW z \in Int, NEW b \in a..z
  PROVE  In(b, <<a, z>>)
<1>1. a <= b /\ b <= z
  OBVIOUS
<1>2. QED  BY <1>1 DEF In

\* The bytes each lead byte may be followed by.
Fits3(b, c, d) == Cont(c) /\ Cont(d) /\ (b = 224 => c >= 160) /\ (b = 237 => c < 160)
Fits4(b, c, d, e) ==
  Cont(c) /\ Cont(d) /\ Cont(e) /\ (b = 240 => c >= 144) /\ (b = 244 => c <= 143)

LEMMA Length2 ==
  ASSUME NEW s \in Seq(Octets), NEW i \in 1..Len(s), NEW b \in 194..223, s[i] = b
  PROVE  SequenceLength(s, i) = IF i + 1 <= Len(s) /\ Cont(s[i + 1]) THEN 2 ELSE 0
<1>1. <<<<194, 223>>, Continuation>> \in WellFormed
  BY DEF WellFormed
<1>2. In(s[i], <<194, 223>>)
  BY InIs
<1>3. SequenceLength(s, i) =
        IF i + 1 <= Len(s) /\ In(s[i + 1], Continuation) THEN 2 ELSE 0
  BY <1>1, <1>2, Rows2
<1>4. i + 1 <= Len(s) => s[i + 1] \in Octets
  OBVIOUS
<1>5. i + 1 <= Len(s) => (In(s[i + 1], Continuation) <=> Cont(s[i + 1]))
  BY <1>4, InRanges
<1>6. QED  BY <1>3, <1>5

LEMMA Length3 ==
  ASSUME NEW s \in Seq(Octets), NEW i \in 1..Len(s), NEW b \in 224..239, s[i] = b
  PROVE  SequenceLength(s, i) =
           IF i + 2 <= Len(s) /\ Fits3(b, s[i + 1], s[i + 2]) THEN 3 ELSE 0
<1> DEFINE c == s[i + 1]
           d == s[i + 2]
<1>1. i + 2 <= Len(s) => c \in Octets /\ d \in Octets
  OBVIOUS
<1>2. i \in Nat /\ Len(s) \in Nat
  OBVIOUS
<1>3. CASE b = 224
  <2>1. <<<<224, 224>>, <<160, 191>>, Continuation>> \in WellFormed
    BY DEF WellFormed
  <2>2. b \in 224..224
    BY <1>3
  <2>3. In(s[i], <<224, 224>>)
    BY <2>2, InIs
  <2>4. SequenceLength(s, i) =
          IF i + 2 <= Len(s) /\ In(c, <<160, 191>>) /\ In(d, Continuation) THEN 3 ELSE 0
    <3> DEFINE p == <<224, 224>>
               q == <<160, 191>>
               row == <<p, q, Continuation>>
    <3>1. row \in WellFormed
      BY <2>1
    <3>2. In(s[i], p)
      BY <2>3
    <3> HIDE DEF p, q
    <3>3. SequenceLength(s, i) =
            IF i + 2 <= Len(s) /\ In(s[i + 1], q) /\ In(s[i + 2], Continuation) THEN 3 ELSE 0
      BY <3>1, <3>2, Rows3
    <3>4. QED  BY <3>3 DEF p, q
  <2> HIDE DEF c, d
  <2>5. i + 2 <= Len(s) =>
          (In(c, <<160, 191>>) /\ In(d, Continuation) <=> Fits3(b, c, d))
    BY <1>1, <1>3, <2>2, InRanges DEF Fits3
  <2>6. SequenceLength(s, i) = IF i + 2 <= Len(s) /\ Fits3(b, c, d) THEN 3 ELSE 0
    BY <2>4, <2>5
  <2>7. QED  BY <2>6 DEF c, d
<1>4. CASE b \in 225..236
  <2>1. <<<<225, 236>>, Continuation, Continuation>> \in WellFormed
    BY DEF WellFormed
  <2>2. b \in 225..236 /\ b # 224 /\ b # 237
    BY <1>4
  <2>3. In(s[i], <<225, 236>>)
    BY <2>2, InIs
  <2>4. SequenceLength(s, i) =
          IF i + 2 <= Len(s) /\ In(c, Continuation) /\ In(d, Continuation) THEN 3 ELSE 0
    <3> DEFINE p == <<225, 236>>
               q == Continuation
               row == <<p, q, Continuation>>
    <3>1. row \in WellFormed
      BY <2>1
    <3>2. In(s[i], p)
      BY <2>3
    <3> HIDE DEF p, q
    <3>3. SequenceLength(s, i) =
            IF i + 2 <= Len(s) /\ In(s[i + 1], q) /\ In(s[i + 2], Continuation) THEN 3 ELSE 0
      BY <3>1, <3>2, Rows3
    <3>4. QED  BY <3>3 DEF p, q
  <2> HIDE DEF c, d
  <2>5. i + 2 <= Len(s) =>
          (In(c, Continuation) /\ In(d, Continuation) <=> Fits3(b, c, d))
    BY <1>1, <1>4, <2>2, InRanges DEF Fits3
  <2>6. SequenceLength(s, i) = IF i + 2 <= Len(s) /\ Fits3(b, c, d) THEN 3 ELSE 0
    BY <2>4, <2>5
  <2>7. QED  BY <2>6 DEF c, d
<1>5. CASE b = 237
  <2>1. <<<<237, 237>>, <<128, 159>>, Continuation>> \in WellFormed
    BY DEF WellFormed
  <2>2. b \in 237..237
    BY <1>5
  <2>3. In(s[i], <<237, 237>>)
    BY <2>2, InIs
  <2>4. SequenceLength(s, i) =
          IF i + 2 <= Len(s) /\ In(c, <<128, 159>>) /\ In(d, Continuation) THEN 3 ELSE 0
    <3> DEFINE p == <<237, 237>>
               q == <<128, 159>>
               row == <<p, q, Continuation>>
    <3>1. row \in WellFormed
      BY <2>1
    <3>2. In(s[i], p)
      BY <2>3
    <3> HIDE DEF p, q
    <3>3. SequenceLength(s, i) =
            IF i + 2 <= Len(s) /\ In(s[i + 1], q) /\ In(s[i + 2], Continuation) THEN 3 ELSE 0
      BY <3>1, <3>2, Rows3
    <3>4. QED  BY <3>3 DEF p, q
  <2> HIDE DEF c, d
  <2>5. i + 2 <= Len(s) =>
          (In(c, <<128, 159>>) /\ In(d, Continuation) <=> Fits3(b, c, d))
    BY <1>1, <1>5, <2>2, InRanges DEF Fits3
  <2>6. SequenceLength(s, i) = IF i + 2 <= Len(s) /\ Fits3(b, c, d) THEN 3 ELSE 0
    BY <2>4, <2>5
  <2>7. QED  BY <2>6 DEF c, d
<1>6. CASE b \in 238..239
  <2>1. <<<<238, 239>>, Continuation, Continuation>> \in WellFormed
    BY DEF WellFormed
  <2>2. b \in 238..239 /\ b # 224 /\ b # 237
    BY <1>6
  <2>3. In(s[i], <<238, 239>>)
    BY <2>2, InIs
  <2>4. SequenceLength(s, i) =
          IF i + 2 <= Len(s) /\ In(c, Continuation) /\ In(d, Continuation) THEN 3 ELSE 0
    <3> DEFINE p == <<238, 239>>
               q == Continuation
               row == <<p, q, Continuation>>
    <3>1. row \in WellFormed
      BY <2>1
    <3>2. In(s[i], p)
      BY <2>3
    <3> HIDE DEF p, q
    <3>3. SequenceLength(s, i) =
            IF i + 2 <= Len(s) /\ In(s[i + 1], q) /\ In(s[i + 2], Continuation) THEN 3 ELSE 0
      BY <3>1, <3>2, Rows3
    <3>4. QED  BY <3>3 DEF p, q
  <2> HIDE DEF c, d
  <2>5. i + 2 <= Len(s) =>
          (In(c, Continuation) /\ In(d, Continuation) <=> Fits3(b, c, d))
    BY <1>1, <1>6, <2>2, InRanges DEF Fits3
  <2>6. SequenceLength(s, i) = IF i + 2 <= Len(s) /\ Fits3(b, c, d) THEN 3 ELSE 0
    BY <2>4, <2>5
  <2>7. QED  BY <2>6 DEF c, d
<1>7. b = 224 \/ b \in 225..236 \/ b = 237 \/ b \in 238..239
  OBVIOUS
<1>8. QED  BY <1>3, <1>4, <1>5, <1>6, <1>7

LEMMA Length4 ==
  ASSUME NEW s \in Seq(Octets), NEW i \in 1..Len(s), NEW b \in 240..244, s[i] = b
  PROVE  SequenceLength(s, i) =
           IF i + 3 <= Len(s) /\ Fits4(b, s[i + 1], s[i + 2], s[i + 3]) THEN 4 ELSE 0
<1> DEFINE c == s[i + 1]
           d == s[i + 2]
           e == s[i + 3]
<1>1. i + 3 <= Len(s) => c \in Octets /\ d \in Octets /\ e \in Octets
  OBVIOUS
<1>2. i \in Nat /\ Len(s) \in Nat
  OBVIOUS
<1>3. CASE b = 240
  <2>1. <<<<240, 240>>, <<144, 191>>, Continuation, Continuation>> \in WellFormed
    BY DEF WellFormed
  <2>2. b \in 240..240
    BY <1>3
  <2>3. In(s[i], <<240, 240>>)
    BY <2>2, InIs
  <2>4. SequenceLength(s, i) =
          IF /\ i + 3 <= Len(s) /\ In(c, <<144, 191>>)
             /\ In(d, Continuation) /\ In(e, Continuation) THEN 4 ELSE 0
    <3> DEFINE p == <<240, 240>>
               q == <<144, 191>>
               row == <<p, q, Continuation, Continuation>>
    <3>1. row \in WellFormed
      BY <2>1
    <3>2. In(s[i], p)
      BY <2>3
    <3> HIDE DEF p, q
    <3>3. SequenceLength(s, i) =
            IF i + 3 <= Len(s) /\ In(s[i + 1], q)
               /\ In(s[i + 2], Continuation) /\ In(s[i + 3], Continuation) THEN 4 ELSE 0
      BY <3>1, <3>2, Rows4
    <3>4. QED  BY <3>3 DEF p, q
  <2> HIDE DEF c, d, e
  <2>5. i + 3 <= Len(s) =>
          (In(c, <<144, 191>>) /\ In(d, Continuation) /\ In(e, Continuation) <=> Fits4(b, c, d, e))
    BY <1>1, <1>3, <2>2, InRanges DEF Fits4
  <2>6. SequenceLength(s, i) = IF i + 3 <= Len(s) /\ Fits4(b, c, d, e) THEN 4 ELSE 0
    BY <2>4, <2>5
  <2>7. QED  BY <2>6 DEF c, d, e
<1>4. CASE b \in 241..243
  <2>1. <<<<241, 243>>, Continuation, Continuation, Continuation>> \in WellFormed
    BY DEF WellFormed
  <2>2. b \in 241..243 /\ b # 240 /\ b # 244
    BY <1>4
  <2>3. In(s[i], <<241, 243>>)
    BY <2>2, InIs
  <2>4. SequenceLength(s, i) =
          IF /\ i + 3 <= Len(s) /\ In(c, Continuation)
             /\ In(d, Continuation) /\ In(e, Continuation) THEN 4 ELSE 0
    <3> DEFINE p == <<241, 243>>
               q == Continuation
               row == <<p, q, Continuation, Continuation>>
    <3>1. row \in WellFormed
      BY <2>1
    <3>2. In(s[i], p)
      BY <2>3
    <3> HIDE DEF p, q
    <3>3. SequenceLength(s, i) =
            IF i + 3 <= Len(s) /\ In(s[i + 1], q)
               /\ In(s[i + 2], Continuation) /\ In(s[i + 3], Continuation) THEN 4 ELSE 0
      BY <3>1, <3>2, Rows4
    <3>4. QED  BY <3>3 DEF p, q
  <2> HIDE DEF c, d, e
  <2>5. i + 3 <= Len(s) =>
          (In(c, Continuation) /\ In(d, Continuation) /\ In(e, Continuation) <=> Fits4(b, c, d, e))
    BY <1>1, <1>4, <2>2, InRanges DEF Fits4
  <2>6. SequenceLength(s, i) = IF i + 3 <= Len(s) /\ Fits4(b, c, d, e) THEN 4 ELSE 0
    BY <2>4, <2>5
  <2>7. QED  BY <2>6 DEF c, d, e
<1>5. CASE b = 244
  <2>1. <<<<244, 244>>, <<128, 143>>, Continuation, Continuation>> \in WellFormed
    BY DEF WellFormed
  <2>2. b \in 244..244
    BY <1>5
  <2>3. In(s[i], <<244, 244>>)
    BY <2>2, InIs
  <2>4. SequenceLength(s, i) =
          IF /\ i + 3 <= Len(s) /\ In(c, <<128, 143>>)
             /\ In(d, Continuation) /\ In(e, Continuation) THEN 4 ELSE 0
    <3> DEFINE p == <<244, 244>>
               q == <<128, 143>>
               row == <<p, q, Continuation, Continuation>>
    <3>1. row \in WellFormed
      BY <2>1
    <3>2. In(s[i], p)
      BY <2>3
    <3> HIDE DEF p, q
    <3>3. SequenceLength(s, i) =
            IF i + 3 <= Len(s) /\ In(s[i + 1], q)
               /\ In(s[i + 2], Continuation) /\ In(s[i + 3], Continuation) THEN 4 ELSE 0
      BY <3>1, <3>2, Rows4
    <3>4. QED  BY <3>3 DEF p, q
  <2> HIDE DEF c, d, e
  <2>5. i + 3 <= Len(s) =>
          (In(c, <<128, 143>>) /\ In(d, Continuation) /\ In(e, Continuation) <=> Fits4(b, c, d, e))
    BY <1>1, <1>5, <2>2, InRanges DEF Fits4
  <2>6. SequenceLength(s, i) = IF i + 3 <= Len(s) /\ Fits4(b, c, d, e) THEN 4 ELSE 0
    BY <2>4, <2>5
  <2>7. QED  BY <2>6 DEF c, d, e
<1>6. b = 240 \/ b \in 241..243 \/ b = 244
  OBVIOUS
<1>7. QED  BY <1>3, <1>4, <1>5, <1>6

LEMMA SpellsIs ==
  ASSUME NEW lead, NEW cp
  PROVE  Spells(lead, cp) <=>
           /\ cp >= lead.min /\ ~(55296 <= cp /\ cp <= 57343) /\ cp <= 1114111
<1>1. Within(cp, {<<55296, 57343>>}) <=> 55296 <= cp /\ cp <= 57343
  BY DEF Within
<1>2. QED  BY <1>1 DEF Spells

LEMMA SameTwo ==
  ASSUME NEW s \in Seq(Octets), NEW i \in 1..Len(s), NEW b \in 194..223, s[i] = b
  PROVE  SameAt(s, i)
<1> DEFINE low == b % LeadBits[2]
           lead == [len |-> 2, low |-> low, min |-> 128]
           rest == SubSeq(s, i + 1, i + 2 - 1)
           cp == Spelt(low, rest)
           c == s[i + 1]
<1>1. low = b % 32
  BY DEF LeadBits
<1>2. Lead(b) = lead
  <2>1. b \in Octets
    BY DEF Octets
  <2>2. Lead(b) = [len |-> 2, low |-> b % 32, min |-> 128]
    BY <2>1, LeadIs
  <2> HIDE DEF low
  <2>3. QED  BY <1>1, <2>2
<1>3. i \in Nat /\ Len(s) \in Nat /\ i + 2 - 1 = i + 1 /\ 2 \in 2..4
  OBVIOUS
<1>4. SequenceLength(s, i) = IF i + 1 <= Len(s) /\ Cont(c) THEN 2 ELSE 0
  BY Length2
<1>5. i + 1 <= Len(s) => c \in Octets
  OBVIOUS
<1>6. i + 1 <= Len(s) => Len(rest) = 1 /\ rest[1] = c
  <2> SUFFICES ASSUME i + 1 <= Len(s)
               PROVE  Len(rest) = 1 /\ rest[1] = c
    OBVIOUS
  <2>1. i + 2 - 1 <= Len(s)
    BY <1>3
  <2>2. Len(rest) = 2 - 1 /\ \A k \in 1..(2 - 1) : rest[k] = s[i + k]
    BY <1>3, <2>1, Behind
  <2> HIDE DEF rest
  <2>3. 1..(2 - 1) = {1} /\ 2 - 1 = 1
    OBVIOUS
  <2>4. QED  BY <2>2, <2>3
<1>7. (\A k \in 1..(2 - 1) : Cont(s[i + k])) <=> Cont(c)
  <2>1. 1..(2 - 1) = {1}
    OBVIOUS
  <2>2. QED  BY <2>1
<1> HIDE DEF c, rest
<1>8. ASSUME i + 1 <= Len(s), Cont(c)
      PROVE  Spells(lead, cp) <=> Cont(c)
  <2> DEFINE u == SixMore(b % 32, c)
  <2>1. cp = u
    <3>1. Len(rest) = 1 /\ rest[1] = c
      BY <1>6, <1>8
    <3> HIDE DEF low
    <3>2. Spelt(low, rest) = SixMore(low, c)
      BY <3>1 DEF Spelt
    <3>3. QED  BY <1>1, <3>2
  <2>2. c \in 128..191
    <3> HIDE DEF u, cp, lead, low
    <3> QED  BY <1>8 DEF Cont
  <2> HIDE DEF low
  <2>3. At2(u)
    BY Zenon, <2>2, SpelledBy2
  <2>4. At2(cp)
    BY <2>1, <2>3
  <2> HIDE DEF u, cp
  <2>5. lead.min = 128
    OBVIOUS
  <2> HIDE DEF lead
  <2>6. Spells(lead, cp) <=> /\ cp >= 128 /\ ~(55296 <= cp /\ cp <= 57343) /\ cp <= 1114111
    BY <2>5, SpellsIs
  <2>7. cp >= 128 /\ ~(55296 <= cp /\ cp <= 57343) /\ cp <= 1114111
    BY <2>4 DEF At2
  <2>8. QED  BY <1>8, <2>6, <2>7
<1>9. SequenceLength(s, i) =
        IF i + 2 - 1 <= Len(s) /\ (\A k \in 1..(2 - 1) : Cont(s[i + k])) /\ Spells(lead, cp)
        THEN 2 ELSE 0
  <2> HIDE DEF lead, cp
  <2>1. QED  BY <1>3, <1>4, <1>7, <1>8
<1>10. low = s[i] % LeadBits[2] /\ Lead(s[i]) = lead
  BY <1>2
<1>11. 128 \in Nat /\ 128 >= 128 /\ lead = [len |-> 2, low |-> low, min |-> 128]
  OBVIOUS
<1>12. cp = Spelt(low, SubSeq(s, i + 1, i + 2 - 1))
  BY DEF rest
<1> HIDE DEF lead, cp, low
<1>13. QED  BY <1>3, <1>9, <1>10, <1>11, <1>12, SameMany

LEMMA SameThree ==
  ASSUME NEW s \in Seq(Octets), NEW i \in 1..Len(s), NEW b \in 224..239, s[i] = b
  PROVE  SameAt(s, i)
<1> DEFINE low == b % LeadBits[3]
           lead == [len |-> 3, low |-> low, min |-> 2048]
           rest == SubSeq(s, i + 1, i + 3 - 1)
           cp == Spelt(low, rest)
           c == s[i + 1]
           d == s[i + 2]
<1>1. low = b % 16
  BY DEF LeadBits
<1>2. Lead(b) = lead
  <2>1. b \in Octets
    BY DEF Octets
  <2>2. Lead(b) = [len |-> 3, low |-> b % 16, min |-> 2048]
    BY <2>1, LeadIs
  <2> HIDE DEF low
  <2>3. QED  BY <1>1, <2>2
<1>3. i \in Nat /\ Len(s) \in Nat /\ i + 3 - 1 = i + 2 /\ 3 \in 2..4
  OBVIOUS
<1>4. SequenceLength(s, i) = IF i + 2 <= Len(s) /\ Fits3(b, c, d) THEN 3 ELSE 0
  BY Length3
<1>5. i + 2 <= Len(s) => c \in Octets /\ d \in Octets
  OBVIOUS
<1>6. i + 2 <= Len(s) => Len(rest) = 2 /\ rest[1] = c /\ rest[2] = d
  <2> SUFFICES ASSUME i + 2 <= Len(s)
               PROVE  Len(rest) = 2 /\ rest[1] = c /\ rest[2] = d
    OBVIOUS
  <2>1. i + 3 - 1 <= Len(s)
    BY <1>3
  <2>2. Len(rest) = 3 - 1 /\ \A k \in 1..(3 - 1) : rest[k] = s[i + k]
    BY <1>3, <2>1, Behind
  <2> HIDE DEF rest
  <2>3. 1..(3 - 1) = {1, 2} /\ 3 - 1 = 2
    OBVIOUS
  <2>4. QED  BY <2>2, <2>3
<1>7. (\A k \in 1..(3 - 1) : Cont(s[i + k])) <=> Cont(c) /\ Cont(d)
  <2>1. 1..(3 - 1) = {1, 2}
    OBVIOUS
  <2>2. QED  BY <2>1
<1> HIDE DEF c, d, rest
<1>8. ASSUME i + 2 <= Len(s), Cont(c), Cont(d)
      PROVE  Spells(lead, cp) <=> Fits3(b, c, d)
  <2> DEFINE u == SixMore(SixMore(b % 16, c), d)
  <2>1. cp = u
    <3>1. Len(rest) = 2 /\ rest[1] = c /\ rest[2] = d
      BY <1>6, <1>8
    <3> HIDE DEF low
    <3>2. Spelt(low, rest) = SixMore(SixMore(low, c), d)
      BY <3>1 DEF Spelt
    <3>3. QED  BY <1>1, <3>2
  <2>2. c \in 128..191 /\ d \in 128..191
    <3> HIDE DEF u, cp, lead, low
    <3> QED  BY <1>8 DEF Cont
  <2> HIDE DEF low
  <2>3. At3(b, c, u)
    BY Zenon, <2>2, SpelledBy3
  <2>4. At3(b, c, cp)
    BY <2>1, <2>3
  <2> HIDE DEF u, cp
  <2>5. lead.min = 2048
    OBVIOUS
  <2> HIDE DEF lead
  <2>6. Spells(lead, cp) <=> /\ cp >= 2048 /\ ~(55296 <= cp /\ cp <= 57343) /\ cp <= 1114111
    BY <2>5, SpellsIs
  <2>7. ~(c >= 160) <=> c < 160
    BY <2>2
  <2>8. QED  BY <1>8, <2>4, <2>6, <2>7 DEF At3, Fits3
<1>9. Fits3(b, c, d) => Cont(c) /\ Cont(d)
  BY DEF Fits3
<1>10. SequenceLength(s, i) =
        IF i + 3 - 1 <= Len(s) /\ (\A k \in 1..(3 - 1) : Cont(s[i + k])) /\ Spells(lead, cp)
        THEN 3 ELSE 0
  <2> HIDE DEF lead, cp
  <2>1. QED  BY <1>3, <1>4, <1>7, <1>8, <1>9
<1>11. low = s[i] % LeadBits[3] /\ Lead(s[i]) = lead
  BY <1>2
<1>12. 2048 \in Nat /\ 2048 >= 128 /\ lead = [len |-> 3, low |-> low, min |-> 2048]
  OBVIOUS
<1>13. cp = Spelt(low, SubSeq(s, i + 1, i + 3 - 1))
  BY DEF rest
<1> HIDE DEF lead, cp, low
<1>14. QED  BY <1>3, <1>10, <1>11, <1>12, <1>13, SameMany

LEMMA SameFour ==
  ASSUME NEW s \in Seq(Octets), NEW i \in 1..Len(s), NEW b \in 240..244, s[i] = b
  PROVE  SameAt(s, i)
<1> DEFINE low == b % LeadBits[4]
           lead == [len |-> 4, low |-> low, min |-> 65536]
           rest == SubSeq(s, i + 1, i + 4 - 1)
           cp == Spelt(low, rest)
           c == s[i + 1]
           d == s[i + 2]
           e == s[i + 3]
<1>1. low = b % 8
  BY DEF LeadBits
<1>2. Lead(b) = lead
  <2>1. b \in Octets
    BY DEF Octets
  <2>2. Lead(b) = [len |-> 4, low |-> b % 8, min |-> 65536]
    BY <2>1, LeadIs
  <2> HIDE DEF low
  <2>3. QED  BY <1>1, <2>2
<1>3. i \in Nat /\ Len(s) \in Nat /\ i + 4 - 1 = i + 3 /\ 4 \in 2..4
  OBVIOUS
<1>4. SequenceLength(s, i) = IF i + 3 <= Len(s) /\ Fits4(b, c, d, e) THEN 4 ELSE 0
  BY Length4
<1>5. i + 3 <= Len(s) => c \in Octets /\ d \in Octets /\ e \in Octets
  OBVIOUS
<1>6. i + 3 <= Len(s) => Len(rest) = 3 /\ rest[1] = c /\ rest[2] = d /\ rest[3] = e
  <2> SUFFICES ASSUME i + 3 <= Len(s)
               PROVE  Len(rest) = 3 /\ rest[1] = c /\ rest[2] = d /\ rest[3] = e
    OBVIOUS
  <2>1. i + 4 - 1 <= Len(s)
    BY <1>3
  <2>2. Len(rest) = 4 - 1 /\ \A k \in 1..(4 - 1) : rest[k] = s[i + k]
    BY <1>3, <2>1, Behind
  <2> HIDE DEF rest
  <2>3. 1..(4 - 1) = {1, 2, 3} /\ 4 - 1 = 3
    OBVIOUS
  <2>4. QED  BY <2>2, <2>3
<1>7. (\A k \in 1..(4 - 1) : Cont(s[i + k])) <=> Cont(c) /\ Cont(d) /\ Cont(e)
  <2>1. 1..(4 - 1) = {1, 2, 3}
    OBVIOUS
  <2>2. QED  BY <2>1
<1> HIDE DEF c, d, e, rest
<1>8. ASSUME i + 3 <= Len(s), Cont(c), Cont(d), Cont(e)
      PROVE  Spells(lead, cp) <=> Fits4(b, c, d, e)
  <2> DEFINE u == SixMore(SixMore(SixMore(b % 8, c), d), e)
  <2>1. cp = u
    <3>1. Len(rest) = 3 /\ rest[1] = c /\ rest[2] = d /\ rest[3] = e
      BY <1>6, <1>8
    <3> HIDE DEF low
    <3>2. Spelt(low, rest) = SixMore(SixMore(SixMore(low, c), d), e)
      BY <3>1 DEF Spelt
    <3>3. QED  BY <1>1, <3>2
  <2>2. c \in 128..191 /\ d \in 128..191 /\ e \in 128..191
    <3> HIDE DEF u, cp, lead, low
    <3> QED  BY <1>8 DEF Cont
  <2> HIDE DEF low
  <2>3. At4(b, c, u)
    BY Zenon, <2>2, SpelledBy4
  <2>4. At4(b, c, cp)
    BY <2>1, <2>3
  <2> HIDE DEF u, cp
  <2>5. lead.min = 65536
    OBVIOUS
  <2> HIDE DEF lead
  <2>6. Spells(lead, cp) <=> /\ cp >= 65536 /\ ~(55296 <= cp /\ cp <= 57343) /\ cp <= 1114111
    BY <2>5, SpellsIs
  <2>7. QED  BY <1>8, <2>4, <2>6 DEF At4, Fits4
<1>9. Fits4(b, c, d, e) => Cont(c) /\ Cont(d) /\ Cont(e)
  BY DEF Fits4
<1>10. SequenceLength(s, i) =
        IF i + 4 - 1 <= Len(s) /\ (\A k \in 1..(4 - 1) : Cont(s[i + k])) /\ Spells(lead, cp)
        THEN 4 ELSE 0
  <2> HIDE DEF lead, cp
  <2>1. QED  BY <1>3, <1>4, <1>7, <1>8, <1>9
<1>11. low = s[i] % LeadBits[4] /\ Lead(s[i]) = lead
  BY <1>2
<1>12. 65536 \in Nat /\ 65536 >= 128 /\ lead = [len |-> 4, low |-> low, min |-> 65536]
  OBVIOUS
<1>13. cp = Spelt(low, SubSeq(s, i + 1, i + 4 - 1))
  BY DEF rest
<1> HIDE DEF lead, cp, low
<1>14. QED  BY <1>3, <1>10, <1>11, <1>12, <1>13, SameMany

\* Wherever a unit may begin, the two decoders see the same.
LEMMA SameEverywhere ==
  ASSUME NEW s \in Seq(Octets), NEW i \in 1..Len(s)
  PROVE  SameAt(s, i)
<1> DEFINE b == s[i]
<1>1. b \in Octets
  OBVIOUS
<1> HIDE DEF b
<1>2. \/ b \in 0..127 \/ b \in (128..193) \cup (245..255)
      \/ b \in 194..223 \/ b \in 224..239 \/ b \in 240..244
  BY <1>1 DEF Octets
<1>3. b = s[i]
  BY DEF b
<1>4. CASE b \in 0..127
  BY <1>3, <1>4, SameByte
<1>5. CASE b \in (128..193) \cup (245..255)
  BY <1>3, <1>5, SameNone
<1>6. CASE b \in 194..223
  BY <1>3, <1>6, SameTwo
<1>7. CASE b \in 224..239
  BY <1>3, <1>7, SameThree
<1>8. CASE b \in 240..244
  BY <1>3, <1>8, SameFour
<1>9. QED  BY <1>2, <1>4, <1>5, <1>6, <1>7, <1>8

-----------------------------------------------------------------------------
(* What is drawn, from left to right.                                      *)

\* An item in front.
LEMMA InFront ==
  ASSUME NEW R, NEW x \in R, NEW w \in Seq(R)
  PROVE  /\ <<x>> \o w \in Seq(R) /\ Len(<<x>> \o w) = Len(w) + 1 /\ (<<x>> \o w)[1] = x
         /\ \A k \in 1..Len(w) : (<<x>> \o w)[k + 1] = w[k]
<1> DEFINE one == <<x>>
<1>1. one \in Seq(R) /\ Len(one) = 1 /\ one[1] = x
  OBVIOUS
<1>2. Len(w) \in Nat
  OBVIOUS
<1> HIDE DEF one
<1>3. one \o w \in Seq(R) /\ Joins(one \o w, one, w)
  BY <1>1, Joined
<1>4. Len(one \o w) = 1 + Len(w)
  BY <1>1, <1>3 DEF Joins
<1>5. 1 \in 1..Len(one) /\ \A k \in 1..Len(w) : Len(one) + k = k + 1
  BY <1>1
<1>6. (one \o w)[1] = x
  BY <1>1, <1>3, <1>5 DEF Joins
<1>7. \A k \in 1..Len(w) : (one \o w)[k + 1] = w[k]
  <2>1. \A k \in 1..Len(w) : (one \o w)[Len(one) + k] = w[k]
    BY <1>3 DEF Joins
  <2>2. QED  BY <1>5, <2>1
<1>8. Len(one \o w) = Len(w) + 1
  BY <1>2, <1>4
<1>9. QED  BY <1>3, <1>6, <1>7, <1>8 DEF one

\* A sequence in front of others.
LEMMA FlattenCons ==
  ASSUME NEW R, NEW a \in Seq(R), NEW s \in Seq(Seq(R))
  PROVE  FlattenSeq(<<a>> \o s) = a \o FlattenSeq(s)
<1> DEFINE t == <<a>> \o s
           n == Len(s)
<1>1. /\ t \in Seq(Seq(R)) /\ Len(t) = n + 1 /\ t[1] = a
      /\ \A k \in 1..n : t[k + 1] = s[k]
  BY InFront
<1>2. n \in Nat /\ \A k \in 1..n : s[k] \in Seq(R)
  OBVIOUS
<1> HIDE DEF t, n
<1>3. Len(t) # 0
  BY <1>1, <1>2
<1>4. PICK F : Recurs(F, t) /\ FlattenSeq(t) = F[Len(t)]
  BY <1>1, <1>3, FlattenRecurs
<1>5. \A k \in 1..(n + 1) : F[k] = IF k = 1 THEN t[k] ELSE F[k - 1] \o t[k]
  BY <1>1, <1>4 DEF Recurs
<1>6. F[1] = a
  <2>1. 1 \in 1..(n + 1)
    BY <1>2
  <2>2. QED  BY <1>1, <1>5, <2>1
<1>7. \A k \in 1..n : F[k + 1] = F[k] \o s[k]
  <2>1. \A k \in 1..n : k + 1 \in 1..(n + 1) /\ k + 1 # 1 /\ (k + 1) - 1 = k
    BY <1>2
  <2>2. \A k \in 1..n : F[k + 1] = F[(k + 1) - 1] \o t[k + 1]
    BY <1>5, <2>1
  <2>3. QED  BY <1>1, <2>1, <2>2
<1>8. CASE n = 0
  <2>1. s = << >>
    BY <1>8 DEF n
  <2>2. FlattenSeq(s) = << >>
    BY <2>1 DEF FlattenSeq
  <2>3. FlattenSeq(t) = a
    BY <1>1, <1>4, <1>6, <1>8
  <2>4. a \o << >> = a
    OBVIOUS
  <2>5. QED  BY <2>2, <2>3, <2>4 DEF t
<1>9. CASE n # 0
  <2>1. Len(s) # 0
    BY <1>9 DEF n
  <2>2. PICK G : Recurs(G, s) /\ FlattenSeq(s) = G[Len(s)]
    BY <2>1, FlattenRecurs
  <2>3. \A k \in 1..n : G[k] = IF k = 1 THEN s[k] ELSE G[k - 1] \o s[k]
    BY <2>2 DEF Recurs, n
  <2> DEFINE Good == {k \in Nat : k + 1 \in 1..n =>
                        G[k + 1] \in Seq(R) /\ F[k + 2] = a \o G[k + 1]}
  <2>4. 0 \in Good
    <3>1. 1 \in 1..n /\ 0 + 1 = 1 /\ 0 + 2 = 2 /\ 1 + 1 = 2
      BY <1>2, <1>9
    <3>2. G[1] = s[1] /\ F[2] = F[1] \o s[1] /\ s[1] \in Seq(R)
      BY <1>2, <1>7, <2>3, <3>1
    <3>3. QED  BY <1>6, <3>1, <3>2
  <2>5. ASSUME NEW k \in Nat, k \in Good
        PROVE  k + 1 \in Good
    <3> SUFFICES ASSUME (k + 1) + 1 \in 1..n
                 PROVE  G[(k + 1) + 1] \in Seq(R) /\ F[(k + 1) + 2] = a \o G[(k + 1) + 1]
      OBVIOUS
    <3>1. /\ k + 2 \in 1..n /\ k + 1 \in 1..n /\ k + 2 # 1 /\ (k + 2) - 1 = k + 1
          /\ (k + 1) + 1 = k + 2 /\ (k + 1) + 2 = k + 3 /\ (k + 2) + 1 = k + 3
      BY <1>2
    <3>2. G[k + 1] \in Seq(R) /\ F[k + 2] = a \o G[k + 1] /\ s[k + 2] \in Seq(R)
      BY <1>2, <2>5, <3>1
    <3>3. G[k + 2] = G[k + 1] \o s[k + 2]
      BY <2>3, <3>1
    <3>4. F[k + 3] = F[k + 2] \o s[k + 2]
      BY <1>7, <3>1
    <3>5. (a \o G[k + 1]) \o s[k + 2] = a \o (G[k + 1] \o s[k + 2])
      <4> DEFINE g == G[k + 1]
                 h == s[k + 2]
      <4>1. g \in Seq(R) /\ h \in Seq(R)
        BY <3>2
      <4> HIDE DEF g, h
      <4>2. (a \o g) \o h = a \o (g \o h)
        <5>1. Groups(a, g, h)
          BY <4>1, Regroup
        <5>2. QED  BY <5>1 DEF Groups
      <4>3. QED  BY <4>2 DEF g, h
    <3>6. G[k + 1] \o s[k + 2] \in Seq(R)
      BY <3>2
    <3>7. G[k + 2] \in Seq(R) /\ F[k + 3] = a \o G[k + 2]
      BY <3>2, <3>3, <3>4, <3>5, <3>6
    <3>8. QED  BY <3>1, <3>7
  <2> HIDE DEF Good
  <2>6. n - 1 \in Good
    <3>1. n - 1 \in Nat
      BY <1>2, <1>9
    <3>2. QED  BY <2>4, <2>5, <3>1, Induction
  <2>7. F[n + 1] = a \o G[n]
    <3>1. n - 1 \in Nat /\ (n - 1) + 1 \in 1..n /\ (n - 1) + 1 = n /\ (n - 1) + 2 = n + 1
      BY <1>2, <1>9
    <3>2. QED  BY <2>6, <3>1 DEF Good
  <2>8. QED  BY <1>1, <1>4, <2>2, <2>7 DEF t, n
<1>10. QED  BY <1>8, <1>9

\* What follows a unit does not change when a unit is put in front.
LEMMA AfterFirst ==
  ASSUME NEW R, NEW x \in R, NEW w \in Seq(R)
  PROVE  After(<<x>> \o w, 1) = w
<1> DEFINE t == <<x>> \o w
<1>1. /\ t \in Seq(R) /\ Len(t) = Len(w) + 1
      /\ \A k \in 1..Len(w) : t[k + 1] = w[k]
  BY InFront
<1>2. Len(w) \in Nat
  OBVIOUS
<1> HIDE DEF t
<1>3. 1 \in 1..Len(t) /\ Len(t) - 1 = Len(w)
  BY <1>1, <1>2
<1>4. /\ After(t, 1) \in Seq(R) /\ Len(After(t, 1)) = Len(w)
      /\ \A j \in 1..Len(w) : After(t, 1)[j] = t[1 + j]
  <2>1. /\ After(t, 1) \in Seq(R) /\ Len(After(t, 1)) = Len(t) - 1
        /\ \A j \in 1..(Len(t) - 1) : After(t, 1)[j] = t[1 + j]
    <3>1. t \in Seq(R) /\ 1 \in 1..Len(t)
      BY <1>1, <1>3
    <3>2. QED  BY <3>1, AfterIs
  <2>2. QED  BY <1>3, <2>1
<1>5. \A j \in 1..Len(w) : After(t, 1)[j] = w[j]
  <2>1. \A j \in 1..Len(w) : 1 + j = j + 1
    OBVIOUS
  <2>2. QED  BY <1>1, <1>4, <2>1
<1>6. After(t, 1) = w
  BY <1>4, <1>5, SeqEqual
<1>7. QED  BY <1>6 DEF t

LEMMA AfterNext ==
  ASSUME NEW R, NEW x \in R, NEW w \in Seq(R), NEW k \in 1..Len(w)
  PROVE  After(<<x>> \o w, k + 1) = After(w, k)
<1> DEFINE t == <<x>> \o w
<1>1. /\ t \in Seq(R) /\ Len(t) = Len(w) + 1
      /\ \A j \in 1..Len(w) : t[j + 1] = w[j]
  BY InFront
<1>2. Len(w) \in Nat /\ k \in Nat /\ k >= 1 /\ k <= Len(w)
  OBVIOUS
<1> HIDE DEF t
<1>3. k + 1 \in 1..Len(t) /\ Len(t) - (k + 1) = Len(w) - k
  BY <1>1, <1>2
<1>4. /\ After(t, k + 1) \in Seq(R) /\ Len(After(t, k + 1)) = Len(w) - k
      /\ \A j \in 1..(Len(w) - k) : After(t, k + 1)[j] = t[(k + 1) + j]
  <2> DEFINE h == k + 1
  <2>1. t \in Seq(R) /\ h \in 1..Len(t) /\ Len(t) - h = Len(w) - k
    BY <1>1, <1>3
  <2> HIDE DEF h
  <2>2. /\ After(t, h) \in Seq(R) /\ Len(After(t, h)) = Len(t) - h
        /\ \A j \in 1..(Len(t) - h) : After(t, h)[j] = t[h + j]
    BY <2>1, AfterIs
  <2>3. /\ After(t, h) \in Seq(R) /\ Len(After(t, h)) = Len(w) - k
        /\ \A j \in 1..(Len(w) - k) : After(t, h)[j] = t[h + j]
    BY <2>1, <2>2
  <2>4. QED  BY <2>3 DEF h
<1>5. /\ After(w, k) \in Seq(R) /\ Len(After(w, k)) = Len(w) - k
      /\ \A j \in 1..(Len(w) - k) : After(w, k)[j] = w[k + j]
  BY AfterIs
<1>6. \A j \in 1..(Len(w) - k) : After(t, k + 1)[j] = After(w, k)[j]
  <2>1. \A j \in 1..(Len(w) - k) : (k + 1) + j = (k + j) + 1 /\ k + j \in 1..Len(w)
    BY <1>2
  <2>2. QED  BY <1>1, <1>4, <1>5, <2>1
<1>7. After(t, k + 1) = After(w, k)
  BY <1>4, <1>5, <1>6, SeqEqual
<1>8. QED  BY <1>7 DEF t

\* A piece of a drawing, and all of them.
Painted(q) == IF q.kind = "hidden" THEN <<SgrHidden>> \o PieceText(q) \o <<Reset>>
              ELSE PieceText(q)
PaintedAt(t, k) == Painted([kind |-> Kind(t, k), code |-> t[k]])
PaintedAll(t) == [k \in DOMAIN t |-> PaintedAt(t, k)]

LEMMA PaintedIs ==
  ASSUME NEW t \in Seq(Unit), NEW k \in 1..Len(t)
  PROVE  PaintedAt(t, k) \in Seq(Int)
<1> DEFINE q == [kind |-> Kind(t, k), code |-> t[k]]
           p == Spelled(t)[k]
<1>1. p \in Seq(Int)
  <2>1. p \in Seq(Nat)
    BY SpelledIsSeq
  <2>2. QED  BY <2>1, SeqMonotonic
<1>2. p = PieceText(q)
  <2>1. k \in DOMAIN t
    OBVIOUS
  <2>2. QED  BY <2>1 DEF Spelled
<1>3. <<SgrHidden>> \in Seq(Int) /\ <<Reset>> \in Seq(Int)
  BY DEF SgrHidden, Reset
<1>4. PaintedAt(t, k) = Painted(q)
  BY DEF PaintedAt
<1> HIDE DEF q, p
<1>5. <<SgrHidden>> \o p \o <<Reset>> \in Seq(Int)
  BY <1>1, <1>3
<1>6. QED  BY <1>1, <1>2, <1>4, <1>5 DEF Painted

LEMMA PaintedIsSeq ==
  ASSUME NEW t \in Seq(Unit)
  PROVE  PaintedAll(t) \in Seq(Seq(Int)) /\ Len(PaintedAll(t)) = Len(t)
<1>1. PaintedAll(t) = [k \in 1..Len(t) |-> PaintedAt(t, k)] /\ Len(t) \in Nat
  BY DEF PaintedAll
<1>2. \A k \in 1..Len(t) : PaintedAt(t, k) \in Seq(Int)
  BY PaintedIs
<1>3. [k \in 1..Len(t) |-> PaintedAt(t, k)] \in [1..Len(t) -> Seq(Int)]
  BY <1>2
<1>4. QED  BY <1>1, <1>3

LEMMA PaintedCons ==
  ASSUME NEW x \in Unit, NEW w \in Seq(Unit)
  PROVE  PaintedAll(<<x>> \o w) = <<PaintedAt(<<x>> \o w, 1)>> \o PaintedAll(w)
<1> DEFINE t == <<x>> \o w
           a == PaintedAt(t, 1)
<1>1. /\ t \in Seq(Unit) /\ Len(t) = Len(w) + 1 /\ t[1] = x
      /\ \A k \in 1..Len(w) : t[k + 1] = w[k]
  BY InFront
<1>2. \A k \in 1..Len(w) : After(t, k + 1) = After(w, k)
  BY AfterNext
<1> HIDE DEF t
<1>3. Len(w) \in Nat
  OBVIOUS
<1>4. PaintedAll(t) \in Seq(Seq(Int)) /\ Len(PaintedAll(t)) = Len(w) + 1
  BY <1>1, PaintedIsSeq
<1>5. PaintedAll(w) \in Seq(Seq(Int)) /\ Len(PaintedAll(w)) = Len(w)
  BY PaintedIsSeq
<1>6. a \in Seq(Int)
  <2>1. 1 \in 1..Len(t)
    BY <1>1, <1>3
  <2>2. QED  BY <1>1, <2>1, PaintedIs
<1>7. \A k \in 1..(Len(w) + 1) : PaintedAll(t)[k] = PaintedAt(t, k)
  BY <1>1 DEF PaintedAll
<1>8. \A k \in 1..Len(w) : PaintedAll(w)[k] = PaintedAt(w, k)
  BY DEF PaintedAll
<1>9. \A k \in 1..Len(w) : PaintedAt(t, k + 1) = PaintedAt(w, k)
  <2> SUFFICES ASSUME NEW k \in 1..Len(w)
               PROVE  PaintedAt(t, k + 1) = PaintedAt(w, k)
    OBVIOUS
  <2>1. t[k + 1] = w[k] /\ After(t, k + 1) = After(w, k)
    BY <1>1, <1>2
  <2>2. Kind(t, k + 1) = Kind(w, k)
    BY <2>1 DEF Kind
  <2>3. QED  BY <2>1, <2>2 DEF PaintedAt
<1> DEFINE r == <<a>> \o PaintedAll(w)
<1> HIDE DEF a
<1>10. /\ r \in Seq(Seq(Int)) /\ Len(r) = Len(w) + 1 /\ r[1] = a
       /\ \A k \in 1..Len(w) : r[k + 1] = PaintedAll(w)[k]
  BY <1>5, <1>6, InFront
<1> HIDE DEF r
<1>11. \A k \in 1..(Len(w) + 1) : PaintedAll(t)[k] = r[k]
  <2> SUFFICES ASSUME NEW k \in 1..(Len(w) + 1)
               PROVE  PaintedAll(t)[k] = r[k]
    OBVIOUS
  <2>1. CASE k = 1
    <3>1. PaintedAll(t)[1] = PaintedAt(t, 1)
      BY <1>7, <2>1
    <3>2. QED  BY <1>10, <2>1, <3>1 DEF a
  <2>2. CASE k # 1
    <3> DEFINE j == k - 1
    <3>1. j \in 1..Len(w) /\ k = j + 1
      BY <1>3, <2>2
    <3> HIDE DEF j
    <3>2. r[j + 1] = PaintedAt(t, j + 1)
      BY <1>8, <1>9, <1>10, <3>1
    <3>3. PaintedAll(t)[j + 1] = PaintedAt(t, j + 1)
      BY <1>7, <3>1
    <3>4. QED  BY <3>1, <3>2, <3>3
  <2>3. QED  BY <2>1, <2>2
<1>12. PaintedAll(t) = r
  BY <1>4, <1>10, <1>11, SeqEqual
<1>13. QED  BY <1>12 DEF r, a, t

\* The drawing of a unit and those behind it.
Painting(t) == FlattenSeq(PaintedAll(t))

LEMMA PaintingCons ==
  ASSUME NEW x \in Unit, NEW w \in Seq(Unit)
  PROVE  Painting(<<x>> \o w) = PaintedAt(<<x>> \o w, 1) \o Painting(w)
<1> DEFINE t == <<x>> \o w
           a == PaintedAt(t, 1)
<1>1. t \in Seq(Unit) /\ Len(t) = Len(w) + 1 /\ Len(w) \in Nat
  BY InFront
<1>2. PaintedAll(t) = <<a>> \o PaintedAll(w)
  BY PaintedCons
<1> HIDE DEF t
<1>3. a \in Seq(Int)
  <2>1. 1 \in 1..Len(t)
    BY <1>1
  <2>2. QED  BY <1>1, <2>1, PaintedIs
<1>4. PaintedAll(w) \in Seq(Seq(Int))
  BY PaintedIsSeq
<1> HIDE DEF a
<1>5. FlattenSeq(<<a>> \o PaintedAll(w)) = a \o FlattenSeq(PaintedAll(w))
  BY <1>3, <1>4, FlattenCons
<1>6. QED  BY <1>2, <1>5 DEF Painting, a, t

\* How the unit in front is drawn.
LEMMA PaintedFirst ==
  ASSUME NEW x \in Unit, NEW w \in Seq(Unit)
  PROVE  PaintedAt(<<x>> \o w, 1) =
           IF x < 0 THEN ByteEscape(-x)
           ELSE IF IsHidden(x) THEN <<SgrHidden>> \o CodePoint(x) \o <<Reset>>
           ELSE IF x = Backslash /\ BeginsEscape(w) THEN CodePoint(x) ELSE <<x>>
<1> DEFINE t == <<x>> \o w
           q == [kind |-> Kind(t, 1), code |-> x]
<1>1. t \in Seq(Unit) /\ Len(t) = Len(w) + 1 /\ t[1] = x
  BY InFront
<1>2. After(t, 1) = w
  BY AfterFirst
<1> HIDE DEF t
<1>3. 1 \in 1..Len(t)
  BY <1>1
<1>4. \/ Kind(t, 1) = "byte" /\ x \in -255..-1
      \/ Kind(t, 1) \in {"hidden", "backslash"} /\ x \in Nat
      \/ /\ Kind(t, 1) = "char" /\ x \in Nat /\ ~IsHidden(x)
         /\ ~(x = Backslash /\ BeginsEscape(w))
  BY <1>1, <1>2, <1>3, KindIs
<1>5. PaintedAt(t, 1) = Painted(q) /\ q.kind = Kind(t, 1) /\ q.code = x
  BY <1>1 DEF PaintedAt
<1> HIDE DEF q
<1>6. CASE Kind(t, 1) = "byte" /\ x \in -255..-1
  <2>1. x < 0
    BY <1>6
  <2>2. Painted(q) = ByteEscape(-x)
    BY <1>5, <1>6 DEF Painted, PieceText
  <2>3. QED  BY <1>5, <2>1, <2>2 DEF t
<1>7. CASE Kind(t, 1) \in {"hidden", "backslash"} /\ x \in Nat
  <2>1. ~(x < 0) /\ t[1] = x /\ ~(t[1] < 0)
    BY <1>1, <1>7
  <2>2. IsHidden(x) => x # Backslash
    BY EscapesAreSeen DEF EscapeCodes
  <2>3. CASE IsHidden(x)
    <3>1. Kind(t, 1) = "hidden"
      BY <2>1, <2>2, <2>3 DEF Kind
    <3>2. Painted(q) = <<SgrHidden>> \o CodePoint(x) \o <<Reset>>
      BY <1>5, <3>1 DEF Painted, PieceText
    <3>3. QED  BY <1>5, <2>1, <2>3, <3>2 DEF t
  <2>4. CASE ~IsHidden(x)
    <3>1. x = Backslash /\ BeginsEscape(w) /\ Kind(t, 1) = "backslash"
      <4>1. CASE x = Backslash /\ BeginsEscape(w)
        <5>1. Kind(t, 1) = "backslash"
          BY <1>2, <2>1, <2>4, <4>1 DEF Kind
        <5>2. QED  BY <4>1, <5>1
      <4>2. CASE ~(x = Backslash /\ BeginsEscape(w))
        <5>1. Kind(t, 1) = "char"
          BY <1>2, <2>1, <2>4, <4>2 DEF Kind
        <5>2. QED  BY <1>7, <5>1
      <4>3. QED  BY <4>1, <4>2
    <3>2. Painted(q) = CodePoint(x)
      BY <1>5, <3>1 DEF Painted, PieceText
    <3>3. QED  BY <1>5, <2>1, <2>4, <3>1, <3>2 DEF t
  <2>5. QED  BY <2>3, <2>4
<1>8. CASE /\ Kind(t, 1) = "char" /\ x \in Nat /\ ~IsHidden(x)
           /\ ~(x = Backslash /\ BeginsEscape(w))
  <2>1. ~(x < 0)
    BY <1>8
  <2>2. Painted(q) = <<x>>
    BY <1>5, <1>8 DEF Painted, PieceText
  <2>3. QED  BY <1>5, <1>8, <2>1, <2>2 DEF t
<1>9. QED  BY <1>4, <1>6, <1>7, <1>8

-----------------------------------------------------------------------------
(* Two readings of a word.                                                 *)

\* The unit at byte i.
Here(bytes, i) ==
  LET n == SequenceLength(bytes, i)
  IN  IF n = 0 THEN -bytes[i] ELSE ScalarOf(SubSeq(bytes, i, i + n - 1))

LEMMA HereIs ==
  ASSUME NEW bytes \in Seq(Octets), NEW i \in 1..Len(bytes)
  PROVE  UnitHere(bytes, i) = <<Here(bytes, i)>> /\ Here(bytes, i) \in Unit
<1>1. UnitHere(bytes, i) = <<Here(bytes, i)>>
  <2>1. CASE SequenceLength(bytes, i) = 0
    BY <2>1 DEF UnitHere, Here
  <2>2. CASE SequenceLength(bytes, i) # 0
    BY <2>2 DEF UnitHere, Here
  <2>3. QED  BY <2>1, <2>2
<1>2. \A h : <<h>> \in Seq(Unit) => h \in Unit
  <2>1. ASSUME NEW h, <<h>> \in Seq(Unit)
        PROVE  h \in Unit
    <3>1. 1 \in 1..Len(<<h>>) /\ <<h>>[1] = h
      OBVIOUS
    <3> DEFINE one == <<h>>
    <3>2. one \in Seq(Unit) /\ 1 \in 1..Len(one) /\ one[1] = h
      BY <2>1, <3>1
    <3> HIDE DEF one
    <3>3. QED  BY <3>2, ElementOfSeq
  <2>2. QED  BY <2>1
<1>3. <<Here(bytes, i)>> \in Seq(Unit)
  BY <1>1, UnitHereIs
<1>4. QED  BY <1>1, <1>2, <1>3

\* An ASCII byte is a unit of its own, and no other byte begins an ASCII unit.
Ascii(bytes, i, c) ==
  /\ bytes[i] = c <=> Here(bytes, i) = c
  /\ bytes[i] = c => NextUnit(bytes, i) = i + 1

LEMMA HereAscii ==
  ASSUME NEW bytes \in Seq(Octets), NEW i \in 1..Len(bytes), NEW c \in 0..127
  PROVE  Ascii(bytes, i, c)
<1> DEFINE n == SequenceLength(bytes, i)
<1>1. bytes[i] \in Octets /\ SameAt(bytes, i)
  BY SameEverywhere
<1>2. ASSUME NEW b \in 0..127, bytes[i] = b
      PROVE  Here(bytes, i) = b /\ NextUnit(bytes, i) = i + 1
  <2>1. n = 1 /\ UnitAt(bytes, i).cp = b
    BY <1>2, SameByte
  <2>2. UnitAt(bytes, i).cp = ScalarOf(SubSeq(bytes, i, i + n - 1))
    BY <1>1, <2>1 DEF SameAt
  <2>3. Here(bytes, i) = b
    BY <2>1, <2>2 DEF Here
  <2>4. NextUnit(bytes, i) = i + 1
    BY <2>1 DEF NextUnit
  <2>5. QED  BY <2>3, <2>4
<1>3. ASSUME NEW b \in 128..255, bytes[i] = b
      PROVE  Here(bytes, i) # c
  <2>1. CASE n = 0
    <3>1. Here(bytes, i) = -b
      BY <1>3, <2>1 DEF Here
    <3>2. -b # c
      OBVIOUS
    <3>3. QED  BY <3>1, <3>2
  <2>2. CASE n # 0
    <3>1. UnitAt(bytes, i).cp = ScalarOf(SubSeq(bytes, i, i + n - 1))
      BY <1>1, <2>2 DEF SameAt
    <3>2. bytes[i] >= 128
      BY <1>3
    <3>3. UnitAt(bytes, i).cp >= 128
      BY <1>1, <2>2, <3>2 DEF SameAt
    <3>4. Here(bytes, i) = UnitAt(bytes, i).cp
      BY <2>2, <3>1 DEF Here
    <3>5. ~(c >= 128)
      OBVIOUS
    <3>6. QED  BY <3>3, <3>4, <3>5
  <2>3. QED  BY <2>1, <2>2
<1>4. bytes[i] \in 0..127 \/ bytes[i] \in 128..255
  BY <1>1 DEF Octets
<1>5. ASSUME bytes[i] = c
      PROVE  Here(bytes, i) = c /\ NextUnit(bytes, i) = i + 1
  BY <1>2, <1>5
<1>6. ASSUME Here(bytes, i) = c
      PROVE  bytes[i] = c
  <2>1. CASE bytes[i] \in 0..127
    <3>1. Here(bytes, i) = bytes[i]
      BY <1>2, <2>1
    <3>2. QED  BY <1>6, <3>1
  <2>2. CASE bytes[i] \in 128..255
    <3>1. Here(bytes, i) # c
      BY <1>3, <2>2
    <3>2. QED  BY <1>6, <3>1
  <2>3. QED  BY <1>4, <2>1, <2>2
<1>7. QED  BY <1>5, <1>6 DEF Ascii

\* The units from each byte on.
UnitsFrom(F, bytes) ==
  /\ F[Len(bytes) + 1] = <<>>
  /\ \A i \in 1..Len(bytes) : F[i] = <<Here(bytes, i)>> \o F[NextUnit(bytes, i)]
  /\ \A i \in 1..(Len(bytes) + 1) : F[i] \in Seq(Unit)

LEMMA DecodeSuffixes ==
  ASSUME NEW bytes \in Seq(Octets)
  PROVE  \E F : UnitsFrom(F, bytes) /\ Decode(bytes) = F[1]
<1> DEFINE n == Len(bytes)
           F == CHOOSE f : Decodes(f, bytes)
<1>1. n \in Nat /\ Decodes(F, bytes) /\ \A i \in 1..(n + 1) : F[i] \in Seq(Unit)
  BY DecodeSolves
<1>2. Decode(bytes) = F[1]
  BY DecodeUnfolds
<1> HIDE DEF F
<1>3. \A i \in 1..(n + 1) : F[i] = DecodeStep(F, bytes, i)
  BY <1>1 DEF Decodes
<1>4. F[n + 1] = <<>>
  <2>1. n + 1 \in 1..(n + 1) /\ n + 1 > n
    BY <1>1
  <2>2. F[n + 1] = DecodeStep(F, bytes, n + 1)
    BY <1>3, <2>1
  <2>3. QED  BY <2>1, <2>2, DecodeScans
<1>5. ASSUME NEW i \in 1..n
      PROVE  F[i] = <<Here(bytes, i)>> \o F[NextUnit(bytes, i)]
  <2>1. i \in 1..(n + 1) /\ ~(i > n)
    BY <1>1
  <2>2. F[i] = UnitHere(bytes, i) \o F[NextUnit(bytes, i)]
    BY <1>3, <2>1, DecodeScans
  <2>3. QED  BY <2>2, HereIs
<1>6. UnitsFrom(F, bytes)
  BY <1>1, <1>4, <1>5 DEF UnitsFrom
<1>7. QED  BY <1>2, <1>6

\* t is the unit x and those of w.
Begins(t, x, w) ==
  /\ t = <<x>> \o w /\ t \in Seq(Unit) /\ x \in Unit /\ w \in Seq(Unit)
  /\ t[1] = x /\ Len(t) = Len(w) + 1 /\ Len(w) \in Nat
  /\ \A k \in 1..Len(w) : t[k + 1] = w[k]

LEMMA UnitsFromIs ==
  ASSUME NEW bytes \in Seq(Octets), NEW F, UnitsFrom(F, bytes), NEW i \in 1..Len(bytes)
  PROVE  Begins(F[i], Here(bytes, i), F[NextUnit(bytes, i)])
<1> DEFINE x == Here(bytes, i)
           w == F[NextUnit(bytes, i)]
<1>1. F[i] = <<x>> \o w
  BY DEF UnitsFrom
<1>2. NextUnit(bytes, i) \in 1..(Len(bytes) + 1) /\ i \in 1..(Len(bytes) + 1)
  BY UnitHereIs
<1>3. w \in Seq(Unit) /\ F[i] \in Seq(Unit)
  BY <1>2 DEF UnitsFrom
<1>4. x \in Unit
  BY HereIs
<1> HIDE DEF x, w
<1>5. /\ Len(<<x>> \o w) = Len(w) + 1 /\ (<<x>> \o w)[1] = x
      /\ \A k \in 1..Len(w) : (<<x>> \o w)[k + 1] = w[k]
  BY <1>3, <1>4, InFront
<1>6. Len(w) \in Nat
  BY <1>3
<1>7. Begins(F[i], x, w)
  BY <1>1, <1>3, <1>4, <1>5, <1>6 DEF Begins
<1>8. QED  BY <1>7 DEF x, w

LEMMA HexIsAscii ==
  ASSUME NEW u \in Int, IsHexDigit(u)
  PROVE  u \in 0..127
<1>1. (48 <= u /\ u <= 57) \/ (65 <= u /\ u <= 70) \/ (97 <= u /\ u <= 102)
  BY DEF IsHexDigit, Within
<1>2. QED  BY <1>1

\* The bytes that make an escape of the backslash at i make one of it as units.
LEMMA BeginsAlike ==
  ASSUME NEW bytes \in Seq(Octets), NEW F, UnitsFrom(F, bytes), NEW i \in 1..Len(bytes)
  PROVE  TwinBegins(bytes, i) <=> BeginsEscape(F[i + 1])
<1> DEFINE n == Len(bytes)
           j == i + 1
           h == i + 2
<1>1. n \in Nat /\ i \in Nat /\ i <= n /\ j + 1 = h
  OBVIOUS
<1>2. LetterU \in 0..127 /\ LetterX \in 0..127 /\ OpenBrace \in 0..127
  BY DEF LetterU, LetterX, OpenBrace
<1>3. TwinBegins(bytes, i) <=>
        /\ h <= n
        /\ \/ bytes[j] = LetterU /\ bytes[h] = OpenBrace
           \/ bytes[j] = LetterX /\ IsHexDigit(bytes[h])
  BY DEF TwinBegins
<1>4. BeginsEscape(F[j]) <=>
        /\ Len(F[j]) >= 2
        /\ \/ F[j][1] = LetterU /\ F[j][2] = OpenBrace
           \/ F[j][1] = LetterX /\ IsHexDigit(F[j][2])
  BY DEF BeginsEscape
<1>5. F[n + 1] = <<>> /\ Len(F[n + 1]) = 0
  BY DEF UnitsFrom
<1>6. CASE j = n + 1
  <2>1. ~(h <= n) /\ ~(Len(F[j]) >= 2)
    BY <1>1, <1>5, <1>6
  <2>2. QED  BY <1>3, <1>4, <2>1
<1>7. CASE j # n + 1
  <2>1. j \in 1..n
    BY <1>1, <1>7
  <2> HIDE DEF j, h, n
  <2>2. Begins(F[j], Here(bytes, j), F[NextUnit(bytes, j)])
    BY <2>1, UnitsFromIs DEF n
  <2>3. \A c \in 0..127 : /\ bytes[j] = c <=> F[j][1] = c
                          /\ bytes[j] = c => NextUnit(bytes, j) = h
    <3>1. \A c \in 0..127 : Ascii(bytes, j, c)
      BY <2>1, HereAscii DEF n
    <3>2. F[j][1] = Here(bytes, j)
      BY <2>2 DEF Begins
    <3>3. QED  BY <1>1, <3>1, <3>2 DEF Ascii
  <2>4. CASE bytes[j] # LetterU /\ bytes[j] # LetterX
    <3>1. F[j][1] # LetterU /\ F[j][1] # LetterX
      BY <1>2, <2>3, <2>4
    <3>2. QED  BY <1>3, <1>4, <2>4, <3>1 DEF j
  <2>5. CASE bytes[j] = LetterU \/ bytes[j] = LetterX
    <3>1. NextUnit(bytes, j) = h
      BY <1>2, <2>3, <2>5
    <3>2. Len(F[j]) = Len(F[h]) + 1 /\ \A k \in 1..Len(F[h]) : F[j][k + 1] = F[h][k]
      BY <2>2, <3>1 DEF Begins
    <3>3. CASE h = n + 1
      <4>1. Len(F[j]) = 1
        BY <1>5, <3>2, <3>3
      <4>2. ~(h <= n) /\ ~(Len(F[j]) >= 2)
        BY <1>1, <3>3, <4>1
      <4>3. QED  BY <1>3, <1>4, <4>2 DEF j
    <3>4. CASE h # n + 1
      <4>1. h \in 1..n
        BY <1>1, <2>1, <3>4
      <4>2. Begins(F[h], Here(bytes, h), F[NextUnit(bytes, h)])
        BY <4>1, UnitsFromIs DEF n
      <4>3. Len(F[h]) \in Nat /\ Len(F[h]) >= 1
        BY <4>2 DEF Begins
      <4>4. F[j][2] = F[h][1] /\ Len(F[j]) >= 2
        <5>1. 1 \in 1..Len(F[h])
          BY <4>3
        <5>2. F[j][1 + 1] = F[h][1]
          BY <3>2, <5>1
        <5>3. Len(F[j]) >= 2
          BY <3>2, <4>3
        <5>4. QED  BY <5>2, <5>3
      <4>5. \A c \in 0..127 : bytes[h] = c <=> F[h][1] = c
        <5>1. \A c \in 0..127 : Ascii(bytes, h, c)
          BY <4>1, HereAscii DEF n
        <5>2. F[h][1] = Here(bytes, h)
          BY <4>2 DEF Begins
        <5>3. QED  BY <5>1, <5>2 DEF Ascii
      <4>6. IsHexDigit(bytes[h]) <=> IsHexDigit(F[h][1])
        <5>1. bytes[h] \in Int
          <6>1. bytes[h] \in Octets
            BY <4>1 DEF n
          <6>2. Octets \subseteq Int
            BY DEF Octets
          <6>3. QED  BY <6>1, <6>2
        <5>2. F[h][1] \in Int
          <6>1. F[h][1] \in Unit
            BY <4>2 DEF Begins
          <6>2. Unit \subseteq Int
            BY DEF Unit
          <6>3. QED  BY <6>1, <6>2
        <5>3. IsHexDigit(bytes[h]) => bytes[h] = F[h][1]
          BY <4>5, <5>1, HexIsAscii
        <5>4. IsHexDigit(F[h][1]) => bytes[h] = F[h][1]
          BY <4>5, <5>2, HexIsAscii
        <5>5. QED  BY <5>3, <5>4
      <4>7. bytes[h] = OpenBrace <=> F[h][1] = OpenBrace
        BY <1>2, <4>5
      <4>8. /\ bytes[j] = LetterU <=> F[j][1] = LetterU
            /\ bytes[j] = LetterX <=> F[j][1] = LetterX
        BY <1>2, <2>3
      <4>9. h <= n
        BY <4>1
      <4>10. QED  BY <1>3, <1>4, <4>4, <4>6, <4>7, <4>8, <4>9 DEF j
    <3>5. QED  BY <3>3, <3>4
  <2>6. QED  BY <2>4, <2>5
<1>8. QED  BY <1>6, <1>7

-----------------------------------------------------------------------------
(* The deploy helper's escaper draws the units escape_core decodes.        *)

TwinHere(s, i) ==
  LET u == UnitAt(s, i)
  IN  IF u.len = 0 THEN ByteEscape(s[i])
      ELSE IF TwinHidden(u.cp) THEN <<SgrHidden>> \o CodePoint(u.cp) \o <<Reset>>
      ELSE IF u.cp = Backslash /\ TwinBegins(s, i) THEN CodePoint(Backslash)
      ELSE <<u.cp>>

TwinStep(g, s, i) ==
  IF i > Len(s) THEN <<>>
  ELSE LET u == UnitAt(s, i)
       IN  IF u.len = 0 THEN ByteEscape(s[i]) \o g[i + 1]
           ELSE (IF TwinHidden(u.cp) THEN <<SgrHidden>> \o CodePoint(u.cp) \o <<Reset>>
                 ELSE IF u.cp = Backslash /\ TwinBegins(s, i) THEN CodePoint(Backslash)
                 ELSE <<u.cp>>) \o g[i + u.len]
Twins(g, s) == g = [i \in 1..(Len(s) + 1) |-> TwinStep(g, s, i)]

LEMMA TwinUnfolds ==
  ASSUME NEW s
  PROVE  EscapeUntrusted(s, <<SgrHidden>>, <<Reset>>) = (CHOOSE g : Twins(g, s))[1]
BY DEF EscapeUntrusted, Twins, TwinStep

LEMMA TwinScans ==
  ASSUME NEW s \in Seq(Octets), NEW g, NEW i \in 1..Len(s)
  PROVE  TwinStep(g, s, i) = TwinHere(s, i) \o g[NextUnit(s, i)]
<1> DEFINE u == UnitAt(s, i)
<1>1. u.len = SequenceLength(s, i)
  BY SameEverywhere DEF SameAt
<1>2. ~(i > Len(s))
  OBVIOUS
<1> HIDE DEF u
<1>3. CASE u.len = 0
  <2>1. NextUnit(s, i) = i + 1
    BY <1>1, <1>3 DEF NextUnit
  <2>2. TwinHere(s, i) = ByteEscape(s[i])
    BY <1>3 DEF TwinHere, u
  <2>3. TwinStep(g, s, i) = ByteEscape(s[i]) \o g[i + 1]
    BY <1>2, <1>3 DEF TwinStep, u
  <2>4. QED  BY <2>1, <2>2, <2>3
<1>4. CASE u.len # 0
  <2>1. NextUnit(s, i) = i + u.len
    BY <1>1, <1>4 DEF NextUnit
  <2> DEFINE p == IF TwinHidden(u.cp) THEN <<SgrHidden>> \o CodePoint(u.cp) \o <<Reset>>
                  ELSE IF u.cp = Backslash /\ TwinBegins(s, i) THEN CodePoint(Backslash)
                  ELSE <<u.cp>>
  <2>2. TwinHere(s, i) = p
    BY <1>4 DEF TwinHere, u
  <2>3. TwinStep(g, s, i) = p \o g[i + u.len]
    BY <1>2, <1>4 DEF TwinStep, u
  <2> HIDE DEF p
  <2>4. QED  BY <2>1, <2>2, <2>3
<1>5. QED  BY <1>3, <1>4

LEMMA TwinHereIs ==
  ASSUME NEW s \in Seq(Octets), NEW F, UnitsFrom(F, s), NEW i \in 1..Len(s)
  PROVE  TwinHere(s, i) = PaintedAt(F[i], 1)
<1> DEFINE n == SequenceLength(s, i)
           x == Here(s, i)
           w == F[NextUnit(s, i)]
           u == UnitAt(s, i)
<1>1. Begins(F[i], x, w)
  BY UnitsFromIs
<1> HIDE DEF x, w
<1>2. F[i] = <<x>> \o w /\ x \in Unit /\ w \in Seq(Unit)
  BY <1>1 DEF Begins
<1>3. PaintedAt(F[i], 1) =
        IF x < 0 THEN ByteEscape(-x)
        ELSE IF IsHidden(x) THEN <<SgrHidden>> \o CodePoint(x) \o <<Reset>>
        ELSE IF x = Backslash /\ BeginsEscape(w) THEN CodePoint(x) ELSE <<x>>
  BY <1>2, PaintedFirst
<1>4. SameAt(s, i) /\ u.len = n /\ n \in 0..4 /\ i + n - 1 <= Len(s)
      /\ (n = 0 => s[i] \in 128..255)
  BY SameEverywhere, SequenceFits DEF SameAt
<1> HIDE DEF n, u
<1>5. CASE n = 0
  <2>1. x = -s[i] /\ s[i] \in 128..255
    BY <1>4, <1>5 DEF x, Here, n
  <2>2. x < 0 /\ -x = s[i]
    <3>1. \A b \in 128..255 : -b < 0 /\ -(-b) = b
      OBVIOUS
    <3>2. QED  BY <2>1, <3>1
  <2>3. PaintedAt(F[i], 1) = ByteEscape(s[i])
    BY <1>3, <2>2
  <2>4. TwinHere(s, i) = ByteEscape(s[i])
    BY <1>4, <1>5 DEF TwinHere, u
  <2>5. QED  BY <2>3, <2>4
<1>6. CASE n # 0
  <2>1. x = u.cp
    <3>1. u.cp = ScalarOf(SubSeq(s, i, i + n - 1))
      BY <1>4, <1>6 DEF SameAt, n, u
    <3>2. x = ScalarOf(SubSeq(s, i, i + n - 1))
      BY <1>6 DEF x, Here, n
    <3>3. QED  BY <3>1, <3>2
  <2>2. x \in Nat
    <3> DEFINE b == SubSeq(s, i, i + n - 1)
    <3>1. i \in 1..(Len(s) + 1) /\ n \in 1..4 /\ n \in 0..4 /\ i + n - 1 <= Len(s)
      BY <1>4, <1>6
    <3>2. b \in Seq(Octets) /\ Len(b) = n
      BY <3>1, Slice
    <3>3. x = ScalarOf(b)
      BY <1>6 DEF x, Here, n
    <3> HIDE DEF b
    <3>4. QED  BY <3>1, <3>2, <3>3, ScalarIsNat
  <2>3. ~(x < 0)
    BY <2>2
  <2>4. TwinHidden(x) <=> IsHidden(x)
    BY <2>2, TwinHiddenIs
  <2>5. TwinHere(s, i) =
          IF TwinHidden(x) THEN <<SgrHidden>> \o CodePoint(x) \o <<Reset>>
          ELSE IF x = Backslash /\ TwinBegins(s, i) THEN CodePoint(Backslash) ELSE <<x>>
    BY <1>4, <1>6, <2>1 DEF TwinHere, u
  <2>6. x = Backslash => (TwinBegins(s, i) <=> BeginsEscape(w))
    <3> SUFFICES ASSUME x = Backslash
                 PROVE  TwinBegins(s, i) <=> BeginsEscape(w)
      OBVIOUS
    <3>1. Backslash \in 0..127
      BY DEF Backslash
    <3>2. Ascii(s, i, Backslash)
      BY <3>1, HereAscii
    <3>3. NextUnit(s, i) = i + 1
      BY <3>2 DEF Ascii, x
    <3>4. w = F[i + 1]
      BY <3>3 DEF w
    <3>5. QED  BY <3>4, BeginsAlike
  <2>7. QED  BY <1>3, <2>3, <2>4, <2>5, <2>6
<1>7. QED  BY <1>5, <1>6

LEMMA TwinSolves ==
  ASSUME NEW s \in Seq(Octets)
  PROVE  Twins(CHOOSE g : Twins(g, s), s)
<1> DEFINE n == Len(s)
           piece == [i \in 1..n |-> TwinHere(s, i)]
           next == [i \in 1..n |-> NextUnit(s, i)]
<1>1. PICK F : UnitsFrom(F, s)
  BY DecodeSuffixes
<1>2. ASSUME NEW i \in 1..n
      PROVE  TwinHere(s, i) \in Seq(Int)
  <2>1. Begins(F[i], Here(s, i), F[NextUnit(s, i)])
    BY <1>1, UnitsFromIs
  <2>2. F[i] \in Seq(Unit) /\ 1 \in 1..Len(F[i])
    BY <2>1 DEF Begins
  <2>3. PaintedAt(F[i], 1) \in Seq(Int)
    BY <2>2, PaintedIs
  <2>4. QED  BY <1>1, <2>3, TwinHereIs
<1>3. n \in Nat /\ piece \in [1..n -> Seq(Int)]
  BY <1>2
<1>4. next \in [1..n -> 1..(n + 1)] /\ \A i \in 1..n : next[i] > i
  BY UnitHereIs
<1>5. \A i \in 1..n : piece[i] = TwinHere(s, i) /\ next[i] = NextUnit(s, i)
  OBVIOUS
<1>6. \A i \in 1..(n + 1) : i > n \/ i \in 1..n
  BY <1>3
<1> HIDE DEF piece, next
<1>7. PICK G : Scans(G, n, piece, next)
  <2> HIDE DEF n
  <2>1. QED  BY <1>3, <1>4, ScanExists
<1>8. \A i \in 1..(n + 1) :
        TwinStep(G, s, i) = IF i > n THEN <<>> ELSE piece[i] \o G[next[i]]
  <2> SUFFICES ASSUME NEW i \in 1..(n + 1)
               PROVE  TwinStep(G, s, i) = IF i > n THEN <<>> ELSE piece[i] \o G[next[i]]
    OBVIOUS
  <2>1. CASE i > n
    BY <2>1 DEF TwinStep
  <2>2. CASE ~(i > n)
    <3>1. i \in 1..n
      BY <1>6, <2>2
    <3>2. TwinStep(G, s, i) = TwinHere(s, i) \o G[NextUnit(s, i)]
      BY <3>1, TwinScans
    <3>3. QED  BY <1>5, <2>2, <3>1, <3>2
  <2>3. QED  BY <2>1, <2>2
<1>9. G = [i \in 1..(n + 1) |-> TwinStep(G, s, i)]
  BY <1>7, <1>8 DEF Scans
<1>10. Twins(G, s)
  BY <1>9 DEF Twins
<1>11. QED  BY <1>10

\* The helper's text of a word is the drawing of its units.
LEMMA TwinPaints ==
  ASSUME NEW s \in Seq(Octets)
  PROVE  EscapeUntrusted(s, <<SgrHidden>>, <<Reset>>) = Painting(Decode(s))
<1> DEFINE n == Len(s)
           G == CHOOSE g : Twins(g, s)
<1>1. PICK F : UnitsFrom(F, s) /\ Decode(s) = F[1]
  BY DecodeSuffixes
<1>2. n \in Nat /\ Twins(G, s)
  BY TwinSolves
<1>3. EscapeUntrusted(s, <<SgrHidden>>, <<Reset>>) = G[1]
  BY TwinUnfolds
<1> HIDE DEF G
<1>4. \A i \in 1..(n + 1) : G[i] = TwinStep(G, s, i)
  BY <1>2 DEF Twins
<1> DEFINE Good == {m \in Nat : \A i \in 1..(n + 1) : n + 1 - i <= m => G[i] = Painting(F[i])}
<1>5. G[n + 1] = Painting(F[n + 1])
  <2>1. n + 1 \in 1..(n + 1) /\ n + 1 > n
    BY <1>2
  <2>2. G[n + 1] = <<>>
    BY <1>4, <2>1 DEF TwinStep
  <2>3. F[n + 1] = <<>>
    BY <1>1 DEF UnitsFrom
  <2>4. PaintedAll(<<>>) = <<>>
    BY DEF PaintedAll
  <2>5. FlattenSeq(<<>>) = <<>>
    BY DEF FlattenSeq
  <2>6. QED  BY <2>2, <2>3, <2>4, <2>5 DEF Painting
<1>6. 0 \in Good
  <2>1. \A i \in 1..(n + 1) : n + 1 - i <= 0 => i = n + 1
    BY <1>2
  <2>2. QED  BY <1>5, <2>1
<1>7. ASSUME NEW m \in Nat, m \in Good
      PROVE  m + 1 \in Good
  <2> SUFFICES ASSUME NEW i \in 1..(n + 1), n + 1 - i <= m + 1
               PROVE  G[i] = Painting(F[i])
    OBVIOUS
  <2>1. CASE i = n + 1
    BY <1>5, <2>1
  <2>2. CASE i # n + 1
    <3> DEFINE j == NextUnit(s, i)
    <3>1. i \in 1..n
      BY <1>2, <2>2
    <3>2. j \in 1..(n + 1) /\ j > i
      BY <3>1, UnitHereIs
    <3>3. n + 1 - j <= m
      BY <1>2, <3>1, <3>2
    <3>4. G[j] = Painting(F[j])
      BY <1>7, <3>2, <3>3
    <3>5. G[i] = TwinHere(s, i) \o G[j]
      BY <1>4, <3>1, TwinScans
    <3>6. TwinHere(s, i) = PaintedAt(F[i], 1)
      BY <1>1, <3>1, TwinHereIs
    <3>7. Begins(F[i], Here(s, i), F[j])
      BY <1>1, <3>1, UnitsFromIs
    <3> HIDE DEF j
    <3>8. Painting(F[i]) = PaintedAt(F[i], 1) \o Painting(F[j])
      <4> DEFINE x == Here(s, i)
                 w == F[j]
      <4>1. F[i] = <<x>> \o w /\ x \in Unit /\ w \in Seq(Unit)
        BY <3>7 DEF Begins
      <4> HIDE DEF x, w
      <4>2. Painting(<<x>> \o w) = PaintedAt(<<x>> \o w, 1) \o Painting(w)
        BY <4>1, PaintingCons
      <4>3. QED  BY <4>1, <4>2 DEF w
    <3>9. QED  BY <3>4, <3>5, <3>6, <3>8
  <2>3. QED  BY <2>1, <2>2
<1> HIDE DEF Good
<1>8. n \in Good
  BY <1>2, <1>6, <1>7, Induction
<1>9. 1 \in 1..(n + 1) /\ n + 1 - 1 <= n
  BY <1>2
<1>10. G[1] = Painting(F[1])
  BY <1>8, <1>9 DEF Good
<1>11. QED  BY <1>1, <1>3, <1>10

-----------------------------------------------------------------------------
(* The commands.                                                           *)

WordsAreBytes ==
  /\ alphabet \in DOMAIN Chunks
  /\ words \in Seq(Seq(Octets)) /\ Len(words) >= 1

LEMMA InitWords == Init => WordsAreBytes
<1>1. << <<>> >> \in Seq(Seq(Octets)) /\ Len(<< <<>> >>) >= 1
  OBVIOUS
<1>2. QED  BY <1>1 DEF Init, WordsAreBytes

LEMMA NextWords == WordsAreBytes /\ Next => WordsAreBytes'
<1> SUFFICES ASSUME WordsAreBytes, Next
             PROVE  WordsAreBytes'
  OBVIOUS
<1>1. words \in Seq(Seq(Octets)) /\ Len(words) >= 1 /\ Len(words) \in Nat
  BY DEF WordsAreBytes
<1>2. CASE NextToken
  <2>1. << >> \in Seq(Octets)
    OBVIOUS
  <2>2. words' = Append(words, << >>) /\ alphabet' = alphabet
    BY <1>2 DEF NextToken
  <2>3. Append(words, << >>) \in Seq(Seq(Octets)) /\ Len(Append(words, << >>)) >= 1
    BY <1>1, <2>1
  <2>4. QED  BY <2>2, <2>3 DEF WordsAreBytes
<1>3. ASSUME NEW chunk \in Chunks[alphabet], Type(chunk)
      PROVE  WordsAreBytes'
  <2>1. chunk \in Seq(Octets)
    BY <1>3, ChunksAssumption DEF WordsAreBytes
  <2>2. words[Len(words)] \in Seq(Octets) /\ Len(words) \in 1..Len(words)
    BY <1>1
  <2>3. words[Len(words)] \o chunk \in Seq(Octets)
    BY <2>1, <2>2
  <2>4. words' = [words EXCEPT ![Len(words)] = words[Len(words)] \o chunk] /\ alphabet' = alphabet
    BY <1>3 DEF Type
  <2>5. words' \in Seq(Seq(Octets)) /\ Len(words') = Len(words)
    BY <1>1, <2>2, <2>3, <2>4, ExceptSeq
  <2>6. QED  BY <1>1, <2>4, <2>5 DEF WordsAreBytes
<1>4. QED  BY <1>2, <1>3 DEF Next

LEMMA CallsKeepWords == WordsAreBytes /\ [CallsNext]_<<vars, callVars>> => WordsAreBytes'
<1> SUFFICES ASSUME WordsAreBytes, [CallsNext]_<<vars, callVars>>
             PROVE  WordsAreBytes'
  OBVIOUS
<1>1. CASE Next
  BY <1>1, NextWords
<1>2. CASE UNCHANGED vars
  BY <1>2 DEF vars, WordsAreBytes
<1>3. Next \/ UNCHANGED vars
  <2>1. CASE Typing
    BY <2>1 DEF Typing
  <2>2. CASE Draw
    BY <2>2 DEF Draw
  <2>3. CASE Drawing
    BY <2>3 DEF Drawing
  <2>4. CASE UNCHANGED <<vars, callVars>>
    BY <2>4
  <2>5. QED  BY <2>1, <2>2, <2>3, <2>4 DEF CallsNext
<1>4. QED  BY <1>1, <1>2, <1>3

LEMMA WordsReadBack == WordsAreBytes => EscapeReadsBack
<1> SUFFICES ASSUME WordsAreBytes, NEW i \in DOMAIN words
             PROVE  /\ Unescape(Escaped(Decode(words[i]))) = Decode(words[i])
                    /\ \A k \in DOMAIN Escaped(Decode(words[i])) :
                         ~IsHidden(Escaped(Decode(words[i]))[k])
  BY DEF EscapeReadsBack
<1>1. words[i] \in Seq(Octets)
  BY DEF WordsAreBytes
<1>2. Decode(words[i]) \in Seq(Unit)
  BY <1>1, DecodeIsUnits
<1>3. QED  BY <1>2, UnescapeUndoes, NothingHidden

\* Whatever a command holds, of any length: a reader of the drawing who undoes the
\* escapes has its units back, and no hidden code point is drawn as itself.
THEOREM EscapesReadBack == CallsSpec => []EscapeReadsBack
<1>1. CallsInit => WordsAreBytes
  BY InitWords DEF CallsInit
<1>2. QED
  BY <1>1, CallsKeepWords, WordsReadBack, PTL DEF CallsSpec

LEMMA WordsReadAlike == WordsAreBytes => TwinReadsAlike
<1> DEFINE drawn(q) == IF q.kind = "hidden" THEN <<SgrHidden>> \o PieceText(q) \o <<Reset>>
                       ELSE PieceText(q)
<1> SUFFICES ASSUME WordsAreBytes, NEW i \in DOMAIN words
             PROVE  EscapeUntrusted(words[i], <<SgrHidden>>, <<Reset>>)
                      = FlattenSeq([k \in DOMAIN Pieces(Decode(words[i])) |->
                                      drawn(Pieces(Decode(words[i]))[k])])
  BY DEF TwinReadsAlike
<1> DEFINE t == Decode(words[i])
<1>1. words[i] \in Seq(Octets)
  BY DEF WordsAreBytes
<1>2. EscapeUntrusted(words[i], <<SgrHidden>>, <<Reset>>) = Painting(t)
  BY <1>1, TwinPaints
<1> HIDE DEF t
<1>3. DOMAIN Pieces(t) = DOMAIN t
      /\ \A k \in DOMAIN t : Pieces(t)[k] = [kind |-> Kind(t, k), code |-> t[k]]
  BY DEF Pieces
<1>4. \A k \in DOMAIN t : drawn(Pieces(t)[k]) = PaintedAt(t, k)
  BY <1>3 DEF PaintedAt, Painted
<1> HIDE DEF drawn
<1>5. [k \in DOMAIN Pieces(t) |-> drawn(Pieces(t)[k])] = PaintedAll(t)
  BY <1>3, <1>4 DEF PaintedAll
<1>6. QED  BY <1>2, <1>5 DEF Painting, t

\* Whatever bytes a command holds, of any length: the deploy helper's own escaper, with
\* its own decoder and its own list, draws what escape_core draws.
THEOREM TwinsReadAlike == CallsSpec => []TwinReadsAlike
<1>1. CallsInit => WordsAreBytes
  BY InitWords DEF CallsInit
<1>2. QED
  BY <1>1, CallsKeepWords, WordsReadAlike, PTL DEF CallsSpec

-----------------------------------------------------------------------------
(* What a concatenation has after each of its items.                       *)

Piles(P, R, s) ==
  /\ P \in [0..Len(s) -> Seq(R)]
  /\ P[0] = <<>>
  /\ \A k \in 1..Len(s) : P[k] = P[k - 1] \o s[k]

LEMMA FlattenPiles ==
  ASSUME NEW R, NEW s \in Seq(Seq(R))
  PROVE  \E P : Piles(P, R, s) /\ P[Len(s)] = FlattenSeq(s)
<1> DEFINE n == Len(s)
<1>1. n \in Nat /\ << >> \in Seq(R) /\ \A k \in 1..n : s[k] \in Seq(R)
  OBVIOUS
<1>2. CASE n = 0
  <2> DEFINE P == [k \in 0..n |-> <<>>]
  <2>1. P \in [0..Len(s) -> Seq(R)] /\ P[0] = << >> /\ P[n] = << >>
    BY <1>1
  <2>2. \A k \in 1..Len(s) : FALSE
    BY <1>2
  <2>3. s = << >>
    BY <1>2
  <2>4. FlattenSeq(s) = << >>
    BY <1>2, <2>3 DEF FlattenSeq
  <2> HIDE DEF P
  <2>5. Piles(P, R, s)
    BY <2>1, <2>2 DEF Piles
  <2>6. QED  BY <2>1, <2>4, <2>5
<1>3. CASE n # 0
  <2>1. PICK F : Recurs(F, s) /\ FlattenSeq(s) = F[n]
    BY <1>3, FlattenRecurs
  <2>2. \A i \in 1..n : F[i] = IF i = 1 THEN s[i] ELSE F[i - 1] \o s[i]
    BY <2>1 DEF Recurs
  <2> DEFINE P == [k \in 0..n |-> IF k = 0 THEN <<>> ELSE F[k]]
             Good == {k \in Nat : k + 1 \in 1..n => F[k + 1] \in Seq(R)}
  <2>3. 0 \in Good
    <3>1. 0 + 1 \in 1..n /\ 0 + 1 = 1
      BY <1>1, <1>3
    <3>2. F[1] = s[1]
      BY <2>2, <3>1
    <3>3. QED  BY <1>1, <3>1, <3>2
  <2>4. ASSUME NEW k \in Nat, k \in Good
        PROVE  k + 1 \in Good
    <3> SUFFICES ASSUME k + 1 + 1 \in 1..n
                 PROVE  F[k + 1 + 1] \in Seq(R)
      OBVIOUS
    <3>1. k + 1 \in 1..n /\ k + 1 + 1 # 1 /\ (k + 1 + 1) - 1 = k + 1
      BY <1>1
    <3>2. F[k + 1] \in Seq(R)
      BY <2>4, <3>1
    <3>3. F[k + 1 + 1] = F[k + 1] \o s[k + 1 + 1] /\ s[k + 1 + 1] \in Seq(R)
      BY <1>1, <2>2, <3>1
    <3>4. QED  BY <3>2, <3>3
  <2> HIDE DEF Good
  <2>5. \A k \in Nat : k \in Good
    BY <2>3, <2>4, Induction
  <2>6. \A k \in 1..n : k - 1 \in Nat /\ (k - 1) + 1 = k
    OBVIOUS
  <2>7. \A k \in 1..n : F[k] \in Seq(R)
    BY <2>5, <2>6 DEF Good
  <2>8. P \in [0..n -> Seq(R)]
    <3>1. \A k \in 0..n : k = 0 \/ k \in 1..n
      BY <1>1
    <3>2. \A k \in 0..n : (IF k = 0 THEN <<>> ELSE F[k]) \in Seq(R)
      BY <1>1, <2>7, <3>1
    <3>3. QED  BY <3>2
  <2>9. P[0] = << >> /\ P[n] = F[n]
    BY <1>1, <1>3
  <2>10. ASSUME NEW k \in 1..n
         PROVE  P[k] = P[k - 1] \o s[k]
    <3>1. P[k] = F[k] /\ s[k] \in Seq(R)
      BY <1>1
    <3>2. CASE k = 1
      <4>1. k - 1 = 0 /\ P[0] = << >>
        BY <2>9, <3>2
      <4>2. P[k - 1] = << >>
        BY <4>1
      <4>3. F[k] = s[k]
        BY <2>2, <3>2
      <4>4. << >> \o s[k] = s[k]
        BY <3>1
      <4>5. QED  BY <3>1, <4>2, <4>3, <4>4
    <3>3. CASE k # 1
      <4>1. k - 1 \in 0..n /\ k - 1 # 0
        BY <1>1, <3>3
      <4>2. P[k - 1] = F[k - 1]
        BY <4>1
      <4>3. QED  BY <2>2, <3>1, <3>3, <4>2
    <3>4. QED  BY <3>2, <3>3
  <2> HIDE DEF P
  <2>11. Piles(P, R, s)
    BY <2>8, <2>9, <2>10 DEF Piles
  <2>12. QED  BY <2>1, <2>9, <2>11
<1>4. QED  BY <1>2, <1>3

LEMMA PilesFlatten ==
  ASSUME NEW R, NEW s \in Seq(Seq(R)), NEW P, Piles(P, R, s)
  PROVE  P[Len(s)] = FlattenSeq(s)
<1>1. PICK Q : Piles(Q, R, s) /\ Q[Len(s)] = FlattenSeq(s)
  BY FlattenPiles
<1>2. Len(s) \in Nat
  OBVIOUS
<1> DEFINE Good == {k \in Nat : k \in 0..Len(s) => P[k] = Q[k]}
<1>3. 0 \in Good
  BY <1>1 DEF Piles
<1>4. ASSUME NEW k \in Nat, k \in Good
      PROVE  k + 1 \in Good
  <2> SUFFICES ASSUME k + 1 \in 0..Len(s)
               PROVE  P[k + 1] = Q[k + 1]
    OBVIOUS
  <2>1. k \in 0..Len(s) /\ k + 1 \in 1..Len(s) /\ (k + 1) - 1 = k
    BY <1>2
  <2>2. P[k] = Q[k]
    BY <1>4, <2>1
  <2>3. P[k + 1] = P[k] \o s[k + 1]
    BY <2>1 DEF Piles
  <2>4. Q[k + 1] = Q[k] \o s[k + 1]
    BY <1>1, <2>1 DEF Piles
  <2>5. QED  BY <2>2, <2>3, <2>4
<1> HIDE DEF Good
<1>5. \A k \in Nat : k \in Good
  BY <1>3, <1>4, Induction
<1>6. Len(s) \in 0..Len(s)
  BY <1>2
<1>7. P[Len(s)] = Q[Len(s)]
  BY <1>2, <1>5, <1>6 DEF Good
<1>8. QED  BY <1>1, <1>7

-----------------------------------------------------------------------------
(* Reading a line item by item.  A reader is a function from a state and   *)
(* an item to the next state.                                              *)

\* The reader goes from state x through the items of s to state y.
Through(f, step, x, s, y) ==
  /\ f[0] = x
  /\ \A i \in 1..Len(s) : f[i] = step[<<f[i - 1], s[i]>>]
  /\ f[Len(s)] = y

Leads(S, step, x, s, y) == \E f \in [0..Len(s) -> S] : Through(f, step, x, s, y)

LEMMA LeadsNone ==
  ASSUME NEW S, NEW step, NEW x \in S
  PROVE  Leads(S, step, x, <<>>, x)
<1> DEFINE none == <<>>
           f == [i \in 0..0 |-> x]
<1>1. Len(none) = 0
  OBVIOUS
<1> HIDE DEF none
<1>2. f \in [0..Len(none) -> S] /\ f[0] = x /\ f[Len(none)] = x
  BY <1>1
<1>3. \A i \in 1..Len(none) : FALSE
  BY <1>1
<1> HIDE DEF f
<1>4. Through(f, step, x, none, x)
  BY <1>2, <1>3 DEF Through
<1>5. QED  BY <1>2, <1>4 DEF Leads, none

LEMMA LeadsOne ==
  ASSUME NEW S, NEW step, NEW x \in S, NEW c, step[<<x, c>>] \in S
  PROVE  Leads(S, step, x, <<c>>, step[<<x, c>>])
<1> DEFINE one == <<c>>
           y == step[<<x, c>>]
           f == [i \in 0..1 |-> IF i = 0 THEN x ELSE y]
<1>1. Len(one) = 1 /\ one[1] = c
  OBVIOUS
<1> HIDE DEF one
<1>2. f \in [0..1 -> S] /\ f[0] = x /\ f[1] = y
  OBVIOUS
<1> HIDE DEF f
<1>3. \A i \in 1..1 : i = 1 /\ i - 1 = 0
  OBVIOUS
<1>4. \A i \in 1..Len(one) : f[i] = step[<<f[i - 1], one[i]>>]
  BY <1>1, <1>2, <1>3
<1>5. Through(f, step, x, one, y)
  BY <1>1, <1>2, <1>4 DEF Through
<1>6. QED  BY <1>1, <1>2, <1>5 DEF Leads, one

LEMMA LeadsBoth ==
  ASSUME NEW S, NEW step, NEW C, NEW a \in Seq(C), NEW b \in Seq(C), NEW x, NEW y, NEW z,
         Leads(S, step, x, a, y), Leads(S, step, y, b, z)
  PROVE  Leads(S, step, x, a \o b, z)
<1>1. PICK f \in [0..Len(a) -> S] : Through(f, step, x, a, y)
  BY DEF Leads
<1>2. PICK g \in [0..Len(b) -> S] : Through(g, step, y, b, z)
  BY DEF Leads
<1> DEFINE m == Len(a)
           n == Len(b)
           ab == a \o b
           h == [i \in 0..(m + n) |-> IF i <= m THEN f[i] ELSE g[i - m]]
<1>3. m \in Nat /\ n \in Nat
  OBVIOUS
<1>4. Joins(ab, a, b)
  BY Joined
<1>5. Len(ab) = m + n
  BY <1>4 DEF Joins
<1> HIDE DEF ab
<1>6. \A i \in 0..(m + n) : i <= m => i \in 0..m
  BY <1>3
<1>7. \A i \in 0..(m + n) : ~(i <= m) => i - m \in 1..n /\ i - m \in 0..n
  BY <1>3
<1>8. h \in [0..(m + n) -> S]
  <2>1. ASSUME NEW i \in 0..(m + n)
        PROVE  (IF i <= m THEN f[i] ELSE g[i - m]) \in S
    <3>1. CASE i <= m
      <4>1. f[i] \in S
        BY <1>6, <3>1
      <4>2. QED  BY <3>1, <4>1
    <3>2. CASE ~(i <= m)
      <4>1. g[i - m] \in S
        BY <1>7, <3>2
      <4>2. QED  BY <3>2, <4>1
    <3>3. QED  BY <3>1, <3>2
  <2>2. QED  BY <2>1
<1>9. \A i \in 0..(m + n) : h[i] = IF i <= m THEN f[i] ELSE g[i - m]
  OBVIOUS
<1> HIDE DEF h
<1>10. f[0] = x /\ f[m] = y /\ g[0] = y /\ g[n] = z
  BY <1>1, <1>2 DEF Through
<1>11. h[0] = x
  <2>1. 0 \in 0..(m + n) /\ 0 <= m
    BY <1>3
  <2>2. QED  BY <1>9, <1>10, <2>1
<1>12. \A j \in 0..n : h[m + j] = g[j]
  <2> SUFFICES ASSUME NEW j \in 0..n
               PROVE  h[m + j] = g[j]
    OBVIOUS
  <2>1. m + j \in 0..(m + n) /\ (m + j) - m = j
    BY <1>3
  <2>2. CASE j = 0
    <3>1. m + j = m /\ m <= m
      BY <1>3, <2>2
    <3>2. h[m + j] = f[m]
      BY <1>9, <2>1, <3>1
    <3>3. QED  BY <1>10, <2>2, <3>2
  <2>3. CASE j # 0
    <3>1. ~(m + j <= m)
      BY <1>3, <2>3
    <3>2. QED  BY <1>9, <2>1, <3>1
  <2>4. QED  BY <2>2, <2>3
<1>13. h[m + n] = z
  <2>1. n \in 0..n
    BY <1>3
  <2>2. QED  BY <1>10, <1>12, <2>1
<1>14. ASSUME NEW i \in 1..(m + n)
       PROVE  h[i] = step[<<h[i - 1], ab[i]>>]
  <2>1. CASE i <= m
    <3>1. i \in 1..m /\ i \in 0..(m + n) /\ i - 1 \in 0..(m + n) /\ i - 1 <= m
      BY <1>3, <2>1
    <3>2. f[i] = step[<<f[i - 1], a[i]>>]
      BY <1>1, <3>1 DEF Through
    <3>3. ab[i] = a[i]
      BY <1>4, <3>1 DEF Joins
    <3>4. h[i] = f[i] /\ h[i - 1] = f[i - 1]
      BY <1>9, <2>1, <3>1
    <3>5. QED  BY <3>2, <3>3, <3>4
  <2>2. CASE ~(i <= m)
    <3> DEFINE j == i - m
    <3>1. j \in 1..n /\ j \in 0..n /\ j - 1 \in 0..n /\ m + j = i /\ m + (j - 1) = i - 1
      BY <1>3, <2>2
    <3> HIDE DEF j
    <3>2. g[j] = step[<<g[j - 1], b[j]>>]
      BY <1>2, <3>1 DEF Through
    <3>3. ab[m + j] = b[j]
      BY <1>4, <3>1 DEF Joins
    <3>4. h[m + j] = g[j] /\ h[m + (j - 1)] = g[j - 1]
      BY <1>12, <3>1
    <3>5. QED  BY <3>1, <3>2, <3>3, <3>4
  <2>3. QED  BY <2>1, <2>2
<1>15. Through(h, step, x, ab, z)
  BY <1>5, <1>11, <1>13, <1>14 DEF Through
<1>16. QED  BY <1>5, <1>8, <1>15 DEF Leads, ab

\* Through sequences one after the other, by the states between them.
LEMMA LeadsAll ==
  ASSUME NEW S, NEW step, NEW C, NEW s \in Seq(Seq(C)), NEW X \in [0..Len(s) -> S],
         \A k \in 1..Len(s) : Leads(S, step, X[k - 1], s[k], X[k])
  PROVE  Leads(S, step, X[0], FlattenSeq(s), X[Len(s)])
<1> DEFINE n == Len(s)
<1>1. PICK P : Piles(P, C, s) /\ P[n] = FlattenSeq(s)
  BY FlattenPiles
<1>2. n \in Nat /\ \A k \in 1..n : s[k] \in Seq(C)
  OBVIOUS
<1> DEFINE Good == {k \in Nat : k \in 0..n => Leads(S, step, X[0], P[k], X[k])}
<1>3. 0 \in Good
  <2>1. 0 \in 0..n
    BY <1>2
  <2>2. X[0] \in S /\ P[0] = << >>
    BY <1>1, <2>1 DEF Piles
  <2>3. QED  BY <2>2, LeadsNone
<1>4. ASSUME NEW k \in Nat, k \in Good
      PROVE  k + 1 \in Good
  <2> SUFFICES ASSUME k + 1 \in 0..n
               PROVE  Leads(S, step, X[0], P[k + 1], X[k + 1])
    OBVIOUS
  <2>1. k \in 0..n /\ k + 1 \in 1..n /\ (k + 1) - 1 = k
    BY <1>2
  <2>2. Leads(S, step, X[0], P[k], X[k])
    BY <1>4, <2>1
  <2>3. Leads(S, step, X[k], s[k + 1], X[k + 1])
    BY <2>1
  <2>4. P[k] \in Seq(C) /\ s[k + 1] \in Seq(C) /\ P[k + 1] = P[k] \o s[k + 1]
    BY <1>1, <1>2, <2>1 DEF Piles
  <2>5. Leads(S, step, X[0], P[k] \o s[k + 1], X[k + 1])
    BY <2>2, <2>3, <2>4, LeadsBoth
  <2>6. QED  BY <2>4, <2>5
<1> HIDE DEF Good
<1>5. \A k \in Nat : k \in Good
  BY <1>3, <1>4, Induction
<1>6. n \in 0..n
  BY <1>2
<1>7. Leads(S, step, X[0], P[n], X[n])
  BY <1>2, <1>5, <1>6 DEF Good
<1>8. QED  BY <1>1, <1>7

\* A sequence by its beginnings.
LEMMA Grows ==
  ASSUME NEW B, NEW v \in Seq(B), NEW u \in Seq(B), NEW j \in 1..Len(u)
  PROVE  v \o SubSeq(u, 1, j) = Append(v \o SubSeq(u, 1, j - 1), u[j])
<1> DEFINE a == SubSeq(u, 1, j - 1)
           c == u[j]
<1>1. Len(u) \in Nat /\ j \in Nat /\ j <= Len(u) /\ c \in B
  OBVIOUS
<1>2. \A k \in 1..j : u[k] \in B
  BY <1>1
<1>3. /\ a \in Seq(B) /\ Len(a) = j - 1
      /\ \A k \in 1..(j - 1) : a[k] = u[k]
  <2>1. \A k \in 1..(j - 1) : u[k] \in B
    BY <1>1, <1>2
  <2>2. a \in Seq(B)
    BY <1>1, <2>1, SubSeqProperties
  <2>3. Len(a) = j - 1
    BY <1>1
  <2>4. \A k \in 1..(j - 1) : a[k] = u[k]
    BY <1>1
  <2>5. QED  BY <2>2, <2>3, <2>4
<1>4. /\ SubSeq(u, 1, j) \in Seq(B) /\ Len(SubSeq(u, 1, j)) = j
      /\ \A k \in 1..j : SubSeq(u, 1, j)[k] = u[k]
  <2>1. SubSeq(u, 1, j) \in Seq(B)
    BY <1>1, <1>2, SubSeqProperties
  <2>2. Len(SubSeq(u, 1, j)) = j
    BY <1>1
  <2>3. \A k \in 1..j : SubSeq(u, 1, j)[k] = u[k]
    BY <1>1
  <2>4. QED  BY <2>1, <2>2, <2>3
<1> HIDE DEF a, c
<1>5. SubSeq(u, 1, j) = Append(a, c)
  <2> DEFINE b == SubSeq(u, 1, j)
  <2>1. b \in Seq(B) /\ Len(b) = j /\ \A k \in 1..j : b[k] = u[k]
    BY <1>4
  <2> HIDE DEF b
  <2>2. Append(a, c) \in Seq(B) /\ Len(Append(a, c)) = j
    BY <1>1, <1>3
  <2>3. \A k \in 1..j : Append(a, c)[k] = b[k]
    <3> SUFFICES ASSUME NEW k \in 1..j
                 PROVE  Append(a, c)[k] = b[k]
      OBVIOUS
    <3>1. CASE k \in 1..(j - 1)
      <4>1. Append(a, c)[k] = a[k]
        BY <1>1, <1>3, <3>1
      <4>2. QED  BY <1>3, <2>1, <3>1, <4>1
    <3>2. CASE k = j
      <4>1. Append(a, c)[j] = c
        BY <1>1, <1>3
      <4>2. QED  BY <2>1, <3>2, <4>1 DEF c
    <3>3. k \in 1..(j - 1) \/ k = j
      BY <1>1
    <3>4. QED  BY <3>1, <3>2, <3>3
  <2>4. b = Append(a, c)
    BY <2>1, <2>2, <2>3, SeqEqual
  <2>5. QED  BY <2>4 DEF b
<1>6. v \o Append(a, c) = Append(v \o a, c)
  BY <1>1, <1>3
<1>7. QED  BY <1>5, <1>6 DEF a, c

LEMMA Beginnings ==
  ASSUME NEW B, NEW u \in Seq(B)
  PROVE  /\ \A j \in 0..Len(u) : SubSeq(u, 1, j) \in Seq(B)
         /\ SubSeq(u, 1, 0) = <<>> /\ SubSeq(u, 1, Len(u)) = u
<1>1. Len(u) \in Nat
  OBVIOUS
<1>2. ASSUME NEW j \in 0..Len(u)
      PROVE  SubSeq(u, 1, j) \in Seq(B)
  <2>1. \A k \in 1..j : u[k] \in B
    BY <1>1
  <2>2. QED  BY <1>1, <2>1, SubSeqProperties
<1>3. SubSeq(u, 1, 0) = << >>
  BY <1>1
<1>4. SubSeq(u, 1, Len(u)) = u
  BY <1>1
<1>5. QED  BY <1>2, <1>3, <1>4

Mapped(m, s) == [j \in 1..Len(s) |-> m[s[j]]]

LEMMA MappedIs ==
  ASSUME NEW C, NEW B, NEW m \in [C -> B], NEW s \in Seq(C)
  PROVE  Mapped(m, s) \in Seq(B) /\ Len(Mapped(m, s)) = Len(s)
         /\ \A j \in 1..Len(s) : Mapped(m, s)[j] = m[s[j]]
<1>1. \A j \in 1..Len(s) : m[s[j]] \in B
  OBVIOUS
<1>2. QED  BY <1>1 DEF Mapped

\* A reader that keeps what it reads, in its state st[v], where v is kept so far.
LEMMA LeadsKeeping ==
  ASSUME NEW S, NEW step, NEW C, NEW B, NEW m \in [C -> B], NEW st \in [Seq(B) -> S],
         \A v \in Seq(B), c \in C : step[<<st[v], c>>] = st[Append(v, m[c])],
         NEW text \in Seq(C), NEW v \in Seq(B)
  PROVE  Leads(S, step, st[v], text, st[v \o Mapped(m, text)])
<1> DEFINE u == Mapped(m, text)
           n == Len(text)
           f == [j \in 0..n |-> st[v \o SubSeq(u, 1, j)]]
<1>1. n \in Nat /\ u \in Seq(B) /\ Len(u) = n /\ \A j \in 1..n : u[j] = m[text[j]]
  BY MappedIs
<1> HIDE DEF u
<1>2. \A j \in 0..n : SubSeq(u, 1, j) \in Seq(B)
  BY <1>1, Beginnings
<1>3. \A j \in 0..n : v \o SubSeq(u, 1, j) \in Seq(B)
  BY <1>2
<1>4. f \in [0..n -> S]
  BY <1>3
<1>5. \A j \in 0..n : f[j] = st[v \o SubSeq(u, 1, j)]
  OBVIOUS
<1> HIDE DEF f
<1>6. f[0] = st[v]
  <2>1. SubSeq(u, 1, 0) = << >> /\ v \o << >> = v /\ 0 \in 0..n
    BY <1>1, Beginnings
  <2>2. QED  BY <1>5, <2>1
<1>7. f[n] = st[v \o u]
  <2>1. SubSeq(u, 1, n) = u /\ n \in 0..n
    BY <1>1, Beginnings
  <2>2. QED  BY <1>5, <2>1
<1>8. ASSUME NEW j \in 1..n
      PROVE  f[j] = step[<<f[j - 1], text[j]>>]
  <2> DEFINE w == v \o SubSeq(u, 1, j - 1)
  <2>1. j \in 0..n /\ j - 1 \in 0..n /\ text[j] \in C
    BY <1>1
  <2>2. v \o SubSeq(u, 1, j) = Append(w, u[j])
    <3>1. j \in 1..Len(u)
      BY <1>1
    <3>2. QED  BY <1>1, <3>1, Grows
  <2>3. w \in Seq(B)
    BY <1>3, <2>1
  <2>4. f[j - 1] = st[w] /\ f[j] = st[v \o SubSeq(u, 1, j)]
    BY <1>5, <2>1
  <2> HIDE DEF w
  <2>5. step[<<st[w], text[j]>>] = st[Append(w, m[text[j]])]
    BY <2>1, <2>3
  <2>6. u[j] = m[text[j]]
    BY <1>1
  <2>7. QED  BY <2>2, <2>4, <2>5, <2>6
<1>9. Through(f, step, st[v], text, st[v \o u])
  BY <1>6, <1>7, <1>8 DEF Through
<1>10. QED  BY <1>4, <1>9 DEF Leads, u

\* Two recursions that agree at the start and go on alike.
LEMMA StepByStep ==
  ASSUME NEW n \in Nat, NEW f, NEW g, f[0] = g[0],
         \A i \in 1..n : f[i - 1] = g[i - 1] => f[i] = g[i]
  PROVE  f[n] = g[n]
<1> DEFINE Good == {k \in Nat : k \in 0..n => f[k] = g[k]}
<1>1. 0 \in Good
  OBVIOUS
<1>2. ASSUME NEW k \in Nat, k \in Good
      PROVE  k + 1 \in Good
  <2> SUFFICES ASSUME k + 1 \in 0..n
               PROVE  f[k + 1] = g[k + 1]
    OBVIOUS
  <2>1. k \in 0..n /\ k + 1 \in 1..n /\ (k + 1) - 1 = k
    OBVIOUS
  <2>2. f[k] = g[k]
    BY <1>2, <2>1
  <2>3. QED  BY <2>1, <2>2
<1> HIDE DEF Good
<1>3. n \in Good
  BY <1>1, <1>2, Induction
<1>4. n \in 0..n
  OBVIOUS
<1>5. QED  BY <1>3, <1>4 DEF Good

-----------------------------------------------------------------------------
(* Parts, and their texts.                                                 *)

LEMMA FlattenBoth ==
  ASSUME NEW R, NEW a \in Seq(Seq(R)), NEW b \in Seq(Seq(R))
  PROVE  FlattenSeq(a \o b) = FlattenSeq(a) \o FlattenSeq(b)
<1> DEFINE m == Len(a)
           n == Len(b)
           ab == a \o b
<1>1. PICK P : Piles(P, R, a) /\ P[m] = FlattenSeq(a)
  BY FlattenPiles
<1>2. PICK Q : Piles(Q, R, b) /\ Q[n] = FlattenSeq(b)
  BY FlattenPiles
<1>3. m \in Nat /\ n \in Nat
  OBVIOUS
<1>4. ab \in Seq(Seq(R)) /\ Joins(ab, a, b)
  BY Joined
<1>5. Len(ab) = m + n
  BY <1>4 DEF Joins
<1>6. \A k \in 1..n : b[k] \in Seq(R)
  OBVIOUS
<1> DEFINE W == [k \in 0..(m + n) |-> IF k <= m THEN P[k] ELSE P[m] \o Q[k - m]]
<1> HIDE DEF ab
<1>7. P \in [0..m -> Seq(R)] /\ P[0] = << >> /\ \A k \in 1..m : P[k] = P[k - 1] \o a[k]
  BY <1>1 DEF Piles
<1>8. Q \in [0..n -> Seq(R)] /\ Q[0] = << >> /\ \A k \in 1..n : Q[k] = Q[k - 1] \o b[k]
  BY <1>2 DEF Piles
<1>9. m \in 0..m /\ P[m] \in Seq(R)
  <2>1. m \in 0..m
    BY <1>3
  <2> HIDE DEF W, m, n
  <2>2. QED  BY <1>7, <2>1
<1>10. \A k \in 0..(m + n) : W[k] = IF k <= m THEN P[k] ELSE P[m] \o Q[k - m]
  OBVIOUS
<1>11. W \in [0..(m + n) -> Seq(R)]
  <2>1. ASSUME NEW k \in 0..(m + n)
        PROVE  (IF k <= m THEN P[k] ELSE P[m] \o Q[k - m]) \in Seq(R)
    <3>1. CASE k <= m
      <4>1. k \in 0..m
        BY <1>3, <3>1
      <4>2. QED  BY <1>7, <3>1, <4>1
    <3>2. CASE ~(k <= m)
      <4>1. k - m \in 0..n
        BY <1>3, <3>2
      <4>2. Q[k - m] \in Seq(R)
        BY <1>8, <4>1
      <4>3. P[m] \o Q[k - m] \in Seq(R)
        BY <1>9, <4>2
      <4>4. QED  BY <3>2, <4>3
    <3>3. QED  BY <3>1, <3>2
  <2>2. QED  BY <2>1
<1> HIDE DEF W
<1>12. W[0] = << >>
  <2>1. 0 \in 0..(m + n) /\ 0 <= m
    BY <1>3
  <2>2. QED  BY <1>7, <1>10, <2>1
<1>13. \A j \in 0..n : W[m + j] = P[m] \o Q[j]
  <2> SUFFICES ASSUME NEW j \in 0..n
               PROVE  W[m + j] = P[m] \o Q[j]
    OBVIOUS
  <2>1. m + j \in 0..(m + n) /\ (m + j) - m = j
    BY <1>3
  <2>2. CASE j = 0
    <3>1. m + j = m /\ m <= m
      BY <1>3, <2>2
    <3>2. W[m + j] = P[m]
      BY <1>10, <2>1, <3>1
    <3>3. P[m] \o << >> = P[m]
      BY <1>9
    <3>4. QED  BY <1>8, <2>2, <3>2, <3>3
  <2>3. CASE j # 0
    <3>1. ~(m + j <= m)
      BY <1>3, <2>3
    <3>2. QED  BY <1>10, <2>1, <3>1
  <2>4. QED  BY <2>2, <2>3
<1>14. ASSUME NEW k \in 1..(m + n)
       PROVE  W[k] = W[k - 1] \o ab[k]
  <2>1. CASE k <= m
    <3>1. k \in 1..m /\ k \in 0..(m + n) /\ k - 1 \in 0..(m + n) /\ k - 1 <= m
      BY <1>3, <2>1
    <3>2. P[k] = P[k - 1] \o a[k]
      BY <1>7, <3>1
    <3>3. ab[k] = a[k]
      BY <1>4, <3>1 DEF Joins
    <3>4. W[k] = P[k] /\ W[k - 1] = P[k - 1]
      BY <1>10, <2>1, <3>1
    <3>5. QED  BY <3>2, <3>3, <3>4
  <2>2. CASE ~(k <= m)
    <3> DEFINE j == k - m
    <3>1. j \in 1..n /\ j \in 0..n /\ j - 1 \in 0..n /\ m + j = k /\ m + (j - 1) = k - 1
      BY <1>3, <2>2
    <3> HIDE DEF j
    <3>2. Q[j] = Q[j - 1] \o b[j]
      BY <1>8, <3>1
    <3>3. ab[m + j] = b[j]
      BY <1>4, <3>1 DEF Joins
    <3>4. W[m + j] = P[m] \o Q[j] /\ W[m + (j - 1)] = P[m] \o Q[j - 1]
      BY <1>13, <3>1
    <3>5. Q[j - 1] \in Seq(R) /\ b[j] \in Seq(R)
      BY <1>6, <1>8, <3>1
    <3> DEFINE q == Q[j - 1]
               c == b[j]
               p == P[m]
    <3> HIDE DEF q, c, p
    <3>6. p \in Seq(R) /\ q \in Seq(R) /\ c \in Seq(R)
      BY <1>9, <3>5 DEF q, c, p
    <3>7. (p \o q) \o c = p \o (q \o c)
      <4>1. Groups(p, q, c)
        BY <3>6, Regroup
      <4>2. QED  BY <4>1 DEF Groups
    <3>8. QED  BY <3>1, <3>2, <3>3, <3>4, <3>7 DEF q, c, p
  <2>3. QED  BY <2>1, <2>2
<1>15. Piles(W, R, ab)
  BY <1>5, <1>11, <1>12, <1>14 DEF Piles
<1>16. W[m + n] = FlattenSeq(ab)
  <2>1. W[Len(ab)] = FlattenSeq(ab)
    BY <1>4, <1>15, PilesFlatten
  <2>2. QED  BY <1>5, <2>1
<1>17. W[m + n] = P[m] \o Q[n]
  <2>1. n \in 0..n
    BY <1>3
  <2>2. QED  BY <1>13, <2>1
<1>18. QED  BY <1>1, <1>2, <1>16, <1>17 DEF ab

Parts == [text : Seq(Nat), mark : {"plain", "ours", "meta", "hidden"}]
Texts(parts) == [i \in DOMAIN parts |-> parts[i].text]

LEMMA TextsIs ==
  ASSUME NEW a \in Seq(Parts)
  PROVE  /\ Texts(a) \in Seq(Seq(Nat)) /\ Len(Texts(a)) = Len(a)
         /\ \A k \in 1..Len(a) : Texts(a)[k] = a[k].text
         /\ TextOf(a) = FlattenSeq(Texts(a))
<1>1. \A k \in 1..Len(a) : a[k].text \in Seq(Nat)
  <2>1. \A k \in 1..Len(a) : a[k] \in Parts
    OBVIOUS
  <2>2. \A p \in Parts : p.text \in Seq(Nat)
    BY DEF Parts
  <2>3. QED  BY <2>1, <2>2
<1>2. Len(a) \in Nat /\ DOMAIN a = 1..Len(a)
  OBVIOUS
<1>3. Texts(a) = [k \in 1..Len(a) |-> a[k].text]
  BY <1>2 DEF Texts
<1>4. Texts(a) \in [1..Len(a) -> Seq(Nat)]
  BY <1>1, <1>3
<1>5. Texts(a) \in Seq(Seq(Nat)) /\ Len(Texts(a)) = Len(a)
  BY <1>2, <1>4
<1>6. TextOf(a) = FlattenSeq(Texts(a))
  BY DEF TextOf, Texts
<1>7. QED  BY <1>3, <1>5, <1>6

LEMMA TextBoth ==
  ASSUME NEW a \in Seq(Parts), NEW b \in Seq(Parts)
  PROVE  TextOf(a \o b) = TextOf(a) \o TextOf(b)
<1> DEFINE ab == a \o b
           x == Texts(a)
           y == Texts(b)
           z == Texts(ab)
<1>1. ab \in Seq(Parts) /\ Joins(ab, a, b)
  BY Joined
<1> HIDE DEF ab
<1>2. /\ x \in Seq(Seq(Nat)) /\ Len(x) = Len(a) /\ TextOf(a) = FlattenSeq(x)
      /\ \A k \in 1..Len(a) : x[k] = a[k].text
  BY TextsIs
<1>3. /\ y \in Seq(Seq(Nat)) /\ Len(y) = Len(b) /\ TextOf(b) = FlattenSeq(y)
      /\ \A k \in 1..Len(b) : y[k] = b[k].text
  BY TextsIs
<1>4. /\ z \in Seq(Seq(Nat)) /\ Len(z) = Len(ab) /\ TextOf(ab) = FlattenSeq(z)
      /\ \A k \in 1..Len(ab) : z[k] = ab[k].text
  BY <1>1, TextsIs
<1> HIDE DEF x, y, z
<1>5. Len(a) \in Nat /\ Len(b) \in Nat /\ Len(ab) = Len(a) + Len(b)
  BY <1>1 DEF Joins
<1>6. /\ x \o y \in Seq(Seq(Nat)) /\ Joins(x \o y, x, y)
  BY <1>2, <1>3, Joined
<1>7. Len(x \o y) = Len(z)
  BY <1>2, <1>3, <1>4, <1>5, <1>6 DEF Joins
<1>8. ASSUME NEW k \in 1..Len(z)
      PROVE  z[k] = (x \o y)[k]
  <2>1. CASE k <= Len(a)
    <3>1. k \in 1..Len(a) /\ k \in 1..Len(ab)
      BY <1>4, <1>5, <2>1
    <3>2. (x \o y)[k] = x[k]
      BY <1>2, <1>6, <3>1 DEF Joins
    <3>3. ab[k] = a[k]
      BY <1>1, <3>1 DEF Joins
    <3>4. QED  BY <1>2, <1>4, <3>1, <3>2, <3>3
  <2>2. CASE ~(k <= Len(a))
    <3> DEFINE j == k - Len(a)
    <3>1. j \in 1..Len(b) /\ Len(a) + j = k /\ k \in 1..Len(ab)
      BY <1>4, <1>5, <2>2
    <3> HIDE DEF j
    <3>2. (x \o y)[Len(a) + j] = y[j]
      BY <1>2, <1>3, <1>6, <3>1 DEF Joins
    <3>3. ab[Len(a) + j] = b[j]
      BY <1>1, <3>1 DEF Joins
    <3>4. QED  BY <1>3, <1>4, <3>1, <3>2, <3>3
  <2>3. QED  BY <2>1, <2>2
<1>9. z = x \o y
  BY <1>4, <1>6, <1>7, <1>8, SeqEqual
<1>10. FlattenSeq(x \o y) = FlattenSeq(x) \o FlattenSeq(y)
  BY <1>2, <1>3, FlattenBoth
<1>11. QED  BY <1>2, <1>3, <1>4, <1>9, <1>10 DEF ab

LEMMA TextIsSeq ==
  ASSUME NEW a \in Seq(Parts)
  PROVE  TextOf(a) \in Seq(Nat)
<1> DEFINE x == Texts(a)
<1>1. x \in Seq(Seq(Nat)) /\ TextOf(a) = FlattenSeq(x)
  BY TextsIs
<1> HIDE DEF x
<1>2. PICK P : Piles(P, Nat, x) /\ P[Len(x)] = FlattenSeq(x)
  BY <1>1, FlattenPiles
<1>3. Len(x) \in 0..Len(x)
  BY <1>1
<1>4. P[Len(x)] \in Seq(Nat)
  BY <1>2, <1>3 DEF Piles
<1>5. QED  BY <1>1, <1>2, <1>4

\* One part's text; none is none.
LEMMA TextOfOne ==
  ASSUME NEW p \in Parts
  PROVE  <<p>> \in Seq(Parts) /\ TextOf(<<p>>) = p.text
<1> DEFINE one == <<p>>
           x == Texts(one)
<1>1. one \in Seq(Parts) /\ Len(one) = 1 /\ one[1] = p
  OBVIOUS
<1> HIDE DEF one
<1>2. x \in Seq(Seq(Nat)) /\ Len(x) = 1 /\ x[1] = p.text /\ TextOf(one) = FlattenSeq(x)
  BY <1>1, TextsIs
<1> HIDE DEF x
<1>3. PICK P : Piles(P, Nat, x) /\ P[Len(x)] = FlattenSeq(x)
  BY <1>2, FlattenPiles
<1>4. P[0] = << >> /\ \A k \in 1..1 : P[k] = P[k - 1] \o x[k]
  BY <1>2, <1>3 DEF Piles
<1>5. 1 \in 1..1 /\ 1 - 1 = 0
  OBVIOUS
<1>6. P[1] = P[0] \o x[1]
  BY <1>4, <1>5
<1>7. p.text \in Seq(Nat) /\ << >> \o p.text = p.text
  BY DEF Parts
<1>8. QED  BY <1>1, <1>2, <1>3, <1>4, <1>6, <1>7 DEF one

LEMMA TextOfNone == TextOf(<<>>) = <<>>
<1> DEFINE none == <<>>
<1>1. none \in Seq(Parts) /\ Len(none) = 0
  OBVIOUS
<1>2. /\ Len(Texts(none)) = 0 /\ Texts(none) \in Seq(Seq(Nat))
      /\ TextOf(none) = FlattenSeq(Texts(none))
  BY <1>1, TextsIs
<1>3. FlattenSeq(Texts(none)) = Texts(none)
  BY <1>2 DEF FlattenSeq
<1>4. Texts(none) = << >>
  BY <1>2
<1>5. QED  BY <1>2, <1>3, <1>4 DEF none

\* Through the texts of parts, given in groups.
LEMMA LeadsTexts ==
  ASSUME NEW S, NEW step, NEW s \in Seq(Seq(Parts)), NEW X \in [0..Len(s) -> S],
         \A k \in 1..Len(s) : Leads(S, step, X[k - 1], TextOf(s[k]), X[k])
  PROVE  Leads(S, step, X[0], TextOf(FlattenSeq(s)), X[Len(s)])
<1> DEFINE n == Len(s)
<1>1. PICK P : Piles(P, Parts, s) /\ P[n] = FlattenSeq(s)
  BY FlattenPiles
<1>2. n \in Nat /\ \A k \in 1..n : s[k] \in Seq(Parts)
  OBVIOUS
<1> DEFINE Good == {k \in Nat : k \in 0..n => Leads(S, step, X[0], TextOf(P[k]), X[k])}
<1>3. 0 \in Good
  <2>1. 0 \in 0..n
    BY <1>2
  <2>2. X[0] \in S /\ P[0] = << >>
    BY <1>1, <2>1 DEF Piles
  <2>3. TextOf(P[0]) = << >>
    BY <2>2, TextOfNone
  <2>4. QED  BY <2>2, <2>3, LeadsNone
<1>4. ASSUME NEW k \in Nat, k \in Good
      PROVE  k + 1 \in Good
  <2> SUFFICES ASSUME k + 1 \in 0..n
               PROVE  Leads(S, step, X[0], TextOf(P[k + 1]), X[k + 1])
    OBVIOUS
  <2>1. k \in 0..n /\ k + 1 \in 1..n /\ (k + 1) - 1 = k
    BY <1>2
  <2>2. Leads(S, step, X[0], TextOf(P[k]), X[k])
    BY <1>4, <2>1
  <2>3. Leads(S, step, X[k], TextOf(s[k + 1]), X[k + 1])
    BY <2>1
  <2>4. P[k] \in Seq(Parts) /\ s[k + 1] \in Seq(Parts) /\ P[k + 1] = P[k] \o s[k + 1]
    BY <1>1, <1>2, <2>1 DEF Piles
  <2>5. TextOf(P[k + 1]) = TextOf(P[k]) \o TextOf(s[k + 1])
    BY <2>4, TextBoth
  <2>6. TextOf(P[k]) \in Seq(Nat) /\ TextOf(s[k + 1]) \in Seq(Nat)
    BY <2>4, TextIsSeq
  <2>7. Leads(S, step, X[0], TextOf(P[k]) \o TextOf(s[k + 1]), X[k + 1])
    BY <2>2, <2>3, <2>6, LeadsBoth
  <2>8. QED  BY <2>5, <2>7
<1> HIDE DEF Good
<1>5. \A k \in Nat : k \in Good
  BY <1>3, <1>4, Induction
<1>6. n \in 0..n
  BY <1>2
<1>7. Leads(S, step, X[0], TextOf(P[n]), X[n])
  BY <1>2, <1>5, <1>6 DEF Good
<1>8. QED  BY <1>1, <1>7

-----------------------------------------------------------------------------
(* A token, quoted or not.                                                 *)

\* What is drawn of the unit k inside quotes: the quote's idiom, or one part.
IsIdiom(t, k) ==
  /\ t[k] = Quote /\ Spelled(t)[k] = <<Quote>>
  /\ QuotedPiece(Pieces(t)[k]) =
       <<Ours, Part(<<Backslash>>, "plain"), Part(<<Quote>>, "meta"), Ours>>
IsPart(t, k) ==
  \E mark \in {"plain", "meta", "hidden"} :
    /\ QuotedPiece(Pieces(t)[k]) = <<Part(Spelled(t)[k], mark)>>
    /\ \A j \in 1..Len(Spelled(t)[k]) : Spelled(t)[k][j] # Quote

LEMMA PieceIs ==
  ASSUME NEW t \in Seq(Unit), NEW k \in 1..Len(t)
  PROVE  /\ Pieces(t)[k].kind = Kind(t, k) /\ Pieces(t)[k].code = t[k]
         /\ PieceText(Pieces(t)[k]) = Spelled(t)[k]
<1>1. k \in DOMAIN t
  OBVIOUS
<1>2. Pieces(t)[k] = [kind |-> Kind(t, k), code |-> t[k]]
  BY <1>1 DEF Pieces
<1>3. Spelled(t)[k] = PieceText([kind |-> Kind(t, k), code |-> t[k]])
  BY <1>1 DEF Spelled
<1>4. QED  BY <1>2, <1>3

LEMMA EscapesAreNoQuotes == \A c \in EscapeCodes : c # Quote
BY DEF EscapeCodes, HexDigits, Backslash, LetterU, LetterX, OpenBrace, CloseBrace, Quote

LEMMA SpelledNoQuote ==
  ASSUME NEW t \in Seq(Unit), NEW k \in 1..Len(t), ~(Kind(t, k) = "char" /\ t[k] = Quote)
  PROVE  \A j \in 1..Len(Spelled(t)[k]) : Spelled(t)[k][j] # Quote
<1> DEFINE w == Spelled(t)[k]
<1>1. CASE IsByte(t, k)
  <2>1. t[k] \in -255..-1 /\ w = ByteEscape(-t[k])
    BY <1>1 DEF IsByte
  <2>2. -t[k] \in 1..255
    BY <2>1, NegatedByte
  <2>3. ByteEscape(-t[k]) \in Seq(EscapeCodes)
    BY Zenon, <2>2, ByteEscapeIs
  <2>4. w \in Seq(EscapeCodes)
    BY <2>1, <2>3
  <2> HIDE DEF w
  <2>5. \A j \in 1..Len(w) : w[j] \in EscapeCodes
    BY <2>4, ElementOfSeq
  <2>6. QED  BY <2>5, EscapesAreNoQuotes DEF w
<1>2. CASE IsPoint(t, k)
  <2>1. t[k] \in Nat /\ w = CodePoint(t[k])
    BY <1>2 DEF IsPoint
  <2>2. w \in Seq(EscapeCodes)
    BY <2>1, CodePointIs
  <2> HIDE DEF w
  <2>3. \A j \in 1..Len(w) : w[j] \in EscapeCodes
    BY <2>2, ElementOfSeq
  <2>4. QED  BY <2>3, EscapesAreNoQuotes DEF w
<1>3. CASE IsChar(t, k)
  <2>1. w = <<t[k]>> /\ t[k] \in Nat /\ ~IsHidden(t[k])
    BY <1>3 DEF IsChar
  <2>2. t[k] # Quote
    <3> SUFFICES ASSUME t[k] = Quote PROVE FALSE
      OBVIOUS
    <3>1. ~(t[k] < 0) /\ t[k] # Backslash
      BY <2>1 DEF Quote, Backslash
    <3>2. Kind(t, k) = "char"
      BY <2>1, <3>1 DEF Kind
    <3>3. QED  BY <3>2
  <2> HIDE DEF w
  <2>3. Len(w) = 1 /\ w[1] = t[k]
    BY <2>1
  <2>4. \A j \in 1..Len(w) : w[j] # Quote
    BY <2>2, <2>3
  <2>5. QED  BY <2>4 DEF w
<1>4. QED  BY <1>1, <1>2, <1>3, SpelledIs

LEMMA QuotedIs ==
  ASSUME NEW t \in Seq(Unit), NEW k \in 1..Len(t)
  PROVE  IsIdiom(t, k) \/ IsPart(t, k)
<1> DEFINE p == Pieces(t)[k]
<1>1. p.kind = Kind(t, k) /\ p.code = t[k] /\ PieceText(p) = Spelled(t)[k]
  BY PieceIs
<1> HIDE DEF p
<1>2. CASE Kind(t, k) = "char" /\ t[k] = Quote
  <2>1. PieceText(p) = <<Quote>>
    BY <1>1, <1>2 DEF PieceText
  <2>2. QuotedPiece(p) = <<Ours, Part(<<Backslash>>, "plain"), Part(<<Quote>>, "meta"), Ours>>
    BY <1>1, <1>2 DEF QuotedPiece
  <2>3. QED  BY <1>1, <1>2, <2>1, <2>2 DEF IsIdiom, p
<1>3. CASE ~(Kind(t, k) = "char" /\ t[k] = Quote)
  <2> DEFINE mark == CASE p.kind = "hidden" -> "hidden"
                       [] p.kind = "char" /\ p.code \in {DQuote, Backtick} -> "meta"
                       [] OTHER -> "plain"
  <2>1. QuotedPiece(p) = <<Part(PieceText(p), mark)>>
    BY <1>1, <1>3 DEF QuotedPiece
  <2>2. mark \in {"plain", "meta", "hidden"}
    <3>1. CASE p.kind = "hidden"
      BY <3>1
    <3>2. CASE p.kind = "char" /\ p.code \in {DQuote, Backtick}
      BY <3>2
    <3>3. CASE ~(p.kind = "hidden") /\ ~(p.kind = "char" /\ p.code \in {DQuote, Backtick})
      BY <3>3
    <3>4. QED  BY <3>1, <3>2, <3>3
  <2>3. \A j \in 1..Len(Spelled(t)[k]) : Spelled(t)[k][j] # Quote
    BY <1>3, SpelledNoQuote
  <2> HIDE DEF mark
  <2>4. QED  BY <1>1, <2>1, <2>2, <2>3 DEF IsPart, p
<1>4. QED  BY <1>2, <1>3

QuotedParts(t) == [k \in 1..Len(t) |-> QuotedPiece(Pieces(t)[k])]
PlainParts(t)  == [k \in 1..Len(t) |-> Part(Spelled(t)[k], "plain")]

LEMMA OursIs == Ours \in Parts /\ Ours.text = <<Quote>> /\ Ours.mark = "ours"
BY DEF Ours, Parts, Part, Quote

LEMMA PartIs ==
  ASSUME NEW w \in Seq(Nat), NEW mark \in {"plain", "ours", "meta", "hidden"}
  PROVE  Part(w, mark) \in Parts /\ Part(w, mark).text = w /\ Part(w, mark).mark = mark
BY DEF Part, Parts

LEMMA IdiomIs ==
  LET idiom == <<Ours, Part(<<Backslash>>, "plain"), Part(<<Quote>>, "meta"), Ours>>
  IN  /\ idiom \in Seq(Parts) /\ Len(idiom) = 4
      /\ idiom[1].text = <<Quote>> /\ idiom[2].text = <<Backslash>>
      /\ idiom[3].text = <<Quote>> /\ idiom[4].text = <<Quote>>
<1> DEFINE b == Part(<<Backslash>>, "plain")
           q == Part(<<Quote>>, "meta")
           o == Ours
<1>1. <<Backslash>> \in Seq(Nat) /\ <<Quote>> \in Seq(Nat)
  BY DEF Backslash, Quote
<1>2. o \in Parts /\ o.text = <<Quote>>
  BY OursIs
<1>3. b \in Parts /\ b.text = <<Backslash>> /\ q \in Parts /\ q.text = <<Quote>>
  BY <1>1, PartIs
<1> HIDE DEF b, q, o
<1>4. <<o, b, q, o>> \in Seq(Parts)
  BY <1>2, <1>3
<1> DEFINE idiom == <<o, b, q, o>>
<1>5. Len(idiom) = 4 /\ idiom[1] = o /\ idiom[2] = b /\ idiom[3] = q /\ idiom[4] = o
  OBVIOUS
<1>6. QED  BY <1>2, <1>3, <1>4, <1>5 DEF b, q, o

LEMMA QuotedPartsIs ==
  ASSUME NEW t \in Seq(Unit)
  PROVE  QuotedParts(t) \in Seq(Seq(Parts)) /\ Len(QuotedParts(t)) = Len(t)
         /\ FlattenSeq([i \in DOMAIN Pieces(t) |-> QuotedPiece(Pieces(t)[i])])
              = FlattenSeq(QuotedParts(t))
<1>1. ASSUME NEW k \in 1..Len(t)
      PROVE  QuotedPiece(Pieces(t)[k]) \in Seq(Parts)
  <2>1. CASE IsIdiom(t, k)
    BY <2>1, IdiomIs DEF IsIdiom
  <2>2. CASE IsPart(t, k)
    <3>1. PICK mark \in {"plain", "meta", "hidden"} :
            QuotedPiece(Pieces(t)[k]) = <<Part(Spelled(t)[k], mark)>>
      BY <2>2 DEF IsPart
    <3>2. Spelled(t)[k] \in Seq(Nat)
      BY SpelledIsSeq
    <3>3. Part(Spelled(t)[k], mark) \in Parts
      BY <3>2, PartIs
    <3>4. QED  BY <3>1, <3>3, TextOfOne
  <2>3. QED  BY <2>1, <2>2, QuotedIs
<1>2. Len(t) \in Nat /\ DOMAIN Pieces(t) = 1..Len(t)
  BY DEF Pieces
<1>3. QuotedParts(t) \in [1..Len(t) -> Seq(Parts)]
  BY <1>1 DEF QuotedParts
<1>4. QuotedParts(t) \in Seq(Seq(Parts)) /\ Len(QuotedParts(t)) = Len(t)
  BY <1>2, <1>3
<1>5. QED  BY <1>2, <1>4 DEF QuotedParts

LEMMA PlainPartsIs ==
  ASSUME NEW t \in Seq(Unit)
  PROVE  PlainParts(t) \in Seq(Parts) /\ Len(PlainParts(t)) = Len(t)
         /\ [i \in DOMAIN Pieces(t) |-> Part(PieceText(Pieces(t)[i]), "plain")] = PlainParts(t)
         /\ Texts(PlainParts(t)) = Spelled(t)
<1>1. Len(t) \in Nat /\ DOMAIN Pieces(t) = 1..Len(t) /\ DOMAIN t = 1..Len(t)
  BY DEF Pieces
<1>2. \A k \in 1..Len(t) : PieceText(Pieces(t)[k]) = Spelled(t)[k]
  BY PieceIs
<1>3. Spelled(t) \in Seq(Seq(Nat)) /\ Len(Spelled(t)) = Len(t)
  BY SpelledIsSeq
<1>4. \A k \in 1..Len(t) : Spelled(t)[k] \in Seq(Nat)
  BY <1>3
<1>5. \A k \in 1..Len(t) : /\ Part(Spelled(t)[k], "plain") \in Parts
                          /\ Part(Spelled(t)[k], "plain").text = Spelled(t)[k]
  BY <1>4, PartIs
<1>6. PlainParts(t) \in [1..Len(t) -> Parts]
  BY <1>5 DEF PlainParts
<1>7. PlainParts(t) \in Seq(Parts) /\ Len(PlainParts(t)) = Len(t)
  BY <1>1, <1>6
<1>8. \A k \in 1..Len(t) : PlainParts(t)[k].text = Spelled(t)[k]
  BY <1>5 DEF PlainParts
<1>9. Texts(PlainParts(t)) = Spelled(t)
  <2>1. DOMAIN PlainParts(t) = 1..Len(t)
    BY <1>6
  <2>2. Spelled(t) = [k \in 1..Len(t) |-> Spelled(t)[k]]
    BY <1>1 DEF Spelled
  <2>3. QED  BY <1>8, <2>1, <2>2 DEF Texts
<1>10. [i \in DOMAIN Pieces(t) |-> Part(PieceText(Pieces(t)[i]), "plain")] = PlainParts(t)
  BY <1>1, <1>2 DEF PlainParts
<1>11. QED  BY <1>7, <1>9, <1>10

\* A token is drawn plain, when all its units are safe, or between quotes.
IsBare(t, r) == /\ r = PlainParts(t) /\ t # <<>>
                /\ \A k \in 1..Len(t) : IsSafe(t[k]) /\ Spelled(t)[k] = <<t[k]>>
InQuotes(t, r) == r = <<Ours>> \o FlattenSeq(QuotedParts(t)) \o <<Ours>>

LEMMA RenderIs ==
  ASSUME NEW t \in Seq(Unit)
  PROVE  IsBare(t, RenderToken(t)) \/ InQuotes(t, RenderToken(t))
<1> DEFINE ps == Pieces(t)
<1>1. DOMAIN ps = 1..Len(t)
  BY DEF Pieces
<1>2. CASE t # <<>> /\ NeedsNoQuotes(ps)
  <2>1. RenderToken(t) = PlainParts(t)
    BY <1>2, PlainPartsIs DEF RenderToken
  <2>2. ASSUME NEW k \in 1..Len(t)
        PROVE  IsSafe(t[k]) /\ Spelled(t)[k] = <<t[k]>>
    <3>1. ps[k].kind = Kind(t, k) /\ ps[k].code = t[k] /\ PieceText(ps[k]) = Spelled(t)[k]
      BY PieceIs
    <3>2. ps[k].kind = "char" /\ IsSafe(ps[k].code)
      BY <1>1, <1>2 DEF NeedsNoQuotes
    <3> HIDE DEF ps
    <3>3. PieceText(ps[k]) = <<ps[k].code>>
      BY <3>2 DEF PieceText
    <3>4. QED  BY <3>1, <3>2, <3>3
  <2>3. QED  BY <1>2, <2>1, <2>2 DEF IsBare
<1>3. CASE ~(t # <<>> /\ NeedsNoQuotes(ps))
  <2>1. RenderToken(t) =
          <<Ours>> \o FlattenSeq([i \in DOMAIN ps |-> QuotedPiece(ps[i])]) \o <<Ours>>
    BY <1>3 DEF RenderToken
  <2>2. QED  BY <2>1, QuotedPartsIs DEF InQuotes
<1>4. QED  BY <1>2, <1>3

-----------------------------------------------------------------------------
(* What the shell reads.                                                   *)

ShellStates == [mode : {"bare", "quoted", "escaped"}, word : Seq(Nat), read : Seq(Seq(Nat))]
ShellStep == [p \in ShellStates \X Nat |-> ShellRead(p[1], p[2])]
ShellReads(x, text, y) == Leads(ShellStates, ShellStep, x, text, y)

LEMMA SeqOfThose ==
  ASSUME NEW A, NEW B, NEW s \in Seq(A), \A j \in 1..Len(s) : s[j] \in B
  PROVE  s \in Seq(B)
<1>1. Len(s) \in Nat /\ s = [j \in 1..Len(s) |-> s[j]]
  OBVIOUS
<1> DEFINE n == Len(s)
           f == [j \in 1..n |-> s[j]]
<1>2. n \in Nat /\ s = f /\ f \in [1..n -> B]
  BY <1>1
<1> HIDE DEF f, n
<1>3. f \in Seq(B)
  BY <1>2
<1>4. QED  BY <1>2, <1>3

LEMMA FlattenIsSeq ==
  ASSUME NEW R, NEW s \in Seq(Seq(R))
  PROVE  FlattenSeq(s) \in Seq(R)
<1>1. PICK P : Piles(P, R, s) /\ P[Len(s)] = FlattenSeq(s)
  BY FlattenPiles
<1>2. Len(s) \in 0..Len(s)
  OBVIOUS
<1>3. P[Len(s)] \in Seq(R)
  BY <1>1, <1>2 DEF Piles
<1>4. QED  BY <1>1, <1>3

LEMMA StIs ==
  ASSUME NEW mode \in {"bare", "quoted", "escaped"}, NEW w \in Seq(Nat), NEW R \in Seq(Seq(Nat))
  PROVE  ShellAt(mode, w, R) \in ShellStates
BY DEF ShellAt, ShellStates

LEMMA StHas ==
  ASSUME NEW mode, NEW w, NEW R
  PROVE  LET x == ShellAt(mode, w, R) IN x.mode = mode /\ x.word = w /\ x.read = R
BY DEF ShellAt

LEMMA ShellOne ==
  ASSUME NEW x \in ShellStates, NEW y \in ShellStates, NEW c \in Nat, ShellRead(x, c) = y
  PROVE  ShellStep[<<x, c>>] = y /\ ShellReads(x, <<c>>, y)
<1>1. ShellStep[<<x, c>>] = y
  BY DEF ShellStep
<1>2. Leads(ShellStates, ShellStep, x, <<c>>, ShellStep[<<x, c>>])
  BY <1>1, LeadsOne
<1>3. QED  BY <1>1, <1>2 DEF ShellReads

\* Each character in each mode.
LEMMA QuoteOpens ==
  ASSUME NEW w \in Seq(Nat), NEW R \in Seq(Seq(Nat))
  PROVE  ShellReads(ShellAt("bare", w, R), <<Quote>>, ShellAt("quoted", w, R))
<1>1. ShellRead(ShellAt("bare", w, R), Quote) = ShellAt("quoted", w, R)
  <2> DEFINE x == ShellAt("bare", w, R)
  <2>1. x.mode = "bare" /\ x.word = w /\ x.read = R
    BY StHas
  <2> HIDE DEF x
  <2>2. ShellRead(x, Quote) = ShellAt("quoted", w, R)
    BY <2>1 DEF ShellRead, Quote, Backslash, Space
  <2>3. QED  BY <2>2 DEF x
<1>2. Quote \in Nat
  BY DEF Quote
<1>3. QED  BY <1>1, <1>2, StIs, ShellOne

LEMMA QuoteCloses ==
  ASSUME NEW w \in Seq(Nat), NEW R \in Seq(Seq(Nat))
  PROVE  ShellReads(ShellAt("quoted", w, R), <<Quote>>, ShellAt("bare", w, R))
<1>1. ShellRead(ShellAt("quoted", w, R), Quote) = ShellAt("bare", w, R)
  <2> DEFINE x == ShellAt("quoted", w, R)
  <2>1. x.mode = "quoted" /\ x.word = w /\ x.read = R
    BY StHas
  <2> HIDE DEF x
  <2>2. ShellRead(x, Quote) = ShellAt("bare", w, R)
    BY <2>1 DEF ShellRead
  <2>3. QED  BY <2>2 DEF x
<1>2. Quote \in Nat
  BY DEF Quote
<1>3. QED  BY <1>1, <1>2, StIs, ShellOne

LEMMA BackslashEscapes ==
  ASSUME NEW w \in Seq(Nat), NEW R \in Seq(Seq(Nat))
  PROVE  ShellReads(ShellAt("bare", w, R), <<Backslash>>, ShellAt("escaped", w, R))
<1>1. ShellRead(ShellAt("bare", w, R), Backslash) = ShellAt("escaped", w, R)
  <2> DEFINE x == ShellAt("bare", w, R)
  <2>1. x.mode = "bare" /\ x.word = w /\ x.read = R
    BY StHas
  <2> HIDE DEF x
  <2>2. ShellRead(x, Backslash) = ShellAt("escaped", w, R)
    BY <2>1 DEF ShellRead, Quote, Backslash, Space
  <2>3. QED  BY <2>2 DEF x
<1>2. Backslash \in Nat
  BY DEF Backslash
<1>3. QED  BY <1>1, <1>2, StIs, ShellOne

LEMMA EscapedKeeps ==
  ASSUME NEW w \in Seq(Nat), NEW R \in Seq(Seq(Nat)), NEW c \in Nat
  PROVE  ShellReads(ShellAt("escaped", w, R), <<c>>, ShellAt("bare", Append(w, c), R))
<1>1. ShellRead(ShellAt("escaped", w, R), c) = ShellAt("bare", Append(w, c), R)
  <2> DEFINE x == ShellAt("escaped", w, R)
  <2>1. x.mode = "escaped" /\ x.word = w /\ x.read = R
    BY StHas
  <2> HIDE DEF x
  <2>2. ShellRead(x, c) = ShellAt("bare", Append(w, c), R)
    BY <2>1 DEF ShellRead
  <2>3. QED  BY <2>2 DEF x
<1>2. Append(w, c) \in Seq(Nat)
  OBVIOUS
<1>3. QED  BY <1>1, <1>2, StIs, ShellOne

LEMMA SpaceEnds ==
  ASSUME NEW w \in Seq(Nat), NEW R \in Seq(Seq(Nat))
  PROVE  ShellReads(ShellAt("bare", w, R), <<Space>>, ShellAt("bare", <<>>, Append(R, w)))
<1>1. ShellRead(ShellAt("bare", w, R), Space) = ShellAt("bare", <<>>, Append(R, w))
  <2> DEFINE x == ShellAt("bare", w, R)
  <2>1. x.mode = "bare" /\ x.word = w /\ x.read = R
    BY StHas
  <2> HIDE DEF x
  <2>2. ShellRead(x, Space) = ShellAt("bare", <<>>, Append(R, w))
    BY <2>1 DEF ShellRead, Quote, Backslash, Space
  <2>3. QED  BY <2>2 DEF x
<1>2. Space \in Nat /\ <<>> \in Seq(Nat) /\ Append(R, w) \in Seq(Seq(Nat))
  BY DEF Space
<1>3. QED  BY <1>1, <1>2, StIs, ShellOne

LEMMA QuotedKeeps ==
  ASSUME NEW w \in Seq(Nat), NEW R \in Seq(Seq(Nat)), NEW c \in Nat, c # Quote
  PROVE  ShellStep[<<ShellAt("quoted", w, R), c>>] = ShellAt("quoted", Append(w, c), R)
<1>1. ShellRead(ShellAt("quoted", w, R), c) = ShellAt("quoted", Append(w, c), R)
  <2> DEFINE x == ShellAt("quoted", w, R)
  <2>1. x.mode = "quoted" /\ x.word = w /\ x.read = R
    BY StHas
  <2> HIDE DEF x
  <2>2. ShellRead(x, c) = ShellAt("quoted", Append(w, c), R)
    BY <2>1 DEF ShellRead
  <2>3. QED  BY <2>2 DEF x
<1>2. Append(w, c) \in Seq(Nat)
  OBVIOUS
<1>3. QED  BY <1>1, <1>2, StIs, ShellOne

LEMMA SafeIsNoSign ==
  ASSUME NEW c, IsSafe(c)
  PROVE  c # Quote /\ c # Backslash /\ c # Space
BY DEF IsSafe, Within, Quote, Backslash, Space

LEMMA SafeKeeps ==
  ASSUME NEW w \in Seq(Nat), NEW R \in Seq(Seq(Nat)), NEW c \in Nat, IsSafe(c)
  PROVE  ShellStep[<<ShellAt("bare", w, R), c>>] = ShellAt("bare", Append(w, c), R)
<1>1. c # Quote /\ c # Backslash /\ c # Space
  BY SafeIsNoSign
<1>2. ShellRead(ShellAt("bare", w, R), c) = ShellAt("bare", Append(w, c), R)
  <2> DEFINE x == ShellAt("bare", w, R)
  <2>1. x.mode = "bare" /\ x.word = w /\ x.read = R
    BY StHas
  <2> HIDE DEF x
  <2>2. ShellRead(x, c) = ShellAt("bare", Append(w, c), R)
    BY <1>1, <2>1 DEF ShellRead
  <2>3. QED  BY <2>2 DEF x
<1>3. Append(w, c) \in Seq(Nat)
  OBVIOUS
<1>4. QED  BY <1>2, <1>3, StIs, ShellOne

\* Text a mode keeps is added to the word.
Keeps(mode, R, C) ==
  \A v \in Seq(Nat), c \in C :
    ShellStep[<<ShellAt(mode, v, R), c>>] = ShellAt(mode, Append(v, c), R)

LEMMA TextIsKept ==
  ASSUME NEW mode \in {"bare", "quoted"}, NEW R \in Seq(Seq(Nat)), NEW C, C \subseteq Nat,
         Keeps(mode, R, C), NEW text \in Seq(C), NEW v \in Seq(Nat)
  PROVE  ShellReads(ShellAt(mode, v, R), text, ShellAt(mode, v \o text, R))
<1> DEFINE m == [c \in C |-> c]
           st == [u \in Seq(Nat) |-> ShellAt(mode, u, R)]
<1>1. m \in [C -> Nat] /\ \A c \in C : m[c] = c
  OBVIOUS
<1>2. st \in [Seq(Nat) -> ShellStates] /\ \A u \in Seq(Nat) : st[u] = ShellAt(mode, u, R)
  BY StIs
<1> HIDE DEF m, st
<1>3. \A u \in Seq(Nat), c \in C : ShellStep[<<st[u], c>>] = st[Append(u, m[c])]
  <2> SUFFICES ASSUME NEW u \in Seq(Nat), NEW c \in C
               PROVE  ShellStep[<<st[u], c>>] = st[Append(u, m[c])]
    OBVIOUS
  <2>1. c \in Nat /\ Append(u, c) \in Seq(Nat)
    OBVIOUS
  <2>2. ShellStep[<<ShellAt(mode, u, R), c>>] = ShellAt(mode, Append(u, c), R)
    BY DEF Keeps
  <2>3. st[u] = ShellAt(mode, u, R) /\ st[Append(u, c)] = ShellAt(mode, Append(u, c), R) /\ m[c] = c
    BY <1>1, <1>2, <2>1
  <2>4. QED  BY <2>2, <2>3
<1>4. Leads(ShellStates, ShellStep, st[v], text, st[v \o Mapped(m, text)])
  BY <1>1, <1>2, <1>3, LeadsKeeping
<1>5. Mapped(m, text) = text
  <2>1. \A j \in 1..Len(text) : text[j] \in C
    OBVIOUS
  <2>2. \A j \in 1..Len(text) : m[text[j]] = text[j]
    BY <1>1, <2>1
  <2>3. text = [j \in 1..Len(text) |-> text[j]]
    OBVIOUS
  <2>4. Mapped(m, text) = [j \in 1..Len(text) |-> text[j]]
    BY <2>2 DEF Mapped
  <2>5. QED  BY <2>3, <2>4
<1>6. text \in Seq(Nat)
  <2>1. \A j \in 1..Len(text) : text[j] \in C
    OBVIOUS
  <2>2. \A j \in 1..Len(text) : text[j] \in Nat
    BY <2>1
  <2>3. QED  BY <2>2, SeqOfThose
<1>7. v \o text \in Seq(Nat)
  BY <1>6
<1>8. st[v] = ShellAt(mode, v, R) /\ st[v \o text] = ShellAt(mode, v \o text, R)
  BY <1>2, <1>7
<1>9. QED  BY <1>4, <1>5, <1>8 DEF ShellReads

LEMMA QuotedTextIsKept ==
  ASSUME NEW R \in Seq(Seq(Nat)), NEW text \in Seq(Nat), NEW v \in Seq(Nat),
         \A j \in 1..Len(text) : text[j] # Quote
  PROVE  ShellReads(ShellAt("quoted", v, R), text, ShellAt("quoted", v \o text, R))
<1> DEFINE C == {c \in Nat : c # Quote}
<1>1. \A j \in 1..Len(text) : text[j] \in Nat
  OBVIOUS
<1>2. text \in Seq(C)
  <2>1. \A j \in 1..Len(text) : text[j] \in C
    BY <1>1
  <2> HIDE DEF C
  <2>2. QED  BY <2>1, SeqOfThose
<1>3. Keeps("quoted", R, C)
  BY QuotedKeeps DEF Keeps
<1>4. C \subseteq Nat
  OBVIOUS
<1> HIDE DEF C
<1>5. QED  BY <1>2, <1>3, <1>4, TextIsKept

LEMMA LeadsParts ==
  ASSUME NEW S, NEW step, NEW a \in Seq(Parts), NEW X \in [0..Len(a) -> S],
         \A k \in 1..Len(a) : Leads(S, step, X[k - 1], a[k].text, X[k])
  PROVE  Leads(S, step, X[0], TextOf(a), X[Len(a)])
<1> DEFINE x == Texts(a)
<1>1. /\ x \in Seq(Seq(Nat)) /\ Len(x) = Len(a) /\ TextOf(a) = FlattenSeq(x)
      /\ \A k \in 1..Len(a) : x[k] = a[k].text
  BY TextsIs
<1> HIDE DEF x
<1>2. \A k \in 1..Len(x) : Leads(S, step, X[k - 1], x[k], X[k])
  BY <1>1
<1>3. X \in [0..Len(x) -> S]
  BY <1>1
<1>4. Leads(S, step, X[0], FlattenSeq(x), X[Len(x)])
  BY <1>1, <1>2, <1>3, LeadsAll
<1>5. QED  BY <1>1, <1>4

LEMMA IdiomReads ==
  ASSUME NEW R \in Seq(Seq(Nat)), NEW v \in Seq(Nat), NEW a \in Seq(Parts), Len(a) = 4,
         a[1].text = <<Quote>>, a[2].text = <<Backslash>>,
         a[3].text = <<Quote>>, a[4].text = <<Quote>>
  PROVE  ShellReads(ShellAt("quoted", v, R), TextOf(a), ShellAt("quoted", v \o <<Quote>>, R))
<1> DEFINE u == v \o <<Quote>>
           x0 == ShellAt("quoted", v, R)
           x1 == ShellAt("bare", v, R)
           x2 == ShellAt("escaped", v, R)
           x3 == ShellAt("bare", u, R)
           x4 == ShellAt("quoted", u, R)
           X == [k \in 0..4 |-> IF k = 0 THEN x0 ELSE IF k = 1 THEN x1 ELSE
                                IF k = 2 THEN x2 ELSE IF k = 3 THEN x3 ELSE x4]
<1>1. Quote \in Nat /\ u = Append(v, Quote) /\ u \in Seq(Nat)
  BY DEF Quote
<1> HIDE DEF u
<1>2. /\ x0 \in ShellStates /\ x1 \in ShellStates /\ x2 \in ShellStates
      /\ x3 \in ShellStates /\ x4 \in ShellStates
  BY <1>1, StIs
<1>3. ShellReads(x0, <<Quote>>, x1)
  BY QuoteCloses
<1>4. ShellReads(x1, <<Backslash>>, x2)
  BY BackslashEscapes
<1>5. ShellReads(x2, <<Quote>>, x3)
  BY <1>1, EscapedKeeps
<1>6. ShellReads(x3, <<Quote>>, x4)
  BY <1>1, QuoteOpens
<1> HIDE DEF x0, x1, x2, x3, x4
<1>7. X \in [0..4 -> ShellStates]
  BY <1>2
<1>8. X[0] = x0 /\ X[1] = x1 /\ X[2] = x2 /\ X[3] = x3 /\ X[4] = x4
  OBVIOUS
<1> HIDE DEF X
<1>9. \A k \in 1..4 : Leads(ShellStates, ShellStep, X[k - 1], a[k].text, X[k])
  <2>1. /\ Leads(ShellStates, ShellStep, X[0], a[1].text, X[1])
        /\ Leads(ShellStates, ShellStep, X[1], a[2].text, X[2])
        /\ Leads(ShellStates, ShellStep, X[2], a[3].text, X[3])
        /\ Leads(ShellStates, ShellStep, X[3], a[4].text, X[4])
    BY <1>3, <1>4, <1>5, <1>6, <1>8 DEF ShellReads
  <2>2. \A k \in 1..4 : (k = 1 /\ k - 1 = 0) \/ (k = 2 /\ k - 1 = 1)
                        \/ (k = 3 /\ k - 1 = 2) \/ (k = 4 /\ k - 1 = 3)
    OBVIOUS
  <2>3. QED  BY <2>1, <2>2
<1>10. Leads(ShellStates, ShellStep, X[0], TextOf(a), X[4])
  BY <1>7, <1>9, LeadsParts
<1>11. QED  BY <1>8, <1>10 DEF ShellReads, x0, x4, u

\* What is drawn of a unit inside the quotes adds its spelling to the word.
LEMMA PieceReads ==
  ASSUME NEW R \in Seq(Seq(Nat)), NEW v \in Seq(Nat), NEW t \in Seq(Unit), NEW k \in 1..Len(t)
  PROVE  ShellReads(ShellAt("quoted", v, R), TextOf(QuotedPiece(Pieces(t)[k])),
                ShellAt("quoted", v \o Spelled(t)[k], R))
<1> DEFINE a == QuotedPiece(Pieces(t)[k])
           w == Spelled(t)[k]
<1>1. CASE IsIdiom(t, k)
  <2>1. a = <<Ours, Part(<<Backslash>>, "plain"), Part(<<Quote>>, "meta"), Ours>>
        /\ w = <<Quote>>
    BY <1>1 DEF IsIdiom
  <2>2. /\ a \in Seq(Parts) /\ Len(a) = 4
        /\ a[1].text = <<Quote>> /\ a[2].text = <<Backslash>>
        /\ a[3].text = <<Quote>> /\ a[4].text = <<Quote>>
    BY <2>1, IdiomIs
  <2> HIDE DEF a, w
  <2>3. ShellReads(ShellAt("quoted", v, R), TextOf(a), ShellAt("quoted", v \o <<Quote>>, R))
    BY <2>2, IdiomReads
  <2>4. QED  BY <2>1, <2>3 DEF a, w
<1>2. CASE IsPart(t, k)
  <2>1. PICK mark \in {"plain", "meta", "hidden"} : a = <<Part(w, mark)>>
    BY <1>2 DEF IsPart
  <2>2. \A j \in 1..Len(w) : w[j] # Quote
    BY <1>2 DEF IsPart
  <2>3. w \in Seq(Nat)
    <3>1. Spelled(t) \in Seq(Seq(Nat)) /\ Len(Spelled(t)) = Len(t)
      BY SpelledIsSeq
    <3>2. QED  BY <3>1
  <2> HIDE DEF a, w
  <2>4. Part(w, mark) \in Parts /\ Part(w, mark).text = w
    BY <2>3, PartIs
  <2>5. TextOf(a) = w
    BY <2>1, <2>4, TextOfOne
  <2>6. ShellReads(ShellAt("quoted", v, R), w, ShellAt("quoted", v \o w, R))
    BY <2>2, <2>3, QuotedTextIsKept
  <2>7. QED  BY <2>5, <2>6 DEF a, w
<1>3. QED  BY <1>1, <1>2, QuotedIs

LEMMA InsideReads ==
  ASSUME NEW R \in Seq(Seq(Nat)), NEW t \in Seq(Unit)
  PROVE  ShellReads(ShellAt("quoted", <<>>, R), TextOf(FlattenSeq(QuotedParts(t))),
                ShellAt("quoted", Escaped(t), R))
<1> DEFINE q == QuotedParts(t)
           s == Spelled(t)
           n == Len(t)
<1>1. q \in Seq(Seq(Parts)) /\ Len(q) = n
  BY QuotedPartsIs
<1>2. \A k \in 1..n : q[k] = QuotedPiece(Pieces(t)[k])
  BY DEF QuotedParts
<1>3. s \in Seq(Seq(Nat)) /\ Len(s) = n
  BY SpelledIsSeq
<1>4. Escaped(t) = FlattenSeq(s)
  BY EscapedIsSpelled
<1> HIDE DEF q, s
<1>5. PICK P : Piles(P, Nat, s) /\ P[Len(s)] = FlattenSeq(s)
  BY <1>3, FlattenPiles
<1>6. /\ P \in [0..n -> Seq(Nat)] /\ P[0] = << >>
      /\ \A k \in 1..n : P[k] = P[k - 1] \o s[k]
  BY <1>3, <1>5 DEF Piles
<1>7. n \in Nat
  OBVIOUS
<1> HIDE DEF n
<1> DEFINE X == [k \in 0..n |-> ShellAt("quoted", P[k], R)]
<1>8. X \in [0..n -> ShellStates]
  <2>1. \A k \in 0..n : P[k] \in Seq(Nat)
    BY <1>6
  <2>2. \A k \in 0..n : ShellAt("quoted", P[k], R) \in ShellStates
    BY <2>1, StIs
  <2>3. QED  BY <2>2
<1>9. \A k \in 0..n : X[k] = ShellAt("quoted", P[k], R)
  OBVIOUS
<1> HIDE DEF X
<1>10. ASSUME NEW k \in 1..n
       PROVE  Leads(ShellStates, ShellStep, X[k - 1], TextOf(q[k]), X[k])
  <2>1. k \in 0..n /\ k - 1 \in 0..n
    BY <1>7
  <2>2. P[k - 1] \in Seq(Nat)
    BY <1>6, <2>1
  <2>3. ShellReads(ShellAt("quoted", P[k - 1], R), TextOf(QuotedPiece(Pieces(t)[k])),
               ShellAt("quoted", P[k - 1] \o Spelled(t)[k], R))
    BY <2>2, PieceReads DEF n
  <2>4. P[k] = P[k - 1] \o s[k]
    BY <1>6
  <2>5. q[k] = QuotedPiece(Pieces(t)[k])
    BY <1>2
  <2>6. ShellReads(X[k - 1], TextOf(q[k]), X[k])
    BY <1>9, <2>1, <2>3, <2>4, <2>5 DEF s
  <2>7. QED  BY <2>6 DEF ShellReads
<1>11. Leads(ShellStates, ShellStep, X[0], TextOf(FlattenSeq(q)), X[n])
  BY <1>1, <1>8, <1>10, LeadsTexts
<1>12. X[0] = ShellAt("quoted", << >>, R) /\ X[n] = ShellAt("quoted", Escaped(t), R)
  <2>1. 0 \in 0..n /\ n \in 0..n
    BY <1>7
  <2>2. QED  BY <1>3, <1>4, <1>5, <1>6, <1>9, <2>1
<1>13. QED  BY <1>11, <1>12 DEF ShellReads, q

LEMMA EscapedIsSeq == ASSUME NEW t \in Seq(Unit) PROVE Escaped(t) \in Seq(Nat)
<1> DEFINE s == Spelled(t)
<1>1. s \in Seq(Seq(Nat)) /\ Escaped(t) = FlattenSeq(s)
  BY SpelledIsSeq, EscapedIsSpelled
<1> HIDE DEF s
<1>2. PICK P : Piles(P, Nat, s) /\ P[Len(s)] = FlattenSeq(s)
  BY <1>1, FlattenPiles
<1>3. Len(s) \in 0..Len(s)
  BY <1>1
<1>4. P[Len(s)] \in Seq(Nat)
  BY <1>2, <1>3 DEF Piles
<1>5. QED  BY <1>1, <1>2, <1>4

\* Between its quotes a token is one word, its escaped text.
LEMMA QuotedTokenReads ==
  ASSUME NEW R \in Seq(Seq(Nat)), NEW t \in Seq(Unit), NEW r, InQuotes(t, r)
  PROVE  r \in Seq(Parts)
         /\ ShellReads(ShellAt("bare", <<>>, R), TextOf(r), ShellAt("bare", Escaped(t), R))
<1> DEFINE a == <<Ours>>
           b == FlattenSeq(QuotedParts(t))
           none == <<>>
<1>1. a \in Seq(Parts) /\ TextOf(a) = <<Quote>>
  BY OursIs, TextOfOne
<1>2. b \in Seq(Parts)
  <2>1. QuotedParts(t) \in Seq(Seq(Parts))
    BY QuotedPartsIs
  <2>2. QED  BY <2>1, FlattenIsSeq
<1>3. ShellReads(ShellAt("quoted", none, R), TextOf(b), ShellAt("quoted", Escaped(t), R))
  BY InsideReads
<1>4. r = a \o b \o a
  BY DEF InQuotes
<1>5. Escaped(t) \in Seq(Nat)
  BY EscapedIsSeq
<1>6. none \in Seq(Nat)
  OBVIOUS
<1> HIDE DEF a, b, none
<1>7. a \o b \in Seq(Parts) /\ TextOf(a \o b) = TextOf(a) \o TextOf(b)
  <2>1. a \o b \in Seq(Parts)
    BY <1>1, <1>2
  <2>2. TextOf(a \o b) = TextOf(a) \o TextOf(b)
    BY <1>1, <1>2, TextBoth
  <2>3. QED  BY <2>1, <2>2
<1>8. (a \o b) \o a \in Seq(Parts) /\ TextOf((a \o b) \o a) = TextOf(a \o b) \o TextOf(a)
  <2>1. (a \o b) \o a \in Seq(Parts)
    BY <1>1, <1>7
  <2>2. TextOf((a \o b) \o a) = TextOf(a \o b) \o TextOf(a)
    BY <1>1, <1>7, TextBoth
  <2>3. QED  BY <2>1, <2>2
<1>9. TextOf(a) \in Seq(Nat) /\ TextOf(b) \in Seq(Nat) /\ TextOf(a \o b) \in Seq(Nat)
  BY <1>1, <1>2, <1>7, TextIsSeq
<1>10. ShellReads(ShellAt("bare", none, R), TextOf(a), ShellAt("quoted", none, R))
  BY <1>1, <1>6, QuoteOpens
<1>11. ShellReads(ShellAt("quoted", Escaped(t), R), TextOf(a), ShellAt("bare", Escaped(t), R))
  BY <1>1, <1>5, QuoteCloses
<1>12. ShellReads(ShellAt("bare", none, R), TextOf(a \o b), ShellAt("quoted", Escaped(t), R))
  BY <1>3, <1>7, <1>9, <1>10, LeadsBoth DEF ShellReads
<1>13. ShellReads(ShellAt("bare", none, R), TextOf((a \o b) \o a), ShellAt("bare", Escaped(t), R))
  BY <1>8, <1>9, <1>11, <1>12, LeadsBoth DEF ShellReads
<1>14. QED  BY <1>4, <1>8, <1>13 DEF none

\* So is a token whose units are all safe.
LEMMA BareTokenReads ==
  ASSUME NEW R \in Seq(Seq(Nat)), NEW t \in Seq(Unit), NEW r, IsBare(t, r)
  PROVE  r \in Seq(Parts)
         /\ ShellReads(ShellAt("bare", <<>>, R), TextOf(r), ShellAt("bare", Escaped(t), R))
<1> DEFINE C == {c \in Nat : IsSafe(c)}
           s == Spelled(t)
           n == Len(t)
<1>1. r = PlainParts(t) /\ \A k \in 1..n : IsSafe(t[k]) /\ s[k] = <<t[k]>>
  BY DEF IsBare
<1>2. PlainParts(t) \in Seq(Parts) /\ Texts(PlainParts(t)) = s
  BY PlainPartsIs
<1>3. TextOf(r) = FlattenSeq(s) /\ Escaped(t) = FlattenSeq(s)
  BY <1>1, <1>2, TextsIs, EscapedIsSpelled
<1>4. s \in Seq(Seq(Nat)) /\ Len(s) = n
  BY SpelledIsSeq
<1>5. s \in Seq(Seq(C))
  <2>1. ASSUME NEW k \in 1..n
        PROVE  s[k] \in Seq(C)
    <3>1. s[k] \in Seq(Nat)
      BY <1>4
    <3>2. s[k] = <<t[k]>>
      BY <1>1
    <3> HIDE DEF s
    <3>3. t[k] \in Nat
      BY <3>1, <3>2
    <3>4. t[k] \in C
      BY <1>1, <3>3
    <3> HIDE DEF C
    <3>5. QED  BY <3>2, <3>4
  <2> HIDE DEF C, s
  <2>2. QED  BY <1>4, <2>1, SeqOfThose
<1>6. C \subseteq Nat
  OBVIOUS
<1>7. Keeps("bare", R, C)
  BY SafeKeeps DEF Keeps
<1> HIDE DEF C, s
<1>8. Escaped(t) \in Seq(C)
  BY <1>3, <1>5, FlattenIsSeq
<1>9. << >> \in Seq(Nat)
  OBVIOUS
<1>10. << >> \o Escaped(t) = Escaped(t)
  BY <1>8
<1>11. ShellReads(ShellAt("bare", <<>>, R), Escaped(t), ShellAt("bare", <<>> \o Escaped(t), R))
  BY <1>6, <1>7, <1>8, <1>9, TextIsKept
<1>12. QED  BY <1>1, <1>2, <1>3, <1>10, <1>11

LEMMA TokenReads ==
  ASSUME NEW R \in Seq(Seq(Nat)), NEW t \in Seq(Unit)
  PROVE  RenderToken(t) \in Seq(Parts)
         /\ ShellReads(ShellAt("bare", <<>>, R), TextOf(RenderToken(t)),
                   ShellAt("bare", Escaped(t), R))
BY RenderIs, QuotedTokenReads, BareTokenReads

-----------------------------------------------------------------------------
(* A line of tokens.                                                       *)

LEMMA SpacedLeads ==
  ASSUME NEW S, NEW step, NEW C, Space \in C, NEW d \in Seq(Seq(C)), Len(d) >= 1,
         NEW X \in [1..Len(d) -> S], NEW Y \in [1..Len(d) -> S],
         \A k \in 1..Len(d) : Leads(S, step, X[k], d[k], Y[k]),
         \A k \in 2..Len(d) : Leads(S, step, Y[k - 1], <<Space>>, X[k])
  PROVE  Leads(S, step, X[1], Spaced(d), Y[Len(d)])
<1> DEFINE n == Len(d)
           s == [k \in 1..n |-> IF k = 1 THEN d[k] ELSE <<Space>> \o d[k]]
           Z == [k \in 0..n |-> IF k = 0 THEN X[1] ELSE Y[k]]
<1>1. n \in Nat /\ n >= 1 /\ DOMAIN d = 1..n /\ \A k \in 1..n : d[k] \in Seq(C)
  OBVIOUS
<1>2. Spaced(d) = FlattenSeq(s)
  BY <1>1 DEF Spaced
<1>3. \A k \in 1..n : s[k] = IF k = 1 THEN d[k] ELSE <<Space>> \o d[k]
  OBVIOUS
<1>4. <<Space>> \in Seq(C)
  OBVIOUS
<1>5. s \in Seq(Seq(C)) /\ Len(s) = n
  <2>1. \A k \in 1..n : (IF k = 1 THEN d[k] ELSE <<Space>> \o d[k]) \in Seq(C)
    <3> SUFFICES ASSUME NEW k \in 1..n
                 PROVE  (IF k = 1 THEN d[k] ELSE <<Space>> \o d[k]) \in Seq(C)
      OBVIOUS
    <3>1. d[k] \in Seq(C)
      BY <1>1
    <3>2. <<Space>> \o d[k] \in Seq(C)
      BY <1>4, <3>1
    <3>3. QED  BY <3>1, <3>2
  <2> HIDE DEF n
  <2>2. s \in [1..n -> Seq(C)]
    BY <2>1
  <2> HIDE DEF s
  <2>3. QED  BY <1>1, <2>2
<1> HIDE DEF s
<1>6. Z \in [0..n -> S]
  <2>1. \A k \in 0..n : (IF k = 0 THEN X[1] ELSE Y[k]) \in S
    <3> SUFFICES ASSUME NEW k \in 0..n
                 PROVE  (IF k = 0 THEN X[1] ELSE Y[k]) \in S
      OBVIOUS
    <3>1. X[1] \in S
      <4>1. 1 \in 1..n
        BY <1>1
      <4>2. QED  BY <4>1
    <3>2. k # 0 => Y[k] \in S
      BY <1>1
    <3>3. QED  BY <3>1, <3>2
  <2> HIDE DEF n
  <2>2. QED  BY <2>1
<1>7. Z[0] = X[1] /\ \A k \in 1..n : Z[k] = Y[k]
  BY <1>1
<1> HIDE DEF Z
<1>8. ASSUME NEW k \in 1..n
      PROVE  Leads(S, step, Z[k - 1], s[k], Z[k])
  <2>1. Leads(S, step, X[k], d[k], Y[k]) /\ Z[k] = Y[k] /\ d[k] \in Seq(C)
    BY <1>1, <1>7
  <2>2. CASE k = 1
    <3>1. Z[k - 1] = X[k] /\ s[k] = d[k]
      BY <1>3, <1>7, <2>2
    <3>2. QED  BY <2>1, <3>1
  <2>3. CASE k # 1
    <3>1. k \in 2..n /\ k - 1 \in 1..n
      BY <1>1, <2>3
    <3>2. Z[k - 1] = Y[k - 1] /\ s[k] = <<Space>> \o d[k]
      BY <1>3, <1>7, <2>3, <3>1
    <3>3. Leads(S, step, Y[k - 1], <<Space>>, X[k])
      BY <3>1
    <3>4. Leads(S, step, Y[k - 1], <<Space>> \o d[k], Y[k])
      BY <1>4, <2>1, <3>3, LeadsBoth
    <3>5. QED  BY <2>1, <3>2, <3>4
  <2>4. QED  BY <2>2, <2>3
<1> HIDE DEF n
<1>9. Leads(S, step, Z[0], FlattenSeq(s), Z[n])
  BY <1>5, <1>6, <1>8, LeadsAll
<1>10. Z[n] = Y[n]
  BY <1>1, <1>7
<1>11. QED  BY <1>2, <1>7, <1>9, <1>10 DEF n

LEMMA SpacedIsSeq ==
  ASSUME NEW C, Space \in C, NEW d \in Seq(Seq(C))
  PROVE  Spaced(d) \in Seq(C)
<1> DEFINE n == Len(d)
           s == [k \in 1..n |-> IF k = 1 THEN d[k] ELSE <<Space>> \o d[k]]
<1>1. n \in Nat /\ DOMAIN d = 1..n /\ \A k \in 1..n : d[k] \in Seq(C)
  OBVIOUS
<1>2. Spaced(d) = FlattenSeq(s)
  BY <1>1 DEF Spaced
<1>3. \A k \in 1..n : (IF k = 1 THEN d[k] ELSE <<Space>> \o d[k]) \in Seq(C)
  <2> SUFFICES ASSUME NEW k \in 1..n
               PROVE  (IF k = 1 THEN d[k] ELSE <<Space>> \o d[k]) \in Seq(C)
    OBVIOUS
  <2>1. d[k] \in Seq(C) /\ <<Space>> \in Seq(C)
    BY <1>1
  <2>2. <<Space>> \o d[k] \in Seq(C)
    BY <2>1
  <2>3. QED  BY <2>1, <2>2
<1> HIDE DEF n
<1>4. s \in [1..n -> Seq(C)]
  BY <1>3
<1> HIDE DEF s
<1>5. s \in Seq(Seq(C))
  BY <1>1, <1>4
<1>6. QED  BY <1>2, <1>5, FlattenIsSeq

LEMMA OneMore ==
  ASSUME NEW B, NEW u \in Seq(B), NEW j \in 1..Len(u)
  PROVE  SubSeq(u, 1, j - 1) \in Seq(B) /\ SubSeq(u, 1, j) = Append(SubSeq(u, 1, j - 1), u[j])
<1> DEFINE none == <<>>
           a == SubSeq(u, 1, j - 1)
           b == SubSeq(u, 1, j)
<1>1. j \in 0..Len(u) /\ j - 1 \in 0..Len(u) /\ none \in Seq(B)
  OBVIOUS
<1>2. a \in Seq(B) /\ b \in Seq(B)
  BY <1>1, Beginnings
<1>3. none \o b = Append(none \o a, u[j])
  BY <1>1, Grows
<1> HIDE DEF a, b
<1>4. none \o b = b /\ none \o a = a
  BY <1>2
<1> HIDE DEF none
<1>5. QED  BY <1>2, <1>3, <1>4 DEF a, b

ShellRuns(at, x, line) ==
  at = [i \in 0..Len(line) |-> IF i = 0 THEN x ELSE ShellRead(at[i - 1], line[i])]

LEMMA ShellUnfolds ==
  ASSUME NEW x, NEW line
  PROVE  ShellFrom(x, line) = (CHOOSE at : ShellRuns(at, x, line))[Len(line)]
BY DEF ShellFrom, ShellRuns

LEMMA ShellGoes ==
  ASSUME NEW x, NEW line \in Seq(Nat), NEW y, ShellReads(x, line, y)
  PROVE  ShellFrom(x, line) = y
<1> DEFINE n == Len(line)
<1>1. PICK f \in [0..n -> ShellStates] : Through(f, ShellStep, x, line, y)
  BY DEF ShellReads, Leads
<1>2. n \in Nat /\ \A i \in 1..n : line[i] \in Nat
  OBVIOUS
<1>3. f[0] = x /\ f[n] = y /\ \A i \in 1..n : f[i] = ShellStep[<<f[i - 1], line[i]>>]
  BY <1>1 DEF Through
<1>4. \A i \in 1..n : f[i] = ShellRead(f[i - 1], line[i])
  <2> SUFFICES ASSUME NEW i \in 1..n
               PROVE  f[i] = ShellRead(f[i - 1], line[i])
    OBVIOUS
  <2>1. i - 1 \in 0..n
    BY <1>2
  <2>2. f[i - 1] \in ShellStates /\ line[i] \in Nat
    BY <1>1, <1>2, <2>1
  <2>3. ShellStep[<<f[i - 1], line[i]>>] = ShellRead(f[i - 1], line[i])
    BY <2>2 DEF ShellStep
  <2>4. QED  BY <1>3, <2>3
<1>5. f = [i \in 0..n |-> IF i = 0 THEN x ELSE ShellRead(f[i - 1], line[i])]
  <2>1. f = [i \in 0..n |-> f[i]]
    BY <1>1
  <2>2. \A i \in 0..n : f[i] = IF i = 0 THEN x ELSE ShellRead(f[i - 1], line[i])
    <3>1. \A i \in 0..n : i = 0 \/ i \in 1..n
      BY <1>2
    <3>2. \A i \in 1..n : i # 0
      OBVIOUS
    <3>3. QED  BY <1>3, <1>4, <3>1, <3>2
  <2>3. QED  BY <2>1, <2>2
<1>6. \E at : ShellRuns(at, x, line)
  BY <1>5 DEF ShellRuns
<1> DEFINE at == CHOOSE a : ShellRuns(a, x, line)
<1>7. ShellRuns(at, x, line) /\ ShellFrom(x, line) = at[n]
  BY <1>6, ShellUnfolds
<1> HIDE DEF at
<1>8. \A i \in 0..n : at[i] = IF i = 0 THEN x ELSE ShellRead(at[i - 1], line[i])
  BY <1>7 DEF ShellRuns
<1>9. at[0] = f[0]
  <2>1. 0 \in 0..n
    BY <1>2
  <2>2. QED  BY <1>3, <1>8, <2>1
<1>10. \A i \in 1..n : at[i - 1] = f[i - 1] => at[i] = f[i]
  <2>1. \A i \in 1..n : i \in 0..n /\ i # 0
    BY <1>2
  <2>2. QED  BY <1>4, <1>8, <2>1
<1> HIDE DEF n
<1>11. at[n] = f[n]
  BY <1>2, <1>9, <1>10, StepByStep
<1>12. QED  BY <1>3, <1>7, <1>11

LEMMA TokensAre ==
  ASSUME NEW p \in Seq(Octets), NEW args \in Seq(Seq(Octets))
  PROVE  CommandTokens(p, args) \in Seq(Seq(Octets)) /\ Len(CommandTokens(p, args)) >= 1
<1> DEFINE name == LastPathComponent(p)
           repeats == /\ args # <<>>
                      /\ args[1] = p \/ (name # <<>> /\ args[1] = name)
           rest == IF repeats THEN Tail(args) ELSE args
           one == <<p>>
<1>1. CommandTokens(p, args) = one \o rest
  BY DEF CommandTokens
<1>2. rest \in Seq(Seq(Octets))
  <2>1. CASE repeats
    <3>1. args # << >>
      BY <2>1
    <3> HIDE DEF repeats
    <3>2. Tail(args) \in Seq(Seq(Octets))
      BY <3>1
    <3>3. QED  BY <2>1, <3>2
  <2>2. CASE ~repeats
    BY <2>2
  <2>3. QED  BY <2>1, <2>2
<1>3. one \in Seq(Seq(Octets)) /\ Len(one) = 1
  OBVIOUS
<1> HIDE DEF rest, one
<1>4. one \o rest \in Seq(Seq(Octets)) /\ Joins(one \o rest, one, rest)
  BY <1>2, <1>3, Joined
<1>5. Len(one \o rest) >= 1
  <2>1. Len(rest) \in Nat
    BY <1>2
  <2>2. QED  BY <1>3, <1>4, <2>1 DEF Joins
<1>6. QED  BY <1>1, <1>4, <1>5

LEMMA LineReads ==
  ASSUME NEW toks \in Seq(Seq(Octets)), Len(toks) >= 1
  PROVE  ShellWords(Spaced([i \in DOMAIN toks |-> TextOf(RenderToken(Decode(toks[i])))]))
           = [i \in DOMAIN toks |-> Escaped(Decode(toks[i]))]
<1> DEFINE n == Len(toks)
           d == [i \in 1..n |-> TextOf(RenderToken(Decode(toks[i])))]
           e == [i \in 1..n |-> Escaped(Decode(toks[i]))]
           X == [k \in 1..n |-> ShellAt("bare", <<>>, SubSeq(e, 1, k - 1))]
           Y == [k \in 1..n |-> ShellAt("bare", e[k], SubSeq(e, 1, k - 1))]
<1>1. n \in Nat /\ n >= 1 /\ DOMAIN toks = 1..n
  OBVIOUS
<1>2. \A k \in 1..n : Decode(toks[k]) \in Seq(Unit)
  <2>1. \A k \in 1..n : toks[k] \in Seq(Octets)
    OBVIOUS
  <2>2. QED  BY <2>1, DecodeIsUnits
<1>3. \A k \in 1..n : d[k] = TextOf(RenderToken(Decode(toks[k]))) /\ e[k] = Escaped(Decode(toks[k]))
  OBVIOUS
<1>4. d \in Seq(Seq(Nat)) /\ Len(d) = n
  <2>1. \A k \in 1..n : TextOf(RenderToken(Decode(toks[k]))) \in Seq(Nat)
    <3> SUFFICES ASSUME NEW k \in 1..n
                 PROVE  TextOf(RenderToken(Decode(toks[k]))) \in Seq(Nat)
      OBVIOUS
    <3>1. << >> \in Seq(Seq(Nat))
      OBVIOUS
    <3>2. RenderToken(Decode(toks[k])) \in Seq(Parts)
      BY <1>2, <3>1, TokenReads
    <3>3. QED  BY <3>2, TextIsSeq
  <2> HIDE DEF n
  <2>2. d \in [1..n -> Seq(Nat)]
    BY <2>1
  <2> HIDE DEF d
  <2>3. QED  BY <1>1, <2>2
<1>5. e \in Seq(Seq(Nat)) /\ Len(e) = n
  <2>1. \A k \in 1..n : Escaped(Decode(toks[k])) \in Seq(Nat)
    BY <1>2, EscapedIsSeq
  <2> HIDE DEF n
  <2>2. e \in [1..n -> Seq(Nat)]
    BY <2>1
  <2> HIDE DEF e
  <2>3. QED  BY <1>1, <2>2
<1> HIDE DEF d, e
<1>6. \A k \in 1..n : /\ SubSeq(e, 1, k - 1) \in Seq(Seq(Nat))
                      /\ SubSeq(e, 1, k) = Append(SubSeq(e, 1, k - 1), e[k])
                      /\ e[k] \in Seq(Nat)
  BY <1>5, OneMore
<1>7. /\ \A k \in 1..n : X[k] = ShellAt("bare", <<>>, SubSeq(e, 1, k - 1))
      /\ \A k \in 1..n : Y[k] = ShellAt("bare", e[k], SubSeq(e, 1, k - 1))
  OBVIOUS
<1>8. X \in [1..n -> ShellStates] /\ Y \in [1..n -> ShellStates]
  <2>1. \A k \in 1..n : /\ ShellAt("bare", <<>>, SubSeq(e, 1, k - 1)) \in ShellStates
                        /\ ShellAt("bare", e[k], SubSeq(e, 1, k - 1)) \in ShellStates
    <3>1. << >> \in Seq(Nat)
      OBVIOUS
    <3>2. QED  BY <1>6, <3>1, StIs
  <2>2. QED  BY <2>1
<1> HIDE DEF X, Y
<1>9. ASSUME NEW k \in 1..n
      PROVE  Leads(ShellStates, ShellStep, X[k], d[k], Y[k])
  <2>1. ShellReads(ShellAt("bare", <<>>, SubSeq(e, 1, k - 1)), TextOf(RenderToken(Decode(toks[k]))),
               ShellAt("bare", Escaped(Decode(toks[k])), SubSeq(e, 1, k - 1)))
    BY <1>2, <1>6, TokenReads
  <2>2. QED  BY <1>3, <1>7, <2>1 DEF ShellReads
<1>10. ASSUME NEW k \in 2..n
       PROVE  Leads(ShellStates, ShellStep, Y[k - 1], <<Space>>, X[k])
  <2> DEFINE j == k - 1
  <2>1. j \in 1..n /\ k \in 1..n /\ k - 1 = j
    BY <1>1
  <2> HIDE DEF j
  <2>2. ShellReads(ShellAt("bare", e[j], SubSeq(e, 1, j - 1)), <<Space>>,
               ShellAt("bare", <<>>, Append(SubSeq(e, 1, j - 1), e[j])))
    BY <1>6, <2>1, SpaceEnds
  <2>3. SubSeq(e, 1, j) = Append(SubSeq(e, 1, j - 1), e[j])
    BY <1>6, <2>1
  <2>4. Y[j] = ShellAt("bare", e[j], SubSeq(e, 1, j - 1))
        /\ X[k] = ShellAt("bare", <<>>, SubSeq(e, 1, j))
    BY <1>7, <2>1
  <2>5. QED  BY <2>1, <2>2, <2>3, <2>4 DEF ShellReads
<1> DEFINE line == Spaced(d)
<1>11. Leads(ShellStates, ShellStep, X[1], line, Y[n])
  <2>1. Space \in Nat
    BY DEF Space
  <2> HIDE DEF n
  <2>2. QED  BY <1>1, <1>4, <1>8, <1>9, <1>10, <2>1, SpacedLeads
<1>12. line \in Seq(Nat)
  <2>1. Space \in Nat
    BY DEF Space
  <2>2. QED  BY <1>4, <2>1, SpacedIsSeq
<1>13. X[1] = ShellAt("bare", <<>>, <<>>) /\ Y[n] = ShellAt("bare", e[n], SubSeq(e, 1, n - 1))
  <2>1. 1 \in 1..n /\ n \in 1..n /\ 1 - 1 = 0
    BY <1>1
  <2>2. SubSeq(e, 1, 0) = << >>
    BY <1>5, Beginnings
  <2>3. QED  BY <1>7, <2>1, <2>2
<1> HIDE DEF line
<1>14. ShellFrom(ShellAt("bare", <<>>, <<>>), line) = ShellAt("bare", e[n], SubSeq(e, 1, n - 1))
  BY <1>11, <1>12, <1>13, ShellGoes DEF ShellReads
<1>15. ShellWords(line) = Append(SubSeq(e, 1, n - 1), e[n])
  <2> DEFINE st == ShellAt("bare", e[n], SubSeq(e, 1, n - 1))
  <2>1. st.mode = "bare" /\ st.word = e[n] /\ st.read = SubSeq(e, 1, n - 1)
    BY DEF ShellAt
  <2> HIDE DEF st
  <2>2. ShellFrom(ShellAt("bare", <<>>, <<>>), line) = st
    BY <1>14 DEF st
  <2>3. QED  BY <2>1, <2>2 DEF ShellWords
<1>16. Append(SubSeq(e, 1, n - 1), e[n]) = e
  <2>1. n \in 1..n
    BY <1>1
  <2>2. SubSeq(e, 1, n) = Append(SubSeq(e, 1, n - 1), e[n])
    BY <1>6, <2>1
  <2>3. SubSeq(e, 1, n) = e
    BY <1>5, Beginnings
  <2>4. QED  BY <2>2, <2>3
<1>17. line = Spaced([i \in DOMAIN toks |-> TextOf(RenderToken(Decode(toks[i])))])
  BY <1>1 DEF line, d
<1>18. e = [i \in DOMAIN toks |-> Escaped(Decode(toks[i]))]
  BY <1>1 DEF e
<1>19. QED  BY <1>15, <1>16, <1>17, <1>18

LEMMA WordsAreTokens ==
  ASSUME WordsAreBytes
  PROVE  CommandTokens(path, argv) \in Seq(Seq(Octets)) /\ Len(CommandTokens(path, argv)) >= 1
<1>1. words \in Seq(Seq(Octets)) /\ Len(words) >= 1
  BY DEF WordsAreBytes
<1>2. path \in Seq(Octets)
  BY <1>1 DEF path
<1>3. argv \in Seq(Seq(Octets))
  <2>1. words # << >>
    BY <1>1
  <2>2. QED  BY <1>1, <2>1 DEF argv
<1>4. QED  BY <1>2, <1>3, TokensAre

LEMMA WordsReadAsWords == WordsAreBytes => LineReadsBack
<1> SUFFICES ASSUME WordsAreBytes PROVE LineReadsBack
  OBVIOUS
<1> DEFINE toks == CommandTokens(path, argv)
<1>1. toks \in Seq(Seq(Octets)) /\ Len(toks) >= 1
  BY WordsAreTokens
<1>2. FullCommandLine(path, argv)
        = Spaced([i \in DOMAIN toks |-> TextOf(RenderToken(Decode(toks[i])))])
  BY DEF FullCommandLine
<1> HIDE DEF toks
<1>3. ShellWords(Spaced([i \in DOMAIN toks |-> TextOf(RenderToken(Decode(toks[i])))]))
        = [i \in DOMAIN toks |-> Escaped(Decode(toks[i]))]
  BY <1>1, LineReads
<1>4. QED  BY <1>2, <1>3 DEF LineReadsBack, toks

\* Whatever a command holds, of any length: the execute: line, read by a POSIX shell,
\* is the command.  Its words are the tokens' escaped texts, one for one, and no
\* character of a token is live outside quotes.
THEOREM LinesReadBack == CallsSpec => []LineReadsBack
<1>1. CallsInit => WordsAreBytes
  BY InitWords DEF CallsInit
<1>2. QED
  BY <1>1, CallsKeepWords, WordsReadAsWords, PTL DEF CallsSpec

-----------------------------------------------------------------------------
(* The painter.                                                            *)

\* A recursion along 1..n exists.
RunsAlong(S, x, n, H) ==
  \E f \in [0..n -> S] : f[0] = x /\ \A i \in 1..n : f[i] = H[<<f[i - 1], i>>]

LEMMA Along ==
  ASSUME NEW S, NEW x \in S, NEW n \in Nat, NEW H \in [S \X (1..n) -> S]
  PROVE  RunsAlong(S, x, n, H)
<1> DEFINE Runs(f, k) == f[0] = x /\ \A i \in 1..k : f[i] = H[<<f[i - 1], i>>]
           Good == {k \in Nat : k <= n => \E f \in [0..k -> S] : Runs(f, k)}
<1>1. 0 \in Good
  <2> DEFINE f == [i \in 0..0 |-> x]
  <2>1. f \in [0..0 -> S] /\ f[0] = x /\ \A i \in 1..0 : FALSE
    OBVIOUS
  <2> HIDE DEF f
  <2>2. Runs(f, 0)
    BY <2>1
  <2>3. QED  BY <2>1, <2>2
<1>2. ASSUME NEW k \in Nat, k \in Good
      PROVE  k + 1 \in Good
  <2> SUFFICES ASSUME k + 1 <= n
               PROVE  \E f \in [0..(k + 1) -> S] : Runs(f, k + 1)
    OBVIOUS
  <2>1. k <= n /\ k + 1 \in 1..n /\ k \in 0..k
    OBVIOUS
  <2>2. PICK f \in [0..k -> S] : Runs(f, k)
    BY <1>2, <2>1
  <2> DEFINE y == H[<<f[k], k + 1>>]
             g == [i \in 0..(k + 1) |-> IF i <= k THEN f[i] ELSE y]
  <2>3. y \in S
    BY <2>1
  <2> HIDE DEF y
  <2>4. \A i \in 0..(k + 1) : i <= k => i \in 0..k
    OBVIOUS
  <2>5. g \in [0..(k + 1) -> S]
    BY <2>3, <2>4
  <2>6. \A i \in 0..k : g[i] = f[i]
    OBVIOUS
  <2>7. g[k + 1] = y
    OBVIOUS
  <2> HIDE DEF g
  <2>8. g[0] = x
    BY <2>2, <2>6
  <2>9. ASSUME NEW i \in 1..(k + 1)
        PROVE  g[i] = H[<<g[i - 1], i>>]
    <3>1. CASE i = k + 1
      <4>1. i - 1 = k
        BY <3>1
      <4>2. g[i - 1] = f[k]
        BY <2>1, <2>6, <4>1
      <4>3. QED  BY <2>7, <3>1, <4>2 DEF y
    <3>2. CASE i # k + 1
      <4>1. i \in 1..k /\ i \in 0..k /\ i - 1 \in 0..k
        BY <3>2
      <4>2. f[i] = H[<<f[i - 1], i>>]
        BY <2>2, <4>1
      <4>3. QED  BY <2>6, <4>1, <4>2
    <3>3. QED  BY <3>1, <3>2
  <2>10. Runs(g, k + 1)
    BY <2>8, <2>9
  <2>11. QED  BY <2>5, <2>10
<1> HIDE DEF Good
<1>3. n \in Good
  BY <1>1, <1>2, Induction
<1>4. QED  BY <1>3 DEF Good, RunsAlong

Painters == [out : Seq(Int), armed : BOOLEAN]

\* The parts that are put out in a colour of their own, and which.
Shines(span, i, markSpaces) ==
  span[i].mark # "plain" \/ (markSpaces /\ IsSpaceAt(span, i) /\ Notable(span, i))
ColourOf(span, i) == IF span[i].mark # "plain" THEN SgrOf(span[i].mark) ELSE SgrSpace

LEMMA PaintPartIs ==
  ASSUME NEW st, NEW span, NEW i, NEW base, NEW markSpaces
  PROVE  PaintPart(st, span, i, base, markSpaces)
           = IF Shines(span, i, markSpaces) THEN PushSpan(st, span[i].text, ColourOf(span, i))
             ELSE PushPlain(st, span[i].text, base)
BY DEF PaintPart, Shines, ColourOf

LEMMA PartHas ==
  ASSUME NEW span \in Seq(Parts), NEW i \in 1..Len(span)
  PROVE  /\ span[i] \in Parts
         /\ span[i].text \in Seq(Nat) /\ span[i].mark \in {"plain", "ours", "meta", "hidden"}
<1>1. span[i] \in Parts
  OBVIOUS
<1>2. QED  BY <1>1 DEF Parts

LEMMA ColourIs ==
  ASSUME NEW span \in Seq(Parts), NEW i \in 1..Len(span)
  PROVE  ColourOf(span, i) \in Int /\ ColourOf(span, i) < 0 /\ ColourOf(span, i) # Reset
<1>1. CASE span[i].mark = "plain"
  BY <1>1 DEF ColourOf, SgrSpace, Reset
<1>2. CASE span[i].mark # "plain"
  <2>1. span[i].mark \in {"ours", "meta", "hidden"}
    BY <1>2, PartHas
  <2>2. \A mark \in {"ours", "meta", "hidden"} :
          SgrOf(mark) \in Int /\ SgrOf(mark) < 0 /\ SgrOf(mark) # Reset
    BY DEF SgrOf, SgrOurs, SgrMeta, SgrHidden, Reset
  <2>3. QED  BY <1>2, <2>1, <2>2 DEF ColourOf
<1>3. QED  BY <1>1, <1>2

LEMMA NatSeqIsInt == ASSUME NEW text \in Seq(Nat) PROVE text \in Seq(Int)
<1>1. \A j \in 1..Len(text) : text[j] \in Nat
  OBVIOUS
<1>2. \A j \in 1..Len(text) : text[j] \in Int
  BY <1>1
<1>3. QED  BY <1>2, SeqOfThose

Before(st) == st.out \o (IF st.armed THEN <<Reset>> ELSE <<>>)

LEMMA PushesPaint ==
  ASSUME NEW st \in Painters, NEW text \in Seq(Int), NEW c \in Int
  PROVE  /\ PushSpan(st, text, c) \in Painters
         /\ PushPlain(st, text, c) \in Painters
<1>1. st.out \in Seq(Int) /\ st.armed \in BOOLEAN
  BY DEF Painters
<1> DEFINE a == IF st.armed THEN <<Reset>> ELSE <<>>
           b == IF c # None /\ ~st.armed THEN <<c>> ELSE <<>>
           r == <<Reset>>
           d == <<c>>
           o == st.out
<1>2. r \in Seq(Int) /\ d \in Seq(Int) /\ a \in Seq(Int) /\ b \in Seq(Int)
  BY DEF Reset
<1>3. PushSpan(st, text, c) = [out |-> o \o a \o d \o text \o r, armed |-> FALSE]
  BY DEF PushSpan
<1>4. PushPlain(st, text, c) = [out |-> o \o b \o text, armed |-> c # None]
  BY DEF PushPlain
<1> HIDE DEF a, b, r, d, o
<1>5. o \in Seq(Int)
  BY <1>1 DEF o
<1>6. o \o a \in Seq(Int) /\ o \o b \in Seq(Int)
  BY <1>2, <1>5
<1>7. o \o a \o d \in Seq(Int) /\ o \o b \o text \in Seq(Int)
  BY <1>2, <1>6
<1>8. o \o a \o d \o text \in Seq(Int)
  BY <1>7
<1>9. o \o a \o d \o text \o r \in Seq(Int)
  BY <1>2, <1>8
<1>10. (c # None) \in BOOLEAN
  OBVIOUS
<1> DEFINE x == o \o a \o d \o text \o r
           y == o \o b \o text
<1> HIDE DEF x, y
<1>11. x \in Seq(Int) /\ y \in Seq(Int)
  BY <1>7, <1>9 DEF x, y
<1>12. [out |-> x, armed |-> FALSE] \in Painters /\ [out |-> y, armed |-> c # None] \in Painters
  BY <1>10, <1>11 DEF Painters
<1>13. QED  BY <1>3, <1>4, <1>12 DEF x, y

PaintStep(f, span, i, base, markSpaces) ==
  IF i = 0 THEN [out |-> <<>>, armed |-> FALSE]
  ELSE PaintPart(f[i - 1], span, i, base, markSpaces)
Paints(f, span, base, markSpaces) ==
  f = [i \in 0..Len(span) |-> PaintStep(f, span, i, base, markSpaces)]

LEMMA PaintUnfolds ==
  ASSUME NEW span, NEW base, NEW markSpaces
  PROVE  Paint(span, base, markSpaces)
           = Before((CHOOSE f : Paints(f, span, base, markSpaces))[Len(span)])
BY DEF Paint, Paints, PaintStep, Before

LEMMA PaintRuns ==
  ASSUME NEW span \in Seq(Parts), NEW base \in Int, NEW markSpaces \in BOOLEAN
  PROVE  \E f \in [0..Len(span) -> Painters] :
           /\ f[0] = [out |-> <<>>, armed |-> FALSE]
           /\ \A i \in 1..Len(span) : f[i] = PaintPart(f[i - 1], span, i, base, markSpaces)
           /\ Paint(span, base, markSpaces) = Before(f[Len(span)])
<1> DEFINE n == Len(span)
           x == [out |-> <<>>, armed |-> FALSE]
           H == [p \in Painters \X (1..n) |-> PaintPart(p[1], span, p[2], base, markSpaces)]
<1>1. n \in Nat
  OBVIOUS
<1>2. x \in Painters
  <2>1. << >> \in Seq(Int) /\ FALSE \in BOOLEAN
    OBVIOUS
  <2>2. QED  BY <2>1 DEF Painters
<1>3. \A st \in Painters, i \in 1..n : PaintPart(st, span, i, base, markSpaces) \in Painters
  <2> SUFFICES ASSUME NEW st \in Painters, NEW i \in 1..n
               PROVE  PaintPart(st, span, i, base, markSpaces) \in Painters
    OBVIOUS
  <2>1. span[i].text \in Seq(Int) /\ ColourOf(span, i) \in Int
    BY PartHas, NatSeqIsInt, ColourIs
  <2>2. /\ PushSpan(st, span[i].text, ColourOf(span, i)) \in Painters
        /\ PushPlain(st, span[i].text, base) \in Painters
    BY <2>1, PushesPaint
  <2>3. QED  BY <2>2, PaintPartIs
<1>4. H \in [Painters \X (1..n) -> Painters]
  <2>1. \A p \in Painters \X (1..n) : PaintPart(p[1], span, p[2], base, markSpaces) \in Painters
    BY <1>3
  <2>2. QED  BY <2>1
<1>5. \A st \in Painters, i \in 1..n : H[<<st, i>>] = PaintPart(st, span, i, base, markSpaces)
  OBVIOUS
<1> HIDE DEF H, x, n
<1>6. PICK f \in [0..n -> Painters] : f[0] = x /\ \A i \in 1..n : f[i] = H[<<f[i - 1], i>>]
  <2>1. RunsAlong(Painters, x, n, H)
    BY <1>1, <1>2, <1>4, Along
  <2>2. QED  BY <2>1 DEF RunsAlong
<1>7. \A i \in 1..n : f[i] = PaintPart(f[i - 1], span, i, base, markSpaces)
  <2> SUFFICES ASSUME NEW i \in 1..n
               PROVE  f[i] = PaintPart(f[i - 1], span, i, base, markSpaces)
    OBVIOUS
  <2>1. i - 1 \in 0..n
    BY <1>1
  <2>2. f[i - 1] \in Painters
    BY <2>1
  <2>3. QED  BY <1>5, <1>6, <2>2
<1>8. Paints(f, span, base, markSpaces)
  <2>1. \A i \in 0..n : f[i] = PaintStep(f, span, i, base, markSpaces)
    <3>1. \A i \in 0..n : i = 0 \/ (i \in 1..n /\ i # 0)
      BY <1>1
    <3>2. QED  BY <1>6, <1>7, <3>1 DEF PaintStep, x
  <2>2. f = [i \in 0..n |-> f[i]]
    OBVIOUS
  <2>3. f = [i \in 0..n |-> PaintStep(f, span, i, base, markSpaces)]
    BY <2>1, <2>2
  <2>4. QED  BY <2>3 DEF Paints, n
<1> DEFINE g == CHOOSE h : Paints(h, span, base, markSpaces)
<1>9. Paints(g, span, base, markSpaces) /\ Paint(span, base, markSpaces) = Before(g[n])
  BY <1>8, PaintUnfolds DEF n
<1> HIDE DEF g
<1>10. \A i \in 0..n : g[i] = PaintStep(g, span, i, base, markSpaces)
  BY <1>9 DEF Paints, n
<1>11. g[0] = f[0]
  <2>1. 0 \in 0..n
    BY <1>1
  <2>2. QED  BY <1>6, <1>10, <2>1 DEF PaintStep, x
<1>12. \A i \in 1..n : g[i - 1] = f[i - 1] => g[i] = f[i]
  <2>1. \A i \in 1..n : i \in 0..n /\ i # 0
    BY <1>1
  <2>2. QED  BY <1>7, <1>10, <2>1 DEF PaintStep
<1>13. g[n] = f[n]
  BY <1>1, <1>11, <1>12, StepByStep
<1>14. QED  BY <1>6, <1>7, <1>9, <1>13 DEF n, x

\* Reading what the painter puts out: bare[i] is the reader's state after i parts
\* with no colour in effect, lit[i] the one with the base in effect.
Worn(S, step, x, c, text, z) ==
  \E v \in S, w \in S : /\ Leads(S, step, x, <<c>>, v)
                        /\ Leads(S, step, v, text, w)
                        /\ Leads(S, step, w, <<Reset>>, z)

Crosses(S, step, span, i, base, markSpaces, bare, lit) ==
  IF Shines(span, i, markSpaces)
  THEN Worn(S, step, bare[i - 1], ColourOf(span, i), span[i].text, bare[i])
  ELSE IF base = None THEN Leads(S, step, bare[i - 1], span[i].text, bare[i])
  ELSE /\ Leads(S, step, bare[i - 1], <<base>>, lit[i - 1])
       /\ Leads(S, step, lit[i - 1], span[i].text, lit[i])

Stood(S, step, x, st, base, bare, lit) ==
  /\ st.armed => base # None
  /\ Leads(S, step, x, st.out, IF st.armed THEN lit ELSE bare)

LEMMA Faded ==
  ASSUME NEW S, NEW step, NEW x, NEW st \in Painters, NEW base, NEW bare, NEW lit,
         Stood(S, step, x, st, base, bare, lit), Leads(S, step, lit, <<Reset>>, bare)
  PROVE  Before(st) \in Seq(Int) /\ Leads(S, step, x, Before(st), bare)
<1>1. st.out \in Seq(Int) /\ st.armed \in BOOLEAN
  BY DEF Painters
<1> DEFINE r == <<Reset>>
           o == st.out
<1>2. r \in Seq(Int)
  BY DEF Reset
<1>3. o \in Seq(Int)
  BY <1>1
<1> HIDE DEF r, o
<1>4. CASE st.armed
  <2>1. Before(st) = o \o r
    BY <1>4 DEF Before, o, r
  <2>2. Leads(S, step, x, o, lit)
    BY <1>4 DEF Stood, o
  <2>3. Leads(S, step, lit, r, bare)
    BY DEF r
  <2>4. Leads(S, step, x, o \o r, bare)
    BY <1>2, <1>3, <2>2, <2>3, LeadsBoth
  <2>5. o \o r \in Seq(Int)
    BY <1>2, <1>3
  <2>6. QED  BY <2>1, <2>4, <2>5
<1>5. CASE ~st.armed
  <2>1. Before(st) = o \o <<>> /\ o \o <<>> = o
    BY <1>3, <1>5 DEF Before, o
  <2>2. Leads(S, step, x, o, bare)
    BY <1>5 DEF Stood, o
  <2>3. QED  BY <1>3, <2>1, <2>2
<1>6. QED  BY <1>4, <1>5

LEMMA OnePart ==
  ASSUME NEW S, NEW step, NEW x, NEW st \in Painters, NEW span \in Seq(Parts),
         NEW base \in Int, NEW markSpaces \in BOOLEAN, NEW bare, NEW lit,
         NEW i \in 1..Len(span), Crosses(S, step, span, i, base, markSpaces, bare, lit),
         Stood(S, step, x, st, base, bare[i - 1], lit[i - 1]),
         Leads(S, step, lit[i - 1], <<Reset>>, bare[i - 1])
  PROVE  Stood(S, step, x, PaintPart(st, span, i, base, markSpaces), base, bare[i], lit[i])
<1> DEFINE text == span[i].text
           c == ColourOf(span, i)
           r == <<Reset>>
           d == <<c>>
           e == <<base>>
           o == st.out
           b == Before(st)
<1>1. text \in Seq(Int) /\ c \in Int
  BY PartHas, NatSeqIsInt, ColourIs
<1>2. r \in Seq(Int) /\ d \in Seq(Int) /\ e \in Seq(Int)
  BY <1>1 DEF Reset
<1>3. o \in Seq(Int) /\ st.armed \in BOOLEAN
  BY DEF Painters
<1>4. b \in Seq(Int) /\ Leads(S, step, x, b, bare[i - 1])
  BY Faded
<1>5. CASE Shines(span, i, markSpaces)
  <2>1. PaintPart(st, span, i, base, markSpaces)
          = [out |-> b \o d \o text \o r, armed |-> FALSE]
    BY <1>5, PaintPartIs DEF PushSpan, Before
  <2>2. PICK v \in S, w \in S : /\ Leads(S, step, bare[i - 1], d, v)
                                /\ Leads(S, step, v, text, w)
                                /\ Leads(S, step, w, r, bare[i])
    BY <1>5 DEF Crosses, Worn
  <2> HIDE DEF b, d, text, r
  <2>3. b \o d \in Seq(Int) /\ Leads(S, step, x, b \o d, v)
    <3>1. b \o d \in Seq(Int)
      BY <1>2, <1>4
    <3>2. Leads(S, step, x, b \o d, v)
      BY <1>2, <1>4, <2>2, LeadsBoth
    <3>3. QED  BY <3>1, <3>2
  <2>4. b \o d \o text \in Seq(Int) /\ Leads(S, step, x, b \o d \o text, w)
    <3>1. b \o d \o text \in Seq(Int)
      BY <1>1, <2>3
    <3>2. Leads(S, step, x, b \o d \o text, w)
      BY <1>1, <2>2, <2>3, LeadsBoth
    <3>3. QED  BY <3>1, <3>2
  <2>5. Leads(S, step, x, b \o d \o text \o r, bare[i])
    BY <1>2, <2>2, <2>4, LeadsBoth
  <2> DEFINE out == b \o d \o text \o r
  <2> HIDE DEF out
  <2>6. Stood(S, step, x, [out |-> out, armed |-> FALSE], base, bare[i], lit[i])
    BY <2>5 DEF Stood, out
  <2>7. QED  BY <2>1, <2>6 DEF out
<1>6. CASE ~Shines(span, i, markSpaces) /\ base = None
  <2>1. PaintPart(st, span, i, base, markSpaces) = PushPlain(st, text, base)
    BY <1>6, PaintPartIs
  <2>2. ~st.armed /\ Leads(S, step, x, o, bare[i - 1])
    BY <1>6 DEF Stood
  <2>3. PushPlain(st, text, base) = [out |-> o \o <<>> \o text, armed |-> FALSE]
    BY <1>6 DEF PushPlain
  <2>4. Leads(S, step, bare[i - 1], text, bare[i])
    BY <1>6 DEF Crosses
  <2> HIDE DEF text, o
  <2>5. o \o <<>> = o
    BY <1>3
  <2>6. Leads(S, step, x, o \o text, bare[i])
    BY <1>1, <1>3, <2>2, <2>4, LeadsBoth
  <2> DEFINE out == o \o text
  <2> HIDE DEF out
  <2>7. Stood(S, step, x, [out |-> out, armed |-> FALSE], base, bare[i], lit[i])
    BY <2>6 DEF Stood, out
  <2>8. QED  BY <2>1, <2>3, <2>5, <2>7 DEF out
<1>7. CASE ~Shines(span, i, markSpaces) /\ base # None
  <2>1. PaintPart(st, span, i, base, markSpaces) = PushPlain(st, text, base)
    BY <1>7, PaintPartIs
  <2>2. /\ Leads(S, step, bare[i - 1], e, lit[i - 1])
        /\ Leads(S, step, lit[i - 1], text, lit[i])
    BY <1>7 DEF Crosses
  <2> DEFINE f == o \o (IF ~st.armed THEN <<base>> ELSE <<>>)
  <2>3. PushPlain(st, text, base) = [out |-> f \o text, armed |-> TRUE]
    BY <1>7 DEF PushPlain
  <2>4. f \in Seq(Int) /\ Leads(S, step, x, f, lit[i - 1])
    <3>1. CASE st.armed
      <4>1. Leads(S, step, x, o, lit[i - 1])
        BY <3>1 DEF Stood
      <4>2. f = o \o <<>>
        BY <3>1
      <4> HIDE DEF o, f
      <4>3. o \o <<>> = o
        BY <1>3
      <4>4. QED  BY <1>3, <4>1, <4>2, <4>3
    <3>2. CASE ~st.armed
      <4>1. Leads(S, step, x, o, bare[i - 1])
        BY <3>2 DEF Stood
      <4>2. f = o \o e
        BY <3>2
      <4> HIDE DEF o, f, e
      <4>3. o \o e \in Seq(Int)
        BY <1>2, <1>3
      <4>4. Leads(S, step, x, o \o e, lit[i - 1])
        BY <1>2, <1>3, <2>2, <4>1, LeadsBoth
      <4>5. QED  BY <4>2, <4>3, <4>4
    <3>3. QED  BY <1>3, <3>1, <3>2
  <2> HIDE DEF text, o, f
  <2>5. Leads(S, step, x, f \o text, lit[i])
    BY <1>1, <2>2, <2>4, LeadsBoth
  <2> DEFINE out == f \o text
  <2> HIDE DEF out
  <2>6. Stood(S, step, x, [out |-> out, armed |-> TRUE], base, bare[i], lit[i])
    BY <1>7, <2>5 DEF Stood, out
  <2>7. QED  BY <2>1, <2>3, <2>6 DEF out
<1>8. QED  BY <1>5, <1>6, <1>7

\* The painting of a span leads from no colour to no colour.
LEMMA PaintLeads ==
  ASSUME NEW S, NEW step, NEW span \in Seq(Parts), NEW base \in Int, NEW markSpaces \in BOOLEAN,
         NEW bare \in [0..Len(span) -> S], NEW lit \in [0..Len(span) -> S],
         \A i \in 1..Len(span) : Crosses(S, step, span, i, base, markSpaces, bare, lit),
         \A i \in 0..Len(span) : Leads(S, step, lit[i], <<Reset>>, bare[i])
  PROVE  /\ Paint(span, base, markSpaces) \in Seq(Int)
         /\ Leads(S, step, bare[0], Paint(span, base, markSpaces), bare[Len(span)])
<1> DEFINE n == Len(span)
<1>1. PICK f \in [0..n -> Painters] :
         /\ f[0] = [out |-> <<>>, armed |-> FALSE]
         /\ \A i \in 1..n : f[i] = PaintPart(f[i - 1], span, i, base, markSpaces)
         /\ Paint(span, base, markSpaces) = Before(f[n])
  BY PaintRuns
<1>2. n \in Nat
  OBVIOUS
<1> DEFINE Good == {k \in Nat : k \in 0..n =>
                      Stood(S, step, bare[0], f[k], base, bare[k], lit[k])}
<1>3. 0 \in Good
  <2>1. f[0].out = << >> /\ f[0].armed = FALSE
    BY <1>1
  <2>2. bare[0] \in S
    <3>1. 0 \in 0..n
      BY <1>2
    <3>2. QED  BY <3>1
  <2>3. Leads(S, step, bare[0], <<>>, bare[0])
    BY <2>2, LeadsNone
  <2>4. Stood(S, step, bare[0], f[0], base, bare[0], lit[0])
    BY <2>1, <2>3 DEF Stood
  <2>5. QED  BY <2>4
<1>4. ASSUME NEW k \in Nat, k \in Good
      PROVE  k + 1 \in Good
  <2> SUFFICES ASSUME k + 1 \in 0..n
               PROVE  Stood(S, step, bare[0], f[k + 1], base, bare[k + 1], lit[k + 1])
    OBVIOUS
  <2> DEFINE j == k + 1
  <2>1. k \in 0..n /\ j \in 1..n /\ j - 1 = k
    BY <1>2
  <2> HIDE DEF j
  <2>2. Stood(S, step, bare[0], f[k], base, bare[k], lit[k])
    BY <1>4, <2>1
  <2>3. f[k] \in Painters
    BY <2>1
  <2>4. /\ Crosses(S, step, span, j, base, markSpaces, bare, lit)
        /\ Leads(S, step, lit[k], <<Reset>>, bare[k])
    BY <2>1
  <2>5. Stood(S, step, bare[0], PaintPart(f[k], span, j, base, markSpaces), base, bare[j], lit[j])
    BY <2>1, <2>2, <2>3, <2>4, OnePart
  <2>6. f[j] = PaintPart(f[k], span, j, base, markSpaces)
    BY <1>1, <2>1
  <2>7. QED  BY <2>5, <2>6 DEF j
<1> HIDE DEF Good
<1>5. \A k \in Nat : k \in Good
  BY <1>3, <1>4, Induction
<1>6. n \in 0..n
  BY <1>2
<1>7. Stood(S, step, bare[0], f[n], base, bare[n], lit[n])
  BY <1>2, <1>5, <1>6 DEF Good
<1>8. f[n] \in Painters /\ Leads(S, step, lit[n], <<Reset>>, bare[n])
  BY <1>6
<1>9. Before(f[n]) \in Seq(Int) /\ Leads(S, step, bare[0], Before(f[n]), bare[n])
  BY <1>7, <1>8, Faded
<1>10. QED  BY <1>1, <1>9

-----------------------------------------------------------------------------
(* A drawing, stripped of its colours.                                     *)

StripStep == [p \in Seq(Nat) \X Int |-> Keep(p[1], p[2])]
Strips(x, drawing, y) == Leads(Seq(Nat), StripStep, x, drawing, y)

\* The bases a palette has: none, or a colour.
IsBase(base) == base \in Int /\ (base = None \/ (base < 0 /\ base # Reset))

LEMMA PalettesAre ==
  \A p \in Palettes : /\ IsBase(p.head) /\ IsBase(p.middle) /\ IsBase(p.base)
                      /\ IsBase(p.flag) /\ IsBase(p.value)
BY DEF Palettes, Roles, Dim, IsBase, None, Reset

LEMMA ColourIsStripped ==
  ASSUME NEW x \in Seq(Nat), NEW c \in Int, c < 0
  PROVE  Strips(x, <<c>>, x)
<1>1. StripStep[<<x, c>>] = Keep(x, c)
  BY DEF StripStep
<1>2. Keep(x, c) = x
  BY DEF Keep
<1>3. Leads(Seq(Nat), StripStep, x, <<c>>, StripStep[<<x, c>>])
  BY <1>1, <1>2, LeadsOne
<1>4. QED  BY <1>1, <1>2, <1>3 DEF Strips

LEMMA TextIsLeft ==
  ASSUME NEW x \in Seq(Nat), NEW text \in Seq(Nat)
  PROVE  Strips(x, text, x \o text)
<1> DEFINE m == [c \in Nat |-> c]
           st == [u \in Seq(Nat) |-> u]
<1>1. m \in [Nat -> Nat] /\ \A c \in Nat : m[c] = c
  OBVIOUS
<1>2. st \in [Seq(Nat) -> Seq(Nat)] /\ \A u \in Seq(Nat) : st[u] = u
  OBVIOUS
<1> HIDE DEF m, st
<1>3. \A u \in Seq(Nat), c \in Nat : StripStep[<<st[u], c>>] = st[Append(u, m[c])]
  <2> SUFFICES ASSUME NEW u \in Seq(Nat), NEW c \in Nat
               PROVE  StripStep[<<st[u], c>>] = st[Append(u, m[c])]
    OBVIOUS
  <2>1. Append(u, c) \in Seq(Nat) /\ ~(c < 0) /\ c \in Int
    OBVIOUS
  <2>2. StripStep[<<u, c>>] = Keep(u, c)
    BY <2>1 DEF StripStep
  <2>3. Keep(u, c) = Append(u, c)
    BY <2>1 DEF Keep
  <2>4. QED  BY <1>1, <1>2, <2>1, <2>2, <2>3
<1>4. Leads(Seq(Nat), StripStep, st[x], text, st[x \o Mapped(m, text)])
  BY <1>1, <1>2, <1>3, LeadsKeeping
<1>5. Mapped(m, text) = text
  <2>1. \A j \in 1..Len(text) : text[j] \in Nat
    OBVIOUS
  <2>2. \A j \in 1..Len(text) : m[text[j]] = text[j]
    BY <1>1, <2>1
  <2>3. text = [j \in 1..Len(text) |-> text[j]]
    OBVIOUS
  <2>4. Mapped(m, text) = [j \in 1..Len(text) |-> text[j]]
    BY <2>2 DEF Mapped
  <2>5. QED  BY <2>3, <2>4
<1>6. st[x] = x /\ st[x \o text] = x \o text
  <2>1. x \o text \in Seq(Nat)
    OBVIOUS
  <2>2. QED  BY <1>2, <2>1
<1>7. QED  BY <1>4, <1>5, <1>6 DEF Strips

\* What has been read of the texts of a span after each of its parts.
LEMMA TextPiles ==
  ASSUME NEW span \in Seq(Parts)
  PROVE  \E P \in [0..Len(span) -> Seq(Nat)] :
           /\ P[0] = <<>> /\ P[Len(span)] = TextOf(span)
           /\ \A k \in 1..Len(span) : P[k] = P[k - 1] \o span[k].text
<1> DEFINE x == Texts(span)
<1>1. /\ x \in Seq(Seq(Nat)) /\ Len(x) = Len(span) /\ TextOf(span) = FlattenSeq(x)
      /\ \A k \in 1..Len(span) : x[k] = span[k].text
  BY TextsIs
<1> HIDE DEF x
<1>2. PICK P : Piles(P, Nat, x) /\ P[Len(x)] = FlattenSeq(x)
  BY <1>1, FlattenPiles
<1>3. /\ P \in [0..Len(span) -> Seq(Nat)] /\ P[0] = <<>>
      /\ \A k \in 1..Len(span) : P[k] = P[k - 1] \o x[k]
  BY <1>1, <1>2 DEF Piles
<1>4. \A k \in 1..Len(span) : P[k] = P[k - 1] \o span[k].text
  BY <1>1, <1>3
<1>5. QED  BY <1>1, <1>2, <1>3, <1>4

LEMMA NatRegroup ==
  \A a, b, c \in Seq(Nat) : (a \o b) \o c = a \o (b \o c)
<1> DEFINE N == Nat
<1> SUFFICES ASSUME NEW a \in Seq(N), NEW b \in Seq(N), NEW c \in Seq(N)
             PROVE  (a \o b) \o c = a \o (b \o c)
  OBVIOUS
<1> HIDE DEF N
<1>1. Groups(a, b, c)
  BY Regroup
<1>2. QED  BY <1>1 DEF Groups

LEMMA PaintStrips ==
  ASSUME NEW span \in Seq(Parts), NEW base, IsBase(base), NEW markSpaces \in BOOLEAN,
         NEW x \in Seq(Nat)
  PROVE  /\ Paint(span, base, markSpaces) \in Seq(Int)
         /\ Strips(x, Paint(span, base, markSpaces), x \o TextOf(span))
<1> DEFINE n == Len(span)
           S == Seq(Nat)
<1>1. PICK P \in [0..n -> Seq(Nat)] :
         /\ P[0] = <<>> /\ P[n] = TextOf(span)
         /\ \A k \in 1..n : P[k] = P[k - 1] \o span[k].text
  BY TextPiles
<1>2. n \in Nat
  OBVIOUS
<1> DEFINE bare == [k \in 0..n |-> x \o P[k]]
<1>3. bare \in [0..n -> S]
  <2>1. \A k \in 0..n : P[k] \in Seq(Nat)
    BY <1>1
  <2>2. \A k \in 0..n : x \o P[k] \in Seq(Nat)
    BY <2>1
  <2>3. QED  BY <2>2
<1>4. \A k \in 0..n : bare[k] = x \o P[k]
  OBVIOUS
<1> HIDE DEF bare, S
<1>5. ASSUME NEW i \in 0..n
      PROVE  Leads(S, StripStep, bare[i], <<Reset>>, bare[i])
  <2>1. bare[i] \in Seq(Nat)
    BY <1>3 DEF S
  <2>2. Reset \in Int /\ Reset < 0
    BY DEF Reset
  <2>3. Strips(bare[i], <<Reset>>, bare[i])
    BY <2>1, <2>2, ColourIsStripped
  <2>4. QED  BY <2>3 DEF Strips, S
<1>6. ASSUME NEW i \in 1..n
      PROVE  Crosses(S, StripStep, span, i, base, markSpaces, bare, bare)
  <2>1. i \in 0..n /\ i - 1 \in 0..n
    BY <1>2
  <2>2. bare[i - 1] \in S /\ bare[i] \in S
    BY <1>3, <2>1
  <2>3. span[i].text \in Seq(Nat)
    BY PartHas
  <2>4. P[i] = P[i - 1] \o span[i].text /\ P[i - 1] \in Seq(Nat)
    BY <1>1, <2>1
  <2>5. bare[i] = bare[i - 1] \o span[i].text
    <3>1. bare[i] = x \o (P[i - 1] \o span[i].text) /\ bare[i - 1] = x \o P[i - 1]
      BY <1>4, <2>1, <2>4
    <3> DEFINE p == P[i - 1]
               w == span[i].text
    <3> HIDE DEF p, w
    <3>2. x \in Seq(Nat) /\ p \in Seq(Nat) /\ w \in Seq(Nat)
      BY <2>3, <2>4 DEF p, w
    <3>3. (x \o p) \o w = x \o (p \o w)
      BY <3>2, NatRegroup
    <3>4. QED  BY <3>1, <3>3 DEF p, w
  <2>6. Leads(S, StripStep, bare[i - 1], span[i].text, bare[i])
    BY <2>2, <2>3, <2>5, TextIsLeft DEF Strips, S
  <2>7. CASE Shines(span, i, markSpaces)
    <3>1. ColourOf(span, i) \in Int /\ ColourOf(span, i) < 0
      BY ColourIs
    <3>2. Leads(S, StripStep, bare[i - 1], <<ColourOf(span, i)>>, bare[i - 1])
      BY <2>2, <3>1, ColourIsStripped DEF Strips, S
    <3>3. Leads(S, StripStep, bare[i], <<Reset>>, bare[i])
      BY <1>5, <2>1
    <3>4. Worn(S, StripStep, bare[i - 1], ColourOf(span, i), span[i].text, bare[i])
      BY <2>2, <2>6, <3>2, <3>3 DEF Worn
    <3>5. QED  BY <2>7, <3>4 DEF Crosses
  <2>8. CASE ~Shines(span, i, markSpaces) /\ base = None
    BY <2>6, <2>8 DEF Crosses
  <2>9. CASE ~Shines(span, i, markSpaces) /\ base # None
    <3>1. base \in Int /\ base < 0
      BY <2>9 DEF IsBase
    <3>2. Leads(S, StripStep, bare[i - 1], <<base>>, bare[i - 1])
      BY <2>2, <3>1, ColourIsStripped DEF Strips, S
    <3>3. QED  BY <2>6, <2>9, <3>2 DEF Crosses
  <2>10. QED  BY <2>7, <2>8, <2>9
<1>7. base \in Int
  BY DEF IsBase
<1>8. /\ Paint(span, base, markSpaces) \in Seq(Int)
      /\ Leads(S, StripStep, bare[0], Paint(span, base, markSpaces), bare[n])
  BY <1>3, <1>5, <1>6, <1>7, PaintLeads
<1>9. bare[0] = x /\ bare[n] = x \o TextOf(span)
  <2>1. 0 \in 0..n /\ n \in 0..n
    BY <1>2
  <2>2. bare[0] = x
    <3>1. bare[0] = x \o P[0]
      BY <1>4, <2>1
    <3>2. x \o <<>> = x
      OBVIOUS
    <3>3. QED  BY <1>1, <3>1, <3>2
  <2>3. QED  BY <1>1, <1>4, <2>1, <2>2
<1>10. QED  BY <1>8, <1>9 DEF Strips, S

-----------------------------------------------------------------------------
(* The spans of a program's token.                                         *)

LEMMA SplitAt ==
  ASSUME NEW A, NEW s \in Seq(A), NEW k \in 0..Len(s)
  PROVE  /\ SubSeq(s, 1, k) \in Seq(A) /\ Len(SubSeq(s, 1, k)) = k
         /\ \A i \in 1..k : SubSeq(s, 1, k)[i] = s[i]
         /\ After(s, k) \in Seq(A) /\ Len(After(s, k)) = Len(s) - k
         /\ \A i \in 1..(Len(s) - k) : After(s, k)[i] = s[k + i]
         /\ s = SubSeq(s, 1, k) \o After(s, k)
<1> DEFINE a == SubSeq(s, 1, k)
           b == After(s, k)
           n == Len(s)
<1>1. n \in Nat /\ k \in Nat /\ k <= n
  OBVIOUS
<1>2. a \in Seq(A)
  BY Beginnings
<1>3. Len(a) = k
  BY <1>1
<1>4. \A i \in 1..k : a[i] = s[i]
  BY <1>1
<1>5. b \in Seq(A)
  <2>1. \A i \in (k + 1)..n : s[i] \in A
    BY <1>1
  <2>2. QED  BY <1>1, <2>1, SubSeqProperties DEF After
<1>6. Len(b) = n - k
  BY <1>1 DEF After
<1>7. \A i \in 1..(n - k) : b[i] = s[k + i]
  BY <1>1 DEF After
<1> HIDE DEF a, b
<1>8. a \o b \in Seq(A) /\ Joins(a \o b, a, b)
  BY <1>2, <1>5, Joined
<1>9. Len(a \o b) = n
  BY <1>1, <1>3, <1>6, <1>8 DEF Joins
<1>10. \A i \in 1..n : s[i] = (a \o b)[i]
  <2> SUFFICES ASSUME NEW i \in 1..n
               PROVE  s[i] = (a \o b)[i]
    OBVIOUS
  <2>1. CASE i <= k
    <3>1. i \in 1..k
      BY <1>1, <2>1
    <3>2. (a \o b)[i] = a[i]
      BY <1>3, <1>8, <3>1 DEF Joins
    <3>3. QED  BY <1>4, <3>1, <3>2
  <2>2. CASE ~(i <= k)
    <3> DEFINE j == i - k
    <3>1. j \in 1..(n - k) /\ k + j = i
      BY <1>1, <2>2
    <3> HIDE DEF j
    <3>2. (a \o b)[k + j] = b[j]
      BY <1>3, <1>6, <1>8, <3>1 DEF Joins
    <3>3. QED  BY <1>7, <3>1, <3>2
  <2>3. QED  BY <2>1, <2>2
<1>11. s = a \o b
  BY <1>8, <1>9, <1>10, SeqEqual
<1>12. QED  BY <1>2, <1>3, <1>4, <1>5, <1>6, <1>7, <1>11 DEF a, b

LEMMA GreatestIs ==
  ASSUME NEW n \in Nat, NEW T, T \subseteq 1..n, T # {}
  PROVE  Max(T) \in T /\ \A k \in T : k <= Max(T)
<1> DEFINE U == {n - k : k \in T}
<1>1. \A k \in T : k \in Nat /\ n - k \in Nat /\ n - k \in U
  OBVIOUS
<1>2. U \subseteq Nat /\ U # {}
  BY <1>1
<1>3. PICK u \in U : \A v \in U : u <= v
  BY <1>2, Least
<1>4. PICK g \in T : u = n - g
  OBVIOUS
<1> HIDE DEF U
<1>5. \A k \in T : n - g <= n - k
  BY <1>1, <1>3, <1>4
<1>6. \A k \in T : g >= k
  BY <1>1, <1>4, <1>5
<1>7. \E x \in T : \A y \in T : x >= y
  BY <1>4, <1>6
<1> DEFINE m == CHOOSE x \in T : \A y \in T : x >= y
<1>8. m \in T /\ \A y \in T : m >= y
  BY <1>7
<1>9. Max(T) = m
  BY DEF Max
<1> HIDE DEF m
<1>10. \A k \in T : k <= m
  BY <1>1, <1>8
<1>11. QED  BY <1>8, <1>9, <1>10

LEMMA SmallestIs ==
  ASSUME NEW T, T \subseteq Nat, T # {}
  PROVE  Min(T) \in T /\ \A k \in T : Min(T) <= k
<1>1. \E n \in T : \A m \in T : n <= m
  BY Least
<1>2. QED  BY <1>1 DEF Min

\* Where the directory ends and where its first segment does.
CutOf(r) == IF SlashesOf(r) = {} THEN 0 ELSE Max(SlashesOf(r))
HeadOf(r, palette) == IF palette.head = palette.middle THEN 0
                      ELSE HeadLength(SubSeq(r, 1, CutOf(r)))

LEMMA SlashesAre ==
  ASSUME NEW r \in Seq(Parts)
  PROVE  SlashesOf(r) = {i \in 1..Len(r) : IsPlain(r[i], Slash)} /\ SlashesOf(r) \subseteq 1..Len(r)
<1>1. DOMAIN r = 1..Len(r)
  OBVIOUS
<1>2. QED  BY <1>1 DEF SlashesOf

LEMMA CutIs ==
  ASSUME NEW r \in Seq(Parts)
  PROVE  CutOf(r) \in 0..Len(r) /\ \A k \in SlashesOf(r) : k <= CutOf(r)
<1>1. Len(r) \in Nat /\ SlashesOf(r) \subseteq 1..Len(r)
  BY SlashesAre
<1>2. CASE SlashesOf(r) = {}
  BY <1>1, <1>2 DEF CutOf
<1>3. CASE SlashesOf(r) # {}
  <2>1. Max(SlashesOf(r)) \in SlashesOf(r) /\ \A k \in SlashesOf(r) : k <= Max(SlashesOf(r))
    BY <1>1, <1>3, GreatestIs
  <2>2. QED  BY <1>1, <1>3, <2>1 DEF CutOf
<1>4. QED  BY <1>2, <1>3

LEMMA HeadLengthIs ==
  ASSUME NEW dir \in Seq(Parts)
  PROVE  HeadLength(dir) \in 0..Len(dir)
<1> DEFINE start == IF Len(dir) >= 2 /\ dir[1] = Ours /\ IsPlain(dir[2], Slash) THEN 2 ELSE 1
           later == {i \in SlashesOf(dir) : i > start}
<1>1. Len(dir) \in Nat /\ SlashesOf(dir) \subseteq 1..Len(dir) /\ start \in Nat
  BY SlashesAre
<1>2. HeadLength(dir) = IF start \in SlashesOf(dir) /\ later # {} THEN Min(later) - 1 ELSE 0
  BY DEF HeadLength
<1>3. later \subseteq Nat /\ later \subseteq 1..Len(dir)
  BY <1>1
<1> HIDE DEF later, start
<1>4. CASE start \in SlashesOf(dir) /\ later # {}
  <2>1. Min(later) \in later
    BY <1>3, <1>4, SmallestIs
  <2>2. Min(later) \in 1..Len(dir)
    BY <1>3, <2>1
  <2>3. QED  BY <1>1, <1>2, <1>4, <2>2
<1>5. CASE ~(start \in SlashesOf(dir) /\ later # {})
  BY <1>1, <1>2, <1>5
<1>6. QED  BY <1>4, <1>5

LEMMA HeadIs ==
  ASSUME NEW r \in Seq(Parts), NEW palette
  PROVE  HeadOf(r, palette) \in 0..CutOf(r)
<1>1. CutOf(r) \in 0..Len(r)
  BY CutIs
<1>2. SubSeq(r, 1, CutOf(r)) \in Seq(Parts) /\ Len(SubSeq(r, 1, CutOf(r))) = CutOf(r)
  BY <1>1, SplitAt
<1>3. HeadLength(SubSeq(r, 1, CutOf(r))) \in 0..CutOf(r)
  BY <1>2, HeadLengthIs
<1>4. QED  BY <1>1, <1>3 DEF HeadOf

DirOf(r) == SubSeq(r, 1, CutOf(r))

LEMMA SpansAre ==
  ASSUME NEW r \in Seq(Parts), NEW palette
  PROVE  LET h == SubSeq(DirOf(r), 1, HeadOf(r, palette))
             m == After(DirOf(r), HeadOf(r, palette))
             b == After(r, CutOf(r))
         IN  /\ PaintProgram(r, palette) = Paint(h, palette.head, TRUE)
                  \o Paint(m, palette.middle, TRUE) \o Paint(b, palette.base, TRUE)
             /\ h \in Seq(Parts) /\ m \in Seq(Parts) /\ b \in Seq(Parts)
             /\ DirOf(r) = h \o m /\ r = DirOf(r) \o b
             /\ DirOf(r) \in Seq(Parts) /\ Len(DirOf(r)) = CutOf(r)
<1> DEFINE cut == CutOf(r)
           hl == HeadOf(r, palette)
           dir == DirOf(r)
<1>1. cut \in 0..Len(r) /\ hl \in 0..cut
  BY CutIs, HeadIs
<1>2. PaintProgram(r, palette)
        = Paint(SubSeq(dir, 1, hl), palette.head, TRUE)
            \o Paint(After(dir, hl), palette.middle, TRUE)
            \o Paint(After(r, cut), palette.base, TRUE)
  BY DEF PaintProgram, CutOf, HeadOf, DirOf
<1>3. dir = SubSeq(r, 1, cut)
  BY DEF DirOf
<1> HIDE DEF cut, hl, dir
<1>4. /\ dir \in Seq(Parts) /\ Len(dir) = cut
      /\ After(r, cut) \in Seq(Parts) /\ r = dir \o After(r, cut)
  BY <1>1, <1>3, SplitAt
<1>5. /\ SubSeq(dir, 1, hl) \in Seq(Parts) /\ After(dir, hl) \in Seq(Parts)
      /\ dir = SubSeq(dir, 1, hl) \o After(dir, hl)
  BY <1>1, <1>4, SplitAt
<1>6. QED  BY <1>2, <1>4, <1>5 DEF cut, hl, dir

LEMMA ProgramStrips ==
  ASSUME NEW r \in Seq(Parts), NEW palette \in Palettes, NEW x \in Seq(Nat)
  PROVE  /\ PaintProgram(r, palette) \in Seq(Int)
         /\ Strips(x, PaintProgram(r, palette), x \o TextOf(r))
<1> DEFINE h == SubSeq(DirOf(r), 1, HeadOf(r, palette))
           m == After(DirOf(r), HeadOf(r, palette))
           b == After(r, CutOf(r))
           u == Paint(h, palette.head, TRUE)
           v == Paint(m, palette.middle, TRUE)
           w == Paint(b, palette.base, TRUE)
<1>1. /\ PaintProgram(r, palette) = u \o v \o w
      /\ h \in Seq(Parts) /\ m \in Seq(Parts) /\ b \in Seq(Parts)
      /\ DirOf(r) = h \o m /\ r = DirOf(r) \o b /\ DirOf(r) \in Seq(Parts)
  BY SpansAre
<1> HIDE DEF h, m, b
<1>2. TextOf(r) = (TextOf(h) \o TextOf(m)) \o TextOf(b)
  <2>1. TextOf(DirOf(r)) = TextOf(h) \o TextOf(m)
    BY <1>1, TextBoth
  <2>2. TextOf(DirOf(r) \o b) = TextOf(DirOf(r)) \o TextOf(b)
    BY <1>1, TextBoth
  <2>3. QED  BY <1>1, <2>1, <2>2
<1>3. IsBase(palette.head) /\ IsBase(palette.middle) /\ IsBase(palette.base)
  BY PalettesAre
<1>4. TextOf(h) \in Seq(Nat) /\ TextOf(m) \in Seq(Nat) /\ TextOf(b) \in Seq(Nat)
  BY <1>1, TextIsSeq
<1> DEFINE th == TextOf(h)
           tm == TextOf(m)
           tb == TextOf(b)
<1>5. u \in Seq(Int) /\ v \in Seq(Int) /\ w \in Seq(Int)
  BY <1>1, <1>3, PaintStrips
<1>6. Strips(x, u, x \o th)
  BY <1>1, <1>3, PaintStrips
<1>7. x \o th \in Seq(Nat)
  BY <1>4
<1>8. Strips(x \o th, v, x \o th \o tm)
  BY <1>1, <1>3, <1>7, PaintStrips
<1>9. x \o th \o tm \in Seq(Nat)
  BY <1>4, <1>7
<1>10. Strips(x \o th \o tm, w, x \o th \o tm \o tb)
  BY <1>1, <1>3, <1>9, PaintStrips
<1> HIDE DEF u, v, w, th, tm, tb
<1>11. u \o v \in Seq(Int)
  BY <1>5
<1>12. u \o v \o w \in Seq(Int)
  BY <1>5, <1>11
<1>13. Strips(x, u \o v, x \o th \o tm)
  BY <1>5, <1>6, <1>8, LeadsBoth DEF Strips
<1>14. Strips(x, u \o v \o w, x \o th \o tm \o tb)
  BY <1>5, <1>10, <1>11, <1>13, LeadsBoth DEF Strips
<1>15. th \in Seq(Nat) /\ tm \in Seq(Nat) /\ tb \in Seq(Nat) /\ x \in Seq(Nat)
  BY <1>4 DEF th, tm, tb
<1>16. x \o th \o tm \o tb = x \o ((th \o tm) \o tb)
  <2>1. th \o tm \in Seq(Nat)
    BY <1>15
  <2>2. (x \o th) \o tm = x \o (th \o tm)
    BY <1>15, NatRegroup
  <2>3. (x \o (th \o tm)) \o tb = x \o ((th \o tm) \o tb)
    BY <1>15, <2>1, NatRegroup
  <2>4. QED  BY <2>2, <2>3
<1>17. TextOf(r) = (th \o tm) \o tb
  BY <1>2 DEF th, tm, tb
<1>18. QED  BY <1>1, <1>12, <1>14, <1>16, <1>17

LEMMA ArgumentStrips ==
  ASSUME NEW r \in Seq(Parts), NEW palette \in Palettes, NEW x \in Seq(Nat)
  PROVE  /\ PaintArgument(r, palette) \in Seq(Int)
         /\ Strips(x, PaintArgument(r, palette), x \o TextOf(r))
<1> DEFINE base == IF IsPlain(r[1], Dash) THEN palette.flag ELSE palette.value
<1>1. PaintArgument(r, palette) = Paint(r, base, FALSE)
  BY DEF PaintArgument
<1>2. IsBase(base)
  BY PalettesAre
<1> HIDE DEF base
<1>3. QED  BY <1>1, <1>2, PaintStrips

-----------------------------------------------------------------------------
(* What is between the tokens.                                             *)

\* What has been read before and after each of e, with g between each two.
Grown(R, g, e, X, Y) ==
  /\ X \in [1..Len(e) -> Seq(R)] /\ Y \in [1..Len(e) -> Seq(R)]
  /\ X[1] = <<>>
  /\ \A k \in 1..Len(e) : Y[k] = X[k] \o e[k]
  /\ \A k \in 2..Len(e) : X[k] = Y[k - 1] \o g
  /\ Y[Len(e)] = FlattenSeq([i \in DOMAIN e |-> IF i = 1 THEN e[i] ELSE g \o e[i]])

LEMMA Grow ==
  ASSUME NEW R, NEW g \in Seq(R), NEW e \in Seq(Seq(R)), Len(e) >= 1
  PROVE  \E X, Y : Grown(R, g, e, X, Y)
<1> DEFINE n == Len(e)
           s == [i \in 1..n |-> IF i = 1 THEN e[i] ELSE g \o e[i]]
<1>1. n \in Nat /\ n >= 1 /\ DOMAIN e = 1..n /\ \A k \in 1..n : e[k] \in Seq(R)
  OBVIOUS
<1>2. \A k \in 1..n : g \o e[k] \in Seq(R)
  BY <1>1
<1>3. \A k \in 1..n : (IF k = 1 THEN e[k] ELSE g \o e[k]) \in Seq(R)
  BY <1>1, <1>2
<1> HIDE DEF n
<1>4. s \in [1..n -> Seq(R)] /\ \A k \in 1..n : s[k] = IF k = 1 THEN e[k] ELSE g \o e[k]
  BY <1>3
<1>5. s = [i \in DOMAIN e |-> IF i = 1 THEN e[i] ELSE g \o e[i]]
  BY <1>1
<1> HIDE DEF s
<1>6. s \in Seq(Seq(R)) /\ Len(s) = n
  BY <1>1, <1>4
<1>7. PICK P : Piles(P, R, s) /\ P[Len(s)] = FlattenSeq(s)
  BY <1>6, FlattenPiles
<1>8. P \in [0..n -> Seq(R)] /\ P[0] = <<>> /\ \A k \in 1..n : P[k] = P[k - 1] \o s[k]
  BY <1>6, <1>7 DEF Piles
<1> DEFINE Y == [k \in 1..n |-> P[k]]
           X == [k \in 1..n |-> IF k = 1 THEN <<>> ELSE P[k - 1] \o g]
<1>9. \A k \in 1..n : k \in 0..n /\ k - 1 \in 0..n
  BY <1>1
<1>10. \A k \in 1..n : P[k] \in Seq(R) /\ P[k - 1] \in Seq(R)
  BY <1>8, <1>9
<1>11. Y \in [1..n -> Seq(R)] /\ \A k \in 1..n : Y[k] = P[k]
  BY <1>10
<1>12. X \in [1..n -> Seq(R)]
  <2>1. << >> \in Seq(R)
    OBVIOUS
  <2>2. \A k \in 1..n : P[k - 1] \o g \in Seq(R)
    BY <1>10
  <2>3. \A k \in 1..n : (IF k = 1 THEN <<>> ELSE P[k - 1] \o g) \in Seq(R)
    BY <2>1, <2>2
  <2>4. QED  BY <2>3
<1>13. \A k \in 1..n : X[k] = IF k = 1 THEN <<>> ELSE P[k - 1] \o g
  OBVIOUS
<1> HIDE DEF X, Y
<1>14. X[1] = <<>>
  <2>1. 1 \in 1..n
    BY <1>1
  <2>2. QED  BY <1>13, <2>1
<1>15. ASSUME NEW k \in 1..n
       PROVE  Y[k] = X[k] \o e[k]
  <2>1. Y[k] = P[k - 1] \o s[k] /\ P[k - 1] \in Seq(R) /\ e[k] \in Seq(R)
    BY <1>1, <1>8, <1>10, <1>11
  <2>2. CASE k = 1
    <3>1. P[k - 1] = <<>> /\ s[k] = e[k] /\ X[k] = <<>>
      BY <1>4, <1>8, <1>13, <2>2
    <3>2. QED  BY <2>1, <3>1
  <2>3. CASE k # 1
    <3>1. s[k] = g \o e[k] /\ X[k] = P[k - 1] \o g
      BY <1>4, <1>13, <2>3
    <3> DEFINE p == P[k - 1]
               c == e[k]
    <3> HIDE DEF p, c
    <3>2. p \in Seq(R) /\ g \in Seq(R) /\ c \in Seq(R)
      BY <2>1 DEF p, c
    <3>3. (p \o g) \o c = p \o (g \o c)
      <4>1. Groups(p, g, c)
        BY <3>2, Regroup
      <4>2. QED  BY <4>1 DEF Groups
    <3>4. QED  BY <2>1, <3>1, <3>3 DEF p, c
  <2>4. QED  BY <2>2, <2>3
<1>16. \A k \in 2..n : X[k] = Y[k - 1] \o g
  <2>1. \A k \in 2..n : k \in 1..n /\ k # 1 /\ k - 1 \in 1..n
    BY <1>1
  <2>2. QED  BY <1>11, <1>13, <2>1
<1>17. Y[n] = FlattenSeq([i \in DOMAIN e |-> IF i = 1 THEN e[i] ELSE g \o e[i]])
  <2>1. n \in 1..n
    BY <1>1
  <2>2. QED  BY <1>5, <1>6, <1>7, <1>11, <2>1
<1>18. Grown(R, g, e, X, Y)
  BY <1>11, <1>12, <1>14, <1>15, <1>16, <1>17 DEF Grown, n
<1>19. QED  BY <1>18

-----------------------------------------------------------------------------
(* The line, stripped.                                                     *)

StripRuns(kept, drawing) ==
  kept = [i \in 0..Len(drawing) |-> IF i = 0 THEN <<>> ELSE Keep(kept[i - 1], drawing[i])]

LEMMA StripUnfolds ==
  ASSUME NEW drawing
  PROVE  Strip(drawing) = (CHOOSE kept : StripRuns(kept, drawing))[Len(drawing)]
BY DEF Strip, StripRuns

LEMMA StripGoes ==
  ASSUME NEW drawing \in Seq(Int), NEW y, Strips(<<>>, drawing, y)
  PROVE  Strip(drawing) = y
<1> DEFINE n == Len(drawing)
<1>1. PICK f \in [0..n -> Seq(Nat)] : Through(f, StripStep, <<>>, drawing, y)
  BY DEF Strips, Leads
<1>2. n \in Nat /\ \A i \in 1..n : drawing[i] \in Int
  OBVIOUS
<1>3. f[0] = <<>> /\ f[n] = y /\ \A i \in 1..n : f[i] = StripStep[<<f[i - 1], drawing[i]>>]
  BY <1>1 DEF Through
<1>4. \A i \in 1..n : f[i] = Keep(f[i - 1], drawing[i])
  <2> SUFFICES ASSUME NEW i \in 1..n
               PROVE  f[i] = Keep(f[i - 1], drawing[i])
    OBVIOUS
  <2>1. i - 1 \in 0..n
    BY <1>2
  <2>2. f[i - 1] \in Seq(Nat) /\ drawing[i] \in Int
    BY <1>1, <1>2, <2>1
  <2>3. StripStep[<<f[i - 1], drawing[i]>>] = Keep(f[i - 1], drawing[i])
    BY <2>2 DEF StripStep
  <2>4. QED  BY <1>3, <2>3
<1>5. f = [i \in 0..n |-> IF i = 0 THEN <<>> ELSE Keep(f[i - 1], drawing[i])]
  <2>1. f = [i \in 0..n |-> f[i]]
    BY <1>1
  <2>2. \A i \in 0..n : f[i] = IF i = 0 THEN <<>> ELSE Keep(f[i - 1], drawing[i])
    <3>1. \A i \in 0..n : i = 0 \/ i \in 1..n
      BY <1>2
    <3>2. \A i \in 1..n : i # 0
      OBVIOUS
    <3>3. QED  BY <1>3, <1>4, <3>1, <3>2
  <2>3. QED  BY <2>1, <2>2
<1>6. \E kept : StripRuns(kept, drawing)
  BY <1>5 DEF StripRuns
<1> DEFINE kept == CHOOSE a : StripRuns(a, drawing)
<1>7. StripRuns(kept, drawing) /\ Strip(drawing) = kept[n]
  BY <1>6, StripUnfolds
<1> HIDE DEF kept
<1>8. \A i \in 0..n : kept[i] = IF i = 0 THEN <<>> ELSE Keep(kept[i - 1], drawing[i])
  BY <1>7 DEF StripRuns
<1>9. kept[0] = f[0]
  <2>1. 0 \in 0..n
    BY <1>2
  <2>2. QED  BY <1>3, <1>8, <2>1
<1>10. \A i \in 1..n : kept[i - 1] = f[i - 1] => kept[i] = f[i]
  <2>1. \A i \in 1..n : i \in 0..n /\ i # 0
    BY <1>2
  <2>2. QED  BY <1>4, <1>8, <2>1
<1> HIDE DEF n
<1>11. kept[n] = f[n]
  BY <1>2, <1>9, <1>10, StepByStep
<1>12. QED  BY <1>3, <1>7, <1>11

\* The drawings of the tokens of a line, and their plain texts.
DrawnToken(r, isProgram, palette) ==
  IF isProgram THEN PaintProgram(r, palette) ELSE PaintArgument(r, palette)

LEMMA TokenStrips ==
  ASSUME NEW r \in Seq(Parts), NEW palette \in Palettes, NEW x \in Seq(Nat),
         NEW isProgram \in BOOLEAN
  PROVE  /\ DrawnToken(r, isProgram, palette) \in Seq(Int)
         /\ Strips(x, DrawnToken(r, isProgram, palette), x \o TextOf(r))
<1>1. CASE isProgram
  BY <1>1, ProgramStrips DEF DrawnToken
<1>2. CASE ~isProgram
  BY <1>2, ArgumentStrips DEF DrawnToken
<1>3. QED  BY <1>1, <1>2

LEMMA LineStrips ==
  ASSUME NEW r, NEW n \in Nat, n >= 1, r \in [1..n -> Seq(Parts)], NEW palette \in Palettes
  PROVE  Strip(Spaced([i \in 1..n |-> DrawnToken(r[i], i = 1, palette)]))
           = Spaced([i \in 1..n |-> TextOf(r[i])])
<1> DEFINE d == [i \in 1..n |-> DrawnToken(r[i], i = 1, palette)]
           e == [i \in 1..n |-> TextOf(r[i])]
           g == <<Space>>
<1>1. \A k \in 1..n : r[k] \in Seq(Parts)
  OBVIOUS
<1>2. \A k \in 1..n : \A x \in Seq(Nat) :
        /\ DrawnToken(r[k], k = 1, palette) \in Seq(Int)
        /\ Strips(x, DrawnToken(r[k], k = 1, palette), x \o TextOf(r[k]))
  BY <1>1, TokenStrips
<1>3. \A k \in 1..n : TextOf(r[k]) \in Seq(Nat)
  BY <1>1, TextIsSeq
<1>4. \A k \in 1..n : DrawnToken(r[k], k = 1, palette) \in Seq(Int)
  <2>1. << >> \in Seq(Nat)
    OBVIOUS
  <2>2. QED  BY <1>2, <2>1
<1>5. d \in [1..n -> Seq(Int)] /\ e \in [1..n -> Seq(Nat)]
  BY <1>3, <1>4
<1>6. \A k \in 1..n : d[k] = DrawnToken(r[k], k = 1, palette) /\ e[k] = TextOf(r[k])
  OBVIOUS
<1> HIDE DEF d, e
<1>7. d \in Seq(Seq(Int)) /\ Len(d) = n /\ e \in Seq(Seq(Nat)) /\ Len(e) = n
  BY <1>5
<1>8. g \in Seq(Nat) /\ Space \in Int /\ Space \in Nat
  BY DEF Space
<1>9. PICK X, Y : Grown(Nat, g, e, X, Y)
  BY <1>7, <1>8, Grow
<1>10. /\ X \in [1..n -> Seq(Nat)] /\ Y \in [1..n -> Seq(Nat)] /\ X[1] = <<>>
       /\ \A k \in 1..n : Y[k] = X[k] \o e[k]
       /\ \A k \in 2..n : X[k] = Y[k - 1] \o g
  BY <1>7, <1>9 DEF Grown
<1>11. Y[n] = Spaced(e)
  BY <1>7, <1>9 DEF Grown, Spaced
<1>12. ASSUME NEW k \in 1..n
       PROVE  Leads(Seq(Nat), StripStep, X[k], d[k], Y[k])
  <2>1. X[k] \in Seq(Nat)
    BY <1>10
  <2>2. Strips(X[k], DrawnToken(r[k], k = 1, palette), X[k] \o TextOf(r[k]))
    BY <1>2, <2>1
  <2>3. Strips(X[k], d[k], X[k] \o TextOf(r[k]))
    BY Zenon, <1>6, <2>2
  <2>4. Y[k] = X[k] \o TextOf(r[k])
    <3>1. e[k] = TextOf(r[k])
      BY Zenon, <1>6
    <3>2. Y[k] = X[k] \o e[k]
      BY <1>10
    <3>3. QED  BY <3>1, <3>2
  <2>5. QED  BY <2>3, <2>4 DEF Strips
<1>13. ASSUME NEW k \in 2..n
       PROVE  Leads(Seq(Nat), StripStep, Y[k - 1], <<Space>>, X[k])
  <2>1. k - 1 \in 1..n
    OBVIOUS
  <2>2. Y[k - 1] \in Seq(Nat)
    BY <1>10, <2>1
  <2>3. Strips(Y[k - 1], g, Y[k - 1] \o g)
    BY <1>8, <2>2, TextIsLeft
  <2>4. QED  BY <1>10, <2>3 DEF Strips
<1>14. Leads(Seq(Nat), StripStep, X[1], Spaced(d), Y[n])
  <2>1. /\ d \in Seq(Seq(Int)) /\ Len(d) >= 1
        /\ X \in [1..Len(d) -> Seq(Nat)] /\ Y \in [1..Len(d) -> Seq(Nat)]
    BY <1>7, <1>10
  <2>2. \A k \in 1..Len(d) : Leads(Seq(Nat), StripStep, X[k], d[k], Y[k])
    BY <1>7, <1>12
  <2>3. \A k \in 2..Len(d) : Leads(Seq(Nat), StripStep, Y[k - 1], <<Space>>, X[k])
    BY <1>7, <1>13
  <2>4. Leads(Seq(Nat), StripStep, X[1], Spaced(d), Y[Len(d)])
    BY <1>8, <2>1, <2>2, <2>3, SpacedLeads
  <2>5. QED  BY <1>7, <2>4
<1>15. Spaced(d) \in Seq(Int)
  BY <1>7, <1>8, SpacedIsSeq
<1>16. Strips(<<>>, Spaced(d), Y[n])
  BY <1>10, <1>14 DEF Strips
<1>17. Strip(Spaced(d)) = Y[n]
  BY <1>15, <1>16, StripGoes
<1>18. QED  BY <1>11, <1>17 DEF d, e

\* The parts of each token of a command.
Rendered(toks) == [i \in 1..Len(toks) |-> RenderToken(Decode(toks[i]))]

LEMMA RenderedIs ==
  ASSUME NEW toks \in Seq(Seq(Octets))
  PROVE  Rendered(toks) \in [1..Len(toks) -> Seq(Parts)]
<1>1. \A k \in 1..Len(toks) : toks[k] \in Seq(Octets)
  OBVIOUS
<1>2. \A k \in 1..Len(toks) : Decode(toks[k]) \in Seq(Unit)
  BY <1>1, DecodeIsUnits
<1>3. << >> \in Seq(Seq(Nat))
  OBVIOUS
<1>4. \A k \in 1..Len(toks) : RenderToken(Decode(toks[k])) \in Seq(Parts)
  BY <1>2, <1>3, TokenReads
<1>5. QED  BY <1>4 DEF Rendered

LEMMA LinesAre ==
  ASSUME WordsAreBytes, NEW palette
  PROVE  LET toks == CommandTokens(path, argv)
             n == Len(toks)
             r == Rendered(toks)
         IN  /\ RenderCommandLine(path, argv, palette)
                  = Spaced([i \in 1..n |-> DrawnToken(r[i], i = 1, palette)])
             /\ FullCommandLine(path, argv) = Spaced([i \in 1..n |-> TextOf(r[i])])
             /\ n \in Nat /\ n >= 1 /\ r \in [1..n -> Seq(Parts)]
<1> DEFINE toks == CommandTokens(path, argv)
           n == Len(toks)
           r == Rendered(toks)
<1>1. toks \in Seq(Seq(Octets)) /\ n >= 1
  BY WordsAreTokens
<1>2. RenderCommandLine(path, argv, palette)
        = Spaced([i \in DOMAIN toks |->
                    IF i = 1 THEN PaintProgram(RenderToken(Decode(toks[i])), palette)
                    ELSE PaintArgument(RenderToken(Decode(toks[i])), palette)])
  BY DEF RenderCommandLine
<1>3. FullCommandLine(path, argv)
        = Spaced([i \in DOMAIN toks |-> TextOf(RenderToken(Decode(toks[i])))])
  BY DEF FullCommandLine
<1> HIDE DEF toks
<1>4. n \in Nat /\ DOMAIN toks = 1..n
  BY <1>1
<1>5. \A i \in 1..n : r[i] = RenderToken(Decode(toks[i]))
  BY DEF Rendered
<1>6. r \in [1..n -> Seq(Parts)]
  BY <1>1, RenderedIs
<1> HIDE DEF r, n
<1>7. [i \in DOMAIN toks |-> TextOf(RenderToken(Decode(toks[i])))] = [i \in 1..n |-> TextOf(r[i])]
  BY <1>4, <1>5
<1>8. [i \in DOMAIN toks |->
         IF i = 1 THEN PaintProgram(RenderToken(Decode(toks[i])), palette)
         ELSE PaintArgument(RenderToken(Decode(toks[i])), palette)]
        = [i \in 1..n |-> DrawnToken(r[i], i = 1, palette)]
  BY <1>4, <1>5 DEF DrawnToken
<1>9. QED  BY <1>1, <1>2, <1>3, <1>4, <1>6, <1>7, <1>8 DEF toks, n, r

LEMMA WordsStrip == WordsAreBytes => StripsToPlain
<1> SUFFICES ASSUME WordsAreBytes, NEW p \in Palettes
             PROVE  Strip(RenderCommandLine(path, argv, p)) = FullCommandLine(path, argv)
  BY DEF StripsToPlain
<1> DEFINE toks == CommandTokens(path, argv)
           n == Len(toks)
           r == Rendered(toks)
<1>1. /\ RenderCommandLine(path, argv, p)
           = Spaced([i \in 1..n |-> DrawnToken(r[i], i = 1, p)])
      /\ FullCommandLine(path, argv) = Spaced([i \in 1..n |-> TextOf(r[i])])
      /\ n \in Nat /\ n >= 1 /\ r \in [1..n -> Seq(Parts)]
  BY LinesAre
<1> HIDE DEF toks, n, r
<1>2. QED  BY <1>1, LineStrips

\* Whatever a command holds, of any length: the coloured line without its colours is
\* the plain line, in either palette.
THEOREM LinesStripToPlain == CallsSpec => []StripsToPlain
<1>1. CallsInit => WordsAreBytes
  BY InitWords DEF CallsInit
<1>2. QED
  BY <1>1, CallsKeepWords, WordsStrip, PTL DEF CallsSpec

-----------------------------------------------------------------------------
(* A drawing, on a terminal.                                               *)

Cells == [char : Nat, sgr : Seq(Int)]
Screens == [sgr : Seq(Int), shown : Seq(Cells)]
TermStep == [p \in Screens \X Int |-> Put(p[1], p[2])]
Screen(sgr, shown) == [sgr |-> sgr, shown |-> shown]
Shows(x, drawing, y) == Leads(Screens, TermStep, x, drawing, y)

\* A text, all of it in one style.
Styled(text, style) == [c \in DOMAIN text |-> [char |-> text[c], sgr |-> style]]

LEMMA ScreenIs ==
  ASSUME NEW s \in Seq(Int), NEW z \in Seq(Cells)
  PROVE  Screen(s, z) \in Screens
BY DEF Screen, Screens

LEMMA PutIs ==
  ASSUME NEW s, NEW z, NEW c
  PROVE  /\ c = Reset => Put(Screen(s, z), c) = Screen(<<>>, z)
         /\ c < 0 /\ c # Reset => Put(Screen(s, z), c) = Screen(Append(s, c), z)
         /\ c # Reset /\ ~(c < 0) =>
              Put(Screen(s, z), c) = Screen(s, Append(z, [char |-> c, sgr |-> s]))
<1> DEFINE x == Screen(s, z)
<1>1. x.sgr = s /\ x.shown = z
  BY DEF Screen
<1>2. /\ \A v : [x EXCEPT !.sgr = v] = Screen(v, z)
      /\ \A v : [x EXCEPT !.shown = v] = Screen(s, v)
  BY DEF Screen
<1> HIDE DEF x
<1>3. c = Reset => Put(x, c) = Screen(<<>>, z)
  BY <1>1, <1>2 DEF Put
<1>4. c < 0 /\ c # Reset => Put(x, c) = Screen(Append(s, c), z)
  BY <1>1, <1>2 DEF Put
<1>5. c # Reset /\ ~(c < 0) => Put(x, c) = Screen(s, Append(z, [char |-> c, sgr |-> s]))
  BY <1>1, <1>2 DEF Put
<1>6. QED  BY <1>3, <1>4, <1>5 DEF x

LEMMA ShowsOne ==
  ASSUME NEW x \in Screens, NEW y \in Screens, NEW c \in Int, Put(x, c) = y
  PROVE  TermStep[<<x, c>>] = y /\ Shows(x, <<c>>, y)
<1>1. TermStep[<<x, c>>] = y
  BY DEF TermStep
<1>2. Leads(Screens, TermStep, x, <<c>>, TermStep[<<x, c>>])
  BY <1>1, LeadsOne
<1>3. QED  BY <1>1, <1>2 DEF Shows

LEMMA ColourIsWorn ==
  ASSUME NEW z \in Seq(Cells), NEW c \in Int, c < 0, c # Reset
  PROVE  Shows(Screen(<<>>, z), <<c>>, Screen(<<c>>, z))
<1> DEFINE none == <<>>
           one == <<c>>
<1>1. none \in Seq(Int) /\ one \in Seq(Int) /\ Append(none, c) = one
  OBVIOUS
<1> HIDE DEF none, one
<1>2. Put(Screen(none, z), c) = Screen(one, z)
  BY <1>1, PutIs
<1>3. Screen(none, z) \in Screens /\ Screen(one, z) \in Screens
  BY <1>1, ScreenIs
<1>4. QED  BY <1>2, <1>3, ShowsOne DEF none, one

LEMMA ResetClears ==
  ASSUME NEW z \in Seq(Cells), NEW s \in Seq(Int)
  PROVE  Shows(Screen(s, z), <<Reset>>, Screen(<<>>, z))
<1>1. Put(Screen(s, z), Reset) = Screen(<<>>, z)
  BY PutIs
<1>2. Reset \in Int /\ <<>> \in Seq(Int)
  BY DEF Reset
<1>3. Screen(s, z) \in Screens /\ Screen(<<>>, z) \in Screens
  BY <1>2, ScreenIs
<1>4. QED  BY <1>1, <1>2, <1>3, ShowsOne

LEMMA StyledIs ==
  ASSUME NEW text \in Seq(Nat), NEW s \in Seq(Int)
  PROVE  Styled(text, s) \in Seq(Cells)
<1>1. DOMAIN text = 1..Len(text) /\ Len(text) \in Nat
  OBVIOUS
<1>2. \A c \in 1..Len(text) : text[c] \in Nat
  OBVIOUS
<1>3. \A c \in 1..Len(text) : [char |-> text[c], sgr |-> s] \in Cells
  BY <1>2 DEF Cells
<1>4. Styled(text, s) \in [1..Len(text) -> Cells]
  BY <1>1, <1>3 DEF Styled
<1>5. QED  BY <1>1, <1>4

LEMMA TextIsShown ==
  ASSUME NEW z \in Seq(Cells), NEW s \in Seq(Int), NEW text \in Seq(Nat)
  PROVE  Shows(Screen(s, z), text, Screen(s, z \o Styled(text, s)))
<1> DEFINE m == [c \in Nat |-> [char |-> c, sgr |-> s]]
           st == [u \in Seq(Cells) |-> Screen(s, u)]
<1>1. m \in [Nat -> Cells] /\ \A c \in Nat : m[c] = [char |-> c, sgr |-> s]
  BY DEF Cells
<1>2. st \in [Seq(Cells) -> Screens] /\ \A u \in Seq(Cells) : st[u] = Screen(s, u)
  BY ScreenIs
<1> HIDE DEF m, st
<1>3. \A u \in Seq(Cells), c \in Nat : TermStep[<<st[u], c>>] = st[Append(u, m[c])]
  <2> SUFFICES ASSUME NEW u \in Seq(Cells), NEW c \in Nat
               PROVE  TermStep[<<st[u], c>>] = st[Append(u, m[c])]
    OBVIOUS
  <2>1. m[c] \in Cells
    BY <1>1
  <2>2. Append(u, m[c]) \in Seq(Cells)
    BY <2>1
  <2>3. c \in Int /\ ~(c < 0) /\ c # Reset
    BY DEF Reset
  <2>4. Put(Screen(s, u), c) = Screen(s, Append(u, m[c]))
    BY <1>1, <2>3, PutIs
  <2>5. Screen(s, u) \in Screens /\ Screen(s, Append(u, m[c])) \in Screens
    BY <2>2, ScreenIs
  <2>6. TermStep[<<Screen(s, u), c>>] = Screen(s, Append(u, m[c]))
    BY <2>3, <2>4, <2>5, ShowsOne
  <2>7. st[u] = Screen(s, u) /\ st[Append(u, m[c])] = Screen(s, Append(u, m[c]))
    BY <1>2, <2>2
  <2>8. QED  BY <2>6, <2>7
<1>4. Leads(Screens, TermStep, st[z], text, st[z \o Mapped(m, text)])
  BY <1>1, <1>2, <1>3, LeadsKeeping
<1>5. Mapped(m, text) = Styled(text, s)
  <2>1. \A j \in 1..Len(text) : text[j] \in Nat
    OBVIOUS
  <2>2. \A j \in 1..Len(text) : m[text[j]] = [char |-> text[j], sgr |-> s]
    BY <1>1, <2>1
  <2>3. DOMAIN text = 1..Len(text)
    OBVIOUS
  <2>4. QED  BY <2>2, <2>3 DEF Mapped, Styled
<1>6. Styled(text, s) \in Seq(Cells)
  BY StyledIs
<1>7. z \o Styled(text, s) \in Seq(Cells)
  BY <1>6
<1>8. st[z] = Screen(s, z) /\ st[z \o Styled(text, s)] = Screen(s, z \o Styled(text, s))
  BY <1>2, <1>7
<1>9. QED  BY <1>4, <1>5, <1>8 DEF Shows

\* The style the painter lays on a part.
StyleOn(span, i, base, markSpaces) ==
  IF Shines(span, i, markSpaces) THEN <<ColourOf(span, i)>>
  ELSE IF base = None THEN <<>> ELSE <<base>>

LEMMA StyleOnIs ==
  ASSUME NEW span \in Seq(Parts), NEW i \in 1..Len(span), NEW base, IsBase(base), NEW markSpaces
  PROVE  StyleOn(span, i, base, markSpaces) \in Seq(Int)
<1>1. ColourOf(span, i) \in Int /\ base \in Int
  BY ColourIs DEF IsBase
<1> DEFINE a == <<ColourOf(span, i)>>
           b == <<base>>
<1>2. a \in Seq(Int) /\ b \in Seq(Int) /\ <<>> \in Seq(Int)
  BY <1>1
<1> HIDE DEF a, b
<1>3. StyleOn(span, i, base, markSpaces) =
        IF Shines(span, i, markSpaces) THEN a ELSE IF base = None THEN <<>> ELSE b
  BY DEF StyleOn, a, b
<1>4. QED  BY <1>2, <1>3

\* A span of r, from off on, whose parts are to be read in the styles of want: the
\* painter shows them so.  Q[k] is what k parts of r have shown.
LEMMA PaintShows ==
  ASSUME NEW span \in Seq(Parts), NEW base, IsBase(base), NEW markSpaces \in BOOLEAN,
         NEW off \in Nat, NEW z \in Seq(Cells), NEW Q,
         \A i \in 0..Len(span) : Q[off + i] \in Seq(Cells),
         \A i \in 1..Len(span) :
           Q[off + i] = Q[off + i - 1] \o Styled(span[i].text, StyleOn(span, i, base, markSpaces))
  PROVE  /\ Paint(span, base, markSpaces) \in Seq(Int)
         /\ Shows(Screen(<<>>, z \o Q[off]), Paint(span, base, markSpaces),
                  Screen(<<>>, z \o Q[off + Len(span)]))
<1> DEFINE n == Len(span)
           none == <<>>
           hue == <<base>>
           bare == [i \in 0..n |-> Screen(none, z \o Q[off + i])]
           lit == [i \in 0..n |-> Screen(hue, z \o Q[off + i])]
<1>1. n \in Nat /\ base \in Int
  BY DEF IsBase
<1>2. none \in Seq(Int) /\ hue \in Seq(Int)
  BY <1>1
<1> HIDE DEF none, hue
<1>3. \A i \in 0..n : z \o Q[off + i] \in Seq(Cells)
  OBVIOUS
<1>4. \A i \in 0..n : /\ Screen(none, z \o Q[off + i]) \in Screens
                      /\ Screen(hue, z \o Q[off + i]) \in Screens
  BY <1>2, <1>3, ScreenIs
<1>5. bare \in [0..n -> Screens] /\ lit \in [0..n -> Screens]
  BY <1>4
<1>6. \A i \in 0..n : /\ bare[i] = Screen(none, z \o Q[off + i])
                      /\ lit[i] = Screen(hue, z \o Q[off + i])
  OBVIOUS
<1> HIDE DEF bare, lit
<1>7. ASSUME NEW i \in 0..n
      PROVE  Leads(Screens, TermStep, lit[i], <<Reset>>, bare[i])
  <2>1. Shows(Screen(hue, z \o Q[off + i]), <<Reset>>, Screen(<<>>, z \o Q[off + i]))
    BY <1>2, <1>3, ResetClears
  <2>2. QED  BY <1>6, <2>1 DEF Shows, none
<1>8. ASSUME NEW i \in 1..n
      PROVE  Crosses(Screens, TermStep, span, i, base, markSpaces, bare, lit)
  <2> DEFINE style == StyleOn(span, i, base, markSpaces)
             text == span[i].text
             c == ColourOf(span, i)
             y == z \o Q[off + (i - 1)]
             w == z \o Q[off + i]
  <2>1. i \in 0..n /\ i - 1 \in 0..n /\ off + (i - 1) = off + i - 1
    BY <1>1
  <2>2. text \in Seq(Nat) /\ style \in Seq(Int) /\ c \in Int /\ c < 0 /\ c # Reset
    BY PartHas, StyleOnIs, ColourIs
  <2>3. y \in Seq(Cells) /\ w \in Seq(Cells)
    BY <1>3, <2>1
  <2>4. w = y \o Styled(text, style)
    <3> DEFINE q == Q[off + (i - 1)]
               t == Styled(text, style)
    <3>1. Q[off + i] = q \o t
      BY <2>1
    <3>2. q \in Seq(Cells) /\ t \in Seq(Cells) /\ z \in Seq(Cells)
      BY <2>1, <2>2, StyledIs
    <3> HIDE DEF q, t
    <3>3. (z \o q) \o t = z \o (q \o t)
      <4>1. Groups(z, q, t)
        BY <3>2, Regroup
      <4>2. QED  BY <4>1 DEF Groups
    <3>4. QED  BY <3>1, <3>3 DEF q, t
  <2>5. bare[i - 1] = Screen(none, y) /\ bare[i] = Screen(none, w)
        /\ lit[i - 1] = Screen(hue, y) /\ lit[i] = Screen(hue, w)
    BY <1>6, <2>1
  <2> HIDE DEF style, text, c, y, w
  <2>6. Shows(Screen(style, y), text, Screen(style, w))
    BY <2>2, <2>3, <2>4, TextIsShown
  <2>7. CASE Shines(span, i, markSpaces)
    <3>1. style = <<c>>
      BY <2>7 DEF StyleOn, style, c
    <3>2. Shows(Screen(<<>>, y), <<c>>, Screen(<<c>>, y))
      BY <2>2, <2>3, ColourIsWorn
    <3>3. Leads(Screens, TermStep, bare[i - 1], <<c>>, Screen(style, y))
      BY <2>5, <3>1, <3>2 DEF Shows, none
    <3>4. Shows(Screen(style, w), <<Reset>>, Screen(<<>>, w))
      BY <2>2, <2>3, ResetClears
    <3>5. Leads(Screens, TermStep, Screen(style, w), <<Reset>>, bare[i])
      BY <2>5, <3>4 DEF Shows, none
    <3>6. Screen(style, y) \in Screens /\ Screen(style, w) \in Screens
      BY <2>2, <2>3, ScreenIs
    <3>7. Leads(Screens, TermStep, Screen(style, y), text, Screen(style, w))
      BY <2>6 DEF Shows
    <3>8. Worn(Screens, TermStep, bare[i - 1], c, text, bare[i])
      BY <3>3, <3>5, <3>6, <3>7 DEF Worn
    <3>9. QED  BY <2>7, <3>8 DEF Crosses, c, text
  <2>8. CASE ~Shines(span, i, markSpaces) /\ base = None
    <3>1. style = none
      BY <2>8 DEF StyleOn, style, none
    <3>2. Leads(Screens, TermStep, bare[i - 1], text, bare[i])
      BY <2>5, <2>6, <3>1 DEF Shows
    <3>3. QED  BY <2>8, <3>2 DEF Crosses, text
  <2>9. CASE ~Shines(span, i, markSpaces) /\ base # None
    <3>1. style = hue
      BY <2>9 DEF StyleOn, style, hue
    <3>2. base < 0 /\ base # Reset
      BY <2>9 DEF IsBase
    <3>3. Shows(Screen(<<>>, y), <<base>>, Screen(<<base>>, y))
      BY <1>1, <2>3, <3>2, ColourIsWorn
    <3>4. Leads(Screens, TermStep, bare[i - 1], <<base>>, lit[i - 1])
      BY <2>5, <3>3 DEF Shows, none, hue
    <3>5. Leads(Screens, TermStep, lit[i - 1], text, lit[i])
      BY <2>5, <2>6, <3>1 DEF Shows
    <3>6. QED  BY <2>9, <3>4, <3>5 DEF Crosses, text
  <2>10. QED  BY <2>7, <2>8, <2>9
<1>9. /\ Paint(span, base, markSpaces) \in Seq(Int)
      /\ Leads(Screens, TermStep, bare[0], Paint(span, base, markSpaces), bare[n])
  BY <1>1, <1>5, <1>7, <1>8, PaintLeads
<1>10. bare[0] = Screen(<<>>, z \o Q[off]) /\ bare[n] = Screen(<<>>, z \o Q[off + n])
  <2>1. 0 \in 0..n /\ n \in 0..n /\ off + 0 = off
    BY <1>1
  <2>2. QED  BY <1>6, <2>1 DEF none
<1>11. QED  BY <1>9, <1>10 DEF Shows

-----------------------------------------------------------------------------
(* Which spaces are marked.                                                *)

LEMMA SpaceIsInside ==
  ASSUME NEW span \in Seq(Parts), NEW i
  PROVE  IsSpaceAt(span, i) <=> (i \in 1..Len(span) /\ IsPlain(span[i], Space))
<1>1. DOMAIN span = 1..Len(span)
  OBVIOUS
<1>2. QED  BY <1>1 DEF IsSpaceAt

IsFrom(span, i, a) == (\A k \in a..i : IsSpaceAt(span, k)) /\ ~IsSpaceAt(span, a - 1)
IsUpto(span, i, b) == (\A k \in i..b : IsSpaceAt(span, k)) /\ ~IsSpaceAt(span, b + 1)

LEMMA RunBegins ==
  ASSUME NEW span \in Seq(Parts), NEW i \in 1..Len(span), IsSpaceAt(span, i)
  PROVE  \E a \in 1..i : IsFrom(span, i, a)
<1> DEFINE T == {d \in Nat : d <= i - 1 /\ ~IsSpaceAt(span, i - d - 1)}
<1>1. i \in Nat /\ i >= 1
  OBVIOUS
<1>2. i - 1 \in T
  <2>1. i - (i - 1) - 1 = 0 /\ ~(0 \in 1..Len(span)) /\ i - 1 \in Nat /\ i - 1 <= i - 1
    BY <1>1
  <2>2. ~IsSpaceAt(span, 0)
    BY <2>1, SpaceIsInside
  <2>3. QED  BY <2>1, <2>2
<1>3. PICK d \in T : \A e \in T : d <= e
  <2>1. T \subseteq Nat /\ T # {}
    BY <1>2
  <2> HIDE DEF T
  <2>2. QED  BY <2>1, Least
<1>4. d \in Nat /\ d <= i - 1 /\ ~IsSpaceAt(span, i - d - 1)
  OBVIOUS
<1> DEFINE a == i - d
<1>5. a \in 1..i
  BY <1>1, <1>4
<1>6. ASSUME NEW k \in a..i
      PROVE  IsSpaceAt(span, k)
  <2>1. CASE k = i
    BY <2>1
  <2>2. CASE k # i
    <3> DEFINE e == i - k - 1
    <3>1. e \in Nat /\ ~(d <= e) /\ e <= i - 1 /\ i - e - 1 = k
      BY <1>1, <1>4, <2>2
    <3> HIDE DEF e
    <3>2. ~(e \in T)
      <4> HIDE DEF T
      <4>1. QED  BY <1>3, <3>1
    <3>3. QED  BY <3>1, <3>2
  <2>3. QED  BY <2>1, <2>2
<1>7. ~IsSpaceAt(span, a - 1)
  BY <1>4
<1> HIDE DEF a
<1>8. IsFrom(span, i, a)
  BY <1>6, <1>7 DEF IsFrom
<1>9. QED  BY <1>5, <1>8

LEMMA RunEnds ==
  ASSUME NEW span \in Seq(Parts), NEW i \in 1..Len(span), IsSpaceAt(span, i)
  PROVE  \E b \in i..Len(span) : IsUpto(span, i, b)
<1> DEFINE n == Len(span)
           T == {b \in Nat : i <= b /\ ~IsSpaceAt(span, b + 1)}
<1>1. i \in Nat /\ n \in Nat /\ 1 <= i /\ i <= n
  OBVIOUS
<1>2. n \in T
  <2>1. ~(n + 1 \in 1..n)
    BY <1>1
  <2>2. ~IsSpaceAt(span, n + 1)
    BY <2>1, SpaceIsInside
  <2>3. QED  BY <1>1, <2>2
<1>3. PICK b \in T : \A e \in T : b <= e
  <2>1. T \subseteq Nat /\ T # {}
    BY <1>2
  <2> HIDE DEF T
  <2>2. QED  BY <2>1, Least
<1>4. b \in Nat /\ i <= b /\ ~IsSpaceAt(span, b + 1) /\ b <= n
  BY <1>2, <1>3
<1>5. ASSUME NEW k \in i..b
      PROVE  IsSpaceAt(span, k)
  <2>1. CASE k = i
    BY <2>1
  <2>2. CASE k # i
    <3>1. k - 1 \in Nat /\ i <= k - 1 /\ k - 1 < b /\ (k - 1) + 1 = k
      BY <1>1, <1>4, <2>2
    <3>2. ~(k - 1 \in T)
      BY <1>3, <1>4, <3>1
    <3>3. QED  BY <3>1, <3>2
  <2>3. QED  BY <2>1, <2>2
<1> HIDE DEF T
<1>6. IsUpto(span, i, b)
  BY <1>4, <1>5 DEF IsUpto
<1>7. b \in i..n
  BY <1>1, <1>4
<1>8. QED  BY <1>6, <1>7

\* A space is notable at an end of the span and beside another space.
LEMMA NotableIs ==
  ASSUME NEW span \in Seq(Parts), NEW i \in 1..Len(span), IsSpaceAt(span, i)
  PROVE  Notable(span, i) <=> (\/ i = 1 \/ i = Len(span)
                               \/ IsSpaceAt(span, i - 1) \/ IsSpaceAt(span, i + 1))
<1> DEFINE n == Len(span)
           a == CHOOSE x \in 1..i : IsFrom(span, i, x)
           b == CHOOSE x \in i..n : IsUpto(span, i, x)
<1>1. a \in 1..i /\ IsFrom(span, i, a)
  BY RunBegins
<1>2. b \in i..n /\ IsUpto(span, i, b)
  BY RunEnds
<1>3. Notable(span, i) <=> (b - a >= 1 \/ a = 1 \/ b = n)
  BY DEF Notable, IsFrom, IsUpto
<1> HIDE DEF a, b
<1>4. i \in Nat /\ n \in Nat /\ a \in Nat /\ b \in Nat /\ a <= i /\ i <= b /\ 1 <= a /\ b <= n
  BY <1>1, <1>2
<1>5. ~IsSpaceAt(span, a - 1) /\ ~IsSpaceAt(span, b + 1)
  BY <1>1, <1>2 DEF IsFrom, IsUpto
<1>6. \A k \in a..b : IsSpaceAt(span, k)
  <2> SUFFICES ASSUME NEW k \in a..b
               PROVE  IsSpaceAt(span, k)
    OBVIOUS
  <2>1. k \in a..i \/ k \in i..b
    BY <1>4
  <2>2. QED  BY <1>1, <1>2, <2>1 DEF IsFrom, IsUpto
<1>7. CASE a < i
  <2>1. i - 1 \in a..b /\ b - a >= 1
    BY <1>4, <1>7
  <2>2. IsSpaceAt(span, i - 1)
    BY <1>6, <2>1
  <2>3. QED  BY <1>3, <2>1, <2>2
<1>8. CASE i < b
  <2>1. i + 1 \in a..b /\ b - a >= 1
    BY <1>4, <1>8
  <2>2. IsSpaceAt(span, i + 1)
    BY <1>6, <2>1
  <2>3. QED  BY <1>3, <2>1, <2>2
<1>9. CASE ~(a < i) /\ ~(i < b)
  <2>1. a = i /\ b = i
    BY <1>4, <1>9
  <2>2. ~(b - a >= 1)
    BY <1>4, <2>1
  <2>3. ~IsSpaceAt(span, i - 1) /\ ~IsSpaceAt(span, i + 1)
    BY <1>5, <2>1
  <2>4. QED  BY <1>3, <2>1, <2>2, <2>3
<1>10. QED  BY <1>7, <1>8, <1>9

-----------------------------------------------------------------------------
(* Where the spans of a program's token begin and end.                     *)

LEMMA NotTwo ==
  ASSUME NEW T, NEW x \in T
  PROVE  Two(T) <=> \E y \in T : y # x
BY DEF Two

Rooted(r) == IsPlain(r[1], Slash) \/ (r[1] = Ours /\ Len(r) > 1 /\ IsPlain(r[2], Slash))
StartOf(r) == IF Len(r) >= 2 /\ r[1] = Ours /\ IsPlain(r[2], Slash) THEN 2 ELSE 1
LaterOf(r) == {i \in SlashesOf(r) : i > StartOf(r)}

LEMMA OursIsNoSlash == ~IsPlain(Ours, Slash)
BY DEF IsPlain, Ours, Part

LEMMA RootIs ==
  ASSUME NEW r \in Seq(Parts), Len(r) >= 1
  PROVE  /\ Rooted(r) <=> StartOf(r) \in SlashesOf(r)
         /\ Rooted(r) => \A k \in SlashesOf(r) : k >= StartOf(r)
<1>1. SlashesOf(r) = {i \in 1..Len(r) : IsPlain(r[i], Slash)} /\ Len(r) \in Nat
  BY SlashesAre
<1>2. CASE r[1] = Ours
  <2>1. ~IsPlain(r[1], Slash)
    BY <1>2, OursIsNoSlash
  <2>2. ~(1 \in SlashesOf(r))
    BY <1>1, <2>1
  <2>3. CASE Len(r) >= 2 /\ IsPlain(r[2], Slash)
    <3>1. StartOf(r) = 2 /\ Rooted(r)
      BY <1>1, <1>2, <2>3 DEF StartOf, Rooted
    <3>2. 2 \in SlashesOf(r)
      BY <1>1, <2>3
    <3>3. \A k \in SlashesOf(r) : k >= 2
      BY <1>1, <2>2
    <3>4. QED  BY <3>1, <3>2, <3>3
  <2>4. CASE ~(Len(r) >= 2 /\ IsPlain(r[2], Slash))
    <3>1. StartOf(r) = 1 /\ ~Rooted(r)
      BY <1>1, <1>2, <2>1, <2>4 DEF StartOf, Rooted
    <3>2. QED  BY <2>2, <3>1
  <2>5. QED  BY <2>3, <2>4
<1>3. CASE r[1] # Ours
  <2>1. StartOf(r) = 1 /\ (Rooted(r) <=> IsPlain(r[1], Slash))
    BY <1>3 DEF StartOf, Rooted
  <2>2. 1 \in SlashesOf(r) <=> IsPlain(r[1], Slash)
    BY <1>1
  <2>3. \A k \in SlashesOf(r) : k >= 1
    BY <1>1
  <2>4. QED  BY <2>1, <2>2, <2>3
<1>4. QED  BY <1>2, <1>3

\* The directory has every slash of the token, so its first segment is the token's.
LEMMA DirHas ==
  ASSUME NEW r \in Seq(Parts), Len(r) >= 1
  PROVE  HeadLength(DirOf(r)) =
           IF StartOf(r) \in SlashesOf(r) /\ LaterOf(r) # {} THEN Min(LaterOf(r)) - 1 ELSE 0
<1> DEFINE d == DirOf(r)
           c == CutOf(r)
<1>1. c \in 0..Len(r) /\ \A k \in SlashesOf(r) : k <= c
  BY CutIs
<1>2. d \in Seq(Parts) /\ Len(d) = c /\ \A i \in 1..c : d[i] = r[i]
  BY <1>1, SplitAt DEF DirOf
<1> HIDE DEF d, c
<1>3. SlashesOf(r) = {i \in 1..Len(r) : IsPlain(r[i], Slash)} /\ Len(r) \in Nat
  BY SlashesAre
<1>4. SlashesOf(d) = {i \in 1..c : IsPlain(d[i], Slash)}
  BY <1>2, SlashesAre
<1>5. SlashesOf(d) = SlashesOf(r)
  <2>1. ASSUME NEW i \in SlashesOf(d)
        PROVE  i \in SlashesOf(r)
    <3>1. i \in 1..c /\ IsPlain(d[i], Slash)
      BY <1>4, <2>1
    <3>2. i \in 1..Len(r) /\ d[i] = r[i]
      BY <1>1, <1>2, <1>3, <3>1
    <3>3. QED  BY <1>3, <3>1, <3>2
  <2>2. ASSUME NEW i \in SlashesOf(r)
        PROVE  i \in SlashesOf(d)
    <3>1. i \in 1..Len(r) /\ IsPlain(r[i], Slash) /\ i <= c
      BY <1>1, <1>3, <2>2
    <3>2. i \in 1..c
      BY <1>1, <1>3, <3>1
    <3>3. d[i] = r[i]
      BY <1>2, <3>2
    <3>4. QED  BY <1>4, <3>1, <3>2, <3>3
  <2>3. QED  BY <2>1, <2>2
<1>6. HeadLength(d) = IF StartOf(d) \in SlashesOf(d) /\ LaterOf(d) # {}
                      THEN Min(LaterOf(d)) - 1 ELSE 0
  BY DEF HeadLength, StartOf, LaterOf
<1>7. StartOf(d) = StartOf(r) \/ SlashesOf(r) = {}
  <2>1. CASE c >= 2
    <3>1. d[1] = r[1] /\ d[2] = r[2] /\ Len(d) >= 2 /\ Len(r) >= 2
      BY <1>1, <1>2, <1>3, <2>1
    <3>2. QED  BY <3>1 DEF StartOf
  <2>2. CASE ~(c >= 2)
    <3>1. ~(Len(d) >= 2)
      BY <1>2, <2>2
    <3>2. StartOf(d) = 1
      BY <3>1 DEF StartOf
    <3>3. ~(2 \in SlashesOf(r))
      BY <1>1, <2>2
    <3>4. ~(Len(r) >= 2 /\ IsPlain(r[2], Slash))
      BY <1>3, <3>3
    <3>5. StartOf(r) = 1
      BY <3>4 DEF StartOf
    <3>6. QED  BY <3>2, <3>5
  <2>3. QED  BY <2>1, <2>2
<1>8. CASE StartOf(d) = StartOf(r)
  BY <1>5, <1>6, <1>8 DEF LaterOf, d
<1>9. CASE SlashesOf(r) = {}
  BY <1>5, <1>6, <1>9 DEF d
<1>10. QED  BY <1>7, <1>8, <1>9

\* The base a place has in a program's token, by where the token is cut.
LEMMA BaseIs ==
  ASSUME NEW r \in Seq(Parts), NEW j \in 1..Len(r), NEW p
  PROVE  BaseAt(r, j, TRUE, p) = IF j > CutOf(r) THEN p.base
                                 ELSE IF j <= HeadOf(r, p) THEN p.head ELSE p.middle
<1> DEFINE slashes == SlashesOf(r)
           c == CutOf(r)
           hl == HeadOf(r, p)
<1>1. BaseAt(r, j, TRUE, p) =
        IF \A k \in slashes : k < j THEN p.base
        ELSE IF Rooted(r) /\ Two(slashes) /\ ~Two({k \in slashes : k <= j}) THEN p.head
        ELSE p.middle
  BY DEF BaseAt, Rooted
<1>2. /\ c \in 0..Len(r) /\ \A k \in slashes : k <= c
      /\ slashes \subseteq 1..Len(r) /\ j \in Nat /\ c \in Nat /\ Len(r) >= 1
  BY CutIs, SlashesAre
<1>3. c = 0 \/ c \in slashes
  <2>1. CASE slashes = {}
    BY <2>1 DEF CutOf
  <2>2. CASE slashes # {}
    <3>1. Len(r) \in Nat
      OBVIOUS
    <3>2. Max(slashes) \in slashes
      BY <1>2, <2>2, <3>1, GreatestIs
    <3>3. QED  BY <2>2, <3>2 DEF CutOf
  <2>3. QED  BY <2>1, <2>2
<1>4. hl = IF p.head = p.middle THEN 0 ELSE HeadLength(DirOf(r))
  BY DEF HeadOf, DirOf
<1>5. HeadLength(DirOf(r)) = IF Rooted(r) /\ LaterOf(r) # {} THEN Min(LaterOf(r)) - 1 ELSE 0
  BY <1>2, DirHas, RootIs
<1> HIDE DEF c, hl
<1>6. CASE j > c
  <2>1. \A k \in slashes : k < j
    BY <1>2, <1>6
  <2>2. QED  BY <1>1, <1>6, <2>1 DEF c
<1>7. CASE ~(j > c)
  <2>1. c \in slashes /\ ~(c < j)
    BY <1>2, <1>3, <1>7
  <2>2. BaseAt(r, j, TRUE, p) =
          IF Rooted(r) /\ Two(slashes) /\ ~Two({k \in slashes : k <= j}) THEN p.head ELSE p.middle
    BY <1>1, <2>1
  <2>3. CASE p.head = p.middle
    <3>1. ~(j <= hl)
      BY <1>2, <1>4, <2>3
    <3>2. QED  BY <1>7, <2>2, <2>3, <3>1 DEF c, hl
  <2>4. CASE p.head # p.middle /\ ~Rooted(r)
    <3>1. hl = 0
      BY <1>4, <1>5, <2>4
    <3>2. ~(j <= hl)
      BY <3>1
    <3>3. QED  BY <1>7, <2>2, <2>4, <3>2 DEF c, hl
  <2>5. CASE p.head # p.middle /\ Rooted(r)
    <3> DEFINE start == StartOf(r)
               later == LaterOf(r)
    <3>1. start \in slashes /\ \A k \in slashes : k >= start
      BY <1>2, <2>5, RootIs
    <3>2. later = {k \in slashes : k > start}
      BY DEF LaterOf
    <3>3. hl = IF later # {} THEN Min(later) - 1 ELSE 0
      BY <1>4, <1>5, <2>5
    <3> HIDE DEF start, later
    <3>4. start \in Nat /\ \A k \in slashes : k \in Nat
      BY <1>2, <3>1
    <3>5. Two(slashes) <=> later # {}
      <4>1. Two(slashes) <=> \E y \in slashes : y # start
        BY <3>1, NotTwo
      <4>2. \A y \in slashes : y # start <=> y > start
        BY <3>1, <3>4
      <4>3. later # {} <=> \E y \in slashes : y > start
        BY <3>2
      <4>4. QED  BY <4>1, <4>2, <4>3
    <3>6. CASE later = {}
      <4>1. hl = 0
        BY <3>3, <3>6
      <4>2. ~(j <= hl)
        BY <4>1
      <4>3. QED  BY <1>7, <2>2, <3>5, <3>6, <4>2 DEF c, hl
    <3>7. CASE later # {}
      <4> DEFINE m == Min(later)
                 seen == {k \in slashes : k <= j}
      <4>1. later \subseteq Nat
        BY <3>2, <3>4
      <4>2. m \in later /\ \A k \in later : m <= k
        BY <3>7, <4>1, SmallestIs
      <4>3. hl = m - 1
        BY <3>3, <3>7
      <4> HIDE DEF m
      <4>4. m \in Nat /\ m \in slashes /\ m > start
        BY <3>2, <4>1, <4>2
      <4>5. Two(seen) <=> m <= j
        <5>1. CASE m <= j
          <6>1. m \in seen /\ start \in seen /\ m # start
            BY <1>2, <3>1, <3>4, <4>4, <5>1
          <6> HIDE DEF seen
          <6>2. QED  BY <5>1, <6>1 DEF Two
        <5>2. CASE ~(m <= j)
          <6>1. \A k \in seen : k = start
            <7> SUFFICES ASSUME NEW k \in seen PROVE k = start
              OBVIOUS
            <7>1. k \in slashes /\ k <= j /\ k \in Nat
              BY <3>4
            <7>2. ~(m <= k)
              BY <1>2, <4>4, <5>2, <7>1
            <7>3. ~(k \in later)
              BY <4>2, <7>2
            <7>4. QED  BY <3>1, <3>2, <3>4, <7>1, <7>3
          <6> HIDE DEF seen
          <6>2. QED  BY <5>2, <6>1 DEF Two
        <5>3. QED  BY <5>1, <5>2
      <4>6. (~Two(seen)) <=> j <= hl
        BY <1>2, <4>3, <4>4, <4>5
      <4>7. QED  BY <1>7, <2>2, <2>5, <3>5, <3>7, <4>6 DEF c, hl
    <3>8. QED  BY <3>6, <3>7
  <2>6. QED  BY <2>3, <2>4, <2>5
<1>8. QED  BY <1>6, <1>7

-----------------------------------------------------------------------------
(* The styles a token's parts have to read in.                             *)

Padded(r, k, base, p) == k \notin DOMAIN r \/ BaseAt(r, k, TRUE, p) # base \/ IsSpaceAt(r, k)

\* The style of a part of a program token whose base is v.
StyleWith(r, j, p, v) ==
  IF r[j].mark # "plain" THEN <<SgrOf(r[j].mark)>>
  ELSE IF IsSpaceAt(r, j) /\ (Padded(r, j - 1, v, p) \/ Padded(r, j + 1, v, p)) THEN <<SgrSpace>>
  ELSE IF v = None THEN <<>> ELSE <<v>>

LEMMA ProgramStyle ==
  ASSUME NEW r, NEW j, NEW p
  PROVE  StyleAt(r, j, TRUE, p) = StyleWith(r, j, p, BaseAt(r, j, TRUE, p))
BY DEF StyleAt, Padded, StyleWith

LEMMA ArgumentStyle ==
  ASSUME NEW r, NEW j, NEW p
  PROVE  StyleAt(r, j, FALSE, p) =
           IF r[j].mark # "plain" THEN <<SgrOf(r[j].mark)>>
           ELSE IF BaseAt(r, j, FALSE, p) = None THEN <<>> ELSE <<BaseAt(r, j, FALSE, p)>>
BY DEF StyleAt

\* A span of r: the places after off that have one base, as many as there are together.
SpanAt(r, p, off, span, base) ==
  /\ off \in Nat /\ off + Len(span) <= Len(r)
  /\ \A i \in 1..Len(span) : span[i] = r[off + i] /\ BaseAt(r, off + i, TRUE, p) = base
  /\ \/ Len(span) = 0
     \/ /\ off = 0 \/ BaseAt(r, off, TRUE, p) # base
        /\ off + Len(span) = Len(r) \/ BaseAt(r, off + Len(span) + 1, TRUE, p) # base

LEMMA PaddedIs ==
  ASSUME NEW r \in Seq(Parts), NEW p, NEW off, NEW span \in Seq(Parts), NEW base,
         SpanAt(r, p, off, span, base), NEW i \in 1..Len(span)
  PROVE  /\ Padded(r, off + i - 1, base, p) <=> (i = 1 \/ IsSpaceAt(span, i - 1))
         /\ Padded(r, off + i + 1, base, p) <=> (i = Len(span) \/ IsSpaceAt(span, i + 1))
<1> DEFINE n == Len(span)
           m == Len(r)
<1>1. DOMAIN r = 1..m /\ m \in Nat /\ n \in Nat /\ off \in Nat /\ i \in Nat
      /\ off + n <= m /\ 1 <= i /\ i <= n
  BY DEF SpanAt
<1>2. \A k \in 1..n : span[k] = r[off + k] /\ BaseAt(r, off + k, TRUE, p) = base
  BY DEF SpanAt
<1>3. /\ off = 0 \/ BaseAt(r, off, TRUE, p) # base
      /\ off + n = m \/ BaseAt(r, off + n + 1, TRUE, p) # base
  <2>1. n # 0
    BY <1>1
  <2>2. QED  BY Zenon, <2>1 DEF SpanAt
<1>4. \A k \in 1..n : IsSpaceAt(r, off + k) <=> IsSpaceAt(span, k)
  <2> SUFFICES ASSUME NEW k \in 1..n
               PROVE  IsSpaceAt(r, off + k) <=> IsSpaceAt(span, k)
    OBVIOUS
  <2>1. off + k \in 1..m
    BY <1>1
  <2>2. span[k] = r[off + k]
    BY <1>2
  <2>3. QED  BY <2>1, <2>2, SpaceIsInside
<1>5. \A k \in 1..n : Padded(r, off + k, base, p) <=> IsSpaceAt(span, k)
  <2> SUFFICES ASSUME NEW k \in 1..n
               PROVE  Padded(r, off + k, base, p) <=> IsSpaceAt(span, k)
    OBVIOUS
  <2>1. off + k \in 1..m
    BY <1>1
  <2>2. off + k \in DOMAIN r
    BY <1>1, <2>1
  <2>3. BaseAt(r, off + k, TRUE, p) = base
    BY <1>2
  <2>4. IsSpaceAt(r, off + k) <=> IsSpaceAt(span, k)
    BY <1>4
  <2>5. QED  BY <2>2, <2>3, <2>4 DEF Padded
<1>6. Padded(r, off + i - 1, base, p) <=> (i = 1 \/ IsSpaceAt(span, i - 1))
  <2>1. CASE i = 1
    <3>1. off + i - 1 = off
      BY <1>1, <2>1
    <3>2. off = 0 => ~(off \in DOMAIN r)
      BY <1>1
    <3>3. QED  BY <1>3, <2>1, <3>1, <3>2 DEF Padded
  <2>2. CASE i # 1
    <3>1. i - 1 \in 1..n /\ off + i - 1 = off + (i - 1)
      BY <1>1, <2>2
    <3>2. QED  BY <1>5, <2>2, <3>1
  <2>3. QED  BY <2>1, <2>2
<1>7. Padded(r, off + i + 1, base, p) <=> (i = n \/ IsSpaceAt(span, i + 1))
  <2>1. CASE i = n
    <3>1. off + i + 1 = off + n + 1
      BY <2>1
    <3>2. off + n = m => ~(off + n + 1 \in DOMAIN r)
      BY <1>1
    <3>3. QED  BY <1>3, <2>1, <3>1, <3>2 DEF Padded
  <2>2. CASE i # n
    <3>1. i + 1 \in 1..n /\ off + i + 1 = off + (i + 1)
      BY <1>1, <2>2
    <3>2. QED  BY <1>5, <2>2, <3>1
  <2>3. QED  BY <2>1, <2>2
<1>8. QED  BY <1>6, <1>7

\* What the painter lays on a part of a span is what the part has to read in.
ReadsAs(r, p, off, span, base) ==
  \A i \in 1..Len(span) : StyleOn(span, i, base, TRUE) = StyleAt(r, off + i, TRUE, p)

LEMMA StyleAgrees ==
  ASSUME NEW r \in Seq(Parts), NEW p, NEW off \in Nat, NEW span \in Seq(Parts), NEW base,
         SpanAt(r, p, off, span, base)
  PROVE  ReadsAs(r, p, off, span, base)
<1> SUFFICES ASSUME NEW i \in 1..Len(span)
             PROVE  StyleOn(span, i, base, TRUE) = StyleAt(r, off + i, TRUE, p)
  BY DEF ReadsAs
<1> DEFINE left == Padded(r, off + i - 1, base, p)
           right == Padded(r, off + i + 1, base, p)
           laid == StyleOn(span, i, base, TRUE)
           want == StyleAt(r, off + i, TRUE, p)
           flat == IF base = None THEN <<>> ELSE <<base>>
           noted == IsSpaceAt(span, i) /\ Notable(span, i)
<1>1. span[i] = r[off + i] /\ BaseAt(r, off + i, TRUE, p) = base
  BY DEF SpanAt
<1>2. off + i \in 1..Len(r) /\ off \in Nat /\ i \in Nat
  BY DEF SpanAt
<1>3. IsSpaceAt(r, off + i) <=> IsSpaceAt(span, i)
  BY <1>1, <1>2, SpaceIsInside
<1>4. /\ left <=> (i = 1 \/ IsSpaceAt(span, i - 1))
      /\ right <=> (i = Len(span) \/ IsSpaceAt(span, i + 1))
  BY PaddedIs
<1>5. want = IF r[off + i].mark # "plain" THEN <<SgrOf(r[off + i].mark)>>
             ELSE IF IsSpaceAt(r, off + i) /\ (left \/ right) THEN <<SgrSpace>> ELSE flat
  <2>1. want = StyleWith(r, off + i, p, BaseAt(r, off + i, TRUE, p))
    BY ProgramStyle
  <2>2. want = StyleWith(r, off + i, p, base)
    BY <1>1, <2>1
  <2> DEFINE j == off + i
  <2>3. /\ want = StyleWith(r, j, p, base)
        /\ left <=> Padded(r, j - 1, base, p)
        /\ right <=> Padded(r, j + 1, base, p)
    <3>1. want = StyleWith(r, j, p, base)
      BY <2>2
    <3>2. left <=> Padded(r, j - 1, base, p)
      <4>1. j - 1 = off + i - 1
        BY <1>2
      <4>2. QED  BY <4>1
    <3>3. right <=> Padded(r, j + 1, base, p)
      OBVIOUS
    <3> HIDE DEF want, left, right, j
    <3>4. QED  BY <3>1, <3>2, <3>3
  <2> HIDE DEF j, want, left, right, flat
  <2>4. want = IF r[j].mark # "plain" THEN <<SgrOf(r[j].mark)>>
               ELSE IF IsSpaceAt(r, j) /\ (left \/ right) THEN <<SgrSpace>> ELSE flat
    BY <2>3 DEF StyleWith, flat
  <2>5. QED  BY <2>4 DEF j
<1> HIDE DEF left, right
<1>6. IsSpaceAt(span, i) => (Notable(span, i) <=> (left \/ right))
  BY <1>4, NotableIs
<1> HIDE DEF want
<1>7. CASE span[i].mark # "plain"
  <2>1. laid = <<SgrOf(span[i].mark)>>
    BY <1>7 DEF StyleOn, Shines, ColourOf
  <2>2. want = <<SgrOf(span[i].mark)>>
    BY <1>1, <1>5, <1>7
  <2>3. QED  BY <2>1, <2>2 DEF want
<1>8. CASE span[i].mark = "plain" /\ noted
  <2>1. laid = <<SgrSpace>>
    BY <1>8 DEF StyleOn, Shines, ColourOf
  <2>2. want = <<SgrSpace>>
    BY <1>1, <1>3, <1>5, <1>6, <1>8
  <2>3. QED  BY <2>1, <2>2 DEF want
<1>9. CASE span[i].mark = "plain" /\ ~noted
  <2> HIDE DEF flat
  <2>1. laid = flat
    BY <1>9 DEF StyleOn, Shines, flat
  <2>2. want = flat
    BY <1>1, <1>3, <1>5, <1>6, <1>9
  <2>3. QED  BY <2>1, <2>2 DEF want
<1>10. QED  BY <1>7, <1>8, <1>9

LEMMA PaletteHas ==
  \A p \in Palettes : p.base # p.head /\ p.base # p.middle
BY DEF Palettes, Roles, Dim, None

LEMMA SpansStand ==
  ASSUME NEW r \in Seq(Parts), Len(r) >= 1, NEW p \in Palettes
  PROVE  /\ SpanAt(r, p, 0, SubSeq(DirOf(r), 1, HeadOf(r, p)), p.head)
         /\ SpanAt(r, p, HeadOf(r, p), After(DirOf(r), HeadOf(r, p)), p.middle)
         /\ SpanAt(r, p, CutOf(r), After(r, CutOf(r)), p.base)
         /\ Len(SubSeq(DirOf(r), 1, HeadOf(r, p))) = HeadOf(r, p)
         /\ HeadOf(r, p) + Len(After(DirOf(r), HeadOf(r, p))) = CutOf(r)
         /\ CutOf(r) + Len(After(r, CutOf(r))) = Len(r)
<1> DEFINE n == Len(r)
           c == CutOf(r)
           hl == HeadOf(r, p)
           d == DirOf(r)
           h == SubSeq(d, 1, hl)
           m == After(d, hl)
           b == After(r, c)
<1>1. c \in 0..n /\ hl \in 0..c /\ n \in Nat
  BY CutIs, HeadIs
<1>2. \A j \in 1..n : BaseAt(r, j, TRUE, p) = IF j > c THEN p.base
                                              ELSE IF j <= hl THEN p.head ELSE p.middle
  BY BaseIs
<1>3. p.base # p.head /\ p.base # p.middle
  BY PaletteHas
<1>4. hl # 0 => p.head # p.middle
  BY DEF HeadOf
<1>5. d = SubSeq(r, 1, c)
  BY DEF DirOf
<1> HIDE DEF n, c, hl, d
<1>6. /\ d \in Seq(Parts) /\ Len(d) = c /\ \A i \in 1..c : d[i] = r[i]
      /\ Len(b) = n - c /\ \A i \in 1..(n - c) : b[i] = r[c + i]
  BY <1>1, <1>5, SplitAt DEF n
<1>7. /\ Len(h) = hl /\ \A i \in 1..hl : h[i] = d[i]
      /\ Len(m) = c - hl /\ \A i \in 1..(c - hl) : m[i] = d[hl + i]
  BY <1>1, <1>6, SplitAt
<1> HIDE DEF h, m, b
<1>8. c \in Nat /\ hl \in Nat /\ hl <= c /\ c <= n
  BY <1>1
<1>9. SpanAt(r, p, 0, h, p.head)
  <2>1. \A i \in 1..hl : h[i] = r[0 + i] /\ BaseAt(r, 0 + i, TRUE, p) = p.head
    <3> SUFFICES ASSUME NEW i \in 1..hl
                 PROVE  h[i] = r[0 + i] /\ BaseAt(r, 0 + i, TRUE, p) = p.head
      OBVIOUS
    <3>1. i \in 1..c /\ i \in 1..n /\ 0 + i = i /\ i <= hl /\ ~(i > c)
      BY <1>1, <1>8
    <3>2. h[i] = r[i]
      BY <1>6, <1>7, <3>1
    <3>3. BaseAt(r, i, TRUE, p) = p.head
      BY <1>2, <3>1
    <3>4. QED  BY <3>1, <3>2, <3>3
  <2>2. hl = 0 \/ hl = n \/ BaseAt(r, 0 + hl + 1, TRUE, p) # p.head
    <3> SUFFICES ASSUME hl # 0, hl # n
                 PROVE  BaseAt(r, 0 + hl + 1, TRUE, p) # p.head
      OBVIOUS
    <3>1. hl + 1 \in 1..n /\ ~(hl + 1 <= hl) /\ 0 + hl + 1 = hl + 1
      BY <1>1, <1>8
    <3>2. BaseAt(r, hl + 1, TRUE, p) \in {p.base, p.middle}
      BY <1>2, <3>1
    <3>3. QED  BY <1>3, <1>4, <3>1, <3>2
  <2>3. 0 \in Nat /\ 0 + hl <= n /\ 0 + hl = hl
    BY <1>1, <1>8
  <2>4. QED  BY <1>7, <2>1, <2>2, <2>3 DEF SpanAt, n
<1>10. SpanAt(r, p, hl, m, p.middle)
  <2>1. \A i \in 1..(c - hl) : m[i] = r[hl + i] /\ BaseAt(r, hl + i, TRUE, p) = p.middle
    <3> SUFFICES ASSUME NEW i \in 1..(c - hl)
                 PROVE  m[i] = r[hl + i] /\ BaseAt(r, hl + i, TRUE, p) = p.middle
      OBVIOUS
    <3>1. hl + i \in 1..c /\ hl + i \in 1..n /\ ~(hl + i <= hl) /\ ~(hl + i > c)
      BY <1>1, <1>8
    <3>2. m[i] = r[hl + i]
      BY <1>6, <1>7, <3>1
    <3>3. BaseAt(r, hl + i, TRUE, p) = p.middle
      BY <1>2, <3>1
    <3>4. QED  BY <3>2, <3>3
  <2>2. c - hl = 0 \/ hl = 0 \/ BaseAt(r, hl, TRUE, p) # p.middle
    <3> SUFFICES ASSUME hl # 0
                 PROVE  BaseAt(r, hl, TRUE, p) # p.middle
      OBVIOUS
    <3>1. hl \in 1..n /\ hl <= hl /\ ~(hl > c)
      BY <1>1, <1>8
    <3>2. BaseAt(r, hl, TRUE, p) = p.head
      BY <1>2, <3>1
    <3>3. QED  BY <1>4, <3>2
  <2>3. hl + (c - hl) = n \/ BaseAt(r, hl + (c - hl) + 1, TRUE, p) # p.middle
    <3>1. hl + (c - hl) = c
      BY <1>8
    <3> SUFFICES ASSUME c # n
                 PROVE  BaseAt(r, c + 1, TRUE, p) # p.middle
      BY <3>1
    <3>2. c + 1 \in 1..n /\ c + 1 > c
      BY <1>1, <1>8
    <3>3. BaseAt(r, c + 1, TRUE, p) = p.base
      BY <1>2, <3>2
    <3>4. QED  BY <1>3, <3>3
  <2>4. hl + (c - hl) <= n
    BY <1>1, <1>8
  <2>5. QED  BY <1>7, <1>8, <2>1, <2>2, <2>3, <2>4 DEF SpanAt, n
<1>11. SpanAt(r, p, c, b, p.base)
  <2>1. \A i \in 1..(n - c) : b[i] = r[c + i] /\ BaseAt(r, c + i, TRUE, p) = p.base
    <3> SUFFICES ASSUME NEW i \in 1..(n - c)
                 PROVE  b[i] = r[c + i] /\ BaseAt(r, c + i, TRUE, p) = p.base
      OBVIOUS
    <3>1. c + i \in 1..n /\ c + i > c
      BY <1>1, <1>8
    <3>2. BaseAt(r, c + i, TRUE, p) = p.base
      BY <1>2, <3>1
    <3>3. QED  BY <1>6, <3>2
  <2>2. c = 0 \/ BaseAt(r, c, TRUE, p) # p.base
    <3> SUFFICES ASSUME c # 0
                 PROVE  BaseAt(r, c, TRUE, p) # p.base
      OBVIOUS
    <3>1. c \in 1..n /\ ~(c > c)
      BY <1>1, <1>8
    <3>2. BaseAt(r, c, TRUE, p) \in {p.head, p.middle}
      BY <1>2, <3>1
    <3>3. QED  BY <1>3, <3>2
  <2>3. c + (n - c) = n /\ c + (n - c) <= n
    BY <1>1, <1>8
  <2>4. QED  BY <1>6, <1>8, <2>1, <2>2, <2>3 DEF SpanAt, n
<1>12. hl + Len(m) = c /\ c + Len(b) = n
  BY <1>1, <1>6, <1>7, <1>8
<1>13. QED  BY <1>7, <1>9, <1>10, <1>11, <1>12 DEF n, c, hl, d, h, m, b

-----------------------------------------------------------------------------
(* A token, on a terminal.                                                 *)

\* What each part of a token has to show.
StyledParts(r, isProgram, p) ==
  [k \in 1..Len(r) |-> Styled(r[k].text, StyleAt(r, k, isProgram, p))]
StyledToken(r, isProgram, p) == FlattenSeq(StyledParts(r, isProgram, p))

LEMMA OneStyle ==
  ASSUME NEW base, IsBase(base)
  PROVE  (IF base = None THEN <<>> ELSE <<base>>) \in Seq(Int)
<1> DEFINE one == <<base>>
<1>1. one \in Seq(Int) /\ <<>> \in Seq(Int)
  BY DEF IsBase
<1> HIDE DEF one
<1>2. (IF base = None THEN <<>> ELSE one) \in Seq(Int)
  BY <1>1
<1>3. QED  BY <1>2 DEF one

LEMMA MarkStyle ==
  ASSUME NEW r \in Seq(Parts), NEW j \in 1..Len(r), r[j].mark # "plain"
  PROVE  <<SgrOf(r[j].mark)>> \in Seq(Int)
<1>1. ColourOf(r, j) = SgrOf(r[j].mark)
  BY DEF ColourOf
<1>2. SgrOf(r[j].mark) \in Int
  BY <1>1, ColourIs
<1>3. QED  BY <1>2

LEMMA BaseIsOne ==
  ASSUME NEW r \in Seq(Parts), NEW j \in 1..Len(r), NEW p \in Palettes, NEW isProgram \in BOOLEAN
  PROVE  IsBase(BaseAt(r, j, isProgram, p))
<1>1. /\ IsBase(p.head) /\ IsBase(p.middle) /\ IsBase(p.base)
      /\ IsBase(p.flag) /\ IsBase(p.value)
  BY PalettesAre
<1>2. CASE isProgram = TRUE
  <2>1. BaseAt(r, j, TRUE, p) \in {p.base, p.head, p.middle}
    BY BaseIs
  <2>2. IsBase(BaseAt(r, j, TRUE, p))
    BY <1>1, <2>1
  <2>3. QED  BY <1>2, <2>2
<1>3. CASE isProgram = FALSE
  <2>1. BaseAt(r, j, FALSE, p) \in {p.flag, p.value}
    BY DEF BaseAt
  <2>2. IsBase(BaseAt(r, j, FALSE, p))
    BY <1>1, <2>1
  <2>3. QED  BY <1>3, <2>2
<1>4. QED  BY <1>2, <1>3

LEMMA StyleIsInts ==
  ASSUME NEW r \in Seq(Parts), NEW j \in 1..Len(r), NEW p \in Palettes, NEW isProgram \in BOOLEAN
  PROVE  StyleAt(r, j, isProgram, p) \in Seq(Int)
<1> DEFINE base == BaseAt(r, j, isProgram, p)
           flat == IF base = None THEN <<>> ELSE <<base>>
           mark == <<SgrOf(r[j].mark)>>
           space == <<SgrSpace>>
<1>1. flat \in Seq(Int)
  BY BaseIsOne, OneStyle
<1>2. space \in Seq(Int)
  BY DEF SgrSpace
<1>3. r[j].mark # "plain" => mark \in Seq(Int)
  BY MarkStyle
<1>4. /\ r[j].mark # "plain" => StyleAt(r, j, isProgram, p) = mark
      /\ r[j].mark = "plain" => StyleAt(r, j, isProgram, p) \in {space, flat}
  <2>1. CASE isProgram = TRUE
    <3>1. StyleAt(r, j, TRUE, p) = StyleWith(r, j, p, BaseAt(r, j, TRUE, p))
      BY ProgramStyle
    <3>2. StyleAt(r, j, isProgram, p) = StyleWith(r, j, p, base)
      BY Zenon, <2>1, <3>1
    <3> HIDE DEF base
    <3>3. /\ r[j].mark # "plain" => StyleWith(r, j, p, base) = mark
          /\ r[j].mark = "plain" => StyleWith(r, j, p, base) \in {space, flat}
      BY DEF StyleWith
    <3> HIDE DEF mark, space, flat
    <3>4. QED  BY <3>2, <3>3
  <2>2. CASE isProgram = FALSE
    <3>1. /\ r[j].mark # "plain" => StyleAt(r, j, FALSE, p) = mark
          /\ r[j].mark = "plain" =>
               StyleAt(r, j, FALSE, p) = IF BaseAt(r, j, FALSE, p) = None THEN <<>>
                                         ELSE <<BaseAt(r, j, FALSE, p)>>
      BY ArgumentStyle
    <3>2. r[j].mark = "plain" => StyleAt(r, j, isProgram, p) = flat
      BY Zenon, <2>2, <3>1
    <3>3. r[j].mark # "plain" => StyleAt(r, j, isProgram, p) = mark
      BY Zenon, <2>2, <3>1
    <3> HIDE DEF mark, space, flat
    <3>4. QED  BY <3>2, <3>3
  <2>3. QED  BY <2>1, <2>2
<1> HIDE DEF flat, mark, space
<1>5. QED  BY <1>1, <1>2, <1>3, <1>4

LEMMA StyledPartsAre ==
  ASSUME NEW r \in Seq(Parts), NEW p \in Palettes, NEW isProgram \in BOOLEAN
  PROVE  /\ StyledParts(r, isProgram, p) \in Seq(Seq(Cells))
         /\ Len(StyledParts(r, isProgram, p)) = Len(r)
         /\ \A k \in 1..Len(r) : StyledParts(r, isProgram, p)[k]
                                   = Styled(r[k].text, StyleAt(r, k, isProgram, p))
<1> DEFINE s == StyledParts(r, isProgram, p)
           n == Len(r)
<1>1. n \in Nat
  OBVIOUS
<1>2. \A k \in 1..n : Styled(r[k].text, StyleAt(r, k, isProgram, p)) \in Seq(Cells)
  BY PartHas, StyleIsInts, StyledIs
<1>3. s = [k \in 1..n |-> Styled(r[k].text, StyleAt(r, k, isProgram, p))]
  BY DEF StyledParts
<1> HIDE DEF s, n
<1>4. s \in [1..n -> Seq(Cells)]
  BY <1>2, <1>3
<1>5. s \in Seq(Seq(Cells)) /\ Len(s) = n
  BY <1>1, <1>4
<1>6. QED  BY <1>3, <1>5 DEF s, n

\* What the tokens' parts have shown, one after the other.
LEMMA StyledPiles ==
  ASSUME NEW r \in Seq(Parts), NEW p \in Palettes, NEW isProgram \in BOOLEAN
  PROVE  \E Q : /\ Q \in [0..Len(r) -> Seq(Cells)] /\ Q[0] = <<>>
                /\ Q[Len(r)] = StyledToken(r, isProgram, p)
                /\ \A k \in 1..Len(r) :
                     Q[k] = Q[k - 1] \o Styled(r[k].text, StyleAt(r, k, isProgram, p))
<1> DEFINE s == StyledParts(r, isProgram, p)
<1>1. /\ s \in Seq(Seq(Cells)) /\ Len(s) = Len(r)
      /\ \A k \in 1..Len(r) : s[k] = Styled(r[k].text, StyleAt(r, k, isProgram, p))
  BY StyledPartsAre
<1>2. StyledToken(r, isProgram, p) = FlattenSeq(s)
  BY DEF StyledToken
<1> HIDE DEF s
<1>3. PICK Q : Piles(Q, Cells, s) /\ Q[Len(s)] = FlattenSeq(s)
  BY <1>1, FlattenPiles
<1>4. /\ Q \in [0..Len(r) -> Seq(Cells)] /\ Q[0] = <<>>
      /\ \A k \in 1..Len(r) : Q[k] = Q[k - 1] \o s[k]
  BY <1>1, <1>3 DEF Piles
<1>5. \A k \in 1..Len(r) : Q[k] = Q[k - 1] \o Styled(r[k].text, StyleAt(r, k, isProgram, p))
  BY <1>1, <1>4
<1>6. QED  BY <1>1, <1>2, <1>3, <1>4, <1>5

LEMMA StyledTokenIs ==
  ASSUME NEW r \in Seq(Parts), NEW p \in Palettes, NEW isProgram \in BOOLEAN
  PROVE  StyledToken(r, isProgram, p) \in Seq(Cells)
<1>1. PICK Q : /\ Q \in [0..Len(r) -> Seq(Cells)]
               /\ Q[Len(r)] = StyledToken(r, isProgram, p)
  BY StyledPiles
<1>2. Len(r) \in 0..Len(r)
  OBVIOUS
<1>3. QED  BY <1>1, <1>2

\* A span of a program token shows what its parts have to show.
LEMMA SpanShows ==
  ASSUME NEW r \in Seq(Parts), NEW p, NEW off \in Nat, NEW span \in Seq(Parts), NEW base,
         IsBase(base), SpanAt(r, p, off, span, base), NEW z \in Seq(Cells),
         NEW Q \in [0..Len(r) -> Seq(Cells)],
         \A k \in 1..Len(r) : Q[k] = Q[k - 1] \o Styled(r[k].text, StyleAt(r, k, TRUE, p))
  PROVE  /\ Paint(span, base, TRUE) \in Seq(Int)
         /\ Shows(Screen(<<>>, z \o Q[off]), Paint(span, base, TRUE),
                  Screen(<<>>, z \o Q[off + Len(span)]))
<1> DEFINE n == Len(span)
<1>1. off \in Nat /\ n \in Nat /\ Len(r) \in Nat /\ off + n <= Len(r)
  BY DEF SpanAt
<1>2. \A i \in 0..n : Q[off + i] \in Seq(Cells)
  <2>1. \A i \in 0..n : off + i \in 0..Len(r)
    BY <1>1
  <2>2. QED  BY <2>1
<1>3. ReadsAs(r, p, off, span, base)
  BY StyleAgrees
<1>4. ASSUME NEW i \in 1..n
      PROVE  Q[off + i] = Q[off + i - 1] \o Styled(span[i].text, StyleOn(span, i, base, TRUE))
  <2>1. off + i \in 1..Len(r) /\ (off + i) - 1 = off + i - 1
    BY <1>1
  <2>2. Q[off + i] = Q[off + i - 1] \o Styled(r[off + i].text, StyleAt(r, off + i, TRUE, p))
    BY <2>1
  <2>3. span[i] = r[off + i]
    BY DEF SpanAt
  <2>4. StyleOn(span, i, base, TRUE) = StyleAt(r, off + i, TRUE, p)
    BY <1>3 DEF ReadsAs
  <2>5. QED  BY Zenon, <2>2, <2>3, <2>4
<1>5. TRUE \in BOOLEAN
  OBVIOUS
<1>6. QED  BY <1>1, <1>2, <1>4, <1>5, PaintShows

LEMMA ProgramShows ==
  ASSUME NEW r \in Seq(Parts), Len(r) >= 1, NEW p \in Palettes, NEW z \in Seq(Cells)
  PROVE  /\ PaintProgram(r, p) \in Seq(Int)
         /\ Shows(Screen(<<>>, z), PaintProgram(r, p), Screen(<<>>, z \o StyledToken(r, TRUE, p)))
<1> DEFINE h == SubSeq(DirOf(r), 1, HeadOf(r, p))
           m == After(DirOf(r), HeadOf(r, p))
           b == After(r, CutOf(r))
           hl == HeadOf(r, p)
           c == CutOf(r)
           n == Len(r)
           u == Paint(h, p.head, TRUE)
           v == Paint(m, p.middle, TRUE)
           w == Paint(b, p.base, TRUE)
           all == StyledToken(r, TRUE, p)
<1>1. /\ PaintProgram(r, p) = u \o v \o w
      /\ h \in Seq(Parts) /\ m \in Seq(Parts) /\ b \in Seq(Parts)
  BY SpansAre
<1>2. /\ SpanAt(r, p, 0, h, p.head) /\ SpanAt(r, p, hl, m, p.middle) /\ SpanAt(r, p, c, b, p.base)
      /\ Len(h) = hl /\ hl + Len(m) = c /\ c + Len(b) = n
  BY SpansStand
<1>3. IsBase(p.head) /\ IsBase(p.middle) /\ IsBase(p.base)
  BY PalettesAre
<1>4. hl \in Nat /\ c \in Nat /\ 0 + Len(h) = hl
  BY <1>1, <1>2, CutIs, HeadIs
<1>5. PICK Q : /\ Q \in [0..n -> Seq(Cells)] /\ Q[0] = <<>>
               /\ Q[n] = all
               /\ \A k \in 1..n : Q[k] = Q[k - 1] \o Styled(r[k].text, StyleAt(r, k, TRUE, p))
  BY StyledPiles
<1> DEFINE at(k) == Screen(<<>>, z \o Q[k])
<1> HIDE DEF h, m, b, hl, c
<1>6. u \in Seq(Int) /\ Shows(at(0), u, at(0 + Len(h)))
  BY <1>1, <1>2, <1>3, <1>5, SpanShows
<1>7. v \in Seq(Int) /\ Shows(at(hl), v, at(hl + Len(m)))
  BY <1>1, <1>2, <1>3, <1>4, <1>5, SpanShows
<1>8. w \in Seq(Int) /\ Shows(at(c), w, at(c + Len(b)))
  BY <1>1, <1>2, <1>3, <1>4, <1>5, SpanShows
<1>9. at(0) = Screen(<<>>, z) /\ at(n) = Screen(<<>>, z \o all)
  <2>1. z \o <<>> = z
    OBVIOUS
  <2>2. QED  BY <1>5, <2>1
<1> HIDE DEF u, v, w, at, n, all
<1>10. Shows(at(0), u, at(hl)) /\ Shows(at(hl), v, at(c)) /\ Shows(at(c), w, at(n))
  BY <1>2, <1>4, <1>6, <1>7, <1>8
<1>11. u \o v \in Seq(Int)
  BY <1>6, <1>7
<1>12. u \o v \o w \in Seq(Int)
  BY <1>8, <1>11
<1>13. Shows(at(0), u \o v, at(c))
  BY <1>6, <1>7, <1>10, LeadsBoth DEF Shows
<1>14. Shows(at(0), u \o v \o w, at(n))
  BY <1>8, <1>10, <1>11, <1>13, LeadsBoth DEF Shows
<1>15. QED  BY <1>1, <1>9, <1>12, <1>14 DEF all

LEMMA ArgumentShows ==
  ASSUME NEW r \in Seq(Parts), NEW p \in Palettes, NEW z \in Seq(Cells)
  PROVE  /\ PaintArgument(r, p) \in Seq(Int)
         /\ Shows(Screen(<<>>, z), PaintArgument(r, p), Screen(<<>>, z \o StyledToken(r, FALSE, p)))
<1> DEFINE base == IF IsPlain(r[1], Dash) THEN p.flag ELSE p.value
           n == Len(r)
           all == StyledToken(r, FALSE, p)
<1>1. PaintArgument(r, p) = Paint(r, base, FALSE)
  BY DEF PaintArgument
<1>2. IsBase(base)
  BY PalettesAre
<1>3. \A i \in 1..n : BaseAt(r, i, FALSE, p) = base
  BY DEF BaseAt
<1> HIDE DEF base
<1>4. n \in Nat
  OBVIOUS
<1>5. ASSUME NEW i \in 1..n
      PROVE  StyleOn(r, i, base, FALSE) = StyleAt(r, i, FALSE, p)
  <2> DEFINE flat == IF base = None THEN <<>> ELSE <<base>>
             mark == <<SgrOf(r[i].mark)>>
             want == IF r[i].mark # "plain" THEN mark ELSE flat
  <2>1. BaseAt(r, i, FALSE, p) = base
    BY <1>3
  <2>2. StyleAt(r, i, FALSE, p)
          = IF r[i].mark # "plain" THEN mark
            ELSE IF BaseAt(r, i, FALSE, p) = None THEN <<>> ELSE <<BaseAt(r, i, FALSE, p)>>
    BY ArgumentStyle
  <2>3. StyleAt(r, i, FALSE, p) = want
    BY Zenon, <2>1, <2>2
  <2>4. StyleOn(r, i, base, FALSE) = want
    BY DEF StyleOn, Shines, ColourOf
  <2> HIDE DEF want
  <2>5. QED  BY <2>3, <2>4
<1>6. PICK Q : /\ Q \in [0..n -> Seq(Cells)] /\ Q[0] = <<>>
               /\ Q[n] = all
               /\ \A k \in 1..n : Q[k] = Q[k - 1] \o Styled(r[k].text, StyleAt(r, k, FALSE, p))
  BY StyledPiles
<1>7. \A i \in 0..n : Q[0 + i] \in Seq(Cells)
  <2>1. \A i \in 0..n : 0 + i = i
    BY <1>4
  <2>2. QED  BY <1>6, <2>1
<1>8. ASSUME NEW i \in 1..n
      PROVE  Q[0 + i] = Q[0 + i - 1] \o Styled(r[i].text, StyleOn(r, i, base, FALSE))
  <2>1. 0 + i = i /\ 0 + i - 1 = i - 1
    BY <1>4
  <2>2. Q[i] = Q[i - 1] \o Styled(r[i].text, StyleAt(r, i, FALSE, p))
    BY <1>6
  <2>3. QED  BY Zenon, <1>5, <2>1, <2>2
<1>9. 0 \in Nat /\ 0 + n = n /\ FALSE \in BOOLEAN
  BY <1>4
<1>10. /\ Paint(r, base, FALSE) \in Seq(Int)
       /\ Shows(Screen(<<>>, z \o Q[0]), Paint(r, base, FALSE), Screen(<<>>, z \o Q[0 + n]))
  BY <1>2, <1>7, <1>8, <1>9, PaintShows
<1>11. z \o Q[0] = z /\ Q[0 + n] = all
  <2>1. z \o <<>> = z
    OBVIOUS
  <2>2. QED  BY <1>6, <1>9, <2>1
<1> HIDE DEF n, all
<1>12. QED  BY <1>1, <1>10, <1>11 DEF all

LEMMA TokenShows ==
  ASSUME NEW r \in Seq(Parts), Len(r) >= 1, NEW p \in Palettes, NEW z \in Seq(Cells),
         NEW isProgram \in BOOLEAN
  PROVE  /\ DrawnToken(r, isProgram, p) \in Seq(Int)
         /\ Shows(Screen(<<>>, z), DrawnToken(r, isProgram, p),
                  Screen(<<>>, z \o StyledToken(r, isProgram, p)))
<1>1. CASE isProgram = TRUE
  <2>1. DrawnToken(r, isProgram, p) = PaintProgram(r, p)
    BY <1>1 DEF DrawnToken
  <2>2. QED  BY <1>1, <2>1, ProgramShows
<1>2. CASE isProgram = FALSE
  <2>1. DrawnToken(r, isProgram, p) = PaintArgument(r, p)
    BY <1>2 DEF DrawnToken
  <2>2. QED  BY <1>2, <2>1, ArgumentShows
<1>3. QED  BY <1>1, <1>2

LEMMA TokenHasParts ==
  ASSUME NEW t \in Seq(Unit)
  PROVE  Len(RenderToken(t)) >= 1
<1> DEFINE r == RenderToken(t)
<1>1. r \in Seq(Parts)
  <2>1. << >> \in Seq(Seq(Nat))
    OBVIOUS
  <2>2. QED  BY <2>1, TokenReads
<1>2. CASE IsBare(t, r)
  <2>1. r = PlainParts(t) /\ t # <<>>
    BY <1>2 DEF IsBare
  <2>2. Len(t) >= 1
    BY <2>1
  <2>3. Len(PlainParts(t)) = Len(t)
    BY DEF PlainParts
  <2>4. QED  BY <2>1, <2>2, <2>3
<1>3. CASE InQuotes(t, r)
  <2> DEFINE a == <<Ours>>
             b == FlattenSeq(QuotedParts(t))
  <2>1. QuotedParts(t) \in Seq(Seq(Parts))
    BY QuotedPartsIs
  <2>2. a \in Seq(Parts) /\ Len(a) = 1 /\ b \in Seq(Parts)
    BY <2>1, OursIs, FlattenIsSeq
  <2>3. r = a \o b \o a
    BY <1>3 DEF InQuotes
  <2> HIDE DEF a, b
  <2> DEFINE c == a \o b
  <2>4. c \in Seq(Parts) /\ Len(c) = Len(a) + Len(b) /\ r = c \o a
    <3>1. a \o b \in Seq(Parts)
      BY <2>2
    <3>2. Len(a \o b) = Len(a) + Len(b)
      BY <2>2, ConcatProperties
    <3>3. QED  BY <2>3, <3>1, <3>2
  <2> HIDE DEF c
  <2>5. Len(c \o a) = Len(c) + Len(a)
    BY <2>2, <2>4, ConcatProperties
  <2>6. Len(c) \in Nat /\ Len(a) = 1
    BY <2>2, <2>4
  <2>7. QED  BY <2>4, <2>5, <2>6
<1>4. QED  BY <1>2, <1>3, RenderIs

-----------------------------------------------------------------------------
(* The line, on a terminal.                                                *)

TerminalRuns(at, st, drawing) ==
  at = [i \in 0..Len(drawing) |-> IF i = 0 THEN st ELSE Put(at[i - 1], drawing[i])]

LEMMA TerminalUnfolds ==
  ASSUME NEW st, NEW drawing
  PROVE  TerminalFrom(st, drawing) = (CHOOSE at : TerminalRuns(at, st, drawing))[Len(drawing)]
BY DEF TerminalFrom, TerminalRuns

LEMMA TerminalGoes ==
  ASSUME NEW drawing \in Seq(Int), NEW x, NEW y, Shows(x, drawing, y)
  PROVE  TerminalFrom(x, drawing) = y
<1> DEFINE n == Len(drawing)
<1>1. PICK f \in [0..n -> Screens] : Through(f, TermStep, x, drawing, y)
  BY DEF Shows, Leads
<1>2. n \in Nat /\ \A i \in 1..n : drawing[i] \in Int
  OBVIOUS
<1>3. f[0] = x /\ f[n] = y /\ \A i \in 1..n : f[i] = TermStep[<<f[i - 1], drawing[i]>>]
  BY <1>1 DEF Through
<1>4. \A i \in 1..n : f[i] = Put(f[i - 1], drawing[i])
  <2> SUFFICES ASSUME NEW i \in 1..n
               PROVE  f[i] = Put(f[i - 1], drawing[i])
    OBVIOUS
  <2>1. i - 1 \in 0..n
    BY <1>2
  <2>2. f[i - 1] \in Screens /\ drawing[i] \in Int
    BY <1>1, <1>2, <2>1
  <2>3. TermStep[<<f[i - 1], drawing[i]>>] = Put(f[i - 1], drawing[i])
    BY <2>2 DEF TermStep
  <2>4. QED  BY <1>3, <2>3
<1>5. f = [i \in 0..n |-> IF i = 0 THEN x ELSE Put(f[i - 1], drawing[i])]
  <2>1. f = [i \in 0..n |-> f[i]]
    BY <1>1
  <2>2. \A i \in 0..n : f[i] = IF i = 0 THEN x ELSE Put(f[i - 1], drawing[i])
    <3>1. \A i \in 0..n : i = 0 \/ i \in 1..n
      BY <1>2
    <3>2. \A i \in 1..n : i # 0
      OBVIOUS
    <3>3. QED  BY <1>3, <1>4, <3>1, <3>2
  <2>3. QED  BY <2>1, <2>2
<1>6. \E at : TerminalRuns(at, x, drawing)
  BY <1>5 DEF TerminalRuns
<1> DEFINE at == CHOOSE a : TerminalRuns(a, x, drawing)
<1>7. TerminalRuns(at, x, drawing) /\ TerminalFrom(x, drawing) = at[n]
  BY <1>6, TerminalUnfolds
<1> HIDE DEF at
<1>8. \A i \in 0..n : at[i] = IF i = 0 THEN x ELSE Put(at[i - 1], drawing[i])
  BY <1>7 DEF TerminalRuns
<1>9. at[0] = f[0]
  <2>1. 0 \in 0..n
    BY <1>2
  <2>2. QED  BY <1>3, <1>8, <2>1
<1>10. \A i \in 1..n : at[i - 1] = f[i - 1] => at[i] = f[i]
  <2>1. \A i \in 1..n : i \in 0..n /\ i # 0
    BY <1>2
  <2>2. QED  BY <1>4, <1>8, <2>1
<1> HIDE DEF n
<1>11. at[n] = f[n]
  BY <1>2, <1>9, <1>10, StepByStep
<1>12. QED  BY <1>3, <1>7, <1>11

\* What is shown between two tokens.
PlainSpace == [char |-> Space, sgr |-> <<>>]

LEMMA SpaceIsShown ==
  ASSUME NEW z \in Seq(Cells)
  PROVE  /\ PlainSpace \in Cells
         /\ Shows(Screen(<<>>, z), <<Space>>, Screen(<<>>, z \o <<PlainSpace>>))
<1> DEFINE none == <<>>
           text == <<Space>>
<1>1. none \in Seq(Int) /\ text \in Seq(Nat)
  BY DEF Space
<1>2. PlainSpace \in Cells
  BY <1>1 DEF PlainSpace, Cells, Space
<1>3. Styled(text, none) = <<PlainSpace>>
  BY DEF Styled, PlainSpace
<1> HIDE DEF none, text
<1>4. Shows(Screen(none, z), text, Screen(none, z \o Styled(text, none)))
  BY <1>1, TextIsShown
<1>5. QED  BY <1>2, <1>3, <1>4 DEF none, text

\* The line that has to be shown for the tokens' parts.
StyledLine(r, n, p) ==
  FlattenSeq([i \in 1..n |-> IF i = 1 THEN StyledToken(r[i], i = 1, p)
                             ELSE <<PlainSpace>> \o StyledToken(r[i], i = 1, p)])

LEMMA LineShows ==
  ASSUME NEW r, NEW n \in Nat, n >= 1, r \in [1..n -> Seq(Parts)],
         \A k \in 1..n : Len(r[k]) >= 1, NEW p \in Palettes
  PROVE  Terminal(Spaced([i \in 1..n |-> DrawnToken(r[i], i = 1, p)])).shown = StyledLine(r, n, p)
<1> DEFINE d == [i \in 1..n |-> DrawnToken(r[i], i = 1, p)]
           e == [i \in 1..n |-> StyledToken(r[i], i = 1, p)]
           g == <<PlainSpace>>
<1>1. \A k \in 1..n : r[k] \in Seq(Parts)
  OBVIOUS
<1>2. \A k \in 1..n : \A z \in Seq(Cells) :
        /\ DrawnToken(r[k], k = 1, p) \in Seq(Int)
        /\ Shows(Screen(<<>>, z), DrawnToken(r[k], k = 1, p),
                 Screen(<<>>, z \o StyledToken(r[k], k = 1, p)))
  BY <1>1, TokenShows
<1>3. \A k \in 1..n : StyledToken(r[k], k = 1, p) \in Seq(Cells)
  BY <1>1, StyledTokenIs
<1>4. \A k \in 1..n : DrawnToken(r[k], k = 1, p) \in Seq(Int)
  <2>1. << >> \in Seq(Cells)
    OBVIOUS
  <2>2. QED  BY <1>2, <2>1
<1>5. d \in [1..n -> Seq(Int)] /\ e \in [1..n -> Seq(Cells)]
  BY <1>3, <1>4
<1>6. \A k \in 1..n : d[k] = DrawnToken(r[k], k = 1, p) /\ e[k] = StyledToken(r[k], k = 1, p)
  OBVIOUS
<1>7. StyledLine(r, n, p) = FlattenSeq([i \in DOMAIN e |-> IF i = 1 THEN e[i] ELSE g \o e[i]])
  BY DEF StyledLine
<1> HIDE DEF d, e
<1>8. d \in Seq(Seq(Int)) /\ Len(d) = n /\ e \in Seq(Seq(Cells)) /\ Len(e) = n
  BY <1>5
<1>9. g \in Seq(Cells) /\ Space \in Int
  <2>1. << >> \in Seq(Cells)
    OBVIOUS
  <2>2. PlainSpace \in Cells
    BY <2>1, SpaceIsShown
  <2>3. QED  BY <2>2 DEF Space
<1> HIDE DEF g
<1>10. PICK X, Y : Grown(Cells, g, e, X, Y)
  BY <1>8, <1>9, Grow
<1>11. /\ X \in [1..n -> Seq(Cells)] /\ Y \in [1..n -> Seq(Cells)] /\ X[1] = <<>>
       /\ \A k \in 1..n : Y[k] = X[k] \o e[k]
       /\ \A k \in 2..n : X[k] = Y[k - 1] \o g
  BY <1>8, <1>10 DEF Grown
<1>12. Y[n] = StyledLine(r, n, p)
  BY <1>7, <1>8, <1>10 DEF Grown
<1> DEFINE before == [k \in 1..n |-> Screen(<<>>, X[k])]
           after == [k \in 1..n |-> Screen(<<>>, Y[k])]
<1>13. before \in [1..n -> Screens] /\ after \in [1..n -> Screens]
  <2>1. << >> \in Seq(Int)
    OBVIOUS
  <2>2. \A k \in 1..n : Screen(<<>>, X[k]) \in Screens /\ Screen(<<>>, Y[k]) \in Screens
    BY <1>11, <2>1, ScreenIs
  <2>3. QED  BY <2>2
<1>14. \A k \in 1..n : before[k] = Screen(<<>>, X[k]) /\ after[k] = Screen(<<>>, Y[k])
  OBVIOUS
<1> HIDE DEF before, after
<1>15. ASSUME NEW k \in 1..n
       PROVE  Leads(Screens, TermStep, before[k], d[k], after[k])
  <2>1. X[k] \in Seq(Cells)
    BY <1>11
  <2>2. Shows(Screen(<<>>, X[k]), DrawnToken(r[k], k = 1, p),
              Screen(<<>>, X[k] \o StyledToken(r[k], k = 1, p)))
    BY <1>2, <2>1
  <2>3. Y[k] = X[k] \o StyledToken(r[k], k = 1, p)
    <3>1. e[k] = StyledToken(r[k], k = 1, p)
      BY Zenon, <1>6
    <3>2. Y[k] = X[k] \o e[k]
      BY <1>11
    <3>3. QED  BY <3>1, <3>2
  <2>4. Shows(Screen(<<>>, X[k]), d[k], Screen(<<>>, Y[k]))
    BY Zenon, <1>6, <2>2, <2>3
  <2>5. QED  BY <1>14, <2>4 DEF Shows
<1>16. ASSUME NEW k \in 2..n
       PROVE  Leads(Screens, TermStep, after[k - 1], <<Space>>, before[k])
  <2>1. k - 1 \in 1..n /\ k \in 1..n
    OBVIOUS
  <2>2. Y[k - 1] \in Seq(Cells)
    BY <1>11, <2>1
  <2>3. Shows(Screen(<<>>, Y[k - 1]), <<Space>>, Screen(<<>>, Y[k - 1] \o <<PlainSpace>>))
    BY <2>2, SpaceIsShown
  <2>4. X[k] = Y[k - 1] \o <<PlainSpace>>
    BY <1>11 DEF g
  <2>5. Shows(Screen(<<>>, Y[k - 1]), <<Space>>, Screen(<<>>, X[k]))
    BY Zenon, <2>3, <2>4
  <2>6. after[k - 1] = Screen(<<>>, Y[k - 1]) /\ before[k] = Screen(<<>>, X[k])
    BY <1>14, <2>1
  <2>7. QED  BY <2>5, <2>6 DEF Shows
<1>17. Leads(Screens, TermStep, before[1], Spaced(d), after[n])
  BY <1>8, <1>9, <1>13, <1>15, <1>16, SpacedLeads
<1>18. Spaced(d) \in Seq(Int)
  BY <1>8, <1>9, SpacedIsSeq
<1>19. 1 \in 1..n /\ n \in 1..n
  OBVIOUS
<1>20. Shows(Screen(<<>>, <<>>), Spaced(d), Screen(<<>>, Y[n]))
  <2>1. before[1] = Screen(<<>>, <<>>) /\ after[n] = Screen(<<>>, Y[n])
    BY <1>11, <1>14, <1>19
  <2>2. QED  BY <1>17, <2>1 DEF Shows
<1>21. TerminalFrom(Screen(<<>>, <<>>), Spaced(d)) = Screen(<<>>, Y[n])
  BY <1>18, <1>20, TerminalGoes
<1>22. Terminal(Spaced(d)) = Screen(<<>>, Y[n])
  BY <1>21 DEF Terminal, Screen
<1>23. Terminal(Spaced(d)).shown = Y[n]
  BY <1>22 DEF Screen
<1>24. QED  BY <1>12, <1>23 DEF d

LEMMA ExpectedIs ==
  ASSUME WordsAreBytes, NEW p \in Palettes
  PROVE  LET toks == CommandTokens(path, argv)
         IN  Expected(p) = StyledLine(Rendered(toks), Len(toks), p)
<1> DEFINE toks == CommandTokens(path, argv)
           n == Len(toks)
           r == Rendered(toks)
           styled(i) ==
             LET q == RenderToken(Decode(toks[i]))
             IN  FlattenSeq([k \in DOMAIN q |->
                   [c \in DOMAIN q[k].text |->
                     [char |-> q[k].text[c], sgr |-> StyleAt(q, k, i = 1, p)]]])
           gap == <<[char |-> Space, sgr |-> <<>>]>>
<1>1. toks \in Seq(Seq(Octets)) /\ n >= 1
  BY WordsAreTokens
<1>2. Expected(p)
        = FlattenSeq([i \in DOMAIN toks |-> IF i = 1 THEN styled(i) ELSE gap \o styled(i)])
  BY DEF Expected
<1>3. gap = <<PlainSpace>>
  BY DEF PlainSpace
<1> HIDE DEF toks, gap
<1>4. n \in Nat /\ DOMAIN toks = 1..n /\ \A i \in 1..n : r[i] = RenderToken(Decode(toks[i]))
  BY <1>1 DEF Rendered
<1>5. r \in [1..n -> Seq(Parts)]
  BY <1>1, RenderedIs
<1> HIDE DEF r, n
<1>6. \A i \in 1..n : styled(i) = StyledToken(r[i], i = 1, p)
  <2> SUFFICES ASSUME NEW i \in 1..n
               PROVE  styled(i) = StyledToken(r[i], i = 1, p)
    OBVIOUS
  <2> DEFINE q == RenderToken(Decode(toks[i]))
  <2>1. q = r[i] /\ q \in Seq(Parts)
    BY <1>4, <1>5
  <2>2. styled(i) = FlattenSeq([k \in DOMAIN q |-> Styled(q[k].text, StyleAt(q, k, i = 1, p))])
    BY Zenon DEF Styled
  <2> HIDE DEF q, styled
  <2>3. DOMAIN q = 1..Len(q)
    BY <2>1
  <2>4. StyledToken(q, i = 1, p)
          = FlattenSeq([k \in 1..Len(q) |-> Styled(q[k].text, StyleAt(q, k, i = 1, p))])
    BY Zenon DEF StyledToken, StyledParts
  <2>5. QED  BY Zenon, <2>1, <2>2, <2>3, <2>4
<1> HIDE DEF styled
<1>7. [i \in DOMAIN toks |-> IF i = 1 THEN styled(i) ELSE gap \o styled(i)]
        = [i \in 1..n |-> IF i = 1 THEN StyledToken(r[i], i = 1, p)
                          ELSE <<PlainSpace>> \o StyledToken(r[i], i = 1, p)]
  BY Zenon, <1>3, <1>4, <1>6
<1>8. QED  BY Zenon, <1>2, <1>7 DEF StyledLine, n, r, toks

LEMMA WordsAreStyled == WordsAreBytes => StylesMeanWhatTheyMark
<1> SUFFICES ASSUME WordsAreBytes, NEW p \in Palettes
             PROVE  Terminal(RenderCommandLine(path, argv, p)).shown = Expected(p)
  BY DEF StylesMeanWhatTheyMark, Shown
<1> DEFINE toks == CommandTokens(path, argv)
           n == Len(toks)
           r == Rendered(toks)
<1>1. /\ RenderCommandLine(path, argv, p)
           = Spaced([i \in 1..n |-> DrawnToken(r[i], i = 1, p)])
      /\ n \in Nat /\ n >= 1 /\ r \in [1..n -> Seq(Parts)]
  BY LinesAre
<1>2. Expected(p) = StyledLine(r, n, p)
  BY ExpectedIs
<1>3. toks \in Seq(Seq(Octets))
  BY WordsAreTokens
<1>4. \A k \in 1..n : Len(r[k]) >= 1
  <2>1. \A k \in 1..n : toks[k] \in Seq(Octets) /\ r[k] = RenderToken(Decode(toks[k]))
    BY <1>3 DEF Rendered
  <2>2. \A k \in 1..n : Decode(toks[k]) \in Seq(Unit)
    BY <2>1, DecodeIsUnits
  <2> HIDE DEF toks, n, r
  <2>3. QED  BY <2>1, <2>2, TokenHasParts
<1> HIDE DEF toks, n, r
<1>5. QED  BY <1>1, <1>2, <1>4, LineShows

\* Whatever a command holds, of any length: on a terminal every character of the line
\* is in the one style of its mark and its role, and what is between two tokens is plain.
THEOREM StylesMeanTheirMarks == CallsSpec => []StylesMeanWhatTheyMark
<1>1. CallsInit => WordsAreBytes
  BY InitWords DEF CallsInit
<1>2. QED
  BY <1>1, CallsKeepWords, WordsAreStyled, PTL DEF CallsSpec
=============================================================================
