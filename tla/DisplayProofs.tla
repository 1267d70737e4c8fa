---------------------------- MODULE DisplayProofs ---------------------------
(***************************************************************************)
(* Theorems about Display: its types, that the sheet keeps to its budget   *)
(* for values of any length, that the rows keep their order however        *)
(* write(2) splits them, that the two plugins' walks through sudo's arrays *)
(* come to the same rows, and that "(see terminal)" points at a row that   *)
(* is there.                                                               *)
(***************************************************************************)
EXTENDS Display, SequenceTheorems, TLAPS

\* An item takes its cap or the marker's length at most.
LEMMA ItemBound ==
  ASSUME NEW n \in Nat, NEW cap \in Nat
  PROVE  Item(n, cap) \in Nat /\ (Item(n, cap) <= cap \/ Item(n, cap) = SeeTerminal)
BY DEF Item, SeeTerminal

\* The command has at least 121 characters, and with them the rest fits exactly.
LEMMA BudgetBound ==
  ASSUME NEW user \in Nat, NEW cwd \in Nat, NEW code \in Nat
  PROVE  /\ Overhead(user, cwd, code) \in Nat
         /\ CommandBudget(user, cwd, code) \in Nat
         /\ CommandBudget(user, cwd, code) >= 121
         /\ CommandBudget(user, cwd, code) = MaxTotal - Overhead(user, cwd, code)
<1>1. Item(user, MaxUser) \in 0..64
  BY DEF Item, SeeTerminal, MaxUser
<1>2. Item(cwd, MaxCwd) \in 0..160
  BY DEF Item, SeeTerminal, MaxCwd
<1>3. VerifyLine(code) \in 0..45
  BY DEF VerifyLine, Capped, MaxVerify
<1> DEFINE field == IF cwd > 0 THEN 10 + Item(cwd, MaxCwd) + 2 ELSE 0
<1>4. field \in 0..172
  BY <1>2
<1>5. BottomReserve = 41
  BY DEF BottomReserve, BottomClean, BottomTrunc
<1>6. Overhead(user, cwd, code)
        = 14 + 2 + VerifyLine(code) + 2 + 7 + Item(user, MaxUser) + 2 + field + 8 + 2 + 41
  BY <1>5 DEF Overhead, Header
<1> HIDE DEF field
<1>7. \A v \in 0..45, u \in 0..64, d \in 0..172 :
        14 + 2 + v + 2 + 7 + u + 2 + d + 8 + 2 + 41 \in 0..359
  OBVIOUS
<1>8. Overhead(user, cwd, code) \in 0..359
  <2>1. 14 + 2 + VerifyLine(code) + 2 + 7 + Item(user, MaxUser) + 2 + field + 8 + 2 + 41
          \in 0..359
    BY <1>1, <1>3, <1>4, <1>7
  <2>2. QED
    BY <1>6, <2>1
<1>9. QED
  BY <1>8 DEF CommandBudget, MaxTotal

\* The text of the sheet, for values of any length.
LEMMA LayoutFits ==
  ASSUME NEW user \in Nat, NEW cwd \in Nat, NEW command \in Nat, NEW code \in Nat,
         NEW headline \in BOOLEAN
  PROVE  Layout(user, cwd, command, code, headline) <= MaxTotal
<1> DEFINE budget == CommandBudget(user, cwd, code)
           bottom == Bottom(Elided(user, cwd, command, code), headline)
           field  == IF cwd > 0 THEN 10 + Item(cwd, MaxCwd) + 2 ELSE 0
<1>1. /\ budget \in Nat /\ budget >= 121
      /\ budget = MaxTotal - Overhead(user, cwd, code)
  BY BudgetBound
<1>2. Item(command, budget) \in Nat /\ Item(command, budget) <= budget
  BY <1>1 DEF Item, SeeTerminal
<1>3. bottom \in Nat /\ bottom <= BottomReserve
  BY DEF Bottom, BottomReserve, BottomClean, BottomTrunc
<1>4. Item(user, MaxUser) \in Nat
  BY ItemBound DEF MaxUser
<1>5. field \in Nat
  BY ItemBound DEF MaxCwd
<1>6. VerifyLine(code) \in Nat
  BY DEF VerifyLine, Capped, MaxVerify
<1>7. Overhead(user, cwd, code)
        = Header + 2 + VerifyLine(code) + 2 + 7 + Item(user, MaxUser) + 2 + field
            + 8 + 2 + BottomReserve
  BY DEF Overhead
<1>8. Layout(user, cwd, command, code, headline)
        = Header + 2 + (7 + Item(user, MaxUser) + 2) + field
            + (8 + Item(command, budget) + 2) + (VerifyLine(code) + 2) + bottom
  BY DEF Layout
<1> HIDE DEF budget, bottom, field
<1>9. QED
  BY <1>1, <1>2, <1>3, <1>4, <1>5, <1>6, <1>7, <1>8
     DEF Header, MaxTotal, BottomReserve, BottomClean, BottomTrunc

-----------------------------------------------------------------------------
\* What the policy may resolve to.
Resolved == [user : Users, dir : Dirs \cup {None}, command : Commands]
\* The types know what was resolved when the sheet is raised; nothing else is needed.
IInv ==
  /\ TypeOK
  /\ SheetFits

LEMMA SheetForFits ==
  ASSUME NEW i \in Invocations, NEW f \in Resolved
  PROVE  SheetFor(i, f).raised /\ SheetFor(i, f).length <= MaxTotal
<1>1. Length[f.user] \in Nat /\ Length[f.command] \in Nat
  BY ValuesAssumption DEF Resolved, Values
<1>3. LengthOf(SheetDir(i, f)) \in Nat
  BY ValuesAssumption DEF LengthOf, Values
<1>4. Layout(Length[f.user], LengthOf(SheetDir(i, f)), Length[f.command], CodeLength, Headline)
        <= MaxTotal
  BY <1>1, <1>3, LayoutFits, ValuesAssumption
<1>5. QED
  BY <1>4 DEF SheetFor

LEMMA InitIInv == Init => IInv
<1> SUFFICES ASSUME Init PROVE IInv
  OBVIOUS
<1>1. TypeOK
  BY DEF Init, TypeOK, NoSheet
<1>2. SheetFits
  BY DEF Init, SheetFits, NoSheet
<1>3. QED
  BY <1>1, <1>2 DEF IInv

\* Nothing a console run resolves to is the absence of a command.
LEMMA ResolvedIsInfo ==
  ASSUME NEW f \in Resolved
  PROVE  f # NoInfo
<1>1. f.user # None /\ NoInfo.user = None
  BY ValuesAssumption DEF Resolved, Values, NoInfo
<1>2. QED
  BY <1>1

LEMMA NextIInv == IInv /\ [Next]_vars => IInv'
<1> SUFFICES ASSUME IInv, [Next]_vars PROVE IInv'
  OBVIOUS
<1> USE DEF IInv
<1>1. CASE Open
  BY <1>1 DEF Open, TypeOK, SheetFits
<1>2. CASE Write
  BY <1>2 DEF Write, TypeOK, SheetFits
<1>3. CASE Interrupted
  BY <1>3 DEF Interrupted, vars, TypeOK, SheetFits
<1>4. CASE GiveUp
  BY <1>4 DEF GiveUp, TypeOK, SheetFits
<1>5. CASE OpenReturns
  BY <1>5 DEF OpenReturns, AfterBlock, TypeOK, SheetFits
<1>6. CASE PolicyResolves
  <2>1. PICK f \in Resolved : info' = f
    BY <1>6 DEF PolicyResolves, Resolved
  <2>2. f # NoInfo
    BY ResolvedIsInfo
  <2>3. QED
    BY <1>6, <2>1, <2>2 DEF PolicyResolves, TypeOK, SheetFits, Resolved
<1>7. CASE VerifyWritten
  BY <1>7 DEF VerifyWritten, TypeOK, SheetFits
<1>8. CASE RaiseSheet
  <2>1. info \in Resolved
    BY <1>8 DEF RaiseSheet, TypeOK, Resolved
  <2>2. sheet'.raised /\ sheet'.length <= MaxTotal
    BY <1>8, <2>1, SheetForFits DEF RaiseSheet, TypeOK
  <2>3. sheet'.raised \in BOOLEAN
    BY <1>8 DEF RaiseSheet, SheetFor
  <2>4. QED
    BY <1>8, <2>2, <2>3 DEF RaiseSheet, TypeOK, SheetFits
<1>9. CASE UNCHANGED vars
  BY <1>9 DEF vars, TypeOK, SheetFits
<1>10. QED
  BY <1>1, <1>2, <1>3, <1>4, <1>5, <1>6, <1>7, <1>8, <1>9 DEF Next

\* Whatever sudo hands the audit plugin and whatever the policy resolves to, rows are
\* pending only while a write loop runs, and a sheet is raised only of a resolved command.
THEOREM TypeCorrect == Spec => []TypeOK
BY InitIInv, NextIInv, PTL DEF Spec, IInv

\* The sheet keeps to its budget: for users, directories, commands and codes of any
\* length, on either macOS, the text macOS is given is never longer than 480.
THEOREM SheetAlwaysFits == Spec => []SheetFits
BY InitIInv, NextIInv, PTL DEF Spec, IInv
-----------------------------------------------------------------------------
\* What comes out of the two walks through the arrays is a sequence of rows.
LEMMA RowIsASequence ==
  ASSUME NEW label, NEW value, NEW bold, NEW R,
         [label |-> label, value |-> value, bold |-> bold] \in R
  PROVE  Row(label, value, bold) \in Seq(R)
BY DEF Row

LEMMA FourRows ==
  ASSUME NEW R, NEW a \in Seq(R), NEW b \in Seq(R), NEW c \in Seq(R), NEW d \in Seq(R)
  PROVE  a \o b \o c \o d \in Seq(R) /\ a \o b \o c \in Seq(R)
OBVIOUS

LEMMA MacBlockIsASequence ==
  ASSUME NEW i
  PROVE  \E R : MacBlock(i) \in Seq(R)
<1> DEFINE c == MacColor(i.envp)
           rec(label, value) == [label |-> label, value |-> value, bold |-> c]
           path == MacFindKv(i.envp, <<"PATH">>)
           R == {rec("run as:", <<RunasUser(i)>>), rec("directory:", <<DirValue(i)>>),
                 rec("input:", Typed(i)), rec("PATH:", <<path>>)}
<1>1. Row("run as:", <<RunasUser(i)>>, c) \in Seq(R)
  BY RowIsASequence
<1>2. DirRow(i, c) \in Seq(R)
  <2>1. Row("directory:", <<DirValue(i)>>, c) \in Seq(R)
    BY RowIsASequence
  <2> HIDE DEF R, c
  <2>2. QED  BY <2>1 DEF DirRow
<1>3. InputRow(i, c) \in Seq(R)
  <2>1. Row("input:", Typed(i), c) \in Seq(R)
    BY RowIsASequence
  <2> HIDE DEF R, c
  <2>2. QED  BY <2>1 DEF InputRow
<1>4. PathRow(i, c) \in Seq(R)
  <2>1. Row("PATH:", <<path>>, c) \in Seq(R)
    BY RowIsASequence
  <2> HIDE DEF R, c
  <2>2. QED  BY <2>1 DEF PathRow
<1> HIDE DEF R
<1>5. Row("run as:", <<RunasUser(i)>>, c) \o DirRow(i, c) \o InputRow(i, c) \o PathRow(i, c)
        \in Seq(R)
  BY <1>1, <1>2, <1>3, <1>4, FourRows
<1>6. <<>> \in Seq(R)
  OBVIOUS
<1>7. MacBlock(i) \in Seq(R)
  BY <1>5, <1>6 DEF MacBlock
<1>8. QED  BY <1>7

LEMMA LinuxBlockIsASequence ==
  ASSUME NEW i
  PROVE  \E R : LinuxBlock(i) \in Seq(R)
<1> DEFINE c == ColorAllowed(i.envp)
           typed == Collect(i.argv, i.optind)
           runas == FindKv(i.settings, <<"runas_user">>)
           user == IF runas \in {None, Empty} THEN Root ELSE runas
           dir == DirLine(i.settings, i.user_info)
           rec(label, value) == [label |-> label, value |-> value, bold |-> c]
           R == {rec("run as:", <<user>>), rec("directory:", <<dir>>), rec("input:", typed)}
           dirRow == IF dir = None THEN <<>> ELSE Row("directory:", <<dir>>, c)
           inputRow == IF typed = <<>> THEN <<>> ELSE Row("input:", typed, c)
<1>1. /\ Row("run as:", <<user>>, c) \in Seq(R)
      /\ Row("directory:", <<dir>>, c) \in Seq(R)
      /\ Row("input:", typed, c) \in Seq(R)
  BY RowIsASequence
<1>2. /\ BuildBlock(i.settings, i.user_info, typed, c) = <<>>
         \/ BuildBlock(i.settings, i.user_info, typed, c)
              = Row("run as:", <<user>>, c) \o dirRow \o inputRow
  BY DEF BuildBlock
<1> HIDE DEF R, c, typed, user, dir
<1>3. <<>> \in Seq(R)
  OBVIOUS
<1>4. dirRow \in Seq(R)
  BY <1>1, <1>3
<1>5. inputRow \in Seq(R)
  BY <1>1, <1>3
<1> HIDE DEF dirRow, inputRow
<1>6. Row("run as:", <<user>>, c) \o dirRow \o inputRow \in Seq(R)
  BY <1>1, <1>4, <1>5, FourRows
<1>7. BuildBlock(i.settings, i.user_info, typed, c) \in Seq(R)
  BY <1>2, <1>6, <1>3
<1>8. LinuxBlock(i) \in Seq(R)
  BY <1>7 DEF LinuxBlock, c, typed
<1>9. QED  BY <1>8

LEMMA BlockIsASequence ==
  ASSUME NEW i
  PROVE  Len(Block(i)) \in Nat
<1>1. PICK R : Block(i) \in Seq(R)
  BY MacBlockIsASequence, LinuxBlockIsASequence DEF Block
<1>2. QED  BY <1>1

LEMMA LinesAreRows ==
  ASSUME NEW i, NEW f
  PROVE  Len(VerifyRow(i)) = 1 /\ Len(ExecRow(i, f)) \in {0, 1}
BY DEF VerifyRow, ExecRow, Row

LEMMA PiecesAreASequence ==
  ASSUME NEW rows, Len(rows) \in Nat
  PROVE  (\E R : Pieces(rows) \in Seq(R)) /\ Len(Pieces(rows)) = 2 * Len(rows)
<1> DEFINE n == 2 * Len(rows)
           P == Pieces(rows)
<1>1. n \in Nat /\ DOMAIN P = 1..n /\ P = [k \in 1..n |-> P[k]]
  BY DEF Pieces
<1> HIDE DEF n, P
<1>2. P \in [1..n -> {P[k] : k \in 1..n}]
  BY <1>1
<1>3. P \in Seq({P[k] : k \in 1..n}) /\ Len(P) = n
  BY <1>1, <1>2
<1>4. QED  BY <1>3 DEF n, P

LEMMA PiecesLength ==
  ASSUME NEW rows, Len(rows) \in Nat
  PROVE  Len(Pieces(rows)) = 2 * Len(rows)
BY PiecesAreASequence

\* What one write(2) does to two sequences.
LEMMA WriteAppends ==
  ASSUME NEW T, NEW t \in Seq(T), NEW p \in Seq(T), NEW k \in 1..Len(p)
  PROVE  /\ t \o SubSeq(p, 1, k) \in Seq(T) /\ SubSeq(p, k + 1, Len(p)) \in Seq(T)
         /\ Len(t \o SubSeq(p, 1, k)) = Len(t) + k
         /\ Len(SubSeq(p, k + 1, Len(p))) = Len(p) - k
         /\ \A i \in 1..Len(t) : (t \o SubSeq(p, 1, k))[i] = t[i]
         /\ \A i \in 1..k : (t \o SubSeq(p, 1, k))[Len(t) + i] = p[i]
         /\ \A i \in 1..(Len(p) - k) : SubSeq(p, k + 1, Len(p))[i] = p[k + i]
<1> DEFINE u == t \o SubSeq(p, 1, k)
           q == SubSeq(p, k + 1, Len(p))
<1>1. /\ SubSeq(p, 1, k) \in Seq(T) /\ Len(SubSeq(p, 1, k)) = k
      /\ \A i \in 1..k : SubSeq(p, 1, k)[i] = p[i]
  OBVIOUS
<1>2. /\ u \in Seq(T) /\ Len(u) = Len(t) + k
      /\ \A i \in 1..(Len(t) + k) :
           u[i] = IF i <= Len(t) THEN t[i] ELSE SubSeq(p, 1, k)[i - Len(t)]
  BY <1>1, ConcatProperties
<1>3. Len(t) \in Nat
  OBVIOUS
<1>4. \A i \in 1..k : u[Len(t) + i] = p[i]
  BY <1>1, <1>2, <1>3
<1>5. /\ q \in Seq(T) /\ Len(q) = Len(p) - k
      /\ \A i \in 1..Len(q) : q[i] = p[k + i]
  <2>1. /\ \A i \in (k + 1)..Len(p) : p[i] \in T
        /\ k + 1 \in Int /\ Len(p) \in Int
    OBVIOUS
  <2>2. /\ SubSeq(p, k + 1, Len(p)) \in Seq(T)
        /\ Len(SubSeq(p, k + 1, Len(p))) = IF k + 1 <= Len(p) THEN Len(p) - (k + 1) + 1 ELSE 0
        /\ \A i \in 1..(Len(p) - (k + 1) + 1) : SubSeq(p, k + 1, Len(p))[i] = p[(k + 1) + i - 1]
    BY <2>1, SubSeqProperties
  <2>3. QED  BY <2>2
<1>6. \A i \in 1..Len(t) : u[i] = t[i]
  BY <1>2, <1>3
<1>7. QED  BY <1>2, <1>4, <1>5, <1>6

\* What is out of a whole of length l and what is pending of it, before a write of k
\* and after it, where m pieces of something else are ahead of it.
BeforeWrite(t, p, u, q, whole, l, m, n, k) ==
  /\ l \in Nat /\ m \in Nat /\ n \in Nat /\ k \in Nat /\ n + k <= l
  /\ \A i \in 1..n : t[m + i] = whole[i]
  /\ \A i \in 1..(l - n) : p[i] = whole[n + i]
  /\ \A i \in 1..(m + n) : u[i] = t[i]
  /\ \A i \in 1..k : u[(m + n) + i] = p[i]
  /\ \A i \in 1..(l - n - k) : q[i] = p[k + i]

AfterWrite(t, p, u, q, whole, l, m, n, k) ==
  /\ \A i \in 1..(n + k) : u[m + i] = whole[i]
  /\ \A i \in 1..(l - (n + k)) : q[i] = whole[(n + k) + i]

LEMMA WriteContinues ==
  ASSUME NEW t, NEW p, NEW u, NEW q, NEW whole, NEW l, NEW m, NEW n, NEW k,
         BeforeWrite(t, p, u, q, whole, l, m, n, k)
  PROVE  AfterWrite(t, p, u, q, whole, l, m, n, k)
<1> USE DEF BeforeWrite
<1>1. ASSUME NEW i \in 1..(n + k)
      PROVE  u[m + i] = whole[i]
  <2>1. CASE i <= n
    <3>1. m + i \in 1..(m + n) /\ i \in 1..n
      BY <2>1
    <3>2. QED  BY <3>1
  <2>2. CASE i > n
    <3>1. i - n \in 1..k /\ i - n \in 1..(l - n)
      BY <2>2
    <3>2. u[(m + n) + (i - n)] = p[i - n] /\ p[i - n] = whole[n + (i - n)]
      BY <3>1
    <3>3. (m + n) + (i - n) = m + i /\ n + (i - n) = i
      OBVIOUS
    <3>4. QED  BY <3>2, <3>3
  <2>3. QED  BY <2>1, <2>2
<1>2. ASSUME NEW i \in 1..(l - (n + k))
      PROVE  q[i] = whole[(n + k) + i]
  <2>1. /\ k + i \in 1..(l - n) /\ i \in 1..(l - n - k)
        /\ n + (k + i) = (n + k) + i
    OBVIOUS
  <2>2. q[i] = p[k + i] /\ p[k + i] = whole[n + (k + i)]
    BY <2>1
  <2>3. QED  BY <2>1, <2>2
<1>3. QED  BY <1>1, <1>2 DEF AfterWrite

\* The three things a transcript is made of.
BlockPieces  == Pieces(Block(inv))
VerifyPieces == Pieces(VerifyRow(inv))
ExecPieces   == Pieces(ExecRow(inv, info))

\* The terminal has b, v and e pieces of them.
Has(b, v, e) ==
  /\ b \in 0..Len(BlockPieces) /\ v \in 0..Len(VerifyPieces) /\ e \in 0..Len(ExecPieces)
  /\ Len(term) = b + v + e
  /\ \A i \in 1..b : term[i] = BlockPieces[i]
  /\ \A i \in 1..v : term[b + i] = VerifyPieces[i]
  /\ \A i \in 1..e : term[b + v + i] = ExecPieces[i]
  /\ pc \in {"open", "block", "policy"} => v = 0
  /\ pc \in {"open", "block", "policy", "verify"} => e = 0
  /\ pc = "open" => b = 0

\* What is pending is the rest of one of them, after n pieces.
Rest(whole, n) ==
  /\ Len(pending) = Len(whole) - n
  /\ \A i \in 1..Len(pending) : pending[i] = whole[n + i]

Counts(b, v, e) ==
  /\ Has(b, v, e)
  /\ pending # <<>> => /\ pc = "block"   => Rest(BlockPieces, b)
                       /\ pc = "verify"  => Rest(VerifyPieces, v)
                       /\ pc = "execute" => Rest(ExecPieces, e)

AreSequences == \E T : term \in Seq(T) /\ pending \in Seq(T)

TranscriptInv == AreSequences /\ \E b, v, e \in Nat : Counts(b, v, e)

LEMMA ThreeParts ==
  /\ Len(BlockPieces) \in Nat /\ \E R : BlockPieces \in Seq(R)
  /\ Len(VerifyPieces) = 2 /\ \E R : VerifyPieces \in Seq(R)
  /\ Len(ExecPieces) \in {0, 2} /\ \E R : ExecPieces \in Seq(R)
<1>1. Len(Block(inv)) \in Nat
  BY BlockIsASequence
<1>2. Len(VerifyRow(inv)) = 1 /\ Len(ExecRow(inv, info)) \in {0, 1}
  BY LinesAreRows
<1>3. Len(VerifyRow(inv)) \in Nat /\ Len(ExecRow(inv, info)) \in Nat
  BY <1>2
<1>4. /\ Len(BlockPieces) = 2 * Len(Block(inv))
      /\ Len(VerifyPieces) = 2 * Len(VerifyRow(inv))
      /\ Len(ExecPieces) = 2 * Len(ExecRow(inv, info))
  BY <1>1, <1>3, PiecesLength DEF BlockPieces, VerifyPieces, ExecPieces
<1>5. /\ \E R : BlockPieces \in Seq(R)
      /\ \E R : VerifyPieces \in Seq(R)
      /\ \E R : ExecPieces \in Seq(R)
  BY <1>1, <1>3, PiecesAreASequence DEF BlockPieces, VerifyPieces, ExecPieces
<1>6. Len(BlockPieces) \in Nat
  BY <1>1, <1>4
<1>7. Len(VerifyPieces) = 2
  BY <1>2, <1>4
<1>8. Len(ExecPieces) \in {0, 2}
  <2>1. Len(ExecPieces) = 2 * Len(ExecRow(inv, info))
    BY <1>4
  <2>2. CASE Len(ExecRow(inv, info)) = 0
    BY <2>1, <2>2
  <2>3. CASE Len(ExecRow(inv, info)) = 1
    BY <2>1, <2>3
  <2>4. QED  BY <1>2, <2>2, <2>3
<1>9. QED  BY <1>5, <1>6, <1>7, <1>8

LEMMA WriteInOrder ==
  ASSUME TypeOK, TranscriptInv, Write
  PROVE  TranscriptInv'
<1>1. PICK T : term \in Seq(T) /\ pending \in Seq(T)
  BY DEF TranscriptInv, AreSequences
<1>2. PICK b \in Nat, v \in Nat, e \in Nat : Counts(b, v, e)
  BY DEF TranscriptInv
<1>3. PICK k \in 1..Len(pending) :
        term' = term \o SubSeq(pending, 1, k) /\ pending' = SubSeq(pending, k + 1, Len(pending))
  BY DEF Write
<1>4. /\ term' \in Seq(T) /\ pending' \in Seq(T)
      /\ Len(term') = Len(term) + k /\ Len(pending') = Len(pending) - k
      /\ \A i \in 1..Len(term) : term'[i] = term[i]
      /\ \A i \in 1..k : term'[Len(term) + i] = pending[i]
  BY <1>1, <1>3, WriteAppends
<1>5. \A i \in 1..(Len(pending) - k) : pending'[i] = pending[k + i]
  BY <1>1, <1>3, WriteAppends
<1>6. /\ BlockPieces' = BlockPieces /\ VerifyPieces' = VerifyPieces /\ ExecPieces' = ExecPieces
      /\ pc' = pc /\ pending # <<>>
  BY DEF Write, BlockPieces, VerifyPieces, ExecPieces
<1>7. k \in Nat /\ k >= 1 /\ k <= Len(pending) /\ Len(pending) \in Nat /\ Len(term) \in Nat
  BY <1>1
<1>8. /\ Len(BlockPieces) \in Nat /\ Len(VerifyPieces) \in Nat /\ Len(ExecPieces) \in Nat
  BY ThreeParts
<1>9. CASE pc = "block"
  <2>1. Has(b, v, e) /\ Rest(BlockPieces, b) /\ v = 0 /\ e = 0
    BY <1>2, <1>6, <1>9 DEF Counts, Has
  <2>2. /\ Len(pending) = Len(BlockPieces) - b /\ b + k <= Len(BlockPieces)
        /\ Len(term) = 0 + b /\ 0 \in Nat
        /\ Len(pending') = Len(BlockPieces) - (b + k)
        /\ Len(pending) - k = Len(BlockPieces) - b - k
    BY <2>1, <1>4, <1>7, <1>8 DEF Has, Rest
  <2>3. /\ \A i \in 1..b : term[0 + i] = BlockPieces[i]
        /\ \A i \in 1..(Len(BlockPieces) - b) : pending[i] = BlockPieces[b + i]
    <3>1. \A i \in 1..b : 0 + i = i /\ term[i] = BlockPieces[i]
      BY <2>1 DEF Has
    <3>2. \A i \in 1..(Len(BlockPieces) - b) : pending[i] = BlockPieces[b + i]
      BY <2>1, <2>2 DEF Rest
    <3>3. QED  BY <3>1, <3>2
  <2>4. /\ \A i \in 1..(0 + b) : term'[i] = term[i]
        /\ \A i \in 1..k : term'[(0 + b) + i] = pending[i]
        /\ \A i \in 1..(Len(BlockPieces) - b - k) : pending'[i] = pending[k + i]
    <3>1. Len(term) = 0 + b /\ Len(pending) - k = Len(BlockPieces) - b - k
      BY <2>2
    <3>2. \A i \in 1..(0 + b) : term'[i] = term[i]
      BY <1>4, <3>1
    <3>3. \A i \in 1..k : term'[(0 + b) + i] = pending[i]
      BY <1>4, <3>1
    <3>4. \A i \in 1..(Len(BlockPieces) - b - k) : pending'[i] = pending[k + i]
      BY <1>5, <3>1
    <3>5. QED  BY <3>2, <3>3, <3>4
  <2>5. BeforeWrite(term, pending, term', pending', BlockPieces, Len(BlockPieces), 0, b, k)
    BY <2>2, <2>3, <2>4, <1>7, <1>8 DEF BeforeWrite
  <2>6. AfterWrite(term, pending, term', pending', BlockPieces, Len(BlockPieces), 0, b, k)
    BY <2>5, WriteContinues
  <2>7. /\ \A i \in 1..(b + k) : term'[0 + i] = BlockPieces[i]
        /\ \A i \in 1..(Len(BlockPieces) - (b + k)) : pending'[i] = BlockPieces[(b + k) + i]
    BY <2>6 DEF AfterWrite
  <2>8. Has(b + k, v, e)'
    BY <2>1, <2>2, <2>4, <2>7, <1>4, <1>6, <1>7, <1>8, <1>9 DEF Has
  <2>9. Rest(BlockPieces, b + k)'
    BY <2>2, <2>7, <1>6 DEF Rest
  <2>10. Counts(b + k, v, e)' /\ b + k \in Nat
    BY <2>8, <2>9, <1>6, <1>7, <1>9 DEF Counts
  <2>11. QED  BY <2>10, <1>4 DEF TranscriptInv, AreSequences
<1>10. CASE pc = "verify"
  <2>1. Has(b, v, e) /\ Rest(VerifyPieces, v) /\ e = 0
    BY <1>2, <1>6, <1>10 DEF Counts, Has
  <2>2. /\ Len(pending) = Len(VerifyPieces) - v /\ v + k <= Len(VerifyPieces)
        /\ Len(term) = b + v /\ b \in Nat
        /\ Len(pending') = Len(VerifyPieces) - (v + k)
        /\ Len(pending) - k = Len(VerifyPieces) - v - k
    BY <2>1, <1>4, <1>7, <1>8 DEF Has, Rest
  <2>3. /\ \A i \in 1..v : term[b + i] = VerifyPieces[i]
        /\ \A i \in 1..(Len(VerifyPieces) - v) : pending[i] = VerifyPieces[v + i]
    <3>1. \A i \in 1..v : term[b + i] = VerifyPieces[i]
      BY <2>1 DEF Has
    <3>2. \A i \in 1..(Len(VerifyPieces) - v) : pending[i] = VerifyPieces[v + i]
      BY <2>1, <2>2 DEF Rest
    <3>3. QED  BY <3>1, <3>2
  <2>4. /\ \A i \in 1..(b + v) : term'[i] = term[i]
        /\ \A i \in 1..k : term'[(b + v) + i] = pending[i]
        /\ \A i \in 1..(Len(VerifyPieces) - v - k) : pending'[i] = pending[k + i]
    <3>1. Len(term) = b + v /\ Len(pending) - k = Len(VerifyPieces) - v - k
      BY <2>2
    <3>2. \A i \in 1..(b + v) : term'[i] = term[i]
      BY <1>4, <3>1
    <3>3. \A i \in 1..k : term'[(b + v) + i] = pending[i]
      BY <1>4, <3>1
    <3>4. \A i \in 1..(Len(VerifyPieces) - v - k) : pending'[i] = pending[k + i]
      BY <1>5, <3>1
    <3>5. QED  BY <3>2, <3>3, <3>4
  <2>5. BeforeWrite(term, pending, term', pending', VerifyPieces, Len(VerifyPieces), b, v, k)
    BY <2>2, <2>3, <2>4, <1>7, <1>8 DEF BeforeWrite
  <2>6. AfterWrite(term, pending, term', pending', VerifyPieces, Len(VerifyPieces), b, v, k)
    BY <2>5, WriteContinues
  <2>7. /\ \A i \in 1..(v + k) : term'[b + i] = VerifyPieces[i]
        /\ \A i \in 1..(Len(VerifyPieces) - (v + k)) : pending'[i] = VerifyPieces[(v + k) + i]
    BY <2>6 DEF AfterWrite
  <2>8. Has(b, v + k, e)'
    BY <2>1, <2>2, <2>4, <2>7, <1>4, <1>6, <1>7, <1>8, <1>10 DEF Has
  <2>9. Rest(VerifyPieces, v + k)'
    BY <2>2, <2>7, <1>6 DEF Rest
  <2>10. Counts(b, v + k, e)' /\ v + k \in Nat
    BY <2>8, <2>9, <1>6, <1>7, <1>10 DEF Counts
  <2>11. QED  BY <2>10, <1>4 DEF TranscriptInv, AreSequences
<1>11. CASE pc = "execute"
  <2>1. Has(b, v, e) /\ Rest(ExecPieces, e)
    BY <1>2, <1>6, <1>11 DEF Counts, Has
  <2>2. /\ Len(pending) = Len(ExecPieces) - e /\ e + k <= Len(ExecPieces)
        /\ Len(term) = (b + v) + e /\ (b + v) \in Nat
        /\ Len(pending') = Len(ExecPieces) - (e + k)
        /\ Len(pending) - k = Len(ExecPieces) - e - k
    BY <2>1, <1>4, <1>7, <1>8 DEF Has, Rest
  <2>3. /\ \A i \in 1..e : term[(b + v) + i] = ExecPieces[i]
        /\ \A i \in 1..(Len(ExecPieces) - e) : pending[i] = ExecPieces[e + i]
    <3>1. \A i \in 1..e : term[b + v + i] = ExecPieces[i]
      BY <2>1 DEF Has
    <3>2. \A i \in 1..(Len(ExecPieces) - e) : pending[i] = ExecPieces[e + i]
      BY <2>1, <2>2 DEF Rest
    <3>3. QED  BY <3>1, <3>2
  <2>4. /\ \A i \in 1..((b + v) + e) : term'[i] = term[i]
        /\ \A i \in 1..k : term'[((b + v) + e) + i] = pending[i]
        /\ \A i \in 1..(Len(ExecPieces) - e - k) : pending'[i] = pending[k + i]
    <3>1. Len(term) = (b + v) + e /\ Len(pending) - k = Len(ExecPieces) - e - k
      BY <2>2
    <3>2. \A i \in 1..((b + v) + e) : term'[i] = term[i]
      BY <1>4, <3>1
    <3>3. \A i \in 1..k : term'[((b + v) + e) + i] = pending[i]
      BY <1>4, <3>1
    <3>4. \A i \in 1..(Len(ExecPieces) - e - k) : pending'[i] = pending[k + i]
      BY <1>5, <3>1
    <3>5. QED  BY <3>2, <3>3, <3>4
  <2>5. BeforeWrite(term, pending, term', pending', ExecPieces, Len(ExecPieces), b + v, e, k)
    BY <2>2, <2>3, <2>4, <1>7, <1>8 DEF BeforeWrite
  <2>6. AfterWrite(term, pending, term', pending', ExecPieces, Len(ExecPieces), b + v, e, k)
    BY <2>5, WriteContinues
  <2>7. /\ \A i \in 1..(e + k) : term'[(b + v) + i] = ExecPieces[i]
        /\ \A i \in 1..(Len(ExecPieces) - (e + k)) : pending'[i] = ExecPieces[(e + k) + i]
    BY <2>6 DEF AfterWrite
  <2>8. Has(b, v, e + k)'
    BY <2>1, <2>2, <2>4, <2>7, <1>4, <1>6, <1>7, <1>8, <1>11 DEF Has
  <2>9. Rest(ExecPieces, e + k)'
    BY <2>2, <2>7, <1>6 DEF Rest
  <2>10. Counts(b, v, e + k)' /\ e + k \in Nat
    BY <2>8, <2>9, <1>6, <1>7, <1>11 DEF Counts
  <2>11. QED  BY <2>10, <1>4 DEF TranscriptInv, AreSequences
<1>12. QED  BY <1>6, <1>9, <1>10, <1>11 DEF TypeOK

LEMMA JoinedSequences ==
  ASSUME NEW A, NEW B, NEW s \in Seq(A), NEW r \in Seq(B)
  PROVE  s \in Seq(A \cup B) /\ r \in Seq(A \cup B)
OBVIOUS

\* A step that leaves the terminal alone and the invocation, and puts aside what was
\* pending or starts on one of the three parts.
LEMMA TermKept ==
  ASSUME NEW b \in Nat, NEW v \in Nat, NEW e \in Nat, Has(b, v, e),
         term' = term, inv' = inv, info' = info \/ e = 0,
         pc' \in {"open", "block", "policy"} => v = 0,
         pc' \in {"open", "block", "policy", "verify"} => e = 0,
         pc' = "open" => b = 0
  PROVE  Has(b, v, e)'
<1>1. BlockPieces' = BlockPieces /\ VerifyPieces' = VerifyPieces
  BY DEF BlockPieces, VerifyPieces
<1>2. e \in 0..Len(ExecPieces') /\ \A i \in 1..e : ExecPieces'[i] = term[b + v + i]
  <2>1. CASE info' = info
    <3>1. ExecPieces' = ExecPieces
      BY <2>1 DEF ExecPieces
    <3>2. QED  BY <3>1 DEF Has
  <2>2. CASE e = 0
    <3>1. Len(ExecRow(inv', info')) \in {0, 1}
      BY LinesAreRows
    <3>2. Len(Pieces(ExecRow(inv', info'))) = 2 * Len(ExecRow(inv', info'))
      BY <3>1, PiecesLength
    <3>3. Len(ExecPieces') \in Nat
      BY <3>1, <3>2 DEF ExecPieces
    <3>4. QED  BY <2>2, <3>3
  <2>3. QED  BY <2>1, <2>2
<1>3. QED  BY <1>1, <1>2 DEF Has

LEMMA NextInOrder == TypeOK /\ TranscriptInv /\ [Next]_vars => TranscriptInv'
<1> SUFFICES ASSUME TypeOK, TranscriptInv, [Next]_vars PROVE TranscriptInv'
  OBVIOUS
<1>1. PICK T : term \in Seq(T) /\ pending \in Seq(T)
  BY DEF TranscriptInv, AreSequences
<1>2. PICK b \in Nat, v \in Nat, e \in Nat : Counts(b, v, e)
  BY DEF TranscriptInv
<1>3. Has(b, v, e)
  BY <1>2 DEF Counts
<1>4. /\ pc = "open" => b = 0 /\ v = 0 /\ e = 0
      /\ pc \in {"block", "policy"} => v = 0 /\ e = 0
      /\ pc = "verify" => e = 0
  BY <1>3 DEF Has
<1>5. ASSUME pending' = <<>>, Has(b, v, e)', term' = term
      PROVE  TranscriptInv'
  <2>1. pending' \in Seq(T) /\ term' \in Seq(T)
    BY <1>1, <1>5
  <2>2. Counts(b, v, e)'
    BY <1>5 DEF Counts
  <2>3. QED  BY <2>1, <2>2 DEF TranscriptInv, AreSequences
<1>6. ASSUME NEW whole, whole = pending', \E R : whole \in Seq(R), Len(whole) \in Nat,
             term' = term, Has(b, v, e)',
             \/ pc' = "block" /\ whole = BlockPieces' /\ b = 0
             \/ pc' = "verify" /\ whole = VerifyPieces' /\ v = 0
             \/ pc' = "execute" /\ whole = ExecPieces' /\ e = 0
      PROVE  TranscriptInv'
  <2>1. PICK R : whole \in Seq(R)
    BY <1>6
  <2>2. term' \in Seq(T \cup R) /\ pending' \in Seq(T \cup R)
    BY <1>1, <1>6, <2>1, JoinedSequences
  <2>3. \A i \in 1..Len(whole) : whole[i] = whole[0 + i]
    OBVIOUS
  <2>4. Len(whole) = Len(whole) - 0
    BY <1>6
  <2>5. Counts(b, v, e)'
    BY <1>6, <2>3, <2>4 DEF Counts, Rest
  <2>6. QED  BY <2>2, <2>5 DEF TranscriptInv, AreSequences
<1>7. CASE Open
  <2>1. Has(b, v, e)'
    BY <1>3, <1>4, <1>7, TermKept DEF Open
  <2>2. pending' = BlockPieces' /\ BlockPieces' = BlockPieces
    BY <1>7 DEF Open, BlockPieces
  <2>3. QED
    BY <1>4, <1>6, <1>7, <2>1, <2>2, ThreeParts DEF Open
<1>8. CASE Write
  BY <1>8, WriteInOrder
<1>9. CASE Interrupted \/ UNCHANGED vars
  <2>1. UNCHANGED vars
    BY <1>9 DEF Interrupted
  <2>2. /\ BlockPieces' = BlockPieces /\ VerifyPieces' = VerifyPieces
        /\ ExecPieces' = ExecPieces
        /\ pc' = pc /\ term' = term /\ pending' = pending
    BY <2>1 DEF vars, BlockPieces, VerifyPieces, ExecPieces
  <2>3. Has(b, v, e)'
    BY <1>3, <2>2 DEF Has
  <2>4. /\ Rest(BlockPieces, b)' <=> Rest(BlockPieces, b)
        /\ Rest(VerifyPieces, v)' <=> Rest(VerifyPieces, v)
        /\ Rest(ExecPieces, e)' <=> Rest(ExecPieces, e)
    BY <2>2 DEF Rest
  <2>5. Counts(b, v, e)'
    BY <1>2, <2>2, <2>3, <2>4 DEF Counts
  <2>6. term' \in Seq(T) /\ pending' \in Seq(T)
    BY <1>1, <2>2
  <2>7. AreSequences'
    BY <2>6 DEF AreSequences
  <2>8. QED
    BY <2>5, <2>7 DEF TranscriptInv
<1>10. CASE GiveUp
  <2>1. Has(b, v, e)'
    BY <1>3, <1>4, <1>10, TermKept DEF GiveUp
  <2>2. QED  BY <1>5, <1>10, <2>1 DEF GiveUp
<1>11. CASE OpenReturns
  <2>1. pc' \in {"policy", "done"}
    BY <1>11 DEF OpenReturns, AfterBlock
  <2>2. Has(b, v, e)'
    BY <1>3, <1>4, <1>11, <2>1, TermKept DEF OpenReturns
  <2>3. QED  BY <1>5, <1>11, <2>2 DEF OpenReturns
<1>12. CASE PolicyResolves
  <2>1. pc' \in {"verify", "done"}
    BY <1>12 DEF PolicyResolves
  <2>2. Has(b, v, e)'
    BY <1>3, <1>4, <1>12, <2>1, TermKept DEF PolicyResolves
  <2>3. CASE pending' = <<>>
    BY <1>5, <1>12, <2>2, <2>3 DEF PolicyResolves
  <2>4. CASE pc' = "verify" /\ pending' = Pieces(VerifyRow(inv))
    <3>1. pending' = VerifyPieces' /\ VerifyPieces' = VerifyPieces
      BY <1>12, <2>4 DEF PolicyResolves, VerifyPieces
    <3>2. QED
      BY <1>4, <1>6, <1>12, <2>2, <2>4, <3>1, ThreeParts DEF PolicyResolves
  <2>5. QED  BY <1>12, <2>3, <2>4 DEF PolicyResolves
<1>13. CASE VerifyWritten
  <2>1. Has(b, v, e)'
    BY <1>3, <1>4, <1>13, TermKept DEF VerifyWritten
  <2>2. pending' = ExecPieces' /\ ExecPieces' = ExecPieces
    BY <1>13 DEF VerifyWritten, ExecPieces
  <2>3. Len(ExecPieces) \in Nat
    BY ThreeParts
  <2>4. QED
    BY <1>4, <1>6, <1>13, <2>1, <2>2, <2>3, ThreeParts DEF VerifyWritten
<1>14. CASE RaiseSheet
  <2>1. Has(b, v, e)'
    BY <1>3, <1>4, <1>14, TermKept DEF RaiseSheet
  <2>2. QED  BY <1>5, <1>14, <2>1 DEF RaiseSheet
<1>15. QED
  BY <1>7, <1>8, <1>9, <1>10, <1>11, <1>12, <1>13, <1>14 DEF Next

LEMMA InitInOrder == Init => TranscriptInv
<1> SUFFICES ASSUME Init PROVE TranscriptInv
  OBVIOUS
<1>1. AreSequences
  <2>1. term \in Seq({}) /\ pending \in Seq({})
    BY DEF Init
  <2>2. QED  BY <2>1 DEF AreSequences
<1>2. /\ Len(BlockPieces) \in Nat /\ Len(VerifyPieces) \in Nat /\ Len(ExecPieces) \in Nat
  BY ThreeParts
<1>3. Len(term) = 0
  BY DEF Init
<1>4. Has(0, 0, 0)
  BY <1>2, <1>3 DEF Has
<1>5. Counts(0, 0, 0) /\ 0 \in Nat
  BY <1>4 DEF Counts, Init
<1>6. QED  BY <1>1, <1>5 DEF TranscriptInv

\* Two cuts of the same pieces.
LEMMA SameCut ==
  ASSUME NEW A, NEW s \in Seq(A), NEW B, NEW w \in Seq(B), NEW m \in Nat, NEW n \in Nat,
         m + n <= Len(s), n <= Len(w),
         \A i \in 1..n : s[m + i] = w[i]
  PROVE  SubSeq(s, m + 1, m + n) = SubSeq(w, 1, n)
<1>1. /\ m + 1 \in Int /\ m + n \in Int
      /\ \A i \in (m + 1)..(m + n) : s[i] \in A
  OBVIOUS
<1>2. /\ 1 \in Int /\ n \in Int
      /\ \A i \in 1..n : w[i] \in B
  OBVIOUS
<1>3. /\ SubSeq(s, m + 1, m + n) \in Seq(A)
      /\ Len(SubSeq(s, m + 1, m + n)) = n
      /\ \A i \in 1..((m + n) - (m + 1) + 1) : SubSeq(s, m + 1, m + n)[i] = s[(m + 1) + i - 1]
  BY <1>1, SubSeqProperties
<1>4. /\ SubSeq(w, 1, n) \in Seq(B)
      /\ Len(SubSeq(w, 1, n)) = n
      /\ \A i \in 1..(n - 1 + 1) : SubSeq(w, 1, n)[i] = w[1 + i - 1]
  BY <1>2, SubSeqProperties
<1>5. \A i \in 1..n : SubSeq(s, m + 1, m + n)[i] = SubSeq(w, 1, n)[i]
  <2> SUFFICES ASSUME NEW i \in 1..n
               PROVE  SubSeq(s, m + 1, m + n)[i] = SubSeq(w, 1, n)[i]
    OBVIOUS
  <2>1. /\ i \in 1..((m + n) - (m + 1) + 1) /\ (m + 1) + i - 1 = m + i
        /\ i \in 1..(n - 1 + 1) /\ 1 + i - 1 = i
    OBVIOUS
  <2>2. SubSeq(s, m + 1, m + n)[i] = s[m + i]
    BY <1>3, <2>1
  <2>3. SubSeq(w, 1, n)[i] = w[i]
    BY <1>4, <2>1
  <2>4. QED  BY <2>2, <2>3
<1>6. /\ SubSeq(s, m + 1, m + n) \in Seq(A \cup B)
      /\ SubSeq(w, 1, n) \in Seq(A \cup B)
  BY <1>3, <1>4, JoinedSequences
<1>7. QED
  BY <1>3, <1>4, <1>5, <1>6, SeqEqual

LEMMA PartsAreInOrder == TranscriptInv => TranscriptInOrder
<1> SUFFICES ASSUME TranscriptInv PROVE TranscriptInOrder
  OBVIOUS
<1>1. PICK T : term \in Seq(T)
  BY DEF TranscriptInv, AreSequences
<1>2. PICK b \in Nat, v \in Nat, e \in Nat : Counts(b, v, e)
  BY DEF TranscriptInv
<1>3. Has(b, v, e)
  BY <1>2 DEF Counts
<1>4. /\ b \in 0..Len(BlockPieces) /\ v \in 0..2 /\ e \in 0..Len(ExecPieces)
      /\ Len(term) = b + v + e /\ e = Len(term) - b - v
  BY <1>3, ThreeParts DEF Has
<1>5. SubSeq(term, 1, b) = SubSeq(BlockPieces, 1, b)
  <2>1. PICK R : BlockPieces \in Seq(R)
    BY ThreeParts
  <2>2. 0 + b <= Len(term) /\ b <= Len(BlockPieces) /\ 0 \in Nat /\ 0 + 1 = 1 /\ 0 + b = b
    BY <1>4
  <2>3. \A i \in 1..b : term[0 + i] = BlockPieces[i]
    BY <1>3 DEF Has
  <2>4. SubSeq(term, 0 + 1, 0 + b) = SubSeq(BlockPieces, 1, b)
    BY <1>1, <2>1, <2>2, <2>3, SameCut
  <2>5. QED  BY <2>2, <2>4
<1>6. SubSeq(term, b + 1, b + v) = SubSeq(VerifyPieces, 1, v)
  <2>1. PICK R : VerifyPieces \in Seq(R)
    BY ThreeParts
  <2>2. b + v <= Len(term) /\ v <= Len(VerifyPieces)
    BY <1>4, ThreeParts
  <2>3. \A i \in 1..v : term[b + i] = VerifyPieces[i]
    BY <1>3 DEF Has
  <2>4. QED  BY <1>1, <2>1, <2>2, <2>3, SameCut
<1>7. SubSeq(term, b + v + 1, Len(term)) = SubSeq(ExecPieces, 1, e)
  <2>1. PICK R : ExecPieces \in Seq(R)
    BY ThreeParts
  <2>2. /\ (b + v) + e <= Len(term) /\ e <= Len(ExecPieces) /\ b + v \in Nat
        /\ (b + v) + e = Len(term)
    BY <1>4
  <2>3. \A i \in 1..e : term[(b + v) + i] = ExecPieces[i]
    BY <1>3 DEF Has
  <2>4. SubSeq(term, (b + v) + 1, (b + v) + e) = SubSeq(ExecPieces, 1, e)
    BY <1>1, <2>1, <2>2, <2>3, SameCut
  <2>5. QED  BY <2>2, <2>4
<1>8. QED
  BY <1>4, <1>5, <1>6, <1>7
     DEF TranscriptInOrder, BlockPieces, VerifyPieces, ExecPieces

\* However write(2) splits and fails, for every context, every value and both
\* platforms: no row is on the terminal twice, out of its order, or after one that the
\* same write left incomplete.
THEOREM RowsKeepTheirOrder == Spec => []TranscriptInOrder
<1>1. TypeOK /\ TranscriptInv /\ [Next]_vars => TranscriptInv'
  BY NextInOrder
<1>2. IInv => TypeOK
  BY DEF IInv
<1>3. QED
  BY InitIInv, NextIInv, InitInOrder, PartsAreInOrder, <1>1, <1>2, PTL DEF Spec
-----------------------------------------------------------------------------
(* The two plugins' blocks.                                                *)

\* The rows of a block as one sequence: how many, and which comes first.
LEMMA Joined ==
  ASSUME NEW R, NEW a \in Seq(R), NEW b \in Seq(R)
  PROVE  /\ a \o b \in Seq(R) /\ Len(a \o b) = Len(a) + Len(b)
         /\ \A k \in 1..Len(a) : (a \o b)[k] = a[k]
         /\ \A k \in 1..Len(b) : (a \o b)[Len(a) + k] = b[k]
<1>1. /\ a \o b \in Seq(R) /\ Len(a \o b) = Len(a) + Len(b)
      /\ \A k \in 1..(Len(a) + Len(b)) :
           (a \o b)[k] = IF k <= Len(a) THEN a[k] ELSE b[k - Len(a)]
  BY ConcatProperties
<1>2. Len(a) \in Nat /\ Len(b) \in Nat
  OBVIOUS
<1>3. \A k \in 1..Len(b) : (a \o b)[Len(a) + k] = b[k]
  <2> SUFFICES ASSUME NEW k \in 1..Len(b)
               PROVE  (a \o b)[Len(a) + k] = b[k]
    OBVIOUS
  <2>1. Len(a) + k \in 1..(Len(a) + Len(b)) /\ ~(Len(a) + k <= Len(a))
        /\ (Len(a) + k) - Len(a) = k
    BY <1>2
  <2>2. QED  BY <1>1, <2>1
<1>4. QED  BY <1>1, <1>2, <1>3

\* A command is typed where submit_optind is not past the last argument.
LEMMA TypedIsEmpty ==
  ASSUME NEW i \in Invocations
  PROVE  HasCommandWord(i) <=> Typed(i) # <<>>
<1> DEFINE S == {i.argv[k] : k \in (i.optind + 1)..Len(i.argv)}
<1>1. Len(i.argv) \in Nat /\ i.optind \in 0..Len(i.argv)
  BY InvocationsAssumption
<1>2. i.optind + 1 \in Int /\ Len(i.argv) \in Int
      /\ \A k \in (i.optind + 1)..Len(i.argv) : i.argv[k] \in S
  BY <1>1
<1> HIDE DEF S
<1>3. /\ Typed(i) \in Seq(S)
      /\ Len(Typed(i)) = IF i.optind + 1 <= Len(i.argv)
                         THEN Len(i.argv) - (i.optind + 1) + 1 ELSE 0
  BY <1>2, SubSeqProperties DEF Typed, Collect
<1>4. Typed(i) # <<>> <=> Len(Typed(i)) # 0
  BY <1>3, EmptySeq
<1>5. QED  BY <1>1, <1>3, <1>4 DEF HasCommandWord

\* The two walks through an array take the same entry.
LEMMA FindsTheSame == \A arr, key : FindKv(arr, key) = MacFindKv(arr, key)
BY DEF FindKv, MacFindKv

\* The rows of Linux with their conditions as macOS puts them.
LinuxRows(i) ==
  Row("run as:", <<RunasUser(i)>>, MacColor(i.envp))
    \o (IF DirValue(i) = None THEN <<>> ELSE Row("directory:", <<DirValue(i)>>, MacColor(i.envp)))
    \o InputRow(i, MacColor(i.envp))

LEMMA LinuxBlockIs ==
  ASSUME NEW i \in Invocations, i.bundles = "ours"
  PROVE  LinuxBlock(i) = IF MacShows(i) THEN LinuxRows(i) ELSE <<>>
<1>1. ColorAllowed(i.envp) = MacColor(i.envp)
  BY FindsTheSame DEF ColorAllowed, MacColor, Given
<1>2. StartsShell(i.settings) = RunsShell(i)
  <2>1. \A key : IsTrue(i.settings, key) = SettingTrue(i, key)
    BY FindsTheSame DEF IsTrue, SettingTrue
  <2>2. QED  BY <2>1 DEF StartsShell, RunsShell
<1>3. DirLine(i.settings, i.user_info) = DirValue(i)
  <2> DEFINE dashD == MacFindKv(i.settings, <<"cmnd_cwd">>)
             cwd   == MacFindKv(i.user_info, <<"cwd">>)
             login == SettingTrue(i, <<"login_shell">>)
  <2>1. IsTrue(i.settings, <<"login_shell">>) = login
    BY FindsTheSame DEF IsTrue, SettingTrue
  <2>2. DirLine(i.settings, i.user_info)
          = CASE Given(dashD) -> dashD
              [] ~Given(dashD) /\ login -> None
              [] OTHER -> IF cwd = Empty THEN None ELSE cwd
    BY <2>1, FindsTheSame DEF DirLine
  <2>3. DirValue(i)
          = CASE Given(dashD) -> dashD
              [] ~Given(dashD) /\ ~login /\ Given(cwd) -> cwd
              [] OTHER -> None
    BY DEF DirValue
  <2>4. login \in BOOLEAN
    BY DEF SettingTrue
  <2> HIDE DEF dashD, cwd, login
  <2>5. CASE Given(dashD)
    BY <2>2, <2>3, <2>5
  <2>6. CASE ~Given(dashD) /\ login
    BY <2>2, <2>3, <2>6
  <2>7. CASE ~Given(dashD) /\ ~login
    BY <2>2, <2>3, <2>7 DEF Given
  <2>8. QED  BY <2>4, <2>5, <2>6, <2>7
<1>4. LET runas == FindKv(i.settings, <<"runas_user">>)
      IN  (IF runas \in {None, Empty} THEN Root ELSE runas) = RunasUser(i)
  BY FindsTheSame DEF RunasUser, Given
<1>5. HasCommandWord(i) <=> Collect(i.argv, i.optind) # <<>>
  BY TypedIsEmpty DEF Typed
<1>6. BuildBlock(i.settings, i.user_info, Collect(i.argv, i.optind), ColorAllowed(i.envp))
        = IF HasCommandWord(i) \/ RunsShell(i) THEN LinuxRows(i) ELSE <<>>
  <2> DEFINE typed == Collect(i.argv, i.optind)
             c == ColorAllowed(i.envp)
             runas == FindKv(i.settings, <<"runas_user">>)
             user == IF runas \in {None, Empty} THEN Root ELSE runas
             dir == DirLine(i.settings, i.user_info)
  <2>1. BuildBlock(i.settings, i.user_info, typed, c)
          = IF typed = <<>> /\ ~StartsShell(i.settings) THEN <<>>
            ELSE Row("run as:", <<user>>, c)
                   \o (IF dir = None THEN <<>> ELSE Row("directory:", <<dir>>, c))
                   \o (IF typed = <<>> THEN <<>> ELSE Row("input:", typed, c))
    BY DEF BuildBlock
  <2>2. /\ user = RunasUser(i) /\ dir = DirValue(i) /\ c = MacColor(i.envp)
        /\ typed = Typed(i)
        /\ typed = <<>> <=> ~HasCommandWord(i)
        /\ StartsShell(i.settings) <=> RunsShell(i)
    BY <1>1, <1>2, <1>3, <1>4, <1>5 DEF Typed
  <2> HIDE DEF typed, c, user, dir
  <2>3. (IF typed = <<>> THEN <<>> ELSE Row("input:", typed, c)) = InputRow(i, MacColor(i.envp))
    BY <2>2 DEF InputRow
  <2>4. QED  BY <2>1, <2>2, <2>3 DEF LinuxRows, typed, c
<1>7. FindKv(i.user_info, <<"uid">>) = MacFindKv(i.user_info, <<"uid">>)
  BY FindsTheSame
<1>8. QED  BY <1>6, <1>7 DEF LinuxBlock, MacShows

\* The rows are there, and "run as:" is the first, the directory the second.
LEMMA RowsOf ==
  ASSUME NEW i
  PROVE  \E R : /\ LinuxRows(i) \in Seq(R) /\ Len(LinuxRows(i)) >= 1
                /\ PathRow(i, MacColor(i.envp)) \in Seq(R)
<1> DEFINE c == MacColor(i.envp)
           rec(label, value) == [label |-> label, value |-> value, bold |-> c]
           path == MacFindKv(i.envp, <<"PATH">>)
           R == {rec("run as:", <<RunasUser(i)>>), rec("directory:", <<DirValue(i)>>),
                 rec("input:", Typed(i)), rec("PATH:", <<path>>)}
           first == Row("run as:", <<RunasUser(i)>>, c)
           second == IF DirValue(i) = None THEN <<>> ELSE Row("directory:", <<DirValue(i)>>, c)
<1>1. first \in Seq(R) /\ Row("directory:", <<DirValue(i)>>, c) \in Seq(R)
      /\ Row("input:", Typed(i), c) \in Seq(R) /\ Row("PATH:", <<path>>, c) \in Seq(R)
  BY RowIsASequence
<1>2. Len(first) = 1
  BY DEF Row
<1> HIDE DEF R, c, first
<1>3. <<>> \in Seq(R)
  OBVIOUS
<1>4. second \in Seq(R)
  BY <1>1, <1>3
<1>5. InputRow(i, c) \in Seq(R) /\ PathRow(i, c) \in Seq(R)
  BY <1>1, <1>3 DEF InputRow, PathRow
<1> HIDE DEF second
<1>6. first \o second \in Seq(R) /\ Len(first \o second) = 1 + Len(second)
  <2>1. first \o second \in Seq(R) /\ Len(first \o second) = Len(first) + Len(second)
    BY <1>1, <1>4, Joined
  <2>2. QED  BY <1>2, <2>1
<1>7. /\ first \o second \o InputRow(i, c) \in Seq(R)
      /\ Len(first \o second \o InputRow(i, c)) = 1 + Len(second) + Len(InputRow(i, c))
  <2> DEFINE head == first \o second
             input == InputRow(i, c)
  <2>1. head \in Seq(R) /\ input \in Seq(R)
    BY <1>5, <1>6
  <2> HIDE DEF head, input
  <2>2. head \o input \in Seq(R) /\ Len(head \o input) = Len(head) + Len(input)
    BY <2>1, Joined
  <2>3. QED  BY <1>6, <2>2 DEF head, input
<1>8. Len(second) \in Nat /\ Len(InputRow(i, c)) \in Nat
  BY <1>4, <1>5
<1>9. LinuxRows(i) = first \o second \o InputRow(i, c)
  BY DEF LinuxRows, first, second, c
<1>10. LinuxRows(i) \in Seq(R) /\ Len(LinuxRows(i)) >= 1
  BY <1>7, <1>8, <1>9
<1>11. PathRow(i, MacColor(i.envp)) \in Seq(R)
  BY <1>5 DEF c
<1>12. QED  BY <1>10, <1>11

\* Whatever sudo hands the two plugins, they show the same rows but for PATH:.
LEMMA TwinsAgree == TypeOK => TwinsShowTheSame
<1> SUFFICES ASSUME inv \in Invocations, inv.bundles = "ours", inv.refused = {}
             PROVE  MacBlock(inv) = IF LinuxBlock(inv) = <<>> THEN <<>>
                                    ELSE LinuxBlock(inv) \o PathRow(inv, MacColor(inv.envp))
  BY DEF TypeOK, TwinsShowTheSame
<1>1. LinuxBlock(inv) = IF MacShows(inv) THEN LinuxRows(inv) ELSE <<>>
  BY LinuxBlockIs
<1>2. LinuxRows(inv) # <<>>
  BY RowsOf, EmptySeq
<1>3. ~MacShows(inv) => MacBlock(inv) = <<>>
  BY DEF MacBlock
<1>4. MacShows(inv) => MacBlock(inv) = LinuxRows(inv) \o PathRow(inv, MacColor(inv.envp))
  BY DEF MacBlock, LinuxRows, DirRow
<1>5. QED  BY <1>1, <1>2, <1>3, <1>4

\* One invocation reads the same on macOS and on Linux, for arrays of any length with
\* any keys and values in them.
THEOREM TwinsReadTheSame == Spec => []TwinsShowTheSame
<1>1. IInv => TwinsShowTheSame
  BY TwinsAgree DEF IInv
<1>2. QED  BY InitIInv, NextIInv, <1>1, PTL DEF Spec
-----------------------------------------------------------------------------
(* What is on the terminal when the sheet goes up.                         *)

\* The pieces that were to be written so far.
Due ==
  IF pc = "open" THEN 0
  ELSE IF pc \in {"block", "policy"} THEN Len(BlockPieces)
  ELSE IF pc = "verify" THEN Len(BlockPieces) + Len(VerifyPieces)
  ELSE Len(BlockPieces) + Len(VerifyPieces) + Len(ExecPieces)

\* Unless a write was given up, what is not on the terminal is pending.
Accounted == ~lost /\ (pc # "done" \/ sheet.raised) => Len(term) + Len(pending) = Due

\* The sheet is macOS's, of what the policy resolved: -D, if there was one.
Told ==
  /\ pc \in {"policy", "verify", "execute"} \/ sheet.raised => inv.platform # "linux"
  /\ pc \in {"verify", "execute"} \/ sheet.raised =>
       (Given(DashD(inv)) => info.dir = DashD(inv))
  /\ sheet.raised => sheet = SheetFor(inv, info)

SettledInv == Accounted /\ Told

LEMMA InitSettled == Init => SettledInv
<1> SUFFICES ASSUME Init PROVE SettledInv
  OBVIOUS
<1>1. Accounted
  BY DEF Init, Accounted, Due
<1>2. Told
  BY DEF Init, Told, NoSheet
<1>3. QED  BY <1>1, <1>2 DEF SettledInv

LEMMA NextAccounted ==
  ASSUME TypeOK, TranscriptInv, SettledInv, [Next]_vars
  PROVE  Accounted'
<1>1. Accounted /\ (sheet.raised => pc = "done")
  BY DEF SettledInv, TypeOK
<1>2. PICK T : term \in Seq(T) /\ pending \in Seq(T)
  BY DEF TranscriptInv, AreSequences
<1>3. /\ Len(term) \in Nat /\ Len(pending) \in Nat
      /\ pending = <<>> => Len(pending) = 0
  BY <1>2
<1>4. pc \in {"open", "policy", "done"} => pending = <<>>
  BY DEF TypeOK
<1>5. Len(BlockPieces) \in Nat /\ Len(VerifyPieces) = 2 /\ Len(ExecPieces) \in {0, 2}
  BY ThreeParts
<1>6. ASSUME inv' = inv
      PROVE  BlockPieces' = BlockPieces /\ VerifyPieces' = VerifyPieces
  BY <1>6 DEF BlockPieces, VerifyPieces
<1>7. ASSUME inv' = inv, info' = info
      PROVE  ExecPieces' = ExecPieces
  BY <1>7 DEF ExecPieces
<1>8. CASE Open
  <2>1. /\ pc = "open" /\ pc' = "block" /\ term' = term /\ lost' = lost /\ inv' = inv
        /\ pending' = BlockPieces
    BY <1>8 DEF Open, BlockPieces
  <2>2. ~lost => Len(term) = 0
    BY <1>1, <1>3, <1>4, <2>1 DEF Accounted, Due
  <2>3. QED  BY <1>5, <1>6, <2>1, <2>2 DEF Accounted, Due
<1>9. CASE Write
  <2>1. PICK k \in 1..Len(pending) :
          term' = term \o SubSeq(pending, 1, k) /\ pending' = SubSeq(pending, k + 1, Len(pending))
    BY <1>9 DEF Write
  <2>2. Len(term') = Len(term) + k /\ Len(pending') = Len(pending) - k
    BY <1>2, <2>1, WriteAppends
  <2>3. Len(term') + Len(pending') = Len(term) + Len(pending)
    BY <1>3, <2>2
  <2>4. UNCHANGED <<inv, info, pc, lost, sheet>>
    BY <1>9 DEF Write
  <2>5. Due' = Due
    BY <1>6, <1>7, <2>4 DEF Due
  <2>6. QED  BY <1>1, <2>3, <2>4, <2>5 DEF Accounted
<1>10. CASE Interrupted \/ UNCHANGED vars
  <2>1. UNCHANGED <<inv, info, pc, pending, term, lost, sheet>>
    BY <1>10 DEF Interrupted, vars
  <2>2. Due' = Due
    BY <1>6, <1>7, <2>1 DEF Due
  <2>3. QED  BY <1>1, <2>1, <2>2 DEF Accounted
<1>11. CASE GiveUp
  BY <1>11 DEF GiveUp, Accounted
<1>12. CASE OpenReturns
  <2>1. /\ pc = "block" /\ pc' \in {"policy", "done"} /\ pending = <<>> /\ pending' = pending
        /\ UNCHANGED <<inv, info, term, lost, sheet>>
    BY <1>12 DEF OpenReturns, AfterBlock
  <2>2. pc' = "policy" => Due' = Due
    BY <1>6, <2>1 DEF Due
  <2>3. pc' = "done" => ~sheet'.raised
    BY <1>1, <2>1
  <2>4. QED  BY <1>1, <2>1, <2>2, <2>3 DEF Accounted
<1>13. CASE PolicyResolves
  <2>1. /\ pc = "policy" /\ UNCHANGED <<inv, term, lost, sheet>>
        /\ \/ pc' = "done"
           \/ pc' = "verify" /\ pending' = VerifyPieces
    BY <1>13 DEF PolicyResolves, VerifyPieces
  <2>2. ~sheet'.raised
    BY <1>1, <2>1
  <2>3. ~lost => Len(term) = Len(BlockPieces)
    BY <1>1, <1>3, <1>4, <2>1 DEF Accounted, Due
  <2>4. QED  BY <1>5, <1>6, <2>1, <2>2, <2>3 DEF Accounted, Due
<1>14. CASE VerifyWritten
  <2>1. /\ pc = "verify" /\ pc' = "execute" /\ pending = <<>> /\ pending' = ExecPieces
        /\ UNCHANGED <<inv, info, term, lost, sheet>>
    BY <1>14 DEF VerifyWritten, ExecPieces
  <2>2. ~lost => Len(term) = Len(BlockPieces) + Len(VerifyPieces)
    BY <1>1, <1>3, <2>1 DEF Accounted, Due
  <2>3. QED  BY <1>5, <1>6, <1>7, <2>1, <2>2 DEF Accounted, Due
<1>15. CASE RaiseSheet
  <2>1. /\ pc = "execute" /\ pc' = "done" /\ UNCHANGED <<inv, info, pending, term, lost>>
    BY <1>15 DEF RaiseSheet
  <2>2. Due' = Due
    BY <1>6, <1>7, <2>1 DEF Due
  <2>3. QED  BY <1>1, <2>1, <2>2 DEF Accounted
<1>16. QED
  BY <1>8, <1>9, <1>10, <1>11, <1>12, <1>13, <1>14, <1>15 DEF Next

LEMMA NextTold ==
  ASSUME TypeOK, SettledInv, [Next]_vars
  PROVE  Told'
<1>1. Told /\ (sheet.raised => pc = "done")
  BY DEF SettledInv, TypeOK
<1>2. CASE Open
  BY <1>1, <1>2 DEF Open, Told
<1>3. CASE Write \/ GiveUp \/ Interrupted \/ UNCHANGED vars
  <2>1. UNCHANGED <<inv, info, pc, sheet>>
    BY <1>3 DEF Write, GiveUp, Interrupted, vars
  <2>2. QED  BY <1>1, <2>1 DEF Told
<1>4. CASE OpenReturns
  <2>1. pc = "block" /\ UNCHANGED <<inv, info, sheet>> /\ pc' = AfterBlock(inv)
    BY <1>4 DEF OpenReturns
  <2>2. pc' \in {"policy", "done"} /\ (pc' = "policy" => inv.platform # "linux")
    BY <2>1 DEF AfterBlock
  <2>3. QED  BY <1>1, <2>1, <2>2 DEF Told
<1>5. CASE PolicyResolves
  <2>1. /\ pc = "policy" /\ UNCHANGED <<inv, sheet>> /\ pc' \in {"done", "verify"}
        /\ Given(DashD(inv)) => info'.dir = DashD(inv)
    BY <1>5 DEF PolicyResolves
  <2>2. QED  BY <1>1, <2>1 DEF Told
<1>6. CASE VerifyWritten
  <2>1. pc = "verify" /\ pc' = "execute" /\ UNCHANGED <<inv, info, sheet>>
    BY <1>6 DEF VerifyWritten
  <2>2. QED  BY <1>1, <2>1 DEF Told
<1>7. CASE RaiseSheet
  <2>1. /\ pc = "execute" /\ pc' = "done" /\ UNCHANGED <<inv, info>>
        /\ sheet' = SheetFor(inv, info)
    BY <1>7 DEF RaiseSheet
  <2>2. QED  BY <1>1, <2>1 DEF Told
<1>8. QED
  BY <1>2, <1>3, <1>4, <1>5, <1>6, <1>7 DEF Next

\* Four groups of rows, one after the other, and the first two of them.
Four(a, b, c, d) == a \o b \o c \o d
Begins(rows, a, b) == rows[1] = a[1] /\ (Len(b) = 1 => rows[2] = b[1])

LEMMA SecondOfTwo ==
  ASSUME NEW R, NEW a \in Seq(R), NEW b \in Seq(R), Len(a) = 1, Len(b) = 1
  PROVE  (a \o b)[2] = b[1]
<1>1. \A k \in 1..(Len(a) + Len(b)) :
        (a \o b)[k] = IF k <= Len(a) THEN a[k] ELSE b[k - Len(a)]
  BY ConcatProperties
<1>2. 2 \in 1..(Len(a) + Len(b)) /\ ~(2 <= Len(a)) /\ 2 - Len(a) = 1
  OBVIOUS
<1>3. QED  BY <1>1, <1>2

LEMMA FirstTwo ==
  ASSUME NEW R, NEW a \in Seq(R), NEW b \in Seq(R), NEW c \in Seq(R), NEW d \in Seq(R),
         Len(a) = 1
  PROVE  /\ Len(Four(a, b, c, d)) \in Nat /\ Len(Four(a, b, c, d)) >= 1 + Len(b)
         /\ Begins(Four(a, b, c, d), a, b)
<1> DEFINE ab == a \o b
           abc == ab \o c
           abcd == abc \o d
<1>1. Len(a) \in Nat /\ Len(b) \in Nat /\ Len(c) \in Nat /\ Len(d) \in Nat
  OBVIOUS
<1>2. ab \in Seq(R) /\ Len(ab) = 1 + Len(b) /\ ab[1] = a[1]
  <2>1. ab \in Seq(R)
    BY Joined
  <2>2. Len(ab) = Len(a) + Len(b)
    BY Joined
  <2>3. \A k \in 1..Len(a) : ab[k] = a[k]
    BY Joined
  <2> HIDE DEF ab
  <2>4. QED  BY <2>1, <2>2, <2>3
<1>3. Len(b) = 1 => ab[2] = b[1]
  BY SecondOfTwo
<1> HIDE DEF ab
<1>4. /\ abc \in Seq(R) /\ Len(abc) = Len(ab) + Len(c)
      /\ \A k \in 1..Len(ab) : abc[k] = ab[k]
  <2>1. abc \in Seq(R)
    BY <1>2, Joined
  <2>2. Len(abc) = Len(ab) + Len(c)
    BY <1>2, Joined
  <2>3. \A k \in 1..Len(ab) : abc[k] = ab[k]
    BY <1>2, Joined
  <2>4. QED  BY <2>1, <2>2, <2>3
<1> HIDE DEF abc
<1>5. /\ Len(abcd) = Len(abc) + Len(d)
      /\ \A k \in 1..Len(abc) : abcd[k] = abc[k]
  <2>1. Len(abcd) = Len(abc) + Len(d)
    BY <1>4, Joined
  <2>2. \A k \in 1..Len(abc) : abcd[k] = abc[k]
    BY <1>4, Joined
  <2>3. QED  BY <2>1, <2>2
<1> HIDE DEF abcd
<1>6. Len(abcd) \in Nat /\ Len(abcd) >= 1 + Len(b)
  BY <1>1, <1>2, <1>4, <1>5
<1>7. abcd[1] = a[1]
  <2>1. 1 \in 1..Len(ab) /\ 1 \in 1..Len(abc)
    BY <1>1, <1>2, <1>4
  <2>2. QED  BY <1>2, <1>4, <1>5, <2>1
<1>8. ASSUME Len(b) = 1
      PROVE  abcd[2] = b[1]
  <2>1. 2 \in 1..Len(ab) /\ 2 \in 1..Len(abc)
    BY <1>1, <1>2, <1>4, <1>8
  <2>2. QED  BY <1>3, <1>4, <1>5, <1>8, <2>1
<1>9. QED  BY <1>6, <1>7, <1>8 DEF Begins, Four, abcd, abc, ab

\* The user is in the first row of a block, the directory in the second.
LEMMA MacRows ==
  ASSUME NEW i, MacBlock(i) # <<>>
  PROVE  /\ Len(MacBlock(i)) \in Nat /\ Len(MacBlock(i)) >= 1
         /\ MacBlock(i)[1].label = "run as:" /\ MacBlock(i)[1].value = <<RunasUser(i)>>
         /\ DirValue(i) # None /\ "directory" \notin i.refused =>
              /\ Len(MacBlock(i)) >= 2
              /\ MacBlock(i)[2].label = "directory:" /\ MacBlock(i)[2].value = <<DirValue(i)>>
<1> DEFINE c == MacColor(i.envp)
           rec(label, value) == [label |-> label, value |-> value, bold |-> c]
           path == MacFindKv(i.envp, <<"PATH">>)
           R == {rec("run as:", <<RunasUser(i)>>), rec("directory:", <<DirValue(i)>>),
                 rec("input:", Typed(i)), rec("PATH:", <<path>>)}
           first == Row("run as:", <<RunasUser(i)>>, c)
           dir == Row("directory:", <<DirValue(i)>>, c)
<1>1. MacBlock(i) = first \o DirRow(i, c) \o InputRow(i, c) \o PathRow(i, c)
  BY DEF MacBlock
<1>2. first \in Seq(R) /\ dir \in Seq(R)
      /\ Row("input:", Typed(i), c) \in Seq(R) /\ Row("PATH:", <<path>>, c) \in Seq(R)
  BY RowIsASequence
<1>3. /\ Len(first) = 1 /\ first[1].label = "run as:" /\ first[1].value = <<RunasUser(i)>>
      /\ Len(dir) = 1 /\ dir[1].label = "directory:" /\ dir[1].value = <<DirValue(i)>>
  BY DEF Row
<1> HIDE DEF R
<1>4. <<>> \in Seq(R)
  OBVIOUS
<1>5. DirRow(i, c) = <<>> \/ DirRow(i, c) = dir
  BY DEF DirRow
<1>6. DirValue(i) # None /\ "directory" \notin i.refused => DirRow(i, c) = dir
  BY DEF DirRow
<1>7. InputRow(i, c) \in Seq(R) /\ PathRow(i, c) \in Seq(R)
  <2> HIDE DEF c, first, dir
  <2>1. InputRow(i, c) = <<>> \/ InputRow(i, c) = Row("input:", Typed(i), c)
    BY DEF InputRow
  <2>2. PathRow(i, c) = <<>> \/ PathRow(i, c) = Row("PATH:", <<path>>, c)
    BY DEF PathRow
  <2>3. QED  BY <1>2, <1>4, <2>1, <2>2
<1> HIDE DEF c, first, dir
<1>8. DirRow(i, c) \in Seq(R)
  BY <1>2, <1>4, <1>5
<1>9. /\ Len(MacBlock(i)) \in Nat /\ Len(MacBlock(i)) >= 1 + Len(DirRow(i, c))
      /\ MacBlock(i)[1] = first[1]
      /\ Len(DirRow(i, c)) = 1 => MacBlock(i)[2] = DirRow(i, c)[1]
  <2> DEFINE second == DirRow(i, c)
             third  == InputRow(i, c)
             fourth == PathRow(i, c)
             block  == MacBlock(i)
  <2>1. block = Four(first, second, third, fourth)
    BY <1>1 DEF Four
  <2>2. first \in Seq(R) /\ second \in Seq(R) /\ third \in Seq(R) /\ fourth \in Seq(R)
    BY <1>2, <1>7, <1>8
  <2>3. Len(first) = 1
    BY <1>3
  <2> HIDE DEF second, third, fourth, block
  <2>4. Len(block) \in Nat /\ Len(block) >= 1 + Len(second)
    BY <2>1, <2>2, <2>3, FirstTwo
  <2>5. Begins(Four(first, second, third, fourth), first, second)
    BY <2>2, <2>3, FirstTwo
  <2>6. QED  BY <2>1, <2>4, <2>5 DEF Begins, second, block
<1>10. Len(DirRow(i, c)) \in Nat
  BY <1>8
<1>11. Len(MacBlock(i)) \in Nat /\ Len(MacBlock(i)) >= 1
  BY <1>9, <1>10
<1>12. MacBlock(i)[1].label = "run as:" /\ MacBlock(i)[1].value = <<RunasUser(i)>>
  BY <1>3, <1>9
<1>13. ASSUME DirValue(i) # None, "directory" \notin i.refused
       PROVE  /\ Len(MacBlock(i)) >= 2
              /\ MacBlock(i)[2].label = "directory:" /\ MacBlock(i)[2].value = <<DirValue(i)>>
  <2>1. DirRow(i, c) = dir
    BY <1>6, <1>13
  <2>2. Len(DirRow(i, c)) = 1
    BY <1>3, <2>1
  <2>3. MacBlock(i)[2] = dir[1]
    BY <1>9, <2>1, <2>2
  <2>4. Len(MacBlock(i)) >= 2
    BY <1>9, <1>11, <2>2
  <2>5. QED  BY <1>3, <2>3, <2>4
<1>14. QED  BY <1>11, <1>12, <1>13

\* The pieces of the first row, and of the second.
LEMMA PiecesOfRow ==
  ASSUME NEW rows, Len(rows) \in Nat
  PROVE  /\ Len(rows) >= 1 => /\ Pieces(rows)[1] = [row |-> rows[1], second |-> FALSE]
                              /\ Pieces(rows)[2] = [row |-> rows[1], second |-> TRUE]
         /\ Len(rows) >= 2 => /\ Pieces(rows)[3] = [row |-> rows[2], second |-> FALSE]
                              /\ Pieces(rows)[4] = [row |-> rows[2], second |-> TRUE]
<1>1. \A k \in 1..(2 * Len(rows)) :
        Pieces(rows)[k] = [row |-> rows[(k + 1) \div 2], second |-> k % 2 = 0]
  BY DEF Pieces
<1>2. /\ Len(rows) >= 1 => 1 \in 1..(2 * Len(rows)) /\ 2 \in 1..(2 * Len(rows))
      /\ Len(rows) >= 2 => 3 \in 1..(2 * Len(rows)) /\ 4 \in 1..(2 * Len(rows))
  OBVIOUS
<1>3. /\ (1 + 1) \div 2 = 1 /\ (2 + 1) \div 2 = 1 /\ (3 + 1) \div 2 = 2 /\ (4 + 1) \div 2 = 2
      /\ 1 % 2 # 0 /\ 2 % 2 = 0 /\ 3 % 2 # 0 /\ 4 % 2 = 0
  OBVIOUS
<1>4. QED  BY <1>1, <1>2, <1>3

\* A row both pieces of which are among what the terminal has.
LEMMA RowOnTerminal ==
  ASSUME NEW m \in Nat, m + 2 \in DOMAIN term, m + 1 \in DOMAIN term, NEW r,
         term[m + 1] = [row |-> r, second |-> FALSE],
         term[m + 2] = [row |-> r, second |-> TRUE],
         NEW label, NEW value, r.label = label, r.value = <<value>>
  PROVE  OnTerminal(label, value)
<1>1. /\ term[m + 1].row = r /\ term[m + 1].second = FALSE
      /\ term[m + 2].row = r /\ term[m + 2].second = TRUE
  OBVIOUS
<1>2. ASSUME NEW second \in BOOLEAN
      PROVE  \E k \in DOMAIN term :
               /\ term[k].row.label = label /\ term[k].row.value = <<value>>
               /\ term[k].second = second
  <2>1. CASE second = FALSE
    <3>1. WITNESS m + 1 \in DOMAIN term
    <3>2. QED  BY <1>1, <2>1
  <2>2. CASE second = TRUE
    <3>1. WITNESS m + 2 \in DOMAIN term
    <3>2. QED  BY <1>1, <2>2
  <2>3. QED  BY <2>1, <2>2
<1>3. QED  BY <1>2 DEF OnTerminal

\* What an elided directory says on the sheet is what the block's row says.
LEMMA DirectoryNamed ==
  ASSUME inv \in Invocations, info \in Resolved,
         "directory" \in SheetFor(inv, info).elided,
         Given(DashD(inv)) => info.dir = DashD(inv),
         info.dir \in {None, DashD(inv)},
         Given(DashD(inv)) \/ ~SettingTrue(inv, <<"login_shell">>)
  PROVE  DirValue(inv) = SheetDir(inv, info) /\ DirValue(inv) # None
<1> DEFINE cwd == MacFindKv(inv.user_info, <<"cwd">>)
<1>1. LengthOf(SheetDir(inv, info)) > MaxCwd
  BY DEF SheetFor, Elided
<1>2. SheetDir(inv, info) \in Dirs
  BY <1>1 DEF LengthOf, MaxCwd
<1>3. Given(SheetDir(inv, info))
  BY <1>2, ValuesAssumption DEF Given, Values
<1>4. CASE Given(DashD(inv))
  <2>1. info.dir = DashD(inv) /\ info.dir # None
    BY <1>4 DEF Given
  <2>2. SheetDir(inv, info) = DashD(inv)
    BY <2>1 DEF SheetDir
  <2>3. DirValue(inv) = DashD(inv)
    BY <1>4 DEF DirValue, DashD
  <2>4. QED  BY <2>1, <2>2, <2>3
<1>5. CASE ~Given(DashD(inv))
  <2>1. info.dir = None
    <3>1. info.dir \in Dirs \cup {None}
      BY DEF Resolved
    <3>2. Empty \notin Dirs
      BY ValuesAssumption DEF Values
    <3>3. QED  BY <1>5, <3>1, <3>2 DEF Given
  <2>2. SheetDir(inv, info) = cwd
    BY <2>1 DEF SheetDir
  <2>3. DirValue(inv) = cwd
    BY <1>3, <1>5, <2>2 DEF DirValue, DashD
  <2>4. QED  BY <1>3, <2>2, <2>3 DEF Given
<1>6. QED  BY <1>4, <1>5

\* With everything due on the terminal, the rows the markers name are there, whole.
LEMMA MarkersAreBacked ==
  ASSUME TypeOK, TranscriptInv, SettledInv
  PROVE  MarkersBacked
<1> SUFFICES ASSUME sheet.raised, ~lost
             PROVE  /\ "command" \in sheet.elided /\ inv.echo /\ "execute" \notin inv.refused
                         => OnTerminal("execute:", info.command)
                    /\ MacBlock(inv) # <<>> =>
                         /\ "user" \in sheet.elided /\ info.user = RunasUser(inv)
                              => OnTerminal("run as:", info.user)
                         /\ /\ "directory" \in sheet.elided /\ "directory" \notin inv.refused
                            /\ info.dir \in {None, DashD(inv)}
                            /\ Given(DashD(inv)) \/ ~SettingTrue(inv, <<"login_shell">>)
                            => OnTerminal("directory:", SheetDir(inv, info))
  BY DEF MarkersBacked
<1>1. /\ pc = "done" /\ pending = <<>> /\ inv \in Invocations /\ info \in Resolved
  BY DEF TypeOK, Resolved
<1>2. /\ inv.platform # "linux"
      /\ (Given(DashD(inv)) => info.dir = DashD(inv))
  BY DEF SettledInv, Told
<1>3. sheet = SheetFor(inv, info)
  BY DEF SettledInv, Told
<1>4. PICK b \in Nat, v \in Nat, e \in Nat : Counts(b, v, e)
  BY DEF TranscriptInv
<1>5. /\ b \in 0..Len(BlockPieces) /\ v \in 0..Len(VerifyPieces) /\ e \in 0..Len(ExecPieces)
      /\ Len(term) = b + v + e
      /\ \A k \in 1..b : term[k] = BlockPieces[k]
      /\ \A k \in 1..e : term[b + v + k] = ExecPieces[k]
  BY <1>4 DEF Counts, Has
<1>6. Len(BlockPieces) \in Nat /\ Len(VerifyPieces) = 2 /\ Len(ExecPieces) \in {0, 2}
  BY ThreeParts
<1>7. Len(term) = Len(BlockPieces) + Len(VerifyPieces) + Len(ExecPieces)
  <2>1. Len(pending) = 0 /\ Len(term) \in Nat
    BY <1>1, <1>5
  <2>2. Len(term) + Len(pending) = Len(BlockPieces) + Len(VerifyPieces) + Len(ExecPieces)
    BY <1>1 DEF SettledInv, Accounted, Due
  <2>3. QED  BY <2>1, <2>2
<1>8. b = Len(BlockPieces) /\ v = 2 /\ e = Len(ExecPieces)
  BY <1>5, <1>6, <1>7
<1>9. DOMAIN term = 1..Len(term)
  BY DEF TranscriptInv, AreSequences
<1>10. ASSUME inv.echo, "execute" \notin inv.refused
       PROVE  OnTerminal("execute:", info.command)
  <2> DEFINE r == ExecRow(inv, info)[1]
  <2>1. /\ Len(ExecRow(inv, info)) = 1
        /\ r.label = "execute:" /\ r.value = <<info.command>>
    BY <1>10 DEF ExecRow, Row
  <2> DEFINE rows == ExecRow(inv, info)
  <2>2. ExecPieces = Pieces(rows) /\ Len(rows) \in Nat /\ Len(rows) >= 1 /\ Len(rows) = 1
        /\ rows[1] = r
    BY <2>1 DEF ExecPieces
  <2> HIDE DEF r, rows
  <2>3. Len(ExecPieces) = 2
    <3>1. Len(ExecPieces) = 2 * Len(rows)
      BY <2>2, PiecesLength
    <3>2. QED  BY <2>2, <3>1
  <2>4. /\ ExecPieces[1] = [row |-> r, second |-> FALSE]
        /\ ExecPieces[2] = [row |-> r, second |-> TRUE]
    BY <2>2, PiecesOfRow
  <2>5. b + v \in Nat /\ b + v + 1 \in DOMAIN term /\ b + v + 2 \in DOMAIN term
    BY <1>5, <1>8, <1>9, <2>3
  <2>6. term[b + v + 1] = ExecPieces[1] /\ term[b + v + 2] = ExecPieces[2]
    BY <1>5, <1>8, <2>3
  <2>7. QED  BY <2>1, <2>4, <2>5, <2>6, RowOnTerminal
<1>11. ASSUME MacBlock(inv) # <<>>
       PROVE  /\ OnTerminal("run as:", RunasUser(inv))
              /\ DirValue(inv) # None /\ "directory" \notin inv.refused
                   => OnTerminal("directory:", DirValue(inv))
  <2> DEFINE rows == MacBlock(inv)
  <2>1. /\ Len(rows) \in Nat /\ Len(rows) >= 1
        /\ rows[1].label = "run as:" /\ rows[1].value = <<RunasUser(inv)>>
        /\ DirValue(inv) # None /\ "directory" \notin inv.refused =>
             /\ Len(rows) >= 2
             /\ rows[2].label = "directory:" /\ rows[2].value = <<DirValue(inv)>>
    BY <1>11, MacRows
  <2>2. BlockPieces = Pieces(rows)
    BY <1>2 DEF BlockPieces, Block, rows
  <2> HIDE DEF rows
  <2>3. Len(BlockPieces) = 2 * Len(rows)
    BY <2>1, <2>2, PiecesLength
  <2>4. /\ b \in Nat /\ 1 \in 1..b /\ 2 \in 1..b
        /\ Len(rows) >= 2 => 3 \in 1..b /\ 4 \in 1..b
    <3>1. Len(rows) \in Nat /\ Len(rows) >= 1 /\ b = 2 * Len(rows)
      BY <1>8, <2>1, <2>3
    <3>2. QED  BY <3>1
  <2>5. /\ BlockPieces[1] = [row |-> rows[1], second |-> FALSE]
        /\ BlockPieces[2] = [row |-> rows[1], second |-> TRUE]
    BY <2>1, <2>2, PiecesOfRow
  <2>6. OnTerminal("run as:", RunasUser(inv))
    <3>1. 0 + 1 = 1 /\ 0 + 2 = 2 /\ 0 \in Nat /\ 1 \in 1..b /\ 2 \in 1..b
      BY <2>4
    <3>2. 0 + 1 \in DOMAIN term /\ 0 + 2 \in DOMAIN term
      BY <1>5, <1>9, <3>1
    <3>3. term[0 + 1] = BlockPieces[1] /\ term[0 + 2] = BlockPieces[2]
      BY <1>5, <3>1
    <3>4. QED  BY <2>1, <2>5, <3>1, <3>2, <3>3, RowOnTerminal
  <2>7. ASSUME DirValue(inv) # None, "directory" \notin inv.refused
        PROVE  OnTerminal("directory:", DirValue(inv))
    <3>1. /\ Len(rows) >= 2
          /\ rows[2].label = "directory:" /\ rows[2].value = <<DirValue(inv)>>
      BY <2>1, <2>7
    <3>2. /\ BlockPieces[3] = [row |-> rows[2], second |-> FALSE]
          /\ BlockPieces[4] = [row |-> rows[2], second |-> TRUE]
      BY <2>1, <2>2, <3>1, PiecesOfRow
    <3>3. 2 + 1 = 3 /\ 2 + 2 = 4 /\ 2 \in Nat /\ 3 \in 1..b /\ 4 \in 1..b
      BY <2>4, <3>1
    <3>4. 2 + 1 \in DOMAIN term /\ 2 + 2 \in DOMAIN term
      BY <1>5, <1>9, <3>3
    <3>5. term[2 + 1] = BlockPieces[3] /\ term[2 + 2] = BlockPieces[4]
      BY <1>5, <3>3
    <3>6. QED  BY <3>1, <3>2, <3>3, <3>4, <3>5, RowOnTerminal
  <2>8. QED  BY <2>6, <2>7
<1>12. ASSUME "directory" \in sheet.elided, info.dir \in {None, DashD(inv)},
              Given(DashD(inv)) \/ ~SettingTrue(inv, <<"login_shell">>)
       PROVE  DirValue(inv) = SheetDir(inv, info) /\ DirValue(inv) # None
  <2>1. "directory" \in SheetFor(inv, info).elided
    BY <1>3, <1>12
  <2>2. QED  BY <1>1, <1>2, <1>12, <2>1, DirectoryNamed
<1>13. QED  BY <1>10, <1>11, <1>12

\* "(see terminal)" on the sheet points at something, for values of any length and
\* however the writes were split: unless one was given up, the terminal has the row.
THEOREM MarkersHaveTheirRows == Spec => []MarkersBacked
<1> DEFINE Inv == IInv /\ TranscriptInv /\ SettledInv
<1>1. Init => Inv
  BY InitIInv, InitInOrder, InitSettled
<1>2. Inv /\ [Next]_vars => Inv'
  <2> SUFFICES ASSUME Inv, [Next]_vars PROVE Inv'
    OBVIOUS
  <2>1. TypeOK
    BY DEF IInv
  <2>2. IInv' /\ TranscriptInv'
    BY <2>1, NextIInv, NextInOrder
  <2>3. SettledInv'
    BY <2>1, NextAccounted, NextTold DEF SettledInv
  <2>4. QED  BY <2>2, <2>3
<1>3. Inv => MarkersBacked
  BY MarkersAreBacked DEF IInv
<1> HIDE DEF Inv
<1>4. QED  BY <1>1, <1>2, <1>3, PTL DEF Spec
=============================================================================
