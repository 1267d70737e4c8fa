----------------------------- MODULE PromptSheet ----------------------------
(***************************************************************************)
(* PromptFormatter (plugin/PromptFormatter.m): the text of the Touch ID    *)
(* sheet within its budget.  What matters of a value is the length of its  *)
(* escaped rendering in UTF-16 units, 0 for a directory that is absent.    *)
(***************************************************************************)
EXTENDS Naturals

MaxTotal == 480
MaxUser == 64
MaxCwd == 160
MaxVerify == 32

Header == 14        \* run a command.
SeeTerminal == 14   \* (see terminal)
BottomClean == 30   \* Code must match your terminal.
BottomTrunc == 41   \* the warning sign, and: Long items are shown in your terminal.
BottomReserve == IF BottomClean > BottomTrunc THEN BottomClean ELSE BottomTrunc

Capped(n, cap) == IF n > cap THEN cap ELSE n

\* "Verify Code: " and the code, or "unavailable".
VerifyLine(code) == IF code > 0 THEN 13 + Capped(code, MaxVerify) ELSE 24

\* An item is shown whole or not at all.
Item(n, cap) == IF n > cap THEN SeeTerminal ELSE n

Overhead(user, cwd, code) ==
  Header + 2 + VerifyLine(code) + 2 + 7 + Item(user, MaxUser) + 2
    + (IF cwd > 0 THEN 10 + Item(cwd, MaxCwd) + 2 ELSE 0)
    + 8 + 2 + BottomReserve

\* A slip, for mutants only: room is kept for the shorter closing line.
CommandBudgetClean(user, cwd, code) ==
  MaxTotal - (Overhead(user, cwd, code) - BottomReserve + BottomClean)

\* The command takes what is left; the difference is unsigned.
CommandBudget(user, cwd, code) ==
  IF MaxTotal > Overhead(user, cwd, code) THEN MaxTotal - Overhead(user, cwd, code) ELSE 0

Elided(user, cwd, command, code) ==
  (IF user > MaxUser THEN {"user"} ELSE {})
    \cup (IF cwd > MaxCwd THEN {"directory"} ELSE {})
    \cup (IF command > CommandBudget(user, cwd, code) THEN {"command"} ELSE {})

\* macOS 27 puts the full stop itself: SystemHeadline gives ours up.
Bottom(elided, headline) ==
  (IF elided = {} THEN BottomClean ELSE BottomTrunc) - (IF headline THEN 1 ELSE 0)

\* The sheet's text, field by field: each under its label, a blank line after it.
Layout(user, cwd, command, code, headline) ==
  Header + 2
    + (7 + Item(user, MaxUser) + 2)
    + (IF cwd > 0 THEN 10 + Item(cwd, MaxCwd) + 2 ELSE 0)
    + (8 + Item(command, CommandBudget(user, cwd, code)) + 2)
    + (VerifyLine(code) + 2)
    + Bottom(Elided(user, cwd, command, code), headline)
=============================================================================
