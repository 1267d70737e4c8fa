---------------------------- MODULE InstallProofs ---------------------------
(***************************************************************************)
(* Theorems about Install, for any number of builds and of scripts run one *)
(* after the other: nobody is let through behind the installer's back, a   *)
(* rollback restores, and what a script leaves when it ends works.         *)
(*                                                                         *)
(* The rollback list is described by the order in which install.bash       *)
(* registers (Slot), so an entry is in it once, and sudo.conf's backup is  *)
(* put back before a sudo.conf that was not there is removed.              *)
(***************************************************************************)
EXTENDS Install, SequenceTheorems, TLAPS

-----------------------------------------------------------------------------
Rm(f) == [do |-> "rm", file |-> f]
Mv(f) == [do |-> "mv", file |-> f]

In(s, e) == \E i \in DOMAIN s : s[i] = e

\* The order in which install.bash may register an entry.
Slot(e) == CASE e.file = "approval" -> 1
             [] e.file = "audit"    -> 2
             [] e.file = "pam"      -> 3
             [] e.file = "conf"     -> IF e.do = "rm" THEN 4 ELSE 5
             [] e.file = "sudoers"  -> 6
             [] OTHER               -> 7

Ordered(s) == \A i, j \in DOMAIN s : i < j => Slot(s[i]) < Slot(s[j])

\* The first slot that is still open at command k.
Open(k) == CASE k <= 5 -> k
             [] k \in 6..8 -> 6
             [] k \in 9..11 -> 7
             [] OTHER -> 8

StackInv ==
  /\ Ordered(stack)
  /\ job = "install" => \A e \in Entries : In(stack, e) => Slot(e) < Open(pc)
  /\ job \in {"idle", "uninstall"} => stack = << >>
  /\ \A f \in Files : In(stack, Mv(f)) => f \in Configs
  /\ job = "install" /\ pc \in 6..7 => In(stack, Mv("conf"))
  /\ job = "install" /\ pc \in 9..13 => In(stack, Rm("sudoers")) \/ In(stack, Mv("sudoers"))
  /\ job = "install" /\ pc \in 12..13 => In(stack, Rm("local")) \/ In(stack, Mv("local"))

LinesIn(file) == IF file = << >> THEN {} ELSE file[1]

\* What a sudo in flight may meet.
ConfInv ==
  /\ job = "install" /\ pc \in 5..7 => Present("conf")
  /\ In(stack, Mv("conf")) => /\ Present("conf") /\ bak["conf"] # << >>
                              /\ LinesIn(bak["conf"]) \subseteq ConfLines
  /\ run.stage = "loaded" /\ "approval" \in ConfLines => run.gated \/ run.crossed
  /\ FreeRunIsGated

\* What undoing the entries that are left comes to, for one file.
Restorable(f) ==
  /\ In(stack, Rm(f)) => before[f] = << >>
  /\ f \in Bundles => /\ before[f] = << >> => ~Present(f) \/ In(stack, Rm(f))
                      /\ before[f] # << >> => Present(f)
  /\ f \in Configs /\ ~In(stack, Rm(f)) =>
       IF In(stack, Mv(f)) THEN bak[f] = before[f] ELSE fs[f] = before[f]

RestoreInv == job \in {"install", "rollback"} /\ ~spoilt => \A f \in Files : Restorable(f)

UninstallInv ==
  job = "uninstall" =>
    /\ pc > 1 => ~Present("approval")
    /\ pc > 2 => ~Present("audit")
    /\ pc > 3 => ~Present("pam")
    /\ pc <= 4 => fs["conf"] = before["conf"]
    /\ pc = 5 => Present("conf") /\ before["conf"] # << >>
    /\ pc > 5 => /\ Present("conf") = (before["conf"] # << >>)
                 /\ Present("conf") => ConfLines = before["conf"][1] \ Ours
    /\ pc > 6 => ~Present("sudoers")

\* How a script ended stays true of the files until the next one starts.
EndInv ==
  /\ job # "idle" => ended = "none"
  /\ RollbackRestores
  /\ ended = "rolled back" /\ ~spoilt => \A f \in Bundles : before[f] # << >> => Present(f)
  /\ WorksAfterwards
  /\ UninstallIsComplete

IInv == TypeOK /\ StackInv /\ ConfInv /\ RestoreInv /\ UninstallInv /\ EndInv
-----------------------------------------------------------------------------
(* The rollback list.                                                      *)

LEMMA Push ==
  ASSUME NEW s \in Seq(Entries), NEW e \in Entries, Ordered(s),
         \A x \in Entries : In(s, x) => Slot(x) < Slot(e)
  PROVE  /\ Append(s, e) \in Seq(Entries) /\ Ordered(Append(s, e))
         /\ \A x \in Entries : In(Append(s, e), x) <=> In(s, x) \/ x = e
<1> DEFINE t == Append(s, e)
<1>1. /\ t \in Seq(Entries) /\ Len(s) \in Nat
      /\ DOMAIN s = 1..Len(s) /\ DOMAIN t = 1..(Len(s) + 1)
      /\ \A i \in 1..Len(s) : t[i] = s[i] /\ s[i] \in Entries
      /\ t[Len(s) + 1] = e
  BY AppendProperties
<1> HIDE DEF t
<1>2. \A i \in 1..Len(s) : Slot(s[i]) < Slot(e)
  BY <1>1 DEF In
<1>3. Ordered(t)
  <2> SUFFICES ASSUME NEW i \in DOMAIN t, NEW j \in DOMAIN t, i < j
               PROVE  Slot(t[i]) < Slot(t[j])
    BY DEF Ordered
  <2>1. CASE j \in 1..Len(s)
    BY <1>1, <2>1 DEF Ordered
  <2>2. CASE j = Len(s) + 1
    BY <1>1, <1>2, <2>2
  <2>3. QED  BY <1>1, <2>1, <2>2
<1>4. ASSUME NEW x \in Entries
      PROVE  In(t, x) <=> In(s, x) \/ x = e
  <2>1. \A i \in DOMAIN t : i \in DOMAIN s \/ i = Len(s) + 1
    BY <1>1
  <2>2. Len(s) + 1 \in DOMAIN t /\ DOMAIN s \subseteq DOMAIN t
    BY <1>1
  <2>3. QED  BY <1>1, <2>1, <2>2 DEF In
<1>5. QED  BY <1>1, <1>3, <1>4 DEF t

LEMMA Pop ==
  ASSUME NEW s \in Seq(Entries), s # << >>, Ordered(s)
  PROVE  LET t == SubSeq(s, 1, Len(s) - 1)
             e == s[Len(s)]
         IN  /\ t \in Seq(Entries) /\ Ordered(t)
             /\ e \in Entries /\ In(s, e) /\ ~In(t, e)
             /\ \A x \in Entries : In(s, x) <=> In(t, x) \/ x = e
             /\ \A x \in Entries : In(t, x) => Slot(x) < Slot(e)
<1> DEFINE t == SubSeq(s, 1, Len(s) - 1)
           e == s[Len(s)]
<1>1. /\ Len(s) \in Nat /\ Len(s) > 0 /\ DOMAIN s = 1..Len(s)
      /\ \A i \in 1..Len(s) : s[i] \in Entries
  BY EmptySeq, LenProperties
<1>2. 1 \in Int /\ Len(s) - 1 \in Int /\ \A i \in 1..(Len(s) - 1) : s[i] \in Entries
  BY <1>1
<1>3. /\ t \in Seq(Entries)
      /\ Len(t) = (IF 1 <= Len(s) - 1 THEN (Len(s) - 1) - 1 + 1 ELSE 0)
      /\ \A i \in 1..((Len(s) - 1) - 1 + 1) : t[i] = s[1 + i - 1]
  BY <1>2, SubSeqProperties
<1>4. /\ Len(t) = Len(s) - 1 /\ DOMAIN t = 1..(Len(s) - 1)
      /\ \A i \in 1..(Len(s) - 1) : t[i] = s[i]
  BY <1>1, <1>3
<1> HIDE DEF t
<1>5. e \in Entries /\ In(s, e)
  BY <1>1 DEF In
<1>6. Ordered(t)
  BY <1>1, <1>4 DEF Ordered
<1>7. \A i \in 1..(Len(s) - 1) : Slot(s[i]) < Slot(e)
  BY <1>1 DEF Ordered
<1>8. ASSUME NEW x \in Entries, In(t, x)
      PROVE  Slot(x) < Slot(e)
  BY <1>4, <1>7, <1>8 DEF In
<1>9. Slot(e) \in Nat
  BY <1>5 DEF Slot
<1>10. ~In(t, e)
  BY <1>5, <1>8, <1>9
<1>11. ASSUME NEW x \in Entries
       PROVE  In(s, x) <=> In(t, x) \/ x = e
  <2>1. \A i \in DOMAIN s : i \in DOMAIN t \/ i = Len(s)
    BY <1>1, <1>4
  <2>2. DOMAIN t \subseteq DOMAIN s /\ Len(s) \in DOMAIN s
    BY <1>1, <1>4
  <2>3. QED  BY <1>4, <2>1, <2>2 DEF In
<1>12. QED  BY <1>3, <1>5, <1>6, <1>8, <1>10, <1>11 DEF t

LEMMA EntryOf ==
  ASSUME NEW f \in Files
  PROVE  /\ Rm(f) \in Entries /\ Mv(f) \in Entries
         /\ Register("rm", f) = Append(stack, Rm(f))
         /\ Register("mv", f) = Append(stack, Mv(f))
BY DEF Rm, Mv, Entries, Register

\* Registering at command pc, in a slot that is still open.
LEMMA Registered ==
  ASSUME TypeOK, StackInv, job = "install", NEW e \in Entries, Slot(e) >= Open(pc),
         stack' = Append(stack, e)
  PROVE  /\ stack' \in Seq(Entries) /\ Ordered(stack')
         /\ \A x \in Entries : In(stack', x) <=> In(stack, x) \/ x = e
<1>1. \A x \in Entries : In(stack, x) => Slot(x) < Open(pc)
  BY DEF StackInv
<1>2. \A x \in Entries : Slot(x) \in Nat
  BY DEF Slot
<1>3. Open(pc) \in Nat
  <2>1. pc \in 1..13
    BY DEF TypeOK
  <2>2. QED  BY <2>1 DEF Open
<1>4. \A x \in Entries : In(stack, x) => Slot(x) < Slot(e)
  BY <1>1, <1>2, <1>3
<1>5. QED  BY <1>4, Push DEF TypeOK, StackInv

-----------------------------------------------------------------------------
(* The files.                                                              *)

Updated(new, files, f, x) == new = [files EXCEPT ![f] = x]

LEMMA Put ==
  ASSUME NEW files, NEW names, FilesOf(files, names),
         NEW f \in names, NEW x \in Kept(f), NEW new, Updated(new, files, f, x)
  PROVE  /\ FilesOf(new, names) /\ new[f] = x
         /\ \A g \in names : g # f => new[g] = files[g]
BY DEF FilesOf, Updated

\* What install(1), cp and tee write is of the file's own kind.
LEMMA Written ==
  ASSUME TypeOK, NEW f \in Files, NEW c \in Content(f), Write(f, c)
  PROVE  /\ FilesOf(fs', Files) /\ fs'[f] = <<c>>
         /\ \A g \in Files : g # f => fs'[g] = fs[g]
<1>1. Updated(fs', fs, f, <<c>>) /\ FilesOf(fs, Files)
  BY DEF Updated, Write, TypeOK
<1>2. <<c>> \in Kept(f)
  BY DEF Kept
<1>3. QED  BY <1>1, <1>2, Put

LEMMA Removed ==
  ASSUME TypeOK, NEW f \in Files, Remove(f)
  PROVE  /\ FilesOf(fs', Files) /\ fs'[f] = << >>
         /\ \A g \in Files : g # f => fs'[g] = fs[g]
<1>1. Updated(fs', fs, f, << >>) /\ FilesOf(fs, Files)
  BY DEF Updated, Remove, TypeOK
<1>2. << >> \in Kept(f)
  BY DEF Kept
<1>3. QED  BY <1>1, <1>2, Put

LEMMA BackedUp ==
  ASSUME TypeOK, NEW f \in Configs, Updated(bak', bak, f, fs[f])
  PROVE  /\ FilesOf(bak', Configs) /\ bak'[f] = fs[f]
         /\ \A g \in Configs : g # f => bak'[g] = bak[g]
<1>1. FilesOf(bak, Configs) /\ f \in Files
  BY DEF TypeOK, Files
<1>2. fs[f] \in Kept(f)
  BY <1>1 DEF TypeOK, FilesOf
<1>3. QED  BY <1>1, <1>2, Put

\* rollback(): an entry is one of the two kinds, and mv takes a backup away.
LEMMA UndoneFiles ==
  ASSUME TypeOK, NEW e \in Entries, e.do = "mv" => e.file \in Configs, Undone(e)
  PROVE  /\ FilesOf(fs', Files) /\ FilesOf(bak', Configs)
         /\ e = Rm(e.file) \/ e = Mv(e.file)
         /\ \A g \in Files : g # e.file => fs'[g] = fs[g]
         /\ \A g \in Configs : e # Mv(g) => bak'[g] = bak[g]
         /\ e = Rm(e.file) => fs'[e.file] = << >>
         /\ e = Mv(e.file) => fs'[e.file] = bak[e.file]
<1>1. e.file \in Files /\ e.do \in {"rm", "mv"} /\ e = [do |-> e.do, file |-> e.file]
  BY DEF Entries
<1>2. Rm(e.file).do = "rm" /\ Mv(e.file).do = "mv" /\ \A g : Mv(g).file = g
  BY DEF Rm, Mv
<1>3. CASE e.do = "rm"
  <2>1. Remove(e.file) /\ bak' = bak
    BY <1>3 DEF Undone
  <2>2. FilesOf(bak', Configs)
    BY <2>1 DEF TypeOK
  <2>3. e = Rm(e.file)
    BY <1>1, <1>3 DEF Rm
  <2>4. e # Mv(e.file)
    BY <1>2, <1>3
  <2>5. QED  BY <1>1, <2>1, <2>2, <2>3, <2>4, Removed
<1>4. CASE e.do = "mv"
  <2>1. /\ Updated(fs', fs, e.file, bak[e.file])
        /\ Updated(bak', bak, e.file, << >>)
        /\ e.file \in Configs
    BY <1>4 DEF Undone, Updated
  <2>2. bak[e.file] \in Kept(e.file)
    BY <2>1 DEF TypeOK, FilesOf
  <2>3. FilesOf(fs, Files) /\ FilesOf(bak, Configs)
    BY DEF TypeOK
  <2>4. /\ FilesOf(fs', Files) /\ fs'[e.file] = bak[e.file]
        /\ \A g \in Files : g # e.file => fs'[g] = fs[g]
    BY <1>1, <2>1, <2>2, <2>3, Put
  <2>5. /\ FilesOf(bak', Configs)
        /\ \A g \in Configs : g # e.file => bak'[g] = bak[g]
    <3>1. << >> \in Kept(e.file)
      BY DEF Kept
    <3>2. QED  BY <2>1, <2>3, <3>1, Put
  <2>6. e = Mv(e.file) /\ e # Rm(e.file)
    BY <1>1, <1>2, <1>4 DEF Mv
  <2>7. QED  BY <2>4, <2>5, <2>6
<1>5. QED  BY <1>1, <1>3, <1>4

LEMMA RegisteredIfAbsent ==
  ASSUME TypeOK, StackInv, job = "install", NEW f \in Files, Slot(Rm(f)) >= Open(pc),
         stack' = RegisterIfAbsent(f)
  PROVE  /\ stack' \in Seq(Entries) /\ Ordered(stack')
         /\ \A x \in Entries : In(stack', x) <=> In(stack, x) \/ (x = Rm(f) /\ ~Present(f))
<1>1. CASE Present(f)
  <2>1. stack' = stack
    BY <1>1 DEF RegisterIfAbsent
  <2>2. QED  BY <1>1, <2>1 DEF TypeOK, StackInv
<1>2. CASE ~Present(f)
  <2>1. stack' = Append(stack, Rm(f)) /\ Rm(f) \in Entries
    BY <1>2, EntryOf DEF RegisterIfAbsent
  <2>2. QED  BY <1>2, <2>1, Registered
<1>3. QED  BY <1>1, <1>2

LEMMA Bundle ==
  ASSUME NEW k \in 1..3
  PROVE  /\ Copied[k] \in Bundles /\ Copied[k] \in Files /\ Copied[k] \notin Configs
         /\ Slot(Rm(Copied[k])) = k
         /\ k = 1 => Copied[k] = "approval"
         /\ k = 2 => Copied[k] = "audit"
         /\ k = 3 => Copied[k] = "pam"
BY DEF Copied, Bundles, Configs, Files, Slot, Rm

LEMMA Slots ==
  /\ Slot(Rm("conf")) = 4 /\ Slot(Mv("conf")) = 5
  /\ Slot(Rm("sudoers")) = 6 /\ Slot(Mv("sudoers")) = 6
  /\ Slot(Rm("local")) = 7 /\ Slot(Mv("local")) = 7
BY DEF Slot, Rm, Mv

LEMMA OpenSlots ==
  /\ \A k \in 1..5 : Open(k) = k
  /\ \A k \in 6..8 : Open(k) = 6
  /\ \A k \in 9..11 : Open(k) = 7
  /\ \A k \in 12..13 : Open(k) = 8
BY DEF Open

\* Whatever is registered at command pc has a slot that was open and is not any more.
LEMMA BelowNext ==
  ASSUME TypeOK, StackInv, job = "install", NEW k \in 1..13, Open(pc) <= Open(k),
         NEW e \in Entries, Slot(e) < Open(k),
         \A x \in Entries : In(stack', x) => In(stack, x) \/ x = e
  PROVE  \A x \in Entries : In(stack', x) => Slot(x) < Open(k)
<1>1. \A x \in Entries : In(stack, x) => Slot(x) < Open(pc)
  BY DEF StackInv
<1>2. \A x \in Entries : Slot(x) \in Nat
  BY DEF Slot
<1>3. Open(k) \in Nat
  BY DEF Open
<1>4. pc \in 1..13
  BY DEF TypeOK
<1>5. Open(pc) \in Nat
  BY <1>4 DEF Open
<1>6. QED  BY <1>1, <1>2, <1>3, <1>5

-----------------------------------------------------------------------------
(* What the actions do, in these terms.                                    *)

Same(names) == \A g \in Files \ names : fs'[g] = fs[g]

LEMMA CopyBundleDoes ==
  ASSUME TypeOK, StackInv, CopyBundle
  PROVE  \E f \in Bundles :
           /\ job = "install" /\ job' = "install" /\ pc \in 1..3 /\ pc' = pc + 1
           /\ FilesOf(fs', Files) /\ fs'[f] = <<build>> /\ Same({f})
           /\ stack' \in Seq(Entries) /\ Ordered(stack')
           /\ Slot(Rm(f)) = pc
           /\ \A x \in Entries : In(stack', x) <=> In(stack, x) \/ (x = Rm(f) /\ ~Present(f))
           /\ UNCHANGED <<bak, build, before, ended, spoilt, run>>
<1>1. /\ job = "install" /\ pc \in 1..3 /\ Write(Copied[pc], build)
      /\ stack' = RegisterIfAbsent(Copied[pc])
      /\ pc' = pc + 1 /\ UNCHANGED <<job, before, ended, spoilt>>
      /\ UNCHANGED <<bak, build, run>>
  BY DEF CopyBundle, Go
<1>2. /\ Copied[pc] \in Bundles /\ Copied[pc] \in Files /\ Slot(Rm(Copied[pc])) = pc
      /\ Copied[pc] \notin Configs
  BY <1>1, Bundle
<1>3. build \in Content(Copied[pc])
  BY <1>2 DEF TypeOK, Content, Configs
<1>4. FilesOf(fs', Files) /\ fs'[Copied[pc]] = <<build>> /\ Same({Copied[pc]})
  BY <1>1, <1>2, <1>3, Written DEF Same
<1>5. Open(pc) = pc
  BY <1>1, OpenSlots
<1>6. /\ stack' \in Seq(Entries) /\ Ordered(stack')
      /\ \A x \in Entries : In(stack', x) <=>
           In(stack, x) \/ (x = Rm(Copied[pc]) /\ ~Present(Copied[pc]))
  BY <1>1, <1>2, <1>5, RegisteredIfAbsent
<1>7. QED  BY <1>1, <1>2, <1>4, <1>6

LEMMA CreateConfDoes ==
  ASSUME TypeOK, StackInv, CreateConf
  PROVE  /\ job = "install" /\ job' = "install" /\ pc = 4 /\ pc' = 5
         /\ FilesOf(fs', Files) /\ Same({"conf"})
         /\ fs'["conf"] = IF Present("conf") THEN fs["conf"] ELSE <<{}>>
         /\ stack' \in Seq(Entries) /\ Ordered(stack')
         /\ \A x \in Entries :
               In(stack', x) <=> In(stack, x) \/ (x = Rm("conf") /\ ~Present("conf"))
         /\ UNCHANGED <<bak, build, before, ended, spoilt, run>>
<1>1. /\ job = "install" /\ pc = 4 /\ pc' = 5
      /\ stack' = RegisterIfAbsent("conf")
      /\ UNCHANGED <<job, before, ended, spoilt>> /\ UNCHANGED <<bak, build, run>>
      /\ Present("conf") => UNCHANGED fs
      /\ ~Present("conf") => Write("conf", {})
  BY DEF CreateConf, At, Go
<1>2. "conf" \in Files /\ {} \in Content("conf")
  BY DEF Files, Configs, Content
<1>3. FilesOf(fs', Files) /\ Same({"conf"})
      /\ fs'["conf"] = IF Present("conf") THEN fs["conf"] ELSE <<{}>>
  <2>1. CASE Present("conf")
    BY <1>1, <2>1 DEF TypeOK, Same
  <2>2. CASE ~Present("conf")
    BY <1>1, <1>2, <2>2, Written DEF Same
  <2>3. QED  BY <2>1, <2>2
<1>4. Slot(Rm("conf")) >= Open(pc)
  BY <1>1, OpenSlots, Slots
<1>5. /\ stack' \in Seq(Entries) /\ Ordered(stack')
      /\ \A x \in Entries :
               In(stack', x) <=> In(stack, x) \/ (x = Rm("conf") /\ ~Present("conf"))
  BY <1>1, <1>2, <1>4, RegisteredIfAbsent
<1>6. QED  BY <1>1, <1>3, <1>5

\* BackUpConf and BackUp: the file is there and is backed up, or it is not there and
\* is to be removed, or there is nothing to do.
BacksUp(f) ==
  /\ Present(f) /\ bak'[f] = fs[f] /\ \A g \in Configs : g # f => bak'[g] = bak[g]
  /\ FilesOf(bak', Configs)
  /\ stack' \in Seq(Entries) /\ Ordered(stack')
  /\ \A x \in Entries : In(stack', x) <=> In(stack, x) \/ x = Mv(f)

LEMMA FileIsBackedUp ==
  ASSUME TypeOK, StackInv, job = "install", NEW f \in Configs, Present(f),
         Updated(bak', bak, f, fs[f]), stack' = Register("mv", f),
         Slot(Mv(f)) >= Open(pc)
  PROVE  BacksUp(f)
<1>1. f \in Files
  BY DEF Files
<1>2. stack' = Append(stack, Mv(f)) /\ Mv(f) \in Entries
  BY <1>1, EntryOf
<1>3. /\ FilesOf(bak', Configs) /\ bak'[f] = fs[f]
      /\ \A g \in Configs : g # f => bak'[g] = bak[g]
  BY BackedUp
<1>4. /\ stack' \in Seq(Entries) /\ Ordered(stack')
      /\ \A x \in Entries : In(stack', x) <=> In(stack, x) \/ x = Mv(f)
  BY <1>2, Registered
<1>5. QED  BY <1>3, <1>4 DEF BacksUp

LEMMA BackUpConfDoes ==
  ASSUME TypeOK, StackInv, ConfInv, BackUpConf
  PROVE  /\ job = "install" /\ job' = "install" /\ pc = 5
         /\ UNCHANGED <<fs, build, before, ended, spoilt, run>>
         /\ \/ pc' = 8 /\ UNCHANGED <<bak, stack>>
            \/ pc' = 6 /\ BacksUp("conf")
<1>1. /\ job = "install" /\ pc = 5
      /\ UNCHANGED <<job, before, ended, spoilt>> /\ UNCHANGED <<fs, build, run>>
      /\ \/ pc' = 8 /\ UNCHANGED <<bak, stack>>
         \/ /\ pc' = 6 /\ Updated(bak', bak, "conf", fs["conf"])
            /\ stack' = Register("mv", "conf")
  BY DEF BackUpConf, At, Go, Updated
<1>2. "conf" \in Configs /\ Present("conf")
  BY <1>1 DEF Configs, ConfInv
<1>3. Slot(Mv("conf")) >= Open(pc)
  BY <1>1, OpenSlots, Slots
<1>4. CASE pc' = 8 /\ UNCHANGED <<bak, stack>>
  BY <1>1, <1>4
<1>5. CASE /\ pc' = 6 /\ Updated(bak', bak, "conf", fs["conf"])
           /\ stack' = Register("mv", "conf")
  <2>1. BacksUp("conf")
    BY <1>1, <1>2, <1>3, <1>5, FileIsBackedUp
  <2>2. QED  BY <1>1, <1>5, <2>1
<1>6. QED  BY <1>1, <1>4, <1>5

LEMMA BackUpDoes ==
  ASSUME TypeOK, StackInv, BackUp
  PROVE  \E f \in {"sudoers", "local"} :
           /\ job = "install" /\ job' = "install"
           /\ (f = "sudoers" /\ pc = 8 /\ pc' = 9) \/ (f = "local" /\ pc = 11 /\ pc' = 12)
           /\ UNCHANGED <<fs, build, before, ended, spoilt, run>>
           /\ \/ BacksUp(f)
              \/ /\ ~Present(f) /\ bak' = bak
                 /\ stack' \in Seq(Entries) /\ Ordered(stack')
                 /\ \A x \in Entries : In(stack', x) <=> In(stack, x) \/ x = Rm(f)
<1>1. PICK k \in {8, 11} :
        LET f == IF k = 8 THEN "sudoers" ELSE "local" IN
        /\ At("install", k)
        /\ IF Present(f)
           THEN bak' = [bak EXCEPT ![f] = fs[f]] /\ stack' = Register("mv", f)
           ELSE stack' = Register("rm", f) /\ UNCHANGED bak
        /\ Go(k + 1) /\ UNCHANGED <<fs, build, run>>
  BY DEF BackUp
<1> DEFINE f == IF k = 8 THEN "sudoers" ELSE "local"
<1>2. /\ job = "install" /\ pc = k /\ pc' = k + 1
      /\ UNCHANGED <<job, before, ended, spoilt>> /\ UNCHANGED <<fs, build, run>>
      /\ Present(f) => Updated(bak', bak, f, fs[f]) /\ stack' = Register("mv", f)
      /\ ~Present(f) => stack' = Register("rm", f) /\ UNCHANGED bak
  BY <1>1 DEF At, Go, Updated
<1>3. f \in {"sudoers", "local"} /\ f \in Configs /\ f \in Files
  BY DEF Files, Configs
<1>4. /\ (f = "sudoers" /\ pc = 8 /\ pc' = 9) \/ (f = "local" /\ pc = 11 /\ pc' = 12)
  BY <1>2
<1> HIDE DEF f
<1>5. Slot(Mv(f)) >= Open(pc) /\ Slot(Rm(f)) >= Open(pc)
  <2>1. CASE f = "sudoers" /\ pc = 8
    BY <2>1, OpenSlots, Slots
  <2>2. CASE f = "local" /\ pc = 11
    BY <2>2, OpenSlots, Slots
  <2>3. QED  BY <1>4, <2>1, <2>2
<1>6. CASE Present(f)
  <2>1. BacksUp(f)
    BY <1>2, <1>3, <1>5, <1>6, FileIsBackedUp
  <2>2. QED  BY <1>2, <1>3, <1>4, <2>1
<1>7. CASE ~Present(f)
  <2>1. stack' = Append(stack, Rm(f)) /\ Rm(f) \in Entries
    BY <1>2, <1>3, <1>7, EntryOf
  <2>2. /\ stack' \in Seq(Entries) /\ Ordered(stack')
        /\ \A x \in Entries : In(stack', x) <=> In(stack, x) \/ x = Rm(f)
    BY <1>2, <1>5, <2>1, Registered
  <2>3. QED  BY <1>2, <1>3, <1>4, <1>7, <2>2
<1>8. QED  BY <1>6, <1>7

LEMMA ConfLinesAre ==
  ASSUME TypeOK
  PROVE  /\ ConfLines \in SUBSET Lines
         /\ Present("conf") <=> fs["conf"] # << >>
         /\ Present("conf") => fs["conf"] = <<ConfLines>>
         /\ ConfLines = LinesIn(fs["conf"])
<1>1. "conf" \in Files /\ FilesOf(fs, Files)
  BY DEF Files, Configs, TypeOK
<1>2. fs["conf"] = << >> \/ \E c \in SUBSET Lines : fs["conf"] = <<c>>
  BY <1>1 DEF FilesOf, Kept, Content
<1>3. QED  BY <1>2 DEF ConfLines, LinesIn, Present

LEMMA AppendLineDoes ==
  ASSUME TypeOK, AppendLine
  PROVE  \E line \in Ours :
           /\ job = "install" /\ job' = "install" /\ pc \in 6..7 /\ pc' = pc + 1
           /\ line = IF pc = 6 THEN "audit" ELSE "approval"
           /\ FilesOf(fs', Files) /\ Same({"conf"})
           /\ fs'["conf"] = <<ConfLines \cup {line}>>
           /\ run' = [run EXCEPT !.crossed = @ \/ (line = "approval" /\ line \notin ConfLines)]
           /\ UNCHANGED <<bak, stack, build, before, ended, spoilt>>
<1> DEFINE line == IF pc = 6 THEN "audit" ELSE "approval"
<1>1. /\ job = "install" /\ pc \in 6..7 /\ pc' = pc + 1 /\ Write("conf", ConfLines \cup {line})
      /\ run' = [run EXCEPT !.crossed = @ \/ (line = "approval" /\ line \notin ConfLines)]
      /\ UNCHANGED <<job, before, ended, spoilt>> /\ UNCHANGED <<bak, stack, build>>
  BY DEF AppendLine, Go
<1>2. line \in Ours
  BY DEF Ours
<1> HIDE DEF line
<1>3. "conf" \in Files /\ ConfLines \cup {line} \in Content("conf")
  BY <1>2, ConfLinesAre DEF Files, Configs, Content, Lines
<1>4. /\ FilesOf(fs', Files) /\ Same({"conf"}) /\ fs'["conf"] = <<ConfLines \cup {line}>>
  BY <1>1, <1>3, Written DEF Same
<1>5. QED  BY <1>1, <1>2, <1>4 DEF line

LEMMA PlaceDoes ==
  ASSUME TypeOK, Place
  PROVE  \E f \in {"sudoers", "local"} :
           /\ job = "install" /\ job' = "install"
           /\ (f = "sudoers" /\ pc = 9 /\ pc' = 10) \/ (f = "local" /\ pc = 12 /\ pc' = 13)
           /\ FilesOf(fs', Files) /\ Same({f}) /\ fs'[f] = <<build>>
           /\ UNCHANGED <<bak, stack, build, before, ended, spoilt, run>>
<1>1. PICK k \in {9, 12} :
        /\ At("install", k)
        /\ Write(IF k = 9 THEN "sudoers" ELSE "local", build)
        /\ Go(k + 1) /\ UNCHANGED <<bak, stack, build, run>>
  BY DEF Place
<1> DEFINE f == IF k = 9 THEN "sudoers" ELSE "local"
<1>2. /\ job = "install" /\ pc = k /\ pc' = k + 1 /\ Write(f, build)
      /\ UNCHANGED <<job, before, ended, spoilt>> /\ UNCHANGED <<bak, stack, build, run>>
  BY <1>1 DEF At, Go
<1>3. f \in {"sudoers", "local"} /\ f \in Files
  BY DEF Files, Configs
<1>4. (f = "sudoers" /\ pc = 9 /\ pc' = 10) \/ (f = "local" /\ pc = 12 /\ pc' = 13)
  BY <1>2
<1> HIDE DEF f
<1>5. build \in Content(f)
  BY <1>3 DEF TypeOK, Content
<1>6. FilesOf(fs', Files) /\ Same({f}) /\ fs'[f] = <<build>>
  BY <1>2, <1>3, <1>5, Written DEF Same
<1>7. QED  BY <1>2, <1>3, <1>4, <1>6

\* The file at command pc may be lost, which spoils the rollback of a bundle only.
Lost(f) ==
  /\ job = "install" /\ FilesOf(fs', Files) /\ Same({f}) /\ fs'[f] = << >>
  /\ \/ pc \in 1..3 /\ f = Copied[pc] /\ spoilt' = (spoilt \/ Present(f))
     \/ pc = 9 /\ f = "sudoers" /\ spoilt' = spoilt
     \/ pc = 12 /\ f = "local" /\ spoilt' = spoilt

LEMMA SpoilsDoes ==
  ASSUME TypeOK, Spoils
  PROVE  UNCHANGED <<fs, spoilt>> \/ \E f \in Files : Lost(f)
<1> SUFFICES ASSUME ~UNCHANGED <<fs, spoilt>>
             PROVE  \E f \in Files : Lost(f)
  OBVIOUS
<1>1. /\ job = "install" /\ pc \in DOMAIN Target /\ Remove(Target[pc])
      /\ spoilt' = (spoilt \/ (pc <= 3 /\ Present(Target[pc])))
  BY DEF Spoils
<1>2. pc \in {1, 2, 3, 9, 12}
  BY <1>1 DEF Target
<1>3. spoilt \in BOOLEAN
  BY DEF TypeOK
<1>4. CASE pc \in {1, 2, 3}
  <2>1. pc \in 1..3 /\ pc <= 3 /\ Target[pc] = Copied[pc]
    BY <1>4 DEF Target
  <2>2. Copied[pc] \in Files
    BY <2>1, Bundle
  <2>3. FilesOf(fs', Files) /\ fs'[Copied[pc]] = << >> /\ Same({Copied[pc]})
    BY <1>1, <2>1, <2>2, Removed DEF Same
  <2>4. spoilt' = (spoilt \/ Present(Copied[pc]))
    BY <1>1, <2>1
  <2>5. QED  BY <1>1, <2>1, <2>2, <2>3, <2>4 DEF Lost
<1>5. CASE pc = 9
  <2>1. Target[pc] = "sudoers" /\ ~(pc <= 3) /\ "sudoers" \in Files
    BY <1>5 DEF Target, Files, Configs
  <2>2. spoilt' = spoilt
    BY <1>1, <1>3, <2>1
  <2>3. FilesOf(fs', Files) /\ fs'["sudoers"] = << >> /\ Same({"sudoers"})
    BY <1>1, <2>1, Removed DEF Same
  <2>4. QED  BY <1>1, <1>5, <2>1, <2>2, <2>3 DEF Lost
<1>6. CASE pc = 12
  <2>1. Target[pc] = "local" /\ ~(pc <= 3) /\ "local" \in Files
    BY <1>6 DEF Target, Files, Configs
  <2>2. spoilt' = spoilt
    BY <1>1, <1>3, <2>1
  <2>3. FilesOf(fs', Files) /\ fs'["local"] = << >> /\ Same({"local"})
    BY <1>1, <2>1, Removed DEF Same
  <2>4. QED  BY <1>1, <1>6, <2>1, <2>2, <2>3 DEF Lost
<1>7. QED  BY <1>2, <1>4, <1>5, <1>6

LEMMA FailDoes ==
  ASSUME TypeOK, StackInv, Fail
  PROVE  /\ job = "install" /\ job' = "rollback" /\ Spoils
         /\ stack' \in Seq(Entries) /\ Ordered(stack')
         /\ \/ /\ pc \in 1..3
               /\ \A x \in Entries : In(stack', x) <=>
                    In(stack, x) \/ (x = Rm(Copied[pc]) /\ ~Present(Copied[pc]))
            \/ /\ pc = 4
               /\ \A x \in Entries : In(stack', x) <=>
                    In(stack, x) \/ (x = Rm("conf") /\ ~Present("conf"))
            \/ pc \in 5..13 /\ stack' = stack
         /\ UNCHANGED <<bak, build, before, ended, run>>
<1>1. /\ job = "install" /\ job' = "rollback" /\ Spoils
      /\ UNCHANGED <<bak, build, before, ended, run>>
      /\ stack' = CASE pc <= 3 -> RegisterIfAbsent(Copied[pc])
                    [] pc = 4  -> RegisterIfAbsent("conf")
                    [] OTHER   -> stack
  BY DEF Fail
<1>2. pc \in 1..13 /\ stack \in Seq(Entries) /\ Ordered(stack)
  BY <1>1 DEF TypeOK, StackInv
<1>3. /\ pc \in 1..3 => stack' = RegisterIfAbsent(Copied[pc])
      /\ pc = 4 => stack' = RegisterIfAbsent("conf")
      /\ pc \in 5..13 => stack' = stack
  BY <1>1, <1>2
<1>4. CASE pc \in 1..3
  <2>1. Copied[pc] \in Files /\ Slot(Rm(Copied[pc])) >= Open(pc)
    BY <1>4, Bundle, OpenSlots
  <2>2. QED  BY <1>1, <1>3, <1>4, <2>1, RegisteredIfAbsent
<1>5. CASE pc = 4
  <2>1. "conf" \in Files /\ Slot(Rm("conf")) >= Open(pc)
    BY <1>5, Slots, OpenSlots DEF Files, Configs
  <2>2. QED  BY <1>1, <1>3, <1>5, <2>1, RegisteredIfAbsent
<1>6. CASE pc \in 5..13
  BY <1>1, <1>2, <1>3, <1>6
<1>7. QED  BY <1>2, <1>4, <1>5, <1>6

\* The last entry is gone from the list, whether or not its undoing worked.
Popped(e) ==
  /\ e \in Entries /\ In(stack, e) /\ ~In(stack', e)
  /\ stack' \in Seq(Entries) /\ Ordered(stack')
  /\ \A x \in Entries : In(stack, x) <=> In(stack', x) \/ x = e
  /\ \A x \in Entries : In(stack', x) => Slot(x) < Slot(e)

LEMMA StackPopped ==
  ASSUME TypeOK, StackInv, stack # << >>, stack' = SubSeq(stack, 1, Len(stack) - 1)
  PROVE  Popped(stack[Len(stack)])
<1>1. stack \in Seq(Entries) /\ Ordered(stack)
  BY DEF TypeOK, StackInv
<1>2. QED  BY <1>1, Pop DEF Popped

LEMMA UndoDoes ==
  ASSUME TypeOK, StackInv, Undo
  PROVE  \E f \in Files : \E e \in {Rm(f), Mv(f)} :
           /\ job = "rollback" /\ job' = "rollback" /\ Popped(e)
           /\ FilesOf(fs', Files) /\ FilesOf(bak', Configs) /\ Same({f})
           /\ e = Rm(f) => fs'[f] = << >>
           /\ e = Mv(f) => f \in Configs /\ fs'[f] = bak[f]
           /\ \A g \in Configs : e # Mv(g) => bak'[g] = bak[g]
           /\ UNCHANGED <<before, ended, spoilt, build, run>>
<1> DEFINE e == stack[Len(stack)]
<1>1. /\ job = "rollback" /\ stack # << >> /\ Undone(e)
      /\ stack' = SubSeq(stack, 1, Len(stack) - 1)
      /\ UNCHANGED <<job, pc, before, ended, spoilt, build, run>>
  BY DEF Undo
<1>2. Popped(e)
  BY <1>1, StackPopped
<1> HIDE DEF e
<1>3. e \in Entries /\ In(stack, e) /\ e.file \in Files
  BY <1>2 DEF Popped, Entries
<1>4. e.do = "mv" => e = Mv(e.file)
  BY <1>3 DEF Entries, Mv
<1>5. e = Mv(e.file) => e.file \in Configs
  BY <1>3 DEF StackInv
<1>6. /\ FilesOf(fs', Files) /\ FilesOf(bak', Configs)
      /\ e = Rm(e.file) \/ e = Mv(e.file)
      /\ \A g \in Files : g # e.file => fs'[g] = fs[g]
      /\ \A g \in Configs : e # Mv(g) => bak'[g] = bak[g]
      /\ e = Rm(e.file) => fs'[e.file] = << >>
      /\ e = Mv(e.file) => fs'[e.file] = bak[e.file]
  BY <1>1, <1>3, <1>4, <1>5, UndoneFiles
<1>7. Same({e.file})
  BY <1>6 DEF Same
<1>8. QED  BY <1>1, <1>2, <1>3, <1>5, <1>6, <1>7

LEMMA StartDoes ==
  ASSUME TypeOK, NEW j \in {"install", "uninstall"}, Start(j)
  PROVE  /\ job = "idle" /\ job' = j /\ pc' = 1 /\ stack' = << >> /\ before' = fs
         /\ ended' = "none" /\ spoilt' = FALSE /\ build' \in Builds
         /\ UNCHANGED <<fs, bak, run>>
<1>1. /\ job = "idle" /\ job' = j /\ pc' = 1 /\ stack' = << >> /\ before' = fs
      /\ ended' = "none" /\ spoilt' = FALSE /\ UNCHANGED <<fs, bak, run>>
      /\ build' \in Builds \/ build' = build
  BY DEF Start
<1>2. build \in Builds
  BY DEF TypeOK
<1>3. QED  BY <1>1, <1>2

LEMMA RemoveBundleDoes ==
  ASSUME TypeOK, RemoveBundle
  PROVE  \E f \in Bundles :
           /\ job = "uninstall" /\ job' = "uninstall" /\ pc \in 1..3 /\ pc' = pc + 1
           /\ f = Copied[pc] /\ f \in Files /\ f \notin Configs
           /\ FilesOf(fs', Files) /\ Same({f}) /\ fs'[f] = << >>
           /\ UNCHANGED <<bak, stack, build, before, ended, spoilt, run>>
<1>1. /\ job = "uninstall" /\ pc \in 1..3 /\ pc' = pc + 1 /\ Remove(Copied[pc])
      /\ UNCHANGED <<job, before, ended, spoilt>> /\ UNCHANGED <<bak, stack, build, run>>
  BY DEF RemoveBundle, Go
<1>2. Copied[pc] \in Bundles /\ Copied[pc] \in Files /\ Copied[pc] \notin Configs
  BY <1>1, Bundle
<1>3. FilesOf(fs', Files) /\ Same({Copied[pc]}) /\ fs'[Copied[pc]] = << >>
  BY <1>1, <1>2, Removed DEF Same
<1>4. QED  BY <1>1, <1>2, <1>3

LEMMA TruncateConfDoes ==
  ASSUME TypeOK, TruncateConf
  PROVE  /\ job = "uninstall" /\ job' = "uninstall" /\ pc = 4
         /\ FilesOf(fs', Files) /\ Same({"conf"})
         /\ \/ pc' = 5 /\ Ours \cap ConfLines # {} /\ fs'["conf"] = <<{}>>
            \/ pc' = 6 /\ Ours \cap ConfLines = {} /\ fs' = fs
         /\ UNCHANGED <<bak, stack, build, before, ended, spoilt, run>>
<1>1. /\ job = "uninstall" /\ pc = 4
      /\ UNCHANGED <<job, before, ended, spoilt>> /\ UNCHANGED <<bak, stack, build, run>>
      /\ \/ pc' = 5 /\ Ours \cap ConfLines # {} /\ Write("conf", {})
         \/ pc' = 6 /\ Ours \cap ConfLines = {} /\ fs' = fs
  BY DEF TruncateConf, At, Go
<1>2. "conf" \in Files /\ {} \in Content("conf")
  BY DEF Files, Configs, Content
<1>3. CASE Write("conf", {})
  <2>1. FilesOf(fs', Files) /\ Same({"conf"}) /\ fs'["conf"] = <<{}>>
    BY <1>2, <1>3, Written DEF Same
  <2>2. QED  BY <1>1, <2>1
<1>4. CASE pc' = 6 /\ Ours \cap ConfLines = {} /\ fs' = fs
  BY <1>1, <1>4 DEF TypeOK, Same
<1>5. QED  BY <1>1, <1>3, <1>4

LEMMA RefillConfDoes ==
  ASSUME TypeOK, UninstallInv, RefillConf
  PROVE  /\ job = "uninstall" /\ job' = "uninstall" /\ pc = 5 /\ pc' = 6
         /\ FilesOf(fs', Files) /\ Same({"conf"})
         /\ before["conf"] # << >> /\ fs'["conf"] = <<before["conf"][1] \ Ours>>
         /\ UNCHANGED <<bak, stack, build, before, ended, spoilt, run>>
<1>1. /\ job = "uninstall" /\ pc = 5 /\ pc' = 6 /\ Write("conf", before["conf"][1] \ Ours)
      /\ UNCHANGED <<job, before, ended, spoilt>> /\ UNCHANGED <<bak, stack, build, run>>
  BY DEF RefillConf, At, Go
<1>2. before["conf"] # << >>
  BY <1>1 DEF UninstallInv
<1>3. "conf" \in Files /\ before["conf"] \in Kept("conf")
  BY DEF TypeOK, FilesOf, Files, Configs
<1>4. \E c \in SUBSET Lines : before["conf"] = <<c>>
  BY <1>2, <1>3 DEF Kept, Content
<1>5. before["conf"][1] \ Ours \in Content("conf")
  BY <1>4 DEF Content
<1>6. FilesOf(fs', Files) /\ Same({"conf"}) /\ fs'["conf"] = <<before["conf"][1] \ Ours>>
  BY <1>1, <1>3, <1>5, Written DEF Same
<1>7. QED  BY <1>1, <1>2, <1>6

LEMMA RemoveSudoersDoes ==
  ASSUME TypeOK, RemoveSudoers
  PROVE  /\ job = "uninstall" /\ job' = "uninstall" /\ pc = 6 /\ pc' = 7
         /\ FilesOf(fs', Files) /\ Same({"sudoers"}) /\ fs'["sudoers"] = << >>
         /\ UNCHANGED <<bak, stack, build, before, ended, spoilt, run>>
<1>1. /\ job = "uninstall" /\ pc = 6 /\ pc' = 7 /\ Remove("sudoers")
      /\ UNCHANGED <<job, before, ended, spoilt>> /\ UNCHANGED <<bak, stack, build, run>>
  BY DEF RemoveSudoers, At, Go
<1>2. "sudoers" \in Files
  BY DEF Files, Configs
<1>3. FilesOf(fs', Files) /\ Same({"sudoers"}) /\ fs'["sudoers"] = << >>
  BY <1>1, <1>2, Removed DEF Same
<1>4. QED  BY <1>1, <1>3

LEMMA RemoveLocalDoes ==
  ASSUME TypeOK, RemoveLocal
  PROVE  /\ job = "uninstall" /\ pc = 7
         /\ job' = "idle" /\ stack' = << >> /\ ended' = "uninstalled"
         /\ FilesOf(fs', Files) /\ Same({"local"}) /\ fs'["local"] = << >>
         /\ UNCHANGED <<bak, build, before, spoilt, run>>
<1>1. /\ job = "uninstall" /\ pc = 7 /\ Remove("local")
      /\ job' = "idle" /\ stack' = << >> /\ ended' = "uninstalled"
      /\ UNCHANGED <<bak, build, before, spoilt, run>>
  BY DEF RemoveLocal, At, Finish
<1>2. "local" \in Files
  BY DEF Files, Configs
<1>3. FilesOf(fs', Files) /\ Same({"local"}) /\ fs'["local"] = << >>
  BY <1>1, <1>2, Removed DEF Same
<1>4. QED  BY <1>1, <1>3

LEMMA CutDoes ==
  ASSUME TypeOK, Cut
  PROVE  /\ job # "idle" /\ job' = "idle" /\ stack' = << >> /\ ended' = "cut"
         /\ FilesOf(fs', Files) /\ spoilt' \in BOOLEAN
         /\ UNCHANGED <<fs, spoilt>> \/ \E f \in Files : Lost(f)
         /\ UNCHANGED <<bak, build, before, run>>
<1>1. /\ job # "idle" /\ job' = "idle" /\ stack' = << >> /\ ended' = "cut" /\ Spoils
      /\ UNCHANGED <<bak, build, before, run>>
  BY DEF Cut, Finish
<1>2. UNCHANGED <<fs, spoilt>> \/ \E f \in Files : Lost(f)
  BY <1>1, SpoilsDoes
<1>3. FilesOf(fs', Files) /\ spoilt' \in BOOLEAN
  BY <1>2 DEF Lost, TypeOK
<1>4. QED  BY <1>1, <1>2, <1>3

-----------------------------------------------------------------------------
(* The types.                                                              *)

LEMMA EmptyList == << >> \in Seq(Entries)
OBVIOUS

LEMMA InitType == Init => TypeOK
<1> SUFFICES ASSUME Init PROVE TypeOK
  OBVIOUS
<1>1. FilesOf(fs, Files)
  <2>1. PICK c \in {<< >>, <<{"theirs"}>>}, l \in {<< >>, <<"theirs">>} :
          fs = [f \in Files |-> CASE f = "conf" -> c [] f = "local" -> l [] OTHER -> << >>]
    BY DEF Init
  <2>2. c \in Kept("conf") /\ l \in Kept("local") /\ \A f \in Files : << >> \in Kept(f)
    BY DEF Kept, Content, Lines
  <2>3. QED  BY <2>1, <2>2 DEF FilesOf
<1>2. FilesOf(bak, Configs)
  BY DEF Init, FilesOf, Kept
<1>3. /\ before = fs /\ build \in Builds /\ job = "idle" /\ stack = << >>
      /\ ended = "none" /\ spoilt = FALSE /\ run = NoRun
  BY DEF Init
<1>4. run \in [stage : {"none", "loaded", "done"},
               gated : BOOLEAN, crossed : BOOLEAN, free : BOOLEAN]
  BY <1>3 DEF NoRun
<1>5. QED  BY <1>1, <1>2, <1>3, <1>4, EmptyList DEF TypeOK

Shapes == [stage : {"none", "loaded", "done"}, gated : BOOLEAN, crossed : BOOLEAN, free : BOOLEAN]

Flags ==
  /\ spoilt \in BOOLEAN
  /\ ended \in {"none", "installed", "rolled back", "uninstalled", "cut"}

Steps ==
  /\ job \in {"idle", "install", "rollback", "uninstall"}
  /\ job = "install" => pc \in 1..13
  /\ job = "uninstall" => pc \in 1..7

LEMMA TypeParts ==
  TypeOK <=> /\ FilesOf(fs, Files) /\ FilesOf(before, Files) /\ FilesOf(bak, Configs)
             /\ build \in Builds
             /\ Steps /\ stack \in Seq(Entries) /\ Flags /\ run \in Shapes
BY DEF TypeOK, Steps, Flags, Shapes

LEMMA NextType ==
  ASSUME IInv, [Next]_vars
  PROVE  TypeOK'
<1>1. /\ FilesOf(fs, Files) /\ FilesOf(before, Files) /\ FilesOf(bak, Configs)
      /\ build \in Builds
      /\ Steps /\ stack \in Seq(Entries) /\ Flags /\ run \in Shapes
      /\ TypeOK /\ StackInv /\ ConfInv /\ UninstallInv
  BY TypeParts DEF IInv
<1>2. SUFFICES
        /\ FilesOf(fs', Files) /\ FilesOf(before', Files) /\ FilesOf(bak', Configs)
        /\ build' \in Builds
        /\ Steps' /\ stack' \in Seq(Entries) /\ Flags' /\ run' \in Shapes
  BY DEF TypeOK, Steps, Flags, Shapes
<1>3. ASSUME UNCHANGED <<spoilt, ended>>
      PROVE  Flags'
  BY <1>1, <1>3 DEF Flags
<1>4. CASE Start("install") \/ Start("uninstall")
  <2>1. /\ job' \in {"install", "uninstall"} /\ pc' = 1 /\ stack' = << >> /\ before' = fs
        /\ ended' = "none" /\ spoilt' = FALSE /\ UNCHANGED <<fs, bak, run>>
        /\ build' \in Builds
    BY <1>1, <1>4, StartDoes
  <2>2. Steps'
    BY <2>1 DEF Steps
  <2>3. Flags'
    BY <2>1 DEF Flags
  <2>4. QED  BY <1>1, <2>1, <2>2, <2>3, EmptyList
<1>5. CASE CopyBundle
  <2>1. PICK f \in Bundles :
          /\ job' = "install" /\ pc \in 1..3 /\ pc' = pc + 1
          /\ FilesOf(fs', Files) /\ stack' \in Seq(Entries)
          /\ UNCHANGED <<bak, build, before, ended, spoilt, run>>
    BY <1>1, <1>5, CopyBundleDoes
  <2>2. Steps'
    BY <2>1 DEF Steps
  <2>3. QED  BY <1>1, <1>3, <2>1, <2>2
<1>6. CASE CreateConf
  <2>1. /\ job' = "install" /\ pc' = 5
        /\ FilesOf(fs', Files) /\ stack' \in Seq(Entries)
        /\ UNCHANGED <<bak, build, before, ended, spoilt, run>>
    BY <1>1, <1>6, CreateConfDoes
  <2>2. Steps'
    BY <2>1 DEF Steps
  <2>3. QED  BY <1>1, <1>3, <2>1, <2>2
<1>7. CASE BackUpConf
  <2>1. /\ job' = "install" /\ pc' \in {6, 8}
        /\ FilesOf(bak', Configs) /\ stack' \in Seq(Entries)
        /\ UNCHANGED <<fs, build, before, ended, spoilt, run>>
    BY <1>1, <1>7, BackUpConfDoes DEF BacksUp
  <2>2. Steps'
    BY <2>1 DEF Steps
  <2>3. QED  BY <1>1, <1>3, <2>1, <2>2
<1>8. CASE AppendLine
  <2>1. PICK line \in Ours :
          /\ job' = "install" /\ pc \in 6..7 /\ pc' = pc + 1 /\ FilesOf(fs', Files)
          /\ run' = [run EXCEPT !.crossed = @ \/ (line = "approval" /\ line \notin ConfLines)]
          /\ UNCHANGED <<bak, stack, build, before, ended, spoilt>>
    BY <1>1, <1>8, AppendLineDoes
  <2>2. run' \in Shapes
    <3>1. run.crossed \/ (line = "approval" /\ line \notin ConfLines) \in BOOLEAN
      BY <1>1 DEF Shapes
    <3>2. QED  BY <1>1, <2>1, <3>1 DEF Shapes
  <2>3. Steps'
    BY <2>1 DEF Steps
  <2>4. QED  BY <1>1, <1>3, <2>1, <2>2, <2>3
<1>9. CASE BackUp
  <2>1. /\ job' = "install" /\ pc' \in {9, 12} /\ stack' \in Seq(Entries)
        /\ UNCHANGED <<fs, build, before, ended, spoilt, run>>
        /\ FilesOf(bak', Configs)
    BY <1>1, <1>9, BackUpDoes DEF BacksUp
  <2>2. Steps'
    BY <2>1 DEF Steps
  <2>3. QED  BY <1>1, <1>3, <2>1, <2>2
<1>10. CASE Place
  <2>1. /\ job' = "install" /\ pc' \in {10, 13} /\ FilesOf(fs', Files)
        /\ UNCHANGED <<bak, stack, build, before, ended, spoilt, run>>
    BY <1>1, <1>10, PlaceDoes
  <2>2. Steps'
    BY <2>1 DEF Steps
  <2>3. QED  BY <1>1, <1>3, <2>1, <2>2
<1>11. CASE Visudo
  <2>1. /\ job' = "install" /\ pc' = 11
        /\ UNCHANGED <<fs, bak, stack, build, before, ended, spoilt, run>>
    BY <1>11 DEF Visudo, At, Go
  <2>2. Steps'
    BY <2>1 DEF Steps
  <2>3. QED  BY <1>1, <1>3, <2>1, <2>2
<1>12. CASE SelfTest
  <2>1. /\ job' = "idle" /\ stack' = << >> /\ ended' = "installed"
        /\ UNCHANGED <<fs, bak, build, before, spoilt, run>>
    BY <1>12 DEF SelfTest, Finish
  <2>2. Steps' /\ Flags'
    BY <1>1, <2>1 DEF Steps, Flags
  <2>3. QED  BY <1>1, <2>1, <2>2, EmptyList
<1>13. CASE Fail
  <2>1. /\ job' = "rollback" /\ stack' \in Seq(Entries) /\ Spoils
        /\ UNCHANGED <<bak, build, before, ended, run>>
    BY <1>1, <1>13, FailDoes
  <2>2. FilesOf(fs', Files) /\ spoilt' \in BOOLEAN
    BY <1>1, <2>1, SpoilsDoes DEF Lost, Flags
  <2>3. Steps' /\ Flags'
    BY <1>1, <2>1, <2>2 DEF Steps, Flags
  <2>4. QED  BY <1>1, <2>1, <2>2, <2>3
<1>14. CASE Undo
  <2>1. /\ job' = "rollback" /\ stack' \in Seq(Entries)
        /\ FilesOf(fs', Files) /\ FilesOf(bak', Configs)
        /\ UNCHANGED <<before, ended, spoilt, build, run>>
    BY <1>1, <1>14, UndoDoes DEF Popped
  <2>2. Steps'
    BY <2>1 DEF Steps
  <2>3. QED  BY <1>1, <1>3, <2>1, <2>2
<1>15. CASE UndoFails
  <2>1. /\ job' = "rollback" /\ stack' \in Seq(Entries) /\ spoilt' = TRUE
        /\ UNCHANGED <<fs, bak, before, ended, build, run>>
    BY <1>1, <1>15, StackPopped DEF UndoFails, Popped
  <2>2. Steps' /\ Flags'
    BY <1>1, <2>1 DEF Steps, Flags
  <2>3. QED  BY <1>1, <2>1, <2>2
<1>16. CASE RolledBack
  <2>1. /\ job' = "idle" /\ stack' = << >> /\ ended' = "rolled back"
        /\ UNCHANGED <<fs, bak, build, before, spoilt, run>>
    BY <1>16 DEF RolledBack, Finish
  <2>2. Steps' /\ Flags'
    BY <1>1, <2>1 DEF Steps, Flags
  <2>3. QED  BY <1>1, <2>1, <2>2, EmptyList
<1>17. CASE RemoveBundle
  <2>1. /\ job' = "uninstall" /\ pc \in 1..3 /\ pc' = pc + 1 /\ FilesOf(fs', Files)
        /\ UNCHANGED <<bak, stack, build, before, ended, spoilt, run>>
    BY <1>1, <1>17, RemoveBundleDoes
  <2>2. Steps'
    BY <2>1 DEF Steps
  <2>3. QED  BY <1>1, <1>3, <2>1, <2>2
<1>18. CASE TruncateConf \/ RefillConf \/ RemoveSudoers
  <2>1. /\ job' = "uninstall" /\ pc' \in {5, 6, 7} /\ FilesOf(fs', Files)
        /\ UNCHANGED <<bak, stack, build, before, ended, spoilt, run>>
    BY <1>1, <1>18, TruncateConfDoes, RefillConfDoes, RemoveSudoersDoes
  <2>2. Steps'
    BY <2>1 DEF Steps
  <2>3. QED  BY <1>1, <1>3, <2>1, <2>2
<1>19. CASE RemoveLocal
  <2>1. /\ job' = "idle" /\ stack' = << >> /\ ended' = "uninstalled" /\ FilesOf(fs', Files)
        /\ UNCHANGED <<bak, build, before, spoilt, run>>
    BY <1>1, <1>19, RemoveLocalDoes
  <2>2. Steps' /\ Flags'
    BY <1>1, <2>1 DEF Steps, Flags
  <2>3. QED  BY <1>1, <2>1, <2>2, EmptyList
<1>20. CASE Cut
  <2>1. /\ job' = "idle" /\ stack' = << >> /\ ended' = "cut" /\ FilesOf(fs', Files)
        /\ spoilt' \in BOOLEAN /\ UNCHANGED <<bak, build, before, run>>
    BY <1>1, <1>20, CutDoes
  <2>2. Steps' /\ Flags'
    BY <2>1 DEF Steps, Flags
  <2>3. QED  BY <1>1, <2>1, <2>2, EmptyList
<1>21. CASE SudoLoads
  <2>1. UNCHANGED <<fs, bak, build, job, pc, stack, before, ended, spoilt>>
    BY <1>21 DEF SudoLoads, script
  <2>2. run' \in Shapes
    BY <1>21 DEF SudoLoads, Shapes
  <2>3. Steps'
    BY <1>1, <2>1 DEF Steps
  <2>4. QED  BY <1>1, <1>3, <2>1, <2>2, <2>3
<1>22. CASE SudoAuthenticates
  <2>1. UNCHANGED <<fs, bak, build, job, pc, stack, before, ended, spoilt>>
    BY <1>22 DEF SudoAuthenticates, script
  <2>2. (LocalIsOurs /\ Present("pam") /\ IntegrityHolds) \in BOOLEAN
    BY DEF LocalIsOurs, Present, IntegrityHolds
  <2>3. run' \in Shapes
    BY <1>1, <1>22, <2>2 DEF SudoAuthenticates, Shapes
  <2>4. Steps'
    BY <1>1, <2>1 DEF Steps
  <2>5. QED  BY <1>1, <1>3, <2>1, <2>3, <2>4
<1>23. CASE UNCHANGED vars
  <2>1. UNCHANGED <<fs, bak, build, job, pc, stack, before, ended, spoilt, run>>
    BY <1>23 DEF vars, script
  <2>2. Steps'
    BY <1>1, <2>1 DEF Steps
  <2>3. QED  BY <1>1, <1>3, <2>1, <2>2
<1>24. QED
  BY <1>4, <1>5, <1>6, <1>7, <1>8, <1>9, <1>10, <1>11, <1>12, <1>13, <1>14, <1>15, <1>16,
     <1>17, <1>18, <1>19, <1>20, <1>21, <1>22, <1>23 DEF Next

-----------------------------------------------------------------------------
(* The rollback list, action by action.                                    *)

LEMMA Distinct ==
  /\ \A f, g : Rm(f) # Mv(g)
  /\ \A f, g : Rm(f) = Rm(g) => f = g
  /\ \A f, g : Mv(f) = Mv(g) => f = g
<1>1. \A f : Rm(f).do = "rm" /\ Mv(f).do = "mv" /\ Rm(f).file = f /\ Mv(f).file = f
  BY DEF Rm, Mv
<1>2. QED  BY <1>1

LEMMA NothingIn == \A e : ~In(<< >>, e)
BY DEF In

LEMMA EmptyStack ==
  ASSUME stack' = << >>, job' = "install" => pc' = 1
  PROVE  StackInv'
<1>1. \A e : ~In(stack', e)
  BY NothingIn
<1>2. Ordered(stack')
  BY DEF Ordered
<1>3. QED  BY <1>1, <1>2 DEF StackInv

\* A command that registers nothing keeps what a later one relies on.
LEMMA StackStays ==
  ASSUME TypeOK, StackInv, job = "install", job' = "install", stack' = stack,
         pc' \in 1..13, Open(pc) <= Open(pc'),
         pc' \in 6..7 => pc \in 6..7,
         pc' \in 9..11 => pc \in 9..11,
         pc' \in 12..13 => pc \in 12..13
  PROVE  StackInv'
<1>1. pc \in 1..13
  BY DEF TypeOK
<1>2. Open(pc) \in Nat /\ Open(pc') \in Nat /\ \A e \in Entries : Slot(e) \in Nat
  BY <1>1 DEF Open, Slot
<1>3. \A e \in Entries : In(stack, e) => Slot(e) < Open(pc)
  BY DEF StackInv
<1>4. \A e \in Entries : In(stack', e) => Slot(e) < Open(pc')
  BY <1>2, <1>3
<1>5. Ordered(stack') /\ \A f \in Files : In(stack', Mv(f)) => f \in Configs
  BY DEF StackInv
<1>6. pc' \in 6..7 => In(stack', Mv("conf"))
  BY DEF StackInv
<1>7. pc' \in 9..13 => In(stack', Rm("sudoers")) \/ In(stack', Mv("sudoers"))
  <2>1. pc' \in 9..13 => pc \in 9..13
    OBVIOUS
  <2>2. QED  BY <2>1 DEF StackInv
<1>8. pc' \in 12..13 => In(stack', Rm("local")) \/ In(stack', Mv("local"))
  BY DEF StackInv
<1>9. QED  BY <1>4, <1>5, <1>6, <1>7, <1>8 DEF StackInv

\* One that may register e, before sudo.conf is edited.
LEMMA EarlyEntry ==
  ASSUME TypeOK, StackInv, job = "install", job' = "install",
         pc \in 1..4, pc' = pc + 1, Ordered(stack'),
         NEW f \in Files, Slot(Rm(f)) = pc,
         \A x \in Entries : In(stack', x) => In(stack, x) \/ x = Rm(f)
  PROVE  StackInv'
<1>1. Open(pc) = pc /\ Open(pc') = pc + 1 /\ pc' \in 1..13
  BY OpenSlots
<1>2. Rm(f) \in Entries /\ \A g \in Files : Mv(g) \in Entries
  BY EntryOf
<1>3. \A e \in Entries : In(stack', e) => Slot(e) < Open(pc')
  <2>1. Open(pc) <= Open(pc') /\ Slot(Rm(f)) < Open(pc')
    BY <1>1
  <2>2. QED  BY <1>1, <1>2, <2>1, BelowNext
<1>4. \A g \in Files : In(stack', Mv(g)) => g \in Configs
  <2>1. \A g \in Files : In(stack', Mv(g)) => In(stack, Mv(g))
    BY <1>2, Distinct
  <2>2. QED  BY <2>1 DEF StackInv
<1>5. QED  BY <1>3, <1>4 DEF StackInv

LEMMA StackNext ==
  ASSUME IInv, [Next]_vars
  PROVE  StackInv'
<1>1. TypeOK /\ StackInv /\ ConfInv /\ UninstallInv
  BY DEF IInv
<1>2. ASSUME job' = "rollback", Ordered(stack'),
             \A f \in Files : In(stack', Mv(f)) => In(stack, Mv(f))
      PROVE  StackInv'
  <2>1. \A f \in Files : In(stack', Mv(f)) => f \in Configs
    BY <1>1, <1>2 DEF StackInv
  <2>2. QED  BY <1>2, <2>1 DEF StackInv
<1>3. \A f \in Files : Rm(f) \in Entries /\ Mv(f) \in Entries
  BY EntryOf
<1>4. CASE Start("install") \/ Start("uninstall")
  BY <1>1, <1>4, StartDoes, EmptyStack
<1>5. CASE CopyBundle
  <2>1. PICK f \in Bundles :
          /\ job = "install" /\ job' = "install" /\ pc \in 1..3 /\ pc' = pc + 1
          /\ Ordered(stack') /\ Slot(Rm(f)) = pc
          /\ \A x \in Entries : In(stack', x) <=> In(stack, x) \/ (x = Rm(f) /\ ~Present(f))
    BY <1>1, <1>5, CopyBundleDoes
  <2>2. f \in Files /\ pc \in 1..4
    BY <2>1 DEF Files
  <2>3. QED  BY <1>1, <2>1, <2>2, EarlyEntry
<1>6. CASE CreateConf
  <2>1. /\ job = "install" /\ job' = "install" /\ pc = 4 /\ pc' = 5 /\ Ordered(stack')
        /\ \A x \in Entries :
               In(stack', x) <=> In(stack, x) \/ (x = Rm("conf") /\ ~Present("conf"))
    BY <1>1, <1>6, CreateConfDoes
  <2>2. "conf" \in Files /\ pc \in 1..4 /\ pc' = pc + 1 /\ Slot(Rm("conf")) = pc
    BY <2>1, Slots DEF Files, Configs
  <2>3. QED  BY <1>1, <2>1, <2>2, EarlyEntry
<1>7. CASE BackUpConf
  <2>1. /\ job = "install" /\ job' = "install" /\ pc = 5
        /\ (pc' = 8 /\ stack' = stack) \/ (pc' = 6 /\ BacksUp("conf"))
    BY <1>1, <1>7, BackUpConfDoes
  <2>2. Open(5) = 5 /\ Open(6) = 6 /\ Open(8) = 6
    BY OpenSlots
  <2>3. CASE pc' = 8 /\ stack' = stack
    BY <1>1, <2>1, <2>2, <2>3, StackStays
  <2>4. CASE pc' = 6 /\ BacksUp("conf")
    <3>1. /\ Ordered(stack') /\ Mv("conf") \in Entries
          /\ \A x \in Entries : In(stack', x) <=> In(stack, x) \/ x = Mv("conf")
      BY <1>3, <2>4 DEF BacksUp, Files, Configs
    <3>2. \A x \in Entries : In(stack', x) => Slot(x) < Open(pc')
      <4>1. 6 \in 1..13 /\ Open(pc) <= Open(6) /\ Slot(Mv("conf")) < Open(6)
        BY <2>1, <2>2, Slots
      <4>2. QED  BY <1>1, <2>1, <2>4, <3>1, <4>1, BelowNext
    <3>3. \A f \in Files : In(stack', Mv(f)) => f \in Configs
      <4>1. \A f \in Files : In(stack', Mv(f)) => In(stack, Mv(f)) \/ f = "conf"
        BY <1>3, <3>1, Distinct
      <4>2. QED  BY <1>1, <4>1 DEF StackInv, Configs
    <3>4. In(stack', Mv("conf"))
      BY <3>1
    <3>5. QED  BY <2>1, <2>4, <3>1, <3>2, <3>3, <3>4 DEF StackInv
  <2>5. QED  BY <2>1, <2>3, <2>4
<1>8. CASE AppendLine
  <2>1. /\ job = "install" /\ job' = "install" /\ pc \in 6..7 /\ pc' = pc + 1 /\ stack' = stack
    BY <1>1, <1>8, AppendLineDoes
  <2>2. Open(pc) <= Open(pc')
    BY <2>1, OpenSlots
  <2>3. QED  BY <1>1, <2>1, <2>2, StackStays
<1>9. CASE BackUp
  <2>1. PICK f \in {"sudoers", "local"} :
          /\ job = "install" /\ job' = "install"
          /\ (f = "sudoers" /\ pc = 8 /\ pc' = 9) \/ (f = "local" /\ pc = 11 /\ pc' = 12)
          /\ \/ BacksUp(f)
             \/ /\ Ordered(stack')
                /\ \A x \in Entries : In(stack', x) <=> In(stack, x) \/ x = Rm(f)
    BY <1>1, <1>9, BackUpDoes
  <2>2. f \in Files /\ f \in Configs /\ Rm(f) \in Entries /\ Mv(f) \in Entries
    BY <1>3 DEF Files, Configs
  <2>3. PICK e \in {Rm(f), Mv(f)} :
          /\ Ordered(stack')
          /\ \A x \in Entries : In(stack', x) <=> In(stack, x) \/ x = e
    BY <2>1 DEF BacksUp
  <2>4. \A x \in Entries : In(stack', x) => Slot(x) < Open(pc')
    <3>1. pc' \in 1..13 /\ Open(pc) <= Open(pc') /\ Slot(e) < Open(pc')
      <4>1. CASE f = "sudoers" /\ pc = 8 /\ pc' = 9
        BY <2>3, <4>1, Slots, OpenSlots
      <4>2. CASE f = "local" /\ pc = 11 /\ pc' = 12
        BY <2>3, <4>2, Slots, OpenSlots
      <4>3. QED  BY <2>1, <4>1, <4>2
    <3>2. e \in Entries
      BY <2>2
    <3>3. QED  BY <1>1, <2>1, <2>3, <3>1, <3>2, BelowNext
  <2>5. \A g \in Files : In(stack', Mv(g)) => g \in Configs
    <3>1. \A g \in Files : In(stack', Mv(g)) => In(stack, Mv(g)) \/ Mv(g) = e
      BY <1>3, <2>3
    <3>2. \A g \in Files : Mv(g) = e => g = f
      BY <2>3, Distinct
    <3>3. QED  BY <1>1, <2>2, <3>1, <3>2 DEF StackInv
  <2>6. In(stack', Rm(f)) \/ In(stack', Mv(f))
    BY <2>2, <2>3
  <2>7. pc' = 12 => In(stack', Rm("sudoers")) \/ In(stack', Mv("sudoers"))
    <3>1. pc' = 12 => pc \in 9..13
      BY <2>1
    <3>2. pc' = 12 => In(stack, Rm("sudoers")) \/ In(stack, Mv("sudoers"))
      BY <1>1, <2>1, <3>1 DEF StackInv
    <3>3. Rm("sudoers") \in Entries /\ Mv("sudoers") \in Entries
      BY <1>3 DEF Files, Configs
    <3>4. QED  BY <2>3, <3>2, <3>3
  <2>8. QED  BY <2>1, <2>3, <2>4, <2>5, <2>6, <2>7 DEF StackInv
<1>10. CASE Place \/ Visudo
  <2>1. /\ job = "install" /\ job' = "install" /\ stack' = stack
        /\ pc \in {9, 10, 12} /\ pc' = pc + 1
    BY <1>1, <1>10, PlaceDoes DEF Visudo, At, Go
  <2>2. Open(pc) <= Open(pc')
    BY <2>1, OpenSlots
  <2>3. QED  BY <1>1, <2>1, <2>2, StackStays
<1>11. CASE SelfTest \/ RolledBack
  BY <1>11, EmptyStack DEF SelfTest, RolledBack, Finish
<1>12. CASE Fail
  <2>1. /\ job' = "rollback" /\ Ordered(stack')
        /\ \/ \E f \in Files : \A x \in Entries : In(stack', x) => In(stack, x) \/ x = Rm(f)
           \/ stack' = stack
    <3>1. "conf" \in Files /\ \A k \in 1..3 : Copied[k] \in Files
      BY Bundle DEF Files, Configs
    <3>2. QED  BY <1>1, <1>12, <3>1, FailDoes
  <2>2. \A f \in Files : In(stack', Mv(f)) => In(stack, Mv(f))
    BY <1>3, <2>1, Distinct
  <2>3. QED  BY <1>2, <2>1, <2>2
<1>13. CASE Undo \/ UndoFails
  <2>1. job' = "rollback" /\ \E e \in Entries : Popped(e)
    <3>1. CASE Undo
      BY <1>1, <3>1, UndoDoes DEF Popped
    <3>2. CASE UndoFails
      BY <1>1, <3>2, StackPopped DEF UndoFails, Popped
    <3>3. QED  BY <1>13, <3>1, <3>2
  <2>2. Ordered(stack') /\ \A x \in Entries : In(stack', x) => In(stack, x)
    BY <2>1 DEF Popped
  <2>3. QED  BY <1>2, <1>3, <2>1, <2>2
<1>14. CASE RemoveBundle \/ TruncateConf \/ RefillConf \/ RemoveSudoers
  <2>1. job = "uninstall" /\ job' = "uninstall" /\ stack' = stack
    BY <1>1, <1>14, RemoveBundleDoes, TruncateConfDoes, RefillConfDoes, RemoveSudoersDoes
  <2>2. stack' = << >>
    BY <1>1, <2>1 DEF StackInv
  <2>3. QED  BY <2>1, <2>2, EmptyStack
<1>15. CASE RemoveLocal \/ Cut
  BY <1>1, <1>15, RemoveLocalDoes, CutDoes, EmptyStack
<1>16. CASE SudoLoads \/ SudoAuthenticates \/ UNCHANGED vars
  <2>1. UNCHANGED <<job, pc, stack>>
    BY <1>16 DEF SudoLoads, SudoAuthenticates, vars, script
  <2>2. QED  BY <1>1, <2>1 DEF StackInv
<1>17. QED
  BY <1>4, <1>5, <1>6, <1>7, <1>8, <1>9, <1>10, <1>11, <1>12, <1>13, <1>14, <1>15, <1>16 DEF Next

-----------------------------------------------------------------------------
(* What a sudo in flight may meet, action by action.                       *)

LEMMA ConfIs ==
  /\ ConfLines = LinesIn(fs["conf"]) /\ ConfLines' = LinesIn(fs'["conf"])
  /\ Present("conf") <=> fs["conf"] # << >>
  /\ Present("conf")' <=> fs'["conf"] # << >>
BY DEF ConfLines, Present, LinesIn

LEMMA LinesOf ==
  /\ LinesIn(<< >>) = {}
  /\ \A c : <<c>> # << >> /\ LinesIn(<<c>>) = c
BY DEF LinesIn

RunInv ==
  /\ run.stage = "loaded" /\ "approval" \in ConfLines => run.gated \/ run.crossed
  /\ FreeRunIsGated

LEMMA RunStays ==
  ASSUME RunInv, run' = run, "approval" \in ConfLines' => "approval" \in ConfLines
  PROVE  RunInv'
BY DEF RunInv, FreeRunIsGated

LEMMA ConfStays ==
  ASSUME ConfInv, fs'["conf"] = fs["conf"], bak'["conf"] = bak["conf"], run' = run,
         In(stack', Mv("conf")) => In(stack, Mv("conf")),
         job' = "install" /\ pc' \in 5..7 => job = "install" /\ pc \in 5..7
  PROVE  ConfInv'
<1>1. ConfLines' = ConfLines /\ Present("conf")' = Present("conf")
  BY DEF ConfLines, Present
<1>2. RunInv'
  BY <1>1, RunStays DEF RunInv, ConfInv
<1>3. QED  BY <1>1, <1>2 DEF ConfInv, RunInv

\* The files a failing or interrupted install(1) may lose.
LEMMA LostIsNotConf ==
  ASSUME NEW f \in Files, Lost(f)
  PROVE  f \in Files \ {"conf"} /\ fs'["conf"] = fs["conf"]
<1>1. f # "conf"
  BY Bundle DEF Lost, Configs
<1>2. QED  BY <1>1 DEF Lost, Same, Files, Configs

LEMMA SpoilsSparesConf ==
  ASSUME TypeOK, Spoils
  PROVE  fs'["conf"] = fs["conf"]
BY SpoilsDoes, LostIsNotConf

LEMMA ConfNext ==
  ASSUME IInv, [Next]_vars
  PROVE  ConfInv'
<1>1. TypeOK /\ StackInv /\ ConfInv /\ UninstallInv
  BY DEF IInv
<1>2. "conf" \in Files /\ "conf" \in Configs /\ "conf" \notin Bundles
      /\ Rm("conf") \in Entries /\ Mv("conf") \in Entries
  BY EntryOf DEF Files, Configs, Bundles
<1>3. \A f \in Bundles : Mv("conf") # Rm(f)
  BY Distinct
<1>4. CASE Start("install") \/ Start("uninstall")
  <2>1. pc' = 1 /\ stack' = << >> /\ UNCHANGED <<fs, bak, run>>
    BY <1>1, <1>4, StartDoes
  <2>2. QED  BY <1>1, <2>1, NothingIn, ConfStays
<1>5. CASE CopyBundle
  <2>1. PICK f \in Bundles :
          /\ job = "install" /\ pc \in 1..3 /\ pc' = pc + 1 /\ Same({f})
          /\ \A x \in Entries : In(stack', x) <=> In(stack, x) \/ (x = Rm(f) /\ ~Present(f))
          /\ UNCHANGED <<bak, run>>
    BY <1>1, <1>5, CopyBundleDoes
  <2>2. fs'["conf"] = fs["conf"]
    BY <1>2, <2>1 DEF Same
  <2>3. In(stack', Mv("conf")) => In(stack, Mv("conf"))
    BY <1>2, <1>3, <2>1
  <2>4. QED  BY <1>1, <2>1, <2>2, <2>3, ConfStays
<1>6. CASE CreateConf
  <2>1. /\ fs'["conf"] = IF Present("conf") THEN fs["conf"] ELSE <<{}>>
        /\ \A x \in Entries :
               In(stack', x) <=> In(stack, x) \/ (x = Rm("conf") /\ ~Present("conf"))
        /\ UNCHANGED <<bak, run>>
    BY <1>1, <1>6, CreateConfDoes
  <2>2. ConfLines' = ConfLines /\ Present("conf")'
    BY <2>1, ConfIs, LinesOf
  <2>3. In(stack', Mv("conf")) => In(stack, Mv("conf"))
    BY <1>2, <2>1, Distinct
  <2>4. RunInv'
    BY <1>1, <2>1, <2>2, RunStays DEF RunInv, ConfInv
  <2>5. QED  BY <1>1, <2>1, <2>2, <2>3, <2>4 DEF ConfInv, RunInv
<1>7. CASE BackUpConf
  <2>1. /\ job = "install" /\ pc = 5 /\ UNCHANGED <<fs, run>>
        /\ (pc' = 8 /\ UNCHANGED <<bak, stack>>) \/ (pc' = 6 /\ BacksUp("conf"))
    BY <1>1, <1>7, BackUpConfDoes
  <2>2. CASE pc' = 8 /\ UNCHANGED <<bak, stack>>
    BY <1>1, <2>1, <2>2, ConfStays
  <2>3. CASE pc' = 6 /\ BacksUp("conf")
    <3>1. bak'["conf"] = fs["conf"] /\ Present("conf")
      BY <2>3 DEF BacksUp
    <3>2. ConfLines' = ConfLines /\ Present("conf")' /\ LinesIn(bak'["conf"]) \subseteq ConfLines
          /\ bak'["conf"] # << >>
      BY <2>1, <3>1, ConfIs
    <3>3. RunInv'
      BY <1>1, <2>1, <3>2, RunStays DEF RunInv, ConfInv
    <3>4. QED  BY <3>2, <3>3 DEF ConfInv, RunInv
  <2>4. QED  BY <2>1, <2>2, <2>3
<1>8. CASE AppendLine
  <2>1. PICK line \in Ours :
          /\ fs'["conf"] = <<ConfLines \cup {line}>>
          /\ run' = [run EXCEPT !.crossed = @ \/ (line = "approval" /\ line \notin ConfLines)]
          /\ UNCHANGED <<bak, stack>>
    BY <1>1, <1>8, AppendLineDoes
  <2>2. ConfLines' = ConfLines \cup {line} /\ Present("conf")'
    BY <2>1, ConfIs, LinesOf
  <2>3. /\ run'.stage = run.stage /\ run'.gated = run.gated /\ run'.free = run.free
        /\ run.crossed => run'.crossed
        /\ line = "approval" /\ line \notin ConfLines => run'.crossed
    <3>1. run \in Shapes
      BY <1>1 DEF TypeOK, Shapes
    <3>2. QED  BY <2>1, <3>1 DEF Shapes
  <2>4. RunInv'
    <3>1. run'.stage = "loaded" /\ "approval" \in ConfLines' => run'.gated \/ run'.crossed
      BY <1>1, <2>2, <2>3 DEF ConfInv
    <3>2. FreeRunIsGated'
      BY <1>1, <2>3 DEF ConfInv, FreeRunIsGated
    <3>3. QED  BY <3>1, <3>2 DEF RunInv
  <2>5. In(stack', Mv("conf")) => bak'["conf"] # << >> /\ LinesIn(bak'["conf"]) \subseteq ConfLines'
    BY <1>1, <2>1, <2>2 DEF ConfInv
  <2>6. QED  BY <2>2, <2>4, <2>5 DEF ConfInv, RunInv
<1>9. CASE BackUp
  <2>1. PICK f \in {"sudoers", "local"} :
          /\ pc' \in {9, 12} /\ UNCHANGED <<fs, run>>
          /\ \/ BacksUp(f)
             \/ /\ bak' = bak
                /\ \A x \in Entries : In(stack', x) <=> In(stack, x) \/ x = Rm(f)
    BY <1>1, <1>9, BackUpDoes
  <2>2. bak'["conf"] = bak["conf"]
    BY <1>2, <2>1 DEF BacksUp
  <2>3. In(stack', Mv("conf")) => In(stack, Mv("conf"))
    BY <1>2, <2>1, Distinct DEF BacksUp
  <2>4. QED  BY <1>1, <2>1, <2>2, <2>3, ConfStays
<1>10. CASE Place
  <2>1. /\ pc' \in {10, 13} /\ \E f \in {"sudoers", "local"} : Same({f})
        /\ UNCHANGED <<bak, stack, run>>
    BY <1>1, <1>10, PlaceDoes
  <2>2. fs'["conf"] = fs["conf"]
    BY <1>2, <2>1 DEF Same
  <2>3. QED  BY <1>1, <2>1, <2>2, ConfStays
<1>11. CASE Visudo
  BY <1>1, <1>11, ConfStays DEF Visudo, Go
<1>12. CASE SelfTest \/ RolledBack
  <2>1. job' = "idle" /\ stack' = << >> /\ UNCHANGED <<fs, bak, run>>
    BY <1>12 DEF SelfTest, RolledBack, Finish
  <2>2. QED  BY <1>1, <2>1, NothingIn, ConfStays
<1>13. CASE Fail
  <2>1. /\ job' = "rollback" /\ Spoils /\ UNCHANGED <<bak, run>>
        /\ \/ \E f \in Files : \A x \in Entries : In(stack', x) => In(stack, x) \/ x = Rm(f)
           \/ stack' = stack
    <3>1. \A k \in 1..3 : Copied[k] \in Files
      BY Bundle
    <3>2. QED  BY <1>1, <1>2, <1>13, <3>1, FailDoes
  <2>2. In(stack', Mv("conf")) => In(stack, Mv("conf"))
    BY <1>2, <2>1, Distinct
  <2>3. fs'["conf"] = fs["conf"]
    BY <1>1, <2>1, SpoilsSparesConf
  <2>4. QED  BY <1>1, <2>1, <2>2, <2>3, ConfStays
<1>14. CASE Undo
  <2>1. PICK f \in Files : \E e \in {Rm(f), Mv(f)} :
          /\ job' = "rollback" /\ Popped(e) /\ Same({f})
          /\ e = Rm(f) => fs'[f] = << >>
          /\ e = Mv(f) => fs'[f] = bak[f]
          /\ \A g \in Configs : e # Mv(g) => bak'[g] = bak[g]
          /\ UNCHANGED run
    BY <1>1, <1>14, UndoDoes
  <2>2. PICK e \in {Rm(f), Mv(f)} :
          /\ job' = "rollback" /\ Popped(e) /\ Same({f})
          /\ e = Rm(f) => fs'[f] = << >>
          /\ e = Mv(f) => fs'[f] = bak[f]
          /\ \A g \in Configs : e # Mv(g) => bak'[g] = bak[g]
          /\ UNCHANGED run
    BY <2>1
  <2>3. In(stack', Mv("conf")) => In(stack, Mv("conf"))
    BY <1>2, <2>2 DEF Popped
  <2>4. CASE f # "conf"
    <3>1. fs'["conf"] = fs["conf"] /\ e # Mv("conf")
      BY <1>2, <2>2, <2>4, Distinct DEF Same
    <3>2. QED  BY <1>1, <1>2, <2>2, <2>3, <3>1, ConfStays
  <2>5. CASE f = "conf"
    <3>1. ~In(stack', Mv("conf"))
      <4>1. CASE e = Mv("conf")
        BY <2>2, <4>1 DEF Popped
      <4>2. CASE e = Rm("conf")
        BY <1>2, <2>2, <4>2, Slots DEF Popped
      <4>3. QED  BY <2>2, <2>5, <4>1, <4>2
    <3>2. ConfLines' \subseteq ConfLines
      <4>1. CASE e = Mv("conf")
        <5>1. In(stack, Mv("conf"))
          BY <2>2, <4>1 DEF Popped
        <5>2. LinesIn(bak["conf"]) \subseteq ConfLines
          BY <1>1, <5>1 DEF ConfInv
        <5>3. QED  BY <2>2, <2>5, <4>1, <5>2, ConfIs
      <4>2. CASE e = Rm("conf")
        BY <2>2, <2>5, <4>2, ConfIs, LinesOf
      <4>3. QED  BY <2>2, <2>5, <4>1, <4>2
    <3>3. RunInv'
      BY <1>1, <2>2, <3>2, RunStays DEF RunInv, ConfInv
    <3>4. QED  BY <2>2, <3>1, <3>3 DEF ConfInv, RunInv
  <2>6. QED  BY <2>4, <2>5
<1>15. CASE UndoFails
  <2>1. job' = "rollback" /\ UNCHANGED <<fs, bak, run>>
    BY <1>1, <1>15 DEF UndoFails
  <2>2. In(stack', Mv("conf")) => In(stack, Mv("conf"))
    BY <1>1, <1>2, <1>15, StackPopped DEF UndoFails, Popped
  <2>3. QED  BY <1>1, <2>1, <2>2, ConfStays
<1>16. CASE RemoveBundle \/ RemoveSudoers
  <2>1. /\ job' = "uninstall" /\ \E f \in Bundles \cup {"sudoers"} : Same({f})
        /\ UNCHANGED <<bak, stack, run>>
    BY <1>1, <1>16, RemoveBundleDoes, RemoveSudoersDoes
  <2>2. fs'["conf"] = fs["conf"]
    BY <1>2, <2>1 DEF Same
  <2>3. QED  BY <1>1, <2>1, <2>2, ConfStays
<1>17. CASE TruncateConf \/ RefillConf
  <2>1. /\ job = "uninstall" /\ job' = "uninstall" /\ UNCHANGED <<bak, stack, run>>
        /\ \/ fs' = fs
           \/ fs'["conf"] = <<{}>>
           \/ fs'["conf"] = <<before["conf"][1] \ Ours>>
    BY <1>1, <1>17, TruncateConfDoes, RefillConfDoes
  <2>2. stack' = << >> /\ ~In(stack', Mv("conf"))
    BY <1>1, <2>1, NothingIn DEF StackInv
  <2>3. "approval" \in ConfLines' => "approval" \in ConfLines
    BY <2>1, ConfIs, LinesOf DEF Ours
  <2>4. RunInv'
    BY <1>1, <2>1, <2>3, RunStays DEF RunInv, ConfInv
  <2>5. QED  BY <2>1, <2>2, <2>4 DEF ConfInv, RunInv
<1>18. CASE RemoveLocal \/ Cut
  <2>1. job' = "idle" /\ stack' = << >> /\ UNCHANGED <<bak, run>>
    BY <1>1, <1>18, RemoveLocalDoes, CutDoes
  <2>2. fs'["conf"] = fs["conf"]
    <3>1. CASE RemoveLocal
      BY <1>1, <1>2, <3>1, RemoveLocalDoes DEF Same
    <3>2. CASE Cut
      BY <1>1, <3>2, SpoilsSparesConf DEF Cut
    <3>3. QED  BY <1>18, <3>1, <3>2
  <2>3. QED  BY <1>1, <2>1, <2>2, NothingIn, ConfStays
<1>19. CASE SudoLoads
  <2>1. /\ UNCHANGED <<fs, bak, job, pc, stack>>
        /\ run' = [stage |-> "loaded", gated |-> "approval" \in ConfLines,
                   crossed |-> FALSE, free |-> FALSE]
    BY <1>19 DEF SudoLoads, script
  <2>2. ConfLines' = ConfLines /\ Present("conf")' = Present("conf")
    <3>1. fs' = fs
      BY <2>1
    <3>2. QED  BY <3>1 DEF ConfLines, Present
  <2>3. RunInv'
    BY <2>1, <2>2 DEF RunInv, FreeRunIsGated
  <2>4. QED  BY <1>1, <2>1, <2>2, <2>3 DEF ConfInv, RunInv
<1>20. CASE SudoAuthenticates
  <2>1. /\ UNCHANGED <<fs, bak, job, pc, stack>> /\ run.stage = "loaded"
        /\ run' = [run EXCEPT !.stage = "done",
                              !.free = LocalIsOurs /\ Present("pam") /\ IntegrityHolds]
    BY <1>20 DEF SudoAuthenticates, script
  <2>2. ConfLines' = ConfLines /\ Present("conf")' = Present("conf")
    <3>1. fs' = fs
      BY <2>1
    <3>2. QED  BY <3>1 DEF ConfLines, Present
  <2>3. /\ run'.stage = "done" /\ run'.gated = run.gated /\ run'.crossed = run.crossed
        /\ run'.free => IntegrityHolds
    <3>1. run \in Shapes
      BY <1>1 DEF TypeOK, Shapes
    <3>2. QED  BY <2>1, <3>1 DEF Shapes
  <2>4. RunInv'
    BY <1>1, <2>1, <2>3 DEF RunInv, FreeRunIsGated, ConfInv, IntegrityHolds
  <2>5. QED  BY <1>1, <2>1, <2>2, <2>4 DEF ConfInv, RunInv
<1>21. CASE UNCHANGED vars
  BY <1>1, <1>21, ConfStays DEF vars, script
<1>22. QED
  BY <1>4, <1>5, <1>6, <1>7, <1>8, <1>9, <1>10, <1>11, <1>12, <1>13, <1>14, <1>15, <1>16,
     <1>17, <1>18, <1>19, <1>20, <1>21 DEF Next

-----------------------------------------------------------------------------
(* What a rollback would restore, action by action.                        *)

FileStays(f) ==
  /\ fs'[f] = fs[f]
  /\ f \in Configs => bak'[f] = bak[f]
  /\ In(stack', Rm(f)) <=> In(stack, Rm(f))
  /\ In(stack', Mv(f)) <=> In(stack, Mv(f))

LEMMA RestorableStays ==
  ASSUME NEW f \in Files, Restorable(f), before' = before, FileStays(f)
  PROVE  Restorable(f)'
BY DEF Restorable, FileStays, Present

\* A file nobody has registered yet is as it was before.
LEMMA Untouched ==
  ASSUME TypeOK, StackInv, job = "install", NEW f \in Configs, Restorable(f),
         Slot(Rm(f)) >= Open(pc), Slot(Mv(f)) >= Open(pc)
  PROVE  fs[f] = before[f] /\ ~In(stack, Rm(f)) /\ ~In(stack, Mv(f))
<1>1. Rm(f) \in Entries /\ Mv(f) \in Entries
  BY EntryOf DEF Files
<1>2. pc \in 1..13
  BY DEF TypeOK
<1>3. Slot(Rm(f)) \in Nat /\ Slot(Mv(f)) \in Nat /\ Open(pc) \in Nat
  BY <1>1, <1>2 DEF Slot, Open
<1>4. ~In(stack, Rm(f)) /\ ~In(stack, Mv(f))
  BY <1>1, <1>3 DEF StackInv
<1>5. QED  BY <1>4 DEF Restorable

\* What fails or is cut short loses nothing a rollback would miss, or spoils it.
LEMMA SpoilsSpares ==
  ASSUME TypeOK, StackInv, Spoils, ~spoilt'
  PROVE  /\ ~spoilt
         /\ \A g \in Files : \/ fs'[g] = fs[g]
                             \/ g \in Configs /\ (In(stack, Rm(g)) \/ In(stack, Mv(g)))
         /\ pc = 4 => fs' = fs
<1>1. CASE UNCHANGED <<fs, spoilt>>
  BY <1>1
<1>2. ASSUME NEW f \in Files, Lost(f)
      PROVE  /\ ~spoilt /\ ~(pc = 4)
             /\ fs'[f] = fs[f] \/ (f \in Configs /\ (In(stack, Rm(f)) \/ In(stack, Mv(f))))
  <2>1. job = "install" /\ fs'[f] = << >>
    BY <1>2 DEF Lost
  <2>2. CASE pc \in 1..3 /\ f = Copied[pc] /\ spoilt' = (spoilt \/ Present(f))
    <3>1. ~spoilt /\ ~Present(f)
      BY <2>2
    <3>2. QED  BY <2>1, <2>2, <3>1 DEF Present
  <2>3. CASE pc = 9 /\ f = "sudoers" /\ spoilt' = spoilt
    BY <2>1, <2>3 DEF StackInv, Configs
  <2>4. CASE pc = 12 /\ f = "local" /\ spoilt' = spoilt
    BY <2>1, <2>4 DEF StackInv, Configs
  <2>5. QED  BY <1>2, <2>2, <2>3, <2>4 DEF Lost
<1>3. ASSUME NEW f \in Files, Lost(f), NEW g \in Files, g # f
      PROVE  fs'[g] = fs[g]
  BY <1>3 DEF Lost, Same
<1>4. QED  BY <1>1, <1>2, <1>3, SpoilsDoes

LEMMA RestoreNext ==
  ASSUME IInv, [Next]_vars
  PROVE  RestoreInv'
<1>1. SUFFICES ASSUME job' \in {"install", "rollback"}, ~spoilt', NEW f \in Files
               PROVE  Restorable(f)'
  BY DEF RestoreInv
<1>2. TypeOK /\ StackInv /\ ConfInv /\ UninstallInv
  BY DEF IInv
<1>3. ASSUME job \in {"install", "rollback"}, ~spoilt
      PROVE  \A g \in Files : Restorable(g)
  BY <1>3 DEF IInv, RestoreInv
<1>4. /\ \A g \in Files : Rm(g) \in Entries /\ Mv(g) \in Entries
      /\ \A g \in Bundles : g \notin Configs
      /\ f \in Bundles \/ f \in Configs
  BY EntryOf DEF Files, Bundles, Configs
<1>5. CASE Start("install") \/ Start("uninstall")
  <2>1. stack' = << >> /\ before' = fs /\ fs' = fs
    BY <1>2, <1>5, StartDoes
  <2>2. ~In(stack', Rm(f)) /\ ~In(stack', Mv(f))
    BY <2>1, NothingIn
  <2>3. QED  BY <2>1, <2>2 DEF Restorable, Present
<1>6. CASE CopyBundle
  <2>1. PICK b \in Bundles :
          /\ job = "install" /\ fs'[b] = <<build>> /\ Same({b})
          /\ \A x \in Entries : In(stack', x) <=> In(stack, x) \/ (x = Rm(b) /\ ~Present(b))
          /\ UNCHANGED <<bak, before, spoilt>>
    BY <1>2, <1>6, CopyBundleDoes
  <2>2. Restorable(f)
    BY <1>1, <1>3, <2>1
  <2>3. CASE f # b
    <3>1. FileStays(f)
      BY <1>4, <2>1, <2>3, Distinct DEF FileStays, Same
    <3>2. QED  BY <2>1, <2>2, <3>1, RestorableStays
  <2>4. CASE f = b
    <3>1. In(stack', Rm(f)) <=> In(stack, Rm(f)) \/ ~Present(f)
      BY <1>4, <2>1, <2>4
    <3>2. Present(f)' /\ before' = before
      BY <2>1, <2>4 DEF Present
    <3>3. QED  BY <1>4, <2>2, <2>4, <3>1, <3>2 DEF Restorable
  <2>5. QED  BY <2>3, <2>4
<1>7. CASE CreateConf
  <2>1. /\ job = "install" /\ pc = 4 /\ Same({"conf"})
        /\ fs'["conf"] = IF Present("conf") THEN fs["conf"] ELSE <<{}>>
        /\ \A x \in Entries :
               In(stack', x) <=> In(stack, x) \/ (x = Rm("conf") /\ ~Present("conf"))
        /\ UNCHANGED <<bak, before, spoilt>>
    BY <1>2, <1>7, CreateConfDoes
  <2>2. Restorable(f)
    BY <1>1, <1>3, <2>1
  <2>3. CASE f # "conf"
    <3>1. FileStays(f)
      BY <1>4, <2>1, <2>3, Distinct DEF FileStays, Same
    <3>2. QED  BY <2>1, <2>2, <3>1, RestorableStays
  <2>4. CASE f = "conf"
    <3>1. f \in Configs /\ f \notin Bundles /\ Slot(Rm(f)) >= Open(pc) /\ Slot(Mv(f)) >= Open(pc)
      BY <2>1, <2>4, Slots, OpenSlots DEF Configs, Bundles
    <3>2. fs[f] = before[f] /\ ~In(stack, Rm(f)) /\ ~In(stack, Mv(f))
      BY <1>2, <2>1, <2>2, <3>1, Untouched
    <3>3. ~In(stack', Mv(f)) /\ (In(stack', Rm(f)) <=> ~Present(f))
      BY <1>4, <2>1, <2>4, <3>2, Distinct
    <3>4. QED  BY <2>1, <2>4, <3>1, <3>2, <3>3 DEF Restorable, Present
  <2>5. QED  BY <2>3, <2>4
<1>8. CASE BackUpConf
  <2>1. /\ job = "install" /\ pc = 5 /\ UNCHANGED <<fs, before, spoilt>>
        /\ UNCHANGED <<bak, stack>> \/ BacksUp("conf")
    BY <1>2, <1>8, BackUpConfDoes
  <2>2. Restorable(f)
    BY <1>1, <1>3, <2>1
  <2>3. CASE UNCHANGED <<bak, stack>>
    BY <2>1, <2>2, <2>3, RestorableStays DEF FileStays
  <2>4. CASE BacksUp("conf") /\ f # "conf"
    <3>1. FileStays(f)
      BY <1>4, <2>1, <2>4, Distinct DEF FileStays, BacksUp
    <3>2. QED  BY <2>1, <2>2, <3>1, RestorableStays
  <2>5. CASE BacksUp("conf") /\ f = "conf"
    <3>1. f \in Configs /\ f \notin Bundles /\ Slot(Mv(f)) >= Open(pc)
          /\ Open(pc) \in Nat /\ Slot(Mv(f)) \in Nat
      BY <2>1, <2>5, Slots, OpenSlots DEF Configs, Bundles
    <3>2. ~In(stack, Mv(f))
      BY <1>2, <1>4, <2>1, <3>1 DEF StackInv
    <3>3. bak'[f] = fs[f] /\ (In(stack', Rm(f)) <=> In(stack, Rm(f)))
      BY <1>4, <2>5, Distinct DEF BacksUp
    <3>4. In(stack', Mv(f))
      BY <1>4, <2>5 DEF BacksUp
    <3>5. QED  BY <2>1, <2>2, <3>1, <3>2, <3>3, <3>4 DEF Restorable
  <2>6. QED  BY <2>1, <2>3, <2>4, <2>5
<1>9. CASE AppendLine
  <2>1. /\ job = "install" /\ pc \in 6..7 /\ Same({"conf"})
        /\ UNCHANGED <<bak, stack, before, spoilt>>
    BY <1>2, <1>9, AppendLineDoes
  <2>2. Restorable(f)
    BY <1>1, <1>3, <2>1
  <2>3. CASE f # "conf"
    BY <2>1, <2>2, <2>3, RestorableStays DEF FileStays, Same
  <2>4. CASE f = "conf"
    <3>1. In(stack, Mv(f)) /\ f \notin Bundles
      BY <1>2, <2>1, <2>4 DEF StackInv, Bundles
    <3>2. QED  BY <2>1, <2>2, <3>1 DEF Restorable
  <2>5. QED  BY <2>3, <2>4
<1>10. CASE BackUp
  <2>1. PICK g \in {"sudoers", "local"} :
          /\ job = "install"
          /\ (g = "sudoers" /\ pc = 8) \/ (g = "local" /\ pc = 11)
          /\ UNCHANGED <<fs, before, spoilt>>
          /\ \/ BacksUp(g)
             \/ /\ ~Present(g) /\ bak' = bak
                /\ \A x \in Entries : In(stack', x) <=> In(stack, x) \/ x = Rm(g)
    BY <1>2, <1>10, BackUpDoes
  <2>2. Restorable(f)
    BY <1>1, <1>3, <2>1
  <2>3. CASE f # g
    <3>1. FileStays(f)
      BY <1>4, <2>1, <2>3, Distinct DEF FileStays, BacksUp
    <3>2. QED  BY <2>1, <2>2, <3>1, RestorableStays
  <2>4. CASE f = g
    <3>1. f \in Configs /\ f \notin Bundles
      BY <2>4 DEF Configs, Bundles
    <3>2. Slot(Rm(f)) >= Open(pc) /\ Slot(Mv(f)) >= Open(pc)
      BY <2>1, <2>4, Slots, OpenSlots
    <3>3. fs[f] = before[f] /\ ~In(stack, Rm(f)) /\ ~In(stack, Mv(f))
      BY <1>2, <2>1, <2>2, <3>1, <3>2, Untouched
    <3>4. CASE BacksUp(g)
      <4>1. bak'[f] = fs[f] /\ ~In(stack', Rm(f)) /\ In(stack', Mv(f))
        BY <1>4, <2>4, <3>3, <3>4, Distinct DEF BacksUp
      <4>2. QED  BY <2>1, <3>1, <3>3, <4>1 DEF Restorable
    <3>5. CASE /\ ~Present(g)
               /\ \A x \in Entries : In(stack', x) <=> In(stack, x) \/ x = Rm(g)
      <4>1. In(stack', Rm(f)) /\ before'[f] = << >>
        BY <1>4, <2>1, <2>4, <3>3, <3>5 DEF Present
      <4>2. QED  BY <3>1, <4>1 DEF Restorable
    <3>6. QED  BY <2>1, <3>4, <3>5
  <2>5. QED  BY <2>3, <2>4
<1>11. CASE Place
  <2>1. PICK g \in {"sudoers", "local"} :
          /\ job = "install"
          /\ (g = "sudoers" /\ pc = 9) \/ (g = "local" /\ pc = 12)
          /\ Same({g}) /\ UNCHANGED <<bak, stack, before, spoilt>>
    BY <1>2, <1>11, PlaceDoes
  <2>2. Restorable(f)
    BY <1>1, <1>3, <2>1
  <2>3. CASE f # g
    BY <2>1, <2>2, <2>3, RestorableStays DEF FileStays, Same
  <2>4. CASE f = g
    <3>1. In(stack, Rm(f)) \/ In(stack, Mv(f))
      BY <1>2, <2>1, <2>4 DEF StackInv
    <3>2. f \notin Bundles
      BY <2>4 DEF Bundles
    <3>3. QED  BY <2>1, <2>2, <3>1, <3>2 DEF Restorable
  <2>5. QED  BY <2>3, <2>4
<1>12. CASE Fail
  <2>1. /\ job = "install" /\ Spoils /\ UNCHANGED <<bak, before>>
        /\ \/ /\ pc \in 1..3
              /\ \A x \in Entries : In(stack', x) <=>
                   In(stack, x) \/ (x = Rm(Copied[pc]) /\ ~Present(Copied[pc]))
           \/ /\ pc = 4
              /\ \A x \in Entries : In(stack', x) <=>
                   In(stack, x) \/ (x = Rm("conf") /\ ~Present("conf"))
           \/ stack' = stack
    BY <1>2, <1>12, FailDoes
  <2>2. /\ ~spoilt
        /\ \/ fs'[f] = fs[f]
           \/ f \in Configs /\ (In(stack, Rm(f)) \/ In(stack, Mv(f)))
    BY <1>1, <1>2, <2>1, SpoilsSpares
  <2>3. Restorable(f)
    BY <1>3, <2>1, <2>2
  <2>4. \/ /\ In(stack', Rm(f)) <=> In(stack, Rm(f))
           /\ In(stack', Mv(f)) <=> In(stack, Mv(f))
        \/ /\ pc \in 1..3 /\ f = Copied[pc] /\ ~Present(f)
           /\ In(stack', Rm(f)) /\ (In(stack', Mv(f)) <=> In(stack, Mv(f)))
        \/ /\ pc = 4 /\ f = "conf" /\ ~Present(f)
           /\ In(stack', Rm(f)) /\ (In(stack', Mv(f)) <=> In(stack, Mv(f)))
    BY <1>4, <2>1, Distinct
  <2>5. CASE /\ In(stack', Rm(f)) <=> In(stack, Rm(f))
             /\ In(stack', Mv(f)) <=> In(stack, Mv(f))
    BY <1>4, <2>1, <2>2, <2>3, <2>5 DEF Restorable, Present
  <2>6. CASE pc \in 1..3 /\ f = Copied[pc] /\ ~Present(f) /\ In(stack', Rm(f))
    <3>1. f \in Bundles /\ f \notin Configs
      BY <2>6, Bundle
    <3>2. before[f] = << >>
      BY <2>3, <2>6, <3>1 DEF Restorable
    <3>3. QED  BY <2>1, <2>6, <3>1, <3>2 DEF Restorable
  <2>7. CASE pc = 4 /\ f = "conf" /\ ~Present(f) /\ In(stack', Rm(f))
    <3>1. f \in Configs /\ f \notin Bundles /\ Slot(Rm(f)) >= Open(pc) /\ Slot(Mv(f)) >= Open(pc)
      BY <2>7, Slots, OpenSlots DEF Configs, Bundles
    <3>2. fs[f] = before[f]
      BY <1>2, <2>1, <2>3, <3>1, Untouched
    <3>3. before[f] = << >>
      BY <2>7, <3>2 DEF Present
    <3>4. QED  BY <2>1, <2>7, <3>1, <3>3 DEF Restorable
  <2>8. QED  BY <2>4, <2>5, <2>6, <2>7
<1>13. CASE Undo
  <2>1. PICK g \in Files : \E x \in {Rm(g), Mv(g)} :
          /\ job = "rollback" /\ Popped(x) /\ Same({g})
          /\ x = Rm(g) => fs'[g] = << >>
          /\ x = Mv(g) => g \in Configs /\ fs'[g] = bak[g]
          /\ \A h \in Configs : x # Mv(h) => bak'[h] = bak[h]
          /\ UNCHANGED <<before, spoilt>>
    BY <1>2, <1>13, UndoDoes
  <2>2. PICK x \in {Rm(g), Mv(g)} :
          /\ job = "rollback" /\ Popped(x) /\ Same({g})
          /\ x = Rm(g) => fs'[g] = << >>
          /\ x = Mv(g) => g \in Configs /\ fs'[g] = bak[g]
          /\ \A h \in Configs : x # Mv(h) => bak'[h] = bak[h]
          /\ UNCHANGED <<before, spoilt>>
    BY <2>1
  <2>3. Restorable(f)
    BY <1>1, <1>3, <2>2
  <2>4. /\ In(stack, x) /\ ~In(stack', x)
        /\ \A y \in Entries : In(stack, y) <=> In(stack', y) \/ y = x
        /\ \A y \in Entries : In(stack', y) => Slot(y) < Slot(x)
    BY <2>2 DEF Popped
  <2>5. CASE f # g
    <3>1. x # Rm(f) /\ x # Mv(f)
      BY <2>2, <2>5, Distinct
    <3>2. FileStays(f)
      BY <1>4, <2>2, <2>4, <2>5, <3>1 DEF FileStays, Same
    <3>3. QED  BY <2>2, <2>3, <3>2, RestorableStays
  <2>6. CASE f = g /\ x = Rm(f)
    <3>1. fs'[f] = << >> /\ before'[f] = << >>
      BY <2>2, <2>3, <2>4, <2>6 DEF Restorable
    <3>2. f \in Configs => ~In(stack', Mv(f))
      <4>1. f \in Configs => ~(Slot(Mv(f)) < Slot(Rm(f)))
        BY Slots DEF Configs
      <4>2. QED  BY <1>4, <2>4, <2>6, <4>1
    <3>3. QED  BY <3>1, <3>2 DEF Restorable, Present
  <2>7. CASE f = g /\ x = Mv(f)
    <3>1. f \in Configs /\ f \notin Bundles /\ fs'[f] = bak[f] /\ before' = before
      BY <1>4, <2>2, <2>7
    <3>2. In(stack, Mv(f)) /\ ~In(stack', Mv(f)) /\ (In(stack', Rm(f)) <=> In(stack, Rm(f)))
      BY <1>4, <2>4, <2>7, Distinct
    <3>3. QED  BY <2>3, <3>1, <3>2 DEF Restorable
  <2>8. QED  BY <2>2, <2>5, <2>6, <2>7
<1>14. CASE UndoFails
  BY <1>1, <1>14 DEF UndoFails
<1>15. CASE SelfTest \/ RolledBack
  BY <1>1, <1>15 DEF SelfTest, RolledBack, Finish
<1>16. CASE RemoveBundle \/ TruncateConf \/ RefillConf \/ RemoveSudoers \/ RemoveLocal \/ Cut
  <2>1. job' \in {"uninstall", "idle"}
    BY <1>2, <1>16, RemoveBundleDoes, TruncateConfDoes, RefillConfDoes, RemoveSudoersDoes,
       RemoveLocalDoes, CutDoes
  <2>2. QED  BY <1>1, <2>1
<1>17. CASE Visudo \/ SudoLoads \/ SudoAuthenticates \/ UNCHANGED vars
  <2>1. UNCHANGED <<fs, bak, job, stack, before, spoilt>>
    BY <1>17 DEF Visudo, Go, SudoLoads, SudoAuthenticates, vars, script
  <2>2. Restorable(f)
    BY <1>1, <1>3, <2>1
  <2>3. QED  BY <2>1, <2>2, RestorableStays DEF FileStays
<1>18. QED
  BY <1>5, <1>6, <1>7, <1>8, <1>9, <1>10, <1>11, <1>12, <1>13, <1>14, <1>15, <1>16, <1>17 DEF Next

-----------------------------------------------------------------------------
(* What uninstall.bash has done so far, action by action.                  *)

LEMMA UninstallNext ==
  ASSUME IInv, [Next]_vars
  PROVE  UninstallInv'
<1>1. SUFFICES ASSUME job' = "uninstall"
               PROVE  UninstallInv'
  BY DEF UninstallInv
<1>2. TypeOK /\ StackInv /\ UninstallInv
  BY DEF IInv
<1>3. CASE Start("install") \/ Start("uninstall")
  <2>1. pc' = 1 /\ before' = fs /\ fs' = fs
    BY <1>2, <1>3, StartDoes
  <2>2. QED  BY <2>1 DEF UninstallInv
<1>4. CASE RemoveBundle
  <2>1. PICK f \in Bundles :
          /\ job = "uninstall" /\ pc \in 1..3 /\ pc' = pc + 1 /\ f = Copied[pc]
          /\ f \notin Configs /\ Same({f}) /\ fs'[f] = << >> /\ before' = before
    BY <1>2, <1>4, RemoveBundleDoes
  <2>2. fs'["conf"] = before'["conf"]
    BY <1>2, <2>1 DEF UninstallInv, Same, Files, Configs
  <2>3. /\ pc = 1 => f = "approval"
        /\ pc = 2 => f = "audit"
        /\ pc = 3 => f = "pam"
    BY <2>1, Bundle
  <2>4. \A b \in Bundles : ~Present(b) => ~Present(b)'
    BY <2>1 DEF Same, Present, Files
  <2>5. ~Present(f)'
    BY <2>1 DEF Present
  <2>6. /\ pc' > 1 => ~Present("approval")'
        /\ pc' > 2 => ~Present("audit")'
        /\ pc' > 3 => ~Present("pam")'
    <3>1. /\ pc > 1 => ~Present("approval")
          /\ pc > 2 => ~Present("audit")
      BY <1>2, <2>1 DEF UninstallInv
    <3>2. "approval" \in Bundles /\ "audit" \in Bundles
      BY DEF Bundles
    <3>3. CASE pc = 1
      BY <2>1, <2>3, <2>5, <3>3
    <3>4. CASE pc = 2
      BY <2>1, <2>3, <2>4, <2>5, <3>1, <3>2, <3>4
    <3>5. CASE pc = 3
      BY <2>1, <2>3, <2>4, <2>5, <3>1, <3>2, <3>5
    <3>6. QED  BY <2>1, <3>3, <3>4, <3>5
  <2>7. pc' \in 2..4
    BY <2>1
  <2>8. QED  BY <2>2, <2>6, <2>7 DEF UninstallInv
<1>5. CASE TruncateConf \/ RefillConf \/ RemoveSudoers
  <2>1. /\ job = "uninstall" /\ pc \in 4..6 /\ pc' \in 5..7 /\ before' = before
        /\ Same({"conf"}) \/ (Same({"sudoers"}) /\ fs'["sudoers"] = << >> /\ pc = 6)
        /\ pc' > 6 => pc = 6 /\ ~Present("sudoers")'
    BY <1>2, <1>5, TruncateConfDoes, RefillConfDoes, RemoveSudoersDoes DEF Present
  <2>2. \A b \in Bundles : ~Present(b)'
    <3>1. \A b \in Bundles : ~Present(b)
      BY <1>2, <2>1 DEF UninstallInv, Bundles
    <3>2. \A b \in Bundles : fs'[b] = fs[b]
      BY <2>1 DEF Same, Files, Bundles
    <3>3. QED  BY <3>1, <3>2 DEF Present
  <2>3. /\ pc' = 5 => Present("conf")' /\ before'["conf"] # << >>
        /\ pc' > 5 => /\ Present("conf")' = (before'["conf"] # << >>)
                      /\ Present("conf")' => ConfLines' = before'["conf"][1] \ Ours
    <3>1. CASE TruncateConf
      <4>1. /\ pc = 4
            /\ \/ pc' = 5 /\ Ours \cap ConfLines # {} /\ fs'["conf"] = <<{}>>
               \/ pc' = 6 /\ Ours \cap ConfLines = {} /\ fs' = fs
        BY <1>2, <3>1, TruncateConfDoes
      <4>2. fs["conf"] = before["conf"]
        BY <1>2, <2>1, <4>1 DEF UninstallInv
      <4>3. CASE pc' = 5 /\ Ours \cap ConfLines # {} /\ fs'["conf"] = <<{}>>
        <5>1. fs["conf"] # << >>
          BY <4>3, ConfIs, LinesOf
        <5>2. QED  BY <2>1, <4>2, <4>3, <5>1 DEF Present
      <4>4. CASE pc' = 6 /\ Ours \cap ConfLines = {} /\ fs' = fs
        <5>1. Present("conf")' = (before'["conf"] # << >>)
          BY <2>1, <4>2, <4>4 DEF Present
        <5>2. Present("conf")' => ConfLines' = before["conf"][1] /\ ConfLines' = ConfLines
          BY <4>2, <4>4 DEF ConfLines, Present
        <5>3. Present("conf")' => ConfLines' = before'["conf"][1] \ Ours
          BY <2>1, <4>4, <5>2
        <5>4. QED  BY <4>4, <5>1, <5>3
      <4>5. QED  BY <4>1, <4>3, <4>4
    <3>2. CASE RefillConf
      <4>1. pc' = 6 /\ before["conf"] # << >> /\ fs'["conf"] = <<before["conf"][1] \ Ours>>
        BY <1>2, <3>2, RefillConfDoes
      <4>2. QED  BY <2>1, <4>1 DEF ConfLines, Present
    <3>3. CASE RemoveSudoers
      <4>1. pc = 6 /\ pc' = 7 /\ fs'["conf"] = fs["conf"]
        BY <1>2, <3>3, RemoveSudoersDoes DEF Same, Files, Configs
      <4>2. QED  BY <1>2, <2>1, <4>1 DEF UninstallInv, ConfLines, Present
    <3>4. QED  BY <1>5, <3>1, <3>2, <3>3
  <2>4. QED  BY <2>1, <2>2, <2>3 DEF UninstallInv, Bundles
<1>6. CASE SudoLoads \/ SudoAuthenticates \/ UNCHANGED vars
  <2>1. UNCHANGED <<fs, job, pc, before>>
    BY <1>6 DEF SudoLoads, SudoAuthenticates, vars, script
  <2>2. QED  BY <1>2, <2>1 DEF UninstallInv, ConfLines, Present
<1>7. CASE \/ CopyBundle \/ CreateConf \/ BackUpConf \/ AppendLine \/ BackUp \/ Place
           \/ Visudo \/ SelfTest \/ Fail \/ Undo \/ UndoFails \/ RolledBack
           \/ RemoveLocal \/ Cut
  <2>1. CASE \/ CopyBundle \/ CreateConf \/ BackUpConf \/ AppendLine \/ BackUp \/ Place
             \/ Visudo \/ UndoFails
    BY <1>1, <2>1 DEF CopyBundle, CreateConf, BackUpConf, AppendLine, BackUp, Place, Visudo,
       UndoFails, At, Go
  <2>2. CASE SelfTest \/ Fail \/ Undo \/ RolledBack \/ RemoveLocal \/ Cut
    BY <1>1, <2>2 DEF SelfTest, Fail, Undo, RolledBack, RemoveLocal, Cut, Finish
  <2>3. QED  BY <1>7, <2>1, <2>2
<1>8. QED  BY <1>3, <1>4, <1>5, <1>6, <1>7 DEF Next

-----------------------------------------------------------------------------
(* How a script ended.                                                     *)

Rolled == ended = "rolled back" /\ ~spoilt

BundlesKept == \A f \in Bundles : before[f] # << >> => Present(f)

ConfigsBack == \A f \in Files : f \in Configs \/ before[f] = << >> => fs[f] = before[f]

\* The files as they were, with every bundle that was there, work as they did.
LEMMA WorksAgain ==
  ASSUME ConfigsBack, BundlesKept, BeforeWorks
  PROVE  SudoWorks
<1>1. fs["conf"] = before["conf"] /\ fs["local"] = before["local"]
  BY DEF ConfigsBack, Files, Configs
<1>2. ConfLines = LinesIn(before["conf"])
  BY <1>1, ConfIs
<1>3. /\ \A p \in Ours \cap LinesIn(before["conf"]) : before[p] # << >>
      /\ before["local"] \in {<< >>, <<"theirs">>}
         \/ (before["pam"] # << >> /\ before["approval"] # << >>
             /\ "approval" \in LinesIn(before["conf"]))
  BY DEF BeforeWorks, LinesIn
<1>4. Loads
  BY <1>2, <1>3 DEF Loads, BundlesKept, Ours, Bundles
<1>5. LocalIsOurs => before["local"] \notin {<< >>, <<"theirs">>}
  BY <1>1 DEF LocalIsOurs, Present
<1>6. LocalIsOurs => Present("pam") /\ IntegrityHolds
  BY <1>2, <1>3, <1>5 DEF BundlesKept, Bundles, IntegrityHolds
<1>7. QED  BY <1>4, <1>6 DEF SudoWorks

LEMMA WorksOnceInstalled ==
  ASSUME SelfTestPasses
  PROVE  SudoWorks
BY DEF SelfTestPasses, SudoWorks, Loads, IntegrityHolds, Ours, Files, Bundles, Configs

LEMMA EndParts ==
  EndInv <=> /\ job # "idle" => ended = "none"
             /\ Rolled => ConfigsBack /\ BundlesKept
             /\ Rolled /\ BeforeWorks => SudoWorks
             /\ ended \in {"installed", "uninstalled"} => SudoWorks
             /\ UninstallIsComplete
BY DEF EndInv, RollbackRestores, WorksAfterwards, Rolled, ConfigsBack, BundlesKept

LEMMA StillRunning ==
  ASSUME ended' \in {"none", "cut"}, job' # "idle" => ended' = "none"
  PROVE  EndInv'
BY DEF EndInv, RollbackRestores, WorksAfterwards, UninstallIsComplete

LEMMA EndNext ==
  ASSUME IInv, [Next]_vars
  PROVE  EndInv'
<1>1. TypeOK /\ StackInv /\ ConfInv /\ UninstallInv /\ EndInv
  BY DEF IInv
<1>2. ASSUME job # "idle", ended' = ended
      PROVE  EndInv'
  <2>1. ended' = "none"
    BY <1>1, <1>2 DEF EndInv
  <2>2. QED  BY <2>1, StillRunning
<1>3. CASE Start("install") \/ Start("uninstall")
  BY <1>1, <1>3, StartDoes, StillRunning
<1>4. CASE \/ CopyBundle \/ CreateConf \/ BackUpConf \/ AppendLine \/ BackUp \/ Place
           \/ Visudo \/ UndoFails
  <2>1. job # "idle" /\ ended' = ended
    BY <1>4 DEF CopyBundle, CreateConf, BackUpConf, AppendLine, BackUp, Place, Visudo,
       UndoFails, At, Go
  <2>2. QED  BY <1>2, <2>1
<1>5. CASE \/ Fail \/ Undo \/ RemoveBundle \/ TruncateConf \/ RefillConf \/ RemoveSudoers
  <2>1. job # "idle" /\ ended' = ended
    BY <1>5 DEF Fail, Undo, RemoveBundle, TruncateConf, RefillConf, RemoveSudoers, At, Go
  <2>2. QED  BY <1>2, <2>1
<1>6. CASE Cut
  BY <1>1, <1>6, CutDoes, StillRunning
<1>7. CASE SelfTest
  <2>1. job' = "idle" /\ ended' = "installed" /\ SelfTestPasses /\ fs' = fs
    BY <1>7 DEF SelfTest, Finish
  <2>2. SudoWorks
    BY <2>1, WorksOnceInstalled
  <2>3. SudoWorks'
    BY <2>1, <2>2 DEF SudoWorks, Loads, LocalIsOurs, IntegrityHolds, ConfLines, Present
  <2>4. QED
    BY <2>1, <2>3 DEF EndInv, RollbackRestores, WorksAfterwards, UninstallIsComplete
<1>8. CASE RolledBack
  <2>1. /\ job = "rollback" /\ stack = << >> /\ job' = "idle" /\ ended' = "rolled back"
        /\ UNCHANGED <<fs, spoilt, before>>
    BY <1>8 DEF RolledBack, Finish
  <2>2. ASSUME ~spoilt
        PROVE  ConfigsBack /\ BundlesKept
    <3>1. \A f \in Files : Restorable(f) /\ ~In(stack, Rm(f)) /\ ~In(stack, Mv(f))
      BY <2>1, <2>2, NothingIn DEF IInv, RestoreInv
    <3>2. \A f \in Files : f \in Bundles \/ f \in Configs
      BY DEF Files
    <3>3. ConfigsBack
      BY <3>1, <3>2 DEF ConfigsBack, Restorable, Present
    <3>4. BundlesKept
      BY <3>1 DEF BundlesKept, Restorable, Files
    <3>5. QED  BY <3>3, <3>4
  <2>3. Rolled' => ~spoilt
    BY <2>1 DEF Rolled
  <2>4. Rolled' => ConfigsBack' /\ BundlesKept'
    BY <2>1, <2>2, <2>3 DEF ConfigsBack, BundlesKept, Present
  <2>5. Rolled' /\ BeforeWorks' => SudoWorks'
    <3>1. SUFFICES ASSUME Rolled', BeforeWorks'
                   PROVE  SudoWorks'
      OBVIOUS
    <3>2. BeforeWorks
      BY <2>1, <3>1 DEF BeforeWorks
    <3>3. SudoWorks
      BY <2>2, <2>3, <3>1, <3>2, WorksAgain
    <3>4. QED
      BY <2>1, <3>3 DEF SudoWorks, Loads, LocalIsOurs, IntegrityHolds, ConfLines, Present
  <2>6. QED
    BY <2>1, <2>4, <2>5 DEF EndInv, RollbackRestores, WorksAfterwards, UninstallIsComplete,
       Rolled, ConfigsBack, BundlesKept
<1>9. CASE RemoveLocal
  <2>1. /\ job = "uninstall" /\ pc = 7 /\ job' = "idle" /\ ended' = "uninstalled"
        /\ Same({"local"}) /\ fs'["local"] = << >> /\ before' = before
    BY <1>1, <1>9, RemoveLocalDoes
  <2>2. /\ ~Present("approval") /\ ~Present("audit") /\ ~Present("pam") /\ ~Present("sudoers")
        /\ Present("conf") = (before["conf"] # << >>)
        /\ Present("conf") => ConfLines = before["conf"][1] \ Ours
    BY <1>1, <2>1 DEF UninstallInv
  <2>3. \A f \in Files \ {"local"} : fs'[f] = fs[f]
    BY <2>1 DEF Same
  <2>4. /\ \A f \in Files \ {"conf"} : ~Present(f)'
        /\ Present("conf")' = Present("conf") /\ ConfLines' = ConfLines
    BY <2>1, <2>2, <2>3 DEF Present, ConfLines, Files, Bundles, Configs
  <2>5. UninstallIsComplete'
    BY <2>1, <2>2, <2>4 DEF UninstallIsComplete
  <2>6. ConfLines \cap Ours = {}
    BY <2>2 DEF ConfLines
  <2>7. SudoWorks'
    BY <2>4, <2>6 DEF SudoWorks, Loads, LocalIsOurs, Files, Configs
  <2>8. QED  BY <2>1, <2>5, <2>7 DEF EndInv, RollbackRestores, WorksAfterwards
<1>10. CASE SudoLoads \/ SudoAuthenticates \/ UNCHANGED vars
  <2>1. UNCHANGED <<fs, job, before, ended, spoilt>>
    BY <1>10 DEF SudoLoads, SudoAuthenticates, vars, script
  <2>2. /\ SudoWorks' = SudoWorks /\ BeforeWorks' = BeforeWorks /\ Rolled' = Rolled
        /\ UninstallIsComplete' = UninstallIsComplete
        /\ ConfigsBack' = ConfigsBack /\ BundlesKept' = BundlesKept
    BY <2>1 DEF SudoWorks, Loads, LocalIsOurs, IntegrityHolds, ConfLines, Present, BeforeWorks,
       Rolled, UninstallIsComplete, ConfigsBack, BundlesKept
  <2>3. QED
    BY <1>1, <2>1, <2>2, EndParts DEF EndInv, RollbackRestores, WorksAfterwards, Rolled,
       ConfigsBack, BundlesKept
<1>11. QED
  BY <1>3, <1>4, <1>5, <1>6, <1>7, <1>8, <1>9, <1>10 DEF Next

-----------------------------------------------------------------------------
(* The theorems.                                                           *)

LEMMA InitIInv == Init => IInv
<1> SUFFICES ASSUME Init PROVE IInv
  OBVIOUS
<1>1. /\ job = "idle" /\ stack = << >> /\ ended = "none" /\ run = NoRun
  BY DEF Init
<1>2. StackInv
  BY <1>1, NothingIn DEF StackInv, Ordered
<1>3. ConfInv
  BY <1>1, NothingIn DEF ConfInv, FreeRunIsGated, NoRun
<1>4. RestoreInv /\ UninstallInv
  BY <1>1 DEF RestoreInv, UninstallInv
<1>5. EndInv
  BY <1>1 DEF EndInv, RollbackRestores, WorksAfterwards, UninstallIsComplete
<1>6. QED  BY <1>2, <1>3, <1>4, <1>5, InitType DEF IInv

\* What the five properties rest on holds in every state the scripts reach.
THEOREM Inductive == Spec => []IInv
<1>1. IInv /\ [Next]_vars => IInv'
  <2> SUFFICES ASSUME IInv, [Next]_vars PROVE IInv'
    OBVIOUS
  <2>1. TypeOK' /\ StackInv' /\ ConfInv'
    BY NextType, StackNext, ConfNext
  <2>2. RestoreInv' /\ UninstallInv' /\ EndInv'
    BY RestoreNext, UninstallNext, EndNext
  <2>3. QED  BY <2>1, <2>2 DEF IInv
<1>2. QED  BY InitIInv, <1>1, PTL DEF Spec

\* Every file holds what a build or the administrator put there, whatever is cut short.
THEOREM TypeCorrect == Spec => []TypeOK
<1>1. IInv => TypeOK
  BY DEF IInv
<1>2. QED  BY Inductive, <1>1, PTL

\* A console user is let through without a factor only in a sudo that loaded the
\* approval plugin (or had read sudo.conf before the installer added its line).
THEOREM FreeRunsAreGated == Spec => []FreeRunIsGated
<1>1. IInv => FreeRunIsGated
  BY DEF IInv, ConfInv
<1>2. QED  BY Inductive, <1>1, PTL

\* A rolled back install has put every configuration file back and taken away every
\* bundle it brought.
THEOREM RollbacksRestore == Spec => []RollbackRestores
<1>1. IInv => RollbackRestores
  BY DEF IInv, EndInv
<1>2. QED  BY Inductive, <1>1, PTL

\* After an install, an uninstall, or the rollback of an install that began with a sudo
\* that worked, sudo works.
THEOREM SudoWorksAfterwards == Spec => []WorksAfterwards
<1>1. IInv => WorksAfterwards
  BY DEF IInv, EndInv
<1>2. QED  BY Inductive, <1>1, PTL

\* uninstall.bash leaves nothing of sudowhat and all of the administrator's sudo.conf.
THEOREM UninstallsAreComplete == Spec => []UninstallIsComplete
<1>1. IInv => UninstallIsComplete
  BY DEF IInv, EndInv
<1>2. QED  BY Inductive, <1>1, PTL
=============================================================================
