--------------------------- MODULE MCSudoPipeline ---------------------------
(* Alice at the screen and over SSH, Bob logged in behind a fast user       *)
(* switch, and root.                                                        *)
EXTENDS SudoPipeline, TLC

CONSTANTS alice, bob, desk, ssh, behind, rootsh

MCUid == [s \in Sessions |-> CASE s \in {desk, ssh} -> alice
                               [] s = behind        -> bob
                               [] OTHER             -> Root]
MCGraphical == {desk, behind} \cap Sessions
MCTexts == InstalledTexts
MCPassword == {PasswordText}
MCNopasswdOnly == {NopasswdOnlyText}
\* `proved' only feeds CachedRunFollowsFactor: a run without that property need
\* not tell states apart by it.
ApartFromProved == <<consoleUser, text, cred, disturbed, run>>

Symmetric == Permutations(Procs)
=============================================================================
