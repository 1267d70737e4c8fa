-------------------------- MODULE MCApprovalCheck --------------------------
(* The plugin on a file system of two inode numbers, so that a number is    *)
(* given out again as soon as nothing holds it, and three generations of    *)
(* the file.                                                                *)
EXTENDS ApprovalCheck

MCTexts == {PasswordText, NopasswdOnlyText, DenyText, Absent}
=============================================================================
