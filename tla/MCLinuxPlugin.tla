--------------------------- MODULE MCLinuxPlugin ---------------------------
(* Images on pages of 8 units: the struct in .data, in the page the sealed *)
(* range ends in; in .data.rel.ro; bound lazily; not exported.             *)
EXTENDS LinuxPlugin

Image(sym, relro, now) ==
  [sym |-> sym, lo |-> 11, hi |-> 36, relro |-> relro, now |-> now]

MCImages == {Image(36, TRUE, TRUE), Image(11, TRUE, TRUE), Image(36, TRUE, FALSE),
             Image(Nil, TRUE, TRUE)}

Conf(trusted, sudoers, ours) == [trusted |-> trusted, sudoers |-> sudoers, ours |-> ours]

MCConfs == {Conf(TRUE, FALSE, "absent"), Conf(TRUE, TRUE, "live"), Conf(TRUE, TRUE, "comment"),
            Conf(TRUE, FALSE, "live"), Conf(FALSE, TRUE, "live")}

MCVersions == {<<1, 15>>, <<1, 18>>, <<2, 18>>}
=============================================================================
