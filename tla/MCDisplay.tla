------------------------------ MODULE MCDisplay -----------------------------
(* Lengths on either side of every cap, and of the command's budget beside   *)
(* an elided user and a directory at its cap; the arrays sudo builds for the *)
(* options of an invocation, with other keys beside the ones that matter.    *)
EXTENDS Display

MCUsers == {"root", "longest", "elided"}
MCDirs == {"/home", "/at/cap", "/over"}
MCCommands == {"short", "fits", "over"}
MCBareNames == {"ls", "-l"}
MCLength ==
  [v \in MCUsers \cup MCDirs \cup MCCommands |->
     CASE v = "root" -> 4 [] v = "longest" -> 64 [] v = "elided" -> 65
       [] v = "/home" -> 5 [] v = "/at/cap" -> 160 [] v = "/over" -> 161
       [] v = "short" -> 9 [] v = "fits" -> 200 [] v = "over" -> 201]

Entry(key, value) == [key |-> key, value |-> value]
\* An entry for an option that was given.
Entries(key, value) == IF value = None THEN <<>> ELSE <<Entry(key, value)>>

\* -s, -i, -u and -D, with or without a command; -i alone implies a shell.
Settings(shell, word, runas, dashD) ==
  <<Entry(<<"runas", "_group">>, "staff")>>
    \o Entries(<<"runas_user">>, runas)
    \o Entries(<<"cmnd_cwd">>, dashD)
    \o (IF shell = "none" THEN <<>>
        ELSE <<Entry(<<IF shell = "run" THEN "run_shell" ELSE "login_shell">>, "true")>>)
    \o (IF shell = "login" /\ word = None THEN <<Entry(<<"implied_shell">>, "true")>> ELSE <<>>)

Argv(word) == <<"sudo", "-k">> \o (IF word = None THEN <<>> ELSE <<word, "-l">>)

UserInfo(uid, cwd) == Entries(<<"uid">>, uid) \o Entries(<<"cwd">>, cwd)

\* A terminal names its program before its type; the caller may set a key twice.
Env(term_, noColor, path) ==
  <<Entry(<<"TERM", "_PROGRAM">>, "Terminal")>> \o Entries(<<"TERM">>, term_)
    \o Entries(<<"NO_COLOR">>, noColor) \o Entries(<<"PATH">>, path)
    \o <<Entry(<<"PATH">>, "another")>>

\* An ordinary invocation; the sets below vary it.
Ordinary ==
  [ platform |-> "macos", knownAPI |-> TRUE, display |-> TRUE, echo |-> TRUE,
    bundles |-> "ours", refused |-> {}, optind |-> 2,
    settings |-> Settings("none", "ls", None, None), user_info |-> UserInfo(<<5, 0, 1>>, "/home"),
    argv |-> Argv("ls"), envp |-> Env("xterm", None, "/bin") ]

Platforms == {"macos", "linux"}

Silenced ==
  UNION { { [Ordinary EXCEPT !.platform = p, !.knownAPI = FALSE],
            [Ordinary EXCEPT !.platform = p, !.display = FALSE],
            [Ordinary EXCEPT !.platform = p, !.user_info = UserInfo(None, "/home")],
            [Ordinary EXCEPT !.platform = p, !.user_info = UserInfo(<<0>>, "/home")],
            [Ordinary EXCEPT !.platform = p, !.user_info = UserInfo(<<>>, "/home")],
            [Ordinary EXCEPT !.platform = p, !.bundles = "approval is not"],
            [Ordinary EXCEPT !.platform = p, !.bundles = "pam is not"] } : p \in Platforms }

Displayed ==
  { [Ordinary EXCEPT !.platform = p, !.settings = Settings(s, w, u, d), !.argv = Argv(w),
                     !.user_info = UserInfo(<<5, 0, 1>>, c)] :
      p \in Platforms,
      s \in {"none", "run", "login"},
      w \in {None, "ls"},
      u \in {None, "elided"},
      d \in {None, "/over"},
      c \in {None, "/at/cap", "/over"} }

\* The environment, a word with a slash, and values that are there and empty.
Environments ==
  { [Ordinary EXCEPT !.platform = p, !.envp = Env(t, n, "/bin")] :
      p \in Platforms, t \in {None, Empty, "dumb", "xterm"}, n \in {None, Empty, "1"} }
    \cup { [Ordinary EXCEPT !.envp = Env("xterm", None, b)] : b \in {None, Empty} }
Hollow ==
  { [Ordinary EXCEPT !.platform = p, !.settings = Settings("none", "ls", Empty, Empty),
                     !.user_info = UserInfo(<<5, 0, 1>>, Empty)] : p \in Platforms }
    \cup {[Ordinary EXCEPT !.platform = p, !.argv = Argv("/bin/ls")] : p \in Platforms}

\* No memory for one of the drawings.
Starved ==
  { [Ordinary EXCEPT !.refused = {x}, !.settings = Settings("none", "ls", "elided", "/over")] :
      x \in Drawn }

MCInvocations ==
  Silenced \cup Displayed \cup Environments \cup Hollow \cup Starved
    \cup {[Ordinary EXCEPT !.echo = FALSE]}
=============================================================================
