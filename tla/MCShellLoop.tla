---------------------------- MODULE MCShellLoop ----------------------------
(* The lines the shells are tried with: every way a line is handled, alone, *)
(* before and after every other, and longer inputs of the lines that leave  *)
(* something behind.                                                        *)
EXTENDS ShellLoop

\* The words of a command, with a space between two, and a pipe between two
\* commands.
Join(parts, sep) ==
    IF parts = <<>> THEN <<>>
    ELSE FoldLeft(LAMBDA s, p : s \o <<sep>> \o p, Head(parts), Tail(parts))
Ls(n)      == Join([k \in 1 .. n |-> <<"ls">>], Space)
Pipes(n)   == Join([k \in 1 .. n |-> <<"ls">>], Pipe)

Longest == Join(<<Ls(2), Ls(2)>>, Pipe)

Lasting == { Ls(1), <<"nocmd">>, <<"cat">>, Pipes(3), Longest }

Lines == Lasting \cup
    { <<>>, <<Space>>, <<Pipe>>, <<"exit">>, <<"cd">>, <<"cd", Space, "dir">>,
      <<"ls", Pipe, "nocmd">>, <<"nocmd", Pipe, "ls">>, <<"ls", Pipe, Space>>,
      <<Space, Pipe, "ls">>, <<"ls", Pipe, "exit">>, <<"ls", Space, "exit">>,
      <<Space, "\"", "ls">>, <<"'", "'">>,
      Pipes(4), Ls(3), Ls(4), Ls(5),
      <<"cd", Space, "dir", Space, "ls", Space, "ls">> }

MCInputs == {<<>>} \cup {<<l>> : l \in Lines} \cup (Lines \X Lines)
            \cup (Lasting \X Lasting \X Lasting)

\* The input of the run that shows a violation.
MCTwice == { << <<"nocmd">>, <<"nocmd">>, Ls(1) >> }
=============================================================================
