------------------------------ MODULE MCRShell ------------------------------
(* Two clients of one server and the sessions their users may have: every  *)
(* kind of line that ends a session or the server, alone or after another. *)
EXTENDS RShell

CONSTANTS a, b

MCClients == {a, b}

MCScripts == {
    <<>>,
    <<"run", "run">>,
    <<"run", "exit">>,
    <<"binary", "reader", "exit">>,
    <<"stop">>,
    <<"rejected">>,
    <<"blank">>,
    <<"pipes", "wide">> }

\* The sessions of the runs that show a violation.
MCEmptyLine == { <<"empty">>, <<"run">> }
MCRun       == { <<"run">> }
MCBadLine   == { <<"blank">>, <<"rejected">>, <<"run">> }
=============================================================================
