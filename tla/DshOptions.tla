----------------------------- MODULE DshOptions -----------------------------
(***************************************************************************)
(* The command line of dsh (6-RShell/dsh_cli.c): parse_args goes through   *)
(* the options in the order they are written, main then picks the loop to  *)
(* run.  An option is its letter; "p" has a usable port, "p0" a port that  *)
(* atoi turns into zero or less, "i" an address, "?" is what getopt gives  *)
(* for anything it does not know.                                          *)
(***************************************************************************)
EXTENDS Sequences, Naturals

Options == {"c", "s", "x", "i", "p", "p0", "h", "?"}

Defaults == [mode |-> "local", ip |-> "none", port |-> "default",
             threaded_server |-> FALSE, exit |-> "none"]

\* Mutant of Refused: -x does not ask for the mode.
RefusedUnlessPlaced(cargs, opt) ==
    \/ opt \in {"c", "s"} /\ cargs.mode # "local"
    \/ opt \in {"i", "p"} /\ cargs.mode = "local"
    \/ opt = "p0"

\* The options that end the program with EXIT_FAILURE.
Refused(cargs, opt) ==
    \/ opt \in {"c", "s"} /\ cargs.mode # "local"
    \/ opt \in {"i", "p"} /\ cargs.mode = "local"
    \/ opt = "p0"
    \/ opt = "x" /\ cargs.mode # "server"

\* The body of the switch; nothing is looked at after an exit.
parse_option(cargs, opt) ==
    IF cargs.exit # "none" THEN cargs
    ELSE IF Refused(cargs, opt) THEN [cargs EXCEPT !.exit = "failure"]
    ELSE CASE opt = "c" -> [cargs EXCEPT !.mode = "client", !.ip = "loopback"]
           [] opt = "s" -> [cargs EXCEPT !.mode = "server", !.ip = "any"]
           [] opt = "i" -> [cargs EXCEPT !.ip = "given"]
           [] opt = "p" -> [cargs EXCEPT !.port = "given"]
           [] opt = "x" -> [cargs EXCEPT !.threaded_server = TRUE]
           [] opt \in {"h", "?"} -> [cargs EXCEPT !.exit = "usage"]

\* The loop, and the check after it.
parse_args(opts) ==
    LET after[n \in 0 .. Len(opts)] ==
            IF n = 0 THEN Defaults ELSE parse_option(after[n - 1], opts[n])
        cargs == after[Len(opts)]
    IN IF /\ cargs.exit = "none"
          /\ cargs.threaded_server
          /\ cargs.mode # "server"
       THEN [cargs EXCEPT !.exit = "failure"]
       ELSE cargs

\* What main runs, or how it exits.
LoopOf(opts) ==
    LET cargs == parse_args(opts)
    IN CASE cargs.exit # "none"      -> cargs.exit
         [] cargs.exit = "none" /\ cargs.mode = "local"  -> "exec_local_cmd_loop"
         [] cargs.exit = "none" /\ cargs.mode = "client" -> "exec_remote_cmd_loop"
         [] cargs.exit = "none" /\ cargs.mode = "server" -> "start_server"

=============================================================================
