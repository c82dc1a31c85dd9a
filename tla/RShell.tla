------------------------------- MODULE RShell -------------------------------
(***************************************************************************)
(* The remote shell of 6-RShell: clients that run exec_remote_cmd_loop     *)
(* (rsh_cli.c), one single-threaded server that runs start_server          *)
(* (rsh_server.c), and the TCP connections between them.                   *)
(*                                                                         *)
(* A connection carries two byte streams and no message boundaries.  A     *)
(* request is Parts cells long, so that a recv may return a piece of it or *)
(* more than it; a response is the output of the command, cell by cell,    *)
(* and the mark RDSH_EOF_CHAR.  The pipeline that executes a command is    *)
(* the subject of the module Pipeline; here it is what it writes to the    *)
(* socket.  A user types a finite script and then Ctrl-D.                  *)
(***************************************************************************)
EXTENDS Naturals, Sequences, FiniteSets

CONSTANTS
    Clients,  \* the client processes
    NoClient, \* stands for no client
    Scripts,  \* what a user may type: sequences of kinds of lines
    Parts,    \* cells per request; with 1, requests arrive whole
    MaxOut,   \* the most a command writes
    BACKLOG,  \* how many connections wait for accept()
    Faults,   \* may a client be killed, and boot_server(), accept() and malloc() fail?
    Losses    \* bound: for how many requests a malloc of the parser may fail

\* What a typed line is to the server.
\*   run      a pipeline whose output does not contain RDSH_EOF_CHAR
\*   binary   one whose output may
\*   reader   one whose first command reads its input to the end
\*   wide     one with a command of more words than its argv has entries
\*   exit, stop  EXIT_CMD and STOP_SERVER_CMD
\*   rejected a line for which parse_buffer_into_cmd returns an error
\*   blank    one whose first command has no word: spaces, or a quote that is
\*            never closed
\*   pipes    pipes only: no command
\*   empty    nothing but the newline
Kinds == {"run", "binary", "reader", "wide", "exit", "stop", "rejected",
          "blank", "pipes", "empty"}

ASSUME ClientsAssumption == NoClient \notin Clients
ASSUME ScriptsAssumption == \A s \in Scripts : s \in Seq(Kinds)
ASSUME BoundsAssumption ==
    Parts \in Nat \ {0} /\ MaxOut \in Nat /\ BACKLOG \in Nat \ {0}
ASSUME FaultsAssumption == Faults \in BOOLEAN /\ Losses \in Nat

VARIABLES
    srv,      \* where the server is
    src,      \* what start_server returned, or how the server process died
    cur,      \* the client behind cli_socket
    backlog,  \* the connections that wait for accept()
    iobuff,   \* io_buff: what the last recv() returned
    pending,  \* what the executing command has still to write
    up, down, \* [client -> the bytes on their way to the server (client)]
    cend,     \* [client -> how the server finds the client's end]
    send,     \* [client -> how the client finds the server's end]
    cst,      \* [client -> where exec_remote_cmd_loop is]
    script,   \* [client -> the lines its user types]
    pos,      \* [client -> how many of them it has sent]
    outcome,  \* [client -> how its session ended]
    handled,  \* [client -> history: the requests the server has handled]
    heard,    \* [client -> history: the kind it took each of them for]
    memory    \* "spoilt" after a store past the end of an argv

serverVars == <<srv, src, cur, backlog, iobuff, pending>>
netVars    == <<up, down, cend, send>>
clientVars == <<cst, script, pos, outcome>>
pastVars   == <<handled, heard, memory>>
vars == <<serverVars, netVars, clientVars, pastVars>>

-----------------------------------------------------------------------------
Data == "data"
Input == "input" \* instead of output: the command reads its standard input
Eot  == "eot"    \* RDSH_EOF_CHAR, sent by the server or written by a command

\* Request n of a client on its way: Parts cells.
Request(n) == [p \in 1 .. Parts |-> <<n, p>>]

\* The number of the request that a received buffer is, Garbled if it is a piece
\* of one or more than one.
Garbled == 0
Parsed(buff) == IF buff = Request(buff[1][1]) THEN buff[1][1] ELSE Garbled

\* What a line becomes when a malloc of the parser fails: without the array for
\* its next command it is rejected, without the block for a word the word is
\* skipped, and what is left may be any other line, or no word at all.
Crippled(kind) ==
    CASE kind \in {"pipes", "rejected"} -> {}
      [] kind = "blank" -> {"rejected"}
      [] OTHER -> {"rejected", "blank", "run", "binary", "reader", "exit", "stop"}

\* The lines of a session that were taken for others.
Misheard(c) ==
    {k \in DOMAIN handled[c] : /\ handled[c][k] # Garbled
                               /\ heard[c][k] # script[c][handled[c][k]]}
MayFail == Faults /\ Cardinality(UNION {{c} \X Misheard(c) : c \in Clients}) < Losses

\* What io_buff may be to the server.  A buffer that is not a line of the user
\* may be any other line.
Heard ==
    IF Parsed(iobuff) = Garbled THEN Kinds \ {"empty"}
    ELSE LET typed == script[cur][Parsed(iobuff)]
         IN {typed} \cup IF MayFail THEN Crippled(typed) ELSE {}

\* What a command may write.
Outputs(kind) ==
    IF kind = "reader" THEN {<<Input>>} ELSE
    {[x \in 1 .. n |-> Data] : n \in 0 .. MaxOut}
        \cup (IF kind = "binary" THEN {<<Eot>>, <<Eot, Data>>} ELSE {})

Init ==
    /\ srv = "down" /\ src = "none"
    /\ cur = NoClient
    /\ backlog = <<>> /\ iobuff = <<>> /\ pending = <<>>
    /\ up = [c \in Clients |-> <<>>]
    /\ down = [c \in Clients |-> <<>>]
    /\ cend = [c \in Clients |-> "open"]
    /\ send = [c \in Clients |-> "open"]
    /\ cst = [c \in Clients |-> "start"]
    /\ script \in [Clients -> Scripts]
    /\ pos = [c \in Clients |-> 0]
    /\ outcome = [c \in Clients |-> "none"]
    /\ handled = [c \in Clients |-> <<>>]
    /\ heard = [c \in Clients |-> <<>>]
    /\ memory = "sound"

-----------------------------------------------------------------------------
(***************************************************************************)
(* The server: booting and accepting.                                      *)
(***************************************************************************)

\* socket, bind and listen.
Boot ==
    /\ srv = "down"
    /\ srv' = "accept"
    /\ UNCHANGED <<src, cur, backlog, iobuff, pending, netVars, clientVars, pastVars>>

BootFails ==
    /\ Faults
    /\ srv = "down"
    /\ srv' = "stopped"
    /\ src' = "ERR_RDSH_COMMUNICATION"
    /\ UNCHANGED <<cur, backlog, iobuff, pending, netVars, clientVars, pastVars>>

Accept ==
    /\ srv = "accept"
    /\ backlog # <<>>
    /\ cur' = Head(backlog)
    /\ backlog' = Tail(backlog)
    /\ srv' = "recv"
    /\ UNCHANGED <<src, iobuff, pending, netVars, clientVars, pastVars>>

\* How a client finds the socket that the server closes: with bytes in it that
\* the server has not read, the close is a reset.
Closing(c) == IF up[c] = <<>> THEN "fin" ELSE "rst"

\* Mutants of NextClient: cli_socket is kept, and cli_socket is not closed.
NextClientKept ==
    /\ srv' = "accept"
    /\ iobuff' = <<>>
    /\ send' = [send EXCEPT ![cur] = Closing(cur)]
    /\ UNCHANGED <<src, cur, backlog, pending, up, down, cend, clientVars>>

NextClientUnclosed ==
    /\ srv' = "accept"
    /\ cur' = NoClient
    /\ iobuff' = <<>>
    /\ UNCHANGED <<src, backlog, pending, netVars, clientVars>>

\* exec_client_requests returned OK: close(cli_socket), back to accept().
NextClient ==
    /\ srv' = "accept"
    /\ cur' = NoClient
    /\ iobuff' = <<>>
    /\ send' = [send EXCEPT ![cur] = Closing(cur)]
    /\ UNCHANGED <<src, backlog, pending, up, down, cend, clientVars>>

\* The server ends: close(cli_socket), return from process_cli_requests,
\* stop_server and return, steps that no client can tell apart.  Connections
\* that wait for accept() are reset.  A server that is killed closes the same
\* sockets, src is then "killed".
Stop(reason) ==
    /\ srv' = "stopped"
    /\ src' = reason
    /\ cur' = NoClient
    /\ backlog' = <<>> /\ iobuff' = <<>> /\ pending' = <<>>
    /\ send' = [c \in Clients |->
                   IF c = cur THEN Closing(c)
                   ELSE IF \E k \in DOMAIN backlog : backlog[k] = c THEN "rst"
                   ELSE send[c]]
    /\ UNCHANGED <<up, down, cend, clientVars>>

AcceptFails ==
    /\ Faults
    /\ srv = "accept"
    /\ Stop("ERR_RDSH_COMMUNICATION")
    /\ UNCHANGED pastVars

-----------------------------------------------------------------------------
(***************************************************************************)
(* The server: exec_client_requests.                                       *)
(***************************************************************************)

\* malloc failed, before the first recv() of the session.
NoMemory ==
    /\ Faults
    /\ srv = "recv"
    /\ handled[cur] = <<>>
    /\ Stop("ERR_MEMORY")
    /\ UNCHANGED pastVars

\* Mutant of Receive: the bytes stay in the socket (MSG_PEEK).
ReceivePeek ==
    /\ srv = "recv"
    /\ up[cur] # <<>>
    /\ iobuff' = up[cur]
    /\ srv' = "parse"
    /\ UNCHANGED <<src, cur, backlog, pending, netVars, clientVars, pastVars>>

\* recv() > 0: what has arrived, or a beginning of it if requests may be cut.
Receive ==
    /\ srv = "recv"
    /\ up[cur] # <<>>
    /\ \E k \in 1 .. Len(up[cur]) :
          /\ Parts = 1 => k = Len(up[cur])
          /\ iobuff' = SubSeq(up[cur], 1, k)
          /\ up' = [up EXCEPT ![cur] = SubSeq(@, k + 1, Len(@))]
    /\ srv' = "parse"
    /\ UNCHANGED <<src, cur, backlog, pending, down, cend, send, clientVars, pastVars>>

\* Mutant of ReceiveNothing: a disconnected client stops the server.
ReceiveNothingStops ==
    /\ srv = "recv"
    /\ up[cur] = <<>>
    /\ cend[cur] # "open"
    /\ Stop("OK_EXIT")
    /\ UNCHANGED pastVars

\* recv() = 0: the client has disconnected, rc is OK.
ReceiveNothing ==
    /\ srv = "recv"
    /\ up[cur] = <<>>
    /\ cend[cur] # "open"
    /\ NextClient
    /\ UNCHANGED pastVars

\* recv() < 0.  A reset connection gives an error to the first call that meets
\* it and 0 afterwards, or 0 at once if the client's FIN came before.
ReceiveFails ==
    /\ srv = "recv"
    /\ up[cur] = <<>>
    /\ cend[cur] = "rst"
    /\ Stop("ERR_RDSH_COMMUNICATION")
    /\ UNCHANGED pastVars

\* The request is parsed, and found to be of some kind.
Handle(kind) ==
    /\ srv = "parse"
    /\ kind \in Heard
    /\ handled' = [handled EXCEPT ![cur] = Append(@, Parsed(iobuff))]
    /\ heard' = [heard EXCEPT ![cur] = Append(@, kind)]
    /\ memory' = IF kind = "wide" THEN "spoilt" ELSE memory

\* rsh_execute_pipeline; its return value is ignored.
Execute ==
    /\ \E kind \in {"run", "binary", "reader", "wide"} :
          Handle(kind) /\ pending' \in Outputs(kind)
    /\ srv' = "exec"
    /\ iobuff' = <<>>
    /\ UNCHANGED <<src, cur, backlog, netVars, clientVars>>

\* num_commands = 0: nothing runs, the mark is sent.
NoCommand ==
    /\ Handle("pipes")
    /\ srv' = "mark"
    /\ iobuff' = <<>>
    /\ UNCHANGED <<src, cur, backlog, pending, netVars, clientVars>>

\* exit: no mark is sent.
ExitCommand == Handle("exit") /\ NextClient

\* stop-server: no mark is sent.
StopCommand == Handle("stop") /\ Stop("OK_EXIT")

\* Mutant of Reject: only the session ends.
RejectSession == Handle("rejected") /\ NextClient

\* parse_buffer_into_cmd failed.
Reject == Handle("rejected") /\ Stop("ERR_EXEC_CMD")

\* A command without a word: strcmp(argv[0][0], ...) of a null pointer.  One with
\* too many: a store past the end of argv, and the malloc() of the next word or
\* the free() of the parser finds the heap broken and aborts.
Crash == (Handle("blank") \/ Handle("wide")) /\ Stop("killed")

\* If that was not found at once, a later malloc() or free() may: at the start of
\* a session, at its end and when a request is parsed.
Corrupted ==
    /\ memory = "spoilt"
    /\ \/ srv = "parse"
       \/ srv = "recv" /\ handled[cur] = <<>>
       \/ srv = "recv" /\ up[cur] = <<>> /\ cend[cur] # "open"
    /\ Stop("killed")
    /\ UNCHANGED pastVars

\* Bytes sent to a client.  The first ones that reach a client that is gone are
\* lost and provoke a reset.
Sent(bytes) ==
    /\ down' = [down EXCEPT ![cur] = IF cend[cur] = "open" THEN @ \o bytes ELSE @]
    /\ cend' = [cend EXCEPT ![cur] = IF @ = "fin" THEN "poked" ELSE @]

\* The command writes to the socket (external).
CommandWrites ==
    /\ srv = "exec"
    /\ pending # <<>> /\ Head(pending) # Input
    /\ cend[cur] # "rst"
    /\ Sent(<<Head(pending)>>)
    /\ pending' = Tail(pending)
    /\ UNCHANGED <<srv, src, cur, backlog, iobuff, up, send, clientVars, pastVars>>

\* The first command has the socket as its standard input: what the client
\* sends goes to the command, which writes it back, and not to the server.
CommandReads ==
    /\ srv = "exec"
    /\ pending = <<Input>>
    /\ up[cur] # <<>>
    /\ up' = [up EXCEPT ![cur] = <<>>]
    /\ Sent(<<Data>>)
    /\ UNCHANGED <<srv, src, cur, backlog, iobuff, pending, send, clientVars, pastVars>>

\* The command meets the end of its input when the client is gone.
CommandInputEnds ==
    /\ srv = "exec"
    /\ pending = <<Input>>
    /\ up[cur] = <<>> /\ cend[cur] # "open"
    /\ pending' = <<>>
    /\ UNCHANGED <<srv, src, cur, backlog, iobuff, netVars, clientVars, pastVars>>

\* The command writes to a socket that has been reset: it ends by SIGPIPE or, if
\* it minds the error, on its own (external).
CommandCutOff ==
    /\ srv = "exec"
    /\ pending # <<>>
    /\ cend[cur] = "rst"
    /\ pending' = <<>>
    /\ UNCHANGED <<srv, src, cur, backlog, iobuff, netVars, clientVars, pastVars>>

\* waitpid has returned for every child.
CommandEnds ==
    /\ srv = "exec"
    /\ pending = <<>>
    /\ srv' = "mark"
    /\ UNCHANGED <<src, cur, backlog, iobuff, pending, netVars, clientVars, pastVars>>

SendEof ==
    /\ srv = "mark"
    /\ cend[cur] # "rst"
    /\ Sent(<<Eot>>)
    /\ srv' = "recv"
    /\ UNCHANGED <<src, cur, backlog, iobuff, pending, up, send, clientVars, pastVars>>

\* send() meets the reset: it fails, or SIGPIPE kills the server, if somebody
\* has met the error before.
SendEofFails ==
    /\ srv = "mark"
    /\ cend[cur] = "rst"
    /\ Stop("ERR_RDSH_COMMUNICATION") \/ Stop("killed")
    /\ UNCHANGED pastVars

Server ==
    \/ Boot \/ Accept
    \/ Receive \/ ReceiveNothing \/ ReceiveFails
    \/ Execute \/ NoCommand \/ ExitCommand \/ StopCommand \/ Reject \/ Crash
    \/ CommandWrites \/ CommandReads \/ CommandInputEnds \/ CommandCutOff \/ CommandEnds
    \/ SendEof \/ SendEofFails

-----------------------------------------------------------------------------
(***************************************************************************)
(* A client: exec_remote_cmd_loop.                                         *)
(***************************************************************************)

\* client_cleanup: close(cli_socket) and return.  With bytes in it that the
\* client has not read, the close is a reset.
Cleanup(c, how) ==
    /\ cst' = [cst EXCEPT ![c] = "done"]
    /\ outcome' = [outcome EXCEPT ![c] = how]
    /\ cend' = [cend EXCEPT ![c] = IF down[c] = <<>> THEN "fin" ELSE "rst"]
    /\ UNCHANGED <<serverVars, up, down, send, script, pos, pastVars>>

\* connect() needs a server that listens, not one that accepts.
Connect(c) ==
    /\ cst[c] = "start"
    /\ srv \notin {"down", "stopped"}
    /\ Len(backlog) < BACKLOG
    /\ backlog' = Append(backlog, c)
    /\ cst' = [cst EXCEPT ![c] = "prompt"]
    /\ UNCHANGED <<srv, src, cur, iobuff, pending, netVars, script, pos, outcome, pastVars>>

\* start_client or a malloc before it failed: there is nothing to close.
ConnectFails(c) ==
    /\ cst[c] = "start"
    /\ Faults \/ srv \in {"down", "stopped"}
    /\ cst' = [cst EXCEPT ![c] = "done"]
    /\ outcome' = [outcome EXCEPT ![c] = "ERR_RDSH_CLIENT"]
    /\ UNCHANGED <<serverVars, netVars, script, pos, pastVars>>

\* fgets, strip the newline, send strlen() bytes: an empty line sends nothing.
\* What is sent to a server that has closed is lost.
TypeLine(c) ==
    /\ cst[c] = "prompt"
    /\ pos[c] < Len(script[c])
    /\ send[c] # "rst"
    /\ pos' = [pos EXCEPT ![c] = @ + 1]
    /\ up' = [up EXCEPT ![c] =
                 IF script[c][pos'[c]] = "empty" \/ send[c] # "open" THEN @
                 ELSE @ \o Request(pos'[c])]
    /\ cst' = [cst EXCEPT ![c] = "wait"]
    /\ UNCHANGED <<serverVars, down, cend, send, script, outcome, pastVars>>

\* send() on a connection that has been reset.
TypeFails(c) ==
    /\ cst[c] = "prompt"
    /\ pos[c] < Len(script[c])
    /\ send[c] = "rst"
    /\ Cleanup(c, "ERR_RDSH_COMMUNICATION")

\* fgets returns NULL.
EndOfScript(c) ==
    /\ cst[c] = "prompt"
    /\ pos[c] = Len(script[c])
    /\ Cleanup(c, "left")

\* Mutant of ReceiveResponse: whatever arrives is taken for the whole answer.
ReceiveOnce(c) ==
    /\ cst[c] = "wait"
    /\ \E k \in 1 .. Len(down[c]) :
          /\ down' = [down EXCEPT ![c] = SubSeq(@, k + 1, Len(@))]
          /\ cst' = [cst EXCEPT ![c] = "mark"]
    /\ UNCHANGED <<serverVars, up, cend, send, script, pos, outcome, pastVars>>

\* recv() > 0: print it and look at its last byte.
ReceiveResponse(c) ==
    /\ cst[c] = "wait"
    /\ \E k \in 1 .. Len(down[c]) :
          /\ down' = [down EXCEPT ![c] = SubSeq(@, k + 1, Len(@))]
          /\ cst' = [cst EXCEPT ![c] = IF down[c][k] = Eot THEN "mark" ELSE "wait"]
    /\ UNCHANGED <<serverVars, up, cend, send, script, pos, outcome, pastVars>>

\* The receive loop has ended: the next line.
NextLine(c) ==
    /\ cst[c] = "mark"
    /\ script[c][pos[c]] \notin {"exit", "stop"}
    /\ cst' = [cst EXCEPT ![c] = "prompt"]
    /\ UNCHANGED <<serverVars, netVars, script, pos, outcome, pastVars>>

\* A mark has arrived after exit or stop-server, which have none of their own.
Leave(c) ==
    /\ cst[c] = "mark"
    /\ script[c][pos[c]] \in {"exit", "stop"}
    /\ Cleanup(c, "left")

\* recv() = 0: prints RCMD_SERVER_EXITED and returns OK.
ServerExited(c) ==
    /\ cst[c] = "wait"
    /\ down[c] = <<>>
    /\ send[c] = "fin"
    /\ Cleanup(c, "RCMD_SERVER_EXITED")

\* recv() < 0.
ReceiveError(c) ==
    /\ cst[c] = "wait"
    /\ down[c] = <<>>
    /\ send[c] = "rst"
    /\ Cleanup(c, "ERR_RDSH_COMMUNICATION")

Client(c) ==
    \/ Connect(c) \/ ConnectFails(c)
    \/ TypeLine(c) \/ TypeFails(c) \/ EndOfScript(c)
    \/ ReceiveResponse(c) \/ NextLine(c) \/ Leave(c)
    \/ ServerExited(c) \/ ReceiveError(c)

-----------------------------------------------------------------------------
(***************************************************************************)
(* What may go wrong around them.                                          *)
(***************************************************************************)

\* The client process is killed.
Killed(c) ==
    /\ Faults
    /\ cst[c] \in {"prompt", "wait"}
    /\ Cleanup(c, "killed")

\* The reset that the server's bytes to a client that is gone provoke.
ResetArrives(c) ==
    /\ cend[c] = "poked"
    /\ cend' = [cend EXCEPT ![c] = "rst"]
    /\ UNCHANGED <<serverVars, up, down, send, clientVars, pastVars>>
Environment(c) == Killed(c) \/ ResetArrives(c)

\* Every process has come to its end.
Over ==
    /\ \A c \in Clients : cst[c] = "done"
    /\ UNCHANGED vars

Next ==
    \/ Server \/ BootFails \/ AcceptFails \/ NoMemory \/ Corrupted
    \/ \E c \in Clients : Client(c) \/ Environment(c)
    \/ Over

Spec == Init /\ [][Next]_vars

\* The server and the clients are scheduled; a command writes what it has to
\* write and ends; a user goes on typing and then ends the input.
FairSpec == Spec /\ WF_vars(Server) /\ \A c \in Clients : WF_vars(Client(c))

-----------------------------------------------------------------------------
(***************************************************************************)
(* Properties.                                                             *)
(***************************************************************************)
TypeOK ==
    /\ srv \in {"down", "accept", "recv", "parse", "exec", "mark", "stopped"}
    /\ src \in {"none", "OK_EXIT", "ERR_EXEC_CMD", "ERR_RDSH_COMMUNICATION",
                "ERR_MEMORY", "killed"}
    /\ cur \in Clients \cup {NoClient}
    /\ cur = NoClient <=> srv \in {"down", "accept", "stopped"}
    /\ backlog \in Seq(Clients) /\ Len(backlog) <= BACKLOG
    /\ iobuff \in Seq(Nat \X (1 .. Parts))
    /\ iobuff # <<>> <=> srv = "parse"
    /\ pending \in Seq({Data, Eot, Input})
    /\ up \in [Clients -> Seq(Nat \X (1 .. Parts))]
    /\ down \in [Clients -> Seq({Data, Eot})]
    /\ cend \in [Clients -> {"open", "fin", "poked", "rst"}]
    /\ send \in [Clients -> {"open", "fin", "rst"}]
    /\ cst \in [Clients -> {"start", "prompt", "wait", "mark", "done"}]
    /\ script \in [Clients -> Scripts]
    /\ pos \in [Clients -> Nat]
    /\ \A c \in Clients : pos[c] <= Len(script[c])
    /\ outcome \in [Clients -> {"none", "left", "killed", "RCMD_SERVER_EXITED",
                                "ERR_RDSH_CLIENT", "ERR_RDSH_COMMUNICATION"}]
    /\ handled \in [Clients -> Seq(Nat)]
    /\ heard \in [Clients -> Seq(Kinds)]
    /\ memory \in {"sound", "spoilt"}

HeardOf(c) == {heard[c][k] : k \in DOMAIN heard[c]}

\* No command of the session writes RDSH_EOF_CHAR and no request is cut.
Plain(c) == Parts = 1 /\ "binary" \notin HeardOf(c)

\* Some request of the session was not taken for the line that was typed.
Mistaken(c) ==
    Misheard(c) # {} \/ \E k \in DOMAIN handled[c] : handled[c][k] = Garbled

\* The requests of the session reached the server as they were typed, and were
\* lines that fit its arrays and have a command with a name.
Proper(c) ==
    ~Mistaken(c) /\ HeardOf(c) \cap {"rejected", "blank", "wide"} = {}

\* At the prompt the client has seen the whole answer to everything it sent: no
\* byte is on its way in either direction and the server waits for the next
\* request (the mark of send_message_eof against the client's receive loop).
InSync ==
    \A c \in Clients : Plain(c) /\ cst[c] = "prompt" =>
        /\ up[c] = <<>> /\ down[c] = <<>>
        /\ Len(handled[c]) = pos[c]
        /\ cur = c => srv = "recv"

\* The server handles the requests of a session one by one, each once, in the
\* order they were typed, and never a piece of one or two in one.
OnceInOrder ==
    \A c \in Clients : Plain(c) =>
        /\ Len(handled[c]) <= pos[c]
        /\ \A n \in DOMAIN handled[c] : handled[c][n] = n

\* The server returns OK_EXIT only when it was told to stop.  As long as clients
\* ask for proper commands and the parser gets its memory, no command makes it
\* return an error, and nothing kills it but a client that went away with an
\* answer on its way, having been killed or not knowing that it was.
StopHasCause ==
    srv = "stopped" =>
        /\ src = "OK_EXIT" => \E c \in Clients : "stop" \in HeardOf(c)
        /\ (\A c \in Clients : Proper(c)) =>
             /\ src # "ERR_EXEC_CMD"
             /\ src = "killed" =>
                  \E c \in Clients : outcome[c] = "killed" \/ ~Plain(c)

\* A client that is told that the server appeared to terminate has been left by
\* a server that ended, unless its own last line was exit or the server lost
\* words of its line and found an exit in the rest.
NoticeTrue ==
    \A c \in Clients : outcome[c] = "RCMD_SERVER_EXITED" =>
        \/ srv = "stopped"
        \/ script[c][pos[c]] = "exit"
        \/ Mistaken(c) /\ "exit" \in HeardOf(c)

\* Every client comes to its end, though the server serves one at a time and may
\* stop or die while others wait for accept() or for an answer.  The exception:
\* a command that reads its input reads the socket of the client, which waits
\* for the command; unless that client dies, nobody goes on.
StuckOnInput == \E c \in Clients :
    /\ cur = c /\ srv = "exec" /\ pending = <<Input>>
    /\ cst[c] = "wait" /\ "reader" \in HeardOf(c)
SessionEnds == (\A c \in Clients : <>(cst[c] = "done")) \/ <>[]StuckOnInput

-----------------------------------------------------------------------------
(***************************************************************************)
(* What the repository says of the protocol and the code does not do.      *)
(***************************************************************************)

\* rsh_cli.c, 2b: a command is sent "null terminated", so that a line, whatever
\* it holds, reaches the server and the client's wait for the answer ends.
EveryLineAnswered ==
    \A c \in Clients : (cst[c] = "wait") ~> (cst[c] # "wait")

\* readme.md: the receiver collects the stream up to the end-of-stream character,
\* so the server never takes a piece of a request for a request.
RequestsWhole ==
    \A c \in Clients : \A n \in DOMAIN handled[c] : handled[c][n] # Garbled

\* rsh_server.c, exec_client_requests: its loop ends in two ways, exit and
\* stop-server (or with a socket error), so that no other line that a client may
\* type ends the server, for itself and for everybody else.
OnlyStopEnds ==
    srv = "stopped" =>
        \/ src = "ERR_RDSH_COMMUNICATION"
        \/ \E c \in Clients : "stop" \in HeardOf(c)
=============================================================================
