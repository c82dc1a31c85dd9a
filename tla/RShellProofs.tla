---------------------------- MODULE RShellProofs ----------------------------
(***************************************************************************)
(* Safety of RShell for any number of clients, any scripts, any backlog    *)
(* and requests cut in any way.  The inductive invariant follows the       *)
(* conversation of one client with the server: where its request is (on    *)
(* its way, in io_buff, executing, answered), what the client has seen of  *)
(* the answer, and what either side may therefore still do.  From it       *)
(* follow that requests are handled once and in order, that a client at    *)
(* its prompt is in step, that the server ends for a reason, and that a    *)
(* client is told the truth about a server that closed the connection.     *)
(***************************************************************************)
EXTENDS RShell, SequenceTheorems, TLAPS

\* What handled requests have left is mentioned by every action.
USE DEF pastVars

Live(c) == cst[c] \in {"prompt", "wait", "mark"}

InBacklog(c) == \E k \in DOMAIN backlog : backlog[k] = c

\* The server may still read from or write to c.
Reachable(c) == cur = c \/ InBacklog(c)

\* A client waits for accept() at most once.
BacklogInv == \A j, k \in DOMAIN backlog : backlog[j] = backlog[k] => j = k

\* The server holds the socket of a client from its connect to the close; it has
\* done nothing for the client before the accept, nor has the client before its
\* connect.
QueueInv(c) ==
    /\ InBacklog(c) => cur # c /\ handled[c] = <<>> /\ down[c] = <<>>
    /\ Reachable(c) => send[c] = "open" /\ cst[c] # "start"
    /\ Live(c) /\ send[c] = "open" => Reachable(c)
    /\ cst[c] = "start" => /\ up[c] = <<>> /\ down[c] = <<>> /\ send[c] = "open"
                           /\ handled[c] = <<>> /\ pos[c] = 0

\* The client's end is open as long as it lives; a line that ends a session
\* is its last one.
ClientInv(c) ==
    /\ cst[c] \in {"start", "prompt", "wait", "mark"} =>
          cend[c] = "open" /\ outcome[c] = "none"
    /\ cst[c] \in {"wait", "mark"} => pos[c] > 0
    /\ \A n \in 1 .. pos[c] :
          script[c][n] \in {"exit", "stop"} => n = pos[c] /\ cst[c] # "prompt"

\* Every cell on its way belongs to a request that was sent, and every
\* request handled was one of them.
CellsInv(c) ==
    /\ \A k \in DOMAIN up[c] : up[c][k][1] \in 1 .. pos[c]
    /\ cur = c => \A k \in DOMAIN iobuff : iobuff[k][1] \in 1 .. pos[c]
    /\ \A k \in DOMAIN handled[c] : handled[c][k] \in 0 .. pos[c]
    /\ Len(heard[c]) = Len(handled[c])

\* In a plain session, at most the last request is unhandled, and it is in one
\* place only.
RequestInv(c) ==
    /\ \A n \in DOMAIN handled[c] : handled[c][n] = n
    /\ Len(handled[c]) \in {pos[c] - 1, pos[c]}
    /\ up[c] # <<>> =>
          /\ up[c] = Request(pos[c]) /\ Len(handled[c]) = pos[c] - 1
          /\ cur = c => srv = "recv"
    /\ cur = c /\ srv = "parse" =>
          iobuff = Request(pos[c]) /\ Len(handled[c]) = pos[c] - 1
    /\ cur = c /\ srv = "exec" => \A k \in DOMAIN pending : pending[k] # Eot

\* What c sent last has been answered, and c has seen all of it.
AtRest(c) ==
    /\ up[c] = <<>> /\ down[c] = <<>>
    /\ Len(handled[c]) = pos[c]
    /\ cur = c => srv = "recv"

\* The four places of a request whose client waits.
Asked(c)    == /\ Len(handled[c]) = pos[c] - 1 /\ down[c] = <<>>
               /\ cur = c => srv \in {"recv", "parse"}
Executed(c) == /\ Len(handled[c]) = pos[c] /\ up[c] = <<>>
               /\ cur = c /\ srv \in {"exec", "mark"}
               /\ \A k \in DOMAIN down[c] : down[c][k] # Eot
Marked(c)   == /\ Len(handled[c]) = pos[c] /\ up[c] = <<>>
               /\ cur = c => srv = "recv"
               /\ down[c] # <<>>
               /\ \A k \in DOMAIN down[c] : down[c][k] = Eot <=> k = Len(down[c])
Closed(c)   == /\ Len(handled[c]) = pos[c] /\ up[c] = <<>> /\ down[c] = <<>>
               /\ ~Reachable(c)

TalkInv(c) ==
    /\ cst[c] \in {"prompt", "mark"} => AtRest(c)
    /\ cst[c] = "wait" => Asked(c) \/ Executed(c) \/ Marked(c) \/ Closed(c)
    \* The server is at work for a client that is gone only if it was killed.
    /\ cst[c] = "done" /\ Reachable(c)
         /\ (up[c] # <<>> \/ (cur = c /\ srv \in {"parse", "exec", "mark"})) =>
          outcome[c] = "killed"

\* The server took a line of c for an exit: the last one, which is one, or a line
\* that reached it as something else.
Excused(c) ==
    \/ pos[c] > 0 /\ script[c][pos[c]] = "exit"
    \/ Mistaken(c) /\ "exit" \in HeardOf(c)

\* A client that lives and finds the connection closed by a running server has
\* been taken to say exit.
NoticeInv(c) ==
    /\ Live(c) /\ send[c] = "fin" /\ srv # "stopped" => Excused(c)
    /\ outcome[c] = "RCMD_SERVER_EXITED" =>
          cst[c] = "done" /\ (srv = "stopped" \/ Excused(c))

SessionInv(c) ==
    /\ QueueInv(c) /\ ClientInv(c) /\ CellsInv(c) /\ NoticeInv(c)
    /\ Plain(c) => RequestInv(c) /\ TalkInv(c)

\* Only a command that is too wide has spoilt the heap.
MemoryInv == memory = "spoilt" => \E c \in Clients : "wide" \in HeardOf(c)

IInv ==
    /\ TypeOK
    /\ BacklogInv
    /\ \A c \in Clients : SessionInv(c)
    /\ MemoryInv
    /\ StopHasCause

-----------------------------------------------------------------------------
(***************************************************************************)
(* Requests, outputs and the other operators of RShell.                    *)
(***************************************************************************)
Cells == Nat \X (1 .. Parts)

LEMMA PartsNat == Parts \in Nat /\ Parts >= 1
BY BoundsAssumption

LEMMA RequestProperties ==
    ASSUME NEW n \in Nat
    PROVE  /\ Request(n) \in Seq(Cells) /\ Request(n) # <<>>
           /\ Len(Request(n)) = Parts /\ DOMAIN Request(n) = 1 .. Parts
           /\ \A p \in 1 .. Parts : Request(n)[p] = <<n, p>>
           /\ Parsed(Request(n)) = n
<1>1. \A p \in 1 .. Parts : <<n, p>> \in Cells
  BY DEF Cells
<1>2. Request(n) \in [1 .. Parts -> Cells]
  BY <1>1 DEF Request
<1>3. /\ Request(n) \in Seq(Cells) /\ Len(Request(n)) = Parts
      /\ DOMAIN Request(n) = 1 .. Parts
  BY <1>2, PartsNat
<1>4. \A p \in 1 .. Parts : Request(n)[p] = <<n, p>>
  BY DEF Request
<1>5. Request(n)[1][1] = n
  BY <1>4, PartsNat
<1> QED
  BY <1>3, <1>4, <1>5, PartsNat DEF Parsed

LEMMA ParsedProperties ==
    ASSUME NEW buff \in Seq(Cells), buff # <<>>
    PROVE  /\ Parsed(buff) \in {Garbled, buff[1][1]}
           /\ buff[1][1] \in Nat /\ Parsed(buff) \in Nat
<1>1. 1 \in 1 .. Len(buff)
  BY EmptySeq
<1>2. buff[1] \in Cells
  BY <1>1, ElementOfSeq
<1> QED
  BY <1>2 DEF Parsed, Garbled, Cells

LEMMA OutputsProperties ==
    ASSUME NEW kind, NEW out \in Outputs(kind)
    PROVE  /\ out \in Seq({Data, Eot, Input})
           /\ kind # "binary" => \A k \in DOMAIN out : out[k] # Eot
<1>1. CASE kind = "reader"
  <2>1. out = <<Input>>
    BY <1>1 DEF Outputs
  <2> QED
    BY <2>1 DEF Data, Eot, Input
<1>2. CASE kind # "reader"
  <2>1. CASE out \in {[x \in 1 .. n |-> Data] : n \in 0 .. MaxOut}
    <3>1. PICK n \in 0 .. MaxOut : out = [x \in 1 .. n |-> Data]
      BY <2>1
    <3> QED
      BY <3>1, BoundsAssumption DEF Data, Eot
  <2>2. CASE kind = "binary" /\ out \in {<<Eot>>, <<Eot, Data>>}
    <3>1. <<Eot>> \in Seq({Data, Eot, Input}) /\ <<Eot, Data>> \in Seq({Data, Eot, Input})
      OBVIOUS
    <3> QED
      BY <2>2, <3>1
  <2> QED
    BY <1>2, <2>1, <2>2 DEF Outputs
<1> QED
  BY <1>1, <1>2

-----------------------------------------------------------------------------
(***************************************************************************)
(* Types.                                                                  *)
(***************************************************************************)
\* A line of a script.
LEMMA ScriptLine ==
    ASSUME TypeOK, NEW c \in Clients
    PROVE  script[c] \in Seq(Kinds) /\ Len(script[c]) \in Nat /\ pos[c] \in Nat
BY ScriptsAssumption DEF TypeOK

\* The types of what handled requests leave.
PastTypeOK ==
    /\ handled \in [Clients -> Seq(Nat)]
    /\ heard \in [Clients -> Seq(Kinds)]
    /\ memory \in {"sound", "spoilt"}

LEMMA StopType ==
    ASSUME TypeOK, NEW reason, Stop(reason), PastTypeOK',
           reason \in {"OK_EXIT", "ERR_EXEC_CMD", "ERR_RDSH_COMMUNICATION",
                       "ERR_MEMORY", "killed"}
    PROVE  TypeOK'
<1>1. send' \in [Clients -> {"open", "fin", "rst"}]
  BY DEF TypeOK, Stop, Closing
<1>2. /\ backlog' \in Seq(Clients) /\ Len(backlog') <= BACKLOG
      /\ iobuff' = <<>> /\ iobuff' \in Seq(Nat \X (1 .. Parts))
      /\ pending' \in Seq({Data, Eot, Input})
  BY BoundsAssumption DEF Stop
<1> QED
  BY <1>1, <1>2, ClientsAssumption DEF TypeOK, PastTypeOK, Stop, clientVars

LEMMA NextClientType ==
    ASSUME TypeOK, NextClient, PastTypeOK'
    PROVE  TypeOK'
<1>1. send' \in [Clients -> {"open", "fin", "rst"}]
  BY DEF TypeOK, NextClient, Closing
<1>2. iobuff' = <<>> /\ iobuff' \in Seq(Nat \X (1 .. Parts))
  BY DEF NextClient
<1> QED
  BY <1>1, <1>2, ClientsAssumption DEF TypeOK, PastTypeOK, NextClient, clientVars

LEMMA HandleType ==
    ASSUME TypeOK, NEW kind \in Kinds, Handle(kind)
    PROVE  /\ PastTypeOK' /\ cur \in Clients
           /\ Parsed(iobuff) \in Nat /\ iobuff \in Seq(Cells) /\ iobuff # <<>>
<1>1. cur \in Clients /\ iobuff \in Seq(Cells) /\ iobuff # <<>>
  BY DEF TypeOK, Handle, Cells
<1>2. Parsed(iobuff) \in Nat
  BY <1>1, ParsedProperties
<1>3. handled' \in [Clients -> Seq(Nat)] /\ heard' \in [Clients -> Seq(Kinds)]
  BY <1>1, <1>2 DEF Handle, TypeOK
<1> QED
  BY <1>1, <1>2, <1>3 DEF Handle, TypeOK, PastTypeOK

\* Each action handles a request as one kind.
LEMMA HandleKinds ==
    ASSUME Execute \/ NoCommand \/ ExitCommand \/ StopCommand \/ Reject \/ Crash
    PROVE  srv = "parse" /\ \E kind \in Kinds : Handle(kind)
BY DEF Execute, NoCommand, ExitCommand, StopCommand, Reject, Crash, Handle, Kinds

LEMMA SentType ==
    ASSUME TypeOK, cur \in Clients, NEW x \in {Data, Eot}, Sent(<<x>>)
    PROVE  /\ down' \in [Clients -> Seq({Data, Eot})]
           /\ cend' \in [Clients -> {"open", "fin", "poked", "rst"}]
<1>1. down[cur] \o <<x>> \in Seq({Data, Eot})
  BY DEF TypeOK
<1> QED
  BY <1>1 DEF Sent, TypeOK

LEMMA CleanupType ==
    ASSUME TypeOK, NEW c \in Clients, NEW how, Cleanup(c, how),
           how \in {"left", "killed", "RCMD_SERVER_EXITED", "ERR_RDSH_COMMUNICATION"}
    PROVE  TypeOK'
BY DEF TypeOK, Cleanup, serverVars

LEMMA ServerType == TypeOK /\ Server => TypeOK'
<1> SUFFICES ASSUME TypeOK, Server PROVE TypeOK'
  OBVIOUS
<1> USE DEF netVars, clientVars
<1>1. CASE Boot
  BY <1>1 DEF Boot, TypeOK
<1>2. CASE Accept
  <2>1. Head(backlog) \in Clients /\ Tail(backlog) \in Seq(Clients)
        /\ Len(Tail(backlog)) <= BACKLOG
    BY <1>2, HeadTailProperties, BoundsAssumption DEF Accept, TypeOK
  <2> QED
    BY <1>2, <2>1, ClientsAssumption DEF Accept, TypeOK
<1>3. CASE Receive
  <2>0. cur \in Clients /\ up[cur] \in Seq(Cells)
    BY <1>3 DEF Receive, TypeOK, Cells
  <2>1. PICK k \in 1 .. Len(up[cur]) :
           /\ iobuff' = SubSeq(up[cur], 1, k)
           /\ up' = [up EXCEPT ![cur] = SubSeq(@, k + 1, Len(@))]
    BY <1>3 DEF Receive
  <2>2. /\ iobuff' \in Seq(Cells) /\ iobuff' # <<>>
        /\ SubSeq(up[cur], k + 1, Len(up[cur])) \in Seq(Cells)
    BY <2>0, <2>1
  <2>3. up' \in [Clients -> Seq(Cells)]
    BY <2>1, <2>2 DEF TypeOK, Cells
  <2> QED
    BY <1>3, <2>0, <2>2, <2>3 DEF Receive, TypeOK, Cells
<1>4. CASE ReceiveNothing
  BY <1>4, NextClientType DEF ReceiveNothing, TypeOK, PastTypeOK
<1>5. CASE ReceiveFails
  BY <1>5, StopType DEF ReceiveFails, TypeOK, PastTypeOK
<1>6. CASE Execute
  <2>1. PICK kind \in Kinds : Handle(kind) /\ pending' \in Outputs(kind)
    BY <1>6 DEF Execute, Kinds
  <2>2. pending' \in Seq({Data, Eot, Input})
    BY <2>1, OutputsProperties
  <2>3. PastTypeOK' /\ cur \in Clients /\ iobuff' = <<>>
        /\ iobuff' \in Seq(Nat \X (1 .. Parts))
    BY <1>6, <2>1, HandleType DEF Execute
  <2> QED
    BY <1>6, <2>2, <2>3, ClientsAssumption DEF Execute, TypeOK, PastTypeOK
<1>7. CASE NoCommand
  <2>1. PastTypeOK' /\ cur \in Clients /\ iobuff' = <<>>
        /\ iobuff' \in Seq(Nat \X (1 .. Parts))
    BY <1>7, HandleType DEF NoCommand, Kinds
  <2> QED
    BY <1>7, <2>1, ClientsAssumption DEF NoCommand, TypeOK, PastTypeOK
<1>8. CASE ExitCommand
  BY <1>8, HandleType, NextClientType DEF ExitCommand, Kinds
<1>9. CASE StopCommand \/ Reject \/ Crash
  <2>1. PastTypeOK'
    BY <1>9, HandleType DEF StopCommand, Reject, Crash, Kinds
  <2> QED
    BY <1>9, <2>1, StopType DEF StopCommand, Reject, Crash
<1>12. CASE CommandWrites
  <2>1. /\ cur \in Clients /\ Head(pending) \in {Data, Eot}
        /\ Tail(pending) \in Seq({Data, Eot, Input})
    BY <1>12, HeadTailProperties DEF CommandWrites, TypeOK
  <2> QED
    BY <1>12, <2>1, SentType DEF CommandWrites, TypeOK
<1>13. CASE CommandReads
  <2>1. cur \in Clients
    BY <1>13 DEF CommandReads, TypeOK
  <2> QED
    BY <1>13, <2>1, SentType DEF CommandReads, TypeOK
<1>14. CASE CommandInputEnds \/ CommandCutOff \/ CommandEnds
  <2>1. CASE CommandInputEnds
    BY <2>1 DEF CommandInputEnds, TypeOK
  <2>2. CASE CommandCutOff
    BY <2>2 DEF CommandCutOff, TypeOK
  <2>3. CASE CommandEnds
    BY <2>3 DEF CommandEnds, TypeOK
  <2> QED
    BY <1>14, <2>1, <2>2, <2>3
<1>15. CASE SendEof
  <2>1. cur \in Clients
    BY <1>15 DEF SendEof, TypeOK
  <2> QED
    BY <1>15, <2>1, SentType DEF SendEof, TypeOK
<1>16. CASE SendEofFails
  BY <1>16, StopType DEF SendEofFails, TypeOK, PastTypeOK
<1> QED
  BY <1>1, <1>2, <1>3, <1>4, <1>5, <1>6, <1>7, <1>8, <1>9, <1>12,
     <1>13, <1>14, <1>15, <1>16 DEF Server

LEMMA ClientType ==
    ASSUME TypeOK, NEW c \in Clients, Client(c) \/ Environment(c)
    PROVE  TypeOK'
<1> USE DEF serverVars, netVars, clientVars
<1>1. CASE Connect(c)
  <2>1. Append(backlog, c) \in Seq(Clients) /\ Len(Append(backlog, c)) <= BACKLOG
    BY <1>1, BoundsAssumption DEF Connect, TypeOK
  <2> QED
    BY <1>1, <2>1 DEF Connect, TypeOK
<1>2. CASE ConnectFails(c)
  BY <1>2 DEF ConnectFails, TypeOK
<1>3. CASE TypeLine(c)
  <2>1. pos[c] \in Nat /\ Len(script[c]) \in Nat /\ pos[c] + 1 <= Len(script[c])
    BY <1>3, ScriptLine DEF TypeLine
  <2>2. pos' \in [Clients -> Nat] /\ pos'[c] \in Nat
        /\ \A d \in Clients : pos'[d] <= Len(script'[d])
    <3>0. pos \in [Clients -> Nat] /\ pos' = [pos EXCEPT ![c] = pos[c] + 1]
      BY <1>3 DEF TypeLine, TypeOK
    <3>1. pos' \in [Clients -> Nat] /\ pos'[c] = pos[c] + 1
      BY <2>1, <3>0
    <3>2. \A d \in Clients : d # c => pos'[d] = pos[d] /\ pos[d] <= Len(script[d])
      BY <1>3 DEF TypeLine, TypeOK
    <3> QED
      BY <1>3, <2>1, <3>1, <3>2 DEF TypeLine
  <2>3. up[c] \o Request(pos'[c]) \in Seq(Cells) /\ up[c] \in Seq(Cells)
    <3>1. Request(pos'[c]) \in Seq(Cells)
      BY <2>2, RequestProperties
    <3>2. up[c] \in Seq(Cells)
      BY DEF TypeOK, Cells
    <3> QED
      BY <3>1, <3>2, ConcatProperties
  <2>4. up' \in [Clients -> Seq(Cells)]
    BY <1>3, <2>3 DEF TypeLine, TypeOK, Cells
  <2> QED
    BY <1>3, <2>2, <2>4 DEF TypeLine, TypeOK, Cells
<1>4. CASE TypeFails(c) \/ EndOfScript(c) \/ Leave(c) \/ ServerExited(c)
           \/ ReceiveError(c) \/ Killed(c)
  BY <1>4, CleanupType DEF TypeFails, EndOfScript, Leave, ServerExited,
                           ReceiveError, Killed
<1>5. CASE ReceiveResponse(c)
  <2>1. PICK k \in 1 .. Len(down[c]) :
           /\ down' = [down EXCEPT ![c] = SubSeq(@, k + 1, Len(@))]
           /\ cst' = [cst EXCEPT ![c] = IF down[c][k] = Eot THEN "mark" ELSE "wait"]
    BY <1>5 DEF ReceiveResponse
  <2>0. down[c] \in Seq({Data, Eot})
    BY DEF TypeOK
  <2>2. SubSeq(down[c], k + 1, Len(down[c])) \in Seq({Data, Eot})
    BY <2>0
  <2> QED
    BY <1>5, <2>1, <2>2 DEF ReceiveResponse, TypeOK
<1>6. CASE NextLine(c)
  BY <1>6 DEF NextLine, TypeOK
<1>7. CASE ResetArrives(c)
  BY <1>7 DEF ResetArrives, TypeOK
<1> QED
  BY <1>1, <1>2, <1>3, <1>4, <1>5, <1>6, <1>7 DEF Client, Environment

-----------------------------------------------------------------------------
(***************************************************************************)
(* A step that does not concern a client leaves its session as it was.     *)
(***************************************************************************)
LEMMA PlainSame ==
    ASSUME NEW c \in Clients, heard'[c] = heard[c]
    PROVE  Plain(c)' = Plain(c)
BY DEF Plain, HeardOf

LEMMA MistakenSame ==
    ASSUME NEW c \in Clients, heard'[c] = heard[c], handled'[c] = handled[c],
           script' = script
    PROVE  Mistaken(c)' = Mistaken(c) /\ HeardOf(c)' = HeardOf(c)
BY DEF Mistaken, Misheard, HeardOf

\* The variables of c itself but for send, which Stop changes.
Idle(c) ==
    /\ up'[c] = up[c] /\ down'[c] = down[c] /\ cend'[c] = cend[c]
    /\ cst'[c] = cst[c] /\ script' = script /\ pos'[c] = pos[c]
    /\ outcome'[c] = outcome[c]
    /\ handled'[c] = handled[c] /\ heard'[c] = heard[c]
    /\ srv = "stopped" => srv' = "stopped"

\* The server's variables, as far as they are about c.
Unserved(c) ==
    /\ cur' = c <=> cur = c
    /\ cur = c => srv' = srv /\ iobuff' = iobuff /\ pending' = pending
    /\ \/ send'[c] = send[c] /\ InBacklog(c)' = InBacklog(c)
       \/ /\ srv' = "stopped" /\ cur' # c /\ ~InBacklog(c)'
          /\ cst[c] # "start" /\ send'[c] # "open"

LEMMA SessionFrame ==
    ASSUME NEW c \in Clients, SessionInv(c), Idle(c), Unserved(c)
    PROVE  SessionInv(c)'
<1> USE DEF Idle, Unserved
<1>1. Plain(c)' = Plain(c)
  BY PlainSame
<1>2. (Reachable(c)' => Reachable(c)) /\ Live(c)' = Live(c)
  BY DEF Reachable, Live
<1>3. QueueInv(c)'
  BY <1>2 DEF SessionInv, QueueInv, Reachable
<1>4. ClientInv(c)'
  BY DEF SessionInv, ClientInv
<1>5. CellsInv(c)'
  BY DEF SessionInv, CellsInv
<1>6. NoticeInv(c)'
  BY <1>2, MistakenSame DEF SessionInv, NoticeInv, Excused
<1>7. ASSUME Plain(c)' PROVE RequestInv(c)'
  BY <1>1, <1>7 DEF SessionInv, RequestInv, Request
<1>8. ASSUME Plain(c)' PROVE TalkInv(c)'
  <2>1. TalkInv(c)
    BY <1>1, <1>8 DEF SessionInv
  <2>2. AtRest(c) => AtRest(c)'
    BY DEF AtRest
  <2>3. (Asked(c) => Asked(c)') /\ (Executed(c) => Executed(c)')
    BY DEF Asked, Executed
  <2>4. (Marked(c) => Marked(c)') /\ (Closed(c) => Closed(c)')
    BY <1>2 DEF Marked, Closed
  <2> QED
    BY <1>2, <2>1, <2>2, <2>3, <2>4 DEF TalkInv
<1> QED
  BY <1>3, <1>4, <1>5, <1>6, <1>7, <1>8 DEF SessionInv

\* A step after which the server still runs, or that happens after its end,
\* leaves the cause of the end as it was.
LEMMA CauseFrame ==
    ASSUME StopHasCause,
           \/ srv' # "stopped"
           \/ /\ UNCHANGED <<srv, src, handled, heard, script>>
              /\ \A c \in Clients : outcome[c] = "killed" => outcome'[c] = "killed"
    PROVE  StopHasCause'
<1>1. CASE srv' # "stopped"
  BY <1>1 DEF StopHasCause
<1>2. CASE /\ UNCHANGED <<srv, src, handled, heard, script>>
           /\ \A c \in Clients : outcome[c] = "killed" => outcome'[c] = "killed"
  <2>1. \A c \in Clients : /\ Mistaken(c)' = Mistaken(c) /\ HeardOf(c)' = HeardOf(c)
                           /\ Plain(c)' = Plain(c)
    BY <1>2, MistakenSame, PlainSame
  <2>2. \A c \in Clients : Proper(c)' = Proper(c)
    BY <2>1 DEF Proper
  <2> QED
    BY <1>2, <2>1, <2>2 DEF StopHasCause
<1> QED
  BY <1>1, <1>2

\* So do steps that handle no request with what the heap has met.
LEMMA MemoryFrame ==
    ASSUME MemoryInv, memory' = memory, heard' = heard
    PROVE  MemoryInv'
BY DEF MemoryInv, HeardOf

-----------------------------------------------------------------------------
(***************************************************************************)
(* Handling a request.                                                     *)
(***************************************************************************)
\* The new entry of the history of the session that is served.
LEMMA HandlePast ==
    ASSUME TypeOK, NEW s \in Clients, cur = s, NEW kind \in Kinds, Handle(kind),
           Len(heard[s]) = Len(handled[s])
    PROVE  /\ \A c \in Clients : c # s => handled'[c] = handled[c] /\ heard'[c] = heard[c]
           /\ Len(handled[s]) \in Nat
           /\ Len(heard'[s]) = Len(handled[s]) + 1
           /\ Len(handled'[s]) = Len(handled[s]) + 1
           /\ DOMAIN handled[s] = 1 .. Len(handled[s])
           /\ DOMAIN handled'[s] = 1 .. Len(handled[s]) + 1
           /\ DOMAIN heard[s] = 1 .. Len(handled[s])
           /\ DOMAIN heard'[s] = 1 .. Len(handled[s]) + 1
           /\ \A k \in 1 .. Len(handled[s]) :
                 handled'[s][k] = handled[s][k] /\ heard'[s][k] = heard[s][k]
           /\ handled'[s][Len(handled[s]) + 1] = Parsed(iobuff)
           /\ heard'[s][Len(handled[s]) + 1] = kind
           /\ HeardOf(s)' = HeardOf(s) \cup {kind}
<1>1. handled[s] \in Seq(Nat) /\ heard[s] \in Seq(Kinds) /\ Parsed(iobuff) \in Nat
  BY HandleType DEF TypeOK
<1>2. /\ handled'[s] = Append(handled[s], Parsed(iobuff))
      /\ heard'[s] = Append(heard[s], kind)
      /\ \A c \in Clients : c # s => handled'[c] = handled[c] /\ heard'[c] = heard[c]
  BY DEF Handle, TypeOK
<1>3. /\ Len(handled'[s]) = Len(handled[s]) + 1 /\ Len(handled[s]) \in Nat
      /\ DOMAIN handled[s] = 1 .. Len(handled[s])
      /\ DOMAIN handled'[s] = 1 .. Len(handled[s]) + 1
      /\ \A k \in 1 .. Len(handled[s]) : handled'[s][k] = handled[s][k]
      /\ handled'[s][Len(handled[s]) + 1] = Parsed(iobuff)
  BY <1>1, <1>2, AppendProperties, LenProperties
<1>4. /\ Len(heard'[s]) = Len(heard[s]) + 1
      /\ DOMAIN heard[s] = 1 .. Len(heard[s])
      /\ DOMAIN heard'[s] = 1 .. Len(heard[s]) + 1
      /\ \A k \in 1 .. Len(heard[s]) : heard'[s][k] = heard[s][k]
      /\ heard'[s][Len(heard[s]) + 1] = kind
  BY <1>1, <1>2, AppendProperties, LenProperties
<1>5. HeardOf(s)' = HeardOf(s) \cup {kind}
  <2> DEFINE n == Len(heard[s])
  <2>1. \A x : x \in HeardOf(s)' <=> \E k \in 1 .. n + 1 : x = heard'[s][k]
    BY <1>4 DEF HeardOf
  <2>2. \A x : x \in HeardOf(s) <=> \E k \in 1 .. n : x = heard[s][k]
    BY <1>4 DEF HeardOf
  <2>3. n \in Nat /\ heard'[s][n + 1] = kind
        /\ \A k \in 1 .. n : heard'[s][k] = heard[s][k]
    BY <1>3, <1>4
  <2>4. \A x : x \in HeardOf(s)' <=> x \in HeardOf(s) \/ x = kind
    <3> HIDE DEF n
    <3>1. 1 .. n + 1 = 1 .. n \cup {n + 1}
      BY <2>3
    <3> QED
      BY <2>1, <2>2, <2>3, <3>1
  <2> QED
    BY <2>4
<1> QED
  BY <1>2, <1>3, <1>4, <1>5

\* A request that was not the line typed makes the session a mistaken one, and a
\* mistaken session remains one.
LEMMA HandleMistaken ==
    ASSUME TypeOK, NEW s \in Clients, cur = s, NEW kind \in Kinds, Handle(kind),
           Len(heard[s]) = Len(handled[s]), script' = script
    PROVE  /\ Mistaken(s) => Mistaken(s)'
           /\ Parsed(iobuff) = Garbled \/ kind # script[s][Parsed(iobuff)] => Mistaken(s)'
<1>1. ASSUME Mistaken(s) PROVE Mistaken(s)'
  <2>1. PICK k \in DOMAIN handled[s] :
           handled[s][k] = Garbled \/ heard[s][k] # script[s][handled[s][k]]
    BY <1>1 DEF Mistaken, Misheard
  <2>2. /\ k \in DOMAIN handled'[s]
        /\ handled'[s][k] = handled[s][k] /\ heard'[s][k] = heard[s][k]
    BY <2>1, HandlePast
  <2> QED
    BY <2>1, <2>2 DEF Mistaken, Misheard
<1>2. ASSUME Parsed(iobuff) = Garbled \/ kind # script[s][Parsed(iobuff)]
      PROVE  Mistaken(s)'
  <2> DEFINE k == Len(handled[s]) + 1
  <2>1. k \in DOMAIN handled'[s] /\ handled'[s][k] = Parsed(iobuff) /\ heard'[s][k] = kind
    BY HandlePast
  <2>2. handled'[s][k] = Garbled \/ heard'[s][k] # script'[s][handled'[s][k]]
    BY <1>2, <2>1
  <2> QED
    BY <2>1, <2>2 DEF Mistaken, Misheard
<1> QED
  BY <1>1, <1>2

\* Handling a request takes no excuse away.
LEMMA HandleExcused ==
    ASSUME IInv, NEW s \in Clients, cur = s, NEW kind \in Kinds, Handle(kind),
           script' = script, pos' = pos
    PROVE  Excused(s) => Excused(s)'
<1>1. TypeOK /\ Len(heard[s]) = Len(handled[s])
  BY DEF IInv, SessionInv, CellsInv
<1>2. HeardOf(s) \subseteq HeardOf(s)' /\ (Mistaken(s) => Mistaken(s)')
  BY <1>1, HandlePast, HandleMistaken
<1> QED
  BY <1>2 DEF Excused

\* Handling a request spoils the heap only if it was too wide.
LEMMA HandleMemory ==
    ASSUME IInv, NEW s \in Clients, cur = s, NEW kind \in Kinds, Handle(kind)
    PROVE  MemoryInv'
<1>1. TypeOK /\ Len(heard[s]) = Len(handled[s]) /\ MemoryInv
  BY DEF IInv, SessionInv, CellsInv
<1>2. HeardOf(s)' = HeardOf(s) \cup {kind}
      /\ \A c \in Clients : c # s => heard'[c] = heard[c]
  BY <1>1, HandlePast
<1>3. \A c \in Clients : HeardOf(c) \subseteq HeardOf(c)'
  BY <1>2 DEF HeardOf
<1>4. memory' = "spoilt" => kind = "wide" \/ memory = "spoilt"
  BY DEF Handle
<1> QED
  BY <1>1, <1>2, <1>3, <1>4 DEF MemoryInv

-----------------------------------------------------------------------------
(***************************************************************************)
(* The server's steps, but for those that end it or a session.             *)
(***************************************************************************)
\* The backlog as a set.
LEMMA BacklogProperties ==
    ASSUME TypeOK
    PROVE  /\ DOMAIN backlog = 1 .. Len(backlog) /\ Len(backlog) \in Nat
           /\ \A k \in DOMAIN backlog : backlog[k] \in Clients
           /\ cur # NoClient => cur \in Clients
BY DEF TypeOK

\* What is left to show of a step of the server for its client: that
\* client's session.
LEMMA ServeStep ==
    ASSUME IInv, TypeOK', NEW s \in Clients, cur = s,
           backlog' = backlog, cur' \in {s, NoClient}, srv' # "stopped",
           \A c \in Clients : c # s => Idle(c) /\ send'[c] = send[c],
           SessionInv(s)',
           UNCHANGED pastVars \/ \E kind \in Kinds : Handle(kind)
    PROVE  IInv'
<1>1. BacklogInv'
  BY DEF IInv, BacklogInv
<1>2. ASSUME NEW c \in Clients, c # s PROVE SessionInv(c)'
  BY <1>2, ClientsAssumption, SessionFrame DEF IInv, Unserved, InBacklog
<1>3. StopHasCause'
  BY DEF StopHasCause
<1>4. MemoryInv'
  BY MemoryFrame, HandleMemory DEF IInv
<1> QED
  BY <1>1, <1>2, <1>3, <1>4 DEF IInv

LEMMA BootStep == IInv /\ Boot => IInv'
<1> SUFFICES ASSUME IInv, Boot PROVE IInv'
  OBVIOUS
<1>1. TypeOK'
  BY ServerType DEF IInv, Server
<1>2. ASSUME NEW c \in Clients PROVE SessionInv(c)'
  BY <1>2, ClientsAssumption, SessionFrame
     DEF IInv, Boot, Idle, Unserved, InBacklog, netVars, clientVars, TypeOK
<1>3. MemoryInv'
  BY MemoryFrame DEF IInv, Boot
<1> QED
  BY <1>1, <1>2, <1>3 DEF IInv, Boot, BacklogInv, StopHasCause

LEMMA AcceptStep == IInv /\ Accept => IInv'
<1> SUFFICES ASSUME IInv, Accept PROVE IInv'
  OBVIOUS
<1>1. TypeOK'
  BY ServerType DEF IInv, Server
<1>0. backlog \in Seq(Clients) /\ backlog # <<>> /\ cur = NoClient
  BY DEF IInv, Accept, TypeOK
<1>2. PICK h \in Clients :
         /\ cur' = h /\ h = backlog[1] /\ 1 \in DOMAIN backlog
         /\ \A k \in DOMAIN backlog' : /\ k + 1 \in DOMAIN backlog /\ k \in Nat \ {0}
                                      /\ backlog'[k] = backlog[k + 1]
         /\ \A k \in DOMAIN backlog : k # 1 => /\ k - 1 \in DOMAIN backlog'
                                              /\ backlog'[k - 1] = backlog[k]
  <2>1. Len(backlog) \in Nat \ {0} /\ DOMAIN backlog = 1 .. Len(backlog)
    BY <1>0, EmptySeq
  <2>2. /\ Tail(backlog) \in Seq(Clients) /\ Len(Tail(backlog)) = Len(backlog) - 1
        /\ DOMAIN Tail(backlog) = 1 .. Len(backlog) - 1
        /\ \A k \in 1 .. Len(Tail(backlog)) : Tail(backlog)[k] = backlog[k + 1]
    BY <1>0, HeadTailProperties, LenProperties
  <2>3. Head(backlog) = backlog[1] /\ backlog[1] \in Clients
    BY <1>0, <2>1
  <2>4. backlog' = Tail(backlog) /\ cur' = Head(backlog)
    BY DEF Accept
  <2> QED
    BY <2>1, <2>2, <2>3, <2>4
<1>3. BacklogInv'
  BY <1>2 DEF IInv, BacklogInv
<1>4. ~InBacklog(h)' /\ InBacklog(h)
  BY <1>2 DEF IInv, BacklogInv, InBacklog
<1>5. ASSUME NEW c \in Clients, c # h PROVE SessionInv(c)'
  <2>0. c # h
    BY <1>5
  <2>1. ASSUME InBacklog(c) PROVE InBacklog(c)'
    <3>1. PICK k \in DOMAIN backlog : backlog[k] = c
      BY <2>1 DEF InBacklog
    <3>2. k - 1 \in DOMAIN backlog' /\ backlog'[k - 1] = c
      BY <1>2, <3>1, <2>0
    <3> QED
      BY <3>2 DEF InBacklog
  <2>2. InBacklog(c)' => InBacklog(c)
    BY <1>2 DEF InBacklog
  <2>3. Unserved(c)
    BY <1>0, <1>2, <2>0, <2>1, <2>2, ClientsAssumption DEF Unserved, Accept, InBacklog, netVars
  <2> QED
    BY <2>3, SessionFrame DEF IInv, Accept, Idle, netVars, clientVars
<1>6. SessionInv(h)'
  <2>1. SessionInv(h) /\ handled[h] = <<>> /\ down[h] = <<>> /\ cur # h /\ Reachable(h)
    BY <1>4 DEF IInv, SessionInv, QueueInv, Reachable
  <2> USE DEF Accept, netVars, clientVars
  <2>2. QueueInv(h)' /\ ClientInv(h)' /\ NoticeInv(h)'
    BY <1>2, <1>4, <2>1, MistakenSame
       DEF SessionInv, QueueInv, ClientInv, NoticeInv, Reachable, Live, Excused
  <2>4. CellsInv(h)'
    <3>1. iobuff' = <<>>
      BY <1>0 DEF IInv, TypeOK
    <3> QED
      BY <1>2, <2>1, <3>1 DEF SessionInv, CellsInv
  <2>3. ASSUME Plain(h)' PROVE RequestInv(h)' /\ TalkInv(h)'
    <3>1. RequestInv(h) /\ TalkInv(h)
      BY <2>1, <2>3, PlainSame DEF SessionInv
    <3>2. RequestInv(h)'
      BY <1>2, <3>1 DEF RequestInv, Request
    <3>3. AtRest(h) => AtRest(h)'
      BY <1>2 DEF AtRest
    <3>4. (Asked(h) => Asked(h)') /\ ~Executed(h) /\ ~Marked(h) /\ ~Closed(h)
      BY <1>2, <2>1 DEF Asked, Executed, Marked, Closed
    <3> QED
      BY <1>2, <2>1, <3>1, <3>2, <3>3, <3>4 DEF TalkInv, Reachable
  <2> QED
    BY <2>2, <2>3, <2>4 DEF SessionInv
<1>7. StopHasCause' /\ MemoryInv'
  BY MemoryFrame DEF StopHasCause, Accept, IInv
<1> QED
  BY <1>1, <1>3, <1>5, <1>6, <1>7 DEF IInv

LEMMA ReceiveStep == IInv /\ Receive => IInv'
<1> SUFFICES ASSUME IInv, Receive PROVE IInv'
  OBVIOUS
<1>1. TypeOK'
  BY ServerType DEF IInv, Server
<1>2. PICK s \in Clients : cur = s /\ srv = "recv" /\ up[s] \in Seq(Cells) /\ up[s] # <<>>
  BY DEF IInv, Receive, TypeOK, Cells
<1>3. PICK k \in 1 .. Len(up[s]) :
         /\ Parts = 1 => k = Len(up[s])
         /\ iobuff' = SubSeq(up[s], 1, k)
         /\ up' = [up EXCEPT ![s] = SubSeq(@, k + 1, Len(@))]
  BY <1>2 DEF Receive
<1>4. /\ up'[s] = SubSeq(up[s], k + 1, Len(up[s]))
      /\ UNCHANGED <<src, cur, backlog, pending, down, cend, send, cst, script,
                     pos, outcome, handled, heard, memory>>
      /\ srv' = "parse" /\ cur' = s
  BY <1>2, <1>3 DEF IInv, Receive, TypeOK, clientVars
<1>5. /\ \A j \in DOMAIN iobuff' : j \in DOMAIN up[s] /\ iobuff'[j] = up[s][j]
      /\ \A j \in DOMAIN up'[s] : k + j \in DOMAIN up[s] /\ up'[s][j] = up[s][k + j]
      /\ Parts = 1 => iobuff' = up[s] /\ up'[s] = <<>>
  <2>1. Len(up[s]) \in Nat /\ DOMAIN up[s] = 1 .. Len(up[s])
    BY <1>2, LenProperties
  <2>2. /\ \A i \in 1 .. k : up[s][i] \in Cells
        /\ \A i \in k + 1 .. Len(up[s]) : up[s][i] \in Cells
    BY <1>2, <2>1, ElementOfSeq
  <2>3. /\ DOMAIN iobuff' = 1 .. k
        /\ \A j \in 1 .. k : iobuff'[j] = up[s][j]
    BY <1>3, <2>1, <2>2, SubSeqProperties, LenProperties
  <2>4. /\ DOMAIN up'[s] = 1 .. Len(up[s]) - k
        /\ \A j \in 1 .. Len(up[s]) - k : up'[s][j] = up[s][k + j]
    BY <1>4, <2>1, <2>2, SubSeqProperties, LenProperties
  <2>5. ASSUME Parts = 1 PROVE iobuff' = up[s] /\ up'[s] = <<>>
    BY <1>2, <1>3, <1>4, <2>1, <2>5, SubSeqFull, SubSeqEmpty
  <2> QED
    BY <2>1, <2>3, <2>4, <2>5
<1>6. \A c \in Clients : c # s => Idle(c)
  BY <1>2, <1>3, <1>4 DEF Idle
<1>7. SessionInv(s)'
  <2>1. SessionInv(s)
    BY DEF IInv
  <2>2. QueueInv(s)' /\ ClientInv(s)' /\ NoticeInv(s)'
    BY <1>2, <1>4, <2>1, MistakenSame
       DEF SessionInv, QueueInv, ClientInv, NoticeInv, Reachable, InBacklog, Live,
           Excused
  <2>3. CellsInv(s)'
    BY <1>2, <1>4, <1>5, <2>1 DEF SessionInv, CellsInv
  <2>4. ASSUME Plain(s)' PROVE RequestInv(s)' /\ TalkInv(s)'
    <3>1. Plain(s) /\ Parts = 1
      BY <1>4, <2>4, PlainSame DEF Plain
    <3>2. RequestInv(s) /\ TalkInv(s)
      BY <2>1, <3>1 DEF SessionInv
    <3>3. /\ up[s] = Request(pos[s]) /\ Len(handled[s]) = pos[s] - 1
          /\ iobuff' = Request(pos[s]) /\ up'[s] = <<>>
      BY <1>2, <1>5, <3>1, <3>2 DEF RequestInv
    <3>4. RequestInv(s)'
      BY <1>4, <3>2, <3>3 DEF RequestInv, Request
    <3>5. pos[s] \in Nat
      BY DEF IInv, TypeOK
    <3>6. cst[s] \notin {"prompt", "mark"}
      BY <1>2, <3>2 DEF TalkInv, AtRest
    <3>7. cst[s] = "wait" => Asked(s)'
      BY <1>2, <1>4, <3>2, <3>3, <3>5 DEF TalkInv, Asked, Executed, Marked, Closed
    <3>8. cst[s] = "done" => outcome[s] = "killed"
      BY <1>2, <3>2 DEF TalkInv, Reachable
    <3> QED
      BY <1>4, <3>4, <3>6, <3>7, <3>8 DEF TalkInv
  <2> QED
    BY <2>2, <2>3, <2>4 DEF SessionInv
<1> QED
  BY <1>1, <1>2, <1>4, <1>6, <1>7, ServeStep

\* What handling a request does to the session.
LEMMA HandleSession ==
    ASSUME IInv, NEW s \in Clients, cur = s, NEW kind \in Kinds, Handle(kind)
    PROVE  /\ \A c \in Clients : c # s => handled'[c] = handled[c] /\ heard'[c] = heard[c]
           /\ \A k \in DOMAIN handled'[s] : handled'[s][k] \in 0 .. pos[s]
           /\ Len(heard'[s]) = Len(handled'[s])
           /\ HeardOf(s)' = HeardOf(s) \cup {kind}
           /\ Plain(s)' => Plain(s) /\ kind # "binary"
           /\ Parsed(iobuff) # Garbled => Parsed(iobuff) \in 1 .. pos[s]
           /\ Plain(s) =>
                /\ Len(handled'[s]) = pos[s] /\ up[s] = <<>>
                /\ \A n \in DOMAIN handled'[s] : handled'[s][n] = n
                /\ cst[s] \notin {"prompt", "mark"}
                /\ cst[s] = "wait" => down[s] = <<>>
                /\ cst[s] = "done" => outcome[s] = "killed"
<1> DEFINE n == Parsed(iobuff)
<1>1. /\ iobuff \in Seq(Cells) /\ iobuff # <<>> /\ handled[s] \in Seq(Nat)
      /\ pos[s] \in Nat /\ SessionInv(s) /\ TypeOK /\ srv = "parse"
      /\ Len(heard[s]) = Len(handled[s])
  BY DEF IInv, TypeOK, Cells, Handle, SessionInv, CellsInv
<1>2. n \in Nat /\ n \in {Garbled, iobuff[1][1]}
  BY <1>1, ParsedProperties
<1>3. iobuff[1][1] \in 1 .. pos[s]
  <2>1. 1 \in DOMAIN iobuff
    BY <1>1, EmptySeq, LenProperties
  <2> QED
    BY <1>1, <2>1 DEF SessionInv, CellsInv
<1>4. /\ Len(handled'[s]) = Len(handled[s]) + 1 /\ Len(heard'[s]) = Len(handled[s]) + 1
      /\ DOMAIN handled'[s] = 1 .. Len(handled[s]) + 1
      /\ DOMAIN handled[s] = 1 .. Len(handled[s]) /\ Len(handled[s]) \in Nat
      /\ \A k \in 1 .. Len(handled[s]) : handled'[s][k] = handled[s][k]
      /\ handled'[s][Len(handled[s]) + 1] = n
      /\ HeardOf(s)' = HeardOf(s) \cup {kind}
      /\ \A c \in Clients : c # s => handled'[c] = handled[c] /\ heard'[c] = heard[c]
  BY <1>1, HandlePast
<1>5. \A k \in DOMAIN handled'[s] : handled'[s][k] \in 0 .. pos[s]
  <2>1. n \in 0 .. pos[s]
    BY <1>1, <1>2, <1>3 DEF Garbled
  <2>2. \A k \in 1 .. Len(handled[s]) : handled[s][k] \in 0 .. pos[s]
    BY <1>1, <1>4 DEF SessionInv, CellsInv
  <2> QED
    BY <1>4, <2>1, <2>2
<1>6. n # Garbled => n \in 1 .. pos[s]
  BY <1>2, <1>3
<1>7. Plain(s)' => Plain(s) /\ kind # "binary"
  BY <1>4 DEF Plain
<1>8. ASSUME Plain(s)
      PROVE  /\ Len(handled'[s]) = pos[s] /\ up[s] = <<>>
             /\ \A k \in DOMAIN handled'[s] : handled'[s][k] = k
             /\ cst[s] \notin {"prompt", "mark"}
             /\ cst[s] = "wait" => down[s] = <<>>
             /\ cst[s] = "done" => outcome[s] = "killed"
  <2>1. RequestInv(s) /\ TalkInv(s)
    BY <1>1, <1>8 DEF SessionInv
  <2>2. iobuff = Request(pos[s]) /\ Len(handled[s]) = pos[s] - 1 /\ up[s] = <<>>
    BY <1>1, <2>1 DEF RequestInv
  <2>3. n = pos[s] /\ Len(handled'[s]) = pos[s]
    BY <1>1, <1>4, <2>2, RequestProperties
  <2>4. \A k \in DOMAIN handled'[s] : handled'[s][k] = k
    <3>1. \A k \in 1 .. Len(handled[s]) : handled[s][k] = k
      BY <1>4, <2>1 DEF RequestInv
    <3> QED
      BY <1>1, <1>4, <2>2, <2>3, <3>1
  <2>5. /\ cst[s] \notin {"prompt", "mark"}
        /\ cst[s] = "wait" => down[s] = <<>>
        /\ cst[s] = "done" => outcome[s] = "killed"
    BY <1>1, <2>1 DEF TalkInv, AtRest, Asked, Executed, Marked, Closed, Reachable
  <2> QED
    BY <2>2, <2>3, <2>4, <2>5
<1> QED
  BY <1>4, <1>5, <1>6, <1>7, <1>8

LEMMA ExecuteStep == IInv /\ (Execute \/ NoCommand) => IInv'
<1> SUFFICES ASSUME IInv, Execute \/ NoCommand PROVE IInv'
  OBVIOUS
<1>1. TypeOK'
  BY ServerType DEF IInv, Server
<1>2. PICK s \in Clients : cur = s /\ srv = "parse"
  BY HandleKinds, HandleType DEF IInv
<1>3. /\ cur' = s /\ iobuff' = <<>>
      /\ UNCHANGED <<src, cur, backlog, up, down, cend, send, cst, script, pos, outcome>>
  BY <1>2 DEF Execute, NoCommand, netVars, clientVars
<1>6. PICK kind \in Kinds : /\ Handle(kind)
                           /\ \/ srv' = "exec" /\ pending' \in Outputs(kind)
                              \/ srv' = "mark"
  BY DEF Execute, NoCommand, Kinds
<1>4. \A c \in Clients : c # s => Idle(c)
  BY <1>2, <1>3, <1>6, HandleSession DEF Idle
<1>5. SessionInv(s)'
  <2>1. SessionInv(s)
    BY DEF IInv
  <2>2. QueueInv(s)' /\ ClientInv(s)'
    BY <1>2, <1>3, <1>6, <2>1 DEF SessionInv, QueueInv, ClientInv, Reachable,
                                  InBacklog, Live
  <2>5. NoticeInv(s)'
    <3>1. send[s] = "open" /\ (Excused(s) => Excused(s)')
      BY <1>2, <1>3, <1>6, <2>1, HandleExcused DEF SessionInv, QueueInv, Reachable
    <3> QED
      BY <1>2, <1>3, <2>1, <3>1 DEF SessionInv, NoticeInv, Live
  <2>3. CellsInv(s)'
    BY <1>2, <1>3, <1>6, <2>1, HandleSession DEF SessionInv, CellsInv
  <2>4. ASSUME Plain(s)' PROVE RequestInv(s)' /\ TalkInv(s)'
    <3>1. Plain(s) /\ kind # "binary"
      BY <1>2, <1>6, <2>4, HandleSession
    <3>2. /\ Len(handled'[s]) = pos[s] /\ up[s] = <<>>
          /\ \A n \in DOMAIN handled'[s] : handled'[s][n] = n
          /\ cst[s] \notin {"prompt", "mark"}
          /\ cst[s] = "wait" => down[s] = <<>>
          /\ cst[s] = "done" => outcome[s] = "killed"
      BY <1>2, <1>6, <3>1, HandleSession
    <3>3. srv' = "exec" => \A k \in DOMAIN pending' : pending'[k] # Eot
      BY <1>6, <3>1, OutputsProperties
    <3>4. RequestInv(s)'
      BY <1>3, <1>6, <3>2, <3>3 DEF RequestInv
    <3>5. cst[s] = "wait" => Executed(s)'
      BY <1>3, <1>6, <3>2 DEF Executed
    <3> QED
      BY <1>3, <3>2, <3>4, <3>5 DEF TalkInv
  <2> QED
    BY <2>2, <2>3, <2>4, <2>5 DEF SessionInv
<1> QED
  BY <1>1, <1>2, <1>3, <1>4, <1>5, <1>6, ServeStep

\* What Sent does to the client that is served.
LEMMA SentProperties ==
    ASSUME TypeOK, NEW s \in Clients, cur = s, NEW x \in {Data, Eot}, Sent(<<x>>)
    PROVE  /\ \A c \in Clients : c # s => down'[c] = down[c] /\ cend'[c] = cend[c]
           /\ cend[s] = "open" =>
                 /\ cend'[s] = "open" /\ down'[s] = Append(down[s], x)
                 /\ down'[s] # <<>> /\ Len(down'[s]) = Len(down[s]) + 1
                 /\ Len(down[s]) \in Nat
                 /\ DOMAIN down[s] = 1 .. Len(down[s])
                 /\ DOMAIN down'[s] = 1 .. Len(down[s]) + 1
                 /\ \A k \in DOMAIN down[s] : down'[s][k] = down[s][k]
                 /\ down'[s][Len(down[s]) + 1] = x
<1>1. \A c \in Clients : c # s => down'[c] = down[c] /\ cend'[c] = cend[c]
  BY DEF Sent, TypeOK
<1>2. ASSUME cend[s] = "open"
      PROVE  cend'[s] = "open" /\ down'[s] = Append(down[s], x)
  <2>1. down[s] \in Seq({Data, Eot})
    BY DEF TypeOK
  <2>2. cend'[s] = "open" /\ down'[s] = down[s] \o <<x>>
    BY <1>2 DEF Sent, TypeOK
  <2> QED
    BY <2>1, <2>2, AppendIsConcat
<1>3. down[s] \in Seq({Data, Eot})
  BY DEF TypeOK
<1> QED
  BY <1>1, <1>2, <1>3, AppendProperties, LenProperties

LEMMA CommandStep ==
    IInv /\ (CommandInputEnds \/ CommandCutOff \/ CommandEnds) => IInv'
<1> SUFFICES ASSUME IInv, CommandInputEnds \/ CommandCutOff \/ CommandEnds
             PROVE  IInv'
  OBVIOUS
<1>1. TypeOK'
  BY ServerType DEF IInv, Server
<1>2. PICK s \in Clients : cur = s /\ srv = "exec"
  BY DEF IInv, CommandInputEnds, CommandCutOff, CommandEnds, TypeOK
<1>3. /\ cur' = s
      /\ UNCHANGED <<src, cur, backlog, iobuff, up, down, cend, send, cst, script,
                     pos, outcome, handled, heard, memory>>
      /\ \/ srv' = "exec" /\ pending' = <<>>
         \/ srv' = "mark"
  BY <1>2 DEF CommandInputEnds, CommandCutOff, CommandEnds, netVars, clientVars
<1>4. \A c \in Clients : c # s => Idle(c)
  BY <1>2, <1>3 DEF Idle
<1>5. SessionInv(s)'
  <2>1. SessionInv(s)
    BY DEF IInv
  <2>2. QueueInv(s)' /\ ClientInv(s)' /\ NoticeInv(s)' /\ CellsInv(s)'
    BY <1>2, <1>3, <2>1, MistakenSame
       DEF SessionInv, QueueInv, ClientInv, NoticeInv, CellsInv, Reachable, InBacklog,
           Live, Excused
  <2>3. ASSUME Plain(s)' PROVE RequestInv(s)' /\ TalkInv(s)'
    <3>1. RequestInv(s) /\ TalkInv(s)
      BY <1>3, <2>1, <2>3, PlainSame DEF SessionInv
    <3>2. RequestInv(s)'
      BY <1>2, <1>3, <3>1 DEF RequestInv, Request
    <3>3. Executed(s) => Executed(s)'
      BY <1>2, <1>3 DEF Executed
    <3>4. TalkInv(s)'
      BY <1>2, <1>3, <3>1, <3>3 DEF TalkInv, AtRest, Asked, Marked, Closed, Reachable,
                                    InBacklog
    <3> QED
      BY <3>2, <3>4
  <2> QED
    BY <2>2, <2>3 DEF SessionInv
<1> QED
  BY <1>1, <1>2, <1>3, <1>4, <1>5, ServeStep

LEMMA CommandWritesStep == IInv /\ CommandWrites => IInv'
<1> SUFFICES ASSUME IInv, CommandWrites PROVE IInv'
  OBVIOUS
<1>1. TypeOK'
  BY ServerType DEF IInv, Server
<1>2. PICK s \in Clients : cur = s /\ srv = "exec"
  BY DEF IInv, CommandWrites, TypeOK
<1>3. PICK x \in {Data, Eot} :
        /\ x = pending[1] /\ 1 \in DOMAIN pending /\ Sent(<<x>>)
        /\ \A k \in DOMAIN pending' : k + 1 \in DOMAIN pending /\ pending'[k] = pending[k + 1]
  <2>1. /\ pending \in Seq({Data, Eot, Input}) /\ pending # <<>> /\ Head(pending) # Input
        /\ Sent(<<Head(pending)>>) /\ pending' = Tail(pending)
    BY DEF CommandWrites, IInv, TypeOK
  <2>2. /\ Head(pending) \in {Data, Eot} /\ Head(pending) = pending[1]
        /\ Len(pending) \in Nat \ {0} /\ DOMAIN pending = 1 .. Len(pending)
    BY <2>1, HeadTailProperties, EmptySeq, LenProperties
  <2>3. /\ DOMAIN pending' = 1 .. Len(pending) - 1
        /\ \A k \in 1 .. Len(pending) - 1 : pending'[k] = pending[k + 1]
    BY <2>1, HeadTailProperties, LenProperties
  <2> QED
    BY <2>1, <2>2, <2>3
<1>4. /\ cur' = s /\ srv' = "exec"
      /\ UNCHANGED <<src, cur, backlog, iobuff, up, send, cst, script, pos, outcome, handled, heard, memory>>
  BY <1>2 DEF CommandWrites, clientVars
<1>5. \A c \in Clients : c # s => Idle(c)
  BY <1>2, <1>3, <1>4, SentProperties DEF Idle, IInv
<1>6. SessionInv(s)'
  <2>1. SessionInv(s)
    BY DEF IInv
  <2>2. QueueInv(s)' /\ ClientInv(s)' /\ NoticeInv(s)' /\ CellsInv(s)'
    BY <1>2, <1>3, <1>4, <2>1, SentProperties, MistakenSame
       DEF SessionInv, QueueInv, ClientInv, NoticeInv, CellsInv, Reachable, InBacklog,
           Live, IInv, Excused
  <2>3. ASSUME Plain(s)' PROVE RequestInv(s)' /\ TalkInv(s)'
    <3>1. RequestInv(s) /\ TalkInv(s)
      BY <1>4, <2>1, <2>3, PlainSame DEF SessionInv
    <3>2. RequestInv(s)'
      BY <1>2, <1>3, <1>4, <3>1 DEF RequestInv, Request
    <3>3. x # Eot
      BY <1>2, <1>3, <3>1 DEF RequestInv
    <3>4. ASSUME cst[s] = "wait" PROVE Executed(s)'
      <4>1. Executed(s)
        BY <1>2, <3>1, <3>4 DEF TalkInv, Asked, Marked, Closed, Reachable
      <4>2. cend[s] = "open"
        BY <2>1, <3>4 DEF SessionInv, ClientInv
      <4>3. \A k \in DOMAIN down'[s] : down'[s][k] # Eot
        BY <1>2, <1>3, <3>3, <4>1, <4>2, SentProperties DEF Executed, IInv
      <4> QED
        BY <1>4, <4>1, <4>3 DEF Executed
    <3>5. TalkInv(s)'
      BY <1>2, <1>4, <3>1, <3>4 DEF TalkInv, AtRest, Reachable
    <3> QED
      BY <3>2, <3>5
  <2> QED
    BY <2>2, <2>3 DEF SessionInv
<1> QED
  BY <1>1, <1>2, <1>4, <1>5, <1>6, ServeStep

LEMMA CommandReadsStep == IInv /\ CommandReads => IInv'
<1> SUFFICES ASSUME IInv, CommandReads PROVE IInv'
  OBVIOUS
<1>1. TypeOK'
  BY ServerType DEF IInv, Server
<1>2. PICK s \in Clients : cur = s /\ srv = "exec" /\ up[s] # <<>>
  BY DEF IInv, CommandReads, TypeOK
<1>3. /\ cur' = s /\ srv' = "exec" /\ Sent(<<Data>>)
      /\ up'[s] = <<>> /\ \A c \in Clients : c # s => up'[c] = up[c]
      /\ UNCHANGED <<src, cur, backlog, iobuff, pending, send, cst, script, pos,
                     outcome, handled, heard, memory>>
  BY <1>2 DEF CommandReads, clientVars, IInv, TypeOK
<1>4. \A c \in Clients : c # s => Idle(c)
  BY <1>2, <1>3, SentProperties DEF Idle, IInv
<1>5. SessionInv(s)'
  <2>1. SessionInv(s)
    BY DEF IInv
  <2>2. QueueInv(s)' /\ ClientInv(s)' /\ NoticeInv(s)' /\ CellsInv(s)'
    BY <1>2, <1>3, <2>1, SentProperties, MistakenSame
       DEF SessionInv, QueueInv, ClientInv, NoticeInv, CellsInv, Reachable, InBacklog,
           Live, IInv, Excused
  \* In a plain session nothing waits in the socket of a client whose request
  \* is being executed.
  <2>3. ~Plain(s)
    BY <1>2, <2>1 DEF SessionInv, RequestInv
  <2>4. ~Plain(s)'
    BY <1>3, <2>3, PlainSame
  <2> QED
    BY <2>2, <2>4 DEF SessionInv
<1> QED
  BY <1>1, <1>2, <1>3, <1>4, <1>5, ServeStep

LEMMA SendEofStep == IInv /\ SendEof => IInv'
<1> SUFFICES ASSUME IInv, SendEof PROVE IInv'
  OBVIOUS
<1>1. TypeOK'
  BY ServerType DEF IInv, Server
<1>2. PICK s \in Clients : cur = s /\ srv = "mark"
  BY DEF IInv, SendEof, TypeOK
<1>3. /\ cur' = s /\ srv' = "recv" /\ Sent(<<Eot>>)
      /\ UNCHANGED <<src, cur, backlog, iobuff, pending, up, send, cst, script, pos,
                     outcome, handled, heard, memory>>
  BY <1>2 DEF SendEof, clientVars
<1>4. \A c \in Clients : c # s => Idle(c)
  BY <1>2, <1>3, SentProperties DEF Idle, IInv
<1>5. SessionInv(s)'
  <2>1. SessionInv(s)
    BY DEF IInv
  <2>2. QueueInv(s)' /\ ClientInv(s)' /\ NoticeInv(s)' /\ CellsInv(s)'
    BY <1>2, <1>3, <2>1, SentProperties, MistakenSame
       DEF SessionInv, QueueInv, ClientInv, NoticeInv, CellsInv, Reachable, InBacklog,
           Live, IInv, Excused
  <2>3. ASSUME Plain(s)' PROVE RequestInv(s)' /\ TalkInv(s)'
    <3>1. RequestInv(s) /\ TalkInv(s)
      BY <1>3, <2>1, <2>3, PlainSame DEF SessionInv
    <3>2. RequestInv(s)'
      BY <1>2, <1>3, <3>1 DEF RequestInv, Request
    <3>3. ASSUME cst[s] = "wait" PROVE Marked(s)'
      <4>1. Executed(s)
        BY <1>2, <3>1, <3>3 DEF TalkInv, Asked, Marked, Closed, Reachable
      <4>2. cend[s] = "open"
        BY <2>1, <3>3 DEF SessionInv, ClientInv
      <4>3. down'[s] # <<>> /\ \A k \in DOMAIN down'[s] : down'[s][k] = Eot <=> k = Len(down'[s])
        BY <1>2, <1>3, <4>1, <4>2, SentProperties DEF Executed, IInv
      <4> QED
        BY <1>3, <4>1, <4>3 DEF Executed, Marked
    <3>4. cst[s] = "done" /\ up[s] # <<>> => outcome[s] = "killed"
      BY <1>2, <3>1 DEF TalkInv, Reachable
    <3>5. TalkInv(s)'
      BY <1>2, <1>3, <3>1, <3>3, <3>4 DEF TalkInv, AtRest
    <3> QED
      BY <3>2, <3>5
  <2> QED
    BY <2>2, <2>3 DEF SessionInv
<1> QED
  BY <1>1, <1>2, <1>3, <1>4, <1>5, ServeStep

-----------------------------------------------------------------------------
(***************************************************************************)
(* The server's steps that end a session or the server.                    *)
(***************************************************************************)
\* The server closes the socket of s, whose last request, if there is one, it
\* has just handled.
LEMMA ReleaseSession ==
    ASSUME IInv, NEW s \in Clients, cur = s, cur' # s, ~InBacklog(s)',
           send'[s] = Closing(s),
           UNCHANGED <<up, down, cend, cst, script, pos, outcome>>,
           \/ /\ handled' = handled /\ heard' = heard
              /\ srv \in {"recv", "parse"} \/ ~Live(s)
           \/ \E kind \in Kinds : Handle(kind),
           srv' = "stopped" \/ (Live(s) => Excused(s)')
    PROVE  SessionInv(s)'
<1>1. SessionInv(s) /\ srv # "stopped" /\ cst[s] # "start"
  <2>1. SessionInv(s) /\ srv # "stopped"
    BY ClientsAssumption DEF IInv, TypeOK
  <2> QED
    BY <2>1 DEF SessionInv, QueueInv, Reachable
<1>2. ~Reachable(s)' /\ send'[s] # "open" /\ Live(s)' = Live(s)
  BY DEF Reachable, Closing, Live, InBacklog
<1>3. QueueInv(s)'
  BY <1>1, <1>2 DEF QueueInv, Reachable
<1>4. ClientInv(s)'
  BY <1>1 DEF SessionInv, ClientInv
<1>5. CellsInv(s)'
  <2>1. /\ \A k \in DOMAIN handled'[s] : handled'[s][k] \in 0 .. pos[s]
        /\ Len(heard'[s]) = Len(handled'[s])
    BY <1>1, HandleSession DEF SessionInv, CellsInv
  <2> QED
    BY <1>1, <2>1 DEF SessionInv, CellsInv
<1>6. NoticeInv(s)'
  <2>1. Excused(s) => Excused(s)'
    BY HandleExcused, MistakenSame DEF Excused
  <2> QED
    BY <1>1, <1>2, <2>1 DEF SessionInv, NoticeInv
<1>7. ASSUME Plain(s)' PROVE RequestInv(s)' /\ TalkInv(s)'
  <2>1. Plain(s)
    BY <1>7, PlainSame, HandleSession
  <2>2. RequestInv(s) /\ TalkInv(s)
    BY <1>1, <2>1 DEF SessionInv
  <2>3. CASE handled' = handled /\ (srv \in {"recv", "parse"} \/ ~Live(s))
    <3>1. RequestInv(s)'
      BY <2>2, <2>3 DEF RequestInv, Request
    <3>2. AtRest(s) => AtRest(s)'
      BY <2>3 DEF AtRest
    <3>3. (Asked(s) => Asked(s)') /\ (Marked(s) => Marked(s)') /\ ~Closed(s)
      BY <2>3 DEF Asked, Marked, Closed, Reachable
    <3>4. cst[s] = "wait" => ~Executed(s)
      BY <2>3 DEF Executed, Live
    <3> QED
      BY <1>2, <2>2, <3>1, <3>2, <3>3, <3>4 DEF TalkInv
  <2>4. CASE \E kind \in Kinds : Handle(kind)
    <3>1. /\ Len(handled'[s]) = pos[s] /\ up[s] = <<>>
          /\ \A n \in DOMAIN handled'[s] : handled'[s][n] = n
          /\ cst[s] \notin {"prompt", "mark"}
          /\ cst[s] = "wait" => down[s] = <<>>
      BY <2>1, <2>4, HandleSession
    <3>2. RequestInv(s)'
      BY <3>1 DEF RequestInv
    <3>3. cst[s] = "wait" => Closed(s)'
      BY <1>2, <3>1 DEF Closed
    <3> QED
      BY <1>2, <3>1, <3>2, <3>3 DEF TalkInv
  <2> QED
    BY <2>3, <2>4, <1>7
<1> QED
  BY <1>3, <1>4, <1>5, <1>6, <1>7 DEF SessionInv

\* exec_client_requests returns OK after an exit and after a disconnect.
LEMMA NextClientStep ==
    ASSUME IInv, ReceiveNothing \/ ExitCommand
    PROVE  IInv'
<1>1. TypeOK'
  BY ServerType DEF IInv, Server
<1>2. PICK s \in Clients : cur = s /\ srv \in {"recv", "parse"}
  BY HandleKinds, HandleType DEF IInv, ReceiveNothing, TypeOK
<1>3. NextClient /\ (UNCHANGED pastVars \/ \E kind \in Kinds : Handle(kind))
  BY DEF ReceiveNothing, ExitCommand, Kinds
<1>4. /\ cur' = NoClient /\ srv' = "accept" /\ backlog' = backlog
      /\ send' = [send EXCEPT ![s] = Closing(s)]
      /\ UNCHANGED <<up, down, cend, cst, script, pos, outcome>>
  BY <1>2, <1>3 DEF NextClient, clientVars
<1>5. /\ send'[s] = Closing(s)
      /\ \A c \in Clients : c # s => send'[c] = send[c]
  BY <1>4 DEF IInv, TypeOK
<1>6. SessionInv(s) /\ ~InBacklog(s)'
  BY <1>2, <1>4 DEF IInv, SessionInv, QueueInv, InBacklog
<1>7. SessionInv(s)'
  <2>1. CASE ReceiveNothing
    <3>1. ~Live(s)
      BY <1>2, <1>6, <2>1 DEF ReceiveNothing, SessionInv, ClientInv, Live
    <3> QED
      BY <1>2, <1>4, <1>5, <1>6, <2>1, <3>1, ClientsAssumption, ReleaseSession
         DEF ReceiveNothing
  <2>2. CASE ExitCommand
    <3>1. "exit" \in Kinds /\ Handle("exit")
      BY <2>2 DEF ExitCommand, Kinds
    <3>2. Excused(s)'
      <4>1. /\ TypeOK /\ Len(heard[s]) = Len(handled[s]) /\ script' = script /\ pos' = pos
            /\ pos[s] \in Nat
        BY <1>4, <1>6 DEF IInv, SessionInv, CellsInv, TypeOK
      <4>2. "exit" \in HeardOf(s)'
        BY <1>2, <3>1, HandleSession
      <4>3. CASE Parsed(iobuff) = Garbled \/ "exit" # script[s][Parsed(iobuff)]
        <5>1. Mistaken(s)'
          BY <1>2, <3>1, <4>1, <4>3, HandleMistaken
        <5> QED
          BY <4>2, <5>1 DEF Excused
      <4>4. CASE Parsed(iobuff) # Garbled /\ "exit" = script[s][Parsed(iobuff)]
        <5>1. Parsed(iobuff) \in 1 .. pos[s]
          BY <1>2, <3>1, <4>4, HandleSession
        <5>2. pos[s] > 0 /\ script[s][pos[s]] = "exit"
          BY <1>6, <4>1, <4>4, <5>1 DEF SessionInv, ClientInv
        <5> QED
          BY <4>1, <5>2 DEF Excused
      <4> QED
        BY <4>3, <4>4
    <3> QED
      BY <1>2, <1>4, <1>5, <1>6, <3>1, <3>2, ClientsAssumption, ReleaseSession
  <2> QED
    BY <2>1, <2>2
<1>8. \A c \in Clients : c # s => Idle(c)
  BY <1>2, <1>3, <1>4, HandleSession DEF Idle
<1> QED
  BY <1>1, <1>2, <1>3, <1>4, <1>5, <1>7, <1>8, ServeStep

\* The server ends: what is left to show is the cause, and the session of the
\* client that it served.
LEMMA StopStep ==
    ASSUME IInv, TypeOK', NEW reason, Stop(reason), StopHasCause',
           \/ /\ UNCHANGED pastVars
              /\ cur \in Clients => srv \in {"recv", "parse"} \/ ~Live(cur)
           \/ cur \in Clients /\ \E kind \in Kinds : Handle(kind)
    PROVE  IInv'
<1>1. /\ cur' = NoClient /\ srv' = "stopped" /\ backlog' = <<>>
      /\ UNCHANGED <<up, down, cend, cst, script, pos, outcome>>
      /\ send' = [c \in Clients |->
                   IF c = cur THEN Closing(c)
                   ELSE IF InBacklog(c) THEN "rst" ELSE send[c]]
  BY DEF Stop, clientVars, InBacklog
<1>2. \A c \in Clients : ~InBacklog(c)'
  BY <1>1 DEF InBacklog
<1>3. ASSUME NEW c \in Clients, cur = c PROVE SessionInv(c)'
  BY <1>1, <1>2, <1>3, ClientsAssumption, ReleaseSession
<1>4. ASSUME NEW c \in Clients, cur # c PROVE SessionInv(c)'
  <2>1. Idle(c)
    BY <1>1, <1>4, HandleSession DEF Idle
  <2>2. CASE InBacklog(c)
    <3>1. cst[c] # "start"
      BY <2>2 DEF IInv, SessionInv, QueueInv, Reachable
    <3> QED
      BY <1>1, <1>2, <1>4, <2>1, <2>2, <3>1, ClientsAssumption, SessionFrame
         DEF Unserved, IInv
  <2>3. CASE ~InBacklog(c)
    <3>1. send'[c] = send[c] /\ InBacklog(c)' = InBacklog(c)
      BY <1>1, <1>2, <1>4, <2>3 DEF InBacklog
    <3> QED
      BY <1>1, <1>4, <2>1, <3>1, ClientsAssumption, SessionFrame DEF Unserved, IInv
  <2> QED
    BY <2>2, <2>3
<1>5. BacklogInv'
  BY <1>1 DEF BacklogInv
<1>6. MemoryInv'
  BY MemoryFrame, HandleMemory DEF IInv
<1> QED
  BY <1>3, <1>4, <1>5, <1>6 DEF IInv

\* The ends that need no cause in the sessions, and the one whose cause has been
\* there for long.
LEMMA FailStep ==
    ASSUME IInv, ReceiveFails \/ NoMemory \/ AcceptFails \/ Corrupted
    PROVE  IInv'
<1>1. PICK reason \in {"ERR_RDSH_COMMUNICATION", "ERR_MEMORY", "killed"} :
         /\ Stop(reason)
         /\ reason = "killed" => memory = "spoilt"
  BY DEF ReceiveFails, NoMemory, AcceptFails, Corrupted
<1>2. UNCHANGED pastVars /\ srv \in {"recv", "accept", "parse"}
  BY DEF ReceiveFails, NoMemory, AcceptFails, Corrupted
<1>3. TypeOK'
  BY <1>1, <1>2, StopType DEF IInv, TypeOK, PastTypeOK
<1>4. StopHasCause'
  <2>1. src' = reason
    BY <1>1 DEF Stop
  <2>2. memory = "spoilt" => \E c \in Clients : ~Proper(c)'
    BY <1>2 DEF IInv, MemoryInv, Proper, HeardOf
  <2> QED
    BY <1>1, <2>1, <2>2 DEF StopHasCause
<1>5. cur \in Clients => srv \in {"recv", "parse"}
  BY <1>2, ClientsAssumption DEF IInv, TypeOK
<1> QED
  BY <1>1, <1>2, <1>3, <1>4, <1>5, StopStep

\* The ends at a request: stop-server, a line that cannot be parsed, one without a
\* command or with too many words.
LEMMA StopCommandStep ==
    ASSUME IInv, StopCommand \/ Reject \/ Crash
    PROVE  IInv'
<1>1. TypeOK'
  BY ServerType DEF IInv, Server
<1>2. PICK kind \in Kinds :
         /\ Handle(kind)
         /\ \/ kind = "stop" /\ Stop("OK_EXIT")
            \/ kind = "rejected" /\ Stop("ERR_EXEC_CMD")
            \/ kind \in {"blank", "wide"} /\ Stop("killed")
  BY DEF StopCommand, Reject, Crash, Kinds
<1>3. PICK s \in Clients : cur = s
  BY <1>2, HandleType DEF IInv
<1>4. kind \in HeardOf(s)'
  BY <1>2, <1>3, HandleSession
<1>5. StopHasCause'
  <2>1. kind # "stop" => ~Proper(s)'
    BY <1>2, <1>4 DEF Proper
  <2>2. \/ kind = "stop" /\ src' = "OK_EXIT"
        \/ kind # "stop" /\ src' # "OK_EXIT"
    BY <1>2 DEF Stop
  <2> QED
    BY <1>4, <2>1, <2>2 DEF StopHasCause
<1> QED
  BY <1>1, <1>2, <1>3, <1>5, StopStep

\* The mark meets a reset: the client is gone, and in a plain session a client
\* goes while its answer is on the way only if it is killed.
LEMMA SendEofFailsStep ==
    ASSUME IInv, SendEofFails
    PROVE  IInv'
<1>1. TypeOK'
  BY ServerType DEF IInv, Server
<1>2. PICK s \in Clients : cur = s /\ srv = "mark" /\ cend[s] = "rst"
  BY DEF IInv, SendEofFails, TypeOK
<1>3. PICK reason \in {"ERR_RDSH_COMMUNICATION", "killed"} : Stop(reason)
  BY DEF SendEofFails
<1>4. UNCHANGED pastVars
  BY DEF SendEofFails
<1>5. SessionInv(s) /\ cst[s] = "done" /\ ~Live(s)
  <2>1. SessionInv(s) /\ cst[s] \in {"start", "prompt", "wait", "mark", "done"}
    BY DEF IInv, TypeOK
  <2> QED
    BY <1>2, <2>1 DEF SessionInv, ClientInv, Live
<1>6. ~Plain(s) \/ outcome[s] = "killed"
  BY <1>2, <1>5 DEF SessionInv, TalkInv, Reachable
<1>7. ~Plain(s)' \/ outcome'[s] = "killed"
  <2>1. outcome' = outcome /\ heard' = heard
    BY <1>3, <1>4 DEF Stop, clientVars
  <2> QED
    BY <1>6, <2>1, PlainSame
<1>8. StopHasCause'
  BY <1>3, <1>7 DEF Stop, StopHasCause
<1> QED
  BY <1>1, <1>2, <1>3, <1>4, <1>5, <1>8, StopStep

LEMMA ServerStep ==
    ASSUME IInv, Server \/ BootFails \/ AcceptFails \/ NoMemory \/ Corrupted
    PROVE  IInv'
<1>1. CASE Boot \/ Accept
  BY <1>1, BootStep, AcceptStep
<1>2. CASE Receive \/ Execute \/ NoCommand
  BY <1>2, ReceiveStep, ExecuteStep
<1>3. CASE ReceiveNothing \/ ExitCommand
  BY <1>3, NextClientStep
<1>4. CASE ReceiveFails \/ NoMemory \/ AcceptFails \/ Corrupted
  BY <1>4, FailStep
<1>5. CASE StopCommand \/ Reject \/ Crash
  BY <1>5, StopCommandStep
<1>6. CASE CommandInputEnds \/ CommandCutOff \/ CommandEnds
  BY <1>6, CommandStep
<1>7. CASE CommandWrites \/ CommandReads \/ SendEof
  BY <1>7, CommandWritesStep, CommandReadsStep, SendEofStep
<1>8. CASE SendEofFails
  BY <1>8, SendEofFailsStep
<1>9. CASE BootFails
  <2>1. TypeOK'
    BY <1>9, ClientsAssumption DEF BootFails, IInv, TypeOK, netVars, clientVars
  <2>2. ASSUME NEW c \in Clients PROVE SessionInv(c)'
    BY <1>9, ClientsAssumption, SessionFrame
       DEF IInv, BootFails, Idle, Unserved, InBacklog, netVars, clientVars, TypeOK
  <2>3. StopHasCause' /\ BacklogInv' /\ MemoryInv'
    BY <1>9, MemoryFrame DEF BootFails, StopHasCause, BacklogInv, IInv
  <2> QED
    BY <2>1, <2>2, <2>3 DEF IInv
<1> QED
  BY <1>1, <1>2, <1>3, <1>4, <1>5, <1>6, <1>7, <1>8, <1>9 DEF Server

-----------------------------------------------------------------------------
(***************************************************************************)
(* The steps of a client and of its environment.                           *)
(***************************************************************************)
\* What is left to show of a step of c after its connect: its own session.
LEMMA ClientStep ==
    ASSUME IInv, TypeOK', NEW c \in Clients, SessionInv(c)',
           UNCHANGED <<serverVars, send, script, handled, heard, memory>>,
           \A d \in Clients : d # c => /\ up'[d] = up[d] /\ down'[d] = down[d]
                                       /\ cend'[d] = cend[d] /\ cst'[d] = cst[d]
                                       /\ pos'[d] = pos[d] /\ outcome'[d] = outcome[d],
           outcome[c] = "killed" => outcome'[c] = "killed"
    PROVE  IInv'
<1> USE DEF serverVars
<1>1. BacklogInv'
  BY DEF IInv, BacklogInv
<1>2. ASSUME NEW d \in Clients, d # c PROVE SessionInv(d)'
  <2>1. Idle(d) /\ Unserved(d)
    BY <1>2 DEF Idle, Unserved, InBacklog
  <2> QED
    BY <2>1, SessionFrame DEF IInv
<1>3. \A d \in Clients : outcome[d] = "killed" => outcome'[d] = "killed"
  BY DEF IInv
<1>4. StopHasCause' /\ MemoryInv'
  BY <1>3, CauseFrame, MemoryFrame DEF IInv
<1> QED
  BY <1>1, <1>2, <1>4 DEF IInv

\* The client leaves with nothing on its way to the server, leaves a server that
\* has closed the connection, or is killed.
LEMMA CleanupStep ==
    ASSUME IInv, NEW c \in Clients, NEW how, Cleanup(c, how),
           cst[c] \in {"prompt", "wait", "mark"},
           how \in {"left", "killed", "RCMD_SERVER_EXITED", "ERR_RDSH_COMMUNICATION"},
           how = "killed" \/ cst[c] \in {"prompt", "mark"} \/ send[c] # "open",
           how = "RCMD_SERVER_EXITED" => send[c] = "fin"
    PROVE  IInv'
<1>1. TypeOK'
  BY CleanupType DEF IInv
<1>2. /\ cst'[c] = "done" /\ outcome'[c] = how
      /\ UNCHANGED <<srv, src, cur, backlog, iobuff, pending, up, down, send, script,
                     pos, handled, heard, memory>>
      /\ \A d \in Clients : d # c => /\ cend'[d] = cend[d] /\ cst'[d] = cst[d]
                                     /\ outcome'[d] = outcome[d]
  BY DEF Cleanup, IInv, TypeOK, serverVars
<1>3. SessionInv(c) /\ Live(c) /\ outcome[c] = "none"
  BY DEF IInv, SessionInv, ClientInv, Live
<1>4. Reachable(c)' = Reachable(c) /\ (Reachable(c) => send[c] = "open")
  BY <1>2, <1>3 DEF Reachable, InBacklog, SessionInv, QueueInv
<1>5. SessionInv(c)'
  <2>1. QueueInv(c)' /\ CellsInv(c)'
    BY <1>2, <1>3 DEF SessionInv, QueueInv, CellsInv, Reachable, InBacklog, Live
  <2>2. ClientInv(c)'
    BY <1>2, <1>3 DEF SessionInv, ClientInv
  <2>3. NoticeInv(c)'
    BY <1>2, <1>3, MistakenSame DEF SessionInv, NoticeInv, Live, Excused
  <2>4. ASSUME Plain(c)' PROVE RequestInv(c)' /\ TalkInv(c)'
    <3>1. RequestInv(c) /\ TalkInv(c)
      BY <1>2, <1>3, <2>4, PlainSame DEF SessionInv
    <3>2. RequestInv(c)'
      BY <1>2, <3>1 DEF RequestInv, Request
    <3>3. cst[c] \in {"prompt", "mark"} =>
             up[c] = <<>> /\ (cur = c => srv = "recv")
      BY <3>1 DEF TalkInv, AtRest
    <3>4. TalkInv(c)'
      BY <1>2, <1>4, <3>3 DEF TalkInv
    <3> QED
      BY <3>2, <3>4
  <2> QED
    BY <2>1, <2>2, <2>3, <2>4 DEF SessionInv
<1> QED
  BY <1>1, <1>2, <1>3, <1>5, ClientStep DEF serverVars

LEMMA LeaveStep ==
    ASSUME IInv, NEW c \in Clients,
           \/ TypeFails(c) \/ EndOfScript(c) \/ Leave(c) \/ ServerExited(c)
           \/ ReceiveError(c) \/ Killed(c)
    PROVE  IInv'
<1>1. CASE TypeFails(c) \/ EndOfScript(c)
  BY <1>1, CleanupStep DEF TypeFails, EndOfScript
<1>2. CASE Leave(c)
  BY <1>2, CleanupStep DEF Leave
<1>3. CASE ServerExited(c) \/ ReceiveError(c)
  BY <1>3, CleanupStep DEF ServerExited, ReceiveError
<1>4. CASE Killed(c)
  BY <1>4, CleanupStep DEF Killed
<1> QED
  BY <1>1, <1>2, <1>3, <1>4

LEMMA ConnectStep ==
    ASSUME IInv, NEW c \in Clients, Connect(c)
    PROVE  IInv'
<1>1. TypeOK'
  BY ClientType DEF IInv, Client
<1>2. /\ backlog \in Seq(Clients) /\ Len(backlog) \in Nat
      /\ DOMAIN backlog = 1 .. Len(backlog)
  BY LenProperties DEF IInv, TypeOK
<1>3. /\ DOMAIN backlog' = 1 .. Len(backlog) + 1
      /\ backlog'[Len(backlog) + 1] = c
      /\ \A k \in DOMAIN backlog : backlog'[k] = backlog[k]
  BY <1>2, AppendProperties, LenProperties DEF Connect
<1>4. /\ cst[c] = "start" /\ cst'[c] = "prompt" /\ srv' # "stopped"
      /\ UNCHANGED <<srv, src, cur, iobuff, pending, up, down, cend, send, script,
                     pos, outcome, handled, heard, memory>>
      /\ \A d \in Clients : d # c => cst'[d] = cst[d]
  BY DEF Connect, netVars, IInv, TypeOK
<1>5. SessionInv(c) /\ ~InBacklog(c) /\ cur # c
  BY <1>4 DEF IInv, SessionInv, QueueInv, Reachable
<1>6. BacklogInv'
  <2>1. \A k \in DOMAIN backlog : backlog[k] # c
    BY <1>5 DEF InBacklog
  <2> QED
    BY <1>2, <1>3, <2>1 DEF IInv, BacklogInv
<1>7. ASSUME NEW d \in Clients, d # c PROVE SessionInv(d)'
  <2>1. InBacklog(d)' = InBacklog(d)
    BY <1>2, <1>3, <1>7 DEF InBacklog
  <2>2. Idle(d) /\ Unserved(d)
    BY <1>4, <1>7, <2>1 DEF Idle, Unserved
  <2> QED
    BY <2>2, SessionFrame DEF IInv
<1>8. SessionInv(c)'
  <2>1. Reachable(c)'
    BY <1>2, <1>3 DEF Reachable, InBacklog
  <2>2. QueueInv(c)' /\ ClientInv(c)' /\ CellsInv(c)' /\ NoticeInv(c)'
    BY <1>4, <1>5, <2>1 DEF SessionInv, QueueInv, ClientInv, CellsInv, NoticeInv
  <2>3. /\ up[c] = <<>> /\ down[c] = <<>> /\ handled[c] = <<>> /\ pos[c] = 0
    BY <1>4, <1>5 DEF SessionInv, QueueInv
  <2>4. RequestInv(c)'
    BY <1>4, <1>5, <2>3 DEF RequestInv
  <2>5. TalkInv(c)'
    BY <1>4, <1>5, <2>3 DEF TalkInv, AtRest
  <2> QED
    BY <2>2, <2>4, <2>5 DEF SessionInv
<1>9. StopHasCause' /\ MemoryInv'
  BY <1>4, MemoryFrame DEF StopHasCause, IInv
<1> QED
  BY <1>1, <1>6, <1>7, <1>8, <1>9 DEF IInv

LEMMA ConnectFailsStep ==
    ASSUME IInv, NEW c \in Clients, ConnectFails(c)
    PROVE  IInv'
<1>1. TypeOK'
  BY ClientType DEF IInv, Client
<1>2. /\ cst[c] = "start" /\ cst'[c] = "done" /\ outcome'[c] = "ERR_RDSH_CLIENT"
      /\ UNCHANGED <<srv, src, cur, backlog, iobuff, pending, up, down, cend, send,
                     script, pos, handled, heard, memory>>
      /\ \A d \in Clients : d # c => cst'[d] = cst[d] /\ outcome'[d] = outcome[d]
  BY DEF ConnectFails, serverVars, netVars, IInv, TypeOK
<1>3. SessionInv(c) /\ outcome[c] = "none" /\ ~Reachable(c) /\ ~Reachable(c)'
  BY <1>2 DEF IInv, SessionInv, QueueInv, ClientInv, Reachable, InBacklog
<1>4. QueueInv(c)' /\ ClientInv(c)' /\ CellsInv(c)' /\ NoticeInv(c)'
  BY <1>2, <1>3 DEF SessionInv, QueueInv, ClientInv, CellsInv, NoticeInv, Live, Reachable
<1>5. ASSUME Plain(c)' PROVE RequestInv(c)' /\ TalkInv(c)'
  <2>1. RequestInv(c)
    BY <1>2, <1>3, <1>5, PlainSame DEF SessionInv
  <2> QED
    BY <1>2, <1>3, <2>1 DEF RequestInv, Request, TalkInv, Reachable
<1>6. SessionInv(c)'
  BY <1>4, <1>5 DEF SessionInv
<1> QED
  BY <1>1, <1>2, <1>3, <1>6, ClientStep DEF serverVars

LEMMA TypeLineStep ==
    ASSUME IInv, NEW c \in Clients, TypeLine(c)
    PROVE  IInv'
<1>1. TypeOK'
  BY ClientType DEF IInv, Client
<1>2. /\ cst[c] = "prompt" /\ cst'[c] = "wait" /\ pos'[c] = pos[c] + 1
      /\ pos[c] \in Nat /\ pos'[c] \in Nat
      /\ UNCHANGED <<srv, src, cur, backlog, iobuff, pending, down, cend, send,
                     script, outcome, handled, heard, memory>>
      /\ \A d \in Clients : d # c => /\ up'[d] = up[d] /\ cst'[d] = cst[d]
                                     /\ pos'[d] = pos[d]
      /\ up'[c] = up[c] \/ up'[c] = up[c] \o Request(pos'[c])
  <2>1. /\ cst[c] = "prompt" /\ cst'[c] = "wait" /\ pos'[c] = pos[c] + 1
        /\ UNCHANGED <<srv, src, cur, backlog, iobuff, pending, down, cend, send,
                       script, outcome, handled, heard, memory>>
        /\ \A d \in Clients : d # c => cst'[d] = cst[d] /\ pos'[d] = pos[d]
    BY DEF TypeLine, serverVars, IInv, TypeOK
  <2>2. /\ \A d \in Clients : d # c => up'[d] = up[d]
        /\ up'[c] = up[c] \/ up'[c] = up[c] \o Request(pos'[c])
    BY DEF TypeLine, IInv, TypeOK
  <2>3. pos[c] \in Nat /\ pos'[c] \in Nat
    BY <1>1 DEF IInv, TypeOK
  <2> QED
    BY <2>1, <2>2, <2>3
<1>3. SessionInv(c) /\ Live(c) /\ outcome[c] = "none"
  BY <1>2 DEF IInv, SessionInv, ClientInv, Live
<1>4. Plain(c)' => Plain(c)
  BY <1>2, PlainSame
<1>5. QueueInv(c)'
  BY <1>2, <1>3 DEF SessionInv, QueueInv, Reachable, InBacklog, Live
<1>6. ClientInv(c)'
  BY <1>2, <1>3 DEF SessionInv, ClientInv
<1>7. \A k \in DOMAIN up'[c] : up'[c][k][1] \in 1 .. pos'[c]
  <2>0. \A k \in DOMAIN up[c] : up[c][k][1] \in 1 .. pos'[c]
    BY <1>2, <1>3 DEF SessionInv, CellsInv
  <2>1. up[c] \in Seq(Cells)
    BY DEF IInv, TypeOK, Cells
  <2>2. /\ Request(pos'[c]) \in Seq(Cells) /\ pos'[c] \in 1 .. pos'[c]
        /\ DOMAIN Request(pos'[c]) = 1 .. Parts /\ Len(Request(pos'[c])) = Parts
        /\ \A p \in 1 .. Parts : Request(pos'[c])[p][1] = pos'[c]
    BY <1>2, RequestProperties
  <2>3. ASSUME up'[c] = up[c] \o Request(pos'[c]), NEW k \in DOMAIN up'[c]
        PROVE  up'[c][k][1] \in 1 .. pos'[c]
    <3>0. Len(up[c]) \in Nat /\ DOMAIN up[c] = 1 .. Len(up[c])
      BY <2>1, LenProperties
    <3> DEFINE r == Request(pos'[c])
    <3>6. r \in Seq(Cells) /\ Len(r) = Parts
      BY <2>2
    <3> HIDE DEF r
    <3>7. /\ up[c] \o r \in Seq(Cells) /\ Len(up[c] \o r) = Len(up[c]) + Len(r)
          /\ \A i \in 1 .. Len(up[c]) + Len(r) :
                (up[c] \o r)[i] = IF i <= Len(up[c]) THEN up[c][i] ELSE r[i - Len(up[c])]
      BY <2>1, <3>6, ConcatProperties
    <3>8. up'[c] = up[c] \o r
      BY <2>3 DEF r
    <3>4. /\ up'[c] \in Seq(Cells) /\ Len(up'[c]) = Len(up[c]) + Parts
          /\ \A i \in 1 .. Len(up[c]) + Parts :
                up'[c][i] = IF i <= Len(up[c]) THEN up[c][i]
                            ELSE Request(pos'[c])[i - Len(up[c])]
      BY <3>6, <3>7, <3>8 DEF r
    <3>5. k \in 1 .. Len(up[c]) + Parts
      BY <3>4, LenProperties
    <3>1. /\ Len(up[c]) \in Nat /\ DOMAIN up[c] = 1 .. Len(up[c])
          /\ k \in 1 .. Len(up[c]) + Parts
          /\ up'[c][k] = IF k <= Len(up[c]) THEN up[c][k]
                         ELSE Request(pos'[c])[k - Len(up[c])]
      BY <3>0, <3>4, <3>5
    <3>2. CASE k <= Len(up[c])
      BY <2>0, <3>1, <3>2
    <3>3. CASE ~(k <= Len(up[c]))
      <4>1. k - Len(up[c]) \in 1 .. Parts
        BY <3>1, <3>3, PartsNat
      <4> QED
        BY <2>2, <3>1, <3>3, <4>1
    <3> QED
      BY <3>2, <3>3
  <2> QED
    BY <1>2, <2>0, <2>3
<1>8. CellsInv(c)'
  BY <1>2, <1>3, <1>7 DEF SessionInv, CellsInv
\* A client whose session was ended by the exit it typed is not at its prompt.
<1>9. NoticeInv(c)'
  <2>1. ~(pos[c] > 0 /\ script[c][pos[c]] = "exit")
    BY <1>2, <1>3 DEF SessionInv, ClientInv
  <2>2. Excused(c) => Excused(c)'
    BY <1>2, <2>1, MistakenSame DEF Excused
  <2> QED
    BY <1>2, <1>3, <2>2 DEF SessionInv, NoticeInv, Live
<1>10. ASSUME Plain(c)' PROVE RequestInv(c)' /\ TalkInv(c)'
  <2>1. RequestInv(c) /\ AtRest(c)
    BY <1>2, <1>3, <1>4, <1>10 DEF SessionInv, TalkInv
  <2>2. up'[c] # <<>> => up'[c] = Request(pos'[c])
    BY <1>2, <2>1, RequestProperties, ConcatEmptySeq DEF AtRest
  <2>3. /\ Len(handled[c]) = pos'[c] - 1 /\ (cur = c => srv = "recv")
        /\ Len(handled[c]) \in {pos'[c] - 1, pos'[c]}
    BY <1>2, <2>1 DEF AtRest
  <2>4. RequestInv(c)'
    BY <1>2, <2>1, <2>2, <2>3 DEF RequestInv, Request
  <2>5. Asked(c)'
    BY <1>2, <2>1, <2>3 DEF AtRest, Asked
  <2> QED
    BY <1>2, <2>4, <2>5 DEF TalkInv
<1>11. SessionInv(c)'
  BY <1>5, <1>6, <1>8, <1>9, <1>10 DEF SessionInv
<1> QED
  BY <1>1, <1>2, <1>3, <1>11, ClientStep DEF serverVars

LEMMA ReceiveResponseStep ==
    ASSUME IInv, NEW c \in Clients, ReceiveResponse(c)
    PROVE  IInv'
<1>1. TypeOK'
  BY ClientType DEF IInv, Client
<1>2. PICK k \in 1 .. Len(down[c]) :
         /\ down' = [down EXCEPT ![c] = SubSeq(@, k + 1, Len(@))]
         /\ cst' = [cst EXCEPT ![c] = IF down[c][k] = Eot THEN "mark" ELSE "wait"]
  BY DEF ReceiveResponse
<1>3. /\ cst[c] = "wait" /\ cst'[c] = (IF down[c][k] = Eot THEN "mark" ELSE "wait")
      /\ UNCHANGED <<srv, src, cur, backlog, iobuff, pending, up, cend, send, script,
                     pos, outcome, handled, heard, memory>>
      /\ \A d \in Clients : d # c => cst'[d] = cst[d] /\ down'[d] = down[d]
  BY <1>2 DEF ReceiveResponse, serverVars, IInv, TypeOK
<1>4. /\ Len(down[c]) \in Nat /\ DOMAIN down[c] = 1 .. Len(down[c])
      /\ DOMAIN down'[c] = 1 .. Len(down[c]) - k /\ Len(down'[c]) = Len(down[c]) - k
      /\ \A j \in 1 .. Len(down[c]) - k : down'[c][j] = down[c][k + j]
      /\ down'[c] = <<>> <=> k = Len(down[c])
      /\ down[c] # <<>>
  <2>1. down[c] \in Seq({Data, Eot}) /\ down'[c] = SubSeq(down[c], k + 1, Len(down[c]))
    BY <1>2 DEF IInv, TypeOK
  <2>2. Len(down[c]) \in Nat /\ DOMAIN down[c] = 1 .. Len(down[c]) /\ k \in Nat
    BY <2>1, LenProperties
  <2>3. \A i \in k + 1 .. Len(down[c]) : down[c][i] \in {Data, Eot}
    BY <2>1, <2>2, ElementOfSeq
  <2>4. /\ DOMAIN down'[c] = 1 .. Len(down[c]) - k /\ Len(down'[c]) = Len(down[c]) - k
        /\ \A j \in 1 .. Len(down[c]) - k : down'[c][j] = down[c][k + j]
        /\ down'[c] \in Seq({Data, Eot})
    BY <2>1, <2>2, <2>3, SubSeqProperties, LenProperties
  <2>5. down'[c] = <<>> <=> k = Len(down[c])
    BY <2>2, <2>4, EmptySeq
  <2> QED
    BY <2>2, <2>4, <2>5, <2>1, EmptySeq
<1>5. SessionInv(c) /\ Live(c) /\ outcome[c] = "none"
  BY <1>3 DEF IInv, SessionInv, ClientInv, Live
<1>6. QueueInv(c)' /\ ClientInv(c)' /\ CellsInv(c)' /\ NoticeInv(c)'
  BY <1>3, <1>4, <1>5, MistakenSame
     DEF SessionInv, QueueInv, ClientInv, CellsInv, NoticeInv, Reachable, InBacklog,
         Live, Excused
<1>7. Plain(c)' = Plain(c)
  BY <1>3, PlainSame
<1>8. ASSUME Plain(c)' PROVE RequestInv(c)' /\ TalkInv(c)'
  <2>1. RequestInv(c) /\ TalkInv(c)
    BY <1>5, <1>7, <1>8 DEF SessionInv
  <2>2. RequestInv(c)'
    BY <1>3, <2>1 DEF RequestInv, Request
  <2>3. Executed(c) \/ Marked(c)
    BY <1>3, <1>4, <2>1 DEF TalkInv, Asked, Closed
  <2>4. ASSUME Executed(c) PROVE TalkInv(c)'
    <3>1. cst'[c] = "wait" /\ Executed(c)'
      <4>1. ASSUME NEW j \in DOMAIN down'[c] PROVE down'[c][j] # Eot
        <5>1. k + j \in DOMAIN down[c] /\ down'[c][j] = down[c][k + j]
          BY <1>2, <1>4, <4>1
        <5> QED
          BY <2>4, <5>1 DEF Executed
      <4> QED
        BY <1>2, <1>3, <1>4, <2>4, <4>1 DEF Executed
    <3> QED
      BY <3>1 DEF TalkInv
  <2>5. ASSUME Marked(c), k = Len(down[c]) PROVE TalkInv(c)'
    <3>1. cst'[c] = "mark" /\ AtRest(c)'
      BY <1>2, <1>3, <1>4, <2>5 DEF Marked, AtRest
    <3> QED
      BY <3>1 DEF TalkInv
  <2>6. ASSUME Marked(c), k # Len(down[c]) PROVE TalkInv(c)'
    <3>1. cst'[c] = "wait" /\ down'[c] # <<>>
      BY <1>2, <1>3, <1>4, <2>6 DEF Marked
    <3>2. \A j \in DOMAIN down'[c] : down'[c][j] = Eot <=> j = Len(down'[c])
      <4>1. ASSUME NEW j \in DOMAIN down'[c]
            PROVE  down'[c][j] = Eot <=> j = Len(down'[c])
        <5>1. /\ k + j \in DOMAIN down[c] /\ down'[c][j] = down[c][k + j]
              /\ k + j = Len(down[c]) <=> j = Len(down'[c])
          BY <1>2, <1>4, <4>1
        <5> QED
          BY <2>6, <5>1 DEF Marked
      <4> QED
        BY <4>1
    <3>3. Marked(c)'
      BY <1>3, <2>6, <3>1, <3>2 DEF Marked
    <3> QED
      BY <3>1, <3>3 DEF TalkInv
  <2> QED
    BY <2>2, <2>3, <2>4, <2>5, <2>6
<1>9. SessionInv(c)'
  BY <1>6, <1>8 DEF SessionInv
<1> QED
  BY <1>1, <1>3, <1>5, <1>9, ClientStep DEF serverVars

LEMMA NextLineStep ==
    ASSUME IInv, NEW c \in Clients, NextLine(c)
    PROVE  IInv'
<1>1. TypeOK'
  BY ClientType DEF IInv, Client
<1>2. /\ cst[c] = "mark" /\ cst'[c] = "prompt"
      /\ UNCHANGED <<srv, src, cur, backlog, iobuff, pending, up, down, cend, send,
                     script, pos, outcome, handled, heard, memory>>
      /\ \A d \in Clients : d # c => cst'[d] = cst[d]
  BY DEF NextLine, serverVars, netVars, IInv, TypeOK
<1>3. SessionInv(c) /\ Live(c) /\ outcome[c] = "none"
  BY <1>2 DEF IInv, SessionInv, ClientInv, Live
<1>4. QueueInv(c)' /\ CellsInv(c)' /\ NoticeInv(c)'
  BY <1>2, <1>3, MistakenSame
     DEF SessionInv, QueueInv, CellsInv, NoticeInv, Reachable, InBacklog, Live, Excused
<1>5. ClientInv(c)'
  BY <1>2, <1>3 DEF SessionInv, ClientInv, NextLine
<1>6. Plain(c)' = Plain(c)
  BY <1>2, PlainSame
<1>7. ASSUME Plain(c)' PROVE RequestInv(c)' /\ TalkInv(c)'
  <2>1. RequestInv(c) /\ AtRest(c)
    BY <1>2, <1>3, <1>6, <1>7 DEF SessionInv, TalkInv
  <2>2. RequestInv(c)' /\ AtRest(c)'
    BY <1>2, <2>1 DEF RequestInv, Request, AtRest
  <2> QED
    BY <1>2, <2>2 DEF TalkInv
<1>8. SessionInv(c)'
  BY <1>4, <1>5, <1>7 DEF SessionInv
<1> QED
  BY <1>1, <1>2, <1>3, <1>8, ClientStep DEF serverVars

LEMMA ResetArrivesStep ==
    ASSUME IInv, NEW c \in Clients, ResetArrives(c)
    PROVE  IInv'
<1>1. TypeOK'
  BY ClientType DEF IInv, Environment
<1>2. /\ cend[c] = "poked"
      /\ UNCHANGED <<srv, src, cur, backlog, iobuff, pending, up, down, cst, send,
                     script, pos, outcome, handled, heard, memory>>
      /\ \A d \in Clients : d # c => cend'[d] = cend[d]
  BY DEF ResetArrives, serverVars, clientVars, IInv, TypeOK
<1>3. SessionInv(c)
  BY DEF IInv
<1>4. QueueInv(c)' /\ CellsInv(c)' /\ NoticeInv(c)'
  BY <1>2, <1>3, MistakenSame
     DEF SessionInv, QueueInv, CellsInv, NoticeInv, Reachable, InBacklog, Live, Excused
<1>5. ClientInv(c)'
  BY <1>2, <1>3 DEF SessionInv, ClientInv
<1>6. Plain(c)' = Plain(c)
  BY <1>2, PlainSame
<1>7. ASSUME Plain(c)' PROVE RequestInv(c)' /\ TalkInv(c)'
  <2>1. RequestInv(c) /\ TalkInv(c)
    BY <1>3, <1>6, <1>7 DEF SessionInv
  <2>2. RequestInv(c)'
    BY <1>2, <2>1 DEF RequestInv, Request
  <2>3. TalkInv(c)'
    BY <1>2, <2>1 DEF TalkInv, AtRest, Asked, Executed, Marked, Closed, Reachable, InBacklog
  <2> QED
    BY <2>2, <2>3
<1>8. SessionInv(c)'
  BY <1>4, <1>5, <1>7 DEF SessionInv
<1> QED
  BY <1>1, <1>2, <1>8, ClientStep DEF serverVars

-----------------------------------------------------------------------------
(***************************************************************************)
(* The theorems.                                                           *)
(***************************************************************************)
LEMMA InitIInv == Init => IInv
<1> SUFFICES ASSUME Init PROVE IInv
  OBVIOUS
<1> USE DEF Init
<1>1. TypeOK
  <2>1. \A c \in Clients : script[c] \in Scripts /\ pos[c] = 0 /\ Len(script[c]) \in Nat
    <3>1. ASSUME NEW c \in Clients PROVE script[c] \in Scripts /\ pos[c] = 0
      OBVIOUS
    <3>2. ASSUME NEW t \in Scripts PROVE Len(t) \in Nat
      <4>1. t \in Seq(Kinds)
        BY ScriptsAssumption
      <4> QED
        BY <4>1, LenProperties
    <3> QED
      BY <3>1, <3>2
  <2> QED
    BY <2>1, ClientsAssumption, BoundsAssumption DEF TypeOK
<1>2. ASSUME NEW c \in Clients PROVE SessionInv(c)
  <2>1. cur # c /\ ~InBacklog(c) /\ ~Reachable(c)
    BY ClientsAssumption DEF InBacklog, Reachable
  <2>2. QueueInv(c) /\ ClientInv(c) /\ CellsInv(c) /\ NoticeInv(c)
    BY <2>1 DEF QueueInv, ClientInv, CellsInv, NoticeInv, Live
  <2>3. RequestInv(c) /\ TalkInv(c)
    BY <2>1 DEF RequestInv, TalkInv
  <2> QED
    BY <2>2, <2>3 DEF SessionInv
<1>3. BacklogInv /\ StopHasCause /\ MemoryInv
  BY DEF BacklogInv, StopHasCause, MemoryInv
<1> QED
  BY <1>1, <1>2, <1>3 DEF IInv

LEMMA NextIInv == IInv /\ [Next]_vars => IInv'
<1> SUFFICES ASSUME IInv, [Next]_vars PROVE IInv'
  OBVIOUS
<1>1. CASE Server \/ BootFails \/ AcceptFails \/ NoMemory \/ Corrupted
  BY <1>1, ServerStep
<1>2. ASSUME NEW c \in Clients, Client(c) PROVE IInv'
  BY <1>2, ConnectStep, ConnectFailsStep, TypeLineStep, LeaveStep,
     ReceiveResponseStep, NextLineStep DEF Client
<1>3. ASSUME NEW c \in Clients, Environment(c) PROVE IInv'
  BY <1>3, LeaveStep, ResetArrivesStep DEF Environment
<1>4. CASE UNCHANGED vars
  <2>1. /\ UNCHANGED <<srv, src, cur, backlog, iobuff, pending, up, down, cend, send>>
        /\ UNCHANGED <<cst, script, pos, outcome, handled, heard, memory>>
    BY <1>4 DEF vars, serverVars, netVars, clientVars
  <2>2. TypeOK' /\ BacklogInv'
    BY <2>1 DEF IInv, TypeOK, BacklogInv
  <2>3. ASSUME NEW c \in Clients PROVE SessionInv(c)'
    BY <2>1, SessionFrame DEF IInv, Idle, Unserved, InBacklog
  <2>4. StopHasCause' /\ MemoryInv'
    BY <2>1, CauseFrame, MemoryFrame DEF IInv
  <2> QED
    BY <2>2, <2>3, <2>4 DEF IInv
<1> QED
  BY <1>1, <1>2, <1>3, <1>4 DEF Next, Over

\* The conversation of every client with the server is, at every time, in one of
\* the states that IInv lists, whatever the clients type, however their requests
\* are cut and whoever fails.
THEOREM Invariance == Spec => []IInv
BY InitIInv, NextIInv, PTL DEF Spec

\* The variables of server, connections and clients keep their types.
THEOREM TypeCorrect == Spec => []TypeOK
<1>1. IInv => TypeOK
  BY DEF IInv
<1> QED
  BY <1>1, Invariance, PTL

\* The server handles the requests of a session once each and in the order in
\* which they were typed: exec_client_requests never takes a request twice, and
\* the client never sends one before the last is answered.
THEOREM HandledOnceInOrder == Spec => []OnceInOrder
<1>1. IInv => OnceInOrder
  <2> SUFFICES ASSUME IInv, NEW c \in Clients, Plain(c)
               PROVE  /\ Len(handled[c]) <= pos[c]
                      /\ \A n \in DOMAIN handled[c] : handled[c][n] = n
    BY DEF OnceInOrder
  <2>1. RequestInv(c) /\ pos[c] \in Nat
    BY DEF IInv, SessionInv, TypeOK
  <2> QED
    BY <2>1 DEF RequestInv
<1> QED
  BY <1>1, Invariance, PTL

\* When a client whose commands write no RDSH_EOF_CHAR is back at its prompt, it
\* has seen the whole answer to all it sent, and the server is at its recv():
\* the mark of send_message_eof ends the receive loop of exec_remote_cmd_loop at
\* the right byte.
THEOREM PromptInSync == Spec => []InSync
<1>1. IInv => InSync
  BY DEF IInv, SessionInv, TalkInv, AtRest, InSync
<1> QED
  BY <1>1, Invariance, PTL

\* start_server returns OK_EXIT only after a stop-server.  While every client asks
\* for lines that can be parsed, that have a command with a name and that fit
\* argv, and the parser gets its memory, start_server does not return ERR_EXEC_CMD,
\* and the server process dies only of a client that went away with an answer on
\* its way.
THEOREM EndHasCause == Spec => []StopHasCause
<1>1. IInv => StopHasCause
  BY DEF IInv
<1> QED
  BY <1>1, Invariance, PTL

\* RCMD_SERVER_EXITED is printed only by a client that a server which ended, or
\* the exit it was taken to type, has left.
THEOREM ExitNoticeTrue == Spec => []NoticeTrue
<1>1. IInv => NoticeTrue
  BY DEF IInv, SessionInv, NoticeInv, NoticeTrue, Excused
<1> QED
  BY <1>1, Invariance, PTL
=============================================================================
