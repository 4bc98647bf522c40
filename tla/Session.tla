------------------------------- MODULE Session -------------------------------
(***************************************************************************)
(* What passes between the client program pmc (client/cli_handler.cpp) and *)
(* the server: main's accept loop (server/server.cpp), the thread that     *)
(* serves a connection (server/request_handler.cpp, request_data.cpp) and  *)
(* the sockets under both (common/socket_manager.cpp).                     *)
(*                                                                         *)
(* A client opens two connections, one after the other: it asks for the    *)
(* server's version on the first and gives its command on the second.  The *)
(* server starts a thread per connection, but waits for it before the next *)
(* accept: the future std::async returns is dropped, and its destructor    *)
(* waits.  A message is a PDU with its length; TCP keeps their order.  A   *)
(* client may be killed at any moment; a server is killed by SIGPIPE when  *)
(* it goes on sending to a client that has closed.  An accept may fail,    *)
(* which ends main's loop.                                                 *)
(***************************************************************************)
EXTENDS Naturals, Sequences, FiniteSets

CONSTANTS
  Clients,
  OldClients,   \* the clients whose APP_VERSION is not the server's
  MaxOutputs,   \* bound: outputs of a command
  QueueLength   \* SERVER_CON_QUEUE_BUF

ASSUME ClientsAssumption == OldClients \subseteq Clients /\ IsFiniteSet(Clients)
ASSUME BoundsAssumption == MaxOutputs \in Nat /\ QueueLength \in Nat \ {0}

Conns == Clients \X {"version", "command"}

VARIABLES
  alive,     \* the server's process exists
  accepting, \* main is in its accept loop
  backlog,   \* connections that are established and not accepted yet
  handler,   \* the step of the thread that serves a connection, or "none"
  total,     \* the outputs the client's command has, once it is executed
  sent,      \* how many of them have been sent
  executed,  \* how often the client's command has been executed
  client,    \* the step each client has reached
  printed,   \* the outputs it has printed
  killed,    \* the clients that have been killed
  toServer, toClient,  \* messages under way on a connection
  closed,    \* connections the client has closed
  broken     \* connections the server has sent on since

clientVars == <<client, printed, killed>>
workVars == <<total, sent, executed>>
netVars == <<toServer, toClient, closed, broken>>
vars == <<alive, accepting, backlog, handler, total, sent, executed, client, printed, killed,
          toServer, toClient, closed, broken>>

Message == [fc : {"VERSION", "COMMAND", "EXIT"}, n : {0}] \union [fc : {"OUTPUT"}, n : Nat]
Msg(fc) == [fc |-> fc, n |-> 0]
Output(n) == [fc |-> "OUTPUT", n |-> n]

Init ==
  /\ alive = TRUE /\ accepting = TRUE /\ backlog = <<>>
  /\ handler = [k \in Conns |-> "none"]
  /\ total = [c \in Clients |-> 0] /\ sent = [c \in Clients |-> 0]
  /\ executed = [c \in Clients |-> 0]
  /\ client = [c \in Clients |-> "start"]
  /\ printed = [c \in Clients |-> <<>>]
  /\ killed = {}
  /\ toServer = [k \in Conns |-> <<>>] /\ toClient = [k \in Conns |-> <<>>]
  /\ closed = {} /\ broken = {}

-----------------------------------------------------------------------------
(* The client: checkVersion, then executeRequest.                          *)

\* The connection a client is on, or is about to open.
ConnOf(c) == <<c, IF client[c] \in {"start", "sendVersion", "awaitVersion"}
                  THEN "version" ELSE "command">>

Running(c) == client[c] \notin {"done", "failed"}

GoOn(c, step) == client' = [client EXCEPT ![c] = step]

\* connectToServer.  With the backlog full the call waits; without a server it
\* is refused.
Connect(c) ==
  /\ client[c] \in {"start", "verified"}
  /\ IF alive
     THEN /\ Len(backlog) < QueueLength
          /\ backlog' = Append(backlog, ConnOf(c))
          /\ GoOn(c, IF client[c] = "start" THEN "sendVersion" ELSE "sendCommand")
     ELSE GoOn(c, "failed") /\ UNCHANGED backlog
  /\ UNCHANGED <<alive, accepting, handler, workVars, printed, killed, netVars>>

SendRequest(c) ==
  /\ alive
  /\ \/ /\ client[c] = "sendVersion" /\ GoOn(c, "awaitVersion")
        /\ toServer' = [toServer EXCEPT ![ConnOf(c)] = Append(@, Msg("VERSION"))]
     \/ /\ client[c] = "sendCommand" /\ GoOn(c, "awaitExit")
        /\ toServer' = [toServer EXCEPT ![ConnOf(c)] = Append(@, Msg("COMMAND"))]
  /\ UNCHANGED <<alive, accepting, backlog, handler, workVars, printed, killed, toClient, closed, broken>>

\* Close the connection; what has arrived on it is dropped.
Close(k) ==
  /\ closed' = closed \union {k}
  /\ toClient' = [toClient EXCEPT ![k] = <<>>]

\* CMD_EXIT goes out, and the sockets are closed when the function returns.
SayExit(k) ==
  /\ toServer' = [toServer EXCEPT ![k] = Append(@, Msg("EXIT"))]
  /\ Close(k)

\* checkVersion reads one message and closes: the server's CMD_EXIT is not read.
ReceiveVersion(c) ==
  /\ client[c] = "awaitVersion" /\ toClient[ConnOf(c)] # <<>>
  /\ SayExit(ConnOf(c))
  /\ GoOn(c, IF c \in OldClients THEN "failed" ELSE "verified")
  /\ UNCHANGED <<alive, accepting, backlog, handler, workVars, printed, killed, broken>>

\* executeRequest prints what comes until CMD_EXIT.
ReceiveOutput(c) ==
  /\ client[c] = "awaitExit" /\ toClient[ConnOf(c)] # <<>>
  /\ LET k == ConnOf(c)
         m == Head(toClient[k])
     IN  IF m.fc = "EXIT"
         THEN SayExit(k) /\ GoOn(c, "done") /\ UNCHANGED printed
         ELSE /\ printed' = [printed EXCEPT ![c] = Append(@, m.n)]
              /\ toClient' = [toClient EXCEPT ![k] = Tail(@)]
              /\ UNCHANGED <<client, toServer, closed>>
  /\ UNCHANGED <<alive, accepting, backlog, handler, workVars, killed, broken>>

\* The server is gone: sending fails, or receiving when nothing is left to read.
CutOff(c) ==
  /\ ~alive
  /\ client[c] \in {"sendVersion", "awaitVersion", "sendCommand", "awaitExit"}
  /\ toClient[ConnOf(c)] = <<>>
  /\ GoOn(c, "failed")
  /\ Close(ConnOf(c))
  /\ UNCHANGED <<alive, accepting, backlog, handler, workVars, printed, killed, toServer, broken>>

\* A client is killed, by its user for instance; the kernel closes its socket.
Kill(c) ==
  /\ Running(c)
  /\ killed' = killed \union {c}
  /\ GoOn(c, "failed")
  /\ IF client[c] \in {"start", "verified"} THEN UNCHANGED <<toClient, closed>>
     ELSE Close(ConnOf(c))
  /\ UNCHANGED <<alive, accepting, backlog, handler, workVars, printed, toServer, broken>>

-----------------------------------------------------------------------------
(* The server.                                                             *)

\* Mutant of Accept: the future is kept and not waited for.
AcceptAsync ==
  /\ alive /\ accepting /\ backlog # <<>>
  /\ handler' = [handler EXCEPT ![Head(backlog)] = "receive"]
  /\ backlog' = Tail(backlog)
  /\ UNCHANGED <<alive, accepting, workVars, clientVars, netVars>>

\* The accept loop of main starts the next thread when the last has ended.
Accept ==
  /\ alive /\ accepting /\ backlog # <<>>
  /\ \A k \in Conns : handler[k] = "none"
  /\ handler' = [handler EXCEPT ![Head(backlog)] = "receive"]
  /\ backlog' = Tail(backlog)
  /\ UNCHANGED <<alive, accepting, workVars, clientVars, netVars>>

\* accept fails: no descriptor is left, or a connection was given up.  main calls
\* exit, whose destructor of ProcessPollManager joins a thread that never ends.
\* The process stays, its socket is open and listens, and nobody accepts.
AcceptFails ==
  /\ alive /\ accepting
  /\ \A k \in Conns : handler[k] = "none"
  /\ accepting' = FALSE
  /\ UNCHANGED <<alive, backlog, handler, workVars, clientVars, netVars>>

\* The first message says what to do.  A connection that ends before it ends the
\* thread.
Receive(k) ==
  /\ handler[k] = "receive"
  /\ \/ /\ toServer[k] # <<>>
        /\ toServer' = [toServer EXCEPT ![k] = Tail(@)]
        /\ \/ /\ Head(toServer[k]).fc = "VERSION"
              /\ handler' = [handler EXCEPT ![k] = "version"]
              /\ UNCHANGED workVars
           \/ /\ Head(toServer[k]).fc = "COMMAND"
              /\ handler' = [handler EXCEPT ![k] = "outputs"]
              /\ executed' = [executed EXCEPT ![k[1]] = @ + 1]
              /\ \E n \in 0..MaxOutputs : total' = [total EXCEPT ![k[1]] = n]
              /\ UNCHANGED sent
     \/ /\ toServer[k] = <<>> /\ k \in closed
        /\ handler' = [handler EXCEPT ![k] = "none"]
        /\ UNCHANGED <<toServer, workVars>>
  /\ UNCHANGED <<alive, accepting, backlog, clientVars, toClient, closed, broken>>

\* BaseSocket::Send.  The first message sent to a client that has closed goes
\* nowhere, and makes its kernel answer with a reset.
Deliver(k, m) ==
  IF k \in closed
  THEN broken' = broken \union {k} /\ UNCHANGED toClient
  ELSE toClient' = [toClient EXCEPT ![k] = Append(@, m)] /\ UNCHANGED broken

\* Mutant of SendVersion: other outputs follow the version.
SendVersionAndOutputs(k) ==
  /\ handler[k] = "version"
  /\ Deliver(k, Msg("VERSION"))
  /\ handler' = [handler EXCEPT ![k] = "outputs"]
  /\ total' = [total EXCEPT ![k[1]] = MaxOutputs]
  /\ UNCHANGED <<alive, accepting, backlog, sent, executed, clientVars, toServer, closed>>

SendVersion(k) ==
  /\ handler[k] = "version"
  /\ Deliver(k, Msg("VERSION"))
  /\ handler' = [handler EXCEPT ![k] = "exit"]
  /\ UNCHANGED <<alive, accepting, backlog, workVars, clientVars, toServer, closed>>

\* Mutant of SendOutput: one output too many.
SendOutputOneMore(k) ==
  /\ handler[k] = "outputs" /\ sent[k[1]] <= total[k[1]]
  /\ Deliver(k, Output(sent[k[1]] + 1))
  /\ sent' = [sent EXCEPT ![k[1]] = @ + 1]
  /\ UNCHANGED <<alive, accepting, backlog, handler, total, executed, clientVars, toServer, closed>>

\* One SendResponseStream of the command.  A send that fails does not end it.
SendOutput(k) ==
  /\ handler[k] = "outputs" /\ sent[k[1]] < total[k[1]]
  /\ Deliver(k, Output(sent[k[1]] + 1))
  /\ sent' = [sent EXCEPT ![k[1]] = @ + 1]
  /\ UNCHANGED <<alive, accepting, backlog, handler, total, executed, clientVars, toServer, closed>>

\* Mutant of SendExit: CMD_EXIT may overtake the outputs.
SendExitEarly(k) ==
  /\ handler[k] \in {"exit", "outputs"}
  /\ Deliver(k, Msg("EXIT"))
  /\ handler' = [handler EXCEPT ![k] = "ack"]
  /\ UNCHANGED <<alive, accepting, backlog, workVars, clientVars, toServer, closed>>

SendExit(k) ==
  /\ \/ handler[k] = "exit"
     \/ handler[k] = "outputs" /\ sent[k[1]] = total[k[1]]
  /\ Deliver(k, Msg("EXIT"))
  /\ handler' = [handler EXCEPT ![k] = "ack"]
  /\ UNCHANGED <<alive, accepting, backlog, workVars, clientVars, toServer, closed>>

\* A second message to a closed connection, after the reset has come: SIGPIPE.
\* All the server's sockets are closed with it.
SigPipe(k) ==
  /\ k \in broken
  /\ handler[k] \in {"outputs", "exit"}
  /\ alive' = FALSE /\ accepting' = FALSE
  /\ handler' = [j \in Conns |-> "none"]
  /\ backlog' = <<>>
  /\ UNCHANGED <<workVars, clientVars, netVars>>

\* Mutant of ReceiveAck: the end of the connection is not an answer.
ReceiveAckForSure(k) ==
  /\ handler[k] = "ack"
  /\ toServer[k] # <<>>
  /\ handler' = [handler EXCEPT ![k] = "none"]
  /\ toServer' = [toServer EXCEPT ![k] = <<>>]
  /\ UNCHANGED <<alive, accepting, backlog, workVars, clientVars, toClient, closed, broken>>

\* The client's CMD_EXIT, or the end of the connection, ends the thread.
ReceiveAck(k) ==
  /\ handler[k] = "ack"
  /\ toServer[k] # <<>> \/ k \in closed
  /\ handler' = [handler EXCEPT ![k] = "none"]
  /\ toServer' = [toServer EXCEPT ![k] = <<>>]
  /\ UNCHANGED <<alive, accepting, backlog, workVars, clientVars, toClient, closed, broken>>

-----------------------------------------------------------------------------
ClientNext(c) ==
  Connect(c) \/ SendRequest(c) \/ ReceiveVersion(c) \/ ReceiveOutput(c) \/ CutOff(c)

ServerNext ==
  \/ Accept
  \/ \E k \in Conns : \/ Receive(k) \/ SendVersion(k) \/ SendOutput(k) \/ SendExit(k)
                      \/ SigPipe(k) \/ ReceiveAck(k)

Next == ServerNext \/ AcceptFails \/ \E c \in Clients : ClientNext(c) \/ Kill(c)

Spec == Init /\ [][Next]_vars

\* A client that has been started goes on, and so does the server: each is a
\* program without waits other than those in the guards.  That a command's own
\* execution ends is CommandServed of ProcessManager.  Nobody has to be killed,
\* and accept need not fail.
Fairness == WF_vars(ServerNext) /\ \A c \in Clients : WF_vars(ClientNext(c))

FairSpec == Spec /\ Fairness

-----------------------------------------------------------------------------
(* Properties.                                                             *)

ClientSteps == {"start", "sendVersion", "awaitVersion", "verified", "sendCommand",
                "awaitExit", "done", "failed"}
HandlerSteps == {"none", "receive", "version", "outputs", "exit", "ack"}

\* Types of both programs and of what is between them; a message can be lost only
\* on a connection that is closed, and no output is sent that the command has not.
TypeOK ==
  /\ alive \in BOOLEAN /\ accepting \in BOOLEAN
  /\ (accepting => alive)
  /\ backlog \in Seq(Conns)
  /\ handler \in [Conns -> HandlerSteps]
  /\ total \in [Clients -> Nat] /\ sent \in [Clients -> Nat] /\ executed \in [Clients -> Nat]
  /\ client \in [Clients -> ClientSteps]
  /\ printed \in [Clients -> Seq(Nat)] /\ killed \subseteq Clients
  /\ toServer \in [Conns -> Seq(Message)] /\ toClient \in [Conns -> Seq(Message)]
  /\ closed \subseteq Conns /\ broken \subseteq closed
  /\ \A c \in Clients : sent[c] <= total[c]

\* Two connections are never served at once: there is one primary for
\* ProcConfigLock, and one thread that loads the configuration or looks into it.
OneAtATime == \A j, k \in Conns : handler[j] # "none" /\ handler[k] # "none" => j = k

\* Only a client that is killed can take the server with it.  One that runs to
\* its end leaves the server at most one message behind.
ServerSurvives == alive \/ killed # {}

\* A client that ends well has printed all its command's outputs, in their order,
\* and the command has been executed once.
WholeOutput ==
  \A c \in Clients : client[c] = "done" =>
    executed[c] = 1 /\ printed[c] = [n \in 1..total[c] |-> n]

\* Every client that is started comes to an end, whatever others are killed, while
\* the server accepts.  Once accept has failed the others may wait for ever: the
\* server neither serves them nor ends.
ClientServed ==
  \A c \in Clients : <>(client[c] \in {"done", "failed"} \/ (alive /\ ~accepting))
=============================================================================
