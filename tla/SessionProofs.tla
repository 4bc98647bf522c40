---------------------------- MODULE SessionProofs ----------------------------
(* Theorems about Session, for every set of clients, every number of outputs *)
(* and every length of the queue; about ServerLife, for any number of        *)
(* servers, started one after the other or at once, and of children; and     *)
(* about ByteStream, over which every connection of a session speaks, for    *)
(* messages of any length and any cuts of the stream.                        *)
EXTENDS Session, ServerLife, ByteStream, SequenceTheorems, FiniteSetTheorems, TLAPS

-----------------------------------------------------------------------------
(* The inductive invariant: how far a connection has come, seen from both   *)
(* ends and from what is under way between them.                            *)

V(c) == <<c, "version">>
K(c) == <<c, "command">>

\* The two connections do not do each other's work, and neither asks for it.
KindInv ==
  \A c \in Clients :
    /\ handler[V(c)] # "outputs" /\ handler[K(c)] \notin {"version", "exit"}
    /\ \A i \in 1 .. Len(toServer[V(c)]) : toServer[V(c)][i].fc # "COMMAND"
    /\ \A i \in 1 .. Len(toServer[K(c)]) : toServer[K(c)][i].fc # "VERSION"

\* A connection the client has not opened.
Fresh(k) == handler[k] = "none" /\ toClient[k] = <<>> /\ k \notin closed /\ \A i \in 1 .. Len(backlog) : backlog[i] # k

FreshInv ==
  \A c \in Clients :
    /\ client[c] = "start" => Fresh(V(c))
    /\ client[c] \in {"start", "sendVersion", "awaitVersion", "verified"} => Fresh(K(c)) /\ executed[c] = 0

\* A connection in the queue waits there once, for the first time.
QueueInv ==
  /\ \A i, j \in 1 .. Len(backlog) : backlog[i] = backlog[j] => i = j
  /\ \A i \in 1 .. Len(backlog) :
       /\ handler[backlog[i]] = "none" /\ toClient[backlog[i]] = <<>>
       /\ backlog[i][2] = "command" => executed[backlog[i][1]] = 0

\* A command is executed once, and has outputs only then.
OnceInv ==
  \A c \in Clients :
    /\ executed[c] \in {0, 1}
    /\ handler[K(c)] = "receive" => executed[c] = 0
    /\ handler[K(c)] \in {"outputs", "ack"} => executed[c] = 1
    /\ executed[c] = 0 => total[c] = 0 /\ sent[c] = 0 /\ toClient[K(c)] = <<>> /\ printed[c] = <<>>

\* The version is under way only when it has been sent.
VersionInv == \A c \in Clients : toClient[V(c)] # <<>> => handler[V(c)] \notin {"receive", "version"}

Exits(q) == q # <<>> /\ q[Len(q)] = Msg("EXIT")

\* What is printed and what is under way are the outputs sent so far, in their order, and
\* CMD_EXIT behind the last.
Queued(q, n) == \A i \in 1 .. Len(q) : q[i] = Output(n + i) \/ (i = Len(q) /\ q[i] = Msg("EXIT"))

Counted(c) ==
  IF Exits(toClient[K(c)])
  THEN /\ Len(printed[c]) + Len(toClient[K(c)]) = sent[c] + 1
       /\ sent[c] = total[c] /\ handler[K(c)] # "outputs"
  ELSE Len(printed[c]) + Len(toClient[K(c)]) = sent[c]

FlowInv ==
  \A c \in Clients :
    /\ printed[c] = [i \in 1 .. Len(printed[c]) |-> i]
    /\ Queued(toClient[K(c)], Len(printed[c]))
    /\ K(c) \notin closed => Counted(c)

DoneInv ==
  \A c \in Clients :
    client[c] = "done" =>
      executed[c] = 1 /\ Len(printed[c]) = total[c] /\ handler[K(c)] # "outputs"

\* A connection that is closed has nothing under way to the client.  A client that
\* has not been killed closes late: what is left to send is one message.
ClosedInv ==
  \A k \in Conns :
    /\ k \in closed => toClient[k] = <<>>
    /\ alive /\ k[1] \notin killed =>
         /\ k \in closed =>
              /\ handler[k] \notin {"receive", "version", "outputs"}
              /\ \A i \in 1 .. Len(backlog) : backlog[i] # k
         /\ k \in broken => handler[k] \notin {"outputs", "exit"}

IInv ==
  /\ TypeOK /\ OneAtATime /\ ServerSurvives
  /\ KindInv /\ FreshInv /\ QueueInv /\ OnceInv /\ VersionInv /\ FlowInv /\ DoneInv /\ ClosedInv

-----------------------------------------------------------------------------
(* Connections and queues.                                                 *)

LEMMA Connections ==
  /\ \A c \in Clients : /\ V(c) \in Conns /\ V(c)[1] = c /\ V(c)[2] = "version"
                         /\ K(c) \in Conns /\ K(c)[1] = c /\ K(c)[2] = "command"
                         /\ ConnOf(c) = IF client[c] \in {"start", "sendVersion", "awaitVersion"} THEN V(c) ELSE K(c)
  /\ \A k \in Conns : /\ k[1] \in Clients /\ k[2] \in {"version", "command"}
                       /\ k = IF k[2] = "version" THEN V(k[1]) ELSE K(k[1])
BY DEF Conns, V, K, ConnOf

\* Messages are appended and taken as the network does.
LEMMA Appending ==
  ASSUME NEW S, NEW q \in Seq(S), NEW e \in S
  PROVE  /\ Append(q, e) \in Seq(S) /\ Append(q, e) # <<>> /\ Len(Append(q, e)) = Len(q) + 1
         /\ Append(q, e)[Len(q) + 1] = e
         /\ \A i \in 1 .. Len(q) : Append(q, e)[i] = q[i]
BY AppendProperties

LEMMA Taking ==
  ASSUME NEW S, NEW q \in Seq(S), q # <<>>
  PROVE  /\ Head(q) \in S /\ Head(q) = q[1] /\ Len(q) \in Nat \ {0}
         /\ Tail(q) \in Seq(S) /\ Len(Tail(q)) = Len(q) - 1
         /\ \A i \in 1 .. Len(q) - 1 : Tail(q)[i] = q[i + 1]
BY HeadTailProperties, EmptySeq

LEMMA Emptied ==
  ASSUME NEW S, NEW q \in Seq(S), NEW t \in Seq(S), Len(q) \in Nat \ {0}, Len(t) = Len(q) - 1,
         \A i \in 1 .. Len(q) - 1 : t[i] = q[i + 1]
  PROVE  IF Len(q) = 1 THEN t = <<>> ELSE Len(t) \in 1 .. Len(q) - 1 /\ t # <<>> /\ t[Len(t)] = q[Len(q)]
<1>1. CASE Len(q) = 1
  BY <1>1, EmptySeq
<1>2. CASE Len(q) # 1
  <2>1. Len(t) \in 1 .. Len(q) - 1 /\ Len(t) + 1 = Len(q) /\ Len(t) # 0
    BY <1>2
  <2>2. t # <<>>
    BY <2>1, EmptySeq
  <2> QED
    BY <1>2, <2>1, <2>2
<1> QED
  BY <1>1, <1>2

\* Nothing comes into a queue when its first message is taken.
LEMMA Shifted ==
  ASSUME NEW S, NEW q \in Seq(S), q # <<>>
  PROVE  \A i \in 1 .. Len(Tail(q)) : \E n \in 1 .. Len(q) : Tail(q)[i] = q[n]
<1>1. /\ Len(q) \in Nat \ {0} /\ Len(Tail(q)) = Len(q) - 1
      /\ \A i \in 1 .. Len(q) - 1 : Tail(q)[i] = q[i + 1]
  BY Taking
<1>2. \A i \in 1 .. Len(q) - 1 : i + 1 \in 1 .. Len(q)
  BY <1>1
<1> QED
  BY <1>1, <1>2, Zenon

LEMMA MessageTypes ==
  /\ \A fc \in {"VERSION", "COMMAND", "EXIT"} : Msg(fc) \in Message /\ Msg(fc).fc = fc
  /\ \A n \in Nat : Output(n) \in Message /\ Output(n).fc = "OUTPUT" /\ Output(n).n = n
BY DEF Message, Msg, Output

\* What the helpers of the actions do, connection by connection.
LEMMA Steps ==
  ASSUME TypeOK, NEW c \in Clients, NEW step \in ClientSteps, GoOn(c, step)
  PROVE  /\ client' \in [Clients -> ClientSteps]
         /\ \A d \in Clients : client'[d] = IF d = c THEN step ELSE client[d]
BY DEF TypeOK, GoOn

LEMMA Posts ==
  ASSUME TypeOK, NEW k \in Conns, NEW m \in Message, toServer' = [toServer EXCEPT ![k] = Append(@, m)]
  PROVE  /\ toServer' \in [Conns -> Seq(Message)]
         /\ \A j \in Conns : toServer'[j] = IF j = k THEN Append(toServer[k], m) ELSE toServer[j]
<1>1. toServer \in [Conns -> Seq(Message)]
  BY DEF TypeOK
<1>2. Append(toServer[k], m) \in Seq(Message)
  BY <1>1, Appending
<1> QED
  BY <1>1, <1>2

\* A message of the right kind keeps the requests apart.
LEMMA PostKind ==
  ASSUME TypeOK, KindInv, NEW k \in Conns, NEW m \in Message, toServer' = [toServer EXCEPT ![k] = Append(@, m)],
         m.fc = "VERSION" => k[2] = "version", m.fc = "COMMAND" => k[2] = "command", UNCHANGED handler
  PROVE  KindInv'
<1>1. ASSUME NEW j \in Conns, NEW i \in 1 .. Len(toServer'[j])
      PROVE  (j = k /\ toServer'[j][i] = m) \/ (i \in 1 .. Len(toServer[j]) /\ toServer'[j][i] = toServer[j][i])
  <2>1. toServer[k] \in Seq(Message) /\ Len(toServer[k]) \in Nat
    BY DEF TypeOK
  <2>2. /\ Len(Append(toServer[k], m)) = Len(toServer[k]) + 1 /\ Append(toServer[k], m)[Len(toServer[k]) + 1] = m
        /\ \A n \in 1 .. Len(toServer[k]) : Append(toServer[k], m)[n] = toServer[k][n]
    BY <2>1, Appending
  <2>3. toServer'[j] = IF j = k THEN Append(toServer[k], m) ELSE toServer[j]
    BY Posts
  <2>4. CASE j = k
    BY <2>1, <2>2, <2>3, <2>4
  <2>5. CASE j # k
    BY <2>3, <2>5
  <2> QED
    BY <2>4, <2>5
<1>2. ASSUME NEW c \in Clients
      PROVE  /\ \A i \in 1 .. Len(toServer'[V(c)]) : toServer'[V(c)][i].fc # "COMMAND"
             /\ \A i \in 1 .. Len(toServer'[K(c)]) : toServer'[K(c)][i].fc # "VERSION"
  <2>1. ASSUME NEW i \in 1 .. Len(toServer'[V(c)])
        PROVE  toServer'[V(c)][i].fc # "COMMAND"
    <3>1. CASE V(c) = k /\ toServer'[V(c)][i] = m
      BY <3>1, Connections
    <3> QED
      BY <1>1, <3>1, Connections DEF KindInv
  <2>2. ASSUME NEW i \in 1 .. Len(toServer'[K(c)])
        PROVE  toServer'[K(c)][i].fc # "VERSION"
    <3>1. CASE K(c) = k /\ toServer'[K(c)][i] = m
      BY <3>1, Connections
    <3> QED
      BY <1>1, <3>1, Connections DEF KindInv
  <2> QED
    BY <2>1, <2>2
<1> QED
  BY <1>2 DEF KindInv

LEMMA Delivers ==
  ASSUME TypeOK, NEW k \in Conns, NEW m \in Message, Deliver(k, m), closed' = closed
  PROVE  /\ toClient' \in [Conns -> Seq(Message)] /\ broken' \subseteq closed
         /\ \A j \in Conns : toClient'[j] = IF j = k /\ k \notin closed THEN Append(toClient[k], m) ELSE toClient[j]
         /\ broken' = IF k \in closed THEN broken \union {k} ELSE broken
<1>1. toClient \in [Conns -> Seq(Message)] /\ broken \subseteq closed
  BY DEF TypeOK
<1>2. CASE k \in closed
  BY <1>1, <1>2 DEF Deliver
<1>3. CASE k \notin closed
  <2>1. toClient' = [toClient EXCEPT ![k] = Append(toClient[k], m)] /\ broken' = broken
    BY <1>3 DEF Deliver
  <2>2. Append(toClient[k], m) \in Seq(Message)
    BY <1>1, Appending
  <2> QED
    BY <1>1, <1>3, <2>1, <2>2
<1> QED
  BY <1>2, <1>3

LEMMA Closes ==
  ASSUME TypeOK, NEW k \in Conns, Close(k)
  PROVE  /\ toClient' \in [Conns -> Seq(Message)] /\ closed' = closed \union {k} /\ closed' \subseteq Conns
         /\ \A j \in Conns : toClient'[j] = IF j = k THEN <<>> ELSE toClient[j]
<1>1. toClient \in [Conns -> Seq(Message)] /\ closed \subseteq Conns /\ <<>> \in Seq(Message)
  BY EmptySeq DEF TypeOK
<1> QED
  BY <1>1 DEF Close

-----------------------------------------------------------------------------
(* The steps of a client.                                                  *)

LEMMA ConnectStep ==
  ASSUME IInv, NEW c \in Clients, Connect(c)
  PROVE  IInv'
<1> DEFINE k == ConnOf(c)
<1>1. /\ TypeOK /\ KindInv /\ FreshInv /\ QueueInv /\ OnceInv /\ VersionInv /\ FlowInv /\ DoneInv /\ ClosedInv
      /\ OneAtATime /\ ServerSurvives
  BY DEF IInv
<1>2. /\ UNCHANGED <<alive, accepting, handler, total, sent, executed, printed, killed>>
      /\ UNCHANGED <<toServer, toClient, closed, broken>>
  BY DEF Connect, workVars, netVars
<1>3. /\ client[c] \in {"start", "verified"} /\ k \in Conns
      /\ k = IF client[c] = "start" THEN V(c) ELSE K(c)
  BY Connections DEF Connect
<1>4. PICK step \in {"sendVersion", "sendCommand", "failed"} :
        /\ step \in {"sendVersion", "failed"} \/ client[c] = "verified"
        /\ step \in {"sendCommand", "failed"} \/ client[c] = "start"
        /\ client' \in [Clients -> ClientSteps]
        /\ \A d \in Clients : client'[d] = IF d = c THEN step ELSE client[d]
  BY <1>1, Steps DEF Connect, ClientSteps
<1>5. /\ backlog' \in Seq(Conns)
      /\ \/ backlog' = backlog
         \/ /\ Len(backlog') = Len(backlog) + 1 /\ backlog'[Len(backlog) + 1] = k
            /\ \A i \in 1 .. Len(backlog) : backlog'[i] = backlog[i]
  <2>1. backlog \in Seq(Conns) /\ (backlog' = backlog \/ backlog' = Append(backlog, k))
    BY <1>1 DEF Connect, TypeOK
  <2> QED
    BY <1>3, <2>1, Appending
<1>6. TypeOK'
  BY <1>1, <1>2, <1>4, <1>5 DEF TypeOK
<1>7. (OneAtATime /\ ServerSurvives)'
  BY <1>1, <1>2 DEF OneAtATime, ServerSurvives
<1>8. (KindInv /\ OnceInv /\ VersionInv /\ FlowInv)'
  BY <1>1, <1>2 DEF KindInv, OnceInv, VersionInv, FlowInv, Counted
<1>9. Fresh(k) /\ (k[2] = "command" => executed[c] = 0)
  BY <1>1, <1>3, Connections DEF FreshInv
<1>10. FreshInv'
  BY <1>1, <1>2, <1>3, <1>4, <1>5, Connections DEF FreshInv, Fresh
<1>11. QueueInv'
  BY <1>1, <1>2, <1>5, <1>9, Connections DEF QueueInv, Fresh
<1>12. DoneInv'
  BY <1>1, <1>2, <1>4 DEF DoneInv
<1>13. ClosedInv'
  BY <1>1, <1>2, <1>5, <1>9 DEF ClosedInv, Fresh
<1> QED
  BY <1>6, <1>7, <1>8, <1>10, <1>11, <1>12, <1>13 DEF IInv

LEMMA SendRequestStep ==
  ASSUME IInv, NEW c \in Clients, SendRequest(c)
  PROVE  IInv'
<1> DEFINE k == ConnOf(c)
<1>1. /\ TypeOK /\ KindInv /\ FreshInv /\ QueueInv /\ OnceInv /\ VersionInv /\ FlowInv /\ DoneInv /\ ClosedInv
      /\ OneAtATime /\ ServerSurvives
  BY DEF IInv
<1>2. /\ UNCHANGED <<alive, accepting, backlog, handler, total, sent, executed, printed, killed>>
      /\ UNCHANGED <<toClient, closed, broken>>
  BY DEF SendRequest, workVars
<1>3. PICK m \in {Msg("VERSION"), Msg("COMMAND")}, step \in {"awaitVersion", "awaitExit"} :
        /\ step = "awaitVersion" => client[c] = "sendVersion" /\ m = Msg("VERSION")
        /\ step = "awaitExit" => client[c] = "sendCommand" /\ m = Msg("COMMAND")
        /\ GoOn(c, step)
        /\ toServer' = [toServer EXCEPT ![k] = Append(@, m)]
  BY DEF SendRequest
<1>4. /\ k \in Conns /\ m \in Message /\ m.fc \in {"VERSION", "COMMAND"}
      /\ m.fc = "VERSION" => k = V(c)
      /\ m.fc = "COMMAND" => k = K(c)
  BY <1>3, Connections, MessageTypes
<1>5. /\ client' \in [Clients -> ClientSteps]
      /\ \A d \in Clients : client'[d] = IF d = c THEN step ELSE client[d]
  BY <1>1, <1>3, Steps DEF ClientSteps
<1>6. /\ toServer' \in [Conns -> Seq(Message)]
      /\ \A j \in Conns : toServer'[j] = IF j = k THEN Append(toServer[k], m) ELSE toServer[j]
  BY <1>1, <1>3, <1>4, Posts
<1>7. TypeOK'
  BY <1>1, <1>2, <1>5, <1>6 DEF TypeOK
<1>8. (OneAtATime /\ ServerSurvives /\ QueueInv /\ OnceInv /\ VersionInv /\ FlowInv /\ ClosedInv)'
  BY <1>1, <1>2 DEF OneAtATime, ServerSurvives, QueueInv, OnceInv, VersionInv, FlowInv, Counted, ClosedInv
<1>9. KindInv'
  BY <1>1, <1>2, <1>3, <1>4, PostKind, Connections
<1>10. FreshInv'
  BY <1>1, <1>2, <1>3, <1>5 DEF FreshInv, Fresh
<1>11. DoneInv'
  BY <1>1, <1>2, <1>3, <1>5 DEF DoneInv
<1> QED
  BY <1>7, <1>8, <1>9, <1>10, <1>11 DEF IInv

\* What a client that closes the connection k leaves as it was.
LEMMA CloseStep ==
  ASSUME IInv, NEW k \in Conns, Close(k),
         alive /\ k[1] \notin killed' => /\ handler[k] \notin {"receive", "version", "outputs"}
                                      /\ \A i \in 1 .. Len(backlog) : backlog[i] # k,
         UNCHANGED <<alive, backlog, handler, total, sent, executed, printed, broken>>, killed \subseteq killed'
  PROVE  (QueueInv /\ OnceInv /\ VersionInv /\ FlowInv /\ ClosedInv)'
<1>1. TypeOK /\ QueueInv /\ OnceInv /\ VersionInv /\ FlowInv /\ ClosedInv
  BY DEF IInv
<1>2. /\ closed' = closed \union {k}
      /\ \A j \in Conns : toClient'[j] = IF j = k THEN <<>> ELSE toClient[j]
  BY <1>1, Closes
<1>3. \A i \in 1 .. Len(backlog) : backlog[i] \in Conns
  BY <1>1, ElementOfSeq DEF TypeOK
<1>4. QueueInv'
  BY <1>1, <1>2, <1>3 DEF QueueInv
<1>5. (OnceInv /\ VersionInv)'
  BY <1>1, <1>2, Connections DEF OnceInv, VersionInv
<1>6. FlowInv'
  <2> SUFFICES ASSUME NEW c \in Clients
               PROVE  Queued(toClient'[K(c)], Len(printed[c])) /\ (K(c) \notin closed' => Counted(c)')
    BY <1>1 DEF FlowInv
  <2>1. CASE K(c) = k
    BY <1>2, <2>1, EmptySeq DEF Queued
  <2>2. CASE K(c) # k
    <3>1. toClient'[K(c)] = toClient[K(c)]
      BY <1>2, <2>2, Connections
    <3> QED
      BY <1>1, <1>2, <3>1 DEF FlowInv, Counted
  <2> QED
    BY <2>1, <2>2
<1>7. ClosedInv'
  BY <1>1, <1>2 DEF ClosedInv
<1> QED
  BY <1>4, <1>5, <1>6, <1>7

LEMMA ReceiveVersionStep ==
  ASSUME IInv, NEW c \in Clients, ReceiveVersion(c)
  PROVE  IInv'
<1> DEFINE k == V(c)
<1>1. /\ TypeOK /\ KindInv /\ FreshInv /\ QueueInv /\ OnceInv /\ VersionInv /\ FlowInv /\ DoneInv /\ ClosedInv
      /\ OneAtATime /\ ServerSurvives
  BY DEF IInv
<1>2. UNCHANGED <<alive, accepting, backlog, handler, total, sent, executed, printed, killed, broken>>
  BY DEF ReceiveVersion, workVars
<1>3. k \in Conns /\ k[1] = c /\ k[2] = "version" /\ ConnOf(c) = k /\ client[c] = "awaitVersion" /\ toClient[k] # <<>>
  BY Connections DEF ReceiveVersion
<1>4. toServer' = [toServer EXCEPT ![k] = Append(@, Msg("EXIT"))] /\ Close(k)
  BY <1>3 DEF ReceiveVersion, SayExit
<1>5. PICK step \in {"failed", "verified"} :
        /\ client' \in [Clients -> ClientSteps]
        /\ \A d \in Clients : client'[d] = IF d = c THEN step ELSE client[d]
  BY <1>1, Steps DEF ReceiveVersion, ClientSteps
<1>6. Msg("EXIT") \in Message /\ Msg("EXIT").fc = "EXIT"
  BY MessageTypes
<1>7. /\ toClient' \in [Conns -> Seq(Message)] /\ closed' = closed \union {k} /\ closed' \subseteq Conns
      /\ \A j \in Conns : toClient'[j] = IF j = k THEN <<>> ELSE toClient[j]
  BY <1>1, <1>3, <1>4, Closes
<1>8. TypeOK'
  <2>1. toServer' \in [Conns -> Seq(Message)]
    BY <1>1, <1>3, <1>4, <1>6, Posts
  <2> QED
    BY <1>1, <1>2, <1>5, <1>7, <2>1 DEF TypeOK
<1>9. KindInv'
  BY <1>1, <1>2, <1>3, <1>4, <1>6, PostKind
<1>10. handler[k] \notin {"receive", "version", "outputs"} /\ \A i \in 1 .. Len(backlog) : backlog[i] # k
  BY <1>1, <1>3 DEF VersionInv, KindInv, QueueInv
<1>11. (QueueInv /\ OnceInv /\ VersionInv /\ FlowInv /\ ClosedInv)'
  BY <1>2, <1>3, <1>4, <1>10, CloseStep
<1>12. (OneAtATime /\ ServerSurvives)'
  BY <1>1, <1>2 DEF OneAtATime, ServerSurvives
<1>13. FreshInv'
  <2> DEFINE early == {"start", "sendVersion", "awaitVersion", "verified"}
  <2>1. \A d \in Clients : /\ client'[d] = "start" => client[d] = "start" /\ d # c
                           /\ client'[d] \in early => client[d] \in early
    BY <1>3, <1>5
  <2>2. \A d \in Clients : K(d) \in Conns /\ K(d) # k /\ V(d) \in Conns /\ (d # c => V(d) # k)
    BY <1>3, Connections DEF K, V
  <2>3. \A j \in Conns : j # k /\ handler[j] = "none" /\ toClient[j] = <<>> /\ j \notin closed
                        => handler'[j] = "none" /\ toClient'[j] = <<>> /\ j \notin closed'
    BY <1>2, <1>7
  <2>4. /\ \A d \in Clients : client'[d] = "start" => Fresh(V(d)) /\ V(d) # k
        /\ \A d \in Clients : client'[d] \in early => Fresh(K(d)) /\ executed[d] = 0 /\ K(d) # k
    <3>1. /\ \A d \in Clients : client[d] = "start" => Fresh(V(d))
          /\ \A d \in Clients : client[d] \in early => Fresh(K(d)) /\ executed[d] = 0
      BY <1>1 DEF FreshInv
    <3> HIDE DEF early
    <3> QED
      BY <2>1, <2>2, <3>1
  <2>5. executed' = executed /\ backlog' = backlog
    BY <1>2
  <2> HIDE DEF early
  <2>6. ASSUME NEW d \in Clients, client'[d] = "start" PROVE Fresh(V(d))'
    BY <2>2, <2>3, <2>4, <2>5, <2>6 DEF Fresh, V
  <2>7. ASSUME NEW d \in Clients, client'[d] \in early PROVE Fresh(K(d))' /\ executed'[d] = 0
    BY <2>2, <2>3, <2>4, <2>5, <2>7 DEF Fresh, K
  <2> QED
    BY <2>6, <2>7 DEF FreshInv, early
<1>14. DoneInv'
  BY <1>1, <1>2, <1>5 DEF DoneInv
<1> QED
  BY <1>8, <1>9, <1>11, <1>12, <1>13, <1>14 DEF IInv

\* CMD_EXIT comes behind the last output.
LEMMA ReceiveExitStep ==
  ASSUME IInv, NEW c \in Clients, ReceiveOutput(c), Head(toClient[K(c)]).fc = "EXIT"
  PROVE  IInv'
<1> DEFINE k == K(c)
<1>1. /\ TypeOK /\ KindInv /\ FreshInv /\ QueueInv /\ OnceInv /\ VersionInv /\ FlowInv /\ DoneInv /\ ClosedInv
      /\ OneAtATime /\ ServerSurvives
  BY DEF IInv
<1>2. UNCHANGED <<alive, accepting, backlog, handler, total, sent, executed, printed, killed, broken>>
  BY Connections DEF ReceiveOutput, workVars
<1>3. k \in Conns /\ k[1] = c /\ k[2] = "command" /\ ConnOf(c) = k /\ client[c] = "awaitExit" /\ toClient[k] # <<>>
  BY Connections DEF ReceiveOutput
<1>4. toServer' = [toServer EXCEPT ![k] = Append(@, Msg("EXIT"))] /\ Close(k)
  BY <1>3 DEF ReceiveOutput, SayExit
<1>5. /\ client' \in [Clients -> ClientSteps]
      /\ \A d \in Clients : client'[d] = IF d = c THEN "done" ELSE client[d]
  <2>1. GoOn(c, "done") /\ "done" \in ClientSteps
    BY <1>3 DEF ReceiveOutput, ClientSteps
  <2> QED
    BY <1>1, <2>1, Steps
<1>6. Msg("EXIT") \in Message /\ Msg("EXIT").fc = "EXIT"
  BY MessageTypes
<1>7. /\ toClient' \in [Conns -> Seq(Message)] /\ closed' = closed \union {k} /\ closed' \subseteq Conns
      /\ \A j \in Conns : toClient'[j] = IF j = k THEN <<>> ELSE toClient[j]
  BY <1>1, <1>3, <1>4, Closes
<1>8. TypeOK'
  <2>1. toServer' \in [Conns -> Seq(Message)]
    BY <1>1, <1>3, <1>4, <1>6, Posts
  <2> QED
    BY <1>1, <1>2, <1>5, <1>7, <2>1 DEF TypeOK
<1>9. KindInv'
  BY <1>1, <1>2, <1>3, <1>4, <1>6, PostKind
<1>10. /\ executed[c] = 1 /\ Len(printed[c]) = total[c]
       /\ handler[k] \notin {"receive", "version", "outputs"} /\ \A i \in 1 .. Len(backlog) : backlog[i] # k
  <2>1. executed[c] = 1 /\ handler[k] \notin {"receive", "version"} /\ \A i \in 1 .. Len(backlog) : backlog[i] # k
    BY <1>1, <1>3 DEF OnceInv, KindInv, QueueInv
  <2>2. toClient[k] \in Seq(Message) /\ Len(toClient[k]) \in Nat \ {0} /\ toClient[k][1].fc = "EXIT"
    <3>1. toClient[k] \in Seq(Message)
      BY <1>1, <1>3 DEF TypeOK
    <3> QED
      BY <1>3, <3>1, Taking
  <2>3. Len(printed[c]) \in Nat /\ sent[c] \in Nat
    BY <1>1 DEF TypeOK
  <2>4. Len(toClient[k]) = 1 /\ toClient[k][1] = Msg("EXIT")
    <3>1. toClient[k][1] = Output(Len(printed[c]) + 1) \/ (1 = Len(toClient[k]) /\ toClient[k][1] = Msg("EXIT"))
      <4>1. Queued(toClient[k], Len(printed[c]))
        BY <1>1 DEF FlowInv
      <4>2. 1 \in 1 .. Len(toClient[k])
        BY <2>2
      <4> QED
        BY <4>1, <4>2 DEF Queued
    <3>2. Output(Len(printed[c]) + 1).fc # "EXIT"
      BY <2>3, MessageTypes
    <3> QED
      BY <2>2, <3>1, <3>2
  <2>5. Exits(toClient[k]) /\ Counted(c)
    BY <1>1, <1>3, <2>4 DEF Exits, FlowInv, ClosedInv
  <2>6. Len(printed[c]) + 1 = sent[c] + 1 /\ sent[c] = total[c] /\ handler[k] # "outputs"
    BY <2>4, <2>5 DEF Counted
  <2> QED
    BY <2>1, <2>3, <2>6
<1>11. (QueueInv /\ OnceInv /\ VersionInv /\ FlowInv /\ ClosedInv)'
  BY <1>2, <1>3, <1>4, <1>10, CloseStep
<1>12. (OneAtATime /\ ServerSurvives)'
  BY <1>1, <1>2 DEF OneAtATime, ServerSurvives
<1>13. FreshInv'
  <2>1. \A j \in Conns : j # k /\ toClient[j] = <<>> => toClient'[j] = toClient[j] /\ (j \in closed' => j \in closed)
    BY <1>7
  <2>2. \A d \in Clients : V(d) # k /\ (d # c => K(d) # k)
    BY <1>3, Connections
  <2> QED
    BY <1>1, <1>2, <1>5, <2>1, <2>2, Connections DEF FreshInv, Fresh
<1>14. DoneInv'
  BY <1>1, <1>2, <1>5, <1>10 DEF DoneInv
<1> QED
  BY <1>8, <1>9, <1>11, <1>12, <1>13, <1>14 DEF IInv

\* The next output is the one that is printed.
LEMMA ReceiveOutputStep ==
  ASSUME IInv, NEW c \in Clients, ReceiveOutput(c), Head(toClient[K(c)]).fc # "EXIT"
  PROVE  IInv'
<1> DEFINE k == K(c)
           q == toClient[k]
           n == Len(printed[c])
<1>1. /\ TypeOK /\ KindInv /\ FreshInv /\ QueueInv /\ OnceInv /\ VersionInv /\ FlowInv /\ DoneInv /\ ClosedInv
      /\ OneAtATime /\ ServerSurvives
  BY DEF IInv
<1>2. UNCHANGED <<alive, accepting, backlog, handler, total, sent, executed, killed, broken, client, toServer, closed>>
  BY Connections DEF ReceiveOutput, workVars
<1>3. k \in Conns /\ ConnOf(c) = k /\ client[c] = "awaitExit" /\ q # <<>>
  BY Connections DEF ReceiveOutput
<1>4. printed' = [printed EXCEPT ![c] = Append(@, Head(q).n)] /\ toClient' = [toClient EXCEPT ![k] = Tail(@)]
  BY <1>3 DEF ReceiveOutput
<1>5. /\ q \in Seq(Message) /\ Head(q) = q[1] /\ Len(q) \in Nat \ {0} /\ Tail(q) \in Seq(Message)
      /\ Len(Tail(q)) = Len(q) - 1 /\ \A i \in 1 .. Len(q) - 1 : Tail(q)[i] = q[i + 1]
  <2>1. q \in Seq(Message)
    BY <1>1, <1>3 DEF TypeOK
  <2> QED
    BY <1>3, <2>1, Taking
<1>6. printed[c] \in Seq(Nat) /\ n \in Nat /\ sent[c] \in Nat
  BY <1>1 DEF TypeOK
<1>7. Queued(q, n) /\ q[1] = Output(n + 1) /\ Head(q).n = n + 1
  <2>1. Queued(q, n)
    BY <1>1 DEF FlowInv
  <2>2. q[1] = Output(n + 1) \/ q[1] = Msg("EXIT")
    BY <1>5, <2>1 DEF Queued
  <2> QED
    BY <1>5, <1>6, <2>1, <2>2, MessageTypes
<1>8. /\ printed' \in [Clients -> Seq(Nat)]
      /\ \A d \in Clients : printed'[d] = IF d = c THEN Append(printed[c], n + 1) ELSE printed[d]
  <2>1. Append(printed[c], n + 1) \in Seq(Nat)
    BY <1>6, Appending
  <2> QED
    BY <1>1, <1>4, <1>7, <2>1 DEF TypeOK
<1>9. /\ toClient' \in [Conns -> Seq(Message)]
      /\ \A j \in Conns : toClient'[j] = IF j = k THEN Tail(q) ELSE toClient[j]
  BY <1>1, <1>3, <1>4, <1>5 DEF TypeOK
<1>10. TypeOK'
  BY <1>1, <1>2, <1>8, <1>9 DEF TypeOK
<1>11. (OneAtATime /\ ServerSurvives /\ KindInv /\ DoneInv)'
  <2>1. \A d \in Clients : client[d] = "done" => printed'[d] = printed[d]
    BY <1>3, <1>8
  <2> QED
    BY <1>1, <1>2, <2>1 DEF OneAtATime, ServerSurvives, KindInv, DoneInv
<1>12. (FreshInv /\ QueueInv)'
  <2>1. \A i \in 1 .. Len(backlog) : backlog[i] \in Conns
    BY <1>1, ElementOfSeq DEF TypeOK
  <2> QED
    <3>1. FreshInv'
      <4>1. \A j \in Conns : toClient[j] = <<>> => toClient'[j] = toClient[j]
        BY <1>3, <1>9
      <4> QED
        BY <1>1, <1>2, <4>1, Connections DEF FreshInv, Fresh
    <3>2. QueueInv'
      BY <1>1, <1>2, <1>3, <1>9, <2>1 DEF QueueInv
    <3> QED
      BY <3>1, <3>2
<1>13. (OnceInv /\ VersionInv /\ ClosedInv)'
  <2>1. executed[c] # 0 /\ k \notin closed
    BY <1>1, <1>3 DEF OnceInv, ClosedInv
  <2> QED
    <3>1. OnceInv'
      <4>1. \A d \in Clients : executed[d] = 0 => d # c /\ K(d) # k
        BY <2>1, Connections
      <4>2. \A d \in Clients : executed[d] = 0 => printed'[d] = printed[d] /\ toClient'[K(d)] = toClient[K(d)]
        BY <1>8, <1>9, <4>1, Connections
      <4> QED
        BY <1>1, <1>2, <4>2 DEF OnceInv
    <3>2. VersionInv'
      BY <1>1, <1>2, <1>9, Connections DEF VersionInv
    <3>3. ClosedInv'
      BY <1>1, <1>2, <1>9, <2>1 DEF ClosedInv
    <3> QED
      BY <3>1, <3>2, <3>3
<1>14. FlowInv'
  <2>1. Len(printed'[c]) = n + 1 /\ printed'[c] = [i \in 1 .. n + 1 |-> i]
    <3>1. printed[c] = [i \in 1 .. n |-> i]
      BY <1>1 DEF FlowInv
    <3>2. printed'[c] = Append(printed[c], n + 1) /\ printed'[c] \in Seq(Nat)
      BY <1>8
    <3>3. Len(printed'[c]) = n + 1 /\ printed'[c][n + 1] = n + 1 /\ \A i \in 1 .. n : printed'[c][i] = i
      <4>1. \A i \in 1 .. n : printed[c][i] = i
        BY <3>1
      <4> QED
        BY <1>6, <3>2, <4>1, Appending
    <3>4. printed'[c] = [i \in 1 .. n + 1 |-> printed'[c][i]]
      BY <3>2, <3>3, <1>6
    <3>5. \A i \in 1 .. n + 1 : printed'[c][i] = i
      BY <3>3, <1>6
    <3> QED
      BY <3>3, <3>4, <3>5
  <2>2. Queued(Tail(q), n + 1)
    BY <1>5, <1>6, <1>7 DEF Queued
  <2>3. Exits(Tail(q)) <=> Exits(q)
    <3>1. CASE Len(q) = 1
      <4>1. Tail(q) = <<>>
        BY <1>5, <3>1, Emptied
      <4> QED
        BY <1>6, <1>7, <3>1, <4>1, MessageTypes DEF Exits
    <3>2. CASE Len(q) # 1
      <4>1. Len(Tail(q)) \in 1 .. Len(q) - 1 /\ Tail(q) # <<>> /\ Tail(q)[Len(Tail(q))] = q[Len(q)]
        BY <1>5, <3>2, Emptied
      <4> QED
        BY <1>3, <4>1 DEF Exits
    <3> QED
      BY <3>1, <3>2
  <2>4. k \notin closed => Counted(c)'
    <3>1. Len(printed'[c]) + Len(toClient'[k]) = n + Len(q) /\ (Exits(toClient'[k]) <=> Exits(q))
      <4>1. toClient'[k] = Tail(q)
        BY <1>3, <1>9
      <4>2. Exits(toClient'[k]) <=> Exits(q)
        BY <2>3, <4>1
      <4>3. Len(toClient'[k]) = Len(q) - 1
        BY <1>5, <4>1
      <4>4. Len(printed'[c]) = n + 1 /\ Len(q) \in Nat /\ n \in Nat
        BY <1>5, <1>6, <2>1
      <4>5. \A a, b \in Nat : (a + 1) + (b - 1) = a + b
        OBVIOUS
      <4>6. Len(printed'[c]) + Len(toClient'[k]) = n + Len(q)
        BY <4>3, <4>4, <4>5, Zenon
      <4> QED
        BY <4>2, <4>6
    <3> QED
      BY <1>1, <1>2, <3>1 DEF FlowInv, Counted
  <2>5. ASSUME NEW d \in Clients, d # c
        PROVE  printed'[d] = printed[d] /\ toClient'[K(d)] = toClient[K(d)]
    <3>1. K(d) # k /\ K(d) \in Conns
      BY <2>5, Connections
    <3> QED
      BY <1>8, <1>9, <2>5, <3>1
  <2>6. ASSUME NEW d \in Clients
        PROVE  /\ printed'[d] = [i \in 1 .. Len(printed'[d]) |-> i]
               /\ Queued(toClient'[K(d)], Len(printed'[d]))
               /\ K(d) \notin closed => Counted(d)'
    <3>1. CASE d = c
      BY <1>3, <1>9, <2>1, <2>2, <2>4, <3>1
    <3>2. CASE d # c
      BY <1>1, <1>2, <2>5, <3>2 DEF FlowInv, Counted
    <3> QED
      BY <3>1, <3>2
  <2> QED
    BY <1>2, <2>6 DEF FlowInv
<1> QED
  BY <1>10, <1>11, <1>12, <1>13, <1>14 DEF IInv

\* The connection that is cut off, or closed by the kernel, ends the client as "failed".
LEMMA FailStep ==
  ASSUME IInv, NEW c \in Clients, CutOff(c) \/ Kill(c)
  PROVE  IInv'
<1> DEFINE k == ConnOf(c)
<1>1. /\ TypeOK /\ KindInv /\ FreshInv /\ QueueInv /\ OnceInv /\ VersionInv /\ FlowInv /\ DoneInv /\ ClosedInv
      /\ OneAtATime /\ ServerSurvives
  BY DEF IInv
<1>2. /\ UNCHANGED <<alive, accepting, backlog, handler, total, sent, executed, printed, toServer, broken>>
      /\ killed \subseteq killed' /\ killed' \subseteq killed \union {c}
  BY DEF CutOff, Kill, workVars
<1>3. k \in Conns /\ k[1] = c
  BY Connections
<1>4. /\ client[c] # "done" /\ client' \in [Clients -> ClientSteps]
      /\ \A d \in Clients : client'[d] = IF d = c THEN "failed" ELSE client[d]
  <2>1. GoOn(c, "failed") /\ "failed" \in ClientSteps /\ client[c] # "done"
    BY DEF CutOff, Kill, Running, ClientSteps
  <2> QED
    BY <1>1, <2>1, Steps
<1>5. (KindInv /\ OneAtATime /\ ServerSurvives /\ DoneInv)'
  <2>1. ServerSurvives'
    BY <1>1, <1>2 DEF ServerSurvives
  <2> QED
    BY <1>1, <1>2, <1>4, <2>1 DEF KindInv, OneAtATime, DoneInv
<1>6. CASE Close(k) /\ client[c] \notin {"start", "verified"} /\ (alive /\ c \notin killed' => FALSE)
  <2>1. (QueueInv /\ OnceInv /\ VersionInv /\ FlowInv /\ ClosedInv)'
    BY <1>2, <1>3, <1>6, CloseStep
  <2>2. /\ toClient' \in [Conns -> Seq(Message)] /\ closed' = closed \union {k} /\ closed' \subseteq Conns
        /\ \A j \in Conns : toClient'[j] = IF j = k THEN <<>> ELSE toClient[j]
    BY <1>1, <1>3, <1>6, Closes
  <2>3. TypeOK'
    BY <1>1, <1>2, <1>4, <2>2 DEF TypeOK
  <2>4. FreshInv'
    <3>1. \A j \in Conns : j # k => (Fresh(j) => Fresh(j)')
      BY <1>2, <2>2 DEF Fresh
    <3>2. \A d \in Clients : d # c => V(d) # k /\ K(d) # k
      BY <1>3, Connections
    <3> QED
      BY <1>1, <1>2, <1>4, <3>1, <3>2, Connections DEF FreshInv
  <2> QED
    BY <1>5, <2>1, <2>3, <2>4 DEF IInv
<1>7. CASE UNCHANGED <<toClient, closed>>
  <2>1. TypeOK'
    BY <1>1, <1>2, <1>4, <1>7 DEF TypeOK
  <2>2. FreshInv'
    BY <1>1, <1>2, <1>4, <1>7 DEF FreshInv, Fresh
  <2>3. (QueueInv /\ OnceInv /\ VersionInv /\ FlowInv /\ ClosedInv)'
    BY <1>1, <1>2, <1>7 DEF QueueInv, OnceInv, VersionInv, FlowInv, Counted, ClosedInv
  <2> QED
    BY <1>5, <2>1, <2>2, <2>3 DEF IInv
<1> QED
  BY <1>6, <1>7 DEF CutOff, Kill

-----------------------------------------------------------------------------
(* The steps of the server.                                                *)

LEMMA AcceptStep ==
  ASSUME IInv, Accept
  PROVE  IInv'
<1> DEFINE k == Head(backlog)
<1>1. /\ TypeOK /\ KindInv /\ FreshInv /\ QueueInv /\ OnceInv /\ VersionInv /\ FlowInv /\ DoneInv /\ ClosedInv
      /\ OneAtATime /\ ServerSurvives
  BY DEF IInv
<1>2. /\ UNCHANGED <<alive, accepting, total, sent, executed, client, printed, killed>>
      /\ UNCHANGED <<toServer, toClient, closed, broken>>
  BY DEF Accept, workVars, clientVars, netVars
<1>3. /\ k \in Conns /\ k = backlog[1] /\ Len(backlog) \in Nat \ {0} /\ backlog' \in Seq(Conns)
      /\ Len(backlog') = Len(backlog) - 1 /\ \A i \in 1 .. Len(backlog) - 1 : backlog'[i] = backlog[i + 1]
  <2>1. backlog \in Seq(Conns) /\ backlog # <<>> /\ backlog' = Tail(backlog)
    BY <1>1 DEF Accept, TypeOK
  <2> QED
    BY <2>1, Taking
<1>4. /\ handler' \in [Conns -> HandlerSteps] /\ \A j \in Conns : handler[j] = "none"
      /\ \A j \in Conns : handler'[j] = IF j = k THEN "receive" ELSE "none"
  BY <1>1, <1>3 DEF Accept, TypeOK, HandlerSteps
<1>5. TypeOK'
  BY <1>1, <1>2, <1>3, <1>4 DEF TypeOK
<1>6. (OneAtATime /\ ServerSurvives)'
  BY <1>1, <1>2, <1>4 DEF OneAtATime, ServerSurvives
<1>7. /\ \A i \in 1 .. Len(backlog') : i + 1 \in 1 .. Len(backlog) /\ backlog'[i] = backlog[i + 1]
      /\ 1 \in 1 .. Len(backlog)
  BY <1>3
<1>8. \A i \in 1 .. Len(backlog') : backlog'[i] # k /\ backlog'[i] \in Conns
  <2> SUFFICES ASSUME NEW i \in 1 .. Len(backlog')
               PROVE  backlog'[i] # k /\ backlog'[i] \in Conns
    OBVIOUS
  <2>1. i + 1 \in 1 .. Len(backlog) /\ backlog'[i] = backlog[i + 1] /\ i + 1 # 1
    BY <1>3, <1>7
  <2>2. backlog[i + 1] # backlog[1]
    BY <1>1, <1>7, <2>1 DEF QueueInv
  <2> QED
    BY <1>3, <2>1, <2>2, ElementOfSeq
<1>9. /\ handler[k] = "none" /\ toClient[k] = <<>> /\ (k[2] = "command" => executed[k[1]] = 0)
      /\ (alive /\ k[1] \notin killed => k \notin closed /\ k \notin broken)
  <2>1. k \in closed => ~(alive /\ k[1] \notin killed)
    BY <1>1, <1>3, <1>7 DEF ClosedInv
  <2> QED
    BY <1>1, <1>3, <1>7, <2>1 DEF QueueInv, TypeOK
<1>10. QueueInv'
  <2>1. \A i, j \in 1 .. Len(backlog') : backlog'[i] = backlog'[j] => i = j
    <3> SUFFICES ASSUME NEW i \in 1 .. Len(backlog'), NEW j \in 1 .. Len(backlog'), backlog'[i] = backlog'[j]
                 PROVE  i = j
      OBVIOUS
    <3>1. i + 1 = j + 1
      BY <1>1, <1>7 DEF QueueInv
    <3> QED
      BY <1>3, <3>1
  <2>2. ASSUME NEW i \in 1 .. Len(backlog')
        PROVE  /\ handler'[backlog'[i]] = "none" /\ toClient[backlog'[i]] = <<>>
               /\ backlog'[i][2] = "command" => executed[backlog'[i][1]] = 0
    BY <1>1, <1>4, <1>7, <1>8 DEF QueueInv
  <2> QED
    BY <1>2, <2>1, <2>2 DEF QueueInv
<1>11. KindInv'
  BY <1>1, <1>2, <1>4, Connections DEF KindInv
<1>12. FreshInv'
  <2>1. \A j \in Conns : Fresh(j) => Fresh(j)'
    <3> SUFFICES ASSUME NEW j \in Conns, Fresh(j)
                 PROVE  Fresh(j)'
      OBVIOUS
    <3>1. j # k
      BY <1>3, <1>7 DEF Fresh
    <3>2. \A i \in 1 .. Len(backlog') : backlog'[i] # j
      BY <1>7 DEF Fresh
    <3> QED
      BY <1>2, <1>4, <3>1, <3>2 DEF Fresh
  <2> QED
    BY <1>1, <1>2, <2>1, Connections DEF FreshInv
<1>13. OnceInv'
  BY <1>1, <1>2, <1>4, <1>9, Connections DEF OnceInv
<1>14. VersionInv'
  BY <1>1, <1>2, <1>4, <1>9, Connections DEF VersionInv
<1>15. FlowInv'
  BY <1>1, <1>2, <1>4, Connections DEF FlowInv, Counted
<1>16. DoneInv'
  BY <1>1, <1>2, <1>4, Connections DEF DoneInv
<1>17. ClosedInv'
  <2> SUFFICES ASSUME NEW j \in Conns, alive, j[1] \notin killed
               PROVE  /\ j \in closed => /\ handler'[j] \notin {"receive", "version", "outputs"}
                                        /\ \A i \in 1 .. Len(backlog') : backlog'[i] # j
                      /\ j \in broken => handler'[j] \notin {"outputs", "exit"}
    BY <1>1, <1>2 DEF ClosedInv
  <2>1. ASSUME j \in closed
        PROVE  handler'[j] = "none" /\ \A i \in 1 .. Len(backlog') : backlog'[i] # j
    <3>1. j # k /\ \A i \in 1 .. Len(backlog) : backlog[i] # j
      BY <1>1, <1>9, <2>1 DEF ClosedInv
    <3> QED
      BY <1>4, <1>7, <3>1
  <2>2. handler'[j] \notin {"outputs", "exit"}
    BY <1>4
  <2> QED
    BY <2>1, <2>2
<1> QED
  BY <1>5, <1>6, <1>10, <1>11, <1>12, <1>13, <1>14, <1>15, <1>16, <1>17 DEF IInv

LEMMA AcceptFailsStep ==
  ASSUME IInv, AcceptFails
  PROVE  IInv'
<1>1. /\ UNCHANGED <<alive, backlog, handler, total, sent, executed, client, printed, killed>>
      /\ UNCHANGED <<toServer, toClient, closed, broken>> /\ accepting' = FALSE
  BY DEF AcceptFails, workVars, clientVars, netVars
<1>2. TypeOK'
  BY <1>1 DEF IInv, TypeOK
<1>3. (OneAtATime /\ ServerSurvives /\ KindInv /\ FreshInv /\ QueueInv)'
  BY <1>1 DEF IInv, OneAtATime, ServerSurvives, KindInv, FreshInv, Fresh, QueueInv
<1>4. (OnceInv /\ VersionInv /\ FlowInv /\ DoneInv /\ ClosedInv)'
  BY <1>1 DEF IInv, OnceInv, VersionInv, FlowInv, Counted, DoneInv, ClosedInv
<1> QED
  BY <1>2, <1>3, <1>4 DEF IInv

\* The server is killed: nothing is served and nothing waits.
LEMMA SigPipeStep ==
  ASSUME IInv, NEW k \in Conns, SigPipe(k)
  PROVE  IInv'
<1>1. /\ TypeOK /\ KindInv /\ FreshInv /\ QueueInv /\ OnceInv /\ VersionInv /\ FlowInv /\ DoneInv /\ ClosedInv
      /\ OneAtATime /\ ServerSurvives
  BY DEF IInv
<1>2. /\ UNCHANGED <<total, sent, executed, client, printed, killed, toServer, toClient, closed, broken>>
      /\ alive' = FALSE /\ accepting' = FALSE /\ backlog' = <<>>
      /\ handler' \in [Conns -> HandlerSteps] /\ \A j \in Conns : handler'[j] = "none"
  BY DEF SigPipe, workVars, clientVars, netVars, HandlerSteps
<1>3. backlog' \in Seq(Conns) /\ Len(backlog') = 0
  BY <1>2, EmptySeq
<1>4. TypeOK'
  BY <1>1, <1>2, <1>3 DEF TypeOK
<1>5. ServerSurvives'
  BY <1>1, <1>2 DEF ServerSurvives, SigPipe, ClosedInv
<1>6. (OneAtATime /\ KindInv /\ FreshInv /\ QueueInv)'
  BY <1>1, <1>2, <1>3, Connections DEF OneAtATime, KindInv, FreshInv, Fresh, QueueInv
<1>7. (OnceInv /\ VersionInv /\ DoneInv /\ ClosedInv)'
  BY <1>1, <1>2, <1>3, Connections DEF OnceInv, VersionInv, DoneInv, ClosedInv
<1>8. FlowInv'
  <2>1. \A c \in Clients : Counted(c) => Counted(c)'
    BY <1>2, Connections DEF Counted
  <2> QED
    BY <1>1, <1>2, <2>1 DEF FlowInv
<1> QED
  BY <1>4, <1>5, <1>6, <1>7, <1>8 DEF IInv

\* A thread that has begun stays the only one.
LEMMA Serving ==
  ASSUME IInv, NEW k \in Conns, NEW step \in HandlerSteps, handler[k] # "none",
         handler' = [handler EXCEPT ![k] = step]
  PROVE  /\ handler' \in [Conns -> HandlerSteps] /\ OneAtATime'
         /\ \A j \in Conns : handler'[j] = IF j = k THEN step ELSE "none"
         /\ \A j \in Conns : j # k => handler[j] = "none"
         /\ \A i \in 1 .. Len(backlog) : backlog[i] # k /\ backlog[i] \in Conns
         /\ ~Fresh(k)
<1>1. TypeOK /\ OneAtATime /\ QueueInv
  BY DEF IInv
<1>2. handler' \in [Conns -> HandlerSteps] /\ \A j \in Conns : handler'[j] = IF j = k THEN step ELSE handler[j]
  BY <1>1 DEF TypeOK
<1>3. \A j \in Conns : j # k => handler[j] = "none"
  BY <1>1 DEF OneAtATime
<1>4. \A i \in 1 .. Len(backlog) : backlog[i] # k
  BY <1>1 DEF QueueInv
<1>5. \A i \in 1 .. Len(backlog) : backlog[i] \in Conns
  BY <1>1, ElementOfSeq DEF TypeOK
<1> QED
  BY <1>1, <1>2, <1>3, <1>4, <1>5 DEF OneAtATime, Fresh

\* The thread's first message has been read: it is a request, or the connection ended.
LEMMA ReceiveStep ==
  ASSUME IInv, NEW k \in Conns, Receive(k)
  PROVE  IInv'
<1> DEFINE c == k[1]
<1>1. /\ TypeOK /\ KindInv /\ FreshInv /\ QueueInv /\ OnceInv /\ VersionInv /\ FlowInv /\ DoneInv /\ ClosedInv
      /\ OneAtATime /\ ServerSurvives
  BY DEF IInv
<1>2. /\ UNCHANGED <<alive, accepting, backlog, client, printed, killed, toClient, closed, broken>>
      /\ handler[k] = "receive" /\ c \in Clients /\ k = IF k[2] = "version" THEN V(c) ELSE K(c)
      /\ k[2] \in {"version", "command"}
  BY Connections DEF Receive, clientVars
<1>3. PICK step \in HandlerSteps :
        /\ handler' = [handler EXCEPT ![k] = step]
        /\ \/ /\ step = "none" /\ UNCHANGED <<toServer, total, sent, executed>>
           \/ /\ step = "version" /\ toServer[k] # <<>> /\ Head(toServer[k]).fc = "VERSION"
              /\ toServer' = [toServer EXCEPT ![k] = Tail(@)] /\ UNCHANGED <<total, sent, executed>>
           \/ /\ step = "outputs" /\ toServer[k] # <<>> /\ Head(toServer[k]).fc = "COMMAND"
              /\ toServer' = [toServer EXCEPT ![k] = Tail(@)] /\ executed' = [executed EXCEPT ![c] = @ + 1]
              /\ \E n \in 0 .. MaxOutputs : total' = [total EXCEPT ![c] = n]
              /\ UNCHANGED sent
  BY DEF Receive, workVars, HandlerSteps
<1>4. /\ handler' \in [Conns -> HandlerSteps] /\ OneAtATime'
      /\ \A j \in Conns : handler'[j] = IF j = k THEN step ELSE "none"
      /\ \A j \in Conns : j # k => handler[j] = "none"
      /\ \A i \in 1 .. Len(backlog) : backlog[i] # k /\ backlog[i] \in Conns
      /\ ~Fresh(k)
  BY <1>2, <1>3, Serving
<1>5. /\ toServer' \in [Conns -> Seq(Message)]
      /\ \A j \in Conns : \A i \in 1 .. Len(toServer'[j]) :
           \E n \in 1 .. Len(toServer[j]) : toServer'[j][i] = toServer[j][n]
      /\ step \in {"version", "outputs"} =>
           1 \in 1 .. Len(toServer[k]) /\ toServer[k][1].fc = IF step = "version" THEN "VERSION" ELSE "COMMAND"
  <2>1. toServer \in [Conns -> Seq(Message)] /\ toServer[k] \in Seq(Message)
    BY <1>1 DEF TypeOK
  <2>2. CASE step = "none"
    BY <1>3, <2>1, <2>2
  <2>3. CASE step \in {"version", "outputs"}
    <3>1. toServer[k] # <<>> /\ toServer' = [toServer EXCEPT ![k] = Tail(@)]
      BY <1>3, <2>3
    <3>2. /\ Head(toServer[k]) = toServer[k][1] /\ Len(toServer[k]) \in Nat \ {0}
          /\ Tail(toServer[k]) \in Seq(Message) /\ Len(Tail(toServer[k])) = Len(toServer[k]) - 1
          /\ \A i \in 1 .. Len(toServer[k]) - 1 : Tail(toServer[k])[i] = toServer[k][i + 1]
      BY <2>1, <3>1, Taking
    <3>3. \A j \in Conns : toServer'[j] = IF j = k THEN Tail(toServer[k]) ELSE toServer[j]
      BY <2>1, <3>1
    <3>4. \A i \in 1 .. Len(toServer'[k]) : \E n \in 1 .. Len(toServer[k]) : toServer'[k][i] = toServer[k][n]
      <4>1. toServer'[k] = Tail(toServer[k])
        BY <3>3
      <4> QED
        BY <2>1, <3>1, <4>1, Shifted
    <3>5. toServer' \in [Conns -> Seq(Message)]
      BY <2>1, <3>1, <3>2
    <3>6. ASSUME NEW j \in Conns, NEW i \in 1 .. Len(toServer'[j])
          PROVE  \E n \in 1 .. Len(toServer[j]) : toServer'[j][i] = toServer[j][n]
      <4>1. CASE j = k
        BY <3>4, <4>1
      <4>2. CASE j # k
        <5>1. toServer'[j] = toServer[j]
          BY <3>3, <4>2
        <5> QED
          BY <5>1
      <4> QED
        BY <4>1, <4>2
    <3>7. 1 \in 1 .. Len(toServer[k]) /\ toServer[k][1].fc = IF step = "version" THEN "VERSION" ELSE "COMMAND"
      BY <1>3, <2>3, <3>2
    <3> QED
      BY <3>5, <3>6, <3>7
  <2> QED
    BY <1>3, <2>2, <2>3
<1>6. /\ step = "version" => k = V(c) /\ k[2] = "version"
      /\ step = "outputs" => k = K(c) /\ k[2] = "command"
  BY <1>1, <1>2, <1>5 DEF KindInv
<1>7. /\ total' \in [Clients -> Nat] /\ sent' = sent /\ executed' \in [Clients -> Nat]
      /\ \A d \in Clients :
           IF step = "outputs" /\ d = c
           THEN executed[d] = 0 /\ executed'[d] = 1 /\ sent[d] = 0 /\ toClient[K(d)] = <<>> /\ printed[d] = <<>>
           ELSE executed'[d] = executed[d] /\ total'[d] = total[d]
  <2>1. CASE step # "outputs"
    BY <1>1, <1>3, <2>1 DEF TypeOK
  <2>2. CASE step = "outputs"
    <3>1. executed[c] = 0 /\ sent[c] = 0 /\ toClient[K(c)] = <<>> /\ printed[c] = <<>>
      BY <1>1, <1>2, <1>6, <2>2 DEF OnceInv
    <3>2. executed' = [executed EXCEPT ![c] = @ + 1] /\ sent' = sent
      BY <1>3, <2>2
    <3>3. PICK n \in 0 .. MaxOutputs : total' = [total EXCEPT ![c] = n]
      BY <1>3, <2>2
    <3>4. n \in Nat
      BY BoundsAssumption
    <3> QED
      BY <1>1, <1>2, <2>2, <3>1, <3>2, <3>3, <3>4 DEF TypeOK
  <2> QED
    BY <2>1, <2>2
<1>8. TypeOK'
  <2>1. \A d \in Clients : sent'[d] <= total'[d]
    BY <1>1, <1>7 DEF TypeOK
  <2> QED
    BY <1>1, <1>2, <1>4, <1>5, <1>7, <2>1 DEF TypeOK
<1>9. ServerSurvives'
  BY <1>1, <1>2 DEF ServerSurvives
<1>10. KindInv'
  <2>1. \A d \in Clients : handler'[V(d)] # "outputs" /\ handler'[K(d)] \notin {"version", "exit"}
    BY <1>3, <1>4, <1>6, Connections
  <2>2. ASSUME NEW d \in Clients
        PROVE  /\ \A i \in 1 .. Len(toServer'[V(d)]) : toServer'[V(d)][i].fc # "COMMAND"
               /\ \A i \in 1 .. Len(toServer'[K(d)]) : toServer'[K(d)][i].fc # "VERSION"
    <3>1. /\ \A i \in 1 .. Len(toServer[V(d)]) : toServer[V(d)][i].fc # "COMMAND"
          /\ \A i \in 1 .. Len(toServer[K(d)]) : toServer[K(d)][i].fc # "VERSION"
      BY <1>1 DEF KindInv
    <3>2. V(d) \in Conns /\ K(d) \in Conns
      BY Connections
    <3>3. \A i \in 1 .. Len(toServer'[V(d)]) : \E n \in 1 .. Len(toServer[V(d)]) : toServer'[V(d)][i] = toServer[V(d)][n]
      BY <1>5, <3>2
    <3>4. \A i \in 1 .. Len(toServer'[K(d)]) : \E n \in 1 .. Len(toServer[K(d)]) : toServer'[K(d)][i] = toServer[K(d)][n]
      BY <1>5, <3>2
    <3>5. \A i \in 1 .. Len(toServer'[V(d)]) : toServer'[V(d)][i].fc # "COMMAND"
      BY <3>1, <3>3, Zenon
    <3>6. \A i \in 1 .. Len(toServer'[K(d)]) : toServer'[K(d)][i].fc # "VERSION"
      BY <3>1, <3>4, Zenon
    <3> QED
      BY <3>5, <3>6
  <2> QED
    BY <2>1, <2>2 DEF KindInv
<1>11. FreshInv'
  <2>1. \A j \in Conns : Fresh(j) => Fresh(j)'
    BY <1>2, <1>4 DEF Fresh
  <2>2. \A d \in Clients : client[d] \in {"start", "sendVersion", "awaitVersion", "verified"} => executed'[d] = 0
    BY <1>1, <1>4, <1>6, <1>7 DEF FreshInv
  <2> QED
    BY <1>1, <1>2, <2>1, <2>2, Connections DEF FreshInv
<1>12. QueueInv'
  <2>1. ASSUME NEW i \in 1 .. Len(backlog)
        PROVE  /\ handler'[backlog[i]] = "none" /\ toClient[backlog[i]] = <<>>
               /\ backlog[i][2] = "command" => executed'[backlog[i][1]] = 0
    <3>1. backlog[i] \in Conns /\ backlog[i] # k /\ handler'[backlog[i]] = "none"
      BY <1>4
    <3>2. backlog[i][2] = "command" /\ k[2] = "command" => backlog[i][1] # c
      BY <1>2, <3>1, Connections
    <3> QED
      BY <1>1, <1>6, <1>7, <3>1, <3>2, Connections DEF QueueInv
  <2> QED
    BY <1>1, <1>2, <2>1 DEF QueueInv
<1>13. OnceInv'
  BY <1>1, <1>2, <1>3, <1>4, <1>6, <1>7, Connections DEF OnceInv
<1>14. VersionInv'
  BY <1>1, <1>2, <1>3, <1>4, <1>6, Connections DEF VersionInv
<1>15. FlowInv'
  <2> SUFFICES ASSUME NEW d \in Clients, K(d) \notin closed
               PROVE  Counted(d)'
    BY <1>1, <1>2 DEF FlowInv
  <2>1. Counted(d)
    BY <1>1 DEF FlowInv
  <2>2. CASE step = "outputs" /\ d = c
    <3>1. sent[d] = 0 /\ toClient[K(d)] = <<>> /\ printed[d] = <<>>
      BY <1>7, <2>2
    <3> QED
      BY <1>2, <1>7, <3>1, EmptySeq DEF Counted, Exits
  <2>3. CASE ~(step = "outputs" /\ d = c)
    <3>1. handler'[K(d)] # "outputs" /\ total'[d] = total[d] /\ sent'[d] = sent[d]
      BY <1>4, <1>7, <2>3, Connections
    <3> QED
      BY <1>2, <2>1, <3>1 DEF Counted
  <2> QED
    BY <2>2, <2>3
<1>16. DoneInv'
  BY <1>1, <1>2, <1>4, <1>7, Connections DEF DoneInv
<1>17. ClosedInv'
  <2> SUFFICES ASSUME NEW j \in Conns, alive, j[1] \notin killed
               PROVE  /\ j \in closed => handler'[j] \notin {"receive", "version", "outputs"}
                      /\ j \in broken => handler'[j] \notin {"outputs", "exit"}
    BY <1>1, <1>2 DEF ClosedInv
  <2>1. k[1] \notin killed => k \notin closed
    BY <1>1, <1>2 DEF ClosedInv
  <2> QED
    BY <1>1, <1>4, <2>1 DEF TypeOK
<1> QED
  BY <1>4, <1>8, <1>9, <1>10, <1>11, <1>12, <1>13, <1>14, <1>15, <1>16, <1>17 DEF IInv

\* What a thread that has read its request sends: a version, an output or CMD_EXIT.
LEMMA DeliverStep ==
  ASSUME IInv, NEW k \in Conns, NEW m \in Message, Deliver(k, m), NEW step \in HandlerSteps,
         handler[k] \in {"version", "outputs", "exit"}, handler' = [handler EXCEPT ![k] = step],
         step \in {"outputs", "exit", "ack"},
         k[2] = "version" => step # "outputs",
         k[2] = "command" => step \in {"outputs", "ack"},
         step \in {"outputs", "exit"} /\ k \in closed => ~(alive /\ k[1] \notin killed),
         UNCHANGED <<alive, accepting, backlog, total, executed, client, printed, killed, toServer, closed>>
  PROVE  (OneAtATime /\ ServerSurvives /\ KindInv /\ FreshInv /\ QueueInv /\ VersionInv /\ ClosedInv)'
<1>1. /\ TypeOK /\ KindInv /\ FreshInv /\ QueueInv /\ OnceInv /\ VersionInv /\ FlowInv /\ DoneInv /\ ClosedInv
      /\ OneAtATime /\ ServerSurvives
  BY DEF IInv
<1>2. /\ handler' \in [Conns -> HandlerSteps] /\ OneAtATime'
      /\ \A j \in Conns : handler'[j] = IF j = k THEN step ELSE "none"
      /\ \A j \in Conns : j # k => handler[j] = "none"
      /\ \A i \in 1 .. Len(backlog) : backlog[i] # k /\ backlog[i] \in Conns
      /\ ~Fresh(k)
  BY Serving
<1>3. /\ toClient' \in [Conns -> Seq(Message)] /\ broken' \subseteq closed
      /\ \A j \in Conns : toClient'[j] = IF j = k /\ k \notin closed THEN Append(toClient[k], m) ELSE toClient[j]
      /\ broken' = IF k \in closed THEN broken \union {k} ELSE broken
  BY <1>1, Delivers
<1>4. \A j \in Conns : j # k => toClient'[j] = toClient[j] /\ (j \in broken' => j \in broken)
  BY <1>3
<1>5. k \in closed => toClient'[k] = <<>>
  BY <1>1, <1>3 DEF ClosedInv
<1>6. ServerSurvives'
  BY <1>1 DEF ServerSurvives
<1>7. KindInv'
  BY <1>1, <1>2, Connections DEF KindInv
<1>8. FreshInv'
  <2>1. \A j \in Conns : Fresh(j) => Fresh(j)'
    BY <1>2, <1>4 DEF Fresh
  <2> QED
    BY <1>1, <2>1, Connections DEF FreshInv
<1>9. QueueInv'
  BY <1>1, <1>2, <1>4 DEF QueueInv
<1>10. VersionInv'
  BY <1>1, <1>2, <1>4, Connections DEF VersionInv
<1>11. ClosedInv'
  <2> SUFFICES ASSUME NEW j \in Conns
               PROVE  /\ j \in closed => toClient'[j] = <<>>
                      /\ alive /\ j[1] \notin killed =>
                           /\ j \in closed => handler'[j] \notin {"receive", "version", "outputs"}
                           /\ j \in broken' => handler'[j] \notin {"outputs", "exit"}
    BY <1>1 DEF ClosedInv
  <2>1. CASE j = k
    BY <1>2, <1>3, <1>5, <2>1
  <2>2. CASE j # k
    BY <1>1, <1>2, <1>4, <2>2 DEF ClosedInv
  <2> QED
    BY <2>1, <2>2
<1> QED
  BY <1>2, <1>6, <1>7, <1>8, <1>9, <1>10, <1>11

LEMMA SendVersionStep ==
  ASSUME IInv, NEW k \in Conns, SendVersion(k)
  PROVE  IInv'
<1>1. /\ TypeOK /\ KindInv /\ FreshInv /\ QueueInv /\ OnceInv /\ VersionInv /\ FlowInv /\ DoneInv /\ ClosedInv
      /\ OneAtATime /\ ServerSurvives
  BY DEF IInv
<1>2. /\ UNCHANGED <<alive, accepting, backlog, total, sent, executed, client, printed, killed, toServer, closed>>
      /\ handler[k] = "version" /\ handler' = [handler EXCEPT ![k] = "exit"] /\ Deliver(k, Msg("VERSION"))
      /\ Msg("VERSION") \in Message
  BY MessageTypes DEF SendVersion, workVars, clientVars
<1>3. k[2] = "version" /\ (\A d \in Clients : K(d) # k) /\ (k \in closed => ~(alive /\ k[1] \notin killed))
  BY <1>1, <1>2, Connections DEF KindInv, ClosedInv
<1>4. /\ handler' \in [Conns -> HandlerSteps] /\ OneAtATime'
      /\ \A j \in Conns : handler'[j] = IF j = k THEN "exit" ELSE "none"
      /\ \A j \in Conns : j # k => handler[j] = "none"
      /\ \A i \in 1 .. Len(backlog) : backlog[i] # k /\ backlog[i] \in Conns
      /\ ~Fresh(k)
  BY <1>2, Serving DEF HandlerSteps
<1>5. (OneAtATime /\ ServerSurvives /\ KindInv /\ FreshInv /\ QueueInv /\ VersionInv /\ ClosedInv)'
  BY <1>2, <1>3, DeliverStep DEF HandlerSteps
<1>6. /\ toClient' \in [Conns -> Seq(Message)] /\ broken' \subseteq closed
      /\ \A d \in Clients : toClient'[K(d)] = toClient[K(d)]
  BY <1>1, <1>2, <1>3, Delivers, Connections
<1>7. TypeOK'
  BY <1>1, <1>2, <1>4, <1>6 DEF TypeOK
<1>8. (OnceInv /\ DoneInv)'
  BY <1>1, <1>2, <1>3, <1>4, <1>6, Connections DEF OnceInv, DoneInv
<1>9. FlowInv'
  <2>1. \A d \in Clients : Counted(d) => Counted(d)'
    BY <1>2, <1>3, <1>4, <1>6, Connections DEF Counted
  <2> QED
    BY <1>1, <1>2, <1>6, <2>1 DEF FlowInv
<1> QED
  BY <1>5, <1>7, <1>8, <1>9 DEF IInv

\* The next output, or CMD_EXIT, behind the outputs that are under way.
LEMMA QueueOutputs ==
  ASSUME NEW q \in Seq(Message), NEW n \in Nat, Queued(q, n), ~Exits(q), NEW m \in Message,
         m = Output(n + Len(q) + 1) \/ m = Msg("EXIT")
  PROVE  Queued(Append(q, m), n) /\ (Exits(Append(q, m)) <=> m = Msg("EXIT")) /\ Len(Append(q, m)) = Len(q) + 1
<1>1. /\ Append(q, m) # <<>> /\ Len(Append(q, m)) = Len(q) + 1 /\ Len(q) \in Nat
      /\ Append(q, m)[Len(q) + 1] = m /\ \A i \in 1 .. Len(q) : Append(q, m)[i] = q[i]
  BY Appending
<1>2. \A i \in 1 .. Len(q) : q[i] = Output(n + i)
  <2> SUFFICES ASSUME NEW i \in 1 .. Len(q), i = Len(q), q[i] = Msg("EXIT")
               PROVE  FALSE
    BY DEF Queued
  <2>1. q # <<>>
    BY EmptySeq
  <2> QED
    BY <2>1 DEF Exits
<1>3. ASSUME NEW i \in 1 .. Len(Append(q, m))
      PROVE  Append(q, m)[i] = Output(n + i) \/ (i = Len(Append(q, m)) /\ Append(q, m)[i] = Msg("EXIT"))
  <2>1. CASE i \in 1 .. Len(q)
    BY <1>1, <1>2, <2>1
  <2>2. CASE i = Len(q) + 1
    <3>1. n + i = n + Len(q) + 1
      BY <1>1, <2>2
    <3> QED
      BY <1>1, <2>2, <3>1
  <2> QED
    BY <1>1, <2>1, <2>2
<1> QED
  BY <1>1, <1>3 DEF Queued, Exits

LEMMA SendOutputStep ==
  ASSUME IInv, NEW k \in Conns, SendOutput(k)
  PROVE  IInv'
<1> DEFINE c == k[1]
           m == Output(sent[c] + 1)
<1>1. /\ TypeOK /\ KindInv /\ FreshInv /\ QueueInv /\ OnceInv /\ VersionInv /\ FlowInv /\ DoneInv /\ ClosedInv
      /\ OneAtATime /\ ServerSurvives
  BY DEF IInv
<1>2. /\ UNCHANGED <<alive, accepting, backlog, handler, total, executed, client, printed, killed, toServer, closed>>
      /\ handler[k] = "outputs" /\ handler' = [handler EXCEPT ![k] = "outputs"] /\ Deliver(k, m)
      /\ c \in Clients /\ sent[c] \in Nat /\ m \in Message /\ m # Msg("EXIT")
  BY <1>1, Connections, MessageTypes DEF SendOutput, clientVars, TypeOK
<1>3. k = K(c) /\ k[2] = "command" /\ (k \in closed => ~(alive /\ k[1] \notin killed)) /\ executed[c] = 1
  BY <1>1, <1>2, Connections DEF KindInv, ClosedInv, OnceInv
<1>4. sent' \in [Clients -> Nat] /\ \A d \in Clients : sent'[d] = IF d = c THEN sent[c] + 1 ELSE sent[d]
  BY <1>1, <1>2 DEF SendOutput, TypeOK
<1>5. (OneAtATime /\ ServerSurvives /\ KindInv /\ FreshInv /\ QueueInv /\ VersionInv /\ ClosedInv)'
  BY <1>2, <1>3, DeliverStep DEF HandlerSteps
<1>6. /\ toClient' \in [Conns -> Seq(Message)] /\ broken' \subseteq closed
      /\ toClient'[k] = IF k \notin closed THEN Append(toClient[k], m) ELSE toClient[k]
      /\ \A d \in Clients : d # c => toClient'[K(d)] = toClient[K(d)]
  <2>1. \A d \in Clients : d # c => K(d) # k
    BY <1>3, Connections
  <2> QED
    BY <1>1, <1>2, <2>1, Delivers, Connections
<1>7. TypeOK'
  <2>1. sent[c] < total[c] /\ total[c] \in Nat
    BY <1>1, <1>2 DEF SendOutput, TypeOK
  <2>2. ASSUME NEW d \in Clients
        PROVE  sent'[d] <= total[d]
    <3>1. CASE d = c
      <4>1. sent'[d] = sent[c] + 1
        BY <1>4, <3>1
      <4> QED
        BY <1>2, <2>1, <3>1, <4>1
    <3>2. CASE d # c
      BY <1>1, <1>4, <3>2 DEF TypeOK
    <3> QED
      BY <3>1, <3>2
  <2> QED
    BY <1>1, <1>2, <1>4, <1>6, <2>2 DEF TypeOK
<1>8. (OnceInv /\ DoneInv)'
  <2>1. \A d \in Clients : executed[d] = 0 => d # c
    BY <1>3
  <2>2. \A d \in Clients : executed[d] = 0 => sent'[d] = sent[d] /\ toClient'[K(d)] = toClient[K(d)]
    BY <1>4, <1>6, <2>1
  <2> QED
    BY <1>1, <1>2, <2>2 DEF OnceInv, DoneInv
<1>9. FlowInv'
  <2>1. ASSUME NEW d \in Clients, d # c
        PROVE  Queued(toClient'[K(d)], Len(printed[d])) /\ (K(d) \notin closed => Counted(d)')
    BY <1>1, <1>2, <1>4, <1>6, <2>1 DEF FlowInv, Counted
  <2>2. CASE k \in closed
    BY <1>1, <1>2, <1>3, <1>6, <2>1, <2>2 DEF FlowInv
  <2>3. CASE k \notin closed
    <3>1. Len(printed[c]) \in Nat /\ toClient[k] \in Seq(Message) /\ Len(toClient[k]) \in Nat
      BY <1>1, <1>2 DEF TypeOK
    <3>2. Queued(toClient[k], Len(printed[c])) /\ ~Exits(toClient[k]) /\ Len(printed[c]) + Len(toClient[k]) = sent[c]
      BY <1>1, <1>2, <1>3, <2>3 DEF FlowInv, Counted
    <3>3. /\ Queued(toClient'[k], Len(printed[c])) /\ ~Exits(toClient'[k])
          /\ Len(toClient'[k]) = Len(toClient[k]) + 1
      <4>1. m = Output(Len(printed[c]) + Len(toClient[k]) + 1)
        BY <3>2
      <4>2. toClient'[k] = Append(toClient[k], m)
        BY <1>6, <2>3
      <4>3. m \in Message /\ m # Msg("EXIT")
        BY <1>2
      <4>4. Queued(toClient[k], Len(printed[c])) /\ ~Exits(toClient[k])
        BY <3>2
      <4> HIDE DEF m
      <4>5. /\ Queued(Append(toClient[k], m), Len(printed[c])) /\ ~Exits(Append(toClient[k], m))
            /\ Len(Append(toClient[k], m)) = Len(toClient[k]) + 1
        BY <3>1, <4>1, <4>3, <4>4, QueueOutputs
      <4> QED
        BY <4>2, <4>5
    <3>4. Len(printed[c]) + Len(toClient'[k]) = sent[c] + 1
      <4>1. Len(printed[c]) + (Len(toClient[k]) + 1) = sent[c] + 1
        <5> DEFINE a == Len(printed[c])
                   b == Len(toClient[k])
                   x == sent[c]
        <5>1. a \in Nat /\ b \in Nat /\ a + b = x
          BY <3>1, <3>2
        <5> HIDE DEF a, b, x
        <5>2. a + (b + 1) = x + 1
          BY <5>1
        <5> QED
          BY <5>2 DEF a, b, x
      <4> QED
        BY <3>3, <4>1
    <3>5. Counted(c)'
      BY <1>2, <1>3, <1>4, <3>3, <3>4 DEF Counted
    <3> QED
      BY <1>1, <1>2, <1>3, <2>1, <3>3, <3>5 DEF FlowInv
  <2> QED
    BY <2>2, <2>3
<1> QED
  BY <1>5, <1>7, <1>8, <1>9 DEF IInv

\* CMD_EXIT follows the version, or the last output.
LEMMA SendExitStep ==
  ASSUME IInv, NEW k \in Conns, SendExit(k)
  PROVE  IInv'
<1> DEFINE c == k[1]
           m == Msg("EXIT")
<1>1. /\ TypeOK /\ KindInv /\ FreshInv /\ QueueInv /\ OnceInv /\ VersionInv /\ FlowInv /\ DoneInv /\ ClosedInv
      /\ OneAtATime /\ ServerSurvives
  BY DEF IInv
<1>2. /\ UNCHANGED <<alive, accepting, backlog, total, sent, executed, client, printed, killed, toServer, closed>>
      /\ handler[k] \in {"outputs", "exit"} /\ (handler[k] = "outputs" => sent[c] = total[c])
      /\ handler[k] # "none" /\ handler' = [handler EXCEPT ![k] = "ack"] /\ Deliver(k, m)
      /\ c \in Clients /\ m \in Message
  BY Connections, MessageTypes DEF SendExit, workVars, clientVars
<1>3. /\ handler[k] = "outputs" => k = K(c) /\ k[2] = "command" /\ executed[c] = 1
      /\ handler[k] = "exit" => k[2] = "version" /\ \A d \in Clients : K(d) # k
  BY <1>1, <1>2, Connections DEF KindInv, OnceInv
<1>4. /\ handler' \in [Conns -> HandlerSteps] /\ OneAtATime'
      /\ \A j \in Conns : handler'[j] = IF j = k THEN "ack" ELSE "none"
      /\ \A j \in Conns : j # k => handler[j] = "none"
      /\ \A i \in 1 .. Len(backlog) : backlog[i] # k /\ backlog[i] \in Conns
      /\ ~Fresh(k)
  BY <1>2, Serving DEF HandlerSteps
<1>5. (OneAtATime /\ ServerSurvives /\ KindInv /\ FreshInv /\ QueueInv /\ VersionInv /\ ClosedInv)'
  BY <1>2, <1>3, DeliverStep DEF HandlerSteps
<1>6. /\ toClient' \in [Conns -> Seq(Message)] /\ broken' \subseteq closed
      /\ toClient'[k] = IF k \notin closed THEN Append(toClient[k], m) ELSE toClient[k]
      /\ \A d \in Clients : K(d) # k => toClient'[K(d)] = toClient[K(d)]
  BY <1>1, <1>2, Delivers, Connections
<1>7. TypeOK'
  BY <1>1, <1>2, <1>4, <1>6 DEF TypeOK
<1>8. (OnceInv /\ DoneInv)'
  BY <1>1, <1>2, <1>3, <1>4, <1>6, Connections DEF OnceInv, DoneInv
<1>9. FlowInv'
  <2>1. ASSUME NEW d \in Clients, K(d) # k
        PROVE  Queued(toClient'[K(d)], Len(printed[d])) /\ (K(d) \notin closed => Counted(d)')
    <3>1. handler'[K(d)] # "outputs"
      BY <1>4, Connections
    <3> QED
      BY <1>1, <1>2, <1>6, <2>1, <3>1 DEF FlowInv, Counted
  <2>2. CASE handler[k] = "exit" \/ k \in closed
    <3>1. ASSUME NEW d \in Clients, K(d) = k
          PROVE  Queued(toClient'[K(d)], Len(printed[d])) /\ K(d) \in closed
      BY <1>1, <1>3, <1>6, <2>2, <3>1 DEF FlowInv
    <3> QED
      BY <1>1, <1>2, <2>1, <3>1 DEF FlowInv
  <2>3. CASE handler[k] = "outputs" /\ k \notin closed
    <3>1. Len(printed[c]) \in Nat /\ toClient[k] \in Seq(Message) /\ Len(toClient[k]) \in Nat
      BY <1>1, <1>2 DEF TypeOK
    <3>2. Queued(toClient[k], Len(printed[c])) /\ ~Exits(toClient[k]) /\ Len(printed[c]) + Len(toClient[k]) = sent[c]
      BY <1>1, <1>2, <1>3, <2>3 DEF FlowInv, Counted
    <3>3. /\ Queued(toClient'[k], Len(printed[c])) /\ Exits(toClient'[k])
          /\ Len(toClient'[k]) = Len(toClient[k]) + 1
      BY <1>2, <1>6, <2>3, <3>1, <3>2, QueueOutputs
    <3>4. Len(printed[c]) + Len(toClient'[k]) = sent[c] + 1
      <4>1. Len(printed[c]) + (Len(toClient[k]) + 1) = sent[c] + 1
        <5> DEFINE a == Len(printed[c])
                   b == Len(toClient[k])
                   x == sent[c]
        <5>1. a \in Nat /\ b \in Nat /\ a + b = x
          BY <3>1, <3>2
        <5> HIDE DEF a, b, x
        <5>2. a + (b + 1) = x + 1
          BY <5>1
        <5> QED
          BY <5>2 DEF a, b, x
      <4> QED
        BY <3>3, <4>1
    <3>5. Counted(c)'
      <4>1. handler'[K(c)] # "outputs" /\ toClient'[K(c)] = toClient'[k] /\ sent'[c] = total'[c]
        BY <1>2, <1>3, <1>4, <2>3
      <4> QED
        BY <1>2, <3>3, <3>4, <4>1 DEF Counted
    <3>6. \A d \in Clients : K(d) = k => d = c
      BY Connections
    <3> QED
      BY <1>1, <1>2, <1>3, <2>1, <2>3, <3>3, <3>5, <3>6 DEF FlowInv
  <2> QED
    BY <1>2, <2>2, <2>3
<1> QED
  BY <1>5, <1>7, <1>8, <1>9 DEF IInv

LEMMA ReceiveAckStep ==
  ASSUME IInv, NEW k \in Conns, ReceiveAck(k)
  PROVE  IInv'
<1>1. /\ TypeOK /\ KindInv /\ FreshInv /\ QueueInv /\ OnceInv /\ VersionInv /\ FlowInv /\ DoneInv /\ ClosedInv
      /\ OneAtATime /\ ServerSurvives
  BY DEF IInv
<1>2. /\ UNCHANGED <<alive, accepting, backlog, total, sent, executed, client, printed, killed, toClient, closed, broken>>
      /\ handler[k] # "none" /\ handler[k] = "ack" /\ handler' = [handler EXCEPT ![k] = "none"]
      /\ toServer' = [toServer EXCEPT ![k] = <<>>]
  BY DEF ReceiveAck, workVars, clientVars
<1>3. toServer' \in [Conns -> Seq(Message)] /\ \A j \in Conns : toServer'[j] = IF j = k THEN <<>> ELSE toServer[j]
  <2>1. <<>> \in Seq(Message)
    BY EmptySeq
  <2> QED
    BY <1>1, <1>2, <2>1 DEF TypeOK
<1>4. /\ handler' \in [Conns -> HandlerSteps] /\ OneAtATime'
      /\ \A j \in Conns : handler'[j] = IF j = k THEN "none" ELSE "none"
      /\ \A j \in Conns : j # k => handler[j] = "none"
      /\ \A i \in 1 .. Len(backlog) : backlog[i] # k /\ backlog[i] \in Conns
      /\ ~Fresh(k)
  BY <1>2, Serving DEF HandlerSteps
<1>5. TypeOK'
  BY <1>1, <1>2, <1>3, <1>4 DEF TypeOK
<1>6. (ServerSurvives /\ DoneInv)'
  BY <1>1, <1>2, <1>4, Connections DEF ServerSurvives, DoneInv
<1>7. KindInv'
  <2>1. \A j \in Conns : toServer'[j] = toServer[j] \/ Len(toServer'[j]) = 0
    BY <1>3, EmptySeq
  <2> QED
    BY <1>1, <1>4, <2>1, Connections DEF KindInv
<1>8. FreshInv'
  <2>1. \A j \in Conns : Fresh(j) => Fresh(j)'
    BY <1>2, <1>4 DEF Fresh
  <2> QED
    BY <1>1, <1>2, <2>1, Connections DEF FreshInv
<1>9. (QueueInv /\ OnceInv /\ VersionInv)'
  BY <1>1, <1>2, <1>4, Connections DEF QueueInv, OnceInv, VersionInv
<1>10. FlowInv'
  <2>1. \A d \in Clients : Counted(d) => Counted(d)'
    BY <1>2, <1>4, Connections DEF Counted
  <2> QED
    BY <1>1, <1>2, <2>1 DEF FlowInv
<1>11. ClosedInv'
  BY <1>1, <1>2, <1>4 DEF ClosedInv, TypeOK
<1> QED
  BY <1>4, <1>5, <1>6, <1>7, <1>8, <1>9, <1>10, <1>11 DEF IInv

-----------------------------------------------------------------------------
(* The invariant, and what it says of the program.                         *)

LEMMA Initially == Init => IInv
<1> SUFFICES ASSUME Init
             PROVE  IInv
  OBVIOUS
<1>1. <<>> \in Seq(Conns) /\ <<>> \in Seq(Nat) /\ <<>> \in Seq(Message) /\ Len(<<>>) = 0
  BY EmptySeq
<1>2. TypeOK
  BY <1>1 DEF Init, TypeOK, HandlerSteps, ClientSteps
<1>3. OneAtATime /\ ServerSurvives /\ VersionInv /\ ClosedInv /\ DoneInv
  BY <1>1, Connections DEF Init, OneAtATime, ServerSurvives, VersionInv, ClosedInv, DoneInv
<1>4. KindInv /\ FreshInv /\ QueueInv /\ OnceInv
  BY <1>1, Connections DEF Init, KindInv, FreshInv, Fresh, QueueInv, OnceInv
<1>5. FlowInv
  <2> SUFFICES ASSUME NEW c \in Clients
               PROVE  /\ printed[c] = [i \in 1 .. Len(printed[c]) |-> i]
                      /\ Queued(toClient[K(c)], Len(printed[c])) /\ Counted(c)
    BY DEF FlowInv
  <2>1. printed[c] = <<>> /\ toClient[K(c)] = <<>> /\ sent[c] = 0
    BY Connections DEF Init
  <2>2. printed[c] = [i \in 1 .. Len(printed[c]) |-> i]
    BY <1>1, <2>1
  <2> QED
    BY <1>1, <2>1, <2>2 DEF Queued, Counted, Exits
<1> QED
  BY <1>2, <1>3, <1>4, <1>5 DEF IInv

LEMMA Step == IInv /\ [Next]_vars => IInv'
<1> SUFFICES ASSUME IInv, [Next]_vars
             PROVE  IInv'
  OBVIOUS
<1>1. ASSUME NEW c \in Clients, ClientNext(c) \/ Kill(c)
      PROVE  IInv'
  BY <1>1, ConnectStep, SendRequestStep, ReceiveVersionStep, ReceiveExitStep, ReceiveOutputStep, FailStep
  DEF ClientNext
<1>2. CASE Accept
  BY <1>2, AcceptStep
<1>3. ASSUME NEW k \in Conns,
             Receive(k) \/ SendVersion(k) \/ SendOutput(k) \/ SendExit(k) \/ SigPipe(k) \/ ReceiveAck(k)
      PROVE  IInv'
  BY <1>3, ReceiveStep, SendVersionStep, SendOutputStep, SendExitStep, SigPipeStep, ReceiveAckStep
<1>4. CASE AcceptFails
  BY <1>4, AcceptFailsStep
<1>5. CASE UNCHANGED vars
  <2>1. /\ UNCHANGED <<alive, accepting, backlog, handler, total, sent, executed, client, printed, killed>>
        /\ UNCHANGED <<toServer, toClient, closed, broken>>
    BY <1>5 DEF vars
  <2>2. (TypeOK /\ OneAtATime /\ ServerSurvives /\ KindInv /\ FreshInv /\ QueueInv)'
    BY <2>1 DEF IInv, TypeOK, OneAtATime, ServerSurvives, KindInv, FreshInv, Fresh, QueueInv
  <2>3. (OnceInv /\ VersionInv /\ FlowInv /\ DoneInv /\ ClosedInv)'
    BY <2>1 DEF IInv, OnceInv, VersionInv, FlowInv, Counted, DoneInv, ClosedInv
  <2> QED
    BY <2>2, <2>3 DEF IInv
<1> QED
  BY <1>1, <1>2, <1>3, <1>4, <1>5 DEF Next, ServerNext

\* The invariant holds of every behaviour.
THEOREM Invariance == Spec => []IInv
  BY Initially, Step, PTL DEF Spec

\* Both programs and what is between them keep their types; no message is lost on a
\* connection that is open, and no output is sent that the command has not.
THEOREM TypeCorrect == Spec => []TypeOK
<1>1. IInv => TypeOK
  BY DEF IInv
<1> QED
  BY <1>1, Invariance, PTL

\* However many clients there are, the server works for one at a time.
THEOREM ServedOneAtATime == Spec => []OneAtATime
<1>1. IInv => OneAtATime
  BY DEF IInv
<1> QED
  BY <1>1, Invariance, PTL

\* SIGPIPE ends the server only when a client has been killed.
THEOREM ServerKilledByKilledOnly == Spec => []ServerSurvives
<1>1. IInv => ServerSurvives
  BY DEF IInv
<1> QED
  BY <1>1, Invariance, PTL

\* A client that ends well has printed all that its command put out, in that order,
\* whatever the number of outputs, and the command has been executed once.
THEOREM OutputIsWhole == Spec => []WholeOutput
<1>1. IInv => WholeOutput
  <2> SUFFICES ASSUME IInv, NEW c \in Clients, client[c] = "done"
               PROVE  executed[c] = 1 /\ printed[c] = [n \in 1 .. total[c] |-> n]
    BY DEF WholeOutput
  <2>1. executed[c] = 1 /\ Len(printed[c]) = total[c] /\ printed[c] = [i \in 1 .. Len(printed[c]) |-> i]
    BY DEF IInv, DoneInv, FlowInv
  <2> QED
    BY <2>1
<1> QED
  BY <1>1, Invariance, PTL

-----------------------------------------------------------------------------
(* What ended servers leave behind.  The causes of a held port become      *)
(* inductive when the one server they all lead to is described without     *)
(* counting (OneOwner).  That a hung server supervises nothing is inductive*)
(* as it stands, given the types.                                          *)

\* Children that have not been forked have no origin.
LifeTypeOK ==
  /\ life \in [Servers -> {"new", "serving", "exiting", "hung", "killed"}]
  /\ holders \subseteq Servers \union Children
  /\ execute \in [Servers -> BOOLEAN]
  /\ inPoll \in [Servers -> BOOLEAN]
  /\ caught \in [Servers -> BOOLEAN]
  /\ child \in [Children -> {"unborn", "forked", "program", "ghost", "dead"}]
  /\ DOMAIN origin = Children

\* The servers through which the port is held, by themselves or by their children.
Owners == (holders \cap Servers) \union {origin[c].server : c \in holders \cap Children}
OneOwner == \A s, t \in Owners : s = t

ChildrenHoldForCause ==
  \A c \in holders \cap Children :
    child[c] = "forked" \/ (child[c] = "ghost" /\ origin[c].thread = "handler")

ServingHolds == \A s \in Servers : life[s] = "serving" => s \in holders

PortInv == LifeTypeOK /\ ChildrenHoldForCause /\ OneOwner /\ ServingHolds
LifeInv == PortInv /\ SupervisionEndsWithServer

LEMMA LifeInitInv == LifeInit => LifeInv
BY DEF LifeInit, LifeInv, PortInv, LifeTypeOK, ChildrenHoldForCause, OneOwner, Owners,
       ServingHolds, SupervisionEndsWithServer

\* A step after which fewer processes hold the port, and those for the same cause.
LEMMA FewerHold ==
  ASSUME LifeInv, holders' \subseteq holders,
         \A c \in holders' \cap Children : child'[c] = child[c] /\ origin'[c] = origin[c]
  PROVE  ChildrenHoldForCause' /\ OneOwner'
<1>1. Owners' \subseteq Owners
  BY DEF Owners
<1> QED BY <1>1 DEF LifeInv, PortInv, ChildrenHoldForCause, OneOwner

LEMMA ServerStepInv ==
  ASSUME LifeInv, NEW s \in Servers, ServerStep(s)
  PROVE  LifeInv'
<1> USE DEF LifeInv, PortInv, LifeTypeOK, childVars
<1>1. CASE BootFails(s) \/ AcceptFailed(s)
  BY <1>1, FewerHold DEF BootFails, AcceptFailed, ServingHolds, SupervisionEndsWithServer
<1>2. CASE Boot(s)
  <2>1. CASE holders = {} /\ holders' = {s} /\ life' = [life EXCEPT ![s] = "serving"]
    <3>1. holders' \cap Children = {} /\ Owners' = {s}
      BY <2>1, ServerLifeAssumption DEF Owners
    <3>2. ServingHolds'
      BY <2>1 DEF ServingHolds
    <3> QED BY <1>2, <2>1, <3>1, <3>2
            DEF Boot, ChildrenHoldForCause, OneOwner, SupervisionEndsWithServer
  <2>2. CASE holders' = holders /\ life' = [life EXCEPT ![s] = "exiting"]
    BY <1>2, <2>2, FewerHold DEF Boot, ServingHolds, SupervisionEndsWithServer
  <2> QED BY <1>2, <2>1, <2>2 DEF Boot
<1>3. CASE Destroy(s)
  BY <1>3, FewerHold DEF Destroy, ServingHolds, SupervisionEndsWithServer
<1>4. CASE KillServer(s)
  BY <1>4, FewerHold, ServerLifeAssumption DEF KillServer, ServingHolds, SupervisionEndsWithServer
<1>5. CASE Restart(s) \/ BeginPoll(s) \/ EndPoll(s)
  BY <1>5, FewerHold
     DEF Restart, BeginPoll, EndPoll, Exists, ServingHolds, SupervisionEndsWithServer
<1>6. ASSUME NEW c \in Children, NEW t \in {"handler", "poll"}, ForkChild(s, c, t)
      PROVE  LifeInv'
  <2>1. c \notin holders
    BY <1>6 DEF ForkChild, ChildrenHoldForCause
  <2>2. LifeTypeOK' /\ ServingHolds' /\ SupervisionEndsWithServer'
    BY <1>6 DEF ForkChild, ServingHolds, SupervisionEndsWithServer
  <2>3. ChildrenHoldForCause'
    BY <1>6, <2>1 DEF ForkChild, ChildrenHoldForCause
  <2>4. Owners' \subseteq Owners
    <3>1. origin'[c].server = s /\ \A d \in Children \ {c} : origin'[d] = origin[d]
      BY <1>6 DEF ForkChild
    <3>2. c \notin Servers
      BY ServerLifeAssumption
    <3> QED BY <1>6, <2>1, <3>1, <3>2 DEF ForkChild, Owners
  <2> QED BY <2>2, <2>3, <2>4 DEF OneOwner
<1> QED BY <1>1, <1>2, <1>3, <1>4, <1>5, <1>6 DEF ServerStep

LEMMA ChildStepInv ==
  ASSUME LifeInv, NEW c \in Children, ChildStep(c)
  PROVE  LifeInv'
<1> USE DEF LifeInv, PortInv, LifeTypeOK
<1>1. CASE ExecChild(c) \/ EndChild(c)
  BY <1>1, FewerHold, ServerLifeAssumption
     DEF ExecChild, EndChild, ServingHolds, SupervisionEndsWithServer
<1>2. CASE ExecFails(c) /\ origin[c].thread = "handler"
  <2>1. LifeTypeOK' /\ ServingHolds' /\ SupervisionEndsWithServer'
    BY <1>2 DEF ExecFails, ServingHolds, SupervisionEndsWithServer
  <2>2. ChildrenHoldForCause'
    BY <1>2 DEF ExecFails, ChildrenHoldForCause
  <2>3. Owners' = Owners
    BY <1>2 DEF ExecFails, Owners
  <2> QED BY <2>1, <2>2, <2>3 DEF OneOwner
<1>3. CASE ExecFails(c) /\ origin[c].thread # "handler"
  BY <1>3, FewerHold, ServerLifeAssumption
     DEF ExecFails, ServingHolds, SupervisionEndsWithServer
<1> QED BY <1>1, <1>2, <1>3 DEF ChildStep

\* The invariant of every behaviour.
THEOREM LifeInvariance == LifeSpec => []LifeInv
<1>1. LifeInv /\ [LifeNext]_lifeVars => LifeInv'
  <2> SUFFICES ASSUME LifeInv, [LifeNext]_lifeVars PROVE LifeInv'
    OBVIOUS
  <2>1. CASE UNCHANGED lifeVars
    BY <2>1 DEF lifeVars, LifeInv, PortInv, LifeTypeOK, ChildrenHoldForCause, OneOwner, Owners,
                ServingHolds, SupervisionEndsWithServer
  <2> QED BY <2>1, ServerStepInv, ChildStepInv DEF LifeNext
<1> QED BY <1>1, LifeInitInv, PTL DEF LifeSpec

LEMMA NoTwoOwners == OneOwner => Cardinality(Owners) <= 1
<1> SUFFICES ASSUME OneOwner PROVE Cardinality(Owners) <= 1
  OBVIOUS
<1>1. CASE Owners = {}
  BY <1>1, FS_EmptySet
<1>2. ASSUME NEW s \in Owners PROVE Cardinality(Owners) <= 1
  <2>1. Owners = {s}
    BY <1>2 DEF OneOwner
  <2> QED BY <2>1, FS_Singleton
<1> QED BY <1>1, <1>2

\* The port is held by the last server that bound it and by what it forked, for the
\* causes listed and no other, and a server that has ended supervises nothing unless
\* its poll thread was at work when exit came.
THEOREM EndedServersLetGo == LifeSpec => []EndedServerLetsGo
<1>1. LifeInv => EndedServerLetsGo
  BY NoTwoOwners
     DEF LifeInv, PortInv, EndedServerLetsGo, PortHeldForCause, ChildrenHoldForCause,
         ServingHolds, Owners
<1> QED BY <1>1, LifeInvariance, PTL


Octets == 0 .. Base - 1

(* The inductive invariant.                                                *)

Quiet == {"left", "atEnd", "shortHeader", "spin"}

StreamTypeOK ==
  /\ begun \in Seq(Bodies) /\ unsent \in Seq(Octets) /\ pipe \in Seq(Octets)
  /\ body \in Seq(Octets) /\ arrived \in Seq(Bodies) /\ missing \in Nat
  /\ sender \in {"open", "closed", "killed", "refused"}
  /\ reader \in Quiet \union {"header", "body"}

\* The frame of body b lies in the bytes s behind position p.
FrameAt(s, p, b) ==
  /\ p + 2 + Len(b) <= Len(s)
  /\ s[p + 1] = Len(b) \div Base /\ s[p + 2] = Len(b) % Base
  /\ \A i \in 1 .. Len(b) : s[p + 2 + i] = b[i]

\* Behind the first m bytes, s is the frames of the messages of q after the hth, one
\* behind the other, and nothing else: cut[k] is where the frame of the kth ends.
Framed(cut, s, q, h, m) ==
  /\ cut \in [h .. Len(q) -> Nat]
  /\ cut[h] = m /\ cut[Len(q)] = Len(s)
  /\ \A k \in h + 1 .. Len(q) :
       /\ cut[k] = cut[k - 1] + 2 + Len(q[k])
       /\ FrameAt(s, cut[k - 1], q[k])
  /\ \A j, k \in h .. Len(q) : j < k => cut[j] < cut[k]

Coming == pipe \o unsent

\* How many messages the reader has taken the header of.
Headed == IF reader = "body" THEN Len(arrived) + 1 ELSE Len(arrived)

\* What is under way is the rest of the message being read and whole frames behind it.
StreamFramed ==
  reader \notin Quiet => \E cut : Framed(cut, Coming, begun, Headed, missing)

\* What is missing of the body that is being read is next in the stream.
BodyComing ==
  IF reader = "body"
  THEN /\ Len(arrived) < Len(begun)
       /\ 0 < missing /\ Len(body) + missing = Len(begun[Len(arrived) + 1])
       /\ \A i \in 1 .. Len(body) : body[i] = begun[Len(arrived) + 1][i]
       /\ missing <= Len(Coming)
       /\ \A i \in 1 .. missing : Coming[i] = begun[Len(arrived) + 1][Len(body) + i]
  ELSE reader = "header" => missing = 0 /\ body = <<>>

\* Only the last message can be under way in part.
UnsentOfLast == unsent # <<>> => begun # <<>> /\ Len(unsent) <= 2 + Len(begun[Len(begun)])

\* What has arrived is what was sent, in order and without a gap.
InOrder ==
  /\ Len(arrived) <= Whole
  /\ \A i \in 1 .. Len(arrived) : arrived[i] = begun[i]

\* What the ends of the connection know of each other.
SenderTold ==
  /\ sender = "closed" => unsent = <<>>
  /\ sender = "refused" => reader \in Ended
  /\ reader \in {"atEnd", "spin"} => sender # "open"

StreamInv == StreamTypeOK /\ StreamFramed /\ BodyComing /\ UnsentOfLast /\ InOrder
             /\ SenderTold /\ EndsForCause

-----------------------------------------------------------------------------
(* Frames.                                                                   *)

\* Two sequences, one behind the other.
LEMMA Joined ==
  ASSUME NEW S, NEW u \in Seq(S), NEW v \in Seq(S)
  PROVE  /\ u \o v \in Seq(S) /\ Len(u \o v) = Len(u) + Len(v)
         /\ \A i \in 1 .. Len(u) : (u \o v)[i] = u[i]
         /\ \A i \in 1 .. Len(v) : (u \o v)[Len(u) + i] = v[i]
<1> DEFINE w == u \o v
<1>1. /\ w \in Seq(S) /\ Len(w) = Len(u) + Len(v)
      /\ \A i \in 1 .. Len(u) + Len(v) : w[i] = IF i <= Len(u) THEN u[i] ELSE v[i - Len(u)]
  BY ConcatProperties
<1>2. Len(u) \in Nat /\ Len(v) \in Nat
  OBVIOUS
<1>h. HIDE DEF w
<1>3. \A i \in 1 .. Len(u) : w[i] = u[i]
  BY <1>1, <1>2
<1>4. ASSUME NEW i \in 1 .. Len(v) PROVE w[Len(u) + i] = v[i]
  <2>1. /\ Len(u) + i \in 1 .. Len(u) + Len(v) /\ ~(Len(u) + i <= Len(u))
        /\ (Len(u) + i) - Len(u) = i
    BY <1>2
  <2> QED BY <1>1, <2>1
<1>5. w \in Seq(S) /\ Len(w) = Len(u) + Len(v)
  BY <1>1
<1> QED BY <1>3, <1>4, <1>5 DEF w

\* A message is bytes, and its length fits the header.
LEMMA BodiesTyped ==
  ASSUME NEW b \in Bodies
  PROVE  b \in Seq(Octets) /\ Len(b) \in 1 .. Base * Base - 1
BY StreamAssumption DEF Octets

\* The two bytes of a header are bytes, and give the length back.
LEMMA HeaderBytes ==
  ASSUME NEW n \in Nat, n < Base * Base
  PROVE  /\ n \div Base \in Octets /\ n % Base \in Octets
         /\ (n \div Base) * Base + (n % Base) = n
<1> DEFINE q == n \div Base
           r == n % Base
<1>1. Base \in Nat \ {0, 1}
  BY StreamAssumption
<1>2. q \in Int /\ r \in 0 .. Base - 1 /\ n = Base * q + r
  BY <1>1
<1>h. HIDE DEF q, r
<1>3. q \in 0 .. Base - 1
  <2>1. CASE q >= Base
    <3>1. Base * q >= Base * Base
      BY <1>1, <1>2, <2>1
    <3> QED BY <1>1, <1>2, <3>1
  <2>2. CASE q < 0
    <3>1. q + 1 <= 0
      BY <1>2, <2>2
    <3>2. Base * (q + 1) <= 0
      BY <1>1, <1>2, <3>1
    <3>3. Base * (q + 1) = Base * q + Base
      BY <1>1, <1>2
    <3> QED BY <1>1, <1>2, <3>2, <3>3
  <2> QED BY <1>1, <1>2, <2>1, <2>2
<1>4. q * Base + r = n
  BY <1>1, <1>2
<1> QED BY <1>2, <1>3, <1>4 DEF q, r, Octets

\* What one message puts on the wire.
LEMMA FrameOf ==
  ASSUME NEW b \in Bodies
  PROVE  /\ Header(b) \o b \in Seq(Octets)
         /\ Len(Header(b) \o b) = 2 + Len(b)
         /\ (Header(b) \o b)[1] = Len(b) \div Base
         /\ (Header(b) \o b)[2] = Len(b) % Base
         /\ \A i \in 1 .. Len(b) : (Header(b) \o b)[2 + i] = b[i]
<1>1. b \in Seq(Octets) /\ Len(b) \in Nat /\ Len(b) < Base * Base
  BY BodiesTyped, StreamAssumption
<1>2. Len(b) \div Base \in Octets /\ Len(b) % Base \in Octets
  BY <1>1, HeaderBytes
<1>3. Header(b) \in Seq(Octets) /\ Len(Header(b)) = 2
      /\ Header(b)[1] = Len(b) \div Base /\ Header(b)[2] = Len(b) % Base
  BY <1>2 DEF Header
<1>h. HIDE DEF Header
<1>4. /\ Header(b) \o b \in Seq(Octets)
      /\ Len(Header(b) \o b) = Len(Header(b)) + Len(b)
      /\ \A i \in 1 .. Len(Header(b)) : (Header(b) \o b)[i] = Header(b)[i]
      /\ \A i \in 1 .. Len(b) : (Header(b) \o b)[Len(Header(b)) + i] = b[i]
  <2>1. Header(b) \in Seq(Octets) /\ b \in Seq(Octets)
    BY <1>1, <1>3
  <2> QED BY <2>1, Joined
<1> DEFINE f == Header(b) \o b
<1> HIDE DEF f
<1>5. /\ f \in Seq(Octets) /\ Len(f) = 2 + Len(b)
      /\ f[1] = Header(b)[1] /\ f[2] = Header(b)[2]
      /\ \A i \in 1 .. Len(b) : f[2 + i] = b[i]
  <2>1. /\ f \in Seq(Octets) /\ Len(f) = Len(Header(b)) + Len(b)
        /\ \A i \in 1 .. Len(Header(b)) : f[i] = Header(b)[i]
        /\ \A i \in 1 .. Len(b) : f[Len(Header(b)) + i] = b[i]
    BY <1>4 DEF f
  <2> QED BY <1>1, <1>3, <2>1
<1> QED BY <1>3, <1>5 DEF f

\* The cuts lie behind the first one.
LEMMA NextCuts ==
  ASSUME NEW q \in Seq(Bodies), NEW s \in Seq(Octets), NEW h \in 0 .. Len(q), NEW m \in Nat,
         NEW cut, Framed(cut, s, q, h, m), NEW k \in h .. Len(q)
  PROVE  cut[k] \in Nat /\ cut[k] >= m /\ (h < k => cut[k] > m)
<1>1. Len(q) \in Nat /\ h \in h .. Len(q) /\ (k = h \/ h < k)
  OBVIOUS
<1>2. cut[h] = m /\ cut[k] \in Nat /\ (h < k => cut[h] < cut[k])
  BY <1>1 DEF Framed
<1> QED BY <1>1, <1>2

\* A frame is still there when more comes behind it.
LEMMA FrameKept ==
  ASSUME NEW s \in Seq(Octets), NEW t \in Seq(Octets), Len(s) <= Len(t),
         \A i \in 1 .. Len(s) : t[i] = s[i],
         NEW b, Len(b) \in Nat, NEW at \in Nat, FrameAt(s, at, b)
  PROVE  FrameAt(t, at, b)
<1>1. Len(s) \in Nat /\ Len(t) \in Nat /\ at + 2 + Len(b) <= Len(s)
  BY DEF FrameAt
<1>2. at + 1 \in 1 .. Len(s) /\ at + 2 \in 1 .. Len(s)
      /\ \A i \in 1 .. Len(b) : at + 2 + i \in 1 .. Len(s)
  BY <1>1
<1> QED BY <1>1, <1>2 DEF FrameAt

\* A message that is sent goes behind the others.
LEMMA FramedSend ==
  ASSUME NEW q \in Seq(Bodies), NEW s \in Seq(Octets), NEW h \in 0 .. Len(q), NEW m \in Nat,
         NEW cut, Framed(cut, s, q, h, m), NEW b \in Bodies
  PROVE  \E c : Framed(c, s \o (Header(b) \o b), Append(q, b), h, m)
<1> DEFINE f == Header(b) \o b
           t == s \o f
           p == Append(q, b)
           c == [k \in h .. Len(p) |-> IF k <= Len(q) THEN cut[k] ELSE Len(s) + 2 + Len(b)]
<1>1. /\ f \in Seq(Octets) /\ Len(f) = 2 + Len(b)
      /\ f[1] = Len(b) \div Base /\ f[2] = Len(b) % Base
      /\ \A i \in 1 .. Len(b) : f[2 + i] = b[i]
  BY FrameOf
<1>2. b \in Seq(Octets) /\ Len(b) \in Nat
  BY BodiesTyped
<1>h. HIDE DEF f
<1>3. /\ t \in Seq(Octets) /\ Len(t) = Len(s) + 2 + Len(b)
      /\ \A i \in 1 .. Len(s) : t[i] = s[i]
      /\ \A i \in 1 .. 2 + Len(b) : t[Len(s) + i] = f[i]
  <2>1. Len(s) \in Nat
    OBVIOUS
  <2>2. /\ s \o f \in Seq(Octets) /\ Len(s \o f) = Len(s) + Len(f)
        /\ \A i \in 1 .. Len(s) : (s \o f)[i] = s[i]
        /\ \A i \in 1 .. Len(f) : (s \o f)[Len(s) + i] = f[i]
    <3>1. f \in Seq(Octets)
      BY <1>1
    <3> QED BY <3>1, Joined
  <2>3. /\ t \in Seq(Octets) /\ Len(t) = Len(s) + Len(f)
        /\ \A i \in 1 .. Len(s) : t[i] = s[i]
        /\ \A i \in 1 .. Len(f) : t[Len(s) + i] = f[i]
    BY <2>2
  <2> HIDE DEF t
  <2> QED BY <1>1, <1>2, <2>1, <2>3
<1>4. /\ p \in Seq(Bodies) /\ Len(p) = Len(q) + 1 /\ p[Len(q) + 1] = b
      /\ \A k \in 1 .. Len(q) : p[k] = q[k]
  BY AppendProperties
<1>5. Len(q) \in Nat /\ Len(s) \in Nat
  OBVIOUS
<1>6. \A k \in 1 .. Len(q) : Len(q[k]) \in Nat
  BY BodiesTyped, ElementOfSeq
<1>h2. HIDE DEF t, p
<1>7. c \in [h .. Len(p) -> Nat] /\ c[h] = m /\ c[Len(p)] = Len(t)
  BY <1>2, <1>3, <1>4, <1>5 DEF Framed
<1>8. \A k \in h + 1 .. Len(p) : c[k] = c[k - 1] + 2 + Len(p[k]) /\ FrameAt(t, c[k - 1], p[k])
  <2>1. SUFFICES ASSUME NEW k \in h + 1 .. Len(p)
                 PROVE  c[k] = c[k - 1] + 2 + Len(p[k]) /\ FrameAt(t, c[k - 1], p[k])
    OBVIOUS
  <2>2. CASE k <= Len(q)
    <3>1. k \in h + 1 .. Len(q) /\ k \in h .. Len(p) /\ k - 1 \in h .. Len(p)
          /\ k \in 1 .. Len(q) /\ k - 1 <= Len(q)
      BY <1>4, <1>5, <2>2
    <3>2. p[k] = q[k] /\ c[k] = cut[k] /\ c[k - 1] = cut[k - 1]
      BY <1>4, <2>2, <3>1
    <3>3. cut[k] = cut[k - 1] + 2 + Len(q[k]) /\ FrameAt(s, cut[k - 1], q[k])
      BY <3>1 DEF Framed
    <3>4. FrameAt(t, cut[k - 1], q[k])
      <4>1. cut[k - 1] \in Nat /\ k - 1 \in h .. Len(q)
        BY <3>1, <1>5 DEF Framed
      <4>2. Len(q[k]) \in Nat
        BY <1>6, <3>1
      <4> HIDE DEF c
      <4>3. Len(s) <= Len(t)
        BY <1>2, <1>3, <1>5
      <4> QED BY <1>3, <3>3, <4>1, <4>2, <4>3, FrameKept
    <3> QED BY <3>2, <3>3, <3>4
  <2>3. CASE k = Len(q) + 1
    <3>1. k \in h .. Len(p) /\ k - 1 \in h .. Len(p) /\ k - 1 = Len(q)
      BY <1>4, <1>5, <2>3
    <3>2. p[k] = b /\ c[k] = Len(s) + 2 + Len(b) /\ c[k - 1] = cut[Len(q)] /\ cut[Len(q)] = Len(s)
      BY <1>4, <1>5, <2>3, <3>1 DEF Framed
    <3> HIDE DEF c
    <3>3. FrameAt(t, Len(s), b)
      <4>1. 1 \in 1 .. 2 + Len(b) /\ 2 \in 1 .. 2 + Len(b)
        BY <1>2
      <4>2. t[Len(s) + 1] = f[1] /\ t[Len(s) + 2] = f[2]
        BY <1>3, <4>1
      <4>3. \A i \in 1 .. Len(b) : t[Len(s) + 2 + i] = f[2 + i]
        <5>1. SUFFICES ASSUME NEW i \in 1 .. Len(b) PROVE t[Len(s) + 2 + i] = f[2 + i]
          OBVIOUS
        <5>2. 2 + i \in 1 .. 2 + Len(b) /\ Len(s) + (2 + i) = Len(s) + 2 + i
          BY <1>2, <1>5
        <5>3. t[Len(s) + (2 + i)] = f[2 + i]
          BY <1>3, <5>2
        <5> QED BY <5>2, <5>3
      <4> QED BY <1>1, <1>2, <1>3, <1>5, <4>2, <4>3 DEF FrameAt
    <3> QED BY <3>2, <3>3
  <2> QED BY <1>4, <1>5, <2>2, <2>3
<1>9. \A j, k \in h .. Len(p) : j < k => c[j] < c[k]
  <2>1. SUFFICES ASSUME NEW j \in h .. Len(p), NEW k \in h .. Len(p), j < k
                 PROVE  c[j] < c[k]
    OBVIOUS
  <2>2. j \in h .. Len(q) /\ j <= Len(q) /\ c[j] = cut[j]
    BY <1>4, <1>5, <2>1
  <2>6. Len(q) \in h .. Len(q) /\ cut[Len(q)] = Len(s) /\ cut[j] \in Nat
    <3> HIDE DEF c
    <3>1. Len(q) \in h .. Len(q)
      BY <1>5
    <3> QED BY <2>2, <3>1 DEF Framed
  <2>3. cut[j] <= Len(s)
    <3>1. j < Len(q) => cut[j] < cut[Len(q)]
      BY <2>2, <2>6 DEF Framed
    <3> QED BY <1>5, <2>2, <2>6, <3>1
  <2>4. CASE k <= Len(q)
    <3>1. k \in h .. Len(q) /\ c[k] = cut[k]
      BY <1>4, <1>5, <2>1, <2>4
    <3> QED BY <2>1, <2>2, <3>1 DEF Framed
  <2>5. CASE k = Len(q) + 1
    BY <1>2, <1>4, <1>5, <2>2, <2>3, <2>5, <2>6
  <2> QED BY <1>4, <1>5, <2>4, <2>5
<1>10. Framed(c, t, p, h, m)
  <2> HIDE DEF c
  <2> QED BY <1>7, <1>8, <1>9 DEF Framed
<1> QED BY <1>10 DEF t, p, f

\* A frame behind n bytes that are taken.
LEMMA FrameShifted ==
  ASSUME NEW s \in Seq(Octets), NEW t \in Seq(Octets), NEW n \in Nat, Len(t) = Len(s) - n,
         \A i \in 1 .. Len(t) : t[i] = s[i + n],
         NEW b, Len(b) \in Nat, NEW at \in Nat, n <= at, FrameAt(s, at, b)
  PROVE  FrameAt(t, at - n, b)
<1> DEFINE p == at - n
<1>1. p \in Nat /\ at = p + n /\ Len(t) \in Nat /\ Len(s) \in Nat
  OBVIOUS
<1>h. HIDE DEF p
<1>2. p + 2 + Len(b) <= Len(t)
  BY <1>1 DEF FrameAt
<1>3. \A i \in 1 .. 2 + Len(b) : t[p + i] = s[at + i]
  <2>1. SUFFICES ASSUME NEW i \in 1 .. 2 + Len(b) PROVE t[p + i] = s[at + i]
    OBVIOUS
  <2>2. p + i \in 1 .. Len(t) /\ (p + i) + n = at + i
    BY <1>1, <1>2
  <2> QED BY <2>2
<1>4. t[p + 1] = s[at + 1] /\ t[p + 2] = s[at + 2]
  <2>1. 1 \in 1 .. 2 + Len(b) /\ 2 \in 1 .. 2 + Len(b)
    OBVIOUS
  <2> QED BY <1>3, <2>1
<1>5. \A i \in 1 .. Len(b) : t[p + 2 + i] = s[at + 2 + i]
  <2>1. SUFFICES ASSUME NEW i \in 1 .. Len(b) PROVE t[p + 2 + i] = s[at + 2 + i]
    OBVIOUS
  <2>2. 2 + i \in 1 .. 2 + Len(b) /\ p + (2 + i) = p + 2 + i /\ at + (2 + i) = at + 2 + i
    BY <1>1
  <2>3. t[p + (2 + i)] = s[at + (2 + i)]
    BY <1>3, <2>2
  <2> QED BY <2>2, <2>3
<1>6. FrameAt(t, p, b)
  BY <1>2, <1>4, <1>5 DEF FrameAt
<1> QED BY <1>6 DEF p

\* Two bytes are taken, the header of the next message.
LEMMA FramedHeader ==
  ASSUME NEW q \in Seq(Bodies), NEW s \in Seq(Octets), NEW h \in 0 .. Len(q), s # <<>>,
         NEW cut, Framed(cut, s, q, h, 0),
         NEW t \in Seq(Octets), Len(t) = Len(s) - 2,
         \A i \in 1 .. Len(t) : t[i] = s[i + 2]
  PROVE  /\ h < Len(q)
         /\ s[1] = Len(q[h + 1]) \div Base /\ s[2] = Len(q[h + 1]) % Base
         /\ Len(q[h + 1]) <= Len(t)
         /\ \A i \in 1 .. Len(q[h + 1]) : t[i] = q[h + 1][i]
         /\ \E c : Framed(c, t, q, h + 1, Len(q[h + 1]))
<1> DEFINE c == [k \in h + 1 .. Len(q) |-> cut[k] - 2]
<1>1. Len(q) \in Nat /\ Len(s) \in Nat /\ Len(s) > 0 /\ Len(t) \in Nat
  BY EmptySeq
<1>2. \A k \in 1 .. Len(q) : Len(q[k]) \in Nat
  BY BodiesTyped, ElementOfSeq
<1>3. h < Len(q)
  BY <1>1 DEF Framed
<1>4. h + 1 \in 1 .. Len(q) /\ (h + 1) - 1 = h /\ h + 1 \in h + 1 .. Len(q)
  BY <1>1, <1>3
<1>5. FrameAt(s, 0, q[h + 1]) /\ cut[h + 1] = 2 + Len(q[h + 1])
  <2>1. cut[h] = 0 /\ cut[h + 1] = cut[h] + 2 + Len(q[h + 1]) /\ FrameAt(s, cut[h], q[h + 1])
    BY <1>4 DEF Framed
  <2> QED BY <1>2, <1>4, <2>1
<1>6. \A i \in 1 .. Len(q[h + 1]) : s[2 + i] = q[h + 1][i]
  BY <1>2, <1>4, <1>5 DEF FrameAt
<1>7. Len(q[h + 1]) <= Len(t) /\ \A i \in 1 .. Len(q[h + 1]) : t[i] = q[h + 1][i]
  <2>1. Len(q[h + 1]) <= Len(t)
    BY <1>1, <1>2, <1>4, <1>5 DEF FrameAt
  <2>2. ASSUME NEW i \in 1 .. Len(q[h + 1]) PROVE t[i] = q[h + 1][i]
    <3>1. i \in 1 .. Len(t) /\ i + 2 = 2 + i
      BY <1>1, <1>2, <1>4, <2>1
    <3> QED BY <1>6, <3>1
  <2> QED BY <2>1, <2>2
<1>8. \A k \in h + 1 .. Len(q) : cut[k] \in Nat /\ cut[k] >= 2 + Len(q[h + 1])
  <2>1. SUFFICES ASSUME NEW k \in h + 1 .. Len(q)
                 PROVE  cut[k] \in Nat /\ cut[k] >= 2 + Len(q[h + 1])
    OBVIOUS
  <2>2. k \in h .. Len(q) /\ h + 1 \in h .. Len(q) /\ (k = h + 1 \/ h + 1 < k)
    BY <1>1, <1>4
  <2>3. cut[k] \in Nat /\ cut[h + 1] \in Nat /\ (h + 1 < k => cut[h + 1] < cut[k])
    BY <2>2 DEF Framed
  <2> QED BY <1>2, <1>4, <1>5, <2>2, <2>3
<1>9. c \in [h + 1 .. Len(q) -> Nat] /\ c[h + 1] = Len(q[h + 1]) /\ c[Len(q)] = Len(t)
  <2>1. \A k \in h + 1 .. Len(q) : cut[k] - 2 \in Nat
    <3>1. Len(q[h + 1]) \in Nat
      BY <1>2, <1>4
    <3> QED BY <1>8, <3>1
  <2>2. Len(q) \in h + 1 .. Len(q) /\ cut[Len(q)] = Len(s)
    BY <1>1, <1>3 DEF Framed
  <2> QED BY <1>1, <1>2, <1>4, <1>5, <2>1, <2>2
<1>10. \A k \in h + 2 .. Len(q) : c[k] = c[k - 1] + 2 + Len(q[k]) /\ FrameAt(t, c[k - 1], q[k])
  <2>1. SUFFICES ASSUME NEW k \in h + 2 .. Len(q)
                 PROVE  c[k] = c[k - 1] + 2 + Len(q[k]) /\ FrameAt(t, c[k - 1], q[k])
    OBVIOUS
  <2>2. k \in h + 1 .. Len(q) /\ k - 1 \in h + 1 .. Len(q) /\ k \in 1 .. Len(q)
    BY <1>1
  <2>3. c[k] = cut[k] - 2 /\ c[k - 1] = cut[k - 1] - 2
    BY <2>2
  <2>4. cut[k] = cut[k - 1] + 2 + Len(q[k]) /\ FrameAt(s, cut[k - 1], q[k])
    BY <2>2 DEF Framed
  <2>5. cut[k] \in Nat /\ cut[k - 1] \in Nat /\ cut[k - 1] >= 2
    BY <1>2, <1>4, <1>8, <2>2
  <2>6. Len(q[k]) \in Nat
    BY <1>2, <2>2
  <2> HIDE DEF c
  <2>7. FrameAt(t, cut[k - 1] - 2, q[k])
    BY FrameShifted, <2>4, <2>5, <2>6
  <2> QED BY <2>3, <2>4, <2>5, <2>6, <2>7
<1>11. \A j, k \in h + 1 .. Len(q) : j < k => c[j] < c[k]
  <2>1. SUFFICES ASSUME NEW j \in h + 1 .. Len(q), NEW k \in h + 1 .. Len(q), j < k
                 PROVE  c[j] < c[k]
    OBVIOUS
  <2>2. c[j] = cut[j] - 2 /\ c[k] = cut[k] - 2
    OBVIOUS
  <2> HIDE DEF c
  <2>3. cut[j] < cut[k]
    BY <1>1, <2>1 DEF Framed
  <2> QED BY <1>8, <2>2, <2>3
<1>12. Framed(c, t, q, h + 1, Len(q[h + 1]))
  <2> HIDE DEF c
  <2>1. (h + 1) + 1 = h + 2
    OBVIOUS
  <2> QED BY <1>9, <1>10, <1>11, <2>1 DEF Framed
<1> QED BY <1>3, <1>5, <1>7, <1>12 DEF FrameAt

\* Some bytes are taken of what is missing.
LEMMA FramedBody ==
  ASSUME NEW q \in Seq(Bodies), NEW s \in Seq(Octets), NEW h \in 0 .. Len(q), NEW m \in Nat,
         NEW cut, Framed(cut, s, q, h, m), NEW n \in 0 .. m,
         NEW t \in Seq(Octets), Len(t) = Len(s) - n,
         \A i \in 1 .. Len(t) : t[i] = s[i + n]
  PROVE  \E c : Framed(c, t, q, h, m - n)
<1> DEFINE c == [k \in h .. Len(q) |-> cut[k] - n]
<1>1. Len(q) \in Nat /\ Len(s) \in Nat /\ Len(t) \in Nat
  OBVIOUS
<1>2. \A k \in 1 .. Len(q) : Len(q[k]) \in Nat
  BY BodiesTyped, ElementOfSeq
<1>3. \A k \in h .. Len(q) : cut[k] \in Nat /\ cut[k] >= m
  BY <1>1, NextCuts
<1>4. c \in [h .. Len(q) -> Nat] /\ c[h] = m - n /\ c[Len(q)] = Len(t)
  <2>1. \A k \in h .. Len(q) : cut[k] - n \in Nat
    BY <1>3
  <2>2. h \in h .. Len(q) /\ Len(q) \in h .. Len(q) /\ cut[h] = m /\ cut[Len(q)] = Len(s)
    BY <1>1 DEF Framed
  <2> QED BY <1>1, <2>1, <2>2
<1>5. \A k \in h + 1 .. Len(q) : c[k] = c[k - 1] + 2 + Len(q[k]) /\ FrameAt(t, c[k - 1], q[k])
  <2>1. SUFFICES ASSUME NEW k \in h + 1 .. Len(q)
                 PROVE  c[k] = c[k - 1] + 2 + Len(q[k]) /\ FrameAt(t, c[k - 1], q[k])
    OBVIOUS
  <2>2. k \in h .. Len(q) /\ k - 1 \in h .. Len(q) /\ k \in 1 .. Len(q)
    BY <1>1
  <2>3. c[k] = cut[k] - n /\ c[k - 1] = cut[k - 1] - n
    BY <2>2
  <2>4. cut[k] = cut[k - 1] + 2 + Len(q[k]) /\ FrameAt(s, cut[k - 1], q[k])
    BY <2>1 DEF Framed
  <2>5. cut[k] \in Nat /\ cut[k - 1] \in Nat /\ cut[k - 1] >= n
    BY <1>3, <2>2
  <2>6. Len(q[k]) \in Nat
    BY <1>2, <2>2
  <2> HIDE DEF c
  <2>7. FrameAt(t, cut[k - 1] - n, q[k])
    <3>1. n \in Nat /\ n <= cut[k - 1] /\ FrameAt(s, cut[k - 1], q[k])
      BY <2>4, <2>5
    <3> QED BY FrameShifted, <2>5, <2>6, <3>1
  <2> QED BY <2>3, <2>4, <2>5, <2>6, <2>7
<1>6. \A j, k \in h .. Len(q) : j < k => c[j] < c[k]
  <2>1. SUFFICES ASSUME NEW j \in h .. Len(q), NEW k \in h .. Len(q), j < k
                 PROVE  c[j] < c[k]
    OBVIOUS
  <2>2. c[j] = cut[j] - n /\ c[k] = cut[k] - n
    OBVIOUS
  <2> HIDE DEF c
  <2>3. cut[j] < cut[k]
    BY <1>1, <2>1 DEF Framed
  <2> QED BY <1>3, <2>2, <2>3
<1>7. Framed(c, t, q, h, m - n)
  <2> HIDE DEF c
  <2> QED BY <1>4, <1>5, <1>6 DEF Framed
<1> QED BY <1>7

-----------------------------------------------------------------------------
(* The bytes under way.                                                     *)

\* A piece of v that goes to the end of u changes nothing of what is under way.
LEMMA Handed ==
  ASSUME NEW S, NEW u \in Seq(S), NEW v \in Seq(S), NEW n \in 1 .. Len(v)
  PROVE  /\ u \o SubSeq(v, 1, n) \in Seq(S)
         /\ SubSeq(v, n + 1, Len(v)) \in Seq(S)
         /\ Len(SubSeq(v, n + 1, Len(v))) = Len(v) - n
         /\ (u \o SubSeq(v, 1, n)) \o SubSeq(v, n + 1, Len(v)) = u \o v
<1> DEFINE x == SubSeq(v, 1, n)
           y == SubSeq(v, n + 1, Len(v))
<1>1. Len(v) \in Nat /\ n \in Nat /\ 1 <= n /\ n <= Len(v)
  OBVIOUS
<1>2. x \in Seq(S)
  <2>1. \A i \in 1 .. n : v[i] \in S
    BY <1>1, ElementOfSeq
  <2> QED BY <1>1, <2>1, SubSeqProperties
<1>3. y \in Seq(S) /\ Len(y) = Len(v) - n
  <2>1. \A i \in n + 1 .. Len(v) : v[i] \in S
    BY <1>1, ElementOfSeq
  <2>2. n + 1 \in Int /\ Len(v) \in Int
    BY <1>1
  <2>3. y \in Seq(S) /\ Len(y) = IF n + 1 <= Len(v) THEN Len(v) - (n + 1) + 1 ELSE 0
    BY <2>1, <2>2, SubSeqProperties
  <2> HIDE DEF y
  <2> QED BY <1>1, <2>3
<1>4. x \o y = v
  <2>1. SubSeq(v, 1, n) \o SubSeq(v, n + 1, Len(v)) = SubSeq(v, 1, Len(v))
    BY <1>1, ConcatAdjacentSubSeq
  <2> QED BY <2>1, SubSeqFull
<1>h. HIDE DEF x, y
<1>5. u \o x \in Seq(S)
  BY <1>2, Joined
<1>6. (u \o x) \o y = u \o (x \o y)
  <2>1. x \in Seq(S) /\ y \in Seq(S)
    BY <1>2, <1>3
  <2> QED BY <2>1, ConcatAssociative
<1>7. (u \o x) \o y = u \o v
  BY <1>4, <1>6
<1> QED BY <1>3, <1>5, <1>7 DEF x, y

\* What is left of u, and of what is under way, when the first n of it are taken.
LEMMA Dropped ==
  ASSUME NEW S, NEW u \in Seq(S), NEW v \in Seq(S), NEW n \in 0 .. Len(u)
  PROVE  LET w == SubSeq(u, n + 1, Len(u))
         IN  /\ w \in Seq(S) /\ w \o v \in Seq(S)
             /\ Len(w) = Len(u) - n
             /\ Len(w \o v) = Len(u \o v) - n
             /\ \A i \in 1 .. Len(w \o v) : (w \o v)[i] = (u \o v)[i + n]
<1> DEFINE w == SubSeq(u, n + 1, Len(u))
           x == w \o v
           z == u \o v
<1>1. Len(u) \in Nat /\ Len(v) \in Nat /\ n \in Nat /\ n <= Len(u)
  OBVIOUS
<1>2. w \in Seq(S) /\ Len(w) = Len(u) - n /\ \A i \in 1 .. Len(w) : w[i] = u[i + n]
  <2>1. \A i \in n + 1 .. Len(u) : u[i] \in S
    BY <1>1, ElementOfSeq
  <2>2. n + 1 \in Int /\ Len(u) \in Int
    BY <1>1
  <2>3. /\ w \in Seq(S) /\ Len(w) = IF n + 1 <= Len(u) THEN Len(u) - (n + 1) + 1 ELSE 0
        /\ \A i \in 1 .. Len(u) - (n + 1) + 1 : w[i] = u[(n + 1) + i - 1]
    BY <2>1, <2>2, SubSeqProperties
  <2> HIDE DEF w
  <2>4. Len(w) = Len(u) - n
    <3>1. CASE n + 1 <= Len(u)
      <4>1. Len(w) = Len(u) - (n + 1) + 1
        BY <2>3, <3>1
      <4> QED BY <1>1, <4>1
    <3>2. CASE ~(n + 1 <= Len(u))
      <4>1. Len(w) = 0
        BY <2>3, <3>2
      <4> QED BY <1>1, <3>2, <4>1
    <3> QED BY <3>1, <3>2
  <2>5. ASSUME NEW i \in 1 .. Len(w) PROVE w[i] = u[i + n]
    <3>1. i \in 1 .. Len(u) - (n + 1) + 1 /\ (n + 1) + i - 1 = i + n
      BY <1>1, <2>4
    <3> QED BY <2>3, <3>1
  <2> QED BY <2>3, <2>4, <2>5
<1>h. HIDE DEF w
<1>3. /\ x \in Seq(S) /\ Len(x) = Len(w) + Len(v)
      /\ \A i \in 1 .. Len(w) : x[i] = w[i]
      /\ \A i \in 1 .. Len(v) : x[Len(w) + i] = v[i]
  <2>1. w \in Seq(S)
    BY <1>2
  <2> QED BY <2>1, Joined
<1>4. /\ Len(z) = Len(u) + Len(v)
      /\ \A i \in 1 .. Len(u) : z[i] = u[i]
      /\ \A i \in 1 .. Len(v) : z[Len(u) + i] = v[i]
  BY Joined
<1>h2. HIDE DEF x, z
<1>5. ASSUME NEW i \in 1 .. Len(x) PROVE x[i] = z[i + n]
  <2>1. CASE i <= Len(w)
    <3>1. i \in 1 .. Len(w) /\ i + n \in 1 .. Len(u)
      BY <1>1, <1>2, <1>3, <2>1
    <3> QED BY <1>2, <1>3, <1>4, <3>1
  <2>2. CASE i > Len(w)
    <3> DEFINE j == i - Len(w)
    <3>1. j \in 1 .. Len(v) /\ Len(w) + j = i /\ Len(u) + j = i + n
      BY <1>1, <1>2, <1>3, <2>2
    <3> HIDE DEF j
    <3> QED BY <1>3, <1>4, <3>1
  <2> QED BY <1>1, <1>2, <1>3, <2>1, <2>2
<1>6. Len(x) = Len(z) - n
  BY <1>1, <1>2, <1>3, <1>4
<1> QED BY <1>2, <1>3, <1>5, <1>6 DEF w, x, z

\* What is under way, as bytes.
LEMMA ComingIs ==
  ASSUME StreamTypeOK
  PROVE  /\ Coming \in Seq(Octets) /\ Len(Coming) = Len(pipe) + Len(unsent)
         /\ Len(pipe) \in Nat /\ Len(unsent) \in Nat
         /\ \A i \in 1 .. Len(pipe) : Coming[i] = pipe[i]
<1>1. pipe \in Seq(Octets) /\ unsent \in Seq(Octets)
  BY DEF StreamTypeOK
<1>2. /\ pipe \o unsent \in Seq(Octets)
      /\ Len(pipe \o unsent) = Len(pipe) + Len(unsent)
      /\ \A i \in 1 .. Len(pipe) : (pipe \o unsent)[i] = pipe[i]
  BY <1>1, Joined
<1>3. Len(pipe) \in Nat /\ Len(unsent) \in Nat
  BY <1>1
<1>4. Coming = pipe \o unsent
  BY DEF Coming
<1> HIDE DEF Coming
<1> QED BY <1>2, <1>3, <1>4

\* How many messages have left whole, and how many have begun.
LEMMA WholeIs ==
  ASSUME StreamTypeOK, UnsentOfLast
  PROVE  /\ Whole \in Nat /\ Len(begun) \in Nat /\ Whole <= Len(begun)
         /\ unsent = <<>> => Whole = Len(begun)
         /\ unsent # <<>> => Whole = Len(begun) - 1
<1>1. Len(begun) \in Nat /\ (begun # <<>> => Len(begun) > 0)
  BY EmptySeq DEF StreamTypeOK
<1> QED BY <1>1 DEF UnsentOfLast, Whole

-----------------------------------------------------------------------------
(* The steps.                                                               *)

LEMMA StreamInitInv == StreamInit => StreamInv
<1> SUFFICES ASSUME StreamInit PROVE StreamInv
  OBVIOUS
<1>1. /\ begun = <<>> /\ unsent = <<>> /\ sender = "open" /\ pipe = <<>>
      /\ reader = "header" /\ missing = 0 /\ body = <<>> /\ arrived = <<>>
  BY DEF StreamInit
<1>2. <<>> \in Seq(Octets) /\ <<>> \in Seq(Bodies) /\ Len(<<>>) = 0
  BY EmptySeq
<1>3. StreamTypeOK
  BY <1>1, <1>2 DEF StreamTypeOK
<1>4. Headed = 0 /\ Whole = 0 /\ Len(Coming) = 0
  <2>1. Len(Coming) = Len(pipe) + Len(unsent)
    BY <1>3, ComingIs
  <2> QED BY <1>1, <1>2, <2>1 DEF Headed, Whole
<1>5. StreamFramed
  <2> DEFINE c == [k \in 0 .. 0 |-> 0]
  <2>1. Framed(c, Coming, begun, 0, 0)
    BY <1>1, <1>2, <1>4 DEF Framed
  <2> QED BY <1>1, <1>4, <2>1 DEF StreamFramed
<1>6. BodyComing /\ UnsentOfLast /\ InOrder /\ SenderTold /\ EndsForCause
  BY <1>1, <1>2, <1>4 DEF BodyComing, UnsentOfLast, InOrder, SenderTold, EndsForCause
<1> QED BY <1>3, <1>5, <1>6 DEF StreamInv

LEMMA BeginSendKeeps ==
  ASSUME StreamInv, NEW b \in Bodies, BeginSend(b)
  PROVE  StreamInv' /\ Whole' = Whole
<1> USE DEF StreamInv
<1>1. /\ sender = "open" /\ unsent = <<>>
      /\ begun' = Append(begun, b) /\ unsent' = Header(b) \o b
      /\ UNCHANGED <<sender, pipe, reader, missing, body, arrived>>
  BY DEF BeginSend, readVars
<1>2. /\ begun' \in Seq(Bodies) /\ begun' # <<>> /\ Len(begun') = Len(begun) + 1
      /\ begun'[Len(begun) + 1] = b
      /\ \A k \in 1 .. Len(begun) : begun'[k] = begun[k]
  BY <1>1, AppendProperties DEF StreamTypeOK
<1>3. Len(begun) \in Nat /\ Len(arrived) \in Nat
  BY DEF StreamTypeOK
<1>4. b \in Seq(Octets) /\ Len(b) \in Nat
  BY BodiesTyped
<1>5. unsent' \in Seq(Octets) /\ Len(unsent') = 2 + Len(b) /\ unsent' # <<>>
  <2>1. unsent' \in Seq(Octets) /\ Len(unsent') = 2 + Len(b)
    BY <1>1, FrameOf
  <2>2. unsent' # <<>>
    BY <1>4, <2>1, EmptySeq
  <2> QED BY <2>1, <2>2
<1>6. StreamTypeOK'
  BY <1>1, <1>2, <1>5 DEF StreamTypeOK
<1>7. Whole = Len(begun) /\ Whole' = Len(begun)
  BY <1>1, <1>2, <1>3, <1>5 DEF Whole
<1>8. Coming' = Coming \o (Header(b) \o b)
  <2>1. Coming = pipe
    <3>1. pipe \o <<>> = pipe
      BY ConcatEmptySeq DEF StreamTypeOK
    <3> QED BY <1>1, <3>1 DEF Coming
  <2> QED BY <1>1, <2>1 DEF Coming
<1>9. Headed' = Headed
  BY <1>1 DEF Headed
<1>10. StreamFramed'
  <2>1. SUFFICES ASSUME reader \notin Quiet
                 PROVE  \E cut : Framed(cut, Coming', begun', Headed', missing')
    BY <1>1 DEF StreamFramed
  <2>2. PICK cut : Framed(cut, Coming, begun, Headed, missing)
    BY <2>1 DEF StreamFramed
  <2>3. Headed \in 0 .. Len(begun) /\ missing \in Nat /\ Coming \in Seq(Octets)
        /\ begun \in Seq(Bodies)
    BY <1>3, <1>7, ComingIs DEF Headed, InOrder, BodyComing, StreamTypeOK
  <2>4. \E c : Framed(c, Coming \o (Header(b) \o b), Append(begun, b), Headed, missing)
    BY <2>2, <2>3, FramedSend
  <2> QED BY <1>1, <1>8, <1>9, <2>4
<1>11. BodyComing'
  <2>1. CASE reader = "body"
    <3>1. Len(arrived) + 1 \in 1 .. Len(begun) /\ begun'[Len(arrived) + 1] = begun[Len(arrived) + 1]
      BY <1>2, <1>3, <2>1 DEF BodyComing
    <3>2. Coming \in Seq(Octets) /\ Header(b) \o b \in Seq(Octets)
      BY ComingIs, FrameOf
    <3>3. /\ Len(Coming') = Len(Coming) + Len(Header(b) \o b)
          /\ \A i \in 1 .. Len(Coming) : Coming'[i] = Coming[i]
      BY <1>8, <3>2, Joined
    <3>4. Len(Coming) \in Nat /\ Len(Header(b) \o b) \in Nat /\ missing \in Nat
      BY <3>2 DEF StreamTypeOK
    <3>5. missing <= Len(Coming') /\ \A i \in 1 .. missing : Coming'[i] = Coming[i]
      BY <2>1, <3>3, <3>4 DEF BodyComing
    <3> QED BY <1>1, <1>2, <1>3, <2>1, <3>1, <3>5 DEF BodyComing
  <2>2. CASE reader # "body"
    BY <1>1, <2>2 DEF BodyComing
  <2> QED BY <2>1, <2>2
<1>12. UnsentOfLast'
  BY <1>2, <1>5 DEF UnsentOfLast
<1>13. InOrder'
  BY <1>1, <1>2, <1>3, <1>7 DEF InOrder
<1>14. SenderTold' /\ EndsForCause'
  BY <1>1, <1>7 DEF SenderTold, EndsForCause
<1> QED BY <1>6, <1>7, <1>10, <1>11, <1>12, <1>13, <1>14

LEMMA SendSomeKeeps ==
  ASSUME StreamInv, NEW n \in 1 .. Len(unsent), SendSome(n)
  PROVE  /\ StreamInv'
         /\ Whole' = Whole \/ (Whole < Len(begun) /\ Whole' = Whole + 1)
<1> USE DEF StreamInv
<1>1. /\ sender = "open" /\ reader \notin Ended
      /\ pipe' = pipe \o SubSeq(unsent, 1, n)
      /\ unsent' = SubSeq(unsent, n + 1, Len(unsent))
      /\ UNCHANGED <<begun, sender, reader, missing, body, arrived>>
  BY DEF SendSome, readVars
<1>2. pipe \in Seq(Octets) /\ unsent \in Seq(Octets) /\ Len(unsent) \in Nat
  BY DEF StreamTypeOK
<1>3. /\ pipe' \in Seq(Octets) /\ unsent' \in Seq(Octets)
      /\ Len(unsent') = Len(unsent) - n /\ pipe' \o unsent' = pipe \o unsent
  <2>1. pipe \in Seq(Octets) /\ unsent \in Seq(Octets)
    BY <1>2
  <2>2. /\ pipe \o SubSeq(unsent, 1, n) \in Seq(Octets)
        /\ SubSeq(unsent, n + 1, Len(unsent)) \in Seq(Octets)
        /\ Len(SubSeq(unsent, n + 1, Len(unsent))) = Len(unsent) - n
        /\ (pipe \o SubSeq(unsent, 1, n)) \o SubSeq(unsent, n + 1, Len(unsent)) = pipe \o unsent
    <3>1. n \in 1 .. Len(unsent)
      OBVIOUS
    <3>2. \A u, v \in Seq(Octets) : \A k \in 1 .. Len(v) :
            /\ u \o SubSeq(v, 1, k) \in Seq(Octets)
            /\ SubSeq(v, k + 1, Len(v)) \in Seq(Octets)
            /\ Len(SubSeq(v, k + 1, Len(v))) = Len(v) - k
            /\ (u \o SubSeq(v, 1, k)) \o SubSeq(v, k + 1, Len(v)) = u \o v
      BY ONLY Handed
    <3> QED BY ONLY <2>1, <3>1, <3>2, Zenon
  <2> QED BY <1>1, <2>2, Zenon
<1>4. unsent # <<>> /\ (unsent' # <<>> => Len(unsent') > 0)
  BY <1>2, <1>3, EmptySeq
<1>5. Coming' = Coming
  BY <1>3 DEF Coming
<1>6. StreamTypeOK'
  BY <1>1, <1>3 DEF StreamTypeOK
<1>7. Headed' = Headed
  BY <1>1 DEF Headed
<1>8. StreamFramed' /\ BodyComing'
  BY <1>1, <1>5, <1>7 DEF StreamFramed, BodyComing
<1>9. UnsentOfLast'
  <2>1. Len(begun[Len(begun)]) \in Nat
    <3>1. Len(begun) \in 1 .. Len(begun)
      BY <1>4, EmptySeq DEF UnsentOfLast, StreamTypeOK
    <3>2. begun[Len(begun)] \in Bodies
      BY <3>1, ElementOfSeq DEF StreamTypeOK
    <3> QED BY <3>2, BodiesTyped
  <2> QED BY <1>1, <1>2, <1>3, <1>4, <2>1 DEF UnsentOfLast
<1>10. /\ Whole = Len(begun) - 1 /\ Len(begun) \in Nat
       /\ Whole' \in {Len(begun), Len(begun) - 1}
  BY <1>1, <1>4, WholeIs DEF Whole
<1>11. InOrder'
  BY <1>1, <1>10 DEF InOrder, StreamTypeOK
<1>12. SenderTold' /\ EndsForCause'
  BY <1>1 DEF SenderTold, EndsForCause, Ended
<1> QED BY <1>6, <1>8, <1>9, <1>10, <1>11, <1>12

\* When no byte is left between send and recv, every message that has left whole
\* has arrived; and if the reader is inside a body, its sender is inside it too.
LEMMA NothingLeft ==
  ASSUME StreamInv, pipe = <<>>, reader \in {"header", "body"}
  PROVE  Len(arrived) = Whole /\ (reader = "body" => unsent # <<>>)
<1> USE DEF StreamInv
<1> DEFINE N == Len(begun)
           A == Len(arrived)
           H == Headed
<1>1. Coming \in Seq(Octets) /\ Len(Coming) = Len(unsent) /\ Len(unsent) \in Nat
  BY ComingIs, EmptySeq
<1>2. N \in Nat /\ A \in Nat /\ missing \in Nat /\ A <= Whole
  BY DEF StreamTypeOK, InOrder
<1>3. /\ Whole \in Nat /\ Whole <= N
      /\ unsent = <<>> => Whole = N
      /\ unsent # <<>> => Whole = N - 1
  BY WholeIs
<1>4. H \in 0 .. N /\ (reader = "body" => H = A + 1) /\ (reader = "header" => H = A)
  BY <1>2, <1>3 DEF Headed, BodyComing
<1>5. PICK cut : Framed(cut, Coming, begun, H, missing)
  BY DEF StreamFramed, Quiet
<1>h. HIDE DEF H
<1>6. begun \in Seq(Bodies)
  BY DEF StreamTypeOK
<1>7. \A k \in H .. N : cut[k] \in Nat /\ cut[k] >= missing /\ (H < k => cut[k] > missing)
  BY <1>1, <1>2, <1>4, <1>5, <1>6, NextCuts
<1>8. N \in H .. N /\ cut[N] = Len(unsent)
  BY <1>1, <1>2, <1>4, <1>5 DEF Framed
<1>9. reader = "body" => unsent # <<>>
  <2>1. SUFFICES ASSUME reader = "body" PROVE unsent # <<>>
    OBVIOUS
  <2>2. Len(unsent) > 0
    BY <1>1, <1>2, <1>7, <1>8, <2>1 DEF BodyComing
  <2> QED BY <2>2, EmptySeq
<1>10. CASE unsent = <<>>
  <2>1. Len(unsent) = 0 /\ reader = "header"
    BY <1>9, <1>10, EmptySeq
  <2>2. H = N
    BY <1>2, <1>4, <1>7, <1>8, <2>1
  <2> QED BY <1>3, <1>4, <1>9, <1>10, <2>1, <2>2
<1>11. CASE unsent # <<>>
  <2>1. Len(unsent) > 0 /\ Len(unsent) <= 2 + Len(begun[N]) /\ N >= 1
    BY <1>1, <1>2, <1>11, EmptySeq DEF UnsentOfLast, StreamTypeOK
  <2>2. CASE H = N
    <3>1. reader = "body"
      <4>1. cut[N] = missing
        BY <1>5, <2>2 DEF Framed
      <4>2. missing > 0
        BY <1>8, <2>1, <4>1
      <4> QED BY <4>2 DEF BodyComing
    <3> QED BY <1>2, <1>3, <1>4, <1>9, <1>11, <2>2, <3>1
  <2>3. CASE H < N
    <3>1. N \in H + 1 .. N /\ N - 1 \in H .. N /\ N \in 1 .. N
      BY <1>2, <1>4, <2>3
    <3>2. cut[N] = cut[N - 1] + 2 + Len(begun[N])
      BY <1>5, <3>1 DEF Framed
    <3>3. Len(begun[N]) \in Nat
      <4>1. begun[N] \in Bodies
        BY <1>6, <3>1, ElementOfSeq
      <4> QED BY <4>1, BodiesTyped
    <3>4. cut[N - 1] = 0 /\ missing = 0 /\ H = N - 1
      <4>1. cut[N - 1] \in Nat /\ cut[N - 1] >= missing /\ (H < N - 1 => cut[N - 1] > missing)
        BY <1>7, <3>1
      <4>2. cut[N - 1] = 0
        BY <1>1, <1>8, <2>1, <3>2, <3>3, <4>1
      <4> QED BY <1>2, <1>4, <2>3, <4>1, <4>2
    <3>5. reader = "header"
      BY <3>4 DEF BodyComing
    <3> QED BY <1>2, <1>3, <1>4, <1>11, <3>4, <3>5
  <2> QED BY <1>2, <1>4, <2>2, <2>3
<1> QED BY <1>10, <1>11

\* The steps in which no byte moves.
LEMMA NoByteKeeps ==
  ASSUME StreamInv,
         SendRefused \/ CloseSender \/ ReceiveEnd \/ Spin \/ Leave \/ UNCHANGED streamVars
  PROVE  StreamInv' /\ UNCHANGED <<begun, unsent, arrived>>
<1> USE DEF StreamInv
<1>1. UNCHANGED <<begun, unsent, pipe, missing, body, arrived>>
  BY DEF SendRefused, CloseSender, ReceiveEnd, Spin, Leave, streamVars, readVars
<1>2. reader' = reader \/ (reader' \in Quiet /\ (reader' = "left" \/ sender' # "open"))
  BY DEF SendRefused, CloseSender, ReceiveEnd, Spin, Leave, streamVars, readVars, Quiet
<1>3. StreamTypeOK'
  BY <1>1, <1>2 DEF StreamTypeOK, SendRefused, CloseSender, ReceiveEnd, Spin, Leave, streamVars,
                    readVars, Quiet
<1>4. Whole' = Whole /\ Coming' = Coming
  BY <1>1 DEF Whole, Coming
<1>5. StreamFramed' /\ BodyComing'
  BY <1>1, <1>2, <1>4 DEF StreamFramed, BodyComing, Headed, Quiet
<1>6. UnsentOfLast' /\ InOrder'
  BY <1>1, <1>4 DEF UnsentOfLast, InOrder
<1>7. SenderTold'
  BY <1>1 DEF SenderTold, SendRefused, CloseSender, ReceiveEnd, Spin, Leave, streamVars, readVars,
              Ended
<1>8. EndsForCause'
  <2>1. CASE SendRefused \/ CloseSender \/ UNCHANGED streamVars
    <3>1. reader' = reader /\ (sender # "open" => sender' = sender)
      BY <2>1 DEF SendRefused, CloseSender, streamVars, readVars
    <3> QED BY <1>1, <1>4, <3>1 DEF EndsForCause, SenderTold
  <2>2. CASE ReceiveEnd
    <3>1. reader = "header" /\ pipe = <<>> /\ reader' = "atEnd"
      BY <2>2 DEF ReceiveEnd
    <3>2. Len(arrived) = Whole
      BY <3>1, NothingLeft
    <3> QED BY <1>1, <1>4, <3>1, <3>2 DEF EndsForCause
  <2>3. CASE Spin
    <3>1. /\ reader = "body" /\ pipe = <<>> /\ sender # "open" /\ reader' = "spin"
          /\ sender' = sender
      BY <2>3 DEF Spin
    <3>2. Len(arrived) = Whole /\ unsent # <<>>
      BY <3>1, NothingLeft
    <3>3. sender = "killed"
      BY <3>1, <3>2 DEF SenderTold, StreamTypeOK, Ended
    <3> QED BY <1>1, <1>4, <3>1, <3>2, <3>3 DEF EndsForCause
  <2>4. CASE Leave
    BY <2>4 DEF Leave, EndsForCause
  <2> QED BY <2>1, <2>2, <2>3, <2>4
<1> QED BY <1>1, <1>3, <1>5, <1>6, <1>7, <1>8

LEMMA ReceiveHeaderKeeps ==
  ASSUME StreamInv, ReceiveHeader
  PROVE  StreamInv' /\ UNCHANGED <<begun, unsent, arrived>>
<1> USE DEF StreamInv
<1>1. /\ reader = "header" /\ pipe # <<>> /\ missing = 0 /\ body = <<>>
      /\ UNCHANGED <<begun, unsent, sender, body, arrived>>
  BY DEF ReceiveHeader, BodyComing
<1>2. Whole' = Whole
  BY <1>1 DEF Whole
<1>3. UnsentOfLast' /\ InOrder'
  BY <1>1, <1>2 DEF UnsentOfLast, InOrder
<1>4. CASE Len(pipe) = 1
  <2>1. reader' = "shortHeader" /\ pipe' = <<>> /\ missing' = missing
    BY <1>4 DEF ReceiveHeader
  <2>2. StreamTypeOK'
    BY <1>1, <2>1, EmptySeq DEF StreamTypeOK, Quiet
  <2> QED BY <1>1, <1>3, <2>1, <2>2
          DEF StreamFramed, BodyComing, SenderTold, EndsForCause, Quiet, Ended
<1>5. CASE Len(pipe) # 1
  <2> DEFINE h == Len(arrived)
             b == begun[h + 1]
  <2>1. /\ reader' = "body" /\ missing' = pipe[1] * Base + pipe[2]
        /\ pipe' = SubSeq(pipe, 3, Len(pipe))
    BY <1>5 DEF ReceiveHeader
  <2>2. /\ pipe \in Seq(Octets) /\ unsent \in Seq(Octets) /\ begun \in Seq(Bodies)
        /\ Len(pipe) \in Nat /\ 2 <= Len(pipe) /\ Len(begun) \in Nat /\ h \in Nat
    <3>1. /\ pipe \in Seq(Octets) /\ unsent \in Seq(Octets) /\ begun \in Seq(Bodies)
          /\ arrived \in Seq(Bodies)
      BY DEF StreamTypeOK
    <3>2. Len(pipe) \in Nat \ {0}
      BY <1>1, <3>1, EmptySeq
    <3>3. Len(begun) \in Nat /\ h \in Nat
      BY <3>1
    <3>4. 2 <= Len(pipe)
      BY <1>5, <3>2
    <3> QED BY <3>1, <3>2, <3>3, <3>4
  <2>3. 2 \in 0 .. Len(pipe) /\ 2 + 1 = 3
    BY <2>2
  <2>4. /\ pipe' \in Seq(Octets) /\ pipe' \o unsent \in Seq(Octets)
        /\ Len(pipe') = Len(pipe) - 2
        /\ Len(pipe' \o unsent) = Len(pipe \o unsent) - 2
        /\ \A i \in 1 .. Len(pipe' \o unsent) : (pipe' \o unsent)[i] = (pipe \o unsent)[i + 2]
    <3>1. pipe \in Seq(Octets) /\ unsent \in Seq(Octets)
      BY <2>2
    <3>2. LET w == SubSeq(pipe, 2 + 1, Len(pipe))
          IN  /\ w \in Seq(Octets) /\ w \o unsent \in Seq(Octets)
              /\ Len(w) = Len(pipe) - 2
              /\ Len(w \o unsent) = Len(pipe \o unsent) - 2
              /\ \A i \in 1 .. Len(w \o unsent) : (w \o unsent)[i] = (pipe \o unsent)[i + 2]
      <4> DEFINE k == 2
      <4>1. k \in 0 .. Len(pipe)
        BY <2>3
      <4> HIDE DEF k
      <4>2. LET w == SubSeq(pipe, k + 1, Len(pipe))
            IN  /\ w \in Seq(Octets) /\ w \o unsent \in Seq(Octets)
                /\ Len(w) = Len(pipe) - k
                /\ Len(w \o unsent) = Len(pipe \o unsent) - k
                /\ \A i \in 1 .. Len(w \o unsent) : (w \o unsent)[i] = (pipe \o unsent)[i + k]
        BY ONLY <3>1, <4>1, Dropped
      <4> QED BY <4>2 DEF k
    <3>3. pipe' = SubSeq(pipe, 2 + 1, Len(pipe))
      BY <2>1, <2>3
    <3> HIDE DEF StreamInv
    <3> QED BY <3>2, <3>3, Zenon
  <2>5. /\ Coming' \in Seq(Octets) /\ Len(Coming') = Len(Coming) - 2
        /\ \A i \in 1 .. Len(Coming') : Coming'[i] = Coming[i + 2]
    BY <1>1, <2>4, Zenon DEF Coming
  <2>6. /\ Coming \in Seq(Octets) /\ Coming # <<>>
        /\ Coming[1] = pipe[1] /\ Coming[2] = pipe[2]
    <3>1. /\ Coming \in Seq(Octets) /\ Len(Coming) = Len(pipe) + Len(unsent)
          /\ Len(unsent) \in Nat /\ \A i \in 1 .. Len(pipe) : Coming[i] = pipe[i]
      BY ComingIs
    <3>2. 1 \in 1 .. Len(pipe) /\ 2 \in 1 .. Len(pipe) /\ Len(Coming) > 0
      BY <2>2, <3>1
    <3> QED BY <3>1, <3>2, EmptySeq
  <2>7. PICK cut : Framed(cut, Coming, begun, h, 0)
    BY <1>1 DEF StreamFramed, Quiet, Headed
  <2>8. h \in 0 .. Len(begun)
    BY <2>2, WholeIs DEF InOrder
  <2>9. /\ h < Len(begun)
        /\ Coming[1] = Len(b) \div Base /\ Coming[2] = Len(b) % Base
        /\ Len(b) <= Len(Coming')
        /\ \A i \in 1 .. Len(b) : Coming'[i] = b[i]
        /\ \E c : Framed(c, Coming', begun, h + 1, Len(b))
    <3> DEFINE s == Coming
               t == Coming'
    <3>1. s \in Seq(Octets) /\ s # <<>> /\ t \in Seq(Octets) /\ Len(t) = Len(s) - 2
          /\ \A i \in 1 .. Len(t) : t[i] = s[i + 2]
      BY <2>5, <2>6
    <3>2. begun \in Seq(Bodies)
      BY <2>2
    <3>3. Framed(cut, s, begun, h, 0)
      BY <2>7
    <3> HIDE DEF s, t
    <3>4. /\ h < Len(begun)
          /\ s[1] = Len(begun[h + 1]) \div Base /\ s[2] = Len(begun[h + 1]) % Base
          /\ Len(begun[h + 1]) <= Len(t)
          /\ \A i \in 1 .. Len(begun[h + 1]) : t[i] = begun[h + 1][i]
          /\ \E c : Framed(c, t, begun, h + 1, Len(begun[h + 1]))
      BY ONLY <2>8, <3>1, <3>2, <3>3, FramedHeader
    <3> QED BY <3>4 DEF s, t
  <2>10. /\ b \in Bodies /\ Len(b) \in Nat /\ 1 <= Len(b) /\ Len(b) < Base * Base
    <3>1. h + 1 \in 1 .. Len(begun)
      BY <2>2, <2>9
    <3>2. b \in Bodies
      BY <2>2, <3>1, ElementOfSeq
    <3> HIDE DEF b
    <3> QED BY <3>2, StreamAssumption
  <2>h. HIDE DEF b
  <2>11. missing' = Len(b)
    BY <2>1, <2>6, <2>9, <2>10, HeaderBytes
  <2>12. StreamTypeOK'
    BY <1>1, <2>1, <2>4, <2>10, <2>11 DEF StreamTypeOK
  <2>13. StreamFramed'
    <3>1. Headed' = h + 1
      BY <1>1, <2>1 DEF Headed
    <3>2. \E c : Framed(c, Coming', begun', Headed', missing')
      BY <1>1, <2>9, <2>11, <3>1
    <3> QED BY <3>2 DEF StreamFramed
  <2>14. BodyComing'
    <3>1. begun'[Len(arrived') + 1] = b /\ Len(body') = 0
      BY <1>1, EmptySeq DEF b
    <3>2. \A i \in 1 .. missing' : Coming'[i] = b[Len(body') + i]
      BY <2>9, <2>10, <2>11, <3>1
    <3> QED BY <1>1, <2>1, <2>2, <2>9, <2>10, <2>11, <3>1, <3>2 DEF BodyComing
  <2>15. SenderTold' /\ EndsForCause'
    BY <1>1, <2>1 DEF SenderTold, EndsForCause, Ended
  <2> QED BY <1>1, <1>3, <2>12, <2>13, <2>14, <2>15
<1> QED BY <1>1, <1>4, <1>5

LEMMA ReceiveBodyKeeps ==
  ASSUME StreamInv, ReceiveBody
  PROVE  /\ StreamInv' /\ UNCHANGED <<begun, unsent>>
         /\ \/ arrived' = arrived
            \/ /\ Len(arrived) < Whole
               /\ arrived' = Append(arrived, begun[Len(arrived) + 1])
<1> USE DEF StreamInv
<1> DEFINE n == IF missing < Len(pipe) THEN missing ELSE Len(pipe)
           A == Len(arrived)
           b == begun[A + 1]
           x == SubSeq(pipe, 1, n)
           y == body \o x
<1>1. /\ reader = "body" /\ pipe # <<>>
      /\ UNCHANGED <<begun, unsent, sender>>
      /\ pipe' = SubSeq(pipe, n + 1, Len(pipe))
      /\ IF n = missing
         THEN arrived' = Append(arrived, y) /\ reader' = "header" /\ missing' = 0 /\ body' = <<>>
         ELSE body' = y /\ missing' = missing - n /\ UNCHANGED <<reader, arrived>>
  BY DEF ReceiveBody
<1>2. /\ pipe \in Seq(Octets) /\ unsent \in Seq(Octets) /\ begun \in Seq(Bodies)
      /\ body \in Seq(Octets) /\ arrived \in Seq(Bodies) /\ missing \in Nat
      /\ Len(pipe) \in Nat /\ Len(unsent) \in Nat /\ Len(begun) \in Nat /\ A \in Nat
      /\ Len(body) \in Nat /\ 0 < Len(pipe)
  BY <1>1, EmptySeq DEF StreamTypeOK
<1>3. /\ n \in Nat /\ n \in 0 .. Len(pipe) /\ n \in 0 .. missing /\ n <= Len(pipe)
      /\ n <= missing /\ (n # missing => n = Len(pipe))
  BY <1>2
<1>h. HIDE DEF n
<1>4. /\ A < Len(begun) /\ 0 < missing /\ Len(body) + missing = Len(b)
      /\ \A i \in 1 .. Len(body) : body[i] = b[i]
      /\ missing <= Len(Coming)
      /\ \A i \in 1 .. missing : Coming[i] = b[Len(body) + i]
  BY <1>1 DEF BodyComing
<1>5. b \in Bodies /\ b \in Seq(Octets) /\ Len(b) \in Nat
  <2>1. A + 1 \in 1 .. Len(begun)
    BY <1>2, <1>4
  <2>2. b \in Bodies
    BY <1>2, <2>1, ElementOfSeq
  <2> HIDE DEF b
  <2> QED BY <2>2, BodiesTyped
<1>6. /\ pipe' \in Seq(Octets) /\ Coming' \in Seq(Octets) /\ Len(Coming') = Len(Coming) - n
      /\ \A i \in 1 .. Len(Coming') : Coming'[i] = Coming[i + n]
  <2>1. pipe \in Seq(Octets) /\ unsent \in Seq(Octets) /\ n \in 0 .. Len(pipe)
    BY <1>2, <1>3
  <2>2. LET w == SubSeq(pipe, n + 1, Len(pipe))
        IN  /\ w \in Seq(Octets) /\ w \o unsent \in Seq(Octets)
            /\ Len(w) = Len(pipe) - n
            /\ Len(w \o unsent) = Len(pipe \o unsent) - n
            /\ \A i \in 1 .. Len(w \o unsent) : (w \o unsent)[i] = (pipe \o unsent)[i + n]
    BY ONLY <2>1, Dropped
  <2>3. pipe' = SubSeq(pipe, n + 1, Len(pipe)) /\ unsent' = unsent
    BY <1>1
  <2> HIDE DEF StreamInv
  <2> QED BY <2>2, <2>3, Zenon DEF Coming
<1>7. Coming \in Seq(Octets) /\ Len(Coming) = Len(pipe) + Len(unsent)
      /\ \A i \in 1 .. Len(pipe) : Coming[i] = pipe[i]
  BY ComingIs
<1>8. /\ x \in Seq(Octets) /\ Len(x) = n
      /\ \A i \in 1 .. n : x[i] = b[Len(body) + i]
  <2>1. \A i \in 1 .. n : pipe[i] \in Octets
    BY <1>2, <1>3, ElementOfSeq
  <2>2. n \in Int /\ 1 \in Int
    BY <1>3
  <2>3. /\ x \in Seq(Octets) /\ Len(x) = IF 1 <= n THEN n - 1 + 1 ELSE 0
        /\ \A i \in 1 .. n - 1 + 1 : x[i] = pipe[1 + i - 1]
    BY ONLY <2>1, <2>2, SubSeqProperties
  <2> HIDE DEF x
  <2>4. Len(x) = n
    BY <1>3, <2>3
  <2>5. ASSUME NEW i \in 1 .. n PROVE x[i] = b[Len(body) + i]
    <3>1. i \in 1 .. n - 1 + 1 /\ 1 + i - 1 = i /\ i \in 1 .. Len(pipe) /\ i \in 1 .. missing
      BY <1>2, <1>3
    <3>2. x[i] = pipe[i]
      BY <2>3, <3>1
    <3> QED BY <1>4, <1>7, <3>1, <3>2
  <2> QED BY <2>3, <2>4, <2>5
<1>9. /\ y \in Seq(Octets) /\ Len(y) = Len(body) + n
      /\ \A i \in 1 .. Len(y) : y[i] = b[i]
  <2> HIDE DEF x
  <2>1. /\ y \in Seq(Octets) /\ Len(y) = Len(body) + Len(x)
        /\ \A i \in 1 .. Len(body) : y[i] = body[i]
        /\ \A i \in 1 .. Len(x) : y[Len(body) + i] = x[i]
    <3>1. body \in Seq(Octets) /\ x \in Seq(Octets)
      BY <1>2, <1>8
    <3> QED BY ONLY <3>1, Joined
  <2> HIDE DEF y
  <2>2. ASSUME NEW i \in 1 .. Len(y) PROVE y[i] = b[i]
    <3>1. CASE i <= Len(body)
      BY <1>2, <1>4, <2>1, <3>1
    <3>2. CASE i > Len(body)
      <4> DEFINE j == i - Len(body)
      <4>1. j \in 1 .. n /\ Len(body) + j = i
        BY <1>2, <1>3, <1>8, <2>1, <3>2
      <4> HIDE DEF j
      <4> QED BY <1>8, <2>1, <4>1
    <3> QED BY <1>2, <1>3, <1>8, <2>1, <3>1, <3>2
  <2> QED BY <1>8, <2>1, <2>2
<1>h2. HIDE DEF x, y
<1>10. Whole' = Whole
  BY <1>1 DEF Whole
<1>11. PICK cut : Framed(cut, Coming, begun, A + 1, missing)
  BY <1>1 DEF StreamFramed, Quiet, Headed
<1>12. \E c : Framed(c, Coming', begun, A + 1, missing - n)
  <2> DEFINE s == Coming
             t == Coming'
  <2>1. /\ s \in Seq(Octets) /\ t \in Seq(Octets) /\ Len(t) = Len(s) - n
        /\ \A i \in 1 .. Len(t) : t[i] = s[i + n]
    BY <1>6, <1>7
  <2>2. begun \in Seq(Bodies) /\ A + 1 \in 0 .. Len(begun) /\ missing \in Nat /\ n \in 0 .. missing
    BY <1>2, <1>3, <1>4
  <2>3. Framed(cut, s, begun, A + 1, missing)
    BY <1>11
  <2> HIDE DEF s, t
  <2>4. \E c : Framed(c, t, begun, A + 1, missing - n)
    BY ONLY <2>1, <2>2, <2>3, FramedBody
  <2> QED BY <2>4 DEF t
<1>13. UnsentOfLast' /\ SenderTold'
  BY <1>1 DEF UnsentOfLast, SenderTold, Ended
<1>14. CASE n = missing
  <2>1. /\ arrived' = Append(arrived, y) /\ reader' = "header" /\ missing' = 0 /\ body' = <<>>
    BY <1>1, <1>14
  <2>2. y = b
    <3>1. Len(y) = Len(b)
      BY <1>4, <1>9, <1>14
    <3>2. y \in Seq(Octets) /\ b \in Seq(Octets) /\ \A i \in 1 .. Len(y) : y[i] = b[i]
      BY <1>5, <1>9
    <3> HIDE DEF b
    <3> QED BY ONLY <3>1, <3>2, SeqEqual
  <2>3. /\ arrived' \in Seq(Bodies) /\ Len(arrived') = A + 1 /\ arrived'[A + 1] = b
        /\ \A i \in 1 .. A : arrived'[i] = arrived[i]
    <3>1. arrived \in Seq(Bodies) /\ b \in Bodies /\ arrived' = Append(arrived, b)
      BY <1>2, <1>5, <2>1, <2>2
    <3> HIDE DEF b
    <3> QED BY ONLY <3>1, AppendProperties
  <2>4. A + 1 <= Whole
    <3>1. CASE unsent = <<>>
      BY <1>2, <1>4, <3>1 DEF Whole
    <3>2. CASE unsent # <<>>
      <4>1. Len(unsent) > 0 /\ Whole = Len(begun) - 1
        BY <1>2, <3>2, EmptySeq DEF Whole
      <4>2. A + 1 # Len(begun)
        <5>1. ASSUME A + 1 = Len(begun) PROVE FALSE
          <6>1. Len(Coming) = missing
            BY <1>2, <1>11, <5>1 DEF Framed
          <6> QED BY <1>2, <1>3, <1>7, <1>14, <4>1, <6>1
        <5> QED BY <5>1
      <4> QED BY <1>2, <1>4, <4>1, <4>2
    <3> QED BY <3>1, <3>2
  <2>5. StreamTypeOK'
    BY <1>1, <1>6, <2>1, <2>3, EmptySeq DEF StreamTypeOK
  <2>6. StreamFramed'
    <3>1. Headed' = A + 1
      BY <2>1, <2>3 DEF Headed
    <3>2. missing - n = 0
      BY <1>2, <1>14
    <3>3. \E c : Framed(c, Coming', begun', Headed', missing')
      BY <1>1, <1>12, <2>1, <3>1, <3>2
    <3> QED BY <3>3 DEF StreamFramed
  <2>7. BodyComing'
    BY <2>1 DEF BodyComing
  <2>8. InOrder'
    <3>1. \A i \in 1 .. A + 1 : arrived'[i] = begun'[i]
      <4>1. \A i \in 1 .. A : arrived'[i] = begun[i]
        BY <2>3 DEF InOrder
      <4>2. \A i \in 1 .. A + 1 : i \in 1 .. A \/ i = A + 1
        BY <1>2
      <4> QED BY <1>1, <2>3, <4>1, <4>2
    <3> QED BY <1>10, <2>3, <2>4, <3>1 DEF InOrder
  <2>9. EndsForCause'
    BY <2>1 DEF EndsForCause
  <2>10. Len(arrived) < Whole /\ arrived' = Append(arrived, begun[Len(arrived) + 1])
    BY <1>2, <2>1, <2>2, <2>4, WholeIs
  <2> QED BY <1>1, <1>13, <2>5, <2>6, <2>7, <2>8, <2>9, <2>10
<1>15. CASE n # missing
  <2>1. body' = y /\ missing' = missing - n /\ reader' = "body" /\ arrived' = arrived
    BY <1>1, <1>15
  <2>2. missing' \in Nat /\ 0 < missing'
    BY <1>2, <1>3, <1>15, <2>1
  <2>3. StreamTypeOK'
    BY <1>1, <1>6, <1>9, <2>1, <2>2 DEF StreamTypeOK
  <2>4. StreamFramed'
    <3>1. Headed' = A + 1
      BY <2>1 DEF Headed
    <3>2. \E c : Framed(c, Coming', begun', Headed', missing')
      BY <1>1, <1>12, <2>1, <3>1
    <3> QED BY <3>2 DEF StreamFramed
  <2>5. BodyComing'
    <3>1. begun'[Len(arrived') + 1] = b /\ Len(body') = Len(body) + n
      BY <1>1, <1>9, <2>1
    <3>h. HIDE DEF b
    <3>2. Len(body') + missing' = Len(b)
      <4>1. Len(body) + missing = Len(b) /\ Len(body') = Len(body) + n /\ missing' = missing - n
        BY <1>4, <2>1, <3>1
      <4>2. Len(body) \in Nat /\ missing \in Nat /\ n \in Nat
        BY <1>2, <1>3
      <4> QED BY ONLY <4>1, <4>2
    <3>3. \A i \in 1 .. Len(body') : body'[i] = b[i]
      BY <1>9, <2>1
    <3>4. missing' <= Len(Coming')
      BY <1>2, <1>3, <1>4, <1>6, <1>7, <2>1
    <3>5. ASSUME NEW i \in 1 .. missing' PROVE Coming'[i] = b[Len(body') + i]
      <4>1. /\ i \in 1 .. Len(Coming') /\ i + n \in 1 .. missing
            /\ Len(body) + (i + n) = Len(body') + i
        BY <1>2, <1>3, <1>6, <1>7, <2>1, <2>2, <3>1, <3>4
      <4>2. Coming[i + n] = b[Len(body) + (i + n)]
        BY <1>4, <4>1
      <4> QED BY <1>6, <4>1, <4>2
    <3>6. Len(arrived') < Len(begun')
      BY <1>1, <1>4, <2>1
    <3> QED BY <2>1, <2>2, <3>1, <3>2, <3>3, <3>4, <3>5, <3>6 DEF BodyComing
  <2>6. InOrder' /\ EndsForCause'
    BY <1>1, <1>10, <2>1 DEF InOrder, EndsForCause
  <2> QED BY <1>1, <1>13, <2>1, <2>3, <2>4, <2>5, <2>6
<1> QED BY <1>14, <1>15

-----------------------------------------------------------------------------
\* The invariant is kept, and every step is one of a Channel's or none.
LEMMA StreamStep ==
  StreamInv /\ [StreamNext]_streamVars => StreamInv' /\ [Ch!ChannelNext]_(Ch!ChannelVars)
<1> SUFFICES ASSUME StreamInv, [StreamNext]_streamVars
             PROVE  StreamInv' /\ [Ch!ChannelNext]_(Ch!ChannelVars)
  OBVIOUS
<1>1. CASE \E b \in Bodies : BeginSend(b)
  <2>1. PICK b \in Bodies : BeginSend(b)
    BY <1>1
  <2>2. StreamInv' /\ Whole' = Whole
    BY <2>1, BeginSendKeeps
  <2>3. Ch!Post(b)
    BY <2>1, <2>2 DEF BeginSend, readVars, Whole, Ch!Post
  <2> QED BY <2>2, <2>3 DEF Ch!ChannelNext
<1>2. CASE \E n \in 1 .. Len(unsent) : SendSome(n)
  <2>1. PICK n \in 1 .. Len(unsent) : SendSome(n)
    BY <1>2
  <2>2. StreamInv' /\ (Whole' = Whole \/ (Whole < Len(begun) /\ Whole' = Whole + 1))
    BY <2>1, SendSomeKeeps
  <2>3. UNCHANGED <<begun, arrived>>
    BY <2>1 DEF SendSome, readVars
  <2> QED BY <2>2, <2>3 DEF Ch!ChannelNext, Ch!Complete, Ch!ChannelVars
<1>3. CASE SendRefused \/ CloseSender \/ ReceiveEnd \/ Spin \/ Leave \/ UNCHANGED streamVars
  <2>1. StreamInv' /\ UNCHANGED <<begun, unsent, arrived>>
    BY <1>3, NoByteKeeps
  <2>2. Whole' = Whole
    BY <2>1 DEF Whole
  <2> QED BY <2>1, <2>2 DEF Ch!ChannelVars
<1>4. CASE ReceiveHeader
  <2>1. StreamInv' /\ UNCHANGED <<begun, unsent, arrived>>
    BY <1>4, ReceiveHeaderKeeps
  <2>2. Whole' = Whole
    BY <2>1 DEF Whole
  <2> QED BY <2>1, <2>2 DEF Ch!ChannelVars
<1>5. CASE ReceiveBody
  <2>1. /\ StreamInv' /\ UNCHANGED <<begun, unsent>>
        /\ \/ arrived' = arrived
           \/ Len(arrived) < Whole /\ arrived' = Append(arrived, begun[Len(arrived) + 1])
    BY <1>5, ReceiveBodyKeeps
  <2>2. Whole' = Whole
    BY <2>1 DEF Whole
  <2> QED BY <2>1, <2>2 DEF Ch!ChannelNext, Ch!Take, Ch!ChannelVars
<1> QED BY <1>1, <1>2, <1>3, <1>4, <1>5 DEF StreamNext, Sending, Receiving

\* BaseSocket::Send and Receive carry messages as a Channel does, in whatever pieces
\* the bytes travel and wherever a sender is killed: whole, once and in order.
THEOREM StreamIsChannel == StreamSpec => ImplementsChannel
<1>1. StreamInit => StreamInv /\ Ch!ChannelInit
  BY StreamInitInv, EmptySeq DEF StreamInit, Ch!ChannelInit, Whole
<1>2. StreamInv /\ [StreamNext]_streamVars => StreamInv' /\ [Ch!ChannelNext]_(Ch!ChannelVars)
  BY StreamStep
<1> QED BY <1>1, <1>2, PTL DEF StreamSpec, ImplementsChannel, Ch!ChannelSpec

\* Receive fails at an end of the connection only behind the last whole message,
\* and loops without end only inside a body whose sender was killed.
THEOREM StreamEndsForCause == StreamSpec => []EndsForCause
<1>1. StreamInv /\ [StreamNext]_streamVars => StreamInv'
  BY StreamStep
<1>2. StreamInv => EndsForCause
  BY DEF StreamInv
<1> QED BY <1>1, <1>2, StreamInitInv, PTL DEF StreamSpec
=============================================================================
