------------------------------ MODULE SessionMC ------------------------------
(* Small instances for TLC of Session and of the parts of the program it     *)
(* stands on: the bytes of a connection, the coding of a message, and the    *)
(* life of the server's process.  They share no state: a behaviour is one    *)
(* machine's, and the others keep still.                                     *)
EXTENDS Session, ByteStream, PduCodec, ServerLife, TLC

CONSTANTS c1, c2, old, s1, s2, k1, k2

\* Bodies of one to four bytes; the shortest is no PDU, the longest fills Room.
MCBodies == {<<1>>, <<0, 1>>, <<2, 1, 0, 1>>}

Word(n) == StringVar([i \in 1 .. n |-> i])

\* A parameter of each type, a string longer than half of the buffer, and a USTRING
\* with a zero inside.
MCVars == {NumberVar("CHAR", <<9>>), NumberVar("SHORT", <<7, 15>>), NumberVar("INT", <<1, 2, 3, 4>>),
           NumberVar("FLOAT", <<9, 1, 1, 0>>), Word(0), Word(1), Word(3), Word(14), StringVar([i \in 1 .. 18 |-> 1]),
           [type |-> "USTRING", size |-> 2, mem |-> <<0, 3>>],
           [type |-> "EMPTY", size |-> 0, mem |-> <<>>]}

\* Up to three of them, and messages of many short ones.
MCPdus == [fc : {3}, params : UNION {[1 .. n -> MCVars] : n \in 0 .. 3}
                              \union {[i \in 1 .. n |-> Word(1)] : n \in 6 .. 9}]

VARIABLE turn
Machines == {"session", "stream", "codec", "life"}
allVars == <<turn, vars, streamVars, codecVars, lifeVars>>

MCInit == turn \in Machines /\ Init /\ StreamInit /\ CodecInit /\ LifeInit

\* In a behaviour of another machine no client is ever started.
NoClients ==
  /\ turn # "session" /\ \E c \in Clients : Kill(c)
  /\ UNCHANGED <<turn, streamVars, codecVars, lifeVars>>
Over == \A c \in Clients : ~Running(c)

MCNext ==
  \/ turn = "session" /\ Next /\ UNCHANGED <<turn, streamVars, codecVars, lifeVars>>
  \/ NoClients
  \/ turn = "stream" /\ Over /\ StreamNext /\ UNCHANGED <<turn, vars, codecVars, lifeVars>>
  \/ turn = "codec" /\ Over /\ CodecNext /\ UNCHANGED <<turn, vars, streamVars, lifeVars>>
  \/ turn = "life" /\ Over /\ LifeNext /\ UNCHANGED <<turn, vars, streamVars, codecVars>>

MCSpec == MCInit /\ [][MCNext]_allVars /\ Fairness /\ StreamFairness /\ WF_allVars(NoClients)
=============================================================================
