----------------------------- MODULE ServerLife -----------------------------
(***************************************************************************)
(* The server's processes from start to end: main (server/server.cpp), the *)
(* thread of ProcessPollManager (common/base_poll_manager.cpp), and what   *)
(* fork, execve and exit do to both (ProcessManager::ForkNewProcess).      *)
(*                                                                         *)
(* exit runs the destructors of static objects.  The poll manager is one:  *)
(* its destructor stops the polling and joins a thread whose loop never    *)
(* ends.  A server that calls exit therefore stays, with its socket.  A    *)
(* forked child whose execve fails calls exit as well.                     *)
(*                                                                         *)
(* What the handlers and the poll thread do to the processes they start is *)
(* ProcessManager; here only that they fork and that they change the       *)
(* poll manager's list matters.                                            *)
(***************************************************************************)
EXTENDS Naturals, FiniteSets

CONSTANTS
  Servers,  \* bound: the server is started once for each of them
  Children  \* bound: forks

ASSUME ServerLifeAssumption == IsFiniteSet(Servers) /\ Servers \cap Children = {}

VARIABLES
  life,     \* main of each server: "new", "serving", "exiting", "hung", "killed"
  holders,  \* the processes in which the listening socket is open
  execute,  \* _Execute of each server's poll manager
  inPoll,   \* its thread is inside _poll
  caught,   \* history: the destructor ran while the thread was inside _poll
  child,    \* "unborn", "forked", "program", "ghost", "dead"
  origin    \* the thread of a server that forked a child

lifeVars == <<life, holders, execute, inPoll, caught, child, origin>>
childVars == <<child, origin>>

NoOrigin == [server |-> CHOOSE s \in Servers : TRUE, thread |-> "none"]

LifeInit ==
  /\ life = [s \in Servers |-> "new"]
  /\ holders = {}
  /\ execute = [s \in Servers |-> FALSE]
  /\ inPoll = [s \in Servers |-> FALSE]
  /\ caught = [s \in Servers |-> FALSE]
  /\ child = [c \in Children |-> "unborn"]
  /\ origin = [c \in Children |-> NoOrigin]

Exists(s) == life[s] \in {"serving", "exiting", "hung"}

-----------------------------------------------------------------------------
(* main.                                                                   *)

\* ReloadConfiguration fails, or the port lies outside its bounds: no socket.
BootFails(s) ==
  /\ life[s] = "new"
  /\ life' = [life EXCEPT ![s] = "exiting"]
  /\ UNCHANGED <<holders, execute, inPoll, caught, childVars>>

\* createServerSocket.  There is no SO_REUSEADDR: bind fails while a process
\* has the port's socket, and may fail because a connection lingers.
Boot(s) ==
  /\ life[s] = "new"
  /\ \/ /\ holders = {}
        /\ life' = [life EXCEPT ![s] = "serving"]
        /\ holders' = {s}
     \/ life' = [life EXCEPT ![s] = "exiting"] /\ UNCHANGED holders
  /\ UNCHANGED <<execute, inPoll, caught, childVars>>

\* waitForConnection returns -1: the loop ends.  exit does not destroy main's
\* serverSocket, and the socket stays open.
AcceptFailed(s) ==
  /\ life[s] = "serving"
  /\ life' = [life EXCEPT ![s] = "exiting"]
  /\ UNCHANGED <<holders, execute, inPoll, caught, childVars>>

\* Mutant of Destroy: the thread is joined, and not told to stop.
DestroyJoins(s) ==
  /\ life[s] = "exiting"
  /\ life' = [life EXCEPT ![s] = "hung"]
  /\ caught' = [caught EXCEPT ![s] = inPoll[s]]
  /\ UNCHANGED <<holders, execute, inPoll, childVars>>

\* ~BasePollManager: _stop, then join, which does not return.
Destroy(s) ==
  /\ life[s] = "exiting"
  /\ life' = [life EXCEPT ![s] = "hung"]
  /\ execute' = [execute EXCEPT ![s] = FALSE]
  /\ caught' = [caught EXCEPT ![s] = inPoll[s]]
  /\ UNCHANGED <<holders, inPoll, childVars>>

\* A signal ends the process and its threads; the kernel closes its socket.
KillServer(s) ==
  /\ Exists(s)
  /\ life' = [life EXCEPT ![s] = "killed"]
  /\ holders' = holders \ {s}
  /\ execute' = [execute EXCEPT ![s] = FALSE]
  /\ inPoll' = [inPoll EXCEPT ![s] = FALSE]
  /\ UNCHANGED <<caught, childVars>>

-----------------------------------------------------------------------------
(* The poll manager.                                                       *)

\* ProcessPollManager::add and remove end with _start, whoever calls them: a
\* handler, or a monitor function inside _poll.
Restart(s) ==
  /\ life[s] = "serving" \/ (Exists(s) /\ inPoll[s])
  /\ execute' = [execute EXCEPT ![s] = TRUE]
  /\ UNCHANGED <<life, holders, inPoll, caught, childVars>>

\* _poll goes on only when _Execute is set.
BeginPoll(s) ==
  /\ Exists(s) /\ execute[s] /\ ~inPoll[s]
  /\ inPoll' = [inPoll EXCEPT ![s] = TRUE]
  /\ UNCHANGED <<life, holders, execute, caught, childVars>>

EndPoll(s) ==
  /\ inPoll[s]
  /\ inPoll' = [inPoll EXCEPT ![s] = FALSE]
  /\ UNCHANGED <<life, holders, execute, caught, childVars>>

-----------------------------------------------------------------------------
(* ForkNewProcess.                                                         *)

\* The child has its parent's open files and only the thread that forked.
ForkChild(s, c, thread) ==
  /\ child[c] = "unborn"
  /\ IF thread = "handler" THEN life[s] = "serving" ELSE Exists(s) /\ inPoll[s]
  /\ child' = [child EXCEPT ![c] = "forked"]
  /\ origin' = [origin EXCEPT ![c] = [server |-> s, thread |-> thread]]
  /\ holders' = IF s \in holders THEN holders \union {c} ELSE holders
  /\ UNCHANGED <<life, execute, inPoll, caught>>

\* Mutant of ExecChild: sockets without SOCK_CLOEXEC, no pass over /proc/<pid>/fd.
ExecChildKeepsFiles(c) ==
  /\ child[c] = "forked"
  /\ child' = [child EXCEPT ![c] = "program"]
  /\ UNCHANGED <<life, holders, execute, inPoll, caught, origin>>

\* execve succeeds: files that are marked close-on-exec are closed.
ExecChild(c) ==
  /\ child[c] = "forked"
  /\ child' = [child EXCEPT ![c] = "program"]
  /\ holders' = holders \ {c}
  /\ UNCHANGED <<life, execute, inPoll, caught, origin>>

\* execve fails and the child calls exit.  In a child of a handler the poll
\* thread does not exist, and joining it waits for ever; in a child of the poll
\* thread joining is joining oneself, which throws, and the child aborts.
ExecFails(c) ==
  /\ child[c] = "forked"
  /\ IF origin[c].thread = "handler"
     THEN child' = [child EXCEPT ![c] = "ghost"] /\ UNCHANGED holders
     ELSE child' = [child EXCEPT ![c] = "dead"] /\ holders' = holders \ {c}
  /\ UNCHANGED <<life, execute, inPoll, caught, origin>>

\* A child ends by itself, or by a signal: a stop request's, for one.
EndChild(c) ==
  /\ child[c] \in {"forked", "program", "ghost"}
  /\ child' = [child EXCEPT ![c] = "dead"]
  /\ holders' = holders \ {c}
  /\ UNCHANGED <<life, execute, inPoll, caught, origin>>

-----------------------------------------------------------------------------
ServerStep(s) ==
  \/ BootFails(s) \/ Boot(s) \/ AcceptFailed(s) \/ Destroy(s) \/ KillServer(s)
  \/ Restart(s) \/ BeginPoll(s) \/ EndPoll(s)
  \/ \E c \in Children, t \in {"handler", "poll"} : ForkChild(s, c, t)

ChildStep(c) == ExecChild(c) \/ ExecFails(c) \/ EndChild(c)

LifeNext == (\E s \in Servers : ServerStep(s)) \/ (\E c \in Children : ChildStep(c))

LifeSpec == LifeInit /\ [][LifeNext]_lifeVars

-----------------------------------------------------------------------------
(* Properties.                                                             *)

\* Who keeps a server that is started from binding the port: one server that
\* has bound it and still exists, serving or hung in exit, and children of that
\* same server on their way to execve or stuck in the exit of a failed one.  A
\* program that was started never holds it, and when the server is killed
\* only children that a handler forked can keep the port for longer than the
\* time between fork and execve.
PortHeldForCause ==
  /\ \A c \in holders \cap Children :
       child[c] = "forked" \/ (child[c] = "ghost" /\ origin[c].thread = "handler")
  /\ Cardinality((holders \cap Servers)
                  \union {origin[c].server : c \in holders \cap Children}) <= 1
  /\ \A s \in Servers : life[s] = "serving" => s \in holders

\* A server that no longer serves no longer supervises either, with one
\* exception: the poll thread was inside _poll when exit stopped it, and a
\* monitor function has set _Execute again.
SupervisionEndsWithServer ==
  \A s \in Servers :
    life[s] = "hung" /\ ~caught[s] =>
      /\ ~execute[s] /\ ~inPoll[s]

\* What an ended server leaves behind: its port is free for the next one, and its poll
\* thread supervises nothing beside the next one's, but for the causes named above
\* (ForkNewProcess, ~BasePollManager).
EndedServerLetsGo == PortHeldForCause /\ SupervisionEndsWithServer
=============================================================================
