# A verification project for linux-process-manager

linux-process-manager is a supervisor for processes on one machine. A server
reads an XML file that defines groups of processes; a command-line client, `pmc`,
asks it over TCP to start, stop, restart and ping them and to show or reload the
configuration; a poll thread watches the processes marked `IsMonitor` and
replaces those that die. This directory holds TLA+ modules translated from that
code, TLC configurations that check them on small instances, and TLAPS proofs of
the safety properties that matter most. Paths below are relative to `src/`.

## 1. The system

### Components, their state and their operations

| component | state it keeps | operations | here |
|---|---|---|---|
| `MasterSlaveMutex` (`common/master_slave_mutex.cpp`), instance `ProcConfigLock` | a mutex and four atomic flags | `lockPrimary`, `unlockPrimary`, `lockSecondary`, `unlockSecondary`, `isPrimaryWaiting` | modelled |
| `ProcessManager` (`server/proc_manager.cpp`) | none of its own; the children of the server | start (with dependencies), stop, stop by pid, restart, ping, monitor | modelled |
| `ProcessMonitorStore`, `ProcessInstanceManager` (`server/proc_manager.cpp`, `proc_def.cpp`) | per process an entry with its instances' pids | add and remove an instance, remove by pid, copy, count | modelled but for operations without a caller |
| `ProcessPollManager`, `BasePollManager` (`server/proc_poll_manager.cpp`, `common/base_poll_manager.cpp`) | list of tasks, its thread, `_Execute` | the poll loop, `add`, `remove`, the destructor's stop and join | modelled but for `clear` and the clock |
| `ProcCmdHandler` (`server/command_handlers/proc_cmd_handler.cpp`) | none | `execute` | modelled |
| `ProcessConfigurationParser`, `ProcessConfigStoreManager`, `ProcessConfigurationStore`, `ProcessGroup`, `ConfigCmdHandler` | the groups, `Loaded` | load, reload, lookup of one and of all processes; add, remove and update a process, a shared memory, a group; clear | modelled but for display |
| server's `main`, `RequestHandler`, `RequestData` | the socket, one thread per connection | start, accept, serve, send output, `CMD_EXIT`, await its answer, exit | modelled |
| client's `CliHandler` | two connections, one after the other | check the version, execute a request | modelled |
| client's `CommandManager`, the dispatch in `RequestHandler` | the words of the line, the request | make a request of a line, give it to a handler | modelled |
| `BaseSocket`, the PDU and its parameters (`common/socket_manager.cpp`, `PDU.cpp`, `sys_variant.cpp`) | none | connect, send, receive, close; encode, decode; arithmetic and comparison of parameters | modelled but for files, which nobody sends |
| `SettingsCmdHandler`, `ServerConfigurationManager`, `Logger` | poll interval, log mode and five flags; port, log file | read from a file, update, reset, use by the poll thread | interval, mode and flags modelled; port and log file not |
| `ProcessVariables` (`server/proc_def.cpp`) | argument and environment arrays, an index each | construct, add, copy, assign, destroy | modelled |
| shared memory (`common/shmm.hpp`) | the kernel's segment of a key, what each program has attached | producer: create, write, destroy; consumer: init, update, destroy | modelled but for the factory |
| pugixml (`libs/pugixml`) | a tree of linked nodes, the pages it lives in | parse; read and set a number; insert, move, copy, remove; allocate and free | what the program uses and what it may use of the tree, see section 8 |
| utilities, client configuration, help | | | not modelled, see section 8 |

### How they interact

The shared memory, the arithmetic on parameters, the update of groups and the editing
of documents are code that no part of this program calls: they are offered to programs
and to later commands. They are modelled as what they promise such a caller, and the
hazards of this program do not count them.

`main` loads the configuration, then accepts connections. For each it starts
`RequestHandler::ServeRequest` with `std::async` and drops the future, whose
destructor waits: connections are served one at a time, which nothing in the code
says, and which the rest of the server depends on. A process command takes
`ProcConfigLock` as the *primary*; the poll thread takes it as a *secondary*,
gives way when a primary waits, and looks again between two tasks. Whoever holds
it calls `ProcessManager`, which forks, signals and reaps children, and keeps
`ProcessMonitorStore`; adding the first instance of a monitored process to the
store adds a task to the poll manager, and removing the last removes it - also
from inside the poll loop. A configuration command does not take
`ProcConfigLock`, and a settings command changes atomics that the poll thread
loads, one by one. Every instance in the store was started with a copy of a
`ProcessInfo` whose `GroupId` points to the group in the configuration store;
the poll thread follows that pointer when it starts a replacement's dependencies.

### What is hard in it

- four flags written after the mutex is released, read before it is taken;
- children that end between any two steps of either thread, zombies, pids used
  again;
- a poll loop that changes, through two layers of calls, the list it iterates;
- counting instances on four different paths to a fork;
- results read where nothing has been written (`status` of `waitpid`, `Error`);
- a shared process that two groups define differently but track together;
- reloads of an edited file while processes that were started from it run;
- clients that go away in the middle, a blocking server, `SIGPIPE`, messages cut in
  pieces, an `accept` that fails, an `exit` that cannot return;
- buffers and arrays whose bounds are tested after they have been passed;
- memory shared between programs without a semaphore;
- a file that is read while somebody writes it;
- a request whose two ends, a parser and a handler in different programs, agree
  only on the position and the number of its parameters;
- settings of several atomics, changed while they are used.

`PROJECT.json` lists these hazards by line, with the property that covers each
or the reason why none does.

### What makes each component correct

- The lock: one thread inside; no flag left set for good; a waiting command is
  seen by the poll thread and gets in; the poll thread is not shut out for good.
- The supervisor: no more instances than allowed; one poll task per monitored
  entry; a pid belongs to one entry; no child is lost; only the server's own
  children are signalled; only a stop takes a running instance out of the store;
  commands end and dead instances are noticed.
- The configuration: what was handed out does not change; a command is not given a
  disabled process, and what else is started is needed by one that was; commands are
  answered exactly when the last load was good; a group
  is what its first definition says.
- Commands and settings: a line does what the help says of it and nothing else; a
  setting is in effect when it is reported; the poll interval stays in its bounds;
  what is logged follows the mode.
- The exchange: one command at a time, once, with all its output; no client that
  runs to its end harms the server; every client comes to an end; what arrives is
  what was sent, message by message and parameter by parameter.
- The server's processes: who can hold the port; supervision ends with service.
- Memory: the strings a process is configured with all reach it, in order and with an
  end, however often they are copied; the store never leads
  to what has been deleted, and the answers of its operations are true; a shared
  segment has one producer and somebody who will remove it, or one who lost it.
- The document: half a file is no configuration, a whole one is read as it was
  meant, numbers come out as written or as the nearest their type has, and the
  tree stays a tree whose names nobody overwrites.

## 2. Plan

All modules below are written and checked; the order is that of their importance.

1. `PriorityLock` and `MasterSlaveMutex`, proved.
2. `ProcessManager` on top of `PriorityLock`, its safety proved.
3. `ConfigStore`, and under it `GroupStore` and `ProcessVariables`, all proved.
4. `Session`, its safety proved, and under it `ByteStream`, which implements
   `Channel`, and `PduCodec`, with `Variant` for the parameters, all proved but for
   the liveness of `ByteStream`.
5. `Command`, its safety proved; and under it `XmlNumbers`, proved, and `XmlParser`.
6. `ServerLife`, proved, and `SharedMemory`, proved.
7. `XmlTree`, which implements `OrderedTree`, and `XmlPages`, both proved.

There are three abstract specifications: `PriorityLock`, what the lock promises and
`ProcessManager` builds on; `Channel`, what the sockets promise and `Session` builds
on; and `OrderedTree`, what the operations on a document promise and its linked
lists have to keep.

What one module takes for granted another shows:

| assumption | where | shown by |
|---|---|---|
| one primary at a time | `ImplementsPriorityLock` | `OneAtATime` of `Session` |
| the lock is `PriorityLock` | `ProcessManager` | `PriorityLockImplemented` |
| a thread that asks for the lock gets it | fairness of `BeginExecute`, `PollCheck` | `PrimaryServed`, `PollNotLockedOut` |
| definitions in use do not change (constant `Config`) | `ProcessManager` | `HandedOutStays` of `ConfigStore`, part of `HandedOutGood` |
| no lookup overlaps a reload | `ConfigStore` | `OneAtATime` of `Session` |
| executing a command ends | fairness of `Session` | `CommandServed` of `ProcessManager` |
| messages arrive whole and in order | `Session` | `ImplementsChannel` of `ByteStream` |
| a message's parameters arrive as they were | `Command` | `RoundTrip` of `PduCodec`, part of `CodecHonest` |
| a process has room for its strings, and each copy has all of them | `ConfigStore` | `SoundUntilCrowded`, `ExecGetsStrings` of `ProcessVariables`, parts of `StringsKept` |
| a file is unreadable or read whole | `ConfigStore`, `Command` | `PartsRefused`, `ReadAsWritten` of `XmlParser`, parts of `DocumentsOnly` |
| a number in a file is the integer it is compared as | `Command` | `NumbersClamped` of `XmlNumbers`, part of `NumbersExact` |
| a request names an operation and the processes of one group, one id or one pid | `Requests` of `ProcessManager` | `DoneAsMeant` of `Command` |

## 3. The modules and the code

**`PriorityLock`** has a holder, the primaries that wait and the secondaries that
are past the check. `Admit` requires that nobody waits at that moment; a
secondary that has been admitted may still be overtaken by a primary.

**`MasterSlaveMutex`** has the four flags, the owner of `_Mtx` and a program
counter per thread; each load, store, lock and unlock is an action. The
release/acquire accesses are interleaved in one order: the flags publish no other
data, the mutex does that. `lockPrimary` that finds another primary inside
returns at once (`PrimaryTry`); `lockSecondary` tests the waiting flag and then
the locked flag, both separately from `_Mtx.lock()`.

**`ProcessManager`** has both threads. At most one of them is inside the lock, so
one set of registers stands for the call stack of the one inside: `todo` for the
command's loop over processes, `cursor` for the poll loop, `loop` and `victims`
for the loop over a copied instance map, `dying` for `StopProcess(pid_t)`,
`starting`, `deps` and `inner` for `StartProcess`, `ResolveDependency` and the
`StartProcess` of a dependency. `creator`, `inst` and `tasks` are the store and
the poll tasks; `os` is what the kernel says of each pid: no child of the server
(`"none"`), `"running"` or `"zombie"`.

| action | code |
|---|---|
| `ReceiveRequest`, `BeginExecute`, `NextCall`, `EndExecute` | `ProcCmdHandler::execute`, `_Execute` |
| `BeginStart` (in `NextCall`, `MonitorDead`), `ResolveNext`, `Fork`, `ForkFails` | `StartProcess`, `ResolveDependency`, `ForkNewProcess`, `AddInstance` |
| `StopNext`, `Kill`, `StopJudgedDone` | `StopProcess`, `StopProcessByPid`, `RemoveInstance`, `RemoveInstanceByPid` |
| `PingNext` | `PingProcess` |
| `PollCheck`, `PollBegin`, `PollTask`, `PollEnd` | `BasePollManager::_poll` |
| `MonitorRunning`, `MonitorDead` | `MonitorProcess` |
| `ChildExit` | the operating system |

Sleeps are gaps between steps. The check of the instance count is made twice in
`StartProcess`, before and after the start delay; the lock is held between, so it
is one step. Maps are iterated in the order of pids in the code, in any order
here. A child that survives `SIGKILL` for a second is not modelled. Three
constants are the outcomes of undefined behaviour: `StatusWhenUnset` (a
`status` that `waitpid` has not written, `proc_manager.cpp:185,210`),
`ErrorWhenUnset` (`RequestData::Error`, `request_data.cpp:7`) and
`FreedInfoMatches` (a `ProcessInfo` used after `_RemoveMonitorInfo` has deleted
it, `proc_manager.cpp:763`).

**`ConfigStore`** loads one of a set of files, group node by group node (`ParseGroup`),
and hands out copies. A group is private to the parser until it is added, so what is
inside a group node (`NewGroup`, `GroupParsed`) is evaluated in that one action.
`ParseProcess` makes a definition of a process node: of its flags the last given counts,
names the parser does not know are skipped, the path, resolved unless the process is a
system command, becomes the first argument. Name, delay and limit are an opaque rest.
`Copy` is what the copy constructors do: they add the environment to the arguments, so
all definitions but the parser's own have none, and `execve` gets none. `born` tells a
group object from another one with the same id. `held` are the copies processes were
started with, each with the group object behind its `GroupId`, and whether a command
asked for it (`asked`) or it was started as a dependency. `StartById` and `StartAll`
take what they start from the store and leave the disabled out; `Start` adds
dependencies (`ResolveDependency`), which are taken from the group object, disabled or
not, and whose own dependencies are not resolved; `Replace` is `MonitorProcess`, which
follows the pointer of any copy, also in the middle of a load, and does resolve those of
a dependency that died. How many run already is `ProcessManager`'s affair: any set of
dependencies may be started. Two details of the code that the properties turn on:
`_clear` is never set by any caller, and the `Enable` of a group is never looked at. A
group without an id is added too, under the empty id, and without processes.

**`Session`** has the clients, the connections between them and the server, the
backlog of the listening socket and the step each handler thread has reached. A
message is one PDU; TCP keeps the order on a connection. The first message the
server sends after the client has closed is lost and makes the client's kernel
answer with a reset; a later one may meet that reset, and `SIGPIPE` (no handler,
no `MSG_NOSIGNAL`) ends the server (`SigPipe`). When `accept` fails (`AcceptFails`)
nobody accepts any more, and since `exit` does not return, the socket stays open. The
outputs of a command are taken to fit a PDU.

**`Channel`** is a queue of messages of which only the last may be incomplete.
**`ByteStream`** is one direction of a connection under it: `BaseSocket::Send` in as
many pieces as the kernel takes (`SendSome`), `BaseSocket::Receive` with its first
`recv` of two bytes and its loop. Two of `Receive`'s weaknesses are in the model: a
header of which one byte has come is given up (`"shortHeader"`), and a `recv` that
returns 0 inside a body makes the loop endless (`Spin`).

**`PduCodec`** is `makePDU` and `FillPDU`, parameter by parameter, with the bytes of
both and the widths of the counts (`signed char`, `short`). The test for room comes
after the copy (`beyond`, `fault`). **`Variant`** has the operators of `SysVar` on
every pair of types, with the conversion through `double` they begin with and the
type each result gets.

**`ServerLife`** has the servers that are started one after the other, the thread of
each one's poll manager, and forked children, from `fork` to `execve` or to the
`exit` of a child whose `execve` failed. `holders` are the processes in which the
listening socket is open; `caught` remembers that the destructor ran while the
thread was inside `_poll`, since a monitor function may then start the polling
again (`Restart`).

**`GroupStore`** has every operation that changes the configuration in memory,
those no command reaches yet included, with the objects they make and delete.
`told` is what a caller believes to be stored who believes the answers.
**`ProcessVariables`** has the two arrays as slots of memory, `Args` before `Envs`
as in the object, and what goes wrong in an operation: a place outside, one never
written, a string lost. What was configured, `args` and `envs`, is recorded apart from
the arrays and handed on by a copy as it is; the copy itself puts both in `Args`
(`Takes`). `origin` says how an object came to its strings, since only where they are
found depends on it. An assignment of an object to itself clears what it is about to
add (`AssignToItself`).

**`SharedMemory`** has producers and consumers of one key. `create` looks for a
segment, removes it, makes one and attaches it, a step each; what it has found (`seen`)
is not its own until `shmget` has answered (`Owns`). A copy of the data is two steps,
since there is no semaphore; the kernel keeps a removed segment until the last program
detaches, and counts how often each has it attached (`attached`), for `init` called
again attaches again. `Keeping` are the producers constructed with `__destroy = false`,
whose destructor leaves the segment (`EndProducer`); `Hasty` the consumers constructed
with `__waitInit = false`, whose `init` leaves the loop before it attaches, so that
`update` reads from a pointer nobody has set (`InitHasty`, `UpdateHasty`). Programs are
killed anywhere, and their objects replaced by new ones.

**`XmlParser`** reads a text character by character in the parser's order: what starts
with `<` by its next characters, attributes with their two kinds of quotes, escapes and
line ends, the comments, texts and declarations the default options pass over, and the
errors. An author writes the text in pieces, each with the nodes it means; the parser
may start at any moment. Keywords and escapes are single characters. **`XmlNumbers`** is
`string_to_integer` and `integer_to_string` for a word of `WordBits` bits; the constants
of the overflow test (how many digits, the first of them) are computed from the width.
**`XmlTree`** has the linked lists of nodes and attributes and every operation of
`xml_node` that changes them, with memory that may run out in the middle of a copy;
**`OrderedTree`** is what they should do to a tree whose nodes have sequences of
children. A loop that follows pointers (`ListOf`) or copies a tree (`CopyTree`) is a
recursive function of the number of steps; what is below a node (`Subtree`, `Under`) is
what every set has that is closed under children. **`XmlPages`** is the page allocator
and the strings of nodes, shared, borrowed from the file's buffer or owned.

**`Command`** follows a command line from its words to what the server does with
it. A word stands for all its spellings (the code compares without regard to
case). A request is its function code, its parameters and the integer an update
carries. `MakeCommandPDU`, with an operator per command, is the client's parser;
`ProcessDeed`, `ConfigDeed` and `SettingDeed` are what the handlers of the server
read out of the parameters; `deed` is the result in words: which operation, on
one process, a group, a pid, the configuration or a setting. A settings command
becomes a list of `stores` that are done one at a time, since `_PollInterval`,
`_CurrentMode` and the five flags are atomics of their own, and no lock is held.
The poll thread runs in between: it sleeps for the interval it loads, and a call
of `LogTrace` or `LogError` loads two flags in two steps. `seen` and `calm` of
`poller` record the modes in effect during such a call; no action looks at them.

**`*MC`** modules give constants values; **`*Proofs`** modules hold theorems.
`SessionMC`, `ConfigStoreMC` and `CommandMC` check several modules in one run;
`MasterSlaveMutex` needs no definitions and is run as it is by
`lock_as_the_server_uses_it`, with one primary, and beside `ConfigStore` with two. A
variable `turn`, chosen in the first state, says whose behaviour this is; the
variables of the others never change. So every behaviour of a module is one of the
run, and nothing else; a module's properties hold trivially in the behaviours of the
others, which start in its initial state and stay there. (`Session`'s fairness
would not let its clients rest; in the behaviours of other machines they are all
killed before they start, `NoClients`.)
Definitions called "Mutant of ..." are plausible mistakes in the definition they
precede; they are not part of any specification. Substituted for that definition,
each makes the run of its property fail, which `PROJECT.json` records.

## 4. The runs

| run | what it shows | states |
|---|---|---|
| `lock_as_the_server_uses_it` | one primary: implements `PriorityLock`; `PrimaryServed`, `PollNotLockedOut` | 1.3 thousand |
| `web_db` | monitored `web` depends on monitored `db`: start, stop, stop by pid, restart, with dying children and replacements; the safety properties of a server to which nobody sends ping, and that dead instances are noticed | 141 thousand |
| `shared_process` | a shared entry two groups reach with different limits and monitoring, ping, pids used again, an unset status that reads as running; every command ends | 171 thousand |
| `config_store` | nine files, among them an edited one in which two processes need each other and one is disabled, a broken and an odd one, loaded three times in any order, with starts and replacements between (2 thousand); beside them operations on groups in any order (24 thousand), series of operations on parameters (15 thousand), the tree (4 thousand) and the pages (70 thousand) of a document; and two primaries and two secondaries at the lock: exclusion, and no flag left set without a thread that will clear it (18 thousand) | 133 thousand |
| `session` | three clients, one of another version, killed at any moment, with an `accept` that may fail; a connection in pieces; the coding of some 1500 messages; two servers and two children | 279 thousand |
| `command` | lines of every form after a start with any of five settings files; settings changed while the poll thread sleeps and logs by them (763 thousand); documents of up to four pieces, parsed at every moment, and numbers of up to five characters (542 thousand); beside them the strings of two processes, filled, copied, assigned to each other and to themselves (13 thousand), and two producers of one shared memory, one of which keeps its segment, with a consumer that waits or one that does not, all killed at any step (220 thousand) | 1.5 million |
| `system_command`, `stop_reported`, `stop_by_pid`, `dependency_running`, `config_reload`, `config_disabled` | what the program says of itself and does not do, section 7 | |

The properties are stated, with the code behaviour they are about, in the last
part of each module. Some are conjunctions of named parts, one question seen from
several sides: `HandedOutGood` is "what was handed out stays, and was enabled or is
needed", `CodecHonest` what a sender, a receiver and both together may rely on. The mutants
in `PROJECT.json` break the parts one by one where they are independent.

### Bounds, and why they are enough

- Lock (`config_store`): two of each kind show every race of two owners on one flag; the
  proofs cover all numbers.
- `ProcessManager`: two or three processes, three pids at most. The limits of
  `MaxAllowedInstance` (1 and 2) are reached, entries become empty and are
  created again, and pids are used again. `Requests` are the commands on these
  processes, singly and together. There is no bound on the number of commands.
- `ConfigStore`: `MaxLoads = 3` is enough for a definition, a later one that
  must not shadow it, and a failed load before, between or after.
- `Session`: `MaxOutputs = 2` is the least that can be reordered, and with
  `CMD_EXIT` enough for `SIGPIPE`; `QueueLength = 2` with three clients makes
  one wait for the backlog. Each client is run once.
- `ByteStream`: bodies of one, two and four bytes of base 3, so that a length has two
  digits, in a kernel's buffer of four: headers and bodies are cut everywhere, and
  two messages are in the buffer at once. `PduCodec`: a buffer of 32 bytes of
  base 16, messages of three parameters of any type and of up to nine short ones:
  both the buffer and the count of parameters come to their limits.
- `ServerLife`: two servers and two children show every pair of holders of a port.
- `GroupStore`: two groups and three objects, so that an update deletes one that
  another id could have. `ProcessVariables`: arrays of four, of which two can be used;
  two objects are filled up to the first string that is too many, copied and assigned,
  also to themselves.
- `SharedMemory`: two producers, two consumers, one of each kind, two segments and two
  writes: a segment that is forgotten, kept or lost and one that takes its key. A
  consumer has one segment attached twice at most. The consumer that waits and the one
  that does not are in different behaviours: the latter attaches nothing.
- `Variant`: widths of 3, 4 and 5 bits with operands at the ends of their ranges,
  three operations in a series.
- `XmlParser`: four pieces are an element around two of anything, or an element in an
  element, and one after it. `XmlTree`: four nodes and two attributes, the least with
  an order among three siblings; memory runs out in copies. `XmlPages`: two
  holders, two pages beside the root; texts that fit beside others, fill a page and
  exceed it. `XmlNumbers`: a word of 8 bits; its three-digit maximum begins with a 2,
  so every clause of the overflow test decides. The theorem is for every width that
  `LeadAssumption` allows.
- `Command`: for each command, lines of every length up to one word too many, with
  options that are right, wrong and out of place; intervals at both bounds and one
  beyond; every log mode; a settings file with and without the root element.
  Group and process names are one word each: the code passes them on. Any number
  of lines follow each other.

Deadlock is checked wherever the system should never stop: the lock, the supervisor and
`Command`. In the runs of several machines those that may stop have a step that changes
nothing, so that deadlock is checked for the others. `ConfigStore` ends when the loads
are used up or `main` exits, `Session` when all clients are done; the modules checked
beside them end at their bounds.

### Fairness

Threads go on: the handler thread once it has a request, the poll thread, which
loops for ever (`base_poll_manager.cpp:69`), the server's loop, and a `pmc` that
has been started. Nothing else is fair: no client has to come, no child has to
end, nobody has to be killed. `std::mutex` is not assumed to be fair: the lock's
steps have weak fairness only, so a thread is promised the mutex when it stays
free, and `PrimaryServed` holds because the waiting flag keeps the poll thread
out. In `ProcessManager` the poll thread's check has weak fairness while the lock
is free. `Session` assumes that a client is not merely suspended: one that is
does block all others, for the server has no timeout. `ByteStream` lets a program that
is inside `Send` or `Receive` go on, and the kernel carry bytes (`StreamFairness`);
nobody has to begin a message.

## 5. What is proved

Each theorem is for every value of the constants that its module's `ASSUME`s allow.

| module | theorem | property |
|---|---|---|
| `MasterSlaveMutexProofs` | `TypeCorrect`, `Exclusion`, `FlagsSettle` | `MutexTypeOK`, `MutualExclusion`, `FlagsJustified`, any number of threads |
| | `PriorityLockImplemented` | `ImplementsPriorityLock`, one primary, any number of secondaries |
| | `WaitingSeen` | `WaitingVisible`: what the refinement rests on, checked by no run of its own |
| `ProcessManagerProofs` | `TypeCorrect`, `IterationKept`, `RunningKept` | `TypeOK`, `IterationSafe`, `MonitorKeepsRunning`, every configuration |
| | `LimitKept` | `InstanceLimit`, under `NoSelfDependency` |
| | `TrackedByOne`, `OwnChildrenOnly` | `TrackedOnce`, `SignalsOwnChildren`, without ping |
| | `NoneLost` | `NoChildLost`, when an unset status says that a child runs |
| | `TasksFollowEntries` | `TaskPerEntry`, when a deleted `ProcessInfo` still compares equal |
| `ConfigStoreProofs` | `TypeCorrect`, `HandedOutStaysGood`, `StoreFollowsLoads` | `TypeOK`, `HandedOutGood`, `StoreAsLoaded`, every set of files, any number of loads |
| | `StoreStaysTruthful` | `StoreTruthful` of `GroupStore`, any number of groups and operations |
| `SessionProofs` | `TypeCorrect`, `ServedOneAtATime`, `ServerKilledByKilledOnly`, `OutputIsWhole` | `TypeOK`, `OneAtATime`, `ServerSurvives`, `WholeOutput`, any number of clients, outputs and places in the backlog |
| | `EndedServersLetGo` | `EndedServerLetsGo` of `ServerLife`, any number of servers and children |
| | `StreamIsChannel` | `ImplementsChannel`: the byte stream implements `Channel`, every set of messages, every base of the header, every way the stream is cut into reads |
| | `StreamEndsForCause` | `EndsForCause` of `ByteStream`, which the run checks inside `Delivered` |
| `CommandProofs` | `TypeCorrect`, `IntervalKept`, `LinesMeant`, `SettingsReach` | `TypeOK`, `IntervalInRange`, `DoneAsMeant`, `SettingsInEffect`, every set of lines and of settings files |
| `ValuesProofs` | `CodecIsHonest` | `CodecHonest` of `PduCodec`, every set of messages and every size of the buffer |
| | `OperatorsStayExact` | `OperatorsExact` of `Variant`, all widths of the types, every set of operands, any number of operations |
| | `NumbersStayExact` | `NumbersExact` of `XmlNumbers`, a word of any width, numerals of any length |
| `MemoryProofs` | `SegmentsStayReliable` | `SegmentsReliable` of `SharedMemory`, any number of producers, consumers, segments and writes |
| | `StringsStay` | `StringsKept` of `ProcessVariables`, any number of objects, any size of the arrays |
| | `MemoryStaysRight` | `MemoryRight` of `XmlPages`, any number of nodes, attributes and pages, every size of a page and of a string |
| `XmlTreeProofs` | `DocumentStaysKept` | `DocumentKept`: the linked lists of `XmlTree` are closed, have all that exists and implement `OrderedTree`, any number of nodes and attributes |

Assumptions. The constants' `ASSUME`s are those of the modules; TLC evaluates each in
a run. Beyond them, `SinglePrimary`: there is at most one primary; two of them hide
each other's waiting flag. `NoSelfDependency`: no process depends on a process with
its own entry; without it the inner start is counted after the outer has been let
through, and the limit is exceeded by one. `NoPing`: no request is a ping; a ping
reaps a dead child and leaves its pid in the store, where it may come to denote
another process. `NoneLost` assumes `TRUE \notin StatusWhenUnset` (the build in which
stop never takes a running child for an ended one) and `TasksFollowEntries` assumes
`FALSE \notin FreedInfoMatches`; section 6 says what the other builds do. The other
theorems have no hypothesis but the constants'. Four of those say what the code takes
for granted: a `SysVar` that is a string ends where its size says, as the
constructors leave it (`SysVar` in `PduCodec`), an operand without a type has no value
(`OperandsAssumption`), a page holds less than the sizes a string's header can say
(`PagesAssumption`; 32 against 512 KB as built for 64 bits), and the greatest number of a
word does not begin with 10 to 13 (`LeadAssumption`): a numeral with as many digits as
the greatest is told by its first digit and the result's highest bit, and with 20 bits,
where the greatest is 1048575, 1999999 would pass for 951423. The words the code has
begin with 65 (16 bits), 42 (32) and 18 (64).

Inductive invariants.

- Lock: `MutexTypeOK /\ OwnerInside /\ FlagsJustified`. Exclusion follows from
  `OwnerInside` (the thread between `_Mtx.lock` and `unlock` is the owner); the
  flags say nothing of it. `FlagsJustified` is inductive with types: a late store
  of false only helps it.
- Refinement of `PriorityLock`: with `holder` the mutex's owner, `waiting` the
  primary before `_Mtx.lock()` and `admitted` the secondaries between their
  first test and theirs, each step is one of the abstract lock's or a stutter;
  `WaitingVisible` is what turns the flag test into the guard of `Admit`.
- Supervisor: `TypeOK` alone is not inductive: what a step does depends on who is
  inside the lock and on which registers are in use together, which `ControlOK`
  states. `InstanceLimit` needs `StartOK`: while a start is on its way, the
  entry it will add to has room, and the entries of dependencies still to come do
  not use that room up. `NoChildLost` is inductive with types. `TaskPerEntry` needs that
  an entry was created with a process of its own (`TaskInv`), and that taking the
  first of tasks without doubles away takes the process away (`RemoveTaskRemoves`).
  `PidInv` relates tracked pids, the loop's remaining victims and what the kernel
  knows.
- Configuration: `LoadedMeansGood` needs `ParsedSoFar` (the parser's two flags
  say what the nodes read so far contain). `StoreIsFirstDefinitions` is inductive
  with types; its proof is about appending one node to the sequence of nodes
  parsed (`SameNodes`, `OneNodeMore`). `HandedOutStays` follows from `GroupsStay`:
  no step changes a group that is there, and from `CopyAgain`: a copy of a copy
  is the same, though a copy of what the parser has built is not. Both ways to a start,
  by command (`AskedFor`) and by replacement (`Replaced`), rest on `Started`: what is
  added to the copies comes from the group of one that asks for it or has it as a
  dependency.
- Session: how far a connection has come is seen from both its ends, by the step of
  the client and by that of the handler, and the messages on the way must fill the
  gap. Per client, `KindInv` says which connection it is (version or request),
  `FreshInv` and `QueueInv` that no connection is in two places, `OnceInv` that a
  request is executed once, `VersionInv` and `FlowInv` what is on the way when both
  ends are at given steps (`Counted`: outputs sent are outputs received and on the
  way, in order), `DoneInv` what a client has that ended well, and `ClosedInv` that
  only a killed client leaves a connection the server may still write to.
- Commands: nobody checks the interval where it is stored, so `IntervalInv`
  follows it from the check in the client to the store: no request and no list
  of stores on its way carries a value out of range. `MeantInv` says that the
  request is the client's of the line and the deed one the line may lead to; that
  the composition of the two ends is what `Promised` says is shown by cases over
  the forms of a line.
- Settings: `Heading` says where a list of stores leads, from any flags to those of
  one mode, which is stored last, and `HeadingStep` that one store brings them
  nearer. The flags are then always among those of the mode and of the mode to come
  (`LogInv`), and a call of the logger has seen both unless the flags are settled
  (`CallInv`). `LOG_WARN` is left out (`Watched`): at the start its flag does not
  agree with the mode, and nothing the poll thread calls logs at it.
- The server's life: `PortInv` says who has the port's socket open in terms of one
  owner and its descendants, so nothing has to be counted.
- Shared memory: who removes a segment (`SegmentsRemoved`) is inductive with types.
  Whose segment it is begins with `shmget`, not before: what `create` found it may only
  remove. That two producers share no segment needs what one that is alone inside
  `create` finds between its calls (`KeyInv`): the key leads to what it saw, then to
  nothing, then to its own. That reads are recent is followed from the writer, whose
  numbers grow (`WriteInv`), to the reader, whose floor nobody can pull away
  (`ReadInv`); "one producer alone" is there the first-order `AtMostOne`.
- Stream: the invariant has to say where in the bytes under way each message ends,
  without a function that concatenates all of them. `Framed` says it by a witness:
  there are cuts, one per message not yet received, between which the bytes are a
  header and the body it announces. A read, however short, only shifts the cuts; a
  message sent appends one. `BodyComing` adds the part of a message already read, and
  `InOrder` that what has arrived is what was sent, up to the message being read.
  With the received and the coming messages as the channel's contents, each step of
  the stream is then a step of `Channel` or a stutter.
- Codec: in the same way, `Laid` gives for each parameter the place in the buffer at
  which it lies. It holds while `makePDU` writes, of a message that was sent without
  complaint, and while `FillPDU` reads, whose place is that of the next parameter.
  A size comes back from its two bytes because `High` and `Low` are its digits
  (`SizeBytes`), a number because its bytes are turned round twice (`BackwardsTwice`).
- Operators: `VariantInv` says that the value is the exact number as long as the
  operands were within reach. That a conversion between types keeps what both can
  hold is a fact about powers of two, and those about powers of two (they are
  positive, they double, they grow) come from counting the subsets of a set with one
  element more: no induction over numbers is needed.
- Numbers: there induction is needed, along the digits of a numeral. The provers cannot
  use the library's induction theorems, whose hypothesis is an operator, so
  `SetInduction` states induction for a set of numbers and is proved from facts about
  finite sets alone, and `Recursion` gives what a recursive function is: when every
  number of steps has a table of values, the function satisfies its equation. With
  them the wrapped result is the size modulo the word (`WrappedIs`), `DecimalOf` writes
  digits that read back as the number (`DecimalIs`), and sizes grow with the number of
  digits (`HexadecimalSizes`, `DecimalSizes`: a number of as many digits as the greatest
  and with the same first one is less than twice it, so it wraps around at most once
  and then loses the highest bit). `NumbersInv` says only that a number set by a
  program is in range and is what the attribute's value was written from.
- Store of groups: `ToldInv` relates every pair of a group and an entry a caller was
  told of to the table, one pair at a time; the sets the property compares follow.
- Strings of a process: `Holding` is what the two arrays hold: given strings, then
  `NULL`, and what was never written in the last places. Which strings follows from
  `origin`: those configured, each kind in its array, or after one copy both in the
  first; a copy of that moves nothing any more. Every copy and assignment leads from
  `Holding` to `Holding` until somebody has been given too many.
- Pages: `HeapOK` is the allocator's side. It has the set of blocks in use as a
  parameter, so that it can be stated between the two or three calls of one
  operation: what a page counts as used, less what it counts as free, is the number of
  bytes of blocks in it; only the last may have none. `AllocateMemory` and
  `DeallocateMemory` keep it with one block more and one less. `LayoutInv` is the
  document's side: which blocks those are (`Layout`, one-to-one), that a string
  whose header says 0 is not in the last page, so that its size is the page's, and
  that two holders of one place in the file's buffer are both marked as sharing
  (`Marked`), without which `strcpy_insitu` would write over a name another reads.
- Tree: `Held` says that pointers hold sequences: `first`, `next` and the cyclic `prev`
  are those of the sequence of each owner, nothing is in two lists or in one twice, and
  what is in none has no pointers. Linking and unlinking keep it, and are an insertion
  and a deletion of the sequence (`LinkIs`, `UnlinkIs`); whoever follows the pointers
  reads the sequence (`ListIs`), so all else is said of sequences. `Tree` adds that
  whatever exists hangs in one list, that of its parent, and that every set which has
  the document and the children of its members has it. This, and not a count of steps,
  says that there are no cycles: moving a node under one that is not below it leaves
  every such set one (`NodeMoved`), and freeing a node with what is below leaves nothing
  behind (`NodesDropped`). With the sequences as children each call is a step of
  `OrderedTree`.
- Copying a tree is a walk through a tree that grows meanwhile. `Walk` has three ghosts:
  `f` leads from a node to its copy, and the walk has come to `V` and left `L`. Earlier
  siblings of the node it is at have been left, what it left has nothing below that it
  did not come to, and `dit` is the copy of the parent of `sit`, also on the way up.
  Each turn enlarges `V` or `L` by one node (`TurnIs`), so the `2 * MaxNodes` turns that
  `CopyTree` takes reach the end; there, when memory sufficed, `f` is a bijection that
  keeps kinds, children in their order and numbers of attributes (`CopyHasShape`). That
  the copy is not copied itself, in a tree copied into itself, is that `V` has nodes
  only that were there before, and the copy's root, below which the walk never goes.

Only model-checked:

- liveness, since the provers have no rule for fairness or `ENABLED`:
  `PrimaryServed`, `PollNotLockedOut`, `CommandServed`, `DeadInstanceNoticed`,
  `ClientServed`, and of `Delivered` that what is sent arrives;
- `DocumentsOnly`: what counts as a document is given by `Pieces`, and the assumption on
  them says which nodes a piece stands for, not by which grammar its characters form
  them. For arbitrary pieces the property is false; to prove it the module would need
  a definition of well-formed texts beside the parser's. TLC checks it for every
  composition of the pieces given.

## 6. Where a property has limits

- `TaskPerEntry` is checked for `FreedInfoMatches = {TRUE}`. In a build in which
  the deleted `ProcessInfo` no longer compares equal, stop by pid leaves the task
  of a process that is gone, and the property is false.
- `SignalsOwnChildren` and `TrackedOnce` are false with ping, see `NoPing`; the run
  `web_db` sends none. Section 7 says what ping leads to.
- `TaskPerEntry` relates tasks to entries, not to instances: an empty entry that keeps
  its task agrees with it.
- `HandedOutEnabled` speaks of what a command looks up. A dependency is started although
  it is disabled, which is the finding `config_disabled`.
- That no lookup or start by a command overlaps a reload is not in `ConfigStore`: it
  rests on `OneAtATime`. Replacements do overlap one, in the model too.
- `NoChildLost` is checked for `StatusWhenUnset = {FALSE}`; the other outcome is
  the finding `stop_reported`.
- `DoneAsMeant` allows a line that rests on an unset `Error` (stop by pid, display
  of all groups) to do nothing, and says of a line the help does not mention only
  that it starts, stops, restarts and pings nothing: four words without `-g` are
  sent as an empty request, words after `-reload` are ignored, and
  `setting -display` shows everything whatever follows. `-p` is accepted for
  `-pid`; `-gid`, which `common/cmd_def.hpp:59` defines, is not accepted for `-g`.
- `LogFollowsMode` lets a message be lost while the mode changes: `InitLogger`
  clears all flags before it sets those of the new mode.
- `IntervalInRange` holds because of the client: the server stores what a client
  sends it.
- `StringsKept` holds for objects that have at most `MAX_ARG_COUNT - 2` strings,
  those of the environment included. The tests in `addArg` and `addEnv` let one more
  than the array has through (`server/proc_def.cpp:86,101`), a copy puts the
  environment behind the arguments, and nobody counts before. Nothing is said of an
  object that is assigned to itself, which loses its strings, or added to after it was
  copied: no caller does either. And it says where the environment is after a copy, not
  that it is where it should be, see section 7.
- `CodecHonest`: `makePDU` looks whether there is room after it has copied
  (`common/PDU.cpp:130`), so a message that does not fit is reported when memory
  behind the buffer has been written; and the number of parameters goes over the
  wire in a `signed char`, so the property speaks of messages that have fewer.
- `Delivered` and `ImplementsChannel` allow `Receive` to give up a header of which
  one byte has come, and to loop for ever when the peer is cut off in the middle of
  a body (`common/socket_manager.cpp:275`).
- `StoreTruthful` is about operations with a caller's own objects; an `update` of a
  group with itself copies what has just been deleted. What it leaves out:
  `AddProcessConfig` answers yes to an empty id and stores nothing; an update of a
  group drops its shared memories and leaves the `GroupId` of copies without a group
  behind it; an update that may add does not ask whether the factory knows the name.
- `OperatorsExact` says where `SysVar`'s operators do what they look like. Elsewhere
  the model has what the code does: `-=` of an `int` is cast to `short`, `*=` of two
  `char`s is an `int`, characters are unsigned in conversions and signed in
  comparisons, and `>`, `<=` and `>=` of strings are all `<`.
- `SegmentsReliable` has a history variable for what the code cannot promise: two
  producers inside `create` at once get the same segment; a producer that is killed,
  calls `create` again or was told not to destroy leaves its segment behind. `write` and
  `update` say nothing of success, reads may be torn, and what a consumer reads that did
  not wait for the segment is anything (`Hasty`): the property does not speak of it.
- `DocumentsOnly` is about well-formed documents and parts of them. The parser
  also accepts text outside the root element, and `CDATA` there.
- `EndedServerLetsGo` has an exception for a server whose poll thread was at work
  when `exit` came. `exit` never returns after a failed load, `socket` or
  `accept`: the destructor of the poll manager joins a thread that does not end.
- Restart goes on after its stop was refused. Nothing says what it should do, and
  `InstanceLimit` bounds what it does.

## 7. Where the program does not do what it says

| run | source | disagreement |
|---|---|---|
| `system_command` | `server/proc_manager.cpp:98` | a process with `IsSystemCommand`, which is the default, is never started: the check before returns -1 for it, and the branch that would run it is not reached |
| `stop_reported` | `server/proc_manager.cpp:210` | a running child may be reported as exited and dropped from the store, because `status` is read when `waitpid` has not written it |
| `stop_by_pid` | `server/command_handlers/proc_cmd_handler.cpp:53` | stop by pid does nothing unless an `Error` nobody has set happens to read as `SUCCESS` |
| `dependency_running` | `server/proc_manager.cpp:48` | a dependency that runs is started again: the count looked at is the dependent's |
| `config_disabled` | `server/proc_manager.cpp:48` | a dependency is started though it is disabled, by a command and by the monitor: `ProcessGroup::get` does not look at `Enable`, as the lookups of commands do |
| `config_reload` | `server/xmlconfig_parser.cpp:89` | a process added to a group that was loaded before is not added by a reload, though the help says it is |

Two more disagreements follow from what is checked and proved, and need no run of their
own. The environment of a process never reaches it: `StringsKept` says that a copy has
all strings in `Args` and no `Envs`, and what the store keeps, a lookup gives and
`execve` gets (`server/proc_manager.cpp:421`) is a copy, though the parser says of each
string "Adding environment variable" (`server/xmlconfig_parser.cpp:522`) and
`server/process_configuration.xml` gives some. The cause is `server/proc_def.cpp:33,51`.
And ping reaps a child that has ended but leaves its pid in the store
(`server/command_handlers/proc_cmd_handler.cpp:152`, where `RemoveInstance` is commented
out): `SignalsOwnChildren` is proved under `NoPing`, and is false without it, since a
stop by that pid signals whoever has it by then.

## 8. Not modelled, and why

- Formatting: displays, help texts, log lines, the levels' prefixes. Output no
  property is about. `SpdLogger` (`common/spd_logger.hpp`) is not compiled in.
- Of pugixml, what the program does not use and what changes no document: encodings
  other than the one in memory, output, iterators and tree walkers, XPath (more than
  half of the library), the compact build. That half is most of what the map leaves
  uncovered. `get_value_bool` and reals are read by one character and by `strtod`.
- What has no caller: sending files (`common/socket_manager.cpp`),
  `ClearMonitorInfoStore`, `GetRunningProcessCount`, `GetPidByProcessName`, the poll
  manager's `clear`.
- The factory of shared memory: it never calls `create`, so the segments it names do
  not exist; and a `PD_SharedMem` dependency changes nothing the supervisor keeps.
- The client's own configuration, the port and the path of the log file: read once,
  when a program starts.
- The closing of descriptors before `execve` (`server/proc_manager.cpp:412`), which
  reads their names in base 32: which descriptors are open is the kernel's.
- The configuration that comes with the program
  (`server/process_configuration.xml:52`) sets flags `isShared` and
  `isKillMany`, which the parser does not know (`common/xmlconfig_def.h:40-43`)
  and skips. `ConfigStore` has such a flag among its inputs.
- What a new server finds of an old one's children: it keeps nothing, and knows none
  of those that are still there. `ServerLife` has restarts, `ProcessManager` none.
