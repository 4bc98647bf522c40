------------------------------- MODULE Command -------------------------------
(***************************************************************************)
(* A command line of pmc from its words to what the server does with it,   *)
(* and the settings one of the commands changes while the poll thread uses *)
(* them: CommandManager of the client, the dispatch and the handlers of    *)
(* the server, ServerConfigurationManager and Logger.                      *)
(*                                                                         *)
(* A word stands for all its spellings: the code compares command, option, *)
(* attribute and log words without regard to case.  One command is served  *)
(* at a time (OneAtATime of module Session); the poll thread runs beside   *)
(* it.  What starting or reloading does is the subject of ProcessManager   *)
(* and ConfigStore: here it is the request they are given.                 *)
(***************************************************************************)
EXTENDS Integers, Sequences

CONSTANTS
  Lines,          \* the command lines users type, sequences of words
  Number,         \* the value of each word that atoi does not read as zero
  SettingFiles,   \* what pms.config may hold
  ErrorWhenUnset  \* whether RequestData::Error reads as SUCCESS when unset

ASSUME LinesType == Lines \subseteq Seq(STRING)
ASSUME NumberType == DOMAIN Number \subseteq STRING /\ \A w \in DOMAIN Number : Number[w] \in Int
ASSUME FilesType == SettingFiles \subseteq [root : BOOLEAN, interval : Int, log : STRING]
ASSUME UnsetType == ErrorWhenUnset \subseteq BOOLEAN /\ ErrorWhenUnset # {}

MinInterval == 500
DefaultInterval == 2000
MaxInterval == 60000

VARIABLES
  line,      \* the command line being executed, <<>> between two of them
  pdu,       \* the request sent for it
  step,      \* where the command is: with the client, with the server, answered
  deed,      \* what the server was led to do
  stores,    \* the handler's stores to settings still to come
  interval,  \* ServerConfigurationManager::_PollInterval
  mode,      \* Logger::_CurrentMode
  flags,     \* those of Logger::_DEBUG, _TRACE, _INFO, _WARN, _ERROR that are set
  nap,       \* the interval the poll thread sleeps or slept last
  poller     \* where the poll thread is, and its call of the logger

commandVars == <<line, pdu, step, deed>>
settingVars == <<interval, mode, flags>>
vars == <<commandVars, stores, settingVars, nap, poller>>

-----------------------------------------------------------------------------
(* Words.                                                                  *)

LOG_INVALID == -1
LOG_DEBUG == 1
LOG_TRACE == 2
LOG_INFO == 3
LOG_WARN == 4
LOG_ERROR == 5
LogModes == LOG_DEBUG..LOG_ERROR

ProcessCommands == {"start", "stop", "restart", "ping"}
Commands == ProcessCommands \union {"config", "setting", "help"}

ParseOptionCode(w) ==
  CASE w \in {"-update", "-u"} -> "UPDATE"
    [] w \in {"-display", "-d"} -> "DISPLAY"
    [] w = "-reset" -> "RESET"
    [] w = "-reload" -> "RELOAD"
    [] w \in {"-group", "-g"} -> "GROUP"
    [] w \in {"-pid", "-p"} -> "BY_PID"
    [] OTHER -> "INVALID"

ParseAttrCode(w) ==
  CASE w = "-log" -> "LOG" [] w = "-poll" -> "POLL" [] OTHER -> "INVALID"

ToLogMode(w) ==
  CASE w = "log_debug" -> LOG_DEBUG [] w = "log_trace" -> LOG_TRACE
    [] w = "log_info" -> LOG_INFO [] w = "log_warn" -> LOG_WARN
    [] w = "log_error" -> LOG_ERROR [] OTHER -> LOG_INVALID

atoi(w) == IF w \in DOMAIN Number THEN Number[w] ELSE 0

-----------------------------------------------------------------------------
(* The client: CommandManager::makeCommandPDU.  A request has a function   *)
(* code, parameters, and the integer an update carries.                    *)

Pdu(fc, params, value) == [fc |-> fc, params |-> params, value |-> value]
Request(fc, params) == Pdu(fc, params, 0)

\* An error code is set: the client prints a message and sends nothing.
Refused == Request("INVALID", <<>>)

\* Four words without -g as the third set no error and no parameters.
ProcessRequest(l) ==
  LET n == Len(l)  cmd == l[1] IN
  CASE n = 1 -> Request(cmd, <<"ALL", "default">>)
    [] n = 2 -> Request(cmd, <<"BY_ID", "default", l[2]>>)
    [] n = 3 /\ ParseOptionCode(l[2]) = "BY_PID" /\ cmd = "stop" -> Request(cmd, <<"BY_PID", l[3]>>)
    [] n = 3 /\ ParseOptionCode(l[2]) = "GROUP" -> Request(cmd, <<"ALL", l[3]>>)
    [] n = 4 /\ ParseOptionCode(l[3]) = "GROUP" -> Request(cmd, <<"BY_ID", l[4], l[2]>>)
    [] n = 4 /\ ParseOptionCode(l[3]) # "GROUP" -> Request(cmd, <<>>)
    [] OTHER -> Refused

DisplayRequest(l) ==
  CASE Len(l) = 2 -> Request(l[1], <<"DISPLAY", "ALL">>)
    [] Len(l) = 3 -> Request(l[1], <<"DISPLAY", "BY_ID", l[3]>>)
    [] OTHER -> Refused

ConfigRequest(l) ==
  CASE Len(l) > 1 /\ ParseOptionCode(l[2]) = "DISPLAY" -> DisplayRequest(l)
    [] Len(l) > 1 /\ ParseOptionCode(l[2]) = "RELOAD" -> Request(l[1], <<"RELOAD">>)
    [] OTHER -> Refused

\* Mutant of UpdateRequest: the upper bound of the interval is forgotten.
UpdateRequestUnbounded(l) ==
  CASE ParseAttrCode(l[3]) = "LOG" /\ ToLogMode(l[4]) # LOG_INVALID
         -> Pdu("setting", <<"UPDATE", "LOG">>, ToLogMode(l[4]))
    [] ParseAttrCode(l[3]) = "POLL" /\ atoi(l[4]) >= MinInterval
         -> Pdu("setting", <<"UPDATE", "POLL">>, atoi(l[4]))
    [] OTHER -> Refused

\* Only here is an interval that a user asks for compared with its bounds.
UpdateRequest(l) ==
  CASE ParseAttrCode(l[3]) = "LOG" /\ ToLogMode(l[4]) # LOG_INVALID
         -> Pdu("setting", <<"UPDATE", "LOG">>, ToLogMode(l[4]))
    [] ParseAttrCode(l[3]) = "POLL" /\ atoi(l[4]) \in MinInterval..MaxInterval
         -> Pdu("setting", <<"UPDATE", "POLL">>, atoi(l[4]))
    [] OTHER -> Refused

ResetRequest(l) ==
  CASE Len(l) = 2 -> Request("setting", <<"RESET", "ALL">>)
    [] Len(l) = 3 /\ ParseAttrCode(l[3]) # "INVALID"
         -> Request("setting", <<"RESET", "BY_ID", ParseAttrCode(l[3])>>)
    [] OTHER -> Refused

SettingRequest(l) ==
  CASE Len(l) > 1 /\ ParseOptionCode(l[2]) = "DISPLAY" -> DisplayRequest(l)
    [] Len(l) = 4 /\ ParseOptionCode(l[2]) = "UPDATE" -> UpdateRequest(l)
    [] Len(l) > 1 /\ ParseOptionCode(l[2]) = "RESET" -> ResetRequest(l)
    [] OTHER -> Refused

HelpRequest(l) ==
  IF Len(l) = 1 \/ (Len(l) = 2 /\ l[2] \in Commands) THEN Request("help", <<>>) ELSE Refused

MakeCommandPDU(l) ==
  CASE l # <<>> /\ l[1] \in ProcessCommands -> ProcessRequest(l)
    [] l # <<>> /\ l[1] = "config" -> ConfigRequest(l)
    [] l # <<>> /\ l[1] = "setting" -> SettingRequest(l)
    [] l # <<>> /\ l[1] = "help" -> HelpRequest(l)
    [] OTHER -> Refused

-----------------------------------------------------------------------------
(* The server: what a request makes a handler do.                          *)

Deed(op, scope, names) == [op |-> op, scope |-> scope, names |-> names]
NothingDone == Deed("none", "none", <<>>)

\* Mutant of ProcessDeed: the group and the identifier change places.
ProcessDeedSwapped(p, success) ==
  LET n == Len(p.params) IN
  CASE n = 2 /\ p.params[1] = "ALL" -> Deed(p.fc, "group", <<p.params[2]>>)
    [] n = 3 -> Deed(p.fc, "one", <<p.params[3], p.params[2]>>)
    [] n > 0 /\ p.fc = "stop" /\ p.params[1] = "BY_PID" /\ success -> Deed("stop", "pid", <<p.params[2]>>)
    [] OTHER -> NothingDone

\* Processes are chosen by the number of parameters.  Stopping by pid looks up
\* nothing, and so looks at an Error that has not been written.
ProcessDeed(p, success) ==
  LET n == Len(p.params) IN
  CASE n = 2 /\ p.params[1] = "ALL" -> Deed(p.fc, "group", <<p.params[2]>>)
    [] n = 3 -> Deed(p.fc, "one", <<p.params[2], p.params[3]>>)
    [] n > 0 /\ p.fc = "stop" /\ p.params[1] = "BY_PID" /\ success -> Deed("stop", "pid", <<p.params[2]>>)
    [] OTHER -> NothingDone

\* Display of all groups does not write Error when it succeeds; what it has
\* collected is sent if Error reads as SUCCESS.
ConfigDeed(p, success) ==
  LET n == Len(p.params) IN
  CASE p.params[1] = "DISPLAY" /\ n = 2 /\ success -> Deed("display", "config", <<>>)
    [] p.params[1] = "DISPLAY" /\ n = 3 -> Deed("display", "config", <<p.params[3]>>)
    [] p.params[1] = "RELOAD" -> Deed("reload", "config", <<>>)
    [] OTHER -> NothingDone

\* The parameters of a display are not looked at.
SettingDeed(p) ==
  CASE p.params[1] = "DISPLAY" -> Deed("display", "setting", <<>>)
    [] p.params[1] = "UPDATE" -> Deed("update", "setting", <<p.params[2]>>)
    [] p.params[1] = "RESET" /\ p.params[2] = "ALL" -> Deed("reset", "setting", <<"LOG", "POLL">>)
    [] p.params[1] = "RESET" /\ p.params[2] = "BY_ID" -> Deed("reset", "setting", <<p.params[3]>>)
    [] OTHER -> NothingDone

Dispatch(p, success) ==
  CASE p.fc \in ProcessCommands -> ProcessDeed(p, success)
    [] p.fc = "config" -> ConfigDeed(p, success)
    [] p.fc = "setting" -> SettingDeed(p)
    [] OTHER -> NothingDone

-----------------------------------------------------------------------------
(* Settings: each is an atomic of its own, stored one after the other.     *)

Store(name, level, value) == [name |-> name, level |-> level, value |-> value]

\* The switch of InitLogger falls through: from a mode to all that follow it.
Falling == <<LOG_TRACE, LOG_DEBUG, LOG_INFO, LOG_WARN, LOG_ERROR>>
Switched(m) == SubSeq(Falling, CHOOSE i \in 1..5 : Falling[i] = m, 5)
FlagsOf(m) == {Switched(m)[i] : i \in DOMAIN Switched(m)}

\* Mutant of InitLogger: the flags that are set are not cleared before.
InitLoggerNoClear(m) ==
  [i \in DOMAIN Switched(m) |-> Store("flag", Switched(m)[i], 1)] \o <<Store("mode", m, 0)>>

\* Mutant of InitLogger: the mode is not stored.
InitLoggerNoMode(m) ==
  [i \in LogModes |-> Store("flag", i, 0)]
    \o [i \in DOMAIN Switched(m) |-> Store("flag", Switched(m)[i], 1)]

InitLogger(m) ==
  [i \in LogModes |-> Store("flag", i, 0)]
    \o [i \in DOMAIN Switched(m) |-> Store("flag", Switched(m)[i], 1)]
    \o <<Store("mode", m, 0)>>

\* The server stores the interval it is given.
SetPollInterval(v) == <<Store("interval", 0, v)>>

ResetOf(attr) ==
  CASE attr = "LOG" -> InitLogger(LOG_WARN) [] attr = "POLL" -> SetPollInterval(DefaultInterval)

StoresOf(p) ==
  LET is(params) == p.fc = "setting" /\ p.params = params IN
  CASE is(<<"UPDATE", "LOG">>) -> InitLogger(p.value)
    [] is(<<"UPDATE", "POLL">>) -> SetPollInterval(p.value)
    [] is(<<"RESET", "ALL">>) -> ResetOf("LOG") \o ResetOf("POLL")
    [] is(<<"RESET", "BY_ID", "LOG">>) -> ResetOf("LOG")
    [] is(<<"RESET", "BY_ID", "POLL">>) -> ResetOf("POLL")
    [] OTHER -> <<>>

\* ServerConfigurationParser::Parse: here 500 itself is not accepted, and an
\* interval that is too long becomes the longest.
FileInterval(f) ==
  CASE f.root /\ f.interval > MaxInterval -> MaxInterval
    [] f.root /\ f.interval \in (MinInterval + 1)..MaxInterval -> f.interval
    [] OTHER -> DefaultInterval

FileLogs(f) == f.root /\ ToLogMode(f.log) # LOG_INVALID

-----------------------------------------------------------------------------
(* The poll thread and its calls of the logger.                            *)

Poller(at, level, debug) == [at |-> at, level |-> level, debug |-> debug, seen |-> {}, calm |-> TRUE]
Asleep == Poller("asleep", LOG_ERROR, FALSE)
Awake == Poller("awake", LOG_ERROR, FALSE)

\* What MonitorProcess and the functions it calls log at.
PollLevels == {LOG_TRACE, LOG_ERROR}

\* The mode InitLogger is about to store, if it is being executed.
ModesToCome == {stores[i].level : i \in {j \in DOMAIN stores : stores[j].name = "mode"}}

Init ==
  \E f \in SettingFiles :
    /\ interval = FileInterval(f)
    /\ mode = IF FileLogs(f) THEN ToLogMode(f.log) ELSE LOG_ERROR
    /\ flags = IF FileLogs(f) THEN FlagsOf(ToLogMode(f.log)) ELSE {LOG_WARN, LOG_ERROR}
    /\ nap = DefaultInterval /\ poller = Asleep
    /\ line = <<>> /\ pdu = Refused /\ step = "idle" /\ deed = NothingDone /\ stores = <<>>

\* pmc: a refused line and a help text never leave the client.
EnterLine(l) ==
  /\ step = "idle"
  /\ line' = l /\ pdu' = MakeCommandPDU(l) /\ deed' = NothingDone
  /\ step' = IF MakeCommandPDU(l).fc \in {"INVALID", "help"} THEN "answered" ELSE "sent"
  /\ UNCHANGED <<stores, settingVars, nap, poller>>

\* RequestHandler::_ExecuteRequest.
Serve ==
  /\ step = "sent"
  /\ \E success \in ErrorWhenUnset : deed' = Dispatch(pdu, success)
  /\ stores' = StoresOf(pdu)
  /\ step' = "serving"
  /\ UNCHANGED <<line, pdu, settingVars, nap, poller>>

\* One store of InitLogger or SetPollInterval.  A call of the logger that the
\* poll thread is in the middle of sees settings change under it.
StoreSetting ==
  /\ step = "serving" /\ stores # <<>>
  /\ LET s == Head(stores) IN
       /\ interval' = IF s.name = "interval" THEN s.value ELSE interval
       /\ mode' = IF s.name = "mode" THEN s.level ELSE mode
       /\ flags' = CASE s.name = "flag" /\ s.value = 1 -> flags \union {s.level}
                     [] s.name = "flag" /\ s.value = 0 -> flags \ {s.level}
                     [] OTHER -> flags
  /\ stores' = Tail(stores)
  /\ poller' = IF poller.at = "logging"
               THEN [poller EXCEPT !.seen = @ \union ModesToCome, !.calm = @ /\ ModesToCome = {}]
               ELSE poller
  /\ UNCHANGED <<commandVars, nap>>

\* The answer shows the settings as they are now.
Answer ==
  /\ step = "serving" /\ stores = <<>>
  /\ step' = "answered"
  /\ UNCHANGED <<line, pdu, deed, stores, settingVars, nap, poller>>

\* Mutant of NextCommand: the last request is kept.
NextCommandKeepsPdu ==
  /\ step = "answered"
  /\ step' = "idle" /\ line' = <<>> /\ deed' = NothingDone
  /\ UNCHANGED <<pdu, stores, settingVars, nap, poller>>

NextCommand ==
  /\ step = "answered"
  /\ step' = "idle" /\ line' = <<>> /\ pdu' = Refused /\ deed' = NothingDone
  /\ UNCHANGED <<stores, settingVars, nap, poller>>

PollWake ==
  /\ poller = Asleep /\ poller' = Awake
  /\ UNCHANGED <<commandVars, stores, settingVars, nap>>

\* sleep_for with the interval loaded now.
PollSleep ==
  /\ poller = Awake /\ poller' = Asleep
  /\ nap' = interval
  /\ UNCHANGED <<commandVars, stores, settingVars>>

\* LogTrace and LogError load two flags one after the other: first _DEBUG ...
LogLoadsDebug(level) ==
  /\ poller = Awake
  /\ poller' = [Poller("logging", level, LOG_DEBUG \in flags)
                  EXCEPT !.seen = {mode} \union ModesToCome, !.calm = ModesToCome = {}]
  /\ UNCHANGED <<commandVars, stores, settingVars, nap>>

\* ... and then their own.  The message is printed if either was set.
Printed == poller.debug \/ poller.level \in flags

LogLoadsOwn ==
  /\ poller.at = "logging" /\ poller' = Awake
  /\ UNCHANGED <<commandVars, stores, settingVars, nap>>

ServerNext == Serve \/ StoreSetting \/ Answer
PollNext == PollWake \/ PollSleep \/ LogLoadsOwn \/ \E level \in PollLevels : LogLoadsDebug(level)

Next == (\E l \in Lines : EnterLine(l)) \/ ServerNext \/ NextCommand \/ PollNext

Spec == Init /\ [][Next]_vars

-----------------------------------------------------------------------------
(* Properties.                                                             *)

\* The words of the lines, and those the client and the server use themselves.
Words ==
  {"ALL", "default", "BY_ID", "BY_PID", "DISPLAY", "RELOAD", "UPDATE", "RESET", "LOG", "POLL"}
    \union UNION {{l[i] : i \in DOMAIN l} : l \in Lines}

Deeds == [op : ProcessCommands \union {"none", "display", "reload", "update", "reset"},
          scope : {"none", "group", "one", "pid", "config", "setting"}, names : Seq(Words)]

\* The type invariant: requests, deeds and settings are of their kinds, and
\* nothing is left of a command when it is over.
TypeOK ==
  /\ line \in Lines \union {<<>>}
  /\ pdu \in [fc : Commands \union {"INVALID"}, params : Seq(Words), value : Int]
  /\ step \in {"idle", "sent", "serving", "answered"}
  /\ deed \in Deeds
  /\ stores \in Seq([name : {"flag", "mode", "interval"}, level : Int, value : Int])
  /\ interval \in Int /\ nap \in Int /\ mode \in LogModes /\ flags \subseteq LogModes
  /\ poller \in [at : {"asleep", "awake", "logging"}, level : LogModes, debug : BOOLEAN,
                 seen : SUBSET LogModes, calm : BOOLEAN]
  /\ step = "idle" => line = <<>> /\ pdu = Refused /\ stores = <<>>

\* What pmc help promises of a line: "Without any parameters", "With process
\* identifier as an argument", and so on.  Of other lines it promises nothing.
Promised(l) ==
  LET n == Len(l)
      group(w) == w \in {"-g", "-group"}
      process == n > 0 /\ l[1] \in ProcessCommands
      is(k, cmd, options) == n = k /\ l[1] = cmd /\ l[2] \in options
  IN
  CASE process /\ n = 1 -> Deed(l[1], "group", <<"default">>)
    [] process /\ n = 2 -> Deed(l[1], "one", <<"default", l[2]>>)
    [] process /\ n = 3 /\ group(l[2]) -> Deed(l[1], "group", <<l[3]>>)
    [] process /\ n = 4 /\ group(l[3]) -> Deed(l[1], "one", <<l[4], l[2]>>)
    [] is(3, "stop", {"-pid", "-p"}) -> Deed("stop", "pid", <<l[3]>>)
    [] is(2, "config", {"-d", "-display"}) -> Deed("display", "config", <<>>)
    [] is(3, "config", {"-d", "-display"}) -> Deed("display", "config", <<l[3]>>)
    [] is(2, "config", {"-reload"}) -> Deed("reload", "config", <<>>)
    [] is(2, "setting", {"-d", "-display"}) -> Deed("display", "setting", <<>>)
    [] is(4, "setting", {"-u", "-update"}) /\ l[3] = "-log" /\ ToLogMode(l[4]) # LOG_INVALID
         -> Deed("update", "setting", <<"LOG">>)
    [] is(4, "setting", {"-u", "-update"}) /\ l[3] = "-poll" /\ atoi(l[4]) \in MinInterval..MaxInterval
         -> Deed("update", "setting", <<"POLL">>)
    [] is(2, "setting", {"-reset"}) -> Deed("reset", "setting", <<"LOG", "POLL">>)
    [] OTHER -> NothingDone

\* The lines whose handlers look at an Error nobody has written.
RestsOnUnsetError(l) ==
  Promised(l) \in {Deed("display", "config", <<>>)} \union {Deed("stop", "pid", <<w>>) : w \in {l[i] : i \in DOMAIN l}}

\* The two ends of the protocol are written apart: the client numbers its
\* parameters, the server counts them.  Between them a line of a promised form
\* does what the help says and nothing else, or, where an unset Error is read,
\* nothing.  Lines of other forms are not all refused (words after -reload are
\* ignored, four words without -g are sent as a request about no process), but
\* they never start, stop, restart or ping anything.
DoneAsMeant ==
  step = "answered" =>
    \/ deed = Promised(line)
    \/ deed = NothingDone /\ RestsOnUnsetError(line) /\ ErrorWhenUnset # {TRUE}
    \/ Promised(line) = NothingDone /\ deed.scope \in {"config", "setting"}

\* When pmc is told that a setting was updated or reset, all stores are done:
\* the mode, the flags and the interval agree with the line that asked.
SettingTakesEffect ==
  step = "answered" /\ deed.op \in {"update", "reset"} =>
    LET of(attr) == \E i \in DOMAIN deed.names : deed.names[i] = attr IN
    /\ of("LOG") => /\ mode = IF deed.op = "reset" THEN LOG_WARN ELSE ToLogMode(line[4])
                    /\ flags = FlagsOf(mode)
    /\ of("POLL") => interval = IF deed.op = "reset" THEN DefaultInterval ELSE atoi(line[4])

\* The poll thread never sleeps less than half a second, when it would starve
\* the machine, nor more than a minute, when dead processes would go unnoticed,
\* though neither SetPollInterval nor the handler looks at the value: the
\* client's check, the file's and the default together do.
IntervalInRange == {interval, nap} \subseteq MinInterval..MaxInterval

\* What the poll thread logs while the handler changes the flags one by one: a
\* message is printed only if some mode in effect during the call prints it, and
\* one that no change overlaps is printed exactly if its mode prints it.  (A
\* message that a change does overlap may be lost, even one that both modes
\* print: InitLogger clears all flags first.)
Prints(m, level) == LOG_DEBUG \in FlagsOf(m) \/ level \in FlagsOf(m)

LogFollowsMode ==
  poller.at = "logging" =>
    /\ Printed => \E m \in poller.seen : Prints(m, poller.level)
    /\ poller.calm /\ ~Printed => \A m \in poller.seen : ~Prints(m, poller.level)

\* A setting reaches both threads: the one that was told to change it, by the time it
\* answers, and the poll thread, with what it logs next (InitLogger, LogTrace, LogError).
SettingsInEffect == SettingTakesEffect /\ LogFollowsMode
=============================================================================
