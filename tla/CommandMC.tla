------------------------------ MODULE CommandMC ------------------------------
(* Command lines of every length and form, right and wrong, for TLC; beside *)
(* that, in behaviours of their own, the parser of the settings file and    *)
(* the numbers in it, the strings a process is started with and the memory  *)
(* it may share, which have no state in common with the commands.           *)
EXTENDS Command, XmlParser, XmlNumbers, ProcessVariables, SharedMemory

MCNumber == [w \in {"499", "500", "60000", "60001"} |->
               CASE w = "499" -> 499 [] w = "500" -> 500 [] w = "60000" -> 60000 [] w = "60001" -> 60001]

ProcessLines ==
  UNION {{<<c>>, <<c, "web">>, <<c, "-g", "app">>, <<c, "web", "-g", "app">>, <<c, "web", "-x", "app">>,
          <<c, "-pid", "web">>, <<c, "-x", "app">>, <<c, "web", "-g", "app", "web">>} : c \in ProcessCommands}

ConfigLines ==
  {<<"config">>, <<"config", "-d">>, <<"config", "-d", "app">>, <<"config", "-d", "app", "web">>,
   <<"config", "-reload">>, <<"config", "-reload", "app">>, <<"config", "-add">>}

SettingLines ==
  {<<"setting">>, <<"setting", "-d">>, <<"setting", "-d", "-log">>, <<"setting", "-reload">>,
   <<"setting", "-reset">>, <<"setting", "-reset", "-log">>, <<"setting", "-reset", "-poll">>,
   <<"setting", "-reset", "web">>, <<"setting", "-u", "-log">>, <<"setting", "-u", "web", "500">>}
  \union {<<"setting", "-u", "-poll", w>> : w \in DOMAIN MCNumber \union {"web"}}
  \union {<<"setting", "-u", "-log", w>> :
            w \in {"log_debug", "log_trace", "log_info", "log_warn", "log_error", "web"}}

OtherLines == {<<>>, <<"version">>, <<"help">>, <<"help", "start">>, <<"help", "web">>}

MCLines == ProcessLines \union ConfigLines \union SettingLines \union OtherLines

File(root, ms, log) == [root |-> root, interval |-> ms, log |-> log]
MCFiles == {File(FALSE, 0, ""), File(TRUE, 500, ""), File(TRUE, 501, "log_error"),
            File(TRUE, 60001, "log_trace"), File(TRUE, -1, "web")}

\* Start tags with and without attributes, one with an instruction behind it, and
\* empty ones in both forms; texts that are kept, changed and passed over, and every
\* other construct with what could end it too early inside.
StartTag(n, rest, attributes, empty) == [name |-> n, rest |-> rest, attributes |-> attributes, empty |-> empty]
MCTags ==
  {StartTag(<<"a">>, <<">", "<", "?", "a", " ", ">", "?", ">">>, <<>>, FALSE),
   StartTag(<<"a", "b">>, <<" ", "a", "=", "\"", "&lt;", "\n", "a", "\"", " ", "b", " ", "=", " ", "'", "\"", "'", ">">>,
            <<<< <<"a">>, <<"<", " ", "a">> >>, << <<"b">>, <<"\"">> >> >>, FALSE),
   StartTag(<<"b">>, <<"/", ">">>, <<>>, TRUE),
   StartTag(<<"b">>, <<" ", "/", ">">>, <<>>, TRUE)}
Piece(t, kind, nodes) == [text |-> t, kind |-> kind, nodes |-> nodes]
MCPieces ==
  {Piece(<<" ", "a", "\r", "\n", "&lt;">>, "text", <<Node(0, "pcdata", <<" ", "a", "\n", "<">>)>>),
   Piece(<<"\n">>, "text", <<>>),
   Piece(<<"<", "!", "-", "-", "<", "a", ">", "-", "-", ">">>, "markup", <<>>),
   Piece(<<"<", "!", "[", "CDATA[", "<", "&lt;", "]", "]", "]", ">">>, "markup", <<Node(0, "cdata", <<"<", "&lt;", "]">>)>>),
   Piece(<<"<", "!", "DOCTYPE", " ", "\"", ">", "\"", "<", "!", "a", "<", "!", "[", "<", "]", "]", ">", ">", ">">>, "doctype", <<>>)}
MCEscapes == [c \in {"&lt;"} |-> "<"]

VARIABLE turn

documentVars == <<xmlVars, numberVars>>
memoryVars == <<variablesVars, shmVars>>

MCInit ==
  /\ turn \in {"command", "xml", "numbers", "strings", "sharing", "hasty"}
  /\ Init /\ XmlInit /\ NumbersInit /\ VariablesInit /\ ShmInit
  /\ turn # "command" => interval = DefaultInterval /\ flags = {LOG_WARN, LOG_ERROR}

DocumentNext ==
  \/ turn = "xml" /\ XmlNext /\ UNCHANGED numberVars
  \/ turn = "numbers" /\ NumbersNext /\ UNCHANGED xmlVars

\* A consumer that waits and one that does not have behaviours of their own: the
\* latter attaches nothing, so it makes no difference to anybody.
Aside(cs) == \A c \in cs : shmStep'[c] = "idle" /\ UNCHANGED <<shmId[c], created[c], value[c]>>

\* Nothing is said of strings of which there are too many.
MemoryNext ==
  \/ turn = "strings" /\ ~crowded /\ VariablesNext /\ UNCHANGED shmVars
  \/ turn = "sharing" /\ ShmNext /\ Aside(Hasty) /\ UNCHANGED variablesVars
  \/ turn = "hasty" /\ ShmNext /\ Aside(Consumers \ Hasty) /\ UNCHANGED variablesVars

\* The commands never come to a stop; the others may.
MCNext ==
  /\ UNCHANGED turn
  /\ \/ turn = "command" /\ Next /\ UNCHANGED <<documentVars, memoryVars>>
     \/ DocumentNext /\ UNCHANGED <<vars, memoryVars>>
     \/ MemoryNext /\ UNCHANGED <<vars, documentVars>>
     \/ turn # "command" /\ UNCHANGED <<vars, documentVars, memoryVars>>

MCSpec == MCInit /\ [][MCNext]_<<turn, vars, documentVars, memoryVars>>
=============================================================================
