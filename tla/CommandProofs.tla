---------------------------- MODULE CommandProofs ----------------------------
(* Theorems about Command, for every set of lines and of settings files.    *)
EXTENDS Command, SequenceTheorems, TLAPS

Bounds == MinInterval..MaxInterval
StoreType == [name : {"flag", "mode", "interval"}, level : Int, value : Int]

-----------------------------------------------------------------------------
(* What the client may send.                                               *)

\* The client sends an update only after it has looked at the value.
LEMMA UpdatesChecked ==
  ASSUME NEW l \in Lines
  PROVE  /\ MakeCommandPDU(l).params = <<"UPDATE", "POLL">> => MakeCommandPDU(l).value \in Bounds
         /\ MakeCommandPDU(l).params = <<"UPDATE", "LOG">> => MakeCommandPDU(l).value \in LogModes
<1> DEFINE Checked(p) == /\ p.params = <<"UPDATE", "POLL">> => p.value \in Bounds
                         /\ p.params = <<"UPDATE", "LOG">> => p.value \in LogModes
<1>1. Checked(Refused)
  BY DEF Refused, Request, Pdu
<1>2. Checked(ProcessRequest(l))
  BY <1>1 DEF ProcessRequest, Request, Pdu
<1>3. Checked(DisplayRequest(l))
  BY <1>1 DEF DisplayRequest, Request, Pdu
<1>4. Checked(ConfigRequest(l))
  BY <1>1, <1>3 DEF ConfigRequest, Request, Pdu
<1>5. ToLogMode(l[4]) \in LogModes \union {LOG_INVALID}
  BY DEF ToLogMode, LogModes, LOG_INVALID, LOG_DEBUG, LOG_TRACE, LOG_INFO, LOG_WARN, LOG_ERROR
<1>6. Checked(UpdateRequest(l))
  BY <1>1, <1>5 DEF UpdateRequest, Pdu, Bounds
<1>7. Checked(ResetRequest(l))
  BY <1>1 DEF ResetRequest, Request, Pdu
<1>8. Checked(SettingRequest(l))
  BY <1>1, <1>3, <1>6, <1>7 DEF SettingRequest
<1>9. Checked(HelpRequest(l))
  BY <1>1 DEF HelpRequest, Request, Pdu
<1>10. Checked(MakeCommandPDU(l))
  BY <1>1, <1>2, <1>4, <1>8, <1>9 DEF MakeCommandPDU
<1> QED
  BY <1>10

-----------------------------------------------------------------------------
(* What the handler stores.                                                *)

\* The flags a mode switches on are modes.
LEMMA SwitchedType ==
  ASSUME NEW m \in LogModes
  PROVE  Switched(m) \in Seq(LogModes)
<1>1. \E i \in 1..5 : Falling[i] = m
  BY DEF Falling, LogModes, LOG_DEBUG, LOG_TRACE, LOG_INFO, LOG_WARN, LOG_ERROR
<1>2. PICK i \in 1..5 : Switched(m) = SubSeq(Falling, i, 5)
  BY <1>1 DEF Switched
<1>3. Falling \in Seq(LogModes) /\ Len(Falling) = 5
  BY DEF Falling, LogModes, LOG_DEBUG, LOG_TRACE, LOG_INFO, LOG_WARN, LOG_ERROR
<1>4. \A j \in i..5 : Falling[j] \in LogModes
  BY <1>3, ElementOfSeq
<1> QED
  BY <1>2, <1>3, <1>4, SubSeqProperties

\* A sequence of stores, none of which gives the interval a value out of range.
Harmless(s) ==
  /\ s \in Seq(StoreType)
  /\ \A i \in 1..Len(s) : s[i].name = "interval" => s[i].value \in Bounds

LEMMA HarmlessConcat ==
  ASSUME NEW s, NEW t, Harmless(s), Harmless(t)
  PROVE  Harmless(s \o t)
<1>1. /\ s \o t \in Seq(StoreType) /\ Len(s \o t) = Len(s) + Len(t)
      /\ \A i \in 1..Len(s) + Len(t) : (s \o t)[i] = IF i <= Len(s) THEN s[i] ELSE t[i - Len(s)]
  BY ConcatProperties DEF Harmless
<1>2. ASSUME NEW i \in 1..Len(s \o t), (s \o t)[i].name = "interval"
      PROVE  (s \o t)[i].value \in Bounds
  <2>1. Len(s) \in Nat /\ Len(t) \in Nat
    BY LenProperties DEF Harmless
  <2>2. CASE i <= Len(s)
    BY <1>1, <1>2, <2>1, <2>2 DEF Harmless
  <2>3. CASE ~(i <= Len(s))
    <3>1. i - Len(s) \in 1..Len(t)
      BY <1>1, <2>1, <2>3
    <3> QED
      BY <1>1, <1>2, <2>1, <2>3, <3>1 DEF Harmless
  <2> QED
    BY <2>2, <2>3
<1> QED
  BY <1>1, <1>2 DEF Harmless

\* InitLogger does not touch the interval.
LEMMA InitLoggerHarmless ==
  ASSUME NEW m \in LogModes
  PROVE  Harmless(InitLogger(m))
<1> DEFINE clears == [i \in LogModes |-> Store("flag", i, 0)]
           sets == [i \in DOMAIN Switched(m) |-> Store("flag", Switched(m)[i], 1)]
<1>1. Harmless(clears)
  <2>1. LogModes = 1..5
    BY DEF LogModes, LOG_DEBUG, LOG_ERROR
  <2>2. clears \in [1..5 -> StoreType]
    BY <2>1 DEF Store, StoreType
  <2>3. clears \in Seq(StoreType) /\ Len(clears) = 5
    BY <2>2
  <2> QED
    BY <2>1, <2>3 DEF Harmless, Store
<1>2. Harmless(sets)
  <2>1. /\ DOMAIN Switched(m) = 1..Len(Switched(m)) /\ Len(Switched(m)) \in Nat
        /\ \A i \in 1..Len(Switched(m)) : Switched(m)[i] \in LogModes
    BY SwitchedType, LenProperties, ElementOfSeq
  <2>2. sets \in [1..Len(Switched(m)) -> StoreType]
    BY <2>1 DEF Store, StoreType, LogModes, LOG_DEBUG, LOG_ERROR
  <2>3. sets \in Seq(StoreType) /\ Len(sets) = Len(Switched(m))
    BY <2>1, <2>2
  <2> QED
    BY <2>1, <2>3 DEF Harmless, Store
<1>3. Harmless(<<Store("mode", m, 0)>>)
  BY DEF Harmless, Store, StoreType, LogModes, LOG_DEBUG, LOG_ERROR
<1>4. Harmless(clears \o sets)
  BY <1>1, <1>2, HarmlessConcat
<1>5. Harmless((clears \o sets) \o <<Store("mode", m, 0)>>)
  BY <1>3, <1>4, HarmlessConcat
<1> QED
  BY <1>5 DEF InitLogger

\* Nor does any request the client sends give it a value out of range.
LEMMA RequestHarmless ==
  ASSUME NEW l \in Lines
  PROVE  Harmless(StoresOf(MakeCommandPDU(l)))
<1> DEFINE p == MakeCommandPDU(l)
<1>1. Harmless(<<>>)
  BY DEF Harmless
<1>2. ASSUME NEW v \in Bounds PROVE Harmless(SetPollInterval(v))
  <2>1. v \in Int
    BY <1>2 DEF Bounds, MinInterval, MaxInterval
  <2>2. SetPollInterval(v) \in Seq(StoreType) /\ Len(SetPollInterval(v)) = 1
    BY <2>1 DEF SetPollInterval, Store, StoreType
  <2>3. SetPollInterval(v)[1].value = v
    BY DEF SetPollInterval, Store
  <2> QED
    BY <1>2, <2>2, <2>3 DEF Harmless
<1>3. Harmless(ResetOf("LOG"))
  BY InitLoggerHarmless DEF ResetOf, LogModes, LOG_DEBUG, LOG_WARN, LOG_ERROR
<1>4. Harmless(ResetOf("POLL"))
  <2>1. DefaultInterval \in Bounds
    BY DEF Bounds, MinInterval, DefaultInterval, MaxInterval
  <2>2. ResetOf("POLL") = SetPollInterval(DefaultInterval)
    BY DEF ResetOf
  <2> QED
    BY <1>2, <2>1, <2>2
<1>5. Harmless(ResetOf("LOG") \o ResetOf("POLL"))
  BY <1>3, <1>4, HarmlessConcat
<1>6. p.params = <<"UPDATE", "LOG">> => Harmless(InitLogger(p.value))
  BY UpdatesChecked, InitLoggerHarmless
<1>7. p.params = <<"UPDATE", "POLL">> => Harmless(SetPollInterval(p.value))
  BY UpdatesChecked, <1>2
<1> QED
  BY <1>1, <1>3, <1>4, <1>5, <1>6, <1>7 DEF StoresOf

-----------------------------------------------------------------------------
(* The poll interval.                                                      *)

\* The invariant: no value out of range is on its way to the interval.
IntervalInv ==
  /\ interval \in Bounds /\ nap \in Bounds
  /\ Harmless(stores)
  /\ step = "sent" => \E l \in Lines : pdu = MakeCommandPDU(l)

LEMMA IntervalInit == Init => IntervalInv
<1> SUFFICES ASSUME Init PROVE IntervalInv
  OBVIOUS
<1>1. PICK f \in SettingFiles : interval = FileInterval(f)
  BY DEF Init
<1>2. DefaultInterval \in Bounds /\ MaxInterval \in Bounds
  BY DEF Bounds, MinInterval, DefaultInterval, MaxInterval
<1>3. \A v \in (MinInterval + 1)..MaxInterval : v \in Bounds
  <2>1. MinInterval \in Int /\ MaxInterval \in Int
    BY DEF MinInterval, MaxInterval
  <2>2. ASSUME NEW v \in (MinInterval + 1)..MaxInterval PROVE v \in MinInterval..MaxInterval
    BY <2>1, <2>2
  <2> QED BY <2>2 DEF Bounds
<1>4. FileInterval(f) \in Bounds
  BY <1>2, <1>3 DEF FileInterval
<1>5. nap \in Bounds /\ stores = <<>> /\ step = "idle"
  BY <1>2 DEF Init
<1>6. Harmless(<<>>)
  BY DEF Harmless
<1> QED
  BY <1>1, <1>4, <1>5, <1>6 DEF IntervalInv

LEMMA IntervalStep == IntervalInv /\ [Next]_vars => IntervalInv'
<1> SUFFICES ASSUME IntervalInv, [Next]_vars PROVE IntervalInv'
  OBVIOUS
<1> USE DEF IntervalInv
<1>1. ASSUME NEW l \in Lines, EnterLine(l) PROVE IntervalInv'
  BY <1>1 DEF EnterLine, settingVars, Harmless
<1>2. CASE Serve
  <2>1. Harmless(StoresOf(pdu))
    BY <1>2, RequestHarmless DEF Serve
  <2> QED
    BY <1>2, <2>1 DEF Serve, settingVars, Harmless
<1>3. CASE StoreSetting
  <2>1. /\ stores # <<>> /\ stores \in Seq(StoreType) /\ stores' = Tail(stores)
        /\ Len(stores) \in Nat
    BY <1>3, LenProperties DEF StoreSetting, Harmless
  <2>2. Head(stores).name = "interval" => Head(stores).value \in Bounds
    BY <2>1, HeadTailProperties, EmptySeq DEF Harmless
  <2>3. interval' \in Bounds
    BY <1>3, <2>2 DEF StoreSetting
  <2>4. /\ Tail(stores) \in Seq(StoreType) /\ Len(Tail(stores)) = Len(stores) - 1
        /\ \A i \in 1..Len(Tail(stores)) : Tail(stores)[i] = stores[i + 1]
    BY <2>1, HeadTailProperties
  <2>5. Harmless(Tail(stores))
    BY <2>1, <2>4 DEF Harmless
  <2> QED
    BY <1>3, <2>1, <2>3, <2>5 DEF StoreSetting, commandVars, Harmless
<1>4. CASE Answer
  BY <1>4 DEF Answer, settingVars, Harmless
<1>5. CASE NextCommand
  BY <1>5 DEF NextCommand, settingVars, Harmless
<1>6. CASE PollNext
  BY <1>6 DEF PollNext, PollWake, PollSleep, LogLoadsDebug, LogLoadsOwn, commandVars, settingVars, Harmless
<1>7. CASE UNCHANGED vars
  BY <1>7 DEF vars, commandVars, settingVars, Harmless
<1> QED
  BY <1>1, <1>2, <1>3, <1>4, <1>5, <1>6, <1>7 DEF Next, ServerNext

\* The poll thread sleeps between half a second and a minute, whatever is typed
\* and whatever pms.config holds: SetPollInterval does not look at its value.
THEOREM IntervalKept == Spec => []IntervalInRange
<1>1. IntervalInv => IntervalInRange
  BY DEF IntervalInv, IntervalInRange, Bounds
<1> QED
  BY <1>1, IntervalInit, IntervalStep, PTL DEF Spec

-----------------------------------------------------------------------------
(* The two ends of the protocol agree.                                     *)

\* What DoneAsMeant asks of the deed d for the line l.
Meant(l, d) ==
  \/ d = Promised(l)
  \/ d = NothingDone /\ RestsOnUnsetError(l) /\ ErrorWhenUnset # {TRUE}
  \/ Promised(l) = NothingDone /\ d.scope \in {"config", "setting"}

LEMMA OptionWords ==
  ASSUME NEW w
  PROVE  /\ ParseOptionCode(w) = "GROUP" <=> w \in {"-group", "-g"}
         /\ ParseOptionCode(w) = "BY_PID" <=> w \in {"-pid", "-p"}
         /\ ParseOptionCode(w) = "DISPLAY" <=> w \in {"-display", "-d"}
         /\ ParseOptionCode(w) = "RELOAD" <=> w = "-reload"
         /\ ParseOptionCode(w) = "UPDATE" <=> w \in {"-update", "-u"}
         /\ ParseOptionCode(w) = "RESET" <=> w = "-reset"
  BY DEF ParseOptionCode

LEMMA LineLengths ==
  ASSUME NEW l \in Lines
  PROVE  Len(l) \in Nat /\ (l # <<>> => Len(l) >= 1)
  BY LinesType, LenProperties, EmptySeq

\* Start, stop, restart and ping.
LEMMA ProcessMeant ==
  ASSUME NEW l \in Lines, l # <<>>, l[1] \in ProcessCommands, NEW success \in ErrorWhenUnset
  PROVE  Meant(l, Dispatch(ProcessRequest(l), success))
<1> DEFINE r == ProcessRequest(l)
<1> USE DEF ProcessCommands
<1>1. CASE Len(l) = 1
  <2>1. r = Request(l[1], <<"ALL", "default">>)
    BY <1>1 DEF ProcessRequest
  <2>2. Dispatch(r, success) = Deed(l[1], "group", <<"default">>)
    BY <2>1 DEF Dispatch, ProcessDeed, Request, Pdu
  <2>3. Promised(l) = Deed(l[1], "group", <<"default">>)
    BY <1>1 DEF Promised
  <2> QED
    BY <2>2, <2>3 DEF Meant
<1>2. CASE Len(l) = 2
  <2>1. r = Request(l[1], <<"BY_ID", "default", l[2]>>)
    BY <1>2 DEF ProcessRequest
  <2>2. Dispatch(r, success) = Deed(l[1], "one", <<"default", l[2]>>)
    BY <2>1 DEF Dispatch, ProcessDeed, Request, Pdu
  <2>3. Promised(l) = Deed(l[1], "one", <<"default", l[2]>>)
    BY <1>2 DEF Promised
  <2> QED
    BY <2>2, <2>3 DEF Meant
<1>3. CASE Len(l) = 3 /\ ParseOptionCode(l[2]) = "GROUP"
  <2>1. r = Request(l[1], <<"ALL", l[3]>>)
    BY <1>3 DEF ProcessRequest
  <2>2. Dispatch(r, success) = Deed(l[1], "group", <<l[3]>>)
    BY <2>1 DEF Dispatch, ProcessDeed, Request, Pdu
  <2>3. Promised(l) = Deed(l[1], "group", <<l[3]>>)
    BY <1>3, OptionWords DEF Promised
  <2> QED
    BY <2>2, <2>3 DEF Meant
<1>4. CASE Len(l) = 3 /\ ParseOptionCode(l[2]) = "BY_PID" /\ l[1] = "stop"
  <2>1. r = Request("stop", <<"BY_PID", l[3]>>)
    BY <1>4 DEF ProcessRequest
  <2>2. Dispatch(r, success) = IF success THEN Deed("stop", "pid", <<l[3]>>) ELSE NothingDone
    BY <2>1 DEF Dispatch, ProcessDeed, Request, Pdu
  <2>3. Promised(l) = Deed("stop", "pid", <<l[3]>>)
    BY <1>4, OptionWords DEF Promised
  <2>4. RestsOnUnsetError(l)
    <3>1. 3 \in DOMAIN l
      BY <1>4, LinesType
    <3> QED
      BY <2>3, <3>1 DEF RestsOnUnsetError
  <2>5. ~success => ErrorWhenUnset # {TRUE}
    BY UnsetType
  <2> QED
    BY <2>2, <2>3, <2>4, <2>5 DEF Meant
<1>5. CASE Len(l) = 4 /\ ParseOptionCode(l[3]) = "GROUP"
  <2>1. r = Request(l[1], <<"BY_ID", l[4], l[2]>>)
    BY <1>5 DEF ProcessRequest
  <2>2. Dispatch(r, success) = Deed(l[1], "one", <<l[4], l[2]>>)
    BY <2>1 DEF Dispatch, ProcessDeed, Request, Pdu
  <2>3. Promised(l) = Deed(l[1], "one", <<l[4], l[2]>>)
    BY <1>5, OptionWords DEF Promised
  <2> QED
    BY <2>2, <2>3 DEF Meant
<1>6. CASE Len(l) = 4 /\ ParseOptionCode(l[3]) # "GROUP"
  <2>1. r = Request(l[1], <<>>)
    BY <1>6 DEF ProcessRequest
  <2>2. Dispatch(r, success) = NothingDone
    BY <2>1 DEF Dispatch, ProcessDeed, Request, Pdu
  <2>3. Promised(l) = NothingDone
    BY <1>6, OptionWords DEF Promised
  <2> QED
    BY <2>2, <2>3 DEF Meant
<1>7. CASE /\ Len(l) \notin {1, 2, 4}
           /\ ~(Len(l) = 3 /\ ParseOptionCode(l[2]) = "GROUP")
           /\ ~(Len(l) = 3 /\ ParseOptionCode(l[2]) = "BY_PID" /\ l[1] = "stop")
  <2>1. r = Refused
    BY <1>7 DEF ProcessRequest
  <2>2. Dispatch(r, success) = NothingDone
    BY <2>1 DEF Dispatch, Refused, Request, Pdu
  <2>3. Promised(l) = NothingDone
    BY <1>7, OptionWords DEF Promised
  <2> QED
    BY <2>2, <2>3 DEF Meant
<1> QED
  BY <1>1, <1>2, <1>3, <1>4, <1>5, <1>6, <1>7

LEMMA ConfigMeant ==
  ASSUME NEW l \in Lines, l # <<>>, l[1] = "config", NEW success \in ErrorWhenUnset
  PROVE  Meant(l, Dispatch(ConfigRequest(l), success))
<1> DEFINE r == ConfigRequest(l)
           option == ParseOptionCode(l[2])
<1> USE DEF ProcessCommands
<1>1. Len(l) \in Nat /\ Len(l) >= 1
  BY LineLengths
<1>2. CASE Len(l) = 2 /\ option = "DISPLAY"
  <2>1. r = Request("config", <<"DISPLAY", "ALL">>)
    BY <1>2 DEF ConfigRequest, DisplayRequest
  <2>2. Dispatch(r, success) = IF success THEN Deed("display", "config", <<>>) ELSE NothingDone
    BY <2>1 DEF Dispatch, ConfigDeed, Request, Pdu
  <2>3. Promised(l) = Deed("display", "config", <<>>)
    BY <1>2, OptionWords DEF Promised
  <2>4. ~success => ErrorWhenUnset # {TRUE}
    BY UnsetType
  <2> QED
    BY <2>2, <2>3, <2>4 DEF Meant, RestsOnUnsetError
<1>3. CASE Len(l) = 3 /\ option = "DISPLAY"
  <2>1. r = Request("config", <<"DISPLAY", "BY_ID", l[3]>>)
    BY <1>3 DEF ConfigRequest, DisplayRequest
  <2>2. Dispatch(r, success) = Deed("display", "config", <<l[3]>>)
    BY <2>1 DEF Dispatch, ConfigDeed, Request, Pdu
  <2>3. Promised(l) = Deed("display", "config", <<l[3]>>)
    BY <1>3, OptionWords DEF Promised
  <2> QED
    BY <2>2, <2>3 DEF Meant
<1>4. CASE Len(l) > 1 /\ option = "RELOAD"
  <2>1. r = Request("config", <<"RELOAD">>)
    BY <1>4 DEF ConfigRequest
  <2>2. Dispatch(r, success) = Deed("reload", "config", <<>>)
    BY <2>1 DEF Dispatch, ConfigDeed, Request, Pdu
  <2>3. Promised(l) = IF Len(l) = 2 THEN Deed("reload", "config", <<>>) ELSE NothingDone
    BY <1>4, OptionWords DEF Promised
  <2> QED
    BY <2>2, <2>3 DEF Meant, Deed
<1>5. CASE ~(Len(l) \in {2, 3} /\ option = "DISPLAY") /\ ~(Len(l) > 1 /\ option = "RELOAD")
  <2>1. r = Refused
    BY <1>1, <1>5 DEF ConfigRequest, DisplayRequest
  <2>2. Dispatch(r, success) = NothingDone
    BY <2>1 DEF Dispatch, Refused, Request, Pdu
  <2>3. Promised(l) = NothingDone
    BY <1>1, <1>5, OptionWords DEF Promised
  <2> QED
    BY <2>2, <2>3 DEF Meant
<1> QED
  BY <1>1, <1>2, <1>3, <1>4, <1>5

\* Every deed of SettingDeed has the scope "setting", or is none.
LEMMA SettingMeant ==
  ASSUME NEW l \in Lines, l # <<>>, l[1] = "setting", NEW success \in ErrorWhenUnset
  PROVE  Meant(l, Dispatch(SettingRequest(l), success))
<1> DEFINE r == SettingRequest(l)
           option == ParseOptionCode(l[2])
<1> USE DEF ProcessCommands
<1>1. Len(l) \in Nat /\ Len(l) >= 1
  BY LineLengths
<1>2. CASE Len(l) \in {2, 3} /\ option = "DISPLAY"
  <2>1. r \in {Request("setting", <<"DISPLAY", "ALL">>), Request("setting", <<"DISPLAY", "BY_ID", l[3]>>)}
    BY <1>2 DEF SettingRequest, DisplayRequest
  <2>2. Dispatch(r, success) = Deed("display", "setting", <<>>)
    BY <2>1 DEF Dispatch, SettingDeed, Request, Pdu
  <2>3. Promised(l) = IF Len(l) = 2 THEN Deed("display", "setting", <<>>) ELSE NothingDone
    BY <1>2, OptionWords DEF Promised
  <2> QED
    BY <2>2, <2>3 DEF Meant, Deed
<1>3. CASE Len(l) = 4 /\ option = "UPDATE"
  <2> DEFINE log == ParseAttrCode(l[3]) = "LOG" /\ ToLogMode(l[4]) # LOG_INVALID
             poll == ParseAttrCode(l[3]) = "POLL" /\ atoi(l[4]) \in MinInterval..MaxInterval
  <2>1. (log <=> l[3] = "-log" /\ ToLogMode(l[4]) # LOG_INVALID)
        /\ (poll <=> l[3] = "-poll" /\ atoi(l[4]) \in MinInterval..MaxInterval)
    BY DEF ParseAttrCode
  <2>2. r = UpdateRequest(l)
    BY <1>3 DEF SettingRequest
  <2>3. CASE log
    <3>1. Dispatch(r, success) = Deed("update", "setting", <<"LOG">>)
      BY <2>2, <2>3 DEF UpdateRequest, Dispatch, SettingDeed, Pdu
    <3>2. Promised(l) = Deed("update", "setting", <<"LOG">>)
      BY <1>3, <2>1, <2>3, OptionWords DEF Promised
    <3> QED
      BY <3>1, <3>2 DEF Meant
  <2>4. CASE poll /\ ~log
    <3>1. Dispatch(r, success) = Deed("update", "setting", <<"POLL">>)
      BY <2>2, <2>4 DEF UpdateRequest, Dispatch, SettingDeed, Pdu
    <3>2. Promised(l) = Deed("update", "setting", <<"POLL">>)
      BY <1>3, <2>1, <2>4, OptionWords DEF Promised
    <3> QED
      BY <3>1, <3>2 DEF Meant
  <2>5. CASE ~log /\ ~poll
    <3>1. r = Refused
      BY <2>2, <2>5 DEF UpdateRequest
    <3>2. Dispatch(r, success) = NothingDone
      BY <3>1 DEF Dispatch, Refused, Request, Pdu
    <3>3. Promised(l) = NothingDone
      BY <1>3, <2>1, <2>5, OptionWords DEF Promised
    <3> QED
      BY <3>2, <3>3 DEF Meant
  <2> QED
    BY <2>3, <2>4, <2>5
<1>4. CASE Len(l) > 1 /\ option = "RESET"
  <2>1. r = ResetRequest(l)
    BY <1>4 DEF SettingRequest
  <2>2. Promised(l) = IF Len(l) = 2 THEN Deed("reset", "setting", <<"LOG", "POLL">>) ELSE NothingDone
    BY <1>4, OptionWords DEF Promised
  <2>3. CASE Len(l) = 2
    <3>1. Dispatch(r, success) = Deed("reset", "setting", <<"LOG", "POLL">>)
      BY <2>1, <2>3 DEF ResetRequest, Dispatch, SettingDeed, Request, Pdu
    <3> QED
      BY <2>2, <2>3, <3>1 DEF Meant
  <2>4. CASE Len(l) = 3 /\ ParseAttrCode(l[3]) # "INVALID"
    <3>1. r = Request("setting", <<"RESET", "BY_ID", ParseAttrCode(l[3])>>)
      BY <2>1, <2>4 DEF ResetRequest
    <3>2. Dispatch(r, success) = Deed("reset", "setting", <<ParseAttrCode(l[3])>>)
      BY <3>1 DEF Dispatch, SettingDeed, Request, Pdu
    <3> QED
      BY <2>2, <2>4, <3>2 DEF Meant, Deed
  <2>5. CASE Len(l) # 2 /\ ~(Len(l) = 3 /\ ParseAttrCode(l[3]) # "INVALID")
    <3>1. r = Refused
      BY <2>1, <2>5 DEF ResetRequest
    <3>2. Dispatch(r, success) = NothingDone
      BY <3>1 DEF Dispatch, Refused, Request, Pdu
    <3> QED
      BY <2>2, <2>5, <3>2 DEF Meant
  <2> QED
    BY <2>3, <2>4, <2>5
<1>5. CASE /\ ~(Len(l) \in {2, 3} /\ option = "DISPLAY")
           /\ ~(Len(l) = 4 /\ option = "UPDATE") /\ ~(Len(l) > 1 /\ option = "RESET")
  <2>1. r = Refused
    BY <1>1, <1>5 DEF SettingRequest, DisplayRequest
  <2>2. Dispatch(r, success) = NothingDone
    BY <2>1 DEF Dispatch, Refused, Request, Pdu
  <2>3. Promised(l) = NothingDone
    BY <1>1, <1>5, OptionWords DEF Promised
  <2> QED
    BY <2>2, <2>3 DEF Meant
<1> QED
  BY <1>2, <1>3, <1>4, <1>5

\* Whatever the line, what the server makes of the client's request is meant.
LEMMA RequestMeant ==
  ASSUME NEW l \in Lines, NEW success \in ErrorWhenUnset
  PROVE  Meant(l, Dispatch(MakeCommandPDU(l), success))
<1>1. CASE l # <<>> /\ l[1] \in ProcessCommands
  <2>1. MakeCommandPDU(l) = ProcessRequest(l)
    BY <1>1 DEF MakeCommandPDU, ProcessCommands
  <2> QED
    BY <1>1, <2>1, ProcessMeant
<1>2. CASE l # <<>> /\ l[1] = "config"
  <2>1. MakeCommandPDU(l) = ConfigRequest(l)
    BY <1>2 DEF MakeCommandPDU, ProcessCommands
  <2> QED
    BY <1>2, <2>1, ConfigMeant
<1>3. CASE l # <<>> /\ l[1] = "setting"
  <2>1. MakeCommandPDU(l) = SettingRequest(l)
    BY <1>3 DEF MakeCommandPDU, ProcessCommands
  <2> QED
    BY <1>3, <2>1, SettingMeant
<1>4. CASE l = <<>> \/ l[1] \notin ProcessCommands \union {"config", "setting"}
  <2>1. MakeCommandPDU(l) \in {Refused, HelpRequest(l)}
    BY <1>4 DEF MakeCommandPDU
  <2>2. Dispatch(MakeCommandPDU(l), success) = NothingDone
    BY <2>1 DEF Dispatch, HelpRequest, Refused, Request, Pdu, ProcessCommands
  <2>3. Promised(l) = NothingDone
    <3>1. l = <<>> => Len(l) = 0
      OBVIOUS
    <3> QED
      BY <1>4, <3>1 DEF Promised, ProcessCommands
  <2> QED
    BY <2>2, <2>3 DEF Meant
<1> QED
  BY <1>1, <1>2, <1>3, <1>4

\* Of a line that does not leave the client nothing is promised.
LEMMA RefusedMeant ==
  ASSUME NEW l \in Lines, MakeCommandPDU(l).fc \in {"INVALID", "help"}
  PROVE  Meant(l, NothingDone)
<1>1. PICK success \in ErrorWhenUnset : TRUE
  BY UnsetType
<1>2. Dispatch(MakeCommandPDU(l), success) = NothingDone
  BY DEF Dispatch, ProcessCommands
<1> QED
  BY <1>2, RequestMeant

MeantInv ==
  /\ step = "sent" => line \in Lines /\ pdu = MakeCommandPDU(line)
  /\ step \in {"serving", "answered"} => Meant(line, deed)

LEMMA MeantInit == Init => MeantInv
  BY DEF Init, MeantInv

LEMMA MeantStep == MeantInv /\ [Next]_vars => MeantInv'
<1> SUFFICES ASSUME MeantInv, [Next]_vars PROVE MeantInv'
  OBVIOUS
<1> USE DEF MeantInv
<1>1. ASSUME NEW l \in Lines, EnterLine(l) PROVE MeantInv'
  <2>1. CASE MakeCommandPDU(l).fc \in {"INVALID", "help"}
    <3>1. Meant(l, NothingDone)
      BY <2>1, RefusedMeant
    <3> QED
      BY <1>1, <2>1, <3>1 DEF EnterLine
  <2>2. CASE MakeCommandPDU(l).fc \notin {"INVALID", "help"}
    BY <1>1, <2>2 DEF EnterLine
  <2> QED
    BY <2>1, <2>2
<1>2. CASE Serve
  <2>1. PICK success \in ErrorWhenUnset : deed' = Dispatch(pdu, success)
    BY <1>2 DEF Serve
  <2>2. Meant(line, deed')
    BY <1>2, <2>1, RequestMeant DEF Serve
  <2> QED
    BY <1>2, <2>2 DEF Serve
<1>3. CASE StoreSetting \/ Answer \/ PollNext \/ UNCHANGED vars
  <2>1. UNCHANGED <<line, deed, pdu>> /\ (step' = step \/ (step = "serving" /\ step' = "answered"))
    BY <1>3 DEF StoreSetting, Answer, PollNext, PollWake, PollSleep, LogLoadsDebug, LogLoadsOwn,
                vars, commandVars
  <2> QED
    BY <2>1
<1>4. CASE NextCommand
  BY <1>4 DEF NextCommand
<1> QED
  BY <1>1, <1>2, <1>3, <1>4 DEF Next, ServerNext

\* For every line: what the server does is what pmc help promises of it, or
\* nothing where an unset Error is read; and a line the help does not know
\* starts, stops, restarts and pings nothing.
THEOREM LinesMeant == Spec => []DoneAsMeant
<1>1. MeantInv => DoneAsMeant
  BY DEF MeantInv, Meant, DoneAsMeant
<1> QED
  BY <1>1, MeantInit, MeantStep, PTL DEF Spec

-----------------------------------------------------------------------------
(* The settings: stores of a handler reach what they are meant for one by  *)
(* one, beside a poll thread that logs.                                    *)

-----------------------------------------------------------------------------
(* The stores of InitLogger.                                               *)

\* The flags a mode switches on are different modes.
LEMMA SwitchedOnce ==
  ASSUME NEW m \in LogModes
  PROVE  /\ Switched(m) \in Seq(LogModes) /\ DOMAIN Switched(m) = 1..Len(Switched(m))
         /\ Len(Switched(m)) \in Nat
         /\ \A i, j \in 1..Len(Switched(m)) : Switched(m)[i] = Switched(m)[j] => i = j
         /\ FlagsOf(m) = {Switched(m)[i] : i \in 1..Len(Switched(m))}
<1>1. \E i \in 1..5 : Falling[i] = m
  BY DEF Falling, LogModes, LOG_DEBUG, LOG_TRACE, LOG_INFO, LOG_WARN, LOG_ERROR
<1>2. PICK i \in 1..5 : Switched(m) = SubSeq(Falling, i, 5)
  BY <1>1 DEF Switched
<1>3. Falling \in Seq(LogModes) /\ Len(Falling) = 5
  BY DEF Falling, LogModes, LOG_DEBUG, LOG_TRACE, LOG_INFO, LOG_WARN, LOG_ERROR
<1>4. \A j \in i..5 : Falling[j] \in LogModes
  BY <1>3, ElementOfSeq
<1>5. /\ Len(Switched(m)) = 5 - i + 1
      /\ \A j \in 1..5 - i + 1 : Switched(m)[j] = Falling[i + j - 1]
  BY <1>2, <1>4, SubSeqProperties
<1>6. \A j, k \in 1..5 : Falling[j] = Falling[k] => j = k
  BY DEF Falling, LOG_DEBUG, LOG_TRACE, LOG_INFO, LOG_WARN, LOG_ERROR
<1>7. \A j, k \in 1..Len(Switched(m)) : Switched(m)[j] = Switched(m)[k] => j = k
  <2> SUFFICES ASSUME NEW j \in 1..Len(Switched(m)), NEW k \in 1..Len(Switched(m)),
                      Switched(m)[j] = Switched(m)[k]
               PROVE  j = k
    OBVIOUS
  <2>1. i + j - 1 \in 1..5 /\ i + k - 1 \in 1..5 /\ Falling[i + j - 1] = Falling[i + k - 1]
    BY <1>5
  <2>2. i + j - 1 = i + k - 1
    BY <1>6, <2>1
  <2> QED
    BY <1>5, <2>2
<1>8. DOMAIN Switched(m) = 1..Len(Switched(m)) /\ Len(Switched(m)) \in Nat
  BY SwitchedType, LenProperties
<1> QED
  BY SwitchedType, <1>7, <1>8 DEF FlagsOf

\* Two sequences of stores, one after the other.
LEMMA StoresConcat ==
  ASSUME NEW s \in Seq(StoreType), NEW t \in Seq(StoreType)
  PROVE  /\ s \o t \in Seq(StoreType) /\ Len(s) \in Nat /\ Len(t) \in Nat
         /\ Len(s \o t) = Len(s) + Len(t)
         /\ \A i \in 1..Len(s) : (s \o t)[i] = s[i]
         /\ \A i \in 1..Len(t) : (s \o t)[Len(s) + i] = t[i]
<1>1. /\ s \o t \in Seq(StoreType) /\ Len(s \o t) = Len(s) + Len(t)
      /\ \A i \in 1..Len(s) + Len(t) : (s \o t)[i] = IF i <= Len(s) THEN s[i] ELSE t[i - Len(s)]
  BY ConcatProperties
<1>2. Len(s) \in Nat /\ Len(t) \in Nat
  BY LenProperties
<1>3. \A i \in 1..Len(s) : (s \o t)[i] = s[i]
  BY <1>1, <1>2
<1>4. ASSUME NEW i \in 1..Len(t) PROVE (s \o t)[Len(s) + i] = t[i]
  <2>1. /\ Len(s) + i \in 1..Len(s) + Len(t) /\ ~(Len(s) + i <= Len(s))
        /\ (Len(s) + i) - Len(s) = i
    BY <1>2
  <2> QED
    BY <1>1, <2>1
<1> QED
  BY <1>1, <1>2, <1>3, <1>4

\* InitLogger clears the five flags, sets those of the mode, and stores the mode.
LEMMA InitLoggerIs ==
  ASSUME NEW m \in LogModes
  PROVE  LET n == Len(Switched(m)) IN
         /\ InitLogger(m) \in Seq(StoreType) /\ Len(InitLogger(m)) = 6 + n /\ n \in Nat
         /\ \A i \in LogModes : i \in 1..5 /\ InitLogger(m)[i] = Store("flag", i, 0)
         /\ \A i \in 1..n : InitLogger(m)[5 + i] = Store("flag", Switched(m)[i], 1)
         /\ InitLogger(m)[6 + n] = Store("mode", m, 0)
<1> DEFINE n == Len(Switched(m))
           clears == [i \in LogModes |-> Store("flag", i, 0)]
           sets == [i \in DOMAIN Switched(m) |-> Store("flag", Switched(m)[i], 1)]
           last == <<Store("mode", m, 0)>>
<1>1. LogModes = 1..5
  BY DEF LogModes, LOG_DEBUG, LOG_ERROR
<1>2. clears \in Seq(StoreType) /\ Len(clears) = 5
  <2>1. clears \in [1..5 -> StoreType]
    BY <1>1 DEF Store, StoreType
  <2> QED
    BY <2>1
<1>3. sets \in Seq(StoreType) /\ Len(sets) = n /\ n \in Nat
  <2>1. \A i \in 1..n : Switched(m)[i] \in LogModes
    BY SwitchedOnce, ElementOfSeq
  <2>2. sets \in [1..n -> StoreType]
    BY <1>1, <2>1, SwitchedOnce DEF Store, StoreType
  <2> QED
    BY <2>2, SwitchedOnce
<1>4. last \in Seq(StoreType) /\ Len(last) = 1 /\ last[1] = Store("mode", m, 0)
  BY <1>1 DEF Store, StoreType
<1>5. \A i \in 1..5 : clears[i] = Store("flag", i, 0)
  BY <1>1
<1>6. \A i \in 1..n : sets[i] = Store("flag", Switched(m)[i], 1)
  BY SwitchedOnce
<1>7. InitLogger(m) = (clears \o sets) \o last
  BY DEF InitLogger
<1> HIDE DEF n, clears, sets, last
<1>8. /\ clears \o sets \in Seq(StoreType) /\ Len(clears \o sets) = 5 + n
      /\ \A i \in 1..5 : (clears \o sets)[i] = clears[i]
      /\ \A i \in 1..n : (clears \o sets)[5 + i] = sets[i]
  <2>1. clears \in Seq(StoreType) /\ sets \in Seq(StoreType)
    BY <1>2, <1>3, <1>4
  <2>2. /\ clears \o sets \in Seq(StoreType) /\ Len(clears \o sets) = Len(clears) + Len(sets)
        /\ \A i \in 1..Len(clears) : (clears \o sets)[i] = clears[i]
        /\ \A i \in 1..Len(sets) : (clears \o sets)[Len(clears) + i] = sets[i]
    BY <2>1, StoresConcat
  <2> QED
    BY <1>2, <1>3, <1>4, <1>7, <2>2
<1>9. /\ InitLogger(m) \in Seq(StoreType) /\ Len(InitLogger(m)) = 5 + n + 1
      /\ \A i \in 1..5 + n : InitLogger(m)[i] = (clears \o sets)[i]
      /\ InitLogger(m)[5 + n + 1] = last[1]
  <2>1. (clears \o sets) \in Seq(StoreType) /\ last \in Seq(StoreType)
    BY <1>2, <1>3, <1>4, <1>8
  <2>2. /\ (clears \o sets) \o last \in Seq(StoreType)
        /\ Len((clears \o sets) \o last) = Len(clears \o sets) + Len(last)
        /\ \A i \in 1..Len((clears \o sets)) : ((clears \o sets) \o last)[i] = (clears \o sets)[i]
        /\ \A i \in 1..Len(last) : ((clears \o sets) \o last)[Len((clears \o sets)) + i] = last[i]
    BY <2>1, StoresConcat
  <2> QED
    BY <1>2, <1>3, <1>4, <1>7, <1>8, <2>2
<1>10. ASSUME NEW i \in LogModes PROVE i \in 1..5 /\ InitLogger(m)[i] = Store("flag", i, 0)
  BY <1>1, <1>3, <1>5, <1>8, <1>9
<1>11. ASSUME NEW i \in 1..n PROVE InitLogger(m)[5 + i] = Store("flag", Switched(m)[i], 1)
  <2>1. 5 + i \in 1..5 + n
    BY <1>3
  <2> QED
    BY <1>6, <1>8, <1>9, <2>1
<1>12. 5 + n + 1 = 6 + n
  BY <1>3
<1> QED
  BY <1>3, <1>4, <1>9, <1>10, <1>11, <1>12 DEF n

-----------------------------------------------------------------------------
(* Where a list of stores leads.                                           *)

\* What one store leaves in the flags, in the mode and in the interval.
FlagsAfter(s, fl) ==
  CASE s.name = "flag" /\ s.value = 1 -> fl \union {s.level}
    [] s.name = "flag" /\ s.value = 0 -> fl \ {s.level}
    [] OTHER -> fl
ModeAfter(s, md) == IF s.name = "mode" THEN s.level ELSE md
IntervalAfter(s, iv) == IF s.name = "interval" THEN s.value ELSE iv

FlagStore(s, i) == s.name = "flag" /\ s.level = i
NoFlag(s, i) == \A k \in 1..Len(s) : ~FlagStore(s[k], i)

\* The last store of s to flag i gives it the value it has in mode g.
Decides(s, i, g, k) ==
  /\ FlagStore(s[k], i) /\ (s[k].value = 1 <=> i \in FlagsOf(g))
  /\ \A j \in 1..Len(s) : j > k => ~FlagStore(s[j], i)

\* Flag i is, or will be when the stores s are done, what it is in mode g.
FlagHeading(s, fl, g, i) ==
  \/ \E k \in 1..Len(s) : Decides(s, i, g, k)
  \/ NoFlag(s, i) /\ (i \in fl <=> i \in FlagsOf(g))

\* From the flags fl and the mode md the stores s lead to mode g and, as far as
\* the flags in F go, to its flags; the mode is stored after all flags.
Heading(s, fl, md, g, F) ==
  /\ s \in Seq(StoreType) /\ g \in LogModes
  /\ \A k \in 1..Len(s) : s[k].name = "mode" => s[k].level = g
  /\ \/ \E k \in 1..Len(s) : s[k].name = "mode"
     \/ md = g /\ \A k \in 1..Len(s) : s[k].name # "flag"
  /\ \A j, k \in 1..Len(s) : s[j].name = "flag" /\ s[k].name = "mode" => j < k
  /\ \A k \in 1..Len(s) : s[k].name = "flag" =>
       s[k].value \in {0, 1} /\ (s[k].value = 1 => s[k].level \in FlagsOf(g))
  /\ \A i \in F : FlagHeading(s, fl, g, i)

LEMMA TailOfStores ==
  ASSUME NEW s \in Seq(StoreType), s # <<>>
  PROVE  /\ Head(s) = s[1] /\ Tail(s) \in Seq(StoreType)
         /\ Len(s) \in Nat /\ Len(s) >= 1 /\ Len(Tail(s)) = Len(s) - 1
         /\ \A i \in 1..Len(Tail(s)) : i + 1 \in 1..Len(s) /\ Tail(s)[i] = s[i + 1]
         /\ \A i \in 1..Len(s) : i > 1 => i - 1 \in 1..Len(Tail(s)) /\ Tail(s)[i - 1] = s[i]
<1>1. /\ Tail(s) \in Seq(StoreType) /\ Len(Tail(s)) = Len(s) - 1
      /\ \A i \in 1..Len(Tail(s)) : Tail(s)[i] = s[i + 1]
  BY HeadTailProperties
<1>2. Len(s) \in Nat \ {0}
  BY EmptySeq
<1>3. ASSUME NEW i \in 1..Len(s), i > 1
      PROVE  i - 1 \in 1..Len(Tail(s)) /\ Tail(s)[i - 1] = s[i]
  <2>1. i - 1 \in 1..Len(Tail(s)) /\ (i - 1) + 1 = i
    BY <1>1, <1>2, <1>3
  <2> QED
    BY <1>1, <2>1
<1>4. Head(s) = s[1]
  OBVIOUS
<1> QED
  BY <1>1, <1>2, <1>3, <1>4

\* One store brings the flags nearer to where the list leads.
LEMMA FlagHeadingStep ==
  ASSUME NEW s \in Seq(StoreType), s # <<>>, NEW fl, NEW g, NEW i,
         s[1].name = "flag" => s[1].value \in {0, 1},
         FlagHeading(s, fl, g, i)
  PROVE  FlagHeading(Tail(s), FlagsAfter(s[1], fl), g, i)
<1>1. CASE \E k \in 1..Len(s) : Decides(s, i, g, k)
  <2>1. PICK k \in 1..Len(s) : Decides(s, i, g, k)
    BY <1>1
  <2>2. CASE k > 1
    <3>1. k - 1 \in 1..Len(Tail(s)) /\ Tail(s)[k - 1] = s[k]
      BY <2>2, TailOfStores
    <3>2. ASSUME NEW j \in 1..Len(Tail(s)), j > k - 1 PROVE ~FlagStore(Tail(s)[j], i)
      <4>1. j + 1 \in 1..Len(s) /\ Tail(s)[j] = s[j + 1] /\ j + 1 > k
        BY <3>2, TailOfStores
      <4> QED
        BY <2>1, <4>1 DEF Decides
    <3>3. Decides(Tail(s), i, g, k - 1)
      BY <2>1, <3>1, <3>2 DEF Decides
    <3> QED
      BY <3>1, <3>3 DEF FlagHeading
  <2>3. CASE ~(k > 1)
    <3>1. k = 1
      BY <2>3, TailOfStores
    <3>2. NoFlag(Tail(s), i)
      <4> SUFFICES ASSUME NEW j \in 1..Len(Tail(s)) PROVE ~FlagStore(Tail(s)[j], i)
        BY DEF NoFlag
      <4>1. j + 1 \in 1..Len(s) /\ Tail(s)[j] = s[j + 1] /\ j + 1 > k
        BY <3>1, TailOfStores
      <4> QED
        BY <2>1, <4>1 DEF Decides
    <3>3. i \in FlagsAfter(s[1], fl) <=> i \in FlagsOf(g)
      BY <2>1, <3>1 DEF Decides, FlagStore, FlagsAfter
    <3> QED
      BY <3>2, <3>3 DEF FlagHeading
  <2> QED
    BY <2>2, <2>3
<1>2. CASE NoFlag(s, i) /\ (i \in fl <=> i \in FlagsOf(g))
  <2>1. NoFlag(Tail(s), i) /\ ~FlagStore(s[1], i)
    BY <1>2, TailOfStores DEF NoFlag
  <2>2. i \in FlagsAfter(s[1], fl) <=> i \in fl
    BY <2>1 DEF FlagStore, FlagsAfter
  <2> QED
    BY <1>2, <2>1, <2>2 DEF FlagHeading
<1> QED
  BY <1>1, <1>2 DEF FlagHeading

\* And the list of stores that are left leads where the whole list led.
LEMMA HeadingStep ==
  ASSUME NEW s, NEW fl, NEW md, NEW g, NEW F, s # <<>>, Heading(s, fl, md, g, F)
  PROVE  Heading(Tail(s), FlagsAfter(s[1], fl), ModeAfter(s[1], md), g, F)
<1> DEFINE t == Tail(s)
<1>1. s \in Seq(StoreType) /\ g \in LogModes
  BY DEF Heading
<1>2. /\ t \in Seq(StoreType) /\ 1 \in 1..Len(s)
      /\ \A i \in 1..Len(t) : i \in Int /\ i + 1 \in 1..Len(s) /\ t[i] = s[i + 1]
      /\ \A i \in 1..Len(s) : i > 1 => i - 1 \in 1..Len(t) /\ t[i - 1] = s[i]
  BY <1>1, TailOfStores
<1> HIDE DEF t
<1>3. \A k \in 1..Len(t) : t[k].name = "mode" => t[k].level = g
  BY <1>2 DEF Heading
<1>4. \/ \E k \in 1..Len(t) : t[k].name = "mode"
      \/ ModeAfter(s[1], md) = g /\ \A k \in 1..Len(t) : t[k].name # "flag"
  <2>1. CASE s[1].name = "mode"
    <3>1. ModeAfter(s[1], md) = g
      BY <1>2, <2>1 DEF Heading, ModeAfter
    <3>2. ASSUME NEW k \in 1..Len(t) PROVE t[k].name # "flag"
      <4>1. k + 1 \in 1..Len(s) /\ t[k] = s[k + 1] /\ ~(k + 1 < 1)
        BY <1>2
      <4> QED
        BY <1>2, <2>1, <4>1 DEF Heading
    <3> QED
      BY <3>1, <3>2
  <2>2. CASE s[1].name # "mode" /\ \E k \in 1..Len(s) : s[k].name = "mode"
    <3>1. PICK k \in 1..Len(s) : s[k].name = "mode"
      BY <2>2
    <3>2. k > 1
      BY <1>2, <2>2, <3>1
    <3> QED
      BY <1>2, <3>1, <3>2
  <2>3. CASE s[1].name # "mode" /\ ~\E k \in 1..Len(s) : s[k].name = "mode"
    <3>1. md = g /\ \A k \in 1..Len(s) : s[k].name # "flag"
      BY <2>3 DEF Heading
    <3> QED
      BY <1>2, <2>3, <3>1 DEF ModeAfter
  <2> QED
    BY <2>1, <2>2, <2>3
<1>5. ASSUME NEW j \in 1..Len(t), NEW k \in 1..Len(t), t[j].name = "flag", t[k].name = "mode"
      PROVE  j < k
  <2>1. j + 1 < k + 1
    BY <1>2, <1>5 DEF Heading
  <2> QED
    BY <1>2, <2>1
<1>6. \A k \in 1..Len(t) : t[k].name = "flag" =>
        t[k].value \in {0, 1} /\ (t[k].value = 1 => t[k].level \in FlagsOf(g))
  BY <1>2 DEF Heading
<1>7. ASSUME NEW i \in F PROVE FlagHeading(t, FlagsAfter(s[1], fl), g, i)
  <2>1. s[1].name = "flag" => s[1].value \in {0, 1}
    BY <1>2 DEF Heading
  <2>2. FlagHeading(s, fl, g, i)
    BY DEF Heading
  <2> QED
    BY <1>1, <2>1, <2>2, FlagHeadingStep DEF t
<1>8. Heading(t, FlagsAfter(s[1], fl), ModeAfter(s[1], md), g, F)
  BY <1>1, <1>2, <1>3, <1>4, <1>5, <1>6, <1>7 DEF Heading
<1> QED
  BY <1>8 DEF t

\* InitLogger leads from any flags and any mode to its own.
LEMMA HeadingOfInitLogger ==
  ASSUME NEW m \in LogModes, NEW fl, NEW md
  PROVE  Heading(InitLogger(m), fl, md, m, LogModes)
<1> DEFINE s == InitLogger(m)
           n == Len(Switched(m))
<1>1. /\ s \in Seq(StoreType) /\ Len(s) = 6 + n /\ n \in Nat
      /\ \A i \in LogModes : i \in 1..5 /\ s[i] = Store("flag", i, 0)
      /\ \A i \in 1..n : s[5 + i] = Store("flag", Switched(m)[i], 1)
      /\ s[6 + n] = Store("mode", m, 0)
  BY InitLoggerIs
<1>2. /\ \A i, j \in 1..n : Switched(m)[i] = Switched(m)[j] => i = j
      /\ FlagsOf(m) = {Switched(m)[i] : i \in 1..n}
  BY SwitchedOnce
<1>3. LogModes = 1..5
  BY DEF LogModes, LOG_DEBUG, LOG_ERROR
<1> HIDE DEF s, n
<1>4. ASSUME NEW k \in 1..Len(s)
      PROVE  \/ k \in 1..5 /\ s[k].name = "flag" /\ s[k].level = k /\ s[k].value = 0
             \/ /\ s[k].name = "flag" /\ s[k].value = 1
                /\ \E i \in 1..n : k = 5 + i /\ s[k].level = Switched(m)[i]
             \/ k = Len(s) /\ s[k].name = "mode" /\ s[k].level = m
  <2>1. CASE k \in 1..5
    BY <1>1, <1>3, <2>1 DEF Store
  <2>2. CASE k \in 6..5 + n
    <3>1. k - 5 \in 1..n /\ k = 5 + (k - 5)
      BY <1>1, <2>2
    <3>2. PICK i \in 1..n : k = 5 + i
      BY <3>1
    <3>3. s[k] = Store("flag", Switched(m)[i], 1)
      BY <1>1, <3>2
    <3> QED
      BY <3>2, <3>3 DEF Store
  <2>3. CASE k = 6 + n
    BY <1>1, <2>3 DEF Store
  <2> QED
    BY <1>1, <2>1, <2>2, <2>3
<1>5. \A k \in 1..Len(s) : s[k].name = "mode" => s[k].level = m /\ k = Len(s)
  BY <1>4
<1>6. \E k \in 1..Len(s) : s[k].name = "mode"
  <2>1. 6 + n \in 1..Len(s)
    BY <1>1
  <2> QED
    BY <1>1, <2>1 DEF Store
<1>7. ASSUME NEW j \in 1..Len(s), NEW k \in 1..Len(s), s[j].name = "flag", s[k].name = "mode"
      PROVE  j < k
  <2>1. k = Len(s) /\ j # k
    BY <1>5, <1>7
  <2> QED
    BY <1>1, <2>1
<1>8. ASSUME NEW k \in 1..Len(s), s[k].name = "flag"
      PROVE  s[k].value \in {0, 1} /\ (s[k].value = 1 => s[k].level \in FlagsOf(m))
  BY <1>2, <1>4, <1>8
<1>9. ASSUME NEW i \in LogModes PROVE FlagHeading(s, fl, m, i)
  <2>1. CASE i \in FlagsOf(m)
    <3>1. PICK j \in 1..n : Switched(m)[j] = i
      BY <1>2, <2>1
    <3>2. 5 + j \in 1..Len(s) /\ s[5 + j] = Store("flag", i, 1)
      BY <1>1, <3>1
    <3>3. ASSUME NEW k \in 1..Len(s), k > 5 + j PROVE ~FlagStore(s[k], i)
      <4>1. ASSUME NEW h \in 1..n, k = 5 + h
            PROVE  Switched(m)[h] # i
        <5>1. h # j
          BY <3>3, <4>1
        <5> QED
          BY <1>2, <3>1, <5>1
      <4>2. k \notin 1..5
        BY <3>3
      <4> QED
        BY <1>1, <1>4, <3>3, <4>1, <4>2 DEF FlagStore
    <3>4. Decides(s, i, m, 5 + j)
      BY <2>1, <3>2, <3>3 DEF Decides, FlagStore, Store
    <3> QED
      BY <3>2, <3>4 DEF FlagHeading
  <2>2. CASE i \notin FlagsOf(m)
    <3>1. i \in 1..Len(s) /\ s[i] = Store("flag", i, 0)
      BY <1>1
    <3>2. ASSUME NEW k \in 1..Len(s), k > i PROVE ~FlagStore(s[k], i)
      BY <1>2, <1>4, <2>2, <3>2 DEF FlagStore
    <3>3. Decides(s, i, m, i)
      BY <2>2, <3>1, <3>2 DEF Decides, FlagStore, Store
    <3> QED
      BY <3>1, <3>3 DEF FlagHeading
  <2> QED
    BY <2>1, <2>2
<1>10. Heading(s, fl, md, m, LogModes)
  BY <1>1, <1>5, <1>6, <1>7, <1>8, <1>9 DEF Heading
<1> QED
  BY <1>10 DEF s

\* A store to the interval behind them does not change where stores lead.
LEMMA HeadingAndInterval ==
  ASSUME NEW s, NEW fl, NEW md, NEW g, NEW F, NEW v \in Int, Heading(s, fl, md, g, F)
  PROVE  Heading(s \o SetPollInterval(v), fl, md, g, F)
<1> DEFINE u == SetPollInterval(v)
           t == s \o u
<1>1. u \in Seq(StoreType) /\ Len(u) = 1 /\ u[1] = Store("interval", 0, v)
  BY DEF SetPollInterval, Store, StoreType
<1>2. s \in Seq(StoreType) /\ g \in LogModes
  BY DEF Heading
<1> HIDE DEF u
<1>3. /\ t \in Seq(StoreType) /\ Len(s) \in Nat /\ Len(t) = Len(s) + 1
      /\ \A i \in 1..Len(s) : i \in 1..Len(t) /\ t[i] = s[i]
      /\ t[Len(s) + 1] = u[1]
  <2>1. /\ t \in Seq(StoreType) /\ Len(s) \in Nat /\ Len(t) = Len(s) + Len(u)
        /\ \A i \in 1..Len(s) : t[i] = s[i]
        /\ \A i \in 1..Len(u) : t[Len(s) + i] = u[i]
    BY <1>1, <1>2, StoresConcat
  <2> QED
    BY <1>1, <2>1
<1> HIDE DEF t
<1>4. ASSUME NEW i \in 1..Len(t)
      PROVE  (i \in 1..Len(s) /\ t[i] = s[i]) \/ t[i].name = "interval"
  BY <1>1, <1>3 DEF Store
<1>5. \A k \in 1..Len(t) : t[k].name \in {"flag", "mode"} => k \in 1..Len(s) /\ t[k] = s[k]
  BY <1>4
<1>6. /\ \A k \in 1..Len(t) : t[k].name = "mode" => t[k].level = g
      /\ \/ \E k \in 1..Len(t) : t[k].name = "mode"
         \/ md = g /\ \A k \in 1..Len(t) : t[k].name # "flag"
      /\ \A j, k \in 1..Len(t) : t[j].name = "flag" /\ t[k].name = "mode" => j < k
      /\ \A k \in 1..Len(t) : t[k].name = "flag" =>
           t[k].value \in {0, 1} /\ (t[k].value = 1 => t[k].level \in FlagsOf(g))
  BY <1>3, <1>5 DEF Heading
<1>7. ASSUME NEW i \in F PROVE FlagHeading(t, fl, g, i)
  <2>1. FlagHeading(s, fl, g, i)
    BY DEF Heading
  <2>2. NoFlag(s, i) => NoFlag(t, i)
    BY <1>5 DEF NoFlag, FlagStore
  <2>3. ASSUME NEW k \in 1..Len(s), Decides(s, i, g, k) PROVE Decides(t, i, g, k)
    BY <1>3, <1>5, <2>3 DEF Decides, FlagStore
  <2> QED
    BY <1>3, <2>1, <2>2, <2>3 DEF FlagHeading
<1>8. Heading(t, fl, md, g, F)
  BY <1>2, <1>3, <1>6, <1>7 DEF Heading
<1> QED
  BY <1>8 DEF t, u

\* No stores lead to where the flags are if they are those of the mode.
LEMMA HeadingNowhere ==
  ASSUME NEW fl, NEW md, NEW F
  PROVE  Heading(<<>>, fl, md, md, F) <=> md \in LogModes /\ \A i \in F : i \in fl <=> i \in FlagsOf(md)
<1>1. <<>> \in Seq(StoreType) /\ Len(<<>>) = 0 /\ 1..0 = {}
  BY EmptySeq
<1>2. \A i : FlagHeading(<<>>, fl, md, i) <=> (i \in fl <=> i \in FlagsOf(md))
  BY <1>1 DEF FlagHeading, NoFlag
<1> QED
  BY <1>1, <1>2 DEF Heading

-----------------------------------------------------------------------------
(* What a request that changes settings leads to.                          *)

\* The interval is, or will be when the stores s are done, v.
IntervalHeading(s, iv, v) ==
  /\ \A k \in 1..Len(s) : s[k].name = "interval" => s[k].value = v
  /\ (\E k \in 1..Len(s) : s[k].name = "interval") \/ iv = v

LEMMA IntervalHeadingStep ==
  ASSUME NEW s \in Seq(StoreType), s # <<>>, NEW iv, NEW v, IntervalHeading(s, iv, v)
  PROVE  IntervalHeading(Tail(s), IntervalAfter(s[1], iv), v)
<1>1. /\ 1 \in 1..Len(s)
      /\ \A i \in 1..Len(Tail(s)) : i + 1 \in 1..Len(s) /\ Tail(s)[i] = s[i + 1]
      /\ \A i \in 1..Len(s) : i # 1 => i - 1 \in 1..Len(Tail(s)) /\ Tail(s)[i - 1] = s[i]
  BY TailOfStores
<1>2. \A k \in 1..Len(Tail(s)) : Tail(s)[k].name = "interval" => Tail(s)[k].value = v
  BY <1>1 DEF IntervalHeading
<1>3. CASE s[1].name = "interval"
  BY <1>1, <1>2, <1>3 DEF IntervalHeading, IntervalAfter
<1>4. CASE s[1].name # "interval"
  BY <1>1, <1>2, <1>4 DEF IntervalHeading, IntervalAfter
<1> QED
  BY <1>3, <1>4

LEMMA HeadingOfSetPollInterval ==
  ASSUME NEW m \in LogModes, NEW v \in Int, NEW iv
  PROVE  /\ IntervalHeading(SetPollInterval(v), iv, v)
         /\ IntervalHeading(InitLogger(m) \o SetPollInterval(v), iv, v)
<1> DEFINE s == InitLogger(m)
           u == SetPollInterval(v)
           n == Len(Switched(m))
<1>1. u \in Seq(StoreType) /\ Len(u) = 1 /\ u[1].name = "interval" /\ u[1].value = v
  BY DEF SetPollInterval, Store, StoreType
<1>2. Heading(s, {}, m, m, LogModes) /\ s \in Seq(StoreType)
  BY HeadingOfInitLogger, InitLoggerIs
<1>3. /\ Len(s) = 6 + n /\ n \in Nat /\ LogModes = 1..5
      /\ \A i \in 1..5 : s[i].name = "flag"
      /\ \A i \in 1..n : s[5 + i].name = "flag"
      /\ s[6 + n].name = "mode"
  <2>1. LogModes = 1..5
    BY DEF LogModes, LOG_DEBUG, LOG_ERROR
  <2>2. /\ Len(s) = 6 + n /\ n \in Nat
        /\ \A i \in LogModes : s[i] = Store("flag", i, 0)
        /\ \A i \in 1..n : s[5 + i] = Store("flag", Switched(m)[i], 1)
        /\ s[6 + n] = Store("mode", m, 0)
    BY InitLoggerIs
  <2> HIDE DEF s, n
  <2>3. \A i \in 1..5 : s[i].name = "flag"
    BY <2>1, <2>2 DEF Store
  <2>4. ASSUME NEW i \in 1..n PROVE s[5 + i].name = "flag"
    <3>1. s[5 + i] = Store("flag", Switched(m)[i], 1)
      BY <2>2
    <3> QED
      BY <3>1 DEF Store
  <2>5. s[6 + n].name = "mode"
    BY <2>2 DEF Store
  <2> QED
    BY <2>1, <2>2, <2>3, <2>4, <2>5
<1> HIDE DEF s, u, n
<1>4. ASSUME NEW i \in 1..Len(s) PROVE s[i].name # "interval"
  <2>1. CASE i \in 6..5 + n
    <3>1. i - 5 \in 1..n /\ i = 5 + (i - 5)
      BY <1>3, <2>1
    <3>2. PICK j \in 1..n : i = 5 + j
      BY <3>1
    <3> QED
      BY <1>3, <3>2
  <2>2. CASE i \in 1..5 \/ i = 6 + n
    BY <1>3, <2>2
  <2> QED
    BY <1>3, <2>1, <2>2
<1>5. /\ Len(s) \in Nat /\ Len(s \o u) = Len(s) + Len(u)
      /\ \A i \in 1..Len(s) : (s \o u)[i] = s[i]
      /\ \A i \in 1..Len(u) : (s \o u)[Len(s) + i] = u[i]
  BY <1>1, <1>2, StoresConcat
<1>6. /\ Len(s) + 1 \in 1..Len(s \o u) /\ (s \o u)[Len(s) + 1] = u[1]
      /\ \A i \in 1..Len(s \o u) : i \in 1..Len(s) \/ i = Len(s) + 1
  BY <1>1, <1>5
<1>7. IntervalHeading(s \o u, iv, v)
  BY <1>1, <1>4, <1>5, <1>6 DEF IntervalHeading
<1>8. IntervalHeading(u, iv, v)
  BY <1>1 DEF IntervalHeading
<1> QED
  BY <1>7, <1>8 DEF s, u

\* A request to change a setting is the client's of a setting command.
LEMMA SettingRequests ==
  ASSUME NEW l \in Lines, MakeCommandPDU(l).fc = "setting"
  PROVE  MakeCommandPDU(l) = SettingRequest(l)
<1>1. Refused.fc # "setting" /\ HelpRequest(l).fc # "setting"
  BY DEF HelpRequest, Refused, Request, Pdu
<1>2. ASSUME l # <<>>, l[1] \in ProcessCommands PROVE FALSE
  <2>1. ProcessRequest(l).fc \in {l[1], "INVALID"}
    BY DEF ProcessRequest, Refused, Request, Pdu
  <2>2. MakeCommandPDU(l) = ProcessRequest(l)
    BY <1>2 DEF MakeCommandPDU, ProcessCommands
  <2> QED
    BY <1>2, <2>1, <2>2 DEF ProcessCommands
<1>3. ASSUME l # <<>>, l[1] = "config" PROVE FALSE
  <2>1. ConfigRequest(l).fc \in {"config", "INVALID"}
    BY <1>3 DEF ConfigRequest, DisplayRequest, Refused, Request, Pdu
  <2>2. MakeCommandPDU(l) = ConfigRequest(l)
    BY <1>3 DEF MakeCommandPDU, ProcessCommands
  <2> QED
    BY <2>1, <2>2
<1> QED
  BY <1>1, <1>2, <1>3 DEF MakeCommandPDU

\* What a setting command that changes nothing is sent as, if at all.
NothingToStore(l) == {Request(l[1], <<"DISPLAY", "ALL">>), Request(l[1], <<"DISPLAY", "BY_ID", l[3]>>), Refused}

\* The forms of a setting command.
LEMMA SettingForms ==
  ASSUME NEW l \in Lines
  PROVE  \/ SettingRequest(l) \in NothingToStore(l)
         \/ /\ ToLogMode(l[4]) \in LogModes
            /\ SettingRequest(l) = Pdu("setting", <<"UPDATE", "LOG">>, ToLogMode(l[4]))
         \/ /\ atoi(l[4]) \in Bounds
            /\ SettingRequest(l) = Pdu("setting", <<"UPDATE", "POLL">>, atoi(l[4]))
         \/ SettingRequest(l) = Request("setting", <<"RESET", "ALL">>)
         \/ \E a \in {"LOG", "POLL"} : SettingRequest(l) = Request("setting", <<"RESET", "BY_ID", a>>)
<1>1. DisplayRequest(l) \in NothingToStore(l)
  BY DEF DisplayRequest, NothingToStore
<1>2. ToLogMode(l[4]) \in LogModes \union {LOG_INVALID}
  BY DEF ToLogMode, LogModes, LOG_INVALID, LOG_DEBUG, LOG_TRACE, LOG_INFO, LOG_WARN, LOG_ERROR
<1>3. \/ UpdateRequest(l) = Refused
      \/ /\ ToLogMode(l[4]) \in LogModes
         /\ UpdateRequest(l) = Pdu("setting", <<"UPDATE", "LOG">>, ToLogMode(l[4]))
      \/ /\ atoi(l[4]) \in Bounds
         /\ UpdateRequest(l) = Pdu("setting", <<"UPDATE", "POLL">>, atoi(l[4]))
  BY <1>2 DEF UpdateRequest, Bounds
<1>4. ParseAttrCode(l[3]) \in {"LOG", "POLL", "INVALID"}
  BY DEF ParseAttrCode
<1>5. \/ ResetRequest(l) \in {Refused, Request("setting", <<"RESET", "ALL">>)}
      \/ \E a \in {"LOG", "POLL"} : ResetRequest(l) = Request("setting", <<"RESET", "BY_ID", a>>)
  BY <1>4 DEF ResetRequest
<1>6. SettingRequest(l) \in {DisplayRequest(l), UpdateRequest(l), ResetRequest(l), Refused}
  BY DEF SettingRequest
<1>7. CASE SettingRequest(l) \in {DisplayRequest(l), Refused}
  BY <1>1, <1>7 DEF NothingToStore
<1>8. CASE SettingRequest(l) = UpdateRequest(l)
  BY <1>3, <1>8 DEF NothingToStore
<1>9. CASE SettingRequest(l) = ResetRequest(l)
  BY <1>5, <1>9 DEF NothingToStore
<1> QED
  BY <1>6, <1>7, <1>8, <1>9

\* The handler of a settings command, from the line to its stores.
SettingServed(l, d, todo) ==
  \/ /\ ToLogMode(l[4]) \in LogModes
     /\ d = Deed("update", "setting", <<"LOG">>) /\ todo = InitLogger(ToLogMode(l[4]))
  \/ /\ atoi(l[4]) \in Bounds
     /\ d = Deed("update", "setting", <<"POLL">>) /\ todo = SetPollInterval(atoi(l[4]))
  \/ /\ d = Deed("reset", "setting", <<"LOG", "POLL">>)
     /\ todo = InitLogger(LOG_WARN) \o SetPollInterval(DefaultInterval)
  \/ d = Deed("reset", "setting", <<"LOG">>) /\ todo = InitLogger(LOG_WARN)
  \/ d = Deed("reset", "setting", <<"POLL">>) /\ todo = SetPollInterval(DefaultInterval)
  \/ d.op \notin {"update", "reset"} /\ todo = <<>>

LEMMA SettingsServed ==
  ASSUME NEW l \in Lines, NEW success \in ErrorWhenUnset
  PROVE  SettingServed(l, Dispatch(MakeCommandPDU(l), success), StoresOf(MakeCommandPDU(l)))
<1> DEFINE p == MakeCommandPDU(l)
           d == Dispatch(p, success)
<1>1. CASE p.fc # "setting"
  <2>1. StoresOf(p) = <<>>
    BY <1>1 DEF StoresOf
  <2>2. /\ ProcessDeed(p, success).op \in {p.fc, "stop", "none"}
        /\ ConfigDeed(p, success).op \in {"display", "reload", "none"}
    BY DEF ProcessDeed, ConfigDeed, Deed, NothingDone
  <2>3. d.op \notin {"update", "reset"}
    BY <1>1, <2>2 DEF Dispatch, ProcessCommands, NothingDone, Deed
  <2> QED
    BY <2>1, <2>3 DEF SettingServed
<1>2. CASE p.fc = "setting"
  <2>1. p = SettingRequest(l) /\ d = SettingDeed(p)
    BY <1>2, SettingRequests DEF Dispatch, ProcessCommands
  <2> HIDE DEF p, d
  <2>2. CASE p \in NothingToStore(l)
    <3>1. p.params[1] = "DISPLAY" /\ d = Deed("display", "setting", <<>>)
      BY <1>2, <2>1, <2>2 DEF SettingDeed, Refused, Request, Pdu, NothingToStore
    <3>2. StoresOf(p) = <<>>
      BY <3>1 DEF StoresOf
    <3> QED
      BY <3>1, <3>2 DEF SettingServed, Deed, d, p
  <2>3. CASE /\ ToLogMode(l[4]) \in LogModes
             /\ p = Pdu("setting", <<"UPDATE", "LOG">>, ToLogMode(l[4]))
    <3>1. d = Deed("update", "setting", <<"LOG">>)
      BY <2>1, <2>3 DEF SettingDeed, Pdu
    <3>2. StoresOf(p) = InitLogger(ToLogMode(l[4]))
      BY <2>3 DEF StoresOf, Pdu
    <3> QED
      BY <2>3, <3>1, <3>2 DEF SettingServed, d, p
  <2>4. CASE /\ atoi(l[4]) \in Bounds
             /\ p = Pdu("setting", <<"UPDATE", "POLL">>, atoi(l[4]))
    <3>1. d = Deed("update", "setting", <<"POLL">>)
      BY <2>1, <2>4 DEF SettingDeed, Pdu
    <3>2. StoresOf(p) = SetPollInterval(atoi(l[4]))
      BY <2>4 DEF StoresOf, Pdu
    <3> QED
      BY <2>4, <3>1, <3>2 DEF SettingServed, d, p
  <2>5. CASE p = Request("setting", <<"RESET", "ALL">>)
    <3>1. d = Deed("reset", "setting", <<"LOG", "POLL">>)
      BY <2>1, <2>5 DEF SettingDeed, Request, Pdu
    <3>2. StoresOf(p) = InitLogger(LOG_WARN) \o SetPollInterval(DefaultInterval)
      BY <2>5 DEF StoresOf, ResetOf, Request, Pdu
    <3> QED
      BY <3>1, <3>2 DEF SettingServed, d, p
  <2>6. ASSUME NEW a \in {"LOG", "POLL"}, p = Request("setting", <<"RESET", "BY_ID", a>>)
        PROVE  SettingServed(l, d, StoresOf(p))
    <3>1. d = Deed("reset", "setting", <<a>>)
      BY <2>1, <2>6 DEF SettingDeed, Request, Pdu
    <3>2. StoresOf(p) = IF a = "LOG" THEN InitLogger(LOG_WARN) ELSE SetPollInterval(DefaultInterval)
      BY <2>6 DEF StoresOf, ResetOf, Request, Pdu
    <3> QED
      BY <3>1, <3>2 DEF SettingServed
  <2> QED
    BY <2>1, <2>2, <2>3, <2>4, <2>5, <2>6, SettingForms DEF d, p
<1> QED
  BY <1>1, <1>2

-----------------------------------------------------------------------------
(* The invariant.                                                          *)

\* Nothing the poll thread calls logs at LOG_WARN, and at the start that flag
\* does not agree with the mode.
Watched == LogModes \ {LOG_WARN}

Settled == \A i \in Watched : i \in flags <=> i \in FlagsOf(mode)

\* What a call of the logger has seen so far of the modes in effect during it.
PollerType == [at : {"asleep", "awake", "logging"}, level : LogModes, debug : BOOLEAN,
               seen : SUBSET LogModes, calm : BOOLEAN]
CallInv(g) ==
  /\ poller \in PollerType
  /\ poller.at = "logging" =>
       /\ poller.level \in PollLevels
       /\ mode \in poller.seen
       /\ g \in poller.seen \/ Settled
       /\ poller.debug => \E m \in poller.seen : LOG_DEBUG \in FlagsOf(m)
       /\ poller.calm => poller.seen = {mode} /\ Settled
                         /\ (LOG_DEBUG \in FlagsOf(mode) => poller.debug)

\* The flags are on their way from those of the mode to those of mode g.
LogInv(g) ==
  /\ mode \in LogModes /\ flags \subseteq LogModes
  /\ Heading(stores, flags, mode, g, Watched)
  /\ \A i \in Watched : i \in flags => i \in FlagsOf(mode) \/ i \in FlagsOf(g)
  /\ CallInv(g)

\* The settings that the deed is about are on their way to what was asked for.
Names(attr) == deed.op \in {"update", "reset"} /\ \E i \in DOMAIN deed.names : deed.names[i] = attr
LogAsked == IF deed.op = "reset" THEN LOG_WARN ELSE ToLogMode(line[4])
PollAsked == IF deed.op = "reset" THEN DefaultInterval ELSE atoi(line[4])
EffectInv ==
  /\ Names("LOG") => Heading(stores, flags, mode, LogAsked, LogModes)
  /\ Names("POLL") => IntervalHeading(stores, interval, PollAsked)

SettingsInv ==
  /\ step = "sent" => line \in Lines /\ pdu = MakeCommandPDU(line)
  /\ step # "serving" => stores = <<>>
  /\ step \in {"serving", "answered"} => EffectInv
  /\ \E g \in LogModes : LogInv(g)

\* The mode to come is the one the stores lead to; when there is none, the
\* flags are already where they should be.
LEMMA ModeToCome ==
  ASSUME NEW g, NEW F, Heading(stores, flags, mode, g, F)
  PROVE  /\ ModesToCome \subseteq {g}
         /\ ModesToCome = {} => mode = g /\ \A i \in F : i \in flags <=> i \in FlagsOf(mode)
<1>1. DOMAIN stores = 1..Len(stores)
  BY LenProperties DEF Heading
<1>2. ModesToCome = {stores[i].level : i \in {j \in 1..Len(stores) : stores[j].name = "mode"}}
  BY <1>1 DEF ModesToCome
<1>3. ModesToCome \subseteq {g}
  BY <1>2 DEF Heading
<1>4. ASSUME ModesToCome = {} PROVE mode = g /\ \A i \in F : i \in flags <=> i \in FlagsOf(mode)
  <2>1. ~\E j \in 1..Len(stores) : stores[j].name = "mode"
    BY <1>2, <1>4
  <2>2. mode = g /\ \A j \in 1..Len(stores) : stores[j].name # "flag"
    BY <2>1 DEF Heading
  <2>3. ASSUME NEW i \in F PROVE i \in flags <=> i \in FlagsOf(mode)
    <3>1. FlagHeading(stores, flags, g, i)
      BY DEF Heading
    <3> QED
      BY <2>2, <3>1 DEF FlagHeading, Decides, FlagStore
  <2> QED
    BY <2>2, <2>3
<1> QED
  BY <1>3, <1>4

\* At LOG_ERROR only errors are logged.
LEMMA FlagsOfError == FlagsOf(LOG_ERROR) = {LOG_ERROR}
<1>1. \E i \in 1..5 : Falling[i] = LOG_ERROR
  BY DEF Falling, LOG_DEBUG, LOG_TRACE, LOG_INFO, LOG_WARN, LOG_ERROR
<1>2. PICK i \in 1..5 : Switched(LOG_ERROR) = SubSeq(Falling, i, 5) /\ Falling[i] = LOG_ERROR
  BY <1>1 DEF Switched
<1>3. i = 5
  BY <1>2 DEF Falling, LOG_DEBUG, LOG_TRACE, LOG_INFO, LOG_WARN, LOG_ERROR
<1>4. \A j \in 5..5 : Falling[j] \in {LOG_ERROR}
  BY <1>2, <1>3
<1>5. /\ Len(SubSeq(Falling, 5, 5)) = 5 - 5 + 1
      /\ \A j \in 1..5 - 5 + 1 : SubSeq(Falling, 5, 5)[j] = Falling[5 + j - 1]
  BY <1>4, SubSeqProperties
<1>6. Len(Switched(LOG_ERROR)) = 1 /\ Switched(LOG_ERROR)[1] = LOG_ERROR
  BY <1>2, <1>3, <1>5
<1>7. LOG_ERROR \in LogModes
  BY DEF LogModes, LOG_DEBUG, LOG_ERROR
<1>8. FlagsOf(LOG_ERROR) = {Switched(LOG_ERROR)[j] : j \in 1..1}
  BY <1>6, <1>7, SwitchedOnce
<1> QED
  BY <1>6, <1>8

LEMMA FlagsAreModes == \A m \in LogModes : FlagsOf(m) \subseteq LogModes
<1> SUFFICES ASSUME NEW m \in LogModes PROVE FlagsOf(m) \subseteq LogModes
  OBVIOUS
<1>1. \A i \in 1..Len(Switched(m)) : Switched(m)[i] \in LogModes
  BY SwitchedOnce, ElementOfSeq
<1>2. FlagsOf(m) = {Switched(m)[i] : i \in 1..Len(Switched(m))}
  BY SwitchedOnce
<1> QED
  BY <1>1, <1>2

LEMMA SettingsInit == Init => SettingsInv
<1> SUFFICES ASSUME Init PROVE SettingsInv
  OBVIOUS
<1>1. PICK f \in SettingFiles :
        /\ mode = IF FileLogs(f) THEN ToLogMode(f.log) ELSE LOG_ERROR
        /\ flags = IF FileLogs(f) THEN FlagsOf(ToLogMode(f.log)) ELSE {LOG_WARN, LOG_ERROR}
  BY DEF Init
<1>2. step = "idle" /\ stores = <<>> /\ poller.at # "logging"
  BY DEF Init, Asleep, Poller
<1>3. mode \in LogModes
  BY <1>1 DEF FileLogs, ToLogMode, LogModes, LOG_INVALID, LOG_DEBUG, LOG_TRACE, LOG_INFO, LOG_WARN, LOG_ERROR
<1>4. \A i \in Watched : i \in flags <=> i \in FlagsOf(mode)
  <2>1. CASE FileLogs(f)
    BY <1>1, <2>1
  <2>2. CASE ~FileLogs(f)
    BY <1>1, <2>2, FlagsOfError DEF Watched
  <2> QED
    BY <2>1, <2>2
<1>5. flags \subseteq LogModes
  <2>1. CASE FileLogs(f)
    BY <1>1, <1>3, <2>1, FlagsAreModes
  <2>2. CASE ~FileLogs(f)
    BY <1>1, <2>2 DEF LogModes, LOG_DEBUG, LOG_WARN, LOG_ERROR
  <2> QED
    BY <2>1, <2>2
<1>6. poller \in PollerType
  BY DEF Init, Asleep, Poller, PollerType, LogModes, LOG_DEBUG, LOG_ERROR
<1>7. LogInv(mode)
  BY <1>2, <1>3, <1>4, <1>5, <1>6, HeadingNowhere DEF LogInv, CallInv
<1> QED
  BY <1>2, <1>3, <1>7 DEF SettingsInv

\* Serving a request: the stores lead from the settings in effect to those asked for.
LEMMA ServeKeeps == SettingsInv /\ Serve => SettingsInv'
<1> SUFFICES ASSUME SettingsInv, Serve PROVE SettingsInv'
  OBVIOUS
<1>1. /\ step = "sent" /\ stores = <<>> /\ line \in Lines /\ pdu = MakeCommandPDU(line)
      /\ UNCHANGED <<line, pdu, interval, mode, flags, poller>>
      /\ step' = "serving" /\ stores' = StoresOf(pdu)
  BY DEF SettingsInv, Serve, settingVars
<1>2. PICK success \in ErrorWhenUnset : deed' = Dispatch(pdu, success)
  BY DEF Serve
<1>3. SettingServed(line, deed', stores')
  BY <1>1, <1>2, SettingsServed
<1>4. PICK g \in LogModes : LogInv(g)
  BY DEF SettingsInv
<1>5. mode = g /\ Settled
  BY <1>1, <1>4, ModeToCome DEF LogInv, ModesToCome, Settled
<1>6. Heading(<<>>, flags, mode, mode, Watched)
  BY <1>1, <1>4, <1>5 DEF LogInv
<1>7. /\ LOG_WARN \in LogModes /\ DefaultInterval \in Int /\ Bounds \subseteq Int
      /\ Watched \subseteq LogModes
  BY DEF LogModes, LOG_DEBUG, LOG_WARN, LOG_ERROR, DefaultInterval, Bounds, MinInterval, MaxInterval, Watched
<1>8. ASSUME NEW m \in LogModes, NEW v \in Int, NEW F
      PROVE  /\ Heading(InitLogger(m), flags, mode, m, LogModes)
             /\ Heading(InitLogger(m) \o SetPollInterval(v), flags, mode, m, LogModes)
             /\ IntervalHeading(SetPollInterval(v), interval, v)
             /\ IntervalHeading(InitLogger(m) \o SetPollInterval(v), interval, v)
  BY HeadingOfInitLogger, HeadingAndInterval, HeadingOfSetPollInterval
<1>9. ASSUME NEW v \in Int PROVE Heading(SetPollInterval(v), flags, mode, mode, Watched)
  <2>1. SetPollInterval(v) \in Seq(StoreType)
    BY DEF SetPollInterval, Store, StoreType
  <2>2. <<>> \o SetPollInterval(v) = SetPollInterval(v)
    BY <2>1, ConcatEmptySeq
  <2> QED
    BY <1>6, <2>2, HeadingAndInterval
<1>10. ASSUME NEW h \in LogModes, Heading(stores', flags, mode, h, LogModes)
                             \/ Heading(stores', flags, mode, h, Watched)
       PROVE  LogInv(h)'
  <2>1. Heading(stores', flags, mode, h, Watched)
    BY <1>7, <1>10 DEF Heading
  <2>2. CallInv(h)'
    BY <1>1, <1>4, <1>5 DEF LogInv, CallInv, Settled
  <2> QED
    BY <1>1, <1>4, <1>5, <2>1, <2>2 DEF LogInv, Settled
<1>11. EffectInv' /\ \E h \in LogModes : LogInv(h)'
  <2> USE DEF EffectInv, Names, LogAsked, PollAsked, Deed
  <2>1. CASE /\ ToLogMode(line[4]) \in LogModes
             /\ deed' = Deed("update", "setting", <<"LOG">>) /\ stores' = InitLogger(ToLogMode(line[4]))
    BY <1>1, <1>8, <1>10, <2>1
  <2>2. CASE /\ atoi(line[4]) \in Bounds
             /\ deed' = Deed("update", "setting", <<"POLL">>) /\ stores' = SetPollInterval(atoi(line[4]))
    <3>1. atoi(line[4]) \in Int
      BY <1>7, <2>2
    <3>2. Heading(stores', flags, mode, g, Watched) /\ IntervalHeading(stores', interval, atoi(line[4]))
      BY <1>5, <1>8, <1>9, <2>2, <3>1
    <3>3. LogInv(g)'
      BY <1>10, <3>2
    <3>4. ~Names("LOG")' /\ PollAsked' = atoi(line[4])
      BY <1>1, <2>2
    <3> QED
      BY <1>1, <3>2, <3>3, <3>4
  <2>3. CASE /\ deed' = Deed("reset", "setting", <<"LOG", "POLL">>)
             /\ stores' = InitLogger(LOG_WARN) \o SetPollInterval(DefaultInterval)
    BY <1>1, <1>7, <1>8, <1>10, <2>3
  <2>4. CASE deed' = Deed("reset", "setting", <<"LOG">>) /\ stores' = InitLogger(LOG_WARN)
    BY <1>1, <1>7, <1>8, <1>10, <2>4
  <2>5. CASE deed' = Deed("reset", "setting", <<"POLL">>) /\ stores' = SetPollInterval(DefaultInterval)
    BY <1>1, <1>4, <1>5, <1>7, <1>8, <1>9, <1>10, <2>5
  <2>6. CASE deed'.op \notin {"update", "reset"} /\ stores' = <<>>
    BY <1>1, <1>4, <1>5, <1>6, <1>10, <2>6
  <2> QED
    BY <1>3, <2>1, <2>2, <2>3, <2>4, <2>5, <2>6 DEF SettingServed
<1> QED
  BY <1>1, <1>11 DEF SettingsInv

\* One store: the flags and the interval come nearer, and a call of the logger
\* learns of the mode to come.
LEMMA StoreKeeps == SettingsInv /\ StoreSetting => SettingsInv'
<1> SUFFICES ASSUME SettingsInv, StoreSetting PROVE SettingsInv'
  OBVIOUS
<1>1. PICK g \in LogModes : LogInv(g)
  BY DEF SettingsInv
<1>2. stores \in Seq(StoreType) /\ stores # <<>> /\ Head(stores) = stores[1]
  BY <1>1, TailOfStores DEF LogInv, Heading, StoreSetting
<1>3. /\ step = "serving" /\ step' = step /\ UNCHANGED <<line, pdu, deed>>
      /\ stores' = Tail(stores)
      /\ flags' = FlagsAfter(stores[1], flags) /\ mode' = ModeAfter(stores[1], mode)
      /\ interval' = IntervalAfter(stores[1], interval)
      /\ poller' = IF poller.at = "logging"
                   THEN [poller EXCEPT !.seen = @ \union ModesToCome, !.calm = @ /\ ModesToCome = {}]
                   ELSE poller
  BY <1>2 DEF StoreSetting, commandVars, FlagsAfter, ModeAfter, IntervalAfter
<1>4. ASSUME NEW h, NEW F, Heading(stores, flags, mode, h, F)
      PROVE  Heading(stores', flags', mode', h, F)
  BY <1>2, <1>3, <1>4, HeadingStep
<1>5. EffectInv'
  <2>1. Names("LOG")' => Heading(stores', flags', mode', LogAsked', LogModes)
    BY <1>3, <1>4 DEF SettingsInv, EffectInv, Names, LogAsked
  <2>2. Names("POLL")' => IntervalHeading(stores', interval', PollAsked')
    BY <1>2, <1>3, IntervalHeadingStep DEF SettingsInv, EffectInv, Names, PollAsked
  <2> QED
    BY <2>1, <2>2 DEF EffectInv
<1>6. Heading(stores', flags', mode', g, Watched)
  BY <1>1, <1>4 DEF LogInv
<1>7. mode' \in {mode, g} /\ (mode' # mode => mode' = g)
  <2>1. 1 \in 1..Len(stores)
    BY <1>2, TailOfStores
  <2> QED
    BY <1>1, <1>3, <2>1 DEF LogInv, Heading, ModeAfter
<1>8. mode' \in LogModes /\ flags' \subseteq LogModes
  <2>1. 1 \in 1..Len(stores)
    BY <1>2, TailOfStores
  <2>2. \A i \in flags' : i \in flags \/ (stores[1].name = "flag" /\ stores[1].value = 1 /\ i = stores[1].level)
    BY <1>3 DEF FlagsAfter
  <2> QED
    BY <1>1, <1>7, <2>1, <2>2, FlagsAreModes DEF LogInv, Heading
<1>9. ASSUME NEW i \in Watched, i \in flags' PROVE i \in FlagsOf(mode') \/ i \in FlagsOf(g)
  <2>1. 1 \in 1..Len(stores)
    BY <1>2, TailOfStores
  <2>2. CASE stores[1].name = "flag"
    <3>1. mode' = mode /\ (i \in flags \/ (i = stores[1].level /\ stores[1].value = 1))
      BY <1>3, <1>9, <2>2 DEF FlagsAfter, ModeAfter
    <3> QED
      BY <1>1, <2>1, <2>2, <3>1 DEF LogInv, Heading
  <2>3. CASE stores[1].name = "mode"
    <3>1. Heading(stores', flags', g, g, Watched) /\ mode' = g
      BY <1>1, <1>3, <1>6, <2>1, <2>3 DEF LogInv, Heading, ModeAfter
    <3>2. NoFlag(stores', i)
      <4>1. ASSUME NEW k \in 1..Len(stores') PROVE stores'[k].name # "flag"
        <5>1. k + 1 \in 1..Len(stores) /\ stores'[k] = stores[k + 1] /\ ~(k + 1 < 1)
          BY <1>2, <1>3, TailOfStores
        <5> QED
          BY <1>1, <2>1, <2>3, <5>1 DEF LogInv, Heading
      <4> QED
        BY <4>1 DEF NoFlag, FlagStore
    <3>3. FlagHeading(stores', flags', g, i)
      BY <3>1 DEF Heading
    <3> QED
      BY <1>9, <3>2, <3>3 DEF FlagHeading, Decides, NoFlag
  <2>4. CASE stores[1].name \notin {"flag", "mode"}
    BY <1>1, <1>3, <1>9, <2>4 DEF LogInv, FlagsAfter, ModeAfter
  <2> QED
    BY <2>2, <2>3, <2>4
<1>10. CallInv(g)'
  <2>1. poller \in PollerType /\ ModesToCome \subseteq LogModes
    BY <1>1, ModeToCome DEF LogInv, CallInv
  <2>2. poller' \in PollerType
    BY <1>3, <2>1 DEF PollerType
  <2> SUFFICES ASSUME poller'.at = "logging" PROVE CallInv(g)'
    BY <2>2 DEF CallInv
  <2>3. /\ poller.at = "logging" /\ poller'.level = poller.level /\ poller'.debug = poller.debug
        /\ poller'.seen = poller.seen \union ModesToCome
        /\ poller'.calm => poller.calm /\ ModesToCome = {}
    BY <1>3, <2>1 DEF PollerType
  <2>4. CASE ModesToCome = {}
    <3>1. mode = g /\ Settled
      BY <1>1, <2>4, ModeToCome DEF LogInv, Settled
    <3>2. mode' = mode
      BY <1>7, <3>1
    <3>3. \A k \in 1..Len(stores') : stores'[k].name \notin {"mode", "flag"}
      <4>1. \A k \in 1..Len(stores) : stores[k].name # "mode"
        <5>1. DOMAIN stores = 1..Len(stores)
          BY <1>2, LenProperties
        <5> QED
          BY <2>4, <5>1 DEF ModesToCome
      <4>2. \A k \in 1..Len(stores) : stores[k].name # "flag"
        BY <1>1, <4>1 DEF LogInv, Heading
      <4> QED
        BY <1>2, <1>3, <4>1, <4>2, TailOfStores
    <3>4. Settled'
      <4>1. ASSUME NEW i \in Watched PROVE i \in flags' <=> i \in FlagsOf(g)
        BY <1>6, <3>3 DEF Heading, FlagHeading, Decides, FlagStore
      <4> QED
        BY <3>1, <3>2, <4>1 DEF Settled
    <3> QED
      BY <1>1, <2>2, <2>3, <2>4, <3>1, <3>2, <3>4 DEF LogInv, CallInv
  <2>5. CASE ModesToCome # {}
    <3>1. g \in ModesToCome
      BY <1>1, <2>5, ModeToCome DEF LogInv
    <3> QED
      BY <1>1, <1>7, <2>2, <2>3, <2>5, <3>1 DEF LogInv, CallInv
  <2> QED
    BY <2>4, <2>5
<1>11. LogInv(g)'
  BY <1>6, <1>8, <1>9, <1>10 DEF LogInv
<1> QED
  BY <1>3, <1>5, <1>11 DEF SettingsInv

LEMMA SettingsStep == SettingsInv /\ [Next]_vars => SettingsInv'
<1> SUFFICES ASSUME SettingsInv, [Next]_vars PROVE SettingsInv'
  OBVIOUS
<1>1. ASSUME NEW l \in Lines, EnterLine(l) PROVE SettingsInv'
  <2>1. /\ step' \in {"sent", "answered"} /\ stores = <<>> /\ UNCHANGED <<stores, settingVars, poller>>
        /\ line' = l /\ pdu' = MakeCommandPDU(l) /\ deed' = NothingDone
    BY <1>1 DEF EnterLine, SettingsInv
  <2>2. EffectInv'
    BY <2>1 DEF EffectInv, Names, NothingDone, Deed
  <2>3. \A g : LogInv(g) => LogInv(g)'
    BY <2>1 DEF LogInv, CallInv, Settled, settingVars
  <2> QED
    BY <2>1, <2>2, <2>3 DEF SettingsInv
<1>2. CASE Serve
  BY <1>2, ServeKeeps
<1>3. CASE StoreSetting
  BY <1>3, StoreKeeps
<1>4. CASE Answer \/ NextCommand
  <2>1. /\ step' \in {"answered", "idle"} /\ stores = <<>> /\ UNCHANGED <<stores, settingVars, poller>>
        /\ step' = "answered" => step = "serving" /\ UNCHANGED <<line, deed>>
    BY <1>4 DEF Answer, NextCommand, SettingsInv
  <2>2. step' = "answered" => EffectInv'
    BY <2>1 DEF SettingsInv, EffectInv, Names, LogAsked, PollAsked, settingVars
  <2>3. \A g : LogInv(g) => LogInv(g)'
    BY <2>1 DEF LogInv, CallInv, Settled, settingVars
  <2> QED
    BY <2>1, <2>2, <2>3 DEF SettingsInv
<1>5. ASSUME PollNext \/ UNCHANGED vars PROVE SettingsInv'
  <2>1. UNCHANGED <<commandVars, stores, settingVars>>
    BY <1>5 DEF PollNext, PollWake, PollSleep, LogLoadsDebug, LogLoadsOwn, vars
  <2>2. ASSUME NEW g \in LogModes, LogInv(g) PROVE LogInv(g)'
    <3>1. CASE poller' \in {poller, Awake, Asleep}
      <4>1. Awake \in PollerType /\ Asleep \in PollerType
        BY DEF Awake, Asleep, Poller, PollerType, LogModes, LOG_DEBUG, LOG_ERROR
      <4>2. Awake.at # "logging" /\ Asleep.at # "logging"
        BY DEF Awake, Asleep, Poller
      <4> QED
        BY <2>1, <2>2, <3>1, <4>1, <4>2 DEF LogInv, CallInv, Settled, settingVars
    <3>2. ASSUME NEW level \in PollLevels, LogLoadsDebug(level) PROVE LogInv(g)'
      <4>1. /\ poller'.at = "logging" /\ poller'.level = level
            /\ poller'.debug = (LOG_DEBUG \in flags)
            /\ poller'.seen = {mode} \union ModesToCome /\ poller'.calm = (ModesToCome = {})
        BY <3>2 DEF LogLoadsDebug, Poller
      <4>2. poller' \in PollerType
        <5>1. ModesToCome \subseteq LogModes /\ mode \in LogModes
          BY <2>2, ModeToCome DEF LogInv
        <5>2. level \in LogModes
          BY DEF PollLevels, LogModes, LOG_DEBUG, LOG_TRACE, LOG_ERROR
        <5> QED
          <6>1. poller' = [at |-> "logging", level |-> level, debug |-> LOG_DEBUG \in flags,
                           seen |-> {mode} \union ModesToCome, calm |-> ModesToCome = {}]
            BY <3>2 DEF LogLoadsDebug, Poller
          <6>2. {mode} \union ModesToCome \in SUBSET LogModes
            BY <5>1
          <6> DEFINE debug == LOG_DEBUG \in flags
                     calm == ModesToCome = {}
          <6>3. debug \in BOOLEAN /\ calm \in BOOLEAN
            OBVIOUS
          <6>4. poller' = [at |-> "logging", level |-> level, debug |-> debug,
                           seen |-> {mode} \union ModesToCome, calm |-> calm]
            BY <6>1
          <6> HIDE DEF debug, calm
          <6> QED
            BY <5>2, <6>2, <6>3, <6>4 DEF PollerType
      <4>3. LOG_DEBUG \in Watched
        BY DEF Watched, LogModes, LOG_DEBUG, LOG_WARN, LOG_ERROR
      <4>4. CASE ModesToCome = {}
        <5>1. mode = g /\ Settled
          BY <2>2, <4>4, ModeToCome DEF LogInv, Settled
        <5> QED
          BY <2>1, <2>2, <4>1, <4>2, <4>3, <4>4, <5>1 DEF LogInv, CallInv, Settled, settingVars
      <4>5. CASE ModesToCome # {}
        <5>1. g \in ModesToCome
          BY <2>2, <4>5, ModeToCome DEF LogInv
        <5> QED
          BY <2>1, <2>2, <4>1, <4>2, <4>3, <4>5, <5>1 DEF LogInv, CallInv, settingVars
      <4> QED
        BY <4>4, <4>5
    <3> QED
      BY <1>5, <3>1, <3>2 DEF PollNext, PollWake, PollSleep, LogLoadsOwn, vars
  <2> QED
    BY <2>1, <2>2 DEF SettingsInv, EffectInv, Names, LogAsked, PollAsked, commandVars, settingVars
<1> QED
  BY <1>1, <1>2, <1>3, <1>4, <1>5 DEF Next, ServerNext

\* For every set of lines and of settings files: an update or a reset that has been
\* answered is in effect, flags and all, and what the poll thread logs while the
\* flags change one by one, some mode in effect during the call would have logged.
THEOREM SettingsReach == Spec => []SettingsInEffect
<1>1. ASSUME SettingsInv PROVE SettingTakesEffect
  <2> SUFFICES ASSUME step = "answered", deed.op \in {"update", "reset"}
               PROVE  /\ Names("LOG") => mode = LogAsked /\ flags = FlagsOf(mode)
                      /\ Names("POLL") => interval = PollAsked
    BY DEF SettingTakesEffect, Names, LogAsked, PollAsked
  <2>1. stores = <<>> /\ EffectInv /\ ModesToCome = {}
    BY <1>1 DEF SettingsInv, ModesToCome
  <2>2. ASSUME Names("LOG") PROVE mode = LogAsked /\ flags = FlagsOf(mode)
    <3>1. mode = LogAsked /\ \A i \in LogModes : i \in flags <=> i \in FlagsOf(mode)
      BY <2>1, <2>2, ModeToCome DEF EffectInv
    <3>2. flags \subseteq LogModes /\ FlagsOf(mode) \subseteq LogModes
      BY <1>1, FlagsAreModes DEF SettingsInv, LogInv
    <3> QED
      BY <3>1, <3>2
  <2>3. ASSUME Names("POLL") PROVE interval = PollAsked
    <3>1. IntervalHeading(stores, interval, PollAsked) /\ 1..Len(stores) = {}
      BY <2>1, <2>3 DEF EffectInv
    <3> QED
      BY <3>1 DEF IntervalHeading
  <2> QED
    BY <2>2, <2>3
<1>2. ASSUME SettingsInv PROVE LogFollowsMode
  <2> SUFFICES ASSUME poller.at = "logging"
               PROVE  /\ Printed => \E m \in poller.seen : Prints(m, poller.level)
                      /\ poller.calm /\ ~Printed => \A m \in poller.seen : ~Prints(m, poller.level)
    BY DEF LogFollowsMode
  <2>1. PICK g \in LogModes : LogInv(g)
    BY <1>2 DEF SettingsInv
  <2>2. poller.level \in Watched
    BY <2>1 DEF LogInv, CallInv, PollLevels, Watched, LogModes, LOG_DEBUG, LOG_TRACE, LOG_WARN, LOG_ERROR
  <2>3. CASE Printed
    <3>1. CASE poller.debug
      BY <2>1, <2>3, <3>1 DEF LogInv, CallInv, Prints
    <3>2. CASE poller.level \in flags
      <4>1. poller.level \in FlagsOf(mode) \/ (g \in poller.seen /\ poller.level \in FlagsOf(g))
        BY <2>1, <2>2, <3>2 DEF LogInv, CallInv, Settled
      <4> QED
        BY <2>1, <2>3, <4>1 DEF LogInv, CallInv, Prints
    <3> QED
      BY <2>3, <3>1, <3>2 DEF Printed
  <2>4. CASE poller.calm /\ ~Printed
    <3>1. poller.seen = {mode} /\ LOG_DEBUG \notin FlagsOf(mode) /\ poller.level \notin FlagsOf(mode)
      BY <2>1, <2>2, <2>4 DEF LogInv, CallInv, Settled, Printed
    <3> QED
      BY <2>4, <3>1 DEF Prints
  <2> QED
    BY <2>3, <2>4
<1> QED
  BY <1>1, <1>2, SettingsInit, SettingsStep, PTL DEF Spec, SettingsInEffect

-----------------------------------------------------------------------------
(* Types.                                                                  *)

PduType == [fc : Commands \union {"INVALID"}, params : Seq(Words), value : Int]

LEMMA WordsTyped ==
  /\ {"ALL", "default", "BY_ID", "BY_PID", "DISPLAY", "RELOAD", "UPDATE", "RESET", "LOG", "POLL"} \subseteq Words
  /\ \A l \in Lines : Len(l) \in Nat /\ \A i \in 1..Len(l) : l[i] \in Words
  /\ <<>> \in Seq(Words)
  /\ \A a \in Words : <<a>> \in Seq(Words)
  /\ \A a, b \in Words : <<a, b>> \in Seq(Words)
  /\ \A a, b, c \in Words : <<a, b, c>> \in Seq(Words)
<1>1. ASSUME NEW l \in Lines, NEW i \in 1..Len(l) PROVE l[i] \in Words
  <2>1. i \in DOMAIN l
    BY LinesType, LenProperties
  <2> QED
    BY <2>1 DEF Words
<1>2. \A l \in Lines : Len(l) \in Nat
  BY LinesType, LenProperties
<1>3. {"ALL", "default", "BY_ID", "BY_PID", "DISPLAY", "RELOAD", "UPDATE", "RESET", "LOG", "POLL"} \subseteq Words
  BY DEF Words
<1>4. ASSUME NEW a \in Words, NEW b \in Words, NEW c \in Words
      PROVE  <<a>> \in Seq(Words) /\ <<a, b>> \in Seq(Words) /\ <<a, b, c>> \in Seq(Words)
  OBVIOUS
<1> QED
  BY <1>1, <1>2, <1>3, <1>4, EmptySeq

LEMMA PduTyped ==
  ASSUME NEW fc \in Commands \union {"INVALID"}, NEW params \in Seq(Words), NEW value \in Int
  PROVE  Pdu(fc, params, value) \in PduType
  BY DEF Pdu, PduType

LEMMA NoValueTyped ==
  ASSUME NEW fc \in Commands \union {"INVALID"}, NEW params \in Seq(Words)
  PROVE  Request(fc, params) \in PduType
  BY DEF Request, Pdu, PduType

LEMMA RequestTyped ==
  ASSUME NEW l \in Lines
  PROVE  MakeCommandPDU(l) \in PduType
<1>1. Len(l) \in Nat /\ \A i \in 1..Len(l) : l[i] \in Words
  BY WordsTyped
<1>2. Refused \in PduType
  BY NoValueTyped, WordsTyped DEF Refused
<1>3. ASSUME l[1] \in ProcessCommands PROVE ProcessRequest(l) \in PduType
  <2>1. l[1] \in Commands \union {"INVALID"}
    BY <1>3 DEF Commands
  <2>2. ASSUME NEW params \in Seq(Words) PROVE Request(l[1], params) \in PduType
    BY <2>1, NoValueTyped
  <2>3. /\ Len(l) = 2 => l[2] \in Words
        /\ Len(l) = 3 => l[3] \in Words
        /\ Len(l) = 4 => l[2] \in Words /\ l[4] \in Words
    BY <1>1
  <2>4. /\ <<"ALL", "default">> \in Seq(Words) /\ <<>> \in Seq(Words)
        /\ Len(l) = 2 => <<"BY_ID", "default", l[2]>> \in Seq(Words)
        /\ Len(l) = 3 => <<"BY_PID", l[3]>> \in Seq(Words) /\ <<"ALL", l[3]>> \in Seq(Words)
        /\ Len(l) = 4 => <<"BY_ID", l[4], l[2]>> \in Seq(Words)
    BY <2>3, WordsTyped
  <2> QED
    BY <1>2, <2>2, <2>4 DEF ProcessRequest
<1>4. ASSUME l[1] \in Commands PROVE DisplayRequest(l) \in PduType
  <2>1. /\ <<"DISPLAY", "ALL">> \in Seq(Words)
        /\ Len(l) = 3 => <<"DISPLAY", "BY_ID", l[3]>> \in Seq(Words)
    BY <1>1, WordsTyped
  <2> QED
    BY <1>2, <1>4, <2>1, NoValueTyped DEF DisplayRequest
<1>5. "config" \in Commands /\ "setting" \in Commands /\ "help" \in Commands
  BY DEF Commands
<1>6. ASSUME l[1] = "config" PROVE ConfigRequest(l) \in PduType
  <2>1. Request("config", <<"RELOAD">>) \in PduType
    BY <1>5, NoValueTyped, WordsTyped
  <2> QED
    BY <1>2, <1>4, <1>5, <1>6, <2>1 DEF ConfigRequest
<1>7. ASSUME l[1] = "setting" PROVE SettingRequest(l) \in PduType
  <2>1. SettingRequest(l) \in {DisplayRequest(l), UpdateRequest(l), ResetRequest(l), Refused}
    BY DEF SettingRequest
  <2>2. UpdateRequest(l) \in PduType
    <3>1. ToLogMode(l[4]) \in Int /\ \A v \in MinInterval..MaxInterval : v \in Int
      BY DEF ToLogMode, LOG_INVALID, LOG_DEBUG, LOG_TRACE, LOG_INFO, LOG_WARN, LOG_ERROR,
             MinInterval, MaxInterval
    <3>2. <<"UPDATE", "LOG">> \in Seq(Words) /\ <<"UPDATE", "POLL">> \in Seq(Words)
      BY WordsTyped
    <3> QED
      BY <1>2, <1>5, <3>1, <3>2, PduTyped DEF UpdateRequest
  <2>3. ResetRequest(l) \in PduType
    <3>1. ParseAttrCode(l[3]) # "INVALID" => ParseAttrCode(l[3]) \in Words
      BY WordsTyped DEF ParseAttrCode
    <3>2. /\ <<"RESET", "ALL">> \in Seq(Words)
          /\ ParseAttrCode(l[3]) # "INVALID" => <<"RESET", "BY_ID", ParseAttrCode(l[3])>> \in Seq(Words)
      BY <3>1, WordsTyped
    <3> QED
      BY <1>2, <1>5, <3>2, NoValueTyped DEF ResetRequest
  <2> QED
    BY <1>2, <1>4, <1>5, <1>7, <2>1, <2>2, <2>3
<1>8. HelpRequest(l) \in PduType
  BY <1>2, <1>5, NoValueTyped, WordsTyped DEF HelpRequest
<1> QED
  BY <1>2, <1>3, <1>6, <1>7, <1>8 DEF MakeCommandPDU

\* What a handler needs of the parameters' number: the client sends enough.
LEMMA ParametersThere ==
  ASSUME NEW l \in Lines
  PROVE  LET p == MakeCommandPDU(l) IN
         /\ p.fc = "stop" /\ Len(p.params) > 0 => Len(p.params) >= 2
         /\ p.fc = "setting" => \/ p.params[1] = "DISPLAY"
                                \/ p.params[1] = "UPDATE" /\ Len(p.params) = 2
                                \/ p.params[1] = "RESET" /\ p.params[2] = "ALL"
                                \/ p.params[1] = "RESET" /\ Len(p.params) = 3
<1> DEFINE p == MakeCommandPDU(l)
<1>1. p.fc = "setting" => \/ p.params[1] = "DISPLAY"
                          \/ p.params[1] = "UPDATE" /\ Len(p.params) = 2
                          \/ p.params[1] = "RESET" /\ p.params[2] = "ALL"
                          \/ p.params[1] = "RESET" /\ Len(p.params) = 3
  <2> SUFFICES ASSUME p.fc = "setting"
               PROVE  \/ p.params[1] = "DISPLAY"
                      \/ p.params[1] = "UPDATE" /\ Len(p.params) = 2
                      \/ p.params[1] = "RESET" /\ p.params[2] = "ALL"
                      \/ p.params[1] = "RESET" /\ Len(p.params) = 3
    OBVIOUS
  <2>1. p = SettingRequest(l)
    BY SettingRequests
  <2> HIDE DEF p
  <2> QED
    BY <2>1, SettingForms DEF Request, Pdu, Refused, NothingToStore
<1>2. ASSUME p.fc = "stop", Len(p.params) > 0 PROVE Len(p.params) >= 2
  <2>1. /\ ConfigRequest(l).fc \in {l[1], "INVALID"}
        /\ SettingRequest(l).fc \in {l[1], "setting", "INVALID"}
        /\ HelpRequest(l).fc \in {"help", "INVALID"} /\ Refused.fc = "INVALID"
    BY DEF ConfigRequest, DisplayRequest, SettingRequest, UpdateRequest, ResetRequest, HelpRequest,
           Refused, Request, Pdu
  <2>2. p = ProcessRequest(l)
    BY <1>2, <2>1 DEF MakeCommandPDU
  <2> QED
    BY <1>2, <2>2 DEF ProcessRequest, Refused, Request, Pdu
<1> QED
  BY <1>1, <1>2

LEMMA DeedIs ==
  ASSUME NEW op \in ProcessCommands \union {"none", "display", "reload", "update", "reset"},
         NEW scope \in {"none", "group", "one", "pid", "config", "setting"}, NEW names \in Seq(Words)
  PROVE  Deed(op, scope, names) \in Deeds
  BY DEF Deed, Deeds

LEMMA DeedTyped ==
  ASSUME NEW l \in Lines, NEW success \in ErrorWhenUnset
  PROVE  Dispatch(MakeCommandPDU(l), success) \in Deeds
<1> DEFINE p == MakeCommandPDU(l)
<1>1. p \in PduType
  BY RequestTyped
<1>2. /\ p.fc = "stop" /\ Len(p.params) > 0 => Len(p.params) >= 2
      /\ p.fc = "setting" => \/ p.params[1] = "DISPLAY"
                             \/ p.params[1] = "UPDATE" /\ Len(p.params) = 2
                             \/ p.params[1] = "RESET" /\ p.params[2] = "ALL"
                             \/ p.params[1] = "RESET" /\ Len(p.params) = 3
  BY ParametersThere
<1> HIDE DEF p
<1>3. p.params \in Seq(Words) /\ p.fc \in Commands \union {"INVALID"}
  BY <1>1 DEF PduType
<1>4. Len(p.params) \in Nat /\ \A i \in 1..Len(p.params) : p.params[i] \in Words
  BY <1>3, LenProperties, ElementOfSeq
<1>5. NothingDone \in Deeds
  BY DeedIs, WordsTyped DEF NothingDone
<1>6. "stop" \in ProcessCommands
  BY DEF ProcessCommands
<1>7. ASSUME p.fc \in ProcessCommands PROVE ProcessDeed(p, success) \in Deeds
  <2>1. /\ Len(p.params) >= 2 => <<p.params[2]>> \in Seq(Words)
        /\ Len(p.params) = 3 => <<p.params[2], p.params[3]>> \in Seq(Words)
    BY <1>4, WordsTyped
  <2>2. /\ Len(p.params) >= 2 => Deed(p.fc, "group", <<p.params[2]>>) \in Deeds
        /\ Len(p.params) = 3 => Deed(p.fc, "one", <<p.params[2], p.params[3]>>) \in Deeds
        /\ Len(p.params) >= 2 => Deed("stop", "pid", <<p.params[2]>>) \in Deeds
    BY <1>6, <1>7, <2>1, DeedIs
  <2>3. Len(p.params) = 2 => Len(p.params) >= 2
    OBVIOUS
  <2> QED
    BY <1>2, <1>5, <2>2, <2>3 DEF ProcessDeed
<1>8. ConfigDeed(p, success) \in Deeds
  <2>1. <<>> \in Seq(Words) /\ (Len(p.params) = 3 => <<p.params[3]>> \in Seq(Words))
    BY <1>4, WordsTyped
  <2> QED
    BY <1>5, <2>1, DeedIs DEF ConfigDeed
<1>9. ASSUME p.fc = "setting" PROVE SettingDeed(p) \in Deeds
  <2>1. /\ <<>> \in Seq(Words) /\ <<"LOG", "POLL">> \in Seq(Words)
        /\ Len(p.params) = 2 => <<p.params[2]>> \in Seq(Words)
        /\ Len(p.params) = 3 => <<p.params[3]>> \in Seq(Words)
    BY <1>4, WordsTyped
  <2> QED
    BY <1>2, <1>5, <1>9, <2>1, DeedIs DEF SettingDeed
<1>10. Dispatch(p, success) \in Deeds
  BY <1>5, <1>7, <1>8, <1>9 DEF Dispatch
<1> QED
  BY <1>10 DEF p

CommandTyped ==
  /\ line \in Lines \union {<<>>}
  /\ pdu \in PduType /\ deed \in Deeds
  /\ step \in {"idle", "sent", "serving", "answered"}
  /\ step = "idle" => line = <<>> /\ pdu = Refused

LEMMA CommandTypedInit == Init => CommandTyped
<1>1. Refused \in PduType /\ NothingDone \in Deeds
  BY NoValueTyped, DeedIs, WordsTyped DEF Refused, NothingDone
<1> QED
  BY <1>1 DEF Init, CommandTyped

LEMMA CommandTypedStep == CommandTyped /\ SettingsInv /\ [Next]_vars => CommandTyped'
<1> SUFFICES ASSUME CommandTyped, SettingsInv, [Next]_vars PROVE CommandTyped'
  OBVIOUS
<1> USE DEF CommandTyped
<1>1. Refused \in PduType /\ NothingDone \in Deeds
  BY NoValueTyped, DeedIs, WordsTyped DEF Refused, NothingDone
<1>2. ASSUME NEW l \in Lines, EnterLine(l) PROVE CommandTyped'
  BY <1>1, <1>2, RequestTyped DEF EnterLine
<1>3. CASE Serve
  <2>1. PICK success \in ErrorWhenUnset : deed' = Dispatch(pdu, success)
    BY <1>3 DEF Serve
  <2>2. deed' \in Deeds
    BY <1>3, <2>1, DeedTyped DEF Serve, SettingsInv
  <2> QED
    BY <1>3, <2>2 DEF Serve
<1>4. CASE StoreSetting \/ Answer \/ PollNext \/ UNCHANGED vars
  <2>1. UNCHANGED <<line, deed, pdu>> /\ (step' = step \/ step' = "answered")
    BY <1>4 DEF StoreSetting, Answer, PollNext, PollWake, PollSleep, LogLoadsDebug, LogLoadsOwn,
                vars, commandVars
  <2> QED
    BY <2>1
<1>5. CASE NextCommand
  BY <1>1, <1>5 DEF NextCommand
<1> QED
  BY <1>2, <1>3, <1>4, <1>5 DEF Next, ServerNext

\* For every set of lines and of settings files: the settings and what a command
\* leaves on its way through client and server are of their types.
THEOREM TypeCorrect == Spec => []TypeOK
<1>1. ASSUME CommandTyped, SettingsInv, IntervalInv PROVE TypeOK
  <2>1. PICK g \in LogModes : LogInv(g)
    BY <1>1 DEF SettingsInv
  <2>2. interval \in Int /\ nap \in Int
    <3>1. \A v \in Bounds : v \in Int
      BY DEF Bounds, MinInterval, MaxInterval
    <3> QED
      BY <1>1, <3>1 DEF IntervalInv
  <2>3. stores \in Seq([name : {"flag", "mode", "interval"}, level : Int, value : Int])
    BY <2>1 DEF LogInv, Heading, StoreType
  <2>4. mode \in LogModes /\ flags \subseteq LogModes /\ poller \in PollerType
    BY <2>1 DEF LogInv, CallInv
  <2>5. step = "idle" => line = <<>> /\ pdu = Refused /\ stores = <<>>
    BY <1>1 DEF CommandTyped, SettingsInv
  <2> QED
    BY <1>1, <2>2, <2>3, <2>4, <2>5 DEF TypeOK, CommandTyped, PduType, Deeds, PollerType
<1> QED
  BY <1>1, CommandTypedInit, CommandTypedStep, SettingsInit, SettingsStep, IntervalInit, IntervalStep, PTL DEF Spec
=============================================================================
