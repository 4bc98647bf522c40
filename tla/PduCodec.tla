------------------------------ MODULE PduCodec ------------------------------
(***************************************************************************)
(* How a message is put into bytes and taken out of them: PDU::makePDU and *)
(* PDU::FillPDU (common/PDU.cpp) and what SysVar (common/sys_variant.cpp)  *)
(* keeps of a parameter.                                                   *)
(*                                                                         *)
(* makePDU writes into a buffer of BufLen bytes: two for the length, the   *)
(* function code, the number of parameters, and for each parameter two     *)
(* bytes of size, the type and the data.  Whether there is room is tested  *)
(* before a parameter is written and told after the last one: nothing      *)
(* stops a parameter that goes beyond the end.                             *)
(***************************************************************************)
EXTENDS Integers, Sequences

CONSTANTS
  ByteBase,  \* the values of a byte are 0..ByteBase - 1; a char is signed
  BufLen,    \* MAX_PDU_BUFFER_LENGTH
  Pdus       \* the messages that are sent

SysVarType == [EMPTY |-> 0, CHAR |-> 1, SHORT |-> 2, INT |-> 3, FLOAT |-> 4, DOUBLE |-> 5,
               STRING |-> 6, USTRING |-> 7, VOID |-> 8]
Numbers == {"CHAR", "SHORT", "INT", "FLOAT", "DOUBLE"}
Byte == 0 .. ByteBase - 1

\* A SysVar as its constructors leave it: size is its _size, mem the bytes it has, the
\* lowest address first; a string's with the zero that ends it.
SysVar ==
  {v \in [type : DOMAIN SysVarType, size : Nat, mem : Seq(Byte)] :
     IF v.type = "STRING"
     THEN Len(v.mem) = v.size + 1 /\ \A i \in 1 .. v.size + 1 : (v.mem[i] = 0 <=> i = v.size + 1)
     ELSE Len(v.mem) = v.size}
Pdu == [fc : Byte, params : Seq(SysVar)]

ASSUME CodecAssumption ==
  /\ ByteBase \in Nat /\ ByteBase >= 16
  /\ BufLen \in Nat /\ 2 * BufLen <= ByteBase * ByteBase
  /\ Pdus \subseteq Pdu

VARIABLES
  coding,   \* "idle", "write", "sent", "unsent", "read", "done"
  pdu,      \* the message
  buf,      \* what makePDU has written: its length is _len
  beyond,   \* one more than the highest index that has been written
  fault,    \* makePDU has complained of an overflow
  next,     \* the parameter to be written, or read
  at,       \* where in what has been received it begins
  got       \* the parameters FillPDU has found

codecVars == <<coding, pdu, buf, beyond, fault, next, at, got>>
readVarsOfCodec == <<at, got>>

CodecInit ==
  /\ coding = "idle" /\ pdu = [fc |-> 0, params |-> <<>>]
  /\ buf = <<>> /\ beyond = 0 /\ fault = FALSE
  /\ next = 1 /\ at = 0 /\ got = <<>>

-----------------------------------------------------------------------------
(* SysVar.                                                                 *)

Backwards(s) == [i \in 1 .. Len(s) |-> s[Len(s) + 1 - i]]

\* The bytes of a C string before its zero.
Chars(mem) ==
  SubSeq(mem, 1, (CHOOSE i \in 1 .. Len(mem) : mem[i] = 0 /\ \A j \in 1 .. i - 1 : mem[j] # 0) - 1)

StringVar(s) == [type |-> "STRING", size |-> Len(s), mem |-> s \o <<0>>]
NumberVar(t, bytes) == [type |-> t, size |-> Len(bytes), mem |-> bytes]

\* The copy that goes into the vector of parameters: of a string, up to its zero.
CopyVar(v) == IF v.type = "STRING" THEN [v EXCEPT !.mem = Chars(v.mem) \o <<0>>] ELSE v

\* What GetParameter makes of a type and its data.  set_size counts the zero of a
\* string, and leaves the size of a number at 0.
Received(code, data) ==
  IF code = SysVarType["STRING"]
  THEN [type |-> "STRING", size |-> Len(data) + 1, mem |-> data \o <<0>>]
  ELSE IF code = SysVarType["USTRING"]
  THEN [type |-> "USTRING", size |-> Len(data), mem |-> data]
  ELSE IF \E t \in Numbers : SysVarType[t] = code
  THEN [type |-> CHOOSE t \in Numbers : SysVarType[t] = code, size |-> 0, mem |-> Backwards(data)]
  ELSE [type |-> "EMPTY", size |-> 0, mem |-> <<>>]

-----------------------------------------------------------------------------
(* makePDU.                                                                *)

BeginMake(p) ==
  /\ coding = "idle"
  /\ pdu' = [p EXCEPT !.params = [i \in DOMAIN p.params |-> CopyVar(p.params[i])]]
  /\ buf' = <<0, 0, p.fc, Len(p.params) % ByteBase>>
  /\ beyond' = 4
  /\ coding' = "write"
  /\ UNCHANGED <<fault, next, readVarsOfCodec>>

High(n) == (n \div ByteBase) % ByteBase
Low(n) == n % ByteBase

\* A number has its high byte first.
Data(v) == IF v.type \in {"STRING", "USTRING"} THEN SubSeq(v.mem, 1, v.size)
           ELSE Backwards(SubSeq(v.mem, 1, v.size))

\* Mutant of Encoded: the size a string has with its zero.
EncodedWithZero(v) ==
  <<High(v.size), Low(v.size) + (IF v.type = "STRING" THEN 1 ELSE 0), SysVarType[v.type]>> \o Data(v)

Encoded(v) == <<High(v.size), Low(v.size), SysVarType[v.type]>> \o Data(v)

MayWrite == next <= Len(pdu.params) /\ Len(buf) < BufLen

\* A string's data are followed by a zero, which the next parameter overwrites.  Of
\* a parameter without data nothing is sent at all.
WriteParam ==
  /\ coding = "write" /\ MayWrite
  /\ LET v == pdu.params[next]
     IN  IF v.type \in {"EMPTY", "VOID"}
         THEN coding' = "unsent" /\ UNCHANGED <<buf, beyond, next>>
         ELSE /\ buf' = buf \o Encoded(v)
              /\ beyond' = Len(buf') + (IF v.type = "STRING" THEN 1 ELSE 0)
              /\ next' = next + 1
              /\ UNCHANGED coding
  /\ UNCHANGED <<pdu, fault, readVarsOfCodec>>

\* Mutant of EndMake: a buffer that is exactly full is taken for good.
EndMakeWhenFull ==
  /\ coding = "write" /\ ~MayWrite
  /\ fault' = (BufLen < Len(buf))
  /\ buf' = [buf EXCEPT ![1] = High(Len(buf) - 2), ![2] = Low(Len(buf) - 2)]
  /\ coding' = "sent"
  /\ UNCHANGED <<pdu, beyond, next, readVarsOfCodec>>

\* The complaint, and the length at the head.
EndMake ==
  /\ coding = "write" /\ ~MayWrite
  /\ fault' = (BufLen <= Len(buf))
  /\ buf' = [buf EXCEPT ![1] = High(Len(buf) - 2), ![2] = Low(Len(buf) - 2)]
  /\ coding' = "sent"
  /\ UNCHANGED <<pdu, beyond, next, readVarsOfCodec>>

-----------------------------------------------------------------------------
(* Receive, and FillPDU at the other end.                                  *)

\* What Receive leaves in a buffer that it has set to zeros.
Body == SubSeq(buf, 3, 2 + buf[1] * ByteBase + buf[2])
ByteAt(i) == IF i < Len(Body) THEN Body[i + 1] ELSE 0

\* The number of parameters is read as a signed char.
ParamCount == IF 2 * ByteAt(1) < ByteBase THEN ByteAt(1) ELSE ByteAt(1) - ByteBase

\* After a write beyond the buffer there is no telling what comes.
BeginFill ==
  /\ coding = "sent" /\ ~fault
  /\ coding' = "read" /\ next' = 1 /\ at' = 2
  /\ UNCHANGED <<pdu, buf, beyond, fault, got>>

\* GetParameter walks to its parameter from the first one; at is where it arrives.
ReadParam ==
  /\ coding = "read" /\ next <= ParamCount
  /\ LET len == ByteAt(at) * ByteBase + ByteAt(at + 1)
         data == [i \in 1 .. len |-> ByteAt(at + 2 + i)]
     IN  /\ got' = Append(got, Received(ByteAt(at + 2), data))
         /\ at' = at + 3 + len
  /\ next' = next + 1
  /\ UNCHANGED <<coding, pdu, buf, beyond, fault>>

EndFill ==
  /\ coding = "read" /\ next > ParamCount
  /\ coding' = "done"
  /\ UNCHANGED <<pdu, buf, beyond, fault, next, readVarsOfCodec>>

CodecNext == (\E p \in Pdus : BeginMake(p)) \/ WriteParam \/ EndMake
             \/ BeginFill \/ ReadParam \/ EndFill

CodecSpec == CodecInit /\ [][CodecNext]_codecVars

-----------------------------------------------------------------------------
(* Properties.                                                             *)

\* The overflow of the buffer is noticed after the fact, but it is always noticed:
\* a message makePDU does not complain of has not been written beyond the buffer,
\* the zero behind its last string included.
OverflowReported == coding = "sent" /\ ~fault => beyond <= BufLen

Same(sent, received) ==
  /\ received.type = sent.type
  /\ IF sent.type = "STRING" THEN Chars(received.mem) = Chars(sent.mem)
     ELSE received.mem = sent.mem

\* What FillPDU finds is what was given to makePDU: every parameter in its place,
\* with its type and value, and nothing left over behind the last one.  A message
\* has fewer parameters than a signed char can count.
RoundTrip ==
  coding = "done" /\ 2 * Len(pdu.params) < ByteBase =>
    /\ at = Len(Body)
    /\ Len(got) = Len(pdu.params)
    /\ \A i \in DOMAIN got : Same(pdu.params[i], got[i])

\* A message either arrives as it was given, or its sender is told that it does not fit;
\* it is never cut or changed in silence (makePDU, FillPDU).
CodecHonest == OverflowReported /\ RoundTrip
=============================================================================
