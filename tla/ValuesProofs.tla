---------------------------- MODULE ValuesProofs ----------------------------
(***************************************************************************)
(* The values of a message's parameters: how they are written and read     *)
(* (PduCodec), for every set of messages and every size of the buffer, and *)
(* how they are computed with (Variant), for all widths of the types.  The *)
(* numbers in the attributes of a configuration file (XmlNumbers), for     *)
(* every width of a word and every numeral.                                *)
(*                                                                         *)
(* The codec's invariant says where each parameter lies in the buffer      *)
(* (Laid), first while makePDU writes them and then while FillPDU goes over *)
(* them.  The operators' says that the value is the exact number while the *)
(* operands were within reach; ranges are powers of two, whose arithmetic  *)
(* comes from counting subsets.  What a numeral is read as is computed by  *)
(* recursion, once exactly and once modulo the range: the two functions    *)
(* are shown to exist (Recursion), to agree as long as the exact one fits  *)
(* (WrappedFits), and to differ in a way the code's test sees              *)
(* (HexadecimalSizes, DecimalSizes).                                       *)
(***************************************************************************)
EXTENDS PduCodec, Variant, XmlNumbers, SequenceTheorems, FiniteSetTheorems, TLAPS

\* Two sequences, one behind the other.
LEMMA Joined ==
  ASSUME NEW S, NEW u \in Seq(S), NEW v \in Seq(S)
  PROVE  /\ u \o v \in Seq(S) /\ Len(u \o v) = Len(u) + Len(v)
         /\ \A i \in 1 .. Len(u) : (u \o v)[i] = u[i]
         /\ \A i \in 1 .. Len(v) : (u \o v)[Len(u) + i] = v[i]
<1> DEFINE w == u \o v
<1>1. /\ w \in Seq(S) /\ Len(w) = Len(u) + Len(v)
      /\ \A i \in 1 .. Len(u) + Len(v) : w[i] = IF i <= Len(u) THEN u[i] ELSE v[i - Len(u)]
  BY ConcatProperties
<1>2. Len(u) \in Nat /\ Len(v) \in Nat
  OBVIOUS
<1>h. HIDE DEF w
<1>3. \A i \in 1 .. Len(u) : w[i] = u[i]
  BY <1>1, <1>2
<1>4. ASSUME NEW i \in 1 .. Len(v) PROVE w[Len(u) + i] = v[i]
  <2>1. /\ Len(u) + i \in 1 .. Len(u) + Len(v) /\ ~(Len(u) + i <= Len(u))
        /\ (Len(u) + i) - Len(u) = i
    BY <1>2
  <2> QED BY <1>1, <2>1
<1>5. w \in Seq(S) /\ Len(w) = Len(u) + Len(v)
  BY <1>1
<1> QED BY <1>3, <1>4, <1>5 DEF w

-----------------------------------------------------------------------------
(* Parameters.                                                              *)

SysVars == [type : DOMAIN SysVarType, size : Nat, mem : Seq(Byte)]

\* What the constructors of SysVar leave in one.
LEMMA SysVarIs ==
  ASSUME NEW v \in SysVar
  PROVE  /\ v \in SysVars
         /\ v.type \in DOMAIN SysVarType /\ v.size \in Nat /\ v.mem \in Seq(Byte)
         /\ v.type = "STRING" =>
              /\ Len(v.mem) = v.size + 1
              /\ \A i \in 1 .. v.size + 1 : (v.mem[i] = 0 <=> i = v.size + 1)
         /\ v.type # "STRING" => Len(v.mem) = v.size
BY DEF SysVar, SysVars

\* Each type that is written has a code of its own, which fits a byte.
LEMMA TypeCodes ==
  ASSUME NEW t \in DOMAIN SysVarType, t \notin {"EMPTY", "VOID"}
  PROVE  /\ SysVarType[t] \in Byte
         /\ t \in Numbers \/ t = "STRING" \/ t = "USTRING"
         /\ SysVarType[t] = SysVarType["STRING"] <=> t = "STRING"
         /\ SysVarType[t] = SysVarType["USTRING"] <=> t = "USTRING"
         /\ t \in Numbers => \A s \in Numbers : (SysVarType[s] = SysVarType[t] <=> s = t)
BY CodecAssumption DEF SysVarType, Numbers, Byte

\* The bytes before the first zero, which is the last byte.
LEMMA CharsOf ==
  ASSUME NEW m \in Seq(Byte), NEW n \in Nat, Len(m) = n + 1,
         \A i \in 1 .. n + 1 : (m[i] = 0 <=> i = n + 1)
  PROVE  Chars(m) = SubSeq(m, 1, n)
<1> DEFINE P(i) == i \in 1 .. Len(m) /\ m[i] = 0 /\ \A j \in 1 .. i - 1 : m[j] # 0
<1>1. P(n + 1)
  OBVIOUS
<1>2. \A i : P(i) => i = n + 1
  OBVIOUS
<1>3. (CHOOSE i \in 1 .. Len(m) : m[i] = 0 /\ \A j \in 1 .. i - 1 : m[j] # 0) = n + 1
  BY <1>1, <1>2
<1>4. (n + 1) - 1 = n
  OBVIOUS
<1> QED BY <1>3, <1>4 DEF Chars

\* A prefix of a sequence, element by element.
LEMMA Prefix ==
  ASSUME NEW S, NEW m \in Seq(S), NEW n \in 0 .. Len(m)
  PROVE  /\ SubSeq(m, 1, n) \in Seq(S) /\ Len(SubSeq(m, 1, n)) = n
         /\ \A i \in 1 .. n : SubSeq(m, 1, n)[i] = m[i]
<1> DEFINE x == SubSeq(m, 1, n)
<1>1. Len(m) \in Nat /\ n \in Int /\ 1 \in Int /\ \A i \in 1 .. n : m[i] \in S
  BY ElementOfSeq
<1>2. /\ x \in Seq(S) /\ Len(x) = IF 1 <= n THEN n - 1 + 1 ELSE 0
      /\ \A i \in 1 .. n - 1 + 1 : x[i] = m[1 + i - 1]
  BY <1>1, SubSeqProperties
<1>h. HIDE DEF x
<1>3. Len(x) = n
  BY <1>1, <1>2
<1>4. ASSUME NEW i \in 1 .. n PROVE x[i] = m[i]
  <2>1. i \in 1 .. n - 1 + 1 /\ 1 + i - 1 = i
    BY <1>1
  <2> QED BY <1>2, <2>1
<1> QED BY <1>2, <1>3, <1>4 DEF x

\* The copy of a parameter is the parameter.
LEMMA CopyIsSame ==
  ASSUME NEW v \in SysVar
  PROVE  CopyVar(v) = v
<1>1. CASE v.type = "STRING"
  <2> DEFINE m == v.mem
             n == v.size
             x == SubSeq(m, 1, n)
  <2>1. /\ m \in Seq(Byte) /\ n \in Nat /\ Len(m) = n + 1
        /\ \A i \in 1 .. n + 1 : (m[i] = 0 <=> i = n + 1)
    BY <1>1, SysVarIs
  <2>2. v \in SysVars
    BY SysVarIs
  <2>h. HIDE DEF m, n
  <2>3. Chars(m) = x
    BY <2>1, CharsOf
  <2>4. x \in Seq(Byte) /\ Len(x) = n /\ \A i \in 1 .. n : x[i] = m[i]
    <3>1. m \in Seq(Byte) /\ n \in 0 .. Len(m)
      BY <2>1
    <3> QED BY ONLY <3>1, Prefix
  <2>5. <<0>> \in Seq(Byte) /\ Len(<<0>>) = 1 /\ <<0>>[1] = 0
    BY CodecAssumption DEF Byte
  <2> DEFINE z == <<0>>
             y == x \o z
  <2>6. z \in Seq(Byte) /\ Len(z) = 1 /\ z[1] = 0
    BY <2>5
  <2> HIDE DEF x, z
  <2>7. /\ y \in Seq(Byte) /\ Len(y) = Len(x) + Len(z)
        /\ \A i \in 1 .. Len(x) : y[i] = x[i]
        /\ \A i \in 1 .. Len(z) : y[Len(x) + i] = z[i]
    <3>1. x \in Seq(Byte) /\ z \in Seq(Byte)
      BY <2>4, <2>6
    <3> QED BY ONLY <3>1, Joined
  <2> HIDE DEF y
  <2>8. y = m
    <3>1. Len(y) = Len(m)
      BY <2>1, <2>4, <2>6, <2>7
    <3>2. ASSUME NEW i \in 1 .. Len(y) PROVE y[i] = m[i]
      <4>1. CASE i <= n
        BY <2>1, <2>4, <2>7, <4>1
      <4>2. CASE i = n + 1
        <5>1. 1 \in 1 .. Len(z) /\ Len(x) + 1 = i /\ m[i] = 0
          BY <2>1, <2>4, <2>6, <4>2
        <5> QED BY <2>6, <2>7, <5>1
      <4> QED BY <2>1, <2>4, <2>6, <2>7, <4>1, <4>2
    <3>3. y \in Seq(Byte) /\ m \in Seq(Byte)
      BY <2>1, <2>7
    <3> QED BY ONLY <3>1, <3>2, <3>3, SeqEqual
  <2>9. Chars(v.mem) \o <<0>> = v.mem
    BY <2>3, <2>8 DEF y, z, m
  <2>10. CopyVar(v) = [v EXCEPT !.mem = v.mem]
    BY <1>1, <2>9 DEF CopyVar
  <2> QED BY <2>2, <2>10 DEF SysVars
<1>2. CASE v.type # "STRING"
  BY <1>2 DEF CopyVar
<1> QED BY <1>1, <1>2

\* A reversed sequence, position by position.
LEMMA BackwardsIs ==
  ASSUME NEW s \in Seq(Byte)
  PROVE  /\ Backwards(s) \in Seq(Byte) /\ Len(Backwards(s)) = Len(s)
         /\ \A i \in 1 .. Len(s) : Backwards(s)[i] = s[Len(s) + 1 - i]
<1> DEFINE n == Len(s)
           f == [i \in 1 .. n |-> s[n + 1 - i]]
<1>1. n \in Nat /\ \A i \in 1 .. n : n + 1 - i \in 1 .. n
  OBVIOUS
<1>2. \A i \in 1 .. n : s[n + 1 - i] \in Byte
  BY <1>1, ElementOfSeq
<1>h. HIDE DEF n
<1>3. f \in Seq(Byte) /\ Len(f) = n
  BY <1>1, <1>2
<1>4. f = Backwards(s)
  BY DEF Backwards, n
<1>5. \A i \in 1 .. n : f[i] = s[n + 1 - i]
  OBVIOUS
<1>h2. HIDE DEF f
<1> QED BY <1>3, <1>4, <1>5 DEF n

\* A number's bytes are reversed when they are written and again when they are read.
LEMMA BackwardsTwice ==
  ASSUME NEW s \in Seq(Byte)
  PROVE  Backwards(Backwards(s)) = s
<1> DEFINE b == Backwards(s)
           c == Backwards(b)
<1>1. /\ b \in Seq(Byte) /\ Len(b) = Len(s)
      /\ \A i \in 1 .. Len(s) : b[i] = s[Len(s) + 1 - i]
  BY BackwardsIs
<1>h. HIDE DEF b
<1>2. /\ c \in Seq(Byte) /\ Len(c) = Len(b)
      /\ \A i \in 1 .. Len(b) : c[i] = b[Len(b) + 1 - i]
  <2>1. b \in Seq(Byte)
    BY <1>1
  <2> QED BY <2>1, BackwardsIs
<1>h2. HIDE DEF c
<1>3. ASSUME NEW i \in 1 .. Len(c) PROVE c[i] = s[i]
  <2>1. /\ Len(s) \in Nat /\ i \in 1 .. Len(b) /\ Len(b) + 1 - i \in 1 .. Len(s)
        /\ Len(s) + 1 - (Len(b) + 1 - i) = i
    BY <1>1, <1>2
  <2>2. c[i] = b[Len(b) + 1 - i] /\ b[Len(b) + 1 - i] = s[Len(s) + 1 - (Len(b) + 1 - i)]
    BY <1>1, <1>2, <2>1
  <2> QED BY <2>1, <2>2
<1>4. Len(c) = Len(s) /\ c \in Seq(Byte)
  BY <1>1, <1>2
<1>5. c = s
  BY ONLY <1>3, <1>4, s \in Seq(Byte), SeqEqual
<1> QED BY <1>5 DEF c, b

\* What of a parameter is sent, and what is made of it at the other end.
LEMMA DataIs ==
  ASSUME NEW v \in SysVar
  PROVE  /\ Data(v) \in Seq(Byte) /\ Len(Data(v)) = v.size
         /\ v.type \notin {"EMPTY", "VOID"} => Same(v, Received(SysVarType[v.type], Data(v)))
<1> DEFINE m == v.mem
           n == v.size
           x == SubSeq(m, 1, n)
           d == Data(v)
<1>1. /\ v.type \in DOMAIN SysVarType /\ m \in Seq(Byte) /\ n \in Nat
      /\ v.type = "STRING" =>
           Len(m) = n + 1 /\ \A i \in 1 .. n + 1 : (m[i] = 0 <=> i = n + 1)
      /\ v.type # "STRING" => Len(m) = n
  BY SysVarIs
<1>h. HIDE DEF m, n
<1>2. x \in Seq(Byte) /\ Len(x) = n /\ \A i \in 1 .. n : x[i] = m[i]
  <2>1. m \in Seq(Byte) /\ n \in 0 .. Len(m)
    BY <1>1
  <2> QED BY ONLY <2>1, Prefix
<1>3. v.type # "STRING" => x = m
  BY <1>1, SubSeqFull
<1>4. d = IF v.type \in {"STRING", "USTRING"} THEN x ELSE Backwards(x)
  BY DEF Data, m, n
<1>h2. HIDE DEF x, d
<1>5. d \in Seq(Byte) /\ Len(d) = n
  BY <1>2, <1>4, BackwardsIs
<1>6. ASSUME v.type \notin {"EMPTY", "VOID"} PROVE Same(v, Received(SysVarType[v.type], d))
  <2> DEFINE r == Received(SysVarType[v.type], d)
  <2>1. CASE v.type = "STRING"
    <3>1. r = [type |-> "STRING", size |-> Len(d) + 1, mem |-> d \o <<0>>]
      BY <2>1 DEF Received
    <3>2. Chars(m) \o <<0>> = m
      <4>1. CopyVar(v) = v
        BY CopyIsSame
      <4>2. CopyVar(v).mem = Chars(m) \o <<0>>
        BY <2>1, SysVarIs DEF CopyVar, SysVars, m
      <4> QED BY <4>1, <4>2 DEF m
    <3>3. Chars(m) = x
      BY <1>1, <2>1, CharsOf DEF x
    <3>4. r.mem = m /\ r.type = "STRING"
      BY <1>4, <2>1, <3>1, <3>2, <3>3
    <3> QED BY <2>1, <3>4 DEF Same, m
  <2>2. CASE v.type = "USTRING"
    <3>1. r = [type |-> "USTRING", size |-> Len(d), mem |-> d]
      BY <2>2 DEF Received, SysVarType
    <3> QED BY <1>3, <1>4, <2>2, <3>1 DEF Same, m
  <2>3. CASE v.type \in Numbers
    <3> DEFINE code == SysVarType[v.type]
    <3>1. /\ code # SysVarType["STRING"] /\ code # SysVarType["USTRING"]
          /\ \A s \in Numbers : (SysVarType[s] = code <=> s = v.type)
          /\ v.type \notin {"STRING", "USTRING"}
      BY <1>1, <1>6, <2>3, TypeCodes DEF Numbers
    <3>h. HIDE DEF code
    <3>2. (CHOOSE t \in Numbers : SysVarType[t] = code) = v.type
      BY <2>3, <3>1
    <3>3. \E t \in Numbers : SysVarType[t] = code
      BY <2>3, <3>1
    <3>4. Received(code, d) = [type |-> v.type, size |-> 0, mem |-> Backwards(d)]
      BY <3>1, <3>2, <3>3 DEF Received
    <3>5. Backwards(d) = m
      BY <1>1, <1>3, <1>4, <3>1, BackwardsTwice
    <3> QED BY <3>1, <3>4, <3>5 DEF Same, m, code
  <2> QED BY <1>1, <1>6, <2>1, <2>2, <2>3, TypeCodes
<1> QED BY <1>5, <1>6 DEF d, n

-----------------------------------------------------------------------------
(* The buffer.                                                              *)

LEMMA SizeBytes ==
  ASSUME NEW n \in Nat
  PROVE  /\ High(n) \in Byte /\ Low(n) \in Byte
         /\ n < ByteBase * ByteBase => High(n) * ByteBase + Low(n) = n
<1> DEFINE B == ByteBase
           q == n \div B
           r == n % B
           h == q % B
<1>1. B \in Nat /\ B >= 16
  BY CodecAssumption
<1>h. HIDE DEF B
<1>2. q \in Int /\ r \in 0 .. B - 1 /\ n = B * q + r
  BY <1>1
<1>3. h \in 0 .. B - 1
  BY <1>1, <1>2
<1>h2. HIDE DEF q, r
<1>4. ASSUME n < B * B PROVE h = q
  <2>1. q >= 0
    <3>1. CASE q < 0
      <4>1. q + 1 <= 0
        BY <1>2, <3>1
      <4>2. B * (q + 1) <= 0
        BY <1>1, <1>2, <4>1
      <4>3. B * (q + 1) = B * q + B
        BY <1>1, <1>2
      <4> QED BY <1>1, <1>2, <4>2, <4>3
    <3> QED BY <1>2, <3>1
  <2>2. q < B
    <3>1. CASE q >= B
      <4>1. B * q >= B * B
        BY <1>1, <1>2, <3>1
      <4> QED BY <1>1, <1>2, <1>4, <4>1
    <3> QED BY <1>1, <1>2, <3>1
  <2> QED BY <1>1, <1>2, <2>1, <2>2
<1>h3. HIDE DEF h
<1>5. ASSUME n < B * B PROVE h * B + r = n
  BY <1>1, <1>2, <1>4, <1>5
<1> QED BY <1>2, <1>3, <1>5 DEF High, Low, Byte, h, q, r, B

\* The bytes of a parameter in a message.
LEMMA EncodedIs ==
  ASSUME NEW v \in SysVar, v.type \notin {"EMPTY", "VOID"}
  PROVE  /\ Encoded(v) \in Seq(Byte) /\ Len(Encoded(v)) = 3 + v.size
         /\ Encoded(v)[1] = High(v.size) /\ Encoded(v)[2] = Low(v.size)
         /\ Encoded(v)[3] = SysVarType[v.type]
         /\ \A i \in 1 .. v.size : Encoded(v)[3 + i] = Data(v)[i]
<1> DEFINE h == <<High(v.size), Low(v.size), SysVarType[v.type]>>
           d == Data(v)
           e == h \o d
<1>1. v.size \in Nat /\ v.type \in DOMAIN SysVarType
  BY SysVarIs
<1>2. High(v.size) \in Byte /\ Low(v.size) \in Byte /\ SysVarType[v.type] \in Byte
  BY <1>1, SizeBytes, TypeCodes
<1>3. /\ h \in Seq(Byte) /\ Len(h) = 3
      /\ h[1] = High(v.size) /\ h[2] = Low(v.size) /\ h[3] = SysVarType[v.type]
  BY <1>2
<1>4. d \in Seq(Byte) /\ Len(d) = v.size
  BY DataIs
<1>h. HIDE DEF h, d
<1>5. /\ e \in Seq(Byte) /\ Len(e) = Len(h) + Len(d)
      /\ \A i \in 1 .. Len(h) : e[i] = h[i]
      /\ \A i \in 1 .. Len(d) : e[Len(h) + i] = d[i]
  <2>1. h \in Seq(Byte) /\ d \in Seq(Byte)
    BY <1>3, <1>4
  <2> QED BY ONLY <2>1, Joined
<1>6. e = Encoded(v)
  BY DEF Encoded, h, d
<1>h2. HIDE DEF e
<1>7. /\ e \in Seq(Byte) /\ Len(e) = 3 + v.size
      /\ e[1] = h[1] /\ e[2] = h[2] /\ e[3] = h[3]
      /\ \A i \in 1 .. v.size : e[3 + i] = d[i]
  BY <1>1, <1>3, <1>4, <1>5
<1> QED BY <1>3, <1>6, <1>7 DEF d

\* Parameter v lies in the buffer s behind position p.
ParamAt(s, p, v) ==
  /\ p + 3 + v.size <= Len(s)
  /\ s[p + 1] = High(v.size) /\ s[p + 2] = Low(v.size) /\ s[p + 3] = SysVarType[v.type]
  /\ \A i \in 1 .. v.size : s[p + 3 + i] = Data(v)[i]

\* s is a head of four bytes and the parameters of q before the kth: off[j] bytes
\* lie before the jth.
Laid(off, s, q, k) ==
  /\ off \in [1 .. k -> Nat] /\ off[1] = 4 /\ off[k] = Len(s)
  /\ \A j \in 1 .. k : off[j] >= 4
  /\ \A j \in 1 .. k - 1 : /\ q[j].type \notin {"EMPTY", "VOID"}
                           /\ off[j + 1] = off[j] + 3 + q[j].size
                           /\ ParamAt(s, off[j], q[j])

\* A change to the first two bytes, or behind the end, leaves the parameters alone.
LEMMA ParamKept ==
  ASSUME NEW s \in Seq(Byte), NEW t \in Seq(Byte), Len(s) <= Len(t),
         \A i \in 3 .. Len(s) : t[i] = s[i],
         NEW v \in SysVar, NEW p \in Nat, p >= 4, ParamAt(s, p, v)
  PROVE  ParamAt(t, p, v)
<1>1. Len(s) \in Nat /\ Len(t) \in Nat /\ v.size \in Nat /\ p + 3 + v.size <= Len(s)
  BY SysVarIs DEF ParamAt
<1>2. /\ p + 1 \in 3 .. Len(s) /\ p + 2 \in 3 .. Len(s) /\ p + 3 \in 3 .. Len(s)
      /\ \A i \in 1 .. v.size : p + 3 + i \in 3 .. Len(s)
  BY <1>1
<1> QED BY <1>1, <1>2 DEF ParamAt

\* Parameters are laid out the same in a buffer that differs in its first two bytes only.
LEMMA LaidKept ==
  ASSUME NEW s \in Seq(Byte), NEW t \in Seq(Byte), Len(s) = Len(t),
         \A i \in 3 .. Len(s) : t[i] = s[i],
         NEW q \in Seq(SysVar), NEW k \in 1 .. Len(q) + 1, NEW off, Laid(off, s, q, k)
  PROVE  Laid(off, t, q, k)
<1>1. ASSUME NEW j \in 1 .. k - 1 PROVE ParamAt(t, off[j], q[j])
  <2>1. j \in 1 .. Len(q) /\ j \in 1 .. k
    OBVIOUS
  <2>2. q[j] \in SysVar /\ off[j] \in Nat /\ off[j] >= 4 /\ ParamAt(s, off[j], q[j])
    BY <2>1, ElementOfSeq DEF Laid
  <2>3. Len(s) <= Len(t)
    OBVIOUS
  <2> QED BY <2>2, <2>3, ParamKept
<1> QED BY <1>1 DEF Laid

\* A parameter is written behind the others.
LEMMA LaidMore ==
  ASSUME NEW s \in Seq(Byte), NEW q \in Seq(SysVar), NEW k \in 1 .. Len(q),
         NEW off, Laid(off, s, q, k), q[k].type \notin {"EMPTY", "VOID"}
  PROVE  \E o : Laid(o, s \o Encoded(q[k]), q, k + 1)
<1> DEFINE v == q[k]
           e == Encoded(v)
           t == s \o e
           o == [j \in 1 .. k + 1 |-> IF j <= k THEN off[j] ELSE Len(s) + 3 + v.size]
<1>1. v \in SysVar /\ v.size \in Nat /\ Len(s) \in Nat /\ k \in Nat /\ Len(q) \in Nat
  BY ElementOfSeq, SysVarIs
<1>2. /\ e \in Seq(Byte) /\ Len(e) = 3 + v.size
      /\ e[1] = High(v.size) /\ e[2] = Low(v.size) /\ e[3] = SysVarType[v.type]
      /\ \A i \in 1 .. v.size : e[3 + i] = Data(v)[i]
  <2>1. v \in SysVar /\ v.type \notin {"EMPTY", "VOID"}
    BY <1>1
  <2> HIDE DEF v
  <2> QED BY <2>1, EncodedIs
<1>h. HIDE DEF e, v
<1>3. /\ t \in Seq(Byte) /\ Len(t) = Len(s) + Len(e)
      /\ \A i \in 1 .. Len(s) : t[i] = s[i]
      /\ \A i \in 1 .. Len(e) : t[Len(s) + i] = e[i]
  <2>1. s \in Seq(Byte) /\ e \in Seq(Byte)
    BY <1>2
  <2> QED BY ONLY <2>1, Joined
<1>h2. HIDE DEF t
<1>4. Len(t) = Len(s) + 3 + v.size
  <2>1. Len(t) = Len(s) + Len(e) /\ Len(e) = 3 + v.size /\ Len(s) \in Nat /\ v.size \in Nat
    BY <1>1, <1>2, <1>3
  <2> QED BY ONLY <2>1
<1>5. /\ \A j \in 1 .. k : off[j] \in Nat /\ off[j] >= 4
      /\ off[1] = 4 /\ off[k] = Len(s)
  BY DEF Laid
<1>6. /\ o \in [1 .. k + 1 -> Nat] /\ o[1] = 4 /\ o[k + 1] = Len(t)
      /\ \A j \in 1 .. k + 1 : o[j] >= 4
      /\ \A j \in 1 .. k : o[j] = off[j]
  <2>1. Len(s) >= 4
    BY <1>1, <1>5
  <2> QED BY <1>1, <1>4, <1>5, <2>1
<1>h3. HIDE DEF o
<1>7. ASSUME NEW j \in 1 .. (k + 1) - 1
      PROVE  /\ q[j].type \notin {"EMPTY", "VOID"}
             /\ o[j + 1] = o[j] + 3 + q[j].size /\ ParamAt(t, o[j], q[j])
  <2>1. CASE j < k
    <3>1. j \in 1 .. k /\ j + 1 \in 1 .. k /\ j \in 1 .. k - 1 /\ j \in 1 .. Len(q)
      BY <1>1, <2>1
    <3>2. /\ q[j].type \notin {"EMPTY", "VOID"}
          /\ off[j + 1] = off[j] + 3 + q[j].size /\ ParamAt(s, off[j], q[j])
      BY <3>1 DEF Laid
    <3>3. ParamAt(t, off[j], q[j])
      <4>1. q[j] \in SysVar /\ off[j] \in Nat /\ off[j] >= 4
        BY <1>5, <3>1, ElementOfSeq
      <4>2. Len(s) <= Len(t) /\ \A i \in 3 .. Len(s) : t[i] = s[i]
        BY <1>1, <1>3, <1>4
      <4> QED BY <1>3, <3>2, <4>1, <4>2, ParamKept
    <3> QED BY <1>6, <3>1, <3>2, <3>3
  <2>2. CASE j = k
    <3>1. o[j] = Len(s) /\ o[j + 1] = Len(s) + 3 + v.size /\ q[j] = v
      BY <1>1, <1>4, <1>5, <1>6, <2>2 DEF v
    <3>2. ParamAt(t, Len(s), v)
      <4>1. 1 \in 1 .. Len(e) /\ 2 \in 1 .. Len(e) /\ 3 \in 1 .. Len(e)
            /\ \A i \in 1 .. v.size : 3 + i \in 1 .. Len(e) /\ Len(s) + (3 + i) = Len(s) + 3 + i
        BY <1>1, <1>2
      <4>2. \A i \in 1 .. v.size : t[Len(s) + 3 + i] = Data(v)[i]
        <5>1. SUFFICES ASSUME NEW i \in 1 .. v.size PROVE t[Len(s) + 3 + i] = Data(v)[i]
          OBVIOUS
        <5>2. t[Len(s) + (3 + i)] = e[3 + i]
          BY <1>3, <4>1
        <5> QED BY <1>2, <4>1, <5>2
      <4>3. t[Len(s) + 1] = e[1] /\ t[Len(s) + 2] = e[2] /\ t[Len(s) + 3] = e[3]
        BY <1>3, <4>1
      <4> QED BY <1>1, <1>2, <1>4, <4>2, <4>3 DEF ParamAt
    <3> QED BY <2>2, <3>1, <3>2
  <2> QED BY <1>1, <2>1, <2>2
<1>8. Laid(o, t, q, k + 1)
  BY <1>6, <1>7 DEF Laid
<1> QED BY <1>8 DEF t, e, v

-----------------------------------------------------------------------------
(* The inductive invariant of the codec.                                    *)

Found == {Received(c, d) : c \in Byte, d \in Seq(Byte)}

CodecTypeOK ==
  /\ coding \in {"idle", "write", "sent", "unsent", "read", "done"}
  /\ pdu \in Pdu /\ buf \in Seq(Byte) /\ beyond \in Nat /\ next \in Nat \ {0}

Count == Len(pdu.params)
Few == 2 * Count < ByteBase

\* The buffer holds the whole message, and its head tells the length and the count.
MessageLaid(off) ==
  /\ Laid(off, buf, pdu.params, Count + 1)
  /\ buf[1] * ByteBase + buf[2] = Len(buf) - 2
  /\ buf[4] = Count % ByteBase
  /\ Len(buf) < BufLen

\* Nothing has been read before the message is written.
NotBegun == coding \in {"idle", "write", "sent", "unsent"} => got = <<>> /\ (coding = "idle" => next = 1)

\* While makePDU runs, the parameters written so far lie one behind the other.
WriteInv ==
  coding = "write" =>
    /\ next \in 1 .. Count + 1 /\ beyond <= Len(buf) + 1
    /\ buf[4] = Count % ByteBase
    /\ \E off : Laid(off, buf, pdu.params, next)

\* A message that was sent without complaint is whole.
SentInv ==
  coding = "sent" =>
    /\ beyond <= Len(buf) + 1
    /\ ~fault => \E off : MessageLaid(off)

\* While FillPDU runs, it stands where the next parameter lies, and has read the
\* others as they were given.
ReadInv ==
  coding \in {"read", "done"} /\ Few =>
    /\ next \in 1 .. Count + 1 /\ (coding = "done" => next = Count + 1)
    /\ at \in Nat /\ \E off : MessageLaid(off) /\ at + 2 = off[next]
    /\ got \in Seq(Found) /\ Len(got) = next - 1
    /\ \A i \in 1 .. next - 1 : Same(pdu.params[i], got[i])

CodecInv == CodecTypeOK /\ NotBegun /\ WriteInv /\ SentInv /\ ReadInv

-----------------------------------------------------------------------------
(* The steps of the codec.                                                  *)

LEMMA PduIs ==
  ASSUME CodecTypeOK
  PROVE  /\ pdu.params \in Seq(SysVar) /\ Count \in Nat
         /\ \A j \in 1 .. Count : pdu.params[j] \in SysVar
BY ElementOfSeq DEF CodecTypeOK, Pdu, Count

LEMMA CodecInitInv == CodecInit => CodecInv
<1> SUFFICES ASSUME CodecInit PROVE CodecInv
  OBVIOUS
<1>1. pdu \in Pdu
  BY CodecAssumption, EmptySeq DEF CodecInit, Pdu, Byte
<1> QED BY <1>1, EmptySeq
        DEF CodecInit, CodecInv, CodecTypeOK, NotBegun, WriteInv, SentInv, ReadInv

\* What a message is when its copies have been taken.
LEMMA CopiedPdu ==
  ASSUME NEW p \in Pdu
  PROVE  [p EXCEPT !.params = [i \in DOMAIN p.params |-> CopyVar(p.params[i])]] = p
<1> DEFINE q == p.params
           c == [i \in DOMAIN q |-> CopyVar(q[i])]
<1>1. q \in Seq(SysVar) /\ p = [fc |-> p.fc, params |-> q]
  BY DEF Pdu
<1>2. \A i \in DOMAIN q : CopyVar(q[i]) = q[i]
  <2>1. \A i \in 1 .. Len(q) : q[i] \in SysVar
    BY <1>1, ElementOfSeq
  <2>2. DOMAIN q = 1 .. Len(q)
    BY <1>1
  <2> QED BY <2>1, <2>2, CopyIsSame
<1>3. c = q
  <2>1. q = [i \in DOMAIN q |-> q[i]]
    BY <1>1
  <2> HIDE DEF q
  <2> QED BY <1>2, <2>1
<1>h. HIDE DEF c, q
<1>4. [p EXCEPT !.params = c] = p
  BY <1>1, <1>3
<1> QED BY <1>4 DEF c, q

LEMMA BeginMakeKeeps ==
  ASSUME CodecInv, NEW p \in Pdus, BeginMake(p)
  PROVE  CodecInv'
<1> USE DEF CodecInv
<1>1. p \in Pdu /\ pdu' = p
  BY CodecAssumption, CopiedPdu DEF BeginMake
<1>2. /\ coding = "idle" /\ coding' = "write" /\ beyond' = 4
      /\ buf' = <<0, 0, p.fc, Len(p.params) % ByteBase>>
      /\ UNCHANGED <<fault, next, at, got>>
  BY DEF BeginMake, readVarsOfCodec
<1>3. p.fc \in Byte /\ p.params \in Seq(SysVar) /\ Len(p.params) \in Nat
  BY <1>1 DEF Pdu
<1>4. buf' \in Seq(Byte) /\ Len(buf') = 4 /\ buf'[4] = Len(p.params) % ByteBase
  <2>1. 0 \in Byte /\ Len(p.params) % ByteBase \in Byte
    <3> DEFINE B == ByteBase
    <3>1. B \in Nat /\ B >= 16
      BY CodecAssumption
    <3> HIDE DEF B
    <3> DEFINE k == Len(p.params)
    <3>2. k \in Nat
      BY <1>3
    <3> HIDE DEF k
    <3>3. 0 \in 0 .. B - 1 /\ k % B \in 0 .. B - 1
      BY ONLY <3>1, <3>2
    <3> QED BY <3>3 DEF Byte, B, k
  <2> QED BY <1>2, <1>3, <2>1
<1>5. CodecTypeOK'
  BY <1>1, <1>2, <1>4 DEF CodecTypeOK
<1>6. Laid([j \in 1 .. 1 |-> 4], buf', pdu'.params, 1)
  BY <1>4 DEF Laid
<1>7. WriteInv'
  <2>1. next' = 1 /\ next' \in 1 .. Count' + 1
    BY <1>1, <1>2, <1>3 DEF NotBegun, Count
  <2>2. Count' = Len(p.params)
    BY <1>1 DEF Count
  <2>3. \E off : Laid(off, buf', pdu'.params, next')
    BY <1>6, <2>1
  <2> QED BY <1>2, <1>4, <2>1, <2>2, <2>3 DEF WriteInv
<1> QED BY <1>2, <1>5, <1>7 DEF NotBegun, SentInv, ReadInv

LEMMA WriteParamKeeps ==
  ASSUME CodecInv, WriteParam
  PROVE  CodecInv'
<1> USE DEF CodecInv
<1> DEFINE v == pdu.params[next]
<1>1. /\ coding = "write" /\ next <= Count
      /\ UNCHANGED <<pdu, fault, at, got>>
  BY DEF WriteParam, MayWrite, readVarsOfCodec, Count
<1>2. CASE v.type \in {"EMPTY", "VOID"}
  <2>1. coding' = "unsent" /\ UNCHANGED <<buf, beyond, next>>
    BY <1>2 DEF WriteParam
  <2> QED BY <1>1, <2>1 DEF CodecTypeOK, NotBegun, WriteInv, SentInv, ReadInv
<1>3. CASE v.type \notin {"EMPTY", "VOID"}
  <2>1. /\ buf' = buf \o Encoded(v) /\ next' = next + 1 /\ coding' = "write"
        /\ beyond' = Len(buf') + (IF v.type = "STRING" THEN 1 ELSE 0)
    BY <1>1, <1>3 DEF WriteParam
  <2>2. /\ pdu.params \in Seq(SysVar) /\ Count \in Nat /\ next \in 1 .. Count /\ v \in SysVar
        /\ buf \in Seq(Byte)
    BY <1>1, PduIs DEF WriteInv, CodecTypeOK
  <2>3. PICK off : Laid(off, buf, pdu.params, next)
    BY <1>1 DEF WriteInv
  <2>4. \E o : Laid(o, buf \o Encoded(pdu.params[next]), pdu.params, next + 1)
    BY <1>3, <2>2, <2>3, LaidMore DEF Count
  <2>5. /\ buf' \in Seq(Byte) /\ Len(buf') \in Nat
        /\ \A i \in 1 .. Len(buf) : buf'[i] = buf[i]
    <3>1. Encoded(v) \in Seq(Byte)
      <4> HIDE DEF v
      <4> QED BY <1>3, <2>2, EncodedIs
    <3>2. /\ buf \o Encoded(v) \in Seq(Byte)
          /\ \A i \in 1 .. Len(buf) : (buf \o Encoded(v))[i] = buf[i]
      <4>1. buf \in Seq(Byte) /\ Encoded(v) \in Seq(Byte)
        BY <2>2, <3>1
      <4> HIDE DEF v
      <4> QED BY ONLY <4>1, Joined
    <3> HIDE DEF v
    <3> QED BY <2>1, <3>2
  <2>6. buf'[4] = buf[4]
    <3>1. 4 \in 1 .. Len(buf)
      <4>1. off[next] = Len(buf) /\ off[next] >= 4 /\ Len(buf) \in Nat
        BY <2>2, <2>3 DEF Laid
      <4> QED BY <4>1
    <3> QED BY <2>5, <3>1
  <2>7. beyond' \in Nat /\ beyond' <= Len(buf') + 1
    BY <2>1, <2>5
  <2>8. Count' = Count
    BY <1>1 DEF Count
  <2>9. WriteInv'
    <3>1. \E o : Laid(o, buf', pdu'.params, next')
      BY <1>1, <2>1, <2>4
    <3>2. next' \in 1 .. Count' + 1
      BY <2>1, <2>2, <2>8
    <3> QED BY <1>1, <2>1, <2>6, <2>7, <2>8, <3>1, <3>2 DEF WriteInv
  <2>10. CodecTypeOK'
    BY <1>1, <2>1, <2>5, <2>7 DEF CodecTypeOK
  <2> QED BY <1>1, <2>1, <2>9, <2>10 DEF NotBegun, SentInv, ReadInv
<1> QED BY <1>2, <1>3

LEMMA EndMakeKeeps ==
  ASSUME CodecInv, EndMake
  PROVE  CodecInv'
<1> USE DEF CodecInv
<1> DEFINE n == Len(buf)
<1>1. /\ coding = "write" /\ coding' = "sent" /\ fault' = (BufLen <= n)
      /\ next > Count \/ n >= BufLen
      /\ buf' = [buf EXCEPT ![1] = High(n - 2), ![2] = Low(n - 2)]
      /\ UNCHANGED <<pdu, beyond, next, at, got>>
  <2>1. n \in Nat /\ BufLen \in Nat /\ next \in Nat /\ Count \in Nat
    BY CodecAssumption, PduIs DEF CodecTypeOK
  <2> QED BY <2>1 DEF EndMake, MayWrite, readVarsOfCodec, Count
<1>2. PICK off : Laid(off, buf, pdu.params, next)
  BY <1>1 DEF WriteInv
<1>3. /\ pdu.params \in Seq(SysVar) /\ Count \in Nat /\ next \in 1 .. Count + 1
      /\ buf \in Seq(Byte) /\ n \in Nat
  BY <1>1, PduIs DEF WriteInv, CodecTypeOK
<1>4. n >= 4
  BY <1>2, <1>3 DEF Laid
<1>h. HIDE DEF n
<1>5. /\ n - 2 \in Nat /\ High(n - 2) \in Byte /\ Low(n - 2) \in Byte
      /\ n - 2 < ByteBase * ByteBase => High(n - 2) * ByteBase + Low(n - 2) = n - 2
  BY <1>3, <1>4, SizeBytes
<1>6. /\ buf' \in Seq(Byte) /\ Len(buf') = n
      /\ buf'[1] = High(n - 2) /\ buf'[2] = Low(n - 2)
      /\ \A i \in 3 .. n : buf'[i] = buf[i]
  BY <1>1, <1>3, <1>4, <1>5 DEF n
<1>7. Laid(off, buf', pdu.params, next)
  <2>1. /\ buf \in Seq(Byte) /\ buf' \in Seq(Byte) /\ Len(buf) = Len(buf')
        /\ \A i \in 3 .. Len(buf) : buf'[i] = buf[i]
    BY <1>3, <1>6 DEF n
  <2>2. pdu.params \in Seq(SysVar) /\ next \in 1 .. Len(pdu.params) + 1
    BY <1>3 DEF Count
  <2> DEFINE t == buf'
  <2>3. /\ t \in Seq(Byte) /\ Len(buf) = Len(t) /\ \A i \in 3 .. Len(buf) : t[i] = buf[i]
    BY <2>1
  <2> HIDE DEF t
  <2>4. Laid(off, t, pdu.params, next)
    BY ONLY <1>2, <2>1, <2>2, <2>3, LaidKept
  <2> QED BY <2>4 DEF t
<1>8. SentInv'
  <2>1. beyond' <= Len(buf') + 1
    BY <1>1, <1>6 DEF WriteInv, n
  <2>2. ASSUME ~fault' PROVE MessageLaid(off)'
    <3>1. n < BufLen
      <4>1. BufLen \in Nat /\ ~(BufLen <= n)
        BY <1>1, <2>2, CodecAssumption
      <4> QED BY <1>3, <4>1
    <3>2. next = Count + 1
      BY <1>1, <1>3, <3>1, CodecAssumption
    <3>3. n - 2 < ByteBase * ByteBase
      <4> DEFINE B2 == ByteBase * ByteBase
      <4>1. B2 \in Int /\ BufLen \in Nat /\ 2 * BufLen <= B2
        BY CodecAssumption
      <4> HIDE DEF B2
      <4>2. n - 2 < B2
        BY <1>3, <3>1, <4>1
      <4> QED BY <4>2 DEF B2
    <3>4. buf'[4] = Count % ByteBase
      BY <1>1, <1>4, <1>6, <1>3 DEF WriteInv
    <3>5. Count' = Count
      BY <1>1 DEF Count
    <3> QED BY <1>1, <1>5, <1>6, <1>7, <3>1, <3>2, <3>3, <3>4, <3>5 DEF MessageLaid
  <2>3. ~fault' => \E o : MessageLaid(o)'
    BY <2>2
  <2> QED BY <2>1, <2>3 DEF SentInv, MessageLaid
<1>9. CodecTypeOK'
  BY <1>1, <1>6 DEF CodecTypeOK
<1> QED BY <1>1, <1>8, <1>9 DEF NotBegun, WriteInv, ReadInv

LEMMA BeginFillKeeps ==
  ASSUME CodecInv, BeginFill
  PROVE  CodecInv'
<1> USE DEF CodecInv
<1>1. /\ coding = "sent" /\ ~fault /\ coding' = "read" /\ next' = 1 /\ at' = 2
      /\ UNCHANGED <<pdu, buf, beyond, fault, got>>
  BY DEF BeginFill
<1>2. PICK off : MessageLaid(off)
  BY <1>1 DEF SentInv
<1>3. MessageLaid(off)' /\ off[1] = 4 /\ Count' = Count /\ Count \in Nat
  BY <1>1, <1>2, PduIs DEF MessageLaid, Laid, Count
<1>4. got' = <<>>
  BY <1>1 DEF NotBegun
<1>5. ReadInv'
  <2>1. \E o : MessageLaid(o)' /\ at' + 2 = o[next']
    BY <1>1, <1>3
  <2>2. got' \in Seq(Found) /\ Len(got') = next' - 1
    BY <1>1, <1>4, EmptySeq
  <2> QED BY <1>1, <1>3, <2>1, <2>2 DEF ReadInv, MessageLaid
<1>6. CodecTypeOK'
  BY <1>1 DEF CodecTypeOK
<1> QED BY <1>1, <1>5, <1>6 DEF NotBegun, WriteInv, SentInv

\* What FillPDU reads, when the whole message is there.
LEMMA BodyIs ==
  ASSUME CodecTypeOK, NEW off, MessageLaid(off)
  PROVE  /\ Len(buf) \in Nat /\ Len(buf) >= 4 /\ Len(Body) = Len(buf) - 2
         /\ \A i \in 0 .. Len(buf) - 3 : ByteAt(i) = buf[i + 3]
<1> DEFINE n == Len(buf)
<1>1. buf \in Seq(Byte) /\ n \in Nat
  BY DEF CodecTypeOK
<1>2. n >= 4
  <2>1. Count + 1 \in 1 .. Count + 1
    BY PduIs
  <2> QED BY <2>1 DEF MessageLaid, Laid
<1>3. Body = SubSeq(buf, 3, n)
  <2>1. 2 + buf[1] * ByteBase + buf[2] = n
    <3>1. buf[1] * ByteBase + buf[2] = n - 2
      BY DEF MessageLaid
    <3>2. buf[1] \in Nat /\ buf[2] \in Nat /\ ByteBase \in Nat
      BY <1>1, <1>2, CodecAssumption, ElementOfSeq DEF Byte
    <3>3. buf[1] * ByteBase \in Nat
      BY <3>2
    <3> QED BY <1>1, <3>1, <3>2, <3>3
  <2> QED BY <2>1 DEF Body
<1>h. HIDE DEF n
<1>4. /\ Len(Body) = n - 2
      /\ \A i \in 1 .. n - 2 : Body[i] = buf[i + 2]
  <2> DEFINE x == SubSeq(buf, 3, n)
  <2>1. \A i \in 3 .. n : buf[i] \in Byte
    BY <1>1, ElementOfSeq DEF n
  <2>2. 3 \in Int /\ n \in Int
    BY <1>1
  <2>3. /\ Len(x) = IF 3 <= n THEN n - 3 + 1 ELSE 0
        /\ \A i \in 1 .. n - 3 + 1 : x[i] = buf[3 + i - 1]
    BY ONLY <2>1, <2>2, SubSeqProperties
  <2> HIDE DEF x
  <2>4. Len(x) = n - 2
    BY <1>1, <1>2, <2>3
  <2>5. ASSUME NEW i \in 1 .. n - 2 PROVE x[i] = buf[i + 2]
    <3>1. i \in 1 .. n - 3 + 1 /\ 3 + i - 1 = i + 2
      BY <1>1
    <3> QED BY <2>3, <3>1
  <2> QED BY <1>3, <2>4, <2>5 DEF x
<1>5. ASSUME NEW i \in 0 .. n - 3 PROVE ByteAt(i) = buf[i + 3]
  <2>1. i < Len(Body) /\ i + 1 \in 1 .. n - 2 /\ (i + 1) + 2 = i + 3
    BY <1>1, <1>2, <1>4
  <2> QED BY <1>4, <2>1 DEF ByteAt
<1> QED BY <1>1, <1>2, <1>4, <1>5 DEF n

\* A message with few parameters says how many there are.
LEMMA CountIs ==
  ASSUME CodecTypeOK, NEW off, MessageLaid(off), Few
  PROVE  ParamCount = Count
<1>1. ByteAt(1) = buf[4]
  <2>1. 1 \in 0 .. Len(buf) - 3 /\ 1 + 3 = 4
    BY BodyIs
  <2> QED BY <2>1, BodyIs
<1>2. Count \in Nat /\ ByteBase \in Nat /\ ByteBase >= 16 /\ 2 * Count < ByteBase
  BY PduIs, CodecAssumption DEF Few
<1>3. Count % ByteBase = Count
  BY <1>2
<1>4. ByteAt(1) = Count
  BY <1>1, <1>3 DEF MessageLaid
<1> QED BY <1>2, <1>4 DEF ParamCount

LEMMA ReadParamKeeps ==
  ASSUME CodecInv, ReadParam
  PROVE  CodecInv'
<1> USE DEF CodecInv
<1> DEFINE len == ByteAt(at) * ByteBase + ByteAt(at + 1)
           data == [i \in 1 .. len |-> ByteAt(at + 2 + i)]
           v == pdu.params[next]
           p == at + 2
<1>1. /\ coding = "read" /\ next <= ParamCount
      /\ got' = Append(got, Received(ByteAt(at + 2), data))
      /\ at' = at + 3 + len
      /\ next' = next + 1
      /\ UNCHANGED <<coding, pdu, buf, beyond, fault>>
  BY DEF ReadParam
<1>2. CodecTypeOK'
  BY <1>1 DEF CodecTypeOK
<1>3. ASSUME Few PROVE ReadInv'
  <2>1. PICK off : MessageLaid(off) /\ at + 2 = off[next]
    BY <1>1, <1>3 DEF ReadInv
  <2>2. ParamCount = Count
    BY <1>3, <2>1, CountIs
  <2>3. /\ next \in 1 .. Count + 1 /\ Count \in Nat /\ next \in 1 .. Count
        /\ v \in SysVar /\ v.size \in Nat /\ v.type \in DOMAIN SysVarType
    <3>1. next \in 1 .. Count + 1 /\ Count \in Nat /\ next <= Count
      BY <1>1, <1>3, <2>2, PduIs DEF ReadInv
    <3>2. next \in 1 .. Count
      BY <3>1
    <3> QED BY <3>1, <3>2, PduIs, SysVarIs
  <2>4. /\ ParamAt(buf, p, v) /\ off[next + 1] = p + 3 + v.size /\ p \in Nat /\ p >= 4
        /\ v.type \notin {"EMPTY", "VOID"}
    <3>1. next \in 1 .. (Count + 1) - 1 /\ next \in 1 .. Count + 1
      BY <2>3
    <3> QED BY <2>1, <3>1 DEF MessageLaid, Laid
  <2>5. /\ Len(buf) \in Nat /\ \A i \in 0 .. Len(buf) - 3 : ByteAt(i) = buf[i + 3]
        /\ p + 3 + v.size <= Len(buf) /\ v.size < ByteBase * ByteBase
    <3>1. Len(buf) \in Nat /\ \A i \in 0 .. Len(buf) - 3 : ByteAt(i) = buf[i + 3]
      BY <2>1, BodyIs
    <3>2. p + 3 + v.size <= Len(buf) /\ Len(buf) < BufLen
      BY <2>1, <2>4 DEF ParamAt, MessageLaid
    <3> DEFINE B2 == ByteBase * ByteBase
    <3>3. B2 \in Int /\ BufLen \in Nat /\ 2 * BufLen <= B2
      BY CodecAssumption
    <3> HIDE DEF B2, p, v
    <3>4. v.size < B2
      BY <2>3, <2>4, <3>1, <3>2, <3>3
    <3> QED BY <3>1, <3>2, <3>4 DEF B2
  <2>6. at \in Nat /\ p = at + 2
    BY <1>1, <1>3 DEF ReadInv
  <2>h. HIDE DEF p, v
  <2>7. /\ ByteAt(at) = High(v.size) /\ ByteAt(at + 1) = Low(v.size)
        /\ ByteAt(at + 2) = SysVarType[v.type]
        /\ \A i \in 1 .. v.size : ByteAt(at + 2 + i) = Data(v)[i]
    <3>1. /\ at \in 0 .. Len(buf) - 3 /\ at + 1 \in 0 .. Len(buf) - 3 /\ at + 2 \in 0 .. Len(buf) - 3
          /\ at + 3 = p + 1 /\ (at + 1) + 3 = p + 2 /\ (at + 2) + 3 = p + 3
      BY <2>3, <2>5, <2>6
    <3>2. ASSUME NEW i \in 1 .. v.size PROVE ByteAt(at + 2 + i) = Data(v)[i]
      <4>1. at + 2 + i \in 0 .. Len(buf) - 3 /\ (at + 2 + i) + 3 = p + 3 + i
        BY <2>3, <2>5, <2>6
      <4>2. buf[p + 3 + i] = Data(v)[i]
        BY <2>4 DEF ParamAt
      <4> QED BY <2>5, <4>1, <4>2
    <3>3. buf[p + 1] = High(v.size) /\ buf[p + 2] = Low(v.size) /\ buf[p + 3] = SysVarType[v.type]
      BY <2>4 DEF ParamAt
    <3> QED BY <2>5, <3>1, <3>2, <3>3
  <2>8. len = v.size
    BY <2>3, <2>5, <2>7, SizeBytes
  <2>h2. HIDE DEF len
  <2>9. data = Data(v)
    <3>1. Data(v) \in Seq(Byte) /\ Len(Data(v)) = v.size
      BY <2>3, DataIs
    <3>2. Data(v) = [i \in 1 .. v.size |-> Data(v)[i]]
      BY <3>1
    <3> QED BY <2>7, <2>8, <3>2
  <2>h3. HIDE DEF data
  <2> DEFINE r == Received(SysVarType[v.type], Data(v))
  <2>10. got' = Append(got, r) /\ r \in Found /\ Same(v, r)
    <3>1. Data(v) \in Seq(Byte) /\ SysVarType[v.type] \in Byte
      BY <2>3, <2>4, DataIs, TypeCodes
    <3>2. Same(v, r)
      BY <2>3, <2>4, DataIs
    <3>3. r \in Found
      BY <3>1 DEF Found
    <3> HIDE DEF r
    <3> QED BY <1>1, <2>7, <2>9, <3>2, <3>3 DEF r
  <2>h4. HIDE DEF r
  <2>11. /\ got \in Seq(Found) /\ Len(got) = next - 1
         /\ \A i \in 1 .. next - 1 : Same(pdu.params[i], got[i])
    BY <1>1, <1>3 DEF ReadInv
  <2>12. /\ got' \in Seq(Found) /\ Len(got') = next
         /\ \A i \in 1 .. next - 1 : got'[i] = got[i]
         /\ got'[next] = r
    <3>1. /\ Append(got, r) \in Seq(Found) /\ Len(Append(got, r)) = Len(got) + 1
          /\ \A i \in 1 .. Len(got) : Append(got, r)[i] = got[i]
          /\ Append(got, r)[Len(got) + 1] = r
      <4>1. got \in Seq(Found) /\ r \in Found
        BY <2>10, <2>11
      <4> QED BY ONLY <4>1, AppendProperties
    <3>2. Len(got) + 1 = next
      BY <2>3, <2>11
    <3> QED BY <2>10, <2>11, <3>1, <3>2
  <2>13. \A i \in 1 .. next : Same(pdu.params[i], got'[i])
    <3>1. \A i \in 1 .. next : i \in 1 .. next - 1 \/ i = next
      BY <2>3
    <3> QED BY <2>10, <2>11, <2>12, <3>1 DEF v
  <2>14. MessageLaid(off)' /\ Count' = Count
    BY <1>1, <2>1 DEF MessageLaid, Count
  <2>15. at' + 2 = off[next'] /\ at' \in Nat
    <3>1. at' = at + 3 + v.size /\ off[next'] = p + 3 + v.size
      BY <1>1, <2>4, <2>8
    <3>2. at \in Nat /\ p = at + 2 /\ v.size \in Nat
      BY <2>3, <2>6
    <3> QED BY ONLY <3>1, <3>2
  <2>16. \E o : MessageLaid(o)' /\ at' + 2 = o[next']
    BY <2>14, <2>15
  <2>17. next' \in 1 .. Count' + 1 /\ next' - 1 = next /\ coding' = "read" /\ pdu' = pdu
    BY <1>1, <2>3, <2>14
  <2> QED BY <2>12, <2>13, <2>15, <2>16, <2>17 DEF ReadInv, MessageLaid
<1>4. Few' = Few
  BY <1>1 DEF Few, Count
<1>5. ReadInv'
  BY <1>3, <1>4 DEF ReadInv
<1> QED BY <1>1, <1>2, <1>5 DEF NotBegun, WriteInv, SentInv

LEMMA EndFillKeeps ==
  ASSUME CodecInv, EndFill
  PROVE  CodecInv'
<1> USE DEF CodecInv
<1>1. /\ coding = "read" /\ next > ParamCount /\ coding' = "done"
      /\ UNCHANGED <<pdu, buf, beyond, fault, next, at, got>>
  BY DEF EndFill, readVarsOfCodec
<1>2. CodecTypeOK'
  BY <1>1 DEF CodecTypeOK
<1>3. ASSUME Few PROVE ReadInv'
  <2>1. PICK off : MessageLaid(off) /\ at + 2 = off[next]
    BY <1>1, <1>3 DEF ReadInv
  <2>2. ParamCount = Count
    BY <1>3, <2>1, CountIs
  <2>3. next = Count + 1
    BY <1>1, <1>3, <2>2, PduIs DEF ReadInv
  <2>4. MessageLaid(off)' /\ Count' = Count
    BY <1>1, <2>1 DEF MessageLaid, Count
  <2>5. \E o : MessageLaid(o)' /\ at' + 2 = o[next']
    BY <1>1, <2>1, <2>4
  <2> QED BY <1>1, <1>3, <2>3, <2>4, <2>5 DEF ReadInv, MessageLaid
<1>4. Few' = Few
  BY <1>1 DEF Few, Count
<1> QED BY <1>1, <1>2, <1>3, <1>4 DEF NotBegun, WriteInv, SentInv, ReadInv

LEMMA CodecStep == CodecInv /\ [CodecNext]_codecVars => CodecInv'
<1> SUFFICES ASSUME CodecInv, [CodecNext]_codecVars PROVE CodecInv'
  OBVIOUS
<1>1. CASE UNCHANGED codecVars
  BY <1>1 DEF codecVars, CodecInv, CodecTypeOK, NotBegun, WriteInv, SentInv, ReadInv,
              MessageLaid, Count, Few
<1> QED BY <1>1, BeginMakeKeeps, WriteParamKeeps, EndMakeKeeps, BeginFillKeeps, ReadParamKeeps,
           EndFillKeeps DEF CodecNext

LEMMA CodecInvHonest == CodecInv => CodecHonest
<1> SUFFICES ASSUME CodecInv PROVE OverflowReported /\ RoundTrip
  BY DEF CodecHonest
<1> USE DEF CodecInv
<1>1. OverflowReported
  <2>1. SUFFICES ASSUME coding = "sent", ~fault PROVE beyond <= BufLen
    BY DEF OverflowReported
  <2>2. PICK off : MessageLaid(off)
    BY <2>1 DEF SentInv
  <2>3. beyond <= Len(buf) + 1 /\ Len(buf) < BufLen
    BY <2>1, <2>2 DEF SentInv, MessageLaid
  <2> QED BY <2>3, CodecAssumption DEF CodecTypeOK
<1>2. RoundTrip
  <2>1. SUFFICES ASSUME coding = "done", 2 * Len(pdu.params) < ByteBase
                 PROVE  /\ at = Len(Body)
                        /\ Len(got) = Len(pdu.params)
                        /\ \A i \in DOMAIN got : Same(pdu.params[i], got[i])
    BY DEF RoundTrip
  <2>2. /\ next = Count + 1 /\ Count \in Nat
        /\ got \in Seq(Found) /\ Len(got) = next - 1
        /\ \A i \in 1 .. next - 1 : Same(pdu.params[i], got[i])
    BY <2>1, PduIs DEF ReadInv, Few, Count
  <2>3. PICK off : MessageLaid(off) /\ at + 2 = off[next]
    BY <2>1 DEF ReadInv, Few, Count
  <2>4. off[next] = Len(buf) /\ Len(Body) = Len(buf) - 2 /\ Len(buf) \in Nat
    BY <2>2, <2>3, BodyIs DEF MessageLaid, Laid
  <2>5. at = Len(Body)
    <3>1. at \in Nat
      BY <2>1 DEF ReadInv, Few, Count
    <3> QED BY <2>3, <2>4, <3>1
  <2>6. DOMAIN got = 1 .. next - 1 /\ Len(got) = Len(pdu.params)
    BY <2>2 DEF Count
  <2> QED BY <2>2, <2>5, <2>6
<1> QED BY <1>1, <1>2

\* makePDU and FillPDU: a message arrives as it was given, or its sender is told that it
\* does not fit, whatever its parameters and the size of the buffer.
THEOREM CodecIsHonest == CodecSpec => []CodecHonest
BY CodecInitInv, CodecStep, CodecInvHonest, PTL DEF CodecSpec

-----------------------------------------------------------------------------
(* Powers of two, by way of the subsets of an interval.                    *)

\* 2^n is the number of subsets of 1..n.
LEMMA PowerIsCardinality ==
  ASSUME NEW n \in Nat
  PROVE IsFiniteSet(SUBSET (1 .. n)) /\ Cardinality(SUBSET (1 .. n)) = 2 ^ n
<1>1. IsFiniteSet(1 .. n) /\ Cardinality(1 .. n) = n BY FS_Interval
<1> QED BY <1>1, FS_SUBSET

\* A power of two is a positive number.
LEMMA PowerPositive ==
  ASSUME NEW n \in Nat
  PROVE 2 ^ n \in Nat /\ 2 ^ n > 0
<1>1. IsFiniteSet(SUBSET (1 .. n)) /\ Cardinality(SUBSET (1 .. n)) = 2 ^ n BY PowerIsCardinality
<1>2. SUBSET (1 .. n) # {} OBVIOUS
<1>3. Cardinality(SUBSET (1 .. n)) \in Nat /\ Cardinality(SUBSET (1 .. n)) # 0
  BY <1>1, <1>2, FS_CardinalityType, FS_EmptySet
<1> DEFINE p == 2 ^ n
<1>4. p \in Nat /\ p # 0 BY <1>1, <1>3
<1> HIDE DEF p
<1>5. p > 0 BY <1>4
<1> QED BY <1>4, <1>5 DEF p

\* It grows with its exponent.
LEMMA PowerGrows ==
  ASSUME NEW m \in Nat, NEW n \in Nat, m <= n
  PROVE 2 ^ m <= 2 ^ n
<1>1. SUBSET (1 .. m) \in SUBSET (SUBSET (1 .. n)) OBVIOUS
<1>2. IsFiniteSet(SUBSET (1 .. n)) BY PowerIsCardinality
<1>3. Cardinality(SUBSET (1 .. m)) <= Cardinality(SUBSET (1 .. n)) BY <1>1, <1>2, FS_Subset
<1>4. Cardinality(SUBSET (1 .. m)) = 2 ^ m /\ Cardinality(SUBSET (1 .. n)) = 2 ^ n
  BY PowerIsCardinality
<1> QED BY <1>3, <1>4

\* It doubles with each step.
LEMMA PowerDoubles ==
  ASSUME NEW n \in Nat
  PROVE 2 ^ (n + 1) = 2 ^ n + 2 ^ n
<1> DEFINE S == SUBSET (1 .. n)
           T == {s \union {n + 1} : s \in S}
           All == SUBSET (1 .. n + 1)
<1>1. IsFiniteSet(S) /\ Cardinality(S) = 2 ^ n BY PowerIsCardinality
<1>2. n + 1 \in Nat OBVIOUS
<1>3. IsFiniteSet(All) /\ Cardinality(All) = 2 ^ (n + 1) BY <1>2, PowerIsCardinality
<1>4. All = S \union T
  <2>1. ASSUME NEW a \in All PROVE a \in S \union T
    <3>1. 1 .. n + 1 = (1 .. n) \union {n + 1} /\ n + 1 \notin 1 .. n OBVIOUS
    <3>2. CASE n + 1 \in a
      <4>1. a \ {n + 1} \in S /\ a = (a \ {n + 1}) \union {n + 1} BY <3>1, <3>2, <2>1
      <4> QED BY <4>1
    <3>3. CASE n + 1 \notin a
      <4>1. a \in S BY <3>1, <3>3, <2>1
      <4> QED BY <4>1
    <3> QED BY <3>2, <3>3
  <2>2. 1 .. n \subseteq 1 .. n + 1 /\ n + 1 \in 1 .. n + 1 OBVIOUS
  <2>3. S \union T \subseteq All BY <2>2
  <2> QED BY <2>1, <2>3
<1>5. S \cap T = {}
  <2>1. n + 1 \notin 1 .. n OBVIOUS
  <2> QED BY <2>1
<1>6. IsFiniteSet(T) /\ Cardinality(T) = Cardinality(S)
  <2> DEFINE f == [s \in S |-> s \union {n + 1}]
  <2>1. n + 1 \notin 1 .. n OBVIOUS
  <2>2. f \in Bijection(S, T)
    <3>1. f \in [S -> T] OBVIOUS
    <3>2. ASSUME NEW a \in S, NEW b \in S, f[a] = f[b] PROVE a = b
      <4>1. a = f[a] \ {n + 1} /\ b = f[b] \ {n + 1} BY <2>1
      <4> QED BY <4>1, <3>2
    <3>3. \A t \in T : \E s \in S : f[s] = t OBVIOUS
    <3> HIDE DEF f, S, T
    <3> QED BY <3>1, <3>2, <3>3 DEF Bijection, Injection, Surjection, IsInjective
  <2> HIDE DEF S, T, f
  <2>3. ExistsBijection(S, T) BY <2>2 DEF ExistsBijection
  <2> QED BY <1>1, <2>3, FS_Bijection
<1> HIDE DEF S, T, All
<1>7. Cardinality(All) = Cardinality(S) + Cardinality(T) - Cardinality(S \cap T)
  BY <1>1, <1>4, <1>6, FS_Union
<1>8. Cardinality(S \cap T) = 0 BY <1>5, FS_EmptySet
<1> DEFINE p == 2 ^ n
           q == 2 ^ (n + 1)
<1>9. p \in Nat BY PowerPositive
<1>10. q = p + p - 0
  <2>1. Cardinality(S) = p /\ Cardinality(T) = p /\ Cardinality(All) = q BY <1>1, <1>3, <1>6
  <2> HIDE DEF p, q
  <2> QED BY <2>1, <1>7, <1>8
<1> HIDE DEF p, q
<1>11. q = p + p BY <1>9, <1>10
<1> QED BY <1>11 DEF p, q

\* The ranges of the integer types: from -Half(t) to Half(t) - 1.
Half(t) == 2 ^ (Bits[t] - 1)

\* The range of an integer type in terms of its half.
LEMMA Widths ==
  ASSUME NEW t \in Whole
  PROVE /\ Half(t) \in Nat \ {0}
        /\ 2 ^ Bits[t] = Half(t) + Half(t)
        /\ ValuesOf(t) = -Half(t) .. Half(t) - 1
<1>1. Bits[t] - 1 \in Nat /\ (Bits[t] - 1) + 1 = Bits[t] BY WidthsAssumption DEF Whole, Bits
<1> DEFINE b == Bits[t] - 1
<1>2. b \in Nat /\ b + 1 = Bits[t] BY <1>1
<1>3. 2 ^ b \in Nat /\ 2 ^ b > 0 /\ 2 ^ (b + 1) = 2 ^ b + 2 ^ b
  <2> HIDE DEF b
  <2> QED BY <1>2, PowerPositive, PowerDoubles
<1>4. Half(t) = 2 ^ b BY DEF Half
<1>5. 2 ^ Bits[t] = 2 ^ b + 2 ^ b BY <1>2, <1>3
<1>6. ValuesOf(t) = -Half(t) .. Half(t) - 1 BY DEF ValuesOf, Half
<1> DEFINE p == 2 ^ b
<1>7. p \in Nat /\ p > 0 BY <1>3
<1> HIDE DEF p
<1>8. p \in Nat \ {0} BY <1>7
<1> QED BY <1>4, <1>5, <1>6, <1>8 DEF p

\* What fits a short fits an int.
LEMMA ShortFitsInt == Half("SHORT") <= Half("INT")
<1> DEFINE m == Bits["SHORT"] - 1
           n == Bits["INT"] - 1
<1>1. m \in Nat /\ n \in Nat /\ m <= n BY WidthsAssumption DEF Bits
<1> HIDE DEF m, n
<1>2. 2 ^ m <= 2 ^ n BY <1>1, PowerGrows
<1> QED BY <1>2 DEF Half, m, n

\* Wrapping changes no number that fits.
LEMMA WrapOfFitting ==
  ASSUME NEW t \in Whole, NEW i \in Int
  PROVE Wrap(i, t) \in Int /\ (Fits(i, t) => Wrap(i, t) = i)
<1> DEFINE h == Half(t)
           w == 2 ^ Bits[t]
<1>1. h \in Nat \ {0} /\ w = h + h /\ ValuesOf(t) = -h .. h - 1 BY Widths
<1>2. Wrap(i, t) = ((i + h) % w) - h BY DEF Wrap, Half
<1>3. Fits(i, t) => i \in -h .. h - 1 BY <1>1 DEF Fits
<1> HIDE DEF h, w
<1>4. ((i + h) % w) - h \in Int BY <1>1
<1>5. i \in -h .. h - 1 => ((i + h) % w) - h = i
  <2> SUFFICES ASSUME i \in -h .. h - 1 PROVE (i + h) % w = i + h BY <1>1
  <2>1. i + h \in 0 .. w - 1 /\ w \in Nat \ {0} BY <1>1
  <2> DEFINE k == i + h
  <2> HIDE DEF k
  <2>2. k \in 0 .. w - 1 BY <2>1 DEF k
  <2>3. k % w = k BY <2>1, <2>2
  <2> QED BY <2>3 DEF k
<1> QED BY <1>2, <1>3, <1>4, <1>5
-----------------------------------------------------------------------------
(* The steps of a series of operations.                                     *)

\* What a series of operations has made of its operands is the whole number it should
\* be, as long as everything was within reach; and nothing counts as zero.
VariantInv ==
  /\ acc \in [type : DOMAIN Rank, num : Int] /\ exact \in Int
  /\ acc.type = "EMPTY" => acc.num = 0
  /\ acc.type \in Numeric \union {"EMPTY"} /\ faithful => acc.num = exact

LEMMA VariantInitInv == VariantInit => VariantInv
BY DEF VariantInit, VariantInv, Nothing, Var, Rank, Numeric, Whole, Bits

LEMMA QuotientIsInt ==
  ASSUME NEW m \in Int, NEW n \in Int, n # 0
  PROVE Quotient(m, n) \in Int
<1> DEFINE a == Abs(m)
           b == Abs(n)
<1>1. a \in Nat /\ b \in Nat /\ b > 0 BY DEF Abs
<1> HIDE DEF a, b
<1>2. a \div b \in Int BY <1>1
<1> DEFINE q == a \div b
<1> HIDE DEF q
<1>3. q \in Int /\ -q \in Int BY <1>2 DEF q
<1> QED BY <1>3 DEF Quotient, a, b, q

Ops == {"+", "-", "*", "/", "%"}

\* Whole numbers stay whole.
LEMMA ReferenceIsInt ==
  ASSUME NEW op \in Ops, NEW m \in Int, NEW n \in Int, op \in {"/", "%"} => n # 0
  PROVE Reference(op, m, n) \in Int
<1>1. CASE op = "+" BY <1>1 DEF Reference
<1>2. CASE op = "-" BY <1>2 DEF Reference
<1>3. CASE op = "*" BY <1>3 DEF Reference
<1>4. CASE op = "/" BY <1>4, QuotientIsInt DEF Reference
<1>5. CASE op = "%"
  <2> DEFINE q == Quotient(m, n)
  <2>1. q \in Int BY <1>5, QuotientIsInt
  <2>2. Reference(op, m, n) = m - n * q BY <1>5 DEF Reference
  <2> HIDE DEF q
  <2> QED BY <2>1, <2>2
<1> QED BY <1>1, <1>2, <1>3, <1>4, <1>5 DEF Ops

LEMMA WholeInNumeric == Whole = {"CHAR", "SHORT", "INT"} /\ Numeric = Whole \union {"FLOAT", "DOUBLE"}
BY DEF Whole, Numeric, Bits

\* A cast gives a whole number, and keeps one that fits.
LEMMA CastIsInt ==
  ASSUME NEW t \in Numeric, NEW n \in Int
  PROVE Cast(n, t) \subseteq Int /\ (Fits(n, t) => Cast(n, t) = {n})
<1>1. CASE Fits(n, t) BY <1>1 DEF Cast
<1>2. CASE ~Fits(n, t)
  <2>1. t \in Whole BY <1>2 DEF Fits
  <2> DEFINE h == Half(t)
  <2>2. h \in Nat /\ ValuesOf(t) = -h .. h - 1 BY <2>1, Widths
  <2>3. Cast(n, t) = ValuesOf(t) BY <1>2 DEF Cast
  <2> HIDE DEF h
  <2> QED BY <1>2, <2>2, <2>3
<1> QED BY <1>1, <1>2

LEMMA CharPower == 2 ^ CharBits \in Int
<1>1. CharBits \in Nat BY WidthsAssumption
<1> QED BY <1>1, PowerPositive

\* What convert makes of a value is a whole number, and the value's own where it fits.
LEMMA ConvertExact ==
  ASSUME NEW v \in [type : DOMAIN Rank, num : Int], NEW t \in Numeric, CanConvert(v, t),
         v.type = "EMPTY" => v.num = 0
  PROVE /\ Convert(v, t) \subseteq Int
        /\ (v.type # t => AsDouble(v) = v.num) /\ Fits(v.num, t) => Convert(v, t) = {v.num}
<1>1. CASE v.type = t BY <1>1 DEF Convert
<1>2. CASE v.type # t /\ v.type = "EMPTY" BY <1>2 DEF Convert
<1>3. CASE v.type # t /\ v.type # "EMPTY"
  <2>1. AsDouble(v) \in Int BY CharPower DEF AsDouble
  <2>2. Convert(v, t) = Cast(AsDouble(v), t) BY <1>3 DEF Convert
  <2> QED BY <1>3, <2>1, <2>2, CastIsInt
<1> QED BY <1>1, <1>2, <1>3

\* The type an exact result has to fit.
Reach(op, t) == IF op = "-" /\ t = "INT" THEN "SHORT" ELSE t

\* What an operator gives for converted operands is a whole number, and the right one
\* where it fits.
LEMMA ResultsExact ==
  ASSUME NEW op \in Ops, NEW t \in Numeric, NEW m \in Int, NEW n \in Int,
         op \in {"/", "%"} => n # 0, op = "%" => t = "INT"
  PROVE /\ Results(op, t, m, n) \subseteq Int
        /\ Fits(Reference(op, m, n), Reach(op, t)) => Results(op, t, m, n) = {Reference(op, m, n)}
        /\ ResultType(op, t) \in Numeric
<1> DEFINE r == Reference(op, m, n)
           type == ResultType(op, t)
<1>1. r \in Int BY ReferenceIsInt
<1>2. type \in Numeric BY WholeInNumeric DEF ResultType, Ops
<1>3. \A i \in Int, u \in {"CHAR", "SHORT"} :
        /\ Narrow(i, u) = {Wrap(i, u)} /\ Wrap(i, u) \in Int /\ (Fits(i, u) => Wrap(i, u) = i)
  BY WrapOfFitting, WholeInNumeric DEF Narrow
<1>4. CASE t = "INT"
  <2>1. Results(op, t, m, n)
          = UNION {IF type \in {"CHAR", "SHORT"} THEN Narrow(i, type) ELSE {i} : i \in Cast(r, "INT")}
    BY <1>4 DEF Results
  <2>2. Cast(r, "INT") \subseteq Int /\ (Fits(r, "INT") => Cast(r, "INT") = {r})
    BY <1>1, CastIsInt, WholeInNumeric
  <2>3. type \in {"CHAR", "SHORT"} => op = "-" /\ type = "SHORT"
    BY <1>4, WholeInNumeric DEF ResultType, Ops
  <2>4. Fits(r, "SHORT") => Fits(r, "INT")
    <3> DEFINE s == Half("SHORT")
               i == Half("INT")
    <3>1. s \in Nat /\ i \in Nat /\ s <= i /\ ValuesOf("SHORT") = -s .. s - 1 /\ ValuesOf("INT") = -i .. i - 1
      BY Widths, ShortFitsInt, WholeInNumeric
    <3> HIDE DEF s, i
    <3>2. -s .. s - 1 \subseteq -i .. i - 1 BY <3>1
    <3> QED BY <3>1, <3>2, WholeInNumeric DEF Fits
  <2>5. Fits(r, Reach(op, t)) => Fits(r, "INT") /\ (op = "-" => Fits(r, "SHORT"))
    BY <2>4, <1>4 DEF Reach
  <2> HIDE DEF r, type
  <2>6. Results(op, t, m, n) \subseteq Int BY <2>1, <2>2, <1>3
  <2>7. ASSUME Fits(r, Reach(op, t)) PROVE Results(op, t, m, n) = {r}
    <3>1. Cast(r, "INT") = {r} BY <2>2, <2>5, <2>7
    <3>2. CASE type \in {"CHAR", "SHORT"}
      <4>1. Narrow(r, type) = {r} BY <3>2, <2>3, <2>5, <2>7, <1>1, <1>3
      <4> QED BY <4>1, <3>1, <3>2, <2>1
    <3>3. CASE type \notin {"CHAR", "SHORT"} BY <3>3, <3>1, <2>1
    <3> QED BY <3>2, <3>3
  <2> QED BY <1>2, <2>6, <2>7 DEF r, type
<1>5. CASE t # "INT"
  <2>1. Results(op, t, m, n) = IF type \in {"CHAR", "SHORT"} THEN Narrow(r, type) ELSE {r}
    BY <1>5 DEF Results
  <2>2. Reach(op, t) = t BY <1>5 DEF Reach
  <2>3. type \in {"CHAR", "SHORT"} => type = t
    BY <1>5, WholeInNumeric DEF ResultType, Ops
  <2> HIDE DEF r, type
  <2> QED BY <1>1, <1>2, <1>3, <2>1, <2>2, <2>3 DEF r, type
<1> QED BY <1>4, <1>5

\* What gets as far as the switch of an operator is numbers, or nothing.
LEMMA CommonIsNumeric ==
  ASSUME NEW op \in Ops, NEW v \in [type : DOMAIN Rank, num : Int],
         NEW w \in [type : DOMAIN Rank, num : Int],
         ~LeavesAlone(op, v, w), ~BreaksMemory(op, v, w),
         NEW t, t = (IF op = "%" THEN "INT" ELSE Common(v, w)),
         CanConvert(v, t), CanConvert(w, t)
  PROVE /\ t \in Numeric \union {"EMPTY"}
        /\ v.type \in Numeric \union {"EMPTY"} /\ w.type \in Numeric \union {"EMPTY"}
<1>1. v.type \in DOMAIN Rank /\ w.type \in DOMAIN Rank
      /\ DOMAIN Rank = {"EMPTY", "STRING", "USTRING", "VOID"} \union Numeric
  BY WholeInNumeric DEF Rank
<1>2. t = "INT" \/ t = v.type \/ t = w.type BY DEF Common
<1>3. op = "%" => t = "INT" OBVIOUS
<1> QED BY <1>1, <1>2, <1>3, WholeInNumeric DEF LeavesAlone, BreaksMemory, CanConvert, Textual, Ops

\* One operation.
LEMMA OperateKeeps ==
  ASSUME VariantInv, NEW w \in Operands, NEW op \in Ops, Operate(op, w)
  PROVE VariantInv'
<1> DEFINE t == IF op = "%" THEN "INT" ELSE Common(acc, w)
<1>1. w \in [type : DOMAIN Rank, num : Int] /\ (w.type = "EMPTY" => w.num = 0)
  BY OperandsAssumption DEF Nothing, Var
<1>2. acc \in [type : DOMAIN Rank, num : Int] BY DEF VariantInv
<1>3. CASE UNCHANGED <<acc, exact, faithful>> BY <1>3 DEF VariantInv
<1>4. CASE ~UNCHANGED <<acc, exact, faithful>>
  <2>1. /\ ~LeavesAlone(op, acc, w) /\ ~BreaksMemory(op, acc, w)
        /\ CanConvert(acc, t) /\ CanConvert(w, t) /\ t # "EMPTY"
        /\ \E m \in Convert(acc, t), n \in Convert(w, t) :
              /\ Divides(op, t, m, n)
              /\ \E r \in Results(op, t, m, n) : acc' = Var(ResultType(op, t), r)
              /\ exact' = IF w.num = 0 /\ op \in {"/", "%"} THEN 0 ELSE Reference(op, exact, w.num)
              /\ faithful' =
                   /\ faithful
                   /\ AsDouble(acc) = acc.num /\ AsDouble(w) = w.num
                   /\ Fits(acc.num, t) /\ Fits(w.num, t)
                   /\ Fits(exact', IF op = "-" /\ t = "INT" THEN "SHORT" ELSE t)
    BY <1>4 DEF Operate
  <2>2. op = "%" => t = "INT" OBVIOUS
  <2>3. /\ t \in Numeric \union {"EMPTY"}
        /\ acc.type \in Numeric \union {"EMPTY"} /\ w.type \in Numeric \union {"EMPTY"}
    BY <1>1, <1>2, <2>1, CommonIsNumeric
  <2> HIDE DEF t
  <2>4. PICK m \in Convert(acc, t), n \in Convert(w, t) :
              /\ Divides(op, t, m, n)
              /\ \E r \in Results(op, t, m, n) : acc' = Var(ResultType(op, t), r)
              /\ exact' = IF w.num = 0 /\ op \in {"/", "%"} THEN 0 ELSE Reference(op, exact, w.num)
              /\ faithful' =
                   /\ faithful
                   /\ AsDouble(acc) = acc.num /\ AsDouble(w) = w.num
                   /\ Fits(acc.num, t) /\ Fits(w.num, t)
                   /\ Fits(exact', IF op = "-" /\ t = "INT" THEN "SHORT" ELSE t)
    BY <2>1
  <2>5. t \in Numeric BY <2>1, <2>3
  <2>6. /\ Convert(acc, t) \subseteq Int
        /\ (acc.type # t => AsDouble(acc) = acc.num) /\ Fits(acc.num, t) => Convert(acc, t) = {acc.num}
    BY <1>2, <2>1, <2>5, ConvertExact DEF VariantInv
  <2>7. /\ Convert(w, t) \subseteq Int
        /\ (w.type # t => AsDouble(w) = w.num) /\ Fits(w.num, t) => Convert(w, t) = {w.num}
    BY <1>1, <2>1, <2>5, ConvertExact
  <2>8. m \in Int /\ n \in Int /\ (op \in {"/", "%"} => n # 0) BY <2>4, <2>6, <2>7 DEF Divides
  <2>9. /\ Results(op, t, m, n) \subseteq Int
        /\ Fits(Reference(op, m, n), Reach(op, t)) => Results(op, t, m, n) = {Reference(op, m, n)}
        /\ ResultType(op, t) \in Numeric
    BY <2>2, <2>5, <2>8, ResultsExact
  <2>10. PICK r \in Results(op, t, m, n) : acc' = Var(ResultType(op, t), r) BY <2>4
  <2>11. acc'.type = ResultType(op, t) /\ acc'.num = r /\ r \in Int
         /\ acc' \in [type : DOMAIN Rank, num : Int]
    <3>1. Numeric \subseteq DOMAIN Rank BY WholeInNumeric DEF Rank
    <3> QED BY <3>1, <2>9, <2>10 DEF Var
  <2>12. exact' \in Int
    <3>1. w.num \in Int /\ exact \in Int BY <1>1 DEF VariantInv
    <3> QED BY <3>1, <2>4, ReferenceIsInt
  <2>13. ASSUME faithful' PROVE r = exact'
    <3> DEFINE within ==
                 /\ faithful
                 /\ AsDouble(acc) = acc.num /\ AsDouble(w) = w.num
                 /\ Fits(acc.num, t) /\ Fits(w.num, t)
                 /\ Fits(exact', IF op = "-" /\ t = "INT" THEN "SHORT" ELSE t)
    <3>4. faithful' = within BY <2>4
    <3>5. within
      <4> HIDE DEF within
      <4> QED BY <3>4, <2>13, Zenon
    <3>6. Convert(acc, t) = {acc.num} /\ Convert(w, t) = {w.num} BY <3>5, <2>6, <2>7
    <3>7. Fits(exact', Reach(op, t)) BY <3>5 DEF Reach
    <3>1. m = acc.num /\ n = w.num BY <3>6
    <3>2. acc.num = exact BY <2>3, <3>5 DEF VariantInv
    <3>3. exact' = Reference(op, m, n) BY <3>1, <3>2, <2>4, <2>8
    <3> QED BY <3>3, <3>7, <2>9, <2>10
  <2>14. acc'.type # "EMPTY" BY <2>9, <2>11, WholeInNumeric
  <2> QED BY <2>11, <2>12, <2>13, <2>14 DEF VariantInv
<1> QED BY <1>3, <1>4

LEMMA VariantStep == VariantInv /\ [VariantNext]_variantVars => VariantInv'
<1> SUFFICES ASSUME VariantInv, [VariantNext]_variantVars PROVE VariantInv' OBVIOUS
<1>1. CASE UNCHANGED variantVars BY <1>1 DEF variantVars, VariantInv
<1>2. ASSUME NEW w \in Operands, AssignVar(w) PROVE VariantInv'
  <2>1. w \in [type : DOMAIN Rank, num : Int] /\ (w.type = "EMPTY" => w.num = 0)
    BY OperandsAssumption DEF Nothing, Var
  <2> QED BY <2>1, <1>2 DEF AssignVar, VariantInv
<1>3. ASSUME NEW w \in Operands, NEW op \in Ops, Operate(op, w) PROVE VariantInv'
  BY <1>3, OperateKeeps
<1> QED BY <1>1, <1>2, <1>3 DEF VariantNext, Ops

\* A comparison converts the right side alone, and that exactly where it is asked to.
LEMMA VariantInvCompares == VariantInv => ComparesExactly
<1> SUFFICES ASSUME VariantInv, NEW w \in Operands, Comparable(acc, w)
             PROVE IF acc.type = "STRING" THEN Compare("<", acc, w) = {acc.num < w.num}
                   ELSE Fits(w.num, acc.type) /\ (w.type # acc.type => AsDouble(w) = w.num) =>
                     \A rel \in {"<", ">", "<=", ">="} : Compare(rel, acc, w) = {Holds(rel, acc.num, w.num)}
  BY DEF ComparesExactly
<1>1. CASE acc.type = "STRING" BY <1>1 DEF Compare
<1>2. ASSUME acc.type # "STRING", Fits(w.num, acc.type), w.type # acc.type => AsDouble(w) = w.num,
             NEW rel \in {"<", ">", "<=", ">="}
      PROVE Compare(rel, acc, w) = {Holds(rel, acc.num, w.num)}
  <2>1. acc.type \in Numeric /\ w.type \in Numeric BY <1>2 DEF Comparable
  <2>2. CanConvert(w, acc.type) BY <2>1 DEF CanConvert
  <2>3. w \in [type : DOMAIN Rank, num : Int] /\ (w.type = "EMPTY" => w.num = 0)
    BY OperandsAssumption DEF Nothing, Var
  <2>4. Convert(w, acc.type) = {w.num} BY <2>1, <2>2, <2>3, <1>2, ConvertExact
  <2> QED BY <2>4, <1>2 DEF Compare
<1> QED BY <1>1, <1>2

\* SysVar's operators (operator+= to operator>=): where the operands' types leave room for
\* the result they compute and compare as whole numbers do, through any series of them,
\* for any operands and any widths of the types.
THEOREM OperatorsStayExact == VariantSpec => []OperatorsExact
<1>1. VariantInit => VariantInv BY VariantInitInv
<1>2. VariantInv /\ [VariantNext]_variantVars => VariantInv' BY VariantStep
<1>3. VariantInv => OperatorsExact BY VariantInvCompares DEF VariantInv, OperatorsExact, ComputesExactly
<1> QED BY <1>1, <1>2, <1>3, PTL DEF VariantSpec

-----------------------------------------------------------------------------
(* The numbers of XmlNumbers: induction and recursion first.               *)

\* Induction over the natural numbers, with a set where the library has an operator: a
\* number that is not in S would leave S no place to go on from below it.
LEMMA SetInduction ==
  ASSUME NEW S, 0 \in S, \A n \in Nat : n \in S => n + 1 \in S
  PROVE  \A n \in Nat : n \in S
<1> SUFFICES ASSUME NEW n \in Nat, n \notin S PROVE FALSE
  OBVIOUS
<1> DEFINE A == {k \in 0 .. n : k \in S}
           B == A \ {0}
           f == [k \in A |-> k + 1]
<1>1. IsFiniteSet(A)
  <2>1. IsFiniteSet(0 .. n) BY FS_Interval
  <2> QED BY <2>1, FS_Subset
<1>2. 0 \in A OBVIOUS
<1>3. IsFiniteSet(B) /\ Cardinality(B) = Cardinality(A) - 1 /\ Cardinality(A) \in Nat
  BY <1>1, <1>2, FS_RemoveElement, FS_CardinalityType
<1>4. f \in [A -> B]
  <2>1. \A k \in A : k + 1 \in B OBVIOUS
  <2> QED BY <2>1
<1>5. \E x, y \in A : x # y /\ f[x] = f[y]
  <2>1. Cardinality(B) < Cardinality(A) BY <1>3
  <2> HIDE DEF A, B, f
  <2> QED BY <1>1, <1>3, <1>4, <2>1, FS_PigeonHole
<1> QED BY <1>5

\* A function may be defined by what each of its values makes of the one before.
Follows(g, n, V, v0, D) ==
  g \in [0 .. n -> V] /\ g[0] = v0 /\ \A i \in 1 .. n : g[i] = D[<<g[i - 1], i>>]

\* There is a function that follows such a rule.
LEMMA Recursion ==
  ASSUME NEW n \in Nat, NEW V, NEW v0 \in V, NEW D \in [V \X (1 .. n) -> V]
  PROVE  \E g : Follows(g, n, V, v0, D)
<1> DEFINE Good(g, m) == g \in [0 .. m -> V] /\ g[0] = v0 /\ \A i \in 1 .. m : g[i] = D[<<g[i - 1], i>>]
           S == {m \in Nat : m <= n => \E g : Good(g, m)}
<1>1. 0 \in S
  <2>1. Good([k \in 0 .. 0 |-> v0], 0) OBVIOUS
  <2> QED BY <2>1
<1>2. ASSUME NEW m \in Nat, m \in S PROVE m + 1 \in S
  <2> SUFFICES ASSUME m + 1 <= n PROVE \E g : Good(g, m + 1)
    OBVIOUS
  <2>1. PICK g : Good(g, m) BY <1>2
  <2> DEFINE last == D[<<g[m], m + 1>>]
             h == [k \in 0 .. m + 1 |-> IF k <= m THEN g[k] ELSE last]
  <2>2. last \in V
    <3>1. g[m] \in V /\ m + 1 \in 1 .. n BY <2>1
    <3> QED BY <3>1
  <2>3. /\ \A k \in 0 .. m : h[k] = g[k] /\ g[k] \in V
        /\ h[m + 1] = last
    BY <2>1
  <2>4. h \in [0 .. m + 1 -> V] BY <2>1, <2>2
  <2>5. ASSUME NEW i \in 1 .. m + 1 PROVE h[i] = D[<<h[i - 1], i>>]
    <3>1. CASE i = m + 1
      <4>1. h[i - 1] = g[m] BY <2>3, <3>1
      <4> QED BY <4>1, <2>3, <3>1
    <3>2. CASE i # m + 1
      <4>1. i \in 1 .. m /\ i - 1 \in 0 .. m BY <3>2
      <4>2. h[i] = g[i] /\ h[i - 1] = g[i - 1] BY <4>1, <2>3
      <4> QED BY <4>1, <4>2, <2>1
    <3> QED BY <3>1, <3>2
  <2>6. h[0] = v0 BY <2>1, <2>3
  <2> QED BY <2>4, <2>5, <2>6
<1>3. n \in S
  <2> HIDE DEF S
  <2> QED BY <1>1, <1>2, SetInduction
<1> QED BY <1>3 DEF Follows

\* The characters of digits and their values.
LEMMA DigitValues ==
  /\ \A v \in 0 .. 15 : DigitValue(Hexadecimals[v + 1]) = v
  /\ \A v \in 0 .. 15 : Hexadecimals[v + 1] = "0" <=> v = 0
  /\ \A v \in 0 .. 15 : Hexadecimals[v + 1] \notin {" ", "-", "+", "x", "X"}
  /\ DigitValue("0") = 0
<1>1. \A v, u \in 0 .. 15 : Hexadecimals[v + 1] = Hexadecimals[u + 1] => v = u
  BY DEF Hexadecimals
<1>2. ASSUME NEW v \in 0 .. 15 PROVE DigitValue(Hexadecimals[v + 1]) = v
  <2> DEFINE c == Hexadecimals[v + 1]
  <2>1. \E u \in 0 .. 15 : Hexadecimals[u + 1] = c OBVIOUS
  <2>2. DigitValue(c) \in 0 .. 15 /\ Hexadecimals[DigitValue(c) + 1] = c
    BY <2>1, Zenon DEF DigitValue
  <2> QED BY <1>1, <2>2
<1>3. ASSUME NEW v, v = 0 PROVE DigitValue("0") = v
  <2>1. v \in 0 .. 15 /\ Hexadecimals[v + 1] = "0" BY <1>3 DEF Hexadecimals
  <2> QED BY <2>1, <1>2
<1> QED BY <1>2, <1>3 DEF Hexadecimals

\* A digit has a value below its base, and is that value's character.
LEMMA DigitIs ==
  ASSUME NEW b \in {10, 16}, NEW c \in Digits(b)
  PROVE  DigitValue(c) \in 0 .. b - 1 /\ Hexadecimals[DigitValue(c) + 1] = c
<1>1. PICK i \in 1 .. b : c = Hexadecimals[i] BY DEF Digits
<1>2. i - 1 \in 0 .. 15 /\ (i - 1) + 1 = i /\ i - 1 \in 0 .. b - 1 OBVIOUS
<1>3. DigitValue(Hexadecimals[(i - 1) + 1]) = i - 1 BY <1>2, DigitValues
<1> QED BY <1>1, <1>2, <1>3

-----------------------------------------------------------------------------
(* The size of a number, digit by digit.                                   *)

\* v has the sizes of the first digits of d.
Sized(d, b, v) ==
  /\ v \in [0 .. Len(d) -> Nat] /\ v[0] = 0
  /\ \A k \in 1 .. Len(d) : v[k] = v[k - 1] * b + DigitValue(d[k])

\* The parts of a numeral, as far as they are known.
NumeralOK(p) ==
  /\ p.base \in {10, 16} /\ p.negative \in BOOLEAN
  /\ p.digits \in Seq(Digits(p.base))

\* Size is a sum of that kind.
LEMMA SizeIs ==
  ASSUME NEW p, NumeralOK(p)
  PROVE  \E v : Sized(p.digits, p.base, v) /\ Size(p) = v[Len(p.digits)]
<1> DEFINE d == p.digits
           b == p.base
           n == Len(d)
           F(g) == [k \in 0 .. n |-> IF k = 0 THEN 0 ELSE g[k - 1] * b + DigitValue(d[k])]
           D == [x \in Nat \X (1 .. n) |-> x[1] * b + DigitValue(d[x[2]])]
<1>1. n \in Nat /\ b \in {10, 16} /\ \A k \in 1 .. n : DigitValue(d[k]) \in Nat
  <2>1. n \in Nat /\ b \in {10, 16} /\ \A k \in 1 .. n : d[k] \in Digits(b) BY DEF NumeralOK
  <2> QED BY <2>1, DigitIs
<1>2. D \in [Nat \X (1 .. n) -> Nat]
  <2>1. \A x \in Nat \X (1 .. n) : x[1] * b + DigitValue(d[x[2]]) \in Nat
    <3> SUFFICES ASSUME NEW x \in Nat \X (1 .. n) PROVE x[1] * b + DigitValue(d[x[2]]) \in Nat OBVIOUS
    <3>1. x[1] \in Nat /\ x[2] \in 1 .. n OBVIOUS
    <3>2. DigitValue(d[x[2]]) \in Nat BY <3>1, <1>1
    <3> QED BY <3>1, <3>2, <1>1
  <2> QED BY <2>1
<1>3. PICK g : Follows(g, n, Nat, 0, D)
  <2>1. 0 \in Nat OBVIOUS
  <2> HIDE DEF D, n
  <2> QED BY <1>1, <1>2, <2>1, Recursion, Zenon
<1>0. g \in [0 .. n -> Nat] /\ g[0] = 0 /\ \A i \in 1 .. n : g[i] = D[<<g[i - 1], i>>]
  BY <1>3 DEF Follows
<1>4. \A i \in 1 .. n : g[i] = g[i - 1] * b + DigitValue(d[i])
  <2> SUFFICES ASSUME NEW i \in 1 .. n PROVE g[i] = g[i - 1] * b + DigitValue(d[i]) OBVIOUS
  <2>1. i - 1 \in 0 .. n BY <1>1
  <2>2. g[i - 1] \in Nat BY <2>1, <1>0
  <2>3. <<g[i - 1], i>> \in Nat \X (1 .. n) BY <2>2
  <2> QED BY <2>3, <1>0
<1>5. g = F(g)
  <2>1. \A k \in 0 .. n : g[k] = IF k = 0 THEN 0 ELSE g[k - 1] * b + DigitValue(d[k])
    BY <1>1, <1>0, <1>4
  <2>2. g \in [0 .. n -> Nat] BY <1>0
  <2> QED BY <2>1, <2>2
<1> DEFINE f == CHOOSE h : h = F(h)
<1>6. f = F(f)
  <2>1. \E h : h = F(h) BY <1>5
  <2> HIDE DEF F
  <2> QED BY <2>1, Zenon
<1>7. Size(p) = f[n] BY Zenon DEF Size
<1> HIDE DEF f
<1>8. f[0] = 0 /\ \A k \in 1 .. n : f[k] = f[k - 1] * b + DigitValue(d[k])
  <2>1. \A k \in 0 .. n : f[k] = IF k = 0 THEN 0 ELSE f[k - 1] * b + DigitValue(d[k])
    <3> HIDE DEF n, b, d
    <3>1. F(f) = [k \in 0 .. n |-> IF k = 0 THEN 0 ELSE f[k - 1] * b + DigitValue(d[k])] OBVIOUS
    <3> HIDE DEF F
    <3> QED BY ONLY <3>1, <1>6, Zenon
  <2> HIDE DEF b, d, F
  <2> QED BY ONLY <2>1, <1>1
<1>9. \A k \in 0 .. n : f[k] \in Nat
  <2> DEFINE S == {k \in Nat : k <= n => f[k] \in Nat}
  <2>1. 0 \in S BY <1>8
  <2>2. ASSUME NEW k \in Nat, k \in S PROVE k + 1 \in S
    <3> SUFFICES ASSUME k + 1 <= n PROVE f[k + 1] \in Nat OBVIOUS
    <3>1. f[k] \in Nat /\ k + 1 \in 1 .. n BY <2>2, <1>1
    <3>2. f[k + 1] = f[k] * b + DigitValue(d[k + 1]) BY <3>1, <1>8
    <3> QED BY <3>1, <3>2, <1>1
  <2>3. \A k \in Nat : k \in S
    <3> HIDE DEF S
    <3> QED BY <2>1, <2>2, SetInduction
  <2> QED BY <2>3, <1>1
<1>10. f \in [0 .. n -> Nat] BY <1>6, <1>9
<1> QED BY <1>7, <1>8, <1>10 DEF Sized

\* w has them when all arithmetic is that of U.
WrappedSized(d, b, w) ==
  /\ w \in [0 .. Len(d) -> Nat] /\ w[0] = 0
  /\ \A k \in 1 .. Len(d) : w[k] = (w[k - 1] * b + DigitValue(d[k])) % Modulus

\* Wrapped is a sum of the other.
LEMMA WrappedIs ==
  ASSUME NEW p, NumeralOK(p)
  PROVE  \E w : WrappedSized(p.digits, p.base, w) /\ Wrapped(p) = w[Len(p.digits)]
<1> DEFINE d == p.digits
           b == p.base
           n == Len(d)
           F(g) == [k \in 0 .. n |-> IF k = 0 THEN 0 ELSE (g[k - 1] * b + DigitValue(d[k])) % Modulus]
           D == [x \in Nat \X (1 .. n) |-> (x[1] * b + DigitValue(d[x[2]])) % Modulus]
<1>1. n \in Nat /\ b \in {10, 16} /\ \A k \in 1 .. n : DigitValue(d[k]) \in Nat
  <2>1. n \in Nat /\ b \in {10, 16} /\ \A k \in 1 .. n : d[k] \in Digits(b) BY DEF NumeralOK
  <2> QED BY <2>1, DigitIs
<1>m. Modulus \in Nat /\ Modulus > 0
  BY WordAssumption, PowerPositive DEF Modulus
<1>2. D \in [Nat \X (1 .. n) -> Nat]
  <2>1. \A x \in Nat \X (1 .. n) : (x[1] * b + DigitValue(d[x[2]])) % Modulus \in Nat
    <3> SUFFICES ASSUME NEW x \in Nat \X (1 .. n) PROVE (x[1] * b + DigitValue(d[x[2]])) % Modulus \in Nat OBVIOUS
    <3>1. x[1] \in Nat /\ x[2] \in 1 .. n OBVIOUS
    <3>2. DigitValue(d[x[2]]) \in Nat BY <3>1, <1>1
    <3> DEFINE y == x[1] * b + DigitValue(d[x[2]])
    <3>3. y \in Nat BY <3>1, <3>2, <1>1
    <3> HIDE DEF y
    <3>4. y % Modulus \in Nat BY <3>3, <1>m
    <3> QED BY <3>4, <3>2 DEF y
  <2> QED BY <2>1
<1>3. PICK g : Follows(g, n, Nat, 0, D)
  <2>1. 0 \in Nat OBVIOUS
  <2> HIDE DEF D, n
  <2> QED BY <1>1, <1>2, <2>1, Recursion, Zenon
<1>0. g \in [0 .. n -> Nat] /\ g[0] = 0 /\ \A i \in 1 .. n : g[i] = D[<<g[i - 1], i>>]
  BY <1>3 DEF Follows
<1>4. \A i \in 1 .. n : g[i] = (g[i - 1] * b + DigitValue(d[i])) % Modulus
  <2> SUFFICES ASSUME NEW i \in 1 .. n PROVE g[i] = (g[i - 1] * b + DigitValue(d[i])) % Modulus OBVIOUS
  <2>1. i - 1 \in 0 .. n BY <1>1
  <2>2. g[i - 1] \in Nat BY <2>1, <1>0
  <2>3. <<g[i - 1], i>> \in Nat \X (1 .. n) BY <2>2
  <2> QED BY <2>3, <1>0
<1>5. g = F(g)
  <2>1. \A k \in 0 .. n : g[k] = IF k = 0 THEN 0 ELSE (g[k - 1] * b + DigitValue(d[k])) % Modulus
    BY <1>1, <1>0, <1>4
  <2>2. g \in [0 .. n -> Nat] BY <1>0
  <2> QED BY <2>1, <2>2
<1> DEFINE f == CHOOSE h : h = F(h)
<1>6. f = F(f)
  <2>1. \E h : h = F(h) BY <1>5
  <2> HIDE DEF F
  <2> QED BY <2>1, Zenon
<1>7. Wrapped(p) = f[n] BY Zenon DEF Wrapped
<1> HIDE DEF f
<1>8. f[0] = 0 /\ \A k \in 1 .. n : f[k] = (f[k - 1] * b + DigitValue(d[k])) % Modulus
  <2>1. \A k \in 0 .. n : f[k] = IF k = 0 THEN 0 ELSE (f[k - 1] * b + DigitValue(d[k])) % Modulus
    <3> HIDE DEF n, b, d
    <3>1. F(f) = [k \in 0 .. n |-> IF k = 0 THEN 0 ELSE (f[k - 1] * b + DigitValue(d[k])) % Modulus] OBVIOUS
    <3> HIDE DEF F
    <3> QED BY ONLY <3>1, <1>6, Zenon
  <2> HIDE DEF b, d, F
  <2> QED BY ONLY <2>1, <1>1
<1>9. \A k \in 0 .. n : f[k] \in Nat
  <2> DEFINE S == {k \in Nat : k <= n => f[k] \in Nat}
  <2>1. 0 \in S BY <1>8
  <2>2. ASSUME NEW k \in Nat, k \in S PROVE k + 1 \in S
    <3> SUFFICES ASSUME k + 1 <= n PROVE f[k + 1] \in Nat OBVIOUS
    <3>1. f[k] \in Nat /\ k + 1 \in 1 .. n BY <2>2, <1>1
    <3>2. f[k + 1] = (f[k] * b + DigitValue(d[k + 1])) % Modulus BY <3>1, <1>8
    <3> DEFINE y == f[k] * b + DigitValue(d[k + 1])
    <3>3. y \in Nat BY <3>1, <3>2, <1>1
    <3> HIDE DEF y
    <3>4. y % Modulus \in Nat BY <3>3, <1>m
    <3> QED BY <3>4, <3>2 DEF y
  <2>3. \A k \in Nat : k \in S
    <3> HIDE DEF S
    <3> QED BY <2>1, <2>2, SetInduction
  <2> QED BY <2>3, <1>1
<1>10. f \in [0 .. n -> Nat] BY <1>6, <1>9
<1> QED BY <1>7, <1>8, <1>10 DEF WrappedSized

-----------------------------------------------------------------------------
(* How large a number of so many digits is.                                *)

\* t has the powers of b.
IsPowers(t, n, b) == t \in [0 .. n -> Nat] /\ t[0] = 1 /\ \A k \in 1 .. n : t[k] = b * t[k - 1]

LEMMA Powers ==
  ASSUME NEW n \in Nat, NEW b \in {10, 16}
  PROVE  \E t : IsPowers(t, n, b)
<1> DEFINE D == [x \in Nat \X (1 .. n) |-> b * x[1]]
<1>1. D \in [Nat \X (1 .. n) -> Nat]
  <2>1. \A x \in Nat \X (1 .. n) : b * x[1] \in Nat OBVIOUS
  <2> QED BY <2>1
<1>2. PICK g : Follows(g, n, Nat, 1, D)
  <2>1. 1 \in Nat OBVIOUS
  <2> HIDE DEF D
  <2> QED BY <1>1, <2>1, Recursion, Zenon
<1>3. g \in [0 .. n -> Nat] /\ g[0] = 1 /\ \A i \in 1 .. n : g[i] = D[<<g[i - 1], i>>]
  BY <1>2 DEF Follows
<1>4. ASSUME NEW i \in 1 .. n PROVE g[i] = b * g[i - 1]
  <2>1. i - 1 \in 0 .. n OBVIOUS
  <2>2. g[i - 1] \in Nat BY <2>1, <1>3
  <2>3. <<g[i - 1], i>> \in Nat \X (1 .. n) BY <2>2
  <2> QED BY <2>3, <1>3
<1> QED BY <1>3, <1>4 DEF IsPowers

LEMMA PowersPositive ==
  ASSUME NEW n \in Nat, NEW b \in {10, 16}, NEW t, IsPowers(t, n, b)
  PROVE  \A k \in 0 .. n : t[k] >= 1
<1> DEFINE S == {k \in Nat : k <= n => t[k] >= 1}
<1>1. 0 \in S BY DEF IsPowers
<1>2. ASSUME NEW k \in Nat, k \in S PROVE k + 1 \in S
  <2> SUFFICES ASSUME k + 1 <= n PROVE t[k + 1] >= 1 OBVIOUS
  <2>1. t[k] >= 1 /\ k \in 0 .. n /\ k + 1 \in 1 .. n BY <1>2
  <2>2. t[k] \in Nat /\ t[k + 1] = b * t[k] BY <2>1 DEF IsPowers
  <2> QED BY <2>1, <2>2
<1>3. \A k \in Nat : k \in S
  <2> HIDE DEF S
  <2> QED BY <1>1, <1>2, SetInduction
<1> QED BY <1>3

\* A number begins with the number of its first digits.
LEMMA Bounds ==
  ASSUME NEW b \in {10, 16}, NEW d \in Seq(Digits(b)), NEW v, Sized(d, b, v),
         NEW n \in Nat, Len(d) <= n, NEW t, IsPowers(t, n, b), NEW j \in 0 .. Len(d)
  PROVE  \A k \in j .. Len(d) : v[j] * t[k - j] <= v[k] /\ v[k] < (v[j] + 1) * t[k - j]
<1> DEFINE Within(k) == v[j] * t[k - j] <= v[k] /\ v[k] < (v[j] + 1) * t[k - j]
           S == {e \in Nat : j + e <= Len(d) => Within(j + e)}
<1>1. v[j] \in Nat /\ Len(d) \in Nat BY DEF Sized
<1>2. 0 \in S
  <2>1. t[(j + 0) - j] = 1 /\ v[j + 0] = v[j] BY <1>1 DEF IsPowers
  <2> QED BY <2>1, <1>1
<1>3. ASSUME NEW e \in Nat, e \in S PROVE e + 1 \in S
  <2> SUFFICES ASSUME j + (e + 1) <= Len(d) PROVE Within(j + (e + 1)) OBVIOUS
  <2> DEFINE k == j + e
  <2>1. k \in 0 .. Len(d) /\ k + 1 \in 1 .. Len(d) /\ k - j = e /\ (k + 1) - j = e + 1
        /\ e \in 0 .. n /\ e + 1 \in 1 .. n /\ j + (e + 1) = k + 1
    BY <1>1
  <2>2. v[k] \in Nat /\ v[k + 1] = v[k] * b + DigitValue(d[k + 1])
    BY <2>1 DEF Sized
  <2>3. DigitValue(d[k + 1]) \in 0 .. b - 1
    <3>1. d[k + 1] \in Digits(b) BY <2>1
    <3> QED BY <3>1, DigitIs
  <2>4. t[e] \in Nat /\ t[e + 1] = b * t[e] BY <2>1 DEF IsPowers
  <2>5. v[j] * t[e] <= v[k] /\ v[k] < (v[j] + 1) * t[e] BY <1>3, <2>1
  <2> DEFINE A == v[j]
             T == t[e]
             x == v[k]
             c == DigitValue(d[k + 1])
  <2>6. A \in Nat /\ T \in Nat /\ x \in Nat /\ c \in 0 .. b - 1 /\ A * T <= x /\ x < (A + 1) * T
    BY <1>1, <2>2, <2>3, <2>4, <2>5
  <2>7. A * (b * T) <= x * b + c /\ x * b + c < (A + 1) * (b * T)
    <3> HIDE DEF A, T, x, c
    <3> DEFINE L == A * T
               U == (A + 1) * T
    <3>1. L \in Nat /\ U \in Nat BY <2>6
    <3>2. A * (b * T) = b * L /\ (A + 1) * (b * T) = b * U BY <2>6
    <3>3. L <= x /\ x + 1 <= U BY <2>6, <3>1
    <3> HIDE DEF L, U
    <3>4. CASE b = 10 BY <2>6, <3>1, <3>2, <3>3, <3>4
    <3>5. CASE b = 16 BY <2>6, <3>1, <3>2, <3>3, <3>5
    <3> QED BY <3>4, <3>5
  <2> QED BY <2>1, <2>2, <2>4, <2>7
<1>4. \A e \in Nat : e \in S
  <2> HIDE DEF S
  <2> QED BY <1>2, <1>3, SetInduction
<1>5. ASSUME NEW k \in j .. Len(d) PROVE Within(k)
  <2>1. k - j \in Nat /\ j + (k - j) = k BY <1>1
  <2> QED BY <2>1, <1>4
<1> QED BY <1>5

\* What has no more than so many digits is as it should be with U's arithmetic, and what
\* has one digit more is wrapped around.
LEMMA WrappedFits ==
  ASSUME NEW b \in {10, 16}, NEW d \in Seq(Digits(b)), NEW v, Sized(d, b, v), NEW w, WrappedSized(d, b, w),
         NEW k \in 0 .. Len(d), v[k] < Modulus
  PROVE  w[k] = v[k]
<1>m. Modulus \in Nat /\ Modulus > 0
  BY WordAssumption, PowerPositive DEF Modulus
<1> DEFINE S == {i \in Nat : i <= Len(d) /\ v[i] < Modulus => w[i] = v[i]}
<1>1. 0 \in S BY DEF Sized, WrappedSized
<1>2. ASSUME NEW i \in Nat, i \in S PROVE i + 1 \in S
  <2> SUFFICES ASSUME i + 1 <= Len(d), v[i + 1] < Modulus PROVE w[i + 1] = v[i + 1] OBVIOUS
  <2>1. i \in 0 .. Len(d) /\ i + 1 \in 1 .. Len(d) /\ (i + 1) - 1 = i OBVIOUS
  <2> DEFINE c == DigitValue(d[i + 1])
             x == v[i]
  <2>2. x \in Nat /\ c \in Nat /\ v[i + 1] = x * b + c
    <3>1. d[i + 1] \in Digits(b) BY <2>1
    <3>2. c \in Nat BY <3>1, DigitIs
    <3> QED BY <2>1, <3>2 DEF Sized
  <2>3. w[i + 1] = (w[i] * b + c) % Modulus BY <2>1 DEF WrappedSized
  <2>4. x <= x * b + c
    <3> HIDE DEF x, c
    <3> QED BY <2>2
  <2>5. w[i] = x BY <1>2, <2>1, <2>2, <2>4, <1>m
  <2> DEFINE y == x * b + c
  <2>6. y \in 0 .. Modulus - 1
    <3>1. y \in Nat /\ y < Modulus BY <2>1, <2>2
    <3> HIDE DEF y
    <3> QED BY <3>1, <1>m
  <2>7. y % Modulus = y
    <3> HIDE DEF y
    <3> QED BY <2>6, <1>m
  <2> QED BY <2>2, <2>3, <2>5, <2>7
<1>3. \A i \in Nat : i \in S
  <2> HIDE DEF S
  <2> QED BY <1>1, <1>2, SetInduction
<1> QED BY <1>3

\* The sizes are determined by the digits.
LEMMA SizedOnce ==
  ASSUME NEW d, Len(d) \in Nat, NEW b, NEW v, Sized(d, b, v), NEW u, Sized(d, b, u)
  PROVE  v[Len(d)] = u[Len(d)]
<1> DEFINE S == {i \in Nat : i <= Len(d) => v[i] = u[i]}
<1>1. 0 \in S BY DEF Sized
<1>2. ASSUME NEW i \in Nat, i \in S PROVE i + 1 \in S
  <2> SUFFICES ASSUME i + 1 <= Len(d) PROVE v[i + 1] = u[i + 1] OBVIOUS
  <2>1. v[i] = u[i] /\ i + 1 \in 1 .. Len(d) /\ (i + 1) - 1 = i BY <1>2
  <2> QED BY <2>1 DEF Sized
<1>3. \A i \in Nat : i \in S
  <2> HIDE DEF S
  <2> QED BY <1>1, <1>2, SetInduction
<1> QED BY <1>3

-----------------------------------------------------------------------------
(* The digits of a number.                                                 *)

\* d are the digits of k.
DigitsOf(d, k) ==
  /\ d \in Seq(Digits(10)) /\ d # <<>>
  /\ \E v : Sized(d, 10, v) /\ v[Len(d)] = k
  /\ d[1] = "0" => d = <<"0">>

\* A number below ten is one digit,
LEMMA OneDigit ==
  ASSUME NEW k \in 0 .. 9
  PROVE  DigitsOf(<<Hexadecimals[k + 1]>>, k)
<1> DEFINE c == Hexadecimals[k + 1]
           d == <<c>>
           v == [i \in 0 .. 1 |-> IF i = 0 THEN 0 ELSE k]
<1>1. c \in Digits(10)
  <2>1. k + 1 \in 1 .. 10 OBVIOUS
  <2> QED BY <2>1 DEF Digits
<1>2. DigitValue(c) = k
  <2>1. k \in 0 .. 15 OBVIOUS
  <2> QED BY <2>1, DigitValues
<1> HIDE DEF c
<1>3. d \in Seq(Digits(10)) /\ d # <<>> /\ Len(d) = 1 /\ d[1] = c BY <1>1
<1>4. Sized(d, 10, v) /\ v[Len(d)] = k
  <2>1. v \in [0 .. 1 -> Nat] /\ v[0] = 0 /\ v[1] = k OBVIOUS
  <2>2. \A i \in 1 .. 1 : v[i] = v[i - 1] * 10 + DigitValue(d[i])
    <3>1. k = 0 * 10 + k OBVIOUS
    <3> QED BY <2>1, <3>1, <1>2, <1>3
  <2> HIDE DEF v, d
  <2> QED BY <2>1, <2>2, <1>3 DEF Sized
<1> HIDE DEF v
<1> QED BY <1>3, <1>4 DEF DigitsOf, c

\* and another digit makes ten times as much.
LEMMA OneDigitMore ==
  ASSUME NEW k \in Nat, k # 0, NEW e, DigitsOf(e, k), NEW r \in 0 .. 9
  PROVE  DigitsOf(Append(e, Hexadecimals[r + 1]), 10 * k + r)
<1> DEFINE c == Hexadecimals[r + 1]
           d == Append(e, c)
           n == Len(e)
<1>1. c \in Digits(10)
  <2>1. r + 1 \in 1 .. 10 OBVIOUS
  <2> QED BY <2>1 DEF Digits
<1>2. DigitValue(c) = r
  <2>1. r \in 0 .. 15 OBVIOUS
  <2> QED BY <2>1, DigitValues
<1> HIDE DEF c
<1>3. PICK v : Sized(e, 10, v) /\ v[n] = k BY DEF DigitsOf
<1>4. /\ d \in Seq(Digits(10)) /\ d # <<>> /\ Len(d) = n + 1 /\ n \in Nat /\ n # 0
      /\ d[n + 1] = c /\ \A i \in 1 .. n : d[i] = e[i]
  BY <1>1 DEF DigitsOf
<1> DEFINE u == [i \in 0 .. n + 1 |-> IF i = n + 1 THEN 10 * k + r ELSE v[i]]
<1>5. v \in [0 .. n -> Nat] /\ v[0] = 0 /\ \A i \in 1 .. n : v[i] = v[i - 1] * 10 + DigitValue(e[i])
  BY <1>3 DEF Sized
<1>h. HIDE DEF d, n
<1>6. u \in [0 .. n + 1 -> Nat] /\ u[0] = 0 /\ u[n + 1] = 10 * k + r /\ \A i \in 0 .. n : u[i] = v[i]
  BY <1>4, <1>5
<1>7. ASSUME NEW i \in 1 .. n + 1 PROVE u[i] = u[i - 1] * 10 + DigitValue(d[i])
  <2>1. CASE i = n + 1
    <3>1. u[i - 1] = k BY <1>3, <1>4, <1>6, <2>1
    <3> QED BY <1>2, <1>4, <1>6, <2>1, <3>1
  <2>2. CASE i # n + 1
    <3>1. i \in 1 .. n /\ i - 1 \in 0 .. n /\ i \in 0 .. n BY <1>4, <2>2
    <3> QED BY <1>4, <1>5, <1>6, <3>1
  <2> QED BY <2>1, <2>2
<1> HIDE DEF u
<1>8. Sized(d, 10, u) /\ u[Len(d)] = 10 * k + r
  BY <1>4, <1>6, <1>7 DEF Sized
<1>9. d[1] # "0"
  <2>1. d[1] = e[1] BY <1>4
  <2>2. ASSUME e[1] = "0" PROVE FALSE
    <3>1. e = <<"0">> BY <2>2 DEF DigitsOf
    <3>2. n = 1 BY <3>1 DEF n
    <3>3. DigitValue("0") = 0 BY DigitValues
    <3>4. v[1] = v[0] * 10 + DigitValue(e[1]) BY <1>5, <3>2
    <3> QED BY <3>2, <3>3, <3>4, <2>2, <1>3, <1>5
  <2> QED BY <2>1, <2>2
<1> QED BY <1>4, <1>8, <1>9 DEF DigitsOf, d, c

\* DecimalOf gives the digits of a number.
LEMMA DecimalIs ==
  ASSUME NEW n \in Nat
  PROVE  DigitsOf(DecimalOf(n), n)
<1> DEFINE Next10(g, k) == IF k < 10 THEN <<Hexadecimals[k + 1]>> ELSE Append(g[k \div 10], Hexadecimals[(k % 10) + 1])
           F(g) == [k \in 0 .. n |-> Next10(g, k)]
           Good(g, m) == \A k \in 0 .. m : g[k] = Next10(g, k)
           S == {m \in Nat : m <= n => \E g : g = [k \in 0 .. m |-> g[k]] /\ Good(g, m)}
<1>d. \A k \in Nat : k >= 10 => k \div 10 \in 0 .. k - 1 /\ k \div 10 # 0 /\ k % 10 \in 0 .. 9 /\ 10 * (k \div 10) + (k % 10) = k
  OBVIOUS
<1>1. 0 \in S
  <2> DEFINE g == [k \in 0 .. 0 |-> <<Hexadecimals[k + 1]>>]
  <2>1. g = [k \in 0 .. 0 |-> g[k]] /\ Good(g, 0) OBVIOUS
  <2> QED BY <2>1
<1>2. ASSUME NEW m \in Nat, m \in S PROVE m + 1 \in S
  <2> SUFFICES ASSUME m + 1 <= n PROVE \E g : g = [k \in 0 .. m + 1 |-> g[k]] /\ Good(g, m + 1)
    OBVIOUS
  <2>1. PICK g : Good(g, m) BY <1>2
  <2> DEFINE h == [k \in 0 .. m + 1 |-> IF k <= m THEN g[k] ELSE Next10(g, m + 1)]
  <2>2. \A k \in 0 .. m : h[k] = g[k] OBVIOUS
  <2>3. h[m + 1] = Next10(g, m + 1) OBVIOUS
  <2>4. ASSUME NEW k \in 0 .. m + 1 PROVE h[k] = Next10(h, k)
    <3>1. k >= 10 => k \div 10 \in 0 .. m
      <4>1. k >= 10 => k \div 10 \in 0 .. k - 1 BY <1>d
      <4> QED BY <4>1
    <3>2. k >= 10 => h[k \div 10] = g[k \div 10] BY <3>1, <2>2
    <3>3. Next10(h, k) = Next10(g, k)
      <4> HIDE DEF h
      <4> QED BY <3>2
    <3>4. CASE k = m + 1
      <4> HIDE DEF h
      <4> QED BY <3>3, <3>4, <2>3
    <3>5. CASE k # m + 1
      <4>1. k \in 0 .. m BY <3>5
      <4> HIDE DEF h
      <4> QED BY <4>1, <3>3, <2>2, <2>1
    <3> QED BY <3>4, <3>5
  <2>5. h = [k \in 0 .. m + 1 |-> h[k]] OBVIOUS
  <2> HIDE DEF h
  <2> QED BY <2>4, <2>5
<1>3. n \in S
  <2> HIDE DEF S
  <2> QED BY <1>1, <1>2, SetInduction
<1>4. PICK g : g = [k \in 0 .. n |-> g[k]] /\ Good(g, n) BY <1>3
<1>5. g = F(g) BY <1>4
<1> DEFINE f == CHOOSE h : h = F(h)
<1>6. f = F(f)
  <2>1. \E h : h = F(h) BY <1>5
  <2> HIDE DEF F
  <2> QED BY <2>1, Zenon
<1>7. DecimalOf(n) = f[n] BY Zenon DEF DecimalOf
<1> HIDE DEF f
<1>8. \A k \in 0 .. n : f[k] = Next10(f, k)
  <2> HIDE DEF Next10
  <2>1. F(f) = [k \in 0 .. n |-> Next10(f, k)] OBVIOUS
  <2> HIDE DEF F
  <2> QED BY ONLY <2>1, <1>6, Zenon
<1>f. ASSUME NEW k \in 0 .. n
      PROVE  /\ k < 10 => f[k] = <<Hexadecimals[k + 1]>>
             /\ k >= 10 => f[k] = Append(f[k \div 10], Hexadecimals[(k % 10) + 1])
  <2>1. f[k] = Next10(f, k)
    <3> HIDE DEF Next10
    <3> QED BY <1>8
  <2>2. k >= 10 => ~(k < 10) OBVIOUS
  <2> QED BY ONLY <2>1, <2>2, Zenon
<1> DEFINE T == {m \in Nat : m <= n => \A k \in 0 .. m : DigitsOf(f[k], k)}
<1>9. 0 \in T
  <2>1. ASSUME NEW z, z = 0 PROVE DigitsOf(f[z], z)
    <3>1. z \in 0 .. n /\ z < 10 /\ z \in 0 .. 9 BY <2>1
    <3>2. f[z] = <<Hexadecimals[z + 1]>> BY <3>1, <1>f
    <3> QED BY <3>1, <3>2, OneDigit
  <2> QED BY <2>1
<1>10. ASSUME NEW m \in Nat, m \in T PROVE m + 1 \in T
  <2> SUFFICES ASSUME m + 1 <= n PROVE DigitsOf(f[m + 1], m + 1)
    BY <1>10
  <2> DEFINE k == m + 1
  <2>1. CASE k < 10
    <3>1. f[k] = <<Hexadecimals[k + 1]>> /\ k \in 0 .. 9
      <4>1. k \in 0 .. n /\ k \in 0 .. 9 BY <2>1
      <4> HIDE DEF k
      <4> QED BY <4>1, <2>1, <1>f
    <3> QED BY <3>1, OneDigit
  <2>2. CASE k >= 10
    <3> DEFINE q == k \div 10
               r == k % 10
    <3>1. q \in 0 .. m /\ q # 0 /\ r \in 0 .. 9 /\ 10 * q + r = k
      <4>1. k \in Nat /\ k - 1 = m OBVIOUS
      <4> QED BY <4>1, <1>d, <2>2
    <3>2. f[k] = Append(f[q], Hexadecimals[r + 1])
      <4>1. k \in 0 .. n OBVIOUS
      <4> HIDE DEF k
      <4> QED BY <4>1, <2>2, <1>f
    <3>3. DigitsOf(f[q], q) BY <1>10, <3>1
    <3> HIDE DEF q, r, k
    <3>4. q \in Nat BY <3>1
    <3>5. DigitsOf(Append(f[q], Hexadecimals[r + 1]), 10 * q + r) BY <3>1, <3>3, <3>4, OneDigitMore
    <3>6. DigitsOf(f[k], k) BY <3>1, <3>2, <3>5
    <3> QED BY <3>6 DEF k
  <2> QED BY <2>1, <2>2
<1>11. n \in T
  <2> HIDE DEF T
  <2> QED BY <1>9, <1>10, SetInduction
<1> QED BY <1>7, <1>11

-----------------------------------------------------------------------------
(* The width of a word.                                                    *)

\* Sixteen is the fourth power of two.
LEMMA SixteenPowers ==
  ASSUME NEW n \in Nat, NEW t, IsPowers(t, n, 16)
  PROVE  \A k \in 0 .. n : t[k] = 2 ^ (4 * k)
<1> DEFINE S == {k \in Nat : k <= n => t[k] = 2 ^ (4 * k)}
<1>1. 0 \in S
  <2>1. 2 ^ (4 * 0) = 1
    <3>1. IsFiniteSet(SUBSET (1 .. 0)) /\ Cardinality(SUBSET (1 .. 0)) = 2 ^ 0 BY PowerIsCardinality
    <3>2. SUBSET (1 .. 0) = {{}} OBVIOUS
    <3>3. Cardinality({{}}) = 1 BY FS_Singleton
    <3>4. 2 ^ 0 = 1 BY <3>1, <3>2, <3>3
    <3>5. 4 * 0 = 0 OBVIOUS
    <3> QED BY <3>4, <3>5
  <2> QED BY <2>1 DEF IsPowers
<1>2. ASSUME NEW k \in Nat, k \in S PROVE k + 1 \in S
  <2> SUFFICES ASSUME k + 1 <= n PROVE t[k + 1] = 2 ^ (4 * (k + 1)) OBVIOUS
  <2>1. k + 1 \in 1 .. n /\ (k + 1) - 1 = k OBVIOUS
  <2>2. t[k + 1] = 16 * t[k] BY <2>1 DEF IsPowers
  <2>3. t[k] = 2 ^ (4 * k) BY <1>2
  <2> DEFINE j == 4 * k
  <2>4. j \in Nat /\ 4 * (k + 1) = (((j + 1) + 1) + 1) + 1 OBVIOUS
  <2>h. HIDE DEF j
  <2>5. /\ 2 ^ j \in Nat /\ 2 ^ (j + 1) = 2 ^ j + 2 ^ j
        /\ 2 ^ ((j + 1) + 1) = 2 ^ (j + 1) + 2 ^ (j + 1)
        /\ 2 ^ (((j + 1) + 1) + 1) = 2 ^ ((j + 1) + 1) + 2 ^ ((j + 1) + 1)
        /\ 2 ^ ((((j + 1) + 1) + 1) + 1) = 2 ^ (((j + 1) + 1) + 1) + 2 ^ (((j + 1) + 1) + 1)
    <3>1. j + 1 \in Nat /\ (j + 1) + 1 \in Nat /\ ((j + 1) + 1) + 1 \in Nat BY <2>4
    <3>2. 2 ^ (j + 1) = 2 ^ j + 2 ^ j BY <2>4, PowerDoubles
    <3>3. 2 ^ ((j + 1) + 1) = 2 ^ (j + 1) + 2 ^ (j + 1) BY <3>1, PowerDoubles
    <3>4. 2 ^ (((j + 1) + 1) + 1) = 2 ^ ((j + 1) + 1) + 2 ^ ((j + 1) + 1) BY <3>1, PowerDoubles
    <3>5. 2 ^ ((((j + 1) + 1) + 1) + 1) = 2 ^ (((j + 1) + 1) + 1) + 2 ^ (((j + 1) + 1) + 1)
      BY <3>1, PowerDoubles
    <3>6. 2 ^ j \in Nat BY <2>4, PowerPositive
    <3> QED BY ONLY <3>2, <3>3, <3>4, <3>5, <3>6
  <2> DEFINE p == 2 ^ j
             q == 2 ^ (j + 1)
             r == 2 ^ ((j + 1) + 1)
             u == 2 ^ (((j + 1) + 1) + 1)
             z == 2 ^ ((((j + 1) + 1) + 1) + 1)
  <2>6. p \in Nat /\ q = p + p /\ r = q + q /\ u = r + r /\ z = u + u BY <2>5
  <2>7. t[k] = p /\ 2 ^ (4 * (k + 1)) = z BY <2>3, <2>4 DEF j
  <2> HIDE DEF p, q, r, u, z
  <2>8. z = 16 * p BY <2>6
  <2> QED BY <2>2, <2>7, <2>8
<1>3. \A k \in Nat : k \in S
  <2> HIDE DEF S
  <2> QED BY <1>1, <1>2, SetInduction
<1> QED BY <1>3

\* Half the number of values a word has.
Halved == 2 ^ (WordBits - 1)

LEMMA WordIs ==
  /\ Halved \in Nat /\ Halved >= 1
  /\ Modulus = Halved + Halved
  /\ INT_MAX = Halved - 1 /\ INT_MIN = -Halved /\ UINT_MAX = (Halved + Halved) - 1
<1>1. WordBits - 1 \in Nat /\ (WordBits - 1) + 1 = WordBits BY WordAssumption
<1>2. Halved \in Nat /\ Halved > 0 BY <1>1, PowerPositive DEF Halved
<1>3. Modulus = Halved + Halved
  <2> DEFINE k == WordBits - 1
  <2>1. 2 ^ (k + 1) = 2 ^ k + 2 ^ k
    <3>1. k \in Nat BY <1>1
    <3> HIDE DEF k
    <3> QED BY <3>1, PowerDoubles
  <2> QED BY <2>1, <1>1 DEF Modulus, Halved
<1> HIDE DEF Halved
<1>4. Modulus \div 2 = Halved
  <2> DEFINE m == Modulus
             h == Halved
  <2>1. m = h + h /\ h \in Nat BY <1>2, <1>3
  <2> HIDE DEF m, h
  <2>2. m \div 2 = h BY <2>1
  <2> QED BY <2>2 DEF m, h
<1> QED BY <1>2, <1>3, <1>4 DEF INT_MAX, INT_MIN, UINT_MAX

\* What is too large in hexadecimal digits.
LEMMA HexadecimalSizes ==
  ASSUME NEW d \in Seq(Digits(16)), NEW v, Sized(d, 16, v), d # <<>> => d[1] # "0"
  PROVE  (Len(d) > WordBits \div 4) <=> (v[Len(d)] > UINT_MAX)
<1> DEFINE n == Len(d)
           q == WordBits \div 4
<1>1. q \in Nat /\ 4 * q = WordBits BY WordAssumption
<1>2. n \in Nat /\ n + q \in Nat /\ n <= n + q BY <1>1
<1>3. PICK t : IsPowers(t, n + q, 16)
  <2> HIDE DEF n, q
  <2> QED BY <1>2, Powers
<1>4. t[q] = Modulus
  <2> DEFINE m == n + q
  <2>1. m \in Nat /\ q \in 0 .. m /\ IsPowers(t, m, 16) BY <1>1, <1>2, <1>3
  <2> HIDE DEF m, q
  <2>2. t[q] = 2 ^ (4 * q) BY <2>1, SixteenPowers
  <2> QED BY <2>2, <1>1 DEF Modulus
<1> DEFINE m == n + q
<1>5. m \in Nat /\ \A k \in 0 .. m : t[k] \in Nat /\ t[k] >= 1
  <2>1. m \in Nat /\ IsPowers(t, m, 16) BY <1>2, <1>3
  <2> HIDE DEF m
  <2>2. \A k \in 0 .. m : t[k] >= 1 BY <2>1, PowersPositive
  <2> QED BY <2>1, <2>2 DEF IsPowers
<1>6. ASSUME NEW i \in 0 .. m, NEW k \in i .. m PROVE t[i] <= t[k]
  <2> DEFINE S == {e \in Nat : i + e <= m => t[i] <= t[i + e]}
  <2>1. 0 \in S BY <1>5
  <2>2. ASSUME NEW e \in Nat, e \in S PROVE e + 1 \in S
    <3> SUFFICES ASSUME i + (e + 1) <= m PROVE t[i] <= t[i + (e + 1)] OBVIOUS
    <3>1. i + (e + 1) \in 1 .. m /\ (i + (e + 1)) - 1 = i + e /\ i + e \in 0 .. m BY <1>5
    <3>2. t[i + (e + 1)] = 16 * t[i + e] BY <3>1, <1>3 DEF IsPowers
    <3>3. t[i] <= t[i + e] /\ t[i + e] \in Nat /\ t[i] \in Nat BY <3>1, <2>2, <1>5
    <3> HIDE DEF m
    <3> QED BY <3>2, <3>3
  <2>3. \A e \in Nat : e \in S
    <3> HIDE DEF S
    <3> QED BY <2>1, <2>2, SetInduction
  <2>4. k - i \in Nat /\ i + (k - i) = k OBVIOUS
  <2> QED BY <2>3, <2>4
<1>7. v[n] \in Nat BY <1>2 DEF Sized
<1>8. n <= q => v[n] < Modulus
  <2> SUFFICES ASSUME n <= q PROVE v[n] < Modulus OBVIOUS
  <2>1. v[0] = 0 /\ v[n] < (v[0] + 1) * t[n - 0]
    <3>1. v[0] = 0 BY DEF Sized
    <3>2. 0 \in 0 .. Len(d) /\ n \in 0 .. Len(d) /\ 16 \in {10, 16} BY <1>2
    <3>3. \A k \in 0 .. Len(d) : v[0] * t[k - 0] <= v[k] /\ v[k] < (v[0] + 1) * t[k - 0]
      BY <3>2, <1>2, <1>3, Bounds
    <3> QED BY <3>1, <3>2, <3>3
  <2>2. n - 0 = n /\ n \in 0 .. m /\ q \in n .. m BY <1>1, <1>2
  <2>3. t[n] \in Nat /\ t[n] <= t[q] BY <2>2, <1>5, <1>6
  <2>4. t[n - 0] = t[n] BY <2>2
  <2>5. v[n] < (0 + 1) * t[n] BY <2>1, <2>4
  <2> DEFINE x == t[n]
             y == v[n]
  <2>6. y < (0 + 1) * x /\ x \in Nat /\ y \in Nat /\ x <= Modulus BY <2>3, <2>5, <1>4, <1>7
  <2>7. Modulus \in Nat BY WordIs
  <2> HIDE DEF x, y
  <2>8. y < Modulus BY ONLY <2>6, <2>7
  <2> QED BY <2>8 DEF y
<1>9. n > q => v[n] >= Modulus
  <2> SUFFICES ASSUME n > q PROVE v[n] >= Modulus OBVIOUS
  <2>1. d # <<>> /\ 1 \in 1 .. Len(d) /\ d[1] \in Digits(16) BY <1>1, <1>2
  <2>2. DigitValue(d[1]) >= 1 /\ DigitValue(d[1]) \in Nat
    <3>1. DigitValue(d[1]) \in 0 .. 15 /\ Hexadecimals[DigitValue(d[1]) + 1] = d[1] BY <2>1, DigitIs
    <3>2. DigitValue(d[1]) # 0 BY <3>1, <2>1, DigitValues
    <3> QED BY <3>1, <3>2
  <2>3. v[1] = DigitValue(d[1])
    <3>1. v[0] = 0 /\ v[1] = v[0] * 16 + DigitValue(d[1]) BY <2>1 DEF Sized
    <3> QED BY <3>1, <2>2
  <2>4. v[1] * t[n - 1] <= v[n]
    <3>1. 1 \in 0 .. Len(d) /\ n \in 1 .. Len(d) /\ 16 \in {10, 16} BY <1>2, <2>1
    <3>2. \A k \in 1 .. Len(d) : v[1] * t[k - 1] <= v[k] /\ v[k] < (v[1] + 1) * t[k - 1]
      BY <3>1, <1>2, <1>3, Bounds
    <3> QED BY <3>1, <3>2
  <2>5. n - 1 \in q .. m /\ q \in 0 .. m /\ n - 1 \in 0 .. m BY <1>1, <1>2
  <2>6. t[q] <= t[n - 1] /\ t[n - 1] \in Nat BY <2>5, <1>5, <1>6
  <2> DEFINE a == v[1]
             x == t[n - 1]
  <2>7. a \in Nat /\ a >= 1 /\ x \in Nat BY <2>2, <2>3, <2>6
  <2> HIDE DEF a, x
  <2>8. x <= a * x BY <2>7
  <2>9. a * x \in Nat BY <2>7
  <2>10. a * x <= v[n] /\ Modulus <= x BY <2>4, <2>6, <1>4 DEF a, x
  <2> DEFINE y == v[n]
             z == a * x
  <2>11. z <= y /\ Modulus <= x /\ x <= z /\ y \in Nat /\ x \in Nat /\ z \in Nat BY <2>7, <2>8, <2>9, <2>10, <1>7
  <2>12. Modulus \in Nat BY WordIs
  <2> HIDE DEF y, z
  <2>13. y >= Modulus BY ONLY <2>11, <2>12
  <2> QED BY <2>13 DEF y
<1>10. UINT_MAX = Modulus - 1 /\ Modulus \in Nat BY WordIs DEF UINT_MAX
<1> QED BY <1>1, <1>2, <1>7, <1>8, <1>9, <1>10

LEMMA PowersGrow ==
  ASSUME NEW n \in Nat, NEW b \in {10, 16}, NEW t, IsPowers(t, n, b)
  PROVE  \A i \in 0 .. n : \A k \in i .. n : t[i] <= t[k]
<1>1. ASSUME NEW i \in 0 .. n, NEW k \in i .. n PROVE t[i] <= t[k]
  <2> DEFINE S == {e \in Nat : i + e <= n => t[i] <= t[i + e]}
  <2>0. \A k1 \in 0 .. n : t[k1] \in Nat BY DEF IsPowers
  <2>1. 0 \in S BY <2>0
  <2>2. ASSUME NEW e \in Nat, e \in S PROVE e + 1 \in S
    <3> SUFFICES ASSUME i + (e + 1) <= n PROVE t[i] <= t[i + (e + 1)] OBVIOUS
    <3>1. i + (e + 1) \in 1 .. n /\ (i + (e + 1)) - 1 = i + e /\ i + e \in 0 .. n OBVIOUS
    <3>2. t[i + (e + 1)] = b * t[i + e] BY <3>1 DEF IsPowers
    <3>3. t[i] <= t[i + e] /\ t[i + e] \in Nat /\ t[i] \in Nat BY <3>1, <2>2, <2>0
    <3> QED BY <3>2, <3>3
  <2>3. \A e \in Nat : e \in S
    <3> HIDE DEF S
    <3> QED BY <2>1, <2>2, SetInduction
  <2>4. k - i \in Nat /\ i + (k - i) = k OBVIOUS
  <2> QED BY <2>3, <2>4
<1> QED BY <1>1

\* The first digit is the first size.
LEMMA FirstDigit ==
  ASSUME NEW b \in {10, 16}, NEW d \in Seq(Digits(b)), d # <<>>, d[1] # "0", NEW v, Sized(d, b, v)
  PROVE  v[1] = DigitValue(d[1]) /\ v[1] \in 1 .. b - 1 /\ Hexadecimals[v[1] + 1] = d[1]
<1>1. 1 \in 1 .. Len(d) /\ d[1] \in Digits(b) OBVIOUS
<1>2. DigitValue(d[1]) \in 0 .. b - 1 /\ Hexadecimals[DigitValue(d[1]) + 1] = d[1] BY <1>1, DigitIs
<1>3. DigitValue(d[1]) # 0
  <2>1. DigitValue(d[1]) \in 0 .. 15
    <3> DEFINE c == DigitValue(d[1])
    <3>1. c \in 0 .. b - 1 BY <1>2
    <3> HIDE DEF c
    <3>2. c \in 0 .. 15 BY ONLY <3>1, b \in {10, 16}
    <3> QED BY <3>2 DEF c
  <2> QED BY <2>1, <1>2, DigitValues
<1>4. v[1] = DigitValue(d[1])
  <2>1. v[0] = 0 /\ v[1] = v[0] * b + DigitValue(d[1]) BY <1>1 DEF Sized
  <2> QED BY <2>1, <1>2
<1> QED BY <1>2, <1>3, <1>4

\* A number lies between its first digit and the next, with as many noughts.
LEMMA FirstDigitBounds ==
  ASSUME NEW d \in Seq(Digits(10)), d # <<>>, d[1] # "0", NEW v, Sized(d, 10, v),
         NEW n \in Nat, Len(d) <= n, NEW t, IsPowers(t, n, 10)
  PROVE  \E X \in Nat : /\ X = v[1] * t[Len(d) - 1] /\ t[Len(d) - 1] \in Nat /\ t[Len(d) - 1] >= 1
                        /\ X <= v[Len(d)] /\ v[Len(d)] < X + t[Len(d) - 1]
                        /\ t[Len(d) - 1] <= X /\ X <= 9 * t[Len(d) - 1]
<1> DEFINE T == t[Len(d) - 1]
           h == v[1]
           y == v[Len(d)]
<1>1. Len(d) \in Nat /\ Len(d) - 1 \in 0 .. n /\ 1 \in 0 .. Len(d) /\ Len(d) \in 1 .. Len(d) /\ 10 \in {10, 16}
  OBVIOUS
<1>2. h \in 1 .. 9 BY <1>1, FirstDigit
<1>3. \A k \in 1 .. Len(d) : v[1] * t[k - 1] <= v[k] /\ v[k] < (v[1] + 1) * t[k - 1]
  BY <1>1, Bounds
<1>4. h * T <= y /\ y < (h + 1) * T BY <1>1, <1>3
<1>5. T \in Nat /\ T >= 1
  <2>1. T \in Nat BY <1>1 DEF IsPowers
  <2> QED BY <1>1, <2>1, PowersPositive
<1> HIDE DEF T, h, y
<1>6. (h + 1) * T = h * T + T /\ h * T \in Nat /\ T <= h * T /\ h * T <= 9 * T BY <1>2, <1>5
<1> DEFINE X == h * T
<1>7. X \in Nat /\ X = h * T /\ T \in Nat /\ T >= 1 /\ X <= y /\ y < X + T /\ T <= X /\ X <= 9 * T
  <2>1. y < X + T BY <1>4, <1>6
  <2> QED BY <2>1, <1>4, <1>5, <1>6
<1> HIDE DEF X
<1> QED BY <1>7 DEF T, h, y

\* What is too large in decimal digits: the test by number of digits, first digit and
\* highest bit tells.
LEMMA DecimalSizes ==
  ASSUME NEW d \in Seq(Digits(10)), NEW v, Sized(d, 10, v), d # <<>> => d[1] # "0",
         NEW w, WrappedSized(d, 10, w),
         NEW g, DigitsOf(g, UINT_MAX), DigitValue(g[1]) = 1 => DigitValue(g[2]) > 3
  PROVE  (/\ Len(d) >= Len(g)
          /\ ~ /\ Len(d) = Len(g)
               /\ \/ DigitValue(d[1]) < DigitValue(g[1])
                  \/ d[1] = g[1] /\ w[Len(d)] > INT_MAX)
         <=> v[Len(d)] > UINT_MAX
<1> DEFINE n == Len(d)
           m == Len(g)
           M == Modulus
           H == Halved
<1>0. H \in Nat /\ H >= 8 /\ M = H + H /\ UINT_MAX = M - 1 /\ INT_MAX = H - 1 /\ M \in Nat
  <2>1. Halved >= 8
    <3> DEFINE k == WordBits - 4
    <3>1. k \in Nat /\ k + 1 \in Nat /\ (k + 1) + 1 \in Nat /\ WordBits - 1 = ((k + 1) + 1) + 1 BY WordAssumption
    <3> HIDE DEF k
    <3>2. 2 ^ k \in Nat /\ 2 ^ k > 0 BY <3>1, PowerPositive
    <3>3. 2 ^ (k + 1) = 2 ^ k + 2 ^ k BY <3>1, PowerDoubles
    <3>4. 2 ^ ((k + 1) + 1) = 2 ^ (k + 1) + 2 ^ (k + 1) BY <3>1, PowerDoubles
    <3>5. 2 ^ (((k + 1) + 1) + 1) = 2 ^ ((k + 1) + 1) + 2 ^ ((k + 1) + 1) BY <3>1, PowerDoubles
    <3>6. Halved = 2 ^ (((k + 1) + 1) + 1) BY <3>1 DEF Halved
    <3> DEFINE x == 2 ^ k
               y == 2 ^ (k + 1)
               z == 2 ^ ((k + 1) + 1)
    <3>7. x \in Nat /\ x > 0 /\ y = x + x /\ z = y + y /\ Halved = z + z BY <3>2, <3>3, <3>4, <3>5, <3>6
    <3> HIDE DEF x, y, z
    <3> QED BY ONLY <3>7
  <2> QED BY <2>1, WordIs
<1>1. PICK u : Sized(g, 10, u) /\ u[m] = UINT_MAX BY DEF DigitsOf
<1>2. g \in Seq(Digits(10)) /\ g # <<>> /\ m \in Nat /\ m >= 1 /\ n \in Nat BY DEF DigitsOf
<1>3. m >= 2 /\ g[1] # "0"
  <2>1. ASSUME m = 1 PROVE FALSE
    <3>1. 1 \in 1 .. Len(g) /\ g[1] \in Digits(10) BY <1>2
    <3>2. DigitValue(g[1]) \in 0 .. 9 BY <3>1, DigitIs
    <3>3. u[1] = u[0] * 10 + DigitValue(g[1]) /\ u[0] = 0 BY <3>1, <1>1 DEF Sized
    <3> QED BY <3>2, <3>3, <2>1, <1>1, <1>0
  <2>2. ASSUME g[1] = "0" PROVE FALSE
    <3>1. g = <<"0">> BY <2>2 DEF DigitsOf
    <3>2. m = 1 BY <3>1
    <3> QED BY <3>2, <2>1
  <2> HIDE DEF m
  <2>3. m >= 2 BY <2>1, <1>2
  <2> QED BY <2>2, <2>3
<1> DEFINE N == n + m
<1>4. N \in Nat /\ n <= N /\ m <= N /\ 10 \in {10, 16} BY <1>2
<1>5. PICK t : IsPowers(t, N, 10)
  <2> HIDE DEF N
  <2> QED BY <1>4, Powers
<1> HIDE DEF N
<1>6. \A i \in 0 .. N : \A k \in i .. N : t[i] <= t[k] BY <1>4, <1>5, PowersGrow
<1>7. \A k \in 0 .. N : t[k] \in Nat BY <1>5 DEF IsPowers
<1>8. \A k \in 1 .. N : t[k] = 10 * t[k - 1] BY <1>5 DEF IsPowers
<1> DEFINE T == t[m - 1]
<1>9. PICK X \in Nat : /\ X = u[1] * T /\ T \in Nat /\ T >= 1 /\ X <= UINT_MAX /\ UINT_MAX < X + T
                       /\ T <= X /\ X <= 9 * T
  BY <1>1, <1>2, <1>3, <1>4, <1>5, FirstDigitBounds
<1>10. u[1] = DigitValue(g[1]) /\ u[1] \in 1 .. 9 /\ Hexadecimals[u[1] + 1] = g[1]
  BY <1>1, <1>2, <1>3, <1>4, FirstDigit
<1>11. CASE n = 0
  <2>1. v[n] = 0 BY <1>11 DEF Sized
  <2> QED BY <2>1, <1>11, <1>0, <1>3
<1>12. CASE n # 0
  <2>1. d # <<>> /\ n >= 1 /\ d[1] # "0" BY <1>2, <1>12
  <2> DEFINE t1 == t[n - 1]
             y == v[n]
             h == v[1]
  <2>2. PICK Y \in Nat : /\ Y = h * t1 /\ t1 \in Nat /\ t1 >= 1 /\ Y <= y /\ y < Y + t1
                         /\ t1 <= Y /\ Y <= 9 * t1
    BY <2>1, <1>4, <1>5, FirstDigitBounds
  <2>3. h = DigitValue(d[1]) /\ h \in 1 .. 9 /\ Hexadecimals[h + 1] = d[1]
    BY <2>1, <1>4, FirstDigit
  <2>4. y \in Nat BY <1>2 DEF Sized
  <2>5. CASE n < m
    <3>1. n \in 1 .. N /\ n \in 0 .. N /\ m - 1 \in n .. N BY <2>1, <2>5, <1>2, <1>4
    <3>2. t[n] = 10 * t1 /\ t[n] <= T BY <3>1, <1>6, <1>8
    <3> DEFINE t2 == t[n]
    <3>3. t2 = 10 * t1 /\ t2 <= T BY <3>2
    <3> HIDE DEF T, t1, t2, y, n, m
    <3>4. ~(y > UINT_MAX) BY <3>3, <2>2, <2>4, <1>9, <1>0
    <3> QED BY <3>4, <2>5, <1>2 DEF y, n, m
  <2>6. CASE n > m
    <3>1. m \in 1 .. N /\ m \in 0 .. N /\ n - 1 \in m .. N BY <2>1, <2>6, <1>2, <1>4
    <3>2. t[m] = 10 * T /\ t[m] <= t1 BY <3>1, <1>6, <1>8
    <3> DEFINE t2 == t[m]
    <3>3. t2 = 10 * T /\ t2 <= t1 BY <3>2
    <3> HIDE DEF T, t1, t2, y, n, m
    <3>4. y > UINT_MAX BY <3>3, <2>2, <2>4, <1>9, <1>0
    <3> QED BY <3>4, <2>6, <1>2 DEF y, n, m
  <2>7. CASE n = m
    <3> DEFINE hg == u[1]
    <3>1. t1 = T BY <2>7
    <3>2. CASE h < hg
      <4>1. Y + T <= X
        <5>1. h + 1 <= hg /\ h \in 1 .. 9 /\ hg \in 1 .. 9 /\ T \in Nat BY <3>2, <2>3, <1>10, <1>9
        <5>2. Y = h * T /\ X = hg * T BY <2>2, <1>9, <3>1
        <5> HIDE DEF h, hg, T
        <5>3. (h + 1) * T <= hg * T /\ (h + 1) * T = h * T + T BY <5>1
        <5> QED BY <5>2, <5>3
      <4>2. y < Y + T BY <2>2, <3>1
      <4> HIDE DEF y, T, n
      <4>3. ~(y > UINT_MAX) BY <4>1, <4>2, <2>4, <1>9, <1>0
      <4>4. DigitValue(d[1]) < DigitValue(g[1]) BY <3>2, <2>3, <1>10
      <4> QED BY <4>3, <4>4, <2>7 DEF y, n
    <3>3. CASE h > hg
      <4>1. X + T <= Y
        <5>1. hg + 1 <= h /\ h \in 1 .. 9 /\ hg \in 1 .. 9 /\ T \in Nat
          <6>1. h \in 1 .. 9 /\ hg \in 1 .. 9 /\ T \in Nat BY <2>3, <1>10, <1>9
          <6> HIDE DEF h, hg, T
          <6> QED BY <3>3, <6>1
        <5>2. Y = h * T /\ X = hg * T BY <2>2, <1>9, <3>1
        <5> HIDE DEF h, hg, T
        <5>3. (hg + 1) * T <= h * T /\ (hg + 1) * T = hg * T + T BY <5>1
        <5> QED BY <5>2, <5>3
      <4>2. Y <= y BY <2>2, <3>1
      <4> HIDE DEF y, T, n
      <4>3. y > UINT_MAX BY <4>1, <4>2, <2>4, <1>9, <1>0
      <4>4. ~(DigitValue(d[1]) < DigitValue(g[1])) /\ d[1] # g[1] BY <3>3, <2>3, <1>10
      <4> QED BY <4>3, <4>4, <2>7, <1>2 DEF y, n
    <3>4. CASE h = hg
      <4>1. d[1] = g[1] /\ ~(DigitValue(d[1]) < DigitValue(g[1])) BY <3>4, <2>3, <1>10
      <4>2. X = Y /\ Y <= y /\ y < Y + T BY <2>2, <3>1, <3>4, <1>9
      <4>3. n \in 0 .. Len(d) /\ n - 1 \in 0 .. Len(d) /\ n \in 1 .. Len(d) BY <2>1, <1>2
      <4>4. CASE y < M
        <5>1. w[n] = y BY <4>3, <4>4, <1>4, WrappedFits
        <5>2. ~(y > UINT_MAX) /\ y > INT_MAX
          <6> HIDE DEF y, T, M, H
          <6> QED BY <4>2, <4>4, <2>4, <1>0, <1>9
        <5> QED BY <5>1, <5>2, <4>1, <2>7
      <4>5. CASE y >= M
        <5> DEFINE z == v[n - 1]
                   c == DigitValue(d[n])
                   T1 == t[m - 2]
        <5>1. y = z * 10 + c /\ z \in Nat /\ c \in 0 .. 9
          <6>1. d[n] \in Digits(10) BY <4>3
          <6>2. c \in 0 .. 9 BY <6>1, <1>4, DigitIs
          <6>3. v \in [0 .. Len(d) -> Nat] /\ v[n] = v[n - 1] * 10 + DigitValue(d[n]) BY <4>3 DEF Sized
          <6>4. v[n - 1] \in Nat BY <6>3, <4>3
          <6> QED BY <6>2, <6>3, <6>4
        <5>2. T = 10 * T1 /\ T1 \in Nat
          <6>1. m - 1 \in 1 .. N /\ (m - 1) - 1 = m - 2 /\ m - 2 \in 0 .. N BY <1>2, <1>3, <1>4
          <6> QED BY <6>1, <1>7, <1>8
        <5>3. w[n] = y % M
          <6>1. z < M
            <7> HIDE DEF y, z, c, M, H, T
            <7> QED BY <5>1, <4>2, <2>4, <1>0, <1>9
          <6>2. w[n - 1] = z BY <6>1, <4>3, <1>4, WrappedFits
          <6>3. w[n] = (w[n - 1] * 10 + c) % M BY <4>3 DEF WrappedSized
          <6> QED BY <6>2, <6>3, <5>1
        <5>4. y - M < T /\ y - M \in 0 .. M - 1
          <6> HIDE DEF y, M, H, T
          <6> QED BY <4>2, <4>5, <2>4, <1>0, <1>9
        <5>5. y % M = y - M
          <6> HIDE DEF y, M, H
          <6> QED BY <5>4, <2>4, <1>0
        <5>6. y - M <= H - 1
          <6>1. CASE hg = 1
            <7>1. 2 \in 0 .. Len(g) /\ m \in 2 .. Len(g) /\ 2 \in 1 .. Len(g) /\ m - 2 \in Nat BY <1>2, <1>3
            <7>2. DigitValue(g[2]) > 3 BY <6>1, <1>10
            <7>3. DigitValue(g[2]) \in 0 .. 9
              <8>1. g[2] \in Digits(10) BY <1>2, <7>1
              <8> QED BY <8>1, <1>4, DigitIs
            <7>4. u[2] = u[1] * 10 + DigitValue(g[2]) BY <7>1, <1>1 DEF Sized
            <7>5. \A k \in 2 .. Len(g) : u[2] * t[k - 2] <= u[k] /\ u[k] < (u[2] + 1) * t[k - 2]
              BY <7>1, <1>1, <1>2, <1>4, <1>5, Bounds
            <7> DEFINE h2 == u[2]
            <7>6. h2 * T1 <= UINT_MAX BY <7>1, <7>5, <1>1
            <7>7. h2 >= 14 /\ h2 \in Nat BY <7>2, <7>3, <7>4, <6>1
            <7>8. X = T BY <6>1, <1>9
            <7> HIDE DEF h2, T1, T, y, M, H
            <7>9. 14 * T1 <= h2 * T1 /\ h2 * T1 \in Nat BY <7>7, <5>2
            <7> DEFINE L == h2 * T1
            <7>10. L <= UINT_MAX /\ 14 * T1 <= L /\ L \in Nat BY <7>6, <7>9
            <7> HIDE DEF L
            <7> QED BY <7>8, <7>10, <5>2, <5>4, <4>2, <4>5, <2>4, <1>0, <1>9
          <6>2. CASE hg # 1
            <7>1. 2 * T <= X
              <8>1. hg >= 2 /\ hg \in Nat /\ T \in Nat /\ X = hg * T BY <6>2, <1>9, <1>10
              <8> HIDE DEF hg, T
              <8>2. 2 * T <= hg * T BY <8>1
              <8> QED BY <8>1, <8>2
            <7> HIDE DEF T, y, M, H
            <7> QED BY <7>1, <5>4, <4>2, <4>5, <2>4, <1>0, <1>9
          <6> QED BY <6>1, <6>2
        <5>7. w[n] = y - M BY <5>3, <5>5
        <5> HIDE DEF y, M, H, n
        <5>8. ~(w[n] > INT_MAX) BY <5>7, <5>6, <5>4, <2>4, <1>0
        <5>9. y > UINT_MAX BY <4>5, <1>0, <2>4
        <5> QED BY <5>8, <5>9, <4>1, <2>7, <1>2 DEF y, n
      <4> QED BY <4>4, <4>5, <2>4, <1>0
    <3> QED BY <3>2, <3>3, <3>4, <2>3, <1>10
  <2> QED BY <2>5, <2>6, <2>7, <1>2
<1> QED BY <1>11, <1>12

-----------------------------------------------------------------------------
(* The parts of a numeral.                                                 *)

\* A set of positions has a least one.
LEMMA LeastElement ==
  ASSUME NEW n \in Nat, NEW I, I \subseteq 1 .. n, I # {}
  PROVE  \E i \in I : \A j \in I : i <= j
<1> SUFFICES ASSUME \A i \in I : \E j \in I : ~(i <= j) PROVE FALSE
  OBVIOUS
<1> DEFINE S == {k \in Nat : \A i \in I : ~(i <= k)}
<1>1. 0 \in S OBVIOUS
<1>2. ASSUME NEW k \in Nat, k \in S PROVE k + 1 \in S
  <2> SUFFICES ASSUME NEW i \in I, i <= k + 1 PROVE FALSE OBVIOUS
  <2>1. PICK j \in I : ~(i <= j) OBVIOUS
  <2>2. ~(j <= k) BY <1>2
  <2>3. i \in Nat /\ j \in Nat OBVIOUS
  <2> QED BY <2>1, <2>2, <2>3
<1>3. n \in S
  <2> HIDE DEF S
  <2> QED BY <1>1, <1>2, SetInduction
<1>4. PICK i \in I : TRUE OBVIOUS
<1>5. i \in 1 .. n /\ i <= n OBVIOUS
<1>6. ~(i <= n) BY <1>3
<1> QED BY <1>5, <1>6

\* What is left of s when the characters in set are dropped starts at i.
LeftFrom(s, set, i) ==
  /\ s[i] \notin set
  /\ \A j \in 1 .. i - 1 : s[j] \in set
  /\ Dropped(s, set) = SubSeq(s, i, Len(s))

LEMMA DroppedFrom ==
  ASSUME NEW C, NEW s \in Seq(C), NEW set
  PROVE  \/ (\A i \in 1 .. Len(s) : s[i] \in set) /\ Dropped(s, set) = <<>>
         \/ \E i \in 1 .. Len(s) : LeftFrom(s, set, i)
<1> DEFINE I == {i \in 1 .. Len(s) : s[i] \notin set}
           least == CHOOSE x \in I : \A y \in I : x <= y
           i == IF I # {} THEN least ELSE 0
<1>1. Dropped(s, set) = IF i = 0 THEN <<>> ELSE SubSeq(s, i, Len(s))
  BY Zenon DEF Dropped, SelectInSeq, Min
<1>2. CASE I = {}
  BY <1>1, <1>2
<1>3. CASE I # {}
  <2>1. \E x \in I : \A y \in I : x <= y
    <3>1. Len(s) \in Nat /\ I \subseteq 1 .. Len(s) OBVIOUS
    <3> HIDE DEF I
    <3> QED BY <3>1, <1>3, LeastElement
  <2>2. least \in I /\ \A y \in I : least <= y
    <3> HIDE DEF I
    <3> QED BY <2>1, Zenon
  <2>3. i = least BY <1>3
  <2> HIDE DEF i, least
  <2>4. i \in 1 .. Len(s) /\ s[i] \notin set /\ i # 0 BY <2>2, <2>3
  <2>5. ASSUME NEW j \in 1 .. i - 1 PROVE s[j] \in set
    <3>1. j \in 1 .. Len(s) /\ ~(i <= j) BY <2>4
    <3> QED BY <3>1, <2>2, <2>3
  <2> QED BY <1>1, <2>4, <2>5 DEF LeftFrom
<1> QED BY <1>2, <1>3

\* What is left begins with another character, and what is dropped has only those of set.
LEMMA DroppedIs ==
  ASSUME NEW C, NEW s \in Seq(C), NEW set
  PROVE  /\ Dropped(s, set) \in Seq(C)
         /\ Dropped(s, set) # <<>> => Dropped(s, set)[1] \notin set
         /\ Run(s, set) \in Seq(set \cap C)
<1> DEFINE e == Dropped(s, set)
           r == Run(s, set)
<1>1. CASE (\A i \in 1 .. Len(s) : s[i] \in set) /\ e = <<>>
  <2>1. r = SubSeq(s, 1, Len(s)) BY <1>1 DEF Run
  <2>2. r = s BY <2>1
  <2>3. s \in Seq(set \cap C) BY <1>1
  <2> QED BY <1>1, <2>2, <2>3
<1>2. CASE \E i \in 1 .. Len(s) : LeftFrom(s, set, i)
  <2>0. PICK i \in 1 .. Len(s) : LeftFrom(s, set, i) BY <1>2
  <2>1. /\ s[i] \notin set
        /\ \A j \in 1 .. i - 1 : s[j] \in set
        /\ e = SubSeq(s, i, Len(s))
    BY <2>0 DEF LeftFrom
  <2>2. Len(e) = (Len(s) - i) + 1 /\ e[1] = s[i] /\ e \in Seq(C)
    <3>1. i \in Int /\ Len(s) \in Int /\ i <= Len(s) /\ \A j \in i .. Len(s) : s[j] \in C OBVIOUS
    <3> DEFINE l == Len(s)
    <3>2. /\ SubSeq(s, i, l) \in Seq(C)
          /\ Len(SubSeq(s, i, l)) = IF i <= l THEN l - i + 1 ELSE 0
          /\ \A j \in 1 .. l - i + 1 : SubSeq(s, i, l)[j] = s[i + j - 1]
      <4> HIDE DEF l
      <4> QED BY <3>1, SubSeqProperties DEF l
    <3>3. 1 \in 1 .. l - i + 1 /\ i + 1 - 1 = i BY <3>1
    <3>4. SubSeq(s, i, l)[1] = s[i] BY <3>2, <3>3
    <3>5. e = SubSeq(s, i, l) BY <2>1, Zenon
    <3>6. i <= l /\ l - i + 1 = (l - i) + 1 BY <3>1
    <3> HIDE DEF e
    <3> QED BY ONLY <3>2, <3>4, <3>5, <3>6 DEF l
  <2>3. Len(s) - Len(e) = i - 1 BY <2>2
  <2>4. r = SubSeq(s, 1, i - 1) BY <2>3 DEF Run
  <2>5. r \in Seq(set \cap C)
    <3>1. Len(r) = i - 1 /\ r \in Seq(C) BY <2>4
    <3>2. \A j \in 1 .. i - 1 : r[j] = s[j] BY <2>4
    <3>3. \A j \in 1 .. Len(r) : r[j] \in set \cap C BY <3>1, <3>2, <2>1
    <3> HIDE DEF r
    <3> QED BY <3>1, <3>3
  <2> QED BY <2>1, <2>2, <2>5
<1> QED BY <1>1, <1>2, DroppedFrom

LEMMA NothingDropped ==
  ASSUME NEW C, NEW s \in Seq(C), s # <<>>, NEW set, s[1] \notin set
  PROVE  Dropped(s, set) = s
<1>1. 1 \in 1 .. Len(s) OBVIOUS
<1>0. PICK i \in 1 .. Len(s) : LeftFrom(s, set, i)
  BY <1>1, DroppedFrom
<1>2. (\A j \in 1 .. i - 1 : s[j] \in set) /\ Dropped(s, set) = SubSeq(s, i, Len(s))
  BY <1>0 DEF LeftFrom
<1>3. i = 1
  <2>1. i # 1 => 1 \in 1 .. i - 1 OBVIOUS
  <2> QED BY <2>1, <1>2
<1> QED BY <1>2, <1>3

LEMMA AllDropped ==
  ASSUME NEW set, NEW s \in Seq(set)
  PROVE  Dropped(s, set) = <<>> /\ Run(s, set) = s
<1>1. \A i \in 1 .. Len(s) : s[i] \in set OBVIOUS
<1>2. Dropped(s, set) = <<>>
  <2>1. ASSUME NEW i \in 1 .. Len(s), LeftFrom(s, set, i) PROVE FALSE
    BY <1>1, <2>1 DEF LeftFrom
  <2> QED BY <2>1, DroppedFrom
<1>3. Run(s, set) = SubSeq(s, 1, Len(s)) BY <1>2 DEF Run
<1> QED BY <1>2, <1>3

\* What a number is read from has no noughts in front.
Stripped(p) == NumeralOK(p) /\ (p.digits # <<>> => p.digits[1] # "0")

LEMMA NumeralStripped ==
  ASSUME NEW C, NEW s \in Seq(C), NEW b \in {10, 16}, NEW negative \in BOOLEAN
  PROVE  Stripped(Numeral(negative, b, s))
<1> DEFINE r == Run(s, Digits(b))
           p == Numeral(negative, b, s)
<1>1. r \in Seq(Digits(b))
  <2>1. r \in Seq(Digits(b) \cap C) BY DroppedIs
  <2> HIDE DEF r
  <2> QED BY <2>1
<1>2. Dropped(r, {"0"}) \in Seq(Digits(b)) /\ (Dropped(r, {"0"}) # <<>> => Dropped(r, {"0"})[1] # "0")
  <2> HIDE DEF r
  <2> QED BY <1>1, DroppedIs
<1>3. p.negative = negative /\ p.base = b /\ p.digits = Dropped(r, {"0"}) BY DEF Numeral
<1> QED BY <1>2, <1>3 DEF Stripped, NumeralOK

LEMMA PartsStripped ==
  ASSUME NEW C, NEW s \in Seq(C)
  PROVE  Stripped(Parts(s))
<1>1. ASSUME NEW u \in Seq(C), NEW negative \in BOOLEAN PROVE Stripped(Unsigned(negative, u))
  <2>1. CASE Len(u) >= 2 /\ u[1] = "0" /\ u[2] \in {"x", "X"}
    <3>1. SubSeq(u, 3, Len(u)) \in Seq(C) BY <2>1
    <3>2. Unsigned(negative, u) = Numeral(negative, 16, SubSeq(u, 3, Len(u))) BY <2>1 DEF Unsigned
    <3> QED BY <3>1, <3>2, NumeralStripped
  <2>2. CASE ~(Len(u) >= 2 /\ u[1] = "0" /\ u[2] \in {"x", "X"})
    <3>2. Unsigned(negative, u) = Numeral(negative, 10, u) BY <2>2 DEF Unsigned
    <3> QED BY <3>2, NumeralStripped
  <2> QED BY <2>1, <2>2
<1> DEFINE e == Dropped(s, {" "})
<1>2. e \in Seq(C) BY DroppedIs
<1> HIDE DEF e
<1>3. CASE e # <<>> /\ e[1] \in {"+", "-"}
  <2>1. Tail(e) \in Seq(C) /\ (e[1] = "-") \in BOOLEAN BY <1>2, <1>3
  <2>2. Unspaced(e) = Unsigned(e[1] = "-", Tail(e)) BY <1>3 DEF Unspaced
  <2>3. Stripped(Unsigned(e[1] = "-", Tail(e))) BY <2>1, <1>1
  <2> QED BY <2>2, <2>3 DEF Parts, e
<1>4. CASE ~(e # <<>> /\ e[1] \in {"+", "-"})
  <2>2. Unspaced(e) = Unsigned(FALSE, e) BY <1>4 DEF Unspaced
  <2> QED BY <2>2, <1>1, <1>2 DEF Parts, e
<1> QED BY <1>3, <1>4

\* The digits of a number are read as that number.
LEMMA SizeOfDigits ==
  ASSUME NEW k \in Nat, NEW d, DigitsOf(d, k), NEW negative \in BOOLEAN
  PROVE  /\ Unsigned(negative, d).negative = negative
         /\ Size(Unsigned(negative, d)) = k
<1> DEFINE p == Numeral(negative, 10, d)
<1>1. d \in Seq(Digits(10)) /\ d # <<>> /\ (d[1] = "0" => d = <<"0">>) BY DEF DigitsOf
<1>2. Unsigned(negative, d) = p
  <2>1. ASSUME Len(d) >= 2, d[1] = "0" PROVE FALSE
    <3>1. Len(d) = 1 BY <1>1, <2>1
    <3> QED BY <3>1, <2>1
  <2> QED BY <2>1 DEF Unsigned
<1>3. p.negative = negative /\ p.base = 10 /\ p.digits = Dropped(Run(d, Digits(10)), {"0"}) BY DEF Numeral
<1>4. Run(d, Digits(10)) = d BY <1>1, AllDropped
<1>5. p.digits = Dropped(d, {"0"}) BY <1>3, <1>4
<1>6. NumeralOK(p)
  <2>1. 10 \in {10, 16} OBVIOUS
  <2> QED BY <2>1, <1>1, NumeralStripped DEF Stripped
<1>7. PICK v : Sized(p.digits, 10, v) /\ Size(p) = v[Len(p.digits)]
  <2>1. \E v : Sized(p.digits, p.base, v) /\ Size(p) = v[Len(p.digits)]
    <3> HIDE DEF p
    <3> QED BY <1>6, SizeIs
  <2> QED BY <2>1, <1>3
<1>8. PICK u : Sized(d, 10, u) /\ u[Len(d)] = k BY DEF DigitsOf
<1>9. CASE d[1] # "0"
  <2>1. p.digits = d BY <1>5, <1>1, <1>9, NothingDropped
  <2>2. Sized(d, 10, v) /\ Size(p) = v[Len(d)] BY <1>7, <2>1
  <2>3. Len(d) \in Nat BY <1>1
  <2>4. v[Len(d)] = u[Len(d)] BY <1>8, <2>2, <2>3, SizedOnce
  <2> QED BY <1>2, <1>3, <1>8, <2>2, <2>4
<1>10. CASE d[1] = "0"
  <2>1. d = <<"0">> BY <1>1, <1>10
  <2>2. d \in Seq({"0"}) BY <2>1
  <2>3. p.digits = <<>> BY <2>2, <1>5, AllDropped
  <2>4. Size(p) = v[0] /\ v[0] = 0
    <3>1. v[0] = 0 BY <1>7 DEF Sized
    <3>2. Len(p.digits) = 0 BY <2>3
    <3> QED BY <3>1, <3>2, <1>7
  <2>5. k = 0
    <3>1. Len(d) = 1 /\ 1 \in 1 .. Len(d) BY <2>1
    <3>2. u[0] = 0 /\ u[1] = u[0] * 10 + DigitValue(d[1]) BY <3>1, <1>8 DEF Sized
    <3>3. DigitValue(d[1]) = 0 BY <1>10, DigitValues
    <3> QED BY <3>1, <3>2, <3>3, <1>8
  <2> QED BY <1>2, <1>3, <2>4, <2>5
<1> QED BY <1>9, <1>10

-----------------------------------------------------------------------------
(* What is read.                                                           *)

\* The code's test sees whether the number is too large, and otherwise it has not wrapped around.
LEMMA OverflowsRight ==
  ASSUME NEW p, Stripped(p)
  PROVE  /\ Size(p) \in Nat /\ Wrapped(p) \in Nat
         /\ Overflows(p, Wrapped(p)) <=> Size(p) > UINT_MAX
         /\ ~Overflows(p, Wrapped(p)) => Wrapped(p) = Size(p)
<1> DEFINE d == p.digits
           b == p.base
           n == Len(d)
<1>1. NumeralOK(p) /\ d \in Seq(Digits(b)) /\ b \in {10, 16} /\ n \in Nat /\ (d # <<>> => d[1] # "0")
  BY DEF Stripped, NumeralOK
<1>2. PICK v : Sized(d, b, v) /\ Size(p) = v[n] BY <1>1, SizeIs
<1>3. PICK w : WrappedSized(d, b, w) /\ Wrapped(p) = w[n] BY <1>1, WrappedIs
<1>4. v[n] \in Nat /\ w[n] \in Nat BY <1>1, <1>2, <1>3 DEF Sized, WrappedSized
<1>5. v[n] < Modulus => w[n] = v[n] BY <1>1, <1>2, <1>3, WrappedFits
<1>6. UINT_MAX = Modulus - 1 /\ Modulus \in Nat BY WordIs DEF UINT_MAX
<1>7. Overflows(p, Wrapped(p)) <=> v[n] > UINT_MAX
  <2>1. CASE b = 16
    <3>1. (n > WordBits \div 4) <=> (v[n] > UINT_MAX)
      BY <1>1, <1>2, <2>1, HexadecimalSizes
    <3> QED BY <3>1, <2>1 DEF Overflows
  <2>2. CASE b = 10
    <3> DEFINE g == DecimalOf(UINT_MAX)
    <3>1. DigitsOf(g, UINT_MAX)
      <4>1. UINT_MAX \in Nat BY WordIs
      <4> QED BY <4>1, DecimalIs
    <3>2. DigitValue(g[1]) = 1 => DigitValue(g[2]) > 3 BY LeadAssumption
    <3>3. Overflows(p, w[n]) <=>
           /\ n >= Len(g)
           /\ ~ /\ n = Len(g)
                /\ \/ DigitValue(d[1]) < DigitValue(g[1])
                   \/ d[1] = g[1] /\ w[n] > INT_MAX
      <4>1. b # 16 BY <2>2
      <4> HIDE DEF n
      <4> QED BY <4>1 DEF Overflows, n
    <3> HIDE DEF g
    <3>4. (/\ n >= Len(g)
           /\ ~ /\ n = Len(g)
                /\ \/ DigitValue(d[1]) < DigitValue(g[1])
                   \/ d[1] = g[1] /\ w[n] > INT_MAX)
          <=> v[n] > UINT_MAX
      <4>1. d \in Seq(Digits(10)) /\ Sized(d, 10, v) /\ WrappedSized(d, 10, w)
        BY <1>1, <1>2, <1>3, <2>2
      <4> QED BY <4>1, <1>1, <3>1, <3>2, DecimalSizes
    <3> QED BY <3>3, <3>4, <1>3
  <2> QED BY <2>1, <2>2, <1>1
<1>8. v[n] <= UINT_MAX => v[n] < Modulus
  <2> DEFINE y == v[n]
  <2>1. y \in Nat BY <1>4
  <2> HIDE DEF y
  <2>2. y <= UINT_MAX => y < Modulus BY <2>1, <1>6
  <2> QED BY <2>2 DEF y
<1>9. UINT_MAX \in Nat BY WordIs
<1> DEFINE size == Size(p)
           wrapped == Wrapped(p)
<1>10. size \in Nat /\ wrapped \in Nat /\ (Overflows(p, wrapped) <=> size > UINT_MAX)
       /\ (size < Modulus => wrapped = size) /\ (size <= UINT_MAX => size < Modulus)
  BY <1>2, <1>3, <1>4, <1>5, <1>7, <1>8
<1> HIDE DEF size, wrapped
<1>11. ~Overflows(p, wrapped) => wrapped = size BY <1>9, <1>10
<1> QED BY <1>10, <1>11 DEF size, wrapped

LEMMA Remainders ==
  ASSUME NEW M \in Nat, M > 0
  PROVE  /\ \A a \in 0 .. M - 1 : a % M = a
         /\ \A a \in -M .. -1 : a % M = a + M
<1>1. ASSUME NEW a \in 0 .. M - 1 PROVE a % M = a OBVIOUS
<1>2. ASSUME NEW a \in -M .. -1 PROVE a % M = a + M OBVIOUS
<1> QED BY <1>1, <1>2

\* What the parts of a numeral are read as: the number they stand for, if the type has it,
\* and otherwise the one of its bounds that is nearer.
LEMMA Reads ==
  ASSUME NEW p, Stripped(p)
  PROVE  /\ Written(p) \in Int
         /\ AsSigned(ReadParts(p, INT_MIN % Modulus, INT_MAX)) = Clamped(Written(p), INT_MIN, INT_MAX)
         /\ ReadParts(p, 0, UINT_MAX) = Clamped(Written(p), 0, UINT_MAX)
<1> DEFINE H == Halved
           M == Modulus
           x == Size(p)
           r == Wrapped(p)
           over == Overflows(p, r)
<1>1. H \in Nat /\ H >= 1 /\ M = H + H /\ M \in Nat /\ INT_MAX = H - 1 /\ INT_MIN = -H /\ UINT_MAX = M - 1
  BY WordIs
<1>2. x \in Nat /\ r \in Nat /\ (over <=> x > UINT_MAX) /\ (~over => r = x) BY OverflowsRight
<1>3. p.negative \in BOOLEAN BY DEF Stripped, NumeralOK
<1>4. Written(p) = IF p.negative THEN -x ELSE x BY DEF Written, SignedSize
<1>5. ASSUME NEW lo, NEW hi
      PROVE  ReadParts(p, lo, hi) =
               IF p.negative
               THEN IF over \/ r > (0 - lo) % M THEN lo ELSE (0 - r) % M
               ELSE IF over \/ r > hi THEN hi ELSE r
  BY Zenon DEF ReadParts, Returned
<1>6. Modulus = M OBVIOUS
<1> HIDE DEF H, M, x, r, over
<1>7. /\ \A a \in 0 .. M - 1 : a % M = a
      /\ \A a \in -M .. -1 : a % M = a + M
  <2>1. M > 0 BY <1>1
  <2> QED BY <1>1, <2>1, Remainders
<1>8. INT_MIN % M = H
  <2>1. -H \in -M .. -1 BY <1>1
  <2>2. (-H) % M = -H + M BY <2>1, <1>7
  <2> QED BY <2>2, <1>1
<1>9. (0 - H) % M = H
  <2>1. 0 - H \in -M .. -1 BY <1>1
  <2>2. (0 - H) % M = (0 - H) + M BY <2>1, <1>7
  <2> QED BY <2>2, <1>1
<1>10. (0 - 0) % M = 0
  <2>1. 0 - 0 \in 0 .. M - 1 BY <1>1
  <2>2. (0 - 0) % M = 0 - 0 BY <2>1, <1>7
  <2> QED BY <2>2
<1>11. ASSUME ~over PROVE (0 - r) % M = (IF r = 0 THEN 0 ELSE M - r)
  <2>1. r = x /\ r < M BY <1>1, <1>2, <1>11
  <2>2. CASE r = 0 BY <2>2, <1>10
  <2>3. CASE r # 0
    <3>1. 0 - r \in -M .. -1 BY <2>1, <2>3, <1>1, <1>2
    <3>2. (0 - r) % M = (0 - r) + M BY <3>1, <1>7
    <3> QED BY <3>2, <2>3, <1>1, <1>2
  <2> QED BY <2>2, <2>3
<1>12. Written(p) \in Int BY <1>2, <1>3, <1>4
<1>13. AsSigned(ReadParts(p, INT_MIN % Modulus, INT_MAX)) = Clamped(Written(p), INT_MIN, INT_MAX)
  <2> DEFINE y == ReadParts(p, INT_MIN % Modulus, INT_MAX)
  <2>1. y = IF p.negative
            THEN IF over \/ r > H THEN H ELSE (0 - r) % M
            ELSE IF over \/ r > H - 1 THEN H - 1 ELSE r
    BY <1>1, <1>5, <1>6, <1>8, <1>9
  <2>2. AsSigned(y) = IF y > H - 1 THEN y - M ELSE y BY <1>1, <1>6 DEF AsSigned
  <2> HIDE DEF y
  <2>3. CASE p.negative
    <3>1. Written(p) = -x BY <1>4, <2>3
    <3>2. Clamped(Written(p), INT_MIN, INT_MAX) = IF -x < -H THEN -H ELSE IF -x > H - 1 THEN H - 1 ELSE -x
      BY <3>1, <1>1 DEF Clamped
    <3>3. CASE over
      <4>1. y = H BY <2>1, <2>3, <3>3
      <4>2. x > H BY <1>1, <1>2, <3>3
      <4> QED BY <4>1, <4>2, <3>2, <2>2, <1>1, <1>2 DEF y
    <3>4. CASE ~over
      <4>1. r = x /\ (0 - r) % M = (IF r = 0 THEN 0 ELSE M - r) BY <1>2, <1>11, <3>4
      <4>2. y = IF x > H THEN H ELSE IF x = 0 THEN 0 ELSE M - x BY <2>1, <2>3, <3>4, <4>1
      <4> QED BY <4>2, <3>2, <2>2, <1>1, <1>2 DEF y
    <3> QED BY <3>3, <3>4
  <2>4. CASE ~p.negative
    <3>1. Written(p) = x BY <1>4, <2>4
    <3>2. Clamped(Written(p), INT_MIN, INT_MAX) = IF x < -H THEN -H ELSE IF x > H - 1 THEN H - 1 ELSE x
      BY <3>1, <1>1 DEF Clamped
    <3>3. CASE over
      <4>1. y = H - 1 BY <2>1, <2>4, <3>3
      <4>2. x > H - 1 BY <1>1, <1>2, <3>3
      <4> QED BY <4>1, <4>2, <3>2, <2>2, <1>1, <1>2 DEF y
    <3>4. CASE ~over
      <4>1. y = IF x > H - 1 THEN H - 1 ELSE x BY <2>1, <2>4, <3>4, <1>2
      <4> QED BY <4>1, <3>2, <2>2, <1>1, <1>2 DEF y
    <3> QED BY <3>3, <3>4
  <2> QED BY <2>3, <2>4 DEF y
<1>14. ReadParts(p, 0, UINT_MAX) = Clamped(Written(p), 0, UINT_MAX)
  <2> DEFINE y == ReadParts(p, 0, UINT_MAX)
  <2>1. y = IF p.negative
            THEN IF over \/ r > 0 THEN 0 ELSE (0 - r) % M
            ELSE IF over \/ r > M - 1 THEN M - 1 ELSE r
    BY <1>1, <1>5, <1>10
  <2> HIDE DEF y
  <2>3. CASE p.negative
    <3>1. Written(p) = -x BY <1>4, <2>3
    <3>2. Clamped(Written(p), 0, UINT_MAX) = IF -x < 0 THEN 0 ELSE IF -x > M - 1 THEN M - 1 ELSE -x
      BY <3>1, <1>1 DEF Clamped
    <3>3. CASE over
      <4>1. y = 0 BY <2>1, <2>3, <3>3
      <4>2. x > 0 BY <1>1, <1>2, <3>3
      <4> QED BY <4>1, <4>2, <3>2, <1>1, <1>2 DEF y
    <3>4. CASE ~over
      <4>1. r = x /\ (0 - r) % M = (IF r = 0 THEN 0 ELSE M - r) BY <1>2, <1>11, <3>4
      <4>2. y = 0 BY <2>1, <2>3, <3>4, <4>1, <1>2
      <4> QED BY <4>2, <3>2, <1>1, <1>2 DEF y
    <3> QED BY <3>3, <3>4
  <2>4. CASE ~p.negative
    <3>1. Written(p) = x BY <1>4, <2>4
    <3>2. Clamped(Written(p), 0, UINT_MAX) = IF x < 0 THEN 0 ELSE IF x > M - 1 THEN M - 1 ELSE x
      BY <3>1, <1>1 DEF Clamped
    <3>3. CASE over
      <4>1. y = M - 1 BY <2>1, <2>4, <3>3
      <4>2. x > M - 1 BY <1>1, <1>2, <3>3
      <4> QED BY <4>1, <4>2, <3>2, <1>1, <1>2 DEF y
    <3>4. CASE ~over
      <4>1. y = x /\ x <= M - 1 BY <2>1, <2>4, <3>4, <1>1, <1>2
      <4> QED BY <4>1, <3>2, <1>1, <1>2 DEF y
    <3> QED BY <3>3, <3>4
  <2> QED BY <2>3, <2>4 DEF y
<1> QED BY <1>12, <1>13, <1>14

Characters == Typed \union Digits(10) \union {"-"}

\* What a program has set is in the attribute as it was written.
NumbersInv ==
  /\ numeral \in Seq(Characters)
  /\ put.is => /\ put.number \in INT_MIN .. UINT_MAX
               /\ numeral = integer_to_string(put.number % Modulus, put.number < 0)

\* integer_to_string writes the number itself.
LEMMA WrittenAsSet ==
  ASSUME NEW n \in INT_MIN .. UINT_MAX
  PROVE  /\ integer_to_string(n % Modulus, n < 0) \in Seq(Characters)
         /\ Written(Parts(integer_to_string(n % Modulus, n < 0))) = n
<1> DEFINE M == Modulus
           H == Halved
           s == integer_to_string(n % Modulus, n < 0)
<1>1. H \in Nat /\ H >= 1 /\ M = H + H /\ M \in Nat /\ M > 0 /\ n \in Int /\ -H <= n /\ n <= M - 1
  <2>1. H \in Nat /\ H >= 1 /\ M = H + H /\ INT_MIN = -H /\ UINT_MAX = M - 1 BY WordIs
  <2> HIDE DEF M, H
  <2> QED BY <2>1
<1>2. /\ \A a \in 0 .. M - 1 : a % M = a
      /\ \A a \in -M .. -1 : a % M = a + M
  <2> HIDE DEF M
  <2> QED BY <1>1, Remainders
<1>3. Digits(10) \subseteq Characters /\ "-" \in Characters BY DEF Characters
<1>4. \A c \in Digits(10) : c \notin {" ", "+", "-"}
  <2> SUFFICES ASSUME NEW c \in Digits(10) PROVE c \notin {" ", "+", "-"} OBVIOUS
  <2>1. 10 \in {10, 16} OBVIOUS
  <2>2. DigitValue(c) \in 0 .. 10 - 1 /\ Hexadecimals[DigitValue(c) + 1] = c BY <2>1, DigitIs
  <2>3. DigitValue(c) \in 0 .. 15 BY <2>2
  <2> QED BY <2>2, <2>3, DigitValues
<1>5. CASE n < 0
  <2>1. n % M = n + M
    <3>1. n \in -M .. -1
      <4> HIDE DEF M, H
      <4> QED BY <1>1, <1>5
    <3> HIDE DEF M
    <3> QED BY <3>1, <1>2
  <2> DEFINE k == 0 - n
             D == DecimalOf(k)
  <2>2. (0 - (n % M)) % M = k
    <3> HIDE DEF M, H
    <3>1. 0 - (n % M) = 0 - (n + M) BY <2>1
    <3>2. 0 - (n + M) \in -M .. -1 /\ (0 - (n + M)) + M = 0 - n BY <1>1, <1>5
    <3> DEFINE a == 0 - (n + M)
    <3>3. a \in -M .. -1 /\ a + M = 0 - n BY <3>2
    <3> HIDE DEF a
    <3>4. a % M = a + M BY <3>3, <1>2
    <3> QED BY <3>1, <3>3, <3>4 DEF a
  <2>3. s = <<"-">> \o D
    <3>1. (0 - (n % Modulus)) % Modulus = k BY <2>2
    <3> HIDE DEF k
    <3> QED BY <1>5, <3>1 DEF integer_to_string
  <2>4. k \in Nat BY <1>1, <1>5
  <2>5. DigitsOf(D, k)
    <3> HIDE DEF k
    <3> QED BY <2>4, DecimalIs
  <2> HIDE DEF D, k, s
  <2>6. D \in Seq(Digits(10)) BY <2>5 DEF DigitsOf
  <2>7. s \in Seq(Characters) /\ s # <<>> /\ s[1] = "-" /\ Tail(s) = D
    <3>1. D \in Seq(Characters) BY <2>6, <1>3
    <3> QED BY <3>1, <1>3, <2>3
  <2>8. Dropped(s, {" "}) = s BY <2>7, NothingDropped
  <2>9. Parts(s) = Unsigned(TRUE, D) BY <2>7, <2>8 DEF Parts, Unspaced
  <2>10. Unsigned(TRUE, D).negative = TRUE /\ Size(Unsigned(TRUE, D)) = k
    BY <2>4, <2>5, SizeOfDigits
  <2>11. Written(Parts(s)) = -k BY <2>9, <2>10 DEF Written, SignedSize
  <2>12. -k = n BY <1>1 DEF k
  <2> QED BY <2>7, <2>11, <2>12 DEF s
<1>6. CASE ~(n < 0)
  <2>1. n % M = n
    <3>1. n \in 0 .. M - 1
      <4> HIDE DEF M, H
      <4> QED BY <1>1, <1>6
    <3> HIDE DEF M
    <3> QED BY <3>1, <1>2
  <2> DEFINE D == DecimalOf(n)
  <2>3. s = <<>> \o D
    <3>1. n % Modulus = n BY <2>1
    <3> QED BY <1>6, <3>1 DEF integer_to_string
  <2>4. n \in Nat BY <1>1, <1>6
  <2>5. DigitsOf(D, n) BY <2>4, DecimalIs
  <2> HIDE DEF D, s
  <2>6. D \in Seq(Digits(10)) /\ D # <<>> BY <2>5 DEF DigitsOf
  <2>7. s = D /\ s \in Seq(Characters) /\ s # <<>> /\ s[1] \in Digits(10)
    <3>1. D \in Seq(Characters) BY <2>6, <1>3
    <3>2. s = D BY <2>3, <2>6
    <3> QED BY <3>1, <3>2, <2>6
  <2>8. Dropped(s, {" "}) = s BY <2>7, <1>4, NothingDropped
  <2>9. Parts(s) = Unsigned(FALSE, D) BY <2>7, <2>8, <1>4 DEF Parts, Unspaced
  <2>10. Unsigned(FALSE, D).negative = FALSE /\ Size(Unsigned(FALSE, D)) = n
    BY <2>4, <2>5, SizeOfDigits
  <2>11. Written(Parts(s)) = n BY <2>9, <2>10 DEF Written, SignedSize
  <2> QED BY <2>7, <2>11 DEF s
<1> QED BY <1>5, <1>6

LEMMA NumbersInvHolds == NumbersSpec => []NumbersInv
<1>1. NumbersInit => NumbersInv BY DEF NumbersInit, NumbersInv, NoNumber
<1>2. NumbersInv /\ [NumbersNext]_numberVars => NumbersInv'
  <2> SUFFICES ASSUME NumbersInv, [NumbersNext]_numberVars PROVE NumbersInv' OBVIOUS
  <2>1. ASSUME NEW c \in Typed, Type(c) PROVE NumbersInv'
    <3>1. c \in Characters BY DEF Characters
    <3> QED BY <2>1, <3>1 DEF Type, NumbersInv
  <2>2. ASSUME NEW n \in INT_MIN .. UINT_MAX, Set(n) PROVE NumbersInv'
    BY <2>2, WrittenAsSet DEF Set, NumbersInv
  <2>3. CASE UNCHANGED numberVars BY <2>3 DEF numberVars, NumbersInv
  <2> QED BY <2>1, <2>2, <2>3 DEF NumbersNext
<1> QED BY <1>1, <1>2, PTL DEF NumbersSpec

LEMMA ExactOfInv == NumbersInv => NumbersExact
<1> SUFFICES ASSUME NumbersInv PROVE NumbersExact OBVIOUS
<1> DEFINE p == Parts(numeral)
           H == Halved
<1>1. Stripped(p) BY PartsStripped DEF NumbersInv
<1>2. /\ get_value_int(numeral) = Clamped(Written(p), INT_MIN, INT_MAX)
      /\ get_value_uint(numeral) = Clamped(Written(p), 0, UINT_MAX)
  <2>1. /\ get_value_int(numeral) = AsSigned(ReadParts(p, INT_MIN % Modulus, INT_MAX))
        /\ get_value_uint(numeral) = ReadParts(p, 0, UINT_MAX)
    BY Zenon DEF get_value_int, get_value_uint, string_to_integer
  <2> HIDE DEF p
  <2> QED BY <2>1, <1>1, Reads
<1>3. NumbersClamped BY <1>2 DEF NumbersClamped
<1>4. NumbersReturn
  <2> SUFFICES ASSUME put.is
               PROVE  /\ put.number <= INT_MAX => get_value_int(numeral) = put.number
                      /\ put.number >= 0 => get_value_uint(numeral) = put.number
    BY DEF NumbersReturn
  <2> DEFINE n == put.number
  <2>1. n \in INT_MIN .. UINT_MAX /\ Written(p) = n BY WrittenAsSet DEF NumbersInv
  <2>2. H \in Nat /\ H >= 1 /\ INT_MAX = H - 1 /\ INT_MIN = -H /\ UINT_MAX = (H + H) - 1 BY WordIs
  <2>3. /\ get_value_int(numeral) = Clamped(n, INT_MIN, INT_MAX)
        /\ get_value_uint(numeral) = Clamped(n, 0, UINT_MAX)
    BY <1>2, <2>1
  <2> HIDE DEF n, H
  <2>4. n \in Int /\ -H <= n /\ n <= (H + H) - 1 BY <2>1, <2>2
  <2>5. n <= INT_MAX => Clamped(n, INT_MIN, INT_MAX) = n BY <2>2, <2>4 DEF Clamped
  <2>6. n >= 0 => Clamped(n, 0, UINT_MAX) = n BY <2>2, <2>4 DEF Clamped
  <2> QED BY <2>3, <2>5, <2>6 DEF n
<1> QED BY <1>3, <1>4 DEF NumbersExact

\* string_to_integer reads every numeral, of any length, as the number it stands for or as
\* the bound of the type it lies beyond, and reads back what integer_to_string has written,
\* for every width of a word.
THEOREM NumbersStayExact == NumbersSpec => []NumbersExact
<1> QED BY NumbersInvHolds, ExactOfInv, PTL
=============================================================================
