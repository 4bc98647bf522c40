---------------------------- MODULE MemoryProofs ----------------------------
(***************************************************************************)
(* Memory that is shared, borrowed or given back: what programs that share *)
(* memory without a semaphore may rely on, the strings of the processes    *)
(* (ProcessVariables, StringsInv) and the pages of a document (XmlPages,   *)
(* MemInv), each for any number of everything.                             *)
(*                                                                         *)
(* Shared memory: SegmentsRemoved is inductive as it stands.               *)
(* SegmentsNotShared needs what one producer alone inside create finds     *)
(* between its calls (KeyInv), and ReadsAreRecent that a producer which    *)
(* has a segment to itself writes growing numbers to it (WriteInv),        *)
(* followed to the reader (ReadInv).                                       *)
(***************************************************************************)
EXTENDS SharedMemory, ProcessVariables, XmlPages, SequenceTheorems, FiniteSetTheorems, TLAPS

Creating(p) == shmStep[p] \in {"remove", "get", "attach"}
Copying(p) == shmStep[p] \in {"copy1", "copy2"}
Reading(c) == shmStep[c] \in {"read1", "read2"}
AtMostOne(s) == \A p, q \in writers[s] : p = q

Ids == Segments \union {None}
Steps == {"idle", "remove", "get", "attach", "copy1", "copy2", "read1", "read2"}

ShmTypeOK ==
  /\ made \in 0 .. MaxSegments /\ keyed \in Ids
  /\ data \in [Segments -> [Halves -> Nat]]
  /\ shmStep \in [Programs -> Steps]
  /\ seen \in [Programs -> Ids]
  /\ shmId \in [Programs -> Ids] /\ mapped \in [Programs -> Ids]
  /\ created \in [Programs -> BOOLEAN]
  /\ value \in [Programs -> [Halves -> Nat]]
  /\ writes \in Nat
  /\ writers \in [Segments -> SUBSET Producers]
  /\ floor \in [Programs -> Nat] /\ finished \in [Segments -> Nat]
  /\ raced \in BOOLEAN

\* In which step a program can be, and what it has then: only a consumer that does not
\* wait thinks it has a segment and points nowhere.
StepOK(p) ==
  /\ p \in Producers => ~Reading(p) /\ (Creating(p) => ~created[p])
  /\ p \in Consumers => shmStep[p] \notin {"remove", "get", "copy1", "copy2"}
  /\ p \in Hasty => At(p, "idle")
  /\ At(p, "attach") => shmId[p] # None
  /\ p \notin Hasty /\ (created[p] \/ Copying(p) \/ Reading(p)) => mapped[p] # None
  /\ shmId[p] <= made /\ mapped[p] <= made

\* Nobody has a segment that is still to be made.
StepInv == keyed <= made /\ \A p \in Programs : StepOK(p)

\* What a producer that is alone inside create finds: the key leads to nothing once
\* it has removed what it saw, and to its own new segment after that.
KeyInv ==
  ~raced =>
    /\ \A p, q \in Producers : Creating(p) /\ Creating(q) => p = q
    /\ \A p \in Producers :
         /\ At(p, "remove") => keyed \in {None, seen[p]}
         /\ At(p, "get") => keyed = None
         /\ At(p, "attach") => \A q \in Producers \ {p} : created[q] => mapped[q] # shmId[p]

\* A producer on its way to a copy has a number at least as great as what is in any
\* segment nobody else has attached, and such a segment has what was written last.
WriteInv ==
  /\ \A p \in Producers, h \in Halves : value[p][h] <= writes
  /\ \A s \in Segments, h \in Halves : data[s][h] <= writes
  /\ \A p \in Producers : Creating(p) \/ Copying(p) => value[p][2] = value[p][1]
  /\ \A p \in Producers : created[p] \/ Copying(p) => p \in writers[mapped[p]]
  /\ \A p \in Producers, s \in Segments :
       (Creating(p) \/ Copying(p)) /\ writers[s] \subseteq {p} =>
         \A h \in Halves : data[s][h] <= value[p][1]
  /\ \A s \in Segments : AtMostOne(s) => \A h \in Halves : finished[s] <= data[s][h]
  /\ \A p \in Producers : At(p, "copy2") /\ AtMostOne(mapped[p]) => value[p][1] <= data[mapped[p]][1]

\* A reader's floor is not above what has been finished since.
ReadInv ==
  \A c \in Consumers \ Hasty :
    /\ Reading(c) /\ AtMostOne(mapped[c]) => floor[c] <= finished[mapped[c]]
    /\ At(c, "read2") /\ AtMostOne(mapped[c]) => floor[c] <= value[c][1]
    /\ At(c, "idle") /\ created[c] /\ AtMostOne(mapped[c]) => \A h \in Halves : floor[c] <= value[c][h]

ShmInv == ShmTypeOK /\ StepInv /\ KeyInv /\ SegmentsNotShared /\ SegmentsRemoved /\ WriteInv /\ ReadInv

-----------------------------------------------------------------------------
(* Types, and who is in which step.                                        *)

LEMMA ShmInitInv == ShmInit => ShmInv
<1> SUFFICES ASSUME ShmInit PROVE ShmInv
  OBVIOUS
<1> USE SharedMemoryAssumption DEF ShmInit, Programs, Segments, Halves, None, Zero, At
<1>1. ShmTypeOK
  <2>1. value \in [Programs -> [Halves -> Nat]] /\ data \in [Segments -> [Halves -> Nat]]
    OBVIOUS
  <2>2. 0 \in Ids /\ "idle" \in Steps
    BY DEF Ids, Steps
  <2>3. /\ shmStep \in [Programs -> Steps]
        /\ seen \in [Programs -> Ids] /\ shmId \in [Programs -> Ids] /\ mapped \in [Programs -> Ids]
        /\ created \in [Programs -> BOOLEAN]
    BY <2>2
  <2>4. /\ writers \in [Segments -> SUBSET Producers]
        /\ floor \in [Programs -> Nat] /\ finished \in [Segments -> Nat]
    OBVIOUS
  <2>5. keyed \in Ids /\ raced \in BOOLEAN
    BY <2>2
  <2>6. made \in 0 .. MaxSegments /\ writes \in Nat
    <3>1. MaxSegments \in Nat
      BY SharedMemoryAssumption
    <3>2. made = 0 /\ writes = 0
      BY DEF ShmInit
    <3> QED BY <3>1, <3>2
  <2> QED BY <2>1, <2>3, <2>4, <2>5, <2>6 DEF ShmTypeOK
<1>2. StepInv /\ KeyInv /\ SegmentsNotShared /\ SegmentsRemoved
  BY DEF StepInv, StepOK, KeyInv, SegmentsNotShared, SegmentsRemoved, Creating, Copying, Reading
<1>3. WriteInv /\ ReadInv
  BY DEF WriteInv, ReadInv, Creating, Copying, Reading, AtMostOne
<1> QED BY <1>1, <1>2, <1>3 DEF ShmInv

LEMMA SetFacts ==
  /\ Producers \subseteq Programs /\ Consumers \subseteq Programs
  /\ Producers \cap Consumers = {} /\ Hasty \subseteq Consumers
  /\ Segments \subseteq Ids /\ None \in Ids
  /\ \A s \in Ids : s # None => s \in Segments
  /\ \A s \in Ids : s \in Nat
  /\ 1 \in Halves /\ 2 \in Halves /\ \A h \in Halves : h = 1 \/ h = 2
BY SharedMemoryAssumption DEF Programs, Ids, Segments, None, Halves

LEMMA NextSegment ==
  ASSUME made \in 0 .. MaxSegments, made < MaxSegments
  PROVE  made + 1 \in Segments /\ made + 1 \in 0 .. MaxSegments /\ made + 1 # None
BY SharedMemoryAssumption DEF Segments, None

LEMMA ValueTypes ==
  ASSUME ShmTypeOK, NEW p \in Programs, NextValue(p)
  PROVE  writes' \in Nat /\ value' \in [Programs -> [Halves -> Nat]]
<1>1. [h \in Halves |-> writes + 1] \in [Halves -> Nat]
  BY DEF ShmTypeOK
<1> QED BY <1>1 DEF ShmTypeOK, NextValue

LEMMA HalfTypes ==
  ASSUME NEW S, NEW f \in [S -> [Halves -> Nat]], NEW s \in S, NEW h \in Halves, NEW v \in Nat
  PROVE  [f EXCEPT ![s][h] = v] \in [S -> [Halves -> Nat]]
<1>1. [f[s] EXCEPT ![h] = v] \in [Halves -> Nat]
  OBVIOUS
<1>2. [f EXCEPT ![s] = [f[s] EXCEPT ![h] = v]] \in [S -> [Halves -> Nat]]
  BY <1>1
<1> QED BY <1>2

LEMMA TypesStep ==
  ASSUME ShmTypeOK, StepInv, [ShmNext]_shmVars
  PROVE  ShmTypeOK'
<1> USE SetFacts DEF ShmTypeOK, Steps, At, Enter, shmKernel, shmHistory
<1>1. ASSUME NEW p \in Producers, CreateLook(p) PROVE ShmTypeOK'
  <2>1. CASE created[p]
    BY <1>1, <2>1 DEF CreateLook
  <2>2. CASE ~created[p]
    <3>1. NextValue(p) /\ seen' = [seen EXCEPT ![p] = keyed]
      BY <1>1, <2>2 DEF CreateLook
    <3>2. writes' \in Nat /\ value' \in [Programs -> [Halves -> Nat]]
      BY <3>1, ValueTypes
    <3>a. raced' \in BOOLEAN
      BY <1>1, <2>2 DEF CreateLook
    <3>b. seen' \in [Programs -> Ids]
      BY <3>1
    <3>c. shmStep' \in [Programs -> Steps]
      <4>1. \E st \in Steps : shmStep' = [shmStep EXCEPT ![p] = st]
        BY <1>1, <2>2 DEF CreateLook, Enter, Steps
      <4>2. shmStep \in [Programs -> Steps]
        BY DEF ShmTypeOK
      <4> QED BY ONLY <4>1, <4>2
    <3>3. raced' \in BOOLEAN /\ shmStep' \in [Programs -> Steps] /\ seen' \in [Programs -> Ids]
      BY <3>a, <3>b, <3>c
    <3> QED BY <1>1, <2>2, <3>2, <3>3 DEF CreateLook
  <2> QED BY <2>1, <2>2
<1>2. ASSUME NEW p \in Producers, CreateRemove(p) \/ DestroyProducer(p) PROVE ShmTypeOK'
  <2>1. keyed' \in Ids
    BY <1>2 DEF CreateRemove, DestroyProducer, RemoveSegment
  <2>2. CASE CreateRemove(p)
    <3>1. shmStep' \in [Programs -> Steps] /\ seen' \in [Programs -> Ids]
      BY <2>2 DEF CreateRemove
    <3> QED BY <2>1, <2>2, <3>1 DEF CreateRemove
  <2>3. CASE DestroyProducer(p)
    <3>1. created' \in [Programs -> BOOLEAN]
      BY <2>3 DEF DestroyProducer
    <3> QED BY <2>1, <2>3, <3>1 DEF DestroyProducer
  <2> QED BY <1>2, <2>2, <2>3
<1>3. ASSUME NEW p \in Producers, CreateGet(p) PROVE ShmTypeOK'
  <2>1. shmStep' \in [Programs -> Steps]
    BY <1>3 DEF CreateGet
  <2>2. shmId' \in [Programs -> Ids] /\ made' \in 0 .. MaxSegments /\ keyed' \in Ids
    <3>1. CASE keyed # None
      <4>1. shmId' = [shmId EXCEPT ![p] = keyed] /\ made' = made /\ keyed' = keyed
        BY <1>3, <3>1 DEF CreateGet
      <4> QED BY <4>1
    <3>2. CASE keyed = None
      <4>1. /\ shmId' = [shmId EXCEPT ![p] = made + 1] /\ made' = made + 1 /\ keyed' = made + 1
            /\ made < MaxSegments
        BY <1>3, <3>2 DEF CreateGet
      <4>2. made + 1 \in Ids /\ made + 1 \in 0 .. MaxSegments
        BY <4>1, NextSegment
      <4> QED BY <4>1, <4>2
    <3> QED BY <3>1, <3>2
  <2> QED BY <1>3, <2>1, <2>2 DEF CreateGet
<1>4. ASSUME NEW p \in Producers, CreateAttach(p) PROVE ShmTypeOK'
  <2>1. shmId[p] \in Segments
    BY <1>4 DEF CreateAttach, StepInv, StepOK
  <2>2. CASE There(shmId[p])
    <3>1. writers' \in [Segments -> SUBSET Producers]
      <4>1. writers' = [writers EXCEPT ![shmId[p]] = @ \union {p}]
        BY <1>4, <2>2 DEF CreateAttach
      <4>2. writers[shmId[p]] \union {p} \in SUBSET Producers
        BY <2>1
      <4> QED BY <2>1, <4>1, <4>2
    <3>2. mapped' \in [Programs -> Ids]
      BY <1>4, <2>1, <2>2 DEF CreateAttach
    <3>3. created' \in [Programs -> BOOLEAN] /\ shmStep' \in [Programs -> Steps]
      BY <1>4, <2>2 DEF CreateAttach
    <3> QED BY <1>4, <2>2, <3>1, <3>2, <3>3 DEF CreateAttach
  <2>3. CASE ~There(shmId[p])
    <3>1. mapped' \in [Programs -> Ids] /\ shmStep' \in [Programs -> Steps]
      <4>1. mapped' = [mapped EXCEPT ![p] = None] /\ shmStep' = [shmStep EXCEPT ![p] = "idle"]
        BY <1>4, <2>3 DEF CreateAttach
      <4> QED BY <4>1
    <3> QED BY <1>4, <2>3, <3>1 DEF CreateAttach
  <2> QED BY <2>2, <2>3
<1>5. ASSUME NEW p \in Producers, Write(p) PROVE ShmTypeOK'
  BY <1>5, ValueTypes DEF Write
<1>6. ASSUME NEW p \in Producers, NEW h \in Halves, CopyOut(p, h) PROVE ShmTypeOK'
  <2>1. mapped[p] \in Segments
    BY <1>6 DEF CopyOut, StepInv, StepOK, Copying
  <2>2. data' \in [Segments -> [Halves -> Nat]]
    BY <1>6, <2>1, HalfTypes DEF CopyOut
  <2>3. finished' \in [Segments -> Nat] /\ shmStep' \in [Programs -> Steps]
    BY <1>6, <2>1 DEF CopyOut
  <2> QED BY <1>6, <2>2, <2>3 DEF CopyOut
<1>7. ASSUME NEW c \in Consumers, InitLook(c) \/ Update(c) \/ DestroyConsumer(c) PROVE ShmTypeOK'
  <2>1. CASE InitLook(c)
    BY <2>1 DEF InitLook
  <2>3. CASE DestroyConsumer(c)
    BY <2>3 DEF DestroyConsumer
  <2>2. CASE Update(c)
    <3>1. mapped[c] \in Segments
      BY <2>2 DEF Update, StepInv, StepOK
    <3>2. floor' \in [Programs -> Nat] /\ shmStep' \in [Programs -> Steps]
      BY <2>2, <3>1 DEF Update, BeginRead
    <3> QED BY <2>2, <3>2 DEF Update
  <2> QED BY <1>7, <2>1, <2>2, <2>3
<1>8. ASSUME NEW c \in Consumers, InitAttach(c) PROVE ShmTypeOK'
  <2>1. shmId[c] \in Segments
    BY <1>8 DEF InitAttach, StepInv, StepOK
  <2>2. CASE There(shmId[c])
    <3>1. floor' \in [Programs -> Nat]
      <4>1. floor' = [floor EXCEPT ![c] = finished[shmId[c]]] /\ finished[shmId[c]] \in Nat
        BY <1>8, <2>1, <2>2 DEF InitAttach, BeginRead
      <4> QED BY <4>1
    <3>2. mapped' \in [Programs -> Ids]
      BY <1>8, <2>1, <2>2 DEF InitAttach
    <3>3. created' \in [Programs -> BOOLEAN] /\ shmStep' \in [Programs -> Steps]
      BY <1>8, <2>2 DEF InitAttach, BeginRead
    <3> QED BY <1>8, <2>2, <3>1, <3>2, <3>3 DEF InitAttach
  <2>3. CASE ~There(shmId[c])
    <3>1. mapped' \in [Programs -> Ids] /\ shmStep' \in [Programs -> Steps]
          /\ created' \in [Programs -> BOOLEAN]
      <4>1. mapped' = [mapped EXCEPT ![c] = None] /\ shmStep' = [shmStep EXCEPT ![c] = "idle"]
            /\ created' = [created EXCEPT ![c] = FALSE]
        BY <1>8, <2>3 DEF InitAttach
      <4> QED BY <4>1
    <3> QED BY <1>8, <2>3, <3>1 DEF InitAttach
  <2> QED BY <2>2, <2>3
<1>9. ASSUME NEW c \in Consumers, NEW h \in Halves, Read(c, h) PROVE ShmTypeOK'
  <2>1. mapped[c] \in Segments
    BY <1>9 DEF Read, StepInv, StepOK, Reading
  <2>2. value' \in [Programs -> [Halves -> Nat]]
    BY <1>9, <2>1, HalfTypes DEF Read
  <2> QED BY <1>9, <2>2 DEF Read
<1>10. ASSUME NEW p \in Programs, KillProgram(p) PROVE ShmTypeOK'
  BY <1>10 DEF KillProgram, NewObject, Zero
<1>11. ASSUME NEW p \in Producers, EndProducer(p) PROVE ShmTypeOK'
  BY <1>11 DEF EndProducer, NewObject, RemoveSegment, Zero
<1>12. ASSUME NEW c \in Consumers, InitHasty(c) \/ EndConsumer(c) PROVE ShmTypeOK'
  <2>1. CASE InitHasty(c)
    BY <2>1 DEF InitHasty
  <2>2. CASE EndConsumer(c)
    BY <2>2 DEF EndConsumer, NewObject, Zero
  <2> QED BY <1>12, <2>1, <2>2
<1>13. ASSUME NEW c \in Consumers, UpdateHasty(c) PROVE ShmTypeOK'
  <2>1. PICK n \in {0, MaxWrites} : value' = [value EXCEPT ![c] = [h \in Halves |-> n]]
    BY <1>13 DEF UpdateHasty
  <2>2. [h \in Halves |-> n] \in [Halves -> Nat]
    BY SharedMemoryAssumption
  <2> QED BY <1>13, <2>1, <2>2 DEF UpdateHasty
<1>14. CASE UNCHANGED shmVars
  BY <1>14 DEF shmVars
<1> QED BY <1>1, <1>2, <1>3, <1>4, <1>5, <1>6, <1>7, <1>8, <1>9, <1>10, <1>11, <1>12, <1>13, <1>14
        DEF ShmNext, ProducerNext, ConsumerNext

\* What a program has, and its step, stay.
Still(q) == /\ shmStep'[q] = shmStep[q] /\ shmId'[q] = shmId[q] /\ mapped'[q] = mapped[q]
            /\ created'[q] = created[q]

LEMMA StepOfOne ==
  ASSUME ShmTypeOK, ShmTypeOK', StepInv, NEW p \in Programs,
         \A q \in Programs : q # p => Still(q),
         made <= made', keyed' <= made', StepOK(p)'
  PROVE  StepInv'
<1> SUFFICES ASSUME NEW q \in Programs, q # p PROVE StepOK(q)'
  BY DEF StepInv
<1>1. Still(q) /\ StepOK(q)
  BY DEF StepInv
<1>2. /\ shmId[q] \in Nat /\ mapped[q] \in Nat /\ made \in Nat /\ made' \in Nat
  BY SetFacts DEF ShmTypeOK
<1>3. shmId[q] <= made' /\ mapped[q] <= made'
  BY <1>1, <1>2 DEF StepOK
<1> QED BY <1>1, <1>3 DEF StepOK, Still, At, Creating, Copying, Reading

LEMMA StepsStep ==
  ASSUME ShmTypeOK, ShmTypeOK', StepInv, [ShmNext]_shmVars
  PROVE  StepInv'
<1> USE SetFacts DEF At, Enter, shmKernel, shmHistory
<1>a. ASSUME NEW p \in Programs, \A q \in Programs : q # p => Still(q), StepOK(p)',
             keyed' \in {keyed, None}, made' = made
      PROVE  StepInv'
  <2>1. keyed' <= made' /\ made <= made'
    BY <1>a DEF ShmTypeOK, StepInv, None
  <2> QED BY <1>a, <2>1, StepOfOne
<1>b. \A p \in Programs : StepOK(p) /\ mapped[p] \in Ids /\ shmId[p] \in Ids
  BY DEF StepInv, ShmTypeOK
<1>c. keyed <= made /\ made \in Nat /\ None <= made
  BY DEF StepInv, ShmTypeOK, None
<1> DEFINE Types == /\ shmStep \in [Programs -> Steps]
                    /\ shmId \in [Programs -> Ids] /\ mapped \in [Programs -> Ids]
                    /\ created \in [Programs -> BOOLEAN]
<1>d. Types
  BY DEF ShmTypeOK
<1> USE DEF Still, StepOK, Creating, Copying, Reading
<1> HIDE DEF Types
<1>1. ASSUME NEW p \in Producers, CreateLook(p) PROVE StepInv'
  <2>1. \A q \in Programs : q # p => Still(q)
    BY <1>1, <1>d DEF CreateLook, Types
  <2>2. StepOK(p)'
    <3>1. CASE created[p]
      BY <1>1, <1>b, <1>d, <3>1 DEF CreateLook, Types
    <3>2. CASE ~created[p]
      BY <1>1, <1>b, <1>d, <3>2 DEF CreateLook, Types
    <3> QED BY <3>1, <3>2
  <2>3. keyed' = keyed /\ made' = made
    BY <1>1 DEF CreateLook
  <2> QED BY <1>a, <2>1, <2>2, <2>3
<1>2. ASSUME NEW p \in Producers, CreateRemove(p) PROVE StepInv'
  <2>1. \A q \in Programs : q # p => Still(q)
    BY <1>2, <1>d DEF CreateRemove, RemoveSegment, Types
  <2>2. StepOK(p)'
    BY <1>2, <1>b, <1>c, <1>d DEF CreateRemove, RemoveSegment, Types
  <2>3. keyed' \in {keyed, None} /\ made' = made
    BY <1>2 DEF CreateRemove, RemoveSegment
  <2> QED BY <1>a, <2>1, <2>2, <2>3
<1>3. ASSUME NEW p \in Producers, DestroyProducer(p) PROVE StepInv'
  <2>1. \A q \in Programs : q # p => Still(q)
    BY <1>3, <1>d DEF DestroyProducer, RemoveSegment, Types
  <2>2. StepOK(p)'
    BY <1>3, <1>b, <1>c, <1>d DEF DestroyProducer, RemoveSegment, Types
  <2>3. keyed' \in {keyed, None} /\ made' = made
    BY <1>3 DEF DestroyProducer, RemoveSegment
  <2> QED BY <1>a, <2>1, <2>2, <2>3
<1>4. ASSUME NEW p \in Producers, CreateGet(p) PROVE StepInv'
  <2>1. \A q \in Programs : q # p => Still(q)
    BY <1>4, <1>d DEF CreateGet, Types
  <2>2. CASE keyed # None
    <3>1. /\ shmStep'[p] = "attach" /\ shmId'[p] = keyed /\ mapped'[p] = mapped[p]
          /\ created'[p] = created[p] /\ made' = made /\ keyed' = keyed
      BY <1>4, <1>d, <2>2 DEF CreateGet, Types
    <3>2. ~created[p] /\ p \notin Consumers
      BY <1>4, <1>b DEF CreateGet
    <3>3. StepOK(p)'
      BY <1>b, <1>c, <2>2, <3>1, <3>2
    <3> QED BY <1>a, <2>1, <3>1, <3>3
  <2>3. CASE keyed = None
    <3>1. /\ shmStep'[p] = "attach" /\ shmId'[p] = made + 1 /\ mapped'[p] = mapped[p]
          /\ created'[p] = created[p] /\ made' = made + 1 /\ keyed' = made + 1
      BY <1>4, <1>d, <2>3 DEF CreateGet, Types
    <3>2. ~created[p] /\ p \notin Consumers
      BY <1>4, <1>b DEF CreateGet
    <3>3. made + 1 # None /\ mapped[p] <= made + 1 /\ made <= made + 1
      BY <1>b, <1>c DEF None
    <3>4. StepOK(p)'
      BY <3>1, <3>2, <3>3, <1>c
    <3> QED BY <2>1, <3>1, <3>3, <3>4, <1>c, StepOfOne
  <2> QED BY <2>2, <2>3
<1>5. ASSUME NEW p \in Producers, CreateAttach(p) PROVE StepInv'
  <2>1. \A q \in Programs : q # p => Still(q)
    BY <1>5, <1>d DEF CreateAttach, Types
  <2>2. StepOK(p)'
    <3>1. CASE There(shmId[p])
      BY <1>5, <1>b, <1>c, <1>d, <3>1 DEF CreateAttach, Types
    <3>2. CASE ~There(shmId[p])
      BY <1>5, <1>b, <1>c, <1>d, <3>2 DEF CreateAttach, Types
    <3> QED BY <3>1, <3>2
  <2>3. keyed' \in {keyed, None} /\ made' = made
    BY <1>5 DEF CreateAttach
  <2> QED BY <1>a, <2>1, <2>2, <2>3
<1>6. ASSUME NEW p \in Producers, Write(p) PROVE StepInv'
  <2>1. \A q \in Programs : q # p => Still(q)
    BY <1>6, <1>d DEF Write, Types
  <2>2. StepOK(p)'
    BY <1>6, <1>b, <1>c, <1>d DEF Write, Types
  <2>3. keyed' \in {keyed, None} /\ made' = made
    BY <1>6 DEF Write
  <2> QED BY <1>a, <2>1, <2>2, <2>3
<1>7. ASSUME NEW p \in Producers, NEW h \in Halves, CopyOut(p, h) PROVE StepInv'
  <2>1. \A q \in Programs : q # p => Still(q)
    BY <1>7, <1>d DEF CopyOut, Types
  <2>2. StepOK(p)'
    BY <1>7, <1>b, <1>c, <1>d DEF CopyOut, Types
  <2>3. keyed' \in {keyed, None} /\ made' = made
    BY <1>7 DEF CopyOut
  <2> QED BY <1>a, <2>1, <2>2, <2>3
<1>8. ASSUME NEW c \in Consumers, InitLook(c) PROVE StepInv'
  <2>1. \A q \in Programs : q # c => Still(q)
    BY <1>8, <1>d DEF InitLook, Types
  <2>2. StepOK(c)'
    BY <1>8, <1>b, <1>c, <1>d DEF InitLook, Types
  <2>3. keyed' \in {keyed, None} /\ made' = made
    BY <1>8 DEF InitLook
  <2> QED BY <1>a, <2>1, <2>2, <2>3
<1>9. ASSUME NEW c \in Consumers, InitAttach(c) PROVE StepInv'
  <2>1. \A q \in Programs : q # c => Still(q)
    BY <1>9, <1>d DEF InitAttach, BeginRead, Types
  <2>2. StepOK(c)'
    <3>1. CASE There(shmId[c])
      BY <1>9, <1>b, <1>c, <1>d, <3>1 DEF InitAttach, BeginRead, Types
    <3>2. CASE ~There(shmId[c])
      BY <1>9, <1>b, <1>c, <1>d, <3>2 DEF InitAttach, BeginRead, Types
    <3> QED BY <3>1, <3>2
  <2>3. keyed' \in {keyed, None} /\ made' = made
    BY <1>9 DEF InitAttach
  <2> QED BY <1>a, <2>1, <2>2, <2>3
<1>10. ASSUME NEW c \in Consumers, Update(c) PROVE StepInv'
  <2>1. \A q \in Programs : q # c => Still(q)
    BY <1>10, <1>d DEF Update, BeginRead, Types
  <2>2. StepOK(c)'
    BY <1>10, <1>b, <1>c, <1>d DEF Update, BeginRead, Types
  <2>3. keyed' \in {keyed, None} /\ made' = made
    BY <1>10 DEF Update
  <2> QED BY <1>a, <2>1, <2>2, <2>3
<1>11. ASSUME NEW c \in Consumers, DestroyConsumer(c) PROVE StepInv'
  <2>1. \A q \in Programs : q # c => Still(q)
    BY <1>11, <1>d DEF DestroyConsumer, Types
  <2>2. StepOK(c)'
    BY <1>11, <1>b, <1>c, <1>d DEF DestroyConsumer, Types
  <2>3. keyed' \in {keyed, None} /\ made' = made
    BY <1>11 DEF DestroyConsumer
  <2> QED BY <1>a, <2>1, <2>2, <2>3
<1>12. ASSUME NEW c \in Consumers, NEW h \in Halves, Read(c, h) PROVE StepInv'
  <2>1. \A q \in Programs : q # c => Still(q)
    BY <1>12, <1>d DEF Read, Types
  <2>2. StepOK(c)'
    BY <1>12, <1>b, <1>c, <1>d DEF Read, Types
  <2>3. keyed' \in {keyed, None} /\ made' = made
    BY <1>12 DEF Read
  <2> QED BY <1>a, <2>1, <2>2, <2>3
<1>13. ASSUME NEW p \in Programs, KillProgram(p) PROVE StepInv'
  <2>1. \A q \in Programs : q # p => Still(q)
    BY <1>13, <1>d DEF KillProgram, NewObject, Types
  <2>2. StepOK(p)'
    BY <1>13, <1>b, <1>c, <1>d DEF KillProgram, NewObject, Types
  <2>3. keyed' \in {keyed, None} /\ made' = made
    BY <1>13 DEF KillProgram, NewObject
  <2> QED BY <1>a, <2>1, <2>2, <2>3
<1>14. ASSUME NEW p \in Producers, EndProducer(p) PROVE StepInv'
  <2>1. \A q \in Programs : q # p => Still(q)
    BY <1>14, <1>d DEF EndProducer, NewObject, RemoveSegment, Types
  <2>2. StepOK(p)'
    BY <1>14, <1>b, <1>c, <1>d DEF EndProducer, NewObject, RemoveSegment, Types
  <2>3. keyed' \in {keyed, None} /\ made' = made
    BY <1>14 DEF EndProducer, NewObject, RemoveSegment
  <2> QED BY <1>a, <2>1, <2>2, <2>3
<1>15. ASSUME NEW c \in Consumers, EndConsumer(c) PROVE StepInv'
  <2>1. \A q \in Programs : q # c => Still(q)
    BY <1>15, <1>d DEF EndConsumer, NewObject, Types
  <2>2. StepOK(c)'
    BY <1>15, <1>b, <1>c, <1>d DEF EndConsumer, NewObject, Types
  <2>3. keyed' \in {keyed, None} /\ made' = made
    BY <1>15 DEF EndConsumer, NewObject
  <2> QED BY <1>a, <2>1, <2>2, <2>3
<1>16. ASSUME NEW c \in Consumers, InitHasty(c) \/ UpdateHasty(c) PROVE StepInv'
  <2>1. \A q \in Programs : q # c => Still(q)
    BY <1>16, <1>d DEF InitHasty, UpdateHasty, Types
  <2>2. StepOK(c)'
    BY <1>16, <1>b, <1>c, <1>d DEF InitHasty, UpdateHasty, Types
  <2>3. keyed' \in {keyed, None} /\ made' = made
    BY <1>16 DEF InitHasty, UpdateHasty
  <2> QED BY <1>a, <2>1, <2>2, <2>3
<1>17. CASE UNCHANGED shmVars
  BY <1>17 DEF shmVars, StepInv
<1> QED BY <1>1, <1>2, <1>3, <1>4, <1>5, <1>6, <1>7, <1>8, <1>9, <1>10, <1>11, <1>12, <1>13, <1>14,
           <1>15, <1>16, <1>17
        DEF ShmNext, ProducerNext, ConsumerNext

LEMMA KeyStep ==
  ASSUME ShmTypeOK, StepInv, KeyInv, SegmentsNotShared, [ShmNext]_shmVars
  PROVE  KeyInv' /\ SegmentsNotShared'
<1> USE SetFacts DEF ShmTypeOK, At, Enter, shmKernel, shmHistory, KeyInv, SegmentsNotShared, Creating
<1>0. \A p \in Producers, c \in Consumers : p # c
  BY SetFacts
<1>k. ASSUME \A q \in Producers : /\ shmStep'[q] = shmStep[q] /\ seen'[q] = seen[q]
                                  /\ shmId'[q] = shmId[q] /\ mapped'[q] = mapped[q]
                                  /\ created'[q] = created[q],
             keyed' = keyed, raced' = raced
      PROVE  KeyInv' /\ SegmentsNotShared'
  BY <1>k
<1>1. ASSUME NEW p \in Producers, CreateLook(p) PROVE KeyInv' /\ SegmentsNotShared'
  <2>1. CASE created[p]
    <3>1. /\ created' = [created EXCEPT ![p] = FALSE]
          /\ shmStep' = shmStep /\ seen' = seen /\ shmId' = shmId /\ mapped' = mapped
          /\ keyed' = keyed /\ raced' = raced
      BY <1>1, <2>1 DEF CreateLook
    <3> QED BY <3>1
  <2>2. CASE ~created[p]
    <3>1. /\ shmStep' = [shmStep EXCEPT ![p] = IF keyed = None THEN "get" ELSE "remove"]
          /\ seen' = [seen EXCEPT ![p] = keyed] /\ shmId' = shmId
          /\ mapped' = mapped /\ created' = created /\ keyed' = keyed
          /\ raced' = (raced \/ \E q \in Producers : Creating(q))
      BY <1>1, <2>2 DEF CreateLook, NextValue
    <3> QED BY <3>1
  <2> QED BY <2>1, <2>2
<1>2. ASSUME NEW p \in Producers, CreateRemove(p) PROVE KeyInv' /\ SegmentsNotShared'
  BY <1>2 DEF CreateRemove, RemoveSegment
<1>3. ASSUME NEW p \in Producers, DestroyProducer(p) PROVE KeyInv' /\ SegmentsNotShared'
  BY <1>3 DEF DestroyProducer, RemoveSegment
<1>4. ASSUME NEW p \in Producers, CreateGet(p) PROVE KeyInv' /\ SegmentsNotShared'
  <2>1. CASE raced'
    BY <2>1
  <2>2. CASE ~raced'
    <3>1. keyed = None
      BY <1>4, <2>2 DEF CreateGet
    <3>2. /\ shmStep' = [shmStep EXCEPT ![p] = "attach"]
          /\ shmId' = [shmId EXCEPT ![p] = made + 1]
          /\ seen' = seen /\ mapped' = mapped /\ created' = created /\ keyed' = made + 1
          /\ raced' = raced /\ shmStep[p] = "get"
      BY <1>4, <3>1 DEF CreateGet
    <3>3. \A q \in Producers : mapped[q] # made + 1
      BY DEF StepInv, StepOK
    <3> QED BY <2>2, <3>2, <3>3
  <2> QED BY <2>1, <2>2
<1>5. ASSUME NEW p \in Producers, CreateAttach(p) PROVE KeyInv' /\ SegmentsNotShared'
  <2>1. CASE There(shmId[p])
    <3>1. /\ shmStep' = [shmStep EXCEPT ![p] = "copy1"]
          /\ mapped' = [mapped EXCEPT ![p] = shmId[p]]
          /\ created' = [created EXCEPT ![p] = TRUE]
          /\ seen' = seen /\ shmId' = shmId /\ keyed' = keyed /\ raced' = raced /\ shmStep[p] = "attach"
      BY <1>5, <2>1 DEF CreateAttach
    <3>2. \A q \in Producers : q # p => /\ shmStep'[q] = shmStep[q] /\ mapped'[q] = mapped[q]
                                         /\ created'[q] = created[q]
      BY <3>1
    <3>3. shmStep'[p] = "copy1" /\ mapped'[p] = shmId[p]
      BY <3>1
    <3>4. ASSUME ~raced, NEW q \in Producers \ {p}, created[q] PROVE mapped[q] # shmId[p]
      BY <3>1, <3>4
    <3>5. SegmentsNotShared'
      BY <3>1, <3>2, <3>3, <3>4
    <3>6. ASSUME ~raced, NEW q \in Producers, Creating(q)' PROVE Creating(q) /\ q # p /\ Creating(p)
      BY <3>1, <3>2, <3>3, <3>6
    <3>7. KeyInv'
      BY <3>1, <3>2, <3>3, <3>6
    <3> QED BY <3>5, <3>7
  <2>2. CASE ~There(shmId[p])
    <3>1. /\ shmStep' = [shmStep EXCEPT ![p] = "idle"]
          /\ mapped' = [mapped EXCEPT ![p] = None] /\ created' = created
          /\ seen' = seen /\ shmId' = shmId /\ keyed' = keyed /\ raced' = raced /\ shmStep[p] = "attach"
      BY <1>5, <2>2 DEF CreateAttach
    <3>2. /\ \A q \in Producers : q # p => shmStep'[q] = shmStep[q] /\ mapped'[q] = mapped[q]
          /\ shmStep'[p] = "idle" /\ ~created[p]
      BY <3>1 DEF StepInv, StepOK
    <3> QED BY <3>1, <3>2
  <2> QED BY <2>1, <2>2
<1>6. ASSUME NEW p \in Producers, Write(p) PROVE KeyInv' /\ SegmentsNotShared'
  BY <1>6 DEF Write, NextValue
<1>7. ASSUME NEW p \in Producers, NEW h \in Halves, CopyOut(p, h) PROVE KeyInv' /\ SegmentsNotShared'
  BY <1>7 DEF CopyOut
<1>8. ASSUME NEW c \in Consumers, InitLook(c) PROVE KeyInv' /\ SegmentsNotShared'
  BY <1>8, <1>0 DEF InitLook
<1>9. ASSUME NEW c \in Consumers, InitAttach(c) PROVE KeyInv' /\ SegmentsNotShared'
  <2>1. CASE There(shmId[c])
    <3>1. /\ shmStep' = [shmStep EXCEPT ![c] = "read1"]
          /\ mapped' = [mapped EXCEPT ![c] = shmId[c]]
          /\ created' = [created EXCEPT ![c] = TRUE]
          /\ seen' = seen /\ shmId' = shmId /\ keyed' = keyed /\ raced' = raced
      BY <1>9, <2>1 DEF InitAttach, BeginRead
    <3> QED BY <1>0, <1>k, <3>1
  <2>2. CASE ~There(shmId[c])
    <3>1. /\ shmStep' = [shmStep EXCEPT ![c] = "idle"]
          /\ mapped' = [mapped EXCEPT ![c] = None]
          /\ created' = [created EXCEPT ![c] = FALSE]
          /\ seen' = seen /\ shmId' = shmId /\ keyed' = keyed /\ raced' = raced
      BY <1>9, <2>2 DEF InitAttach, Enter, shmKernel
    <3>2. \A q \in Producers : /\ shmStep'[q] = shmStep[q] /\ seen'[q] = seen[q]
                               /\ shmId'[q] = shmId[q] /\ mapped'[q] = mapped[q]
                               /\ created'[q] = created[q]
      BY <1>0, <3>1
    <3> HIDE DEF KeyInv, SegmentsNotShared
    <3> QED BY <1>k, <3>1, <3>2
  <2> QED BY <2>1, <2>2
<1>10. ASSUME NEW c \in Consumers, Update(c) PROVE KeyInv' /\ SegmentsNotShared'
  BY <1>10, <1>0 DEF Update, BeginRead
<1>11. ASSUME NEW c \in Consumers, DestroyConsumer(c) PROVE KeyInv' /\ SegmentsNotShared'
  BY <1>11, <1>0 DEF DestroyConsumer
<1>12. ASSUME NEW c \in Consumers, NEW h \in Halves, Read(c, h) PROVE KeyInv' /\ SegmentsNotShared'
  BY <1>12, <1>0 DEF Read
<1>13. ASSUME NEW p \in Programs, KillProgram(p) PROVE KeyInv' /\ SegmentsNotShared'
  BY <1>13 DEF KillProgram, NewObject
<1>14. CASE UNCHANGED shmVars
  BY <1>14 DEF shmVars
<1>15. ASSUME NEW p \in Producers, EndProducer(p) PROVE KeyInv' /\ SegmentsNotShared'
  <2>1. /\ shmStep' = shmStep /\ seen' = seen /\ raced' = raced /\ keyed' \in {keyed, None}
        /\ shmId' = [shmId EXCEPT ![p] = None] /\ mapped' = [mapped EXCEPT ![p] = None]
        /\ created' = [created EXCEPT ![p] = FALSE] /\ shmStep[p] = "idle"
    BY <1>15 DEF EndProducer, NewObject, RemoveSegment
  <2>2. /\ \A q \in Producers : q # p => /\ shmId'[q] = shmId[q] /\ mapped'[q] = mapped[q]
                                        /\ created'[q] = created[q]
        /\ ~created'[p]
    BY <2>1
  <2>3. SegmentsNotShared'
    BY <2>1, <2>2
  <2>4. KeyInv'
    BY <2>1, <2>2
  <2> QED BY <2>3, <2>4
<1>16. ASSUME NEW c \in Consumers, EndConsumer(c) PROVE KeyInv' /\ SegmentsNotShared'
  <2>1. /\ shmStep' = shmStep /\ seen' = seen /\ raced' = raced /\ keyed' = keyed
        /\ shmId' = [shmId EXCEPT ![c] = None] /\ mapped' = [mapped EXCEPT ![c] = None]
        /\ created' = [created EXCEPT ![c] = FALSE]
    BY <1>16 DEF EndConsumer, NewObject
  <2>2. \A q \in Producers : /\ shmStep'[q] = shmStep[q] /\ seen'[q] = seen[q]
                             /\ shmId'[q] = shmId[q] /\ mapped'[q] = mapped[q]
                             /\ created'[q] = created[q]
    BY <1>0, <2>1
  <2> HIDE DEF KeyInv, SegmentsNotShared
  <2> QED BY <1>k, <2>1, <2>2
<1>17. ASSUME NEW c \in Consumers, InitHasty(c) \/ UpdateHasty(c) PROVE KeyInv' /\ SegmentsNotShared'
  <2>1. /\ shmStep' = shmStep /\ keyed' = keyed /\ seen' = seen /\ raced' = raced /\ mapped' = mapped
        /\ shmId' = shmId \/ shmId' = [shmId EXCEPT ![c] = keyed]
        /\ created' = created \/ created' = [created EXCEPT ![c] = keyed # None]
    BY <1>17 DEF InitHasty, UpdateHasty
  <2>2. \A q \in Producers : shmId'[q] = shmId[q] /\ created'[q] = created[q]
    BY <1>0, <2>1
  <2> HIDE DEF KeyInv, SegmentsNotShared
  <2> QED BY <1>k, <2>1, <2>2
<1> HIDE DEF ShmTypeOK, At, Enter, shmKernel, shmHistory, KeyInv, SegmentsNotShared, Creating
<1>18. ASSUME NEW p \in Producers, ProducerNext(p) PROVE KeyInv' /\ SegmentsNotShared'
  BY <1>1, <1>2, <1>3, <1>4, <1>5, <1>6, <1>7, <1>15, <1>18 DEF ProducerNext
<1>19. ASSUME NEW c \in Consumers, ConsumerNext(c) PROVE KeyInv' /\ SegmentsNotShared'
  BY <1>8, <1>9, <1>10, <1>11, <1>12, <1>16, <1>17, <1>19 DEF ConsumerNext
<1> QED BY <1>13, <1>14, <1>18, <1>19 DEF ShmNext

\* Somebody has the segment the key leads to, or it is an orphan.
Owned == keyed # None /\ keyed \notin orphans =>
           \E p \in Producers : Owns(p) /\ shmId[p] = keyed

LEMMA RemovedIsOwned == SegmentsRemoved <=> Owned
BY DEF SegmentsRemoved, Owned

LEMMA RemovedIsOwnedNext == SegmentsRemoved' <=> Owned'
BY DEF SegmentsRemoved, Owned, Owns, At

LEMMA RemovedStep ==
  ASSUME ShmTypeOK, SegmentsRemoved, [ShmNext]_shmVars
  PROVE  SegmentsRemoved'
<1> USE SetFacts DEF ShmTypeOK, At, Enter, shmKernel, shmHistory, Owned, Owns
<1>0. /\ \A p \in Producers, c \in Consumers : p # c
      /\ Owned
  BY SetFacts, RemovedIsOwned
<1> SUFFICES Owned'
  BY RemovedIsOwnedNext
<1>1. ASSUME NEW p \in Producers, CreateLook(p) PROVE Owned'
  <2>1. CASE created[p]
    <3>1. /\ created' = [created EXCEPT ![p] = FALSE] /\ orphans' = orphans \union {shmId[p]}
          /\ shmStep' = shmStep /\ shmId' = shmId /\ keyed' = keyed
      BY <1>1, <2>1 DEF CreateLook
    <3> QED BY <1>0, <3>1
  <2>2. CASE ~created[p]
    <3>1. /\ shmStep' = [shmStep EXCEPT ![p] = IF keyed = None THEN "get" ELSE "remove"]
          /\ shmId' = shmId /\ shmStep[p] = "idle"
          /\ created' = created /\ keyed' = keyed /\ orphans' = orphans
      BY <1>1, <2>2 DEF CreateLook, NextValue
    <3> QED BY <1>0, <2>2, <3>1
  <2> QED BY <2>1, <2>2
<1>2. ASSUME NEW p \in Producers, CreateRemove(p) PROVE Owned'
  BY <1>2, <1>0 DEF CreateRemove, RemoveSegment
<1>3. ASSUME NEW p \in Producers, DestroyProducer(p) PROVE Owned'
  BY <1>3, <1>0 DEF DestroyProducer, RemoveSegment
<1>4. ASSUME NEW p \in Producers, CreateGet(p) PROVE Owned'
  <2>1. CASE keyed # None
    BY <1>4, <2>1 DEF CreateGet
  <2>2. CASE keyed = None
    BY <1>4, <2>2 DEF CreateGet
  <2> QED BY <2>1, <2>2
<1>5. ASSUME NEW p \in Producers, CreateAttach(p) PROVE Owned'
  <2>1. CASE There(shmId[p])
    <3>1. /\ shmStep' = [shmStep EXCEPT ![p] = "copy1"]
          /\ created' = [created EXCEPT ![p] = TRUE]
          /\ shmId' = shmId /\ keyed' = keyed /\ orphans' = orphans
      BY <1>5, <2>1 DEF CreateAttach
    <3> QED BY <1>0, <3>1
  <2>2. CASE ~There(shmId[p])
    <3>1. keyed # shmId[p]
      BY <2>2 DEF There
    <3> QED BY <1>0, <1>5, <2>2, <3>1 DEF CreateAttach
  <2> QED BY <2>1, <2>2
<1>6. ASSUME NEW p \in Producers, Write(p) PROVE Owned'
  BY <1>6, <1>0 DEF Write, NextValue
<1>7. ASSUME NEW p \in Producers, NEW h \in Halves, CopyOut(p, h) PROVE Owned'
  BY <1>7, <1>0 DEF CopyOut
<1>8. ASSUME NEW c \in Consumers, InitLook(c) PROVE Owned'
  BY <1>8, <1>0 DEF InitLook
<1>9. ASSUME NEW c \in Consumers, InitAttach(c) PROVE Owned'
  <2>1. CASE There(shmId[c])
    <3>1. /\ shmStep' = [shmStep EXCEPT ![c] = "read1"]
          /\ created' = [created EXCEPT ![c] = TRUE]
          /\ shmId' = shmId /\ keyed' = keyed /\ orphans' = orphans
      BY <1>9, <2>1 DEF InitAttach, BeginRead
    <3> QED BY <1>0, <3>1
  <2>2. CASE ~There(shmId[c])
    <3>1. /\ shmStep' = [shmStep EXCEPT ![c] = "idle"]
          /\ created' = [created EXCEPT ![c] = FALSE]
          /\ shmId' = shmId /\ keyed' = keyed /\ orphans' = orphans
      BY <1>9, <2>2 DEF InitAttach, Enter, shmKernel
    <3> QED BY <1>0, <3>1
  <2> QED BY <2>1, <2>2
<1>10. ASSUME NEW c \in Consumers, Update(c) PROVE Owned'
  BY <1>10, <1>0 DEF Update, BeginRead
<1>11. ASSUME NEW c \in Consumers, DestroyConsumer(c) PROVE Owned'
  BY <1>11, <1>0 DEF DestroyConsumer
<1>12. ASSUME NEW c \in Consumers, NEW h \in Halves, Read(c, h) PROVE Owned'
  BY <1>12, <1>0 DEF Read
<1>13. ASSUME NEW p \in Programs, KillProgram(p) PROVE Owned'
  BY <1>13, <1>0 DEF KillProgram, NewObject
<1>14. CASE UNCHANGED shmVars
  BY <1>14, <1>0 DEF shmVars
<1>15. ASSUME NEW p \in Producers, EndProducer(p) PROVE Owned'
  <2>1. /\ shmStep' = shmStep /\ shmStep[p] = "idle"
        /\ shmId' = [shmId EXCEPT ![p] = None]
        /\ created' = [created EXCEPT ![p] = FALSE]
        /\ orphans' = orphans \union (IF created[p] /\ p \in Keeping THEN {shmId[p]} ELSE {})
        /\ keyed' = IF created[p] /\ p \notin Keeping /\ keyed = shmId[p] THEN None ELSE keyed
    BY <1>15 DEF EndProducer, NewObject, RemoveSegment
  <2>2. SUFFICES ASSUME keyed' # None, keyed' \notin orphans'
                 PROVE \E q \in Producers : Owns(q)' /\ shmId'[q] = keyed'
    OBVIOUS
  <2>3. keyed' = keyed /\ keyed \notin orphans
    BY <2>1, <2>2
  <2>4. PICK q \in Producers : Owns(q) /\ shmId[q] = keyed
    BY <1>0, <2>2, <2>3
  <2>5. q # p
    BY <2>1, <2>2, <2>3, <2>4
  <2> QED BY <2>1, <2>3, <2>4, <2>5
<1>16. ASSUME NEW c \in Consumers, EndConsumer(c) PROVE Owned'
  <2>1. /\ shmStep' = shmStep /\ keyed' = keyed /\ orphans' = orphans
        /\ shmId' = [shmId EXCEPT ![c] = None] /\ created' = [created EXCEPT ![c] = FALSE]
    BY <1>16 DEF EndConsumer, NewObject
  <2>2. \A q \in Producers : shmId'[q] = shmId[q] /\ created'[q] = created[q]
    BY <1>0, <2>1
  <2> QED BY <1>0, <2>1, <2>2
<1>17. ASSUME NEW c \in Consumers, InitHasty(c) \/ UpdateHasty(c) PROVE Owned'
  <2>1. /\ shmStep' = shmStep /\ keyed' = keyed /\ orphans' = orphans
        /\ shmId' = shmId \/ shmId' = [shmId EXCEPT ![c] = keyed]
        /\ created' = created \/ created' = [created EXCEPT ![c] = keyed # None]
    BY <1>17 DEF InitHasty, UpdateHasty
  <2>2. \A q \in Producers : shmId'[q] = shmId[q] /\ created'[q] = created[q]
    BY <1>0, <2>1
  <2> QED BY <1>0, <2>1, <2>2
<1> HIDE DEF ShmTypeOK, At, Enter, shmKernel, shmHistory, Owned, Owns
<1>18. ASSUME NEW p \in Producers, ProducerNext(p) PROVE Owned'
  BY <1>1, <1>2, <1>3, <1>4, <1>5, <1>6, <1>7, <1>15, <1>18 DEF ProducerNext
<1>19. ASSUME NEW c \in Consumers, ConsumerNext(c) PROVE Owned'
  BY <1>8, <1>9, <1>10, <1>11, <1>12, <1>16, <1>17, <1>19 DEF ConsumerNext
<1> QED BY <1>13, <1>14, <1>18, <1>19 DEF ShmNext

\* Nothing is written, nobody attaches, and no producer begins what it was not in.
Quiet ==
  /\ data' = data /\ writers' = writers /\ finished' = finished /\ writes' = writes
  /\ \A p \in Producers :
       /\ value'[p] = value[p] /\ mapped'[p] = mapped[p] /\ (created'[p] => created[p])
       /\ (Creating(p)' => Creating(p)) /\ (Copying(p)' => Copying(p))
       /\ (At(p, "copy2")' => At(p, "copy2"))

LEMMA QuietKeepsWrites ==
  ASSUME WriteInv, Quiet
  PROVE  WriteInv'
BY DEF WriteInv, Quiet, AtMostOne

LEMMA NextValueKeepsWrites ==
  ASSUME ShmTypeOK, StepInv, WriteInv, NEW p \in Producers, NextValue(p),
         data' = data, writers' = writers, finished' = finished, mapped' = mapped,
         created' = created, NEW step \in Steps, Enter(p, step), step # "copy2",
         step = "copy1" => created[p]
  PROVE  WriteInv'
<1> USE SetFacts DEF ShmTypeOK, Enter, NextValue
<1>1. value'[p][1] = writes + 1 /\ value'[p][2] = writes + 1
  OBVIOUS
<1>2. \A q \in Producers : q # p => value'[q] = value[q] /\ shmStep'[q] = shmStep[q]
  OBVIOUS
<1>3. shmStep'[p] = step /\ writes' = writes + 1 /\ writes \in Nat
  OBVIOUS
<1>4. \A q \in Producers, h \in Halves : value[q][h] \in Nat /\ value[q][h] <= writes
  BY DEF WriteInv
<1>5. \A s \in Segments, h \in Halves : data[s][h] \in Nat /\ data[s][h] <= writes
  BY DEF WriteInv
<1>6. /\ \A q \in Producers, h \in Halves : value'[q][h] <= writes'
      /\ \A s \in Segments, h \in Halves : data'[s][h] <= writes'
  BY <1>1, <1>2, <1>3, <1>4, <1>5
<1>7. /\ \A q \in Producers : (Creating(q) \/ Copying(q))' => value'[q][2] = value'[q][1]
      /\ \A q \in Producers : created'[q] \/ Copying(q)' => q \in writers'[mapped'[q]]
  BY <1>1, <1>2, <1>3 DEF WriteInv, Creating, Copying
<1>8. ASSUME NEW q \in Producers, NEW s \in Segments, (Creating(q) \/ Copying(q))',
             writers'[s] \subseteq {q}, NEW h \in Halves
      PROVE  data'[s][h] <= value'[q][1]
  <2>1. CASE q = p
    BY <2>1, <1>1, <1>3, <1>5
  <2>2. CASE q # p
    BY <2>2, <1>2, <1>8 DEF WriteInv, Creating, Copying
  <2> QED BY <2>1, <2>2
<1>9. \A s \in Segments : AtMostOne(s)' => \A h \in Halves : finished'[s] <= data'[s][h]
  BY DEF WriteInv, AtMostOne
<1>10. ASSUME NEW q \in Producers, At(q, "copy2")', AtMostOne(mapped[q])'
       PROVE  value'[q][1] <= data'[mapped'[q]][1]
  <2>1. q # p
    BY <1>3, <1>10 DEF At
  <2>2. At(q, "copy2") /\ AtMostOne(mapped[q])
    BY <1>2, <1>10, <2>1 DEF At, AtMostOne
  <2> QED BY <1>2, <2>1, <2>2 DEF WriteInv
<1> QED BY <1>6, <1>7, <1>8, <1>9, <1>10 DEF WriteInv

LEMMA AttachKeepsWrites ==
  ASSUME ShmTypeOK, StepInv, WriteInv, NEW p \in Producers, CreateAttach(p), There(shmId[p])
  PROVE  WriteInv'
<1> USE SetFacts DEF ShmTypeOK, Enter
<1>1. /\ mapped' = [mapped EXCEPT ![p] = shmId[p]] /\ shmId[p] \in Segments
      /\ created' = [created EXCEPT ![p] = TRUE]
      /\ shmStep' = [shmStep EXCEPT ![p] = "copy1"] /\ At(p, "attach")
      /\ data' = data /\ value' = value /\ writes' = writes /\ finished' = finished
  BY DEF CreateAttach, StepInv, StepOK, At
<1>2. writers' = [writers EXCEPT ![shmId[p]] = @ \union {p}]
  BY DEF CreateAttach
<1>3. /\ \A s \in Segments : writers[s] \subseteq writers'[s]
      /\ p \in writers'[shmId[p]]
  BY <1>1, <1>2
<1>4. \A s \in Segments : AtMostOne(s)' => AtMostOne(s)
  BY <1>3 DEF AtMostOne
<1>5. \A q \in Producers : q # p => /\ mapped'[q] = mapped[q] /\ created'[q] = created[q]
                                     /\ shmStep'[q] = shmStep[q]
  BY <1>1
<1>6. mapped'[p] = shmId[p] /\ shmStep'[p] = "copy1"
  BY <1>1
<1>7. /\ \A q \in Producers, h \in Halves : value'[q][h] <= writes'
      /\ \A s \in Segments, h \in Halves : data'[s][h] <= writes'
  BY <1>1 DEF WriteInv
<1>8. \A q \in Producers : (Creating(q) \/ Copying(q))' => Creating(q) \/ Copying(q)
  BY <1>1, <1>5 DEF Creating, Copying, At
<1>9. ASSUME NEW q \in Producers, created'[q] \/ Copying(q)'
      PROVE  q \in writers'[mapped'[q]]
  <2>1. CASE q = p
    BY <1>3, <1>6, <2>1
  <2>2. CASE q # p
    <3>1. q \in writers[mapped[q]] /\ mapped[q] \in Segments
      BY <1>5, <1>9, <2>2 DEF WriteInv, Copying, StepInv, StepOK
    <3> QED BY <1>3, <1>5, <2>2, <3>1
  <2> QED BY <2>1, <2>2
<1>10. ASSUME NEW q \in Producers, NEW s \in Segments, (Creating(q) \/ Copying(q))',
              writers'[s] \subseteq {q}, NEW h \in Halves
       PROVE  data'[s][h] <= value'[q][1]
  <2>1. writers[s] \subseteq {q}
    BY <1>3, <1>10
  <2> QED BY <1>1, <1>8, <1>10, <2>1 DEF WriteInv
<1>11. ASSUME NEW q \in Producers, At(q, "copy2")', AtMostOne(mapped[q])'
       PROVE  value'[q][1] <= data'[mapped'[q]][1]
  <2>1. q # p
    BY <1>6, <1>11 DEF At
  <2>2. At(q, "copy2") /\ mapped[q] \in Segments /\ mapped'[q] = mapped[q]
    BY <1>5, <1>11, <2>1 DEF At, StepInv, StepOK, Copying
  <2>3. AtMostOne(mapped[q])
    BY <1>4, <1>11, <2>2 DEF AtMostOne
  <2> QED BY <1>1, <2>2, <2>3 DEF WriteInv
<1>12. \A s \in Segments : AtMostOne(s)' => \A h \in Halves : finished'[s] <= data'[s][h]
  BY <1>1, <1>4 DEF WriteInv
<1>13. \A q \in Producers : (Creating(q) \/ Copying(q))' => value'[q][2] = value'[q][1]
  BY <1>1, <1>8 DEF WriteInv
<1> QED BY <1>7, <1>9, <1>10, <1>11, <1>12, <1>13 DEF WriteInv

LEMMA CopyKeepsWrites ==
  ASSUME ShmTypeOK, StepInv, WriteInv, NEW p \in Producers, NEW h \in Halves, CopyOut(p, h)
  PROVE  WriteInv'
<1> USE SetFacts DEF ShmTypeOK, Enter
<1> DEFINE s == mapped[p]
           n == value[p][1]
<1>1. /\ Copying(p) /\ s \in Segments /\ p \in writers[s] /\ n \in Nat
      /\ value[p][2] = n /\ value[p][h] = n /\ n <= writes
  BY DEF CopyOut, StepInv, StepOK, Copying, At, WriteInv
<1>2. /\ shmStep' = [shmStep EXCEPT ![p] = IF h = 1 THEN "copy2" ELSE "idle"]
      /\ mapped' = mapped /\ created' = created /\ value' = value /\ writes' = writes
      /\ writers' = writers
  BY DEF CopyOut
<1>3. /\ data'[s][h] = n
      /\ \A r \in Segments, k \in Halves : r # s \/ k # h => data'[r][k] = data[r][k]
  BY <1>1 DEF CopyOut
<1>4. /\ h = 1 => finished' = finished
      /\ h = 2 => At(p, "copy2") /\ finished'[s] = n
      /\ \A r \in Segments : r # s => finished'[r] = finished[r]
  BY <1>1 DEF CopyOut
<1>5. /\ \A q \in Producers : q # p => shmStep'[q] = shmStep[q]
      /\ shmStep'[p] = IF h = 1 THEN "copy2" ELSE "idle"
  BY <1>2
<1>6. \A q \in Producers : /\ (Creating(q) \/ Copying(q))' => Creating(q) \/ Copying(q)
                           /\ Copying(q)' => Copying(q)
  BY <1>1, <1>5 DEF Creating, Copying
<1>7. /\ \A q \in Producers, k \in Halves : value'[q][k] <= writes'
      /\ \A r \in Segments, k \in Halves : data'[r][k] <= writes'
  <2>1. \A q \in Producers, k \in Halves : value'[q][k] <= writes'
    BY <1>2 DEF WriteInv
  <2>2. ASSUME NEW r \in Segments, NEW k \in Halves PROVE data'[r][k] <= writes'
    <3>1. CASE r = s /\ k = h
      BY <1>1, <1>2, <1>3, <3>1
    <3>2. CASE r # s \/ k # h
      BY <1>2, <1>3, <3>2 DEF WriteInv
    <3> QED BY <3>1, <3>2
  <2> QED BY <2>1, <2>2
<1>8. /\ \A q \in Producers : (Creating(q) \/ Copying(q))' => value'[q][2] = value'[q][1]
      /\ \A q \in Producers : created'[q] \/ Copying(q)' => q \in writers'[mapped'[q]]
  BY <1>2, <1>6 DEF WriteInv
<1>9. ASSUME NEW q \in Producers, NEW r \in Segments, (Creating(q) \/ Copying(q))',
             writers'[r] \subseteq {q}, NEW k \in Halves
      PROVE  data'[r][k] <= value'[q][1]
  <2>1. CASE r = s /\ k = h
    <3>1. q = p
      BY <1>1, <1>2, <1>9, <2>1
    <3> QED BY <1>1, <1>2, <1>3, <2>1, <3>1
  <2>2. CASE r # s \/ k # h
    BY <1>2, <1>3, <1>6, <1>9, <2>2 DEF WriteInv
  <2> QED BY <2>1, <2>2
<1>10. ASSUME NEW r \in Segments, AtMostOne(r)', NEW k \in Halves
       PROVE  finished'[r] <= data'[r][k]
  <2>1. AtMostOne(r)
    BY <1>2, <1>10 DEF AtMostOne
  <2>2. CASE r # s
    BY <1>3, <1>4, <2>1, <2>2 DEF WriteInv
  <2>3. CASE r = s /\ h = 1
    <3>1. finished'[s] = finished[s] /\ finished[s] <= data[s][k]
      BY <1>4, <2>1, <2>3 DEF WriteInv
    <3>2. data[s][h] <= n
      <4>1. writers[s] \subseteq {p}
        BY <1>1, <2>1, <2>3 DEF AtMostOne
      <4> QED BY <1>1, <4>1 DEF WriteInv
    <3>3. finished[s] <= data[s][h]
      BY <2>1, <2>3 DEF WriteInv
    <3>4. finished[s] \in Nat /\ data[s][h] \in Nat
      BY <1>1
    <3>5. CASE k = h
      BY <1>1, <1>3, <2>3, <3>1, <3>2, <3>3, <3>4, <3>5
    <3>6. CASE k # h
      BY <1>3, <1>1, <2>3, <3>1, <3>6
    <3> QED BY <3>5, <3>6
  <2>4. CASE r = s /\ h = 2
    <3>1. n <= data[s][1]
      BY <1>4, <2>1, <2>4 DEF WriteInv
    <3>2. CASE k = 1
      <4>1. data'[s][1] = data[s][1]
        BY <1>1, <1>3, <2>4
      <4> QED BY <1>4, <2>4, <3>1, <3>2, <4>1
    <3>3. CASE k = 2
      BY <1>1, <1>3, <1>4, <2>4, <3>3
    <3> QED BY <3>2, <3>3
  <2> QED BY <2>2, <2>3, <2>4
<1>11. ASSUME NEW q \in Producers, At(q, "copy2")', AtMostOne(mapped[q])'
       PROVE  value'[q][1] <= data'[mapped'[q]][1]
  <2>1. AtMostOne(mapped[q])
    BY <1>2, <1>11 DEF AtMostOne
  <2>2. CASE q = p
    BY <1>1, <1>2, <1>3, <1>5, <1>11, <2>2 DEF At
  <2>3. CASE q # p
    <3>1. At(q, "copy2") /\ mapped[q] \in Segments /\ q \in writers[mapped[q]]
      BY <1>5, <1>11, <2>3 DEF At, StepInv, StepOK, Copying, WriteInv
    <3>2. mapped[q] # s
      BY <1>1, <2>1, <2>3, <3>1 DEF AtMostOne
    <3>3. value[q][1] <= data[mapped[q]][1]
      BY <2>1, <3>1 DEF WriteInv
    <3> QED BY <1>2, <1>3, <3>1, <3>2, <3>3
  <2> QED BY <2>2, <2>3
<1> QED BY <1>7, <1>8, <1>9, <1>10, <1>11 DEF WriteInv

\* What the destructor of a producer and the end of a program leave.
Fresh(p) ==
  /\ data' = data /\ writes' = writes /\ writers' = writers /\ finished' = finished
  /\ \A q \in Programs : q # p => /\ value'[q] = value[q] /\ mapped'[q] = mapped[q]
                                  /\ created'[q] = created[q] /\ shmStep'[q] = shmStep[q]
  /\ shmStep'[p] = "idle" /\ created'[p] = FALSE /\ \A h \in Halves : value'[p][h] = 0

LEMMA FreshKeepsWrites ==
  ASSUME ShmTypeOK, StepInv, WriteInv, NEW p \in Programs, Fresh(p)
  PROVE  WriteInv'
<1> USE SetFacts DEF ShmTypeOK
<1>1. /\ data' = data /\ writes' = writes /\ writers' = writers /\ finished' = finished
      /\ \A q \in Programs : q # p => /\ value'[q] = value[q] /\ mapped'[q] = mapped[q]
                                      /\ created'[q] = created[q] /\ shmStep'[q] = shmStep[q]
  BY DEF Fresh
<1>2. shmStep'[p] = "idle" /\ created'[p] = FALSE /\ \A h \in Halves : value'[p][h] = 0
  BY DEF Fresh
<1>3. ASSUME NEW q \in Producers, NEW h \in Halves PROVE value'[q][h] <= writes'
  BY <1>1, <1>2 DEF WriteInv
<1>4. ASSUME NEW q \in Producers, NEW s \in Segments, (Creating(q) \/ Copying(q))',
             writers'[s] \subseteq {q}, NEW h \in Halves
      PROVE  data'[s][h] <= value'[q][1]
  BY <1>1, <1>2, <1>4 DEF WriteInv, Creating, Copying
<1>5. ASSUME NEW q \in Producers, At(q, "copy2")', AtMostOne(mapped[q])'
      PROVE  value'[q][1] <= data'[mapped'[q]][1]
  <2>1. q # p
    BY <1>2, <1>5 DEF At
  <2>2. At(q, "copy2") /\ AtMostOne(mapped[q])
    BY <1>1, <1>5, <2>1 DEF At, AtMostOne
  <2> QED BY <1>1, <2>1, <2>2 DEF WriteInv
<1>a. \A q \in Producers : (Creating(q) \/ Copying(q))' => value'[q][2] = value'[q][1]
  BY <1>1, <1>2 DEF WriteInv, Creating, Copying
<1>b. \A q \in Producers : created'[q] \/ Copying(q)' => q \in writers'[mapped'[q]]
  BY <1>1, <1>2 DEF WriteInv, Creating, Copying
<1>6. /\ \A q \in Producers : (Creating(q) \/ Copying(q))' => value'[q][2] = value'[q][1]
      /\ \A q \in Producers : created'[q] \/ Copying(q)' => q \in writers'[mapped'[q]]
  BY <1>a, <1>b
<1>7. \A s \in Segments, h \in Halves : data'[s][h] <= writes'
  BY <1>1 DEF WriteInv
<1>8. \A s \in Segments : AtMostOne(s)' => \A h \in Halves : finished'[s] <= data'[s][h]
  BY <1>1 DEF WriteInv, AtMostOne
<1> QED BY <1>3, <1>4, <1>5, <1>6, <1>7, <1>8 DEF WriteInv

LEMMA FailedAttachKeepsWrites ==
  ASSUME ShmTypeOK, StepInv, WriteInv, NEW p \in Producers, CreateAttach(p), ~There(shmId[p])
  PROVE  WriteInv'
<1> USE SetFacts DEF ShmTypeOK, Enter, At
<1>1. /\ data' = data /\ writers' = writers /\ finished' = finished /\ writes' = writes
      /\ value' = value /\ created' = created /\ mapped' = [mapped EXCEPT ![p] = None]
      /\ shmStep' = [shmStep EXCEPT ![p] = "idle"] /\ shmStep[p] = "attach"
  BY DEF CreateAttach
<1>2. \A q \in Producers : q # p => mapped'[q] = mapped[q] /\ shmStep'[q] = shmStep[q]
  BY <1>1
<1>3. ~created[p] /\ shmStep'[p] = "idle"
  BY <1>1 DEF StepInv, StepOK, Creating
<1>4. \A q \in Producers : created'[q] \/ Copying(q)' => q \in writers'[mapped'[q]]
  BY <1>1, <1>2, <1>3 DEF WriteInv, Copying
<1>5. \A q \in Producers : /\ (Creating(q) \/ Copying(q))' => Creating(q) \/ Copying(q)
                           /\ At(q, "copy2")' => At(q, "copy2") /\ mapped'[q] = mapped[q]
  BY <1>1, <1>2, <1>3 DEF Creating, Copying
<1>6. \A q \in Producers : At(q, "copy2")' /\ AtMostOne(mapped[q])' =>
         value'[q][1] <= data'[mapped'[q]][1]
  BY <1>1, <1>5 DEF WriteInv, AtMostOne
<1>7. \A q \in Producers : (Creating(q) \/ Copying(q))' => value'[q][2] = value'[q][1]
  BY <1>1, <1>5 DEF WriteInv
<1>8. \A q \in Producers, s \in Segments :
         (Creating(q) \/ Copying(q))' /\ writers'[s] \subseteq {q} =>
           \A h \in Halves : data'[s][h] <= value'[q][1]
  BY <1>1, <1>5 DEF WriteInv
<1>9. /\ \A q \in Producers, h \in Halves : value'[q][h] <= writes'
      /\ \A s \in Segments, h \in Halves : data'[s][h] <= writes'
  BY <1>1 DEF WriteInv
<1>10. \A s \in Segments : AtMostOne(s)' => \A h \in Halves : finished'[s] <= data'[s][h]
  BY <1>1 DEF WriteInv, AtMostOne
<1> QED BY <1>4, <1>6, <1>7, <1>8, <1>9, <1>10 DEF WriteInv

LEMMA WritesStep ==
  ASSUME ShmTypeOK, StepInv, WriteInv, [ShmNext]_shmVars
  PROVE  WriteInv'
<1> USE SetFacts DEF ShmTypeOK, At, Enter, shmKernel, shmHistory, Creating, Copying
<1>0. \A p \in Producers, c \in Consumers : p # c
  BY SetFacts
<1>1. ASSUME NEW p \in Producers, CreateLook(p) PROVE WriteInv'
  <2>1. CASE created[p]
    <3>1. Quiet
      BY <1>1, <2>1 DEF CreateLook, Quiet
    <3> QED BY <3>1, QuietKeepsWrites
  <2>2. CASE ~created[p]
    <3>1. /\ NextValue(p) /\ Enter(p, IF keyed = None THEN "get" ELSE "remove")
          /\ data' = data /\ writers' = writers /\ finished' = finished
          /\ mapped' = mapped /\ created' = created
      BY <1>1, <2>2 DEF CreateLook
    <3> HIDE DEF ShmTypeOK, At, Enter, Creating, Copying
    <3>2. "get" \in Steps /\ "remove" \in Steps
      BY DEF Steps
    <3> QED BY <3>1, <3>2, NextValueKeepsWrites
  <2> QED BY <2>1, <2>2
<1>2. ASSUME NEW p \in Producers, CreateRemove(p) PROVE WriteInv'
  <2>1. Quiet
    BY <1>2 DEF CreateRemove, Quiet
  <2> QED BY <2>1, QuietKeepsWrites
<1>3. ASSUME NEW p \in Producers, DestroyProducer(p) PROVE WriteInv'
  <2>1. Quiet
    BY <1>3 DEF DestroyProducer, Quiet
  <2> QED BY <2>1, QuietKeepsWrites
<1>4. ASSUME NEW p \in Producers, CreateGet(p) PROVE WriteInv'
  <2>1. Quiet
    BY <1>4 DEF CreateGet, Quiet
  <2> QED BY <2>1, QuietKeepsWrites
<1>5. ASSUME NEW p \in Producers, CreateAttach(p) PROVE WriteInv'
  <2>1. CASE There(shmId[p])
    BY <1>5, <2>1, AttachKeepsWrites
  <2>2. CASE ~There(shmId[p])
    BY <1>5, <2>2, FailedAttachKeepsWrites
  <2> QED BY <2>1, <2>2
<1>6. ASSUME NEW p \in Producers, Write(p) PROVE WriteInv'
  <2>1. /\ NextValue(p) /\ Enter(p, "copy1") /\ created[p]
        /\ data' = data /\ writers' = writers /\ finished' = finished
        /\ mapped' = mapped /\ created' = created
    BY <1>6 DEF Write
  <2> HIDE DEF ShmTypeOK, At, Enter, Creating, Copying
  <2>2. "copy1" \in Steps
    BY DEF Steps
  <2> QED BY <2>1, <2>2, NextValueKeepsWrites
<1>7. ASSUME NEW p \in Producers, NEW h \in Halves, CopyOut(p, h) PROVE WriteInv'
  BY <1>7, CopyKeepsWrites
<1>8. ASSUME NEW c \in Consumers, InitLook(c) PROVE WriteInv'
  <2>1. Quiet
    BY <1>0, <1>8 DEF InitLook, Quiet
  <2> QED BY <2>1, QuietKeepsWrites
<1>9. ASSUME NEW c \in Consumers, InitAttach(c) PROVE WriteInv'
  <2>1. Quiet
    <3>1. CASE There(shmId[c])
      BY <1>0, <1>9, <3>1 DEF InitAttach, BeginRead, Quiet
    <3>2. CASE ~There(shmId[c])
      BY <1>0, <1>9, <3>2 DEF InitAttach, Quiet
    <3> QED BY <3>1, <3>2
  <2> QED BY <2>1, QuietKeepsWrites
<1>10. ASSUME NEW c \in Consumers, Update(c) PROVE WriteInv'
  <2>1. Quiet
    BY <1>0, <1>10 DEF Update, BeginRead, Quiet
  <2> QED BY <2>1, QuietKeepsWrites
<1>11. ASSUME NEW c \in Consumers, DestroyConsumer(c) PROVE WriteInv'
  <2>1. Quiet
    BY <1>0, <1>11 DEF DestroyConsumer, Quiet
  <2> QED BY <2>1, QuietKeepsWrites
<1>12. ASSUME NEW c \in Consumers, NEW h \in Halves, Read(c, h) PROVE WriteInv'
  <2>1. Quiet
    BY <1>0, <1>12 DEF Read, Quiet
  <2> QED BY <2>1, QuietKeepsWrites
<1>13. ASSUME NEW p \in Programs, KillProgram(p) PROVE WriteInv'
  <2>1. Fresh(p)
    BY <1>13 DEF KillProgram, NewObject, Fresh, Zero
  <2> QED BY <2>1, FreshKeepsWrites
<1>14. CASE UNCHANGED shmVars
  <2>1. Quiet
    BY <1>14 DEF shmVars, Quiet
  <2> QED BY <2>1, QuietKeepsWrites
<1>15. ASSUME NEW p \in Producers, EndProducer(p) PROVE WriteInv'
  <2>1. Fresh(p)
    BY <1>15 DEF EndProducer, NewObject, Fresh, Zero
  <2> QED BY <2>1, FreshKeepsWrites
<1>16. ASSUME NEW c \in Consumers, EndConsumer(c) PROVE WriteInv'
  <2>1. Quiet
    BY <1>0, <1>16 DEF EndConsumer, NewObject, Quiet
  <2> QED BY <2>1, QuietKeepsWrites
<1>17. ASSUME NEW c \in Consumers, InitHasty(c) \/ UpdateHasty(c) PROVE WriteInv'
  <2>1. Quiet
    BY <1>0, <1>17 DEF InitHasty, UpdateHasty, Quiet
  <2> QED BY <2>1, QuietKeepsWrites
<1> QED BY <1>1, <1>2, <1>3, <1>4, <1>5, <1>6, <1>7, <1>8, <1>9, <1>10, <1>11, <1>12, <1>13, <1>14,
           <1>15, <1>16, <1>17
        DEF ShmNext, ProducerNext, ConsumerNext

\* A consumer's step, and a step that leaves consumers alone.
Same(c) == /\ floor'[c] = floor[c] /\ value'[c] = value[c] /\ mapped'[c] = mapped[c]
           /\ created'[c] = created[c] /\ shmStep'[c] = shmStep[c]
Grown == \A s \in Segments : AtMostOne(s)' => AtMostOne(s) /\ finished[s] <= finished'[s]

ReadOK(c) ==
  /\ Reading(c) /\ AtMostOne(mapped[c]) => floor[c] <= finished[mapped[c]]
  /\ At(c, "read2") /\ AtMostOne(mapped[c]) => floor[c] <= value[c][1]
  /\ At(c, "idle") /\ created[c] /\ AtMostOne(mapped[c]) => \A h \in Halves : floor[c] <= value[c][h]

LEMMA UntouchedReads ==
  ASSUME ShmTypeOK, ShmTypeOK', StepInv, NEW c \in Consumers \ Hasty, ReadOK(c), Same(c), Grown
  PROVE  ReadOK(c)'
<1> USE SetFacts DEF ShmTypeOK
<1>1. ASSUME AtMostOne(mapped[c])', Reading(c) \/ created[c]
      PROVE  /\ mapped[c] \in Segments /\ AtMostOne(mapped[c])
             /\ finished[mapped[c]] <= finished'[mapped[c]]
  BY <1>1 DEF Same, Grown, StepInv, StepOK, AtMostOne
<1>2. ASSUME Reading(c)', AtMostOne(mapped[c])' PROVE floor'[c] <= finished'[mapped'[c]]
  <2>1. Reading(c)
    BY <1>2 DEF Same, Reading
  <2>2. /\ floor[c] <= finished[mapped[c]] /\ mapped[c] \in Segments
        /\ finished[mapped[c]] <= finished'[mapped[c]]
    BY <1>1, <1>2, <2>1 DEF ReadOK
  <2>3. /\ floor[c] \in Nat /\ finished[mapped[c]] \in Nat
        /\ floor'[c] = floor[c] /\ mapped'[c] = mapped[c]
    BY <2>2 DEF Same
  <2>4. CASE finished'[mapped[c]] \in Nat
    BY <2>2, <2>3, <2>4
  <2>5. finished' \in [Segments -> Nat]
    OBVIOUS
  <2> QED BY <2>2, <2>4, <2>5
<1>3. ASSUME At(c, "read2")', AtMostOne(mapped[c])' PROVE floor'[c] <= value'[c][1]
  BY <1>1, <1>3 DEF Same, ReadOK, At, Reading
<1>4. ASSUME At(c, "idle")', created'[c], AtMostOne(mapped[c])', NEW h \in Halves
      PROVE  floor'[c] <= value'[c][h]
  BY <1>1, <1>4 DEF Same, ReadOK, At
<1> QED BY <1>2, <1>3, <1>4 DEF ReadOK

LEMMA ReadsAllOK == ReadInv <=> \A c \in Consumers \ Hasty : ReadOK(c)
BY DEF ReadInv, ReadOK

LEMMA ReadsAllOKNext == ReadInv' <=> \A c \in Consumers \ Hasty : ReadOK(c)'
BY DEF ReadInv, ReadOK

\* What a segment held when a read of it began is not newer than what it holds.
LEMMA FloorsGrown ==
  ASSUME ShmTypeOK, StepInv, WriteInv, NEW p \in Producers, NEW h \in Halves, CopyOut(p, h)
  PROVE  Grown
<1> USE SetFacts DEF ShmTypeOK
<1>1. /\ Copying(p) /\ mapped[p] \in Segments /\ p \in writers[mapped[p]] /\ writers' = writers
  BY DEF CopyOut, StepInv, StepOK, Copying, At, WriteInv
<1> SUFFICES ASSUME NEW s \in Segments, AtMostOne(s)' PROVE AtMostOne(s) /\ finished[s] <= finished'[s]
  BY DEF Grown
<1>2. AtMostOne(s)
  BY <1>1 DEF AtMostOne
<1>3. CASE h = 2 /\ s = mapped[p]
  <2>1. finished[s] <= data[s][1]
    BY <1>2 DEF WriteInv
  <2>2. writers[s] \subseteq {p}
    BY <1>1, <1>2, <1>3 DEF AtMostOne
  <2>3. data[s][1] <= value[p][1]
    BY <1>1, <2>2 DEF WriteInv
  <2>4. finished'[s] = value[p][1]
    BY <1>1, <1>3 DEF CopyOut
  <2>5. finished[s] \in Nat /\ data[s][1] \in Nat /\ value[p][1] \in Nat
    OBVIOUS
  <2> QED BY <1>2, <2>1, <2>3, <2>4, <2>5
<1>4. CASE ~(h = 2 /\ s = mapped[p])
  BY <1>1, <1>2, <1>4 DEF CopyOut
<1> QED BY <1>3, <1>4

LEMMA AttachGrows ==
  ASSUME ShmTypeOK, StepInv, NEW p \in Producers, CreateAttach(p)
  PROVE  Grown
<1> USE SetFacts DEF ShmTypeOK
<1>1. finished' = finished /\ shmId[p] \in Segments
  BY DEF CreateAttach, StepInv, StepOK
<1>2. CASE writers' = writers
  BY <1>1, <1>2 DEF Grown, AtMostOne
<1>3. CASE writers' = [writers EXCEPT ![shmId[p]] = writers[shmId[p]] \union {p}]
  <2>1. \A s \in Segments : writers[s] \subseteq writers'[s]
    BY <1>1, <1>3
  <2> QED BY <1>1, <2>1 DEF Grown, AtMostOne
<1> QED BY <1>2, <1>3 DEF CreateAttach

LEMMA StillGrown ==
  ASSUME ShmTypeOK, writers' = writers, finished' = finished
  PROVE  Grown
BY DEF Grown, AtMostOne, ShmTypeOK

LEMMA ReadsStep ==
  ASSUME ShmTypeOK, ShmTypeOK', StepInv, WriteInv, ReadInv, [ShmNext]_shmVars
  PROVE  ReadInv'
<1> USE SetFacts DEF At, Enter, shmKernel, shmHistory
<1>0. /\ \A p \in Producers, c \in Consumers : p # c
      /\ \A c \in Consumers \ Hasty : ReadOK(c)
  BY SetFacts, ReadsAllOK
<1>a. ASSUME NEW c \in Consumers, c \notin Hasty => ReadOK(c)', Grown, \A d \in Consumers : d # c => Same(d)
      PROVE  ReadInv'
  BY <1>0, <1>a, UntouchedReads, ReadsAllOKNext
<1>b. ASSUME Grown, \A c \in Consumers : Same(c)
      PROVE  ReadInv'
  BY <1>0, <1>b, UntouchedReads, ReadsAllOKNext
<1>1. ASSUME NEW p \in Producers, CreateLook(p) PROVE ReadInv'
  <2>1. Grown
    BY <1>1, StillGrown DEF CreateLook
  <2>2. \A c \in Consumers : Same(c)
    <3>1. CASE created[p]
      BY <1>0, <1>1, <3>1 DEF CreateLook, ShmTypeOK, Same
    <3>2. CASE ~created[p]
      BY <1>0, <1>1, <3>2 DEF CreateLook, NextValue, ShmTypeOK, Same
    <3> QED BY <3>1, <3>2
  <2> QED BY <1>b, <2>1, <2>2
<1>2. ASSUME NEW p \in Producers, CreateRemove(p) \/ DestroyProducer(p) \/ CreateGet(p) PROVE ReadInv'
  <2>1. Grown
    BY <1>2, StillGrown DEF CreateRemove, DestroyProducer, CreateGet
  <2>2. \A c \in Consumers : Same(c)
    BY <1>0, <1>2 DEF CreateRemove, DestroyProducer, CreateGet, ShmTypeOK, Same
  <2> QED BY <1>b, <2>1, <2>2
<1>3. ASSUME NEW p \in Producers, CreateAttach(p) PROVE ReadInv'
  <2>1. Grown
    BY <1>3, AttachGrows
  <2>2. \A c \in Consumers : Same(c)
    BY <1>0, <1>3 DEF CreateAttach, ShmTypeOK, Same
  <2> QED BY <1>b, <2>1, <2>2
<1>4. ASSUME NEW p \in Producers, Write(p) PROVE ReadInv'
  <2>1. Grown
    BY <1>4, StillGrown DEF Write
  <2>2. \A c \in Consumers : Same(c)
    BY <1>0, <1>4 DEF Write, NextValue, ShmTypeOK, Same
  <2> QED BY <1>b, <2>1, <2>2
<1>5. ASSUME NEW p \in Producers, NEW h \in Halves, CopyOut(p, h) PROVE ReadInv'
  <2>1. Grown
    BY <1>5, FloorsGrown
  <2>2. \A c \in Consumers : Same(c)
    BY <1>0, <1>5 DEF CopyOut, ShmTypeOK, Same
  <2> QED BY <1>b, <2>1, <2>2
<1>6. ASSUME NEW c \in Consumers, InitLook(c) \/ DestroyConsumer(c) \/ EndConsumer(c) PROVE ReadInv'
  <2>1. Grown
    BY <1>6, StillGrown DEF InitLook, DestroyConsumer, EndConsumer
  <2>2. \A d \in Consumers : d # c => Same(d)
    BY <1>6 DEF InitLook, DestroyConsumer, EndConsumer, NewObject, ShmTypeOK, Same
  <2>3. ReadOK(c)'
    BY <1>6 DEF InitLook, DestroyConsumer, EndConsumer, NewObject, ShmTypeOK, ReadOK, Reading
  <2> QED BY <1>a, <2>1, <2>2, <2>3
<1>7. ASSUME NEW c \in Consumers, InitAttach(c) PROVE ReadInv'
  <2>1. Grown
    BY <1>7, StillGrown DEF InitAttach
  <2>2. CASE There(shmId[c])
    <3>1. \A d \in Consumers : d # c => Same(d)
      BY <1>7, <2>2 DEF InitAttach, BeginRead, ShmTypeOK, Same
    <3>2. /\ shmStep'[c] = "read1" /\ mapped'[c] = shmId[c] /\ floor'[c] = finished[shmId[c]]
          /\ finished' = finished /\ shmId[c] \in Segments
      BY <1>7, <2>2 DEF InitAttach, BeginRead, ShmTypeOK, StepInv, StepOK
    <3>3. ReadOK(c)'
      BY <3>2 DEF ShmTypeOK, ReadOK
    <3> QED BY <1>a, <2>1, <3>1, <3>3
  <2>3. CASE ~There(shmId[c])
    <3>1. \A d \in Consumers : d # c => Same(d)
      BY <1>7, <2>3 DEF InitAttach, ShmTypeOK, Same
    <3>2. shmStep'[c] = "idle" /\ ~created'[c]
      BY <1>7, <2>3 DEF InitAttach, ShmTypeOK
    <3>3. ReadOK(c)'
      BY <3>2 DEF ReadOK, Reading
    <3> QED BY <1>a, <2>1, <3>1, <3>3
  <2> QED BY <2>2, <2>3
<1>8. ASSUME NEW c \in Consumers, Update(c) PROVE ReadInv'
  <2>1. Grown
    BY <1>8, StillGrown DEF Update
  <2>2. \A d \in Consumers : d # c => Same(d)
    BY <1>8 DEF Update, BeginRead, ShmTypeOK, Same
  <2>3. /\ shmStep'[c] = "read1" /\ mapped'[c] = mapped[c] /\ c \in Programs \ Hasty /\ floor'[c] = finished[mapped[c]]
        /\ finished' = finished /\ mapped[c] \in Segments
    BY <1>8 DEF Update, BeginRead, ShmTypeOK, StepInv, StepOK
  <2>4. ReadOK(c)'
    BY <2>3 DEF ShmTypeOK, ReadOK
  <2> QED BY <1>a, <2>1, <2>2, <2>4
<1>9. ASSUME NEW c \in Consumers, NEW h \in Halves, Read(c, h) PROVE ReadInv'
  <2>1. Grown
    BY <1>9, StillGrown DEF Read
  <2>2. \A d \in Consumers : d # c => Same(d)
    BY <1>9 DEF Read, ShmTypeOK, Same
  <2> DEFINE s == mapped[c]
  <2>3. Reading(c) /\ s \in Segments /\ ReadOK(c)
    <3>1. Reading(c) /\ c \notin Hasty
      BY <1>9 DEF Read, Reading, StepInv, StepOK
    <3> QED BY <1>0, <3>1 DEF ShmTypeOK, StepInv, StepOK
  <2>4. /\ shmStep'[c] = (IF h = 1 THEN "read2" ELSE "idle") /\ mapped'[c] = s
        /\ floor'[c] = floor[c] /\ finished' = finished /\ writers' = writers
        /\ (h = 2 => At(c, "read2"))
    BY <1>9 DEF Read, ShmTypeOK
  <2>5. /\ value'[c][h] = data[s][h]
        /\ \A k \in Halves : k # h => value'[c][k] = value[c][k]
    BY <1>9, <2>3 DEF Read, ShmTypeOK
  <2>6. ASSUME AtMostOne(s)
        PROVE  floor[c] <= finished[s] /\ floor[c] <= data[s][h]
    <3>1. floor[c] <= finished[s] /\ finished[s] <= data[s][h]
      BY <2>3, <2>6 DEF ReadOK, WriteInv
    <3>2. floor[c] \in Nat /\ finished[s] \in Nat /\ data[s][h] \in Nat
      BY <2>3 DEF ShmTypeOK
    <3> QED BY <3>1, <3>2
  <2>7. AtMostOne(mapped[c])' => AtMostOne(s)
    BY <2>4 DEF AtMostOne
  <2>8. Reading(c)' /\ AtMostOne(mapped[c])' => floor'[c] <= finished'[mapped'[c]]
    BY <2>4, <2>6, <2>7
  <2>9. At(c, "read2")' /\ AtMostOne(mapped[c])' => floor'[c] <= value'[c][1]
    BY <2>4, <2>5, <2>6, <2>7
  <2>10. At(c, "idle")' /\ created'[c] /\ AtMostOne(mapped[c])' =>
           \A k \in Halves : floor'[c] <= value'[c][k]
    <3>1. SUFFICES ASSUME h = 2, AtMostOne(s) PROVE \A k \in Halves : floor[c] <= value'[c][k]
      BY <2>4, <2>7
    <3>2. floor[c] <= value[c][1] /\ value'[c][1] = value[c][1]
      BY <2>3, <2>4, <2>5, <3>1 DEF ReadOK
    <3>3. floor[c] <= value'[c][2]
      BY <2>5, <2>6, <3>1
    <3> QED BY <3>2, <3>3
  <2>11. ReadOK(c)'
    BY <2>8, <2>9, <2>10 DEF ReadOK
  <2> QED BY <1>a, <2>1, <2>2, <2>11
<1>10. ASSUME NEW p \in Programs, KillProgram(p) PROVE ReadInv'
  <2>1. Grown
    BY <1>10, StillGrown DEF KillProgram
  <2>2. \A c \in Consumers : c # p => Same(c)
    BY <1>10 DEF KillProgram, NewObject, ShmTypeOK, Same
  <2>3. p \in Consumers => ReadOK(p)'
    BY <1>10 DEF KillProgram, NewObject, ShmTypeOK, ReadOK, Reading
  <2>4. CASE p \in Consumers
    BY <1>a, <2>1, <2>2, <2>3, <2>4
  <2>5. CASE p \notin Consumers
    BY <1>b, <2>1, <2>2, <2>5
  <2> QED BY <2>4, <2>5
<1>11. CASE UNCHANGED shmVars
  <2>1. Grown
    BY <1>11, StillGrown DEF shmVars
  <2>2. \A c \in Consumers : Same(c)
    BY <1>11 DEF shmVars, Same
  <2> QED BY <1>b, <2>1, <2>2
<1>12. ASSUME NEW p \in Producers, EndProducer(p) PROVE ReadInv'
  <2>1. Grown
    BY <1>12, StillGrown DEF EndProducer
  <2>2. \A c \in Consumers : Same(c)
    BY <1>0, <1>12 DEF EndProducer, NewObject, ShmTypeOK, Same
  <2> QED BY <1>b, <2>1, <2>2
<1>13. ASSUME NEW c \in Consumers, InitHasty(c) \/ UpdateHasty(c) PROVE ReadInv'
  <2>1. Grown
    BY <1>13, StillGrown DEF InitHasty, UpdateHasty
  <2>2. \A d \in Consumers : d # c => Same(d)
    BY <1>13 DEF InitHasty, UpdateHasty, ShmTypeOK, Same
  <2>3. c \in Hasty
    BY <1>13 DEF InitHasty, UpdateHasty
  <2> QED BY <1>a, <2>1, <2>2, <2>3
<1> QED BY <1>1, <1>2, <1>3, <1>4, <1>5, <1>6, <1>7, <1>8, <1>9, <1>10, <1>11, <1>12, <1>13
        DEF ShmNext, ProducerNext, ConsumerNext

-----------------------------------------------------------------------------
(* The theorem.                                                            *)

LEMMA ShmInvStep ==
  ASSUME ShmInv, [ShmNext]_shmVars
  PROVE  ShmInv'
<1> USE DEF ShmInv
<1>1. ShmTypeOK'
  BY TypesStep
<1>4. StepInv'
  BY <1>1, StepsStep
<1>2. KeyInv' /\ SegmentsNotShared' /\ SegmentsRemoved' /\ WriteInv'
  BY KeyStep, RemovedStep, WritesStep
<1>3. ReadInv'
  BY <1>1, ReadsStep
<1> QED BY <1>1, <1>2, <1>3, <1>4

\* A set that counts one has at most one member.
LEMMA OneIsAtMostOne ==
  ASSUME NEW s \in Segments, writers[s] \subseteq Producers, Cardinality(writers[s]) = 1
  PROVE  AtMostOne(s)
<1>1. IsFiniteSet(writers[s])
  BY SharedMemoryAssumption, FS_Subset DEF Programs
<1>2. PICK w : writers[s] = {w}
  BY <1>1, FS_Singleton
<1> QED BY <1>2 DEF AtMostOne

LEMMA ShmInvReliable == ShmInv => SegmentsReliable
<1> SUFFICES ASSUME ShmInv PROVE SegmentsReliable
  OBVIOUS
<1>1. ASSUME NEW c \in Consumers \ Hasty, At(c, "idle"), created[c],
             Cardinality(writers[mapped[c]]) = 1, NEW h \in Halves
      PROVE  value[c][h] >= floor[c]
  <2>1. c \in Programs /\ mapped[c] \in Segments
    BY <1>1, SetFacts DEF ShmInv, ShmTypeOK, StepInv, StepOK
  <2>2. AtMostOne(mapped[c])
    BY <1>1, <2>1, OneIsAtMostOne DEF ShmInv, ShmTypeOK
  <2>3. floor[c] <= value[c][h]
    BY <1>1, <2>2 DEF ShmInv, ReadInv
  <2>4. floor[c] \in Nat /\ value[c][h] \in Nat
    BY <2>1 DEF ShmInv, ShmTypeOK
  <2> QED BY <2>3, <2>4
<1>2. ReadsAreRecent
  BY <1>1 DEF ReadsAreRecent
<1> QED BY <1>2 DEF SegmentsReliable, ShmInv

\* The programs keep no lock, and may still rely on this, however many they are: reads
\* of a segment that one producer has, by a consumer that waited for it, are no older
\* than its last finished write, two producers share a segment only after a race inside
\* create, and every segment the key leads to is in the hands of a producer, or was left
\* by one that was killed, forgot it or was to keep it (create, write, update, destructors).
THEOREM SegmentsStayReliable == ShmSpec => []SegmentsReliable
<1>1. ShmInit => ShmInv
  BY ShmInitInv
<1>2. ShmInv /\ [ShmNext]_shmVars => ShmInv'
  BY ShmInvStep
<1> QED BY <1>1, <1>2, ShmInvReliable, PTL DEF ShmSpec

-----------------------------------------------------------------------------
(* The strings of a process: while nobody is crowded, the slots of every   *)
(* object are laid out one way (Holding).                                  *)

\* What the slots hold that belong to strings a and e: those of the arguments, those of
\* the environment, the two last places as the constructor found them, and NULL.
Holding(a, e) ==
  [s \in Slots |->
     IF s < Len(a) THEN a[s + 1]
     ELSE IF s \in Env(0) .. Env(Len(e)) - 1 THEN e[s - MAX_ARG_COUNT + 1]
     ELSE IF s \in {MAX_ARG_COUNT - 1, Env(MAX_ARG_COUNT - 1)} THEN Junk ELSE NULL]

\* The types, of which what is not made has any.
StringsTypeOK ==
  /\ exists \subseteq Objects
  /\ nArgs \in [Objects -> Nat] /\ nEnvs \in [Objects -> Nat]
  /\ args \in [Objects -> Seq(Strings)] /\ envs \in [Objects -> Seq(Strings)]
  /\ slot \in [Objects -> [Slots -> Strings \union {NULL, Junk}]]
  /\ origin \in [Objects -> Origins]

\* The arrays of the object hold strings a and e, and there is room.
Holds(o, a, e) ==
  /\ a \in Seq(Strings) /\ e \in Seq(Strings)
  /\ nArgs[o] = Len(a) /\ nEnvs[o] = Len(e)
  /\ Roomy(nArgs[o]) /\ Roomy(nEnvs[o])
  /\ slot[o] = Holding(a, e)

\* Those are what is recorded of it.
Told(o, a, e) ==
  /\ origin[o] = "built" => a = args[o] /\ e = envs[o]
  /\ origin[o] = "copied" => a = args[o] \o envs[o] /\ e = <<>>

Kept(o) == \E a, e : Holds(o, a, e) /\ Told(o, a, e)

StringsInv ==
  \/ crowded
  \/ wrong = {} /\ StringsTypeOK /\ \A o \in exists : Kept(o)

LEMMA StringsInitInv == VariablesInit => StringsInv
<1> SUFFICES ASSUME VariablesInit PROVE wrong = {} /\ StringsTypeOK /\ \A o \in exists : Kept(o)
  BY DEF StringsInv
<1>1. <<>> \in Seq(Strings) OBVIOUS
<1>2. [o \in Objects |-> <<>>] \in [Objects -> Seq(Strings)] BY <1>1
<1> QED BY <1>2 DEF VariablesInit, StringsTypeOK, Origins

\* An object no step has touched.
LEMMA KeptStill ==
  ASSUME NEW p, Kept(p), nArgs'[p] = nArgs[p], nEnvs'[p] = nEnvs[p], slot'[p] = slot[p],
         args'[p] = args[p], envs'[p] = envs[p], origin'[p] = origin[p]
  PROVE Kept(p)'
<1>1. PICK a, e : Holds(p, a, e) /\ Told(p, a, e) BY DEF Kept
<1>2. Holds(p, a, e)' BY <1>1 DEF Holds, Holding, Roomy
<1>3. Told(p, a, e)' BY <1>1 DEF Told
<1> QED BY <1>2, <1>3 DEF Kept

\* Who holds its strings that way has them read by execve.
LEMMA StringsInvKept == StringsInv => StringsKept
<1> SUFFICES ASSUME StringsInv, ~crowded, NEW o \in exists
             PROVE /\ origin[o] = "built" => UpToNull(o, 0, args[o]) /\ UpToNull(o, Env(0), envs[o])
                   /\ origin[o] = "copied" =>
                        UpToNull(o, 0, args[o] \o envs[o]) /\ UpToNull(o, Env(0), <<>>)
  BY DEF StringsInv, StringsKept, SoundUntilCrowded, ExecGetsStrings
<1>0. PICK a, e : Holds(o, a, e) /\ Told(o, a, e)
  BY DEF StringsInv, Kept
<1>1. a \in Seq(Strings) /\ e \in Seq(Strings) /\ slot[o] = Holding(a, e)
      /\ Len(a) <= MAX_ARG_COUNT - 2 /\ Len(e) <= MAX_ARG_COUNT - 2
  BY <1>0 DEF Holds, Roomy
<1>2. UpToNull(o, 0, a)
  BY <1>1, VariablesAssumption DEF UpToNull, Holding, Slots, Env
<1>3. UpToNull(o, Env(0), e)
  <2> DEFINE n == Len(e)
             end == Env(0) + n
  <2>1. n \in Nat /\ n <= MAX_ARG_COUNT - 2 /\ DOMAIN e = 1 .. n /\ Len(a) \in Nat BY <1>1
  <2> HIDE DEF n
  <2>2. end \in Slots /\ ~(end < Len(a)) /\ end \notin Env(0) .. Env(n) - 1
        /\ end \notin {MAX_ARG_COUNT - 1, Env(MAX_ARG_COUNT - 1)}
    BY <2>1, <1>1, VariablesAssumption DEF Slots, Env
  <2>3. slot[o][end] = NULL
    <3> HIDE DEF end
    <3> QED BY <2>2, <1>1 DEF Holding, n
  <2>4. ASSUME NEW i \in 1 .. n PROVE slot[o][Env(0) + i - 1] = e[i]
    <3> DEFINE s == Env(0) + i - 1
    <3>1. s \in Slots /\ ~(s < Len(a)) /\ s \in Env(0) .. Env(n) - 1 /\ s - MAX_ARG_COUNT + 1 = i
      BY <2>1, <1>1, VariablesAssumption DEF Slots, Env
    <3> HIDE DEF s
    <3>2. slot[o][s] = e[s - MAX_ARG_COUNT + 1] BY <3>1, <1>1 DEF Holding, n
    <3> QED BY <3>1, <3>2 DEF s
  <2> QED BY <2>1, <2>2, <2>3, <2>4 DEF UpToNull, n
<1> QED BY <1>0, <1>2, <1>3 DEF Told

\* Who holds strings is read in their order, all of them, and nothing of it is junk.
LEMMA ValuesOfKept ==
  ASSUME NEW p, NEW a, NEW e, Holds(p, a, e)
  PROVE Values(p) = a \o e /\ CopyWrong(p) = {} /\ Readable(p)
<1> DEFINE n == Len(a) + Len(e)
<1>1. a \in Seq(Strings) /\ e \in Seq(Strings) /\ slot[p] = Holding(a, e)
      /\ Len(a) <= MAX_ARG_COUNT - 2 /\ Len(e) <= MAX_ARG_COUNT - 2
      /\ nArgs[p] = Len(a) /\ nEnvs[p] = Len(e)
  BY DEF Holds, Roomy
<1>2. Len(a) \in Nat /\ Len(e) \in Nat BY <1>1
<1>3. Readable(p) BY <1>1, <1>2, VariablesAssumption DEF Readable
<1>4. CopyWrong(p) = {}
  <2>1. ASSUME NEW s \in Counted(p) PROVE slot[p][s] # Junk
    <3>1. s \in Slots /\ (s < Len(a) \/ s \in Env(0) .. Env(Len(e)) - 1)
      BY <1>1 DEF Counted
    <3>2. CASE s < Len(a)
      BY <3>2, <3>1, <1>1, VariablesAssumption DEF Holding, Slots
    <3>3. CASE s \in Env(0) .. Env(Len(e)) - 1
      BY <3>3, <3>1, <1>1, VariablesAssumption DEF Holding, Slots, Env
    <3> QED BY <3>1, <3>2, <3>3
  <2> QED BY <2>1, <1>3 DEF CopyWrong, Goes
<1>5. ASSUME NEW i \in 1 .. n PROVE Nth(p, i) = (IF i <= Len(a) THEN a[i] ELSE e[i - Len(a)])
  <2>1. CASE i <= Len(a)
    <3>1. i - 1 \in Slots /\ i - 1 < Len(a) BY <2>1, <1>1, <1>2, VariablesAssumption DEF Slots
    <3> QED BY <3>1, <2>1, <1>1 DEF Nth, Holding
  <2>2. CASE i > Len(a)
    <3> DEFINE s == Env(i - Len(a) - 1)
    <3>n. /\ i \in Nat /\ Len(a) \in Nat /\ Len(e) \in Nat /\ MAX_ARG_COUNT \in Nat
          /\ i > Len(a) /\ i <= Len(a) + Len(e) /\ Len(a) < MAX_ARG_COUNT /\ Len(e) < MAX_ARG_COUNT
      BY <2>2, <1>1, <1>2, VariablesAssumption
    <3>m. s = MAX_ARG_COUNT + (i - Len(a) - 1)
      BY DEF Env
    <3>1. s \in Slots /\ ~(s < Len(a)) /\ s \in Env(0) .. Env(Len(e)) - 1
          /\ s - MAX_ARG_COUNT + 1 = i - Len(a)
      BY ONLY <3>n, <3>m DEF Slots, Env
    <3>2. Nth(p, i) = slot[p][s] BY <2>2, <1>1, <1>2 DEF Nth
    <3> HIDE DEF s
    <3>3. slot[p][s] = e[s - MAX_ARG_COUNT + 1] BY <3>1, <1>1 DEF Holding
    <3> QED BY <3>1, <3>2, <3>3, <2>2, <1>2
  <2> QED BY <2>1, <2>2, <1>2
<1>6. Taken(p) = 1 .. n
  <2>1. \A i \in 1 .. n : Nth(p, i) \in Strings
    BY <1>5, <1>1, <1>2
  <2> QED BY <2>1, <1>1, VariablesAssumption DEF Taken
<1>7. ASSUME NEW k \in 0 .. n PROVE Cardinality(1 .. k) = k
  BY FS_Interval, <1>2
<1>8. \A i \in 1 .. n : {j \in 1 .. n : j <= i} = 1 .. i BY <1>2
<1>9. ASSUME NEW k \in 1 .. n
      PROVE (CHOOSE i \in Taken(p) : Cardinality({j \in Taken(p) : j <= i}) = k) = k
  <2>1. \A i \in 1 .. n : Cardinality({j \in 1 .. n : j <= i}) = i
    <3> TAKE i \in 1 .. n
    <3>1. i \in 0 .. n BY <1>2
    <3> QED BY <3>1, <1>7, <1>8
  <2> QED BY <2>1, <1>6
<1>10. n \in 0 .. n BY <1>2
<1>11. Values(p) = [k \in 1 .. n |-> IF k <= Len(a) THEN a[k] ELSE e[k - Len(a)]]
  <2>1. Cardinality(Taken(p)) = n BY <1>6, <1>7, <1>10
  <2> QED BY <2>1, <1>5, <1>9 DEF Values
<1>12. a \o e = [k \in 1 .. n |-> IF k <= Len(a) THEN a[k] ELSE e[k - Len(a)]]
  <2> HIDE DEF n
  <2>1. /\ a \o e \in Seq(Strings) /\ Len(a \o e) = Len(a) + Len(e)
        /\ \A k \in 1 .. Len(a) + Len(e) :
             (a \o e)[k] = IF k <= Len(a) THEN a[k] ELSE e[k - Len(a)]
    <3>1. a \in Seq(Strings) /\ e \in Seq(Strings) BY <1>1
    <3> QED BY ONLY <3>1, ConcatProperties
  <2>2. a \o e = [k \in 1 .. Len(a) + Len(e) |-> (a \o e)[k]]
    <3> DEFINE ws == a \o e
    <3>1. ws \in Seq(Strings) /\ Len(ws) = Len(a) + Len(e) BY <2>1
    <3> HIDE DEF ws
    <3>2. ws = [k \in 1 .. Len(a) + Len(e) |-> ws[k]] BY ONLY <3>1
    <3> QED BY <3>2 DEF ws
  <2> QED BY <2>1, <2>2 DEF n
<1> QED BY <1>3, <1>4, <1>11, <1>12

\* The slots of an object that has just been made, with strings ws added to them.
LEMMA NulledHolds ==
  ASSUME NEW sl, \A s \in {MAX_ARG_COUNT - 1, Env(MAX_ARG_COUNT - 1)} : sl[s] = Junk,
         NEW ws \in Seq(Strings), Roomy(Len(ws))
  PROVE Added(Nulled(sl), 0, ws) = Holding(ws, <<>>)
<1> DEFINE n == Len(ws)
<1>1. n \in Nat /\ n <= MAX_ARG_COUNT - 2 BY DEF Roomy
<1> HIDE DEF n
<1>2. ASSUME NEW s \in Slots PROVE Added(Nulled(sl), 0, ws)[s] = Holding(ws, <<>>)[s]
  <2>1. (s \in 0 .. 0 + n - 1 /\ s <= MAX_ARG_COUNT) <=> s < n
    BY <1>1, VariablesAssumption DEF Slots
  <2>2. ~(s \in Env(0) .. Env(0) - 1) BY VariablesAssumption DEF Env, Slots
  <2>3. s - 0 + 1 = s + 1 BY DEF Slots
  <2>4. (s < MAX_ARG_COUNT - 1 \/ s \in Env(0) .. Env(MAX_ARG_COUNT - 2))
        <=> s \notin {MAX_ARG_COUNT - 1, Env(MAX_ARG_COUNT - 1)}
    BY VariablesAssumption DEF Slots, Env
  <2>5. Added(Nulled(sl), 0, ws)[s] = IF s < n THEN ws[s + 1] ELSE Nulled(sl)[s]
    BY <2>1, <2>3 DEF Added, n
  <2>6. Nulled(sl)[s] = IF s \in {MAX_ARG_COUNT - 1, Env(MAX_ARG_COUNT - 1)} THEN Junk ELSE NULL
    BY <2>4 DEF Nulled
  <2>7. Len(<<>>) = 0 OBVIOUS
  <2>8. Holding(ws, <<>>)[s] = IF s < n THEN ws[s + 1]
          ELSE IF s \in {MAX_ARG_COUNT - 1, Env(MAX_ARG_COUNT - 1)} THEN Junk ELSE NULL
    BY <2>2, <2>7 DEF Holding, n
  <2> QED BY <2>5, <2>6, <2>8
<1> QED BY <1>2 DEF Added, Holding

\* Nobody holds no strings but in slots that are all NULL.
LEMMA NulledEmpty ==
  ASSUME NEW sl, \A s \in {MAX_ARG_COUNT - 1, Env(MAX_ARG_COUNT - 1)} : sl[s] = Junk
  PROVE Nulled(sl) = Holding(<<>>, <<>>) /\ Nulled(sl) \in [Slots -> Strings \union {NULL, Junk}]
<1>1. <<>> \in Seq(Strings) /\ Len(<<>>) = 0 OBVIOUS
<1>2. Added(Nulled(sl), 0, <<>>) = Holding(<<>>, <<>>)
  <2>1. Roomy(Len(<<>>)) BY <1>1, VariablesAssumption DEF Roomy
  <2> QED BY <1>1, <2>1, NulledHolds
<1>3. Added(Nulled(sl), 0, <<>>) = Nulled(sl)
  BY <1>1, VariablesAssumption DEF Added, Nulled, Slots
<1>4. \A s \in Slots : ~(s < MAX_ARG_COUNT - 1 \/ s \in Env(0) .. Env(MAX_ARG_COUNT - 2)) =>
                        s \in {MAX_ARG_COUNT - 1, Env(MAX_ARG_COUNT - 1)}
  BY VariablesAssumption DEF Slots, Env
<1>5. Nulled(sl) \in [Slots -> Strings \union {NULL, Junk}] BY <1>4 DEF Nulled
<1> QED BY <1>2, <1>3, <1>5
-----------------------------------------------------------------------------

\* What every step that leaves nobody crowded starts from.
Sound == wrong = {} /\ StringsTypeOK /\ \A o \in exists : Kept(o)

\* A new object holds no strings.
LEMMA ConstructKeeps ==
  ASSUME Sound, NEW o \in Objects, Construct(o), ~crowded'
  PROVE Sound'
<1> DEFINE sl == [s \in Slots |-> Junk]
           new == Nulled(sl)
<1>1. new = Holding(<<>>, <<>>) /\ new \in [Slots -> Strings \union {NULL, Junk}]
  <2>1. \A s \in {MAX_ARG_COUNT - 1, Env(MAX_ARG_COUNT - 1)} : sl[s] = Junk
    BY VariablesAssumption DEF Slots, Env
  <2> HIDE DEF sl
  <2> QED BY <2>1, NulledEmpty
<1>2. /\ exists' = exists \union {o} /\ wrong' = {}
      /\ nArgs' = [nArgs EXCEPT ![o] = 0] /\ nEnvs' = [nEnvs EXCEPT ![o] = 0]
      /\ slot' = [slot EXCEPT ![o] = new]
      /\ args' = [args EXCEPT ![o] = <<>>] /\ envs' = [envs EXCEPT ![o] = <<>>]
      /\ origin' = [origin EXCEPT ![o] = "built"]
  BY DEF Construct, Sound
<1> HIDE DEF new, sl
<1>3. <<>> \in Seq(Strings) /\ Len(<<>>) = 0 OBVIOUS
<1>4. StringsTypeOK'
  BY <1>1, <1>2, <1>3 DEF Sound, StringsTypeOK, Origins
<1>5. ASSUME NEW p \in exists' PROVE Kept(p)'
  <2>1. CASE p = o
    <3>1. Holds(o, <<>>, <<>>)' /\ Told(o, <<>>, <<>>)'
      BY <1>1, <1>2, <1>3, VariablesAssumption DEF Sound, StringsTypeOK, Holds, Told, Roomy
    <3> QED BY <2>1, <3>1 DEF Kept
  <2>2. CASE p # o
    BY <2>2, <1>2, KeptStill DEF Sound, StringsTypeOK
  <2> QED BY <2>1, <2>2
<1> QED BY <1>2, <1>4, <1>5 DEF Sound

\* What is recorded.
GivenTypes == /\ args \in [Objects -> Seq(Strings)] /\ envs \in [Objects -> Seq(Strings)]
              /\ origin \in [Objects -> Origins]

LEMMA GivenIsTyped ==
  ASSUME StringsTypeOK, NEW o \in Objects, NEW as \in Seq(Strings), NEW es \in Seq(Strings),
         Given(o, as, es) \/ Altered(o)
  PROVE GivenTypes'
<1>1. <<>> \in Seq(Strings) OBVIOUS
<1> QED BY <1>1 DEF StringsTypeOK, Given, Altered, GivenTypes, Origins

\* addArg overwrites a NULL.
LEMMA AddArgKeeps ==
  ASSUME Sound, NEW o \in Objects, NEW w \in Strings, addArg(o, w), ~crowded'
  PROVE Sound'
<1>0. PICK a, e : Holds(o, a, e) /\ Told(o, a, e)
  BY DEF Sound, addArg, Kept
<1> DEFINE b == Append(a, w)
<1>1. /\ o \in exists /\ a \in Seq(Strings) /\ e \in Seq(Strings) /\ slot[o] = Holding(a, e)
      /\ nArgs[o] = Len(a) /\ nEnvs[o] = Len(e) /\ Len(e) <= MAX_ARG_COUNT - 2
      /\ slot[o] \in [Slots -> Strings \union {NULL, Junk}]
  BY <1>0 DEF Sound, addArg, StringsTypeOK, Holds, Roomy
<1>2. Given(o, Append(args[o], w), envs[o]) BY DEF addArg
<1>3. b \in Seq(Strings) /\ Len(b) = Len(a) + 1 /\ Len(a) \in Nat
      /\ \A i \in 1 .. Len(a) + 1 : b[i] = IF i <= Len(a) THEN a[i] ELSE w
  BY <1>1
<1>4. Told(o, b, e)'
  BY <1>0, <1>1, <1>2 DEF Sound, StringsTypeOK, Given, Altered, Told
<1>5. Roomy(Len(b)) BY <1>1, <1>3 DEF addArg
<1> HIDE DEF b
<1> DEFINE m == Len(a)
<1>6. m \in Nat /\ m + 1 <= MAX_ARG_COUNT - 2 BY <1>3, <1>5 DEF Roomy
<1>7. Len(<<w>>) = 1 /\ <<w>>[1] = w OBVIOUS
<1> HIDE DEF m
<1>8. \A s \in Slots : (s \in m .. m + 1 - 1 /\ s <= MAX_ARG_COUNT) <=> s = m
  BY <1>6, VariablesAssumption DEF Slots
<1>9. m \in Slots /\ slot[o][m] = NULL
  <2>1. m \in Slots /\ ~(m < Len(a)) /\ m \notin Env(0) .. Env(Len(e)) - 1
        /\ m \notin {MAX_ARG_COUNT - 1, Env(MAX_ARG_COUNT - 1)}
    BY <1>6, VariablesAssumption DEF Slots, Env, m
  <2> QED BY <2>1, <1>1 DEF Holding
<1>10. ~Overwrites(slot[o], nArgs[o], <<w>>)
  BY <1>1, <1>7, <1>8, <1>9, VariablesAssumption DEF Overwrites, m
<1> DEFINE new == Added(slot[o], nArgs[o], <<w>>)
<1>11. new \in [Slots -> Strings \union {NULL, Junk}] /\ \A s \in Slots : new[s] = IF s = m THEN w ELSE slot[o][s]
  <2>1. \A s \in Slots : new[s] = IF s = m THEN w ELSE slot[o][s]
    <3> TAKE s \in Slots
    <3>1. m - m + 1 = 1 BY <1>6
    <3> QED BY <3>1, <1>1, <1>7, <1>8 DEF Added, m
  <2> QED BY <2>1, <1>1 DEF Added
<1>12. new = Holding(b, e)
  <2>1. ASSUME NEW s \in Slots PROVE new[s] = Holding(b, e)[s]
    <3>1. CASE s < m
      <4>1. s + 1 \in 1 .. m /\ s + 1 \in 1 .. m + 1 /\ s < m + 1 /\ s # m
        BY <3>1, <1>6 DEF Slots
      <4>2. b[s + 1] = a[s + 1] BY <4>1, <1>3 DEF m
      <4>3. s < Len(b) /\ s < Len(a) BY <4>1, <3>1, <1>3 DEF m
      <4> QED BY <4>1, <4>2, <4>3, <1>1, <1>11 DEF Holding
    <3>2. CASE s = m
      <4>1. s < Len(b) /\ s + 1 \in 1 .. m + 1 /\ ~(s + 1 <= m) BY <3>2, <1>3, <1>6 DEF m
      <4>2. b[s + 1] = w BY <4>1, <1>3 DEF m
      <4> QED BY <4>1, <4>2, <3>2, <1>11 DEF Holding
    <3>3. CASE s > m
      <4>1. ~(s < Len(b)) /\ ~(s < Len(a)) /\ s # m BY <3>3, <1>3, <1>6 DEF Slots, m
      <4> QED BY <4>1, <1>1, <1>11 DEF Holding
    <3> QED BY <3>1, <3>2, <3>3, <1>6 DEF Slots
  <2> QED BY <2>1, <1>11 DEF Holding
<1> HIDE DEF new
<1>13. /\ wrong' = {} /\ exists' = exists /\ nEnvs' = nEnvs
       /\ slot' = [slot EXCEPT ![o] = new] /\ nArgs' = [nArgs EXCEPT ![o] = Len(b)]
  BY <1>1, <1>3, <1>10 DEF addArg, Goes, new
<1>14. StringsTypeOK'
  <2>1. Len(b) \in Nat BY <1>3
  <2>2. Append(args[o], w) \in Seq(Strings) /\ envs[o] \in Seq(Strings)
    BY DEF Sound, StringsTypeOK
  <2>3. GivenTypes' BY <2>2, <1>2, GivenIsTyped DEF Sound
  <2> QED BY <2>1, <2>3, <1>11, <1>13 DEF Sound, StringsTypeOK, GivenTypes
<1>15. ASSUME NEW p \in exists' PROVE Kept(p)'
  <2>1. CASE p = o
    <3>1. Holds(o, b, e)'
      BY <1>1, <1>3, <1>5, <1>12, <1>13, VariablesAssumption DEF Sound, StringsTypeOK, Holds, Roomy
    <3> QED BY <2>1, <3>1, <1>4 DEF Kept
  <2>2. CASE p # o
    BY <2>2, <1>2, <1>13, KeptStill DEF Sound, StringsTypeOK, Given, Altered
  <2> QED BY <2>1, <2>2
<1> QED BY <1>13, <1>14, <1>15 DEF Sound

\* So does addEnv.
LEMMA AddEnvKeeps ==
  ASSUME Sound, NEW o \in Objects, NEW w \in Strings, addEnv(o, w), ~crowded'
  PROVE Sound'
<1>0. PICK a, e : Holds(o, a, e) /\ Told(o, a, e)
  BY DEF Sound, addEnv, Kept
<1> DEFINE b == Append(e, w)
<1>1. /\ o \in exists /\ a \in Seq(Strings) /\ e \in Seq(Strings) /\ slot[o] = Holding(a, e)
      /\ nArgs[o] = Len(a) /\ nEnvs[o] = Len(e) /\ Len(a) <= MAX_ARG_COUNT - 2
      /\ slot[o] \in [Slots -> Strings \union {NULL, Junk}]
  BY <1>0 DEF Sound, addEnv, StringsTypeOK, Holds, Roomy
<1>2. Given(o, args[o], Append(envs[o], w)) BY DEF addEnv
<1>3. b \in Seq(Strings) /\ Len(b) = Len(e) + 1 /\ Len(e) \in Nat /\ Len(a) \in Nat
      /\ \A i \in 1 .. Len(e) + 1 : b[i] = IF i <= Len(e) THEN e[i] ELSE w
  BY <1>1
<1>4. Told(o, a, b)'
  BY <1>0, <1>1, <1>2 DEF Sound, StringsTypeOK, Given, Altered, Told
<1>5. Roomy(Len(b)) BY <1>1, <1>3 DEF addEnv
<1> HIDE DEF b
<1> DEFINE m == Len(e)
           at == Env(m)
<1>6. m \in Nat /\ m + 1 <= MAX_ARG_COUNT - 2 BY <1>3, <1>5 DEF Roomy
<1> HIDE DEF m
<1>7. /\ at \in Slots /\ ~(at < Len(a)) /\ at \notin Env(0) .. Env(m) - 1
      /\ at \notin {MAX_ARG_COUNT - 1, Env(MAX_ARG_COUNT - 1)}
      /\ at \in Env(0) .. Env(m + 1) - 1 /\ at - MAX_ARG_COUNT + 1 = m + 1
  <2>1. Len(a) \in Nat /\ Len(a) <= MAX_ARG_COUNT - 2 BY <1>1, <1>3
  <2> QED BY <1>6, <2>1, VariablesAssumption DEF Slots, Env
<1>8. \A s \in Slots : s # at => (s \in Env(0) .. Env(m + 1) - 1 <=> s \in Env(0) .. Env(m) - 1)
  BY <1>6, VariablesAssumption DEF Slots, Env
<1>9. \A s \in Env(0) .. Env(m) - 1 : s - MAX_ARG_COUNT + 1 \in 1 .. m
  BY <1>6, VariablesAssumption DEF Env
<1>10. m < MAX_ARG_COUNT BY <1>6, VariablesAssumption
<1> HIDE DEF at
<1>11. slot[o][at] = NULL BY <1>7, <1>1 DEF Holding, m
<1> DEFINE new == [slot[o] EXCEPT ![at] = w]
<1>12. new \in [Slots -> Strings \union {NULL, Junk}] BY <1>1
<1>13. new = Holding(a, b)
  <2>1. ASSUME NEW s \in Slots PROVE new[s] = Holding(a, b)[s]
    <3>1. CASE s = at
      <4>1. b[m + 1] = w BY <1>3, <1>6 DEF m
      <4> QED BY <4>1, <3>1, <1>1, <1>3, <1>7 DEF Holding, m
    <3>2. CASE s # at
      <4>1. new[s] = Holding(a, e)[s] BY <3>2, <1>1
      <4>2. ASSUME s \in Env(0) .. Env(m) - 1
            PROVE b[s - MAX_ARG_COUNT + 1] = e[s - MAX_ARG_COUNT + 1]
        <5> DEFINE i == s - MAX_ARG_COUNT + 1
        <5>1. i \in 1 .. m BY <4>2, <1>9
        <5> HIDE DEF i
        <5>2. i \in 1 .. m + 1 /\ i <= m BY <5>1, <1>6
        <5>3. b[i] = e[i] BY <5>2, <1>3 DEF m
        <5> QED BY <5>3 DEF i
      <4>3. Len(b) = m + 1 BY <1>3 DEF m
      <4>4. Holding(a, e)[s] = Holding(a, b)[s]
        BY <4>2, <4>3, <3>2, <1>8 DEF Holding, m
      <4> QED BY <4>1, <4>4
    <3> QED BY <3>1, <3>2
  <2> QED BY <2>1, <1>12 DEF Holding
<1>14. /\ wrong' = {} /\ exists' = exists /\ nArgs' = nArgs
       /\ slot' = [slot EXCEPT ![o] = new] /\ nEnvs' = [nEnvs EXCEPT ![o] = Len(b)]
  <2>1. nEnvs[o] = m /\ nEnvs[o] < MAX_ARG_COUNT BY <1>1, <1>10 DEF m
  <2>2. slot' = [slot EXCEPT ![o][Env(nEnvs[o])] = w] /\ wrong' = {}
    BY <2>1, <1>11, VariablesAssumption DEF addEnv, Goes, at
  <2>3. slot' = [slot EXCEPT ![o] = new] BY <2>1, <2>2 DEF at
  <2> QED BY <2>2, <2>3, <1>1, <1>3 DEF addEnv
<1> HIDE DEF new
<1>15. StringsTypeOK'
  <2>1. Len(b) \in Nat BY <1>3
  <2>2. Append(envs[o], w) \in Seq(Strings) /\ args[o] \in Seq(Strings)
    BY DEF Sound, StringsTypeOK
  <2>3. GivenTypes' BY <2>2, <1>2, GivenIsTyped DEF Sound
  <2> QED BY <2>1, <2>3, <1>12, <1>14 DEF Sound, StringsTypeOK, GivenTypes
<1>16. ASSUME NEW p \in exists' PROVE Kept(p)'
  <2>1. CASE p = o
    <3>1. Holds(o, a, b)'
      BY <1>1, <1>3, <1>5, <1>13, <1>14, VariablesAssumption DEF Sound, StringsTypeOK, Holds, Roomy
    <3> QED BY <2>1, <3>1, <1>4 DEF Kept
  <2>2. CASE p # o
    BY <2>2, <1>2, <1>14, KeptStill DEF Sound, StringsTypeOK, Given, Altered
  <2> QED BY <2>1, <2>2
<1> QED BY <1>14, <1>15, <1>16 DEF Sound

\* An object that takes the strings of another has them all, if its slots were empty.
LEMMA TakesKeeps ==
  ASSUME Sound, NEW o \in Objects, NEW p \in exists, NEW sl,
         \A s \in {MAX_ARG_COUNT - 1, Env(MAX_ARG_COUNT - 1)} : sl[s] = Junk,
         Takes(o, p, Nulled(sl)), exists' = exists \union {o}, wrong' = {}, ~crowded'
  PROVE Sound'
<1>0. PICK a, e : Holds(p, a, e) /\ Told(p, a, e)
  BY DEF Sound, Kept
<1> DEFINE ws == a \o e
           new == Added(Nulled(sl), 0, ws)
<1>1. a \in Seq(Strings) /\ e \in Seq(Strings) BY <1>0 DEF Holds
<1>2. Values(p) = ws /\ Readable(p) BY <1>0, ValuesOfKept
<1>3. /\ slot' = [slot EXCEPT ![o] = new] /\ nArgs' = [nArgs EXCEPT ![o] = Len(ws)]
      /\ nEnvs' = [nEnvs EXCEPT ![o] = 0] /\ args' = [args EXCEPT ![o] = args[p]]
      /\ envs' = [envs EXCEPT ![o] = envs[p]] /\ Roomy(Len(a) + Len(e))
      /\ origin' = [origin EXCEPT ![o] = IF origin[p] = "altered" THEN "altered" ELSE "copied"]
  BY <1>0, <1>2 DEF Takes, Holds
<1>12. Told(o, ws, <<>>)'
  <2>1. args'[o] = args[p] /\ envs'[o] = envs[p]
        /\ origin'[o] = IF origin[p] = "altered" THEN "altered" ELSE "copied"
    BY <1>3 DEF Sound, StringsTypeOK
  <2>2. CASE origin[p] = "altered" BY <2>1, <2>2 DEF Told
  <2>3. CASE origin[p] = "built" BY <2>1, <2>3, <1>0 DEF Told
  <2>4. CASE origin[p] = "copied"
    <3>1. a = args[p] \o envs[p] /\ e = <<>> BY <1>0, <2>4 DEF Told
    <3>2. ws = a BY <1>1, <3>1
    <3> QED BY <2>1, <2>4, <3>1, <3>2 DEF Told
  <2>5. origin[p] \in Origins BY DEF Sound, StringsTypeOK
  <2> QED BY <2>2, <2>3, <2>4, <2>5 DEF Origins
<1>4. ws \in Seq(Strings) /\ Len(ws) = Len(a) + Len(e) BY ONLY <1>1, ConcatProperties
<1> HIDE DEF ws
<1>5. Roomy(Len(ws)) BY <1>3, <1>4
<1>6. new = Holding(ws, <<>>) BY ONLY <1>4, <1>5, NulledHolds,
  \A s \in {MAX_ARG_COUNT - 1, Env(MAX_ARG_COUNT - 1)} : sl[s] = Junk
<1>7. Len(ws) \in Nat BY <1>4
<1>8. new \in [Slots -> Strings \union {NULL, Junk}]
  <2>1. \A s \in Slots : s < Len(ws) => ws[s + 1] \in Strings
    BY <1>4, <1>7 DEF Slots
  <2>2. ~\E s \in Slots : s \in Env(0) .. Env(Len(<<>>)) - 1
    BY VariablesAssumption DEF Env
  <2> QED BY <2>1, <2>2, <1>6 DEF Holding
<1> HIDE DEF new
<1>9. <<>> \in Seq(Strings) /\ Len(<<>>) = 0 OBVIOUS
<1>10. StringsTypeOK' BY <1>3, <1>4, <1>7, <1>8, <1>9 DEF Sound, StringsTypeOK, Origins
<1>11. ASSUME NEW q \in exists' PROVE Kept(q)'
  <2>1. CASE q = o
    <3>1. Holds(o, ws, <<>>)'
      BY <1>3, <1>4, <1>5, <1>6, <1>9, VariablesAssumption DEF Sound, StringsTypeOK, Holds, Roomy
    <3> QED BY <2>1, <3>1, <1>12 DEF Kept
  <2>2. CASE q # o
    BY <2>2, <1>3, KeptStill DEF Sound, StringsTypeOK
  <2> QED BY <2>1, <2>2
<1> QED BY <1>10, <1>11 DEF Sound

\* A copy starts from new slots.
LEMMA CopyKeeps ==
  ASSUME Sound, NEW o \in Objects, NEW p \in Objects, CopyConstruct(o, p), ~crowded'
  PROVE Sound'
<1> DEFINE sl == [s \in Slots |-> Junk]
<1>1. \A s \in {MAX_ARG_COUNT - 1, Env(MAX_ARG_COUNT - 1)} : sl[s] = Junk
  BY VariablesAssumption DEF Slots, Env
<1>2. p \in exists /\ Takes(o, p, Nulled(sl)) /\ exists' = exists \union {o}
      /\ wrong' = CopyWrong(p)
  BY DEF CopyConstruct
<1>3. wrong' = {} BY <1>2, ValuesOfKept DEF Sound, Kept
<1> HIDE DEF sl
<1> QED BY <1>1, <1>2, <1>3, TakesKeeps

\* What clear() leaves of an object that holds its strings: no string, and nothing that
\* was not there.
LEMMA ClearedOfKept ==
  ASSUME StringsTypeOK, NEW o \in exists, Kept(o)
  PROVE /\ ClearWrong(o) = {}
        /\ \A s \in Slots : Cleared(o)[s] \notin Strings
        /\ \A s \in {MAX_ARG_COUNT - 1, Env(MAX_ARG_COUNT - 1)} : Cleared(o)[s] = Junk
<1>0. PICK a, e : Holds(o, a, e) BY DEF Kept
<1>1. a \in Seq(Strings) /\ e \in Seq(Strings) /\ slot[o] = Holding(a, e)
      /\ Len(a) <= MAX_ARG_COUNT - 2 /\ Len(e) <= MAX_ARG_COUNT - 2
      /\ nArgs[o] = Len(a) /\ nEnvs[o] = Len(e)
  BY <1>0 DEF Holds, Roomy
<1>2. Len(a) \in Nat /\ Len(e) \in Nat BY <1>1
<1>3. CopyWrong(o) = {} /\ Readable(o) BY <1>0, ValuesOfKept
<1>4. Env(nEnvs[o]) - 1 \in Slots BY <1>1, <1>2, VariablesAssumption DEF Slots, Env
<1>5. ClearWrong(o) = {}
  BY <1>3, <1>4 DEF ClearWrong, CopyWrong, Goes
<1>6. ASSUME NEW s \in Slots PROVE Cleared(o)[s] \notin Strings
  <2>1. CASE s \in Counted(o) BY <2>1, VariablesAssumption DEF Cleared
  <2>2. CASE s \notin Counted(o)
    <3>1. Cleared(o)[s] = Holding(a, e)[s] BY <2>2, <1>1 DEF Cleared
    <3>2. ~(s < Len(a)) /\ s \notin Env(0) .. Env(Len(e)) - 1 BY <2>2, <1>1 DEF Counted
    <3> QED BY <3>1, <3>2, VariablesAssumption DEF Holding
  <2> QED BY <2>1, <2>2
<1>7. ASSUME NEW s \in {MAX_ARG_COUNT - 1, Env(MAX_ARG_COUNT - 1)} PROVE Cleared(o)[s] = Junk
  <2>1. s \in Slots /\ ~(s < Len(a)) /\ s \notin Env(0) .. Env(Len(e)) - 1
    BY <1>1, <1>2, VariablesAssumption DEF Slots, Env
  <2>2. s \notin Counted(o) BY <2>1, <1>1 DEF Counted
  <2> QED BY <2>1, <2>2, <1>1 DEF Cleared, Holding
<1> QED BY <1>5, <1>6, <1>7

\* An assignment starts from cleared ones.
LEMMA AssignKeeps ==
  ASSUME Sound, NEW o \in Objects, NEW p \in Objects, Assign(o, p), ~crowded'
  PROVE Sound'
<1>1. /\ {o, p} \subseteq exists /\ Takes(o, p, Nulled(Cleared(o))) /\ exists' = exists
      /\ wrong' = RenewWrong(o) \union CopyWrong(p)
  BY DEF Assign
<1>2. ClearWrong(o) = {} /\ (\A s \in Slots : Cleared(o)[s] \notin Strings)
      /\ \A s \in {MAX_ARG_COUNT - 1, Env(MAX_ARG_COUNT - 1)} : Cleared(o)[s] = Junk
  BY <1>1, ClearedOfKept DEF Sound
<1>3. CopyWrong(p) = {} BY <1>1, ValuesOfKept DEF Sound, Kept
<1>4. wrong' = {} BY <1>1, <1>2, <1>3 DEF RenewWrong, Goes
<1>5. exists' = exists \union {o} BY <1>1
<1> DEFINE sl == Cleared(o)
<1>6. \A s \in {MAX_ARG_COUNT - 1, Env(MAX_ARG_COUNT - 1)} : sl[s] = Junk BY <1>2
<1>7. Takes(o, p, Nulled(sl)) BY <1>1
<1> HIDE DEF sl
<1> QED BY <1>1, <1>4, <1>5, <1>6, <1>7, TakesKeeps

\* An assignment to itself leaves an object without strings.
LEMMA AssignToItselfKeeps ==
  ASSUME Sound, NEW o \in Objects, AssignToItself(o), ~crowded'
  PROVE Sound'
<1> DEFINE sl == Cleared(o)
           new == Nulled(sl)
<1>1. /\ o \in exists /\ ClearWrong(o) = {} /\ \A s \in Slots : sl[s] \notin Strings
      /\ \A s \in {MAX_ARG_COUNT - 1, Env(MAX_ARG_COUNT - 1)} : sl[s] = Junk
  BY ClearedOfKept DEF Sound, AssignToItself
<1>2. /\ exists' = exists /\ wrong' = {} /\ Altered(o)
      /\ nArgs' = [nArgs EXCEPT ![o] = 0] /\ nEnvs' = [nEnvs EXCEPT ![o] = 0]
      /\ slot' = [slot EXCEPT ![o] = new]
  BY <1>1 DEF AssignToItself, RenewWrong, Goes
<1> HIDE DEF sl
<1>3. new = Holding(<<>>, <<>>) /\ new \in [Slots -> Strings \union {NULL, Junk}]
  BY <1>1, NulledEmpty
<1> HIDE DEF new
<1>4. <<>> \in Seq(Strings) /\ Len(<<>>) = 0 OBVIOUS
<1>5. StringsTypeOK'
  <2>1. GivenTypes' BY <1>2, <1>4, GivenIsTyped DEF Sound
  <2> QED BY <2>1, <1>2, <1>3 DEF Sound, StringsTypeOK, GivenTypes
<1>6. ASSUME NEW p \in exists' PROVE Kept(p)'
  <2>1. CASE p = o
    <3>1. Holds(o, <<>>, <<>>)'
      BY <1>2, <1>3, <1>4, VariablesAssumption DEF Sound, StringsTypeOK, Holds, Roomy
    <3>2. Told(o, <<>>, <<>>)' BY <1>2 DEF Sound, StringsTypeOK, Altered, Told
    <3> QED BY <2>1, <3>1, <3>2 DEF Kept
  <2>2. CASE p # o
    BY <2>2, <1>2, KeptStill DEF Sound, StringsTypeOK, Altered
  <2> QED BY <2>1, <2>2
<1> QED BY <1>2, <1>5, <1>6 DEF Sound

\* The destructor deletes them all.
LEMMA DestroyKeeps ==
  ASSUME Sound, NEW o \in Objects, Destroy(o), ~crowded'
  PROVE Sound'
<1>1. o \in exists /\ ClearWrong(o) = {} /\ \A s \in Slots : Cleared(o)[s] \notin Strings
  BY ClearedOfKept DEF Sound, Destroy
<1>2. wrong' = {} BY <1>1 DEF Destroy, Goes
<1>3. <<>> \in Seq(Strings) OBVIOUS
<1>4. StringsTypeOK' BY <1>3 DEF Destroy, Sound, StringsTypeOK, Origins
<1>5. ASSUME NEW q \in exists' PROVE Kept(q)'
  <2>1. q \in exists /\ q # o BY DEF Destroy
  <2> QED BY <2>1, KeptStill DEF Sound, StringsTypeOK, Destroy
<1> QED BY <1>2, <1>4, <1>5 DEF Sound

LEMMA StringsStep == StringsInv /\ [VariablesNext]_variablesVars => StringsInv'
<1> SUFFICES ASSUME StringsInv, [VariablesNext]_variablesVars, ~crowded' PROVE Sound'
  BY DEF StringsInv, Sound
<1>1. CASE UNCHANGED variablesVars
  <2>1. Sound /\ StringsTypeOK' BY <1>1 DEF variablesVars, StringsInv, Sound, StringsTypeOK
  <2>2. \A o \in exists' : Kept(o)' BY <1>1, <2>1, KeptStill DEF variablesVars, Sound
  <2> QED BY <1>1, <2>1, <2>2 DEF variablesVars, Sound
<1>2. CASE VariablesNext
  <2>1. PICK o \in Objects :
          \/ Construct(o) \/ Destroy(o) \/ AssignToItself(o)
          \/ \E w \in Strings : addArg(o, w) \/ addEnv(o, w)
          \/ \E p \in Objects : CopyConstruct(o, p) \/ Assign(o, p)
    BY <1>2 DEF VariablesNext
  <2>2. ~crowded
    BY <2>1 DEF Construct, Destroy, addArg, addEnv, CopyConstruct, Assign, AssignToItself, Takes
  <2>3. Sound BY <2>2 DEF StringsInv, Sound
  <2> QED BY <2>1, <2>3, ConstructKeeps, AddArgKeeps, AddEnvKeeps, CopyKeeps, AssignKeeps,
          AssignToItselfKeeps, DestroyKeeps
<1> QED BY <1>1, <1>2

\* ProcessVariables: through any copies and assignments the strings that were configured
\* are found in order, with an end and in memory the object owns: where they were added,
\* or all in Args once they are copied.  So it is until an array is given too many, or a
\* copy is added to or an object assigned to itself, for any size of the arrays.
THEOREM StringsStay == VariablesSpec => []StringsKept
<1>1. VariablesInit => StringsInv BY StringsInitInv
<1>2. StringsInv /\ [VariablesNext]_variablesVars => StringsInv' BY StringsStep
<1>3. StringsInv => StringsKept BY StringsInvKept
<1> QED BY <1>1, <1>2, <1>3, PTL DEF VariablesSpec

-----------------------------------------------------------------------------
(* XmlPages: a heap and the blocks that are in use in it.  HeapOK says     *)
(* what the allocator owes its callers and what it may count on; every     *)
(* operation of the allocator keeps it, with one block more or less.       *)

PageIds == Sentinel .. MaxPages
Block == [page : Nat, at : Nat, size : Nat]
Heaps == [pages : SUBSET PageIds, root : PageIds, busy : [PageIds -> Nat], freed : [PageIds -> Nat], top : Nat, got : Block]

FilledIn(m, i) == IF i = m.root THEN m.top ELSE m.busy[i]
Bytes(U, i) == UNION {BytesOf(b) : b \in {c \in U : c.page = i}}

HeapTypeOK(m) ==
  /\ m \in Heaps
  /\ Sentinel \in m.pages /\ m.root \in m.pages /\ m.top <= PageSize
  /\ m.root = Sentinel => m.top = PageSize

\* The blocks in U lie in pages of the heap.
Housed(m, U) ==
  /\ U \subseteq Block
  /\ \A b \in U : /\ b.size > 0 /\ b.page \in m.pages /\ b.page # Sentinel
                  /\ b.at + b.size <= FilledIn(m, b.page)
  /\ U # {} => m.root # Sentinel

Apart(U) == \A b, c \in U : b # c /\ b.page = c.page => BytesOf(b) \cap BytesOf(c) = {}

\* What a page counts as used is what is in use, and only the last may be empty.
Counts(m, U, i) ==
  /\ FilledIn(m, i) - m.freed[i] = Cardinality(Bytes(U, i))
  /\ Bytes(U, i) = {} => i = m.root /\ m.top = 0 /\ m.freed[i] = 0

HeapOK(m, U) ==
  HeapTypeOK(m) /\ Housed(m, U) /\ Apart(U) /\ \A i \in m.pages \ {Sentinel} : Counts(m, U, i)

LEMMA BytesAre ==
  ASSUME NEW b \in Block
  PROVE  /\ BytesOf(b) \subseteq Nat /\ IsFiniteSet(BytesOf(b)) /\ Cardinality(BytesOf(b)) = b.size
         /\ b.size > 0 => b.at \in BytesOf(b)
         /\ \A n \in Nat : b.at + b.size <= n => BytesOf(b) \subseteq 0 .. n - 1
<1>1. b.at \in Nat /\ b.size \in Nat BY DEF Block
<1> DEFINE a == b.at
           s == b.size
<1>2. a \in Nat /\ s \in Nat BY <1>1
<1> HIDE DEF a, s
<1>3. IsFiniteSet(a .. a + s - 1) /\ Cardinality(a .. a + s - 1) = s
  <2>1. a \in Int /\ a + s - 1 \in Int BY <1>2
  <2>2. /\ IsFiniteSet(a .. a + s - 1)
        /\ Cardinality(a .. a + s - 1) = IF a > a + s - 1 THEN 0 ELSE (a + s - 1) - a + 1
    BY <2>1, FS_Interval
  <2>3. (IF a > a + s - 1 THEN 0 ELSE (a + s - 1) - a + 1) = s BY <1>2
  <2> QED BY <2>2, <2>3
<1>4. a .. a + s - 1 \subseteq Nat /\ (s > 0 => a \in a .. a + s - 1) BY <1>2
<1>5. \A n \in Nat : a + s <= n => a .. a + s - 1 \subseteq 0 .. n - 1 BY <1>2
<1> QED BY <1>3, <1>4, <1>5 DEF BytesOf, a, s

\* The bytes in use of a page are in what has been handed out of it.
LEMMA BytesFinite ==
  ASSUME NEW m, NEW U, HeapTypeOK(m), Housed(m, U), NEW i
  PROVE  /\ IsFiniteSet(Bytes(U, i)) /\ Cardinality(Bytes(U, i)) \in Nat
         /\ Bytes(U, i) # {} => i \in PageIds /\ Bytes(U, i) \subseteq 0 .. FilledIn(m, i) - 1
         /\ Bytes(U, i) = {} <=> \A b \in U : b.page # i
         /\ Cardinality(Bytes(U, i)) = 0 <=> Bytes(U, i) = {}
<1>1. Bytes(U, i) = {} <=> \A b \in U : b.page # i
  <2>1. \A b \in U : b.at \in BytesOf(b) BY BytesAre DEF Housed
  <2> QED BY <2>1 DEF Bytes
<1>2. CASE Bytes(U, i) = {} BY <1>1, <1>2, FS_EmptySet
<1>3. CASE Bytes(U, i) # {}
  <2>1. i \in PageIds /\ FilledIn(m, i) \in Nat BY <1>1, <1>3 DEF Housed, Heaps, HeapTypeOK, FilledIn
  <2> DEFINE f == FilledIn(m, i)
  <2>2. \A b \in U : b.page = i => BytesOf(b) \subseteq 0 .. f - 1
    BY <2>1, BytesAre DEF Housed
  <2> HIDE DEF f
  <2>3. Bytes(U, i) \subseteq 0 .. f - 1 BY <2>2 DEF Bytes
  <2>4. IsFiniteSet(0 .. f - 1)
    <3>1. 0 \in Int /\ f - 1 \in Int BY <2>1 DEF f
    <3> QED BY <3>1, FS_Interval
  <2>5. IsFiniteSet(Bytes(U, i)) BY <2>3, <2>4, FS_Subset
  <2>6. Cardinality(Bytes(U, i)) \in Nat /\ Cardinality(Bytes(U, i)) # 0
    BY <1>3, <2>5, FS_CardinalityType, FS_EmptySet
  <2> QED BY <1>1, <1>3, <2>1, <2>3, <2>5, <2>6 DEF f
<1> QED BY <1>2, <1>3

\* One more block, on a page where nothing is in its way.
LEMMA OneMore ==
  ASSUME NEW m, NEW U, HeapTypeOK(m), Housed(m, U), NEW b \in Block, b.size > 0,
         \A c \in U : c.page = b.page => BytesOf(c) \cap BytesOf(b) = {}
  PROVE  /\ Bytes(U \union {b}, b.page) = Bytes(U, b.page) \union BytesOf(b)
         /\ Cardinality(Bytes(U \union {b}, b.page)) = Cardinality(Bytes(U, b.page)) + b.size
         /\ Bytes(U \union {b}, b.page) # {}
         /\ \A i : i # b.page => Bytes(U \union {b}, i) = Bytes(U, i)
<1> DEFINE S == Bytes(U, b.page)
           T == BytesOf(b)
<1>1. Bytes(U \union {b}, b.page) = S \union T BY DEF Bytes
<1>2. S \cap T = {} BY DEF Bytes
<1>3. IsFiniteSet(S) /\ Cardinality(S) \in Nat BY BytesFinite
<1>4. IsFiniteSet(T) /\ Cardinality(T) = b.size /\ T # {} BY BytesAre
<1>5. \A i : i # b.page => Bytes(U \union {b}, i) = Bytes(U, i) BY DEF Bytes
<1> HIDE DEF S, T
<1>6. Cardinality(S \union T) = Cardinality(S) + Cardinality(T) - Cardinality(S \cap T)
  BY <1>3, <1>4, FS_Union
<1>7. Cardinality(S \cap T) = 0 BY <1>2, FS_EmptySet
<1>8. b.size \in Nat BY DEF Block
<1>9. Cardinality(S \union T) = Cardinality(S) + b.size BY <1>3, <1>4, <1>6, <1>7, <1>8
<1> QED BY <1>1, <1>4, <1>5, <1>9 DEF S, T

\* One block less.
LEMMA OneLess ==
  ASSUME NEW m, NEW U, HeapTypeOK(m), Housed(m, U), Apart(U), NEW b \in U
  PROVE  /\ Cardinality(Bytes(U \ {b}, b.page)) = Cardinality(Bytes(U, b.page)) - b.size
         /\ \A i : i # b.page => Bytes(U \ {b}, i) = Bytes(U, i)
<1> DEFINE S == Bytes(U, b.page)
           T == BytesOf(b)
<1>0. b \in Block BY DEF Housed
<1>1. Bytes(U \ {b}, b.page) = S \ T BY DEF Bytes, Apart
<1>2. S \cap T = T BY DEF Bytes
<1>3. IsFiniteSet(S) BY BytesFinite
<1>4. Cardinality(T) = b.size BY <1>0, BytesAre
<1>5. \A i : i # b.page => Bytes(U \ {b}, i) = Bytes(U, i) BY DEF Bytes
<1> HIDE DEF S, T
<1>6. Cardinality(S \ T) = Cardinality(S) - Cardinality(S \cap T) BY <1>3, FS_Difference
<1> QED BY <1>1, <1>2, <1>4, <1>5, <1>6 DEF S, T

-----------------------------------------------------------------------------
(* The allocator.                                                          *)

\* A page before the last stays before it, and its size stays.
Behind(m, n) ==
  \A i \in m.pages \ {m.root} : i \in n.pages /\ i # n.root /\ n.busy[i] = m.busy[i]

LEMMA SameHeap ==
  ASSUME NEW m \in Heaps, NEW n \in Heaps, m.pages = n.pages, m.root = n.root, m.busy = n.busy,
         m.freed = n.freed, m.top = n.top, m.got = n.got
  PROVE  m = n
BY DEF Heaps

LEMMA Sizes ==
  /\ PageSize \in Nat /\ LargeThreshold \in Nat /\ 4 * LargeThreshold <= PageSize
  /\ HolderSize \in Nat /\ HolderSize > 0 /\ HolderSize <= LargeThreshold
  /\ PageSize < MaxEncoded /\ MaxEncoded \in Nat
BY PagesAssumption DEF LargeThreshold

\* What allocate_memory promises, with n what it leaves: it fails and leaves everything
\* as it was, or it has found a block that nothing in use overlaps.
Allocates(m, n, U, size) ==
  \/ n = [m EXCEPT !.got = Nowhere]
  \/ /\ n.got \in Block /\ n.got.size = size /\ n.got.page # Sentinel /\ n.got \notin U
     /\ HeapOK(n, U \union {n.got})
     /\ Behind(m, n)
     /\ size > PageSize => n.got.page # n.root /\ n.busy[n.got.page] = size

LEMMA AllocateInRoot ==
  ASSUME NEW m, NEW U, HeapOK(m, U), NEW size \in Nat \ {0}, m.top + size <= PageSize
  PROVE  Allocates(m, allocate_memory(m, size), U, size)
<1> USE DEF Heaps
<1> DEFINE b == [page |-> m.root, at |-> m.top, size |-> size]
           n == [m EXCEPT !.top = @ + size, !.got = b]
           V == U \union {b}
<1>1. m \in Heaps
      /\ Sentinel \in m.pages /\ m.root \in m.pages /\ m.top \in Nat /\ m.top <= PageSize
      /\ (m.root = Sentinel => m.top = PageSize)
  BY DEF HeapOK, HeapTypeOK, Heaps
<1>2. m.root # Sentinel BY <1>1, Sizes
<1>3. allocate_memory(m, size) = n BY <1>1, Sizes DEF allocate_memory
<1>4. b \in Block /\ b.size = size /\ b.page = m.root /\ b.at = m.top
  BY <1>1 DEF Block, PageIds, Sentinel
<1>5. \A c \in U : c.page = b.page => BytesOf(c) \cap BytesOf(b) = {}
  <2> SUFFICES ASSUME NEW c \in U, c.page = m.root PROVE BytesOf(c) \cap BytesOf(b) = {}
    BY <1>4
  <2>1. c \in Block /\ c.at + c.size <= m.top BY DEF HeapOK, Housed, FilledIn
  <2>2. BytesOf(c) \subseteq 0 .. m.top - 1 BY <2>1, <1>1, BytesAre
  <2>3. BytesOf(b) = m.top .. m.top + size - 1 BY <1>4 DEF BytesOf
  <2> HIDE DEF b
  <2> QED BY <2>2, <2>3, <1>1
<1>6. /\ n \in Heaps
      /\ n.pages = m.pages /\ n.root = m.root /\ n.busy = m.busy /\ n.freed = m.freed
      /\ n.top = m.top + size /\ n.got = b
  <2>1. m.top + size \in Nat BY <1>1
  <2>2. m \in Heaps /\ b \in Block BY <1>1, <1>4
  <2> HIDE DEF b
  <2> QED BY ONLY <2>1, <2>2 DEF n, Heaps
<1>7. b \notin U
  <2>1. b.at \in BytesOf(b) BY <1>4, BytesAre
  <2> QED BY <2>1, <1>5
<1>8. /\ Bytes(V, b.page) = Bytes(U, b.page) \union BytesOf(b)
      /\ Cardinality(Bytes(V, b.page)) = Cardinality(Bytes(U, b.page)) + b.size
      /\ Bytes(V, b.page) # {}
      /\ \A i : i # b.page => Bytes(V, i) = Bytes(U, i)
  <2>1. b.size > 0 BY <1>4
  <2> HIDE DEF b, n
  <2> QED BY <2>1, <1>4, <1>5, OneMore DEF HeapOK
<1> HIDE DEF n, b, V
<1>9. HeapTypeOK(n) BY <1>1, <1>2, <1>6 DEF HeapTypeOK
<1>10. \A i : FilledIn(n, i) = IF i = m.root THEN m.top + size ELSE FilledIn(m, i)
  BY <1>6 DEF FilledIn
<1>11. Housed(n, V)
  <2>1. V \subseteq Block BY <1>4 DEF V, HeapOK, Housed
  <2>2. ASSUME NEW c \in V
        PROVE  c.size > 0 /\ c.page \in n.pages /\ c.page # Sentinel /\ c.at + c.size <= FilledIn(n, c.page)
    <3>1. CASE c = b BY <3>1, <1>1, <1>2, <1>4, <1>6, <1>10
    <3>2. CASE c \in U
      <4>1. c.size > 0 /\ c.page \in m.pages /\ c.page # Sentinel /\ c.at + c.size <= FilledIn(m, c.page)
            /\ c \in Block
        BY <3>2 DEF HeapOK, Housed
      <4>2. c.at + c.size \in Nat BY <4>1 DEF Block
      <4>3. c.page = m.root => FilledIn(m, c.page) = m.top BY DEF FilledIn
      <4> QED BY <4>1, <4>2, <4>3, <1>1, <1>6, <1>10
    <3> QED BY <3>1, <3>2 DEF V
  <2> QED BY <2>1, <2>2, <1>2, <1>6 DEF Housed
<1>12. Apart(V) BY <1>5 DEF V, Apart, HeapOK
<1>13. ASSUME NEW i \in n.pages \ {Sentinel} PROVE Counts(n, V, i)
  <2>1. Counts(m, U, i) BY <1>6 DEF HeapOK
  <2>2. CASE i = m.root
    <3>1. m.top - m.freed[i] = Cardinality(Bytes(U, i)) BY <2>1, <2>2 DEF Counts, FilledIn
    <3>2. m.freed[i] \in Nat /\ Cardinality(Bytes(U, i)) \in Nat
      BY <1>1, <2>2, BytesFinite DEF HeapOK
    <3>3. (m.top + size) - m.freed[i] = Cardinality(Bytes(U, i)) + size BY <3>1, <3>2, <1>1
    <3> QED BY <3>3, <2>2, <1>4, <1>6, <1>8, <1>10 DEF Counts
  <2>3. CASE i # m.root
    BY <2>1, <2>3, <1>4, <1>6, <1>8, <1>10 DEF Counts
  <2> QED BY <2>2, <2>3
<1>14. HeapOK(n, V) BY <1>9, <1>11, <1>12, <1>13 DEF HeapOK
<1>15. Behind(m, n) BY <1>6 DEF Behind
<1>16. ~(size > PageSize) BY <1>1, Sizes
<1> QED BY <1>2, <1>3, <1>4, <1>6, <1>7, <1>14, <1>15, <1>16 DEF Allocates, V

\* A page of its own for a block, behind the others; the last page is r.
LEMMA AllocateOnPage ==
  ASSUME NEW m, NEW U, HeapOK(m, U), NEW size \in Nat \ {0},
         NEW i \in PageIds, i \notin m.pages, NEW n, NEW b, b = [page |-> i, at |-> 0, size |-> size],
         n \in Heaps,
         n.pages = m.pages \union {i}, n.freed = [m.freed EXCEPT ![i] = 0], n.got = b,
         FilledIn(n, i) = size, n.top <= PageSize, n.root \in {i, m.root}, n.root # Sentinel,
         \A j \in m.pages : FilledIn(n, j) = FilledIn(m, j),
         n.root = i => m.top > 0
  PROVE  HeapOK(n, U \union {b}) /\ b \notin U
<1> USE DEF Heaps
<1> DEFINE V == U \union {b}
<1>1. m \in Heaps
      /\ Sentinel \in m.pages /\ m.root \in m.pages
  BY DEF HeapOK, HeapTypeOK, Heaps
<1>2. b \in Block /\ b.size = size /\ b.page = i /\ b.at = 0 /\ i # Sentinel
  BY <1>1 DEF Block, PageIds, Sentinel
<1>3. \A c \in U : c.page # i BY DEF HeapOK, Housed
<1>4. b \notin U BY <1>2, <1>3
<1>5. /\ Cardinality(Bytes(V, i)) = Cardinality(Bytes(U, i)) + size
      /\ Bytes(V, i) # {}
      /\ \A j : j # i => Bytes(V, j) = Bytes(U, j)
  <2>1. \A c \in U : c.page = b.page => BytesOf(c) \cap BytesOf(b) = {} BY <1>2, <1>3
  <2>2. b.size > 0 BY <1>2
  <2>3. HeapTypeOK(m) /\ Housed(m, U) BY DEF HeapOK
  <2> HIDE DEF V
  <2>4. /\ Cardinality(Bytes(U \union {b}, b.page)) = Cardinality(Bytes(U, b.page)) + b.size
        /\ Bytes(U \union {b}, b.page) # {}
        /\ \A j : j # b.page => Bytes(U \union {b}, j) = Bytes(U, j)
    BY ONLY <2>1, <2>2, <2>3, <1>2, OneMore
  <2> QED BY ONLY <2>4, <1>2 DEF V
<1>6. Cardinality(Bytes(U, i)) = 0 BY <1>3, BytesFinite DEF HeapOK
<1>7. HeapTypeOK(n) BY <1>1 DEF HeapTypeOK
<1> HIDE DEF V
<1>8. Housed(n, V)
  <2>1. V \subseteq Block BY <1>2 DEF V, HeapOK, Housed
  <2>2. ASSUME NEW c \in V
        PROVE  c.size > 0 /\ c.page \in n.pages /\ c.page # Sentinel /\ c.at + c.size <= FilledIn(n, c.page)
    <3>1. CASE c = b BY <3>1, <1>2
    <3>2. CASE c \in U BY <3>2 DEF HeapOK, Housed
    <3> QED BY <3>1, <3>2 DEF V
  <2> QED BY <2>1, <2>2 DEF Housed
<1>9. Apart(V) BY <1>2, <1>3 DEF V, Apart, HeapOK
<1>10. ASSUME NEW j \in n.pages \ {Sentinel} PROVE Counts(n, V, j)
  <2>1. CASE j = i
    <3>1. n.freed[i] = 0 BY <1>1
    <3>2. FilledIn(n, i) - n.freed[i] = size BY <3>1
    <3>3. Cardinality(Bytes(V, i)) = size BY <1>5, <1>6
    <3> QED BY <2>1, <3>2, <3>3, <1>5 DEF Counts
  <2>2. CASE j # i
    <3>1. j \in m.pages \ {Sentinel} BY <2>2
    <3>2. Counts(m, U, j) BY <3>1 DEF HeapOK
    <3>3. FilledIn(n, j) = FilledIn(m, j) /\ n.freed[j] = m.freed[j] /\ Bytes(V, j) = Bytes(U, j)
      BY <3>1, <2>2, <1>1, <1>5
    <3>4. FilledIn(n, j) - n.freed[j] = Cardinality(Bytes(V, j)) BY <3>2, <3>3 DEF Counts
    <3>5. Bytes(V, j) = {} => j = n.root /\ n.top = 0 /\ n.freed[j] = 0
      <4> SUFFICES ASSUME Bytes(V, j) = {} PROVE j = n.root /\ n.top = 0 /\ n.freed[j] = 0 OBVIOUS
      <4>1. j = m.root /\ m.top = 0 /\ m.freed[j] = 0 BY <3>2, <3>3 DEF Counts
      <4>2. n.root = m.root BY <4>1
      <4>3. n.top = m.top BY <4>1, <4>2, <3>3 DEF FilledIn
      <4> QED BY <4>1, <4>2, <4>3, <3>3
    <3> QED BY <3>4, <3>5 DEF Counts
  <2> QED BY <2>1, <2>2
<1> QED BY <1>4, <1>7, <1>8, <1>9, <1>10 DEF HeapOK, V

LEMMA AllocateOob ==
  ASSUME NEW m, NEW U, HeapOK(m, U), NEW size \in Nat \ {0}, m.top + size > PageSize,
         size <= LargeThreshold \/ m.root # Sentinel
  PROVE  Allocates(m, allocate_memory_oob(m, size), U, size)
<1> USE DEF Heaps
<1>1. m \in Heaps
      /\ Sentinel \in m.pages /\ m.root \in m.pages /\ m.top \in Nat /\ m.top <= PageSize
  BY DEF HeapOK, HeapTypeOK, Heaps
<1>2. CASE Unused(m) = {} BY <1>2 DEF allocate_memory_oob, Allocates
<1>3. CASE Unused(m) # {}
  <2> DEFINE i == CHOOSE j \in Unused(m) : TRUE
             b == [page |-> i, at |-> 0, size |-> size]
  <2>1. i \in Unused(m) BY <1>3
  <2> HIDE DEF i
  <2>2. i \in PageIds /\ i \notin m.pages /\ i # Sentinel /\ i \in Nat
    BY <2>1, PagesAssumption DEF Unused, PageIds, Sentinel
  <2>3. b \in Block BY <2>2 DEF Block
  <2>4. CASE size <= LargeThreshold
    <3> DEFINE n == [m EXCEPT !.busy = [[m.busy EXCEPT ![m.root] = m.top] EXCEPT ![i] = 0],
                              !.pages = m.pages \union {i}, !.freed = [m.freed EXCEPT ![i] = 0],
                              !.root = i, !.top = size, !.got = b]
         k == [m EXCEPT !.busy[m.root] = m.top]
         l == PageMade(k, 0)
    <3>1. allocate_memory_oob(m, size) = n
      <4>1. allocate_memory_oob(m, size) = [l EXCEPT !.root = l.got.page, !.top = size, !.got.size = size]
        BY ONLY <1>3, <2>4 DEF allocate_memory_oob, k, l
      <4>2. k \in Heaps /\ k.busy = [m.busy EXCEPT ![m.root] = m.top] /\ k.pages = m.pages /\ k.freed = m.freed
            /\ k.root = m.root /\ k.top = m.top /\ k.got = m.got
        BY ONLY <1>1 DEF k, Heaps
      <4>3. Unused(k) = Unused(m) BY ONLY <4>2 DEF Unused
      <4> HIDE DEF k
      <4>4. l = [k EXCEPT !.pages = k.pages \union {i}, !.busy = [k.busy EXCEPT ![i] = 0], !.freed = [k.freed EXCEPT ![i] = 0],
                          !.got = [page |-> i, at |-> 0, size |-> 0]]
        BY ONLY <4>3, <4>2 DEF PageMade, l, i, Heaps
      <4> HIDE DEF l
      <4>5. l \in Heaps /\ l.got = [page |-> i, at |-> 0, size |-> 0]
        /\ l.pages = k.pages \union {i} /\ l.busy = [k.busy EXCEPT ![i] = 0] /\ l.freed = [k.freed EXCEPT ![i] = 0]
        /\ l.root = k.root /\ l.top = k.top
        BY ONLY <4>2, <4>4, <2>2 DEF Heaps, Block
      <4>6. [l.got EXCEPT !.size = size] = b
        BY ONLY <4>5 DEF b
      <4> DEFINE o == [l EXCEPT !.root = l.got.page, !.top = size, !.got.size = size]
      <4>7. o = [l EXCEPT !.root = i, !.top = size, !.got = b]
        BY ONLY <4>5, <4>6 DEF o
      <4> HIDE DEF o
      <4>8. o \in Heaps /\ o.pages = l.pages /\ o.root = i /\ o.busy = l.busy /\ o.freed = l.freed /\ o.top = size /\ o.got = b
        <5> HIDE DEF b
        <5> QED BY ONLY <4>5, <4>7, <2>2, <2>3, size \in Nat \ {0} DEF Heaps
      <4>9. n \in Heaps /\ n.pages = m.pages \union {i} /\ n.root = i /\ n.freed = [m.freed EXCEPT ![i] = 0]
            /\ n.busy = [[m.busy EXCEPT ![m.root] = m.top] EXCEPT ![i] = 0] /\ n.top = size /\ n.got = b
        <5> HIDE DEF b
        <5> QED BY ONLY <1>1, <2>2, <2>3, size \in Nat \ {0} DEF n, Heaps
      <4> HIDE DEF n, b
      <4>10. o = n BY ONLY <4>2, <4>5, <4>8, <4>9, SameHeap
      <4> QED BY ONLY <4>1, <4>10 DEF o
    <3>2. /\ n \in Heaps
          /\ n.pages = m.pages \union {i} /\ n.root = i /\ n.freed = [m.freed EXCEPT ![i] = 0]
          /\ n.busy = [[m.busy EXCEPT ![m.root] = m.top] EXCEPT ![i] = 0]
          /\ n.top = size /\ n.got = b
      <4> HIDE DEF b
      <4> QED BY ONLY <1>1, <2>2, <2>3, size \in Nat \ {0} DEF n, Heaps
    <3> HIDE DEF n
    <3>3. FilledIn(n, i) = size BY <3>2 DEF FilledIn
    <3>4. \A j \in m.pages : FilledIn(n, j) = FilledIn(m, j)
      BY <1>1, <2>2, <3>2 DEF FilledIn
    <3>5. m.top > 0 /\ size <= PageSize BY <1>1, <2>4, Sizes
    <3>a. b = [page |-> i, at |-> 0, size |-> size] /\ n.top <= PageSize /\ n.root \in {i, m.root} /\ n.root # Sentinel
      BY <2>2, <3>2, <3>5
    <3>6. HeapOK(n, U \union {b}) /\ b \notin U
      <4> HIDE DEF b
      <4> QED BY ONLY HeapOK(m, U), size \in Nat \ {0}, <3>a, <2>2, <3>2, <3>3, <3>4, <3>5, AllocateOnPage
    <3>7. Behind(m, n) BY <1>1, <2>2, <3>2 DEF Behind
    <3>8. ~(size > PageSize) BY <3>5, Sizes
    <3> QED BY <2>2, <2>3, <3>1, <3>2, <3>6, <3>7, <3>8 DEF Allocates
  <2>5. CASE ~(size <= LargeThreshold)
    <3> DEFINE n == [m EXCEPT !.busy = [m.busy EXCEPT ![i] = size],
                              !.pages = m.pages \union {i}, !.freed = [m.freed EXCEPT ![i] = 0],
                              !.got = b]
    <3>1. allocate_memory_oob(m, size) = n
      <4>1. allocate_memory_oob(m, size) = [PageMade(m, size) EXCEPT !.got.size = size]
        BY ONLY <1>3, <2>5 DEF allocate_memory_oob
      <4> DEFINE l == PageMade(m, size)
      <4>2. n \in Heaps /\ n.pages = m.pages \union {i} /\ n.root = m.root /\ n.freed = [m.freed EXCEPT ![i] = 0]
            /\ n.busy = [m.busy EXCEPT ![i] = size] /\ n.top = m.top /\ n.got = b
        <5> HIDE DEF b
        <5> QED BY ONLY <1>1, <2>2, <2>3, size \in Nat \ {0} DEF n, Heaps
      <4> DEFINE c == [page |-> i, at |-> 0, size |-> 0]
      <4>3. [c EXCEPT !.size = size] = b BY ONLY TRUE DEF b, c
      <4>4. l = [m EXCEPT !.pages = m.pages \union {i}, !.busy = [m.busy EXCEPT ![i] = size],
                          !.freed = [m.freed EXCEPT ![i] = 0], !.got = c]
        BY ONLY <1>1 DEF PageMade, l, i, c, Heaps
      <4>a. c \in Block BY ONLY <2>2 DEF c, Block
      <4> HIDE DEF l, b, c
      <4>5. l \in Heaps /\ l.pages = m.pages \union {i} /\ l.root = m.root /\ l.freed = [m.freed EXCEPT ![i] = 0]
            /\ l.busy = [m.busy EXCEPT ![i] = size] /\ l.top = m.top /\ l.got = c
        BY ONLY <1>1, <2>2, <4>a, size \in Nat \ {0}, <4>4 DEF Heaps
      <4> HIDE DEF n
      <4> DEFINE o == [l EXCEPT !.got.size = size]
      <4>7. o \in Heaps /\ o.pages = l.pages /\ o.root = l.root /\ o.busy = l.busy /\ o.freed = l.freed /\ o.top = l.top /\ o.got = b
        <5>1. o = [l EXCEPT !.got = b] BY ONLY <4>5, <4>3 DEF o
        <5> HIDE DEF o
        <5> QED BY ONLY <5>1, <4>5, <2>3 DEF Heaps
      <4> HIDE DEF o
      <4>8. o = n BY ONLY <4>7, <4>5, <4>2, SameHeap
      <4> QED BY ONLY <4>1, <4>8 DEF l, o
    <3>2. /\ n \in Heaps
          /\ n.pages = m.pages \union {i} /\ n.root = m.root /\ n.freed = [m.freed EXCEPT ![i] = 0]
          /\ n.busy = [m.busy EXCEPT ![i] = size]
          /\ n.top = m.top /\ n.got = b
      <4> HIDE DEF b
      <4> QED BY ONLY <1>1, <2>2, <2>3, size \in Nat \ {0} DEF n, Heaps
    <3> HIDE DEF n
    <3>3. FilledIn(n, i) = size BY <1>1, <2>2, <3>2 DEF FilledIn
    <3>4. \A j \in m.pages : FilledIn(n, j) = FilledIn(m, j)
      BY <1>1, <2>2, <3>2 DEF FilledIn
    <3>5. n.root # Sentinel /\ n.root # i BY <1>1, <2>2, <2>5, <3>2
    <3>a. b = [page |-> i, at |-> 0, size |-> size] /\ n.top <= PageSize /\ n.root \in {i, m.root}
          /\ (n.root = i => m.top > 0)
      BY <1>1, <2>2, <3>2, <3>5
    <3>6. HeapOK(n, U \union {b}) /\ b \notin U
      <4> HIDE DEF b
      <4> QED BY ONLY HeapOK(m, U), size \in Nat \ {0}, <3>a, <2>2, <3>2, <3>3, <3>4, <3>5, AllocateOnPage
    <3>7. Behind(m, n) BY <1>1, <2>2, <3>2 DEF Behind
    <3>8. b.page # n.root /\ n.busy[b.page] = size BY <1>1, <2>2, <3>2, <3>5
    <3> QED BY <2>2, <2>3, <3>1, <3>2, <3>6, <3>7, <3>8 DEF Allocates
  <2> QED BY <2>4, <2>5
<1> QED BY <1>2, <1>3

LEMMA AllocateMemory ==
  ASSUME NEW m, NEW U, HeapOK(m, U), NEW size \in Nat \ {0},
         size <= LargeThreshold \/ m.root # Sentinel
  PROVE  Allocates(m, allocate_memory(m, size), U, size)
<1>1. m.top \in Nat BY DEF HeapOK, HeapTypeOK, Heaps
<1>2. CASE m.top + size <= PageSize BY <1>2, AllocateInRoot
<1>3. CASE m.top + size > PageSize BY <1>3, AllocateOob DEF allocate_memory
<1> QED BY <1>1, <1>2, <1>3, Sizes

\* A block is given back: the others keep their pages, and nothing moves.
LEMMA DeallocateMemory ==
  ASSUME NEW m, NEW U, HeapOK(m, U), NEW b \in U, NEW n, n = deallocate_memory(m, b, b.size)
  PROVE  /\ HeapOK(n, U \ {b}) /\ n.root = m.root
         /\ \A i \in PageIds : i # m.root => n.busy[i] = m.busy[i]
<1> USE DEF Heaps
<1> DEFINE V == U \ {b}
           p == b.page
           f == FilledIn(m, p)
           k == [m EXCEPT !.busy = [m.busy EXCEPT ![p] = f], !.freed = [m.freed EXCEPT ![p] = m.freed[p] + b.size]]
<1>1. m \in Heaps
      /\ Sentinel \in m.pages /\ m.root \in m.pages /\ m.top <= PageSize /\ (m.root = Sentinel => m.top = PageSize)
  BY DEF HeapOK, HeapTypeOK, Heaps
<1>2. b \in Block /\ b.size \in Nat /\ b.size > 0 /\ p \in m.pages /\ p # Sentinel /\ p \in PageIds
  BY <1>1 DEF HeapOK, Housed, Block
<1>3. f \in Nat BY <1>1, <1>2 DEF FilledIn
<1>4. /\ Cardinality(Bytes(V, p)) = Cardinality(Bytes(U, p)) - b.size
      /\ \A i : i # p => Bytes(V, i) = Bytes(U, i)
  BY OneLess DEF HeapOK
<1>5. Housed(m, V) /\ Apart(V) BY DEF HeapOK, Housed, Apart
<1>6. /\ f - m.freed[p] = Cardinality(Bytes(U, p)) /\ Cardinality(Bytes(U, p)) \in Nat
      /\ Cardinality(Bytes(V, p)) \in Nat /\ (Cardinality(Bytes(V, p)) = 0 <=> Bytes(V, p) = {})
      /\ (Bytes(V, p) = {} <=> \A c \in V : c.page # p)
  <2>1. Counts(m, U, p) /\ HeapTypeOK(m) /\ Housed(m, U) BY <1>2 DEF HeapOK
  <2>2. Housed(m, V) BY <1>5
  <2>3. f - m.freed[p] = Cardinality(Bytes(U, p)) BY <2>1 DEF Counts
  <2> HIDE DEF V, f, k
  <2>4. Cardinality(Bytes(U, p)) \in Nat BY ONLY <2>1, BytesFinite
  <2>5. /\ Cardinality(Bytes(V, p)) \in Nat /\ (Cardinality(Bytes(V, p)) = 0 <=> Bytes(V, p) = {})
        /\ (Bytes(V, p) = {} <=> \A c \in V : c.page # p)
    BY ONLY <2>1, <2>2, BytesFinite
  <2> QED BY <2>3, <2>4, <2>5
<1>7. n = IF k.freed[p] # k.busy[p] THEN k
          ELSE IF p = m.root THEN [k EXCEPT !.busy = [k.busy EXCEPT ![p] = 0], !.freed = [k.freed EXCEPT ![p] = 0], !.top = 0]
          ELSE [k EXCEPT !.pages = k.pages \ {p}]
  BY <1>1, <1>2 DEF deallocate_memory, FilledIn
<1>8. /\ k \in Heaps
      /\ k.pages = m.pages /\ k.root = m.root /\ k.top = m.top
      /\ k.busy = [m.busy EXCEPT ![p] = f] /\ k.freed = [m.freed EXCEPT ![p] = m.freed[p] + b.size]
  <2>1. m.freed[p] + b.size \in Nat BY <1>1, <1>2
  <2> HIDE DEF f
  <2> QED BY ONLY <2>1, <1>1, <1>2, <1>3 DEF k, Heaps
<1>9. k.freed[p] = m.freed[p] + b.size /\ k.busy[p] = f /\ m.freed[p] \in Nat BY <1>1, <1>2, <1>8
<1>10. f - k.freed[p] = Cardinality(Bytes(V, p))
  BY <1>2, <1>3, <1>4, <1>6, <1>9
<1>11. p # m.root => f = m.busy[p] BY DEF FilledIn
<1>12. p = m.root => f = m.top BY DEF FilledIn
<1> HIDE DEF k, V, f
<1>13. ASSUME NEW i \in m.pages \ {Sentinel}, i # p
       PROVE  Counts(m, V, i) /\ i \in PageIds
  BY <1>1, <1>4, <1>13 DEF HeapOK, Counts
<1>14. CASE k.freed[p] # k.busy[p]
  <2>1. n = k BY <1>7, <1>14
  <2>2. HeapTypeOK(k) BY <1>1, <1>8 DEF HeapTypeOK
  <2>3. \A i \in PageIds : FilledIn(k, i) = FilledIn(m, i)
    BY <1>1, <1>2, <1>8, <1>11 DEF FilledIn
  <2>4. Housed(k, V)
    <3>1. \A c \in V : c.page \in PageIds BY <1>1, <1>5 DEF Housed
    <3> QED BY <3>1, <1>5, <1>8, <2>3 DEF Housed
  <2>5. ASSUME NEW i \in k.pages \ {Sentinel} PROVE Counts(k, V, i)
    <3>1. CASE i = p
      <4>1. Bytes(V, p) # {}
        <5>1. f - k.freed[p] # 0
          <6>1. k.freed[p] \in Nat /\ k.freed[p] # f BY <1>2, <1>9, <1>14
          <6> QED BY ONLY <6>1, <1>3
        <5> QED BY <5>1, <1>6, <1>10
      <4>2. FilledIn(k, p) = f BY <1>2, <2>3 DEF f
      <4> QED BY <3>1, <4>1, <4>2, <1>10 DEF Counts
    <3>2. CASE i # p
      <4>1. Counts(m, V, i) /\ i \in PageIds BY <3>2, <1>8, <1>13
      <4>2. k.freed[i] = m.freed[i] BY <3>2, <4>1, <1>1, <1>8
      <4> QED BY <4>1, <4>2, <1>8, <2>3 DEF Counts
    <3> QED BY <3>1, <3>2
  <2>6. \A i \in PageIds : i # m.root => k.busy[i] = m.busy[i] BY <1>1, <1>8, <1>11
  <2>7. HeapOK(k, V) BY ONLY <2>2, <2>4, <2>5, <1>5 DEF HeapOK
  <2> QED BY ONLY <2>1, <2>6, <2>7, <1>8 DEF V
<1>15. CASE k.freed[p] = k.busy[p]
  <2>1. Bytes(V, p) = {} /\ \A c \in V : c.page # p
    <3>1. f - k.freed[p] = 0 BY <1>3, <1>9, <1>15
    <3> QED BY <3>1, <1>6, <1>10
  <2>2. CASE p = m.root
    <3>1. n = [k EXCEPT !.busy = [k.busy EXCEPT ![p] = 0], !.freed = [k.freed EXCEPT ![p] = 0], !.top = 0]
      BY <1>7, <1>15, <2>2
    <3>2. /\ n \in Heaps
          /\ n.pages = m.pages /\ n.root = m.root /\ n.top = 0
          /\ n.busy = [k.busy EXCEPT ![p] = 0] /\ n.freed = [k.freed EXCEPT ![p] = 0]
      BY ONLY <1>2, <1>8, <3>1 DEF Heaps
    <3>3. HeapTypeOK(n) BY <1>1, <1>2, <2>2, <3>2, Sizes DEF HeapTypeOK
    <3>4. \A i \in PageIds : i # p => FilledIn(n, i) = FilledIn(m, i) /\ n.freed[i] = m.freed[i] /\ n.busy[i] = m.busy[i]
      BY <1>1, <1>8, <2>2, <3>2 DEF FilledIn
    <3>5. Housed(n, V)
      <4>1. \A c \in V : c.page \in PageIds /\ c.page # p BY <1>1, <1>5, <2>1 DEF Housed
      <4> QED BY <4>1, <1>5, <3>2, <3>4 DEF Housed
    <3>6. ASSUME NEW i \in n.pages \ {Sentinel} PROVE Counts(n, V, i)
      <4>1. CASE i = p
        <5>1. n.freed[p] = 0 /\ FilledIn(n, p) = 0 BY <1>2, <1>8, <2>2, <3>2 DEF FilledIn
        <5>2. Cardinality(Bytes(V, p)) = 0 BY <1>6, <2>1
        <5> QED BY <4>1, <5>1, <5>2, <2>2, <3>2 DEF Counts
      <4>2. CASE i # p
        BY <4>2, <1>13, <2>2, <3>2, <3>4 DEF Counts
      <4> QED BY <4>1, <4>2
    <3>7. HeapOK(n, V) BY ONLY <1>5, <3>3, <3>5, <3>6 DEF HeapOK
    <3> QED BY ONLY <2>2, <3>2, <3>4, <3>7 DEF V
  <2>3. CASE p # m.root
    <3>1. n = [k EXCEPT !.pages = k.pages \ {p}] BY <1>7, <1>15, <2>3
    <3>2. /\ n \in Heaps
          /\ n.pages = m.pages \ {p} /\ n.root = m.root /\ n.top = m.top
          /\ n.busy = k.busy /\ n.freed = k.freed
      BY ONLY <1>2, <1>8, <3>1 DEF Heaps
    <3>3. HeapTypeOK(n) BY <1>1, <1>2, <2>3, <3>2 DEF HeapTypeOK
    <3>4. \A i \in PageIds : /\ i # p => FilledIn(n, i) = FilledIn(m, i) /\ n.freed[i] = m.freed[i]
                             /\ i # m.root => n.busy[i] = m.busy[i]
      BY <1>1, <1>8, <1>11, <2>3, <3>2 DEF FilledIn
    <3>5. Housed(n, V)
      <4>1. \A c \in V : c.page \in PageIds /\ c.page # p BY <1>1, <1>5, <2>1 DEF Housed
      <4> QED BY <4>1, <1>5, <3>2, <3>4 DEF Housed
    <3>6. ASSUME NEW i \in n.pages \ {Sentinel} PROVE Counts(n, V, i)
      <4>1. i \in m.pages \ {Sentinel} /\ i # p BY <3>2
      <4> QED BY <4>1, <1>13, <3>2, <3>4 DEF Counts
    <3>7. HeapOK(n, V) BY ONLY <1>5, <3>3, <3>5, <3>6 DEF HeapOK
    <3> QED BY ONLY <3>2, <3>4, <3>7 DEF V
  <2> QED BY <2>2, <2>3
<1> QED BY <1>14, <1>15

-----------------------------------------------------------------------------
(* The document.                                                           *)

\* The functions from what is needed to the block it is in, one block more, one less.
InjectiveOn(F) == \A u, v \in DOMAIN F : u # v => F[u] # F[v]
BlocksOf(F) == {F[u] : u \in DOMAIN F}
Enlarged(F, u, c) == [v \in DOMAIN F \union {u} |-> IF v = u THEN c ELSE F[v]]
Reduced(F, u) == [v \in DOMAIN F \ {u} |-> F[v]]

Layout == [u \in Needed |-> BlockOf(u)]

\* The block a string is in: what has a page of its own has that page's size.
Held(m, b) == [b EXCEPT !.size = IF b.size = 0 THEN m.busy[b.page] ELSE b.size]

MemTypeOK ==
  /\ block \in [Holders -> Block] /\ name \in [Holders -> Block]
  /\ allocated \subseteq Holders /\ shared \subseteq Holders
  /\ parsed \in Nat

\* Where a holder's string may be, and which flags it has then.
Tied(h) ==
  /\ name[h] # Nowhere \/ h \in shared => Made(h)
  /\ h \in allocated => name[h] # Nowhere /\ (name[h].size = 0 => name[h].page # root)
  /\ name[h] # Nowhere /\ h \notin allocated => name[h].page = FileBuffer /\ name[h].at < parsed

\* A string of the file that two holders read is marked as shared by both.
Marked(g, h) ==
  g # h /\ name[g] # Nowhere /\ name[h] # Nowhere /\ g \notin allocated /\ h \notin allocated
    /\ name[g].at = name[h].at => {g, h} \subseteq shared

LayoutInv ==
  /\ MemTypeOK /\ HeapOK(Heap, BlocksOf(Layout)) /\ InjectiveOn(Layout)
  /\ \A h \in Holders : Tied(h)
  /\ \A g, h \in Holders : Marked(g, h)

Reads(h) ==
  IF name[h] = Nowhere THEN given[h] = NoText
  ELSE given[h] \in Texts /\ memory[Place(name[h])] = given[h]

NamesInv == given \in [Holders -> Texts \union {NoText}] /\ \A h \in Holders : Reads(h)

MemInv == LayoutInv /\ NamesInv

LEMMA EnlargedLays ==
  ASSUME NEW F, InjectiveOn(F), NEW u, u \notin DOMAIN F, NEW c, c \notin BlocksOf(F)
  PROVE  InjectiveOn(Enlarged(F, u, c)) /\ BlocksOf(Enlarged(F, u, c)) = BlocksOf(F) \union {c}
<1> DEFINE G == Enlarged(F, u, c)
<1>1. DOMAIN G = DOMAIN F \union {u} /\ G[u] = c /\ \A v \in DOMAIN F : G[v] = F[v]
  BY DEF Enlarged
<1> HIDE DEF G
<1>2. InjectiveOn(G) BY <1>1 DEF InjectiveOn, BlocksOf
<1>3. BlocksOf(G) = BlocksOf(F) \union {c} BY <1>1 DEF BlocksOf
<1> QED BY <1>2, <1>3 DEF G

LEMMA ReducedLays ==
  ASSUME NEW F, InjectiveOn(F), NEW u \in DOMAIN F
  PROVE  InjectiveOn(Reduced(F, u)) /\ BlocksOf(Reduced(F, u)) = BlocksOf(F) \ {F[u]}
<1> DEFINE G == Reduced(F, u)
<1>1. DOMAIN G = DOMAIN F \ {u} /\ \A v \in DOMAIN G : G[v] = F[v]
  BY DEF Reduced
<1> HIDE DEF G
<1>2. InjectiveOn(G) BY <1>1 DEF InjectiveOn
<1>3. BlocksOf(G) = BlocksOf(F) \ {F[u]} BY <1>1 DEF BlocksOf, InjectiveOn
<1> QED BY <1>2, <1>3 DEF G

\* What was allocated last is not part of what a heap owes.
LEMMA HeapSeen ==
  ASSUME NEW m, NEW U, HeapOK(m, U), NEW n \in Heaps,
         n.pages = m.pages, n.root = m.root, n.busy = m.busy, n.freed = m.freed, n.top = m.top
  PROVE  HeapOK(n, U)
<1>1. \A i : FilledIn(n, i) = FilledIn(m, i) BY DEF FilledIn
<1>2. HeapTypeOK(n) BY DEF HeapOK, HeapTypeOK
<1>3. Housed(n, U) BY <1>1 DEF HeapOK, Housed
<1>4. \A i \in n.pages \ {Sentinel} : Counts(n, U, i) BY <1>1 DEF HeapOK, Counts
<1> QED BY <1>2, <1>3, <1>4 DEF HeapOK

LEMMA FullSizes ==
  ASSUME NEW text \in Texts
  PROVE  FullSize(text) \in Nat \ {0}
<1> DEFINE k == StringHeader + text.len + 1
           B == BlockAlignment
           q == (k + B - 1) \div B
<1>1. k \in Nat \ {0} /\ B \in Nat \ {0} BY PagesAssumption
<1> HIDE DEF k, B
<1>2. q \in Nat /\ q > 0 BY <1>1
<1>3. FullSize(text) = q * B BY DEF FullSize, RoundedUp, k, B
<1> HIDE DEF q
<1>4. q * B \in Nat /\ q * B > 0 BY <1>1, <1>2
<1> QED BY <1>3, <1>4

\* A string is allocated as a block is, and its header leads back to the block.
LEMMA AllocateString ==
  ASSUME NEW m, NEW U, HeapOK(m, U), m.root # Sentinel, NEW text \in Texts, NEW n, n = allocate_string(m, text)
  PROVE  \/ n = [m EXCEPT !.got = Nowhere]
         \/ /\ n.got \in Block /\ n.got.page # Sentinel /\ n.got.page \in PageIds
            /\ Held(n, n.got) \notin U /\ HeapOK(n, U \union {Held(n, n.got)})
            /\ Behind(m, n)
            /\ n.got.size = 0 => n.got.page # n.root
<1> USE DEF Heaps
<1> DEFINE s == FullSize(text)
           l == allocate_memory(m, s)
<1>1. s \in Nat \ {0} BY FullSizes
<1>2. Allocates(m, l, U, s)
  <2> HIDE DEF s
  <2> QED BY <1>1, AllocateMemory
<1>3. n = IF l.got = Nowhere \/ l.got.size < MaxEncoded THEN l ELSE [l EXCEPT !.got.size = 0]
  BY DEF allocate_string
<1> HIDE DEF s, l
<1>4. CASE l = [m EXCEPT !.got = Nowhere]
  <2>1. m \in Heaps BY DEF HeapOK, HeapTypeOK
  <2>2. l.got = Nowhere BY ONLY <2>1, <1>4
  <2> QED BY <2>2, <1>3, <1>4
<1>5. CASE l # [m EXCEPT !.got = Nowhere]
  <2> DEFINE c == l.got
  <2>1. /\ c \in Block /\ c.size = s /\ c.page # Sentinel /\ c \notin U
        /\ HeapOK(l, U \union {c}) /\ Behind(m, l)
        /\ s > PageSize => c.page # l.root /\ l.busy[c.page] = s
    BY <1>2, <1>5 DEF Allocates
  <2>2. l \in Heaps /\ c.page \in PageIds
    <3>1. HeapTypeOK(l) /\ c.page \in l.pages BY <2>1 DEF HeapOK, Housed
    <3> QED BY <3>1 DEF HeapTypeOK
  <2>3. l.got # Nowhere BY <2>1 DEF Nowhere, Sentinel
  <2>4. CASE s < MaxEncoded
    <3>1. n = l BY <1>3, <2>1, <2>4
    <3>2. Held(n, n.got) = c
      <4>1. c.size # 0 BY <1>1, <2>1
      <4>2. [c EXCEPT !.size = c.size] = c BY ONLY <2>1 DEF Block
      <4> QED BY <4>1, <4>2, <3>1 DEF Held
    <3> QED BY <2>1, <2>2, <3>1, <3>2, <1>1
  <2>5. CASE ~(s < MaxEncoded)
    <3> DEFINE b == [c EXCEPT !.size = 0]
    <3>1. n = [l EXCEPT !.got = b] BY <1>3, <2>1, <2>3, <2>5
    <3>2. b \in Block /\ b.page = c.page /\ b.at = c.at /\ b.size = 0 BY ONLY <2>1 DEF Block
    <3> HIDE DEF b
    <3>3. n \in Heaps /\ n.pages = l.pages /\ n.root = l.root /\ n.busy = l.busy /\ n.freed = l.freed /\ n.top = l.top
          /\ n.got = b
      BY ONLY <2>2, <3>1, <3>2 DEF Heaps
    <3>4. s > PageSize BY <1>1, <2>5, Sizes
    <3>5. Held(n, n.got) = c
      <4>1. Held(n, b) = [b EXCEPT !.size = s] BY <2>1, <3>2, <3>3, <3>4 DEF Held
      <4>2. [b EXCEPT !.size = s] = c BY ONLY <2>1, <3>2 DEF Block
      <4> QED BY <4>1, <4>2, <3>3
    <3>6. HeapOK(n, U \union {c})
      <4> HIDE DEF c
      <4> QED BY ONLY <2>1, <3>3, HeapSeen
    <3>7. Behind(m, n) BY <2>1, <3>3 DEF Behind
    <3> QED BY <2>1, <2>2, <3>2, <3>3, <3>4, <3>5, <3>6, <3>7
  <2> QED BY <2>4, <2>5, <1>1, Sizes
<1> QED BY <1>4, <1>5

LEMMA DeallocateString ==
  ASSUME NEW m, NEW U, HeapOK(m, U), NEW b \in Block, Held(m, b) \in U, NEW n, n = deallocate_string(m, b)
  PROVE  /\ HeapOK(n, U \ {Held(m, b)}) /\ n.root = m.root
         /\ \A i \in PageIds : i # m.root => n.busy[i] = m.busy[i]
<1> SUFFICES ASSUME NEW c \in U, c = Held(m, b)
             PROVE  /\ HeapOK(n, U \ {c}) /\ n.root = m.root
                    /\ \A i \in PageIds : i # m.root => n.busy[i] = m.busy[i]
  OBVIOUS
<1>1. c.page = b.page /\ c.size = IF b.size = 0 THEN m.busy[b.page] ELSE b.size
  BY DEF Held, Block
<1>2. n = deallocate_memory(m, b, c.size) BY <1>1 DEF deallocate_string
<1>3. n = deallocate_memory(m, c, c.size) BY <1>1, <1>2 DEF deallocate_memory
<1> QED BY <1>3, DeallocateMemory

LEMMA BlocksNamed ==
  ASSUME NEW h
  PROVE  /\ BlockOf(<<"holder", h>>) = [block[h] EXCEPT !.size = HolderSize]
         /\ BlockOf(<<"string", h>>) = Held(Heap, name[h])
         /\ BlockOf(<<"holder", h>>)' = [block'[h] EXCEPT !.size = HolderSize]
         /\ BlockOf(<<"string", h>>)' = Held(Heap', name'[h])
BY DEF BlockOf, Held, Heap

LEMMA NeededAre ==
  /\ \A h \in Holders : (<<"holder", h>> \in Needed <=> Made(h)) /\ (<<"string", h>> \in Needed <=> h \in allocated)
  /\ \A h \in Holders : (<<"holder", h>> \in Needed' <=> Made(h)') /\ (<<"string", h>> \in Needed' <=> h \in allocated')
  /\ \A u \in Needed : \/ \E h \in Holders : u = <<"holder", h>> /\ Made(h)
                       \/ \E h \in allocated : u = <<"string", h>>
  /\ \A u \in Needed' : \/ \E h \in Holders : u = <<"holder", h>> /\ Made(h)'
                        \/ \E h \in allocated' : u = <<"string", h>>
BY DEF Needed, Made

LEMMA HeapIs ==
  /\ Heap.pages = pages /\ Heap.root = root /\ Heap.busy = pageBusy /\ Heap.freed = pageFreed /\ Heap.top = busySize
  /\ Heap'.pages = pages' /\ Heap'.root = root' /\ Heap'.busy = pageBusy' /\ Heap'.freed = pageFreed' /\ Heap'.top = busySize'
BY DEF Heap

\* Where a holder that exists is, and a string of its own.
LEMMA WhereThingsAre ==
  ASSUME LayoutInv, NEW h \in Holders
  PROVE  /\ DOMAIN Layout = Needed /\ \A u \in Needed : Layout[u] = BlockOf(u)
         /\ Made(h) => root # Sentinel
         /\ h \in allocated => /\ Held(Heap, name[h]) \in BlocksOf(Layout)
                               /\ name[h].page \in pages \ {Sentinel} /\ name[h].page \in PageIds
<1>1. DOMAIN Layout = Needed /\ \A u \in Needed : Layout[u] = BlockOf(u) BY DEF Layout
<1>2. Made(h) => root # Sentinel
  <2> SUFFICES ASSUME Made(h) PROVE root # Sentinel OBVIOUS
  <2>1. <<"holder", h>> \in Needed BY NeededAre
  <2>2. BlocksOf(Layout) # {} BY <1>1, <2>1 DEF BlocksOf
  <2> QED BY <2>2, HeapIs DEF LayoutInv, HeapOK, Housed
<1>3. ASSUME h \in allocated
      PROVE  /\ Held(Heap, name[h]) \in BlocksOf(Layout)
             /\ name[h].page \in pages \ {Sentinel} /\ name[h].page \in PageIds
  <2>1. <<"string", h>> \in Needed BY <1>3, NeededAre
  <2>2. Held(Heap, name[h]) \in BlocksOf(Layout) BY <1>1, <2>1, BlocksNamed DEF BlocksOf
  <2>3. Held(Heap, name[h]).page \in pages \ {Sentinel}
    BY <2>2, HeapIs DEF LayoutInv, HeapOK, Housed
  <2>4. name[h] \in Block BY DEF LayoutInv, MemTypeOK
  <2>5. Held(Heap, name[h]).page = name[h].page BY <2>4 DEF Held, Block
  <2>6. pages \subseteq PageIds BY HeapIs DEF LayoutInv, HeapOK, HeapTypeOK, Heaps
  <2> QED BY <2>2, <2>3, <2>5, <2>6
<1> QED BY <1>1, <1>2, <1>3

\* Two holders that read the same place read the file's, and are marked.
Distinct(g, h) ==
  g # h /\ name[g] # Nowhere /\ name[h] # Nowhere /\ Place(name[g]) = Place(name[h])
    => {g, h} \subseteq shared /\ g \notin allocated /\ h \notin allocated

AllDistinct == \A g, h \in Holders : Distinct(g, h)

LEMMA PlacesDistinct == LayoutInv => AllDistinct
<1> SUFFICES ASSUME LayoutInv, NEW g \in Holders, NEW h \in Holders, g # h, name[g] # Nowhere, name[h] # Nowhere,
                    name[g].page = name[h].page, name[g].at = name[h].at
             PROVE  {g, h} \subseteq shared /\ g \notin allocated /\ h \notin allocated
  BY DEF AllDistinct, Distinct, Place
<1>1. \A k \in allocated : name[k].page \in PageIds /\ name[k].page # FileBuffer
  <2>1. MaxPages \in Nat BY PagesAssumption
  <2> QED BY <2>1, WhereThingsAre DEF LayoutInv, MemTypeOK, PageIds, Sentinel, FileBuffer
<1>2. \A k \in Holders : name[k] # Nowhere /\ k \notin allocated => name[k].page = FileBuffer
  BY DEF LayoutInv, Tied
<1>3. CASE g \notin allocated /\ h \notin allocated BY <1>3 DEF LayoutInv, Marked
<1>4. CASE g \in allocated /\ h \in allocated
  <2> DEFINE b == Held(Heap, name[g])
             c == Held(Heap, name[h])
  <2>1. b \in BlocksOf(Layout) /\ c \in BlocksOf(Layout) BY <1>4, WhereThingsAre
  <2>2. b # c
    <3>1. <<"string", g>> \in Needed /\ <<"string", h>> \in Needed BY <1>4, NeededAre
    <3>2. Layout[<<"string", g>>] = b /\ Layout[<<"string", h>>] = c /\ DOMAIN Layout = Needed
      BY <3>1, BlocksNamed, WhereThingsAre
    <3>3. <<"string", g>> # <<"string", h>> OBVIOUS
    <3> HIDE DEF b, c
    <3> QED BY <3>1, <3>2, <3>3 DEF LayoutInv, InjectiveOn
  <2>3. name[g] \in Block /\ name[h] \in Block BY DEF LayoutInv, MemTypeOK
  <2>4. b.page = name[g].page /\ c.page = name[h].page /\ b.at = name[g].at /\ c.at = name[h].at
    BY <2>3 DEF Held, Block
  <2> HIDE DEF b, c
  <2>5. b \in Block /\ c \in Block /\ b.size > 0 /\ c.size > 0 BY <2>1 DEF LayoutInv, HeapOK, Housed
  <2>6. b.at \in BytesOf(b) /\ c.at \in BytesOf(c) BY <2>5, BytesAre
  <2>7. BytesOf(b) \cap BytesOf(c) = {} BY <2>1, <2>2, <2>4 DEF LayoutInv, HeapOK, Apart
  <2> QED BY <2>4, <2>6, <2>7
<1> QED BY <1>1, <1>2, <1>3, <1>4

LEMMA PlacesStayDistinct == LayoutInv' => AllDistinct'
<1>1. LayoutInv => AllDistinct BY PlacesDistinct
<1> QED BY <1>1, PTL

-----------------------------------------------------------------------------
(* Steps.                                                                  *)

Calm(m, n) == \A i \in m.pages \ {m.root} : i # n.root /\ n.busy[i] = m.busy[i]

\* What is not touched stays where it is, whatever pages come and go.
LEMMA Frame ==
  ASSUME LayoutInv, NEW n, Uses(n), Calm(Heap, n), NEW g \in Holders
  PROVE  /\ block'[g] = block[g] => BlockOf(<<"holder", g>>)' = BlockOf(<<"holder", g>>)
         /\ g \in allocated /\ name'[g] = name[g] =>
              /\ BlockOf(<<"string", g>>)' = BlockOf(<<"string", g>>)
              /\ name'[g].size = 0 => name'[g].page # root'
<1>1. block'[g] = block[g] => BlockOf(<<"holder", g>>)' = BlockOf(<<"holder", g>>)
  BY BlocksNamed
<1>2. ASSUME g \in allocated, name'[g] = name[g]
      PROVE  /\ BlockOf(<<"string", g>>)' = BlockOf(<<"string", g>>)
             /\ name'[g].size = 0 => name'[g].page # root'
  <2>1. name[g].page \in pages /\ (name[g].size = 0 => name[g].page # root)
    BY <1>2, WhereThingsAre DEF LayoutInv, Tied
  <2>2. name[g].size = 0 => pageBusy'[name[g].page] = pageBusy[name[g].page] /\ name[g].page # root'
    BY <2>1, HeapIs DEF Uses, Calm
  <2>3. Held(Heap', name[g]) = Held(Heap, name[g]) BY <2>2, HeapIs DEF Held
  <2> QED BY <1>2, <2>2, <2>3, BlocksNamed
<1> QED BY <1>1, <1>2

\* What a step leaves is a layout when the heap it ends with keeps one that agrees.
LEMMA Settled ==
  ASSUME NEW n \in Heaps, Uses(n), NEW G, InjectiveOn(G), HeapOK(n, BlocksOf(G)),
         DOMAIN G = Needed', \A u \in Needed' : BlockOf(u)' = G[u]
  PROVE  HeapOK(Heap', BlocksOf(Layout')) /\ InjectiveOn(Layout')
<1>1. DOMAIN Layout' = DOMAIN G /\ \A u \in DOMAIN G : Layout'[u] = G[u] BY DEF Layout
<1>2. InjectiveOn(Layout') /\ BlocksOf(Layout') = BlocksOf(G) BY <1>1 DEF InjectiveOn, BlocksOf
<1>3. Nowhere \in Block BY DEF Nowhere, Block
<1>4. Heap' \in Heaps BY <1>3 DEF Heaps, Heap, Uses
<1>5. HeapOK(Heap', BlocksOf(G)) BY <1>4, HeapIs, HeapSeen DEF Uses
<1> QED BY <1>2, <1>5

\* A heap step allocates room for one more holder.
LEMMA HolderFits ==
  ASSUME LayoutInv, NEW h \in Holders, ~Made(h), NEW m, m = allocate_memory(Heap, HolderSize), m.got # Nowhere
  PROVE  /\ m \in Heaps /\ m.got \in Block /\ m.got.page # Sentinel /\ m.root # Sentinel
         /\ [m.got EXCEPT !.size = HolderSize] = m.got
         /\ InjectiveOn(Enlarged(Layout, <<"holder", h>>, m.got))
         /\ HeapOK(m, BlocksOf(Enlarged(Layout, <<"holder", h>>, m.got)))
         /\ BlocksOf(Enlarged(Layout, <<"holder", h>>, m.got)) = BlocksOf(Layout) \union {m.got}
         /\ Behind(Heap, m)
<1> DEFINE U == BlocksOf(Layout)
           c == m.got
<1>1. HeapOK(Heap, U) /\ InjectiveOn(Layout) BY DEF LayoutInv
<1>2. Heap \in Heaps BY <1>1 DEF HeapOK, HeapTypeOK
<1>3. Allocates(Heap, m, U, HolderSize) BY <1>1, Sizes, AllocateMemory
<1>4. m # [Heap EXCEPT !.got = Nowhere] BY <1>2 DEF Heaps
<1>5. /\ c \in Block /\ c.size = HolderSize /\ c.page # Sentinel /\ c \notin U
      /\ HeapOK(m, U \union {c}) /\ Behind(Heap, m)
  BY <1>3, <1>4 DEF Allocates
<1>6. [c EXCEPT !.size = HolderSize] = c BY ONLY <1>5 DEF Block
<1>7. <<"holder", h>> \notin DOMAIN Layout BY NeededAre DEF Layout
<1>8. m \in Heaps /\ m.root # Sentinel BY <1>5 DEF HeapOK, HeapTypeOK, Housed
<1>9. /\ InjectiveOn(Enlarged(Layout, <<"holder", h>>, c))
      /\ BlocksOf(Enlarged(Layout, <<"holder", h>>, c)) = U \union {c}
  <2> HIDE DEF c
  <2> QED BY <1>1, <1>5, <1>7, EnlargedLays
<1> QED BY <1>5, <1>6, <1>8, <1>9

\* One holder more, whatever its name: Add, Parse, and CopyHolder of a name that is shared.
LEMMA HolderLaid ==
  ASSUME LayoutInv, NEW h \in Holders, ~Made(h), NEW m, m = allocate_memory(Heap, HolderSize), m.got # Nowhere,
         Uses(m), block' = [block EXCEPT ![h] = m.got], allocated' = allocated,
         \A g \in Holders : g # h => name'[g] = name[g]
  PROVE  /\ HeapOK(Heap', BlocksOf(Layout')) /\ InjectiveOn(Layout')
         /\ block' \in [Holders -> Block]
         /\ \A g \in allocated' : name'[g].size = 0 => name'[g].page # root'
         /\ \A g \in Holders : Made(g)' <=> Made(g) \/ g = h
<1> DEFINE u == <<"holder", h>>
           G == Enlarged(Layout, u, m.got)
<1>1. /\ m \in Heaps /\ m.got \in Block /\ m.got.page # Sentinel
      /\ [m.got EXCEPT !.size = HolderSize] = m.got
      /\ InjectiveOn(G) /\ HeapOK(m, BlocksOf(G)) /\ Behind(Heap, m)
  BY HolderFits
<1>2. Calm(Heap, m) BY <1>1 DEF Calm, Behind
<1>3. block \in [Holders -> Block] BY DEF LayoutInv, MemTypeOK
<1>4. block' \in [Holders -> Block] /\ block'[h] = m.got /\ \A g \in Holders : g # h => block'[g] = block[g]
  BY <1>1, <1>3
<1>5. \A g \in Holders : Made(g)' <=> Made(g) \/ g = h BY <1>1, <1>4 DEF Made, Nowhere, Sentinel
<1>6. h \notin allocated BY DEF LayoutInv, Tied
<1>7. allocated \subseteq Holders BY DEF LayoutInv, MemTypeOK
<1>8. Needed' = Needed \union {u} BY <1>5 DEF Needed
<1>9. DOMAIN G = Needed' /\ G[u] = m.got /\ \A v \in Needed : v # u => G[v] = BlockOf(v)
  BY <1>8 DEF Enlarged, Layout
<1>10. \A g \in allocated : /\ BlockOf(<<"string", g>>)' = BlockOf(<<"string", g>>)
                            /\ name'[g].size = 0 => name'[g].page # root'
  BY <1>2, <1>6, <1>7, Frame
<1>11. \A g \in Holders : g # h => BlockOf(<<"holder", g>>)' = BlockOf(<<"holder", g>>)
  BY <1>2, <1>4, Frame
<1>12. BlockOf(u)' = m.got BY <1>1, <1>4, BlocksNamed
<1> HIDE DEF G
<1>13. \A v \in Needed' : BlockOf(v)' = G[v]
  <2> SUFFICES ASSUME NEW v \in Needed' PROVE BlockOf(v)' = G[v] OBVIOUS
  <2>1. CASE \E g \in Holders : v = <<"holder", g>> /\ Made(g)'
    <3>1. PICK g \in Holders : v = <<"holder", g>> /\ Made(g)' BY <2>1
    <3>2. CASE g = h BY <3>1, <3>2, <1>9, <1>12
    <3>3. CASE g # h
      <4>1. v \in Needed /\ v # u BY <3>1, <3>3, <1>5, NeededAre
      <4> QED BY <3>1, <3>3, <4>1, <1>9, <1>11
    <3> QED BY <3>2, <3>3
  <2>2. CASE \E g \in allocated' : v = <<"string", g>>
    <3>1. PICK g \in allocated : v = <<"string", g>> BY <2>2
    <3>2. v \in Needed /\ v # u BY <3>1, <1>7, NeededAre
    <3> QED BY <3>1, <3>2, <1>9, <1>10
  <2> QED BY <2>1, <2>2, NeededAre
<1>14. HeapOK(Heap', BlocksOf(Layout')) /\ InjectiveOn(Layout')
  BY <1>1, <1>9, <1>13, Settled
<1> QED BY <1>4, <1>5, <1>10, <1>14

LEMMA AddLays ==
  ASSUME LayoutInv, NEW h \in Holders, Add(h)
  PROVE  LayoutInv'
<1> DEFINE m == allocate_memory(Heap, HolderSize)
<1>1. ~Made(h) /\ m.got # Nowhere /\ Uses(m) /\ block' = [block EXCEPT ![h] = m.got]
      /\ UNCHANGED <<name, allocated, shared, memory, parsed, given>>
  BY DEF Add
<1> HIDE DEF m
<1>2. /\ HeapOK(Heap', BlocksOf(Layout')) /\ InjectiveOn(Layout')
      /\ block' \in [Holders -> Block]
      /\ \A g \in allocated' : name'[g].size = 0 => name'[g].page # root'
      /\ \A g \in Holders : Made(g)' <=> Made(g) \/ g = h
  BY <1>1, HolderLaid DEF m
<1>3. MemTypeOK' BY <1>1, <1>2 DEF LayoutInv, MemTypeOK
<1>4. \A g \in Holders : Tied(g)' BY <1>1, <1>2 DEF LayoutInv, Tied
<1>5. \A f, g \in Holders : Marked(f, g)' BY <1>1 DEF LayoutInv, Marked
<1> QED BY <1>2, <1>3, <1>4, <1>5 DEF LayoutInv

LEMMA ParseLays ==
  ASSUME LayoutInv, NEW h \in Holders, NEW text \in Texts, Parse(h, text)
  PROVE  LayoutInv'
<1> DEFINE m == allocate_memory(Heap, HolderSize)
           b == [page |-> FileBuffer, at |-> parsed, size |-> 0]
<1>1. /\ ~Made(h) /\ m.got # Nowhere /\ Uses(m) /\ block' = [block EXCEPT ![h] = m.got]
      /\ parsed' = parsed + 1 /\ name' = [name EXCEPT ![h] = b]
      /\ UNCHANGED <<allocated, shared>>
  BY DEF Parse
<1>0. MemTypeOK BY DEF LayoutInv
<1>b. b \in Block /\ b.page = FileBuffer /\ b.at = parsed
  BY <1>0, PagesAssumption DEF MemTypeOK, Block, FileBuffer
<1> HIDE DEF m, b
<1>2. name' \in [Holders -> Block] /\ name'[h] = b /\ \A g \in Holders : g # h => name'[g] = name[g]
  BY <1>0, <1>1, <1>b DEF MemTypeOK
<1>3. /\ HeapOK(Heap', BlocksOf(Layout')) /\ InjectiveOn(Layout')
      /\ block' \in [Holders -> Block]
      /\ \A g \in allocated' : name'[g].size = 0 => name'[g].page # root'
      /\ \A g \in Holders : Made(g)' <=> Made(g) \/ g = h
  BY <1>1, <1>2, HolderLaid DEF m
<1>4. MemTypeOK' BY <1>0, <1>1, <1>2, <1>3 DEF MemTypeOK
<1>5. ASSUME NEW g \in Holders PROVE Tied(g)'
  <2>1. Tied(g) /\ Tied(h) /\ parsed \in Nat BY <1>0 DEF LayoutInv, MemTypeOK
  <2>2. CASE g = h BY <2>1, <2>2, <1>1, <1>2, <1>3, <1>b DEF Tied
  <2>3. CASE g # h
    <3>1. name[g] \in Block BY <1>0 DEF MemTypeOK
    <3>2. name[g].at < parsed => name[g].at < parsed' BY <2>1, <3>1, <1>1 DEF Block
    <3> QED BY <2>1, <2>3, <3>2, <1>1, <1>2, <1>3 DEF Tied
  <2> QED BY <2>2, <2>3
<1>6. ASSUME NEW f \in Holders, NEW g \in Holders PROVE Marked(f, g)'
  <2>1. \A k \in Holders : k # h /\ name[k] # Nowhere /\ k \notin allocated => name[k].at # parsed
    BY <1>0 DEF LayoutInv, Tied, MemTypeOK, Block
  <2>2. Marked(f, g) BY DEF LayoutInv
  <2> QED BY <2>1, <2>2, <1>1, <1>2, <1>b DEF Marked
<1> QED BY <1>3, <1>4, <1>5, <1>6 DEF LayoutInv

LEMMA Agree ==
  ASSUME LayoutInv, NEW n, Uses(n), Calm(Heap, n), NEW u \in Needed,
         \A g \in Holders : u = <<"holder", g>> => block'[g] = block[g],
         \A g \in allocated : u = <<"string", g>> => name'[g] = name[g]
  PROVE  BlockOf(u)' = Layout[u]
<1>1. allocated \subseteq Holders BY DEF LayoutInv, MemTypeOK
<1>2. Layout[u] = BlockOf(u) BY DEF Layout
<1>3. CASE \E g \in Holders : u = <<"holder", g>> BY <1>2, <1>3, Frame
<1>4. CASE \E g \in allocated : u = <<"string", g>> BY <1>1, <1>2, <1>4, Frame
<1> QED BY <1>3, <1>4, NeededAre

\* The string of a holder is given back.
LEMMA StringFreed ==
  ASSUME LayoutInv, NEW h \in allocated, NEW n, n = deallocate_string(Heap, name[h])
  PROVE  /\ n \in Heaps /\ n.root = root /\ Calm(Heap, n)
         /\ \A i \in PageIds : i # root => n.busy[i] = pageBusy[i]
         /\ <<"string", h>> \in DOMAIN Layout
         /\ InjectiveOn(Reduced(Layout, <<"string", h>>))
         /\ HeapOK(n, BlocksOf(Reduced(Layout, <<"string", h>>)))
<1> DEFINE u == <<"string", h>>
           U == BlocksOf(Layout)
<1>1. h \in Holders /\ name[h] \in Block /\ HeapOK(Heap, U) /\ InjectiveOn(Layout) BY DEF LayoutInv, MemTypeOK
<1>2. u \in Needed /\ DOMAIN Layout = Needed BY <1>1, NeededAre DEF Layout
<1>3. Layout[u] = Held(Heap, name[h]) BY <1>2, BlocksNamed DEF Layout
<1>4. Held(Heap, name[h]) \in U BY <1>2, <1>3 DEF BlocksOf
<1> HIDE DEF u, U
<1>5. /\ HeapOK(n, U \ {Held(Heap, name[h])}) /\ n.root = root
      /\ \A i \in PageIds : i # root => n.busy[i] = pageBusy[i]
  BY <1>1, <1>4, DeallocateString, HeapIs
<1>6. InjectiveOn(Reduced(Layout, u)) /\ BlocksOf(Reduced(Layout, u)) = U \ {Held(Heap, name[h])}
  BY <1>1, <1>2, <1>3, ReducedLays DEF U
<1>7. pages \subseteq PageIds BY <1>1, HeapIs DEF HeapOK, HeapTypeOK, Heaps
<1>8. Calm(Heap, n) BY <1>5, <1>7, HeapIs DEF Calm
<1>9. n \in Heaps BY <1>5 DEF HeapOK, HeapTypeOK
<1> QED BY <1>2, <1>5, <1>6, <1>8, <1>9 DEF u

LEMMA UnnameLays ==
  ASSUME LayoutInv, NEW h \in Holders, Unname(h)
  PROVE  LayoutInv'
<1> DEFINE n == IF h \in allocated THEN deallocate_string(Heap, name[h]) ELSE Heap
           u == <<"string", h>>
           G == IF h \in allocated THEN Reduced(Layout, u) ELSE Layout
<1>1. /\ Uses(n) /\ name' = [name EXCEPT ![h] = Nowhere] /\ allocated' = allocated \ {h}
      /\ UNCHANGED <<block, shared, parsed>>
  BY DEF Unname
<1>2. HeapOK(Heap, BlocksOf(Layout)) /\ InjectiveOn(Layout) /\ MemTypeOK BY DEF LayoutInv
<1>3. /\ n \in Heaps /\ n.root = root /\ Calm(Heap, n) /\ InjectiveOn(G) /\ HeapOK(n, BlocksOf(G))
      /\ DOMAIN G = Needed \ {u} /\ \A v \in DOMAIN G : G[v] = Layout[v]
  <2>1. CASE h \in allocated BY <2>1, StringFreed DEF Reduced, Layout
  <2>2. CASE h \notin allocated
    <3>1. n = Heap /\ G = Layout BY <2>2
    <3>2. u \notin Needed BY <2>2, NeededAre
    <3>3. Heap \in Heaps /\ Heap.root \in PageIds BY <1>2 DEF HeapOK, HeapTypeOK, Heaps
    <3>4. Calm(Heap, Heap) BY DEF Calm
    <3>5. DOMAIN Layout = Needed BY DEF Layout
    <3> QED BY <1>2, <3>1, <3>2, <3>3, <3>4, <3>5, HeapIs
  <2> QED BY <2>1, <2>2
<1> HIDE DEF n, G
<1>4. Nowhere \in Block BY DEF Nowhere, Block
<1>5. name' \in [Holders -> Block] /\ name'[h] = Nowhere /\ \A g \in Holders : g # h => name'[g] = name[g]
  BY <1>1, <1>2, <1>4 DEF MemTypeOK
<1>6. Needed' = Needed \ {u} BY <1>1 DEF Needed, Made
<1>7. \A v \in Needed' : BlockOf(v)' = G[v]
  <2> SUFFICES ASSUME NEW v \in Needed, v # u PROVE BlockOf(v)' = G[v] BY <1>6
  <2>1. \A g \in allocated : v = <<"string", g>> => name'[g] = name[g]
    BY <1>2, <1>5 DEF MemTypeOK
  <2>2. BlockOf(v)' = Layout[v] BY <1>1, <1>3, <2>1, Agree
  <2> QED BY <1>3, <2>2
<1>8. HeapOK(Heap', BlocksOf(Layout')) /\ InjectiveOn(Layout') BY <1>1, <1>3, <1>6, <1>7, Settled
<1>9. MemTypeOK' BY <1>1, <1>2, <1>5 DEF MemTypeOK
<1>10. root' = root BY <1>1, <1>3 DEF Uses
<1>11. \A g \in Holders : Tied(g)' BY <1>1, <1>5, <1>10 DEF LayoutInv, Tied, Made
<1>12. \A f, g \in Holders : Marked(f, g)' BY <1>1, <1>5 DEF LayoutInv, Marked
<1> QED BY <1>8, <1>9, <1>11, <1>12 DEF LayoutInv

LEMMA DestroyLays ==
  ASSUME LayoutInv, NEW h \in Holders, DestroyHolder(h)
  PROVE  LayoutInv'
<1> DEFINE n == IF h \in allocated THEN deallocate_string(Heap, name[h]) ELSE Heap
           k == deallocate_memory(n, block[h], HolderSize)
           u == <<"string", h>>
           w == <<"holder", h>>
           F == IF h \in allocated THEN Reduced(Layout, u) ELSE Layout
           G == Reduced(F, w)
           b == BlockOf(w)
<1>1. /\ Made(h) /\ Uses(k) /\ name' = [name EXCEPT ![h] = Nowhere] /\ block' = [block EXCEPT ![h] = Nowhere]
      /\ allocated' = allocated \ {h} /\ shared' = shared \ {h} /\ parsed' = parsed
  BY DEF DestroyHolder
<1>2. HeapOK(Heap, BlocksOf(Layout)) /\ InjectiveOn(Layout) /\ MemTypeOK /\ DOMAIN Layout = Needed
  BY DEF LayoutInv, Layout
<1>3. /\ n.root = root /\ InjectiveOn(F) /\ HeapOK(n, BlocksOf(F))
      /\ \A i \in PageIds : i # root => n.busy[i] = pageBusy[i]
      /\ DOMAIN F = Needed \ {u} /\ \A v \in DOMAIN F : F[v] = Layout[v]
  <2>1. CASE h \in allocated BY <2>1, StringFreed DEF Reduced, Layout
  <2>2. CASE h \notin allocated
    <3>1. n = Heap /\ F = Layout BY <2>2
    <3>2. u \notin Needed BY <2>2, NeededAre
    <3> QED BY <1>2, <3>1, <3>2, HeapIs
  <2> QED BY <2>1, <2>2
<1>4. w \in DOMAIN F /\ F[w] = b
  <2>1. w \in Needed BY <1>1, NeededAre
  <2>2. w # u OBVIOUS
  <2> QED BY <1>3, <2>1, <2>2 DEF Layout
<1>5. b.page = block[h].page /\ b.size = HolderSize
  <2>1. block[h] \in Block BY <1>2 DEF MemTypeOK
  <2> QED BY <2>1, BlocksNamed DEF Block
<1> HIDE DEF n, F, b
<1>6. k = deallocate_memory(n, b, b.size) BY ONLY <1>5 DEF deallocate_memory, k
<1> HIDE DEF k
<1>7. b \in BlocksOf(F) BY <1>4 DEF BlocksOf
<1>8. /\ HeapOK(k, BlocksOf(F) \ {b}) /\ k.root = root
      /\ \A i \in PageIds : i # root => k.busy[i] = pageBusy[i]
  <2>1. /\ HeapOK(k, BlocksOf(F) \ {b}) /\ k.root = n.root
        /\ \A i \in PageIds : i # n.root => k.busy[i] = n.busy[i]
    <3> SUFFICES ASSUME NEW m, m = n, NEW U, U = BlocksOf(F), NEW c \in U, c = b, NEW j, j = k
                 PROVE  /\ HeapOK(j, U \ {c}) /\ j.root = m.root
                        /\ \A i \in PageIds : i # m.root => j.busy[i] = m.busy[i]
      BY <1>7
    <3>1. HeapOK(m, U) /\ j = deallocate_memory(m, c, c.size) BY <1>3, <1>6
    <3> QED BY ONLY <3>1, DeallocateMemory
  <2> QED BY <2>1, <1>3
<1>9. InjectiveOn(G) /\ BlocksOf(G) = BlocksOf(F) \ {b} BY <1>3, <1>4, ReducedLays
<1>10. DOMAIN G = Needed \ {u, w} /\ \A v \in DOMAIN G : G[v] = Layout[v] BY <1>3 DEF Reduced
<1> HIDE DEF G
<1>11. k \in Heaps /\ Calm(Heap, k)
  <2>1. pages \subseteq PageIds BY <1>2, HeapIs DEF HeapOK, HeapTypeOK, Heaps
  <2>2. k \in Heaps BY <1>8 DEF HeapOK, HeapTypeOK
  <2> QED BY <1>8, <2>1, <2>2, HeapIs DEF Calm
<1>12. Nowhere \in Block BY DEF Nowhere, Block
<1>13. /\ name' \in [Holders -> Block] /\ name'[h] = Nowhere /\ \A g \in Holders : g # h => name'[g] = name[g]
       /\ block' \in [Holders -> Block] /\ block'[h] = Nowhere /\ \A g \in Holders : g # h => block'[g] = block[g]
  BY <1>1, <1>2, <1>12 DEF MemTypeOK
<1>14. Needed' = Needed \ {u, w} BY <1>1, <1>13 DEF Needed, Made
<1>15. \A v \in Needed' : BlockOf(v)' = G[v]
  <2> SUFFICES ASSUME NEW v \in Needed, v # u, v # w PROVE BlockOf(v)' = G[v] BY <1>14
  <2>1. \A g \in allocated : v = <<"string", g>> => name'[g] = name[g]
    BY <1>2, <1>13 DEF MemTypeOK
  <2>2. \A g \in Holders : v = <<"holder", g>> => block'[g] = block[g]
    BY <1>13
  <2>3. BlockOf(v)' = Layout[v] BY <1>1, <1>11, <2>1, <2>2, Agree
  <2> QED BY <1>10, <2>3
<1>16. HeapOK(Heap', BlocksOf(Layout')) /\ InjectiveOn(Layout')
  <2>1. HeapOK(k, BlocksOf(G)) BY <1>8, <1>9
  <2>2. DOMAIN G = Needed' BY <1>10, <1>14
  <2> QED BY <2>1, <2>2, <1>1, <1>9, <1>11, <1>15, Settled
<1>17. MemTypeOK' BY <1>1, <1>2, <1>13 DEF MemTypeOK
<1>18. root' = root BY <1>1, <1>8 DEF Uses
<1>19. \A g \in Holders : Tied(g)' BY <1>1, <1>13, <1>18 DEF LayoutInv, Tied, Made
<1>20. \A f, g \in Holders : Marked(f, g)' BY <1>1, <1>13 DEF LayoutInv, Marked
<1> QED BY <1>16, <1>17, <1>19, <1>20 DEF LayoutInv

LEMMA OverwriteLays ==
  ASSUME LayoutInv, UNCHANGED <<pages, root, pageBusy, pageFreed, busySize, block, name, allocated, shared, parsed>>
  PROVE  LayoutInv'
<1>1. Heap' = Heap BY DEF Heap
<1>2. Needed' = Needed BY DEF Needed, Made
<1>3. \A u \in Needed : BlockOf(u)' = BlockOf(u) BY DEF BlockOf
<1>4. Layout' = Layout BY <1>2, <1>3 DEF Layout
<1>5. MemTypeOK' BY DEF LayoutInv, MemTypeOK
<1>6. \A g \in Holders : Tied(g)' BY DEF LayoutInv, Tied, Made
<1>7. \A f, g \in Holders : Marked(f, g)' BY DEF LayoutInv, Marked
<1> QED BY <1>1, <1>4, <1>5, <1>6, <1>7 DEF LayoutInv

\* A new string: one more block, then the old one, if any, given back.
LEMMA StringReplaced ==
  ASSUME LayoutInv, NEW h \in Holders, Made(h), NEW text \in Texts,
         NEW n, n = allocate_string(Heap, text), n.got # Nowhere,
         NEW k, k = IF h \in allocated THEN deallocate_string(n, name[h]) ELSE n
  PROVE  LET u == <<"string", h>>
             F == IF h \in allocated THEN Reduced(Layout, u) ELSE Layout
             G == Enlarged(F, u, Held(n, n.got)) IN
         /\ k \in Heaps /\ Calm(Heap, k) /\ InjectiveOn(G) /\ HeapOK(k, BlocksOf(G))
         /\ n.got \in Block /\ n.got.page \in PageIds /\ n.got.page # Sentinel
         /\ n.got.size = 0 => n.got.page # k.root
         /\ Held(k, n.got) = Held(n, n.got)
<1> DEFINE u == <<"string", h>>
           F == IF h \in allocated THEN Reduced(Layout, u) ELSE Layout
           c == Held(n, n.got)
           G == Enlarged(F, u, c)
           U == BlocksOf(Layout)
           old == Held(n, name[h])
<1>1. HeapOK(Heap, U) /\ InjectiveOn(Layout) /\ MemTypeOK /\ DOMAIN Layout = Needed
  BY DEF LayoutInv, Layout
<1>2. Heap \in Heaps /\ root # Sentinel /\ pages \subseteq PageIds
  BY <1>1, HeapIs, WhereThingsAre DEF HeapOK, HeapTypeOK, Heaps
<1>3. n # [Heap EXCEPT !.got = Nowhere] BY <1>2 DEF Heaps
<1>4. /\ n.got \in Block /\ n.got.page # Sentinel /\ n.got.page \in PageIds
      /\ c \notin U /\ HeapOK(n, U \union {c}) /\ Behind(Heap, n)
      /\ n.got.size = 0 => n.got.page # n.root
  <2> HIDE DEF U
  <2> QED BY <1>1, <1>2, <1>3, HeapIs, AllocateString
<1>5. ASSUME h \in allocated
      PROVE  u \in DOMAIN Layout /\ Layout[u] = old /\ old \in U /\ name[h] \in Block
  <2>1. u \in Needed /\ name[h] \in Block BY <1>1, <1>5, NeededAre DEF MemTypeOK
  <2>2. Layout[u] = Held(Heap, name[h]) BY <2>1, BlocksNamed DEF Layout
  <2>3. Held(Heap, name[h]) = old
    <3>1. name[h].page \in pages /\ (name[h].size = 0 => name[h].page # root)
      BY <1>5, WhereThingsAre DEF LayoutInv, Tied
    <3>2. name[h].size = 0 => n.busy[name[h].page] = Heap.busy[name[h].page]
      BY <3>1, <1>4, HeapIs DEF Behind
    <3> QED BY <3>2 DEF Held
  <2> QED BY <1>1, <2>1, <2>2, <2>3 DEF BlocksOf
<1>6. u \notin DOMAIN F /\ InjectiveOn(F) /\ BlocksOf(F) = (IF h \in allocated THEN U \ {old} ELSE U)
  <2>1. CASE h \in allocated
    <3>1. F = Reduced(Layout, u) BY <2>1
    <3>2. u \notin DOMAIN F BY <3>1 DEF Reduced
    <3>3. InjectiveOn(F) /\ BlocksOf(F) = U \ {Layout[u]}
      <4> HIDE DEF F
      <4> QED BY <1>1, <1>5, <2>1, <3>1, ReducedLays DEF U
    <3> QED BY <1>5, <2>1, <3>2, <3>3
  <2>2. CASE h \notin allocated
    <3>1. F = Layout BY <2>2
    <3>2. u \notin DOMAIN F BY <1>1, <2>2, <3>1, NeededAre
    <3> QED BY <1>1, <2>2, <3>1, <3>2
  <2> QED BY <2>1, <2>2
<1>7. InjectiveOn(G) /\ BlocksOf(G) = BlocksOf(F) \union {c}
  <2>1. c \notin BlocksOf(F) BY <1>4, <1>6
  <2> HIDE DEF F, c
  <2> QED BY <1>6, <2>1, EnlargedLays
<1> HIDE DEF F, G, c, old
<1>8. HeapOK(k, BlocksOf(G)) /\ k.root = n.root /\ \A i \in PageIds : i # n.root => k.busy[i] = n.busy[i]
  <2>1. CASE h \in allocated
    <3>1. old \in U \union {c} /\ name[h] \in Block /\ k = deallocate_string(n, name[h]) BY <1>5, <2>1
    <3>2. /\ HeapOK(k, (U \union {c}) \ {old}) /\ k.root = n.root
          /\ \A i \in PageIds : i # n.root => k.busy[i] = n.busy[i]
      <4> SUFFICES ASSUME NEW V, V = U \union {c}
                   PROVE  /\ HeapOK(k, V \ {old}) /\ k.root = n.root
                          /\ \A i \in PageIds : i # n.root => k.busy[i] = n.busy[i]
        OBVIOUS
      <4>1. HeapOK(n, V) /\ Held(n, name[h]) \in V BY <1>4, <3>1 DEF old
      <4> QED BY <4>1, <3>1, DeallocateString DEF old
    <3>3. (U \union {c}) \ {old} = BlocksOf(G)
      <4>1. old # c BY <1>4, <1>5, <2>1
      <4> QED BY <4>1, <1>6, <1>7, <2>1
    <3> QED BY <3>2, <3>3
  <2>2. CASE h \notin allocated BY <2>2, <1>4, <1>6, <1>7
  <2> QED BY <2>1, <2>2
<1>9. k \in Heaps BY <1>8 DEF HeapOK, HeapTypeOK
<1>10. Calm(Heap, k) BY <1>2, <1>4, <1>8, HeapIs DEF Calm, Behind
<1>11. Held(k, n.got) = c
  <2>1. n.got.size = 0 => k.busy[n.got.page] = n.busy[n.got.page] BY <1>4, <1>8
  <2> QED BY <2>1 DEF Held, c
<1> QED BY <1>4, <1>7, <1>8, <1>9, <1>10, <1>11 DEF F, G, c

LEMMA RenameLays ==
  ASSUME LayoutInv, NEW h \in Holders, NEW text \in Texts, Rename(h, text)
  PROVE  LayoutInv'
<1> DEFINE n == allocate_string(Heap, text)
           b == n.got
           k == IF h \in allocated THEN deallocate_string(n, name[h]) ELSE n
           u == <<"string", h>>
           F == IF h \in allocated THEN Reduced(Layout, u) ELSE Layout
           G == Enlarged(F, u, Held(n, b))
<1>1. Made(h) /\ NewString(Heap, h, text) /\ UNCHANGED <<block, shared, parsed>> BY DEF Rename
<1>2. MemTypeOK /\ HeapOK(Heap, BlocksOf(Layout)) BY DEF LayoutInv
<1>3. CASE b = Nowhere
  <2>1. Uses(n) /\ UNCHANGED <<name, allocated>> BY <1>1, <1>3 DEF NewString
  <2>2. n = [Heap EXCEPT !.got = Nowhere]
    <3> HIDE DEF n
    <3>1. Heap.root # Sentinel BY <1>1, WhereThingsAre, HeapIs
    <3>2. \/ n = [Heap EXCEPT !.got = Nowhere]
          \/ n.got.page # Sentinel
      BY <1>2, <3>1, AllocateString DEF n
    <3> QED BY <3>2, <1>3 DEF Nowhere, Sentinel
  <2>3. UNCHANGED <<pages, root, pageBusy, pageFreed, busySize>>
    <3> HIDE DEF n
    <3> QED BY <2>1, <2>2 DEF Uses, Heap
  <2> QED BY <1>1, <2>1, <2>3, OverwriteLays
<1>4. CASE b # Nowhere
  <2>1. /\ Uses(k) /\ name' = [name EXCEPT ![h] = b] /\ allocated' = allocated \union {h}
    BY <1>1, <1>4 DEF NewString
  <2>2. /\ k \in Heaps /\ Calm(Heap, k) /\ InjectiveOn(G) /\ HeapOK(k, BlocksOf(G))
        /\ b \in Block /\ b.page # Sentinel
        /\ b.size = 0 => b.page # k.root
        /\ Held(k, b) = Held(n, b)
    <3> HIDE DEF n, k
    <3> QED BY <1>1, <1>4, StringReplaced DEF n, k
  <2>3. DOMAIN F = Needed \ {u} /\ \A v \in DOMAIN F : F[v] = Layout[v]
    <3>1. CASE h \in allocated BY <3>1 DEF Reduced, Layout
    <3>2. CASE h \notin allocated
      <4>1. u \notin Needed BY <3>2, NeededAre
      <4> QED BY <3>2, <4>1 DEF Layout
    <3> QED BY <3>1, <3>2
  <2> HIDE DEF n, k, F
  <2>4. DOMAIN G = Needed \union {u} /\ G[u] = Held(n, b) /\ \A v \in Needed : v # u => G[v] = Layout[v]
    BY <2>3 DEF Enlarged
  <2> HIDE DEF G
  <2>5. name' \in [Holders -> Block] /\ name'[h] = b /\ \A g \in Holders : g # h => name'[g] = name[g]
    BY <1>2, <2>1, <2>2 DEF MemTypeOK
  <2>6. Needed' = Needed \union {u} BY <1>1, <2>1 DEF Needed, Made
  <2>7. ASSUME NEW v \in Needed' PROVE BlockOf(v)' = G[v]
    <3>1. CASE v = u
      <4>1. BlockOf(u)' = Held(Heap', b) BY <2>5, BlocksNamed
      <4>2. Heap'.busy = k.busy BY <2>1, HeapIs DEF Uses
      <4>3. Held(Heap', b) = Held(k, b) BY <4>2 DEF Held
      <4> QED BY <3>1, <4>1, <4>3, <2>2, <2>4
    <3>2. CASE v # u
      <4>1. v \in Needed BY <2>6, <3>2
      <4>2. \A g \in allocated : v = <<"string", g>> => name'[g] = name[g]
        BY <1>2, <2>5, <3>2 DEF MemTypeOK
      <4>3. BlockOf(v)' = Layout[v] BY <1>1, <2>1, <2>2, <4>1, <4>2, Agree
      <4> QED BY <2>4, <3>2, <4>1, <4>3
    <3> QED BY <3>1, <3>2
  <2>8. HeapOK(Heap', BlocksOf(Layout')) /\ InjectiveOn(Layout')
    <3>1. DOMAIN G = Needed' BY <2>4, <2>6
    <3> QED BY <2>1, <2>2, <2>7, <3>1, Settled
  <2>9. MemTypeOK' BY <1>1, <1>2, <2>1, <2>5 DEF MemTypeOK
  <2>10. ASSUME NEW g \in Holders PROVE Tied(g)'
    <3>1. Made(g)' <=> Made(g) BY <1>1 DEF Made
    <3>2. CASE g = h
      <4>1. root' = k.root /\ b # Nowhere BY <2>1, <2>2 DEF Uses, Nowhere, Sentinel
      <4> QED BY <1>1, <2>1, <2>2, <2>5, <3>1, <3>2, <4>1 DEF LayoutInv, Tied
    <3>3. CASE g # h
      <4>1. g \in allocated => (name'[g].size = 0 => name'[g].page # root')
        BY <2>1, <2>2, <2>5, <3>3, Frame
      <4> QED BY <1>1, <2>1, <2>5, <3>1, <3>3, <4>1 DEF LayoutInv, Tied
    <3> QED BY <3>2, <3>3
  <2>11. \A f, g \in Holders : Marked(f, g)' BY <1>1, <2>1, <2>5 DEF LayoutInv, Marked
  <2> QED BY <2>8, <2>9, <2>10, <2>11 DEF LayoutInv
<1> QED BY <1>3, <1>4

LEMMA CopyLays ==
  ASSUME LayoutInv, NamesInv, NEW h \in Holders, NEW source \in Holders, CopyHolder(h, source)
  PROVE  LayoutInv'
<1> DEFINE m == allocate_memory(Heap, HolderSize)
           w == <<"holder", h>>
           F == Enlarged(Layout, w, m.got)
<1>1. ~Made(h) /\ Made(source) /\ m.got # Nowhere /\ block' = [block EXCEPT ![h] = m.got] /\ parsed' = parsed
  BY DEF CopyHolder
<1>2. MemTypeOK /\ DOMAIN Layout = Needed /\ h # source /\ name[h] = Nowhere /\ h \notin allocated /\ h \notin shared
      /\ root # Sentinel
  BY <1>1, WhereThingsAre DEF LayoutInv, Tied
<1> HIDE DEF m
<1>3. /\ m \in Heaps /\ m.got \in Block /\ m.got.page # Sentinel /\ m.root # Sentinel
      /\ [m.got EXCEPT !.size = HolderSize] = m.got
      /\ InjectiveOn(F) /\ HeapOK(m, BlocksOf(F)) /\ BlocksOf(F) = BlocksOf(Layout) \union {m.got}
      /\ Behind(Heap, m)
  BY <1>1, HolderFits DEF m
<1>4. DOMAIN F = Needed \union {w} /\ F[w] = m.got /\ \A v \in Needed : v # w => F[v] = Layout[v]
  BY <1>2 DEF Enlarged
<1> HIDE DEF F
\* The name is shared, or there is none, or there was no memory for a string.
<1>5. ASSUME Uses(m), allocated' = allocated, name' = [name EXCEPT ![h] = name[source]],
             name[source] # Nowhere => source \notin allocated,
             shared' = IF name[source] # Nowhere THEN shared \union {h, source} ELSE shared
      PROVE  LayoutInv'
  <2>1. name' \in [Holders -> Block] /\ name'[h] = name[source] /\ \A g \in Holders : g # h => name'[g] = name[g]
    BY <1>2, <1>5 DEF MemTypeOK
  <2>2. /\ HeapOK(Heap', BlocksOf(Layout')) /\ InjectiveOn(Layout')
        /\ block' \in [Holders -> Block]
        /\ \A g \in allocated' : name'[g].size = 0 => name'[g].page # root'
        /\ \A g \in Holders : Made(g)' <=> Made(g) \/ g = h
    BY <1>1, <1>5, <2>1, HolderLaid DEF m
  <2>3. MemTypeOK' BY <1>1, <1>2, <1>5, <2>1, <2>2 DEF MemTypeOK
  <2>4. \A g \in Holders : Tied(g)' BY <1>1, <1>2, <1>5, <2>1, <2>2 DEF LayoutInv, Tied
  <2>5. ASSUME NEW f \in Holders, NEW g \in Holders PROVE Marked(f, g)'
    <3>1. Marked(f, g) /\ Marked(source, g) /\ Marked(f, source) BY DEF LayoutInv
    <3> QED BY <3>1, <1>1, <1>2, <1>5, <2>1 DEF Marked
  <2> QED BY <2>2, <2>3, <2>4, <2>5 DEF LayoutInv
<1>6. ASSUME Uses(m), UNCHANGED <<name, allocated, shared>>
      PROVE  LayoutInv'
  <2>1. /\ HeapOK(Heap', BlocksOf(Layout')) /\ InjectiveOn(Layout')
        /\ block' \in [Holders -> Block]
        /\ \A g \in allocated' : name'[g].size = 0 => name'[g].page # root'
        /\ \A g \in Holders : Made(g)' <=> Made(g) \/ g = h
    BY <1>1, <1>6, HolderLaid DEF m
  <2>2. MemTypeOK' BY <1>1, <1>2, <1>6, <2>1 DEF MemTypeOK
  <2>3. \A g \in Holders : Tied(g)' BY <1>1, <1>6, <2>1 DEF LayoutInv, Tied
  <2>4. \A f, g \in Holders : Marked(f, g)' BY <1>6 DEF LayoutInv, Marked
  <2> QED BY <2>1, <2>2, <2>3, <2>4 DEF LayoutInv
<1>7. CASE ~(name[source] # Nowhere /\ source \in allocated)
  BY <1>5, <1>7 DEF CopyHolder, m
<1>8. CASE name[source] # Nowhere /\ source \in allocated
  <2> DEFINE text == TextOf(source)
             n == allocate_string(m, text)
             b == n.got
             u == <<"string", h>>
             G == Enlarged(F, u, Held(n, b))
  <2>1. NewString(m, h, text) /\ shared' = shared BY <1>8 DEF CopyHolder, m
  <2>2. text \in Texts BY <1>8 DEF NamesInv, Reads, TextOf
  <2> HIDE DEF text
  <2>3. \/ n = [m EXCEPT !.got = Nowhere]
        \/ /\ b \in Block /\ b.page # Sentinel /\ Held(n, b) \notin BlocksOf(F)
           /\ HeapOK(n, BlocksOf(F) \union {Held(n, b)}) /\ Behind(m, n)
           /\ b.size = 0 => b.page # n.root
    <3> SUFFICES ASSUME NEW V, V = BlocksOf(F), NEW l, l = m, NEW j, j = n
                 PROVE  \/ j = [l EXCEPT !.got = Nowhere]
                        \/ /\ j.got \in Block /\ j.got.page # Sentinel /\ Held(j, j.got) \notin V
                           /\ HeapOK(j, V \union {Held(j, j.got)}) /\ Behind(l, j)
                           /\ j.got.size = 0 => j.got.page # j.root
      OBVIOUS
    <3>1. HeapOK(l, V) /\ l.root # Sentinel /\ j = allocate_string(l, text) BY <1>3
    <3> QED BY ONLY <3>1, <2>2, AllocateString
  <2>4. CASE b = Nowhere
    <3>1. Uses(n) /\ UNCHANGED <<name, allocated>> BY <2>1, <2>4 DEF NewString
    <3>2. n = [m EXCEPT !.got = Nowhere] BY <2>3, <2>4 DEF Nowhere, Sentinel
    <3> HIDE DEF n
    <3>3. Uses(m) BY <3>1, <3>2, <1>3 DEF Uses, Heaps
    <3> QED BY <1>6, <2>1, <3>1, <3>3
  <2>5. CASE b # Nowhere
    <3>1. Uses(n) /\ name' = [name EXCEPT ![h] = b] /\ allocated' = allocated \union {h}
      BY <1>2, <2>1, <2>5 DEF NewString
    <3>2. n # [m EXCEPT !.got = Nowhere]
      <4> HIDE DEF n
      <4> QED BY <1>3, <2>5 DEF Heaps
    <3> HIDE DEF n
    <3>3. /\ b \in Block /\ b.page # Sentinel /\ Held(n, b) \notin BlocksOf(F)
          /\ HeapOK(n, BlocksOf(F) \union {Held(n, b)}) /\ Behind(m, n)
          /\ b.size = 0 => b.page # n.root
      BY <2>3, <3>2
    <3>4. n \in Heaps BY <3>3 DEF HeapOK, HeapTypeOK
    <3>5. Calm(Heap, n) BY <1>3, <3>3 DEF Calm, Behind
    <3>6. u \notin DOMAIN F BY <1>2, <1>4, NeededAre
    <3>7. InjectiveOn(G) /\ BlocksOf(G) = BlocksOf(F) \union {Held(n, b)}
      <4> SUFFICES ASSUME NEW c, c = Held(n, b)
                   PROVE  InjectiveOn(Enlarged(F, u, c)) /\ BlocksOf(Enlarged(F, u, c)) = BlocksOf(F) \union {c}
        OBVIOUS
      <4>1. c \notin BlocksOf(F) BY <3>3
      <4> HIDE DEF u
      <4> QED BY <1>3, <3>6, <4>1, EnlargedLays
    <3>8. HeapOK(n, BlocksOf(G)) BY <3>3, <3>7
    <3>9. DOMAIN G = Needed \union {w, u} /\ G[u] = Held(n, b) /\ G[w] = m.got
          /\ \A v \in Needed : v # w => G[v] = Layout[v]
      <4>1. u \notin Needed BY <1>2, NeededAre
      <4>2. u # w OBVIOUS
      <4> QED BY <1>4, <4>1, <4>2 DEF Enlarged
    <3> HIDE DEF G
    <3>10. /\ name' \in [Holders -> Block] /\ name'[h] = b /\ \A g \in Holders : g # h => name'[g] = name[g]
           /\ block' \in [Holders -> Block] /\ block'[h] = m.got /\ \A g \in Holders : g # h => block'[g] = block[g]
      BY <1>1, <1>2, <1>3, <3>1, <3>3 DEF MemTypeOK
    <3>11. \A g \in Holders : Made(g)' <=> Made(g) \/ g = h BY <1>3, <3>10 DEF Made, Nowhere, Sentinel
    <3>12. Needed' = Needed \union {w, u} BY <3>1, <3>11 DEF Needed
    <3>13. ASSUME NEW v \in Needed' PROVE BlockOf(v)' = G[v]
      <4>1. CASE v = u
        <5>1. BlockOf(u)' = Held(Heap', b) BY <3>10, BlocksNamed
        <5>2. Heap'.busy = n.busy BY <3>1, HeapIs DEF Uses
        <5>3. Held(Heap', b) = Held(n, b) BY <5>2 DEF Held
        <5> QED BY <4>1, <5>1, <5>3, <3>9
      <4>2. CASE v = w
        <5>1. BlockOf(w)' = [block'[h] EXCEPT !.size = HolderSize] BY BlocksNamed
        <5>2. BlockOf(w)' = m.got BY <5>1, <1>3, <3>10
        <5> QED BY <4>2, <5>2, <3>9
      <4>3. CASE v # u /\ v # w
        <5>1. v \in Needed BY <3>12, <4>3
        <5>2. \A g \in allocated : v = <<"string", g>> => name'[g] = name[g]
          BY <1>2, <3>10, <4>3 DEF MemTypeOK
        <5>3. \A g \in Holders : v = <<"holder", g>> => block'[g] = block[g] BY <3>10, <4>3
        <5>4. BlockOf(v)' = Layout[v] BY <3>1, <3>5, <5>1, <5>2, <5>3, Agree
        <5> QED BY <3>9, <4>3, <5>1, <5>4
      <4> QED BY <4>1, <4>2, <4>3
    <3>14. HeapOK(Heap', BlocksOf(Layout')) /\ InjectiveOn(Layout')
      <4>1. DOMAIN G = Needed' BY <3>9, <3>12
      <4> QED BY <3>1, <3>4, <3>7, <3>8, <3>13, <4>1, Settled
    <3>15. MemTypeOK' BY <1>1, <1>2, <2>1, <3>1, <3>10 DEF MemTypeOK
    <3>16. ASSUME NEW g \in Holders PROVE Tied(g)'
      <4>1. CASE g = h
        <5>1. root' = n.root /\ b # Nowhere BY <3>1, <2>5 DEF Uses
        <5> QED BY <4>1, <5>1, <3>1, <3>3, <3>10, <3>11 DEF Tied
      <4>2. CASE g # h
        <5>1. g \in allocated => (name'[g].size = 0 => name'[g].page # root')
          BY <3>1, <3>5, <3>10, <4>2, Frame
        <5> QED BY <1>1, <2>1, <3>1, <3>10, <3>11, <4>2, <5>1 DEF LayoutInv, Tied
      <4> QED BY <4>1, <4>2
    <3>17. \A f, g \in Holders : Marked(f, g)' BY <1>1, <2>1, <3>1, <3>10 DEF LayoutInv, Marked
    <3> QED BY <3>14, <3>15, <3>16, <3>17 DEF LayoutInv
  <2> QED BY <2>4, <2>5
<1> QED BY <1>7, <1>8

\* A document without anything in it.
Empty ==
  /\ pages = {Sentinel} /\ root = Sentinel /\ busySize = PageSize
  /\ pageBusy = [i \in Sentinel .. MaxPages |-> IF i = Sentinel THEN PageSize ELSE 0]
  /\ pageFreed = [i \in Sentinel .. MaxPages |-> 0]
  /\ block = [h \in Holders |-> Nowhere] /\ name = [h \in Holders |-> Nowhere]
  /\ allocated = {} /\ shared = {} /\ parsed = 0
  /\ given = [h \in Holders |-> NoText]

LEMMA EmptyRight == Empty => MemInv
<1> SUFFICES ASSUME Empty PROVE MemInv OBVIOUS
<1> USE DEF Empty
<1>1. \A h \in Holders : ~Made(h) /\ name[h] = Nowhere /\ h \notin allocated /\ h \notin shared /\ given[h] = NoText
  BY DEF Made
<1>2. Needed = {} BY <1>1 DEF Needed
<1>3. BlocksOf(Layout) = {} /\ InjectiveOn(Layout) BY <1>2 DEF BlocksOf, InjectiveOn, Layout
<1>4. Nowhere \in Block BY DEF Nowhere, Block
<1>5. MemTypeOK BY <1>4 DEF MemTypeOK
<1>6. Sentinel \in PageIds BY PagesAssumption DEF Sentinel, PageIds
<1>7. HeapTypeOK(Heap)
  <2>1. PageSize \in Nat BY PagesAssumption
  <2>2. pageBusy \in [PageIds -> Nat] /\ pageFreed \in [PageIds -> Nat] BY <2>1 DEF PageIds
  <2>3. Heap \in Heaps BY <1>4, <1>6, <2>1, <2>2 DEF Heap, Heaps
  <2> QED BY <2>1, <2>3, HeapIs DEF HeapTypeOK
<1>8. HeapOK(Heap, {}) BY <1>7, HeapIs DEF HeapOK, Housed, Apart
<1>9. LayoutInv BY <1>1, <1>3, <1>5, <1>8 DEF LayoutInv, Tied, Marked
<1> QED BY <1>1, <1>9 DEF MemInv, NamesInv, Reads

LEMMA EmptyNextRight == Empty' => MemInv'
<1>1. Empty => MemInv BY EmptyRight
<1> QED BY <1>1, PTL

-----------------------------------------------------------------------------
(* What is read.                                                           *)

\* What is written reaches the place it is meant for, and no other.
LEMMA WrittenReads ==
  ASSUME NEW b, NEW text, memory' = Written(name', b, text), NEW g \in Holders, name'[g] # Nowhere
  PROVE  memory'[Place(name'[g])] = IF Place(name'[g]) = Place(b) THEN text ELSE memory[Place(name'[g])]
BY DEF Written

\* The others go on reading what they read.
LEMMA OthersRead ==
  ASSUME NEW b, NEW text, memory' = Written(name', b, text), NEW g \in Holders, Reads(g),
         name'[g] = name[g], given'[g] = given[g], name[g] # Nowhere => Place(name[g]) # Place(b)
  PROVE  Reads(g)'
<1>1. CASE name[g] = Nowhere BY <1>1 DEF Reads
<1>2. CASE name[g] # Nowhere
  <2>1. memory'[Place(name'[g])] = memory[Place(name[g])] BY <1>2, WrittenReads
  <2> QED BY <1>2, <2>1 DEF Reads
<1> QED BY <1>1, <1>2

\* The holder that was given a text reads it.
LEMMA OneReads ==
  ASSUME NEW b, b # Nowhere, NEW text \in Texts, memory' = Written(name', b, text), NEW h \in Holders,
         name'[h] = b, given'[h] = text
  PROVE  Reads(h)'
<1>1. memory'[Place(name'[h])] = text BY WrittenReads
<1> QED BY <1>1 DEF Reads

\* No string is at no place.
LEMMA PlacesReal ==
  ASSUME LayoutInv, NEW g \in Holders, name[g] # Nowhere
  PROVE  Place(name[g]) # Place(Nowhere) /\ name[g].page # Sentinel
<1>1. CASE g \in allocated BY <1>1, WhereThingsAre DEF Place, Nowhere, Sentinel
<1>2. CASE g \notin allocated
  <2>1. name[g].page = FileBuffer BY <1>2 DEF LayoutInv, Tied
  <2> QED BY <2>1, PagesAssumption DEF FileBuffer, Place, Nowhere, Sentinel
<1> QED BY <1>1, <1>2

\* A holder is given a name that no other reads the place of, be it new or be it where
\* the old one was.
LEMMA GivenReads ==
  ASSUME MemInv, LayoutInv', NEW h \in Holders, NEW text \in Texts, NEW b, b # Nowhere,
         name' = [name EXCEPT ![h] = b], memory' = Written(name', b, text),
         given' = [given EXCEPT ![h] = text], h \in allocated' \/ h \notin shared'
  PROVE  NamesInv'
<1>1. name'[h] = b /\ \A g \in Holders : g # h => name'[g] = name[g]
  BY DEF MemInv, LayoutInv, MemTypeOK
<1>2. given' \in [Holders -> Texts \union {NoText}] /\ given'[h] = text
      /\ \A g \in Holders : g # h => given'[g] = given[g]
  BY DEF MemInv, NamesInv
<1>3. ASSUME NEW g \in Holders, g # h, name[g] # Nowhere
      PROVE  Place(name[g]) # Place(b)
  <2>1. Distinct(g, h)' BY PlacesStayDistinct DEF AllDistinct
  <2> QED BY <2>1, <1>1, <1>3 DEF Distinct, Place
<1>4. Reads(h)' BY <1>1, <1>2, OneReads
<1>5. ASSUME NEW g \in Holders, g # h PROVE Reads(g)'
  <2>1. Reads(g) BY DEF MemInv, NamesInv
  <2> QED BY <2>1, <1>1, <1>2, <1>3, <1>5, OthersRead
<1> QED BY <1>2, <1>4, <1>5 DEF NamesInv

\* A holder loses its name.
LEMMA TakenReads ==
  ASSUME MemInv, NEW h \in Holders,
         name' = [name EXCEPT ![h] = Nowhere], memory' = Written(name', Nowhere, NoText),
         given' = [given EXCEPT ![h] = NoText]
  PROVE  NamesInv'
<1>1. name'[h] = Nowhere /\ \A g \in Holders : g # h => name'[g] = name[g]
  BY DEF MemInv, LayoutInv, MemTypeOK
<1>2. given' \in [Holders -> Texts \union {NoText}] /\ given'[h] = NoText
      /\ \A g \in Holders : g # h => given'[g] = given[g]
  BY DEF MemInv, NamesInv
<1>3. Reads(h)' BY <1>1, <1>2 DEF Reads
<1>4. ASSUME NEW g \in Holders, g # h PROVE Reads(g)'
  <2>1. Reads(g) BY DEF MemInv, NamesInv
  <2>2. name[g] # Nowhere => Place(name[g]) # Place(Nowhere) BY PlacesReal DEF MemInv
  <2> QED BY <2>1, <2>2, <1>1, <1>2, <1>4, OthersRead
<1> QED BY <1>2, <1>3, <1>4 DEF NamesInv

LEMMA SameReads ==
  ASSUME NamesInv, UNCHANGED <<name, memory, given>>
  PROVE  NamesInv'
BY DEF NamesInv, Reads

LEMMA ParseKeeps ==
  ASSUME MemInv, NEW h \in Holders, NEW text \in Texts, Parse(h, text)
  PROVE  MemInv'
<1> DEFINE b == [page |-> FileBuffer, at |-> parsed, size |-> 0]
<1>1. /\ ~Made(h) /\ name' = [name EXCEPT ![h] = b] /\ memory' = Written(name', b, text)
      /\ given' = [given EXCEPT ![h] = text] /\ shared' = shared
  BY DEF Parse
<1>2. LayoutInv' BY ParseLays DEF MemInv
<1>3. b # Nowhere BY PagesAssumption DEF Nowhere, FileBuffer
<1>4. h \notin shared' BY <1>1 DEF MemInv, LayoutInv, Tied
<1> HIDE DEF b
<1> QED BY <1>1, <1>2, <1>3, <1>4, GivenReads DEF MemInv

LEMMA OverwriteKeeps ==
  ASSUME MemInv, NEW h \in Holders, NEW text \in Texts, Overwrite(h, text)
  PROVE  MemInv'
<1>1. /\ name[h] # Nowhere /\ h \notin shared /\ memory' = Written(name', name[h], text)
      /\ given' = [given EXCEPT ![h] = text]
      /\ UNCHANGED <<pages, root, pageBusy, pageFreed, busySize, block, name, allocated, shared, parsed>>
  BY DEF Overwrite, strcpy_insitu_allow
<1>2. LayoutInv' BY <1>1, OverwriteLays DEF MemInv
<1>3. name' = [name EXCEPT ![h] = name[h]] BY <1>1 DEF MemInv, LayoutInv, MemTypeOK
<1> QED BY <1>1, <1>2, <1>3, GivenReads DEF MemInv

LEMMA RenameKeeps ==
  ASSUME MemInv, NEW h \in Holders, NEW text \in Texts, Rename(h, text)
  PROVE  MemInv'
<1> DEFINE n == allocate_string(Heap, text)
<1>1. LayoutInv' BY RenameLays DEF MemInv
<1>2. NewString(Heap, h, text) BY DEF Rename
<1>3. CASE n.got = Nowhere
  <2>1. UNCHANGED <<name, memory, given>> BY <1>2, <1>3 DEF NewString
  <2> QED BY <1>1, <2>1, SameReads DEF MemInv
<1>4. CASE n.got # Nowhere
  <2>1. /\ name' = [name EXCEPT ![h] = n.got] /\ memory' = Written(name', n.got, text)
        /\ allocated' = allocated \union {h} /\ given' = [given EXCEPT ![h] = text]
    BY <1>2, <1>4 DEF NewString
  <2>2. h \in allocated' BY <2>1
  <2> HIDE DEF n
  <2> QED BY <1>1, <1>4, <2>1, <2>2, GivenReads DEF MemInv
<1> QED BY <1>3, <1>4

LEMMA CopyHolderKeeps ==
  ASSUME MemInv, NEW h \in Holders, NEW source \in Holders, CopyHolder(h, source)
  PROVE  MemInv'
<1> DEFINE m == allocate_memory(Heap, HolderSize)
           text == TextOf(source)
           n == allocate_string(m, text)
<1>1. LayoutInv' BY CopyLays DEF MemInv
<1>2. CASE ~(name[source] # Nowhere /\ source \in allocated)
  <2>1. /\ name' = [name EXCEPT ![h] = name[source]] /\ given' = [given EXCEPT ![h] = given[source]]
        /\ memory' = memory
    BY <1>2 DEF CopyHolder
  <2>2. name'[h] = name[source] /\ \A g \in Holders : g # h => name'[g] = name[g]
    BY <2>1 DEF MemInv, LayoutInv, MemTypeOK
  <2>3. given' \in [Holders -> Texts \union {NoText}] /\ given'[h] = given[source]
        /\ \A g \in Holders : g # h => given'[g] = given[g]
    BY <2>1 DEF MemInv, NamesInv
  <2>4. ASSUME NEW g \in Holders PROVE Reads(g)'
    <3>1. Reads(g) /\ Reads(source) BY DEF MemInv, NamesInv
    <3> QED BY <3>1, <2>1, <2>2, <2>3 DEF Reads
  <2> QED BY <1>1, <2>3, <2>4 DEF MemInv, NamesInv
<1>3. CASE name[source] # Nowhere /\ source \in allocated
  <2>1. NewString(m, h, text) BY <1>3 DEF CopyHolder
  <2>2. text \in Texts BY <1>3 DEF MemInv, NamesInv, Reads, TextOf
  <2> HIDE DEF m, text
  <2>3. CASE n.got = Nowhere
    <3>1. UNCHANGED <<name, memory, given>> BY <2>1, <2>3 DEF NewString
    <3> QED BY <1>1, <3>1, SameReads DEF MemInv
  <2>4. CASE n.got # Nowhere
    <3>1. /\ name' = [name EXCEPT ![h] = n.got] /\ memory' = Written(name', n.got, text)
          /\ allocated' = allocated \union {h} /\ given' = [given EXCEPT ![h] = text]
      BY <2>1, <2>4 DEF NewString
    <3>2. h \in allocated' BY <3>1
    <3> HIDE DEF n
    <3> QED BY <1>1, <2>2, <2>4, <3>1, <3>2, GivenReads DEF MemInv
  <2> QED BY <2>3, <2>4
<1> QED BY <1>2, <1>3

LEMMA MemStep == MemInv /\ [PagesNext]_pagesVars => MemInv'
<1> SUFFICES ASSUME MemInv, [PagesNext]_pagesVars PROVE MemInv' OBVIOUS
<1>1. ASSUME NEW h \in Holders, Add(h) PROVE MemInv'
  BY <1>1, AddLays, SameReads DEF MemInv, Add
<1>2. ASSUME NEW h \in Holders, Unname(h) PROVE MemInv'
  BY <1>2, UnnameLays, TakenReads DEF MemInv, Unname
<1>3. ASSUME NEW h \in Holders, DestroyHolder(h) PROVE MemInv'
  BY <1>3, DestroyLays, TakenReads DEF MemInv, DestroyHolder
<1>4. ASSUME NEW h \in Holders, NEW source \in Holders, CopyHolder(h, source) PROVE MemInv'
  BY <1>4, CopyHolderKeeps
<1>5. ASSUME NEW h \in Holders, NEW text \in Texts, Parse(h, text) \/ Overwrite(h, text) \/ Rename(h, text)
      PROVE  MemInv'
  BY <1>5, ParseKeeps, OverwriteKeeps, RenameKeeps
<1>6. CASE Reset
  <2>1. Empty' BY <1>6 DEF Reset, Empty
  <2> QED BY <2>1, EmptyNextRight
<1>7. CASE UNCHANGED pagesVars
  <2>1. UNCHANGED <<pages, root, pageBusy, pageFreed, busySize, block, name, allocated, shared, parsed>>
        /\ UNCHANGED <<name, memory, given>>
    BY <1>7 DEF pagesVars
  <2> QED BY <2>1, OverwriteLays, SameReads DEF MemInv
<1> QED BY <1>1, <1>2, <1>3, <1>4, <1>5, <1>6, <1>7 DEF PagesNext

LEMMA MemInvRight == MemInv => MemoryRight
<1> SUFFICES ASSUME MemInv PROVE MemoryRight OBVIOUS
<1>1. LayoutInv /\ NamesInv /\ HeapOK(Heap, BlocksOf(Layout)) /\ InjectiveOn(Layout) BY DEF MemInv, LayoutInv
<1>2. NamesKept BY <1>1 DEF NamesKept, NamesInv, Reads, TextOf
<1>3. DOMAIN Layout = Needed /\ \A u \in Needed : Layout[u] = BlockOf(u) /\ BlockOf(u) \in BlocksOf(Layout)
  BY DEF Layout, BlocksOf
<1>4. \A i : FilledIn(Heap, i) = Filled(i) BY HeapIs DEF FilledIn, Filled
<1>5. \A i : Bytes(BlocksOf(Layout), i) = BytesNeeded(i) BY <1>3 DEF Bytes, BytesNeeded, BlocksOf
<1>6. NothingReused
  <2>1. ASSUME NEW u \in Needed
        PROVE  BlockOf(u).page \in pages /\ BytesOf(BlockOf(u)) \subseteq 0 .. Filled(BlockOf(u).page) - 1
    <3> DEFINE b == BlockOf(u)
               f == Filled(b.page)
    <3>1. /\ b \in Block /\ b.page \in pages /\ b.at + b.size <= f
      BY <1>1, <1>3, <1>4, HeapIs DEF HeapOK, Housed
    <3>2. f \in Nat
      <4>1. pages \subseteq PageIds /\ pageBusy \in [PageIds -> Nat] /\ busySize \in Nat
        BY <1>1, HeapIs DEF HeapOK, HeapTypeOK, Heaps
      <4> QED BY <3>1, <4>1 DEF Filled
    <3> HIDE DEF b, f
    <3> QED BY <3>1, <3>2, BytesAre DEF b, f
  <2>2. ASSUME NEW u \in Needed, NEW v \in Needed, u # v, BlockOf(u).page = BlockOf(v).page
        PROVE  BytesOf(BlockOf(u)) \cap BytesOf(BlockOf(v)) = {}
    BY <1>1, <1>3, <2>2 DEF InjectiveOn, HeapOK, Apart
  <2> QED BY <2>1, <2>2 DEF NothingReused
<1>7. PagesAccounted
  <2>1. ASSUME NEW i \in pages \ {Sentinel}
        PROVE  Filled(i) - pageFreed[i] = Cardinality(BytesNeeded(i)) /\ (i # root => BytesNeeded(i) # {})
    <3>1. Counts(Heap, BlocksOf(Layout), i) BY <1>1, HeapIs DEF HeapOK
    <3> QED BY <3>1, <1>4, <1>5, HeapIs DEF Counts
  <2>2. Needed # {} => root # Sentinel BY <1>1, <1>3, HeapIs DEF HeapOK, Housed
  <2> QED BY <2>1, <2>2 DEF PagesAccounted
<1> QED BY <1>2, <1>6, <1>7 DEF MemoryRight

\* Whatever is added, parsed, renamed, copied and removed, and however many pages there
\* are: every holder reads the name it was given last, no block that is needed overlaps
\* another or lies outside what its page has handed out, and a page is given back when,
\* and only when, nothing in it is needed (xml_allocator, strcpy_insitu).
THEOREM MemoryStaysRight == PagesSpec => []MemoryRight
<1>1. PagesInit => MemInv
  <2>1. PagesInit => Empty BY DEF PagesInit, Empty
  <2> QED BY <2>1, EmptyRight
<1> QED BY <1>1, MemStep, MemInvRight, PTL DEF PagesSpec
=============================================================================
