---------------------------- MODULE SharedMemory ----------------------------
(***************************************************************************)
(* The shared memory a program and the processes it starts may use         *)
(* (common/shmm.hpp): SharedMemoryProducer::create, write and destroy,     *)
(* SharedMemoryConsumer::init, update and destroy, on one key, with the    *)
(* kernel's segments below them.                                           *)
(*                                                                         *)
(* create makes three calls, look, remove, get, and two producers may be   *)
(* in the middle of them.  Data is copied without a semaphore, so a copy   *)
(* is two steps here, one for each half of it.  A program has one of these *)
(* objects at a time: it may destroy the object and make another one, and  *)
(* it may be killed anywhere, when the kernel detaches it and its segment  *)
(* stays.                                                                  *)
(***************************************************************************)
EXTENDS Naturals, FiniteSets

CONSTANTS
  Producers, Consumers,
  Keeping,      \* the producers that are constructed with __destroy = false
  Hasty,        \* the consumers that are constructed with __waitInit = false
  MaxSegments,  \* bound: segments that are made
  MaxWrites,    \* bound: values that are written
  MaxAttached   \* bound: how often a consumer has one segment attached

ASSUME SharedMemoryAssumption ==
  /\ Producers \cap Consumers = {} /\ IsFiniteSet(Producers \union Consumers)
  /\ Keeping \subseteq Producers /\ Hasty \subseteq Consumers
  /\ MaxSegments \in Nat /\ MaxWrites \in Nat /\ MaxAttached \in Nat

Programs == Producers \union Consumers
Segments == 1 .. MaxSegments
None == 0
Halves == {1, 2}

VARIABLES
  made,      \* how many segments there have been
  keyed,     \* the segment the key leads to, or None
  data,      \* the two halves of each segment: the number of a write, 0 at first
  shmStep,   \* the call a program is in, "idle" between calls
  seen,      \* the local id of CreateSharedMemory: what it has found, and will remove
  shmId,     \* its _shmId, None for -1
  mapped,    \* the segment its _shmDataPtr points into, None for nowhere
  attached,  \* how often the kernel has each segment attached to each program
  created,   \* _created
  value,     \* its Data
  writes,    \* values that have been given out to producers
  writers,   \* history: the producers that have attached a segment
  floor,     \* history: the last write whose copy was complete when a read began
  finished,  \* history: the last write to a segment whose copy is complete
  raced,     \* history: two producers have been inside create at once
  orphans    \* history: segments whose producer was killed, forgot them or was to keep them

shmKernel == <<made, keyed>>
shmHistory == <<writers, floor, finished, raced, orphans>>
shmVars == <<made, keyed, data, shmStep, seen, shmId, mapped, attached, created, value, writes,
             writers, floor, finished, raced, orphans>>

Zero == [h \in Halves |-> 0]

ShmInit ==
  /\ made = 0 /\ keyed = None
  /\ data = [s \in Segments |-> Zero]
  /\ shmStep = [p \in Programs |-> "idle"] /\ seen = [p \in Programs |-> None]
  /\ shmId = [p \in Programs |-> None] /\ mapped = [p \in Programs |-> None]
  /\ created = [p \in Programs |-> FALSE]
  /\ value = [p \in Programs |-> Zero]
  /\ writes = 0
  /\ writers = [s \in Segments |-> {}]
  /\ floor = [p \in Programs |-> 0] /\ finished = [s \in Segments |-> 0]
  /\ raced = FALSE /\ orphans = {}
  /\ attached = [p \in Programs |-> [s \in Segments |-> 0]]

Enter(p, step) == shmStep' = [shmStep EXCEPT ![p] = step]
At(p, step) == shmStep[p] = step

\* The segment of a producer, from shmget on.
Owns(p) == created[p] \/ At(p, "attach")

\* Data is given its next value, which create or write then copies.
NextValue(p) ==
  /\ writes < MaxWrites
  /\ writes' = writes + 1
  /\ value' = [value EXCEPT ![p] = [h \in Halves |-> writes + 1]]

-----------------------------------------------------------------------------
(* The kernel's calls.                                                     *)

\* A segment is there while the key leads to it or a program is attached to it.
There(s) == keyed = s \/ \E p \in Programs : attached[p][s] > 0

\* IPC_RMID: the key no longer leads to the segment, which lives on while a program
\* is attached to it.
RemoveSegment(s) == keyed' = IF keyed = s THEN None ELSE keyed

Attach(p, s) == attached' = [attached EXCEPT ![p][s] = @ + 1]
Detach(p) == attached' = [attached EXCEPT ![p][mapped[p]] = @ - 1]

-----------------------------------------------------------------------------
(* The producer.                                                           *)

\* create: CreateSharedMemory looks for a segment of the key.  A producer that has
\* one forgets it: create returns false and says so in _created.
CreateLook(p) ==
  /\ At(p, "idle")
  /\ IF created[p]
     THEN /\ created' = [created EXCEPT ![p] = FALSE]
          /\ orphans' = orphans \union {shmId[p]}
          /\ UNCHANGED <<shmStep, seen, value, writes, raced>>
     ELSE /\ NextValue(p)
          /\ seen' = [seen EXCEPT ![p] = keyed]
          /\ Enter(p, IF keyed = None THEN "get" ELSE "remove")
          /\ raced' = (raced \/ \E q \in Producers : shmStep[q] \in {"remove", "get", "attach"})
          /\ UNCHANGED <<created, orphans>>
  /\ UNCHANGED <<shmKernel, data, shmId, mapped, attached, writers, floor, finished>>

\* Mutant of CreateRemove: the argument _overide is looked at, and is false.
CreateRemoveNot(p) ==
  /\ At(p, "remove")
  /\ Enter(p, "get")
  /\ seen' = [seen EXCEPT ![p] = None]
  /\ UNCHANGED <<shmKernel, data, shmId, mapped, attached, created, value, writes, shmHistory>>

CreateRemove(p) ==
  /\ At(p, "remove")
  /\ RemoveSegment(seen[p])
  /\ Enter(p, "get") /\ seen' = [seen EXCEPT ![p] = None]
  /\ UNCHANGED <<made, data, shmId, mapped, attached, created, value, writes, shmHistory>>

\* shmget with IPC_CREAT but not IPC_EXCL: a segment another producer has made in
\* the meantime will do.
CreateGet(p) ==
  /\ At(p, "get")
  /\ IF keyed # None
     THEN shmId' = [shmId EXCEPT ![p] = keyed] /\ UNCHANGED <<made, keyed>>
     ELSE /\ made < MaxSegments
          /\ made' = made + 1 /\ keyed' = made + 1
          /\ shmId' = [shmId EXCEPT ![p] = made + 1]
  /\ Enter(p, "attach")
  /\ UNCHANGED <<data, seen, mapped, attached, created, value, writes, shmHistory>>

CreateAttach(p) ==
  /\ At(p, "attach")
  /\ IF There(shmId[p])
     THEN /\ mapped' = [mapped EXCEPT ![p] = shmId[p]]
          /\ Attach(p, shmId[p])
          /\ writers' = [writers EXCEPT ![shmId[p]] = @ \union {p}]
          /\ created' = [created EXCEPT ![p] = TRUE]
          /\ Enter(p, "copy1")
     ELSE /\ mapped' = [mapped EXCEPT ![p] = None]
          /\ Enter(p, "idle") /\ UNCHANGED <<attached, writers, created>>
  /\ UNCHANGED <<shmKernel, data, seen, shmId, value, writes, floor, finished, raced, orphans>>

\* write, of a new value of Data.
Write(p) ==
  /\ At(p, "idle") /\ created[p]
  /\ NextValue(p)
  /\ Enter(p, "copy1")
  /\ UNCHANGED <<shmKernel, data, seen, shmId, mapped, attached, created, shmHistory>>

\* *_shmDataPtr = Data, a half at a time.
CopyOut(p, h) ==
  /\ At(p, IF h = 1 THEN "copy1" ELSE "copy2")
  /\ data' = [data EXCEPT ![mapped[p]][h] = value[p][h]]
  /\ Enter(p, IF h = 1 THEN "copy2" ELSE "idle")
  /\ finished' = IF h = 1 THEN finished ELSE [finished EXCEPT ![mapped[p]] = value[p][1]]
  /\ UNCHANGED <<shmKernel, seen, shmId, mapped, attached, created, value, writes, writers, floor, raced, orphans>>

\* Mutant of DestroyProducer: the segment is left to the kernel.
DestroyDetachesOnly(p) ==
  /\ At(p, "idle") /\ created[p]
  /\ Detach(p)
  /\ created' = [created EXCEPT ![p] = FALSE]
  /\ UNCHANGED <<shmKernel, data, shmStep, seen, shmId, mapped, value, writes, shmHistory>>

\* destroy.
DestroyProducer(p) ==
  /\ At(p, "idle") /\ created[p]
  /\ Detach(p) /\ RemoveSegment(shmId[p])
  /\ created' = [created EXCEPT ![p] = FALSE]
  /\ UNCHANGED <<made, data, shmStep, seen, shmId, mapped, value, writes, shmHistory>>

\* The object is gone, and the program has a new one.
NewObject(p) ==
  /\ shmId' = [shmId EXCEPT ![p] = None] /\ mapped' = [mapped EXCEPT ![p] = None]
  /\ created' = [created EXCEPT ![p] = FALSE]
  /\ value' = [value EXCEPT ![p] = Zero]

\* The destructor: destroy, if the producer was not constructed to keep the segment,
\* which stays attached otherwise.
EndProducer(p) ==
  /\ At(p, "idle") /\ NewObject(p)
  /\ IF created[p] /\ p \notin Keeping
     THEN Detach(p) /\ RemoveSegment(shmId[p])
     ELSE UNCHANGED <<attached, keyed>>
  /\ orphans' = orphans \union (IF created[p] /\ p \in Keeping THEN {shmId[p]} ELSE {})
  /\ UNCHANGED <<made, data, shmStep, seen, writes, writers, floor, finished, raced>>

-----------------------------------------------------------------------------
(* The consumer.                                                           *)

\* init with _waitInit looks for the segment until there is one.  One that is called
\* again does the same, and does not detach what it has.
InitLook(c) ==
  /\ c \notin Hasty /\ At(c, "idle")
  /\ keyed # None /\ attached[c][keyed] < MaxAttached
  /\ shmId' = [shmId EXCEPT ![c] = keyed]
  /\ Enter(c, "attach")
  /\ UNCHANGED <<shmKernel, data, seen, mapped, attached, created, value, writes, shmHistory>>

\* init without _waitInit looks once, and does not attach what it has found.
InitHasty(c) ==
  /\ c \in Hasty /\ At(c, "idle")
  /\ shmId' = [shmId EXCEPT ![c] = keyed]
  /\ created' = [created EXCEPT ![c] = keyed # None]
  /\ UNCHANGED <<shmKernel, data, shmStep, seen, mapped, attached, value, writes, shmHistory>>

BeginRead(c, s) ==
  /\ floor' = [floor EXCEPT ![c] = finished[s]]
  /\ Enter(c, "read1")

InitAttach(c) ==
  /\ At(c, "attach")
  /\ IF There(shmId[c])
     THEN /\ mapped' = [mapped EXCEPT ![c] = shmId[c]]
          /\ Attach(c, shmId[c])
          /\ created' = [created EXCEPT ![c] = TRUE]
          /\ BeginRead(c, shmId[c])
     ELSE /\ mapped' = [mapped EXCEPT ![c] = None]
          /\ created' = [created EXCEPT ![c] = FALSE]
          /\ Enter(c, "idle") /\ UNCHANGED <<attached, floor>>
  /\ UNCHANGED <<shmKernel, data, seen, shmId, value, writes, writers, finished, raced, orphans>>

Update(c) ==
  /\ c \notin Hasty /\ At(c, "idle") /\ created[c]
  /\ BeginRead(c, mapped[c])
  /\ UNCHANGED <<shmKernel, data, seen, shmId, mapped, attached, created, value, writes, writers,
                 finished, raced, orphans>>

\* update of a consumer that has not attached: the pointer has never been set, and
\* unless the program dies of it (KillProgram), Data is whatever lies there, one of two
\* values here.
UpdateHasty(c) ==
  /\ c \in Hasty /\ At(c, "idle") /\ created[c]
  /\ \E n \in {0, MaxWrites} : value' = [value EXCEPT ![c] = [h \in Halves |-> n]]
  /\ UNCHANGED <<shmKernel, data, shmStep, seen, shmId, mapped, attached, created, writes, shmHistory>>

\* Mutant of Read: only the first half is copied.
ReadHalf(c, h) ==
  /\ At(c, IF h = 1 THEN "read1" ELSE "read2")
  /\ value' = IF h = 1 THEN [value EXCEPT ![c][1] = data[mapped[c]][1]] ELSE value
  /\ Enter(c, IF h = 1 THEN "read2" ELSE "idle")
  /\ UNCHANGED <<shmKernel, data, seen, shmId, mapped, attached, created, writes, shmHistory>>

\* Data = *_shmDataPtr, a half at a time.
Read(c, h) ==
  /\ At(c, IF h = 1 THEN "read1" ELSE "read2")
  /\ value' = [value EXCEPT ![c][h] = data[mapped[c]][h]]
  /\ Enter(c, IF h = 1 THEN "read2" ELSE "idle")
  /\ UNCHANGED <<shmKernel, data, seen, shmId, mapped, attached, created, writes, shmHistory>>

\* shmdt of a pointer that was never set detaches nothing.
DetachConsumer(c) == IF created[c] /\ c \notin Hasty THEN Detach(c) ELSE UNCHANGED attached

DestroyConsumer(c) ==
  /\ At(c, "idle") /\ created[c]
  /\ DetachConsumer(c)
  /\ created' = [created EXCEPT ![c] = FALSE]
  /\ UNCHANGED <<shmKernel, data, shmStep, seen, shmId, mapped, value, writes, shmHistory>>

\* The destructor: destroy.
EndConsumer(c) ==
  /\ At(c, "idle") /\ NewObject(c)
  /\ DetachConsumer(c)
  /\ UNCHANGED <<shmKernel, data, shmStep, seen, writes, shmHistory>>

\* A program is killed, and started again: the kernel detaches it.
KillProgram(p) ==
  /\ Enter(p, "idle") /\ NewObject(p)
  /\ seen' = [seen EXCEPT ![p] = None]
  /\ attached' = [attached EXCEPT ![p] = [s \in Segments |-> 0]]
  /\ orphans' = orphans \union (IF p \in Producers /\ Owns(p) THEN {shmId[p]} ELSE {})
  /\ UNCHANGED <<shmKernel, data, writes, writers, floor, finished, raced>>

-----------------------------------------------------------------------------
ProducerNext(p) ==
  \/ CreateLook(p) \/ CreateRemove(p) \/ CreateGet(p) \/ CreateAttach(p)
  \/ Write(p) \/ DestroyProducer(p) \/ EndProducer(p) \/ \E h \in Halves : CopyOut(p, h)

ConsumerNext(c) ==
  \/ InitLook(c) \/ InitAttach(c) \/ Update(c) \/ \E h \in Halves : Read(c, h)
  \/ InitHasty(c) \/ UpdateHasty(c) \/ DestroyConsumer(c) \/ EndConsumer(c)

ShmNext ==
  \/ \E p \in Producers : ProducerNext(p)
  \/ \E c \in Consumers : ConsumerNext(c)
  \/ \E p \in Programs : KillProgram(p)

ShmSpec == ShmInit /\ [][ShmNext]_shmVars

-----------------------------------------------------------------------------
(* Properties.                                                             *)

\* What a consumer that has waited for its segment reads may be torn, but each half
\* of it is as recent as the last write that had ended when the read began, as long
\* as one producer alone has had the segment.  One that does not wait reads from a
\* pointer that is not set, and nothing is said of it.
ReadsAreRecent ==
  \A c \in Consumers \ Hasty :
    At(c, "idle") /\ created[c] /\ Cardinality(writers[mapped[c]]) = 1 =>
      \A h \in Halves : value[c][h] >= floor[c]

\* Two producers share a segment only if they were inside create at once; one that
\* comes later takes the key and leaves the segment to those who have it.
SegmentsNotShared ==
  ~raced => \A p, q \in Producers :
              created[p] /\ created[q] /\ mapped[p] = mapped[q] => p = q

\* A segment that can be found is in the hands of a producer, however the calls of
\* several producers are mixed, unless the one that had it was killed, called create
\* again, which makes it forget the segment, or was constructed to keep it and is gone.
SegmentsRemoved ==
  keyed \in {None} \union orphans \union {shmId[p] : p \in {q \in Producers : Owns(q)}}

\* What producers and consumers that do not wait for each other may still rely on: a
\* consumer goes forward in time, a producer has its segment to itself, and no segment
\* is left behind but in the ways named (create, init, destroy, update, destructors).
SegmentsReliable == ReadsAreRecent /\ SegmentsNotShared /\ SegmentsRemoved
=============================================================================
