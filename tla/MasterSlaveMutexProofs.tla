------------------------ MODULE MasterSlaveMutexProofs ------------------------
(* Proofs about MasterSlaveMutex for any sets of primaries and secondaries. *)
EXTENDS MasterSlaveMutex, TLAPS

\* The inductive invariant: the mutex has the owner the program counters say,
\* and every flag that is set has a thread that is going to clear it.
IInv == MutexTypeOK /\ OwnerInside /\ FlagsJustified

-----------------------------------------------------------------------------
(* Each conjunct of IInv is preserved by every step.                       *)

\* Every load, store, lock and unlock keeps the types.
LEMMA TypeStep == MutexTypeOK /\ [MutexNext]_mutexVars => MutexTypeOK'
<1> SUFFICES ASSUME MutexTypeOK, [MutexNext]_mutexVars PROVE MutexTypeOK'
  OBVIOUS
<1>1. ASSUME NEW p \in Primaries, PrimaryTry(p) PROVE MutexTypeOK'
  BY <1>1, ThreadsAssumption
     DEF PrimaryTry, Step, MutexTypeOK, flags, Threads, PrimaryPC
<1>2. ASSUME NEW p \in Primaries, PrimaryRun(p) PROVE MutexTypeOK'
  BY <1>2, ThreadsAssumption
     DEF PrimaryRun, PrimaryAsk, Lock, SetLocked, PrimaryClearWaiting, PrimarySet,
         Unlock, ClearLocked, PrimaryClear, Step, MutexTypeOK, flags, Threads, PrimaryPC
<1>3. ASSUME NEW s \in Secondaries, SecondaryRun(s) PROVE MutexTypeOK'
  BY <1>3, ThreadsAssumption
     DEF SecondaryRun, SecondaryTry, SecondaryReadLocked, SetLocked, SecondarySet,
         Lock, Unlock, ClearLocked, SecondaryClear, Step, MutexTypeOK, flags, Threads,
         SecondaryPC
<1>4. CASE UNCHANGED mutexVars
  BY <1>4 DEF mutexVars, MutexTypeOK, Threads
<1> QED BY <1>1, <1>2, <1>3, <1>4 DEF MutexNext

\* A thread becomes the owner with _Mtx.lock() and stops being it with _Mtx.unlock().
LEMMA OwnerStep == MutexTypeOK /\ OwnerInside /\ [MutexNext]_mutexVars => OwnerInside'
<1> SUFFICES ASSUME MutexTypeOK, OwnerInside, [MutexNext]_mutexVars PROVE OwnerInside'
  OBVIOUS
<1> USE DEF OwnerInside, OwnsMutex, MutexTypeOK, Threads
<1>1. ASSUME NEW p \in Primaries, PrimaryTry(p) PROVE OwnerInside'
  BY <1>1, ThreadsAssumption DEF PrimaryTry, Step
<1>2. ASSUME NEW p \in Primaries, PrimaryRun(p) PROVE OwnerInside'
  <2>1. CASE PrimaryAsk(p)
    BY <2>1, ThreadsAssumption DEF PrimaryAsk, Step
  <2>2. CASE Lock(p, "setLocked")
    BY <2>2, ThreadsAssumption DEF Lock, Step
  <2>3. CASE SetLocked(p, "clearWaiting")
    BY <2>3, ThreadsAssumption DEF SetLocked, Step
  <2>4. CASE PrimaryClearWaiting(p)
    BY <2>4, ThreadsAssumption DEF PrimaryClearWaiting, Step
  <2>5. CASE PrimarySet(p)
    BY <2>5, ThreadsAssumption DEF PrimarySet, Step
  <2>6. CASE Unlock(p)
    BY <2>6, ThreadsAssumption DEF Unlock, Step
  <2>7. CASE ClearLocked(p, "clearPrimary")
    BY <2>7, ThreadsAssumption DEF ClearLocked, Step
  <2>8. CASE PrimaryClear(p)
    BY <2>8, ThreadsAssumption DEF PrimaryClear, Step
  <2> QED BY <1>2, <2>1, <2>2, <2>3, <2>4, <2>5, <2>6, <2>7, <2>8 DEF PrimaryRun
<1>3. ASSUME NEW s \in Secondaries, SecondaryRun(s) PROVE OwnerInside'
  <2>1. CASE SecondaryTry(s)
    BY <2>1, ThreadsAssumption DEF SecondaryTry, Step
  <2>2. CASE SecondaryReadLocked(s)
    BY <2>2, ThreadsAssumption DEF SecondaryReadLocked, Step
  <2>3. CASE SetLocked(s, "setSecondary")
    BY <2>3, ThreadsAssumption DEF SetLocked, Step
  <2>4. CASE SecondarySet(s)
    BY <2>4, ThreadsAssumption DEF SecondarySet, Step
  <2>5. CASE Lock(s, "critical")
    BY <2>5, ThreadsAssumption DEF Lock, Step
  <2>6. CASE Unlock(s)
    BY <2>6, ThreadsAssumption DEF Unlock, Step
  <2>7. CASE ClearLocked(s, "clearSecondary")
    BY <2>7, ThreadsAssumption DEF ClearLocked, Step
  <2>8. CASE SecondaryClear(s)
    BY <2>8, ThreadsAssumption DEF SecondaryClear, Step
  <2> QED BY <1>3, <2>1, <2>2, <2>3, <2>4, <2>5, <2>6, <2>7, <2>8 DEF SecondaryRun
<1>4. CASE UNCHANGED mutexVars
  BY <1>4 DEF mutexVars
<1> QED BY <1>1, <1>2, <1>3, <1>4 DEF MutexNext

\* A store of TRUE is made by a thread that then owes the store of FALSE, and only
\* such a store ends the debt.
LEMMA FlagsStep == MutexTypeOK /\ FlagsJustified /\ [MutexNext]_mutexVars => FlagsJustified'
<1> SUFFICES ASSUME MutexTypeOK, FlagsJustified, [MutexNext]_mutexVars PROVE FlagsJustified'
  OBVIOUS
<1> USE DEF FlagsJustified, OwesLocked, OwesPrimary, OwesWaiting, OwesSecondary,
            MutexTypeOK, Threads, flags
<1>1. ASSUME NEW p \in Primaries, PrimaryTry(p) PROVE FlagsJustified'
  BY <1>1, ThreadsAssumption DEF PrimaryTry, Step
<1>2. ASSUME NEW p \in Primaries, PrimaryRun(p) PROVE FlagsJustified'
  <2>1. CASE PrimaryAsk(p)
    BY <2>1, ThreadsAssumption DEF PrimaryAsk, Step
  <2>2. CASE Lock(p, "setLocked")
    BY <2>2, ThreadsAssumption DEF Lock, Step
  <2>3. CASE SetLocked(p, "clearWaiting")
    BY <2>3, ThreadsAssumption DEF SetLocked, Step
  <2>4. CASE PrimaryClearWaiting(p)
    BY <2>4, ThreadsAssumption DEF PrimaryClearWaiting, Step
  <2>5. CASE PrimarySet(p)
    BY <2>5, ThreadsAssumption DEF PrimarySet, Step
  <2>6. CASE Unlock(p)
    BY <2>6, ThreadsAssumption DEF Unlock, Step
  <2>7. CASE ClearLocked(p, "clearPrimary")
    BY <2>7, ThreadsAssumption DEF ClearLocked, Step
  <2>8. CASE PrimaryClear(p)
    BY <2>8, ThreadsAssumption DEF PrimaryClear, Step
  <2> QED BY <1>2, <2>1, <2>2, <2>3, <2>4, <2>5, <2>6, <2>7, <2>8 DEF PrimaryRun
<1>3. ASSUME NEW s \in Secondaries, SecondaryRun(s) PROVE FlagsJustified'
  <2>1. CASE SecondaryTry(s)
    BY <2>1, ThreadsAssumption DEF SecondaryTry, Step
  <2>2. CASE SecondaryReadLocked(s)
    BY <2>2, ThreadsAssumption DEF SecondaryReadLocked, Step
  <2>3. CASE SetLocked(s, "setSecondary")
    BY <2>3, ThreadsAssumption DEF SetLocked, Step
  <2>4. CASE SecondarySet(s)
    BY <2>4, ThreadsAssumption DEF SecondarySet, Step
  <2>5. CASE Lock(s, "critical")
    BY <2>5, ThreadsAssumption DEF Lock, Step
  <2>6. CASE Unlock(s)
    BY <2>6, ThreadsAssumption DEF Unlock, Step
  <2>7. CASE ClearLocked(s, "clearSecondary")
    BY <2>7, ThreadsAssumption DEF ClearLocked, Step
  <2>8. CASE SecondaryClear(s)
    BY <2>8, ThreadsAssumption DEF SecondaryClear, Step
  <2> QED BY <1>3, <2>1, <2>2, <2>3, <2>4, <2>5, <2>6, <2>7, <2>8 DEF SecondaryRun
<1>4. CASE UNCHANGED mutexVars
  BY <1>4 DEF mutexVars
<1> QED BY <1>1, <1>2, <1>3, <1>4 DEF MutexNext

-----------------------------------------------------------------------------
(* The safety theorems.                                                    *)

\* The constructor establishes the invariant.
LEMMA InitIInv == MutexInit => IInv
BY ThreadsAssumption
   DEF MutexInit, IInv, MutexTypeOK, OwnerInside, OwnsMutex, FlagsJustified, Threads,
       PrimaryPC, SecondaryPC

\* IInv is inductive, so it holds in every reachable state.
LEMMA Invariance == MutexSpec => []IInv
<1>1. IInv /\ [MutexNext]_mutexVars => IInv'
  BY TypeStep, OwnerStep, FlagsStep DEF IInv
<1> QED BY InitIInv, <1>1, PTL DEF MutexSpec

\* The flags are booleans, the owner a thread or nobody, and every thread is
\* at a step of the function it calls.
THEOREM TypeCorrect == MutexSpec => []MutexTypeOK
<1>1. IInv => MutexTypeOK
  BY DEF IInv
<1> QED BY Invariance, <1>1, PTL

\* At most one thread is between lock and unlock, whichever mix of primaries
\* and secondaries calls the lock.
THEOREM Exclusion == MutexSpec => []MutualExclusion
<1>1. IInv => MutualExclusion
  BY DEF IInv, MutexTypeOK, OwnerInside, OwnsMutex, MutualExclusion, Threads
<1> QED BY Invariance, <1>1, PTL

\* No flag stays set without a thread that will clear it, so no sequence of
\* calls leaves the lock refusing commands or keeping the poll thread out.
THEOREM FlagsSettle == MutexSpec => []FlagsJustified
<1>1. IInv => FlagsJustified
  BY DEF IInv
<1> QED BY Invariance, <1>1, PTL

-----------------------------------------------------------------------------
(* One primary: what the server has, since server.cpp serves one client at *)
(* a time.                                                                 *)

SinglePrimary == \A p, q \in Primaries : p = q

\* With one primary, only the waiting thread itself lowers _isPrimaryWaiting.
LEMMA VisibleStep ==
  SinglePrimary /\ MutexTypeOK /\ WaitingVisible /\ [MutexNext]_mutexVars => WaitingVisible'
<1> SUFFICES ASSUME SinglePrimary, MutexTypeOK, WaitingVisible, [MutexNext]_mutexVars
             PROVE  WaitingVisible'
  OBVIOUS
<1> USE DEF WaitingVisible, OwesWaiting, MutexTypeOK, Threads, flags
<1>1. ASSUME NEW p \in Primaries, PrimaryTry(p) PROVE WaitingVisible'
  BY <1>1, ThreadsAssumption DEF PrimaryTry, Step
<1>2. ASSUME NEW p \in Primaries, PrimaryRun(p) PROVE WaitingVisible'
  <2>1. CASE PrimaryAsk(p)
    BY <2>1, ThreadsAssumption DEF PrimaryAsk, Step
  <2>2. CASE PrimaryClearWaiting(p)
    BY <2>2, ThreadsAssumption DEF PrimaryClearWaiting, Step, SinglePrimary
  <2>3. CASE PrimarySet(p) \/ PrimaryClear(p)
    BY <2>3, ThreadsAssumption DEF PrimarySet, PrimaryClear, Step
  <2>4. CASE Lock(p, "setLocked") \/ Unlock(p)
    BY <2>4, ThreadsAssumption DEF Lock, Unlock, Step
  <2>5. CASE SetLocked(p, "clearWaiting") \/ ClearLocked(p, "clearPrimary")
    BY <2>5, ThreadsAssumption DEF SetLocked, ClearLocked, Step
  <2> QED BY <1>2, <2>1, <2>2, <2>3, <2>4, <2>5 DEF PrimaryRun
<1>3. ASSUME NEW s \in Secondaries, SecondaryRun(s) PROVE WaitingVisible'
  <2>1. isPrimaryWaiting' = isPrimaryWaiting
    BY <1>3 DEF SecondaryRun, SecondaryTry, SecondaryReadLocked, SetLocked,
                SecondarySet, Lock, Unlock, ClearLocked, SecondaryClear
  <2>2. \A p \in Primaries : pc'[p] = pc[p]
    BY <1>3, ThreadsAssumption
       DEF SecondaryRun, SecondaryTry, SecondaryReadLocked, SetLocked,
           SecondarySet, Lock, Unlock, ClearLocked, SecondaryClear, Step
  <2> QED BY <2>1, <2>2
<1>4. CASE UNCHANGED mutexVars
  BY <1>4 DEF mutexVars
<1> QED BY <1>1, <1>2, <1>3, <1>4 DEF MutexNext

\* Nobody waits after the constructor.
LEMMA InitVisible == MutexInit => WaitingVisible
BY DEF MutexInit, WaitingVisible, OwesWaiting, Threads

\* With one primary, a handler that waits for the mutex is always seen to wait
\* by lockSecondary and by the poll loop's isPrimaryWaiting() test.
THEOREM WaitingSeen ==
  ASSUME SinglePrimary
  PROVE  MutexSpec => []WaitingVisible
<1>1. MutexTypeOK /\ WaitingVisible /\ [MutexNext]_mutexVars => WaitingVisible'
  BY VisibleStep
<1> QED BY TypeCorrect, InitVisible, <1>1, PTL DEF MutexSpec

-----------------------------------------------------------------------------
(* Refinement: every step of the code is a step of PriorityLock or leaves  *)
(* the abstract lock alone.                                                *)

AskedFor == {p \in Primaries : pc[p] = "acquire"}
PastCheck == {s \in Secondaries :
                pc[s] \in {"readLocked", "setLocked", "setSecondary", "acquire"}}

\* A step of a primary is Ask, Grant, Release or nothing of the abstract lock.
LEMMA PrimaryRefines ==
  ASSUME MutexTypeOK, OwnerInside, NEW p \in Primaries, PrimaryTry(p) \/ PrimaryRun(p)
  PROVE  [Abstract!LockNext]_(Abstract!lockVars)
<1> USE DEF MutexTypeOK, Threads
<1>1. PastCheck' = PastCheck
  BY ThreadsAssumption
     DEF PastCheck, PrimaryTry, PrimaryRun, PrimaryAsk, Lock, SetLocked,
         PrimaryClearWaiting, PrimarySet, Unlock, ClearLocked, PrimaryClear, Step
<1>2. CASE PrimaryAsk(p)
  <2>1. /\ p \notin AskedFor /\ mtx # p
        /\ AskedFor' = AskedFor \union {p} /\ mtx' = mtx
    BY <1>2, ThreadsAssumption DEF PrimaryAsk, Step, AskedFor, OwnerInside, OwnsMutex
  <2> QED BY <1>1, <2>1 DEF AskedFor, PastCheck, Abstract!LockNext, Abstract!Ask
<1>3. CASE Lock(p, "setLocked")
  <2>1. /\ p \in AskedFor /\ mtx = NoOne
        /\ AskedFor' = AskedFor \ {p} /\ mtx' = p
    BY <1>3, ThreadsAssumption DEF Lock, Step, AskedFor
  <2> QED BY <1>1, <2>1 DEF AskedFor, PastCheck, Abstract!LockNext, Abstract!Grant
<1>4. CASE Unlock(p)
  <2>1. /\ mtx = p /\ mtx' = NoOne /\ AskedFor' = AskedFor
    BY <1>4, ThreadsAssumption DEF Unlock, Step, AskedFor, OwnerInside, OwnsMutex
  <2> QED BY <1>1, <2>1 DEF AskedFor, PastCheck, Abstract!LockNext, Abstract!Release
<1>5. CASE \/ PrimaryTry(p) \/ SetLocked(p, "clearWaiting") \/ PrimaryClearWaiting(p)
           \/ PrimarySet(p) \/ ClearLocked(p, "clearPrimary") \/ PrimaryClear(p)
  <2>1. AskedFor' = AskedFor /\ mtx' = mtx
    BY <1>5, ThreadsAssumption
       DEF PrimaryTry, SetLocked, PrimaryClearWaiting, PrimarySet, ClearLocked,
           PrimaryClear, Step, AskedFor
  <2> QED BY <1>1, <2>1 DEF AskedFor, PastCheck, Abstract!lockVars
<1> QED BY <1>2, <1>3, <1>4, <1>5 DEF PrimaryRun

\* A step of a secondary is Admit, Renounce, Enter, Release or nothing of it.
LEMMA SecondaryRefines ==
  ASSUME MutexTypeOK, OwnerInside, WaitingVisible,
         NEW s \in Secondaries, SecondaryRun(s)
  PROVE  [Abstract!LockNext]_(Abstract!lockVars)
<1> USE DEF MutexTypeOK, Threads
<1>1. AskedFor' = AskedFor
  BY ThreadsAssumption
     DEF AskedFor, SecondaryRun, SecondaryTry, SecondaryReadLocked, SetLocked,
         SecondarySet, Lock, Unlock, ClearLocked, SecondaryClear, Step
<1>2. CASE SecondaryTry(s)
  <2>1. CASE isPrimaryWaiting
    BY <1>1, <1>2, <2>1
       DEF SecondaryTry, Step, flags, AskedFor, Abstract!lockVars
  <2>2. CASE ~isPrimaryWaiting
    <3>1. AskedFor = {}
      BY <2>2 DEF WaitingVisible, OwesWaiting, AskedFor
    <3>2. /\ s \notin PastCheck /\ mtx # s
          /\ PastCheck' = PastCheck \union {s} /\ mtx' = mtx
      BY <1>2, <2>2, ThreadsAssumption
         DEF SecondaryTry, Step, flags, PastCheck, OwnerInside, OwnsMutex
    <3> QED BY <1>1, <3>1, <3>2 DEF AskedFor, PastCheck, Abstract!LockNext, Abstract!Admit
  <2> QED BY <2>1, <2>2
<1>3. CASE SecondaryReadLocked(s)
  <2>1. /\ mtx' = mtx
        /\ \/ PastCheck' = PastCheck
           \/ s \in PastCheck /\ PastCheck' = PastCheck \ {s}
    BY <1>3, ThreadsAssumption DEF SecondaryReadLocked, Step, flags, PastCheck
  <2> QED BY <1>1, <2>1
          DEF AskedFor, PastCheck, Abstract!LockNext, Abstract!Renounce, Abstract!lockVars
<1>4. CASE Lock(s, "critical")
  <2>1. /\ s \in PastCheck /\ mtx = NoOne
        /\ PastCheck' = PastCheck \ {s} /\ mtx' = s
    BY <1>4, ThreadsAssumption DEF Lock, Step, PastCheck
  <2> QED BY <1>1, <2>1 DEF AskedFor, PastCheck, Abstract!LockNext, Abstract!Enter
<1>5. CASE Unlock(s)
  <2>1. /\ mtx = s /\ mtx' = NoOne /\ PastCheck' = PastCheck
    BY <1>5, ThreadsAssumption DEF Unlock, Step, PastCheck, OwnerInside, OwnsMutex
  <2> QED BY <1>1, <2>1 DEF AskedFor, PastCheck, Abstract!LockNext, Abstract!Release
<1>6. CASE \/ SetLocked(s, "setSecondary") \/ SecondarySet(s)
           \/ ClearLocked(s, "clearSecondary") \/ SecondaryClear(s)
  <2>1. PastCheck' = PastCheck /\ mtx' = mtx
    BY <1>6, ThreadsAssumption
       DEF SetLocked, SecondarySet, ClearLocked, SecondaryClear, Step, PastCheck
  <2> QED BY <1>1, <2>1 DEF AskedFor, PastCheck, Abstract!lockVars
<1> QED BY <1>2, <1>3, <1>4, <1>5, <1>6 DEF SecondaryRun

\* The flags and the mutex, taken step by step, implement the abstract lock
\* that lets no secondary in once the handler has asked for it.
THEOREM PriorityLockImplemented ==
  ASSUME SinglePrimary
  PROVE  MutexSpec => ImplementsPriorityLock
<1>1. MutexInit => Abstract!LockInit
  BY DEF MutexInit, Threads, Abstract!LockInit
<1>2. MutexTypeOK /\ OwnerInside /\ WaitingVisible /\ [MutexNext]_mutexVars
        => [Abstract!LockNext]_(Abstract!lockVars)
  <2> SUFFICES ASSUME MutexTypeOK, OwnerInside, WaitingVisible, [MutexNext]_mutexVars
               PROVE  [Abstract!LockNext]_(Abstract!lockVars)
    OBVIOUS
  <2>1. CASE UNCHANGED mutexVars
    BY <2>1 DEF mutexVars, Abstract!lockVars
  <2> QED BY <2>1, PrimaryRefines, SecondaryRefines DEF MutexNext
<1>3. IInv => MutexTypeOK /\ OwnerInside
  BY DEF IInv
<1> QED BY <1>1, <1>2, <1>3, Invariance, WaitingSeen, PTL
        DEF MutexSpec, ImplementsPriorityLock, Abstract!LockSpec

=============================================================================
