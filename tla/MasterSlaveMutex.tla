-------------------------- MODULE MasterSlaveMutex --------------------------
(***************************************************************************)
(* MasterSlaveMutex (common/master_slave_mutex.cpp): a std::mutex and four *)
(* atomic flags that only advise.  Every load, store, lock and unlock of a *)
(* thread is one action, taken in the order of the code; pc[t] names the   *)
(* next one thread t executes.  The acquire loads and release stores are   *)
(* interleaved in one total order, which is what they amount to for flags  *)
(* no other data is published through (the mutex orders the data).         *)
(***************************************************************************)
CONSTANTS Primaries, Secondaries, NoOne

ASSUME ThreadsAssumption ==
  /\ Primaries \intersect Secondaries = {}
  /\ NoOne \notin Primaries \union Secondaries

VARIABLES isLocked, isPrimary, isSecondary, isPrimaryWaiting,  \* the flags
          mtx,   \* the thread that holds _Mtx, or NoOne
          pc     \* the next step of each thread

flags == <<isLocked, isPrimary, isSecondary, isPrimaryWaiting>>
mutexVars == <<isLocked, isPrimary, isSecondary, isPrimaryWaiting, mtx, pc>>

Threads == Primaries \union Secondaries

PrimaryPC == {"idle", "ask", "acquire", "setLocked", "clearWaiting",
              "setPrimary", "critical", "clearLocked", "clearPrimary"}
SecondaryPC == {"idle", "readLocked", "setLocked", "setSecondary", "acquire",
                "critical", "clearLocked", "clearSecondary"}

MutexInit ==
  /\ isLocked = FALSE /\ isPrimary = FALSE
  /\ isSecondary = FALSE /\ isPrimaryWaiting = FALSE
  /\ mtx = NoOne
  /\ pc = [t \in Threads |-> "idle"]

Step(t, from, to) ==
  /\ pc[t] = from
  /\ pc' = [pc EXCEPT ![t] = to]

-----------------------------------------------------------------------------
(* What a primary and a secondary do alike: the mutex and isLocked.        *)

\* Mutant of Lock: the flags taken for the lock, _Mtx left out.
LockFlagsOnly(t, to) ==
  /\ Step(t, "acquire", to)
  /\ mtx' = t
  /\ UNCHANGED flags

Lock(t, to) ==
  /\ Step(t, "acquire", to)
  /\ mtx = NoOne
  /\ mtx' = t
  /\ UNCHANGED flags

Unlock(t) ==
  /\ Step(t, "critical", "clearLocked")
  /\ mtx' = NoOne
  /\ UNCHANGED flags

SetLocked(t, to) ==
  /\ Step(t, "setLocked", to)
  /\ isLocked' = TRUE
  /\ UNCHANGED <<isPrimary, isSecondary, isPrimaryWaiting, mtx>>

\* Mutant of ClearLocked: unlock forgets to reset _isLocked.
ClearLockedForgotten(t, to) ==
  /\ Step(t, "clearLocked", to)
  /\ UNCHANGED <<flags, mtx>>

ClearLocked(t, to) ==
  /\ Step(t, "clearLocked", to)
  /\ isLocked' = FALSE
  /\ UNCHANGED <<isPrimary, isSecondary, isPrimaryWaiting, mtx>>

-----------------------------------------------------------------------------
(* lockPrimary and unlockPrimary.                                          *)

\* Mutant of PrimaryTry: a refused primary also counts as waiting.
PrimaryTryMarksRefused(p) ==
  /\ IF isPrimary THEN Step(p, "idle", "idle") ELSE Step(p, "idle", "ask")
  /\ isPrimaryWaiting' = (isPrimary \/ isPrimaryWaiting)
  /\ UNCHANGED <<isLocked, isPrimary, isSecondary, mtx>>

\* `if (!_isPrimary.load())`: refused (ERR_PROC_HANDLER_BUSY) when it is set.
PrimaryTry(p) ==
  /\ IF isPrimary THEN Step(p, "idle", "idle") ELSE Step(p, "idle", "ask")
  /\ UNCHANGED <<flags, mtx>>

\* Mutant of PrimaryAsk: _isPrimaryWaiting is not raised.
PrimaryAskSilent(p) ==
  /\ Step(p, "ask", "acquire")
  /\ UNCHANGED <<flags, mtx>>

PrimaryAsk(p) ==
  /\ Step(p, "ask", "acquire")
  /\ isPrimaryWaiting' = TRUE
  /\ UNCHANGED <<isLocked, isPrimary, isSecondary, mtx>>

PrimaryClearWaiting(p) ==
  /\ Step(p, "clearWaiting", "setPrimary")
  /\ isPrimaryWaiting' = FALSE
  /\ UNCHANGED <<isLocked, isPrimary, isSecondary, mtx>>

PrimarySet(p) ==
  /\ Step(p, "setPrimary", "critical")
  /\ isPrimary' = TRUE
  /\ UNCHANGED <<isLocked, isSecondary, isPrimaryWaiting, mtx>>

PrimaryClear(p) ==
  /\ Step(p, "clearPrimary", "idle")
  /\ isPrimary' = FALSE
  /\ UNCHANGED <<isLocked, isSecondary, isPrimaryWaiting, mtx>>

\* Mutant of PrimaryRun: unlockPrimary ends with unlockSecondary's last store.
PrimaryRunWrongClear(p) ==
  \/ PrimaryAsk(p)
  \/ Lock(p, "setLocked")
  \/ SetLocked(p, "clearWaiting")
  \/ PrimaryClearWaiting(p)
  \/ PrimarySet(p)
  \/ Unlock(p)
  \/ ClearLocked(p, "clearSecondary")

\* Every step of a primary after it has decided to call lockPrimary.
PrimaryRun(p) ==
  \/ PrimaryAsk(p)
  \/ Lock(p, "setLocked")
  \/ SetLocked(p, "clearWaiting")
  \/ PrimaryClearWaiting(p)
  \/ PrimarySet(p)
  \/ Unlock(p)
  \/ ClearLocked(p, "clearPrimary")
  \/ PrimaryClear(p)

-----------------------------------------------------------------------------
(* lockSecondary and unlockSecondary.                                      *)

\* Mutant of SecondaryTry: lockSecondary does not look at _isPrimaryWaiting.
SecondaryTryGreedy(s) ==
  /\ Step(s, "idle", "readLocked")
  /\ UNCHANGED <<flags, mtx>>

\* `!_isPrimaryWaiting.load()`, the first operand of the condition.
SecondaryTry(s) ==
  /\ IF isPrimaryWaiting THEN Step(s, "idle", "idle")
                         ELSE Step(s, "idle", "readLocked")
  /\ UNCHANGED <<flags, mtx>>

\* `!_isLocked.load()`, the second.
SecondaryReadLocked(s) ==
  /\ IF isLocked THEN Step(s, "readLocked", "idle")
                 ELSE Step(s, "readLocked", "setLocked")
  /\ UNCHANGED <<flags, mtx>>

SecondarySet(s) ==
  /\ Step(s, "setSecondary", "acquire")
  /\ isSecondary' = TRUE
  /\ UNCHANGED <<isLocked, isPrimary, isPrimaryWaiting, mtx>>

SecondaryClear(s) ==
  /\ Step(s, "clearSecondary", "idle")
  /\ isSecondary' = FALSE
  /\ UNCHANGED <<isLocked, isPrimary, isPrimaryWaiting, mtx>>

SecondaryRun(s) ==
  \/ SecondaryTry(s)
  \/ SecondaryReadLocked(s)
  \/ SetLocked(s, "setSecondary")
  \/ SecondarySet(s)
  \/ Lock(s, "critical")
  \/ Unlock(s)
  \/ ClearLocked(s, "clearSecondary")
  \/ SecondaryClear(s)

-----------------------------------------------------------------------------
MutexNext ==
  \/ \E p \in Primaries : PrimaryTry(p) \/ PrimaryRun(p)
  \/ \E s \in Secondaries : SecondaryRun(s)

MutexSpec == MutexInit /\ [][MutexNext]_mutexVars

\* A client need not send a command, so PrimaryTry carries no fairness.  A
\* thread that is inside lockPrimary goes on, and the poll thread loops for
\* ever (BasePollManager::_init).  std::mutex gives no fairness of its own:
\* weak fairness of Lock promises a thread the mutex only when it stays free.
MutexFairness ==
  /\ \A p \in Primaries : WF_mutexVars(PrimaryRun(p))
  /\ \A s \in Secondaries : WF_mutexVars(SecondaryRun(s))

MutexFairSpec == MutexSpec /\ MutexFairness

-----------------------------------------------------------------------------
(* Regions of the code: the steps between a store of TRUE and the same     *)
(* thread's store of FALSE to each flag.                                   *)

OwesPrimary(p) == pc[p] \in {"critical", "clearLocked", "clearPrimary"}
OwesWaiting(p) == pc[p] \in {"acquire", "setLocked", "clearWaiting"}
OwesSecondary(s) == pc[s] \in {"acquire", "critical", "clearLocked", "clearSecondary"}
OwesLocked(t) ==
  \/ t \in Primaries
     /\ pc[t] \in {"clearWaiting", "setPrimary", "critical", "clearLocked"}
  \/ t \in Secondaries
     /\ pc[t] \in {"setSecondary", "acquire", "critical", "clearLocked"}

OwnsMutex(t) ==
  \/ t \in Primaries
     /\ pc[t] \in {"setLocked", "clearWaiting", "setPrimary", "critical"}
  \/ t \in Secondaries /\ pc[t] = "critical"

\* Types of the flags, the owner and the program counters.
MutexTypeOK ==
  /\ isLocked \in BOOLEAN /\ isPrimary \in BOOLEAN
  /\ isSecondary \in BOOLEAN /\ isPrimaryWaiting \in BOOLEAN
  /\ mtx \in Threads \union {NoOne}
  /\ pc \in [Threads -> PrimaryPC \union SecondaryPC]
  /\ \A p \in Primaries : pc[p] \in PrimaryPC
  /\ \A s \in Secondaries : pc[s] \in SecondaryPC

\* The thread between _Mtx.lock() and _Mtx.unlock() is exactly the owner.
OwnerInside == \A t \in Threads : OwnsMutex(t) <=> mtx = t

\* At most one thread runs the code the lock protects.
MutualExclusion ==
  \A t, u \in Threads : pc[t] = "critical" /\ pc[u] = "critical" => t = u

\* No flag is left behind.  unlockPrimary and unlockSecondary write their
\* flags after _Mtx.unlock(), so a late store of FALSE may clear a flag the
\* next owner has just set; but a flag that is TRUE has a thread that will
\* still clear it.  A flag that stayed TRUE with nobody to clear it would
\* refuse every later command (isPrimary) or stop the monitoring for good
\* (isLocked, isPrimaryWaiting).
FlagsJustified ==
  /\ isLocked => \E t \in Threads : OwesLocked(t)
  /\ isPrimary => \E p \in Primaries : OwesPrimary(p)
  /\ isPrimaryWaiting => \E p \in Primaries : OwesWaiting(p)
  /\ isSecondary => \E s \in Secondaries : OwesSecondary(s)

\* A primary that waits for the mutex can be seen to wait, so the poll loop's
\* isPrimaryWaiting() test and lockSecondary's give way to it.  It needs a
\* single primary: the store of FALSE by one hides another that waits.
WaitingVisible ==
  \A p \in Primaries : OwesWaiting(p) => isPrimaryWaiting

-----------------------------------------------------------------------------
(* The abstract lock this one implements for a single primary.             *)

Abstract == INSTANCE PriorityLock
  WITH holder <- mtx,
       waiting <- {p \in Primaries : pc[p] = "acquire"},
       admitted <- {s \in Secondaries :
                      pc[s] \in {"readLocked", "setLocked", "setSecondary", "acquire"}}

\* With one primary the flags and the mutex together implement PriorityLock:
\* in particular no secondary passes lockSecondary's check while the handler
\* waits.
ImplementsPriorityLock == Abstract!LockSpec

\* A handler that has asked for the lock gets it, however often the poll
\* threads come back.
PrimaryServed == \A p \in Primaries : pc[p] = "ask" ~> pc[p] = "critical"

\* Once no command comes any more, the poll threads get the lock again and
\* again: no history of lock and unlock calls locks the monitoring out.
PollNotLockedOut ==
  <>[](\A p \in Primaries : pc[p] = "idle")
     => []<>(\E s \in Secondaries : pc[s] = "critical")
=============================================================================
