---------------------------- MODULE PriorityLock ----------------------------
(***************************************************************************)
(* What ProcConfigLock (common/master_slave_mutex.cpp) promises to the two *)
(* kinds of threads that use it: a lock with one holder in which a primary *)
(* that has asked keeps every secondary that has not been admitted yet     *)
(* outside.  A primary is the thread that serves a client's process        *)
(* command (ProcCmdHandler::execute); a secondary is the poll thread       *)
(* (BasePollManager::_poll).                                               *)
(*                                                                         *)
(* MasterSlaveMutex implements this module when there is one primary;      *)
(* ProcessManager is built on it.                                          *)
(***************************************************************************)
CONSTANTS Primaries,    \* threads that call lockPrimary
          Secondaries,  \* threads that call lockSecondary
          NoOne         \* the holder of a lock nobody holds

VARIABLES holder,       \* the thread inside the lock, or NoOne
          waiting,      \* primaries that have asked and are not inside yet
          admitted      \* secondaries past the check, not inside yet

lockVars == <<holder, waiting, admitted>>

LockTypeOK ==
  /\ holder \in Primaries \union Secondaries \union {NoOne}
  /\ waiting \subseteq Primaries
  /\ admitted \subseteq Secondaries

LockInit ==
  /\ holder = NoOne
  /\ waiting = {}
  /\ admitted = {}

\* A primary announces that it wants the lock.
Ask(p) ==
  /\ p \notin waiting /\ holder # p
  /\ waiting' = waiting \union {p}
  /\ UNCHANGED <<holder, admitted>>

\* A primary that has asked gets the free lock.
Grant(p) ==
  /\ p \in waiting /\ holder = NoOne
  /\ holder' = p
  /\ waiting' = waiting \ {p}
  /\ UNCHANGED admitted

\* A secondary passes the check: nobody waits at that moment.
Admit(s) ==
  /\ waiting = {}
  /\ s \notin admitted /\ holder # s
  /\ admitted' = admitted \union {s}
  /\ UNCHANGED <<holder, waiting>>

\* A secondary that passed the check gives up and will try again later.
Renounce(s) ==
  /\ s \in admitted
  /\ admitted' = admitted \ {s}
  /\ UNCHANGED <<holder, waiting>>

\* An admitted secondary gets the free lock, a waiting primary or not.
Enter(s) ==
  /\ s \in admitted /\ holder = NoOne
  /\ holder' = s
  /\ admitted' = admitted \ {s}
  /\ UNCHANGED waiting

Release(t) ==
  /\ holder = t
  /\ holder' = NoOne
  /\ UNCHANGED <<waiting, admitted>>

LockNext ==
  \/ \E p \in Primaries : Ask(p) \/ Grant(p) \/ Release(p)
  \/ \E s \in Secondaries : Admit(s) \/ Renounce(s) \/ Enter(s) \/ Release(s)

LockSpec == LockInit /\ [][LockNext]_lockVars
=============================================================================
