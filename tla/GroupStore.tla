----------------------------- MODULE GroupStore -----------------------------
(***************************************************************************)
(* The operations that change the configuration in memory: those of        *)
(* ProcessConfigStoreManager (server/config_manager.cpp) on a process of a *)
(* group, of ProcessConfigurationStore (server/proc_manager.cpp) on whole  *)
(* groups, and of ProcessGroup (server/proc_def.cpp) on its two maps, of   *)
(* processes and of shared memories.  The commands of the program reach    *)
(* only add and the lookups, see ConfigStore; the others are there for     *)
(* callers to come.  Each runs under a lock and is one step.               *)
(*                                                                         *)
(* Every operation answers whether it did what it was asked; told collects *)
(* what a caller that believes the answers takes to be stored, but for two *)
(* answers that are known to be wrong: a process without an id is said to  *)
(* be added and is not, and a group that is updated as a whole loses its   *)
(* shared memories.                                                        *)
(***************************************************************************)
EXTENDS Naturals, FiniteSets

CONSTANTS
  GroupNames, ProcNames, ShmNames,
  NoName,      \* the empty id
  Registered,  \* the shared memories that SharedMemoryFactory knows
  Contents,    \* the rest of a definition
  MaxGroups    \* bound: ProcessGroup objects that are made

ASSUME StoreAssumption ==
  /\ NoName \notin ProcNames \union ShmNames
  /\ Registered \subseteq ShmNames /\ MaxGroups \in Nat

Entry == [kind : {"process"}, id : ProcNames \union {NoName}, content : Contents]
           \union [kind : {"shm"}, id : ShmNames \union {NoName}, content : Contents]
Absent == 0
GroupObjects == 1 .. MaxGroups

VARIABLES
  groupOf,   \* _ProcessGroupMap: the object of an id, or Absent
  entries,   \* _ProcessMap and _ShmMap of each object
  objects,   \* how many objects have been made
  freed,     \* those that have been deleted
  told,      \* history: pairs of a group and an entry
  selfRead   \* history: a group was updated with itself

storeVars == <<groupOf, entries, objects, freed, told, selfRead>>
groupVars == <<groupOf, objects, freed, selfRead>>

StoreInit ==
  /\ groupOf = [g \in GroupNames |-> Absent]
  /\ entries = [o \in GroupObjects |-> {}]
  /\ objects = 0 /\ freed = {} /\ told = {} /\ selfRead = FALSE

Same(d, e) == d.kind = e.kind /\ d.id = e.id
Without(set, e) == {d \in set : ~Same(d, e)}
Forgotten(g, e) == {t \in told : t[1] # g \/ ~Same(t[2], e)}
ToldOfGroup(g) == {t \in told : t[1] = g}

-----------------------------------------------------------------------------
(* ProcessGroup: what its maps hold after an operation.                    *)

Has(set, e) == \E d \in set : Same(d, e)

MapAdd(set, e) ==
  IF e.id = NoName \/ Has(set, e) \/ (e.kind = "shm" /\ e.id \notin Registered)
  THEN set ELSE set \union {e}

MapRemove(set, e) == IF e.id = NoName THEN set ELSE Without(set, e)

\* Mutant of MapUpdate: map::insert without the erase, which changes nothing.
MapUpdateInserts(set, e, orAdd) ==
  IF e.id # NoName /\ ~Has(set, e) /\ orAdd THEN set \union {e} ELSE set

\* erase and insert.  A shared memory that is added here may be one the factory
\* does not know.
MapUpdate(set, e, orAdd) ==
  IF e.id # NoName /\ (Has(set, e) \/ orAdd) THEN Without(set, e) \union {e} ELSE set

\* The copies of a group: ids and processes, and not the map of shared memories.
CopiedMaps(set) == {e \in set : e.kind = "process"}

\* The maps of the group become set; the caller is told whether e was taken.
Store(g, set, believed) ==
  /\ entries' = [entries EXCEPT ![groupOf[g]] = set]
  /\ told' = believed
  /\ UNCHANGED groupVars

Of(g) == entries[groupOf[g]]
Learn(g, e, answer) == IF answer /\ e.id # NoName THEN Forgotten(g, e) \union {<<g, e>>} ELSE told
Unlearn(g, e, answer) == IF answer THEN Forgotten(g, e) ELSE told

-----------------------------------------------------------------------------
(* ProcessConfigStoreManager.  A group that is not there is refused.       *)

\* The answer says that the process was not there; what add answers is dropped.
AddProcessConfig(g, e) ==
  /\ groupOf[g] # Absent /\ e.kind = "process"
  /\ LET res == ~Has(Of(g), e)
     IN  Store(g, IF res THEN MapAdd(Of(g), e) ELSE Of(g), Learn(g, e, res))

RemoveProcessConfig(g, e) ==
  /\ groupOf[g] # Absent /\ e.kind = "process"
  /\ LET res == Has(Of(g), e)
     IN  Store(g, IF res THEN MapRemove(Of(g), e) ELSE Of(g), Unlearn(g, e, res))

UpdateProcessConfig(g, e, orAdd) ==
  /\ groupOf[g] # Absent /\ e.kind = "process"
  /\ LET there == Has(Of(g), e)
     IN  Store(g, IF there THEN MapUpdate(Of(g), e, FALSE)
                  ELSE IF orAdd THEN MapAdd(Of(g), e) ELSE Of(g),
               Learn(g, e, there \/ orAdd))

(* ProcessGroup's own operations on shared memories.                       *)
ShmOperation(g, e, orAdd) ==
  /\ groupOf[g] # Absent /\ e.kind = "shm"
  /\ \/ Store(g, MapAdd(Of(g), e), Learn(g, e, MapAdd(Of(g), e) # Of(g)))
     \/ Store(g, MapRemove(Of(g), e), Unlearn(g, e, Has(Of(g), e)))
     \/ Store(g, MapUpdate(Of(g), e, orAdd), Learn(g, e, Has(Of(g), e) \/ orAdd))

-----------------------------------------------------------------------------
(* ProcessConfigurationStore.                                              *)

\* A group a caller has made, with at most one entry of each kind.
Prepared == {MapAdd(MapAdd({}, p), s) : p \in {e \in Entry : e.kind = "process"},
                                        s \in {e \in Entry : e.kind = "shm"}}

NewObject(g, set) ==
  /\ objects < MaxGroups
  /\ objects' = objects + 1
  /\ groupOf' = [groupOf EXCEPT ![g] = objects + 1]
  /\ entries' = [o \in GroupObjects |->
                   IF o = objects + 1 THEN set ELSE IF o = groupOf[g] THEN {} ELSE entries[o]]

\* add keeps the pointer it is given.  With an id that is taken it answers false.
AddStoredGroup(g, set) ==
  /\ groupOf[g] = Absent
  /\ NewObject(g, set)
  /\ told' = told \union {<<g, e>> : e \in set}
  /\ UNCHANGED <<freed, selfRead>>

\* remove, and clear for each group: the object is deleted through an iterator
\* that has just been erased; the builds at hand still find the pointer there.
RemoveGroup(g) ==
  /\ groupOf[g] # Absent
  /\ groupOf' = [groupOf EXCEPT ![g] = Absent]
  /\ freed' = freed \union {groupOf[g]}
  /\ entries' = [entries EXCEPT ![groupOf[g]] = {}]
  /\ told' = told \ ToldOfGroup(g)
  /\ UNCHANGED <<objects, selfRead>>

\* A plausible bug: the entry is not erased first, and insert leaves it.
UpdateGroupInserts(g, set, orAdd) ==
  /\ groupOf[g] # Absent
  /\ freed' = freed \union {groupOf[g]}
  /\ told' = (told \ ToldOfGroup(g)) \union {<<g, e>> : e \in set}
  /\ UNCHANGED <<groupOf, entries, objects, selfRead>>

\* update: the old object is deleted, and a copy of the caller's takes its place.
UpdateGroup(g, set, orAdd) ==
  /\ groupOf[g] # Absent \/ orAdd
  /\ NewObject(g, CopiedMaps(set))
  /\ freed' = freed \union ({groupOf[g]} \ {Absent})
  /\ told' = (told \ ToldOfGroup(g)) \union {<<g, e>> : e \in CopiedMaps(set)}
  /\ UNCHANGED selfRead

\* The caller changes a group it got from the store, and calls update with it:
\* what is copied has just been deleted.
UpdateGroupWithItself(g) ==
  /\ groupOf[g] # Absent
  /\ \E set \in SUBSET CopiedMaps(Of(g)) : NewObject(g, set)
  /\ freed' = freed \union {groupOf[g]}
  /\ selfRead' = TRUE
  /\ UNCHANGED told

-----------------------------------------------------------------------------
StoreNext ==
  \E g \in GroupNames :
    \/ \E e \in Entry : \/ AddProcessConfig(g, e) \/ RemoveProcessConfig(g, e)
                        \/ \E orAdd \in BOOLEAN : \/ UpdateProcessConfig(g, e, orAdd)
                                                  \/ ShmOperation(g, e, orAdd)
    \/ \E set \in Prepared : \/ AddStoredGroup(g, set)
                             \/ \E orAdd \in BOOLEAN : UpdateGroup(g, set, orAdd)
    \/ RemoveGroup(g)
    \/ UpdateGroupWithItself(g)

StoreSpec == StoreInit /\ [][StoreNext]_storeVars

-----------------------------------------------------------------------------
(* Properties.                                                             *)

Present == {g \in GroupNames : groupOf[g] # Absent}

\* A caller may believe the answers: after any series of operations, done or refused,
\* the store holds what it has been told and nothing else, until a group is
\* updated with itself.
AnswersTrue == ~selfRead => told = UNION {{g} \X Of(g) : g \in Present}

\* The store leads to no deleted group, and no object is in it under two ids.
TableAlive ==
  \A g, h \in Present : groupOf[g] \notin freed /\ (groupOf[g] = groupOf[h] => g = h)

\* The store's table and the caller's view of it agree, and nothing in it is deleted,
\* over any series of operations, refused ones and updates included.
StoreTruthful == AnswersTrue /\ TableAlive
=============================================================================
