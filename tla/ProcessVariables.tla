-------------------------- MODULE ProcessVariables --------------------------
(***************************************************************************)
(* The arguments and the environment of a process, class ProcessVariables  *)
(* (server/proc_def.cpp), as memory: two arrays of MAX_ARG_COUNT pointers, *)
(* Args and then Envs, with an index each for the next free place.         *)
(*                                                                         *)
(* The arrays are handed to execve as they are, which reads each up to its *)
(* first NULL.  Nothing but the constructor writes that NULL, and it       *)
(* leaves out the last place of each.  The objects are copied at every     *)
(* lookup, start and restart; a copy takes the environment as arguments.   *)
(* What was configured is kept apart from the arrays, in args and envs.    *)
(***************************************************************************)
EXTENDS Naturals, Sequences, FiniteSets

CONSTANTS
  Objects,      \* the ProcessInfo objects there may be
  Strings,      \* the arguments and environment strings
  NULL, Junk,   \* no string, and a place that has never been written
  MAX_ARG_COUNT,
  MaxAdded      \* bound: what one of its arrays has when it is added to

ASSUME VariablesAssumption ==
  /\ MAX_ARG_COUNT \in Nat /\ MAX_ARG_COUNT >= 3
  /\ NULL \notin Strings /\ Junk \notin Strings /\ NULL # Junk /\ MaxAdded \in Nat

\* Args[i] is slot i, Envs[i] is slot MAX_ARG_COUNT + i.
Slots == 0 .. 2 * MAX_ARG_COUNT - 1
Env(i) == MAX_ARG_COUNT + i

VARIABLES
  exists,   \* the objects there are
  nArgs, nEnvs,   \* _CurrentArgIndex and _CurrentEnvIndex
  slot,     \* what each slot of an object holds
  wrong,    \* what has gone wrong: "outside", "junk", "leak"
  args, envs,   \* history: the arguments and the environment strings its configuration gave
  origin,   \* history: "built" by adding strings, "copied", or "altered" after that
  crowded   \* history: some object has been given more than there is room for

variablesVars == <<exists, nArgs, nEnvs, slot, wrong, args, envs, origin, crowded>>

Origins == {"built", "copied", "altered"}

VariablesInit ==
  /\ exists = {} /\ nArgs = [o \in Objects |-> 0] /\ nEnvs = [o \in Objects |-> 0]
  /\ slot = [o \in Objects |-> [s \in Slots |-> Junk]]
  /\ wrong = {} /\ crowded = FALSE
  /\ args = [o \in Objects |-> <<>>] /\ envs = [o \in Objects |-> <<>>]
  /\ origin = [o \in Objects |-> "built"]

-----------------------------------------------------------------------------
(* The steps the operations are made of; each gives slots, and what can go *)
(* wrong in it.                                                            *)

\* Mutant of Nulled: nothing is set to NULL.
NulledNot(sl) == sl

\* The constructor's loop, which the assignment has too: it stops one place early.
Nulled(sl) ==
  [s \in Slots |->
     IF s < MAX_ARG_COUNT - 1 \/ s \in Env(0) .. Env(MAX_ARG_COUNT - 2) THEN NULL ELSE sl[s]]

\* addArg for each of a sequence of strings, from index first on.  The last index
\* that is let through is MAX_ARG_COUNT, which is one too far.
Added(sl, first, ws) ==
  [s \in Slots |-> IF s \in first .. first + Len(ws) - 1 /\ s <= MAX_ARG_COUNT
                   THEN ws[s - first + 1] ELSE sl[s]]

Overwrites(sl, first, ws) ==
  \E s \in Slots : s \in first .. first + Len(ws) - 1 /\ s <= MAX_ARG_COUNT /\ sl[s] \in Strings

\* The slots clear() deletes.
Counted(o) == {s \in Slots : s < nArgs[o] \/ s \in Env(0) .. Env(nEnvs[o]) - 1}

Goes(what, when) == IF when THEN {what} ELSE {}

\* delete[] of a slot that was never written.
ClearWrong(o) ==
  Goes("junk", \E s \in Counted(o) : slot[o][s] = Junk)
    \union Goes("outside", Env(nEnvs[o]) - 1 \notin Slots)

Cleared(o) == [s \in Slots |-> IF s \in Counted(o) THEN NULL ELSE slot[o][s]]

\* The places a copy of o goes through, in order, and those of them that hold no NULL.
Nth(o, i) == IF i <= nArgs[o] THEN slot[o][i - 1] ELSE slot[o][Env(i - nArgs[o] - 1)]
Taken(o) == {i \in 1 .. nArgs[o] + nEnvs[o] : Nth(o, i) # NULL}

\* The strings of o in the order in which a copy adds them: NULLs are passed over.
Values(o) ==
  [k \in 1 .. Cardinality(Taken(o)) |->
     Nth(o, CHOOSE i \in Taken(o) : Cardinality({j \in Taken(o) : j <= i}) = k)]

Readable(o) == nArgs[o] <= 2 * MAX_ARG_COUNT /\ nEnvs[o] <= MAX_ARG_COUNT

CopyWrong(o) ==
  IF ~Readable(o) THEN {"outside"}
  ELSE Goes("junk", \E s \in Counted(o) : slot[o][s] = Junk)

Roomy(n) == n <= MAX_ARG_COUNT - 2

-----------------------------------------------------------------------------
(* The operations.  Once something has gone wrong anything may follow.     *)

\* Nothing is recorded of o any more.
Altered(o) ==
  /\ args' = [args EXCEPT ![o] = <<>>] /\ envs' = [envs EXCEPT ![o] = <<>>]
  /\ origin' = [origin EXCEPT ![o] = "altered"]

Construct(o) ==
  /\ wrong = {} /\ o \notin exists
  /\ exists' = exists \union {o}
  /\ nArgs' = [nArgs EXCEPT ![o] = 0] /\ nEnvs' = [nEnvs EXCEPT ![o] = 0]
  /\ slot' = [slot EXCEPT ![o] = Nulled([s \in Slots |-> Junk])]
  /\ args' = [args EXCEPT ![o] = <<>>] /\ envs' = [envs EXCEPT ![o] = <<>>]
  /\ origin' = [origin EXCEPT ![o] = "built"]
  /\ UNCHANGED <<wrong, crowded>>

\* What is recorded of an object that is given strings: once it is a copy, or was assigned
\* to itself, nothing is said about it any more.
Given(o, as, es) ==
  IF origin[o] = "built"
  THEN args' = [args EXCEPT ![o] = as] /\ envs' = [envs EXCEPT ![o] = es] /\ UNCHANGED origin
  ELSE Altered(o)

addArg(o, w) ==
  /\ wrong = {} /\ o \in exists /\ nArgs[o] < MaxAdded
  /\ wrong' = Goes("leak", Overwrites(slot[o], nArgs[o], <<w>>))
  /\ slot' = [slot EXCEPT ![o] = Added(@, nArgs[o], <<w>>)]
  /\ nArgs' = [nArgs EXCEPT ![o] = @ + 1]
  /\ Given(o, Append(args[o], w), envs[o])
  /\ crowded' = (crowded \/ ~Roomy(nArgs[o] + 1))
  /\ UNCHANGED <<exists, nEnvs>>

addEnv(o, w) ==
  /\ wrong = {} /\ o \in exists /\ nEnvs[o] < MaxAdded
  /\ IF nEnvs[o] < MAX_ARG_COUNT
     THEN /\ wrong' = Goes("leak", slot[o][Env(nEnvs[o])] \in Strings)
          /\ slot' = [slot EXCEPT ![o][Env(nEnvs[o])] = w]
     ELSE /\ wrong' = Goes("outside", nEnvs[o] = MAX_ARG_COUNT)
          /\ UNCHANGED slot
  /\ nEnvs' = [nEnvs EXCEPT ![o] = @ + 1]
  /\ Given(o, args[o], Append(envs[o], w))
  /\ crowded' = (crowded \/ ~Roomy(nEnvs[o] + 1))
  /\ UNCHANGED <<exists, nArgs>>

\* What o is after the strings of p have been added to the slots given, all of them by
\* addArg.  What was configured for p is now configured for o.
Takes(o, p, empty) ==
  /\ slot' = [slot EXCEPT ![o] = IF Readable(p) THEN Added(empty, 0, Values(p)) ELSE empty]
  /\ nArgs' = [nArgs EXCEPT ![o] = IF Readable(p) THEN Len(Values(p)) ELSE 0]
  /\ nEnvs' = [nEnvs EXCEPT ![o] = 0]
  /\ args' = [args EXCEPT ![o] = args[p]] /\ envs' = [envs EXCEPT ![o] = envs[p]]
  /\ origin' = [origin EXCEPT ![o] = IF origin[p] = "altered" THEN "altered" ELSE "copied"]
  /\ crowded' = (crowded \/ ~Roomy(nArgs[p] + nEnvs[p]))

CopyConstruct(o, p) ==
  /\ wrong = {} /\ o \notin exists /\ p \in exists
  /\ exists' = exists \union {o}
  /\ wrong' = CopyWrong(p)
  /\ Takes(o, p, Nulled([s \in Slots |-> Junk]))

\* Mutant of Assign: the strings there were are not deleted.
AssignOver(o, p) ==
  /\ wrong = {} /\ {o, p} \subseteq exists /\ o # p
  /\ wrong' = CopyWrong(p) \union Goes("leak", \E s \in Slots : slot[o][s] \in Strings)
  /\ Takes(o, p, Nulled(slot[o]))
  /\ UNCHANGED exists

\* What goes wrong when operator= clears o and sets its slots to NULL.
RenewWrong(o) ==
  ClearWrong(o)
    \union Goes("leak", \E s \in Slots : Cleared(o)[s] \in Strings /\ Nulled(Cleared(o))[s] = NULL)

\* operator=: clear, set to NULL, add.
Assign(o, p) ==
  /\ wrong = {} /\ {o, p} \subseteq exists /\ o # p
  /\ wrong' = RenewWrong(o) \union CopyWrong(p)
  /\ Takes(o, p, Nulled(Cleared(o)))
  /\ UNCHANGED exists

\* operator= of an object to itself: what it would add it has just cleared.
AssignToItself(o) ==
  /\ wrong = {} /\ o \in exists
  /\ wrong' = RenewWrong(o)
  /\ slot' = [slot EXCEPT ![o] = Nulled(Cleared(o))]
  /\ nArgs' = [nArgs EXCEPT ![o] = 0] /\ nEnvs' = [nEnvs EXCEPT ![o] = 0]
  /\ Altered(o)
  /\ UNCHANGED <<exists, crowded>>

\* The destructor.
Destroy(o) ==
  /\ wrong = {} /\ o \in exists
  /\ exists' = exists \ {o}
  /\ wrong' = ClearWrong(o) \union Goes("leak", \E s \in Slots : Cleared(o)[s] \in Strings)
  /\ nArgs' = [nArgs EXCEPT ![o] = 0] /\ nEnvs' = [nEnvs EXCEPT ![o] = 0]
  /\ slot' = [slot EXCEPT ![o] = [s \in Slots |-> Junk]]
  /\ args' = [args EXCEPT ![o] = <<>>] /\ envs' = [envs EXCEPT ![o] = <<>>]
  /\ origin' = [origin EXCEPT ![o] = "built"]
  /\ UNCHANGED crowded

VariablesNext ==
  \E o \in Objects :
    \/ Construct(o) \/ Destroy(o) \/ AssignToItself(o)
    \/ \E w \in Strings : addArg(o, w) \/ addEnv(o, w)
    \/ \E p \in Objects : CopyConstruct(o, p) \/ Assign(o, p)

VariablesSpec == VariablesInit /\ [][VariablesNext]_variablesVars

-----------------------------------------------------------------------------
(* Properties.                                                             *)

\* As long as no array is given more than MAX_ARG_COUNT - 2 strings, those of an
\* environment counted with the arguments once they are copied, nothing is written or
\* read out of bounds, no place is used that was never set and no memory is lost.
\* Beyond that the classes do not protect themselves: the parser is told that the
\* arrays are full after they have been left.
SoundUntilCrowded == wrong # {} => crowded

\* What execve reads of an array that begins at slot first.
UpToNull(o, first, ws) ==
  /\ first + Len(ws) \in Slots /\ slot[o][first + Len(ws)] = NULL
  /\ \A i \in DOMAIN ws : slot[o][first + i - 1] = ws[i]

\* Where the strings that were configured are found: in the object they were added to,
\* each kind in its array; in a copy, and a process is always started with one, all in
\* Args, the environment after the arguments, and Envs is empty.
ExecGetsStrings ==
  ~crowded => \A o \in exists :
    /\ origin[o] = "built" => UpToNull(o, 0, args[o]) /\ UpToNull(o, Env(0), envs[o])
    /\ origin[o] = "copied" => UpToNull(o, 0, args[o] \o envs[o]) /\ UpToNull(o, Env(0), <<>>)

\* What starting a process again and again does to its strings: whatever copies and
\* assignments they go through, each configured string reaches execve, in its order, with
\* an end, in memory the object owns, though the environment in an array it was not meant
\* for: no copy has any Envs, and execve gets no environment.  So it is until an array is
\* given too many, or an object is added to after it was copied or assigned to itself,
\* which no caller does (addArg, addEnv, operator=, the copy constructor).
StringsKept == SoundUntilCrowded /\ ExecGetsStrings
=============================================================================
