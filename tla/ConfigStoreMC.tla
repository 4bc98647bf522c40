---------------------------- MODULE ConfigStoreMC ----------------------------
(* Small instances for TLC of ConfigStore and of what it stands on: the tree *)
(* of the file and its memory, the store's groups, and the values of          *)
(* parameters; and of the lock that keeps its readers apart.  They share no   *)
(* state: a behaviour is one machine's, and the others keep still.            *)
EXTENDS ConfigStore, XmlTree, XmlPages, GroupStore, Variant, MasterSlaveMutex, TLC

MCWords == {"~/bin", "/root/bin", "arg", "env"}
MCRootPath == [w \in MCWords |-> IF w = "~/bin" THEN "/root/bin" ELSE w]
Flag(f, set) == [name |-> f, value |-> set]

Proc(p, enable, other) ==
  [ignore |-> FALSE, id |-> p, enable |-> enable, path |-> "~/bin", flags |-> <<>>,
   args |-> <<"arg">>, envs |-> <<"env">>, depends |-> {}, other |-> other]
Monitored(n) ==
  [n EXCEPT !.flags = <<Flag("IsSystemCommand", TRUE), Flag("IsMonitor", TRUE), Flag("isShared", TRUE),
                        Flag("IsSystemCommand", FALSE)>>]
Needing(n, ps) == [Monitored(n) EXCEPT !.depends = ps]
GroupOf(g, procs) == [ignore |-> FALSE, id |-> g, hasShm |-> FALSE, procs |-> procs]
FileOf(groups) == [status |-> "ok", groups |-> groups]

CONSTANTS g1, g2, web, db, v1, v2

\* The file as it is installed, with a dependency it does not define; edited to change
\* and add processes, two that need each other, one of them disabled; with what the
\* parser skips or rejects, in each of its ways; and the files it cannot use.
Installed == FileOf(<<GroupOf(g1, <<Needing(Proc(web, TRUE, v1), {db})>>)>>)
Edited == FileOf(<<GroupOf(g1, <<Needing(Proc(web, FALSE, v2), {db}), Needing(Proc(db, TRUE, v2), {web})>>),
                   GroupOf(g2, <<Proc(db, FALSE, v1), Proc(web, TRUE, v1), Proc(db, TRUE, v2)>>)>>)
Odd == FileOf(<<GroupOf(NoId, <<Proc(web, TRUE, v1)>>),
                [GroupOf(g2, <<Proc(web, TRUE, v2)>>) EXCEPT !.ignore = TRUE],
                [GroupOf(g2, <<[Proc(web, TRUE, v2) EXCEPT !.path = NoPath],
                               [Proc(db, TRUE, v2) EXCEPT !.ignore = TRUE],
                               Proc(NoId, TRUE, v2)>>) EXCEPT !.hasShm = TRUE],
                GroupOf(g2, <<Proc(db, TRUE, v1)>>)>>)
Empty == FileOf(<<GroupOf(g2, <<>>)>>)
Ignored == FileOf(<<[GroupOf(g1, <<Proc(web, TRUE, v1)>>) EXCEPT !.ignore = TRUE]>>)
MCFiles ==
  {Installed, Edited, Odd, Empty, Ignored, FileOf(<<>>)}
    \union [status : {"unreadable", "noRoot", "noGroups"}, groups : {<<>>}]

EditedFiles == {Installed, Edited}

\* Numbers of each type, next to the ends of their ranges and negative, and what is
\* no number.
MCOperands ==
  {Var("CHAR", -1), Var("CHAR", 3), Var("SHORT", -2), Var("SHORT", 7), Var("INT", 5), Var("INT", -9),
   Var("FLOAT", 4), Var("DOUBLE", -6), Var("DOUBLE", 0), Var("STRING", 1), Var("STRING", 2),
   Var("USTRING", 1), Var("VOID", 1), Nothing}

\* Texts that fit a page beside others, that are large, and that are larger than a page.
TextOfLength(len, tag) == [len |-> len, tag |-> tag]
MCTexts == {TextOfLength(1, "x"), TextOfLength(2, "y"), TextOfLength(6, "x"), TextOfLength(16, "y")}

CONSTANT Machines
VARIABLE turn

MCInit ==
  /\ turn \in Machines
  /\ Init /\ StoreInit /\ VariantInit /\ XmlTreeInit /\ PagesInit /\ MutexInit

documentVars == <<links, pagesVars>>
guestVars == <<storeVars, variantVars, mutexVars>>

DocumentNext ==
  \/ turn = "tree" /\ XmlTreeNext /\ UNCHANGED pagesVars
  \/ turn = "pages" /\ PagesNext /\ UNCHANGED links

GuestNext ==
  \/ turn = "groups" /\ StoreNext /\ UNCHANGED <<variantVars, mutexVars>>
  \/ turn = "values" /\ VariantNext /\ UNCHANGED <<storeVars, mutexVars>>
  \/ turn = "lock" /\ MutexNext /\ UNCHANGED <<storeVars, variantVars>>

\* The lock never comes to a stop; the others may.
MCNext ==
  /\ UNCHANGED turn
  /\ \/ turn = "config" /\ Next /\ UNCHANGED <<documentVars, guestVars>>
     \/ DocumentNext /\ UNCHANGED <<vars, guestVars>>
     \/ GuestNext /\ UNCHANGED <<vars, documentVars>>
     \/ turn # "lock" /\ UNCHANGED <<vars, documentVars, guestVars>>

MCSpec == MCInit /\ [][MCNext]_<<turn, vars, documentVars, guestVars>>
=============================================================================
