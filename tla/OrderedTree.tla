---------------------------- MODULE OrderedTree ----------------------------
(***************************************************************************)
(* What a pugixml document promises its callers: a tree whose nodes have   *)
(* an ordered list of children and one of attributes.  XmlTree, the lists  *)
(* as the library links them, implements this module.                      *)
(***************************************************************************)
EXTENDS Naturals, Sequences, FiniteSets, SequencesExt

CONSTANTS TreeNodes, TreeAttributes, Document

VARIABLES
  nodeKind,     \* what each node is; one that does not exist is "free"
  children,     \* the children of a node, in order
  attributesOf  \* its attributes, in order

treeVars == <<nodeKind, children, attributesOf>>

OrderedInit ==
  /\ nodeKind = [n \in TreeNodes |-> IF n = Document THEN "document" ELSE "free"]
  /\ children = [n \in TreeNodes |-> <<>>]
  /\ attributesOf = [n \in TreeNodes |-> <<>>]

Exists(n) == nodeKind[n] # "free"

\* n and everything under it, when below holds the children of each.
Under(below, n) ==
  LET closed == {S \in SUBSET TreeNodes : n \in S /\ \A m \in S : ToSet(below[m]) \subseteq S}
  IN {m \in TreeNodes : \A S \in closed : m \in S}

\* The sequence r is s, in its order, but for the members that are set apart.
SameBut(r, s, apart) ==
  /\ IsInjective(r) /\ ToSet(r) \ apart = ToSet(s) \ apart
  /\ \A i, j \in DOMAIN r :
       i < j /\ r[i] \notin apart /\ r[j] \notin apart => \E k, m \in DOMAIN s : k < m /\ s[k] = r[i] /\ s[m] = r[j]

AddNode ==
  LET before == children
      after == children'
  IN
  /\ UNCHANGED attributesOf
  /\ \E c \in TreeNodes, k \in {"element", "pcdata", "declaration"} :
       /\ ~Exists(c) /\ nodeKind' = [nodeKind EXCEPT ![c] = k]
       /\ \E p \in TreeNodes :
            /\ Exists(p) /\ c \in ToSet(after[p]) /\ SameBut(after[p], before[p], {c})
            /\ \A n \in TreeNodes \ {p} : after[n] = before[n]

AddAttribute ==
  LET before == attributesOf
      after == attributesOf'
  IN
  /\ UNCHANGED <<nodeKind, children>>
  /\ \E n \in TreeNodes, a \in TreeAttributes :
       /\ a \notin UNION {ToSet(before[m]) : m \in TreeNodes}
       /\ Exists(n) /\ a \in ToSet(after[n]) /\ SameBut(after[n], before[n], {a})
       /\ \A m \in TreeNodes \ {n} : after[m] = before[m]

\* Some members of a list go, and the rest is as it was.
Without(r, s, gone) == SameBut(r, s, gone) /\ ToSet(r) = ToSet(s) \ gone

\* Some attributes of a node go.
DropAttributes ==
  LET before == attributesOf
      after == attributesOf'
  IN
  /\ UNCHANGED <<nodeKind, children>>
  /\ \E n \in TreeNodes : \E gone \in SUBSET ToSet(before[n]) :
       /\ Without(after[n], before[n], gone)
       /\ \A m \in TreeNodes \ {n} : after[m] = before[m]

\* Some children of a node go, with everything under them.
DropChildren ==
  LET before == children
      after == children'
      attrsBefore == attributesOf
      attrsAfter == attributesOf'
  IN
  \E p \in TreeNodes : \E roots \in SUBSET ToSet(before[p]) :
    LET gone == UNION {Under(before, c) : c \in roots} IN
    /\ nodeKind' = [n \in TreeNodes |-> IF n \in gone THEN "free" ELSE nodeKind[n]]
    /\ \A n \in gone : after[n] = <<>> /\ attrsAfter[n] = <<>>
    /\ Without(after[p], before[p], roots)
    /\ \A n \in TreeNodes \ gone : attrsAfter[n] = attrsBefore[n] /\ (n # p => after[n] = before[n])

\* A node goes to another place, never below itself, and takes what is under it along.
MoveNode ==
  LET before == children
      after == children'
  IN
  /\ UNCHANGED <<nodeKind, attributesOf>>
  /\ \E p \in TreeNodes, c \in TreeNodes \ {Document} :
       /\ Exists(p) /\ Exists(c) /\ p \notin Under(before, c)
       /\ \A n \in TreeNodes :
            SameBut(after[n], before[n], {c}) /\ (c \in ToSet(after[n]) <=> n = p)

\* A copy of the node c, made of new nodes, is put under p; the rest of the tree is as
\* before.  As long as memory has room for it the copy has the shape that c had: node by
\* node the same kind, as many attributes, and children in the same order.
CopyNode ==
  LET before == children
      after == children'
      attrsBefore == attributesOf
      attrsAfter == attributesOf'
      kindAfter == nodeKind'
      existing == {n \in TreeNodes : Exists(n)}
      RoomFor(copied) ==
        /\ Cardinality(existing) + Cardinality(copied) <= Cardinality(TreeNodes)
        /\ Cardinality(UNION {ToSet(attrsBefore[n]) : n \in existing})
             + Cardinality(UNION {ToSet(attrsBefore[n]) : n \in copied}) <= Cardinality(TreeAttributes)
      SameShape(f, copied) ==
        \A n \in copied :
          /\ kindAfter[f[n]] = nodeKind[n]
          /\ Len(attrsAfter[f[n]]) = Len(attrsBefore[n])
          /\ after[f[n]] = [i \in DOMAIN before[n] |-> f[before[n][i]]]
  IN
  /\ \A n \in existing : kindAfter[n] = nodeKind[n] /\ attrsAfter[n] = attrsBefore[n]
  /\ \E p, c \in existing, d \in TreeNodes \ existing :
       /\ kindAfter[d] = nodeKind[c]
       /\ d \in ToSet(after[p]) /\ SameBut(after[p], before[p], {d})
       /\ \A n \in existing \ {p} : after[n] = before[n]
       /\ LET copied == Under(before, c) IN
          RoomFor(copied) => \E f \in Bijection(copied, Under(after, d)) : f[c] = d /\ SameShape(f, copied)

OrderedNext ==
  DropAttributes \/ AddAttribute \/ AddNode \/ DropChildren \/ MoveNode \/ CopyNode

OrderedSpec == OrderedInit /\ [][OrderedNext]_treeVars
=============================================================================
