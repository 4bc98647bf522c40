------------------------------ MODULE XmlTree ------------------------------
(***************************************************************************)
(* The tree of a parsed file, as pugixml links it (libs/pugixml, the list  *)
(* operations of impl and the members of xml_node that change the tree).   *)
(* A node points to its first child only; the children form a list whose   *)
(* next pointers end in 0 and whose prev_sibling_c pointers are cyclic, so *)
(* that the first child's leads to the last.  Attributes form lists of the *)
(* same kind.  The parser uses the append operations; the others are there *)
(* for a program that edits the file.                                      *)
(*                                                                         *)
(* A document has MaxNodes nodes and MaxAttributes attributes of memory.   *)
(* When that is used up an allocation returns null, and what could not be  *)
(* allocated is left out, silently in the middle of a copy.  Memory that   *)
(* is free holds zeros here; nothing reads it.  Names, values and the      *)
(* memory that holds them are XmlPages.                                    *)
(***************************************************************************)
EXTENDS Naturals, Sequences, FiniteSets, SequencesExt

CONSTANTS MaxNodes,       \* nodes there is memory for, the document included
          MaxAttributes

ASSUME TreeAssumption == MaxNodes \in Nat \ {0} /\ MaxAttributes \in Nat

Nodes == 1 .. MaxNodes
Attributes == 1 .. MaxAttributes
Root == 1
Null == 0
NewKinds == {"element", "pcdata", "declaration"}

VARIABLE links
  \* kind    the type in the header of each node; "free" when it is not allocated
  \* parent
  \* kids    first_child of each node, prev_sibling_c and next_sibling
  \* made    the attributes that are allocated
  \* attrs   first_attribute of each node, prev_attribute_c and next_attribute

\* The pointers of the lists of one kind: first of the owner, prev and next of a member.
NoLists(owners, members) ==
  [first |-> [o \in owners |-> Null], prev |-> [x \in members |-> Null], next |-> [x \in members |-> Null]]

XmlTreeInit ==
  links = [kind |-> [n \in Nodes |-> IF n = Root THEN "document" ELSE "free"],
           parent |-> [n \in Nodes |-> Null],
           kids |-> NoLists(Nodes, Nodes),
           made |-> {},
           attrs |-> NoLists(Nodes, Attributes)]

-----------------------------------------------------------------------------
(* The operations on one list l: x is linked into the list of the owner o. *)

LinkLast(l, x, o) ==
  LET head == l.first[o]
      tail == l.prev[head]
  IN IF head = Null
     THEN [l EXCEPT !.first[o] = x, !.prev[x] = x]
     ELSE [l EXCEPT !.next[tail] = x, !.prev[x] = tail, !.prev[head] = x]

LinkFirst(l, x, o) ==
  LET head == l.first[o]
      linked == IF head = Null
                THEN [l EXCEPT !.prev[x] = x]
                ELSE [l EXCEPT !.prev[x] = l.prev[head], !.prev[head] = x]
  IN [linked EXCEPT !.next[x] = head, !.first[o] = x]

LinkAfter(l, x, place, o) ==
  LET follower == IF l.next[place] # Null THEN l.next[place] ELSE l.first[o]
  IN [l EXCEPT !.prev[follower] = x, !.next[x] = l.next[place], !.prev[x] = place, !.next[place] = x]

\* A plausible bug: what is put before the first member does not become the first.
LinkBeforeNoHead(l, x, place, o) ==
  LET before == l.prev[place]
  IN [l EXCEPT !.next[before] = x, !.prev[x] = before, !.next[x] = place, !.prev[place] = x]

\* The member before place has no next only when it is the last, and place the first.
LinkBefore(l, x, place, o) ==
  LET before == l.prev[place]
      linked == IF l.next[before] # Null
                THEN [l EXCEPT !.next[before] = x]
                ELSE [l EXCEPT !.first[o] = x]
  IN [linked EXCEPT !.prev[x] = before, !.next[x] = place, !.prev[place] = x]

Unlink(l, x, o) ==
  LET follower == IF l.next[x] # Null THEN l.next[x] ELSE l.first[o]
      back == [l EXCEPT !.prev[follower] = l.prev[x]]
      before == back.prev[x]
      forth == IF back.next[before] # Null
               THEN [back EXCEPT !.next[before] = back.next[x]]
               ELSE [back EXCEPT !.first[o] = back.next[x]]
  IN [forth EXCEPT !.prev[x] = Null, !.next[x] = Null]

\* The members of the list of o, in the order of the next pointers (of a list that is
\* broken and has a cycle, as many as there are).
MaxListed == MaxNodes + MaxAttributes
ListOf(l, o) ==
  LET from[p \in (DOMAIN l.next \union {Null}) \X (0 .. MaxListed)] ==
        IF p[1] = Null \/ p[2] = 0 THEN <<>> ELSE <<p[1]>> \o from[<<l.next[p[1]], p[2] - 1>>]
  IN IF l.first[o] = Null THEN <<>> ELSE from[<<l.first[o], MaxListed>>]
Members(l, o) == ToSet(ListOf(l, o))

\* Where a member can be put in the list of o: first, last, or next to another.
Places(l, o) == {<<"last">>, <<"first">>} \union ({"after", "before"} \X Members(l, o))

Link(l, x, o, at) ==
  CASE at[1] = "last" -> LinkLast(l, x, o)
    [] at[1] = "first" -> LinkFirst(l, x, o)
    [] at[1] = "after" -> LinkAfter(l, x, at[2], o)
    [] at[1] = "before" -> LinkBefore(l, x, at[2], o)

-----------------------------------------------------------------------------
(* Nodes and attributes: made, taken apart and copied, in the tree t.      *)

IsNode(t, n) == t.kind[n] # "free"
Least(set) == CHOOSE x \in set : \A y \in set : x <= y
SpareNodes(t) == {n \in Nodes : ~IsNode(t, n)}
SpareAttributes(t) == Attributes \ t.made

\* A node of kind k is allocated and linked under p.
WithNode(t, k, p, at) ==
  LET c == Least(SpareNodes(t)) IN
  [t EXCEPT !.kind[c] = k, !.parent[c] = p, !.kids = Link(t.kids, c, p, at)]

WithAttribute(t, n, at) ==
  LET a == Least(SpareAttributes(t)) IN
  [t EXCEPT !.made = @ \union {a}, !.attrs = Link(t.attrs, a, n, at)]

allow_insert_attribute(k) == k \in {"element", "declaration"}
allow_insert_child(k, c) ==
  /\ k \in {"document", "element"} /\ c \notin {"document", "free"}
  /\ c = "declaration" => k = "document"

\* n and everything under it: what no set lacks that has n and, of each of its nodes, the
\* members of the list.
Subtree(t, n) ==
  LET below == [m \in Nodes |-> Members(t.kids, m)]
      closed == {S \in SUBSET Nodes : n \in S /\ \A m \in S : below[m] \subseteq S}
  IN {m \in Nodes : \A S \in closed : m \in S}

\* The attributes as are freed: nothing of them is left in memory.
WithoutAttributes(t, as) ==
  [t EXCEPT !.made = @ \ as,
            !.attrs.prev = [a \in Attributes |-> IF a \in as THEN Null ELSE @[a]],
            !.attrs.next = [a \in Attributes |-> IF a \in as THEN Null ELSE @[a]]]

\* destroy_node on every node of roots, which no list holds any more.
Destroyed(t, roots) ==
  LET gone == UNION {Subtree(t, r) : r \in roots}
      Kept(f) == [n \in Nodes |-> IF n \in gone THEN Null ELSE f[n]]
      rest == WithoutAttributes(t, UNION {Members(t.attrs, n) : n \in gone})
  IN [rest EXCEPT !.kind = [n \in Nodes |-> IF n \in gone THEN "free" ELSE @[n]],
                  !.parent = Kept(@),
                  !.kids = [first |-> Kept(@.first), prev |-> Kept(@.prev), next |-> Kept(@.next)],
                  !.attrs.first = Kept(@)]

\* The attributes of the node s are copied to d, as far as memory goes.
CopyContents(t, d, s) ==
  LET copied[k \in 0 .. MaxListed] ==
        IF k = 0 THEN t
        ELSE LET u == copied[k - 1] IN
             IF SpareAttributes(u) = {} THEN u ELSE WithAttribute(u, d, <<"last">>)
  IN copied[Len(ListOf(t.attrs, s))]

\* The copying of the tree under s: the walk w is at the node sit, whose copy goes under
\* dit, or on its way back from it.  From there it goes on to the next sibling, or to that
\* of the nearest ancestor that has one; dit climbs with it.
Back(w) ==
  IF w.t.kids.next[w.sit] # Null
  THEN [w EXCEPT !.sit = w.t.kids.next[w.sit], !.back = FALSE]
  ELSE [w EXCEPT !.sit = w.t.parent[w.sit], !.dit = w.t.parent[w.dit]]

Copied(w) ==
  LET c == Least(SpareNodes(w.t))
      t == CopyContents(WithNode(w.t, w.t.kind[w.sit], w.dit, <<"last">>), c, w.sit)
      child == t.kids.first[w.sit]
  IN IF child # Null
     THEN [t |-> t, dit |-> c, sit |-> child, back |-> FALSE]
     ELSE [w EXCEPT !.t = t, !.back = TRUE]

\* A plausible bug: a copy that lies in what is copied is copied too.
CopyTurnIntoItself(w, d, s) ==
  IF w.sit \in {Null, s} THEN w
  ELSE IF w.back THEN Back(w)
  ELSE IF SpareNodes(w.t) = {} THEN [w EXCEPT !.back = TRUE] ELSE Copied(w)

\* The copy d itself is passed over, so that a tree that is copied into itself does not go
\* on for ever.
CopyTurn(w, d, s) ==
  IF w.sit \in {Null, s} THEN w
  ELSE IF w.back THEN Back(w)
  ELSE IF w.sit = d \/ SpareNodes(w.t) = {} THEN [w EXCEPT !.back = TRUE] ELSE Copied(w)

\* Every node is come to once and left once.
CopyTree(t, d, s) ==
  LET walk[k \in 0 .. 2 * MaxNodes] ==
        IF k = 0 THEN [t |-> CopyContents(t, d, s), dit |-> d, sit |-> t.kids.first[s], back |-> FALSE]
        ELSE CopyTurn(walk[k - 1], d, s)
  IN walk[2 * MaxNodes].t

-----------------------------------------------------------------------------
(* The members of xml_node that change the tree, called on the node n.      *)

AddChild(n) ==
  \E k \in NewKinds, at \in Places(links.kids, n) :
    /\ allow_insert_child(links.kind[n], k) /\ SpareNodes(links) # {}
    /\ links' = WithNode(links, k, n, at)

AddAttribute(n) ==
  \E at \in Places(links.attrs, n) :
    /\ allow_insert_attribute(links.kind[n]) /\ SpareAttributes(links) # {}
    /\ links' = WithAttribute(links, n, at)

\* A copy of an attribute differs from a new one in its strings only.
CopyAttribute(n) == links.made # {} /\ AddAttribute(n)

CopyChild(n) ==
  \E s \in Nodes, at \in Places(links.kids, n) :
    /\ IsNode(links, s) /\ allow_insert_child(links.kind[n], links.kind[s]) /\ SpareNodes(links) # {}
    /\ LET d == Least(SpareNodes(links)) IN
       links' = CopyTree(WithNode(links, links.kind[s], n, at), d, s)

\* A plausible bug: only the node itself is looked at, not its descendants.
allow_moveUnder(n, moved) ==
  /\ allow_insert_child(links.kind[n], links.kind[moved])
  /\ n # moved

allow_move(n, moved) ==
  /\ allow_insert_child(links.kind[n], links.kind[moved])
  /\ n \notin Subtree(links, moved)

\* The node is taken out of its list before it is put next to another, in the same list
\* maybe.
MoveChild(n) ==
  \E moved \in Nodes, at \in Places(links.kids, n) :
    /\ IsNode(links, moved) /\ allow_move(n, moved)
    /\ at[1] \in {"after", "before"} => at[2] # moved
    /\ LET out == Unlink(links.kids, moved, links.parent[moved]) IN
       links' = [links EXCEPT !.parent[moved] = n, !.kids = Link(out, moved, n, at)]

RemoveAttribute(n) ==
  \E a \in Members(links.attrs, n) :
    links' = WithoutAttributes([links EXCEPT !.attrs = Unlink(links.attrs, a, n)], {a})

RemoveAttributes(n) ==
  links' = [WithoutAttributes(links, Members(links.attrs, n)) EXCEPT !.attrs.first[n] = Null]

RemoveChild(n) ==
  \E c \in Members(links.kids, n) :
    links' = Destroyed([links EXCEPT !.kids = Unlink(links.kids, c, n), !.parent[c] = Null], {c})

RemoveChildren(n) ==
  links' = [Destroyed(links, Members(links.kids, n)) EXCEPT !.kids.first[n] = Null]

XmlTreeNext ==
  \E n \in Nodes :
    /\ IsNode(links, n)
    /\ \/ AddChild(n) \/ CopyChild(n) \/ MoveChild(n) \/ RemoveChild(n) \/ RemoveChildren(n)
       \/ AddAttribute(n) \/ CopyAttribute(n) \/ RemoveAttribute(n) \/ RemoveAttributes(n)

XmlTreeSpec == XmlTreeInit /\ [][XmlTreeNext]_links

-----------------------------------------------------------------------------
(* Both directions of every list agree: nobody is in it twice, the member  *)
(* before each is where its prev pointer leads, and the first one's leads  *)
(* to the last, where the next append goes (the list operations of impl).  *)
Linked(l, o) ==
  LET s == ListOf(l, o) IN
  /\ IsInjective(s)
  /\ \A i \in 1 .. Len(s) : l.prev[s[i]] = IF i = 1 THEN s[Len(s)] ELSE s[i - 1]
ListsLinked == \A o \in Nodes : Linked(links.kids, o) /\ Linked(links.attrs, o)

(* What is allocated is in the document: from its root every node that     *)
(* exists is reached, each through the list of its own parent, and every   *)
(* attribute that exists is in the list of such a node (destroy_node,      *)
(* allow_move).                                                            *)
AllInDocument ==
  /\ {n \in Nodes : IsNode(links, n)} = Subtree(links, Root)
  /\ \A p \in Nodes : \A n \in Members(links.kids, p) : links.parent[n] = p
  /\ links.made = UNION {Members(links.attrs, n) : n \in Subtree(links, Root)}

(* The lists hold a tree with ordered children and attributes, and every   *)
(* call does to it what its name says and leaves the rest as it was; a     *)
(* copy has the shape of what was copied.                                  *)
Ordered == INSTANCE OrderedTree
  WITH TreeNodes <- Nodes, TreeAttributes <- Attributes, Document <- Root,
       nodeKind <- links.kind,
       children <- [n \in Nodes |-> ListOf(links.kids, n)],
       attributesOf <- [n \in Nodes |-> ListOf(links.attrs, n)]
KeepsOrder == Ordered!OrderedSpec

(* And the links that callers do not see are right all the time: the next  *)
(* call, whichever it is, finds every list closed and everything in it.    *)
DocumentKept == [](ListsLinked /\ AllInDocument) /\ KeepsOrder
=============================================================================
