------------------------------ MODULE XmlPages ------------------------------
(***************************************************************************)
(* The memory of a pugixml document: the page allocator (xml_allocator)    *)
(* and the strings that nodes and attributes own or borrow (strcpy_insitu, *)
(* node_copy_string).  A page is filled from its start; what is freed in   *)
(* it is only counted, and the page goes when all of it is free, but for   *)
(* the last page, _root, which is emptied and used again.  Large strings   *)
(* get pages of their own, in front of the last.  Where in the list the    *)
(* other pages are tells nobody anything, so it is a set here.  A string   *)
(* of the parsed file stays in the file's buffer until it is replaced by   *)
(* one that does not fit there.                                            *)
(*                                                                         *)
(* A holder is a node or an attribute, with its name; its value is a       *)
(* second string of the same kind.  Sizes are in bytes, their constants    *)
(* scaled down.  Where the holders are linked is XmlTree.                  *)
(***************************************************************************)
EXTENDS Integers, FiniteSets

CONSTANTS
  Holders,
  Texts,            \* non-empty strings, records of a length and a tag
  PageSize,         \* xml_memory_page_size
  HolderSize,       \* sizeof(xml_node_struct)
  StringHeader,     \* sizeof(xml_memory_string_header)
  BlockAlignment,   \* xml_memory_block_alignment
  MaxEncoded,       \* max_encoded_offset: the sizes a string's header can hold
  ReuseThreshold,   \* reuse_threshold
  MaxPages,         \* pages malloc has memory for
  MaxParsed         \* bound: strings of the file

\* The code's own static assertion lets the page size be max_encoded_offset; then a
\* string as large as an empty last page would go wrong.  The sizes it is built with are
\* far apart.
ASSUME PagesAssumption ==
  /\ PageSize \in Nat /\ HolderSize \in 1 .. PageSize \div 4 /\ PageSize < MaxEncoded
  /\ {StringHeader, ReuseThreshold, MaxPages, MaxParsed, MaxEncoded} \subseteq Nat
  /\ BlockAlignment \in Nat \ {0}
  /\ \A t \in Texts : t.len \in Nat \ {0}

NoText == [len |-> 0, tag |-> "none"]
Sentinel == 0
LargeThreshold == PageSize \div 4

\* A block of memory: a page and where in it, and a page of the file's buffer.
FileBuffer == MaxPages + 1
Nowhere == [page |-> 0, at |-> 0, size |-> 0]

VARIABLES
  pages,      \* the pages in the list, the sentinel among them
  root,       \* _root: the last
  pageBusy,   \* busy_size of each page; that of the last is not up to date
  pageFreed,  \* freed_size of each page
  busySize,   \* _busy_size: how much of the last page is used
  block,      \* where each holder is; Nowhere when it does not exist
  name,       \* its string: where it is, or Nowhere
  allocated,  \* the holders whose name is in a page (xml_memory_page_name_allocated_mask)
  shared,     \* those that share it with another (xml_memory_page_contents_shared_mask)
  memory,     \* what the strings in use read, by page and place
  parsed,     \* how many strings the file had
  given       \* history: the name each holder was given last

pagesVars == <<pages, root, pageBusy, pageFreed, busySize, block, name, allocated, shared, memory, parsed, given>>

PagesInit ==
  /\ pages = {Sentinel} /\ root = Sentinel /\ busySize = PageSize
  /\ pageBusy = [i \in Sentinel .. MaxPages |-> IF i = Sentinel THEN PageSize ELSE 0]
  /\ pageFreed = [i \in Sentinel .. MaxPages |-> 0]
  /\ block = [h \in Holders |-> Nowhere] /\ name = [h \in Holders |-> Nowhere]
  /\ allocated = {} /\ shared = {} /\ parsed = 0
  /\ memory = [p \in {} |-> NoText]
  /\ given = [h \in Holders |-> NoText]

-----------------------------------------------------------------------------
(* xml_allocator, on a heap m: the pages and their sizes, _busy_size, and  *)
(* what was allocated last.                                                *)

Heap == [pages |-> pages, root |-> root, busy |-> pageBusy, freed |-> pageFreed, top |-> busySize, got |-> Nowhere]
Unused(m) == (1 .. MaxPages) \ m.pages

\* A page that malloc has, with the sizes it starts with.
PageMade(m, size) ==
  LET i == CHOOSE j \in Unused(m) : TRUE IN
  [m EXCEPT !.pages = @ \union {i}, !.busy[i] = size, !.freed[i] = 0, !.got = [page |-> i, at |-> 0, size |-> 0]]

\* A page of the usual size becomes the last; one for a large string goes before it.
allocate_memory_oob(m, size) ==
  IF Unused(m) = {} THEN [m EXCEPT !.got = Nowhere]
  ELSE IF size <= LargeThreshold
  THEN LET n == PageMade([m EXCEPT !.busy[m.root] = m.top], 0) IN
       [n EXCEPT !.root = n.got.page, !.top = size, !.got.size = size]
  ELSE [PageMade(m, size) EXCEPT !.got.size = size]

allocate_memory(m, size) ==
  IF m.top + size > PageSize
  THEN allocate_memory_oob(m, size)
  ELSE [m EXCEPT !.top = @ + size, !.got = [page |-> m.root, at |-> m.top, size |-> size]]

\* The bytes of a string, rounded up.
RoundedUp(n) == ((n + BlockAlignment - 1) \div BlockAlignment) * BlockAlignment
FullSize(text) == RoundedUp(StringHeader + text.len + 1)

\* The header of a string holds its size, or 0 for what has a page of its own.
allocate_string(m, text) ==
  LET n == allocate_memory(m, FullSize(text)) IN
  IF n.got = Nowhere \/ n.got.size < MaxEncoded THEN n ELSE [n EXCEPT !.got.size = 0]

\* A plausible bug: the last page is used again without forgetting what was freed in it.
deallocate_memoryCounted(m, b, size) ==
  LET i == b.page
      n == [m EXCEPT !.busy[i] = IF i = m.root THEN m.top ELSE @, !.freed[i] = @ + size]
  IN IF n.freed[i] # n.busy[i] THEN n
     ELSE IF i = m.root THEN [n EXCEPT !.busy[i] = 0, !.top = 0]
     ELSE [n EXCEPT !.pages = @ \ {i}]

\* A plausible bug: the size of the page that is being filled is not brought up to date.
deallocate_memoryStale(m, b, size) ==
  LET i == b.page
      n == [m EXCEPT !.freed[i] = @ + size]
  IN IF n.freed[i] # n.busy[i] THEN n
     ELSE IF i = m.root THEN [n EXCEPT !.busy[i] = 0, !.freed[i] = 0, !.top = 0]
     ELSE [n EXCEPT !.pages = @ \ {i}]

deallocate_memory(m, b, size) ==
  LET i == b.page
      n == [m EXCEPT !.busy[i] = IF i = m.root THEN m.top ELSE @, !.freed[i] = @ + size]
  IN IF n.freed[i] # n.busy[i] THEN n
     ELSE IF i = m.root THEN [n EXCEPT !.busy[i] = 0, !.freed[i] = 0, !.top = 0]
     ELSE [n EXCEPT !.pages = @ \ {i}]

deallocate_string(m, b) == deallocate_memory(m, b, IF b.size = 0 THEN m.busy[b.page] ELSE b.size)

-----------------------------------------------------------------------------
(* Strings.                                                                *)

Made(h) == block[h] # Nowhere
Place(b) == <<b.page, b.at>>
TextOf(h) == IF name[h] = Nowhere THEN NoText ELSE memory[Place(name[h])]

\* What is in memory at the places that are still in use, with text at b.
Written(names, b, text) ==
  LET used == {Place(names[h]) : h \in {g \in Holders : names[g] # Nowhere}} IN
  [p \in used |-> IF p = Place(b) THEN text ELSE memory[p]]

Uses(m) ==
  pages' = m.pages /\ root' = m.root /\ pageBusy' = m.busy /\ pageFreed' = m.freed /\ busySize' = m.top

\* A plausible bug: shared strings are written over.
strcpy_insitu_allowShared(h, text) ==
  LET old == TextOf(h).len IN
  /\ old >= text.len
  /\ h \in allocated => old < ReuseThreshold \/ old - text.len < old \div 2

strcpy_insitu_allow(h, text) ==
  LET old == TextOf(h).len IN
  /\ h \notin shared
  /\ old >= text.len
  /\ h \in allocated => old < ReuseThreshold \/ old - text.len < old \div 2

\* A new string of h, in the heap m: the old one is freed after the new is written.
NewString(m, h, text) ==
  LET n == allocate_string(m, text)
      b == n.got
  IN IF b = Nowhere
     THEN Uses(n) /\ UNCHANGED <<name, memory, allocated, given>>
     ELSE /\ Uses(IF h \in allocated THEN deallocate_string(n, name[h]) ELSE n)
          /\ name' = [name EXCEPT ![h] = b]
          /\ memory' = Written(name', b, text)
          /\ allocated' = allocated \union {h}
          /\ given' = [given EXCEPT ![h] = text]

-----------------------------------------------------------------------------
(* What the parser and the callers do.                                     *)

\* The parser makes a holder; its string stays where the file was read to.
Parse(h, text) ==
  LET m == allocate_memory(Heap, HolderSize)
      b == [page |-> FileBuffer, at |-> parsed, size |-> 0]
  IN
  /\ ~Made(h) /\ m.got # Nowhere /\ parsed < MaxParsed
  /\ Uses(m) /\ parsed' = parsed + 1
  /\ block' = [block EXCEPT ![h] = m.got]
  /\ name' = [name EXCEPT ![h] = b]
  /\ memory' = Written(name', b, text)
  /\ given' = [given EXCEPT ![h] = text]
  /\ UNCHANGED <<allocated, shared>>

\* append_child and append_attribute, before the new holder has a name.
Add(h) ==
  LET m == allocate_memory(Heap, HolderSize) IN
  /\ ~Made(h) /\ m.got # Nowhere
  /\ Uses(m)
  /\ block' = [block EXCEPT ![h] = m.got]
  /\ UNCHANGED <<name, allocated, shared, memory, parsed, given>>

\* set_name with an empty string, with one that fits where the old one is, and with
\* any other.
Unname(h) ==
  /\ Made(h)
  /\ Uses(IF h \in allocated THEN deallocate_string(Heap, name[h]) ELSE Heap)
  /\ name' = [name EXCEPT ![h] = Nowhere]
  /\ memory' = Written(name', Nowhere, NoText)
  /\ allocated' = allocated \ {h}
  /\ given' = [given EXCEPT ![h] = NoText]
  /\ UNCHANGED <<block, shared, parsed>>

Overwrite(h, text) ==
  /\ Made(h) /\ name[h] # Nowhere /\ strcpy_insitu_allow(h, text)
  /\ memory' = Written(name, name[h], text)
  /\ given' = [given EXCEPT ![h] = text]
  /\ UNCHANGED <<pages, root, pageBusy, pageFreed, busySize, block, name, allocated, shared, parsed>>

Rename(h, text) ==
  /\ Made(h)
  /\ name[h] # Nowhere => ~strcpy_insitu_allow(h, text)
  /\ NewString(Heap, h, text)
  /\ UNCHANGED <<block, shared, parsed>>

\* append_copy and its like: a string of the file is shared, any other copied.
CopyHolder(h, source) ==
  LET m == allocate_memory(Heap, HolderSize) IN
  /\ ~Made(h) /\ Made(source) /\ m.got # Nowhere
  /\ block' = [block EXCEPT ![h] = m.got]
  /\ IF name[source] # Nowhere /\ source \in allocated
     THEN NewString(m, h, TextOf(source)) /\ UNCHANGED shared
     ELSE /\ Uses(m)
          /\ name' = [name EXCEPT ![h] = name[source]]
          /\ shared' = IF name[source] # Nowhere THEN shared \union {h, source} ELSE shared
          /\ given' = [given EXCEPT ![h] = given[source]]
          /\ UNCHANGED <<memory, allocated>>
  /\ UNCHANGED parsed

\* destroy_node and destroy_attribute.
DestroyHolder(h) ==
  LET unnamed == IF h \in allocated THEN deallocate_string(Heap, name[h]) ELSE Heap IN
  /\ Made(h)
  /\ Uses(deallocate_memory(unnamed, block[h], HolderSize))
  /\ block' = [block EXCEPT ![h] = Nowhere]
  /\ name' = [name EXCEPT ![h] = Nowhere]
  /\ memory' = Written(name', Nowhere, NoText)
  /\ allocated' = allocated \ {h} /\ shared' = shared \ {h}
  /\ given' = [given EXCEPT ![h] = NoText]
  /\ UNCHANGED parsed

\* reset: every page but the sentinel goes, and the file's buffer.
Reset ==
  /\ pages' = {Sentinel} /\ root' = Sentinel /\ busySize' = PageSize
  /\ pageBusy' = [i \in Sentinel .. MaxPages |-> IF i = Sentinel THEN PageSize ELSE 0]
  /\ pageFreed' = [i \in Sentinel .. MaxPages |-> 0]
  /\ block' = [h \in Holders |-> Nowhere] /\ name' = [h \in Holders |-> Nowhere]
  /\ allocated' = {} /\ shared' = {} /\ parsed' = 0 /\ memory' = [p \in {} |-> NoText]
  /\ given' = [h \in Holders |-> NoText]

PagesNext ==
  \/ \E h \in Holders : Add(h) \/ Unname(h) \/ DestroyHolder(h) \/ \E source \in Holders : CopyHolder(h, source)
  \/ \E h \in Holders, text \in Texts : Parse(h, text) \/ Overwrite(h, text) \/ Rename(h, text)
  \/ Reset

PagesSpec == PagesInit /\ [][PagesNext]_pagesVars

-----------------------------------------------------------------------------
(* Whatever is added, renamed, copied and removed, every holder reads the  *)
(* name it was given last: no string is written over or given away while   *)
(* another still reads it (strcpy_insitu, node_copy_string).               *)
NamesKept == \A h \in Holders : TextOf(h) = given[h]

Filled(i) == IF i = root THEN busySize ELSE pageBusy[i]

\* The blocks the document needs: for each holder, and for each string of its own.
Needed == {<<"holder", h>> : h \in {g \in Holders : Made(g)}} \union {<<"string", h>> : h \in allocated}
BlockOf(u) ==
  IF u[1] = "holder" THEN [block[u[2]] EXCEPT !.size = HolderSize]
  ELSE [name[u[2]] EXCEPT !.size = IF @ = 0 THEN pageBusy[name[u[2]].page] ELSE @]
BytesOf(b) == b.at .. b.at + b.size - 1
BytesNeeded(i) == UNION {BytesOf(BlockOf(u)) : u \in {v \in Needed : BlockOf(v).page = i}}

(* What is needed lies in pages that the document still has, within what   *)
(* has been handed out of them, and nothing overlaps: a page is not freed  *)
(* or used from its start again too early (deallocate_memory).             *)
NothingReused ==
  /\ \A u \in Needed : BlockOf(u).page \in pages /\ BytesOf(BlockOf(u)) \subseteq 0 .. Filled(BlockOf(u).page) - 1
  /\ \A u, v \in Needed :
       u # v /\ BlockOf(u).page = BlockOf(v).page => BytesOf(BlockOf(u)) \cap BytesOf(BlockOf(v)) = {}

(* Nor too late: a page counts as used as many bytes as are needed, and    *)
(* every page but the first and the last holds some.  A large string       *)
(* always finds a page to go in front of, as allocate_memory_oob asserts.  *)
PagesAccounted ==
  /\ \A i \in pages \ {Sentinel} :
       /\ Filled(i) - pageFreed[i] = Cardinality(BytesNeeded(i))
       /\ i # root => BytesNeeded(i) # {}
  /\ Needed # {} => root # Sentinel

(* The memory of a document: no name changes but by being set, and no page *)
(* is given back too early or too late (xml_allocator, strcpy_insitu).     *)
MemoryRight == NamesKept /\ NothingReused /\ PagesAccounted
=============================================================================
