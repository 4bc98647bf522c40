------------------------------ MODULE XmlParser -------------------------------
(***************************************************************************)
(* The XML parser the configuration files are read with (pugixml, as       *)
(* load_file runs it: the options are parse_default, and the text ends in  *)
(* the zero that load_file_impl puts behind it).  An editor writes a       *)
(* document piece by piece and the program may load it at any moment, also *)
(* in the middle of a piece: what the parser makes of it is compared with  *)
(* what was meant.                                                         *)
(*                                                                         *)
(* A character is a string; the keywords CDATA[ and DOCTYPE and each       *)
(* escape are one character.  A tree is the list of its nodes in document  *)
(* order, each with its depth.  The encoding is UTF-8 and memory does not  *)
(* run out.                                                                *)
(***************************************************************************)
EXTENDS Naturals, Sequences, SequencesExt

CONSTANTS
  Tags,      \* start tags: their name, the text that follows it, their attributes, whether they are empty
  Pieces,    \* comments, texts and so on: their text, their kind, the nodes they stand for
  NameChars, \* the letters names are made of (ct_symbol, ct_start_symbol)
  Escapes,   \* the escapes, and the character each is for
  MaxPieces  \* bound: pieces of a document

ASSUME DocumentAssumption ==
  /\ \A t \in Tags : t.name # <<>> /\ t.empty \in BOOLEAN
  /\ \A p \in Pieces : p.kind \in {"text", "markup", "doctype"}
  /\ MaxPieces \in Nat

VARIABLES
  text,    \* the file
  meant,   \* history: the tree its author means
  unended, \* history: the elements the author has not closed
  last,    \* history: the kind of the last piece, and where it starts
  pieces,  \* history: how many pieces there are
  sound,   \* history: the author makes no mistake; then, the file is a whole document
  status,  \* "writing", "parsing", "ok" or the error
  at,      \* the place in the text
  inTag,   \* the parser is among the attributes of a tag
  open,    \* the names from the root to the cursor
  tree     \* the nodes so far

docVars == <<text, meant, unended, last, pieces, sound>>
parserVars == <<at, inTag, open, tree>>
xmlVars == <<docVars, status, parserVars>>

XmlInit ==
  /\ text = <<>> /\ meant = <<>> /\ unended = <<>> /\ last = [kind |-> "none", start |-> 0]
  /\ pieces = 0 /\ sound = TRUE
  /\ status = "writing" /\ at = 1 /\ inTag = FALSE /\ open = <<>> /\ tree = <<>>

Node(depth, kind, value) == [depth |-> depth, kind |-> kind, value |-> value]

\* Has the document an element at its top?
HasElement(nodes) == \E i \in DOMAIN nodes : nodes[i].depth = 0 /\ nodes[i].kind = "element"

-----------------------------------------------------------------------------
(* The author.                                                             *)

WriteMore(kind, more) ==
  /\ status = "writing" /\ sound /\ pieces < MaxPieces
  /\ text' = text \o more
  /\ last' = [kind |-> kind, start |-> Len(text)]
  /\ pieces' = pieces + 1
  /\ UNCHANGED <<status, parserVars>>

AtDepth(nodes) == [i \in DOMAIN nodes |-> Node(Len(unended), nodes[i].kind, nodes[i].value)]

WriteStart(t) ==
  /\ WriteMore("markup", <<"<">> \o t.name \o t.rest)
  /\ meant' = Append(meant, Node(Len(unended), "element", t.name))
                \o [i \in DOMAIN t.attributes |-> Node(Len(unended) + 1, "attribute", t.attributes[i])]
  /\ unended' = IF t.empty THEN unended ELSE Append(unended, t.name)
  /\ UNCHANGED sound

\* Two texts in a row would be one.
WritePiece(p) ==
  /\ p.kind = "text" => last.kind # "text"
  /\ WriteMore(p.kind, p.text)
  /\ meant' = IF p.kind = "text" /\ unended = <<>> THEN meant ELSE meant \o AtDepth(p.nodes)
  /\ sound' = (p.kind = "doctype" => unended = <<>>)
  /\ UNCHANGED unended

WriteEnd(name) ==
  /\ WriteMore("markup", <<"<", "/">> \o name \o <<" ", ">">>)
  /\ sound' = (unended # <<>> /\ Last(unended) = name)
  /\ unended' = IF sound' THEN Front(unended) ELSE unended
  /\ UNCHANGED meant

\* The file is loaded as it is, or as a part of the last piece leaves it.
Load ==
  /\ status = "writing" /\ status' = "parsing"
  /\ \E n \in last.start .. Len(text) :
       /\ n > last.start \/ pieces = 0
       /\ text' = SubSeq(text, 1, n)
       /\ sound' = (sound /\ unended = <<>> /\ HasElement(meant) /\ (n = Len(text) \/ last.kind = "text"))
  /\ UNCHANGED <<meant, unended, last, pieces, parserVars>>

-----------------------------------------------------------------------------
(* Characters.                                                             *)

Spaces == {" ", "\n", "\r", "\t"}
Quotes == {"\"", "'"}

Ch(i) == IF i \in DOMAIN text THEN text[i] ELSE "end"
Starts(i, s) == \A k \in DOMAIN s : Ch(i + k - 1) = s[k]

Scan(i, Stop(_)) ==
  CHOOSE j \in i .. Len(text) + 1 :
    /\ Ch(j) = "end" \/ Stop(j)
    /\ \A k \in i .. j - 1 : ~Stop(k)
SkipSpaces(i) == Scan(i, LAMBDA j : Ch(j) \notin Spaces)
NameEnd(i) == Scan(i, LAMBDA j : Ch(j) \notin NameChars)
After(i, s) == Scan(i, LAMBDA j : Starts(j, s))

\* What is kept of the characters from i to j: of a line's end in two characters
\* one, and what Char makes of each.
Converted(i, j, Char(_)) ==
  LET kept == SelectSeq([k \in 1 .. (j + 1) - i |-> i + k - 1],
                        LAMBDA k : ~(text[k] = "\n" /\ k > i /\ text[k - 1] = "\r"))
  IN [k \in DOMAIN kept |-> Char(text[kept[k]])]

Unescaped(c) == IF c \in DOMAIN Escapes THEN Escapes[c] ELSE c
Line(c) == IF c = "\r" THEN "\n" ELSE c
TextChar(c) == Unescaped(Line(c))

\* Mutant of AttributeChar: escapes are only for texts.
AttributeCharRaw(c) == IF c \in Spaces THEN " " ELSE c
AttributeChar(c) == IF c \in Spaces THEN " " ELSE Unescaped(c)

-----------------------------------------------------------------------------
(* The parser: one action for each construct.                              *)

Parsing(tag) == status = "parsing" /\ inTag = tag

Throw(error) == status' = error /\ UNCHANGED <<docVars, parserVars>>

Move(i, tag, names, nodes) ==
  /\ at' = i /\ inTag' = tag /\ open' = names /\ tree' = tree \o nodes
  /\ UNCHANGED <<docVars, status>>

StartElement ==
  LET end == NameEnd(at + 1)
      name == SubSeq(text, at + 1, end - 1)
      node == <<Node(Len(open), "element", name)>>
  IN /\ Parsing(FALSE) /\ Ch(at) = "<" /\ Ch(at + 1) \in NameChars
     /\ \/ Ch(end) = ">" /\ Move(end + 1, FALSE, Append(open, name), node)
        \/ Ch(end) \in Spaces /\ Move(end + 1, TRUE, Append(open, name), node)
        \/ Ch(end) = "/" /\ Ch(end + 1) = ">" /\ Move(end + 2, FALSE, open, node)
        \/ /\ Ch(end) \notin Spaces \union {">"} /\ ~Starts(end, <<"/", ">">>)
           /\ Throw("bad start element")

Attribute ==
  LET start == SkipSpaces(at)
      end == NameEnd(start)
      equals == IF Ch(end) \in Spaces THEN SkipSpaces(end + 1) ELSE end
      quote == SkipSpaces(equals + 1)
      close == Scan(quote + 1, LAMBDA j : Ch(j) = Ch(quote))
      value == Converted(quote + 1, close - 1, AttributeChar)
      good == Ch(equals) = "=" /\ Ch(quote) \in Quotes /\ Ch(close) # "end" /\ Ch(close + 1) \notin NameChars
  IN /\ Parsing(TRUE) /\ Ch(start) \in NameChars
     /\ \/ /\ good
           /\ Move(close + 1, TRUE, open,
                   <<Node(Len(open), "attribute", <<SubSeq(text, start, end - 1), value>>)>>)
        \/ ~good /\ Throw("bad attribute")

EndOfTag ==
  LET i == SkipSpaces(at)
  IN /\ Parsing(TRUE) /\ Ch(i) \notin NameChars
     /\ \/ Ch(i) = ">" /\ Move(i + 1, FALSE, open, <<>>)
        \/ Starts(i, <<"/", ">">>) /\ Move(i + 2, FALSE, Front(open), <<>>)
        \/ Ch(i) # ">" /\ ~Starts(i, <<"/", ">">>) /\ Throw("bad start element")

EndElement ==
  LET end == NameEnd(at + 2)
      i == SkipSpaces(end)
      matches == open # <<>> /\ Last(open) = SubSeq(text, at + 2, end - 1)
  IN /\ Parsing(FALSE) /\ Starts(at, <<"<", "/">>)
     /\ \/ ~matches /\ Throw("end element mismatch")
        \/ matches /\ Ch(i) = ">" /\ Move(i + 1, FALSE, Front(open), <<>>)
        \/ matches /\ Ch(i) # ">" /\ Throw("bad end element")

\* Declarations and processing instructions are passed over.
Question ==
  LET end == After(NameEnd(at + 2), <<"?", ">">>)
      good == Ch(at + 2) \in NameChars /\ Ch(end) # "end"
  IN /\ Parsing(FALSE) /\ Starts(at, <<"<", "?">>)
     /\ \/ good /\ Move(end + 2, FALSE, open, <<>>)
        \/ ~good /\ Throw("bad pi")

\* So are comments.
Comment ==
  LET end == After(at + 4, <<"-", "-", ">">>)
      good == Ch(at + 3) = "-" /\ Ch(end) # "end"
  IN /\ Parsing(FALSE) /\ Starts(at, <<"<", "!", "-">>)
     /\ \/ good /\ Move(end + 3, FALSE, open, <<>>)
        \/ ~good /\ Throw("bad comment")

CData ==
  LET end == After(at + 4, <<"]", "]", ">">>)
      good == Ch(at + 3) = "CDATA[" /\ Ch(end) # "end"
  IN /\ Parsing(FALSE) /\ Starts(at, <<"<", "!", "[">>)
     /\ \/ good /\ Move(end + 3, FALSE, open, <<Node(Len(open), "cdata", Converted(at + 4, end - 1, Line))>>)
        \/ ~good /\ Throw("bad cdata")

\* A document type holds sections to ignore, which nest in themselves,
\* strings, instructions and comments, and groups of all that: where each ends.
\* None is Len(text) + 1.
IgnoreEnd(i) ==
  LET skip[j \in 1 .. Len(text) + 1, depth \in 0 .. Len(text)] ==
        CASE Ch(j) = "end" -> j
          [] Starts(j, <<"<", "!", "[">>) -> skip[j + 3, depth + 1]
          [] Starts(j, <<"]", "]", ">">>) -> IF depth = 0 THEN j + 3 ELSE skip[j + 3, depth - 1]
          [] OTHER -> skip[j + 1, depth]
  IN skip[i + 3, 0]

PrimitiveEnd(i) ==
  LET Behind(j, n) == IF Ch(j) = "end" THEN j ELSE j + n
  IN CASE Ch(i) \in Quotes -> Behind(Scan(i + 1, LAMBDA j : Ch(j) = Ch(i)), 1)
       [] Starts(i, <<"<", "?">>) -> Behind(After(i + 2, <<"?", ">">>), 2)
       [] Starts(i, <<"<", "!", "-", "-">>) -> Behind(After(i + 4, <<"-", "-", ">">>), 3)
       [] OTHER -> Len(text) + 1

GroupEnd(i) ==
  LET Group(j) == Starts(j, <<"<", "!">>) /\ Ch(j + 2) # "-"
      group[j \in 1 .. Len(text) + 1, depth \in 0 .. Len(text)] ==
        IF Ch(j) = "end" THEN j
        ELSE IF Group(j) THEN IF Ch(j + 2) = "[" THEN group[IgnoreEnd(j), depth] ELSE group[j + 2, depth + 1]
        ELSE IF Ch(j) \in Quotes \union {"<"} THEN group[PrimitiveEnd(j), depth]
        ELSE IF Ch(j) # ">" THEN group[j + 1, depth]
        ELSE IF depth = 0 THEN j ELSE group[j + 1, depth - 1]
  IN group[i + 2, 0]

Doctype ==
  LET end == GroupEnd(at)
      good == open = <<>> /\ Ch(end) # "end"
  IN /\ Parsing(FALSE) /\ Starts(at, <<"<", "!", "DOCTYPE">>)
     /\ \/ good /\ Move(end + 1, FALSE, open, <<>>)
        \/ ~good /\ Throw("bad doctype")

Unrecognized ==
  /\ Parsing(FALSE) /\ Ch(at) = "<"
  /\ Ch(at + 1) \notin NameChars \union {"/", "?"}
  /\ Ch(at + 1) = "!" => Ch(at + 2) \notin {"-", "[", "DOCTYPE"}
  /\ Throw("unrecognized tag")

\* Spaces alone are passed over, and so is all text outside the elements.
Text ==
  LET i == SkipSpaces(at)
      end == Scan(at, LAMBDA j : Ch(j) = "<")
      blank == Ch(i) \in {"<", "end"}
  IN /\ Parsing(FALSE) /\ Ch(at) \notin {"<", "end"}
     /\ \/ blank /\ Move(i, FALSE, open, <<>>)
        \/ ~blank /\ open = <<>> /\ Move(end, FALSE, open, <<>>)
        \/ /\ ~blank /\ open # <<>>
           /\ Move(IF Ch(end + 1) = "end" THEN Len(text) + 1 ELSE end, FALSE, open,
                   <<Node(Len(open), "pcdata", Converted(at, end - 1, TextChar))>>)

\* Mutant of Finish: the last check of parse_tree is missing.
FinishUnclosed ==
  /\ Parsing(FALSE) /\ Ch(at) = "end"
  /\ status' = IF HasElement(tree) THEN "ok" ELSE "no document element"
  /\ UNCHANGED <<docVars, parserVars>>

Finish ==
  /\ Parsing(FALSE) /\ Ch(at) = "end"
  /\ status' = CASE open # <<>> -> "end element mismatch"
                 [] open = <<>> /\ ~HasElement(tree) -> "no document element"
                 [] OTHER -> "ok"
  /\ UNCHANGED <<docVars, parserVars>>

XmlNext ==
  \/ \E t \in Tags : WriteStart(t) \/ WriteEnd(t.name)
  \/ \E p \in Pieces : WritePiece(p)
  \/ Load
  \/ StartElement \/ Attribute \/ EndOfTag \/ EndElement
  \/ Question \/ Comment \/ CData \/ Doctype \/ Unrecognized \/ Text
  \/ Finish

XmlSpec == XmlInit /\ [][XmlNext]_xmlVars

-----------------------------------------------------------------------------
\* A file that is not a whole document, because the program reads it while it is
\* written or because its tags do not match, is never taken for one
\* (load_file reports an error, so that the stored configuration stays).
PartsRefused == status = "ok" => sound

\* A whole document is accepted, and the tree holds its elements, attributes and
\* texts, in their order and at their depths, with escapes and line ends resolved.
ReadAsWritten ==
  (sound /\ status \notin {"writing", "parsing"}) => (status = "ok" /\ tree = meant)

\* The parser takes whole documents, those only, and for what they say, whatever the
\* editor that writes the file has got to when it is read (load_file, parse_tree).
DocumentsOnly == PartsRefused /\ ReadAsWritten
=============================================================================
