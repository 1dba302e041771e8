--------------------------- MODULE GraphDocuments ---------------------------
(***************************************************************************)
(* The documents a snapshot is rendered as (src/graph/rendering), and what  *)
(* a reader of each format makes of them. A document is a sequence of       *)
(* statements and a statement a sequence of atoms: the characters of a      *)
(* label that some format uses for itself are atoms, and so are the words   *)
(* of a format. A label is typed atom by atom, so every awkward one occurs. *)
(*                                                                          *)
(* The headline, the summary and the layout of the documents are left out.  *)
(* encoding/json and html.EscapeString, which quote whatever they are       *)
(* given, are outside src/: the JSON document and the page are not here.    *)
(* A group of CollapseByPattern may be called anything that is not empty.   *)
(***************************************************************************)
EXTENDS Naturals, Sequences, FiniteSets, SequencesExt, TLC

CONSTANTS
  Atoms,      \* what a label is typed from: "a", "quote", "bs", "n", "newline", "return",
              \* "hash", "quot", "semi", "comma"
  Plain,      \* a label that needs no quoting
  MaxLabel    \* bound on the atoms of a label

VARIABLE label

-----------------------------------------------------------------------------
\* strings.NewReplacer over single characters.
Replaced(text, replacement) ==
  FlattenSeq([i \in DOMAIN text |->
                IF text[i] \in DOMAIN replacement THEN replacement[text[i]] ELSE <<text[i]>>])

Dropped == << >>
DotEscapes ==
  [c \in {"bs", "quote", "newline", "return"} |->
     CASE c = "bs" -> <<"bs", "bs">> [] c = "quote" -> <<"bs", "quote">>
       [] c = "newline" -> <<"bs", "n">> [] c = "return" -> Dropped]
D2Escapes == [DotEscapes EXCEPT !["newline"] = <<"space">>]
MermaidEscapes ==
  [c \in {"hash", "quote", "newline", "return"} |->
     CASE c = "hash" -> <<"hash", "35", "semi">> [] c = "quote" -> <<"hash", "quot", "semi">>
       [] c = "newline" -> <<"space">> [] c = "return" -> Dropped]

dotEscapedQuotesOnly(value) == Replaced(value, [c \in {"quote"} |-> <<"bs", "quote">>])
dotEscaped(value) == Replaced(value, DotEscapes)
d2Escaped(value) == Replaced(value, D2Escapes)
mermaidEscaped(value) == Replaced(value, MermaidEscapes)
Quoted(escaped) == <<"quote">> \o escaped \o <<"quote">>

\* csvField: quoted only when it must be, its own quotes doubled.
csvField(value) ==
  IF Range(value) \cap {"comma", "quote", "return", "newline"} = {} THEN value
  ELSE Quoted(Replaced(value, [c \in {"quote"} |-> <<"quote", "quote">>]))

\* strconv.Itoa: one word, like every atom.
Itoa(n) == ToString(n)

\* arrowLabel: a single dependency is an arrow without a number.
arrowLabel(edge) == IF edge.count < 2 THEN << >> ELSE <<Itoa(edge.count)>>

\* nodeIdentifiers: the nodes in their order, then the ends of the arrows.
nodeIdentifiers(snapshot) ==
  LET ends == FlattenSeq([i \in DOMAIN snapshot.edges |-> <<snapshot.edges[i].source, snapshot.edges[i].target>>])
      labels == [i \in DOMAIN snapshot.nodes |-> snapshot.nodes[i].label] \o ends
      first(l) == CHOOSE i \in DOMAIN labels : labels[i] = l /\ \A j \in 1 .. i - 1 : labels[j] # l
  IN  [l \in Range(labels) |-> "n" \o Itoa(Cardinality({labels[j] : j \in 1 .. first(l) - 1}))]

If(condition, text) == IF condition THEN text ELSE << >>

\* The statements of each document: a box for every node, then every arrow.
RenderDot(snapshot) ==
  [i \in DOMAIN snapshot.nodes |->
     LET n == snapshot.nodes[i]
     IN  Quoted(dotEscaped(n.label)) \o <<"[label=">> \o Quoted(dotEscaped(n.label)) \o If(n.external, <<"dashed">>)] \o
  [i \in DOMAIN snapshot.edges |->
     LET e == snapshot.edges[i]
     IN  Quoted(dotEscaped(e.source)) \o <<"->">> \o Quoted(dotEscaped(e.target)) \o
         arrowLabel(e) \o If(e.external, <<"dashed">>)]

RenderD2(snapshot) ==
  LET id == nodeIdentifiers(snapshot)
  IN  [i \in DOMAIN snapshot.nodes |->
         LET n == snapshot.nodes[i]
         IN  <<id[n.label], "{label:">> \o Quoted(d2Escaped(n.label)) \o If(n.external, <<"dashed">>)] \o
      [i \in DOMAIN snapshot.edges |->
         LET e == snapshot.edges[i] IN <<id[e.source], "->", id[e.target]>> \o arrowLabel(e)]

RenderMermaid(snapshot) ==
  LET id == nodeIdentifiers(snapshot)
  IN  [i \in DOMAIN snapshot.nodes |->
         LET n == snapshot.nodes[i]
         IN  <<id[n.label], IF n.external THEN "([" ELSE "[">> \o Quoted(mermaidEscaped(n.label))] \o
      [i \in DOMAIN snapshot.edges |->
         LET e == snapshot.edges[i] IN <<id[e.source], "->", id[e.target]>> \o arrowLabel(e)]

RenderCSV(snapshot) ==
  LET row(fields) == FlattenSeq([i \in DOMAIN fields |-> If(i > 1, <<"comma">>) \o csvField(fields[i])])
      flag(external) == <<IF external THEN "true" ELSE "false">>
  IN  [i \in DOMAIN snapshot.nodes |->
         LET n == snapshot.nodes[i] IN row(<<<<"node">>, n.label, << >>, << >>, flag(n.external)>>)] \o
      [i \in DOMAIN snapshot.edges |->
         LET e == snapshot.edges[i]
         IN  row(<<<<"edge">>, e.source, e.target, <<Itoa(e.count)>>, flag(e.external)>>)]

-----------------------------------------------------------------------------
\* NewSnapshot over two nodes, the typed one and a plain one: in order, the
\* typed label after the plain one or before it.
Edge(source, target, count, external) ==
  [source |-> source, target |-> target, count |-> count, external |-> external]
Snapshot ==
  [nodes |-> <<[label |-> Plain, external |-> FALSE]>> \o
             If(label # Plain, <<[label |-> label, external |-> TRUE]>>),
   edges |-> <<Edge(Plain, label, 3, TRUE)>> \o If(label # Plain, <<Edge(label, Plain, 1, FALSE)>>)]

DrawInit == \E atom \in Atoms : label = <<atom>>
Type(atom) == Len(label) < MaxLabel /\ label' = Append(label, atom)
DrawNext == \E atom \in Atoms : Type(atom)

-----------------------------------------------------------------------------
\* Reading: a quoted string ends at its first quote that is not escaped, or
\* not at all.
Backslashes(text, j) == \* the run of them before position j
  Cardinality({i \in 1 .. j - 1 : \A k \in i .. j - 1 : text[k] = "bs"})

StringEnd(text, start, escapes) ==
  Min({j \in start + 1 .. Len(text) : text[j] = "quote" /\ (escapes => Backslashes(text, j) % 2 = 0)}
      \cup {Len(text) + 1})

Unescaped(body) ==
  LET from[i \in 1 .. Len(body) + 2] ==
        IF i > Len(body) THEN << >>
        ELSE IF body[i] = "bs" /\ i < Len(body) THEN <<IF body[i + 1] = "n" THEN "newline" ELSE body[i + 1]>> \o from[i + 2]
        ELSE <<body[i]>> \o from[i + 1]
  IN  from[1]

Entities(body) ==
  LET from[i \in 1 .. Len(body) + 3] ==
        IF i > Len(body) THEN << >>
        ELSE IF body[i] = "hash" /\ i < Len(body) THEN <<IF body[i + 1] = "35" THEN "hash" ELSE "quote">> \o from[i + 3]
        ELSE <<body[i]>> \o from[i + 1]
  IN  from[1]

Body(text, start, escapes) == SubSeq(text, start + 1, StringEnd(text, start, escapes) - 1)
Rest(text, start, escapes) == SubSeq(text, StringEnd(text, start, escapes) + 1, Len(text))

\* What is said behind an arrow: its number, one for none.
CountRead(rest) == IF rest # << >> /\ rest[1] # "dashed" THEN rest[1] ELSE "1"

Box(l, external) == [label |-> l, external |-> external]
Arrow(source, target, count) == [source |-> source, target |-> target, count |-> count]

ReadDot(document) ==
  LET rest(s) == Rest(s, 1, TRUE)
      first(s) == Unescaped(Body(s, 1, TRUE))
      second(s) == Unescaped(Body(rest(s), 2, TRUE))
      next(s) == IF rest(s) = << >> THEN "none" ELSE rest(s)[1]
      tail(s) == Rest(rest(s), 2, TRUE)
  IN  [boxes |-> {Box(second(s), tail(s) = <<"dashed">>) : s \in {s \in Range(document) : next(s) = "[label="}},
       arrows |-> {Arrow(first(s), second(s), CountRead(tail(s))) : s \in {s \in Range(document) : next(s) = "->"}}]

\* D2 and Mermaid: the boxes say what the identifiers of the arrows stand for.
ReadIdentified(document, escapes, external(_)) ==
  LET boxes == {s \in Range(document) : s[2] # "->"}
      text(s) == IF escapes THEN Unescaped(Body(s, 3, TRUE)) ELSE Entities(Body(s, 3, FALSE))
      named(id) == text(CHOOSE s \in boxes : s[1] = id)
  IN  [boxes |-> {Box(text(s), external(s)) : s \in boxes},
       arrows |-> {Arrow(named(s[1]), named(s[3]), CountRead(SubSeq(s, 4, Len(s)))) : s \in Range(document) \ boxes}]

ReadD2(document) == ReadIdentified(document, TRUE, LAMBDA s : Rest(s, 3, TRUE) = <<"dashed">>)
ReadMermaid(document) == ReadIdentified(document, FALSE, LAMBDA s : s[2] = "([")

\* RFC 4180: a quoted field ends at a quote that is not doubled.
Fields(row) ==
  LET quotes(i, j) == Cardinality({k \in i .. j : row[k] = "quote"})
      end(i) == CHOOSE j \in i .. Len(row) + 1 :
                  /\ j = Len(row) + 1 \/ row[j] = "comma"
                  /\ (i <= Len(row) /\ row[i] = "quote") => quotes(i, j - 1) % 2 = 0
                  /\ \A k \in i .. j - 1 : row[k] = "comma" => quotes(i, k) % 2 = 1
      undoubled(text) ==
        LET body == SubSeq(text, 2, Len(text) - 1)
            kept == SelectSeq([k \in DOMAIN body |-> k],
                              LAMBDA k : body[k] # "quote" \/ Cardinality({m \in 1 .. k : \A n \in m .. k : body[n] = "quote"}) % 2 = 1)
        IN  [k \in DOMAIN kept |-> body[kept[k]]]
      value(text) == IF text # << >> /\ text[1] = "quote" THEN undoubled(text) ELSE text
      from[i \in 1 .. Len(row) + 2] ==
        IF i > Len(row) + 1 THEN << >>
        ELSE <<value(SubSeq(row, i, end(i) - 1))>> \o from[end(i) + 1]
  IN  from[1]

ReadCSV(document) ==
  LET rows == {Fields(document[i]) : i \in DOMAIN document}
  IN  [boxes |-> {Box(r[2], r[5] = <<"true">>) : r \in {r \in rows : r[1] = <<"node">>}},
       arrows |-> {Arrow(r[2], r[3], r[4][1]) : r \in {r \in rows : r[1] = <<"edge">>}}]

-----------------------------------------------------------------------------
\* What a format can say of a label: a carriage return is never drawn, and a
\* line break is a space in D2 and in Mermaid.
Legible(format, l) ==
  Replaced(l, CASE format = "csv" -> << >>
                [] format = "dot" -> [c \in {"return"} |-> Dropped]
                [] OTHER -> [c \in {"return", "newline"} |-> IF c = "return" THEN Dropped ELSE <<"space">>])

\* Whatever its nodes are called, each document says the same of a snapshot:
\* its boxes, which of them are outside the project, its arrows with their ends
\* and how many dependencies each stands for; and no label breaks a statement
\* in two, the quoted fields of CSV aside.
DocumentsAreReadBack ==
  LET said(format) ==
        [boxes |-> {Box(Legible(format, n.label), n.external) : n \in Range(Snapshot.nodes)},
         arrows |-> {Arrow(Legible(format, e.source), Legible(format, e.target), Itoa(e.count)) : e \in Range(Snapshot.edges)}]
      whole(document) == \A s \in Range(document) : Range(s) \cap {"newline", "return"} = {}
  IN  /\ ReadDot(RenderDot(Snapshot)) = said("dot") /\ whole(RenderDot(Snapshot))
      /\ ReadD2(RenderD2(Snapshot)) = said("d2") /\ whole(RenderD2(Snapshot))
      /\ ReadMermaid(RenderMermaid(Snapshot)) = said("mermaid") /\ whole(RenderMermaid(Snapshot))
      /\ ReadCSV(RenderCSV(Snapshot)) = said("csv")
=============================================================================
