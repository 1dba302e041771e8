--------------------------- MODULE ComponentDiagrams ---------------------------
(***************************************************************************)
(* The component diagrams that slices/extraction reads (parse_diagram.go,  *)
(* diagram.go) and slices/rendering draws (render_plantuml.go).            *)
(*                                                                         *)
(* A text is a sequence of lines and a line a sequence of tokens.  A token *)
(* is one character the reader looks for, a blank, a whole keyword, or a   *)
(* word of a name; the reader is modelled by where it cuts a line and what *)
(* it refuses.  A name is a sequence of tokens.                            *)
(***************************************************************************)
EXTENDS Integers, Sequences, FiniteSets, SequencesExt

Blank == " "
Quote == "'"          \* starts a comment that runs to the end of the line
OpenComment == "/'"
CloseComment == "'/"
Frame == {"@startuml", "@enduml"}
Unnamed == << >>

Holds(line, token) == \E i \in DOMAIN line : line[i] = token
HoldsAny(line, tokens) == \E i \in DOMAIN line : line[i] \in tokens
StartsWith(line, token) == line # << >> /\ Head(line) = token

Trim(line) ==
  LET written == {i \in DOMAIN line : line[i] # Blank}
      first == CHOOSE i \in written : \A j \in written : i <= j
      last == CHOOSE i \in written : \A j \in written : j <= i
  IN  IF written = {} THEN << >> ELSE SubSeq(line, first, last)

\* strings.IndexByte, from one; nought where there is none.
IndexOf(line, token) == SelectInSeq(line, LAMBDA t : t = token)
Before(line, index) == SubSeq(line, 1, index - 1)
After(line, index) == SubSeq(line, index + 1, Len(line))

-----------------------------------------------------------------------------
\* One component's name, bracketed or bare, or Unnamed.
ParseEndpoint(text) ==
  LET name == Trim(text)
      inner == Trim(SubSeq(name, 2, Len(name) - 1))
  IN  IF StartsWith(name, "[")
      THEN IF Last(name) = "]" /\ ~HoldsAny(inner, {"[", "]"}) THEN inner ELSE Unnamed
      ELSE IF HoldsAny(name, {"[", "]", Blank}) THEN Unnamed ELSE name

\* The dashes that run up to the head of an arrow start here.
ArrowStart(line, head) ==
  CHOOSE t \in 1 .. head :
    /\ \A i \in t .. head - 1 : line[i] = "-"
    /\ t = 1 \/ line[t - 1] # "-"

NoArrow == [from |-> Unnamed, to |-> Unnamed]

\* An arrow is found from its head backwards, so that a name may hold a dash;
\* what follows a colon is the label.
ParseArrow(line) ==
  LET head == IndexOf(line, ">")
      tail == ArrowStart(line, head)
      source == Before(line, tail)
      labelled == After(line, head)
      colon == IndexOf(labelled, ":")
      target == IF colon = 0 THEN labelled ELSE Before(labelled, colon)
      arrow == [from |-> ParseEndpoint(source), to |-> ParseEndpoint(target)]
  IN  IF tail = head \/ HoldsAny(source \o target, {"<", ">"}) \/ Unnamed \in {arrow.from, arrow.to}
      THEN NoArrow ELSE arrow

\* The keyword may be left out only in front of a bracketed name.
ParseDeclaration(line) ==
  LET blank == IndexOf(line, Blank)
  IN  IF blank # 0 /\ Before(line, blank) = <<"component">> THEN ParseEndpoint(After(line, blank))
      ELSE IF StartsWith(line, "[") THEN ParseEndpoint(line)
      ELSE Unnamed

-----------------------------------------------------------------------------
\* What has been read of a text: whether a block comment is open, what was
\* declared and drawn, and the number of the first line that says nothing.
Unread == [commented |-> FALSE, components |-> {}, dependencies |-> {}, refused |-> 0]

\* framed: with or without the name of the diagram after the keyword.
Framed(statement) ==
  /\ statement # << >> /\ Head(statement) \in Frame
  /\ Len(statement) = 1 \/ statement[2] = Blank

\* Mutant of StaysOpen: only a line that ends with the mark closes a comment.
StaysOpenUntilLast(statement) == statement = << >> \/ Last(statement) # CloseComment

\* A block comment ends with the line that closes it, all of the line.
StaysOpen(statement) == ~Holds(statement, CloseComment)

\* One turn of ParseDiagram's loop, for a line that is in no comment.
ReadStatement(read, statement, number) ==
  LET arrow == ParseArrow(statement)
      component == ParseDeclaration(statement)
  IN  IF \/ statement = << >> \/ Framed(statement)
         \/ Head(statement) \in {Quote, CloseComment} THEN read
      ELSE IF Holds(statement, ">")
      THEN IF arrow = NoArrow THEN [read EXCEPT !.refused = number]
           ELSE [read EXCEPT !.dependencies = @ \cup {arrow}]
      ELSE IF component = Unnamed THEN [read EXCEPT !.refused = number]
      ELSE [read EXCEPT !.components = @ \cup {component}]

ReadLine(read, statement, number) ==
  IF read.refused # 0 THEN read
  ELSE IF read.commented \/ StartsWith(statement, OpenComment)
  THEN [read EXCEPT !.commented = StaysOpen(statement)]
  ELSE ReadStatement(read, statement, number)

ReadLines(text) ==
  LET read[n \in 0 .. Len(text)] == IF n = 0 THEN Unread ELSE ReadLine(read[n - 1], Trim(text[n]), n)
  IN  read[Len(text)]

\* NewDiagram: the ends of every arrow are components, and an arrow from a
\* component to itself is no dependency.
NewDiagram(components, arrows) ==
  [components |-> components \cup {a.from : a \in arrows} \cup {a.to : a \in arrows},
   dependencies |-> {a \in arrows : a.from # a.to}]

Shows(diagram, component) == component \in diagram.components
Draws(diagram, from, to) == [from |-> from, to |-> to] \in diagram.dependencies

Unreadable(number) == [kind |-> "unreadable", line |-> number]
EmptyDiagram == [kind |-> "empty"]
Read(diagram) == [kind |-> "read", diagram |-> diagram]

\* The first line that says nothing is what is reported; a text that declares
\* nothing is no diagram.
Concluded(read) ==
  LET diagram == NewDiagram(read.components, read.dependencies)
  IN  IF read.refused # 0 THEN Unreadable(read.refused)
      ELSE IF diagram.components = {} THEN EmptyDiagram
      ELSE Read(diagram)

ParseDiagram(text) == Concluded(ReadLines(text))

-----------------------------------------------------------------------------
\* plantUMLRune, for the tokens that a name may hold.
PlantUMLToken(token) ==
  IF token \in {"[", "<"} THEN "(" ELSE IF token \in {"]", ">"} THEN ")" ELSE token
PlantUMLComponent(name) == <<"[">> \o [i \in DOMAIN name |-> PlantUMLToken(name[i])] \o <<"]">>

DrawnComponent(name) == <<"component", Blank>> \o PlantUMLComponent(name)
DrawnArrow(a) ==
  PlantUMLComponent(a.from) \o <<Blank, "-", "-", ">", Blank>> \o PlantUMLComponent(a.to)

\* Mutant of RenderPlantUML: only the ends of arrows are drawn.
RenderArrows(components, arrows) ==
  IF arrows = {} THEN <<<<"@startuml">>, <<"@enduml">>>>
  ELSE <<<<"@startuml">>>> \o SetToSeq({DrawnArrow(a) : a \in arrows}) \o <<<<"@enduml">>>>

\* The order of components and of arrows is alphabetical in the code; no
\* reader of the document tells one order from another.
RenderPlantUML(components, arrows) ==
  <<<<"@startuml">>, <<Quote, Blank, "summary">>>>
  \o SetToSeq({DrawnComponent(c) : c \in components})
  \o SetToSeq({DrawnArrow(a) : a \in arrows})
  \o <<<<"@enduml">>>>
=============================================================================
