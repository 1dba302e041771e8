---------------------------- MODULE DiagramWriting -----------------------------
(***************************************************************************)
(* The dialect that ParseDiagram documents ("this is the whole grammar"),  *)
(* as an author who writes a diagram line by line and knows what each line *)
(* is to mean.  The reader of ComponentDiagrams must come to what was      *)
(* meant, after every line.                                                *)
(***************************************************************************)
EXTENDS ComponentDiagrams

CONSTANTS
  Bare,       \* names an author may write without brackets, one word each
  Bracketed,  \* names that are written between brackets
  Strokes,    \* how an arrow may be drawn: [dashes, gap, label]
  Remarks,    \* lines an author may put into a comment, none of which ends one
  Nonsense,   \* lines the dialect does not have
  MaxLines    \* bound on the lines of a text

VARIABLES
  text,   \* the lines written so far
  block,  \* a block comment is open
  meant   \* what the text is meant to say

writing == <<text, block, meant>>

Nothing == [components |-> {}, arrows |-> {}, wrong |-> 0]

WriteInit == text = << >> /\ block = FALSE /\ meant = Nothing

Write(line) == Len(text) < MaxLines /\ text' = Append(text, line)

Spelled(name) ==
  {<<"[">> \o name \o <<"]">>} \cup (IF name \in Bare THEN {name} ELSE {})
Dash(n) == [i \in 1 .. n |-> "-"]

-----------------------------------------------------------------------------
\* Lines that say nothing: blank, a comment to the end of the line, the frame.
WriteAside ==
  /\ ~block
  /\ \E line \in {<< >>, <<Blank, Blank>>, <<"@startuml", Blank, "x">>, <<"@enduml">>}
               \cup {<<Blank, Quote>> \o r : r \in Remarks} :
       Write(line)
  /\ UNCHANGED <<block, meant>>

Declare(name) ==
  /\ ~block
  /\ \/ \E end \in Spelled(name) : Write(<<"component", Blank>> \o end)
     \/ Write(<<Blank, "[", Blank>> \o name \o <<"]", Blank>>)
  /\ meant' = [meant EXCEPT !.components = @ \cup {name}]
  /\ UNCHANGED block

\* Any number of dashes is one arrow; a label after a colon is prose.
Draw(from, to) ==
  /\ ~block
  /\ \E source \in Spelled(from), target \in Spelled(to), s \in Strokes :
       Write(source \o s.gap \o Dash(s.dashes) \o <<">">> \o s.gap \o target \o s.gap \o s.label)
  /\ meant' = [meant EXCEPT !.arrows = @ \cup {<<from, to>>}]
  /\ UNCHANGED block

OpenBlock ==
  /\ ~block
  /\ \E line \in Remarks : Write(<<OpenComment>> \o line)
  /\ block' = TRUE
  /\ UNCHANGED meant

Remark ==
  /\ block
  /\ \E line \in Remarks : Write(line)
  /\ UNCHANGED <<block, meant>>

\* A statement after the closing mark is part of the comment.
CloseBlock ==
  /\ block
  /\ \E before, after \in Remarks : Write(before \o <<CloseComment>> \o after)
  /\ block' = FALSE
  /\ UNCHANGED meant

BlockOfOneLine ==
  /\ ~block
  /\ \E line \in Remarks : Write(<<OpenComment>> \o line \o <<CloseComment>>)
  /\ UNCHANGED <<block, meant>>

\* A line the dialect does not have; the first one is what is reported.
Blunder ==
  /\ ~block
  /\ \E line \in Nonsense : Write(line)
  /\ meant' = [meant EXCEPT !.wrong = IF @ = 0 THEN Len(text') ELSE @]
  /\ UNCHANGED block

WriteNext ==
  \/ WriteAside \/ OpenBlock \/ Remark \/ CloseBlock \/ BlockOfOneLine \/ Blunder
  \/ \E name \in Bare \cup Bracketed : Declare(name)
  \/ \E from, to \in Bare \cup Bracketed : Draw(from, to)

-----------------------------------------------------------------------------
\* What was written is what is read: no line is skipped or read as another,
\* whatever comments stand around it, an arrow between two names is that arrow
\* and makes both of them components, the first line that says nothing is the
\* one refused, and a text without a component is no diagram (ParseDiagram).
ReadAsMeant ==
  ParseDiagram(text) =
    LET ends == UNION {{a[1], a[2]} : a \in meant.arrows}
        components == meant.components \cup ends
    IN  IF meant.wrong # 0 THEN Unreadable(meant.wrong)
        ELSE IF components = {} THEN EmptyDiagram
        ELSE Read([components |-> components,
                   dependencies |-> {[from |-> a[1], to |-> a[2]] :
                                       a \in {b \in meant.arrows : b[1] # b[2]}}])
=============================================================================
