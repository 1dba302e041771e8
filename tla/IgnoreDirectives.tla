--------------------------- MODULE IgnoreDirectives ---------------------------
(***************************************************************************)
(* Which //archunit:ignore directive an import declaration carries.  A     *)
(* file is the sequence of the lines of its header.  A line says whether   *)
(* the package clause, an import declaration or other code occupies it,    *)
(* which imports are declared on it, whether a comment occupies it and     *)
(* which directive that comment is: NoDirective for an ordinary remark.    *)
(* How a comment is read as a directive is left to the text; what of       *)
(* concludes from where it stands is modelled.                             *)
(***************************************************************************)
EXTENDS Naturals, Sequences, FiniteSetsExt

CONSTANTS
  Kind,        \* the flavors of an import declaration
  Scope,       \* the names a directive may be limited to
  ImportPath   \* what an import declaration may quote

\* ImportInfo without the directive, IgnoreDirective, and one line of a header.
\* An ignore directive that names no scope applies everywhere.
Import == [path : ImportPath, kind : Kind]
Directive == [present : BOOLEAN, scopes : SUBSET Scope]
NoDirective == [present |-> FALSE, scopes |-> {}]
Line == [code : BOOLEAN, imports : SUBSET Import, commented : BOOLEAN, directive : Directive]

\* A line that can stand between an import and a directive above it.
CommentOnly(line) == line.commented /\ ~line.code

\* The line whose directive an import on line l carries, if there is one: its
\* own, or else the nearest of the unbroken run of comment lines above it.
Carried(text, l) ==
  LET above == {k \in 1 .. l - 1 : /\ text[k].directive.present
                                   /\ \A j \in k .. l - 1 : CommentOnly(text[j])}
  IN  CASE text[l].directive.present -> {l}
        [] ~text[l].directive.present /\ above # {} -> {Max(above)}
        [] OTHER -> {}

DirectiveOf(text, l) ==
  IF Carried(text, l) = {} THEN NoDirective
  ELSE text[CHOOSE k \in Carried(text, l) : TRUE].directive

\* Whether a directive leaves its import out of an analysis that answers to scopes.
AppliesIn(directive, scopes) ==
  directive.present /\ (directive.scopes = {} \/ directive.scopes \cap scopes # {})

-----------------------------------------------------------------------------

\* No directive is read twice.  A directive that trails an import is not the
\* next import's, and one above a run of imports is the first one's only, so
\* asking to leave out one dependency never leaves out another.
NoDirectiveIsShared(text) ==
  \A l, k \in DOMAIN text :
    l # k /\ text[l].imports # {} /\ text[k].imports # {}
      => Carried(text, l) \cap Carried(text, k) = {}

\* What a directive on line k is about, looked at from the directive: where it
\* trails code, that line; on a line of its own, the line its run of comments
\* leads to, unless a later directive of the run speaks instead.
IsAbout(text, k, l) ==
  /\ text[k].directive.present
  /\ IF text[k].code THEN l = k
     ELSE /\ k < l /\ \A j \in k .. l - 1 : CommentOnly(text[j])
          /\ ~CommentOnly(text[l])
          /\ \A j \in k + 1 .. l : ~text[j].directive.present

LeftOut(text, l, scopes) ==
  \E k \in DOMAIN text : IsAbout(text, k, l) /\ AppliesIn(text[k].directive, scopes)

=============================================================================
