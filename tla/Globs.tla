--------------------------------- MODULE Globs ---------------------------------
(***************************************************************************)
(* What a glob describes and what a capture glob cuts out of it, as        *)
(* common/matching/regex_factory.go translates globs into regular          *)
(* expressions, and the backtracking search by which a regular expression  *)
(* answers.  An identifier is a sequence of characters; a glob may hold    *)
(* wildcards, parentheses and character classes besides, a class being one *)
(* token.  The globs are typed token by token.                             *)
(***************************************************************************)
EXTENDS Integers, Sequences, FiniteSets, SequencesExt, Functions

CONSTANTS
  Letter,     \* the characters of names
  Class,      \* the classes a glob may use: token -> the characters it stands for
  Candidate,  \* the identifiers that are matched
  Stem,       \* what a glob may begin with
  MaxStrokes  \* bound: what is typed after the stem

VARIABLES
  glob,    \* what has been typed
  strokes  \* how much was typed after the stem

Wildcard == {"*", "?"}
Parenthesis == {"(", ")"}
Token == Letter \cup {"/"} \cup Wildcard \cup Parenthesis \cup DOMAIN Class
DoubleStar == <<"*", "*">>

typing == <<glob, strokes>>

GlobInit == glob \in Stem /\ strokes = 0
\* normalizeSeparators leaves no separator twice.
Type(typed) ==
  /\ strokes < MaxStrokes
  /\ Head(typed) = "/" => glob # << >> /\ Last(glob) # "/"
  /\ glob' = glob \o typed
  /\ strokes' = strokes + 1
TypeNext == \E typed \in {<<token>> : token \in Token} \cup {DoubleStar} : Type(typed)
Normalized(g) == g # << >> /\ (Last(g) # "/")

-----------------------------------------------------------------------------
\* globToRegex.  A construct of the glob that begins here, and what it becomes:
\* "/(run/)?", "(/run)?" and "(run/)?" are the three in which ** spans segments.
Begins(g, i, tokens) == i + Len(tokens) - 1 <= Len(g) /\ SubSeq(g, i, i + Len(tokens) - 1) = tokens

\* Mutant of ConstructAt: a trailing /** needs a separator.
ConstructAtTrailing(g, i, captures) ==
  IF Begins(g, i, <<"/">> \o DoubleStar \o <<"/">>) THEN [is |-> "/(run/)?", width |-> 4]
  ELSE IF i = 1 /\ Begins(g, i, DoubleStar \o <<"/">>) THEN [is |-> "(run/)?", width |-> 3]
  ELSE IF Begins(g, i, DoubleStar) THEN [is |-> "run", width |-> 2]
  ELSE [is |-> g[i], width |-> 1]

ConstructAt(g, i, captures) ==
  IF Begins(g, i, <<"/">> \o DoubleStar \o <<"/">>) THEN [is |-> "/(run/)?", width |-> 4]
  ELSE IF SubSeq(g, i, Len(g)) = <<"/">> \o DoubleStar THEN [is |-> "(/run)?", width |-> 3]
  ELSE IF i = 1 /\ Begins(g, i, DoubleStar \o <<"/">>) THEN [is |-> "(run/)?", width |-> 3]
  ELSE IF Begins(g, i, DoubleStar) THEN [is |-> "run", width |-> 2]
  ELSE IF captures /\ g[i] \in Parenthesis THEN [is |-> "group", width |-> 1]
  ELSE [is |-> g[i], width |-> 1]

Regex(g, captures) ==
  LET from[i \in 1 .. Len(g) + 1] ==
        IF i > Len(g) THEN << >>
        ELSE <<ConstructAt(g, i, captures).is>> \o from[i + ConstructAt(g, i, captures).width]
  IN  from[1]

-----------------------------------------------------------------------------
\* The regular expression's own search.  From a place in the candidate, each
\* element leads on to some places, the one it prefers first.
Ascending(first, last) == [k \in 1 .. last - first + 1 |-> first + k - 1]
Behind(places, c) == [k \in DOMAIN places |-> places[k] + 1]
At(c, p) == IF p \in DOMAIN c THEN c[p] ELSE "end"

\* .*? in a capture glob, .* in a plain one.
Runs(c, p, captures) ==
  IF captures THEN Ascending(p, Len(c) + 1) ELSE Reverse(Ascending(p, Len(c) + 1))
RunsUpToSeparator(c, p, captures) ==
  Behind(SelectSeq(Runs(c, p, captures), LAMBDA q : At(c, q) = "/"), c)
InSegment(c, p) ==
  SelectSeq(Reverse(Ascending(p, Len(c) + 1)), LAMBDA q : \A k \in p .. q - 1 : c[k] # "/")
Single(c, p, chars) == IF At(c, p) \in chars THEN <<p + 1>> ELSE << >>

Leads(element, c, p, captures) ==
  CASE element = "run" -> Runs(c, p, captures)
    [] element = "/(run/)?" ->
         IF At(c, p) = "/" THEN RunsUpToSeparator(c, p + 1, captures) \o <<p + 1>> ELSE << >>
    [] element = "(/run)?" ->
         (IF At(c, p) = "/" THEN Runs(c, p + 1, captures) ELSE << >>) \o <<p>>
    [] element = "(run/)?" -> RunsUpToSeparator(c, p, captures) \o <<p>>
    [] element = "group" -> <<p>>
    [] element = "*" -> InSegment(c, p)
    [] element = "?" -> Single(c, p, Letter)
    [] element \in DOMAIN Class -> Single(c, p, Class[element])
    [] OTHER -> Single(c, p, {element})

\* The places from which the elements from the i-th on describe the rest.
Viable(regex, c, captures) ==
  LET viable[i \in 1 .. Len(regex) + 1] ==
        IF i > Len(regex) THEN {Len(c) + 1}
        ELSE LET rest == viable[i + 1]
             IN  {p \in 1 .. Len(c) + 1 : Range(Leads(regex[i], c, p, captures)) \cap rest # {}}
  IN  [i \in 1 .. Len(regex) + 1 |-> viable[i]]

Matches(g, c) == 1 \in Viable(Regex(g, FALSE), c, FALSE)[1]
CaptureMatches(g, c) == 1 \in Viable(Regex(g, TRUE), c, TRUE)[1]

\* Backtracking ends with the first place each element leads to from which the
\* rest can still match.
Path(regex, c, captures) ==
  LET viable == Viable(regex, c, captures)
      at[i \in 1 .. Len(regex) + 1] ==
        IF i = 1 THEN 1
        ELSE LET p == at[i - 1]
             IN  Head(SelectSeq(Leads(regex[i - 1], c, p, captures), LAMBDA q : q \in viable[i]))
  IN  at

\* NewGlobCapturePattern refuses a glob without exactly one pair of parentheses.
OneCapture(g) ==
  /\ Cardinality({i \in DOMAIN g : g[i] = "("}) = 1
  /\ Cardinality({i \in DOMAIN g : g[i] = ")"}) = 1
  /\ \E i, j \in DOMAIN g : i < j /\ g[i] = "(" /\ g[j] = ")"

\* Pattern.Capture: the empty name is none, and so is no match at all.
Capture(g, c) ==
  LET regex == Regex(g, TRUE)
      at == Path(regex, c, TRUE)
      opening == SelectInSeq(regex, LAMBDA e : e = "group")
      closing == SelectLastInSeq(regex, LAMBDA e : e = "group")
  IN  IF CaptureMatches(g, c) THEN SubSeq(c, at[opening], at[closing] - 1) ELSE << >>

-----------------------------------------------------------------------------
\* The syntax as NewGlobPattern documents it, read as a set of places: where a
\* prefix of the candidate ends that a prefix of the glob describes.
Spans(g, i) == i < Len(g) /\ g[i] = "*" /\ g[i + 1] = "*"
Documented(g, c) ==
  LET ends[i \in 0 .. Len(g)] ==
        IF i = 0 THEN {0}
        ELSE IF i > 1 /\ Spans(g, i - 1) THEN {n \in 0 .. Len(c) : \E m \in ends[i - 2] : m <= n}
        ELSE IF g[i] = "*"
        THEN {n \in 0 .. Len(c) : \E m \in ends[i - 1] : m <= n /\ \A k \in m + 1 .. n : c[k] # "/"}
        ELSE {n \in 1 .. Len(c) : /\ n - 1 \in ends[i - 1]
                                  /\ IF g[i] = "?" THEN c[n] # "/"
                                     ELSE IF g[i] \in DOMAIN Class THEN c[n] \in Class[g[i]]
                                     ELSE c[n] = g[i]}
  IN  Len(c) \in ends[Len(g)]

\* "crossing zero segments counts": a/**/b is also a/b, a/** is also a, and
\* **/a is also a. Within the bounds a glob has no third place to be contracted at.
Contractions(g) ==
  {g} \cup {SubSeq(g, 1, i) \o SubSeq(g, i + 4, Len(g)) :
              i \in {i \in DOMAIN g : Begins(g, i, <<"/">> \o DoubleStar \o <<"/">>)}}
      \cup (IF IsSuffix(<<"/">> \o DoubleStar, g) THEN {SubSeq(g, 1, Len(g) - 3)} ELSE {})
      \cup (IF IsPrefix(DoubleStar \o <<"/">>, g) THEN {SubSeq(g, 4, Len(g))} ELSE {})
DocumentedGlob(g, c) ==
  \E h \in Contractions(g) : \E k \in Contractions(h) : Documented(k, c)

\* Three stars in a row and **/** are no reading of the documentation's.
Regular(g) ==
  \A i \in DOMAIN g : /\ ~Begins(g, i, <<"*", "*", "*">>)
                      /\ ~Begins(g, i, DoubleStar \o <<"/">> \o DoubleStar)

Bare(g) == SelectSeq(g, LAMBDA token : token \notin Parenthesis)
Naming(g, name) ==
  LET i == SelectInSeq(g, LAMBDA token : token = "(")
      j == SelectInSeq(g, LAMBDA token : token = ")")
  IN  SubSeq(g, 1, i - 1) \o name \o SubSeq(g, j + 1, Len(g))

\* A glob describes what its documentation says it does, and nothing else; a
\* capture glob describes no more than the glob without its parentheses, what
\* it captures is described in the place of the parentheses, and folder/(**)/**
\* names the folder inside, not the whole path (NewGlobCapturePattern: "captures
\* api from internal/api/handler.go, not api/handler.go").
GlobMeansItsSyntax ==
  Normalized(glob) => \A c \in Candidate :
    /\ Range(glob) \cap Parenthesis = {} /\ Regular(glob) =>
         Matches(glob, c) = DocumentedGlob(glob, c)
    /\ OneCapture(glob) /\ CaptureMatches(glob, c) =>
         LET name == Capture(glob, c)
         IN  /\ Normalized(Bare(glob)) /\ Regular(Bare(glob)) => Matches(Bare(glob), c)
             /\ name # << >> /\ Regular(Bare(glob)) => Matches(Naming(glob, name), c)
             /\ IsSuffix(<<"(", "*", "*", ")", "/", "*", "*">>, glob) => "/" \notin Range(name)
=============================================================================
