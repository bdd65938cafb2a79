------------------------------- MODULE StateFile -------------------------------
(***************************************************************************)
(* State files: what the line by line reader of                            *)
(* src/fcp3/pseudopythonparser.py makes of a file while it is written the  *)
(* way writeVars of SiteState.save and namesiteSave do.                    *)
(*                                                                         *)
(* A file is a sequence of assignments, comments and blank lines.  A value *)
(* is a scalar on the line of its name, or a structure of lists and        *)
(* dictionaries that goes over any number of lines: JSON with an indent in *)
(* state files, a pretty-printed literal in the namesites file.  Of a text *)
(* the brackets count, and what is between them, commas and strings        *)
(* included, by what jsonload makes of it: "x" is loaded as it was, "(" is *)
(* rewritten, "'" cannot be converted.  The lines read so far are joined,  *)
(* as unparsedstring does.  The writer goes token by token, the reader     *)
(* line by line.                                                           *)
(* Strings that hold " = [" or " = {" in the line of the name are left     *)
(* out: the reader takes them for structures.                              *)
(***************************************************************************)
EXTENDS Naturals, FiniteSets, SequencesExt

CONSTANTS
  Scalars, Structures,    \* names of variables
  Texts,                  \* what the writer has between brackets
  MaxOnLine,              \* tokens on a line
  MaxTokens               \* tokens of a structure, and kept before a blank line

ASSUME FileAssumption ==
  Texts \subseteq {"x", "(", "'"} /\ MaxOnLine \in Nat /\ MaxTokens \in Nat

Openers == {"[", "{"}
Closers == {"]", "}"}
Tokens  == Openers \cup Closers \cup {"x", "(", "'"}

Vars    == Scalars \cup Structures

End(o)  == IF o = "[" THEN "]" ELSE "}"
NoVar   == "no variable"
Scalar  == <<"x">>        \* the text of a value that is not a structure

VARIABLES
  written,          \* values of the file so far, as their text
  variable,         \* the structure that is being written,
  text, line,       \* its complete lines, and the line begun
  stack,            \* brackets still open in it, the innermost last
  data, unparsed, unparsedvariable, endunparsed   \* attributes of the Parser

writer == <<written, variable, text, line, stack>>
parser == <<data, unparsed, unparsedvariable, endunparsed>>
vars   == <<writer, parser>>

Init ==
  /\ written = [v \in {} |-> <<>>] /\ data = written
  /\ variable = NoVar /\ text = <<>> /\ line = <<>> /\ stack = <<>>
  /\ unparsed = <<>> /\ unparsedvariable = NoVar /\ endunparsed = ""

Set(f, v, x) == [w \in DOMAIN f \cup {v} |-> IF w = v THEN x ELSE f[w]]

--------------------------------------------------------------------------------
(***************************************************************************)
(* The parser                                                              *)
(***************************************************************************)
Count(read, S) == Cardinality({n \in DOMAIN read : read[n] \in S})

\* Variant: whatever ends with a bracket.
LoadsClosed(read) == Last(read) \in Closers

\* jsonload of the beginning of a well-formed text: it succeeds on the whole, if
\* that is JSON or can be converted to it.  A pretty-printed string in single
\* quotes with a double quote cannot (89-99); the IndexError it may raise there
\* instead of a ValueError refuses the file at once, not at its end.
Loads(read) ==
  Count(read, Openers) = Count(read, Closers) /\ "'" \notin Range(read)

\* What it returns: None, True, tuples and u"" are replaced in the text of strings
\* too, so that a file "a (1)" comes back as "a [1)" (62-73).
Loaded(read) ==
  [n \in DOMAIN read |-> IF read[n] = "(" THEN "rewritten" ELSE read[n]]

\* Variant: the bracket that ended a value is kept.
CheckKeepingEnd(read, v, end) ==
  IF Count(read, {end}) > 0 /\ Loads(read)
  THEN /\ data' = Set(data, v, Loaded(read))
       /\ unparsed' = <<>> /\ unparsedvariable' = NoVar /\ endunparsed' = end
  ELSE /\ unparsed' = read /\ unparsedvariable' = v /\ endunparsed' = end
       /\ UNCHANGED data

\* Variant: the name is only noted when the first line is the value.
CheckNameless(read, v, end) ==
  IF Count(read, {end}) > 0 /\ Loads(read)
  THEN /\ data' = Set(data, v, Loaded(read))
       /\ unparsed' = <<>> /\ unparsedvariable' = NoVar /\ endunparsed' = ""
  ELSE /\ unparsed' = read /\ unparsedvariable' = NoVar /\ endunparsed' = end
       /\ UNCHANGED data

\* checkandprocessunprocessed: a structure that cannot be loaded is taken for the
\* beginning of one.
Check(read, v, end) ==
  IF Count(read, {end}) > 0 /\ Loads(read)
  THEN /\ data' = Set(data, v, Loaded(read))
       /\ unparsed' = <<>> /\ unparsedvariable' = NoVar /\ endunparsed' = ""
  ELSE /\ unparsed' = read /\ unparsedvariable' = v /\ endunparsed' = end
       /\ UNCHANGED data

\* A line while a structure is not complete, whatever it looks like.
ReadMore(l) ==
  LET read == unparsed \o l IN
  IF Last(l) = endunparsed
  THEN Check(read, unparsedvariable, endunparsed)
  ELSE unparsed' = read /\ UNCHANGED <<data, unparsedvariable, endunparsed>>

ReadHead(v, l) ==
  IF unparsed # <<>> THEN ReadMore(l) ELSE Check(l, v, End(l[1]))

ReadScalar(v) ==
  IF unparsed # <<>> THEN ReadMore(<<"x">>)
  ELSE data' = Set(data, v, Scalar)
       /\ UNCHANGED <<unparsed, unparsedvariable, endunparsed>>

ReadBlank ==
  IF unparsed # <<>> THEN ReadMore(<<"x">>) ELSE UNCHANGED parser

--------------------------------------------------------------------------------
(***************************************************************************)
(* The file                                                                *)
(***************************************************************************)
\* No structure is being written.
Between == stack = <<>> /\ line = <<>>

\* The line of the name begins with the opening bracket.
Assign(v, t) ==
  /\ Between /\ v \notin DOMAIN written
  /\ variable' = v /\ line' = <<t>> /\ stack' = <<t>>
  /\ UNCHANGED <<written, text, parser>>

\* The brackets open after a token.
Nested(open, t) ==
  CASE t \in Openers -> Append(open, t)
    [] t \in Closers -> Front(open)
    [] OTHER         -> open

\* A structure goes on, the line or a new one.
Put(t) ==
  /\ stack # <<>> /\ Len(line) < MaxOnLine
  /\ t \in Closers => t = End(Last(stack))
  /\ t \in Texts /\ line # <<>> => Last(line) \notin Texts
  /\ Len(text \o line) + 1 + Len(Nested(stack, t)) <= MaxTokens
  /\ line' = Append(line, t) /\ stack' = Nested(stack, t)
  /\ UNCHANGED <<written, variable, text, parser>>

\* The line is ended, the structure with it if no bracket is open, and read.
EndLine ==
  /\ line # <<>> /\ line' = <<>>
  /\ IF stack = <<>>
     THEN written' = Set(written, variable, text \o line) /\ variable' = NoVar
          /\ text' = <<>>
     ELSE text' = text \o line /\ UNCHANGED <<written, variable>>
  /\ IF text = <<>> THEN ReadHead(variable, line) ELSE ReadMore(line)
  /\ UNCHANGED stack

ScalarLine(v) ==
  /\ Between /\ v \notin DOMAIN written
  /\ written' = Set(written, v, Scalar)
  /\ ReadScalar(v)
  /\ UNCHANGED <<variable, text, line, stack>>

\* Bounded, as the reader keeps these lines after a value it cannot load.
Blank == Between /\ Len(unparsed) <= MaxTokens /\ UNCHANGED writer /\ ReadBlank

Next ==
  \/ \E v \in Structures, t \in Openers : Assign(v, t)
  \/ \E t \in Openers \cup Closers \cup Texts : Put(t)
  \/ EndLine
  \/ \E v \in Scalars : ScalarLine(v)
  \/ Blank

Spec == Init /\ [][Next]_vars

--------------------------------------------------------------------------------
(***************************************************************************)
(* Properties                                                              *)
(***************************************************************************)
TypeOK ==
  /\ DOMAIN data \subseteq Vars /\ DOMAIN written \subseteq Vars
  /\ unparsed \in Seq(Tokens) /\ text \in Seq(Tokens) /\ line \in Seq(Tokens)
  /\ variable \in Vars \cup {NoVar} /\ unparsedvariable \in Vars \cup {NoVar}
  /\ endunparsed \in Closers \cup {""}
  /\ stack \in Seq(Openers)

\* Some value cannot be converted.
Spoilt == \E v \in DOMAIN written : "'" \in Range(written[v])

\* The reader and the file agree on where a value ends, however it is nested and
\* broken into lines: no structure is closed by a bracket within it, none takes
\* in the assignment after it.  Until a value cannot be converted all are there,
\* and what has been loaded is always what was written for the name, as rewritten.
InStep ==
  line = <<>> =>
    /\ \A v \in DOMAIN data : v \in DOMAIN written /\ data[v] = Loaded(written[v])
    /\ Spoilt \/ /\ DOMAIN data = DOMAIN written
                 /\ <<unparsedvariable, unparsed>> = <<variable, text>>

\* "We have unparsed data but we do not know how it ends. THIS IS A BUG" (142), and
\* parse() refuses the file, finding lines left at its end, just when a value in it
\* cannot be converted.
KnowsTheEnd ==
  /\ unparsed # <<>> <=> endunparsed # ""
  /\ Between => (unparsed # <<>> <=> Spoilt)
================================================================================
