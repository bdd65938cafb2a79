--------------------------- MODULE StateFile_proofs ----------------------------
(***************************************************************************)
(* Proofs about StateFile: whatever is written, with values nested and     *)
(* broken into lines in any way, the reader ends each value where the      *)
(* writer does (InStep) and always knows what it waits for (KnowsTheEnd),  *)
(* up to a value that jsonload cannot convert.                             *)
(*                                                                         *)
(* The reader counts brackets of the text it has, the writer keeps a       *)
(* stack.  NestInv relates the two: as many brackets are open as there are *)
(* more opening ones than closing ones, the outermost is the first token,  *)
(* and what empties the stack is its counterpart.                          *)
(***************************************************************************)
EXTENDS StateFile, FiniteSetTheorems, TLAPS

--------------------------------------------------------------------------------
(***************************************************************************)
(* Counting tokens                                                         *)
(***************************************************************************)
LEMMA CountType ==
  ASSUME NEW s \in Seq(Tokens), NEW S
  PROVE  /\ Count(s, S) \in Nat
         /\ IsFiniteSet({n \in DOMAIN s : s[n] \in S})
<1>1. DOMAIN s = 1..Len(s) /\ Len(s) \in Nat
  OBVIOUS
<1>2. IsFiniteSet(1..Len(s))
  BY <1>1, FS_Interval
<1>3. IsFiniteSet({n \in DOMAIN s : s[n] \in S})
  BY <1>1, <1>2, FS_Subset
<1> QED
  BY <1>3, FS_CardinalityType DEF Count

\* One more token counts for the sets it is in.
LEMMA CountAppend ==
  ASSUME NEW s \in Seq(Tokens), NEW t \in Tokens, NEW S
  PROVE  Count(Append(s, t), S) = Count(s, S) + (IF t \in S THEN 1 ELSE 0)
<1> DEFINE T == {n \in DOMAIN s : s[n] \in S}
           U == {n \in DOMAIN Append(s, t) : Append(s, t)[n] \in S}
           k == Len(s) + 1
<1>1. /\ Len(s) \in Nat /\ DOMAIN s = 1..Len(s)
      /\ DOMAIN Append(s, t) = 1..k
      /\ Append(s, t)[k] = t
      /\ \A n \in 1..Len(s) : Append(s, t)[n] = s[n]
  OBVIOUS
<1>2. k \notin T
  BY <1>1
<1>3. IsFiniteSet(T) /\ Cardinality(T) \in Nat
  BY CountType DEF Count
<1>4. CASE t \in S
  <2>1. \A n : n \in 1..k <=> n \in 1..Len(s) \/ n = k
    BY <1>1
  <2>2. U = T \cup {k}
    BY <1>1, <1>4, <2>1
  <2> HIDE DEF T, U, k
  <2>3. Cardinality(U) = Cardinality(T) + 1
    BY <1>2, <1>3, <2>2, FS_AddElement
  <2> QED
    BY <1>4, <2>3 DEF Count, T, U
<1>5. CASE t \notin S
  <2>1. \A n : n \in 1..k <=> n \in 1..Len(s) \/ n = k
    BY <1>1
  <2>2. U = T
    BY <1>1, <1>5, <2>1
  <2> HIDE DEF T, U, k
  <2>3. Cardinality(U) = Cardinality(T) + 0
    BY <1>3, <2>2
  <2> QED
    BY <1>5, <2>3 DEF Count, T, U
<1> QED
  BY <1>4, <1>5

\* What occurs counts.
LEMMA CountPositive ==
  ASSUME NEW s \in Seq(Tokens), NEW S, NEW n \in 1..Len(s), s[n] \in S
  PROVE  Count(s, S) > 0
<1>1. {m \in DOMAIN s : s[m] \in S} # {}
  OBVIOUS
<1>2. Count(s, S) # 0
  BY <1>1, CountType, FS_EmptySet DEF Count
<1>3. Count(s, S) \in Nat
  BY CountType
<1> QED
  BY <1>2, <1>3

LEMMA CountNone ==
  ASSUME NEW S
  PROVE  Count(<<>>, S) = 0
<1>1. {n \in DOMAIN <<>> : <<>>[n] \in S} = {}
  OBVIOUS
<1> QED
  BY <1>1, FS_EmptySet DEF Count

LEMMA CountOne ==
  ASSUME NEW t \in Tokens, NEW S
  PROVE  Count(<<t>>, S) = IF t \in S THEN 1 ELSE 0
<1>1. <<>> \in Seq(Tokens) /\ <<t>> = Append(<<>>, t)
  OBVIOUS
<1>2. Count(Append(<<>>, t), S) = Count(<<>>, S) + (IF t \in S THEN 1 ELSE 0)
  BY <1>1, CountAppend
<1>3. Count(<<>>, S) = 0
  BY CountNone
<1> QED
  BY <1>1, <1>2, <1>3

--------------------------------------------------------------------------------
(***************************************************************************)
(* The invariant                                                           *)
(***************************************************************************)
\* All of the structure that has been written.
Whole == text \o line

\* The stack and the text.
NestInv ==
  /\ Count(Whole, Openers) = Count(Whole, Closers) + Len(stack)
  /\ stack # <<>> => Whole # <<>> /\ stack[1] = Whole[1]
  /\ stack = <<>> /\ line # <<>> => Last(line) = End(Whole[1])
  /\ stack = <<>> /\ line = <<>> => text = <<>> /\ variable = NoVar
  /\ Whole # <<>> =>
       /\ variable \in Structures /\ variable \notin DOMAIN written
       /\ Whole[1] \in Openers

\* What has been loaded is what was written.
DataInv ==
  \A v \in DOMAIN data : v \in DOMAIN written /\ data[v] = Loaded(written[v])

\* The reader has what was written up to the last end of a line.
UpToDate ==
  /\ DOMAIN data = DOMAIN written /\ unparsed = text
  /\ unparsedvariable = IF text = <<>> THEN NoVar ELSE variable
  /\ endunparsed = IF text = <<>> THEN "" ELSE End(text[1])

\* The reader goes on with a value it cannot load.
Stuck == "'" \in Range(unparsed) /\ endunparsed \in Closers

ReadInv == DataInv /\ (IF Spoilt THEN Stuck ELSE UpToDate)

FileInv == TypeOK /\ NestInv /\ ReadInv

LEMMA Brackets ==
  /\ Openers \subseteq Tokens /\ Closers \subseteq Tokens
  /\ Openers \cap Closers = {} /\ "x" \notin Openers \cup Closers
  /\ Texts \subseteq Tokens /\ "x" \in Tokens
  /\ \A t \in Openers : End(t) \in Closers
  /\ "" \notin Closers
  BY FileAssumption DEF Openers, Closers, Tokens, End

LEMMA OneToken ==
  ASSUME NEW t \in Tokens PROVE <<t>> \in Seq(Tokens)
  OBVIOUS

LEMMA InitFile == Init => FileInv
<1> SUFFICES ASSUME Init PROVE FileInv
  OBVIOUS
<1>1. written = [v \in {} |-> <<>>] /\ DOMAIN written = {} /\ data = written
  BY DEF Init
<1>2. /\ text = <<>> /\ line = <<>> /\ stack = <<>> /\ unparsed = <<>>
      /\ variable = NoVar /\ unparsedvariable = NoVar /\ endunparsed = ""
  BY DEF Init
<1>3. /\ <<>> \o <<>> = <<>> /\ Len(<<>>) = 0
      /\ <<>> \in Seq(Tokens) /\ <<>> \in Seq(Openers)
  OBVIOUS
<1>4. Count(<<>>, Openers) = 0
  BY CountNone
<1>5. Count(<<>>, Closers) = 0
  BY CountNone
<1>6. NestInv
  <2>1. Whole = <<>>
    BY <1>2, <1>3 DEF Whole
  <2>2. Count(Whole, Openers) = 0 /\ Count(Whole, Closers) = 0 /\ Len(stack) = 0
    BY <1>2, <1>3, <1>4, <1>5, <2>1, Zenon
  <2>3. Count(Whole, Openers) = Count(Whole, Closers) + Len(stack)
    BY <2>2
  <2> QED
    BY <1>2, <2>1, <2>3, Zenon DEF NestInv
<1>8. TypeOK
  BY <1>1, <1>2, <1>3 DEF TypeOK
<1>7. ReadInv
  BY <1>1, <1>2 DEF ReadInv, DataInv, Spoilt, UpToDate
<1> QED
  BY <1>6, <1>7, <1>8 DEF FileInv

\* The texts are sequences of tokens.
LEMMA TextTypes ==
  ASSUME FileInv
  PROVE  /\ text \in Seq(Tokens) /\ line \in Seq(Tokens) /\ stack \in Seq(Openers)
         /\ Whole \in Seq(Tokens)
         /\ Len(stack) \in Nat /\ (Len(stack) = 0 <=> stack = <<>>)
         /\ line # <<>> => Whole # <<>> /\ Last(line) = Whole[Len(Whole)]
                           /\ Len(Whole) \in 1..Len(Whole)
         /\ text # <<>> => Whole[1] = text[1] /\ Whole # <<>>
<1>1. text \in Seq(Tokens) /\ line \in Seq(Tokens) /\ stack \in Seq(Openers)
  BY DEF FileInv, TypeOK
<1>2. Whole \in Seq(Tokens)
  BY <1>1 DEF Whole
<1>3. Len(stack) \in Nat /\ (Len(stack) = 0 <=> stack = <<>>)
  BY <1>1
<1>4. line # <<>> => /\ text \o line # <<>>
                     /\ line[Len(line)] = (text \o line)[Len(text \o line)]
                     /\ Len(text \o line) \in 1..Len(text \o line)
  BY <1>1
<1>5. text # <<>> => (text \o line)[1] = text[1] /\ text \o line # <<>>
  BY <1>1
<1> QED
  BY <1>1, <1>2, <1>3, <1>4, <1>5 DEF Whole, Last

\* The reader is where it was while a line is written.
LEMMA ReaderUnchanged ==
  ASSUME ReadInv, UNCHANGED <<written, text, parser>>, text # <<>> => variable' = variable
  PROVE  ReadInv'
<1>1. DataInv' /\ Spoilt' = Spoilt /\ Stuck' = Stuck
  BY DEF ReadInv, DataInv, Spoilt, Stuck, parser
<1>2. UpToDate => UpToDate'
  BY DEF UpToDate, parser
<1> QED
  BY <1>1, <1>2 DEF ReadInv

\* A structure begins with its bracket.
LEMMA FileAssign ==
  ASSUME FileInv, NEW v \in Structures, NEW t \in Openers, Assign(v, t)
  PROVE  FileInv'
<1>1. /\ text = <<>> /\ text' = <<>> /\ line' = <<t>> /\ stack' = <<t>> /\ variable' = v
      /\ UNCHANGED <<written, parser>> /\ t \in Tokens /\ v \notin DOMAIN written
  BY Brackets DEF Assign, Between, FileInv, NestInv
<1>2. Whole' = <<t>>
  BY <1>1 DEF Whole
<1>3. Count(<<t>>, Openers) = 1 /\ Count(<<t>>, Closers) = 0
  BY <1>1, CountOne, Brackets
<1>4. <<t>> # <<>> /\ <<t>>[1] = t /\ Len(<<t>>) = 1
  OBVIOUS
<1>5. NestInv'
  BY <1>1, <1>2, <1>3, <1>4 DEF NestInv
<1>6. TypeOK'
  <2>1. line' \in Seq(Tokens) /\ stack' \in Seq(Openers) /\ variable' \in Vars
    BY <1>1 DEF Vars
  <2> QED
    BY <1>1, <2>1 DEF FileInv, TypeOK, parser
<1>7. ReadInv'
  BY <1>1, ReaderUnchanged DEF FileInv
<1> QED
  BY <1>5, <1>6, <1>7 DEF FileInv

\* What is left when the innermost bracket is closed.
LEMMA FrontOfStack ==
  ASSUME NEW s \in Seq(Openers), s # <<>>
  PROVE  /\ Front(s) \in Seq(Openers) /\ Len(Front(s)) = Len(s) - 1
         /\ Front(s) # <<>> => Front(s)[1] = s[1]
         /\ Front(s) = <<>> => Len(s) = 1
<1>1. Len(s) \in Nat /\ Len(s) # 0 /\ \A i \in 1..Len(s) : s[i] \in Openers
  OBVIOUS
<1>2. PICK n \in Nat : n = Len(s) - 1
  BY <1>1
<1>3. Front(s) = [i \in 1..n |-> s[i]]
  BY <1>1, <1>2 DEF Front
<1>4. Front(s) \in Seq(Openers) /\ Len(Front(s)) = n
  BY <1>1, <1>2, <1>3
<1>5. CASE n = 0
  BY <1>1, <1>2, <1>4, <1>5
<1>6. CASE n # 0
  <2>1. 1 \in 1..n
    BY <1>2, <1>6
  <2>2. Front(s)[1] = s[1] /\ Front(s) # <<>>
    BY <1>3, <1>4, <1>6, <2>1
  <2> QED
    BY <1>2, <1>4, <2>2
<1> QED
  BY <1>5, <1>6

\* Each token keeps the count and the stack together.
LEMMA FilePut ==
  ASSUME FileInv, NEW t \in Tokens, Put(t)
  PROVE  FileInv'
<1>1. /\ stack # <<>> /\ stack \in Seq(Openers) /\ line' = Append(line, t)
      /\ text \in Seq(Tokens) /\ line \in Seq(Tokens)
      /\ stack' = Nested(stack, t) /\ UNCHANGED <<written, variable, text, parser>>
      /\ t \in Closers => t = End(Last(stack))
  BY DEF Put, FileInv, TypeOK
<1>2. /\ Whole \in Seq(Tokens) /\ Whole # <<>> /\ stack[1] = Whole[1]
      /\ Whole[1] \in Openers /\ variable \in Structures /\ variable \notin DOMAIN written
      /\ Count(Whole, Openers) = Count(Whole, Closers) + Len(stack)
  BY <1>1 DEF FileInv, NestInv, Whole
<1>3. Whole' = Append(Whole, t)
  BY <1>1 DEF Whole
<1>4. Append(Whole, t)[1] = Whole[1] /\ Append(Whole, t) # <<>>
  BY <1>2
<1>5. /\ Count(Whole', Openers) = Count(Whole, Openers) + (IF t \in Openers THEN 1 ELSE 0)
      /\ Count(Whole', Closers) = Count(Whole, Closers) + (IF t \in Closers THEN 1 ELSE 0)
      /\ Count(Whole, Openers) \in Nat /\ Count(Whole, Closers) \in Nat
  BY <1>2, <1>3, CountAppend, CountType
<1>6. /\ stack' \in Seq(Openers)
      /\ Len(stack') = Len(stack) + (IF t \in Openers THEN 1 ELSE 0)
                                  - (IF t \in Closers THEN 1 ELSE 0)
      /\ stack' # <<>> => stack'[1] = stack[1]
      /\ stack' = <<>> => t \in Closers /\ Len(stack) = 1
  <2>1. CASE t \in Openers
    <3>1. stack' = Append(stack, t) /\ t \notin Closers
      BY <1>1, <2>1, Brackets DEF Nested
    <3> QED
      BY <1>1, <2>1, <3>1
  <2>2. CASE t \in Closers
    <3>1. stack' = Front(stack) /\ t \notin Openers
      BY <1>1, <2>2, Brackets DEF Nested
    <3> QED
      BY <1>1, <2>2, <3>1, FrontOfStack DEF Front
  <2>3. CASE t \notin Openers \cup Closers
    <3>1. stack' = stack
      BY <1>1, <2>3 DEF Nested
    <3> QED
      BY <1>1, <2>3, <3>1
  <2> QED
    BY <2>1, <2>2, <2>3
<1>7. Last(line') = t /\ line' # <<>> /\ line' \in Seq(Tokens)
  BY <1>1 DEF Last
<1>8. stack' = <<>> => t = End(Whole[1])
  <2>1. Len(stack) = 1 => Last(stack) = stack[1]
    BY DEF Last
  <2> QED
    BY <1>1, <1>2, <1>6, <2>1
<1>9. Len(stack) \in Nat /\ Len(stack') \in Nat
  BY <1>1, <1>6
<1>10. Count(Whole', Openers) = Count(Whole', Closers) + Len(stack')
  <2>1. CASE t \in Openers
    <3>1. t \notin Closers
      BY <2>1, Brackets
    <3> QED
      BY <1>2, <1>5, <1>6, <1>9, <2>1, <3>1
  <2>2. CASE t \notin Openers
    BY <1>2, <1>5, <1>6, <1>9, <2>2
  <2> QED
    BY <2>1, <2>2
<1>11. NestInv'
  BY <1>1, <1>2, <1>3, <1>4, <1>6, <1>7, <1>8, <1>10 DEF NestInv
<1>12. TypeOK'
  BY <1>1, <1>6, <1>7 DEF FileInv, TypeOK, parser
<1>13. ReadInv'
  BY <1>1, ReaderUnchanged DEF FileInv
<1> QED
  BY <1>11, <1>12, <1>13 DEF FileInv

--------------------------------------------------------------------------------
(***************************************************************************)
(* The end of a line                                                       *)
(***************************************************************************)
\* A value that can be converted is loaded just when the writer is through with it.
LEMMA LoadsWhole ==
  ASSUME FileInv
  PROVE  Loads(Whole) <=> stack = <<>> /\ "'" \notin Range(Whole)
<1>1. Whole \in Seq(Tokens) /\ Len(stack) \in Nat /\ (Len(stack) = 0 <=> stack = <<>>)
  BY TextTypes
<1>2. Count(Whole, Openers) \in Nat /\ Count(Whole, Closers) \in Nat
  BY <1>1, CountType
<1> QED
  BY <1>1, <1>2 DEF FileInv, NestInv, Loads

\* What is in the first part of a text is in the whole of it.
LEMMA RangeConcat ==
  ASSUME NEW a \in Seq(Tokens), NEW b \in Seq(Tokens), NEW t \in Range(a)
  PROVE  t \in Range(a \o b)
<1>1. PICK n \in 1..Len(a) : a[n] = t
  BY DEF Range
<1>2. n \in DOMAIN (a \o b) /\ (a \o b)[n] = t
  BY <1>1
<1> QED
  BY <1>2 DEF Range

\* What the reader does while it is up to date: it takes the value when the writer
\* has ended it and it can be converted, and waits for the counterpart of the first
\* bracket otherwise.
LEMMA ReadLine ==
  ASSUME FileInv, EndLine, ~Spoilt
  PROVE  /\ Loads(Whole) =>
              /\ data' = Set(data, variable, Loaded(Whole))
              /\ unparsed' = <<>> /\ unparsedvariable' = NoVar /\ endunparsed' = ""
         /\ ~Loads(Whole) =>
              /\ data' = data /\ unparsed' = Whole /\ unparsedvariable' = variable
              /\ endunparsed' = End(Whole[1])
<1>1. /\ text \in Seq(Tokens) /\ line \in Seq(Tokens) /\ line # <<>>
      /\ Whole \in Seq(Tokens) /\ Whole # <<>> /\ Whole[1] \in Openers
      /\ Last(line) = Whole[Len(Whole)] /\ Len(Whole) \in 1..Len(Whole)
  BY TextTypes DEF FileInv, NestInv, EndLine
<1>2. stack = <<>> => Last(line) = End(Whole[1])
  BY <1>1 DEF FileInv, NestInv
<1>3. Last(line) = End(Whole[1]) => Count(Whole, {End(Whole[1])}) > 0
  BY <1>1, CountPositive
<1>4. Loads(Whole) => stack = <<>>
  BY LoadsWhole
<1>5. CASE text = <<>>
  <2>1. Whole = line
    BY <1>1, <1>5 DEF Whole
  <2>2. Check(Whole, variable, End(Whole[1]))
    BY <1>5, <2>1 DEF EndLine, ReadHead, FileInv, ReadInv, UpToDate
  <2> QED
    BY <1>2, <1>3, <1>4, <2>2 DEF Check
<1>6. CASE text # <<>>
  <2>1. /\ unparsed = text /\ endunparsed = End(Whole[1]) /\ unparsedvariable = variable
    BY <1>6, TextTypes DEF FileInv, ReadInv, UpToDate
  <2>2. ReadMore(line) /\ unparsed \o line = Whole
    BY <1>6, <2>1 DEF EndLine, Whole
  <2>3. CASE Last(line) = End(Whole[1])
    <3>1. Check(Whole, variable, End(Whole[1]))
      BY <2>1, <2>2, <2>3 DEF ReadMore
    <3> QED
      BY <1>2, <1>3, <1>4, <2>3, <3>1 DEF Check
  <2>4. CASE Last(line) # End(Whole[1])
    BY <1>2, <1>4, <2>1, <2>2, <2>4 DEF ReadMore
  <2> QED
    BY <2>3, <2>4
<1> QED
  BY <1>5, <1>6

\* A value that cannot be loaded takes in all that follows.
LEMMA ReadStuck ==
  ASSUME Stuck, unparsed \in Seq(Tokens), NEW l \in Seq(Tokens), ReadMore(l)
  PROVE  /\ Stuck' /\ unparsed' \in Seq(Tokens)
         /\ UNCHANGED <<data, unparsedvariable, endunparsed>>
<1>1. "'" \in Range(unparsed \o l) /\ unparsed \o l \in Seq(Tokens)
  BY RangeConcat DEF Stuck
<1>2. ~Loads(unparsed \o l)
  BY <1>1 DEF Loads
<1>3. unparsed' = unparsed \o l /\ UNCHANGED <<data, unparsedvariable, endunparsed>>
  BY <1>2 DEF ReadMore, Check
<1> QED
  BY <1>1, <1>3 DEF Stuck

LEMMA StuckHasText ==
  ASSUME Stuck PROVE unparsed # <<>>
  BY DEF Stuck, Range

\* A value more has been written.
LEMMA OneMore ==
  ASSUME DataInv, NEW v, v \notin DOMAIN written, NEW x, written' = Set(written, v, x)
  PROVE  /\ DOMAIN written' = DOMAIN written \cup {v}
         /\ Spoilt' <=> Spoilt \/ "'" \in Range(x)
         /\ data' = data => DataInv'
         /\ data' = Set(data, v, Loaded(x)) => DataInv' /\ DOMAIN data' = DOMAIN data \cup {v}
<1>1. /\ DOMAIN written' = DOMAIN written \cup {v} /\ written'[v] = x
      /\ \A w \in DOMAIN written : written'[w] = written[w]
  BY DEF Set
<1>2. Spoilt' <=> Spoilt \/ "'" \in Range(x)
  BY <1>1 DEF Spoilt
<1>3. data' = data => DataInv'
  BY <1>1 DEF DataInv
<1>4. ASSUME data' = Set(data, v, Loaded(x)) PROVE DataInv' /\ DOMAIN data' = DOMAIN data \cup {v}
  <2>1. DOMAIN data' = DOMAIN data \cup {v} /\ data'[v] = Loaded(x)
        /\ \A w \in DOMAIN data : w # v => data'[w] = data[w]
    BY <1>4 DEF Set
  <2>2. \A w \in DOMAIN data' : w \in DOMAIN written' /\ data'[w] = Loaded(written'[w])
    BY <1>1, <2>1 DEF DataInv
  <2> QED
    BY <2>1, <2>2 DEF DataInv
<1> QED
  BY <1>1, <1>2, <1>3, <1>4

LEMMA FileEndLine ==
  ASSUME FileInv, EndLine
  PROVE  FileInv'
<1>1. /\ line' = <<>> /\ stack' = stack /\ stack \in Seq(Openers)
      /\ text \in Seq(Tokens) /\ line \in Seq(Tokens) /\ line # <<>>
      /\ Whole \in Seq(Tokens) /\ Whole # <<>> /\ Whole[1] \in Openers
      /\ variable \in Structures /\ Whole = text \o line
      /\ variable \notin DOMAIN written /\ unparsed \in Seq(Tokens)
  BY TextTypes DEF FileInv, TypeOK, NestInv, EndLine, Whole
<1>2. /\ stack = <<>> => /\ written' = Set(written, variable, Whole)
                         /\ variable' = NoVar /\ text' = <<>>
      /\ stack # <<>> => text' = Whole /\ UNCHANGED <<written, variable>>
  BY <1>1 DEF EndLine
<1>3. /\ stack = <<>> => Whole' = <<>>
      /\ stack # <<>> => Whole' = Whole
  BY <1>1, <1>2 DEF Whole
<1>4. NestInv'
  <2>1. CASE stack = <<>>
    <3>1. Count(<<>>, Openers) = 0 /\ Count(<<>>, Closers) = 0 /\ Len(<<>>) = 0
      BY CountNone
    <3> QED
      BY <1>1, <1>2, <1>3, <2>1, <3>1 DEF NestInv
  <2>2. CASE stack # <<>>
    BY <1>1, <1>2, <1>3, <2>2 DEF FileInv, NestInv
  <2> QED
    BY <2>1, <2>2
<1>5. /\ stack = <<>> => /\ DOMAIN written' = DOMAIN written \cup {variable}
                         /\ Spoilt' <=> Spoilt \/ "'" \in Range(Whole)
                         /\ data' = data => DataInv'
                         /\ data' = Set(data, variable, Loaded(Whole)) =>
                              DataInv' /\ DOMAIN data' = DOMAIN data \cup {variable}
      /\ stack # <<>> => Spoilt' = Spoilt /\ (data' = data => DataInv')
  <2>1. DataInv
    BY DEF FileInv, ReadInv
  <2>2. CASE stack = <<>>
    BY <1>1, <1>2, <2>1, <2>2, OneMore
  <2>3. CASE stack # <<>>
    BY <1>2, <2>1, <2>3 DEF Spoilt, DataInv
  <2> QED
    BY <2>2, <2>3
<1>6. /\ ReadInv' /\ unparsed' \in Seq(Tokens)
      /\ unparsedvariable' \in Vars \cup {NoVar} /\ endunparsed' \in Closers \cup {""}
      /\ DOMAIN data' \subseteq DOMAIN data \cup {variable}
  <2>1. CASE Spoilt
    <3>1. Stuck /\ unparsed # <<>>
      BY <2>1, StuckHasText DEF FileInv, ReadInv
    <3>2. ReadMore(line)
      BY <3>1 DEF EndLine, ReadHead
    <3>3. /\ Stuck' /\ unparsed' \in Seq(Tokens)
          /\ UNCHANGED <<data, unparsedvariable, endunparsed>>
      BY <1>1, <3>1, <3>2, ReadStuck
    <3>4. Spoilt' /\ DataInv'
      BY <1>5, <2>1, <3>3
    <3> QED
      BY <3>3, <3>4 DEF ReadInv, FileInv, TypeOK
  <2>2. CASE ~Spoilt /\ Loads(Whole)
    <3>1. stack = <<>> /\ "'" \notin Range(Whole)
      BY <2>2, LoadsWhole
    <3>2. /\ data' = Set(data, variable, Loaded(Whole))
          /\ unparsed' = <<>> /\ unparsedvariable' = NoVar /\ endunparsed' = ""
      BY <2>2, ReadLine
    <3>3. ~Spoilt' /\ DataInv' /\ DOMAIN data' = DOMAIN data \cup {variable}
      BY <1>5, <2>2, <3>1, <3>2
    <3>4. UpToDate'
      <4>1. DOMAIN data = DOMAIN written
        BY <2>2 DEF FileInv, ReadInv, UpToDate
      <4>2. DOMAIN data' = DOMAIN written' /\ text' = <<>>
        BY <1>2, <1>5, <3>1, <3>3, <4>1
      <4> QED
        BY <3>2, <4>2 DEF UpToDate
    <3>5. ReadInv'
      BY <3>3, <3>4 DEF ReadInv
    <3>6. unparsed' \in Seq(Tokens) /\ DOMAIN data' \subseteq DOMAIN data \cup {variable}
      <4>1. <<>> \in Seq(Tokens)
        OBVIOUS
      <4>2. DOMAIN data' = DOMAIN data \cup {variable}
        BY <3>3
      <4> QED
        BY <3>2, <4>1, <4>2, Zenon
    <3> QED
      BY <3>2, <3>5, <3>6
  <2>3. CASE ~Spoilt /\ ~Loads(Whole)
    <3>1. /\ data' = data /\ unparsed' = Whole /\ unparsedvariable' = variable
          /\ endunparsed' = End(Whole[1]) /\ End(Whole[1]) \in Closers
      BY <1>1, <2>3, ReadLine, Brackets
    <3>2. CASE stack = <<>>
      <4>1. "'" \in Range(Whole)
        BY <2>3, <3>2, LoadsWhole
      <4>2. Stuck' /\ Spoilt' /\ DataInv'
        BY <1>5, <3>1, <3>2, <4>1 DEF Stuck
      <4> QED
        BY <1>1, <3>1, <4>2 DEF ReadInv, Vars
    <3>3. CASE stack # <<>>
      <4>1. ~Spoilt' /\ DataInv'
        BY <1>5, <2>3, <3>1, <3>3
      <4>2. UpToDate'
        BY <1>1, <1>2, <2>3, <3>1, <3>3 DEF UpToDate, FileInv, ReadInv
      <4> QED
        BY <1>1, <3>1, <4>1, <4>2 DEF ReadInv, Vars
    <3> QED
      BY <3>2, <3>3
  <2> QED
    BY <2>1, <2>2, <2>3
<1>7. TypeOK'
  <2>1. variable \in Vars /\ <<>> \in Seq(Tokens)
    BY <1>1 DEF Vars
  <2>2. DOMAIN data' \subseteq Vars
    BY <1>6, <2>1 DEF FileInv, TypeOK
  <2>3. DOMAIN written' \subseteq Vars
    BY <1>2, <1>5, <2>1 DEF FileInv, TypeOK
  <2>4. text' \in Seq(Tokens) /\ variable' \in Vars \cup {NoVar}
    BY <1>1, <1>2, <2>1
  <2> QED
    BY <1>1, <1>6, <2>1, <2>2, <2>3, <2>4 DEF TypeOK
<1> QED
  BY <1>4, <1>6, <1>7 DEF FileInv

\* Between structures the reader has nothing, or is stuck; it takes a scalar for
\* what it is, or for more of the value it cannot load.
LEMMA FileScalar ==
  ASSUME FileInv, NEW v \in Scalars, ScalarLine(v)
  PROVE  FileInv'
<1>0. text = <<>> /\ line = <<>> /\ <<>> \o <<>> = <<>>
  BY DEF ScalarLine, Between, FileInv, NestInv
<1>1. /\ text = <<>> /\ Whole = <<>> /\ UNCHANGED <<variable, text, line, stack>>
      /\ written' = Set(written, v, Scalar) /\ v \notin DOMAIN written /\ v \in Vars
      /\ DataInv /\ unparsed \in Seq(Tokens) /\ ReadScalar(v)
  <2>1. Whole = <<>>
    BY <1>0 DEF Whole
  <2>2. v \in Vars /\ DataInv /\ unparsed \in Seq(Tokens)
    BY DEF FileInv, TypeOK, ReadInv, Vars
  <2> QED
    BY <1>0, <2>1, <2>2 DEF ScalarLine
<1>2. "'" \notin Range(Scalar) /\ Loaded(Scalar) = Scalar /\ Scalar \in Seq(Tokens)
  <2>1. DOMAIN Scalar = {1} /\ Scalar[1] = "x" /\ Scalar \in Seq(Tokens)
    <3>1. <<"x">> \in Seq(Tokens)
      BY OneToken, Brackets
    <3>2. DOMAIN <<"x">> = 1..1 /\ 1..1 = {1} /\ <<"x">>[1] = "x"
      OBVIOUS
    <3> QED
      BY <3>1, <3>2 DEF Scalar
  <2>2. Range(Scalar) = {"x"}
    BY <2>1 DEF Range
  <2>3. Loaded(Scalar) = [n \in {1} |-> "x"] /\ Scalar = [n \in {1} |-> "x"]
    BY <2>1 DEF Loaded, Scalar
  <2> QED
    BY <2>1, <2>2, <2>3
<1>3. /\ DOMAIN written' = DOMAIN written \cup {v} /\ Spoilt' = Spoilt
      /\ data' = data => DataInv'
      /\ data' = Set(data, v, Scalar) => DataInv' /\ DOMAIN data' = DOMAIN data \cup {v}
  <2> HIDE DEF Scalar
  <2>1. /\ DOMAIN written' = DOMAIN written \cup {v}
        /\ Spoilt' <=> Spoilt \/ "'" \in Range(Scalar)
        /\ data' = data => DataInv'
        /\ data' = Set(data, v, Loaded(Scalar)) =>
             DataInv' /\ DOMAIN data' = DOMAIN data \cup {v}
    BY <1>1, OneMore
  <2>2. Spoilt' = Spoilt
    BY <1>2, <2>1 DEF Spoilt
  <2>3. data' = Set(data, v, Scalar) => DataInv' /\ DOMAIN data' = DOMAIN data \cup {v}
    BY <1>2, <2>1, Zenon
  <2> QED
    BY <2>1, <2>2, <2>3, Zenon
<1>4. /\ ReadInv' /\ unparsed' \in Seq(Tokens) /\ DOMAIN data' \subseteq DOMAIN data \cup {v}
      /\ UNCHANGED <<unparsedvariable, endunparsed>>
  <2>1. CASE Spoilt
    <3>1. Stuck /\ unparsed # <<>>
      BY <2>1, StuckHasText DEF FileInv, ReadInv
    <3>2. ReadMore(<<"x">>) /\ <<"x">> \in Seq(Tokens)
      BY <1>1, <1>2, <3>1 DEF ReadScalar, Scalar
    <3>3. /\ Stuck' /\ unparsed' \in Seq(Tokens)
          /\ UNCHANGED <<data, unparsedvariable, endunparsed>>
      BY <1>1, <3>1, <3>2, ReadStuck
    <3> QED
      BY <1>3, <2>1, <3>3 DEF ReadInv
  <2>2. CASE ~Spoilt
    <3>1. UpToDate /\ unparsed = <<>>
      BY <1>1, <2>2 DEF FileInv, ReadInv, UpToDate
    <3>2. /\ data' = Set(data, v, Scalar)
          /\ UNCHANGED <<unparsed, unparsedvariable, endunparsed>>
      BY <1>1, <3>1 DEF ReadScalar
    <3>3. UpToDate'
      BY <1>1, <1>3, <3>1, <3>2 DEF UpToDate
    <3> QED
      BY <1>1, <1>3, <2>2, <3>2, <3>3 DEF ReadInv
  <2> QED
    BY <2>1, <2>2
<1>5. TypeOK'
  BY <1>1, <1>3, <1>4 DEF FileInv, TypeOK
<1>6. NestInv'
  BY <1>1 DEF FileInv, NestInv, Whole
<1> QED
  BY <1>4, <1>5, <1>6 DEF FileInv

\* A line that says nothing.
LEMMA FileBlank ==
  ASSUME FileInv, Blank
  PROVE  FileInv'
<1>1. /\ text = <<>> /\ UNCHANGED <<written, variable, text, line, stack>> /\ ReadBlank
      /\ unparsed \in Seq(Tokens) /\ <<"x">> \in Seq(Tokens)
  <2>1. <<"x">> \in Seq(Tokens)
    BY OneToken, Brackets
  <2>2. stack = <<>> /\ line = <<>> /\ UNCHANGED writer /\ ReadBlank
    BY DEF Blank, Between
  <2>3. text = <<>> /\ unparsed \in Seq(Tokens)
    BY <2>2 DEF FileInv, TypeOK, NestInv
  <2> QED
    BY <2>1, <2>2, <2>3 DEF writer
<1>2. Spoilt' = Spoilt /\ (data' = data => DataInv')
  BY <1>1 DEF FileInv, ReadInv, DataInv, Spoilt
<1>3. ReadInv' /\ unparsed' \in Seq(Tokens) /\ UNCHANGED <<data, unparsedvariable, endunparsed>>
  <2>1. CASE Spoilt
    <3>1. Stuck /\ unparsed # <<>>
      BY <2>1, StuckHasText DEF FileInv, ReadInv
    <3>2. /\ Stuck' /\ unparsed' \in Seq(Tokens)
          /\ UNCHANGED <<data, unparsedvariable, endunparsed>>
      BY <1>1, <3>1, ReadStuck DEF ReadBlank
    <3> QED
      BY <1>2, <2>1, <3>2 DEF ReadInv
  <2>2. CASE ~Spoilt
    <3>1. UpToDate /\ unparsed = <<>>
      BY <1>1, <2>2 DEF FileInv, ReadInv, UpToDate
    <3>2. UNCHANGED parser
      BY <1>1, <3>1 DEF ReadBlank
    <3> QED
      BY <1>1, <3>2, ReaderUnchanged DEF FileInv, parser
  <2> QED
    BY <2>1, <2>2
<1> QED
  BY <1>1, <1>3 DEF FileInv, TypeOK, NestInv, Whole

LEMMA FileNext ==
  ASSUME FileInv, [Next]_vars
  PROVE  FileInv'
<1>1. \A t \in Openers \cup Closers \cup Texts : t \in Tokens
  BY Brackets
<1>2. CASE UNCHANGED vars
  BY <1>2 DEF vars, writer, parser, FileInv, TypeOK, NestInv, ReadInv, DataInv,
              Spoilt, Stuck, UpToDate, Whole
<1> QED
  BY <1>1, <1>2, FileAssign, FilePut, FileEndLine, FileScalar, FileBlank DEF Next

\* The parser and the file keep their types, in step or not.
THEOREM FileInvariance == Spec => [](TypeOK /\ NestInv /\ ReadInv)
<1>1. FileInv /\ [Next]_vars => FileInv'
  BY FileNext
<1> QED
  BY InitFile, <1>1, PTL DEF Spec, FileInv

\* readline and the writers agree on where each value ends, for every nesting of
\* lists and dictionaries broken into lines in every way: what
\* checkandprocessunprocessed loads is what was written for the name, as jsonload
\* rewrites it, and nothing is missing unless some value cannot be converted.
THEOREM ReaderInStep == Spec => []InStep
<1>1. FileInv => InStep
  <2> SUFFICES ASSUME FileInv, line = <<>>
               PROVE  /\ DataInv
                      /\ Spoilt \/ /\ DOMAIN data = DOMAIN written
                                   /\ unparsedvariable = variable /\ unparsed = text
    BY DEF InStep, DataInv
  <2>1. stack # <<>> => text # <<>>
    <3>1. Whole = text
      BY TextTypes DEF Whole
    <3> QED
      BY <3>1 DEF FileInv, NestInv
  <2>2. stack = <<>> => text = <<>> /\ variable = NoVar
    BY DEF FileInv, NestInv
  <2> QED
    BY <2>1, <2>2 DEF FileInv, ReadInv, UpToDate
<1> QED
  BY FileInvariance, <1>1, PTL DEF FileInv

\* "We have unparsed data but we do not know how it ends" is never raised, and
\* parse() finds lines left at the end of a file just when a value in it cannot be
\* converted.
THEOREM ReaderKnowsTheEnd == Spec => []KnowsTheEnd
<1>1. FileInv => KnowsTheEnd
  <2> SUFFICES ASSUME FileInv PROVE KnowsTheEnd
    OBVIOUS
  <2>1. CASE Spoilt
    <3>1. unparsed # <<>> /\ endunparsed # ""
      BY <2>1, StuckHasText, Brackets DEF FileInv, ReadInv, Stuck
    <3> QED
      BY <2>1, <3>1 DEF KnowsTheEnd
  <2>2. CASE ~Spoilt
    <3>1. text # <<>> => End(text[1]) # ""
      BY DEF End
    <3>2. UpToDate /\ (Between => unparsed = <<>>)
      BY <2>2 DEF Between, FileInv, NestInv, ReadInv, UpToDate
    <3>3. (unparsed # <<>>) <=> (endunparsed # "")
      BY <3>1, <3>2 DEF UpToDate
    <3> QED
      BY <2>2, <3>2, <3>3 DEF KnowsTheEnd
  <2> QED
    BY <2>1, <2>2
<1> QED
  BY FileInvariance, <1>1, PTL DEF FileInv
================================================================================
