-------------------------- MODULE Renderer_proofs --------------------------
(***************************************************************************)
(* Proofs about one reply of the model, for chunks of any kind and replies *)
(* of any length.  The types and the places of the renderer's buffers, and *)
(* that no line is lost or moved while a reply streams.  That a reply      *)
(* looks as it would if it were shown at once, when both renderers read    *)
(* the languages of its fences alike: what the terminal and the            *)
(* buffers hold is, step by step, what render_lines makes of what has been *)
(* read.  That the repair of closing tags mends the annotations that need  *)
(* it and leaves alone those that are right: an invariant of its loop.     *)
(***************************************************************************)
EXTENDS Reply, WellFoundedInduction, TLAPS

Item == [as : Forms, line : Line]

\* A line is never mistaken for code where nothing is rendered.
FencesColored == fenced => color

IInv == TypeOK /\ FencesColored /\ InOrder

-----------------------------------------------------------------------------
(* The operators on lines.                                                 *)

\* The least and the largest of some numbers.
LEMMA LeastOf ==
  ASSUME NEW S, S \subseteq Nat, S # {}
  PROVE  Min(S) \in S /\ \A y \in S : Min(S) <= y
<1>1. PICK m \in S : \A k \in S : <<k, m>> \notin OpToRel(<, Nat)
  BY WFMin, NatLessThanWellFounded
<1>2. \A k \in S : ~(k < m)
  BY <1>1 DEF OpToRel
<1>3. \A k \in S : m <= k
  BY <1>2
<1> QED
  BY <1>3 DEF Min

LEMMA LargestOf ==
  ASSUME NEW n \in Nat, NEW S, S \subseteq 0 .. n, S # {}
  PROVE  Max(S) \in S /\ \A y \in S : y <= Max(S)
<1> DEFINE Above == {m \in Nat : \A i \in S : i <= m}
<1>1. Above \subseteq Nat /\ n \in Above
  OBVIOUS
<1> DEFINE m == Min(Above)
<1>2. m \in Above /\ \A k \in Above : m <= k
  BY <1>1, LeastOf
<1> HIDE DEF m
<1>3. m \in Nat /\ \A i \in S : i <= m
  BY <1>2
<1>4. m \in S
  <2> SUFFICES ASSUME m \notin S
               PROVE  FALSE
    OBVIOUS
  <2>1. PICK i \in S : TRUE
    OBVIOUS
  <2>2. i \in Nat /\ i <= m /\ i # m
    BY <2>1, <1>3
  <2>3. m - 1 \in Nat /\ \A j \in S : j <= m - 1
    <3>1. \A j \in S : j \in Nat /\ j <= m /\ j # m
      BY <1>3
    <3> QED
      BY <3>1, <2>2, <1>3
  <2> QED
    BY <2>3, <1>2, <1>3
<1> QED
  BY <1>3, <1>4 DEF Max

\* What a fence names is a part of its line.
LEMMA LanguageTyped ==
  ASSUME NEW l \in Line
  PROVE  Language(l) \in Line /\ WholeLanguage(l) \in Line
<1> DEFINE name == {i \in 2 .. Len(l) : l[i] # Blank}
<1>1. l \in Seq(Lexeme) /\ Len(l) \in Nat
  BY DEF Line
<1>2. CASE name = {}
  <2>1. Language(l) = <<>> /\ WholeLanguage(l) = <<>>
    BY <1>2 DEF Language, WholeLanguage
  <2> QED
    BY <2>1 DEF Line
<1>3. CASE name # {}
  <2>1. Language(l) = SubSeq(l, Min(name), Max(name)) /\ WholeLanguage(l) = SubSeq(l, 2, Max(name))
    BY <1>3 DEF Language, WholeLanguage
  <2>2. name \subseteq Nat /\ name \subseteq 0 .. Len(l)
    BY <1>1
  <2>3. Min(name) \in name /\ Max(name) \in name
    BY <1>1, <1>3, <2>2, LeastOf, LargestOf
  <2>4. Min(name) \in 2 .. Len(l) /\ Max(name) \in 2 .. Len(l)
    BY <2>3
  <2> HIDE DEF name
  <2>5. \A i, j \in 2 .. Len(l) : SubSeq(l, i, j) \in Seq(Lexeme)
    BY <1>1
  <2>6. 2 \in 2 .. Len(l)
    BY <1>1, <2>4
  <2> QED
    BY <2>1, <2>4, <2>5, <2>6 DEF Line
<1> QED
  BY <1>2, <1>3

\* The form of a line is one of the forms.
LEMMA FormTyped == \A l : Form(l) \in Forms
BY DEF Form, Forms

\* All(form, ls) is a sequence of as many items as ls has lines.
LEMMA AllTyped ==
  ASSUME NEW form \in Forms, NEW ls \in Seq(Line)
  PROVE  All(form, ls) \in Seq(Item) /\ Len(All(form, ls)) = Len(ls)
<1>1. \A i \in 1..Len(ls) : Shown(form, ls[i]) \in Item
  BY DEF Shown, Item
<1>2. All(form, ls) \in [1..Len(ls) -> Item]
  BY <1>1 DEF All
<1> QED BY <1>2

\* The lines of All(form, ls) are ls.
LEMMA LinesOfAll ==
  ASSUME NEW form \in Forms, NEW ls \in Seq(Line)
  PROVE  LinesOf(All(form, ls)) = ls
<1>1. Len(All(form, ls)) = Len(ls) /\ Len(ls) \in Nat
  BY AllTyped
<1>2. \A i \in 1..Len(ls) : All(form, ls)[i].line = ls[i]
  BY DEF All, Shown
<1>3. LinesOf(All(form, ls)) = [i \in 1..Len(ls) |-> ls[i]]
  BY <1>1, <1>2 DEF LinesOf
<1> QED BY <1>3

\* The lines of a sequence of items are a sequence of lines.
LEMMA LinesOfTyped ==
  ASSUME NEW s \in Seq(Item)
  PROVE  LinesOf(s) \in Seq(Line) /\ Len(LinesOf(s)) = Len(s)
<1>1. ASSUME NEW i \in 1..Len(s) PROVE s[i].line \in Line
  <2>1. s[i] \in Item
    OBVIOUS
  <2> QED BY <2>1 DEF Item
<1>2. LinesOf(s) \in [1..Len(s) -> Line]
  BY <1>1 DEF LinesOf
<1> QED BY <1>2

\* LinesOf distributes over concatenation.
LEMMA LinesOfConcat ==
  ASSUME NEW s \in Seq(Item), NEW t \in Seq(Item)
  PROVE  LinesOf(s \o t) = LinesOf(s) \o LinesOf(t)
<1> DEFINE left == LinesOf(s \o t)
<1> DEFINE right == LinesOf(s) \o LinesOf(t)
<1>1. LinesOf(s) \in Seq(Line) /\ LinesOf(t) \in Seq(Line)
      /\ Len(LinesOf(s)) = Len(s) /\ Len(LinesOf(t)) = Len(t)
  BY LinesOfTyped
<1>2. s \o t \in Seq(Item) /\ Len(s \o t) = Len(s) + Len(t)
  OBVIOUS
<1>3. left \in Seq(Line) /\ Len(left) = Len(s) + Len(t)
  BY <1>2, LinesOfTyped
<1>4. right \in Seq(Line) /\ Len(right) = Len(s) + Len(t)
  <2> DEFINE a == LinesOf(s)
             b == LinesOf(t)
  <2> HIDE DEF a, b
  <2>1. a \in Seq(Line) /\ b \in Seq(Line) /\ Len(a) = Len(s) /\ Len(b) = Len(t)
    BY <1>1 DEF a, b
  <2>2. a \o b \in Seq(Line) /\ Len(a \o b) = Len(a) + Len(b)
    BY <2>1
  <2> QED BY <2>1, <2>2 DEF a, b
<1>5. ASSUME NEW i \in 1..(Len(s) + Len(t))
      PROVE  left[i] = right[i]
  <2>1. left[i] = (s \o t)[i].line
    BY <1>2 DEF LinesOf
  <2>2. CASE i <= Len(s)
    <3>1. (s \o t)[i] = s[i] /\ i \in 1..Len(s)
      BY <2>2
    <3>2. right[i] = LinesOf(s)[i]
      BY <1>1, <2>2
    <3> QED BY <2>1, <3>1, <3>2 DEF LinesOf
  <2>3. CASE i > Len(s)
    <3>1. (s \o t)[i] = t[i - Len(s)] /\ i - Len(s) \in 1..Len(t)
      BY <2>3
    <3>2. right[i] = LinesOf(t)[i - Len(s)]
      BY <1>1, <2>3
    <3> QED BY <2>1, <3>1, <3>2 DEF LinesOf
  <2>4. Len(s) \in Nat /\ i \in Nat
    OBVIOUS
  <2> HIDE DEF left, right
  <2> QED BY <2>2, <2>3, <2>4
<1> HIDE DEF left, right
<1>6. left = right
  BY <1>3, <1>4, <1>5
<1> QED BY <1>6 DEF left, right

\* The lines of one item.
LEMMA LinesOfAppend ==
  ASSUME NEW s \in Seq(Item), NEW form \in Forms, NEW l \in Line
  PROVE  /\ Append(s, Shown(form, l)) \in Seq(Item)
         /\ LinesOf(Append(s, Shown(form, l))) = Append(LinesOf(s), l)
<1> DEFINE one == <<Shown(form, l)>>
<1>1. Shown(form, l) \in Item /\ Shown(form, l).line = l
  BY DEF Shown, Item
<1>2. one \in Seq(Item) /\ Len(one) = 1
  BY <1>1
<1>3. LinesOf(one) = <<l>>
  BY <1>1, <1>2 DEF LinesOf
<1>4. Append(s, Shown(form, l)) = s \o one
  BY <1>1
<1>5. LinesOf(s) \in Seq(Line)
  BY LinesOfTyped
<1> HIDE DEF one
<1>6. LinesOf(s \o one) = LinesOf(s) \o <<l>>
  BY <1>2, <1>3, LinesOfConcat
<1>7. s \o one \in Seq(Item)
  BY <1>2
<1>8. LinesOf(s) \o <<l>> = Append(LinesOf(s), l)
  BY <1>5
<1> QED BY <1>4, <1>6, <1>7, <1>8

\* Showing rows after what is on the terminal.
LEMMA RowsShown ==
  ASSUME NEW o \in Seq(Item), NEW form \in Forms, NEW ls \in Seq(Line)
  PROVE  o \o All(form, ls) \in Seq(Item) /\ LinesOf(o \o All(form, ls)) = LinesOf(o) \o ls
<1>1. All(form, ls) \in Seq(Item)
  BY AllTyped
<1>2. LinesOf(o \o All(form, ls)) = LinesOf(o) \o LinesOf(All(form, ls))
  BY <1>1, LinesOfConcat
<1>3. o \o All(form, ls) \in Seq(Item)
  BY <1>1
<1>4. LinesOf(All(form, ls)) = ls
  BY LinesOfAll
<1> QED BY <1>2, <1>3, <1>4

\* A table is shown in one form.
LEMMA TableIs ==
  ASSUME NEW t
  PROVE  /\ (\E i \in DOMAIN t : HasCell(t[i])) => Table(t) = All("row", t)
         /\ ~(\E i \in DOMAIN t : HasCell(t[i])) => Table(t) = All("none", t)
         /\ \E form \in Forms : Table(t) = All(form, t)
BY DEF Table, Forms

\* Showing a table after what is on the terminal.
LEMMA TableShown ==
  ASSUME NEW o \in Seq(Item), NEW t \in Seq(Line)
  PROVE  o \o Table(t) \in Seq(Item) /\ LinesOf(o \o Table(t)) = LinesOf(o) \o t
<1>1. PICK form \in Forms : Table(t) = All(form, t)
  BY TableIs
<1>2. o \o All(form, t) \in Seq(Item) /\ LinesOf(o \o All(form, t)) = LinesOf(o) \o t
  BY RowsShown
<1> QED
  BY <1>1, <1>2

\* Masking a chunk leaves a chunk.
LEMMA MaskTyped ==
  ASSUME NEW t \in Line PROVE MaskPii(t) \in Line
<1>1. Masked \in Lexeme
  BY DEF Lexeme, Marks
<1>2. \A i \in 1..Len(t) : t[i] \in Lexeme
  BY DEF Line
<1>3. MaskPii(t) \in [1..Len(t) -> Lexeme]
  BY <1>1, <1>2 DEF MaskPii
<1>4. Len(t) \in Nat
  BY DEF Line
<1> QED BY <1>3, <1>4 DEF Line
\* What the next lemma needs of sequences.
LEMMA Laws ==
  ASSUME NEW S, NEW a \in Seq(S), NEW b \in Seq(S), NEW x \in S
  PROVE  /\ a \o b \in Seq(S) /\ Append(a, x) \in Seq(S)
         /\ a \o <<>> = a /\ <<>> \o a = a
         /\ a \o Append(b, x) = Append(a \o b, x)
         /\ a \o <<>> \o Append(b, x) = Append(a \o b, x)
         /\ a \o b \o <<>> = a \o b
<1>1. a \o b \in Seq(S) /\ Append(a, x) \in Seq(S)
  OBVIOUS
<1>2. a \o <<>> = a /\ <<>> \o a = a
  OBVIOUS
<1>3. a \o Append(b, x) = Append(a \o b, x)
  OBVIOUS
<1>4. a \o <<>> \o Append(b, x) = Append(a \o b, x)
  BY <1>2, <1>3
<1>5. a \o b \o <<>> = a \o b
  <2> DEFINE c == a \o b
  <2>1. c \in Seq(S)
    BY <1>1
  <2> HIDE DEF c
  <2>2. c \o <<>> = c
    BY <2>1
  <2> QED BY <2>2 DEF c
<1> QED BY <1>1, <1>2, <1>3, <1>4, <1>5

\* The last of a sequence to which one is appended.
LEMMA OneMore ==
  ASSUME NEW S, NEW a \in Seq(S), NEW x \in S
  PROVE  /\ Append(a, x) \in Seq(S) /\ Append(a, x) # <<>>
         /\ Append(a, x)[Len(Append(a, x))] = x
OBVIOUS

\* One more line behind those that are accounted for.
LEMMA LineMore ==
  ASSUME NEW S, NEW a \in Seq(S), NEW b \in Seq(S), NEW x \in S, NEW c, a \o b = c
  PROVE  a \o <<>> \o Append(b, x) = Append(c, x) /\ a \o Append(b, x) \o <<>> = Append(c, x)
<1> DEFINE d == a \o b
           e == Append(b, x)
<1>1. a \o <<>> \o e = Append(d, x) /\ a \o e = Append(d, x) /\ e \in Seq(S)
  BY Laws
<1>2. d = c
  OBVIOUS
<1> HIDE DEF d, e
<1>3. a \o e \o <<>> = a \o e
  BY <1>1, Laws
<1> QED BY <1>1, <1>2, <1>3 DEF e

-----------------------------------------------------------------------------
(* One line.  o and t are what the terminal and the table buffer hold when  *)
(* flush_line starts: the variables in Write, o after the table in Finish.  *)

Placed(o, t) == /\ o \in Seq(Item) /\ t \in Seq(Line)
                /\ color /\ fenced => t = <<>>
                /\ LinesOf(o) \o t \o diagram = seen

\* Types and places of what flush_line writes.
FlushedWell == /\ fenced' \in BOOLEAN /\ lang' \in Line
               /\ table' \in Seq(Line) /\ diagram' \in Seq(Line) /\ seen' \in Seq(Line)
               /\ out' \in Seq(Item)
               /\ color /\ fenced' => table' = <<>>
               /\ diagram' # <<>> => fenced' /\ lang' = <<Mermaid>>
               /\ fenced' => color
               /\ LinesOf(out') \o table' \o diagram' = seen'

\* A line goes to the terminal or to the buffer that comes next.
LEMMA FlushPlaces ==
  ASSUME TypeOK, FencesColored, NEW l \in Line, NEW o, NEW t,
         Placed(o, t), FlushLine(l, o, t)
  PROVE  FlushedWell
<1> DEFINE shown == o \o Table(t)
           s == LinesOf(o)
           after == LinesOf(out') \o table' \o diagram' = seen'
<1>a. o \in Seq(Item) /\ t \in Seq(Line) /\ s \in Seq(Line)
  BY LinesOfTyped DEF Placed
<1>b. fenced \in BOOLEAN /\ lang \in Line /\ diagram \in Seq(Line) /\ seen \in Seq(Line)
  BY DEF TypeOK
<1>c. /\ color /\ fenced => t = <<>>
      /\ diagram # <<>> => fenced /\ lang = <<Mermaid>>
      /\ fenced => color
  BY DEF Placed, TypeOK, BuffersEnd, FencesColored
<1>d. s \o t \o diagram = seen
  BY DEF Placed
<1>e. \A f \in {"plain", "code", "diagram"} : f \in Forms
  BY DEF Forms
<1>1. shown \in Seq(Item) /\ LinesOf(shown) = s \o t
  BY <1>a, TableShown
<1>2. LinesOf(shown) \in Seq(Line)
  BY <1>1, LinesOfTyped
<1> HIDE DEF shown, s
<1>3. CASE HideLine(l, o, t)
  <2>1. /\ out' = o /\ table' = t /\ seen' = seen
        /\ UNCHANGED <<fenced, lang, diagram>>
    BY <1>3 DEF HideLine, Keep
  <2>2. after
    BY <1>d, <2>1 DEF s
  <2> HIDE DEF after
  <2> QED
    BY <1>a, <1>b, <1>c, <2>1, <2>2 DEF FlushedWell, after
<1>f. ASSUME NEW form \in Forms, ~fenced, UNCHANGED <<fenced, lang, diagram>>,
             out' = Append(shown, Shown(form, l)), table' = <<>>, seen' = Append(seen, l)
      PROVE  FlushedWell
  <2>1. diagram = <<>>
    BY <1>c, <1>f
  <2>2. out' \in Seq(Item) /\ LinesOf(out') = Append(LinesOf(shown), l)
    BY <1>1, <1>f, LinesOfAppend
  <2>3. LinesOf(shown) = seen
    BY <1>1, <1>2, <1>d, <2>1, Laws
  <2>4. Append(seen, l) \in Seq(Line)
    BY <1>b, Laws
  <2>5. Append(seen, l) \o <<>> \o <<>> = Append(seen, l)
    BY <2>4, Laws
  <2>6. after
    BY <1>f, <2>1, <2>2, <2>3, <2>5
  <2> HIDE DEF after
  <2> QED
    BY <1>b, <1>f, <2>1, <2>2, <2>4, <2>6 DEF FlushedWell, after
<1>4. CASE PlainLine(l, o, t)
  <2>1. out' = Append(shown, Shown("plain", l)) /\ table' = <<>> /\ seen' = Append(seen, l)
        /\ UNCHANGED <<fenced, lang, diagram>> /\ ~fenced
    BY <1>4, <1>c DEF PlainLine, Keep, Noted, shown
  <2> QED BY <1>e, <1>f, <2>1
<1>5. CASE RowLine(l, o, t)
  <2>1. out' = o /\ table' = Append(t, l) /\ seen' = Append(seen, l)
        /\ UNCHANGED <<fenced, lang, diagram>> /\ ~fenced
    BY <1>5, <1>c DEF RowLine, Keep, Noted
  <2>2. diagram = <<>>
    BY <1>c, <2>1
  <2>3. s \o t = seen
    BY <1>a, <1>d, <2>2, Laws
  <2>4. s \o Append(t, l) \o <<>> = Append(seen, l)
    BY <1>a, <2>3, LineMore
  <2>5. after
    BY <2>1, <2>2, <2>4 DEF s
  <2>6. Append(t, l) \in Seq(Line) /\ Append(seen, l) \in Seq(Line)
    BY <1>a, <1>b, Laws
  <2> HIDE DEF after
  <2> QED BY <1>a, <1>b, <2>1, <2>2, <2>5, <2>6 DEF FlushedWell, after
<1>6. CASE OpenFence(l, o, t)
  <2>1. out' = shown /\ table' = <<>> /\ seen' = seen /\ fenced' = TRUE
        /\ lang' = Language(l) /\ diagram' = <<>> /\ ~fenced /\ color /\ l # <<>>
    BY <1>6 DEF OpenFence, shown, IsFence
  <2>2. diagram = <<>>
    BY <1>c, <2>1
  <2>3. lang' \in Line
    BY <2>1, LanguageTyped
  <2>4. LinesOf(shown) = seen
    BY <1>1, <1>2, <1>d, <2>2, Laws
  <2>5. seen \o <<>> \o <<>> = seen
    BY <1>b, Laws
  <2>6. after
    BY <2>1, <2>4, <2>5
  <2>7. <<>> \in Seq(Line)
    OBVIOUS
  <2> HIDE DEF after
  <2> QED BY <1>1, <1>b, <2>1, <2>3, <2>6, <2>7 DEF FlushedWell, after
<1>7. CASE CloseFence(l, o, t)
  <2>1. out' = shown \o All("diagram", diagram) /\ table' = <<>> /\ seen' = seen
        /\ fenced' = FALSE /\ lang' = <<>> /\ diagram' = <<>>
    BY <1>7 DEF CloseFence, shown
  <2>2. out' \in Seq(Item) /\ LinesOf(out') = LinesOf(shown) \o diagram
    BY <1>1, <1>b, <1>e, <2>1, RowsShown
  <2>3. lang' \in Line
    BY <2>1 DEF Line
  <2>4. LinesOf(out') = seen
    BY <1>1, <1>d, <2>2
  <2>5. seen \o <<>> \o <<>> = seen
    BY <1>b, Laws
  <2>6. after
    BY <2>1, <2>4, <2>5
  <2>7. <<>> \in Seq(Line)
    OBVIOUS
  <2> HIDE DEF after
  <2> QED BY <1>b, <2>1, <2>2, <2>3, <2>6, <2>7 DEF FlushedWell, after
<1>8. CASE CodeLine(l, o, t)
  <2>1. table' = <<>> /\ t = <<>> /\ seen' = Append(seen, l)
        /\ UNCHANGED <<fenced, lang>> /\ fenced /\ color
    BY <1>8, <1>c DEF CodeLine, Noted
  <2>2. s \o diagram = seen
    BY <1>a, <1>d, <2>1, Laws
  <2>3. LinesOf(shown) = s
    BY <1>1, <1>a, <2>1, Laws
  <2>4. Append(seen, l) \in Seq(Line) /\ Append(diagram, l) \in Seq(Line)
    BY <1>b, Laws
  <2>5. CASE lang = <<Mermaid>>
    <3>1. out' = shown /\ diagram' = Append(diagram, l)
      BY <1>8, <2>5 DEF CodeLine, shown
    <3>2. s \o <<>> \o Append(diagram, l) = Append(seen, l)
      BY SMTT(20), <1>a, <1>b, <2>2, LineMore
    <3>3. after
      BY <2>1, <2>3, <3>1, <3>2
    <3>4. <<>> \in Seq(Line)
      OBVIOUS
    <3> HIDE DEF after
    <3> QED BY <1>1, <1>b, <2>1, <2>4, <2>5, <3>1, <3>3, <3>4 DEF FlushedWell, after
  <2>6. CASE lang # <<Mermaid>>
    <3>1. out' = Append(shown, Shown("code", l)) /\ diagram' = diagram /\ diagram = <<>>
      BY <1>8, <1>c, <2>6 DEF CodeLine, shown
    <3>2. out' \in Seq(Item) /\ LinesOf(out') = Append(s, l)
      BY <1>1, <1>e, <2>3, <3>1, LinesOfAppend
    <3>3. s = seen
      BY <1>a, <2>2, <3>1, Laws
    <3>4. Append(seen, l) \o <<>> \o <<>> = Append(seen, l)
      BY <2>4, Laws
    <3>5. after
      BY <2>1, <3>1, <3>2, <3>3, <3>4
    <3>6. <<>> \in Seq(Line)
      OBVIOUS
    <3> HIDE DEF after
    <3> QED BY <1>b, <2>1, <2>4, <3>1, <3>2, <3>5, <3>6 DEF FlushedWell, after
  <2> QED BY <2>5, <2>6
<1>9. CASE TextLine(l, o, t)
  <2>1. out' = Append(shown, Shown(Form(l), l)) /\ table' = <<>> /\ seen' = Append(seen, l)
        /\ UNCHANGED <<fenced, lang, diagram>> /\ ~fenced
    BY <1>9 DEF TextLine, Keep, Noted, shown
  <2> QED BY <1>f, <2>1, FormTyped
<1> QED BY <1>3, <1>4, <1>5, <1>6, <1>7, <1>8, <1>9 DEF FlushLine

-----------------------------------------------------------------------------
(* The invariant.                                                          *)

\* What Write and Finish need of a state of the invariant.
LEMMA NowPlaced ==
  ASSUME IInv
  PROVE  /\ Placed(out, table)
         /\ Placed(out \o Table(table), <<>>)
<1>1. out \in Seq(Item) /\ table \in Seq(Line) /\ diagram \in Seq(Line)
      /\ (color /\ fenced => table = <<>>)
  BY DEF IInv, TypeOK, BuffersEnd, Item
<1>2. LinesOf(out) \o table \o diagram = seen
  BY DEF IInv, InOrder
<1>4. out \o Table(table) \in Seq(Item)
      /\ LinesOf(out \o Table(table)) = LinesOf(out) \o table
  BY <1>1, TableShown
<1>5. LinesOf(out) \in Seq(Line)
  BY <1>1, LinesOfTyped
<1>6. (LinesOf(out) \o table) \o <<>> = LinesOf(out) \o table
  BY <1>1, <1>5
<1>7. Placed(out, table)
  BY <1>1, <1>2 DEF Placed
<1>8. <<>> \in Seq(Line)
  OBVIOUS
<1>9. LinesOf(out \o Table(table)) \o <<>> \o diagram = seen
  BY <1>2, <1>4, <1>6
<1>10. Placed(out \o Table(table), <<>>)
  BY <1>4, <1>8, <1>9 DEF Placed
<1> QED BY <1>7, <1>10

\* What flush_line has written is the next state of the invariant.
LEMMA FlushedIsInv ==
  ASSUME FlushedWell, color' \in BOOLEAN, masking' \in BOOLEAN, color' = color,
         phase' \in {"stream", "ended"}, count' \in 0..MaxTokens,
         raw' \in Line, rest' \in Line, line' \in Line
  PROVE  IInv'
BY DEF FlushedWell, IInv, TypeOK, BuffersEnd, FencesColored, InOrder, Item

\* Nothing has come and nothing is kept.
LEMMA InitInv == Init => IInv
<1> SUFFICES ASSUME Init PROVE IInv
  OBVIOUS
<1>1. <<>> \in Line /\ <<>> \in Seq(Line) /\ <<>> \in Seq([as : Forms, line : Line])
  BY DEF Line
<1>2. LinesOf(<<>>) = <<>>
  BY DEF LinesOf
<1>3. TypeOK
  <2>1. 0 \in 0..MaxTokens
    BY BoundAssumption
  <2>2. BuffersEnd
    BY DEF Init, BuffersEnd
  <2> QED BY <1>1, <2>1, <2>2 DEF Init, TypeOK
<1>4. FencesColored
  BY DEF Init, FencesColored
<1>5. InOrder
  BY <1>2 DEF Init, InOrder
<1> QED BY <1>3, <1>4, <1>5 DEF IInv

\* Every step keeps the invariant.
LEMMA NextInv == IInv /\ [Next]_vars => IInv'
<1> SUFFICES ASSUME IInv, [Next]_vars PROVE IInv'
  OBVIOUS
<1>1. TypeOK /\ FencesColored
  BY DEF IInv
<1>2. ASSUME NEW t \in Tokens, Token(t) PROVE IInv'
  <2>1. t \in Line /\ MaskPii(t) \in Line
    BY TokensAssumption, MaskTyped
  <2>2. rest' \in Line
    BY <1>2, <2>1 DEF Token
  <2>3. raw' \in Line
    BY <1>1, <1>2, <2>1 DEF Token, TypeOK, Line
  <2>4. count' \in 0..MaxTokens
    BY <1>1, <1>2, BoundAssumption DEF Token, TypeOK
  <2>5. UNCHANGED <<color, masking, phase, line, table, fenced, lang, diagram, out, seen>>
    BY <1>2 DEF Token, buffers
  <2> QED BY <2>2, <2>3, <2>4, <2>5 DEF IInv, TypeOK, BuffersEnd, FencesColored, InOrder
<1>3. CASE Write
  <2>1. rest # <<>> /\ rest \in Line /\ line \in Line
    BY <1>1, <1>3 DEF Write, TypeOK
  <2>2. rest' \in Line /\ Head(rest) \in Lexeme
    BY <1>3, <2>1 DEF Write, Line
  <2>3. color' \in BOOLEAN /\ masking' \in BOOLEAN /\ color' = color
        /\ phase' \in {"stream", "ended"} /\ count' \in 0..MaxTokens /\ raw' \in Line
    BY <1>1, <1>3 DEF Write, TypeOK
  <2>4. CASE Head(rest) = Nl
    <3>1. line' = <<>> /\ FlushLine(line, out, table)
      BY <1>3, <2>4 DEF Write
    <3>2. FlushedWell
      BY <1>1, <2>1, <3>1, NowPlaced, FlushPlaces
    <3>3. line' \in Line
      BY <3>1 DEF Line
    <3> QED BY <2>2, <2>3, <3>2, <3>3, FlushedIsInv
  <2>5. CASE Head(rest) # Nl
    <3>1. line' = Append(line, Head(rest))
          /\ UNCHANGED <<table, fenced, lang, diagram, out, seen>>
      BY <1>3, <2>5 DEF Write
    <3>2. line' \in Line
      BY <2>1, <2>2, <3>1 DEF Line
    <3> QED BY <2>2, <2>3, <3>1, <3>2 DEF IInv, TypeOK, BuffersEnd, FencesColored, InOrder
  <2> QED BY <2>4, <2>5
<1>4. CASE Finish
  <2>1. color' \in BOOLEAN /\ masking' \in BOOLEAN /\ color' = color
        /\ phase' \in {"stream", "ended"} /\ count' \in 0..MaxTokens
        /\ raw' \in Line /\ rest' \in Line
    BY <1>1, <1>4 DEF Finish, TypeOK
  <2>2. line' \in Line
    BY <1>4 DEF Finish, Line
  <2>3. FlushedWell
    <3>1. CASE line = <<>>
      <4>1. out' = out \o Table(table) /\ table' = <<>>
            /\ UNCHANGED <<fenced, lang, diagram, seen>>
        BY <1>4, <3>1 DEF Finish
      <4>2. Placed(out', table')
        BY <4>1, NowPlaced DEF Placed
      <4> QED BY <1>1, <4>1, <4>2 DEF Placed, FlushedWell, TypeOK, BuffersEnd, FencesColored
    <3>2. CASE line # <<>>
      <4>1. FlushLine(line, out \o Table(table), <<>>)
        BY <1>4, <3>2 DEF Finish
      <4>2. line \in Line
        BY <1>1 DEF TypeOK
      <4> QED BY <1>1, <4>1, <4>2, NowPlaced, FlushPlaces
    <3> QED BY <3>1, <3>2
  <2> QED BY <2>1, <2>2, <2>3, FlushedIsInv
<1>5. CASE UNCHANGED vars
  BY <1>5 DEF IInv, TypeOK, BuffersEnd, FencesColored, InOrder, vars, buffers
<1> QED BY <1>2, <1>3, <1>4, <1>5 DEF Next

\* The invariant holds of every reply and every way it is cut into chunks.
THEOREM InvAlways == Spec => []IInv
BY InitInv, NextInv, PTL DEF Spec

\* The buffers of the renderer have their types and their places.
THEOREM TypeCorrect == Spec => []TypeOK
BY InvAlways, PTL DEF IInv

-----------------------------------------------------------------------------
(* What comes to nothing.                                                  *)

\* What waits in the table buffer is rows.
RowsOnly(t) == \A i \in DOMAIN t : IsRow(t[i])

EmptyRows == OnlyEmpty(out) /\ RowsOnly(table)

\* Of a table of rows, only rows without a cell come to nothing.
LEMMA TableEmpty ==
  ASSUME NEW t \in Seq(Line), RowsOnly(t)
  PROVE  Table(t) \in Seq(Item) /\ OnlyEmpty(Table(t))
<1>1. \A form \in Forms : All(form, t) \in Seq(Item) /\ Len(All(form, t)) = Len(t)
  BY AllTyped
<1>2. "row" \in Forms /\ "none" \in Forms
  BY DEF Forms
<1>3. \A form \in Forms : \A i \in DOMAIN All(form, t) :
        i \in DOMAIN t /\ All(form, t)[i] = Shown(form, t[i])
  BY <1>1 DEF All
<1>4. CASE \E i \in DOMAIN t : HasCell(t[i])
  <2>1. Table(t) = All("row", t)
    BY <1>4, TableIs
  <2>2. \A i \in DOMAIN All("row", t) : All("row", t)[i].as # "none"
    BY <1>2, <1>3 DEF Shown
  <2> QED
    BY <1>1, <1>2, <2>1, <2>2 DEF OnlyEmpty
<1>5. CASE ~(\E i \in DOMAIN t : HasCell(t[i]))
  <2>1. Table(t) = All("none", t)
    BY <1>5, TableIs
  <2>2. \A i \in DOMAIN All("none", t) :
          IsRow(All("none", t)[i].line) /\ ~HasCell(All("none", t)[i].line)
    BY <1>2, <1>3, <1>5 DEF Shown, RowsOnly
  <2> QED
    BY <1>1, <1>2, <2>1, <2>2 DEF OnlyEmpty
<1> QED
  BY <1>4, <1>5

\* Items of another form come to something.
LEMMA AllOnly ==
  ASSUME NEW form \in Forms, form # "none", NEW ls \in Seq(Line)
  PROVE  OnlyEmpty(All(form, ls))
<1>1. \A i \in DOMAIN All(form, ls) : All(form, ls)[i].as = form
  BY DEF All, Shown
<1> QED
  BY <1>1 DEF OnlyEmpty

LEMMA ConcatOnly ==
  ASSUME NEW a \in Seq(Item), NEW b \in Seq(Item), OnlyEmpty(a), OnlyEmpty(b)
  PROVE  a \o b \in Seq(Item) /\ OnlyEmpty(a \o b)
<1>1. a \o b \in Seq(Item) /\ Len(a \o b) = Len(a) + Len(b)
  OBVIOUS
<1>2. \A i \in DOMAIN (a \o b) : (\E j \in DOMAIN a : (a \o b)[i] = a[j])
                                  \/ (\E j \in DOMAIN b : (a \o b)[i] = b[j])
  <2> SUFFICES ASSUME NEW i \in DOMAIN (a \o b)
               PROVE  (\E j \in DOMAIN a : (a \o b)[i] = a[j])
                        \/ (\E j \in DOMAIN b : (a \o b)[i] = b[j])
    OBVIOUS
  <2>1. i \in 1 .. Len(a) + Len(b)
    BY <1>1
  <2>2. CASE i <= Len(a)
    <3>1. i \in DOMAIN a /\ (a \o b)[i] = a[i]
      BY <2>1, <2>2
    <3> QED
      BY <3>1
  <2>3. CASE i > Len(a)
    <3>1. i - Len(a) \in DOMAIN b /\ (a \o b)[i] = b[i - Len(a)]
      BY <2>1, <2>3
    <3> QED
      BY <3>1
  <2> QED
    BY <2>1, <2>2, <2>3
<1> QED
  BY <1>1, <1>2, Zenon DEF OnlyEmpty

LEMMA AppendOnly ==
  ASSUME NEW a \in Seq(Item), OnlyEmpty(a), NEW form \in Forms, form # "none", NEW l \in Line
  PROVE  Append(a, Shown(form, l)) \in Seq(Item) /\ OnlyEmpty(Append(a, Shown(form, l)))
<1>1. Shown(form, l) \in Item /\ Shown(form, l).as # "none"
  BY DEF Shown, Item
<1> DEFINE x == Shown(form, l)
<1> HIDE DEF x
<1>2. x \in Item /\ x.as # "none"
  BY <1>1 DEF x
<1>3. /\ Append(a, x) \in Seq(Item)
      /\ \A i \in DOMAIN Append(a, x) :
           Append(a, x)[i] = x \/ (i \in DOMAIN a /\ Append(a, x)[i] = a[i])
  BY <1>2
<1>4. OnlyEmpty(Append(a, x))
  BY <1>2, <1>3 DEF OnlyEmpty
<1> QED
  BY <1>3, <1>4 DEF x

\* The rules give a line a form that shows it.
LEMMA FormShows == \A l : Form(l) # "none"
BY DEF Form

\* What flush_line brings to nothing has no cell.
LEMMA FlushEmpties ==
  ASSUME TypeOK, NEW l \in Line, NEW o \in Seq(Item), NEW t \in Seq(Line),
         OnlyEmpty(o), RowsOnly(t), FlushLine(l, o, t)
  PROVE  EmptyRows'
<1> DEFINE shown == o \o Table(t)
<1>1. shown \in Seq(Item) /\ OnlyEmpty(shown)
  <2>1. Table(t) \in Seq(Item) /\ OnlyEmpty(Table(t))
    BY TableEmpty
  <2> QED
    BY <2>1, ConcatOnly
<1>2. RowsOnly(<<>>)
  BY DEF RowsOnly
<1>3. \A f \in {"plain", "code", "diagram"} : f \in Forms /\ f # "none"
  BY DEF Forms
<1>4. diagram \in Seq(Line)
  BY DEF TypeOK
<1> HIDE DEF shown
<1>5. \A f \in Forms : f # "none" => OnlyEmpty(Append(shown, Shown(f, l)))
  BY <1>1, AppendOnly
<1>6. CASE HideLine(l, o, t)
  BY <1>6 DEF HideLine, EmptyRows
<1>7. CASE PlainLine(l, o, t)
  <2>1. out' = Append(shown, Shown("plain", l)) /\ table' = <<>>
    BY <1>7 DEF PlainLine, shown
  <2> QED
    BY <1>2, <1>3, <1>5, <2>1 DEF EmptyRows
<1>8. CASE RowLine(l, o, t)
  <2>1. IsRow(l) /\ out' = o /\ table' = Append(t, l)
    BY <1>8 DEF RowLine
  <2>2. \A i \in DOMAIN Append(t, l) :
          Append(t, l)[i] = l \/ (i \in DOMAIN t /\ Append(t, l)[i] = t[i])
    OBVIOUS
  <2>3. RowsOnly(Append(t, l))
    BY <2>1, <2>2 DEF RowsOnly
  <2> QED
    BY <2>1, <2>3 DEF EmptyRows
<1>9. CASE OpenFence(l, o, t)
  <2>1. out' = shown /\ table' = <<>>
    BY <1>9 DEF OpenFence, shown
  <2> QED
    BY <1>1, <1>2, <2>1 DEF EmptyRows
<1>10. CASE CloseFence(l, o, t)
  <2>1. out' = shown \o All("diagram", diagram) /\ table' = <<>>
    BY <1>10 DEF CloseFence, shown
  <2>2. All("diagram", diagram) \in Seq(Item) /\ OnlyEmpty(All("diagram", diagram))
    BY <1>3, <1>4, AllTyped, AllOnly
  <2> QED
    BY <1>1, <1>2, <2>1, <2>2, ConcatOnly DEF EmptyRows
<1>11. CASE CodeLine(l, o, t)
  <2>1. (out' = shown \/ out' = Append(shown, Shown("code", l))) /\ table' = <<>>
    BY <1>11 DEF CodeLine, shown
  <2> QED
    BY <1>1, <1>2, <1>3, <1>5, <2>1 DEF EmptyRows
<1>12. CASE TextLine(l, o, t)
  <2>1. out' = Append(shown, Shown(Form(l), l)) /\ table' = <<>>
    BY <1>12 DEF TextLine, shown
  <2> QED
    BY <1>2, <1>5, <2>1, FormTyped, FormShows DEF EmptyRows
<1> QED
  BY <1>6, <1>7, <1>8, <1>9, <1>10, <1>11, <1>12 DEF FlushLine

\* At first there is nothing.
LEMMA InitEmpty == Init => EmptyRows
BY DEF Init, EmptyRows, OnlyEmpty, RowsOnly

\* No step brings anything else to nothing.
LEMMA NextEmpty == TypeOK /\ EmptyRows /\ [Next]_vars => EmptyRows'
<1> SUFFICES ASSUME TypeOK, EmptyRows, [Next]_vars
             PROVE  EmptyRows'
  OBVIOUS
<1>1. /\ out \in Seq(Item) /\ table \in Seq(Line) /\ line \in Line
      /\ OnlyEmpty(out) /\ RowsOnly(table)
  BY DEF TypeOK, EmptyRows, Item
<1>2. out \o Table(table) \in Seq(Item) /\ OnlyEmpty(out \o Table(table))
  <2>1. Table(table) \in Seq(Item) /\ OnlyEmpty(Table(table))
    BY <1>1, TableEmpty
  <2> QED
    BY <1>1, <2>1, ConcatOnly
<1>3. <<>> \in Seq(Line) /\ RowsOnly(<<>>)
  BY DEF RowsOnly
<1>4. ASSUME NEW t \in Tokens, Token(t)
      PROVE  EmptyRows'
  BY <1>1, <1>4 DEF Token, buffers, EmptyRows
<1>5. CASE Write
  <2>1. CASE Head(rest) = Nl
    <3>1. FlushLine(line, out, table)
      BY <1>5, <2>1 DEF Write
    <3> QED
      BY <1>1, <3>1, FlushEmpties
  <2>2. CASE Head(rest) # Nl
    <3>1. UNCHANGED <<table, out>>
      BY <1>5, <2>2 DEF Write
    <3> QED
      BY <1>1, <3>1 DEF EmptyRows
  <2> QED
    BY <2>1, <2>2
<1>6. CASE Finish
  <2>1. CASE line = <<>>
    <3>1. out' = out \o Table(table) /\ table' = <<>>
      BY <1>6, <2>1 DEF Finish
    <3> QED
      BY <1>2, <1>3, <3>1 DEF EmptyRows
  <2>2. CASE line # <<>>
    <3> DEFINE shown == out \o Table(table)
    <3>1. FlushLine(line, shown, <<>>) /\ shown \in Seq(Item) /\ OnlyEmpty(shown)
      BY <1>2, <1>6, <2>2 DEF Finish
    <3> HIDE DEF shown
    <3> QED
      BY <1>1, <1>3, <3>1, FlushEmpties
  <2> QED
    BY <2>1, <2>2
<1>7. CASE UNCHANGED vars
  BY <1>1, <1>7 DEF vars, buffers, EmptyRows
<1> QED
  BY <1>4, <1>5, <1>6, <1>7 DEF Next

\* No line of a reply is lost, doubled or moved while it streams; a row without
\* a cell is the only one that can come to nothing.
THEOREM NothingLostAlways == Spec => []NothingLost
<1>1. Init => IInv /\ EmptyRows
  BY InitInv, InitEmpty
<1>2. (IInv /\ EmptyRows) /\ [Next]_vars => (IInv /\ EmptyRows)'
  BY NextInv, NextEmpty DEF IInv
<1>3. IInv /\ EmptyRows => NothingLost
  BY DEF IInv, EmptyRows, NothingLost
<1> QED
  BY <1>1, <1>2, <1>3, PTL DEF Spec

-----------------------------------------------------------------------------
(* Texts, and the lines of a text, read one element at a time.             *)

\* Induction on the numbers, for a set of them.
LEMMA AllNumbers ==
  ASSUME NEW T, T \subseteq Nat, 0 \in T, \A k \in T : k + 1 \in T
  PROVE  T = Nat
<1> SUFFICES ASSUME Nat \ T # {}
             PROVE  FALSE
  OBVIOUS
<1>1. Nat \ T \subseteq Nat
  OBVIOUS
<1>2. PICK m \in Nat \ T : \A k \in Nat \ T : <<k, m>> \notin OpToRel(<, Nat)
  BY <1>1, WFMin, NatLessThanWellFounded
<1>3. \A k \in Nat \ T : ~(k < m)
  BY <1>2 DEF OpToRel
<1>4. m \in Nat /\ m # 0
  OBVIOUS
<1>5. m - 1 \in Nat /\ m - 1 < m /\ (m - 1) + 1 = m
  BY <1>4
<1>6. m - 1 \in T
  BY <1>3, <1>5
<1> QED
  BY <1>5, <1>6

-----------------------------------------------------------------------------
(* A sequence that is read an element at a time: f has what has been made  *)
(* of the first i elements of s, when g makes one step.                    *)

Reads(f, s, g, a0) ==
  f = [n \in 0 .. Len(s) |-> IF n = 0 THEN a0 ELSE g[<<f[n - 1], s[n]>>]]

\* Every sequence can be read.
LEMMA ReadExists ==
  ASSUME NEW X, NEW A, NEW a0 \in A, NEW g \in [A \X X -> A], NEW s \in Seq(X)
  PROVE  \E f \in [0 .. Len(s) -> A] : Reads(f, s, g, a0)
<1> DEFINE Upto(k, f) == /\ f \in [0 .. k -> A] /\ f[0] = a0
                         /\ \A i \in 1 .. k : f[i] = g[<<f[i - 1], s[i]>>]
           Ok == {k \in Nat : k <= Len(s) => \E f : Upto(k, f)}
<1>1. 0 \in Ok
  <2> DEFINE f == [i \in 0 .. 0 |-> a0]
  <2>1. f \in [0 .. 0 -> A] /\ f[0] = a0
    OBVIOUS
  <2>2. \A i \in 1 .. 0 : FALSE
    OBVIOUS
  <2> HIDE DEF f
  <2>3. Upto(0, f)
    BY <2>1, <2>2
  <2> QED
    BY <2>3
<1>2. ASSUME NEW k \in Ok
      PROVE  k + 1 \in Ok
  <2> SUFFICES ASSUME k + 1 <= Len(s)
               PROVE  \E f : Upto(k + 1, f)
    OBVIOUS
  <2>1. k \in Nat /\ Len(s) \in Nat /\ k <= Len(s)
    OBVIOUS
  <2>2. PICK f : Upto(k, f)
    BY <2>1
  <2> DEFINE a == g[<<f[k], s[k + 1]>>]
             h == [i \in 0 .. k + 1 |-> IF i <= k THEN f[i] ELSE a]
  <2>3. s[k + 1] \in X
    BY <2>1
  <2>4. f[k] \in A
    BY <2>1, <2>2
  <2>5. a \in A
    BY <2>3, <2>4
  <2>6. \A i \in 0 .. k : f[i] \in A
    BY <2>2
  <2>7. h \in [0 .. k + 1 -> A]
    <3> HIDE DEF a
    <3> QED
      BY <2>1, <2>5, <2>6
  <2>8. h[0] = a0
    BY <2>1, <2>2
  <2>9. ASSUME NEW i \in 1 .. k + 1
        PROVE  h[i] = g[<<h[i - 1], s[i]>>]
    <3>1. h[i - 1] = f[i - 1]
      BY <2>1
    <3>2. CASE i <= k
      <4>1. i \in 1 .. k
        BY <3>2
      <4>2. h[i] = f[i]
        BY <3>2, <2>1
      <4>3. f[i] = g[<<f[i - 1], s[i]>>]
        BY <4>1, <2>2
      <4> QED
        BY <3>1, <4>2, <4>3
    <3>3. CASE ~(i <= k)
      <4>1. i = k + 1 /\ i - 1 = k
        BY <3>3, <2>1
      <4>2. h[i] = a
        BY <4>1, <2>1
      <4> QED
        BY <3>1, <4>1, <4>2
    <3> QED
      BY <3>2, <3>3
  <2> HIDE DEF h
  <2>10. Upto(k + 1, h)
    BY <2>7, <2>8, <2>9
  <2> QED
    BY <2>10
<1>3. Ok = Nat
  <2>1. Ok \subseteq Nat
    OBVIOUS
  <2> HIDE DEF Ok
  <2> QED
    BY <1>1, <1>2, <2>1, AllNumbers
<1>4. Len(s) \in Nat
  OBVIOUS
<1>5. PICK f : Upto(Len(s), f)
  BY <1>3, <1>4
<1>6. \A n \in 0 .. Len(s) : f[n] = IF n = 0 THEN a0 ELSE g[<<f[n - 1], s[n]>>]
  BY <1>4, <1>5
<1>7. Reads(f, s, g, a0)
  BY <1>5, <1>6 DEF Reads
<1> QED
  BY <1>5, <1>7

\* Two ways to read a sequence that begin and go on alike are one.
LEMMA Agree ==
  ASSUME NEW N \in Nat, NEW f, NEW h, h[0] = f[0],
         \A n \in 1 .. N : h[n - 1] = f[n - 1] => h[n] = f[n]
  PROVE  h[N] = f[N]
<1> DEFINE Same == {k \in Nat : k <= N => h[k] = f[k]}
<1>1. 0 \in Same
  OBVIOUS
<1>2. ASSUME NEW k \in Same
      PROVE  k + 1 \in Same
  <2> SUFFICES ASSUME k + 1 <= N
               PROVE  h[k + 1] = f[k + 1]
    OBVIOUS
  <2>1. k \in Nat /\ k <= N /\ h[k] = f[k]
    OBVIOUS
  <2>2. k + 1 \in 1 .. N /\ (k + 1) - 1 = k
    BY <2>1
  <2> QED
    BY <2>1, <2>2
<1>3. Same = Nat
  <2>1. Same \subseteq Nat
    OBVIOUS
  <2> HIDE DEF Same
  <2> QED
    BY <1>1, <1>2, <2>1, AllNumbers
<1> QED
  BY <1>3

\* A sequence is read in one way: one more element is one more step.
LEMMA ReadNext ==
  ASSUME NEW X, NEW s \in Seq(X), NEW x \in X, NEW g, NEW a0, NEW f, NEW h,
         Reads(f, s, g, a0), Reads(h, Append(s, x), g, a0)
  PROVE  h[Len(s) + 1] = g[<<f[Len(s)], x>>]
<1>1. /\ Len(s) \in Nat /\ Len(Append(s, x)) = Len(s) + 1
      /\ \A i \in 1 .. Len(s) : Append(s, x)[i] = s[i]
      /\ Append(s, x)[Len(s) + 1] = x
  OBVIOUS
<1>2. \A n \in 0 .. Len(s) : f[n] = IF n = 0 THEN a0 ELSE g[<<f[n - 1], s[n]>>]
  BY DEF Reads
<1>3. \A n \in 0 .. Len(s) + 1 :
        h[n] = IF n = 0 THEN a0 ELSE g[<<h[n - 1], Append(s, x)[n]>>]
  BY <1>1 DEF Reads
<1>4. h[0] = f[0]
  <2>1. 0 \in 0 .. Len(s) /\ 0 \in 0 .. Len(s) + 1
    BY <1>1
  <2> QED
    BY <2>1, <1>2, <1>3
<1>5. ASSUME NEW n \in 1 .. Len(s), h[n - 1] = f[n - 1]
      PROVE  h[n] = f[n]
  <2>1. n \in 0 .. Len(s) /\ n \in 0 .. Len(s) + 1 /\ n # 0
    BY <1>1
  <2>2. f[n] = g[<<f[n - 1], s[n]>>]
    BY <2>1, <1>2
  <2>3. h[n] = g[<<h[n - 1], Append(s, x)[n]>>]
    BY <2>1, <1>3
  <2> QED
    BY <1>1, <1>5, <2>2, <2>3
<1>6. h[Len(s)] = f[Len(s)]
  BY <1>1, <1>4, <1>5, Agree
<1>7. Len(s) + 1 \in 0 .. Len(s) + 1 /\ Len(s) + 1 # 0 /\ (Len(s) + 1) - 1 = Len(s)
  BY <1>1
<1> QED
  BY <1>1, <1>3, <1>6, <1>7

\* What is read of a text, and of the lines of one.
Texts == [done : Seq(Line), line : Line]
Shows == [out : Seq(Item), table : Seq(Line), fenced : BOOLEAN, lang : Line,
          diagram : Seq(Line)]

\* One lexeme read leaves the lines and the rest of a text.
LEMMA NextLexemeTyped ==
  ASSUME NEW p \in Texts, NEW x \in Lexeme
  PROVE  NextLexeme(p, x) \in Texts
<1>1. p.done \in Seq(Line) /\ p.line \in Line
  BY DEF Texts
<1>2. <<>> \in Line /\ Append(p.line, x) \in Line
  BY <1>1 DEF Line
<1>3. Append(p.done, p.line) \in Seq(Line)
  BY <1>1
<1> QED
  BY <1>1, <1>2, <1>3 DEF NextLexeme, Texts

\* A text is read a lexeme at a time.
LEMMA SplitRead ==
  ASSUME NEW s \in Line
  PROVE  \E f \in [0 .. Len(s) -> Texts] :
           /\ Reads(f, s, [p \in Texts \X Lexeme |-> NextLexeme(p[1], p[2])], NoText)
           /\ Split(s) = f[Len(s)]
<1> DEFINE g == [p \in Texts \X Lexeme |-> NextLexeme(p[1], p[2])]
           Step(f) == [n \in 0 .. Len(s) |-> IF n = 0 THEN NoText ELSE NextLexeme(f[n - 1], s[n])]
           F == CHOOSE f : f = Step(f)
<1>1. s \in Seq(Lexeme) /\ Len(s) \in Nat
  BY DEF Line
<1>2. NoText \in Texts
  BY DEF NoText, Texts, Line
<1>3. g \in [Texts \X Lexeme -> Texts]
  BY NextLexemeTyped
<1>4. Split(s) = F[Len(s)]
  BY DEF Split
<1>5. \A f : f \in [0 .. Len(s) -> Texts] => 
        Step(f) = [n \in 0 .. Len(s) |-> IF n = 0 THEN NoText ELSE g[<<f[n - 1], s[n]>>]]
  <2> SUFFICES ASSUME NEW f \in [0 .. Len(s) -> Texts]
               PROVE  Step(f) =
                        [n \in 0 .. Len(s) |-> IF n = 0 THEN NoText ELSE g[<<f[n - 1], s[n]>>]]
    OBVIOUS
  <2>1. ASSUME NEW n \in 0 .. Len(s), n # 0
        PROVE  NextLexeme(f[n - 1], s[n]) = g[<<f[n - 1], s[n]>>]
    <3>1. n - 1 \in 0 .. Len(s) /\ n \in 1 .. Len(s)
      BY <2>1, <1>1
    <3>2. f[n - 1] \in Texts /\ s[n] \in Lexeme
      BY <3>1, <1>1
    <3> QED
      BY <3>2
  <2> QED
    BY <2>1
<1> HIDE DEF g
<1>6. PICK f \in [0 .. Len(s) -> Texts] : Reads(f, s, g, NoText)
  BY <1>1, <1>2, <1>3, ReadExists
<1>7. f = Step(f)
  BY <1>5, <1>6 DEF Reads
<1>8. F = Step(F)
  <2> HIDE DEF Step
  <2> QED
    BY <1>7
<1>9. \A n \in 0 .. Len(s) : F[n] = IF n = 0 THEN NoText ELSE NextLexeme(F[n - 1], s[n])
  <2> HIDE DEF F
  <2> QED
    BY <1>8
<1>10. \A n \in 0 .. Len(s) : f[n] = IF n = 0 THEN NoText ELSE NextLexeme(f[n - 1], s[n])
  BY <1>7
<1> HIDE DEF F
<1>11. F[0] = f[0]
  BY <1>1, <1>9, <1>10
<1>12. \A n \in 1 .. Len(s) : F[n - 1] = f[n - 1] => F[n] = f[n]
  <2> SUFFICES ASSUME NEW n \in 1 .. Len(s), F[n - 1] = f[n - 1]
               PROVE  F[n] = f[n]
    OBVIOUS
  <2>1. n \in 0 .. Len(s) /\ n # 0
    BY <1>1
  <2> QED
    BY <2>1, <1>9, <1>10
<1>13. F[Len(s)] = f[Len(s)]
  BY <1>1, <1>11, <1>12, Agree
<1> QED
  BY <1>4, <1>6, <1>13 DEF g
\* What is read of a text with one more lexeme.
LEMMA SplitNext ==
  ASSUME NEW s \in Seq(Lexeme), NEW x \in Lexeme
  PROVE  /\ Split(s) \in Texts
         /\ Split(Append(s, x)) = NextLexeme(Split(s), x)
<1> DEFINE g == [p \in Texts \X Lexeme |-> NextLexeme(p[1], p[2])]
<1>1. Append(s, x) \in Seq(Lexeme) /\ Len(s) \in Nat /\ Len(Append(s, x)) = Len(s) + 1
  OBVIOUS
<1>2. PICK f \in [0 .. Len(s) -> Texts] : Reads(f, s, g, NoText) /\ Split(s) = f[Len(s)]
  BY SplitRead DEF Line
<1>3. PICK h \in [0 .. Len(Append(s, x)) -> Texts] :
        Reads(h, Append(s, x), g, NoText) /\ Split(Append(s, x)) = h[Len(Append(s, x))]
  BY <1>1, SplitRead DEF Line
<1>4. g \in [Texts \X Lexeme -> Texts]
  BY NextLexemeTyped
<1>5. NoText \in Texts
  BY DEF NoText, NoLines, Texts, Shows, Line
<1>6. f[Len(s)] \in Texts
  BY <1>1, <1>2
<1>7. g[<<f[Len(s)], x>>] = NextLexeme(f[Len(s)], x)
  BY <1>6
<1> HIDE DEF g
<1>8. h[Len(s) + 1] = g[<<f[Len(s)], x>>]
  <2>1. Reads(f, s, g, NoText) /\ Reads(h, Append(s, x), g, NoText)
    BY <1>2, <1>3
  <2>2. s \in Seq(Lexeme) /\ x \in Lexeme
    OBVIOUS
  <2> QED
    BY ZenonT(40), <2>1, <2>2, ReadNext
<1> QED
  BY <1>1, <1>2, <1>3, <1>6, <1>7, <1>8

\* Of an empty text there is nothing.
LEMMA SplitNone == Split(<<>>) = NoText
<1>1. <<>> \in Seq(Lexeme) /\ Len(<<>>) = 0
  OBVIOUS
<1>2. PICK f \in [0 .. Len(<<>>) -> Texts] :
        /\ Reads(f, <<>>, [p \in Texts \X Lexeme |-> NextLexeme(p[1], p[2])], NoText)
        /\ Split(<<>>) = f[Len(<<>>)]
  BY <1>1, SplitRead DEF Line
<1>3. f[0] = NoText
  BY <1>1, <1>2 DEF Reads
<1> QED
  BY <1>1, <1>2, <1>3

\* The form that render_line gives a line is one of the forms.
LEMMA WholeFormTyped == \A l : WholeForm(l) \in Forms
BY DEF WholeForm, Forms

\* A line rendered leaves what render_lines keeps.
LEMMA RenderLineTyped ==
  ASSUME NEW p \in Shows, NEW l \in Line
  PROVE  RenderLine(p, l) \in Shows
<1>1. /\ p.out \in Seq(Item) /\ p.table \in Seq(Line) /\ p.fenced \in BOOLEAN
      /\ p.lang \in Line /\ p.diagram \in Seq(Line)
  BY DEF Shows
<1>2. {"plain", "code", "diagram"} \subseteq Forms
  BY DEF Forms
<1> DEFINE o == p.out \o Table(p.table)
<1>3. o \in Seq(Item)
  BY <1>1, TableShown
<1>4. o \o All("diagram", p.diagram) \in Seq(Item)
  <2>1. All("diagram", p.diagram) \in Seq(Item)
    BY <1>1, <1>2, AllTyped
  <2> HIDE DEF o
  <2> QED
    BY <1>3, <2>1
<1>5. Append(p.table, l) \in Seq(Line) /\ Append(p.diagram, l) \in Seq(Line)
  BY <1>1
<1>6. <<>> \in Line /\ <<>> \in Seq(Line)
  BY DEF Line
<1>7. /\ Append(o, Shown("code", l)) \in Seq(Item)
      /\ Append(o, Shown(WholeForm(l), l)) \in Seq(Item)
  <2> HIDE DEF o
  <2> QED
    BY <1>2, <1>3, LinesOfAppend, WholeFormTyped
<1>8. WholeLanguage(l) \in Line
  BY LanguageTyped
<1>9. CASE IsFence(l) \/ p.fenced
  <2>1. RenderLine(p, l) = RenderFenced(p, l)
    BY <1>9 DEF RenderLine
  <2>2. CASE p.fenced /\ p.lang = <<Mermaid>>
    <3>1. CASE IsFence(l)
      <4>1. RenderLine(p, l) = [p EXCEPT !.out = o \o All("diagram", p.diagram), !.table = <<>>,
                                         !.diagram = <<>>, !.fenced = FALSE, !.lang = <<>>]
        BY <2>1, <2>2, <3>1 DEF RenderFenced, Shows
      <4> HIDE DEF o
      <4> QED
        BY <4>1, <1>1, <1>4, <1>6 DEF Shows
    <3>2. CASE ~IsFence(l)
      <4>1. RenderLine(p, l) = [p EXCEPT !.out = o, !.table = <<>>,
                                         !.diagram = Append(p.diagram, l)]
        BY <2>1, <2>2, <3>2 DEF RenderFenced, Shows
      <4> HIDE DEF o
      <4> QED
        BY <4>1, <1>1, <1>3, <1>5, <1>6 DEF Shows
    <3> QED
      BY <3>1, <3>2
  <2>3. CASE ~(p.fenced /\ p.lang = <<Mermaid>>)
    <3>1. CASE ~p.fenced
      <4>1. RenderLine(p, l) = [p EXCEPT !.out = o, !.table = <<>>, !.lang = WholeLanguage(l),
                                         !.fenced = TRUE, !.diagram = <<>>]
        BY <2>1, <2>3, <3>1 DEF RenderFenced, Shows
      <4> HIDE DEF o
      <4> QED
        BY <4>1, <1>8, <1>1, <1>3, <1>6 DEF Shows
    <3>2. CASE p.fenced /\ IsFence(l)
      <4>1. RenderLine(p, l) = [p EXCEPT !.out = o, !.table = <<>>, !.lang = <<>>, !.fenced = FALSE]
        BY <2>1, <2>3, <3>2 DEF RenderFenced, Shows
      <4> HIDE DEF o
      <4> QED
        BY <4>1, <1>1, <1>3, <1>6 DEF Shows
    <3>3. CASE p.fenced /\ ~IsFence(l)
      <4>1. RenderLine(p, l) = [p EXCEPT !.out = Append(o, Shown("code", l)), !.table = <<>>]
        BY <2>1, <2>3, <3>3 DEF RenderFenced, Shows
      <4> HIDE DEF o
      <4> QED
        BY <4>1, <1>1, <1>7, <1>6 DEF Shows
    <3> QED
      BY <3>1, <3>2, <3>3
  <2> QED
    BY <2>2, <2>3
<1>10. CASE ~(IsFence(l) \/ p.fenced) /\ IsRow(l)
  <2>1. RenderLine(p, l) = [p EXCEPT !.table = Append(p.table, l)]
    BY <1>10 DEF RenderLine
  <2> QED
    BY <2>1, <1>1, <1>5 DEF Shows
<1>11. CASE ~(IsFence(l) \/ p.fenced) /\ ~IsRow(l)
  <2>1. RenderLine(p, l) = [p EXCEPT !.out = Append(o, Shown(WholeForm(l), l)), !.table = <<>>]
    BY <1>11 DEF RenderLine
  <2> HIDE DEF o
  <2> QED
    BY <2>1, <1>1, <1>7, <1>6 DEF Shows
<1> QED
  BY <1>9, <1>10, <1>11

\* Picking the lines that are shown.
LEMMA NextVisibleTyped ==
  ASSUME NEW p \in Seq(Line), NEW x \in Line
  PROVE  NextVisible(p, x) \in Seq(Line)
BY DEF NextVisible

\* Lines are rendered one at a time.
LEMMA RenderedRead ==
  ASSUME NEW s \in Seq(Line)
  PROVE  \E f \in [0 .. Len(s) -> Shows] :
           /\ Reads(f, s, [p \in Shows \X Line |-> RenderLine(p[1], p[2])], NoLines)
           /\ Rendered(s) = f[Len(s)]
<1> DEFINE g == [p \in Shows \X Line |-> RenderLine(p[1], p[2])]
           Step(f) == [n \in 0 .. Len(s) |-> IF n = 0 THEN NoLines ELSE RenderLine(f[n - 1], s[n])]
           F == CHOOSE f : f = Step(f)
<1>1. s \in Seq(Line) /\ Len(s) \in Nat
  OBVIOUS
<1>2. NoLines \in Shows
  BY DEF NoLines, Shows, Line
<1>3. g \in [Shows \X Line -> Shows]
  BY RenderLineTyped
<1>4. Rendered(s) = F[Len(s)]
  BY DEF Rendered
<1>5. \A f : f \in [0 .. Len(s) -> Shows] => 
        Step(f) = [n \in 0 .. Len(s) |-> IF n = 0 THEN NoLines ELSE g[<<f[n - 1], s[n]>>]]
  <2> SUFFICES ASSUME NEW f \in [0 .. Len(s) -> Shows]
               PROVE  Step(f) =
                        [n \in 0 .. Len(s) |-> IF n = 0 THEN NoLines ELSE g[<<f[n - 1], s[n]>>]]
    OBVIOUS
  <2>1. ASSUME NEW n \in 0 .. Len(s), n # 0
        PROVE  RenderLine(f[n - 1], s[n]) = g[<<f[n - 1], s[n]>>]
    <3>1. n - 1 \in 0 .. Len(s) /\ n \in 1 .. Len(s)
      BY <2>1, <1>1
    <3>2. f[n - 1] \in Shows /\ s[n] \in Line
      BY <3>1, <1>1
    <3> QED
      BY <3>2
  <2> QED
    BY <2>1
<1> HIDE DEF g
<1>6. PICK f \in [0 .. Len(s) -> Shows] : Reads(f, s, g, NoLines)
  BY <1>1, <1>2, <1>3, ReadExists
<1>7. f = Step(f)
  BY <1>5, <1>6 DEF Reads
<1>8. F = Step(F)
  <2> HIDE DEF Step
  <2> QED
    BY <1>7
<1>9. \A n \in 0 .. Len(s) : F[n] = IF n = 0 THEN NoLines ELSE RenderLine(F[n - 1], s[n])
  <2> HIDE DEF F
  <2> QED
    BY <1>8
<1>10. \A n \in 0 .. Len(s) : f[n] = IF n = 0 THEN NoLines ELSE RenderLine(f[n - 1], s[n])
  BY <1>7
<1> HIDE DEF F
<1>11. F[0] = f[0]
  BY <1>1, <1>9, <1>10
<1>12. \A n \in 1 .. Len(s) : F[n - 1] = f[n - 1] => F[n] = f[n]
  <2> SUFFICES ASSUME NEW n \in 1 .. Len(s), F[n - 1] = f[n - 1]
               PROVE  F[n] = f[n]
    OBVIOUS
  <2>1. n \in 0 .. Len(s) /\ n # 0
    BY <1>1
  <2> QED
    BY <2>1, <1>9, <1>10
<1>13. F[Len(s)] = f[Len(s)]
  BY <1>1, <1>11, <1>12, Agree
<1> QED
  BY <1>4, <1>6, <1>13 DEF g
\* What is rendered of one more line.
LEMMA RenderedNext ==
  ASSUME NEW s \in Seq(Line), NEW x \in Line
  PROVE  /\ Rendered(s) \in Shows
         /\ Rendered(Append(s, x)) = RenderLine(Rendered(s), x)
<1> DEFINE g == [p \in Shows \X Line |-> RenderLine(p[1], p[2])]
<1>1. Append(s, x) \in Seq(Line) /\ Len(s) \in Nat /\ Len(Append(s, x)) = Len(s) + 1
  OBVIOUS
<1>2. PICK f \in [0 .. Len(s) -> Shows] : Reads(f, s, g, NoLines) /\ Rendered(s) = f[Len(s)]
  BY RenderedRead
<1>3. PICK h \in [0 .. Len(Append(s, x)) -> Shows] :
        Reads(h, Append(s, x), g, NoLines) /\ Rendered(Append(s, x)) = h[Len(Append(s, x))]
  BY <1>1, RenderedRead
<1>4. g \in [Shows \X Line -> Shows]
  BY RenderLineTyped
<1>5. NoLines \in Shows
  BY DEF NoText, NoLines, Texts, Shows, Line
<1>6. f[Len(s)] \in Shows
  BY <1>1, <1>2
<1>7. g[<<f[Len(s)], x>>] = RenderLine(f[Len(s)], x)
  BY <1>6
<1> HIDE DEF g
<1>8. h[Len(s) + 1] = g[<<f[Len(s)], x>>]
  <2>1. Reads(f, s, g, NoLines) /\ Reads(h, Append(s, x), g, NoLines)
    BY <1>2, <1>3
  <2>2. s \in Seq(Line) /\ x \in Line
    OBVIOUS
  <2> QED
    BY ZenonT(40), <2>1, <2>2, ReadNext
<1> QED
  BY <1>1, <1>2, <1>3, <1>6, <1>7, <1>8

\* Of no line nothing is rendered.
LEMMA RenderedNone == Rendered(<<>>) = NoLines
<1>1. <<>> \in Seq(Line) /\ Len(<<>>) = 0
  OBVIOUS
<1>2. PICK f \in [0 .. Len(<<>>) -> Shows] :
        /\ Reads(f, <<>>, [p \in Shows \X Line |-> RenderLine(p[1], p[2])], NoLines)
        /\ Rendered(<<>>) = f[Len(<<>>)]
  BY <1>1, RenderedRead
<1>3. f[0] = NoLines
  BY <1>1, <1>2 DEF Reads
<1> QED
  BY <1>1, <1>2, <1>3

\* The lines to be shown are picked one at a time.
LEMMA VisibleRead ==
  ASSUME NEW s \in Seq(Line)
  PROVE  \E f \in [0 .. Len(s) -> Seq(Line)] :
           /\ Reads(f, s, [p \in Seq(Line) \X Line |-> NextVisible(p[1], p[2])], <<>>)
           /\ Visible(s) = f[Len(s)]
<1> DEFINE g == [p \in Seq(Line) \X Line |-> NextVisible(p[1], p[2])]
           Step(f) == [n \in 0 .. Len(s) |-> IF n = 0 THEN <<>> ELSE NextVisible(f[n - 1], s[n])]
           F == CHOOSE f : f = Step(f)
<1>1. s \in Seq(Line) /\ Len(s) \in Nat
  OBVIOUS
<1>2. <<>> \in Seq(Line)
  OBVIOUS
<1>3. g \in [Seq(Line) \X Line -> Seq(Line)]
  BY NextVisibleTyped
<1>4. Visible(s) = F[Len(s)]
  BY DEF Visible
<1>5. \A f : f \in [0 .. Len(s) -> Seq(Line)] => 
        Step(f) = [n \in 0 .. Len(s) |-> IF n = 0 THEN <<>> ELSE g[<<f[n - 1], s[n]>>]]
  <2> SUFFICES ASSUME NEW f \in [0 .. Len(s) -> Seq(Line)]
               PROVE Step(f) = [n \in 0 .. Len(s) |-> IF n = 0 THEN <<>> ELSE g[<<f[n - 1], s[n]>>]]
    OBVIOUS
  <2>1. ASSUME NEW n \in 0 .. Len(s), n # 0
        PROVE  NextVisible(f[n - 1], s[n]) = g[<<f[n - 1], s[n]>>]
    <3>1. n - 1 \in 0 .. Len(s) /\ n \in 1 .. Len(s)
      BY <2>1, <1>1
    <3>2. f[n - 1] \in Seq(Line) /\ s[n] \in Line
      BY <3>1, <1>1
    <3> QED
      BY <3>2
  <2> QED
    BY <2>1
<1> HIDE DEF g
<1>6. PICK f \in [0 .. Len(s) -> Seq(Line)] : Reads(f, s, g, <<>>)
  BY <1>1, <1>2, <1>3, ReadExists
<1>7. f = Step(f)
  BY <1>5, <1>6 DEF Reads
<1>8. F = Step(F)
  <2> HIDE DEF Step
  <2> QED
    BY <1>7
<1>9. \A n \in 0 .. Len(s) : F[n] = IF n = 0 THEN <<>> ELSE NextVisible(F[n - 1], s[n])
  <2> HIDE DEF F
  <2> QED
    BY <1>8
<1>10. \A n \in 0 .. Len(s) : f[n] = IF n = 0 THEN <<>> ELSE NextVisible(f[n - 1], s[n])
  BY <1>7
<1> HIDE DEF F
<1>11. F[0] = f[0]
  BY <1>1, <1>9, <1>10
<1>12. \A n \in 1 .. Len(s) : F[n - 1] = f[n - 1] => F[n] = f[n]
  <2> SUFFICES ASSUME NEW n \in 1 .. Len(s), F[n - 1] = f[n - 1]
               PROVE  F[n] = f[n]
    OBVIOUS
  <2>1. n \in 0 .. Len(s) /\ n # 0
    BY <1>1
  <2> QED
    BY <2>1, <1>9, <1>10
<1>13. F[Len(s)] = f[Len(s)]
  BY <1>1, <1>11, <1>12, Agree
<1> QED
  BY <1>4, <1>6, <1>13 DEF g
\* What is shown of one more line.
LEMMA VisibleNext ==
  ASSUME NEW s \in Seq(Line), NEW x \in Line
  PROVE  /\ Visible(s) \in Seq(Line)
         /\ Visible(Append(s, x)) = NextVisible(Visible(s), x)
<1> DEFINE g == [p \in Seq(Line) \X Line |-> NextVisible(p[1], p[2])]
<1>1. Append(s, x) \in Seq(Line) /\ Len(s) \in Nat /\ Len(Append(s, x)) = Len(s) + 1
  OBVIOUS
<1>2. PICK f \in [0 .. Len(s) -> Seq(Line)] : Reads(f, s, g, <<>>) /\ Visible(s) = f[Len(s)]
  BY VisibleRead
<1>3. PICK h \in [0 .. Len(Append(s, x)) -> Seq(Line)] :
        Reads(h, Append(s, x), g, <<>>) /\ Visible(Append(s, x)) = h[Len(Append(s, x))]
  BY <1>1, VisibleRead
<1>4. g \in [Seq(Line) \X Line -> Seq(Line)]
  BY NextVisibleTyped
<1>5. <<>> \in Seq(Line)
  BY DEF NoText, NoLines, Texts, Shows, Line
<1>6. f[Len(s)] \in Seq(Line)
  BY <1>1, <1>2
<1>7. g[<<f[Len(s)], x>>] = NextVisible(f[Len(s)], x)
  BY <1>6
<1> HIDE DEF g
<1>8. h[Len(s) + 1] = g[<<f[Len(s)], x>>]
  <2>1. Reads(f, s, g, <<>>) /\ Reads(h, Append(s, x), g, <<>>)
    BY <1>2, <1>3
  <2>2. s \in Seq(Line) /\ x \in Line
    OBVIOUS
  <2> QED
    BY ZenonT(40), <2>1, <2>2, ReadNext
<1> QED
  BY <1>1, <1>2, <1>3, <1>6, <1>7, <1>8

\* Of no line nothing is shown.
LEMMA VisibleNone == Visible(<<>>) = <<>>
<1>1. <<>> \in Seq(Line) /\ Len(<<>>) = 0
  OBVIOUS
<1>2. PICK f \in [0 .. Len(<<>>) -> Seq(Line)] :
        /\ Reads(f, <<>>, [p \in Seq(Line) \X Line |-> NextVisible(p[1], p[2])], <<>>)
        /\ Visible(<<>>) = f[Len(<<>>)]
  BY <1>1, VisibleRead
<1>3. f[0] = <<>>
  BY <1>1, <1>2 DEF Reads
<1> QED
  BY <1>1, <1>2, <1>3

-----------------------------------------------------------------------------
(* A line, shown while it arrives and shown at once.                       *)

\* What render_lines would have when the terminal has o and the table buffer t.
State(o, t) == [out |-> o, table |-> t, fenced |-> fenced, lang |-> lang, diagram |-> diagram]

\* The marks that the rules tell apart.
LEMMA MarksDiffer == Bar # Fence /\ Hash # Dash /\ Hash # Rule /\ Hash # Blank
<1>1. /\ Bar[1] = "bar" /\ Fence[1] = "fence" /\ Hash[1] = "hash"
      /\ Dash[1] = "dash" /\ Rule[1] = "rule" /\ Blank[1] = "blank"
  BY DEF Bar, Fence, Hash, Dash, Rule, Blank, Mark
<1> QED
  BY <1>1

\* The rules in the order of flush_line and in that of render_line agree: a
\* heading is no rule.
LEMMA FormIsWholeForm ==
  ASSUME NEW l \in Line
  PROVE  Form(l) = WholeForm(l)
<1>1. ASSUME l # <<>>, l[1] = Hash
      PROVE  ~IsRule(l)
  <2>1. 1 \in DOMAIN l
    BY <1>1 DEF Line
  <2>2. l[1] \notin {Dash, Rule, Blank}
    BY <1>1, MarksDiffer
  <2> QED
    BY <2>1, <2>2 DEF IsRule
<1> QED
  BY <1>1 DEF Form, WholeForm

\* The row of a table opens or closes no code block.
LEMMA RowIsNoFence ==
  ASSUME NEW l, IsRow(l)
  PROVE  ~IsFence(l)
BY MarksDiffer DEF IsRow, IsFence

\* Nothing, after a sequence.
LEMMA ConcatNone == ASSUME NEW S, NEW a \in Seq(S) PROVE a \o <<>> = a
OBVIOUS

\* No lines make no items.
LEMMA NoRows ==
  /\ \A form : All(form, <<>>) = <<>>
  /\ Table(<<>>) = <<>>
<1>1. \A form : All(form, <<>>) = <<>>
  BY DEF All
<1> QED
  BY <1>1, TableIs

\* The record that State has with other buffers.
Made(o, t, f, g, d) == [out |-> o, table |-> t, fenced |-> f, lang |-> g, diagram |-> d]

\* What is on the terminal, once the table has been shown.
Flushed(o, t) == o \o Table(t)

\* RenderLine, case by case.
LEMMA RenderCases ==
  ASSUME NEW l, NEW o, NEW t
  PROVE  /\ IsFence(l) /\ ~fenced =>
              RenderLine(State(o, t), l) = Made(Flushed(o, t), <<>>, TRUE, WholeLanguage(l), <<>>)
         /\ IsFence(l) /\ fenced /\ lang = <<Mermaid>> =>
              RenderLine(State(o, t), l) =
                Made(Flushed(o, t) \o All("diagram", diagram), <<>>, FALSE, <<>>, <<>>)
         /\ IsFence(l) /\ fenced /\ lang # <<Mermaid>> =>
              RenderLine(State(o, t), l) = Made(Flushed(o, t), <<>>, FALSE, <<>>, diagram)
         /\ ~IsFence(l) /\ fenced /\ lang = <<Mermaid>> =>
              RenderLine(State(o, t), l) = Made(Flushed(o, t), <<>>, fenced, lang, Append(diagram, l))
         /\ ~IsFence(l) /\ fenced /\ lang # <<Mermaid>> =>
              RenderLine(State(o, t), l) =
                Made(Append(Flushed(o, t), Shown("code", l)), <<>>, fenced, lang, diagram)
         /\ ~IsFence(l) /\ ~fenced /\ IsRow(l) =>
              RenderLine(State(o, t), l) = Made(o, Append(t, l), fenced, lang, diagram)
         /\ ~IsFence(l) /\ ~fenced /\ ~IsRow(l) =>
              RenderLine(State(o, t), l) =
                Made(Append(Flushed(o, t), Shown(WholeForm(l), l)), <<>>, fenced, lang, diagram)
<1> DEFINE acc == State(o, t)
<1>1. /\ acc.out = o /\ acc.table = t /\ acc.fenced = fenced /\ acc.lang = lang
      /\ acc.diagram = diagram
  BY DEF State
<1>2. CASE IsFence(l) /\ ~fenced
  BY <1>1, <1>2 DEF RenderLine, RenderFenced, State, Made, Flushed
<1>3. CASE IsFence(l) /\ fenced /\ lang = <<Mermaid>>
  BY <1>1, <1>3 DEF RenderLine, RenderFenced, State, Made, Flushed
<1>4. CASE IsFence(l) /\ fenced /\ lang # <<Mermaid>>
  BY <1>1, <1>4 DEF RenderLine, RenderFenced, State, Made, Flushed
<1>5. CASE ~IsFence(l) /\ fenced /\ lang = <<Mermaid>>
  BY <1>1, <1>5 DEF RenderLine, RenderFenced, State, Made, Flushed
<1>6. CASE ~IsFence(l) /\ fenced /\ lang # <<Mermaid>>
  BY <1>1, <1>6 DEF RenderLine, RenderFenced, State, Made, Flushed
<1>7. CASE ~IsFence(l) /\ ~fenced /\ IsRow(l)
  BY <1>1, <1>7 DEF RenderLine, State, Made, Flushed
<1>8. CASE ~IsFence(l) /\ ~fenced /\ ~IsRow(l)
  BY <1>1, <1>8 DEF RenderLine, State, Made, Flushed
<1> QED
  BY <1>2, <1>3, <1>4, <1>5, <1>6, <1>7, <1>8

\* flush_line does with a line to be shown what render_lines does.
LEMMA FlushFollows ==
  ASSUME TypeOK, color, NEW l \in Line, NEW o \in Seq(Item), NEW t \in Seq(Line),
         ~Hidden(l), SameLanguage(l), FlushLine(l, o, t)
  PROVE  State(out, table)' = RenderLine(State(o, t), l)
<1> DEFINE shown == Flushed(o, t)
<1>1. fenced \in BOOLEAN /\ (diagram # <<>> => fenced /\ lang = <<Mermaid>>)
  BY DEF TypeOK, BuffersEnd
<1>2. State(out, table)' = Made(out', table', fenced', lang', diagram')
  BY DEF State, Made
<1>3. shown \in Seq(Item)
  BY TableShown DEF Flushed
<1>4. CASE RowLine(l, o, t)
  <2>1. ~fenced /\ IsRow(l) /\ ~IsFence(l)
    BY <1>4, RowIsNoFence DEF RowLine
  <2>2. out' = o /\ table' = Append(t, l) /\ UNCHANGED <<fenced, lang, diagram>>
    BY <1>4 DEF RowLine, Keep
  <2>3. RenderLine(State(o, t), l) = Made(o, Append(t, l), fenced, lang, diagram)
    BY <2>1, RenderCases
  <2> QED
    BY <1>2, <2>2, <2>3
<1>5. CASE OpenFence(l, o, t)
  <2>1. ~fenced /\ IsFence(l)
    BY <1>5 DEF OpenFence, Flushed
  <2>2. /\ out' = shown /\ table' = <<>> /\ fenced' = TRUE /\ lang' = Language(l)
        /\ diagram' = <<>>
    BY <1>5 DEF OpenFence, Flushed
  <2>3. RenderLine(State(o, t), l) = Made(shown, <<>>, TRUE, WholeLanguage(l), <<>>)
    BY <2>1, RenderCases
  <2>4. Language(l) = WholeLanguage(l)
    BY <2>1 DEF SameLanguage
  <2> QED
    BY <1>2, <2>2, <2>3, <2>4
<1>6. CASE CloseFence(l, o, t)
  <2>1. fenced /\ IsFence(l)
    BY <1>6 DEF CloseFence, Flushed
  <2>2. /\ out' = shown \o All("diagram", diagram) /\ table' = <<>> /\ fenced' = FALSE
        /\ lang' = <<>> /\ diagram' = <<>>
    BY <1>6 DEF CloseFence, Flushed
  <2>3. CASE lang = <<Mermaid>>
    <3>1. RenderLine(State(o, t), l) =
            Made(shown \o All("diagram", diagram), <<>>, FALSE, <<>>, <<>>)
      BY ZenonT(40), <2>1, <2>3, RenderCases
    <3> QED
      BY <1>2, <2>2, <3>1
  <2>4. CASE lang # <<Mermaid>>
    <3>1. diagram = <<>>
      BY <1>1, <2>4
    <3>2. RenderLine(State(o, t), l) = Made(shown, <<>>, FALSE, <<>>, diagram)
      BY <2>1, <2>4, RenderCases
    <3>3. shown \o All("diagram", diagram) = shown
      <4>1. All("diagram", diagram) = <<>>
        BY <3>1, NoRows
      <4>2. shown \o <<>> = shown
        BY <1>3, ConcatNone
      <4> QED
        BY <4>1, <4>2
    <3> QED
      BY <1>2, <2>2, <3>1, <3>2, <3>3
  <2> QED
    BY <2>3, <2>4
<1>7. CASE CodeLine(l, o, t)
  <2>1. fenced /\ ~IsFence(l) /\ table' = <<>> /\ fenced' = fenced /\ lang' = lang
    BY <1>7 DEF CodeLine, Flushed
  <2>2. CASE lang = <<Mermaid>>
    <3>1. out' = shown /\ diagram' = Append(diagram, l)
      BY <1>7, <2>2 DEF CodeLine, Flushed
    <3>2. RenderLine(State(o, t), l) = Made(shown, <<>>, fenced, lang, Append(diagram, l))
      BY <2>1, <2>2, RenderCases
    <3> QED
      BY <1>2, <2>1, <3>1, <3>2
  <2>3. CASE lang # <<Mermaid>>
    <3>1. out' = Append(shown, Shown("code", l)) /\ diagram' = diagram
      BY <1>7, <2>3 DEF CodeLine, Flushed
    <3>2. RenderLine(State(o, t), l) =
            Made(Append(shown, Shown("code", l)), <<>>, fenced, lang, diagram)
      BY <2>1, <2>3, RenderCases
    <3> QED
      BY <1>2, <2>1, <3>1, <3>2
  <2> QED
    BY <2>2, <2>3
<1>8. CASE TextLine(l, o, t)
  <2>1. ~fenced /\ ~IsRow(l) /\ ~IsFence(l)
    BY <1>8 DEF TextLine
  <2>2. /\ out' = Append(shown, Shown(WholeForm(l), l)) /\ table' = <<>>
        /\ UNCHANGED <<fenced, lang, diagram>>
    BY <1>8, FormIsWholeForm DEF TextLine, Keep, Flushed
  <2>3. RenderLine(State(o, t), l) =
          Made(Append(shown, Shown(WholeForm(l), l)), <<>>, fenced, lang, diagram)
    BY <2>1, RenderCases
  <2> QED
    BY <1>2, <2>2, <2>3
<1>9. ~HideLine(l, o, t) /\ ~PlainLine(l, o, t)
  BY DEF HideLine, PlainLine
<1> QED
  BY <1>4, <1>5, <1>6, <1>7, <1>8, <1>9 DEF FlushLine

\* What a line that is no row makes of the terminal.
AfterLine(shown, l) ==
  IF IsFence(l)
  THEN IF ~fenced THEN Made(shown, <<>>, TRUE, WholeLanguage(l), <<>>)
       ELSE IF lang = <<Mermaid>>
         THEN Made(shown \o All("diagram", diagram), <<>>, FALSE, <<>>, <<>>)
       ELSE Made(shown, <<>>, FALSE, <<>>, diagram)
  ELSE IF ~fenced THEN Made(Append(shown, Shown(WholeForm(l), l)), <<>>, fenced, lang, diagram)
  ELSE IF lang = <<Mermaid>> THEN Made(shown, <<>>, fenced, lang, Append(diagram, l))
  ELSE Made(Append(shown, Shown("code", l)), <<>>, fenced, lang, diagram)

\* It depends on what would be on the terminal, not on how much is still in the table.
LEMMA RenderFrom ==
  ASSUME NEW l, NEW o, NEW t, IsFence(l) \/ fenced \/ ~IsRow(l)
  PROVE  RenderLine(State(o, t), l) = AfterLine(Flushed(o, t), l)
<1> DEFINE R == RenderLine(State(o, t), l)
<1>2. CASE IsFence(l) /\ ~fenced
  <2>1. R = Made(Flushed(o, t), <<>>, TRUE, WholeLanguage(l), <<>>)
    BY <1>2, RenderCases
  <2> QED
    BY <1>2, <2>1 DEF AfterLine
<1>3. CASE IsFence(l) /\ fenced /\ lang = <<Mermaid>>
  <2>1. R = Made(Flushed(o, t) \o All("diagram", diagram), <<>>, FALSE, <<>>, <<>>)
    BY ZenonT(40), <1>3, RenderCases
  <2> QED
    BY <1>3, <2>1 DEF AfterLine
<1>4. CASE IsFence(l) /\ fenced /\ lang # <<Mermaid>>
  <2>1. R = Made(Flushed(o, t), <<>>, FALSE, <<>>, diagram)
    BY <1>4, RenderCases
  <2> QED
    BY <1>4, <2>1 DEF AfterLine
<1>5. CASE ~IsFence(l) /\ fenced /\ lang = <<Mermaid>>
  <2>1. R = Made(Flushed(o, t), <<>>, fenced, lang, Append(diagram, l))
    BY <1>5, RenderCases
  <2> QED
    BY <1>5, <2>1 DEF AfterLine
<1>6. CASE ~IsFence(l) /\ fenced /\ lang # <<Mermaid>>
  <2>1. R = Made(Append(Flushed(o, t), Shown("code", l)), <<>>, fenced, lang, diagram)
    BY <1>6, RenderCases
  <2> QED
    BY <1>6, <2>1 DEF AfterLine
<1>7. CASE ~IsFence(l) /\ ~fenced
  <2>1. R = Made(Append(Flushed(o, t), Shown(WholeForm(l), l)), <<>>, fenced, lang, diagram)
    BY <1>7, RenderCases
  <2> QED
    BY <1>7, <2>1 DEF AfterLine
<1> QED
  BY <1>2, <1>3, <1>4, <1>5, <1>6, <1>7

LEMMA AfterLineShown == ASSUME NEW shown, NEW l PROVE AfterLine(shown, l).table = <<>>
<1>1. \A a, c, d, e : Made(a, <<>>, c, d, e).table = <<>>
  BY DEF Made
<1>2. \E a, c, d, e : AfterLine(shown, l) = Made(a, <<>>, c, d, e)
  BY DEF AfterLine
<1> QED
  BY <1>1, <1>2

\* A table that has been shown already is shown no differently.
LEMMA RowsFirst ==
  ASSUME NEW l \in Line, NEW o \in Seq(Item), NEW t \in Seq(Line), ~IsRow(l),
         fenced \in BOOLEAN
  PROVE  /\ RenderLine(State(o \o Table(t), <<>>), l) = RenderLine(State(o, t), l)
         /\ RenderLine(State(o, t), l).table = <<>>
<1> DEFINE shown == o \o Table(t)
<1>1. shown \in Seq(Item)
  BY TableShown
<1>2. Table(<<>>) = <<>>
  BY NoRows
<1> HIDE DEF shown
<1>3. shown \o <<>> = shown
  BY <1>1, ConcatNone
<1>4. Flushed(shown, <<>>) = shown
  BY <1>2, <1>3 DEF Flushed
<1>5. Flushed(o, t) = shown
  BY DEF Flushed, shown
<1>6. /\ RenderLine(State(shown, <<>>), l) = RenderLine(State(o, t), l)
      /\ RenderLine(State(o, t), l).table = <<>>
  <2>1. Flushed(o, t) = Flushed(shown, <<>>)
    BY <1>4, <1>5
  <2>2. /\ RenderLine(State(shown, <<>>), l) = AfterLine(Flushed(shown, <<>>), l)
        /\ RenderLine(State(o, t), l) = AfterLine(Flushed(o, t), l)
    BY RenderFrom
  <2> QED
    BY <2>1, <2>2, AfterLineShown
<1> QED
  BY <1>6 DEF shown

-----------------------------------------------------------------------------
(* The stream follows render_lines.                                        *)

\* Both renderers read the languages of these lines alike.
AllSame(ls) == \A i \in DOMAIN ls : SameLanguage(ls[i])

\* What write() has been fed is p: the line that has not ended is its line, and
\* render_lines, given its other lines, would have what the renderer has.
Fed(p) == /\ raw = p \o rest
          /\ line = Split(p).line
          /\ line # <<>> => p # <<>> /\ p[Len(p)] # Nl
          /\ AllSame(Visible(Split(p).done)) =>
               Rendered(Visible(Split(p).done)) = State(out, table)

Followed ==
  color /\ ~masking =>
    \/ phase = "stream" /\ \E p \in Line : Fed(p)
    \/ phase = "ended" /\ rest = <<>> /\ StreamAsWhole

\* What render_lines has of a text of which p has been read.
LEMMA ReadTyped ==
  ASSUME NEW p \in Line
  PROVE  /\ Split(p).done \in Seq(Line) /\ Split(p).line \in Line
         /\ Visible(Split(p).done) \in Seq(Line)
         /\ Rendered(Visible(Split(p).done)) \in Shows
<1>1. Split(p) \in Texts
  <2>1. Nl \in Lexeme /\ p \in Seq(Lexeme)
    BY DEF Lexeme, Marks, Line
  <2> QED
    BY <2>1, SplitNext
<1>2. Split(p).done \in Seq(Line) /\ Split(p).line \in Line
  BY <1>1 DEF Texts
<1>3. <<>> \in Line
  BY DEF Line
<1>4. Visible(Split(p).done) \in Seq(Line)
  BY <1>2, <1>3, VisibleNext
<1>5. Rendered(Visible(Split(p).done)) \in Shows
  BY <1>3, <1>4, RenderedNext
<1> QED
  BY <1>2, <1>4, <1>5

\* A line that is not shown changes nothing.
LEMMA HiddenKeeps ==
  ASSUME NEW l, NEW o, NEW t, Hidden(l), FlushLine(l, o, t)
  PROVE  out' = o /\ table' = t /\ UNCHANGED <<fenced, lang, diagram>>
<1>1. HideLine(l, o, t)
  BY DEF FlushLine, PlainLine, RowLine, OpenFence, CloseFence, CodeLine, TextLine
<1> QED
  BY <1>1 DEF HideLine, Keep

\* One more line whose language may differ.
LEMMA SameMore ==
  ASSUME NEW ls \in Seq(Line), NEW l \in Line, AllSame(Append(ls, l))
  PROVE  AllSame(ls) /\ SameLanguage(l)
<1> DEFINE more == Append(ls, l)
<1>1. /\ Len(ls) \in Nat /\ Len(more) = Len(ls) + 1 /\ more[Len(ls) + 1] = l
      /\ \A i \in DOMAIN ls : i \in DOMAIN more /\ more[i] = ls[i]
      /\ Len(ls) + 1 \in DOMAIN more
  OBVIOUS
<1>2. \A i \in DOMAIN more : SameLanguage(more[i])
  BY DEF AllSame
<1> HIDE DEF more
<1> QED
  BY <1>1, <1>2, Zenon DEF AllSame

\* One more line, in the terminal and in render_lines.
LEMMA LineFollows ==
  ASSUME TypeOK, color, NEW l \in Line, NEW ls \in Seq(Line),
         FlushLine(l, out, table),
         AllSame(Visible(ls)) => Rendered(Visible(ls)) = State(out, table),
         AllSame(Visible(Append(ls, l)))
  PROVE  Rendered(Visible(Append(ls, l))) = State(out, table)'
<1>1. Visible(ls) \in Seq(Line) /\ Visible(Append(ls, l)) = NextVisible(Visible(ls), l)
  BY VisibleNext
<1>2. CASE Hidden(l)
  <2>1. Visible(Append(ls, l)) = Visible(ls)
    BY <1>1, <1>2 DEF NextVisible
  <2>2. State(out, table)' = State(out, table)
    BY <1>2, HiddenKeeps DEF State
  <2> QED
    BY <2>1, <2>2
<1>3. CASE ~Hidden(l)
  <2>1. Visible(Append(ls, l)) = Append(Visible(ls), l)
    BY <1>1, <1>3 DEF NextVisible
  <2>2. AllSame(Visible(ls)) /\ SameLanguage(l)
    BY <1>1, <2>1, SameMore
  <2>3. Rendered(Append(Visible(ls), l)) = RenderLine(State(out, table), l)
    BY <1>1, <2>2, RenderedNext
  <2>4. out \in Seq(Item) /\ table \in Seq(Line)
    BY DEF TypeOK, Item
  <2>5. State(out, table)' = RenderLine(State(out, table), l)
    BY <1>3, <2>2, <2>4, FlushFollows
  <2> QED
    BY <2>1, <2>3, <2>5
<1> QED
  BY <1>2, <1>3

\* write() follows render_lines, a lexeme at a time.
LEMMA WriteFollows ==
  ASSUME TypeOK, color, Write, NEW p \in Line, Fed(p)
  PROVE  \E q \in Line : Fed(q)'
<1>0. PICK x : x = Head(rest)
  OBVIOUS
<1> DEFINE q == Append(p, x)
<1>1. rest \in Seq(Lexeme) /\ rest # <<>> /\ p \in Seq(Lexeme) /\ line \in Line
  BY DEF TypeOK, Write, Line
<1>2. x \in Lexeme /\ rest' = Tail(rest) /\ Tail(rest) \in Seq(Lexeme) /\ rest = <<x>> \o Tail(rest)
  BY <1>0, <1>1 DEF Write
<1>3. q \in Seq(Lexeme) /\ q # <<>> /\ q[Len(q)] = x
  BY <1>1, <1>2, OneMore
<1>4. raw' = q \o rest'
  <2>1. raw' = p \o rest
    BY DEF Write, Fed
  <2>2. p \o (<<x>> \o Tail(rest)) = Append(p, x) \o Tail(rest)
    BY <1>1, <1>2
  <2> QED
    BY <2>1, <2>2, <1>2
<1>5. Split(q) = NextLexeme(Split(p), x) /\ Split(p) \in Texts
  BY <1>1, <1>2, SplitNext
<1>6. Split(p).done \in Seq(Line) /\ Split(p).line = line
  BY ReadTyped DEF Fed
<1> HIDE DEF q
<1>7. CASE x = Nl
  <2>1. line' = <<>> /\ FlushLine(line, out, table)
    BY <1>0, <1>7 DEF Write
  <2>2. Split(q).line = <<>> /\ Split(q).done = Append(Split(p).done, line)
    BY <1>5, <1>6, <1>7 DEF NextLexeme
  <2>3. AllSame(Visible(Split(q).done)) =>
          Rendered(Visible(Split(q).done)) = State(out, table)'
    BY <1>1, <1>6, <2>1, <2>2, LineFollows DEF Fed
  <2>4. Fed(q)'
    BY <1>4, <2>1, <2>2, <2>3 DEF Fed
  <2> QED
    BY <1>3, <2>4 DEF Line
<1>8. CASE x # Nl
  <2>1. line' = Append(line, x) /\ UNCHANGED <<table, fenced, lang, diagram, out>>
    BY <1>0, <1>8 DEF Write
  <2>2. Split(q).line = Append(line, x) /\ Split(q).done = Split(p).done
    BY <1>5, <1>6, <1>8 DEF NextLexeme, Texts
  <2>3. State(out, table)' = State(out, table)
    BY <2>1 DEF State
  <2>4. Fed(q)'
    BY <1>3, <1>4, <1>8, <2>1, <2>2, <2>3 DEF Fed
  <2> QED
    BY <1>3, <2>4 DEF Line
<1> QED
  BY <1>7, <1>8

\* finish() ends where render_lines does, but for a row that has no end.
LEMMA FinishFollows ==
  ASSUME TypeOK, color, Finish, NEW p \in Line, Fed(p)
  PROVE  StreamAsWhole'
<1> DEFINE done == Split(p).done
           shown == out \o Table(table)
<1>1. raw' = p /\ rest = <<>>
  <2>1. rest = <<>> /\ raw' = p \o rest
    BY DEF Finish, Fed
  <2>2. p \in Seq(Lexeme)
    BY DEF Line
  <2> QED
    BY <2>1, <2>2, ConcatNone
<1>2. done \in Seq(Line) /\ line \in Line /\ Visible(done) \in Seq(Line)
  BY ReadTyped DEF TypeOK
<1>3. out \in Seq(Item) /\ table \in Seq(Line) /\ fenced \in BOOLEAN
  BY DEF TypeOK, Item
<1>4. /\ AllSame(Visible(done)) => Rendered(Visible(done)) = State(out, table)
      /\ Split(p).line = line
  BY DEF Fed
<1>5. AllSame(Visible(done)) => render_lines(Visible(done)) = shown
  <2> DEFINE R == Rendered(Visible(done))
  <2>1. render_lines(Visible(done)) = R.out \o Table(R.table)
    BY DEF render_lines
  <2>2. State(out, table).out = out /\ State(out, table).table = table
    BY DEF State
  <2>3. AllSame(Visible(done)) => R = State(out, table)
    BY <1>4
  <2> HIDE DEF R
  <2> QED
    BY <2>1, <2>2, <2>3
<1>6. shown \in Seq(Item) /\ shown = out \o Table(table)
  BY <1>3, TableShown
<1> HIDE DEF shown, done
<1> DEFINE ls == LinesIn(p)
           cut == ls # <<>> /\ IsRow(ls[Len(ls)]) /\ p[Len(p)] # Nl
<1>7. cut \/ ~AllSame(Visible(ls)) \/ out' = render_lines(Visible(ls))
  <2> SUFFICES ASSUME AllSame(Visible(ls))
               PROVE  cut \/ out' = render_lines(Visible(ls))
    OBVIOUS
  <2>1. CASE line = <<>>
    <3>1. ls = done
      BY <1>4, <2>1 DEF LinesIn, done
    <3>2. out' = shown
      BY <2>1, <1>6 DEF Finish
    <3> QED
      BY <3>1, <3>2, <1>5
  <2>2. CASE line # <<>>
    <3>1. ls = Append(done, line)
      BY <1>4, <2>2 DEF LinesIn, done
    <3>2. FlushLine(line, shown, <<>>)
      BY <2>2, <1>6 DEF Finish
    <3>3. Visible(ls) = NextVisible(Visible(done), line)
      BY <3>1, <1>2, VisibleNext
    <3>4. CASE Hidden(line)
      <4>1. Visible(ls) = Visible(done)
        BY <3>3, <3>4 DEF NextVisible
      <4>2. out' = shown
        BY <3>2, <3>4, HiddenKeeps
      <4> HIDE DEF ls
      <4> QED
        BY <4>1, <4>2, <1>5
    <3>5. CASE ~Hidden(line) /\ IsRow(line)
      <4>1. ls # <<>> /\ ls[Len(ls)] = line
        BY <3>1, <1>2
      <4>2. p[Len(p)] # Nl
        BY <2>2 DEF Fed
      <4> HIDE DEF ls
      <4> QED
        BY <4>1, <4>2, <3>5
    <3>6. CASE ~Hidden(line) /\ ~IsRow(line)
      <4> DEFINE R == RenderLine(State(out, table), line)
      <4>1. Visible(ls) = Append(Visible(done), line)
        BY <3>3, <3>6 DEF NextVisible
      <4>0. AllSame(Visible(done)) /\ SameLanguage(line)
        <5>1. AllSame(Append(Visible(done), line))
          BY <4>1
        <5> HIDE DEF ls
        <5> QED
          BY <5>1, <1>2, SameMore
      <4>2. Rendered(Visible(ls)) = R
        BY <4>0, <4>1, <1>2, <1>4, RenderedNext
      <4>3. State(out, table)' = RenderLine(State(shown, <<>>), line)
        <5>1. <<>> \in Seq(Line)
          OBVIOUS
        <5> QED
          BY <5>1, <4>0, <3>2, <3>6, <1>2, <1>6, FlushFollows
      <4>4. R = RenderLine(State(shown, <<>>), line) /\ R.table = <<>>
        BY <3>6, <1>2, <1>3, <1>6, RowsFirst
      <4> HIDE DEF R, ls
      <4>5. out' = R.out
        BY <4>3, <4>4 DEF State
      <4>6. R.out \in Seq(Item)
        <5>1. Visible(done) \in Seq(Line) /\ line \in Line
          BY <1>2
        <5>2. Append(Visible(done), line) \in Seq(Line)
          BY <5>1
        <5>3. R \in Shows
          BY <5>2, <5>1, <4>1, <4>2, RenderedNext
        <5> QED
          BY <5>3 DEF Shows
      <4>7. render_lines(Visible(ls)) = R.out \o <<>>
        BY <4>2, <4>4, NoRows DEF render_lines
      <4>8. R.out \o <<>> = R.out
        BY <4>6, ConcatNone
      <4> QED
        BY <4>5, <4>7, <4>8
    <3> QED
      BY <3>4, <3>5, <3>6
  <2> QED
    BY <2>1, <2>2
<1>8. raw' = p /\ (cut \/ (\E i \in DOMAIN Visible(ls) : ~SameLanguage(Visible(ls)[i]))
                     \/ out' = render_lines(Visible(ls)))
  <2> HIDE DEF ls, cut
  <2> QED
    BY <1>1, <1>7 DEF AllSame
<1> QED
  BY <1>8 DEF StreamAsWhole

\* Nothing has been read and nothing is shown.
LEMMA InitFollowed == Init => Followed
<1> SUFFICES ASSUME Init
             PROVE  Followed
  OBVIOUS
<1>1. <<>> \in Line
  BY DEF Line
<1>2. Split(<<>>).line = <<>> /\ Split(<<>>).done = <<>>
  BY SplitNone DEF NoText
<1>3. Rendered(Visible(<<>>)) = State(out, table)
  BY VisibleNone, RenderedNone DEF NoLines, State, Init
<1>4. raw = <<>> \o rest /\ line = <<>> /\ phase = "stream"
  BY DEF Init
<1>5. Fed(<<>>)
  BY <1>2, <1>3, <1>4 DEF Fed
<1> QED
  BY <1>1, <1>4, <1>5 DEF Followed

\* Every step of the stream follows render_lines.
LEMMA NextFollowed == TypeOK /\ Followed /\ [Next]_vars => Followed'
<1> SUFFICES ASSUME TypeOK, Followed, [Next]_vars, color', ~masking'
             PROVE  Followed'
  BY DEF Followed
<1>1. color /\ ~masking
  <2>1. UNCHANGED <<color, masking>>
    BY DEF Next, Token, Write, Finish, vars
  <2> QED
    BY <2>1
<1>2. ASSUME NEW t \in Tokens, Token(t)
      PROVE  Followed'
  <2>1. phase = "stream" /\ phase' = "stream" /\ rest = <<>> /\ rest' = t /\ raw' = raw \o t
        /\ UNCHANGED buffers
    BY <1>1, <1>2 DEF Token
  <2>2. PICK p \in Line : Fed(p)
    BY <1>1, <2>1 DEF Followed
  <2>3. raw = p
    <3>1. p \in Seq(Lexeme) /\ raw = p \o <<>>
      BY <2>1, <2>2 DEF Line, Fed
    <3> QED
      BY <3>1, ConcatNone
  <2>4. State(out, table)' = State(out, table) /\ line' = line
    BY <2>1 DEF State, buffers
  <2>5. Fed(p)'
    BY <2>1, <2>2, <2>3, <2>4 DEF Fed
  <2> QED
    BY <2>1, <2>5 DEF Followed
<1>3. CASE Write
  <2>1. phase = "stream" /\ phase' = "stream"
    BY <1>1, <1>3 DEF Write, Followed
  <2>2. PICK p \in Line : Fed(p)
    BY <1>1, <2>1 DEF Followed
  <2>3. \E q \in Line : Fed(q)'
    BY <1>1, <1>3, <2>2, WriteFollows
  <2> QED
    BY <2>1, <2>3 DEF Followed
<1>4. CASE Finish
  <2>1. phase = "stream" /\ phase' = "ended" /\ rest' = <<>>
    BY <1>4 DEF Finish
  <2>2. PICK p \in Line : Fed(p)
    BY <1>1, <2>1 DEF Followed
  <2>3. StreamAsWhole'
    BY <1>1, <1>4, <2>2, FinishFollows
  <2> QED
    BY <2>1, <2>3 DEF Followed
<1>5. CASE UNCHANGED vars
  BY <1>5 DEF vars, buffers, Followed, Fed, State, StreamAsWhole, Ended
<1> QED
  BY <1>2, <1>3, <1>4, <1>5 DEF Next

\* A reply shown while it arrives looks as the same text shown at once does, when
\* no fence has blanks before its language.
THEOREM StreamAsWholeAlways == Spec => []StreamAsWhole
<1>1. Init => IInv /\ Followed
  BY InitInv, InitFollowed
<1>2. (IInv /\ Followed) /\ [Next]_vars => (IInv /\ Followed)'
  BY NextInv, NextFollowed DEF IInv
<1>3. IInv /\ Followed => StreamAsWhole
  <2>1. ASSUME phase = "stream" PROVE StreamAsWhole
    BY <2>1 DEF StreamAsWhole, Ended
  <2> QED
    BY <2>1 DEF Followed, StreamAsWhole
<1> QED
  BY <1>1, <1>2, <1>3, PTL DEF Spec

-----------------------------------------------------------------------------
(* Searching.                                                              *)

LEMMA FindOpen ==
  ASSUME NEW s \in Line, NEW n, NEW from \in Nat \ {0}
  PROVE  \/ /\ FirstOpen(s, n, from) = 0
            /\ \A i \in from .. Len(s) : ~IsOpen(s[i], n)
         \/ /\ FirstOpen(s, n, from) \in from .. Len(s)
            /\ IsOpen(s[FirstOpen(s, n, from)], n)
            /\ \A i \in from .. Len(s) : IsOpen(s[i], n) => FirstOpen(s, n, from) <= i
<1> DEFINE found == {i \in from .. Len(s) : IsOpen(s[i], n)}
<1>1. FirstOpen(s, n, from) = IF found = {} THEN 0 ELSE Min(found)
  BY DEF FirstOpen, First
<1>2. Len(s) \in Nat
  BY DEF Line
<1>3. found \subseteq Nat
  BY <1>2
<1>4. CASE found = {}
  BY <1>1, <1>4
<1>5. CASE found # {}
  <2>1. Min(found) \in found /\ \A i \in found : Min(found) <= i
    BY <1>3, <1>5, LeastOf
  <2> QED
    BY <1>1, <1>5, <2>1
<1> QED
  BY <1>4, <1>5

LEMMA FindClose ==
  ASSUME NEW s \in Line, NEW n, NEW from \in Nat \ {0}
  PROVE  \/ /\ FirstClose(s, n, from) = 0
            /\ \A i \in from .. Len(s) : ~IsClose(s[i], n)
         \/ /\ FirstClose(s, n, from) \in from .. Len(s)
            /\ IsClose(s[FirstClose(s, n, from)], n)
            /\ \A i \in from .. Len(s) : IsClose(s[i], n) => FirstClose(s, n, from) <= i
<1> DEFINE found == {i \in from .. Len(s) : IsClose(s[i], n)}
<1>1. FirstClose(s, n, from) = IF found = {} THEN 0 ELSE Min(found)
  BY DEF FirstClose, First
<1>2. Len(s) \in Nat
  BY DEF Line
<1>3. found \subseteq Nat
  BY <1>2
<1>4. CASE found = {}
  BY <1>1, <1>4
<1>5. CASE found # {}
  <2>1. Min(found) \in found /\ \A i \in found : Min(found) <= i
    BY <1>3, <1>5, LeastOf
  <2> QED
    BY <1>1, <1>5, <2>1
<1> QED
  BY <1>4, <1>5

\* The closing tag that is repaired: the first that is not inner.
Closers(s, start) == {i \in start + 1 .. Len(s) : s[i][1] = "close"}
Before(s, start, i) == Max({start} \cup {j \in Closers(s, start) : j < i})
Inner(s, start, i) == /\ s[i][2] \in Known
                      /\ \E j \in Before(s, start, i) + 1 .. i - 1 : Opens(s[j], s[i][2])

LEMMA FindBad ==
  ASSUME NEW s \in Line, NEW start \in Nat
  PROVE  \/ /\ BadCloser(s, start) = 0
            /\ \A i \in Closers(s, start) : Inner(s, start, i)
         \/ /\ BadCloser(s, start) \in Closers(s, start)
            /\ ~Inner(s, start, BadCloser(s, start))
            /\ \A i \in Closers(s, start) : ~Inner(s, start, i) => BadCloser(s, start) <= i
<1> DEFINE bad == {i \in Closers(s, start) : ~Inner(s, start, i)}
<1>1. BadCloser(s, start) = IF bad = {} THEN 0 ELSE Min(bad)
  BY DEF BadCloser, Closers, Before, Inner
<1>2. Len(s) \in Nat
  BY DEF Line
<1>3. bad \subseteq Nat
  BY <1>2 DEF Closers
<1>4. CASE bad = {}
  BY <1>1, <1>4
<1>5. CASE bad # {}
  <2>1. Min(bad) \in bad /\ \A i \in bad : Min(bad) <= i
    BY <1>3, <1>5, LeastOf
  <2> QED
    BY <1>1, <1>5, <2>1
<1> QED
  BY <1>4, <1>5

\* The closing tag before i, if there is one behind start, and start otherwise.
LEMMA BeforeIs ==
  ASSUME NEW s \in Line, NEW start \in Nat, NEW i \in Closers(s, start)
  PROVE  /\ Before(s, start, i) \in {start} \cup {j \in Closers(s, start) : j < i}
         /\ \A j \in Closers(s, start) : j < i => j <= Before(s, start, i)
         /\ start <= Before(s, start, i) /\ Before(s, start, i) \in Nat
<1> DEFINE S == {start} \cup {j \in Closers(s, start) : j < i}
<1>1. Len(s) \in Nat /\ Closers(s, start) \subseteq start + 1 .. Len(s)
  BY DEF Line, Closers
<1>2. S \subseteq 0 .. Len(s) /\ S # {}
  BY <1>1
<1>3. Max(S) \in S /\ \A y \in S : y <= Max(S)
  BY <1>1, <1>2, LargestOf
<1>4. Before(s, start, i) = Max(S)
  BY DEF Before
<1> HIDE DEF S
<1>5. Max(S) \in 0 .. Len(s)
  BY <1>2, <1>3
<1>6. Max(S) \in Nat
  BY <1>5
<1> QED
  BY <1>3, <1>4, <1>6 DEF S

-----------------------------------------------------------------------------
(* Loops: f has what there is after each turn.                             *)

\* One turn leads from A to A.
Turning(g, A) == \A x \in A : g[x] \in A
\* n turns, from a on.
Turned(a, g, n, A) ==
  \E f \in [0 .. n -> A] : f[0] = a /\ \A k \in 1 .. n : f[k] = g[f[k - 1]]

LEMMA Turns ==
  ASSUME NEW A, NEW a \in A, NEW g, Turning(g, A), NEW n \in Nat
  PROVE  Turned(a, g, n, A)
<1> DEFINE s == [i \in 1 .. n |-> i]
           h == [p \in A \X Nat |-> g[p[1]]]
<1>1. s \in Seq(Nat) /\ Len(s) = n
  OBVIOUS
<1>2. h \in [A \X Nat -> A] /\ \A x \in A, i \in Nat : h[<<x, i>>] = g[x]
  BY DEF Turning
<1>3. \A i \in 1 .. n : s[i] \in Nat
  OBVIOUS
<1> HIDE DEF s, h
<1>4. PICK f \in [0 .. Len(s) -> A] : Reads(f, s, h, a)
  BY <1>1, <1>2, ReadExists
<1>5. \A k \in 0 .. n : f[k] = IF k = 0 THEN a ELSE h[<<f[k - 1], s[k]>>]
  BY <1>1, <1>4 DEF Reads
<1>6. f[0] = a
  BY <1>5
<1>7. ASSUME NEW k \in 1 .. n
      PROVE  f[k] = g[f[k - 1]]
  <2>1. k \in 0 .. n /\ k # 0 /\ k - 1 \in 0 .. n
    OBVIOUS
  <2>2. f[k - 1] \in A
    BY <1>1, <1>4, <2>1
  <2>3. f[k] = h[<<f[k - 1], s[k]>>]
    BY <1>5, <2>1
  <2> QED
    BY <2>2, <2>3, <1>2, <1>3
<1> QED
  BY <1>1, <1>4, <1>6, <1>7 DEF Turned

\* What holds at first and after every turn holds in the end.
LEMMA Through ==
  ASSUME NEW n \in Nat, NEW f, NEW I, f[0] \in I,
         \A k \in 1 .. n : f[k - 1] \in I => f[k] \in I
  PROVE  \A k \in 0 .. n : f[k] \in I
<1> DEFINE T == {k \in Nat : k <= n => f[k] \in I}
<1>1. 0 \in T
  OBVIOUS
<1>2. ASSUME NEW k \in T
      PROVE  k + 1 \in T
  <2> SUFFICES ASSUME k + 1 <= n
               PROVE  f[k + 1] \in I
    OBVIOUS
  <2>1. k + 1 \in 1 .. n /\ (k + 1) - 1 = k /\ f[k] \in I
    OBVIOUS
  <2> QED
    BY <2>1
<1>3. T = Nat
  <2>1. T \subseteq Nat
    OBVIOUS
  <2> HIDE DEF T
  <2> QED
    BY <1>1, <1>2, <2>1, AllNumbers
<1> QED
  BY <1>3

-----------------------------------------------------------------------------
(* The turns of the repair of one kind of tag.                             *)

Positive == Nat \ {0}
Alike(s) == {t \in Line : Len(t) = Len(s)}
Repairs(s) == [text : Alike(s), pos : Positive]

LEMMA CloserTyped ==
  ASSUME NEW n \in Blocks
  PROVE  Close(n) \in Lexeme
BY DEF Lexeme, Tags

\* One element of a sequence replaced.
LEMMA Put ==
  ASSUME NEW S, NEW t \in Seq(S), NEW i \in 1 .. Len(t), NEW x \in S
  PROVE  /\ [t EXCEPT ![i] = x] \in Seq(S) /\ Len([t EXCEPT ![i] = x]) = Len(t)
         /\ [t EXCEPT ![i] = x][i] = x
         /\ \A j \in 1 .. Len(t) : j # i => [t EXCEPT ![i] = x][j] = t[j]
OBVIOUS

\* One turn, by cases.
LEMMA NextRepairIs ==
  ASSUME NEW n, NEW at,
         NEW start, start = FirstOpen(at.text, n, at.pos),
         NEW correct, correct = FirstClose(at.text, n, start),
         NEW next, next = FirstOpen(at.text, n, start + 1),
         NEW bad, bad = BadCloser(at.text, start)
  PROVE  /\ start = 0 => NextRepair(n, at) = at
         /\ start # 0 /\ correct # 0 /\ (next = 0 \/ correct < next) =>
              NextRepair(n, at) = [at EXCEPT !.pos = correct + 1]
         /\ start # 0 /\ ~(correct # 0 /\ (next = 0 \/ correct < next)) /\ bad = 0 =>
              NextRepair(n, at) = [at EXCEPT !.pos = Len(at.text) + 1]
         /\ start # 0 /\ ~(correct # 0 /\ (next = 0 \/ correct < next)) /\ bad # 0 =>
              NextRepair(n, at) = [text |-> [at.text EXCEPT ![bad] = Close(n)], pos |-> bad + 1]
BY DEF NextRepair

\* A turn goes on in the text, or there is nothing left to do.
LEMMA NextRepairTyped ==
  ASSUME NEW s \in Line, NEW n \in Blocks, NEW at \in Repairs(s)
  PROVE  /\ NextRepair(n, at) \in Repairs(s)
         /\ \/ NextRepair(n, at) = at /\ FirstOpen(at.text, n, at.pos) = 0
            \/ NextRepair(n, at).pos > at.pos
<1> DEFINE t == at.text
           start == FirstOpen(t, n, at.pos)
           correct == FirstClose(t, n, start)
           next == FirstOpen(t, n, start + 1)
           bad == BadCloser(t, start)
<1>1. at = [text |-> t, pos |-> at.pos] /\ t \in Line /\ Len(t) = Len(s) /\ at.pos \in Nat \ {0}
      /\ Len(t) \in Nat
  BY DEF Repairs, Alike, Positive, Line
<1> HIDE DEF t
<1>2. start = 0 \/ start \in at.pos .. Len(t)
  BY <1>1, FindOpen
<1>3. start # 0 => start \in Nat \ {0} /\ at.pos <= start /\ start <= Len(t)
  BY <1>1, <1>2
<1>4. start # 0 => correct = 0 \/ correct \in start .. Len(t)
  BY <1>1, <1>3, FindClose
<1>5. start # 0 => bad = 0 \/ bad \in start + 1 .. Len(t)
  BY <1>1, <1>3, FindBad DEF Closers
<1>6. CASE start = 0
  <2>1. NextRepair(n, at) = at
    BY <1>6, NextRepairIs DEF t
  <2> QED
    BY <1>6, <2>1 DEF t
<1>7. CASE start # 0 /\ correct # 0 /\ (next = 0 \/ correct < next)
  <2>1. NextRepair(n, at) = [at EXCEPT !.pos = correct + 1]
    BY <1>7, NextRepairIs DEF t
  <2>2. NextRepair(n, at) = [text |-> t, pos |-> correct + 1]
    BY <1>1, <2>1
  <2> HIDE DEF start, correct
  <2>3. correct + 1 \in Nat \ {0} /\ correct + 1 > at.pos
    BY <1>1, <1>3, <1>4, <1>7
  <2> QED
    BY <1>1, <2>2, <2>3 DEF Repairs, Alike, Positive
<1>8. CASE start # 0 /\ ~(correct # 0 /\ (next = 0 \/ correct < next)) /\ bad = 0
  <2>1. NextRepair(n, at) = [at EXCEPT !.pos = Len(t) + 1]
    BY <1>8, NextRepairIs DEF t
  <2>2. NextRepair(n, at) = [text |-> t, pos |-> Len(t) + 1]
    BY <1>1, <2>1
  <2> HIDE DEF start
  <2>3. Len(t) + 1 \in Nat \ {0} /\ Len(t) + 1 > at.pos
    BY <1>1, <1>3, <1>8
  <2> QED
    BY <1>1, <2>2, <2>3 DEF Repairs, Alike, Positive
<1>9. CASE start # 0 /\ ~(correct # 0 /\ (next = 0 \/ correct < next)) /\ bad # 0
  <2>1. NextRepair(n, at) = [text |-> [t EXCEPT ![bad] = Close(n)], pos |-> bad + 1]
    BY <1>9, NextRepairIs DEF t
  <2> HIDE DEF start, bad
  <2>2. bad + 1 \in Nat \ {0} /\ bad + 1 > at.pos /\ bad \in 1 .. Len(t)
    BY <1>1, <1>3, <1>5, <1>9
  <2>3. [t EXCEPT ![bad] = Close(n)] \in Line /\ Len([t EXCEPT ![bad] = Close(n)]) = Len(t)
    <3>1. t \in Seq(Lexeme) /\ bad \in 1 .. Len(t) /\ Close(n) \in Lexeme
      BY <1>1, <2>2, CloserTyped DEF Line
    <3> QED
      BY <3>1, Put DEF Line
  <2> QED
    BY <1>1, <2>1, <2>2, <2>3 DEF Repairs, Alike, Positive
<1> QED
  BY <1>6, <1>7, <1>8, <1>9

\* RepairKind is where the turns end: no opening tag is left to look at.
LEMMA RepairEnds ==
  ASSUME NEW s \in Line, NEW n \in Blocks, NEW I, [text |-> s, pos |-> 1] \in I,
         \A at \in Repairs(s) : at \in I => NextRepair(n, at) \in I
  PROVE  \E at \in Repairs(s) : /\ at \in I /\ RepairKind(s, n) = at.text
                                /\ FirstOpen(at.text, n, at.pos) = 0
<1> DEFINE A == Repairs(s)
           a == [text |-> s, pos |-> 1]
           g == [at \in A |-> NextRepair(n, at)]
           Step(f) == [k \in 0 .. Len(s) |-> IF k = 0 THEN a ELSE NextRepair(n, f[k - 1])]
           F == CHOOSE f : f = Step(f)
<1>1. a \in A /\ Len(s) \in Nat
  BY DEF Repairs, Alike, Positive, Line
<1>2. \A at \in A : g[at] = NextRepair(n, at) /\ g[at] \in A
  BY NextRepairTyped
<1>3. RepairKind(s, n) = F[Len(s)].text
  BY DEF RepairKind, Repeat
<1> HIDE DEF g
<1>4. PICK f \in [0 .. Len(s) -> A] : f[0] = a /\ \A k \in 1 .. Len(s) : f[k] = g[f[k - 1]]
  <2> HIDE DEF A, a
  <2>1. a \in A
    BY <1>1
  <2>2. Len(s) \in Nat
    BY <1>1
  <2>3. Turning(g, A)
    BY <1>2 DEF Turning
  <2>4. Turned(a, g, Len(s), A)
    BY <2>1, <2>2, <2>3, Turns
  <2> QED
    BY <2>4 DEF Turned
<1>5. \A k \in 1 .. Len(s) : k - 1 \in 0 .. Len(s) /\ k \in 0 .. Len(s) /\ k # 0
  BY <1>1
<1>6. \A k \in 1 .. Len(s) : f[k] = NextRepair(n, f[k - 1])
  BY <1>2, <1>4, <1>5
<1>7. f = Step(f)
  <2>1. \A k \in 0 .. Len(s) : f[k] = IF k = 0 THEN a ELSE NextRepair(n, f[k - 1])
    <3> HIDE DEF a
    <3> QED
      BY <1>1, <1>4, <1>6
  <2> QED
    BY <1>4, <2>1
<1>8. F = Step(F)
  <2> HIDE DEF Step
  <2> QED
    BY <1>7
<1>9. \A k \in 0 .. Len(s) : F[k] = IF k = 0 THEN a ELSE NextRepair(n, F[k - 1])
  <2> HIDE DEF F
  <2> QED
    BY <1>8
<1> HIDE DEF F
<1>10. F[Len(s)] = f[Len(s)]
  <2>1. F[0] = f[0]
    BY <1>1, <1>4, <1>9
  <2>2. \A k \in 1 .. Len(s) : F[k - 1] = f[k - 1] => F[k] = f[k]
    BY <1>5, <1>6, <1>9
  <2> QED
    BY <1>1, <2>1, <2>2, Agree
<1>11. \A k \in 0 .. Len(s) : f[k] \in I
  <2>1. \A k \in 1 .. Len(s) : f[k - 1] \in I => f[k] \in I
    BY <1>4, <1>5, <1>6
  <2> QED
    BY <1>1, <1>4, <2>1, Through
<1> DEFINE Far == {k \in Nat : k <= Len(s) => \/ FirstOpen(f[k].text, n, f[k].pos) = 0
                                              \/ f[k].pos > k}
<1>12. Far = Nat
  <2>1. 0 \in Far
    BY <1>4
  <2>2. ASSUME NEW k \in Far
        PROVE  k + 1 \in Far
    <3> SUFFICES ASSUME k + 1 <= Len(s)
                 PROVE  \/ FirstOpen(f[k + 1].text, n, f[k + 1].pos) = 0
                        \/ f[k + 1].pos > k + 1
      OBVIOUS
    <3>1. k \in Nat /\ k + 1 \in 1 .. Len(s) /\ (k + 1) - 1 = k /\ k \in 0 .. Len(s)
          /\ k + 1 \in 0 .. Len(s)
      BY <1>1
    <3>2. f[k + 1] = NextRepair(n, f[k])
      BY <3>1, <1>6
    <3>3. f[k] \in Repairs(s) /\ f[k + 1] \in Repairs(s)
      BY <3>1
    <3>4. \/ f[k + 1] = f[k] /\ FirstOpen(f[k].text, n, f[k].pos) = 0
          \/ f[k + 1].pos > f[k].pos
      BY <3>2, <3>3, NextRepairTyped
    <3>5. f[k].pos \in Nat /\ f[k + 1].pos \in Nat
      BY <3>3 DEF Repairs, Positive
    <3>6. CASE f[k].pos > k
      BY <3>1, <3>4, <3>5, <3>6
    <3>7. CASE FirstOpen(f[k].text, n, f[k].pos) = 0
      <4>1. f[k + 1] = f[k]
        BY <3>2, <3>7, NextRepairIs
      <4> QED
        BY <4>1, <3>7
    <3>8. f[k].pos > k \/ FirstOpen(f[k].text, n, f[k].pos) = 0
      BY <3>1
    <3> QED
      BY <3>6, <3>7, <3>8
  <2>3. Far \subseteq Nat
    OBVIOUS
  <2> HIDE DEF Far
  <2> QED
    BY <2>1, <2>2, <2>3, AllNumbers
<1> DEFINE last == f[Len(s)]
<1>13. last \in Repairs(s) /\ last \in I
  BY <1>1, <1>11
<1>14. FirstOpen(last.text, n, last.pos) = 0 \/ last.pos > Len(s)
  BY <1>1, <1>12
<1> HIDE DEF last
<1>15. FirstOpen(last.text, n, last.pos) = 0
  <2>1. last.text \in Line /\ Len(last.text) = Len(s) /\ last.pos \in Nat \ {0}
    BY <1>13 DEF Repairs, Alike, Positive
  <2>2. \/ FirstOpen(last.text, n, last.pos) = 0
        \/ FirstOpen(last.text, n, last.pos) \in last.pos .. Len(last.text)
    BY <2>1, FindOpen
  <2>3. last.pos > Len(s) => last.pos .. Len(last.text) = {}
    BY <2>1, <1>1
  <2> QED
    BY <2>2, <2>3, <1>14
<1> QED
  BY <1>3, <1>10, <1>13, <1>15 DEF last

-----------------------------------------------------------------------------
(* What every turn keeps: all but closing tags, and those closing tags     *)
(* that are right.                                                         *)

Matched(s, i, j) == Leaf(s, i, j) /\ s[j][2] = s[i][2] /\ s[i][2] \in Known

Kept(s, t) ==
  /\ t \in Alike(s)
  /\ \A k \in 1 .. Len(s) : s[k][1] # "close" => t[k] = s[k]
  /\ \A k \in 1 .. Len(s) : s[k][1] = "close" => t[k][1] = "close"
  /\ \A i, j \in 1 .. Len(s) : Matched(s, i, j) => t[j] = s[j]

\* A closing tag that is right is never the one that is repaired: an opener
\* inside accounts for it, or it is the one the search begins with.
LEMMA NotRepaired ==
  ASSUME NEW t \in Line, NEW n, NEW pos \in Positive,
         NEW start, start = FirstOpen(t, n, pos), start # 0,
         NEW correct, correct = FirstClose(t, n, start),
         NEW next, next = FirstOpen(t, n, start + 1),
         ~(correct # 0 /\ (next = 0 \/ correct < next)),
         NEW i \in 1 .. Len(t), NEW j \in 1 .. Len(t), Matched(t, i, j),
         BadCloser(t, start) = j
  PROVE  FALSE
<1>1. /\ i < j /\ t[i][1] = "open" /\ t[j][1] = "close"
      /\ \A k \in i + 1 .. j - 1 : ~IsTag(t[k])
      /\ t[j][2] = t[i][2] /\ t[i][2] \in Known
  BY DEF Matched, Leaf
<1>2. Len(t) \in Nat /\ i \in Nat /\ j \in Nat /\ j # 0
  BY DEF Line
<1>3. start \in pos .. Len(t) /\ IsOpen(t[start], n) /\ pos \in Nat \ {0}
  BY FindOpen DEF Positive
<1>4. start \in Nat \ {0}
  BY <1>2, <1>3
<1>5. j \in Closers(t, start) /\ ~Inner(t, start, j)
  BY <1>2, <1>4, FindBad
<1>6. start < j
  BY <1>2, <1>4, <1>5 DEF Closers
<1> DEFINE b == Before(t, start, j)
<1>7. /\ b = start \/ (b \in Closers(t, start) /\ b < j)
      /\ b \in Nat /\ start <= b
  <2>1. start \in Nat
    BY <1>4
  <2>2. /\ b \in {start} \cup {q \in Closers(t, start) : q < j}
        /\ start <= b /\ b \in Nat
    BY <2>1, <1>5, BeforeIs
  <2> HIDE DEF b
  <2> QED
    BY <2>2
<1>8. i <= b
  <2>1. \A q \in b + 1 .. j - 1 : ~Opens(t[q], t[j][2])
    BY <1>1, <1>5 DEF Inner
  <2>2. Opens(t[i], t[j][2])
    BY <1>1 DEF Opens, IsOpen
  <2> HIDE DEF b
  <2>3. b < i => i \in b + 1 .. j - 1
    BY <1>1, <1>2, <1>7
  <2> QED
    BY <2>1, <2>2, <2>3, <1>2, <1>7
<1> HIDE DEF b
<1>9. i = start
  <2>1. ASSUME NEW k \in Nat, i <= k, k < j, IsTag(t[k])
        PROVE  k = i
    BY <1>1, <1>2, <2>1
  <2>2. ASSUME b \in Closers(t, start), b < j
        PROVE  FALSE
    <3>1. t[b][1] = "close" /\ IsTag(t[b])
      BY <2>2 DEF Closers, IsTag
    <3>2. b = i
      BY <2>1, <2>2, <3>1, <1>7, <1>8
    <3> QED
      BY <3>1, <3>2, <1>1
  <2>3. b = start
    BY <1>7, <2>2
  <2>4. IsTag(t[start])
    BY <1>3 DEF IsTag, IsOpen
  <2> QED
    BY <2>1, <2>3, <2>4, <1>4, <1>6, <1>8
<1>10. t[i][2] = n /\ IsClose(t[j], n)
  BY <1>1, <1>3, <1>9 DEF IsOpen, IsClose
<1>11. correct = j
  <2>1. j \in start .. Len(t)
    BY <1>2, <1>4, <1>6
  <2>2. /\ correct \in start .. Len(t) /\ IsClose(t[correct], n) /\ correct <= j
    BY <2>1, <1>4, <1>10, FindClose
  <2>3. correct # i
    BY <2>2, <1>1 DEF IsClose
  <2>4. ~(correct \in i + 1 .. j - 1)
    BY <2>2, <1>1 DEF IsClose, IsTag
  <2> QED
    BY <2>2, <2>3, <2>4, <1>2, <1>9
<1>12. next = 0 \/ j < next
  <2>1. start + 1 \in Nat \ {0}
    BY <1>4
  <2>2. next = 0 \/ (next \in start + 1 .. Len(t) /\ IsOpen(t[next], n))
    BY <2>1, FindOpen
  <2>3. CASE next # 0
    <3>1. next \in start + 1 .. Len(t) /\ t[next][1] = "open"
      BY <2>2, <2>3 DEF IsOpen
    <3>2. next # j
      BY <3>1, <1>1
    <3>3. ~(next \in i + 1 .. j - 1)
      BY <3>1, <1>1 DEF IsTag
    <3> QED
      BY <3>1, <3>2, <3>3, <1>2, <1>4, <1>9
  <2> QED
    BY <2>3
<1> QED
  BY <1>2, <1>11, <1>12

\* What one turn does to the text.
LEMMA TurnText ==
  ASSUME NEW s \in Line, NEW n \in Blocks, NEW at \in Repairs(s)
  PROVE  \/ NextRepair(n, at).text = at.text
         \/ \E bad \in 1 .. Len(s) :
              /\ at.text[bad][1] = "close"
              /\ NextRepair(n, at).text = [at.text EXCEPT ![bad] = Close(n)]
              /\ \A i, j \in 1 .. Len(s) : Matched(at.text, i, j) => bad # j
<1> DEFINE t == at.text
           start == FirstOpen(t, n, at.pos)
           correct == FirstClose(t, n, start)
           next == FirstOpen(t, n, start + 1)
           bad == BadCloser(t, start)
           good == correct # 0 /\ (next = 0 \/ correct < next)
<1>1. t \in Line /\ Len(t) = Len(s) /\ at.pos \in Positive /\ Len(s) \in Nat
      /\ at.pos \in Nat \ {0}
  BY DEF Repairs, Alike, Positive, Line
<1>2. CASE start = 0
  BY <1>2, NextRepairIs
<1>3. CASE start # 0 /\ good
  <2>1. NextRepair(n, at) = [at EXCEPT !.pos = correct + 1]
    BY <1>3, NextRepairIs
  <2> QED
    BY <2>1 DEF Repairs
<1>4. CASE start # 0 /\ ~good /\ bad = 0
  <2>1. NextRepair(n, at) = [at EXCEPT !.pos = Len(at.text) + 1]
    BY <1>4, NextRepairIs
  <2> QED
    BY <2>1 DEF Repairs
<1>5. CASE start # 0 /\ ~good /\ bad # 0
  <2>1. NextRepair(n, at).text = [t EXCEPT ![bad] = Close(n)]
    BY <1>5, NextRepairIs
  <2>2. start \in at.pos .. Len(t)
    <3> HIDE DEF t
    <3> QED
      BY <1>1, <1>5, FindOpen
  <2>3. start \in Nat
    BY <1>1, <2>2
  <2>4. bad \in Closers(t, start)
    <3> HIDE DEF t, start
    <3> QED
      BY <1>1, <1>5, <2>3, FindBad
  <2>5. bad \in 1 .. Len(s) /\ t[bad][1] = "close"
    <3> HIDE DEF t, start, bad
    <3> QED
      BY <1>1, <2>3, <2>4 DEF Closers
  <2>6. ASSUME NEW i \in 1 .. Len(s), NEW j \in 1 .. Len(s), Matched(t, i, j), bad = j
        PROVE  FALSE
    <3>1. i \in 1 .. Len(t) /\ j \in 1 .. Len(t)
      BY <1>1
    <3> HIDE DEF t
    <3> QED
      BY <1>1, <1>5, <2>6, <3>1, NotRepaired
  <2> HIDE DEF bad
  <2> QED
    BY <2>1, <2>5, <2>6
<1> QED
  BY <1>2, <1>3, <1>4, <1>5

LEMMA KeptTurn ==
  ASSUME NEW s \in Line, NEW n \in Blocks, NEW at \in Repairs(s), Kept(s, at.text)
  PROVE  Kept(s, NextRepair(n, at).text)
<1> DEFINE t == at.text
           u == NextRepair(n, at).text
<1>1. t \in Line /\ Len(t) = Len(s) /\ u \in Alike(s) /\ Len(s) \in Nat
  BY NextRepairTyped DEF Repairs, Alike, Line
<1>2. CASE u = t
  BY <1>2
<1>3. ASSUME NEW bad \in 1 .. Len(s), t[bad][1] = "close", u = [t EXCEPT ![bad] = Close(n)],
             \A i, j \in 1 .. Len(s) : Matched(t, i, j) => bad # j
      PROVE  Kept(s, u)
  <2>1. t \in Seq(Lexeme) /\ Close(n) \in Lexeme /\ bad \in 1 .. Len(t)
    BY <1>1, CloserTyped DEF Line
  <2>2. u[bad] = Close(n) /\ \A k \in 1 .. Len(s) : k # bad => u[k] = t[k]
    BY <1>1, <1>3, <2>1, Put
  <2>3. u[bad][1] = "close"
    <3>1. Close(n)[1] = "close"
      BY DEF Close
    <3> HIDE DEF u
    <3> QED
      BY <2>2, <3>1
  <2>4. s[bad][1] = "close"
    BY <1>3 DEF Kept
  <2>5. ASSUME NEW i \in 1 .. Len(s), NEW j \in 1 .. Len(s), Matched(s, i, j)
        PROVE  u[j] = s[j]
    <3>1. t[j] = s[j]
      BY <2>5 DEF Kept
    <3>2. t[i] = s[i]
      BY <2>5 DEF Kept, Matched, Leaf
    <3>3. ASSUME NEW k \in i + 1 .. j - 1
          PROVE  ~IsTag(t[k])
      <4>1. k \in 1 .. Len(s)
        BY <1>1
      <4>2. ~IsTag(s[k])
        BY <2>5 DEF Matched, Leaf
      <4>3. s[k][1] # "close"
        BY <4>2 DEF IsTag
      <4> QED
        BY <4>1, <4>2, <4>3 DEF Kept
    <3>4. Matched(t, i, j)
      BY <2>5, <3>1, <3>2, <3>3 DEF Matched, Leaf
    <3>5. bad # j
      BY <1>3, <3>4
    <3> QED
      BY <2>2, <3>1, <3>5
  <2>6. \A k \in 1 .. Len(s) : s[k][1] # "close" => u[k] = s[k]
    BY <2>2, <2>4 DEF Kept
  <2>7. \A k \in 1 .. Len(s) : s[k][1] = "close" => u[k][1] = "close"
    BY <2>2, <2>3 DEF Kept
  <2> HIDE DEF u
  <2> QED
    BY <1>1, <2>5, <2>6, <2>7 DEF Kept
<1> HIDE DEF t, u
<1>4. \/ u = t
      \/ \E bad \in 1 .. Len(s) :
              /\ t[bad][1] = "close"
              /\ u = [t EXCEPT ![bad] = Close(n)]
              /\ \A i, j \in 1 .. Len(s) : Matched(t, i, j) => bad # j
  BY TurnText DEF t, u
<1> QED
  BY <1>2, <1>3, <1>4 DEF t, u

LEMMA KeptKind ==
  ASSUME NEW s \in Line, NEW n \in Blocks, NEW t, Kept(s, t)
  PROVE  Kept(s, RepairKind(t, n))
<1> DEFINE I == {at \in Repairs(s) : Kept(s, at.text)}
<1>1. t \in Line /\ Len(t) = Len(s) /\ t \in Alike(s)
  BY DEF Kept, Alike
<1>2. Repairs(t) = Repairs(s)
  BY <1>1 DEF Repairs, Alike
<1>3. [text |-> t, pos |-> 1] \in I
  BY <1>1 DEF Repairs, Positive
<1>4. \A at \in Repairs(t) : at \in I => NextRepair(n, at) \in I
  BY <1>2, KeptTurn, NextRepairTyped
<1> HIDE DEF I
<1>5. PICK at \in Repairs(t) : at \in I /\ RepairKind(t, n) = at.text
  BY <1>1, <1>3, <1>4, RepairEnds
<1> QED
  BY <1>5 DEF I

\* The kinds, one after another.
LEMMA FixIs ==
  ASSUME NEW s
  PROVE  fix_malformed_tags(s) =
           RepairKind(RepairKind(RepairKind(RepairKind(s, "exec"), "write"), "str_replace"),
                      "search")
<1> DEFINE a == RepairKind(s, "exec")
           b == RepairKind(a, "write")
           c == RepairKind(b, "str_replace")
           d == RepairKind(c, "search")
           Step(f) == [k \in 0 .. Len(Repaired) |->
                         IF k = 0 THEN s ELSE RepairKind(f[k - 1], Repaired[k])]
           F == CHOOSE f : f = Step(f)
           h == [k \in 0 .. 4 |-> IF k = 0 THEN s ELSE IF k = 1 THEN a ELSE IF k = 2 THEN b
                                  ELSE IF k = 3 THEN c ELSE d]
<1>1. /\ Len(Repaired) = 4 /\ Repaired[1] = "exec" /\ Repaired[2] = "write"
      /\ Repaired[3] = "str_replace" /\ Repaired[4] = "search"
  BY DEF Repaired
<1>2. fix_malformed_tags(s) = F[Len(Repaired)]
  BY DEF fix_malformed_tags
<1>3. h[0] = s /\ h[1] = a /\ h[2] = b /\ h[3] = c /\ h[4] = d
  OBVIOUS
<1>4. h = Step(h)
  <2>1. ASSUME NEW k \in 0 .. 4
        PROVE  h[k] = IF k = 0 THEN s ELSE RepairKind(h[k - 1], Repaired[k])
    <3> HIDE DEF h
    <3>1. k = 0 \/ k = 1 \/ k = 2 \/ k = 3 \/ k = 4
      OBVIOUS
    <3>2. CASE k = 1
      BY <1>1, <1>3, <3>2
    <3>3. CASE k = 2
      BY <1>1, <1>3, <3>3
    <3>4. CASE k = 3
      BY <1>1, <1>3, <3>4
    <3>5. CASE k = 4
      BY <1>1, <1>3, <3>5
    <3>6. CASE k = 0
      BY <1>3, <3>6
    <3> QED
      BY <3>1, <3>2, <3>3, <3>4, <3>5, <3>6
  <2> QED
    BY <1>1, <2>1
<1>5. F = Step(F)
  <2> HIDE DEF Step
  <2> QED
    BY <1>4
<1>6. \A k \in 0 .. 4 : F[k] = IF k = 0 THEN s ELSE RepairKind(F[k - 1], Repaired[k])
  <2> HIDE DEF F
  <2> QED
    BY <1>1, <1>5
<1> HIDE DEF F
<1>7. F[0] = s
  BY <1>6
<1>8. F[1] = a
  BY <1>1, <1>6, <1>7
<1>9. F[2] = b
  <2> HIDE DEF a
  <2> QED
    BY <1>1, <1>6, <1>8
<1>10. F[3] = c
  <2> HIDE DEF b
  <2> QED
    BY <1>1, <1>6, <1>9
<1>11. F[4] = d
  <2> HIDE DEF c
  <2> QED
    BY <1>1, <1>6, <1>10
<1> QED
  BY <1>1, <1>2, <1>11

LEMMA KindsAreBlocks ==
  /\ "exec" \in Blocks /\ "write" \in Blocks /\ "str_replace" \in Blocks /\ "search" \in Blocks
BY DEF Blocks

\* The repair changes closing tags only, and none that is right.
LEMMA FixKeeps ==
  ASSUME NEW s \in Line
  PROVE  Kept(s, fix_malformed_tags(s))
<1>1. Kept(s, s)
  BY DEF Kept, Alike
<1> QED
  BY <1>1, FixIs, KeptKind, KindsAreBlocks

-----------------------------------------------------------------------------
(* The blocks that are found, turn by turn.                                *)

Found == [path : Paths, content : Line]
Scans == [blocks : Seq(Found), pos : Positive]
NoBlocks == [blocks |-> <<>>, pos |-> 1]

\* One turn, by cases.
LEMMA NextBlockIs ==
  ASSUME NEW s, NEW n, NEW at,
         NEW start, start = FirstOpen(s, n, at.pos),
         NEW end, end = FirstClose(s, n, start + 1)
  PROVE  /\ start = 0 \/ end = 0 => NextBlock(s, n, at) = [at EXCEPT !.pos = Len(s) + 1]
         /\ start # 0 /\ end # 0 =>
              NextBlock(s, n, at) =
                [blocks |-> Append(at.blocks, [path |-> s[start][3],
                                               content |-> SubSeq(s, start + 1, end - 1)]),
                 pos |-> end + 1]
BY DEF NextBlock

\* A mark is no tag.
LEMMA MarksAreNoTags ==
  \A y \in Marks : y[1] # "open" /\ y[1] # "close"
<1>1. \A m : Mark(m)[1] = m
  BY DEF Mark
<1>2. /\ Word[1] = "word" /\ Nl[1] = "nl" /\ Blank[1] = "blank" /\ Bar[1] = "bar"
      /\ Fence[1] = "fence" /\ Mermaid[1] = "mermaid" /\ Hash[1] = "hash" /\ Quote[1] = "quote"
      /\ Dash[1] = "dash" /\ Rule[1] = "rule" /\ Address[1] = "address"
      /\ FirstHalf[1] = "first half" /\ OtherHalf[1] = "other half" /\ Masked[1] = "masked"
  <2> HIDE DEF Mark
  <2> QED
    BY <1>1 DEF Word, Nl, Blank, Bar, Fence, Mermaid, Hash, Quote, Dash, Rule, Address,
                FirstHalf, OtherHalf, Masked
<1> HIDE DEF Word, Nl, Blank, Bar, Fence, Mermaid, Hash, Quote, Dash, Rule, Address,
             FirstHalf, OtherHalf, Masked
<1> QED
  BY <1>2 DEF Marks

\* An opening tag names one of the files.
LEMMA OpenerNames ==
  ASSUME NEW x \in Lexeme, NEW n, IsOpen(x, n)
  PROVE  x[3] \in Paths
<1>1. \A y \in Marks : y[1] # "open"
  BY MarksAreNoTags
<1>2. \A m : Close(m)[1] = "close"
  BY DEF Close
<1>3. \A m, p : Self(m, p)[1] = "self" /\ Open(m, p)[3] = p
  BY DEF Self, Open
<1>4. x \notin Marks
  BY <1>1 DEF IsOpen
<1>5. x \in Tags(Paths)
  BY <1>4 DEF Lexeme
<1>6. \/ \E m \in Blocks, p \in Paths : x = Open(m, p)
      \/ \E m \in Blocks \cup {Foreign} : x = Close(m)
      \/ \E m \in Selves, p \in Paths : x = Self(m, p)
  <2> HIDE DEF Blocks, Selves, Foreign, Open, Close, Self
  <2> QED
    BY <1>5 DEF Tags
<1>7. x[1] = "open"
  BY DEF IsOpen
<1> QED
  BY <1>2, <1>3, <1>6, <1>7

LEMMA NextBlockTyped ==
  ASSUME NEW s \in Line, NEW n, NEW at \in Scans
  PROVE  NextBlock(s, n, at) \in Scans
<1> DEFINE start == FirstOpen(s, n, at.pos)
           end == FirstClose(s, n, start + 1)
<1>1. at = [blocks |-> at.blocks, pos |-> at.pos] /\ at.blocks \in Seq(Found)
      /\ at.pos \in Nat \ {0} /\ Len(s) \in Nat
  BY DEF Scans, Positive, Line
<1>2. CASE start = 0 \/ end = 0
  <2>1. NextBlock(s, n, at) = [at EXCEPT !.pos = Len(s) + 1]
    BY <1>2 DEF NextBlock
  <2>2. Len(s) + 1 \in Positive
    BY <1>1 DEF Positive
  <2> QED
    BY <1>1, <2>1, <2>2 DEF Scans
<1>3. CASE start # 0 /\ end # 0
  <2>1. start \in at.pos .. Len(s) /\ IsOpen(s[start], n)
    BY <1>1, <1>3, FindOpen
  <2> DEFINE b == [path |-> s[start][3], content |-> SubSeq(s, start + 1, end - 1)]
  <2>2. NextBlock(s, n, at) = [blocks |-> Append(at.blocks, b), pos |-> end + 1]
    BY <1>3, NextBlockIs
  <2> HIDE DEF start
  <2>3. start \in 1 .. Len(s) /\ start + 1 \in Nat \ {0}
    BY <1>1, <2>1
  <2>4. end \in start + 1 .. Len(s)
    BY <1>3, <2>3, FindClose
  <2> HIDE DEF end
  <2>5. end - 1 \in 0 .. Len(s) /\ end + 1 \in Positive
    BY <1>1, <2>3, <2>4 DEF Positive
  <2>6. SubSeq(s, start + 1, end - 1) \in Line
    <3>1. s \in Seq(Lexeme) /\ start + 1 \in 1 .. Len(s) + 1 /\ end - 1 \in 0 .. Len(s)
      BY <1>1, <2>3, <2>5 DEF Line
    <3>2. \A a \in 1 .. Len(s) + 1, z \in 0 .. Len(s) : SubSeq(s, a, z) \in Seq(Lexeme)
      BY <3>1
    <3> QED BY <3>1, <3>2 DEF Line
  <2>7. s[start] \in Lexeme
    BY <2>3 DEF Line
  <2>8. b \in Found
    BY <2>1, <2>6, <2>7, OpenerNames DEF Found
  <2> HIDE DEF b
  <2>9. Append(at.blocks, b) \in Seq(Found)
    BY <1>1, <2>8
  <2> QED
    BY <2>2, <2>5, <2>9 DEF Scans
<1> QED
  BY <1>2, <1>3

\* The turns of the search for blocks.
Scanned(f, s, n) ==
  /\ f \in [0 .. Len(s) -> Scans]
  /\ f[0] = NoBlocks
  /\ \A k \in 1 .. Len(s) : f[k] = NextBlock(s, n, f[k - 1])

LEMMA BlocksAre ==
  ASSUME NEW s \in Line, NEW n
  PROVE  \E f : Scanned(f, s, n) /\ BlocksIn(s, n) = f[Len(s)].blocks
<1> DEFINE g == [at \in Scans |-> NextBlock(s, n, at)]
           Step(f) == [k \in 0 .. Len(s) |-> IF k = 0 THEN NoBlocks ELSE NextBlock(s, n, f[k - 1])]
           F == CHOOSE f : f = Step(f)
<1>1. NoBlocks \in Scans /\ Len(s) \in Nat
  BY DEF Scans, Positive, Line, NoBlocks
<1>2. \A at \in Scans : g[at] = NextBlock(s, n, at) /\ g[at] \in Scans
  BY NextBlockTyped
<1>3. BlocksIn(s, n) = F[Len(s)].blocks
  BY DEF BlocksIn, Repeat, NoBlocks
<1> HIDE DEF g
<1>4. PICK f \in [0 .. Len(s) -> Scans] :
        f[0] = NoBlocks /\ \A k \in 1 .. Len(s) : f[k] = g[f[k - 1]]
  <2>1. Turning(g, Scans)
    BY <1>2 DEF Turning
  <2>2. NoBlocks \in Scans
    BY <1>1
  <2>3. Len(s) \in Nat
    BY <1>1
  <2>4. Turned(NoBlocks, g, Len(s), Scans)
    BY <2>1, <2>2, <2>3, Turns
  <2> QED
    BY <2>4 DEF Turned
<1>5. \A k \in 1 .. Len(s) : k - 1 \in 0 .. Len(s) /\ k \in 0 .. Len(s) /\ k # 0
  BY <1>1
<1>6. \A k \in 1 .. Len(s) : f[k] = NextBlock(s, n, f[k - 1])
  BY <1>2, <1>4, <1>5
<1>7. f = Step(f)
  <2>1. \A k \in 0 .. Len(s) : f[k] = IF k = 0 THEN NoBlocks ELSE NextBlock(s, n, f[k - 1])
    BY <1>1, <1>4, <1>6
  <2> QED
    BY <1>4, <2>1
<1>8. F = Step(F)
  <2> HIDE DEF Step
  <2> QED
    BY <1>7
<1>9. \A k \in 0 .. Len(s) : F[k] = IF k = 0 THEN NoBlocks ELSE NextBlock(s, n, F[k - 1])
  <2> HIDE DEF F
  <2> QED
    BY <1>8
<1> HIDE DEF F
<1>10. F[Len(s)] = f[Len(s)]
  <2>1. F[0] = f[0]
    BY <1>1, <1>4, <1>9
  <2>2. \A k \in 1 .. Len(s) : F[k - 1] = f[k - 1] => F[k] = f[k]
    BY <1>5, <1>6, <1>9
  <2> QED
    BY <1>1, <2>1, <2>2, Agree
<1> QED
  BY <1>3, <1>4, <1>6, <1>10 DEF Scanned

\* A turn takes no block away.
LEMMA BlocksGrow ==
  ASSUME NEW s, NEW n, NEW at \in Scans, NextBlock(s, n, at) \in Scans
  PROVE  LET to == NextBlock(s, n, at).blocks
         IN /\ Len(at.blocks) <= Len(to) /\ Len(to) <= Len(at.blocks) + 1
            /\ \A k \in DOMAIN at.blocks : k \in DOMAIN to /\ to[k] = at.blocks[k]
<1> DEFINE start == FirstOpen(s, n, at.pos)
           end == FirstClose(s, n, start + 1)
           b == [path |-> s[start][3], content |-> SubSeq(s, start + 1, end - 1)]
<1>1. /\ start = 0 \/ end = 0 => NextBlock(s, n, at) = [at EXCEPT !.pos = Len(s) + 1]
      /\ start # 0 /\ end # 0 =>
           NextBlock(s, n, at) = [blocks |-> Append(at.blocks, b), pos |-> end + 1]
  BY NextBlockIs
<1>2. at.blocks \in Seq(Found) /\ Len(at.blocks) \in Nat
      /\ NextBlock(s, n, at).blocks \in Seq(Found)
  BY DEF Scans
<1> HIDE DEF start, end, b
<1>3. CASE start = 0 \/ end = 0
  <2>1. NextBlock(s, n, at).blocks = at.blocks
    BY <1>1, <1>3 DEF Scans
  <2> QED
    BY <1>2, <2>1
<1>4. CASE start # 0 /\ end # 0
  <2>1. NextBlock(s, n, at).blocks = Append(at.blocks, b)
    BY <1>1, <1>4
  <2>2. Len(Append(at.blocks, b)) = Len(at.blocks) + 1
    BY <1>2
  <2>3. \A k \in DOMAIN at.blocks : k \in DOMAIN Append(at.blocks, b)
                                     /\ Append(at.blocks, b)[k] = at.blocks[k]
    BY <1>2
  <2> QED
    BY <1>2, <2>1, <2>2, <2>3
<1> QED
  BY <1>3, <1>4

-----------------------------------------------------------------------------
(* A block without a tag inside is found in the repaired text as well.     *)

Plain(b) == \A j \in DOMAIN b.content : ~IsTag(b.content[j])

\* No opening tag comes or goes.
LEMMA SameOpen ==
  ASSUME NEW s \in Line, NEW t, Kept(s, t), NEW n, NEW from \in Positive
  PROVE  FirstOpen(t, n, from) = FirstOpen(s, n, from)
<1>1. Len(t) = Len(s) /\ Len(s) \in Nat
  BY DEF Kept, Alike, Line
<1>2. \A i \in from .. Len(s) : IsOpen(t[i], n) <=> IsOpen(s[i], n)
  <2>1. \A i \in from .. Len(s) : i \in 1 .. Len(s)
    BY <1>1 DEF Positive
  <2>2. \A i \in 1 .. Len(s) : t[i] = s[i] \/ (t[i][1] = "close" /\ s[i][1] = "close")
    BY DEF Kept
  <2> QED
    BY <2>1, <2>2 DEF IsOpen
<1>3. {i \in from .. Len(t) : IsOpen(t[i], n)} = {i \in from .. Len(s) : IsOpen(s[i], n)}
  BY <1>1, <1>2
<1> QED
  BY <1>3 DEF FirstOpen, First

LEMMA SameText ==
  ASSUME NEW s \in Line, NEW t \in Line, NEW a \in Nat \ {0}, NEW b \in Nat,
         b <= Len(s), Len(t) = Len(s), \A k \in a .. b : t[k] = s[k]
  PROVE  SubSeq(t, a, b) = SubSeq(s, a, b)
<1>1. SubSeq(t, a, b) = [i \in 1 .. (1 + b) - a |-> t[i + a - 1]]
  BY DEF Line
<1>2. SubSeq(s, a, b) = [i \in 1 .. (1 + b) - a |-> s[i + a - 1]]
  BY DEF Line
<1>3. \A i \in 1 .. (1 + b) - a : i + a - 1 \in a .. b
  OBVIOUS
<1> QED
  BY <1>1, <1>2, <1>3

LEMMA SameTurn ==
  ASSUME NEW s \in Line, NEW t \in Line, Kept(s, t), NEW n \in Known, NEW at \in Scans
  PROVE  LET to == NextBlock(s, n, at)
         IN \/ to = [at EXCEPT !.pos = Len(s) + 1]
            \/ Len(to.blocks) = Len(at.blocks) + 1 /\ ~Plain(to.blocks[Len(to.blocks)])
            \/ NextBlock(t, n, at) = to
<1> DEFINE start == FirstOpen(s, n, at.pos)
           end == FirstClose(s, n, start + 1)
           b == [path |-> s[start][3], content |-> SubSeq(s, start + 1, end - 1)]
           last == FirstClose(t, n, start + 1)
           c == [path |-> t[start][3], content |-> SubSeq(t, start + 1, last - 1)]
           to == NextBlock(s, n, at)
<1>1. at.blocks \in Seq(Found) /\ at.pos \in Nat \ {0} /\ Len(s) \in Nat /\ Len(t) = Len(s)
      /\ at.pos \in Positive
  BY DEF Scans, Positive, Line, Kept, Alike
<1>2. /\ start = 0 \/ end = 0 => to = [at EXCEPT !.pos = Len(s) + 1]
      /\ start # 0 /\ end # 0 => to = [blocks |-> Append(at.blocks, b), pos |-> end + 1]
  BY NextBlockIs
<1>3. start # 0 /\ last # 0 =>
        NextBlock(t, n, at) = [blocks |-> Append(at.blocks, c), pos |-> last + 1]
  BY <1>1, SameOpen, NextBlockIs
<1> SUFFICES ASSUME start # 0, end # 0, Plain(b)
             PROVE  NextBlock(t, n, at) = to
  <2>1. CASE start # 0 /\ end # 0 /\ ~Plain(b)
    <3>1. to.blocks = Append(at.blocks, b)
      BY <1>2, <2>1
    <3> HIDE DEF b, to, start, end
    <3>2. Len(Append(at.blocks, b)) = Len(at.blocks) + 1
          /\ Append(at.blocks, b)[Len(at.blocks) + 1] = b
      BY <1>1
    <3> QED
      BY <2>1, <3>1, <3>2 DEF to
  <2> HIDE DEF b, start, end
  <2> QED
    BY <2>1, <1>2
<1>4. start \in at.pos .. Len(s) /\ IsOpen(s[start], n)
  BY <1>1, FindOpen
<1> HIDE DEF to, start
<1>5. start \in Nat \ {0} /\ start \in 1 .. Len(s) /\ start + 1 \in Nat \ {0}
  BY <1>1, <1>4
<1>6. end \in start + 1 .. Len(s) /\ IsClose(s[end], n)
  BY <1>5, FindClose
<1> HIDE DEF end
<1>7. end \in Nat \ {0} /\ end \in 1 .. Len(s) /\ end - 1 \in Nat /\ start < end
  BY <1>1, <1>5, <1>6
<1>8. \A k \in start + 1 .. end - 1 : ~IsTag(s[k])
  <2> TAKE k \in start + 1 .. end - 1
  <2>1. SubSeq(s, start + 1, end - 1) = [i \in 1 .. end - 1 - start |-> s[i + start]]
    BY <1>1, <1>5, <1>7 DEF Line
  <2>2. k - start \in 1 .. end - 1 - start /\ (k - start) + start = k
    BY <1>5, <1>7
  <2>3. ~IsTag(SubSeq(s, start + 1, end - 1)[k - start])
    BY <2>1, <2>2 DEF Plain
  <2> QED
    BY <2>1, <2>2, <2>3
<1>9. Matched(s, start, end)
  BY <1>4, <1>6, <1>7, <1>8 DEF Matched, Leaf, IsOpen, IsClose
<1>10. t[end] = s[end]
  BY <1>5, <1>7, <1>9 DEF Kept
<1>11. \A k \in start + 1 .. end - 1 : t[k] = s[k]
  <2> TAKE k \in start + 1 .. end - 1
  <2>1. k \in 1 .. Len(s) /\ s[k][1] # "close"
    BY <1>1, <1>5, <1>7, <1>8 DEF IsTag
  <2> QED
    BY <2>1 DEF Kept
<1>12. last = end
  <2>1. end \in start + 1 .. Len(t) /\ IsClose(t[end], n)
    BY <1>1, <1>6, <1>10
  <2>2. last \in start + 1 .. Len(t) /\ IsClose(t[last], n) /\ last <= end
    BY <1>5, <2>1, FindClose
  <2> HIDE DEF last
  <2>3. ~(last \in start + 1 .. end - 1)
    BY <2>2, <1>8, <1>11 DEF IsClose, IsTag
  <2> QED
    BY <2>2, <2>3, <1>1, <1>5, <1>7
<1>13. t[start] = s[start]
  BY <1>4, <1>5 DEF Kept, IsOpen
<1>14. SubSeq(t, start + 1, end - 1) = SubSeq(s, start + 1, end - 1)
  <2>1. end - 1 <= Len(s)
    BY <1>1, <1>7
  <2> QED
    BY <1>1, <1>5, <1>7, <1>11, <2>1, SameText
<1>15. c = b
  BY <1>12, <1>13, <1>14
<1> HIDE DEF b, c, last
<1> QED
  BY <1>2, <1>3, <1>5, <1>7, <1>12, <1>15

\* What a turn finds in the text, it finds in the repaired text, as long as no
\* block had a tag inside; until nothing more is found.
Tracks(s, a, b) ==
  /\ \A k \in DOMAIN a.blocks : (\A i \in 1 .. k : Plain(a.blocks[i])) =>
       k \in DOMAIN b.blocks /\ b.blocks[k] = a.blocks[k]
  /\ (\A i \in DOMAIN a.blocks : Plain(a.blocks[i])) => b = a \/ a.pos = Len(s) + 1

LEMMA NoMore ==
  ASSUME NEW s \in Line, NEW n, NEW at \in Scans, at.pos = Len(s) + 1
  PROVE  NextBlock(s, n, at) = [at EXCEPT !.pos = Len(s) + 1]
<1>1. Len(s) \in Nat /\ at.pos \in Nat \ {0}
  BY DEF Line
<1>2. \/ FirstOpen(s, n, at.pos) = 0
      \/ FirstOpen(s, n, at.pos) \in at.pos .. Len(s)
  BY <1>1, FindOpen
<1>3. FirstOpen(s, n, at.pos) = 0
  <2>1. at.pos .. Len(s) = {}
    BY <1>1
  <2> QED
    BY <1>2, <2>1
<1> QED
  BY <1>3 DEF NextBlock

LEMMA TracksOn ==
  ASSUME NEW s \in Line, NEW t \in Line, Kept(s, t), NEW n \in Known,
         NEW a \in Scans, NEW b \in Scans, Tracks(s, a, b)
  PROVE  Tracks(s, NextBlock(s, n, a), NextBlock(t, n, b))
<1> DEFINE c == NextBlock(s, n, a)
           d == NextBlock(t, n, b)
<1>1. c \in Scans /\ d \in Scans
  BY NextBlockTyped
<1>2. /\ a.blocks \in Seq(Found) /\ b.blocks \in Seq(Found)
      /\ c.blocks \in Seq(Found) /\ d.blocks \in Seq(Found)
  BY <1>1 DEF Scans
<1>3. /\ Len(a.blocks) <= Len(c.blocks) /\ Len(c.blocks) <= Len(a.blocks) + 1
      /\ \A k \in DOMAIN a.blocks : k \in DOMAIN c.blocks /\ c.blocks[k] = a.blocks[k]
  BY <1>1, BlocksGrow
<1>4. \A k \in DOMAIN b.blocks : k \in DOMAIN d.blocks /\ d.blocks[k] = b.blocks[k]
  BY <1>1, BlocksGrow
<1>5. \/ c = [a EXCEPT !.pos = Len(s) + 1]
      \/ Len(c.blocks) = Len(a.blocks) + 1 /\ ~Plain(c.blocks[Len(c.blocks)])
      \/ NextBlock(t, n, a) = c
  BY SameTurn
<1>6. a.pos = Len(s) + 1 => c = [a EXCEPT !.pos = Len(s) + 1]
  BY NoMore
<1> HIDE DEF c, d
<1>7. c = [a EXCEPT !.pos = Len(s) + 1] => c.blocks = a.blocks /\ c.pos = Len(s) + 1
  BY DEF Scans
<1>8. ASSUME \A i \in DOMAIN c.blocks : Plain(c.blocks[i])
      PROVE  d = c \/ c.pos = Len(s) + 1
  <2>1. \A i \in DOMAIN a.blocks : Plain(a.blocks[i])
    BY <1>3, <1>8
  <2>2. b = a \/ a.pos = Len(s) + 1
    BY <2>1 DEF Tracks
  <2>3. ~(Len(c.blocks) = Len(a.blocks) + 1 /\ ~Plain(c.blocks[Len(c.blocks)]))
    BY <1>2, <1>8
  <2> QED
    BY <1>5, <1>6, <1>7, <2>2, <2>3 DEF d
<1>9. ASSUME NEW k \in DOMAIN c.blocks, \A i \in 1 .. k : Plain(c.blocks[i])
      PROVE  k \in DOMAIN d.blocks /\ d.blocks[k] = c.blocks[k]
  <2>1. CASE k \in DOMAIN a.blocks
    <3>1. \A i \in 1 .. k : i \in DOMAIN a.blocks
      BY <1>2, <2>1
    <3>2. \A i \in 1 .. k : Plain(a.blocks[i])
      BY <1>3, <1>9, <3>1
    <3>3. k \in DOMAIN b.blocks /\ b.blocks[k] = a.blocks[k]
      BY <2>1, <3>2 DEF Tracks
    <3> QED
      BY <1>3, <1>4, <2>1, <3>3
  <2>2. CASE k \notin DOMAIN a.blocks
    <3>1. k = Len(c.blocks) /\ Len(c.blocks) = Len(a.blocks) + 1
      BY <1>2, <1>3, <2>2
    <3>2. \A i \in DOMAIN c.blocks : Plain(c.blocks[i])
      BY <1>2, <1>9, <3>1
    <3>3. \A i \in DOMAIN a.blocks : Plain(a.blocks[i])
      BY <1>3, <3>2
    <3>4. b = a \/ a.pos = Len(s) + 1
      BY <3>3 DEF Tracks
    <3>5. c.blocks # a.blocks
      BY <1>2, <3>1
    <3>6. Plain(c.blocks[Len(c.blocks)])
      BY <1>9, <3>1, <3>2
    <3>7. d = c
      BY <1>5, <1>6, <1>7, <3>4, <3>5, <3>6 DEF d
    <3> QED
      BY <3>7
  <2> QED
    BY <2>1, <2>2
<1> QED
  BY <1>8, <1>9 DEF Tracks, c, d

\* What is found in a text is found in the repaired one, up to the first block
\* with a tag inside.
LEMMA FoundAfter ==
  ASSUME NEW s \in Line, NEW t \in Line, Kept(s, t), NEW n \in Known,
         NEW k \in DOMAIN BlocksIn(s, n), \A i \in 1 .. k : Plain(BlocksIn(s, n)[i])
  PROVE  k \in DOMAIN BlocksIn(t, n) /\ BlocksIn(t, n)[k] = BlocksIn(s, n)[k]
<1>1. Len(t) = Len(s) /\ Len(s) \in Nat
  BY DEF Kept, Alike, Line
<1>2. PICK f : Scanned(f, s, n) /\ BlocksIn(s, n) = f[Len(s)].blocks
  BY BlocksAre
<1>3. PICK h : Scanned(h, t, n) /\ BlocksIn(t, n) = h[Len(t)].blocks
  BY BlocksAre
<1> DEFINE T == {m \in Nat : m <= Len(s) => Tracks(s, f[m], h[m])}
<1>4. 0 \in T
  <2>1. f[0] = h[0] /\ f[0] = NoBlocks
    BY <1>2, <1>3 DEF Scanned
  <2>2. Tracks(s, f[0], h[0])
    BY <2>1 DEF Tracks, NoBlocks
  <2> QED
    BY <2>2
<1>5. ASSUME NEW m \in T
      PROVE  m + 1 \in T
  <2> SUFFICES ASSUME m + 1 <= Len(s)
               PROVE  Tracks(s, f[m + 1], h[m + 1])
    OBVIOUS
  <2>1. m \in Nat /\ m \in 0 .. Len(s) /\ m + 1 \in 1 .. Len(s) /\ (m + 1) - 1 = m
    BY <1>1
  <2>2. Tracks(s, f[m], h[m])
    BY <1>1, <2>1
  <2>3. f[m] \in Scans /\ h[m] \in Scans
    BY <1>1, <1>2, <1>3, <2>1 DEF Scanned
  <2>4. f[m + 1] = NextBlock(s, n, f[m]) /\ h[m + 1] = NextBlock(t, n, h[m])
    BY <1>1, <1>2, <1>3, <2>1 DEF Scanned
  <2> QED
    BY <2>2, <2>3, <2>4, TracksOn
<1>6. T = Nat
  <2>1. T \subseteq Nat
    OBVIOUS
  <2> HIDE DEF T
  <2> QED
    BY <1>4, <1>5, <2>1, AllNumbers
<1>7. Tracks(s, f[Len(s)], h[Len(s)])
  BY <1>1, <1>6
<1> QED
  BY <1>1, <1>2, <1>3, <1>7 DEF Tracks

LEMMA SparesText ==
  ASSUME NEW s \in Line, NEW n \in {"exec", "write", "search"},
         NEW k \in DOMAIN BlocksIn(s, n), \A i \in 1 .. k : Plain(BlocksIn(s, n)[i])
  PROVE  LET after == BlocksIn(fix_malformed_tags(s), n)
         IN k \in DOMAIN after /\ after[k] = BlocksIn(s, n)[k]
<1>1. Kept(s, fix_malformed_tags(s))
  BY FixKeeps
<1>2. fix_malformed_tags(s) \in Line
  BY <1>1 DEF Kept, Alike
<1>3. n \in Known
  BY DEF Known
<1> QED
  BY <1>1, <1>2, <1>3, FoundAfter

\* The repair of one annotation breaks no other that is complete and has no tag
\* inside, nor what comes before the first that has one.
LEMMA Spares ==
  ASSUME raw \in Line
  PROVE  RepairSpares
<1> SUFFICES ASSUME NEW n \in {"exec", "write", "search"},
                    NEW k \in DOMAIN BlocksIn(raw, n),
                    \A i \in 1 .. k : Plain(BlocksIn(raw, n)[i])
             PROVE  LET after == BlocksIn(fix_malformed_tags(raw), n)
                    IN k \in DOMAIN after /\ after[k] = BlocksIn(raw, n)[k]
  BY DEF RepairSpares, Plain
<1> QED
  BY SparesText

-----------------------------------------------------------------------------
(* Annotations that come one after another are all repaired.               *)

Ends(s) == {p[2] : p \in Leaves(s)}
Opener(s, j) == (CHOOSE p \in Leaves(s) : p[2] = j)[1]
OneByOne(s) ==
  \A i \in DOMAIN s : IsTag(s[i]) =>
    \/ s[i][1] = "self"
    \/ i \in Ends(s) /\ s[i][2] \in {Foreign, s[Opener(s, i)][2]}
    \/ \E p \in Leaves(s) : p[1] = i /\ IsRepaired(s[i][2])

\* A closing tag closes one opening tag, and an opening tag has one that closes it.
LEMMA LeafOnce ==
  ASSUME NEW s \in Line, NEW g \in 1 .. Len(s), NEW h \in 1 .. Len(s),
         NEW i \in 1 .. Len(s), NEW j \in 1 .. Len(s), Leaf(s, g, i), Leaf(s, h, j)
  PROVE  /\ g = h <=> i = j
         /\ g < h => i < h
         /\ g # j
<1>1. Len(s) \in Nat /\ g \in Nat /\ h \in Nat /\ i \in Nat /\ j \in Nat
  BY DEF Line
<1>2. /\ g < i /\ s[g][1] = "open" /\ s[i][1] = "close"
      /\ h < j /\ s[h][1] = "open" /\ s[j][1] = "close"
      /\ \A k \in g + 1 .. i - 1 : ~IsTag(s[k])
      /\ \A k \in h + 1 .. j - 1 : ~IsTag(s[k])
  BY DEF Leaf
<1>3. IsTag(s[g]) /\ IsTag(s[h]) /\ IsTag(s[i]) /\ IsTag(s[j])
  BY <1>2 DEF IsTag
<1>4. g # j /\ h # i
  BY <1>2
<1>5. ~(h \in g + 1 .. i - 1) /\ ~(j \in g + 1 .. i - 1)
  BY <1>2, <1>3
<1>6. ~(g \in h + 1 .. j - 1) /\ ~(i \in h + 1 .. j - 1)
  BY <1>2, <1>3
<1>7. h <= g \/ i <= h
  BY <1>1, <1>5
<1>8. j <= g \/ i <= j
  BY <1>1, <1>5
<1>9. g <= h \/ j <= g
  BY <1>1, <1>6
<1>10. i <= h \/ j <= i
  BY <1>1, <1>6
<1> QED
  BY <1>1, <1>2, <1>4, <1>7, <1>8, <1>9, <1>10

\* What of it the proofs need.
Ordered(s) ==
  /\ \A i \in 1 .. Len(s) : s[i][1] = "open" =>
       IsRepaired(s[i][2]) /\ \E j \in 1 .. Len(s) : Leaf(s, i, j)
  /\ \A j \in 1 .. Len(s) : s[j][1] = "close" => \E i \in 1 .. Len(s) : Leaf(s, i, j)
  /\ \A i, j \in 1 .. Len(s) : Leaf(s, i, j) => s[j] \in {Close(Foreign), Close(s[i][2])}

LEMMA CloserIs ==
  ASSUME NEW x \in Lexeme, x[1] = "close"
  PROVE  x = Close(x[2])
<1>1. \A y \in Marks : y[1] # "close"
  BY MarksAreNoTags
<1>2. \A m : Close(m)[2] = m
  BY DEF Close
<1>3. \A m, p : Self(m, p)[1] = "self" /\ Open(m, p)[1] = "open"
  BY DEF Self, Open
<1>4. x \in Tags(Paths)
  BY <1>1 DEF Lexeme
<1>5. \/ \E m \in Blocks, p \in Paths : x = Open(m, p)
      \/ \E m \in Blocks \cup {Foreign} : x = Close(m)
      \/ \E m \in Selves, p \in Paths : x = Self(m, p)
  <2> HIDE DEF Blocks, Selves, Foreign, Open, Close, Self
  <2> QED
    BY <1>4 DEF Tags
<1>6. PICK m \in Blocks \cup {Foreign} : x = Close(m)
  BY <1>3, <1>5
<1> HIDE DEF Close
<1> QED
  BY <1>2, <1>6

LEMMA LeafPairs ==
  ASSUME NEW s \in Line, NEW p \in Leaves(s)
  PROVE  p[1] \in 1 .. Len(s) /\ p[2] \in 1 .. Len(s) /\ Leaf(s, p[1], p[2])
BY DEF Leaves, Line

LEMMA LeafPair ==
  ASSUME NEW s \in Line, NEW i \in 1 .. Len(s), NEW j \in 1 .. Len(s), Leaf(s, i, j)
  PROVE  /\ <<i, j>> \in Leaves(s) /\ j \in Ends(s)
         /\ Opener(s, j) = i
<1>1. <<i, j>> \in Leaves(s)
  BY DEF Leaves, Line
<1>2. j \in Ends(s)
  BY <1>1 DEF Ends
<1> DEFINE p == CHOOSE p \in Leaves(s) : p[2] = j
<1>3. p \in Leaves(s) /\ p[2] = j
  <2>1. <<i, j>>[2] = j
    OBVIOUS
  <2> QED
    BY <1>1, <2>1
<1> HIDE DEF p
<1>4. p[1] = i
  <2>1. p[1] \in 1 .. Len(s) /\ p[2] \in 1 .. Len(s) /\ Leaf(s, p[1], p[2])
    BY <1>3, LeafPairs
  <2> QED
    BY <2>1, <1>3, LeafOnce
<1> QED
  BY <1>1, <1>2, <1>4 DEF Opener, p

LEMMA OrderedIs ==
  ASSUME NEW s \in Line, OneByOne(s)
  PROVE  Ordered(s)
<1>1. DOMAIN s = 1 .. Len(s) /\ Len(s) \in Nat
  BY DEF Line
<1>2. \A j \in Ends(s) : \E i \in 1 .. Len(s) : j \in 1 .. Len(s) /\ Leaf(s, i, j)
  BY LeafPairs DEF Ends
<1>3. \A j \in Ends(s) : s[j][1] = "close"
  BY <1>2 DEF Leaf
<1>4. ASSUME NEW i \in 1 .. Len(s), s[i][1] = "open"
      PROVE  IsRepaired(s[i][2]) /\ \E j \in 1 .. Len(s) : Leaf(s, i, j)
  <2>1. IsTag(s[i]) /\ i \notin Ends(s) /\ s[i][1] # "self"
    BY <1>3, <1>4 DEF IsTag
  <2>2. PICK p \in Leaves(s) : p[1] = i /\ IsRepaired(s[i][2])
    BY <1>1, <2>1 DEF OneByOne
  <2> QED
    BY <2>2, LeafPairs
<1>5. ASSUME NEW j \in 1 .. Len(s), s[j][1] = "close"
      PROVE  j \in Ends(s) /\ s[j][2] \in {Foreign, s[Opener(s, j)][2]}
  <2>1. IsTag(s[j]) /\ s[j][1] # "self"
    BY <1>5 DEF IsTag
  <2>2. ~ \E p \in Leaves(s) : p[1] = j
    BY <1>5, LeafPairs DEF Leaf
  <2> QED
    BY <1>1, <2>1, <2>2 DEF OneByOne
<1>6. ASSUME NEW i \in 1 .. Len(s), NEW j \in 1 .. Len(s), Leaf(s, i, j)
      PROVE  s[j] \in {Close(Foreign), Close(s[i][2])}
  <2>1. s[j][1] = "close" /\ s[j] \in Lexeme
    BY <1>6 DEF Leaf, Line
  <2>2. s[j] = Close(s[j][2])
    BY <2>1, CloserIs
  <2>3. Opener(s, j) = i
    BY <1>6, LeafPair
  <2>4. s[j][2] \in {Foreign, s[i][2]}
    BY <1>5, <2>1, <2>3
  <2> QED
    BY <2>2, <2>4
<1>7. \A j \in 1 .. Len(s) : s[j][1] = "close" => \E i \in 1 .. Len(s) : Leaf(s, i, j)
  BY <1>2, <1>5
<1> QED
  BY <1>4, <1>6, <1>7 DEF Ordered

\* The kinds in done are repaired, and kind n as far as pos.
Mends(s, done, n) ==
  {at \in Repairs(s) :
     /\ Kept(s, at.text)
     /\ \A i, j \in 1 .. Len(s) : Leaf(s, i, j) =>
          /\ at.text[j] \in {Close(Foreign), Close(s[i][2])}
          /\ s[i][2] \in done => at.text[j] = Close(s[i][2])
          /\ s[i][2] = n /\ j < at.pos => at.text[j] = Close(n)
          /\ j < at.pos \/ at.pos <= i}

LEMMA NamesDiffer ==
  ASSUME NEW n \in Blocks
  PROVE  /\ Foreign \notin Known /\ Foreign # n
         /\ \A m : Close(m)[1] = "close" /\ Close(m)[2] = m
BY DEF Foreign, Known, Blocks, Close

\* What one turn does: the tag that closes the next opening tag is right.
LEMMA MendTurn ==
  ASSUME NEW s \in Line, Ordered(s), NEW done, NEW n \in Blocks, NEW at \in Mends(s, done, n),
         NEW start, start = FirstOpen(at.text, n, at.pos), start # 0
  PROVE  \E e \in 1 .. Len(s) :
           /\ start \in 1 .. Len(s) /\ at.pos <= start /\ Leaf(s, start, e) /\ s[start][2] = n
           /\ \A i \in at.pos .. Len(s) : IsOpen(s[i], n) => start <= i
           /\ NextRepair(n, at).pos = e + 1
           /\ NextRepair(n, at).text[e] = Close(n)
           /\ \A k \in 1 .. Len(s) : k # e => NextRepair(n, at).text[k] = at.text[k]
<1> DEFINE t == at.text
           correct == FirstClose(t, n, start)
           next == FirstOpen(t, n, start + 1)
           bad == BadCloser(t, start)
           to == NextRepair(n, at)
<1>1. at \in Repairs(s) /\ Kept(s, t)
      /\ \A i, j \in 1 .. Len(s) : Leaf(s, i, j) => t[j] \in {Close(Foreign), Close(s[i][2])}
  BY DEF Mends
<1>2. /\ t \in Line /\ Len(t) = Len(s) /\ Len(s) \in Nat /\ at.pos \in Nat \ {0}
      /\ at = [text |-> t, pos |-> at.pos]
  BY <1>1 DEF Repairs, Alike, Positive, Line
<1>3. /\ start # 0 /\ correct # 0 /\ (next = 0 \/ correct < next) =>
           to = [at EXCEPT !.pos = correct + 1]
      /\ start # 0 /\ ~(correct # 0 /\ (next = 0 \/ correct < next)) /\ bad # 0 =>
           to = [text |-> [t EXCEPT ![bad] = Close(n)], pos |-> bad + 1]
  BY NextRepairIs
<1>4. /\ \A k \in 1 .. Len(s) : s[k][1] # "close" => t[k] = s[k]
      /\ \A k \in 1 .. Len(s) : s[k][1] = "close" => t[k][1] = "close"
  BY <1>1 DEF Kept
<1> DEFINE from == at.pos
<1>5. start = FirstOpen(t, n, from) /\ from \in Nat \ {0}
  BY <1>2
<1> HIDE DEF t, to, from
<1>6. /\ start \in from .. Len(t) /\ IsOpen(t[start], n)
      /\ \A i \in from .. Len(t) : IsOpen(t[i], n) => start <= i
  BY <1>2, <1>5, FindOpen
<1>7. start \in 1 .. Len(s) /\ start \in Nat \ {0} /\ start + 1 \in Nat \ {0} /\ from <= start
  BY <1>2, <1>5, <1>6
<1>8. t[start] = s[start] /\ s[start][1] = "open" /\ s[start][2] = n
  BY <1>4, <1>6, <1>7 DEF IsOpen
<1>9. PICK e \in 1 .. Len(s) : Leaf(s, start, e)
  BY <1>7, <1>8 DEF Ordered
<1>10. /\ start < e /\ s[e][1] = "close" /\ t[e][1] = "close" /\ e \in Nat
       /\ \A k \in start + 1 .. e - 1 : ~IsTag(s[k])
  BY <1>2, <1>4, <1>9 DEF Leaf
<1>11. \A k \in start + 1 .. e - 1 : ~IsTag(t[k])
  <2> TAKE k \in start + 1 .. e - 1
  <2>1. k \in 1 .. Len(s)
    BY <1>2, <1>7, <1>10
  <2>2. ~IsTag(s[k])
    BY <1>10
  <2>3. t[k] = s[k]
    BY <1>4, <2>1, <2>2 DEF IsTag
  <2> QED
    BY <2>2, <2>3
<1>12. \A i \in from .. Len(s) : IsOpen(s[i], n) => start <= i
  <2> SUFFICES ASSUME NEW i \in from .. Len(s), IsOpen(s[i], n)
               PROVE  start <= i
    OBVIOUS
  <2>1. i \in 1 .. Len(s) /\ i \in from .. Len(t)
    BY <1>2, <1>5
  <2>2. t[i] = s[i]
    BY <1>4, <2>1 DEF IsOpen
  <2> QED
    BY <1>6, <2>1, <2>2
<1>13. \A m : Close(m)[1] = "close" /\ Close(m)[2] = m
  BY DEF Close
<1>14. /\ correct = 0 \/ (correct \in start .. Len(t) /\ IsClose(t[correct], n))
       /\ \A i \in start .. Len(t) : IsClose(t[i], n) => correct # 0 /\ correct <= i
  <2>1. \/ /\ correct = 0
           /\ \A i \in start .. Len(t) : ~IsClose(t[i], n)
        \/ /\ correct \in start .. Len(t) /\ IsClose(t[correct], n)
           /\ \A i \in start .. Len(t) : IsClose(t[i], n) => correct <= i
    BY <1>2, <1>7, FindClose
  <2>2. 0 \notin start .. Len(t)
    BY <1>2, <1>7
  <2> HIDE DEF correct
  <2> QED
    BY <2>1, <2>2
<1>15. /\ next = 0 \/ (next \in start + 1 .. Len(t) /\ IsOpen(t[next], n))
       /\ \A i \in start + 1 .. Len(t) : IsOpen(t[i], n) => next # 0 /\ next <= i
  <2>1. \/ /\ next = 0
           /\ \A i \in start + 1 .. Len(t) : ~IsOpen(t[i], n)
        \/ /\ next \in start + 1 .. Len(t) /\ IsOpen(t[next], n)
           /\ \A i \in start + 1 .. Len(t) : IsOpen(t[i], n) => next <= i
    BY <1>2, <1>7, FindOpen
  <2>2. 0 \notin start + 1 .. Len(t)
    BY <1>2, <1>7
  <2> HIDE DEF next
  <2> QED
    BY <2>1, <2>2
<1>16. /\ bad = 0 => \A i \in Closers(t, start) : Inner(t, start, i)
       /\ bad # 0 => bad \in Closers(t, start)
       /\ bad # 0 => \A i \in Closers(t, start) : ~Inner(t, start, i) => bad <= i
  <2>1. \/ /\ bad = 0
           /\ \A i \in Closers(t, start) : Inner(t, start, i)
        \/ /\ bad \in Closers(t, start) /\ ~Inner(t, start, bad)
           /\ \A i \in Closers(t, start) : ~Inner(t, start, i) => bad <= i
    BY <1>2, <1>7, FindBad
  <2>2. 0 \notin Closers(t, start)
    BY <1>2, <1>7 DEF Closers
  <2> HIDE DEF bad
  <2> QED
    BY <2>1, <2>2
<1> HIDE DEF correct, next, bad
<1>17. correct = 0 \/ e <= correct
  <2>1. correct # start
    BY <1>14, <1>8 DEF IsClose
  <2>2. ~(correct \in start + 1 .. e - 1)
    BY <1>2, <1>7, <1>10, <1>11, <1>14 DEF IsClose, IsTag
  <2> QED
    BY <1>2, <1>7, <1>10, <1>14, <2>1, <2>2
<1>18. next = 0 \/ e < next
  <2>1. next # e
    BY <1>10, <1>15 DEF IsOpen
  <2>2. ~(next \in start + 1 .. e - 1)
    BY <1>2, <1>7, <1>10, <1>11, <1>15 DEF IsOpen, IsTag
  <2> QED
    BY <1>2, <1>7, <1>10, <1>15, <2>1, <2>2
<1>19. CASE t[e] = Close(n)
  <2>1. e \in start .. Len(t) /\ IsClose(t[e], n)
    <3> HIDE DEF Close
    <3> QED
      BY <1>2, <1>7, <1>10, <1>13, <1>19 DEF IsClose
  <2>2. correct = e
    <3>1. correct # 0 /\ correct <= e /\ correct \in start .. Len(t)
      BY <1>14, <2>1
    <3> QED
      BY <1>2, <1>7, <1>10, <1>17, <3>1
  <2>3. to = [at EXCEPT !.pos = e + 1]
    BY <1>3, <1>7, <1>10, <1>14, <1>18, <2>1, <2>2
  <2>4. to = [text |-> t, pos |-> e + 1]
    BY <1>2, <2>3
  <2> QED
    BY <1>7, <1>8, <1>9, <1>12, <1>19, <2>4 DEF t, to, from
<1>20. CASE t[e] # Close(n)
  <2>1. t[e] = Close(Foreign)
    BY <1>1, <1>7, <1>8, <1>9, <1>20 DEF t
  <2>2. ~(correct # 0 /\ (next = 0 \/ correct < next))
    <3> SUFFICES ASSUME correct # 0
                 PROVE  next # 0 /\ next <= correct
      <4>1. correct # 0 /\ next # 0 => correct \in Nat /\ next \in Nat
        BY <1>2, <1>7, <1>14, <1>15
      <4> QED
        BY <4>1
    <3>1. correct \in 1 .. Len(s) /\ t[correct][1] = "close" /\ t[correct][2] = n
          /\ e <= correct
      BY <1>2, <1>7, <1>14, <1>17 DEF IsClose
    <3>2. e < correct
      <4>1. correct # e
        BY <1>13, <2>1, <3>1, NamesDiffer
      <4> QED
        BY <1>2, <1>10, <3>1, <4>1
    <3>3. s[correct][1] = "close"
      BY <1>4, <3>1
    <3>4. PICK i \in 1 .. Len(s) : Leaf(s, i, correct)
      BY <3>1, <3>3 DEF Ordered
    <3>5. t[correct] \in {Close(Foreign), Close(s[i][2])}
      BY <1>1, <3>1, <3>4 DEF t
    <3>6. s[i][2] = n /\ s[i][1] = "open"
      BY <1>13, <3>1, <3>4, <3>5, NamesDiffer DEF Leaf
    <3>7. IsOpen(t[i], n)
      BY <1>4, <3>6 DEF IsOpen
    <3>8. start < i
      <4>1. start # i
        BY <1>7, <1>9, <3>1, <3>2, <3>4, LeafOnce
      <4>2. ~(i < start)
        <5>1. i < start => correct < start
          BY <1>7, <1>9, <3>1, <3>4, LeafOnce
        <5> QED
          BY <5>1, <1>2, <1>7, <1>10, <3>1, <3>2
      <4> QED
        BY <4>1, <4>2, <1>2, <1>7
    <3>9. i \in start + 1 .. Len(t)
      BY <1>2, <1>7, <3>8
    <3>10. next # 0 /\ next <= i
      BY <1>15, <3>7, <3>9
    <3>11. i < correct
      BY <3>4 DEF Leaf
    <3> QED
      BY <1>2, <1>15, <3>1, <3>10, <3>11
  <2>3. e \in Closers(t, start) /\ ~Inner(t, start, e)
    BY <1>2, <1>7, <1>10, <1>13, <2>1, NamesDiffer DEF Closers, Inner
  <2>4. bad = e
    <3>1. bad # 0 /\ bad \in Closers(t, start) /\ bad <= e
      BY <1>16, <2>3
    <3>2. bad \in start + 1 .. Len(t) /\ IsTag(t[bad])
      BY <3>1 DEF Closers, IsTag
    <3>3. ~(bad \in start + 1 .. e - 1)
      BY <1>11, <3>2
    <3> QED
      BY <1>2, <1>7, <1>10, <3>1, <3>2, <3>3
  <2>5. to = [text |-> [t EXCEPT ![e] = Close(n)], pos |-> e + 1]
    BY <1>3, <1>7, <1>10, <2>2, <2>4
  <2>6. t \in Seq(Lexeme) /\ e \in 1 .. Len(t) /\ Close(n) \in Lexeme
    BY <1>2, CloserTyped DEF Line
  <2>7. to.pos = e + 1 /\ to.text[e] = Close(n)
        /\ \A k \in 1 .. Len(s) : k # e => to.text[k] = t[k]
    BY <1>2, <2>5, <2>6, Put
  <2> QED
    BY <1>7, <1>8, <1>9, <1>12, <2>7 DEF t, to, from
<1> QED
  BY <1>19, <1>20

LEMMA MendsOn ==
  ASSUME NEW s \in Line, Ordered(s), NEW done, NEW n \in Blocks, NEW at \in Mends(s, done, n)
  PROVE  NextRepair(n, at) \in Mends(s, done, n)
<1> DEFINE t == at.text
           u == NextRepair(n, at).text
           from == at.pos
           to == NextRepair(n, at).pos
<1>1. at \in Repairs(s) /\ Kept(s, t)
      /\ \A i, j \in 1 .. Len(s) : Leaf(s, i, j) =>
           /\ t[j] \in {Close(Foreign), Close(s[i][2])}
           /\ s[i][2] \in done => t[j] = Close(s[i][2])
           /\ s[i][2] = n /\ j < from => t[j] = Close(n)
           /\ j < from \/ from <= i
  BY DEF Mends
<1>2. NextRepair(n, at) \in Repairs(s) /\ Kept(s, u)
  BY <1>1, NextRepairTyped, KeptTurn
<1>3. from \in Nat \ {0} /\ Len(s) \in Nat
  BY <1>1 DEF Repairs, Positive, Line
<1>4. CASE FirstOpen(at.text, n, at.pos) = 0
  <2>1. NextRepair(n, at) = at
    BY <1>4 DEF NextRepair
  <2> QED
    BY <2>1
<1>5. CASE FirstOpen(at.text, n, at.pos) # 0
  <2> DEFINE start == FirstOpen(at.text, n, at.pos)
  <2>1. PICK e \in 1 .. Len(s) :
          /\ start \in 1 .. Len(s) /\ from <= start /\ Leaf(s, start, e) /\ s[start][2] = n
          /\ \A i \in from .. Len(s) : IsOpen(s[i], n) => start <= i
          /\ to = e + 1
          /\ u[e] = Close(n)
          /\ \A k \in 1 .. Len(s) : k # e => u[k] = t[k]
    BY <1>5, MendTurn
  <2> HIDE DEF start, t, u, from, to
  <2>2. start \in Nat /\ e \in Nat /\ start < e
    BY <1>3, <2>1 DEF Leaf
  <2>3. ASSUME NEW i \in 1 .. Len(s), NEW j \in 1 .. Len(s), Leaf(s, i, j)
        PROVE  /\ u[j] \in {Close(Foreign), Close(s[i][2])}
               /\ s[i][2] \in done => u[j] = Close(s[i][2])
               /\ s[i][2] = n /\ j < to => u[j] = Close(n)
               /\ j < to \/ to <= i
    <3>1. /\ t[j] \in {Close(Foreign), Close(s[i][2])}
          /\ s[i][2] \in done => t[j] = Close(s[i][2])
          /\ s[i][2] = n /\ j < from => t[j] = Close(n)
          /\ j < from \/ from <= i
      BY <1>1, <2>3
    <3>2. /\ i \in Nat /\ j \in Nat /\ i < j /\ s[i][1] = "open"
      BY <1>3, <2>3 DEF Leaf
    <3>3. /\ start = i <=> e = j
          /\ start < i => e < i
          /\ i < start => j < start
      BY <2>1, <2>3, LeafOnce
    <3>4. CASE i = start
      <4>1. j = e /\ u[j] = Close(n) /\ s[i][2] = n
        BY <2>1, <3>3, <3>4
      <4>2. j < to
        BY <2>1, <2>2, <4>1
      <4> HIDE DEF Close
      <4> QED
        BY <4>1, <4>2
    <3>5. CASE i # start
      <4>1. j # e /\ u[j] = t[j]
        BY <2>1, <3>3, <3>5
      <4>2. j < to \/ to <= i
        BY <2>1, <2>2, <3>2, <3>3, <3>5
      <4>3. ASSUME s[i][2] = n, j < to
            PROVE  t[j] = Close(n)
        <5>1. ~(from <= i)
          <6> SUFFICES ASSUME from <= i
                       PROVE  FALSE
            OBVIOUS
          <6>1. i \in from .. Len(s) /\ IsOpen(s[i], n)
            BY <1>3, <3>2, <4>3 DEF IsOpen
          <6>2. start <= i
            BY <2>1, <6>1
          <6>3. e < i
            BY <2>2, <3>2, <3>3, <3>5, <6>2
          <6> QED
            BY <2>1, <2>2, <3>2, <4>3, <6>3
        <5> QED
          BY <3>1, <4>3, <5>1
      <4> HIDE DEF Close
      <4> QED
        BY <3>1, <4>1, <4>2, <4>3
    <3> QED
      BY <3>4, <3>5
  <2> QED
    BY <1>2, <2>3 DEF Mends, u, to
<1> QED
  BY <1>4, <1>5

\* The text with the kinds in done repaired.
Mended(s, done) ==
  {t \in Line : /\ Kept(s, t)
                /\ \A i, j \in 1 .. Len(s) : Leaf(s, i, j) =>
                     /\ t[j] \in {Close(Foreign), Close(s[i][2])}
                     /\ s[i][2] \in done => t[j] = Close(s[i][2])}

LEMMA MendKind ==
  ASSUME NEW s \in Line, Ordered(s), NEW done, NEW n \in Blocks, NEW t \in Mended(s, done)
  PROVE  RepairKind(t, n) \in Mended(s, done \cup {n})
<1>1. t \in Line /\ Kept(s, t) /\ Len(t) = Len(s) /\ t \in Alike(s) /\ Len(s) \in Nat
  BY DEF Mended, Kept, Alike, Line
<1>2. Repairs(t) = Repairs(s)
  BY <1>1 DEF Repairs, Alike
<1>3. [text |-> t, pos |-> 1] \in Mends(s, done, n)
  <2> DEFINE at == [text |-> t, pos |-> 1]
  <2>1. at \in Repairs(s) /\ at.text = t /\ at.pos = 1
    BY <1>1 DEF Repairs, Positive
  <2>2. \A j \in 1 .. Len(s) : ~(j < 1) /\ 1 <= j
    BY <1>1
  <2> HIDE DEF at
  <2> QED
    BY <1>1, <2>1, <2>2 DEF Mends, Mended, at
<1>4. \A at \in Repairs(t) : at \in Mends(s, done, n) => NextRepair(n, at) \in Mends(s, done, n)
  BY MendsOn
<1>5. PICK at \in Repairs(t) : /\ at \in Mends(s, done, n) /\ RepairKind(t, n) = at.text
                               /\ FirstOpen(at.text, n, at.pos) = 0
  BY <1>1, <1>3, <1>4, RepairEnds
<1> DEFINE u == at.text
           to == at.pos
<1>6. u \in Line /\ Len(u) = Len(s) /\ to \in Nat \ {0}
  <2>1. at \in Repairs(s)
    BY <1>2, <1>5
  <2> QED
    BY <2>1 DEF Repairs, Alike, Positive
<1>7. /\ Kept(s, u)
      /\ \A i, j \in 1 .. Len(s) : Leaf(s, i, j) =>
           /\ u[j] \in {Close(Foreign), Close(s[i][2])}
           /\ s[i][2] \in done => u[j] = Close(s[i][2])
           /\ s[i][2] = n /\ j < to => u[j] = Close(n)
           /\ j < to \/ to <= i
  BY <1>5 DEF Mends
<1>8. RepairKind(t, n) = u /\ FirstOpen(u, n, to) = 0
  BY <1>5
<1> HIDE DEF u, to
<1>9. \A i \in to .. Len(u) : ~IsOpen(u[i], n)
  <2>1. 0 \notin to .. Len(u)
    BY <1>1, <1>6
  <2>2. \/ /\ FirstOpen(u, n, to) = 0
           /\ \A i \in to .. Len(u) : ~IsOpen(u[i], n)
        \/ FirstOpen(u, n, to) \in to .. Len(u)
    BY <1>6, FindOpen
  <2> QED
    BY <1>8, <2>1, <2>2
<1>10. ASSUME NEW i \in 1 .. Len(s), NEW j \in 1 .. Len(s), Leaf(s, i, j), s[i][2] = n
       PROVE  u[j] = Close(n)
  <2>1. u[i] = s[i] /\ IsOpen(u[i], n)
    BY <1>7, <1>10 DEF Kept, Leaf, IsOpen
  <2>2. ~(to <= i)
    BY <1>1, <1>6, <1>9, <2>1
  <2> QED
    BY <1>7, <1>10, <2>2
<1>11. ASSUME NEW i \in 1 .. Len(s), NEW j \in 1 .. Len(s), Leaf(s, i, j)
       PROVE  /\ u[j] \in {Close(Foreign), Close(s[i][2])}
              /\ s[i][2] \in done \cup {n} => u[j] = Close(s[i][2])
  BY <1>7, <1>10, <1>11
<1> QED
  BY <1>6, <1>7, <1>8, <1>11 DEF Mended

LEMMA MendAll ==
  ASSUME NEW s \in Line, OneByOne(s)
  PROVE  fix_malformed_tags(s) =
           [i \in DOMAIN s |-> IF i \in Ends(s) THEN Close(s[Opener(s, i)][2]) ELSE s[i]]
<1>1. Ordered(s)
  BY OrderedIs
<1>2. s \in Mended(s, {})
  <2>1. Kept(s, s)
    BY DEF Kept, Alike
  <2> QED
    BY <1>1, <2>1 DEF Mended, Ordered
<1> DEFINE a == RepairKind(s, "exec")
           b == RepairKind(a, "write")
           c == RepairKind(b, "str_replace")
           t == RepairKind(c, "search")
<1>3. a \in Mended(s, {} \cup {"exec"})
  BY <1>1, <1>2, MendKind, KindsAreBlocks
<1> HIDE DEF a
<1>4. b \in Mended(s, ({} \cup {"exec"}) \cup {"write"})
  BY <1>1, <1>3, MendKind, KindsAreBlocks
<1> HIDE DEF b
<1>5. c \in Mended(s, (({} \cup {"exec"}) \cup {"write"}) \cup {"str_replace"})
  BY <1>1, <1>4, MendKind, KindsAreBlocks
<1> HIDE DEF c
<1>6. t \in Mended(s, ((({} \cup {"exec"}) \cup {"write"}) \cup {"str_replace"}) \cup {"search"})
  BY <1>1, <1>5, MendKind, KindsAreBlocks
<1>7. fix_malformed_tags(s) = t
  BY FixIs DEF a, b, c, t
<1> HIDE DEF t
<1>8. \A m : IsRepaired(m) =>
        m \in ((({} \cup {"exec"}) \cup {"write"}) \cup {"str_replace"}) \cup {"search"}
  BY DEF IsRepaired, Repaired
<1>9. t \in Line /\ Kept(s, t) /\ DOMAIN s = 1 .. Len(s) /\ Len(t) = Len(s) /\ s \in Seq(Lexeme)
  BY <1>6 DEF Mended, Kept, Alike, Line
<1>10. ASSUME NEW i \in 1 .. Len(s), NEW j \in 1 .. Len(s), Leaf(s, i, j)
       PROVE  t[j] = Close(s[i][2])
  <2>1. IsRepaired(s[i][2])
    BY <1>1, <1>10 DEF Ordered, Leaf
  <2> QED
    BY <1>6, <1>8, <1>10, <2>1 DEF Mended
<1>11. ASSUME NEW i \in 1 .. Len(s)
       PROVE  t[i] = IF i \in Ends(s) THEN Close(s[Opener(s, i)][2]) ELSE s[i]
  <2>1. CASE i \in Ends(s)
    <3>1. PICK h \in 1 .. Len(s) : Leaf(s, h, i)
      BY <2>1, LeafPairs DEF Ends
    <3>2. t[i] = Close(s[h][2])
      BY <1>10, <3>1
    <3>3. Opener(s, i) = h
      BY <3>1, LeafPair
    <3> QED
      BY <2>1, <3>2, <3>3
  <2>2. CASE i \notin Ends(s)
    <3>1. s[i][1] # "close"
      BY <1>1, <2>2, LeafPair DEF Ordered
    <3> QED
      BY <1>9, <2>2, <3>1 DEF Kept
  <2> QED
    BY <2>1, <2>2
<1>12. t = [i \in 1 .. Len(s) |-> t[i]]
  BY <1>9 DEF Line
<1> QED
  BY <1>7, <1>9, <1>11, <1>12

\* Annotations that come one after another are repaired.
LEMMA Restores ==
  ASSUME raw \in Line
  PROVE  RepairRestores
<1> DEFINE ends == {p[2] : p \in Leaves(raw)}
           opener(j) == (CHOOSE p \in Leaves(raw) : p[2] = j)[1]
<1>1. ASSUME \A i \in DOMAIN raw : IsTag(raw[i]) =>
                \/ raw[i][1] = "self"
                \/ i \in ends /\ raw[i][2] \in {Foreign, raw[opener(i)][2]}
                \/ \E p \in Leaves(raw) : p[1] = i /\ IsRepaired(raw[i][2])
      PROVE  fix_malformed_tags(raw) =
               [i \in DOMAIN raw |-> IF i \in ends THEN Close(raw[opener(i)][2]) ELSE raw[i]]
  <2>1. OneByOne(raw)
    BY <1>1 DEF OneByOne, Ends, Opener
  <2> QED
    BY <2>1, MendAll DEF Ends, Opener
<1> QED
  BY <1>1 DEF RepairRestores

\* Whatever a reply has in it, the repair of its closing tags makes the annotations
\* that come one after another right, and leaves alone those that were.
THEOREM RepairIsSafeAlways == Spec => []RepairIsSafe
<1>1. TypeOK => RepairIsSafe
  <2> SUFFICES ASSUME TypeOK
               PROVE  RepairIsSafe
    OBVIOUS
  <2>1. raw \in Line
    BY DEF TypeOK
  <2> QED
    BY <2>1, Restores, Spares DEF RepairIsSafe
<1> QED
  BY <1>1, TypeCorrect, PTL
=============================================================================
