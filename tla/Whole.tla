------------------------------- MODULE Whole -------------------------------
(***************************************************************************)
(* render_markdown: a text that is rendered at once.  It is what a reply   *)
(* that arrives in chunks is compared with.  A text is read a lexeme at a  *)
(* time, and its lines a line at a time; both are written as recursive     *)
(* functions, for the proofs.                                              *)
(***************************************************************************)
EXTENDS Renderer

\* The lines of a text that have ended, and the one that has not.
NoText == [done |-> <<>>, line |-> <<>>]
NextLexeme(text, x) ==
  IF x = Nl THEN [done |-> Append(text.done, text.line), line |-> <<>>]
  ELSE [text EXCEPT !.line = Append(@, x)]
Split(s) ==
  LET Upto[n \in 0 .. Len(s)] == IF n = 0 THEN NoText ELSE NextLexeme(Upto[n - 1], s[n])
  IN Upto[Len(s)]

\* The lines of a text; the last one need not be ended.
LinesIn(s) ==
  LET end == Split(s)
  IN IF end.line = <<>> THEN end.done ELSE Append(end.done, end.line)

-----------------------------------------------------------------------------
\* render_line: the block rules in the order of this function.
WholeForm(l) == IF l = <<>> THEN "inline"
                ELSE IF IsRule(l) THEN "rule"
                ELSE IF l[1] = Hash THEN "heading"
                ELSE IF l[1] = Quote THEN "quote"
                ELSE IF IsList(l) THEN "list" ELSE "inline"

\* What a fence names: only the blanks behind it are taken off.
WholeLanguage(l) == LET name == {i \in 2 .. Len(l) : l[i] # Blank}
                    IN IF name = {} THEN <<>> ELSE SubSeq(l, 2, Max(name))

\* One line of render_lines, inside a code block or at a fence, and outside.
RenderFenced(acc, l) ==
  LET o == acc.out \o Table(acc.table)
      to == [acc EXCEPT !.out = o, !.table = <<>>]
  IN IF acc.fenced /\ acc.lang = <<Mermaid>>
     THEN IF IsFence(l)
          THEN [to EXCEPT !.out = o \o All("diagram", acc.diagram),
                          !.diagram = <<>>, !.fenced = FALSE, !.lang = <<>>]
          ELSE [to EXCEPT !.diagram = Append(@, l)]
     ELSE IF ~acc.fenced THEN [to EXCEPT !.lang = WholeLanguage(l), !.fenced = TRUE, !.diagram = <<>>]
     ELSE IF IsFence(l) THEN [to EXCEPT !.lang = <<>>, !.fenced = FALSE]
     ELSE [to EXCEPT !.out = Append(o, Shown("code", l))]

RenderLine(acc, l) ==
  IF IsFence(l) \/ acc.fenced THEN RenderFenced(acc, l)
  ELSE IF IsRow(l) THEN [acc EXCEPT !.table = Append(@, l)]
  ELSE [acc EXCEPT !.out = Append(@ \o Table(acc.table), Shown(WholeForm(l), l)),
                   !.table = <<>>]

NoLines == [out |-> <<>>, table |-> <<>>, fenced |-> FALSE, lang |-> <<>>, diagram |-> <<>>]
Rendered(ls) ==
  LET Upto[n \in 0 .. Len(ls)] == IF n = 0 THEN NoLines ELSE RenderLine(Upto[n - 1], ls[n])
  IN Upto[Len(ls)]
render_lines(ls) == Rendered(ls).out \o Table(Rendered(ls).table)

-----------------------------------------------------------------------------
(* Properties.                                                             *)

Ended == phase = "ended"

\* The lines that are shown.
NextVisible(ls, l) == IF Hidden(l) THEN ls ELSE Append(ls, l)
Visible(ls) ==
  LET Upto[n \in 0 .. Len(ls)] == IF n = 0 THEN <<>> ELSE NextVisible(Upto[n - 1], ls[n])
  IN Upto[Len(ls)]

\* A reply shown while it arrives looks as the same text shown at once does: the
\* lines, their order and their forms, whatever tables, fences and diagrams it
\* is made of (flush_line against render_lines), unless a fence has blanks before
\* its language: then "``` mermaid" is a diagram while it streams and a code block
\* at once.  A row that is the last line and has no end is the case AllShown is about.
SameLanguage(l) == IsFence(l) => Language(l) = WholeLanguage(l)
StreamAsWhole ==
  Ended /\ color /\ ~masking =>
    LET ls == LinesIn(raw)
        shown == Visible(ls)
        cut == ls # <<>> /\ IsRow(ls[Len(ls)]) /\ raw[Len(raw)] # Nl
    IN cut \/ (\E i \in DOMAIN shown : ~SameLanguage(shown[i]))
         \/ out = render_lines(shown)
=============================================================================
