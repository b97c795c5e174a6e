------------------------------ MODULE Renderer ------------------------------
(***************************************************************************)
(* StreamRenderer: what the terminal shows of a reply while its tokens     *)
(* arrive.  Lines are kept until they are complete, the rows of a table    *)
(* until a line that is no row, a diagram until its closing fence; lines   *)
(* with an annotation tag are not shown.  Colours and frames are left out: *)
(* out has the lines that were dealt with, each with the form it was       *)
(* given; a line of the form "none" put nothing on the terminal.           *)
(***************************************************************************)
EXTENDS Lexemes, FiniteSetsExt

CONSTANTS Paths,       \* the files a tag may name, "" among them
          Tokens,      \* what one chunk of the stream may hold
          MaxTokens    \* bound: chunks of one reply

Lexeme == Marks \cup Tags(Paths)
Line == Seq(Lexeme)

ASSUME TokensAssumption == Tokens \subseteq Line
ASSUME BoundAssumption == MaxTokens \in Nat

VARIABLES
  color,     \* s.color && s.markdown
  masking,   \* s.mask_pii
  phase,     \* "stream", "ended"
  count,     \* chunks so far
  raw,       \* the reply as it is collected for the history
  rest,      \* what write() has still to feed of the current chunk
  line,      \* buf_
  table,     \* table_buf_
  fenced,    \* in_code_block_
  lang,      \* code_lang_
  diagram,   \* mermaid_buf_
  out,       \* the lines that have left the buffers
  seen       \* every line to be shown, as it was completed

buffers == <<line, table, fenced, lang, diagram, out, seen>>
vars == <<color, masking, phase, count, raw, rest, buffers>>

-----------------------------------------------------------------------------
(* What a line is.                                                         *)

\* The tags whose lines are not shown.
Hides(x) == \/ \E n \in {"exec", "write", "str_replace", "search"} :
                 (x[1] = "open" \/ x[1] = "close") /\ x[2] = n
            \/ IsSelf(x, "add_line") \/ IsSelf(x, "delete_line") \/ IsSelf(x, "read")

Hidden(l) == \E i \in DOMAIN l : Hides(l[i])
IsRow(l) == l # <<>> /\ l[1] = Bar
IsFence(l) == l # <<>> /\ l[1] = Fence

\* What a fence names behind its mark, without the blanks around it.
Language(l) == LET name == {i \in 2 .. Len(l) : l[i] # Blank}
               IN IF name = {} THEN <<>> ELSE SubSeq(l, Min(name), Max(name))

\* parse_table_cells finds a cell: something other than blanks behind the first bar.
HasCell(l) == \E i \in 2 .. Len(l) : l[i] # Blank

\* Dashes and blanks only, three dashes at least.
IsRule(l) ==
  /\ \A i \in DOMAIN l : l[i] \in {Dash, Rule, Blank}
  /\ \/ \E i \in DOMAIN l : l[i] = Rule
     \/ \E i, j, k \in DOMAIN l : i < j /\ j < k /\ {l[i], l[j], l[k]} = {Dash}

\* A list item may be indented.
IsList(l) == \E i \in DOMAIN l : l[i] = Dash /\ \A j \in 1 .. i - 1 : l[j] = Blank

\* Mutant of Form: lists are tried before rules.
FormListFirst(l) == IF l = <<>> THEN "inline"
                    ELSE IF l[1] = Hash THEN "heading"
                    ELSE IF IsList(l) THEN "list"
                    ELSE IF IsRule(l) THEN "rule"
                    ELSE IF l[1] = Quote THEN "quote"
                    ELSE "inline"

\* The block rules, in the order they are tried.
Form(l) == IF l = <<>> THEN "inline"
           ELSE IF l[1] = Hash THEN "heading"
           ELSE IF IsRule(l) THEN "rule"
           ELSE IF l[1] = Quote THEN "quote"
           ELSE IF IsList(l) THEN "list"
           ELSE "inline"

Forms == {"inline", "heading", "rule", "quote", "list", "row", "code", "diagram", "plain", "none"}

Shown(form, l) == [as |-> form, line |-> l]
All(form, ls) == [i \in 1..Len(ls) |-> Shown(form, ls[i])]
LinesOf(shown) == [i \in 1..Len(shown) |-> shown[i].line]

\* render_table: the rows under each other, or nothing at all when none has a cell.
Table(rows) == All(IF \E i \in DOMAIN rows : HasCell(rows[i]) THEN "row" ELSE "none", rows)

-----------------------------------------------------------------------------
Init == /\ color \in BOOLEAN /\ masking \in BOOLEAN
        /\ phase = "stream" /\ count = 0
        /\ raw = <<>> /\ rest = <<>> /\ line = <<>> /\ table = <<>>
        /\ fenced = FALSE /\ lang = <<>> /\ diagram = <<>>
        /\ out = <<>> /\ seen = <<>>

\* mask_pii, which is given one chunk at a time.
MaskPii(token) == [i \in 1..Len(token) |-> IF token[i] = Address THEN Masked ELSE token[i]]

\* The callback of the stream: the chunk goes to the reply and to write().
Token(t) ==
  /\ phase = "stream" /\ rest = <<>> /\ count < MaxTokens
  /\ count' = count + 1
  /\ raw' = raw \o t
  /\ rest' = IF masking THEN MaskPii(t) ELSE t
  /\ UNCHANGED <<color, masking, phase, buffers>>

-----------------------------------------------------------------------------
(* flush_line for the line l, when o is on the terminal and t in the table *)
(* buffer.                                                                 *)

Keep == UNCHANGED <<fenced, lang, diagram>>
Noted(l) == seen' = Append(seen, l)

HideLine(l, o, t) ==
  /\ Hidden(l)
  /\ out' = o /\ table' = t
  /\ UNCHANGED seen /\ Keep

PlainLine(l, o, t) ==
  /\ ~Hidden(l) /\ ~color /\ ~IsRow(l)
  /\ out' = Append(o \o Table(t), Shown("plain", l)) /\ table' = <<>>
  /\ Noted(l) /\ Keep

\* Mutant of RowLine: a row is kept in a code block as well.
RowLineAnywhere(l, o, t) ==
  /\ ~Hidden(l) /\ IsRow(l)
  /\ out' = o /\ table' = Append(t, l)
  /\ Noted(l) /\ Keep

\* A row waits for the end of its table; in a code block it is code.
RowLine(l, o, t) ==
  /\ ~Hidden(l) /\ IsRow(l) /\ (color => ~fenced)
  /\ out' = o /\ table' = Append(t, l)
  /\ Noted(l) /\ Keep

\* Mutant of OpenFence: the rows before the block are forgotten.
OpenFenceDropsRows(l, o, t) ==
  /\ ~Hidden(l) /\ color /\ IsFence(l) /\ ~fenced
  /\ out' = o /\ table' = <<>>
  /\ fenced' = TRUE /\ lang' = Language(l) /\ diagram' = <<>>
  /\ UNCHANGED seen

OpenFence(l, o, t) ==
  /\ ~Hidden(l) /\ color /\ IsFence(l) /\ ~fenced
  /\ out' = o \o Table(t) /\ table' = <<>>
  /\ fenced' = TRUE /\ lang' = Language(l) /\ diagram' = <<>>
  /\ UNCHANGED seen

CloseFence(l, o, t) ==
  /\ ~Hidden(l) /\ color /\ IsFence(l) /\ fenced
  /\ out' = o \o Table(t) \o All("diagram", diagram) /\ table' = <<>>
  /\ fenced' = FALSE /\ lang' = <<>> /\ diagram' = <<>>
  /\ UNCHANGED seen

CodeLine(l, o, t) ==
  /\ ~Hidden(l) /\ color /\ ~IsFence(l) /\ fenced
  /\ table' = <<>>
  /\ IF lang = <<Mermaid>>
     THEN out' = o \o Table(t) /\ diagram' = Append(diagram, l)
     ELSE out' = Append(o \o Table(t), Shown("code", l)) /\ UNCHANGED diagram
  /\ Noted(l) /\ UNCHANGED <<fenced, lang>>

TextLine(l, o, t) ==
  /\ ~Hidden(l) /\ color /\ ~fenced /\ ~IsFence(l) /\ ~IsRow(l)
  /\ out' = Append(o \o Table(t), Shown(Form(l), l)) /\ table' = <<>>
  /\ Noted(l) /\ Keep

FlushLine(l, o, t) ==
  \/ HideLine(l, o, t) \/ PlainLine(l, o, t) \/ RowLine(l, o, t) \/ OpenFence(l, o, t)
  \/ CloseFence(l, o, t) \/ CodeLine(l, o, t) \/ TextLine(l, o, t)

-----------------------------------------------------------------------------
\* One turn of the loop of write().
Write ==
  /\ rest # <<>>
  /\ rest' = Tail(rest)
  /\ IF Head(rest) = Nl
     THEN line' = <<>> /\ FlushLine(line, out, table)
     ELSE line' = Append(line, Head(rest))
          /\ UNCHANGED <<table, fenced, lang, diagram, out, seen>>
  /\ UNCHANGED <<color, masking, phase, count, raw>>

\* The stream is over, or Ctrl-C has stopped it: the table first, then the
\* line that has no end.
Finish ==
  /\ phase = "stream" /\ rest = <<>>
  /\ phase' = "ended" /\ line' = <<>>
  /\ IF line = <<>>
     THEN out' = out \o Table(table) /\ table' = <<>>
          /\ UNCHANGED <<fenced, lang, diagram, seen>>
     ELSE FlushLine(line, out \o Table(table), <<>>)
  /\ UNCHANGED <<color, masking, count, raw, rest>>

Next == (\E t \in Tokens : Token(t)) \/ Write \/ Finish

Spec == Init /\ [][Next]_vars

-----------------------------------------------------------------------------
(* Properties.                                                             *)

\* A buffer is in use only where its end can come: rows outside a code block,
\* a diagram inside one.
BuffersEnd == /\ color /\ fenced => table = <<>>
              /\ diagram # <<>> => fenced /\ lang = <<Mermaid>>

\* Every variable has its type, and every buffer its place: the next line that
\* does not belong to it empties it (flush_line, table_buf_ and mermaid_buf_).
TypeOK ==
  /\ color \in BOOLEAN /\ masking \in BOOLEAN /\ fenced \in BOOLEAN
  /\ phase \in {"stream", "ended"} /\ count \in 0..MaxTokens
  /\ raw \in Line /\ rest \in Line /\ line \in Line /\ lang \in Line
  /\ table \in Seq(Line) /\ diagram \in Seq(Line) /\ seen \in Seq(Line)
  /\ out \in Seq([as : Forms, line : Line])
  /\ BuffersEnd

InOrder == LinesOf(out) \o table \o diagram = seen
OnlyEmpty(o) ==
  \A i \in DOMAIN o : o[i].as = "none" => IsRow(o[i].line) /\ ~HasCell(o[i].line)

\* However tables, fences, diagrams and tag lines follow each other, every line
\* to be shown is on the terminal or in the one buffer that comes next, once and
\* in the order it came (flush_line, flush_table_buf).  Only a table row without a
\* cell can come to nothing (render_table).
NothingLost == InOrder /\ OnlyEmpty(out)

\* finish(): "Flush any remaining buffered content".  When it has returned,
\* everything that came is on the terminal.
AllShown ==
  phase = "ended" => LinesOf(out) = seen /\ \A i \in DOMAIN out : out[i].as # "none"
=============================================================================
