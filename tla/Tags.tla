-------------------------------- MODULE Tags --------------------------------
(***************************************************************************)
(* The annotation parsers: which actions a reply asks for, how a broken    *)
(* closing tag is repaired before they look, and what is put in the place  *)
(* of the tags when a reply is shown as a whole.  All are functions of a   *)
(* sequence of lexemes.                                                    *)
(***************************************************************************)
EXTENDS Lexemes, FiniteSetsExt

\* find(x, from): the first position with P, or 0 for npos.
First(s, from, P(_)) == LET found == {i \in from..Len(s) : P(s[i])}
                        IN IF found = {} THEN 0 ELSE Min(found)

FirstOpen(s, n, from) == First(s, from, LAMBDA x : IsOpen(x, n))
FirstClose(s, n, from) == First(s, from, LAMBDA x : IsClose(x, n))

-----------------------------------------------------------------------------
(* Parsing.                                                                *)

\* A loop of which n turns are enough; a turn that has nothing to do changes
\* nothing.
Repeat(Turn(_), at, n) ==
  LET After[k \in 0 .. n] == IF k = 0 THEN at ELSE Turn(After[k - 1]) IN After[n]

\* find_block, repeated: every opening tag with the content up to its closer.
NextBlock(s, n, at) ==
  LET start == FirstOpen(s, n, at.pos)
      end == FirstClose(s, n, start + 1)
  IN IF start = 0 \/ end = 0 THEN [at EXCEPT !.pos = Len(s) + 1]
     ELSE [blocks |-> Append(at.blocks, [path |-> s[start][3],
                                         content |-> SubSeq(s, start + 1, end - 1)]),
           pos |-> end + 1]
BlocksIn(s, n) ==
  Repeat(LAMBDA at : NextBlock(s, n, at), [blocks |-> <<>>, pos |-> 1], Len(s)).blocks

Named(blocks) == SelectSeq(blocks, LAMBDA b : b.path # "")
Filled(blocks) == SelectSeq(blocks, LAMBDA b : b.content # <<>>)

parse_write_annotations(s) == Named(BlocksIn(s, "write"))

\* The content of the first child tag, nothing when there is none.
ChildContent(s, n) == LET b == BlocksIn(s, n) IN IF b = <<>> THEN <<>> ELSE b[1].content

parse_str_replace_annotations(s) ==
  LET b == Named(BlocksIn(s, "str_replace"))
  IN [i \in DOMAIN b |-> [path |-> b[i].path, old |-> ChildContent(b[i].content, "old"),
                          new |-> ChildContent(b[i].content, "new")]]

parse_search_annotations(s) == Filled(BlocksIn(s, "search"))
parse_exec_tags(s) == BlocksIn(s, "exec")

Trimmed(s) == LET body == {i \in DOMAIN s : s[i] # Nl}
              IN IF body = {} THEN <<>> ELSE SubSeq(s, Min(body), Max(body))
parse_delegate_annotations(s) ==
  LET b == BlocksIn(s, "delegate")
  IN Filled([i \in DOMAIN b |-> [b[i] EXCEPT !.content = Trimmed(@)]])

\* Tags without content; one that lacks an attribute it must have is passed over
\* (its path stands for all of them).
SelvesOf(s, n) == SelectSeq(s, LAMBDA x : IsSelf(x, n) /\ x[3] # "")
parse_read_annotations(s) == SelvesOf(s, "read")
parse_add_line_annotations(s) == SelvesOf(s, "add_line")
parse_delete_line_annotations(s) == SelvesOf(s, "delete_line")

-----------------------------------------------------------------------------
(* fix_malformed_tags.                                                     *)

Repaired == <<"exec", "write", "str_replace", "search">>

\* An opening tag of an annotation, in the table of known tags.
Opens(x, n) == IsOpen(x, n) \/ (n \in {"add_line", "delete_line"} /\ IsSelf(x, n))
Known == {"exec", "write", "str_replace", "search", "add_line", "delete_line"}

\* Mutant of BadCloser: the closers of tags opened inside are bad as well.
BadCloserFirst(s, start) ==
  LET bad == {i \in start + 1..Len(s) : s[i][1] = "close"}
  IN IF bad = {} THEN 0 ELSE Min(bad)

\* The closers after start up to the first that no opener since the one before
\* it, or since start, accounts for: the position of that one, or 0.
BadCloser(s, start) ==
  LET closers == {i \in start + 1..Len(s) : s[i][1] = "close"}
      before(i) == Max({start} \cup {j \in closers : j < i})
      inner(i) == /\ s[i][2] \in Known
                  /\ \E j \in before(i) + 1..i - 1 : Opens(s[j], s[i][2])
      bad == {i \in closers : ~inner(i)}
  IN IF bad = {} THEN 0 ELSE Min(bad)

\* One turn for one kind of tag; at.pos is where the next opening tag is looked for.
NextRepair(n, at) ==
  LET s == at.text
      start == FirstOpen(s, n, at.pos)
      correct == FirstClose(s, n, start)
      next == FirstOpen(s, n, start + 1)
      bad == BadCloser(s, start)
  IN IF start = 0 THEN at
     ELSE IF correct # 0 /\ (next = 0 \/ correct < next) THEN [at EXCEPT !.pos = correct + 1]
     ELSE IF bad = 0 THEN [at EXCEPT !.pos = Len(s) + 1]
     ELSE [text |-> [s EXCEPT ![bad] = Close(n)], pos |-> bad + 1]
RepairKind(s, n) ==
  Repeat(LAMBDA at : NextRepair(n, at), [text |-> s, pos |-> 1], Len(s)).text

fix_malformed_tags(s) ==
  LET After[k \in 0 .. Len(Repaired)] ==
        IF k = 0 THEN s ELSE RepairKind(After[k - 1], Repaired[k])
  IN After[Len(Repaired)]

-----------------------------------------------------------------------------
(* strip_annotations and strip_exec_annotations.  A label stands for the   *)
(* text that tells the user of an action.                                  *)

Label(n, p) == <<"label", n, p>>

\* The block that begins at start is replaced by its label and keep, the part
\* of its content the label repeats; then the search starts anew.
Replace(s, start, end, with) == SubSeq(s, 1, start - 1) \o with \o SubSeq(s, end + 1, Len(s))

StripWrite(s) ==
  LET start == First(s, 1, LAMBDA x : IsOpen(x, "write") /\ x[3] # "")
      end == FirstClose(s, "write", start)
  IN IF start = 0 \/ end = 0 THEN s
     ELSE Replace(s, start, end, <<Label("write", s[start][3])>>)
StripWrites(s) == Repeat(StripWrite, s, Len(s))

\* The path is the next one in the text, whatever tag it belongs to.
NamesPath(x) == /\ x[3] # ""
                /\ IsOpen(x, "str_replace") \/ x[1] = "self"
StripReplace(s) ==
  LET start == FirstOpen(s, "str_replace", 1)
      named == First(s, start, NamesPath)
      end == FirstClose(s, "str_replace", start)
  IN IF start = 0 \/ named = 0 \/ end = 0 THEN s
     ELSE Replace(s, start, end, <<Label("str_replace", s[named][3])>>)
StripReplaces(s) == Repeat(StripReplace, s, Len(s))

StripSelves(s) == [i \in DOMAIN s |-> IF s[i][1] = "self" THEN Label(s[i][2], s[i][3]) ELSE s[i]]

\* The label of a search or a command repeats its content.
StripEcho(s, n) ==
  LET start == FirstOpen(s, n, 1)
      end == FirstClose(s, n, start)
  IN IF start = 0 \/ end = 0 THEN s
     ELSE Replace(s, start, end, <<Label(n, "")>> \o SubSeq(s, start + 1, end - 1))
StripEchoed(s, n) == Repeat(LAMBDA t : StripEcho(t, n), s, Len(s))

strip_annotations(s) == StripEchoed(StripSelves(StripReplaces(StripWrites(s))), "search")

\* What is left of these tags is erased.
Erased(x) == x[1] \in {"open", "close"} /\ x[2] \in {"exec", "write", "str_replace", "search"}
strip_exec_annotations(s) == SelectSeq(StripEchoed(s, "exec"), LAMBDA x : ~Erased(x))
=============================================================================
