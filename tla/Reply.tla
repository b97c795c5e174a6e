------------------------------- MODULE Reply -------------------------------
(***************************************************************************)
(* One reply of the model: what is shown while it streams, what is shown   *)
(* when it is not streamed, and what handle_response takes from it.        *)
(***************************************************************************)
EXTENDS Whole, Tags

-----------------------------------------------------------------------------
(* handle_response.                                                        *)

HasAnnotations(s) ==
  \/ parse_write_annotations(s) # <<>> \/ parse_str_replace_annotations(s) # <<>>
  \/ parse_read_annotations(s) # <<>> \/ parse_exec_tags(s) # <<>>
  \/ parse_search_annotations(s) # <<>> \/ parse_delegate_annotations(s) # <<>>

\* What a reply that is not streamed looks like on the terminal.
Buffered(s) == IF HasAnnotations(s) THEN strip_exec_annotations(strip_annotations(s)) ELSE s

-----------------------------------------------------------------------------
(* Properties.                                                             *)

\* The closing tags that are their opener's next tag, whatever they are called.
IsTag(x) == x[1] \in {"open", "close", "self"}
Leaf(s, i, j) == /\ i < j /\ s[i][1] = "open" /\ s[j][1] = "close"
                 /\ \A k \in i + 1..j - 1 : ~IsTag(s[k])
Leaves(s) == {p \in (DOMAIN s) \X (DOMAIN s) : Leaf(s, p[1], p[2])}
IsRepaired(n) == \E i \in DOMAIN Repaired : Repaired[i] = n

\* A reply whose annotations are one after another, each with one closing tag, its
\* own or one of a name that is no annotation's, comes out of the repair with the
\* right ones (fix_malformed_tags: "<exec>cmd</bash> instead of <exec>cmd</exec>").
RepairRestores ==
  LET ends == {p[2] : p \in Leaves(raw)}
      opener(j) == (CHOOSE p \in Leaves(raw) : p[2] = j)[1]
  IN Ended /\ (\A i \in DOMAIN raw : IsTag(raw[i]) =>
                 \/ raw[i][1] = "self"
                 \/ i \in ends /\ raw[i][2] \in {Foreign, raw[opener(i)][2]}
                 \/ \E p \in Leaves(raw) : p[1] = i /\ IsRepaired(raw[i][2]))
     => fix_malformed_tags(raw) =
          [i \in DOMAIN raw |-> IF i \in ends THEN Close(raw[opener(i)][2]) ELSE raw[i]]

\* The repair of one annotation never breaks another that is complete: what the
\* parsers find in a broken reply they find after it, up to the first that has a
\* tag inside, which the repair may take for an annotation without its closing tag.
RepairSpares ==
  LET Plain(b) == \A j \in DOMAIN b.content : ~IsTag(b.content[j])
  IN Ended => \A n \in {"exec", "write", "search"} :
       LET found == BlocksIn(raw, n)
           after == BlocksIn(fix_malformed_tags(raw), n)
       IN \A k \in DOMAIN found : (\A i \in 1 .. k : Plain(found[i]))
            => k \in DOMAIN after /\ after[k] = found[k]

\* "replaces the wrong closing tag with the correct one": what is complete in a
\* reply, whatever tags are inside of it, is found after the repair and ends there.
WrongOnly ==
  Ended => \A n \in {"exec", "write", "search"} :
    LET found == BlocksIn(raw, n)
        after == BlocksIn(fix_malformed_tags(raw), n)
    IN \A k \in DOMAIN found : \E i \in DOMAIN after : after[i].path = found[k].path
                                  /\ Len(after[i].content) = Len(found[k].content)

\* The repair of broken closing tags does what its table promises and no harm
\* besides, whatever annotations a reply has and in whatever order they come.
RepairIsSafe == RepairRestores /\ RepairSpares

\* "so raw XML never reaches the user"
NoRawTags == Ended => \A i \in DOMAIN Buffered(raw) : ~IsTag(Buffered(raw)[i])

\* "Hide annotation tags - processed separately after streaming".  A tag that is
\* complete and names its file is processed once its line has been hidden.
HiddenIsProcessed ==
  Ended /\ (\E i \in DOMAIN raw : raw[i][1] = "self" /\ raw[i][3] # "")
    => HasAnnotations(fix_malformed_tags(raw))
============================================================================
