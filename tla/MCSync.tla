------------------------------- MODULE MCSync -------------------------------
(* Two runs that share a session and two files, one of them outside the       *)
(* sandbox, where there is none at first; a link that may lead to either.     *)
EXTENDS Sync, TLC

Tag(kind, path) ==
  [kind |-> kind, path |-> path, old |-> "a", new |-> "b", line |-> 1, safe |-> FALSE,
   writes |-> {}]
Nothing == [k \in Kinds |-> <<>>]
One(t) == [Nothing EXCEPT ![t.kind] = <<t>>]

\* The text of the reply may hold any of these.
MCReplies ==
  { Nothing,
    [Nothing EXCEPT !["read"] = <<Tag("read", "file")>>, !["write"] = <<Tag("write", "link")>>],
    [Nothing EXCEPT !["str_replace"] = <<Tag("str_replace", "link")>>,
                    !["add_line"] = <<[Tag("add_line", "file") EXCEPT !.line = 9]>>],
    [Nothing EXCEPT !["exec"] = <<[Tag("exec", "file") EXCEPT !.safe = TRUE]>>,
                    !["delete_line"] = <<Tag("delete_line", "link")>>],
    One([Tag("exec", "link") EXCEPT !.writes = {"out"}]) }
MCStart ==
  [at |-> [p \in Paths |-> "in"],
   disk |-> [p \in Places |-> IF p = "in" THEN <<"a", "c">> ELSE Absent]]
\* The link leads to a place outside where there is no file (for SandboxHolds).
MCDangling == [MCStart EXCEPT !.at["link"] = "out"]
MCCaps == {{"read"}, {"read", "write", "exec"}}
=============================================================================
