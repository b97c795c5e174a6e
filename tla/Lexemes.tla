------------------------------ MODULE Lexemes ------------------------------
(***************************************************************************)
(* The pieces a reply of the model is made of, as far as the renderer and  *)
(* the annotation parsers tell them apart.  A lexeme is a mark of the      *)
(* markdown, a stretch of prose, or one complete tag with its attributes.  *)
(* What is cut inside a tag reaches no parser and is left out.             *)
(***************************************************************************)
EXTENDS Naturals, Sequences

Mark(m) == <<m, "", "">>
Open(n, p) == <<"open", n, p>>   \* an opening tag; p is the file it names, or ""
Close(n) == <<"close", n, "">>
Self(n, p) == <<"self", n, p>>   \* a tag without content

Word == Mark("word")
Nl == Mark("nl")
Blank == Mark("blank")       \* a space that belongs to no other mark
Bar == Mark("bar")           \* | at the start of a table row
Fence == Mark("fence")       \* ```
Mermaid == Mark("mermaid")   \* the language of a diagram
Hash == Mark("hash")         \* "# "
Quote == Mark("quote")       \* "> "
Dash == Mark("dash")         \* "- "
Rule == Mark("rule")         \* "---"
Address == Mark("address")   \* an IP or mail address, or a key, in one token
FirstHalf == Mark("first half") \* the parts of one that is cut in two
OtherHalf == Mark("other half")
Masked == Mark("masked")     \* what mask_pii puts in its place

Marks == {Word, Nl, Blank, Bar, Fence, Mermaid, Hash, Quote, Dash, Rule,
          Address, FirstHalf, OtherHalf, Masked}

Blocks == {"exec", "write", "str_replace", "search", "delegate", "old", "new"}
Selves == {"read", "add_line", "delete_line"}
Foreign == "bash"            \* a name that closes no annotation

Tags(paths) == {Open(n, p) : n \in Blocks, p \in paths}
                 \cup {Close(n) : n \in Blocks \cup {Foreign}}
                 \cup {Self(n, p) : n \in Selves, p \in paths}

IsOpen(x, n) == x[1] = "open" /\ x[2] = n
IsClose(x, n) == x[1] = "close" /\ x[2] = n
IsSelf(x, n) == x[1] = "self" /\ x[2] = n
============================================================================
