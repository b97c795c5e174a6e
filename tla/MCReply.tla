------------------------------ MODULE MCReply ------------------------------
EXTENDS Reply

MCPaths == {"", "f"}

\* Chunks of the two kinds of reply, and what occurs in both.
Both == {<<Word>>, <<Nl>>, <<Self("read", "f")>>}
Prose == Both \cup {<<Bar, Word, Nl>>, <<Bar>>, <<Fence, Nl>>, <<Fence, Mermaid, Nl>>,
                    <<Fence, Blank, Mermaid, Nl>>, <<Blank>>,
                    <<Hash, Word>>, <<Rule>>, <<Dash>>, <<FirstHalf>>, <<OtherHalf, Nl>>, <<Address>>}
Annotated == Both \cup {<<Open("exec", ""), Word>>, <<Close("exec")>>, <<Close(Foreign)>>,
                        <<Open("write", "f"), Word>>, <<Close("write")>>,
                        <<Open("str_replace", "f"), Open("old", ""), Word, Close("old"),
                          Open("new", ""), Word, Close("new")>>, <<Close("str_replace")>>,
                        <<Open("search", ""), Word>>, <<Close("search")>>,
                        <<Open("delegate", ""), Word, Close("delegate")>>,
                        <<Self("add_line", "f")>>, <<Open("write", "")>>}
MCTokens == Prose \cup Annotated

\* A reply is of one kind; the parsers know neither colours nor masks.
Within(tokens) == \A i \in DOMAIN raw : \E t \in tokens : \E j \in DOMAIN t : t[j] = raw[i]
OneKind == Within(Prose) \/ (Within(Annotated) /\ ~masking /\ color)
============================================================================
