------------------------------ MODULE MCStored ------------------------------
EXTENDS Stored

MCChars == {Quote, Bs, Nl, Control, "n", "r", "ole", "{"}
MCTexts == UNION {[1 .. n -> MCChars] : n \in 0 .. 2} \cup {<<Quote, "r", "ole">>, <<Bs, "r", "ole">>}
             \cup {<<Tick>>, <<Tick, Tick>>, <<Bs, Tick>>, <<Tick, Bs>>, <<Tick, "n">>}
             \cup {<<Beyond>>, <<Beyond, Beyond>>, <<Bs, Beyond>>, <<Beyond, Quote>>, <<"n", Beyond>>}

\* A user and an assistant take turns.
Turns == \A i \in DOMAIN said : said[i].role = <<IF i % 2 = 1 THEN "user" ELSE "assistant">>
=============================================================================
