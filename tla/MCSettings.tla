----------------------------- MODULE MCSettings -----------------------------
(* Two sessions, two Ollama hosts that share a model, and the programs        *)
(* installed; .env begins with a model that is gone and a line of the         *)
(* user's own.                                                                *)
EXTENDS Settings, TLC

H1 == <<"h1", "p1">>
H2 == <<"h2", "p2">>
Entry(p, m, at, sweet) == [provider |-> p, model |-> m, at |-> at, sweet |-> sweet]

MCNames == STRING
Perms == Permutations(Sessions)

MCCatalog ==
  << Entry("ollama", "small", H1, FALSE), Entry("ollama", "medium", H1, TRUE),
     Entry("ollama", "medium", H2, TRUE), Entry("gemini", "gemini-pro", Cloud, FALSE),
     Entry("sgpt", "sgpt-default", Cloud, FALSE) >>
MCFound == <<H1, H2>>
MCTyped == {"ollama", "typo"}

Conf(p, m, h, port) ==
  [k \in Keys |-> CASE k = "provider" -> p [] k = "model" -> m [] k = "host" -> h
                    [] k = "port" -> port [] OTHER -> Unset]
MCDefaults == [Conf("tgpt", "auto", "h1", "p1") EXCEPT !["hosts"] = ""]
MCEnvironments == {Conf(Unset, Unset, Unset, Unset)}
MCArguments ==
  {Conf(Unset, Unset, Unset, Unset), Conf("mock", Unset, Unset, Unset),
   Conf("typo", Unset, Unset, Unset),
   Conf("ollama", "medium", "h2", "p2")}
MCFiles == {<<Line("model", "gone"), Line("own", "text")>>}
=============================================================================
