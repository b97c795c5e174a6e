------------------------------- MODULE Stored -------------------------------
(***************************************************************************)
(* The messages of a session on their way elsewhere: to and from a model,  *)
(* in the list of named hosts, in a search and in a planner's plan.        *)
(***************************************************************************)
EXTENDS Prompts, Session

Beyond == "\\xe9"       \* a character beyond ASCII, which JSON may write as \u00e9

-----------------------------------------------------------------------------
(* Requests and replies.                                                   *)

\* The images of a message are left out.
build_messages_json(msgs) ==
  <<"[">> \o Listed([i \in DOMAIN msgs |->
                       <<"{">> \o Field(Role, msgs[i].role) \o <<",">>
                         \o Field(<<"content">>, escape_json(msgs[i].content)) \o <<"}">>], <<>>)
    \o <<"]">>

\* ollama_chat, ollama_chat_stream: the text of one object the server sends.
ReplyIn(body) == json_extract_string(json_extract_object(body, <<"message">>), <<"content">>)
\* ollama_generate.
GenerateBody(prompt) ==
  <<"{">> \o Str(<<"prompt">>) \o <<":", " ">> \o Str(escape_json(prompt)) \o <<"}">>
ResponseIn(body) == json_extract_string(body, <<"response">>)

\* What the server sends, for one way to write the text.
Sent(e) ==
  <<"{">> \o Str(<<"message">>) \o <<":", "{">> \o Field(Role, <<"assistant">>) \o <<",">>
    \o Field(<<"content">>, e) \o <<"}", ",">> \o Field(<<"response">>, e)
    \o <<",">> \o Str(<<"done">>) \o <<":", "true", "}">>

-----------------------------------------------------------------------------
(* Named hosts and search results.                                         *)

Pair(key, value) == Str(key) \o <<":", " ">> \o Str(value)

\* The port is written as it is.
save_hosts_json(hosts) ==
  <<"[", Nl>>
    \o Listed([i \in DOMAIN hosts |->
                 <<" ", "{", " ">> \o Pair(<<"name">>, escape_json(hosts[i].name)) \o <<",", " ">>
                   \o Pair(<<"host">>, escape_json(hosts[i].host)) \o <<",", " ">>
                   \o Pair(<<"port">>, hosts[i].port) \o <<",", " ">>
                   \o Pair(<<"ip">>, escape_json(hosts[i].ip)) \o <<",", " ">>
                   \o Pair(<<"note">>, escape_json(hosts[i].note)) \o <<" ", "}">>], <<Nl>>)
    \o <<"]", Nl>>

HostIn(obj) ==
  LET port == json_extract_string(obj, <<"port">>)
  IN [name |-> json_extract_string(obj, <<"name">>), host |-> json_extract_string(obj, <<"host">>),
      port |-> IF port = <<>> THEN <<"11434">> ELSE port,
      note |-> json_extract_string(obj, <<"note">>), ip |-> json_extract_string(obj, <<"ip">>)]
load_hosts_json(t) ==
  LET objs == Objects(t, 1)
  IN SelectSeq([i \in DOMAIN objs |-> HostIn(objs[i])], LAMBDA h : h.host # <<>>)

\* The first five results with a content.
web_search(body) ==
  LET key == find(body, Str(<<"results">>), 1)
      array == find(body, <<"[">>, key)
      objs == IF key = 0 \/ array = 0 THEN <<>> ELSE Objects(body, array + 1)
      all == [i \in DOMAIN objs |-> [title |-> json_extract_string(objs[i], <<"title">>),
                                     content |-> json_extract_string(objs[i], <<"content">>),
                                     url |-> json_extract_string(objs[i], <<"url">>)]]
      some == SelectSeq(all, LAMBDA r : r.content # <<>>)
  IN SubSeq(some, 1, Min({5, Len(some)}))

\* What the search engine sends.
Found(results) ==
  <<"{">> \o Str(<<"results">>) \o <<":", " ", "[">>
    \o Listed([i \in DOMAIN results |->
                 <<"{">> \o Pair(<<"url">>, escape_json(results[i].url)) \o <<",", " ">>
                   \o Pair(<<"title">>, escape_json(results[i].title)) \o <<",", " ">>
                   \o Pair(<<"content">>, escape_json(results[i].content)) \o <<"}">>], <<" ">>)
    \o <<"]", "}">>

-----------------------------------------------------------------------------
(* Task plans.                                                             *)

Tools == {"read", "write", "str_replace", "exec", "git"}
string_to_tool(s) == IF Len(s) = 1 /\ s[1] \in Tools THEN s ELSE <<"read">>
Inputs == <<"path", "cmd", "old", "new", "content", "branch">>

\* The inputs a step has, in the order they are looked for.
InputsOf(value) ==
  LET pairs == [i \in DOMAIN Inputs |-> <<Inputs[i], value[Inputs[i]]>>]
  IN SelectSeq(pairs, LAMBDA p : p[2] # <<>>)

\* One step of a plan, read from its object.
StepIn(obj) ==
  LET input == json_extract_object(obj, <<"input">>)
  IN [id |-> json_extract_int(obj, <<"id">>),
      tool |-> string_to_tool(json_extract_string(obj, <<"tool">>)),
      action |-> json_extract_string(obj, <<"action">>),
      input |-> InputsOf([k \in Range(Inputs) |-> json_extract_string(input, <<k>>)])]

\* Braces are counted in strings too; an object that has no end is its brace.
ObjectEnd(t, start) ==
  LET Count(c, i) == Cardinality({j \in start .. i : t[j] = c})
      ends == {i \in start .. Len(t) : Count("{", i) = Count("}", i)}
  IN IF ends = {} THEN start ELSE Min(ends)

StepsIn(t, pos) ==
  LET From[p \in 1 .. Len(t) + 1] ==
        LET start == find(t, <<"{">>, p)
            end == ObjectEnd(t, start)
            next == FirstOf({i \in end + 1 .. Len(t) : t[i] \notin Blank \cup {","}})
        IN IF start = 0 THEN <<>>
           ELSE <<StepIn(SubSeq(t, start, end))>>
                  \o (IF next # 0 /\ t[next] = "]" THEN <<>> ELSE From[end + 1])
  IN From[pos]

parse_task_plan(t) ==
  LET key == find(t, Str(<<"steps">>), 1)
      array == find(t, <<"[">>, key)
  IN [goal |-> json_extract_string(t, <<"goal">>),
      steps |-> IF key = 0 \/ array = 0 THEN <<>> ELSE StepsIn(t, array + 1)]

\* Nothing is escaped.
serialize_task_plan(plan) ==
  LET Input(s) == IF s.input = <<>> THEN <<>>
                  ELSE <<",">> \o Str(<<"input">>) \o <<":", "{">>
                         \o Listed([j \in DOMAIN s.input |-> Field(<<s.input[j][1]>>, s.input[j][2])], <<>>)
                         \o <<"}">>
      Step(s) == <<"{">> \o Str(<<"id">>) \o <<":", ToString(s.id), ",">>
                   \o Field(<<"tool">>, s.tool) \o <<",">> \o Field(<<"action">>, s.action) \o <<",">>
                   \o Field(<<"status">>, <<"pending">>) \o Input(s) \o <<"}">>
  IN <<"{">> \o Field(<<"goal">>, plan.goal) \o <<",">> \o Field(<<"status">>, <<"pending">>)
       \o <<",">> \o Str(<<"steps">>) \o <<":", "[">>
       \o Listed([i \in DOMAIN plan.steps |-> Step(plan.steps[i])], <<>>) \o <<"]", "}">>

-----------------------------------------------------------------------------
(* What the JSON standard makes of a text: its strings and marks in order. *)
(* "bad" stands for a text that is no JSON.                                *)

LexedChar(at, c) ==
  LET Add(x) == [at EXCEPT !.cur = Append(@, x), !.mode = "string"]
      bad == [at EXCEPT !.mode = "bad"]
  IN CASE at.mode = "bad" -> at
       [] at.mode = "out" ->
            IF c = Quote THEN [at EXCEPT !.mode = "string", !.cur = <<>>]
            ELSE IF c \in Blank THEN at
            ELSE [at EXCEPT !.out = Append(@, [kind |-> "mark", text |-> <<c>>])]
       [] at.mode = "string" ->
            IF c = Quote THEN [at EXCEPT !.out = Append(@, [kind |-> "string", text |-> at.cur]),
                                         !.mode = "out"]
            ELSE IF c = Bs THEN [at EXCEPT !.mode = "escape"]
            ELSE IF c \in {Nl, Tab, Cr, Control} THEN bad ELSE Add(c)
       [] at.mode = "escape" ->
            IF c = "u" THEN [at EXCEPT !.mode = "hex"]
            ELSE IF c \in DOMAIN Escapes THEN Add(Escapes[c]) ELSE bad
       [] at.mode = "hex" -> IF c = "00e9" THEN Add(Beyond)
                             ELSE IF c \in DOMAIN Hex /\ Hex[c] # <<>> THEN Add(Hex[c][1]) ELSE bad

RECURSIVE LexedFrom(_, _, _)
LexedFrom(t, i, at) == IF i > Len(t) THEN at ELSE LexedFrom(t, i + 1, LexedChar(at, t[i]))
Lexed(t) ==
  LET last == LexedFrom(t, 1, [mode |-> "out", cur |-> <<>>, out |-> <<>>])
  IN IF last.mode = "out" THEN last.out ELSE <<[kind |-> "bad", text |-> <<>>]>>

-----------------------------------------------------------------------------
(* Properties.                                                             *)

Marks(cs) == [i \in DOMAIN cs |-> [kind |-> "mark", text |-> <<cs[i]>>]]
String(s) == <<[kind |-> "string", text |-> s]>>

\* What a reader of JSON finds in a list of messages.
Conversation(msgs) ==
  Marks(<<"[">>)
    \o FlattenSeq([i \in DOMAIN msgs |->
         Marks(<<"{">>) \o String(Role) \o Marks(<<":">>) \o String(msgs[i].role) \o Marks(<<",">>)
           \o String(<<"content">>) \o Marks(<<":">>) \o String(msgs[i].content)
           \o Marks(IF i < Len(msgs) THEN <<"}", ",">> ELSE <<"}">>)])
    \o Marks(<<"]">>)

\* The ways to write s in JSON, each with what it leaves of s when \u escapes beyond
\* ASCII are passed over.
Encodings(s) ==
  LET Digits4(c) == IF c = Beyond THEN {"00e9"} ELSE {h \in DOMAIN Hex : Hex[h] = <<c>>}
      Forms(c) == {Escaped(c)} \cup {<<Bs, "u", h>> : h \in Digits4(c)}
                     \cup (IF c = "/" THEN {<<Bs, "/">>} ELSE {})
      Left(c, f) == IF f = <<Bs, "u", "00e9">> THEN <<>> ELSE <<c>>
      More(es, c) == {[text |-> e.text \o f, left |-> e.left \o Left(c, f)] : e \in es, f \in Forms(c)}
  IN FoldLeft(More, {[text |-> <<>>, left |-> <<>>]}, s)

\* Whatever the characters of a conversation, the request and the session file are
\* JSON that says just that; the reply is read as it was meant, however the server
\* writes it, but for the characters beyond ASCII it writes as \u escapes, which are
\* dropped and nothing with them (decode_unicode_escape); hosts and search results
\* come back whole; and so does a plan of plain text.
JsonComesThrough ==
  LET text(i) == said[i].content
      hosts == [i \in DOMAIN said |-> [name |-> text(i), host |-> <<"h">> \o text(i), port |-> <<"1">>,
                                       note |-> text(i), ip |-> text(i)]]
      results == [i \in DOMAIN said |-> [title |-> text(i), content |-> text(i), url |-> text(i)]]
      plain == \A i \in DOMAIN said : Range(text(i)) \cap {Quote, Bs, "{", "}"} = {}
      steps == [i \in DOMAIN said |->
                  [id |-> i, tool |-> <<"exec">>, action |-> text(i),
                   input |-> IF text(i) = <<>> THEN <<>> ELSE <<<<"cmd", text(i)>>>>]]
      plan == [goal |-> IF said = <<>> THEN <<>> ELSE text(1), steps |-> steps]
  IN /\ Lexed(build_messages_json(said)) = Conversation(said)
     /\ Lexed(save_session(said)) = Conversation(said)
     /\ \A i \in DOMAIN said :
          /\ Lexed(GenerateBody(text(i))) = Marks(<<"{">>) \o String(<<"prompt">>) \o Marks(<<":">>)
                                              \o String(text(i)) \o Marks(<<"}">>)
          /\ \A e \in Encodings(text(i)) :
               /\ Lexed(Str(e.text)) = String(text(i))
               /\ ReplyIn(Sent(e.text)) = e.left /\ ResponseIn(Sent(e.text)) = e.left
     /\ load_hosts_json(save_hosts_json(hosts)) = hosts
     /\ web_search(Found(results)) = SelectSeq(results, LAMBDA r : r.content # <<>>)
     /\ plain => parse_task_plan(serialize_task_plan(plan)) = plan

\* A model that is a program gets the whole conversation as one word, whatever the
\* shell makes of quotes; its colours go and nothing else does; a <read> shows the
\* lines of the file under their numbers, every hit and all lines asked for; a
\* sub-agent sees an end of the conversation and then its task; the query of a
\* search, an @agent and the target of a task are understood as they were written.
PromptsComeThrough ==
  LET prompt == collapse_history(said, <<"User", ":", " ">>)
      plainly(s) == s # <<>> /\ Range(s) \cap {Quote, " ", Nl, Esc} = {}
  IN /\ ShellWords(CommandLine(<<"tgpt">>, prompt)) = <<<<"tgpt">>, prompt>>
     /\ ShellWords(Piped(prompt)) = <<<<"echo">>, prompt>>
     /\ \A i \in DOMAIN said :
          LET s == said[i].content
              n == Len(LinesOf(s))
              rows(r) == \A k \in DOMAIN r : r[k][1] \in 1 .. n /\ r[k][2] = LinesOf(s)[r[k][1]]
              shown(r) == {r[k][1] : k \in DOMAIN r}
          IN /\ \A j \in 0 .. Len(s) :
                  strip_ansi(SubSeq(s, 1, j) \o <<Esc, "[", "0", "m">> \o SubSeq(s, j + 1, Len(s))) = s
             /\ \A from \in 1 .. n + 1, to \in 1 .. n + 1 :
                  LET r == process_read(s, <<>>, from, to)
                  IN rows(r) /\ Len(r) = Cardinality(shown(r)) /\ shown(r) = (from .. to) \cap (1 .. n)
             /\ \A w \in {<<c>> : c \in Range(s) \ {Nl}} :
                  LET r == process_read(s, w, 0, 0)
                  IN rows(r) /\ {k \in 1 .. n : Has(LinesOf(s)[k], w)} \subseteq shown(r)
             /\ Decoded(url_encode(s)) = s
             /\ LET msgs == invoke_internal(<<"system">>, s, said)
                IN /\ msgs[1].role = <<"system">> /\ IsSuffix(SubSeq(msgs, 2, Len(msgs) - 1), said)
                   /\ msgs[Len(msgs)] = Message("user", s) /\ Len(msgs) <= Recent + 2
             /\ plainly(s) =>
                  /\ parse_mention(<<"@">> \o s \o <<" ">> \o s) = [agent |-> s, prompt |-> s]
                  /\ LET target == s \o <<"@">> \o s \o <<":", "1">>
                         line == <<" ", " ">> \o s \o <<":", " ">> \o Str(target)
                     IN resolve_delegation(<<RolesLine, line>>, s)
                          = [model |-> s, host |-> s, port |-> <<"1">>]

\* What is said, listed, found and planned reaches whoever reads it as it was meant,
\* as JSON (escape_json, json_extract_string; the escapes above are the exception)
\* and as plain text (shell_escape and the others).
TextsComeThrough == JsonComesThrough /\ PromptsComeThrough

\* "Detect error responses": an answer that speaks of errors is an answer.
AnswersKept ==
  \A i \in DOMAIN said : \A w \in {<<>>, <<"Error", ":", " ">>, <<">", " ">>} :
    LET answer == w \o said[i].content
    IN TgptReply(answer) = answer /\ GeminiReply(answer) = answer
         /\ (Esc \notin Range(answer) => KiroReply(answer) = answer)

\* "session roundtrip preserves special characters".
SessionKept == whole => load_session(file) = written

\* "Handles malformed JSON gracefully - returns empty plan on failure": what is
\* left of a plan that was cut off.
PlanOrNothing ==
  LET plan == [goal |-> <<"goal">>,
               steps |-> [i \in DOMAIN said |-> [id |-> i, tool |-> <<"exec">>, action |-> <<"run">>,
                                                 input |-> <<<<"cmd", <<"ls">>>>>>]]]
      t == serialize_task_plan(plan)
  IN \A n \in 0 .. Len(t) : IsPrefix(parse_task_plan(SubSeq(t, 1, n)).steps, plan.steps)
=============================================================================
