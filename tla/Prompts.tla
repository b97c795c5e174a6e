------------------------------ MODULE Prompts ------------------------------
(***************************************************************************)
(* What a model is told, besides JSON: the one text a conversation becomes *)
(* for a model that is a program, on its command line, and what is made of *)
(* the program's output; the lines a <read> shows; which agent is meant    *)
(* and which model a task is delegated to; a query in a URL.               *)
(*                                                                         *)
(* At the end, a command line and a URL are read as those who get them do. *)
(***************************************************************************)
EXTENDS JsonText

CONSTANTS
  Recent,   \* messages of the history a sub-agent sees (4 in the code)
  Around    \* lines shown before and behind a hit of a <read> (3 in the code)

ASSUME RecentAssumption == Recent \in Nat /\ Around \in Nat

Tick == "'"
Esc == "\\x1b"
Letters == {"m", "n", "r", "ole"}   \* a word ends an escape sequence, too

-----------------------------------------------------------------------------
(* Models that are programs.                                               *)

\* collapse_history; what stands before a user's message differs: opencode, nothing.
collapse_history(msgs, user) ==
  LET Before(role) == CASE role = <<"system">> -> <<"System", ":", " ">>
                        [] role = <<"user">> -> user
                        [] OTHER -> <<"Assistant", ":", " ">>
  IN FlattenSeq([i \in DOMAIN msgs |->
       IF msgs[i].role \in {<<"system">>, <<"user">>, <<"assistant">>}
       THEN Before(msgs[i].role) \o msgs[i].content \o <<Nl>> ELSE <<>>])

\* Mutant of shell_escape: a quote is escaped within the quotes.
shell_escapeInside(s) ==
  <<Tick>> \o FlattenSeq([i \in DOMAIN s |-> IF s[i] = Tick THEN <<Bs, Tick>> ELSE <<s[i]>>])
    \o <<Tick>>

\* Everything in single quotes, which a single quote leaves for a moment.
shell_escape(s) ==
  <<Tick>>
    \o FlattenSeq([i \in DOMAIN s |-> IF s[i] = Tick THEN <<Tick, Bs, Tick, Tick>> ELSE <<s[i]>>])
    \o <<Tick>>

\* KiroProvider::chat, and the others: the program, its options, the prompt.
CommandLine(program, prompt) == program \o <<" ">> \o shell_escape(prompt)
\* OpenCodeProvider::chat, invoke_opencode: the prompt goes through echo.
Piped(prompt) == <<"echo", " ">> \o shell_escape(prompt)

\* Everything from an escape character to the next letter goes.
strip_ansi(s) ==
  LET step(at, c) == IF c = Esc THEN [at EXCEPT !.in = TRUE]
                     ELSE IF at.in THEN [at EXCEPT !.in = c \notin Letters]
                     ELSE [at EXCEPT !.out = Append(@, c)]
  IN FoldLeft(step, [in |-> FALSE, out |-> <<>>], s).out

Failure == <<"[error]">>
Has(s, w) == find(s, w, 1) # 0

\* What the chat of each class makes of the output of a program that succeeded.
KiroReply(output) ==
  LET clean == strip_ansi(output)
  IN IF Len(clean) > 2 /\ SubSeq(clean, 1, 2) = <<">", " ">> THEN SubSeq(clean, 3, Len(clean))
     ELSE clean
OpenCodeReply(output) == strip_ansi(output)
TgptReply(output) ==
  IF Has(output, <<"Error", ":">>) \/ Has(output, Str(<<"error">>)) THEN Failure ELSE output

\* An error of gemini gives its message, if it has one.
GeminiReply(output) ==
  LET key == find(output, Str(<<"message">>) \o <<":">>, 1)
      start == find(output, <<Quote>>, key + 4)
      end == find(output, <<Quote>>, start + 1)
  IN IF \A w \in {<<"Error", ":">>, Str(<<"error">>), <<"at async">>, <<"RESOURCE_EXHAUSTED">>} :
          ~Has(output, w)
     THEN output
     ELSE IF key = 0 THEN Failure
     ELSE Failure \o SubSeq(output, start + 1, (IF end = 0 THEN Len(output) + 1 ELSE end) - 1)

-----------------------------------------------------------------------------
(* Sub-agents and delegation.                                              *)

\* @agent prompt; NoMention where the name or the prompt is missing.
NoMention == [agent |-> <<>>, prompt |-> <<>>]
parse_mention(input) ==
  LET space == find(input, <<" ">>, 2)
      agent == SubSeq(input, 2, space - 1)
      prompt == SubSeq(input, space + 1, Len(input))
  IN IF input = <<>> \/ input[1] # "@" \/ space = 0 \/ agent = <<>> \/ prompt = <<>> THEN NoMention
     ELSE [agent |-> agent, prompt |-> prompt]

\* invoke_internal: the agent's own prompt, the end of the history, the task.
invoke_internal(system, prompt, history) ==
  LET message(role, content) == [role |-> <<role>>, content |-> content]
      from == IF Len(history) > Recent THEN Len(history) - Recent + 1 ELSE 1
  IN (IF system = <<>> THEN <<>> ELSE <<message("system", system)>>)
       \o SelectSeq(SubSeq(history, from, Len(history)), LAMBDA m : m.role # <<"system">>)
       \o <<message("user", prompt)>>

\* model@host:port.
parse_target(value) ==
  LET at == find(value, <<"@">>, 1)
      server == SubSeq(value, at + 1, Len(value))
      colon == find(server, <<":">>, 1)
  IN IF at = 0 THEN [model |-> value, host |-> <<>>, port |-> <<>>]
     ELSE [model |-> SubSeq(value, 1, at - 1),
           host |-> IF colon = 0 THEN server ELSE SubSeq(server, 1, colon - 1),
           port |-> SubSeq(server, IF colon = 0 THEN Len(server) + 1 ELSE colon + 1, Len(server))]

\* What is left of s without those characters in front and at the back.
Trimmed(s, front, back) ==
  LET first == Min({i \in DOMAIN s : s[i] \notin front} \cup {Len(s) + 1})
      last == Max({i \in first .. Len(s) : s[i] \notin back} \cup {0})
  IN SubSeq(s, first, last)

\* load_config: the indented lines below "roles:", the last of a role.
RolesLine == <<"roles", ":">>
RoleIn(line) ==
  LET colon == find(line, <<":">>, 1)
  IN [role |-> Trimmed(SubSeq(line, 1, colon - 1), {" "}, {}),
      value |-> IF colon = 0 THEN <<>>
                ELSE Trimmed(SubSeq(line, colon + 1, Len(line)), {" ", Quote}, {" ", Quote})]
resolve_delegation(lines, type) ==
  LET of(i) == RoleIn(lines[i])
      listed == {i \in DOMAIN lines :
                   /\ \E j \in 1 .. i - 1 : lines[j] \in {RolesLine, RolesLine \o <<" ">>}
                   /\ Len(lines[i]) > 2 /\ lines[i][1] = " "
                   /\ of(i).role = type /\ type # <<>> /\ of(i).value # <<>>}
  IN IF listed = {} THEN parse_target(<<>>) ELSE parse_target(of(Max(listed)).value)

-----------------------------------------------------------------------------
(* Reading a file.                                                         *)

\* getline, to the end of the file.
LinesOf(text) ==
  LET ends == {i \in DOMAIN text : text[i] = Nl}
      starts == {1} \cup {i + 1 : i \in ends}
      begins == SetToSortSeq({i \in starts : i <= Len(text)}, <)
      end(i) == Min({j \in ends : j >= i} \cup {Len(text) + 1})
  IN [k \in DOMAIN begins |-> SubSeq(text, begins[k], end(begins[k]) - 1)]

Numbered(lines, from, to) == [k \in 1 .. to - from + 1 |-> <<from + k - 1, lines[from + k - 1]>>]

\* process_read: the lines around each with the search text; those from..to, both
\* given; or the whole text.
process_read(text, search, from, to) ==
  LET lines == LinesOf(text)
      hits == SetToSortSeq({i \in DOMAIN lines : Has(lines[i], search)}, <)
      around(i) == Numbered(lines, Max({1, i - Around}), Min({Len(lines), i + Around}))
  IN IF search # <<>> THEN FlattenSeq([h \in DOMAIN hits |-> around(hits[h])])
     ELSE IF from > 0 /\ to > 0 THEN Numbered(lines, Max({1, from}), Min({Len(lines), to}))
     ELSE <<<<0, text>>>>

\* url_encode: what stands for itself, and two digits for anything else.
Unreserved == {"n", "r", "ole"}
url_encode(s) ==
  FlattenSeq([i \in DOMAIN s |-> IF s[i] = " " THEN <<"+">>
                                 ELSE IF s[i] \in Unreserved THEN <<s[i]>> ELSE <<"%", s[i]>>])

-----------------------------------------------------------------------------
(* How others read these texts.                                            *)

\* The shell: the words of a command, or <<>> if it is not one simple command.
Plainly == {"n", "r", "ole", "m", "tgpt", "echo"}
ShellWords(t) ==
  LET add(at, c) == [at EXCEPT !.word = Append(@, c), !.some = TRUE]
      step(at, c) ==
        CASE at.mode = "bad" -> at
          [] at.mode = "quoted" -> IF c = Tick THEN [at EXCEPT !.mode = "out"] ELSE add(at, c)
          [] at.mode = "escaped" -> [add(at, c) EXCEPT !.mode = "out"]
          [] at.mode = "out" /\ c = Tick -> [at EXCEPT !.mode = "quoted", !.some = TRUE]
          [] at.mode = "out" /\ c = Bs -> [at EXCEPT !.mode = "escaped"]
          [] at.mode = "out" /\ c = " " ->
               [at EXCEPT !.words = IF at.some THEN Append(@, at.word) ELSE @, !.word = <<>>, !.some = FALSE]
          [] at.mode = "out" /\ c \in Plainly -> add(at, c)
          [] OTHER -> [at EXCEPT !.mode = "bad"]
      last == FoldLeft(step, [mode |-> "out", words |-> <<>>, word |-> <<>>, some |-> FALSE],
                       t \o <<" ">>)
  IN IF last.mode = "out" THEN last.words ELSE <<>>

\* The server that gets the URL.
Decoded(q) ==
  LET From[i \in 1 .. Len(q) + 1] ==
        IF i > Len(q) THEN <<>>
        ELSE IF q[i] = "%" /\ i < Len(q) THEN <<q[i + 1]>> \o From[i + 2]
        ELSE <<IF q[i] = "+" THEN " " ELSE q[i]>> \o From[i + 1]
  IN From[1]
=============================================================================
