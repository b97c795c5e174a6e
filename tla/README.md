# A verification of llama-cli

llama-cli is a terminal client for language models: a REPL that keeps a
conversation, streams replies from a provider (Ollama on one or several hosts,
or a cloud bridge), and carries out the annotations a reply contains (write a
file, replace a string, run a command, delegate a subtask). With a question on
its command line it does the same once, without asking anybody (sync mode). This directory
holds TLA+ models of its core, the TLC configurations that check them on small
instances, and theorems about them checked by TLAPS for every value of the
constants. `PROJECT.json` ties every definition to the lines it models.

Paths below are relative to `src/src/`.

## 1. Inventory

### Components, their state and operations

| Component | State | Operations | What makes it correct |
|---|---|---|---|
| Prompt loop and history (`repl/repl_chat.cpp`, `repl/repl.cpp`, `repl/repl_commands.cpp`) | `history`, `count`, `last_assistant_idx`, the saved chats, `pending_tasks` | send_prompt and its follow-ups, interrupt, trim_history, /clear, /chat save, load, delete, /compress, /agent, /rate, /paste, /image, `!!`, `@agent`, /tasks, exit | a prompt never stays without its reply, a request ends with a user message, an interrupt leaves nothing, one prompt costs a bounded number of calls, the system prompt survives |
| One call to the model (`repl/repl_chat.cpp`, `tui/spinner.cpp`) | `g_interrupted`, the SIGINT handler, a worker thread, a spinner thread, `done`, `result`, `first_token` | start, poll, detach or join, token callback, Spinner::stop, SIGINT | Ctrl-C brings the prompt back whatever the provider does; a reply is the whole reply; spinner and text do not mix |
| Annotation handlers (`repl/repl_annotations.cpp`, `handle_response`) | the user's files, `.tmp/backups`, `trust`, `auto_confirm_write`, the active agent | process_write, process_str_replace, confirm_exec, delegate | nothing happens without consent, a read-only agent is read-only, what is overwritten can be restored |
| Providers (`provider/*.cpp`, `ollama/ollama.cpp`) | the hosts' cached models, `healthy`, `active_idx_` | chat, chat_stream, failover, retry | a call returns what it streamed or nothing, starts over at most once, blames the host that failed, always ends |
| Background tasks (`handle_response`, `/tasks`, `config/delegation.cpp`) | futures of std::async | start, end, collect, wait at exit | results reach the history; a failed task is not waited for |
| Configuration and switching (`config/config.cpp`, `main.cpp`, `provider/provider_factory.cpp`) | the `Config` singleton, `.env`, the provider object | load from four sources, /provider, /host, /use, /model, /scan, switch_prov, save_to_dotenv | provider, host and model belong together; what the user was told is saved; `.env` never keeps the program from starting |
| Model registry and selection (`provider/registry.cpp`, `repl/repl_model.cpp`) | list of models with host and availability | build, sort, select by number or name, fall back | the selected model is on the selected host |
| Sync mode (`sync/*.cpp`, `exec/exec.cpp`, `main.cpp`) | sandbox, capabilities, conversation, session file, a child process | one reply's annotations, follow-ups, session load and save | nothing outside the sandbox, no edit fails in silence, a session loses nothing, every run ends |
| Sessions (`session/session.cpp`) | a JSON file | load, save | a load gives what was saved; what a kill leaves is the beginning of it |
| Text handling (`annotation/annotation.cpp`, `json/json.cpp`, `util/util.cpp`, `ollama/ollama.cpp`, `orchestrator/task.cpp`) | none | parse, repair, strip, escape, extract | a repair breaks nothing, every text comes through |
| Streaming renderer (`tui/markdown_stream.cpp`, `tui/markdown.cpp`) | a line, a table, a diagram, whether a code block is open | a token, the end of the reply | every line is shown once, in order, and as if it had come whole |
| Preferences (`repl/repl_commands.cpp`, `tui/theme.h`) | colours in the theme, the session and `.env`; options, agent, persona, memory | /set, /color, /theme, /agent, /mem, /pref, start and end of a session | what was set stays set |
| Command execution (`exec/exec.cpp`) | a pipe | run with a limit in time and characters | it returns when the command has exited |
| Planner and sub-agents (`planner/`, `orchestrator/`, `agent/`) | a list of tasks with dependencies and status | plan, execute, retry | order of dependencies, no task lost |
| Metrics (`orchestrator/metrics.cpp`) | averages per model | record, score | averages are averages |
| Other providers (`provider/tgpt_provider.cpp` and the like), web search | none that lasts | a command or a request | the prompt reaches the program as it is |
| Network scan, layout, logging | none that lasts | one call each | |

### How they interact

* The main thread reads a line, dispatches it, and calls `send_prompt`. That
  pushes onto the history and starts a worker through `interruptible_chat`; the
  worker calls the provider through a callback that holds `main`'s provider by
  reference; tokens come back on the worker and are rendered there.
* SIGINT sets one flag that the main thread polls and every token callback
  reads. Ctrl-C detaches the worker, so a worker of an earlier call shares the
  flag, the provider, the provider's routing state and the terminal with those
  of later ones.
* `handle_response` runs on the main thread when the reply is whole: it asks
  the user, changes files, runs commands, feeds results back into the history
  (and so causes follow-up calls), and starts background tasks.
* `/provider`, `/host` and `/use` replace the provider object between calls, and
  write `.env`, which every session in the directory reads at its start and
  rewrites with each save.
* Runs of sync mode share the session file and the files they edit with each
  other and with the user; nothing locks any of them.

### What is hard in this code

Interleaving of main thread, workers, spinner threads and a signal handler;
detached workers that outlive what they refer to; an index into a history that
other commands shrink; undo by popping; turns that feed themselves; consent
that is given for one action and remembered as trust; files and backups through
buffered streams that a kill cuts short; retry and failover under one callback
that may decline; waiting for futures at exit; files that processes read,
truncate and rewrite without a lock; a path that is checked under one name and
opened later; one text read by two parsers or shown by two renderers. The list, line by line, is
"hazards" in `PROJECT.json`, each with the properties that would catch it.

## 2. The modules

```
 Conversation          the history, one action per operation
   Chat  ==implements==>  PromptCall      one call, thread by thread
   Router ==implements==> StreamCall      one provider call over many hosts
 Annotations           what a reply does to files, commands and tasks
 Settings              whom a session asks, and the .env sessions share
 Sync                  runs without a user: sandbox, commands, session file
 Preferences           options, colours, agents over several sessions
 Lexemes <- Renderer   a reply shown while it arrives
              Whole    render_lines, the reference of the renderer
         <- Tags       the annotation parsers and the repair of tags
              Reply    Whole and Tags over one reply
 JsonText <- Session   a session file: said, saved, cut off, loaded
             Prompts   texts for the shell, the user's files, sub-agents
             Stored    both: texts through request, reply, host list and plan
```

The two abstract modules are the joints. `PromptCall` is what
`send_prompt` assumes of a call (it is cancelled or it gives the whole text);
Conversation's `Reply` / `Interrupt` and `FollowupReply` /
`InterruptFollowup` are its two outcomes. `StreamCall` is what a worker assumes
of a provider: it takes tokens, declines one after Ctrl-C, and gets a text or
nothing; Chat's `Token`, `Stopped` and `Ended` are those. Annotations refines
what Conversation's `Reply(c, d)` summarises in two numbers, the results fed
back and the tasks started. Settings is where Chat's `SwitchProvider` comes
from. Session says which contents the session file of Sync keeps, where a
message has no content.

### Conversation

State: `history` (a message is its origin and whether it was rated),
`count`, `lastIdx` (last_assistant_idx + 1), the phase of the main thread,
`reminded` and `followups` (locals of send_prompt), `tasks` (how many futures
run, are ready, have failed), `chats`, and the ghost `before`. The main thread
is sequential, so an operation is one action; a prompt is split at its calls to
the model because a background task may end meanwhile. The texts are left out:
every operation looks at roles only, except /compress (whose summary is one
message whatever it says) and the prompt gate, which prints hints.

The escaping that /chat save and load do is not visible here: role and number
of the messages survive it for every content, the content itself may not
(a text that ends in a backslash), and content is not part of this model.

### PromptCall and Chat

`Chat` has the main thread, one worker per call, one spinner per call and the
signal. A step is one access to shared state: the exchange, the joinable test
and the join in `Spinner::stop` are three steps, for both threads that may be
in it. `streaming` and `interactive` choose between the two branches of
`interruptible_chat` and between a terminal and a pipe. `DoubleJoin` and
`UseFreed` are undefined behaviour in the code and given the outcomes it can
have (a std::system_error that nobody catches; a crash, or nothing).

### Annotations

A file is a sequence of fragments; opening an ofstream empties the file,
closing it puts the text there, and `Kill` may come between. Each handler is
split where it waits for the user and where it touches the disk. The order of
annotations in a reply is handle_response's (writes, replacements, commands,
delegations); reads and searches change no file and are left out. `consent`,
`undisturbed` and `replaced` are ghosts that remember on what ground the action
runs, whether somebody else touched the file, and what the last change
overwrote.

### StreamCall and Router

`Router` has the constructor's probe (any set of hosts may be healthy, any of
them may have the model), the choice of the host, one request with its retry,
and failover as four steps (mark, scan, set, read), which is where calls that
overlap meet in `hosts_` and `active_idx_`. Text is a number of tokens. A host
may refuse, drop or answer any request at any time.

### Settings

State, for each session: `cfg` (the five fields of Config that choose whom to
ask), `object` (the provider object: its kind and the settings it copied), the
registry's servers, and the saves it has yet to make; for all of them the lines
of `.env`. A save is three steps, since a kill or another session may come
between reading the file, truncating it and writing it back: `ReadFile`, `CutFile` and
`WriteFile`. `switch_prov` and `create_provider` are operators every command uses,
as in the code; which servers answer is chosen anew at every request. Where
`create_provider` rejects a name, its exception ends the session (`Become`), but
for a choice from the list of /model by number, whose `catch (...)` swallows it
(`Swallowed`): the settings are then the new ones and the object the old one. The
start is two actions, `LoadConfig` for the four sources and `StartRepl` for the
detection, the choice of a model and the fallback before the first prompt.

### Sync

A run goes from the question over the request, the annotations one at a time,
the next request, to the save. A path leads to a place, where there may be no
file, and `Move` lets it lead elsewhere at any time; an edit is checked, read,
opened and written in four steps. The check is path_allowed's (`Allowed`): the
place of the path, or, if nothing is there, the directory the path names, which
for a path that ends in a link (`Links`) is the link's own (`Homed`: it is in the
sandbox). A command prints, writes, runs over its limit and exits by actions that
are not the program's. Runs share `disk` and `session`. `owed`, `loose`, `kept`
and `stale` are ghosts that remember which edits are still to be made, whether
the path ended in a link to nothing at its check or was moved after it, what was
last saved, and whether anybody else was saving.

### Lexemes, Renderer, Tags and Reply

A reply is a sequence of lexemes: marks of the markdown, prose, tags with their
attributes. `Renderer` is StreamRenderer, one action per token and one for the
end. A table is what render_table makes of its rows: the rows, or nothing at all
if none of them has a cell (the form "none"). `Whole` adds `render_lines`, the
renderer of replies that come whole, as the reference of the streaming one, with
its own order of block rules and its own way to take the blanks off a fence's
language (`WholeLanguage` against `Language`). `Tags` has the annotation parsers,
`fix_malformed_tags` and `strip_annotations` as operators: each of their loops is
one operator for a turn (`NextBlock`, `NextRepair`, `StripWrite` ...) and its
repetition, a recursive function. `Reply` puts all of it over the same text.

### Preferences

A colour lives in three places (the theme's style, the session's explicit
colour, `.env`) under two tables of names; `/color` writes all three, `/theme`
and `/color reset` some of them, and the next session reads one. `asked` is the
ghost that remembers what the user was told. Agents, personas and the prompt
they leave, options and remembered facts are the other state.

### JsonText, Session, Prompts and Stored

`JsonText` is json.cpp over characters: escaping, unescaping, extraction of a
string, an object, a number; its loops are recursive functions, so that they can
be proved about. `Session` is session.cpp: its actions are a conversation that
is extended, saved, cut off anywhere by a kill, and loaded by the next run.
`Prompts` has the texts that are not JSON: the one
prompt a conversation becomes for a model that is a program, quoted for the
shell, and what is made of the program's output; the lines a <read> shows; the
context of a sub-agent, @agent, and the role a task is delegated to. It reads
them back as the shell and the server do. `Stored` puts the messages of a
`Session` into everything else the program writes and reads: requests and replies of
Ollama, the list of named hosts, search results and task plans.
save_hosts_json, parse_task_plan and serialize_task_plan are reached from tests
only.

## 3. The runs

| Run | Module, configuration | Distinct states | Shows |
|---|---|---|---|
| `conversation` | MCConversation | 1.27 million | the history is well paired and bounded, and the prompt comes back |
| `chat` | MCChat | 152 thousand | Chat implements PromptCall; spinner and workers; Ctrl-C returns |
| `annotations` | MCAnnotations | 829 thousand | backups, consent, permissions, no question under trust |
| `router` | MCRouter | 392 thousand | Router implements StreamCall; blame; every call returns |
| `settings` | MCSettings | 323 thousand | settings, provider object and `.env` agree |
| `sync` | MCSync | 580 thousand | sandbox, reports and session of runs without a user; they end |
| `reply` | MCReply | 998 thousand | what is shown of a reply, and the repair of its annotations |
| `prefs` | MCPreferences | 2.4 million | a colour stays what it was set to |
| `stored` | MCStored | 150 thousand | texts come through files, requests, replies and command lines |
| `rating` | MCConversation, MCRating.cfg | | a comment the code does not keep |
| `provider` | MCChat, MCProvider.cfg | | a comment the code does not keep |
| `backup` | MCAnnotations, MCBackup.cfg | | a comment the code does not keep |

### Bounds, and why they are enough

* `conversation`: a window of one pair, so that trimming happens at the second
  prompt; two follow-ups with one result each, so that the limit is reached;
  three prompts, since the reminder starts at the third; a history of at most
  five messages before an operation that grows it; one task; one chat file,
  which can be saved, loaded and deleted in any order. `MaxSaved` keeps the
  saved chats short (two messages hold every pairing that matters).
* `chat`: two calls, the least with an abandoned worker beside a live one; two
  tokens, the least with a first and a later one; two switches of provider.
* `annotations`: two annotations over all replies, on two paths that share a
  basename and so a backup; one edit by the user and one kill, at any moment.
  The agents are the built-in ones, and one with a tool that asks and one
  without an entry.
* `router`: three hosts, the least with a choice in the scan; two calls, the
  least that overlap; one token per request, so that a retry can double it.
* `settings`: two sessions, the least that overwrite each other's saves; three
  starts and commands, so that one session can start and switch while the other
  starts; two servers that share a model, one cloud provider, one the factory
  does not know; a `.env` that names a deleted model and has a line of the
  user's own. Sessions are symmetric.
* `sync`: two runs started, with one follow-up each, which hold every order of
  load and save; two paths, of which one is a link that leads outside after one
move, where there is no file until a run or a command writes one; replies
  with up to two annotations of each group, and an order of kinds to get wrong.
  Replies do not mix three kinds: an annotation leaves nothing behind for the
  next but the files.
* `reply`: four chunks, enough for an opener, a block, a closer and a line
  behind it; among them a bar with nothing behind it, and blanks, alone or before
  the language of a fence. `OneKind` keeps markdown and broken annotations in separate
  replies: the renderer treats every tag alike, and the parsers no mark.
* `prefs`: five commands, enough for a colour, something that replaces it, the
  end of the session, the next one and a change there; names that both tables
  know, one or none of them.
* `stored`: contents of up to three characters out of the ten that the code
  treats differently, one save, two messages: every pair of neighbours that a
  scan could take for a key, an escape or an end (a single quote, which only the
  shell minds, and a character beyond ASCII, which a server may write as it is or
  as a \u escape, in the pairs they could mind). A sub-agent sees one message of the
  history and a <read> one line around a hit, so that both are cut.
* Runs check for deadlock only where the system cannot stop (`stored`, in which
  a loaded conversation can always be cut off again). All other models have
  states where the bound on prompts, calls, commands or runs is used up.

### Fairness, and why the code justifies it

* Conversation: calls return (`CallReturns`). Of an HTTP provider the read
  timeout sees to that once the server falls silent; that a provider which is a
  program (tgpt, the default) exits is an assumption about the program, since
  `cmd_exec` and popen wait for it without a limit of their own. So `PromptReturns`
  says that the follow-ups of a prompt are bounded, not that a call is. Tasks
  have no fairness: whether leaving ends, which waits for them, is not promised
  by anything and no property. The user is never fair.
* Chat: the main thread and the animation loops are run by the system. Workers
  get no fairness at all, since the promise is that Ctrl-C needs no help from
  them.
* Annotations: the main thread runs on while it waits for nobody (`Handle`).
  Answers, edits and kills are not fair.
* Router: connect and read timeouts end each request to a server that falls
  silent, and a thread that waits for nothing runs: `CallStep` of each call. A
  stream has at most `MaxTokens` tokens, so one that never stops, which no
  timeout would end, is outside the model.
* Sync: each run's own steps (`FairSpec`), a request ending by the read timeout
  among them (for a provider that is a program, an assumption about it). That
  commands exit is an assumption about them, kept apart (`ExitSpec`): the code
  does not see to it. Kills and moves are not fair.

### Where the code does not keep what it says

Each of these is one sentence of the source that the model violates, under
"findings" in `PROJECT.json`. Three have a run of their own, `rating`,
`provider` and `backup`. To see another, put its property in the place of the
INVARIANTS and PROPERTIES of its module's configuration, in the way noted.

1. `RatedAreReplies` (run `rating`): "Index of last assistant message for
   rating" is not updated when the history changes under it: in the trace /agent
   puts a system prompt in front and /rate last marks the prompt before the
   reply; what makes the history shorter leaves the index behind likewise.
2. `ProviderAlive` (run `provider`): "the thread owns its data — safe to
   detach", but the provider is reached by reference and can be replaced.
3. `BackupOnDisk` (run `backup`): "Creates a .bak backup before modifying the
   file", but in the trusted branch the backup is flushed after the file has
   been emptied.
4. `WindowHolds` (invariant, MCConversation): the sliding window keeps "system
   prompt + last N message pairs", but reminders that come to stand at the front
   count as system prompt and pile up.
5. `NoDoubleJoin` (invariant, MCChat): "atomic exchange prevents double-join",
   but what the exchange returns is not used to decide who joins.
6. `NoMeansNo` (invariant, MCAnnotations): "Confirm with user", but under trust
   the answer does not count.
7. `FailedIsMarked` (property, MCRouter): "On connection failure, marks host
   unhealthy", but the host marked is the active one, which another call may
   have changed.
8. `TimeLimit` (property, MCSync, with SPECIFICATION FairSpec and one run):
   "Enforces wall-clock timeout", but the clock is read when a line arrives, and
   pclose waits for the command in any case.
9. `HostObeyed` (property, MCSettings, without SYMMETRY): selecting a host "switches
   provider+model to the first available on that host", but with a list of
   hosts the provider begins at the first healthy one that has the model.
10. `WarmupFindsModel` (property, MCSettings, without SYMMETRY): the fallback
    "prevents HTTP 404 errors during warmup", but the provider object keeps the
    model it was made with.
11. `AllShown` (invariant, MCReply): finish() flushes "any remaining buffered
    content", but a table row without a line end, and a diagram whose fence
    stays open, are never shown; nor, wherever it stands, is a table none of
    whose rows has a cell.
12. `HiddenIsProcessed` (invariant, MCReply): hidden tags are "processed
    separately after streaming", but an add_line or a delete_line is not, in
    interactive mode.
13. `AcceptedStays` (invariant, MCPreferences): "Apply to active theme + persist",
    but names that only the theme knows do not come back.
14. `DefaultRestored` (invariant, MCPreferences): "default restored", but without
    what the session had put into the prompt, and not at all by /agent build.
15. `SessionKept` (invariant, MCStored): "session roundtrip preserves special
    characters", but a backslash is unescaped twice.
16. `PlanOrNothing` (invariant, MCStored): "returns empty plan on failure", but
    a plan that was cut off yields steps nobody wrote.
17. `AnswersKept` (invariant, MCStored): "Detect error responses", but any answer
    that speaks of an error is taken for one.
18. `WrongOnly` (invariant, MCReply): fix_malformed_tags "replaces the wrong
    closing tag with the correct one", but an opening tag that occurs in the text
    of another annotation takes that one's closing tag: a write whose text
    mentions `<exec>` is lost or runs into the next.
19. `ChoiceSwitches` (property, MCSettings, without SYMMETRY): "Switch to selected
    model's host and provider", but for a provider the factory does not know (the
    registry lists sgpt) the exception is swallowed after Config has been changed,
    and the session goes on with the old provider object.
20. `SandboxHolds` (property, MCSync, with Start <- MCDangling, MaxMoves = 0 and
    SPECIFICATION Spec): "All writes are sandboxed — paths outside cfg.sandbox are
    rejected", but a path that cannot be resolved is judged by its directory, so
    an edit through a link to nothing creates the file wherever the link leads.

Smaller ones met on the way: the fallback route to Kiro asks
`invoke_subagent` for a name it does not know, which goes to the internal
provider (`orchestrator/orchestrator.cpp`, reached from tests only); /mem and
/pref say "[remembered: ...]" when the file could not be opened.

## 4. The proofs

| Module | Theorems | Argument |
|---|---|---|
| Conversation_proofs | `TypeCorrect`, `AsksAnsweredAlways`, `RequestEndsWithUserAlways`, `InterruptRollsBackAlways`, `PromptSurvivesAlways` | IInv = TypeOK, OpenPrompt, OpenWindow, FedBack, AsksAnswered, ChatsAnswered |
| Chat_proofs | `TypeCorrect`, `OnlyInterruptedRunOnAlways`, `SpinnerBeforeTextAlways`, `Refinement` | IInv = TypeOK and six facts on where main and workers are |
| Annotations_proofs | `TypeCorrect`, `BackupRestoresAlways`, `OnlyWithConsentAlways`, `ReadOnlyAgentAlways` | IInv = TypeOK, BackupInv, Agreed, Permitted |
| Router_proofs | `TypeCorrect`, `ActiveHostAlways`, `SoloBlameAlways`, `Refinement` | IInv = TypeOK, OrderOf of every call, Solo, ActiveHost |
| Settings_proofs | `TypeCorrect`, `SavedProviderStartsAlways`, `KindAgreesAlways`, `ToldIsSavedAlways`, `SwitchFindsModelAlways` | IInv = TypeOK, SavedProviderStarts, QueuedProvidersStart, KindAgrees; with SavesPending, with RegistryHere |
| Sync_proofs | `TypeCorrect`, `OnePromptAlways`, `HistoryKeptAlways`, `EditsStayInsideAlways`, `EditsToldOrMadeAlways` | IInv = Functions, Shared, and Sound of every run; with Owing |
| Renderer_proofs | `TypeCorrect`, `NothingLostAlways`, `StreamAsWholeAlways`, `RepairIsSafeAlways` | IInv = TypeOK, FencesColored, InOrder; with EmptyRows; with Followed; Kept and Mends of the repair's loop |
| Kept_proofs | `SavedComesBackAlways` (Session), `ColorStaysAlways` (Preferences) | SessionInv; IInv = Remembered of every target |

Each proof has the same shape: `Init => IInv`, `IInv /\ [Next]_vars => IInv'`
with one step per action, and `IInv` implies the property. The assumptions are
those named in the modules (`ConstantsAssumption` and the like): bounds are
naturals, special values are not data, replies have the kinds their parsers give
them. Settings also assumes that a `.env` the user begins with names no unknown
provider, and that nobody types, and no catalogue has, a provider without a name
(`NamesAssumption`; the empty name would be Ollama's).

Why the invariants are stronger than the properties:

* That a prompt is always answered is not inductive: an interrupt pops as many
  messages as `reminded` says, so the proof needs that these are the prompt and
  its reminder (`OpenPrompt`, which survives the window because the last two
  messages are never trimmed), and /chat load needs that saved chats are
  answered (`ChatsAnswered`). Lemmas say what appending, trimming, cutting a
  prefix and replacing a message do to `Answered`. That an interrupt leaves the
  history of before needs more: during the first call the history is the window
  on the history of before with the reminder and the prompt (`OpenWindow`).
* The refinement of PromptCall needs that main leaves the polling loop for a
  reason that stays (`PolledForReason`) and that a reply cut short means a flag
  main will see (`CutShortByUser`): the worker stores a part only after it read
  the flag as set, and only main clears it, at the end.
* That a backup restores what was overwritten needs to know, step by step,
  whether the text read is still the file's (`ReadIsFresh`), and that of two
  files that share a backup only the last one counts.
* The routing invariant needs, for calls that have not overlapped, that the
  call under way talks to the active host (`Solo`), and that the scan of the
  ring sees every host but the active one (lemma `RingCovers`).
* That `.env` never names an unknown provider needs the same of every save that
  is still to be made (`QueuedProvidersStart`) and of every text a session has
  read and will write back; lemmas say what replacing a line, cutting a file
  and writing over a longer one do to the last line of a key. That the file holds
  what the user was told is no invariant while saves are under way: `SavesPending`
  says of each moment which of the told settings are in the file, in the text
  about to be written, or still in the one queue that is not empty. That a switch
  finds its model needs that a session that asks one host has a registry of that
  host (`RegistryHere`).
* In Sync the invariant is stated for one run (`Sound`) and for what runs share
  (`Shared`), so that a step of one run needs no look at the other; that a
  path leads inside until it is opened is part of it unless the path is `loose`. That each
  edit is made or told of is a balance (`Owing`): what is owed is the number of
  edits to come plus the errors in the follow-up so far; lemmas say what
  one more annotation or one more line of feedback does to the two numbers.
* That no line is lost needs that a table waits only outside code blocks and a
  diagram only inside one: then at most one buffer is in use and its place is
  after everything shown. That only rows without a cell come to nothing needs that
  whatever waits in the table buffer is a row (`EmptyRows`).
* That a reply looks as it would as a whole is shown along `Followed`: of the part
  of the reply that has been read, the lines that have ended and are not hidden,
  given to render_lines, leave it with what the terminal shows, the rows that
  wait and the open fence; the line that has not ended is the line buffer. A step
  reads a lexeme, and ends a line or not; the reference reads the same one. All of
  this holds as long as every fence read so far has the same language for both
  renderers (`SameLanguage`), and a line once read stays read, so the exception
  of `StreamAsWhole` is the only one.
* That the repair is safe is about its loops. Every turn of every kind keeps all
  but closing tags, and each closing tag that is its opener's next tag and has
  its name (`Kept`): the search for a tag to replace would have to pass over the
  opener, which accounts for it. So both texts are scanned alike as far as the
  blocks have no tag inside. For annotations one after another, `Mends` says which
  are repaired at a turn: those of the kinds that are done, and those before the
  place where the search goes on, which lies in none of them.
* That a colour stays needs what the three places hold between sessions too,
  when none of them is in force.
* That a saved session comes back rests on a plain invariant: the file is what
  there is, whole or up to some character, of the text save_session writes for
  `written` (`SessionInv`). What load_session makes of such a text is the work,
  and the steps are those of the code. What escape_json writes stands for the
  text, character by character (`Spelt`), and decode_escape and unescape_json
  give it back, also when it was cut off (`DecodedIs`, `UnescapedIs`). A quote in
  it is never an end quote, since behind its opening quote the backslashes pair up
  (`EvenBefore`, `EndQuoteIs`). Where each message begins follows from how the file
  is laid out (`FileIs`). The word that find() looks for stands only in a
  message's own places or at the end of a content that is that word (`KeysIn`,
  `MisreadIs`), the exception that `Restorable` makes. So a role
  or a content that is found is that of one message, or a beginning of it
  (`RoleValue`, `ContentValue`), and load_session goes from a message to the next
  (`LoadIs`, `NextRole`, `LoadedIs`).

### Only model-checked

Liveness (`PromptReturns`, `InterruptReturns`, `TrustNeverAsks`,
`CallReturns`, `EveryRunEnds`) is out of the reach of the prover. The library's
induction theorems take an operator, which the provers cannot instantiate;
recursive functions are reasoned about by the lemma `AllNumbers` of
Renderer_proofs and Kept_proofs instead, on sets of numbers (from `WFMin`), and
by `Agree`, two functions with the same start and steps are the same, or by
`WalkExists`, a function that steps ahead in a text exists. `Stored` has a RECURSIVE
operator (`LexedFrom`, a JSON lexer of its own to compare with), so
`TextsComeThrough` stays with TLC, over all inputs up to the bounds of `stored`.
The part of it that Session shares, that what was escaped is given back, is
proved in the lemmas above.

An attempt at `RepairIsSafe` changed it: that a repair leaves every complete block
without a tag inside as it was, which the run of four chunks does not refute, is
false from five on. In `<write><exec>c</write><write>b</write>` the first
`</write>` becomes `</exec>` and the two writes one (finding 18). What is true,
and proved, is that it holds up to the first block that has a tag inside.

## 5. Not modelled, and why

The layout of tables and diagrams, highlighting, logging and help texts have no
state that a later step depends on. The network scan is many threads that append
under one mutex and are joined; what it finds is a constant of Settings. A call
of one of the other providers is one blocking subprocess, whose command line and
output are in Prompts (what `echo` itself makes of a backslash depends on the
shell and is left out). Starting the search
container and fetching its page are external. orchestrate, the planner and the
metrics are called from tests only, so no behaviour of the program has them;
the text of a task plan is in Stored because it is read by the same functions as
everything else. The build and quality tooling around the program (`lib/cpm`,
`scripts`, `e2e`, `demos`, `docs`) is not part of it.

Within the modelled parts: data races on `Config` and on a `std::string` the
worker and main may touch at the same time are given the outcomes named in the
modules, or left out where nothing can be said; a write to disk is one piece,
except in Session, where the file may be cut off anywhere, and in Settings,
where a killed save leaves the first lines; the destruction of the provider
when the process exits, while a detached worker is still in it, is left out; so
are values of OLLAMA_HOST that carry a port, the
truncation of long output, and the bodies of the built-in themes beyond their
foregrounds.

Some properties name what they do not promise, because the code does not keep
it: `KindAgrees` a choice by number that failed (finding 19), `EditsStayInside`
links to nothing and moved ones (20), `NothingLost` tables without a cell (11),
`StreamAsWhole` fences with blanks before their language, which
`tui/markdown_stream.cpp` takes off and `tui/markdown.cpp` keeps, and
`TextsComeThrough` characters beyond ASCII that a server writes as \u escapes:
`json/json.cpp` drops them, which no text says it should or should not
(`json/json_test.cpp:253` has it as a test to be written).

## 6. Plan

Done: Conversation, Chat with PromptCall, Annotations, Router with StreamCall,
Settings, Sync, Renderer with Whole, Tags and Reply, Preferences, Session with
JsonText, each with its proofs; Prompts and Stored, checked by TLC. Next, in this
order:

1. Proofs: the functions of Prompts and Stored, of which that shell_escape comes
   through a shell (`PromptsComeThrough`) is the next to be worth it. The lexer
   of Stored would become a recursive function, as the loops of JsonText are.
2. An abstract sandbox and an abstract registry of settings that Sync and
   Settings refine, where their invariants now stand alone.
3. Chat files (/chat save and load) with their own escaping, as Session has the
   session file.
4. The composition of Chat and Router: abandoned calls, overlapping in one
   provider, as Chat's workers.

The runs stay few: a run goes when another asks the better question.
