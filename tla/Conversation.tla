---------------------------- MODULE Conversation ----------------------------
(***************************************************************************)
(* The conversation a REPL session keeps: the message history that every   *)
(* request to the model carries, and every operation that changes it       *)
(* (repl_chat.cpp, repl.cpp, repl_commands.cpp).                           *)
(*                                                                         *)
(* A message is its origin and whether the user rated it; what it says is  *)
(* left out.  The main thread is sequential, so one operation is one       *)
(* action, except that a prompt takes a step to send and a step for each   *)
(* call to the model to come back (answered or interrupted): background    *)
(* tasks finish in between.  How one call behaves inside, thread by        *)
(* thread, is module Chat.                                                 *)
(*                                                                         *)
(* Indices count from 1 here and from 0 in the code; 0 stands for its -1.  *)
(***************************************************************************)
EXTENDS Integers, Sequences, FiniteSets

CONSTANTS
  MaxHistory,    \* cfg.max_history: pairs the window keeps, 0 or less for all
  MaxFollowups,  \* k_max_followups (8 in the code)
  ChatNames,     \* names given to /chat save
  NoChat,        \* no file of that name
  MaxContexts,   \* bound: results one reply may feed back
  MaxTasks,      \* bound: background tasks at a time
  MaxPrompts,    \* bound: prompts answered in a session
  MaxLen,        \* bound: an operation that grows an idle history starts below it
  MaxSaved       \* bound: longest history given to /chat save

ASSUME ConstantsAssumption ==
  /\ MaxHistory \in Int
  /\ {MaxFollowups, MaxContexts, MaxTasks, MaxPrompts, MaxLen, MaxSaved} \subseteq Nat

(***************************************************************************)
(* Messages.  "prompt" is a system prompt (configuration, agent or         *)
(* persona), "reminder" the nudge of ADR-054, "ask" what the user typed,   *)
(* "context" anything else pushed with role user (file, command or task    *)
(* output, clipboard, image), "reply" a model's answer and "summary" what  *)
(* /compress leaves.                                                       *)
(***************************************************************************)
SystemKinds    == {"prompt", "reminder"}
UserKinds      == {"ask", "context"}
AssistantKinds == {"reply", "summary"}
Kinds          == SystemKinds \cup UserKinds \cup AssistantKinds
Message        == [kind : Kinds, rated : BOOLEAN]

Msg(k)     == [kind |-> k, rated |-> FALSE]
IsSystem(m) == m.kind \in SystemKinds
IsAssistant(m) == m.kind \in AssistantKinds

VARIABLES
  history,     \* s.history
  count,       \* s.count: prompts answered
  lastIdx,     \* s.last_assistant_idx + 1
  phase,       \* where the main thread is
  reminded,    \* inserted_reminder of the prompt under way
  followups,   \* followup_count of the prompt under way
  tasks,       \* s.pending_tasks: how many run, are ready, have failed
  chats,       \* files under the chat directory
  before       \* ghost: the history when the prompt under way was typed

vars == <<history, count, lastIdx, phase, reminded, followups, tasks, chats, before>>

\* What only a prompt under way changes.
promptVars == <<count, lastIdx, reminded, followups, before>>

Phases     == {"idle", "chat", "followup", "exiting", "exited"}
TaskCounts == [running : Nat, ready : Nat, failed : Nat]
NoTasks    == [running |-> 0, ready |-> 0, failed |-> 0]
Pending    == tasks.running + tasks.ready + tasks.failed

-----------------------------------------------------------------------------
(* The sliding window. *)

\* Length of the leading run of system messages (sys_count).
Leading(h) ==
  CHOOSE n \in 0 .. Len(h) :
    /\ \A i \in 1 .. n : IsSystem(h[i])
    /\ n < Len(h) => ~IsSystem(h[n + 1])

Keep == 2 * MaxHistory

\* Mutant of Trim: the window takes the system messages too.
TrimAll(h) ==
  IF MaxHistory <= 0 \/ Len(h) <= Keep THEN h
  ELSE SubSeq(h, Len(h) - Keep + 1, Len(h))

\* trim_history: the leading system messages and the last 2 * MaxHistory others.
Trim(h) ==
  IF MaxHistory <= 0 \/ Len(h) - Leading(h) <= Keep THEN h
  ELSE SubSeq(h, 1, Leading(h)) \o SubSeq(h, Len(h) - Keep + 1, Len(h))

-----------------------------------------------------------------------------
(* Initially the history holds the system prompt, if one is configured. *)

Init ==
  /\ history \in {<<>>, <<Msg("prompt")>>}
  /\ count = 0
  /\ lastIdx = 0
  /\ phase = "idle"
  /\ reminded = FALSE
  /\ followups = 0
  /\ tasks = NoTasks
  /\ chats = [n \in ChatNames |-> NoChat]
  /\ before = <<>>

-----------------------------------------------------------------------------
(* A prompt and its calls to the model. *)

\* Effect of handle_response on the history: each read, executed command and
\* search result of the reply is fed back as a user message.
Fed(h, c) == h \o [i \in 1 .. c |-> Msg("context")]

\* Mutant of WantsFollowup: a follow-up that no result backs.
WantsFollowupAlways(c) == TRUE

\* handle_response's has_followup.
WantsFollowup(c) == c > 0

\* Delegations of one reply, each a future started with std::async.
Delegate(d) == tasks' = [tasks EXCEPT !.running = @ + d]

\* Mutant of NeedsCall: a bound that is off by one.
NeedsCallOneMore(n, c) == WantsFollowup(c) /\ n <= MaxFollowups

\* Condition of the follow-up loop after n follow-ups and a reply that fed c results.
NeedsCall(n, c) == WantsFollowup(c) /\ n < MaxFollowups

\* End of the prompt: control returns to read_line.
PromptOver ==
  /\ phase' = "idle"
  /\ reminded' = FALSE
  /\ followups' = 0
  /\ before' = <<>>

\* Mutant of TakeReply: the window is kept for follow-ups too, and the count starts
\* again instead of ending the loop.
TakeReplyRestarts(n, c, d) ==
  /\ history' = Trim(Fed(Append(history, Msg("reply")), c))
  /\ lastIdx' = Len(history) + 1
  /\ Delegate(d)
  /\ IF WantsFollowup(c)
     THEN phase' = "followup" /\ followups' = n % 2 /\ UNCHANGED <<reminded, before>>
     ELSE PromptOver

\* A reply is pushed, handled, and answered by another call or not.
TakeReply(n, c, d) ==
  /\ history' = Fed(Append(history, Msg("reply")), c)
  /\ lastIdx' = Len(history) + 1
  /\ Delegate(d)
  /\ IF NeedsCall(n, c)
     THEN phase' = "followup" /\ followups' = n /\ UNCHANGED <<reminded, before>>
     ELSE PromptOver

\* The reminder, from the third prompt on, and the prompt behind history h.
Sent(h, n) == h \o (IF n >= 2 THEN <<Msg("reminder")>> ELSE <<>>) \o <<Msg("ask")>>

\* send_prompt up to the call.
SendPrompt ==
  /\ phase = "idle"
  /\ Len(history) < MaxLen
  /\ count < MaxPrompts
  /\ history' = Trim(Sent(history, count))
  /\ reminded' = (count >= 2)
  /\ phase' = "chat"
  /\ before' = history
  /\ UNCHANGED <<count, lastIdx, followups, tasks, chats>>

\* The first call answers.
Reply(c, d) ==
  /\ phase = "chat"
  /\ TakeReply(0, c, d)
  /\ count' = count + 1
  /\ UNCHANGED chats

\* Mutant of Interrupt: the reminder stays.
InterruptKeepsReminder ==
  /\ phase = "chat"
  /\ history' = SubSeq(history, 1, Len(history) - 1)
  /\ PromptOver
  /\ UNCHANGED <<count, lastIdx, tasks, chats>>

\* Mutant of Interrupt: nothing is popped.
InterruptKeepsAsk ==
  /\ phase = "chat"
  /\ PromptOver
  /\ UNCHANGED <<history, count, lastIdx, tasks, chats>>

\* Ctrl-C during the first call: the prompt and its reminder are popped.
Interrupt ==
  /\ phase = "chat"
  /\ history' = SubSeq(history, 1, Len(history) - (IF reminded THEN 2 ELSE 1))
  /\ PromptOver
  /\ UNCHANGED <<count, lastIdx, tasks, chats>>

\* A follow-up call answers.
FollowupReply(c, d) ==
  /\ phase = "followup"
  /\ TakeReply(followups + 1, c, d)
  /\ UNCHANGED <<count, chats>>

\* Ctrl-C during a follow-up call: the loop breaks and the results stay.
InterruptFollowup ==
  /\ phase = "followup"
  /\ PromptOver
  /\ UNCHANGED <<history, count, lastIdx, tasks, chats>>

CallReturns ==
  \/ \E c \in 0 .. MaxContexts, d \in 0 .. MaxTasks - Pending :
       Reply(c, d) \/ FollowupReply(c, d)
  \/ Interrupt
  \/ InterruptFollowup

-----------------------------------------------------------------------------
(* Commands that change the history.  None of them updates lastIdx. *)

Idle == phase = "idle"
CanGrow == Idle /\ Len(history) < MaxLen

\* /clear
Clear ==
  /\ Idle
  /\ history' = <<>>
  /\ UNCHANGED <<promptVars, phase, tasks, chats>>

\* /paste, /image and !!command push one user message.
PushContext ==
  /\ CanGrow
  /\ history' = Append(history, Msg("context"))
  /\ UNCHANGED <<promptVars, phase, tasks, chats>>

\* @agent prompt: the sub-agent's answer is pushed with its prompt, outside send_prompt.
Mention ==
  /\ CanGrow
  /\ history' = history \o <<Msg("ask"), Msg("reply")>>
  /\ UNCHANGED <<promptVars, phase, tasks, chats>>

\* A new prompt takes the place of what the first message says; its rating stays.
NewPrompt(h) == [h EXCEPT ![1].kind = "prompt"]

\* /agent <name>: the new prompt replaces a leading system message or goes in front.
SetAgent ==
  /\ CanGrow
  /\ history' = IF history # <<>> /\ IsSystem(history[1])
                THEN NewPrompt(history)
                ELSE <<Msg("prompt")>> \o history
  /\ UNCHANGED <<promptVars, phase, tasks, chats>>

\* /agent off: the configured prompt replaces a leading system message.
ResetAgent ==
  /\ Idle
  /\ history # <<>> /\ IsSystem(history[1])
  /\ history' = NewPrompt(history)
  /\ UNCHANGED <<promptVars, phase, tasks, chats>>

\* /compress, when the model returns a summary.
Compress ==
  /\ Idle
  /\ Len(history) > 2
  /\ history' = (IF IsSystem(history[1]) THEN <<history[1]>> ELSE <<>>)
                  \o <<Msg("summary")>>
  /\ UNCHANGED <<promptVars, phase, tasks, chats>>

\* The record /chat save writes for a message: role and content, no rating.
Saved(h) == [i \in 1 .. Len(h) |-> Msg(h[i].kind)]

\* /chat save
SaveChat(n) ==
  /\ Idle
  /\ Len(history) <= MaxSaved
  /\ chats' = [chats EXCEPT ![n] = Saved(history)]
  /\ UNCHANGED <<promptVars, history, phase, tasks>>

\* /chat load
LoadChat(n) ==
  /\ Idle
  /\ chats[n] # NoChat
  /\ history' = chats[n]
  /\ UNCHANGED <<promptVars, phase, tasks, chats>>

\* /chat delete
DeleteChat(n) ==
  /\ Idle
  /\ chats[n] # NoChat
  /\ chats' = [chats EXCEPT ![n] = NoChat]
  /\ UNCHANGED <<promptVars, history, phase, tasks>>

Rated(i) == history' = [history EXCEPT ![i].rated = TRUE]

\* /rate last: the index is only checked against the bounds of the history.
RateLast ==
  /\ Idle
  /\ lastIdx \in 1 .. Len(history)
  /\ Rated(lastIdx)
  /\ UNCHANGED <<promptVars, phase, tasks, chats>>

\* /rate <n>: the n-th assistant message.
RateNumbered(i) ==
  /\ Idle
  /\ IsAssistant(history[i])
  /\ Rated(i)
  /\ UNCHANGED <<promptVars, phase, tasks, chats>>

-----------------------------------------------------------------------------
(* Background tasks, and leaving. *)

\* A delegated call ends on its own thread, whatever the main thread does.
TaskEnds ==
  /\ tasks.running > 0
  /\ \/ tasks' = [tasks EXCEPT !.running = @ - 1, !.ready = @ + 1]
     \/ tasks' = [tasks EXCEPT !.running = @ - 1, !.failed = @ + 1]
  /\ UNCHANGED <<promptVars, history, phase, chats>>

\* /tasks: results that are ready go to the history, failures are dropped.
CollectTasks ==
  /\ CanGrow
  /\ tasks.ready + tasks.failed > 0
  /\ history' = Fed(history, tasks.ready)
  /\ tasks' = [NoTasks EXCEPT !.running = tasks.running]
  /\ UNCHANGED <<promptVars, phase, chats>>

\* exit, quit or end of input.
Exit ==
  /\ Idle
  /\ phase' = "exiting"
  /\ UNCHANGED <<promptVars, history, tasks, chats>>

\* Destroying pending_tasks waits for every future of std::async.
Leave ==
  /\ phase = "exiting"
  /\ tasks.running = 0
  /\ phase' = "exited"
  /\ UNCHANGED <<promptVars, history, tasks, chats>>

Next ==
  \/ SendPrompt \/ CallReturns
  \/ Clear \/ PushContext \/ Mention \/ SetAgent \/ ResetAgent \/ Compress
  \/ \E n \in ChatNames : SaveChat(n) \/ LoadChat(n) \/ DeleteChat(n)
  \/ RateLast \/ \E i \in 1 .. Len(history) : RateNumbered(i)
  \/ TaskEnds \/ CollectTasks \/ Exit \/ Leave

(***************************************************************************)
(* Calls return.  Of an HTTP provider the read timeout sees to that, as    *)
(* long as the server falls silent; of a provider that is a program it is  *)
(* assumed that the program exits, which nothing in the code enforces.     *)
(* Background tasks have no fairness, and neither has the user: a task     *)
(* that never ends keeps Leave waiting for ever.                           *)
(***************************************************************************)
Fairness == WF_vars(CallReturns)

Spec == Init /\ [][Next]_vars /\ Fairness

-----------------------------------------------------------------------------
(* Properties. *)

InFlight == phase \in {"chat", "followup"}

\* The state is well formed, and no prompt makes more than MaxFollowups
\* follow-up calls (the bound of ADR-028 on runaway turns).
TypeOK ==
  /\ history \in Seq(Message)
  /\ count \in Nat
  /\ lastIdx \in Nat
  /\ phase \in Phases
  /\ reminded \in BOOLEAN
  /\ followups \in 0 .. MaxFollowups
  /\ phase = "followup" => followups < MaxFollowups
  /\ tasks \in TaskCounts
  /\ chats \in [ChatNames -> Seq(Message) \cup {NoChat}]
  /\ before \in Seq(Message)

\* Every request to the model ends with a user message: a follow-up call is
\* made only when handle_response really fed something back.
RequestEndsWithUser ==
  InFlight => history # <<>> /\ history[Len(history)].kind \in UserKinds

\* Every prompt of h has its reply right behind it, except that the last
\* message may be a prompt when one is open.
Answered(h, open) ==
  \A i \in 1 .. Len(h) :
    h[i].kind = "ask" =>
      IF i < Len(h) THEN h[i + 1].kind = "reply" ELSE open

\* No prompt stays in the history without its reply, whatever was interrupted,
\* trimmed, compressed, saved or loaded (the stale entry of ADR-055).
AsksAnswered == Answered(history, phase = "chat")

\* What these invariants and the properties below rest on: the prompt of a first call, and the
\* reminder that came with it, end the history; the saved chats are answered too.
OpenPrompt ==
  phase = "chat" =>
    /\ history # <<>>
    /\ history[Len(history)] = Msg("ask")
    /\ reminded =>
         /\ Len(history) > 1
         /\ history[Len(history) - 1] = Msg("reminder")

FedBack ==
  phase = "followup" =>
    /\ history # <<>>
    /\ history[Len(history)] = Msg("context")

\* While a first call is under way, the history is the window on what was sent.
OpenWindow ==
  phase = "chat" =>
    /\ reminded = (count >= 2)
    /\ history = Trim(Sent(before, count))

ChatsAnswered == \A n \in ChatNames : chats[n] # NoChat => Answered(chats[n], FALSE)

IInv == TypeOK /\ OpenPrompt /\ FedBack /\ AsksAnswered /\ ChatsAnswered /\ OpenWindow

\* h is w with only older messages behind the leading system messages dropped.
IsWindowOf(h, w) ==
  \E k \in 1 .. Len(w) + 1 :
    \/ h = SubSeq(w, k, Len(w))
    \/ h = SubSeq(w, 1, Leading(w)) \o SubSeq(w, k, Len(w))

\* An interrupted prompt leaves nothing of itself behind: the history is what
\* it was when the prompt was typed, but for what the window dropped.
InterruptRollsBack ==
  [][phase = "chat" /\ phase' = "idle" /\ count' = count
       => IsWindowOf(history', before)]_vars

HasPrompt(h) == h # <<>> /\ h[1].kind = "prompt"

\* Only /clear and /chat load take the system prompt away: no trimming, no
\* compression and no interrupt does.
PromptSurvives ==
  [][HasPrompt(history) /\ ~HasPrompt(history')
       => history' = <<>> \/ \E n \in ChatNames : history' = chats[n]]_vars

\* A prompt always gives the user the prompt line back, however often the
\* model asks for another follow-up, when each call to the model returns.
PromptReturns == InFlight ~> ~InFlight

(***************************************************************************)
(* What the source says of itself and the code does not keep.              *)
(***************************************************************************)

\* "Trims history to keep system prompt + last N message pairs": what is sent
\* is at most the system prompt and N pairs.
WindowHolds ==
  phase = "chat" /\ MaxHistory > 0 => Len(history) <= 1 + Keep

\* /rate rates responses.
RatedAreReplies ==
  \A i \in 1 .. Len(history) : history[i].rated => IsAssistant(history[i])
=============================================================================
