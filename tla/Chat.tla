-------------------------------- MODULE Chat --------------------------------
(***************************************************************************)
(* One call to the model, thread by thread: interruptible_chat and         *)
(* chat_with_spinner (repl_chat.cpp), the Spinner (spinner.cpp), the       *)
(* SIGINT handler (repl.cpp) and the provider the REPL may replace between *)
(* calls (switch_prov, main.cpp).                                          *)
(*                                                                         *)
(* The main thread starts a worker per call and polls; Ctrl-C makes it     *)
(* detach the worker and return to the prompt, so workers of earlier calls *)
(* run on beside later ones.  Each worker has its own copy of the history  *)
(* and its own result, done flag, spinner and renderer; what they share is *)
(* g_interrupted, the provider and the terminal.                           *)
(*                                                                         *)
(* Not modelled: the text itself, the 50 ms and 80 ms sleeps (they are     *)
(* interleaving), the destruction of the provider when the process exits.  *)
(* Two unsynchronised accesses to std::thread in Spinner::stop are a data  *)
(* race; it is given the outcome of libstdc++, whose second join throws.   *)
(***************************************************************************)
EXTENDS Integers, FiniteSets

CONSTANTS
  MaxCalls,     \* bound: calls made in a session
  MaxTokens,    \* bound: tokens a call streams
  MaxSwitches   \* bound: times the provider is replaced

ASSUME ChatAssumption == {MaxCalls, MaxTokens, MaxSwitches} \subseteq Nat

Main    == 0
Calls   == 1 .. MaxCalls
Threads == {Main} \cup Calls

VARIABLES
  streaming,    \* s.stream_chat is set, so tokens arrive while the call runs
  interactive,  \* s.interactive: a spinner turns while the user waits
  proc,         \* the process: "up", "crashed" (std::terminate), "killed" (SIGINT)
  calls,        \* calls started; the last one is the current one
  pc,           \* where the main thread and each worker are
  g,            \* g_interrupted
  handler,      \* sigint_handler is installed
  provider,     \* which instance the unique_ptr `provider` holds
  uses,         \* the instance each worker is executing in
  first,        \* the calls whose first_token is set
  rendered,     \* tokens each call has put on the terminal
  result,       \* *result of each call
  spinOn,       \* the calls whose spinner has running_ set
  spinner,      \* the spinner's thread: "none", "live" or "ended"
  joinable,     \* the calls whose spinner has a joinable thread_
  ret,          \* what interruptible_chat returns
  outcome       \* what became of the last call: "none" while it runs

ui      == <<streaming, interactive>>
workVars == <<uses, first, rendered, result>>
spinVars == <<spinOn, spinner, joinable>>
vars == <<ui, proc, calls, pc, g, handler, provider, workVars, spinVars, ret, outcome>>

Stopping == {"exchange", "test", "join"}   \* inside Spinner::stop
MainPCs  == {"prompt", "poll", "reap", "decide", "restore", "check"} \cup Stopping
WorkPCs  == {"none", "start", "stream", "render", "finish", "dead"} \cup Stopping

Init ==
  /\ streaming \in BOOLEAN
  /\ interactive \in BOOLEAN
  /\ proc = "up"
  /\ calls = 0
  /\ pc = [t \in Threads |-> IF t = Main THEN "prompt" ELSE "none"]
  /\ g = 0
  /\ handler = FALSE
  /\ provider = 0
  /\ uses = [c \in Calls |-> 0]
  /\ first = {}
  /\ rendered = [c \in Calls |-> 0]
  /\ result = [c \in Calls |-> "none"]
  /\ spinOn = {}
  /\ spinner = [c \in Calls |-> "none"]
  /\ joinable = {}
  /\ ret = "none"
  /\ outcome = "none"

At(t, where) == proc = "up" /\ pc[t] = where
Goto(t, where) == pc' = [pc EXCEPT ![t] = where]
Done(c) == pc[c] = "dead"    \* *done: the worker's last statement sets it

-----------------------------------------------------------------------------
(* Spinner::stop, which the main thread and the worker may both be in.      *)

SpinOf(t) == IF t = Main THEN calls ELSE t

\* Where a thread goes on after stop: the main thread of a streaming call
\* reaps its worker, of a buffered one has left chat_with_spinner.
Resume(t) ==
  IF t # Main THEN "render" ELSE IF streaming THEN "reap" ELSE "check"

\* running_.exchange(false)
StopExchange(t) ==
  /\ At(t, "exchange")
  /\ spinOn' = spinOn \ {SpinOf(t)}
  /\ Goto(t, "test")
  /\ UNCHANGED <<ui, proc, calls, g, handler, provider, workVars, spinner, joinable,
                 ret, outcome>>

\* if (thread_.joinable())
StopTest(t) ==
  /\ At(t, "test")
  /\ Goto(t, IF SpinOf(t) \in joinable THEN "join" ELSE Resume(t))
  /\ UNCHANGED <<ui, proc, calls, g, handler, provider, workVars, spinVars, ret, outcome>>

\* The threads past the test of the same spinner.
Joining(c) == {t \in {Main, c} : pc[t] = "join" /\ SpinOf(t) = c}

\* thread_.join() waits for the animation loop to end.
StopJoin(t) ==
  /\ At(t, "join")
  /\ SpinOf(t) \in joinable
  /\ spinner[SpinOf(t)] = "ended"
  /\ joinable' = joinable \ {SpinOf(t)}
  /\ Goto(t, Resume(t))
  /\ UNCHANGED <<ui, proc, calls, g, handler, provider, workVars, spinOn, spinner,
                 ret, outcome>>

\* A thread that joins what another is joining, or has joined, gets
\* std::system_error, which nothing catches.
DoubleJoin(t) ==
  /\ At(t, "join")
  /\ SpinOf(t) \notin joinable \/ Cardinality(Joining(SpinOf(t))) > 1
  /\ proc' = "crashed"
  /\ UNCHANGED <<ui, calls, pc, g, handler, provider, workVars, spinVars, ret, outcome>>

Stop(t) == StopExchange(t) \/ StopTest(t) \/ StopJoin(t) \/ DoubleJoin(t)

\* Spinner::run leaves its loop when running_ is false.
SpinnerEnds(c) ==
  /\ proc = "up"
  /\ spinner[c] = "live"
  /\ c \notin spinOn
  /\ spinner' = [spinner EXCEPT ![c] = "ended"]
  /\ UNCHANGED <<ui, proc, calls, pc, g, handler, provider, workVars, spinOn, joinable,
                 ret, outcome>>

-----------------------------------------------------------------------------
(* The main thread. *)

\* chat_with_spinner up to the polling loop: the flag is cleared, the handler
\* installed, spinner and worker started.
Start ==
  /\ At(Main, "prompt")
  /\ calls < MaxCalls
  /\ LET c == calls + 1
     IN  /\ calls' = c
         /\ pc' = [pc EXCEPT ![Main] = "poll", ![c] = "start"]
         /\ IF interactive
            THEN /\ spinOn' = spinOn \cup {c}
                 /\ joinable' = joinable \cup {c}
                 /\ spinner' = [spinner EXCEPT ![c] = "live"]
            ELSE UNCHANGED spinVars
  /\ g' = 0
  /\ handler' = TRUE
  /\ ret' = "none"
  /\ outcome' = "none"
  /\ UNCHANGED <<ui, proc, provider, workVars>>

\* Mutant of Poll: the loop may give up on a worker that is not done.
PollTimesOut ==
  /\ At(Main, "poll")
  /\ Goto(Main, IF streaming THEN "exchange" ELSE "reap")
  /\ UNCHANGED <<ui, proc, calls, g, handler, provider, workVars, spinVars, ret, outcome>>

\* The loop ends when the worker is done or the user pressed Ctrl-C.
Poll ==
  /\ At(Main, "poll")
  /\ Done(calls) \/ g = 1
  /\ Goto(Main, IF streaming THEN "exchange" ELSE "reap")
  /\ UNCHANGED <<ui, proc, calls, g, handler, provider, workVars, spinVars, ret, outcome>>

\* Mutant of Reap: the worker is joined in every case, so main waits for it.
ReapJoins ==
  /\ At(Main, "reap")
  /\ Done(calls)
  /\ Goto(Main, "decide")
  /\ UNCHANGED <<ui, proc, calls, g, handler, provider, workVars, spinVars, ret, outcome>>

\* A worker that is done is joined, any other is detached; neither waits.
Reap ==
  /\ At(Main, "reap")
  /\ Goto(Main, "decide")
  /\ UNCHANGED <<ui, proc, calls, g, handler, provider, workVars, spinVars, ret, outcome>>

\* return g_interrupted ? "" : *result
Decide ==
  /\ At(Main, "decide")
  /\ ret' = IF g = 1 THEN "empty" ELSE result[calls]
  /\ Goto(Main, "restore")
  /\ UNCHANGED <<ui, proc, calls, g, handler, provider, workVars, spinVars, outcome>>

\* Mutant of Restore: the handler stays installed.
RestoreForgotten ==
  /\ At(Main, "restore")
  /\ Goto(Main, IF streaming THEN "check" ELSE "exchange")
  /\ UNCHANGED <<ui, proc, calls, g, handler, provider, workVars, spinVars, ret, outcome>>

\* The previous handler comes back; then the spinner of a buffered call, a
\* local of chat_with_spinner, is destroyed.
Restore ==
  /\ At(Main, "restore")
  /\ handler' = FALSE
  /\ Goto(Main, IF streaming THEN "check" ELSE "exchange")
  /\ UNCHANGED <<ui, proc, calls, g, provider, workVars, spinVars, ret, outcome>>

\* Mutant of Check: what interruptible_chat returned is taken without a look at the flag.
CheckReturned ==
  /\ At(Main, "check")
  /\ outcome' = ret
  /\ g' = 0
  /\ Goto(Main, "prompt")
  /\ UNCHANGED <<ui, proc, calls, handler, provider, workVars, spinVars, ret>>

\* send_prompt's test after the call: an interrupted call is dropped and the
\* flag cleared, any other reply is taken.
Check ==
  /\ At(Main, "check")
  /\ outcome' = IF g = 1 THEN "cancelled" ELSE ret
  /\ g' = 0
  /\ Goto(Main, "prompt")
  /\ UNCHANGED <<ui, proc, calls, handler, provider, workVars, spinVars, ret>>

\* /provider, /host, /use between calls: the old instance is destroyed.
SwitchProvider ==
  /\ At(Main, "prompt")
  /\ provider < MaxSwitches
  /\ provider' = provider + 1
  /\ UNCHANGED <<ui, proc, calls, pc, g, handler, workVars, spinVars, ret, outcome>>

-----------------------------------------------------------------------------
(* The worker of call c. *)

\* The thread enters the lambda, which reads main's provider by reference.
Enter(c) ==
  /\ At(c, "start")
  /\ uses' = [uses EXCEPT ![c] = provider]
  /\ Goto(c, "stream")
  /\ UNCHANGED <<ui, proc, calls, g, handler, provider, first, rendered, result,
                 spinVars, ret, outcome>>

\* Mutant of Token: every token but the first stops the spinner.
TokenSkipsStop(c) ==
  /\ At(c, "stream")
  /\ streaming
  /\ rendered[c] < MaxTokens
  /\ g = 0
  /\ first' = first \cup {c}
  /\ Goto(c, IF c \in first THEN "exchange" ELSE "render")
  /\ UNCHANGED <<ui, proc, calls, g, handler, provider, uses, rendered, result,
                 spinVars, ret, outcome>>

\* A token arrives and the flag is clear; the first one stops the spinner.
Token(c) ==
  /\ At(c, "stream")
  /\ streaming
  /\ rendered[c] < MaxTokens
  /\ g = 0
  /\ first' = first \cup {c}
  /\ Goto(c, IF c \in first THEN "render" ELSE "exchange")
  /\ UNCHANGED <<ui, proc, calls, g, handler, provider, uses, rendered, result,
                 spinVars, ret, outcome>>

\* renderer->write
Render(c) ==
  /\ At(c, "render")
  /\ rendered' = [rendered EXCEPT ![c] = @ + 1]
  /\ Goto(c, "stream")
  /\ UNCHANGED <<ui, proc, calls, g, handler, provider, uses, first, result,
                 spinVars, ret, outcome>>

Returns(c, r) ==
  /\ At(c, "stream")
  /\ result' = [result EXCEPT ![c] = r]
  /\ Goto(c, "finish")
  /\ UNCHANGED <<ui, proc, calls, g, handler, provider, uses, first, rendered,
                 spinVars, ret, outcome>>

\* A token arrives and the flag is set: the callback returns false and the
\* provider gives what it has.
Stopped(c) == streaming /\ g = 1 /\ Returns(c, "partial")

\* The request ends, answered or failed (""): no token brings news of Ctrl-C.
Ended(c) == Returns(c, "whole") \/ Returns(c, "failed")

\* renderer->finish(), *done = true
Finish(c) ==
  /\ At(c, "finish")
  /\ Goto(c, "dead")
  /\ UNCHANGED <<ui, proc, calls, g, handler, provider, workVars, spinVars, ret, outcome>>

\* A worker inside an instance that was destroyed may also crash.
UseFreed(c) ==
  /\ At(c, "stream")
  /\ uses[c] # provider
  /\ proc' = "crashed"
  /\ UNCHANGED <<ui, calls, pc, g, handler, provider, workVars, spinVars, ret, outcome>>

-----------------------------------------------------------------------------
(* Ctrl-C. *)

\* The handler sets the flag.
Sigint ==
  /\ proc = "up"
  /\ handler
  /\ g' = 1
  /\ UNCHANGED <<ui, proc, calls, pc, handler, provider, workVars, spinVars, ret, outcome>>

\* Without it, and before the line editor has the terminal, the default
\* action ends the process.
SigintKills ==
  /\ proc = "up"
  /\ ~handler
  /\ pc[Main] # "prompt"
  /\ proc' = "killed"
  /\ UNCHANGED <<ui, calls, pc, g, handler, provider, workVars, spinVars, ret, outcome>>

MainStep == Poll \/ Reap \/ Decide \/ Restore \/ Check \/ Stop(Main)
WorkStep(c) ==
  \/ Enter(c) \/ Token(c) \/ Render(c) \/ Stopped(c) \/ Ended(c) \/ Finish(c)
  \/ Stop(c) \/ UseFreed(c)

Next ==
  \/ Start \/ SwitchProvider \/ Sigint \/ SigintKills
  \/ MainStep
  \/ \E c \in Calls : WorkStep(c) \/ SpinnerEnds(c)

(***************************************************************************)
(* The operating system runs the main thread and the animation loops.  The *)
(* workers get no fairness at all: the model may never answer.             *)
(***************************************************************************)
Fairness == WF_vars(MainStep) /\ \A c \in Calls : WF_vars(SpinnerEnds(c))

Spec == Init /\ [][Next]_vars /\ Fairness

-----------------------------------------------------------------------------
(* Properties. *)

\* Main is between the polling loop and the choice of what to return.
Polled == pc[Main] \in {"reap", "decide"} \/ (streaming /\ pc[Main] \in Stopping)

\* The state is well formed; the handler is installed exactly while main is
\* between Start and Restore, and the flag is clear at the prompt, so that a
\* Ctrl-C is never carried over to the next call.
TypeOK ==
  /\ {streaming, interactive, handler} \subseteq BOOLEAN
  /\ proc \in {"up", "crashed", "killed"}
  /\ calls \in 0 .. MaxCalls
  /\ pc \in [Threads -> MainPCs \cup WorkPCs]
  /\ pc[Main] \in MainPCs /\ \A c \in Calls : pc[c] \in WorkPCs
  /\ g \in {0, 1} /\ provider \in Nat
  /\ uses \in [Calls -> Nat] /\ rendered \in [Calls -> Nat]
  /\ first \subseteq Calls /\ spinOn \subseteq Calls /\ joinable \subseteq Calls
  /\ result \in [Calls -> {"none", "partial", "whole", "failed"}]
  /\ spinner \in [Calls -> {"none", "live", "ended"}]
  /\ ret \in {"none", "empty", "partial", "whole", "failed"}
  /\ outcome \in {"none", "cancelled", "whole", "failed"}
  /\ handler <=> pc[Main] \in {"poll", "restore"} \/ Polled
  /\ pc[Main] = "prompt" => g = 0

\* Text of a reply is put on the terminal only after the spinner of its call
\* has stopped drawing there.
SpinnerBeforeText ==
  \A c \in Calls : pc[c] = "render" \/ rendered[c] > 0 => spinner[c] # "live"

\* A worker that is still running when its call is over was interrupted: no
\* reply is taken from a call whose worker may still write.
OnlyInterruptedRunOn ==
  pc[Main] = "prompt" /\ outcome \in {"whole", "failed"} => Done(calls)

\* What the properties above and the refinement below rest on.

\* A call that was not made has left no trace; a worker has a result once it is
\* past the provider.
Untouched(c) == pc[c] = "none" /\ c \notin first /\ rendered[c] = 0
WorkersInOrder ==
  \A c \in Calls :
    /\ c > calls => Untouched(c)
    /\ result[c] = "none" <=> pc[c] \notin {"finish", "dead"}

\* The polling loop was left for a reason, which does not go away.
PolledForReason == Polled => Done(calls) \/ g = 1

\* From Decide on, main holds the whole reply unless it was interrupted.
Decided == pc[Main] \in {"restore", "check"} \/ (~streaming /\ pc[Main] \in Stopping)
DecidedOnReply == Decided => g = 1 \/ (ret \in {"whole", "failed"} /\ Done(calls))

\* A reply is cut short only by a Ctrl-C that the main thread will see.
CutShortByUser ==
  pc[Main] # "prompt" => calls \in Calls /\ (result[calls] = "partial" => g = 1)

\* first_token separates a spinner that turns from text that is written.
FirstTokenStops ==
  \A c \in Calls :
    /\ spinner[c] = "live" => c \in joinable
    /\ pc[c] \in Stopping \cup {"render"} \/ rendered[c] > 0 => c \in first
    /\ c \in first /\ pc[c] \notin Stopping => spinner[c] # "live"
    /\ pc[c] \in Stopping => rendered[c] = 0

IInv ==
  /\ TypeOK
  /\ WorkersInOrder
  /\ PolledForReason
  /\ DecidedOnReply
  /\ CutShortByUser
  /\ OnlyInterruptedRunOn
  /\ FirstTokenStops

\* The call as the prompt line sees it.
Call == INSTANCE PromptCall WITH
  turn <- calls,
  pending <- (pc[Main] # "prompt"),
  interrupted <- (g = 1)

\* Three threads and a signal give exactly what PromptCall promises: a call
\* that Ctrl-C hit before the reply was taken is cancelled, and any other
\* gives the text the provider returned, never a part of it.
ImplementsPromptCall == Call!Spec

\* "Ctrl+C returns to prompt immediately" (ADR-012): without any help from
\* the worker, which may hang in the provider for ever.
InterruptReturns ==
  (g = 1) ~> (pc[Main] = "prompt" \/ proc # "up")

(***************************************************************************)
(* What the source says of itself and the code does not keep.              *)
(***************************************************************************)

\* Spinner::stop is "safe to call multiple times (atomic exchange prevents
\* double-join)".
NoDoubleJoin == \A c \in Calls : Cardinality(Joining(c)) <= 1

\* "The thread owns its data - safe to detach": no worker runs in a provider
\* that was destroyed.
ProviderAlive ==
  \A c \in Calls : pc[c] \in {"stream", "render"} \cup Stopping => uses[c] = provider
=============================================================================
