------------------------------- MODULE Router -------------------------------
(***************************************************************************)
(* Routing over several Ollama hosts: MultiHostProvider (its constructor,  *)
(* find_host_for_model, failover, chat and chat_stream) and the request it *)
(* makes of a host, with its retry (ollama_chat, ollama_chat_stream).      *)
(*                                                                         *)
(* A call that Ctrl-C abandoned runs on in its own thread (module Chat),   *)
(* so calls overlap, and hosts_ and active_idx_ are shared between them    *)
(* without a lock.  That is a data race; its outcomes are taken to be the  *)
(* interleavings of: marking a host, looking for the next, making it the   *)
(* active one, reading which is active.  The scan for the next host does   *)
(* no I/O and is one step.                                                 *)
(*                                                                         *)
(* A host may answer, refuse or drop any request, so whether it is up is   *)
(* no state of its own.  Of a text only its number of tokens is kept.      *)
(***************************************************************************)
EXTENDS Integers

CONSTANTS
  HostCount,   \* entries of OLLAMA_HOSTS; the factory routes if there are two
  MaxCalls,    \* bound: calls of a session
  MaxTokens    \* bound: tokens a host streams in answer to one request

ASSUME RouterAssumption ==
  /\ HostCount \in Nat \ {0}
  /\ {MaxCalls, MaxTokens} \subseteq Nat

Hosts == 1 .. HostCount
Calls == 1 .. MaxCalls

VARIABLES
  has,         \* hosts whose cached model list has the model
  healthy,     \* hosts whose flag is set
  active,      \* active_idx_ + 1
  probed,      \* ghost: the hosts that were healthy when they were probed
  flag,        \* g_interrupted
  waiting,     \* the REPL waits for the last call
  calls,       \* calls made
  overlapped,  \* ghost: two calls have run at the same time
  pc,          \* where each call is
  streamed,    \* chat_stream, not chat
  host,        \* the host a call talks to
  leg,         \* the second leg is the one after failover()
  try,         \* the second try is the retry of ollama_chat_stream
  got,         \* tokens that came in this try
  text,        \* full_response
  part,        \* ghost: tokens of this leg the callback accepted
  aborted,     \* aborted
  next,        \* idx in failover()
  reply        \* length of what the call returned

shared == <<has, healthy, active, probed>>
repl   == <<flag, waiting, calls, overlapped>>
local  == <<streamed, host, leg, try, got, text, part, aborted, next, reply>>
vars   == <<shared, repl, pc, local>>

PCs == {"none", "sending", "mark", "pick", "set", "read", "done"}
FailoverPCs == {"mark", "pick", "set", "read"}

-----------------------------------------------------------------------------
(* Choosing a host. *)

IsFirst(h, S) == h \in S /\ \A k \in S : h <= k

\* find_host_for_model gives h: the first healthy host that has the model, else the
\* first healthy one, else the first.
FindHost(h, up, with) ==
  IF up \cap with # {} THEN IsFirst(h, up \cap with)
  ELSE IF up # {} THEN IsFirst(h, up)
  ELSE h = 1

\* The host i places after h, round the ring.
After(h, i) == IF h + i > HostCount THEN h + i - HostCount ELSE h + i

\* Offsets from the active host at which failover finds a healthy one.
Offsets == {i \in 1 .. HostCount - 1 : After(active, i) \in healthy}

-----------------------------------------------------------------------------
(* The constructor probes every host: one that lists no model is unhealthy. *)

Init ==
  /\ probed \in SUBSET Hosts
  /\ has \in SUBSET probed
  /\ healthy = probed
  /\ active \in Hosts /\ FindHost(active, probed, has)
  /\ flag = FALSE
  /\ waiting = FALSE
  /\ calls = 0
  /\ overlapped = FALSE
  /\ pc = [c \in Calls |-> "none"]
  /\ streamed \in {[c \in Calls |-> b] : b \in BOOLEAN}
  /\ host = [c \in Calls |-> 1]
  /\ leg = [c \in Calls |-> 1]
  /\ try = [c \in Calls |-> 1]
  /\ got = [c \in Calls |-> 0]
  /\ text = [c \in Calls |-> 0]
  /\ part = [c \in Calls |-> 0]
  /\ aborted = [c \in Calls |-> FALSE]
  /\ next = [c \in Calls |-> 1]
  /\ reply = [c \in Calls |-> 0]

-----------------------------------------------------------------------------
(* The caller. *)

InFlight(c) == pc[c] \notin {"none", "done"}

\* A worker calls the provider, which talks to the active host.
Start(c) ==
  /\ c = calls + 1
  /\ ~flag
  /\ waiting => pc[calls] = "done"
  /\ calls' = c
  /\ waiting' = TRUE
  /\ overlapped' = (overlapped \/ \E d \in Calls : InFlight(d))
  /\ host' = [host EXCEPT ![c] = active]
  /\ pc' = [pc EXCEPT ![c] = "sending"]
  /\ UNCHANGED <<shared, flag, streamed, leg, try, got, text, part, aborted, next, reply>>

\* Ctrl-C while the REPL waits.
Interrupt ==
  /\ waiting
  /\ ~flag
  /\ flag' = TRUE
  /\ UNCHANGED <<shared, waiting, calls, overlapped, pc, local>>

\* The worker is detached, the flag cleared, the prompt is back.
Abandon ==
  /\ flag
  /\ flag' = FALSE
  /\ waiting' = FALSE
  /\ UNCHANGED <<shared, calls, overlapped, pc, local>>

-----------------------------------------------------------------------------
(* One request to the host of call c. *)

Sending(c) == pc[c] = "sending"

\* The provider's call returns n tokens: an empty text of the first leg is taken
\* for a failed connection.
LegEnds(c, n) ==
  IF n = 0 /\ leg[c] = 1
  THEN pc' = [pc EXCEPT ![c] = "mark"] /\ UNCHANGED reply
  ELSE pc' = [pc EXCEPT ![c] = "done"] /\ reply' = [reply EXCEPT ![c] = n]

MoreTokens(c) == Sending(c) /\ streamed[c] /\ got[c] < MaxTokens

\* A token arrives and is handed to the callback.
Token(c) ==
  /\ MoreTokens(c)
  /\ ~flag
  /\ got' = [got EXCEPT ![c] = @ + 1]
  /\ text' = [text EXCEPT ![c] = @ + 1]
  /\ part' = [part EXCEPT ![c] = @ + 1]
  /\ UNCHANGED <<shared, repl, pc, streamed, host, leg, try, aborted, next, reply>>

\* Mutant of Refused: the callback is asked before the token is added.
RefusedFirst(c) ==
  /\ MoreTokens(c)
  /\ flag
  /\ aborted' = [aborted EXCEPT ![c] = TRUE]
  /\ LegEnds(c, text[c])
  /\ UNCHANGED <<shared, repl, streamed, host, leg, try, got, text, part, next>>

\* A token arrives and is added to full_response; the callback returns false: the
\* request is cut off, and neither retried nor reported as failed.
Refused(c) ==
  /\ MoreTokens(c)
  /\ flag
  /\ aborted' = [aborted EXCEPT ![c] = TRUE]
  /\ text' = [text EXCEPT ![c] = @ + 1]
  /\ LegEnds(c, text[c] + 1)
  /\ UNCHANGED <<shared, repl, streamed, host, leg, try, got, part, next>>

\* The answer is complete (it may have no text at all).
Answered(c) ==
  /\ Sending(c)
  /\ IF streamed[c] THEN LegEnds(c, text[c]) ELSE LegEnds(c, 0) \/ LegEnds(c, 1)
  /\ UNCHANGED <<shared, repl, streamed, host, leg, try, got, text, part, aborted, next>>

\* The host answers with an HTTP error.
Rejected(c) ==
  /\ Sending(c)
  /\ got[c] = 0
  /\ LegEnds(c, 0)
  /\ UNCHANGED <<shared, repl, streamed, host, leg, try, got, text, part, aborted, next>>

\* Mutant of Dropped: a stream that broke off is always asked for once more.
DroppedRetries(c) ==
  /\ Sending(c)
  /\ IF streamed[c]
     THEN /\ try' = [try EXCEPT ![c] = 2]
          /\ got' = [got EXCEPT ![c] = 0]
          /\ UNCHANGED <<pc, reply>>
     ELSE LegEnds(c, 0) /\ UNCHANGED <<try, got>>
  /\ UNCHANGED <<shared, repl, streamed, host, leg, text, part, aborted, next>>

\* Mutant of Dropped: a host that gave nothing yet is asked again and again.
DroppedAgain(c) ==
  /\ Sending(c)
  /\ IF streamed[c] /\ (try[c] = 1 \/ text[c] = 0)
     THEN /\ try' = [try EXCEPT ![c] = 3 - @]
          /\ got' = [got EXCEPT ![c] = 0]
          /\ UNCHANGED <<pc, reply>>
     ELSE LegEnds(c, 0) /\ UNCHANGED <<try, got>>
  /\ UNCHANGED <<shared, repl, streamed, host, leg, text, part, aborted, next>>

\* The connection fails, perhaps amid the answer: a stream is asked for once more,
\* on top of the text it has; then the call returns nothing.
Dropped(c) ==
  /\ Sending(c)
  /\ IF streamed[c] /\ try[c] = 1
     THEN /\ try' = [try EXCEPT ![c] = 2]
          /\ got' = [got EXCEPT ![c] = 0]
          /\ UNCHANGED <<pc, reply>>
     ELSE LegEnds(c, 0) /\ UNCHANGED <<try, got>>
  /\ UNCHANGED <<shared, repl, streamed, host, leg, text, part, aborted, next>>

-----------------------------------------------------------------------------
(* failover() *)

\* Mutant of Mark: the host after the active one is blamed.
MarkNext(c) ==
  /\ pc[c] = "mark"
  /\ healthy' = healthy \ {After(active, 1)}
  /\ pc' = [pc EXCEPT ![c] = "pick"]
  /\ UNCHANGED <<has, active, probed, repl, local>>

\* hosts_[active_idx_].healthy = false
Mark(c) ==
  /\ pc[c] = "mark"
  /\ healthy' = healthy \ {active}
  /\ pc' = [pc EXCEPT ![c] = "pick"]
  /\ UNCHANGED <<has, active, probed, repl, local>>

Unpicked == UNCHANGED <<shared, repl, streamed, host, leg, try, got, text, part, aborted, reply>>

\* Mutant of Pick: the scan does not wrap around.
PickUpwards(c) ==
  /\ pc[c] = "pick"
  /\ LET up == {i \in Offsets : active + i <= HostCount}
     IN  \/ \E i \in up :
              /\ IsFirst(i, up)
              /\ next' = [next EXCEPT ![c] = After(active, i)]
              /\ pc' = [pc EXCEPT ![c] = "set"]
         \/ /\ up = {}
            /\ pc' = [pc EXCEPT ![c] = "done"]
            /\ UNCHANGED next
  /\ Unpicked

\* The next healthy host round the ring; without one the call returns nothing.
Pick(c) ==
  /\ pc[c] = "pick"
  /\ \/ \E i \in Offsets :
          /\ IsFirst(i, Offsets)
          /\ next' = [next EXCEPT ![c] = After(active, i)]
          /\ pc' = [pc EXCEPT ![c] = "set"]
     \/ /\ Offsets = {}
        /\ pc' = [pc EXCEPT ![c] = "done"]
        /\ UNCHANGED next
  /\ Unpicked

\* active_idx_ = idx
SetActive(c) ==
  /\ pc[c] = "set"
  /\ active' = next[c]
  /\ pc' = [pc EXCEPT ![c] = "read"]
  /\ UNCHANGED <<has, healthy, probed, repl, local>>

\* The call is made again, of whatever host is active now.
SecondLeg(c) ==
  /\ pc[c] = "read"
  /\ pc' = [pc EXCEPT ![c] = "sending"]
  /\ host' = [host EXCEPT ![c] = active]
  /\ leg' = [leg EXCEPT ![c] = 2]
  /\ try' = [try EXCEPT ![c] = 1]
  /\ got' = [got EXCEPT ![c] = 0]
  /\ text' = [text EXCEPT ![c] = 0]
  /\ part' = [part EXCEPT ![c] = 0]
  /\ UNCHANGED <<shared, repl, streamed, aborted, next, reply>>

CallStep(c) ==
  \/ Token(c) \/ Refused(c) \/ Answered(c) \/ Rejected(c) \/ Dropped(c)
  \/ Mark(c) \/ Pick(c) \/ SetActive(c) \/ SecondLeg(c)

Next ==
  \/ \E c \in Calls : Start(c) \/ CallStep(c)
  \/ Interrupt \/ Abandon

(***************************************************************************)
(* Connect and read timeouts end every request; the system runs a thread   *)
(* that does not wait.  What the user does is not fair.                    *)
(***************************************************************************)
Fairness == \A c \in Calls : WF_vars(CallStep(c))

Spec == Init /\ [][Next]_vars /\ Fairness

-----------------------------------------------------------------------------
(* Properties. *)

TypeOK ==
  /\ has \subseteq Hosts /\ healthy \subseteq Hosts /\ probed \subseteq Hosts
  /\ active \in Hosts
  /\ flag \in BOOLEAN /\ waiting \in BOOLEAN /\ overlapped \in BOOLEAN
  /\ calls \in 0 .. MaxCalls
  /\ pc \in [Calls -> PCs]
  /\ streamed \in [Calls -> BOOLEAN] /\ aborted \in [Calls -> BOOLEAN]
  /\ host \in [Calls -> Hosts] /\ next \in [Calls -> Hosts]
  /\ leg \in [Calls -> 1 .. 2] /\ try \in [Calls -> 1 .. 2]
  /\ got \in [Calls -> 0 .. MaxTokens]
  /\ text \in [Calls -> Nat] /\ part \in [Calls -> Nat] /\ reply \in [Calls -> Nat]
  /\ \A c \in Calls : text[c] <= 2 * MaxTokens + 1

\* While calls have never overlapped: outside a failover the active host is healthy
\* or no host is, and until a host is blamed it is one that has the model, if any
\* probed host has.
ActiveHost ==
  ~overlapped /\ (\A c \in Calls : pc[c] \notin {"pick", "set"}) =>
    /\ active \in healthy \/ healthy = {}
    /\ healthy = probed /\ has # {} => active \in has

\* What the properties rest on.  One call:
OrderOf(c) ==
  /\ c > calls <=> pc[c] = "none"
  /\ pc[c] = "none" => leg[c] = 1 /\ try[c] = 1 /\ got[c] = 0 /\ text[c] = 0 /\ part[c] = 0
  /\ pc[c] # "done" => reply[c] = 0 /\ ~aborted[c]
  /\ pc[c] \in FailoverPCs => leg[c] = 1
  /\ Sending(c) =>
       /\ text[c] = part[c]
       /\ text[c] <= got[c] + (IF try[c] = 2 THEN MaxTokens ELSE 0)

\* Calls that have never overlapped: one is in flight at most, it talks to the active
\* host, and what it is about to make active is healthy.
Solo ==
  ~overlapped =>
    /\ \A c, d \in Calls : InFlight(c) /\ InFlight(d) => c = d
    /\ \A c \in Calls :
         /\ pc[c] \in {"sending", "mark"} => host[c] = active
         /\ pc[c] = "pick" => active \notin healthy
         /\ pc[c] = "set" => next[c] \in healthy
         /\ pc[c] \in {"pick", "set"} /\ healthy = probed => has = {}

IInv ==
  /\ TypeOK
  /\ has \subseteq probed /\ healthy \subseteq probed
  /\ \A c \in Calls : OrderOf(c)
  /\ Solo
  /\ ActiveHost

\* A host is blamed by a call that got nothing from that very host.
Blames(c) == pc[c] = "mark" /\ pc'[c] = "pick" => healthy \ healthy' \subseteq {host[c]}

\* While calls have never overlapped, only the host that failed is blamed.
SoloBlame == [][\A c \in Calls : ~overlapped => Blames(c)]_vars

Contract(c) == INSTANCE StreamCall WITH
  status <- (IF pc[c] \in {"none", "done"} THEN pc[c] ELSE "running"),
  streamed <- streamed[c],
  starts <- leg[c],
  part <- part[c],
  declined <- aborted[c],
  reply <- reply[c]

\* Retries, failovers and other calls underneath, every call keeps the contract of
\* LLMProvider: it starts over at most once, what it returns is what the callback
\* accepted since, and a callback that declines ends it.
ImplementsStreamCall ==
  /\ \A c \in Calls : Contract(c)!Init
  /\ [][\A c \in Calls : [Contract(c)!Next]_(Contract(c)!vars)]_vars

\* Every call comes back, whatever its hosts do.
CallReturns == \A c \in Calls : Sending(c) ~> pc[c] = "done"

(***************************************************************************)
(* What the source says of itself and the code does not keep.              *)
(***************************************************************************)

\* "On connection failure, marks host unhealthy and tries the next one": the host
\* marked is the one whose connection failed.
FailedIsMarked == [][\A c \in Calls : Blames(c)]_vars
=============================================================================
