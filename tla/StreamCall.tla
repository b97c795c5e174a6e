----------------------------- MODULE StreamCall -----------------------------
(***************************************************************************)
(* What LLMProvider::chat_stream promises its caller (and chat, where      *)
(* nothing is shown on the way): tokens are handed to the callback; the    *)
(* call may start over once, on another host; it returns nothing, or the   *)
(* text handed over since it last started over.  A callback that declines  *)
(* a token ends the call at once, with text, so that nothing is tried      *)
(* again behind the back of a user who pressed Ctrl-C: this is what module *)
(* Chat takes a provider to be (Token, Stopped, Ended).  Module Router     *)
(* implements it over several hosts that fail.                             *)
(***************************************************************************)
EXTENDS Naturals

VARIABLES
  status,     \* "none", "running" or "done"
  streamed,   \* tokens are handed over: chat_stream, not chat
  starts,     \* times the call has started
  part,       \* tokens accepted since it last started
  declined,   \* the callback has returned false
  reply       \* length of the text returned; 0 is the empty text

vars == <<status, streamed, starts, part, declined, reply>>

Init ==
  /\ status = "none"
  /\ streamed \in BOOLEAN
  /\ starts = 1
  /\ part = 0
  /\ declined = FALSE
  /\ reply = 0

Begin ==
  /\ status = "none"
  /\ status' = "running"
  /\ UNCHANGED <<streamed, starts, part, declined, reply>>

Accept ==
  /\ status = "running"
  /\ streamed
  /\ part' = part + 1
  /\ UNCHANGED <<status, streamed, starts, declined, reply>>

StartOver ==
  /\ status = "running"
  /\ starts = 1
  /\ starts' = 2
  /\ part' = 0
  /\ UNCHANGED <<status, streamed, declined, reply>>

Decline ==
  /\ status = "running"
  /\ streamed
  /\ declined' = TRUE
  /\ status' = "done"
  /\ reply' = part + 1
  /\ UNCHANGED <<streamed, starts, part>>

Return ==
  /\ status = "running"
  /\ status' = "done"
  /\ reply' \in {0, IF streamed THEN part ELSE 1}
  /\ UNCHANGED <<streamed, starts, part, declined>>

Next == Begin \/ Accept \/ StartOver \/ Decline \/ Return

Spec == Init /\ [][Next]_vars
=============================================================================
