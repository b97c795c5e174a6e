----------------------------- MODULE PromptCall -----------------------------
(***************************************************************************)
(* What one call to the model promises the code behind the prompt line     *)
(* (chat_with_spinner and the test of g_interrupted after it): the call    *)
(* can be interrupted while it is pending; an interrupted call is          *)
(* cancelled, whatever already arrived; any other call gives the complete  *)
(* text the provider returned, or the empty text of a failed request.      *)
(* Module Chat implements it with three threads and a signal handler.      *)
(***************************************************************************)
EXTENDS Naturals

VARIABLES
  turn,         \* calls made so far
  pending,      \* a call is under way
  interrupted,  \* Ctrl-C was pressed during it
  outcome       \* of the last call that ended; "none" while one is pending

vars == <<turn, pending, interrupted, outcome>>

Replies == {"whole", "failed"}

Init ==
  /\ turn = 0
  /\ pending = FALSE
  /\ interrupted = FALSE
  /\ outcome = "none"

Ask ==
  /\ ~pending
  /\ turn' = turn + 1
  /\ pending' = TRUE
  /\ outcome' = "none"
  /\ UNCHANGED interrupted

Interrupt ==
  /\ pending
  /\ ~interrupted
  /\ interrupted' = TRUE
  /\ UNCHANGED <<turn, pending, outcome>>

Finish ==
  /\ pending
  /\ pending' = FALSE
  /\ interrupted' = FALSE
  /\ IF interrupted THEN outcome' = "cancelled" ELSE outcome' \in Replies
  /\ UNCHANGED turn

Next == Ask \/ Interrupt \/ Finish

Spec == Init /\ [][Next]_vars
=============================================================================
