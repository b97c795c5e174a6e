--------------------------- MODULE MCConversation ---------------------------
(* Conversation on a small session: one chat file, a window of MaxHistory    *)
(* pairs, and as many follow-ups, results and tasks as the cfg says.         *)
EXTENDS Conversation
=============================================================================
