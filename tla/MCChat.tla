------------------------------- MODULE MCChat -------------------------------
(* Chat with few calls, tokens and providers: the second and third call run  *)
(* beside the abandoned workers of the calls before them.                    *)
EXTENDS Chat
=============================================================================
