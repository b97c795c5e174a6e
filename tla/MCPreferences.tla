--------------------------- MODULE MCPreferences ---------------------------
(* Two ways to start a session, the shipped agents as far as their prompts   *)
(* and names differ, and a name of each kind of colour.                      *)
EXTENDS Preferences

Given(base, small, search, on, prompt) ==
  [base |-> base, small |-> small, search |-> search, on |-> on,
   exported |-> [prompt |-> prompt, ai |-> Unset]]
MCStarts == {Given("default", TRUE, TRUE, {"color"}, Unset), Given("own", FALSE, FALSE, {}, "orange")}
=============================================================================
