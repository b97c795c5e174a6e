------------------------------ MODULE Session ------------------------------
(***************************************************************************)
(* A conversation in a session file: a run loads it, says more, saves it   *)
(* and may be killed while it saves.                                       *)
(***************************************************************************)
EXTENDS JsonText

CONSTANTS
  Texts,        \* the contents of messages
  MaxChars,     \* bound: characters in the contents of a conversation
  MaxMessages,  \* bound: messages in a conversation
  MaxSaves      \* bound: saves

ASSUME TextsAssumption == Texts \subseteq Seq(STRING)
ASSUME SizesAssumption == MaxChars \in Nat /\ MaxMessages \in Nat /\ MaxSaves \in Nat

VARIABLES
  said,     \* the messages of the run
  file,     \* the text of the session file
  whole,    \* it was written to its end
  written,  \* the messages it was last saved from
  saves

sessionVars == <<said, file, whole, written, saves>>

Role == <<"r", "ole">>        \* the word, which a content may hold as well
Message(role, content) == [role |-> <<role>>, content |-> content]
Speakers == {"user", "assistant"}

-----------------------------------------------------------------------------
(* The session file.                                                       *)

Listed(items, sep) ==
  FlattenSeq([i \in DOMAIN items |-> items[i] \o (IF i < Len(items) THEN <<",">> ELSE <<>>) \o sep])

save_session(msgs) ==
  <<"[", Nl>>
    \o Listed([i \in DOMAIN msgs |->
                 <<" ", "{">> \o Field(Role, msgs[i].role) \o <<",">>
                   \o Field(<<"content">>, escape_json(msgs[i].content)) \o <<"}">>], <<Nl>>)
    \o <<"]", Nl>>

\* Mutant of load_session: the content is the first in the file.
load_sessionFromStart(t) ==
  LET From[p \in 1 .. Len(t) + 1] ==
        LET found == find(t, Str(Role), p)
            rest == SubSeq(t, found - 1, Len(t))
            role == json_extract_string(rest, Role)
            content == unescape_json(json_extract_string(t, <<"content">>))
        IN IF found = 0 THEN <<>>
           ELSE (IF role = <<>> THEN <<>> ELSE <<[role |-> role, content |-> content]>>)
                  \o From[found + 4]
  IN From[1]

\* A message for every "role" in the text, with the first content behind it.
load_session(t) ==
  LET From[p \in 1 .. Len(t) + 1] ==
        LET found == find(t, Str(Role), p)
            rest == SubSeq(t, found - 1, Len(t))
            role == json_extract_string(rest, Role)
            content == unescape_json(json_extract_string(rest, <<"content">>))
        IN IF found = 0 THEN <<>>
           ELSE (IF role = <<>> THEN <<>> ELSE <<[role |-> role, content |-> content]>>)
                  \o From[found + 4]
  IN From[1]

-----------------------------------------------------------------------------
Length(msgs) == FoldLeft(LAMBDA n, m : n + Len(m.content), 0, msgs)

SessionInit == said = <<>> /\ file = <<>> /\ whole = FALSE /\ written = <<>> /\ saves = 0

\* What no save is left for is not said.
Say(m) ==
  /\ saves < MaxSaves /\ Len(said) < MaxMessages /\ Length(said) + Len(m.content) <= MaxChars
  /\ said' = Append(said, m)
  /\ UNCHANGED <<file, whole, written, saves>>

Save ==
  /\ saves < MaxSaves /\ saves' = saves + 1
  /\ file' = save_session(said) /\ whole' = TRUE /\ written' = said
  /\ UNCHANGED said

\* The run is killed while it saves.
Cut ==
  /\ saves < MaxSaves /\ saves' = saves + 1
  /\ LET text == save_session(said)
     IN \E n \in 0 .. Len(text) - 1 : file' = SubSeq(text, 1, n)
  /\ whole' = FALSE /\ written' = said
  /\ said' = <<>>

\* Another run, with the session.
Load == said' = load_session(file) /\ UNCHANGED <<file, whole, written, saves>>

SessionNext ==
  \/ \E role \in Speakers, s \in Texts : Say(Message(role, s))
  \/ Save
  \/ Cut
  \/ Load

SessionSpec == SessionInit /\ [][SessionNext]_sessionVars

-----------------------------------------------------------------------------
(* Properties.                                                             *)

\* Contents a session gives back: without a backslash, which is resolved twice,
\* and not the word role, which looks like a key, at the end of the string.
Restorable(m) == /\ \A i \in DOMAIN m.content : m.content[i] # Bs
                 /\ ~IsSuffix(<<Quote>> \o Role, <<Quote>> \o m.content)

\* A saved session gives the next run the same messages; and one that was cut
\* off at any point in a save gives back all the messages before the cut, and at
\* most one more, which may be cut short.
SavedComesBack ==
  LET loaded == load_session(file)
  IN (\A i \in DOMAIN written : Restorable(written[i]))
       => IF whole THEN loaded = written
          ELSE Len(loaded) <= Len(written) /\ (loaded # <<>> => IsPrefix(Front(loaded), written))
=============================================================================
