----------------------------- MODULE JsonText -----------------------------
(***************************************************************************)
(* The program's own reading and writing of JSON text.  A text is a        *)
(* sequence of characters, a word without a special letter counting as one *)
(* character and the four digits of a \u escape as another.  Objects are   *)
(* not parsed: a value is what follows the first text that looks like its  *)
(* key.                                                                    *)
(***************************************************************************)
EXTENDS Naturals, Sequences, FiniteSetsExt, SequencesExt, TLC

Quote == "\""
Bs == "\\"
Nl == "\n"
Tab == "\t"
Cr == "\r"
Control == "\\x01"              \* any other control character
Blank == {" ", Nl, Tab, Cr}
Digits == "0" :> 0 @@ "1" :> 1 @@ "2" :> 2 @@ "3" :> 3

\* The digits of a \u escape, and what becomes of it: beyond ASCII, nothing.
Hex == [h \in {"0022", "005c", "000a", "0001", "00e9"} |->
          CASE h = "0022" -> <<Quote>> [] h = "005c" -> <<Bs>> [] h = "000a" -> <<Nl>>
            [] h = "0001" -> <<Control>> [] OTHER -> <<>>]
Escapes == [c \in {"n", "t", "r", Quote, Bs, "/"} |->
              CASE c = "n" -> Nl [] c = "t" -> Tab [] c = "r" -> Cr [] OTHER -> c]

-----------------------------------------------------------------------------
(* Places in a text; 0 is no place.                                        *)

FirstOf(places) == IF places = {} THEN 0 ELSE Min(places)
find(t, w, pos) ==
  FirstOf({i \in pos .. Len(t) - Len(w) + 1 : SubSeq(t, i, i + Len(w) - 1) = w})
skip_ws(t, pos) == Min({i \in pos .. Len(t) : t[i] \notin Blank} \cup {Len(t) + 1})

Str(s) == <<Quote>> \o s \o <<Quote>>
Field(key, value) == Str(key) \o <<":">> \o Str(value)

\* The place of a value, behind its key; 0 too when nothing is there.
find_key_value(t, key) ==
  LET found == find(t, Str(key) \o <<":">>, 1)
      value == skip_ws(t, found + Len(key) + 3)
  IN IF found = 0 \/ value > Len(t) THEN 0 ELSE value

\* A quote behind an even number of backslashes.
Backslashes(t, i) == Max({n \in 0 .. i - 1 : \A j \in i - n .. i - 1 : t[j] = Bs})
is_end_quote(t, i) == t[i] = Quote /\ Backslashes(t, i) % 2 = 0

-----------------------------------------------------------------------------
(* Escapes.                                                                *)

\* What stands for s, when `known` are the escapes that are resolved; a
\* backslash before anything else stands for itself.
Resolved(s, known, unicode) ==
  LET From[i \in 1 .. Len(s) + 1] ==
        IF i > Len(s) THEN <<>>
        ELSE IF s[i] = Bs /\ i < Len(s) /\ s[i + 1] \in known
          THEN <<Escapes[s[i + 1]]>> \o From[i + 2]
        ELSE IF s[i] = Bs /\ unicode /\ i + 1 < Len(s) /\ s[i + 1] = "u"
          THEN Hex[s[i + 2]] \o From[i + 3]
        ELSE <<s[i]>> \o From[i + 1]
  IN From[1]

decode_escape(s) == Resolved(s, DOMAIN Escapes, TRUE)
unescape_json(s) == Resolved(s, DOMAIN Escapes \ {"/"}, FALSE)

\* Mutant of Escaped: a backslash is written as it is.
EscapedButBackslash(c) ==
  CASE c = Quote -> <<Bs, Quote>> [] c = Nl -> <<Bs, "n">> [] c = Tab -> <<Bs, "t">>
    [] c = Cr -> <<Bs, "r">> [] c = Control -> <<Bs, "u", "0001">> [] OTHER -> <<c>>

\* How a character is written in a string.
Escaped(c) ==
  CASE c = Quote -> <<Bs, Quote>> [] c = Bs -> <<Bs, Bs>> [] c = Nl -> <<Bs, "n">>
    [] c = Tab -> <<Bs, "t">> [] c = Cr -> <<Bs, "r">>
    [] c = Control -> <<Bs, "u", "0001">> [] OTHER -> <<c>>
escape_json(s) == FlattenSeq([i \in DOMAIN s |-> Escaped(s[i])])

-----------------------------------------------------------------------------
(* Values.                                                                 *)

\* A string up to its closing quote, or to the end of the text.  A value that
\* is no string is taken up to the next , } or blank.
json_extract_string(t, key) ==
  LET pos == find_key_value(t, key)
      end == Min({i \in pos + 1 .. Len(t) : is_end_quote(t, i)} \cup {Len(t) + 1})
      stop == Min({i \in pos .. Len(t) : t[i] \in {",", "}", " "}} \cup {Len(t) + 1})
  IN IF pos = 0 THEN <<>>
     ELSE IF t[pos] = Quote THEN decode_escape(SubSeq(t, pos + 1, end - 1))
     ELSE IF t[pos] \in {"null", "true", "false"} THEN <<>>
     ELSE SubSeq(t, pos, stop - 1)

json_extract_int(t, key) ==
  LET pos == find_key_value(t, key)
      end == Min({i \in pos .. Len(t) : t[i] \notin DOMAIN Digits} \cup {Len(t) + 1})
  IN IF pos = 0 THEN 0
     ELSE FoldLeft(LAMBDA n, d : 10 * n + Digits[d], 0, SubSeq(t, pos, end - 1))

\* How deep in braces, in a string or not, after one more character.
Walked(at, c) ==
  IF at.escaped THEN [at EXCEPT !.escaped = FALSE]
  ELSE IF at.string THEN [at EXCEPT !.escaped = c = Bs, !.string = c # Quote]
  ELSE [at EXCEPT !.string = c = Quote,
                  !.depth = IF c = "{" THEN @ + 1 ELSE IF c = "}" THEN @ - 1 ELSE @]

\* The object that begins at pos, where there is a brace; <<>> if it has no end.
extract_braced(t, pos) ==
  LET Inside == [depth : Nat, string : BOOLEAN, escaped : BOOLEAN]
      End[i \in pos .. Len(t) + 1, at \in Inside] ==
        LET now == Walked(at, t[i])
        IN IF i > Len(t) THEN 0 ELSE IF now.depth = 0 THEN i ELSE End[i + 1, now]
      end == End[pos, [depth |-> 0, string |-> FALSE, escaped |-> FALSE]]
  IN IF end = 0 THEN <<>> ELSE SubSeq(t, pos, end)

json_extract_object(t, key) ==
  LET pos == find_key_value(t, key)
  IN IF pos = 0 \/ t[pos] # "{" THEN <<>> ELSE extract_braced(t, pos)

\* The objects of a list, from pos on, up to the first without an end.
Objects(t, pos) ==
  LET From[p \in 1 .. Len(t) + 1] ==
        LET start == find(t, <<"{">>, p)
            obj == extract_braced(t, start)
        IN IF start = 0 \/ obj = <<>> THEN <<>> ELSE <<obj>> \o From[start + Len(obj)]
  IN From[pos]

=============================================================================
