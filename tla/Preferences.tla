---------------------------- MODULE Preferences ----------------------------
(***************************************************************************)
(* What the user asks the program to be like: options, colours and themes, *)
(* the agent and its prompt, remembered facts.  Some of it is kept in .env *)
(* or in a file and meets the defaults again in the next session.  Here a  *)
(* style is its foreground, a colour code the hyphened name of the colour. *)
(***************************************************************************)
EXTENDS Naturals, Sequences

CONSTANTS
  Starts,      \* the command lines and environments sessions are started with
  Typed,       \* names of colours the user types
  Agents,      \* the agents of agents.yml
  Prompted,    \* those that have a prompt file
  Personas,    \* the personas of personas.yml
  Spinners,    \* names for /spinner
  Toggled,     \* the options the user toggles
  Facts,       \* what the user has remembered
  MaxFacts,    \* bound: facts in a file
  MaxSteps     \* bound: commands, starts and ends

ASSUME AgentsAssumption == "build" \in Agents /\ Prompted \subseteq Agents
ASSUME BoundsAssumption == MaxFacts \in Nat /\ MaxSteps \in Nat

Unset == "(unset)"
None == "(none)"

Options == {"markdown", "color", "bofh", "warmup", "mask", "tips", "trace"}
Targets == {"prompt", "ai"}                 \* the colours kept in .env
Roles == Targets \cup {"system", "error", "info", "warning", "banner", "code"}
Files == {"preferences", "memory"}
Bases == {"default", "small", "own"}        \* the system prompts of a session

ASSUME ToggledAssumption == Toggled \subseteq Options
ASSUME StartsAssumption ==
  \A g \in Starts : /\ g.on \subseteq Options \ {"markdown", "tips"}
                    /\ g.base \in {"default", "own", ""}

-----------------------------------------------------------------------------
(* Names of colours.                                                       *)

Plain == {"black", "red", "green", "yellow", "blue", "magenta", "cyan", "white"}
Spellings == {<<"bright-black", "bright_black">>, <<"bright-red", "bright_red">>,
              <<"bright-green", "bright_green">>, <<"bright-yellow", "bright_yellow">>,
              <<"bright-blue", "bright_blue">>, <<"bright-magenta", "bright_magenta">>,
              <<"bright-cyan", "bright_cyan">>, <<"bright-white", "bright_white">>}
Hyphened == {s[1] : s \in Spellings}
Extra == {"orange", "pink", "purple", "lime"}
NoName == {"none", "default"}

Underscore(n) == IF n \in Hyphened THEN (CHOOSE s \in Spellings : s[1] = n)[2] ELSE n

\* The codes of color_name_to_ansi, which has no bright-black and no underscores.
AnsiNames == Plain \cup (Hyphened \ {"bright-black"}) \cup Extra
color_name_to_ansi(n) == IF n \in AnsiNames THEN n ELSE ""

\* The code of a style; a name the themes do not know is the default foreground.
Codes == Plain \cup Hyphened \cup Extra \cup {"39", ""}
fg_code(n) == IF n = "" \/ n \in Plain THEN n
              ELSE IF \E s \in Spellings : s[2] = n THEN (CHOOSE s \in Spellings : s[2] = n)[1]
              ELSE "39"

Style(prompt, ai, system, error, info, warning, banner, code) ==
  [prompt |-> prompt, ai |-> ai, system |-> system, error |-> error, info |-> info,
   warning |-> warning, banner |-> banner, code |-> code]
Themes ==
  [dark |-> Style("green", "", "", "red", "cyan", "yellow", "yellow", "cyan"),
   light |-> Style("blue", "bright_black", "", "red", "blue", "yellow", "blue", "blue"),
   mono |-> Style("", "", "", "", "", "", "", ""),
   hacker |-> Style("bright_green", "green", "green", "red", "bright_green", "bright_yellow",
                    "bright_green", "bright_green")]

-----------------------------------------------------------------------------
VARIABLES
  saved,     \* the lines LLAMA_PROMPT_COLOR and LLAMA_AI_COLOR of .env
  files,     \* preferences.md and memory.md
  phase,     \* is a session running: "off", "on"
  given,     \* how it was started
  opts,      \* the options that are on
  explicit,  \* s.prompt_color and s.ai_color
  theme,     \* the name of active_theme()
  style,     \* its styles
  spinner,   \* s.spinner_name
  agent,     \* g_active_agent
  persona,   \* the persona last chosen, if no agent has been since
  system,    \* history[0], when it is a system message; its text
  steps,
  asked,     \* the colours the user has set and was told so
  kept       \* those of them that .env has

looks == <<opts, explicit, theme, style, spinner>>
asks == <<asked, kept>>
vars == <<saved, files, phase, given, looks, agent, persona, system, steps, asks>>

Text(base, search, prefs, memory) ==
  [base |-> base, search |-> search, preferences |-> prefs, memory |-> memory]
Bare(base) == Text(base, FALSE, <<>>, <<>>)
NoPrompt == Bare("")
HasPrompt == system # NoPrompt

\* run_repl: the prompt of a session started with g, if it has one.
SessionPrompt(g, f) ==
  IF g.base = "" THEN NoPrompt
  ELSE Text(IF g.base = "default" /\ g.small THEN "small" ELSE g.base, g.search,
            f["preferences"], f["memory"])

\* load_dotenv and load_env: what a colour is configured as.
Defaults == [prompt |-> "yellow", ai |-> "purple"]
Configured(t, g) == IF g.exported[t] # Unset THEN g.exported[t]
                    ELSE IF saved[t] # Unset THEN saved[t] ELSE Defaults[t]

Init == /\ saved = [t \in Targets |-> Unset] /\ files = [k \in Files |-> <<>>]
        /\ phase = "off" /\ given \in Starts /\ steps = 0
        /\ opts = {} /\ explicit = [t \in Targets |-> ""]
        /\ theme = "dark" /\ style = Themes["dark"] /\ spinner = ""
        /\ agent = "build" /\ persona = None /\ system = NoPrompt
        /\ asked = [t \in Targets |-> None] /\ kept = {}

Step == steps < MaxSteps /\ steps' = steps + 1
Command == phase = "on" /\ Step /\ UNCHANGED <<phase, given>>

Start(g) ==
  /\ phase = "off" /\ Step
  /\ phase' = "on" /\ given' = g
  /\ opts' = g.on \cup {"markdown", "tips"}
  /\ explicit' = [t \in Targets |-> color_name_to_ansi(Configured(t, g))]
  /\ theme' = "dark" /\ style' = Themes["dark"] /\ spinner' = ""
  /\ agent' = "build" /\ persona' = None
  /\ system' = SessionPrompt(g, files)
  /\ asked' = [t \in Targets |-> IF t \in kept /\ g.exported[t] = Unset THEN asked[t] ELSE None]
  /\ UNCHANGED <<saved, files, kept>>

\* exit, or the program is killed.
End == /\ phase = "on" /\ Step /\ phase' = "off"
       /\ UNCHANGED <<saved, files, given, looks, agent, persona, system, asks>>

-----------------------------------------------------------------------------
(* Options, spinner, themes.                                               *)

Set(o) ==
  /\ Command
  /\ opts' = IF o \in opts THEN opts \ {o} ELSE opts \cup {o}
  /\ UNCHANGED <<saved, files, explicit, theme, style, spinner, agent, persona, system, asks>>

Spinner(n) ==
  /\ Command
  /\ IF n \in {"default", "off"} THEN spinner' = "" /\ opts' = opts \ {"bofh"}
     ELSE spinner' = n /\ UNCHANGED opts
  /\ UNCHANGED <<saved, files, explicit, theme, style, agent, persona, system, asks>>

Theme(n) ==
  /\ Command
  /\ theme' = n /\ style' = Themes[n]
  /\ opts' = IF n = "mono" THEN opts \ {"color"} ELSE opts \cup {"color"}
  /\ UNCHANGED <<saved, files, explicit, spinner, agent, persona, system, asks>>

ThemeSet(role, n) ==
  /\ Command
  /\ style' = [style EXCEPT ![role] = n]
  /\ UNCHANGED <<saved, files, opts, explicit, theme, spinner, agent, persona, system, asks>>

-----------------------------------------------------------------------------
(* /color.                                                                 *)

\* save_to_dotenv for some of the colours; ok are those it could write.
SaveColors(value, ok) ==
  saved' = [t \in Targets |-> IF t \in ok THEN value[t] ELSE saved[t]]

ColorReset(ok) ==
  /\ Command
  /\ style' = Themes[theme]
  /\ explicit' = [t \in Targets |-> ""]
  /\ SaveColors([t \in Targets |-> ""], ok)
  /\ asked' = [t \in Targets |-> None] /\ kept' = kept \ ok
  /\ UNCHANGED <<files, opts, theme, spinner, agent, persona, system>>

Known(n) == n \in NoName \/ fg_code(Underscore(n)) # "39"
StyleOf(n) == IF n \in NoName THEN "" ELSE Underscore(n)

\* Mutant of Color: the name of the theme tables is saved, which load_dotenv's
\* reader does not know.
ColorSavesThemeName(t, n, ok) ==
  /\ Command /\ Known(n)
  /\ style' = [style EXCEPT ![t] = StyleOf(n)]
  /\ explicit' = [explicit EXCEPT ![t] = color_name_to_ansi(n)]
  /\ SaveColors([saved EXCEPT ![t] = StyleOf(n)], IF ok THEN {t} ELSE {})
  /\ asked' = [asked EXCEPT ![t] = n]
  /\ kept' = IF ok THEN kept \cup {t} ELSE kept \ {t}
  /\ UNCHANGED <<files, opts, theme, spinner, agent, persona, system>>

\* The prompt or the replies: for this session, and in .env for the next.
Color(t, n, ok) ==
  /\ Command /\ Known(n)
  /\ style' = [style EXCEPT ![t] = StyleOf(n)]
  /\ explicit' = [explicit EXCEPT ![t] = color_name_to_ansi(n)]
  /\ SaveColors([saved EXCEPT ![t] = n], IF ok THEN {t} ELSE {})
  /\ asked' = [asked EXCEPT ![t] = n]
  /\ kept' = IF ok THEN kept \cup {t} ELSE kept \ {t}
  /\ UNCHANGED <<files, opts, theme, spinner, agent, persona, system>>

\* The other targets: for this session only.
ColorRole(target, n) ==
  /\ Command /\ Known(n)
  /\ style' = [style EXCEPT ![IF target = "spinner" THEN "system" ELSE target] = StyleOf(n)]
  /\ UNCHANGED <<saved, files, opts, explicit, theme, spinner, agent, persona, system, asks>>

-----------------------------------------------------------------------------
(* /mem and /pref: for the sessions to come.                               *)

\* append_line says nothing when the file cannot be opened.
Remember(k, fact, ok) ==
  /\ Command /\ Len(files[k]) < MaxFacts
  /\ files' = IF ok THEN [files EXCEPT ![k] = Append(@, fact)] ELSE files
  /\ UNCHANGED <<saved, looks, agent, persona, system, asks>>

Forget(k) ==
  /\ Command
  /\ files' = [files EXCEPT ![k] = <<>>]
  /\ UNCHANGED <<saved, looks, agent, persona, system, asks>>

-----------------------------------------------------------------------------
(* /agent and /clear.                                                      *)

AgentOff ==
  /\ Command
  /\ system' = IF HasPrompt THEN Bare(given.base) ELSE system
  /\ agent' = "build" /\ persona' = None
  /\ UNCHANGED <<saved, files, looks, asks>>

\* An agent without a prompt file leaves the prompt as it is.
Agent(a) ==
  /\ Command
  /\ agent' = a /\ persona' = None
  /\ system' = IF a \in Prompted THEN Bare(a) ELSE system
  /\ UNCHANGED <<saved, files, looks, asks>>

Persona(p) ==
  /\ Command /\ p \notin Agents
  /\ agent' = "build" /\ persona' = p
  /\ system' = Bare(p)
  /\ UNCHANGED <<saved, files, looks, asks>>

Clear ==
  /\ Command
  /\ system' = NoPrompt
  /\ UNCHANGED <<saved, files, looks, agent, persona, asks>>

-----------------------------------------------------------------------------
Next ==
  \/ \E g \in Starts : Start(g)
  \/ End
  \/ \E o \in Toggled : Set(o)
  \/ \E n \in Spinners : Spinner(n)
  \/ \E n \in DOMAIN Themes : Theme(n)
  \/ \E role \in Roles, n \in Typed : ThemeSet(role, n)
  \/ \E ok \in SUBSET Targets : ColorReset(ok)
  \/ \E t \in Targets, n \in Typed, ok \in BOOLEAN : Color(t, n, ok)
  \/ \E target \in {"system", "error", "info", "spinner"}, n \in Typed : ColorRole(target, n)
  \/ \E k \in Files, fact \in Facts, ok \in BOOLEAN : Remember(k, fact, ok)
  \/ \E k \in Files : Forget(k)
  \/ AgentOff
  \/ \E a \in Agents : Agent(a)
  \/ \E p \in Personas : Persona(p)
  \/ Clear

Spec == Init /\ [][Next]_vars

-----------------------------------------------------------------------------
(* Properties.                                                             *)

\* read_line and colorize_ai: the colour in force.
Shown(t) == IF explicit[t] # "" THEN explicit[t] ELSE fg_code(style[t])

\* A colour both tables know, once set with /color, is the one in force for the
\* rest of the session and in every later one, whatever themes, styles, options
\* and other colours are chosen in between, until /color changes it again.  It
\* may be lost only where .env could not be written or a variable is exported.
ColorStays ==
  \A t \in Targets :
    phase = "on" /\ asked[t] \in Plain \cup (Hyphened \ {"bright-black"})
      => Shown(t) = asked[t]

\* "[agent: build - default restored]", and "switch personality and permissions":
\* with the agent build and no persona, the prompt is the one the session began
\* with, if there is one at all.
DefaultRestored ==
  phase = "on" /\ agent = "build" /\ persona = None /\ HasPrompt
    => system.base \in Bases /\ system.search = given.search

\* "/color <target> <color>": every colour that is accepted stays.
AcceptedStays ==
  \A t \in Targets :
    phase = "on" /\ asked[t] # None => Shown(t) = fg_code(StyleOf(asked[t]))
=============================================================================
