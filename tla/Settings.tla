------------------------------ MODULE Settings ------------------------------
(***************************************************************************)
(* Where a session's provider, model and host come from and where they     *)
(* go: load_config, the start of main, switch_prov, /provider, /host,      *)
(* /use, /model and /scan, and the .env file that several sessions in one  *)
(* directory share.                                                        *)
(*                                                                         *)
(* Config::instance() is a record of the five settings that choose whom to *)
(* ask; the provider object is what create_provider made of it, with the   *)
(* settings it copied.  A save of one setting reads .env, truncates it and *)
(* writes it back; a kill and another session come between these steps.    *)
(*                                                                         *)
(* Left out: settings that choose nobody (colours, limits, prompts) are    *)
(* one more line of the file; values of OLLAMA_HOST that carry a port; the *)
(* catalogue lists models once per place, the fastest first, as the        *)
(* registry sorts them.  Which servers answer is chosen anew at every      *)
(* request that asks them.                                                 *)
(***************************************************************************)
EXTENDS Naturals, Sequences

CONSTANTS
  Names,        \* names of settings, providers, models, hosts and ports
  Sessions,     \* runs of the program in one directory
  Catalog,      \* the models there are: [provider, model, at, sweet]
  Found,        \* what /scan finds: a sequence of <<host, port>>
  Typed,        \* what users type after /provider
  Defaults,     \* the initial values of Config's fields
  Environments, \* environments the program is started in
  Arguments,    \* command lines it is started with
  Files,        \* .env files users begin with
  MaxSteps      \* bound: starts and commands of all sessions together

Unset == "unset"
Cloud == <<"cloud", "cloud">>
Places == Names \X Names
Keys  == {"provider", "model", "host", "port", "hosts"}
Config == [Keys -> Names]
Entries == [provider : Names, model : Names, at : Places, sweet : BOOLEAN]
Lines == [key : Names, val : Names]

\* create_provider: the class it instantiates; "none" is the exception it throws.
KindOf(provider) ==
  CASE provider \in {"kiro-cli", "kiro", "amazon-q"} -> "kiro"
    [] provider \in {"opencode", "oc"}               -> "opencode"
    [] provider \in {"ollama", ""}                   -> "ollama"
    [] provider \in {"mock", "tgpt", "gemini"}       -> provider
    [] OTHER                                         -> "none"

ASSUME SettingsAssumption ==
  /\ MaxSteps \in Nat
  /\ Keys \cup {Unset, "cloud", "found", "ollama", "tgpt", "tgpt-default", "gemini-cli",
      "opencode-default", "kiro-auto", "mock-model"} \subseteq Names
  /\ Catalog \in Seq(Entries)
  /\ \A i \in DOMAIN Catalog : Catalog[i].provider = "ollama" <=> Catalog[i].at # Cloud
  /\ Found \in Seq(Places) /\ Found # <<>>
  /\ Typed \subseteq Names
  /\ Defaults \in Config /\ KindOf(Defaults.provider) # "none"
  /\ Environments \subseteq Config /\ Arguments \subseteq Config
  /\ Files \subseteq Seq(Lines)
  /\ \A f \in Files : \A i \in DOMAIN f : f[i].key = "provider" => KindOf(f[i].val) # "none"

\* Without a name /provider shows its menu, and the registry's entries all have one.
ASSUME NamesAssumption ==
  /\ "" \notin Typed
  /\ \A i \in DOMAIN Catalog : Catalog[i].provider # ""

VARIABLES
  file,    \* the lines of .env
  pc,      \* "off", "start" (config loaded), "prompt"
  cfg,     \* Config::instance() of each session
  reg,     \* its registry: indices into Catalog
  object,  \* its provider
  queue,   \* settings it has yet to save, in order
  io,      \* the save under way: "idle", "read", "cut"
  buf,     \* lines: the text it will write
  steps,   \* starts and commands so far
  told,    \* ghost: the settings .env was last said to hold
  torn     \* ghost: a save was killed, failed, or ran into another

ses  == <<pc, cfg, reg, object>>
save == <<queue, io, buf>>
vars == <<file, ses, save, steps, told, torn>>

-----------------------------------------------------------------------------
(* The file. *)

Line(k, v) == [key |-> k, val |-> v]

\* The last line of a key counts.
ValueIn(f, k) ==
  LET at == {i \in DOMAIN f : f[i].key = k}
  IN IF at = {} THEN Unset ELSE f[CHOOSE i \in at : \A j \in at : j <= i].val

\* save_to_dotenv: every line of the key is replaced; without one, a line is appended.
Saved(f, l) ==
  [i \in DOMAIN f |-> IF f[i].key = l.key THEN l ELSE f[i]]
    \o (IF \E i \in DOMAIN f : f[i].key = l.key THEN <<>> ELSE <<l>>)

\* Writing from the start over what another session has written meanwhile.
Over(f, g) == g \o SubSeq(f, Len(g) + 1, Len(f))

-----------------------------------------------------------------------------
(* Providers. *)

HostsOf(c) == IF c.hosts = "found" THEN Found ELSE <<>>

\* Servers that list a model, out of those that answer.
Listing(up) == {at \in up : \E i \in DOMAIN Catalog : Catalog[i].at = at}
Serves(at, m) == \E i \in DOMAIN Catalog : Catalog[i].at = at /\ Catalog[i].model = m

Firsts(S) == {i \in S : \A j \in S : i <= j}

\* Where MultiHostProvider begins: the first healthy host with the model, else the
\* first healthy one, else the first.
Routes(m, up) ==
  LET healthy == {i \in DOMAIN Found : Found[i] \in Listing(up)}
      with    == {i \in healthy : Serves(Found[i], m)}
      from    == IF with # {} THEN with ELSE IF healthy # {} THEN healthy ELSE DOMAIN Found
  IN {Found[i] : i \in Firsts(from)}

\* What create_provider makes of a configuration it does not reject.
Built(c, up) ==
  IF KindOf(c.provider) # "ollama"
  THEN {[kind |-> KindOf(c.provider), model |-> Unset, at |-> Cloud]}
  ELSE IF Len(HostsOf(c)) > 1
  THEN {[kind |-> "multi", model |-> c.model, at |-> at] : at \in Routes(c.model, up)}
  ELSE {[kind |-> "ollama", model |-> c.model, at |-> <<c.host, c.port>>]}

NoObject == [kind |-> "none", model |-> Unset, at |-> Cloud]

ModelsAt(P) == {Catalog[i].model : i \in {j \in DOMAIN Catalog : Catalog[j].at \in P}}
ModelsOf(P) == {Catalog[i].model : i \in {j \in DOMAIN Catalog : Catalog[j].provider \in P}}

\* list_models of each class.
ListModels(o, up) ==
  CASE o.kind = "ollama"   -> ModelsAt({o.at} \cap up)
    [] o.kind = "multi"    -> ModelsAt({Found[i] : i \in DOMAIN Found} \cap up)
    [] o.kind = "tgpt"     -> {"tgpt-default"}
    [] o.kind = "gemini"   -> {"gemini-cli"}
    [] o.kind = "opencode" -> {"opencode-default"}
    [] o.kind = "kiro"     -> IF ModelsOf({"kiro-cli", "amazon-q"}) = {} THEN {"kiro-auto"}
                              ELSE ModelsOf({"kiro-cli", "amazon-q"})
    [] OTHER               -> {"mock-model"}

-----------------------------------------------------------------------------
(* The registry. *)

ProviderEntries(s, name) == {i \in reg[s] : Catalog[i].provider = name}

\* scan_all_providers: the models of the servers that answer, and the programs installed.
ScanAll(c, up) ==
  LET asked == IF HostsOf(c) = <<>> THEN {<<c.host, c.port>>}
               ELSE {HostsOf(c)[i] : i \in DOMAIN HostsOf(c)}
  IN {i \in DOMAIN Catalog : Catalog[i].at \in (asked \cup {Cloud}) \cap up}

\* The settings with the host of an entry, which a cloud entry does not change.
Place(c, e) ==
  IF e.at = Cloud THEN c ELSE [c EXCEPT !["host"] = e.at[1], !["port"] = e.at[2]]

\* Mutant of Switched: the model is never replaced.
SwitchedKeepsModel(s, c, name) == {[c EXCEPT !["provider"] = name]}

\* switch_prov: the model stays if the provider has it, on whatever host.
Switched(s, c, name) ==
  LET d == [c EXCEPT !["provider"] = name]
      others == ProviderEntries(s, name)
  IN IF others = {} \/ \E i \in others : Catalog[i].model = c.model THEN {d}
     ELSE {Place([d EXCEPT !["model"] = Catalog[i].model], Catalog[i]) : i \in Firsts(others)}

\* A selected entry: its host, provider and model, then switch_prov.
Selected(s, e) ==
  Switched(s, [Place(cfg[s], e) EXCEPT !["model"] = e.model, !["provider"] = e.provider],
           e.provider)

-----------------------------------------------------------------------------
(* Loading. *)

Init ==
  /\ file \in Files
  /\ pc = [s \in Sessions |-> "off"]
  /\ cfg = [s \in Sessions |-> Defaults]
  /\ reg = [s \in Sessions |-> {}]
  /\ object = [s \in Sessions |-> NoObject]
  /\ queue = [s \in Sessions |-> <<>>]
  /\ io = [s \in Sessions |-> "idle"]
  /\ buf = [s \in Sessions |-> <<>>]
  /\ steps = 0
  /\ told = [k \in Keys |-> ValueIn(file, k)]
  /\ torn = FALSE

Else(a, b) == IF a # Unset THEN a ELSE b

\* load_env, load_dotenv, load_cli: arguments before .env before the environment.
Merged(env, args) ==
  [k \in Keys |-> Else(args[k], Else(ValueIn(file, k), Else(env[k], Defaults[k])))]

\* provider_explicit: the argument counts only where it changes the value.
Explicit(env, args) ==
  \/ env.provider # Unset
  \/ ValueIn(file, "provider") # Unset
  \/ args.provider \notin {Unset, Defaults.provider}

\* auto_detect_provider.
Probe(c, up) == IF <<c.host, c.port>> \in up THEN "ollama" ELSE "tgpt"

\* What may answer: the servers, and the shell that looks for the programs.
Servers == {Catalog[i].at : i \in DOMAIN Catalog}
Count == steps < MaxSteps /\ steps' = steps + 1

\* Settings c of a session, of which it saves some, in order.
Save(s, c, keys) ==
  /\ queue' = [queue EXCEPT ![s] = [i \in DOMAIN keys |-> Line(keys[i], c[keys[i]])]]
  /\ torn' = (torn \/ (keys # <<>> /\ \E t \in Sessions : queue[t] # <<>>))
  /\ UNCHANGED <<file, io, buf>>

\* What the user is told is in .env.
Tell(c, K) == told' = [k \in Keys |-> IF k \in K THEN c[k] ELSE told[k]]

LoadConfig(s) ==
  /\ pc[s] = "off"
  /\ Count
  /\ \E env \in Environments, args \in Arguments, up \in SUBSET Servers :
       LET c == Merged(env, args)
           d == [c EXCEPT !["provider"] = Probe(c, up)]
       IN IF Explicit(env, args)
          THEN /\ cfg' = [cfg EXCEPT ![s] = c]
               /\ Save(s, c, <<>>) /\ UNCHANGED told
          ELSE /\ cfg' = [cfg EXCEPT ![s] = d]
               /\ Save(s, d, <<"provider">>) /\ Tell(d, {"provider"})
  /\ pc' = [pc EXCEPT ![s] = "start"]
  /\ UNCHANGED <<reg, object>>

\* Mutant of End: the provider outlives the session.
EndKeepsProvider(s) ==
  /\ pc' = [pc EXCEPT ![s] = "off"]
  /\ UNCHANGED <<cfg, reg, object>>

\* The session is over: it quits, main returns 1, or an exception nobody catches ends it.
End(s) ==
  /\ pc' = [pc EXCEPT ![s] = "off"]
  /\ cfg' = [cfg EXCEPT ![s] = Defaults]
  /\ reg' = [reg EXCEPT ![s] = {}]
  /\ object' = [object EXCEPT ![s] = NoObject]

\* The automatic choice: the fastest of medium size, else the fastest.  It sets
\* model and host, not the provider.
AutoPicked(c, r) ==
  LET sweet == {i \in r : Catalog[i].sweet}
  IN IF c.model # "auto" \/ c.provider = "mock" THEN {c}
     ELSE {Place([c EXCEPT !["model"] = Catalog[i].model], Catalog[i]) :
             i \in Firsts(IF sweet # {} THEN sweet ELSE r)}

\* The model fallback: a model the provider does not list gives way to one it does.
\* The provider object keeps the model it was made with.
FellBack(c, o, up) ==
  LET models == ListModels(o, up)
  IN IF c.provider = "mock" \/ c.model \in models \/ models = {} THEN {c}
     ELSE {[c EXCEPT !["model"] = m] : m \in models}

\* The start of main in interactive mode, up to the first prompt.
StartRepl(s) ==
  /\ pc[s] = "start" /\ queue[s] = <<>>
  /\ KindOf(cfg[s].provider) # "none"
  /\ \E up \in SUBSET Servers :
       LET r == IF cfg[s].provider = "mock" THEN {} ELSE ScanAll(cfg[s], up)
       IN /\ reg' = [reg EXCEPT ![s] = r]
          /\ \E c \in AutoPicked(cfg[s], r) : \E o \in Built(c, up) : \E d \in FellBack(c, o, up) :
               /\ cfg' = [cfg EXCEPT ![s] = d]
               /\ object' = [object EXCEPT ![s] = o]
  /\ pc' = [pc EXCEPT ![s] = "prompt"]
  /\ UNCHANGED <<file, save, steps, told, torn>>

\* There is no start: no such provider, or no model to pick.
StartFails(s) ==
  /\ pc[s] = "start" /\ queue[s] = <<>>
  /\ \/ KindOf(cfg[s].provider) = "none"
     \/ \E up \in SUBSET Servers : AutoPicked(cfg[s], ScanAll(cfg[s], up)) = {}
  /\ End(s)
  /\ UNCHANGED <<file, save, steps, told, torn>>

-----------------------------------------------------------------------------
(* Commands. *)

Prompt(s) == pc[s] = "prompt" /\ queue[s] = <<>>

\* Settings c become the session's and create_provider makes its provider; a name
\* it does not know is an exception, which ends the session before anything is saved.
Become(s, c, keys, K) ==
  IF KindOf(c.provider) = "none"
  THEN End(s) /\ UNCHANGED <<file, save, told, torn>>
  ELSE /\ cfg' = [cfg EXCEPT ![s] = c]
       /\ \E up \in SUBSET Servers : \E o \in Built(c, up) : object' = [object EXCEPT ![s] = o]
       /\ Save(s, c, keys) /\ Tell(c, K)
       /\ UNCHANGED <<pc, reg>>

\* Mutant of ProviderCommand: the name is saved before create_provider sees it.
ProviderSavedFirst(s) ==
  /\ Prompt(s) /\ Count
  /\ \E name \in Typed : \E c \in Switched(s, cfg[s], name) :
       /\ cfg' = [cfg EXCEPT ![s] = c]
       /\ Save(s, c, <<"provider">>) /\ Tell(c, {"provider"})
  /\ UNCHANGED <<pc, reg, object>>

\* /provider, by name or by number; what is neither is taken for a name.
ProviderCommand(s) ==
  /\ Prompt(s) /\ Count
  /\ \E name \in Typed \cup {Catalog[i].provider : i \in reg[s]} :
       \E c \in Switched(s, cfg[s], name) : Become(s, c, <<"provider">>, {"provider"})

\* The entries at the head of their host.
Heads(s) == {i \in reg[s] : \A j \in reg[s] : Catalog[j].at = Catalog[i].at => i <= j}

\* Mutant of Host: switch_provider is not called.
HostKeepsProvider(s) ==
  /\ Prompt(s) /\ Count
  /\ \E i \in Heads(s) : \E c \in Selected(s, Catalog[i]) : cfg' = [cfg EXCEPT ![s] = c]
  /\ UNCHANGED <<file, pc, reg, object, save, told, torn>>

\* /host <name> keeps the choice to itself; the menu saves it.
Host(s) ==
  /\ Prompt(s) /\ Count
  /\ \E i \in Heads(s) : \E c \in Selected(s, Catalog[i]) : Become(s, c, <<>>, {})

\* Mutant of HostMenu: the port is not saved.
HostMenuForgetsPort(s) ==
  /\ Prompt(s) /\ Count
  /\ \E i \in Heads(s) : \E c \in Selected(s, Catalog[i]) :
       Become(s, c, <<"provider", "model", "host">>, {"provider", "model", "host", "port"})

\* The menu of /host, whose choice is saved.
HostMenu(s) ==
  /\ Prompt(s) /\ Count
  /\ \E i \in Heads(s) : \E c \in Selected(s, Catalog[i]) :
       Become(s, c, <<"provider", "model", "host", "port">>,
              {"provider", "model", "host", "port"})

\* /use: the first entry that matches; every entry is the first for its full name.
Use(s) ==
  /\ Prompt(s) /\ Count
  /\ \E i \in reg[s] : \E c \in Selected(s, Catalog[i]) : Become(s, c, <<>>, {})

\* /model shows the provider's entries, for Ollama those of the host, else all.
Shown(s) ==
  LET here == {i \in ProviderEntries(s, cfg[s].provider) :
                 cfg[s].provider = "ollama" => Catalog[i].at = <<cfg[s].host, cfg[s].port>>}
  IN IF here # {} THEN here ELSE reg[s]

\* The exception of create_provider is swallowed: the settings are the new ones, the
\* provider the old one.
Swallowed(s, c) ==
  /\ KindOf(c.provider) = "none"
  /\ cfg' = [cfg EXCEPT ![s] = c]
  /\ UNCHANGED <<file, pc, reg, object, save, told, torn>>

\* /model, by a number of the list: catch (...) around the choice takes every exception.
ModelByNumber(s) ==
  /\ Prompt(s) /\ Count
  /\ \E i \in Shown(s) : \E c \in Selected(s, Catalog[i]) :
       Swallowed(s, c) \/ (KindOf(c.provider) # "none" /\ Become(s, c, <<>>, {}))

\* /model, by a name: the first entry of the list with it.
ModelByName(s) ==
  /\ Prompt(s) /\ Count
  /\ \E i \in Shown(s) :
       /\ \A j \in Shown(s) : Catalog[j].model = Catalog[i].model => i <= j
       /\ \E c \in Selected(s, Catalog[i]) : Become(s, c, <<>>, {})

\* What /model shows without a registry: the provider's list, or each host's.
Listed(s, up) ==
  IF HostsOf(cfg[s]) = <<>>
  THEN {[model |-> m, at |-> <<cfg[s].host, cfg[s].port>>] : m \in ListModels(object[s], up)}
  ELSE {e \in [model : ModelsAt(up), at : {Found[i] : i \in DOMAIN Found} \cap up] :
          Serves(e.at, e.model)}

\* /model without a registry saves its choice and keeps the provider object.
ModelMenu(s) ==
  /\ Prompt(s) /\ Count
  /\ reg[s] = {}
  /\ \E up \in SUBSET Servers : \E e \in Listed(s, up) :
       LET c == [cfg[s] EXCEPT !["model"] = e.model, !["host"] = e.at[1], !["port"] = e.at[2]]
       IN /\ cfg' = [cfg EXCEPT ![s] = c]
          /\ Save(s, c, <<"model", "host", "port">>) /\ Tell(c, {"model", "host", "port"})
  /\ UNCHANGED <<pc, reg, object>>

\* /scan saves the servers it found; the registry and the provider stay.
Scan(s) ==
  /\ Prompt(s) /\ Count
  /\ LET c == [cfg[s] EXCEPT !["hosts"] = "found"]
     IN cfg' = [cfg EXCEPT ![s] = c] /\ Save(s, c, <<"hosts">>) /\ Tell(c, {"hosts"})
  /\ UNCHANGED <<pc, reg, object>>

Quit(s) ==
  /\ Prompt(s)
  /\ End(s)
  /\ UNCHANGED <<file, save, steps, told, torn>>

-----------------------------------------------------------------------------
(* Saving, a step at a time. *)

ReadFile(s) ==
  /\ io[s] = "idle" /\ queue[s] # <<>>
  /\ buf' = [buf EXCEPT ![s] = Saved(file, Head(queue[s]))]
  /\ io' = [io EXCEPT ![s] = "read"]
  /\ UNCHANGED <<file, ses, queue, steps, told, torn>>

CutFile(s) ==
  /\ io[s] = "read"
  /\ file' = <<>>
  /\ io' = [io EXCEPT ![s] = "cut"]
  /\ UNCHANGED <<ses, queue, buf, steps, told, torn>>

SaveEnds(s) ==
  /\ queue' = [queue EXCEPT ![s] = Tail(@)]
  /\ buf' = [buf EXCEPT ![s] = <<>>]
  /\ io' = [io EXCEPT ![s] = "idle"]

WriteFile(s) ==
  /\ io[s] = "cut"
  /\ file' = Over(file, buf[s])
  /\ SaveEnds(s)
  /\ UNCHANGED <<ses, steps, told, torn>>

\* The file cannot be opened: the save is dropped.
OpenFails(s) ==
  /\ io[s] = "read"
  /\ torn' = TRUE
  /\ SaveEnds(s)
  /\ UNCHANGED <<file, ses, steps, told>>

\* A kill: of a file being written, the first lines are there.
Kill(s) ==
  /\ pc[s] # "off"
  /\ End(s)
  /\ torn' = (torn \/ queue[s] # <<>>)
  /\ IF io[s] = "cut" THEN \E n \in 0 .. Len(buf[s]) : file' = Over(file, SubSeq(buf[s], 1, n))
     ELSE file' = file
  /\ queue' = [queue EXCEPT ![s] = <<>>]
  /\ buf' = [buf EXCEPT ![s] = <<>>]
  /\ io' = [io EXCEPT ![s] = "idle"]
  /\ UNCHANGED <<steps, told>>

Act(s) ==
  \/ LoadConfig(s) \/ StartRepl(s) \/ StartFails(s)
  \/ ProviderCommand(s) \/ Host(s) \/ HostMenu(s) \/ Use(s)
  \/ ModelByNumber(s) \/ ModelByName(s) \/ ModelMenu(s)
  \/ Scan(s) \/ Quit(s)
  \/ ReadFile(s) \/ CutFile(s) \/ WriteFile(s) \/ OpenFails(s) \/ Kill(s)

Next == \E s \in Sessions : Act(s)
Spec == Init /\ [][Next]_vars

-----------------------------------------------------------------------------
(* Properties. *)

Objects == [kind : {"none", "kiro", "opencode", "ollama", "multi", "mock", "tgpt", "gemini"},
            model : Names, at : Places]

\* Types, and the shape of a session: it has a provider exactly at the prompt, and a
\* text to write exactly during a save.
TypeOK ==
  /\ file \in Seq(Lines)
  /\ pc \in [Sessions -> {"off", "start", "prompt"}]
  /\ cfg \in [Sessions -> Config]
  /\ reg \in [Sessions -> SUBSET DOMAIN Catalog]
  /\ object \in [Sessions -> Objects]
  /\ queue \in [Sessions -> Seq(Lines)]
  /\ io \in [Sessions -> {"idle", "read", "cut"}]
  /\ buf \in [Sessions -> Seq(Lines)]
  /\ steps \in 0 .. MaxSteps
  /\ told \in [Keys -> Names]
  /\ torn \in BOOLEAN
  /\ \A s \in Sessions :
       /\ object[s].kind # "none" <=> pc[s] = "prompt"
       /\ queue[s] = <<>> => io[s] = "idle"
       /\ pc[s] = "off" => queue[s] = <<>>

\* Whatever was typed, switched, killed or overwritten, .env never names a provider
\* that create_provider rejects: it would end every later start in this directory.
SavedProviderStarts ==
  \A i \in DOMAIN file : file[i].key = "provider" => KindOf(file[i].val) # "none"

\* The kinds of provider create_provider may make for a name.
KindsOf(provider) ==
  IF KindOf(provider) = "ollama" THEN {"ollama", "multi"} ELSE {KindOf(provider)}

\* The provider a session asks is of the kind its settings, and the prompt, name;
\* unless they name one that create_provider rejects, which is then one the registry
\* lists (chosen by number: a name that was typed does not stay).
KindAgrees ==
  \A s \in Sessions : pc[s] = "prompt" =>
    IF KindOf(cfg[s].provider) = "none"
    THEN \E i \in reg[s] : Catalog[i].provider = cfg[s].provider
    ELSE object[s].kind \in KindsOf(cfg[s].provider)

\* Once every save is done, and none was killed, failed or ran into another, .env
\* holds what the user was last told it does, for every setting.
ToldIsSaved ==
  (~torn /\ \A s \in Sessions : queue[s] = <<>>) =>
    \A k \in Keys : ValueIn(file, k) = told[k]

\* A switch to Ollama asks for a model the registry has there: on the host of the new
\* provider, or on some host if it routes over several.  (With a list of one host, found
\* by /scan, it need not: the registry then lists that host, while the provider asks the
\* one that OLLAMA_HOST names.)
SwitchFindsModel ==
  [][\A s \in Sessions :
       (/\ pc[s] = "prompt" /\ object'[s] # object[s] /\ object'[s].kind \in {"ollama", "multi"}
        /\ ProviderEntries(s, "ollama") # {} /\ Len(HostsOf(cfg'[s])) # 1) =>
         \E i \in ProviderEntries(s, "ollama") :
           /\ Catalog[i].model = object'[s].model
           /\ object'[s].kind = "ollama" => Catalog[i].at = object'[s].at]_vars

-----------------------------------------------------------------------------
(* What the program says of itself, and does not keep. *)

\* repl_model.cpp:168: /model switches to the selected model's provider.
ChoiceSwitches ==
  [][\A s \in Sessions :
       ModelByNumber(s) => object'[s].kind \in KindsOf(cfg'[s].provider)]_vars

\* repl_commands.cpp:929: selecting a host switches to the first model on that host.
HostObeyed ==
  [][\A s \in Sessions :
       (HostMenu(s) /\ pc'[s] = "prompt" /\ object'[s].kind \in {"ollama", "multi"}) =>
         object'[s].at = <<cfg'[s].host, cfg'[s].port>>]_vars

\* main.cpp:317: the fallback prevents requests for a deleted model.
WarmupFindsModel ==
  [][\A s \in Sessions :
       (StartRepl(s) /\ object'[s].kind = "ollama") => object'[s].model = cfg'[s].model]_vars
=============================================================================
