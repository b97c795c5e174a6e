-------------------------- MODULE Settings_proofs --------------------------
(***************************************************************************)
(* Proofs about Settings, for every number of sessions, every catalogue    *)
(* and every file.                                                         *)
(***************************************************************************)
EXTENDS Settings, SequenceTheorems, WellFoundedInduction, TLAPS

-----------------------------------------------------------------------------
(* The file. *)

\* A text create_provider accepts every provider line of.
Startable(f) == \A i \in DOMAIN f : f[i].key = "provider" => KindOf(f[i].val) # "none"

\* Among some lines of a text there is a last one.
LEMMA LastLine ==
  ASSUME NEW n \in Nat, NEW at, at \subseteq 1 .. n, at # {}
  PROVE  \E i \in at : \A j \in at : j <= i
<1> DEFINE Above == {m \in Nat : \A i \in at : i <= m}
<1>1. Above # {} /\ Above \subseteq Nat
  <2>1. n \in Above
    OBVIOUS
  <2> QED
    BY <2>1
<1>2. PICK m \in Above : \A k \in Above : <<k, m>> \notin OpToRel(<, Nat)
  BY <1>1, WFMin, NatLessThanWellFounded
<1>3. \A k \in Above : ~(k < m)
  BY <1>2, <1>1 DEF OpToRel
<1>4. m \in at
  <2> SUFFICES ASSUME m \notin at
               PROVE  FALSE
    OBVIOUS
  <2>1. PICK i \in at : TRUE
    OBVIOUS
  <2>2. m \in Nat /\ i \in Nat /\ i >= 1 /\ i <= m
    BY <2>1
  <2>3. m - 1 \in Nat /\ \A j \in at : j <= m - 1
    BY <2>2
  <2>4. m - 1 \in Above
    BY <2>3
  <2> QED
    BY <2>4, <2>2, <1>3
<1> QED
  BY <1>4

\* A setting read from a text is a name.
LEMMA ValueType ==
  ASSUME NEW f \in Seq(Lines), NEW k
  PROVE  ValueIn(f, k) \in Names
<1> DEFINE at == {i \in DOMAIN f : f[i].key = k}
           last == CHOOSE i \in at : \A j \in at : j <= i
<1>1. CASE at = {}
  <2>1. ValueIn(f, k) = Unset
    BY <1>1 DEF ValueIn
  <2> QED
    BY <2>1, SettingsAssumption
<1>2. CASE at # {}
  <2>1. Len(f) \in Nat /\ at \subseteq 1 .. Len(f)
    OBVIOUS
  <2>2. \E i \in at : \A j \in at : j <= i
    BY <2>1, <1>2, LastLine
  <2>3. last \in at
    BY <2>2
  <2>4. f[last] \in Lines
    BY <2>3
  <2>5. f[last].val \in Names
    BY <2>4 DEF Lines
  <2> QED
    BY <2>5, <1>2 DEF ValueIn
<1> QED
  BY <1>1, <1>2

\* save_to_dotenv makes a text of a text.
LEMMA SavedType ==
  ASSUME NEW f \in Seq(Lines), NEW l \in Lines
  PROVE  /\ Saved(f, l) \in Seq(Lines)
         /\ Startable(f) /\ (l.key = "provider" => KindOf(l.val) # "none") => Startable(Saved(f, l))
<1> DEFINE a == [i \in DOMAIN f |-> IF f[i].key = l.key THEN l ELSE f[i]]
           b == IF \E i \in DOMAIN f : f[i].key = l.key THEN <<>> ELSE <<l>>
<1>1. a \in Seq(Lines) /\ Len(a) = Len(f)
  <2>1. DOMAIN f = 1 .. Len(f) /\ Len(f) \in Nat
    OBVIOUS
  <2>2. \A i \in 1 .. Len(f) : a[i] \in Lines
    BY <2>1
  <2> QED
    BY <2>1, <2>2, SeqDef
<1>2. b \in Seq(Lines) /\ Len(b) \in {0, 1} /\ (Len(b) = 1 => b[1] = l)
  OBVIOUS
<1>3. Saved(f, l) = a \o b
  BY DEF Saved
<1>4. Saved(f, l) \in Seq(Lines)
  BY <1>1, <1>2, <1>3
<1>5. ASSUME Startable(f), l.key = "provider" => KindOf(l.val) # "none"
      PROVE  Startable(Saved(f, l))
  <2> HIDE DEF a, b
  <2> SUFFICES ASSUME NEW i \in DOMAIN (a \o b), (a \o b)[i].key = "provider"
               PROVE  KindOf((a \o b)[i].val) # "none"
    BY <1>3 DEF Startable
  <2>1. CASE i \in 1 .. Len(f)
    <3>1. (a \o b)[i] = a[i]
      BY <2>1, <1>1, <1>2
    <3>2. a[i] = l \/ a[i] = f[i]
      BY <2>1 DEF a
    <3>3. i \in DOMAIN f
      BY <2>1
    <3> QED
      BY <3>1, <3>2, <3>3, <1>5 DEF Startable
  <2>2. CASE i \notin 1 .. Len(f)
    <3>1. (a \o b)[i] = l
      BY <2>2, <1>1, <1>2
    <3> QED
      BY <3>1, <1>5
  <2> QED
    BY <2>1, <2>2
<1> QED
  BY <1>4, <1>5

\* So does writing over another.
LEMMA OverType ==
  ASSUME NEW f \in Seq(Lines), NEW g \in Seq(Lines)
  PROVE  /\ Over(f, g) \in Seq(Lines)
         /\ Startable(f) /\ Startable(g) => Startable(Over(f, g))
<1> DEFINE r == SubSeq(f, Len(g) + 1, Len(f))
<1>1. r \in Seq(Lines) /\ \A i \in 1 .. Len(r) : i + Len(g) \in 1 .. Len(f) /\ r[i] = f[i + Len(g)]
  <2>1. Len(f) \in Nat /\ Len(g) \in Nat
    OBVIOUS
  <2>2. CASE Len(g) + 1 <= Len(f)
    <3>1. \A i \in (Len(g) + 1) .. Len(f) : f[i] \in Lines
      BY <2>1
    <3>2. /\ r \in Seq(Lines) /\ Len(r) = Len(f) - Len(g)
          /\ \A i \in 1 .. Len(f) - Len(g) : r[i] = f[Len(g) + i]
      BY <2>1, <2>2, <3>1
    <3> HIDE DEF r
    <3> QED
      BY <3>2, <2>1, <2>2
  <2>3. CASE ~(Len(g) + 1 <= Len(f))
    <3>1. r = << >>
      BY <2>1, <2>3
    <3> QED
      BY <3>1
  <2> QED
    BY <2>2, <2>3
<1>2. Over(f, g) = g \o r
  BY DEF Over
<1> HIDE DEF r
<1>3. Over(f, g) \in Seq(Lines)
  BY <1>1, <1>2
<1>4. ASSUME Startable(f), Startable(g)
      PROVE  Startable(Over(f, g))
  <2> SUFFICES ASSUME NEW i \in DOMAIN (g \o r), (g \o r)[i].key = "provider"
               PROVE  KindOf((g \o r)[i].val) # "none"
    BY <1>2 DEF Startable
  <2>1. CASE i \in 1 .. Len(g)
    <3>1. (g \o r)[i] = g[i] /\ i \in DOMAIN g
      BY <2>1, <1>1
    <3> QED
      BY <3>1, <1>4 DEF Startable
  <2>2. CASE i \notin 1 .. Len(g)
    <3>1. (g \o r)[i] = r[i - Len(g)] /\ i - Len(g) \in 1 .. Len(r)
      BY <2>2, <1>1
    <3>2. (g \o r)[i] = f[i] /\ i \in DOMAIN f
      BY <3>1, <1>1
    <3> QED
      BY <3>2, <1>4 DEF Startable
  <2> QED
    BY <2>1, <2>2
<1> QED
  BY <1>3, <1>4

\* The first lines of a text are one.
LEMMA CutType ==
  ASSUME NEW f \in Seq(Lines), NEW n \in 0 .. Len(f)
  PROVE  /\ SubSeq(f, 1, n) \in Seq(Lines)
         /\ Startable(f) => Startable(SubSeq(f, 1, n))
<1> DEFINE r == SubSeq(f, 1, n)
<1>1. r \in Seq(Lines) /\ Len(r) = n /\ \A i \in 1 .. n : r[i] = f[i] /\ i \in DOMAIN f
  BY SubSeqProperties
<1> HIDE DEF r
<1>2. DOMAIN r = 1 .. n
  BY <1>1
<1>3. r \in Seq(Lines) /\ (Startable(f) => Startable(r))
  BY <1>1, <1>2 DEF Startable
<1> QED
  BY <1>3 DEF r

\* The last line of a key is the one that counts.
LEMMA LastCounts ==
  ASSUME NEW f \in Seq(Lines), NEW k, NEW i \in DOMAIN f, f[i].key = k,
         \A j \in DOMAIN f : f[j].key = k => j <= i
  PROVE  ValueIn(f, k) = f[i].val
<1> DEFINE at == {j \in DOMAIN f : f[j].key = k}
           last == CHOOSE x \in at : \A j \in at : j <= x
<1>1. i \in at /\ \A j \in at : j <= i
  OBVIOUS
<1>2. last \in at /\ \A j \in at : j <= last
  BY <1>1
<1>3. at \subseteq Nat
  OBVIOUS
<1>4. last = i
  <2> HIDE DEF at, last
  <2>1. last <= i /\ i <= last /\ last \in Nat /\ i \in Nat
    BY <1>1, <1>2, <1>3
  <2> QED
    BY <2>1
<1> QED
  BY <1>1, <1>4 DEF ValueIn

\* A key has no line, or a last one.
LEMMA LineOrNone ==
  ASSUME NEW f \in Seq(Lines), NEW k
  PROVE  \/ /\ \A j \in DOMAIN f : f[j].key # k
            /\ ValueIn(f, k) = Unset
         \/ \E i \in DOMAIN f : f[i].key = k /\ \A j \in DOMAIN f : f[j].key = k => j <= i
<1> DEFINE at == {j \in DOMAIN f : f[j].key = k}
<1>1. CASE at = {}
  <2>1. \A j \in DOMAIN f : f[j].key # k
    BY <1>1
  <2>2. ValueIn(f, k) = Unset
    BY <1>1 DEF ValueIn
  <2> QED
    BY <2>1, <2>2
<1>2. CASE at # {}
  <2>1. Len(f) \in Nat /\ at \subseteq 1 .. Len(f)
    OBVIOUS
  <2>2. PICK i \in at : \A j \in at : j <= i
    BY <2>1, <1>2, LastLine
  <2> QED
    BY <2>2
<1> QED
  BY <1>1, <1>2

\* A text whose lines have the same keys as another's, and the same values of one key,
\* says the same of this key.
LEMMA SameLines ==
  ASSUME NEW f \in Seq(Lines), NEW g \in Seq(Lines), NEW k, DOMAIN f = DOMAIN g,
         \A i \in DOMAIN f : f[i].key = g[i].key,
         \A i \in DOMAIN f : f[i].key = k => f[i] = g[i]
  PROVE  ValueIn(f, k) = ValueIn(g, k)
<1>1. CASE \A j \in DOMAIN f : f[j].key # k
  BY <1>1, LineOrNone
<1>2. CASE \E i \in DOMAIN f : f[i].key = k /\ \A j \in DOMAIN f : f[j].key = k => j <= i
  <2>1. PICK i \in DOMAIN f : f[i].key = k /\ \A j \in DOMAIN f : f[j].key = k => j <= i
    BY <1>2
  <2>2. ValueIn(f, k) = f[i].val
    BY <2>1, LastCounts
  <2>3. i \in DOMAIN g /\ g[i].key = k /\ \A j \in DOMAIN g : g[j].key = k => j <= i
    BY <2>1
  <2>4. ValueIn(g, k) = g[i].val
    BY <2>3, LastCounts
  <2> QED
    BY <2>1, <2>2, <2>4
<1> QED
  BY <1>1, <1>2, LineOrNone

\* What save_to_dotenv changes: the setting it saves, and no other.
LEMMA SavedValue ==
  ASSUME NEW f \in Seq(Lines), NEW l \in Lines, NEW k
  PROVE  ValueIn(Saved(f, l), k) = IF k = l.key THEN l.val ELSE ValueIn(f, k)
<1> DEFINE g == Saved(f, l)
           a == [i \in DOMAIN f |-> IF f[i].key = l.key THEN l ELSE f[i]]
<1>1. DOMAIN f = 1 .. Len(f) /\ Len(f) \in Nat /\ g \in Seq(Lines)
  BY SavedType
<1>2. a \in Seq(Lines) /\ Len(a) = Len(f) /\ \A i \in 1 .. Len(f) : a[i] \in Lines
  <2>1. \A i \in 1 .. Len(f) : a[i] \in Lines
    BY <1>1
  <2> QED
    BY <1>1, <2>1, SeqDef
<1>3. CASE \E i \in DOMAIN f : f[i].key = l.key
  <2>1. g = a \o <<>>
    BY <1>3 DEF Saved
  <2>2. DOMAIN g = DOMAIN f /\ \A i \in DOMAIN f : g[i] = a[i]
    <3> HIDE DEF a
    <3> QED
      BY <2>1, <1>1, <1>2
  <2>3. \A i \in DOMAIN f : g[i] = IF f[i].key = l.key THEN l ELSE f[i]
    BY <2>2
  <2>4. CASE k = l.key
    <3>1. PICK i \in DOMAIN f : f[i].key = k /\ \A j \in DOMAIN f : f[j].key = k => j <= i
      BY <1>3, <2>4, LineOrNone
    <3>2. i \in DOMAIN g /\ g[i] = l /\ g[i].key = k /\ \A j \in DOMAIN g : g[j].key = k => j <= i
      BY <3>1, <2>2, <2>3, <2>4
    <3> HIDE DEF g
    <3>3. ValueIn(g, k) = g[i].val
      BY <3>2, <1>1, LastCounts
    <3> QED
      BY <3>2, <3>3, <2>4 DEF g
  <2>5. CASE k # l.key
    <3>1. /\ \A i \in DOMAIN f : f[i].key = g[i].key
          /\ \A i \in DOMAIN f : f[i].key = k => f[i] = g[i]
      BY <2>3, <2>5
    <3> HIDE DEF g
    <3>2. ValueIn(f, k) = ValueIn(g, k)
      BY <3>1, <2>2, <1>1, SameLines
    <3> QED
      BY <3>2, <2>5 DEF g
  <2> QED
    BY <2>4, <2>5
<1>4. CASE ~ \E i \in DOMAIN f : f[i].key = l.key
  <2>1. g = a \o <<l>>
    BY <1>4 DEF Saved
  <2>2. \A i \in 1 .. Len(f) : a[i] = f[i]
    BY <1>1, <1>4
  <2>3. /\ DOMAIN g = 1 .. Len(f) + 1 /\ g[Len(f) + 1] = l
        /\ \A i \in 1 .. Len(f) : g[i] = f[i]
    <3> HIDE DEF a
    <3> QED
      BY <2>1, <2>2, <1>1, <1>2
  <2> HIDE DEF g
  <2>4. CASE k = l.key
    <3>1. /\ Len(f) + 1 \in DOMAIN g /\ g[Len(f) + 1].key = k
          /\ \A j \in DOMAIN g : g[j].key = k => j <= Len(f) + 1
      BY <1>1, <2>3, <2>4
    <3>2. ValueIn(g, k) = g[Len(f) + 1].val
      BY <3>1, <1>1, LastCounts
    <3> QED
      BY <3>2, <2>3, <2>4 DEF g
  <2>5. CASE k # l.key
    <3>1. \A j \in DOMAIN g : g[j].key = k => j \in DOMAIN f /\ g[j] = f[j]
      BY <1>1, <2>3, <2>5
    <3>2. CASE \A j \in DOMAIN f : f[j].key # k
      <4>1. \A j \in DOMAIN g : g[j].key # k
        BY <3>1, <3>2
      <4>2. ValueIn(f, k) = Unset /\ ValueIn(g, k) = Unset
        BY <3>2, <4>1, <1>1, LineOrNone
      <4> QED
        BY <4>2, <2>5 DEF g
    <3>3. CASE \E i \in DOMAIN f : f[i].key = k /\ \A j \in DOMAIN f : f[j].key = k => j <= i
      <4>1. PICK i \in DOMAIN f : f[i].key = k /\ \A j \in DOMAIN f : f[j].key = k => j <= i
        BY <3>3
      <4>2. ValueIn(f, k) = f[i].val
        BY <4>1, LastCounts
      <4>3. i \in DOMAIN g /\ g[i] = f[i] /\ \A j \in DOMAIN g : g[j].key = k => j <= i
        BY <4>1, <3>1, <2>3, <1>1
      <4>4. ValueIn(g, k) = g[i].val
        BY <4>1, <4>3, <1>1, LastCounts
      <4> QED
        BY <4>2, <4>3, <4>4, <2>5 DEF g
    <3> QED
      BY <3>2, <3>3, LineOrNone
  <2> QED
    BY <2>4, <2>5
<1> QED
  BY <1>3, <1>4

\* A text written over nothing is the file.
LEMMA OverNothing ==
  ASSUME NEW g \in Seq(Lines)
  PROVE  Over(<<>>, g) = g
<1>1. Len(g) \in Nat /\ Len(g) + 1 > 0
  OBVIOUS
<1>2. SubSeq(<<>>, Len(g) + 1, 0) = <<>>
  BY <1>1
<1> QED
  BY <1>2 DEF Over

-----------------------------------------------------------------------------
(* Configurations and providers. *)

Kinds == {"kiro", "opencode", "ollama", "mock", "tgpt", "gemini"}

LEMMA KindType ==
  ASSUME NEW p
  PROVE  KindOf(p) \in Kinds \cup {"none"}
<1>1. CASE p \in {"kiro-cli", "kiro", "amazon-q", "opencode", "oc", "ollama", ""}
  BY <1>1 DEF KindOf, Kinds
<1>2. CASE p \in {"mock", "tgpt", "gemini"}
  BY <1>2 DEF KindOf, Kinds
<1>3. CASE p \notin {"kiro-cli", "kiro", "amazon-q", "opencode", "oc", "ollama", "",
                     "mock", "tgpt", "gemini"}
  BY <1>3 DEF KindOf, Kinds
<1> QED
  BY <1>1, <1>2, <1>3

LEMMA EntryType ==
  ASSUME NEW i \in DOMAIN Catalog
  PROVE  /\ Catalog[i].provider \in Names /\ Catalog[i].model \in Names
         /\ Catalog[i].at \in Places
         /\ Catalog[i].at[1] \in Names /\ Catalog[i].at[2] \in Names
<1>1. Catalog[i] \in Entries
  BY SettingsAssumption
<1>2. /\ Catalog[i].provider \in Names /\ Catalog[i].model \in Names
      /\ Catalog[i].at \in Places
  BY <1>1 DEF Entries
<1> QED
  BY <1>2 DEF Places

LEMMA FoundType ==
  ASSUME NEW i \in DOMAIN Found
  PROVE  Found[i] \in Places
BY SettingsAssumption

\* One setting more leaves a configuration one.
LEMMA WithType ==
  ASSUME NEW c \in Config, NEW k \in Keys, NEW v \in Names
  PROVE  /\ [c EXCEPT ![k] = v] \in Config
         /\ [c EXCEPT ![k] = v][k] = v
         /\ \A j \in Keys : j # k => [c EXCEPT ![k] = v][j] = c[j]
BY DEF Config

LEMMA PlaceType ==
  ASSUME NEW c \in Config, NEW i \in DOMAIN Catalog
  PROVE  /\ Place(c, Catalog[i]) \in Config
         /\ Place(c, Catalog[i]).provider = c.provider
<1>1. Catalog[i].at[1] \in Names /\ Catalog[i].at[2] \in Names
  BY EntryType
<1> DEFINE d == [c EXCEPT !["host"] = Catalog[i].at[1]]
<1>2. d \in Config /\ d.provider = c.provider
  BY <1>1, WithType DEF Keys
<1>3. [d EXCEPT !["port"] = Catalog[i].at[2]] \in Config
      /\ [d EXCEPT !["port"] = Catalog[i].at[2]].provider = c.provider
  <2> HIDE DEF d
  <2> QED
    BY <1>1, <1>2, WithType DEF Keys
<1>4. Place(c, Catalog[i]) = c \/ Place(c, Catalog[i]) = [d EXCEPT !["port"] = Catalog[i].at[2]]
  BY DEF Place
<1> QED
  BY <1>3, <1>4

\* A switch ends with the provider asked for.
LEMMA SwitchedType ==
  ASSUME TypeOK, NEW s \in Sessions, NEW c \in Config, NEW name \in Names,
         NEW d \in Switched(s, c, name)
  PROVE  d \in Config /\ d.provider = name
<1> DEFINE e == [c EXCEPT !["provider"] = name]
           others == ProviderEntries(s, name)
<1>1. e \in Config /\ e.provider = name
  BY WithType DEF Keys
<1>2. others \subseteq DOMAIN Catalog
  BY DEF TypeOK, ProviderEntries
<1>3. CASE d = e
  BY <1>1, <1>3
<1>4. ASSUME NEW i \in others, d = Place([e EXCEPT !["model"] = Catalog[i].model], Catalog[i])
      PROVE  d \in Config /\ d.provider = name
  <2> DEFINE g == [e EXCEPT !["model"] = Catalog[i].model]
  <2>1. Catalog[i].model \in Names
    BY <1>2, EntryType
  <2>2. g \in Config /\ g.provider = name
    BY <2>1, <1>1, WithType DEF Keys
  <2>3. d = Place(g, Catalog[i])
    BY <1>4
  <2> HIDE DEF g
  <2> QED
    BY <2>2, <2>3, <1>2, PlaceType
<1>5. d = e \/ \E i \in Firsts(others) : d = Place([e EXCEPT !["model"] = Catalog[i].model], Catalog[i])
  BY DEF Switched
<1>6. Firsts(others) \subseteq others
  BY DEF Firsts
<1> QED
  BY <1>3, <1>4, <1>5, <1>6

LEMMA SelectedType ==
  ASSUME TypeOK, NEW s \in Sessions, NEW i \in DOMAIN Catalog,
         NEW d \in Selected(s, Catalog[i])
  PROVE  d \in Config
<1> DEFINE p == Place(cfg[s], Catalog[i])
           m == [p EXCEPT !["model"] = Catalog[i].model]
           e == [m EXCEPT !["provider"] = Catalog[i].provider]
<1>1. p \in Config
  BY PlaceType DEF TypeOK
<1> HIDE DEF p
<1>2. m \in Config
  BY <1>1, EntryType, WithType DEF Keys
<1>3. e \in Config
  BY <1>2, EntryType, WithType DEF Keys
<1>4. e = [p EXCEPT !["model"] = Catalog[i].model, !["provider"] = Catalog[i].provider]
  OBVIOUS
<1>5. d \in Switched(s, e, Catalog[i].provider)
  BY <1>4 DEF Selected, p
<1> HIDE DEF e
<1> QED
  BY <1>3, <1>5, EntryType, SwitchedType

LEMMA MergedType ==
  ASSUME TypeOK, NEW env \in Environments, NEW args \in Arguments
  PROVE  Merged(env, args) \in Config
<1>1. \A k \in Keys : /\ args[k] \in Names /\ env[k] \in Names /\ Defaults[k] \in Names
                      /\ ValueIn(file, k) \in Names
  BY SettingsAssumption, ValueType DEF Config, TypeOK
<1> QED
  BY <1>1 DEF Merged, Else, Config

\* create_provider makes a provider of the kind its name stands for.
LEMMA BuiltType ==
  ASSUME NEW c \in Config, KindOf(c.provider) # "none", NEW up, NEW o \in Built(c, up)
  PROVE  o \in Objects /\ o.kind # "none" /\ o.kind \in KindsOf(c.provider)
<1>1. /\ c.model \in Names /\ c.host \in Names /\ c.port \in Names
      /\ Unset \in Names /\ Cloud \in Places
  BY SettingsAssumption DEF Config, Keys, Cloud, Places
<1>2. KindOf(c.provider) \in Kinds
  BY KindType
<1>3. CASE KindOf(c.provider) # "ollama"
  <2>1. o = [kind |-> KindOf(c.provider), model |-> Unset, at |-> Cloud]
    BY <1>3 DEF Built
  <2> QED
    BY <2>1, <1>1, <1>2, <1>3 DEF Objects, Kinds, KindsOf
<1>4. CASE KindOf(c.provider) = "ollama" /\ Len(HostsOf(c)) > 1
  <2>1. PICK at \in Routes(c.model, up) : o = [kind |-> "multi", model |-> c.model, at |-> at]
    BY <1>4 DEF Built
  <2>2. at \in Places
    BY <2>1, FoundType DEF Routes, Firsts
  <2> QED
    BY <2>1, <2>2, <1>1, <1>4 DEF Objects, KindsOf
<1>5. CASE KindOf(c.provider) = "ollama" /\ ~(Len(HostsOf(c)) > 1)
  <2>1. o = [kind |-> "ollama", model |-> c.model, at |-> <<c.host, c.port>>]
    BY <1>5 DEF Built
  <2> QED
    BY <2>1, <1>1, <1>5 DEF Objects, Places, KindsOf
<1> QED
  BY <1>3, <1>4, <1>5

\* The automatic choice keeps the provider, and so does the fallback.
LEMMA PickedType ==
  ASSUME NEW c \in Config, NEW r \in SUBSET DOMAIN Catalog, NEW d \in AutoPicked(c, r)
  PROVE  d \in Config /\ d.provider = c.provider
<1> DEFINE sweet == {i \in r : Catalog[i].sweet}
           from == IF sweet # {} THEN sweet ELSE r
<1>1. CASE d = c
  BY <1>1
<1>2. ASSUME NEW i \in from, d = Place([c EXCEPT !["model"] = Catalog[i].model], Catalog[i])
      PROVE  d \in Config /\ d.provider = c.provider
  <2> DEFINE g == [c EXCEPT !["model"] = Catalog[i].model]
  <2>1. i \in DOMAIN Catalog
    BY <1>2
  <2>2. g \in Config /\ g.provider = c.provider
    BY <2>1, EntryType, WithType DEF Keys
  <2>3. d = Place(g, Catalog[i])
    BY <1>2
  <2> HIDE DEF g
  <2> QED
    BY <2>1, <2>2, <2>3, PlaceType
<1>3. d = c \/ \E i \in Firsts(from) : d = Place([c EXCEPT !["model"] = Catalog[i].model], Catalog[i])
  BY DEF AutoPicked
<1>4. Firsts(from) \subseteq from
  BY DEF Firsts
<1> HIDE DEF from
<1> QED
  BY <1>1, <1>2, <1>3, <1>4

LEMMA ListedType ==
  ASSUME NEW o, NEW up
  PROVE  ListModels(o, up) \subseteq Names
<1>1. \A P : ModelsAt(P) \subseteq Names /\ ModelsOf(P) \subseteq Names
  BY EntryType DEF ModelsAt, ModelsOf
<1>2. {"tgpt-default"} \subseteq Names /\ {"gemini-cli"} \subseteq Names
      /\ {"opencode-default"} \subseteq Names /\ {"kiro-auto"} \subseteq Names
      /\ {"mock-model"} \subseteq Names
  BY SettingsAssumption
<1>3. CASE o.kind \in {"ollama", "multi", "tgpt", "gemini"}
  BY <1>1, <1>2, <1>3 DEF ListModels
<1>4. CASE o.kind \in {"opencode", "kiro"}
  BY <1>1, <1>2, <1>4 DEF ListModels
<1>5. CASE o.kind \notin {"ollama", "multi", "tgpt", "gemini", "opencode", "kiro"}
  BY <1>2, <1>5 DEF ListModels
<1> QED
  BY <1>3, <1>4, <1>5

LEMMA FellBackType ==
  ASSUME NEW c \in Config, NEW o, NEW up, NEW d \in FellBack(c, o, up)
  PROVE  d \in Config /\ d.provider = c.provider
<1>1. d = c \/ \E m \in ListModels(o, up) : d = [c EXCEPT !["model"] = m]
  BY DEF FellBack
<1>2. \A m \in ListModels(o, up) : m \in Names
  BY ListedType
<1>3. \A m \in Names : /\ [c EXCEPT !["model"] = m] \in Config
                       /\ [c EXCEPT !["model"] = m].provider = c.provider
  BY WithType DEF Keys
<1>4. CASE d = c
  BY <1>4
<1>5. ASSUME NEW m \in ListModels(o, up), d = [c EXCEPT !["model"] = m]
      PROVE  d \in Config /\ d.provider = c.provider
  <2>1. m \in Names
    BY <1>2
  <2>2. [c EXCEPT !["model"] = m] \in Config /\ [c EXCEPT !["model"] = m].provider = c.provider
    BY <1>3, <2>1
  <2> QED
    BY <2>2, <1>5
<1> QED
  BY <1>1, <1>4, <1>5

\* Settings that may be saved: no provider among them, or one that create_provider knows.
Acceptable(c, keys) == (\A i \in DOMAIN keys : keys[i] # "provider") \/ KindOf(c.provider) # "none"

\* What is queued for saving is a text of the keys' lines.
LEMMA QueueType ==
  ASSUME NEW c \in Config, NEW keys \in Seq(Keys), Acceptable(c, keys)
  PROVE  LET q == [i \in DOMAIN keys |-> Line(keys[i], c[keys[i]])]
         IN q \in Seq(Lines) /\ Startable(q) /\ (q = <<>> <=> keys = <<>>)
<1> DEFINE q == [i \in DOMAIN keys |-> Line(keys[i], c[keys[i]])]
<1>1. \A i \in DOMAIN keys : q[i] \in Lines
  <2>1. \A i \in DOMAIN keys : keys[i] \in Keys /\ c[keys[i]] \in Names
    BY DEF Config
  <2>2. Keys \subseteq Names
    BY SettingsAssumption
  <2> QED
    BY <2>1, <2>2 DEF Line, Lines
<1>2. DOMAIN keys = 1 .. Len(keys) /\ Len(keys) \in Nat
  OBVIOUS
<1>3. q \in Seq(Lines) /\ Len(q) = Len(keys) /\ DOMAIN q = DOMAIN keys
  BY <1>1, <1>2, SeqDef
<1>4. Startable(q)
  <2>1. \A i \in DOMAIN keys : q[i].key = keys[i] /\ q[i].val = c[keys[i]]
    BY DEF Line
  <2> HIDE DEF q
  <2> QED
    BY <1>3, <2>1 DEF Startable, Acceptable
<1> HIDE DEF q
<1>5. q = <<>> <=> keys = <<>>
  BY <1>3
<1> QED
  BY <1>3, <1>4, <1>5 DEF q

-----------------------------------------------------------------------------
(* What a switch makes of the settings. *)

\* A name, where the empty one would be Ollama's, too.
Given(name) == name # ""

\* An Ollama entry has a place, the others have none; no name is empty.
LEMMA EntryPlace ==
  ASSUME NEW i \in DOMAIN Catalog
  PROVE  /\ Given(Catalog[i].provider) /\ (Catalog[i].provider = "ollama" <=> Catalog[i].at # Cloud)
         /\ Catalog[i].at = <<Catalog[i].at[1], Catalog[i].at[2]>>
<1>1. Given(Catalog[i].provider) /\ (Catalog[i].provider = "ollama" <=> Catalog[i].at # Cloud)
  BY SettingsAssumption, NamesAssumption DEF Given
<1>2. Catalog[i].at \in Places
  BY EntryType
<1>3. Catalog[i].at = <<Catalog[i].at[1], Catalog[i].at[2]>>
  BY <1>2 DEF Places
<1> QED
  BY <1>1, <1>3

\* Only these names stand for Ollama.
LEMMA OllamaName ==
  ASSUME NEW p, KindOf(p) = "ollama"
  PROVE  p \in {"ollama", ""}
<1>1. CASE p \in {"kiro-cli", "kiro", "amazon-q"}
  BY <1>1 DEF KindOf
<1>2. CASE p \in {"opencode", "oc"}
  BY <1>2 DEF KindOf
<1>3. CASE p \in {"mock", "tgpt", "gemini"}
  BY <1>3 DEF KindOf
<1>4. CASE p \notin {"kiro-cli", "kiro", "amazon-q", "opencode", "oc", "ollama", "", "mock", "tgpt", "gemini"}
  BY <1>4 DEF KindOf
<1> QED
  BY <1>1, <1>2, <1>3, <1>4

\* The host an entry brings: its own, and none for a program.
LEMMA PlaceHost ==
  ASSUME NEW c \in Config, NEW i \in DOMAIN Catalog
  PROVE  LET d == Place(c, Catalog[i])
         IN /\ d \in Config
            /\ d.hosts = c.hosts /\ d.model = c.model /\ d.provider = c.provider
            /\ Catalog[i].at = Cloud => d = c
            /\ Catalog[i].at # Cloud => Catalog[i].at = <<d.host, d.port>>
            /\ Catalog[i].at \in {Cloud, <<c.host, c.port>>} => d.host = c.host /\ d.port = c.port
<1> DEFINE h == [c EXCEPT !["host"] = Catalog[i].at[1]]
           d == [h EXCEPT !["port"] = Catalog[i].at[2]]
<1>1. Catalog[i].at[1] \in Names /\ Catalog[i].at[2] \in Names
      /\ Catalog[i].at = <<Catalog[i].at[1], Catalog[i].at[2]>>
  BY EntryType, EntryPlace
<1>2. /\ h \in Config /\ h.host = Catalog[i].at[1] /\ h.port = c.port
      /\ h.hosts = c.hosts /\ h.model = c.model /\ h.provider = c.provider
  BY <1>1, WithType DEF Keys
<1>3. /\ d \in Config /\ d.host = Catalog[i].at[1] /\ d.port = Catalog[i].at[2]
      /\ d.hosts = c.hosts /\ d.model = c.model /\ d.provider = c.provider
  <2> HIDE DEF h
  <2> QED
    BY <1>1, <1>2, WithType DEF Keys
<1>4. Place(c, Catalog[i]) = IF Catalog[i].at = Cloud THEN c ELSE d
  BY DEF Place
<1> HIDE DEF d
<1>5. CASE Catalog[i].at = Cloud
  BY <1>4, <1>5
<1>6. CASE Catalog[i].at # Cloud
  <2>1. Place(c, Catalog[i]) = d /\ Catalog[i].at = <<d.host, d.port>>
    BY <1>1, <1>3, <1>4, <1>6
  <2>2. Catalog[i].at = <<c.host, c.port>> => d.host = c.host /\ d.port = c.port
    BY <1>1, <1>3
  <2> QED
    BY <1>3, <1>6, <2>1, <2>2
<1> QED
  BY <1>5, <1>6

\* What switch_prov makes of settings b: it keeps a model the provider has, and else takes
\* one of the provider's entries, with its host.
LEMMA SwitchedHow ==
  ASSUME TypeOK, NEW s \in Sessions, NEW b \in Config, NEW name \in Names,
         NEW d \in Switched(s, b, name)
  PROVE  /\ d \in Config /\ d.provider = name /\ d.hosts = b.hosts
         /\ \/ /\ d.model = b.model /\ d.host = b.host /\ d.port = b.port
               /\ \/ ProviderEntries(s, name) = {}
                  \/ \E j \in ProviderEntries(s, name) : Catalog[j].model = b.model
            \/ \E i \in ProviderEntries(s, name) :
                 /\ d.model = Catalog[i].model
                 /\ Catalog[i].at # Cloud => Catalog[i].at = <<d.host, d.port>>
                 /\ Catalog[i].at \in {Cloud, <<b.host, b.port>>} => d.host = b.host /\ d.port = b.port
<1> DEFINE e == [b EXCEPT !["provider"] = name]
           others == ProviderEntries(s, name)
<1>1. /\ e \in Config /\ e.provider = name /\ e.hosts = b.hosts /\ e.model = b.model
      /\ e.host = b.host /\ e.port = b.port
  BY WithType DEF Keys
<1>2. others \subseteq DOMAIN Catalog /\ Firsts(others) \subseteq others
  BY DEF TypeOK, ProviderEntries, Firsts
<1>3. CASE others = {} \/ \E j \in others : Catalog[j].model = b.model
  <2>1. d = e
    BY <1>1, <1>3 DEF Switched
  <2> QED
    BY <2>1, <1>1, <1>3
<1>4. CASE ~(others = {} \/ \E j \in others : Catalog[j].model = b.model)
  <2>1. PICK i \in Firsts(others) : d = Place([e EXCEPT !["model"] = Catalog[i].model], Catalog[i])
    BY <1>1, <1>4 DEF Switched
  <2> DEFINE g == [e EXCEPT !["model"] = Catalog[i].model]
  <2>2. i \in others /\ i \in DOMAIN Catalog /\ Catalog[i].model \in Names
    BY <2>1, <1>2, EntryType
  <2>3. /\ g \in Config /\ g.provider = name /\ g.hosts = b.hosts /\ g.model = Catalog[i].model
        /\ g.host = b.host /\ g.port = b.port
    <3> DEFINE v == Catalog[i].model
    <3>1. v \in Names
      BY <2>2
    <3> HIDE DEF v, e
    <3>2. /\ [e EXCEPT !["model"] = v] \in Config /\ [e EXCEPT !["model"] = v].model = v
          /\ \A k \in Keys : k # "model" => [e EXCEPT !["model"] = v][k] = e[k]
      BY <1>1, <3>1, WithType DEF Keys
    <3> QED
      BY <1>1, <3>2 DEF v, Keys
  <2>4. d = Place(g, Catalog[i])
    BY <2>1
  <2> HIDE DEF g, e
  <2>5. /\ d \in Config /\ d.hosts = g.hosts /\ d.model = g.model /\ d.provider = g.provider
        /\ Catalog[i].at = Cloud => d = g
        /\ Catalog[i].at # Cloud => Catalog[i].at = <<d.host, d.port>>
        /\ Catalog[i].at \in {Cloud, <<g.host, g.port>>} => d.host = g.host /\ d.port = g.port
    BY <2>2, <2>3, <2>4, PlaceHost
  <2>6. /\ d \in Config /\ d.provider = name /\ d.hosts = b.hosts /\ d.model = Catalog[i].model
        /\ Catalog[i].at # Cloud => Catalog[i].at = <<d.host, d.port>>
        /\ Catalog[i].at \in {Cloud, <<b.host, b.port>>} => d.host = b.host /\ d.port = b.port
    BY <2>3, <2>5
  <2> QED
    BY <2>2, <2>6
<1> QED
  BY <1>3, <1>4

\* A switch keeps the list of hosts.
LEMMA SwitchedHosts ==
  ASSUME TypeOK, NEW s \in Sessions, NEW b \in Config, NEW name \in Names,
         NEW d \in Switched(s, b, name)
  PROVE  d \in Config /\ d.provider = name /\ d.hosts = b.hosts
BY SwitchedHow

\* It keeps the host too if the entries are of that host.
LEMMA SwitchedHost ==
  ASSUME TypeOK, NEW s \in Sessions, NEW b \in Config, NEW name \in Names,
         NEW d \in Switched(s, b, name),
         \A i \in reg[s] : Catalog[i].at \in {Cloud, <<b.host, b.port>>}
  PROVE  d.host = b.host /\ d.port = b.port
<1>1. \A i \in ProviderEntries(s, name) : Catalog[i].at \in {Cloud, <<b.host, b.port>>}
  BY DEF ProviderEntries
<1> QED
  BY <1>1, SwitchedHow

\* The settings of a selected entry before switch_prov: they have its host.
LEMMA SelectedHow ==
  ASSUME TypeOK, NEW s \in Sessions, NEW i \in reg[s], NEW c \in Selected(s, Catalog[i])
  PROVE  \E b \in Config :
           /\ c \in Switched(s, b, Catalog[i].provider) /\ Catalog[i].provider \in Names
           /\ b.hosts = cfg[s].hosts /\ b.model = Catalog[i].model
           /\ Catalog[i].at # Cloud => Catalog[i].at = <<b.host, b.port>>
           /\ Catalog[i].at \in {Cloud, <<cfg[s].host, cfg[s].port>>} =>
                b.host = cfg[s].host /\ b.port = cfg[s].port
<1> DEFINE p == Place(cfg[s], Catalog[i])
           m == [p EXCEPT !["model"] = Catalog[i].model]
           b == [m EXCEPT !["provider"] = Catalog[i].provider]
<1>1. cfg[s] \in Config /\ i \in DOMAIN Catalog
  BY DEF TypeOK
<1>2. Catalog[i].model \in Names /\ Catalog[i].provider \in Names
  BY <1>1, EntryType
<1>3. /\ p \in Config /\ p.hosts = cfg[s].hosts
      /\ Catalog[i].at = Cloud => p = cfg[s]
      /\ Catalog[i].at # Cloud => Catalog[i].at = <<p.host, p.port>>
      /\ Catalog[i].at \in {Cloud, <<cfg[s].host, cfg[s].port>>} =>
           p.host = cfg[s].host /\ p.port = cfg[s].port
  BY <1>1, PlaceHost
<1> HIDE DEF p
<1>4. /\ m \in Config /\ m.hosts = p.hosts /\ m.host = p.host /\ m.port = p.port
      /\ m.model = Catalog[i].model
  BY <1>2, <1>3, WithType DEF Keys
<1>5. b = [p EXCEPT !["model"] = Catalog[i].model, !["provider"] = Catalog[i].provider]
  OBVIOUS
<1> HIDE DEF m
<1>6. /\ b \in Config /\ b.hosts = p.hosts /\ b.host = p.host /\ b.port = p.port
      /\ b.model = Catalog[i].model
  BY <1>2, <1>4, WithType DEF Keys
<1>7. c \in Switched(s, b, Catalog[i].provider)
  BY <1>5 DEF Selected, p
<1> HIDE DEF b
<1> QED
  BY <1>2, <1>3, <1>6, <1>7

\* A selected entry brings its provider.
LEMMA SelectedProvider ==
  ASSUME TypeOK, NEW s \in Sessions, NEW i \in reg[s], NEW c \in Selected(s, Catalog[i])
  PROVE  c \in Config /\ c.provider = Catalog[i].provider
<1>1. PICK b \in Config : c \in Switched(s, b, Catalog[i].provider) /\ Catalog[i].provider \in Names
  BY SelectedHow
<1> QED
  BY <1>1, SwitchedHosts

-----------------------------------------------------------------------------
(* The invariant. *)

\* What is on its way to the file is acceptable, too.
QueuedProvidersStart == \A s \in Sessions : Startable(queue[s]) /\ Startable(buf[s])

IInv == TypeOK /\ SavedProviderStarts /\ QueuedProvidersStart /\ KindAgrees

LEMMA InvInit == Init => IInv
<1> SUFFICES ASSUME Init
             PROVE  IInv
  OBVIOUS
<1>1. file \in Seq(Lines) /\ Startable(file)
  BY SettingsAssumption DEF Init, Startable
<1>2. told \in [Keys -> Names]
  BY <1>1, ValueType DEF Init
<1>3. NoObject \in Objects /\ NoObject.kind = "none"
  BY SettingsAssumption DEF NoObject, Objects, Cloud, Places
<1>4. TypeOK
  <2>1. Defaults \in Config /\ steps \in 0 .. MaxSteps /\ <<>> \in Seq(Lines)
    BY SettingsAssumption DEF Init
  <2>2. /\ pc \in [Sessions -> {"off", "start", "prompt"}] /\ cfg \in [Sessions -> Config]
        /\ reg \in [Sessions -> SUBSET DOMAIN Catalog] /\ torn \in BOOLEAN
    BY <2>1 DEF Init
  <2>3. object \in [Sessions -> Objects] /\ \A s \in Sessions : object[s] = NoObject
    BY <1>3 DEF Init
  <2>4. /\ queue \in [Sessions -> Seq(Lines)] /\ io \in [Sessions -> {"idle", "read", "cut"}]
        /\ buf \in [Sessions -> Seq(Lines)]
    BY <2>1 DEF Init
  <2>5. \A s \in Sessions : /\ object[s].kind # "none" <=> pc[s] = "prompt"
                            /\ queue[s] = <<>> => io[s] = "idle"
                            /\ pc[s] = "off" => queue[s] = <<>>
    BY <2>3, <1>3 DEF Init
  <2> QED
    BY <1>1, <1>2, <2>1, <2>2, <2>3, <2>4, <2>5 DEF TypeOK
<1>5. QueuedProvidersStart
  BY DEF Init, QueuedProvidersStart, Startable
<1>6. KindAgrees
  BY DEF Init, KindAgrees
<1> QED
  BY <1>1, <1>4, <1>5, <1>6 DEF IInv, SavedProviderStarts, Startable

\* What holds of one session, and the steps keep of the others.
Sound(s) ==
  /\ pc[s] \in {"off", "start", "prompt"} /\ cfg[s] \in Config
  /\ reg[s] \in SUBSET DOMAIN Catalog /\ object[s] \in Objects
  /\ queue[s] \in Seq(Lines) /\ io[s] \in {"idle", "read", "cut"} /\ buf[s] \in Seq(Lines)
  /\ object[s].kind # "none" <=> pc[s] = "prompt"
  /\ queue[s] = <<>> => io[s] = "idle"
  /\ pc[s] = "off" => queue[s] = <<>>
  /\ Startable(queue[s]) /\ Startable(buf[s])
  /\ pc[s] = "prompt" =>
       IF KindOf(cfg[s].provider) = "none"
       THEN \E i \in reg[s] : Catalog[i].provider = cfg[s].provider
       ELSE object[s].kind \in KindsOf(cfg[s].provider)

Functions ==
  /\ pc = [s \in Sessions |-> pc[s]] /\ cfg = [s \in Sessions |-> cfg[s]]
  /\ reg = [s \in Sessions |-> reg[s]] /\ object = [s \in Sessions |-> object[s]]
  /\ queue = [s \in Sessions |-> queue[s]] /\ io = [s \in Sessions |-> io[s]]
  /\ buf = [s \in Sessions |-> buf[s]]

Shared ==
  /\ file \in Seq(Lines) /\ Startable(file)
  /\ steps \in 0 .. MaxSteps /\ told \in [Keys -> Names] /\ torn \in BOOLEAN

AllSound == \A s \in Sessions : Sound(s)

\* The invariant, a session at a time.
LEMMA InvParts == IInv <=> Functions /\ Shared /\ AllSound
<1> USE DEF AllSound
<1>1. ASSUME IInv
      PROVE  Functions /\ Shared /\ AllSound
  <2>1. Functions
    BY <1>1 DEF IInv, TypeOK, Functions
  <2>2. Shared
    BY <1>1 DEF IInv, TypeOK, SavedProviderStarts, Startable, Shared
  <2>3. \A s \in Sessions : Sound(s)
    BY <1>1 DEF IInv, TypeOK, QueuedProvidersStart, KindAgrees, Sound
  <2> QED
    BY <2>1, <2>2, <2>3
<1>2. ASSUME Functions, Shared, AllSound
      PROVE  IInv
  <2>1. TypeOK
    <3>1. pc \in [Sessions -> {"off", "start", "prompt"}] /\ cfg \in [Sessions -> Config]
      BY <1>2 DEF Functions, Sound
    <3>2. reg \in [Sessions -> SUBSET DOMAIN Catalog] /\ object \in [Sessions -> Objects]
      BY <1>2 DEF Functions, Sound
    <3>3. /\ queue \in [Sessions -> Seq(Lines)] /\ io \in [Sessions -> {"idle", "read", "cut"}]
          /\ buf \in [Sessions -> Seq(Lines)]
      BY <1>2 DEF Functions, Sound
    <3>4. \A s \in Sessions : /\ object[s].kind # "none" <=> pc[s] = "prompt"
                              /\ queue[s] = <<>> => io[s] = "idle"
                              /\ pc[s] = "off" => queue[s] = <<>>
      BY <1>2 DEF Sound
    <3> QED
      BY <1>2, <3>1, <3>2, <3>3, <3>4 DEF Shared, TypeOK
  <2>2. SavedProviderStarts /\ QueuedProvidersStart
    BY <1>2 DEF Shared, Startable, SavedProviderStarts, QueuedProvidersStart, Sound
  <2>3. KindAgrees
    BY <1>2 DEF Sound, KindAgrees
  <2> QED
    BY <2>1, <2>2, <2>3 DEF IInv
<1> QED
  BY <1>1, <1>2

\* A step of one session leaves the others alone.
LEMMA OneSession ==
  ASSUME IInv, NEW s \in Sessions, Sound(s)', Shared', Functions',
         \A t \in Sessions \ {s} :
           /\ pc'[t] = pc[t] /\ cfg'[t] = cfg[t] /\ reg'[t] = reg[t] /\ object'[t] = object[t]
           /\ queue'[t] = queue[t] /\ io'[t] = io[t] /\ buf'[t] = buf[t]
  PROVE  IInv'
<1>1. ASSUME NEW t \in Sessions, t # s
      PROVE  Sound(t)'
  <2>1. Sound(t)
    BY InvParts DEF AllSound
  <2>2. /\ pc'[t] = pc[t] /\ cfg'[t] = cfg[t] /\ reg'[t] = reg[t] /\ object'[t] = object[t]
        /\ queue'[t] = queue[t] /\ io'[t] = io[t] /\ buf'[t] = buf[t]
    BY <1>1
  <2> QED
    BY <2>1, <2>2 DEF Sound
<1>2. AllSound'
  BY <1>1 DEF AllSound
<1> QED
  BY <1>2, InvParts, PTL

LEMMA CountType ==
  ASSUME IInv, Count
  PROVE  steps' \in 0 .. MaxSteps
BY SettingsAssumption DEF IInv, TypeOK, Count

\* The end of a session that has nothing to save.
LEMMA EndKeeps ==
  ASSUME IInv, NEW s \in Sessions, queue[s] = <<>>, End(s), steps' \in 0 .. MaxSteps,
         UNCHANGED <<file, save, told, torn>>
  PROVE  IInv'
<1>1. Sound(s) /\ Functions /\ Shared
  BY InvParts DEF AllSound
<1>2. /\ pc' = [pc EXCEPT ![s] = "off"] /\ cfg' = [cfg EXCEPT ![s] = Defaults]
      /\ reg' = [reg EXCEPT ![s] = {}] /\ object' = [object EXCEPT ![s] = NoObject]
      /\ queue' = queue /\ io' = io /\ buf' = buf
      /\ file' = file /\ told' = told /\ torn' = torn
  BY DEF End, save
<1>3. Defaults \in Config /\ NoObject \in Objects /\ NoObject.kind = "none"
  BY SettingsAssumption DEF NoObject, Objects, Cloud, Places
<1>4. /\ pc'[s] = "off" /\ cfg'[s] = Defaults /\ reg'[s] = {} /\ object'[s] = NoObject
  BY <1>1, <1>2 DEF Functions
<1>5. Sound(s)'
  BY <1>1, <1>2, <1>3, <1>4 DEF Sound
<1>6. Functions'
  BY <1>1, <1>2 DEF Functions
<1>7. Shared'
  BY <1>1, <1>2 DEF Shared
<1> QED
  BY <1>2, <1>5, <1>6, <1>7, OneSession

\* What Save puts in the queue.
LEMMA SaveKeeps ==
  ASSUME IInv, NEW s \in Sessions, queue[s] = <<>>,
         NEW c \in Config, NEW keys \in Seq(Keys), Acceptable(c, keys), Save(s, c, keys)
  PROVE  /\ queue'[s] \in Seq(Lines) /\ Startable(queue'[s]) /\ io[s] = "idle"
         /\ keys = <<>> => queue'[s] = <<>>
         /\ queue' = [t \in Sessions |-> queue'[t]]
         /\ \A t \in Sessions \ {s} : queue'[t] = queue[t]
         /\ file' = file /\ io' = io /\ buf' = buf /\ torn' \in BOOLEAN
<1> DEFINE q == [i \in DOMAIN keys |-> Line(keys[i], c[keys[i]])]
<1>1. queue' = [queue EXCEPT ![s] = q]
      /\ file' = file /\ io' = io /\ buf' = buf
  BY DEF Save
<1>2. q \in Seq(Lines) /\ Startable(q) /\ (q = <<>> <=> keys = <<>>)
  BY QueueType
<1> HIDE DEF q
<1>3. torn' \in BOOLEAN
  BY DEF Save, IInv, TypeOK
<1>4. queue \in [Sessions -> Seq(Lines)] /\ io[s] = "idle"
  BY DEF IInv, TypeOK
<1> QED
  BY <1>1, <1>2, <1>3, <1>4

LEMMA TellType ==
  ASSUME IInv, NEW c \in Config, NEW K, Tell(c, K)
  PROVE  told' \in [Keys -> Names]
BY DEF Tell, IInv, TypeOK, Config

\* A switch keeps the invariant, whether create_provider knows the name or not.
LEMMA BecomeKeeps ==
  ASSUME IInv, NEW s \in Sessions, Prompt(s), Count,
         NEW c \in Config, NEW keys \in Seq(Keys), NEW K, Become(s, c, keys, K)
  PROVE  IInv'
<1>1. queue[s] = <<>> /\ pc[s] = "prompt" /\ steps' \in 0 .. MaxSteps
  BY CountType DEF Prompt
<1>2. CASE KindOf(c.provider) = "none"
  BY <1>1, <1>2, EndKeeps DEF Become
<1>3. CASE KindOf(c.provider) # "none"
  <2>1. /\ cfg' = [cfg EXCEPT ![s] = c] /\ Save(s, c, keys) /\ Tell(c, K)
        /\ pc' = pc /\ reg' = reg
    BY <1>3 DEF Become
  <2>0. PICK up \in SUBSET Servers : \E o \in Built(c, up) : object' = [object EXCEPT ![s] = o]
    BY <1>3 DEF Become
  <2>2. PICK o \in Built(c, up) : object' = [object EXCEPT ![s] = o]
    BY <2>0
  <2>3. o \in Objects /\ o.kind # "none" /\ o.kind \in KindsOf(c.provider)
    BY <1>3, BuiltType
  <2>4. Sound(s) /\ Functions /\ Shared
    BY InvParts DEF AllSound
  <2>5. /\ queue'[s] \in Seq(Lines) /\ Startable(queue'[s]) /\ io[s] = "idle"
        /\ queue' = [t \in Sessions |-> queue'[t]]
        /\ \A t \in Sessions \ {s} : queue'[t] = queue[t]
        /\ file' = file /\ io' = io /\ buf' = buf /\ torn' \in BOOLEAN
    BY <1>1, <1>3, <2>1, SaveKeeps DEF Acceptable
  <2>6. cfg'[s] = c /\ object'[s] = o
    BY <2>1, <2>2, <2>4 DEF Functions
  <2>7. Sound(s)'
    BY <1>1, <1>3, <2>1, <2>3, <2>4, <2>5, <2>6 DEF Sound
  <2>8. Functions'
    BY <2>1, <2>2, <2>4, <2>5 DEF Functions
  <2>9. Shared'
    BY <1>1, <2>1, <2>4, <2>5, TellType DEF Shared
  <2> QED
    BY <2>1, <2>2, <2>5, <2>7, <2>8, <2>9, OneSession
<1> QED
  BY <1>2, <1>3

\* So does a choice whose exception is swallowed: the registry lists its provider.
LEMMA SwallowedKeeps ==
  ASSUME IInv, NEW s \in Sessions, Prompt(s), Count, NEW c \in Config, Swallowed(s, c),
         \E i \in reg[s] : Catalog[i].provider = c.provider
  PROVE  IInv'
<1>1. queue[s] = <<>> /\ pc[s] = "prompt" /\ steps' \in 0 .. MaxSteps
  BY CountType DEF Prompt
<1>2. Sound(s) /\ Functions /\ Shared
  BY InvParts DEF AllSound
<1>3. /\ KindOf(c.provider) = "none" /\ cfg' = [cfg EXCEPT ![s] = c]
      /\ pc' = pc /\ reg' = reg /\ object' = object
      /\ queue' = queue /\ io' = io /\ buf' = buf
      /\ file' = file /\ told' = told /\ torn' = torn
  BY DEF Swallowed, save
<1>4. cfg'[s] = c
  BY <1>2, <1>3 DEF Functions
<1>5. Sound(s)'
  BY <1>1, <1>2, <1>3, <1>4 DEF Sound
<1>6. Functions'
  BY <1>2, <1>3 DEF Functions
<1>7. Shared'
  BY <1>1, <1>2, <1>3 DEF Shared
<1> QED
  BY <1>2, <1>3, <1>5, <1>6, <1>7, OneSession

\* So does a step that only changes and saves settings, the provider apart.
LEMMA SettingKeeps ==
  ASSUME IInv, NEW s \in Sessions, Prompt(s), Count,
         NEW c \in Config, c.provider = cfg[s].provider, NEW keys \in Seq(Keys), NEW K,
         \A i \in DOMAIN keys : keys[i] # "provider",
         cfg' = [cfg EXCEPT ![s] = c], Save(s, c, keys), Tell(c, K),
         UNCHANGED <<pc, reg, object>>
  PROVE  IInv'
<1>1. queue[s] = <<>> /\ pc[s] = "prompt" /\ steps' \in 0 .. MaxSteps
  BY CountType DEF Prompt
<1>2. Sound(s) /\ Functions /\ Shared
  BY InvParts DEF AllSound
<1>3. Acceptable(c, keys)
  BY DEF Acceptable
<1>4. /\ queue'[s] \in Seq(Lines) /\ Startable(queue'[s]) /\ io[s] = "idle"
      /\ queue' = [t \in Sessions |-> queue'[t]]
      /\ \A t \in Sessions \ {s} : queue'[t] = queue[t]
      /\ file' = file /\ io' = io /\ buf' = buf /\ torn' \in BOOLEAN
  BY <1>1, <1>3, SaveKeeps
<1>5. cfg'[s] = c /\ pc' = pc /\ reg' = reg /\ object' = object
  BY <1>2 DEF Functions
<1>6. Sound(s)'
  BY <1>1, <1>2, <1>4, <1>5 DEF Sound
<1>7. Functions'
  BY <1>2, <1>4 DEF Functions
<1>8. Shared'
  BY <1>1, <1>2, <1>4, TellType DEF Shared
<1> QED
  BY <1>4, <1>6, <1>7, <1>8, OneSession

-----------------------------------------------------------------------------
(* One lemma per action. *)

LEMMA LoadConfigKeeps ==
  ASSUME IInv, NEW s \in Sessions, LoadConfig(s)
  PROVE  IInv'
<1>1. Sound(s) /\ Functions /\ Shared
  BY InvParts DEF AllSound
<1>2. queue[s] = <<>> /\ pc[s] = "off" /\ steps' \in 0 .. MaxSteps
      /\ pc' = [pc EXCEPT ![s] = "start"] /\ reg' = reg /\ object' = object
  BY <1>1, CountType DEF LoadConfig, Sound
<1>3. ASSUME NEW c \in Config, NEW keys \in Seq(Keys), Acceptable(c, keys),
             cfg' = [cfg EXCEPT ![s] = c], Save(s, c, keys), told' \in [Keys -> Names]
      PROVE  IInv'
  <2>1. /\ queue'[s] \in Seq(Lines) /\ Startable(queue'[s]) /\ io[s] = "idle"
        /\ queue' = [t \in Sessions |-> queue'[t]]
        /\ \A t \in Sessions \ {s} : queue'[t] = queue[t]
        /\ file' = file /\ io' = io /\ buf' = buf /\ torn' \in BOOLEAN
    BY <1>2, <1>3, SaveKeeps
  <2>2. cfg'[s] = c /\ pc'[s] = "start"
    BY <1>1, <1>2, <1>3 DEF Functions
  <2>3. Sound(s)'
    BY <1>1, <1>2, <2>1, <2>2 DEF Sound
  <2>4. Functions'
    BY <1>1, <1>2, <1>3, <2>1 DEF Functions
  <2>5. Shared'
    BY <1>1, <1>2, <1>3, <2>1 DEF Shared
  <2> QED
    BY <1>2, <1>3, <2>1, <2>3, <2>4, <2>5, OneSession
<1>4. PICK env \in Environments : \E args \in Arguments, up \in SUBSET Servers :
        LET c == Merged(env, args)
            d == [c EXCEPT !["provider"] = Probe(c, up)]
        IN IF Explicit(env, args)
           THEN /\ cfg' = [cfg EXCEPT ![s] = c]
                /\ Save(s, c, <<>>) /\ UNCHANGED told
           ELSE /\ cfg' = [cfg EXCEPT ![s] = d]
                /\ Save(s, d, <<"provider">>) /\ Tell(d, {"provider"})
  BY DEF LoadConfig
<1>5. PICK args \in Arguments, up \in SUBSET Servers :
        LET c == Merged(env, args)
            d == [c EXCEPT !["provider"] = Probe(c, up)]
        IN IF Explicit(env, args)
           THEN /\ cfg' = [cfg EXCEPT ![s] = c]
                /\ Save(s, c, <<>>) /\ UNCHANGED told
           ELSE /\ cfg' = [cfg EXCEPT ![s] = d]
                /\ Save(s, d, <<"provider">>) /\ Tell(d, {"provider"})
  BY <1>4
<1> DEFINE c == Merged(env, args)
           d == [c EXCEPT !["provider"] = Probe(c, up)]
<1>6. c \in Config
  BY MergedType DEF IInv
<1>7. d \in Config /\ KindOf(d.provider) # "none"
  <2>1. Probe(c, up) \in {"ollama", "tgpt"}
    BY DEF Probe
  <2>2. Probe(c, up) \in Names /\ KindOf(Probe(c, up)) # "none"
    BY <2>1, SettingsAssumption DEF KindOf
  <2> HIDE DEF c
  <2> QED
    BY <2>2, <1>6, WithType DEF Keys
<1>8. CASE Explicit(env, args)
  <2>1. cfg' = [cfg EXCEPT ![s] = c] /\ Save(s, c, <<>>) /\ told' = told
    BY <1>5, <1>8
  <2>2. <<>> \in Seq(Keys) /\ told' \in [Keys -> Names] /\ Acceptable(c, <<>>)
    BY <2>1, <1>1 DEF Shared, Acceptable
  <2> HIDE DEF c
  <2> QED
    BY <2>1, <2>2, <1>3, <1>6
<1>9. CASE ~Explicit(env, args)
  <2>1. cfg' = [cfg EXCEPT ![s] = d] /\ Save(s, d, <<"provider">>) /\ Tell(d, {"provider"})
    BY <1>5, <1>9
  <2>2. <<"provider">> \in Seq(Keys) /\ told' \in [Keys -> Names] /\ Acceptable(d, <<"provider">>)
    BY <2>1, <1>7, TellType DEF Keys, Acceptable
  <2> HIDE DEF d
  <2> QED
    BY <2>1, <2>2, <1>3, <1>7
<1> QED
  BY <1>8, <1>9

LEMMA StartReplKeeps ==
  ASSUME IInv, NEW s \in Sessions, StartRepl(s)
  PROVE  IInv'
<1>1. Sound(s) /\ Functions /\ Shared
  BY InvParts DEF AllSound
<1>2. /\ pc[s] = "start" /\ queue[s] = <<>> /\ KindOf(cfg[s].provider) # "none"
      /\ pc' = [pc EXCEPT ![s] = "prompt"]
      /\ UNCHANGED <<file, save, steps, told, torn>>
  BY DEF StartRepl
<1>3. PICK up \in SUBSET Servers :
        LET r == IF cfg[s].provider = "mock" THEN {} ELSE ScanAll(cfg[s], up)
        IN /\ reg' = [reg EXCEPT ![s] = r]
           /\ \E c \in AutoPicked(cfg[s], r) : \E o \in Built(c, up) : \E d \in FellBack(c, o, up) :
                cfg' = [cfg EXCEPT ![s] = d] /\ object' = [object EXCEPT ![s] = o]
  BY DEF StartRepl
<1> DEFINE r == IF cfg[s].provider = "mock" THEN {} ELSE ScanAll(cfg[s], up)
<1>4. r \in SUBSET DOMAIN Catalog
  BY DEF ScanAll
<1>5. /\ reg' = [reg EXCEPT ![s] = r]
      /\ \E c \in AutoPicked(cfg[s], r) : \E o \in Built(c, up) : \E d \in FellBack(c, o, up) :
           cfg' = [cfg EXCEPT ![s] = d] /\ object' = [object EXCEPT ![s] = o]
  BY <1>3
<1> HIDE DEF r
<1>6. PICK c \in AutoPicked(cfg[s], r) : \E o \in Built(c, up) : \E d \in FellBack(c, o, up) :
        cfg' = [cfg EXCEPT ![s] = d] /\ object' = [object EXCEPT ![s] = o]
  BY <1>5
<1>7. PICK o \in Built(c, up) : \E d \in FellBack(c, o, up) :
        cfg' = [cfg EXCEPT ![s] = d] /\ object' = [object EXCEPT ![s] = o]
  BY <1>6
<1>8. PICK d \in FellBack(c, o, up) :
        cfg' = [cfg EXCEPT ![s] = d] /\ object' = [object EXCEPT ![s] = o]
  BY <1>7
<1>9. c \in Config /\ c.provider = cfg[s].provider
  BY <1>1, <1>4, PickedType DEF Sound
<1>10. o \in Objects /\ o.kind # "none" /\ o.kind \in KindsOf(c.provider)
  BY <1>2, <1>9, BuiltType
<1>11. d \in Config /\ d.provider = c.provider
  BY <1>9, FellBackType
<1>12. /\ pc'[s] = "prompt" /\ cfg'[s] = d /\ object'[s] = o /\ reg'[s] = r
       /\ queue' = queue /\ io' = io /\ buf' = buf
  BY <1>1, <1>2, <1>5, <1>8 DEF Functions, save
<1>13. Sound(s)'
  BY <1>1, <1>2, <1>4, <1>9, <1>10, <1>11, <1>12 DEF Sound
<1>14. Functions'
  BY <1>1, <1>2, <1>5, <1>8, <1>12 DEF Functions
<1>15. Shared'
  BY <1>1, <1>2 DEF Shared
<1> QED
  BY <1>2, <1>5, <1>8, <1>12, <1>13, <1>14, <1>15, OneSession

LEMMA EndsKeep ==
  ASSUME IInv, NEW s \in Sessions, StartFails(s) \/ Quit(s)
  PROVE  IInv'
<1>1. queue[s] = <<>> /\ End(s) /\ UNCHANGED <<file, save, steps, told, torn>>
  BY DEF StartFails, Quit, Prompt
<1>2. steps' \in 0 .. MaxSteps
  BY <1>1 DEF IInv, TypeOK
<1> QED
  BY <1>1, <1>2, EndKeeps

\* The commands that switch the provider.
LEMMA SwitchesKeep ==
  ASSUME IInv, NEW s \in Sessions,
         ProviderCommand(s) \/ Host(s) \/ HostMenu(s) \/ Use(s) \/ ModelByName(s)
  PROVE  IInv'
<1>1. Prompt(s) /\ Count
  BY DEF ProviderCommand, Host, HostMenu, Use, ModelByName
<1>2. cfg[s] \in Config /\ reg[s] \subseteq DOMAIN Catalog
  BY DEF IInv, TypeOK
<1>3. ASSUME NEW i \in DOMAIN Catalog, NEW c \in Selected(s, Catalog[i]), NEW keys \in Seq(Keys),
             NEW K, Become(s, c, keys, K)
      PROVE  IInv'
  BY <1>1, <1>3, SelectedType, BecomeKeeps DEF IInv
<1>4. CASE ProviderCommand(s)
  <2>1. PICK name \in Typed \cup {Catalog[i].provider : i \in reg[s]} :
          \E c \in Switched(s, cfg[s], name) : Become(s, c, <<"provider">>, {"provider"})
    BY <1>4 DEF ProviderCommand
  <2>2. name \in Names
    BY <1>2, EntryType, SettingsAssumption
  <2>3. PICK c \in Switched(s, cfg[s], name) : Become(s, c, <<"provider">>, {"provider"})
    BY <2>1
  <2>4. c \in Config
    BY <1>2, <2>2, SwitchedType DEF IInv
  <2>5. <<"provider">> \in Seq(Keys)
    BY DEF Keys
  <2> QED
    BY <1>1, <2>3, <2>4, <2>5, BecomeKeeps
<1>5. CASE Host(s)
  <2>1. PICK i \in Heads(s) : \E c \in Selected(s, Catalog[i]) : Become(s, c, <<>>, {})
    BY <1>5 DEF Host
  <2>2. i \in DOMAIN Catalog /\ <<>> \in Seq(Keys)
    BY <1>2 DEF Heads
  <2> QED
    BY <1>3, <2>1, <2>2
<1>6. CASE HostMenu(s)
  <2>1. PICK i \in Heads(s) : \E c \in Selected(s, Catalog[i]) :
          Become(s, c, <<"provider", "model", "host", "port">>, {"provider", "model", "host", "port"})
    BY <1>6 DEF HostMenu
  <2>2. i \in DOMAIN Catalog
    BY <1>2 DEF Heads
  <2>3. <<"provider", "model", "host", "port">> \in Seq(Keys)
    BY DEF Keys
  <2> QED
    BY <1>3, <2>1, <2>2, <2>3
<1>7. CASE Use(s)
  <2>1. PICK i \in reg[s] : \E c \in Selected(s, Catalog[i]) : Become(s, c, <<>>, {})
    BY <1>7 DEF Use
  <2>2. i \in DOMAIN Catalog /\ <<>> \in Seq(Keys)
    BY <1>2
  <2> QED
    BY <1>3, <2>1, <2>2
<1>8. CASE ModelByName(s)
  <2>1. PICK i \in Shown(s) : \E c \in Selected(s, Catalog[i]) : Become(s, c, <<>>, {})
    BY <1>8 DEF ModelByName
  <2>2. i \in DOMAIN Catalog /\ <<>> \in Seq(Keys)
    BY <1>2 DEF Shown, ProviderEntries
  <2> QED
    BY <1>3, <2>1, <2>2
<1> QED
  BY <1>4, <1>5, <1>6, <1>7, <1>8

\* /model without a registry: a model, and the place it is at.
\* A number of /model's list: it switches, or its exception is swallowed.
LEMMA NumberHow ==
  ASSUME IInv, NEW s \in Sessions, ModelByNumber(s)
  PROVE  /\ Prompt(s) /\ Count
         /\ \E i \in reg[s] : \E c \in Selected(s, Catalog[i]) :
              Swallowed(s, c) \/ Become(s, c, <<>>, {})
<1>1. Shown(s) \subseteq reg[s]
  BY DEF Shown, ProviderEntries
<1> QED
  BY <1>1 DEF ModelByNumber

LEMMA NumberKeeps ==
  ASSUME IInv, NEW s \in Sessions, ModelByNumber(s)
  PROVE  IInv'
<1>1. Prompt(s) /\ Count
  BY NumberHow
<1>2. PICK i \in reg[s] : \E c \in Selected(s, Catalog[i]) : Swallowed(s, c) \/ Become(s, c, <<>>, {})
  BY NumberHow
<1>3. PICK c \in Selected(s, Catalog[i]) : Swallowed(s, c) \/ Become(s, c, <<>>, {})
  BY <1>2
<1>4. c \in Config /\ c.provider = Catalog[i].provider
  BY SelectedProvider DEF IInv
<1>5. CASE Swallowed(s, c)
  BY <1>1, <1>4, <1>5, SwallowedKeeps
<1>6. CASE Become(s, c, <<>>, {})
  <2>1. <<>> \in Seq(Keys)
    OBVIOUS
  <2> QED
    BY <1>1, <1>4, <1>6, <2>1, BecomeKeeps
<1> QED
  BY <1>3, <1>5, <1>6

LEMMA MenuChoice ==
  ASSUME IInv, NEW s \in Sessions, NEW up, NEW e \in Listed(s, up)
  PROVE  e.model \in Names /\ e.at[1] \in Names /\ e.at[2] \in Names
<1>1. cfg[s] \in Config
  BY DEF IInv, TypeOK
<1>2. CASE HostsOf(cfg[s]) = <<>>
  <2>1. PICK m \in ListModels(object[s], up) : e = [model |-> m, at |-> <<cfg[s].host, cfg[s].port>>]
    BY <1>2 DEF Listed
  <2>2. m \in Names
    BY <2>1, ListedType
  <2> QED
    BY <2>1, <2>2, <1>1 DEF Config, Keys
<1>3. CASE HostsOf(cfg[s]) # <<>>
  <2>1. e.model \in ModelsAt(up) /\ e.at \in {Found[i] : i \in DOMAIN Found}
    BY <1>3 DEF Listed
  <2>2. e.at \in Places
    BY <2>1, FoundType
  <2>3. e.model \in Names
    BY <2>1, EntryType DEF ModelsAt
  <2> QED
    BY <2>2, <2>3 DEF Places
<1> QED
  BY <1>2, <1>3

LEMMA ModelMenuKeeps ==
  ASSUME IInv, NEW s \in Sessions, ModelMenu(s)
  PROVE  IInv'
<1>1. Prompt(s) /\ Count /\ UNCHANGED <<pc, reg, object>>
  BY DEF ModelMenu
<1>2. PICK up \in SUBSET Servers : \E e \in Listed(s, up) :
        LET c == [cfg[s] EXCEPT !["model"] = e.model, !["host"] = e.at[1], !["port"] = e.at[2]]
        IN /\ cfg' = [cfg EXCEPT ![s] = c]
           /\ Save(s, c, <<"model", "host", "port">>) /\ Tell(c, {"model", "host", "port"})
  BY DEF ModelMenu
<1>3. PICK e \in Listed(s, up) :
        LET c == [cfg[s] EXCEPT !["model"] = e.model, !["host"] = e.at[1], !["port"] = e.at[2]]
        IN /\ cfg' = [cfg EXCEPT ![s] = c]
           /\ Save(s, c, <<"model", "host", "port">>) /\ Tell(c, {"model", "host", "port"})
  BY <1>2
<1>4. cfg[s] \in Config
  BY DEF IInv, TypeOK
<1>5. e.model \in Names /\ e.at[1] \in Names /\ e.at[2] \in Names
  BY MenuChoice
<1> DEFINE c == [cfg[s] EXCEPT !["model"] = e.model, !["host"] = e.at[1], !["port"] = e.at[2]]
<1>6. c \in Config /\ c.provider = cfg[s].provider
  BY <1>4, <1>5 DEF Config, Keys
<1>7. /\ <<"model", "host", "port">> \in Seq(Keys)
      /\ \A i \in DOMAIN <<"model", "host", "port">> : <<"model", "host", "port">>[i] # "provider"
  BY DEF Keys
<1>8. /\ cfg' = [cfg EXCEPT ![s] = c]
      /\ Save(s, c, <<"model", "host", "port">>) /\ Tell(c, {"model", "host", "port"})
  BY <1>3
<1> HIDE DEF c
<1> QED
  BY <1>1, <1>6, <1>7, <1>8, SettingKeeps

LEMMA ScanKeeps ==
  ASSUME IInv, NEW s \in Sessions, Scan(s)
  PROVE  IInv'
<1> DEFINE c == [cfg[s] EXCEPT !["hosts"] = "found"]
<1>1. /\ Prompt(s) /\ Count /\ UNCHANGED <<pc, reg, object>>
      /\ cfg' = [cfg EXCEPT ![s] = c] /\ Save(s, c, <<"hosts">>) /\ Tell(c, {"hosts"})
  BY DEF Scan
<1>2. c \in Config /\ c.provider = cfg[s].provider
  <2>1. cfg[s] \in Config /\ "found" \in Names
    BY SettingsAssumption DEF IInv, TypeOK
  <2> QED
    BY <2>1, WithType DEF Keys
<1>3. /\ <<"hosts">> \in Seq(Keys)
      /\ \A i \in DOMAIN <<"hosts">> : <<"hosts">>[i] # "provider"
  BY DEF Keys
<1> HIDE DEF c
<1> QED
  BY <1>1, <1>2, <1>3, SettingKeeps

\* A save, a step at a time: what it puts in the file is acceptable.
LEMMA SavingKeeps ==
  ASSUME IInv, NEW s \in Sessions,
         ReadFile(s) \/ CutFile(s) \/ WriteFile(s) \/ OpenFails(s)
  PROVE  IInv'
<1>1. Sound(s) /\ Functions /\ Shared
  BY InvParts DEF AllSound
<1>2. /\ pc' = pc /\ cfg' = cfg /\ reg' = reg /\ object' = object /\ steps' = steps /\ told' = told
  BY DEF ReadFile, CutFile, WriteFile, OpenFails, ses
<1>3. ASSUME NEW q, queue' = [queue EXCEPT ![s] = q], q \in Seq(Lines), Startable(q),
             NEW b, buf' = [buf EXCEPT ![s] = b], b \in Seq(Lines), Startable(b),
             NEW i \in {"idle", "read", "cut"}, io' = [io EXCEPT ![s] = i],
             q = <<>> => i = "idle", pc[s] = "off" => q = <<>>,
             file' \in Seq(Lines), Startable(file'), torn' \in BOOLEAN
      PROVE  IInv'
  <2>1. queue'[s] = q /\ buf'[s] = b /\ io'[s] = i
    BY <1>1, <1>3 DEF Functions
  <2>2. Sound(s)'
    BY <1>1, <1>2, <1>3, <2>1 DEF Sound
  <2>3. Functions'
    BY <1>1, <1>2, <1>3 DEF Functions
  <2>4. Shared'
    BY <1>1, <1>2, <1>3 DEF Shared
  <2> QED
    BY <1>2, <1>3, <2>2, <2>3, <2>4, OneSession
<1>4. queue = [queue EXCEPT ![s] = queue[s]] /\ buf = [buf EXCEPT ![s] = buf[s]]
  BY <1>1 DEF Functions
<1>5. <<>> \in Seq(Lines) /\ Startable(<<>>)
  BY DEF Startable
<1>6. CASE ReadFile(s)
  <2>1. /\ queue[s] # <<>> /\ buf' = [buf EXCEPT ![s] = Saved(file, Head(queue[s]))]
        /\ io' = [io EXCEPT ![s] = "read"] /\ file' = file /\ queue' = queue /\ torn' = torn
    BY <1>6 DEF ReadFile
  <2>2. queue[s] \in Seq(Lines) /\ Startable(queue[s])
    BY <1>1 DEF Sound
  <2>3. Head(queue[s]) = queue[s][1] /\ 1 \in DOMAIN queue[s] /\ Head(queue[s]) \in Lines
    BY <2>1, <2>2
  <2>4. Head(queue[s]).key = "provider" => KindOf(Head(queue[s]).val) # "none"
    BY <2>2, <2>3 DEF Startable
  <2>5. Saved(file, Head(queue[s])) \in Seq(Lines) /\ Startable(Saved(file, Head(queue[s])))
    BY <1>1, <2>3, <2>4, SavedType DEF Shared
  <2> QED
    BY <1>1, <1>3, <1>4, <2>1, <2>2, <2>5 DEF Shared, Sound
<1>7. CASE CutFile(s)
  <2>1. /\ io[s] = "read" /\ file' = <<>> /\ io' = [io EXCEPT ![s] = "cut"]
        /\ queue' = queue /\ buf' = buf /\ torn' = torn
    BY <1>7 DEF CutFile
  <2>2. queue[s] # <<>>
    BY <1>1, <2>1 DEF Sound
  <2> QED
    BY <1>1, <1>3, <1>4, <1>5, <2>1, <2>2 DEF Shared, Sound
<1>8. queue[s] # <<>> => Tail(queue[s]) \in Seq(Lines) /\ Startable(Tail(queue[s]))
  <2> SUFFICES ASSUME queue[s] # <<>>
               PROVE  Tail(queue[s]) \in Seq(Lines) /\ Startable(Tail(queue[s]))
    OBVIOUS
  <2>1. queue[s] \in Seq(Lines) /\ Startable(queue[s])
    BY <1>1 DEF Sound
  <2>2. /\ Tail(queue[s]) \in Seq(Lines) /\ Len(Tail(queue[s])) = Len(queue[s]) - 1
        /\ \A i \in 1 .. Len(queue[s]) - 1 : Tail(queue[s])[i] = queue[s][i + 1]
    BY <2>1
  <2>3. \A i \in DOMAIN Tail(queue[s]) :
          Tail(queue[s])[i] = queue[s][i + 1] /\ i + 1 \in DOMAIN queue[s]
    BY <2>1, <2>2
  <2> QED
    BY <2>1, <2>2, <2>3 DEF Startable
<1>9. CASE WriteFile(s)
  <2>1. /\ io[s] = "cut" /\ file' = Over(file, buf[s]) /\ torn' = torn
        /\ queue' = [queue EXCEPT ![s] = Tail(queue[s])]
        /\ buf' = [buf EXCEPT ![s] = <<>>] /\ io' = [io EXCEPT ![s] = "idle"]
    BY <1>9 DEF WriteFile, SaveEnds
  <2>2. queue[s] # <<>> /\ pc[s] # "off"
    BY <1>1, <2>1 DEF Sound
  <2>3. file' \in Seq(Lines) /\ Startable(file')
    BY <1>1, <2>1, OverType DEF Shared, Sound
  <2> QED
    BY <1>1, <1>3, <1>5, <1>8, <2>1, <2>2, <2>3 DEF Shared
<1>10. CASE OpenFails(s)
  <2>1. /\ io[s] = "read" /\ file' = file /\ torn' = TRUE
        /\ queue' = [queue EXCEPT ![s] = Tail(queue[s])]
        /\ buf' = [buf EXCEPT ![s] = <<>>] /\ io' = [io EXCEPT ![s] = "idle"]
    BY <1>10 DEF OpenFails, SaveEnds
  <2>2. queue[s] # <<>> /\ pc[s] # "off"
    BY <1>1, <2>1 DEF Sound
  <2> QED
    BY <1>1, <1>3, <1>5, <1>8, <2>1, <2>2 DEF Shared
<1> QED
  BY <1>6, <1>7, <1>9, <1>10

\* A kill leaves the first lines of what was being written.
LEMMA KillKeeps ==
  ASSUME IInv, NEW s \in Sessions, Kill(s)
  PROVE  IInv'
<1>1. Sound(s) /\ Functions /\ Shared
  BY InvParts DEF AllSound
<1>2. /\ pc' = [pc EXCEPT ![s] = "off"] /\ cfg' = [cfg EXCEPT ![s] = Defaults]
      /\ reg' = [reg EXCEPT ![s] = {}] /\ object' = [object EXCEPT ![s] = NoObject]
      /\ queue' = [queue EXCEPT ![s] = <<>>] /\ buf' = [buf EXCEPT ![s] = <<>>]
      /\ io' = [io EXCEPT ![s] = "idle"] /\ steps' = steps /\ told' = told
  BY DEF Kill, End
<1>3. torn' \in BOOLEAN
  BY <1>1 DEF Kill, Shared
<1>4. Defaults \in Config /\ NoObject \in Objects /\ NoObject.kind = "none"
  BY SettingsAssumption DEF NoObject, Objects, Cloud, Places
<1>5. /\ pc'[s] = "off" /\ cfg'[s] = Defaults /\ reg'[s] = {} /\ object'[s] = NoObject
      /\ queue'[s] = <<>> /\ io'[s] = "idle" /\ buf'[s] = <<>>
  BY <1>1, <1>2 DEF Functions
<1>6. <<>> \in Seq(Lines) /\ Startable(<<>>)
  BY DEF Startable
<1>7. file' \in Seq(Lines) /\ Startable(file')
  <2>1. CASE io[s] = "cut"
    <3>1. PICK n \in 0 .. Len(buf[s]) : file' = Over(file, SubSeq(buf[s], 1, n))
      BY <2>1 DEF Kill
    <3>2. /\ SubSeq(buf[s], 1, n) \in Seq(Lines)
          /\ Startable(SubSeq(buf[s], 1, n))
      BY <1>1, CutType DEF Sound
    <3> QED
      BY <1>1, <3>1, <3>2, OverType DEF Shared
  <2>2. CASE io[s] # "cut"
    BY <1>1, <2>2 DEF Kill, Shared
  <2> QED
    BY <2>1, <2>2
<1>8. Sound(s)'
  BY <1>4, <1>5, <1>6 DEF Sound
<1>9. Functions'
  BY <1>1, <1>2 DEF Functions
<1>10. Shared'
  BY <1>1, <1>2, <1>3, <1>7 DEF Shared
<1> QED
  BY <1>2, <1>8, <1>9, <1>10, OneSession

LEMMA InvStep == IInv /\ [Next]_vars => IInv'
<1> SUFFICES ASSUME IInv, [Next]_vars
             PROVE  IInv'
  OBVIOUS
<1>1. CASE UNCHANGED vars
  BY <1>1 DEF vars, ses, save, IInv, TypeOK, SavedProviderStarts, QueuedProvidersStart, KindAgrees
<1>2. ASSUME NEW s \in Sessions, Act(s)
      PROVE  IInv'
  <2>1. CASE LoadConfig(s)
    BY <2>1, LoadConfigKeeps
  <2>2. CASE StartRepl(s)
    BY <2>2, StartReplKeeps
  <2>3. CASE StartFails(s) \/ Quit(s)
    BY <2>3, EndsKeep
  <2>4. CASE ProviderCommand(s) \/ Host(s) \/ HostMenu(s) \/ Use(s) \/ ModelByName(s)
    BY <2>4, SwitchesKeep
  <2>9. CASE ModelByNumber(s)
    BY <2>9, NumberKeeps
  <2>5. CASE ModelMenu(s)
    BY <2>5, ModelMenuKeeps
  <2>6. CASE Scan(s)
    BY <2>6, ScanKeeps
  <2>7. CASE ReadFile(s) \/ CutFile(s) \/ WriteFile(s) \/ OpenFails(s)
    BY <2>7, SavingKeeps
  <2>8. CASE Kill(s)
    BY <2>8, KillKeeps
  <2> QED
    BY <1>2, <2>1, <2>2, <2>3, <2>4, <2>5, <2>6, <2>7, <2>8, <2>9 DEF Act
<1> QED
  BY <1>1, <1>2 DEF Next

-----------------------------------------------------------------------------
(* What was told and what is saved. *)

\* The settings that some lines are about.
KeysOf(q) == {q[i].key : i \in DOMAIN q}

AtRest == \A s \in Sessions : io[s] = "idle"

\* What stands between the file and what was told, as long as nothing went wrong: at
\* most one session saves; what it has yet to save is what was told; the file has the
\* rest, or, during a save, the text that will replace it does.
SavesPending ==
  ~torn =>
    /\ \A s, t \in Sessions : queue[s] # <<>> /\ queue[t] # <<>> => s = t
    /\ \A s \in Sessions : \A i \in DOMAIN queue[s] :
         queue[s][i].key \in Keys /\ queue[s][i].val = told[queue[s][i].key]
    /\ AtRest => \A k \in Keys :
         (\A s \in Sessions : k \notin KeysOf(queue[s])) => ValueIn(file, k) = told[k]
    /\ \A s \in Sessions : io[s] # "idle" =>
         \A k \in Keys \ KeysOf(Tail(queue[s])) : ValueIn(buf[s], k) = told[k]
    /\ \A s \in Sessions : io[s] = "cut" => file = <<>>

LEMMA PendingInit == Init => SavesPending
BY DEF Init, SavesPending, KeysOf, AtRest

\* The step of a session that neither saves nor tells.
LEMMA PendingSame ==
  ASSUME IInv, SavesPending, file' = file, queue' = queue, io' = io, told' = told, torn' = torn,
         \A s \in Sessions : io[s] # "idle" => buf'[s] = buf[s]
  PROVE  SavesPending'
BY DEF SavesPending, AtRest, KeysOf

\* The settings a command saves are those it tells of.
LEMMA PendingSaved ==
  ASSUME IInv, SavesPending, NEW s \in Sessions, queue[s] = <<>>,
         NEW c \in Config, NEW keys \in Seq(Keys), NEW K, K = {keys[i] : i \in DOMAIN keys},
         Save(s, c, keys), Tell(c, K)
  PROVE  SavesPending'
<1> DEFINE q == [i \in DOMAIN keys |-> Line(keys[i], c[keys[i]])]
<1>1. /\ queue' = [queue EXCEPT ![s] = q] /\ file' = file /\ io' = io /\ buf' = buf
      /\ torn' = (torn \/ (keys # <<>> /\ \E t \in Sessions : queue[t] # <<>>))
      /\ told' = [k \in Keys |-> IF k \in K THEN c[k] ELSE told[k]]
  BY DEF Save, Tell
<1>2. /\ queue \in [Sessions -> Seq(Lines)] /\ told \in [Keys -> Names]
      /\ \A t \in Sessions : queue[t] = <<>> => io[t] = "idle"
  BY DEF IInv, TypeOK
<1>3. CASE keys = <<>>
  <2>1. K = {} /\ q = <<>>
    BY <1>3
  <2> HIDE DEF q
  <2>2. queue' = queue
    BY <2>1, <1>1, <1>2
  <2>3. told' = told
    BY <2>1, <1>1, <1>2
  <2>4. torn' = torn
    BY <1>1, <1>3 DEF IInv, TypeOK
  <2> QED
    BY <2>2, <2>3, <2>4, <1>1, PendingSame
<1>4. CASE keys # <<>>
  <2> SUFFICES ASSUME ~torn'
               PROVE  SavesPending'
    BY DEF SavesPending
  <2>1. ~torn /\ \A t \in Sessions : queue[t] = <<>>
    BY <1>1, <1>4
  <2>2. AtRest /\ \A t \in Sessions : io'[t] = "idle" /\ io[t] = "idle"
    BY <1>1, <1>2, <2>1 DEF AtRest
  <2>3. \A i \in DOMAIN q : q[i].key = keys[i] /\ q[i].val = c[keys[i]] /\ keys[i] \in K /\ keys[i] \in Keys
    BY DEF Line
  <2>4. KeysOf(q) = K
    BY <2>3 DEF KeysOf
  <2> HIDE DEF q
  <2>5. queue'[s] = q /\ \A t \in Sessions \ {s} : queue'[t] = <<>>
    BY <1>1, <1>2, <2>1
  <2>6. \A t, u \in Sessions : queue'[t] # <<>> /\ queue'[u] # <<>> => t = u
    BY <2>5
  <2>7. \A t \in Sessions : \A i \in DOMAIN queue'[t] :
          queue'[t][i].key \in Keys /\ queue'[t][i].val = told'[queue'[t][i].key]
    <3> SUFFICES ASSUME NEW t \in Sessions, NEW i \in DOMAIN queue'[t]
                 PROVE  queue'[t][i].key \in Keys /\ queue'[t][i].val = told'[queue'[t][i].key]
      OBVIOUS
    <3>1. CASE t = s
      BY <1>1, <2>3, <2>5, <3>1
    <3>2. CASE t # s
      BY <2>5, <3>2
    <3> QED
      BY <3>1, <3>2
  <2>8. ASSUME NEW k \in Keys, \A t \in Sessions : k \notin KeysOf(queue'[t])
        PROVE  ValueIn(file', k) = told'[k]
    <3>1. k \notin K
      BY <2>4, <2>5, <2>8
    <3>2. \A t \in Sessions : k \notin KeysOf(queue[t])
      BY <2>1 DEF KeysOf
    <3>3. ValueIn(file, k) = told[k]
      BY <2>1, <2>2, <3>2 DEF SavesPending
    <3> QED
      BY <1>1, <3>1, <3>3
  <2> QED
    BY <2>2, <2>6, <2>7, <2>8 DEF SavesPending
<1> QED
  BY <1>3, <1>4

\* While nothing went wrong, the session that saves is the only one.
LEMMA Alone ==
  ASSUME IInv, SavesPending, ~torn, NEW s \in Sessions, queue[s] # <<>>
  PROVE  \A t \in Sessions \ {s} : queue[t] = <<>> /\ io[t] = "idle" /\ KeysOf(queue[t]) = {}
<1>1. \A t \in Sessions \ {s} : queue[t] = <<>>
  BY DEF SavesPending
<1> QED
  BY <1>1 DEF IInv, TypeOK, KeysOf

\* The keys of some lines are those of the first and of the rest.
LEMMA HeadAndTail ==
  ASSUME NEW q \in Seq(Lines), q # <<>>
  PROVE  /\ Head(q) = q[1] /\ 1 \in DOMAIN q /\ Head(q) \in Lines
         /\ \A i \in DOMAIN Tail(q) : i + 1 \in DOMAIN q /\ Tail(q)[i] = q[i + 1]
         /\ KeysOf(q) = {Head(q).key} \cup KeysOf(Tail(q))
<1>1. Head(q) = q[1] /\ 1 \in DOMAIN q /\ Head(q) \in Lines /\ DOMAIN q = 1 .. Len(q) /\ Len(q) \in Nat
  OBVIOUS
<1>2. DOMAIN Tail(q) = 1 .. (Len(q) - 1) /\ \A i \in DOMAIN Tail(q) : Tail(q)[i] = q[i + 1]
  OBVIOUS
<1>3. \A i \in DOMAIN Tail(q) : i + 1 \in DOMAIN q
  BY <1>1, <1>2
<1>4. ASSUME NEW i \in DOMAIN q, i # 1
      PROVE  i - 1 \in DOMAIN Tail(q) /\ Tail(q)[i - 1] = q[i]
  <2>1. i \in Nat /\ i - 1 \in 1 .. (Len(q) - 1) /\ (i - 1) + 1 = i
    BY <1>1, <1>4
  <2>2. Tail(q)[i - 1] = q[(i - 1) + 1]
    BY <1>2, <2>1
  <2> QED
    BY <1>2, <2>1, <2>2
<1>5. KeysOf(q) \subseteq {Head(q).key} \cup KeysOf(Tail(q))
  <2> SUFFICES ASSUME NEW i \in DOMAIN q PROVE q[i].key \in {Head(q).key} \cup KeysOf(Tail(q))
    BY DEF KeysOf
  <2>1. CASE i = 1
    BY <1>1, <2>1
  <2>2. CASE i # 1
    BY <1>4, <2>2 DEF KeysOf
  <2> QED
    BY <2>1, <2>2
<1>6. {Head(q).key} \cup KeysOf(Tail(q)) \subseteq KeysOf(q)
  BY <1>1, <1>2, <1>3 DEF KeysOf
<1> QED
  BY <1>1, <1>2, <1>3, <1>5, <1>6

LEMMA PendingRead ==
  ASSUME IInv, SavesPending, NEW s \in Sessions, ReadFile(s)
  PROVE  SavesPending'
<1> SUFFICES ASSUME ~torn'
             PROVE  SavesPending'
  BY DEF SavesPending
<1>1. /\ io[s] = "idle" /\ queue[s] # <<>> /\ buf' = [buf EXCEPT ![s] = Saved(file, Head(queue[s]))]
      /\ io' = [io EXCEPT ![s] = "read"] /\ file' = file /\ queue' = queue /\ told' = told /\ ~torn
  BY DEF ReadFile
<1>2. file \in Seq(Lines) /\ queue[s] \in Seq(Lines)
  BY DEF IInv, TypeOK
<1>3. io'[s] = "read" /\ buf'[s] = Saved(file, Head(queue[s]))
      /\ \A t \in Sessions \ {s} : io'[t] = "idle"
  BY <1>1, Alone DEF IInv, TypeOK
<1>4. AtRest
  BY <1>1, Alone DEF AtRest
<1>5. ASSUME NEW k \in Keys \ KeysOf(Tail(queue[s]))
      PROVE  ValueIn(buf'[s], k) = told[k]
  <2>1. ValueIn(buf'[s], k) = IF k = Head(queue[s]).key THEN Head(queue[s]).val ELSE ValueIn(file, k)
    BY <1>1, <1>2, <1>3, SavedValue, HeadAndTail
  <2>2. CASE k = Head(queue[s]).key
    <3>1. Head(queue[s]).val = told[k]
      BY <1>1, <1>2, <2>2, HeadAndTail DEF SavesPending
    <3> QED
      BY <2>1, <2>2, <3>1
  <2>3. CASE k # Head(queue[s]).key
    <3>1. k \notin KeysOf(queue[s])
      BY <1>1, <1>2, <2>3, HeadAndTail
    <3>2. \A t \in Sessions : k \notin KeysOf(queue[t])
      BY <1>1, <3>1, Alone
    <3>3. ValueIn(file, k) = told[k]
      BY <1>1, <1>4, <3>2 DEF SavesPending
    <3> QED
      BY <2>1, <2>3, <3>3
  <2> QED
    BY <2>2, <2>3
<1>6. ~AtRest'
  BY <1>3 DEF AtRest
<1>7. \A t \in Sessions : io'[t] # "idle" =>
        \A k \in Keys \ KeysOf(Tail(queue'[t])) : ValueIn(buf'[t], k) = told'[k]
  BY <1>1, <1>3, <1>5
<1>8. \A t \in Sessions : io'[t] # "cut"
  BY <1>3
<1> QED
  BY <1>1, <1>6, <1>7, <1>8 DEF SavesPending

LEMMA PendingCut ==
  ASSUME IInv, SavesPending, NEW s \in Sessions, CutFile(s)
  PROVE  SavesPending'
<1>1. /\ io[s] = "read" /\ io' = [io EXCEPT ![s] = "cut"] /\ file' = <<>>
      /\ queue' = queue /\ told' = told /\ buf' = buf /\ torn' = torn
  BY DEF CutFile
<1>2. io'[s] = "cut" /\ \A t \in Sessions : io'[t] # "idle" => io[t] # "idle"
  BY <1>1 DEF IInv, TypeOK
<1>3. ~AtRest'
  BY <1>2 DEF AtRest
<1> QED
  BY <1>1, <1>2, <1>3 DEF SavesPending

LEMMA PendingWritten ==
  ASSUME IInv, SavesPending, NEW s \in Sessions, WriteFile(s)
  PROVE  SavesPending'
<1> SUFFICES ASSUME ~torn'
             PROVE  SavesPending'
  BY DEF SavesPending
<1>1. /\ io[s] = "cut" /\ file' = Over(file, buf[s]) /\ ~torn /\ told' = told
      /\ queue' = [queue EXCEPT ![s] = Tail(queue[s])]
      /\ buf' = [buf EXCEPT ![s] = <<>>] /\ io' = [io EXCEPT ![s] = "idle"]
  BY DEF WriteFile, SaveEnds
<1>2. queue[s] \in Seq(Lines) /\ buf[s] \in Seq(Lines) /\ queue[s] # <<>>
  BY <1>1 DEF IInv, TypeOK
<1>3. file' = buf[s]
  BY <1>1, <1>2, OverNothing DEF SavesPending
<1>4. /\ queue'[s] = Tail(queue[s]) /\ \A t \in Sessions : io'[t] = "idle"
      /\ \A t \in Sessions \ {s} : queue'[t] = <<>>
  BY <1>1, <1>2, Alone DEF IInv, TypeOK
<1>5. ASSUME NEW t \in Sessions, NEW i \in DOMAIN queue'[t]
      PROVE  queue'[t][i].key \in Keys /\ queue'[t][i].val = told'[queue'[t][i].key]
  <2>1. t = s
    BY <1>4, <1>5
  <2>2. i + 1 \in DOMAIN queue[s] /\ queue'[t][i] = queue[s][i + 1]
    BY <1>2, <1>4, <1>5, <2>1, HeadAndTail
  <2> QED
    BY <1>1, <2>2 DEF SavesPending
<1>6. ASSUME NEW k \in Keys, \A t \in Sessions : k \notin KeysOf(queue'[t])
      PROVE  ValueIn(file', k) = told'[k]
  <2>1. k \notin KeysOf(Tail(queue[s]))
    BY <1>4, <1>6
  <2> QED
    BY <1>1, <1>3, <2>1 DEF SavesPending
<1> QED
  BY <1>4, <1>5, <1>6 DEF SavesPending

\* A kill that comes upon a save is what torn stands for; another touches no save.
LEMMA PendingKilled ==
  ASSUME IInv, SavesPending, NEW s \in Sessions, Kill(s)
  PROVE  SavesPending'
<1>1. /\ torn' = (torn \/ queue[s] # <<>>) /\ told' = told
      /\ queue' = [queue EXCEPT ![s] = <<>>] /\ buf' = [buf EXCEPT ![s] = <<>>]
      /\ io' = [io EXCEPT ![s] = "idle"]
  BY DEF Kill
<1>2. CASE queue[s] # <<>>
  BY <1>1, <1>2 DEF SavesPending
<1>3. CASE queue[s] = <<>>
  <2>1. io[s] = "idle"
    BY <1>3 DEF IInv, TypeOK
  <2>2. file' = file
    BY <2>1 DEF Kill
  <2>3. queue' = queue /\ io' = io /\ torn' = torn /\ \A t \in Sessions : io[t] # "idle" => buf'[t] = buf[t]
    BY <1>1, <1>3, <2>1 DEF IInv, TypeOK
  <2> QED
    BY <1>1, <2>2, <2>3, PendingSame
<1> QED
  BY <1>2, <1>3

LEMMA PendingLoaded ==
  ASSUME IInv, SavesPending, NEW s \in Sessions, LoadConfig(s)
  PROVE  SavesPending'
<1>1. queue[s] = <<>> /\ told = [k \in Keys |-> told[k]]
  BY DEF LoadConfig, IInv, TypeOK
<1>2. PICK env \in Environments : \E args \in Arguments, up \in SUBSET Servers :
        LET c == Merged(env, args)
            d == [c EXCEPT !["provider"] = Probe(c, up)]
        IN IF Explicit(env, args)
           THEN /\ cfg' = [cfg EXCEPT ![s] = c]
                /\ Save(s, c, <<>>) /\ UNCHANGED told
           ELSE /\ cfg' = [cfg EXCEPT ![s] = d]
                /\ Save(s, d, <<"provider">>) /\ Tell(d, {"provider"})
  BY DEF LoadConfig
<1>3. PICK args \in Arguments, up \in SUBSET Servers :
        LET c == Merged(env, args)
            d == [c EXCEPT !["provider"] = Probe(c, up)]
        IN IF Explicit(env, args)
           THEN /\ cfg' = [cfg EXCEPT ![s] = c]
                /\ Save(s, c, <<>>) /\ UNCHANGED told
           ELSE /\ cfg' = [cfg EXCEPT ![s] = d]
                /\ Save(s, d, <<"provider">>) /\ Tell(d, {"provider"})
  BY <1>2
<1> DEFINE c == Merged(env, args)
           d == [c EXCEPT !["provider"] = Probe(c, up)]
<1>4. c \in Config
  BY MergedType DEF IInv
<1>5. d \in Config
  <2>1. Probe(c, up) \in Names
    BY SettingsAssumption DEF Probe
  <2> HIDE DEF c
  <2> QED
    BY <2>1, <1>4, WithType DEF Keys
<1>6. CASE Explicit(env, args)
  <2>1. Save(s, c, <<>>) /\ told' = told
    BY <1>3, <1>6
  <2>2. Tell(c, {}) /\ {} = {<<>>[i] : i \in DOMAIN <<>>} /\ <<>> \in Seq(Keys)
    BY <2>1, <1>1 DEF Tell
  <2> HIDE DEF c
  <2> QED
    BY <2>1, <2>2, <1>1, <1>4, PendingSaved
<1>7. CASE ~Explicit(env, args)
  <2>1. Save(s, d, <<"provider">>) /\ Tell(d, {"provider"})
    BY <1>3, <1>7
  <2>2. {"provider"} = {<<"provider">>[i] : i \in DOMAIN <<"provider">>} /\ <<"provider">> \in Seq(Keys)
    BY DEF Keys
  <2> HIDE DEF d
  <2> QED
    BY <2>1, <2>2, <1>1, <1>5, PendingSaved
<1> QED
  BY <1>6, <1>7

LEMMA PendingBecome ==
  ASSUME IInv, SavesPending, NEW s \in Sessions, queue[s] = <<>>,
         NEW c \in Config, NEW keys \in Seq(Keys), NEW K, K = {keys[i] : i \in DOMAIN keys},
         Become(s, c, keys, K)
  PROVE  SavesPending'
<1>1. CASE KindOf(c.provider) = "none"
  BY <1>1, PendingSame DEF Become, save
<1>2. CASE KindOf(c.provider) # "none"
  <2>1. Save(s, c, keys) /\ Tell(c, K)
    BY <1>2 DEF Become
  <2> QED
    BY <2>1, PendingSaved
<1> QED
  BY <1>1, <1>2

\* What the commands choose from, as configurations.
LEMMA ChoiceType ==
  ASSUME IInv, NEW s \in Sessions
  PROVE  /\ \A name \in Typed \cup {Catalog[i].provider : i \in reg[s]} :
              name \in Names /\ \A c \in Switched(s, cfg[s], name) : c \in Config /\ c.provider = name
         /\ \A i \in Heads(s) \cup reg[s] \cup Shown(s) :
              i \in reg[s] /\ i \in DOMAIN Catalog /\ \A c \in Selected(s, Catalog[i]) : c \in Config
<1>1. cfg[s] \in Config /\ reg[s] \subseteq DOMAIN Catalog /\ TypeOK
  BY DEF IInv, TypeOK
<1>2. \A name \in Typed \cup {Catalog[i].provider : i \in reg[s]} : name \in Names
  BY <1>1, EntryType, SettingsAssumption
<1>3. \A i \in Heads(s) \cup reg[s] \cup Shown(s) : i \in reg[s]
  BY DEF Heads, Shown, ProviderEntries
<1> QED
  BY <1>1, <1>2, <1>3, SwitchedType, SelectedType

LEMMA PendingSwitched ==
  ASSUME IInv, SavesPending, NEW s \in Sessions,
         ProviderCommand(s) \/ Host(s) \/ HostMenu(s) \/ Use(s) \/ ModelByName(s)
  PROVE  SavesPending'
<1>1. queue[s] = <<>>
  BY DEF ProviderCommand, Host, HostMenu, Use, ModelByName, Prompt
<1>2. {} = {<<>>[i] : i \in DOMAIN <<>>} /\ <<>> \in Seq(Keys)
  OBVIOUS
<1>3. CASE ProviderCommand(s)
  <2>1. PICK name \in Typed \cup {Catalog[i].provider : i \in reg[s]} :
          \E c \in Switched(s, cfg[s], name) : Become(s, c, <<"provider">>, {"provider"})
    BY <1>3 DEF ProviderCommand
  <2>2. PICK c \in Switched(s, cfg[s], name) : Become(s, c, <<"provider">>, {"provider"})
    BY <2>1
  <2>3. {"provider"} = {<<"provider">>[i] : i \in DOMAIN <<"provider">>} /\ <<"provider">> \in Seq(Keys)
    BY DEF Keys
  <2>4. c \in Config
    BY <2>1, <2>2, ChoiceType
  <2> QED
    BY <2>2, <2>3, <2>4, <1>1, PendingBecome
<1>4. CASE HostMenu(s)
  <2> DEFINE keys == <<"provider", "model", "host", "port">>
             K == {"provider", "model", "host", "port"}
  <2>1. PICK i \in Heads(s) : \E c \in Selected(s, Catalog[i]) : Become(s, c, keys, K)
    BY <1>4 DEF HostMenu
  <2>2. PICK c \in Selected(s, Catalog[i]) : Become(s, c, keys, K)
    BY <2>1
  <2>3. K = {keys[j] : j \in DOMAIN keys} /\ keys \in Seq(Keys)
    <3>1. keys \in Seq(Keys) /\ DOMAIN keys = {1, 2, 3, 4}
      BY DEF Keys
    <3>2. keys[1] = "provider" /\ keys[2] = "model" /\ keys[3] = "host" /\ keys[4] = "port"
      OBVIOUS
    <3> HIDE DEF keys
    <3> QED
      BY <3>1, <3>2
  <2>4. c \in Config
    BY <2>1, <2>2, ChoiceType
  <2> HIDE DEF keys, K
  <2> QED
    BY <2>2, <2>3, <2>4, <1>1, PendingBecome
<1>5. CASE Host(s) \/ Use(s) \/ ModelByName(s)
  <2>1. PICK i \in Heads(s) \cup reg[s] \cup Shown(s) : \E c \in Selected(s, Catalog[i]) : Become(s, c, <<>>, {})
    BY <1>5 DEF Host, Use, ModelByName
  <2>2. PICK c \in Selected(s, Catalog[i]) : Become(s, c, <<>>, {})
    BY <2>1
  <2>3. c \in Config
    BY <2>1, <2>2, ChoiceType
  <2> QED
    BY <2>2, <2>3, <1>1, <1>2, PendingBecome
<1> QED
  BY <1>3, <1>4, <1>5

LEMMA PendingNumber ==
  ASSUME IInv, SavesPending, NEW s \in Sessions, ModelByNumber(s)
  PROVE  SavesPending'
<1>1. queue[s] = <<>>
  BY NumberHow DEF Prompt
<1>2. PICK i \in reg[s] : \E c \in Selected(s, Catalog[i]) : Swallowed(s, c) \/ Become(s, c, <<>>, {})
  BY NumberHow
<1>3. PICK c \in Selected(s, Catalog[i]) : Swallowed(s, c) \/ Become(s, c, <<>>, {})
  BY <1>2
<1>4. CASE Swallowed(s, c)
  BY <1>4, PendingSame DEF Swallowed, save
<1>5. CASE Become(s, c, <<>>, {})
  <2>1. {} = {<<>>[j] : j \in DOMAIN <<>>} /\ <<>> \in Seq(Keys)
    OBVIOUS
  <2>2. c \in Config
    BY <1>3, SelectedProvider DEF IInv
  <2> QED
    BY <1>1, <1>5, <2>1, <2>2, PendingBecome
<1> QED
  BY <1>3, <1>4, <1>5

LEMMA PendingMenu ==
  ASSUME IInv, SavesPending, NEW s \in Sessions, ModelMenu(s) \/ Scan(s)
  PROVE  SavesPending'
<1>1. queue[s] = <<>> /\ cfg[s] \in Config
  BY DEF ModelMenu, Scan, Prompt, IInv, TypeOK
<1>2. CASE ModelMenu(s)
  <2>1. PICK up \in SUBSET Servers : \E e \in Listed(s, up) :
          LET c == [cfg[s] EXCEPT !["model"] = e.model, !["host"] = e.at[1], !["port"] = e.at[2]]
          IN /\ cfg' = [cfg EXCEPT ![s] = c]
             /\ Save(s, c, <<"model", "host", "port">>) /\ Tell(c, {"model", "host", "port"})
    BY <1>2 DEF ModelMenu
  <2>2. PICK e \in Listed(s, up) :
          LET c == [cfg[s] EXCEPT !["model"] = e.model, !["host"] = e.at[1], !["port"] = e.at[2]]
          IN /\ cfg' = [cfg EXCEPT ![s] = c]
             /\ Save(s, c, <<"model", "host", "port">>) /\ Tell(c, {"model", "host", "port"})
    BY <2>1
  <2> DEFINE c == [cfg[s] EXCEPT !["model"] = e.model, !["host"] = e.at[1], !["port"] = e.at[2]]
             keys == <<"model", "host", "port">>
             K == {"model", "host", "port"}
  <2>3. c \in Config
    BY <1>1, MenuChoice DEF Config, Keys
  <2>4. Save(s, c, keys) /\ Tell(c, K)
    BY <2>2
  <2>5. K = {keys[j] : j \in DOMAIN keys} /\ keys \in Seq(Keys)
    <3>1. keys \in Seq(Keys) /\ DOMAIN keys = {1, 2, 3}
      BY DEF Keys
    <3>2. keys[1] = "model" /\ keys[2] = "host" /\ keys[3] = "port"
      OBVIOUS
    <3> HIDE DEF keys
    <3> QED
      BY <3>1, <3>2
  <2> HIDE DEF c, keys, K
  <2> QED
    BY <2>3, <2>4, <2>5, <1>1, PendingSaved
<1>3. CASE Scan(s)
  <2> DEFINE c == [cfg[s] EXCEPT !["hosts"] = "found"]
  <2>1. Save(s, c, <<"hosts">>) /\ Tell(c, {"hosts"})
    BY <1>3 DEF Scan
  <2>2. c \in Config
    BY <1>1, SettingsAssumption, WithType DEF Keys
  <2>3. {"hosts"} = {<<"hosts">>[i] : i \in DOMAIN <<"hosts">>} /\ <<"hosts">> \in Seq(Keys)
    BY DEF Keys
  <2> HIDE DEF c
  <2> QED
    BY <2>1, <2>2, <2>3, <1>1, PendingSaved
<1> QED
  BY <1>2, <1>3

LEMMA PendingStep == IInv /\ SavesPending /\ [Next]_vars => SavesPending'
<1> SUFFICES ASSUME IInv, SavesPending, [Next]_vars
             PROVE  SavesPending'
  OBVIOUS
<1>1. CASE UNCHANGED vars
  BY <1>1, PendingSame DEF vars, save
<1>2. ASSUME NEW s \in Sessions, Act(s)
      PROVE  SavesPending'
  <2>1. CASE LoadConfig(s)
    BY <2>1, PendingLoaded
  <2>2. CASE StartRepl(s) \/ StartFails(s) \/ Quit(s)
    BY <2>2, PendingSame DEF StartRepl, StartFails, Quit, save
  <2>3. CASE ProviderCommand(s) \/ Host(s) \/ HostMenu(s) \/ Use(s) \/ ModelByName(s)
    BY <2>3, PendingSwitched
  <2>10. CASE ModelByNumber(s)
    BY <2>10, PendingNumber
  <2>4. CASE ModelMenu(s) \/ Scan(s)
    BY <2>4, PendingMenu
  <2>5. CASE ReadFile(s)
    BY <2>5, PendingRead
  <2>6. CASE CutFile(s)
    BY <2>6, PendingCut
  <2>7. CASE WriteFile(s)
    BY <2>7, PendingWritten
  <2>8. CASE OpenFails(s)
    BY <2>8 DEF OpenFails, SavesPending
  <2>9. CASE Kill(s)
    BY <2>9, PendingKilled
  <2> QED
    BY <1>2, <2>1, <2>2, <2>3, <2>4, <2>5, <2>6, <2>7, <2>8, <2>9, <2>10 DEF Act
<1> QED
  BY <1>1, <1>2 DEF Next

-----------------------------------------------------------------------------
(* A switch and the registry. *)

\* A session that asks one host has a registry of that host, and of programs.
RegistryHere ==
  \A s \in Sessions : pc[s] = "prompt" /\ HostsOf(cfg[s]) = <<>> =>
    \A i \in reg[s] : Catalog[i].at \in {Cloud, <<cfg[s].host, cfg[s].port>>}

\* The model of the settings after a switch to Ollama is one the registry has there.
HasModel(s, c) ==
  \E j \in ProviderEntries(s, "ollama") :
    /\ Catalog[j].model = c.model
    /\ HostsOf(c) = <<>> => Catalog[j].at = <<c.host, c.port>>

\* A choice of the user's, in a session at the prompt: it keeps the list of hosts, keeps
\* the registry at its host, and finds a model if it is Ollama's.
Chosen(s, c) ==
  /\ c \in Config /\ c.hosts = cfg[s].hosts
  /\ HostsOf(c) = <<>> => c.host = cfg[s].host /\ c.port = cfg[s].port
  /\ KindOf(c.provider) = "ollama" /\ ProviderEntries(s, "ollama") # {} => HasModel(s, c)

LEMMA NamedChoice ==
  ASSUME IInv, RegistryHere, NEW s \in Sessions, pc[s] = "prompt",
         NEW name \in Names, Given(name), NEW c \in Switched(s, cfg[s], name)
  PROVE  Chosen(s, c)
<1>1. cfg[s] \in Config /\ reg[s] \subseteq DOMAIN Catalog /\ TypeOK
  BY DEF IInv, TypeOK
<1>2. name \in Names
  OBVIOUS
<1>3. c \in Config /\ c.provider = name /\ c.hosts = cfg[s].hosts
  BY <1>1, <1>2, SwitchedHosts
<1>4. HostsOf(c) = HostsOf(cfg[s])
  BY <1>3 DEF HostsOf
<1>5. ASSUME HostsOf(c) = <<>>
      PROVE  /\ c.host = cfg[s].host /\ c.port = cfg[s].port
             /\ \A i \in reg[s] : Catalog[i].at \in {Cloud, <<cfg[s].host, cfg[s].port>>}
  <2>1. \A i \in reg[s] : Catalog[i].at \in {Cloud, <<cfg[s].host, cfg[s].port>>}
    BY <1>4, <1>5 DEF RegistryHere
  <2> QED
    BY <2>1, <1>1, <1>2, SwitchedHost
<1>6. ASSUME KindOf(c.provider) = "ollama", ProviderEntries(s, "ollama") # {}
      PROVE  HasModel(s, c)
  <2>1. name = "ollama"
    BY <1>3, <1>6, OllamaName DEF Given
  <2>2. PICK j \in ProviderEntries(s, "ollama") : c.model = Catalog[j].model
    BY <2>1, <1>1, <1>2, <1>6, SwitchedHow
  <2>3. j \in reg[s] /\ Catalog[j].at # Cloud
    BY <1>1, <2>2, EntryPlace DEF ProviderEntries
  <2>4. HostsOf(c) = <<>> => Catalog[j].at = <<c.host, c.port>>
    BY <2>3, <1>5
  <2> QED
    BY <2>2, <2>4 DEF HasModel
<1> QED
  BY <1>3, <1>5, <1>6 DEF Chosen

LEMMA EntryChoice ==
  ASSUME IInv, RegistryHere, NEW s \in Sessions, pc[s] = "prompt",
         NEW i \in reg[s], NEW c \in Selected(s, Catalog[i])
  PROVE  Chosen(s, c)
<1>1. cfg[s] \in Config /\ reg[s] \subseteq DOMAIN Catalog /\ TypeOK
  BY DEF IInv, TypeOK
<1>2. PICK b \in Config :
           /\ c \in Switched(s, b, Catalog[i].provider) /\ Catalog[i].provider \in Names
           /\ b.hosts = cfg[s].hosts /\ b.model = Catalog[i].model
           /\ Catalog[i].at # Cloud => Catalog[i].at = <<b.host, b.port>>
           /\ Catalog[i].at \in {Cloud, <<cfg[s].host, cfg[s].port>>} =>
                b.host = cfg[s].host /\ b.port = cfg[s].port
  BY <1>1, SelectedHow
<1>3. c \in Config /\ c.provider = Catalog[i].provider /\ c.hosts = cfg[s].hosts
  BY <1>1, <1>2, SwitchedHow
<1>4. HostsOf(c) = HostsOf(cfg[s])
  BY <1>3 DEF HostsOf
<1>5. ASSUME HostsOf(c) = <<>>
      PROVE  c.host = cfg[s].host /\ c.port = cfg[s].port
  <2>1. \A j \in reg[s] : Catalog[j].at \in {Cloud, <<cfg[s].host, cfg[s].port>>}
    BY <1>4, <1>5 DEF RegistryHere
  <2>2. b.host = cfg[s].host /\ b.port = cfg[s].port
    BY <2>1, <1>2
  <2> QED
    BY <2>1, <2>2, <1>1, <1>2, SwitchedHost
<1>6. ASSUME KindOf(c.provider) = "ollama", ProviderEntries(s, "ollama") # {}
      PROVE  HasModel(s, c)
  <2>1. Catalog[i].provider = "ollama" /\ Catalog[i].at # Cloud
    BY <1>1, <1>3, <1>6, OllamaName, EntryPlace DEF Given
  <2>2. i \in ProviderEntries(s, "ollama") /\ Catalog[i].at = <<b.host, b.port>>
    BY <2>1, <1>2 DEF ProviderEntries
  <2>3. \/ c.model = b.model /\ c.host = b.host /\ c.port = b.port
        \/ \E j \in ProviderEntries(s, "ollama") :
             /\ c.model = Catalog[j].model
             /\ Catalog[j].at # Cloud => Catalog[j].at = <<c.host, c.port>>
    BY <2>1, <1>1, <1>2, SwitchedHow
  <2>4. CASE c.model = b.model /\ c.host = b.host /\ c.port = b.port
    BY <2>2, <2>4, <1>2 DEF HasModel
  <2>5. CASE \E j \in ProviderEntries(s, "ollama") :
             /\ c.model = Catalog[j].model
             /\ Catalog[j].at # Cloud => Catalog[j].at = <<c.host, c.port>>
    <3>1. PICK j \in ProviderEntries(s, "ollama") :
             /\ c.model = Catalog[j].model
             /\ Catalog[j].at # Cloud => Catalog[j].at = <<c.host, c.port>>
      BY <2>5
    <3>2. Catalog[j].at # Cloud
      BY <3>1, <1>1, EntryPlace DEF ProviderEntries
    <3> QED
      BY <3>1, <3>2 DEF HasModel
  <2> QED
    BY <2>3, <2>4, <2>5
<1> QED
  BY <1>3, <1>5, <1>6 DEF Chosen

\* Every switch is a choice.
LEMMA SwitchIsChoice ==
  ASSUME IInv, RegistryHere, NEW s \in Sessions,
         ProviderCommand(s) \/ Host(s) \/ HostMenu(s) \/ Use(s) \/ ModelByName(s)
  PROVE  pc[s] = "prompt" /\ \E c, keys, K : Chosen(s, c) /\ Become(s, c, keys, K)
<1>1. pc[s] = "prompt"
  BY DEF ProviderCommand, Host, HostMenu, Use, ModelByName, Prompt
<1>2. CASE ProviderCommand(s)
  <2>1. PICK name \in Typed \cup {Catalog[i].provider : i \in reg[s]} :
          \E c \in Switched(s, cfg[s], name) : \E keys, K : Become(s, c, keys, K)
    BY <1>2 DEF ProviderCommand
  <2>2. \A i \in reg[s] : Catalog[i].provider \in Names /\ Given(Catalog[i].provider)
    BY EntryType, EntryPlace DEF IInv, TypeOK
  <2>3. name \in Names /\ Given(name)
    BY <2>1, <2>2, SettingsAssumption, NamesAssumption DEF Given
  <2>4. PICK c \in Switched(s, cfg[s], name) : \E keys, K : Become(s, c, keys, K)
    BY <2>1
  <2>5. Chosen(s, c)
    BY <1>1, <2>3, <2>4, NamedChoice
  <2> QED
    BY <1>1, <2>4, <2>5
<1>3. CASE Host(s) \/ HostMenu(s) \/ Use(s) \/ ModelByName(s)
  <2>1. PICK i \in Heads(s) \cup reg[s] \cup Shown(s) :
          \E c \in Selected(s, Catalog[i]) : \E keys, K : Become(s, c, keys, K)
    BY <1>3 DEF Host, HostMenu, Use, ModelByName
  <2>2. i \in reg[s]
    BY ChoiceType
  <2> QED
    BY <1>1, <2>1, <2>2, EntryChoice
<1> QED
  BY <1>1, <1>2, <1>3

LEMMA NumberIsChoice ==
  ASSUME IInv, RegistryHere, NEW s \in Sessions, ModelByNumber(s)
  PROVE  \E c : Chosen(s, c) /\ (Swallowed(s, c) \/ Become(s, c, <<>>, {}))
<1>1. pc[s] = "prompt"
  BY NumberHow DEF Prompt
<1>2. PICK i \in reg[s] : \E c \in Selected(s, Catalog[i]) : Swallowed(s, c) \/ Become(s, c, <<>>, {})
  BY NumberHow
<1>3. PICK c \in Selected(s, Catalog[i]) : Swallowed(s, c) \/ Become(s, c, <<>>, {})
  BY <1>2
<1>4. Chosen(s, c)
  BY <1>1, <1>2, <1>3, EntryChoice
<1> QED
  BY <1>3, <1>4

\* What a switch does to the session's settings, registry and provider.
LEMMA BecomeHow ==
  ASSUME IInv, NEW s \in Sessions, NEW c, NEW keys, NEW K, Become(s, c, keys, K)
  PROVE  /\ \A t \in Sessions \ {s} : pc'[t] = pc[t] /\ cfg'[t] = cfg[t] /\ reg'[t] = reg[t]
                                       /\ object'[t] = object[t]
         /\ \/ pc'[s] = "off" /\ object'[s] = NoObject
            \/ /\ pc' = pc /\ reg' = reg /\ cfg'[s] = c
               /\ KindOf(c.provider) # "none"
               /\ \E up : object'[s] \in Built(c, up)
<1>1. /\ pc = [t \in Sessions |-> pc[t]] /\ cfg = [t \in Sessions |-> cfg[t]]
      /\ reg = [t \in Sessions |-> reg[t]] /\ object = [t \in Sessions |-> object[t]]
  BY DEF IInv, TypeOK
<1>2. CASE KindOf(c.provider) = "none"
  BY <1>1, <1>2 DEF Become, End
<1>3. CASE KindOf(c.provider) # "none"
  <2>1. /\ cfg' = [cfg EXCEPT ![s] = c] /\ pc' = pc /\ reg' = reg
        /\ \E up \in SUBSET Servers : \E o \in Built(c, up) : object' = [object EXCEPT ![s] = o]
    BY <1>3 DEF Become
  <2>2. PICK up \in SUBSET Servers : \E o \in Built(c, up) : object' = [object EXCEPT ![s] = o]
    BY <2>1
  <2>3. PICK o \in Built(c, up) : object' = [object EXCEPT ![s] = o]
    BY <2>2
  <2>4. cfg'[s] = c /\ object'[s] = o
    BY <1>1, <2>1, <2>3
  <2>5. \A t \in Sessions \ {s} : cfg'[t] = cfg[t] /\ object'[t] = object[t]
    BY <1>1, <2>1, <2>3
  <2> QED
    BY <1>3, <2>1, <2>3, <2>4, <2>5
<1> QED
  BY <1>2, <1>3

\* The registry of the host, of one session.
Here(s) ==
  pc[s] = "prompt" /\ HostsOf(cfg[s]) = <<>> =>
    \A i \in reg[s] : Catalog[i].at \in {Cloud, <<cfg[s].host, cfg[s].port>>}

LEMMA OneRegistry ==
  ASSUME IInv, RegistryHere, NEW s \in Sessions, Here(s)',
         \A t \in Sessions \ {s} : pc'[t] = pc[t] /\ cfg'[t] = cfg[t] /\ reg'[t] = reg[t]
  PROVE  RegistryHere'
<1>1. ASSUME NEW t \in Sessions, t # s
      PROVE  Here(t)'
  <2>1. Here(t) /\ pc'[t] = pc[t] /\ cfg'[t] = cfg[t] /\ reg'[t] = reg[t]
    BY <1>1 DEF RegistryHere, Here
  <2> QED
    BY <2>1 DEF Here
<1> QED
  BY <1>1 DEF RegistryHere, Here

\* A choice keeps the registry at its host, whether the provider follows or not.
LEMMA ChoiceKeepsRegistry ==
  ASSUME IInv, RegistryHere, NEW s \in Sessions, pc[s] = "prompt", NEW c, Chosen(s, c),
         \A t \in Sessions \ {s} : pc'[t] = pc[t] /\ cfg'[t] = cfg[t] /\ reg'[t] = reg[t],
         pc'[s] = "off" \/ (pc' = pc /\ reg' = reg /\ cfg'[s] = c)
  PROVE  RegistryHere'
<1>1. Here(s)'
  <2>1. CASE pc'[s] = "off"
    BY <2>1 DEF Here
  <2>2. CASE pc' = pc /\ reg' = reg /\ cfg'[s] = c
    <3>1. HostsOf(c) = HostsOf(cfg[s])
      BY DEF Chosen, HostsOf
    <3>2. HostsOf(c) = <<>> => <<c.host, c.port>> = <<cfg[s].host, cfg[s].port>>
      BY DEF Chosen
    <3>3. HostsOf(cfg[s]) = <<>> => \A i \in reg[s] : Catalog[i].at \in {Cloud, <<cfg[s].host, cfg[s].port>>}
      BY DEF RegistryHere
    <3> QED
      BY <2>2, <3>1, <3>2, <3>3 DEF Here
  <2> QED
    BY <2>1, <2>2
<1> QED
  BY <1>1, OneRegistry

LEMMA SwitchKeepsRegistry ==
  ASSUME IInv, RegistryHere, NEW s \in Sessions,
         ProviderCommand(s) \/ Host(s) \/ HostMenu(s) \/ Use(s) \/ ModelByName(s)
  PROVE  RegistryHere'
<1>1. pc[s] = "prompt" /\ \E c, keys, K : Chosen(s, c) /\ Become(s, c, keys, K)
  BY SwitchIsChoice
<1>2. PICK c, keys, K : Chosen(s, c) /\ Become(s, c, keys, K)
  BY <1>1
<1>3. /\ \A t \in Sessions \ {s} : pc'[t] = pc[t] /\ cfg'[t] = cfg[t] /\ reg'[t] = reg[t]
      /\ pc'[s] = "off" \/ (pc' = pc /\ reg' = reg /\ cfg'[s] = c)
  BY <1>2, BecomeHow
<1> QED
  BY <1>1, <1>2, <1>3, ChoiceKeepsRegistry

LEMMA NumberKeepsRegistry ==
  ASSUME IInv, RegistryHere, NEW s \in Sessions, ModelByNumber(s)
  PROVE  RegistryHere'
<1>1. pc[s] = "prompt"
  BY NumberHow DEF Prompt
<1>2. PICK c : Chosen(s, c) /\ (Swallowed(s, c) \/ Become(s, c, <<>>, {}))
  BY NumberIsChoice
<1>3. CASE Swallowed(s, c)
  <2>1. cfg = [t \in Sessions |-> cfg[t]]
    BY DEF IInv, TypeOK
  <2>2. cfg' = [cfg EXCEPT ![s] = c] /\ pc' = pc /\ reg' = reg
    BY <1>3 DEF Swallowed
  <2>3. cfg'[s] = c /\ \A t \in Sessions \ {s} : cfg'[t] = cfg[t]
    BY <2>1, <2>2
  <2> QED
    BY <1>1, <1>2, <2>2, <2>3, ChoiceKeepsRegistry
<1>4. CASE Become(s, c, <<>>, {})
  <2>1. /\ \A t \in Sessions \ {s} : pc'[t] = pc[t] /\ cfg'[t] = cfg[t] /\ reg'[t] = reg[t]
        /\ pc'[s] = "off" \/ (pc' = pc /\ reg' = reg /\ cfg'[s] = c)
    BY <1>4, BecomeHow
  <2> QED
    BY <1>1, <1>2, <2>1, ChoiceKeepsRegistry
<1> QED
  BY <1>2, <1>3, <1>4

\* The automatic choice is made from the registry, and the fallback keeps the host.
LEMMA PickedHost ==
  ASSUME NEW c \in Config, NEW r \in SUBSET DOMAIN Catalog, NEW d \in AutoPicked(c, r)
  PROVE  /\ d \in Config /\ d.hosts = c.hosts
         /\ (\A i \in r : Catalog[i].at \in {Cloud, <<c.host, c.port>>}) =>
              d.host = c.host /\ d.port = c.port
<1> DEFINE sweet == {i \in r : Catalog[i].sweet}
           from == IF sweet # {} THEN sweet ELSE r
<1>1. from \subseteq r /\ Firsts(from) \subseteq from
  BY DEF Firsts
<1>2. d = c \/ \E i \in Firsts(from) : d = Place([c EXCEPT !["model"] = Catalog[i].model], Catalog[i])
  BY DEF AutoPicked
<1> HIDE DEF from
<1>3. ASSUME NEW i \in r, d = Place([c EXCEPT !["model"] = Catalog[i].model], Catalog[i])
      PROVE  /\ d \in Config /\ d.hosts = c.hosts
             /\ Catalog[i].at \in {Cloud, <<c.host, c.port>>} => d.host = c.host /\ d.port = c.port
  <2> DEFINE g == [c EXCEPT !["model"] = Catalog[i].model]
  <2>1. i \in DOMAIN Catalog /\ Catalog[i].model \in Names
    BY EntryType
  <2>2. g \in Config /\ g.hosts = c.hosts /\ g.host = c.host /\ g.port = c.port
    BY <2>1, WithType DEF Keys
  <2>3. d = Place(g, Catalog[i])
    BY <1>3
  <2> HIDE DEF g
  <2>4. /\ d \in Config /\ d.hosts = g.hosts
        /\ Catalog[i].at \in {Cloud, <<g.host, g.port>>} => d.host = g.host /\ d.port = g.port
    BY <2>1, <2>2, <2>3, PlaceHost
  <2> QED
    BY <2>2, <2>4
<1>4. CASE d = c
  BY <1>4
<1>5. CASE d # c
  <2>1. PICK i \in r : d = Place([c EXCEPT !["model"] = Catalog[i].model], Catalog[i])
    BY <1>1, <1>2, <1>5
  <2> QED
    BY <2>1, <1>3
<1> QED
  BY <1>4, <1>5

LEMMA FellBackHost ==
  ASSUME NEW c \in Config, NEW o, NEW up, NEW d \in FellBack(c, o, up)
  PROVE  d.hosts = c.hosts /\ d.host = c.host /\ d.port = c.port
<1>1. CASE d = c
  BY <1>1
<1>2. CASE d # c
  <2>1. PICK m \in ListModels(o, up) : d = [c EXCEPT !["model"] = m]
    BY <1>2 DEF FellBack
  <2>2. m \in Names
    BY <2>1, ListedType
  <2> QED
    BY <2>1, <2>2, WithType DEF Keys
<1> QED
  BY <1>1, <1>2

\* main asks the places its settings name, and picks among what they list.
LEMMA StartKeepsRegistry ==
  ASSUME IInv, RegistryHere, NEW s \in Sessions, StartRepl(s)
  PROVE  RegistryHere'
<1>1. /\ pc = [t \in Sessions |-> pc[t]] /\ cfg = [t \in Sessions |-> cfg[t]]
      /\ reg = [t \in Sessions |-> reg[t]] /\ cfg[s] \in Config
  BY DEF IInv, TypeOK
<1>2. PICK up \in SUBSET Servers :
        LET r == IF cfg[s].provider = "mock" THEN {} ELSE ScanAll(cfg[s], up)
        IN /\ reg' = [reg EXCEPT ![s] = r]
           /\ \E c \in AutoPicked(cfg[s], r) : \E o \in Built(c, up) : \E d \in FellBack(c, o, up) :
                cfg' = [cfg EXCEPT ![s] = d] /\ object' = [object EXCEPT ![s] = o]
  BY DEF StartRepl
<1> DEFINE r == IF cfg[s].provider = "mock" THEN {} ELSE ScanAll(cfg[s], up)
<1>3. r \in SUBSET DOMAIN Catalog
  BY DEF ScanAll
<1>4. HostsOf(cfg[s]) = <<>> => \A i \in r : Catalog[i].at \in {Cloud, <<cfg[s].host, cfg[s].port>>}
  BY DEF ScanAll
<1>5. /\ reg' = [reg EXCEPT ![s] = r]
      /\ \E c \in AutoPicked(cfg[s], r) : \E o \in Built(c, up) : \E d \in FellBack(c, o, up) :
           cfg' = [cfg EXCEPT ![s] = d] /\ object' = [object EXCEPT ![s] = o]
  BY <1>2
<1> HIDE DEF r
<1>6. PICK c \in AutoPicked(cfg[s], r) : \E o \in Built(c, up) : \E d \in FellBack(c, o, up) :
        cfg' = [cfg EXCEPT ![s] = d] /\ object' = [object EXCEPT ![s] = o]
  BY <1>5
<1>7. PICK o \in Built(c, up) : \E d \in FellBack(c, o, up) :
        cfg' = [cfg EXCEPT ![s] = d] /\ object' = [object EXCEPT ![s] = o]
  BY <1>6
<1>8. PICK d \in FellBack(c, o, up) :
        cfg' = [cfg EXCEPT ![s] = d] /\ object' = [object EXCEPT ![s] = o]
  BY <1>7
<1>9. /\ c \in Config /\ c.hosts = cfg[s].hosts
      /\ (\A i \in r : Catalog[i].at \in {Cloud, <<cfg[s].host, cfg[s].port>>}) =>
           c.host = cfg[s].host /\ c.port = cfg[s].port
  BY <1>1, <1>3, PickedHost
<1>10. d.hosts = c.hosts /\ d.host = c.host /\ d.port = c.port
  BY <1>9, FellBackHost
<1>11. /\ cfg'[s] = d /\ reg'[s] = r
       /\ \A t \in Sessions \ {s} : pc'[t] = pc[t] /\ cfg'[t] = cfg[t] /\ reg'[t] = reg[t]
  BY <1>1, <1>5, <1>8 DEF StartRepl
<1>12. HostsOf(d) = HostsOf(cfg[s])
  BY <1>9, <1>10 DEF HostsOf
<1>13. HostsOf(d) = <<>> => \A i \in r : Catalog[i].at \in {Cloud, <<d.host, d.port>>}
  BY <1>4, <1>9, <1>10, <1>12
<1>14. Here(s)'
  BY <1>11, <1>13 DEF Here
<1> QED
  BY <1>11, <1>14, OneRegistry

LEMMA RegistryStep == IInv /\ RegistryHere /\ [Next]_vars => RegistryHere'
<1> SUFFICES ASSUME IInv, RegistryHere, [Next]_vars
             PROVE  RegistryHere'
  OBVIOUS
<1>1. /\ pc = [t \in Sessions |-> pc[t]] /\ cfg = [t \in Sessions |-> cfg[t]]
      /\ reg = [t \in Sessions |-> reg[t]] /\ \A t \in Sessions : cfg[t] \in Config
  BY DEF IInv, TypeOK
<1>2. CASE UNCHANGED <<pc, cfg, reg>>
  BY <1>2 DEF RegistryHere
<1>3. ASSUME NEW s \in Sessions, Act(s)
      PROVE  RegistryHere'
  <2>1. CASE LoadConfig(s)
    <3>1. /\ pc' = [pc EXCEPT ![s] = "start"] /\ reg' = reg
          /\ \E c : cfg' = [cfg EXCEPT ![s] = c]
      BY <2>1 DEF LoadConfig
    <3>2. /\ pc'[s] = "start"
          /\ \A t \in Sessions \ {s} : pc'[t] = pc[t] /\ cfg'[t] = cfg[t] /\ reg'[t] = reg[t]
      BY <1>1, <3>1
    <3>3. Here(s)'
      BY <3>2 DEF Here
    <3> QED
      BY <3>2, <3>3, OneRegistry
  <2>2. CASE StartRepl(s)
    BY <2>2, StartKeepsRegistry
  <2>3. CASE End(s)
    <3>1. /\ pc'[s] = "off"
          /\ \A t \in Sessions \ {s} : pc'[t] = pc[t] /\ cfg'[t] = cfg[t] /\ reg'[t] = reg[t]
      BY <1>1, <2>3 DEF End
    <3>2. Here(s)'
      BY <3>1 DEF Here
    <3> QED
      BY <3>1, <3>2, OneRegistry
  <2>4. CASE ProviderCommand(s) \/ Host(s) \/ HostMenu(s) \/ Use(s) \/ ModelByName(s)
    BY <2>4, SwitchKeepsRegistry
  <2>8. CASE ModelByNumber(s)
    BY <2>8, NumberKeepsRegistry
  <2>5. CASE ModelMenu(s)
    <3>1. reg[s] = {} /\ pc' = pc /\ reg' = reg /\ \E c : cfg' = [cfg EXCEPT ![s] = c]
      BY <2>5 DEF ModelMenu
    <3>2. \A t \in Sessions \ {s} : pc'[t] = pc[t] /\ cfg'[t] = cfg[t] /\ reg'[t] = reg[t]
      BY <1>1, <3>1
    <3>3. Here(s)'
      BY <3>1 DEF Here
    <3> QED
      BY <3>2, <3>3, OneRegistry
  <2>6. CASE Scan(s)
    <3> DEFINE c == [cfg[s] EXCEPT !["hosts"] = "found"]
    <3>1. pc' = pc /\ reg' = reg /\ cfg' = [cfg EXCEPT ![s] = c]
      BY <2>6 DEF Scan
    <3>2. c.hosts = "found"
      BY <1>1 DEF Config, Keys
    <3> HIDE DEF c
    <3>3. /\ cfg'[s] = c
          /\ \A t \in Sessions \ {s} : pc'[t] = pc[t] /\ cfg'[t] = cfg[t] /\ reg'[t] = reg[t]
      BY <1>1, <3>1
    <3>4. HostsOf(c) # <<>>
      BY <3>2, SettingsAssumption DEF HostsOf
    <3>5. Here(s)'
      BY <3>3, <3>4 DEF Here
    <3> QED
      BY <3>3, <3>5, OneRegistry
  <2>7. CASE ReadFile(s) \/ CutFile(s) \/ WriteFile(s) \/ OpenFails(s)
    BY <2>7, <1>2 DEF ReadFile, CutFile, WriteFile, OpenFails, ses
  <2> QED
    BY <1>3, <2>1, <2>2, <2>3, <2>4, <2>5, <2>6, <2>7, <2>8 DEF Act, StartFails, Quit, Kill
<1> QED
  BY <1>2, <1>3 DEF Next, vars, ses

\* Of the steps at the prompt, only a switch or the end changes a session's provider.
LEMMA WhoSwitches ==
  ASSUME IInv, RegistryHere, NEW t \in Sessions, Act(t), NEW s \in Sessions, pc[s] = "prompt", object'[s] # object[s]
  PROVE  \/ object'[s] = NoObject
         \/ \E c, keys, K : Chosen(t, c) /\ Become(t, c, keys, K)
<1>1. object = [u \in Sessions |-> object[u]]
  BY DEF IInv, TypeOK
<1>2. CASE End(t)
  BY <1>1, <1>2 DEF End
<1>3. CASE StartRepl(t)
  <2>1. pc[t] = "start" /\ \E o : object' = [object EXCEPT ![t] = o]
    BY <1>3 DEF StartRepl
  <2> QED
    BY <1>1, <2>1
<1>4. CASE LoadConfig(t) \/ ModelMenu(t) \/ Scan(t)
  BY <1>4 DEF LoadConfig, ModelMenu, Scan
<1>5. CASE ReadFile(t) \/ CutFile(t) \/ WriteFile(t) \/ OpenFails(t)
  BY <1>5 DEF ReadFile, CutFile, WriteFile, OpenFails, ses
<1>6. CASE ProviderCommand(t) \/ Host(t) \/ HostMenu(t) \/ Use(t) \/ ModelByName(t)
  BY <1>6, SwitchIsChoice
<1>7. CASE ModelByNumber(t)
  <2>1. PICK c : Chosen(t, c) /\ (Swallowed(t, c) \/ Become(t, c, <<>>, {}))
    BY <1>7, NumberIsChoice
  <2>2. ~Swallowed(t, c)
    BY DEF Swallowed
  <2> QED
    BY <2>1, <2>2
<1> QED
  BY <1>2, <1>3, <1>4, <1>5, <1>6, <1>7 DEF Act, StartFails, Quit, Kill

LEMMA BuiltHow ==
  ASSUME NEW c, NEW up, NEW o \in Built(c, up), o.kind \in {"ollama", "multi"}
  PROVE  /\ KindOf(c.provider) = "ollama" /\ o.model = c.model
         /\ o.kind = "ollama" => o.at = <<c.host, c.port>> /\ ~(Len(HostsOf(c)) > 1)
<1>1. CASE KindOf(c.provider) # "ollama"
  <2>1. o.kind = KindOf(c.provider)
    BY <1>1 DEF Built
  <2>2. KindOf(c.provider) \in Kinds \cup {"none"}
    BY KindType
  <2> QED
    BY <1>1, <2>1, <2>2 DEF Kinds
<1>2. CASE KindOf(c.provider) = "ollama" /\ Len(HostsOf(c)) > 1
  BY <1>2 DEF Built
<1>3. CASE KindOf(c.provider) = "ollama" /\ ~(Len(HostsOf(c)) > 1)
  BY <1>3 DEF Built
<1> QED
  BY <1>1, <1>2, <1>3

\* A list of hosts that is neither one nor many is empty.
LEMMA NoHosts ==
  ASSUME NEW c, Len(HostsOf(c)) # 1, ~(Len(HostsOf(c)) > 1)
  PROVE  HostsOf(c) = <<>>
<1>1. CASE c.hosts = "found"
  <2>1. HostsOf(c) = Found
    BY <1>1 DEF HostsOf
  <2>2. Found \in Seq(Places) /\ Found # <<>>
    BY SettingsAssumption
  <2>3. Len(Found) \in Nat /\ Len(Found) # 0
    BY <2>2
  <2>4. Len(Found) # 1 /\ ~(Len(Found) > 1)
    BY <2>1
  <2>5. \A n \in Nat : n # 0 /\ n # 1 => n > 1
    OBVIOUS
  <2> QED
    BY <2>3, <2>4, <2>5, Zenon
<1>2. CASE c.hosts # "found"
  BY <1>2 DEF HostsOf
<1> QED
  BY <1>1, <1>2

\* The models of a switch to Ollama, session by session.
Finds(s) ==
  (/\ pc[s] = "prompt" /\ object'[s] # object[s] /\ object'[s].kind \in {"ollama", "multi"}
   /\ ProviderEntries(s, "ollama") # {} /\ Len(HostsOf(cfg'[s])) # 1) =>
    \E i \in ProviderEntries(s, "ollama") :
      /\ Catalog[i].model = object'[s].model
      /\ object'[s].kind = "ollama" => Catalog[i].at = object'[s].at

LEMMA FindsStep ==
  ASSUME IInv, RegistryHere, NEW t \in Sessions, Act(t), NEW s \in Sessions
  PROVE  Finds(s)
<1> SUFFICES ASSUME pc[s] = "prompt", object'[s] # object[s], object'[s].kind \in {"ollama", "multi"},
                    ProviderEntries(s, "ollama") # {}, Len(HostsOf(cfg'[s])) # 1
             PROVE  \E i \in ProviderEntries(s, "ollama") :
                      /\ Catalog[i].model = object'[s].model
                      /\ object'[s].kind = "ollama" => Catalog[i].at = object'[s].at
  BY DEF Finds
<1>1. object'[s] # NoObject
  BY DEF NoObject
<1>2. \E c, keys, K : Chosen(t, c) /\ Become(t, c, keys, K)
  BY <1>1, WhoSwitches
<1>3. PICK c, keys, K : Chosen(t, c) /\ Become(t, c, keys, K)
  BY <1>2
<1>4. s = t
  BY <1>3, BecomeHow
<1>5. cfg'[s] = c /\ \E up : object'[s] \in Built(c, up)
  BY <1>1, <1>3, <1>4, BecomeHow
<1>6. PICK up : object'[s] \in Built(c, up)
  BY <1>5
<1>7. /\ KindOf(c.provider) = "ollama" /\ object'[s].model = c.model
      /\ object'[s].kind = "ollama" => object'[s].at = <<c.host, c.port>> /\ ~(Len(HostsOf(c)) > 1)
  BY <1>6, BuiltHow
<1>8. HasModel(s, c)
  BY <1>3, <1>4, <1>7 DEF Chosen
<1>9. ASSUME object'[s].kind = "ollama"
      PROVE  HostsOf(c) = <<>>
  BY <1>5, <1>7, <1>9, NoHosts
<1>10. PICK j \in ProviderEntries(s, "ollama") :
         /\ Catalog[j].model = c.model
         /\ HostsOf(c) = <<>> => Catalog[j].at = <<c.host, c.port>>
  BY <1>8 DEF HasModel
<1> QED
  BY <1>7, <1>9, <1>10

-----------------------------------------------------------------------------
(* Theorems. *)

\* The inductive invariant holds in every reachable state.
THEOREM InvAlways == Spec => []IInv
BY InvInit, InvStep, PTL DEF Spec

\* load_config, the commands and the saves keep every session, the file and what is
\* queued for it in shape.
THEOREM TypeCorrect == Spec => []TypeOK
<1>1. IInv => TypeOK
  BY DEF IInv
<1> QED
  BY <1>1, InvAlways, PTL

\* However saves of sessions overlap and whenever one is killed, .env names no provider
\* that create_provider would refuse at the next start.
THEOREM SavedProviderStartsAlways == Spec => []SavedProviderStarts
<1>1. IInv => SavedProviderStarts
  BY DEF IInv
<1> QED
  BY <1>1, InvAlways, PTL

\* After any sequence of commands the provider a session asks is of the kind its
\* settings name, or they name a provider of the registry that create_provider rejects.
THEOREM KindAgreesAlways == Spec => []KindAgrees
<1>1. IInv => KindAgrees
  BY DEF IInv
<1> QED
  BY <1>1, InvAlways, PTL

\* Whatever saves of sessions follow one another, .env holds what the user was told it
\* does once they are done, as long as none was killed, failed or ran into another.
THEOREM ToldIsSavedAlways == Spec => []ToldIsSaved
<1>1. IInv /\ SavesPending => ToldIsSaved
  <2> SUFFICES ASSUME IInv, SavesPending, ~torn, \A s \in Sessions : queue[s] = <<>>, NEW k \in Keys
               PROVE  ValueIn(file, k) = told[k]
    BY DEF ToldIsSaved
  <2>1. AtRest /\ \A s \in Sessions : k \notin KeysOf(queue[s])
    BY DEF IInv, TypeOK, AtRest, KeysOf
  <2> QED
    BY <2>1 DEF SavesPending
<1>2. Spec => []SavesPending
  BY PendingInit, PendingStep, InvAlways, PTL DEF Spec
<1> QED
  BY <1>1, <1>2, InvAlways, PTL

\* A switch to Ollama asks for a model that the registry has on the host it will ask, or,
\* over several hosts, on one of them.
THEOREM SwitchFindsModelAlways == Spec => SwitchFindsModel
<1>1. Init => RegistryHere
  BY DEF Init, RegistryHere
<1>2. Spec => []RegistryHere
  BY <1>1, RegistryStep, InvAlways, PTL DEF Spec
<1>3. IInv /\ RegistryHere /\ [Next]_vars => [\A s \in Sessions : Finds(s)]_vars
  BY FindsStep DEF Next
<1>4. Spec => [][\A s \in Sessions : Finds(s)]_vars
  BY <1>2, <1>3, InvAlways, PTL DEF Spec
<1> QED
  BY <1>4 DEF SwitchFindsModel, Finds

=============================================================================
