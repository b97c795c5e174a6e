---------------------------- MODULE Sync_proofs ----------------------------
(***************************************************************************)
(* Proofs about Sync, for every number of runs, every reply and every      *)
(* arrangement of links.                                                   *)
(***************************************************************************)
EXTENDS Sync, SequenceTheorems, FiniteSetTheorems, FunctionTheorems, TLAPS

-----------------------------------------------------------------------------
(* Annotations and files. *)

\* What the parsers return is a sequence of annotations.
LEMMA OrderedType ==
  ASSUME NEW a \in Replies, NEW c
  PROVE  Ordered(a, c) \in Seq(Tags)
<1>1. \A k \in Kinds : a[k] \in Seq(Tags)
  BY SyncAssumption
<1>2. /\ a["read"] \in Seq(Tags) /\ a["exec"] \in Seq(Tags) /\ a["write"] \in Seq(Tags)
      /\ a["str_replace"] \in Seq(Tags) /\ a["add_line"] \in Seq(Tags)
      /\ a["delete_line"] \in Seq(Tags)
  BY <1>1 DEF Kinds
<1>3. \A s \in Seq(Tags) : \A cap : Let(cap, s, c) \in Seq(Tags)
  BY DEF Let
<1>4. a["write"] \o a["str_replace"] \o a["add_line"] \o a["delete_line"] \in Seq(Tags)
  BY <1>2
<1>5. /\ Let("read", a["read"], c) \in Seq(Tags)
      /\ Let("write", a["write"] \o a["str_replace"] \o a["add_line"] \o a["delete_line"], c)
           \in Seq(Tags)
  BY <1>2, <1>3, <1>4
<1> QED
  BY <1>2, <1>5 DEF Ordered

LEMMA CutType ==
  ASSUME NEW S, NEW f \in Seq(S), NEW i \in 1 .. Len(f) + 1, NEW n \in 0 .. Len(f)
  PROVE  /\ SubSeq(f, i, n) \in Seq(S)
         /\ Len(SubSeq(f, i, n)) = IF i <= n THEN n - i + 1 ELSE 0
         /\ \A j \in 1 .. Len(SubSeq(f, i, n)) :
              i + j - 1 \in 1 .. Len(f) /\ SubSeq(f, i, n)[j] = f[i + j - 1]
<1>1. \A k \in i .. n : f[k] \in S
  OBVIOUS
<1> QED
  BY <1>1, SubSeqProperties

\* An edit makes lines of lines.
LEMMA EditedType ==
  ASSUME NEW t \in Tags, t.kind \in Edits, NEW f, f \in Seq(Texts) \/ t.kind = "write",
         NEW g \in Edited(t, f)
  PROVE  g \in Seq(Texts)
<1>1. t.new \in Texts /\ t.line \in Nat
  BY DEF Tags
<1>2. CASE t.kind = "write"
  <2>1. g = <<t.new>>
    BY <1>2 DEF Edited
  <2> QED
    BY <1>1, <2>1
<1>3. CASE t.kind = "str_replace"
  <2>1. PICK i \in First({j \in DOMAIN f : f[j] = t.old}) : g = [f EXCEPT ![i] = t.new]
    BY <1>3 DEF Edited
  <2>2. f \in Seq(Texts) /\ i \in DOMAIN f
    BY <1>3, <2>1 DEF First
  <2> QED
    BY <1>1, <2>1, <2>2
<1>4. CASE t.kind = "add_line"
  <2> DEFINE i == IF t.line = 0 THEN 0 ELSE Least(t.line - 1, Len(f))
  <2>1. g = SubSeq(f, 1, i) \o <<t.new>> \o SubSeq(f, i + 1, Len(f))
    BY <1>4 DEF Edited
  <2>2. f \in Seq(Texts) /\ Len(f) \in Nat /\ i \in 0 .. Len(f)
    BY <1>1, <1>4 DEF Least
  <2> HIDE DEF i
  <2>3. SubSeq(f, 1, i) \in Seq(Texts) /\ SubSeq(f, i + 1, Len(f)) \in Seq(Texts)
    BY <2>2, CutType
  <2> QED
    BY <1>1, <2>1, <2>3
<1>5. CASE t.kind = "delete_line"
  <2>1. PICK i \in First({j \in DOMAIN f : f[j] = t.old}) :
          g = SubSeq(f, 1, i - 1) \o SubSeq(f, i + 1, Len(f))
    BY <1>5 DEF Edited
  <2>2. f \in Seq(Texts) /\ i \in 1 .. Len(f)
    BY <1>5, <2>1 DEF First
  <2>3. SubSeq(f, 1, i - 1) \in Seq(Texts) /\ SubSeq(f, i + 1, Len(f)) \in Seq(Texts)
    BY <2>2, CutType
  <2> QED
    BY <2>1, <2>3
<1> QED
  BY <1>2, <1>3, <1>4, <1>5 DEF Edits

LEMMA OverType ==
  ASSUME NEW f \in Seq(Texts) \cup {Absent}, NEW g \in Seq(Texts)
  PROVE  Over(f, g) \in Seq(Texts)
<1>1. CASE f = Absent
  BY <1>1 DEF Over
<1>2. CASE f # Absent
  <2>1. f \in Seq(Texts) /\ Over(f, g) = g \o SubSeq(f, Len(g) + 1, Len(f))
    BY <1>2 DEF Over
  <2>2. CASE Len(g) + 1 <= Len(f)
    BY <2>1, <2>2, CutType
  <2>3. CASE ~(Len(g) + 1 <= Len(f))
    <3>1. SubSeq(f, Len(g) + 1, Len(f)) = <<>>
      BY <2>1, <2>3
    <3> QED
      BY <2>1, <3>1
  <2> QED
    BY <2>2, <2>3
<1> QED
  BY <1>1, <1>2

-----------------------------------------------------------------------------
(* Conversations. *)

Begins(m, n) == \E i \in 0 .. Len(n) : m = SubSeq(n, 1, i)

LEMMA AppendBegins ==
  ASSUME NEW m \in Seq(Messages), NEW n \in Seq(Messages), NEW x \in Seq(Messages), Begins(m, n)
  PROVE  Begins(m, n \o x)
<1>1. PICK i \in 0 .. Len(n) : m = SubSeq(n, 1, i)
  BY DEF Begins
<1>2. i \in 0 .. Len(n \o x) /\ SubSeq(n \o x, 1, i) = SubSeq(n, 1, i)
  <2>1. Len(n \o x) = Len(n) + Len(x) /\ n \o x \in Seq(Messages) /\ i \in 0 .. Len(n \o x)
    <3>1. Len(n \o x) = Len(n) + Len(x) /\ n \o x \in Seq(Messages)
      OBVIOUS
    <3>2. Len(n) \in Nat /\ Len(x) \in Nat
      OBVIOUS
    <3> QED
      BY <3>1, <3>2
  <2>2. /\ SubSeq(n, 1, i) \in Seq(Messages) /\ Len(SubSeq(n, 1, i)) = i
        /\ \A j \in 1 .. i : SubSeq(n, 1, i)[j] = n[j]
    BY CutType
  <2>3. /\ SubSeq(n \o x, 1, i) \in Seq(Messages) /\ Len(SubSeq(n \o x, 1, i)) = i
        /\ \A j \in 1 .. i : SubSeq(n \o x, 1, i)[j] = (n \o x)[j]
    BY <2>1, CutType
  <2>4. ASSUME NEW j \in 1 .. i PROVE (n \o x)[j] = n[j]
    <3>1. j \in 1 .. Len(n)
      OBVIOUS
    <3> QED
      BY <3>1
  <2> QED
    BY <2>1, <2>2, <2>3, <2>4, SeqEqual
<1> QED
  BY <1>1, <1>2 DEF Begins

LEMMA AllBegins ==
  ASSUME NEW m \in Seq(Messages)
  PROVE  Begins(m, m)
<1>1. /\ SubSeq(m, 1, Len(m)) \in Seq(Messages) /\ Len(SubSeq(m, 1, Len(m))) = Len(m)
      /\ \A j \in 1 .. Len(m) : SubSeq(m, 1, Len(m))[j] = m[j]
  BY CutType
<1>2. SubSeq(m, 1, Len(m)) = m
  BY <1>1, SeqEqual
<1>3. Len(m) \in 0 .. Len(m)
  OBVIOUS
<1> QED
  BY <1>2, <1>3 DEF Begins

\* A message of the user or the model continues a conversation.
LEMMA AddKeeps ==
  ASSUME NEW m \in Seq(Messages), m # <<>>, Prompted(m), NEW x \in Messages, x.role # "system"
  PROVE  /\ Append(m, x) \in Seq(Messages) /\ Append(m, x) # <<>> /\ Prompted(Append(m, x))
         /\ Append(m, x)[Len(Append(m, x))] = x
<1>1. /\ Append(m, x) \in Seq(Messages) /\ Len(Append(m, x)) = Len(m) + 1 /\ Len(m) >= 1
      /\ \A i \in 1 .. Len(m) : Append(m, x)[i] = m[i]
      /\ Append(m, x)[Len(m) + 1] = x
  OBVIOUS
<1>2. DOMAIN Append(m, x) = 1 .. Len(m) + 1 /\ DOMAIN m = 1 .. Len(m)
  BY <1>1
<1> QED
  BY <1>1, <1>2 DEF Prompted

\* What a save leaves in the file begins with what was saved, and is a conversation.
LEMMA WrittenType ==
  ASSUME NEW m \in Seq(Messages), Prompted(m),
         session \in Seq(Messages), Prompted(session), NEW f \in Written(m)
  PROVE  f \in Seq(Messages) /\ Prompted(f) /\ \E x \in Seq(Messages) : f = m \o x
<1> SUFFICES ASSUME m # <<>>
             PROVE  f \in Seq(Messages) /\ Prompted(f) /\ \E x \in Seq(Messages) : f = m \o x
  <2>1. CASE m = <<>>
    <3>1. f = session /\ session = m \o session
      BY <2>1 DEF Written
    <3> QED
      BY <3>1
  <2> QED
    BY <2>1
<1>1. PICK i \in Least(Len(session), 1) + 1 .. Len(session) + 1 :
        f = m \o SubSeq(session, i, Len(session))
  BY DEF Written
<1> DEFINE x == SubSeq(session, i, Len(session))
<1>2. i \in 1 .. Len(session) + 1 /\ (i = 1 => Len(session) = 0)
  BY DEF Least
<1>3. /\ x \in Seq(Messages)
      /\ \A j \in 1 .. Len(x) : i + j - 1 \in 1 .. Len(session) /\ x[j] = session[i + j - 1]
  BY <1>2, CutType
<1>4. \A j \in 1 .. Len(x) : x[j].role # "system"
  <2> SUFFICES ASSUME NEW j \in 1 .. Len(x)
               PROVE  x[j].role # "system"
    OBVIOUS
  <2>1. x[j] = session[i + j - 1] /\ i + j - 1 \in DOMAIN session
    BY <1>3
  <2>2. i + j - 1 # 1
    BY <1>2, <2>1
  <2> QED
    BY <2>1, <2>2 DEF Prompted
<1> HIDE DEF x
<1>5. Prompted(m \o x)
  <2>1. /\ DOMAIN (m \o x) = 1 .. Len(m) + Len(x) /\ Len(m) >= 1
        /\ \A j \in 1 .. Len(m) : (m \o x)[j] = m[j]
        /\ \A j \in Len(m) + 1 .. Len(m) + Len(x) : (m \o x)[j] = x[j - Len(m)]
    BY <1>3
  <2> SUFFICES ASSUME NEW j \in 1 .. Len(m) + Len(x)
               PROVE  (m \o x)[j].role = "system" <=> j = 1
    BY <2>1 DEF Prompted
  <2>2. CASE j <= Len(m)
    BY <2>1, <2>2 DEF Prompted
  <2>3. CASE j > Len(m)
    <3>1. (m \o x)[j] = x[j - Len(m)] /\ j - Len(m) \in 1 .. Len(x)
      BY <2>1, <2>3, <1>3
    <3> QED
      BY <3>1, <1>4, <2>1, <2>3
  <2> QED
    BY <2>2, <2>3, <1>3
<1>6. f = m \o x
  BY <1>1 DEF x
<1>7. f \in Seq(Messages)
  BY <1>3, <1>6
<1>8. Prompted(f)
  BY <1>5, <1>6
<1>9. \E y \in Seq(Messages) : f = m \o y
  BY <1>3, <1>6
<1> QED
  BY <1>7, <1>8, <1>9

-----------------------------------------------------------------------------
(* The invariant. *)

Outcomes == {"file", "output", "error"}
PCs == {"off", "ask", "work", "open", "put", "cut", "command", "save", "saving"}

\* What holds of one run.  Between check and write its file is in the sandbox, or the
\* path is loose; its conversation continues the session it has loaded.
Sound(r) ==
  /\ pc[r] \in PCs /\ caps[r] \in SUBSET {"read", "write", "exec"} /\ keep[r] \in BOOLEAN
  /\ msgs[r] \in Seq(Messages) /\ rounds[r] \in 0 .. Rounds
  /\ todo[r] \in Seq(Tags) /\ followup[r] \in Seq(Outcomes)
  /\ place[r] \in Places \cup {Absent} /\ held[r] \in Seq(Texts)
  /\ child[r] \in {"none", "up", "late", "over", "exited"}
  /\ owed[r] \in Int /\ loose[r] \in BOOLEAN /\ stale[r] \in BOOLEAN
  /\ pc[r] \in {"open", "put", "cut", "command"} => todo[r] # <<>>
  /\ pc[r] = "command" <=> child[r] # "none"
  /\ pc[r] \in {"open", "put", "cut"} => Now(r).kind # "exec"
  /\ pc[r] = "cut" => place[r] \in Places
  /\ pc[r] # "off" => msgs[r] # <<>> /\ Prompted(msgs[r])
  /\ pc[r] = "ask" => msgs[r][Len(msgs[r])].role = "user"
  /\ pc[r] \in {"open", "put"} => at[Now(r).path] \in Inside \/ loose[r]
  /\ pc[r] = "cut" => place[r] \in Inside \/ loose[r]
  /\ pc[r] = "saving" => keep[r]
  /\ pc[r] # "off" /\ keep[r] /\ ~stale[r] => Begins(kept, msgs[r])

AllSound == \A r \in Runs : Sound(r)

Functions ==
  /\ pc = [r \in Runs |-> pc[r]] /\ caps = [r \in Runs |-> caps[r]]
  /\ keep = [r \in Runs |-> keep[r]] /\ msgs = [r \in Runs |-> msgs[r]]
  /\ rounds = [r \in Runs |-> rounds[r]] /\ todo = [r \in Runs |-> todo[r]]
  /\ followup = [r \in Runs |-> followup[r]] /\ place = [r \in Runs |-> place[r]]
  /\ held = [r \in Runs |-> held[r]] /\ child = [r \in Runs |-> child[r]]
  /\ owed = [r \in Runs |-> owed[r]] /\ loose = [r \in Runs |-> loose[r]]
  /\ stale = [r \in Runs |-> stale[r]]

\* The session holds what was saved last, unless it is being saved.
Shared ==
  /\ at \in [Paths -> Places] /\ disk \in [Places -> Seq(Texts) \cup {Absent}]
  /\ session \in Seq(Messages) /\ kept \in Seq(Messages) /\ Prompted(session)
  /\ session = kept \/ \E r \in Runs : pc[r] = "saving"
  /\ starts \in 0 .. MaxStarts /\ moves \in 0 .. MaxMoves

IInv == Functions /\ Shared /\ AllSound

LEMMA InvImplies == IInv => TypeOK /\ OnePrompt
<1> SUFFICES ASSUME IInv
             PROVE  TypeOK /\ OnePrompt
  OBVIOUS
<1> USE DEF IInv, Functions, AllSound, Sound
<1>1. /\ pc \in [Runs -> PCs] /\ caps \in [Runs -> SUBSET {"read", "write", "exec"}]
      /\ keep \in [Runs -> BOOLEAN] /\ msgs \in [Runs -> Seq(Messages)]
      /\ rounds \in [Runs -> 0 .. Rounds]
  OBVIOUS
<1>2. /\ todo \in [Runs -> Seq(Tags)] /\ followup \in [Runs -> Seq(Outcomes)]
      /\ place \in [Runs -> Places \cup {Absent}] /\ held \in [Runs -> Seq(Texts)]
      /\ child \in [Runs -> {"none", "up", "late", "over", "exited"}]
  OBVIOUS
<1>3. /\ owed \in [Runs -> Int] /\ loose \in [Runs -> BOOLEAN] /\ stale \in [Runs -> BOOLEAN]
  OBVIOUS
<1>4. \A r \in Runs :
        /\ pc[r] \in {"open", "put", "cut", "command"} => todo[r] # <<>>
        /\ pc[r] = "command" <=> child[r] # "none"
        /\ pc[r] \in {"open", "put", "cut"} => Now(r).kind # "exec"
        /\ pc[r] = "cut" => place[r] \in Places
  OBVIOUS
<1>5. OnePrompt
  BY DEF Shared, OnePrompt
<1> HIDE DEF IInv, Functions, AllSound, Sound
<1>6. Shared
  BY DEF IInv
<1>7. TypeOK
  BY <1>1, <1>2, <1>3, <1>4, <1>6 DEF TypeOK, Shared, PCs, Outcomes
<1> QED
  BY <1>5, <1>7

LEMMA InvInit == Init => IInv
<1> SUFFICES ASSUME Init
             PROVE  IInv
  OBVIOUS
<1>1. Functions
  BY DEF Init, Functions
<1>2. Shared
  BY SyncAssumption DEF Init, Shared, Prompted
<1>3. AllSound
  BY SyncAssumption DEF Init, AllSound, Sound, PCs
<1> QED
  BY <1>1, <1>2, <1>3 DEF IInv

\* The other runs are where they were.
Frame(r) ==
  \A t \in Runs \ {r} :
    /\ pc'[t] = pc[t] /\ caps'[t] = caps[t] /\ keep'[t] = keep[t] /\ msgs'[t] = msgs[t]
    /\ rounds'[t] = rounds[t] /\ todo'[t] = todo[t] /\ followup'[t] = followup[t]
    /\ place'[t] = place[t] /\ held'[t] = held[t] /\ child'[t] = child[t]
    /\ owed'[t] = owed[t] /\ loose'[t] = loose[t]

\* Either nobody saved, or all other runs know of it.
SessionFrame(r) ==
  \/ kept' = kept /\ \A t \in Runs \ {r} : stale'[t] = stale[t]
  \/ \A t \in Runs \ {r} : stale'[t] \in BOOLEAN /\ (pc[t] # "off" => stale'[t])

LEMMA OneRun ==
  ASSUME IInv, NEW r \in Runs, Functions', Shared', Sound(r)', Frame(r), SessionFrame(r), at' = at
  PROVE  IInv'
<1>1. ASSUME NEW t \in Runs, t # r
      PROVE  Sound(t)'
  <2>1. Sound(t)
    BY DEF IInv, AllSound
  <2>2. /\ pc'[t] = pc[t] /\ caps'[t] = caps[t] /\ keep'[t] = keep[t] /\ msgs'[t] = msgs[t]
        /\ rounds'[t] = rounds[t] /\ todo'[t] = todo[t] /\ followup'[t] = followup[t]
        /\ place'[t] = place[t] /\ held'[t] = held[t] /\ child'[t] = child[t]
        /\ owed'[t] = owed[t] /\ loose'[t] = loose[t]
    BY <1>1 DEF Frame
  <2>3. \/ kept' = kept /\ stale'[t] = stale[t]
        \/ stale'[t] \in BOOLEAN /\ (pc[t] # "off" => stale'[t])
    BY <1>1 DEF SessionFrame
  <2>4. Now(t)' = Now(t)
    BY <2>2 DEF Now
  <2>5. pc'[t] # "off" /\ keep'[t] /\ ~stale'[t] => Begins(kept', msgs'[t])
    <3>1. pc[t] # "off" /\ keep[t] /\ ~stale[t] => Begins(kept, msgs[t])
      BY <2>1 DEF Sound
    <3> QED
      BY <2>2, <2>3, <3>1
  <2>6. stale'[t] \in BOOLEAN
    BY <2>1, <2>3 DEF Sound
  <2> QED
    BY <2>1, <2>2, <2>4, <2>5, <2>6 DEF Sound
<1>2. AllSound'
  BY <1>1 DEF AllSound
<1> QED
  BY <1>2 DEF IInv

-----------------------------------------------------------------------------
(* One lemma per action, or per group of actions that do the same to a run. *)

\* Nothing of the session, the links or the counters changes.
Quiet == UNCHANGED <<at, session, starts, moves, kept, stale>>

LEMMA DiskQuiet ==
  ASSUME IInv, NEW r \in Runs, Quiet, disk' \in [Places -> Seq(Texts) \cup {Absent}],
         Frame(r), pc[r] # "saving"
  PROVE  /\ Shared' /\ SessionFrame(r) /\ at' = at
         /\ kept' = kept /\ stale' = stale /\ stale' = [t \in Runs |-> stale'[t]]
<1>1. Shared
  BY DEF IInv
<1>2. (session = kept \/ \E t \in Runs : pc[t] = "saving")'
  <2>1. CASE session = kept
    BY <2>1 DEF Quiet
  <2>2. ASSUME NEW t \in Runs, pc[t] = "saving"
        PROVE  pc'[t] = "saving"
    BY <2>2 DEF Frame
  <2> QED
    BY <1>1, <2>1, <2>2 DEF Shared
<1>3. Shared'
  BY <1>1, <1>2 DEF Shared, Quiet
<1>4. stale' = [t \in Runs |-> stale'[t]]
  BY DEF IInv, Functions, Quiet
<1> QED
  BY <1>3, <1>4 DEF SessionFrame, Quiet

\* The annotation at hand is dealt with.
LEMMA DoneKeeps ==
  ASSUME IInv, NEW r \in Runs, pc[r] \in {"work", "open", "put", "cut", "command"},
         todo[r] # <<>>, Done(r), Quiet,
         UNCHANGED <<caps, keep, msgs, rounds>>,
         UNCHANGED followup \/ \E w \in Outcomes : Tell(r, w),
         UNCHANGED owed \/ Made(r),
         child' = [child EXCEPT ![r] = "none"] \/ (UNCHANGED child /\ pc[r] # "command"),
         disk' \in [Places -> Seq(Texts) \cup {Absent}]
  PROVE  IInv'
<1>1. Sound(r) /\ Functions
  BY DEF IInv, AllSound
<1>2. /\ pc' = [pc EXCEPT ![r] = "work"] /\ todo' = [todo EXCEPT ![r] = Tail(todo[r])]
      /\ place' = [place EXCEPT ![r] = Absent] /\ held' = [held EXCEPT ![r] = <<>>]
      /\ loose' = [loose EXCEPT ![r] = FALSE]
  BY DEF Done, Goto
<1>3. /\ followup' = [t \in Runs |-> followup'[t]] /\ followup'[r] \in Seq(Outcomes)
      /\ \A t \in Runs \ {r} : followup'[t] = followup[t]
  <2>1. CASE UNCHANGED followup
    BY <1>1, <2>1 DEF Functions, Sound
  <2>2. ASSUME NEW w \in Outcomes, Tell(r, w)
        PROVE  /\ followup' = [t \in Runs |-> followup'[t]] /\ followup'[r] \in Seq(Outcomes)
               /\ \A t \in Runs \ {r} : followup'[t] = followup[t]
    <3>1. followup' = [followup EXCEPT ![r] = Append(followup[r], w)]
      BY <2>2 DEF Tell
    <3>2. followup[r] \in Seq(Outcomes) /\ Append(followup[r], w) \in Seq(Outcomes)
      BY <1>1 DEF Sound
    <3> QED
      BY <1>1, <3>1, <3>2 DEF Functions
  <2> QED
    BY <2>1, <2>2
<1>4. /\ owed' = [t \in Runs |-> owed'[t]] /\ owed'[r] \in Int
      /\ \A t \in Runs \ {r} : owed'[t] = owed[t]
  BY <1>1 DEF Made, Functions, Sound
<1>5. /\ child' = [t \in Runs |-> child'[t]] /\ child'[r] = "none"
      /\ \A t \in Runs \ {r} : child'[t] = child[t]
  BY <1>1 DEF Functions, Sound
<1>6. Frame(r)
  BY <1>1, <1>2, <1>3, <1>4, <1>5 DEF Frame, Functions
<1>7. /\ Shared' /\ SessionFrame(r) /\ at' = at
      /\ kept' = kept /\ stale' = stale /\ stale' = [t \in Runs |-> stale'[t]]
  BY <1>6, DiskQuiet
<1>8. Functions'
  BY <1>1, <1>2, <1>3, <1>4, <1>5, <1>7 DEF Functions
<1>9. Sound(r)'
  <2>1. /\ pc'[r] = "work" /\ todo'[r] = Tail(todo[r]) /\ place'[r] = Absent /\ held'[r] = <<>>
        /\ loose'[r] = FALSE /\ caps'[r] = caps[r] /\ keep'[r] = keep[r] /\ msgs'[r] = msgs[r]
        /\ rounds'[r] = rounds[r] /\ stale'[r] = stale[r]
    BY <1>1, <1>2, <1>7 DEF Functions
  <2>2. Tail(todo[r]) \in Seq(Tags) /\ <<>> \in Seq(Texts)
    BY <1>1 DEF Sound
  <2> QED
    BY <1>1, <1>3, <1>4, <1>5, <1>7, <2>1, <2>2 DEF Sound, PCs
<1> QED
  BY <1>6, <1>7, <1>8, <1>9, OneRun

\* The process is gone.
LEMMA GoneKeeps ==
  ASSUME IInv, NEW r \in Runs, Gone(r), Shared', SessionFrame(r), at' = at,
         stale' = [t \in Runs |-> stale'[t]], stale'[r] \in BOOLEAN
  PROVE  IInv'
<1>1. Sound(r) /\ Functions
  BY DEF IInv, AllSound
<1>2. /\ pc' = [pc EXCEPT ![r] = "off"] /\ caps' = [caps EXCEPT ![r] = {}]
      /\ keep' = [keep EXCEPT ![r] = FALSE] /\ msgs' = [msgs EXCEPT ![r] = <<>>]
      /\ rounds' = [rounds EXCEPT ![r] = 0] /\ todo' = [todo EXCEPT ![r] = <<>>]
      /\ followup' = [followup EXCEPT ![r] = <<>>] /\ place' = [place EXCEPT ![r] = Absent]
      /\ held' = [held EXCEPT ![r] = <<>>] /\ child' = [child EXCEPT ![r] = "none"]
      /\ owed' = [owed EXCEPT ![r] = 0] /\ loose' = [loose EXCEPT ![r] = FALSE]
  BY DEF Gone, Goto
<1>3. Frame(r)
  BY <1>1, <1>2 DEF Frame, Functions
<1>4. Functions'
  BY <1>1, <1>2 DEF Functions
<1>5. Sound(r)'
  BY <1>1, <1>2, SyncAssumption DEF Functions, Sound, PCs
<1> QED
  BY <1>3, <1>4, <1>5, OneRun

LEMMA GoneQuietly ==
  ASSUME IInv, NEW r \in Runs, Gone(r), Quiet, pc[r] # "saving",
         disk' \in [Places -> Seq(Texts) \cup {Absent}]
  PROVE  IInv'
<1>1. Sound(r) /\ Functions
  BY DEF IInv, AllSound
<1>2. Frame(r)
  BY <1>1 DEF Gone, Goto, Frame, Functions
<1>3. /\ Shared' /\ SessionFrame(r) /\ at' = at
      /\ stale' = stale /\ stale' = [t \in Runs |-> stale'[t]]
  BY <1>2, DiskQuiet
<1>4. stale'[r] \in BOOLEAN
  BY <1>1, <1>3 DEF Sound
<1> QED
  BY <1>3, <1>4, GoneKeeps

\* The file is written by a run that was saving it, whole or in part.
LEMMA SaveKeeps ==
  ASSUME IInv, NEW r \in Runs, pc[r] = "saving", Gone(r),
         NEW m \in Seq(Messages), Prompted(m), SessionIs(r, m),
         disk' \in [Places -> Seq(Texts) \cup {Absent}], UNCHANGED <<at, starts, moves>>
  PROVE  IInv'
<1>1. Shared /\ Functions
  BY DEF IInv
<1>2. /\ session' \in Seq(Messages) /\ Prompted(session') /\ kept' = session'
      /\ stale' = [t \in Runs |-> t # r /\ pc[t] # "off"]
  BY <1>1, WrittenType DEF SessionIs, Shared
<1>3. Shared'
  BY <1>1, <1>2 DEF Shared, Prompted
<1>4. SessionFrame(r)
  BY <1>2 DEF SessionFrame
<1>5. stale' = [t \in Runs |-> stale'[t]] /\ stale'[r] \in BOOLEAN
  BY <1>2
<1> QED
  BY <1>3, <1>4, <1>5, GoneKeeps

LEMMA StartRunKeeps ==
  ASSUME IInv, NEW r \in Runs, StartRun(r)
  PROVE  IInv'
<1>1. Sound(r) /\ Functions /\ Shared
  BY DEF IInv, AllSound
<1>2. /\ pc[r] = "off" /\ pc' = [pc EXCEPT ![r] = "ask"] /\ starts < MaxStarts /\ starts' = starts + 1
      /\ rounds' = [rounds EXCEPT ![r] = Rounds]
      /\ stale' = [stale EXCEPT ![r] = \E t \in Runs : pc[t] = "saving"]
      /\ todo' = todo /\ followup' = followup /\ place' = place /\ held' = held /\ child' = child
      /\ owed' = owed /\ loose' = loose
      /\ at' = at /\ disk' = disk /\ session' = session /\ moves' = moves /\ kept' = kept
  BY DEF StartRun, Goto, reply
<1>3. PICK c \in Caps, k \in BOOLEAN :
        LET loaded == IF k THEN session ELSE <<>>
        IN /\ caps' = [caps EXCEPT ![r] = c]
           /\ keep' = [keep EXCEPT ![r] = k]
           /\ msgs' = [msgs EXCEPT ![r] =
                         (IF loaded = <<>> THEN <<Message("system", starts)>> ELSE loaded)
                           \o <<Message("user", starts)>>]
  BY DEF StartRun
<1> DEFINE loaded == IF k THEN session ELSE <<>>
           begun == IF loaded = <<>> THEN <<Message("system", starts)>> ELSE loaded
           m == Append(begun, Message("user", starts))
<1>4. starts \in Nat /\ Message("system", starts) \in Messages /\ Message("user", starts) \in Messages
  BY <1>1, SyncAssumption DEF Shared, Message, Messages
<1>5. begun \in Seq(Messages) /\ begun # <<>> /\ Prompted(begun)
  <2>1. CASE loaded = <<>>
    <3>1. begun = <<Message("system", starts)>>
      BY <2>1
    <3>2. DOMAIN begun = {1} /\ begun[1].role = "system"
      BY <3>1 DEF Message
    <3>0. \A x \in Messages : <<x>> \in Seq(Messages) /\ <<x>> # <<>>
      OBVIOUS
    <3>3. begun \in Seq(Messages) /\ begun # <<>>
      <4> HIDE DEF begun
      <4> QED
        BY <3>0, <3>1, <1>4
    <3> HIDE DEF begun
    <3>4. Prompted(begun)
      BY <3>2 DEF Prompted
    <3> QED
      BY <3>3, <3>4
  <2>2. CASE loaded # <<>>
    BY <2>2, <1>1 DEF Shared
  <2> QED
    BY <2>1, <2>2
<1>6. m = begun \o <<Message("user", starts)>>
  <2> HIDE DEF begun
  <2> QED
    BY <1>4, <1>5
<1>7. /\ m \in Seq(Messages) /\ m # <<>> /\ Prompted(m) /\ m[Len(m)].role = "user"
  <2> HIDE DEF begun
  <2>1. Message("user", starts).role = "user"
    BY DEF Message
  <2> QED
    BY <1>4, <1>5, <2>1, AddKeeps
<1>8. caps' = [caps EXCEPT ![r] = c] /\ keep' = [keep EXCEPT ![r] = k] /\ msgs' = [msgs EXCEPT ![r] = m]
  BY <1>3, <1>6
<1>9. k /\ ~(\E t \in Runs : pc[t] = "saving") => Begins(kept, m)
  <2> SUFFICES ASSUME k, ~(\E t \in Runs : pc[t] = "saving")
               PROVE  Begins(kept, m)
    OBVIOUS
  <2>1. session = kept /\ kept \in Seq(Messages)
    BY <1>1 DEF Shared
  <2>2. CASE session = <<>>
    <3>1. 0 \in 0 .. Len(m) /\ SubSeq(m, 1, 0) = <<>>
      BY <1>7
    <3> HIDE DEF m
    <3> QED
      BY <2>1, <2>2, <3>1 DEF Begins
  <2>3. CASE session # <<>>
    <3>1. begun = kept
      BY <2>1, <2>3
    <3>2. Begins(begun, begun)
      BY <3>1, <2>1, AllBegins
    <3>3. <<Message("user", starts)>> \in Seq(Messages)
      BY <1>4
    <3> HIDE DEF begun, m
    <3> QED
      BY <3>1, <3>2, <3>3, <1>5, <1>6, AppendBegins
  <2> QED
    BY <2>2, <2>3
<1> HIDE DEF m
<1>10. Frame(r) /\ SessionFrame(r)
  BY <1>1, <1>2, <1>8 DEF Frame, SessionFrame, Functions
<1>11. Functions'
  BY <1>1, <1>2, <1>8 DEF Functions
<1>12. (session = kept \/ \E t \in Runs : pc[t] = "saving")'
  <2>1. CASE session = kept
    BY <2>1, <1>2
  <2>2. ASSUME NEW t \in Runs, pc[t] = "saving"
        PROVE  pc'[t] = "saving"
    BY <2>2, <1>1, <1>2 DEF Functions
  <2> QED
    BY <1>1, <2>1, <2>2 DEF Shared
<1>13. starts' \in 0 .. MaxStarts
  BY <1>1, <1>2, SyncAssumption DEF Shared
<1>14. Shared'
  BY <1>1, <1>2, <1>12, <1>13 DEF Shared
<1>15. Sound(r)'
  <2>1. /\ pc'[r] = "ask" /\ caps'[r] = c /\ keep'[r] = k /\ msgs'[r] = m /\ rounds'[r] = Rounds
        /\ stale'[r] = (\E t \in Runs : pc[t] = "saving") /\ child'[r] = "none"
    BY <1>1, <1>2, <1>8 DEF Functions, Sound
  <2>2. c \in SUBSET {"read", "write", "exec"} /\ Rounds \in 0 .. Rounds
    BY SyncAssumption
  <2>3. stale'[r] \in BOOLEAN
    BY <2>1
  <2> QED
    BY <1>1, <1>2, <1>7, <1>9, <2>1, <2>2, <2>3 DEF Sound, PCs
<1> QED
  BY <1>2, <1>10, <1>11, <1>14, <1>15, OneRun

LEMMA NoAnswerKeeps ==
  ASSUME IInv, NEW r \in Runs, NoAnswer(r)
  PROVE  IInv'
<1>1. Sound(r) /\ Functions /\ Shared
  BY DEF IInv, AllSound
<1>2. pc[r] = "ask" /\ disk' = disk /\ Quiet
  BY DEF NoAnswer, world, Quiet
<1>3. disk' \in [Places -> Seq(Texts) \cup {Absent}]
  BY <1>1, <1>2 DEF Shared
<1>4. CASE rounds[r] = Rounds
  BY <1>2, <1>3, <1>4, GoneQuietly DEF NoAnswer
<1>5. CASE rounds[r] # Rounds
  <2>1. /\ pc' = [pc EXCEPT ![r] = "save"] /\ caps' = caps /\ keep' = keep /\ msgs' = msgs
        /\ rounds' = rounds /\ todo' = todo /\ followup' = followup /\ place' = place
        /\ held' = held /\ child' = child /\ owed' = owed /\ loose' = loose
    BY <1>5 DEF NoAnswer, Goto, reply
  <2>2. Frame(r)
    BY <1>1, <2>1 DEF Frame, Functions
  <2>3. /\ Shared' /\ SessionFrame(r) /\ at' = at /\ kept' = kept /\ stale' = stale
    BY <1>2, <1>3, <2>2, DiskQuiet
  <2>4. Functions'
    BY <1>1, <2>1, <2>3 DEF Functions
  <2>5. Sound(r)'
    BY <1>1, <1>2, <2>1, <2>3 DEF Functions, Sound, PCs
  <2> QED
    BY <2>2, <2>3, <2>4, <2>5, OneRun
<1> QED
  BY <1>4, <1>5

\* The conversation goes on.
LEMMA TalkKeeps ==
  ASSUME IInv, NEW r \in Runs, Answer(r) \/ RoundEnds(r)
  PROVE  IInv'
<1>1. Sound(r) /\ Functions /\ Shared
  BY DEF IInv, AllSound
<1>2. disk' = disk /\ Quiet /\ disk' \in [Places -> Seq(Texts) \cup {Absent}]
  BY <1>1 DEF Answer, RoundEnds, world, Quiet, Shared
<1>3. pc[r] \in {"ask", "work"}
  BY DEF Answer, RoundEnds
<1>4. /\ caps' = caps /\ keep' = keep /\ place' = place /\ held' = held /\ child' = child
      /\ loose' = loose
  BY DEF Answer, RoundEnds, reply
<1>5. \A role \in {"user", "assistant"} :
        /\ Add(r, role) \in Seq(Messages) /\ Add(r, role) # <<>> /\ Prompted(Add(r, role))
        /\ Add(r, role)[Len(Add(r, role))].role = role
        /\ keep[r] /\ ~stale[r] => Begins(kept, Add(r, role))
  <2> SUFFICES ASSUME NEW role \in {"user", "assistant"}
               PROVE  /\ Add(r, role) \in Seq(Messages) /\ Add(r, role) # <<>>
                      /\ Prompted(Add(r, role))
                      /\ Add(r, role)[Len(Add(r, role))].role = role
                      /\ keep[r] /\ ~stale[r] => Begins(kept, Add(r, role))
    OBVIOUS
  <2> DEFINE x == Message(role, msgs[r][Len(msgs[r])].of)
  <2>1. msgs[r] \in Seq(Messages) /\ msgs[r] # <<>> /\ Prompted(msgs[r])
    BY <1>1, <1>3 DEF Sound
  <2>2. msgs[r][Len(msgs[r])] \in Messages
    BY <2>1
  <2>3. x \in Messages /\ x.role = role
    BY <2>2 DEF Message, Messages
  <2>4. Add(r, role) = Append(msgs[r], x)
    BY DEF Add
  <2> HIDE DEF x
  <2>5. /\ Append(msgs[r], x) \in Seq(Messages) /\ Append(msgs[r], x) # <<>>
        /\ Prompted(Append(msgs[r], x)) /\ Append(msgs[r], x)[Len(Append(msgs[r], x))] = x
    BY <2>1, <2>3, AddKeeps
  <2>6. keep[r] /\ ~stale[r] => Begins(kept, Append(msgs[r], x))
    <3>1. Append(msgs[r], x) = msgs[r] \o <<x>> /\ <<x>> \in Seq(Messages)
      BY <2>1, <2>3
    <3>2. kept \in Seq(Messages) /\ (keep[r] /\ ~stale[r] => Begins(kept, msgs[r]))
      BY <1>1, <1>3 DEF Sound, Shared
    <3> QED
      BY <2>1, <3>1, <3>2, AppendBegins
  <2> QED
    BY <2>3, <2>4, <2>5, <2>6
<1>6. ASSUME NEW p \in {"work", "save", "ask"}, pc' = [pc EXCEPT ![r] = p],
             NEW m, msgs' = [msgs EXCEPT ![r] = m],
             m = msgs[r] \/ m \in {Add(r, "user"), Add(r, "assistant")},
             p = "ask" => m = Add(r, "user"),
             NEW n \in 0 .. Rounds, rounds' = [rounds EXCEPT ![r] = n],
             NEW a \in Seq(Tags), todo' = [todo EXCEPT ![r] = a],
             NEW f \in Seq(Outcomes), followup' = [followup EXCEPT ![r] = f],
             NEW o \in Int, owed' = [owed EXCEPT ![r] = o]
      PROVE  IInv'
  <2>1. Frame(r)
    BY <1>1, <1>4, <1>6 DEF Frame, Functions
  <2>2. /\ Shared' /\ SessionFrame(r) /\ at' = at /\ kept' = kept /\ stale' = stale
    BY <1>2, <1>3, <2>1, DiskQuiet
  <2>3. Functions'
    BY <1>1, <1>4, <1>6, <2>2 DEF Functions
  <2>4. /\ m \in Seq(Messages) /\ m # <<>> /\ Prompted(m)
        /\ p = "ask" => m[Len(m)].role = "user"
        /\ keep[r] /\ ~stale[r] => Begins(kept, m)
    <3>1. /\ msgs[r] \in Seq(Messages) /\ msgs[r] # <<>> /\ Prompted(msgs[r])
          /\ keep[r] /\ ~stale[r] => Begins(kept, msgs[r])
      BY <1>1, <1>3 DEF Sound
    <3>2. CASE m = msgs[r] /\ p # "ask"
      BY <3>1, <3>2
    <3>3. CASE m = Add(r, "user")
      BY <1>5, <3>3
    <3>4. CASE m = Add(r, "assistant") /\ p # "ask"
      BY <1>5, <3>4
    <3> QED
      BY <1>6, <3>2, <3>3, <3>4
  <2>5. /\ pc'[r] = p /\ msgs'[r] = m /\ rounds'[r] = n /\ todo'[r] = a /\ followup'[r] = f
        /\ owed'[r] = o
    BY <1>1, <1>6 DEF Functions
  <2>6. Sound(r)'
    BY <1>1, <1>3, <1>4, <1>6, <2>2, <2>4, <2>5 DEF Sound, PCs
  <2> QED
    BY <2>1, <2>2, <2>3, <2>6, OneRun
<1>7. /\ rounds = [rounds EXCEPT ![r] = rounds[r]] /\ rounds[r] \in 0 .. Rounds
      /\ todo = [todo EXCEPT ![r] = todo[r]] /\ todo[r] \in Seq(Tags)
      /\ owed = [owed EXCEPT ![r] = owed[r]] /\ owed[r] \in Int
      /\ followup = [followup EXCEPT ![r] = followup[r]] /\ followup[r] \in Seq(Outcomes)
      /\ msgs = [msgs EXCEPT ![r] = msgs[r]] /\ <<>> \in Seq(Outcomes)
  <2>1. /\ rounds[r] \in 0 .. Rounds /\ todo[r] \in Seq(Tags) /\ owed[r] \in Int
        /\ followup[r] \in Seq(Outcomes) /\ <<>> \in Seq(Outcomes)
    BY <1>1 DEF Sound
  <2>2. rounds = [rounds EXCEPT ![r] = rounds[r]] /\ todo = [todo EXCEPT ![r] = todo[r]]
    BY <1>1 DEF Functions
  <2>3. owed = [owed EXCEPT ![r] = owed[r]] /\ followup = [followup EXCEPT ![r] = followup[r]]
    BY <1>1 DEF Functions
  <2>4. msgs = [msgs EXCEPT ![r] = msgs[r]]
    BY <1>1 DEF Functions
  <2> QED
    BY <2>1, <2>2, <2>3, <2>4
<1>8. CASE Answer(r)
  <2>1. /\ pc[r] = "ask" /\ msgs' = [msgs EXCEPT ![r] = Add(r, "assistant")]
        /\ followup' = [followup EXCEPT ![r] = <<>>]
    BY <1>8 DEF Answer
  <2>2. CASE caps[r] # {} /\ rounds[r] > 0
    <3>1. /\ rounds' = [rounds EXCEPT ![r] = rounds[r] - 1] /\ pc' = [pc EXCEPT ![r] = "work"]
          /\ \E a \in Replies : /\ todo' = [todo EXCEPT ![r] = Ordered(a, caps[r])]
                              /\ owed' = [owed EXCEPT ![r] = EditsIn(Ordered(a, caps[r]))]
      BY <1>8, <2>2 DEF Answer, Goto
    <3>2. PICK a \in Replies : /\ todo' = [todo EXCEPT ![r] = Ordered(a, caps[r])]
                              /\ owed' = [owed EXCEPT ![r] = EditsIn(Ordered(a, caps[r]))]
      BY <3>1
    <3>3. Ordered(a, caps[r]) \in Seq(Tags)
      BY OrderedType
    <3>4. EditsIn(Ordered(a, caps[r])) \in Int
      <4> DEFINE S == {i \in DOMAIN Ordered(a, caps[r]) : Ordered(a, caps[r])[i].kind \in Edits}
      <4>1. S \subseteq 1 .. Len(Ordered(a, caps[r])) /\ Len(Ordered(a, caps[r])) \in Nat
        BY <3>3
      <4>2. IsFiniteSet(S)
        BY <4>1, FS_Interval, FS_Subset
      <4>3. Cardinality(S) \in Nat
        BY <4>2, FS_CardinalityType
      <4> QED
        BY <4>3 DEF EditsIn
    <3>5. rounds[r] - 1 \in 0 .. Rounds
      BY <1>7, <2>2, SyncAssumption
    <3> QED
      BY <1>6, <1>7, <2>1, <3>1, <3>2, <3>3, <3>4, <3>5
  <2>3. CASE ~(caps[r] # {} /\ rounds[r] > 0)
    <3>1. pc' = [pc EXCEPT ![r] = "save"] /\ todo' = todo /\ owed' = owed /\ rounds' = rounds
      BY <1>8, <2>3 DEF Answer, Goto
    <3> QED
      BY <1>6, <1>7, <2>1, <3>1
  <2> QED
    BY <2>2, <2>3
<1>9. CASE RoundEnds(r)
  <2>1. todo' = todo /\ owed' = owed /\ rounds' = rounds /\ followup' = followup
    BY <1>9 DEF RoundEnds, reply
  <2>2. CASE followup[r] = <<>>
    <3>1. pc' = [pc EXCEPT ![r] = "save"] /\ msgs' = msgs
      BY <1>9, <2>2 DEF RoundEnds, Goto
    <3> QED
      BY <1>6, <1>7, <2>1, <3>1
  <2>3. CASE followup[r] # <<>>
    <3>1. pc' = [pc EXCEPT ![r] = "ask"] /\ msgs' = [msgs EXCEPT ![r] = Add(r, "user")]
      BY <1>9, <2>3 DEF RoundEnds, Goto
    <3> QED
      BY <1>6, <1>7, <2>1, <3>1
  <2> QED
    BY <2>2, <2>3
<1> QED
  BY <1>8, <1>9

\* A step with an annotation that changes where the run is, and what it holds.
LEMMA HoldKeeps ==
  ASSUME IInv, NEW r \in Runs, Quiet, disk' \in [Places -> Seq(Texts) \cup {Absent}],
         UNCHANGED <<caps, keep, msgs, rounds, todo, followup, owed>>,
         todo[r] # <<>>, pc[r] \in {"work", "open", "put", "command"},
         NEW p \in {"open", "put", "cut", "command"}, pc' = [pc EXCEPT ![r] = p],
         NEW h \in Seq(Texts), held' = [held EXCEPT ![r] = h],
         NEW l \in Places \cup {Absent}, place' = [place EXCEPT ![r] = l],
         NEW c \in {"none", "up", "late", "over", "exited"}, child' = [child EXCEPT ![r] = c],
         NEW b \in BOOLEAN, loose' = [loose EXCEPT ![r] = b],
         p = "command" <=> c # "none",
         p # "command" => Now(r).kind # "exec",
         p \in {"open", "put"} => at[Now(r).path] \in Inside \/ b,
         p = "cut" => l \in Places /\ (l \in Inside \/ b)
  PROVE  IInv'
<1>1. Sound(r) /\ Functions
  BY DEF IInv, AllSound
<1>2. Frame(r)
  BY <1>1 DEF Frame, Functions
<1>3. /\ Shared' /\ SessionFrame(r) /\ at' = at /\ kept' = kept /\ stale' = stale
  BY <1>2, DiskQuiet
<1>4. Functions'
  BY <1>1, <1>3 DEF Functions
<1>5. pc'[r] = p /\ held'[r] = h /\ place'[r] = l /\ child'[r] = c /\ loose'[r] = b
  BY <1>1 DEF Functions
<1>6. Sound(r)'
  BY <1>1, <1>3, <1>5 DEF Sound, PCs, Now
<1> QED
  BY <1>2, <1>3, <1>4, <1>6, OneRun

LEMMA AnnotationKeeps ==
  ASSUME IInv, NEW r \in Runs,
         Check(r) \/ Read(r) \/ ReadEdit(r) \/ Cut(r) \/ CutFails(r) \/ Put(r) \/ Exec(r) \/ Reap(r)
  PROVE  IInv'
<1>1. Sound(r) /\ Functions /\ Shared
  BY DEF IInv, AllSound
<1>2. Quiet
  BY DEF Check, Read, ReadEdit, Cut, CutFails, Put, Exec, Reap, world, Quiet
<1>3. UNCHANGED <<caps, keep, msgs, rounds>>
  BY DEF Check, Read, ReadEdit, Cut, CutFails, Put, Exec, Reap
<1>4. /\ todo[r] # <<>> /\ pc[r] \in {"work", "open", "put", "cut", "command"}
  BY <1>1 DEF Check, Read, ReadEdit, Cut, CutFails, Put, Exec, Reap, At, Sound
<1>5. /\ Now(r) \in Tags /\ Now(r).path \in Paths /\ at[Now(r).path] \in Places
  <2>1. Head(todo[r]) \in Tags
    BY <1>1, <1>4 DEF Sound
  <2> QED
    BY <2>1, <1>1 DEF Now, Tags, Shared
<1>6. disk \in [Places -> Seq(Texts) \cup {Absent}]
  BY <1>1 DEF Shared
<1>7. /\ held = [held EXCEPT ![r] = held[r]] /\ place = [place EXCEPT ![r] = place[r]]
      /\ child = [child EXCEPT ![r] = child[r]] /\ loose = [loose EXCEPT ![r] = loose[r]]
  BY <1>1 DEF Functions
<1>8. held[r] \in Seq(Texts) /\ place[r] \in Places \cup {Absent} /\ loose[r] \in BOOLEAN
  BY <1>1 DEF Sound
<1>9. CASE Check(r)
  <2>1. /\ pc[r] = "work" /\ Now(r).kind # "exec" /\ disk' = disk /\ owed' = owed /\ child' = child
    BY <1>9 DEF Check, At, world
  <2>2. child[r] = "none"
    BY <1>1, <2>1 DEF Sound
  <2>3. CASE Allowed(Now(r).path)
    <3> DEFINE b == Now(r).path \in Links /\ disk[at[Now(r).path]] = Absent
    <3>1. /\ pc' = [pc EXCEPT ![r] = "open"] /\ todo' = todo /\ followup' = followup
          /\ place' = place /\ held' = held /\ loose' = [loose EXCEPT ![r] = b]
      BY <1>9, <2>3 DEF Check, Pass, Goto
    <3>2. b \in BOOLEAN
      OBVIOUS
    <3>3. at[Now(r).path] \in Inside \/ b
      BY <2>3 DEF Allowed, DirInside
    <3> HIDE DEF b
    <3> QED
      BY <1>2, <1>3, <1>4, <1>6, <1>7, <1>8, <2>1, <2>2, <3>1, <3>2, <3>3, HoldKeeps
  <2>4. CASE ~Allowed(Now(r).path)
    <3>1. Done(r) /\ (UNCHANGED followup \/ Tell(r, "error"))
      BY <1>9, <2>4 DEF Check
    <3> QED
      BY <1>2, <1>3, <1>4, <1>6, <2>1, <3>1, DoneKeeps DEF Outcomes
  <2> QED
    BY <2>3, <2>4
<1>10. CASE Read(r)
  <2>1. /\ pc[r] = "open" /\ Done(r) /\ (UNCHANGED followup \/ Tell(r, "file"))
        /\ disk' = disk /\ owed' = owed /\ child' = child
    BY <1>10 DEF Read, At, world
  <2> QED
    BY <1>2, <1>3, <1>4, <1>6, <2>1, DoneKeeps DEF Outcomes
<1>11. CASE ReadEdit(r)
  <2> DEFINE f == disk[at[Now(r).path]]
  <2>1. /\ pc[r] = "open" /\ Now(r).kind \in Edits /\ disk' = disk /\ owed' = owed /\ child' = child
    BY <1>11 DEF ReadEdit, At, world
  <2>2. child[r] = "none"
    BY <1>1, <2>1 DEF Sound
  <2>3. CASE Now(r).kind # "write" /\ (f = Absent \/ Edited(Now(r), f) = {})
    <3>1. Done(r) /\ Tell(r, "error")
      BY <1>11, <2>3 DEF ReadEdit
    <3> QED
      BY <1>2, <1>3, <1>4, <1>6, <2>1, <3>1, DoneKeeps DEF Outcomes
  <2>4. CASE ~(Now(r).kind # "write" /\ (f = Absent \/ Edited(Now(r), f) = {}))
    <3>1. /\ \E g \in Edited(Now(r), f) : held' = [held EXCEPT ![r] = g]
          /\ pc' = [pc EXCEPT ![r] = "put"]
          /\ todo' = todo /\ followup' = followup /\ place' = place /\ loose' = loose
      BY <1>11, <2>4 DEF ReadEdit, Goto
    <3>2. PICK g \in Edited(Now(r), f) : held' = [held EXCEPT ![r] = g]
      BY <3>1
    <3>3. f \in Seq(Texts) \/ Now(r).kind = "write"
      BY <1>5, <1>6, <2>4
    <3>4. g \in Seq(Texts)
      BY <1>5, <2>1, <3>3, EditedType
    <3>5. Now(r).kind # "exec" /\ (at[Now(r).path] \in Inside \/ loose[r])
      BY <1>1, <2>1 DEF Sound, Edits
    <3> HIDE DEF f
    <3> QED
      BY <1>2, <1>3, <1>4, <1>6, <1>7, <1>8, <2>1, <2>2, <3>1, <3>2, <3>4, <3>5, HoldKeeps
  <2> QED
    BY <2>3, <2>4
<1>12. CASE Cut(r)
  <2>1. /\ pc[r] = "put" /\ place' = [place EXCEPT ![r] = at[Now(r).path]]
        /\ disk' = [disk EXCEPT ![at[Now(r).path]] = <<>>] /\ pc' = [pc EXCEPT ![r] = "cut"]
        /\ UNCHANGED <<todo, followup, held, child, owed, loose>>
    BY <1>12 DEF Cut, At, Goto
  <2>2. /\ child[r] = "none" /\ Now(r).kind # "exec" /\ (at[Now(r).path] \in Inside \/ loose[r])
    BY <1>1, <2>1 DEF Sound
  <2>3. disk' \in [Places -> Seq(Texts) \cup {Absent}]
    <3>1. <<>> \in Seq(Texts)
      OBVIOUS
    <3> QED
      BY <1>5, <1>6, <2>1, <3>1
  <2> QED
    BY <1>2, <1>3, <1>4, <1>5, <1>7, <1>8, <2>1, <2>2, <2>3, HoldKeeps
<1>13. CASE CutFails(r)
  <2>1. /\ pc[r] = "put" /\ Done(r) /\ (UNCHANGED followup \/ Tell(r, "error"))
        /\ (UNCHANGED owed \/ Made(r)) /\ disk' = disk /\ child' = child
    BY <1>13 DEF CutFails, At, world
  <2> QED
    BY <1>2, <1>3, <1>4, <1>6, <2>1, DoneKeeps DEF Outcomes
<1>14. CASE Put(r)
  <2>1. /\ pc[r] = "cut" /\ Done(r) /\ UNCHANGED followup /\ Made(r) /\ child' = child
        /\ disk' = [disk EXCEPT ![place[r]] = Over(disk[place[r]], held[r])]
    BY <1>14 DEF Put, At
  <2>2. place[r] \in Places
    BY <1>1, <2>1 DEF Sound
  <2>3. Over(disk[place[r]], held[r]) \in Seq(Texts)
    BY <1>6, <1>8, <2>2, OverType
  <2>4. disk' \in [Places -> Seq(Texts) \cup {Absent}]
    BY <1>6, <2>1, <2>3
  <2> QED
    BY <1>2, <1>3, <1>4, <2>1, <2>4, DoneKeeps
<1>15. CASE Exec(r)
  <2>1. pc[r] = "work" /\ disk' = disk /\ owed' = owed /\ followup' = followup
    BY <1>15 DEF Exec, At, world
  <2>2. CASE "exec" \in caps[r] \/ ("read" \in caps[r] /\ Now(r).safe)
    <3>1. /\ pc' = [pc EXCEPT ![r] = "command"] /\ child' = [child EXCEPT ![r] = "up"]
          /\ todo' = todo /\ place' = place /\ held' = held /\ loose' = loose
      BY <1>15, <2>2 DEF Exec, Goto
    <3> QED
      BY <1>2, <1>3, <1>4, <1>6, <1>7, <1>8, <2>1, <3>1, HoldKeeps
  <2>3. CASE ~("exec" \in caps[r] \/ ("read" \in caps[r] /\ Now(r).safe))
    <3>1. Done(r) /\ child' = child
      BY <1>15, <2>3 DEF Exec
    <3> QED
      BY <1>2, <1>3, <1>4, <1>6, <2>1, <3>1, DoneKeeps
  <2> QED
    BY <2>2, <2>3
<1>16. CASE Reap(r)
  <2>1. /\ Done(r) /\ Tell(r, "output") /\ child' = [child EXCEPT ![r] = "none"]
        /\ disk' = disk /\ owed' = owed
    BY <1>16 DEF Reap, world
  <2> QED
    BY <1>2, <1>3, <1>4, <1>6, <2>1, DoneKeeps DEF Outcomes
<1> QED
  BY <1>9, <1>10, <1>11, <1>12, <1>13, <1>14, <1>15, <1>16

LEMMA CommandKeeps ==
  ASSUME IInv, NEW r \in Runs, Command(r)
  PROVE  IInv'
<1>1. Sound(r) /\ Functions /\ Shared
  BY DEF IInv, AllSound
<1>2. /\ child[r] \in {"up", "late", "over"} /\ Quiet
      /\ UNCHANGED <<pc, caps, keep, msgs, rounds, todo, followup, place, held, owed, loose>>
  BY DEF Command, Prints, Late, Writes, Exits, Running, ChildBecomes, run, reply, world, Quiet
<1>3. /\ pc[r] = "command" /\ todo[r] # <<>> /\ loose[r] \in BOOLEAN
      /\ held[r] \in Seq(Texts) /\ place[r] \in Places \cup {Absent}
  BY <1>1, <1>2 DEF Sound
<1>4. /\ held = [held EXCEPT ![r] = held[r]] /\ place = [place EXCEPT ![r] = place[r]]
      /\ child = [child EXCEPT ![r] = child[r]] /\ pc = [pc EXCEPT ![r] = pc[r]]
      /\ loose = [loose EXCEPT ![r] = loose[r]]
  BY <1>1 DEF Functions
<1>5. Now(r).new \in Texts /\ Now(r).writes \subseteq Places
  <2>1. Head(todo[r]) \in Tags
    BY <1>1, <1>3 DEF Sound
  <2> QED
    BY <2>1 DEF Now, Tags
<1>6. PICK c \in {"up", "late", "over", "exited"} : child' = [child EXCEPT ![r] = c]
  BY <1>2, <1>4 DEF Command, Prints, Late, Writes, Exits, ChildBecomes, reply
<1>7. disk' \in [Places -> Seq(Texts) \cup {Absent}]
  <2>1. disk \in [Places -> Seq(Texts) \cup {Absent}]
    BY <1>1 DEF Shared
  <2>2. CASE Writes(r)
    <3>1. PICK p \in Now(r).writes : disk' = [disk EXCEPT ![p] = <<Now(r).new>>]
      BY <2>2 DEF Writes
    <3>2. <<Now(r).new>> \in Seq(Texts)
      BY <1>5
    <3> QED
      BY <2>1, <3>1, <3>2
  <2>3. CASE ~Writes(r)
    BY <2>1, <2>3 DEF Command, Prints, Late, Exits, ChildBecomes, world
  <2> QED
    BY <2>2, <2>3
<1> QED
  BY <1>2, <1>3, <1>4, <1>6, <1>7, HoldKeeps

LEMMA SessionKeeps ==
  ASSUME IInv, NEW r \in Runs, SkipSave(r) \/ CutSession(r) \/ WriteSession(r) \/ Kill(r)
  PROVE  IInv'
<1>1. Sound(r) /\ Functions /\ Shared
  BY DEF IInv, AllSound
<1>2. disk \in [Places -> Seq(Texts) \cup {Absent}]
  BY <1>1 DEF Shared
<1>3. CASE SkipSave(r)
  <2>1. pc[r] = "save" /\ Gone(r) /\ disk' = disk /\ Quiet
    BY <1>3 DEF SkipSave, world, Quiet
  <2> QED
    BY <1>2, <2>1, GoneQuietly
<1>4. CASE CutSession(r)
  <2>1. /\ pc[r] = "save" /\ keep[r] /\ session' = <<>> /\ pc' = [pc EXCEPT ![r] = "saving"]
        /\ caps' = caps /\ keep' = keep /\ msgs' = msgs /\ rounds' = rounds /\ todo' = todo
        /\ followup' = followup /\ place' = place /\ held' = held /\ child' = child
        /\ owed' = owed /\ loose' = loose /\ at' = at /\ disk' = disk /\ starts' = starts
        /\ moves' = moves /\ kept' = kept /\ stale' = stale
    BY <1>4 DEF CutSession, Goto, reply
  <2>2. Frame(r) /\ SessionFrame(r)
    BY <1>1, <2>1 DEF Frame, SessionFrame, Functions
  <2>3. Functions'
    BY <1>1, <2>1 DEF Functions
  <2>4. pc'[r] = "saving"
    BY <1>1, <2>1 DEF Functions
  <2>5. Shared'
    BY <1>1, <2>1, <2>4 DEF Shared, Prompted
  <2>6. Sound(r)'
    BY <1>1, <2>1, <2>4 DEF Sound, PCs
  <2> QED
    BY <2>1, <2>2, <2>3, <2>5, <2>6, OneRun
<1>5. CASE WriteSession(r)
  <2>1. /\ pc[r] = "saving" /\ SessionIs(r, msgs[r]) /\ Gone(r) /\ UNCHANGED <<at, disk, starts, moves>>
    BY <1>5 DEF WriteSession
  <2>2. msgs[r] \in Seq(Messages) /\ msgs[r] # <<>> /\ Prompted(msgs[r])
    BY <1>1, <2>1 DEF Sound
  <2> QED
    BY <1>2, <2>1, <2>2, SaveKeeps
<1>6. CASE Kill(r)
  <2>1. pc[r] # "off" /\ Gone(r) /\ UNCHANGED <<at, starts, moves>>
    BY <1>6 DEF Kill
  <2>2. disk' \in [Places -> Seq(Texts) \cup {Absent}]
    <3>1. CASE pc[r] = "cut"
      <4>1. PICK n \in 0 .. Len(held[r]) :
              disk' = [disk EXCEPT ![place[r]] = Over(disk[place[r]], SubSeq(held[r], 1, n))]
        BY <1>6, <3>1 DEF Kill
      <4>2. place[r] \in Places /\ held[r] \in Seq(Texts)
        BY <1>1, <3>1 DEF Sound
      <4>3. SubSeq(held[r], 1, n) \in Seq(Texts)
        BY <4>2, CutType
      <4>4. Over(disk[place[r]], SubSeq(held[r], 1, n)) \in Seq(Texts)
        BY <1>2, <4>2, <4>3, OverType
      <4> QED
        BY <1>2, <4>1, <4>4
    <3>2. CASE pc[r] # "cut"
      BY <1>2, <1>6, <3>2 DEF Kill
    <3> QED
      BY <3>1, <3>2
  <2>3. CASE pc[r] = "saving"
    <3>1. PICK n \in 0 .. Len(msgs[r]) : SessionIs(r, SubSeq(msgs[r], 1, n))
      BY <1>6, <2>3 DEF Kill
    <3>2. msgs[r] \in Seq(Messages) /\ msgs[r] # <<>> /\ Prompted(msgs[r])
      BY <1>1, <2>1 DEF Sound
    <3> DEFINE m == SubSeq(msgs[r], 1, n)
    <3>3. m \in Seq(Messages) /\ Len(m) = n /\ \A j \in 1 .. n : m[j] = msgs[r][j] /\ j \in DOMAIN msgs[r]
      BY <3>2, CutType
    <3> HIDE DEF m
    <3>4. DOMAIN m = 1 .. n
      BY <3>3
    <3>5. Prompted(m)
      BY <3>2, <3>3, <3>4 DEF Prompted
    <3>6. SessionIs(r, m)
      BY <3>1 DEF m
    <3> QED
      BY <2>1, <2>2, <2>3, <3>3, <3>4, <3>5, <3>6, SaveKeeps
  <2>4. CASE pc[r] # "saving"
    <3>1. Quiet
      BY <1>6, <2>1, <2>4 DEF Kill, Quiet
    <3> QED
      BY <2>1, <2>2, <2>4, <3>1, GoneQuietly
  <2> QED
    BY <2>3, <2>4
<1> QED
  BY <1>3, <1>4, <1>5, <1>6

\* A link that is moved is remembered by the runs that have checked it.
LEMMA MoveKeeps ==
  ASSUME IInv, NEW p \in Paths, Move(p)
  PROVE  IInv'
<1>1. Functions /\ Shared
  BY DEF IInv
<1>2. /\ pc' = pc /\ caps' = caps /\ keep' = keep /\ msgs' = msgs /\ rounds' = rounds
      /\ todo' = todo /\ followup' = followup /\ place' = place /\ held' = held
      /\ child' = child /\ owed' = owed /\ disk' = disk /\ session' = session
      /\ starts' = starts /\ kept' = kept /\ stale' = stale
      /\ moves < MaxMoves /\ moves' = moves + 1
  BY DEF Move, run
<1>3. PICK q \in Places \ {at[p]} : at' = [at EXCEPT ![p] = q]
  BY DEF Move
<1>4. loose' = [r \in Runs |-> loose[r] \/ (pc[r] \in {"open", "put"} /\ todo[r] # <<>> /\ Now(r).path = p)]
  BY DEF Move
<1>5. Functions'
  BY <1>1, <1>2, <1>4 DEF Functions
<1>6. moves' \in 0 .. MaxMoves
  BY <1>1, <1>2, SyncAssumption DEF Shared
<1>7. Shared'
  BY <1>1, <1>2, <1>3, <1>6 DEF Shared, Prompted
<1>8. ASSUME NEW r \in Runs
      PROVE  Sound(r)'
  <2>1. Sound(r)
    BY DEF IInv, AllSound
  <2>2. loose'[r] = (loose[r] \/ (pc[r] \in {"open", "put"} /\ todo[r] # <<>> /\ Now(r).path = p))
    BY <1>4
  <2>3. loose'[r] \in BOOLEAN /\ (loose[r] => loose'[r])
    BY <2>1, <2>2 DEF Sound
  <2>4. pc[r] \in {"open", "put"} => at'[Now(r).path] \in Inside \/ loose'[r]
    <3> SUFFICES ASSUME pc[r] \in {"open", "put"}, ~loose'[r]
                 PROVE  at'[Now(r).path] \in Inside
      OBVIOUS
    <3>1. todo[r] # <<>> /\ ~loose[r] /\ at[Now(r).path] \in Inside
      BY <2>1, <2>3 DEF Sound
    <3>2. Now(r).path # p
      BY <2>2, <3>1
    <3>3. Now(r).path \in Paths
      <4>1. Head(todo[r]) \in Tags
        BY <2>1, <3>1 DEF Sound
      <4> QED
        BY <4>1 DEF Now, Tags
    <3> QED
      BY <1>1, <1>3, <3>1, <3>2, <3>3 DEF Shared
  <2> QED
    BY <1>2, <2>1, <2>3, <2>4 DEF Sound, Now
<1> QED
  BY <1>5, <1>7, <1>8 DEF IInv, AllSound

LEMMA InvStep == IInv /\ [Next]_vars => IInv'
<1> SUFFICES ASSUME IInv, [Next]_vars
             PROVE  IInv'
  OBVIOUS
<1>1. CASE UNCHANGED vars
  BY <1>1 DEF vars, run, reply, world, IInv, Functions, Shared, Prompted, AllSound, Sound, Now
<1>2. ASSUME NEW r \in Runs, Step(r)
      PROVE  IInv'
  BY <1>2, NoAnswerKeeps, TalkKeeps, AnnotationKeeps, SessionKeeps DEF Step
<1>3. ASSUME NEW r \in Runs, StartRun(r) \/ Command(r) \/ Kill(r)
      PROVE  IInv'
  BY <1>3, StartRunKeeps, CommandKeeps, SessionKeeps
<1>4. ASSUME NEW p \in Paths, Move(p)
      PROVE  IInv'
  BY <1>4, MoveKeeps
<1> QED
  BY <1>1, <1>2, <1>3, <1>4 DEF Next

-----------------------------------------------------------------------------
(* Steps. *)

\* A save that finds the session as its run has loaded it, or longer, loses nothing.
LEMMA SaveContinues ==
  ASSUME IInv, NEW r \in Runs, WriteSession(r), ~stale[r]
  PROVE  \E n \in 0 .. Len(session') : kept = SubSeq(session', 1, n)
<1>1. Sound(r) /\ Shared /\ pc[r] = "saving" /\ session' \in Written(msgs[r])
  BY DEF IInv, AllSound, WriteSession, SessionIs
<1>2. /\ msgs[r] \in Seq(Messages) /\ msgs[r] # <<>> /\ Prompted(msgs[r])
      /\ Begins(kept, msgs[r])
  BY <1>1 DEF Sound
<1>3. session \in Seq(Messages) /\ Prompted(session) /\ kept \in Seq(Messages)
  BY <1>1 DEF Shared
<1>4. PICK x \in Seq(Messages) : session' = msgs[r] \o x
  BY <1>1, <1>2, <1>3, WrittenType
<1>5. Begins(kept, session')
  BY <1>2, <1>3, <1>4, AppendBegins
<1> QED
  BY <1>5 DEF Begins

\* What a step of the program does to the files, wherever they are.
LEMMA DiskStep ==
  ASSUME IInv, NEW r \in Runs, StartRun(r) \/ Step(r) \/ Command(r) \/ Kill(r),
         NEW p \in Places \ Inside, disk'[p] # disk[p]
  PROVE  Writes(r) \/ (pc[r] \in {"put", "cut"} /\ pc'[r] # pc[r] /\ loose[r])
<1>1. Sound(r) /\ Functions /\ Shared
  BY DEF IInv, AllSound
<1>2. disk' # disk
  OBVIOUS
<1>3. CASE Cut(r)
  <2>1. /\ pc[r] = "put" /\ disk' = [disk EXCEPT ![at[Now(r).path]] = <<>>]
        /\ pc' = [pc EXCEPT ![r] = "cut"]
    BY <1>3 DEF Cut, At, Goto
  <2>2. at[Now(r).path] = p /\ pc'[r] = "cut"
    BY <1>1, <2>1 DEF Shared, Functions
  <2> QED
    BY <1>1, <2>1, <2>2 DEF Sound
<1>4. CASE Put(r)
  <2>1. /\ pc[r] = "cut" /\ disk' = [disk EXCEPT ![place[r]] = Over(disk[place[r]], held[r])]
        /\ pc' = [pc EXCEPT ![r] = "work"]
    BY <1>4 DEF Put, At, Done, Goto
  <2>2. place[r] = p /\ pc'[r] = "work"
    BY <1>1, <2>1 DEF Shared, Functions
  <2> QED
    BY <1>1, <2>1, <2>2 DEF Sound
<1>5. CASE Kill(r)
  <2>1. pc[r] = "cut"
    BY <1>2, <1>5 DEF Kill
  <2>2. PICK n \in 0 .. Len(held[r]) :
          disk' = [disk EXCEPT ![place[r]] = Over(disk[place[r]], SubSeq(held[r], 1, n))]
    BY <1>5, <2>1 DEF Kill
  <2>3. pc' = [pc EXCEPT ![r] = "off"]
    BY <1>5 DEF Kill, Gone, Goto
  <2>4. place[r] = p /\ pc'[r] = "off"
    BY <1>1, <2>2, <2>3 DEF Shared, Functions
  <2> QED
    BY <1>1, <2>1, <2>4 DEF Sound
<1>6. CASE Command(r)
  BY <1>2, <1>6 DEF Command, Prints, Late, Exits, ChildBecomes, world
<1>7. CASE StartRun(r)
  BY <1>2, <1>7 DEF StartRun
<1>8. CASE Step(r) /\ ~Cut(r) /\ ~Put(r)
  BY <1>2, <1>8 DEF Step, NoAnswer, Answer, RoundEnds, Check, Read, ReadEdit, CutFails,
                    Exec, Reap, SkipSave, CutSession, WriteSession, world
<1> QED
  BY <1>3, <1>4, <1>5, <1>6, <1>7, <1>8

-----------------------------------------------------------------------------
(* Counting what is owed. *)

\* How many outcomes are failures.
Told(f) == Cardinality({i \in DOMAIN f : f[i] = "error"})

\* The model is told one more thing: a failure or not.
LEMMA ToldAppend ==
  ASSUME NEW f \in Seq(Outcomes), NEW w \in Outcomes
  PROVE  /\ Told(f) \in Nat
         /\ Told(Append(f, w)) = Told(f) + (IF w = "error" THEN 1 ELSE 0)
<1> DEFINE n == Len(f)
           g == Append(f, w)
           S == {i \in DOMAIN f : f[i] = "error"}
           T == {i \in DOMAIN g : g[i] = "error"}
<1>1. /\ n \in Nat /\ DOMAIN f = 1 .. n /\ DOMAIN g = 1 .. n + 1
      /\ \A i \in 1 .. n : g[i] = f[i]
      /\ g[n + 1] = w
  OBVIOUS
<1>0. Told(f) = Cardinality(S) /\ Told(g) = Cardinality(T)
  BY DEF Told
<1> HIDE DEF n, g
<1>2. T = IF w = "error" THEN S \cup {n + 1} ELSE S
  BY <1>1
<1>3. n + 1 \notin S /\ S \in SUBSET (1 .. n)
  BY <1>1
<1> HIDE DEF S, T
<1>4. IsFiniteSet(S)
  <2>1. n \in Int
    BY <1>1
  <2>2. IsFiniteSet(1 .. n)
    BY <2>1, FS_Interval
  <2> QED
    BY <1>3, <2>2, FS_Subset
<1>5. /\ Cardinality(S) \in Nat
      /\ Cardinality(S \cup {n + 1}) = Cardinality(S) + 1
  BY <1>3, <1>4, FS_CardinalityType, FS_AddElement
<1>6. Cardinality(T) = Cardinality(S) + (IF w = "error" THEN 1 ELSE 0)
  BY <1>2, <1>5
<1> QED
  BY <1>0, <1>5, <1>6 DEF g

\* One annotation less: an edit or not.
LEMMA EditsInTail ==
  ASSUME NEW s \in Seq(Tags), s # <<>>
  PROVE  /\ EditsIn(s) \in Nat
         /\ EditsIn(Tail(s)) = EditsIn(s) - (IF Head(s).kind \in Edits THEN 1 ELSE 0)
<1> DEFINE n == Len(s)
           t == Tail(s)
           S == {i \in DOMAIN s : s[i].kind \in Edits}
           T == {i \in DOMAIN t : t[i].kind \in Edits}
           R == S \ {1}
<1>1. /\ n \in Nat \ {0} /\ DOMAIN s = 1 .. n /\ Head(s) = s[1]
      /\ DOMAIN t = 1 .. n - 1 /\ \A i \in 1 .. n - 1 : t[i] = s[i + 1]
  OBVIOUS
<1>0. EditsIn(s) = Cardinality(S) /\ EditsIn(t) = Cardinality(T)
  BY DEF EditsIn
<1> HIDE DEF n, t
<1>2. S \in SUBSET (1 .. n)
  BY <1>1
<1>4. \A i \in 1 .. n - 1 : i \in T <=> i + 1 \in R
  BY <1>1
<1>5. T \subseteq 1 .. n - 1 /\ R \subseteq 2 .. n
  BY <1>1, <1>2
<1>6. 1 \in S <=> Head(s).kind \in Edits
  BY <1>1
<1> HIDE DEF S, T
<1>3. IsFiniteSet(S)
  <2>1. n \in Int
    BY <1>1
  <2>2. IsFiniteSet(1 .. n)
    BY <2>1, FS_Interval
  <2> QED
    BY <1>2, <2>2, FS_Subset
<1>7. /\ IsFiniteSet(R) /\ Cardinality(S) \in Nat
      /\ Cardinality(R) = IF 1 \in S THEN Cardinality(S) - 1 ELSE Cardinality(S)
  BY <1>3, FS_RemoveElement, FS_CardinalityType
<1> HIDE DEF R
<1>8. ExistsBijection(R, T)
  <2> DEFINE F == [i \in R |-> i - 1]
  <2>1. F \in [R -> T]
    <3> SUFFICES ASSUME NEW i \in R
                 PROVE  i - 1 \in T
      OBVIOUS
    <3>1. i - 1 \in 1 .. n - 1 /\ (i - 1) + 1 = i
      BY <1>1, <1>5
    <3> QED
      BY <1>4, <3>1
  <2>2. \A a, b \in R : F[a] = F[b] => a = b
    BY <1>1, <1>5
  <2>3. \A x \in T : \E i \in R : F[i] = x
    <3> SUFFICES ASSUME NEW x \in T
                 PROVE  \E i \in R : F[i] = x
      OBVIOUS
    <3>1. x + 1 \in R /\ (x + 1) - 1 = x
      BY <1>1, <1>4, <1>5
    <3> QED
      BY <3>1
  <2> HIDE DEF F
  <2>4. F \in Bijection(R, T)
    BY <2>1, <2>2, <2>3, Fun_IsBij
  <2> QED
    BY <2>4, Fun_ExistsBij
<1>9. Cardinality(T) = Cardinality(R)
  BY <1>7, <1>8, FS_Bijection
<1> QED
  BY <1>0, <1>6, <1>7, <1>9 DEF t

-----------------------------------------------------------------------------
(* Every edit is made, denied or told. *)

Working == {"work", "open", "put", "cut", "command"}

\* What holds of a run that carries out a reply: only edits are written, only commands
\* are run, and what is owed is what is to come and what the model will be told.
Owing(r) ==
  /\ pc[r] \in {"put", "cut"} => Now(r).kind \in Edits
  /\ pc[r] = "command" => Now(r).kind = "exec"
  /\ pc[r] \in Working => owed[r] = EditsIn(todo[r]) + Told(followup[r])

\* Nothing Owing speaks of changes, or the run is not at work.
LEMMA OwingSame ==
  ASSUME NEW t \in Runs, Owing(t),
         \/ pc'[t] = pc[t] /\ UNCHANGED <<todo[t], followup[t], owed[t]>>
         \/ pc'[t] \notin Working
  PROVE  Owing(t)'
BY DEF Owing, Now, Working, EditsIn, Told

\* A step of one run is no step of another.
LEMMA OthersSame ==
  ASSUME IInv, NEW r \in Runs, StartRun(r) \/ Step(r) \/ Command(r) \/ Kill(r),
         NEW t \in Runs, t # r
  PROVE  pc'[t] = pc[t] /\ UNCHANGED <<todo[t], followup[t], owed[t]>>
<1>1. Functions
  BY DEF IInv
<1> USE DEF Functions
<1>2. CASE StartRun(r)
  BY <1>1, <1>2 DEF StartRun, Goto, reply
<1>3. Gone(r) => pc'[t] = pc[t] /\ UNCHANGED <<todo[t], followup[t], owed[t]>>
  BY <1>1 DEF Gone, Goto
<1>4. CASE NoAnswer(r) \/ SkipSave(r) \/ WriteSession(r) \/ Kill(r)
  BY <1>1, <1>3, <1>4 DEF NoAnswer, SkipSave, WriteSession, Kill, Goto, reply
<1>5. CASE Answer(r)
  BY <1>1, <1>5 DEF Answer, Goto
<1>6. CASE RoundEnds(r) \/ CutSession(r)
  BY <1>1, <1>6 DEF RoundEnds, CutSession, Goto, reply
<1>7. Done(r) => pc'[t] = pc[t] /\ UNCHANGED todo[t]
  BY <1>1 DEF Done, Goto
<1>8. \A w : Tell(r, w) => UNCHANGED followup[t]
  BY <1>1 DEF Tell
<1>9. Made(r) => UNCHANGED owed[t]
  BY <1>1 DEF Made
<1>10. CASE Check(r) \/ Read(r)
  BY <1>1, <1>7, <1>8, <1>10 DEF Check, Pass, Read, Goto
<1>11. CASE ReadEdit(r) \/ Cut(r)
  BY <1>1, <1>7, <1>8, <1>11 DEF ReadEdit, Cut, Goto
<1>12. CASE CutFails(r) \/ Put(r)
  BY <1>7, <1>8, <1>9, <1>12 DEF CutFails, Put
<1>13. CASE Exec(r) \/ Reap(r)
  BY <1>1, <1>7, <1>8, <1>13 DEF Exec, Reap, Goto
<1>14. CASE Command(r)
  BY <1>14 DEF Command, Prints, Late, Writes, Exits, ChildBecomes, run, reply
<1> QED
  BY <1>2, <1>4, <1>5, <1>6, <1>10, <1>11, <1>12, <1>13, <1>14 DEF Step

\* The annotation at hand is dealt with: it was an edit and is made, or told, or it was
\* none and is not told as a failure.
LEMMA OwingDone ==
  ASSUME IInv, NEW r \in Runs, Owing(r), pc[r] \in Working, todo[r] # <<>>, Done(r),
         \/ UNCHANGED followup \/ Tell(r, "file") \/ Tell(r, "output") \/ Tell(r, "error"),
         UNCHANGED owed \/ Made(r),
         IF Now(r).kind \in Edits
         THEN \/ Tell(r, "error") /\ UNCHANGED owed
              \/ UNCHANGED followup /\ Made(r)
         ELSE ~Tell(r, "error") /\ UNCHANGED owed
  PROVE  Owing(r)'
<1>1. Functions /\ Sound(r)
  BY DEF IInv, AllSound
<1>2. /\ pc'[r] = "work" /\ todo'[r] = Tail(todo[r])
      /\ todo[r] \in Seq(Tags) /\ followup[r] \in Seq(Outcomes) /\ owed[r] \in Int
  BY <1>1 DEF Functions, Sound, Done, Goto
<1>3. \A w : Tell(r, w) => followup'[r] = Append(followup[r], w)
  BY <1>1 DEF Functions, Tell
<1>4. Made(r) => owed'[r] = owed[r] - 1
  BY <1>1 DEF Functions, Made
<1>5. /\ EditsIn(todo[r]) \in Nat /\ Told(followup[r]) \in Nat
      /\ EditsIn(todo'[r]) = EditsIn(todo[r]) - (IF Now(r).kind \in Edits THEN 1 ELSE 0)
  BY <1>2, EditsInTail, ToldAppend DEF Now, Outcomes
<1>6. /\ Told(Append(followup[r], "error")) = Told(followup[r]) + 1
      /\ Told(Append(followup[r], "file")) = Told(followup[r])
      /\ Told(Append(followup[r], "output")) = Told(followup[r])
  <2>1. "error" \in Outcomes /\ "file" \in Outcomes /\ "output" \in Outcomes
    BY DEF Outcomes
  <2>2. ASSUME NEW w \in Outcomes
        PROVE  /\ Told(Append(followup[r], w)) = Told(followup[r]) + (IF w = "error" THEN 1 ELSE 0)
               /\ Told(followup[r]) \in Nat
    BY <1>2, ToldAppend
  <2> QED
    BY <2>1, <2>2
<1>7. owed[r] = EditsIn(todo[r]) + Told(followup[r])
  BY DEF Owing
<1>8. owed'[r] = EditsIn(todo'[r]) + Told(followup'[r])
  <2>1. CASE Now(r).kind \in Edits /\ Tell(r, "error") /\ UNCHANGED owed
    <3>1. /\ EditsIn(todo'[r]) = EditsIn(todo[r]) - 1 /\ owed'[r] = owed[r]
          /\ Told(followup'[r]) = Told(followup[r]) + 1
      BY <1>3, <1>5, <1>6, <2>1
    <3> QED
      BY <1>2, <1>5, <1>7, <3>1
  <2>2. CASE Now(r).kind \in Edits /\ UNCHANGED followup /\ Made(r)
    BY <1>2, <1>4, <1>5, <1>7, <2>2
  <2>3. CASE Now(r).kind \notin Edits
    <3>1. owed'[r] = owed[r] /\ EditsIn(todo'[r]) = EditsIn(todo[r])
      BY <1>5, <2>3
    <3>2. Told(followup'[r]) = Told(followup[r])
      <4>1. CASE UNCHANGED followup
        BY <4>1
      <4>2. CASE Tell(r, "file")
        BY <1>3, <1>6, <4>2
      <4>3. CASE Tell(r, "output")
        BY <1>3, <1>6, <4>3
      <4> QED
        BY <2>3, <4>1, <4>2, <4>3
    <3> QED
      BY <1>7, <3>1, <3>2
  <2> QED
    BY <2>1, <2>2, <2>3
<1>9. /\ pc'[r] \notin {"put", "cut"} /\ pc'[r] # "command"
  BY <1>2
<1>10. Told(followup[r])' = Told(followup'[r]) /\ EditsIn(todo[r])' = EditsIn(todo'[r])
  BY DEF Told, EditsIn
<1> QED
  BY <1>8, <1>9, <1>10 DEF Owing

\* The annotation at hand stays at hand.
LEMMA OwingHeld ==
  ASSUME IInv, NEW r \in Runs, Owing(r), pc[r] \in Working, UNCHANGED <<todo, followup, owed>>,
         NEW p, pc' = [pc EXCEPT ![r] = p],
         p \in {"put", "cut"} => Now(r).kind \in Edits,
         p = "command" => Now(r).kind = "exec"
  PROVE  Owing(r)'
<1>1. pc'[r] = p
  BY DEF IInv, Functions
<1>2. todo'[r] = todo[r] /\ followup'[r] = followup[r] /\ owed'[r] = owed[r] /\ Now(r)' = Now(r)
  BY DEF Now
<1>3. Told(followup[r])' = Told(followup[r]) /\ EditsIn(todo[r])' = EditsIn(todo[r])
  BY <1>2 DEF Told, EditsIn
<1> QED
  BY <1>1, <1>2, <1>3 DEF Owing

\* Every annotation, however it ends, leaves what is owed in balance.
LEMMA OwingWork ==
  ASSUME IInv, NEW r \in Runs, Owing(r),
         Check(r) \/ Read(r) \/ ReadEdit(r) \/ Cut(r) \/ CutFails(r) \/ Put(r) \/ Exec(r) \/ Reap(r)
  PROVE  Owing(r)'
<1>1. Sound(r) /\ Functions
  BY DEF IInv, AllSound
<1>2. /\ todo[r] # <<>> /\ pc[r] \in Working
  BY <1>1 DEF Check, Read, ReadEdit, Cut, CutFails, Put, Exec, Reap, At, Sound, Working
<1>3. /\ Now(r).kind \in Edits <=> Now(r).kind \notin {"read", "exec"}
      /\ Now(r).kind \in Kinds
  <2>1. Head(todo[r]) \in Tags
    BY <1>1, <1>2 DEF Sound
  <2> QED
    BY <2>1 DEF Now, Tags, Edits, Kinds
<1>4. /\ UNCHANGED followup => ~Tell(r, "error")
      /\ Tell(r, "file") \/ Tell(r, "output") => ~Tell(r, "error")
  <2>1. followup[r] \in Seq(Outcomes)
    BY <1>1 DEF Sound
  <2>2. \A w : Tell(r, w) => followup'[r] = Append(followup[r], w)
    BY <1>1 DEF Tell, Functions
  <2>3. \A w : Append(followup[r], w) # followup[r]
    BY <2>1
  <2>4. /\ Append(followup[r], "error") # Append(followup[r], "file")
        /\ Append(followup[r], "error") # Append(followup[r], "output")
    <3>1. \A w \in Outcomes : Append(followup[r], w)[Len(followup[r]) + 1] = w
      BY <2>1
    <3> QED
      BY <3>1 DEF Outcomes
  <2> QED
    BY <2>2, <2>3, <2>4
<1>5. CASE Check(r)
  <2>1. Now(r).kind # "exec" /\ UNCHANGED owed
    BY <1>5 DEF Check
  <2>2. CASE Allowed(Now(r).path)
    <3>1. pc' = [pc EXCEPT ![r] = "open"] /\ UNCHANGED <<todo, followup, owed>>
      BY <1>5, <2>1, <2>2 DEF Check, Pass, Goto
    <3> QED
      BY <1>2, <3>1, OwingHeld
  <2>3. CASE ~Allowed(Now(r).path)
    <3>1. Done(r) /\ IF Now(r).kind = "read" THEN UNCHANGED followup ELSE Tell(r, "error")
      BY <1>5, <2>3 DEF Check
    <3> QED
      BY <1>2, <1>3, <1>4, <2>1, <3>1, OwingDone
  <2> QED
    BY <2>2, <2>3
<1>6. CASE Read(r)
  <2>1. /\ Now(r).kind = "read" /\ Done(r) /\ (UNCHANGED followup \/ Tell(r, "file"))
        /\ UNCHANGED owed
    BY <1>6 DEF Read
  <2> QED
    BY <1>2, <1>3, <1>4, <2>1, OwingDone
<1>7. CASE ReadEdit(r)
  <2>1. Now(r).kind \in Edits /\ UNCHANGED owed
    BY <1>7 DEF ReadEdit
  <2>2. CASE Done(r) /\ Tell(r, "error")
    BY <1>2, <2>1, <2>2, OwingDone
  <2>3. CASE ~(Done(r) /\ Tell(r, "error"))
    <3>1. pc' = [pc EXCEPT ![r] = "put"] /\ UNCHANGED <<todo, followup, owed>>
      BY <1>7, <2>3 DEF ReadEdit, Goto
    <3> QED
      BY <1>2, <2>1, <3>1, OwingHeld
  <2> QED
    BY <2>2, <2>3
<1>8. CASE Cut(r)
  <2>1. pc[r] = "put" /\ pc' = [pc EXCEPT ![r] = "cut"] /\ UNCHANGED <<todo, followup, owed>>
    BY <1>8 DEF Cut, At, Goto
  <2>2. Now(r).kind \in Edits
    BY <2>1 DEF Owing
  <2> QED
    BY <1>2, <2>1, <2>2, OwingHeld
<1>9. CASE CutFails(r)
  <2>1. /\ pc[r] = "put" /\ Done(r)
        /\ IF Now(r).kind = "write" THEN Tell(r, "error") /\ UNCHANGED owed
           ELSE Made(r) /\ UNCHANGED followup
    BY <1>9 DEF CutFails, At
  <2>2. Now(r).kind \in Edits
    BY <2>1 DEF Owing
  <2> QED
    BY <1>2, <2>1, <2>2, OwingDone
<1>10. CASE Put(r)
  <2>1. pc[r] = "cut" /\ Done(r) /\ Made(r) /\ UNCHANGED followup
    BY <1>10 DEF Put, At
  <2>2. Now(r).kind \in Edits
    BY <2>1 DEF Owing
  <2> QED
    BY <1>2, <2>1, <2>2, OwingDone
<1>11. CASE Exec(r)
  <2>1. Now(r).kind = "exec" /\ UNCHANGED <<followup, owed>>
    BY <1>11 DEF Exec
  <2>2. CASE Done(r)
    BY <1>2, <1>3, <1>4, <2>1, <2>2, OwingDone
  <2>3. CASE ~Done(r)
    <3>1. pc' = [pc EXCEPT ![r] = "command"] /\ UNCHANGED todo
      BY <1>11, <2>3 DEF Exec, Goto
    <3> QED
      BY <1>2, <2>1, <3>1, OwingHeld
  <2> QED
    BY <2>2, <2>3
<1>12. CASE Reap(r)
  <2>1. Done(r) /\ Tell(r, "output") /\ UNCHANGED owed /\ child[r] = "exited"
    BY <1>12 DEF Reap
  <2>2. pc[r] = "command"
    BY <1>1, <2>1 DEF Sound
  <2>3. Now(r).kind = "exec"
    BY <2>2 DEF Owing
  <2> QED
    BY <1>2, <1>3, <1>4, <2>1, <2>3, OwingDone
<1> QED
  BY <1>5, <1>6, <1>7, <1>8, <1>9, <1>10, <1>11, <1>12

\* A reply owes its edits and nothing else.
LEMMA OwingAnswer ==
  ASSUME IInv, NEW r \in Runs, Owing(r), Answer(r)
  PROVE  Owing(r)'
<1>1. Sound(r) /\ Functions
  BY DEF IInv, AllSound
<1>2. followup'[r] = <<>>
  BY <1>1 DEF Answer, Functions
<1>3. CASE caps[r] # {} /\ rounds[r] > 0
  <2>1. PICK a \in Replies : /\ todo' = [todo EXCEPT ![r] = Ordered(a, caps[r])]
                             /\ owed' = [owed EXCEPT ![r] = EditsIn(Ordered(a, caps[r]))]
    BY <1>3 DEF Answer
  <2>2. pc' = [pc EXCEPT ![r] = "work"]
    BY <1>3 DEF Answer, Goto
  <2>3. pc'[r] = "work" /\ todo'[r] = Ordered(a, caps[r]) /\ owed'[r] = EditsIn(Ordered(a, caps[r]))
    BY <1>1, <2>1, <2>2 DEF Functions
  <2>4. EditsIn(todo'[r]) \in Nat
    <3> DEFINE s == todo'[r]
               S == {i \in DOMAIN s : s[i].kind \in Edits}
    <3>1. s \in Seq(Tags)
      BY <2>3, OrderedType
    <3> HIDE DEF s
    <3>2. Len(s) \in Nat /\ S \in SUBSET (1 .. Len(s))
      BY <3>1
    <3>3. IsFiniteSet(S)
      BY <3>2, FS_Interval, FS_Subset
    <3> HIDE DEF S
    <3>4. Cardinality(S) \in Nat
      BY <3>3, FS_CardinalityType
    <3> QED
      BY <3>4 DEF EditsIn, S, s
  <2>5. Told(<<>>) = 0
    BY FS_EmptySet DEF Told
  <2>6. Told(followup[r])' = Told(followup'[r]) /\ EditsIn(todo[r])' = EditsIn(todo'[r])
    BY DEF Told, EditsIn
  <2> QED
    BY <1>2, <2>3, <2>4, <2>5, <2>6 DEF Owing
<1>4. CASE ~(caps[r] # {} /\ rounds[r] > 0)
  <2>1. pc' = [pc EXCEPT ![r] = "save"]
    BY <1>4 DEF Answer, Goto
  <2>2. pc'[r] \notin Working
    BY <1>1, <2>1 DEF Functions, Working
  <2> QED
    BY <2>2, OwingSame
<1> QED
  BY <1>3, <1>4

LEMMA OwingInit == Init => \A r \in Runs : Owing(r)
BY DEF Init, Owing, Working

LEMMA OwingStep == IInv /\ (\A r \in Runs : Owing(r)) /\ [Next]_vars => (\A r \in Runs : Owing(r))'
<1> SUFFICES ASSUME IInv, \A r \in Runs : Owing(r), [Next]_vars
             PROVE  (\A r \in Runs : Owing(r))'
  OBVIOUS
<1>1. CASE UNCHANGED vars
  BY <1>1, OwingSame DEF vars, run, reply
<1>2. ASSUME NEW p \in Paths, Move(p)
      PROVE  (\A r \in Runs : Owing(r))'
  BY <1>2, OwingSame DEF Move, run
<1>3. ASSUME NEW r \in Runs, StartRun(r) \/ Step(r) \/ Command(r) \/ Kill(r)
      PROVE  (\A t \in Runs : Owing(t))'
  <2>1. ASSUME NEW t \in Runs, t # r
        PROVE  Owing(t)'
    BY <1>3, <2>1, OthersSame, OwingSame
  <2>2. Owing(r)'
    <3>1. Functions
      BY DEF IInv
    <3>2. \A s : Goto(r, s) => pc'[r] = s
      BY <3>1 DEF Goto, Functions
    <3>3. CASE Check(r) \/ Read(r) \/ ReadEdit(r) \/ Cut(r) \/ CutFails(r) \/ Put(r) \/ Exec(r) \/ Reap(r)
      BY <3>3, OwingWork
    <3>4. CASE Answer(r)
      BY <3>4, OwingAnswer
    <3>5. CASE StartRun(r) \/ NoAnswer(r) \/ RoundEnds(r) \/ SkipSave(r) \/ CutSession(r)
                \/ WriteSession(r) \/ Kill(r)
      <4>1. pc'[r] \in {"ask", "off", "save", "saving"}
        BY <3>2, <3>5 DEF StartRun, NoAnswer, RoundEnds, SkipSave, CutSession, WriteSession, Kill, Gone
      <4> QED
        BY <4>1, OwingSame DEF Working
    <3>6. CASE Command(r)
      <4>1. UNCHANGED <<pc, todo, followup, owed>>
        BY <3>6 DEF Command, Prints, Late, Writes, Exits, ChildBecomes, run, reply
      <4> QED
        BY <4>1, OwingSame
    <3> QED
      BY <1>3, <3>3, <3>4, <3>5, <3>6 DEF Step
  <2> QED
    BY <2>1, <2>2
<1> QED
  BY <1>1, <1>2, <1>3 DEF Next

-----------------------------------------------------------------------------
(* Theorems. *)

\* The inductive invariant holds in every reachable state.
THEOREM InvAlways == Spec => []IInv
BY InvInit, InvStep, PTL DEF Spec

\* main, process_sync_annotations and save_session keep every run, the files and the
\* session in shape, whatever the model answers.
THEOREM TypeCorrect == Spec => []TypeOK
BY InvAlways, InvImplies, PTL

\* However runs share the session file and whenever one is killed while it saves, every
\* request begins with one system prompt and ends with the user's message.
THEOREM OnePromptAlways == Spec => []OnePrompt
BY InvAlways, InvImplies, PTL

\* A save loses nothing of a session that nobody saved since its run loaded it.
THEOREM HistoryKeptAlways == Spec => HistoryKept
<1>1. ASSUME IInv, NEW r \in Runs, WriteSession(r), ~stale[r]
      PROVE  \E n \in 0 .. Len(session') : kept = SubSeq(session', 1, n)
  BY <1>1, SaveContinues
<1>2. IInv /\ [Next]_vars =>
        [\A r \in Runs : (WriteSession(r) /\ ~stale[r]) =>
           \E n \in 0 .. Len(session') : kept = SubSeq(session', 1, n)]_vars
  BY <1>1
<1> QED
  BY <1>2, InvAlways, PTL DEF Spec, HistoryKept

\* Whatever links are moved, an edit leaves the sandbox only if its path ended in a link
\* to nothing when path_allowed saw it, or was moved between that and the write.
THEOREM EditsStayInsideAlways == Spec => EditsStayInside
<1>1. ASSUME IInv, [Next]_vars, NEW p \in Places \ Inside, disk'[p] # disk[p]
      PROVE  \E r \in Runs : Writes(r) \/ (pc[r] \in {"put", "cut"} /\ pc'[r] # pc[r] /\ loose[r])
  <2>1. disk' # disk
    BY <1>1
  <2>2. \A q \in Paths : ~Move(q)
    BY <2>1 DEF Move
  <2>3. ~UNCHANGED vars
    BY <2>1 DEF vars, world
  <2>4. PICK r \in Runs : StartRun(r) \/ Step(r) \/ Command(r) \/ Kill(r)
    BY <1>1, <2>2, <2>3 DEF Next
  <2> QED
    BY <1>1, <2>4, DiskStep
<1>2. IInv /\ [Next]_vars =>
        [\A p \in Places \ Inside : disk'[p] # disk[p] =>
           \E r \in Runs : Writes(r) \/ (pc[r] \in {"put", "cut"} /\ pc'[r] # pc[r] /\ loose[r])]_vars
  BY <1>1
<1> QED
  BY <1>2, InvAlways, PTL DEF Spec, EditsStayInside

\* At any time between two annotations an edit of the reply is yet to come, has been
\* made or denied by the system, or will be told to the model as a failure: none is
\* lost, whatever the user moves and other runs write meanwhile.
THEOREM EditsToldOrMadeAlways == Spec => []EditsToldOrMade
<1> DEFINE AllOwing == \A r \in Runs : Owing(r)
<1>1. Init => AllOwing
  BY OwingInit
<1>2. IInv /\ AllOwing /\ [Next]_vars => AllOwing'
  BY OwingStep
<1>3. AllOwing => EditsToldOrMade
  BY DEF Owing, EditsToldOrMade, Told, Working
<1> HIDE DEF AllOwing
<1> QED
  BY <1>1, <1>2, <1>3, InvAlways, PTL DEF Spec
=============================================================================
