------------------------- MODULE Conversation_proofs ------------------------
(***************************************************************************)
(* Proofs about Conversation, for every value of its constants.            *)
(***************************************************************************)
EXTENDS Conversation, SequenceTheorems, NaturalsInduction, WellFoundedInduction, TLAPS

-----------------------------------------------------------------------------
(* Lemmas about the operators on histories. *)

\* Every history has a leading run of system messages, so Leading is a
\* length, and the message behind the run is no system message.
LEMMA LeadingProperties ==
  ASSUME NEW h \in Seq(Message)
  PROVE  /\ Leading(h) \in 0 .. Len(h)
         /\ \A i \in 1 .. Leading(h) : IsSystem(h[i])
         /\ Leading(h) < Len(h) => ~IsSystem(h[Leading(h) + 1])
<1> DEFINE Others == {i \in 1 .. Len(h) : ~IsSystem(h[i])}
           Run(n) == /\ \A i \in 1 .. n : IsSystem(h[i])
                     /\ n < Len(h) => ~IsSystem(h[n + 1])
<1>1. Len(h) \in Nat
  BY LenProperties
<1>2. \E n \in 0 .. Len(h) : Run(n)
  <2>1. CASE Others = {}
    BY <1>1, <2>1
  <2>2. CASE Others # {}
    <3>1. Others \subseteq Nat
      BY <1>1
    <3>2. PICK m \in Others : \A k \in Others : <<k, m>> \notin OpToRel(<, Nat)
      BY <2>2, <3>1, NatLessThanWellFounded, WFMin
    <3>3. \A k \in Others : ~(k < m)
      BY <3>1, <3>2 DEF OpToRel
    <3>4. m - 1 \in 0 .. Len(h) /\ Run(m - 1)
      BY <1>1, <3>3
    <3> QED
      BY <3>4
  <2> QED
    BY <2>1, <2>2
<1> HIDE DEF Run
<1>3. Leading(h) \in 0 .. Len(h) /\ Run(Leading(h))
  BY <1>2 DEF Leading, Run
<1> QED
  BY <1>3 DEF Run

\* Feeding c results back puts c user messages behind the history.
LEMMA FedProperties ==
  ASSUME NEW h \in Seq(Message), NEW c \in Nat
  PROVE  /\ Fed(h, c) \in Seq(Message)
         /\ Len(Fed(h, c)) = Len(h) + c
         /\ \A i \in 1 .. Len(h) + c :
              Fed(h, c)[i] = IF i <= Len(h) THEN h[i] ELSE Msg("context")
<1> DEFINE f == [i \in 1 .. c |-> Msg("context")]
<1>1. Msg("context") \in Message
  BY DEF Msg, Message, Kinds, UserKinds
<1>2. f \in [1 .. c -> Message]
  BY <1>1
<1>3. f \in Seq(Message)
  BY <1>2, SeqDef
<1>4. Len(f) = c /\ \A i \in 1 .. c : f[i] = Msg("context")
  BY <1>2, <1>3, LenProperties
<1> HIDE DEF f
<1>5. Fed(h, c) = h \o f
  BY DEF Fed, f
<1>6. /\ h \o f \in Seq(Message)
      /\ Len(h \o f) = Len(h) + c
      /\ \A i \in 1 .. Len(h) + c : (h \o f)[i] = IF i <= Len(h) THEN h[i] ELSE f[i - Len(h)]
  BY <1>3, <1>4, ConcatProperties
<1>7. Len(h) \in Nat
  BY LenProperties
<1> QED
  BY <1>4, <1>5, <1>6, <1>7

\* t is h without the d messages that follow its first p, which are system
\* messages; if there are any, the first is no system message, and none is
\* among the last two of h.
Drops(t, h, p, d) ==
  /\ Len(t) = Len(h) - d
  /\ p + d <= Len(h)
  /\ d > 0 => p + d + 2 <= Len(h) /\ ~IsSystem(h[p + 1])
  /\ \A i \in 1 .. p : IsSystem(h[i])
  /\ \A i \in 1 .. Len(h) - d : t[i] = IF i <= p THEN h[i] ELSE h[i + d]

\* What the window drops lies behind the leading system messages and in front of
\* the last two messages.
LEMMA TrimShape ==
  ASSUME NEW h \in Seq(Message)
  PROVE  /\ Trim(h) \in Seq(Message)
         /\ \E p, d \in 0 .. Len(h) : Drops(Trim(h), h, p, d)
<1>1. Len(h) \in Nat
  BY LenProperties
<1>2. CASE MaxHistory <= 0 \/ Len(h) - Leading(h) <= Keep
  <2>1. Trim(h) = h
    BY <1>2 DEF Trim
  <2>2. Drops(h, h, 0, 0)
    BY <1>1 DEF Drops
  <2> QED
    BY <1>1, <2>1, <2>2
<1>3. CASE ~(MaxHistory <= 0 \/ Len(h) - Leading(h) <= Keep)
  <2> DEFINE p == Leading(h)
             a == SubSeq(h, 1, p)
             b == SubSeq(h, Len(h) - Keep + 1, Len(h))
  <2>1. p \in 0 .. Len(h) /\ \A i \in 1 .. p : IsSystem(h[i])
    BY LeadingProperties
  <2>2. Keep \in Nat /\ Keep >= 2 /\ p + Keep < Len(h)
    BY <1>1, <1>3, <2>1, ConstantsAssumption DEF Keep
  <2>0. ~IsSystem(h[p + 1])
    BY <1>1, <2>1, <2>2, LeadingProperties
  <2> HIDE DEF p
  <2>3. Trim(h) = a \o b
    BY <1>3 DEF Trim, p
  <2>4. \A i \in 1 .. Len(h) : h[i] \in Message
    BY ElementOfSeq
  <2>5. a \in Seq(Message) /\ Len(a) = p /\ \A i \in 1 .. p : a[i] = h[i]
    BY <1>1, <2>1, <2>4, SubSeqProperties
  <2>6. /\ b \in Seq(Message)
        /\ Len(b) = Keep
        /\ \A i \in 1 .. Keep : b[i] = h[Len(h) - Keep + i]
    <3>1. \A i \in Len(h) - Keep + 1 .. Len(h) : h[i] \in Message
      BY <1>1, <2>1, <2>2, <2>4
    <3>2. /\ b \in Seq(Message)
          /\ Len(b) = IF Len(h) - Keep + 1 <= Len(h) THEN Len(h) - (Len(h) - Keep + 1) + 1 ELSE 0
          /\ \A i \in 1 .. Len(h) - (Len(h) - Keep + 1) + 1 : b[i] = h[Len(h) - Keep + 1 + i - 1]
      BY <1>1, <2>2, <3>1, SubSeqProperties
    <3> QED
      BY <1>1, <2>2, <3>2
  <2> HIDE DEF a, b
  <2>7. /\ a \o b \in Seq(Message)
        /\ Len(a \o b) = p + Keep
        /\ \A i \in 1 .. p + Keep : (a \o b)[i] = IF i <= p THEN a[i] ELSE b[i - p]
    <3>1. /\ a \o b \in Seq(Message)
          /\ Len(a \o b) = Len(a) + Len(b)
          /\ \A i \in 1 .. Len(a) + Len(b) :
               (a \o b)[i] = IF i <= Len(a) THEN a[i] ELSE b[i - Len(a)]
      BY <2>5, <2>6, ConcatProperties
    <3> QED
      BY <2>5, <2>6, <3>1
  <2> DEFINE d == Len(h) - p - Keep
  <2>8. /\ d \in 0 .. Len(h)
        /\ Len(Trim(h)) = Len(h) - d
        /\ p + d + 2 <= Len(h)
    BY <1>1, <2>1, <2>2, <2>3, <2>7
  <2>9. \A i \in 1 .. Len(h) - d : Trim(h)[i] = IF i <= p THEN h[i] ELSE h[i + d]
    <3> SUFFICES ASSUME NEW i \in 1 .. p + Keep
                 PROVE  Trim(h)[i] = IF i <= p THEN h[i] ELSE h[i + d]
      BY <1>1, <2>1, <2>2
    <3>1. CASE i <= p
      BY <1>1, <2>1, <2>3, <2>5, <2>7, <3>1
    <3>2. CASE ~(i <= p)
      <4>1. i - p \in 1 .. Keep /\ Len(h) - Keep + (i - p) = i + d
        BY <1>1, <2>1, <2>2, <3>2
      <4>2. Trim(h)[i] = h[Len(h) - Keep + (i - p)]
        BY <2>3, <2>6, <2>7, <3>2, <4>1
      <4> QED
        BY <3>2, <4>1, <4>2
    <3> QED
      BY <3>1, <3>2
  <2> HIDE DEF d
  <2>10. Drops(Trim(h), h, p, d)
    BY <1>1, <2>0, <2>1, <2>8, <2>9 DEF Drops
  <2> QED
    BY <2>1, <2>3, <2>7, <2>8, <2>10
<1> QED
  BY <1>2, <1>3

\* The window breaks up no prompt and reply.
LEMMA TrimAnswered ==
  ASSUME NEW h \in Seq(Message), NEW open \in BOOLEAN, Answered(h, open)
  PROVE  Answered(Trim(h), open)
<1>1. Len(h) \in Nat
  BY LenProperties
<1>2. PICK p, d \in 0 .. Len(h) : Drops(Trim(h), h, p, d)
  BY TrimShape
<1> SUFFICES ASSUME NEW i \in 1 .. Len(h) - d, Trim(h)[i].kind = "ask"
             PROVE  IF i < Len(h) - d THEN Trim(h)[i + 1].kind = "reply" ELSE open
  BY <1>2 DEF Answered, Drops
<1>3. i > p /\ h[i + d].kind = "ask"
  <2>1. ~(i <= p)
    <3>1. i <= p => Trim(h)[i] = h[i] /\ IsSystem(h[i])
      BY <1>2 DEF Drops
    <3> QED
      BY <3>1 DEF IsSystem, SystemKinds
  <2> QED
    BY <1>1, <1>2, <2>1 DEF Drops
<1>4. IF i + d < Len(h) THEN h[i + d + 1].kind = "reply" ELSE open
  BY <1>1, <1>3 DEF Answered
<1>5. ASSUME i < Len(h) - d
      PROVE  Trim(h)[i + 1].kind = "reply"
  <2>1. i + 1 \in 1 .. Len(h) - d /\ ~(i + 1 <= p) /\ (i + 1) + d = i + d + 1
        /\ i + d < Len(h)
    BY <1>1, <1>3, <1>5
  <2>2. Trim(h)[i + 1] = h[(i + 1) + d]
    BY <1>2, <2>1 DEF Drops
  <2> QED
    BY <1>4, <2>1, <2>2
<1>6. ASSUME ~(i < Len(h) - d)
      PROVE  open
  <2>1. ~(i + d < Len(h))
    BY <1>1, <1>6
  <2> QED
    BY <1>4, <2>1
<1> QED
  BY <1>5, <1>6

\* The leading run ends where the first message that is no system message is.
LEMMA LeadingUnique ==
  ASSUME NEW h \in Seq(Message), NEW p \in 0 .. Len(h) - 1,
         \A i \in 1 .. p : IsSystem(h[i]), ~IsSystem(h[p + 1])
  PROVE  Leading(h) = p
<1>1. Len(h) \in Nat
  BY LenProperties
<1>2. /\ Leading(h) \in 0 .. Len(h)
      /\ \A i \in 1 .. Leading(h) : IsSystem(h[i])
      /\ Leading(h) < Len(h) => ~IsSystem(h[Leading(h) + 1])
  BY LeadingProperties
<1>3. ~(p < Leading(h))
  BY <1>1, <1>2
<1>4. ~(Leading(h) < p)
  BY <1>1, <1>2
<1> QED
  BY <1>1, <1>2, <1>3, <1>4

\* The window never drops a system prompt that comes first.
LEMMA TrimKeepsPrompt ==
  ASSUME NEW h \in Seq(Message), HasPrompt(h)
  PROVE  HasPrompt(Trim(h))
<1>1. Len(h) \in Nat /\ Len(h) > 0 /\ h[1].kind = "prompt"
  BY LenProperties, EmptySeq DEF HasPrompt
<1>2. PICK p, d \in 0 .. Len(h) : Drops(Trim(h), h, p, d)
  BY TrimShape
<1>3. d > 0 => p >= 1
  BY <1>1, <1>2 DEF Drops, IsSystem, SystemKinds
<1>4. Len(Trim(h)) > 0 /\ Trim(h)[1] = h[1]
  BY <1>1, <1>2, <1>3 DEF Drops
<1>5. Trim(h) # <<>>
  BY <1>4, EmptySeq
<1> QED
  BY <1>1, <1>4, <1>5 DEF HasPrompt

\* A message of each kind is a message.
LEMMA MsgProperties ==
  ASSUME NEW k \in Kinds
  PROVE  Msg(k) \in Message /\ Msg(k).kind = k /\ Msg(k).rated = FALSE
BY DEF Msg, Message

\* One message behind a history.
LEMMA OneMore ==
  ASSUME NEW h \in Seq(Message), NEW m \in Message
  PROVE  /\ h \o <<m>> = Append(h, m)
         /\ h \o <<>> = h
         /\ Append(h, m) \in Seq(Message)
         /\ Append(h, m) # <<>>
         /\ Len(Append(h, m)) = Len(h) + 1
         /\ \A i \in 1 .. Len(h) : Append(h, m)[i] = h[i]
         /\ Append(h, m)[Len(h) + 1] = m
BY AppendProperties, AppendIsConcat, ConcatEmptySeq

\* One message in front of a history, and a history without its first message.
LEMMA OneBefore ==
  ASSUME NEW h \in Seq(Message), NEW m \in Message
  PROVE  /\ <<m>> \o h \in Seq(Message)
         /\ Len(<<m>> \o h) = Len(h) + 1
         /\ \A i \in 1 .. Len(h) + 1 : (<<m>> \o h)[i] = IF i = 1 THEN m ELSE h[i - 1]
<1>1. <<m>> \in Seq(Message) /\ Len(<<m>>) = 1 /\ <<m>>[1] = m
  OBVIOUS
<1>2. Len(h) \in Nat
  BY LenProperties
<1> QED
  BY <1>1, <1>2, ConcatProperties

\* A new prompt changes the kind of the first message and nothing else.
LEMMA NewPromptShape ==
  ASSUME NEW h \in Seq(Message), h # <<>>
  PROVE  /\ NewPrompt(h) \in Seq(Message)
         /\ Len(NewPrompt(h)) = Len(h)
         /\ NewPrompt(h)[1].kind = "prompt"
         /\ \A i \in 2 .. Len(h) : NewPrompt(h)[i] = h[i]
<1>1. /\ Len(h) \in Nat /\ Len(h) > 0
      /\ 1 \in 1 .. Len(h)
      /\ \A i \in 2 .. Len(h) : i \in 1 .. Len(h) /\ i # 1
  BY LenProperties, EmptySeq
<1>2. h[1] \in Message
  BY <1>1, ElementOfSeq
<1> DEFINE m == [h[1] EXCEPT !.kind = "prompt"]
<1>3. m \in Message /\ m.kind = "prompt"
  BY <1>2 DEF Message, Kinds, SystemKinds
<1>4. NewPrompt(h) = [h EXCEPT ![1] = m]
  BY DEF NewPrompt
<1> HIDE DEF m
<1> QED
  BY <1>1, <1>3, <1>4, ExceptSeq

\* Two messages in a row.
LEMMA TwoMessages ==
  ASSUME NEW m \in Message, NEW n \in Message
  PROVE  <<m>> \o <<n>> = <<m, n>>
<1>1. <<n>> \in Seq(Message) /\ Len(<<n>>) = 1 /\ <<n>>[1] = n
  OBVIOUS
<1>2. <<m, n>> \in Seq(Message) /\ Len(<<m, n>>) = 2 /\ <<m, n>>[1] = m /\ <<m, n>>[2] = n
  OBVIOUS
<1>3. /\ <<m>> \o <<n>> \in Seq(Message)
      /\ Len(<<m>> \o <<n>>) = 2
      /\ (<<m>> \o <<n>>)[1] = m
      /\ (<<m>> \o <<n>>)[2] = n
  BY <1>1, OneBefore
<1>4. \A i \in 1 .. 2 : (<<m>> \o <<n>>)[i] = <<m, n>>[i]
  <2> SUFFICES ASSUME NEW i \in 1 .. 2
               PROVE  (<<m>> \o <<n>>)[i] = <<m, n>>[i]
    OBVIOUS
  <2>1. i = 1 \/ i = 2
    OBVIOUS
  <2> QED
    BY <1>2, <1>3, <2>1
<1> DEFINE s == <<m>> \o <<n>>
           t == <<m, n>>
<1>5. s \in Seq(Message) /\ t \in Seq(Message) /\ Len(s) = Len(t)
  BY <1>2, <1>3
<1>6. \A i \in 1 .. Len(s) : s[i] = t[i]
  BY <1>3, <1>4
<1> HIDE DEF s, t
<1>7. s = t
  BY <1>5, <1>6, SeqEqual
<1> QED
  BY <1>7 DEF s, t

\* What keeps the messages of a history in place keeps its system prompt.
LEMMA FirstKept ==
  ASSUME NEW h \in Seq(Message), HasPrompt(h), NEW t,
         t # <<>>, t[1].kind = h[1].kind
  PROVE  HasPrompt(t)
BY DEF HasPrompt

-----------------------------------------------------------------------------
(* Every step keeps the state well formed. *)

\* What is sent ends with the prompt, behind its reminder.
LEMMA SentProperties ==
  ASSUME NEW h \in Seq(Message), NEW n \in Nat
  PROVE  /\ Sent(h, n) \in Seq(Message)
         /\ Len(Sent(h, n)) = Len(h) + (IF n >= 2 THEN 2 ELSE 1)
         /\ \A i \in 1 .. Len(h) : Sent(h, n)[i] = h[i]
         /\ Sent(h, n)[Len(Sent(h, n))] = Msg("ask")
         /\ n >= 2 => Sent(h, n)[Len(h) + 1] = Msg("reminder")
<1> DEFINE r == Append(h, Msg("reminder"))
<1>1. Msg("reminder") \in Message /\ Msg("ask") \in Message
  BY MsgProperties DEF Kinds, SystemKinds, UserKinds
<1>2. Len(h) \in Nat
  BY LenProperties
<1>3. CASE n >= 2
  <2>1. Sent(h, n) = Append(r, Msg("ask"))
    BY <1>1, <1>3, OneMore DEF Sent
  <2>2. /\ r \in Seq(Message) /\ Len(r) = Len(h) + 1
        /\ \A i \in 1 .. Len(h) : r[i] = h[i]
        /\ r[Len(h) + 1] = Msg("reminder")
    BY <1>1, OneMore
  <2> HIDE DEF r
  <2>3. /\ Append(r, Msg("ask")) \in Seq(Message)
        /\ Len(Append(r, Msg("ask"))) = Len(r) + 1
        /\ \A i \in 1 .. Len(r) : Append(r, Msg("ask"))[i] = r[i]
        /\ Append(r, Msg("ask"))[Len(r) + 1] = Msg("ask")
    BY <1>1, <2>2, OneMore
  <2> QED
    BY <1>2, <1>3, <2>1, <2>2, <2>3
<1>4. CASE ~(n >= 2)
  <2>1. Sent(h, n) = Append(h, Msg("ask"))
    BY <1>1, <1>4, OneMore DEF Sent
  <2>2. /\ Append(h, Msg("ask")) \in Seq(Message)
        /\ Len(Append(h, Msg("ask"))) = Len(h) + 1
        /\ \A i \in 1 .. Len(h) : Append(h, Msg("ask"))[i] = h[i]
        /\ Append(h, Msg("ask"))[Len(h) + 1] = Msg("ask")
    BY <1>1, OneMore
  <2> QED
    BY <1>2, <1>4, <2>1, <2>2
<1> QED
  BY <1>3, <1>4

\* A reply that is taken leaves a well formed state.
LEMMA TakeReplyType ==
  ASSUME TypeOK, NEW n \in Nat, NEW c \in Nat, NEW d \in Nat, TakeReply(n, c, d)
  PROVE  /\ history' \in Seq(Message) /\ lastIdx' \in Nat /\ phase' \in Phases
         /\ reminded' \in BOOLEAN /\ followups' \in 0 .. MaxFollowups
         /\ phase' = "followup" => followups' < MaxFollowups
         /\ tasks' \in TaskCounts /\ before' \in Seq(Message)
<1>1. Msg("reply") \in Message
  BY MsgProperties DEF Kinds, AssistantKinds
<1>2. Append(history, Msg("reply")) \in Seq(Message)
  BY <1>1, OneMore DEF TypeOK
<1>3. history' \in Seq(Message)
  BY <1>2, FedProperties DEF TakeReply
<1>4. lastIdx' \in Nat
  BY LenProperties DEF TakeReply, TypeOK
<1>5. tasks' \in TaskCounts
  <2>1. tasks' = [tasks EXCEPT !.running = @ + d] /\ tasks \in TaskCounts
    BY DEF TakeReply, Delegate, TypeOK
  <2>2. tasks.running + d \in Nat
    BY <2>1 DEF TaskCounts
  <2> QED
    BY <2>1, <2>2 DEF TaskCounts
<1>6. CASE NeedsCall(n, c)
  <2>1. n \in 0 .. MaxFollowups /\ n < MaxFollowups
    BY <1>6, ConstantsAssumption DEF NeedsCall
  <2> QED
    BY <1>3, <1>4, <1>5, <1>6, <2>1 DEF TakeReply, TypeOK, Phases
<1>7. CASE ~NeedsCall(n, c)
  <2>1. <<>> \in Seq(Message)
    BY EmptySeq
  <2>2. PromptOver
    BY <1>7 DEF TakeReply
  <2>3. reminded' \in BOOLEAN
    BY <2>2 DEF PromptOver
  <2>4. /\ phase' \in Phases /\ phase' # "followup"
        /\ followups' \in 0 .. MaxFollowups /\ before' \in Seq(Message)
    BY <2>1, <2>2, ConstantsAssumption DEF PromptOver, Phases
  <2> QED
    BY <1>3, <1>4, <1>5, <2>3, <2>4
<1> QED
  BY <1>6, <1>7

\* Every step keeps the state well formed.
LEMMA TypeStep == TypeOK /\ [Next]_vars => TypeOK'
<1> SUFFICES ASSUME TypeOK, [Next]_vars
             PROVE  TypeOK'
  OBVIOUS
<1> DEFINE Seqs == Seq(Message)
<1>0. /\ history \in Seqs /\ Len(history) \in Nat /\ <<>> \in Seqs
      /\ \A i \in 1 .. Len(history) : history[i] \in Message
  BY LenProperties, EmptySeq, ElementOfSeq DEF TypeOK
<1>m. \A k \in Kinds : Msg(k) \in Message
  BY MsgProperties
<1>1. CASE SendPrompt
  <2>1. history' \in Seqs
    <3>1. Sent(history, count) \in Seqs
      BY SentProperties DEF TypeOK
    <3>2. history' = Trim(Sent(history, count))
      BY <1>1 DEF SendPrompt
    <3> QED
      BY <3>1, <3>2, TrimShape
  <2>2. reminded' \in BOOLEAN
    BY <1>1 DEF SendPrompt
  <2> QED
    BY <1>1, <2>1, <2>2 DEF SendPrompt, TypeOK, Phases
<1>2. CASE CallReturns
  <2>1. ASSUME NEW c \in 0 .. MaxContexts, NEW d \in 0 .. MaxTasks - Pending, Reply(c, d)
        PROVE  TypeOK'
    <3>1. c \in Nat /\ d \in Nat /\ TakeReply(0, c, d)
      BY <2>1 DEF Reply
    <3> QED
      BY <2>1, <3>1, TakeReplyType DEF Reply, TypeOK
  <2>2. ASSUME NEW c \in 0 .. MaxContexts, NEW d \in 0 .. MaxTasks - Pending,
               FollowupReply(c, d)
        PROVE  TypeOK'
    <3>1. c \in Nat /\ d \in Nat /\ followups + 1 \in Nat /\ TakeReply(followups + 1, c, d)
      BY <2>2 DEF FollowupReply, TypeOK
    <3> QED
      BY <2>2, <3>1, TakeReplyType DEF FollowupReply, TypeOK
  <2>3. ASSUME PromptOver, history' \in Seqs, UNCHANGED <<count, lastIdx, tasks, chats>>
        PROVE  TypeOK'
    <3>1. reminded' \in BOOLEAN
      BY <2>3 DEF PromptOver
    <3> QED
      BY <1>0, <2>3, <3>1, ConstantsAssumption DEF PromptOver, TypeOK, Phases
  <2>4. CASE Interrupt
    <3>1. SubSeq(history, 1, Len(history) - (IF reminded THEN 2 ELSE 1)) \in Seqs
      BY <1>0, SubSeqProperties
    <3> QED
      BY <2>3, <2>4, <3>1 DEF Interrupt
  <2>5. CASE InterruptFollowup
    BY <1>0, <2>3, <2>5 DEF InterruptFollowup
  <2> QED
    BY <1>2, <2>1, <2>2, <2>4, <2>5 DEF CallReturns
<1>3. ASSUME UNCHANGED <<promptVars, phase, chats>>, history' \in Seqs, tasks' \in TaskCounts
      PROVE  TypeOK'
  BY <1>3 DEF TypeOK, promptVars
<1>4. CASE Clear
  BY <1>0, <1>3, <1>4 DEF Clear, TypeOK
<1>5. CASE PushContext
  <2>1. Append(history, Msg("context")) \in Seqs
    BY <1>0, <1>m, OneMore DEF Kinds, UserKinds
  <2> QED
    BY <1>3, <1>5, <2>1 DEF PushContext, TypeOK
<1>6. CASE Mention
  <2>1. <<Msg("ask"), Msg("reply")>> \in Seqs
    BY <1>m DEF Kinds, UserKinds, AssistantKinds
  <2>2. history \o <<Msg("ask"), Msg("reply")>> \in Seqs
    BY <1>0, <2>1, ConcatProperties
  <2> QED
    BY <1>3, <1>6, <2>2 DEF Mention, TypeOK
<1>7. Msg("prompt") \in Message
  BY <1>m DEF Kinds, SystemKinds
<1>8. CASE SetAgent
  <2>1. <<Msg("prompt")>> \o history \in Seqs
    BY <1>0, <1>7, OneBefore
  <2>2. history # <<>> => NewPrompt(history) \in Seqs
    BY <1>0, NewPromptShape
  <2> QED
    BY <1>3, <1>8, <2>1, <2>2 DEF SetAgent, TypeOK
<1>9. CASE ResetAgent
  <2>1. history # <<>> => NewPrompt(history) \in Seqs
    BY <1>0, NewPromptShape
  <2> QED
    BY <1>3, <1>9, <2>1 DEF ResetAgent, TypeOK
<1>10. CASE Compress
  <2>1. Msg("summary") \in Message
    BY <1>m DEF Kinds, AssistantKinds
  <2>2. <<Msg("summary")>> \in Seqs
    BY <2>1
  <2>3. history[1] \in Message
    BY <1>0, <1>10 DEF Compress
  <2>4. <<history[1]>> \o <<Msg("summary")>> \in Seqs
    BY <2>2, <2>3, OneBefore
  <2>5. <<>> \o <<Msg("summary")>> \in Seqs
    BY <2>2, ConcatEmptySeq
  <2> QED
    BY <1>3, <1>10, <2>4, <2>5 DEF Compress, TypeOK
<1>11. ASSUME NEW n \in ChatNames
       PROVE  /\ SaveChat(n) => TypeOK'
              /\ LoadChat(n) => TypeOK'
              /\ DeleteChat(n) => TypeOK'
  <2>1. CASE SaveChat(n)
    <3>1. \A i \in 1 .. Len(history) : Msg(history[i].kind) \in Message
      BY <1>0, <1>m DEF Message
    <3>2. Saved(history) \in Seqs
      BY <1>0, <3>1, SeqDef DEF Saved
    <3> QED
      BY <2>1, <3>2 DEF SaveChat, TypeOK, promptVars
  <2>2. CASE LoadChat(n)
    BY <1>3, <2>2 DEF LoadChat, TypeOK
  <2>3. CASE DeleteChat(n)
    BY <2>3 DEF DeleteChat, TypeOK, promptVars
  <2> QED
    BY <2>1, <2>2, <2>3
<1>12. ASSUME NEW i \in 1 .. Len(history), Rated(i)
       PROVE  history' \in Seqs
  <2>1. [history[i] EXCEPT !.rated = TRUE] \in Message
    BY <1>0 DEF Message
  <2>2. [history EXCEPT ![i] = [history[i] EXCEPT !.rated = TRUE]] \in Seqs
    BY <1>0, <2>1, ExceptSeq
  <2> QED
    BY <1>12, <2>2 DEF Rated
<1>13. CASE RateLast
  BY <1>3, <1>12, <1>13 DEF RateLast, TypeOK
<1>14. ASSUME NEW i \in 1 .. Len(history), RateNumbered(i)
       PROVE  TypeOK'
  BY <1>3, <1>12, <1>14 DEF RateNumbered, TypeOK
<1>15. CASE TaskEnds
  <2>1. /\ tasks.running \in Nat /\ tasks.ready \in Nat /\ tasks.failed \in Nat
        /\ tasks.running - 1 \in Nat
    BY <1>15 DEF TaskEnds, TypeOK, TaskCounts
  <2>2. tasks' \in TaskCounts
    <3>1. tasks = [running |-> tasks.running, ready |-> tasks.ready, failed |-> tasks.failed]
      BY DEF TypeOK, TaskCounts
    <3>2. \/ tasks' = [running |-> tasks.running - 1, ready |-> tasks.ready + 1,
                       failed |-> tasks.failed]
          \/ tasks' = [running |-> tasks.running - 1, ready |-> tasks.ready,
                       failed |-> tasks.failed + 1]
      BY <1>15, <3>1, Zenon DEF TaskEnds
    <3> QED
      BY <2>1, <3>2 DEF TaskCounts
  <2> QED
    BY <1>15, <2>2 DEF TaskEnds, TypeOK, promptVars
<1>16. CASE CollectTasks
  <2>1. tasks.ready \in Nat /\ tasks' \in TaskCounts
    BY <1>16 DEF CollectTasks, TypeOK, TaskCounts, NoTasks
  <2>2. history' \in Seqs
    BY <1>0, <1>16, <2>1, FedProperties DEF CollectTasks
  <2> QED
    BY <1>3, <1>16, <2>1, <2>2 DEF CollectTasks
<1>17. CASE Exit
  BY <1>17 DEF Exit, TypeOK, Phases, promptVars
<1>18. CASE Leave
  BY <1>18 DEF Leave, TypeOK, Phases, promptVars
<1>19. CASE UNCHANGED vars
  BY <1>19 DEF vars, TypeOK
<1> QED
  BY <1>1, <1>2, <1>4, <1>5, <1>6, <1>8, <1>9, <1>10, <1>11, <1>13, <1>14, <1>15, <1>16,
     <1>17, <1>18, <1>19 DEF Next

\* A session starts well formed.
LEMMA TypeInit == Init => TypeOK
<1> SUFFICES ASSUME Init
             PROVE  TypeOK
  OBVIOUS
<1>1. Msg("prompt") \in Message
  BY MsgProperties DEF Kinds, SystemKinds
<1>2. <<>> \in Seq(Message) /\ <<Msg("prompt")>> \in Seq(Message)
  BY <1>1
<1>3. history \in Seq(Message) /\ before \in Seq(Message)
  BY <1>2 DEF Init
<1>4. reminded \in BOOLEAN
  BY DEF Init
<1>5. count \in Nat /\ lastIdx \in Nat /\ followups \in 0 .. MaxFollowups
  BY ConstantsAssumption DEF Init
<1>6. tasks \in TaskCounts /\ phase \in Phases
  BY DEF Init, TaskCounts, NoTasks, Phases
<1>7. chats \in [ChatNames -> Seq(Message) \cup {NoChat}]
  BY DEF Init
<1>8. phase # "followup"
  BY DEF Init
<1> QED
  BY <1>3, <1>4, <1>5, <1>6, <1>7, <1>8 DEF TypeOK

\* The state is always well formed; in particular no prompt under way has made
\* more than MaxFollowups follow-up calls.
THEOREM TypeCorrect == Spec => []TypeOK
BY TypeInit, TypeStep, PTL DEF Spec

-----------------------------------------------------------------------------
(* Which changes to a history leave every prompt answered. *)

\* A message that is no prompt may follow.
LEMMA AnsweredAppend ==
  ASSUME NEW h \in Seq(Message), Answered(h, FALSE),
         NEW m \in Message, m.kind # "ask"
  PROVE  Answered(Append(h, m), FALSE)
<1>1. Len(h) \in Nat
  BY LenProperties
<1>2. /\ Len(Append(h, m)) = Len(h) + 1
      /\ \A i \in 1 .. Len(h) : Append(h, m)[i] = h[i]
      /\ Append(h, m)[Len(h) + 1] = m
  BY OneMore
<1> SUFFICES ASSUME NEW i \in 1 .. Len(h) + 1, Append(h, m)[i].kind = "ask"
             PROVE  i < Len(h) + 1 /\ Append(h, m)[i + 1].kind = "reply"
  BY <1>2 DEF Answered
<1>3. i \in 1 .. Len(h) /\ h[i].kind = "ask"
  BY <1>1, <1>2
<1>4. i < Len(h) /\ h[i + 1].kind = "reply"
  BY <1>3 DEF Answered
<1> QED
  BY <1>1, <1>2, <1>3, <1>4

\* A prompt may follow: it is open.
LEMMA AnsweredOpen ==
  ASSUME NEW h \in Seq(Message), Answered(h, FALSE), NEW m \in Message
  PROVE  Answered(Append(h, m), TRUE)
<1>1. Len(h) \in Nat
  BY LenProperties
<1>2. /\ Len(Append(h, m)) = Len(h) + 1
      /\ \A i \in 1 .. Len(h) : Append(h, m)[i] = h[i]
  BY OneMore
<1> SUFFICES ASSUME NEW i \in 1 .. Len(h) + 1, Append(h, m)[i].kind = "ask", i < Len(h) + 1
             PROVE  Append(h, m)[i + 1].kind = "reply"
  BY <1>2 DEF Answered
<1>3. i \in 1 .. Len(h) /\ h[i].kind = "ask"
  BY <1>1, <1>2
<1>4. i < Len(h) /\ h[i + 1].kind = "reply"
  BY <1>3 DEF Answered
<1> QED
  BY <1>1, <1>2, <1>3, <1>4

\* A reply closes an open prompt.
LEMMA AnsweredReply ==
  ASSUME NEW h \in Seq(Message), NEW open \in BOOLEAN, Answered(h, open)
  PROVE  Answered(Append(h, Msg("reply")), FALSE)
<1>0. Msg("reply") \in Message /\ Msg("reply").kind = "reply"
  BY MsgProperties DEF Kinds, AssistantKinds
<1>1. Len(h) \in Nat
  BY LenProperties
<1> DEFINE t == Append(h, Msg("reply"))
<1>2. /\ Len(t) = Len(h) + 1
      /\ \A i \in 1 .. Len(h) : t[i] = h[i]
      /\ t[Len(h) + 1].kind = "reply"
  BY <1>0, OneMore
<1> HIDE DEF t
<1> SUFFICES ASSUME NEW i \in 1 .. Len(h) + 1, t[i].kind = "ask"
             PROVE  i < Len(h) + 1 /\ t[i + 1].kind = "reply"
  BY <1>2 DEF Answered, t
<1>3. i \in 1 .. Len(h) /\ h[i].kind = "ask"
  BY <1>1, <1>2
<1>4. CASE i < Len(h)
  <2>1. h[i + 1].kind = "reply"
    BY <1>3, <1>4 DEF Answered
  <2> QED
    BY <1>1, <1>2, <1>3, <1>4, <2>1
<1>5. CASE ~(i < Len(h))
  BY <1>1, <1>2, <1>3, <1>5
<1> QED
  BY <1>4, <1>5

\* Results fed back may follow.
LEMMA AnsweredFed ==
  ASSUME NEW h \in Seq(Message), Answered(h, FALSE), NEW c \in Nat
  PROVE  Answered(Fed(h, c), FALSE)
<1>0. Msg("context").kind = "context"
  BY MsgProperties DEF Kinds, UserKinds
<1>1. Len(h) \in Nat
  BY LenProperties
<1>2. /\ Len(Fed(h, c)) = Len(h) + c
      /\ \A i \in 1 .. Len(h) + c :
           Fed(h, c)[i] = IF i <= Len(h) THEN h[i] ELSE Msg("context")
  BY FedProperties
<1> SUFFICES ASSUME NEW i \in 1 .. Len(h) + c, Fed(h, c)[i].kind = "ask"
             PROVE  i < Len(h) + c /\ Fed(h, c)[i + 1].kind = "reply"
  BY <1>2 DEF Answered
<1>3. i \in 1 .. Len(h) /\ h[i].kind = "ask"
  BY <1>0, <1>1, <1>2
<1>4. i < Len(h) /\ h[i + 1].kind = "reply"
  BY <1>3 DEF Answered
<1> QED
  BY <1>1, <1>2, <1>3, <1>4

\* What the messages carry besides their kind does not matter.
LEMMA AnsweredKinds ==
  ASSUME NEW h, NEW t, NEW open \in BOOLEAN, Answered(h, open),
         Len(h) \in Nat, Len(t) = Len(h), \A i \in 1 .. Len(h) : t[i].kind = h[i].kind
  PROVE  Answered(t, open)
<1> SUFFICES ASSUME NEW i \in 1 .. Len(h), t[i].kind = "ask"
             PROVE  IF i < Len(h) THEN t[i + 1].kind = "reply" ELSE open
  BY DEF Answered
<1>1. IF i < Len(h) THEN h[i + 1].kind = "reply" ELSE open
  BY DEF Answered
<1>2. ASSUME i < Len(h)
      PROVE  t[i + 1].kind = "reply"
  BY <1>1, <1>2
<1> QED
  BY <1>1, <1>2

\* The messages of h from the second on are in t, k places further on, and t has
\* no other prompts.
Shifted(h, t, k) ==
  /\ \A i \in 1 .. Len(t) : \/ t[i].kind # "ask"
                            \/ i - k \in 1 .. Len(h) /\ t[i] = h[i - k]
  /\ \A i \in 1 .. Len(h) : i > 1 => i + k \in 1 .. Len(t) /\ t[i + k] = h[i]

\* Messages in front may come, go and change while no prompt is among them.
LEMMA AnsweredSuffix ==
  ASSUME NEW h \in Seq(Message), Answered(h, FALSE), NEW t \in Seq(Message),
         NEW k \in Int, Len(t) = Len(h) + k, Shifted(h, t, k)
  PROVE  Answered(t, FALSE)
<1>1. Len(h) \in Nat /\ Len(t) \in Nat
  BY LenProperties
<1> SUFFICES ASSUME NEW i \in 1 .. Len(t), t[i].kind = "ask"
             PROVE  i < Len(t) /\ t[i + 1].kind = "reply"
  BY DEF Answered
<1>2. i - k \in 1 .. Len(h) /\ h[i - k].kind = "ask"
  BY DEF Shifted
<1>3. i - k < Len(h) /\ h[i - k + 1].kind = "reply"
  BY <1>2 DEF Answered
<1>4. i - k + 1 \in 1 .. Len(h) /\ i - k + 1 > 1 /\ (i - k + 1) + k = i + 1
  BY <1>1, <1>2, <1>3
<1>5. t[(i - k + 1) + k] = h[i - k + 1] /\ i + 1 \in 1 .. Len(t)
  BY <1>4 DEF Shifted
<1>6. t[i + 1].kind = "reply"
  BY <1>3, <1>4, <1>5
<1> QED
  BY <1>1, <1>5, <1>6

\* Popping open prompts, or what is no reply, leaves the others answered.
LEMMA AnsweredPrefix ==
  ASSUME NEW h \in Seq(Message), NEW open \in BOOLEAN, Answered(h, open),
         NEW n \in Nat, n < Len(h), h[n + 1].kind # "reply"
  PROVE  Answered(SubSeq(h, 1, n), FALSE)
<1>1. Len(h) \in Nat /\ \A i \in 1 .. Len(h) : h[i] \in Message
  BY LenProperties, ElementOfSeq
<1>2. Len(SubSeq(h, 1, n)) = n /\ \A i \in 1 .. n : SubSeq(h, 1, n)[i] = h[i]
  BY <1>1, SubSeqProperties
<1> SUFFICES ASSUME NEW i \in 1 .. n, SubSeq(h, 1, n)[i].kind = "ask"
             PROVE  i < n /\ SubSeq(h, 1, n)[i + 1].kind = "reply"
  BY <1>2 DEF Answered
<1>3. i \in 1 .. Len(h) /\ i < Len(h) /\ h[i].kind = "ask"
  BY <1>1, <1>2
<1>4. h[i + 1].kind = "reply"
  BY <1>3 DEF Answered
<1>5. i # n
  BY <1>4
<1> QED
  BY <1>1, <1>2, <1>4, <1>5

-----------------------------------------------------------------------------
(* The inductive invariant. *)

\* A step that ends outside a first call keeps the invariant if it leaves every
\* prompt answered, in the history and in the files.
LEMMA OutsideCall ==
  ASSUME TypeOK', phase' # "chat", FedBack', Answered(history, FALSE)', ChatsAnswered'
  PROVE  IInv'
<1>1. (phase = "chat")' = FALSE
  OBVIOUS
<1>2. AsksAnswered'
  BY <1>1 DEF AsksAnswered, Answered
<1> QED
  BY <1>2 DEF IInv, OpenPrompt, OpenWindow

\* A reply that is taken closes the prompt and feeds back what it announced.
LEMMA TakeReplyInv ==
  ASSUME IInv, TypeOK', NEW n \in Nat, NEW c \in Nat, NEW d, TakeReply(n, c, d),
         UNCHANGED chats
  PROVE  IInv'
<1>0. Msg("reply") \in Message
  BY MsgProperties DEF Kinds, AssistantKinds
<1> DEFINE t == Append(history, Msg("reply"))
<1>1. t \in Seq(Message) /\ Len(t) \in Nat
  BY <1>0, OneMore, LenProperties DEF IInv, TypeOK
<1>2. Answered(t, FALSE)
  BY AnsweredReply DEF IInv, TypeOK, AsksAnswered
<1> HIDE DEF t
<1>3. history' = Fed(t, c)
  BY DEF TakeReply, t
<1>4. Answered(history', FALSE)
  BY <1>1, <1>2, <1>3, AnsweredFed
<1>5. phase' # "chat"
  BY DEF TakeReply, PromptOver
<1>6. FedBack'
  <2> SUFFICES ASSUME phase' = "followup"
               PROVE  history' # <<>> /\ history'[Len(history')] = Msg("context")
    BY DEF FedBack
  <2>1. c > 0
    BY DEF TakeReply, PromptOver, NeedsCall, WantsFollowup
  <2>2. /\ Len(Fed(t, c)) = Len(t) + c
        /\ \A i \in 1 .. Len(t) + c :
             Fed(t, c)[i] = IF i <= Len(t) THEN t[i] ELSE Msg("context")
    BY <1>1, FedProperties
  <2>3. Len(t) + c \in 1 .. Len(t) + c /\ ~(Len(t) + c <= Len(t))
    BY <1>1, <2>1
  <2>4. Fed(t, c)[Len(t) + c] = Msg("context")
    BY <2>2, <2>3
  <2>5. Fed(t, c) # <<>>
    BY <1>1, <2>1, <2>2, EmptySeq
  <2> QED
    BY <1>3, <2>2, <2>4, <2>5
<1>7. ChatsAnswered'
  BY DEF IInv, ChatsAnswered, Answered
<1> QED
  BY <1>4, <1>5, <1>6, <1>7, OutsideCall DEF Answered

\* The prompt just sent is the last message, its reminder the last but one: the
\* window never drops them.
LEMMA SendPromptInv ==
  ASSUME IInv, TypeOK', SendPrompt
  PROVE  IInv'
<1> DEFINE w == Sent(history, count)
<1>0. history \in Seq(Message) /\ count \in Nat /\ Len(history) \in Nat
  BY LenProperties DEF IInv, TypeOK
<1>1. w \in Seq(Message) /\ Len(w) \in Nat
  BY <1>0, SentProperties, LenProperties
<1>2. Answered(w, TRUE)
  <2> DEFINE r == Append(history, Msg("reminder"))
  <2>0. /\ Msg("reminder") \in Message /\ Msg("reminder").kind = "reminder"
        /\ Msg("ask") \in Message
    BY MsgProperties DEF Kinds, SystemKinds, UserKinds
  <2>1. Answered(history, FALSE)
    BY DEF IInv, AsksAnswered, SendPrompt, Answered
  <2>2. r \in Seq(Message) /\ Answered(r, FALSE)
    BY <1>0, <2>0, <2>1, OneMore, AnsweredAppend
  <2>3. w = IF count >= 2 THEN Append(r, Msg("ask")) ELSE Append(history, Msg("ask"))
    <3>1. CASE count >= 2
      BY <1>0, <2>0, <2>2, <3>1, OneMore DEF Sent
    <3>2. CASE ~(count >= 2)
      BY <1>0, <2>0, <3>2, OneMore DEF Sent
    <3> QED
      BY <3>1, <3>2
  <2> HIDE DEF r, w
  <2>4. Answered(Append(r, Msg("ask")), TRUE)
    BY <2>0, <2>2, AnsweredOpen
  <2>5. Answered(Append(history, Msg("ask")), TRUE)
    BY <1>0, <2>0, <2>1, AnsweredOpen
  <2> QED
    BY <2>3, <2>4, <2>5
<1>3. history' = Trim(w)
  BY DEF SendPrompt
<1>4. /\ Len(w) = Len(history) + (IF count >= 2 THEN 2 ELSE 1)
      /\ w[Len(w)] = Msg("ask")
      /\ count >= 2 => w[Len(history) + 1] = Msg("reminder")
  BY <1>0, SentProperties
<1> HIDE DEF w
<1>5. Answered(history', TRUE)
  BY <1>1, <1>2, <1>3, TrimAnswered
<1>6. AsksAnswered'
  BY <1>5 DEF AsksAnswered, SendPrompt, Answered
<1>7. PICK p, d \in 0 .. Len(w) : Drops(history', w, p, d)
  BY <1>1, <1>3, TrimShape
<1>8. OpenPrompt'
  <2>1. Len(history') = Len(w) - d /\ Len(w) - d \in Nat
    BY <1>1, <1>7 DEF Drops
  <2>2. Len(w) - d >= 1 /\ (count >= 2 => Len(w) - d >= 2)
    BY <1>0, <1>1, <1>4, <1>7 DEF Drops
  <2>3. history'[Len(history')] = w[Len(w)]
    BY <1>1, <1>7, <2>1, <2>2 DEF Drops
  <2>4. count >= 2 => history'[Len(history') - 1] = w[Len(w) - 1]
    BY <1>1, <1>7, <2>1, <2>2 DEF Drops
  <2>5. reminded' = (count >= 2)
    BY DEF SendPrompt
  <2>6. count >= 2 => w[Len(w) - 1] = Msg("reminder")
    BY <1>0, <1>4
  <2>7. history' # <<>>
    BY <2>1, <2>2, EmptySeq
  <2>8. reminded' => Len(history') > 1 /\ history'[Len(history') - 1] = Msg("reminder")
    <3>1. CASE count >= 2
      BY <2>1, <2>2, <2>4, <2>6, <3>1
    <3>2. CASE ~(count >= 2)
      BY <2>5, <3>2
    <3> QED
      BY <3>1, <3>2
  <2> QED
    BY <1>4, <2>3, <2>7, <2>8 DEF OpenPrompt
<1>9. FedBack'
  BY DEF FedBack, SendPrompt
<1>10. ChatsAnswered'
  BY DEF IInv, ChatsAnswered, SendPrompt, Answered
<1>11. OpenWindow'
  <2>1. /\ reminded' = (count >= 2) /\ count' = count /\ before' = history
        /\ history' = Trim(Sent(history, count))
    BY DEF SendPrompt
  <2> QED
    BY <2>1 DEF OpenWindow
<1> QED
  BY <1>6, <1>8, <1>9, <1>10, <1>11 DEF IInv

\* Ctrl-C during the first call pops the prompt and its reminder, no reply.
LEMMA InterruptInv ==
  ASSUME IInv, TypeOK', Interrupt
  PROVE  IInv'
<1> DEFINE n == Len(history) - (IF reminded THEN 2 ELSE 1)
<1>1. /\ Msg("ask").kind = "ask" /\ Msg("reminder").kind = "reminder"
  BY MsgProperties DEF Kinds, SystemKinds, UserKinds
<1>2. history \in Seq(Message) /\ Len(history) \in Nat
  BY LenProperties DEF IInv, TypeOK
<1>3. /\ history # <<>>
      /\ history[Len(history)] = Msg("ask")
      /\ reminded => Len(history) > 1 /\ history[Len(history) - 1] = Msg("reminder")
  BY DEF IInv, OpenPrompt, Interrupt
<1>4. n \in Nat /\ n < Len(history)
  BY <1>2, <1>3, EmptySeq
<1>5. history[n + 1].kind # "reply"
  <2>1. CASE reminded
    BY <1>1, <1>2, <1>3, <2>1
  <2>2. CASE ~reminded
    BY <1>1, <1>2, <1>3, <2>2
  <2> QED
    BY <2>1, <2>2
<1>6. history' = SubSeq(history, 1, n)
  BY DEF Interrupt
<1> HIDE DEF n
<1>7. Answered(history', FALSE)
  BY <1>2, <1>4, <1>5, <1>6, AnsweredPrefix DEF IInv, AsksAnswered
<1>8. phase' # "chat" /\ FedBack'
  BY DEF Interrupt, PromptOver, FedBack
<1>9. ChatsAnswered'
  BY DEF IInv, ChatsAnswered, Interrupt, Answered
<1> QED
  BY <1>7, <1>8, <1>9, OutsideCall DEF Answered

\* A new prompt in front, with or without the old one, leaves the rest answered.
LEMMA NewPromptAnswered ==
  ASSUME NEW h \in Seq(Message), Answered(h, FALSE)
  PROVE  /\ Answered(<<Msg("prompt")>> \o h, FALSE)
         /\ h # <<>> => Answered(NewPrompt(h), FALSE)
<1>1. Msg("prompt") \in Message /\ Msg("prompt").kind = "prompt"
  BY MsgProperties DEF Kinds, SystemKinds
<1>2. Len(h) \in Nat
  BY LenProperties
<1>3. Answered(<<Msg("prompt")>> \o h, FALSE)
  <2> DEFINE t == <<Msg("prompt")>> \o h
  <2>1. /\ t \in Seq(Message) /\ Len(t) = Len(h) + 1
        /\ \A i \in 1 .. Len(h) + 1 : t[i] = IF i = 1 THEN Msg("prompt") ELSE h[i - 1]
    BY <1>1, OneBefore
  <2> HIDE DEF t
  <2>2. \A i \in 1 .. Len(t) : t[i].kind # "ask" \/ (i - 1 \in 1 .. Len(h) /\ t[i] = h[i - 1])
    BY <1>1, <1>2, <2>1
  <2>3. \A i \in 1 .. Len(h) : i > 1 => i + 1 \in 1 .. Len(t) /\ t[i + 1] = h[i]
    BY <1>2, <2>1
  <2>4. Shifted(h, t, 1)
    BY <2>2, <2>3 DEF Shifted
  <2>5. 1 \in Int
    OBVIOUS
  <2>6. Answered(t, FALSE)
    BY <2>1, <2>4, <2>5, AnsweredSuffix, Zenon
  <2> QED
    BY <2>6 DEF t
<1>4. ASSUME h # <<>>
      PROVE  Answered(NewPrompt(h), FALSE)
  <2> DEFINE t == NewPrompt(h)
  <2>2. /\ t \in Seq(Message) /\ Len(t) = Len(h)
        /\ t[1].kind = "prompt"
        /\ \A i \in 2 .. Len(h) : t[i] = h[i]
    BY <1>4, NewPromptShape
  <2> HIDE DEF t
  <2>3. \A i \in 1 .. Len(h) : i > 1 => t[i] = h[i]
    BY <1>2, <2>2
  <2>4. \A i \in 1 .. Len(t) : t[i].kind # "ask" \/ (i - 0 \in 1 .. Len(h) /\ t[i] = h[i - 0])
    BY <1>1, <1>2, <2>2, <2>3
  <2>5. \A i \in 1 .. Len(h) : i > 1 => i + 0 \in 1 .. Len(t) /\ t[i + 0] = h[i]
    BY <1>2, <2>2, <2>3
  <2>6. Shifted(h, t, 0)
    BY <2>4, <2>5 DEF Shifted
  <2>7. 0 \in Int /\ Len(t) = Len(h) + 0
    BY <1>2, <2>2
  <2>8. Answered(t, FALSE)
    BY <2>2, <2>6, <2>7, AnsweredSuffix, Zenon
  <2> QED
    BY <2>8 DEF t
<1> QED
  BY <1>3, <1>4

\* Every step keeps the invariant.
LEMMA InvStep == IInv /\ [Next]_vars => IInv'
<1> SUFFICES ASSUME IInv, [Next]_vars
             PROVE  IInv'
  OBVIOUS
<1>0. /\ TypeOK /\ TypeOK'
      /\ history \in Seq(Message) /\ Len(history) \in Nat /\ ChatsAnswered
      /\ \A i \in 1 .. Len(history) : history[i] \in Message
  BY TypeStep, LenProperties, ElementOfSeq DEF IInv, TypeOK
<1>a. phase # "chat" => Answered(history, FALSE)
  BY DEF IInv, AsksAnswered, Answered
<1>b. Answered(<<>>, FALSE)
  BY EmptySeq DEF Answered
<1>c. ASSUME phase = "idle", UNCHANGED <<phase, chats>>, Answered(history', FALSE)
      PROVE  IInv'
  <2>1. phase' # "chat" /\ FedBack'
    BY <1>c DEF FedBack
  <2>2. ChatsAnswered'
    BY <1>0, <1>c DEF ChatsAnswered, Answered
  <2> QED
    BY <1>0, <1>c, <2>1, <2>2, OutsideCall DEF Answered
<1>1. CASE SendPrompt
  BY <1>0, <1>1, SendPromptInv
<1>2. CASE CallReturns
  <2>1. ASSUME NEW c \in 0 .. MaxContexts, NEW d \in 0 .. MaxTasks - Pending, Reply(c, d)
        PROVE  IInv'
    <3>1. c \in Nat /\ TakeReply(0, c, d) /\ UNCHANGED chats
      BY <2>1 DEF Reply
    <3> QED
      BY <1>0, <3>1, TakeReplyInv
  <2>2. ASSUME NEW c \in 0 .. MaxContexts, NEW d \in 0 .. MaxTasks - Pending,
               FollowupReply(c, d)
        PROVE  IInv'
    <3>1. c \in Nat /\ followups + 1 \in Nat /\ TakeReply(followups + 1, c, d)
          /\ UNCHANGED chats
      BY <1>0, <2>2 DEF FollowupReply, TypeOK
    <3> QED
      BY <1>0, <3>1, TakeReplyInv
  <2>3. CASE Interrupt
    BY <1>0, <2>3, InterruptInv
  <2>4. CASE InterruptFollowup
    <3>1. phase' # "chat" /\ FedBack' /\ Answered(history', FALSE)
      BY <1>a, <2>4 DEF InterruptFollowup, PromptOver, FedBack
    <3>2. ChatsAnswered'
      BY <1>0, <2>4 DEF InterruptFollowup, ChatsAnswered, Answered
    <3> QED
      BY <1>0, <3>1, <3>2, OutsideCall DEF Answered
  <2> QED
    BY <1>2, <2>1, <2>2, <2>3, <2>4 DEF CallReturns
<1>3. CASE Clear
  BY <1>b, <1>c, <1>3 DEF Clear, Idle
<1>4. CASE PushContext
  <2>1. Msg("context") \in Message /\ Msg("context").kind = "context"
    BY MsgProperties DEF Kinds, UserKinds
  <2>2. Answered(history', FALSE)
    BY <1>0, <1>a, <1>4, <2>1, AnsweredAppend DEF PushContext, CanGrow, Idle
  <2> QED
    BY <1>c, <1>4, <2>2 DEF PushContext, CanGrow, Idle
<1>5. CASE Mention
  <2> DEFINE t == Append(history, Msg("ask"))
  <2>1. Msg("ask") \in Message /\ Msg("reply") \in Message
    BY MsgProperties DEF Kinds, UserKinds, AssistantKinds
  <2>2. t \in Seq(Message) /\ Answered(t, TRUE)
    BY <1>0, <1>a, <1>5, <2>1, OneMore, AnsweredOpen DEF Mention, CanGrow, Idle
  <2>3. Answered(Append(t, Msg("reply")), FALSE)
    BY <2>2, AnsweredReply
  <2>4. history' = Append(t, Msg("reply"))
    <3>1. <<Msg("ask")>> \in Seq(Message) /\ <<Msg("reply")>> \in Seq(Message)
      BY <2>1
    <3>2. (history \o <<Msg("ask")>>) \o <<Msg("reply")>>
            = history \o (<<Msg("ask")>> \o <<Msg("reply")>>)
      BY <1>0, <3>1, ConcatAssociative
    <3>3. <<Msg("ask")>> \o <<Msg("reply")>> = <<Msg("ask"), Msg("reply")>>
      BY <2>1, TwoMessages
    <3> QED
      BY <1>0, <1>5, <2>1, <2>2, <3>2, <3>3, OneMore DEF Mention
  <2> QED
    BY <1>c, <1>5, <2>3, <2>4 DEF Mention, CanGrow, Idle
<1>6. CASE SetAgent
  BY <1>0, <1>a, <1>c, <1>6, NewPromptAnswered DEF SetAgent, CanGrow, Idle
<1>7. CASE ResetAgent
  BY <1>0, <1>a, <1>c, <1>7, NewPromptAnswered DEF ResetAgent, Idle
<1>8. CASE Compress
  <2>1. Msg("summary") \in Message /\ Msg("summary").kind = "summary"
    BY MsgProperties DEF Kinds, AssistantKinds
  <2>2. \A i \in 1 .. Len(history') : history'[i].kind # "ask"
    <3>1. CASE IsSystem(history[1])
      <4>1. history' = <<history[1]>> \o <<Msg("summary")>>
        BY <1>8, <3>1 DEF Compress
      <4>2. history' = <<history[1], Msg("summary")>>
        <5>1. history[1] \in Message
          BY <1>0, <1>8 DEF Compress
        <5> QED
          BY <2>1, <4>1, <5>1, TwoMessages
      <4> QED
        BY <2>1, <3>1, <4>2 DEF IsSystem, SystemKinds
    <3>2. CASE ~IsSystem(history[1])
      <4>1. history' = <<>> \o <<Msg("summary")>>
        BY <1>8, <3>2 DEF Compress
      <4>2. history' = <<Msg("summary")>>
        BY <4>1
      <4> QED
        BY <2>1, <4>2
    <3> QED
      BY <3>1, <3>2
  <2>3. Answered(history', FALSE)
    BY <2>2 DEF Answered
  <2> QED
    BY <1>c, <1>8, <2>3 DEF Compress, Idle
<1>9. ASSUME NEW n \in ChatNames
      PROVE  /\ SaveChat(n) => IInv'
             /\ LoadChat(n) => IInv'
             /\ DeleteChat(n) => IInv'
  <2>0. chats \in [ChatNames -> Seq(Message) \cup {NoChat}]
    BY <1>0 DEF TypeOK
  <2>1. CASE SaveChat(n)
    <3>1. \A i \in 1 .. Len(history) :
            history[i].kind \in Kinds /\ Saved(history)[i].kind = history[i].kind
      BY <1>0, MsgProperties DEF Message, Saved
    <3>2. Len(Saved(history)) = Len(history)
      BY <1>0 DEF Saved
    <3>3. Answered(Saved(history), FALSE)
      BY <1>0, <1>a, <2>1, <3>1, <3>2, AnsweredKinds DEF SaveChat, Idle
    <3>4. ChatsAnswered'
      <4> SUFFICES ASSUME NEW m \in ChatNames, chats'[m] # NoChat
                   PROVE  Answered(chats'[m], FALSE)
        BY DEF ChatsAnswered, Answered
      <4>1. CASE m = n
        BY <2>0, <2>1, <3>3, <4>1 DEF SaveChat
      <4>2. CASE m # n
        BY <1>0, <2>0, <2>1, <4>2 DEF SaveChat, ChatsAnswered
      <4> QED
        BY <4>1, <4>2
    <3>5. phase' # "chat" /\ FedBack' /\ Answered(history', FALSE)
      BY <1>a, <2>1 DEF SaveChat, Idle, FedBack
    <3> QED
      BY <1>0, <3>4, <3>5, OutsideCall DEF Answered
  <2>2. CASE LoadChat(n)
    <3>1. Answered(history', FALSE)
      BY <1>0, <2>2 DEF LoadChat, ChatsAnswered
    <3> QED
      BY <1>c, <2>2, <3>1 DEF LoadChat, Idle
  <2>3. CASE DeleteChat(n)
    <3>1. ChatsAnswered'
      <4> SUFFICES ASSUME NEW m \in ChatNames, chats'[m] # NoChat
                   PROVE  Answered(chats'[m], FALSE)
        BY DEF ChatsAnswered, Answered
      <4> QED
        BY <1>0, <2>0, <2>3 DEF DeleteChat, ChatsAnswered
    <3>2. phase' # "chat" /\ FedBack' /\ Answered(history', FALSE)
      BY <1>a, <2>3 DEF DeleteChat, Idle, FedBack
    <3> QED
      BY <1>0, <3>1, <3>2, OutsideCall DEF Answered
  <2> QED
    BY <2>1, <2>2, <2>3
<1>10. ASSUME NEW i \in 1 .. Len(history), Rated(i), phase # "chat"
       PROVE  Answered(history', FALSE)
  <2>1. /\ Len(history') = Len(history)
        /\ \A j \in 1 .. Len(history) : history'[j].kind = history[j].kind
    <3>1. history' = [history EXCEPT ![i] = [history[i] EXCEPT !.rated = TRUE]]
      BY <1>10 DEF Rated
    <3>2. [history[i] EXCEPT !.rated = TRUE] \in Message
          /\ [history[i] EXCEPT !.rated = TRUE].kind = history[i].kind
      BY <1>0 DEF Message
    <3> HIDE DEF Message
    <3> QED
      BY <1>0, <3>1, <3>2, ExceptSeq
  <2> QED
    BY <1>0, <1>a, <1>10, <2>1, AnsweredKinds
<1>11. CASE RateLast
  BY <1>c, <1>10, <1>11 DEF RateLast, Idle
<1>12. ASSUME NEW i \in 1 .. Len(history), RateNumbered(i)
       PROVE  IInv'
  BY <1>c, <1>10, <1>12 DEF RateNumbered, Idle
<1>13. ASSUME UNCHANGED <<history, phase, chats, reminded, count, before>>
       PROVE  IInv'
  <2>1. OpenWindow'
    BY <1>13 DEF IInv, OpenWindow
  <2> QED
    BY <1>0, <1>13, <2>1
       DEF IInv, OpenPrompt, FedBack, AsksAnswered, ChatsAnswered, Answered
<1>14. CASE TaskEnds
  BY <1>13, <1>14 DEF TaskEnds, promptVars
<1>15. CASE CollectTasks
  <2>1. tasks.ready \in Nat
    BY <1>0 DEF TypeOK, TaskCounts
  <2>2. Answered(history', FALSE)
    BY <1>0, <1>a, <1>15, <2>1, AnsweredFed DEF CollectTasks, CanGrow, Idle
  <2> QED
    BY <1>c, <1>15, <2>2 DEF CollectTasks, CanGrow, Idle
<1>16. CASE Exit \/ Leave
  <2>1. phase' # "chat" /\ FedBack' /\ Answered(history', FALSE)
    BY <1>a, <1>16 DEF Exit, Leave, Idle, FedBack
  <2>2. ChatsAnswered'
    BY <1>0, <1>16 DEF Exit, Leave, ChatsAnswered, Answered
  <2> QED
    BY <1>0, <2>1, <2>2, OutsideCall DEF Answered
<1>17. CASE UNCHANGED vars
  BY <1>13, <1>17 DEF vars
<1> QED
  BY <1>1, <1>2, <1>3, <1>4, <1>5, <1>6, <1>7, <1>8, <1>9, <1>11, <1>12, <1>14, <1>15,
     <1>16, <1>17 DEF Next

\* Initially nothing was asked.
LEMMA InvInit == Init => IInv
<1> SUFFICES ASSUME Init
             PROVE  IInv
  OBVIOUS
<1>1. TypeOK
  BY TypeInit
<1>2. Msg("prompt").kind = "prompt"
  BY MsgProperties DEF Kinds, SystemKinds
<1>3. \A i \in 1 .. Len(history) : history[i].kind # "ask"
  BY <1>2 DEF Init
<1>4. AsksAnswered
  BY <1>3 DEF AsksAnswered, Answered
<1>5. OpenPrompt /\ FedBack /\ ChatsAnswered
  BY DEF Init, OpenPrompt, FedBack, ChatsAnswered
<1>6. OpenWindow
  BY DEF Init, OpenWindow
<1> QED
  BY <1>1, <1>4, <1>5, <1>6 DEF IInv

\* The invariant holds in every state.
LEMMA Invariance == Spec => []IInv
BY InvInit, InvStep, PTL DEF Spec

\* Whatever is interrupted, trimmed, compressed, rated, saved or loaded, no prompt
\* is left in the history without its reply.
THEOREM AsksAnsweredAlways == Spec => []AsksAnswered
<1>1. IInv => AsksAnswered
  BY DEF IInv
<1> QED
  BY <1>1, Invariance, PTL

\* Every request to the model, first or follow-up, ends with a user message.
THEOREM RequestEndsWithUserAlways == Spec => []RequestEndsWithUser
<1>1. IInv => RequestEndsWithUser
  BY MsgProperties DEF IInv, OpenPrompt, FedBack, RequestEndsWithUser, InFlight, Kinds, UserKinds
<1> QED
  BY <1>1, Invariance, PTL
-----------------------------------------------------------------------------
(* What an interrupted prompt leaves, and what takes the system prompt away. *)

\* What the window leaves of a prompt that is popped again is a window of the
\* history it was put behind.
LEMMA PoppedIsWindow ==
  ASSUME NEW h \in Seq(Message), NEW n \in Nat, NEW r \in Nat,
         r = (IF n >= 2 THEN 2 ELSE 1)
  PROVE  LET t == Trim(Sent(h, n)) IN IsWindowOf(SubSeq(t, 1, Len(t) - r), h)
<1> DEFINE w == Sent(h, n)
           t == Trim(w)
           u == SubSeq(t, 1, Len(t) - r)
<1>1. /\ w \in Seq(Message) /\ Len(w) = Len(h) + r
      /\ \A i \in 1 .. Len(h) : w[i] = h[i]
  BY SentProperties
<1>2. Len(h) \in Nat /\ \A i \in 1 .. Len(h) : h[i] \in Message
  BY LenProperties, ElementOfSeq
<1> HIDE DEF w
<1>3. t \in Seq(Message)
  BY <1>1, TrimShape
<1>4. PICK p, d \in 0 .. Len(w) : Drops(t, w, p, d)
  BY <1>1, TrimShape
<1> HIDE DEF t
<1>5. /\ Len(t) = Len(w) - d
      /\ p + d <= Len(w)
      /\ d > 0 => p + d <= Len(h)
  BY <1>1, <1>2, <1>4 DEF Drops
<1>6. /\ Len(t) - r = Len(h) - d /\ Len(h) - d \in Nat
      /\ \A i \in 1 .. Len(h) - d : i \in 1 .. Len(t)
  BY <1>1, <1>2, <1>4, <1>5 DEF Drops
<1>7. /\ u \in Seq(Message) /\ Len(u) = Len(h) - d
      /\ \A i \in 1 .. Len(h) - d : u[i] = t[i]
  <2>1. \A i \in 1 .. Len(t) - r : t[i] \in Message
    BY <1>3, <1>6, ElementOfSeq
  <2>2. /\ u \in Seq(Message)
        /\ Len(u) = IF 1 <= Len(t) - r THEN Len(t) - r - 1 + 1 ELSE 0
        /\ \A i \in 1 .. Len(t) - r - 1 + 1 : u[i] = t[1 + i - 1]
    BY <1>6, <2>1, SubSeqProperties
  <2> HIDE DEF u
  <2>3. Len(t) - r - 1 + 1 = Len(h) - d /\ \A i \in 1 .. Len(h) - d : 1 + i - 1 = i
    BY <1>1, <1>6
  <2>4. Len(u) = Len(h) - d
    BY <1>6, <2>2, <2>3
  <2>5. \A i \in 1 .. Len(h) - d : u[i] = t[i]
    BY <2>2, <2>3
  <2> QED
    BY <2>2, <2>4, <2>5
<1> HIDE DEF u
<1>8. \A i \in 1 .. Len(h) - d : u[i] = IF i <= p THEN w[i] ELSE w[i + d]
  BY <1>1, <1>2, <1>4, <1>6, <1>7 DEF Drops
<1>9. CASE d = 0
  <2>1. \A i \in 1 .. Len(u) : u[i] = h[i]
    BY <1>1, <1>2, <1>4, <1>7, <1>8, <1>9
  <2>2. u = h
    BY <1>2, <1>7, <1>9, <2>1, SeqEqual
  <2>3. h = SubSeq(h, 1, Len(h))
    BY SubSeqFull
  <2> QED
    <3>1. 1 \in 1 .. Len(h) + 1
      BY LenProperties
    <3>2. IsWindowOf(h, h)
      BY <2>3, <3>1 DEF IsWindowOf
    <3> QED
      BY <1>2, <2>2, <3>2 DEF u, t, w
<1>10. CASE d > 0
  <2>1. p \in 0 .. Len(h) - 1 /\ p + d <= Len(h)
    BY <1>1, <1>2, <1>4, <1>5, <1>10
  <2>2. \A i \in 1 .. p : IsSystem(h[i])
    <3>1. \A i \in 1 .. p : i \in 1 .. Len(h) /\ IsSystem(w[i])
      BY <1>2, <1>4, <2>1 DEF Drops
    <3> QED
      BY <1>1, <3>1
  <2>3. ~IsSystem(h[p + 1])
    BY <1>1, <1>2, <1>4, <1>10, <2>1 DEF Drops
  <2>4. Leading(h) = p
    BY <2>1, <2>2, <2>3, LeadingUnique
  <2> DEFINE k == p + d + 1
             a == SubSeq(h, 1, p)
             b == SubSeq(h, k, Len(h))
  <2>5. a \in Seq(Message) /\ Len(a) = p /\ \A i \in 1 .. p : a[i] = h[i]
    <3>1. \A i \in 1 .. p : h[i] \in Message
      BY <1>2, <2>1
    <3>2. /\ a \in Seq(Message) /\ Len(a) = IF 1 <= p THEN p - 1 + 1 ELSE 0
          /\ \A i \in 1 .. p - 1 + 1 : a[i] = h[1 + i - 1]
      BY <1>2, <2>1, <3>1, SubSeqProperties
    <3> HIDE DEF a
    <3> QED
      BY <1>2, <2>1, <3>2
  <2>6. /\ b \in Seq(Message) /\ Len(b) = Len(h) - p - d
        /\ \A i \in 1 .. Len(h) - p - d : b[i] = h[p + d + i]
    <3>1. \A i \in k .. Len(h) : h[i] \in Message
      BY <1>2, <1>4, <2>1
    <3>2. /\ b \in Seq(Message) /\ Len(b) = IF k <= Len(h) THEN Len(h) - k + 1 ELSE 0
          /\ \A i \in 1 .. Len(h) - k + 1 : b[i] = h[k + i - 1]
      BY <1>2, <1>4, <2>1, <3>1, SubSeqProperties
    <3> HIDE DEF b
    <3> QED
      BY <1>2, <1>4, <2>1, <3>2
  <2> HIDE DEF a, b
  <2>7. /\ a \o b \in Seq(Message)
        /\ Len(a \o b) = p + (Len(h) - p - d)
        /\ \A i \in 1 .. p + (Len(h) - p - d) :
             (a \o b)[i] = IF i <= p THEN a[i] ELSE b[i - p]
    BY <2>5, <2>6, ConcatProperties
  <2>8. \A i \in 1 .. Len(u) : u[i] = (a \o b)[i]
    <3> SUFFICES ASSUME NEW i \in 1 .. Len(h) - d
                 PROVE  u[i] = (a \o b)[i]
      BY <1>7
    <3>1. CASE i <= p
      <4>1. i \in 1 .. p /\ i \in 1 .. Len(h)
        BY <1>2, <1>4, <2>1, <3>1
      <4>2. u[i] = h[i]
        BY <1>1, <1>8, <3>1, <4>1
      <4>3. (a \o b)[i] = h[i]
        BY <1>2, <1>4, <2>1, <2>5, <2>7, <3>1, <4>1
      <4> QED
        BY <4>2, <4>3
    <3>2. CASE ~(i <= p)
      <4>1. i - p \in 1 .. Len(h) - p - d /\ p + d + (i - p) = i + d /\ i + d \in 1 .. Len(h)
        BY <1>2, <1>4, <2>1, <3>2
      <4>2. (a \o b)[i] = h[i + d]
        BY <1>2, <1>4, <2>1, <2>6, <2>7, <3>2, <4>1
      <4> QED
        BY <1>1, <1>8, <3>2, <4>1, <4>2
    <3> QED
      BY <3>1, <3>2
  <2>9. u = a \o b
    <3>1. Len(u) = Len(a \o b)
      BY <1>2, <1>4, <1>7, <2>1, <2>7
    <3> QED
      BY <1>7, <2>7, <2>8, <3>1, SeqEqual
  <2>10. k \in 1 .. Len(h) + 1
    BY <1>2, <1>4, <2>1
  <2>11. u = SubSeq(h, 1, Leading(h)) \o SubSeq(h, k, Len(h))
    BY <2>4, <2>9 DEF a, b
  <2> QED
    BY <2>10, <2>11 DEF IsWindowOf, u, t, w
<1> QED
  BY <1>1, <1>2, <1>4, <1>9, <1>10

\* A prompt interrupted in its first call leaves nothing of itself behind, reminder
\* or request: the history is what it was when the prompt was typed, but for what
\* the window dropped.
THEOREM InterruptRollsBackAlways == Spec => InterruptRollsBack
<1>1. ASSUME IInv, [Next]_vars, phase = "chat", phase' = "idle", count' = count
      PROVE  IsWindowOf(history', before)
  <2>1. TypeOK
    BY <1>1 DEF IInv
  <2>2. Interrupt
    <3>1. count # count + 1
      BY <2>1 DEF TypeOK
    <3>2. \A c, d : ~Reply(c, d) /\ ~FollowupReply(c, d)
      BY <1>1, <3>1 DEF Reply, FollowupReply
    <3> QED
      BY <1>1, <3>2
         DEF Next, CallReturns, InterruptFollowup, SendPrompt, Clear, PushContext, Mention,
             SetAgent, ResetAgent, Compress, SaveChat, LoadChat, DeleteChat, RateLast,
             RateNumbered, TaskEnds, CollectTasks, Exit, Leave, Idle, CanGrow, vars
  <2> DEFINE r == IF reminded THEN 2 ELSE 1
  <2>3. r = (IF count >= 2 THEN 2 ELSE 1) /\ r \in Nat
    BY <1>1 DEF IInv, OpenWindow
  <2>4. history = Trim(Sent(before, count))
    BY <1>1 DEF IInv, OpenWindow
  <2>5. history' = SubSeq(history, 1, Len(history) - r)
    BY <2>2 DEF Interrupt
  <2> HIDE DEF r
  <2>6. before \in Seq(Message) /\ count \in Nat
    BY <2>1 DEF TypeOK
  <2> QED
    BY <2>3, <2>4, <2>5, <2>6, PoppedIsWindow
<1>2. IInv /\ [Next]_vars => [phase = "chat" /\ phase' = "idle" /\ count' = count
                                => IsWindowOf(history', before)]_vars
  BY <1>1
<1> QED
  BY <1>2, Invariance, PTL DEF Spec, InterruptRollsBack

\* Only clearing the conversation or loading another one takes the system prompt
\* away: no trimming, interrupt, compression, rating or agent change does.
THEOREM PromptSurvivesAlways == Spec => PromptSurvives
<1> DEFINE Taken == history' = <<>> \/ \E n \in ChatNames : history' = chats[n]
<1>1. ASSUME IInv, [Next]_vars, HasPrompt(history)
      PROVE  HasPrompt(history') \/ Taken
  <2>0. /\ TypeOK /\ history \in Seq(Message)
        /\ Len(history) \in Nat /\ Len(history) >= 1
        /\ 1 \in 1 .. Len(history) /\ history[1] \in Message
        /\ history # <<>> /\ history[1].kind = "prompt" /\ IsSystem(history[1])
    BY <1>1, LenProperties, EmptySeq, ElementOfSeq
       DEF IInv, TypeOK, HasPrompt, IsSystem, SystemKinds
  <2>1. ASSUME NEW t \in Seq(Message), Len(t) >= 1, t[1].kind = history[1].kind
        PROVE  HasPrompt(t)
    <3>1. t # <<>>
      BY <2>1, EmptySeq
    <3> QED
      BY <1>1, <2>0, <2>1, <3>1, FirstKept
  <2>2. ASSUME NEW h \in Seq(Message), HasPrompt(h), NEW m \in Message
        PROVE  Append(h, m) \in Seq(Message) /\ HasPrompt(Append(h, m))
    <3>1. Len(h) \in Nat /\ Len(h) >= 1
      BY <2>2, LenProperties, EmptySeq DEF HasPrompt
    <3> QED
      BY <2>2, <3>1, OneMore DEF HasPrompt
  <2>3. ASSUME NEW h \in Seq(Message), HasPrompt(h), NEW c \in Nat
        PROVE  HasPrompt(Fed(h, c))
    <3>1. Len(h) \in Nat /\ Len(h) >= 1
      BY <2>3, LenProperties, EmptySeq DEF HasPrompt
    <3>2. /\ Len(Fed(h, c)) = Len(h) + c
          /\ \A i \in 1 .. Len(h) + c :
               Fed(h, c)[i] = IF i <= Len(h) THEN h[i] ELSE Msg("context")
      BY <2>3, FedProperties
    <3>4. Len(Fed(h, c)) >= 1 /\ 1 \in 1 .. Len(h) + c
      BY <2>3, <3>1, <3>2
    <3>5. Fed(h, c)[1] = h[1]
      BY <3>1, <3>2, <3>4
    <3>3. Fed(h, c) # <<>>
      BY <3>4, EmptySeq
    <3> QED
      BY <2>3, <3>3, <3>5 DEF HasPrompt
  <2>4. \A k \in Kinds : Msg(k) \in Message
    BY MsgProperties
  <2>5. CASE SendPrompt
    <3>0. count \in Nat
      BY <2>0 DEF TypeOK
    <3>1. /\ Sent(history, count) \in Seq(Message)
          /\ Len(Sent(history, count)) >= 1
          /\ Sent(history, count)[1] = history[1]
      <4>1. Len(Sent(history, count)) = Len(history) + (IF count >= 2 THEN 2 ELSE 1)
        BY <2>0, <3>0, SentProperties
      <4>2. \A i \in 1 .. Len(history) : Sent(history, count)[i] = history[i]
        BY <2>0, <3>0, SentProperties
      <4>3. Len(Sent(history, count)) >= 1
        BY <2>0, <4>1
      <4> QED
        BY <2>0, <3>0, <4>2, <4>3, SentProperties
    <3>2. HasPrompt(Sent(history, count))
      BY <2>1, <3>1
    <3> QED
      BY <2>5, <3>1, <3>2, TrimKeepsPrompt DEF SendPrompt
  <2>6. ASSUME NEW n, NEW c \in Nat, NEW d, TakeReply(n, c, d)
        PROVE  HasPrompt(history')
    <3>1. /\ Append(history, Msg("reply")) \in Seq(Message)
          /\ HasPrompt(Append(history, Msg("reply")))
      BY <1>1, <2>0, <2>2, <2>4 DEF Kinds, AssistantKinds
    <3> QED
      BY <2>3, <2>6, <3>1 DEF TakeReply
  <2>7. CASE CallReturns
    <3>1. ASSUME NEW c \in 0 .. MaxContexts, NEW d \in 0 .. MaxTasks - Pending,
                 Reply(c, d) \/ FollowupReply(c, d)
          PROVE  HasPrompt(history')
      BY <2>6, <3>1 DEF Reply, FollowupReply
    <3>2. CASE Interrupt
      <4> DEFINE k == Len(history) - (IF reminded THEN 2 ELSE 1)
                 t == SubSeq(history, 1, k)
      <4>1. k \in Int /\ k <= Len(history)
        BY <2>0
      <4>2. history' = t
        BY <3>2 DEF Interrupt
      <4> HIDE DEF k
      <4>3. \A i \in 1 .. k : history[i] \in Message
        BY <2>0, <4>1, ElementOfSeq
      <4>4. /\ t \in Seq(Message) /\ Len(t) = (IF 1 <= k THEN k - 1 + 1 ELSE 0)
            /\ \A i \in 1 .. k - 1 + 1 : t[i] = history[1 + i - 1]
        BY <4>1, <4>3, SubSeqProperties
      <4> HIDE DEF t
      <4>5. CASE 1 <= k
        BY <2>1, <4>1, <4>2, <4>4, <4>5
      <4>6. CASE ~(1 <= k)
        BY <4>1, <4>2, <4>4, <4>6, EmptySeq
      <4> QED
        BY <4>5, <4>6
    <3>3. CASE InterruptFollowup
      BY <1>1, <3>3 DEF InterruptFollowup
    <3> QED
      BY <2>7, <3>1, <3>2, <3>3 DEF CallReturns
  <2>8. CASE Clear
    BY <2>8 DEF Clear
  <2>9. CASE PushContext
    BY <1>1, <2>0, <2>2, <2>4, <2>9 DEF PushContext, Kinds, UserKinds
  <2>10. CASE Mention
    <3>1. /\ <<Msg("ask"), Msg("reply")>> \in Seq(Message)
          /\ Len(<<Msg("ask"), Msg("reply")>>) = 2
      BY <2>4 DEF Kinds, UserKinds, AssistantKinds
    <3> DEFINE s == <<Msg("ask"), Msg("reply")>>
    <3> HIDE DEF s
    <3>2. s \in Seq(Message) /\ Len(s) = 2
      BY <3>1 DEF s
    <3>3. /\ history \o s \in Seq(Message)
          /\ Len(history \o s) = Len(history) + Len(s)
          /\ \A i \in 1 .. Len(history) + Len(s) :
               (history \o s)[i] = IF i <= Len(history) THEN history[i] ELSE s[i - Len(history)]
      BY <2>0, <3>2, ConcatProperties
    <3>4. Len(history \o s) >= 1 /\ (history \o s)[1] = history[1]
      BY <2>0, <3>2, <3>3
    <3> QED
      BY <2>1, <2>10, <3>3, <3>4 DEF Mention, s
  <2>11. CASE SetAgent \/ ResetAgent
    <3>1. history' = NewPrompt(history)
      BY <2>0, <2>11 DEF SetAgent, ResetAgent
    <3> QED
      BY <2>0, <2>1, <3>1, NewPromptShape
  <2>12. CASE Compress
    <3>1. history' = <<history[1]>> \o <<Msg("summary")>>
      BY <2>0, <2>12 DEF Compress
    <3>2. <<Msg("summary")>> \in Seq(Message) /\ Len(<<Msg("summary")>>) = 1
      BY <2>4 DEF Kinds, AssistantKinds
    <3> DEFINE s == <<Msg("summary")>>
    <3> HIDE DEF s
    <3>3. s \in Seq(Message) /\ Len(s) = 1
      BY <3>2 DEF s
    <3>4. /\ <<history[1]>> \o s \in Seq(Message)
          /\ Len(<<history[1]>> \o s) >= 1
          /\ (<<history[1]>> \o s)[1] = history[1]
      <4>1. /\ <<history[1]>> \o s \in Seq(Message)
            /\ Len(<<history[1]>> \o s) = Len(s) + 1
            /\ \A i \in 1 .. Len(s) + 1 :
                 (<<history[1]>> \o s)[i] = IF i = 1 THEN history[1] ELSE s[i - 1]
        BY <2>0, <3>3, OneBefore
      <4> QED
        BY <3>3, <4>1
    <3> QED
      BY <2>1, <3>1, <3>4 DEF s
  <2>13. ASSUME NEW n \in ChatNames, SaveChat(n) \/ LoadChat(n) \/ DeleteChat(n)
         PROVE  HasPrompt(history') \/ Taken
    BY <1>1, <2>13 DEF SaveChat, LoadChat, DeleteChat
  <2>14. ASSUME NEW i \in 1 .. Len(history), Rated(i)
         PROVE  HasPrompt(history')
    <3> DEFINE m == [history[i] EXCEPT !.rated = TRUE]
    <3>1. m \in Message /\ m.kind = history[i].kind
      <4>1. history[i] \in Message
        BY <2>0, <2>14, ElementOfSeq
      <4> QED
        BY <4>1 DEF Message
    <3>2. history' = [history EXCEPT ![i] = m]
      BY <2>14 DEF Rated
    <3> HIDE DEF m
    <3>3. /\ history' \in Seq(Message) /\ Len(history') = Len(history)
          /\ \A j \in 1 .. Len(history) : history'[j] = IF j = i THEN m ELSE history[j]
      BY <2>0, <2>14, <3>1, <3>2, ExceptSeq
    <3> QED
      BY <2>0, <2>1, <3>1, <3>3
  <2>15. CASE RateLast
    BY <2>14, <2>15 DEF RateLast
  <2>16. ASSUME NEW i \in 1 .. Len(history), RateNumbered(i)
         PROVE  HasPrompt(history')
    BY <2>14, <2>16 DEF RateNumbered
  <2>17. CASE CollectTasks
    <3>1. tasks.ready \in Nat
      BY <2>0 DEF TypeOK, TaskCounts
    <3> QED
      BY <1>1, <2>0, <2>3, <2>17, <3>1 DEF CollectTasks
  <2>18. CASE TaskEnds \/ Exit \/ Leave \/ UNCHANGED vars
    BY <1>1, <2>18 DEF TaskEnds, Exit, Leave, vars
  <2> QED
    BY <1>1, <2>5, <2>7, <2>8, <2>9, <2>10, <2>11, <2>12, <2>13, <2>15, <2>16, <2>17, <2>18
       DEF Next
<1>2. IInv /\ [Next]_vars => [HasPrompt(history) /\ ~HasPrompt(history') => Taken]_vars
  BY <1>1
<1> QED
  BY <1>2, Invariance, PTL DEF Spec, PromptSurvives
=============================================================================
