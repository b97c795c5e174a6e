---------------------------- MODULE Chat_proofs -----------------------------
(***************************************************************************)
(* Proofs about Chat, for every number of calls, tokens and providers.     *)
(***************************************************************************)
EXTENDS Chat, TLAPS

\* The states a session starts in satisfy the invariant.
LEMMA InvInit == Init => IInv
<1> SUFFICES ASSUME Init
             PROVE  IInv
  OBVIOUS
<1>1. {streaming, interactive, handler} \subseteq BOOLEAN
  BY DEF Init
<1>2. TypeOK
  BY <1>1, ChatAssumption
     DEF Init, TypeOK, Main, Threads, Calls, MainPCs, WorkPCs, Stopping, Polled
<1>3. WorkersInOrder /\ FirstTokenStops
  BY DEF Init, WorkersInOrder, FirstTokenStops, Untouched, Main, Threads, Calls, Stopping
<1>4. PolledForReason /\ DecidedOnReply /\ CutShortByUser /\ OnlyInterruptedRunOn
  BY DEF Init, PolledForReason, Polled, DecidedOnReply, Decided, CutShortByUser,
         OnlyInterruptedRunOn, Main, Threads, Calls, Stopping
<1> QED
  BY <1>2, <1>3, <1>4 DEF IInv

\* Starting a call keeps the invariant.
LEMMA StartInv ==
  ASSUME IInv, Start
  PROVE  IInv'
<1> USE ChatAssumption DEF IInv, Start, At, Goto, Main, Threads, Calls, ui, workVars, spinVars
<1>1. TypeOK'
  <2>1. calls + 1 \in Calls /\ calls' = calls + 1
    BY DEF TypeOK
  <2>2. /\ pc' \in [Threads -> MainPCs \cup WorkPCs]
        /\ pc'[Main] = "poll"
        /\ \A c \in Calls : pc'[c] \in WorkPCs
    BY <2>1 DEF TypeOK, MainPCs, WorkPCs, Stopping
  <2>3. /\ spinOn' \subseteq Calls /\ joinable' \subseteq Calls
        /\ spinner' \in [Calls -> {"none", "live", "ended"}]
    BY <2>1 DEF TypeOK
  <2>4. /\ {streaming, interactive, handler}' \subseteq BOOLEAN
        /\ handler' <=> pc'[Main] \in {"poll", "restore"} \/ Polled'
    BY <2>2 DEF TypeOK, Polled
  <2>5. pc'[Main] \in MainPCs /\ (pc'[Main] = "prompt" => g' = 0)
    BY <2>2 DEF MainPCs
  <2>6. /\ uses' \in [Calls -> Nat] /\ rendered' \in [Calls -> Nat] /\ first' \subseteq Calls
        /\ result' \in [Calls -> {"none", "partial", "whole", "failed"}]
    BY DEF TypeOK
  <2>7. /\ proc' \in {"up", "crashed", "killed"} /\ calls' \in 0 .. MaxCalls
        /\ g' \in {0, 1} /\ provider' \in Nat
        /\ ret' \in {"none", "empty", "partial", "whole", "failed"}
        /\ outcome' \in {"none", "cancelled", "whole", "failed"}
    BY <2>1 DEF TypeOK
  <2> HIDE DEF Start, IInv, Threads, Calls
  <2> QED
    BY <2>2, <2>3, <2>4, <2>5, <2>6, <2>7, Zenon DEF TypeOK
<1>2. WorkersInOrder'
  <2> SUFFICES ASSUME NEW c \in Calls
               PROVE  /\ c > calls' => Untouched(c)'
                      /\ result'[c] = "none" <=> pc'[c] \notin {"finish", "dead"}
    BY DEF WorkersInOrder
  <2>1. CASE c = calls + 1
    BY <2>1 DEF TypeOK, WorkersInOrder, Untouched
  <2>2. CASE c # calls + 1
    BY <2>2 DEF TypeOK, WorkersInOrder, Untouched
  <2> QED
    BY <2>1, <2>2
<1>3. PolledForReason' /\ DecidedOnReply'
  BY DEF TypeOK, PolledForReason, Polled, DecidedOnReply, Decided, Done, Stopping,
         CutShortByUser, WorkersInOrder, Untouched
<1>4. CutShortByUser' /\ OnlyInterruptedRunOn'
  <2>1. calls + 1 \in Calls /\ calls + 1 > calls /\ calls' = calls + 1
    BY DEF TypeOK
  <2>2. result'[calls'] = "none"
    BY <2>1 DEF TypeOK, WorkersInOrder, Untouched
  <2>3. pc'[Main] = "poll"
    BY <2>1 DEF TypeOK
  <2> QED
    BY <2>1, <2>2, <2>3 DEF CutShortByUser, OnlyInterruptedRunOn
<1>5. FirstTokenStops'
  <2>1. calls + 1 \in Calls /\ calls + 1 > calls
    BY DEF TypeOK
  <2> SUFFICES ASSUME NEW c \in Calls
               PROVE  /\ spinner'[c] = "live" => c \in joinable'
                      /\ pc'[c] \in Stopping \cup {"render"} \/ rendered'[c] > 0 => c \in first'
                      /\ c \in first' /\ pc'[c] \notin Stopping => spinner'[c] # "live"
                      /\ pc'[c] \in Stopping => rendered'[c] = 0
    BY DEF FirstTokenStops
  <2>2. CASE c = calls + 1
    <3>1. c \notin first /\ rendered[c] = 0 /\ c \notin first' /\ rendered'[c] = 0
      BY <2>1, <2>2 DEF WorkersInOrder, Untouched
    <3>2. pc'[c] = "start"
      BY <2>1, <2>2 DEF TypeOK
    <3>3. spinner'[c] = "live" => c \in joinable'
      BY <2>1, <2>2 DEF TypeOK, FirstTokenStops
    <3> QED
      BY <3>1, <3>2, <3>3 DEF Stopping
  <2>3. CASE c # calls + 1
    <3>0. c # Main
      OBVIOUS
    <3>1. pc'[c] = pc[c] /\ first' = first /\ rendered' = rendered
      BY <2>1, <2>3, <3>0 DEF TypeOK
    <3>2. spinner'[c] = spinner[c] /\ (c \in joinable' <=> c \in joinable)
      BY <2>1, <2>3 DEF TypeOK
    <3> QED
      BY <3>1, <3>2 DEF FirstTokenStops
  <2> QED
    BY <2>2, <2>3
<1> QED
  BY <1>1, <1>2, <1>3, <1>4, <1>5

\* Leaving the polling loop keeps the invariant.
LEMMA PollInv ==
  ASSUME IInv, Poll
  PROVE  IInv'
<1> USE ChatAssumption DEF IInv, Poll, At, Goto, Main, Threads, Calls, ui, workVars, spinVars
<1>1. TypeOK'
  BY DEF TypeOK, MainPCs, WorkPCs, Stopping, Polled
<1>2. WorkersInOrder'
  BY DEF TypeOK, WorkersInOrder, Untouched
<1>3. PolledForReason' /\ DecidedOnReply'
  BY DEF TypeOK, PolledForReason, Polled, DecidedOnReply, Decided, Done, Stopping,
         CutShortByUser, WorkersInOrder, Untouched
<1>4. CutShortByUser' /\ OnlyInterruptedRunOn'
  BY DEF TypeOK, CutShortByUser, OnlyInterruptedRunOn, DecidedOnReply, Decided, Done,
         WorkersInOrder, Untouched
<1>5. FirstTokenStops'
  BY DEF TypeOK, FirstTokenStops, WorkersInOrder, Untouched, Stopping
<1> QED
  BY <1>1, <1>2, <1>3, <1>4, <1>5

\* Joining or detaching the worker keeps the invariant.
LEMMA ReapInv ==
  ASSUME IInv, Reap
  PROVE  IInv'
<1> USE ChatAssumption DEF IInv, Reap, At, Goto, Main, Threads, Calls, ui, workVars, spinVars
<1>1. TypeOK'
  BY DEF TypeOK, MainPCs, WorkPCs, Stopping, Polled
<1>2. WorkersInOrder'
  BY DEF TypeOK, WorkersInOrder, Untouched
<1>3. PolledForReason' /\ DecidedOnReply'
  BY DEF TypeOK, PolledForReason, Polled, DecidedOnReply, Decided, Done, Stopping,
         CutShortByUser, WorkersInOrder, Untouched
<1>4. CutShortByUser' /\ OnlyInterruptedRunOn'
  BY DEF TypeOK, CutShortByUser, OnlyInterruptedRunOn, DecidedOnReply, Decided, Done,
         WorkersInOrder, Untouched
<1>5. FirstTokenStops'
  BY DEF TypeOK, FirstTokenStops, WorkersInOrder, Untouched, Stopping
<1> QED
  BY <1>1, <1>2, <1>3, <1>4, <1>5

\* Choosing what to return keeps the invariant.
LEMMA DecideInv ==
  ASSUME IInv, Decide
  PROVE  IInv'
<1> USE ChatAssumption DEF IInv, Decide, At, Goto, Main, Threads, Calls, ui, workVars, spinVars
<1>1. TypeOK'
  BY DEF TypeOK, MainPCs, WorkPCs, Stopping, Polled, CutShortByUser
<1>2. WorkersInOrder'
  BY DEF TypeOK, WorkersInOrder, Untouched
<1>3. PolledForReason' /\ DecidedOnReply'
  BY DEF TypeOK, PolledForReason, Polled, DecidedOnReply, Decided, Done, Stopping,
         CutShortByUser, WorkersInOrder, Untouched
<1>4. CutShortByUser' /\ OnlyInterruptedRunOn'
  BY DEF TypeOK, CutShortByUser, OnlyInterruptedRunOn, DecidedOnReply, Decided, Done,
         WorkersInOrder, Untouched
<1>5. FirstTokenStops'
  BY DEF TypeOK, FirstTokenStops, WorkersInOrder, Untouched, Stopping
<1> QED
  BY <1>1, <1>2, <1>3, <1>4, <1>5

\* Restoring the signal handler keeps the invariant.
LEMMA RestoreInv ==
  ASSUME IInv, Restore
  PROVE  IInv'
<1> USE ChatAssumption DEF IInv, Restore, At, Goto, Main, Threads, Calls, ui, workVars, spinVars
<1>1. TypeOK'
  BY DEF TypeOK, MainPCs, WorkPCs, Stopping, Polled
<1>2. WorkersInOrder'
  BY DEF TypeOK, WorkersInOrder, Untouched
<1>3. PolledForReason' /\ DecidedOnReply'
  BY DEF TypeOK, PolledForReason, Polled, DecidedOnReply, Decided, Done, Stopping,
         CutShortByUser, WorkersInOrder, Untouched
<1>4. CutShortByUser' /\ OnlyInterruptedRunOn'
  BY DEF TypeOK, CutShortByUser, OnlyInterruptedRunOn, DecidedOnReply, Decided, Done,
         WorkersInOrder, Untouched
<1>5. FirstTokenStops'
  BY DEF TypeOK, FirstTokenStops, WorkersInOrder, Untouched, Stopping
<1> QED
  BY <1>1, <1>2, <1>3, <1>4, <1>5

\* Taking or dropping the reply keeps the invariant.
LEMMA CheckInv ==
  ASSUME IInv, Check
  PROVE  IInv'
<1> USE ChatAssumption DEF IInv, Check, At, Goto, Main, Threads, Calls, ui, workVars, spinVars
<1>1. TypeOK'
  BY DEF TypeOK, MainPCs, WorkPCs, Stopping, Polled, DecidedOnReply, Decided
<1>2. WorkersInOrder'
  BY DEF TypeOK, WorkersInOrder, Untouched
<1>3. PolledForReason' /\ DecidedOnReply'
  BY DEF TypeOK, PolledForReason, Polled, DecidedOnReply, Decided, Done, Stopping,
         CutShortByUser, WorkersInOrder, Untouched
<1>4. CutShortByUser' /\ OnlyInterruptedRunOn'
  BY DEF TypeOK, CutShortByUser, OnlyInterruptedRunOn, DecidedOnReply, Decided, Done,
         WorkersInOrder, Untouched
<1>5. FirstTokenStops'
  BY DEF TypeOK, FirstTokenStops, WorkersInOrder, Untouched, Stopping
<1> QED
  BY <1>1, <1>2, <1>3, <1>4, <1>5

\* Replacing the provider keeps the invariant.
LEMMA SwitchProviderInv ==
  ASSUME IInv, SwitchProvider
  PROVE  IInv'
<1> USE ChatAssumption DEF IInv, SwitchProvider, At, Goto, Main, Threads, Calls, ui, workVars, spinVars
<1>1. TypeOK'
  BY DEF TypeOK, MainPCs, WorkPCs, Stopping, Polled
<1>2. WorkersInOrder'
  BY DEF TypeOK, WorkersInOrder, Untouched
<1>3. PolledForReason' /\ DecidedOnReply'
  BY DEF TypeOK, PolledForReason, Polled, DecidedOnReply, Decided, Done, Stopping,
         CutShortByUser, WorkersInOrder, Untouched
<1>4. CutShortByUser' /\ OnlyInterruptedRunOn'
  BY DEF TypeOK, CutShortByUser, OnlyInterruptedRunOn, DecidedOnReply, Decided, Done,
         WorkersInOrder, Untouched
<1>5. FirstTokenStops'
  BY DEF TypeOK, FirstTokenStops, WorkersInOrder, Untouched, Stopping
<1> QED
  BY <1>1, <1>2, <1>3, <1>4, <1>5

\* Clearing running_ keeps the invariant.
LEMMA StopExchangeInv ==
  ASSUME IInv, NEW t \in Threads, StopExchange(t)
  PROVE  IInv'
<1> USE ChatAssumption DEF IInv, StopExchange, SpinOf, At, Goto, Main, Threads, Calls, ui, workVars, spinVars
<1>1. TypeOK'
  BY DEF TypeOK, MainPCs, WorkPCs, Stopping, Polled
<1>2. WorkersInOrder'
  BY DEF TypeOK, WorkersInOrder, Untouched
<1>3. PolledForReason' /\ DecidedOnReply'
  BY DEF TypeOK, PolledForReason, Polled, DecidedOnReply, Decided, Done, Stopping,
         CutShortByUser, WorkersInOrder, Untouched
<1>4. CutShortByUser' /\ OnlyInterruptedRunOn'
  BY DEF TypeOK, CutShortByUser, OnlyInterruptedRunOn, DecidedOnReply, Decided, Done,
         WorkersInOrder, Untouched
<1>5. FirstTokenStops'
  BY DEF TypeOK, FirstTokenStops, WorkersInOrder, Untouched, Stopping
<1> QED
  BY <1>1, <1>2, <1>3, <1>4, <1>5

\* Testing the spinner's thread keeps the invariant.
LEMMA StopTestInv ==
  ASSUME IInv, NEW t \in Threads, StopTest(t)
  PROVE  IInv'
<1> USE ChatAssumption DEF IInv, StopTest, SpinOf, Resume, At, Goto, Main, Threads, Calls, ui, workVars, spinVars
<1>1. TypeOK'
  <2>1. CASE t = Main
    <3>1. pc'[Main] \in {"join", "reap", "check"} /\ \A c \in Calls : pc'[c] = pc[c]
      BY <2>1 DEF TypeOK
    <3>2. pc' \in [Threads -> MainPCs \cup WorkPCs]
      BY <2>1 DEF TypeOK, MainPCs, WorkPCs, Stopping
    <3>3. handler <=> streaming
      BY <2>1 DEF TypeOK, Stopping, Polled
    <3>4. pc'[Main] = "reap" => streaming
      BY <2>1 DEF TypeOK
    <3>5. pc'[Main] = "check" => ~streaming
      BY <2>1 DEF TypeOK
    <3> QED
      BY <2>1, <3>1, <3>2, <3>3, <3>4, <3>5 DEF TypeOK, MainPCs, Stopping, Polled
  <2>2. CASE t # Main
    <3>1. pc'[Main] = pc[Main] /\ \A c \in Calls : pc'[c] \in WorkPCs
      BY <2>2 DEF TypeOK, WorkPCs, Stopping
    <3>2. pc' \in [Threads -> MainPCs \cup WorkPCs]
      BY <2>2 DEF TypeOK, WorkPCs, Stopping
    <3> QED
      BY <2>2, <3>1, <3>2 DEF TypeOK, Polled
  <2> QED
    BY <2>1, <2>2
<1>2. WorkersInOrder'
  BY DEF TypeOK, WorkersInOrder, Untouched
<1>3. PolledForReason' /\ DecidedOnReply'
  BY DEF TypeOK, PolledForReason, Polled, DecidedOnReply, Decided, Done, Stopping,
         CutShortByUser, WorkersInOrder, Untouched
<1>4. CutShortByUser' /\ OnlyInterruptedRunOn'
  BY DEF TypeOK, CutShortByUser, OnlyInterruptedRunOn, DecidedOnReply, Decided, Done,
         WorkersInOrder, Untouched
<1>5. FirstTokenStops'
  BY DEF TypeOK, FirstTokenStops, WorkersInOrder, Untouched, Stopping
<1> QED
  BY <1>1, <1>2, <1>3, <1>4, <1>5

\* Joining the spinner's thread keeps the invariant.
LEMMA StopJoinInv ==
  ASSUME IInv, NEW t \in Threads, StopJoin(t)
  PROVE  IInv'
<1> USE ChatAssumption DEF IInv, StopJoin, SpinOf, Resume, At, Goto, Main, Threads, Calls, ui, workVars, spinVars
<1>1. TypeOK'
  <2>1. CASE t = Main
    <3>1. pc'[Main] \in {"join", "reap", "check"} /\ \A c \in Calls : pc'[c] = pc[c]
      BY <2>1 DEF TypeOK
    <3>2. pc' \in [Threads -> MainPCs \cup WorkPCs]
      BY <2>1 DEF TypeOK, MainPCs, WorkPCs, Stopping
    <3>3. handler <=> streaming
      BY <2>1 DEF TypeOK, Stopping, Polled
    <3>4. pc'[Main] = "reap" => streaming
      BY <2>1 DEF TypeOK
    <3>5. pc'[Main] = "check" => ~streaming
      BY <2>1 DEF TypeOK
    <3> QED
      BY <2>1, <3>1, <3>2, <3>3, <3>4, <3>5 DEF TypeOK, MainPCs, Stopping, Polled
  <2>2. CASE t # Main
    <3>1. pc'[Main] = pc[Main] /\ \A c \in Calls : pc'[c] \in WorkPCs
      BY <2>2 DEF TypeOK, WorkPCs, Stopping
    <3>2. pc' \in [Threads -> MainPCs \cup WorkPCs]
      BY <2>2 DEF TypeOK, WorkPCs, Stopping
    <3> QED
      BY <2>2, <3>1, <3>2 DEF TypeOK, Polled
  <2> QED
    BY <2>1, <2>2
<1>2. WorkersInOrder'
  BY DEF TypeOK, WorkersInOrder, Untouched
<1>3. PolledForReason' /\ DecidedOnReply'
  BY DEF TypeOK, PolledForReason, Polled, DecidedOnReply, Decided, Done, Stopping,
         CutShortByUser, WorkersInOrder, Untouched
<1>4. CutShortByUser' /\ OnlyInterruptedRunOn'
  BY DEF TypeOK, CutShortByUser, OnlyInterruptedRunOn, DecidedOnReply, Decided, Done,
         WorkersInOrder, Untouched
<1>5. FirstTokenStops'
  BY DEF TypeOK, FirstTokenStops, WorkersInOrder, Untouched, Stopping
<1> QED
  BY <1>1, <1>2, <1>3, <1>4, <1>5

\* The end of the animation keeps the invariant.
LEMMA SpinnerEndsInv ==
  ASSUME IInv, NEW c \in Calls, SpinnerEnds(c)
  PROVE  IInv'
<1> USE ChatAssumption DEF IInv, SpinnerEnds, At, Goto, Main, Threads, Calls, ui, workVars, spinVars
<1>1. TypeOK'
  BY DEF TypeOK, MainPCs, WorkPCs, Stopping, Polled
<1>2. WorkersInOrder'
  BY DEF TypeOK, WorkersInOrder, Untouched
<1>3. PolledForReason' /\ DecidedOnReply'
  BY DEF TypeOK, PolledForReason, Polled, DecidedOnReply, Decided, Done, Stopping,
         CutShortByUser, WorkersInOrder, Untouched
<1>4. CutShortByUser' /\ OnlyInterruptedRunOn'
  BY DEF TypeOK, CutShortByUser, OnlyInterruptedRunOn, DecidedOnReply, Decided, Done,
         WorkersInOrder, Untouched
<1>5. FirstTokenStops'
  BY DEF TypeOK, FirstTokenStops, WorkersInOrder, Untouched, Stopping
<1> QED
  BY <1>1, <1>2, <1>3, <1>4, <1>5

\* Entering the provider keeps the invariant.
LEMMA EnterInv ==
  ASSUME IInv, NEW c \in Calls, Enter(c)
  PROVE  IInv'
<1> USE ChatAssumption DEF IInv, Enter, At, Goto, Main, Threads, Calls, ui, workVars, spinVars
<1>1. TypeOK'
  BY DEF TypeOK, MainPCs, WorkPCs, Stopping, Polled
<1>2. WorkersInOrder'
  BY DEF TypeOK, WorkersInOrder, Untouched
<1>3. PolledForReason' /\ DecidedOnReply'
  BY DEF TypeOK, PolledForReason, Polled, DecidedOnReply, Decided, Done, Stopping,
         CutShortByUser, WorkersInOrder, Untouched
<1>4. CutShortByUser' /\ OnlyInterruptedRunOn'
  BY DEF TypeOK, CutShortByUser, OnlyInterruptedRunOn, DecidedOnReply, Decided, Done,
         WorkersInOrder, Untouched
<1>5. FirstTokenStops'
  BY DEF TypeOK, FirstTokenStops, WorkersInOrder, Untouched, Stopping
<1> QED
  BY <1>1, <1>2, <1>3, <1>4, <1>5

\* A token keeps the invariant.
LEMMA TokenInv ==
  ASSUME IInv, NEW c \in Calls, Token(c)
  PROVE  IInv'
<1> USE ChatAssumption DEF IInv, Token, At, Goto, Main, Threads, Calls, ui, workVars, spinVars
<1>1. TypeOK'
  BY DEF TypeOK, MainPCs, WorkPCs, Stopping, Polled
<1>2. WorkersInOrder'
  BY DEF TypeOK, WorkersInOrder, Untouched
<1>3. PolledForReason' /\ DecidedOnReply'
  BY DEF TypeOK, PolledForReason, Polled, DecidedOnReply, Decided, Done, Stopping,
         CutShortByUser, WorkersInOrder, Untouched
<1>4. CutShortByUser' /\ OnlyInterruptedRunOn'
  BY DEF TypeOK, CutShortByUser, OnlyInterruptedRunOn, DecidedOnReply, Decided, Done,
         WorkersInOrder, Untouched
<1>5. FirstTokenStops'
  BY DEF TypeOK, FirstTokenStops, WorkersInOrder, Untouched, Stopping
<1> QED
  BY <1>1, <1>2, <1>3, <1>4, <1>5

\* Writing a token keeps the invariant.
LEMMA RenderInv ==
  ASSUME IInv, NEW c \in Calls, Render(c)
  PROVE  IInv'
<1> USE ChatAssumption DEF IInv, Render, At, Goto, Main, Threads, Calls, ui, workVars, spinVars
<1>1. TypeOK'
  <2>1. rendered' \in [Calls -> Nat]
    BY DEF TypeOK
  <2> QED
    BY <2>1 DEF TypeOK, MainPCs, WorkPCs, Stopping, Polled
<1>2. WorkersInOrder'
  BY DEF TypeOK, WorkersInOrder, Untouched
<1>3. PolledForReason' /\ DecidedOnReply'
  BY DEF TypeOK, PolledForReason, Polled, DecidedOnReply, Decided, Done, Stopping,
         CutShortByUser, WorkersInOrder, Untouched
<1>4. CutShortByUser' /\ OnlyInterruptedRunOn'
  BY DEF TypeOK, CutShortByUser, OnlyInterruptedRunOn, DecidedOnReply, Decided, Done,
         WorkersInOrder, Untouched
<1>5. FirstTokenStops'
  BY DEF TypeOK, FirstTokenStops, WorkersInOrder, Untouched, Stopping
<1> QED
  BY <1>1, <1>2, <1>3, <1>4, <1>5

\* Stopping at a token keeps the invariant.
LEMMA StoppedInv ==
  ASSUME IInv, NEW c \in Calls, Stopped(c)
  PROVE  IInv'
<1> USE ChatAssumption DEF IInv, Stopped, Returns, At, Goto, Main, Threads, Calls, ui, workVars, spinVars
<1>1. TypeOK'
  BY DEF TypeOK, MainPCs, WorkPCs, Stopping, Polled
<1>2. WorkersInOrder'
  BY DEF TypeOK, WorkersInOrder, Untouched
<1>3. PolledForReason' /\ DecidedOnReply'
  BY DEF TypeOK, PolledForReason, Polled, DecidedOnReply, Decided, Done, Stopping,
         CutShortByUser, WorkersInOrder, Untouched
<1>4. CutShortByUser' /\ OnlyInterruptedRunOn'
  BY DEF TypeOK, CutShortByUser, OnlyInterruptedRunOn, DecidedOnReply, Decided, Done,
         WorkersInOrder, Untouched
<1>5. FirstTokenStops'
  BY DEF TypeOK, FirstTokenStops, WorkersInOrder, Untouched, Stopping
<1> QED
  BY <1>1, <1>2, <1>3, <1>4, <1>5

\* The end of the request keeps the invariant.
LEMMA EndedInv ==
  ASSUME IInv, NEW c \in Calls, Ended(c)
  PROVE  IInv'
<1> USE ChatAssumption DEF IInv, At, Goto, Main, Threads, Calls, ui, spinVars
<1>0. PICK r \in {"whole", "failed"} : Returns(c, r)
  BY DEF Ended
<1> USE <1>0 DEF Returns
<1>1. TypeOK'
  BY DEF TypeOK, MainPCs, WorkPCs, Stopping, Polled
<1>2. WorkersInOrder'
  BY DEF TypeOK, WorkersInOrder, Untouched
<1>3. PolledForReason' /\ DecidedOnReply'
  BY DEF TypeOK, PolledForReason, Polled, DecidedOnReply, Decided, Done, Stopping,
         CutShortByUser
<1>4. CutShortByUser' /\ OnlyInterruptedRunOn'
  BY DEF TypeOK, CutShortByUser, OnlyInterruptedRunOn, Done
<1>5. FirstTokenStops'
  BY DEF TypeOK, FirstTokenStops, Stopping
<1> QED
  BY <1>1, <1>2, <1>3, <1>4, <1>5

\* The end of the worker keeps the invariant.
LEMMA FinishInv ==
  ASSUME IInv, NEW c \in Calls, Finish(c)
  PROVE  IInv'
<1> USE ChatAssumption DEF IInv, Finish, At, Goto, Main, Threads, Calls, ui, workVars, spinVars
<1>1. TypeOK'
  BY DEF TypeOK, MainPCs, WorkPCs, Stopping, Polled
<1>2. WorkersInOrder'
  BY DEF TypeOK, WorkersInOrder, Untouched
<1>3. PolledForReason' /\ DecidedOnReply'
  BY DEF TypeOK, PolledForReason, Polled, DecidedOnReply, Decided, Done, Stopping,
         CutShortByUser, WorkersInOrder, Untouched
<1>4. CutShortByUser' /\ OnlyInterruptedRunOn'
  BY DEF TypeOK, CutShortByUser, OnlyInterruptedRunOn, DecidedOnReply, Decided, Done,
         WorkersInOrder, Untouched
<1>5. FirstTokenStops'
  BY DEF TypeOK, FirstTokenStops, WorkersInOrder, Untouched, Stopping
<1> QED
  BY <1>1, <1>2, <1>3, <1>4, <1>5

\* Ctrl-C keeps the invariant.
LEMMA SigintInv ==
  ASSUME IInv, Sigint
  PROVE  IInv'
<1> USE ChatAssumption DEF IInv, Sigint, At, Goto, Main, Threads, Calls, ui, workVars, spinVars
<1>1. TypeOK'
  BY DEF TypeOK, MainPCs, WorkPCs, Stopping, Polled
<1>2. WorkersInOrder'
  BY DEF TypeOK, WorkersInOrder, Untouched
<1>3. PolledForReason' /\ DecidedOnReply'
  BY DEF TypeOK, PolledForReason, Polled, DecidedOnReply, Decided, Done, Stopping,
         CutShortByUser, WorkersInOrder, Untouched
<1>4. CutShortByUser' /\ OnlyInterruptedRunOn'
  BY DEF TypeOK, CutShortByUser, OnlyInterruptedRunOn, DecidedOnReply, Decided, Done,
         WorkersInOrder, Untouched
<1>5. FirstTokenStops'
  BY DEF TypeOK, FirstTokenStops, WorkersInOrder, Untouched, Stopping
<1> QED
  BY <1>1, <1>2, <1>3, <1>4, <1>5

\* The end of the process keeps the invariant.
LEMMA ProcInv ==
  ASSUME IInv, proc' \in {"up", "crashed", "killed"},
         UNCHANGED <<ui, calls, pc, g, handler, provider, workVars, spinVars, ret, outcome>>
  PROVE  IInv'
<1> USE DEF IInv, ui, workVars, spinVars
<1>1. TypeOK'
  BY DEF TypeOK, Polled
<1>2. WorkersInOrder' /\ FirstTokenStops'
  BY DEF WorkersInOrder, Untouched, FirstTokenStops
<1>3. PolledForReason' /\ DecidedOnReply' /\ CutShortByUser' /\ OnlyInterruptedRunOn'
  BY DEF PolledForReason, Polled, DecidedOnReply, Decided, CutShortByUser,
         OnlyInterruptedRunOn, Done
<1> QED
  BY <1>1, <1>2, <1>3

\* Every step keeps the invariant.
LEMMA InvStep == IInv /\ [Next]_vars => IInv'
<1> SUFFICES ASSUME IInv, [Next]_vars
             PROVE  IInv'
  OBVIOUS
<1>1. CASE Start \/ SwitchProvider \/ Sigint
  BY <1>1, StartInv, SwitchProviderInv, SigintInv
<1>2. CASE SigintKills
  BY <1>2, ProcInv DEF SigintKills
<1>3. ASSUME NEW t \in Threads, Stop(t)
      PROVE  IInv'
  <2>1. CASE DoubleJoin(t)
    BY <2>1, ProcInv DEF DoubleJoin
  <2> QED
    BY <1>3, <2>1, StopExchangeInv, StopTestInv, StopJoinInv DEF Stop
<1>4. CASE MainStep
  <2>1. Main \in Threads
    BY DEF Threads
  <2> QED
    BY <1>3, <1>4, <2>1, PollInv, ReapInv, DecideInv, RestoreInv, CheckInv DEF MainStep
<1>5. ASSUME NEW c \in Calls, WorkStep(c) \/ SpinnerEnds(c)
      PROVE  IInv'
  <2>1. c \in Threads
    BY DEF Threads
  <2>2. CASE UseFreed(c)
    BY <2>2, ProcInv DEF UseFreed
  <2> QED
    BY <1>3, <1>5, <2>1, <2>2, EnterInv, TokenInv, RenderInv, StoppedInv, EndedInv, FinishInv,
       SpinnerEndsInv DEF WorkStep
<1>6. CASE UNCHANGED vars
  <2>1. proc' \in {"up", "crashed", "killed"}
    BY <1>6 DEF IInv, TypeOK, vars
  <2> QED
    BY <1>6, <2>1, ProcInv DEF vars
<1> QED
  BY <1>1, <1>2, <1>4, <1>5, <1>6 DEF Next

\* The invariant holds in every state.
LEMMA Invariance == Spec => []IInv
BY InvInit, InvStep, PTL DEF Spec

\* The state is always well formed: the handler is installed exactly while a call
\* can be interrupted, and no Ctrl-C is carried over to the next one.
THEOREM TypeCorrect == Spec => []TypeOK
<1>1. IInv => TypeOK
  BY DEF IInv
<1> QED
  BY <1>1, Invariance, PTL

\* No reply is taken from a call whose worker may still write.
THEOREM OnlyInterruptedRunOnAlways == Spec => []OnlyInterruptedRunOn
<1>1. IInv => OnlyInterruptedRunOn
  BY DEF IInv
<1> QED
  BY <1>1, Invariance, PTL

\* No text is put on the terminal while the spinner of its call draws there.
THEOREM SpinnerBeforeTextAlways == Spec => []SpinnerBeforeText
<1>1. IInv => SpinnerBeforeText
  <2> SUFFICES ASSUME IInv, NEW c \in Calls, pc[c] = "render" \/ rendered[c] > 0
               PROVE  spinner[c] # "live"
    BY DEF SpinnerBeforeText
  <2>1. c \in first
    BY DEF IInv, FirstTokenStops
  <2>2. pc[c] \notin Stopping
    BY DEF IInv, FirstTokenStops, Stopping
  <2> QED
    BY <2>1, <2>2 DEF IInv, FirstTokenStops
<1> QED
  BY <1>1, Invariance, PTL

-----------------------------------------------------------------------------
(* The refinement of PromptCall. *)

\* A session starts with no call made or pending.
LEMMA CallInit == Init => Call!Init
BY DEF Init, Call!Init, Main, Threads

\* What PromptCall sees of a step that changes neither the number of calls, nor
\* whether one is pending, nor the flag, nor an outcome.
LEMMA CallStutters ==
  ASSUME UNCHANGED <<calls, g, outcome>>, pc'[Main] # "prompt" <=> pc[Main] # "prompt"
  PROVE  UNCHANGED Call!vars
<1>1. UNCHANGED <<calls, outcome>> /\ (pc[Main] # "prompt")' = (pc[Main] # "prompt")
      /\ (g = 1)' = (g = 1)
  OBVIOUS
<1> QED
  BY <1>1 DEF Call!vars

\* Every step of the threads is a step of PromptCall or none.
LEMMA CallStep == IInv /\ [Next]_vars => [Call!Next]_(Call!vars)
<1> SUFFICES ASSUME IInv, [Next]_vars
             PROVE  Call!Next \/ UNCHANGED Call!vars
  OBVIOUS
<1> USE DEF Main, Threads
<1>0. Main \in Threads /\ pc \in [Threads -> MainPCs \cup WorkPCs] /\ \A c \in Calls : c # Main
  BY DEF IInv, TypeOK, Calls
<1>1. CASE Start
  <2>1. pc[Main] = "prompt" /\ pc'[Main] # "prompt" /\ calls' = calls + 1
    BY <1>0, <1>1, ChatAssumption DEF Start, At, IInv, TypeOK, Calls
  <2>2. g = 0 /\ g' = 0 /\ outcome' = "none"
    BY <1>1, <2>1 DEF Start, IInv, TypeOK
  <2>3. Call!Ask
    BY <2>1, <2>2 DEF Call!Ask
  <2> QED
    BY <2>3 DEF Call!Next
<1>2. CASE Sigint
  <2>1. pc[Main] # "prompt" /\ UNCHANGED <<calls, pc, outcome>> /\ g' = 1
    BY <1>2 DEF Sigint, IInv, TypeOK, Polled, Stopping
  <2>2. CASE g = 1
    BY <2>1, <2>2, CallStutters
  <2>3. CASE g # 1
    <3>1. Call!Interrupt
      BY <2>1, <2>3 DEF Call!Interrupt
    <3> QED
      BY <3>1 DEF Call!Next
  <2> QED
    BY <2>2, <2>3
<1>3. CASE Check
  <2>1. pc[Main] = "check" /\ pc'[Main] = "prompt" /\ g' = 0 /\ calls' = calls
    BY <1>0, <1>3 DEF Check, At, Goto
  <2>2. g # 1 => ret \in {"whole", "failed"}
    BY <2>1 DEF IInv, DecidedOnReply, Decided
  <2>3. IF g = 1 THEN outcome' = "cancelled" ELSE outcome' \in {"whole", "failed"}
    BY <1>3, <2>2 DEF Check
  <2>4. Call!Finish
    BY <2>1, <2>3 DEF Call!Finish, Call!Replies
  <2> QED
    BY <2>4 DEF Call!Next
<1>4. CASE Poll \/ Reap \/ Decide \/ Restore
  <2>1. UNCHANGED <<calls, g, outcome>> /\ pc[Main] # "prompt" /\ pc'[Main] # "prompt"
    BY <1>0, <1>4 DEF Poll, Reap, Decide, Restore, At, Goto
  <2> QED
    BY <2>1, CallStutters
<1>5. ASSUME NEW t \in Threads, Stop(t)
      PROVE  UNCHANGED Call!vars
  <2>1. UNCHANGED <<calls, g, outcome>>
    BY <1>5 DEF Stop, StopExchange, StopTest, StopJoin, DoubleJoin
  <2>2. pc'[Main] # "prompt" <=> pc[Main] # "prompt"
    BY <1>0, <1>5 DEF Stop, StopExchange, StopTest, StopJoin, DoubleJoin, At, Goto, Resume
  <2> QED
    BY <2>1, <2>2, CallStutters
<1>6. ASSUME NEW c \in Calls, WorkStep(c) \/ SpinnerEnds(c)
      PROVE  UNCHANGED Call!vars
  <2>1. CASE Stop(c)
    BY <1>5, <2>1
  <2>2. CASE ~Stop(c)
    <3>1. UNCHANGED <<calls, g, outcome>> /\ pc'[Main] = pc[Main]
      BY <1>0, <1>6, <2>2
         DEF WorkStep, SpinnerEnds, Enter, Token, Render, Stopped, Ended, Returns, Finish,
             UseFreed, Goto
    <3> QED
      BY <3>1, CallStutters
  <2> QED
    BY <2>1, <2>2
<1>7. CASE SwitchProvider \/ SigintKills \/ UNCHANGED vars
  BY <1>7, CallStutters DEF SwitchProvider, SigintKills, vars
<1> QED
  BY <1>0, <1>1, <1>2, <1>3, <1>4, <1>5, <1>6, <1>7 DEF Next, MainStep

\* Three threads and a signal handler implement the call the prompt line relies on.
THEOREM Refinement == Spec => ImplementsPromptCall
<1>1. IInv /\ [Next]_vars => [Call!Next]_(Call!vars)
  BY CallStep
<1> QED
  BY <1>1, CallInit, Invariance, PTL DEF Spec, ImplementsPromptCall, Call!Spec
=============================================================================
