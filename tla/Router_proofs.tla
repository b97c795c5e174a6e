--------------------------- MODULE Router_proofs ---------------------------
(***************************************************************************)
(* Proofs about Router, for every number of hosts, calls and tokens.       *)
(***************************************************************************)
EXTENDS Router, TLAPS

-----------------------------------------------------------------------------
(* The ring of hosts. *)

\* A step round the ring ends at a host.
LEMMA AfterType ==
  ASSUME NEW h \in Hosts, NEW i \in 1 .. HostCount - 1
  PROVE  After(h, i) \in Hosts
BY RouterAssumption DEF After, Hosts

\* Every host but the one it starts from lies on the way round the ring.
LEMMA RingCovers ==
  ASSUME NEW h \in Hosts, NEW k \in Hosts, k # h
  PROVE  \E i \in 1 .. HostCount - 1 : After(h, i) = k
<1>1. CASE k > h
  <2>1. k - h \in 1 .. HostCount - 1 /\ After(h, k - h) = k
    BY <1>1, RouterAssumption DEF After, Hosts
  <2> QED
    BY <2>1
<1>2. CASE k < h
  <2>1. k - h + HostCount \in 1 .. HostCount - 1 /\ After(h, k - h + HostCount) = k
    BY <1>2, RouterAssumption DEF After, Hosts
  <2> QED
    BY <2>1
<1> QED
  BY <1>1, <1>2, RouterAssumption DEF Hosts

\* When failover finds nothing, no host but the active one is healthy.
LEMMA NothingFound ==
  ASSUME TypeOK, Offsets = {}
  PROVE  healthy \subseteq {active}
<1> SUFFICES ASSUME NEW k \in healthy, k # active
             PROVE  FALSE
  OBVIOUS
<1>1. PICK i \in 1 .. HostCount - 1 : After(active, i) = k
  BY RingCovers DEF TypeOK
<1> QED
  BY <1>1 DEF Offsets

-----------------------------------------------------------------------------
(* The invariant. *)

LEMMA InvInit == Init => IInv
<1> SUFFICES ASSUME Init
             PROVE  IInv
  OBVIOUS
<1> USE RouterAssumption DEF Hosts, Calls
<1>1. TypeOK
  <2>1. streamed \in [Calls -> BOOLEAN]
    BY DEF Init
  <2>2. flag \in BOOLEAN /\ waiting \in BOOLEAN /\ overlapped \in BOOLEAN
    BY DEF Init
  <2>3. aborted \in [Calls -> BOOLEAN] /\ pc \in [Calls -> PCs]
    BY DEF Init, PCs
  <2>4. /\ has \subseteq Hosts /\ healthy \subseteq Hosts /\ probed \subseteq Hosts
        /\ active \in Hosts /\ calls \in 0 .. MaxCalls
        /\ host \in [Calls -> Hosts] /\ next \in [Calls -> Hosts]
        /\ leg \in [Calls -> 1 .. 2] /\ try \in [Calls -> 1 .. 2]
        /\ got \in [Calls -> 0 .. MaxTokens]
    BY DEF Init
  <2>5. /\ text \in [Calls -> Nat] /\ part \in [Calls -> Nat] /\ reply \in [Calls -> Nat]
        /\ \A c \in Calls : text[c] <= 2 * MaxTokens + 1
    BY DEF Init
  <2> QED
    BY <2>1, <2>2, <2>3, <2>4, <2>5 DEF TypeOK
<1>2. has \subseteq probed /\ healthy \subseteq probed
  BY DEF Init
<1>3. \A c \in Calls : OrderOf(c)
  BY DEF Init, OrderOf, FailoverPCs, Sending
<1>4. Solo
  BY DEF Init, Solo, InFlight
<1>5. ActiveHost
  BY DEF Init, ActiveHost, FindHost, IsFirst
<1> QED
  BY <1>1, <1>2, <1>3, <1>4, <1>5 DEF IInv

LEMMA StartInv ==
  ASSUME IInv, NEW c \in Calls, Start(c)
  PROVE  IInv'
<1> USE RouterAssumption DEF IInv, Start, shared, local
<1>0. pc[c] = "none" /\ pc'[c] = "sending" /\ \A d \in Calls : d # c => pc'[d] = pc[d]
  BY DEF TypeOK, OrderOf, Calls
<1>1. TypeOK'
  BY DEF TypeOK, PCs, Calls, Hosts
<1>2. (has \subseteq probed /\ healthy \subseteq probed)'
  OBVIOUS
<1>3. ASSUME NEW d \in Calls
      PROVE  OrderOf(d)'
  BY <1>0 DEF TypeOK, OrderOf, FailoverPCs, Sending, Calls
<1>4. Solo'
  <2> SUFFICES ASSUME ~overlapped'
               PROVE  /\ \A d, e \in Calls : InFlight(d)' /\ InFlight(e)' => d = e
                      /\ \A d \in Calls :
                           /\ pc'[d] \in {"sending", "mark"} => host'[d] = active'
                           /\ pc'[d] = "pick" => active' \notin healthy'
                           /\ pc'[d] = "set" => next'[d] \in healthy'
                           /\ pc'[d] \in {"pick", "set"} /\ healthy' = probed' => has' = {}
    BY DEF Solo
  <2>1. \A d \in Calls : ~InFlight(d)
    OBVIOUS
  <2>2. \A d \in Calls : d # c => ~InFlight(d)'
    BY <1>0, <2>1 DEF InFlight
  <2>3. host'[c] = active'
    BY DEF TypeOK
  <2> QED
    BY <1>0, <2>2, <2>3 DEF InFlight
<1>5. ActiveHost'
  BY <1>0 DEF ActiveHost
<1> QED
  BY <1>1, <1>2, <1>3, <1>4, <1>5

\* A request step of call c leaves the hosts, the REPL and every other call alone.
LEMMA RequestInv ==
  ASSUME IInv, NEW c \in Calls,
         UNCHANGED <<shared, repl, streamed, host, leg, next>>,
         TypeOK', OrderOf(c)',
         pc[c] = "sending", pc'[c] \in {"sending", "mark", "done"},
         \A d \in Calls : d # c =>
           /\ pc'[d] = pc[d] /\ try'[d] = try[d] /\ got'[d] = got[d] /\ text'[d] = text[d]
           /\ part'[d] = part[d] /\ aborted'[d] = aborted[d] /\ reply'[d] = reply[d]
  PROVE  IInv'
<1> USE DEF IInv, shared, repl
<1>1. \A d \in Calls : OrderOf(d)'
  <2> SUFFICES ASSUME NEW d \in Calls, d # c
               PROVE  OrderOf(d)'
    OBVIOUS
  <2> QED
    BY DEF OrderOf, Sending
<1>2. Solo'
  BY DEF Solo, InFlight
<1>3. ActiveHost'
  BY DEF ActiveHost
<1> QED
  BY <1>1, <1>2, <1>3

LEMMA TokenInv ==
  ASSUME IInv, NEW c \in Calls, Token(c)
  PROVE  IInv'
<1> USE RouterAssumption DEF IInv, Token, MoreTokens, Sending, shared, repl
<1>1. TypeOK'
  <2>1. \A d \in Calls : text'[d] <= 2 * MaxTokens + 1
    <3>1. text[c] + 1 <= 2 * MaxTokens
      BY DEF TypeOK, OrderOf
    <3> QED
      BY <3>1 DEF TypeOK
  <2> QED
    BY <2>1 DEF TypeOK
<1>2. OrderOf(c)'
  BY DEF TypeOK, OrderOf, FailoverPCs
<1> HIDE DEF IInv
<1>3. \A d \in Calls : d # c =>
        got'[d] = got[d] /\ text'[d] = text[d] /\ part'[d] = part[d]
  BY DEF IInv, TypeOK
<1> QED
  BY <1>1, <1>2, <1>3, RequestInv

\* What the end of a leg does to the call.
LEMMA LegEndsType ==
  ASSUME TypeOK, NEW c \in Calls, NEW n \in Nat, LegEnds(c, n)
  PROVE  /\ pc' \in [Calls -> PCs] /\ reply' \in [Calls -> Nat]
         /\ \A d \in Calls : d # c => pc'[d] = pc[d] /\ reply'[d] = reply[d]
         /\ \/ n = 0 /\ leg[c] = 1 /\ pc'[c] = "mark" /\ reply'[c] = reply[c]
            \/ ~(n = 0 /\ leg[c] = 1) /\ pc'[c] = "done" /\ reply'[c] = n
BY DEF TypeOK, LegEnds, PCs

LEMMA RefusedInv ==
  ASSUME IInv, NEW c \in Calls, Refused(c)
  PROVE  IInv'
<1> USE RouterAssumption DEF IInv, Refused, MoreTokens, Sending, shared, repl
<1>0. TypeOK /\ text[c] + 1 \in Nat /\ text[c] + 1 # 0
  BY DEF TypeOK
<1>1. /\ pc' \in [Calls -> PCs] /\ reply' \in [Calls -> Nat]
      /\ \A d \in Calls : d # c => pc'[d] = pc[d] /\ reply'[d] = reply[d]
      /\ pc'[c] = "done" /\ reply'[c] = text[c] + 1
  BY <1>0, LegEndsType
<1>2. text[c] + 1 <= 2 * MaxTokens + 1
  BY DEF TypeOK, OrderOf
<1>3. text' \in [Calls -> Nat] /\ \A d \in Calls : text'[d] <= 2 * MaxTokens + 1
  BY <1>0, <1>2 DEF TypeOK
<1>4. aborted' \in [Calls -> BOOLEAN]
  BY DEF TypeOK
<1>5. TypeOK'
  BY <1>1, <1>3, <1>4 DEF TypeOK
<1>6. OrderOf(c)'
  BY <1>1 DEF TypeOK, OrderOf, FailoverPCs
<1>7. \A d \in Calls : d # c => text'[d] = text[d] /\ aborted'[d] = aborted[d]
  BY DEF TypeOK
<1> HIDE DEF IInv
<1> QED
  BY <1>1, <1>5, <1>6, <1>7, RequestInv

\* A leg that ends without a token being refused.
LEMMA LegEndsInv ==
  ASSUME IInv, NEW c \in Calls, NEW n \in Nat, Sending(c), LegEnds(c, n),
         UNCHANGED <<shared, repl, streamed, host, leg, try, got, text, part, aborted, next>>
  PROVE  IInv'
<1> USE RouterAssumption DEF IInv, Sending, shared, repl
<1>1. /\ pc' \in [Calls -> PCs] /\ reply' \in [Calls -> Nat]
      /\ \A d \in Calls : d # c => pc'[d] = pc[d] /\ reply'[d] = reply[d]
      /\ \/ leg[c] = 1 /\ pc'[c] = "mark" /\ reply'[c] = reply[c]
         \/ pc'[c] = "done" /\ reply'[c] = n
  BY LegEndsType
<1>2. TypeOK'
  BY <1>1 DEF TypeOK
<1>3. OrderOf(c)'
  BY <1>1 DEF TypeOK, OrderOf, FailoverPCs
<1> HIDE DEF IInv
<1> QED
  BY <1>1, <1>2, <1>3, RequestInv

LEMMA AnsweredInv ==
  ASSUME IInv, NEW c \in Calls, Answered(c) \/ Rejected(c)
  PROVE  IInv'
<1>1. PICK n \in Nat : LegEnds(c, n)
  BY DEF Answered, Rejected, IInv, TypeOK
<1> QED
  BY <1>1, LegEndsInv DEF Answered, Rejected

LEMMA DroppedInv ==
  ASSUME IInv, NEW c \in Calls, Dropped(c)
  PROVE  IInv'
<1>1. CASE streamed[c] /\ try[c] = 1
  <2> USE <1>1, RouterAssumption DEF IInv, Dropped, Sending, shared, repl
  <2>1. TypeOK'
    BY DEF TypeOK
  <2>2. OrderOf(c)'
    BY DEF TypeOK, OrderOf, FailoverPCs
  <2>3. \A d \in Calls : d # c => try'[d] = try[d] /\ got'[d] = got[d]
    BY DEF TypeOK
  <2> HIDE DEF IInv
  <2> QED
    BY <2>1, <2>2, <2>3, RequestInv
<1>2. CASE ~(streamed[c] /\ try[c] = 1)
  BY <1>2, LegEndsInv DEF Dropped
<1> QED
  BY <1>1, <1>2

\* A step of call c within failover() leaves every other call alone.
LEMMA FailoverInv ==
  ASSUME IInv, NEW c \in Calls,
         UNCHANGED <<has, probed, repl, streamed, aborted>>,
         TypeOK', OrderOf(c)', healthy' \subseteq probed',
         InFlight(c), pc'[c] # "none",
         ~overlapped =>
           /\ pc'[c] \in {"sending", "mark"} => host'[c] = active'
           /\ pc'[c] = "pick" => active' \notin healthy'
           /\ pc'[c] = "set" => next'[c] \in healthy'
           /\ pc'[c] \in {"pick", "set"} /\ healthy' = probed' => has' = {},
         ~overlapped /\ pc'[c] \notin {"pick", "set"} =>
           /\ active' \in healthy' \/ healthy' = {}
           /\ healthy' = probed' /\ has' # {} => active' \in has',
         \A d \in Calls : d # c =>
           /\ pc'[d] = pc[d] /\ leg'[d] = leg[d] /\ try'[d] = try[d] /\ got'[d] = got[d]
           /\ text'[d] = text[d] /\ part'[d] = part[d] /\ reply'[d] = reply[d]
  PROVE  IInv'
<1> USE DEF IInv, repl
<1>1. \A d \in Calls : OrderOf(d)'
  <2> SUFFICES ASSUME NEW d \in Calls, d # c
               PROVE  OrderOf(d)'
    OBVIOUS
  <2> QED
    BY DEF OrderOf, Sending
<1>2. Solo'
  <2> SUFFICES ASSUME ~overlapped
               PROVE  Solo'
    BY DEF Solo
  <2>1. \A d \in Calls : d # c => ~InFlight(d) /\ ~InFlight(d)'
    BY DEF Solo, InFlight
  <2> QED
    BY <2>1 DEF Solo, InFlight
<1>3. ActiveHost'
  BY DEF ActiveHost
<1> QED
  BY <1>1, <1>2, <1>3

LEMMA MarkInv ==
  ASSUME IInv, NEW c \in Calls, Mark(c)
  PROVE  IInv'
<1> USE DEF IInv, Mark, repl, local
<1>0. pc'[c] = "pick" /\ \A d \in Calls : d # c => pc'[d] = pc[d]
  BY DEF TypeOK
<1>1. TypeOK'
  BY DEF TypeOK, PCs
<1>2. OrderOf(c)'
  BY <1>0 DEF OrderOf, FailoverPCs, Sending
<1>3. ~overlapped => (healthy' = probed' => has' = {})
  <2> SUFFICES ASSUME ~overlapped, healthy' = probed'
               PROVE  has = {}
    OBVIOUS
  <2>1. \A d \in Calls : pc[d] \notin {"pick", "set"}
    BY DEF Solo, InFlight
  <2>2. active \notin healthy
    OBVIOUS
  <2> QED
    BY <2>1, <2>2 DEF ActiveHost
<1>4. InFlight(c)
  BY DEF InFlight
<1> HIDE DEF IInv
<1> QED
  BY <1>0, <1>1, <1>2, <1>3, <1>4, FailoverInv DEF IInv

LEMMA PickInv ==
  ASSUME IInv, NEW c \in Calls, Pick(c)
  PROVE  IInv'
<1> USE DEF IInv, Pick, Unpicked, shared, repl
<1>4. InFlight(c)
  BY DEF InFlight
<1>1. CASE Offsets # {}
  <2>1. PICK i \in Offsets : /\ next' = [next EXCEPT ![c] = After(active, i)]
                             /\ pc' = [pc EXCEPT ![c] = "set"]
    BY <1>1
  <2>2. After(active, i) \in healthy /\ After(active, i) \in Hosts
    BY <2>1 DEF Offsets, TypeOK
  <2>3. TypeOK'
    BY <2>1, <2>2 DEF TypeOK, PCs
  <2>4. /\ pc'[c] = "set" /\ next'[c] \in healthy
        /\ \A d \in Calls : d # c => pc'[d] = pc[d]
    BY <2>1, <2>2 DEF TypeOK
  <2>5. OrderOf(c)'
    BY <2>4 DEF OrderOf, FailoverPCs, Sending
  <2>6. ~overlapped /\ healthy = probed => has = {}
    BY DEF Solo
  <2> HIDE DEF IInv
  <2> QED
    BY <1>4, <2>3, <2>4, <2>5, <2>6, FailoverInv DEF IInv
<1>2. CASE Offsets = {}
  <2>1. pc' = [pc EXCEPT ![c] = "done"] /\ UNCHANGED next
    BY <1>2
  <2>2. TypeOK'
    BY <2>1 DEF TypeOK, PCs
  <2>3. pc'[c] = "done" /\ \A d \in Calls : d # c => pc'[d] = pc[d]
    BY <2>1 DEF TypeOK
  <2>4. OrderOf(c)'
    BY <2>3 DEF OrderOf, FailoverPCs, Sending
  <2>5. ~overlapped => healthy = {} /\ (healthy = probed => has = {})
    BY <1>2, NothingFound DEF Solo
  <2> HIDE DEF IInv
  <2> QED
    BY <1>4, <2>2, <2>3, <2>4, <2>5, FailoverInv DEF IInv
<1> QED
  BY <1>1, <1>2

LEMMA SetActiveInv ==
  ASSUME IInv, NEW c \in Calls, SetActive(c)
  PROVE  IInv'
<1> USE DEF IInv, SetActive, repl, local
<1>0. pc'[c] = "read" /\ \A d \in Calls : d # c => pc'[d] = pc[d]
  BY DEF TypeOK
<1>1. TypeOK'
  BY DEF TypeOK, PCs
<1>2. OrderOf(c)'
  BY <1>0 DEF OrderOf, FailoverPCs, Sending
<1>3. ~overlapped => active' \in healthy /\ (healthy = probed => has = {})
  BY DEF Solo
<1>4. InFlight(c)
  BY DEF InFlight
<1> HIDE DEF IInv
<1> QED
  BY <1>0, <1>1, <1>2, <1>3, <1>4, FailoverInv DEF IInv

LEMMA SecondLegInv ==
  ASSUME IInv, NEW c \in Calls, SecondLeg(c)
  PROVE  IInv'
<1> USE RouterAssumption DEF IInv, SecondLeg, shared, repl
<1>0. pc'[c] = "sending" /\ host'[c] = active
  BY DEF TypeOK
<1>1. TypeOK'
  BY DEF TypeOK, PCs
<1>2. OrderOf(c)'
  BY <1>0 DEF TypeOK, OrderOf, FailoverPCs, Sending
<1>3. \A d \in Calls : d # c =>
        /\ pc'[d] = pc[d] /\ leg'[d] = leg[d] /\ try'[d] = try[d] /\ got'[d] = got[d]
        /\ text'[d] = text[d] /\ part'[d] = part[d] /\ reply'[d] = reply[d]
  BY DEF TypeOK
<1>4. InFlight(c)
  BY DEF InFlight
<1>5. ~overlapped => /\ active \in healthy \/ healthy = {}
                     /\ healthy = probed /\ has # {} => active \in has
  BY DEF Solo, ActiveHost, InFlight
<1>6. healthy' \subseteq probed'
  OBVIOUS
<1> HIDE DEF IInv
<1> QED
  BY <1>0, <1>1, <1>2, <1>3, <1>4, <1>5, <1>6, FailoverInv

\* Every step keeps the invariant.
LEMMA InvNext == IInv /\ [Next]_vars => IInv'
<1> SUFFICES ASSUME IInv, [Next]_vars
             PROVE  IInv'
  OBVIOUS
<1>1. ASSUME NEW c \in Calls, CallStep(c)
      PROVE  IInv'
  BY <1>1, TokenInv, RefusedInv, AnsweredInv, DroppedInv, MarkInv, PickInv, SetActiveInv,
     SecondLegInv
     DEF CallStep
<1>2. CASE Interrupt \/ Abandon
  <2> USE <1>2 DEF Interrupt, Abandon, shared, local, IInv
  <2>1. TypeOK'
    BY DEF TypeOK
  <2>2. (\A c \in Calls : OrderOf(c))'
    BY DEF OrderOf, Sending
  <2>3. Solo' /\ ActiveHost'
    BY DEF Solo, ActiveHost, InFlight
  <2> QED
    BY <2>1, <2>2, <2>3
<1>3. CASE UNCHANGED vars
  <2> USE <1>3 DEF vars, shared, repl, local, IInv
  <2>1. TypeOK'
    BY DEF TypeOK
  <2>2. (\A c \in Calls : OrderOf(c))'
    BY DEF OrderOf, Sending
  <2>3. Solo' /\ ActiveHost'
    BY DEF Solo, ActiveHost, InFlight
  <2> QED
    BY <2>1, <2>2, <2>3
<1> QED
  BY <1>1, <1>2, <1>3, StartInv DEF Next

LEMMA Invariance == Spec => []IInv
BY InvInit, InvNext, PTL DEF Spec

-----------------------------------------------------------------------------
(* The theorems. *)

\* The state is well formed, and a text has at most what two tries may give.
THEOREM TypeCorrect == Spec => []TypeOK
<1>1. IInv => TypeOK
  BY DEF IInv
<1> QED
  BY <1>1, Invariance, PTL

\* As long as calls do not overlap, requests go to a healthy host while there is one.
THEOREM ActiveHostAlways == Spec => []ActiveHost
<1>1. IInv => ActiveHost
  BY DEF IInv
<1> QED
  BY <1>1, Invariance, PTL

\* As long as calls do not overlap, only a host that gave nothing is blamed.
THEOREM SoloBlameAlways == Spec => SoloBlame
<1>1. ASSUME IInv, [Next]_vars
      PROVE  [\A c \in Calls : ~overlapped => Blames(c)]_vars
  <2> SUFFICES ASSUME Next, NEW c \in Calls, ~overlapped, pc[c] = "mark", pc'[c] = "pick"
               PROVE  healthy \ healthy' \subseteq {host[c]}
    BY <1>1 DEF Blames
  <2>1. ASSUME NEW d \in Calls, d # c, Start(d) \/ CallStep(d)
        PROVE  FALSE
    <3>1. pc'[c] = pc[c]
      BY <1>1, <2>1
         DEF Start, CallStep, Token, Refused, Answered, Rejected, Dropped, LegEnds, Mark, Pick,
             SetActive, SecondLeg, IInv, TypeOK
    <3> QED
      BY <3>1
  <2>2. CASE Mark(c)
    BY <1>1, <2>2 DEF Mark, IInv, Solo
  <2>3. CASE ~Mark(c) /\ (Start(c) \/ CallStep(c))
    <3>1. pc'[c] # "pick"
      BY <1>1, <2>3
         DEF Start, CallStep, Token, MoreTokens, Sending, Refused, Answered, Rejected, Dropped,
             Pick, SetActive, SecondLeg, IInv, TypeOK
    <3> QED
      BY <3>1
  <2>4. CASE Interrupt \/ Abandon
    BY <2>4 DEF Interrupt, Abandon
  <2> QED
    BY <2>1, <2>2, <2>3, <2>4 DEF Next
<1> QED
  BY <1>1, Invariance, PTL DEF Spec, SoloBlame

-----------------------------------------------------------------------------
(* The refinement of StreamCall. *)

\* A call has not begun when the session starts.
LEMMA ContractInit == Init => \A c \in Calls : Contract(c)!Init
BY DEF Init, Contract!Init

\* A step that changes nothing the contract sees of call c is a stutter of it.
LEMMA ContractStutters ==
  ASSUME NEW c \in Calls,
         pc[c] \notin {"none", "done"}, pc'[c] \notin {"none", "done"},
         streamed'[c] = streamed[c], leg'[c] = leg[c], part'[c] = part[c],
         aborted'[c] = aborted[c], reply'[c] = reply[c]
  PROVE  UNCHANGED Contract(c)!vars
BY DEF Contract!vars

\* What ends a leg without a refusal returns to the caller or is a stutter.
LEMMA ContractLegEnds ==
  ASSUME IInv, NEW c \in Calls, NEW n \in Nat, Sending(c), LegEnds(c, n),
         n = 0 \/ n = (IF streamed[c] THEN part[c] ELSE 1),
         streamed' = streamed, leg' = leg, part' = part, aborted' = aborted
  PROVE  Contract(c)!Return \/ UNCHANGED Contract(c)!vars
<1>1. \/ pc'[c] = "mark" /\ reply'[c] = reply[c]
      \/ pc'[c] = "done" /\ reply'[c] = n
  BY LegEndsType DEF IInv
<1>2. CASE pc'[c] = "mark" /\ reply'[c] = reply[c]
  BY <1>2, ContractStutters DEF Sending
<1>3. CASE pc'[c] = "done" /\ reply'[c] = n
  BY <1>3 DEF Contract!Return, Sending
<1> QED
  BY <1>1, <1>2, <1>3

\* A step of call c is a step of its contract or none.
LEMMA ContractOwnStep ==
  ASSUME IInv, NEW c \in Calls, Start(c) \/ CallStep(c)
  PROVE  Contract(c)!Next \/ UNCHANGED Contract(c)!vars
<1>0. TypeOK /\ OrderOf(c)
  BY DEF IInv
<1> USE DEF Contract!Next
<1>1. CASE Start(c)
  <2>1. pc[c] = "none" /\ pc'[c] = "sending"
    BY <1>0, <1>1 DEF Start, TypeOK, OrderOf, Calls
  <2>2. Contract(c)!Begin
    BY <1>1, <2>1 DEF Start, Contract!Begin
  <2> QED
    BY <2>2
<1>2. CASE Token(c)
  <2>1. Contract(c)!Accept
    BY <1>0, <1>2 DEF Token, MoreTokens, Sending, TypeOK, Contract!Accept
  <2> QED
    BY <2>1
<1>3. CASE Refused(c)
  <2>1. text[c] = part[c] /\ text[c] + 1 \in Nat /\ text[c] + 1 # 0
    BY <1>0, <1>3 DEF Refused, MoreTokens, TypeOK, OrderOf
  <2>2. pc[c] = "sending" /\ pc'[c] = "done" /\ reply'[c] = part[c] + 1
    BY <1>0, <1>3, <2>1, LegEndsType DEF Refused, MoreTokens, Sending
  <2>3. aborted'[c] = TRUE /\ streamed[c] /\ UNCHANGED <<streamed, leg, part>>
    BY <1>0, <1>3 DEF Refused, MoreTokens, TypeOK
  <2>4. Contract(c)!Decline
    BY <2>2, <2>3 DEF Contract!Decline
  <2> QED
    BY <2>4
<1>4. CASE Answered(c)
  <2>1. text[c] = part[c] /\ text[c] \in Nat
    BY <1>0, <1>4 DEF Answered, OrderOf, TypeOK
  <2> QED
    BY <1>4, <2>1, ContractLegEnds DEF Answered
<1>5. CASE Rejected(c)
  BY <1>5, ContractLegEnds DEF Rejected
<1>6. CASE Dropped(c)
  <2>1. CASE streamed[c] /\ try[c] = 1
    BY <1>6, <2>1, ContractStutters DEF Dropped, Sending
  <2>2. CASE ~(streamed[c] /\ try[c] = 1)
    BY <1>6, <2>2, ContractLegEnds DEF Dropped
  <2> QED
    BY <2>1, <2>2
<1>7. CASE Mark(c) \/ SetActive(c)
  <2>1. pc[c] \in {"mark", "set"} /\ pc'[c] \in {"pick", "read"}
    BY <1>0, <1>7 DEF Mark, SetActive, TypeOK
  <2> QED
    BY <1>7, <2>1, ContractStutters DEF Mark, SetActive, local
<1>8. CASE Pick(c)
  <2>1. pc[c] = "pick" /\ pc'[c] \in {"set", "done"} /\ reply'[c] = 0 /\ reply[c] = 0
    BY <1>0, <1>8 DEF Pick, Unpicked, TypeOK, OrderOf
  <2>2. UNCHANGED <<streamed, leg, part, aborted>>
    BY <1>8 DEF Pick, Unpicked
  <2>3. CASE pc'[c] = "set"
    BY <2>1, <2>2, <2>3, ContractStutters
  <2>4. CASE pc'[c] = "done"
    <3>1. Contract(c)!Return
      BY <2>1, <2>2, <2>4 DEF Contract!Return
    <3> QED
      BY <3>1
  <2> QED
    BY <2>1, <2>3, <2>4
<1>9. CASE SecondLeg(c)
  <2>1. pc[c] = "read" /\ pc'[c] = "sending" /\ leg[c] = 1 /\ leg'[c] = 2 /\ part'[c] = 0
    BY <1>0, <1>9 DEF SecondLeg, TypeOK, OrderOf, FailoverPCs
  <2>2. Contract(c)!StartOver
    BY <1>9, <2>1 DEF SecondLeg, Contract!StartOver
  <2> QED
    BY <2>2
<1> QED
  BY <1>1, <1>2, <1>3, <1>4, <1>5, <1>6, <1>7, <1>8, <1>9 DEF CallStep

\* A step of another call, or of the REPL, is none of the contract of call c.
LEMMA ContractOtherStep ==
  ASSUME IInv, NEW c \in Calls,
         \/ \E d \in Calls \ {c} : Start(d) \/ CallStep(d)
         \/ Interrupt \/ Abandon \/ UNCHANGED vars
  PROVE  UNCHANGED Contract(c)!vars
<1>1. ASSUME NEW d \in Calls, d # c, Start(d) \/ CallStep(d)
      PROVE  /\ pc'[c] = pc[c] /\ streamed'[c] = streamed[c] /\ leg'[c] = leg[c]
             /\ part'[c] = part[c] /\ aborted'[c] = aborted[c] /\ reply'[c] = reply[c]
  BY <1>1
     DEF Start, CallStep, Token, Refused, Answered, Rejected, Dropped, LegEnds, Mark, Pick,
         Unpicked, SetActive, SecondLeg, local, IInv, TypeOK
<1>2. CASE Interrupt \/ Abandon \/ UNCHANGED vars
  BY <1>2 DEF Interrupt, Abandon, vars, local, Contract!vars
<1> QED
  BY <1>1, <1>2 DEF Contract!vars

\* Every call keeps the contract of LLMProvider, whatever its hosts and the other
\* calls do.
THEOREM Refinement == Spec => ImplementsStreamCall
<1>1. IInv /\ [Next]_vars =>
        [\A c \in Calls : [Contract(c)!Next]_(Contract(c)!vars)]_vars
  <2> SUFFICES ASSUME IInv, [Next]_vars, NEW c \in Calls
               PROVE  Contract(c)!Next \/ UNCHANGED Contract(c)!vars
    OBVIOUS
  <2> QED
    BY ContractOwnStep, ContractOtherStep DEF Next
<1>2. Init => \A c \in Calls : Contract(c)!Init
  BY ContractInit
<1> QED
  BY <1>1, <1>2, Invariance, PTL DEF Spec, ImplementsStreamCall
=============================================================================
