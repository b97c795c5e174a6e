---------------------------- MODULE Kept_proofs ----------------------------
(***************************************************************************)
(* Proofs that what a user has left to the program stays: a session that   *)
(* was saved comes back, whole or cut off, for any contents, messages and  *)
(* saves; and a colour set with /color stays, for any names, agents, ways  *)
(* to start a session and any number of commands and sessions.             *)
(***************************************************************************)
EXTENDS Session, Preferences, WellFoundedInduction, TLAPS

-----------------------------------------------------------------------------
(* Numbers.                                                                *)

\* Induction on the numbers, for a set of them.
LEMMA AllNumbers ==
  ASSUME NEW T, T \subseteq Nat, 0 \in T, \A k \in T : k + 1 \in T
  PROVE  T = Nat
<1> SUFFICES ASSUME Nat \ T # {}
             PROVE  FALSE
  OBVIOUS
<1>1. Nat \ T \subseteq Nat
  OBVIOUS
<1>2. PICK m \in Nat \ T : \A k \in Nat \ T : <<k, m>> \notin OpToRel(<, Nat)
  BY <1>1, WFMin, NatLessThanWellFounded
<1>3. \A k \in Nat \ T : ~(k < m)
  BY <1>2 DEF OpToRel
<1>4. m \in Nat /\ m # 0
  OBVIOUS
<1>5. m - 1 \in Nat /\ m - 1 < m /\ (m - 1) + 1 = m
  BY <1>4
<1>6. m - 1 \in T
  BY <1>3, <1>5
<1> QED
  BY <1>5, <1>6

\* The same up to n, and from n down.
LEMMA Upwards ==
  ASSUME NEW n \in Nat, NEW T, 0 \in T, \A k \in 0 .. n - 1 : k \in T => k + 1 \in T
  PROVE  \A k \in 0 .. n : k \in T
<1> DEFINE U == {k \in Nat : k <= n => k \in T}
<1>1. 0 \in U
  OBVIOUS
<1>2. ASSUME NEW k \in U
      PROVE  k + 1 \in U
  <2> SUFFICES ASSUME k + 1 <= n
               PROVE  k + 1 \in T
    OBVIOUS
  <2>1. k \in 0 .. n - 1 /\ k \in T
    OBVIOUS
  <2> QED
    BY <2>1
<1>3. U = Nat
  <2>1. U \subseteq Nat
    OBVIOUS
  <2> HIDE DEF U
  <2> QED
    BY <1>1, <1>2, <2>1, AllNumbers
<1> QED
  BY <1>3

\* From n down to 0.
LEMMA Downwards ==
  ASSUME NEW n \in Nat, NEW T, n \in T, \A k \in 1 .. n : k \in T => k - 1 \in T
  PROVE  \A k \in 0 .. n : k \in T
<1> DEFINE U == {k \in Nat : k <= n => n - k \in T}
<1>1. 0 \in U
  OBVIOUS
<1>2. ASSUME NEW k \in U
      PROVE  k + 1 \in U
  <2> SUFFICES ASSUME k + 1 <= n
               PROVE  n - (k + 1) \in T
    OBVIOUS
  <2>1. n - k \in 1 .. n /\ n - k \in T /\ (n - k) - 1 = n - (k + 1)
    OBVIOUS
  <2> QED
    BY <2>1
<1>3. U = Nat
  <2>1. U \subseteq Nat
    OBVIOUS
  <2> HIDE DEF U
  <2> QED
    BY <1>1, <1>2, <2>1, AllNumbers
<1>4. ASSUME NEW k \in 0 .. n
      PROVE  k \in T
  <2>1. n - k \in Nat /\ n - k <= n /\ n - (n - k) = k
    OBVIOUS
  <2> QED
    BY <2>1, <1>3
<1> QED
  BY <1>4

\* The least and the largest of some numbers.
LEMMA LeastOf ==
  ASSUME NEW S, S \subseteq Nat, S # {}
  PROVE  Min(S) \in S /\ \A y \in S : Min(S) <= y
<1>1. PICK m \in S : \A k \in S : <<k, m>> \notin OpToRel(<, Nat)
  BY WFMin, NatLessThanWellFounded
<1>2. \A k \in S : ~(k < m)
  BY <1>1 DEF OpToRel
<1>3. \A k \in S : m <= k
  BY <1>2
<1> QED
  BY <1>3 DEF Min

\* A number is the least, or the largest, if it is one and no other is beyond it.
LEMMA LeastIs ==
  ASSUME NEW S, S \subseteq Nat, NEW m \in S, \A y \in S : m <= y
  PROVE  Min(S) = m
<1>1. Min(S) \in S /\ \A y \in S : Min(S) <= y
  BY LeastOf
<1>2. Min(S) <= m /\ m <= Min(S) /\ m \in Nat /\ Min(S) \in Nat
  BY <1>1
<1> QED
  BY <1>2

\* A set of numbers up to n has a largest one.
LEMMA LargestOf ==
  ASSUME NEW n \in Nat, NEW S, S \subseteq 0 .. n, S # {}
  PROVE  Max(S) \in S /\ \A y \in S : y <= Max(S)
<1> DEFINE D == {k \in 0 .. n : n - k \in S}
<1>1. D \subseteq Nat /\ D # {}
  <2>1. PICK y \in S : y \in 0 .. n
    OBVIOUS
  <2>2. n - y \in 0 .. n /\ n - (n - y) \in S
    BY <2>1
  <2>3. n - y \in D
    BY <2>2
  <2>4. D \subseteq Nat
    OBVIOUS
  <2> QED
    BY <2>3, <2>4
<1>2. Min(D) \in D /\ \A y \in D : Min(D) <= y
  BY <1>1, LeastOf
<1> DEFINE m == n - Min(D)
<1>3. m \in S /\ m \in Nat
  BY <1>2
<1>4. ASSUME NEW y \in S
      PROVE  m >= y
  <2>1. y \in 0 .. n /\ n - y \in 0 .. n /\ n - (n - y) = y
    OBVIOUS
  <2>2. n - y \in D
    BY <2>1
  <2> QED
    BY <2>1, <2>2, <1>2
<1> HIDE DEF m
<1>5. Max(S) \in S /\ \A y \in S : Max(S) >= y
  BY <1>3, <1>4 DEF Max
<1>6. \A y \in S : y \in Nat
  OBVIOUS
<1> QED
  BY <1>5, <1>6

\* A number is the largest if it is one and no other is beyond it.
LEMMA LargestIs ==
  ASSUME NEW S, S \subseteq Nat, NEW m \in S, \A y \in S : y <= m
  PROVE  Max(S) = m
<1>1. \A y \in S : m >= y
  OBVIOUS
<1>2. Max(S) \in S /\ \A y \in S : Max(S) >= y
  BY <1>1 DEF Max
<1>3. Max(S) >= m /\ Max(S) <= m /\ m \in Nat /\ Max(S) \in Nat
  BY <1>2
<1> QED
  BY <1>3

-----------------------------------------------------------------------------
(* Places in a text.                                                       *)

\* The characters, of which the provers have to be told that they are strings.
Char == STRING \cup {Quote, Bs, Nl, Tab, Cr, Control, "n", "t", "r", "/", "u", "0001", "[", "]",
                     "{", "}", ",", ":", " ", "ole", "content", "user", "assistant"}

Writing == Seq(Char)

\* The text w stands in t from i on.
Stands(t, w, i) ==
  /\ i \in 1 .. Len(t) - Len(w) + 1
  /\ \A j \in 1 .. Len(w) : t[i + j - 1] = w[j]

\* The text w stands where the part of t is w.
LEMMA StandsIs ==
  ASSUME NEW t \in Writing, NEW w \in Writing, w # <<>>, NEW i \in 1 .. Len(t) - Len(w) + 1
  PROVE  SubSeq(t, i, i + Len(w) - 1) = w <=> Stands(t, w, i)
<1> DEFINE u == SubSeq(t, i, i + Len(w) - 1)
<1>1. Len(w) \in Nat \ {0} /\ Len(t) \in Nat
  BY DEF Writing
<1>2. u \in Seq(Char) /\ Len(u) = Len(w) /\ \A j \in 1 .. Len(w) : u[j] = t[i + j - 1]
  BY <1>1 DEF Writing
<1>3. u = w <=> \A j \in 1 .. Len(w) : u[j] = w[j]
  BY <1>1, <1>2 DEF Writing
<1> HIDE DEF u
<1>4. u = w <=> Stands(t, w, i)
  BY <1>2, <1>3 DEF Stands
<1> QED
  BY <1>4 DEF u

\* find gives the first place, or 0 if there is none.
LEMMA FindIs ==
  ASSUME NEW t \in Writing, NEW w \in Writing, w # <<>>, NEW pos \in Nat \ {0}
  PROVE  \/ /\ find(t, w, pos) = 0
            /\ \A i \in Nat : i >= pos => ~Stands(t, w, i)
         \/ /\ find(t, w, pos) \in Nat /\ find(t, w, pos) >= pos
            /\ Stands(t, w, find(t, w, pos))
            /\ \A i \in Nat : i >= pos /\ Stands(t, w, i) => find(t, w, pos) <= i
<1> DEFINE S == {i \in pos .. Len(t) - Len(w) + 1 : SubSeq(t, i, i + Len(w) - 1) = w}
<1>1. Len(w) \in Nat \ {0} /\ Len(t) \in Nat
  BY DEF Writing
<1>2. \A i \in S : i \in Nat /\ i >= pos /\ Stands(t, w, i)
  BY <1>1, StandsIs
<1>3. \A i \in Nat : i >= pos /\ Stands(t, w, i) => i \in S
  <2> SUFFICES ASSUME NEW i \in Nat, i >= pos, Stands(t, w, i)
               PROVE  i \in S
    OBVIOUS
  <2>1. i \in 1 .. Len(t) - Len(w) + 1
    BY DEF Stands
  <2> QED
    BY <2>1, <1>1, StandsIs
<1>4. find(t, w, pos) = IF S = {} THEN 0 ELSE Min(S)
  BY DEF find, FirstOf
<1> HIDE DEF S
<1>5. CASE S = {}
  BY <1>3, <1>4, <1>5
<1>6. CASE S # {}
  <2>1. S \subseteq Nat
    BY <1>2
  <2>2. Min(S) \in S /\ \A y \in S : Min(S) <= y
    BY <2>1, <1>6, LeastOf
  <2> QED
    BY <2>2, <1>2, <1>3, <1>4, <1>6
<1> QED
  BY <1>5, <1>6

\* The backslashes before a place.
LEMMA CountedIs ==
  ASSUME NEW t \in Writing, NEW i \in 1 .. Len(t) + 1
  PROVE  /\ Backslashes(t, i) \in Nat
         /\ i > 1 /\ t[i - 1] = Bs => Backslashes(t, i) = 1 + Backslashes(t, i - 1)
         /\ i > 1 /\ t[i - 1] # Bs => Backslashes(t, i) = 0
<1> DEFINE S(k) == {n \in 0 .. k - 1 : \A j \in k - n .. k - 1 : t[j] = Bs}
<1>1. Len(t) \in Nat /\ i \in Nat \ {0} /\ i - 1 \in Nat
  BY DEF Writing
<1>2. S(i) \subseteq 0 .. i - 1 /\ S(i) \subseteq Nat /\ 0 \in S(i)
  BY <1>1
<1>3. Backslashes(t, i) = Max(S(i))
  BY DEF Backslashes
<1>4. Max(S(i)) \in S(i) /\ \A y \in S(i) : y <= Max(S(i))
  <2> HIDE DEF S
  <2> QED
    BY <1>1, <1>2, LargestOf
<1>5. ASSUME i > 1, t[i - 1] = Bs
      PROVE  Backslashes(t, i) = 1 + Backslashes(t, i - 1)
  <2>1. Backslashes(t, i - 1) = Max(S(i - 1))
    BY DEF Backslashes
  <2>2. S(i - 1) \subseteq 0 .. i - 2 /\ 0 \in S(i - 1) /\ i - 2 \in Nat
    BY <1>1, <1>5
  <2> DEFINE m == Max(S(i - 1))
  <2>3. m \in S(i - 1) /\ \A y \in S(i - 1) : y <= m
    <3> HIDE DEF S
    <3> QED
      BY <2>2, LargestOf
  <2> HIDE DEF m
  <2>4. m \in Nat /\ m + 1 \in S(i)
    BY <1>1, <1>5, <2>3
  <2>5. ASSUME NEW y \in S(i)
        PROVE  y <= m + 1
    <3>1. CASE y = 0
      BY <3>1, <2>4
    <3>2. CASE y # 0
      <4>1. y \in 1 .. i - 1 /\ \A j \in i - y .. i - 1 : t[j] = Bs
        BY <3>2, <1>1
      <4>2. y - 1 \in 0 .. i - 2 /\ (i - 1) - (y - 1) = i - y
        BY <4>1, <1>1
      <4>3. y - 1 \in S(i - 1)
        BY <4>1, <4>2, <1>1
      <4>4. y - 1 <= m
        BY <4>3, <2>3
      <4> QED
        BY <4>4, <4>1, <2>4
    <3> QED
      BY <3>1, <3>2
  <2>6. Max(S(i)) = m + 1
    <3> HIDE DEF S
    <3> QED
      BY <1>2, <2>4, <2>5, LargestIs
  <2> QED
    BY <2>1, <2>4, <2>6, <1>3 DEF m
<1>6. ASSUME i > 1, t[i - 1] # Bs
      PROVE  Backslashes(t, i) = 0
  <2>1. \A y \in S(i) : y = 0
    BY <1>1, <1>6
  <2> QED
    BY <2>1, <1>3, <1>4
<1> QED
  BY <1>2, <1>3, <1>4, <1>5, <1>6

-----------------------------------------------------------------------------
(* Texts put together from pieces.                                         *)

\* The text t is the pieces ps, one behind the other; before the piece k there
\* are b[k - 1] characters.
Laid(t, ps, b) ==
  /\ b \in [0 .. Len(ps) -> Nat] /\ b[0] = 0 /\ b[Len(ps)] = Len(t)
  /\ \A k \in 1 .. Len(ps) :
       /\ b[k] = b[k - 1] + Len(ps[k])
       /\ \A j \in 1 .. Len(ps[k]) : t[b[k - 1] + j] = ps[k][j]

\* The recursive function in FlattenSeq exists.
LEMMA FlattenExists ==
  ASSUME NEW n \in Nat, NEW ps
  PROVE  \E f : f = [i \in 1 .. n |-> IF i = 1 THEN ps[i] ELSE f[i - 1] \o ps[i]]
<1> DEFINE Body(k, f) == [i \in 1 .. k |-> IF i = 1 THEN ps[i] ELSE f[i - 1] \o ps[i]]
           Ok == {k \in Nat : \E f : f = Body(k, f)}
<1>1. 0 \in Ok
  <2>1. <<>> = Body(0, <<>>)
    OBVIOUS
  <2> QED
    BY <2>1
<1>2. ASSUME NEW k \in Ok
      PROVE  k + 1 \in Ok
  <2>1. PICK f : f = Body(k, f)
    OBVIOUS
  <2> DEFINE x == IF k = 0 THEN ps[1] ELSE f[k] \o ps[k + 1]
             h == [i \in 1 .. k + 1 |-> IF i = k + 1 THEN x ELSE f[i]]
  <2>2. ASSUME NEW i \in 1 .. k + 1
        PROVE  h[i] = IF i = 1 THEN ps[i] ELSE h[i - 1] \o ps[i]
    <3>1. CASE i = k + 1
      <4>1. h[i] = x
        BY <3>1
      <4>2. k # 0 => h[i - 1] = f[k]
        BY <3>1
      <4> QED
        BY <3>1, <4>1, <4>2
    <3>2. CASE i # k + 1
      <4>1. i \in 1 .. k /\ (i # 1 => i - 1 \in 1 .. k + 1 /\ i - 1 # k + 1)
        BY <3>2
      <4>2. h[i] = f[i] /\ (i # 1 => h[i - 1] = f[i - 1])
        BY <4>1
      <4>3. f[i] = IF i = 1 THEN ps[i] ELSE f[i - 1] \o ps[i]
        BY <2>1, <4>1
      <4> QED
        BY <4>2, <4>3
    <3> QED
      BY <3>1, <3>2
  <2>3. h = [i \in 1 .. k + 1 |-> h[i]]
    OBVIOUS
  <2> HIDE DEF h
  <2>4. h = Body(k + 1, h)
    BY <2>2, <2>3
  <2> QED
    <3> HIDE DEF Body
    <3> QED
      BY <2>4
<1>3. Ok = Nat
  <2>1. Ok \subseteq Nat
    OBVIOUS
  <2> HIDE DEF Ok
  <2> QED
    BY <1>1, <1>2, <2>1, AllNumbers
<1> QED
  BY <1>3

\* What stands where when two texts are put together.
LEMMA ConcatIs ==
  ASSUME NEW S, NEW x \in Seq(S), NEW y \in Seq(S)
  PROVE  /\ x \o y \in Seq(S) /\ Len(x) \in Nat /\ Len(y) \in Nat
         /\ Len(x \o y) = Len(x) + Len(y)
         /\ \A j \in 1 .. Len(x) : (x \o y)[j] = x[j]
         /\ \A j \in 1 .. Len(y) : (x \o y)[Len(x) + j] = y[j]
OBVIOUS

\* A text with one character more before it.
LEMMA PutIs ==
  ASSUME NEW S, NEW c \in S, NEW s \in Seq(S)
  PROVE  /\ <<c>> \o s \in Seq(S) /\ Len(s) \in Nat /\ Len(<<c>> \o s) = Len(s) + 1
         /\ (<<c>> \o s)[1] = c
         /\ \A j \in 1 .. Len(s) : (<<c>> \o s)[1 + j] = s[j]
OBVIOUS

\* What is written in one of n steps stays: L[k] characters are there after k.
Stays(G, L, n) ==
  /\ L \in [0 .. n -> Nat]
  /\ \A k \in 1 .. n : L[k - 1] <= L[k] /\ \A j \in 1 .. L[k - 1] : G[k][j] = G[k - 1][j]

\* It is there to the last step.
LEMMA StaysOn ==
  ASSUME NEW n \in Nat, NEW G, NEW L, Stays(G, L, n), NEW k \in 0 .. n
  PROVE  L[k] <= L[n] /\ \A j \in 1 .. L[k] : G[n][j] = G[k][j]
<1> DEFINE U == {d \in Nat : k + d <= n => /\ L[k] <= L[k + d]
                                         /\ \A j \in 1 .. L[k] : G[k + d][j] = G[k][j]}
<1>1. n - k \in Nat /\ k + (n - k) = n /\ k + 0 = k /\ n - k \in 0 .. n - k
  OBVIOUS
<1>2. \A i \in 0 .. n : L[i] \in Nat
  BY DEF Stays
<1>3. 0 \in U
  BY <1>1, <1>2
<1>4. ASSUME NEW d \in 0 .. (n - k) - 1, d \in U
      PROVE  d + 1 \in U
  <2> DEFINE m == k + d
  <2>1. m \in 0 .. n /\ m + 1 \in 1 .. n /\ (m + 1) - 1 = m /\ k + (d + 1) = m + 1
        /\ m <= n /\ d + 1 \in Nat /\ m + 1 \in 0 .. n
    BY <1>4
  <2>2. L[k] <= L[m] /\ \A j \in 1 .. L[k] : G[m][j] = G[k][j]
    BY <1>4, <2>1
  <2> HIDE DEF m
  <2>3. L[(m + 1) - 1] <= L[m + 1] /\ \A j \in 1 .. L[(m + 1) - 1] : G[m + 1][j] = G[(m + 1) - 1][j]
    BY <2>1 DEF Stays
  <2>4. L[m] <= L[m + 1] /\ \A j \in 1 .. L[m] : G[m + 1][j] = G[m][j]
    BY <2>1, <2>3
  <2>5. L[m] \in Nat /\ L[m + 1] \in Nat /\ L[k] \in Nat
    BY <2>1, <1>2
  <2>6. L[k] <= L[m + 1] /\ \A j \in 1 .. L[k] : G[m + 1][j] = G[k][j]
    BY <2>2, <2>4, <2>5
  <2> QED
    BY <2>1, <2>6
<1>5. \A d \in 0 .. n - k : d \in U
  <2> HIDE DEF U
  <2> QED
    BY <1>1, <1>3, <1>4, Upwards
<1>6. n - k \in U
  BY <1>1, <1>5
<1> QED
  BY <1>1, <1>6

\* Places behind a are places of what is a and b long.
LEMMA Longer ==
  ASSUME NEW a \in Nat, NEW b \in Nat, NEW c \in Nat, c = a + b
  PROVE  a <= c /\ \A j \in 1 .. b : a + j \in 1 .. c
OBVIOUS

\* Texts that grow by one piece after the other.
Grows(G, ps, S, n) ==
  /\ G[0] = <<>>
  /\ \A k \in 1 .. n : ps[k] \in Seq(S) /\ G[k] = G[k - 1] \o ps[k]

Grown(G, ps, S, n) ==
  /\ \A k \in 0 .. n : G[k] \in Seq(S)
  /\ \A k \in 1 .. n :
       /\ Len(G[k]) = Len(G[k - 1]) + Len(ps[k])
       /\ \A j \in 1 .. Len(ps[k]) : G[n][Len(G[k - 1]) + j] = ps[k][j]

\* Each piece stays where it was put.
LEMMA Joined ==
  ASSUME NEW S, NEW n \in Nat, NEW ps, NEW G, Grows(G, ps, S, n)
  PROVE  Grown(G, ps, S, n)
<1> DEFINE T == {k \in Nat : k <= n => G[k] \in Seq(S)}
           L == [k \in 0 .. n |-> Len(G[k])]
<1>1. 0 \in T
  <2>1. <<>> \in Seq(S)
    OBVIOUS
  <2> QED
    BY <2>1 DEF Grows
<1>2. ASSUME NEW k \in 0 .. n - 1, k \in T
      PROVE  k + 1 \in T
  <2>1. k + 1 \in 1 .. n /\ (k + 1) - 1 = k /\ G[k] \in Seq(S) /\ k + 1 \in Nat
    BY <1>2
  <2>2. ps[k + 1] \in Seq(S) /\ G[k + 1] = G[(k + 1) - 1] \o ps[k + 1]
    BY <2>1 DEF Grows
  <2>3. G[k + 1] \in Seq(S)
    BY <2>1, <2>2
  <2> QED
    BY <2>1, <2>3
<1>3. \A k \in 0 .. n : k \in T
  <2> HIDE DEF T
  <2> QED
    BY <1>1, <1>2, Upwards
<1>4. \A k \in 0 .. n : G[k] \in Seq(S)
  BY <1>3
<1>5. ASSUME NEW k \in 1 .. n
      PROVE  /\ Len(G[k - 1]) \in Nat /\ Len(ps[k]) \in Nat /\ Len(G[k]) \in Nat
             /\ Len(G[k]) = Len(G[k - 1]) + Len(ps[k])
             /\ \A j \in 1 .. Len(ps[k]) : G[k][Len(G[k - 1]) + j] = ps[k][j]
             /\ \A j \in 1 .. Len(G[k - 1]) : G[k][j] = G[k - 1][j]
  <2>1. k - 1 \in 0 .. n
    OBVIOUS
  <2> DEFINE x == G[k - 1]
             y == ps[k]
  <2>2. x \in Seq(S) /\ y \in Seq(S) /\ G[k] = x \o y
    BY <2>1, <1>4 DEF Grows
  <2> HIDE DEF x, y
  <2>3. /\ Len(x) \in Nat /\ Len(y) \in Nat /\ Len(x \o y) \in Nat
        /\ Len(x \o y) = Len(x) + Len(y)
        /\ \A j \in 1 .. Len(y) : (x \o y)[Len(x) + j] = y[j]
        /\ \A j \in 1 .. Len(x) : (x \o y)[j] = x[j]
    BY <2>2, ConcatIs
  <2> QED
    BY <2>2, <2>3 DEF x, y
<1>6. Stays(G, L, n)
  <2>1. \A k \in 0 .. n : Len(G[k]) \in Nat
    BY <1>4
  <2>2. L \in [0 .. n -> Nat] /\ \A k \in 0 .. n : L[k] = Len(G[k])
    BY <2>1
  <2> HIDE DEF L
  <2>3. ASSUME NEW k \in 1 .. n
        PROVE  L[k - 1] <= L[k] /\ \A j \in 1 .. L[k - 1] : G[k][j] = G[k - 1][j]
    <3>1. k \in 0 .. n /\ k - 1 \in 0 .. n
      OBVIOUS
    <3>2. L[k - 1] = Len(G[k - 1]) /\ L[k] = Len(G[k])
      BY <2>2, <3>1
    <3>a. /\ Len(G[k - 1]) \in Nat /\ Len(ps[k]) \in Nat /\ Len(G[k]) \in Nat
          /\ Len(G[k]) = Len(G[k - 1]) + Len(ps[k])
      BY <1>5, Zenon
    <3>3. Len(G[k - 1]) <= Len(G[k])
      BY <3>a, Longer, Zenon
    <3> QED
      BY <3>2, <3>3, <1>5
  <2> QED
    BY <2>2, <2>3 DEF Stays
<1>7. ASSUME NEW k \in 1 .. n, NEW j \in 1 .. Len(ps[k])
      PROVE  G[n][Len(G[k - 1]) + j] = ps[k][j]
  <2>1. k \in 0 .. n
    OBVIOUS
  <2>2. \A i \in 1 .. L[k] : G[n][i] = G[k][i]
    <3> HIDE DEF L
    <3> QED
      BY <1>6, <2>1, StaysOn
  <2>3. L[k] = Len(G[k])
    BY <2>1
  <2>a. /\ Len(G[k - 1]) \in Nat /\ Len(ps[k]) \in Nat /\ Len(G[k]) \in Nat
        /\ Len(G[k]) = Len(G[k - 1]) + Len(ps[k])
    BY <1>5, Zenon
  <2>4. Len(G[k - 1]) + j \in 1 .. Len(G[k])
    BY <2>a, Longer, Zenon
  <2>5. G[k][Len(G[k - 1]) + j] = ps[k][j]
    BY <1>5
  <2> HIDE DEF L
  <2> QED
    BY <2>2, <2>3, <2>4, <2>5
<1> QED
  BY <1>4, <1>5, <1>7 DEF Grown

\* FlattenSeq puts the pieces one behind the other.
LEMMA FlattenLaid ==
  ASSUME NEW S, NEW ps \in Seq(Seq(S))
  PROVE  /\ FlattenSeq(ps) \in Seq(S)
         /\ \E b : Laid(FlattenSeq(ps), ps, b)
<1> DEFINE n == Len(ps)
           Body(f) == [i \in 1 .. n |-> IF i = 1 THEN ps[i] ELSE f[i - 1] \o ps[i]]
           F == CHOOSE f : f = Body(f)
           G == [k \in 0 .. n |-> IF k = 0 THEN <<>> ELSE F[k]]
           b == [k \in 0 .. n |-> Len(G[k])]
<1>1. n \in Nat /\ \A i \in 1 .. n : ps[i] \in Seq(S)
  OBVIOUS
<1>2. F = Body(F)
  <2>1. \E f : f = Body(f)
    BY <1>1, FlattenExists
  <2> HIDE DEF Body
  <2> QED
    BY <2>1
<1>3. FlattenSeq(ps) = G[n]
  <2>1. CASE n = 0
    <3>1. ps = <<>>
      BY <2>1
    <3> QED
      BY <2>1, <3>1 DEF FlattenSeq
  <2>2. CASE n # 0
    <3>1. FlattenSeq(ps) = F[n]
      BY <2>2 DEF FlattenSeq
    <3> HIDE DEF F
    <3> QED
      BY <3>1, <2>2, <1>1
  <2> QED
    BY <2>1, <2>2
<1> HIDE DEF F
<1>4. G[0] = <<>> /\ \A i \in 1 .. n : G[i] = F[i]
  BY <1>1
<1>5. ASSUME NEW k \in 1 .. n
      PROVE  G[k] = G[k - 1] \o ps[k]
  <2>1. F[k] = IF k = 1 THEN ps[k] ELSE F[k - 1] \o ps[k]
    BY <1>2
  <2>2. k # 1 => k - 1 \in 1 .. n
    BY <1>1
  <2>3. <<>> \o ps[k] = ps[k]
    BY <1>1
  <2> HIDE DEF G
  <2>4. CASE k = 1
    <3>1. G[k - 1] = <<>> /\ G[k] = F[k]
      BY <2>4, <1>4
    <3>2. F[k] = ps[k]
      BY <2>1, <2>4
    <3> QED
      BY <3>1, <3>2, <2>3
  <2>5. CASE k # 1
    BY <2>1, <2>2, <2>5, <1>4
  <2> QED
    BY <2>4, <2>5
<1> HIDE DEF G
<1>a. Grows(G, ps, S, n)
  BY <1>1, <1>4, <1>5 DEF Grows
<1>6. /\ \A k \in 0 .. n : G[k] \in Seq(S)
      /\ \A k \in 1 .. n :
           /\ Len(G[k]) = Len(G[k - 1]) + Len(ps[k])
           /\ \A j \in 1 .. Len(ps[k]) : G[n][Len(G[k - 1]) + j] = ps[k][j]
  <2>1. Grown(G, ps, S, n)
    BY <1>1, <1>a, Joined
  <2> QED
    BY <2>1 DEF Grown
<1>7. /\ b \in [0 .. n -> Nat] /\ b[0] = 0 /\ b[n] = Len(G[n])
      /\ \A k \in 0 .. n : b[k] = Len(G[k])
  <2>1. \A k \in 0 .. n : Len(G[k]) \in Nat
    BY <1>6
  <2>2. 0 \in 0 .. n /\ n \in 0 .. n /\ Len(G[0]) = 0
    BY <1>1, <1>4
  <2> HIDE DEF n
  <2> QED
    BY <2>1, <2>2
<1> HIDE DEF b
<1>8. Laid(G[n], ps, b)
  <2>1. \A k \in 1 .. n : k \in 0 .. n /\ k - 1 \in 0 .. n
    BY <1>1
  <2> QED
    BY <2>1, <1>6, <1>7 DEF Laid
<1>9. G[n] \in Seq(S)
  BY <1>1, <1>6
<1> QED
  BY <1>3, <1>8, <1>9

\* Where a piece begins rises with the piece, and every place is in a piece.
LEMMA LaidRises ==
  ASSUME NEW t, NEW ps, Len(ps) \in Nat, NEW b, Laid(t, ps, b), \A k \in 1 .. Len(ps) : Len(ps[k]) \in Nat
  PROVE  /\ \A k \in 0 .. Len(ps) : b[k] \in Nat
         /\ \A i, k \in 0 .. Len(ps) : i <= k => b[i] <= b[k]
         /\ \A i \in 1 .. Len(t) : \E k \in 1 .. Len(ps) : b[k - 1] < i /\ i <= b[k]
<1> DEFINE n == Len(ps)
<1>1. /\ n \in Nat /\ b[0] = 0 /\ b[n] = Len(t) /\ \A k \in 0 .. n : b[k] \in Nat
      /\ \A k \in 1 .. n : b[k] = b[k - 1] + Len(ps[k])
  BY DEF Laid
<1>2. ASSUME NEW k \in 1 .. n
      PROVE  b[k - 1] <= b[k] /\ b[k] \in Nat /\ b[k - 1] \in Nat
  <2>1. k \in 0 .. n /\ k - 1 \in 0 .. n
    BY <1>1
  <2>2. b[k] \in Nat /\ b[k - 1] \in Nat /\ Len(ps[k]) \in Nat
    BY <2>1, <1>1
  <2> QED
    BY <2>2, <1>1, Longer, Zenon
<1> HIDE DEF n
<1>3. ASSUME NEW i \in 0 .. n, NEW k \in 0 .. n, i <= k
      PROVE  b[i] <= b[k]
  <2> DEFINE T == {m \in Nat : i <= m => b[i] <= b[m]}
  <2>1. 0 \in T
    BY <1>1
  <2>2. ASSUME NEW m \in 0 .. n - 1, m \in T
        PROVE  m + 1 \in T
    <3>1. m + 1 \in 1 .. n /\ (m + 1) - 1 = m /\ m \in 0 .. n /\ m + 1 \in 0 .. n
      BY <1>1
    <3>2. b[m] <= b[m + 1] /\ b[m] \in Nat /\ b[m + 1] \in Nat /\ b[i] \in Nat
      BY <3>1, <1>1, <1>2
    <3>3. CASE i <= m
      BY <3>1, <3>2, <3>3, <2>2
    <3>4. CASE ~(i <= m)
      <4>1. i <= m + 1 => i = m + 1
        BY <3>1, <3>4
      <4> QED
        BY <4>1, <3>1, <3>2
    <3> QED
      BY <3>3, <3>4
  <2>3. \A m \in 0 .. n : m \in T
    <3> HIDE DEF T
    <3> QED
      BY <1>1, <2>1, <2>2, Upwards
  <2> QED
    BY <2>3, <1>3
<1>4. ASSUME NEW i \in 1 .. Len(t)
      PROVE  \E k \in 1 .. n : b[k - 1] < i /\ i <= b[k]
  <2> SUFFICES ASSUME \A k \in 1 .. n : ~(b[k - 1] < i /\ i <= b[k])
               PROVE  FALSE
    OBVIOUS
  <2> DEFINE T == {m \in Nat : m <= n => b[m] < i}
  <2>1. 0 \in T
    BY <1>1
  <2>2. ASSUME NEW m \in 0 .. n - 1, m \in T
        PROVE  m + 1 \in T
    <3>1. m + 1 \in 1 .. n /\ (m + 1) - 1 = m /\ m \in 0 .. n /\ m + 1 \in 0 .. n
      BY <1>1
    <3>2. b[m] < i /\ b[m + 1] \in Nat
      BY <3>1, <2>2, <1>1
    <3>3. ~(b[(m + 1) - 1] < i /\ i <= b[m + 1])
      BY <3>1
    <3> QED
      BY <3>1, <3>2, <3>3
  <2>3. \A m \in 0 .. n : m \in T
    <3> HIDE DEF T
    <3> QED
      BY <1>1, <2>1, <2>2, Upwards
  <2>4. b[n] < i
    BY <2>3, <1>1
  <2> QED
    BY <2>4, <1>1
<1> QED
  BY <1>1, <1>3, <1>4 DEF n

-----------------------------------------------------------------------------
(* A text read from its end to its beginning: f has what is made of the    *)
(* text from a place on, a piece here and the rest from the next place on. *)

Walks(f, n, next, piece) ==
  f = [p \in 1 .. n + 1 |-> IF next[p] = 0 THEN <<>> ELSE piece[p] \o f[next[p]]]

\* Such a function exists, when the next place is always further on.
LEMMA WalkExists ==
  ASSUME NEW n \in Nat, NEW next, NEW piece,
         \A p \in 1 .. n + 1 : next[p] = 0 \/ next[p] \in p + 1 .. n + 1
  PROVE  \E f : Walks(f, n, next, piece)
<1> DEFINE Body(k, f) == [p \in n + 1 - k .. n + 1 |->
                            IF next[p] = 0 THEN <<>> ELSE piece[p] \o f[next[p]]]
           Has(k) == \E f : f = Body(k, f)
           Ok == {k \in Nat : k <= n => Has(k)}
<1>1. 0 \in Ok
  <2> DEFINE h == [p \in n + 1 .. n + 1 |-> <<>>]
  <2>a. ASSUME NEW p \in n + 1 .. n + 1
        PROVE  next[p] = 0
    <3>1. p = n + 1 /\ p \in 1 .. n + 1 /\ ~ \E x \in p + 1 .. n + 1 : TRUE
      OBVIOUS
    <3>2. next[p] = 0 \/ next[p] \in p + 1 .. n + 1
      BY <3>1
    <3> QED
      BY <3>1, <3>2, Zenon
  <2>1. n + 1 - 0 = n + 1 /\ \A p \in n + 1 .. n + 1 : next[p] = 0
    BY <2>a
  <2>2. h = [p \in n + 1 .. n + 1 |-> IF next[p] = 0 THEN <<>> ELSE piece[p] \o h[next[p]]]
    BY <2>1
  <2> HIDE DEF h
  <2>3. h = Body(0, h)
    BY <2>1, <2>2
  <2> HIDE DEF Body
  <2> QED
    BY <2>3
<1>2. ASSUME NEW k \in 0 .. n - 1, k \in Ok
      PROVE  k + 1 \in Ok
  <2>a. Has(k) /\ k + 1 <= n /\ k + 1 \in Nat
    <3> HIDE DEF Has
    <3> QED
      BY <1>2
  <2>1. PICK f : f = Body(k, f)
    <3> HIDE DEF Body
    <3> QED
      BY <2>a
  <2> DEFINE q == n + 1 - (k + 1)
             x == IF next[q] = 0 THEN <<>> ELSE piece[q] \o f[next[q]]
             h == [p \in q .. n + 1 |-> IF p = q THEN x ELSE f[p]]
  <2>2. q \in 1 .. n /\ q + 1 = n + 1 - k /\ q \in q .. n + 1
    OBVIOUS
  <2>3. ASSUME NEW p \in q .. n + 1
        PROVE  h[p] = IF next[p] = 0 THEN <<>> ELSE piece[p] \o h[next[p]]
    <3> HIDE DEF q, x
    <3>1. p \in 1 .. n + 1 /\ (p # q => p \in q + 1 .. n + 1)
      BY <2>2
    <3>2. next[p] # 0 => next[p] \in q + 1 .. n + 1 /\ next[p] \in q .. n + 1 /\ next[p] # q
      BY <3>1, <2>2
    <3>3. next[p] # 0 => h[next[p]] = f[next[p]]
      BY <3>2
    <3>4. CASE p = q
      <4>1. h[p] = x
        BY <3>4
      <4> QED
        BY <3>4, <4>1, <3>3 DEF x
    <3>5. CASE p # q
      <4>1. h[p] = f[p]
        BY <3>5
      <4>2. f[p] = IF next[p] = 0 THEN <<>> ELSE piece[p] \o f[next[p]]
        BY <2>1, <3>1, <3>5, <2>2
      <4> QED
        BY <4>1, <4>2, <3>3
    <3> QED
      BY <3>4, <3>5
  <2>4. h = [p \in q .. n + 1 |-> h[p]]
    OBVIOUS
  <2> HIDE DEF h
  <2>5. h = Body(k + 1, h)
    BY <2>3, <2>4
  <2>6. Has(k + 1)
    <3> HIDE DEF Body
    <3> QED
      BY <2>5
  <2> HIDE DEF Has
  <2> QED
    BY <2>6
<1>3. n \in Ok
  <2>1. \A k \in 0 .. n : k \in Ok
    <3> HIDE DEF Ok
    <3> QED
      BY <1>1, <1>2, Upwards
  <2> HIDE DEF Ok
  <2> QED
    BY <2>1
<1>a. Has(n)
  <2> HIDE DEF Has
  <2> QED
    BY <1>3
<1>4. PICK f : f = Body(n, f)
  <2> HIDE DEF Body
  <2> QED
    BY <1>a
<1>5. f = [p \in 1 .. n + 1 |-> IF next[p] = 0 THEN <<>> ELSE piece[p] \o f[next[p]]]
  <2>1. n + 1 - n = 1
    OBVIOUS
  <2> QED
    BY <1>4, <2>1
<1> QED
  BY <1>5 DEF Walks

\* A text with one element more before it is a text.
LEMMA Put ==
  ASSUME NEW S, NEW c \in S, NEW z \in Seq(S)
  PROVE  <<c>> \o z \in Seq(S)
<1>1. <<c>> \in Seq(S)
  OBVIOUS
<1> QED
  BY <1>1

\* The element before a part of y makes the part longer.
LEMMA Shifted ==
  ASSUME NEW S, NEW y \in Seq(S), NEW z \in Seq(S), NEW K \in 0 .. Len(y), NEW k \in 1 .. K
  PROVE  <<y[k]>> \o (SubSeq(y, k + 1, K) \o z) = SubSeq(y, k, K) \o z
<1> DEFINE u == SubSeq(y, k + 1, K)
           v == SubSeq(y, k, K)
<1>1. Len(y) \in Nat /\ K \in Nat /\ k \in Nat /\ y[k] \in S
  OBVIOUS
<1>2. u \in Seq(S) /\ Len(u) = K - k /\ \A j \in 1 .. K - k : u[j] = y[k + j]
  BY <1>1
<1>3. v \in Seq(S) /\ Len(v) = K - k + 1 /\ \A j \in 1 .. K - k + 1 : v[j] = y[k + j - 1]
  BY <1>1
<1> HIDE DEF u, v
<1>4. v = <<y[k]>> \o u
  <2> DEFINE w == <<y[k]>> \o u
  <2>1. <<y[k]>> \in Seq(S) /\ Len(<<y[k]>>) = 1 /\ <<y[k]>>[1] = y[k]
    BY <1>1
  <2>2. w \in Seq(S) /\ Len(w) = K - k + 1 /\ w[1] = y[k] /\ \A j \in 1 .. K - k : w[j + 1] = u[j]
    BY <2>1, <1>1, <1>2
  <2> HIDE DEF w
  <2>3. \A j \in 1 .. K - k + 1 : w[j] = v[j]
    <3> SUFFICES ASSUME NEW j \in 1 .. K - k + 1
                 PROVE  w[j] = v[j]
      OBVIOUS
    <3>1. CASE j = 1
      BY <3>1, <2>2, <1>3, <1>1
    <3>2. CASE j # 1
      <4>1. j - 1 \in 1 .. K - k /\ (j - 1) + 1 = j /\ k + (j - 1) = k + j - 1
        BY <3>2, <1>1
      <4>2. w[(j - 1) + 1] = u[j - 1] /\ u[j - 1] = y[k + (j - 1)]
        BY <4>1, <2>2, <1>2, Zenon
      <4>3. v[j] = y[k + j - 1]
        BY <1>3, Zenon
      <4> QED
        BY <4>1, <4>2, <4>3, Zenon
    <3> QED
      BY <3>1, <3>2
  <2>4. w \in Seq(S) /\ Len(w) = K - k + 1 /\ Len(v) = Len(w) /\ v \in Seq(S)
    BY <2>2, <1>3
  <2>5. v = w
    BY <2>3, <2>4
  <2> QED
    BY <2>5 DEF w
<1>5. (<<y[k]>> \o u) \o z = <<y[k]>> \o (u \o z)
  BY <1>1, <1>2
<1> QED
  BY <1>4, <1>5 DEF u, v

Unrolls(f, P, y, K, S) ==
  /\ y \in Seq(S) /\ K \in 0 .. Len(y) /\ f[P[K]] \in Seq(S)
  /\ \A k \in 1 .. K : f[P[k - 1]] = <<y[k]>> \o f[P[k]]

Made(f, P, y, K) == f[P[0]] = SubSeq(y, 1, K) \o f[P[K]]

\* What is made of the text from the first of some places on, when one element
\* is made from each place to the next.
LEMMA Unrolled ==
  ASSUME NEW S, NEW y, NEW K, NEW f, NEW P, Unrolls(f, P, y, K, S)
  PROVE  Made(f, P, y, K)
<1> DEFINE z == f[P[K]]
           T == {k \in 0 .. K : f[P[k]] = SubSeq(y, k + 1, K) \o z}
<1>1. K \in Nat /\ z \in Seq(S) /\ K + 1 \in Nat /\ Len(y) \in Nat /\ y \in Seq(S) /\ K \in 0 .. Len(y)
  BY DEF Unrolls
<1> HIDE DEF z
<1>2. K \in T
  <2>1. SubSeq(y, K + 1, K) = <<>> /\ <<>> \o z = z
    BY <1>1
  <2> QED
    BY <2>1, <1>1 DEF z
<1>3. ASSUME NEW k \in 1 .. K, k \in T
      PROVE  k - 1 \in T
  <2>1. f[P[k]] = SubSeq(y, k + 1, K) \o z /\ k - 1 \in 0 .. K /\ (k - 1) + 1 = k
    BY <1>3, <1>1
  <2>2. f[P[k - 1]] = <<y[k]>> \o f[P[k]]
    BY <1>3 DEF Unrolls
  <2>3. f[P[k - 1]] = SubSeq(y, k, K) \o z
    <3>1. <<y[k]>> \o (SubSeq(y, k + 1, K) \o z) = SubSeq(y, k, K) \o z
      BY <1>1, Shifted
    <3> QED
      BY <2>1, <2>2, <3>1, Zenon
  <2> QED
    BY <2>1, <2>3
<1>4. \A k \in 0 .. K : k \in T
  <2> HIDE DEF T
  <2> QED
    BY <1>1, <1>2, <1>3, Downwards
<1>5. 0 \in T
  <2>1. 0 \in 0 .. K
    BY <1>1
  <2> HIDE DEF T
  <2> QED
    BY <2>1, <1>4
<1>6. f[P[0]] = SubSeq(y, 0 + 1, K) \o z
  BY <1>5, Zenon
<1>7. 0 + 1 = 1
  OBVIOUS
<1> QED
  BY <1>6, <1>7, Zenon DEF z, Made

-----------------------------------------------------------------------------
(* Escapes.                                                                *)

\* The characters of e behind the place i, up to the place j, stand for c.
Spells(e, c, i, j) ==
  \/ c \notin {Bs, Quote} /\ j = i + 1 /\ e[i + 1] = c
  \/ /\ j = i + 2 /\ e[i + 1] = Bs /\ e[i + 2] \in {"n", "t", "r", Quote, Bs}
     /\ Escapes[e[i + 2]] = c /\ (c = Quote => e[i + 2] = Quote) /\ (e[i + 2] = Bs => c = Bs)
  \/ /\ j = i + 3 /\ e[i + 1] = Bs /\ e[i + 2] = "u" /\ e[i + 3] = "0001" /\ Hex["0001"] = <<c>>

\* e stands for s: the first k characters of s are the first b[k] of e.
Spelt(e, s, b) ==
  /\ e \in Writing /\ s \in Writing
  /\ b \in [0 .. Len(s) -> Nat] /\ b[0] = 0 /\ b[Len(s)] = Len(e)
  /\ \A k \in 1 .. Len(s) : Spells(e, s[k], b[k - 1], b[k])

\* How Escaped writes a character, and that it can be read back.
LEMMA EscapedIs ==
  ASSUME NEW c \in Char
  PROVE  \/ c \notin {Bs, Quote} /\ Escaped(c) = <<c>>
         \/ \E d \in {"n", "t", "r", Quote, Bs} :
              Escaped(c) = <<Bs, d>> /\ Escapes[d] = c /\ (c = Quote => d = Quote) /\ (d = Bs => c = Bs)
         \/ Escaped(c) = <<Bs, "u", "0001">> /\ Hex["0001"] = <<c>>
<1>1. CASE c = Quote
  <2>1. Escaped(Quote) = <<Bs, Quote>>
    BY Zenon DEF Escaped, Quote, Bs, Nl, Tab, Cr, Control
  <2>2. Escapes[Quote] = Quote
    BY Zenon DEF Escapes, Quote, Bs, Nl, Tab, Cr
  <2> QED
    BY <1>1, <2>1, <2>2, Zenon DEF Quote, Bs
<1>2. CASE c = Bs
  <2>1. Escaped(Bs) = <<Bs, Bs>>
    BY Zenon DEF Escaped, Quote, Bs, Nl, Tab, Cr, Control
  <2>2. Escapes[Bs] = Bs
    BY Zenon DEF Escapes, Quote, Bs, Nl, Tab, Cr
  <2> QED
    BY <1>2, <2>1, <2>2
<1>3. CASE c = Nl
  <2>1. Escaped(Nl) = <<Bs, "n">>
    BY Zenon DEF Escaped, Quote, Bs, Nl, Tab, Cr, Control
  <2>2. Escapes["n"] = Nl
    BY Zenon DEF Escapes, Quote, Bs, Nl, Tab, Cr
  <2> QED
    BY <1>3, <2>1, <2>2 DEF Nl, Bs, Quote
<1>4. CASE c = Tab
  <2>1. Escaped(Tab) = <<Bs, "t">>
    BY Zenon DEF Escaped, Quote, Bs, Nl, Tab, Cr, Control
  <2>2. Escapes["t"] = Tab
    BY Zenon DEF Escapes, Quote, Bs, Nl, Tab, Cr
  <2> QED
    BY <1>4, <2>1, <2>2 DEF Tab, Bs, Quote
<1>5. CASE c = Cr
  <2>1. Escaped(Cr) = <<Bs, "r">>
    BY Zenon DEF Escaped, Quote, Bs, Nl, Tab, Cr, Control
  <2>2. Escapes["r"] = Cr
    BY Zenon DEF Escapes, Quote, Bs, Nl, Tab, Cr
  <2> QED
    BY <1>5, <2>1, <2>2 DEF Cr, Bs, Quote
<1>6. CASE c = Control
  <2>1. Escaped(Control) = <<Bs, "u", "0001">>
    BY Zenon DEF Escaped, Quote, Bs, Nl, Tab, Cr, Control
  <2>2. Hex["0001"] = <<Control>>
    BY DEF Hex, Quote, Bs, Nl, Tab, Cr, Control
  <2> QED
    BY <1>6, <2>1, <2>2
<1>7. CASE c \notin {Quote, Bs, Nl, Tab, Cr, Control}
  BY <1>7, Zenon DEF Escaped
<1> QED
  BY <1>1, <1>2, <1>3, <1>4, <1>5, <1>6, <1>7

\* What escape_json writes of s stands for s.
LEMMA EscapeSpelt ==
  ASSUME NEW s \in Writing
  PROVE  /\ escape_json(s) \in Writing
         /\ \E b : Spelt(escape_json(s), s, b)
<1> DEFINE ps == [i \in DOMAIN s |-> Escaped(s[i])]
           e == FlattenSeq(ps)
<1>1. /\ Len(s) \in Nat /\ DOMAIN s = 1 .. Len(s) /\ \A k \in 1 .. Len(s) : s[k] \in Char
  BY DEF Writing
<1>2. ASSUME NEW k \in 1 .. Len(s)
      PROVE  Escaped(s[k]) \in Seq(Char)
  <2>1. s[k] \in Char
    BY <1>1
  <2>2. /\ <<s[k]>> \in Seq(Char) /\ <<Bs, "u", "0001">> \in Seq(Char)
        /\ \A d \in {"n", "t", "r", Quote, Bs} : <<Bs, d>> \in Seq(Char)
    <3>1. /\ Bs \in Char /\ "u" \in Char /\ "0001" \in Char
          /\ \A d \in {"n", "t", "r", Quote, Bs} : d \in Char
      BY DEF Char, Bs, Quote
    <3>2. /\ \A c \in Char : <<c>> \in Seq(Char)
          /\ \A c, d \in Char : <<c, d>> \in Seq(Char)
      OBVIOUS
    <3>3. \A c, d, g \in Char : <<c, d, g>> \in Seq(Char)
      OBVIOUS
    <3> QED
      BY <2>1, <3>1, <3>2, <3>3, Zenon
  <2>3. \/ Escaped(s[k]) = <<s[k]>>
        \/ \E d \in {"n", "t", "r", Quote, Bs} : Escaped(s[k]) = <<Bs, d>>
        \/ Escaped(s[k]) = <<Bs, "u", "0001">>
    BY <2>1, EscapedIs, Zenon
  <2> QED
    BY <2>2, <2>3, Zenon
<1>3. ps \in Seq(Seq(Char)) /\ Len(ps) = Len(s) /\ \A k \in 1 .. Len(s) : ps[k] = Escaped(s[k])
  BY <1>1, <1>2
<1> HIDE DEF ps
<1>4. e \in Seq(Char)
  BY <1>3, FlattenLaid
<1>5. PICK b : Laid(e, ps, b)
  BY <1>3, FlattenLaid
<1> HIDE DEF e
<1>6. /\ b \in [0 .. Len(s) -> Nat] /\ b[0] = 0 /\ b[Len(s)] = Len(e)
  BY <1>3, <1>5 DEF Laid
<1>7. ASSUME NEW k \in 1 .. Len(s)
      PROVE  Spells(e, s[k], b[k - 1], b[k])
  <2> DEFINE c == s[k]
             i == b[k - 1]
             j == b[k]
             p == ps[k]
  <2>1. c \in Char /\ p = Escaped(c)
    BY <1>1, <1>3
  <2>2. i \in Nat /\ j \in Nat /\ j = i + Len(p) /\ \A x \in 1 .. Len(p) : e[i + x] = p[x]
    BY <1>3, <1>5, <1>6 DEF Laid
  <2> HIDE DEF c, i, j, p
  <2>3. CASE c \notin {Bs, Quote} /\ p = <<c>>
    <3>1. Len(p) = 1 /\ p[1] = c
      BY <2>3
    <3> QED
      BY <2>2, <2>3, <3>1 DEF Spells, c, i, j
  <2>4. ASSUME NEW d \in {"n", "t", "r", Quote, Bs}, p = <<Bs, d>>,
               Escapes[d] = c, c = Quote => d = Quote, d = Bs => c = Bs
        PROVE  Spells(e, c, i, j)
    <3>1. Len(p) = 2 /\ p[1] = Bs /\ p[2] = d
      BY <2>4
    <3>2. j = i + 2 /\ e[i + 1] = Bs /\ e[i + 2] = d
      BY <2>2, <3>1
    <3> QED
      BY <2>4, <3>2 DEF Spells
  <2>5. CASE p = <<Bs, "u", "0001">> /\ Hex["0001"] = <<c>>
    <3>1. Len(p) = 3 /\ p[1] = Bs /\ p[2] = "u" /\ p[3] = "0001"
      BY <2>5
    <3>2. j = i + 3 /\ e[i + 1] = Bs /\ e[i + 2] = "u" /\ e[i + 3] = "0001"
      BY <2>2, <3>1
    <3> QED
      BY <2>5, <3>2 DEF Spells, c, i, j
  <2> QED
    BY <2>1, <2>3, <2>4, <2>5, EscapedIs DEF c, i, j
<1>8. e = escape_json(s)
  BY DEF e, ps, escape_json
<1>9. Spelt(e, s, b)
  BY <1>4, <1>6, <1>7 DEF Spelt, Writing
<1> QED
  BY <1>4, <1>8, <1>9 DEF Writing

\* How what stands for x is made.
Resolves(f, x, known, unicode) ==
  /\ f[Len(x) + 1] = <<>>
  /\ \A i \in 1 .. Len(x) :
       f[i] = IF x[i] = Bs /\ i < Len(x) /\ x[i + 1] \in known THEN <<Escapes[x[i + 1]]>> \o f[i + 2]
              ELSE IF x[i] = Bs /\ unicode /\ i + 1 < Len(x) /\ x[i + 1] = "u" THEN Hex[x[i + 2]] \o f[i + 3]
              ELSE <<x[i]>> \o f[i + 1]

\* The recursive function in Resolved exists and does this.
LEMMA ResolvedIs ==
  ASSUME NEW x, Len(x) \in Nat, NEW known, NEW unicode
  PROVE  \E f : Resolves(f, x, known, unicode) /\ Resolved(x, known, unicode) = f[1]
<1> DEFINE n == Len(x)
           One(i) == x[i] = Bs /\ i < Len(x) /\ x[i + 1] \in known
           Two(i) == x[i] = Bs /\ unicode /\ i + 1 < Len(x) /\ x[i + 1] = "u"
           Body(f) == [i \in 1 .. n + 1 |->
                         IF i > n THEN <<>>
                         ELSE IF One(i) THEN <<Escapes[x[i + 1]]>> \o f[i + 2]
                         ELSE IF Two(i) THEN Hex[x[i + 2]] \o f[i + 3]
                         ELSE <<x[i]>> \o f[i + 1]]
           F == CHOOSE f : f = Body(f)
           next == [i \in 1 .. n + 1 |-> IF i > n THEN 0 ELSE IF One(i) THEN i + 2
                                         ELSE IF Two(i) THEN i + 3 ELSE i + 1]
           piece == [i \in 1 .. n + 1 |-> IF One(i) THEN <<Escapes[x[i + 1]]>>
                                          ELSE IF Two(i) THEN Hex[x[i + 2]] ELSE <<x[i]>>]
<1>1. n \in Nat
  OBVIOUS
<1>2. /\ \A i \in 1 .. n : One(i) => i + 2 \in i + 1 .. n + 1
      /\ \A i \in 1 .. n : Two(i) => i + 3 \in i + 1 .. n + 1
      /\ \A i \in 1 .. n : i + 1 \in i + 1 .. n + 1
  BY <1>1
<1> HIDE DEF One, Two
<1>3. \A i \in 1 .. n + 1 : next[i] = 0 \/ next[i] \in i + 1 .. n + 1
  BY <1>1, <1>2
<1>4. \E f : f = Body(f)
  <2>a. PICK f : Walks(f, n, next, piece)
    <3> HIDE DEF next, piece, n
    <3> QED
      BY <1>1, <1>3, WalkExists
  <2>1. f = [i \in 1 .. n + 1 |-> IF next[i] = 0 THEN <<>> ELSE piece[i] \o f[next[i]]]
    <3> HIDE DEF next, piece, n
    <3> QED
      BY <2>a DEF Walks
  <2>2. ASSUME NEW i \in 1 .. n + 1
        PROVE  f[i] = Body(f)[i]
    <3>1. f[i] = IF next[i] = 0 THEN <<>> ELSE piece[i] \o f[next[i]]
      <4> HIDE DEF next, piece
      <4> QED
        BY <2>1
    <3>2. CASE i > n
      <4>1. next[i] = 0
        BY <3>2
      <4> HIDE DEF next, piece
      <4> QED
        BY <3>1, <3>2, <4>1
    <3>3. CASE ~(i > n) /\ One(i)
      <4>1. next[i] = i + 2 /\ piece[i] = <<Escapes[x[i + 1]]>> /\ i + 2 # 0
        BY <3>3
      <4> HIDE DEF next, piece
      <4> QED
        BY <3>1, <3>3, <4>1
    <3>4. CASE ~(i > n) /\ ~One(i) /\ Two(i)
      <4>1. next[i] = i + 3 /\ piece[i] = Hex[x[i + 2]] /\ i + 3 # 0
        BY <3>4
      <4> HIDE DEF next, piece
      <4> QED
        BY <3>1, <3>4, <4>1
    <3>5. CASE ~(i > n) /\ ~One(i) /\ ~Two(i)
      <4>1. next[i] = i + 1 /\ piece[i] = <<x[i]>> /\ i + 1 # 0
        BY <3>5
      <4> HIDE DEF next, piece
      <4> QED
        BY <3>1, <3>5, <4>1
    <3> QED
      BY <3>2, <3>3, <3>4, <3>5
  <2>3. f = [i \in 1 .. n + 1 |-> f[i]] /\ Body(f) = [i \in 1 .. n + 1 |-> Body(f)[i]]
    <3> HIDE DEF next, piece
    <3>1. f = [i \in 1 .. n + 1 |-> f[i]]
      BY <2>1
    <3> QED
      BY <3>1
  <2>4. f = Body(f)
    <3> HIDE DEF Body
    <3> QED
      BY <2>2, <2>3
  <2> HIDE DEF Body
  <2> QED
    BY <2>4
<1>5. F = Body(F)
  <2> HIDE DEF Body
  <2> QED
    BY <1>4
<1>6. Resolved(x, known, unicode) = F[1]
  BY DEF Resolved, One, Two
<1> HIDE DEF F
<1>7. F[n + 1] = <<>>
  BY <1>1, <1>5
<1>8. ASSUME NEW i \in 1 .. n
      PROVE  F[i] = IF One(i) THEN <<Escapes[x[i + 1]]>> \o F[i + 2]
                    ELSE IF Two(i) THEN Hex[x[i + 2]] \o F[i + 3]
                    ELSE <<x[i]>> \o F[i + 1]
  <2>1. i \in 1 .. n + 1 /\ ~(i > n)
    BY <1>1
  <2> QED
    BY <2>1, <1>5
<1>9. Resolves(F, x, known, unicode)
  BY <1>7, <1>8 DEF Resolves, One, Two
<1> QED
  BY <1>6, <1>9

\* The escapes of one letter.
LEMMA EscapesIs ==
  /\ DOMAIN Escapes = {"n", "t", "r", Quote, Bs, "/"}
  /\ "u" \notin DOMAIN Escapes /\ "u" # Bs
  /\ \A d \in DOMAIN Escapes \ {"/"} : Escapes[d] \in Char
  /\ Escapes[Quote] = Quote
<1>1. DOMAIN Escapes = {"n", "t", "r", Quote, Bs, "/"}
  BY DEF Escapes
<1>2. "u" \notin {"n", "t", "r", Quote, Bs, "/"} /\ "u" # Bs
  BY DEF Quote, Bs
<1>3. {"n", "t", "r", Quote, Bs, "/"} \ {"/"} = {"n", "t", "r", Quote, Bs}
  BY DEF Quote, Bs
<1>4. /\ Escapes["n"] = Nl /\ Escapes["t"] = Tab /\ Escapes["r"] = Cr
      /\ Escapes[Quote] = Quote /\ Escapes[Bs] = Bs
  <2>1. Escapes["n"] = Nl
    BY Zenon DEF Escapes, Quote, Bs, Nl, Tab, Cr
  <2>2. Escapes["t"] = Tab
    BY Zenon DEF Escapes, Quote, Bs, Nl, Tab, Cr
  <2>3. Escapes["r"] = Cr
    BY Zenon DEF Escapes, Quote, Bs, Nl, Tab, Cr
  <2>4. Escapes[Quote] = Quote
    BY Zenon DEF Escapes, Quote, Bs, Nl, Tab, Cr
  <2>5. Escapes[Bs] = Bs
    BY Zenon DEF Escapes, Quote, Bs, Nl, Tab, Cr
  <2> QED
    BY <2>1, <2>2, <2>3, <2>4, <2>5
<1>5. Nl \in Char /\ Tab \in Char /\ Cr \in Char /\ Quote \in Char /\ Bs \in Char
  BY DEF Char
<1> QED
  BY <1>1, <1>2, <1>3, <1>4, <1>5

\* What is resolved a second time is a text, and without a backslash the same.
LEMMA UnescapedIs ==
  ASSUME NEW s \in Writing
  PROVE  /\ unescape_json(s) \in Writing
         /\ (\A i \in DOMAIN s : s[i] # Bs) => unescape_json(s) = s
<1> DEFINE n == Len(s)
           known == DOMAIN Escapes \ {"/"}
<1>1. n \in Nat /\ DOMAIN s = 1 .. n /\ \A i \in 1 .. n : s[i] \in Char
  BY DEF Writing
<1>2. PICK f : Resolves(f, s, known, FALSE) /\ Resolved(s, known, FALSE) = f[1]
  <2> HIDE DEF known
  <2> QED
    BY <1>1, ResolvedIs
<1>3. unescape_json(s) = f[1]
  BY <1>2 DEF unescape_json
<1>4. \A d \in known : Escapes[d] \in Char
  BY EscapesIs
<1> HIDE DEF known
<1>5. /\ f[n + 1] = <<>>
      /\ \A i \in 1 .. n :
           f[i] = IF s[i] = Bs /\ i < n /\ s[i + 1] \in known THEN <<Escapes[s[i + 1]]>> \o f[i + 2]
                  ELSE <<s[i]>> \o f[i + 1]
  BY <1>2 DEF Resolves
<1> DEFINE T == {k \in 0 .. n : \A j \in k + 1 .. n + 1 : f[j] \in Seq(Char)}
<1>6. n \in T
  <2>1. \A j \in n + 1 .. n + 1 : j = n + 1
    BY <1>1
  <2>2. f[n + 1] \in Seq(Char)
    BY <1>5
  <2> QED
    BY <2>1, <2>2, <1>1
<1>7. ASSUME NEW k \in 1 .. n, k \in T
      PROVE  k - 1 \in T
  <2>1. f[k + 1] \in Seq(Char) /\ (k < n => f[k + 2] \in Seq(Char)) /\ k - 1 \in 0 .. n
    BY <1>7, <1>1
  <2>2. ASSUME s[k] = Bs /\ k < n /\ s[k + 1] \in known
        PROVE  f[k] \in Seq(Char)
    <3>1. f[k] = <<Escapes[s[k + 1]]>> \o f[k + 2] /\ Escapes[s[k + 1]] \in Char
      BY <2>2, <1>4, <1>5
    <3> QED
      BY <3>1, <2>1, <2>2, Put, Zenon
  <2>3. ASSUME ~(s[k] = Bs /\ k < n /\ s[k + 1] \in known)
        PROVE  f[k] \in Seq(Char)
    <3>1. f[k] = <<s[k]>> \o f[k + 1] /\ s[k] \in Char
      BY <2>3, <1>1, <1>5
    <3> QED
      BY <3>1, <2>1, Put, Zenon
  <2>4. f[k] \in Seq(Char)
    BY <2>2, <2>3
  <2>5. \A j \in (k - 1) + 1 .. n + 1 : j = k \/ j \in k + 1 .. n + 1
    BY <1>1
  <2> QED
    BY <2>1, <2>4, <2>5, <1>7
<1>8. f[1] \in Seq(Char)
  <2>1. \A k \in 0 .. n : k \in T
    <3> HIDE DEF T, n
    <3> QED
      BY <1>1, <1>6, <1>7, Downwards
  <2>2. 0 \in T /\ 1 \in 0 + 1 .. n + 1
    BY <2>1, <1>1
  <2> QED
    BY <2>2
<1>9. ASSUME \A i \in DOMAIN s : s[i] # Bs
      PROVE  f[1] = s
  <2> DEFINE P == [k \in 0 .. n |-> k + 1]
  <2>1. /\ \A k \in 0 .. n : P[k] = k + 1
        /\ 0 \in 0 .. n /\ n \in 0 .. n
    BY <1>1
  <2> HIDE DEF P
  <2>2. \A k \in 1 .. n : f[P[k - 1]] = <<s[k]>> \o f[P[k]]
    <3> SUFFICES ASSUME NEW k \in 1 .. n
                 PROVE  f[P[k - 1]] = <<s[k]>> \o f[P[k]]
      OBVIOUS
    <3>1. k - 1 \in 0 .. n /\ k \in 0 .. n /\ (k - 1) + 1 = k
      BY <1>1
    <3>2. f[k] = <<s[k]>> \o f[k + 1]
      BY <1>1, <1>5, <1>9
    <3> QED
      BY <2>1, <3>1, <3>2
  <2>3. f[P[0]] = f[1] /\ f[P[n]] = <<>>
    BY <2>1, <1>5
  <2>4. f[P[0]] = SubSeq(s, 1, n) \o f[P[n]]
    <3>1. f[P[n]] \in Seq(Char) /\ n \in 0 .. Len(s) /\ s \in Seq(Char)
      BY <1>1, <2>3 DEF Writing
    <3>2. Unrolls(f, P, s, n, Char)
      BY <3>1, <2>2 DEF Unrolls
    <3>3. Made(f, P, s, n)
      BY <3>2, Unrolled
    <3> QED
      BY <3>3 DEF Made
  <2>5. SubSeq(s, 1, n) \o <<>> = s
    BY DEF Writing
  <2> QED
    BY <2>3, <2>4, <2>5
<1> QED
  BY <1>3, <1>8, <1>9 DEF Writing

\* The places between the characters rise.
LEMMA SpeltRises ==
  ASSUME NEW e, NEW s, NEW b, Spelt(e, s, b)
  PROVE  /\ Len(s) \in Nat /\ Len(e) \in Nat /\ \A k \in 0 .. Len(s) : b[k] \in Nat
         /\ \A k \in 1 .. Len(s) : b[k - 1] < b[k]
         /\ \A i, k \in 0 .. Len(s) : i <= k => b[i] <= b[k]
<1> DEFINE n == Len(s)
<1>1. /\ n \in Nat /\ Len(e) \in Nat /\ b[0] = 0 /\ \A k \in 0 .. n : b[k] \in Nat
      /\ \A k \in 1 .. n : Spells(e, s[k], b[k - 1], b[k])
  BY DEF Spelt, Writing
<1> HIDE DEF n
<1>2. ASSUME NEW k \in 1 .. n
      PROVE  b[k - 1] < b[k] /\ b[k] \in Nat /\ b[k - 1] \in Nat
  <2>1. k \in 0 .. n /\ k - 1 \in 0 .. n
    BY <1>1
  <2> QED
    BY <2>1, <1>1 DEF Spells
<1>3. ASSUME NEW i \in 0 .. n, NEW k \in 0 .. n, i <= k
      PROVE  b[i] <= b[k]
  <2> DEFINE T == {m \in Nat : i <= m => b[i] <= b[m]}
  <2>1. 0 \in T
    BY <1>1
  <2>2. ASSUME NEW m \in 0 .. n - 1, m \in T
        PROVE  m + 1 \in T
    <3>1. m + 1 \in 1 .. n /\ (m + 1) - 1 = m /\ m \in 0 .. n /\ m + 1 \in 0 .. n
      BY <1>1
    <3>2. b[m] <= b[m + 1] /\ b[m] \in Nat /\ b[m + 1] \in Nat /\ b[i] \in Nat
      BY <3>1, <1>1, <1>2
    <3>3. CASE i <= m
      BY <3>1, <3>2, <3>3, <2>2
    <3>4. CASE ~(i <= m)
      <4>1. i <= m + 1 => i = m + 1
        BY <3>1, <3>4
      <4> QED
        BY <4>1, <3>1, <3>2
    <3> QED
      BY <3>3, <3>4
  <2>3. \A m \in 0 .. n : m \in T
    <3> HIDE DEF T
    <3> QED
      BY <1>1, <2>1, <2>2, Upwards
  <2> QED
    BY <2>3, <1>3
<1> QED
  BY <1>1, <1>2, <1>3 DEF n

\* Of the first m characters of e, so many of s are whole.
WholeTo(e, s, b, m, K) ==
  /\ K \in 0 .. Len(s) /\ \A k \in 0 .. K : b[k] <= m
  /\ K < Len(s) => m < b[K + 1]
  /\ K = Len(s) => m = Len(e)
  /\ m = Len(e) => K = Len(s)

\* What is cut off at a place has such a number.
LEMMA WholeOnes ==
  ASSUME NEW e, NEW s, NEW b, Spelt(e, s, b), NEW m \in 0 .. Len(e)
  PROVE  \E K : WholeTo(e, s, b, m, K)
<1> DEFINE n == Len(s)
<1>1. /\ n \in Nat /\ Len(e) \in Nat /\ m \in Nat /\ \A k \in 0 .. n : b[k] \in Nat
      /\ b[0] = 0 /\ b[n] = Len(e) /\ \A i, k \in 0 .. n : i <= k => b[i] <= b[k]
  <2>1. /\ Len(s) \in Nat /\ Len(e) \in Nat /\ \A k \in 0 .. Len(s) : b[k] \in Nat
        /\ \A i, k \in 0 .. Len(s) : i <= k => b[i] <= b[k]
    BY SpeltRises, Zenon
  <2>2. b[0] = 0 /\ b[n] = Len(e)
    BY DEF Spelt
  <2> QED
    BY <2>1, <2>2
<1> HIDE DEF n
<1>2. CASE \E K \in 0 .. n - 1 : b[K] <= m /\ m < b[K + 1]
  <2>1. PICK K \in 0 .. n - 1 : b[K] <= m /\ m < b[K + 1]
    BY <1>2
  <2>2. K \in 0 .. n /\ K < n /\ K # n /\ K + 1 \in 0 .. n /\ K + 1 <= n /\ n \in 0 .. n
    BY <1>1
  <2>3. \A k \in 0 .. K : k \in 0 .. n /\ k <= K
    BY <1>1
  <2>4. \A k \in 0 .. K : b[k] <= m
    BY <2>1, <2>2, <2>3, <1>1
  <2>5. m < Len(e)
    <3>1. b[K + 1] <= b[n]
      BY <2>2, <1>1
    <3> QED
      BY <2>1, <2>2, <3>1, <1>1
  <2>6. m # Len(e)
    BY <2>5, <1>1
  <2>7. WholeTo(e, s, b, m, K)
    BY <2>1, <2>2, <2>4, <2>6, Zenon DEF WholeTo, n
  <2> QED
    BY <2>7, Zenon
<1>3. CASE \A K \in 0 .. n - 1 : ~(b[K] <= m /\ m < b[K + 1])
  <2> DEFINE T == {k \in Nat : k <= n => b[k] <= m}
  <2>1. 0 \in T
    BY <1>1
  <2>2. ASSUME NEW k \in 0 .. n - 1, k \in T
        PROVE  k + 1 \in T
    <3>1. k \in 0 .. n /\ k + 1 \in 0 .. n /\ k <= n /\ k + 1 \in Nat
      BY <1>1
    <3>2. b[k] <= m /\ b[k + 1] \in Nat
      BY <3>1, <2>2, <1>1
    <3> QED
      BY <3>1, <3>2, <1>1, <1>3
  <2>3. \A k \in 0 .. n : k \in T
    <3> HIDE DEF T
    <3> QED
      BY <1>1, <2>1, <2>2, Upwards
  <2>4. \A k \in 0 .. n : b[k] <= m
    BY <2>3
  <2>5. n \in 0 .. n /\ m = Len(e) /\ ~(n < n)
    BY <2>4, <1>1
  <2>6. WholeTo(e, s, b, m, n)
    BY <2>4, <2>5, Zenon DEF WholeTo, n
  <2> QED
    BY <2>6, Zenon
<1> QED
  BY <1>2, <1>3, Zenon

\* decode_escape gives back the text of what was written whole, and a text of
\* what was cut off.
LEMMA DecodedIs ==
  ASSUME NEW e, NEW s, NEW b, Spelt(e, s, b), NEW m \in 0 .. Len(e)
  PROVE  /\ decode_escape(SubSeq(e, 1, m)) \in Writing
         /\ m = Len(e) => decode_escape(SubSeq(e, 1, m)) = s
         /\ m = 0 => decode_escape(SubSeq(e, 1, m)) = <<>>
<1> DEFINE n == Len(s)
           x == SubSeq(e, 1, m)
           known == DOMAIN Escapes
<1>1. /\ n \in Nat /\ Len(e) \in Nat /\ m \in Nat /\ \A k \in 0 .. n : b[k] \in Nat
      /\ b[0] = 0 /\ b[n] = Len(e) /\ \A k \in 1 .. n : b[k - 1] < b[k]
  <2>1. /\ Len(s) \in Nat /\ Len(e) \in Nat /\ \A k \in 0 .. Len(s) : b[k] \in Nat
        /\ \A k \in 1 .. Len(s) : b[k - 1] < b[k]
    BY SpeltRises, Zenon
  <2>2. b[0] = 0 /\ b[n] = Len(e)
    BY DEF Spelt
  <2> QED
    BY <2>1, <2>2
<1>2. x \in Seq(Char) /\ Len(x) = m /\ \A i \in 1 .. m : x[i] = e[i]
  BY <1>1 DEF Spelt, Writing
<1>3. s \in Seq(Char) /\ \A k \in 1 .. n : Spells(e, s[k], b[k - 1], b[k])
  BY DEF Spelt, Writing
<1> HIDE DEF n, x
<1>4. PICK f : Resolves(f, x, known, TRUE) /\ Resolved(x, known, TRUE) = f[1]
  <2> HIDE DEF known
  <2> QED
    <3>1. Len(x) \in Nat
      BY <1>1, <1>2
    <3> QED
      BY <3>1, ResolvedIs, Zenon
<1>5. decode_escape(x) = f[1]
  BY <1>4 DEF decode_escape
<1>6. /\ \A d \in {"n", "t", "r", Quote, Bs} : d \in known
      /\ "u" \notin known /\ "u" # Bs
  BY EscapesIs
<1> HIDE DEF known
<1>7. /\ f[m + 1] = <<>>
      /\ \A i \in 1 .. m :
           f[i] = IF x[i] = Bs /\ i < m /\ x[i + 1] \in known THEN <<Escapes[x[i + 1]]>> \o f[i + 2]
                  ELSE IF x[i] = Bs /\ i + 1 < m /\ x[i + 1] = "u" THEN Hex[x[i + 2]] \o f[i + 3]
                  ELSE <<x[i]>> \o f[i + 1]
  BY <1>2, <1>4 DEF Resolves
<1>8. PICK K \in 0 .. n :
        /\ \A k \in 0 .. K : b[k] <= m
        /\ K < n => m < b[K + 1]
        /\ K = n => m = Len(e)
        /\ m = Len(e) => K = n
  <2>1. PICK K : WholeTo(e, s, b, m, K)
    BY WholeOnes
  <2> QED
    BY <2>1 DEF WholeTo, n
<1> DEFINE P == [k \in 0 .. n |-> b[k] + 1]
<1>9. \A k \in 0 .. n : P[k] = b[k] + 1
  OBVIOUS
<1> HIDE DEF P
<1>10. ASSUME NEW k \in 1 .. K
       PROVE  f[P[k - 1]] = <<s[k]>> \o f[P[k]]
  <2> DEFINE c == s[k]
             i == b[k - 1] + 1
             j == b[k]
  <2>1. k \in 1 .. n /\ k \in 0 .. n /\ k - 1 \in 0 .. n /\ k \in 0 .. K
    BY <1>1
  <2>2. i \in 1 .. m /\ j \in 1 .. m /\ b[k - 1] = i - 1 /\ P[k - 1] = i /\ P[k] = j + 1
    <3>1. b[k - 1] \in Nat /\ b[k] \in Nat /\ b[k - 1] < b[k] /\ b[k] <= m
      BY <2>1, <1>1, <1>8
    <3>2. P[k - 1] = b[k - 1] + 1 /\ P[k] = b[k] + 1
      BY <2>1, <1>9
    <3> DEFINE lo == b[k - 1]
    <3>3. lo \in Nat /\ j \in Nat /\ lo < j /\ j <= m
      BY <3>1
    <3>4. m \in Nat
      BY <1>1
    <3>5. P[k - 1] = lo + 1 /\ P[k] = j + 1 /\ b[k - 1] = lo
      BY <3>2
    <3> HIDE DEF lo, j
    <3>6. lo + 1 \in 1 .. m /\ j \in 1 .. m /\ lo = (lo + 1) - 1
      BY <3>3, <3>4
    <3> QED
      BY <3>5, <3>6 DEF lo
  <2>3. Spells(e, c, i - 1, j)
    BY <2>1, <2>2, <1>3
  <2> HIDE DEF c, i, j
  <2>4. CASE c \notin {Bs, Quote} /\ j = i - 1 + 1 /\ e[i - 1 + 1] = c
    <3>1. j = i /\ x[i] = c /\ x[i] # Bs
      BY <2>2, <2>4, <1>2
    <3>2. f[i] = <<c>> \o f[i + 1]
      BY <3>1, <2>2, <1>7
    <3> QED
      BY <2>2, <3>1, <3>2 DEF c
  <2>5. CASE /\ j = i - 1 + 2 /\ e[i - 1 + 1] = Bs /\ e[i - 1 + 2] \in {"n", "t", "r", Quote, Bs}
             /\ Escapes[e[i - 1 + 2]] = c
    <3>1. j = i + 1 /\ i < m /\ i + 1 \in 1 .. m /\ i - 1 + 1 = i /\ i - 1 + 2 = i + 1 /\ j + 1 = i + 2
      BY <1>1, <2>2, <2>5
    <3>2. x[i] = Bs /\ x[i + 1] \in known /\ Escapes[x[i + 1]] = c
      BY <2>2, <2>5, <3>1, <1>2, <1>6
    <3>3. f[i] = <<c>> \o f[i + 2]
      BY <3>1, <3>2, <2>2, <1>7
    <3> QED
      BY <2>2, <3>1, <3>3 DEF c
  <2>6. CASE /\ j = i - 1 + 3 /\ e[i - 1 + 1] = Bs /\ e[i - 1 + 2] = "u"
             /\ e[i - 1 + 3] = "0001" /\ Hex["0001"] = <<c>>
    <3>1. /\ j = i + 2 /\ i + 1 < m /\ i + 1 \in 1 .. m /\ i + 2 \in 1 .. m
          /\ i - 1 + 1 = i /\ i - 1 + 2 = i + 1 /\ i - 1 + 3 = i + 2 /\ j + 1 = i + 3
      BY <1>1, <2>2, <2>6
    <3>2. x[i] = Bs /\ x[i + 1] \notin known /\ x[i + 1] = "u" /\ Hex[x[i + 2]] = <<c>>
      BY <2>2, <2>6, <3>1, <1>2, <1>6
    <3>3. f[i] = <<c>> \o f[i + 3]
      <4>1. f[i] = IF x[i] = Bs /\ i < m /\ x[i + 1] \in known THEN <<Escapes[x[i + 1]]>> \o f[i + 2]
                   ELSE IF x[i] = Bs /\ i + 1 < m /\ x[i + 1] = "u" THEN Hex[x[i + 2]] \o f[i + 3]
                   ELSE <<x[i]>> \o f[i + 1]
        BY <2>2, <1>7
      <4> QED
        BY <3>1, <3>2, <4>1, Zenon
    <3> QED
      BY <2>2, <3>1, <3>3 DEF c
  <2> QED
    BY <2>3, <2>4, <2>5, <2>6 DEF Spells
<1> DEFINE z == f[P[K]]
<1>11. z \in Seq(Char) /\ (K = n => z = <<>>)
  <2> DEFINE i == b[K] + 1
  <2>1. i \in 1 .. m + 1 /\ P[K] = i /\ b[K] = i - 1
    <3> DEFINE d == b[K]
    <3>1. K \in 0 .. n /\ K \in 0 .. K
      BY <1>1, <1>8
    <3>2. P[K] = d + 1 /\ d \in Nat /\ d <= m /\ m \in Nat /\ i = d + 1 /\ b[K] = d
      BY <3>1, <1>1, <1>8, <1>9, Zenon
    <3> HIDE DEF d, i
    <3> QED
      BY <3>2
  <2>2. CASE i = m + 1
    <3>1. z = <<>>
      BY <2>1, <2>2, <1>7, Zenon
    <3>2. <<>> \in Seq(Char)
      OBVIOUS
    <3> QED
      BY <3>1, <3>2, Zenon
  <2>3. CASE i # m + 1
    <3>1. K < n /\ K + 1 \in 1 .. n /\ K + 1 \in 0 .. n /\ (K + 1) - 1 = K
      BY <2>3, <1>1, <1>8
    <3>2. m < b[K + 1] /\ b[K + 1] \in Nat
      BY <3>1, <1>1, <1>8
    <3>3. Spells(e, s[K + 1], i - 1, b[K + 1])
      BY <3>1, <2>1, <1>3
    <3> HIDE DEF i
    <3>4. i \in 1 .. m /\ i \in Nat
      BY <2>1, <2>3, <1>1
    <3>5. /\ m \in {i, i + 1}
          /\ e[i - 1 + 1] = Bs /\ (m = i + 1 => e[i - 1 + 2] = "u")
      BY <3>2, <3>3, <3>4, <1>1 DEF Spells
    <3>6. i - 1 + 1 = i /\ i - 1 + 2 = i + 1
      BY <3>4
    <3>7. x[i] = Bs /\ (m = i + 1 => x[i + 1] = "u")
      BY <3>4, <3>5, <3>6, <1>2
    <3>8. f[i] = <<Bs>> \o f[i + 1]
      <4>1. ~(i < m /\ x[i + 1] \in known) /\ ~(i + 1 < m)
        BY <3>4, <3>5, <3>7, <1>1, <1>6
      <4> QED
        BY <3>4, <3>7, <4>1, <1>7
    <3>9. f[i + 1] \in Seq(Char)
      <4>1. CASE m = i
        BY <4>1, <1>7
      <4>2. CASE m = i + 1
        <5>1. x[m] # Bs /\ m \in 1 .. m
          BY <4>2, <3>4, <3>7, <1>6
        <5>2. f[m] = <<x[m]>> \o <<>>
          BY <5>1, <1>7
        <5>3. x[m] \in Char
          BY <5>1, <1>2
        <5> QED
          BY <4>2, <5>2, <5>3, Put
      <4> QED
        BY <4>1, <4>2, <3>5
    <3>10. Bs \in Char
      BY DEF Char
    <3>11. f[i] \in Seq(Char)
      BY <3>8, <3>9, <3>10, Put, Zenon
    <3> QED
      BY <2>1, <3>1, <3>11
  <2> QED
    BY <2>2, <2>3
<1>12. f[1] = SubSeq(s, 1, K) \o z
  <2>1. 0 \in 0 .. n /\ P[0] = 1
    BY <1>1, <1>9
  <2>2. Unrolls(f, P, s, K, Char)
    BY <1>3, <1>10, <1>11 DEF Unrolls, n
  <2>3. Made(f, P, s, K)
    BY <2>2, Unrolled
  <2> QED
    BY <2>1, <2>3 DEF Made
<1> HIDE DEF z
<1>13. f[1] \in Seq(Char)
  BY <1>3, <1>11, <1>12 DEF n
<1>14. ASSUME m = Len(e)
       PROVE  f[1] = s
  <2>1. z = <<>> /\ K = Len(s)
    BY <1>8, <1>11, <1>14 DEF n
  <2> QED
    BY <2>1, <1>3, <1>12
<1>15. ASSUME m = 0
       PROVE  f[1] = <<>>
  BY <1>7, <1>15
<1> QED
  BY <1>5, <1>13, <1>14, <1>15 DEF x, Writing

-----------------------------------------------------------------------------
(* Quotes.                                                                 *)

\* A quote in what is written of a text is that of an escaped quote.
LEMMA QuoteIs ==
  ASSUME NEW e, NEW s, NEW b, Spelt(e, s, b), NEW j \in 1 .. Len(e)
  PROVE  \E k \in 1 .. Len(s) :
           /\ b[k - 1] < j /\ j <= b[k] /\ Spells(e, s[k], b[k - 1], b[k])
           /\ e[j] = Quote => j = b[k - 1] + 2 /\ j = b[k] /\ e[j - 1] = Bs /\ s[k] = Quote
<1> DEFINE n == Len(s)
<1>1. /\ n \in Nat /\ Len(e) \in Nat /\ \A k \in 0 .. n : b[k] \in Nat
  <2>1. /\ Len(s) \in Nat /\ Len(e) \in Nat /\ \A k \in 0 .. Len(s) : b[k] \in Nat
    BY SpeltRises, Zenon
  <2> QED
    BY <2>1
<1>2. \A k \in 1 .. n : Spells(e, s[k], b[k - 1], b[k])
  BY DEF Spelt
<1>3. j - 1 \in 0 .. Len(e) /\ j - 1 # Len(e) /\ j \in Nat
  BY <1>1
<1>4. PICK K \in 0 .. n :
        /\ \A k \in 0 .. K : b[k] <= j - 1
        /\ K < n => j - 1 < b[K + 1]
        /\ K = n => j - 1 = Len(e)
  <2> DEFINE m == j - 1
  <2>1. m \in 0 .. Len(e)
    BY <1>3
  <2> HIDE DEF m
  <2>2. PICK K : WholeTo(e, s, b, m, K)
    BY <2>1, WholeOnes
  <2> QED
    BY <2>2, Zenon DEF WholeTo, n, m
<1> HIDE DEF n
<1>5. K < n /\ K + 1 \in 1 .. n /\ K + 1 \in 0 .. n /\ (K + 1) - 1 = K /\ K \in 0 .. K
  BY <1>1, <1>3, <1>4
<1>6. b[K] < j /\ j <= b[K + 1] /\ b[K] \in Nat /\ b[K + 1] \in Nat
  BY <1>1, <1>3, <1>4, <1>5
<1>7. Spells(e, s[K + 1], b[K], b[K + 1])
  BY <1>2, <1>5
<1>8. ASSUME e[j] = Quote
      PROVE  j = b[K] + 2 /\ j = b[K + 1] /\ e[j - 1] = Bs /\ s[K + 1] = Quote
  <2> DEFINE i == b[K]
             g == b[K + 1]
             c == s[K + 1]
  <2>1. Spells(e, c, i, g) /\ i < j /\ j <= g /\ i \in Nat /\ g \in Nat
    BY <1>6, <1>7
  <2> HIDE DEF i, g, c
  <2>2. Quote # Bs /\ Quote # "u" /\ Quote # "0001"
    BY DEF Quote, Bs
  <2>3. CASE c \notin {Bs, Quote} /\ g = i + 1 /\ e[i + 1] = c
    <3>1. j = i + 1
      BY <2>1, <2>3, <1>3
    <3> QED
      BY <3>1, <2>3, <1>8
  <2>4. CASE /\ g = i + 2 /\ e[i + 1] = Bs /\ Escapes[e[i + 2]] = c
    <3>1. j = i + 1 \/ j = i + 2
      BY <2>1, <2>4, <1>3
    <3>2. j = i + 2
      BY <3>1, <2>2, <2>4, <1>8
    <3>3. j = g /\ j - 1 = i + 1
      BY <3>2, <2>1, <2>4
    <3>4. c = Quote
      BY <3>2, <2>4, <1>8, EscapesIs
    <3> QED
      BY <3>2, <3>3, <3>4, <2>4 DEF i, g, c
  <2>5. CASE g = i + 3 /\ e[i + 1] = Bs /\ e[i + 2] = "u" /\ e[i + 3] = "0001"
    <3>1. j = i + 1 \/ j = i + 2 \/ j = i + 3
      BY <2>1, <2>5, <1>3
    <3> QED
      BY <3>1, <2>2, <2>5, <1>8
  <2> QED
    BY <2>1, <2>3, <2>4, <2>5 DEF Spells
<1> QED
  BY <1>5, <1>6, <1>7, <1>8 DEF n

\* Before such a quote there is a backslash.
LEMMA BsBefore ==
  ASSUME NEW e, NEW s, NEW b, Spelt(e, s, b), NEW j \in 1 .. Len(e), e[j] = Quote
  PROVE  j > 1 /\ e[j - 1] = Bs
<1>1. PICK k \in 1 .. Len(s) : j = b[k - 1] + 2 /\ e[j - 1] = Bs
  BY QuoteIs
<1>2. Len(s) \in Nat /\ \A i \in 0 .. Len(s) : b[i] \in Nat
  BY SpeltRises
<1>3. k - 1 \in 0 .. Len(s)
  BY <1>2
<1>4. b[k - 1] \in Nat
  BY <1>2, <1>3
<1> QED
  BY <1>1, <1>4

\* A string that stands for s begins in t at v; t may end before the string does.
Opens(t, v, e) ==
  /\ v \in 1 .. Len(t) /\ t[v] = Quote
  /\ \A j \in 1 .. Len(e) : v + j <= Len(t) => t[v + j] = e[j]
  /\ v + Len(e) + 1 <= Len(t) => t[v + Len(e) + 1] = Quote

\* Before each of its characters there is an even number of backslashes.
LEMMA EvenBefore ==
  ASSUME NEW t \in Writing, NEW v, NEW e, NEW s, NEW b, Spelt(e, s, b), Opens(t, v, e),
         NEW k \in 0 .. Len(s), v + b[k] <= Len(t)
  PROVE  Backslashes(t, v + b[k] + 1) \in Nat /\ Backslashes(t, v + b[k] + 1) % 2 = 0
<1> DEFINE n == Len(s)
           N(i) == Backslashes(t, i)
<1>1. /\ n \in Nat /\ Len(e) \in Nat /\ \A i \in 0 .. n : b[i] \in Nat
  <2>1. /\ Len(s) \in Nat /\ Len(e) \in Nat /\ \A i \in 0 .. Len(s) : b[i] \in Nat
    BY SpeltRises, Zenon
  <2> QED
    BY <2>1
<1>2. b[0] = 0 /\ \A i \in 1 .. n : Spells(e, s[i], b[i - 1], b[i])
  BY DEF Spelt
<1>3. /\ v \in Nat \ {0} /\ Len(t) \in Nat /\ v <= Len(t) /\ t[v] = Quote
      /\ \A j \in 1 .. Len(e) : v + j <= Len(t) => t[v + j] = e[j]
  BY DEF Opens, Writing
<1>4. \A i \in Nat : i > 1 /\ i <= Len(t) + 1 =>
        /\ N(i) \in Nat
        /\ t[i - 1] = Bs => N(i) = 1 + N(i - 1)
        /\ t[i - 1] # Bs => N(i) = 0
  <2> SUFFICES ASSUME NEW i \in Nat, i > 1, i <= Len(t) + 1
               PROVE  /\ N(i) \in Nat
                      /\ t[i - 1] = Bs => N(i) = 1 + N(i - 1)
                      /\ t[i - 1] # Bs => N(i) = 0
    OBVIOUS
  <2>1. i \in 1 .. Len(t) + 1
    BY <1>3
  <2> QED
    BY <2>1, CountedIs
<1>5. \A i \in 0 .. n : b[i] <= Len(e)
  <2> SUFFICES ASSUME NEW i \in 0 .. n
               PROVE  b[i] <= Len(e)
    OBVIOUS
  <2>1. \A x, y \in 0 .. Len(s) : x <= y => b[x] <= b[y]
    BY SpeltRises, Zenon
  <2>2. b[Len(s)] = Len(e)
    BY DEF Spelt
  <2>3. i \in 0 .. Len(s) /\ Len(s) \in 0 .. Len(s) /\ i <= Len(s)
    BY <1>1
  <2> QED
    BY <2>1, <2>2, <2>3
<1> HIDE DEF N, n
<1> DEFINE T == {m \in Nat : m <= n /\ v + b[m] <= Len(t) => N(v + b[m] + 1) % 2 = 0}
<1>6. 0 \in T
  <2>1. v + b[0] + 1 = v + 1 /\ v + 1 > 1 /\ v + 1 <= Len(t) + 1 /\ v + 1 - 1 = v /\ v + 1 \in Nat
    BY <1>2, <1>3
  <2>2. t[v] # Bs
    BY <1>3 DEF Quote, Bs
  <2>3. N(v + 1) = 0
    <3> DEFINE i == v + 1
    <3>1. i \in Nat /\ i > 1 /\ i <= Len(t) + 1 /\ i - 1 = v
      BY <2>1, <1>3
    <3> HIDE DEF i
    <3>2. t[i - 1] # Bs
      BY <2>2, <3>1
    <3>3. N(i) = 0
      BY <3>1, <3>2, <1>4
    <3> QED
      BY <3>3 DEF i
  <2> QED
    BY <2>1, <2>3
<1>7. ASSUME NEW m \in 0 .. n - 1, m \in T
      PROVE  m + 1 \in T
  <2> DEFINE i == b[m]
             g == b[m + 1]
             c == s[m + 1]
             p == v + i + 1
  <2>1. m + 1 \in 1 .. n /\ (m + 1) - 1 = m /\ m \in 0 .. n /\ m + 1 \in 0 .. n /\ m + 1 \in Nat
    BY <1>1
  <2>2. i \in Nat /\ g \in Nat /\ g <= Len(e) /\ Spells(e, c, i, g)
    BY <2>1, <1>1, <1>2, <1>5
  <2> HIDE DEF i, g, c
  <2> SUFFICES ASSUME v + g <= Len(t)
               PROVE  N(v + g + 1) % 2 = 0
    BY <2>1 DEF g
  <2>3. i < g
    BY <2>2 DEF Spells
  <2>4. N(p) % 2 = 0 /\ N(p) \in Nat
    <3>1. v + i <= Len(t) /\ p \in Nat /\ p > 1 /\ p <= Len(t) + 1
      BY <2>2, <2>3, <1>3
    <3>2. N(p) % 2 = 0
      BY <3>1, <2>1, <1>7 DEF i
    <3>3. N(p) \in Nat
      BY <3>1, <1>4
    <3> QED
      BY <3>2, <3>3
  <2>5. p \in Nat /\ p > 1 /\ v + (i + 1) = p /\ v + (i + 2) = p + 1 /\ v + (i + 3) = p + 2
        /\ p + 1 - 1 = p /\ p + 2 - 1 = p + 1 /\ p + 3 - 1 = p + 2 /\ p + 1 > 1 /\ p + 2 > 1 /\ p + 3 > 1
    BY <2>2, <1>3
  <2> HIDE DEF p
  <2>6. \A d \in 1 .. g : t[v + d] = e[d]
    <3>1. \A d \in 1 .. g : d \in 1 .. Len(e) /\ v + d <= Len(t)
      BY <2>2, <1>1, <1>3
    <3>2. \A d \in 1 .. Len(e) : v + d <= Len(t) => t[v + d] = e[d]
      BY DEF Opens
    <3> QED
      BY <3>1, <3>2, Zenon
  <2>7. CASE c \notin {Bs, Quote} /\ g = i + 1 /\ e[i + 1] = c
    <3>1. t[p] # Bs /\ v + g + 1 = p + 1 /\ p + 1 <= Len(t) + 1 /\ p + 1 \in Nat
      BY <2>2, <2>5, <2>6, <2>7, <1>3
    <3>2. N(p + 1) = 0
      BY <3>1, <2>5, <1>4
    <3> QED
      BY <3>1, <3>2
  <2>8. CASE g = i + 2 /\ e[i + 1] = Bs
    <3>a. 1 \in 1 .. g /\ i + 1 \in 1 .. g
      BY <2>2, <2>8
    <3>b. t[p] = Bs
      BY <3>a, <2>5, <2>6, <2>8, Zenon
    <3>c. v + g + 1 = p + 2 /\ p + 2 <= Len(t) + 1 /\ p + 1 <= Len(t) + 1 /\ p + 1 \in Nat
          /\ p + 2 \in Nat
      BY <2>2, <2>5, <2>8, <1>3
    <3>1. t[p] = Bs /\ v + g + 1 = p + 2 /\ p + 2 <= Len(t) + 1 /\ p + 1 <= Len(t) + 1 /\ p + 1 \in Nat
          /\ p + 2 \in Nat
      BY <3>b, <3>c
    <3>2. N(p + 1) = 1 + N(p)
      <4>1. t[p + 1 - 1] = Bs => N(p + 1) = 1 + N(p + 1 - 1)
        BY <3>1, <2>5, <1>4
      <4> QED
        BY <3>b, <4>1, <2>5, Zenon
    <3>3. N(p + 2) = 1 + N(p + 1) \/ N(p + 2) = 0
      <4>1. /\ t[p + 2 - 1] = Bs => N(p + 2) = 1 + N(p + 2 - 1)
            /\ t[p + 2 - 1] # Bs => N(p + 2) = 0
        BY <3>1, <2>5, <1>4
      <4> QED
        BY <4>1, <2>5, Zenon
    <3>4. N(p + 2) = 2 + N(p) \/ N(p + 2) = 0
      BY <3>2, <3>3, <2>4
    <3> QED
      BY <3>1, <3>4, <2>4
  <2>9. CASE g = i + 3 /\ e[i + 3] = "0001"
    <3>1. t[p + 2] # Bs /\ v + g + 1 = p + 3 /\ p + 3 <= Len(t) + 1 /\ p + 3 \in Nat
      BY <2>2, <2>5, <2>6, <2>9, <1>3 DEF Bs
    <3>2. N(p + 3) = 0
      BY <3>1, <2>5, <1>4
    <3> QED
      BY <3>1, <3>2
  <2> QED
    BY <2>2, <2>7, <2>8, <2>9 DEF Spells
<1>8. k \in T
  <2>1. \A m \in 0 .. n : m \in T
    <3> HIDE DEF T
    <3> QED
      BY <1>1, <1>6, <1>7, Upwards
  <2> QED
    BY <2>1 DEF n
<1>9. N(v + b[k] + 1) \in Nat
  <2>1. b[k] \in Nat
    BY <1>1 DEF n
  <2>2. v + b[k] + 1 \in Nat /\ v + b[k] + 1 > 1 /\ v + b[k] + 1 <= Len(t) + 1
    BY <2>1, <1>3
  <2> QED
    BY <2>2, <1>4
<1> QED
  BY <1>8, <1>9 DEF N, n

\* A part of a text.
LEMMA CutIs ==
  ASSUME NEW S, NEW x \in Seq(S), NEW v \in Nat, NEW m \in Nat, v + m <= Len(x)
  PROVE  /\ SubSeq(x, v + 1, v + m) \in Seq(S) /\ Len(SubSeq(x, v + 1, v + m)) = m
         /\ \A j \in 1 .. m : SubSeq(x, v + 1, v + m)[j] = x[v + j]
<1>1. Len(x) \in Nat /\ \A i \in 1 .. Len(x) : x[i] \in S
  OBVIOUS
<1> DEFINE y == SubSeq(x, v + 1, v + m)
<1>2. y = [i \in 1 .. m |-> x[v + i]]
  BY <1>1
<1> HIDE DEF y
<1>3. \A i \in 1 .. m : x[v + i] \in S
  BY <1>1
<1>4. y \in Seq(S) /\ Len(y) = m /\ \A j \in 1 .. m : y[j] = x[v + j]
  BY <1>2, <1>3
<1> QED
  BY <1>4 DEF y

\* The quote behind the string ends it, and no quote in it does.
LEMMA EndQuoteIs ==
  ASSUME NEW t \in Writing, NEW v, NEW e, NEW s, NEW b, Spelt(e, s, b), Opens(t, v, e)
  PROVE  /\ \A j \in 1 .. Len(e) : v + j <= Len(t) => ~is_end_quote(t, v + j)
         /\ v + Len(e) + 1 <= Len(t) => is_end_quote(t, v + Len(e) + 1)
<1>1. /\ v \in Nat \ {0} /\ Len(t) \in Nat /\ Len(e) \in Nat /\ Len(s) \in Nat
      /\ \A j \in 1 .. Len(e) : v + j <= Len(t) => t[v + j] = e[j]
  BY DEF Opens, Writing, Spelt
<1>2. \A i \in 0 .. Len(s) : b[i] \in Nat
  BY SpeltRises, Zenon
<1>3. ASSUME NEW j \in 1 .. Len(e), v + j <= Len(t), is_end_quote(t, v + j)
      PROVE  FALSE
  <2>1. t[v + j] = Quote /\ Backslashes(t, v + j) % 2 = 0
    BY <1>3 DEF is_end_quote
  <2>2. e[j] = Quote
    BY <2>1, <1>1, <1>3
  <2>3. PICK k \in 1 .. Len(s) : j = b[k - 1] + 2 /\ e[j - 1] = Bs
    BY <2>2, QuoteIs
  <2>4. k - 1 \in 0 .. Len(s)
    BY <1>1
  <2>5. b[k - 1] \in Nat
    BY <2>4, <1>2
  <2> DEFINE i == b[k - 1]
             p == v + i + 1
             q == p + 1
             le == Len(e)
             lt == Len(t)
  <2>a. i \in Nat /\ j = i + 2 /\ j \in 1 .. le /\ v + j <= lt /\ v \in Nat \ {0} /\ le \in Nat /\ lt \in Nat
    BY <2>3, <2>5, <1>1, <1>3
  <2> HIDE DEF i, le, lt
  <2>b. /\ v + i <= lt /\ v + j = q /\ q \in 1 .. lt + 1 /\ q > 1 /\ q - 1 = p
        /\ j - 1 \in 1 .. le /\ v + (j - 1) = p /\ p <= lt
    BY <2>a
  <2>6. /\ v + i <= Len(t) /\ v + j = q /\ q \in 1 .. Len(t) + 1 /\ q > 1 /\ q - 1 = p
        /\ j - 1 \in 1 .. Len(e) /\ v + (j - 1) = p /\ p <= Len(t)
    BY <2>b DEF le, lt
  <2>7. Backslashes(t, p) \in Nat /\ Backslashes(t, p) % 2 = 0
    BY <2>4, <2>6, EvenBefore DEF i
  <2>8. t[p] = Bs
    <3> HIDE DEF p, q
    <3> QED
      BY <2>3, <2>6, <1>1
  <2> HIDE DEF p, q
  <2>9. Backslashes(t, q) = 1 + Backslashes(t, p)
    <3>1. t[q - 1] = Bs
      BY <2>6, <2>8
    <3>2. Backslashes(t, q) = 1 + Backslashes(t, q - 1)
      BY <2>6, <3>1, CountedIs
    <3> QED
      BY <2>6, <3>2
  <2>10. Backslashes(t, q) % 2 = 0
    BY <2>1, <2>6
  <2> QED
    BY <2>7, <2>9, <2>10
<1>4. ASSUME v + Len(e) + 1 <= Len(t)
      PROVE  is_end_quote(t, v + Len(e) + 1)
  <2>1. Len(s) \in 0 .. Len(s) /\ b[Len(s)] = Len(e) /\ v + Len(e) <= Len(t)
    BY <1>1, <1>4 DEF Spelt
  <2>2. v + b[Len(s)] <= Len(t)
    BY <2>1
  <2>3. Backslashes(t, v + b[Len(s)] + 1) % 2 = 0
    BY <2>1, <2>2, EvenBefore
  <2>4. Backslashes(t, v + Len(e) + 1) % 2 = 0
    BY <2>1, <2>3
  <2>5. t[v + Len(e) + 1] = Quote
    BY <1>4 DEF Opens
  <2> QED
    BY <2>4, <2>5 DEF is_end_quote
<1> QED
  BY <1>3, <1>4

\* r is what comes of n characters of what is written of s, or of all and more.
GivenBack(r, e, s, n) == /\ r \in Writing
                         /\ n >= Len(e) => r = s
                         /\ n = 0 => r = <<>>

\* The place behind the first key, and what is there is looked for.
Behind(t, key, v) == /\ find(t, Str(key) \o <<":">>, 1) \in Nat \ {0}
                     /\ v = find(t, Str(key) \o <<":">>, 1) + Len(key) + 3

\* The value of a key that is a string.
LEMMA StringIs ==
  ASSUME NEW t \in Writing, NEW key \in Writing, NEW v, Behind(t, key, v),
         NEW e, NEW s, NEW b, Spelt(e, s, b), Opens(t, v, e)
  PROVE  GivenBack(json_extract_string(t, key), e, s, Len(t) - v)
<1> DEFINE found == find(t, Str(key) \o <<":">>, 1)
           Ends == {i \in v + 1 .. Len(t) : is_end_quote(t, i)} \cup {Len(t) + 1}
           le == Len(e)
           lt == Len(t)
           m == IF v + le <= lt THEN le ELSE lt - v
<1>1. /\ v \in 1 .. Len(t) /\ v \in Nat /\ Len(t) \in Nat /\ Len(e) \in Nat /\ t[v] = Quote
      /\ \A j \in 1 .. Len(e) : v + j <= Len(t) => t[v + j] = e[j]
  BY DEF Opens, Writing, Spelt
<1>2. skip_ws(t, v) = v
  <2> DEFINE S == {i \in v .. Len(t) : t[i] \notin Blank} \cup {Len(t) + 1}
  <2>1. t[v] \notin Blank
    BY <1>1 DEF Blank, Quote, Nl, Tab, Cr
  <2>2. S \subseteq Nat /\ v \in S /\ \A y \in S : v <= y
    BY <1>1, <2>1
  <2>3. Min(S) = v
    <3> HIDE DEF S
    <3> QED
      BY <2>2, LeastIs
  <2> QED
    BY <2>3 DEF skip_ws
<1>3. find_key_value(t, key) = v
  <2>1. find_key_value(t, key) = IF found = 0 \/ skip_ws(t, found + Len(key) + 3) > Len(t) THEN 0
                                 ELSE skip_ws(t, found + Len(key) + 3)
    BY DEF find_key_value
  <2>2. skip_ws(t, found + Len(key) + 3) = v /\ found # 0
    BY <1>2 DEF Behind
  <2> HIDE DEF found
  <2>3. ~(v > Len(t))
    BY <1>1
  <2> QED
    BY <2>1, <2>2, <2>3
<1>a. v \in 1 .. lt /\ v \in Nat /\ lt \in Nat /\ le \in Nat /\ lt = Len(t) /\ le = Len(e)
  BY <1>1
<1> HIDE DEF lt, le
<1>4. m \in 0 .. le /\ v + m <= lt /\ m \in Nat
  BY <1>a
<1>5. Min(Ends) = v + m + 1
  <2>a. Ends = {i \in v + 1 .. lt : is_end_quote(t, i)} \cup {lt + 1}
    BY <1>a
  <2> HIDE DEF Ends
  <2>1. Ends \subseteq Nat
    BY <2>a, <1>a
  <2>2. \A j \in 1 .. le : v + j <= lt => ~is_end_quote(t, v + j)
    <3>1. \A j \in 1 .. Len(e) : v + j <= Len(t) => ~is_end_quote(t, v + j)
      BY EndQuoteIs
    <3> QED
      BY <3>1, <1>a
  <2>b. v + le + 1 <= lt => is_end_quote(t, v + le + 1)
    <3>1. v + Len(e) + 1 <= Len(t) => is_end_quote(t, v + Len(e) + 1)
      BY EndQuoteIs
    <3> QED
      BY <3>1, <1>a
  <2>3. ASSUME NEW y \in Ends
        PROVE  v + m + 1 <= y
    <3>1. CASE y = lt + 1
      BY <3>1, <1>a, <1>4
    <3>2. CASE y # lt + 1
      <4>1. y \in v + 1 .. lt /\ is_end_quote(t, y) /\ y \in Nat
        BY <3>2, <1>a, <2>a
      <4>2. v + (y - v) = y /\ y - v \in Nat \ {0}
        BY <4>1, <1>a
      <4>3. ~(y - v \in 1 .. le)
        BY <4>1, <4>2, <2>2
      <4> QED
        BY <4>1, <4>2, <4>3, <1>a, <1>4
    <3> QED
      BY <3>1, <3>2
  <2>4. v + m + 1 \in Ends
    <3>1. CASE v + le + 1 <= lt
      <4>1. m = le
        BY <3>1, <1>a
      <4>2. v + le + 1 \in v + 1 .. lt
        BY <3>1, <1>a
      <4> QED
        BY <4>1, <4>2, <3>1, <2>a, <2>b
    <3>2. CASE ~(v + le + 1 <= lt)
      <4>1. v + m + 1 = lt + 1
        BY <3>2, <1>a
      <4> QED
        BY <4>1, <2>a
    <3> QED
      BY <3>1, <3>2
  <2> HIDE DEF m
  <2> QED
    BY <2>1, <2>3, <2>4, LeastIs
<1>6. json_extract_string(t, key) = decode_escape(SubSeq(t, v + 1, Min(Ends) - 1))
  <2>1. v # 0
    BY <1>1
  <2>2. t[v] = Quote
    BY <1>1
  <2> QED
    BY <2>1, <2>2, <1>3 DEF json_extract_string
<1>7. SubSeq(t, v + 1, Min(Ends) - 1) = SubSeq(e, 1, m)
  <2> HIDE DEF Ends
  <2>1. Min(Ends) - 1 = v + m
    BY <1>a, <1>4, <1>5
  <2> HIDE DEF m
  <2> DEFINE x == SubSeq(t, v + 1, v + m)
             y == SubSeq(e, 1, m)
  <2>2. x \in Seq(Char) /\ Len(x) = m /\ \A j \in 1 .. m : x[j] = t[v + j]
    <3>1. t \in Seq(Char) /\ v + m <= Len(t) /\ v \in Nat /\ m \in Nat
      BY <1>a, <1>4 DEF Writing
    <3> HIDE DEF m
    <3> QED
      BY <3>1, CutIs
  <2>3. y \in Seq(Char) /\ Len(y) = m /\ \A j \in 1 .. m : y[j] = e[j]
    <3>1. e \in Seq(Char) /\ m \in 0 .. Len(e)
      BY <1>a, <1>4 DEF Writing, Spelt
    <3> QED
      BY <3>1
  <2>4. \A j \in 1 .. m : t[v + j] = e[j]
    <3>1. \A j \in 1 .. m : j \in 1 .. Len(e) /\ v + j <= Len(t)
      BY <1>a, <1>4
    <3> QED
      BY <3>1, <1>1
  <2> HIDE DEF x, y
  <2>5. x = y
    BY <2>2, <2>3, <2>4
  <2> QED
    BY <2>1, <2>5 DEF x, y
<1>8. json_extract_string(t, key) = decode_escape(SubSeq(e, 1, m))
  BY <1>6, <1>7
<1>9. /\ decode_escape(SubSeq(e, 1, m)) \in Writing
      /\ m = Len(e) => decode_escape(SubSeq(e, 1, m)) = s
      /\ m = 0 => decode_escape(SubSeq(e, 1, m)) = <<>>
  <2> HIDE DEF m
  <2>1. m \in 0 .. Len(e)
    BY <1>a, <1>4
  <2> QED
    BY <2>1, DecodedIs
<1>10. (Len(t) - v >= Len(e) => m = Len(e)) /\ (Len(t) - v = 0 => m = 0)
  <2>1. (lt - v >= le => m = le) /\ (lt - v = 0 => m = 0)
    BY <1>a
  <2> HIDE DEF m
  <2> QED
    BY <2>1, <1>a
<1> QED
  BY <1>8, <1>9, <1>10 DEF GivenBack

\* The value of a key that is not there, or has nothing behind it.
LEMMA NothingIs ==
  ASSUME NEW t \in Writing, NEW key \in Writing,
         \/ find(t, Str(key) \o <<":">>, 1) = 0
         \/ /\ find(t, Str(key) \o <<":">>, 1) \in Nat
            /\ find(t, Str(key) \o <<":">>, 1) + Len(key) + 3 > Len(t)
  PROVE  json_extract_string(t, key) = <<>>
<1> DEFINE found == find(t, Str(key) \o <<":">>, 1)
           v == found + Len(key) + 3
<1>1. find_key_value(t, key) = 0
  <2>1. find_key_value(t, key) = IF found = 0 \/ skip_ws(t, v) > Len(t) THEN 0
                                 ELSE skip_ws(t, v)
    BY DEF find_key_value
  <2>2. CASE found = 0
    BY <2>1, <2>2
  <2>3. CASE v > Len(t) /\ found \in Nat
    <3>1. Len(key) \in Nat /\ Len(t) \in Nat
      BY DEF Writing
    <3> HIDE DEF found
    <3>2. v .. Len(t) = {}
      BY <3>1, <2>3
    <3> HIDE DEF v
    <3>3. {i \in v .. Len(t) : t[i] \notin Blank} \cup {Len(t) + 1} = {Len(t) + 1}
      BY <3>2
    <3>4. Min({Len(t) + 1}) = Len(t) + 1
      BY <3>1, LeastIs
    <3>5. skip_ws(t, v) = Len(t) + 1
      BY <3>3, <3>4 DEF skip_ws
    <3> QED
      BY <2>1, <3>1, <3>5
  <2> QED
    BY <2>2, <2>3
<1> QED
  BY <1>1 DEF json_extract_string

-----------------------------------------------------------------------------
(* The text of a session file.                                             *)

\* The characters the solvers cannot read.
Space == " "
Brace == "{"
EndBrace == "}"
Comma == ","

\* Behind the place i of F, up to the place j, there is a message.
ItemAt(F, i, role, e, j) ==
  /\ F[i + 1] = Space /\ F[i + 2] = Brace
  /\ F[i + 3] = Quote /\ F[i + 4] = "r" /\ F[i + 5] = "ole" /\ F[i + 6] = Quote /\ F[i + 7] = ":"
  /\ F[i + 8] = Quote /\ F[i + 9] = role /\ F[i + 10] = Quote /\ F[i + 11] = Comma
  /\ F[i + 12] = Quote /\ F[i + 13] = "content" /\ F[i + 14] = Quote /\ F[i + 15] = ":"
  /\ F[i + 16] = Quote /\ \A x \in 1 .. Len(e) : F[i + 16 + x] = e[x]
  /\ F[i + 17 + Len(e)] = Quote /\ F[i + 18 + Len(e)] = EndBrace
  /\ \/ j = i + 19 + Len(e) /\ F[j] = Nl
     \/ j = i + 20 + Len(e) /\ F[j - 1] = Comma /\ F[j] = Nl

ItemText(role, e, sep) ==
  (<<Space, Brace>> \o Field(Role, <<role>>) \o <<Comma>> \o Field(<<"content">>, e) \o <<EndBrace>>)
    \o sep \o <<Nl>>

\* x, y and z stand in w one behind the other.
Triple(w, x, y, z) ==
  /\ Len(w) = Len(x) + Len(y) + Len(z)
  /\ \A j \in 1 .. Len(x) : w[j] = x[j]
  /\ \A j \in 1 .. Len(y) : w[Len(x) + j] = y[j]
  /\ \A j \in 1 .. Len(z) : w[Len(x) + Len(y) + j] = z[j]

\* Three texts put together.
LEMMA TripleIs ==
  ASSUME NEW S, NEW x \in Seq(S), NEW y \in Seq(S), NEW z \in Seq(S)
  PROVE  x \o y \o z \in Seq(S) /\ Triple(x \o y \o z, x, y, z)
<1> DEFINE u == x \o y
           w == u \o z
           lx == Len(x)
           ly == Len(y)
<1>1. /\ u \in Seq(S) /\ lx \in Nat /\ ly \in Nat /\ Len(u) = lx + ly
      /\ \A j \in 1 .. lx : u[j] = x[j]
      /\ \A j \in 1 .. ly : u[lx + j] = y[j]
  BY ConcatIs
<1> HIDE DEF u
<1>a. u \in Seq(S)
  BY <1>1
<1>2. /\ w \in Seq(S) /\ Len(z) \in Nat /\ Len(w) = Len(u) + Len(z)
      /\ \A j \in 1 .. Len(u) : w[j] = u[j]
      /\ \A j \in 1 .. Len(z) : w[Len(u) + j] = z[j]
  BY <1>a
<1> HIDE DEF w, lx, ly
<1>3. /\ \A j \in 1 .. lx : j \in 1 .. lx + ly
      /\ \A j \in 1 .. ly : lx + j \in 1 .. lx + ly
  BY <1>1
<1>4. /\ \A j \in 1 .. lx : w[j] = x[j]
      /\ \A j \in 1 .. ly : w[lx + j] = y[j]
  BY <1>1, <1>2, <1>3
<1>5. Triple(w, x, y, z)
  BY <1>1, <1>2, <1>4 DEF Triple, lx, ly
<1> QED
  BY <1>2, <1>5 DEF w, u

\* The text of one message is where its pieces are put.
LEMMA ItemIs ==
  ASSUME NEW role \in Char, NEW e \in Writing, NEW sep \in {<<>>, <<Comma>>}
  PROVE  /\ ItemText(role, e, sep) \in Seq(Char)
         /\ \A F : \A i, j \in Nat :
              /\ j = i + Len(ItemText(role, e, sep))
              /\ \A x \in 1 .. Len(ItemText(role, e, sep)) : F[i + x] = ItemText(role, e, sep)[x]
              => ItemAt(F, i, role, e, j)
<1> DEFINE f == Field(Role, <<role>>)
           g == Field(<<"content">>, e)
           it == ItemText(role, e, sep)
           le == Len(e)
<1>1. /\ Quote \in Char /\ "r" \in Char /\ "ole" \in Char /\ "content" \in Char /\ ":" \in Char
      /\ Space \in Char /\ Brace \in Char /\ EndBrace \in Char /\ Comma \in Char /\ Nl \in Char
  BY Zenon DEF Char, Space, Brace, EndBrace, Comma
<1>2. e \in Seq(Char) /\ le \in Nat /\ Len(e) = le
  BY DEF Writing
<1> HIDE DEF le
<1>3. /\ f \in Seq(Char) /\ Len(f) = 8
      /\ f[1] = Quote /\ f[2] = "r" /\ f[3] = "ole" /\ f[4] = Quote /\ f[5] = ":" /\ f[6] = Quote
      /\ f[7] = role /\ f[8] = Quote
  BY <1>1 DEF Field, Str, Role
<1>4. /\ g \in Seq(Char) /\ Len(g) = 6 + le
      /\ g[1] = Quote /\ g[2] = "content" /\ g[3] = Quote /\ g[4] = ":" /\ g[5] = Quote
      /\ \A x \in 1 .. le : g[5 + x] = e[x]
      /\ g[6 + le] = Quote
  BY <1>1, <1>2 DEF Field, Str
<1>5. it = (<<Space, Brace>> \o f \o <<Comma>> \o g \o <<EndBrace>>) \o sep \o <<Nl>>
  BY DEF ItemText
<1> HIDE DEF f, g, it
<1>6. sep \in Seq(Char) /\ ((sep = <<>> /\ Len(sep) = 0) \/ (Len(sep) = 1 /\ sep[1] = Comma))
  <2>1. CASE sep = <<>>
    <3>1. <<>> \in Seq(Char) /\ Len(<<>>) = 0
      OBVIOUS
    <3> QED
      BY <2>1, <3>1, Zenon
  <2>2. CASE sep = <<Comma>>
    <3> DEFINE x == <<Comma>>
    <3>1. x \in Seq(Char) /\ Len(x) = 1 /\ x[1] = Comma
      BY <1>1
    <3> HIDE DEF x
    <3>2. sep = x
      BY <2>2 DEF x
    <3> QED
      BY <3>1, <3>2, Zenon
  <2> QED
    BY <2>1, <2>2
<1>7. it \in Seq(Char)
  BY <1>1, <1>3, <1>4, <1>5, <1>6
<1> DEFINE a == <<Space, Brace>> \o f \o <<Comma>>
           c == a \o g \o <<EndBrace>>
<1>8. /\ a \in Seq(Char) /\ Len(a) = 11 /\ a[1] = Space /\ a[2] = Brace /\ a[11] = Comma
      /\ \A x \in 1 .. 8 : a[2 + x] = f[x]
  <2> DEFINE x == <<Space, Brace>>
             z == <<Comma>>
  <2>1. /\ x \in Seq(Char) /\ Len(x) = 2 /\ x[1] = Space /\ x[2] = Brace
        /\ z \in Seq(Char) /\ Len(z) = 1 /\ z[1] = Comma
    BY <1>1
  <2>2. a = x \o f \o z
    OBVIOUS
  <2> HIDE DEF x, z, a
  <2>3. a \in Seq(Char) /\ Triple(a, x, f, z)
    BY <2>1, <2>2, <1>3, TripleIs
  <2> QED
    BY <2>1, <2>3, <1>3 DEF Triple
<1> HIDE DEF a
<1>9. /\ c \in Seq(Char) /\ Len(c) = 18 + le
      /\ \A x \in 1 .. 11 : c[x] = a[x]
      /\ \A x \in 1 .. 6 + le : c[11 + x] = g[x]
      /\ c[18 + le] = EndBrace
  <2> DEFINE z == <<EndBrace>>
  <2>1. z \in Seq(Char) /\ Len(z) = 1 /\ z[1] = EndBrace
    BY <1>1
  <2>2. c = a \o g \o z
    OBVIOUS
  <2> HIDE DEF z, c
  <2>3. c \in Seq(Char) /\ Triple(c, a, g, z)
    BY <2>1, <2>2, <1>4, <1>8, TripleIs
  <2> QED
    BY <2>1, <2>3, <1>2, <1>4, <1>8 DEF Triple
<1>10. it = c \o sep \o <<Nl>>
  BY <1>5 DEF a
<1> HIDE DEF c
<1>11. /\ \A x \in 1 .. 18 + le : it[x] = c[x]
       /\ \/ Len(it) = 19 + le /\ it[19 + le] = Nl
          \/ Len(it) = 20 + le /\ it[19 + le] = Comma /\ it[20 + le] = Nl
  <2> DEFINE z == <<Nl>>
  <2>1. z \in Seq(Char) /\ Len(z) = 1 /\ z[1] = Nl
    BY <1>1
  <2>2. it = c \o sep \o z
    BY <1>10
  <2> HIDE DEF z
  <2>3. Triple(it, c, sep, z)
    BY <2>1, <2>2, <1>6, <1>9, TripleIs
  <2>4. CASE sep = <<>> /\ Len(sep) = 0
    BY <2>1, <2>3, <2>4, <1>2, <1>9 DEF Triple
  <2>5. CASE Len(sep) = 1 /\ sep[1] = Comma
    BY <2>1, <2>3, <2>5, <1>2, <1>9 DEF Triple
  <2> QED
    BY <2>4, <2>5, <1>6
<1>12. /\ it[1] = Space /\ it[2] = Brace /\ it[11] = Comma
       /\ \A x \in 1 .. 8 : it[2 + x] = f[x]
       /\ \A x \in 1 .. 6 + le : it[11 + x] = g[x]
       /\ it[18 + le] = EndBrace
  <2>1. \A x \in 1 .. 11 : x \in 1 .. 18 + le
    BY <1>2
  <2>2. \A x \in 1 .. 11 : it[x] = a[x]
    BY <2>1, <1>9, <1>11
  <2>3. \A x \in 1 .. 6 + le : 11 + x \in 1 .. 18 + le
    BY <1>2
  <2>4. \A x \in 1 .. 6 + le : it[11 + x] = g[x]
    BY <2>3, <1>9, <1>11
  <2>5. 18 + le \in 1 .. 18 + le
    BY <1>2
  <2>6. it[18 + le] = EndBrace
    BY <2>5, <1>9, <1>11
  <2>7. \A x \in 1 .. 8 : it[2 + x] = f[x]
    BY <2>2, <1>8
  <2> QED
    BY <2>2, <2>4, <2>6, <2>7, <1>8
<1>13. \A x \in 1 .. le : it[16 + x] = e[x]
  <2> SUFFICES ASSUME NEW x \in 1 .. le
               PROVE  it[16 + x] = e[x]
    OBVIOUS
  <2>1. 5 + x \in 1 .. 6 + le /\ 11 + (5 + x) = 16 + x
    BY <1>2
  <2> QED
    BY <2>1, <1>4, <1>12
<1>14. it[17 + le] = Quote
  <2>1. 6 + le \in 1 .. 6 + le /\ 11 + (6 + le) = 17 + le
    BY <1>2
  <2> QED
    BY <2>1, <1>4, <1>12
<1>15. /\ it[3] = Quote /\ it[4] = "r" /\ it[5] = "ole" /\ it[6] = Quote /\ it[7] = ":"
       /\ it[8] = Quote /\ it[9] = role /\ it[10] = Quote
  BY <1>3, <1>12
<1>16. /\ it[12] = Quote /\ it[13] = "content" /\ it[14] = Quote /\ it[15] = ":" /\ it[16] = Quote
  <2>1. \A x \in 1 .. 5 : x \in 1 .. 6 + le
    BY <1>2
  <2>2. \A x \in 1 .. 5 : it[11 + x] = g[x]
    BY <2>1, <1>12
  <2> QED
    BY <2>2, <1>4
<1>17. ASSUME NEW F, NEW i \in Nat, NEW j \in Nat, j = i + Len(it),
              \A x \in 1 .. Len(it) : F[i + x] = it[x]
       PROVE  ItemAt(F, i, role, e, j)
  <2> DEFINE li == Len(it)
  <2>1. (li = 19 + le /\ it[19 + le] = Nl) \/ (li = 20 + le /\ it[19 + le] = Comma /\ it[20 + le] = Nl)
    BY <1>11
  <2>2. j = i + li /\ \A x \in 1 .. li : F[i + x] = it[x]
    BY <1>17
  <2> HIDE DEF li
  <2>3. li \in Nat /\ \A x \in 1 .. 16 : x \in 1 .. li
    BY <2>1, <1>2
  <2>4. \A x \in 1 .. 16 : F[i + x] = it[x]
    BY <2>2, <2>3
  <2>5. ASSUME NEW x \in 1 .. le
        PROVE  F[i + 16 + x] = e[x]
    <3>1. 16 + x \in 1 .. li /\ i + (16 + x) = i + 16 + x
      BY <2>1, <1>2
    <3>2. F[i + (16 + x)] = it[16 + x]
      BY <3>1, <2>2
    <3> QED
      BY <3>1, <3>2, <1>13
  <2>6. F[i + 17 + le] = Quote /\ F[i + 18 + le] = EndBrace
    <3>1. 17 + le \in 1 .. li /\ 18 + le \in 1 .. li
          /\ i + (17 + le) = i + 17 + le /\ i + (18 + le) = i + 18 + le
      BY <2>1, <1>2
    <3>2. F[i + (17 + le)] = it[17 + le] /\ F[i + (18 + le)] = it[18 + le]
      BY <3>1, <2>2
    <3> QED
      BY <3>1, <3>2, <1>12, <1>14
  <2>7. \/ j = i + 19 + le /\ F[j] = Nl
        \/ j = i + 20 + le /\ F[j - 1] = Comma /\ F[j] = Nl
    <3>1. CASE li = 19 + le /\ it[19 + le] = Nl
      <4>1. 19 + le \in 1 .. li /\ j = i + (19 + le) /\ j = i + 19 + le
        BY <3>1, <2>2, <1>2
      <4>2. F[i + (19 + le)] = it[19 + le]
        BY <4>1, <2>2
      <4> QED
        BY <3>1, <4>1, <4>2
    <3>2. CASE li = 20 + le /\ it[19 + le] = Comma /\ it[20 + le] = Nl
      <4>1. /\ 19 + le \in 1 .. li /\ 20 + le \in 1 .. li /\ j = i + (20 + le) /\ j = i + 20 + le
            /\ j - 1 = i + (19 + le)
        BY <3>2, <2>2, <1>2
      <4>2. F[i + (19 + le)] = it[19 + le] /\ F[i + (20 + le)] = it[20 + le]
        BY <4>1, <2>2
      <4> QED
        BY <3>2, <4>1, <4>2
    <3> QED
      BY <3>1, <3>2, <2>1
  <2>8. /\ F[i + 1] = Space /\ F[i + 2] = Brace
        /\ F[i + 3] = Quote /\ F[i + 4] = "r" /\ F[i + 5] = "ole" /\ F[i + 6] = Quote /\ F[i + 7] = ":"
        /\ F[i + 8] = Quote /\ F[i + 9] = role /\ F[i + 10] = Quote /\ F[i + 11] = Comma
        /\ F[i + 12] = Quote /\ F[i + 13] = "content" /\ F[i + 14] = Quote /\ F[i + 15] = ":"
        /\ F[i + 16] = Quote
    <3>1. /\ F[i + 1] = it[1] /\ F[i + 2] = it[2] /\ F[i + 3] = it[3] /\ F[i + 4] = it[4]
          /\ F[i + 5] = it[5] /\ F[i + 6] = it[6] /\ F[i + 7] = it[7] /\ F[i + 8] = it[8]
          /\ F[i + 9] = it[9] /\ F[i + 10] = it[10] /\ F[i + 11] = it[11] /\ F[i + 12] = it[12]
          /\ F[i + 13] = it[13] /\ F[i + 14] = it[14] /\ F[i + 15] = it[15] /\ F[i + 16] = it[16]
      BY <2>4
    <3>2. it[1] = Space /\ it[2] = Brace /\ it[11] = Comma
      BY <1>12
    <3> QED
      BY <3>1, <3>2, <1>15, <1>16, Zenon
  <2> QED
    BY <2>5, <2>6, <2>7, <2>8, <1>2, Zenon DEF ItemAt
<1> QED
  BY <1>7, <1>17 DEF it

\* What can be said, loaded and saved.
Saying == [role : {<<"user">>, <<"assistant">>}, content : Writing]
Speaker(m) == m.role[1]
Spelling(m) == escape_json(m.content)

\* F is written of msgs; before the message k there are q[k - 1] characters.
Filed(F, msgs, q) ==
  /\ F \in Writing /\ q \in [0 .. Len(msgs) -> Nat] /\ q[0] = 2 /\ Len(F) = q[Len(msgs)] + 2
  /\ F[1] = "[" /\ F[2] = Nl /\ F[q[Len(msgs)] + 1] = "]" /\ F[q[Len(msgs)] + 2] = Nl
  /\ \A k \in 1 .. Len(msgs) : ItemAt(F, q[k - 1], Speaker(msgs[k]), Spelling(msgs[k]), q[k])

ItemBody(m) ==
  <<" ", "{">> \o Field(Role, m.role) \o <<",">> \o Field(<<"content">>, escape_json(m.content)) \o <<"}">>

Between(k, n) == IF k < n THEN <<",">> ELSE <<>>

\* What a message is made of, and how its content is written.
LEMMA SayingIs ==
  ASSUME NEW m \in Saying
  PROVE  /\ m.role = <<Speaker(m)>> /\ Speaker(m) \in {"user", "assistant"} /\ Speaker(m) \in Char
         /\ m.content \in Writing /\ Spelling(m) \in Writing
         /\ \E b : Spelt(Spelling(m), m.content, b)
<1>1. m.role \in {<<"user">>, <<"assistant">>} /\ m.content \in Writing
  BY DEF Saying
<1>2. m.role = <<Speaker(m)>> /\ Speaker(m) \in {"user", "assistant"}
  BY <1>1 DEF Speaker
<1>3. "user" \in Char /\ "assistant" \in Char
  BY Zenon DEF Char
<1>4. Spelling(m) \in Writing /\ \E b : Spelt(Spelling(m), m.content, b)
  BY <1>1, EscapeSpelt DEF Spelling
<1> QED
  BY <1>1, <1>2, <1>3, <1>4

\* save_session writes the messages one behind the other.
LEMMA FileIs ==
  ASSUME NEW msgs \in Seq(Saying)
  PROVE  \E q : Filed(save_session(msgs), msgs, q)
<1> DEFINE n == Len(msgs)
           items == [i \in DOMAIN msgs |-> ItemBody(msgs[i])]
           ps == [i \in DOMAIN items |-> items[i] \o Between(i, Len(items)) \o <<Nl>>]
           L == FlattenSeq(ps)
           h == <<"[", Nl>>
           z == <<"]", Nl>>
           F == h \o L \o z
           One(k) == ItemText(Speaker(msgs[k]), Spelling(msgs[k]), Between(k, n))
<1>1. n \in Nat /\ DOMAIN msgs = 1 .. n /\ \A k \in 1 .. n : msgs[k] \in Saying
  OBVIOUS
<1>2. save_session(msgs) = F
  BY Zenon DEF save_session, Listed, ItemBody, Between
<1>3. DOMAIN items = 1 .. n /\ Len(items) = n /\ \A k \in 1 .. n : items[k] = ItemBody(msgs[k])
  BY <1>1
<1>4. ASSUME NEW k \in 1 .. n
      PROVE  Between(k, n) \in {<<>>, <<Comma>>}
  BY Zenon DEF Between, Comma
<1>5. ASSUME NEW k \in 1 .. n
      PROVE  items[k] \o Between(k, n) \o <<Nl>> = One(k)
  <2>1. msgs[k].role = <<Speaker(msgs[k])>>
    BY <1>1, SayingIs
  <2>2. items[k] = ItemBody(msgs[k])
    BY <1>3
  <2> HIDE DEF items
  <2> QED
    BY <2>1, <2>2, Zenon DEF ItemBody, ItemText, Spelling, Space, Brace, EndBrace, Comma
<1> HIDE DEF items
<1>6. ps = [k \in 1 .. n |-> One(k)]
  <2> HIDE DEF One
  <2> QED
    BY <1>3, <1>5
<1> HIDE DEF ps
<1>7. ASSUME NEW k \in 1 .. n
      PROVE  /\ One(k) \in Seq(Char)
             /\ \A G : \A i, j \in Nat :
                  /\ j = i + Len(One(k))
                  /\ \A x \in 1 .. Len(One(k)) : G[i + x] = One(k)[x]
                  => ItemAt(G, i, Speaker(msgs[k]), Spelling(msgs[k]), j)
  <2>1. Speaker(msgs[k]) \in Char /\ Spelling(msgs[k]) \in Writing
    BY <1>1, SayingIs
  <2> QED
    BY <2>1, <1>4, ItemIs
<1> HIDE DEF One
<1>8. ps \in Seq(Seq(Char)) /\ Len(ps) = n /\ \A k \in 1 .. n : ps[k] = One(k)
  BY <1>1, <1>6, <1>7
<1>9. L \in Seq(Char)
  BY <1>8, FlattenLaid
<1>10. PICK b : Laid(L, ps, b)
  BY <1>8, FlattenLaid
<1> HIDE DEF L
<1>11. /\ b \in [0 .. n -> Nat] /\ b[0] = 0 /\ b[n] = Len(L)
       /\ \A k \in 1 .. n : b[k] = b[k - 1] + Len(One(k)) /\ \A j \in 1 .. Len(One(k)) : L[b[k - 1] + j] = One(k)[j]
  <2>1. /\ b \in [0 .. n -> Nat] /\ b[0] = 0 /\ b[n] = Len(L)
        /\ \A k \in 1 .. n : b[k] = b[k - 1] + Len(ps[k]) /\ \A j \in 1 .. Len(ps[k]) : L[b[k - 1] + j] = ps[k][j]
    BY <1>8, <1>10, Zenon DEF Laid
  <2>2. ASSUME NEW k \in 1 .. n
        PROVE  b[k] = b[k - 1] + Len(One(k)) /\ \A j \in 1 .. Len(One(k)) : L[b[k - 1] + j] = One(k)[j]
    <3>1. ps[k] = One(k)
      BY <1>8
    <3>2. b[k] = b[k - 1] + Len(ps[k]) /\ \A j \in 1 .. Len(ps[k]) : L[b[k - 1] + j] = ps[k][j]
      BY <2>1
    <3> QED
      BY <3>1, <3>2, Zenon
  <2> QED
    BY <2>1, <2>2
<1>12. /\ h \in Seq(Char) /\ Len(h) = 2 /\ h[1] = "[" /\ h[2] = Nl
       /\ z \in Seq(Char) /\ Len(z) = 2 /\ z[1] = "]" /\ z[2] = Nl
  <2>1. "[" \in Char /\ "]" \in Char /\ Nl \in Char
    BY Zenon DEF Char
  <2> QED
    BY <2>1
<1> HIDE DEF h, z
<1>13. F \in Seq(Char) /\ Triple(F, h, L, z)
  BY <1>9, <1>12, TripleIs
<1> HIDE DEF F
<1> DEFINE ll == Len(L)
           q == [k \in 0 .. n |-> b[k] + 2]
<1>14. /\ ll \in Nat /\ Len(F) = 2 + ll + 2 /\ F[1] = "[" /\ F[2] = Nl
       /\ F[2 + ll + 1] = "]" /\ F[2 + ll + 2] = Nl
       /\ \A j \in 1 .. ll : F[2 + j] = L[j]
  BY <1>9, <1>12, <1>13 DEF Triple
<1>15. b[n] = ll
  BY <1>11
<1> HIDE DEF ll
<1>16. \A k \in 0 .. n : b[k] \in Nat /\ b[k] <= ll
  <2>1. \A k \in 1 .. Len(ps) : Len(ps[k]) \in Nat
    BY <1>7, <1>8
  <2>2. Len(ps) \in Nat
    BY <1>1, <1>8
  <2>3. /\ \A k \in 0 .. Len(ps) : b[k] \in Nat
        /\ \A i, k \in 0 .. Len(ps) : i <= k => b[i] <= b[k]
    BY <1>10, <2>1, <2>2, LaidRises
  <2>4. \A k \in 0 .. n : k <= n /\ n \in 0 .. n
    BY <1>1
  <2> QED
    BY <2>3, <2>4, <1>8, <1>15
<1>17. q \in [0 .. n -> Nat] /\ \A k \in 0 .. n : q[k] = b[k] + 2
  BY <1>16
<1> HIDE DEF q
<1>18. ASSUME NEW k \in 1 .. n
       PROVE  ItemAt(F, q[k - 1], Speaker(msgs[k]), Spelling(msgs[k]), q[k])
  <2> DEFINE i == b[k - 1]
             lo == Len(One(k))
  <2>1. k \in 0 .. n /\ k - 1 \in 0 .. n
    BY <1>1
  <2>2. q[k - 1] = i + 2 /\ q[k] = b[k] + 2 /\ i \in Nat /\ b[k] \in Nat /\ b[k] <= ll
    BY <2>1, <1>16, <1>17
  <2>3. b[k] = i + lo /\ lo \in Nat /\ \A j \in 1 .. lo : L[i + j] = One(k)[j]
    BY <1>7, <1>11
  <2> HIDE DEF i, lo
  <2>4. \A j \in 1 .. lo : F[i + 2 + j] = One(k)[j]
    <3> SUFFICES ASSUME NEW j \in 1 .. lo
                 PROVE  F[i + 2 + j] = One(k)[j]
      OBVIOUS
    <3>1. i + j \in 1 .. ll /\ 2 + (i + j) = i + 2 + j
      BY <2>2, <2>3, <1>14
    <3>2. F[2 + (i + j)] = L[i + j]
      BY <3>1, <1>14
    <3> QED
      BY <3>1, <3>2, <2>3
  <2>5. i + 2 \in Nat /\ q[k] \in Nat /\ q[k] = (i + 2) + lo
    BY <2>2, <2>3
  <2>6. ItemAt(F, i + 2, Speaker(msgs[k]), Spelling(msgs[k]), q[k])
    BY <2>4, <2>5, <1>7 DEF lo
  <2> QED
    BY <2>2, <2>6
<1>19. Filed(F, msgs, q)
  <2>1. q[0] = 2 /\ q[n] = 2 + ll /\ n \in 0 .. n /\ q[n] \in Nat
    <3>1. 0 \in 0 .. n /\ n \in 0 .. n
      BY <1>1
    <3>2. b[0] = 0
      BY <1>11
    <3> HIDE DEF n
    <3> QED
      BY <3>1, <3>2, <1>14, <1>15, <1>17
  <2>2. Len(F) = q[n] + 2 /\ F[q[n] + 1] = "]" /\ F[q[n] + 2] = Nl
    BY <2>1, <1>14
  <2> QED
    BY <2>1, <2>2, <1>13, <1>14, <1>17, <1>18 DEF Filed, Writing
<1> QED
  BY <1>2, <1>19

-----------------------------------------------------------------------------
(* The keys in the text of a session file.                                 *)

\* Characters that are not one another.
LEMMA Apart ==
  /\ \A c \in {"r", "ole", "content", ":", "[", "]", "user", "assistant", "u", "0001",
               Nl, Comma, EndBrace, Brace, Space, Bs} : c # Quote
  /\ \A c \in {"r", "content", ":", "ole"} : c # EndBrace /\ c # Bs
<1>1. \A c \in {"r", "ole", "content", ":", "[", "]", "user", "assistant", "u", "0001",
                Nl, Comma, EndBrace, Brace, Space, Bs} : c # Quote
  BY Zenon DEF Nl, Comma, EndBrace, Brace, Space, Bs, Quote
<1>2. \A c \in {"r", "content", ":", "ole"} : c # EndBrace /\ c # Bs
  BY Zenon DEF EndBrace, Bs
<1> QED
  BY <1>1, <1>2

\* Words with a quote at both ends, and a colon.
RoleAt(t, i) == t[i] = Quote /\ t[i + 1] = "r" /\ t[i + 2] = "ole" /\ t[i + 3] = Quote
ContentAt(t, i) == t[i] = Quote /\ t[i + 1] = "content" /\ t[i + 2] = Quote /\ t[i + 3] = ":"

\* Where the words stand that are looked for.
LEMMA WordsAre ==
  /\ Role \in Writing /\ <<"content">> \in Writing /\ Len(Role) = 2 /\ Len(<<"content">>) = 1
  /\ Str(Role) \in Writing /\ Str(Role) # <<>> /\ Len(Str(Role)) = 4
  /\ Str(Role) \o <<":">> \in Writing /\ Str(Role) \o <<":">> # <<>> /\ Len(Str(Role) \o <<":">>) = 5
  /\ Str(<<"content">>) \o <<":">> \in Writing /\ Str(<<"content">>) \o <<":">> # <<>>
  /\ Len(Str(<<"content">>) \o <<":">>) = 4
  /\ \A t, i : Len(t) \in Nat => (Stands(t, Str(Role), i) <=> i \in 1 .. Len(t) - 3 /\ RoleAt(t, i))
  /\ \A t, i : Len(t) \in Nat =>
       (Stands(t, Str(Role) \o <<":">>, i) <=> i \in 1 .. Len(t) - 4 /\ RoleAt(t, i) /\ t[i + 4] = ":")
  /\ \A t, i : Len(t) \in Nat =>
       (Stands(t, Str(<<"content">>) \o <<":">>, i) <=> i \in 1 .. Len(t) - 3 /\ ContentAt(t, i))
<1> DEFINE w == Str(Role)
           x == w \o <<":">>
           y == Str(<<"content">>) \o <<":">>
<1>1. Quote \in Char /\ "r" \in Char /\ "ole" \in Char /\ "content" \in Char /\ ":" \in Char
  BY Zenon DEF Char
<1>2. /\ w \in Seq(Char) /\ Len(w) = 4
      /\ w[1] = Quote /\ w[2] = "r" /\ w[3] = "ole" /\ w[4] = Quote
  BY <1>1 DEF Str, Role
<1>3. /\ y \in Seq(Char) /\ Len(y) = 4
      /\ y[1] = Quote /\ y[2] = "content" /\ y[3] = Quote /\ y[4] = ":"
  BY <1>1 DEF Str
<1>4. Role \in Seq(Char) /\ <<"content">> \in Seq(Char) /\ Len(Role) = 2 /\ Len(<<"content">>) = 1
  BY <1>1 DEF Role
<1> HIDE DEF w
<1>5. /\ x \in Seq(Char) /\ Len(x) = 5
      /\ x[1] = Quote /\ x[2] = "r" /\ x[3] = "ole" /\ x[4] = Quote /\ x[5] = ":"
  <2> DEFINE c == <<":">>
  <2>1. c \in Seq(Char) /\ Len(c) = 1 /\ c[1] = ":"
    BY <1>1
  <2>2. x = w \o c
    OBVIOUS
  <2> HIDE DEF c, x
  <2>3. /\ x \in Seq(Char) /\ Len(x) = Len(w) + Len(c)
        /\ \A j \in 1 .. Len(w) : x[j] = w[j]
        /\ \A j \in 1 .. Len(c) : x[Len(w) + j] = c[j]
    <3>1. w \in Seq(Char) /\ c \in Seq(Char)
      BY <2>1, <1>2
    <3> QED
      BY <2>2, <3>1, ConcatIs
  <2>4. Len(x) = 5 /\ x[1] = w[1] /\ x[2] = w[2] /\ x[3] = w[3] /\ x[4] = w[4] /\ x[5] = c[1]
    <3>1. Len(x) = 4 + 1 /\ (\A j \in 1 .. 4 : x[j] = w[j]) /\ \A j \in 1 .. 1 : x[4 + j] = c[j]
      BY <2>1, <2>3, <1>2, Zenon
    <3>2. 4 + 1 = 5 /\ 1 \in 1 .. 1 /\ 1 \in 1 .. 4 /\ 2 \in 1 .. 4 /\ 3 \in 1 .. 4 /\ 4 \in 1 .. 4
      OBVIOUS
    <3> QED
      BY <3>1, <3>2, Zenon
  <2> QED
    BY <2>1, <2>3, <2>4, <1>2, Zenon
<1> HIDE DEF x, y
<1>6. w # <<>> /\ x # <<>> /\ y # <<>>
  BY <1>2, <1>3, <1>5
<1>7. ASSUME NEW t, NEW i, Len(t) \in Nat
      PROVE  Stands(t, w, i) <=> i \in 1 .. Len(t) - 3 /\ RoleAt(t, i)
  <2>1. Len(t) - Len(w) + 1 = Len(t) - 3
    BY <1>2, <1>7
  <2>2. ASSUME NEW k \in 1 .. Len(t) - 3
        PROVE  (\A j \in 1 .. Len(w) : t[k + j - 1] = w[j]) <=> RoleAt(t, k)
    <3>1. /\ \A j \in 1 .. 4 : j = 1 \/ j = 2 \/ j = 3 \/ j = 4
          /\ k + 1 - 1 = k /\ k + 2 - 1 = k + 1 /\ k + 3 - 1 = k + 2 /\ k + 4 - 1 = k + 3
          /\ 1 \in 1 .. 4 /\ 2 \in 1 .. 4 /\ 3 \in 1 .. 4 /\ 4 \in 1 .. 4
      OBVIOUS
    <3> QED
      BY <3>1, <1>2, Zenon DEF RoleAt
  <2> QED
    BY <2>1, <2>2, Zenon DEF Stands
<1>8. ASSUME NEW t, NEW i, Len(t) \in Nat
      PROVE  Stands(t, x, i) <=> i \in 1 .. Len(t) - 4 /\ RoleAt(t, i) /\ t[i + 4] = ":"
  <2>1. Len(t) - Len(x) + 1 = Len(t) - 4
    BY <1>5, <1>8
  <2>2. ASSUME NEW k \in 1 .. Len(t) - 4
        PROVE  (\A j \in 1 .. Len(x) : t[k + j - 1] = x[j]) <=> RoleAt(t, k) /\ t[k + 4] = ":"
    <3>1. /\ \A j \in 1 .. 5 : j = 1 \/ j = 2 \/ j = 3 \/ j = 4 \/ j = 5
          /\ k + 1 - 1 = k /\ k + 2 - 1 = k + 1 /\ k + 3 - 1 = k + 2 /\ k + 4 - 1 = k + 3
          /\ k + 5 - 1 = k + 4
          /\ 1 \in 1 .. 5 /\ 2 \in 1 .. 5 /\ 3 \in 1 .. 5 /\ 4 \in 1 .. 5 /\ 5 \in 1 .. 5
      OBVIOUS
    <3> QED
      BY <3>1, <1>5, Zenon DEF RoleAt
  <2> QED
    BY <2>1, <2>2, Zenon DEF Stands
<1>9. ASSUME NEW t, NEW i, Len(t) \in Nat
      PROVE  Stands(t, y, i) <=> i \in 1 .. Len(t) - 3 /\ ContentAt(t, i)
  <2>1. Len(t) - Len(y) + 1 = Len(t) - 3
    BY <1>3, <1>9
  <2>2. ASSUME NEW k \in 1 .. Len(t) - 3
        PROVE  (\A j \in 1 .. Len(y) : t[k + j - 1] = y[j]) <=> ContentAt(t, k)
    <3>1. /\ \A j \in 1 .. 4 : j = 1 \/ j = 2 \/ j = 3 \/ j = 4
          /\ k + 1 - 1 = k /\ k + 2 - 1 = k + 1 /\ k + 3 - 1 = k + 2 /\ k + 4 - 1 = k + 3
          /\ 1 \in 1 .. 4 /\ 2 \in 1 .. 4 /\ 3 \in 1 .. 4 /\ 4 \in 1 .. 4
      OBVIOUS
    <3> QED
      BY <3>1, <1>3, Zenon DEF ContentAt
  <2> QED
    BY <2>1, <2>2, Zenon DEF Stands
<1>10. /\ \A t, i : Len(t) \in Nat => (Stands(t, w, i) <=> i \in 1 .. Len(t) - 3 /\ RoleAt(t, i))
       /\ \A t, i : Len(t) \in Nat => (Stands(t, x, i) <=> i \in 1 .. Len(t) - 4 /\ RoleAt(t, i) /\ t[i + 4] = ":")
       /\ \A t, i : Len(t) \in Nat => (Stands(t, y, i) <=> i \in 1 .. Len(t) - 3 /\ ContentAt(t, i))
  BY <1>7, <1>8, <1>9
<1> QED
  BY <1>2, <1>3, <1>4, <1>5, <1>6, <1>10 DEF w, x, y, Writing

\* The end of the string e looks like a key.
Misread(e) == /\ Len(e) >= 2 /\ e[Len(e) - 1] = "r" /\ e[Len(e)] = "ole"
              /\ Len(e) > 2 => e[Len(e) - 2] = Quote

\* The words in a message: a quote in its content has a backslash before it.
LEMMA ItemWords ==
  ASSUME NEW F, NEW i \in Nat, NEW j \in Nat, NEW role \in {"user", "assistant"}, NEW e \in Writing,
         ItemAt(F, i, role, e, j),
         \A x \in 1 .. Len(e) : e[x] = Quote => x > 1 /\ e[x - 1] = Bs,
         NEW p \in i + 1 .. j
  PROVE  /\ RoleAt(F, p) => p = i + 3 \/ (Misread(e) /\ F[p + 4] = EndBrace)
         /\ ContentAt(F, p) => p = i + 12
<1> DEFINE le == Len(e)
<1>1. le \in Nat /\ p \in Nat
  BY DEF Writing
<1>2. /\ F[i + 1] = Space /\ F[i + 2] = Brace
      /\ F[i + 3] = Quote /\ F[i + 4] = "r" /\ F[i + 5] = "ole" /\ F[i + 6] = Quote /\ F[i + 7] = ":"
      /\ F[i + 8] = Quote /\ F[i + 9] = role /\ F[i + 10] = Quote /\ F[i + 11] = Comma
      /\ F[i + 12] = Quote /\ F[i + 13] = "content" /\ F[i + 14] = Quote /\ F[i + 15] = ":"
      /\ F[i + 16] = Quote
  BY DEF ItemAt
<1>3. /\ \A x \in 1 .. le : F[i + 16 + x] = e[x]
      /\ F[i + 17 + le] = Quote /\ F[i + 18 + le] = EndBrace
  BY DEF ItemAt
<1>4. \/ j = i + 19 + le /\ F[i + 19 + le] = Nl
      \/ j = i + 20 + le /\ F[i + 19 + le] = Comma /\ F[i + 20 + le] = Nl
  <2>1. \/ j = i + 19 + Len(e) /\ F[j] = Nl
        \/ j = i + 20 + Len(e) /\ F[j - 1] = Comma /\ F[j] = Nl
    BY DEF ItemAt
  <2>2. j = i + 20 + le => j - 1 = i + 19 + le
    BY <1>1
  <2> QED
    BY <2>1, <2>2
<1>5. \A x \in 1 .. le : e[x] = Quote => x > 1 /\ e[x - 1] = Bs
  OBVIOUS
<1> HIDE DEF le
<1>6. \/ p \in i + 1 .. i + 15
      \/ \E x \in 0 .. le : p = i + 16 + x
      \/ p = i + 17 + le \/ p = i + 18 + le \/ (p = j /\ p # i + 19 + le) \/ p = i + 19 + le
  <2>1. CASE p <= i + 15
    BY <2>1
  <2>2. CASE i + 16 <= p /\ p <= i + 16 + le
    <3>1. p - (i + 16) \in 0 .. le /\ p = i + 16 + (p - (i + 16))
      BY <2>2, <1>1
    <3> QED
      BY <3>1
  <2>3. CASE p > i + 16 + le
    BY <2>3, <1>1, <1>4
  <2> QED
    BY <2>1, <2>2, <2>3, <1>1
<1>7. ASSUME p \in i + 1 .. i + 15
      PROVE  (RoleAt(F, p) => p = i + 3) /\ (ContentAt(F, p) => p = i + 12)
  <2>1. \E d \in 1 .. 15 : p = i + d
    <3>1. p - i \in 1 .. 15 /\ p = i + (p - i)
      BY <1>7, <1>1
    <3> QED
      BY <3>1
  <2>2. ASSUME p \in {i + 1, i + 2, i + 4, i + 5, i + 7, i + 9, i + 11, i + 13, i + 15}
        PROVE  F[p] # Quote
    <3>1. role # Quote
      BY Apart
    <3> QED
      BY <2>2, <3>1, <1>2, Apart
  <2>3. ASSUME p \in {i + 6, i + 8, i + 10, i + 12, i + 14}
        PROVE  F[p + 1] # "r" /\ (F[p + 1] = "content" => p = i + 12)
    <3>1. /\ p = i + 6 => p + 1 = i + 7
          /\ p = i + 8 => p + 1 = i + 9
          /\ p = i + 10 => p + 1 = i + 11
          /\ p = i + 12 => p + 1 = i + 13
          /\ p = i + 14 => p + 1 = i + 15
      OBVIOUS
    <3>2. Comma # "r" /\ Comma # "content"
      BY Zenon DEF Comma
    <3> QED
      BY <2>3, <3>1, <3>2, <1>2
  <2>4. ASSUME p = i + 3
        PROVE  F[p + 1] # "content"
    <3>1. p + 1 = i + 4
      BY <2>4
    <3> QED
      BY <3>1, <1>2
  <2>5. \/ p \in {i + 1, i + 2, i + 4, i + 5, i + 7, i + 9, i + 11, i + 13, i + 15}
        \/ p \in {i + 6, i + 8, i + 10, i + 12, i + 14} \/ p = i + 3
    BY <2>1
  <2> QED
    BY <2>2, <2>3, <2>4, <2>5 DEF RoleAt, ContentAt
<1>8. ASSUME NEW x \in 0 .. le, p = i + 16 + x, RoleAt(F, p)
      PROVE  Misread(e) /\ F[p + 4] = EndBrace
  <2>1. /\ p + 1 = i + 16 + (x + 1) /\ p + 2 = i + 16 + (x + 2) /\ p + 3 = i + 16 + (x + 3)
        /\ p + 4 = i + 16 + (x + 4)
        /\ i + 16 + (le + 1) = i + 17 + le /\ i + 16 + (le + 2) = i + 18 + le
    BY <1>1, <1>8
  <2>2. F[i + 16 + x] = Quote /\ F[i + 16 + (x + 1)] = "r" /\ F[i + 16 + (x + 2)] = "ole"
        /\ F[i + 16 + (x + 3)] = Quote
    BY <2>1, <1>8 DEF RoleAt
  <2>3. x + 1 \in 1 .. le
    <3>1. x # le
      BY <2>1, <2>2, <1>3, Apart
    <3> QED
      BY <3>1, <1>1
  <2>4. e[x + 1] = "r"
    BY <2>2, <2>3, <1>3
  <2>5. x + 2 \in 1 .. le
    <3>1. x + 1 # le
      <4>1. x + 1 = le => x + 2 = le + 1
        BY <1>1
      <4> QED
        BY <4>1, <2>1, <2>2, <1>3, Apart
    <3> QED
      BY <3>1, <2>3, <1>1
  <2>6. e[x + 2] = "ole"
    BY <2>2, <2>5, <1>3
  <2>7. x + 2 = le
    <3> SUFFICES ASSUME x + 2 # le
                 PROVE  FALSE
      OBVIOUS
    <3>1. x + 3 \in 1 .. le /\ (x + 3) - 1 = x + 2
      BY <2>5, <1>1
    <3>2. e[x + 3] = Quote
      BY <2>2, <3>1, <1>3
    <3>3. e[x + 2] = Bs
      BY <3>1, <3>2, <1>5
    <3> QED
      BY <3>3, <2>6, Apart
  <2>8. /\ le >= 2 /\ le - 1 = x + 1 /\ x + 4 = le + 2
        /\ le > 2 => x \in 1 .. le /\ le - 2 = x
    BY <2>7, <1>1
  <2>9. le > 2 => e[le - 2] = Quote
    BY <2>2, <2>8, <1>3
  <2>10. F[p + 4] = EndBrace
    BY <2>1, <2>8, <1>3
  <2> QED
    BY <2>4, <2>6, <2>7, <2>8, <2>9, <2>10 DEF Misread, le
<1>9. ASSUME NEW x \in 0 .. le, p = i + 16 + x, ContentAt(F, p)
      PROVE  FALSE
  <2>1. /\ p + 1 = i + 16 + (x + 1) /\ p + 2 = i + 16 + (x + 2) /\ p + 3 = i + 16 + (x + 3)
        /\ i + 16 + (le + 1) = i + 17 + le /\ i + 16 + (le + 2) = i + 18 + le
    BY <1>1, <1>9
  <2>2. F[i + 16 + (x + 1)] = "content" /\ F[i + 16 + (x + 2)] = Quote /\ F[i + 16 + (x + 3)] = ":"
    BY <2>1, <1>9 DEF ContentAt
  <2>3. x + 1 \in 1 .. le
    <3>1. x # le
      BY <2>1, <2>2, <1>3, Apart
    <3> QED
      BY <3>1, <1>1
  <2>4. e[x + 1] = "content"
    BY <2>2, <2>3, <1>3
  <2>5. x + 2 \in 1 .. le
    <3>1. x + 1 # le
      <4>1. x + 1 = le => x + 3 = le + 2
        BY <1>1
      <4> QED
        BY <4>1, <2>1, <2>2, <1>3, Apart
    <3> QED
      BY <3>1, <2>3, <1>1
  <2>6. e[x + 2] = Quote /\ (x + 2) - 1 = x + 1
    BY <2>2, <2>5, <1>3
  <2>7. e[x + 1] = Bs
    BY <2>5, <2>6, <1>5
  <2> QED
    BY <2>4, <2>7, Apart
<1>10. ASSUME p = i + 17 + le \/ p = i + 18 + le \/ (p = j /\ p # i + 19 + le) \/ p = i + 19 + le
       PROVE  ~RoleAt(F, p) /\ ~ContentAt(F, p)
  <2>1. CASE p = i + 17 + le
    <3>1. p + 1 = i + 18 + le
      BY <2>1, <1>1
    <3>2. F[p + 1] = EndBrace
      BY <3>1, <1>3
    <3> QED
      BY <3>2, Apart DEF RoleAt, ContentAt
  <2>2. CASE p # i + 17 + le
    <3>1. F[p] \in {EndBrace, Nl, Comma}
      BY <2>2, <1>3, <1>4, <1>10
    <3>2. F[p] # Quote
      BY <3>1, Apart
    <3> QED
      BY <3>2 DEF RoleAt, ContentAt
  <2> QED
    BY <2>1, <2>2
<1> QED
  BY <1>6, <1>7, <1>8, <1>9, <1>10

\* A text that ends with three characters has them as a suffix.
LEMMA SuffixIs ==
  ASSUME NEW S, NEW w \in Seq(S), Len(w) = 3, NEW g \in Seq(S), Len(g) >= 3,
         g[Len(g)] = w[3], g[Len(g) - 1] = w[2], g[Len(g) - 2] = w[1]
  PROVE  IsSuffix(w, g)
<1> DEFINE v == Reverse(w)
           h == Reverse(g)
           n == Len(g)
           x == SubSeq(v, 1, 3)
           y == SubSeq(h, 1, 3)
<1>1. n \in Nat /\ n >= 3 /\ (\A i \in 1 .. n : g[i] \in S) /\ \A i \in 1 .. 3 : w[i] \in S
  OBVIOUS
<1>2. v \in Seq(S) /\ Len(v) = 3 /\ v[1] = w[3] /\ v[2] = w[2] /\ v[3] = w[1]
  <2>1. v = [i \in 1 .. 3 |-> w[(3 - i) + 1]]
    BY DEF Reverse
  <2>2. \A i \in 1 .. 3 : w[(3 - i) + 1] \in S
    BY <1>1
  <2> HIDE DEF v
  <2>3. v \in Seq(S) /\ Len(v) = 3
    BY <2>1, <2>2
  <2> QED
    BY <2>1, <2>3
<1>3. h \in Seq(S) /\ Len(h) = n /\ h[1] = g[n] /\ h[2] = g[n - 1] /\ h[3] = g[n - 2]
  <2>1. h = [i \in 1 .. n |-> g[(n - i) + 1]]
    BY DEF Reverse
  <2>2. \A i \in 1 .. n : g[(n - i) + 1] \in S
    BY <1>1
  <2>3. 1 \in 1 .. n /\ 2 \in 1 .. n /\ 3 \in 1 .. n /\ (n - 1) + 1 = n /\ (n - 2) + 1 = n - 1 /\ (n - 3) + 1 = n - 2
    BY <1>1
  <2> HIDE DEF h, n
  <2>4. h \in Seq(S) /\ Len(h) = n
    BY <2>1, <2>2, <1>1
  <2> QED
    BY <2>1, <2>3, <2>4
<1> HIDE DEF v, h
<1>4. g[n] = w[3] /\ g[n - 1] = w[2] /\ g[n - 2] = w[1]
  OBVIOUS
<1> HIDE DEF n
<1>5. x = y
  <2>1. x \in Seq(S) /\ Len(x) = 3 /\ x[1] = v[1] /\ x[2] = v[2] /\ x[3] = v[3]
    BY <1>2
  <2>2. y \in Seq(S) /\ Len(y) = 3 /\ y[1] = h[1] /\ y[2] = h[2] /\ y[3] = h[3]
    BY <1>1, <1>3
  <2> HIDE DEF x, y
  <2>3. \A i \in 1 .. 3 : x[i] = y[i]
    <3>1. \A i \in 1 .. 3 : i = 1 \/ i = 2 \/ i = 3
      OBVIOUS
    <3> QED
      BY <3>1, <2>1, <2>2, <1>2, <1>3, <1>4, Zenon
  <2> QED
    BY <2>1, <2>2, <2>3
<1>6. IsPrefix(v, h)
  BY <1>1, <1>2, <1>3, <1>5 DEF IsPrefix
<1> QED
  BY <1>6 DEF IsSuffix, v, h

\* The quote and the word that a key begins with.
LEMMA KeyWord ==
  LET w == <<Quote>> \o Role
  IN w \in Seq(Char) /\ Len(w) = 3 /\ w[1] = Quote /\ w[2] = "r" /\ w[3] = "ole"
<1>1. Quote \in Char /\ "r" \in Char /\ "ole" \in Char
  BY Zenon DEF Char
<1> QED
  BY <1>1 DEF Role

\* Only the content that is the word, or ends with a quote and the word, is misread.
LEMMA MisreadIs ==
  ASSUME NEW e, NEW s, NEW b, Spelt(e, s, b), Misread(e)
  PROVE  IsSuffix(<<Quote>> \o Role, <<Quote>> \o s)
<1> DEFINE n == Len(s)
           le == Len(e)
           g == <<Quote>> \o s
           w == <<Quote>> \o Role
<1>1. /\ n \in Nat /\ le \in Nat /\ b[0] = 0 /\ b[n] = le /\ \A k \in 0 .. n : b[k] \in Nat
      /\ \A k \in 1 .. n : b[k - 1] < b[k] /\ Spells(e, s[k], b[k - 1], b[k])
  <2>1. /\ n \in Nat /\ le \in Nat /\ \A k \in 0 .. n : b[k] \in Nat
        /\ \A k \in 1 .. n : b[k - 1] < b[k]
    BY SpeltRises
  <2>2. b[0] = 0 /\ b[n] = le /\ \A k \in 1 .. n : Spells(e, s[k], b[k - 1], b[k])
    BY DEF Spelt
  <2> QED
    BY <2>1, <2>2
<1>2. le >= 2 /\ e[le - 1] = "r" /\ e[le] = "ole" /\ (le > 2 => e[le - 2] = Quote)
  BY DEF Misread
<1>3. s \in Seq(Char)
  BY DEF Spelt, Writing
<1> HIDE DEF n, le
<1>4. n >= 1 /\ n \in 1 .. n /\ n \in 0 .. n /\ n - 1 \in 0 .. n
  <2>1. n # 0
    BY <1>1, <1>2
  <2> QED
    BY <2>1, <1>1
<1>5. "ole" # Bs /\ "ole" # Quote /\ "r" # Bs /\ "r" # Quote /\ Quote # Bs /\ Quote # "u"
  BY Apart
<1>6. s[n] = "ole" /\ b[n - 1] = le - 1
  <2> DEFINE i == b[n - 1]
  <2>1. Spells(e, s[n], i, le) /\ i \in Nat
    BY <1>1, <1>4
  <2> HIDE DEF i
  <2>2. ASSUME le = i + 2, e[i + 2] \in {"n", "t", "r", Quote, Bs}
        PROVE  FALSE
    BY <2>2, <1>2, <1>5
  <2>3. ASSUME le = i + 3, e[i + 3] = "0001"
        PROVE  FALSE
    BY <2>3, <1>2
  <2>4. le = i + 1 /\ e[i + 1] = s[n]
    BY <2>1, <2>2, <2>3 DEF Spells
  <2> QED
    BY <2>1, <2>4, <1>2 DEF i
<1>7. n >= 2 /\ n - 1 \in 1 .. n /\ n - 2 \in 0 .. n /\ (n - 1) - 1 = n - 2
  <2>1. n - 1 # 0
    BY <1>1, <1>2, <1>6
  <2> QED
    BY <2>1, <1>1, <1>4
<1>8. s[n - 1] = "r" /\ b[n - 2] = le - 2
  <2> DEFINE i == b[n - 2]
             c == s[n - 1]
  <2>1. Spells(e, c, i, le - 1) /\ i \in Nat
    BY <1>1, <1>6, <1>7
  <2> HIDE DEF i, c
  <2>2. ASSUME le - 1 = i + 2, e[i + 1] = Bs
        PROVE  FALSE
    <3>1. le > 2 /\ i + 1 = le - 2
      BY <2>1, <2>2, <1>1
    <3> QED
      BY <3>1, <2>2, <1>2, <1>5
  <2>3. ASSUME le - 1 = i + 3, e[i + 3] = "0001"
        PROVE  FALSE
    BY <2>3, <1>2
  <2>4. le - 1 = i + 1 /\ e[i + 1] = c
    BY <2>1, <2>2, <2>3 DEF Spells
  <2> QED
    BY <2>1, <2>4, <1>1, <1>2 DEF i, c
<1>b. /\ g \in Seq(Char) /\ Len(g) = Len(s) + 1 /\ g[1] = Quote
      /\ \A j \in 1 .. Len(s) : g[1 + j] = s[j]
  <2>1. Quote \in Char
    BY Zenon DEF Char
  <2> QED
    BY <2>1, <1>3, PutIs
<1>9. CASE n = 2
  <2>1. g \in Seq(Char) /\ Len(g) = 3 /\ g[1] = Quote /\ g[2] = s[1] /\ g[3] = s[2]
    <3>1. 1 \in 1 .. 2 /\ 2 \in 1 .. 2 /\ 1 + 1 = 2 /\ 1 + 2 = 3 /\ 2 + 1 = 3
      OBVIOUS
    <3>2. Len(s) = 2
      BY <1>9 DEF n
    <3> QED
      BY <3>1, <3>2, <1>b, Zenon
  <2> HIDE DEF g
  <2>2. s[2] = "ole" /\ s[1] = "r"
    BY <1>6, <1>8, <1>9
  <2>3. w \in Seq(Char) /\ Len(w) = 3 /\ w[1] = Quote /\ w[2] = "r" /\ w[3] = "ole"
    BY KeyWord
  <2> HIDE DEF w
  <2>4. Len(g) >= 3 /\ g[Len(g)] = w[3] /\ g[Len(g) - 1] = w[2] /\ g[Len(g) - 2] = w[1]
    BY <2>1, <2>2, <2>3
  <2>5. IsSuffix(w, g)
    BY <2>1, <2>3, <2>4, SuffixIs
  <2> QED
    BY <2>5 DEF w, g
<1>10. CASE n # 2
  <2>1. n >= 3 /\ n - 2 \in 1 .. n /\ n - 3 \in 0 .. n /\ (n - 2) - 1 = n - 3 /\ n \in Nat
    BY <1>10, <1>1, <1>7
  <2>2. s[n - 2] = Quote
    <3> DEFINE i == b[n - 3]
               c == s[n - 2]
    <3>1. Spells(e, c, i, le - 2) /\ i \in Nat /\ i < le - 2
      BY <2>1, <1>1, <1>8
    <3> HIDE DEF i, c
    <3>2. le > 2 /\ e[le - 2] = Quote
      BY <3>1, <1>1, <1>2
    <3>3. ASSUME le - 2 = i + 1, e[i + 1] = c, c \notin {Bs, Quote}
          PROVE  FALSE
      BY <3>2, <3>3
    <3>4. ASSUME le - 2 = i + 2, Escapes[e[i + 2]] = c
          PROVE  c = Quote
      BY <3>2, <3>4, EscapesIs
    <3>5. ASSUME le - 2 = i + 3, e[i + 3] = "0001"
          PROVE  FALSE
      BY <3>2, <3>5, Apart
    <3> QED
      BY <3>1, <3>3, <3>4, <3>5 DEF Spells, c
  <2>3. g \in Seq(Char) /\ Len(g) = n + 1 /\ \A j \in 1 .. n : g[1 + j] = s[j]
    BY <1>b DEF n
  <2> HIDE DEF g
  <2>4. w \in Seq(Char) /\ Len(w) = 3 /\ w[1] = Quote /\ w[2] = "r" /\ w[3] = "ole"
    BY KeyWord
  <2> HIDE DEF w
  <2>5. /\ n - 2 \in 1 .. n /\ n - 1 \in 1 .. n /\ n \in 1 .. n
        /\ 1 + n = n + 1 /\ 1 + (n - 1) = (n + 1) - 1 /\ 1 + (n - 2) = (n + 1) - 2 /\ n + 1 >= 3
    BY <2>1
  <2>6. Len(g) >= 3 /\ g[Len(g)] = w[3] /\ g[Len(g) - 1] = w[2] /\ g[Len(g) - 2] = w[1]
    <3>1. g[n + 1] = "ole" /\ g[(n + 1) - 1] = "r" /\ g[(n + 1) - 2] = Quote
      BY <2>2, <2>3, <2>5, <1>6, <1>8
    <3> QED
      BY <3>1, <2>3, <2>4, <2>5
  <2>7. IsSuffix(w, g)
    BY <2>3, <2>4, <2>6, SuffixIs
  <2> QED
    BY <2>7 DEF w, g
<1> QED
  BY <1>9, <1>10

-----------------------------------------------------------------------------
(* Where the messages are in the text of a session file.                   *)

\* The characters of a message up to the end of its content.
Width(m) == 16 + Len(Spelling(m))

\* The messages are one behind the other.
Spaced(q, msgs, n) ==
  /\ \A k \in 0 .. n : q[k] \in Nat
  /\ \A k \in 1 .. n : Width(msgs[k]) \in Nat /\ Width(msgs[k]) >= 16 /\ q[k - 1] + Width(msgs[k]) + 3 <= q[k]
  /\ \A i, k \in 0 .. n : i <= k => q[i] <= q[k]

\* Each message begins behind the one before it.
LEMMA SpacedIs ==
  ASSUME NEW msgs \in Seq(Saying), NEW F, NEW q, Filed(F, msgs, q)
  PROVE  /\ Len(msgs) \in Nat /\ Len(F) \in Nat /\ q[0] = 2 /\ Len(F) = q[Len(msgs)] + 2
         /\ Spaced(q, msgs, Len(msgs))
<1> DEFINE n == Len(msgs)
<1>1. n \in Nat /\ \A k \in 1 .. n : msgs[k] \in Saying
  OBVIOUS
<1>2. /\ F \in Seq(Char) /\ q \in [0 .. n -> Nat] /\ q[0] = 2 /\ Len(F) = q[n] + 2
      /\ \A k \in 1 .. n : ItemAt(F, q[k - 1], Speaker(msgs[k]), Spelling(msgs[k]), q[k])
  BY DEF Filed, Writing
<1> HIDE DEF n
<1>3. ASSUME NEW k \in 1 .. n
      PROVE  Width(msgs[k]) \in Nat /\ Width(msgs[k]) >= 16 /\ q[k - 1] + Width(msgs[k]) + 3 <= q[k]
  <2> DEFINE w == Width(msgs[k])
             e == Spelling(msgs[k])
             l == Len(e)
             i == q[k - 1]
             j == q[k]
  <2>1. w = 16 + l
    BY DEF Width
  <2>2. e \in Seq(Char)
    BY <1>1, SayingIs DEF Writing
  <2>3. j = i + 19 + l \/ j = i + 20 + l
    BY <1>2 DEF ItemAt
  <2>4. i \in Nat /\ j \in Nat
    <3>1. k - 1 \in 0 .. n /\ k \in 0 .. n
      BY <1>1
    <3> QED
      BY <3>1, <1>2
  <2> HIDE DEF w, e, i, j
  <2>5. l \in Nat
    BY <2>2
  <2> HIDE DEF l
  <2>6. w \in Nat /\ w >= 16 /\ i + w + 3 <= j
    BY <2>1, <2>3, <2>4, <2>5
  <2> QED
    BY <2>6 DEF w, i, j
<1>4. ASSUME NEW k \in 0 .. n
      PROVE  \A i \in 0 .. n : i <= k => q[i] <= q[k]
  <2> DEFINE T == {x \in Nat : x <= n => \A i \in 0 .. n : i <= x => q[i] <= q[x]}
  <2>1. 0 \in T
    <3>1. \A i \in 0 .. n : i <= 0 => i = 0
      BY <1>1
    <3>2. q[0] <= q[0]
      BY <1>2
    <3> QED
      BY <3>1, <3>2
  <2>2. ASSUME NEW x \in Nat, x \in T
        PROVE  x + 1 \in T
    <3> SUFFICES ASSUME x + 1 <= n, NEW i \in 0 .. n, i <= x + 1
                 PROVE  q[i] <= q[x + 1]
      BY <2>2
    <3>1. x + 1 \in 1 .. n /\ x \in 0 .. n /\ x + 1 \in 0 .. n /\ (x + 1) - 1 = x /\ x <= n
      BY <1>1
    <3>2. q[x] \in Nat /\ q[x + 1] \in Nat /\ q[i] \in Nat
      BY <3>1, <1>2
    <3>3. q[x] <= q[x + 1]
      <4> DEFINE w == Width(msgs[x + 1])
      <4>1. w \in Nat /\ q[x] + w + 3 <= q[x + 1]
        BY <3>1, <1>3
      <4> HIDE DEF w
      <4> QED
        BY <3>2, <4>1
    <3>4. i = x + 1 \/ i <= x
      OBVIOUS
    <3>5. i <= x => q[i] <= q[x]
      BY <2>2, <3>1
    <3> QED
      BY <3>2, <3>3, <3>4, <3>5
  <2>3. T = Nat
    <3> HIDE DEF T
    <3>1. T \subseteq Nat
      BY DEF T
    <3>2. \A x \in T : x + 1 \in T
      BY <2>2, <3>1
    <3> QED
      BY <2>1, <3>1, <3>2, AllNumbers
  <2> QED
    BY <2>3, <1>1
<1>5. \A k \in 0 .. n : q[k] \in Nat
  BY <1>2
<1>6. Spaced(q, msgs, n)
  BY <1>3, <1>4, <1>5, Zenon DEF Spaced
<1>7. Len(F) \in Nat
  BY <1>2
<1> QED
  BY <1>1, <1>2, <1>6, <1>7 DEF n

\* A place is in a message or outside of all.
LEMMA MessageOf ==
  ASSUME NEW msgs, NEW n \in Nat, NEW q, Spaced(q, msgs, n), NEW p \in Nat, q[0] < p, p <= q[n]
  PROVE  \E k \in 1 .. n : q[k - 1] < p /\ p <= q[k]
<1> DEFINE T == {k \in Nat : p <= q[k] => \E i \in 1 .. k : q[i - 1] < p /\ p <= q[i]}
<1>1. \A k \in 0 .. n : q[k] \in Nat
  BY DEF Spaced
<1>2. 0 \in T
  <2>1. ~(p <= q[0])
    <3>1. q[0] \in Nat
      BY <1>1
    <3> QED
      BY <3>1
  <2> QED
    BY <2>1
<1>3. ASSUME NEW k \in 0 .. n - 1, k \in T
      PROVE  k + 1 \in T
  <2>1. k \in Nat /\ k + 1 \in Nat /\ k \in 0 .. n /\ k + 1 \in 0 .. n /\ (k + 1) - 1 = k /\ k + 1 \in 1 .. k + 1
    OBVIOUS
  <2>2. ASSUME p <= q[k + 1]
        PROVE  \E i \in 1 .. k + 1 : q[i - 1] < p /\ p <= q[i]
    <3>1. CASE p <= q[k]
      <4>1. PICK i \in 1 .. k : q[i - 1] < p /\ p <= q[i]
        BY <1>3, <3>1
      <4>2. i \in 1 .. k + 1
        BY <2>1
      <4> QED
        BY <4>1, <4>2
    <3>2. CASE ~(p <= q[k])
      <4>1. q[k] < p
        <5>1. q[k] \in Nat
          BY <1>1, <2>1
        <5> QED
          BY <5>1, <3>2
      <4> QED
        BY <4>1, <2>1, <2>2
    <3> QED
      BY <3>1, <3>2
  <2> QED
    BY <2>1, <2>2
<1>4. \A k \in 0 .. n : k \in T
  <2> HIDE DEF T
  <2>1. \A k \in 0 .. n - 1 : k \in T => k + 1 \in T
    BY <1>3
  <2> QED
    BY <1>2, <2>1, Upwards
<1>5. n \in T
  <2> HIDE DEF T
  <2> QED
    BY <1>4
<1> QED
  BY <1>5

\* The words are in the places of the keys; "role" is also at the end of a
\* content that ends with the word, and no colon is behind it.
LEMMA KeysIn ==
  ASSUME NEW msgs \in Seq(Saying), NEW F, NEW q, Filed(F, msgs, q), NEW p \in 1 .. Len(F)
  PROVE  /\ RoleAt(F, p) => \E k \in 1 .. Len(msgs) :
              p = q[k - 1] + 3 \/ (~Restorable(msgs[k]) /\ F[p + 4] = EndBrace)
         /\ ContentAt(F, p) => \E k \in 1 .. Len(msgs) : p = q[k - 1] + 12
<1> DEFINE n == Len(msgs)
           last == q[n]
<1>1. /\ n \in Nat /\ Len(F) \in Nat /\ q[0] = 2 /\ Len(F) = last + 2 /\ Spaced(q, msgs, n)
      /\ \A k \in 1 .. n : msgs[k] \in Saying
  BY SpacedIs
<1>2. /\ F[1] = "[" /\ F[2] = Nl /\ F[last + 1] = "]" /\ F[last + 2] = Nl
      /\ \A k \in 1 .. n : ItemAt(F, q[k - 1], Speaker(msgs[k]), Spelling(msgs[k]), q[k])
  BY DEF Filed
<1>3. \A k \in 0 .. n : q[k] \in Nat
  BY <1>1 DEF Spaced
<1> HIDE DEF n
<1>4. last \in Nat
  BY <1>1, <1>3
<1> HIDE DEF last
<1>5. SUFFICES ASSUME F[p] = Quote
               PROVE  /\ RoleAt(F, p) => \E k \in 1 .. n :
                           p = q[k - 1] + 3 \/ (~Restorable(msgs[k]) /\ F[p + 4] = EndBrace)
                      /\ ContentAt(F, p) => \E k \in 1 .. n : p = q[k - 1] + 12
  BY DEF RoleAt, ContentAt, n
<1>6. "[" # Quote /\ Nl # Quote /\ "]" # Quote
  BY Apart
<1>7. p \in Nat /\ 2 < p /\ p <= last
  <2>1. p = 1 \/ p = 2 \/ p = last + 1 \/ p = last + 2 \/ (2 < p /\ p <= last)
    BY <1>1, <1>4
  <2> QED
    BY <2>1, <1>2, <1>5, <1>6
<1>8. PICK k \in 1 .. n : q[k - 1] < p /\ p <= q[k]
  <2>1. q[0] < p /\ p <= q[n]
    BY <1>1, <1>7 DEF last
  <2> QED
    BY <2>1, <1>1, <1>7, MessageOf
<1> DEFINE i == q[k - 1]
           j == q[k]
           m == msgs[k]
           e == Spelling(m)
<1>9. i \in Nat /\ j \in Nat
  <2>1. k - 1 \in 0 .. n /\ k \in 0 .. n
    BY <1>1
  <2> QED
    BY <2>1, <1>3
<1>10. m \in Saying
  BY <1>1
<1>11. ItemAt(F, i, Speaker(m), e, j) /\ i < p /\ p <= j
  BY <1>2, <1>8
<1> HIDE DEF i, j, m
<1>12. PICK b : Spelt(e, m.content, b)
  BY <1>10, SayingIs
<1>13. Speaker(m) \in {"user", "assistant"} /\ e \in Writing
  BY <1>10, SayingIs
<1> HIDE DEF e
<1>14. \A x \in 1 .. Len(e) : e[x] = Quote => x > 1 /\ e[x - 1] = Bs
  <2> DEFINE s == m.content
  <2>1. Spelt(e, s, b)
    BY <1>12
  <2> HIDE DEF s
  <2>2. ASSUME NEW x \in 1 .. Len(e), e[x] = Quote
        PROVE  x > 1 /\ e[x - 1] = Bs
    BY <2>1, <2>2, BsBefore
  <2> QED
    BY <2>2
<1>15. p \in i + 1 .. j
  BY <1>7, <1>9, <1>11
<1>16. /\ RoleAt(F, p) => p = i + 3 \/ (Misread(e) /\ F[p + 4] = EndBrace)
       /\ ContentAt(F, p) => p = i + 12
  BY <1>9, <1>11, <1>13, <1>14, <1>15, ItemWords
<1>17. Misread(e) => ~Restorable(m)
  BY <1>12, MisreadIs DEF Restorable
<1>18. /\ RoleAt(F, p) => p = i + 3 \/ (~Restorable(m) /\ F[p + 4] = EndBrace)
       /\ ContentAt(F, p) => p = i + 12
  BY <1>16, <1>17
<1> QED
  BY <1>18 DEF i, m

-----------------------------------------------------------------------------
(* What is read from a session file that may be cut off.                   *)

\* R is the text behind the first o of the n characters that there are of F.
RestOf(R, F, o, n) ==
  /\ o \in Nat /\ n \in Nat /\ R \in Writing /\ o + Len(R) = n
  /\ \A x \in 1 .. Len(R) : R[x] = F[o + x]

\* A text that is cut off, and what is behind a place of it.
LEMMA CutOff ==
  ASSUME NEW F \in Writing, NEW n \in 0 .. Len(F)
  PROVE  RestOf(SubSeq(F, 1, n), F, 0, n)
<1> DEFINE T == SubSeq(F, 1, n)
<1>1. F \in Seq(Char) /\ Len(F) \in Nat /\ n \in Nat
  BY DEF Writing
<1>2. T \in Seq(Char) /\ Len(T) = n /\ \A x \in 1 .. n : T[x] = F[x]
  BY <1>1
<1> HIDE DEF T
<1>3. \A x \in 1 .. n : 0 + x = x
  OBVIOUS
<1>4. 0 \in Nat /\ 0 + n = n
  BY <1>1
<1>5. \A x \in 1 .. Len(T) : T[x] = F[0 + x]
  BY <1>2, <1>3
<1> QED
  BY <1>1, <1>2, <1>4, <1>5 DEF RestOf, T, Writing

\* What is behind a place of a text that is cut off.
LEMMA RestIs ==
  ASSUME NEW T, NEW F, NEW n, RestOf(T, F, 0, n), NEW g \in 2 .. n
  PROVE  RestOf(SubSeq(T, g - 1, Len(T)), F, g - 2, n)
<1> DEFINE R == SubSeq(T, g - 1, n)
           l == (n - g) + 2
<1>1. n \in Nat /\ T \in Seq(Char) /\ 0 + Len(T) = n /\ \A x \in 1 .. Len(T) : T[x] = F[0 + x]
  BY DEF RestOf, Writing
<1>2. Len(T) = n /\ \A x \in 1 .. n : T[x] = F[x]
  BY <1>1
<1>3. R \in Seq(Char) /\ Len(R) = l /\ \A x \in 1 .. l : R[x] = T[(g - 1) + x - 1]
  BY <1>1, <1>2
<1>4. /\ l \in Nat /\ g - 2 \in Nat /\ (g - 2) + l = n
      /\ \A x \in 1 .. l : (g - 1) + x - 1 = (g - 2) + x /\ (g - 2) + x \in 1 .. n
  BY <1>1
<1> HIDE DEF R, l
<1>5. \A x \in 1 .. l : R[x] = F[(g - 2) + x]
  BY <1>2, <1>3, <1>4
<1>6. RestOf(R, F, g - 2, n)
  BY <1>1, <1>3, <1>4, <1>5 DEF RestOf, Writing
<1> QED
  BY <1>2, <1>6 DEF R

\* A string begins in F at i.
StringAt(F, i, e) == /\ F[i] = Quote /\ F[i + 1 + Len(e)] = Quote
                     /\ \A x \in 1 .. Len(e) : F[i + x] = e[x]

\* Where a string begins in the text, one begins behind a place of it.
LEMMA OpensIn ==
  ASSUME NEW R, NEW F, NEW o, NEW n, RestOf(R, F, o, n), NEW v \in 1 .. Len(R), NEW e \in Writing,
         StringAt(F, o + v, e)
  PROVE  Opens(R, v, e)
<1> DEFINE le == Len(e)
           lr == Len(R)
           i == o + v
<1>1. o \in Nat /\ R \in Seq(Char) /\ \A x \in 1 .. lr : R[x] = F[o + x]
  BY DEF RestOf, Writing
<1>2. lr \in Nat /\ v \in 1 .. lr
  BY <1>1
<1>3. e \in Seq(Char)
  BY DEF Writing
<1>4. le \in Nat
  BY <1>3
<1>5. F[i] = Quote /\ (\A x \in 1 .. le : F[i + x] = e[x]) /\ F[i + 1 + le] = Quote
  BY DEF StringAt
<1> HIDE DEF le, lr
<1>6. R[v] = Quote
  BY <1>1, <1>2, <1>5
<1>7. ASSUME NEW j \in 1 .. le, v + j <= lr
      PROVE  R[v + j] = e[j]
  <2>1. v + j \in 1 .. lr /\ o + (v + j) = i + j
    BY <1>1, <1>2, <1>4, <1>7
  <2> QED
    BY <2>1, <1>1, <1>5
<1>8. ASSUME v + le + 1 <= lr
      PROVE  R[v + le + 1] = Quote
  <2>1. v + le + 1 \in 1 .. lr /\ o + (v + le + 1) = i + 1 + le
    BY <1>1, <1>2, <1>4, <1>8
  <2> QED
    BY <2>1, <1>1, <1>5
<1> QED
  BY <1>2, <1>6, <1>7, <1>8 DEF Opens, le, lr

\* A role stands for itself.
LEMMA RoleSpelt ==
  ASSUME NEW m \in Saying
  PROVE  /\ m.role = <<Speaker(m)>> /\ m.role \in Writing /\ Len(m.role) = 1 /\ m.role[1] = Speaker(m)
         /\ \E b : Spelt(m.role, m.role, b)
<1> DEFINE c == Speaker(m)
           e == <<c>>
           b == [k \in 0 .. 1 |-> k]
<1>1. m.role = e /\ c \in {"user", "assistant"} /\ c \in Char
  BY SayingIs
<1>2. c \notin {Bs, Quote}
  <2>1. "user" # Quote /\ "assistant" # Quote
    BY Apart
  <2>2. "user" # Bs /\ "assistant" # Bs
    BY Zenon DEF Bs
  <2> QED
    BY <2>1, <2>2, <1>1
<1> HIDE DEF c
<1>3. e \in Seq(Char) /\ Len(e) = 1 /\ e[1] = c
  BY <1>1
<1>4. b \in [0 .. 1 -> Nat] /\ b[0] = 0 /\ b[1] = 1 /\ \A k \in 1 .. 1 : k = 1 /\ k - 1 = 0
  OBVIOUS
<1> HIDE DEF e, b
<1>5. Spells(e, e[1], b[0], b[1])
  BY <1>2, <1>3, <1>4 DEF Spells
<1>6. \A k \in 1 .. 1 : Spells(e, e[k], b[k - 1], b[k])
  <2> SUFFICES ASSUME NEW k \in 1 .. 1
               PROVE  Spells(e, e[k], b[k - 1], b[k])
    OBVIOUS
  <2>1. k = 1 /\ k - 1 = 0
    BY <1>4
  <2> QED
    BY <2>1, <1>5, Zenon
<1>7. Spelt(e, e, b)
  BY <1>3, <1>4, <1>6, Zenon DEF Spelt, Writing
<1> QED
  BY <1>1, <1>3, <1>7 DEF c, Writing

\* What is found as the role behind o characters is that of the message m, which
\* begins behind i characters; as the content, its content.
RoleFound(R, o, n, m, i) ==
  LET r == json_extract_string(R, Role)
  IN /\ find(R, Str(Role) \o <<":">>, 1) \in 1 .. Len(R) - 4
     /\ o + find(R, Str(Role) \o <<":">>, 1) = i + 3
     /\ r \in {<<>>, m.role} /\ (i + 9 <= n => r = m.role)

ContentFound(R, o, n, m, i) ==
  LET r == json_extract_string(R, <<"content">>)
  IN /\ find(R, Str(<<"content">>) \o <<":">>, 1) \in 1 .. Len(R) - 3
     /\ o + find(R, Str(<<"content">>) \o <<":">>, 1) = i + 12
     /\ r \in Writing /\ (i + Width(m) <= n => r = m.content)

NotFound(R, key) == find(R, Str(key) \o <<":">>, 1) = 0 /\ json_extract_string(R, key) = <<>>

\* The role that is read is that of a message, or empty, or there is none.
LEMMA RoleValue ==
  ASSUME NEW msgs \in Seq(Saying), NEW F, NEW q, Filed(F, msgs, q),
         NEW R, NEW o, NEW n, RestOf(R, F, o, n), n <= Len(F)
  PROVE  \/ NotFound(R, Role)
         \/ \E k \in 1 .. Len(msgs) : RoleFound(R, o, n, msgs[k], q[k - 1])
<1> DEFINE w == Str(Role) \o <<":">>
           f == find(R, w, 1)
           N == Len(msgs)
           lr == Len(R)
           r == json_extract_string(R, Role)
<1>1. /\ Role \in Writing /\ Len(Role) = 2 /\ w \in Writing /\ w # <<>>
      /\ \A t, i : Len(t) \in Nat => (Stands(t, w, i) <=> i \in 1 .. Len(t) - 4 /\ RoleAt(t, i) /\ t[i + 4] = ":")
  BY WordsAre
<1> HIDE DEF w
<1>2. o \in Nat /\ n \in Nat /\ R \in Writing /\ o + lr = n /\ \A x \in 1 .. lr : R[x] = F[o + x]
  BY DEF RestOf
<1>3. lr \in Nat
  <2>1. R \in Seq(Char)
    BY <1>2 DEF Writing
  <2> QED
    BY <2>1
<1>4. N \in Nat /\ Len(F) \in Nat /\ Spaced(q, msgs, N) /\ \A k \in 1 .. N : msgs[k] \in Saying
  BY SpacedIs
<1>5. ASSUME f = 0
      PROVE  NotFound(R, Role)
  <2>1. r = <<>>
    BY <1>1, <1>2, <1>5, NothingIs DEF w
  <2> QED
    BY <1>5, <2>1, Zenon DEF NotFound, w
<1>6. f = 0 \/ (f \in Nat /\ f >= 1 /\ Stands(R, w, f))
  BY <1>1, <1>2, FindIs
<1>7. ASSUME f # 0
      PROVE  \E k \in 1 .. N : RoleFound(R, o, n, msgs[k], q[k - 1])
  <2> HIDE DEF f, lr
  <2>1. f \in Nat /\ f \in 1 .. lr - 4 /\ RoleAt(R, f) /\ R[f + 4] = ":"
    BY <1>1, <1>3, <1>6, <1>7 DEF lr
  <2>2. /\ f \in 1 .. lr /\ f + 1 \in 1 .. lr /\ f + 2 \in 1 .. lr /\ f + 3 \in 1 .. lr /\ f + 4 \in 1 .. lr
        /\ o + (f + 1) = (o + f) + 1 /\ o + (f + 2) = (o + f) + 2 /\ o + (f + 3) = (o + f) + 3
        /\ o + (f + 4) = (o + f) + 4
    BY <2>1, <1>2, <1>3
  <2>c. o + f \in 1 .. n
    BY <2>1, <1>2, <1>3
  <2>3. RoleAt(F, o + f) /\ F[(o + f) + 4] = ":"
    <3>1. /\ R[f] = F[o + f] /\ R[f + 1] = F[o + (f + 1)] /\ R[f + 2] = F[o + (f + 2)]
          /\ R[f + 3] = F[o + (f + 3)] /\ R[f + 4] = F[o + (f + 4)]
      BY <2>2, <1>2, Zenon
    <3> QED
      BY <3>1, <2>1, <2>2, Zenon DEF RoleAt
  <2>4. o + f \in 1 .. Len(F)
    BY <2>c, <1>2, <1>4
  <2>5. ":" # EndBrace
    BY Apart
  <2>6. PICK k \in 1 .. N : o + f = q[k - 1] + 3
    <3> DEFINE p == o + f
    <3>1. p \in 1 .. Len(F) /\ RoleAt(F, p) /\ F[p + 4] = ":"
      BY <2>3, <2>4, Zenon
    <3> HIDE DEF p
    <3>2. \E k \in 1 .. N : p = q[k - 1] + 3
      BY <3>1, <2>5, KeysIn
    <3> QED
      BY <3>2, Zenon DEF p
  <2> DEFINE m == msgs[k]
             i == q[k - 1]
             e == m.role
             v == f + 5
  <2>7. i \in Nat
    <3>1. k - 1 \in 0 .. N
      BY <1>4
    <3> QED
      BY <3>1, <1>4 DEF Spaced
  <2>8. m \in Saying
    BY <1>4
  <2>9. F[i + 8] = Quote /\ F[i + 9] = Speaker(m) /\ F[i + 10] = Quote
    <3>1. ItemAt(F, i, Speaker(m), Spelling(m), q[k])
      BY DEF Filed
    <3> QED
      BY <3>1 DEF ItemAt
  <2>10. o + f = i + 3
    BY <2>6
  <2> HIDE DEF m, i
  <2>11. e \in Writing /\ Len(e) = 1 /\ e[1] = Speaker(m) /\ \E b : Spelt(e, e, b)
    BY <2>8, RoleSpelt
  <2> HIDE DEF e
  <2>12. PICK b : Spelt(e, e, b)
    BY <2>11
  <2>13. r \in {<<>>, e} /\ (i + 9 <= n => r = e)
    <3>1. CASE v > lr
      <4>1. f + Len(Role) + 3 > Len(R)
        BY <3>1, <1>1, <1>3, <2>1 DEF lr
      <4>2. r = <<>>
        BY <4>1, <1>1, <1>2, <2>1, NothingIs DEF w, f
      <4>3. ~(i + 9 <= n)
        BY <3>1, <2>1, <2>7, <2>10, <1>2, <1>3
      <4> HIDE DEF r
      <4> QED
        BY <4>2, <4>3
    <3>2. CASE ~(v > lr)
      <4>1. v \in 1 .. lr /\ i + 8 = o + v /\ i + 8 \in Nat
        BY <3>2, <2>1, <2>7, <2>10, <1>2, <1>3
      <4>2. StringAt(F, i + 8, e)
        <5>1. (i + 8) + 1 = i + 9 /\ (i + 8) + 1 + 1 = i + 10 /\ \A x \in 1 .. 1 : x = 1
          BY <2>7
        <5>2. \A x \in 1 .. Len(e) : x = 1
          BY <5>1, <2>11, Zenon
        <5>3. F[(i + 8) + 1] = e[1] /\ F[(i + 8) + 1 + Len(e)] = Quote
          BY <5>1, <2>9, <2>11, Zenon
        <5>4. \A x \in 1 .. Len(e) : F[(i + 8) + x] = e[x]
          BY <5>2, <5>3, Zenon
        <5> QED
          BY <5>3, <5>4, <2>9, Zenon DEF StringAt
      <4>3. Opens(R, v, e)
        <5>1. StringAt(F, o + v, e)
          BY <4>1, <4>2
        <5>2. v \in 1 .. Len(R)
          BY <4>1 DEF lr
        <5> HIDE DEF v
        <5> QED
          BY <5>1, <5>2, <2>11, OpensIn
      <4>4. Behind(R, Role, v)
        <5>1. v = f + Len(Role) + 3 /\ f \in Nat \ {0}
          BY <1>1, <1>7, <2>1
        <5> QED
          BY <5>1, Zenon DEF Behind, f, w
      <4> HIDE DEF v
      <4>5. GivenBack(r, e, e, Len(R) - v)
        BY <4>3, <4>4, <1>1, <1>2, <2>12, StringIs
      <4>6. (lr - v >= 1 => r = e) /\ (lr - v = 0 => r = <<>>)
        BY <4>5, <2>11 DEF GivenBack, lr
      <4> HIDE DEF r
      <4>7. lr - v >= 1 \/ lr - v = 0
        BY <4>1, <1>3
      <4>8. i + 9 <= n => lr - v >= 1
        BY <4>1, <2>7, <1>2, <1>3
      <4> QED
        BY <4>6, <4>7, <4>8
    <3> QED
      BY <3>1, <3>2
  <2>14. RoleFound(R, o, n, m, i)
    <3>1. f \in 1 .. Len(R) - 4
      BY <2>1 DEF lr
    <3> QED
      BY <3>1, <2>10, <2>13, Zenon DEF RoleFound, f, w, r, e
  <2> QED
    BY <2>14 DEF m, i
<1> QED
  BY <1>5, <1>7 DEF N

\* The content that is read is that of a message, or there is none; it is whole
\* if the file goes on to its end.
LEMMA ContentValue ==
  ASSUME NEW msgs \in Seq(Saying), NEW F, NEW q, Filed(F, msgs, q),
         NEW R, NEW o, NEW n, RestOf(R, F, o, n), n <= Len(F)
  PROVE  \/ NotFound(R, <<"content">>)
         \/ \E k \in 1 .. Len(msgs) : ContentFound(R, o, n, msgs[k], q[k - 1])
<1> DEFINE key == <<"content">>
           w == Str(key) \o <<":">>
           f == find(R, w, 1)
           N == Len(msgs)
           lr == Len(R)
           r == json_extract_string(R, key)
<1>1. /\ key \in Writing /\ Len(key) = 1 /\ w \in Writing /\ w # <<>>
      /\ \A t, i : Len(t) \in Nat => (Stands(t, w, i) <=> i \in 1 .. Len(t) - 3 /\ ContentAt(t, i))
  BY WordsAre
<1> HIDE DEF key, w
<1>2. o \in Nat /\ n \in Nat /\ R \in Writing /\ o + lr = n /\ \A x \in 1 .. lr : R[x] = F[o + x]
  BY DEF RestOf
<1>3. lr \in Nat
  <2>1. R \in Seq(Char)
    BY <1>2 DEF Writing
  <2> QED
    BY <2>1
<1>4. N \in Nat /\ Len(F) \in Nat /\ Spaced(q, msgs, N) /\ \A k \in 1 .. N : msgs[k] \in Saying
  BY SpacedIs
<1>5. ASSUME f = 0
      PROVE  NotFound(R, key)
  <2>1. r = <<>>
    BY <1>1, <1>2, <1>5, NothingIs DEF w
  <2> QED
    BY <1>5, <2>1, Zenon DEF NotFound, w
<1>6. f = 0 \/ (f \in Nat /\ f >= 1 /\ Stands(R, w, f))
  BY <1>1, <1>2, FindIs
<1>7. ASSUME f # 0
      PROVE  \E k \in 1 .. N : ContentFound(R, o, n, msgs[k], q[k - 1])
  <2> HIDE DEF f, lr
  <2>1. f \in Nat /\ f \in 1 .. lr - 3 /\ ContentAt(R, f)
    BY <1>1, <1>3, <1>6, <1>7 DEF lr
  <2>2. /\ f \in 1 .. lr /\ f + 1 \in 1 .. lr /\ f + 2 \in 1 .. lr /\ f + 3 \in 1 .. lr
        /\ o + (f + 1) = (o + f) + 1 /\ o + (f + 2) = (o + f) + 2 /\ o + (f + 3) = (o + f) + 3
        /\ o + f \in 1 .. n
    BY <2>1, <1>2, <1>3
  <2>3. ContentAt(F, o + f)
    BY <2>1, <2>2, <1>2 DEF ContentAt
  <2>4. o + f \in 1 .. Len(F)
    BY <2>2, <1>2, <1>4
  <2>6. PICK k \in 1 .. N : o + f = q[k - 1] + 12
    BY <2>3, <2>4, KeysIn
  <2> DEFINE m == msgs[k]
             i == q[k - 1]
             s == m.content
             e == Spelling(m)
             le == Len(e)
             v == f + 4
  <2>7. i \in Nat
    <3>1. k - 1 \in 0 .. N
      BY <1>4
    <3> QED
      BY <3>1, <1>4 DEF Spaced
  <2>8. m \in Saying
    BY <1>4
  <2>9. F[i + 16] = Quote /\ (\A x \in 1 .. le : F[i + 16 + x] = e[x]) /\ F[i + 17 + le] = Quote
    <3>1. ItemAt(F, i, Speaker(m), Spelling(m), q[k])
      BY DEF Filed
    <3> QED
      BY <3>1 DEF ItemAt
  <2>10. o + f = i + 12
    BY <2>6
  <2> HIDE DEF m, i
  <2>11. e \in Writing /\ s \in Writing /\ \E b : Spelt(e, s, b)
    BY <2>8, SayingIs
  <2>12. PICK b : Spelt(e, s, b)
    BY <2>11
  <2>a. Width(m) = 16 + le
    BY DEF Width
  <2> HIDE DEF e, s
  <2>b. le \in Nat
    <3>1. e \in Seq(Char)
      BY <2>11 DEF Writing
    <3> QED
      BY <3>1
  <2> HIDE DEF le
  <2>13. r \in Writing /\ (i + Width(m) <= n => r = s)
    <3>1. CASE v > lr
      <4>1. f + Len(key) + 3 > Len(R)
        BY <3>1, <1>1, <1>3, <2>1 DEF lr
      <4>2. r = <<>>
        BY <4>1, <1>1, <1>2, <2>1, NothingIs DEF w, f
      <4>3. ~(i + Width(m) <= n)
        BY <3>1, <2>1, <2>7, <2>10, <2>a, <2>b, <1>2, <1>3
      <4>4. <<>> \in Writing
        BY DEF Writing
      <4> HIDE DEF r
      <4> QED
        BY <4>2, <4>3, <4>4
    <3>2. CASE ~(v > lr)
      <4>1. v \in 1 .. lr /\ i + 16 = o + v /\ i + 16 \in Nat /\ i + 16 + 1 + le = i + 17 + le
        BY <3>2, <2>1, <2>7, <2>10, <2>b, <1>2, <1>3
      <4>2. StringAt(F, i + 16, e)
        BY <4>1, <2>9, Zenon DEF StringAt, le
      <4>3. Opens(R, v, e)
        <5>1. StringAt(F, o + v, e)
          BY <4>1, <4>2
        <5>2. v \in 1 .. Len(R)
          BY <4>1 DEF lr
        <5> HIDE DEF v
        <5> QED
          BY <5>1, <5>2, <2>11, OpensIn
      <4>4. Behind(R, key, v)
        <5>1. v = f + Len(key) + 3 /\ f \in Nat \ {0}
          BY <1>1, <1>7, <2>1
        <5> QED
          BY <5>1, Zenon DEF Behind, f, w
      <4> HIDE DEF v
      <4>5. GivenBack(r, e, s, Len(R) - v)
        BY <4>3, <4>4, <1>1, <1>2, <2>12, StringIs
      <4>6. r \in Writing /\ (lr - v >= le => r = s)
        BY <4>5 DEF GivenBack, lr, le
      <4> HIDE DEF r
      <4>8. i + Width(m) <= n => lr - v >= le
        BY <4>1, <2>7, <2>a, <2>b, <1>2, <1>3
      <4> QED
        BY <4>6, <4>8
    <3> QED
      BY <3>1, <3>2
  <2>14. ContentFound(R, o, n, m, i)
    <3>1. f \in 1 .. Len(R) - 3
      BY <2>1 DEF lr
    <3> QED
      BY <3>1, <2>10, <2>13, Zenon DEF ContentFound, f, w, r, s, key
  <2> QED
    BY <2>14 DEF m, i
<1> QED
  BY <1>5, <1>7 DEF N, key

-----------------------------------------------------------------------------
(* Loading.                                                                *)

\* What is made of the word "role" at the place g.
LoadedAt(t, g) ==
  LET rest == SubSeq(t, g - 1, Len(t))
      role == json_extract_string(rest, Role)
      content == unescape_json(json_extract_string(rest, <<"content">>))
  IN IF role = <<>> THEN <<>> ELSE <<[role |-> role, content |-> content]>>

Loads(f, t) ==
  \A p \in 1 .. Len(t) + 1 :
    f[p] = IF find(t, Str(Role), p) = 0 THEN <<>>
           ELSE LoadedAt(t, find(t, Str(Role), p)) \o f[find(t, Str(Role), p) + 4]

\* Where "role" is found from p on, and where it is looked for next.
LEMMA RoleIsAt ==
  ASSUME NEW t \in Writing, NEW p \in 1 .. Len(t) + 1
  PROVE  LET g == find(t, Str(Role), p)
         IN /\ Len(t) \in Nat
            /\ g = 0 => \A i \in Nat : i >= p /\ i <= Len(t) - 3 => ~RoleAt(t, i)
            /\ g # 0 => /\ g \in p .. Len(t) - 3 /\ g + 4 \in p + 1 .. Len(t) + 1 /\ RoleAt(t, g)
                        /\ \A i \in Nat : i >= p /\ i <= Len(t) - 3 /\ RoleAt(t, i) => g <= i
<1> DEFINE w == Str(Role)
           g == find(t, w, p)
           n == Len(t)
<1>1. /\ w \in Writing /\ w # <<>>
      /\ \A s, i : Len(s) \in Nat => (Stands(s, w, i) <=> i \in 1 .. Len(s) - 3 /\ RoleAt(s, i))
  BY WordsAre
<1> HIDE DEF w
<1>2. n \in Nat
  <2>1. t \in Seq(Char)
    BY DEF Writing
  <2> QED
    BY <2>1
<1>3. p \in Nat \ {0} /\ p >= 1
  BY <1>2
<1>4. \/ g = 0 /\ \A i \in Nat : i >= p => ~Stands(t, w, i)
      \/ /\ g \in Nat /\ g >= p /\ Stands(t, w, g)
         /\ \A i \in Nat : i >= p /\ Stands(t, w, i) => g <= i
  BY <1>1, <1>3, FindIs
<1>5. \A i : Stands(t, w, i) <=> i \in 1 .. n - 3 /\ RoleAt(t, i)
  BY <1>1, <1>2
<1> HIDE DEF g, n
<1>6. \A i \in Nat : i >= p /\ i <= n - 3 => i \in 1 .. n - 3
  BY <1>2, <1>3
<1>7. ASSUME g = 0
      PROVE  \A i \in Nat : i >= p /\ i <= n - 3 => ~RoleAt(t, i)
  <2>1. g >= p => FALSE
    BY <1>3, <1>7
  <2> QED
    BY <2>1, <1>4, <1>5, <1>6, <1>7, Zenon
<1>8. ASSUME g # 0
      PROVE  /\ g \in p .. n - 3 /\ g + 4 \in p + 1 .. n + 1 /\ RoleAt(t, g)
             /\ \A i \in Nat : i >= p /\ i <= n - 3 /\ RoleAt(t, i) => g <= i
  <2>1. /\ g \in Nat /\ g >= p /\ g \in 1 .. n - 3 /\ RoleAt(t, g)
        /\ \A i \in Nat : i >= p /\ Stands(t, w, i) => g <= i
    BY <1>4, <1>5, <1>8, Zenon
  <2>2. g \in p .. n - 3 /\ g + 4 \in p + 1 .. n + 1
    BY <2>1, <1>2, <1>3
  <2> QED
    BY <2>1, <2>2, <1>5, <1>6, Zenon
<1> QED
  BY <1>2, <1>7, <1>8, Zenon DEF g, w, n

\* The recursive function in load_session exists and does this.
LEMMA LoadIs ==
  ASSUME NEW t \in Writing
  PROVE  \E f : Loads(f, t) /\ load_session(t) = f[1]
<1> DEFINE n == Len(t)
           At(p) == find(t, Str(Role), p)
           Body(f) == [p \in 1 .. n + 1 |-> IF At(p) = 0 THEN <<>> ELSE LoadedAt(t, At(p)) \o f[At(p) + 4]]
           F == CHOOSE f : f = Body(f)
           next == [p \in 1 .. n + 1 |-> IF At(p) = 0 THEN 0 ELSE At(p) + 4]
           piece == [p \in 1 .. n + 1 |-> LoadedAt(t, At(p))]
<1>1. n \in Nat
  <2>1. t \in Seq(Char)
    BY DEF Writing
  <2> QED
    BY <2>1
<1>2. \A p \in 1 .. n + 1 : At(p) # 0 => At(p) + 4 \in p + 1 .. n + 1
  BY RoleIsAt
<1>a. load_session(t) = F[1]
  BY Zenon DEF load_session, LoadedAt
<1> HIDE DEF At, n
<1>3. \A p \in 1 .. n + 1 : next[p] = 0 \/ next[p] \in p + 1 .. n + 1
  BY <1>2
<1>4. \E f : f = Body(f)
  <2>a. PICK f : Walks(f, n, next, piece)
    <3> HIDE DEF next, piece
    <3> QED
      BY <1>1, <1>3, WalkExists
  <2>1. f = [p \in 1 .. n + 1 |-> IF next[p] = 0 THEN <<>> ELSE piece[p] \o f[next[p]]]
    <3> HIDE DEF next, piece
    <3> QED
      BY <2>a DEF Walks
  <2>2. ASSUME NEW p \in 1 .. n + 1
        PROVE  f[p] = IF At(p) = 0 THEN <<>> ELSE LoadedAt(t, At(p)) \o f[At(p) + 4]
    <3>1. f[p] = IF next[p] = 0 THEN <<>> ELSE piece[p] \o f[next[p]]
      <4> HIDE DEF next, piece
      <4> QED
        BY <2>1
    <3>2. piece[p] = LoadedAt(t, At(p))
      OBVIOUS
    <3>3. CASE At(p) = 0
      <4>1. next[p] = 0
        BY <3>3
      <4> HIDE DEF next, piece
      <4> QED
        BY <3>1, <3>3, <4>1
    <3>4. CASE At(p) # 0
      <4>1. next[p] = At(p) + 4
        BY <3>4
      <4>2. At(p) + 4 # 0
        <5>1. At(p) + 4 \in p + 1 .. n + 1
          BY <1>2, <3>4
        <5> QED
          BY <5>1, <1>1
      <4> HIDE DEF next, piece
      <4> QED
        BY <3>1, <3>2, <3>4, <4>1, <4>2
    <3> QED
      BY <3>3, <3>4
  <2>3. f = Body(f)
    <3> HIDE DEF next, piece
    <3> QED
      BY <2>1, <2>2
  <2> HIDE DEF Body
  <2> QED
    BY <2>3
<1>5. F = Body(F)
  <2> HIDE DEF Body
  <2> QED
    BY <1>4
<1> HIDE DEF F
<1>6. \A p \in 1 .. n + 1 : F[p] = IF At(p) = 0 THEN <<>> ELSE LoadedAt(t, At(p)) \o F[At(p) + 4]
  BY <1>5
<1>7. Loads(F, t)
  BY <1>6, Zenon DEF Loads, At, n
<1> QED
  BY <1>a, <1>7

\* Messages that begin so near to one another are one.
LEMMA SameMessage ==
  ASSUME NEW msgs, NEW n \in Nat, NEW q, Spaced(q, msgs, n), NEW i \in 1 .. n, NEW k \in 1 .. n,
         q[i - 1] <= q[k - 1], q[k - 1] < q[i - 1] + 19
  PROVE  i = k
<1>1. /\ \A x \in 0 .. n : q[x] \in Nat
      /\ \A x \in 1 .. n : Width(msgs[x]) \in Nat /\ Width(msgs[x]) >= 16 /\ q[x - 1] + Width(msgs[x]) + 3 <= q[x]
      /\ \A x, y \in 0 .. n : x <= y => q[x] <= q[y]
  BY DEF Spaced
<1>2. \A x \in 1 .. n : q[x - 1] + 19 <= q[x]
  <2> SUFFICES ASSUME NEW x \in 1 .. n
               PROVE  q[x - 1] + 19 <= q[x]
    OBVIOUS
  <2> DEFINE w == Width(msgs[x])
  <2>1. x - 1 \in 0 .. n /\ x \in 0 .. n
    OBVIOUS
  <2>2. q[x - 1] \in Nat /\ q[x] \in Nat /\ w \in Nat /\ w >= 16 /\ q[x - 1] + w + 3 <= q[x]
    BY <2>1, <1>1
  <2> HIDE DEF w
  <2> QED
    BY <2>2
<1>3. i \in 0 .. n /\ i - 1 \in 0 .. n /\ k \in 0 .. n /\ k - 1 \in 0 .. n
  OBVIOUS
<1>4. q[i] \in Nat /\ q[i - 1] \in Nat /\ q[k] \in Nat /\ q[k - 1] \in Nat
  BY <1>1, <1>3
<1>5. CASE i < k
  <2>1. q[i] <= q[k - 1]
    <3>1. i <= k - 1
      BY <1>5
    <3> QED
      BY <3>1, <1>1, <1>3
  <2> QED
    BY <2>1, <1>2, <1>4
<1>6. CASE k < i
  <2>1. q[k] <= q[i - 1]
    <3>1. k <= i - 1
      BY <1>6
    <3> QED
      BY <3>1, <1>1, <1>3
  <2> QED
    BY <2>1, <1>2, <1>4
<1> QED
  BY <1>5, <1>6

\* A word makes a message, or none.
LEMMA LoadedAtIs ==
  ASSUME NEW msgs \in Seq(Saying), NEW F, NEW q, Filed(F, msgs, q),
         NEW t, NEW n, RestOf(t, F, 0, n), n <= Len(F), NEW g \in 2 .. n
  PROVE  LoadedAt(t, g) = <<>> \/ \E x \in Saying : LoadedAt(t, g) = <<x>>
<1> DEFINE R == SubSeq(t, g - 1, Len(t))
           o == g - 2
           role == json_extract_string(R, Role)
           text == json_extract_string(R, <<"content">>)
           x == [role |-> role, content |-> unescape_json(text)]
<1>1. RestOf(R, F, o, n)
  BY RestIs
<1>2. LoadedAt(t, g) = IF role = <<>> THEN <<>> ELSE <<x>>
  BY DEF LoadedAt
<1> HIDE DEF R, o
<1>3. role \in {<<>>, <<"user">>, <<"assistant">>}
  <2>1. CASE NotFound(R, Role)
    BY <2>1 DEF NotFound
  <2>2. CASE \E k \in 1 .. Len(msgs) : RoleFound(R, o, n, msgs[k], q[k - 1])
    <3>1. PICK k \in 1 .. Len(msgs) : RoleFound(R, o, n, msgs[k], q[k - 1])
      BY <2>2
    <3>2. role \in {<<>>, msgs[k].role}
      BY <3>1, Zenon DEF RoleFound
    <3>3. msgs[k].role \in {<<"user">>, <<"assistant">>}
      <4>1. msgs[k] \in Saying
        OBVIOUS
      <4> QED
        BY <4>1 DEF Saying
    <3> QED
      BY <3>2, <3>3, Zenon
  <2> QED
    BY <2>1, <2>2, <1>1, RoleValue
<1>4. text \in Writing
  <2>1. CASE NotFound(R, <<"content">>)
    <3>1. text = <<>>
      BY <2>1, Zenon DEF NotFound
    <3>2. <<>> \in Writing
      BY DEF Writing
    <3> QED
      BY <3>1, <3>2, Zenon
  <2>2. CASE \E k \in 1 .. Len(msgs) : ContentFound(R, o, n, msgs[k], q[k - 1])
    BY <2>2, Zenon DEF ContentFound
  <2> QED
    BY <2>1, <2>2, <1>1, ContentValue
<1>5. unescape_json(text) \in Writing
  BY <1>4, UnescapedIs
<1> HIDE DEF role, text
<1>6. ASSUME role # <<>>
      PROVE  x \in Saying
  <2>1. role \in {<<"user">>, <<"assistant">>}
    BY <1>3, <1>6, Zenon
  <2> QED
    BY <2>1, <1>5, Zenon DEF Saying
<1> QED
  BY <1>2, <1>6, Zenon

\* The message that is made is the one whose "role" it is, if its content is whole.
LEMMA LoadedWhole ==
  ASSUME NEW msgs \in Seq(Saying), NEW F, NEW q, Filed(F, msgs, q),
         NEW t, NEW n, RestOf(t, F, 0, n), n <= Len(F),
         NEW k \in 1 .. Len(msgs), q[k - 1] + Width(msgs[k]) <= n, Restorable(msgs[k])
  PROVE  LoadedAt(t, q[k - 1] + 3) = <<msgs[k]>>
<1> DEFINE N == Len(msgs)
           m == msgs[k]
           i == q[k - 1]
           w == Width(m)
           g == i + 3
           R == SubSeq(t, g - 1, Len(t))
           o == g - 2
           lr == Len(R)
           role == json_extract_string(R, Role)
           text == json_extract_string(R, <<"content">>)
<1>1. N \in Nat /\ Len(F) \in Nat /\ Spaced(q, msgs, N) /\ k \in 1 .. N /\ m \in Saying
  BY SpacedIs
<1>2. i \in Nat /\ w \in Nat /\ w >= 16 /\ i + w <= n
  <2>1. k - 1 \in 0 .. N
    BY <1>1
  <2> QED
    BY <2>1, <1>1 DEF Spaced
<1>3. n \in Nat
  BY DEF RestOf
<1>4. ItemAt(F, i, Speaker(m), Spelling(m), q[k])
  BY DEF Filed
<1>5. Restorable(m)
  OBVIOUS
<1>6. LoadedAt(t, g) = IF role = <<>> THEN <<>> ELSE <<[role |-> role, content |-> unescape_json(text)]>>
  BY DEF LoadedAt
<1> HIDE DEF N, m, i, w
<1>7. g \in 2 .. n /\ o = i + 1 /\ g - 2 = o
  BY <1>2, <1>3
<1>8. RestOf(R, F, g - 2, n)
  <2> HIDE DEF g
  <2> QED
    BY <1>7, RestIs
<1>9. RestOf(R, F, o, n)
  BY <1>8
<1> HIDE DEF R
<1>10. R \in Writing /\ o + lr = n /\ \A x \in 1 .. lr : R[x] = F[o + x]
  BY <1>9 DEF RestOf
<1>11. lr \in Nat
  <2>1. R \in Seq(Char)
    BY <1>10 DEF Writing
  <2> QED
    BY <2>1
<1> HIDE DEF o, lr
<1>12. /\ lr = (n - i) - 1 /\ lr >= 15
       /\ \A x \in 1 .. lr : R[x] = F[(i + 1) + x]
  BY <1>2, <1>3, <1>7, <1>10, <1>11
<1>13. /\ R[2] = Quote /\ R[3] = "r" /\ R[4] = "ole" /\ R[5] = Quote /\ R[6] = ":"
       /\ R[11] = Quote /\ R[12] = "content" /\ R[13] = Quote /\ R[14] = ":"
  <2>1. /\ 2 \in 1 .. lr /\ 3 \in 1 .. lr /\ 4 \in 1 .. lr /\ 5 \in 1 .. lr /\ 6 \in 1 .. lr
        /\ 11 \in 1 .. lr /\ 12 \in 1 .. lr /\ 13 \in 1 .. lr /\ 14 \in 1 .. lr
    BY <1>11, <1>12
  <2>2. /\ (i + 1) + 2 = i + 3 /\ (i + 1) + 3 = i + 4 /\ (i + 1) + 4 = i + 5 /\ (i + 1) + 5 = i + 6
        /\ (i + 1) + 6 = i + 7 /\ (i + 1) + 11 = i + 12 /\ (i + 1) + 12 = i + 13
        /\ (i + 1) + 13 = i + 14 /\ (i + 1) + 14 = i + 15
    BY <1>2
  <2>3. /\ F[i + 3] = Quote /\ F[i + 4] = "r" /\ F[i + 5] = "ole" /\ F[i + 6] = Quote /\ F[i + 7] = ":"
        /\ F[i + 12] = Quote /\ F[i + 13] = "content" /\ F[i + 14] = Quote /\ F[i + 15] = ":"
    BY <1>4 DEF ItemAt
  <2>4. /\ R[2] = F[(i + 1) + 2] /\ R[3] = F[(i + 1) + 3] /\ R[4] = F[(i + 1) + 4] /\ R[5] = F[(i + 1) + 5]
        /\ R[6] = F[(i + 1) + 6] /\ R[11] = F[(i + 1) + 11] /\ R[12] = F[(i + 1) + 12]
        /\ R[13] = F[(i + 1) + 13] /\ R[14] = F[(i + 1) + 14]
    <3>1. \A x \in 1 .. lr : R[x] = F[(i + 1) + x]
      BY <1>12
    <3> HIDE DEF lr
    <3> QED
      BY <2>1, <3>1
  <2>5. /\ R[2] = F[i + 3] /\ R[3] = F[i + 4] /\ R[4] = F[i + 5] /\ R[5] = F[i + 6] /\ R[6] = F[i + 7]
        /\ R[11] = F[i + 12] /\ R[12] = F[i + 13] /\ R[13] = F[i + 14] /\ R[14] = F[i + 15]
    BY <2>2, <2>4
  <2> QED
    BY <2>3, <2>5
<1>14. RoleAt(R, 2) /\ R[2 + 4] = ":" /\ ContentAt(R, 11)
  <2>1. 2 + 1 = 3 /\ 2 + 2 = 4 /\ 2 + 3 = 5 /\ 2 + 4 = 6 /\ 11 + 1 = 12 /\ 11 + 2 = 13 /\ 11 + 3 = 14
    OBVIOUS
  <2> QED
    BY <2>1, <1>13, Zenon DEF RoleAt, ContentAt
<1>15. role = m.role
  <2> DEFINE word == Str(Role) \o <<":">>
             f == find(R, word, 1)
  <2>1. Stands(R, word, 2)
    <3>1. 2 \in 1 .. Len(R) - 4
      BY <1>11, <1>12 DEF lr
    <3> QED
      BY <3>1, <1>11, <1>14, WordsAre DEF lr
  <2>2. word \in Writing /\ word # <<>>
    BY WordsAre
  <2>3. f \in Nat /\ f >= 1 /\ f <= 2
    <3> HIDE DEF word
    <3>1. 1 \in Nat \ {0} /\ 2 \in Nat /\ 2 >= 1
      OBVIOUS
    <3>2. \/ f = 0 /\ \A x \in Nat : x >= 1 => ~Stands(R, word, x)
          \/ f \in Nat /\ f >= 1 /\ \A x \in Nat : x >= 1 /\ Stands(R, word, x) => f <= x
      BY <3>1, <2>2, <1>10, FindIs
    <3> HIDE DEF f
    <3> QED
      BY <2>1, <3>1, <3>2
  <2>4. ~NotFound(R, Role)
    <3>1. f # 0
      <4> HIDE DEF f
      <4> QED
        BY <2>3
    <3> QED
      BY <3>1, Zenon DEF NotFound
  <2>5. PICK x \in 1 .. N : RoleFound(R, o, n, msgs[x], q[x - 1])
    BY <2>4, <1>9, RoleValue DEF N
  <2>6. o + f = q[x - 1] + 3 /\ (q[x - 1] + 9 <= n => role = msgs[x].role)
    BY <2>5, Zenon DEF RoleFound
  <2> HIDE DEF f, role
  <2>7. q[x - 1] \in Nat
    <3>1. x - 1 \in 0 .. N
      BY <1>1
    <3> QED
      BY <3>1, <1>1 DEF Spaced
  <2>8. q[x - 1] <= i /\ i < q[x - 1] + 19 /\ q[x - 1] + 9 <= n
    <3> DEFINE a == q[x - 1]
    <3>1. a \in Nat /\ o + f = a + 3
      BY <2>6, <2>7
    <3>2. o = i + 1 /\ i \in Nat /\ n \in Nat /\ i + 16 <= n
      BY <1>2, <1>3, <1>7
    <3> HIDE DEF a
    <3>3. a <= i /\ i < a + 19 /\ a + 9 <= n
      BY <2>3, <3>1, <3>2
    <3> QED
      BY <3>3 DEF a
  <2>9. x = k
    BY <2>8, <1>1, SameMessage DEF i
  <2> QED
    BY <2>6, <2>8, <2>9 DEF m
<1>16. text = m.content
  <2> DEFINE word == Str(<<"content">>) \o <<":">>
             f == find(R, word, 1)
  <2>1. Stands(R, word, 11)
    <3>1. 11 \in 1 .. Len(R) - 3
      BY <1>11, <1>12 DEF lr
    <3> QED
      BY <3>1, <1>11, <1>14, WordsAre DEF lr
  <2>2. word \in Writing /\ word # <<>>
    BY WordsAre
  <2>3. f \in Nat /\ f >= 1 /\ f <= 11
    <3> HIDE DEF word
    <3>1. 1 \in Nat \ {0} /\ 11 \in Nat /\ 11 >= 1
      OBVIOUS
    <3>2. \/ f = 0 /\ \A x \in Nat : x >= 1 => ~Stands(R, word, x)
          \/ f \in Nat /\ f >= 1 /\ \A x \in Nat : x >= 1 /\ Stands(R, word, x) => f <= x
      BY <3>1, <2>2, <1>10, FindIs
    <3> HIDE DEF f
    <3> QED
      BY <2>1, <3>1, <3>2
  <2>4. ~NotFound(R, <<"content">>)
    <3>1. f # 0
      <4> HIDE DEF f
      <4> QED
        BY <2>3
    <3> QED
      BY <3>1, Zenon DEF NotFound
  <2>5. PICK x \in 1 .. N : ContentFound(R, o, n, msgs[x], q[x - 1])
    BY <2>4, <1>9, ContentValue DEF N
  <2>6. o + f = q[x - 1] + 12 /\ (q[x - 1] + Width(msgs[x]) <= n => text = msgs[x].content)
    BY <2>5, Zenon DEF ContentFound
  <2> HIDE DEF f, text
  <2>7. q[x - 1] \in Nat
    <3>1. x - 1 \in 0 .. N
      BY <1>1
    <3> QED
      BY <3>1, <1>1 DEF Spaced
  <2>8. q[x - 1] <= i /\ i < q[x - 1] + 19
    <3> DEFINE a == q[x - 1]
    <3>1. a \in Nat /\ o + f = a + 12
      BY <2>6, <2>7
    <3>2. o = i + 1 /\ i \in Nat
      BY <1>2, <1>7
    <3> HIDE DEF a
    <3>3. a <= i /\ i < a + 19
      BY <2>3, <3>1, <3>2
    <3> QED
      BY <3>3 DEF a
  <2>9. x = k
    BY <2>8, <1>1, SameMessage DEF i
  <2> QED
    BY <2>6, <2>9, <1>2 DEF m, i, w
<1>17. unescape_json(text) = m.content
  <2>1. m.content \in Writing
    BY <1>1, SayingIs
  <2>2. \A x \in DOMAIN m.content : m.content[x] # Bs
    BY <1>5 DEF Restorable
  <2> QED
    BY <2>1, <2>2, <1>16, UnescapedIs
<1>18. m.role # <<>>
  <2>1. Len(m.role) = 1
    BY <1>1, RoleSpelt
  <2>2. Len(<<>>) # 1
    OBVIOUS
  <2> QED
    BY <2>1, <2>2, Zenon
<1>19. [role |-> role, content |-> unescape_json(text)] = m
  <2> HIDE DEF role, text
  <2>1. m = [role |-> m.role, content |-> m.content]
    BY <1>1 DEF Saying
  <2> QED
    BY <2>1, <1>15, <1>17, Zenon
<1>20. LoadedAt(t, g) = <<m>>
  <2> HIDE DEF role, text, g
  <2> QED
    BY <1>6, <1>15, <1>18, <1>19
<1> QED
  BY <1>20 DEF m, i

\* A text cut off has its words where the whole one has them.
LEMMA WordsInCut ==
  ASSUME NEW F \in Writing, NEW t, NEW n, RestOf(t, F, 0, n), n <= Len(F), NEW g \in 1 .. n - 3
  PROVE  /\ RoleAt(t, g) <=> RoleAt(F, g)
         /\ g \in 1 .. Len(F) /\ (RoleAt(t, g) /\ F[1] = "[" => g \in 2 .. n)
<1>1. n \in Nat /\ 0 + Len(t) = n /\ \A x \in 1 .. Len(t) : t[x] = F[0 + x]
  BY DEF RestOf
<1>2. \A x \in 1 .. n : t[x] = F[x]
  <2>1. t \in Seq(Char)
    BY DEF RestOf, Writing
  <2>2. Len(t) = n
    BY <2>1, <1>1
  <2>3. \A x \in 1 .. n : 0 + x = x
    BY <1>1
  <2> QED
    BY <2>2, <2>3, <1>1
<1>3. F \in Seq(Char) /\ n <= Len(F)
  BY DEF Writing
<1>4. g \in 1 .. n /\ g + 1 \in 1 .. n /\ g + 2 \in 1 .. n /\ g + 3 \in 1 .. n /\ g \in 1 .. Len(F)
  BY <1>1, <1>3
<1>5. RoleAt(t, g) <=> RoleAt(F, g)
  BY <1>2, <1>4 DEF RoleAt
<1>6. ASSUME RoleAt(t, g), F[1] = "["
      PROVE  g \in 2 .. n
  <2>1. F[g] = Quote
    BY <1>5, <1>6 DEF RoleAt
  <2>2. g # 1
    <3>1. "[" # Quote
      BY Apart
    <3> QED
      BY <2>1, <3>1, <1>6
  <2> QED
    BY <2>2, <1>1
<1> QED
  BY <1>4, <1>5, <1>6

\* What is loaded are messages, whatever the contents are.
LEMMA LoadedSayings ==
  ASSUME NEW msgs \in Seq(Saying), NEW F, NEW q, Filed(F, msgs, q),
         NEW t, NEW n, RestOf(t, F, 0, n), n <= Len(F), NEW f, Loads(f, t)
  PROVE  n \in Nat /\ Len(t) = n /\ \A p \in 1 .. n + 1 : f[p] \in Seq(Saying)
<1> DEFINE Ok(p) == f[p] \in Seq(Saying)
           T == {k \in Nat : \A p \in 1 .. n + 1 : k < p => Ok(p)}
<1>1. n \in Nat /\ Len(t) = n /\ t \in Writing
  <2>1. n \in Nat /\ t \in Seq(Char) /\ 0 + Len(t) = n
    BY DEF RestOf, Writing
  <2> QED
    BY <2>1 DEF Writing
<1>2. F[1] = "[" /\ F \in Writing
  BY DEF Filed
<1>3. <<>> \in Seq(Saying) /\ \A s \in Seq(Saying) : <<>> \o s = s
  OBVIOUS
<1>4. ASSUME NEW k \in 1 .. n + 1, \A p \in 1 .. n + 1 : k < p => f[p] \in Seq(Saying)
      PROVE  f[k] \in Seq(Saying)
  <2> DEFINE g == find(t, Str(Role), k)
             a == LoadedAt(t, g)
             b == f[g + 4]
  <2>1. f[k] = IF g = 0 THEN <<>> ELSE a \o b
    BY <1>1 DEF Loads
  <2>2. g # 0 => g \in k .. n - 3 /\ g + 4 \in k + 1 .. n + 1 /\ RoleAt(t, g)
    BY <1>1, RoleIsAt
  <2> HIDE DEF g, a, b
  <2>3. CASE g = 0
    BY <2>1, <2>3, <1>3, Zenon
  <2>4. CASE g # 0
    <3>1. g \in 1 .. n - 3 /\ g + 4 \in 1 .. n + 1 /\ k < g + 4 /\ RoleAt(t, g)
      BY <2>2, <2>4, <1>1
    <3>2. g \in 2 .. n
      BY <3>1, <1>2, WordsInCut
    <3>3. a = <<>> \/ \E x \in Saying : a = <<x>>
      BY <3>2, LoadedAtIs DEF a
    <3>4. b \in Seq(Saying)
      BY <3>1, <1>4 DEF b
    <3>5. a \o b \in Seq(Saying)
      BY <3>3, <3>4, <1>3, Put
    <3> QED
      BY <2>1, <2>4, <3>5, Zenon
  <2> QED
    BY <2>3, <2>4
<1> HIDE DEF Ok
<1>5. n + 1 \in T
  BY <1>1
<1>6. \A k \in 1 .. n + 1 : k \in T => k - 1 \in T
  <2> SUFFICES ASSUME NEW k \in 1 .. n + 1, k \in T
               PROVE  k - 1 \in T
    OBVIOUS
  <2>1. \A p \in 1 .. n + 1 : k < p => Ok(p)
    OBVIOUS
  <2>2. Ok(k)
    BY <2>1, <1>4 DEF Ok
  <2>3. \A p \in 1 .. n + 1 : k - 1 < p => p = k \/ k < p
    BY <1>1
  <2>4. \A p \in 1 .. n + 1 : k - 1 < p => Ok(p)
    BY <2>1, <2>2, <2>3, Zenon
  <2>5. k - 1 \in Nat
    OBVIOUS
  <2> QED
    BY <2>4, <2>5
<1>7. 0 \in T
  <2> HIDE DEF T
  <2>1. n + 1 \in Nat /\ 0 \in 0 .. n + 1
    BY <1>1
  <2>2. \A k \in 0 .. n + 1 : k \in T
    BY <2>1, <1>5, <1>6, Downwards
  <2> QED
    BY <2>1, <2>2
<1>8. \A p \in 1 .. n + 1 : Ok(p)
  BY <1>1, <1>7
<1> QED
  BY <1>1, <1>8 DEF Ok

\* The first K messages have their contents whole in the first n characters.
Whole(msgs, q, n, K) ==
  /\ K \in 0 .. Len(msgs)
  /\ \A k \in 1 .. K : q[k - 1] + Width(msgs[k]) <= n
  /\ K < Len(msgs) => n < q[K] + Width(msgs[K + 1])

\* There are such a number of messages; in a whole file it is all of them.
LEMMA WholeMessages ==
  ASSUME NEW msgs \in Seq(Saying), NEW F, NEW q, Filed(F, msgs, q), NEW n \in Nat, n <= Len(F)
  PROVE  \E K : Whole(msgs, q, n, K) /\ (n = Len(F) => K = Len(msgs))
<1> DEFINE N == Len(msgs)
           W(k) == Width(msgs[k])
           S == {k \in 0 .. N : k = 0 \/ q[k - 1] + W(k) <= n}
           K == Max(S)
<1>1. N \in Nat /\ Len(F) \in Nat /\ Len(F) = q[N] + 2 /\ Spaced(q, msgs, N)
  BY SpacedIs
<1>2. /\ \A k \in 0 .. N : q[k] \in Nat
      /\ \A k \in 1 .. N : W(k) \in Nat /\ W(k) >= 16 /\ q[k - 1] + W(k) + 3 <= q[k]
      /\ \A i, k \in 0 .. N : i <= k => q[i] <= q[k]
  BY <1>1 DEF Spaced
<1> HIDE DEF N, W
<1>3. K \in S /\ \A y \in S : y <= K
  <2>1. S \subseteq 0 .. N /\ 0 \in S
    BY <1>1
  <2>2. S # {}
    BY <2>1
  <2> HIDE DEF S
  <2> QED
    BY <2>1, <2>2, <1>1, LargestOf
<1>4. K \in 0 .. N /\ (K = 0 \/ q[K - 1] + W(K) <= n)
  BY <1>3
<1>5. \A y \in 0 .. N : y = 0 \/ q[y - 1] + W(y) <= n => y <= K
  BY <1>3
<1> HIDE DEF K
<1>6. ASSUME NEW k \in 1 .. K
      PROVE  q[k - 1] + W(k) <= n
  <2>1. CASE k = K
    <3>1. K # 0
      BY <1>4
    <3> QED
      BY <2>1, <3>1, <1>4
  <2>2. CASE k # K
    <3>1. k \in 1 .. N /\ k - 1 \in 0 .. N /\ k \in 0 .. N /\ K \in 1 .. N /\ K - 1 \in 0 .. N /\ k <= K - 1 /\ K # 0
      BY <2>2, <1>1, <1>4
    <3> DEFINE a == q[k - 1]
               c == q[k]
               d == q[K - 1]
               x == W(k)
               y == W(K)
    <3>2. a \in Nat /\ c \in Nat /\ d \in Nat /\ x \in Nat /\ y \in Nat
      BY <3>1, <1>2
    <3>3. a + x + 3 <= c /\ c <= d
      BY <3>1, <1>2
    <3>4. d + y <= n
      BY <3>1, <1>4
    <3> HIDE DEF a, c, d, x, y
    <3>5. a + x <= n
      BY <3>2, <3>3, <3>4
    <3> QED
      BY <3>5 DEF a, x
  <2> QED
    BY <2>1, <2>2
<1>7. ASSUME K < N
      PROVE  n < q[K] + W(K + 1)
  <2>1. K + 1 \in 1 .. N /\ K + 1 \in 0 .. N /\ K \in 0 .. N /\ (K + 1) - 1 = K /\ ~(K + 1 <= K)
    BY <1>1, <1>4, <1>7
  <2>2. ~(q[(K + 1) - 1] + W(K + 1) <= n)
    BY <2>1, <1>5
  <2>3. q[K] \in Nat /\ W(K + 1) \in Nat
    BY <2>1, <1>2
  <2> QED
    BY <2>1, <2>2, <2>3
<1>8. ASSUME n = Len(F)
      PROVE  K = N
  <2>1. N = 0 \/ q[N - 1] + W(N) <= n
    <3>1. ASSUME N # 0
          PROVE  q[N - 1] + W(N) <= n
      <4>1. N \in 1 .. N /\ N \in 0 .. N /\ N - 1 \in 0 .. N
        BY <1>1, <3>1
      <4>2. q[N - 1] \in Nat /\ q[N] \in Nat /\ W(N) \in Nat /\ q[N - 1] + W(N) + 3 <= q[N]
        BY <4>1, <1>2
      <4> QED
        BY <4>2, <1>1, <1>8
    <3> QED
      BY <3>1
  <2>2. N \in 0 .. N
    BY <1>1
  <2>3. N <= K
    BY <2>1, <2>2, <1>5
  <2> QED
    BY <2>3, <1>1, <1>4
<1>9. Whole(msgs, q, n, K)
  BY <1>4, <1>6, <1>7, Zenon DEF Whole, N, W
<1> QED
  BY <1>8, <1>9 DEF N

\* The words behind p are those of the messages from k on.
Beyond(msgs, q, p, k) == \A x \in 1 .. Len(msgs) : q[x - 1] + 3 >= p <=> x >= k

\* The next "role" that is found is that of the next message.
LEMMA NextRole ==
  ASSUME NEW msgs \in Seq(Saying), \A k \in 1 .. Len(msgs) : Restorable(msgs[k]),
         NEW F, NEW q, Filed(F, msgs, q), NEW t, NEW n, RestOf(t, F, 0, n), n <= Len(F),
         NEW p \in 1 .. n + 1, NEW k \in 1 .. Len(msgs) + 1, Beyond(msgs, q, p, k)
  PROVE  /\ k <= Len(msgs) /\ q[k - 1] + 6 <= n => find(t, Str(Role), p) = q[k - 1] + 3
         /\ k > Len(msgs) \/ q[k - 1] + 6 > n => find(t, Str(Role), p) = 0
<1> DEFINE N == Len(msgs)
           g == find(t, Str(Role), p)
<1>1. N \in Nat /\ Len(F) \in Nat /\ Spaced(q, msgs, N)
  BY SpacedIs
<1>2. n \in Nat /\ Len(t) = n /\ t \in Writing
  <2>1. n \in Nat /\ t \in Seq(Char) /\ 0 + Len(t) = n
    BY DEF RestOf, Writing
  <2> QED
    BY <2>1 DEF Writing
<1>3. /\ F \in Writing
      /\ \A x \in 1 .. N : ItemAt(F, q[x - 1], Speaker(msgs[x]), Spelling(msgs[x]), q[x])
  BY DEF Filed
<1>4. \A x \in 1 .. N : q[x - 1] + 3 >= p <=> x >= k
  BY DEF Beyond
<1>5. \A x \in 1 .. N : Restorable(msgs[x])
  OBVIOUS
<1>a. k \in 1 .. N + 1
  OBVIOUS
<1>6. /\ g = 0 => \A i \in Nat : i >= p /\ i <= n - 3 => ~RoleAt(t, i)
      /\ g # 0 => /\ g \in p .. n - 3 /\ RoleAt(t, g)
                  /\ \A i \in Nat : i >= p /\ i <= n - 3 /\ RoleAt(t, i) => g <= i
  BY <1>2, RoleIsAt
<1> HIDE DEF g
<1>7. ASSUME g # 0
      PROVE  \E x \in 1 .. N : g = q[x - 1] + 3 /\ x >= k /\ q[x - 1] \in Nat /\ x - 1 \in 0 .. N
  <2>1. g \in 1 .. n - 3 /\ g >= p /\ RoleAt(t, g)
    BY <1>2, <1>6, <1>7
  <2>2. RoleAt(F, g) /\ g \in 1 .. Len(F)
    BY <2>1, <1>3, WordsInCut
  <2>3. \E x \in 1 .. N : g = q[x - 1] + 3 \/ (~Restorable(msgs[x]) /\ F[g + 4] = EndBrace)
    BY <2>2, KeysIn DEF N
  <2>4. PICK x \in 1 .. N : g = q[x - 1] + 3
    BY <2>3, <1>5, Zenon
  <2>5. x - 1 \in 0 .. N
    BY <1>1
  <2>6. q[x - 1] \in Nat
    BY <2>5, <1>1 DEF Spaced
  <2>7. q[x - 1] + 3 >= p
    BY <2>1, <2>4
  <2> QED
    BY <2>4, <2>5, <2>6, <2>7, <1>4
<1>8. ASSUME k <= N
      PROVE  /\ k \in 1 .. N /\ k - 1 \in 0 .. N /\ q[k - 1] \in Nat /\ q[k - 1] + 3 >= p
             /\ \A x \in 0 .. N : x >= k - 1 => q[x] >= q[k - 1]
  <2>1. k \in 1 .. N /\ k - 1 \in 0 .. N /\ k >= k
    BY <1>1, <1>8, <1>a
  <2>2. q[k - 1] \in Nat /\ q[k - 1] + 3 >= p
    BY <2>1, <1>1, <1>4 DEF Spaced
  <2>3. ASSUME NEW x \in 0 .. N, x >= k - 1
        PROVE  q[x] >= q[k - 1]
    <3>1. k - 1 <= x
      BY <2>1, <2>3
    <3>2. q[k - 1] <= q[x] /\ q[x] \in Nat
      BY <3>1, <2>1, <1>1 DEF Spaced
    <3> QED
      BY <3>2, <2>2
  <2> QED
    BY <2>1, <2>2, <2>3
<1>9. ASSUME k <= N, q[k - 1] + 6 <= n
      PROVE  g = q[k - 1] + 3
  <2> DEFINE i == q[k - 1]
  <2>a. i \in Nat /\ i + 3 >= p /\ i + 6 <= n /\ k \in 1 .. N
    BY <1>8, <1>9
  <2>b. ItemAt(F, i, Speaker(msgs[k]), Spelling(msgs[k]), q[k])
    BY <2>a, <1>3
  <2>1. i \in Nat /\ i + 3 \in Nat /\ i + 3 >= p /\ i + 3 <= n - 3 /\ i + 3 \in 1 .. n - 3
    <3> HIDE DEF i
    <3> QED
      BY <2>a, <1>2
  <2>2. RoleAt(F, i + 3)
    <3>1. F[i + 3] = Quote /\ F[i + 4] = "r" /\ F[i + 5] = "ole" /\ F[i + 6] = Quote
      BY <2>b DEF ItemAt
    <3>2. (i + 3) + 1 = i + 4 /\ (i + 3) + 2 = i + 5 /\ (i + 3) + 3 = i + 6
      <4>1. i \in Nat
        BY <2>1, Zenon
      <4> HIDE DEF i
      <4> QED
        BY <4>1
    <3> QED
      BY <3>1, <3>2, Zenon DEF RoleAt
  <2>3. RoleAt(t, i + 3)
    BY <2>1, <2>2, <1>3, WordsInCut
  <2>4. g # 0 /\ g <= i + 3
    BY <2>1, <2>3, <1>6
  <2>5. PICK x \in 1 .. N : g = q[x - 1] + 3 /\ x >= k /\ q[x - 1] \in Nat /\ x - 1 \in 0 .. N
    BY <2>4, <1>7
  <2>6. q[x - 1] >= i
    <3>1. x - 1 >= k - 1
      BY <2>5, <2>a, <1>1
    <3>2. \A y \in 0 .. N : y >= k - 1 => q[y] >= q[k - 1]
      BY <1>8, <1>9
    <3> QED
      BY <3>1, <3>2, <2>5, Zenon
  <2> DEFINE a == q[x - 1]
  <2>7. a \in Nat /\ a >= i /\ g = a + 3
    BY <2>5, <2>6
  <2> HIDE DEF i, a
  <2>8. g = i + 3
    BY <2>1, <2>4, <2>7
  <2> QED
    BY <2>8 DEF i
<1>10. ASSUME k > N \/ q[k - 1] + 6 > n, g # 0
       PROVE  FALSE
  <2>1. PICK x \in 1 .. N : g = q[x - 1] + 3 /\ x >= k /\ q[x - 1] \in Nat /\ x - 1 \in 0 .. N
    BY <1>7, <1>10
  <2>2. k <= N /\ x - 1 >= k - 1
    BY <2>1, <1>1, <1>a
  <2>3. q[k - 1] \in Nat /\ \A y \in 0 .. N : y >= k - 1 => q[y] >= q[k - 1]
    BY <2>2, <1>8
  <2>4. g \in p .. n - 3
    BY <1>6, <1>10
  <2>5. q[x - 1] >= q[k - 1]
    BY <2>1, <2>2, <2>3, Zenon
  <2>6. q[k - 1] + 6 > n
    <3>1. ~(k > N)
      BY <2>2, <1>1, <1>a
    <3> QED
      BY <3>1, <1>10
  <2> DEFINE a == q[x - 1]
             c == q[k - 1]
  <2>7. a \in Nat /\ c \in Nat /\ a >= c /\ c + 6 > n /\ g = a + 3
    BY <2>1, <2>3, <2>5, <2>6
  <2> HIDE DEF a, c
  <2> QED
    BY <2>4, <2>7, <1>2
<1> QED
  BY <1>9, <1>10 DEF g, N

\* Behind the "role" of a message comes the next message.
LEMMA BeyondNext ==
  ASSUME NEW msgs \in Seq(Saying), NEW F, NEW q, Filed(F, msgs, q)
  PROVE  /\ Beyond(msgs, q, 1, 1)
         /\ \A k \in 1 .. Len(msgs) : Beyond(msgs, q, q[k - 1] + 7, k + 1)
<1> DEFINE N == Len(msgs)
<1>1. N \in Nat /\ Spaced(q, msgs, N)
  BY SpacedIs
<1>2. /\ \A k \in 0 .. N : q[k] \in Nat
      /\ \A k \in 1 .. N : Width(msgs[k]) \in Nat /\ Width(msgs[k]) >= 16 /\ q[k - 1] + Width(msgs[k]) + 3 <= q[k]
      /\ \A i, k \in 0 .. N : i <= k => q[i] <= q[k]
  BY <1>1 DEF Spaced
<1> HIDE DEF N
<1>3. \A x \in 1 .. N : q[x - 1] + 3 >= 1 <=> x >= 1
  <2> SUFFICES ASSUME NEW x \in 1 .. N
               PROVE  q[x - 1] + 3 >= 1 <=> x >= 1
    OBVIOUS
  <2>1. x - 1 \in 0 .. N
    BY <1>1
  <2>2. q[x - 1] \in Nat
    BY <2>1, <1>2
  <2> QED
    BY <2>2
<1>4. ASSUME NEW k \in 1 .. N, NEW x \in 1 .. N
      PROVE  q[x - 1] + 3 >= q[k - 1] + 7 <=> x >= k + 1
  <2> DEFINE a == q[x - 1]
             b == q[k - 1]
             c == q[k]
             w == Width(msgs[k])
  <2>1. k \in 0 .. N /\ k - 1 \in 0 .. N /\ x - 1 \in 0 .. N
    BY <1>1
  <2>2. a \in Nat /\ b \in Nat /\ c \in Nat /\ w \in Nat /\ w >= 16 /\ b + w + 3 <= c
    BY <2>1, <1>2
  <2>3. x >= k + 1 => k <= x - 1
    BY <1>1
  <2>4. ~(x >= k + 1) => x - 1 <= k - 1
    BY <1>1
  <2>5. x >= k + 1 => c <= a
    BY <2>1, <2>3, <1>2
  <2>6. ~(x >= k + 1) => a <= b
    BY <2>1, <2>4, <1>2
  <2> HIDE DEF a, b, c, w
  <2>7. a + 3 >= b + 7 <=> x >= k + 1
    BY <2>2, <2>5, <2>6
  <2> QED
    BY <2>7 DEF a, b
<1> QED
  BY <1>3, <1>4 DEF Beyond, N

\* The first K messages are given back, and at most one more, if there is one more.
Given(r, msgs, K) ==
  \E z \in Seq(Saying) : /\ r = SubSeq(msgs, 1, K) \o z /\ Len(z) <= 1
                         /\ K = Len(msgs) => z = <<>>

\* What load_session gives of a session whose messages can be restored.
LEMMA LoadedIs ==
  ASSUME NEW msgs \in Seq(Saying), \A k \in 1 .. Len(msgs) : Restorable(msgs[k]),
         NEW F, NEW q, Filed(F, msgs, q), NEW t, NEW n, RestOf(t, F, 0, n), n <= Len(F)
  PROVE  \E K \in 0 .. Len(msgs) : Given(load_session(t), msgs, K) /\ (n = Len(F) => K = Len(msgs))
<1> DEFINE N == Len(msgs)
           At(p) == find(t, Str(Role), p)
<1>1. N \in Nat /\ Len(F) \in Nat /\ Spaced(q, msgs, N)
  BY SpacedIs
<1>2. /\ \A k \in 0 .. N : q[k] \in Nat
      /\ \A k \in 1 .. N : Width(msgs[k]) \in Nat /\ Width(msgs[k]) >= 16 /\ q[k - 1] + Width(msgs[k]) + 3 <= q[k]
  BY <1>1 DEF Spaced
<1>3. n \in Nat /\ Len(t) = n /\ t \in Writing
  <2>1. n \in Nat /\ t \in Seq(Char) /\ 0 + Len(t) = n
    BY DEF RestOf, Writing
  <2> QED
    BY <2>1 DEF Writing
<1>4. PICK f : Loads(f, t) /\ load_session(t) = f[1]
  BY <1>3, LoadIs
<1>5. \A p \in 1 .. n + 1 : f[p] \in Seq(Saying)
  BY <1>4, LoadedSayings
<1>6. \A p \in 1 .. n + 1 : f[p] = IF At(p) = 0 THEN <<>> ELSE LoadedAt(t, At(p)) \o f[At(p) + 4]
  BY <1>3, <1>4, Zenon DEF Loads
<1>7. PICK K : Whole(msgs, q, n, K) /\ (n = Len(F) => K = N)
  BY <1>3, WholeMessages
<1>8. /\ K \in 0 .. N /\ \A k \in 1 .. K : q[k - 1] + Width(msgs[k]) <= n
      /\ K < N => n < q[K] + Width(msgs[K + 1])
  BY <1>7, Zenon DEF Whole, N
<1>9. \A k \in 1 .. N : Restorable(msgs[k])
  OBVIOUS
<1> DEFINE P == [k \in 0 .. N |-> IF k = 0 THEN 1 ELSE q[k - 1] + 7]
<1>10. P[0] = 1 /\ \A k \in 1 .. N : P[k] = q[k - 1] + 7
  BY <1>1
<1> HIDE DEF P, N
<1>11. ASSUME NEW k \in 0 .. N
       PROVE  Beyond(msgs, q, P[k], k + 1) /\ k + 1 \in 1 .. N + 1
  <2>1. k + 1 \in 1 .. N + 1
    BY <1>1
  <2>2. CASE k = 0
    <3>1. k + 1 = 1 /\ P[k] = 1
      BY <2>2, <1>10
    <3>2. Beyond(msgs, q, 1, 1)
      BY BeyondNext
    <3> QED
      BY <2>1, <3>1, <3>2
  <2>3. CASE k # 0
    <3>1. k \in 1 .. N
      BY <2>3, <1>1
    <3>2. Beyond(msgs, q, q[k - 1] + 7, k + 1)
      BY <3>1, BeyondNext DEF N
    <3> QED
      BY <2>1, <3>1, <3>2, <1>10
  <2> QED
    BY <2>2, <2>3
<1>12. ASSUME NEW k \in 0 .. K
       PROVE  P[k] \in 1 .. n + 1
  <2>1. CASE k = 0
    BY <2>1, <1>3, <1>10
  <2>2. CASE k # 0
    <3> DEFINE w == Width(msgs[k])
               i == q[k - 1]
    <3>1. k \in 1 .. K /\ k \in 1 .. N /\ k - 1 \in 0 .. N
      BY <2>2, <1>1, <1>8
    <3>2. i \in Nat /\ w \in Nat /\ w >= 16 /\ i + w <= n /\ P[k] = i + 7
      BY <3>1, <1>2, <1>8, <1>10
    <3> HIDE DEF w, i
    <3> QED
      BY <3>2, <1>3
  <2> QED
    BY <2>1, <2>2
<1>13. ASSUME NEW k \in 1 .. K
       PROVE  f[P[k - 1]] = <<msgs[k]>> \o f[P[k]]
  <2> DEFINE p == P[k - 1]
             w == Width(msgs[k])
             i == q[k - 1]
             a == LoadedAt(t, At(p))
  <2>1. k \in 1 .. N /\ k - 1 \in 0 .. N /\ k - 1 \in 0 .. K /\ (k - 1) + 1 = k /\ k <= N
    BY <1>1, <1>8
  <2>2. i \in Nat /\ w \in Nat /\ w >= 16 /\ i + w <= n /\ P[k] = i + 7
    BY <2>1, <1>2, <1>8, <1>10
  <2>3. p \in 1 .. n + 1 /\ Beyond(msgs, q, p, k) /\ k \in 1 .. N + 1
    BY <2>1, <1>11, <1>12
  <2> HIDE DEF w
  <2>4. i + 6 <= n
    BY <2>2, <1>3
  <2>5. At(p) = i + 3
    <3> HIDE DEF p
    <3> QED
      BY <2>1, <2>3, <2>4, NextRole DEF N
  <2>6. a = <<msgs[k]>>
    <3>1. LoadedAt(t, i + 3) = <<msgs[k]>>
      BY <2>1, <2>2, <1>9, LoadedWhole DEF N, w
    <3> QED
      BY <2>5, <3>1, Zenon
  <2>7. At(p) # 0 /\ At(p) + 4 = P[k]
    BY <2>2, <2>5
  <2>8. f[p] = IF At(p) = 0 THEN <<>> ELSE a \o f[At(p) + 4]
    BY <2>3, <1>6, Zenon
  <2> HIDE DEF At, a, p
  <2>9. f[p] = <<msgs[k]>> \o f[P[k]]
    BY <2>6, <2>7, <2>8, Zenon
  <2> QED
    BY <2>9 DEF p
<1> DEFINE z == f[P[K]]
<1>14. z \in Seq(Saying)
  <2>1. K \in 0 .. K
    BY <1>1, <1>8
  <2> QED
    BY <2>1, <1>5, <1>12
<1>15. load_session(t) = SubSeq(msgs, 1, K) \o z
  <2>1. Unrolls(f, P, msgs, K, Saying)
    <3>1. msgs \in Seq(Saying) /\ K \in 0 .. Len(msgs)
      BY <1>8 DEF N
    <3> QED
      BY <3>1, <1>13, <1>14, Zenon DEF Unrolls
  <2>2. Made(f, P, msgs, K)
    BY <2>1, Unrolled
  <2> QED
    BY <2>2, <1>4, <1>10, Zenon DEF Made
<1>16. Len(z) <= 1 /\ (K = N => z = <<>>)
  <2> DEFINE p == P[K]
             g == At(p)
  <2>1. K \in 0 .. K /\ K \in 0 .. N /\ K + 1 \in 1 .. N + 1
    BY <1>1, <1>8
  <2>2. p \in 1 .. n + 1 /\ Beyond(msgs, q, p, K + 1)
    BY <2>1, <1>11, <1>12
  <2>3. z = IF g = 0 THEN <<>> ELSE LoadedAt(t, g) \o f[g + 4]
    BY <2>2, <1>6, Zenon
  <2> HIDE DEF p
  <2>4. /\ K + 1 <= N /\ q[(K + 1) - 1] + 6 <= n => g = q[(K + 1) - 1] + 3
        /\ K + 1 > N \/ q[(K + 1) - 1] + 6 > n => g = 0
    BY <2>1, <2>2, <1>9, NextRole DEF N
  <2> HIDE DEF g
  <2>5. CASE g = 0
    <3>1. z = <<>>
      BY <2>3, <2>5, Zenon
    <3> HIDE DEF z
    <3>2. Len(<<>>) <= 1
      OBVIOUS
    <3> QED
      BY <3>1, <3>2, Zenon
  <2>6. CASE g # 0
    <3>1. K < N /\ K + 1 <= N /\ (K + 1) - 1 = K /\ K # N
      BY <2>4, <2>6, <2>1, <1>1
    <3>2. q[K] \in Nat
      BY <2>1, <1>2
    <3>3. g = q[K] + 3
      <4>1. q[K] + 6 <= n
        BY <2>4, <2>6, <3>1, <3>2, <1>3
      <4> QED
        BY <2>4, <3>1, <4>1
    <3>4. K + 1 \in 1 .. N /\ K + 1 \in 0 .. N
      BY <2>1, <3>1
    <3>5. P[K + 1] = g + 4
      <4>1. P[K + 1] = q[K] + 7
        BY <3>1, <3>4, <1>10
      <4> QED
        BY <4>1, <3>2, <3>3
    <3>6. Beyond(msgs, q, g + 4, K + 2) /\ K + 2 \in 1 .. N + 1
      <4>1. (K + 1) + 1 = K + 2
        BY <2>1
      <4>2. Beyond(msgs, q, P[K + 1], (K + 1) + 1) /\ (K + 1) + 1 \in 1 .. N + 1
        BY <3>4, <1>11
      <4> QED
        BY <3>5, <4>1, <4>2
    <3>7. g + 4 \in 1 .. n + 1 /\ g \in 1 .. n - 3
      <4>1. p \in 1 .. Len(t) + 1
        BY <2>2, <1>3
      <4>2. g # 0 => g \in p .. Len(t) - 3 /\ g + 4 \in p + 1 .. Len(t) + 1
        BY <4>1, <1>3, RoleIsAt DEF g
      <4> QED
        BY <2>2, <2>6, <4>2, <1>3
    <3>8. K + 2 > N \/ q[(K + 2) - 1] + 6 > n
      <4>1. ASSUME K + 2 <= N
            PROVE  q[(K + 2) - 1] + 6 > n
        <5> DEFINE w == Width(msgs[K + 1])
                   a == q[K]
                   b == q[K + 1]
        <5>1. (K + 2) - 1 = K + 1 /\ (K + 1) - 1 = K
          BY <2>1
        <5>2. a \in Nat /\ b \in Nat /\ w \in Nat /\ a + w + 3 <= b /\ n < a + w
          BY <5>1, <3>1, <3>2, <3>4, <1>2, <1>8
        <5> HIDE DEF w, a, b
        <5>3. b + 6 > n
          BY <5>2, <1>3
        <5> QED
          BY <5>1, <5>3 DEF b
      <4> QED
        BY <4>1, <2>1, <1>1
    <3>9. At(g + 4) = 0
      BY <3>6, <3>7, <3>8, <1>9, NextRole DEF N
    <3>10. f[g + 4] = <<>>
      BY <3>7, <3>9, <1>6, Zenon
    <3>11. LoadedAt(t, g) = <<>> \/ \E x \in Saying : LoadedAt(t, g) = <<x>>
      <4>1. g \in 2 .. n
        BY <3>2, <3>3, <3>7, <1>3
      <4> QED
        BY <4>1, LoadedAtIs
    <3> DEFINE a == LoadedAt(t, g)
    <3>12. z = a \o <<>>
      BY <2>3, <2>6, <3>10, Zenon
    <3> HIDE DEF a, z
    <3>13. CASE a = <<>>
      <4>1. Len(<<>> \o <<>>) <= 1
        OBVIOUS
      <4> QED
        BY <3>1, <3>12, <3>13, <4>1, Zenon
    <3>14. CASE \E x \in Saying : a = <<x>>
      <4>1. PICK x \in Saying : a = <<x>>
        BY <3>14
      <4>2. Len(<<x>> \o <<>>) <= 1
        OBVIOUS
      <4> QED
        BY <3>1, <3>12, <4>1, <4>2, Zenon
    <3> QED
      BY <3>11, <3>13, <3>14 DEF a
  <2> QED
    BY <2>5, <2>6
<1>17. Given(load_session(t), msgs, K)
  <2> HIDE DEF z
  <2> QED
    BY <1>14, <1>15, <1>16, Zenon DEF Given, N
<1> QED
  BY <1>7, <1>8, <1>17 DEF N

\* A session file is given back: all of it, or what there is of it.
LEMMA GivenIs ==
  ASSUME NEW msgs \in Seq(Saying), NEW r, NEW K \in 0 .. Len(msgs), Given(r, msgs, K)
  PROVE  /\ K = Len(msgs) => r = msgs
         /\ Len(r) <= Len(msgs) /\ (r # <<>> => IsPrefix(Front(r), msgs))
<1> DEFINE N == Len(msgs)
           y == SubSeq(msgs, 1, K)
<1>1. PICK z \in Seq(Saying) : r = y \o z /\ Len(z) <= 1 /\ (K = N => z = <<>>)
  BY Zenon DEF Given
<1>2. N \in Nat /\ K \in 0 .. N
  OBVIOUS
<1>3. y \in Seq(Saying) /\ Len(y) = K /\ \A j \in 1 .. K : y[j] = msgs[j]
  BY <1>2
<1>4. K = N => y = msgs
  BY <1>2, <1>3
<1> HIDE DEF y
<1>5. y \o z \in Seq(Saying) /\ Len(y \o z) = Len(y) + Len(z) /\ Len(z) \in Nat
      /\ \A j \in 1 .. Len(y) : (y \o z)[j] = y[j]
  BY <1>3, ConcatIs
<1> DEFINE lr == Len(r)
           lz == Len(z)
<1>6. r \in Seq(Saying) /\ lr = K + lz /\ lz \in Nat /\ lz <= 1 /\ \A j \in 1 .. K : r[j] = msgs[j]
  <2>1. r \in Seq(Saying) /\ lr = Len(y) + lz /\ \A j \in 1 .. Len(y) : r[j] = y[j]
    BY <1>1, <1>5, Zenon
  <2>2. lz <= 1
    BY <1>1
  <2> HIDE DEF lr, lz
  <2> QED
    BY <2>1, <2>2, <1>3, <1>5 DEF lz
<1>7. K = N => r = msgs
  <2>1. \A s \in Seq(Saying) : s \o <<>> = s
    OBVIOUS
  <2> QED
    BY <2>1, <1>1, <1>3, <1>4, Zenon
<1>8. K = N => lz = 0
  <2>1. K = N => z = <<>>
    BY <1>1
  <2> QED
    BY <2>1
<1> HIDE DEF lz
<1>9. lr \in Nat /\ lr <= N /\ lr - 1 <= K
  BY <1>2, <1>6, <1>8
<1>10. ASSUME r # <<>>
       PROVE  IsPrefix(Front(r), msgs)
  <2> DEFINE f == SubSeq(r, 1, lr - 1)
             l == lr - 1
             x == SubSeq(f, 1, l)
             w == SubSeq(msgs, 1, l)
  <2>1. lr # 0
    BY <1>6, <1>10
  <2>2. l \in 0 .. K /\ l <= N /\ l <= lr
    BY <2>1, <1>2, <1>9
  <2>3. f \in Seq(Saying) /\ Len(f) = l /\ \A j \in 1 .. l : f[j] = r[j]
    BY <2>2, <1>6
  <2>4. Front(r) = f
    BY DEF Front
  <2> HIDE DEF f, l, lr
  <2>5. x \in Seq(Saying) /\ Len(x) = l /\ \A j \in 1 .. l : x[j] = f[j]
    BY <2>2, <2>3
  <2>6. w \in Seq(Saying) /\ Len(w) = l /\ \A j \in 1 .. l : w[j] = msgs[j]
    BY <2>2, <1>2
  <2> HIDE DEF x, w
  <2>7. \A j \in 1 .. l : x[j] = w[j]
    <3>1. \A j \in 1 .. l : j \in 1 .. K
      BY <2>2, <1>2
    <3> QED
      BY <3>1, <2>3, <2>5, <2>6, <1>6, Zenon
  <2>8. x = w
    BY <2>5, <2>6, <2>7
  <2>9. IsPrefix(f, msgs)
    <3>1. SubSeq(f, 1, Len(f)) = SubSeq(msgs, 1, Len(f)) /\ Len(f) <= Len(msgs)
      BY <2>2, <2>3, <2>8 DEF x, w
    <3> QED
      BY <3>1 DEF IsPrefix
  <2> QED
    BY <2>4, <2>9
<1>11. Len(r) <= Len(msgs)
  BY <1>9
<1> QED
  BY <1>7, <1>10, <1>11 DEF N

-----------------------------------------------------------------------------
(* The session.                                                            *)

\* The file is what there is of a text that was written from the messages.
SessionInv ==
  /\ said \in Seq(Saying) /\ written \in Seq(Saying) /\ whole \in BOOLEAN /\ saves \in 0 .. MaxSaves
  /\ \E n \in 0 .. Len(save_session(written)) :
       /\ file = SubSeq(save_session(written), 1, n)
       /\ whole => n = Len(save_session(written))

\* At first there is an empty file, written of no messages.
LEMMA SessionInitInv == SessionInit => SessionInv
<1> SUFFICES ASSUME SessionInit
             PROVE  SessionInv
  OBVIOUS
<1>1. said = <<>> /\ file = <<>> /\ whole = FALSE /\ written = <<>> /\ saves = 0
  BY DEF SessionInit
<1>2. <<>> \in Seq(Saying) /\ 0 \in 0 .. MaxSaves
  BY SizesAssumption
<1> DEFINE F == save_session(<<>>)
<1>3. F \in Seq(Char)
  <2>1. PICK q : Filed(F, <<>>, q)
    BY <1>2, FileIs
  <2> QED
    BY <2>1 DEF Filed, Writing
<1> HIDE DEF F
<1>4. 0 \in 0 .. Len(F) /\ <<>> = SubSeq(F, 1, 0)
  BY <1>3
<1>5. \E n \in 0 .. Len(F) : file = SubSeq(F, 1, n) /\ (whole => n = Len(F))
  BY <1>1, <1>4
<1> QED
  BY <1>1, <1>2, <1>5 DEF SessionInv, F

\* What a user or the model says is a message that can be saved.
LEMMA SaidIs ==
  ASSUME NEW role \in Speakers, NEW s \in Texts
  PROVE  Message(role, s) \in Saying
<1>1. s \in Seq(STRING)
  BY TextsAssumption
<1>2. s \in Writing
  <2>1. STRING \subseteq Char
    BY DEF Char
  <2>2. Len(s) \in Nat /\ s = [j \in 1 .. Len(s) |-> s[j]] /\ \A j \in 1 .. Len(s) : s[j] \in STRING
    BY <1>1
  <2> HIDE DEF Writing
  <2>3. \A j \in 1 .. Len(s) : s[j] \in Char
    BY <2>1, <2>2, Zenon
  <2>4. s \in Seq(Char)
    BY <2>2, <2>3
  <2> QED
    BY <2>4 DEF Writing
<1>3. role \in {"user", "assistant"}
  BY DEF Speakers
<1> QED
  BY <1>2, <1>3, Zenon DEF Message, Saying

\* A step writes the file from the messages, cuts it off, or leaves it.
LEMMA SessionNextInv ==
  ASSUME SessionInv, [SessionNext]_sessionVars
  PROVE  SessionInv'
<1> DEFINE Held(f, w, msgs) == \E n \in 0 .. Len(save_session(msgs)) :
                                  /\ f = SubSeq(save_session(msgs), 1, n)
                                  /\ w => n = Len(save_session(msgs))
<1>1. /\ said \in Seq(Saying) /\ written \in Seq(Saying) /\ whole \in BOOLEAN /\ saves \in 0 .. MaxSaves
      /\ Held(file, whole, written)
  BY Zenon DEF SessionInv
<1>2. SUFFICES /\ said' \in Seq(Saying) /\ written' \in Seq(Saying) /\ whole' \in BOOLEAN /\ saves' \in 0 .. MaxSaves
               /\ Held(file', whole', written')
  BY Zenon DEF SessionInv
<1>a. ASSUME saves < MaxSaves
      PROVE  saves + 1 \in 0 .. MaxSaves
  BY <1>1, <1>a, SizesAssumption
<1>3. ASSUME NEW role \in Speakers, NEW s \in Texts, Say(Message(role, s))
      PROVE  /\ said' \in Seq(Saying) /\ written' \in Seq(Saying) /\ whole' \in BOOLEAN /\ saves' \in 0 .. MaxSaves
             /\ Held(file', whole', written')
  <2> DEFINE m == Message(role, s)
  <2>1. said' = Append(said, m) /\ UNCHANGED <<file, whole, written, saves>>
    BY <1>3 DEF Say
  <2>2. m \in Saying
    BY SaidIs
  <2> HIDE DEF m, Held
  <2>3. said' \in Seq(Saying)
    BY <2>1, <2>2, <1>1
  <2>4. Held(file', whole', written')
    BY <2>1, <1>1
  <2> QED
    BY <2>1, <2>3, <2>4, <1>1
<1> DEFINE F == save_session(said)
<1>4. F \in Seq(Char)
  <2>1. PICK q : Filed(F, said, q)
    BY <1>1, FileIs
  <2> QED
    BY <2>1 DEF Filed, Writing
<1>5. ASSUME Save
      PROVE  /\ said' \in Seq(Saying) /\ written' \in Seq(Saying) /\ whole' \in BOOLEAN /\ saves' \in 0 .. MaxSaves
             /\ Held(file', whole', written')
  <2>1. saves < MaxSaves /\ saves' = saves + 1 /\ file' = F /\ whole' = TRUE /\ written' = said /\ said' = said
    BY <1>5 DEF Save
  <2> HIDE DEF F
  <2>2. Len(F) \in 0 .. Len(F) /\ SubSeq(F, 1, Len(F)) = F
    BY <1>4
  <2>3. Held(F, TRUE, said)
    BY <2>2, Zenon DEF F
  <2> HIDE DEF Held
  <2> QED
    BY <2>1, <2>3, <1>1, <1>a
<1>6. ASSUME Cut
      PROVE  /\ said' \in Seq(Saying) /\ written' \in Seq(Saying) /\ whole' \in BOOLEAN /\ saves' \in 0 .. MaxSaves
             /\ Held(file', whole', written')
  <2>1. /\ saves < MaxSaves /\ saves' = saves + 1 /\ whole' = FALSE /\ written' = said /\ said' = <<>>
        /\ \E n \in 0 .. Len(F) - 1 : file' = SubSeq(F, 1, n)
    BY <1>6 DEF Cut
  <2> HIDE DEF F
  <2>2. PICK n \in 0 .. Len(F) - 1 : file' = SubSeq(F, 1, n)
    BY <2>1
  <2>3. n \in 0 .. Len(F)
    BY <1>4
  <2>4. Held(file', FALSE, said)
    BY <2>2, <2>3, Zenon DEF F
  <2>5. <<>> \in Seq(Saying)
    OBVIOUS
  <2> HIDE DEF Held
  <2> QED
    BY <2>1, <2>4, <2>5, <1>1, <1>a
<1>7. ASSUME Load
      PROVE  /\ said' \in Seq(Saying) /\ written' \in Seq(Saying) /\ whole' \in BOOLEAN /\ saves' \in 0 .. MaxSaves
             /\ Held(file', whole', written')
  <2>1. said' = load_session(file) /\ UNCHANGED <<file, whole, written, saves>>
    BY <1>7 DEF Load
  <2> DEFINE G == save_session(written)
  <2>2. PICK q : Filed(G, written, q)
    BY <1>1, FileIs
  <2>3. G \in Writing /\ G \in Seq(Char)
    BY <2>2 DEF Filed, Writing
  <2>4. PICK n \in 0 .. Len(G) : file = SubSeq(G, 1, n)
    BY <1>1
  <2> HIDE DEF G
  <2>5. RestOf(file, G, 0, n) /\ n <= Len(G)
    BY <2>3, <2>4, CutOff
  <2>6. file \in Writing
    BY <2>5 DEF RestOf
  <2>7. PICK f : Loads(f, file) /\ load_session(file) = f[1]
    BY <2>6, LoadIs
  <2>8. n \in Nat /\ \A p \in 1 .. n + 1 : f[p] \in Seq(Saying)
    BY <2>2, <2>5, <2>7, <1>1, LoadedSayings
  <2>9. f[1] \in Seq(Saying)
    BY <2>8
  <2> HIDE DEF Held
  <2> QED
    BY <2>1, <2>7, <2>9, <1>1
<1>8. ASSUME UNCHANGED sessionVars
      PROVE  /\ said' \in Seq(Saying) /\ written' \in Seq(Saying) /\ whole' \in BOOLEAN /\ saves' \in 0 .. MaxSaves
             /\ Held(file', whole', written')
  <2> HIDE DEF Held
  <2> QED
    BY <1>8, <1>1 DEF sessionVars
<1> HIDE DEF Held
<1> QED
  BY <1>3, <1>5, <1>6, <1>7, <1>8 DEF SessionNext

\* A file that is what there is of such a text gives back the messages.
LEMMA SessionInvComesBack == SessionInv => SavedComesBack
<1> SUFFICES ASSUME SessionInv, \A i \in DOMAIN written : Restorable(written[i])
             PROVE  LET loaded == load_session(file)
                    IN IF whole THEN loaded = written
                       ELSE Len(loaded) <= Len(written) /\ (loaded # <<>> => IsPrefix(Front(loaded), written))
  BY DEF SavedComesBack
<1> DEFINE G == save_session(written)
<1>1. written \in Seq(Saying)
  BY DEF SessionInv
<1>2. PICK n \in 0 .. Len(G) : file = SubSeq(G, 1, n) /\ (whole => n = Len(G))
  BY DEF SessionInv
<1>3. PICK q : Filed(G, written, q)
  BY <1>1, FileIs
<1>4. G \in Writing /\ G \in Seq(Char)
  BY <1>3 DEF Filed, Writing
<1> HIDE DEF G
<1>5. RestOf(file, G, 0, n) /\ n <= Len(G)
  BY <1>2, <1>4, CutOff
<1>6. \A k \in 1 .. Len(written) : Restorable(written[k])
  BY <1>1
<1>7. PICK K \in 0 .. Len(written) : Given(load_session(file), written, K) /\ (n = Len(G) => K = Len(written))
  BY <1>1, <1>3, <1>5, <1>6, LoadedIs
<1>8. /\ K = Len(written) => load_session(file) = written
      /\ Len(load_session(file)) <= Len(written)
      /\ load_session(file) # <<>> => IsPrefix(Front(load_session(file)), written)
  BY <1>1, <1>7, GivenIs
<1> QED
  BY <1>2, <1>7, <1>8, Zenon

\* A session that was saved comes back in the next run: all of it, or, when the
\* save was cut off, the messages before the cut and one more at most.
THEOREM SavedComesBackAlways == SessionSpec => []SavedComesBack
<1>1. SessionInit => SessionInv
  BY SessionInitInv
<1>2. SessionInv /\ [SessionNext]_sessionVars => SessionInv'
  BY SessionNextInv
<1>3. SessionInv => SavedComesBack
  BY SessionInvComesBack
<1> QED
  BY <1>1, <1>2, <1>3, PTL DEF SessionSpec

-----------------------------------------------------------------------------
(* Colours.                                                                *)

\* The colours both tables know.
Both == Plain \cup (Hyphened \ {"bright-black"})

\* What ColorStays needs: a colour the user has set is the explicit one while a
\* session runs, and the one in .env if it is kept.
Remembered(t) ==
  asked[t] \in Both => /\ phase = "on" => explicit[t] = asked[t]
                       /\ t \in kept => saved[t] = asked[t]
IInv == DOMAIN saved = Targets /\ DOMAIN explicit = Targets /\ DOMAIN asked = Targets
        /\ \A t \in Targets : Remembered(t)

\* A colour of both tables is its own code, and no sign for the lack of one.
LEMMA BothCoded ==
  ASSUME NEW n \in Both
  PROVE  color_name_to_ansi(n) = n /\ n # "" /\ n # Unset /\ n # None
<1>1. n \in AnsiNames
  BY DEF Both, AnsiNames
<1>2. n # "" /\ n # Unset /\ n # None
  <2>1. CASE n \in Plain
    BY <2>1 DEF Plain, Unset, None
  <2>2. CASE n \in Hyphened
    <3>1. n \in {"bright-black", "bright-red", "bright-green", "bright-yellow", "bright-blue",
                 "bright-magenta", "bright-cyan", "bright-white"}
      BY <2>2 DEF Hyphened, Spellings
    <3> QED BY <3>1 DEF Unset, None
  <2> QED BY <2>1, <2>2 DEF Both
<1> QED BY <1>1, <1>2 DEF color_name_to_ansi

\* None is not such a colour.
LEMMA NoneNotBoth == None \notin Both
BY BothCoded

LEMMA InitInv == Init => IInv
BY NoneNotBoth DEF Init, IInv, Remembered

\* Commands that leave /color's part of the state alone.
LEMMA OthersKeep ==
  ASSUME IInv, UNCHANGED <<saved, explicit, asked, kept>>, phase' \in {phase, "off"}
  PROVE  IInv'
BY DEF IInv, Remembered

LEMMA StartKeeps ==
  ASSUME IInv, NEW g \in Starts, Start(g)
  PROVE  IInv'
<1>1. UNCHANGED <<saved, kept>> /\ DOMAIN explicit' = Targets /\ DOMAIN asked' = Targets
  BY DEF Start
<1>2. ASSUME NEW t \in Targets, asked'[t] \in Both
      PROVE  explicit'[t] = asked'[t] /\ (t \in kept => saved[t] = asked'[t])
  <2>1. asked'[t] = IF t \in kept /\ g.exported[t] = Unset THEN asked[t] ELSE None
    BY DEF Start
  <2>2. t \in kept /\ g.exported[t] = Unset /\ asked'[t] = asked[t]
    BY <1>2, <2>1, NoneNotBoth
  <2>3. saved[t] = asked[t]
    BY <1>2, <2>2 DEF IInv, Remembered
  <2>4. saved[t] # Unset /\ color_name_to_ansi(saved[t]) = saved[t]
    BY <1>2, <2>2, <2>3, BothCoded
  <2>5. explicit'[t] = color_name_to_ansi(Configured(t, g))
    BY DEF Start
  <2>6. Configured(t, g) = saved[t]
    BY <2>2, <2>4 DEF Configured
  <2> QED BY <2>2, <2>3, <2>4, <2>5, <2>6
<1> QED BY <1>1, <1>2 DEF IInv, Remembered

LEMMA ResetKeeps ==
  ASSUME IInv, NEW ok \in SUBSET Targets, ColorReset(ok)
  PROVE  IInv'
<1>1. DOMAIN saved' = Targets /\ DOMAIN explicit' = Targets /\ DOMAIN asked' = Targets
  BY DEF ColorReset, SaveColors
<1>2. \A t \in Targets : asked'[t] = None
  BY DEF ColorReset
<1> QED BY <1>1, <1>2, NoneNotBoth DEF IInv, Remembered

LEMMA ColorKeeps ==
  ASSUME IInv, NEW t \in Targets, NEW n, NEW ok \in BOOLEAN, Color(t, n, ok)
  PROVE  IInv'
<1> DEFINE value == [saved EXCEPT ![t] = n]
<1>1. DOMAIN saved' = Targets /\ DOMAIN explicit' = Targets /\ DOMAIN asked' = Targets
  BY DEF Color, SaveColors, IInv
<1>2. ASSUME NEW u \in Targets PROVE Remembered(u)'
  <2>1. saved'[u] = IF u = t /\ ok THEN n ELSE saved[u]
    BY DEF Color, SaveColors, IInv
  <2>2. CASE u = t
    <3>1. asked'[u] = n /\ explicit'[u] = color_name_to_ansi(n) /\ (u \in kept' <=> ok)
      BY <2>2 DEF Color, IInv
    <3>2. u \in kept' => saved'[u] = n
      BY <2>1, <2>2, <3>1
    <3>3. n \in Both => explicit'[u] = n
      BY <3>1, BothCoded
    <3> QED BY <3>1, <3>2, <3>3 DEF Remembered
  <2>3. CASE u # t
    <3>1. asked'[u] = asked[u] /\ explicit'[u] = explicit[u] /\ saved'[u] = saved[u]
      BY <2>1, <2>3 DEF Color, IInv
    <3>2. (u \in kept' => u \in kept) /\ phase' = phase
      BY <2>3 DEF Color, Command
    <3> QED BY <3>1, <3>2 DEF IInv, Remembered
  <2> QED BY <2>2, <2>3
<1> QED BY <1>1, <1>2 DEF IInv

LEMMA NextInv == IInv /\ [Next]_vars => IInv'
<1> SUFFICES ASSUME IInv, [Next]_vars PROVE IInv'
  OBVIOUS
<1> USE DEF Command, asks
<1>1. ASSUME NEW g \in Starts, Start(g) PROVE IInv'
  BY <1>1, StartKeeps
<1>2. CASE End
  BY <1>2, OthersKeep DEF End, looks
<1>3. ASSUME NEW o \in Toggled, Set(o) PROVE IInv'
  BY <1>3, OthersKeep DEF Set
<1>4. ASSUME NEW n \in Spinners, Spinner(n) PROVE IInv'
  BY <1>4, OthersKeep DEF Spinner
<1>5. ASSUME NEW n \in DOMAIN Themes, Theme(n) PROVE IInv'
  BY <1>5, OthersKeep DEF Theme
<1>6. ASSUME NEW role \in Roles, NEW n \in Typed, ThemeSet(role, n) PROVE IInv'
  BY <1>6, OthersKeep DEF ThemeSet
<1>7. ASSUME NEW ok \in SUBSET Targets, ColorReset(ok) PROVE IInv'
  BY <1>7, ResetKeeps
<1>8. ASSUME NEW t \in Targets, NEW n \in Typed, NEW ok \in BOOLEAN, Color(t, n, ok) PROVE IInv'
  BY <1>8, ColorKeeps
<1>9. ASSUME NEW target \in {"system", "error", "info", "spinner"}, NEW n \in Typed,
             ColorRole(target, n)
      PROVE  IInv'
  BY <1>9, OthersKeep DEF ColorRole
<1>10. ASSUME NEW k \in Files, NEW fact \in Facts, NEW ok \in BOOLEAN, Remember(k, fact, ok)
       PROVE  IInv'
  BY <1>10, OthersKeep DEF Remember, looks
<1>11. ASSUME NEW k \in Files, Forget(k) PROVE IInv'
  BY <1>11, OthersKeep DEF Forget, looks
<1>12. CASE AgentOff
  BY <1>12, OthersKeep DEF AgentOff, looks
<1>13. ASSUME NEW a \in Agents, Agent(a) PROVE IInv'
  BY <1>13, OthersKeep DEF Agent, looks
<1>14. ASSUME NEW p \in Personas, Persona(p) PROVE IInv'
  BY <1>14, OthersKeep DEF Persona, looks
<1>15. CASE Clear
  BY <1>15, OthersKeep DEF Clear, looks
<1>16. CASE UNCHANGED vars
  BY <1>16, OthersKeep DEF vars, looks
<1> QED BY <1>1, <1>2, <1>3, <1>4, <1>5, <1>6, <1>7, <1>8, <1>9, <1>10, <1>11, <1>12, <1>13,
           <1>14, <1>15, <1>16 DEF Next

LEMMA InvAlways == Spec => []IInv
BY InitInv, NextInv, PTL DEF Spec

\* A colour set with /color stays in force, in this session and every later one.
THEOREM ColorStaysAlways == Spec => []ColorStays
<1>1. IInv => ColorStays
  <2> SUFFICES ASSUME IInv, NEW t \in Targets, phase = "on", asked[t] \in Both
               PROVE  Shown(t) = asked[t]
    BY DEF ColorStays, Both
  <2>1. explicit[t] = asked[t]
    BY DEF IInv, Remembered
  <2>2. explicit[t] # ""
    BY <2>1, BothCoded
  <2> QED BY <2>1, <2>2 DEF Shown
<1> QED BY <1>1, InvAlways, PTL
=============================================================================
