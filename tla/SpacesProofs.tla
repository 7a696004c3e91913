---------------------------- MODULE SpacesProofs ----------------------------
(***************************************************************************)
(* Constraints stay in their spaces, spaces fail for a reason and runnable *)
(* threads are counted right, for every number of spaces, variables and    *)
(* threads, when variables are not optimized (with OptVars, the code lets  *)
(* constraints leak).                                                      *)
(*                                                                         *)
(* The calls of the space machinery are followed one by one: those that    *)
(* only wake and count threads (Murmur), those that move constraints       *)
(* between variables, trails and scripts (Steady, and Core is kept), and   *)
(* then the actions, which keep Holds.  What each call does to the         *)
(* counters is said beside it: it tallies when it leaves them right        *)
(* (Tallies), and a call that stops a thread, or fails a space, leaves one *)
(* too many counted in a space, until Dec has gone up (Sound, Lowered).    *)
(***************************************************************************)
EXTENDS Spaces, Induction, FiniteSetTheorems

-----------------------------------------------------------------------------
(* Iteration *)

\* F, of a value and a step number, can be iterated.
Closed(F, X, n) == \A x \in X : \A i \in 1..n : F[<<x, i>>] \in X
\* g are the iterates of F from b.
Iterates(g, F, b, X, n) ==
    g \in [0..n -> X] /\ g[0] = b /\ \A i \in 1..n : g[i] = F[<<g[i - 1], i>>]

\* A function that can be iterated has a sequence of iterates: what Through, UpTo and
\* Real compute exists.
LEMMA Iterate ==
    ASSUME NEW X, NEW b \in X, NEW n \in Nat, NEW F, Closed(F, X, n)
    PROVE  \E g : Iterates(g, F, b, X, n)
<1>1. PICK S : S = {k \in Nat : k <= n => \E g \in [0..k -> X] :
                      g[0] = b /\ \A i \in 1..k : g[i] = F[<<g[i - 1], i>>]}
  OBVIOUS
<1>2. 0 \in S
  <2>1. PICK g : g = [i \in 0..0 |-> b]
    OBVIOUS
  <2>2. g \in [0..0 -> X] /\ g[0] = b /\ \A i \in 1..0 : g[i] = F[<<g[i - 1], i>>]
    BY <2>1
  <2> QED BY <1>1, <2>2
<1>3. ASSUME NEW k \in Nat, k \in S PROVE k + 1 \in S
  <2> SUFFICES ASSUME k + 1 <= n
               PROVE  \E g \in [0..(k + 1) -> X] :
                         g[0] = b /\ \A i \in 1..(k + 1) : g[i] = F[<<g[i - 1], i>>]
    BY <1>1
  <2>1. PICK f \in [0..k -> X] : f[0] = b /\ \A i \in 1..k : f[i] = F[<<f[i - 1], i>>]
    BY <1>1, <1>3
  <2>2. PICK x : x = F[<<f[k], k + 1>>]
    OBVIOUS
  <2>3. x \in X
    BY <2>2 DEF Closed
  <2>4. PICK g : g = [i \in 0..(k + 1) |-> IF i = k + 1 THEN x ELSE f[i]]
    OBVIOUS
  <2>5. g \in [0..(k + 1) -> X] /\ g[k + 1] = x /\ \A i \in 0..k : g[i] = f[i]
    BY <2>3, <2>4
  <2>6. ASSUME NEW i \in 1..(k + 1) PROVE g[i] = F[<<g[i - 1], i>>]
    <3>1. CASE i = k + 1
      <4>1. i - 1 = k /\ k \in 0..k
        BY <3>1
      <4> QED BY <2>2, <2>5, <3>1, <4>1
    <3>2. CASE i # k + 1
      <4>1. i \in 1..k /\ i - 1 \in 0..k /\ i \in 0..k
        BY <3>2
      <4> QED BY <2>1, <2>5, <4>1
    <3> QED BY <3>1, <3>2
  <2>7. g[0] = b
    BY <2>1, <2>5
  <2> QED BY <2>5, <2>6, <2>7
<1>4. n \in S
  BY <1>1, <1>2, <1>3, SetInduction
<1> QED BY <1>1, <1>4 DEF Iterates

\* A property of the first value that each step keeps is one of the last.
LEMMA StepByStep ==
    ASSUME NEW n \in Nat, NEW S \in SUBSET (0..n), 0 \in S,
           \A i \in 1..n : i - 1 \in S => i \in S
    PROVE  n \in S
<1>1. PICK T : T = {k \in Nat : k <= n => k \in S}
  OBVIOUS
<1>2. 0 \in T
  BY <1>1
<1>3. ASSUME NEW k \in Nat, k \in T PROVE k + 1 \in T
  <2> SUFFICES ASSUME k + 1 <= n PROVE k + 1 \in S
    BY <1>1
  <2>1. k + 1 \in 1..n /\ (k + 1) - 1 = k /\ k \in S
    BY <1>1, <1>3
  <2> QED BY <2>1
<1>4. n \in T
  BY <1>1, <1>2, <1>3, SetInduction
<1> QED BY <1>1, <1>4

-----------------------------------------------------------------------------
(* The tree of spaces *)

\* The spaces that have been created, by a rank that decreases towards the top.
Created(m) == {s \in Spaces : m.status[s] # "none"}
Ranked(m, rank) ==
    /\ rank \in [Spaces -> Nat] /\ rank[Top] = 0 /\ m.status[Top] = "normal"
    /\ \A s \in Created(m) \ {Top} :
          m.parent[s] \in Created(m) /\ rank[m.parent[s]] < rank[s]
    /\ \A s \in Created(m) : rank[s] <= Cardinality(Created(m) \ {Top})
Tree(m) == \E rank : Ranked(m, rank)

\* The number of spaces bounds every rank.
LEMMA RankBound ==
    ASSUME NEW m, NEW rank, Ranked(m, rank)
    PROVE  /\ Cardinality(SubSpaces) \in Nat
           /\ \A s \in Created(m) : rank[s] \in Nat /\ rank[s] <= Cardinality(SubSpaces)
<1>1. IsFiniteSet(SubSpaces) /\ Cardinality(SubSpaces) \in Nat
  BY SpacesAssumption, FS_CardinalityType
<1>2. Created(m) \ {Top} \subseteq SubSpaces
  BY DEF Created, Spaces
<1>3. /\ IsFiniteSet(Created(m) \ {Top})
      /\ Cardinality(Created(m) \ {Top}) <= Cardinality(SubSpaces)
  BY <1>1, <1>2, FS_Subset
<1>4. Cardinality(Created(m) \ {Top}) \in Nat
  BY <1>3, FS_CardinalityType
<1>5. Created(m) \subseteq Spaces
  BY DEF Created
<1> QED BY <1>1, <1>3, <1>4, <1>5 DEF Ranked

\* The spaces that Real goes through.
OneUp(m, s) == IF m.status[s] = "merged" THEN m.parent[s] ELSE s

\* Real(m, s) follows references (Space::merge leaves one) for as many steps as there
\* are spaces; no step goes down, and each step from a merged space goes up.
LEMMA RealChain ==
    ASSUME NEW m, NEW rank, Ranked(m, rank), NEW s \in Created(m),
           NEW K \in Nat, K = Cardinality(SubSpaces)
    PROVE  \E g \in [0..K -> Created(m)] :
              /\ g[0] = s /\ Real(m, s) = g[K]
              /\ \A i \in 1..K : g[i] = OneUp(m, g[i - 1])
              /\ \A i \in 0..K : /\ rank[g[i]] <= rank[s]
                                 /\ m.status[g[i]] # "merged" \/ rank[g[i]] + i <= rank[s]
<1>1. \A c \in Created(m) : /\ OneUp(m, c) \in Created(m) /\ rank[c] \in Nat
                            /\ m.status[c] # "merged" => OneUp(m, c) = c
                            /\ m.status[c] = "merged" => rank[OneUp(m, c)] < rank[c]
  <2>1. \A c \in Created(m) : m.status[c] = "merged" => c # Top
    BY DEF Ranked
  <2> QED BY <2>1 DEF OneUp, Ranked, Created
<1>2. PICK F : F = [p \in Created(m) \X (1..K) |-> OneUp(m, p[1])]
  OBVIOUS
<1>3. \A x \in Created(m) : \A i \in 1..K : F[<<x, i>>] = OneUp(m, x)
  BY <1>2
<1>4. PICK g \in [0..K -> Created(m)] : g[0] = s /\ \A i \in 1..K : g[i] = F[<<g[i - 1], i>>]
  <2>1. Closed(F, Created(m), K)
    BY <1>1, <1>3 DEF Closed
  <2> QED BY <2>1, Iterate DEF Iterates
<1>5. \A i \in 1..K : g[i - 1] \in Created(m) /\ g[i] = OneUp(m, g[i - 1])
  <2>1. \A i \in 1..K : i - 1 \in 0..K
    OBVIOUS
  <2>2. \A i \in 1..K : g[i - 1] \in Created(m)
    BY <2>1
  <2> QED BY <1>3, <1>4, <2>2
<1>6. g = [i \in 0..K |-> IF i = 0 THEN s ELSE LET c == g[i - 1]
                          IN IF m.status[c] = "merged" THEN m.parent[c] ELSE c]
  BY <1>4, <1>5 DEF OneUp
<1>7. PICK h : h = CHOOSE f : f = [i \in 0..K |-> IF i = 0 THEN s ELSE LET c == f[i - 1]
                                   IN IF m.status[c] = "merged" THEN m.parent[c] ELSE c]
  OBVIOUS
<1>8. h = [i \in 0..K |-> IF i = 0 THEN s ELSE LET c == h[i - 1]
                          IN IF m.status[c] = "merged" THEN m.parent[c] ELSE c]
  BY <1>6, <1>7
<1>9. Real(m, s) = h[K]
  BY <1>7 DEF Real
<1>10. h[K] = g[K]
  <2>1. PICK S : S = {i \in 0..K : h[i] = g[i]}
    OBVIOUS
  <2>2. 0 \in S
    BY <1>4, <1>8, <2>1
  <2>3. ASSUME NEW i \in 1..K, i - 1 \in S PROVE i \in S
    BY <1>5, <1>8, <2>1, <2>3 DEF OneUp
  <2> QED BY <2>1, <2>2, <2>3, StepByStep
<1>11. \A i \in 0..K : /\ rank[g[i]] <= rank[s]
                       /\ m.status[g[i]] # "merged" \/ rank[g[i]] + i <= rank[s]
  <2>1. PICK S : S = {i \in 0..K : \A j \in 0..i :
                        /\ rank[g[j]] <= rank[s]
                        /\ m.status[g[j]] # "merged" \/ rank[g[j]] + j <= rank[s]}
    OBVIOUS
  <2>2. 0 \in S
    BY <1>1, <1>4, <2>1
  <2>3. ASSUME NEW i \in 1..K, i - 1 \in S PROVE i \in S
    <3>1. PICK c \in Created(m) : c = g[i - 1] /\ g[i] = OneUp(m, c)
      BY <1>5
    <3>2. rank[c] <= rank[s] /\ (m.status[c] # "merged" \/ rank[c] + (i - 1) <= rank[s])
      BY <2>1, <2>3, <3>1
    <3>3. CASE m.status[c] = "merged"
      <4>1. rank[g[i]] < rank[c] /\ rank[g[i]] \in Nat /\ rank[c] \in Nat /\ rank[s] \in Nat
        BY <1>1, <3>1, <3>3
      <4>2. rank[g[i]] <= rank[s] /\ rank[g[i]] + i <= rank[s]
        BY <3>2, <3>3, <4>1
      <4> QED BY <2>1, <2>3, <4>2
    <3>4. CASE m.status[c] # "merged"
      <4>1. g[i] = c
        BY <1>1, <3>1, <3>4
      <4> QED BY <2>1, <2>3, <3>2, <3>4, <4>1
    <3> QED BY <3>3, <3>4
  <2>4. K \in S
    BY <2>1, <2>2, <2>3, StepByStep
  <2> QED BY <2>1, <2>4
<1> QED BY <1>4, <1>5, <1>9, <1>10, <1>11
\* Spaces that are not merged, each of which stands for itself
Standing(m) == {s \in Created(m) : m.status[s] # "merged"}
Below(m) == Standing(m) \ {Top}

\* What a space stands for
LEMMA RealFacts ==
    ASSUME NEW m, NEW rank, Ranked(m, rank), NEW s \in Created(m)
    PROVE  /\ Real(m, s) \in Standing(m)
           /\ rank[Real(m, s)] <= rank[s]
           /\ m.status[s] # "merged" => Real(m, s) = s
           /\ m.status[s] = "merged" => /\ s # Top /\ m.parent[s] \in Created(m)
                                        /\ Real(m, s) = Real(m, m.parent[s])
<1>1. PICK K \in Nat : K = Cardinality(SubSpaces)
  BY RankBound
<1>2. \A c \in Created(m) : rank[c] \in Nat /\ rank[c] <= K
  BY <1>1, RankBound
<1>3. \A c \in Created(m) : m.status[c] = "merged" =>
         c # Top /\ m.parent[c] \in Created(m) /\ rank[m.parent[c]] < rank[c]
  BY DEF Ranked
<1>4. PICK g \in [0..K -> Created(m)] :
         /\ g[0] = s /\ Real(m, s) = g[K]
         /\ \A i \in 1..K : g[i] = OneUp(m, g[i - 1])
         /\ \A i \in 0..K : /\ rank[g[i]] <= rank[s]
                            /\ m.status[g[i]] # "merged" \/ rank[g[i]] + i <= rank[s]
  BY <1>1, RealChain
<1>5. g[K] \in Created(m) /\ m.status[g[K]] # "merged" /\ rank[g[K]] <= rank[s]
  <2>1. K \in 0..K
    OBVIOUS
  <2>2. g[K] \in Created(m) /\ rank[g[K]] <= rank[s]
        /\ (m.status[g[K]] # "merged" \/ rank[g[K]] + K <= rank[s])
    BY <1>4, <2>1
  <2>3. CASE m.status[g[K]] = "merged"
    <3>1. rank[g[K]] \in Nat /\ rank[s] \in Nat /\ rank[s] <= K
      BY <1>2, <2>2
    <3>2. rank[g[K]] = 0
      BY <2>2, <2>3, <3>1
    <3>3. rank[m.parent[g[K]]] < 0 /\ rank[m.parent[g[K]]] \in Nat
      BY <1>2, <1>3, <2>2, <2>3, <3>2
    <3> QED BY <3>3
  <2> QED BY <2>2, <2>3
<1>6. ASSUME m.status[s] # "merged" PROVE Real(m, s) = s
  <2>1. PICK S : S = {i \in 0..K : g[i] = s}
    OBVIOUS
  <2>2. 0 \in S
    BY <1>4, <2>1
  <2>3. ASSUME NEW i \in 1..K, i - 1 \in S PROVE i \in S
    BY <1>4, <1>6, <2>1, <2>3 DEF OneUp
  <2> QED BY <1>4, <2>1, <2>2, <2>3, StepByStep
<1>7. ASSUME m.status[s] = "merged" PROVE Real(m, s) = Real(m, m.parent[s])
  <2>1. PICK p \in Created(m) : p = m.parent[s] /\ rank[p] < rank[s]
    BY <1>3, <1>7
  <2>2. PICK f \in [0..K -> Created(m)] :
           /\ f[0] = p /\ Real(m, p) = f[K]
           /\ \A i \in 1..K : f[i] = OneUp(m, f[i - 1])
           /\ \A i \in 0..K : /\ rank[f[i]] <= rank[p]
                              /\ m.status[f[i]] # "merged" \/ rank[f[i]] + i <= rank[p]
    BY <1>1, RealChain, SMTT(30)
  <2>3. K - 1 \in Nat /\ K - 1 \in 0..K /\ K \in 1..K
    BY <1>2, <2>1
  <2>4. PICK S : S = {i \in 0..(K - 1) : g[i + 1] = f[i]}
    OBVIOUS
  <2>5. 0 \in S
    <3>1. 1 \in 1..K /\ 1 - 1 = 0 /\ 0 + 1 = 1
      BY <2>3
    <3>2. g[1] = OneUp(m, s)
      BY <1>4, <3>1
    <3> QED BY <1>7, <2>1, <2>2, <2>3, <2>4, <3>2 DEF OneUp
  <2>6. ASSUME NEW i \in 1..(K - 1), i - 1 \in S PROVE i \in S
    <3>1. i \in 1..K /\ i + 1 \in 1..K /\ (i - 1) + 1 = i /\ (i + 1) - 1 = i
      BY <2>3
    <3>2. g[i] = f[i - 1]
      BY <2>4, <2>6, <3>1
    <3>3. g[i + 1] = OneUp(m, g[i])
      BY <1>4, <3>1
    <3>4. f[i] = OneUp(m, f[i - 1])
      BY <2>2, <3>1
    <3> QED BY <2>3, <2>4, <3>2, <3>3, <3>4
  <2>7. K - 1 \in S
    BY <2>3, <2>4, <2>5, <2>6, StepByStep
  <2>8. g[K] = f[K - 1]
    <3>1. (K - 1) + 1 = K
      OBVIOUS
    <3> QED BY <2>4, <2>7, <3>1
  <2>9. f[K] = OneUp(m, f[K - 1])
    BY <2>2, <2>3
  <2> QED BY <1>4, <1>5, <2>1, <2>2, <2>8, <2>9 DEF OneUp
<1> QED BY <1>3, <1>4, <1>5, <1>6, <1>7 DEF Standing

\* What Parent gives
LEMMA ParentFacts ==
    ASSUME NEW m, NEW rank, Ranked(m, rank), NEW s \in Created(m), s # Top
    PROVE  Parent(m, s) \in Standing(m) /\ rank[Parent(m, s)] < rank[s]
<1>1. PICK p \in Created(m) : p = m.parent[s] /\ rank[p] < rank[s]
  BY DEF Ranked
<1>2. Real(m, p) \in Standing(m) /\ rank[Real(m, p)] <= rank[p]
  BY RealFacts
<1>3. rank[Real(m, p)] \in Nat /\ rank[p] \in Nat /\ rank[s] \in Nat
  BY <1>2, RankBound DEF Standing
<1> QED BY <1>1, <1>2, <1>3 DEF Parent
\* c lists the spaces from s up to a.
IsChain(m, c, d, s, a) ==
    /\ d \in Nat /\ c \in [0..d -> Standing(m)] /\ c[0] = s /\ c[d] = a
    /\ \A i \in 0..(d - 1) : c[i] \notin {a, Top} /\ c[i + 1] = Parent(m, c[i])

\* The first n of the spaces in c
Prefix(c, n) == [i \in 1..n |-> c[i - 1]]

\* One turn of UpTo
Climb(m, s, a, below, k) ==
    LET next == IF below = << >> THEN s ELSE Parent(m, Last(below))
    IN IF Len(below) < k - 1 \/ next = a THEN below ELSE Append(below, next)

\* UpTo lists what is in the chain, but for its end.
LEMMA UpToChain ==
    ASSUME NEW m, NEW s, NEW a, NEW d, NEW c, IsChain(m, c, d, s, a),
           NEW K \in Nat, K = Cardinality(SubSpaces), d <= K
    PROVE  UpTo(m, s, a) = Prefix(c, d) /\ Prefix(c, d) \in Seq(Standing(m) \ {Top, a})
<1>1. d \in Nat /\ c[0] = s /\ c[d] = a /\ c \in [0..d -> Standing(m)]
      /\ \A i \in 0..(d - 1) : c[i] \notin {a, Top} /\ c[i + 1] = Parent(m, c[i])
  BY DEF IsChain
<1>2. PICK least : least = [k \in 0..K |-> IF k < d THEN k ELSE d]
  OBVIOUS
<1>3. PICK u : u = [k \in 0..K |-> Prefix(c, least[k])]
  OBVIOUS
<1>4. \A k \in 0..K : /\ least[k] = (IF k < d THEN k ELSE d) /\ least[k] \in 0..d
                      /\ u[k] = Prefix(c, least[k])
  BY <1>1, <1>2, <1>3
<1>5. \A n \in 0..d : /\ Prefix(c, n) \in Seq(Standing(m) \ {Top, a}) /\ Len(Prefix(c, n)) = n
                      /\ \A i \in 1..n : Prefix(c, n)[i] = c[i - 1]
                      /\ Prefix(c, n) = << >> <=> n = 0
  <2> SUFFICES ASSUME NEW n \in 0..d
               PROVE  /\ Prefix(c, n) \in Seq(Standing(m) \ {Top, a})
                      /\ Len(Prefix(c, n)) = n
                      /\ \A i \in 1..n : Prefix(c, n)[i] = c[i - 1]
                      /\ Prefix(c, n) = << >> <=> n = 0
    OBVIOUS
  <2>1. \A i \in 1..n : i - 1 \in 0..(d - 1) /\ i - 1 \in 0..d
    BY <1>1
  <2>2. \A i \in 1..n : c[i - 1] \in Standing(m) \ {Top, a}
    BY <1>1, <2>1
  <2>3. Prefix(c, n) \in [1..n -> Standing(m) \ {Top, a}]
    BY <2>2 DEF Prefix
  <2>4. Prefix(c, n) \in Seq(Standing(m) \ {Top, a}) /\ Len(Prefix(c, n)) = n
    BY <2>3
  <2>5. \A i \in 1..n : Prefix(c, n)[i] = c[i - 1]
    BY DEF Prefix
  <2> QED BY <2>4, <2>5
<1>6. ASSUME NEW k \in 1..K PROVE u[k] = Climb(m, s, a, u[k - 1], k)
  <2>1. PICK n \in 0..d : n = least[k - 1] /\ u[k - 1] = Prefix(c, n) /\ Len(Prefix(c, n)) = n
    <3>1. k - 1 \in 0..K
      OBVIOUS
    <3> QED BY <1>4, <1>5, <3>1
  <2>2. PICK next : /\ next = IF Prefix(c, n) = << >> THEN s ELSE Parent(m, Last(Prefix(c, n)))
                    /\ Climb(m, s, a, u[k - 1], k) = IF n < k - 1 \/ next = a THEN Prefix(c, n)
                                                     ELSE Append(Prefix(c, n), next)
    BY <2>1 DEF Climb
  <2>3. next = c[n]
    <3>1. CASE n = 0
      BY <1>1, <1>5, <2>2, <3>1
    <3>2. CASE n # 0
      <4>1. Last(Prefix(c, n)) = c[n - 1]
        BY <1>5, <2>1, <3>2 DEF Last
      <4>2. n - 1 \in 0..(d - 1) /\ (n - 1) + 1 = n
        BY <1>1, <3>2
      <4> QED BY <1>1, <1>5, <2>2, <3>2, <4>1, <4>2
    <3> QED BY <3>1, <3>2
  <2>4. CASE k <= d
    <3>1. n = k - 1 /\ n < d /\ least[k] = k
      BY <1>1, <1>4, <2>1, <2>4
    <3>2. n \in 0..(d - 1)
      BY <1>1, <3>1
    <3>3. next # a
      BY <1>1, <2>3, <3>2
    <3>4. Append(Prefix(c, n), next) = Prefix(c, k)
      <4>1. k \in 0..d /\ k = n + 1
        BY <1>1, <2>4, <3>1
      <4>2. /\ Prefix(c, n) \in Seq(Standing(m) \ {Top, a}) /\ Len(Prefix(c, n)) = n
            /\ Prefix(c, k) \in Seq(Standing(m) \ {Top, a}) /\ Len(Prefix(c, k)) = n + 1
            /\ \A i \in 1..n : Prefix(c, n)[i] = c[i - 1]
            /\ \A i \in 1..(n + 1) : Prefix(c, k)[i] = c[i - 1]
        BY <1>5, <4>1
      <4>3. next \in Standing(m) \ {Top, a}
        BY <1>1, <2>3, <3>2
      <4>4. /\ Append(Prefix(c, n), next) \in Seq(Standing(m) \ {Top, a})
            /\ Len(Append(Prefix(c, n), next)) = n + 1
            /\ \A i \in 1..(n + 1) : Append(Prefix(c, n), next)[i] = c[i - 1]
        BY <2>3, <4>2, <4>3
      <4> QED BY <4>2, <4>4
    <3>5. k \in 0..K
      OBVIOUS
    <3>6. u[k] = Prefix(c, k)
      BY <1>4, <3>1, <3>5
    <3>7. Climb(m, s, a, u[k - 1], k) = Append(Prefix(c, n), next)
      BY <2>2, <3>1, <3>3
    <3> QED BY <3>4, <3>6, <3>7
  <2>5. CASE k = d + 1
    <3>1. n = d /\ least[k] = d
      BY <1>1, <1>4, <2>1, <2>5
    <3>2. next = a
      BY <1>1, <2>3, <3>1
    <3>3. k \in 0..K
      OBVIOUS
    <3> QED BY <1>4, <2>2, <3>1, <3>2, <3>3
  <2>6. CASE k > d + 1
    <3>1. n = d /\ least[k] = d /\ n < k - 1
      BY <1>1, <1>4, <2>1, <2>6
    <3>2. k \in 0..K
      OBVIOUS
    <3> QED BY <1>4, <2>2, <3>1, <3>2
  <2> QED BY <1>1, <2>4, <2>5, <2>6
<1>7. u[0] = << >>
  BY <1>1, <1>4, <1>5
<1>8. u = [k \in 0..K |-> IF k = 0 THEN << >> ELSE Climb(m, s, a, u[k - 1], k)]
  <2>1. \A k \in 0..K : u[k] = IF k = 0 THEN << >> ELSE Climb(m, s, a, u[k - 1], k)
    BY <1>6, <1>7
  <2> QED BY <1>3, <2>1
<1>9. PICK h : h = CHOOSE up : up = [k \in 0..K |-> IF k = 0 THEN << >>
                                                   ELSE Climb(m, s, a, up[k - 1], k)]
  OBVIOUS
<1>10. h = [k \in 0..K |-> IF k = 0 THEN << >> ELSE Climb(m, s, a, h[k - 1], k)]
  BY <1>8, <1>9
<1>11. UpTo(m, s, a) = h[K]
  BY <1>9 DEF UpTo, Climb
<1>12. h[K] = u[K]
  <2>1. PICK S : S = {i \in 0..K : h[i] = u[i]}
    OBVIOUS
  <2>2. 0 \in S
    BY <1>7, <1>10, <2>1
  <2>3. ASSUME NEW i \in 1..K, i - 1 \in S PROVE i \in S
    <3>1. h[i - 1] = u[i - 1] /\ i \in 0..K /\ i # 0
      BY <2>1, <2>3
    <3>2. h[i] = u[i]
      BY <1>6, <1>10, <3>1
    <3> QED BY <2>1, <3>1, <3>2
  <2> QED BY <2>1, <2>2, <2>3, StepByStep
<1>13. u[K] = Prefix(c, d)
  BY <1>1, <1>4
<1> QED BY <1>1, <1>5, <1>11, <1>12, <1>13
\* The chain of a space is that of its parent, and the space.
Longer(c, d, s) == [i \in 0..(d + 1) |-> IF i = 0 THEN s ELSE c[i - 1]]

\* A chain from the parent of s is made longer by s (getParent).
LEMMA ChainUp ==
    ASSUME NEW m, NEW a, NEW s \in Standing(m), s \notin {a, Top}, NEW c, NEW d,
           IsChain(m, c, d, Parent(m, s), a)
    PROVE  IsChain(m, Longer(c, d, s), d + 1, s, a)
<1>1. PICK p : p = Parent(m, s)
  OBVIOUS
<1>2. /\ d \in Nat /\ c \in [0..d -> Standing(m)] /\ c[0] = p /\ c[d] = a
      /\ \A i \in 0..(d - 1) : c[i] \notin {a, Top} /\ c[i + 1] = Parent(m, c[i])
  BY <1>1 DEF IsChain
<1>3. PICK f : f = Longer(c, d, s)
  OBVIOUS
<1>4. \A i \in 1..(d + 1) : f[i] = c[i - 1] /\ i - 1 \in 0..d
  BY <1>2, <1>3 DEF Longer
<1>5. f[0] = s /\ f \in [0..(d + 1) -> Standing(m)]
  <2>1. f[0] = s
    BY <1>2, <1>3 DEF Longer
  <2>2. \A i \in 1..(d + 1) : f[i] \in Standing(m)
    BY <1>2, <1>4
  <2>3. \A i \in 0..(d + 1) : i = 0 \/ i \in 1..(d + 1)
    BY <1>2
  <2> QED BY <1>3, <2>1, <2>2, <2>3 DEF Longer
<1>6. ASSUME NEW i \in 0..((d + 1) - 1)
      PROVE  f[i] \notin {a, Top} /\ f[i + 1] = Parent(m, f[i])
  <2>1. i + 1 \in 1..(d + 1) /\ (i + 1) - 1 = i
    BY <1>2
  <2>2. f[i + 1] = c[i]
    BY <1>4, <2>1
  <2>3. CASE i = 0
    BY <1>1, <1>2, <1>5, <2>2, <2>3
  <2>4. CASE i # 0
    <3>1. i \in 1..(d + 1) /\ i - 1 \in 0..(d - 1) /\ (i - 1) + 1 = i
      BY <1>2, <2>4
    <3>2. f[i] = c[i - 1]
      BY <1>4, <3>1
    <3> QED BY <1>2, <2>2, <3>1, <3>2
  <2> QED BY <2>3, <2>4
<1>7. f[d + 1] = a /\ d + 1 \in Nat
  <2>1. d + 1 \in 1..(d + 1) /\ (d + 1) - 1 = d
    BY <1>2
  <2>2. f[d + 1] = c[d]
    BY <1>4, <2>1
  <2> QED BY <1>2, <2>2
<1> QED BY <1>3, <1>5, <1>6, <1>7 DEF IsChain

\* A chain leads from every space to the top.
LEMMA ChainExists ==
    ASSUME NEW m, NEW rank, Ranked(m, rank), NEW s \in Standing(m)
    PROVE  \E c, d : IsChain(m, c, d, s, Top) /\ d <= rank[s]
<1>1. PICK T : T = {n \in Nat : \A x \in Standing(m) : rank[x] <= n =>
                       \E c, d : IsChain(m, c, d, x, Top) /\ d <= rank[x]}
  OBVIOUS
<1>2. \A x \in Standing(m) : x \in Created(m) /\ rank[x] \in Nat
  BY RankBound DEF Standing
<1>3. ASSUME NEW x \in Standing(m), x = Top
      PROVE  \E c, d : IsChain(m, c, d, x, Top) /\ d <= rank[x]
  <2>1. PICK c : c = [i \in 0..0 |-> Top]
    OBVIOUS
  <2>2. IsChain(m, c, 0, x, Top)
    BY <1>3, <2>1 DEF IsChain
  <2>3. 0 <= rank[x]
    BY <1>2
  <2> QED BY <2>2, <2>3
<1>4. 0 \in T
  <2>1. ASSUME NEW x \in Standing(m), rank[x] <= 0 PROVE x = Top
    <3> SUFFICES ASSUME x # Top PROVE FALSE
      OBVIOUS
    <3>1. Parent(m, x) \in Standing(m) /\ rank[Parent(m, x)] < rank[x]
      BY <1>2, ParentFacts
    <3>2. rank[Parent(m, x)] \in Nat /\ rank[x] \in Nat
      BY <1>2, <3>1
    <3> QED BY <2>1, <3>1, <3>2
  <2> QED BY <1>1, <1>3, <2>1
<1>5. ASSUME NEW n \in Nat, n \in T PROVE n + 1 \in T
  <2> SUFFICES ASSUME NEW x \in Standing(m), rank[x] <= n + 1
               PROVE  \E c, d : IsChain(m, c, d, x, Top) /\ d <= rank[x]
    BY <1>1
  <2> SUFFICES ASSUME x # Top PROVE \E c, d : IsChain(m, c, d, x, Top) /\ d <= rank[x]
    BY <1>3
  <2>1. PICK p \in Standing(m) : p = Parent(m, x) /\ rank[p] < rank[x]
    BY <1>2, ParentFacts
  <2>2. rank[p] \in Nat /\ rank[x] \in Nat /\ rank[p] <= n
    BY <1>2, <2>1
  <2>3. PICK c, d : IsChain(m, c, d, p, Top) /\ d <= rank[p]
    BY <1>1, <1>5, <2>2
  <2>4. IsChain(m, Longer(c, d, x), d + 1, x, Top)
    BY <2>1, <2>3, ChainUp
  <2>5. d + 1 <= rank[x]
    BY <2>1, <2>2, <2>3 DEF IsChain
  <2> QED BY <2>4, <2>5
<1>6. rank[s] \in T
  BY <1>1, <1>2, <1>4, <1>5, SetInduction
<1>7. rank[s] <= rank[s]
  BY <1>2
<1> QED BY <1>1, <1>6, <1>7

\* c leads from s to the top, not longer than the rank of s.
IsPath(m, rank, c, d, s) == IsChain(m, c, d, s, Top) /\ d <= rank[s]

\* The spaces in a chain
Along(c, d) == {c[i] : i \in 0..d}

\* The path of a space is its chain.
LEMMA PathChain ==
    ASSUME NEW m, NEW rank, Ranked(m, rank), NEW s \in Standing(m),
           NEW c, NEW d, IsPath(m, rank, c, d, s)
    PROVE  /\ UpFrom(m, s) = Prefix(c, d)
           /\ UpFrom(m, s) \in Seq(Below(m))
           /\ Path(m, s) = Along(c, d)
<1>1. PICK K \in Nat : K = Cardinality(SubSpaces) /\ rank[s] <= K /\ rank[s] \in Nat
  BY RankBound DEF Standing
<1>2. /\ d \in Nat /\ c \in [0..d -> Standing(m)] /\ c[0] = s /\ c[d] = Top
  BY DEF IsChain, IsPath
<1>3. d <= K
  BY <1>1, <1>2 DEF IsPath
<1>4. UpTo(m, s, Top) = Prefix(c, d) /\ Prefix(c, d) \in Seq(Standing(m) \ {Top, Top})
  BY <1>1, <1>3, UpToChain DEF IsPath
<1>5. UpFrom(m, s) = Prefix(c, d) /\ UpFrom(m, s) \in Seq(Below(m))
  <2>1. Standing(m) \ {Top, Top} = Below(m)
    BY DEF Below
  <2> QED BY <1>4, <2>1 DEF UpFrom
<1>6. ToSet(Prefix(c, d)) = {c[i - 1] : i \in 1..d}
  BY <1>2 DEF Prefix, ToSet
<1>7. {c[i - 1] : i \in 1..d} = {c[i] : i \in 0..(d - 1)}
  <2>1. \A i \in 1..d : i - 1 \in 0..(d - 1)
    BY <1>2
  <2>2. \A i \in 0..(d - 1) : i + 1 \in 1..d /\ (i + 1) - 1 = i
    BY <1>2
  <2> QED BY <2>1, <2>2
<1>8. {c[i] : i \in 0..(d - 1)} \cup {Top} = {c[i] : i \in 0..d}
  <2>1. \A i \in 0..d : i = d \/ i \in 0..(d - 1)
    BY <1>2
  <2>2. d \in 0..d /\ 0..(d - 1) \subseteq 0..d
    BY <1>2
  <2> QED BY <1>2, <2>1, <2>2
<1> QED BY <1>5, <1>6, <1>7, <1>8 DEF Path, Along
\* The path of a space, by the path of its parent
LEMMA PathFacts ==
    ASSUME NEW m, NEW rank, Ranked(m, rank), NEW s \in Standing(m)
    PROVE  /\ Path(m, s) \subseteq Standing(m) /\ s \in Path(m, s) /\ Top \in Path(m, s)
           /\ s = Top => Path(m, s) = {Top}
           /\ s # Top => Path(m, s) = {s} \cup Path(m, Parent(m, s))
<1>1. \A x \in Standing(m) : x \in Created(m)
  BY DEF Standing
<1>2. PICK c, d : IsChain(m, c, d, s, Top) /\ d <= rank[s]
  BY ChainExists
<1>3. Path(m, s) = {c[i] : i \in 0..d}
  <2>1. IsPath(m, rank, c, d, s)
    BY <1>2 DEF IsPath
  <2>2. Path(m, s) = Along(c, d)
    BY <2>1, PathChain
  <2> QED BY <2>2 DEF Along
<1>4. d \in Nat /\ c \in [0..d -> Standing(m)] /\ c[0] = s /\ c[d] = Top /\ 0 \in 0..d /\ d \in 0..d
  BY <1>2 DEF IsChain
<1>5. Path(m, s) \subseteq Standing(m) /\ s \in Path(m, s) /\ Top \in Path(m, s)
  BY <1>3, <1>4
<1>6. ASSUME s = Top PROVE Path(m, s) = {Top}
  <2>1. d = 0
    <3>1. rank[s] = 0
      BY <1>6 DEF Ranked
    <3> QED BY <1>2, <1>4, <3>1
  <2> QED BY <1>3, <1>4, <2>1
<1>7. ASSUME s # Top PROVE Path(m, s) = {s} \cup Path(m, Parent(m, s))
  <2>1. PICK p \in Standing(m) : p = Parent(m, s) /\ rank[p] < rank[s]
    BY <1>1, <1>7, ParentFacts
  <2>2. PICK f, e : IsChain(m, f, e, p, Top) /\ e <= rank[p]
    BY ChainExists
  <2>3. e \in Nat /\ rank[p] \in Nat /\ rank[s] \in Nat
    BY <1>1, <2>1, <2>2, RankBound DEF IsChain
  <2>4. PICK g : g = Longer(f, e, s)
    OBVIOUS
  <2>5. IsChain(m, g, e + 1, s, Top) /\ e + 1 <= rank[s]
    BY <1>7, <2>1, <2>2, <2>3, <2>4, ChainUp
  <2>6. Path(m, s) = {g[i] : i \in 0..(e + 1)}
    <3>1. PICK k : k = e + 1
      OBVIOUS
    <3>2. IsPath(m, rank, g, k, s)
      BY <2>5, <3>1 DEF IsPath
    <3>3. Path(m, s) = Along(g, k)
      BY <3>2, PathChain
    <3> QED BY <3>1, <3>3 DEF Along
  <2>7. Path(m, p) = {f[i] : i \in 0..e}
    <3>1. p \in Standing(m) /\ IsPath(m, rank, f, e, p)
      BY <2>1, <2>2 DEF IsPath
    <3>2. Path(m, p) = Along(f, e)
      BY <3>1, PathChain
    <3> QED BY <3>2 DEF Along
  <2>8. g[0] = s /\ \A i \in 0..e : g[i + 1] = f[i]
    <3>1. \A i \in 0..e : i + 1 \in 0..(e + 1) /\ i + 1 # 0 /\ (i + 1) - 1 = i
      BY <2>3
    <3> QED BY <2>3, <2>4, <3>1 DEF Longer
  <2>9. \A i \in 0..(e + 1) : i = 0 \/ \E j \in 0..e : i = j + 1
    <3>1. \A i \in 0..(e + 1) : i # 0 => i - 1 \in 0..e /\ i = (i - 1) + 1
      BY <2>3
    <3> QED BY <3>1
  <2>10. 0 \in 0..(e + 1) /\ \A j \in 0..e : j + 1 \in 0..(e + 1)
    BY <2>3
  <2> QED BY <2>1, <2>6, <2>7, <2>8, <2>9, <2>10
<1> QED BY <1>5, <1>6, <1>7

\* Ranks decrease along a path.
LEMMA PathRanks ==
    ASSUME NEW m, NEW rank, Ranked(m, rank), NEW s \in Standing(m), NEW a \in Path(m, s)
    PROVE  /\ a = s \/ rank[a] < rank[s]
           /\ Path(m, a) \subseteq Path(m, s)
<1>1. PICK T : T = {n \in Nat : \A x \in Standing(m) : rank[x] <= n =>
                       \A b \in Path(m, x) : /\ b = x \/ rank[b] < rank[x]
                                             /\ Path(m, b) \subseteq Path(m, x)}
  OBVIOUS
<1>2. \A x \in Standing(m) : x \in Created(m) /\ rank[x] \in Nat
  BY RankBound DEF Standing
<1>3. \A x \in Standing(m) : x # Top => Parent(m, x) \in Standing(m) /\ rank[Parent(m, x)] < rank[x]
  BY <1>2, ParentFacts
<1>4. 0 \in T
  <2>1. ASSUME NEW x \in Standing(m), rank[x] <= 0 PROVE x = Top
    BY <1>2, <1>3, <2>1
  <2> QED BY <1>1, <2>1, PathFacts
<1>5. ASSUME NEW n \in Nat, n \in T PROVE n + 1 \in T
  <2> SUFFICES ASSUME NEW x \in Standing(m), rank[x] <= n + 1, NEW b \in Path(m, x)
               PROVE  (b = x \/ rank[b] < rank[x]) /\ Path(m, b) \subseteq Path(m, x)
    BY <1>1
  <2>1. CASE b = x
    BY <2>1
  <2>2. CASE b # x
    <3>1. x # Top
      BY <2>2, PathFacts
    <3>2. PICK p \in Standing(m) : p = Parent(m, x) /\ rank[p] < rank[x]
      BY <1>3, <3>1
    <3>3. Path(m, x) = {x} \cup Path(m, p)
      BY <3>1, <3>2, PathFacts
    <3>4. b \in Path(m, p) /\ b \in Standing(m)
      BY <2>2, <3>2, <3>3, PathFacts
    <3>5. rank[p] \in Nat /\ rank[x] \in Nat /\ rank[b] \in Nat /\ rank[p] <= n
      BY <1>2, <3>2, <3>4
    <3>6. (b = p \/ rank[b] < rank[p]) /\ Path(m, b) \subseteq Path(m, p)
      BY <1>1, <1>5, <3>4, <3>5
    <3> QED BY <3>2, <3>3, <3>5, <3>6
  <2> QED BY <2>1, <2>2
<1>6. T \in SUBSET Nat /\ 0 \in T /\ \A n \in Nat : n \in T => n + 1 \in T
  BY <1>1, <1>4, <1>5
<1>7. Nat \subseteq T
  BY <1>6, SetInduction
<1>8. rank[s] \in Nat
  BY <1>2
<1>9. rank[s] \in T /\ rank[s] <= rank[s]
  BY <1>7, <1>8
<1> QED BY <1>1, <1>9

\* Induction over the tree, downwards
Inherited(m, rank, S) ==
    \A x \in Created(m) : (\A y \in Created(m) : rank[y] < rank[x] => y \in S) => x \in S

\* What every space inherits from the spaces above it, all spaces have.
LEMMA TreeInduction ==
    ASSUME NEW m, NEW rank, Ranked(m, rank), NEW S, Inherited(m, rank, S)
    PROVE  Created(m) \subseteq S
<1> SUFFICES ASSUME Created(m) \ S # {} PROVE FALSE
  OBVIOUS
<1>1. \A x \in Created(m) : rank[x] \in Nat
  BY RankBound
<1>2. PICK T : T = {rank[x] : x \in Created(m) \ S}
  OBVIOUS
<1>3. T \in SUBSET Nat /\ T # {}
  BY <1>1, <1>2
<1>4. PICK n \in T : \A k \in T : n <= k
  BY <1>3, LeastNatural
<1>5. PICK x \in Created(m) \ S : rank[x] = n
  BY <1>2, <1>4
<1>6. ASSUME NEW y \in Created(m), rank[y] < rank[x] PROVE y \in S
  <2> SUFFICES ASSUME y \notin S PROVE FALSE
    OBVIOUS
  <2>1. rank[y] \in T
    BY <1>2
  <2>2. n \in Nat /\ rank[y] \in Nat /\ n <= rank[y]
    BY <1>1, <1>3, <1>4, <2>1
  <2> QED BY <1>5, <1>6, <2>2
<1> QED BY <1>5, <1>6 DEF Inherited

\* Two spaces of a path are above one another.
LEMMA PathLinear ==
    ASSUME NEW m, NEW rank, Ranked(m, rank), NEW s \in Standing(m),
           NEW a \in Path(m, s), NEW b \in Path(m, s)
    PROVE  a \in Path(m, b) \/ b \in Path(m, a)
<1>1. PICK S : S = {x \in Created(m) : x \in Standing(m) =>
                      \A e, f \in Path(m, x) : e \in Path(m, f) \/ f \in Path(m, e)}
  OBVIOUS
<1>2. Inherited(m, rank, S)
  <2> SUFFICES ASSUME NEW x \in Created(m), x \in Standing(m),
                      \A y \in Created(m) : rank[y] < rank[x] => y \in S,
                      NEW e \in Path(m, x), NEW f \in Path(m, x)
               PROVE  e \in Path(m, f) \/ f \in Path(m, e)
    BY <1>1 DEF Inherited
  <2>1. CASE e = x \/ f = x
    BY <2>1
  <2>2. CASE e # x /\ f # x
    <3>1. x # Top
      BY <2>2, PathFacts
    <3>2. PICK p \in Standing(m) : p = Parent(m, x) /\ rank[p] < rank[x]
      BY <3>1, ParentFacts
    <3>3. p \in S
      BY <3>2 DEF Standing
    <3>4. e \in Path(m, p) /\ f \in Path(m, p)
      BY <2>2, <3>1, <3>2, PathFacts
    <3> QED BY <1>1, <3>2, <3>3, <3>4
  <2> QED BY <2>1, <2>2
<1>3. s \in Created(m)
  BY DEF Standing
<1>4. s \in S
  BY <1>2, <1>3, TreeInduction
<1> QED BY <1>1, <1>4

\* A chain leads to every space above.
LEMMA ChainTo ==
    ASSUME NEW m, NEW rank, Ranked(m, rank), NEW s \in Standing(m), NEW a \in Path(m, s)
    PROVE  \E c, d : IsChain(m, c, d, s, a) /\ d <= rank[s]
<1>1. PICK S : S = {x \in Created(m) : x \in Standing(m) /\ a \in Path(m, x) =>
                      \E c, d : IsChain(m, c, d, x, a) /\ d <= rank[x]}
  OBVIOUS
<1>2. \A x \in Created(m) : rank[x] \in Nat
  BY RankBound
<1>3. Inherited(m, rank, S)
  <2> SUFFICES ASSUME NEW x \in Created(m), x \in Standing(m), a \in Path(m, x),
                      \A y \in Created(m) : rank[y] < rank[x] => y \in S
               PROVE  \E c, d : IsChain(m, c, d, x, a) /\ d <= rank[x]
    BY <1>1 DEF Inherited
  <2>1. CASE x = a
    <3>1. PICK c : c = [i \in 0..0 |-> a]
      OBVIOUS
    <3>2. IsChain(m, c, 0, x, a)
      BY <2>1, <3>1 DEF IsChain
    <3>3. 0 <= rank[x]
      BY <1>2
    <3> QED BY <3>2, <3>3
  <2>2. CASE x # a
    <3>1. x # Top
      BY <2>2, PathFacts
    <3>2. PICK p \in Standing(m) : p = Parent(m, x) /\ rank[p] < rank[x]
      BY <3>1, ParentFacts
    <3>3. p \in S /\ p \in Created(m)
      BY <3>2 DEF Standing
    <3>4. a \in Path(m, p)
      BY <2>2, <3>1, <3>2, PathFacts
    <3>5. PICK c, d : IsChain(m, c, d, p, a) /\ d <= rank[p]
      BY <1>1, <3>2, <3>3, <3>4
    <3>6. IsChain(m, Longer(c, d, x), d + 1, x, a)
      BY <2>2, <3>1, <3>2, <3>5, ChainUp
    <3>7. d \in Nat /\ rank[p] \in Nat /\ rank[x] \in Nat
      BY <1>2, <3>3, <3>5 DEF IsChain
    <3>8. d + 1 <= rank[x]
      BY <3>2, <3>5, <3>7
    <3> QED BY <3>6, <3>8
  <2> QED BY <2>1, <2>2
<1>4. s \in Created(m)
  BY DEF Standing
<1>5. s \in S
  BY <1>3, <1>4, TreeInduction
<1> QED BY <1>1, <1>5

\* UpTo climbs from a space to one above it.
Climbs(m, u, s, a) ==
    /\ u \in Seq(Below(m))
    /\ Len(u) = 0 => s = a
    /\ Len(u) > 0 => u[1] = s /\ Parent(m, u[Len(u)]) = a
    /\ \A i \in 1..(Len(u) - 1) : u[i + 1] = Parent(m, u[i])

\* deinstallTo and installFrom go from each space to its parent, and end below a.
LEMMA UpToClimbs ==
    ASSUME NEW m, NEW rank, Ranked(m, rank), NEW s \in Standing(m), NEW a \in Path(m, s)
    PROVE  Climbs(m, UpTo(m, s, a), s, a)
<1>1. PICK c, d : IsChain(m, c, d, s, a) /\ d <= rank[s]
  BY ChainTo
<1>2. PICK K \in Nat : K = Cardinality(SubSpaces) /\ rank[s] <= K /\ rank[s] \in Nat
  BY RankBound DEF Standing
<1>3. /\ d \in Nat /\ c \in [0..d -> Standing(m)] /\ c[0] = s /\ c[d] = a
      /\ \A i \in 0..(d - 1) : c[i] \notin {a, Top} /\ c[i + 1] = Parent(m, c[i])
  BY <1>1 DEF IsChain
<1>4. d <= K
  BY <1>1, <1>2, <1>3
<1>5. PICK u : u = Prefix(c, d)
  OBVIOUS
<1>6. UpTo(m, s, a) = u
  <2>1. IsChain(m, c, d, s, a)
    BY <1>1
  <2> QED BY <1>2, <1>4, <1>5, <2>1, UpToChain, ZenonT(60)
<1>7. \A i \in 1..d : i - 1 \in 0..(d - 1) /\ i - 1 \in 0..d /\ (i - 1) + 1 = i
  BY <1>3
<1>8. \A i \in 1..d : c[i - 1] \in Below(m)
  BY <1>3, <1>7 DEF Below
<1>9. u \in [1..d -> Below(m)] /\ \A i \in 1..d : u[i] = c[i - 1]
  BY <1>5, <1>8 DEF Prefix
<1>10. u \in Seq(Below(m)) /\ Len(u) = d
  BY <1>3, <1>9
<1>11. d > 0 => u[1] = s /\ Parent(m, u[d]) = a
  <2> SUFFICES ASSUME d > 0 PROVE u[1] = s /\ Parent(m, u[d]) = a
    OBVIOUS
  <2>1. 1 \in 1..d /\ d \in 1..d /\ 1 - 1 = 0
    BY <1>3
  <2>2. u[1] = c[0]
    BY <1>9, <2>1
  <2>3. u[d] = c[d - 1]
    BY <1>9, <2>1
  <2>4. c[(d - 1) + 1] = Parent(m, c[d - 1])
    BY <1>3, <1>7, <2>1
  <2>5. (d - 1) + 1 = d
    BY <1>3
  <2> QED BY <1>3, <2>2, <2>3, <2>4, <2>5
<1>12. ASSUME NEW i \in 1..(d - 1) PROVE u[i + 1] = Parent(m, u[i])
  <2>1. i \in 1..d /\ i + 1 \in 1..d /\ (i + 1) - 1 = i
    BY <1>3
  <2>2. u[i] = c[i - 1]
    BY <1>9, <2>1
  <2>3. u[i + 1] = c[i]
    BY <1>9, <2>1
  <2>4. c[(i - 1) + 1] = Parent(m, c[i - 1])
    BY <1>3, <1>7, <2>1
  <2>5. (i - 1) + 1 = i
    OBVIOUS
  <2> QED BY <2>2, <2>3, <2>4, <2>5
<1>13. d = 0 => s = a
  BY <1>3
<1> QED BY <1>6, <1>10, <1>11, <1>12, <1>13 DEF Climbs

\* m2 has the spaces of m where they were, and perhaps more.
SameTree(m, m2) ==
    \A s \in Created(m) :
        /\ s \in Created(m2)
        /\ m2.status[s] = "merged" <=> m.status[s] = "merged"
        /\ s # Top => m2.parent[s] = m.parent[s]

\* Spaces stand for the same spaces, and have the same parents, in the same tree.
LEMMA SameReal ==
    ASSUME NEW m, NEW rank, Ranked(m, rank), NEW m2, NEW rank2, Ranked(m2, rank2),
           SameTree(m, m2), NEW s \in Created(m)
    PROVE  Real(m2, s) = Real(m, s) /\ (s # Top => Parent(m2, s) = Parent(m, s))
<1>1. PICK S : S = {x \in Created(m) : Real(m2, x) = Real(m, x)}
  OBVIOUS
<1>2. Inherited(m, rank, S)
  <2> SUFFICES ASSUME NEW x \in Created(m),
                      \A y \in Created(m) : rank[y] < rank[x] => y \in S
               PROVE  Real(m2, x) = Real(m, x)
    BY <1>1 DEF Inherited
  <2>1. x \in Created(m2) /\ (m2.status[x] = "merged" <=> m.status[x] = "merged")
    BY DEF SameTree
  <2>2. CASE m.status[x] = "merged"
    <3>1. PICK p \in Created(m) : p = m.parent[x] /\ Real(m, x) = Real(m, p) /\ x # Top
      BY <2>2, RealFacts
    <3>2. rank[p] < rank[x]
      BY <3>1 DEF Ranked
    <3>3. m2.parent[x] = p
      BY <3>1 DEF SameTree
    <3>4. Real(m2, x) = Real(m2, p)
      BY <2>1, <2>2, <3>3, RealFacts
    <3> QED BY <1>1, <3>1, <3>2, <3>4
  <2>3. CASE m.status[x] # "merged"
    <3>1. Real(m, x) = x
      BY <2>3, RealFacts
    <3>2. Real(m2, x) = x
      BY <2>1, <2>3, RealFacts
    <3> QED BY <3>1, <3>2
  <2> QED BY <2>2, <2>3
<1>3. Created(m) \subseteq S
  BY <1>2, TreeInduction
<1>4. ASSUME s # Top PROVE Parent(m2, s) = Parent(m, s)
  <2>1. m.parent[s] \in Created(m) /\ m2.parent[s] = m.parent[s]
    BY <1>4 DEF Ranked, SameTree
  <2> QED BY <1>1, <1>3, <2>1 DEF Parent
<1> QED BY <1>1, <1>3, <1>4

\* Spaces are below the same spaces in the same tree.
LEMMA SamePath ==
    ASSUME NEW m, NEW rank, Ranked(m, rank), NEW m2, NEW rank2, Ranked(m2, rank2),
           SameTree(m, m2), NEW s \in Standing(m)
    PROVE  s \in Standing(m2) /\ Path(m2, s) = Path(m, s)
<1>1. \A x \in Standing(m) : x \in Created(m) /\ x \in Standing(m2)
  BY DEF Standing, SameTree
<1>2. PICK S : S = {x \in Created(m) : x \in Standing(m) => Path(m2, x) = Path(m, x)}
  OBVIOUS
<1>3. Inherited(m, rank, S)
  <2> SUFFICES ASSUME NEW x \in Created(m), x \in Standing(m),
                      \A y \in Created(m) : rank[y] < rank[x] => y \in S
               PROVE  Path(m2, x) = Path(m, x)
    BY <1>2 DEF Inherited
  <2>1. x \in Standing(m2)
    BY <1>1
  <2>2. CASE x = Top
    <3>1. Path(m, x) = {Top}
      BY <2>2, PathFacts
    <3>2. Path(m2, x) = {Top}
      BY <2>1, <2>2, PathFacts
    <3> QED BY <3>1, <3>2
  <2>3. CASE x # Top
    <3>1. PICK p \in Standing(m) : p = Parent(m, x) /\ rank[p] < rank[x]
      BY <2>3, ParentFacts
    <3>2. Parent(m2, x) = p
      BY <2>3, <3>1, SameReal
    <3>3. Path(m, x) = {x} \cup Path(m, p)
      BY <2>3, <3>1, PathFacts
    <3>4. Path(m2, x) = {x} \cup Path(m2, p)
      BY <2>1, <2>3, <3>2, PathFacts
    <3>5. Path(m2, p) = Path(m, p)
      BY <1>1, <1>2, <3>1
    <3> QED BY <3>3, <3>4, <3>5
  <2> QED BY <2>2, <2>3
<1>4. Created(m) \subseteq S
  BY <1>3, TreeInduction
<1> QED BY <1>1, <1>2, <1>4

\* Space s of m is merged in m2.
Merges(m, m2, s) ==
    /\ s \in Below(m)
    /\ m2.status = [m.status EXCEPT ![s] = "merged"]
    /\ m2.parent = m.parent

\* What Real gives after a merge
LEMMA MergedReal ==
    ASSUME NEW m, m.status \in [Spaces -> {"none", "normal", "failed", "merged"}],
           NEW rank, Ranked(m, rank), NEW m2, NEW s, Merges(m, m2, s), NEW d, d = Parent(m, s)
    PROVE  /\ Ranked(m2, rank) /\ Created(m2) = Created(m) /\ Standing(m2) = Standing(m) \ {s}
           /\ d \in Standing(m2)
           /\ \A x \in Created(m) : Real(m2, x) = IF Real(m, x) = s THEN d ELSE Real(m, x)
<1>1. s \in Spaces /\ s \in SubSpaces /\ s # Top /\ m.status[s] \notin {"none", "merged"}
  BY DEF Merges, Below, Standing, Created, Spaces
<1>2. /\ \A x \in Spaces : m2.status[x] = IF x = s THEN "merged" ELSE m.status[x]
      /\ m2.parent = m.parent
  BY DEF Merges
<1>3. Created(m2) = Created(m) /\ Standing(m2) = Standing(m) \ {s}
  BY <1>1, <1>2 DEF Created, Standing
<1>4. Top \in Spaces
  BY DEF Spaces
<1>5. Ranked(m2, rank)
  BY <1>1, <1>2, <1>3, <1>4 DEF Ranked
<1>6. d \in Standing(m) /\ rank[d] < rank[s] /\ s \in Created(m)
  <2>1. s \in Created(m)
    BY DEF Merges, Below, Standing
  <2> QED BY <1>1, <2>1, ParentFacts
<1>7. d # s
  <2>1. rank[d] \in Nat /\ rank[s] \in Nat
    BY <1>6, RankBound DEF Standing
  <2> QED BY <1>6, <2>1
<1>8. PICK S : S = {x \in Created(m) :
                       Real(m2, x) = IF Real(m, x) = s THEN d ELSE Real(m, x)}
  OBVIOUS
<1>9. Inherited(m, rank, S)
  <2> SUFFICES ASSUME NEW x \in Created(m),
                      \A y \in Created(m) : rank[y] < rank[x] => y \in S
               PROVE  Real(m2, x) = IF Real(m, x) = s THEN d ELSE Real(m, x)
    BY <1>8 DEF Inherited
  <2>1. x \in Spaces
    BY DEF Created
  <2>2. CASE x = s
    <3>1. Real(m, x) = s
      BY <1>1, <2>2, RealFacts
    <3>2. m2.status[x] = "merged"
      BY <1>2, <2>1, <2>2
    <3>3. Real(m2, x) = Real(m2, m.parent[x])
      BY <1>2, <1>3, <1>5, <3>2, RealFacts
    <3>4. m.parent[x] \in Created(m) /\ rank[m.parent[x]] < rank[x]
      BY <1>1, <2>2 DEF Ranked
    <3>5. m.parent[x] \in S
      BY <3>4
    <3>6. Real(m, m.parent[x]) = d
      BY <2>2 DEF Parent
    <3>7. Real(m2, m.parent[x]) = IF Real(m, m.parent[x]) = s THEN d ELSE Real(m, m.parent[x])
      BY <1>8, <3>5
    <3> QED BY <1>7, <3>1, <3>3, <3>6, <3>7
  <2>3. CASE x # s /\ m.status[x] = "merged"
    <3>1. PICK p \in Created(m) : p = m.parent[x] /\ Real(m, x) = Real(m, p) /\ x # Top
      BY <2>3, RealFacts
    <3>2. rank[p] < rank[x]
      BY <3>1 DEF Ranked
    <3>3. m2.status[x] = "merged" /\ m2.parent[x] = p
      BY <1>2, <2>1, <2>3, <3>1
    <3>4. Real(m2, x) = Real(m2, p)
      BY <1>3, <1>5, <3>3, RealFacts
    <3> QED BY <1>8, <3>1, <3>2, <3>4
  <2>4. CASE x # s /\ m.status[x] # "merged"
    <3>1. Real(m, x) = x
      BY <2>4, RealFacts
    <3>2. Real(m2, x) = x
      BY <1>2, <1>3, <1>5, <2>1, <2>4, RealFacts
    <3> QED BY <2>4, <3>1, <3>2
  <2> QED BY <2>2, <2>3, <2>4
<1>10. Created(m) \subseteq S
  BY <1>9, TreeInduction
<1> QED BY <1>3, <1>5, <1>6, <1>7, <1>8, <1>10

\* A merged space is taken out of the paths.
LEMMA MergedPath ==
    ASSUME NEW m, m.status \in [Spaces -> {"none", "normal", "failed", "merged"}],
           NEW rank, Ranked(m, rank), NEW m2, NEW s, Merges(m, m2, s), NEW x \in Standing(m2)
    PROVE  Path(m2, x) = Path(m, x) \ {s}
<1>1. PICK d : d = Parent(m, s)
  OBVIOUS
<1>2. /\ Ranked(m2, rank) /\ Created(m2) = Created(m) /\ Standing(m2) = Standing(m) \ {s}
      /\ d \in Standing(m2)
      /\ \A y \in Created(m) : Real(m2, y) = IF Real(m, y) = s THEN d ELSE Real(m, y)
  BY <1>1, MergedReal
<1>3. s \in Standing(m) /\ s # Top
  BY DEF Merges, Below
<1>4. PICK S : S = {y \in Created(m) : y \in Standing(m2) => Path(m2, y) = Path(m, y) \ {s}}
  OBVIOUS
<1>5. Inherited(m, rank, S)
  <2> SUFFICES ASSUME NEW y \in Created(m), y \in Standing(m2),
                      \A z \in Created(m) : rank[z] < rank[y] => z \in S
               PROVE  Path(m2, y) = Path(m, y) \ {s}
    BY <1>4 DEF Inherited
  <2>1. y # s /\ y \in Standing(m)
    BY <1>2
  <2>2. CASE y = Top
    <3>1. Path(m, y) = {Top}
      BY <2>1, <2>2, PathFacts
    <3>2. Path(m2, y) = {Top}
      BY <1>2, <2>2, PathFacts
    <3> QED BY <1>3, <3>1, <3>2
  <2>3. CASE y # Top
    <3>1. PICK p \in Standing(m) : p = Parent(m, y) /\ rank[p] < rank[y]
      BY <2>3, ParentFacts
    <3>2. m.parent[y] \in Created(m)
      BY <2>3 DEF Ranked
    <3>3. m2.parent = m.parent
      BY DEF Merges
    <3>4. Parent(m2, y) = IF p = s THEN d ELSE p
      BY <1>2, <3>1, <3>2, <3>3 DEF Parent
    <3>5. Path(m, y) = {y} \cup Path(m, p)
      BY <2>1, <2>3, <3>1, PathFacts
    <3>6. CASE p = s
      <4>1. Path(m2, y) = {y} \cup Path(m2, d)
        BY <1>2, <2>3, <3>4, <3>6, PathFacts
      <4>2. rank[d] < rank[s] /\ s \in Created(m) /\ d \in Created(m)
        BY <1>1, <1>2, <1>3, ParentFacts DEF Standing
      <4>3. rank[d] \in Nat /\ rank[s] \in Nat /\ rank[y] \in Nat
        BY <4>2, RankBound
      <4>4. rank[d] < rank[y]
        BY <3>1, <3>6, <4>2, <4>3
      <4>5. Path(m2, d) = Path(m, d) \ {s}
        BY <1>2, <1>4, <4>2, <4>4
      <4>6. Path(m, s) = {s} \cup Path(m, d)
        BY <1>1, <1>3, PathFacts
      <4> QED BY <2>1, <3>5, <3>6, <4>1, <4>5, <4>6
    <3>7. CASE p # s
      <4>1. Path(m2, y) = {y} \cup Path(m2, p)
        BY <1>2, <2>3, <3>4, <3>7, PathFacts
      <4>2. p \in Standing(m2) /\ p \in Created(m)
        BY <1>2, <3>1, <3>7 DEF Standing
      <4>3. Path(m2, p) = Path(m, p) \ {s}
        BY <1>4, <3>1, <4>2
      <4> QED BY <2>1, <3>5, <4>1, <4>3
    <3> QED BY <3>6, <3>7
  <2> QED BY <2>2, <2>3
<1>6. x \in Created(m)
  BY <1>2 DEF Standing
<1>7. x \in S
  BY <1>5, <1>6, TreeInduction
<1> QED BY <1>4, <1>7

\* What Install goes up to
LEMMA CommonAncestor ==
    ASSUME NEW m, NEW rank, Ranked(m, rank), NEW s \in Standing(m), NEW c \in Standing(m)
    PROVE  \E a \in Path(m, s) \cap Path(m, c) :
               \A b \in Path(m, s) \cap Path(m, c) : IsAncestor(m, b, a)
<1>1. PICK K \in Nat : K = Cardinality(SubSpaces) /\ \A x \in Created(m) : rank[x] \in Nat /\ rank[x] <= K
  BY RankBound
<1>2. PICK C : C = Path(m, s) \cap Path(m, c)
  OBVIOUS
<1>3. Top \in C /\ \A x \in C : x \in Created(m) /\ x \in Standing(m)
  BY <1>2, PathFacts DEF Standing
<1>4. PICK T : T = {K - rank[x] : x \in C}
  OBVIOUS
<1>5. T \in SUBSET Nat /\ T # {}
  <2>1. \A x \in C : K - rank[x] \in Nat
    BY <1>1, <1>3
  <2> QED BY <1>3, <1>4, <2>1
<1>6. PICK n \in T : \A k \in T : n <= k
  BY <1>5, LeastNatural
<1>7. PICK a \in C : n = K - rank[a]
  BY <1>4, <1>6
<1>8. ASSUME NEW b \in C PROVE b \in Path(m, a)
  <2>1. K - rank[a] <= K - rank[b]
    BY <1>4, <1>6, <1>7
  <2>2. rank[b] <= rank[a]
    BY <1>1, <1>3, <2>1
  <2>3. a \in Path(m, b) \/ b \in Path(m, a)
    BY <1>2, PathLinear
  <2>4. CASE a \in Path(m, b)
    <3>1. a = b \/ rank[a] < rank[b]
      BY <1>3, <2>4, PathRanks
    <3>2. a = b
      BY <1>1, <1>3, <2>2, <3>1
    <3> QED BY <1>3, <3>2, PathFacts
  <2> QED BY <2>3, <2>4
<1> QED BY <1>2, <1>7, <1>8 DEF IsAncestor

-----------------------------------------------------------------------------
(* Machines *)

\* What a variable can be bound to, in a script
Pairs == Store \X (Values \cup {None, "unit"})
\* The states of the machine, field by field
Machine == [
    space : Spaces,
    parent : [SubSpaces -> Spaces \cup {None}],
    status : [Spaces -> {"none", "normal", "failed", "merged"}],
    peopled : [Spaces -> BOOLEAN],
    count : [SubSpaces -> Int],
    answer : [SubSpaces -> Answers],
    distributor : [SubSpaces -> BOOLEAN],
    chosen : [SubSpaces -> BOOLEAN],
    trail : [SubSpaces -> Seq(Store)],
    script : [SubSpaces -> Seq(Pairs)],
    bound : [Store -> Values \cup {None, "unit"}],
    home : [Store -> Spaces],
    optimized : [Store -> BOOLEAN],
    pendings : [Waitees -> SUBSET Threads],
    kind : [Threads -> {"none", "oz", "dummy", "unify"}],
    at : [Threads -> Spaces \cup {None}],
    runnable : SUBSET Threads, terminated : SUBSET Threads, dead : SUBSET Threads,
    running : Threads \cup {None},
    waits : [Threads -> Waitees \cup {None}],
    rebound : BOOLEAN]
Fields == {"space", "parent", "status", "peopled", "count", "answer", "distributor", "chosen",
           "trail", "script", "bound", "home", "optimized", "pendings", "kind", "at",
           "runnable", "terminated", "dead", "running", "waits", "rebound"}

\* m2 is m but for the fields in F.
Agree(m, m2, F) == \A f \in Fields \ F : m2[f] = m[f]

\* The fields that do not hold constraints, nor what is installed
Loose == {"peopled", "count", "answer", "distributor", "chosen", "home", "optimized", "pendings",
          "kind", "at", "runnable", "terminated", "dead", "waits", "rebound"}

\* Threads are in spaces that have been created, and have started before they end.
Placed(m) ==
    /\ \A t \in Threads : m.at[t] \in Created(m) \cup {None}
    /\ \A t \in Helpers : m.at[t] # Top
    /\ \A t \in m.runnable : m.at[t] # None
    /\ \A w \in Waitees : \A t \in m.pendings[w] : m.at[t] # None
\* Threads that run have started and not ended; threads of a space start with it.
Lively(m) ==
    /\ m.runnable \cap m.terminated = {}
    /\ m.running \in OzThreads \cup {None}
    /\ m.running # None => m.at[m.running] # None /\ m.running \notin m.terminated
    /\ \A t \in OzThreads : m.kind[t] = "none" => m.at[t] = None /\ t \notin m.terminated
    /\ \A s \in SubSpaces : m.status[s] = "none" => m.kind[Root(s)] = "none"
\* What every call leaves in order but the constraints
WellRun(m) == m \in Machine /\ Tree(m) /\ Placed(m) /\ Lively(m)

\* What most calls do: threads of the machine come and go, others are woken, and
\* spaces and constraints stay as they are.
Murmur(m, m2) ==
    /\ WellRun(m2)
    /\ Agree(m, m2, Loose)
    /\ \A t \in OzThreads : /\ m2.kind[t] = m.kind[t] /\ m2.at[t] = m.at[t]
                            /\ t \in m2.terminated <=> t \in m.terminated
    /\ \A t \in Threads : m.at[t] # None => m2.at[t] # None
    /\ \A v \in Vars : ~m.optimized[v] => ~m2.optimized[v] /\ m2.home[v] = m.home[v]

\* Names of spaces, threads, variables and suspension lists are not confused.
LEMMA Sets ==
    /\ Spare \in Helpers /\ Helpers \subseteq Threads /\ OzThreads \subseteq Threads
    /\ OzThreads \cap Helpers = {} /\ None \notin Threads /\ None \notin Spaces
    /\ SubSpaces \subseteq Spaces /\ Top \in Spaces
    /\ Vars \subseteq Store /\ Store \subseteq Waitees /\ None \notin Waitees
    /\ \A s \in SubSpaces : StatusVar(s) \in Waitees /\ ChoiceVar(s) \in Waitees
    /\ \A s \in Spaces : Root(s) \in OzThreads
    /\ \A t \in OzThreads : DoneVar(t) \in Store /\ DoneVar(t) \notin Vars
<1>1. 0 \in 0..MaxHelpers
  BY SpacesAssumption
<1>2. OzThreads \cap Helpers = {}
  BY DEF OzThreads, Helpers, Root
<1>3. None \notin Threads /\ None \notin Waitees
  BY NamesAssumption
<1>4. \A t \in OzThreads : DoneVar(t) \in Store /\ DoneVar(t) \notin Vars
  BY NamesAssumption DEF Store
<1>5. None \notin Spaces
  BY SpacesAssumption DEF Spaces
<1> QED BY <1>1, <1>2, <1>3, <1>4, <1>5 DEF Spare, Helpers, Threads, OzThreads, Spaces, Store, Waitees

\* A call that murmurs changes no space, no constraint, and not what runs.
LEMMA MurmurCore ==
    ASSUME NEW m, NEW m2, Agree(m, m2, Loose)
    PROVE  /\ m2.space = m.space /\ m2.parent = m.parent /\ m2.status = m.status
           /\ m2.trail = m.trail /\ m2.script = m.script /\ m2.bound = m.bound
           /\ m2.running = m.running
  BY DEF Agree, Fields, Loose

\* Where nothing is said of the tree, it is as before.
LEMMA SameSpaces ==
    ASSUME NEW m, NEW m2, m2.parent = m.parent, m2.status = m.status
    PROVE  /\ Created(m2) = Created(m) /\ Standing(m2) = Standing(m) /\ Below(m2) = Below(m)
           /\ \A rank : Ranked(m, rank) <=> Ranked(m2, rank)
           /\ Tree(m2) <=> Tree(m)
           /\ \A s : Real(m2, s) = Real(m, s) /\ Path(m2, s) = Path(m, s)
           /\ \A s : UpFrom(m2, s) = UpFrom(m, s) /\ Parent(m2, s) = Parent(m, s)
           /\ \A s, a : UpTo(m2, s, a) = UpTo(m, s, a)
<1>1. Created(m2) = Created(m)
  BY DEF Created
<1>2. Standing(m2) = Standing(m) /\ Below(m2) = Below(m)
  BY <1>1 DEF Standing, Below
<1>3. \A rank : Ranked(m, rank) <=> Ranked(m2, rank)
  BY <1>1 DEF Ranked
<1>4. Tree(m2) <=> Tree(m)
  BY <1>3 DEF Tree
<1>5. ASSUME NEW s PROVE Real(m2, s) = Real(m, s)
  BY DEF Real
<1>6. ASSUME NEW s, NEW a PROVE UpTo(m2, s, a) = UpTo(m, s, a)
  BY DEF UpTo, Parent, Real
<1>7. \A s : UpFrom(m2, s) = UpFrom(m, s)
  BY <1>6 DEF UpFrom
<1>8. \A s : Path(m2, s) = Path(m, s)
  BY <1>7 DEF Path
<1>9. \A s : Parent(m2, s) = Parent(m, s)
  BY <1>5 DEF Parent
<1> QED BY <1>1, <1>2, <1>3, <1>4, <1>5, <1>6, <1>7, <1>8, <1>9

\* A machine may be left as it is.
LEMMA MurmurSelf == ASSUME NEW m, WellRun(m) PROVE Murmur(m, m)
  BY DEF Murmur, Agree

\* Calls that murmur can follow one another.
LEMMA MurmurOn ==
    ASSUME NEW m, NEW m2, NEW m3, Murmur(m, m2), Murmur(m2, m3)
    PROVE  Murmur(m, m3)
<1>1. Agree(m, m3, Loose)
  BY DEF Murmur, Agree
<1>2. \A t \in OzThreads : /\ m3.kind[t] = m.kind[t] /\ m3.at[t] = m.at[t]
                           /\ t \in m3.terminated <=> t \in m.terminated
  BY DEF Murmur
<1>3. \A v \in Vars : ~m.optimized[v] => ~m3.optimized[v] /\ m3.home[v] = m.home[v]
  BY DEF Murmur
<1>4. \A t \in Threads : m.at[t] # None => m3.at[t] # None
  BY DEF Murmur
<1> QED BY <1>1, <1>2, <1>3, <1>4 DEF Murmur

\* Fields that no invariant speaks of
Silent == {"peopled", "count", "answer", "distributor", "chosen", "dead", "waits", "rebound"}

\* A call that changes only such fields murmurs.
LEMMA SilentMurmur ==
    ASSUME NEW m, WellRun(m), NEW m2 \in Machine, Agree(m, m2, Silent)
    PROVE  Murmur(m, m2)
<1>1. /\ m2.parent = m.parent /\ m2.status = m.status /\ m2.running = m.running
      /\ m2.at = m.at /\ m2.kind = m.kind /\ m2.runnable = m.runnable
      /\ m2.terminated = m.terminated /\ m2.pendings = m.pendings
      /\ m2.optimized = m.optimized /\ m2.home = m.home
  BY DEF Agree, Fields, Silent
<1>2. Agree(m, m2, Loose)
  BY DEF Agree, Silent, Loose
<1>3. Created(m2) = Created(m) /\ (Tree(m2) <=> Tree(m))
  BY <1>1, SameSpaces
<1>4. Placed(m2) /\ Lively(m2)
  BY <1>1, <1>3 DEF Placed, Lively, WellRun
<1> QED BY <1>1, <1>2, <1>3, <1>4 DEF Murmur, WellRun

\* Values that agree with F at each step, as long as they are in X, stay in X.
Follows(h, F, b, X, n) == h[0] = b /\ \A i \in 1..n : h[i - 1] \in X => h[i] = F[<<h[i - 1], i>>]

\* and so does the last of them: this is how the loops below are followed.
LEMMA StaysIn ==
    ASSUME NEW X, NEW b \in X, NEW n \in Nat, NEW F, Closed(F, X, n), NEW h, Follows(h, F, b, X, n)
    PROVE  h[n] \in X
<1>1. PICK S : S = {i \in 0..n : h[i] \in X}
  OBVIOUS
<1>2. 0 \in S
  BY <1>1 DEF Follows
<1>3. \A i \in 1..n : i - 1 \in S => i \in S
  <2> SUFFICES ASSUME NEW i \in 1..n, i - 1 \in S PROVE i \in S
    OBVIOUS
  <2>1. i \in 0..n /\ h[i - 1] \in X
    BY <1>1
  <2>2. h[i] = F[<<h[i - 1], i>>]
    BY <2>1 DEF Follows
  <2>3. F[<<h[i - 1], i>>] \in X
    BY <2>1 DEF Closed
  <2> QED BY <1>1, <2>1, <2>2, <2>3
<1>4. n \in S
  BY <1>1, <1>2, <1>3, StepByStep
<1> QED BY <1>1, <1>4

\* incRunnableThreadCount only counts.
LEMMA IncMurmurs ==
    ASSUME NEW m, WellRun(m), NEW s
    PROVE  Murmur(m, Inc(m, s)) /\ Inc(m, s).at = m.at
<1>1. m \in Machine /\ m.count \in [SubSpaces -> Int]
  BY DEF WellRun, Machine
<1>2. PICK up, level, c :
         /\ c = [a \in SubSpaces |-> IF \E i \in level : up[i] = a THEN m.count[a] + 1 ELSE m.count[a]]
         /\ Inc(m, s) = [m EXCEPT !.count = c]
  BY DEF Inc
<1>3. c \in [SubSpaces -> Int]
  BY <1>1, <1>2
<1>4. PICK k : k = Inc(m, s)
  OBVIOUS
<1>5. k \in Machine /\ Agree(m, k, Silent)
  BY <1>1, <1>2, <1>3, <1>4, ZenonT(60) DEF Machine, Agree, Fields, Silent
<1>6. k.at = m.at
  BY <1>5 DEF Agree, Fields, Silent
<1> QED BY <1>4, <1>5, <1>6, SilentMurmur

\* Runnable::resume wakes a thread that has started and has not ended.
LEMMA ResumeMurmurs ==
    ASSUME NEW m, WellRun(m), NEW t \in Threads, m.at[t] # None, t \notin m.terminated
    PROVE  Murmur(m, Resume(m, t)) /\ Resume(m, t).at = m.at
<1>1. m \in Machine
  BY DEF WellRun
<1>2. PICK m1 : m1 = [m EXCEPT !.runnable = @ \cup {t}]
  OBVIOUS
<1>3. m1 \in Machine /\ Agree(m, m1, {"runnable"}) /\ m1.runnable = m.runnable \cup {t}
  BY <1>1, <1>2 DEF Machine, Agree, Fields
<1>4. /\ m1.parent = m.parent /\ m1.status = m.status /\ m1.running = m.running
      /\ m1.at = m.at /\ m1.kind = m.kind
      /\ m1.terminated = m.terminated /\ m1.pendings = m.pendings
      /\ m1.optimized = m.optimized /\ m1.home = m.home
  BY <1>3 DEF Agree, Fields
<1>5. Agree(m, m1, Loose)
  BY <1>3 DEF Agree, Loose
<1>6. Created(m1) = Created(m) /\ (Tree(m1) <=> Tree(m))
  BY <1>4, SameSpaces
<1>7. Placed(m1) /\ Lively(m1)
  BY <1>3, <1>4, <1>6 DEF Placed, Lively, WellRun
<1>8. Murmur(m, m1)
  BY <1>3, <1>4, <1>5, <1>6, <1>7 DEF Murmur, WellRun
<1>9. Murmur(m1, Inc(m1, SpaceOf(m, t))) /\ Inc(m1, SpaceOf(m, t)).at = m1.at
  BY <1>8, IncMurmurs DEF Murmur
<1>10. Resume(m, t) = Inc(m1, SpaceOf(m, t))
  BY <1>2 DEF Resume
<1>11. Resume(m, t).at = m.at
  BY <1>4, <1>9, <1>10
<1> QED BY <1>8, <1>9, <1>10, <1>11, MurmurOn

\* A thread that is woken is resumed if it is not dead (resumeFromSuspension).
LEMMA WakeUpMurmurs ==
    ASSUME NEW m, WellRun(m), NEW t \in Threads, m.at[t] # None
    PROVE  Murmur(m, WakeUp(m, t)) /\ WakeUp(m, t).at = m.at
<1>1. CASE t \in m.runnable \cup m.terminated
  BY <1>1, MurmurSelf DEF WakeUp
<1>2. CASE t \notin m.runnable \cup m.terminated
  BY <1>2, ResumeMurmurs DEF WakeUp
<1> QED BY <1>1, <1>2

\* A new thread of the machine has a name.
LEMMA FreeHelperIsHelper == ASSUME NEW m PROVE FreeHelper(m) \in Helpers
<1>1. PICK free : free = {h \in Helpers \ {Spare} : /\ h \notin m.runnable
                                                   /\ \A w \in Waitees : h \notin m.pendings[w]}
  OBVIOUS
<1>2. FreeHelper(m) = IF free = {} THEN Spare ELSE CHOOSE h \in free : TRUE
  BY <1>1 DEF FreeHelper
<1> QED BY <1>1, <1>2, Sets

\* A new thread of the machine, in a space that has been created
LEMMA NewMurmurs ==
    ASSUME NEW m, WellRun(m), NEW h \in Helpers, NEW kind \in {"dummy", "unify"},
           NEW s \in Created(m), s # Top, NEW m2, m2 = New(m, h, kind, s)
    PROVE  Murmur(m, m2) /\ m2.at[h] = s /\ h \notin m2.terminated /\ s # None
<1>1. m \in Machine /\ s \in Spaces /\ h \in Threads /\ h \notin OzThreads /\ s # None
  BY Sets DEF WellRun, Created
<1>2. PICK kinds : kinds = [m.kind EXCEPT ![h] = kind]
  OBVIOUS
<1>3. PICK ats : ats = [m.at EXCEPT ![h] = s]
  OBVIOUS
<1>4. PICK peoples : peoples = [m.peopled EXCEPT ![s] = TRUE]
  OBVIOUS
<1>5. /\ kinds \in [Threads -> {"none", "oz", "dummy", "unify"}]
      /\ ats \in [Threads -> Spaces \cup {None}]
      /\ peoples \in [Spaces -> BOOLEAN]
  BY <1>1, <1>2, <1>3, <1>4 DEF Machine
<1>6. PICK ended : ended = m.terminated \ {h}
  OBVIOUS
<1>7. PICK gone : gone = m.dead \ {h}
  OBVIOUS
<1>8. ended \in SUBSET Threads /\ gone \in SUBSET Threads
  BY <1>1, <1>6, <1>7 DEF Machine
<1>9. /\ m2 \in Machine /\ m2.kind = kinds /\ m2.at = ats
      /\ m2.terminated = m.terminated \ {h}
      /\ Agree(m, m2, {"kind", "at", "peopled", "terminated", "dead"})
  <2>1. m2 = [m EXCEPT !.kind = kinds, !.at = ats, !.peopled = peoples,
                       !.terminated = ended, !.dead = gone]
    BY <1>2, <1>3, <1>4, <1>6, <1>7 DEF New
  <2>2. PICK m1 \in Machine : m1 = [m EXCEPT !.kind = kinds, !.at = ats, !.peopled = peoples]
    <3>1. [m EXCEPT !.kind = kinds, !.at = ats, !.peopled = peoples] \in Machine
      BY <1>1, <1>5 DEF Machine
    <3> QED BY <3>1
  <2>3. m2 = [m1 EXCEPT !.terminated = ended, !.dead = gone]
    BY <2>1, <2>2
  <2>4. m2 \in Machine
    BY <1>8, <2>3, ZenonT(60) DEF Machine
  <2> QED BY <1>1, <1>6, <2>1, <2>4 DEF Machine, Agree, Fields
<1>10. /\ m2.parent = m.parent /\ m2.status = m.status /\ m2.running = m.running
      /\ m2.runnable = m.runnable /\ m2.pendings = m.pendings
      /\ m2.optimized = m.optimized /\ m2.home = m.home
  BY <1>9 DEF Agree, Fields
<1>11. Agree(m, m2, Loose)
  BY <1>9 DEF Agree, Loose
<1>12. Created(m2) = Created(m) /\ (Tree(m2) <=> Tree(m))
  BY <1>10, SameSpaces
<1>13. \A t \in Threads : /\ m2.at[t] = IF t = h THEN s ELSE m.at[t]
                          /\ m2.kind[t] = IF t = h THEN kind ELSE m.kind[t]
  BY <1>1, <1>2, <1>3, <1>9 DEF Machine
<1>14. m.runnable \subseteq Threads /\ \A w \in Waitees : m.pendings[w] \subseteq Threads
  BY <1>1 DEF Machine
<1>15. Placed(m2)
  BY <1>1, <1>10, <1>12, <1>13, <1>14, Sets DEF Placed, WellRun
<1>16. Lively(m2)
  <2>1. m2.runnable \cap m2.terminated = {} /\ m2.running \in OzThreads \cup {None}
    BY <1>9, <1>10 DEF Lively, WellRun
  <2>2. \A t \in OzThreads : t \in Threads /\ t # h
    BY <1>1, Sets
  <2>3. m2.running # None => m2.at[m2.running] # None /\ m2.running \notin m2.terminated
    BY <1>9, <1>10, <1>13, <2>1, <2>2 DEF Lively, WellRun
  <2>4. \A s2 \in SubSpaces : Root(s2) \in OzThreads
    BY Sets
  <2> QED BY <1>9, <1>10, <1>13, <2>1, <2>2, <2>4, <2>3 DEF Lively, WellRun
<1>17. \A t \in OzThreads : /\ m2.kind[t] = m.kind[t] /\ m2.at[t] = m.at[t]
                            /\ t \in m2.terminated <=> t \in m.terminated
  BY <1>1, <1>9, <1>13, Sets
<1> QED BY <1>1, <1>9, <1>10, <1>11, <1>12, <1>13, <1>15, <1>16, <1>17 DEF Murmur, WellRun

\* One level of the tree, and then all of them
LEMMA DecLevelMurmurs ==
    ASSUME NEW m, WellRun(m), NEW on \in BOOLEAN, NEW a \in Below(m)
    PROVE  /\ DecLevel([m |-> m, on |-> on], a) \in [m : Machine, on : BOOLEAN]
           /\ Murmur(m, DecLevel([m |-> m, on |-> on], a).m)
<1>1. m \in Machine /\ a \in SubSpaces /\ a \in Created(m) /\ a # Top
  BY DEF WellRun, Below, Standing, Created, Spaces
<1>2. PICK c : c = [m.count EXCEPT ![a] = @ - 1]
  OBVIOUS
<1>3. c \in [SubSpaces -> Int]
  BY <1>1, <1>2 DEF Machine
<1>4. PICK m1 : m1 = [m EXCEPT !.count = c]
  OBVIOUS
<1>5. m1 \in Machine /\ Agree(m, m1, Silent)
  BY <1>1, <1>3, <1>4 DEF Machine, Agree, Fields, Silent
<1>6. Murmur(m, m1) /\ WellRun(m1)
  BY <1>5, SilentMurmur DEF Murmur
<1>7. PICK d : d = FreeHelper(m1)
  OBVIOUS
<1>8. PICK m2 : m2 = New(m1, d, "dummy", a)
  OBVIOUS
<1>9. Created(m1) = Created(m)
  BY <1>6, MurmurCore, SameSpaces DEF Murmur
<1>10. Murmur(m1, m2) /\ m2.at[d] = a /\ d \notin m2.terminated /\ a # None /\ d \in Threads
  BY <1>1, <1>6, <1>7, <1>8, <1>9, FreeHelperIsHelper, NewMurmurs, Sets
<1>11. Murmur(m2, Resume(m2, d))
  BY <1>10, ResumeMurmurs DEF Murmur
<1>12. Murmur(m, Resume(m2, d))
  BY <1>6, <1>10, <1>11, MurmurOn
<1>13. [m EXCEPT !.count[a] = @ - 1] = m1
  BY <1>2, <1>4
<1>14. PICK acc : acc = DecLevel([m |-> m, on |-> on], a)
  OBVIOUS
<1>15. acc = IF ~on THEN [m |-> m, on |-> on]
             ELSE IF m1.count[a] # 0 THEN [m |-> m1, on |-> FALSE]
             ELSE IF IsStable(m1, a) THEN [m |-> Resume(m2, d), on |-> TRUE]
             ELSE [m |-> m1, on |-> TRUE]
  BY <1>7, <1>8, <1>13, <1>14 DEF DecLevel
<1>16. Murmur(m, m) /\ Resume(m2, d) \in Machine
  BY <1>12, MurmurSelf DEF Murmur, WellRun
<1>17. PICK m3, o : acc = [m |-> m3, on |-> o] /\ o \in BOOLEAN /\ m3 \in {m, m1, Resume(m2, d)}
  <2>1. CASE ~on
    BY <1>15, <2>1
  <2>2. CASE on
    <3>1. CASE m1.count[a] # 0
      BY <1>15, <2>2, <3>1
    <3>2. CASE m1.count[a] = 0 /\ IsStable(m1, a)
      BY <1>15, <2>2, <3>2
    <3>3. CASE m1.count[a] = 0 /\ ~IsStable(m1, a)
      BY <1>15, <2>2, <3>3
    <3> QED BY <3>1, <3>2, <3>3
  <2> QED BY <2>1, <2>2
<1>18. m3 \in Machine /\ Murmur(m, m3) /\ acc.m = m3
  BY <1>1, <1>5, <1>6, <1>12, <1>16, <1>17
<1> QED BY <1>17, <1>18, <1>14

\* An update of the suspension lists, to threads that have started
LEMMA PendingsMurmur ==
    ASSUME NEW m, WellRun(m), NEW p \in [Waitees -> SUBSET Threads],
           \A w \in Waitees : \A t \in p[w] : m.at[t] # None,
           NEW m2, m2 = [m EXCEPT !.pendings = p]
    PROVE  Murmur(m, m2)
<1>1. m \in Machine
  BY DEF WellRun
<1>2. m2 \in Machine /\ m2.pendings = p /\ Agree(m, m2, {"pendings"})
  BY <1>1 DEF Machine, Agree, Fields
<1>3. /\ m2.parent = m.parent /\ m2.status = m.status /\ m2.running = m.running
      /\ m2.runnable = m.runnable /\ m2.terminated = m.terminated
      /\ m2.at = m.at /\ m2.kind = m.kind
      /\ m2.optimized = m.optimized /\ m2.home = m.home
  BY <1>2 DEF Agree, Fields
<1>4. Agree(m, m2, Loose)
  BY <1>2 DEF Agree, Loose
<1>5. Created(m2) = Created(m) /\ (Tree(m2) <=> Tree(m))
  BY <1>3, SameSpaces
<1>6. Placed(m2) /\ Lively(m2)
  BY <1>2, <1>3, <1>5 DEF Placed, Lively, WellRun
<1> QED BY <1>2, <1>3, <1>4, <1>5, <1>6 DEF Murmur, WellRun

\* A thread that has started enters a suspension list (addToSuspendList).
LEMMA SuspendMurmurs ==
    ASSUME NEW m, WellRun(m), NEW w \in Waitees, NEW t \in Threads, m.at[t] # None
    PROVE  Murmur(m, AddToSuspendList(m, w, t))
<1>1. m \in Machine
  BY DEF WellRun
<1>2. PICK p : p = [m.pendings EXCEPT ![w] = @ \cup {t}]
  OBVIOUS
<1>3. p \in [Waitees -> SUBSET Threads] /\ \A x \in Waitees : p[x] \subseteq m.pendings[x] \cup {t}
  BY <1>1, <1>2 DEF Machine
<1>4. PICK m1 : m1 = [m EXCEPT !.pendings = p]
  OBVIOUS
<1>5. \A x \in Waitees : \A u \in p[x] : m.at[u] # None
  BY <1>3 DEF WellRun, Placed
<1>6. Murmur(m, m1) /\ WellRun(m1) /\ m1 \in Machine
  BY <1>3, <1>4, <1>5, PendingsMurmur DEF Murmur, WellRun
<1>7. m1.optimized = m.optimized /\ m1.home = m.home /\ m1.space = m.space
  BY <1>1, <1>4 DEF Machine
<1>8. [m EXCEPT !.pendings[w] = @ \cup {t}] = m1
  BY <1>2, <1>4
<1>9. CASE w \in Store /\ m.optimized[w]
  <2>1. PICK o : o = [m.optimized EXCEPT ![w] = FALSE]
    OBVIOUS
  <2>2. PICK h : h = [m.home EXCEPT ![w] = m.space]
    OBVIOUS
  <2>3. /\ o \in [Store -> BOOLEAN] /\ h \in [Store -> Spaces]
        /\ \A v \in Vars : v # w => h[v] = m.home[v]
    BY <1>1, <1>9, <2>1, <2>2, Sets DEF Machine
  <2>4. \A v \in Vars : v # w => o[v] = m.optimized[v]
    BY <1>1, <1>9, <2>1, Sets DEF Machine
  <2>5. PICK m2 : m2 = [m1 EXCEPT !.optimized = o, !.home = h]
    OBVIOUS
  <2>6. m2 \in Machine /\ Agree(m1, m2, {"optimized", "home"}) /\ m2.optimized = o /\ m2.home = h
    BY <1>6, <2>3, <2>5 DEF Machine, Agree, Fields
  <2>7. AddToSuspendList(m, w, t) = m2
    BY <1>7, <1>8, <1>9, <2>1, <2>2, <2>5 DEF AddToSuspendList
  <2>8. /\ m2.parent = m1.parent /\ m2.status = m1.status /\ m2.running = m1.running
        /\ m2.runnable = m1.runnable /\ m2.terminated = m1.terminated
        /\ m2.at = m1.at /\ m2.kind = m1.kind /\ m2.pendings = m1.pendings
    BY <2>6 DEF Agree, Fields
  <2>9. Agree(m1, m2, Loose)
    BY <2>6 DEF Agree, Loose
  <2>10. Created(m2) = Created(m1) /\ (Tree(m2) <=> Tree(m1))
    BY <2>8, SameSpaces
  <2>11. Placed(m2) /\ Lively(m2)
    BY <1>6, <2>8, <2>10 DEF Placed, Lively, WellRun
  <2>12. \A v \in Vars : ~m1.optimized[v] => ~m2.optimized[v] /\ m2.home[v] = m1.home[v]
    <3> SUFFICES ASSUME NEW v \in Vars, ~m1.optimized[v]
                 PROVE  ~m2.optimized[v] /\ m2.home[v] = m1.home[v]
      OBVIOUS
    <3>1. v # w
      BY <1>7, <1>9
    <3>2. o[v] = m.optimized[v] /\ h[v] = m.home[v]
      BY <2>3, <2>4, <3>1
    <3> QED BY <1>7, <2>6, <3>2
  <2>13. WellRun(m2)
    BY <1>6, <2>6, <2>10, <2>11 DEF WellRun
  <2>14. Murmur(m1, m2)
    BY <2>8, <2>9, <2>12, <2>13 DEF Murmur
  <2> QED BY <1>6, <2>7, <2>14, MurmurOn
<1>10. CASE ~(w \in Store /\ m.optimized[w])
  <2>1. AddToSuspendList(m, w, t) = m1
    BY <1>8, <1>10 DEF AddToSuspendList
  <2> QED BY <1>6, <2>1
<1> QED BY <1>9, <1>10

\* The elements of a set, in a sequence
LEMMA SetToSeqFacts ==
    ASSUME NEW S, IsFiniteSet(S)
    PROVE  SetToSeq(S) \in Seq(S)
<1>1. PICK n \in Nat : n = Cardinality(S) /\ ExistsBijection(1..n, S)
  BY FS_CardinalityType
<1>2. PICK f : f \in Bijection(1..n, S)
  BY <1>1 DEF ExistsBijection
<1>3. f \in [1..n -> S] /\ IsInjective(f)
  BY <1>2 DEF Bijection, Injection
<1>4. PICK q : q = SetToSeq(S)
  OBVIOUS
<1>5. q = CHOOSE g \in [1..n -> S] : IsInjective(g)
  BY <1>1, <1>4 DEF SetToSeq
<1>6. q \in [1..n -> S]
  BY <1>3, <1>5
<1> QED BY <1>4, <1>6

\* An instance has finitely many threads, so that suspension lists end.
LEMMA ThreadsFinite == IsFiniteSet(Threads)
<1>1. IsFiniteSet(SubSpaces) /\ IsFiniteSet(Extras)
  BY SpacesAssumption
<1>2. IsFiniteSet(Spaces)
  <2>1. IsFiniteSet({Top})
    BY FS_Singleton
  <2> QED BY <1>1, <2>1, FS_Union DEF Spaces
<1>3. IsFiniteSet({Root(s) : s \in Spaces})
  <2>1. PICK f : f = [s \in Spaces |-> Root(s)]
    OBVIOUS
  <2>2. PICK T : T = {Root(s) : s \in Spaces}
    OBVIOUS
  <2>3. f \in Surjection(Spaces, T)
    BY <2>1, <2>2 DEF Surjection
  <2> QED BY <1>2, <2>2, <2>3, FS_Surjection
<1>4. IsFiniteSet({<<"extra", e>> : e \in Extras})
  <2>1. PICK f : f = [e \in Extras |-> <<"extra", e>>]
    OBVIOUS
  <2>2. PICK T : T = {<<"extra", e>> : e \in Extras}
    OBVIOUS
  <2>3. f \in Surjection(Extras, T)
    BY <2>1, <2>2 DEF Surjection
  <2> QED BY <1>1, <2>2, <2>3, FS_Surjection
<1>5. IsFiniteSet(Helpers)
  <2>1. PICK f : f = [i \in 0..MaxHelpers |-> <<"helper", i>>]
    OBVIOUS
  <2>2. IsFiniteSet(0..MaxHelpers)
    BY FS_Interval, SpacesAssumption
  <2>3. f \in Surjection(0..MaxHelpers, Helpers)
    BY <2>1 DEF Surjection, Helpers
  <2> QED BY <2>2, <2>3, FS_Surjection
<1> QED BY <1>3, <1>4, <1>5, FS_Union DEF Threads, OzThreads

\* The same, with a set for each step
ClosedTo(F, X, n) == \A i \in 1..n : \A x \in X[i - 1] : F[<<x, i>>] \in X[i]
Reaches(g, F, b, X, n) ==
    /\ g = [i \in 0..n |-> g[i]] /\ g[0] = b
    /\ \A i \in 1..n : g[i - 1] \in X[i - 1] /\ g[i] = F[<<g[i - 1], i>>]

\* As Iterate.
LEMMA IterateTo ==
    ASSUME NEW n \in Nat, NEW X, NEW F, NEW b, b \in X[0], ClosedTo(F, X, n)
    PROVE  \E g : Reaches(g, F, b, X, n)
<1>1. PICK Y : Y = UNION {X[i] : i \in 0..n}
  OBVIOUS
<1>2. \A i \in 0..n : X[i] \subseteq Y
  BY <1>1
<1>3. b \in Y
  <2>1. 0 \in 0..n
    OBVIOUS
  <2> QED BY <1>2, <2>1
<1>4. PICK G : G = [p \in Y \X (1..n) |-> IF p[1] \in X[p[2] - 1] THEN F[p] ELSE p[1]]
  OBVIOUS
<1>5. \A x \in Y : \A i \in 1..n : G[<<x, i>>] = IF x \in X[i - 1] THEN F[<<x, i>>] ELSE x
  BY <1>4
<1>6. Closed(G, Y, n)
  <2> SUFFICES ASSUME NEW x \in Y, NEW i \in 1..n PROVE G[<<x, i>>] \in Y
    BY DEF Closed
  <2>1. i \in 0..n
    OBVIOUS
  <2> QED BY <1>2, <1>5, <2>1 DEF ClosedTo
<1>7. PICK g : Iterates(g, G, b, Y, n)
  BY <1>3, <1>6, Iterate
<1>8. g \in [0..n -> Y] /\ g[0] = b /\ \A i \in 1..n : g[i] = G[<<g[i - 1], i>>]
  BY <1>7 DEF Iterates
<1>9. \A i \in 1..n : i - 1 \in 0..n /\ i \in 0..n
  OBVIOUS
<1>10. PICK T : T = {k \in Nat : k <= n => g[k] \in X[k]}
  OBVIOUS
<1>11. 0 \in T
  BY <1>8, <1>10
<1>12. ASSUME NEW k \in Nat, k \in T PROVE k + 1 \in T
  <2> SUFFICES ASSUME k + 1 <= n PROVE g[k + 1] \in X[k + 1]
    BY <1>10
  <2>1. k + 1 \in 1..n /\ (k + 1) - 1 = k /\ k \in 0..n
    OBVIOUS
  <2>2. g[k] \in X[k] /\ g[k] \in Y
    BY <1>8, <1>10, <1>12, <2>1
  <2>3. g[k + 1] = G[<<g[k], k + 1>>]
    BY <1>8, <2>1
  <2>4. g[k + 1] = F[<<g[k], k + 1>>]
    BY <1>5, <2>1, <2>2, <2>3
  <2> QED BY <2>1, <2>2, <2>4 DEF ClosedTo
<1>13. Nat \subseteq T
  BY <1>10, <1>11, <1>12, SetInduction
<1>14. ASSUME NEW i \in 1..n PROVE g[i - 1] \in X[i - 1] /\ g[i] = F[<<g[i - 1], i>>]
  <2>1. i - 1 \in Nat /\ i - 1 <= n /\ g[i - 1] \in Y
    BY <1>8, <1>9
  <2>2. g[i - 1] \in X[i - 1]
    BY <1>10, <1>13, <2>1
  <2> QED BY <1>5, <1>8, <2>1, <2>2
<1>15. g = [i \in 0..n |-> g[i]]
  BY <1>8
<1> QED BY <1>8, <1>14, <1>15 DEF Reaches

\* Values that follow F from set to set
FollowsTo(h, F, b, X, n) ==
    h[0] = b /\ \A i \in 1..n : h[i - 1] \in X[i - 1] => h[i] = F[<<h[i - 1], i>>]

\* As StaysIn.
LEMMA StaysInTo ==
    ASSUME NEW n \in Nat, NEW X, NEW F, NEW b, b \in X[0], ClosedTo(F, X, n),
           NEW h, FollowsTo(h, F, b, X, n)
    PROVE  h[n] \in X[n]
<1>1. PICK S : S = {i \in 0..n : h[i] \in X[i]}
  OBVIOUS
<1>2. 0 \in S
  BY <1>1 DEF FollowsTo
<1>3. \A i \in 1..n : i - 1 \in S => i \in S
  <2> SUFFICES ASSUME NEW i \in 1..n, i - 1 \in S PROVE i \in S
    OBVIOUS
  <2>1. i \in 0..n /\ h[i - 1] \in X[i - 1]
    BY <1>1
  <2>2. h[i] = F[<<h[i - 1], i>>]
    BY <2>1 DEF FollowsTo
  <2>3. F[<<h[i - 1], i>>] \in X[i]
    BY <2>1 DEF ClosedTo
  <2> QED BY <1>1, <2>1, <2>2, <2>3
<1>4. n \in S
  BY <1>1, <1>2, <1>3, StepByStep
<1> QED BY <1>1, <1>4

\* The spaces that are installed, and the spaces above a space
Current(m) == Path(m, m.space)
Over(m, s) == Path(m, s) \ {s}

\* What is above a space: its parent, and what is above that one.
LEMMA OverParent ==
    ASSUME NEW m, WellRun(m), NEW s \in Below(m)
    PROVE  /\ Parent(m, s) \in Standing(m) /\ Path(m, s) \subseteq Standing(m)
           /\ Path(m, s) = {s} \cup Path(m, Parent(m, s))
           /\ s \notin Path(m, Parent(m, s)) /\ Over(m, s) = Path(m, Parent(m, s))
<1>1. PICK rank : Ranked(m, rank)
  BY DEF WellRun, Tree
<1>2. s \in Standing(m) /\ s \in Created(m) /\ s # Top
  BY DEF Below, Standing
<1>3. PICK p \in Standing(m) : p = Parent(m, s) /\ rank[p] < rank[s]
  BY <1>1, <1>2, ParentFacts
<1>4. Path(m, s) = {s} \cup Path(m, p) /\ Path(m, s) \subseteq Standing(m)
  BY <1>1, <1>2, <1>3, PathFacts
<1>5. rank[p] \in Nat /\ rank[s] \in Nat
  BY <1>1, <1>2, <1>3, RankBound DEF Standing
<1>6. s \notin Path(m, p)
  <2> SUFFICES ASSUME s \in Path(m, p) PROVE FALSE
    OBVIOUS
  <2>1. s = p \/ rank[s] < rank[p]
    BY <1>1, <1>3, PathRanks
  <2> QED BY <1>3, <1>5, <2>1
<1>7. Over(m, s) = Path(m, p)
  BY <1>4, <1>6 DEF Over
<1> QED BY <1>3, <1>4, <1>6, <1>7

\* A thread that has started belongs to a space that is not merged.
LEMMA SpaceOfStands ==
    ASSUME NEW m, WellRun(m), NEW t \in Threads, m.at[t] # None
    PROVE  SpaceOf(m, t) \in Standing(m) /\ m.at[t] \in Created(m)
<1>1. m.at[t] \in Created(m)
  BY DEF WellRun, Placed
<1>2. PICK rank : Ranked(m, rank)
  BY DEF WellRun, Tree
<1> QED BY <1>1, <1>2, RealFacts DEF SpaceOf

-----------------------------------------------------------------------------
(* The counters of runnable threads *)

\* The threads of s that are runnable, the spaces right below it that count some, and
\* what s should count
Ready(m, s) == {t \in m.runnable : SpaceOf(m, t) = s}
Busy(m, s) == {c \in SubSpaces : m.status[c] = "normal" /\ Parent(m, c) = s /\ m.count[c] > 0}
Due(m, s) == Cardinality(Ready(m, s)) + Cardinality(Busy(m, s))
Live(m) == {s \in SubSpaces : m.status[s] = "normal" /\ IsAlive(m, s)}

\* The counters are those that are due, but for one thread of space a.
Tallied(m, a) == \A s \in Live(m) : m.count[s] = Due(m, s) + IF s = a THEN 1 ELSE 0

\* A space that has failed stops those who count up the tree.
Counters(m) ==
    \A s \in SubSpaces : /\ m.count[s] >= 0
                         /\ m.status[s] = "none" => m.count[s] = 0
                         /\ m.status[s] = "failed" => m.count[s] > 0 \/ Parent(m, s) = Top

\* A thread of the program waits in one suspension list, or is runnable, or has ended.
Queued(m) ==
    \A t \in OzThreads :
        /\ t \in m.runnable => \A w \in Waitees : t \notin m.pendings[w]
        /\ \A w, z \in Waitees : t \in m.pendings[w] /\ t \in m.pendings[z] => w = z
Scheduled(m) ==
    /\ \A t \in m.runnable : m.kind[t] # "none"
    /\ \A w \in Waitees : \A t \in m.pendings[w] : m.kind[t] # "none"
    /\ m.running \in m.runnable \cup {None}

Books(m, a) == Counters(m) /\ Tallied(m, a) /\ Queued(m) /\ Scheduled(m)

\* MaxHelpers was not enough: a thread has been given the name of another.
Spent(m) == m.kind[Spare] # "none"
Sound(m, a) == Spent(m) \/ Books(m, a)

\* From m to m2 no thread stops, nor moves unless it was given the name of another,
Stays(m, m2) ==
    /\ m.runnable \subseteq m2.runnable
    /\ Spent(m) => Spent(m2)
    /\ Spent(m2) \/ \A t \in m.runnable : m2.at[t] = m.at[t]
\* and those that are woken are counted.
Tallies(m, m2) ==
    /\ Stays(m, m2)
    /\ Sound(m, Top) => Sound(m2, Top)

\* No thread stops in a call that follows another in which none does.
LEMMA StaysOn ==
    ASSUME NEW m, NEW m2, NEW m3, Stays(m, m2), Stays(m2, m3)
    PROVE  Stays(m, m3)
<1>1. m.runnable \subseteq m3.runnable /\ (Spent(m) => Spent(m3))
  BY DEF Stays
<1>2. Spent(m3) \/ \A t \in m.runnable : m3.at[t] = m.at[t]
  BY DEF Stays
<1> QED BY <1>1, <1>2 DEF Stays

\* No call at all tallies, and calls that do can follow one another.
LEMMA TalliesSelf == ASSUME NEW m PROVE Tallies(m, m)
  BY DEF Tallies, Stays

\* As TalliesSelf.
LEMMA TalliesOn ==
    ASSUME NEW m, NEW m2, NEW m3, Tallies(m, m2), Tallies(m2, m3)
    PROVE  Tallies(m, m3)
<1>1. Stays(m, m3)
  BY StaysOn DEF Tallies
<1> QED BY <1>1 DEF Tallies

\* The threads and the spaces are finite in number.
LEMMA DueFinite ==
    ASSUME NEW m \in Machine, NEW s
    PROVE  /\ IsFiniteSet(Ready(m, s)) /\ Cardinality(Ready(m, s)) \in Nat
           /\ IsFiniteSet(Busy(m, s)) /\ Cardinality(Busy(m, s)) \in Nat
<1>1. Ready(m, s) \subseteq Threads
  BY DEF Ready, Machine
<1>2. Busy(m, s) \subseteq SubSpaces
  BY DEF Busy
<1>3. IsFiniteSet(Ready(m, s))
  BY <1>1, ThreadsFinite, FS_Subset
<1>4. IsFiniteSet(Busy(m, s))
  BY <1>2, SpacesAssumption, FS_Subset
<1> QED BY <1>3, <1>4, FS_CardinalityType

\* The same threads and counters
Alike(m, k) ==
    /\ k.parent = m.parent /\ k.status = m.status /\ k.count = m.count
    /\ k.runnable = m.runnable /\ k.running = m.running
    /\ \A t \in m.runnable : k.at[t] = m.at[t] /\ (m.kind[t] # "none" => k.kind[t] # "none")
    /\ \A w \in Waitees : \A t \in k.pendings[w] :
          /\ t \in m.pendings[w] \/ t \in Helpers
          /\ k.kind[t] = "none" => t \in m.pendings[w] /\ m.kind[t] = "none"
    /\ Spent(m) => Spent(k)

\* What is due depends on these.
LEMMA SameDue ==
    ASSUME NEW m, NEW k, k.parent = m.parent, k.status = m.status, k.count = m.count,
           k.runnable = m.runnable, \A t \in m.runnable : k.at[t] = m.at[t]
    PROVE  /\ Live(k) = Live(m) /\ \A s : Due(k, s) = Due(m, s)
           /\ \A a : Tallied(m, a) => Tallied(k, a)
           /\ Counters(m) => Counters(k)
<1>1. /\ \A s : Real(k, s) = Real(m, s) /\ Path(k, s) = Path(m, s)
      /\ \A s : Parent(k, s) = Parent(m, s)
  BY SameSpaces
<1>2. Live(k) = Live(m)
  BY <1>1 DEF Live, IsAlive
<1>3. ASSUME NEW s PROVE Ready(k, s) = Ready(m, s) /\ Busy(k, s) = Busy(m, s)
  BY <1>1 DEF Ready, SpaceOf, Busy
<1>4. \A s : Due(k, s) = Due(m, s)
  BY <1>3 DEF Due
<1>5. Counters(m) => Counters(k)
  BY <1>1 DEF Counters
<1> QED BY <1>2, <1>4, <1>5 DEF Tallied

\* What neither the counters nor the lists depend on can change.
LEMMA AlikeTallies ==
    ASSUME NEW m, NEW k, Alike(m, k)
    PROVE  Tallies(m, k) /\ \A a : Sound(m, a) => Sound(k, a)
<1>1. \A a : Tallied(m, a) => Tallied(k, a)
  BY SameDue DEF Alike
<1>2. Counters(m) => Counters(k)
  BY SameDue DEF Alike
<1>3. Queued(m) => Queued(k)
  BY Sets DEF Alike, Queued
<1>4. Scheduled(m) => Scheduled(k)
  BY DEF Alike, Scheduled
<1>5. \A a : Sound(m, a) => Sound(k, a)
  BY <1>1, <1>2, <1>3, <1>4 DEF Sound, Books, Alike
<1> QED BY <1>5 DEF Alike, Tallies, Stays

\* The fields that do not count
Quiet == {"space", "peopled", "answer", "distributor", "chosen", "trail", "script", "bound",
         "home", "optimized", "terminated", "dead", "waits", "rebound"}

\* A call that changes only such fields tallies.
LEMMA QuietTallies ==
    ASSUME NEW m, NEW k, Agree(m, k, Quiet)
    PROVE  Tallies(m, k) /\ \A a : Sound(m, a) => Sound(k, a)
<1>1. /\ k.parent = m.parent /\ k.status = m.status /\ k.count = m.count
      /\ k.runnable = m.runnable /\ k.running = m.running
      /\ k.at = m.at /\ k.kind = m.kind /\ k.pendings = m.pendings
  BY DEF Agree, Fields, Quiet
<1>2. Alike(m, k)
  BY <1>1 DEF Alike, Spent
<1> QED BY <1>2, AlikeTallies

\* On the way up the spaces are nearer and nearer to the top-level space.
LEMMA ClimbRanks ==
    ASSUME NEW m, NEW rank, Ranked(m, rank), NEW u, NEW s, NEW a, Climbs(m, u, s, a)
    PROVE  \A i, j \in 1..Len(u) : i < j => rank[u[j]] < rank[u[i]]
<1>1. PICK n \in Nat : n = Len(u) /\ \A i \in 1..n : u[i] \in Below(m)
  BY DEF Climbs
<1>2. \A i \in 1..n : /\ u[i] \in Created(m) /\ u[i] # Top /\ rank[u[i]] \in Nat
                      /\ rank[Parent(m, u[i])] < rank[u[i]] /\ rank[Parent(m, u[i])] \in Nat
  <2> SUFFICES ASSUME NEW i \in 1..n
               PROVE  /\ u[i] \in Created(m) /\ u[i] # Top /\ rank[u[i]] \in Nat
                      /\ rank[Parent(m, u[i])] < rank[u[i]] /\ rank[Parent(m, u[i])] \in Nat
    OBVIOUS
  <2>1. u[i] \in Created(m) /\ u[i] # Top
    BY <1>1 DEF Below, Standing
  <2>2. Parent(m, u[i]) \in Created(m) /\ rank[Parent(m, u[i])] < rank[u[i]]
    BY <2>1, ParentFacts DEF Standing
  <2> QED BY <2>1, <2>2, RankBound
<1>3. PICK S : S = {j \in 0..n : \A i \in 1..n : i < j => rank[u[j]] < rank[u[i]]}
  OBVIOUS
<1>4. 0 \in S
  BY <1>3
<1>5. \A j \in 1..n : j - 1 \in S => j \in S
  <2> SUFFICES ASSUME NEW j \in 1..n, j - 1 \in S, NEW i \in 1..n, i < j
               PROVE  rank[u[j]] < rank[u[i]]
    BY <1>3
  <2>1. j - 1 \in 1..n /\ j - 1 \in 1..(n - 1) /\ (j - 1) + 1 = j
    OBVIOUS
  <2>2. u[j] = Parent(m, u[j - 1])
    BY <1>1, <2>1 DEF Climbs
  <2>3. rank[u[j]] < rank[u[j - 1]] /\ rank[u[j]] \in Nat /\ rank[u[j - 1]] \in Nat /\ rank[u[i]] \in Nat
    BY <1>2, <2>1, <2>2
  <2>4. CASE i = j - 1
    BY <2>3, <2>4
  <2>5. CASE i # j - 1
    <3>1. i < j - 1
      BY <2>5
    <3>2. rank[u[j - 1]] < rank[u[i]]
      BY <1>3, <3>1
    <3> QED BY <2>3, <3>2
  <2> QED BY <2>4, <2>5
<1>6. ASSUME NEW j \in 1..n PROVE j \in S
  <2>1. PICK k \in Nat : k = j
    OBVIOUS
  <2>2. PICK Q : Q = {i \in 0..k : i \in S}
    OBVIOUS
  <2>3. 0 \in Q /\ Q \in SUBSET (0..k)
    BY <1>4, <2>2
  <2>4. \A i \in 1..k : i - 1 \in Q => i \in Q
    BY <1>5, <2>1, <2>2
  <2>5. k \in Q
    BY <2>3, <2>4, StepByStep
  <2> QED BY <2>1, <2>2, <2>5
<1> QED BY <1>1, <1>3, <1>6

\* Where a count goes up when a thread of s becomes runnable: in s, and above each
\* space that counted nothing
Raised(m, s, I) ==
    /\ I \subseteq Below(m) /\ (s # Top => s \in I)
    /\ \A a \in I : a # s => \E c \in I : Parent(m, c) = a /\ m.count[c] = 0
    /\ \A c \in I : Parent(m, c) # s /\ (m.count[c] = 0 => Parent(m, c) \in I \cup {Top})
    /\ \A c, c2 \in I : Parent(m, c) = Parent(m, c2) => c = c2
OneMore(m, I) == [a \in SubSpaces |-> IF a \in I THEN m.count[a] + 1 ELSE m.count[a]]

\* Those are the counts that incRunnableThreadCount changes.
LEMMA IncRaises ==
    ASSUME NEW m, WellRun(m), NEW s \in Standing(m)
    PROVE  \E I : Raised(m, s, I) /\ Inc(m, s) = [m EXCEPT !.count = OneMore(m, I)]
<1>1. PICK rank : Ranked(m, rank)
  BY DEF WellRun, Tree
<1>2. PICK u : u = UpTo(m, s, Top)
  OBVIOUS
<1>3. Climbs(m, u, s, Top)
  <2>1. Top \in Path(m, s)
    BY <1>1, PathFacts
  <2> QED BY <1>1, <1>2, <2>1, UpToClimbs
<1>4. PICK n \in Nat : n = Len(u) /\ DOMAIN u = 1..n /\ \A i \in 1..n : u[i] \in Below(m)
  BY <1>3 DEF Climbs
<1>5. \A i, j \in 1..n : u[i] = u[j] => i = j
  <2> SUFFICES ASSUME NEW i \in 1..n, NEW j \in 1..n, i < j, u[i] = u[j] PROVE FALSE
    OBVIOUS
  <2>1. rank[u[j]] < rank[u[i]]
    BY <1>1, <1>3, <1>4, ClimbRanks
  <2>2. rank[u[i]] \in Nat
    BY <1>1, <1>4, RankBound DEF Below, Standing
  <2> QED BY <2>1, <2>2
<1>6. \A i \in 1..(n - 1) : u[i + 1] = Parent(m, u[i])
  BY <1>3, <1>4 DEF Climbs
<1>7. n > 0 => u[1] = s /\ Parent(m, u[n]) = Top
  BY <1>3, <1>4 DEF Climbs
<1>8. n = 0 => s = Top
  BY <1>3, <1>4 DEF Climbs
<1>9. \A i \in 1..n : u[i] # Top /\ u[i] \in SubSpaces /\ u[i] \in Standing(m)
  BY <1>4 DEF Below, Standing, Created, Spaces
<1>10. PICK level : level = {i \in DOMAIN u : \A j \in 1..(i - 1) : m.count[u[j]] = 0}
  OBVIOUS
<1>11. \A i : i \in level <=> i \in 1..n /\ \A j \in 1..(i - 1) : m.count[u[j]] = 0
  BY <1>4, <1>10
<1>12. PICK I : I = {u[i] : i \in level}
  OBVIOUS
<1>13. Inc(m, s) = [m EXCEPT !.count = OneMore(m, I)]
  <2>1. \A a : (\E i \in level : u[i] = a) <=> a \in I
    BY <1>12
  <2> QED BY <1>2, <1>10, <2>1 DEF Inc, UpFrom, OneMore
<1>14. I \subseteq Below(m)
  BY <1>4, <1>11, <1>12
<1>15. s # Top => s \in I
  <2> SUFFICES ASSUME s # Top PROVE s \in I
    OBVIOUS
  <2>1. 1 \in level /\ u[1] = s
    BY <1>7, <1>8, <1>11
  <2> QED BY <1>12, <2>1
<1>16. ASSUME NEW a \in I, a # s PROVE \E c \in I : Parent(m, c) = a /\ m.count[c] = 0
  <2>1. PICK i \in level : a = u[i]
    BY <1>12
  <2>2. i \in 1..n /\ i # 1
    BY <1>7, <1>11, <1>16, <2>1
  <2>3. i - 1 \in 1..(n - 1) /\ (i - 1) + 1 = i /\ i - 1 \in 1..n
    BY <2>2
  <2>4. Parent(m, u[i - 1]) = a
    BY <1>6, <2>1, <2>3
  <2>5. m.count[u[i - 1]] = 0
    BY <1>11, <2>1, <2>3
  <2>6. i - 1 \in level
    <3>1. \A j \in 1..((i - 1) - 1) : j \in 1..(i - 1)
      BY <2>2
    <3> QED BY <1>11, <2>1, <2>3, <3>1
  <2> QED BY <1>12, <2>4, <2>5, <2>6
<1>17. ASSUME NEW c \in I
       PROVE  Parent(m, c) # s /\ (m.count[c] = 0 => Parent(m, c) \in I \cup {Top})
  <2>1. PICK i \in level : c = u[i]
    BY <1>12
  <2>2. i \in 1..n /\ n > 0
    BY <1>11, <2>1
  <2>3. CASE i = n
    <3>1. Parent(m, c) = Top
      BY <1>7, <2>1, <2>2, <2>3
    <3>2. s # Top
      BY <1>7, <1>9, <2>2
    <3> QED BY <3>1, <3>2
  <2>4. CASE i # n
    <3>1. i \in 1..(n - 1) /\ i + 1 \in 1..n /\ i + 1 # 1 /\ 1 \in 1..n
      BY <2>2, <2>4
    <3>2. Parent(m, c) = u[i + 1]
      BY <1>6, <2>1, <3>1
    <3>3. u[i + 1] # s
      BY <1>5, <1>7, <2>2, <3>1
    <3>4. m.count[c] = 0 => i + 1 \in level
      <4> SUFFICES ASSUME m.count[c] = 0, NEW j \in 1..((i + 1) - 1) PROVE m.count[u[j]] = 0
        BY <1>11, <3>1
      <4>1. j = i \/ j \in 1..(i - 1)
        BY <2>2
      <4> QED BY <1>11, <2>1, <4>1
    <3> QED BY <1>12, <3>2, <3>3, <3>4
  <2> QED BY <2>3, <2>4
<1>18. ASSUME NEW c \in I, NEW c2 \in I, Parent(m, c) = Parent(m, c2) PROVE c = c2
  <2>1. PICK i \in 1..n : c = u[i]
    BY <1>11, <1>12
  <2>2. PICK j \in 1..n : c2 = u[j]
    BY <1>11, <1>12
  <2>3. ASSUME NEW k \in 1..n
        PROVE  (k = n /\ Parent(m, u[k]) = Top) \/ (k + 1 \in 1..n /\ Parent(m, u[k]) = u[k + 1])
    <3>1. CASE k = n
      BY <1>7, <3>1
    <3>2. CASE k # n
      <4>1. k \in 1..(n - 1)
        BY <3>2
      <4> QED BY <1>6, <4>1
    <3> QED BY <3>1, <3>2
  <2>4. (i = n /\ j = n) \/ i + 1 = j + 1
    BY <1>5, <1>9, <1>18, <2>1, <2>2, <2>3
  <2> QED BY <2>1, <2>2, <2>4
<1>19. Raised(m, s, I)
  BY <1>14, <1>15, <1>16, <1>17, <1>18 DEF Raised
<1> QED BY <1>13, <1>19

\* What is due in each space grows with the counts.
LEMMA RaisedDue ==
    ASSUME NEW m \in Machine, Counters(m), NEW s, NEW I, Raised(m, s, I),
           NEW t, t \notin m.runnable, SpaceOf(m, t) = s,
           NEW k \in Machine, Agree(m, k, {"runnable", "count"}), k.runnable = m.runnable \cup {t},
           k.count = OneMore(m, I), NEW r \in Live(m)
    PROVE  Due(k, r) = IF r \in I THEN Due(m, r) + 1 ELSE Due(m, r)
<1>1. /\ k.parent = m.parent /\ k.status = m.status /\ k.at = m.at
      /\ \A c \in SubSpaces : k.count[c] = IF c \in I THEN m.count[c] + 1 ELSE m.count[c]
  BY DEF Agree, Fields, OneMore
<1>2. \A x : Real(k, x) = Real(m, x) /\ Parent(k, x) = Parent(m, x)
  BY <1>1, SameSpaces
<1>3. r \in SubSpaces /\ r # Top
  BY Sets, SpacesAssumption DEF Live
<1>4. \A c \in SubSpaces : m.count[c] \in Int
  BY DEF Machine
<1>5. /\ IsFiniteSet(Ready(m, r)) /\ Cardinality(Ready(m, r)) \in Nat
      /\ IsFiniteSet(Busy(m, r)) /\ Cardinality(Busy(m, r)) \in Nat
  BY DueFinite
<1>6. Cardinality(Ready(k, r)) = IF r = s THEN Cardinality(Ready(m, r)) + 1 ELSE Cardinality(Ready(m, r))
  <2>1. CASE r = s
    <3>1. Ready(k, r) = Ready(m, r) \cup {t} /\ t \notin Ready(m, r)
      BY <1>1, <1>2, <2>1 DEF Ready, SpaceOf
    <3>2. Cardinality(Ready(k, r)) = Cardinality(Ready(m, r)) + 1
      BY <1>5, <3>1, FS_AddElement
    <3> QED BY <2>1, <3>2
  <2>2. CASE r # s
    <3>1. Ready(k, r) = Ready(m, r)
      BY <1>1, <1>2, <2>2 DEF Ready, SpaceOf
    <3> QED BY <2>2, <3>1
  <2> QED BY <2>1, <2>2
<1>7. \A c \in SubSpaces : /\ c \in Busy(m, r) <=> m.status[c] = "normal" /\ Parent(m, c) = r /\ m.count[c] > 0
                           /\ c \in Busy(k, r) <=> m.status[c] = "normal" /\ Parent(m, c) = r /\ k.count[c] > 0
  BY <1>1, <1>2 DEF Busy
<1>8. Busy(m, r) \subseteq SubSpaces /\ Busy(k, r) \subseteq SubSpaces
  BY DEF Busy
<1>9. \A c \in SubSpaces : m.count[c] >= 0
  BY DEF Counters
<1>10. CASE r \in I /\ r # s
  <2>1. PICK c \in I : Parent(m, c) = r /\ m.count[c] = 0
    BY <1>10 DEF Raised
  <2>2. c \in SubSpaces /\ c \in Below(m) /\ \A c2 \in I : Parent(m, c2) = r => c2 = c
    BY <2>1 DEF Raised, Below, Standing, Created, Spaces
  <2>3. m.status[c] = "normal"
    <3>1. m.status[c] \in {"none", "normal", "failed", "merged"}
      BY <2>2, Sets DEF Machine
    <3>2. m.status[c] # "none" /\ m.status[c] # "merged"
      BY <2>2 DEF Below, Standing, Created
    <3>3. m.status[c] # "failed"
      BY <1>3, <2>1, <2>2 DEF Counters
    <3> QED BY <3>1, <3>2, <3>3
  <2>4. c \notin Busy(m, r) /\ c \in Busy(k, r)
    BY <1>1, <1>7, <2>1, <2>2, <2>3
  <2>5. \A e \in SubSpaces : e # c => (e \in Busy(k, r) <=> e \in Busy(m, r))
    BY <1>1, <1>7, <2>2
  <2>6. Busy(k, r) = Busy(m, r) \cup {c}
    BY <1>8, <2>2, <2>4, <2>5
  <2>7. Cardinality(Busy(k, r)) = Cardinality(Busy(m, r)) + 1
    BY <1>5, <2>4, <2>6, FS_AddElement
  <2> QED BY <1>5, <1>6, <1>10, <2>7 DEF Due
<1>11. CASE r \notin I \/ r = s
  <2>1. ASSUME NEW c \in I, Parent(m, c) = r PROVE m.count[c] > 0
    <3>1. c \in SubSpaces
      BY DEF Raised, Below, Standing, Created, Spaces
    <3>2. m.count[c] # 0
      BY <1>3, <1>11, <2>1 DEF Raised
    <3> QED BY <1>4, <1>9, <3>1, <3>2
  <2>2. \A c \in SubSpaces : c \in Busy(k, r) <=> c \in Busy(m, r)
    <3> SUFFICES ASSUME NEW c \in SubSpaces, m.status[c] = "normal", Parent(m, c) = r
                 PROVE  k.count[c] > 0 <=> m.count[c] > 0
      BY <1>7
    <3>1. CASE c \in I
      BY <1>1, <1>4, <2>1, <3>1
    <3>2. CASE c \notin I
      BY <1>1, <3>2
    <3> QED BY <3>1, <3>2
  <2>3. Busy(k, r) = Busy(m, r)
    BY <1>8, <2>2
  <2>4. r = s <=> r \in I
    BY <1>3, <1>11 DEF Raised
  <2> QED BY <1>5, <1>6, <2>3, <2>4 DEF Due
<1> QED BY <1>10, <1>11

\* A thread that can be resumed: it has started, has not ended, does not run and waits
\* for nothing
Resumable(m, t) ==
    /\ t \in Threads /\ m.at[t] # None /\ m.kind[t] # "none"
    /\ t \notin m.terminated /\ t \notin m.runnable
    /\ t \in OzThreads => \A w \in Waitees : t \notin m.pendings[w]

\* Runnable::resume counts a thread that was not runnable.
LEMMA ResumeTallies ==
    ASSUME NEW m, WellRun(m), NEW t, Resumable(m, t), NEW k, k = Resume(m, t)
    PROVE  /\ Tallies(m, k) /\ \A a : Sound(m, a) => Sound(k, a)
           /\ Agree(m, k, {"runnable", "count"})
<1>1. m \in Machine /\ t \in Threads
  BY DEF WellRun, Resumable
<1>2. PICK m1 : m1 = [m EXCEPT !.runnable = @ \cup {t}]
  OBVIOUS
<1>3. m1 \in Machine /\ Agree(m, m1, {"runnable"}) /\ m1.runnable = m.runnable \cup {t}
  BY <1>1, <1>2 DEF Machine, Agree, Fields
<1>4. /\ m1.parent = m.parent /\ m1.status = m.status /\ m1.running = m.running
      /\ m1.at = m.at /\ m1.kind = m.kind /\ m1.count = m.count
      /\ m1.terminated = m.terminated /\ m1.pendings = m.pendings
  BY <1>3 DEF Agree, Fields
<1>5. /\ Created(m1) = Created(m) /\ Standing(m1) = Standing(m) /\ Below(m1) = Below(m)
      /\ (Tree(m1) <=> Tree(m)) /\ \A s : Real(m1, s) = Real(m, s) /\ Path(m1, s) = Path(m, s)
      /\ \A s : Parent(m1, s) = Parent(m, s)
  BY <1>4, SameSpaces
<1>6. Placed(m1) /\ Lively(m1)
  BY <1>3, <1>4, <1>5 DEF Placed, Lively, WellRun, Resumable
<1>7. WellRun(m1)
  BY <1>3, <1>5, <1>6 DEF WellRun
<1>8. PICK s \in Standing(m1) : s = SpaceOf(m, t)
  BY <1>1, <1>5, SpaceOfStands DEF Resumable
<1>9. PICK I : Raised(m1, s, I) /\ Inc(m1, s) = [m1 EXCEPT !.count = OneMore(m1, I)]
  BY <1>7, IncRaises
<1>10. k = [m1 EXCEPT !.count = OneMore(m1, I)]
  BY <1>2, <1>8, <1>9 DEF Resume
<1>11. Raised(m, s, I) /\ OneMore(m1, I) = OneMore(m, I)
  BY <1>4, <1>5, <1>9 DEF Raised, OneMore
<1>12. OneMore(m, I) \in [SubSpaces -> Int]
  BY <1>1 DEF OneMore, Machine
<1>13. k \in Machine /\ Agree(m1, k, {"count"}) /\ k.count = OneMore(m, I)
  <2>1. PICK c \in [SubSpaces -> Int] : c = OneMore(m, I)
    BY <1>12
  <2>2. k = [m1 EXCEPT !.count = c]
    BY <1>10, <1>11, <2>1
  <2>3. k \in Machine /\ Agree(m1, k, {"count"}) /\ k.count = c
    BY <1>3, <2>2 DEF Machine, Agree, Fields
  <2> QED BY <2>1, <2>3
<1>14. Agree(m, k, {"runnable", "count"})
  BY <1>3, <1>13 DEF Agree
<1>15. k.runnable = m.runnable \cup {t}
  BY <1>3, <1>13 DEF Agree, Fields
<1>16. /\ k.parent = m.parent /\ k.status = m.status /\ k.at = m.at
       /\ k.kind = m.kind /\ k.running = m.running /\ k.pendings = m.pendings
  BY <1>14 DEF Agree, Fields
<1>17. Live(k) = Live(m) /\ \A x : Parent(k, x) = Parent(m, x)
  <2>1. (\A x : Path(k, x) = Path(m, x)) /\ \A x : Parent(k, x) = Parent(m, x)
    BY <1>16, SameSpaces
  <2> QED BY <1>16, <2>1 DEF Live, IsAlive
<1>18. \A c \in SubSpaces : /\ k.count[c] = IF c \in I THEN m.count[c] + 1 ELSE m.count[c]
                            /\ m.count[c] \in Int
  BY <1>1, <1>13 DEF OneMore, Machine
<1>19. ASSUME Counters(m) PROVE Counters(k)
  <2> SUFFICES ASSUME NEW c \in SubSpaces
               PROVE  /\ k.count[c] >= 0
                      /\ k.status[c] = "none" => k.count[c] = 0
                      /\ k.status[c] = "failed" => k.count[c] > 0 \/ Parent(k, c) = Top
    BY DEF Counters
  <2>1. /\ m.count[c] >= 0
        /\ m.status[c] = "none" => m.count[c] = 0
        /\ m.status[c] = "failed" => m.count[c] > 0 \/ Parent(m, c) = Top
    BY <1>19 DEF Counters
  <2>2. c \in I => m.status[c] # "none"
    BY <1>11 DEF Raised, Below, Standing, Created
  <2> QED BY <1>16, <1>17, <1>18, <2>1, <2>2
<1>20. ASSUME Counters(m), NEW a, Tallied(m, a) PROVE Tallied(k, a)
  <2> SUFFICES ASSUME NEW r \in Live(m)
               PROVE  k.count[r] = Due(k, r) + IF r = a THEN 1 ELSE 0
    BY <1>17 DEF Tallied
  <2>1. Due(k, r) = IF r \in I THEN Due(m, r) + 1 ELSE Due(m, r)
    BY <1>1, <1>8, <1>11, <1>13, <1>14, <1>15, <1>20, RaisedDue DEF Resumable
  <2>2. m.count[r] = Due(m, r) + IF r = a THEN 1 ELSE 0
    BY <1>20 DEF Tallied
  <2>3. Due(m, r) \in Int /\ r \in SubSpaces
    BY <1>1, DueFinite DEF Due, Live
  <2> QED BY <1>18, <2>1, <2>2, <2>3
<1>21. Queued(m) => Queued(k)
  BY <1>15, <1>16 DEF Queued, Resumable
<1>22. Scheduled(m) => Scheduled(k)
  BY <1>15, <1>16 DEF Scheduled, Resumable
<1>23. \A a : Sound(m, a) => Sound(k, a)
  BY <1>16, <1>19, <1>20, <1>21, <1>22 DEF Sound, Books, Spent
<1> QED BY <1>14, <1>15, <1>16, <1>23 DEF Tallies, Stays, Spent

\* resume only changes these.
LEMMA ResumeFrame ==
    ASSUME NEW m \in Machine, NEW t \in Threads
    PROVE  /\ Agree(m, Resume(m, t), {"runnable", "count"})
           /\ Resume(m, t).runnable = m.runnable \cup {t}
<1>1. PICK r, c : r = m.runnable \cup {t} /\ Resume(m, t) = [m EXCEPT !.runnable = r, !.count = c]
  BY DEF Resume, Inc
<1>2. Resume(m, t) = [m EXCEPT !.runnable = r, !.count = c]
  BY <1>1
<1> QED BY <1>1, <1>2 DEF Machine, Agree, Fields

\* A thread that is called by the name of another spoils the counts.
LEMMA SpentTallies ==
    ASSUME NEW m, NEW k, m.runnable \subseteq k.runnable, Spent(k)
    PROVE  Tallies(m, k) /\ \A a : Sound(k, a)
  BY DEF Tallies, Stays, Sound

\* A new thread of the machine is not one that is runnable, or that some suspension list
\* holds, as long as there are names.
LEMMA FreeHelperFacts ==
    ASSUME NEW m, NEW d, d = FreeHelper(m)
    PROVE  d \in Helpers /\ (d # Spare => d \notin m.runnable)
<1>1. PICK free : free = {h \in Helpers \ {Spare} : /\ h \notin m.runnable
                                                   /\ \A w \in Waitees : h \notin m.pendings[w]}
  OBVIOUS
<1>2. d = IF free = {} THEN Spare ELSE CHOOSE h \in free : TRUE
  BY <1>1 DEF FreeHelper
<1>3. d = Spare \/ d \in free
  BY <1>2
<1> QED BY <1>1, <1>3, FreeHelperIsHelper

\* A new thread of the machine is not counted until it is resumed.
LEMMA NewTallies ==
    ASSUME NEW m, WellRun(m), NEW d, d = FreeHelper(m), NEW kind \in {"dummy", "unify"},
           NEW s \in Below(m), NEW k, k = New(m, d, kind, s)
    PROVE  /\ Tallies(m, k) /\ \A a : Sound(m, a) => Sound(k, a)
           /\ d = Spare => Spent(k)
           /\ d # Spare => Resumable(k, d)
           /\ k.trail = m.trail
<1>1. m \in Machine /\ d \in Helpers /\ d \in Threads /\ s \in Created(m) /\ s # Top /\ Spare \in Threads
      /\ (d # Spare => d \notin m.runnable)
  BY FreeHelperFacts, Sets DEF WellRun, Below, Standing
<1>2. Murmur(m, k) /\ k.at[d] = s /\ d \notin k.terminated /\ s # None
  BY <1>1, NewMurmurs
<1>3. k.kind = [m.kind EXCEPT ![d] = kind] /\ k.at = [m.at EXCEPT ![d] = s]
  BY <1>1 DEF New, Machine
<1>4. /\ k.parent = m.parent /\ k.status = m.status /\ k.count = m.count
      /\ k.runnable = m.runnable /\ k.running = m.running /\ k.pendings = m.pendings
      /\ k.trail = m.trail
  BY <1>1 DEF New, Machine
<1>5. \A t \in Threads : /\ k.kind[t] = IF t = d THEN kind ELSE m.kind[t]
                         /\ k.at[t] = IF t = d THEN s ELSE m.at[t]
  BY <1>1, <1>3 DEF Machine
<1>6. kind # "none"
  OBVIOUS
<1>7. CASE d = Spare
  <2>1. Spent(k)
    BY <1>1, <1>5, <1>6, <1>7 DEF Spent
  <2> QED BY <1>4, <1>7, <2>1, SpentTallies
<1>8. CASE d # Spare
  <2>1. d \notin m.runnable /\ m.runnable \subseteq Threads
    BY <1>1, <1>8 DEF Machine
  <2>4. \A w \in Waitees : m.pendings[w] \subseteq Threads
    BY <1>1 DEF Machine
  <2>5. \A t \in Threads : /\ m.kind[t] # "none" => k.kind[t] # "none"
                           /\ t # d => k.at[t] = m.at[t]
    BY <1>5, <1>6
  <2>6. Spent(m) => Spent(k)
    BY <1>1, <2>5 DEF Spent
  <2>2. Alike(m, k)
    BY <1>4, <2>1, <2>4, <2>5, <2>6 DEF Alike
  <2>3. Resumable(k, d)
    BY <1>1, <1>2, <1>4, <1>5, <1>6, <2>1, Sets DEF Resumable
  <2> QED BY <1>4, <1>8, <2>2, <2>3, AlikeTallies
<1> QED BY <1>7, <1>8

\* A DummyThread or a UnifyThread is posted.
LEMMA PostTallies ==
    ASSUME NEW m, WellRun(m), NEW d, d = FreeHelper(m), NEW kind \in {"dummy", "unify"},
           NEW s \in Below(m), NEW k, k = Resume(New(m, d, kind, s), d)
    PROVE  Tallies(m, k) /\ \A a : Sound(m, a) => Sound(k, a)
<1>1. PICK x : x = New(m, d, kind, s)
  OBVIOUS
<1>2. /\ Tallies(m, x) /\ \A a : Sound(m, a) => Sound(x, a)
      /\ d = Spare => Spent(x)
      /\ d # Spare => Resumable(x, d)
  BY <1>1, NewTallies
<1>3. d \in Threads /\ d \in Helpers
  BY FreeHelperFacts, Sets
<1>4. WellRun(x)
  <2>1. s \in Created(m) /\ s # Top
    BY DEF Below, Standing
  <2> QED BY <1>1, <1>3, <2>1, NewMurmurs DEF Murmur
<1>5. CASE d = Spare
  <2>1. Agree(x, k, {"runnable", "count"}) /\ k.runnable = x.runnable \cup {d}
    BY <1>1, <1>3, <1>4, ResumeFrame DEF WellRun
  <2>2. Spent(k)
    BY <1>2, <1>5, <2>1 DEF Spent, Agree, Fields
  <2>3. m.runnable \subseteq k.runnable
    BY <1>2, <2>1 DEF Tallies, Stays
  <2> QED BY <2>2, <2>3, SpentTallies
<1>6. CASE d # Spare
  <2>1. Tallies(x, k) /\ \A a : Sound(x, a) => Sound(k, a)
    BY <1>1, <1>2, <1>4, <1>6, ResumeTallies
  <2> QED BY <1>2, <2>1, TalliesOn
<1> QED BY <1>5, <1>6

\* One thread less is counted in a
Lowered(m, a) == [m EXCEPT !.count = [m.count EXCEPT ![a] = @ - 1]]

\* When one thread too many is counted in a, the count is corrected, and then one space
\* too many may be counted above.
LEMMA LoweredBooks ==
    ASSUME NEW m, WellRun(m), NEW a \in Live(m), Books(m, a), NEW k, k = Lowered(m, a)
    PROVE  /\ k.count[a] # 0 => Books(k, Top)
           /\ k.count[a] = 0 => Books(k, Parent(m, a))
<1>1. m \in Machine /\ a \in SubSpaces /\ m.status[a] = "normal" /\ Top \notin SubSpaces
  BY SpacesAssumption DEF WellRun, Live
<1>2. PICK c \in [SubSpaces -> Int] : c = [m.count EXCEPT ![a] = @ - 1]
  <2>1. m.count \in [SubSpaces -> Int]
    BY <1>1 DEF Machine
  <2>2. [m.count EXCEPT ![a] = @ - 1] \in [SubSpaces -> Int]
    BY <1>1, <2>1
  <2> QED BY <2>2
<1>3. k = [m EXCEPT !.count = c]
  BY <1>2 DEF Lowered
<1>4. k \in Machine /\ Agree(m, k, {"count"}) /\ k.count = c
  BY <1>1, <1>2, <1>3 DEF Machine, Agree, Fields
<1>5. /\ k.parent = m.parent /\ k.status = m.status /\ k.runnable = m.runnable
      /\ k.running = m.running /\ k.kind = m.kind /\ k.at = m.at /\ k.pendings = m.pendings
  BY <1>4 DEF Agree, Fields
<1>6. /\ \A x : Real(k, x) = Real(m, x) /\ Path(k, x) = Path(m, x)
      /\ \A x : Parent(k, x) = Parent(m, x)
  BY <1>5, SameSpaces
<1>7. Live(k) = Live(m)
  BY <1>5, <1>6 DEF Live, IsAlive
<1>8. \A x \in SubSpaces : /\ k.count[x] = IF x = a THEN m.count[x] - 1 ELSE m.count[x]
                           /\ m.count[x] \in Int
  BY <1>1, <1>2, <1>4 DEF Machine
<1>9. m.count[a] >= 1
  <2>1. Due(m, a) \in Nat
    BY <1>1, DueFinite DEF Due
  <2>2. m.count[a] = Due(m, a) + 1
    BY DEF Books, Tallied
  <2> QED BY <2>1, <2>2
<1>10. Counters(k)
  <2> SUFFICES ASSUME NEW x \in SubSpaces
               PROVE  /\ k.count[x] >= 0
                      /\ k.status[x] = "none" => k.count[x] = 0
                      /\ k.status[x] = "failed" => k.count[x] > 0 \/ Parent(k, x) = Top
    BY DEF Counters
  <2>1. CASE x = a
    <3>1. k.status[x] = "normal"
      BY <1>1, <1>5, <2>1
    <3>2. k.count[x] >= 0
      BY <1>8, <1>9, <2>1
    <3> QED BY <3>1, <3>2
  <2>2. CASE x # a
    BY <1>5, <1>6, <1>8, <2>2 DEF Books, Counters
  <2> QED BY <2>1, <2>2
<1>11. Queued(k) /\ Scheduled(k)
  BY <1>5 DEF Books, Queued, Scheduled
<1>12. \A r : Ready(k, r) = Ready(m, r)
  BY <1>5, <1>6 DEF Ready, SpaceOf
<1>13. \A r : \A x \in SubSpaces :
          /\ x \in Busy(m, r) <=> m.status[x] = "normal" /\ Parent(m, x) = r /\ m.count[x] > 0
          /\ x \in Busy(k, r) <=> m.status[x] = "normal" /\ Parent(m, x) = r /\ k.count[x] > 0
  BY <1>5, <1>6 DEF Busy
<1>14. \A r : Busy(m, r) \subseteq SubSpaces /\ Busy(k, r) \subseteq SubSpaces
  BY DEF Busy
<1>15. \A r : Due(m, r) \in Int
  BY <1>1, DueFinite DEF Due
<1>16. CASE k.count[a] # 0
  <2>1. \A r : Busy(k, r) = Busy(m, r)
    <3>1. \A x \in SubSpaces : k.count[x] > 0 <=> m.count[x] > 0
      BY <1>1, <1>8, <1>9, <1>16
    <3> QED BY <1>13, <1>14, <3>1
  <2>2. \A r : Due(k, r) = Due(m, r)
    BY <1>12, <2>1 DEF Due
  <2>3. ASSUME NEW r \in Live(m) PROVE k.count[r] = Due(k, r) + IF r = Top THEN 1 ELSE 0
    <3>1. m.count[r] = Due(m, r) + IF r = a THEN 1 ELSE 0
      BY DEF Books, Tallied
    <3>2. r # Top /\ r \in SubSpaces
      BY <1>1 DEF Live
    <3> QED BY <1>8, <1>15, <2>2, <3>1, <3>2
  <2> QED BY <1>7, <1>10, <1>11, <1>16, <2>3 DEF Books, Tallied
<1>17. CASE k.count[a] = 0
  <2>1. PICK p : p = Parent(m, a)
    OBVIOUS
  <2>2. p # a
    <3>1. a \in Below(m)
      BY <1>1, Sets DEF Below, Standing, Created
    <3> QED BY <2>1, <3>1, OverParent, PathFacts DEF WellRun, Tree
  <2>3. a \in Busy(m, p) /\ a \notin Busy(k, p)
    <3>1. m.count[a] > 0 /\ ~(k.count[a] > 0)
      BY <1>1, <1>8, <1>9, <1>17
    <3> QED BY <1>1, <1>13, <2>1, <3>1
  <2>4. \A x \in SubSpaces : x # a => (k.count[x] > 0 <=> m.count[x] > 0)
    BY <1>8
  <2>5. Busy(k, p) = Busy(m, p) \ {a}
    BY <1>13, <1>14, <2>3, <2>4
  <2>6. ASSUME NEW r, r # p PROVE Busy(k, r) = Busy(m, r)
    <3>1. a \notin Busy(k, r) /\ a \notin Busy(m, r)
      BY <1>1, <1>13, <2>1, <2>6
    <3> QED BY <1>13, <1>14, <2>4, <3>1
  <2>7. Cardinality(Busy(k, p)) = Cardinality(Busy(m, p)) - 1
    <3>1. IsFiniteSet(Busy(m, p))
      BY <1>1, DueFinite
    <3> QED BY <2>3, <2>5, <3>1, FS_RemoveElement
  <2>8. ASSUME NEW r PROVE Due(k, r) = IF r = p THEN Due(m, r) - 1 ELSE Due(m, r)
    <3>1. Cardinality(Busy(m, r)) \in Int /\ Cardinality(Ready(m, r)) \in Int
      BY <1>1, DueFinite
    <3> QED BY <1>12, <2>6, <2>7, <3>1 DEF Due
  <2>9. ASSUME NEW r \in Live(m) PROVE k.count[r] = Due(k, r) + IF r = p THEN 1 ELSE 0
    <3>1. m.count[r] = Due(m, r) + IF r = a THEN 1 ELSE 0
      BY DEF Books, Tallied
    <3>2. r \in SubSpaces
      BY DEF Live
    <3> QED BY <1>8, <1>15, <2>2, <2>8, <3>1, <3>2
  <2> QED BY <1>7, <1>10, <1>11, <1>17, <2>1, <2>9 DEF Books, Tallied
<1> QED BY <1>16, <1>17

\* The spaces above one that is alive are alive.
LEMMA LivePath ==
    ASSUME NEW m, WellRun(m), NEW s \in Live(m), NEW a \in Path(m, s), a # Top
    PROVE  a \in Live(m) /\ a \in Below(m)
<1>1. s \in Standing(m) /\ s \in SubSpaces
  BY Sets DEF Live, Standing, Created
<1>2. PICK rank : Ranked(m, rank)
  BY DEF WellRun, Tree
<1>3. a \in Standing(m) /\ Path(m, a) \subseteq Path(m, s)
  BY <1>1, <1>2, PathFacts, PathRanks
<1>4. a \in SubSpaces /\ a \in Spaces
  BY <1>3 DEF Standing, Created, Spaces
<1>5. IsAlive(m, a)
  BY <1>3 DEF Live, IsAlive
<1>6. m.status[a] # "failed"
  BY DEF Live, IsAlive
<1>7. m.status[a] \in {"none", "normal", "failed", "merged"}
  BY <1>4 DEF WellRun, Machine
<1>8. m.status[a] = "normal"
  BY <1>3, <1>6, <1>7 DEF Standing, Created
<1> QED BY <1>3, <1>4, <1>5, <1>8 DEF Live, Below

\* No suspension list changes, and no thread of the program becomes runnable.
Spared(m, k) == k.pendings = m.pendings /\ \A t \in OzThreads : t \in k.runnable => t \in m.runnable

\* A call that spares the threads can follow another.
LEMMA SparedOn ==
    ASSUME NEW m, NEW m2, NEW m3, Spared(m, m2), Spared(m2, m3)
    PROVE  Spared(m, m3)
  BY DEF Spared

\* A thread of the machine is no thread of the program.
LEMMA PostSpares ==
    ASSUME NEW m, WellRun(m), NEW d \in Helpers, NEW s \in Below(m),
           NEW k, k = Resume(New(m, d, "dummy", s), d)
    PROVE  Spared(m, k)
<1>1. PICK m1 : m1 = New(m, d, "dummy", s)
  OBVIOUS
<1>2. s \in Created(m) /\ s # Top
  BY DEF Below, Standing
<1>3. m1 \in Machine
  BY <1>1, <1>2, NewMurmurs DEF Murmur, WellRun
<1>4. m1.pendings = m.pendings /\ m1.runnable = m.runnable
  <2>1. m \in Machine
    BY DEF WellRun
  <2> QED BY <1>1, <2>1 DEF New, Machine
<1>5. d \in Threads /\ d \notin OzThreads
  BY Sets
<1>6. k = Resume(m1, d)
  BY <1>1
<1>7. Agree(m1, k, {"runnable", "count"}) /\ k.runnable = m1.runnable \cup {d}
  BY <1>3, <1>5, <1>6, ResumeFrame
<1>8. k.pendings = m1.pendings
  BY <1>7 DEF Agree, Fields
<1> QED BY <1>4, <1>5, <1>7, <1>8 DEF Spared

\* Where one thread too many is counted while the tree is climbed, if still it is
Ahead(acc, p) == IF acc.on THEN p ELSE Top

\* What decRunnableThreadCount does at one level
Leveled(m, on, a, acc) ==
    /\ Stays(m, acc.m) /\ Spared(m, acc.m)
    /\ ~on => acc.m = m /\ acc.on = FALSE
    /\ on /\ a \in Live(m) /\ Sound(m, a) => Sound(acc.m, Ahead(acc, Parent(m, a)))

\* One level of the tree is corrected, and gets a DummyThread if it is stable.
LEMMA DecLevelTallies ==
    ASSUME NEW m, WellRun(m), NEW on \in BOOLEAN, NEW a \in Below(m),
           NEW acc, acc = DecLevel([m |-> m, on |-> on], a)
    PROVE  Leveled(m, on, a, acc)
<1>1. m \in Machine /\ a \in SubSpaces
  BY DEF WellRun, Below, Standing, Created, Spaces
<1>2. PICK m1 : m1 = Lowered(m, a)
  OBVIOUS
<1>3. m1 = [m EXCEPT !.count[a] = @ - 1]
  BY <1>2 DEF Lowered
<1>4. PICK c \in [SubSpaces -> Int] : c = [m.count EXCEPT ![a] = @ - 1]
  <2>1. m.count \in [SubSpaces -> Int]
    BY <1>1 DEF Machine
  <2>2. [m.count EXCEPT ![a] = @ - 1] \in [SubSpaces -> Int]
    BY <1>1, <2>1
  <2> QED BY <2>2
<1>5. m1 = [m EXCEPT !.count = c]
  BY <1>2, <1>4 DEF Lowered
<1>6. m1 \in Machine /\ Agree(m, m1, {"count"})
  BY <1>1, <1>5 DEF Machine, Agree, Fields
<1>7. Agree(m, m1, Silent)
  BY <1>6 DEF Agree, Silent
<1>8. WellRun(m1) /\ Below(m1) = Below(m)
  BY <1>6, <1>7, SilentMurmur, MurmurCore, SameSpaces DEF Murmur
<1>9. m1.runnable = m.runnable /\ m1.kind = m.kind /\ m1.at = m.at
  BY <1>6 DEF Agree, Fields
<1>10. PICK d : d = FreeHelper(m1)
  OBVIOUS
<1>11. PICK m2 : m2 = Resume(New(m1, d, "dummy", a), d)
  OBVIOUS
<1>19. d \in Helpers /\ m1.pendings = m.pendings
  BY <1>6, <1>10, FreeHelperFacts DEF Agree, Fields
<1>20. Spared(m1, m2)
  BY <1>8, <1>11, <1>19, PostSpares
<1>21. Spared(m, m1) /\ Spared(m, m)
  BY <1>9, <1>19 DEF Spared
<1>22. Spared(m, m2)
  BY <1>20, <1>21, SparedOn
<1>12. Tallies(m1, m2) /\ \A b : Sound(m1, b) => Sound(m2, b)
  BY <1>8, <1>10, <1>11, PostTallies
<1>13. acc = IF ~on THEN [m |-> m, on |-> on]
             ELSE IF m1.count[a] # 0 THEN [m |-> m1, on |-> FALSE]
             ELSE IF IsStable(m1, a) THEN [m |-> m2, on |-> TRUE]
             ELSE [m |-> m1, on |-> TRUE]
  BY <1>3, <1>10, <1>11 DEF DecLevel
<1>14. a \in Live(m) /\ Sound(m, a) => /\ m1.count[a] # 0 => Sound(m1, Top)
                                       /\ m1.count[a] = 0 => Sound(m1, Parent(m, a))
  BY <1>2, <1>9, LoweredBooks DEF Sound, Spent
<1>15. CASE ~on
  BY <1>13, <1>15, <1>21 DEF Leveled, Stays
<1>16. CASE on /\ m1.count[a] # 0
  <2>1. acc.m = m1 /\ acc.on = FALSE
    BY <1>13, <1>16
  <2> QED BY <1>9, <1>14, <1>16, <1>21, <2>1 DEF Leveled, Ahead, Stays, Spent
<1>17. CASE on /\ m1.count[a] = 0 /\ IsStable(m1, a)
  <2>1. acc.m = m2 /\ acc.on = TRUE
    BY <1>13, <1>17
  <2>2. a \in Live(m) /\ Sound(m, a) => Sound(m2, Parent(m, a))
    BY <1>12, <1>14, <1>17
  <2> QED BY <1>9, <1>12, <1>17, <1>22, <2>1, <2>2 DEF Leveled, Ahead, Stays, Spent, Tallies
<1>18. CASE on /\ m1.count[a] = 0 /\ ~IsStable(m1, a)
  <2>1. acc.m = m1 /\ acc.on = TRUE
    BY <1>13, <1>18
  <2> QED BY <1>9, <1>14, <1>18, <1>21, <2>1 DEF Leveled, Ahead, Stays, Spent
<1> QED BY <1>15, <1>16, <1>17, <1>18

\* What decRunnableThreadCount has done up to a level
Descends(m, s, acc, p) ==
    /\ Murmur(m, acc.m) /\ Stays(m, acc.m) /\ Spared(m, acc.m)
    /\ s \in Live(m) \cup {Top} /\ Sound(m, s) => Sound(acc.m, Ahead(acc, p))

\* Where the machine is after i of the spaces in u, up to a, have been left
At(u, a, i) == IF i = Len(u) THEN a ELSE u[i + 1]

\* Each space on the way up leads to the next one.
LEMMA ClimbFacts ==
    ASSUME NEW m, NEW u, NEW s, NEW a, Climbs(m, u, s, a)
    PROVE  /\ Len(u) \in Nat /\ At(u, a, 0) = s /\ At(u, a, Len(u)) = a
           /\ \A i \in 1..Len(u) : /\ u[i] = At(u, a, i - 1) /\ Parent(m, u[i]) = At(u, a, i)
                                   /\ u[i] \in Below(m)
<1>1. PICK n \in Nat : n = Len(u) /\ \A i \in 1..n : u[i] \in Below(m)
  BY DEF Climbs
<1>2. At(u, a, 0) = s
  BY <1>1 DEF At, Climbs
<1>3. ASSUME NEW i \in 1..n PROVE u[i] = At(u, a, i - 1) /\ Parent(m, u[i]) = At(u, a, i)
  <2>1. u[i] = At(u, a, i - 1)
    BY <1>1 DEF At
  <2>2. CASE i = n
    BY <1>1, <2>1, <2>2 DEF At, Climbs
  <2>3. CASE i # n
    <3>1. i \in 1..(n - 1)
      BY <2>3
    <3> QED BY <1>1, <2>1, <2>3, <3>1 DEF At, Climbs
  <2> QED BY <2>2, <2>3
<1> QED BY <1>1, <1>2, <1>3 DEF At

\* decRunnableThreadCount only counts, and posts threads that look at stability.
LEMMA DecMurmurs ==
    ASSUME NEW m, WellRun(m), NEW s \in Standing(m), NEW k, k = Dec(m, s)
    PROVE  /\ Murmur(m, k) /\ Stays(m, k) /\ Spared(m, k)
           /\ s \in Live(m) \cup {Top} /\ Sound(m, s) => Sound(k, Top)
<1>1. PICK u : u = UpTo(m, s, Top)
  OBVIOUS
<1>2. PICK rank : Ranked(m, rank)
  BY DEF WellRun, Tree
<1>3. Climbs(m, u, s, Top)
  <2>1. Top \in Path(m, s)
    BY <1>2, PathFacts
  <2> QED BY <1>1, <1>2, <2>1, UpToClimbs
<1>4. PICK n \in Nat : n = Len(u) /\ \A i \in 1..n : u[i] \in Below(m)
  BY <1>3 DEF Climbs
<1>5. /\ At(u, Top, 0) = s /\ At(u, Top, n) = Top
      /\ \A i \in 1..n : u[i] = At(u, Top, i - 1) /\ Parent(m, u[i]) = At(u, Top, i)
  BY <1>3, <1>4, ClimbFacts
<1>6. s \in Live(m) \cup {Top} => \A i \in 1..n : u[i] \in Live(m)
  <2> SUFFICES ASSUME s \in Live(m) \cup {Top} PROVE \A i \in 1..n : u[i] \in Live(m)
    OBVIOUS
  <2>1. PICK S : S = {i \in 0..n : At(u, Top, i) \in Live(m) \cup {Top}}
    OBVIOUS
  <2>2. 0 \in S
    BY <1>5, <2>1
  <2>3. \A i \in 1..n : u[i] # Top
    BY <1>4 DEF Below
  <2>4. \A i \in 1..n : i - 1 \in S => i \in S
    <3> SUFFICES ASSUME NEW i \in 1..n, i - 1 \in S PROVE At(u, Top, i) \in Live(m) \cup {Top}
      BY <2>1
    <3>1. u[i] \in Live(m) /\ u[i] \in Below(m)
      BY <1>4, <1>5, <2>1, <2>3
    <3>2. Parent(m, u[i]) \in Path(m, u[i])
      <4>1. Parent(m, u[i]) \in Standing(m) /\ Path(m, u[i]) = {u[i]} \cup Path(m, Parent(m, u[i]))
        BY <3>1, OverParent
      <4>2. Parent(m, u[i]) \in Path(m, Parent(m, u[i]))
        BY <1>2, <4>1, PathFacts
      <4> QED BY <4>1, <4>2
    <3> QED BY <1>5, <3>1, <3>2, LivePath
  <2>5. PICK T : T = {i \in 0..n : \A j \in 0..i : j \in S}
    OBVIOUS
  <2>6. 0 \in T
    <3>1. \A j \in 0..0 : j = 0
      OBVIOUS
    <3> QED BY <2>2, <2>5, <3>1
  <2>7. \A i \in 1..n : i - 1 \in T => i \in T
    <3> SUFFICES ASSUME NEW i \in 1..n, i - 1 \in T, NEW j \in 0..i PROVE j \in S
      BY <2>5
    <3>1. j \in 0..(i - 1) \/ j = i
      OBVIOUS
    <3>2. i - 1 \in 0..(i - 1)
      OBVIOUS
    <3> QED BY <2>4, <2>5, <3>1, <3>2
  <2>8. n \in T
    BY <2>5, <2>6, <2>7, StepByStep
  <2> SUFFICES ASSUME NEW i \in 1..n PROVE u[i] \in Live(m)
    OBVIOUS
  <2>9. i - 1 \in 0..n
    OBVIOUS
  <2>10. At(u, Top, i - 1) \in Live(m) \cup {Top}
    BY <2>1, <2>5, <2>8, <2>9
  <2> QED BY <1>5, <2>3, <2>10
<1>7. PICK X : X = [i \in 0..n |-> {acc \in [m : Machine, on : BOOLEAN] : Descends(m, s, acc, At(u, Top, i))}]
  OBVIOUS
<1>8. \A i \in 0..n : \A acc : acc \in X[i] <=> /\ acc \in [m : Machine, on : BOOLEAN]
                                                /\ Descends(m, s, acc, At(u, Top, i))
  BY <1>7
<1>9. PICK b : b = [m |-> m, on |-> TRUE]
  OBVIOUS
<1>10. b \in X[0]
  <2>1. b.m = m /\ b.on = TRUE /\ b \in [m : Machine, on : BOOLEAN]
    BY <1>9 DEF WellRun
  <2>2. Descends(m, s, b, At(u, Top, 0))
    BY <1>5, <2>1, MurmurSelf DEF Descends, Ahead, Stays, Spared
  <2> QED BY <1>8, <2>1, <2>2
<1>11. PICK F : F = [p \in [m : Machine, on : BOOLEAN] \X (1..n) |-> DecLevel(p[1], u[p[2]])]
  OBVIOUS
<1>12. ASSUME NEW i \in 1..n, NEW acc \in X[i - 1] PROVE DecLevel(acc, u[i]) \in X[i]
  <2>1. i - 1 \in 0..n /\ i \in 0..n
    OBVIOUS
  <2>2. acc \in [m : Machine, on : BOOLEAN] /\ Descends(m, s, acc, At(u, Top, i - 1))
    BY <1>8, <2>1
  <2>3. PICK m1, on : acc = [m |-> m1, on |-> on] /\ m1 = acc.m /\ on = acc.on /\ on \in BOOLEAN
    <3>1. acc = [m |-> acc.m, on |-> acc.on] /\ acc.on \in BOOLEAN
      BY <2>2
    <3> QED BY <3>1
  <2>4. Murmur(m, m1) /\ WellRun(m1)
    BY <2>2, <2>3 DEF Murmur, Descends
  <2>5. m1.parent = m.parent /\ m1.status = m.status
    BY <2>4, MurmurCore DEF Murmur
  <2>6. u[i] \in Below(m1) /\ Parent(m1, u[i]) = Parent(m, u[i]) /\ Live(m1) = Live(m)
    BY <1>4, <2>5, SameSpaces DEF Live, IsAlive
  <2>7. PICK r : r = DecLevel(acc, u[i])
    OBVIOUS
  <2>8. r \in [m : Machine, on : BOOLEAN] /\ Murmur(m1, r.m)
    BY <2>3, <2>4, <2>6, <2>7, DecLevelMurmurs
  <2>14. r = DecLevel([m |-> m1, on |-> on], u[i])
    BY <2>3, <2>7
  <2>15. WellRun(m1)
    BY <2>4
  <2>16. on \in BOOLEAN
    BY <2>3
  <2>17. u[i] \in Below(m1)
    BY <2>6
  <2>9. /\ Stays(m1, r.m) /\ Spared(m1, r.m)
        /\ ~on => r.m = m1 /\ r.on = FALSE
        /\ on /\ u[i] \in Live(m1) /\ Sound(m1, u[i]) => Sound(r.m, Ahead(r, Parent(m1, u[i])))
    <3>1. Leveled(m1, on, u[i], r)
      BY <2>14, <2>15, <2>16, <2>17, DecLevelTallies
    <3> QED BY <3>1 DEF Leveled
  <2>10. s \in Live(m) \cup {Top} /\ Sound(m, s) => Sound(r.m, Ahead(r, At(u, Top, i)))
    <3> SUFFICES ASSUME s \in Live(m) \cup {Top}, Sound(m, s) PROVE Sound(r.m, Ahead(r, At(u, Top, i)))
      OBVIOUS
    <3>1. Sound(m1, Ahead(acc, u[i]))
      BY <1>5, <2>2, <2>3 DEF Descends
    <3>2. CASE on
      <4>1. Sound(m1, u[i]) /\ u[i] \in Live(m1)
        BY <1>6, <2>3, <2>6, <3>1, <3>2 DEF Ahead
      <4>2. Parent(m1, u[i]) = At(u, Top, i)
        BY <1>5, <2>6
      <4>3. Sound(r.m, Ahead(r, Parent(m1, u[i])))
        BY <2>9, <3>2, <4>1
      <4> QED BY <4>2, <4>3
    <3>3. CASE ~on
      <4>1. Sound(m1, Top)
        BY <2>3, <3>1, <3>3 DEF Ahead
      <4>2. Ahead(r, At(u, Top, i)) = Top /\ r.m = m1
        BY <2>9, <3>3 DEF Ahead
      <4> QED BY <4>1, <4>2
    <3> QED BY <2>3, <3>2, <3>3
  <2>11. Murmur(m, r.m)
    BY <2>4, <2>8, MurmurOn
  <2>12. Stays(m, r.m)
    BY <2>2, <2>3, <2>9, StaysOn DEF Descends
  <2>18. Spared(m, r.m)
    BY <2>2, <2>3, <2>9, SparedOn DEF Descends
  <2>13. Descends(m, s, r, At(u, Top, i))
    BY <2>9, <2>10, <2>11, <2>12, <2>18 DEF Descends
  <2> QED BY <1>8, <2>1, <2>7, <2>8, <2>13
<1>13. \A i \in 1..n : \A x \in X[i - 1] : F[<<x, i>>] = DecLevel(x, u[i]) /\ F[<<x, i>>] \in X[i]
  <2> SUFFICES ASSUME NEW i \in 1..n, NEW x \in X[i - 1]
               PROVE  F[<<x, i>>] = DecLevel(x, u[i]) /\ F[<<x, i>>] \in X[i]
    OBVIOUS
  <2>1. i - 1 \in 0..n
    OBVIOUS
  <2>2. x \in [m : Machine, on : BOOLEAN]
    BY <1>8, <2>1
  <2>3. F[<<x, i>>] = DecLevel(x, u[i])
    BY <1>11, <2>2
  <2> QED BY <1>12, <2>3
<1>14. ClosedTo(F, X, n)
  BY <1>13 DEF ClosedTo
<1>15. PICK f : Reaches(f, F, b, X, n)
  BY <1>10, <1>14, IterateTo
<1>16. f = [i \in 0..n |-> IF i = 0 THEN b ELSE DecLevel(f[i - 1], u[i])]
  <2>1. /\ f = [i \in 0..n |-> f[i]] /\ f[0] = b
        /\ \A i \in 1..n : f[i - 1] \in X[i - 1] /\ f[i] = F[<<f[i - 1], i>>]
    BY <1>15 DEF Reaches
  <2>2. \A i \in 1..n : f[i] = DecLevel(f[i - 1], u[i])
    BY <1>13, <2>1
  <2>3. ASSUME NEW i \in 0..n PROVE f[i] = IF i = 0 THEN b ELSE DecLevel(f[i - 1], u[i])
    <3>1. CASE i = 0
      BY <2>1, <3>1
    <3>2. CASE i # 0
      <4>1. i \in 1..n
        BY <3>2
      <4>2. f[i] = DecLevel(f[i - 1], u[i])
        BY <2>2, <4>1
      <4> QED BY <3>2, <4>2
    <3> QED BY <3>1, <3>2
  <2>4. [i \in 0..n |-> f[i]] = [i \in 0..n |-> IF i = 0 THEN b ELSE DecLevel(f[i - 1], u[i])]
    BY <2>3
  <2> QED BY <2>1, <2>4
<1>17. PICK h : h = CHOOSE e : e = [i \in 0..n |-> IF i = 0 THEN b ELSE DecLevel(e[i - 1], u[i])]
  OBVIOUS
<1>18. h = [i \in 0..n |-> IF i = 0 THEN b ELSE DecLevel(h[i - 1], u[i])]
  BY <1>16, <1>17
<1>19. FollowsTo(h, F, b, X, n)
  <2>1. h[0] = b
    BY <1>18
  <2>2. \A i \in 1..n : h[i] = DecLevel(h[i - 1], u[i])
    BY <1>18
  <2> QED BY <1>13, <2>1, <2>2 DEF FollowsTo
<1>20. h[n] \in X[n]
  BY <1>10, <1>14, <1>19, StaysInTo
<1>21. k = h[n].m
  BY <1>1, <1>4, <1>9, <1>17 DEF Dec, Through, UpFrom
<1>22. Descends(m, s, h[n], Top)
  <2>1. n \in 0..n
    OBVIOUS
  <2> QED BY <1>5, <1>8, <1>20, <2>1
<1>23. Ahead(h[n], Top) = Top
  BY DEF Ahead
<1> QED BY <1>21, <1>22, <1>23 DEF Descends

-----------------------------------------------------------------------------
(* What wakes threads *)

\* A thread that is woken is at most resumed.
LEMMA WakeUpFrame ==
    ASSUME NEW m \in Machine, NEW t \in Threads, NEW k, k = WakeUp(m, t)
    PROVE  Agree(m, k, {"runnable", "count"}) /\ m.runnable \subseteq k.runnable
<1>1. CASE t \in m.runnable \cup m.terminated
  BY <1>1 DEF WakeUp, Agree
<1>2. CASE t \notin m.runnable \cup m.terminated
  <2>1. k = Resume(m, t)
    BY <1>2 DEF WakeUp
  <2> QED BY <2>1, ResumeFrame
<1> QED BY <1>1, <1>2

\* A thread that can be resumed is counted when it is woken.
LEMMA WakeUpTallies ==
    ASSUME NEW m, WellRun(m), NEW t, NEW k, k = WakeUp(m, t),
           t \notin m.runnable /\ t \notin m.terminated => Resumable(m, t)
    PROVE  Tallies(m, k)
<1>1. CASE t \in m.runnable \cup m.terminated
  BY <1>1, TalliesSelf DEF WakeUp
<1>2. CASE t \notin m.runnable \cup m.terminated
  <2>1. k = Resume(m, t)
    BY <1>2 DEF WakeUp
  <2>2. Resumable(m, t)
    BY <1>2
  <2> QED BY <2>1, <2>2, ResumeTallies
<1> QED BY <1>1, <1>2

\* wakeUpPendings wakes the threads of a suspension list, one after the other.
LEMMA WakeUpPendingsMurmurs ==
    ASSUME NEW m, WellRun(m), NEW w \in Waitees
    PROVE  /\ Murmur(m, WakeUpPendings(m, w)) /\ WakeUpPendings(m, w).at = m.at
           /\ Tallies(m, WakeUpPendings(m, w))
           /\ WakeUpPendings(m, w).kind = m.kind
<1>1. m \in Machine /\ m.pendings \in [Waitees -> SUBSET Threads]
  BY DEF WellRun, Machine
<1>2. PICK p : p = [m.pendings EXCEPT ![w] = {}]
  OBVIOUS
<1>3. p \in [Waitees -> SUBSET Threads] /\ \A x \in Waitees : p[x] \subseteq m.pendings[x]
  BY <1>1, <1>2
<1>4. PICK b : b = [m EXCEPT !.pendings = p]
  OBVIOUS
<1>5. \A x \in Waitees : \A t \in p[x] : m.at[t] # None
  BY <1>3 DEF WellRun, Placed
<1>6. Murmur(m, b) /\ b.at = m.at /\ b.kind = m.kind /\ b.pendings = p
  BY <1>1, <1>3, <1>4, <1>5, PendingsMurmur DEF Machine
<1>24. Tallies(m, b)
  <2>1. Agree(m, b, {"pendings"})
    BY <1>1, <1>4 DEF Machine, Agree, Fields
  <2>2. /\ b.parent = m.parent /\ b.status = m.status /\ b.count = m.count
        /\ b.runnable = m.runnable /\ b.running = m.running
        /\ b.at = m.at /\ b.kind = m.kind
    BY <2>1 DEF Agree, Fields
  <2>3. \A x \in Waitees : b.pendings[x] \subseteq m.pendings[x]
    BY <1>3, <1>6
  <2>4. Alike(m, b)
    BY <2>2, <2>3 DEF Alike, Spent
  <2> QED BY <2>4, AlikeTallies
<1>7. PICK woken : woken = {t \in m.pendings[w] : IsAncestor(m, m.space, SpaceOf(m, t))}
  OBVIOUS
<1>8. PICK u : u = SetToSeq(woken)
  OBVIOUS
<1>9. /\ woken \subseteq Threads /\ woken \subseteq m.pendings[w]
      /\ \A t \in woken : m.at[t] # None
      /\ u \in Seq(woken)
  <2>1. woken \subseteq Threads /\ \A t \in woken : m.at[t] # None
    BY <1>1, <1>7 DEF WellRun, Placed
  <2>2. IsFiniteSet(woken)
    BY <2>1, ThreadsFinite, FS_Subset
  <2> QED BY <1>7, <1>8, <2>1, <2>2, SetToSeqFacts
<1>10. PICK n \in Nat : n = Len(u) /\ \A i \in 1..n : u[i] \in woken
  BY <1>9
<1>11. PICK X : X = {x \in Machine : /\ Murmur(m, x) /\ Tallies(m, x)
                                      /\ x.at = m.at /\ x.kind = m.kind /\ x.pendings = p}
  OBVIOUS
<1>12. b \in X
  BY <1>6, <1>11, <1>24 DEF Murmur, WellRun
<1>13. ASSUME NEW x \in X, NEW t \in woken PROVE WakeUp(x, t) \in X
  <2>1. /\ WellRun(x) /\ Murmur(m, x) /\ Tallies(m, x) /\ t \in Threads
        /\ x.at = m.at /\ x.kind = m.kind /\ x.pendings = p
    BY <1>9, <1>11 DEF Murmur
  <2>2. x.at[t] # None
    BY <1>9, <2>1 DEF Murmur
  <2>3. PICK k : k = WakeUp(x, t)
    OBVIOUS
  <2>4. Murmur(x, k) /\ k.at = m.at /\ k \in Machine
    BY <2>1, <2>2, <2>3, WakeUpMurmurs DEF Murmur, WellRun
  <2>5. ASSUME Books(m, Top), t \notin x.runnable, t \notin x.terminated PROVE Resumable(x, t)
    <3>1. t \in m.pendings[w]
      BY <1>9
    <3>2. x.kind[t] # "none"
      BY <2>1, <2>5, <3>1 DEF Books, Scheduled
    <3>3. \A z \in Waitees : z # w => p[z] = m.pendings[z]
      BY <1>1, <1>2
    <3>4. p[w] = {}
      BY <1>1, <1>2
    <3>5. t \in OzThreads => \A z \in Waitees : t \notin p[z]
      BY <2>5, <3>1, <3>3, <3>4 DEF Books, Queued
    <3> QED BY <2>1, <2>2, <2>5, <3>2, <3>5 DEF Resumable
  <2>6. Agree(x, k, {"runnable", "count"}) /\ x.runnable \subseteq k.runnable
    BY <2>1, <2>3, WakeUpFrame DEF WellRun
  <2>7. Books(m, Top) => Tallies(x, k)
    BY <2>1, <2>3, <2>5, WakeUpTallies
  <2>8. k.kind = x.kind /\ k.pendings = x.pendings
    BY <2>6 DEF Agree, Fields
  <2>9. Spent(x) => Spent(k)
    BY <2>8 DEF Spent
  <2>10. Tallies(m, k)
    <3>1. Stays(x, k)
      <4>1. k.at = x.at
        BY <2>6 DEF Agree, Fields
      <4> QED BY <2>6, <2>9, <4>1 DEF Stays
    <3>2. Stays(m, k)
      BY <2>1, <3>1, StaysOn DEF Tallies
    <3>3. Spent(m) => Sound(k, Top)
      BY <3>2 DEF Stays, Sound
    <3>4. Books(m, Top) => Sound(k, Top)
      BY <2>1, <2>7 DEF Sound, Tallies
    <3> QED BY <3>2, <3>3, <3>4 DEF Tallies, Sound
  <2>11. Murmur(m, k)
    BY <2>1, <2>4, MurmurOn
  <2> QED BY <1>11, <2>1, <2>3, <2>4, <2>8, <2>10, <2>11
<1>14. PICK F : F = [q \in X \X (1..n) |-> WakeUp(q[1], u[q[2]])]
  OBVIOUS
<1>15. \A x \in X : \A i \in 1..n : F[<<x, i>>] = WakeUp(x, u[i]) /\ F[<<x, i>>] \in X
  BY <1>10, <1>13, <1>14
<1>16. Closed(F, X, n)
  BY <1>15 DEF Closed
<1>17. PICK g : Iterates(g, F, b, X, n)
  BY <1>12, <1>16, Iterate
<1>18. g = [i \in 0..n |-> IF i = 0 THEN b ELSE WakeUp(g[i - 1], u[i])]
  <2>1. g \in [0..n -> X] /\ g[0] = b /\ \A i \in 1..n : g[i] = F[<<g[i - 1], i>>]
    BY <1>17 DEF Iterates
  <2>2. \A i \in 1..n : i - 1 \in 0..n
    OBVIOUS
  <2>3. \A i \in 1..n : g[i] = WakeUp(g[i - 1], u[i])
    BY <1>15, <2>1, <2>2
  <2> QED BY <2>1, <2>3
<1>19. PICK h : h = CHOOSE f : f = [i \in 0..n |-> IF i = 0 THEN b ELSE WakeUp(f[i - 1], u[i])]
  OBVIOUS
<1>20. h = [i \in 0..n |-> IF i = 0 THEN b ELSE WakeUp(h[i - 1], u[i])]
  BY <1>18, <1>19
<1>21. Follows(h, F, b, X, n)
  <2>1. h[0] = b
    BY <1>20
  <2>2. \A i \in 1..n : h[i] = WakeUp(h[i - 1], u[i])
    BY <1>20
  <2> QED BY <1>15, <2>1, <2>2 DEF Follows
<1>22. h[n] \in X
  BY <1>12, <1>16, <1>21, StaysIn
<1>23. WakeUpPendings(m, w) = h[n]
  <2>1. WakeUpPendings(m, w) = Through(WakeUp, b, u)
    BY <1>2, <1>4, <1>7, <1>8 DEF WakeUpPendings
  <2>2. Through(WakeUp, b, u) = h[n]
    BY <1>10, <1>19 DEF Through
  <2> QED BY <2>1, <2>2
<1> QED BY <1>11, <1>22, <1>23

\* bindStatusVar gives an answer, and wakes those who asked.
LEMMA BindStatusVarMurmurs ==
    ASSUME NEW m, WellRun(m), NEW s \in SubSpaces, NEW a \in Answers
    PROVE  Murmur(m, BindStatusVar(m, s, a)) /\ Tallies(m, BindStatusVar(m, s, a))
<1>1. m \in Machine /\ StatusVar(s) \in Waitees
  BY Sets DEF WellRun
<1>2. CASE CanAnswer(m, s)
  <2>1. PICK o : o = [m.answer EXCEPT ![s] = a]
    OBVIOUS
  <2>2. o \in [SubSpaces -> Answers]
    BY <1>1, <2>1 DEF Machine
  <2>3. PICK m1 : m1 = [m EXCEPT !.answer = o]
    OBVIOUS
  <2>4. m1 \in Machine /\ Agree(m, m1, {"answer"})
    BY <1>1, <2>2, <2>3 DEF Machine, Agree, Fields
  <2>5. Murmur(m, m1) /\ WellRun(m1) /\ Tallies(m, m1)
    <3>1. Agree(m, m1, Silent) /\ Agree(m, m1, Quiet)
      BY <2>4 DEF Agree, Silent, Quiet
    <3> QED BY <2>4, <3>1, SilentMurmur, QuietTallies DEF Murmur
  <2>6. /\ Murmur(m1, WakeUpPendings(m1, StatusVar(s)))
        /\ Tallies(m1, WakeUpPendings(m1, StatusVar(s)))
    BY <1>1, <2>5, WakeUpPendingsMurmurs
  <2>7. BindStatusVar(m, s, a) = WakeUpPendings(m1, StatusVar(s))
    BY <1>2, <2>1, <2>3 DEF BindStatusVar
  <2> QED BY <2>5, <2>6, <2>7, MurmurOn, TalliesOn
<1>3. CASE ~CanAnswer(m, s)
  <2>1. PICK m1 : m1 = [m EXCEPT !.rebound = TRUE]
    OBVIOUS
  <2>2. m1 \in Machine /\ Agree(m, m1, {"rebound"})
    BY <1>1, <2>1 DEF Machine, Agree, Fields
  <2>3. BindStatusVar(m, s, a) = m1
    BY <1>3, <2>1 DEF BindStatusVar
  <2>4. Agree(m, m1, Silent) /\ Agree(m, m1, Quiet)
    BY <2>2 DEF Agree, Silent, Quiet
  <2> QED BY <2>2, <2>3, <2>4, SilentMurmur, QuietTallies
<1> QED BY <1>2, <1>3

\* The status variable says that a space is suspended, and only that changes.
LEMMA SuspendedMurmurs ==
    ASSUME NEW m, WellRun(m), NEW s \in SubSpaces
    PROVE  Murmur(m, Suspended(m, s)) /\ Tallies(m, Suspended(m, s))
<1>1. PICK m1 : m1 = WakeUpPendings(m, StatusVar(s))
  OBVIOUS
<1>2. Murmur(m, m1) /\ WellRun(m1) /\ m1 \in Machine /\ Tallies(m, m1)
  <2>1. StatusVar(s) \in Waitees
    BY Sets
  <2>2. Murmur(m, m1) /\ Tallies(m, m1)
    BY <1>1, <2>1, WakeUpPendingsMurmurs
  <2> QED BY <2>2 DEF Murmur, WellRun
<1>3. PICK o : o = [t \in Threads |-> IF m1.waits[t] = StatusVar(s) THEN None ELSE m1.waits[t]]
  OBVIOUS
<1>4. o \in [Threads -> Waitees \cup {None}]
  BY <1>2, <1>3 DEF Machine
<1>5. PICK m2 : m2 = [m1 EXCEPT !.waits = o]
  OBVIOUS
<1>6. m2 \in Machine /\ Agree(m1, m2, {"waits"})
  BY <1>2, <1>4, <1>5 DEF Machine, Agree, Fields
<1>7. Murmur(m1, m2) /\ Tallies(m1, m2)
  <2>1. Agree(m1, m2, Silent) /\ Agree(m1, m2, Quiet)
    BY <1>6 DEF Agree, Silent, Quiet
  <2> QED BY <1>2, <1>6, <2>1, SilentMurmur, QuietTallies
<1>8. Suspended(m, s) = m2
  BY <1>1, <1>3, <1>5 DEF Suspended
<1> QED BY <1>2, <1>7, <1>8, MurmurOn, TalliesOn

\* addToSuspendList changes these.
LEMMA SuspendFrame ==
    ASSUME NEW m \in Machine, NEW w, NEW t, NEW k, k = AddToSuspendList(m, w, t)
    PROVE  /\ Agree(m, k, {"pendings", "optimized", "home"})
           /\ k.pendings = [m.pendings EXCEPT ![w] = @ \cup {t}]
<1>1. PICK p : p = [m.pendings EXCEPT ![w] = @ \cup {t}]
  OBVIOUS
<1>2. PICK o : o = [m.optimized EXCEPT ![w] = FALSE]
  OBVIOUS
<1>3. PICK h : h = [m.home EXCEPT ![w] = m.space]
  OBVIOUS
<1>4. k = [m EXCEPT !.pendings = p] \/ k = [m EXCEPT !.pendings = p, !.optimized = o, !.home = h]
  BY <1>1, <1>2, <1>3 DEF AddToSuspendList, Machine
<1>5. CASE k = [m EXCEPT !.pendings = p]
  BY <1>1, <1>5 DEF Machine, Agree, Fields
<1>6. CASE k = [m EXCEPT !.pendings = p, !.optimized = o, !.home = h]
  BY <1>1, <1>6 DEF Machine, Agree, Fields
<1> QED BY <1>4, <1>5, <1>6

\* A thread of the machine can wait for several things.
LEMMA SuspendTallies ==
    ASSUME NEW m \in Machine, NEW w \in Waitees, NEW t \in Helpers, m.kind[t] # "none",
           NEW k, k = AddToSuspendList(m, w, t)
    PROVE  Tallies(m, k) /\ k.kind = m.kind
<1>1. /\ Agree(m, k, {"pendings", "optimized", "home"})
      /\ k.pendings = [m.pendings EXCEPT ![w] = @ \cup {t}]
  BY SuspendFrame
<1>2. /\ k.parent = m.parent /\ k.status = m.status /\ k.count = m.count
      /\ k.runnable = m.runnable /\ k.running = m.running
      /\ k.at = m.at /\ k.kind = m.kind
  BY <1>1 DEF Agree, Fields
<1>3. \A z \in Waitees : k.pendings[z] \subseteq m.pendings[z] \cup {t}
  BY <1>1 DEF Machine
<1>4. \A z \in Waitees : \A u \in k.pendings[z] : u \in m.pendings[z] \/ u = t
  BY <1>3
<1>5. Alike(m, k)
  BY <1>2, <1>4 DEF Alike, Spent
<1> QED BY <1>2, <1>5, AlikeTallies

\* A DummyThread waits for what the current space has constrained.
LEMMA PropagateOnMurmurs ==
    ASSUME NEW m, WellRun(m), NEW d, d = FreeHelper(m), NEW s \in Below(m)
    PROVE  Murmur(m, PropagateOn(m, d, s)) /\ Tallies(m, PropagateOn(m, d, s))
<1>1. /\ m \in Machine /\ d \in Threads /\ d \in Helpers
      /\ s # Top /\ s \in Created(m) /\ s \in SubSpaces
  BY FreeHelperIsHelper, Sets DEF WellRun, Below, Standing, Created, Spaces
<1>2. PICK b : b = New(m, d, "dummy", s)
  OBVIOUS
<1>3. Murmur(m, b) /\ b.at[d] = s /\ s # None /\ b \in Machine
  BY <1>1, <1>2, NewMurmurs DEF Murmur, WellRun
<1>19. Tallies(m, b) /\ b.kind[d] = "dummy"
  <2>1. Tallies(m, b)
    BY <1>2, NewTallies
  <2>2. b.kind = [m.kind EXCEPT ![d] = "dummy"]
    BY <1>1, <1>2 DEF New, Machine
  <2>3. b.kind[d] = "dummy"
    BY <1>1, <2>2 DEF Machine
  <2> QED BY <2>1, <2>3
<1>4. PICK u : u = m.trail[s]
  OBVIOUS
<1>5. PICK n \in Nat : n = Len(u) /\ \A i \in 1..n : u[i] \in Waitees
  <2>1. u \in Seq(Store)
    BY <1>1, <1>4 DEF Machine
  <2> QED BY <2>1, Sets
<1>6. PICK X : X = {x \in Machine : /\ Murmur(m, x) /\ Tallies(m, x)
                                    /\ x.at[d] # None /\ x.kind[d] = "dummy"}
  OBVIOUS
<1>7. b \in X
  BY <1>3, <1>6, <1>19
<1>8. ASSUME NEW x \in X, NEW v \in Waitees PROVE AddToSuspendList(x, v, d) \in X
  <2>1. /\ WellRun(x) /\ x \in Machine /\ Murmur(m, x) /\ Tallies(m, x)
        /\ x.at[d] # None /\ x.kind[d] = "dummy"
    BY <1>6 DEF Murmur
  <2>2. PICK k : k = AddToSuspendList(x, v, d)
    OBVIOUS
  <2>3. Murmur(x, k)
    BY <1>1, <2>1, <2>2, SuspendMurmurs
  <2>4. Tallies(x, k) /\ k.kind = x.kind
    <3>1. x.kind[d] # "none"
      BY <2>1
    <3> QED BY <1>1, <2>1, <2>2, <3>1, SuspendTallies
  <2>5. k \in Machine /\ k.at[d] # None
    BY <1>1, <2>1, <2>3 DEF Murmur, WellRun
  <2>6. Murmur(m, k) /\ Tallies(m, k)
    BY <2>1, <2>3, <2>4, MurmurOn, TalliesOn
  <2> QED BY <1>6, <2>1, <2>2, <2>4, <2>5, <2>6
<1>9. PICK F : F = [q \in X \X (1..n) |-> AddToSuspendList(q[1], u[q[2]], d)]
  OBVIOUS
<1>10. \A x \in X : \A i \in 1..n : F[<<x, i>>] = AddToSuspendList(x, u[i], d) /\ F[<<x, i>>] \in X
  BY <1>5, <1>8, <1>9
<1>11. Closed(F, X, n)
  BY <1>10 DEF Closed
<1>12. PICK g : Iterates(g, F, b, X, n)
  BY <1>7, <1>11, Iterate
<1>13. g = [i \in 0..n |-> IF i = 0 THEN b ELSE AddToSuspendList(g[i - 1], u[i], d)]
  <2>1. g \in [0..n -> X] /\ g[0] = b /\ \A i \in 1..n : g[i] = F[<<g[i - 1], i>>]
    BY <1>12 DEF Iterates
  <2>2. \A i \in 1..n : i - 1 \in 0..n
    OBVIOUS
  <2>3. \A i \in 1..n : g[i] = AddToSuspendList(g[i - 1], u[i], d)
    BY <1>10, <2>1, <2>2
  <2> QED BY <2>1, <2>3
<1>14. PICK h : h = CHOOSE f : f = [i \in 0..n |-> IF i = 0 THEN b
                                                  ELSE AddToSuspendList(f[i - 1], u[i], d)]
  OBVIOUS
<1>15. h = [i \in 0..n |-> IF i = 0 THEN b ELSE AddToSuspendList(h[i - 1], u[i], d)]
  BY <1>13, <1>14
<1>16. Follows(h, F, b, X, n)
  <2>1. h[0] = b
    BY <1>15
  <2>2. \A i \in 1..n : h[i] = AddToSuspendList(h[i - 1], u[i], d)
    BY <1>15
  <2> QED BY <1>10, <2>1, <2>2 DEF Follows
<1>17. h[n] \in X
  BY <1>7, <1>11, <1>16, StaysIn
<1>18. PropagateOn(m, d, s) = h[n]
  BY <1>2, <1>4, <1>5, <1>14 DEF PropagateOn, Through
<1> QED BY <1>6, <1>17, <1>18

-----------------------------------------------------------------------------
(* Where constraints are: the inductive invariant *)

\* g is the history: told and killed, and the threads that have ended.  h is the
\* space that is being installed, if any.
Histories == [told : [Spaces -> SUBSET (Vars \X Values)],
              killed : SUBSET SubSpaces, ended : SUBSET OzThreads]

\* Variables of the program belong to the top-level space.
Homes(m) == \A v \in Vars : ~m.optimized[v] /\ m.home[v] = Top

\* Spaces that are installed have a trail, others a script.
Installed(m, h) ==
    /\ m.status[m.space] = "normal" /\ \A a \in Current(m) : m.status[a] = "normal"
    /\ \A s \in SubSpaces : m.trail[s] # << >> => s \in Current(m)
    /\ \A s \in SubSpaces \ {h} : m.script[s] # << >> => s \notin Current(m)

\* A variable is in one trail at most, where it was told and not above.
Trails(m, g) ==
    \A s \in SubSpaces : \A v \in ToSet(m.trail[s]) :
        /\ m.bound[v] # None
        /\ \A r \in SubSpaces : v \in ToSet(m.trail[r]) => r = s
        /\ v \in Vars => /\ <<v, m.bound[v]>> \in g.told[s]
                         /\ \A a \in Over(m, s) : \A c \in g.told[a] : c[1] # v

\* A variable that is bound was told at the top, or is in a trail.
Bindings(m, g) ==
    /\ \A v \in Vars : /\ m.bound[v] \in Values \cup {None}
                       /\ m.bound[v] # None => \/ <<v, m.bound[v]>> \in g.told[Top]
                                               \/ \E s \in SubSpaces : v \in ToSet(m.trail[s])
    /\ \A t \in OzThreads : /\ m.bound[DoneVar(t)] \in {None, "unit"}
                            /\ t \notin g.ended => m.bound[DoneVar(t)] = None

\* What was told where the machine is can be seen.
Visible(m, g, h) ==
    \A a \in Current(m) \ {h} : \A c \in g.told[a] : m.bound[c[1]] = c[2]

\* Scripts do not contradict themselves, and say nothing that was not told.
Scripts(m, g) ==
    \A s \in SubSpaces : \A c \in ToSet(m.script[s]) :
        /\ c[1] \in Vars => c \in g.told[s]
        /\ \A t \in OzThreads : c[1] = DoneVar(t) => c[2] = "unit" /\ t \in g.ended
        /\ \A e \in ToSet(m.script[s]) : e[1] = c[1] => e[2] = c[2]

\* What was told to other spaces is in their scripts, unless it was told above.
Hidden(m, g) ==
    \A s \in SubSpaces \ Current(m) : m.status[s] = "normal" =>
        \A c \in g.told[s] : c \in ToSet(m.script[s]) \/ \E a \in Over(m, s) : c \in g.told[a]

\* Spaces fail for a reason.
Contradict(g, S) ==
    \E a, b \in S : \E c \in g.told[a] : \E d \in g.told[b] : c[1] = d[1] /\ c[2] # d[2]
Failures(m, g) ==
    /\ \A s \in g.killed : m.status[s] = "failed"
    /\ \A s \in SubSpaces : m.status[s] = "failed" =>
          Path(m, s) \cap g.killed # {} \/ Contradict(g, Path(m, s))

\* Spaces that have not been created are empty.
Unborn(m, g) ==
    \A s \in SubSpaces : m.status[s] = "none" =>
        m.trail[s] = << >> /\ m.script[s] = << >> /\ g.told[s] = {}

\* All that is known of constraints
Core(m, g, h) ==
    /\ Homes(m) /\ Installed(m, h) /\ Trails(m, g) /\ Bindings(m, g) /\ Visible(m, g, h)
    /\ Scripts(m, g) /\ Hidden(m, g) /\ Failures(m, g) /\ Unborn(m, g)

\* The running thread is where the machine is.
RunsHere(m) == m.running # None => SpaceOf(m, m.running) = m.space

\* The inductive invariant
Past(tl, kl, m) == [told |-> tl, killed |-> kl, ended |-> m.terminated \cap OzThreads]
Holds(m, tl, kl) ==
    /\ WellRun(m) /\ Past(tl, kl, m) \in Histories /\ Core(m, Past(tl, kl, m), None)
    /\ RunsHere(m)
IInv == Holds(vm, told, killed)

-----------------------------------------------------------------------------
(* Sequences as sets *)

\* Trails and scripts, as the sets of what is in them.
LEMMA ToSetFacts ==
    /\ ToSet(<< >>) = {}
    /\ \A S : \A q \in Seq(S) : /\ q # << >> <=> ToSet(q) # {}
                                /\ ToSet(q) \subseteq S
                                /\ ToSet(q) = {q[i] : i \in 1..Len(q)}
                                /\ \A e \in S : ToSet(Append(q, e)) = ToSet(q) \cup {e}
<1>1. ToSet(<< >>) = {}
  BY DEF ToSet
<1>2. ASSUME NEW S, NEW q \in Seq(S)
      PROVE  /\ q # << >> <=> ToSet(q) # {}
             /\ ToSet(q) \subseteq S
             /\ ToSet(q) = {q[i] : i \in 1..Len(q)}
  <2>1. PICK n \in Nat : n = Len(q) /\ DOMAIN q = 1..n /\ \A i \in 1..n : q[i] \in S
    OBVIOUS
  <2>2. ToSet(q) = {q[i] : i \in 1..n}
    BY <2>1 DEF ToSet
  <2>3. q # << >> => 1 \in 1..n
    BY <2>1
  <2>4. q = << >> => n = 0
    BY <2>1
  <2> QED BY <2>1, <2>2, <2>3, <2>4
<1>3. ASSUME NEW S, NEW q \in Seq(S), NEW e \in S PROVE ToSet(Append(q, e)) = ToSet(q) \cup {e}
  <2>1. PICK n \in Nat : n = Len(q) /\ DOMAIN q = 1..n
    OBVIOUS
  <2>2. PICK r : r = Append(q, e)
    OBVIOUS
  <2>3. DOMAIN r = 1..(n + 1) /\ r[n + 1] = e /\ \A i \in 1..n : r[i] = q[i]
    BY <2>1, <2>2
  <2>4. 1..n \subseteq 1..(n + 1) /\ n + 1 \in 1..(n + 1) /\ \A i \in 1..(n + 1) : i = n + 1 \/ i \in 1..n
    OBVIOUS
  <2>5. ToSet(r) = {r[i] : i \in 1..(n + 1)} /\ ToSet(q) = {q[i] : i \in 1..n}
    BY <2>1, <2>3 DEF ToSet
  <2> QED BY <2>2, <2>3, <2>4, <2>5
<1> QED BY <1>1, <1>2, <1>3

-----------------------------------------------------------------------------
(* Calls that leave the constraints alone *)

\* A call that murmurs keeps what is known of constraints.
LEMMA MurmurKeeps ==
    ASSUME NEW m, NEW m2, Murmur(m, m2), NEW g, NEW h, Core(m, g, h)
    PROVE  Core(m2, g, h)
<1>1. /\ m2.space = m.space /\ m2.parent = m.parent /\ m2.status = m.status
      /\ m2.trail = m.trail /\ m2.script = m.script /\ m2.bound = m.bound
  BY MurmurCore DEF Murmur
<1>2. \A s : Path(m2, s) = Path(m, s)
  BY <1>1, SameSpaces
<1>3. Current(m2) = Current(m)
  BY <1>1, <1>2 DEF Current
<1>4. \A s : Over(m2, s) = Over(m, s)
  BY <1>2 DEF Over
<1>5. Homes(m2)
  BY DEF Murmur, Core, Homes
<1>6. Installed(m2, h)
  BY <1>1, <1>3 DEF Core, Installed
<1>7. Trails(m2, g)
  BY <1>1, <1>4 DEF Core, Trails
<1>8. Bindings(m2, g)
  BY <1>1 DEF Core, Bindings
<1>9. Visible(m2, g, h)
  BY <1>1, <1>3 DEF Core, Visible
<1>10. Scripts(m2, g)
  BY <1>1 DEF Core, Scripts
<1>11. Hidden(m2, g)
  BY <1>1, <1>3, <1>4 DEF Core, Hidden
<1>12. Failures(m2, g)
  BY <1>1, <1>2 DEF Core, Failures
<1>13. Unborn(m2, g)
  BY <1>1 DEF Core, Unborn
<1> QED BY <1>5, <1>6, <1>7, <1>8, <1>9, <1>10, <1>11, <1>12, <1>13 DEF Core

\* What no call changes but those of the program: threads and spaces are where they
\* were, and spaces may fail.
Steady(m, m2) ==
    /\ WellRun(m2)
    /\ m2.running = m.running /\ m2.parent = m.parent
    /\ \A s \in Spaces :
          m2.status[s] = m.status[s] \/ (m.status[s] = "normal" /\ m2.status[s] = "failed")
    /\ \A t \in OzThreads : /\ m2.kind[t] = m.kind[t] /\ m2.at[t] = m.at[t]
                            /\ t \in m2.terminated <=> t \in m.terminated
    /\ \A t \in Threads : m.at[t] # None => m2.at[t] # None

\* A call that murmurs is one of those.
LEMMA MurmurSteady == ASSUME NEW m, NEW m2, Murmur(m, m2) PROVE Steady(m, m2)
<1>1. m2.parent = m.parent /\ m2.status = m.status /\ m2.running = m.running
  BY MurmurCore DEF Murmur
<1>2. WellRun(m2)
  BY DEF Murmur
<1>3. /\ \A t \in OzThreads : /\ m2.kind[t] = m.kind[t] /\ m2.at[t] = m.at[t]
                              /\ t \in m2.terminated <=> t \in m.terminated
      /\ \A t \in Threads : m.at[t] # None => m2.at[t] # None
  BY DEF Murmur
<1> QED BY <1>1, <1>2, <1>3 DEF Steady

\* Such calls can follow one another.
LEMMA SteadyOn ==
    ASSUME NEW m, NEW m2, NEW m3, Steady(m, m2), Steady(m2, m3)
    PROVE  Steady(m, m3)
<1>1. \A s \in Spaces : m3.status[s] = m.status[s] \/ (m.status[s] = "normal" /\ m3.status[s] = "failed")
  BY DEF Steady
<1>2. \A t \in OzThreads : /\ m3.kind[t] = m.kind[t] /\ m3.at[t] = m.at[t]
                           /\ t \in m3.terminated <=> t \in m.terminated
  BY DEF Steady
<1>3. \A t \in Threads : m.at[t] # None => m3.at[t] # None
  BY DEF Steady
<1> QED BY <1>1, <1>2, <1>3 DEF Steady

\* The tree of m2 is that of m.
Likewise(m, m2) ==
    /\ Created(m2) = Created(m) /\ Standing(m2) = Standing(m) /\ Below(m2) = Below(m)
    /\ \A s \in Created(m) : Real(m2, s) = Real(m, s) /\ (s # Top => Parent(m2, s) = Parent(m, s))
    /\ \A s \in Standing(m) : Path(m2, s) = Path(m, s)

\* A space that fails stays in the tree (Space::fail).
LEMMA SteadyTree ==
    ASSUME NEW m, NEW m2, WellRun(m), Steady(m, m2)
    PROVE  Likewise(m, m2)
<1>1. \A s \in Spaces : /\ (m2.status[s] # "none") <=> (m.status[s] # "none")
                        /\ (m2.status[s] = "merged") <=> (m.status[s] = "merged")
  BY DEF Steady
<1>2. Created(m2) = Created(m)
  <2>1. \A s \in Spaces : s \in Created(m2) <=> s \in Created(m)
    BY <1>1 DEF Created
  <2>2. Created(m2) \subseteq Spaces /\ Created(m) \subseteq Spaces
    BY DEF Created
  <2> QED BY <2>1, <2>2
<1>3. Standing(m2) = Standing(m) /\ Below(m2) = Below(m)
  BY <1>1, <1>2 DEF Standing, Below, Created
<1>4. PICK rank : Ranked(m, rank)
  BY DEF WellRun, Tree
<1>5. PICK rank2 : Ranked(m2, rank2)
  BY DEF Steady, WellRun, Tree
<1>6. SameTree(m, m2)
  BY <1>1, <1>2 DEF SameTree, Steady, Created
<1>7. \A s \in Created(m) : Real(m2, s) = Real(m, s) /\ (s # Top => Parent(m2, s) = Parent(m, s))
  BY <1>4, <1>5, <1>6, SameReal
<1>8. \A s \in Standing(m) : Path(m2, s) = Path(m, s)
  BY <1>4, <1>5, <1>6, SamePath
<1> QED BY <1>2, <1>3, <1>7, <1>8 DEF Likewise

-----------------------------------------------------------------------------
(* Calls that move the machine, and constrain *)

\* Fields that hold constraints
Constraints == {"space", "trail", "script", "bound"}

\* A call that moves constraints about keeps threads and the tree.
LEMMA ConstraintsSteady ==
    ASSUME NEW m, WellRun(m), NEW m2 \in Machine, Agree(m, m2, Constraints)
    PROVE  WellRun(m2) /\ Steady(m, m2)
<1>1. /\ m2.parent = m.parent /\ m2.status = m.status /\ m2.running = m.running
      /\ m2.at = m.at /\ m2.kind = m.kind /\ m2.runnable = m.runnable
      /\ m2.terminated = m.terminated /\ m2.pendings = m.pendings
  BY DEF Agree, Fields, Constraints
<1>2. Created(m2) = Created(m) /\ (Tree(m2) <=> Tree(m))
  BY <1>1, SameSpaces
<1>3. Placed(m2) /\ Lively(m2)
  BY <1>1, <1>2 DEF Placed, Lively, WellRun
<1>4. WellRun(m2)
  BY <1>2, <1>3 DEF WellRun
<1> QED BY <1>1, <1>4 DEF Steady

\* Where the machine is
LEMMA Here ==
    ASSUME NEW m, WellRun(m), NEW h, Installed(m, h)
    PROVE  /\ m.space \in Standing(m) /\ m.space \in Spaces /\ m.space \in Current(m)
           /\ Current(m) \subseteq Standing(m) /\ Current(m) \subseteq Spaces /\ None \notin Current(m)
           /\ m.space # Top => m.space \in Below(m) /\ m.space \in SubSpaces
<1>1. m.space \in Spaces /\ m.status[m.space] = "normal"
  BY DEF WellRun, Machine, Installed
<1>2. m.space \in Standing(m)
  BY <1>1 DEF Standing, Created
<1>3. PICK rank : Ranked(m, rank)
  BY DEF WellRun, Tree
<1>4. Current(m) \subseteq Standing(m) /\ m.space \in Current(m)
  BY <1>2, <1>3, PathFacts DEF Current
<1>5. Standing(m) \subseteq Spaces
  BY DEF Standing, Created
<1> QED BY <1>1, <1>2, <1>4, <1>5, Sets DEF Below, Spaces

\* Space s of the current one becomes the current one, its script not yet executed.
Pending(m, g, q, s) == \A c \in g.told[s] : m.bound[c[1]] = c[2] \/ c \in q

\* setCurrentSpace, in installThis: what the space was told is in its script or can be
\* seen.
LEMMA EnterKeeps ==
    ASSUME NEW m, WellRun(m), NEW g \in Histories, Core(m, g, None),
           NEW s \in Below(m), m.status[s] = "normal", Parent(m, s) = m.space,
           NEW m2, m2 = [m EXCEPT !.space = s]
    PROVE  /\ WellRun(m2) /\ Steady(m, m2) /\ Core(m2, g, s)
           /\ m2.space = s /\ m2.script = m.script /\ m2.status = m.status
           /\ Pending(m2, g, ToSet(m2.script[s]), s)
<1>1. m \in Machine /\ s \in SubSpaces /\ s \in Spaces /\ s # None
  BY Sets DEF WellRun, Below, Standing, Created, Spaces
<1>2. m2 \in Machine /\ Agree(m, m2, {"space"}) /\ m2.space = s
  BY <1>1 DEF Machine, Agree, Fields
<1>3. Agree(m, m2, Constraints)
  BY <1>2 DEF Agree, Constraints
<1>4. WellRun(m2) /\ Steady(m, m2)
  BY <1>2, <1>3, ConstraintsSteady
<1>5. /\ m2.parent = m.parent /\ m2.status = m.status /\ m2.trail = m.trail /\ m2.script = m.script
      /\ m2.bound = m.bound /\ m2.home = m.home /\ m2.optimized = m.optimized
  BY <1>2 DEF Agree, Fields
<1>6. \A x : Path(m2, x) = Path(m, x)
  BY <1>5, SameSpaces, ZenonT(60)
<1>7. \A x : Over(m2, x) = Over(m, x)
  BY <1>6 DEF Over
<1>8. /\ Homes(m) /\ Installed(m, None) /\ Trails(m, g) /\ Bindings(m, g) /\ Visible(m, g, None)
      /\ Scripts(m, g) /\ Hidden(m, g) /\ Failures(m, g) /\ Unborn(m, g)
  BY DEF Core
<1>9. /\ Current(m2) = {s} \cup Current(m) /\ s \notin Current(m) /\ Over(m, s) = Current(m)
  BY <1>2, <1>6, OverParent DEF Current
<1>10. None \notin Current(m)
  BY <1>8, Here
<1>11. Installed(m2, s)
  BY <1>1, <1>2, <1>5, <1>8, <1>9, Sets DEF Installed
<1>12. Visible(m2, g, s)
  BY <1>5, <1>8, <1>9, <1>10 DEF Visible
<1>13. Hidden(m2, g)
  BY <1>5, <1>7, <1>8, <1>9 DEF Hidden
<1>14. Homes(m2) /\ Scripts(m2, g) /\ Bindings(m2, g) /\ Unborn(m2, g)
  BY <1>5, <1>8 DEF Homes, Scripts, Bindings, Unborn
<1>15. Trails(m2, g)
  BY <1>5, <1>7, <1>8 DEF Trails
<1>16. Failures(m2, g)
  BY <1>5, <1>6, <1>8 DEF Failures
<1>17. Pending(m2, g, ToSet(m2.script[s]), s)
  <2> SUFFICES ASSUME NEW c \in g.told[s], c \notin ToSet(m.script[s]) PROVE m.bound[c[1]] = c[2]
    BY <1>5 DEF Pending
  <2>1. PICK a \in Over(m, s) : c \in g.told[a]
    BY <1>1, <1>8, <1>9 DEF Hidden
  <2> QED BY <1>8, <1>9, <1>10, <2>1 DEF Visible
<1> QED BY <1>2, <1>4, <1>5, <1>11, <1>12, <1>13, <1>14, <1>15, <1>16, <1>17 DEF Core

\* What can be bound: what was told here, or the end of a thread
Tellable(m, g, h, v, x) ==
    /\ m.bound[v] = None
    /\ v \in Vars => x \in Values /\ <<v, x>> \in g.told[m.space] /\ h = m.space
    /\ v \notin Vars => x = "unit" /\ \E t \in g.ended : v = DoneVar(t)

\* The value of a thread that has ended is told from values, and its variable from
\* variables.
LEMMA Reserved ==
    /\ None \notin Values /\ None # "unit"
    /\ \A s, t : DoneVar(s) = DoneVar(t) => s = t
    /\ \A v \in Store \ Vars : \E t \in OzThreads : v = DoneVar(t)
  BY SpacesAssumption DEF DoneVar, Store

\* v enters the trail of the current space, or is bound for good.
Marked(m, tr, v) ==
    /\ tr \in [SubSpaces -> Seq(Store)]
    /\ \A s \in SubSpaces : s # m.space => tr[s] = m.trail[s]
    /\ \/ m.space = Top
       \/ tr[m.space] = Append(m.trail[m.space], v)
       \/ tr[m.space] = m.trail[m.space] /\ v \notin Vars

\* v is bound to x, in k.
Marks(m, k, v, x, tr) ==
    Marked(m, tr, v) /\ k = [m EXCEPT !.bound = [m.bound EXCEPT ![v] = x], !.trail = tr]

\* Before the waiting threads are woken
LEMMA MarkKeeps ==
    ASSUME NEW m, WellRun(m), NEW g \in Histories, NEW h, Core(m, g, h),
           NEW v \in Store, NEW x, Tellable(m, g, h, v, x),
           NEW k, NEW tr, Marks(m, k, v, x, tr)
    PROVE  /\ WellRun(k) /\ Steady(m, k) /\ Core(k, g, h)
           /\ Agree(m, k, {"bound", "trail"}) /\ k.bound = [m.bound EXCEPT ![v] = x]
<1>1. PICK b : b = [m.bound EXCEPT ![v] = x]
  OBVIOUS
<1>2. Marked(m, tr, v) /\ k = [m EXCEPT !.bound = b, !.trail = tr]
  BY <1>1 DEF Marks
<1>3. m \in Machine /\ x \in Values \cup {"unit"} /\ x # None
  BY Reserved DEF WellRun, Tellable
<1>4. b \in [Store -> Values \cup {None, "unit"}] /\ \A u \in Store : b[u] = IF u = v THEN x ELSE m.bound[u]
  BY <1>1, <1>3 DEF Machine
<1>5. k \in Machine /\ Agree(m, k, {"bound", "trail"}) /\ k.bound = b /\ k.trail = tr
  BY <1>3, <1>4, <1>2 DEF Machine, Agree, Fields, Marked
<1>6. Agree(m, k, Constraints)
  BY <1>5 DEF Agree, Constraints
<1>7. WellRun(k) /\ Steady(m, k)
  BY <1>5, <1>6, ConstraintsSteady
<1>8. /\ k.parent = m.parent /\ k.status = m.status /\ k.script = m.script /\ k.space = m.space
      /\ k.home = m.home /\ k.optimized = m.optimized
  BY <1>5 DEF Agree, Fields
<1>9. \A y : Path(k, y) = Path(m, y)
  BY <1>8, SameSpaces
<1>10. /\ \A y : Over(k, y) = Over(m, y)
      /\ Current(k) = Current(m)
  BY <1>8, <1>9 DEF Over, Current
<1>11. /\ Homes(m) /\ Installed(m, h) /\ Trails(m, g) /\ Bindings(m, g) /\ Visible(m, g, h)
      /\ Scripts(m, g) /\ Hidden(m, g) /\ Failures(m, g) /\ Unborn(m, g)
  BY DEF Core
<1>12. /\ m.space \in Current(m) /\ m.space \in Spaces /\ Current(m) \subseteq Spaces
       /\ m.space # Top => m.space \in SubSpaces
  BY <1>11, Here
\* The variable is in the trail of the current space, and no other.
<1>13. \A s \in SubSpaces : /\ ToSet(m.trail[s]) \subseteq ToSet(tr[s])
                            /\ ToSet(tr[s]) \subseteq ToSet(m.trail[s]) \cup {v}
                            /\ v \in ToSet(tr[s]) => s = m.space
                            /\ s # m.space => tr[s] = m.trail[s]
                            /\ s = m.space /\ v \in Vars => v \in ToSet(tr[s])
  <2> SUFFICES ASSUME NEW s \in SubSpaces
               PROVE  /\ ToSet(m.trail[s]) \subseteq ToSet(tr[s])
                      /\ ToSet(tr[s]) \subseteq ToSet(m.trail[s]) \cup {v}
                      /\ v \in ToSet(tr[s]) => s = m.space
                      /\ s # m.space => tr[s] = m.trail[s]
                      /\ s = m.space /\ v \in Vars => v \in ToSet(tr[s])
    OBVIOUS
  <2>1. s # m.space => tr[s] = m.trail[s]
    BY <1>2 DEF Marked
  <2>2. s = m.space => \/ s = Top \/ tr[s] = Append(m.trail[s], v)
                       \/ tr[s] = m.trail[s] /\ v \notin Vars
    BY <1>2 DEF Marked
  <2>3. v \notin ToSet(m.trail[s])
    BY <1>11 DEF Trails, Tellable
  <2>4. m.trail[s] \in Seq(Store) /\ s # Top
    BY <1>3, SpacesAssumption DEF Machine
  <2>5. ToSet(Append(m.trail[s], v)) = ToSet(m.trail[s]) \cup {v}
    BY <2>4, ToSetFacts
  <2>6. CASE s # m.space
    BY <2>1, <2>3, <2>6
  <2>7. CASE s = m.space /\ tr[s] = Append(m.trail[s], v)
    BY <2>3, <2>5, <2>7
  <2>8. CASE s = m.space /\ tr[s] = m.trail[s] /\ v \notin Vars
    BY <2>3, <2>8
  <2> QED BY <2>1, <2>4, <2>6, <2>7, <2>8, <2>2
\* Nothing was told of it above, nor here if the space is installed.
<1>14. \A a \in Current(m) \ {h} : \A c \in g.told[a] : c[1] # v
  <2> SUFFICES ASSUME NEW a \in Current(m) \ {h}, NEW c \in g.told[a], c[1] = v PROVE FALSE
    OBVIOUS
  <2>1. g.told[a] \subseteq Vars \X Values
    BY <1>12 DEF Histories
  <2>2. c[2] \in Values
    BY <2>1
  <2>3. m.bound[v] = c[2]
    BY <1>11 DEF Visible
  <2> QED BY <2>2, <2>3, Reserved DEF Tellable
<1>15. Trails(k, g)
  <2> SUFFICES ASSUME NEW s \in SubSpaces, NEW u \in ToSet(tr[s])
               PROVE  /\ b[u] # None
                      /\ \A r \in SubSpaces : u \in ToSet(tr[r]) => r = s
                      /\ u \in Vars => /\ <<u, b[u]>> \in g.told[s]
                                       /\ \A a \in Over(m, s) : \A c \in g.told[a] : c[1] # u
    BY <1>5, <1>10 DEF Trails
  <2>1. u \in Store
    BY <1>2, ToSetFacts DEF Marked
  <2>2. CASE u = v
    <3>1. s = m.space
      BY <1>13, <2>2
    <3>2. b[u] # None /\ \A r \in SubSpaces : u \in ToSet(tr[r]) => r = s
      BY <1>3, <1>4, <1>13, <2>2, <3>1
    <3>3. ASSUME u \in Vars
          PROVE  /\ <<u, b[u]>> \in g.told[s]
                 /\ \A a \in Over(m, s) : \A c \in g.told[a] : c[1] # u
      <4>1. <<u, b[u]>> \in g.told[s] /\ h = s
        BY <1>4, <2>2, <3>1, <3>3 DEF Tellable
      <4>2. Over(m, s) = Current(m) \ {h}
        BY <3>1, <4>1 DEF Over, Current
      <4> QED BY <1>14, <2>2, <4>1, <4>2
    <3> QED BY <3>2, <3>3
  <2>3. CASE u # v
    <3>1. u \in ToSet(m.trail[s]) /\ b[u] = m.bound[u]
      BY <1>4, <1>13, <2>1, <2>3
    <3>2. \A r \in SubSpaces : u \in ToSet(tr[r]) => u \in ToSet(m.trail[r])
      BY <1>13, <2>3
    <3> QED BY <1>11, <3>1, <3>2 DEF Trails
  <2> QED BY <2>2, <2>3
<1>16. Bindings(k, g)
  <2>1. ASSUME NEW u \in Vars
        PROVE  /\ b[u] \in Values \cup {None}
               /\ b[u] # None => \/ <<u, b[u]>> \in g.told[Top]
                                 \/ \E s \in SubSpaces : u \in ToSet(tr[s])
    <3>1. u \in Store
      BY Sets
    <3>2. CASE u = v
      <4>1. b[u] = x /\ x \in Values /\ <<u, x>> \in g.told[m.space]
        BY <1>4, <3>1, <3>2 DEF Tellable
      <4>2. m.space = Top \/ (m.space \in SubSpaces /\ u \in ToSet(tr[m.space]))
        BY <1>12, <1>13, <3>2
      <4> QED BY <4>1, <4>2
    <3>3. CASE u # v
      <4>1. b[u] = m.bound[u]
        BY <1>4, <3>1, <3>3
      <4>2. \A s \in SubSpaces : u \in ToSet(m.trail[s]) => u \in ToSet(tr[s])
        BY <1>13
      <4> QED BY <1>11, <4>1, <4>2 DEF Bindings
    <3> QED BY <3>2, <3>3
  <2>2. ASSUME NEW t \in OzThreads
        PROVE  b[DoneVar(t)] \in {None, "unit"} /\ (t \notin g.ended => b[DoneVar(t)] = None)
    <3>1. DoneVar(t) \in Store /\ DoneVar(t) \notin Vars
      BY Sets
    <3>2. CASE DoneVar(t) = v
      BY <1>4, <3>1, <3>2, Reserved DEF Tellable
    <3>3. CASE DoneVar(t) # v
      BY <1>4, <1>11, <3>1, <3>3 DEF Bindings
    <3> QED BY <3>2, <3>3
  <2> QED BY <1>5, <2>1, <2>2 DEF Bindings
<1>17. Visible(k, g, h)
  <2> SUFFICES ASSUME NEW a \in Current(m) \ {h}, NEW c \in g.told[a] PROVE b[c[1]] = c[2]
    BY <1>5, <1>10 DEF Visible
  <2>1. g.told[a] \subseteq Vars \X Values
    BY <1>12 DEF Histories
  <2>2. c[1] # v /\ c[1] \in Store
    BY <1>14, <2>1, Sets
  <2> QED BY <1>4, <1>11, <2>2 DEF Visible
<1>18. Installed(k, h)
  <2>1. \A s \in SubSpaces : tr[s] # << >> => s \in Current(m)
    BY <1>11, <1>12, <1>13 DEF Installed
  <2> QED BY <1>5, <1>8, <1>10, <1>11, <2>1 DEF Installed
<1>19. Unborn(k, g)
  <2>1. \A s \in SubSpaces : m.status[s] = "none" => s # m.space
    BY <1>11 DEF Installed
  <2> QED BY <1>5, <1>8, <1>11, <1>13, <2>1 DEF Unborn
<1>20. Homes(k) /\ Scripts(k, g)
  BY <1>8, <1>11 DEF Homes, Scripts
<1>21. Hidden(k, g)
  BY <1>8, <1>10, <1>11 DEF Hidden
<1>22. Failures(k, g)
  BY <1>8, <1>9, <1>11 DEF Failures
<1> QED BY <1>1, <1>5, <1>7, <1>15, <1>16, <1>17, <1>18, <1>19, <1>20, <1>21, <1>22 DEF Core

\* The same space is current, and the same scripts are left to execute.
Aside(m, m2) == m2.space = m.space /\ m2.status = m.status /\ m2.script = m.script

\* A call that murmurs is one of those, and binds nothing.
LEMMA MurmurAside ==
    ASSUME NEW m, NEW m2, Murmur(m, m2)
    PROVE  Aside(m, m2) /\ m2.bound = m.bound
  BY MurmurCore DEF Murmur, Aside

\* The top-level space stands for itself.
LEMMA TopIsReal ==
    ASSUME NEW m, WellRun(m)
    PROVE  Real(m, Top) = Top /\ Top \in Created(m) /\ Top \in Standing(m)
<1>1. PICK rank : Ranked(m, rank)
  BY DEF WellRun, Tree
<1>2. Top \in Created(m) /\ m.status[Top] = "normal"
  BY <1>1, Sets DEF Created, Ranked
<1> QED BY <1>1, <1>2, RealFacts DEF Standing

\* bind and bindSubSpace keep what is known of constraints, with what they wake.
LEMMA BindKeeps ==
    ASSUME NEW m, WellRun(m), NEW g \in Histories, NEW h, Core(m, g, h),
           NEW v \in Store, NEW x, Tellable(m, g, h, v, x),
           NEW k, k = Bind(m, v, x)
    PROVE  /\ WellRun(k) /\ Steady(m, k) /\ Core(k, g, h) /\ Aside(m, k)
           /\ k.bound = [m.bound EXCEPT ![v] = x]
           /\ Tallies(m, k)
<1>1. m \in Machine
  BY DEF WellRun
<1>2. PICK b : b = [m.bound EXCEPT ![v] = x]
  OBVIOUS
<1>3. PICK tr : tr = IF m.space # Top /\ Real(m, m.home[v]) # m.space
                     THEN [m.trail EXCEPT ![m.space] = Append(@, v)] ELSE m.trail
  OBVIOUS
<1>4. m.space # Top => m.space \in SubSpaces
  BY <1>1 DEF Machine, Spaces
<1>5. m.trail \in [SubSpaces -> Seq(Store)]
  BY <1>1 DEF Machine
<1>6. Marked(m, tr, v)
  <2>1. CASE m.space # Top /\ Real(m, m.home[v]) # m.space
    <3>1. tr = [m.trail EXCEPT ![m.space] = Append(@, v)]
      BY <1>3, <2>1
    <3>2. Append(m.trail[m.space], v) \in Seq(Store)
      BY <1>4, <1>5, <2>1
    <3> QED BY <1>4, <1>5, <2>1, <3>1, <3>2 DEF Marked
  <2>2. CASE ~(m.space # Top /\ Real(m, m.home[v]) # m.space)
    <3>1. tr = m.trail
      BY <1>3, <2>2
    <3>2. v \in Vars => Real(m, m.home[v]) = Top
      BY TopIsReal DEF Core, Homes
    <3> QED BY <1>5, <2>2, <3>1, <3>2 DEF Marked
  <2> QED BY <2>1, <2>2
<1>7. PICK k1 : k1 = [m EXCEPT !.bound = b, !.trail = tr]
  OBVIOUS
<1>8. /\ WellRun(k1) /\ Steady(m, k1) /\ Core(k1, g, h) /\ Agree(m, k1, {"bound", "trail"})
       /\ k1.bound = b
  <2>1. Marks(m, k1, v, x, tr)
    BY <1>2, <1>6, <1>7 DEF Marks
  <2>2. /\ WellRun(k1) /\ Steady(m, k1) /\ Core(k1, g, h)
        /\ Agree(m, k1, {"bound", "trail"}) /\ k1.bound = [m.bound EXCEPT ![v] = x]
    BY <2>1, MarkKeeps
  <2> QED BY <1>2, <2>2
<1>9. Aside(m, k1)
  BY <1>8 DEF Aside, Agree, Fields
<1>10. PICK m1 : m1 = [m EXCEPT !.bound[v] = x]
  OBVIOUS
<1>11. m1 = [m EXCEPT !.bound = b] /\ m1.trail = m.trail
  BY <1>1, <1>2, <1>10 DEF Machine
<1>12. Bind(m, v, x) = WakeUpPendings(k1, v)
  <2>1. CASE m.space # Top /\ Real(m, m.home[v]) # m.space
    <3>1. [m1 EXCEPT !.trail[m.space] = Append(@, v)] = k1
      BY <1>3, <1>7, <1>11, <2>1
    <3> QED BY <1>10, <2>1, <3>1 DEF Bind
  <2>2. CASE ~(m.space # Top /\ Real(m, m.home[v]) # m.space)
    <3>1. tr = m.trail
      BY <1>3, <2>2
    <3>2. m1 = k1
      BY <1>1, <1>7, <1>11, <3>1 DEF Machine
    <3> QED BY <1>10, <2>2, <3>2 DEF Bind
  <2> QED BY <2>1, <2>2
<1>13. Murmur(k1, k) /\ Tallies(k1, k)
  <2>1. v \in Waitees
    BY Sets
  <2> QED BY <1>8, <1>12, <2>1, WakeUpPendingsMurmurs
<1>14. WellRun(k) /\ Steady(m, k)
  BY <1>8, <1>13, MurmurSteady, SteadyOn DEF Murmur
<1>15. Core(k, g, h)
  BY <1>8, <1>13, MurmurKeeps
<1>16. Tallies(m, k)
  <2>1. Agree(m, k1, Quiet)
    BY <1>8 DEF Agree, Quiet
  <2> QED BY <1>13, <2>1, QuietTallies, TalliesOn
<1> QED BY <1>16, <1>2, <1>8, <1>9, <1>13, <1>14, <1>15, MurmurAside DEF Aside

\* A variable that is bound was told in some space that is installed.
LEMMA BoundTold ==
    ASSUME NEW m, WellRun(m), NEW g \in Histories, NEW h, Core(m, g, h),
           NEW v \in Vars, m.bound[v] # None
    PROVE  \E a \in Current(m) : <<v, m.bound[v]>> \in g.told[a]
<1>1. Installed(m, h) /\ Trails(m, g) /\ Bindings(m, g)
  BY DEF Core
<1>2. Top \in Current(m)
  BY DEF Current, Path
<1>3. CASE <<v, m.bound[v]>> \in g.told[Top]
  BY <1>2, <1>3
<1>4. ASSUME NEW s \in SubSpaces, v \in ToSet(m.trail[s])
      PROVE  s \in Current(m) /\ <<v, m.bound[v]>> \in g.told[s]
  <2>1. m.trail[s] # << >>
    BY <1>4, ToSetFacts
  <2> QED BY <1>1, <1>4, <2>1 DEF Installed, Trails
<1> QED BY <1>1, <1>3, <1>4 DEF Bindings

\* A conflict is a contradiction.
LEMMA ConflictContradicts ==
    ASSUME NEW m, WellRun(m), NEW g \in Histories, NEW h, Core(m, g, h),
           NEW c \in Vars \X Values, NEW a \in Current(m), c \in g.told[a], Conflicts(m, c)
    PROVE  Contradict(g, Current(m))
<1>1. m.bound[c[1]] # None /\ m.bound[c[1]] # c[2] /\ c[1] \in Vars
  BY DEF Conflicts
<1>2. PICK b \in Current(m) : <<c[1], m.bound[c[1]]>> \in g.told[b]
  BY <1>1, BoundTold
<1>3. PICK d : d = <<c[1], m.bound[c[1]]>>
  OBVIOUS
<1>4. d \in g.told[b] /\ c[1] = d[1] /\ c[2] # d[2]
  BY <1>1, <1>2, <1>3
<1> QED BY <1>4 DEF Contradict

-----------------------------------------------------------------------------
(* The execution of a script *)

\* A script that says no more than what was told, with no contradiction in itself
Executable(m, g, q) ==
    \A c \in ToSet(q) :
        /\ c[1] \in Vars => c \in g.told[m.space]
        /\ \A t \in OzThreads : c[1] = DoneVar(t) => c[2] = "unit" /\ t \in g.ended
        /\ \A e \in ToSet(q) : e[1] = c[1] => e[2] = c[2]
\* A script that can be executed
Agreeable(m, q) == \A c \in ToSet(q) : m.bound[c[1]] \in {None, c[2]}
\* The equations after the first i
LeftOver(q, i) == {q[j] : j \in (i + 1)..Len(q)}
\* What Execute goes through: see Execute in Spaces
Accs == [m : Machine, failed : BOOLEAN]

\* After i equations of q
Progress(m, g, q, i, acc) ==
    /\ acc \in Accs
    /\ WellRun(acc.m) /\ Steady(m, acc.m) /\ Core(acc.m, g, m.space) /\ Aside(m, acc.m)
    /\ Tallies(m, acc.m)
    /\ acc.failed => Contradict(g, Current(m))
    /\ ~acc.failed => Pending(acc.m, g, LeftOver(q, i), m.space)
    /\ Agreeable(m, q) => ~acc.failed /\ Agreeable(acc.m, q)

\* One equation of a script keeps what is known, and is seen unless the script has
\* failed (the loop of installThis).
LEMMA ExecuteStep ==
    ASSUME NEW m, WellRun(m), NEW g \in Histories, Installed(m, m.space),
           NEW q \in Seq(Pairs), Executable(m, g, q),
           NEW i \in 1..Len(q), NEW acc, Progress(m, g, q, i - 1, acc)
    PROVE  Progress(m, g, q, i, Execute(acc, q[i]))
<1>1. PICK n, f : acc = [m |-> n, failed |-> f] /\ n \in Machine /\ f \in BOOLEAN /\ acc.m = n /\ acc.failed = f
  <2>1. acc \in Accs
    BY DEF Progress
  <2>2. acc = [m |-> acc.m, failed |-> acc.failed] /\ acc.m \in Machine /\ acc.failed \in BOOLEAN
    BY <2>1 DEF Accs
  <2> QED BY <2>2
<1>2. PICK h : h = m.space
  OBVIOUS
<1>3. PICK c : c = q[i]
  OBVIOUS
<1>4. c \in ToSet(q) /\ c \in Pairs /\ c[1] \in Store /\ c = <<c[1], c[2]>>
  <2>1. c \in Pairs
    BY <1>3
  <2>2. c \in ToSet(q)
    BY <1>3, ToSetFacts
  <2> QED BY <2>1, <2>2 DEF Pairs
<1>5. WellRun(n) /\ Steady(m, n) /\ Core(n, g, h) /\ Aside(m, n) /\ n.space = h
  BY <1>1, <1>2 DEF Progress, Aside
<1>13. Tallies(m, n)
  BY <1>1 DEF Progress
<1>6. Current(n) = Current(m) /\ h \in Current(m) /\ h \in Spaces /\ g.told[h] \subseteq Vars \X Values
  <2>1. m.space \in Standing(m) /\ h \in Current(m) /\ h \in Spaces
    BY <1>2, Here
  <2>2. Path(n, h) = Path(m, h)
    BY <1>2, <1>5, <2>1, SteadyTree DEF Likewise
  <2> QED BY <1>2, <1>5, <2>1, <2>2 DEF Current, Histories
<1>7. /\ f => Contradict(g, Current(m))
      /\ ~f => Pending(n, g, LeftOver(q, i - 1), h)
      /\ Agreeable(m, q) => ~f /\ Agreeable(n, q)
  BY <1>1, <1>2 DEF Progress
<1>8. LeftOver(q, i - 1) = {c} \cup LeftOver(q, i)
  <2>1. \A j \in ((i - 1) + 1)..Len(q) : j = i \/ j \in (i + 1)..Len(q)
    OBVIOUS
  <2>2. i \in ((i - 1) + 1)..Len(q) /\ (i + 1)..Len(q) \subseteq ((i - 1) + 1)..Len(q)
    OBVIOUS
  <2> QED BY <1>3, <2>1, <2>2 DEF LeftOver
<1>9. PICK r : r = Execute(acc, c)
  OBVIOUS
<1>10. CASE f \/ Conflicts(n, c)
  <2>1. r = [m |-> n, failed |-> TRUE]
    BY <1>1, <1>9, <1>10 DEF Execute
  <2>2. r \in Accs /\ r.m = n /\ r.failed = TRUE
    BY <1>1, <2>1 DEF Accs
  <2>3. CASE f
    BY <1>2, <1>3, <1>5, <1>7, <1>9, <1>13, <2>2, <2>3 DEF Progress
  <2>4. CASE ~f /\ Conflicts(n, c)
    <3>1. n.bound[c[1]] # None /\ n.bound[c[1]] # c[2]
      BY <2>4 DEF Conflicts
    <3>2. ~Agreeable(n, q)
      BY <1>4, <3>1 DEF Agreeable
    <3>3. c[1] \in Vars
      <4> SUFFICES ASSUME c[1] \notin Vars PROVE FALSE
        OBVIOUS
      <4>1. PICK t \in OzThreads : c[1] = DoneVar(t)
        BY <1>4, Reserved
      <4>2. c[2] = "unit"
        BY <1>4, <4>1 DEF Executable
      <4>3. n.bound[c[1]] \in {None, "unit"}
        BY <1>5, <4>1 DEF Core, Bindings
      <4> QED BY <3>1, <4>2, <4>3
    <3>4. c \in g.told[h] /\ c \in Vars \X Values
      BY <1>2, <1>4, <1>6, <3>3 DEF Executable
    <3>5. Contradict(g, Current(n))
      BY <1>5, <1>6, <2>4, <3>4, ConflictContradicts
    <3> QED BY <1>2, <1>3, <1>5, <1>6, <1>7, <1>9, <1>13, <2>2, <3>2, <3>5 DEF Progress
  <2> QED BY <1>10, <2>3, <2>4
<1>11. CASE ~f /\ ~Conflicts(n, c) /\ n.bound[c[1]] = c[2]
  <2>1. r = acc
    BY <1>1, <1>9, <1>11 DEF Execute
  <2>2. Pending(n, g, LeftOver(q, i), h)
    BY <1>7, <1>8, <1>11 DEF Pending
  <2>3. acc \in Accs
    BY DEF Progress
  <2> QED BY <1>1, <1>2, <1>3, <1>5, <1>7, <1>9, <1>11, <1>13, <2>1, <2>2, <2>3 DEF Progress
<1>12. CASE ~f /\ ~Conflicts(n, c) /\ n.bound[c[1]] # c[2]
  <2>1. n.bound[c[1]] = None
    BY <1>12 DEF Conflicts
  <2>2. PICK k : k = Bind(n, c[1], c[2])
    OBVIOUS
  <2>3. r = [m |-> k, failed |-> FALSE]
    BY <1>1, <1>9, <1>12, <2>2 DEF Execute
  <2>4. Tellable(n, g, h, c[1], c[2])
    <3>1. c[1] \in Vars => c[2] \in Values /\ <<c[1], c[2]>> \in g.told[n.space]
      <4> SUFFICES ASSUME c[1] \in Vars PROVE c[2] \in Values /\ <<c[1], c[2]>> \in g.told[n.space]
        OBVIOUS
      <4>1. c \in g.told[h]
        BY <1>2, <1>4 DEF Executable
      <4>2. c[2] \in Values
        BY <1>6, <4>1
      <4> QED BY <1>4, <1>5, <4>1, <4>2
    <3>2. c[1] \notin Vars => c[2] = "unit" /\ \E t \in g.ended : c[1] = DoneVar(t)
      <4> SUFFICES ASSUME c[1] \notin Vars PROVE c[2] = "unit" /\ \E t \in g.ended : c[1] = DoneVar(t)
        OBVIOUS
      <4>1. PICK t \in OzThreads : c[1] = DoneVar(t)
        BY <1>4, Reserved
      <4> QED BY <1>4, <4>1 DEF Executable
    <3> QED BY <1>5, <2>1, <3>1, <3>2 DEF Tellable
  <2>5. /\ WellRun(k) /\ Steady(n, k) /\ Core(k, g, h) /\ Aside(n, k)
        /\ k.bound = [n.bound EXCEPT ![c[1]] = c[2]] /\ Tallies(n, k)
    BY <1>4, <1>5, <2>2, <2>4, BindKeeps
  <2>6. k \in Machine /\ Steady(m, k) /\ Aside(m, k) /\ Tallies(m, k)
    BY <1>5, <1>13, <2>5, SteadyOn, TalliesOn DEF WellRun, Aside
  <2>7. r \in Accs /\ r.m = k /\ r.failed = FALSE
    BY <2>3, <2>6 DEF Accs
  <2>8. \A u \in Store : k.bound[u] = IF u = c[1] THEN c[2] ELSE n.bound[u]
    BY <1>1, <2>5 DEF Machine
  <2>9. Pending(k, g, LeftOver(q, i), h)
    <3> SUFFICES ASSUME NEW e \in g.told[h], e \notin LeftOver(q, i) PROVE k.bound[e[1]] = e[2]
      BY DEF Pending
    <3>1. e[1] \in Store /\ e[2] \in Values
      BY <1>6, Sets
    <3>2. n.bound[e[1]] = e[2] \/ e = c
      BY <1>7, <1>8, <1>12 DEF Pending
    <3> QED BY <2>1, <2>8, <3>1, <3>2, Reserved
  <2>10. Agreeable(n, q) => Agreeable(k, q)
    <3> SUFFICES ASSUME Agreeable(n, q), NEW e \in ToSet(q) PROVE k.bound[e[1]] \in {None, e[2]}
      BY DEF Agreeable
    <3>1. e \in Pairs
      BY ToSetFacts
    <3>2. e[1] \in Store
      BY <3>1 DEF Pairs
    <3>3. e[1] = c[1] => e[2] = c[2]
      BY <1>4 DEF Executable
    <3>4. n.bound[e[1]] \in {None, e[2]}
      BY DEF Agreeable
    <3> QED BY <2>8, <3>2, <3>3, <3>4
  <2> QED BY <1>2, <1>3, <1>7, <1>9, <1>12, <2>5, <2>6, <2>7, <2>9, <2>10 DEF Progress
<1> QED BY <1>1, <1>10, <1>11, <1>12

\* The script of the current space is executed: it fails only on a contradiction, and
\* otherwise all that the space was told can be seen.
LEMMA ScriptRuns ==
    ASSUME NEW m, WellRun(m), NEW g \in Histories, Core(m, g, m.space),
           NEW q \in Seq(Pairs), Executable(m, g, q), Pending(m, g, ToSet(q), m.space)
    PROVE  Progress(m, g, q, Len(q), Through(Execute, [m |-> m, failed |-> FALSE], q))
<1>1. PICK n \in Nat : n = Len(q)
  OBVIOUS
<1>2. PICK b : b = [m |-> m, failed |-> FALSE]
  OBVIOUS
<1>3. b \in Accs /\ b.m = m /\ b.failed = FALSE
  BY <1>2 DEF Accs, WellRun
<1>4. Installed(m, m.space)
  BY DEF Core
<1>5. Progress(m, g, q, 0, b)
  <2>1. Steady(m, m) /\ Aside(m, m) /\ Tallies(m, m)
    BY TalliesSelf DEF Steady, Aside
  <2>2. LeftOver(q, 0) = ToSet(q)
    <3>1. ToSet(q) = {q[i] : i \in 1..Len(q)}
      BY ToSetFacts
    <3> QED BY <3>1 DEF LeftOver
  <2> QED BY <1>3, <2>1, <2>2 DEF Progress
<1>6. PICK X : X = [i \in 0..n |-> {acc \in Accs : Progress(m, g, q, i, acc)}]
  OBVIOUS
<1>7. \A i \in 0..n : \A acc : acc \in X[i] <=> Progress(m, g, q, i, acc)
  BY <1>6 DEF Progress
<1>8. b \in X[0]
  BY <1>5, <1>7
<1>9. PICK F : F = [p \in Accs \X (1..n) |-> Execute(p[1], q[p[2]])]
  OBVIOUS
<1>10. \A i \in 1..n : \A x \in X[i - 1] : F[<<x, i>>] = Execute(x, q[i]) /\ F[<<x, i>>] \in X[i]
  <2> SUFFICES ASSUME NEW i \in 1..n, NEW x \in X[i - 1]
               PROVE  F[<<x, i>>] = Execute(x, q[i]) /\ F[<<x, i>>] \in X[i]
    OBVIOUS
  <2>1. i - 1 \in 0..n /\ i \in 0..n /\ i \in 1..Len(q)
    BY <1>1
  <2>2. Progress(m, g, q, i - 1, x)
    BY <1>7, <2>1
  <2>3. x \in Accs
    BY <2>2 DEF Progress
  <2>4. F[<<x, i>>] = Execute(x, q[i])
    BY <1>9, <2>3
  <2>5. Progress(m, g, q, i, Execute(x, q[i]))
    BY <1>4, <2>1, <2>2, ExecuteStep
  <2> QED BY <1>7, <2>1, <2>4, <2>5
<1>11. ClosedTo(F, X, n)
  BY <1>10 DEF ClosedTo
<1>12. PICK f : Reaches(f, F, b, X, n)
  BY <1>8, <1>11, IterateTo
<1>13. f = [i \in 0..n |-> IF i = 0 THEN b ELSE Execute(f[i - 1], q[i])]
  <2>1. /\ f = [i \in 0..n |-> f[i]] /\ f[0] = b
        /\ \A i \in 1..n : f[i - 1] \in X[i - 1] /\ f[i] = F[<<f[i - 1], i>>]
    BY <1>12 DEF Reaches
  <2>2. \A i \in 1..n : f[i] = Execute(f[i - 1], q[i])
    BY <1>10, <2>1
  <2>3. ASSUME NEW i \in 0..n PROVE f[i] = IF i = 0 THEN b ELSE Execute(f[i - 1], q[i])
    <3>1. CASE i = 0
      BY <2>1, <3>1
    <3>2. CASE i # 0
      <4>1. i \in 1..n
        BY <3>2
      <4>2. f[i] = Execute(f[i - 1], q[i])
        BY <2>2, <4>1
      <4> QED BY <3>2, <4>2
    <3> QED BY <3>1, <3>2
  <2>4. f = [i \in 0..n |-> f[i]]
    BY <2>1
  <2>5. [i \in 0..n |-> f[i]] = [i \in 0..n |-> IF i = 0 THEN b ELSE Execute(f[i - 1], q[i])]
    BY <2>3
  <2> QED BY <2>4, <2>5
<1>14. PICK h : h = CHOOSE e : e = [i \in 0..n |-> IF i = 0 THEN b ELSE Execute(e[i - 1], q[i])]
  OBVIOUS
<1>15. h = [i \in 0..n |-> IF i = 0 THEN b ELSE Execute(h[i - 1], q[i])]
  BY <1>13, <1>14
<1>16. FollowsTo(h, F, b, X, n)
  <2>1. h[0] = b
    BY <1>15
  <2>2. \A i \in 1..n : h[i] = Execute(h[i - 1], q[i])
    BY <1>15
  <2> QED BY <1>10, <2>1, <2>2 DEF FollowsTo
<1>17. h[n] \in X[n]
  BY <1>8, <1>11, <1>16, StaysInTo
<1>18. Progress(m, g, q, n, h[n])
  <2>1. n \in 0..n
    OBVIOUS
  <2> QED BY <1>7, <1>17, <2>1
<1>19. Through(Execute, b, q) = h[n]
  BY <1>1, <1>14 DEF Through
<1> QED BY <1>1, <1>2, <1>18, <1>19

-----------------------------------------------------------------------------
(* Calls that leave the current space *)

\* In k the current space s of m has been left: its trail is undone, and kept as its
\* script unless it has failed.
Leaves(m, k, g, h, s) ==
    /\ k.space = Parent(m, s)
    /\ \A v \in Store : k.bound[v] = IF v \in ToSet(m.trail[s]) THEN None ELSE m.bound[v]
    /\ \A r \in SubSpaces : k.trail[r] = IF r = s THEN << >> ELSE m.trail[r]
    /\ \A r \in SubSpaces \ {s} : k.script[r] = m.script[r] /\ k.status[r] = m.status[r]
    /\ \/ /\ k.status[s] = "normal" /\ h = None
          /\ ToSet(k.script[s]) = {<<v, m.bound[v]>> : v \in ToSet(m.trail[s])}
       \/ /\ k.status[s] = "failed" /\ h \in {None, s}
          /\ k.script[s] = m.script[s] /\ Contradict(g, Current(m))

\* Leaving the current space keeps what is known of constraints: what the space was told
\* is in its script now, unless it has failed.
LEMMA LeaveKeeps ==
    ASSUME NEW m, WellRun(m), NEW g \in Histories, NEW h, Core(m, g, h),
           NEW s, s = m.space, s # Top,
           NEW k, Steady(m, k), Homes(k), Leaves(m, k, g, h, s)
    PROVE  Core(k, g, None)
<1>1. /\ Homes(m) /\ Installed(m, h) /\ Trails(m, g) /\ Bindings(m, g) /\ Visible(m, g, h)
      /\ Scripts(m, g) /\ Hidden(m, g) /\ Failures(m, g) /\ Unborn(m, g)
  BY DEF Core
<1>2. /\ s \in Standing(m) /\ s \in Spaces /\ s \in Current(m) /\ s \in Below(m) /\ s \in SubSpaces
      /\ Current(m) \subseteq Standing(m) /\ Current(m) \subseteq Spaces /\ None \notin Current(m)
  BY <1>1, Here
<1>3. PICK p \in Standing(m) : p = Parent(m, s)
  BY <1>2, OverParent
<1>4. /\ Current(m) = {s} \cup Path(m, p) /\ s \notin Path(m, p) /\ Over(m, s) = Path(m, p)
  BY <1>2, <1>3, OverParent DEF Current
<1>5. \A r \in Standing(m) : Path(k, r) = Path(m, r) /\ Over(k, r) = Over(m, r)
  BY SteadyTree DEF Likewise, Over
<1>6. Current(k) = Over(m, s) /\ Current(k) = Current(m) \ {s}
  BY <1>3, <1>4, <1>5 DEF Current, Leaves
<1>7. Top \in Current(k)
  BY DEF Current, Path
<1>8. \A r \in Spaces : m.status[r] \in {"normal", "failed"} => r \in Standing(m)
  BY DEF Standing, Created
<1>9. h \in {None, s}
  BY DEF Leaves
<1>10. /\ \A v \in Store : k.bound[v] = IF v \in ToSet(m.trail[s]) THEN None ELSE m.bound[v]
       /\ \A r \in SubSpaces : k.trail[r] = IF r = s THEN << >> ELSE m.trail[r]
       /\ \A r \in SubSpaces \ {s} : k.script[r] = m.script[r] /\ k.status[r] = m.status[r]
  BY DEF Leaves
<1>11. \A r \in Spaces : r # s => k.status[r] = m.status[r]
  <2>1. m.status[Top] = "normal" /\ k.status[Top] = "normal"
    BY DEF WellRun, Steady, Tree, Ranked
  <2> QED BY <1>10, <2>1 DEF Spaces
<1>12. \A r \in SubSpaces : \A u \in ToSet(k.trail[r]) :
          /\ r # s /\ u \in ToSet(m.trail[r]) /\ u \in Store /\ u \notin ToSet(m.trail[s])
          /\ k.bound[u] = m.bound[u] /\ r \in Standing(m)
  <2> SUFFICES ASSUME NEW r \in SubSpaces, NEW u \in ToSet(k.trail[r])
               PROVE  /\ r # s /\ u \in ToSet(m.trail[r]) /\ u \in Store /\ u \notin ToSet(m.trail[s])
                      /\ k.bound[u] = m.bound[u] /\ r \in Standing(m)
    OBVIOUS
  <2>1. r # s /\ u \in ToSet(m.trail[r])
    BY <1>10, ToSetFacts
  <2>2. m.trail[r] \in Seq(Store)
    BY DEF WellRun, Machine
  <2>3. u \in Store /\ m.trail[r] # << >>
    BY <2>1, <2>2, ToSetFacts
  <2>4. r \in Current(m)
    BY <1>1, <2>3 DEF Installed
  <2>5. u \notin ToSet(m.trail[s])
    BY <1>1, <1>2, <2>1 DEF Trails
  <2> QED BY <1>2, <1>10, <2>1, <2>3, <2>4, <2>5
<1>13. Installed(k, None)
  <2>1. \A a \in Current(k) : k.status[a] = "normal"
    BY <1>1, <1>2, <1>6, <1>11 DEF Installed
  <2>2. k.space \in Current(k)
    <3>1. p \in Path(m, p)
      BY PathFacts DEF WellRun, Tree
    <3> QED BY <1>3, <1>4, <1>6, <3>1 DEF Leaves
  <2>3. \A r \in SubSpaces : k.trail[r] # << >> => r \in Current(k)
    BY <1>1, <1>6, <1>10 DEF Installed
  <2>4. \A r \in SubSpaces : k.script[r] # << >> => r \notin Current(k)
    <3>1. \A r \in SubSpaces : r # None
      BY Sets
    <3>2. \A r \in SubSpaces \ {s} : m.script[r] # << >> => r \notin Current(m)
      BY <1>1, <1>9, <3>1 DEF Installed
    <3> QED BY <1>6, <1>10, <3>2
  <2> QED BY <2>1, <2>2, <2>3, <2>4 DEF Installed
<1>14. Trails(k, g)
  <2> SUFFICES ASSUME NEW r \in SubSpaces, NEW u \in ToSet(k.trail[r])
               PROVE  /\ k.bound[u] # None
                      /\ \A q \in SubSpaces : u \in ToSet(k.trail[q]) => q = r
                      /\ u \in Vars => /\ <<u, k.bound[u]>> \in g.told[r]
                                       /\ \A a \in Over(k, r) : \A c \in g.told[a] : c[1] # u
    BY DEF Trails
  <2>1. u \in ToSet(m.trail[r]) /\ k.bound[u] = m.bound[u] /\ Over(k, r) = Over(m, r)
    BY <1>5, <1>12
  <2>2. \A q \in SubSpaces : u \in ToSet(k.trail[q]) => u \in ToSet(m.trail[q])
    BY <1>12
  <2> QED BY <1>1, <2>1, <2>2 DEF Trails
<1>15. Bindings(k, g)
  <2>1. ASSUME NEW v \in Vars
        PROVE  /\ k.bound[v] \in Values \cup {None}
               /\ k.bound[v] # None => \/ <<v, k.bound[v]>> \in g.told[Top]
                                       \/ \E r \in SubSpaces : v \in ToSet(k.trail[r])
    <3>1. v \in Store
      BY Sets
    <3>2. CASE v \in ToSet(m.trail[s])
      BY <1>10, <3>1, <3>2
    <3>3. CASE v \notin ToSet(m.trail[s])
      <4>1. k.bound[v] = m.bound[v]
        BY <1>10, <3>1, <3>3
      <4>2. \A r \in SubSpaces : v \in ToSet(m.trail[r]) => v \in ToSet(k.trail[r])
        BY <1>10, <3>3
      <4> QED BY <1>1, <4>1, <4>2 DEF Bindings
    <3> QED BY <3>2, <3>3
  <2>2. ASSUME NEW t \in OzThreads
        PROVE  k.bound[DoneVar(t)] \in {None, "unit"} /\ (t \notin g.ended => k.bound[DoneVar(t)] = None)
    BY <1>1, <1>10, Sets DEF Bindings
  <2> QED BY <2>1, <2>2 DEF Bindings
<1>16. Visible(k, g, None)
  <2> SUFFICES ASSUME NEW a \in Current(k), NEW c \in g.told[a] PROVE k.bound[c[1]] = c[2]
    BY DEF Visible
  <2>1. a \in Current(m) /\ a # h /\ a \in Spaces /\ a \in Over(m, s)
    BY <1>2, <1>6, <1>9
  <2>2. g.told[a] \subseteq Vars \X Values
    BY <2>1 DEF Histories
  <2>3. c[1] \in Vars /\ c[1] \in Store
    BY <2>2, Sets
  <2>4. m.bound[c[1]] = c[2]
    BY <1>1, <2>1 DEF Visible
  <2>5. c[1] \notin ToSet(m.trail[s])
    BY <1>1, <1>2, <2>1, <2>3 DEF Trails
  <2> QED BY <1>10, <2>3, <2>4, <2>5
<1>17. Scripts(k, g)
  <2> SUFFICES ASSUME NEW r \in SubSpaces
               PROVE  \A c \in ToSet(k.script[r]) :
                         /\ c[1] \in Vars => c \in g.told[r]
                         /\ \A t \in OzThreads : c[1] = DoneVar(t) => c[2] = "unit" /\ t \in g.ended
                         /\ \A e \in ToSet(k.script[r]) : e[1] = c[1] => e[2] = c[2]
    BY DEF Scripts
  <2>1. CASE k.script[r] = m.script[r]
    BY <1>1, <2>1 DEF Scripts
  <2>2. CASE r = s /\ ToSet(k.script[s]) = {<<v, m.bound[v]>> : v \in ToSet(m.trail[s])}
    <3> SUFFICES ASSUME NEW v \in ToSet(m.trail[s])
                 PROVE  /\ v \in Vars => <<v, m.bound[v]>> \in g.told[s]
                        /\ \A t \in OzThreads : v = DoneVar(t) => m.bound[v] = "unit" /\ t \in g.ended
      BY <2>2
    <3>1. m.bound[v] # None /\ (v \in Vars => <<v, m.bound[v]>> \in g.told[s])
      BY <1>1, <1>2 DEF Trails
    <3>2. \A t \in OzThreads : v = DoneVar(t) => m.bound[v] = "unit" /\ t \in g.ended
      BY <1>1, <3>1 DEF Bindings
    <3> QED BY <3>1, <3>2
  <2> QED BY <1>10, <2>1, <2>2 DEF Leaves
<1>18. Hidden(k, g)
  <2> SUFFICES ASSUME NEW r \in SubSpaces \ Current(k), k.status[r] = "normal", NEW c \in g.told[r]
               PROVE  c \in ToSet(k.script[r]) \/ \E a \in Over(k, r) : c \in g.told[a]
    BY DEF Hidden
  <2>1. CASE r # s
    <3>1. r \notin Current(m) /\ m.status[r] = "normal" /\ k.script[r] = m.script[r]
      BY <1>6, <1>10, <2>1
    <3>2. Over(k, r) = Over(m, r)
      BY <1>5, <1>8, <3>1 DEF Spaces
    <3> QED BY <1>1, <3>1, <3>2 DEF Hidden
  <2>2. CASE r = s
    <3>1. h = None /\ ToSet(k.script[s]) = {<<v, m.bound[v]>> : v \in ToSet(m.trail[s])}
      BY <2>2 DEF Leaves
    <3>2. Over(k, s) = Current(k)
      BY <1>2, <1>5, <1>6
    <3>3. g.told[s] \subseteq Vars \X Values
      BY <1>2 DEF Histories
    <3>4. c[1] \in Vars /\ c[2] \in Values /\ c = <<c[1], c[2]>>
      BY <2>2, <3>3
    <3>5. m.bound[c[1]] = c[2]
      BY <1>1, <1>2, <2>2, <3>1 DEF Visible
    <3>6. m.bound[c[1]] # None /\ <<c[1], m.bound[c[1]]>> = c
      BY <3>4, <3>5, Reserved
    <3>7. CASE c \in g.told[Top]
      BY <1>7, <2>2, <3>2, <3>7
    <3>8. ASSUME NEW q \in SubSpaces, c[1] \in ToSet(m.trail[q])
          PROVE  c \in ToSet(k.script[r]) \/ \E a \in Over(k, r) : c \in g.told[a]
      <4>1. c \in g.told[q]
        BY <1>1, <3>4, <3>6, <3>8 DEF Trails
      <4>2. CASE q = s
        BY <2>2, <3>1, <3>6, <3>8, <4>2
      <4>3. CASE q # s
        <5>1. m.trail[q] # << >>
          BY <3>8, ToSetFacts
        <5>2. q \in Current(k)
          BY <1>1, <1>6, <4>3, <5>1 DEF Installed
        <5> QED BY <2>2, <3>2, <4>1, <5>2
      <4> QED BY <4>2, <4>3
    <3> QED BY <1>1, <3>4, <3>6, <3>7, <3>8 DEF Bindings
  <2> QED BY <2>1, <2>2
<1>19. Failures(k, g)
  <2>1. m.status[s] = "normal"
    BY <1>1 DEF Installed
  <2>2. \A r \in g.killed : k.status[r] = "failed"
    BY <1>1, <1>10, <2>1 DEF Failures, Histories
  <2>3. ASSUME NEW r \in SubSpaces, k.status[r] = "failed"
        PROVE  Path(k, r) \cap g.killed # {} \/ Contradict(g, Path(k, r))
    <3>1. CASE r = s
      <4>1. Contradict(g, Current(m))
        BY <2>3, <3>1 DEF Leaves
      <4> QED BY <1>2, <1>5, <3>1, <4>1 DEF Current
    <3>2. CASE r # s
      <4>1. m.status[r] = "failed"
        BY <1>10, <2>3, <3>2
      <4>2. Path(k, r) = Path(m, r)
        BY <1>5, <1>8, <4>1 DEF Spaces
      <4> QED BY <1>1, <4>1, <4>2 DEF Failures
    <3> QED BY <3>1, <3>2
  <2> QED BY <2>2, <2>3 DEF Failures
<1>20. Unborn(k, g)
  <2>1. k.status[s] # "none"
    BY DEF Leaves
  <2> QED BY <1>1, <1>10, <2>1 DEF Unborn
<1> QED BY <1>13, <1>14, <1>15, <1>16, <1>17, <1>18, <1>19, <1>20 DEF Core

\* A space fails.
LEMMA CondemnSteady ==
    ASSUME NEW m, WellRun(m), NEW s \in Below(m), m.status[s] = "normal",
           NEW k \in Machine, Agree(m, k, Silent \cup {"status"}),
           k.status = [m.status EXCEPT ![s] = "failed"]
    PROVE  WellRun(k) /\ Steady(m, k)
<1>1. /\ k.parent = m.parent /\ k.running = m.running
      /\ k.at = m.at /\ k.kind = m.kind /\ k.runnable = m.runnable
      /\ k.terminated = m.terminated /\ k.pendings = m.pendings
  BY DEF Agree, Fields, Silent
<1>2. s \in Spaces /\ s # Top /\ m.status \in [Spaces -> {"none", "normal", "failed", "merged"}]
  BY DEF Below, Standing, Created, WellRun, Machine
<1>3. \A r \in Spaces : k.status[r] = IF r = s THEN "failed" ELSE m.status[r]
  BY <1>2
<1>4. Created(k) = Created(m)
  <2>1. \A r \in Spaces : r \in Created(k) <=> r \in Created(m)
    BY <1>3 DEF Created
  <2>2. Created(k) \subseteq Spaces /\ Created(m) \subseteq Spaces
    BY DEF Created
  <2> QED BY <2>1, <2>2
<1>5. Tree(k)
  <2>1. PICK rank : Ranked(m, rank)
    BY DEF WellRun, Tree
  <2>2. Ranked(k, rank)
    BY <1>1, <1>2, <1>3, <1>4, <2>1, Sets DEF Ranked
  <2> QED BY <2>2 DEF Tree
<1>6. Placed(k)
  BY <1>1, <1>4 DEF Placed, WellRun
<1>7. Lively(k)
  BY <1>1, <1>3, Sets DEF Lively, WellRun
<1>8. WellRun(k)
  BY <1>5, <1>6, <1>7 DEF WellRun
<1>9. \A r \in Spaces : k.status[r] = m.status[r] \/ (m.status[r] = "normal" /\ k.status[r] = "failed")
  BY <1>3
<1> QED BY <1>1, <1>8, <1>9 DEF Steady

\* undoConstraints unbinds the variables of a trail, and empties it.
LEMMA RestoreFacts ==
    ASSUME NEW m \in Machine, NEW s \in SubSpaces, NEW k, k = Restore(m, s)
    PROVE  /\ k \in Machine /\ Agree(m, k, {"bound", "trail"})
           /\ \A v \in Store : k.bound[v] = IF v \in ToSet(m.trail[s]) THEN None ELSE m.bound[v]
           /\ \A r \in SubSpaces : k.trail[r] = IF r = s THEN << >> ELSE m.trail[r]
<1>1. m.trail[s] \in Seq(Store)
  BY DEF Machine
<1>2. ToSet(m.trail[s]) = {m.trail[s][i] : i \in 1..Len(m.trail[s])}
  BY <1>1, ToSetFacts
<1>3. \A v : Contains(m.trail[s], v) <=> v \in ToSet(m.trail[s])
  BY <1>2 DEF Contains
<1>4. PICK b : b = [v \in Store |-> IF Contains(m.trail[s], v) THEN None ELSE m.bound[v]]
  OBVIOUS
<1>5. \A v \in Store : b[v] = IF v \in ToSet(m.trail[s]) THEN None ELSE m.bound[v]
  BY <1>3, <1>4
<1>6. b \in [Store -> Values \cup {None, "unit"}]
  BY <1>4 DEF Machine
<1>7. PICK tr : tr = [m.trail EXCEPT ![s] = << >>]
  OBVIOUS
<1>8. /\ tr \in [SubSpaces -> Seq(Store)]
      /\ \A r \in SubSpaces : tr[r] = IF r = s THEN << >> ELSE m.trail[r]
  <2>1. m.trail \in [SubSpaces -> Seq(Store)] /\ << >> \in Seq(Store)
    BY DEF Machine
  <2> QED BY <1>7, <2>1
<1>9. k = [m EXCEPT !.bound = b, !.trail = tr]
  BY <1>4, <1>7 DEF Restore
<1>10. k \in Machine /\ Agree(m, k, {"bound", "trail"}) /\ k.bound = b /\ k.trail = tr
  BY <1>6, <1>8, <1>9, ZenonT(60) DEF Machine, Agree, Fields
<1> QED BY <1>5, <1>8, <1>10

\* Space s or one below it has a thread that is runnable, and is alive.
Called(m, s) == \E r \in Live(m) : s \in Path(m, r) /\ Ready(m, r) # {}
\* What Space::fail needs, to count
Counted(m, s) == Called(m, s) \/ Parent(m, s) = Top

\* The counts are exact, and those above s count it.
Fails(m, s) == Spent(m) \/ (Books(m, Top) /\ Counted(m, s))

\* The current space is alive.
LEMMA CurrentLive ==
    ASSUME NEW m, NEW g, NEW h, Core(m, g, h), m.space \in SubSpaces
    PROVE  m.space \in Live(m)
  BY DEF Core, Installed, Current, Live, IsAlive

\* Above a space that fails, spaces are alive.
LEMMA ParentLives ==
    ASSUME NEW m, WellRun(m), NEW s \in Live(m), NEW k, Steady(m, k),
           \A r \in Spaces : r # s => k.status[r] = m.status[r]
    PROVE  Parent(m, s) \in Live(k) \cup {Top}
<1>1. PICK p : p = Parent(m, s)
  OBVIOUS
<1>2. s \in Below(m)
  BY Sets, SpacesAssumption DEF Live, Below, Standing, Created
<1>3. /\ p \in Standing(m) /\ Path(m, s) = {s} \cup Path(m, p)
      /\ s \notin Path(m, p)
  BY <1>1, <1>2, OverParent
<1>4. PICK rank : Ranked(m, rank)
  BY DEF WellRun, Tree
<1>5. p \in Path(m, p) /\ Path(m, p) \subseteq Standing(m)
  BY <1>3, <1>4, PathFacts
<1>6. CASE p # Top
  <2>1. p \in Live(m)
    BY <1>3, <1>5, <1>6, LivePath
  <2>2. Path(k, p) = Path(m, p)
    BY <1>3, SteadyTree DEF Likewise
  <2>3. \A a \in Path(m, p) : k.status[a] = m.status[a]
    BY <1>3, <1>5 DEF Standing, Created
  <2>4. p \in Live(k)
    BY <1>5, <2>1, <2>2, <2>3 DEF Live, IsAlive
  <2> QED BY <1>1, <2>4
<1> QED BY <1>1, <1>6

\* As soon as something is due, the count is not zero.
LEMMA DueCounts ==
    ASSUME NEW m \in Machine, Tallied(m, Top), NEW s \in Live(m),
           NEW e, e \in Ready(m, s) \/ e \in Busy(m, s)
    PROVE  m.count[s] > 0
<1>1. /\ IsFiniteSet(Ready(m, s)) /\ Cardinality(Ready(m, s)) \in Nat
      /\ IsFiniteSet(Busy(m, s)) /\ Cardinality(Busy(m, s)) \in Nat
  BY DueFinite
<1>2. m.count[s] = Due(m, s)
  <2>1. s # Top
    BY SpacesAssumption DEF Live
  <2>2. m.count[s] = Due(m, s) + 0
    BY <2>1 DEF Tallied
  <2> QED BY <1>1, <2>2 DEF Due
<1>3. Cardinality(Ready(m, s)) # 0 \/ Cardinality(Busy(m, s)) # 0
  BY <1>1, FS_EmptySet
<1> QED BY <1>1, <1>2, <1>3 DEF Due

\* What counts in a space is counted in the spaces above it.
LEMMA CountsUp ==
    ASSUME NEW m, WellRun(m), Tallied(m, Top), NEW s \in Live(m), m.count[s] > 0,
           NEW a \in Path(m, s), a # Top
    PROVE  m.count[a] > 0
<1>1. PICK rank : Ranked(m, rank)
  BY DEF WellRun, Tree
<1>2. m \in Machine
  BY DEF WellRun
<1>3. PICK S : S = {x \in Created(m) : x \in Live(m) /\ m.count[x] > 0 =>
                                         \A b \in Path(m, x) \ {Top} : m.count[b] > 0}
  OBVIOUS
<1>4. Inherited(m, rank, S)
  <2> SUFFICES ASSUME NEW x \in Created(m), x \in Live(m), m.count[x] > 0,
                      \A y \in Created(m) : rank[y] < rank[x] => y \in S,
                      NEW b \in Path(m, x), b # Top
               PROVE  m.count[b] > 0
    BY <1>3 DEF Inherited
  <2>1. x \in SubSpaces /\ x # Top /\ m.status[x] = "normal"
    BY SpacesAssumption DEF Live
  <2>2. x \in Below(m) /\ x \in Standing(m)
    BY <2>1, Sets DEF Below, Standing, Created
  <2>3. PICK p \in Standing(m) : p = Parent(m, x) /\ rank[p] < rank[x]
    BY <1>1, <2>1, ParentFacts
  <2>4. Path(m, x) = {x} \cup Path(m, p)
    BY <2>2, <2>3, OverParent
  <2>5. CASE b = x
    BY <2>5
  <2>6. CASE b # x
    <3>1. b \in Path(m, p)
      BY <2>4, <2>6
    <3>2. p # Top
      BY <1>1, <3>1, PathFacts
    <3>3. p \in Path(m, x)
      BY <1>1, <2>4, PathFacts
    <3>4. p \in Live(m)
      BY <3>2, <3>3, LivePath
    <3>5. x \in Busy(m, p)
      BY <2>1, <2>3 DEF Busy
    <3>6. m.count[p] > 0
      BY <1>2, <3>4, <3>5, DueCounts
    <3>7. p \in S
      BY <2>3 DEF Standing
    <3> QED BY <1>3, <3>1, <3>4, <3>6, <3>7
  <2> QED BY <2>5, <2>6
<1>5. s \in Created(m)
  BY Sets DEF Live, Created
<1>6. s \in S
  BY <1>1, <1>4, <1>5, TreeInduction
<1> QED BY <1>3, <1>6

\* A space that is called has a count.
LEMMA CalledCounts ==
    ASSUME NEW m, WellRun(m), Tallied(m, Top), NEW s, s # Top, Called(m, s)
    PROVE  m.count[s] > 0
<1>1. PICK r \in Live(m) : s \in Path(m, r) /\ Ready(m, r) # {}
  BY DEF Called
<1>2. m.count[r] > 0
  BY <1>1, DueCounts DEF WellRun
<1> QED BY <1>1, <1>2, CountsUp

\* When a space fails or is killed, its parent still counts it.
LEMMA CondemnBooks ==
    ASSUME NEW m, WellRun(m), NEW s \in Live(m), Books(m, Top), Counted(m, s),
           NEW k \in Machine, Steady(m, k), Agree(m, k, Quiet \cup {"status"}),
           k.status = [m.status EXCEPT ![s] = "failed"]
    PROVE  Books(k, Parent(m, s))
<1>1. /\ m \in Machine /\ s \in SubSpaces /\ s \in Spaces /\ s # Top /\ m.status[s] = "normal"
      /\ s \in Created(m) /\ s \in Below(m)
  BY Sets, SpacesAssumption DEF WellRun, Live, Created, Below, Standing
<1>2. /\ k.parent = m.parent /\ k.count = m.count /\ k.runnable = m.runnable
      /\ k.running = m.running /\ k.at = m.at /\ k.kind = m.kind /\ k.pendings = m.pendings
  BY DEF Agree, Fields, Quiet
<1>3. Likewise(m, k)
  BY SteadyTree
<1>4. \A r \in Spaces : k.status[r] = IF r = s THEN "failed" ELSE m.status[r]
  BY <1>1 DEF Machine
<1>5. PICK p : p = Parent(m, s)
  OBVIOUS
<1>6. Tallied(m, Top) /\ Counters(m) /\ Queued(m) /\ Scheduled(m)
  BY DEF Books
<1>7. m.count[s] > 0 \/ p = Top
  BY <1>1, <1>5, <1>6, CalledCounts DEF Counted
<1>8. Counters(k)
  <2> SUFFICES ASSUME NEW x \in SubSpaces
               PROVE  /\ k.count[x] >= 0
                      /\ k.status[x] = "none" => k.count[x] = 0
                      /\ k.status[x] = "failed" => k.count[x] > 0 \/ Parent(k, x) = Top
    BY DEF Counters
  <2>1. /\ m.count[x] >= 0
        /\ m.status[x] = "none" => m.count[x] = 0
        /\ m.status[x] = "failed" => m.count[x] > 0 \/ Parent(m, x) = Top
    BY <1>6 DEF Counters
  <2>2. x \in Spaces /\ x # Top
    BY SpacesAssumption, Sets
  <2>3. x \in Created(m) => Parent(k, x) = Parent(m, x)
    BY <1>3, <2>2 DEF Likewise
  <2>4. m.status[x] # "none" => x \in Created(m)
    BY <2>2 DEF Created
  <2> QED BY <1>1, <1>2, <1>4, <1>5, <1>7, <2>1, <2>2, <2>3, <2>4
<1>9. Queued(k) /\ Scheduled(k)
  BY <1>2, <1>6 DEF Queued, Scheduled
<1>10. ASSUME NEW r \in Live(k) PROVE k.count[r] = Due(k, r) + IF r = p THEN 1 ELSE 0
  <2>1. r \in SubSpaces /\ r \in Spaces /\ r # Top /\ k.status[r] = "normal"
    BY SpacesAssumption, Sets DEF Live
  <2>2. r # s /\ m.status[r] = "normal"
    BY <1>4, <2>1
  <2>3. r \in Standing(m)
    BY <2>1, <2>2 DEF Standing, Created
  <2>4. Path(k, r) = Path(m, r) /\ Path(m, r) \subseteq Spaces
    <3>1. PICK rank : Ranked(m, rank)
      BY DEF WellRun, Tree
    <3>2. Path(m, r) \subseteq Standing(m)
      BY <2>3, <3>1, PathFacts
    <3> QED BY <1>3, <2>3, <3>2 DEF Likewise, Standing, Created
  <2>5. r \in Live(m)
    BY <1>4, <2>1, <2>2, <2>4 DEF Live, IsAlive
  <2>6. Ready(k, r) = Ready(m, r)
    <3>1. ASSUME NEW t \in m.runnable PROVE SpaceOf(k, t) = SpaceOf(m, t)
      <4>1. m.at[t] \in Created(m)
        BY <1>1 DEF WellRun, Machine, Placed
      <4> QED BY <1>2, <1>3, <4>1 DEF Likewise, SpaceOf
    <3> QED BY <1>2, <3>1 DEF Ready
  <2>7. \A c \in SubSpaces :
           /\ c \in Busy(m, r) <=> m.status[c] = "normal" /\ Parent(m, c) = r /\ m.count[c] > 0
           /\ c \in Busy(k, r) <=> k.status[c] = "normal" /\ Parent(k, c) = r /\ k.count[c] > 0
    BY DEF Busy
  <2>8. \A c \in SubSpaces : m.status[c] = "normal" => Parent(k, c) = Parent(m, c)
    BY <1>3, Sets, SpacesAssumption DEF Likewise, Created
  <2>9. \A c \in SubSpaces : k.status[c] = IF c = s THEN "failed" ELSE m.status[c]
    BY <1>4, Sets
  <2>10. Busy(k, r) = Busy(m, r) \ {s}
    <3>1. Busy(m, r) \subseteq SubSpaces /\ Busy(k, r) \subseteq SubSpaces
      BY DEF Busy
    <3> QED BY <1>2, <2>7, <2>8, <2>9, <3>1
  <2>11. /\ IsFiniteSet(Busy(m, r)) /\ Cardinality(Busy(m, r)) \in Nat
         /\ Cardinality(Ready(m, r)) \in Nat
    BY <1>1, DueFinite
  <2>12. m.count[r] = Due(m, r)
    <3>1. m.count[r] = Due(m, r) + 0
      BY <1>6, <2>1, <2>5 DEF Tallied
    <3> QED BY <2>11, <3>1 DEF Due
  <2>13. CASE r = p
    <3>1. s \in Busy(m, r)
      BY <1>1, <1>5, <1>7, <2>1, <2>7, <2>13
    <3>2. Cardinality(Busy(k, r)) = Cardinality(Busy(m, r)) - 1
      BY <2>10, <2>11, <3>1, FS_RemoveElement
    <3> QED BY <1>2, <2>6, <2>11, <2>12, <2>13, <3>2 DEF Due
  <2>14. CASE r # p
    <3>1. Busy(k, r) = Busy(m, r)
      BY <1>1, <1>5, <2>7, <2>10, <2>14
    <3> QED BY <1>2, <2>6, <2>11, <2>12, <2>14, <3>1 DEF Due
  <2> QED BY <2>13, <2>14
<1> QED BY <1>5, <1>8, <1>9, <1>10 DEF Books, Tallied

\* Space::fail, where what was told is contradictory, keeps what is known.
LEMMA FailKeeps ==
    ASSUME NEW m, WellRun(m), NEW g \in Histories, NEW s, s = m.space, s # Top,
           NEW h \in {None, s}, Core(m, g, h), Contradict(g, Current(m)),
           NEW k, k = Fail(m, s)
    PROVE  /\ WellRun(k) /\ Steady(m, k) /\ Core(k, g, None)
           /\ k.space = Parent(m, s) /\ k.status[s] = "failed"
           /\ Stays(m, k) /\ (Fails(m, s) => Sound(k, Top))
<1>1. /\ m \in Machine /\ s \in Below(m) /\ s \in SubSpaces /\ s \in Spaces /\ m.status[s] = "normal"
  BY Here DEF WellRun, Core, Installed
<1>2. PICK p \in Standing(m) : p = Parent(m, s)
  BY <1>1, OverParent
<1>3. PICK st : st = [m.status EXCEPT ![s] = "failed"]
  OBVIOUS
<1>4. st \in [Spaces -> {"none", "normal", "failed", "merged"}]
  BY <1>1, <1>3 DEF Machine
<1>5. PICK m0 : m0 = [m EXCEPT !.status = st]
  OBVIOUS
<1>6. m0 \in Machine /\ Agree(m, m0, {"status"}) /\ m0.status = st
  BY <1>1, <1>4, <1>5 DEF Machine, Agree, Fields
<1>7. Agree(m, m0, Silent \cup {"status"})
  BY <1>6 DEF Agree
<1>8. WellRun(m0) /\ Steady(m, m0)
  BY <1>1, <1>3, <1>6, <1>7, CondemnSteady
<1>9. p \in Standing(m0)
  BY <1>2, <1>8, SteadyTree DEF Likewise
<1>10. PICK m1 : m1 = Dec(m0, p)
  OBVIOUS
<1>11. Murmur(m0, m1)
  BY <1>8, <1>9, <1>10, DecMurmurs
<1>28. Stays(m0, m1) /\ (p \in Live(m0) \cup {Top} /\ Sound(m0, p) => Sound(m1, Top))
  BY <1>8, <1>9, <1>10, DecMurmurs
<1>29. s \in Live(m)
  BY <1>1, CurrentLive
<1>30. p \in Live(m0) \cup {Top}
  <2>1. \A r \in Spaces : r # s => m0.status[r] = m.status[r]
    BY <1>1, <1>3, <1>6 DEF Machine
  <2> QED BY <1>2, <1>8, <1>29, <2>1, ParentLives
<1>31. Stays(m, m0) /\ (Spent(m) => Spent(m0))
  BY <1>6 DEF Stays, Spent, Agree, Fields
<1>32. Fails(m, s) => Sound(m0, p)
  <2>1. Agree(m, m0, Quiet \cup {"status"})
    BY <1>6 DEF Agree
  <2>2. Books(m, Top) /\ Counted(m, s) => Books(m0, p)
    BY <1>2, <1>3, <1>6, <1>8, <1>29, <2>1, CondemnBooks
  <2> QED BY <1>31, <2>2 DEF Fails, Sound
<1>33. Stays(m, m1) /\ (Fails(m, s) => Sound(m1, Top))
  BY <1>28, <1>30, <1>31, <1>32, StaysOn
<1>12. PICK m2 : m2 = Restore(m1, s)
  OBVIOUS
<1>13. /\ m2 \in Machine /\ Agree(m1, m2, {"bound", "trail"})
       /\ \A v \in Store : m2.bound[v] = IF v \in ToSet(m1.trail[s]) THEN None ELSE m1.bound[v]
       /\ \A r \in SubSpaces : m2.trail[r] = IF r = s THEN << >> ELSE m1.trail[r]
  BY <1>1, <1>11, <1>12, RestoreFacts DEF Murmur, WellRun
<1>14. PICK m3 : m3 = [m2 EXCEPT !.space = p]
  OBVIOUS
<1>15. m3 \in Machine /\ Agree(m2, m3, {"space"}) /\ m3.space = p
  <2>1. p \in Spaces
    BY <1>2 DEF Standing, Created
  <2> QED BY <1>13, <1>14, <2>1 DEF Machine, Agree, Fields
<1>16. Agree(m1, m3, Constraints)
  BY <1>13, <1>15 DEF Agree, Constraints
<1>17. WellRun(m3) /\ Steady(m, m3)
  <2>1. WellRun(m3) /\ Steady(m1, m3)
    BY <1>11, <1>15, <1>16, ConstraintsSteady DEF Murmur
  <2>2. Steady(m0, m1)
    BY <1>11, MurmurSteady
  <2>3. Steady(m, m1)
    BY <1>8, <2>2, SteadyOn
  <2> QED BY <2>1, <2>3, SteadyOn
<1>18. /\ m1.trail = m.trail /\ m1.bound = m.bound /\ m1.script = m.script /\ m1.status = st
  <2>1. m1.trail = m0.trail /\ m1.bound = m0.bound /\ m1.script = m0.script /\ m1.status = m0.status
    BY <1>11, MurmurCore DEF Murmur
  <2>2. m0.trail = m.trail /\ m0.bound = m.bound /\ m0.script = m.script
    BY <1>6 DEF Agree, Fields
  <2> QED BY <1>6, <2>1, <2>2
<1>19. /\ m3.trail = m2.trail /\ m3.bound = m2.bound /\ m3.script = m1.script /\ m3.status = m1.status
       /\ m3.home = m1.home /\ m3.optimized = m1.optimized
  BY <1>13, <1>15 DEF Agree, Fields
<1>20. Leaves(m, m3, g, h, s)
  <2>1. \A r \in SubSpaces \ {s} : m3.status[r] = m.status[r]
    BY <1>1, <1>3, <1>18, <1>19, Sets DEF Machine
  <2>2. m3.status[s] = "failed"
    BY <1>1, <1>3, <1>18, <1>19 DEF Machine
  <2> QED BY <1>2, <1>13, <1>15, <1>18, <1>19, <2>1, <2>2 DEF Leaves
<1>21. Homes(m3)
  <2>1. Homes(m)
    BY DEF Core
  <2>2. m0.home = m.home /\ m0.optimized = m.optimized
    BY <1>6 DEF Agree, Fields
  <2> QED BY <1>11, <1>19, <2>1, <2>2 DEF Murmur, Homes
<1>22. Core(m3, g, None)
  BY <1>17, <1>20, <1>21, LeaveKeeps
<1>23. k = BindStatusVar(m3, s, "failed")
  <2>1. [m EXCEPT !.status[s] = "failed"] = m0
    BY <1>3, <1>5
  <2> QED BY <1>2, <1>10, <1>12, <1>14, <2>1 DEF Fail
<1>24. Murmur(m3, k) /\ Tallies(m3, k)
  <2>1. "failed" \in Answers
    BY DEF Answers
  <2> QED BY <1>1, <1>17, <1>23, <2>1, BindStatusVarMurmurs
<1>25. WellRun(k) /\ Steady(m, k)
  BY <1>17, <1>24, MurmurSteady, SteadyOn DEF Murmur
<1>26. Core(k, g, None)
  BY <1>22, <1>24, MurmurKeeps
<1>27. k.space = p /\ k.status = m3.status
  BY <1>15, <1>24, MurmurAside DEF Aside
<1>34. Tallies(m1, k)
  <2>1. Agree(m1, m3, Quiet)
    BY <1>16 DEF Agree, Constraints, Quiet
  <2>2. Tallies(m1, m3)
    BY <2>1, QuietTallies
  <2> QED BY <1>24, <2>2, TalliesOn
<1>35. Stays(m, k) /\ (Fails(m, s) => Sound(k, Top))
  BY <1>33, <1>34, StaysOn DEF Tallies
<1> QED BY <1>35, <1>2, <1>20, <1>25, <1>26, <1>27, <1>1, <1>3, <1>18, <1>19 DEF Machine

\* A trail, as equations
LEMMA MovedFacts ==
    ASSUME NEW m \in Machine, NEW s \in SubSpaces,
           NEW q, q = [i \in DOMAIN m.trail[s] |-> <<m.trail[s][i], m.bound[m.trail[s][i]]>>]
    PROVE  q \in Seq(Pairs) /\ ToSet(q) = {<<v, m.bound[v]>> : v \in ToSet(m.trail[s])}
<1>1. PICK u \in Seq(Store) : u = m.trail[s]
  BY DEF Machine
<1>2. PICK n \in Nat : n = Len(u) /\ DOMAIN u = 1..n /\ \A i \in 1..n : u[i] \in Store
  BY <1>1
<1>3. q = [i \in 1..n |-> <<u[i], m.bound[u[i]]>>]
  BY <1>1, <1>2
<1>4. \A v \in Store : <<v, m.bound[v]>> \in Pairs
  BY DEF Machine, Pairs
<1>5. PICK r : r = q
  OBVIOUS
<1>6. r \in [1..n -> Pairs] /\ \A i \in 1..n : r[i] = <<u[i], m.bound[u[i]]>>
  <2>1. ASSUME NEW i \in 1..n PROVE <<u[i], m.bound[u[i]]>> \in Pairs
    BY <1>2, <1>4
  <2> QED BY <1>3, <1>5, <2>1
<1>7. r \in Seq(Pairs) /\ DOMAIN r = 1..n
  <2>1. PICK P : P = Pairs
    OBVIOUS
  <2>2. r \in [1..n -> P]
    BY <1>6, <2>1
  <2>3. r \in Seq(P) /\ DOMAIN r = 1..n
    BY <2>2
  <2> QED BY <2>1, <2>3
<1>8. ToSet(r) = {r[i] : i \in 1..n} /\ ToSet(u) = {u[i] : i \in 1..n}
  BY <1>2, <1>7 DEF ToSet
<1>9. ToSet(r) = {<<v, m.bound[v]>> : v \in ToSet(u)}
  <2>1. \A i \in 1..n : r[i] = <<u[i], m.bound[u[i]]>>
    BY <1>6
  <2>2. ASSUME NEW c \in ToSet(r) PROVE \E v \in ToSet(u) : c = <<v, m.bound[v]>>
    <3>1. PICK i \in 1..n : c = r[i]
      BY <1>8
    <3> QED BY <1>8, <2>1, <3>1
  <2>3. ASSUME NEW v \in ToSet(u) PROVE <<v, m.bound[v]>> \in ToSet(r)
    <3>1. PICK i \in 1..n : v = u[i]
      BY <1>8
    <3> QED BY <1>8, <2>1, <3>1
  <2> QED BY <2>2, <2>3
<1> QED BY <1>1, <1>5, <1>7, <1>9

\* deinstallThis turns the trail into the script, and goes to the parent.
LEMMA DeinstallThisKeeps ==
    ASSUME NEW m, WellRun(m), NEW g \in Histories, Core(m, g, None),
           NEW s, s = m.space, s # Top, NEW k, k = DeinstallThis(m, s)
    PROVE  /\ WellRun(k) /\ Steady(m, k) /\ Core(k, g, None)
           /\ k.space = Parent(m, s) /\ k.status = m.status
           /\ Tallies(m, k)
<1>1. /\ m \in Machine /\ s \in Below(m) /\ s \in SubSpaces /\ s \in Spaces /\ s \in Current(m)
      /\ m.status[s] = "normal" /\ s \in Created(m)
  BY Here DEF WellRun, Core, Installed, Below, Standing
<1>2. PICK p \in Standing(m) : p = Parent(m, s)
  BY <1>1, OverParent
<1>3. PICK m1 : m1 = IF m.count[s] <= 0 /\ m.trail[s] # << >>
                     THEN PropagateOn(m, FreeHelper(m), s) ELSE m
  OBVIOUS
<1>4. Murmur(m, m1) /\ Tallies(m, m1)
  <2>1. Murmur(m, m) /\ Tallies(m, m)
    BY MurmurSelf, TalliesSelf
  <2>2. /\ Murmur(m, PropagateOn(m, FreeHelper(m), s))
        /\ Tallies(m, PropagateOn(m, FreeHelper(m), s))
    BY <1>1, PropagateOnMurmurs
  <2> QED BY <1>3, <2>1, <2>2
<1>5. PICK q : q = [i \in DOMAIN m.trail[s] |-> <<m.trail[s][i], m.bound[m.trail[s][i]]>>]
  OBVIOUS
<1>6. q \in Seq(Pairs) /\ ToSet(q) = {<<v, m.bound[v]>> : v \in ToSet(m.trail[s])}
  BY <1>1, <1>5, MovedFacts
<1>7. /\ m1.trail = m.trail /\ m1.bound = m.bound /\ m1.script = m.script /\ m1.status = m.status
      /\ m1.parent = m.parent
  BY <1>4, MurmurCore DEF Murmur
<1>8. PICK m2 : m2 = Restore(m1, s)
  OBVIOUS
<1>9. /\ m2 \in Machine /\ Agree(m1, m2, {"bound", "trail"})
      /\ \A v \in Store : m2.bound[v] = IF v \in ToSet(m1.trail[s]) THEN None ELSE m1.bound[v]
      /\ \A r \in SubSpaces : m2.trail[r] = IF r = s THEN << >> ELSE m1.trail[r]
  BY <1>1, <1>4, <1>8, RestoreFacts DEF Murmur, WellRun
<1>10. m2.script = m.script
  BY <1>7, <1>9 DEF Agree, Fields
<1>11. PICK sc : sc = [m.script EXCEPT ![s] = q]
  OBVIOUS
<1>12. sc \in [SubSpaces -> Seq(Pairs)] /\ sc[s] = q /\ \A r \in SubSpaces \ {s} : sc[r] = m.script[r]
  BY <1>1, <1>6, <1>11 DEF Machine
<1>13. PICK m3 : m3 = [m2 EXCEPT !.script = sc, !.space = p]
  OBVIOUS
<1>14. m3 \in Machine /\ Agree(m2, m3, {"space", "script"}) /\ m3.space = p /\ m3.script = sc
  <2>1. p \in Spaces
    BY <1>2 DEF Standing, Created
  <2> QED BY <1>9, <1>12, <1>13, <2>1 DEF Machine, Agree, Fields
<1>15. Agree(m1, m3, Constraints)
  BY <1>9, <1>14 DEF Agree, Constraints
<1>16. WellRun(m3) /\ Steady(m, m3)
  <2>1. WellRun(m3) /\ Steady(m1, m3)
    BY <1>4, <1>14, <1>15, ConstraintsSteady DEF Murmur
  <2>2. Steady(m, m1)
    BY <1>4, MurmurSteady
  <2> QED BY <2>1, <2>2, SteadyOn
<1>17. /\ m3.trail = m2.trail /\ m3.bound = m2.bound /\ m3.status = m1.status
       /\ m3.home = m1.home /\ m3.optimized = m1.optimized
  BY <1>9, <1>14 DEF Agree, Fields
<1>18. Leaves(m, m3, g, None, s)
  BY <1>1, <1>2, <1>6, <1>7, <1>9, <1>12, <1>14, <1>17 DEF Leaves
<1>19. Homes(m3)
  <2>1. Homes(m)
    BY DEF Core
  <2> QED BY <1>4, <1>17, <2>1 DEF Murmur, Homes
<1>20. Core(m3, g, None)
  BY <1>16, <1>18, <1>19, LeaveKeeps
<1>21. k = m3
  <2>1. m.script[s] = << >>
    BY <1>1, Sets DEF Core, Installed
  <2>2. m.script[s] \o q = q
    BY <1>6, <2>1
  <2>3. [m2 EXCEPT !.script[s] = @ \o q, !.space = p] = m3
    BY <1>10, <1>11, <1>13, <2>2
  <2> QED BY <1>2, <1>3, <1>5, <1>8, <2>3 DEF DeinstallThis
<1>22. Tallies(m, m3)
  <2>1. Agree(m1, m3, Quiet)
    BY <1>15 DEF Agree, Constraints, Quiet
  <2> QED BY <1>4, <2>1, QuietTallies, TalliesOn
<1> QED BY <1>2, <1>7, <1>14, <1>16, <1>17, <1>20, <1>21, <1>22

\* A space that constrains nothing is left as it is.
LEMMA PopKeeps ==
    ASSUME NEW m, WellRun(m), NEW g \in Histories, Core(m, g, None),
           NEW s, s = m.space, s # Top, m.trail[s] = << >>,
           NEW k, k = [m EXCEPT !.space = Parent(m, s)]
    PROVE  WellRun(k) /\ Steady(m, k) /\ Core(k, g, None)
<1>1. /\ m \in Machine /\ s \in Below(m) /\ s \in SubSpaces /\ s \in Spaces /\ s \in Current(m)
      /\ m.status[s] = "normal"
  BY Here DEF WellRun, Core, Installed
<1>2. PICK p \in Standing(m) : p = Parent(m, s) /\ p \in Spaces
  BY <1>1, OverParent DEF Standing, Created
<1>3. k \in Machine /\ Agree(m, k, {"space"}) /\ k.space = p
  BY <1>1, <1>2 DEF Machine, Agree, Fields
<1>4. Agree(m, k, Constraints)
  BY <1>3 DEF Agree, Constraints
<1>5. WellRun(k) /\ Steady(m, k)
  BY <1>3, <1>4, ConstraintsSteady
<1>6. /\ k.trail = m.trail /\ k.bound = m.bound /\ k.status = m.status /\ k.script = m.script
      /\ k.home = m.home /\ k.optimized = m.optimized
  BY <1>3 DEF Agree, Fields
<1>7. m.script[s] = << >>
  BY <1>1, Sets DEF Core, Installed
<1>8. ToSet(m.trail[s]) = {} /\ ToSet(m.script[s]) = {}
  BY <1>7, ToSetFacts
<1>9. Leaves(m, k, g, None, s)
  BY <1>1, <1>2, <1>3, <1>6, <1>8 DEF Leaves
<1>10. Homes(k)
  BY <1>6 DEF Core, Homes
<1> QED BY <1>5, <1>9, <1>10, LeaveKeeps

-----------------------------------------------------------------------------
(* Calls that enter a space *)

\* The script of a space that is installed, or is no more, is forgotten.
LEMMA ClearKeeps ==
    ASSUME NEW m, WellRun(m), NEW g \in Histories, NEW h, Core(m, g, h),
           NEW s \in SubSpaces, m.status[s] # "normal" \/ s \in Current(m),
           NEW k, k = [m EXCEPT !.script[s] = << >>]
    PROVE  /\ WellRun(k) /\ Steady(m, k) /\ Core(k, g, h)
           /\ Agree(m, k, {"script"}) /\ k.script = [m.script EXCEPT ![s] = << >>]
<1>1. PICK sc : sc = [m.script EXCEPT ![s] = << >>]
  OBVIOUS
<1>2. m \in Machine /\ m.script \in [SubSpaces -> Seq(Pairs)] /\ << >> \in Seq(Pairs)
  BY DEF WellRun, Machine
<1>3. /\ sc \in [SubSpaces -> Seq(Pairs)]
      /\ \A r \in SubSpaces : sc[r] = IF r = s THEN << >> ELSE m.script[r]
  BY <1>1, <1>2
<1>4. k \in Machine /\ Agree(m, k, {"script"}) /\ k.script = sc
  <2>1. k = [m EXCEPT !.script = sc]
    BY <1>1
  <2> QED BY <1>2, <1>3, <2>1, ZenonT(60) DEF Machine, Agree, Fields
<1>5. Agree(m, k, Constraints)
  BY <1>4 DEF Agree, Constraints
<1>6. WellRun(k) /\ Steady(m, k)
  BY <1>4, <1>5, ConstraintsSteady
<1>7. /\ k.parent = m.parent /\ k.status = m.status /\ k.trail = m.trail /\ k.space = m.space
      /\ k.bound = m.bound /\ k.home = m.home /\ k.optimized = m.optimized
  BY <1>4 DEF Agree, Fields
<1>8. \A x : Path(k, x) = Path(m, x)
  BY <1>7, SameSpaces
<1>9. (\A x : Over(k, x) = Over(m, x)) /\ Current(k) = Current(m)
  BY <1>7, <1>8 DEF Over, Current
<1>10. /\ Homes(m) /\ Installed(m, h) /\ Trails(m, g) /\ Bindings(m, g) /\ Visible(m, g, h)
       /\ Scripts(m, g) /\ Hidden(m, g) /\ Failures(m, g) /\ Unborn(m, g)
  BY DEF Core
<1>11. Installed(k, h)
  BY <1>3, <1>4, <1>7, <1>9, <1>10 DEF Installed
<1>12. Trails(k, g)
  BY <1>7, <1>9, <1>10 DEF Trails
<1>13. Homes(k) /\ Bindings(k, g)
  BY <1>7, <1>10 DEF Homes, Bindings
<1>14. Visible(k, g, h)
  BY <1>7, <1>9, <1>10 DEF Visible
<1>15. Scripts(k, g)
  <2>1. \A r \in SubSpaces : ToSet(k.script[r]) \subseteq ToSet(m.script[r])
    BY <1>3, <1>4, ToSetFacts
  <2> QED BY <1>10, <2>1 DEF Scripts
<1>16. Hidden(k, g)
  <2> SUFFICES ASSUME NEW r \in SubSpaces \ Current(k), k.status[r] = "normal", NEW c \in g.told[r]
               PROVE  c \in ToSet(k.script[r]) \/ \E a \in Over(k, r) : c \in g.told[a]
    BY DEF Hidden
  <2>1. r \notin Current(m) /\ m.status[r] = "normal"
    BY <1>7, <1>9
  <2>2. c \in ToSet(m.script[r]) \/ \E a \in Over(m, r) : c \in g.told[a]
    BY <1>10, <2>1 DEF Hidden
  <2>3. r # s
    BY <2>1
  <2>4. k.script[r] = m.script[r]
    BY <1>3, <1>4, <2>3
  <2> QED BY <1>9, <2>2, <2>4
<1>17. Failures(k, g)
  BY <1>7, <1>8, <1>10 DEF Failures
<1>18. Unborn(k, g)
  BY <1>3, <1>4, <1>7, <1>10 DEF Unborn
<1> QED BY <1>1, <1>4, <1>6, <1>11, <1>12, <1>13, <1>14, <1>15, <1>16, <1>17, <1>18 DEF Core

\* The current space is installed when nothing is left to execute.
LEMMA InstalledNow ==
    ASSUME NEW m, WellRun(m), NEW g \in Histories, NEW h, h = m.space, Core(m, g, h),
           Pending(m, g, {}, h), h = Top \/ m.script[h] = << >>
    PROVE  Core(m, g, None)
<1>1. Installed(m, h) /\ Visible(m, g, h)
  BY DEF Core
<1>2. Visible(m, g, None)
  BY <1>1 DEF Visible, Pending
<1>3. Installed(m, None)
  BY <1>1, SpacesAssumption DEF Installed
<1> QED BY <1>2, <1>3 DEF Core

\* Nothing is left of a script after its last equation.
LEMMA LeftOverEnd == ASSUME NEW q \in Seq(Pairs) PROVE LeftOver(q, Len(q)) = {}
  BY DEF LeftOver

\* It goes on being called while nothing stops.
LEMMA CalledStays ==
    ASSUME NEW m, NEW k, Stays(m, k), ~Spent(k), k.parent = m.parent, k.status = m.status,
           NEW s, Called(m, s)
    PROVE  Called(k, s)
<1>1. PICK r \in Live(m) : s \in Path(m, r) /\ Ready(m, r) # {}
  BY DEF Called
<1>2. /\ \A x : Real(k, x) = Real(m, x) /\ Path(k, x) = Path(m, x)
      /\ \A x : Parent(k, x) = Parent(m, x)
  BY SameSpaces
<1>3. r \in Live(k) /\ s \in Path(k, r)
  BY <1>1, <1>2 DEF Live, IsAlive
<1>4. PICK t \in m.runnable : SpaceOf(m, t) = r
  BY <1>1 DEF Ready
<1>5. t \in k.runnable /\ k.at[t] = m.at[t]
  BY DEF Stays
<1>6. t \in Ready(k, r)
  BY <1>2, <1>4, <1>5 DEF Ready, SpaceOf
<1> QED BY <1>3, <1>6 DEF Called

\* installThis executes the script, and fails the space if it cannot.
LEMMA InstallThisKeeps ==
    ASSUME NEW m, WellRun(m), NEW g \in Histories, Core(m, g, None),
           NEW s \in Below(m), m.status[s] = "normal", Parent(m, s) = m.space,
           NEW k, k = InstallThis([m EXCEPT !.space = s], s)
    PROVE  /\ WellRun(k) /\ Steady(m, k) /\ Core(k, g, None)
           /\ Stays(m, k) /\ (Sound(m, Top) /\ Called(m, s) => Sound(k, Top))
           /\ \/ k.space = s /\ k.status = m.status
              \/ k.space = Parent(m, s) /\ k.status[s] = "failed"
<1>1. PICK n : n = [m EXCEPT !.space = s]
  OBVIOUS
<1>2. /\ WellRun(n) /\ Steady(m, n) /\ Core(n, g, s)
      /\ n.space = s /\ n.script = m.script /\ n.status = m.status
      /\ Pending(n, g, ToSet(n.script[s]), s)
  BY <1>1, EnterKeeps
<1>15. Tallies(m, n) /\ n.parent = m.parent
  <2>1. m \in Machine
    BY DEF WellRun
  <2>2. Agree(m, n, Quiet) /\ n.parent = m.parent
    BY <1>1, <2>1 DEF Machine, Agree, Fields, Quiet
  <2> QED BY <2>2, QuietTallies
<1>3. s \in SubSpaces /\ s \in Spaces /\ s # Top
  BY DEF Below, Standing, Created, Spaces
<1>4. PICK q \in Seq(Pairs) : q = n.script[s]
  BY <1>2, <1>3 DEF WellRun, Machine
<1>5. Executable(n, g, q)
  BY <1>2, <1>3, <1>4 DEF Core, Scripts, Executable
<1>6. PICK acc : acc = Through(Execute, [m |-> n, failed |-> FALSE], q)
  OBVIOUS
<1>7. Progress(n, g, q, Len(q), acc)
  BY <1>2, <1>4, <1>5, <1>6, ScriptRuns
<1>8. PICK d : d = acc.m
  OBVIOUS
<1>9. /\ WellRun(d) /\ Steady(n, d) /\ Core(d, g, s) /\ Aside(n, d)
      /\ d.space = s /\ d.script = m.script /\ d.status = m.status
      /\ acc.failed => Contradict(g, Current(n))
      /\ ~acc.failed => Pending(d, g, {}, s)
  BY <1>2, <1>4, <1>7, <1>8, LeftOverEnd DEF Progress, Aside
<1>16. Tallies(m, d) /\ d.parent = m.parent
  <2>1. Tallies(n, d)
    BY <1>7, <1>8 DEF Progress
  <2>2. d.parent = n.parent
    BY <1>9 DEF Steady
  <2> QED BY <1>15, <2>1, <2>2, TalliesOn
<1>17. Parent(d, s) = Parent(m, s)
  BY <1>9, <1>16, SameSpaces
<1>18. Sound(m, Top) /\ Called(m, s) => Fails(d, s)
  <2> SUFFICES ASSUME Sound(m, Top), Called(m, s), ~Spent(d) PROVE Books(d, Top) /\ Counted(d, s)
    BY DEF Fails
  <2>1. Books(d, Top)
    BY <1>16 DEF Tallies, Sound
  <2>2. Called(d, s)
    BY <1>9, <1>16, CalledStays DEF Tallies
  <2> QED BY <2>1, <2>2 DEF Counted
<1>10. Steady(m, d)
  BY <1>2, <1>9, SteadyOn
<1>11. PICK m1 : m1 = IF acc.failed THEN Fail(d, s) ELSE d
  OBVIOUS
<1>12. k = [m1 EXCEPT !.script[s] = << >>]
  BY <1>1, <1>4, <1>6, <1>8, <1>11 DEF InstallThis
<1>13. CASE acc.failed
  <2>1. Current(d) = Current(n)
    <3>1. s \in Standing(n)
      BY <1>2, Here DEF Core
    <3>2. Path(d, s) = Path(n, s)
      BY <1>2, <1>9, <3>1, SteadyTree DEF Likewise
    <3> QED BY <1>2, <1>9, <3>2 DEF Current
  <2>2. m1 = Fail(d, s)
    BY <1>11, <1>13
  <2>3. /\ WellRun(m1) /\ Steady(d, m1) /\ Core(m1, g, None) /\ m1.status[s] = "failed"
        /\ m1.space = Parent(m, s) /\ Stays(d, m1) /\ (Fails(d, s) => Sound(m1, Top))
    BY <1>3, <1>9, <1>13, <1>17, <2>1, <2>2, FailKeeps
  <2>4. m1.status[s] # "normal" \/ s \in Current(m1)
    BY <2>3
  <2>5. WellRun(k) /\ Steady(m1, k) /\ Core(k, g, None)
    BY <1>3, <1>12, <2>4, <2>3, ClearKeeps
  <2>6. Steady(m, m1)
    BY <1>10, <2>3, SteadyOn
  <2>7. Agree(m1, k, {"script"})
    BY <1>3, <1>12, <2>4, <2>3, ClearKeeps
  <2>8. Tallies(m1, k) /\ k.space = m1.space /\ k.status = m1.status
    <3>1. Agree(m1, k, Quiet)
      BY <2>7 DEF Agree, Quiet
    <3> QED BY <2>7, <3>1, QuietTallies DEF Agree, Fields
  <2>9. Stays(m, k)
    BY <1>16, <2>3, <2>8, StaysOn DEF Tallies
  <2>10. Sound(m, Top) /\ Called(m, s) => Sound(k, Top)
    BY <1>18, <2>3, <2>8 DEF Tallies
  <2> QED BY <2>3, <2>5, <2>6, <2>8, <2>9, <2>10, SteadyOn
<1>14. CASE ~acc.failed
  <2>1. m1 = d
    BY <1>11, <1>14
  <2>2. d.status[s] # "normal" \/ s \in Current(d)
    BY <1>9, Here DEF Core
  <2>3. k = [d EXCEPT !.script[s] = << >>]
    BY <1>12, <2>1
  <2>4. /\ WellRun(k) /\ Steady(d, k) /\ Core(k, g, s)
        /\ Agree(d, k, {"script"}) /\ k.script = [d.script EXCEPT ![s] = << >>]
    BY <1>3, <1>9, <2>3, <2>2, ClearKeeps
  <2>5. k.space = s /\ k.bound = d.bound /\ k.status = m.status
    BY <1>9, <2>4 DEF Agree, Fields
  <2>6. k.script[s] = << >>
    BY <1>3, <1>9, <2>4 DEF WellRun, Machine
  <2>7. Pending(k, g, {}, s)
    BY <1>9, <1>14, <2>5 DEF Pending
  <2>8. Core(k, g, None)
    BY <2>4, <2>5, <2>6, <2>7, InstalledNow
  <2>9. Tallies(m, k)
    <3>1. Agree(d, k, Quiet)
      BY <2>4 DEF Agree, Quiet
    <3> QED BY <1>16, <3>1, QuietTallies, TalliesOn
  <2> QED BY <1>10, <2>4, <2>5, <2>8, <2>9, SteadyOn DEF Tallies
<1> QED BY <1>13, <1>14

\* What installation leaves
Kept(m, g, x) == WellRun(x) /\ Steady(m, x) /\ Core(x, g, None)

\* No call at all is one of those.
LEMMA KeptSelf ==
    ASSUME NEW m, WellRun(m), NEW g, Core(m, g, None)
    PROVE  Kept(m, g, m)
  BY DEF Kept, Steady

\* deinstallTo leaves the spaces below a, one after the other.
LEMMA DeinstallToKeeps ==
    ASSUME NEW m, WellRun(m), NEW g \in Histories, Core(m, g, None),
           NEW a \in Current(m), NEW k, k = DeinstallTo(m, a)
    PROVE  Kept(m, g, k) /\ k.space = a /\ k.status = m.status /\ Tallies(m, k)
<1>1. PICK rank : Ranked(m, rank)
  BY DEF WellRun, Tree
<1>2. m.space \in Standing(m) /\ a \in Path(m, m.space)
  BY Here DEF Core, Current
<1>3. PICK u : u = UpTo(m, m.space, a)
  OBVIOUS
<1>4. Climbs(m, u, m.space, a)
  BY <1>1, <1>2, <1>3, UpToClimbs
<1>5. PICK n \in Nat : n = Len(u)
  BY <1>4, ClimbFacts
<1>6. /\ At(u, a, 0) = m.space /\ At(u, a, n) = a
      /\ \A i \in 1..n : /\ u[i] = At(u, a, i - 1) /\ Parent(m, u[i]) = At(u, a, i)
                         /\ u[i] \in Below(m)
  BY <1>4, <1>5, ClimbFacts
<1>7. PICK X : X = [i \in 0..n |-> {x \in Machine : /\ Kept(m, g, x) /\ x.status = m.status
                                                     /\ Tallies(m, x) /\ x.space = At(u, a, i)}]
  OBVIOUS
<1>8. \A i \in 0..n : \A x : x \in X[i] <=> /\ x \in Machine /\ Kept(m, g, x) /\ Tallies(m, x)
                                            /\ x.status = m.status /\ x.space = At(u, a, i)
  BY <1>7
<1>9. m \in X[0]
  BY <1>6, <1>8, KeptSelf, TalliesSelf DEF WellRun
<1>10. PICK F : F = [p \in Machine \X (1..n) |-> DeinstallThis(p[1], u[p[2]])]
  OBVIOUS
<1>11. \A i \in 1..n : \A x \in X[i - 1] :
          F[<<x, i>>] = DeinstallThis(x, u[i]) /\ F[<<x, i>>] \in X[i]
  <2> SUFFICES ASSUME NEW i \in 1..n, NEW x \in X[i - 1]
               PROVE  F[<<x, i>>] = DeinstallThis(x, u[i]) /\ F[<<x, i>>] \in X[i]
    OBVIOUS
  <2>1. i - 1 \in 0..n /\ i \in 0..n
    OBVIOUS
  <2>2. x \in Machine /\ Kept(m, g, x) /\ Tallies(m, x) /\ x.status = m.status /\ x.space = At(u, a, i - 1)
    BY <1>8, <2>1
  <2>3. F[<<x, i>>] = DeinstallThis(x, u[i])
    BY <1>10, <2>2
  <2>4. u[i] = x.space /\ Parent(m, u[i]) = At(u, a, i) /\ u[i] \in Below(m)
    BY <1>6, <2>2
  <2>5. u[i] \in Created(m) /\ u[i] # Top
    BY <2>4 DEF Below, Standing
  <2>6. WellRun(x) /\ Steady(m, x) /\ Core(x, g, None)
    BY <2>2 DEF Kept
  <2>7. Parent(x, u[i]) = At(u, a, i)
    BY <2>4, <2>5, <2>6, SteadyTree DEF Likewise
  <2>8. PICK y : y = DeinstallThis(x, u[i])
    OBVIOUS
  <2>9. /\ WellRun(y) /\ Steady(x, y) /\ Core(y, g, None)
        /\ y.space = Parent(x, u[i]) /\ y.status = x.status /\ Tallies(x, y)
    BY <2>4, <2>5, <2>6, <2>8, DeinstallThisKeeps
  <2>10. Kept(m, g, y) /\ y \in Machine
    BY <2>6, <2>9, SteadyOn DEF Kept, WellRun
  <2>11. Tallies(m, y)
    BY <2>2, <2>9, TalliesOn
  <2> QED BY <1>8, <2>1, <2>2, <2>3, <2>7, <2>8, <2>9, <2>10, <2>11
<1>12. ClosedTo(F, X, n)
  BY <1>11 DEF ClosedTo
<1>13. PICK f : Reaches(f, F, m, X, n)
  BY <1>9, <1>12, IterateTo
<1>14. f = [i \in 0..n |-> IF i = 0 THEN m ELSE DeinstallThis(f[i - 1], u[i])]
  <2>1. /\ f = [i \in 0..n |-> f[i]] /\ f[0] = m
        /\ \A i \in 1..n : f[i - 1] \in X[i - 1] /\ f[i] = F[<<f[i - 1], i>>]
    BY <1>13 DEF Reaches
  <2>2. \A i \in 1..n : f[i] = DeinstallThis(f[i - 1], u[i])
    BY <1>11, <2>1
  <2>3. ASSUME NEW i \in 0..n PROVE f[i] = IF i = 0 THEN m ELSE DeinstallThis(f[i - 1], u[i])
    <3>1. CASE i = 0
      BY <2>1, <3>1
    <3>2. CASE i # 0
      <4>1. i \in 1..n
        BY <3>2
      <4>2. f[i] = DeinstallThis(f[i - 1], u[i])
        BY <2>2, <4>1
      <4> QED BY <3>2, <4>2
    <3> QED BY <3>1, <3>2
  <2>4. [i \in 0..n |-> f[i]] = [i \in 0..n |-> IF i = 0 THEN m ELSE DeinstallThis(f[i - 1], u[i])]
    BY <2>3
  <2> QED BY <2>1, <2>4
<1>15. PICK h : h = CHOOSE e : e = [i \in 0..n |-> IF i = 0 THEN m ELSE DeinstallThis(e[i - 1], u[i])]
  OBVIOUS
<1>16. h = [i \in 0..n |-> IF i = 0 THEN m ELSE DeinstallThis(h[i - 1], u[i])]
  BY <1>14, <1>15
<1>17. FollowsTo(h, F, m, X, n)
  <2>1. h[0] = m
    BY <1>16
  <2>2. \A i \in 1..n : h[i] = DeinstallThis(h[i - 1], u[i])
    BY <1>16
  <2> QED BY <1>11, <2>1, <2>2 DEF FollowsTo
<1>18. h[n] \in X[n]
  BY <1>9, <1>12, <1>17, StaysInTo
<1>19. k = h[n]
  BY <1>3, <1>5, <1>15 DEF DeinstallTo, Through
<1> QED BY <1>6, <1>8, <1>18, <1>19

\* A list turned round is read backwards.
LEMMA ReverseFacts ==
    ASSUME NEW S, NEW q \in Seq(S)
    PROVE  /\ Len(Reverse(q)) = Len(q) /\ Len(q) \in Nat
           /\ \A i \in 1..Len(q) : Reverse(q)[i] = q[(Len(q) - i) + 1]
<1>1. PICK n \in Nat : n = Len(q) /\ \A i \in 1..n : q[i] \in S
  OBVIOUS
<1>2. PICK r : r = Reverse(q)
  OBVIOUS
<1>3. r = [i \in 1..n |-> q[(n - i) + 1]]
  BY <1>1, <1>2 DEF Reverse
<1>4. \A i \in 1..n : r[i] = q[(n - i) + 1] /\ (n - i) + 1 \in 1..n
  BY <1>3
<1>5. r \in [1..n -> S]
  BY <1>1, <1>3, <1>4
<1>6. Len(r) = n
  BY <1>5
<1> QED BY <1>1, <1>2, <1>4, <1>6

\* The space to install is the top-level space, or one with a thread that can run.
Wanted(m, s) == s = Top \/ (s \in Live(m) /\ Ready(m, s) # {})
\* When j of the spaces in q are still to be installed, the machine is above them, or a
\* space on the way has failed and nothing more is installed.
Reached(m, g, s, q, a, j, x) ==
    /\ Kept(m, g, x) /\ Stays(m, x)
    /\ Wanted(m, s) /\ Sound(m, Top) => Sound(x, Top)
    /\ \/ x.status = m.status /\ x.space = At(q, a, j)
       \/ /\ \E f \in Path(m, s) : x.status[f] = "failed"
          /\ \A i \in 1..j : x.space # Parent(m, q[i])

\* The way up is a path.
LEMMA ClimbPath ==
    ASSUME NEW m, WellRun(m), NEW s \in Standing(m), NEW a, NEW u, Climbs(m, u, s, a)
    PROVE  \A i \in 1..Len(u) : u[i] \in Path(m, s)
<1>1. PICK n \in Nat : n = Len(u) /\ \A i \in 1..n : u[i] \in Below(m)
  BY DEF Climbs
<1>2. PICK rank : Ranked(m, rank)
  BY DEF WellRun, Tree
<1>3. PICK S : S = {i \in 0..n : i > 0 => u[i] \in Path(m, s)}
  OBVIOUS
<1>4. 0 \in S
  BY <1>3
<1>5. ASSUME NEW i \in 1..n, i - 1 \in S PROVE i \in S
  <2>1. CASE i = 1
    <3>1. u[1] = s
      BY <1>1, <2>1 DEF Climbs
    <3>2. s \in Path(m, s)
      BY <1>2, PathFacts
    <3> QED BY <1>3, <2>1, <3>1, <3>2
  <2>2. CASE i # 1
    <3>1. PICK j \in 1..(n - 1) : j = i - 1
      BY <2>2
    <3>2. u[j] \in Path(m, s) /\ u[j + 1] = Parent(m, u[j]) /\ j + 1 = i /\ u[j] \in Below(m)
      BY <1>1, <1>3, <1>5, <3>1 DEF Climbs
    <3>3. Parent(m, u[j]) \in Path(m, u[j])
      <4>1. Parent(m, u[j]) \in Standing(m) /\ Path(m, u[j]) = {u[j]} \cup Path(m, Parent(m, u[j]))
        BY <3>2, OverParent
      <4>2. Parent(m, u[j]) \in Path(m, Parent(m, u[j]))
        BY <1>2, <4>1, PathFacts
      <4> QED BY <4>1, <4>2
    <3>4. Path(m, u[j]) \subseteq Path(m, s)
      BY <1>2, <3>2, PathRanks
    <3> QED BY <1>3, <3>2, <3>3, <3>4
  <2> QED BY <2>1, <2>2
<1>6. PICK T : T = {i \in 0..n : \A j \in 0..i : j \in S}
  OBVIOUS
<1>7. 0 \in T
  BY <1>4, <1>6
<1>8. \A i \in 1..n : i - 1 \in T => i \in T
  <2> SUFFICES ASSUME NEW i \in 1..n, i - 1 \in T, NEW j \in 0..i PROVE j \in S
    BY <1>6
  <2>1. j \in 0..(i - 1) \/ j = i
    OBVIOUS
  <2>2. i - 1 \in 0..(i - 1)
    OBVIOUS
  <2> QED BY <1>5, <1>6, <2>1, <2>2
<1>9. n \in T
  BY <1>6, <1>7, <1>8, StepByStep
<1> QED BY <1>1, <1>3, <1>6, <1>9

\* One space of installFrom is installed, unless the one above it has failed.
LEMMA InstallBelowReaches ==
    ASSUME NEW m, WellRun(m), NEW g \in Histories, NEW s \in Standing(m), IsAlive(m, s),
           NEW rank, Ranked(m, rank), NEW a, NEW q, Climbs(m, q, s, a), NEW j \in 1..Len(q),
           NEW x, Reached(m, g, s, q, a, j, x), NEW y, y = InstallBelow(x, q[j])
    PROVE  Reached(m, g, s, q, a, j - 1, y)
<1>1. PICK n \in Nat : n = Len(q)
  BY ClimbFacts
<1>2. PICK v \in Below(m) : v = q[j] /\ v = At(q, a, j - 1) /\ Parent(m, v) = At(q, a, j)
  BY ClimbFacts
<1>3. v \in Path(m, s)
  BY <1>2, ClimbPath
<1>4. WellRun(x) /\ Steady(m, x) /\ Core(x, g, None) /\ Stays(m, x)
      /\ (Wanted(m, s) /\ Sound(m, Top) => Sound(x, Top))
  BY DEF Reached, Kept
<1>5. /\ v \in Below(x) /\ v \in Created(m) /\ v # Top /\ v \in Spaces /\ v \in Standing(m)
      /\ Parent(x, v) = Parent(m, v)
  BY <1>2, <1>4, SteadyTree DEF Likewise, Below, Standing, Created
<1>6. CASE x.space # Parent(m, v)
  <2>1. y = x
    BY <1>2, <1>5, <1>6 DEF InstallBelow
  <2>2. /\ \E f \in Path(m, s) : x.status[f] = "failed"
        /\ \A i \in 1..j : x.space # Parent(m, q[i])
    BY <1>2, <1>6 DEF Reached
  <2>3. \A i \in 1..(j - 1) : x.space # Parent(m, q[i])
    BY <1>1, <2>2
  <2> QED BY <2>1, <2>2, <2>3 DEF Reached
<1>7. CASE x.space = Parent(m, v)
  <2>1. x.status = m.status
    <3>1. j \in 1..j
      OBVIOUS
    <3> QED BY <1>2, <1>7, <3>1 DEF Reached
  <2>2. x.status[v] = "normal"
    <3>1. m.status[v] # "failed"
      BY <1>3 DEF IsAlive
    <3>2. m.status[v] \notin {"none", "merged"}
      BY <1>5 DEF Standing, Created
    <3>3. m.status[v] \in {"none", "normal", "failed", "merged"}
      BY <1>5 DEF WellRun, Machine
    <3> QED BY <2>1, <3>1, <3>2, <3>3
  <2>3. y = InstallThis([x EXCEPT !.space = v], v)
    BY <1>2, <1>5, <1>7, <2>2 DEF InstallBelow
  <2>4. /\ WellRun(y) /\ Steady(x, y) /\ Core(y, g, None)
        /\ Stays(x, y) /\ (Sound(x, Top) /\ Called(x, v) => Sound(y, Top))
        /\ \/ y.space = v /\ y.status = x.status
           \/ y.space = Parent(x, v) /\ y.status[v] = "failed"
    BY <1>4, <1>5, <1>7, <2>2, <2>3, InstallThisKeeps
  <2>5. Kept(m, g, y) /\ Stays(m, y)
    BY <1>4, <2>4, SteadyOn, StaysOn DEF Kept
  <2>6. Wanted(m, s) /\ Sound(m, Top) => Sound(y, Top)
    <3> SUFFICES ASSUME Wanted(m, s), Sound(m, Top), ~Spent(y) PROVE Sound(y, Top)
      BY DEF Sound
    <3>1. ~Spent(x)
      BY <2>4 DEF Stays
    <3>2. s # Top
      BY <1>3, <1>5, PathFacts
    <3>3. Called(m, v)
      BY <1>3, <3>2 DEF Wanted, Called
    <3>4. x.parent = m.parent
      BY <1>4 DEF Steady
    <3>5. Called(x, v)
      BY <1>4, <2>1, <3>1, <3>3, <3>4, CalledStays
    <3> QED BY <1>4, <2>4, <3>5
  <2>7. CASE y.space = v /\ y.status = x.status
    BY <1>2, <2>1, <2>5, <2>6, <2>7 DEF Reached
  <2>8. CASE y.space = Parent(x, v) /\ y.status[v] = "failed"
    <3>1. PICK p \in Standing(m) : p = Parent(m, v) /\ rank[p] < rank[v]
      BY <1>5, ParentFacts
    <3>2. rank[p] \in Nat /\ rank[v] \in Nat
      BY <1>5, <3>1, RankBound DEF Standing
    <3>3. ASSUME NEW i \in 1..(j - 1) PROVE y.space # Parent(m, q[i])
      <4>1. i \in 1..n /\ i + 1 \in 1..n /\ i # n
        BY <1>1
      <4>2. Parent(m, q[i]) = q[i + 1]
        BY <1>1, <4>1, ClimbFacts DEF At
      <4>3. q[i + 1] \in Below(m)
        BY <1>1, <4>1, ClimbFacts
      <4>4. rank[q[i + 1]] \in Nat
        BY <4>3, RankBound DEF Below, Standing
      <4>5. rank[v] <= rank[q[i + 1]]
        <5>1. CASE i + 1 = j
          <6>1. q[i + 1] = v
            BY <1>2, <5>1
          <6> QED BY <3>2, <6>1
        <5>2. CASE i + 1 # j
          <6>1. i + 1 < j
            BY <1>1, <5>2
          <6>2. rank[v] < rank[q[i + 1]]
            BY <1>1, <1>2, <4>1, <6>1, ClimbRanks
          <6> QED BY <3>2, <4>4, <6>2
        <5> QED BY <5>1, <5>2
      <4>6. p # q[i + 1]
        BY <3>1, <3>2, <4>4, <4>5
      <4> QED BY <1>5, <2>8, <3>1, <4>2, <4>6
    <3> QED BY <1>3, <2>5, <2>6, <2>8, <3>3 DEF Reached
  <2> QED BY <2>4, <2>7, <2>8
<1> QED BY <1>6, <1>7

\* Space::install goes up to the common ancestor and down again, or as far down as no
\* space fails.
LEMMA InstallKeeps ==
    ASSUME NEW m, WellRun(m), NEW g \in Histories, Core(m, g, None),
           NEW s \in Standing(m), NEW k, k = Install(m, s)
    PROVE  /\ Kept(m, g, k) /\ Stays(m, k)
           /\ Wanted(m, s) /\ Sound(m, Top) => Sound(k, Top)
           /\ k.space = s \/ s \notin Live(k) \cup {Top}
<1>1. CASE m.space = s \/ ~IsAlive(m, s)
  <2>1. k = m
    BY <1>1 DEF Install
  <2>2. ~IsAlive(m, s) => s \notin Live(m) \cup {Top}
    <3>1. PICK rank : Ranked(m, rank)
      BY DEF WellRun, Tree
    <3>2. IsAlive(m, Top)
      BY <3>1, TopIsReal, PathFacts DEF IsAlive, Ranked
    <3> QED BY <3>2 DEF Live
  <2> QED BY <1>1, <2>1, <2>2, KeptSelf, TalliesSelf DEF Tallies
<1>2. CASE ~(m.space = s \/ ~IsAlive(m, s))
  <2>1. PICK rank : Ranked(m, rank)
    BY DEF WellRun, Tree
  <2>2. PICK c : c = m.space
    OBVIOUS
  <2>3. c \in Standing(m)
    BY <2>2, Here DEF Core
  <2>4. PICK a : a = CHOOSE o \in Path(m, s) \cap Path(m, c) :
                       \A b \in Path(m, s) \cap Path(m, c) : IsAncestor(m, b, o)
    OBVIOUS
  <2>5. \E e \in Path(m, s) \cap Path(m, c) :
            \A b \in Path(m, s) \cap Path(m, c) : IsAncestor(m, b, e)
    BY <2>1, <2>3, CommonAncestor
  <2>6. a \in Path(m, s) \cap Path(m, c)
    BY <2>4, <2>5
  <2>7. PICK b : b = DeinstallTo(m, a)
    OBVIOUS
  <2>8. Kept(m, g, b) /\ b.space = a /\ b.status = m.status /\ Tallies(m, b)
    BY <2>2, <2>6, <2>7, DeinstallToKeeps DEF Current
  <2>9. PICK q : q = UpTo(m, s, a)
    OBVIOUS
  <2>10. Climbs(m, q, s, a) /\ q \in Seq(Below(m))
    BY <2>1, <2>6, <2>9, UpToClimbs DEF Climbs
  <2>11. PICK u : u = Reverse(q)
    OBVIOUS
  <2>12. PICK n \in Nat : /\ n = Len(q) /\ n = Len(u)
                         /\ \A i \in 1..n : u[i] = q[(n - i) + 1]
    BY <2>10, <2>11, ReverseFacts
  <2>13. At(q, a, 0) = s /\ At(q, a, n) = a
    <3>1. Climbs(m, q, s, a)
      BY <2>10
    <3>2. At(q, a, 0) = s
      BY <3>1, ClimbFacts
    <3>3. n = Len(q)
      BY <2>12
    <3> QED BY <3>2, <3>3 DEF At
  <2>14. PICK X : X = [i \in 0..n |-> {x \in Machine : Reached(m, g, s, q, a, n - i, x)}]
    OBVIOUS
  <2>15. \A i \in 0..n : \A x : x \in X[i] <=> x \in Machine /\ Reached(m, g, s, q, a, n - i, x)
    BY <2>14
  <2>16. b \in X[0]
    <3>1. 0 \in 0..n /\ n - 0 = n
      OBVIOUS
    <3>2. Reached(m, g, s, q, a, n, b)
      BY <2>8, <2>13 DEF Reached, Tallies
    <3> QED BY <2>8, <2>15, <3>1, <3>2 DEF Kept, WellRun
  <2>17. PICK F : F = [p \in Machine \X (1..n) |-> InstallBelow(p[1], u[p[2]])]
    OBVIOUS
  <2>18. \A i \in 1..n : \A x \in X[i - 1] :
            F[<<x, i>>] = InstallBelow(x, u[i]) /\ F[<<x, i>>] \in X[i]
    <3> SUFFICES ASSUME NEW i \in 1..n, NEW x \in X[i - 1]
                 PROVE  F[<<x, i>>] = InstallBelow(x, u[i]) /\ F[<<x, i>>] \in X[i]
      OBVIOUS
    <3>1. i - 1 \in 0..n /\ i \in 0..n
      OBVIOUS
    <3>2. PICK j \in 1..n : j = (n - i) + 1
      OBVIOUS
    <3>3. n - (i - 1) = j /\ n - i = j - 1
      BY <3>2
    <3>4. x \in Machine /\ Reached(m, g, s, q, a, j, x)
      BY <2>15, <3>1, <3>3
    <3>5. F[<<x, i>>] = InstallBelow(x, u[i]) /\ u[i] = q[j]
      BY <2>12, <2>17, <3>2, <3>4
    <3>6. PICK y : y = InstallBelow(x, q[j])
      OBVIOUS
    <3>7. Reached(m, g, s, q, a, j - 1, y)
      BY <1>2, <2>1, <2>10, <2>12, <3>4, <3>6, InstallBelowReaches
    <3>8. y \in Machine
      BY <3>7 DEF Reached, Kept, WellRun
    <3> QED BY <2>15, <3>1, <3>3, <3>5, <3>6, <3>7, <3>8
  <2>19. ClosedTo(F, X, n)
    BY <2>18 DEF ClosedTo
  <2>20. PICK f : Reaches(f, F, b, X, n)
    BY <2>16, <2>19, IterateTo
  <2>21. f = [i \in 0..n |-> IF i = 0 THEN b ELSE InstallBelow(f[i - 1], u[i])]
    <3>1. /\ f = [i \in 0..n |-> f[i]] /\ f[0] = b
          /\ \A i \in 1..n : f[i - 1] \in X[i - 1] /\ f[i] = F[<<f[i - 1], i>>]
      BY <2>20 DEF Reaches
    <3>2. \A i \in 1..n : f[i] = InstallBelow(f[i - 1], u[i])
      BY <2>18, <3>1
    <3>3. ASSUME NEW i \in 0..n PROVE f[i] = IF i = 0 THEN b ELSE InstallBelow(f[i - 1], u[i])
      <4>1. CASE i = 0
        BY <3>1, <4>1
      <4>2. CASE i # 0
        <5>1. i \in 1..n
          BY <4>2
        <5>2. f[i] = InstallBelow(f[i - 1], u[i])
          BY <3>2, <5>1
        <5> QED BY <4>2, <5>2
      <4> QED BY <4>1, <4>2
    <3>4. [i \in 0..n |-> f[i]] = [i \in 0..n |-> IF i = 0 THEN b ELSE InstallBelow(f[i - 1], u[i])]
      BY <3>3
    <3> QED BY <3>1, <3>4
  <2>22. PICK h : h = CHOOSE e : e = [i \in 0..n |-> IF i = 0 THEN b
                                                      ELSE InstallBelow(e[i - 1], u[i])]
    OBVIOUS
  <2>23. h = [i \in 0..n |-> IF i = 0 THEN b ELSE InstallBelow(h[i - 1], u[i])]
    BY <2>21, <2>22
  <2>24. FollowsTo(h, F, b, X, n)
    <3>1. h[0] = b
      BY <2>23
    <3>2. \A i \in 1..n : h[i] = InstallBelow(h[i - 1], u[i])
      BY <2>23
    <3> QED BY <2>18, <3>1, <3>2 DEF FollowsTo
  <2>25. h[n] \in X[n]
    BY <2>16, <2>19, <2>24, StaysInTo
  <2>26. k = h[n]
    <3>1. k = Through(InstallBelow, b, u)
      BY <1>2, <2>2, <2>4, <2>7, <2>9, <2>11 DEF Install
    <3> QED BY <2>12, <2>22, <3>1 DEF Through
  <2>27. Reached(m, g, s, q, a, 0, k)
    <3>1. n \in 0..n /\ n - n = 0
      OBVIOUS
    <3> QED BY <2>15, <2>25, <2>26, <3>1
  <2>28. k.space = s \/ s \notin Live(k) \cup {Top}
    <3>1. CASE k.space = At(q, a, 0)
      BY <2>13, <3>1
    <3>2. CASE \E t \in Path(m, s) : k.status[t] = "failed"
      <4>1. Path(k, s) = Path(m, s)
        BY <2>27, SteadyTree DEF Reached, Kept, Likewise
      <4>2. PICK e \in Path(k, s) : k.status[e] = "failed"
        BY <3>2, <4>1
      <4>3. s \notin Live(k)
        BY <4>2 DEF Live, IsAlive
      <4>4. s # Top
        <5> SUFFICES ASSUME s = Top PROVE FALSE
          OBVIOUS
        <5>1. WellRun(k)
          BY <2>27 DEF Reached, Kept
        <5>2. PICK rank2 : Ranked(k, rank2)
          BY <5>1 DEF WellRun, Tree
        <5>3. Path(k, Top) = {Top} /\ k.status[Top] = "normal"
          BY <5>1, <5>2, TopIsReal, PathFacts DEF Ranked
        <5> QED BY <4>2, <5>3
      <4> QED BY <4>3, <4>4
    <3> QED BY <2>27, <3>1, <3>2 DEF Reached
  <2> QED BY <2>27, <2>28 DEF Reached
<1> QED BY <1>1, <1>2

\* Fields that the invariant of constraints does not speak of, and histories in which
\* perhaps more threads have ended
Unseen == (Loose \ {"home", "optimized"}) \cup {"running"}
Later(g, g2) == g2.told = g.told /\ g2.killed = g.killed /\ g.ended \subseteq g2.ended

\* A change of such fields keeps what is known of constraints.
LEMMA CoreSame ==
    ASSUME NEW m, NEW k, Agree(m, k, Unseen), NEW g, NEW g2, Later(g, g2), NEW h, Core(m, g, h)
    PROVE  Core(k, g2, h)
<1>1. /\ k.space = m.space /\ k.parent = m.parent /\ k.status = m.status
      /\ k.trail = m.trail /\ k.script = m.script /\ k.bound = m.bound
      /\ k.home = m.home /\ k.optimized = m.optimized
  BY DEF Agree, Fields, Unseen, Loose
<1>2. g2.told = g.told /\ g2.killed = g.killed /\ \A t \in g.ended : t \in g2.ended
  BY DEF Later
<1>3. \A s : Path(k, s) = Path(m, s)
  BY <1>1, SameSpaces
<1>4. Current(k) = Current(m)
  BY <1>1, <1>3 DEF Current
<1>5. \A s : Over(k, s) = Over(m, s)
  BY <1>3 DEF Over
<1>6. /\ Homes(m) /\ Installed(m, h) /\ Trails(m, g) /\ Bindings(m, g) /\ Visible(m, g, h)
      /\ Scripts(m, g) /\ Hidden(m, g) /\ Failures(m, g) /\ Unborn(m, g)
  BY DEF Core
<1>7. Homes(k) /\ Installed(k, h)
  BY <1>1, <1>4, <1>6 DEF Homes, Installed
<1>8. Trails(k, g2)
  BY <1>1, <1>2, <1>5, <1>6 DEF Trails
<1>9. Bindings(k, g2)
  BY <1>1, <1>2, <1>6 DEF Bindings
<1>10. Visible(k, g2, h)
  BY <1>1, <1>2, <1>4, <1>6 DEF Visible
<1>11. Scripts(k, g2)
  BY <1>1, <1>2, <1>6 DEF Scripts
<1>12. Hidden(k, g2)
  BY <1>1, <1>2, <1>4, <1>5, <1>6 DEF Hidden
<1>13. Failures(k, g2)
  <2>1. \A S : Contradict(g2, S) <=> Contradict(g, S)
    BY <1>2 DEF Contradict
  <2> QED BY <1>1, <1>2, <1>3, <1>6, <2>1 DEF Failures
<1>14. Unborn(k, g2)
  BY <1>1, <1>2, <1>6 DEF Unborn
<1> QED BY <1>7, <1>8, <1>9, <1>10, <1>11, <1>12, <1>13, <1>14 DEF Core

-----------------------------------------------------------------------------
(* The end of a thread *)

\* checkStability leaves the current space if it adds nothing, fails it if it had, and
\* answers those who asked.
LEMMA CheckStabilityKeeps ==
    ASSUME NEW m, WellRun(m), NEW g \in Histories, Core(m, g, None),
           NEW s, s = m.space, s # Top, NEW k, k = CheckStability(m, s)
    PROVE  Kept(m, g, k) /\ Tallies(m, k)
<1>1. s \in Below(m) /\ s \in SubSpaces
  BY Here DEF Core
<1>2. PICK p : p = Parent(m, s)
  OBVIOUS
<1>3. p \in Current(m)
  <2>1. p \in Standing(m) /\ Path(m, s) = {s} \cup Path(m, p)
    BY <1>1, <1>2, OverParent
  <2>2. PICK rank : Ranked(m, rank)
    BY DEF WellRun, Tree
  <2>3. p \in Path(m, p)
    BY <2>1, <2>2, PathFacts
  <2> QED BY <2>1, <2>3 DEF Current
<1>4. PICK m1 : m1 = DeinstallTo(m, p)
  OBVIOUS
<1>5. Kept(m, g, m1) /\ Tallies(m, m1)
  BY <1>3, <1>4, DeinstallToKeeps
<1>6. PICK a : a = IF m.distributor[s] THEN "alternatives"
                   ELSE IF m.peopled[s] THEN "stuck" ELSE "entailed"
  OBVIOUS
<1>7. a \in Answers
  BY <1>6 DEF Answers
<1>8. ASSUME NEW x, Kept(m, g, x), NEW y, Murmur(x, y) PROVE Kept(m, g, y)
  <2>1. Steady(x, y)
    BY <1>8, MurmurSteady
  <2>2. WellRun(y)
    BY <1>8 DEF Murmur
  <2>3. Core(x, g, None)
    BY <1>8 DEF Kept
  <2>4. Core(y, g, None)
    BY <1>8, <2>3, MurmurKeeps
  <2>5. Steady(m, y)
    BY <1>8, <2>1, SteadyOn DEF Kept
  <2> QED BY <2>2, <2>4, <2>5 DEF Kept
<1>9. CASE IsStable(m, s)
  <2>1. PICK m2 : m2 = [m EXCEPT !.space = p]
    OBVIOUS
  <2>2. m.trail[s] = << >>
    BY <1>9 DEF IsStable
  <2>3. m2 = [m EXCEPT !.space = Parent(m, s)]
    BY <1>2, <2>1
  <2>4. WellRun(m2) /\ Steady(m, m2) /\ Core(m2, g, None)
    BY <2>2, <2>3, PopKeeps
  <2>5. Murmur(m2, BindStatusVar(m2, s, a)) /\ Tallies(m2, BindStatusVar(m2, s, a))
    BY <1>1, <1>7, <2>4, BindStatusVarMurmurs
  <2>6. k = BindStatusVar(m2, s, a)
    BY <1>2, <1>6, <1>9, <2>1 DEF CheckStability
  <2>7. m \in Machine /\ p \in Spaces
    BY <1>1, <1>2, OverParent DEF WellRun, Standing, Created
  <2>8. Agree(m, m2, Quiet)
    BY <2>1, <2>7 DEF Machine, Agree, Fields, Quiet
  <2>9. Tallies(m, m2)
    BY <2>8, QuietTallies
  <2>10. Tallies(m, k)
    BY <2>5, <2>6, <2>9, TalliesOn
  <2> QED BY <1>8, <2>4, <2>5, <2>6, <2>10 DEF Kept
<1>10. CASE ~IsStable(m, s) /\ m.count[s] > 0
  BY <1>2, <1>4, <1>5, <1>10 DEF CheckStability
<1>11. CASE ~IsStable(m, s) /\ ~(m.count[s] > 0) /\ CanAnswer(m, s)
  <2>1. WellRun(m1)
    BY <1>5 DEF Kept
  <2>2. Murmur(m1, Suspended(m1, s)) /\ Tallies(m1, Suspended(m1, s))
    BY <1>1, <2>1, SuspendedMurmurs
  <2>3. k = Suspended(m1, s)
    BY <1>2, <1>4, <1>11 DEF CheckStability
  <2>4. Tallies(m, k)
    BY <1>5, <2>2, <2>3, TalliesOn
  <2> QED BY <1>5, <1>8, <2>2, <2>3, <2>4
<1>12. CASE ~IsStable(m, s) /\ ~(m.count[s] > 0) /\ ~CanAnswer(m, s)
  <2>1. k = [m1 EXCEPT !.rebound = TRUE]
    BY <1>2, <1>4, <1>12 DEF CheckStability
  <2>2. WellRun(m1) /\ m1 \in Machine
    BY <1>5 DEF Kept, WellRun
  <2>3. k \in Machine /\ Agree(m1, k, Silent)
    BY <2>1, <2>2 DEF Machine, Agree, Fields, Silent
  <2>4. Murmur(m1, k)
    BY <2>2, <2>3, SilentMurmur
  <2>5. Agree(m1, k, Quiet)
    BY <2>1, <2>2 DEF Machine, Agree, Fields, Quiet
  <2>6. Tallies(m1, k)
    BY <2>5, QuietTallies
  <2>7. Tallies(m, k)
    BY <1>5, <2>6, TalliesOn
  <2> QED BY <1>5, <1>8, <2>4, <2>7
<1> QED BY <1>9, <1>10, <1>11, <1>12

\* A thread less is counted in the space.
LEMMA CountTerminatedMurmurs ==
    ASSUME NEW m, WellRun(m), NEW s \in Below(m), NEW k, k = CountTerminated(m, s)
    PROVE  /\ Murmur(m, k) /\ Stays(m, k)
           /\ s \in Live(m) /\ Sound(m, s) => Sound(k, Top)
<1>1. m \in Machine /\ s \in SubSpaces
  BY DEF WellRun, Below, Standing, Created, Spaces
<1>2. PICK m1 : m1 = [m EXCEPT !.count[s] = @ - 1]
  OBVIOUS
<1>3. PICK c : c = [m.count EXCEPT ![s] = @ - 1]
  OBVIOUS
<1>4. c \in [SubSpaces -> Int] /\ m1 = [m EXCEPT !.count = c]
  BY <1>1, <1>2, <1>3 DEF Machine
<1>5. m1 \in Machine /\ Agree(m, m1, Silent)
  BY <1>1, <1>4 DEF Machine, Agree, Fields, Silent
<1>6. Murmur(m, m1)
  BY <1>5, SilentMurmur
<1>7. WellRun(m1) /\ m1.parent = m.parent /\ m1.status = m.status
  BY <1>6, MurmurCore DEF Murmur
<1>8. Parent(m, s) \in Standing(m1)
  <2>1. Parent(m, s) \in Standing(m)
    BY OverParent
  <2> QED BY <1>7, <2>1, SameSpaces
<1>9. PICK m2 : m2 = Dec(m1, Parent(m, s))
  OBVIOUS
<1>10. Murmur(m1, m2) /\ Stays(m1, m2)
  BY <1>7, <1>8, <1>9, DecMurmurs
<1>11. Parent(m, s) \in Live(m1) \cup {Top} /\ Sound(m1, Parent(m, s)) => Sound(m2, Top)
  BY <1>7, <1>8, <1>9, DecMurmurs
<1>12. Murmur(m, m2)
  BY <1>6, <1>10, MurmurOn
<1>13. Stays(m, m1)
  BY <1>5 DEF Stays, Spent, Agree, Fields, Silent
<1>14. Stays(m, m2)
  BY <1>10, <1>13, StaysOn
<1>15. k = IF m1.count[s] = 0 THEN m2 ELSE m1
  BY <1>2, <1>9 DEF CountTerminated
<1>16. ASSUME s \in Live(m), Sound(m, s) PROVE Sound(k, Top)
  <2>1. CASE Spent(m)
    <3>1. Spent(m1) /\ Spent(m2)
      BY <1>13, <1>14, <2>1 DEF Stays
    <3> QED BY <1>15, <3>1 DEF Sound
  <2>2. CASE ~Spent(m)
    <3>1. Books(m, s)
      BY <1>16, <2>2 DEF Sound
    <3>2. m1 = Lowered(m, s)
      BY <1>3, <1>4 DEF Lowered
    <3>3. /\ m1.count[s] # 0 => Books(m1, Top)
          /\ m1.count[s] = 0 => Books(m1, Parent(m, s))
      BY <1>16, <3>1, <3>2, LoweredBooks
    <3>4. Steady(m, m1) /\ \A r \in Spaces : r # s => m1.status[r] = m.status[r]
      BY <1>6, <1>7, MurmurSteady
    <3>5. Parent(m, s) \in Live(m1) \cup {Top}
      BY <1>16, <3>4, ParentLives
    <3> QED BY <1>11, <1>15, <3>3, <3>5 DEF Sound
  <2> QED BY <2>1, <2>2
<1> QED BY <1>6, <1>12, <1>13, <1>14, <1>15, <1>16

\* notifyThreadTerminated counts, and looks at the stability of the space.
LEMMA NotifyTerminatedKeeps ==
    ASSUME NEW m, WellRun(m), NEW g \in Histories, Core(m, g, None),
           NEW k, k = NotifyTerminated(m, m.space)
    PROVE  /\ Kept(m, g, k) /\ Stays(m, k)
           /\ Sound(m, m.space) => Sound(k, Top)
<1>1. CASE m.space = Top
  <2>1. k = m
    BY <1>1 DEF NotifyTerminated
  <2>2. Kept(m, g, m) /\ Tallies(m, m)
    BY KeptSelf, TalliesSelf
  <2> QED BY <1>1, <2>1, <2>2 DEF Tallies
<1>2. CASE m.space # Top
  <2>1. PICK s : s = m.space
    OBVIOUS
  <2>2. s \in Below(m)
    BY <1>2, <2>1, Here DEF Core
  <2>3. PICK m1 : m1 = CountTerminated(m, s)
    OBVIOUS
  <2>4. /\ Murmur(m, m1) /\ Stays(m, m1)
        /\ s \in Live(m) /\ Sound(m, s) => Sound(m1, Top)
    BY <2>2, <2>3, CountTerminatedMurmurs
  <2>5. WellRun(m1) /\ m1.space = s
    BY <2>1, <2>4, MurmurCore DEF Murmur
  <2>6. Core(m1, g, None)
    BY <2>4, MurmurKeeps
  <2>7. k = CheckStability(m1, s)
    BY <1>2, <2>1, <2>3 DEF NotifyTerminated
  <2>8. Kept(m1, g, k) /\ Tallies(m1, k)
    BY <1>2, <2>1, <2>5, <2>6, <2>7, CheckStabilityKeeps
  <2>9. Steady(m, m1)
    BY <2>4, MurmurSteady
  <2>10. Kept(m, g, k)
    BY <2>8, <2>9, SteadyOn DEF Kept
  <2>11. Stays(m, k)
    BY <2>4, <2>8, StaysOn DEF Tallies
  <2>12. s \in Live(m)
    <3>1. m.space \in SubSpaces
      BY <2>1, <2>2 DEF Below, Standing, Created, Spaces
    <3> QED BY <2>1, <3>1, CurrentLive
  <2> QED BY <2>1, <2>4, <2>8, <2>10, <2>11, <2>12 DEF Tallies
<1> QED BY <1>1, <1>2

\* A thread ends: it is not runnable, and will not be any more.
Ends(m, k, t) ==
    /\ k.runnable = m.runnable \ {t} /\ k.terminated = m.terminated \cup {t} /\ k.running = None
    /\ \A w \in Waitees : k.pendings[w] \subseteq m.pendings[w]
    /\ k.at = m.at
    /\ \A u \in OzThreads : k.kind[u] = m.kind[u]

\* The machine runs well without a thread that has ended.
LEMMA EndsWell ==
    ASSUME NEW m, WellRun(m), NEW t \in Threads, m.at[t] # None, NEW k \in Machine,
           Agree(m, k, Unseen), Ends(m, k, t)
    PROVE  WellRun(k)
<1>1. k.parent = m.parent /\ k.status = m.status
  BY DEF Agree, Fields, Unseen, Loose
<1>2. Created(k) = Created(m) /\ (Tree(k) <=> Tree(m))
  BY <1>1, SameSpaces
<1>3. t \in Threads /\ m.at[t] # None
  OBVIOUS
<1>4. Placed(k)
  BY <1>2 DEF Placed, WellRun, Ends
<1>5. Lively(k)
  <2>1. k.runnable \cap k.terminated = {}
    BY DEF Ends, WellRun, Lively
  <2>2. \A u \in OzThreads : k.kind[u] = "none" => k.at[u] = None /\ u \notin k.terminated
    BY <1>3 DEF Ends, WellRun, Lively
  <2>3. \A s \in SubSpaces : k.status[s] = "none" => k.kind[Root(s)] = "none"
    BY <1>1, Sets DEF Ends, WellRun, Lively
  <2> QED BY <2>1, <2>2, <2>3 DEF Lively, Ends
<1> QED BY <1>2, <1>4, <1>5 DEF WellRun

\* The machine when the thread t has ended
Ended(g, t) == IF t \in OzThreads THEN [g EXCEPT !.ended = @ \cup {t}] ELSE g

\* The history goes on when a thread ends.
LEMMA EndedFacts ==
    ASSUME NEW g \in Histories, NEW t
    PROVE  /\ Ended(g, t) \in Histories /\ Later(g, Ended(g, t))
           /\ Ended(g, t).ended = g.ended \cup ({t} \cap OzThreads)
<1>1. CASE t \in OzThreads
  BY <1>1 DEF Histories, Ended, Later
<1>2. CASE t \notin OzThreads
  BY <1>2 DEF Histories, Ended, Later
<1> QED BY <1>1, <1>2

\* Before the space is looked at
EndOz(m, t) == [m EXCEPT !.runnable = @ \ {t}, !.terminated = @ \cup {t},
                         !.dead = @ \cup {t}, !.running = None]
EndHelper(m, t) == [EndOz(m, t) EXCEPT !.pendings = [w \in Waitees |-> @[w] \ {t}],
                                       !.kind[t] = "none"]

\* A thread that is runnable is so no more: its space counts one too many.
Stops(m, k, t) ==
    /\ k.runnable = m.runnable \ {t} /\ k.running = None
    /\ k.parent = m.parent /\ k.status = m.status /\ k.count = m.count /\ k.at = m.at
    /\ \A u \in Threads : u # t => k.kind[u] = m.kind[u]
    /\ \A w \in Waitees : /\ k.pendings[w] \subseteq m.pendings[w]
                          /\ t \in k.pendings[w] => k.kind[t] = m.kind[t]

\* A thread of the program ends, in Thread::terminate.
LEMMA EndOzFacts ==
    ASSUME NEW m, WellRun(m), NEW t \in Threads, m.at[t] # None, NEW k, k = EndOz(m, t)
    PROVE  k \in Machine /\ Agree(m, k, Unseen) /\ Ends(m, k, t) /\ Stops(m, k, t)
<1>1. m \in Machine /\ t \in Threads
  BY DEF WellRun, Machine
<1>2. PICK m1 : m1 = [m EXCEPT !.runnable = @ \ {t}, !.terminated = @ \cup {t}]
  OBVIOUS
<1>3. m1 \in Machine /\ Agree(m, m1, {"runnable", "terminated"})
  BY <1>1, <1>2 DEF Machine, Agree, Fields
<1>4. m1.runnable = m.runnable \ {t} /\ m1.terminated = m.terminated \cup {t}
  BY <1>1, <1>2 DEF Machine
<1>5. PICK m2 : m2 = [m1 EXCEPT !.dead = @ \cup {t}, !.running = None]
  OBVIOUS
<1>6. m2 \in Machine /\ Agree(m1, m2, {"dead", "running"}) /\ m2.running = None
  <2>1. PICK d : d = m1.dead \cup {t}
    OBVIOUS
  <2>2. d \subseteq Threads
    BY <1>1, <1>3, <2>1 DEF Machine
  <2>3. m2 = [m1 EXCEPT !.dead = d, !.running = None]
    BY <1>5, <2>1
  <2> QED BY <1>3, <2>2, <2>3 DEF Machine, Agree, Fields
<1>7. k = m2
  BY <1>2, <1>5 DEF EndOz
<1>8. Agree(m, k, {"runnable", "terminated", "dead", "running"})
  BY <1>3, <1>6, <1>7 DEF Agree
<1>9. Agree(m, k, Unseen)
  BY <1>8 DEF Agree, Unseen, Loose
<1>10. k.pendings = m.pendings /\ k.at = m.at /\ k.kind = m.kind
  BY <1>8 DEF Agree, Fields
<1>11. k.runnable = m1.runnable /\ k.terminated = m1.terminated
  BY <1>6, <1>7 DEF Agree, Fields
<1>12. k.parent = m.parent /\ k.status = m.status /\ k.count = m.count
  BY <1>8 DEF Agree, Fields
<1>13. Stops(m, k, t)
  BY <1>4, <1>6, <1>7, <1>10, <1>11, <1>12 DEF Stops
<1> QED BY <1>4, <1>6, <1>7, <1>9, <1>10, <1>11, <1>13 DEF Ends

\* A thread of the machine ends, and is in no suspension list any more.
LEMMA EndHelperFacts ==
    ASSUME NEW m, WellRun(m), NEW t \in Helpers, m.at[t] # None, NEW k, k = EndHelper(m, t)
    PROVE  k \in Machine /\ Agree(m, k, Unseen) /\ Ends(m, k, t) /\ Stops(m, k, t)
<1>1. PICK m1 : m1 = EndOz(m, t)
  OBVIOUS
<1>2. m1 \in Machine /\ Agree(m, m1, Unseen) /\ Ends(m, m1, t) /\ Stops(m, m1, t)
  BY <1>1, Sets, EndOzFacts
<1>3. PICK p : p = [w \in Waitees |-> m1.pendings[w] \ {t}]
  OBVIOUS
<1>4. PICK kd : kd = [m1.kind EXCEPT ![t] = "none"]
  OBVIOUS
<1>5. /\ p \in [Waitees -> SUBSET Threads] /\ kd \in [Threads -> {"none", "oz", "dummy", "unify"}]
      /\ \A w \in Waitees : p[w] \subseteq m1.pendings[w] /\ t \notin p[w]
      /\ \A u \in Threads : u # t => kd[u] = m1.kind[u]
  BY <1>2, <1>3, <1>4 DEF Machine
<1>6. k = [m1 EXCEPT !.pendings = p, !.kind = kd]
  BY <1>1, <1>3, <1>4 DEF EndHelper
<1>7. k \in Machine /\ Agree(m1, k, {"pendings", "kind"}) /\ k.pendings = p /\ k.kind = kd
  BY <1>2, <1>5, <1>6, ZenonT(60) DEF Machine, Agree, Fields
<1>8. Agree(m, k, Unseen)
  BY <1>2, <1>7 DEF Agree, Unseen, Loose
<1>9. /\ k.runnable = m1.runnable /\ k.terminated = m1.terminated /\ k.running = m1.running
      /\ k.at = m1.at
  BY <1>7 DEF Agree, Fields
<1>10. \A u \in OzThreads : k.kind[u] = m.kind[u]
  BY <1>2, <1>5, <1>7, Sets DEF Ends
<1>11. \A w \in Waitees : k.pendings[w] \subseteq m.pendings[w]
  BY <1>2, <1>5, <1>7 DEF Ends
<1>12. k.parent = m.parent /\ k.status = m.status /\ k.count = m.count
  BY <1>2, <1>7 DEF Agree, Fields, Stops
<1>13. \A u \in Threads : u # t => k.kind[u] = m.kind[u]
  BY <1>2, <1>5, <1>7 DEF Stops
<1>14. \A w \in Waitees : t \notin k.pendings[w]
  BY <1>5, <1>7
<1>15. Stops(m, k, t)
  <2>1. k.runnable = m.runnable \ {t} /\ k.running = None /\ k.at = m.at
    BY <1>2, <1>9 DEF Ends
  <2> QED BY <1>11, <1>12, <1>13, <1>14, <2>1 DEF Stops
<1> QED BY <1>2, <1>7, <1>8, <1>9, <1>10, <1>11, <1>15 DEF Ends

\* When a thread has stopped, its space counts one too many.
LEMMA StopSounds ==
    ASSUME NEW m \in Machine, NEW t \in m.runnable, t # Spare, NEW k \in Machine, Stops(m, k, t),
           Sound(m, Top)
    PROVE  Sound(k, SpaceOf(m, t))
<1>1. PICK s : s = SpaceOf(m, t)
  OBVIOUS
<1>2. t \in Threads /\ Spare \in Threads /\ m.runnable \subseteq Threads
  <2>1. Spare \in Helpers
    BY SpacesAssumption DEF Spare, Helpers
  <2> QED BY <2>1 DEF Machine, Threads
<1>3. Spent(m) => Spent(k)
  BY <1>2 DEF Stops, Spent
<1> SUFFICES ASSUME Books(m, Top) PROVE Books(k, s)
  BY <1>1, <1>3 DEF Sound
<1>4. /\ \A r : Real(k, r) = Real(m, r) /\ Path(k, r) = Path(m, r)
      /\ \A r : Parent(k, r) = Parent(m, r)
  BY SameSpaces DEF Stops
<1>5. Live(k) = Live(m)
  BY <1>4 DEF Live, IsAlive, Stops
<1>6. Counters(k)
  BY <1>4 DEF Counters, Stops, Books
<1>7. ASSUME NEW r \in Live(k) PROVE k.count[r] = Due(k, r) + IF r = s THEN 1 ELSE 0
  <2>1. Busy(k, r) = Busy(m, r)
    BY <1>4 DEF Busy, Stops
  <2>2. Ready(k, r) = Ready(m, r) \ {t}
    BY <1>4 DEF Ready, SpaceOf, Stops
  <2>3. r \in Live(m) /\ r # Top /\ k.count[r] = m.count[r]
    BY <1>5, <1>7, SpacesAssumption DEF Live, Stops
  <2>4. m.count[r] = Due(m, r)
    <3>1. m.count[r] \in Int
      BY <1>7 DEF Machine, Live
    <3>2. Due(m, r) \in Nat
      BY DueFinite DEF Due
    <3> QED BY <2>3, <3>1, <3>2 DEF Books, Tallied
  <2>5. /\ IsFiniteSet(Ready(m, r)) /\ Cardinality(Ready(m, r)) \in Nat
        /\ Cardinality(Busy(m, r)) \in Nat
    BY DueFinite
  <2>6. CASE r = s
    <3>1. t \in Ready(m, r)
      BY <1>1, <2>6 DEF Ready
    <3>2. Cardinality(Ready(m, r) \ {t}) = Cardinality(Ready(m, r)) - 1
      BY <2>5, <3>1, FS_RemoveElement
    <3> QED BY <2>1, <2>2, <2>3, <2>4, <2>5, <2>6, <3>2 DEF Due
  <2>7. CASE r # s
    <3>1. t \notin Ready(m, r)
      BY <1>1, <2>7 DEF Ready
    <3>2. Ready(k, r) = Ready(m, r)
      BY <2>2, <3>1
    <3> QED BY <2>1, <2>3, <2>4, <2>5, <2>7, <3>2 DEF Due
  <2> QED BY <2>6, <2>7
<1>8. Queued(k)
  <2>1. Queued(m) /\ k.runnable \subseteq m.runnable
    BY DEF Books, Stops
  <2>2. \A w \in Waitees : k.pendings[w] \subseteq m.pendings[w]
    BY DEF Stops
  <2> QED BY <2>1, <2>2 DEF Queued
<1>9. Scheduled(k)
  <2>1. Scheduled(m) /\ k.runnable = m.runnable \ {t} /\ k.running = None
    BY DEF Books, Stops
  <2>2. \A u \in Threads : u # t => k.kind[u] = m.kind[u]
    BY DEF Stops
  <2>3. \A u \in k.runnable : k.kind[u] # "none"
    BY <1>2, <2>1, <2>2 DEF Scheduled
  <2>4. ASSUME NEW w \in Waitees, NEW u \in k.pendings[w] PROVE k.kind[u] # "none"
    <3>1. u \in m.pendings[w] /\ (u = t => k.kind[u] = m.kind[u]) /\ m.pendings[w] \subseteq Threads
      BY <2>4 DEF Stops, Machine
    <3>2. k.kind[u] = m.kind[u]
      BY <2>2, <3>1
    <3> QED BY <2>1, <3>1, <3>2 DEF Scheduled
  <2> QED BY <2>1, <2>3, <2>4 DEF Scheduled
<1> QED BY <1>6, <1>7, <1>8, <1>9 DEF Books, Tallied

\* Runnable::terminate binds the variable of the thread, and looks at its space.
LEMMA TerminateKeeps ==
    ASSUME NEW m, WellRun(m), NEW g \in Histories, Core(m, g, None),
           NEW t \in Threads, m.at[t] # None, t \notin g.ended, SpaceOf(m, t) = m.space,
           NEW k, k = Terminate(m, t)
    PROVE  /\ WellRun(k) /\ Core(k, Ended(g, t), None) /\ k.running = None
           /\ \A u \in OzThreads : u \in k.terminated <=> u \in m.terminated \cup {t}
           /\ t \in m.runnable /\ t # Spare /\ Sound(m, Top) => Sound(k, Top)
<1>1. t \in Threads
  BY DEF WellRun, Machine
<1>2. CASE t \in Helpers
  <2>1. PICK m1 : m1 = EndHelper(m, t)
    OBVIOUS
  <2>2. m1 \in Machine /\ Agree(m, m1, Unseen) /\ Ends(m, m1, t) /\ Stops(m, m1, t)
    BY <1>2, <2>1, EndHelperFacts
  <2>3. WellRun(m1)
    BY <2>2, EndsWell
  <2>4. Ended(g, t) = g /\ t \notin OzThreads
    BY <1>2, Sets DEF Ended
  <2>5. Core(m1, g, None)
    <3>1. Later(g, g)
      BY DEF Later
    <3> QED BY <2>2, <3>1, CoreSame
  <2>6. k = NotifyTerminated(m1, m.space)
    BY <1>2, <2>1 DEF Terminate, EndHelper, EndOz
  <2>7. m1.space = m.space
    BY <2>2 DEF Agree, Fields, Unseen, Loose
  <2>8. Kept(m1, g, k) /\ (Sound(m1, m1.space) => Sound(k, Top))
    BY <2>3, <2>5, <2>6, <2>7, NotifyTerminatedKeeps
  <2>9. k.running = None /\ \A u \in OzThreads : u \in k.terminated <=> u \in m.terminated \cup {t}
    BY <2>2, <2>8 DEF Kept, Steady, Ends
  <2>10. t \in m.runnable /\ t # Spare /\ Sound(m, Top) => Sound(k, Top)
    <3> SUFFICES ASSUME t \in m.runnable, t # Spare, Sound(m, Top) PROVE Sound(k, Top)
      OBVIOUS
    <3>1. m \in Machine
      BY DEF WellRun
    <3>2. Sound(m1, m1.space)
      BY <2>2, <2>7, <3>1, StopSounds
    <3> QED BY <2>8, <3>2
  <2> QED BY <2>4, <2>8, <2>9, <2>10 DEF Kept
<1>3. CASE t \notin Helpers
  <2>1. PICK m1 : m1 = EndOz(m, t)
    OBVIOUS
  <2>2. m1 \in Machine /\ Agree(m, m1, Unseen) /\ Ends(m, m1, t) /\ Stops(m, m1, t)
    BY <2>1, EndOzFacts
  <2>3. WellRun(m1)
    BY <2>2, EndsWell
  <2>4. t \in OzThreads
    BY <1>1, <1>3 DEF Threads
  <2>5. Core(m1, g, None)
    <3>1. Later(g, g)
      BY DEF Later
    <3> QED BY <2>2, <3>1, CoreSame
  <2>6. m1.space = m.space
    BY <2>2 DEF Agree, Fields, Unseen, Loose
  <2>7. PICK m2 : m2 = NotifyTerminated(m1, m1.space)
    OBVIOUS
  <2>8. Kept(m1, g, m2) /\ (Sound(m1, m1.space) => Sound(m2, Top))
    BY <2>3, <2>5, <2>7, NotifyTerminatedKeeps
  <2>9. PICK g2 \in Histories : g2 = Ended(g, t) /\ Later(g, g2) /\ t \in g2.ended
    BY <2>4, EndedFacts
  <2>10. WellRun(m2) /\ Core(m2, g2, None)
    <3>1. Agree(m2, m2, Unseen)
      BY DEF Agree
    <3> QED BY <2>8, <2>9, <3>1, CoreSame DEF Kept
  <2>11. DoneVar(t) \in Store /\ DoneVar(t) \notin Vars
    BY <2>4, Sets
  <2>12. m2.bound[DoneVar(t)] = None
    BY <2>4, <2>8 DEF Kept, Core, Bindings
  <2>13. Tellable(m2, g2, None, DoneVar(t), "unit")
    BY <2>9, <2>11, <2>12 DEF Tellable
  <2>14. k = Bind(m2, DoneVar(t), "unit")
    BY <1>3, <2>1, <2>6, <2>7 DEF Terminate, EndOz
  <2>15. WellRun(k) /\ Steady(m2, k) /\ Core(k, g2, None) /\ Tallies(m2, k)
    <3>1. PICK v \in Store : v = DoneVar(t)
      BY <2>11
    <3>2. PICK x : x = "unit"
      OBVIOUS
    <3>3. PICK y : y = Bind(m2, v, x)
      OBVIOUS
    <3>4. WellRun(m2) /\ Core(m2, g2, None) /\ Tellable(m2, g2, None, v, x)
      BY <2>10, <2>13, <3>1, <3>2
    <3>5. WellRun(y) /\ Steady(m2, y) /\ Core(y, g2, None) /\ Tallies(m2, y)
      BY <3>3, <3>4, BindKeeps
    <3> QED BY <2>14, <3>1, <3>2, <3>3, <3>5
  <2>16. k.running = None /\ \A u \in OzThreads : u \in k.terminated <=> u \in m.terminated \cup {t}
    BY <2>2, <2>8, <2>15 DEF Kept, Steady, Ends
  <2>17. t \in m.runnable /\ t # Spare /\ Sound(m, Top) => Sound(k, Top)
    <3> SUFFICES ASSUME t \in m.runnable, t # Spare, Sound(m, Top) PROVE Sound(k, Top)
      OBVIOUS
    <3>1. m \in Machine
      BY DEF WellRun
    <3>2. Sound(m1, m1.space)
      BY <2>2, <2>6, <3>1, StopSounds
    <3>3. Sound(m2, Top)
      BY <2>8, <3>2
    <3> QED BY <2>15, <3>3 DEF Tallies
  <2> QED BY <2>9, <2>15, <2>16, <2>17
<1> QED BY <1>2, <1>3

-----------------------------------------------------------------------------
(* The actions *)

\* The history is the same if the same threads have ended.
LEMMA SamePast ==
    ASSUME NEW m, NEW k, \A u \in OzThreads : u \in k.terminated <=> u \in m.terminated,
           NEW tl, NEW kl
    PROVE  Past(tl, kl, k) = Past(tl, kl, m)
<1>1. k.terminated \cap OzThreads = m.terminated \cap OzThreads
  OBVIOUS
<1> QED BY <1>1 DEF Past

\* The thread that runs has started, has not ended, and belongs to a space.
LEMMA RunningFacts ==
    ASSUME NEW m, WellRun(m), m.running # None
    PROVE  /\ m.running \in OzThreads /\ m.running \in Threads /\ m.running \notin m.terminated
           /\ m.at[m.running] \in Created(m) /\ m.at[m.running] # None
           /\ SpaceOf(m, m.running) \in Standing(m)
<1>1. /\ m.running \in OzThreads /\ m.running \in Threads /\ m.running \notin m.terminated
      /\ m.at[m.running] # None
  BY Sets DEF WellRun, Lively
<1>2. m.at[m.running] \in Created(m)
  BY <1>1 DEF WellRun, Placed
<1>3. PICK rank : Ranked(m, rank)
  BY DEF WellRun, Tree
<1> QED BY <1>1, <1>2, <1>3, RealFacts DEF SpaceOf

\* The thread that runs stays in the current space unless the machine moves.
LEMMA StillHere ==
    ASSUME NEW m, WellRun(m), RunsHere(m), NEW k, Steady(m, k),
           k.space = m.space \/ m.running = None
    PROVE  RunsHere(k)
<1> SUFFICES ASSUME k.running # None PROVE SpaceOf(k, k.running) = k.space
  BY DEF RunsHere
<1>1. k.running = m.running
  BY DEF Steady
<1>2. SpaceOf(m, m.running) = m.space /\ k.space = m.space
  BY <1>1 DEF RunsHere
<1>3. m.running \in OzThreads /\ m.at[m.running] \in Created(m)
  BY <1>1, RunningFacts
<1>4. k.at[m.running] = m.at[m.running]
  BY <1>3 DEF Steady
<1>5. Real(k, m.at[m.running]) = Real(m, m.at[m.running])
  BY <1>3, SteadyTree DEF Likewise
<1> QED BY <1>1, <1>2, <1>4, <1>5 DEF SpaceOf

\* Calls that keep what is known keep the invariant.
LEMMA KeptHolds ==
    ASSUME NEW m, NEW tl, NEW kl, Holds(m, tl, kl), NEW k, Kept(m, Past(tl, kl, m), k),
           k.space = m.space \/ m.running = None
    PROVE  Holds(k, tl, kl)
<1>1. Past(tl, kl, k) = Past(tl, kl, m)
  BY SamePast DEF Kept, Steady
<1>2. RunsHere(k)
  BY StillHere DEF Holds, Kept
<1> QED BY <1>1, <1>2 DEF Holds, Kept

\* Calls that murmur keep the invariant.
LEMMA MurmurHolds ==
    ASSUME NEW m, NEW tl, NEW kl, Holds(m, tl, kl), NEW k, Murmur(m, k)
    PROVE  Holds(k, tl, kl)
<1>1. WellRun(k) /\ Steady(m, k) /\ k.space = m.space
  BY MurmurSteady, MurmurCore DEF Murmur
<1>2. Core(k, Past(tl, kl, m), None)
  BY MurmurKeeps DEF Holds
<1> QED BY <1>1, <1>2, KeptHolds DEF Kept

\* The invariant says nothing of some fields.
LEMMA SilentHolds ==
    ASSUME NEW m, NEW tl, NEW kl, Holds(m, tl, kl), NEW k \in Machine, Agree(m, k, Silent)
    PROVE  Holds(k, tl, kl)
  BY SilentMurmur, MurmurHolds DEF Holds

\* The threads that are runnable or that run are others.
LEMMA OthersHold ==
    ASSUME NEW m, NEW tl, NEW kl, Holds(m, tl, kl), NEW k \in Machine,
           Agree(m, k, {"runnable", "dead", "running"}), k.runnable \subseteq m.runnable,
           k.running # None => /\ k.running \in OzThreads /\ m.at[k.running] # None
                               /\ k.running \notin m.terminated
                               /\ SpaceOf(m, k.running) = m.space
    PROVE  Holds(k, tl, kl)
<1>1. /\ k.parent = m.parent /\ k.status = m.status /\ k.space = m.space
      /\ k.at = m.at /\ k.kind = m.kind /\ k.terminated = m.terminated
      /\ k.pendings = m.pendings
  BY DEF Agree, Fields
<1>2. Agree(m, k, Unseen)
  BY DEF Agree, Unseen, Loose
<1>3. Created(k) = Created(m) /\ (Tree(k) <=> Tree(m)) /\ \A s : Real(k, s) = Real(m, s)
  BY <1>1, SameSpaces
<1>4. Placed(k)
  BY <1>1, <1>3 DEF Holds, WellRun, Placed
<1>5. Lively(k)
  BY <1>1 DEF Holds, WellRun, Lively
<1>6. WellRun(k)
  BY <1>3, <1>4, <1>5 DEF Holds, WellRun
<1>7. Past(tl, kl, k) = Past(tl, kl, m)
  BY <1>1 DEF Past
<1>8. Core(k, Past(tl, kl, m), None)
  <2>1. Later(Past(tl, kl, m), Past(tl, kl, m))
    BY DEF Later
  <2> QED BY <1>2, <2>1, CoreSame DEF Holds
<1>9. RunsHere(k)
  BY <1>1, <1>3 DEF RunsHere, SpaceOf
<1> QED BY <1>6, <1>7, <1>8, <1>9 DEF Holds

\* A thread that is preempted stays runnable, in run().
LEMMA PreemptHolds ==
    ASSUME NEW m, NEW tl, NEW kl, Holds(m, tl, kl), NEW k, k = [m EXCEPT !.running = None]
    PROVE  Holds(k, tl, kl)
<1>1. m \in Machine
  BY DEF Holds, WellRun
<1>2. /\ k \in Machine /\ Agree(m, k, {"runnable", "dead", "running"}) /\ k.runnable = m.runnable
      /\ k.running = None
  BY <1>1 DEF Machine, Agree, Fields
<1> QED BY <1>2, OthersHold

\* run() goes back to the top-level space when nothing is runnable.
LEMMA IdleHolds ==
    ASSUME NEW m, NEW tl, NEW kl, Holds(m, tl, kl), m.running = None, NEW k, k = Install(m, Top)
    PROVE  Holds(k, tl, kl)
<1>1. Top \in Standing(m)
  BY TopIsReal DEF Holds
<1>2. Kept(m, Past(tl, kl, m), k)
  BY <1>1, InstallKeeps DEF Holds
<1> QED BY <1>2, KeptHolds

\* A thread that ends keeps the invariant.
LEMMA ExitHolds ==
    ASSUME NEW m, NEW tl, NEW kl, Holds(m, tl, kl), NEW t \in Threads, m.at[t] # None,
           t \notin m.terminated \/ t \in Helpers, SpaceOf(m, t) = m.space,
           NEW k, k = Terminate(m, t)
    PROVE  Holds(k, tl, kl)
<1>1. PICK g : g = Past(tl, kl, m)
  OBVIOUS
<1>2. WellRun(m) /\ g \in Histories /\ Core(m, g, None)
  BY <1>1 DEF Holds
<1>3. t \notin g.ended
  BY <1>1, Sets DEF Past
<1>4. /\ WellRun(k) /\ Core(k, Ended(g, t), None) /\ k.running = None
      /\ \A u \in OzThreads : u \in k.terminated <=> u \in m.terminated \cup {t}
  BY <1>2, <1>3, TerminateKeeps
<1>5. Past(tl, kl, k) = Ended(g, t)
  <2>1. k.terminated \cap OzThreads = (m.terminated \cap OzThreads) \cup ({t} \cap OzThreads)
    BY <1>4
  <2>2. CASE t \in OzThreads
    BY <1>1, <2>1, <2>2 DEF Past, Ended
  <2>3. CASE t \notin OzThreads
    BY <1>1, <2>1, <2>3 DEF Past, Ended
  <2> QED BY <2>2, <2>3
<1>6. Ended(g, t) \in Histories
  BY <1>2, EndedFacts
<1> QED BY <1>4, <1>5, <1>6 DEF Holds, RunsHere

\* DummyThread and UnifyThread keep the invariant: the one only ends, the other binds
\* a choice.
LEMMA RunHelperHolds ==
    ASSUME NEW m, NEW tl, NEW kl, Holds(m, tl, kl), NEW t \in Helpers, m.at[t] # None,
           SpaceOf(m, t) = m.space, NEW k, k = RunHelper(m, t)
    PROVE  Holds(k, tl, kl)
<1>1. m \in Machine /\ t \in Threads /\ m.at[t] \in Spaces /\ m.at[t] # Top
  BY SpaceOfStands, Sets DEF Holds, WellRun, Placed, Created
<1>2. PICK s \in SubSpaces : s = m.at[t]
  BY <1>1 DEF Spaces
<1>3. PICK m1 : m1 = IF m.kind[t] = "dummy" \/ m.chosen[s] THEN m
                     ELSE WakeUpPendings([m EXCEPT !.chosen[s] = TRUE], ChoiceVar(s))
  OBVIOUS
<1>4. Holds(m1, tl, kl) /\ m1.at = m.at /\ m1.space = m.space /\ \A x \in Created(m) : Real(m1, x) = Real(m, x)
  <2>1. CASE m.kind[t] = "dummy" \/ m.chosen[s]
    BY <1>3, <2>1
  <2>2. CASE ~(m.kind[t] = "dummy" \/ m.chosen[s])
    <3>1. PICK m2 : m2 = [m EXCEPT !.chosen[s] = TRUE]
      OBVIOUS
    <3>2. PICK c : c = [m.chosen EXCEPT ![s] = TRUE]
      OBVIOUS
    <3>3. c \in [SubSpaces -> BOOLEAN] /\ m2 = [m EXCEPT !.chosen = c]
      BY <1>1, <3>1, <3>2 DEF Machine
    <3>4. m2 \in Machine /\ Agree(m, m2, {"chosen"})
      BY <1>1, <3>3 DEF Machine, Agree, Fields
    <3>5. Agree(m, m2, Silent) /\ m2.at = m.at
      BY <3>4 DEF Agree, Fields, Silent
    <3>6. Murmur(m, m2)
      BY <3>4, <3>5, SilentMurmur DEF Holds
    <3>7. m1 = WakeUpPendings(m2, ChoiceVar(s))
      BY <1>3, <2>2, <3>1
    <3>8. ChoiceVar(s) \in Waitees
      BY Sets
    <3>9. Murmur(m2, m1) /\ m1.at = m2.at
      BY <3>6, <3>7, <3>8, WakeUpPendingsMurmurs DEF Murmur
    <3>10. Murmur(m, m1)
      BY <3>6, <3>9, MurmurOn
    <3>11. Holds(m1, tl, kl)
      BY <3>10, MurmurHolds
    <3>12. m1.space = m.space /\ m1.parent = m.parent /\ m1.status = m.status
      BY <3>10, MurmurCore DEF Murmur
    <3> QED BY <3>5, <3>9, <3>11, <3>12, SameSpaces
  <2> QED BY <2>1, <2>2
<1>5. SpaceOf(m1, t) = m1.space /\ m1.at[t] # None
  <2>1. m.at[t] \in Created(m)
    BY <1>1, SpaceOfStands DEF Holds
  <2> QED BY <1>4, <2>1 DEF SpaceOf
<1>6. k = Terminate(m1, t)
  BY <1>2, <1>3 DEF RunHelper
<1> QED BY <1>1, <1>4, <1>5, <1>6, ExitHolds

\* run() installs the space of the next thread, and runs it unless the space has failed
\* on the way.
LEMMA DispatchHolds ==
    ASSUME NEW m, NEW tl, NEW kl, Holds(m, tl, kl), m.running = None, NEW t \in m.runnable,
           NEW x, x = Install(m, SpaceOf(m, t)),
           NEW k, k = IF x.space # SpaceOf(x, t)
                      THEN [x EXCEPT !.runnable = @ \ {t}, !.dead = @ \cup {t}]
                      ELSE IF t \in Helpers THEN RunHelper(x, t)
                      ELSE [x EXCEPT !.running = t]
    PROVE  Holds(k, tl, kl)
<1>1. t \in Threads /\ m.at[t] # None /\ t \notin m.terminated
  BY DEF Holds, WellRun, Placed, Lively, Machine
<1>2. SpaceOf(m, t) \in Standing(m)
  BY <1>1, SpaceOfStands DEF Holds
<1>3. Kept(m, Past(tl, kl, m), x)
  BY <1>2, InstallKeeps DEF Holds
<1>4. Holds(x, tl, kl)
  BY <1>3, KeptHolds
<1>5. x \in Machine /\ x.running = None /\ x.at[t] # None
  BY <1>1, <1>3 DEF Kept, Steady, WellRun
<1>6. CASE x.space # SpaceOf(x, t)
  <2>1. PICK r, d : r = x.runnable \ {t} /\ d = x.dead \cup {t}
    OBVIOUS
  <2>2. r \subseteq x.runnable /\ r \in SUBSET Threads /\ d \in SUBSET Threads
    BY <1>1, <1>5, <2>1 DEF Machine
  <2>3. k = [x EXCEPT !.runnable = r, !.dead = d]
    BY <1>6, <2>1
  <2>4. /\ k \in Machine /\ Agree(x, k, {"runnable", "dead", "running"}) /\ k.runnable = r
        /\ k.running = None
    BY <1>5, <2>2, <2>3, ZenonT(60) DEF Machine, Agree, Fields
  <2> QED BY <1>4, <2>2, <2>4, OthersHold
<1>7. CASE x.space = SpaceOf(x, t) /\ t \in Helpers
  <2>1. k = RunHelper(x, t)
    BY <1>7
  <2> QED BY <1>4, <1>5, <1>7, <2>1, RunHelperHolds
<1>8. CASE x.space = SpaceOf(x, t) /\ t \notin Helpers
  <2>1. k = [x EXCEPT !.running = t]
    BY <1>8
  <2>2. t \in OzThreads
    BY <1>1, <1>8 DEF Threads
  <2>3. t \notin x.terminated
    BY <1>1, <1>3, <2>2 DEF Kept, Steady
  <2>4. /\ k \in Machine /\ Agree(x, k, {"runnable", "dead", "running"}) /\ k.runnable = x.runnable
        /\ k.running = t
    BY <1>1, <1>5, <2>1, ZenonT(60) DEF Machine, Agree, Fields
  <2> QED BY <1>4, <1>5, <1>8, <2>2, <2>3, <2>4, OthersHold
<1> QED BY <1>6, <1>7, <1>8

\* The variable that a thread is going to wait for is not constrained by that.
LEMMA WaitsHolds ==
    ASSUME NEW m, NEW tl, NEW kl, Holds(m, tl, kl), NEW t \in Threads, NEW w \in Waitees \cup {None},
           NEW k, k = [m EXCEPT !.waits[t] = w]
    PROVE  Holds(k, tl, kl)
<1>1. m \in Machine
  BY DEF Holds, WellRun
<1>2. PICK f : f = [m.waits EXCEPT ![t] = w]
  OBVIOUS
<1>3. f \in [Threads -> Waitees \cup {None}] /\ k = [m EXCEPT !.waits = f]
  BY <1>1, <1>2 DEF Machine
<1>4. k \in Machine /\ Agree(m, k, Silent)
  BY <1>1, <1>3, ZenonT(60) DEF Machine, Agree, Fields, Silent
<1> QED BY <1>4, SilentHolds

\* A thread that waits is suspended (Thread::suspendOnVar).
LEMMA SuspendHolds ==
    ASSUME NEW m, NEW tl, NEW kl, Holds(m, tl, kl), NEW t \in Threads, m.at[t] # None,
           NEW w \in Waitees, NEW k, k = AddToSuspendList(Suspend(m, t), w, t)
    PROVE  Holds(k, tl, kl)
<1>1. m \in Machine
  BY DEF Holds, WellRun
<1>2. PICK m1 : m1 = [m EXCEPT !.runnable = @ \ {t}, !.running = None]
  OBVIOUS
<1>3. PICK r : r = m.runnable \ {t}
  OBVIOUS
<1>4. r \subseteq m.runnable /\ r \in SUBSET Threads /\ m1 = [m EXCEPT !.runnable = r, !.running = None]
  BY <1>1, <1>2, <1>3 DEF Machine
<1>5. /\ m1 \in Machine /\ Agree(m, m1, {"runnable", "dead", "running"}) /\ m1.runnable = r
      /\ m1.running = None
  BY <1>1, <1>4 DEF Machine, Agree, Fields
<1>6. Holds(m1, tl, kl)
  BY <1>4, <1>5, OthersHold
<1>7. m1.at = m.at /\ m1.parent = m.parent /\ m1.status = m.status
  BY <1>5 DEF Agree, Fields
<1>8. SpaceOf(m, t) \in Standing(m1)
  <2>1. SpaceOf(m, t) \in Standing(m)
    BY SpaceOfStands DEF Holds
  <2> QED BY <1>7, <2>1, SameSpaces
<1>9. PICK m2 : m2 = Dec(m1, SpaceOf(m, t))
  OBVIOUS
<1>10. Murmur(m1, m2)
  BY <1>6, <1>8, <1>9, DecMurmurs DEF Holds
<1>11. m2.at[t] # None /\ WellRun(m2)
  BY <1>7, <1>10 DEF Murmur
<1>12. k = AddToSuspendList(m2, w, t)
  BY <1>2, <1>9 DEF Suspend
<1>13. Murmur(m2, k)
  BY <1>11, <1>12, SuspendMurmurs
<1> QED BY <1>6, <1>10, <1>13, MurmurOn, MurmurHolds

\* The machine after Space.choose
WithChoice(m, t, s) ==
    [m EXCEPT !.distributor[s] = TRUE, !.chosen[s] = FALSE, !.waits[t] = ChoiceVar(s)]

\* Space.choose keeps the invariant.
LEMMA ChooseHolds ==
    ASSUME NEW m, NEW tl, NEW kl, Holds(m, tl, kl), NEW t \in Threads, NEW s \in SubSpaces,
           NEW k, k = WithChoice(m, t, s)
    PROVE  Holds(k, tl, kl)
<1>1. m \in Machine /\ ChoiceVar(s) \in Waitees
  BY Sets DEF Holds, WellRun
<1>2. PICK d, c, f : d = [m.distributor EXCEPT ![s] = TRUE] /\ c = [m.chosen EXCEPT ![s] = FALSE]
                     /\ f = [m.waits EXCEPT ![t] = ChoiceVar(s)]
  OBVIOUS
<1>3. /\ d \in [SubSpaces -> BOOLEAN] /\ c \in [SubSpaces -> BOOLEAN]
      /\ f \in [Threads -> Waitees \cup {None}]
      /\ k = [m EXCEPT !.distributor = d, !.chosen = c, !.waits = f]
  BY <1>1, <1>2 DEF Machine, WithChoice
<1>4. k \in Machine /\ Agree(m, k, Silent)
  BY <1>1, <1>3, ZenonT(60) DEF Machine, Agree, Fields, Silent
<1> QED BY <1>4, SilentHolds

\* The space after Space.commit
Unanswered(m, s) == [m EXCEPT !.distributor[s] = FALSE, !.answer[s] = "unbound"]

\* Space.commit keeps the invariant.
LEMMA CommitHolds ==
    ASSUME NEW m, NEW tl, NEW kl, Holds(m, tl, kl), NEW s \in SubSpaces, m.status[s] = "normal",
           NEW h, h = FreeHelper(m),
           NEW k, k = Unanswered(Resume(New(m, h, "unify", s), h), s)
    PROVE  Holds(k, tl, kl)
<1>1. m \in Machine /\ WellRun(m) /\ h \in Helpers /\ h \in Threads
  BY FreeHelperIsHelper, Sets DEF Holds, WellRun
<1>2. s \in Created(m) /\ s # Top
  BY Sets, SpacesAssumption DEF Created, Spaces
<1>3. PICK m1 : m1 = New(m, h, "unify", s)
  OBVIOUS
<1>4. Murmur(m, m1) /\ m1.at[h] = s /\ h \notin m1.terminated /\ s # None
  BY <1>1, <1>2, <1>3, NewMurmurs
<1>5. PICK m2 : m2 = Resume(m1, h)
  OBVIOUS
<1>6. Murmur(m1, m2)
  BY <1>1, <1>4, <1>5, ResumeMurmurs DEF Murmur
<1>7. Holds(m2, tl, kl)
  BY <1>4, <1>6, MurmurOn, MurmurHolds
<1>8. m2 \in Machine
  BY <1>7 DEF Holds, WellRun
<1>9. PICK d, a : d = [m2.distributor EXCEPT ![s] = FALSE] /\ a = [m2.answer EXCEPT ![s] = "unbound"]
  OBVIOUS
<1>10. /\ d \in [SubSpaces -> BOOLEAN] /\ a \in [SubSpaces -> Answers]
       /\ k = [m2 EXCEPT !.distributor = d, !.answer = a]
  BY <1>3, <1>5, <1>8, <1>9 DEF Machine, Answers, Unanswered
<1>11. k \in Machine /\ Agree(m2, k, Silent)
  BY <1>8, <1>10, ZenonT(60) DEF Machine, Agree, Fields, Silent
<1> QED BY <1>7, <1>11, SilentHolds

-----------------------------------------------------------------------------
(* Threads that start *)

\* t is not the first thread of a space that has not been created.
Startable(m, t) == /\ t \in OzThreads /\ m.kind[t] = "none"
                   /\ \A r \in SubSpaces : m.status[r] = "none" => t # Root(r)

\* The fields that change when a thread of the program is made.
LEMMA NewFacts ==
    ASSUME NEW m \in Machine, NEW t \in Threads, NEW s \in Spaces, NEW k, k = New(m, t, "oz", s)
    PROVE  /\ k \in Machine /\ Agree(m, k, {"kind", "at", "peopled", "terminated", "dead"})
           /\ k.terminated = m.terminated \ {t}
           /\ \A u \in Threads : /\ k.at[u] = IF u = t THEN s ELSE m.at[u]
                                 /\ k.kind[u] = IF u = t THEN "oz" ELSE m.kind[u]
<1>1. PICK kd, at : kd = [m.kind EXCEPT ![t] = "oz"] /\ at = [m.at EXCEPT ![t] = s]
  OBVIOUS
<1>2. PICK pe : pe = [m.peopled EXCEPT ![s] = TRUE]
  OBVIOUS
<1>3. PICK en, de : en = m.terminated \ {t} /\ de = m.dead \ {t}
  OBVIOUS
<1>4. /\ kd \in [Threads -> {"none", "oz", "dummy", "unify"}] /\ at \in [Threads -> Spaces \cup {None}]
      /\ \A u \in Threads : /\ at[u] = IF u = t THEN s ELSE m.at[u]
                            /\ kd[u] = IF u = t THEN "oz" ELSE m.kind[u]
  BY <1>1 DEF Machine
<1>5. pe \in [Spaces -> BOOLEAN]
  BY <1>2 DEF Machine
<1>6. en \in SUBSET Threads /\ de \in SUBSET Threads
  BY <1>3 DEF Machine
<1>7. PICK m1 : m1 = [m EXCEPT !.kind = kd, !.at = at, !.peopled = pe]
  OBVIOUS
<1>8. m1 \in Machine /\ Agree(m, m1, {"kind", "at", "peopled"}) /\ m1.kind = kd /\ m1.at = at
  BY <1>4, <1>5, <1>7 DEF Machine, Agree, Fields
<1>9. k = [m1 EXCEPT !.terminated = en, !.dead = de]
  BY <1>1, <1>2, <1>3, <1>7 DEF New
<1>10. k \in Machine /\ Agree(m1, k, {"terminated", "dead"}) /\ k.terminated = en
  <2>1. PICK x : x = [m1 EXCEPT !.terminated = en]
    OBVIOUS
  <2>2. x \in Machine /\ Agree(m1, x, {"terminated"}) /\ x.terminated = en
    BY <1>6, <1>8, <2>1 DEF Machine, Agree, Fields
  <2>3. PICK y : y = [x EXCEPT !.dead = de]
    OBVIOUS
  <2>4. y \in Machine /\ Agree(x, y, {"dead"})
    BY <1>6, <2>2, <2>3 DEF Machine, Agree, Fields
  <2>5. k \in Machine /\ Agree(x, k, {"dead"})
    BY <1>9, <2>1, <2>3, <2>4
  <2>6. k.terminated = x.terminated
    BY <2>5 DEF Agree, Fields
  <2> QED BY <2>2, <2>5, <2>6 DEF Agree
<1>11. Agree(m, k, {"kind", "at", "peopled", "terminated", "dead"})
  BY <1>8, <1>10 DEF Agree
<1>12. k.kind = kd /\ k.at = at
  BY <1>8, <1>10 DEF Agree, Fields
<1> QED BY <1>3, <1>4, <1>10, <1>11, <1>12

\* Such a thread is in a space that has been created.
LEMMA NewHolds ==
    ASSUME NEW m, NEW tl, NEW kl, Holds(m, tl, kl), NEW t, Startable(m, t),
           NEW s \in Created(m), NEW k, k = New(m, t, "oz", s)
    PROVE  Holds(k, tl, kl) /\ k.at[t] = s /\ s # None /\ t \notin k.terminated
<1>1. m \in Machine /\ t \in OzThreads /\ t \in Threads /\ s \in Spaces /\ s # None
  BY Sets DEF Holds, WellRun, Startable, Created
<1>2. m.at[t] = None /\ t \notin m.terminated
  BY <1>1 DEF Holds, WellRun, Lively, Startable
<1>3. /\ k \in Machine /\ Agree(m, k, {"kind", "at", "peopled", "terminated", "dead"})
      /\ k.terminated = m.terminated
      /\ \A u \in Threads : /\ k.at[u] = IF u = t THEN s ELSE m.at[u]
                            /\ k.kind[u] = IF u = t THEN "oz" ELSE m.kind[u]
  <2>1. m.terminated \ {t} = m.terminated
    BY <1>2
  <2>2. PICK y : y = New(m, t, "oz", s)
    OBVIOUS
  <2>3. /\ y \in Machine /\ Agree(m, y, {"kind", "at", "peopled", "terminated", "dead"})
        /\ y.terminated = m.terminated \ {t}
        /\ \A u \in Threads : /\ y.at[u] = IF u = t THEN s ELSE m.at[u]
                              /\ y.kind[u] = IF u = t THEN "oz" ELSE m.kind[u]
    BY <1>1, <2>2, NewFacts
  <2>4. k = y
    BY <2>2
  <2> QED BY <2>1, <2>3, <2>4
<1>4. /\ k.parent = m.parent /\ k.status = m.status /\ k.space = m.space
      /\ k.runnable = m.runnable /\ k.pendings = m.pendings /\ k.running = m.running
  BY <1>3 DEF Agree, Fields
<1>5. Created(k) = Created(m) /\ (Tree(k) <=> Tree(m)) /\ \A x : Real(k, x) = Real(m, x)
  BY <1>4, SameSpaces
<1>6. Placed(k)
  <2>1. t \notin Helpers
    BY <1>1, Sets
  <2>2. m.runnable \subseteq Threads /\ \A w \in Waitees : m.pendings[w] \subseteq Threads
    BY <1>1 DEF Machine
  <2> QED BY <1>1, <1>3, <1>4, <1>5, <2>1, <2>2, Sets DEF Holds, WellRun, Placed
<1>7. m.running # t
  BY <1>1, <1>2, Sets DEF Holds, WellRun, Lively
<1>8. Lively(k)
  <2>1. k.running # None => k.at[k.running] # None /\ k.running \notin k.terminated
    BY <1>1, <1>3, <1>4, RunningFacts DEF Holds
  <2>2. \A u \in OzThreads : k.kind[u] = "none" => k.at[u] = None /\ u \notin k.terminated
    BY <1>3, Sets DEF Holds, WellRun, Lively
  <2>3. \A r \in SubSpaces : k.status[r] = "none" => k.kind[Root(r)] = "none"
    BY <1>3, <1>4, Sets DEF Holds, WellRun, Lively, Startable
  <2> QED BY <1>3, <1>4, <2>1, <2>2, <2>3 DEF Holds, WellRun, Lively
<1>9. Core(k, Past(tl, kl, m), None)
  <2>1. Later(Past(tl, kl, m), Past(tl, kl, m))
    BY DEF Later
  <2>2. Agree(m, k, Unseen)
    BY <1>3 DEF Agree, Unseen, Loose
  <2> QED BY <2>1, <2>2, CoreSame DEF Holds
<1>10. Past(tl, kl, k) = Past(tl, kl, m)
  BY <1>3 DEF Past
<1>11. RunsHere(k)
  <2> SUFFICES ASSUME k.running # None PROVE SpaceOf(k, k.running) = k.space
    BY DEF RunsHere
  <2>1. k.at[k.running] = m.at[m.running]
    BY <1>3, <1>4, <1>7, RunningFacts DEF Holds
  <2> QED BY <1>4, <1>5, <2>1 DEF Holds, RunsHere, SpaceOf
<1> QED BY <1>1, <1>2, <1>3, <1>5, <1>6, <1>8, <1>9, <1>10, <1>11 DEF Holds, WellRun

\* A thread that is made and resumed keeps the invariant (createThread).
LEMMA CreateHolds ==
    ASSUME NEW m, NEW tl, NEW kl, Holds(m, tl, kl), NEW t, Startable(m, t),
           NEW s \in Created(m), NEW k, k = Create(m, t, s)
    PROVE  Holds(k, tl, kl)
<1>1. PICK m1 : m1 = New(m, t, "oz", s)
  OBVIOUS
<1>2. Holds(m1, tl, kl) /\ m1.at[t] = s /\ s # None /\ t \notin m1.terminated
  BY <1>1, NewHolds
<1>3. m1 \in Machine /\ t \in OzThreads /\ t \in Threads /\ s \in Spaces
  BY <1>2, Sets DEF Holds, WellRun, Startable, Created
<1>4. DoneVar(t) \in Store /\ DoneVar(t) \notin Vars
  BY <1>3, Sets
<1>5. PICK ho : ho = [m1.home EXCEPT ![DoneVar(t)] = s]
  OBVIOUS
<1>6. ho \in [Store -> Spaces] /\ \A v \in Vars : ho[v] = m1.home[v]
  BY <1>3, <1>4, <1>5 DEF Machine
<1>7. PICK m2 : m2 = [m1 EXCEPT !.home = ho]
  OBVIOUS
<1>8. m2 \in Machine /\ Agree(m1, m2, {"home"}) /\ m2.home = ho
  BY <1>3, <1>6, <1>7 DEF Machine, Agree, Fields
<1>9. /\ m2.parent = m1.parent /\ m2.status = m1.status /\ m2.running = m1.running
      /\ m2.at = m1.at /\ m2.kind = m1.kind /\ m2.runnable = m1.runnable
      /\ m2.terminated = m1.terminated /\ m2.pendings = m1.pendings
      /\ m2.optimized = m1.optimized
  BY <1>8 DEF Agree, Fields
<1>10. Created(m2) = Created(m1) /\ (Tree(m2) <=> Tree(m1))
  BY <1>9, SameSpaces
<1>11. Placed(m2) /\ Lively(m2)
  BY <1>2, <1>9, <1>10 DEF Placed, Lively, WellRun, Holds
<1>12. Murmur(m1, m2)
  <2>1. Agree(m1, m2, Loose)
    BY <1>8 DEF Agree, Loose
  <2> QED BY <1>2, <1>6, <1>8, <1>9, <1>10, <1>11, <2>1 DEF Murmur, WellRun, Holds
<1>13. k = Resume(m2, t)
  BY <1>1, <1>5, <1>7 DEF Create
<1>14. Murmur(m2, k)
  BY <1>2, <1>3, <1>9, <1>12, <1>13, ResumeMurmurs DEF Murmur
<1> QED BY <1>2, <1>12, <1>14, MurmurOn, MurmurHolds

-----------------------------------------------------------------------------
(* Spaces that are created and killed *)

\* A space is created.
Newborn(m, s) == [m EXCEPT !.status[s] = "normal", !.parent[s] = m.space]

\* The space s of k is a new one, below the current one.
Born(m, k, s) ==
    /\ Agree(m, k, {"status", "parent"})
    /\ \A r \in Spaces : k.status[r] = IF r = s THEN "normal" ELSE m.status[r]
    /\ \A r \in SubSpaces : k.parent[r] = IF r = s THEN m.space ELSE m.parent[r]
    /\ s \notin Created(m) /\ Created(k) = Created(m) \cup {s}
    /\ \A x \in Created(m) : Real(k, x) = Real(m, x)
    /\ \A x \in Standing(m) : Path(k, x) = Path(m, x)

\* A new space is below the current one, and is told nothing.
LEMMA BirthHolds ==
    ASSUME NEW m, NEW tl, NEW kl, Holds(m, tl, kl), NEW s \in SubSpaces, m.status[s] = "none",
           NEW k, k = Newborn(m, s)
    PROVE  Holds(k, tl, kl) /\ s \in Created(k) /\ Startable(k, Root(s)) /\ Born(m, k, s)
<1>1. m \in Machine /\ WellRun(m) /\ s \in Spaces /\ s # Top /\ s # None
  BY Sets, SpacesAssumption DEF Holds, WellRun
<1>2. PICK p \in Standing(m) : p = m.space /\ p \in Spaces /\ p \in Created(m)
  <2>1. Installed(m, None)
    BY DEF Holds, Core
  <2> QED BY <1>1, <2>1, Here DEF Standing
<1>3. PICK st, pa : st = [m.status EXCEPT ![s] = "normal"] /\ pa = [m.parent EXCEPT ![s] = p]
  OBVIOUS
<1>4. /\ st \in [Spaces -> {"none", "normal", "failed", "merged"}]
      /\ pa \in [SubSpaces -> Spaces \cup {None}]
      /\ \A r \in Spaces : st[r] = IF r = s THEN "normal" ELSE m.status[r]
      /\ \A r \in SubSpaces : pa[r] = IF r = s THEN p ELSE m.parent[r]
  BY <1>1, <1>2, <1>3 DEF Machine
<1>5. k \in Machine /\ Agree(m, k, {"status", "parent"}) /\ k.status = st /\ k.parent = pa
  <2>1. k = [m EXCEPT !.status = st, !.parent = pa]
    BY <1>2, <1>3 DEF Newborn
  <2> QED BY <1>1, <1>4, <2>1, ZenonT(60) DEF Machine, Agree, Fields
<1>6. /\ k.at = m.at /\ k.kind = m.kind /\ k.runnable = m.runnable /\ k.space = m.space
      /\ k.terminated = m.terminated /\ k.pendings = m.pendings /\ k.running = m.running
      /\ k.trail = m.trail /\ k.script = m.script /\ k.bound = m.bound
      /\ k.home = m.home /\ k.optimized = m.optimized
  BY <1>5 DEF Agree, Fields
<1>7. s \notin Created(m) /\ Created(k) = Created(m) \cup {s}
  <2>1. s \notin Created(m)
    BY DEF Created
  <2>2. \A r \in Spaces : r \in Created(k) <=> r \in Created(m) \/ r = s
    BY <1>4, <1>5 DEF Created
  <2>3. Created(k) \subseteq Spaces /\ Created(m) \subseteq Spaces
    BY DEF Created
  <2> QED BY <1>1, <2>1, <2>2, <2>3
<1>8. PICK rank : Ranked(m, rank)
  BY <1>1 DEF WellRun, Tree
<1>9. PICK K \in Nat : /\ K = Cardinality(Created(m) \ {Top})
                       /\ K + 1 = Cardinality(Created(k) \ {Top})
  <2>1. PICK S : S = Created(m) \ {Top}
    OBVIOUS
  <2>2. S \subseteq SubSpaces
    BY <2>1 DEF Created, Spaces
  <2>3. IsFiniteSet(S)
    BY <2>2, SpacesAssumption, FS_Subset
  <2>4. s \notin S /\ Created(k) \ {Top} = S \cup {s}
    BY <1>1, <1>7, <2>1
  <2>5. Cardinality(S) \in Nat /\ Cardinality(S \cup {s}) = Cardinality(S) + 1
    BY <2>3, <2>4, FS_AddElement, FS_CardinalityType
  <2> QED BY <2>1, <2>4, <2>5
<1>10. PICK rank2 : rank2 = [rank EXCEPT ![s] = rank[p] + 1]
  OBVIOUS
<1>11. Ranked(k, rank2)
  <2>1. /\ rank \in [Spaces -> Nat] /\ rank[Top] = 0 /\ m.status[Top] = "normal"
        /\ \A x \in Created(m) \ {Top} : m.parent[x] \in Created(m) /\ rank[m.parent[x]] < rank[x]
        /\ \A x \in Created(m) : rank[x] <= K
    BY <1>8, <1>9 DEF Ranked
  <2>2. /\ rank2 \in [Spaces -> Nat]
        /\ \A x \in Spaces : rank2[x] = IF x = s THEN rank[p] + 1 ELSE rank[x]
    <3>1. PICK n \in Nat : n = rank[p] + 1
      BY <1>2, <2>1
    <3>2. rank2 = [rank EXCEPT ![s] = n]
      BY <1>10, <3>1
    <3> QED BY <1>1, <2>1, <3>1, <3>2
  <2>3. rank2[Top] = 0 /\ k.status[Top] = "normal"
    BY <1>1, <1>4, <1>5, <2>1, <2>2, Sets
  <2>4. ASSUME NEW x \in Created(k) \ {Top}
        PROVE  k.parent[x] \in Created(k) /\ rank2[k.parent[x]] < rank2[x]
    <3>1. CASE x = s
      <4>1. k.parent[x] = p
        BY <1>4, <1>5, <3>1
      <4>2. rank2[p] = rank[p] /\ rank2[s] = rank[p] + 1 /\ rank[p] \in Nat
        BY <1>1, <1>2, <1>7, <2>1, <2>2
      <4> QED BY <1>2, <1>7, <3>1, <4>1, <4>2
    <3>2. CASE x # s
      <4>1. x \in Created(m) \ {Top} /\ x \in SubSpaces /\ x \in Spaces
        BY <1>7, <3>2 DEF Created, Spaces
      <4>2. k.parent[x] = m.parent[x]
        BY <1>4, <1>5, <3>2, <4>1
      <4>3. PICK y \in Created(m) : y = m.parent[x] /\ rank[y] < rank[x]
        BY <2>1, <4>1
      <4>4. y \in Spaces /\ y # s
        BY <1>7, <4>3 DEF Created
      <4>5. rank2[y] = rank[y] /\ rank2[x] = rank[x]
        BY <2>2, <3>2, <4>1, <4>4
      <4> QED BY <1>7, <4>2, <4>3, <4>5
    <3> QED BY <3>1, <3>2
  <2>5. ASSUME NEW x \in Created(k) PROVE rank2[x] <= K + 1
    <3>1. CASE x = s
      <4>1. rank[p] \in Nat /\ rank[p] <= K /\ rank2[x] = rank[p] + 1
        BY <1>1, <1>2, <2>1, <2>2, <3>1
      <4> QED BY <4>1
    <3>2. CASE x # s
      <4>1. x \in Created(m) /\ x \in Spaces
        BY <1>7, <3>2 DEF Created
      <4>2. rank2[x] = rank[x] /\ rank[x] <= K /\ rank[x] \in Nat
        BY <2>1, <2>2, <3>2, <4>1
      <4> QED BY <4>2
    <3> QED BY <3>1, <3>2
  <2> QED BY <1>9, <2>2, <2>3, <2>4, <2>5 DEF Ranked
<1>12. Placed(k)
  BY <1>1, <1>6, <1>7 DEF WellRun, Placed
<1>13. Lively(k)
  BY <1>1, <1>4, <1>5, <1>6, Sets DEF WellRun, Lively
<1>14. WellRun(k)
  BY <1>5, <1>11, <1>12, <1>13 DEF WellRun, Tree
<1>15. SameTree(m, k)
  <2> SUFFICES ASSUME NEW x \in Created(m)
               PROVE  /\ x \in Created(k)
                      /\ k.status[x] = "merged" <=> m.status[x] = "merged"
                      /\ x # Top => k.parent[x] = m.parent[x]
    BY DEF SameTree
  <2>1. x \in Spaces /\ x # s /\ (x # Top => x \in SubSpaces)
    BY <1>7 DEF Created, Spaces
  <2> QED BY <1>4, <1>5, <1>7, <2>1
<1>16. \A x \in Created(m) : Real(k, x) = Real(m, x)
  BY <1>8, <1>11, <1>15, SameReal
<1>17. \A x \in Standing(m) : Path(k, x) = Path(m, x) /\ Over(k, x) = Over(m, x)
  BY <1>8, <1>11, <1>15, SamePath DEF Over
<1>18. Current(k) = Current(m) /\ Current(m) \subseteq Standing(m)
  <2>1. Installed(m, None)
    BY DEF Holds, Core
  <2> QED BY <1>1, <1>2, <1>6, <1>17, <2>1, Here DEF Current
<1>19. RunsHere(k)
  <2> SUFFICES ASSUME k.running # None PROVE SpaceOf(k, k.running) = k.space
    BY DEF RunsHere
  <2>1. m.at[m.running] \in Created(m)
    BY <1>1, <1>6, RunningFacts
  <2> QED BY <1>6, <1>16, <2>1 DEF Holds, RunsHere, SpaceOf
<1>20. PICK g : g = Past(tl, kl, m)
  OBVIOUS
<1>21. Past(tl, kl, k) = g /\ g \in Histories
  BY <1>6, <1>20 DEF Past, Holds
<1>22. /\ Homes(m) /\ Installed(m, None) /\ Trails(m, g) /\ Bindings(m, g) /\ Visible(m, g, None)
       /\ Scripts(m, g) /\ Hidden(m, g) /\ Failures(m, g) /\ Unborn(m, g)
  BY <1>20 DEF Holds, Core
<1>23. \A x \in Created(m) : x \in Spaces /\ x # s /\ k.status[x] = m.status[x]
  BY <1>4, <1>5, <1>7 DEF Created
<1>24. Homes(k) /\ Bindings(k, g) /\ Scripts(k, g) /\ Visible(k, g, None)
  BY <1>6, <1>18, <1>22 DEF Homes, Bindings, Scripts, Visible
<1>25. Installed(k, None)
  <2>1. \A a \in Current(m) : k.status[a] = "normal"
    BY <1>18, <1>22, <1>23 DEF Installed, Standing
  <2>2. k.status[k.space] = "normal"
    BY <1>2, <1>6, <1>22, <1>23 DEF Installed
  <2> QED BY <1>6, <1>18, <1>22, <2>1, <2>2 DEF Installed
<1>26. Trails(k, g)
  <2>1. \A r \in SubSpaces : \A v \in ToSet(m.trail[r]) : r \in Standing(m)
    <3> SUFFICES ASSUME NEW r \in SubSpaces, NEW v \in ToSet(m.trail[r]) PROVE r \in Standing(m)
      OBVIOUS
    <3>1. m.trail[r] # << >>
      BY ToSetFacts
    <3> QED BY <1>18, <1>22, <3>1 DEF Installed
  <2> QED BY <1>6, <1>17, <1>22, <2>1 DEF Trails
<1>27. Hidden(k, g)
  <2> SUFFICES ASSUME NEW r \in SubSpaces \ Current(m), k.status[r] = "normal", NEW c \in g.told[r]
               PROVE  c \in ToSet(m.script[r]) \/ \E a \in Over(k, r) : c \in g.told[a]
    BY <1>6, <1>18 DEF Hidden
  <2>1. r # s
    BY <1>22 DEF Unborn
  <2>2. m.status[r] = "normal" /\ r \in Spaces
    BY <1>4, <1>5, <2>1, Sets
  <2>3. r \in Standing(m)
    BY <2>2 DEF Standing, Created
  <2> QED BY <1>17, <1>22, <2>2, <2>3 DEF Hidden
<1>28. Failures(k, g)
  <2>1. ASSUME NEW r \in g.killed PROVE k.status[r] = "failed"
    <3>1. m.status[r] = "failed" /\ r \in Spaces
      BY <1>21, <1>22, Sets DEF Failures, Histories
    <3>2. r # s
      BY <3>1
    <3> QED BY <1>4, <1>5, <3>1, <3>2
  <2>2. ASSUME NEW r \in SubSpaces, k.status[r] = "failed"
        PROVE  Path(k, r) \cap g.killed # {} \/ Contradict(g, Path(k, r))
    <3>1. r # s /\ m.status[r] = "failed" /\ r \in Spaces
      BY <1>4, <1>5, <2>2, Sets
    <3>2. r \in Standing(m)
      BY <3>1 DEF Standing, Created
    <3>3. Path(k, r) = Path(m, r)
      BY <1>17, <3>2
    <3> QED BY <1>22, <3>1, <3>3 DEF Failures
  <2> QED BY <2>1, <2>2 DEF Failures
<1>29. Unborn(k, g)
  <2> SUFFICES ASSUME NEW r \in SubSpaces, k.status[r] = "none"
               PROVE  k.trail[r] = << >> /\ k.script[r] = << >> /\ g.told[r] = {}
    BY DEF Unborn
  <2>1. m.status[r] = "none"
    BY <1>4, <1>5, Sets
  <2> QED BY <1>6, <1>22, <2>1 DEF Unborn
<1>30. Core(k, g, None)
  BY <1>24, <1>25, <1>26, <1>27, <1>28, <1>29 DEF Core
<1>31. Startable(k, Root(s))
  <2>1. Root(s) \in OzThreads
    BY <1>1, Sets
  <2>2. m.kind[Root(s)] = "none"
    BY <1>1 DEF WellRun, Lively
  <2>3. ASSUME NEW r \in SubSpaces, k.status[r] = "none" PROVE Root(s) # Root(r)
    <3>1. r # s
      BY <1>1, <1>4, <1>5, <2>3
    <3> QED BY <3>1 DEF Root
  <2> QED BY <1>6, <2>1, <2>2, <2>3 DEF Startable
<1>32. Born(m, k, s)
  BY <1>2, <1>4, <1>5, <1>7, <1>16, <1>17 DEF Born
<1> QED BY <1>7, <1>14, <1>19, <1>21, <1>30, <1>31, <1>32 DEF Holds

\* A thread that makes another one keeps the invariant.
LEMMA SpawnHolds ==
    ASSUME NEW m, NEW tl, NEW kl, Holds(m, tl, kl), NEW e \in Extras, m.kind[<<"extra", e>>] = "none",
           NEW k, k = Create(m, <<"extra", e>>, m.space)
    PROVE  Holds(k, tl, kl)
<1>1. m.space \in Created(m)
  BY Here DEF Holds, Core, Standing
<1>2. PICK t : t = <<"extra", e>>
  OBVIOUS
<1>3. Startable(m, t)
  BY <1>2 DEF Startable, OzThreads, Root
<1>4. k = Create(m, t, m.space)
  BY <1>2
<1> QED BY <1>1, <1>3, <1>4, CreateHolds

\* Space.new keeps the invariant: the space is made, then its first thread.
LEMMA NewSpaceHolds ==
    ASSUME NEW m, NEW tl, NEW kl, Holds(m, tl, kl), NEW s \in SubSpaces, m.status[s] = "none",
           NEW x, x = Newborn(m, s), NEW k, k = Create(x, Root(s), s)
    PROVE  Holds(k, tl, kl)
<1>1. Holds(x, tl, kl) /\ s \in Created(x) /\ Startable(x, Root(s))
  BY BirthHolds
<1> QED BY <1>1, CreateHolds

\* A space that is not installed fails because it is killed.
LEMMA KilledKeeps ==
    ASSUME NEW m, WellRun(m), NEW g \in Histories, Core(m, g, None),
           NEW s \in Below(m), s \notin Current(m),
           NEW k, Steady(m, k), Agree(m, k, Silent \cup {"status"}),
           k.status = [m.status EXCEPT ![s] = "failed"],
           NEW g2, g2 = [g EXCEPT !.killed = @ \cup {s}]
    PROVE  g2 \in Histories /\ Core(k, g2, None)
<1>1. s \in Spaces /\ s \in SubSpaces /\ s \in Created(m) /\ m.status \in [Spaces -> {"none", "normal", "failed", "merged"}]
  BY DEF Below, Standing, Created, Spaces, WellRun, Machine
<1>2. \A r \in Spaces : k.status[r] = IF r = s THEN "failed" ELSE m.status[r]
  BY <1>1
<1>3. /\ k.space = m.space /\ k.trail = m.trail /\ k.script = m.script /\ k.bound = m.bound
      /\ k.home = m.home /\ k.optimized = m.optimized
  BY DEF Agree, Fields, Silent
<1>4. /\ g2 \in Histories /\ g2.told = g.told /\ g2.ended = g.ended /\ g2.killed = g.killed \cup {s}
  BY <1>1 DEF Histories
<1>5. /\ Homes(m) /\ Installed(m, None) /\ Trails(m, g) /\ Bindings(m, g) /\ Visible(m, g, None)
      /\ Scripts(m, g) /\ Hidden(m, g) /\ Failures(m, g) /\ Unborn(m, g)
  BY DEF Core
<1>6. \A x \in Standing(m) : Path(k, x) = Path(m, x) /\ Over(k, x) = Over(m, x)
  BY SteadyTree DEF Likewise, Over
<1>7. /\ Current(k) = Current(m) /\ Current(m) \subseteq Standing(m) /\ Current(m) \subseteq Spaces
      /\ m.space \in Current(m) /\ m.space \in Spaces
  BY <1>3, <1>5, <1>6, Here DEF Current
<1>8. Homes(k) /\ Bindings(k, g2) /\ Visible(k, g2, None) /\ Scripts(k, g2)
  BY <1>3, <1>4, <1>5, <1>7 DEF Homes, Bindings, Visible, Scripts
<1>9. Installed(k, None)
  <2>1. \A a \in Current(m) : k.status[a] = "normal"
    BY <1>2, <1>5, <1>7 DEF Installed
  <2> QED BY <1>3, <1>5, <1>7, <2>1 DEF Installed
<1>10. Trails(k, g2)
  <2>1. \A r \in SubSpaces : \A v \in ToSet(m.trail[r]) : r \in Standing(m)
    <3> SUFFICES ASSUME NEW r \in SubSpaces, NEW v \in ToSet(m.trail[r]) PROVE r \in Standing(m)
      OBVIOUS
    <3>1. m.trail[r] # << >>
      BY ToSetFacts
    <3> QED BY <1>5, <1>7, <3>1 DEF Installed
  <2> QED BY <1>3, <1>4, <1>5, <1>6, <2>1 DEF Trails
<1>11. Hidden(k, g2)
  <2> SUFFICES ASSUME NEW r \in SubSpaces \ Current(m), k.status[r] = "normal", NEW c \in g.told[r]
               PROVE  c \in ToSet(m.script[r]) \/ \E a \in Over(k, r) : c \in g.told[a]
    BY <1>3, <1>4, <1>7 DEF Hidden
  <2>1. m.status[r] = "normal" /\ r \in Spaces
    BY <1>2, Sets
  <2>2. r \in Standing(m)
    BY <2>1 DEF Standing, Created
  <2> QED BY <1>5, <1>6, <2>1, <2>2 DEF Hidden
<1>12. Failures(k, g2)
  <2>1. ASSUME NEW r \in g2.killed PROVE k.status[r] = "failed"
    BY <1>1, <1>2, <1>4, <1>5, Sets DEF Failures, Histories
  <2>2. \A S : Contradict(g2, S) <=> Contradict(g, S)
    BY <1>4 DEF Contradict
  <2>3. ASSUME NEW r \in SubSpaces, k.status[r] = "failed"
        PROVE  Path(k, r) \cap g2.killed # {} \/ Contradict(g2, Path(k, r))
    <3>1. CASE r = s
      <4>1. s \in Path(m, s)
        <5>1. PICK rank : Ranked(m, rank)
          BY DEF WellRun, Tree
        <5> QED BY <5>1, PathFacts DEF Below
      <4>2. Path(k, s) = Path(m, s)
        BY <1>6 DEF Below
      <4> QED BY <1>4, <3>1, <4>1, <4>2
    <3>2. CASE r # s
      <4>1. m.status[r] = "failed" /\ r \in Spaces
        BY <1>2, <2>3, <3>2, Sets
      <4>2. r \in Standing(m)
        BY <4>1 DEF Standing, Created
      <4>3. Path(k, r) = Path(m, r)
        BY <1>6, <4>2
      <4> QED BY <1>4, <1>5, <2>2, <4>1, <4>3 DEF Failures
    <3> QED BY <3>1, <3>2
  <2> QED BY <2>1, <2>3 DEF Failures
<1>13. Unborn(k, g2)
  <2> SUFFICES ASSUME NEW r \in SubSpaces, k.status[r] = "none"
               PROVE  m.trail[r] = << >> /\ m.script[r] = << >> /\ g.told[r] = {}
    BY <1>3, <1>4 DEF Unborn
  <2>1. m.status[r] = "none"
    BY <1>2, Sets
  <2> QED BY <1>5, <2>1 DEF Unborn
<1> QED BY <1>4, <1>8, <1>9, <1>10, <1>11, <1>12, <1>13 DEF Core

\* A space is killed, before and after those who asked are told.
Condemned(m, s) == [m EXCEPT !.status[s] = "failed", !.answer[s] = "unbound"]
TellFailed(m, s) == [m EXCEPT !.answer[s] = "failed"]

\* Space.kill keeps the invariant, and is remembered as a reason.
LEMMA KillHolds ==
    ASSUME NEW m, NEW tl, NEW kl, Holds(m, tl, kl), NEW s \in SubSpaces,
           m.status[s] = "normal", m.space = Top,
           NEW x, x = Dec(Condemned(m, s), m.space),
           NEW y, y \in {x, WakeUpPendings(x, StatusVar(s))},
           NEW k, k = TellFailed(y, s)
    PROVE  Holds(k, tl, kl \cup {s})
<1>1. /\ m \in Machine /\ WellRun(m) /\ s \in Below(m) /\ s # Top /\ s \in Spaces
      /\ StatusVar(s) \in Waitees
  BY Sets, SpacesAssumption DEF Holds, WellRun, Below, Standing, Created
<1>2. PICK st, an : st = [m.status EXCEPT ![s] = "failed"] /\ an = [m.answer EXCEPT ![s] = "unbound"]
  OBVIOUS
<1>3. /\ st \in [Spaces -> {"none", "normal", "failed", "merged"}] /\ an \in [SubSpaces -> Answers]
  BY <1>1, <1>2 DEF Machine, Answers
<1>4. PICK m1 : m1 = [m EXCEPT !.status = st, !.answer = an]
  OBVIOUS
<1>5. m1 \in Machine /\ Agree(m, m1, {"status", "answer"}) /\ m1.status = st
  BY <1>1, <1>3, <1>4 DEF Machine, Agree, Fields
<1>6. Agree(m, m1, Silent \cup {"status"}) /\ m1.status = [m.status EXCEPT ![s] = "failed"]
  BY <1>2, <1>5 DEF Agree, Silent
<1>7. WellRun(m1) /\ Steady(m, m1)
  BY <1>1, <1>5, <1>6, CondemnSteady
<1>8. s \notin Current(m)
  <2>1. PICK rank : Ranked(m, rank)
    BY <1>1 DEF WellRun, Tree
  <2>2. Path(m, Top) = {Top}
    BY <1>1, <2>1, PathFacts, TopIsReal
  <2> QED BY <1>1, <2>2 DEF Current
<1>9. PICK g : g = Past(tl, kl, m)
  OBVIOUS
<1>10. PICK g2 : g2 = [g EXCEPT !.killed = @ \cup {s}]
  OBVIOUS
<1>11. g2 \in Histories /\ Core(m1, g2, None)
  <2>1. g \in Histories /\ Core(m, g, None)
    BY <1>9 DEF Holds
  <2> QED BY <1>1, <1>6, <1>7, <1>8, <1>10, <2>1, KilledKeeps
<1>12. Past(tl, kl \cup {s}, m1) = g2
  <2>1. Past(tl, kl, m1) = Past(tl, kl, m)
    BY <1>7, SamePast DEF Steady
  <2>2. m1.terminated \cap OzThreads = m.terminated \cap OzThreads
    BY <1>7 DEF Steady
  <2> QED BY <1>9, <1>10, <2>2 DEF Past
<1>13. m1.space = m.space
  BY <1>5 DEF Agree, Fields
<1>14. RunsHere(m1)
  BY <1>1, <1>7, <1>13, StillHere DEF Holds
<1>15. Holds(m1, tl, kl \cup {s})
  BY <1>7, <1>11, <1>12, <1>14 DEF Holds
<1>16. m.space \in Standing(m1)
  BY <1>7, <1>13, TopIsReal
<1>17. x = Dec(m1, m.space)
  BY <1>2, <1>4 DEF Condemned
<1>18. Murmur(m1, x)
  BY <1>7, <1>16, <1>17, DecMurmurs
<1>19. Murmur(x, y)
  <2>1. WellRun(x)
    BY <1>18 DEF Murmur
  <2> QED BY <1>1, <2>1, MurmurSelf, WakeUpPendingsMurmurs
<1>20. Holds(y, tl, kl \cup {s})
  BY <1>15, <1>18, <1>19, MurmurOn, MurmurHolds
<1>21. y \in Machine
  BY <1>20 DEF Holds, WellRun
<1>22. PICK a : a = [y.answer EXCEPT ![s] = "failed"]
  OBVIOUS
<1>23. a \in [SubSpaces -> Answers] /\ k = [y EXCEPT !.answer = a]
  BY <1>21, <1>22 DEF Machine, Answers, TellFailed
<1>24. PICK z : z = [y EXCEPT !.answer = a]
  OBVIOUS
<1>25. z \in Machine /\ Agree(y, z, Silent)
  BY <1>21, <1>23, <1>24 DEF Machine, Agree, Fields, Silent
<1>26. Holds(z, tl, kl \cup {s})
  BY <1>20, <1>25, SilentHolds
<1> QED BY <1>23, <1>24, <1>26

-----------------------------------------------------------------------------
(* Constraints that are told *)

\* In g2 more is told in s, where it was g.
TellsMore(g, g2, s, C) ==
    C \subseteq Vars \X Values /\ g2 = [g EXCEPT !.told[s] = @ \cup C]

\* The same, space by space
GrowsBy(g, g2, s, C) ==
    \A r \in Spaces : g2.told[r] = IF r = s THEN g.told[s] \cup C ELSE g.told[r]

\* More is told in the current space, which is then not up to date.
LEMMA ToldCore ==
    ASSUME NEW m, WellRun(m), NEW g \in Histories, Core(m, g, None),
           NEW s, s = m.space, NEW C,
           NEW g2, TellsMore(g, g2, s, C)
    PROVE  /\ g2 \in Histories /\ Core(m, g2, s)
           /\ GrowsBy(g, g2, s, C)
<1>1. /\ Homes(m) /\ Installed(m, None) /\ Trails(m, g) /\ Bindings(m, g) /\ Visible(m, g, None)
      /\ Scripts(m, g) /\ Hidden(m, g) /\ Failures(m, g) /\ Unborn(m, g)
  BY DEF Core
<1>2. /\ s \in Spaces /\ s \in Standing(m) /\ s \in Current(m) /\ m.status[s] = "normal"
      /\ Current(m) \subseteq Spaces
  BY <1>1, Here DEF Installed
<1>3. PICK T : T = [g.told EXCEPT ![s] = @ \cup C]
  OBVIOUS
<1>4. /\ T \in [Spaces -> SUBSET (Vars \X Values)]
      /\ \A r \in Spaces : T[r] = IF r = s THEN g.told[s] \cup C ELSE g.told[r]
  BY <1>2, <1>3 DEF Histories, TellsMore
<1>5. g2 \in Histories /\ g2.told = T /\ g2.ended = g.ended /\ g2.killed = g.killed
  <2>1. g2 = [g EXCEPT !.told = T]
    BY <1>3 DEF TellsMore
  <2> QED BY <1>4, <2>1 DEF Histories
<1>6. \A r \in Spaces : g.told[r] \subseteq T[r] /\ (r # s => T[r] = g.told[r])
  BY <1>4
<1>7. Installed(m, s)
  BY <1>1, SpacesAssumption DEF Installed
<1>8. Trails(m, g2)
  <2> SUFFICES ASSUME NEW r \in SubSpaces, NEW v \in ToSet(m.trail[r])
               PROVE  /\ m.bound[v] # None
                      /\ \A q \in SubSpaces : v \in ToSet(m.trail[q]) => q = r
                      /\ v \in Vars => /\ <<v, m.bound[v]>> \in T[r]
                                       /\ \A a \in Over(m, r) : \A c \in T[a] : c[1] # v
    BY <1>5 DEF Trails
  <2>1. m.trail[r] # << >>
    BY ToSetFacts
  <2>2. r \in Current(m) /\ r \in Spaces
    BY <1>1, <1>2, <2>1 DEF Installed
  <2>3. PICK rank : Ranked(m, rank)
    BY DEF WellRun, Tree
  <2>4. r \in Standing(m) /\ r \in Path(m, s)
    BY <1>1, <2>2, Here DEF Current
  <2>5. s \notin Over(m, r) /\ Over(m, r) \subseteq Spaces
    <3>1. Path(m, r) \subseteq Standing(m)
      BY <2>3, <2>4, PathFacts
    <3>2. Over(m, r) \subseteq Spaces
      BY <3>1 DEF Over, Standing, Created
    <3>3. ASSUME s \in Over(m, r) PROVE FALSE
      <4>1. s \in Path(m, r) /\ s # r
        BY <3>3 DEF Over
      <4>2. rank[s] < rank[r]
        BY <2>3, <2>4, <4>1, PathRanks
      <4>3. rank[r] < rank[s]
        BY <1>2, <2>3, <2>4, <4>1, PathRanks
      <4>4. rank[r] \in Nat /\ rank[s] \in Nat
        BY <1>2, <2>2, <2>3 DEF Ranked
      <4> QED BY <4>2, <4>3, <4>4
    <3> QED BY <3>2, <3>3
  <2>6. \A a \in Over(m, r) : T[a] = g.told[a]
    BY <1>6, <2>5
  <2> QED BY <1>1, <1>6, <2>2, <2>6 DEF Trails
<1>9. Bindings(m, g2)
  <2>1. \A c \in g.told[Top] : c \in T[Top]
    BY <1>6, Sets
  <2> QED BY <1>1, <1>5, <2>1 DEF Bindings
<1>10. Visible(m, g2, s)
  BY <1>1, <1>2, <1>5, <1>6, Sets DEF Visible
<1>11. Scripts(m, g2)
  <2>1. \A r \in SubSpaces : \A c \in g.told[r] : c \in T[r]
    BY <1>6, Sets
  <2> QED BY <1>1, <1>5, <2>1 DEF Scripts
<1>12. Hidden(m, g2)
  <2> SUFFICES ASSUME NEW r \in SubSpaces \ Current(m), m.status[r] = "normal", NEW c \in T[r]
               PROVE  c \in ToSet(m.script[r]) \/ \E a \in Over(m, r) : c \in T[a]
    BY <1>5 DEF Hidden
  <2>1. r # s /\ r \in Spaces
    BY <1>2, Sets
  <2>2. c \in g.told[r]
    BY <1>6, <2>1
  <2>3. r \in Standing(m) /\ r \in Below(m)
    BY <2>1, Sets, SpacesAssumption DEF Standing, Created, Below
  <2>4. Over(m, r) \subseteq Spaces
    BY <2>3, OverParent DEF Over, Standing, Created
  <2> QED BY <1>1, <1>6, <2>2, <2>4 DEF Hidden
<1>13. Failures(m, g2)
  <2>1. ASSUME NEW r \in SubSpaces, m.status[r] = "failed", Contradict(g, Path(m, r))
        PROVE  Contradict(g2, Path(m, r))
    <3>1. r \in Below(m)
      BY <2>1, Sets, SpacesAssumption DEF Standing, Created, Below
    <3>2. Path(m, r) \subseteq Spaces
      BY <3>1, OverParent DEF Standing, Created
    <3>3. \A a \in Path(m, r) : \A c \in g.told[a] : c \in T[a]
      BY <1>6, <3>2
    <3> QED BY <1>5, <2>1, <3>3 DEF Contradict
  <2> QED BY <1>1, <1>5, <2>1 DEF Failures
<1>14. Unborn(m, g2)
  <2> SUFFICES ASSUME NEW r \in SubSpaces, m.status[r] = "none"
               PROVE  m.trail[r] = << >> /\ m.script[r] = << >> /\ T[r] = {}
    BY <1>5 DEF Unborn
  <2>1. r # s /\ r \in Spaces
    BY <1>2, Sets
  <2> QED BY <1>1, <1>6, <2>1 DEF Unborn
<1>15. GrowsBy(g, g2, s, C)
  BY <1>4, <1>5 DEF GrowsBy
<1> QED BY <1>1, <1>5, <1>7, <1>8, <1>9, <1>10, <1>11, <1>12, <1>13, <1>14, <1>15 DEF Core

\* The machine when no thread runs
LEMMA RestHolds ==
    ASSUME NEW x, WellRun(x), NEW g \in Histories, Core(x, g, None),
           NEW k, k = [x EXCEPT !.running = None]
    PROVE  /\ WellRun(k) /\ Core(k, g, None) /\ RunsHere(k)
           /\ k.terminated = x.terminated /\ k.space = x.space
<1>1. x \in Machine
  BY DEF WellRun
<1>2. k \in Machine /\ Agree(x, k, {"running"}) /\ k.running = None
  BY <1>1 DEF Machine, Agree, Fields
<1>3. /\ k.parent = x.parent /\ k.status = x.status /\ k.space = x.space
      /\ k.at = x.at /\ k.kind = x.kind /\ k.terminated = x.terminated
      /\ k.pendings = x.pendings /\ k.runnable = x.runnable
  BY <1>2 DEF Agree, Fields
<1>4. Created(k) = Created(x) /\ (Tree(k) <=> Tree(x))
  BY <1>3, SameSpaces
<1>5. Placed(k) /\ Lively(k)
  BY <1>2, <1>3, <1>4 DEF WellRun, Placed, Lively
<1>6. Core(k, g, None)
  <2>1. Later(g, g) /\ Agree(x, k, Unseen)
    BY <1>2 DEF Later, Agree, Unseen
  <2> QED BY <2>1, CoreSame
<1> QED BY <1>2, <1>3, <1>4, <1>5, <1>6 DEF WellRun, RunsHere

\* A constraint that is told can be seen, or is contradictory: the space fails.
LEMMA TellHolds ==
    ASSUME NEW m, NEW tl, NEW kl, Holds(m, tl, kl), NEW v \in Vars, NEW x \in Values,
           NEW s, s = m.space, s = Top => ~Conflicts(m, <<v, x>>),
           NEW k, k = IF Conflicts(m, <<v, x>>) THEN [Fail(m, s) EXCEPT !.running = None]
                      ELSE IF m.bound[v] = x THEN m
                      ELSE Bind(m, v, x),
           NEW tl2, tl2 = [tl EXCEPT ![s] = @ \cup {<<v, x>>}]
    PROVE  Holds(k, tl2, kl)
<1>1. WellRun(m) /\ RunsHere(m)
  BY DEF Holds
<1>2. PICK g : g = Past(tl, kl, m)
  OBVIOUS
<1>3. g \in Histories /\ Core(m, g, None)
  BY <1>2 DEF Holds
<1>4. PICK c \in Vars \X Values : c = <<v, x>> /\ c[1] = v /\ c[2] = x
  OBVIOUS
<1>5. PICK g2 : g2 = [g EXCEPT !.told[s] = @ \cup {c}]
  OBVIOUS
<1>6. PICK C \in SUBSET (Vars \X Values) : C = {c}
  BY <1>4
<1>7. /\ g2 \in Histories /\ Core(m, g2, s)
      /\ \A r \in Spaces : g2.told[r] = IF r = s THEN g.told[s] \cup {c} ELSE g.told[r]
  <2>1. TellsMore(g, g2, s, C)
    BY <1>5, <1>6 DEF TellsMore
  <2>2. g2 \in Histories /\ Core(m, g2, s) /\ GrowsBy(g, g2, s, C)
    BY <1>1, <1>3, <2>1, ToldCore
  <2> QED BY <1>6, <2>2 DEF GrowsBy
<1>8. Past(tl2, kl, m) = g2
  BY <1>2, <1>4, <1>5 DEF Past
<1>9. /\ s \in Spaces /\ s \in Current(m) /\ Installed(m, None) /\ Bindings(m, g)
      /\ Visible(m, g, None) /\ None \notin Current(m)
  <2>1. Installed(m, None) /\ Bindings(m, g) /\ Visible(m, g, None)
    BY <1>3 DEF Core
  <2> QED BY <1>1, <2>1, Here
<1>10. c \in g2.told[s] /\ g.told[s] \subseteq Vars \X Values
  BY <1>3, <1>7, <1>9 DEF Histories
<1>11. \A d \in g.told[s] : m.bound[d[1]] = d[2]
  BY <1>9 DEF Visible
<1>12. s = Top \/ m.script[s] = << >>
  BY <1>9, SpacesAssumption DEF Installed, Spaces
<1>13. CASE Conflicts(m, c)
  <2>1. s # Top
    BY <1>4, <1>13
  <2>2. Contradict(g2, Current(m))
    BY <1>1, <1>7, <1>9, <1>10, <1>13, ConflictContradicts
  <2>3. PICK f : f = Fail(m, s)
    OBVIOUS
  <2>4. WellRun(f) /\ Steady(m, f) /\ Core(f, g2, None)
    BY <1>1, <1>7, <2>1, <2>2, <2>3, FailKeeps
  <2>5. k = [f EXCEPT !.running = None]
    BY <1>4, <1>13, <2>3
  <2>6. /\ WellRun(k) /\ Core(k, g2, None) /\ RunsHere(k) /\ k.terminated = f.terminated
    BY <1>7, <2>4, <2>5, RestHolds
  <2>7. Past(tl2, kl, k) = g2
    <3>1. \A u \in OzThreads : u \in k.terminated <=> u \in m.terminated
      BY <2>4, <2>6 DEF Steady
    <3>2. k.terminated \cap OzThreads = m.terminated \cap OzThreads
      BY <3>1
    <3> QED BY <1>8, <3>2 DEF Past
  <2> QED BY <1>7, <2>6, <2>7 DEF Holds
<1>14. CASE ~Conflicts(m, c) /\ m.bound[v] = x
  <2>1. k = m
    BY <1>4, <1>14
  <2>2. Pending(m, g2, {}, s)
    BY <1>4, <1>7, <1>9, <1>11, <1>14 DEF Pending
  <2>3. Core(m, g2, None)
    BY <1>1, <1>7, <1>12, <2>2, InstalledNow
  <2> QED BY <1>1, <1>7, <1>8, <2>1, <2>3 DEF Holds
<1>15. CASE ~Conflicts(m, c) /\ m.bound[v] # x
  <2>1. m.bound[v] = None
    BY <1>4, <1>15 DEF Conflicts
  <2>2. Tellable(m, g2, s, v, x)
    BY <1>4, <1>10, <2>1 DEF Tellable
  <2>3. PICK y : y = Bind(m, v, x)
    OBVIOUS
  <2>4. v \in Store
    BY Sets
  <2>5. /\ WellRun(y) /\ Steady(m, y) /\ Core(y, g2, s) /\ Aside(m, y)
        /\ y.bound = [m.bound EXCEPT ![v] = x]
    BY <1>1, <1>7, <2>2, <2>3, <2>4, BindKeeps
  <2>6. \A u \in Store : y.bound[u] = IF u = v THEN x ELSE m.bound[u]
    BY <1>1, <2>4, <2>5 DEF WellRun, Machine
  <2>7. Pending(y, g2, {}, s)
    <3> SUFFICES ASSUME NEW d \in g2.told[s] PROVE y.bound[d[1]] = d[2]
      BY DEF Pending
    <3>1. CASE d = c
      BY <1>4, <2>4, <2>6, <3>1
    <3>2. CASE d # c
      <4>1. d \in g.told[s] /\ d \in Vars \X Values
        BY <1>7, <1>9, <1>10, <3>2
      <4>2. m.bound[d[1]] = d[2] /\ d[1] \in Store /\ d[2] # None
        BY <1>11, <4>1, Sets, Reserved
      <4>3. d[1] # v
        BY <2>1, <4>2
      <4> QED BY <2>6, <4>2, <4>3
    <3> QED BY <3>1, <3>2
  <2>8. y.space = s /\ y.script = m.script
    BY <2>5 DEF Aside
  <2>9. Core(y, g2, None)
    BY <1>7, <1>12, <2>5, <2>7, <2>8, InstalledNow
  <2>10. RunsHere(y)
    BY <1>1, <2>5, <2>8, StillHere
  <2>11. Past(tl2, kl, y) = g2
    BY <1>8, <2>5, SamePast DEF Steady
  <2>12. Holds(y, tl2, kl)
    BY <1>7, <2>5, <2>9, <2>10, <2>11 DEF Holds
  <2>13. k = y
    BY <1>4, <1>15, <2>3
  <2> QED BY <2>12, <2>13
<1> QED BY <1>13, <1>14, <1>15

-----------------------------------------------------------------------------
(* Spaces that are merged *)

\* In n the space s of m is merged in the current one, which has been told as much.
MergesHere(m, n, g, s, d) ==
    /\ s \in Below(m) /\ m.status[s] = "normal" /\ Parent(m, s) = d /\ m.space = d
    /\ g.told[s] \subseteq g.told[d]
    /\ n \in Machine /\ Agree(m, n, Silent \cup {"status"})
    /\ n.status = [m.status EXCEPT ![s] = "merged"]

\* Merging a space moves threads and the spaces below it up, and no constraint that the
\* current space does not have.
LEMMA MergedKeeps ==
    ASSUME NEW m, WellRun(m), RunsHere(m), NEW g \in Histories, NEW d, Core(m, g, d),
           NEW s, NEW n, MergesHere(m, n, g, s, d)
    PROVE  WellRun(n) /\ RunsHere(n) /\ Core(n, g, d)
<1>1. /\ s \in Below(m) /\ m.status[s] = "normal" /\ Parent(m, s) = d /\ m.space = d
      /\ g.told[s] \subseteq g.told[d] /\ n \in Machine
      /\ n.status = [m.status EXCEPT ![s] = "merged"]
  BY DEF MergesHere
<1>2. /\ n.space = m.space /\ n.trail = m.trail /\ n.script = m.script /\ n.bound = m.bound
      /\ n.home = m.home /\ n.optimized = m.optimized /\ n.parent = m.parent
      /\ n.at = m.at /\ n.kind = m.kind /\ n.runnable = m.runnable
      /\ n.terminated = m.terminated /\ n.pendings = m.pendings /\ n.running = m.running
  BY DEF MergesHere, Agree, Fields, Silent
<1>3. /\ s \in Spaces /\ s \in SubSpaces /\ s \in Created(m) /\ s \in Standing(m)
      /\ m.status \in [Spaces -> {"none", "normal", "failed", "merged"}]
  BY <1>1 DEF Below, Standing, Created, Spaces, WellRun, Machine
<1>4. \A r \in Spaces : n.status[r] = IF r = s THEN "merged" ELSE m.status[r]
  BY <1>1, <1>3
<1>5. PICK rank : Ranked(m, rank)
  BY DEF WellRun, Tree
<1>6. Merges(m, n, s)
  BY <1>1, <1>2 DEF Merges
<1>7. /\ Ranked(n, rank) /\ Created(n) = Created(m) /\ Standing(n) = Standing(m) \ {s}
      /\ d \in Standing(n)
      /\ \A x \in Created(m) : Real(n, x) = IF Real(m, x) = s THEN d ELSE Real(m, x)
  BY <1>1, <1>3, <1>5, <1>6, MergedReal
<1>8. \A x \in Standing(n) : Path(n, x) = Path(m, x) \ {s}
  BY <1>3, <1>5, <1>6, MergedPath
<1>9. /\ s \notin Current(m) /\ Over(m, s) = Current(m)
  BY <1>1, OverParent DEF Current
<1>10. Current(n) = Current(m)
  <2>1. Path(n, d) = Path(m, d) \ {s}
    BY <1>7, <1>8
  <2> QED BY <1>1, <1>2, <1>9, <2>1 DEF Current
<1>11. \A x \in Standing(n) : Over(n, x) = Over(m, x) \ {s}
  BY <1>8 DEF Over
<1>12. WellRun(n)
  <2>1. Placed(n)
    BY <1>2, <1>7 DEF WellRun, Placed
  <2>2. \A r \in SubSpaces : n.status[r] = "none" => m.status[r] = "none"
    BY <1>4, Sets
  <2>3. Lively(n)
    BY <1>2, <2>2 DEF WellRun, Lively
  <2> QED BY <1>1, <1>7, <2>1, <2>3 DEF WellRun, Tree
<1>13. RunsHere(n)
  <2> SUFFICES ASSUME n.running # None PROVE SpaceOf(n, n.running) = n.space
    BY DEF RunsHere
  <2>1. m.at[m.running] \in Created(m)
    BY <1>2, RunningFacts
  <2>2. Real(m, m.at[m.running]) = d
    BY <1>1, <1>2 DEF RunsHere, SpaceOf
  <2>3. d # s
    BY <1>7
  <2> QED BY <1>1, <1>2, <1>7, <2>1, <2>2, <2>3 DEF SpaceOf
<1>14. /\ Homes(m) /\ Installed(m, d) /\ Trails(m, g) /\ Bindings(m, g) /\ Visible(m, g, d)
       /\ Scripts(m, g) /\ Hidden(m, g) /\ Failures(m, g) /\ Unborn(m, g)
  BY DEF Core
<1>15. /\ Current(m) \subseteq Standing(m) /\ Current(m) \subseteq Spaces
       /\ m.space \in Current(m) /\ m.space \in Spaces
  BY <1>14, Here
<1>16. Homes(n) /\ Bindings(n, g) /\ Visible(n, g, d) /\ Scripts(n, g)
  BY <1>2, <1>10, <1>14 DEF Homes, Bindings, Visible, Scripts
<1>17. Installed(n, d)
  <2>1. \A a \in Current(m) : n.status[a] = "normal"
    BY <1>4, <1>9, <1>14, <1>15 DEF Installed
  <2> QED BY <1>2, <1>10, <1>14, <1>15, <2>1 DEF Installed
<1>18. Trails(n, g)
  <2>1. \A r \in SubSpaces : \A v \in ToSet(m.trail[r]) : Over(n, r) \subseteq Over(m, r)
    <3> SUFFICES ASSUME NEW r \in SubSpaces, NEW v \in ToSet(m.trail[r])
                 PROVE  Over(n, r) \subseteq Over(m, r)
      OBVIOUS
    <3>1. m.trail[r] # << >>
      BY ToSetFacts
    <3>2. r \in Standing(n)
      BY <1>7, <1>9, <1>14, <1>15, <3>1 DEF Installed
    <3> QED BY <1>11, <3>2
  <2> QED BY <1>2, <1>14, <2>1 DEF Trails
<1>19. ASSUME NEW r \in Standing(m), s \in Path(m, r), r # s, r \notin Current(m)
       PROVE  d \in Path(n, r) /\ d \in Over(n, r)
  <2>1. Path(m, s) \subseteq Path(m, r)
    BY <1>5, <1>19, PathRanks
  <2>2. Path(m, s) = {s} \cup Path(m, d) /\ d \in Path(m, d)
    BY <1>1, <1>15, OverParent DEF Current
  <2>3. d # s /\ d # r
    BY <1>1, <1>7, <1>15, <1>19
  <2>4. r \in Standing(n)
    BY <1>7, <1>19
  <2> QED BY <1>8, <1>11, <2>1, <2>2, <2>3, <2>4 DEF Over
<1>20. Hidden(n, g)
  <2> SUFFICES ASSUME NEW r \in SubSpaces \ Current(m), n.status[r] = "normal", NEW c \in g.told[r],
                      c \notin ToSet(m.script[r])
               PROVE  \E a \in Over(n, r) : c \in g.told[a]
    BY <1>2, <1>10 DEF Hidden
  <2>1. r # s /\ m.status[r] = "normal" /\ r \in Spaces
    BY <1>4, Sets
  <2>2. r \in Standing(m) /\ r \in Standing(n)
    BY <1>7, <2>1 DEF Standing, Created
  <2>3. PICK a \in Over(m, r) : c \in g.told[a]
    BY <1>14, <2>1 DEF Hidden
  <2>4. CASE a # s
    BY <1>11, <2>2, <2>3, <2>4
  <2>5. CASE a = s
    BY <1>1, <1>19, <2>1, <2>2, <2>3, <2>5 DEF Over
  <2> QED BY <2>4, <2>5
<1>21. Failures(n, g)
  <2>1. ASSUME NEW r \in g.killed PROVE n.status[r] = "failed" /\ r # s
    BY <1>1, <1>4, <1>14, Sets DEF Failures, Histories
  <2>2. ASSUME NEW r \in SubSpaces, n.status[r] = "failed"
        PROVE  Path(n, r) \cap g.killed # {} \/ Contradict(g, Path(n, r))
    <3>1. r # s /\ m.status[r] = "failed" /\ r \in Spaces
      BY <1>4, <2>2, Sets
    <3>2. r \in Standing(m) /\ r \in Standing(n) /\ r \notin Current(m)
      BY <1>7, <1>14, <3>1 DEF Standing, Created, Installed
    <3>3. Path(n, r) = Path(m, r) \ {s}
      BY <1>8, <3>2
    <3>4. CASE Path(m, r) \cap g.killed # {}
      BY <2>1, <3>3, <3>4
    <3>5. CASE Contradict(g, Path(m, r))
      <4>1. \A a \in Path(m, r) : \E b \in Path(n, r) : g.told[a] \subseteq g.told[b]
        <5> SUFFICES ASSUME NEW a \in Path(m, r)
                     PROVE  \E b \in Path(n, r) : g.told[a] \subseteq g.told[b]
          OBVIOUS
        <5>1. CASE a # s
          BY <3>3, <5>1
        <5>2. CASE a = s
          BY <1>1, <1>19, <3>1, <3>2, <5>2
        <5> QED BY <5>1, <5>2
      <4>2. PICK a \in Path(m, r), b \in Path(m, r) :
               \E c \in g.told[a] : \E e \in g.told[b] : c[1] = e[1] /\ c[2] # e[2]
        BY <3>5 DEF Contradict
      <4>3. PICK c \in g.told[a] : \E e \in g.told[b] : c[1] = e[1] /\ c[2] # e[2]
        BY <4>2
      <4>4. PICK e \in g.told[b] : c[1] = e[1] /\ c[2] # e[2]
        BY <4>3
      <4>5. PICK a2 \in Path(n, r) : g.told[a] \subseteq g.told[a2]
        BY <4>1
      <4>6. PICK b2 \in Path(n, r) : g.told[b] \subseteq g.told[b2]
        BY <4>1
      <4> QED BY <4>5, <4>6, <4>4 DEF Contradict
    <3> QED BY <1>14, <3>1, <3>4, <3>5 DEF Failures
  <2> QED BY <2>1, <2>2 DEF Failures
<1>22. Unborn(n, g)
  <2>1. \A r \in SubSpaces : n.status[r] = "none" => m.status[r] = "none"
    BY <1>4, Sets
  <2> QED BY <1>2, <1>14, <2>1 DEF Unborn
<1> QED BY <1>12, <1>13, <1>16, <1>17, <1>18, <1>20, <1>21, <1>22 DEF Core

\* The space d counts what s counted, and no longer s.
Adopts(m, n, s, d) ==
    /\ n.runnable = m.runnable /\ n.running = m.running /\ n.at = m.at /\ n.kind = m.kind
    /\ n.pendings = m.pendings /\ n.parent = m.parent
    /\ n.status = [m.status EXCEPT ![s] = "merged"]
    /\ \A x \in SubSpaces : n.count[x] = IF x = d /\ m.count[s] > 0
                                         THEN m.count[d] + m.count[s] - 1 ELSE m.count[x]

\* The fields that change when a space is merged.
LEMMA MergeCountsFacts ==
    ASSUME NEW m \in Machine, NEW s \in SubSpaces, NEW d \in Spaces,
           NEW n, n = MergeCounts(m, s, d)
    PROVE  /\ n \in Machine /\ Agree(m, n, Silent \cup {"status"})
           /\ n.status = [m.status EXCEPT ![s] = "merged"]
           /\ Adopts(m, n, s, d)
<1>1. PICK st, pe : st = [m.status EXCEPT ![s] = "merged"] /\ pe = [m.peopled EXCEPT ![d] = @ \/ m.peopled[s]]
  OBVIOUS
<1>2. s \in Spaces
  BY Sets
<1>3. st \in [Spaces -> {"none", "normal", "failed", "merged"}]
  BY <1>1, <1>2 DEF Machine
<1>4. pe \in [Spaces -> BOOLEAN]
  BY <1>1, <1>2 DEF Machine
<1>5. PICK m1 : m1 = [m EXCEPT !.status = st, !.peopled = pe]
  OBVIOUS
<1>6. /\ m1 \in Machine /\ Agree(m, m1, {"status", "peopled"}) /\ m1.status = st
  BY <1>3, <1>4, <1>5 DEF Machine, Agree, Fields
<1>9. m1.count = m.count
  BY <1>6 DEF Agree, Fields
<1>7. CASE ~(d # Top /\ m.count[s] > 0)
  <2>1. n = m1
    BY <1>1, <1>5, <1>7 DEF MergeCounts
  <2>2. Agree(m, m1, Silent \cup {"status"})
    BY <1>6 DEF Agree, Silent
  <2>3. \A x \in SubSpaces : x # d \/ ~(m.count[s] > 0)
    BY <1>7, SpacesAssumption
  <2> QED BY <1>1, <1>6, <1>9, <2>1, <2>2, <2>3 DEF Adopts, Agree, Fields
<1>8. CASE d # Top /\ m.count[s] > 0
  <2>1. d \in SubSpaces
    BY <1>8 DEF Spaces
  <2>3. PICK c : c = [m1.count EXCEPT ![d] = @ + m.count[s] - 1]
    OBVIOUS
  <2>4. /\ c \in [SubSpaces -> Int]
        /\ \A x \in SubSpaces : c[x] = IF x = d THEN m.count[d] + m.count[s] - 1 ELSE m.count[x]
    <3>1. PICK i \in Int : i = m1.count[d] + m.count[s] - 1
      BY <1>9, <2>1 DEF Machine
    <3>2. c = [m1.count EXCEPT ![d] = i]
      BY <2>3, <3>1
    <3> QED BY <1>6, <1>9, <2>1, <3>1, <3>2 DEF Machine
  <2>5. PICK m2 : m2 = [m1 EXCEPT !.count = c]
    OBVIOUS
  <2>6. m2 \in Machine /\ Agree(m1, m2, {"count"}) /\ m2.count = c
    BY <1>6, <2>4, <2>5 DEF Machine, Agree, Fields
  <2>7. m2.status = m1.status
    BY <2>6 DEF Agree, Fields
  <2>8. Agree(m, m2, {"status", "peopled", "count"})
    BY <1>6, <2>6 DEF Agree
  <2>9. Agree(m, m2, Silent \cup {"status"})
    BY <2>8 DEF Agree, Silent
  <2>10. n = m2
    BY <1>1, <1>5, <1>8, <2>3, <2>5 DEF MergeCounts
  <2>11. Adopts(m, m2, s, d)
    BY <1>1, <1>6, <1>8, <2>4, <2>6, <2>7, <2>8 DEF Adopts, Agree, Fields
  <2> QED BY <1>1, <1>6, <2>6, <2>7, <2>9, <2>10, <2>11
<1> QED BY <1>7, <1>8

\* The invariant goes on, and the counters stay right.
HoldsOn(m, k, tl, kl) == Holds(k, tl, kl) /\ (Sound(m, Top) => Sound(k, Top))

\* Merging a space keeps the counters right.
LEMMA MergedBooks ==
    ASSUME NEW m, WellRun(m), Books(m, Top), NEW s \in Live(m), NEW d, d = Parent(m, s),
           d \in Live(m) \cup {Top}, NEW n, Adopts(m, n, s, d)
    PROVE  Books(n, Top)
<1>1. /\ m \in Machine /\ s \in SubSpaces /\ s \in Spaces /\ s # Top /\ m.status[s] = "normal"
      /\ s \in Created(m) /\ s \in Below(m) /\ s \in Standing(m)
  BY Sets, SpacesAssumption DEF WellRun, Live, Created, Below, Standing
<1>2. /\ n.runnable = m.runnable /\ n.running = m.running /\ n.at = m.at /\ n.kind = m.kind
      /\ n.pendings = m.pendings /\ n.parent = m.parent
      /\ \A x \in SubSpaces : n.count[x] = IF x = d /\ m.count[s] > 0
                                           THEN m.count[d] + m.count[s] - 1 ELSE m.count[x]
      /\ n.status = [m.status EXCEPT ![s] = "merged"]
  BY DEF Adopts
<1>3. \A x \in Spaces : n.status[x] = IF x = s THEN "merged" ELSE m.status[x]
  BY <1>1, <1>2 DEF Machine
<1>4. PICK rank : Ranked(m, rank)
  BY DEF WellRun, Tree
<1>5. Merges(m, n, s) /\ m.status \in [Spaces -> {"none", "normal", "failed", "merged"}]
  BY <1>1, <1>2 DEF Merges, Machine
<1>6. /\ Ranked(n, rank) /\ Created(n) = Created(m) /\ Standing(n) = Standing(m) \ {s}
      /\ d \in Standing(n)
      /\ \A x \in Created(m) : Real(n, x) = IF Real(m, x) = s THEN d ELSE Real(m, x)
  BY <1>4, <1>5, MergedReal
<1>7. \A x \in Standing(n) : Path(n, x) = Path(m, x) \ {s}
  BY <1>4, <1>5, MergedPath
<1>8. Tallied(m, Top) /\ Counters(m) /\ Queued(m) /\ Scheduled(m)
  BY DEF Books
<1>9. \A x \in SubSpaces : m.count[x] \in Int /\ m.count[x] >= 0
  BY <1>1, <1>8 DEF Machine, Counters
<1>10. ASSUME NEW x \in SubSpaces, m.status[x] # "none"
       PROVE  /\ x \in Created(m) /\ m.parent[x] \in Created(m)
              /\ Parent(n, x) = IF Parent(m, x) = s THEN d ELSE Parent(m, x)
  <2>1. x \in Created(m) \ {Top}
    BY <1>10, Sets, SpacesAssumption DEF Created
  <2>2. m.parent[x] \in Created(m)
    BY <1>4, <2>1 DEF Ranked
  <2> QED BY <1>2, <1>6, <2>1, <2>2 DEF Parent
<1>11. d # s /\ d \in Standing(m)
  BY <1>6
\* What s has, d counts.
<1>12. ASSUME NEW r \in Live(m) PROVE m.count[r] = Due(m, r)
  <2>1. r \in SubSpaces /\ r # Top
    BY SpacesAssumption DEF Live
  <2>2. m.count[r] = Due(m, r) + 0
    BY <1>8, <1>12, <2>1 DEF Tallied
  <2> QED BY <1>1, <2>2, DueFinite DEF Due
<1>13. d # Top /\ m.count[s] > 0 => m.count[d] > 0
  <2> SUFFICES ASSUME d # Top, m.count[s] > 0 PROVE m.count[d] > 0
    OBVIOUS
  <2>1. s \in Busy(m, d) /\ d \in Live(m)
    BY <1>1 DEF Busy
  <2>2. IsFiniteSet(Busy(m, d)) /\ Cardinality(Busy(m, d)) \in Nat /\ Cardinality(Ready(m, d)) \in Nat
    BY <1>1, DueFinite
  <2>3. Cardinality(Busy(m, d)) # 0
    BY <2>1, <2>2, FS_EmptySet
  <2> QED BY <1>12, <2>1, <2>2, <2>3 DEF Due
<1>14. \A x \in SubSpaces : n.count[x] \in Int /\ n.count[x] >= 0 /\ (n.count[x] > 0 <=> m.count[x] > 0)
  <2> SUFFICES ASSUME NEW x \in SubSpaces
               PROVE  n.count[x] \in Int /\ n.count[x] >= 0 /\ (n.count[x] > 0 <=> m.count[x] > 0)
    OBVIOUS
  <2>1. n.count[x] = IF x = d /\ m.count[s] > 0 THEN m.count[d] + m.count[s] - 1 ELSE m.count[x]
    BY <1>2
  <2>2. x # Top
    BY SpacesAssumption
  <2> QED BY <1>1, <1>9, <1>13, <2>1, <2>2
<1>15. Counters(n)
  <2> SUFFICES ASSUME NEW x \in SubSpaces
               PROVE  /\ n.count[x] >= 0
                      /\ n.status[x] = "none" => n.count[x] = 0
                      /\ n.status[x] = "failed" => n.count[x] > 0 \/ Parent(n, x) = Top
    BY DEF Counters
  <2>1. /\ m.status[x] = "none" => m.count[x] = 0
        /\ m.status[x] = "failed" => m.count[x] > 0 \/ Parent(m, x) = Top
        /\ n.status[x] = IF x = s THEN "merged" ELSE m.status[x]
    BY <1>3, <1>8, Sets DEF Counters
  <2>2. n.status[x] = "none" => n.count[x] = 0
    BY <1>9, <1>14, <2>1
  <2>3. n.status[x] = "failed" => n.count[x] > 0 \/ Parent(n, x) = Top
    BY <1>1, <1>10, <1>14, <2>1
  <2> QED BY <1>14, <2>2, <2>3
<1>16. Queued(n) /\ Scheduled(n)
  BY <1>2, <1>8 DEF Queued, Scheduled
<1>17. \A r : /\ Busy(n, r) \subseteq SubSpaces /\ Busy(m, r) \subseteq SubSpaces
              /\ Ready(n, r) \subseteq m.runnable /\ Ready(m, r) \subseteq m.runnable
  BY <1>2 DEF Busy, Ready
<1>18. ASSUME NEW t \in m.runnable
       PROVE  SpaceOf(n, t) = IF SpaceOf(m, t) = s THEN d ELSE SpaceOf(m, t)
  <2>1. m.at[t] \in Created(m)
    BY <1>1 DEF WellRun, Machine, Placed
  <2> QED BY <1>2, <1>6, <2>1 DEF SpaceOf
<1>19. ASSUME NEW c \in SubSpaces, NEW r
       PROVE  c \in Busy(n, r) <=> /\ c # s /\ m.status[c] = "normal" /\ m.count[c] > 0
                                   /\ r = IF Parent(m, c) = s THEN d ELSE Parent(m, c)
  <2>1. n.status[c] = IF c = s THEN "merged" ELSE m.status[c]
    BY <1>3, Sets
  <2> QED BY <1>10, <1>14, <2>1 DEF Busy
<1>20. ASSUME NEW r \in Live(n) PROVE n.count[r] = Due(n, r)
  <2>1. r \in SubSpaces /\ r \in Spaces /\ r # Top /\ n.status[r] = "normal"
    BY SpacesAssumption, Sets DEF Live
  <2>2. r # s /\ m.status[r] = "normal" /\ r \in Standing(n)
    BY <1>3, <1>6, <2>1 DEF Standing, Created
  <2>3. r \in Live(m)
    <3>1. Path(m, r) \subseteq Standing(m)
      BY <1>4, <1>6, <2>2, PathFacts
    <3>2. ASSUME NEW a \in Path(m, r) PROVE m.status[a] # "failed"
      <4>1. a \in Spaces
        BY <3>1 DEF Standing, Created
      <4>2. a # s => n.status[a] # "failed"
        BY <1>7, <1>20, <2>2 DEF Live, IsAlive
      <4> QED BY <1>1, <1>3, <4>1, <4>2
    <3> QED BY <2>1, <2>2, <3>2 DEF Live, IsAlive
  <2>4. m.count[r] = Due(m, r) /\ m.count[s] = Due(m, s)
    BY <1>12, <2>3
  <2>5. /\ IsFiniteSet(Busy(m, r)) /\ Cardinality(Busy(m, r)) \in Nat
        /\ IsFiniteSet(Busy(m, s)) /\ Cardinality(Busy(m, s)) \in Nat
        /\ IsFiniteSet(Ready(m, r)) /\ Cardinality(Ready(m, r)) \in Nat
        /\ IsFiniteSet(Ready(m, s)) /\ Cardinality(Ready(m, s)) \in Nat
    BY <1>1, DueFinite
  <2>6. CASE r # d
    <3>1. Ready(n, r) = Ready(m, r)
      BY <1>2, <1>18, <2>2, <2>6 DEF Ready
    <3>2. \A c \in SubSpaces : c \in Busy(m, r) <=> m.status[c] = "normal" /\ Parent(m, c) = r /\ m.count[c] > 0
      BY DEF Busy
    <3>3. \A c \in SubSpaces : c \in Busy(n, r) <=> c \in Busy(m, r)
      BY <1>19, <2>2, <2>6, <3>2
    <3>4. Busy(n, r) = Busy(m, r)
      BY <1>17, <3>3
    <3> QED BY <1>2, <2>1, <2>4, <2>6, <3>1, <3>4 DEF Due
  <2>7. CASE r = d
    <3>1. Ready(n, r) = Ready(m, r) \cup Ready(m, s)
      BY <1>2, <1>18, <2>7 DEF Ready
    <3>2. Ready(m, r) \cap Ready(m, s) = {}
      BY <2>2 DEF Ready
    <3>3. Cardinality(Ready(n, r)) = Cardinality(Ready(m, r)) + Cardinality(Ready(m, s)) - 0
      BY <2>5, <3>1, <3>2, FS_Union, FS_EmptySet
    <3>4. PICK B : B = Busy(m, r) \ {s}
      OBVIOUS
    <3>5. \A x \in {r, s} : \A c \in SubSpaces :
             c \in Busy(m, x) <=> m.status[c] = "normal" /\ Parent(m, c) = x /\ m.count[c] > 0
      BY DEF Busy
    <3>6. s \notin Busy(m, s)
      BY <1>1, <1>11, <3>5
    <3>7. Busy(n, r) = B \cup Busy(m, s)
      <4>1. ASSUME NEW c \in SubSpaces PROVE c \in Busy(n, r) <=> c \in B \cup Busy(m, s)
        BY <1>19, <2>2, <2>7, <3>4, <3>5, <3>6
      <4> QED BY <1>17, <3>4, <4>1
    <3>8. B \cap Busy(m, s) = {}
      BY <2>2, <3>4 DEF Busy
    <3>9. IsFiniteSet(B) /\ Cardinality(B) \in Nat
      BY <2>5, <3>4, FS_Subset, FS_CardinalityType
    <3>10. Cardinality(Busy(n, r)) = Cardinality(B) + Cardinality(Busy(m, s)) - 0
      BY <2>5, <3>7, <3>8, <3>9, FS_Union, FS_EmptySet
    <3>11. CASE m.count[s] > 0
      <4>1. s \in Busy(m, r)
        BY <1>1, <2>7, <3>5, <3>11
      <4>2. Cardinality(B) = Cardinality(Busy(m, r)) - 1
        BY <2>5, <3>4, <4>1, FS_RemoveElement
      <4>3. n.count[r] = m.count[r] + m.count[s] - 1
        BY <1>2, <2>1, <2>7, <3>11
      <4> QED BY <2>4, <2>5, <3>3, <3>10, <4>2, <4>3 DEF Due
    <3>12. CASE ~(m.count[s] > 0)
      <4>1. m.count[s] = 0
        BY <1>1, <1>9, <3>12
      <4>2. Cardinality(Ready(m, s)) = 0 /\ Cardinality(Busy(m, s)) = 0
        BY <2>4, <2>5, <4>1 DEF Due
      <4>3. s \notin Busy(m, r)
        BY <3>12 DEF Busy
      <4>4. B = Busy(m, r)
        BY <3>4, <4>3
      <4>5. n.count[r] = m.count[r]
        BY <1>2, <2>1, <3>12
      <4> QED BY <2>4, <2>5, <3>3, <3>10, <4>2, <4>4, <4>5 DEF Due
    <3> QED BY <3>11, <3>12
  <2> QED BY <2>6, <2>7
<1>21. Tallied(n, Top)
  <2> SUFFICES ASSUME NEW r \in Live(n) PROVE n.count[r] = Due(n, r) + IF r = Top THEN 1 ELSE 0
    BY DEF Tallied
  <2>1. r \in SubSpaces /\ r # Top
    BY SpacesAssumption DEF Live
  <2>2. n.count[r] \in Int
    BY <1>14, <2>1
  <2> QED BY <1>20, <2>1, <2>2
<1> QED BY <1>15, <1>16, <1>21 DEF Books

\* Space::merge executes the script of the space in the current one.
LEMMA MergedHolds ==
    ASSUME NEW m, NEW tl, NEW kl, Holds(m, tl, kl), NEW s \in SubSpaces,
           m.status[s] = "normal", Parent(m, s) = m.space,
           \A i \in DOMAIN m.script[s] : ~Conflicts(m, m.script[s][i]),
           NEW k, k = InstallThis(MergeCounts(m, s, m.space), s),
           NEW tl2, tl2 = [tl EXCEPT ![m.space] = @ \cup tl[s]]
    PROVE  HoldsOn(m, k, tl2, kl)
<1>1. PICK d : d = m.space
  OBVIOUS
<1>2. m \in Machine /\ WellRun(m) /\ RunsHere(m)
  BY DEF Holds, WellRun
<1>3. /\ m.space = d /\ m.status[s] = "normal" /\ Parent(m, s) = d
  BY <1>1
<1>4. PICK g : g = Past(tl, kl, m)
  OBVIOUS
<1>5. g \in Histories /\ Core(m, g, None)
  BY <1>2, <1>4 DEF Holds
<1>6. s \in Below(m) /\ s \in Spaces /\ s # Top
  BY <1>3, Sets, SpacesAssumption DEF Below, Standing, Created
<1>7. PICK g2 : g2 = [g EXCEPT !.told[d] = @ \cup g.told[s]]
  OBVIOUS
<1>8. g2 \in Histories /\ Core(m, g2, d) /\ GrowsBy(g, g2, d, g.told[s])
  <2>1. TellsMore(g, g2, d, g.told[s])
    BY <1>5, <1>6, <1>7 DEF TellsMore, Histories
  <2> QED BY <1>2, <1>3, <1>5, <2>1, ToldCore
<1>9. /\ Installed(m, None) /\ Visible(m, g, None) /\ Hidden(m, g) /\ Scripts(m, g)
  BY <1>5 DEF Core
<1>10. d \in Spaces /\ d \in Current(m) /\ None \notin Current(m)
  BY <1>2, <1>3, <1>9, Here
<1>11. s \notin Current(m) /\ Over(m, s) = Current(m) /\ s # d
  BY <1>2, <1>3, <1>6, <1>10, OverParent DEF Current
<1>12. g2.told[d] = g.told[d] \cup g.told[s] /\ g2.told[s] = g.told[s]
  BY <1>6, <1>8, <1>10, <1>11 DEF GrowsBy
<1>13. PICK n : n = MergeCounts(m, s, d)
  OBVIOUS
<1>14. /\ n \in Machine /\ Agree(m, n, Silent \cup {"status"})
       /\ n.status = [m.status EXCEPT ![s] = "merged"]
       /\ Adopts(m, n, s, d)
  <2>1. PICK y : y = MergeCounts(m, s, d)
    OBVIOUS
  <2>2. /\ y \in Machine /\ Agree(m, y, Silent \cup {"status"})
        /\ y.status = [m.status EXCEPT ![s] = "merged"]
        /\ Adopts(m, y, s, d)
    BY <1>2, <1>10, <2>1, MergeCountsFacts
  <2> QED BY <1>13, <2>1, <2>2
<1>15. MergesHere(m, n, g2, s, d)
  BY <1>3, <1>6, <1>12, <1>14 DEF MergesHere
<1>16. WellRun(n) /\ RunsHere(n) /\ Core(n, g2, d)
  BY <1>2, <1>8, <1>15, MergedKeeps
<1>17. /\ n.space = d /\ n.script = m.script /\ n.bound = m.bound /\ n.terminated = m.terminated
       /\ n.status[s] = "merged"
  <2>1. n.space = m.space /\ n.script = m.script /\ n.bound = m.bound /\ n.terminated = m.terminated
    BY <1>14 DEF Agree, Fields, Silent
  <2>2. n.status[s] = "merged"
    BY <1>2, <1>6, <1>14 DEF Machine
  <2> QED BY <1>3, <2>1, <2>2
<1>18. PICK q \in Seq(Pairs) : q = n.script[s]
  BY <1>14 DEF Machine
<1>19. Executable(n, g2, q)
  <2>1. Scripts(n, g2)
    BY <1>16 DEF Core
  <2> QED BY <1>12, <1>17, <1>18, <2>1 DEF Scripts, Executable
<1>20. Pending(n, g2, ToSet(q), d)
  <2> SUFFICES ASSUME NEW c \in g2.told[d], c \notin ToSet(q) PROVE n.bound[c[1]] = c[2]
    BY DEF Pending
  <2>1. \A a \in Current(m) : \A e \in g.told[a] : m.bound[e[1]] = e[2]
    BY <1>9, <1>10 DEF Visible
  <2>2. CASE c \in g.told[d]
    BY <1>10, <1>17, <2>1, <2>2
  <2>3. CASE c \in g.told[s]
    <3>1. PICK a \in Current(m) : c \in g.told[a]
      BY <1>3, <1>9, <1>11, <1>17, <1>18, <2>3 DEF Hidden
    <3> QED BY <1>17, <2>1, <3>1
  <2> QED BY <1>12, <2>2, <2>3
<1>21. Agreeable(n, q)
  <2> SUFFICES ASSUME NEW c \in ToSet(q) PROVE n.bound[c[1]] \in {None, c[2]}
    BY DEF Agreeable
  <2>1. PICK i \in DOMAIN q : c = q[i]
    BY DEF ToSet
  <2>2. q = m.script[s]
    BY <1>17, <1>18
  <2>3. ~Conflicts(m, c)
    BY <2>1, <2>2
  <2> QED BY <1>3, <1>17, <2>3 DEF Conflicts
<1>22. PICK acc : acc = Through(Execute, [m |-> n, failed |-> FALSE], q)
  OBVIOUS
<1>23. Progress(n, g2, q, Len(q), acc)
  BY <1>8, <1>16, <1>17, <1>18, <1>19, <1>20, <1>22, ScriptRuns
<1>24. PICK x : x = acc.m
  OBVIOUS
<1>25. /\ WellRun(x) /\ Steady(n, x) /\ Core(x, g2, d) /\ Aside(n, x)
       /\ ~acc.failed /\ Pending(x, g2, {}, d) /\ Tallies(n, x)
  BY <1>17, <1>21, <1>23, <1>24, LeftOverEnd DEF Progress
<1>26. PICK y : y = [x EXCEPT !.script[s] = << >>]
  OBVIOUS
<1>27. k = y
  BY <1>1, <1>13, <1>18, <1>22, <1>24, <1>25, <1>26 DEF InstallThis
<1>28. x.status[s] # "normal" \/ s \in Current(x)
  BY <1>17, <1>25 DEF Aside
<1>29. /\ WellRun(y) /\ Steady(x, y) /\ Core(y, g2, d)
       /\ Agree(x, y, {"script"}) /\ y.script = [x.script EXCEPT ![s] = << >>]
  BY <1>8, <1>25, <1>26, <1>28, ClearKeeps, ZenonT(60)
<1>30. y.space = d /\ y.bound = x.bound
  BY <1>17, <1>25, <1>29 DEF Agree, Fields, Aside
<1>31. d = Top \/ y.script[d] = << >>
  <2>1. d # Top => d \in SubSpaces /\ m.script[d] = << >>
    BY <1>9, <1>10, Sets DEF Installed, Spaces
  <2>2. x.script = m.script
    BY <1>17, <1>25 DEF Aside
  <2>3. x.script \in [SubSpaces -> Seq(Pairs)]
    BY <1>25 DEF WellRun, Machine
  <2> QED BY <1>11, <1>29, <2>1, <2>2, <2>3
<1>32. Pending(y, g2, {}, d)
  BY <1>25, <1>30 DEF Pending
<1>33. Core(y, g2, None)
  BY <1>8, <1>29, <1>30, <1>31, <1>32, InstalledNow
<1>34. Steady(n, y)
  BY <1>25, <1>29, SteadyOn
<1>35. RunsHere(y)
  BY <1>16, <1>17, <1>30, <1>34, StillHere
<1>36. Past(tl2, kl, y) = g2
  <2>1. y.terminated \cap OzThreads = m.terminated \cap OzThreads
    BY <1>17, <1>34 DEF Steady
  <2>2. g2 = [told |-> [tl EXCEPT ![d] = @ \cup tl[s]], killed |-> kl,
              ended |-> m.terminated \cap OzThreads]
    BY <1>4, <1>7 DEF Past
  <2> QED BY <1>1, <2>1, <2>2 DEF Past
<1>37. Sound(m, Top) => Sound(k, Top)
  <2> SUFFICES ASSUME Sound(m, Top) PROVE Sound(k, Top)
    OBVIOUS
  <2>1. Agree(x, y, Quiet)
    BY <1>29 DEF Agree, Quiet
  <2>2. Sound(n, Top)
    <3>1. CASE Spent(m)
      BY <1>14, <3>1 DEF Spent, Adopts, Sound
    <3>2. CASE Books(m, Top)
      <4>1. \A a \in Current(m) : m.status[a] = "normal"
        BY <1>9 DEF Installed
      <4>2. PICK rank : Ranked(m, rank)
        BY <1>2 DEF WellRun, Tree
      <4>3. Path(m, s) = {s} \cup Path(m, d)
        BY <1>2, <1>3, <1>6, OverParent
      <4>4. s \in Live(m) /\ (d # Top => d \in Live(m))
        BY <1>3, <1>10, <4>1, <4>3 DEF Live, IsAlive, Current, Spaces
      <4> QED BY <1>2, <1>3, <1>14, <3>2, <4>4, MergedBooks DEF Sound
    <3> QED BY <3>1, <3>2 DEF Sound
  <2> QED BY <1>25, <1>27, <2>1, <2>2, QuietTallies DEF Tallies
<1> QED BY <1>8, <1>27, <1>29, <1>33, <1>35, <1>36, <1>37 DEF Holds, HoldsOn

\* Space.merge keeps the invariant, after the status variable was answered.
LEMMA MergeHolds ==
    ASSUME NEW m, NEW tl, NEW kl, Holds(m, tl, kl), NEW s \in SubSpaces,
           m.status[s] = "normal", Parent(m, s) = m.space,
           \A i \in DOMAIN m.script[s] : ~Conflicts(m, m.script[s][i]),
           NEW x, x = IF CanAnswer(m, s) THEN BindStatusVar(m, s, "merged") ELSE m,
           NEW k, k = InstallThis(MergeCounts(x, s, m.space), s),
           NEW tl2, tl2 = [tl EXCEPT ![m.space] = @ \cup tl[s]]
    PROVE  HoldsOn(m, k, tl2, kl)
<1>1. PICK y : y = x
  OBVIOUS
<1>2. Murmur(m, y) /\ Tallies(m, y)
  <2>1. WellRun(m) /\ "merged" \in Answers
    BY DEF Holds, Answers
  <2>2. /\ Murmur(m, m) /\ Murmur(m, BindStatusVar(m, s, "merged"))
        /\ Tallies(m, m) /\ Tallies(m, BindStatusVar(m, s, "merged"))
    BY <2>1, MurmurSelf, TalliesSelf, BindStatusVarMurmurs
  <2> QED BY <1>1, <2>2
<1>3. Holds(y, tl, kl)
  BY <1>2, MurmurHolds
<1>4. /\ y.space = m.space /\ y.parent = m.parent /\ y.status = m.status
      /\ y.script = m.script /\ y.bound = m.bound
  BY <1>2, MurmurCore DEF Murmur
<1>5. y.status[s] = "normal" /\ Parent(y, s) = y.space
  BY <1>4, SameSpaces
<1>6. \A i \in DOMAIN y.script[s] : ~Conflicts(y, y.script[s][i])
  BY <1>4 DEF Conflicts
<1>7. k = InstallThis(MergeCounts(y, s, y.space), s)
  BY <1>1, <1>4
<1>8. tl2 = [tl EXCEPT ![y.space] = @ \cup tl[s]]
  BY <1>4
<1>9. PICK z : z = InstallThis(MergeCounts(y, s, y.space), s)
  OBVIOUS
<1>10. PICK T : T = [tl EXCEPT ![y.space] = @ \cup tl[s]]
  OBVIOUS
<1>11. Holds(z, T, kl) /\ (Sound(y, Top) => Sound(z, Top))
  <2>1. HoldsOn(y, z, T, kl)
    BY <1>3, <1>5, <1>6, <1>9, <1>10, MergedHolds
  <2> QED BY <2>1 DEF HoldsOn
<1> QED BY <1>2, <1>7, <1>8, <1>9, <1>10, <1>11 DEF Tallies, HoldsOn

-----------------------------------------------------------------------------
(* The counters and the actions *)

\* In a space that is not alive nothing is counted.
LEMMA DeadSounds ==
    ASSUME NEW m, NEW s, s \notin Live(m) \cup {Top}, Sound(m, s)
    PROVE  Sound(m, Top)
<1>1. \A r \in Live(m) : r # s /\ r # Top
  BY SpacesAssumption DEF Live
<1>2. Tallied(m, s) => Tallied(m, Top)
  BY <1>1 DEF Tallied
<1> QED BY <1>2 DEF Sound, Books

\* The counters are right when a thread ends.
LEMMA ExitSounds ==
    ASSUME NEW m, NEW tl, NEW kl, Holds(m, tl, kl), NEW t \in Threads, m.at[t] # None,
           t \notin m.terminated \/ t \in Helpers, SpaceOf(m, t) = m.space,
           t \in m.runnable, t # Spare, Sound(m, Top), NEW k, k = Terminate(m, t)
    PROVE  Sound(k, Top)
<1>1. PICK g : g = Past(tl, kl, m)
  OBVIOUS
<1>2. WellRun(m) /\ g \in Histories /\ Core(m, g, None)
  BY <1>1 DEF Holds
<1>3. t \notin g.ended
  BY <1>1, Sets DEF Past
<1> QED BY <1>2, <1>3, TerminateKeeps

\* The counters are right when a DummyThread or a UnifyThread ends.
LEMMA RunHelperSounds ==
    ASSUME NEW m, NEW tl, NEW kl, Holds(m, tl, kl), NEW t \in Helpers, m.at[t] # None,
           SpaceOf(m, t) = m.space, t \in m.runnable, t # Spare, Sound(m, Top),
           NEW k, k = RunHelper(m, t)
    PROVE  Sound(k, Top)
<1>1. m \in Machine /\ t \in Threads /\ m.at[t] \in Spaces /\ m.at[t] # Top
  BY SpaceOfStands, Sets DEF Holds, WellRun, Placed, Created
<1>2. PICK s \in SubSpaces : s = m.at[t]
  BY <1>1 DEF Spaces
<1>3. PICK m1 : m1 = IF m.kind[t] = "dummy" \/ m.chosen[s] THEN m
                     ELSE WakeUpPendings([m EXCEPT !.chosen[s] = TRUE], ChoiceVar(s))
  OBVIOUS
<1>4. Tallies(m, m1) /\ Holds(m1, tl, kl) /\ m1.at = m.at /\ m1.space = m.space /\ \A x \in Created(m) : Real(m1, x) = Real(m, x)
  <2>1. CASE m.kind[t] = "dummy" \/ m.chosen[s]
    <3>1. m1 = m
      BY <1>3, <2>1
    <3> QED BY <3>1, TalliesSelf
  <2>2. CASE ~(m.kind[t] = "dummy" \/ m.chosen[s])
    <3>1. PICK m2 : m2 = [m EXCEPT !.chosen[s] = TRUE]
      OBVIOUS
    <3>2. PICK c : c = [m.chosen EXCEPT ![s] = TRUE]
      OBVIOUS
    <3>3. c \in [SubSpaces -> BOOLEAN] /\ m2 = [m EXCEPT !.chosen = c]
      BY <1>1, <3>1, <3>2 DEF Machine
    <3>4. m2 \in Machine /\ Agree(m, m2, {"chosen"})
      BY <1>1, <3>3 DEF Machine, Agree, Fields
    <3>5. Agree(m, m2, Silent) /\ m2.at = m.at
      BY <3>4 DEF Agree, Fields, Silent
    <3>6. Murmur(m, m2)
      BY <3>4, <3>5, SilentMurmur DEF Holds
    <3>7. m1 = WakeUpPendings(m2, ChoiceVar(s))
      BY <1>3, <2>2, <3>1
    <3>8. ChoiceVar(s) \in Waitees
      BY Sets
    <3>9. Murmur(m2, m1) /\ m1.at = m2.at /\ Tallies(m2, m1)
      BY <3>6, <3>7, <3>8, WakeUpPendingsMurmurs DEF Murmur
    <3>10. Murmur(m, m1)
      BY <3>6, <3>9, MurmurOn
    <3>11. Holds(m1, tl, kl)
      BY <3>10, MurmurHolds
    <3>12. m1.space = m.space /\ m1.parent = m.parent /\ m1.status = m.status
      BY <3>10, MurmurCore DEF Murmur
    <3>13. Agree(m, m2, Quiet)
      BY <3>4 DEF Agree, Quiet
    <3>14. Tallies(m, m2)
      BY <3>13, QuietTallies
    <3>15. Tallies(m, m1)
      BY <3>9, <3>14, TalliesOn
    <3> QED BY <3>5, <3>9, <3>11, <3>12, <3>15, SameSpaces
  <2> QED BY <2>1, <2>2
<1>5. SpaceOf(m1, t) = m1.space /\ m1.at[t] # None
  <2>1. m.at[t] \in Created(m)
    BY <1>1, SpaceOfStands DEF Holds
  <2> QED BY <1>4, <2>1 DEF SpaceOf
<1>6. k = Terminate(m1, t)
  BY <1>2, <1>3 DEF RunHelper
<1>7. t \in m1.runnable /\ Sound(m1, Top)
  BY <1>4 DEF Tallies, Stays
<1> QED BY <1>1, <1>4, <1>5, <1>6, <1>7, ExitSounds

\* What thread runs is not counted.
LEMMA RunningSounds ==
    ASSUME NEW m, NEW k, Agree(m, k, {"running"}), k.running \in m.runnable \cup {None},
           Sound(m, Top)
    PROVE  Sound(k, Top)
<1>1. /\ k.parent = m.parent /\ k.status = m.status /\ k.count = m.count
      /\ k.runnable = m.runnable /\ k.at = m.at /\ k.kind = m.kind /\ k.pendings = m.pendings
  BY DEF Agree, Fields
<1>2. CASE Spent(m)
  BY <1>1, <1>2 DEF Sound, Spent
<1>3. CASE ~Spent(m)
  <2>1. Books(m, Top)
    BY <1>3 DEF Sound
  <2>2. Tallied(k, Top) /\ Counters(k)
    BY <1>1, <2>1, SameDue DEF Books
  <2>3. Queued(k) /\ Scheduled(k)
    BY <1>1, <2>1 DEF Books, Queued, Scheduled
  <2> QED BY <2>2, <2>3 DEF Sound, Books
<1> QED BY <1>2, <1>3

\* A thread that is in no suspension list enters one.
LEMMA ParkSounds ==
    ASSUME NEW m \in Machine, NEW w \in Waitees, NEW t \in OzThreads, m.kind[t] # "none",
           t \notin m.runnable, \A z \in Waitees : t \notin m.pendings[z],
           Sound(m, Top), NEW k, k = AddToSuspendList(m, w, t)
    PROVE  Sound(k, Top)
<1>6. PICK x : x = AddToSuspendList(m, w, t)
  OBVIOUS
<1>7. /\ Agree(m, x, {"pendings", "optimized", "home"})
      /\ x.pendings = [m.pendings EXCEPT ![w] = @ \cup {t}]
  BY ONLY m \in Machine, <1>6, SuspendFrame
<1>8. k = x
  BY <1>6
<1>1. /\ Agree(m, k, {"pendings", "optimized", "home"})
      /\ k.pendings = [m.pendings EXCEPT ![w] = @ \cup {t}]
  BY <1>7, <1>8
<1>2. /\ k.parent = m.parent /\ k.status = m.status /\ k.count = m.count
      /\ k.runnable = m.runnable /\ k.running = m.running
      /\ k.at = m.at /\ k.kind = m.kind
  BY <1>1 DEF Agree, Fields
<1>3. \A z \in Waitees : k.pendings[z] = IF z = w THEN m.pendings[z] \cup {t} ELSE m.pendings[z]
  BY <1>1 DEF Machine
<1>4. CASE Spent(m)
  BY <1>2, <1>4 DEF Sound, Spent
<1>5. CASE ~Spent(m)
  <2>1. Books(m, Top)
    BY <1>5 DEF Sound
  <2>2. Tallied(k, Top) /\ Counters(k)
    BY <1>2, <2>1, SameDue DEF Books
  <2>3. Queued(k)
    <3>1. ASSUME NEW u \in OzThreads, u \in k.runnable, NEW z \in Waitees PROVE u \notin k.pendings[z]
      <4>1. u # t /\ u \notin m.pendings[z]
        BY <1>2, <2>1, <3>1 DEF Books, Queued
      <4> QED BY <1>3, <4>1
    <3>2. ASSUME NEW u \in OzThreads, NEW y \in Waitees, NEW z \in Waitees,
                 u \in k.pendings[y], u \in k.pendings[z]
          PROVE  y = z
      <4>1. CASE u = t
        <5>1. y = w /\ z = w
          BY <1>3, <3>2, <4>1
        <5> QED BY <5>1
      <4>2. CASE u # t
        <5>1. u \in m.pendings[y] /\ u \in m.pendings[z]
          BY <1>3, <3>2, <4>2
        <5> QED BY <2>1, <5>1 DEF Books, Queued
      <4> QED BY <4>1, <4>2
    <3> QED BY <3>1, <3>2 DEF Queued
  <2>4. Scheduled(k)
    <3>1. ASSUME NEW z \in Waitees, NEW u \in k.pendings[z] PROVE k.kind[u] # "none"
      <4>1. u \in m.pendings[z] \/ u = t
        BY <1>3, <3>1
      <4> QED BY <1>2, <2>1, <4>1 DEF Books, Scheduled
    <3> QED BY <1>2, <2>1, <3>1 DEF Books, Scheduled
  <2> QED BY <2>2, <2>3, <2>4 DEF Sound, Books
<1> QED BY <1>4, <1>5

\* The counters and the lists are right, and MaxHelpers has been enough.
Healthy(m) == Books(m, Top) /\ ~Spent(m)

\* A thread that can run is not the spare, and its space is counted.
LEMMA HealthyFacts ==
    ASSUME NEW m, Healthy(m)
    PROVE  /\ Sound(m, Top) /\ Books(m, Top)
           /\ \A t \in m.runnable : t # Spare /\ m.kind[t] # "none"
           /\ m.running # None => m.running \in m.runnable
  BY DEF Healthy, Sound, Spent, Books, Scheduled

\* The counters are right when run() has given a thread its turn.
LEMMA DispatchSounds ==
    ASSUME NEW m, NEW tl, NEW kl, Holds(m, tl, kl), Healthy(m), m.running = None,
           NEW t \in m.runnable, NEW x, x = Install(m, SpaceOf(m, t)),
           NEW k, k = IF x.space # SpaceOf(x, t)
                      THEN [x EXCEPT !.runnable = @ \ {t}, !.dead = @ \cup {t}]
                      ELSE IF t \in Helpers THEN RunHelper(x, t)
                      ELSE [x EXCEPT !.running = t]
    PROVE  Sound(k, Top)
<1>1. t \in Threads /\ m.at[t] # None /\ t # Spare /\ Sound(m, Top)
  BY HealthyFacts DEF Holds, WellRun, Placed, Machine
<1>2. PICK s : s = SpaceOf(m, t)
  OBVIOUS
<1>3. s \in Standing(m) /\ m.at[t] \in Created(m)
  BY <1>1, <1>2, SpaceOfStands DEF Holds
<1>4. /\ Kept(m, Past(tl, kl, m), x) /\ Stays(m, x)
      /\ Wanted(m, s) /\ Sound(m, Top) => Sound(x, Top)
      /\ x.space = s \/ s \notin Live(x) \cup {Top}
  BY <1>2, <1>3, InstallKeeps DEF Holds
<1>5. Sound(x, Top)
  <2>1. CASE IsAlive(m, s)
    <3>1. CASE s = Top
      BY <1>1, <1>4, <3>1 DEF Wanted
    <3>2. CASE s # Top
      <4>1. s \in SubSpaces /\ m.status[s] \notin {"none", "merged"}
        BY <1>3, <3>2 DEF Standing, Created, Spaces
      <4>2. m.status[s] # "failed"
        <5>1. PICK rank : Ranked(m, rank)
          BY DEF Holds, WellRun, Tree
        <5>2. s \in Path(m, s)
          BY <1>3, <5>1, PathFacts
        <5> QED BY <2>1, <5>2 DEF IsAlive
      <4>3. m.status[s] \in {"none", "normal", "failed", "merged"}
        BY <1>3 DEF Holds, WellRun, Machine, Standing, Created
      <4>4. s \in Live(m)
        BY <2>1, <4>1, <4>2, <4>3 DEF Live
      <4>5. t \in Ready(m, s)
        BY <1>2 DEF Ready
      <4> QED BY <1>1, <1>4, <4>4, <4>5 DEF Wanted
    <3> QED BY <3>1, <3>2
  <2>2. CASE ~IsAlive(m, s)
    <3>1. x = m
      BY <1>2, <2>2 DEF Install
    <3> QED BY <1>1, <3>1
  <2> QED BY <2>1, <2>2
<1>6. Holds(x, tl, kl)
  BY <1>4, KeptHolds
<1>7. x \in Machine /\ x.running = None /\ x.at[t] # None /\ t \in x.runnable
  BY <1>1, <1>4 DEF Kept, Steady, WellRun, Stays
<1>8. ~Spent(x) => SpaceOf(x, t) = s
  <2>1. Real(x, m.at[t]) = Real(m, m.at[t])
    BY <1>3, <1>4, SteadyTree DEF Likewise, Kept, Holds
  <2> QED BY <1>2, <1>4, <2>1 DEF SpaceOf, Stays
<1>9. CASE x.space # SpaceOf(x, t)
  <2>1. PICK r, d : r = x.runnable \ {t} /\ d = x.dead \cup {t}
    OBVIOUS
  <2>2. r \subseteq x.runnable /\ r \in SUBSET Threads /\ d \in SUBSET Threads
    BY <1>1, <1>7, <2>1 DEF Machine
  <2>3. k = [x EXCEPT !.runnable = r, !.dead = d]
    BY <1>9, <2>1
  <2>4. k \in Machine /\ Agree(x, k, {"runnable", "dead"}) /\ k.runnable = r
    BY <1>7, <2>2, <2>3, ZenonT(60) DEF Machine, Agree, Fields
  <2>5. /\ k.parent = x.parent /\ k.status = x.status /\ k.count = x.count /\ k.at = x.at
        /\ k.kind = x.kind /\ k.pendings = x.pendings /\ k.running = None
    BY <1>7, <2>4 DEF Agree, Fields
  <2>6. CASE Spent(x)
    BY <2>5, <2>6 DEF Spent, Sound
  <2>7. CASE ~Spent(x)
    <3>1. Stops(x, k, t)
      BY <2>1, <2>4, <2>5 DEF Stops
    <3>2. Sound(k, SpaceOf(x, t))
      BY <1>1, <1>5, <1>7, <2>4, <3>1, StopSounds
    <3>3. SpaceOf(x, t) = s /\ s \notin Live(x) \cup {Top}
      BY <1>4, <1>8, <1>9, <2>7
    <3>4. Live(k) = Live(x)
      <4>1. k.parent = x.parent /\ k.status = x.status
        BY <2>5
      <4>2. \A y : Path(k, y) = Path(x, y)
        <5>1. PICK y : y = k
          OBVIOUS
        <5>2. y.parent = x.parent /\ y.status = x.status
          BY <4>1, <5>1
        <5>3. \A z : Path(y, z) = Path(x, z)
          BY <5>2, SameSpaces
        <5> QED BY <5>1, <5>3
      <4> QED BY <4>1, <4>2 DEF Live, IsAlive
    <3> QED BY <3>2, <3>3, <3>4, DeadSounds
  <2> QED BY <2>6, <2>7
<1>10. CASE x.space = SpaceOf(x, t) /\ t \in Helpers
  <2>1. k = RunHelper(x, t)
    BY <1>10
  <2> QED BY <1>1, <1>5, <1>6, <1>7, <1>10, <2>1, RunHelperSounds
<1>11. CASE x.space = SpaceOf(x, t) /\ t \notin Helpers
  <2>1. k = [x EXCEPT !.running = t]
    BY <1>11
  <2>2. Agree(x, k, {"running"}) /\ k.running = t
    BY <1>7, <2>1 DEF Machine, Agree, Fields
  <2>3. Agree(x, k, {"running"})
    BY <2>2
  <2>4. k.running \in x.runnable \cup {None}
    BY <1>7, <2>2
  <2> QED BY <1>5, <2>3, <2>4, RunningSounds
<1> QED BY <1>9, <1>10, <1>11

\* The counters are right when run() goes back to the top-level space.
LEMMA IdleSounds ==
    ASSUME NEW m, NEW tl, NEW kl, Holds(m, tl, kl), Sound(m, Top), NEW k, k = Install(m, Top)
    PROVE  Sound(k, Top)
<1>1. Top \in Standing(m)
  BY TopIsReal DEF Holds
<1>2. Wanted(m, Top)
  BY DEF Wanted
<1> QED BY <1>1, <1>2, InstallKeeps DEF Holds

\* The counters are right when a thread is suspended.
LEMMA SuspendSounds ==
    ASSUME NEW m, NEW tl, NEW kl, Holds(m, tl, kl), Healthy(m), NEW t, m.running = t, t # None,
           NEW w \in Waitees, NEW k, k = AddToSuspendList(Suspend(m, t), w, t)
    PROVE  Sound(k, Top)
<1>1. m \in Machine /\ t \in Threads /\ t \in OzThreads /\ m.at[t] # None
  BY RunningFacts DEF Holds, WellRun
<1>2. t \in m.runnable /\ t # Spare /\ m.kind[t] # "none" /\ Sound(m, Top) /\ Books(m, Top)
  BY HealthyFacts
<1>3. PICK r : r = m.runnable \ {t}
  OBVIOUS
<1>4. PICK m1 : m1 = [m EXCEPT !.runnable = r, !.running = None]
  OBVIOUS
<1>5. r \subseteq m.runnable /\ r \in SUBSET Threads
  BY <1>1, <1>3 DEF Machine
<1>6. /\ m1 \in Machine /\ Agree(m, m1, {"runnable", "dead", "running"}) /\ m1.runnable = r
      /\ m1.running = None
  BY <1>1, <1>4, <1>5 DEF Machine, Agree, Fields
<1>7. Holds(m1, tl, kl)
  BY <1>5, <1>6, OthersHold
<1>8. /\ m1.parent = m.parent /\ m1.status = m.status /\ m1.count = m.count /\ m1.at = m.at
      /\ m1.kind = m.kind /\ m1.pendings = m.pendings
  BY <1>6 DEF Agree, Fields
<1>9. Stops(m, m1, t)
  BY <1>3, <1>6, <1>8 DEF Stops
<1>10. PICK s : s = SpaceOf(m, t)
  OBVIOUS
<1>11. Sound(m1, s)
  BY <1>1, <1>2, <1>6, <1>9, <1>10, StopSounds
<1>12. s \in Standing(m1)
  <2>1. s \in Standing(m)
    BY <1>1, <1>10, SpaceOfStands DEF Holds
  <2> QED BY <1>8, <2>1, SameSpaces
<1>13. s \in Live(m1) \cup {Top}
  <2>1. s = m.space
    BY <1>10 DEF Holds, RunsHere
  <2>2. Live(m1) = Live(m)
    <3>1. \A y : Path(m1, y) = Path(m, y)
      BY <1>8, SameSpaces
    <3> QED BY <1>8, <3>1 DEF Live, IsAlive
  <2>3. s \in SubSpaces \/ s = Top
    BY <1>12 DEF Standing, Created, Spaces
  <2>4. s \in SubSpaces => s \in Live(m)
    BY <2>1, CurrentLive DEF Holds
  <2> QED BY <2>2, <2>3, <2>4
<1>14. PICK m2 : m2 = Dec(m1, s)
  OBVIOUS
<1>15. Murmur(m1, m2) /\ Spared(m1, m2) /\ (s \in Live(m1) \cup {Top} /\ Sound(m1, s) => Sound(m2, Top))
  BY <1>7, <1>12, <1>14, DecMurmurs DEF Holds
<1>16. Sound(m2, Top) /\ m2 \in Machine
  BY <1>11, <1>13, <1>15 DEF Murmur, WellRun
<1>17. k = AddToSuspendList(m2, w, t)
  BY <1>3, <1>4, <1>10, <1>14 DEF Suspend
<1>18. m2.kind[t] # "none" /\ t \notin m2.runnable
  BY <1>1, <1>2, <1>3, <1>6, <1>8, <1>15 DEF Murmur, Spared
<1>19. \A z \in Waitees : t \notin m2.pendings[z]
  BY <1>1, <1>2, <1>8, <1>15 DEF Spared, Books, Queued
<1> QED BY <1>1, <1>16, <1>17, <1>18, <1>19, ParkSounds

\* A thread that is made is counted when it is resumed.
LEMMA CreateSounds ==
    ASSUME NEW m, NEW tl, NEW kl, Holds(m, tl, kl), NEW t, Startable(m, t),
           NEW s \in Created(m), Sound(m, Top), NEW k, k = Create(m, t, s)
    PROVE  Sound(k, Top)
<1>1. /\ m \in Machine /\ WellRun(m) /\ t \in OzThreads /\ t \in Threads /\ t # Spare /\ s \in Spaces
      /\ m.kind[t] = "none"
  BY Sets DEF Holds, WellRun, Startable, Created
<1>2. m.at[t] = None /\ t \notin m.terminated
  BY <1>1 DEF WellRun, Lively
<1>3. t \notin m.runnable /\ \A w \in Waitees : t \notin m.pendings[w]
  BY <1>1, <1>2 DEF WellRun, Placed
<1>4. PICK m1 : m1 = New(m, t, "oz", s)
  OBVIOUS
<1>5. Holds(m1, tl, kl) /\ m1.at[t] = s /\ s # None /\ t \notin m1.terminated
  BY <1>4, NewHolds
<1>6. /\ Agree(m, m1, {"kind", "at", "peopled", "terminated", "dead"})
      /\ \A u \in Threads : /\ m1.at[u] = IF u = t THEN s ELSE m.at[u]
                            /\ m1.kind[u] = IF u = t THEN "oz" ELSE m.kind[u]
  <2>1. PICK y : y = New(m, t, "oz", s)
    OBVIOUS
  <2>2. /\ Agree(m, y, {"kind", "at", "peopled", "terminated", "dead"})
        /\ \A u \in Threads : /\ y.at[u] = IF u = t THEN s ELSE m.at[u]
                              /\ y.kind[u] = IF u = t THEN "oz" ELSE m.kind[u]
    BY <1>1, <2>1, NewFacts
  <2> QED BY <1>4, <2>1, <2>2
<1>7. /\ m1.parent = m.parent /\ m1.status = m.status /\ m1.count = m.count
      /\ m1.runnable = m.runnable /\ m1.running = m.running /\ m1.pendings = m.pendings
  BY <1>6 DEF Agree, Fields
<1>8. /\ m.runnable \subseteq Threads /\ Spare \in Threads
      /\ \A w \in Waitees : m.pendings[w] \subseteq Threads
  BY <1>1, Sets DEF Machine
<1>9. Alike(m, m1)
  <2>1. \A u \in m.runnable : m1.at[u] = m.at[u] /\ m1.kind[u] = m.kind[u]
    BY <1>3, <1>6, <1>8
  <2>2. ASSUME NEW w \in Waitees, NEW u \in m1.pendings[w] PROVE u \in m.pendings[w] /\ m1.kind[u] = m.kind[u]
    <3>1. u \in m.pendings[w] /\ u # t /\ u \in Threads
      BY <1>3, <1>7, <1>8, <2>2
    <3> QED BY <1>6, <3>1
  <2>3. Spent(m) => Spent(m1)
    BY <1>1, <1>6, <1>8 DEF Spent
  <2> QED BY <1>7, <2>1, <2>2, <2>3 DEF Alike
<1>10. Sound(m1, Top)
  BY <1>9, AlikeTallies
<1>11. PICK ho : ho = [m1.home EXCEPT ![DoneVar(t)] = s]
  OBVIOUS
<1>12. m1 \in Machine /\ ho \in [Store -> Spaces] /\ \A v \in Vars : ho[v] = m1.home[v]
  <2>1. m1 \in Machine
    BY <1>5 DEF Holds, WellRun
  <2>2. DoneVar(t) \in Store /\ DoneVar(t) \notin Vars
    BY <1>1, Sets
  <2> QED BY <1>1, <1>11, <2>1, <2>2 DEF Machine
<1>13. PICK m2 : m2 = [m1 EXCEPT !.home = ho]
  OBVIOUS
<1>14. m2 \in Machine /\ Agree(m1, m2, {"home"}) /\ m2.home = ho
  BY <1>12, <1>13 DEF Machine, Agree, Fields
<1>15. Agree(m1, m2, Quiet)
  BY <1>14 DEF Agree, Quiet
<1>16. Sound(m2, Top)
  BY <1>10, <1>15, QuietTallies
<1>17. /\ m2.parent = m1.parent /\ m2.status = m1.status /\ m2.running = m1.running
       /\ m2.at = m1.at /\ m2.kind = m1.kind /\ m2.runnable = m1.runnable
       /\ m2.terminated = m1.terminated /\ m2.pendings = m1.pendings
       /\ m2.optimized = m1.optimized
  BY <1>14 DEF Agree, Fields
<1>18. WellRun(m2)
  <2>1. Created(m2) = Created(m1) /\ (Tree(m2) <=> Tree(m1))
    BY <1>17, SameSpaces
  <2> QED BY <1>5, <1>14, <1>17, <2>1 DEF Placed, Lively, WellRun, Holds
<1>19. Resumable(m2, t)
  BY <1>1, <1>3, <1>5, <1>6, <1>7, <1>17 DEF Resumable
<1>20. k = Resume(m2, t)
  BY <1>4, <1>11, <1>13 DEF Create
<1> QED BY <1>16, <1>18, <1>19, <1>20, ResumeTallies

\* In a new space nothing is counted, and it is not counted.
LEMMA BornBooks ==
    ASSUME NEW m, WellRun(m), Books(m, Top), NEW s \in SubSpaces, m.status[s] = "none",
           m.space \in Standing(m), NEW k, Born(m, k, s)
    PROVE  Books(k, Top)
<1>1. /\ k.count = m.count /\ k.runnable = m.runnable /\ k.running = m.running
      /\ k.at = m.at /\ k.kind = m.kind /\ k.pendings = m.pendings
  BY DEF Born, Agree, Fields
<1>2. /\ \A r \in Spaces : k.status[r] = IF r = s THEN "normal" ELSE m.status[r]
      /\ \A r \in SubSpaces : k.parent[r] = IF r = s THEN m.space ELSE m.parent[r]
  BY DEF Born
<1>3. PICK rank : Ranked(m, rank)
  BY DEF WellRun, Tree
<1>4. /\ s \notin Created(m) /\ m.space \in Created(m) /\ m.space \in Standing(m) /\ s # Top
      /\ \A x \in Created(m) : Real(k, x) = Real(m, x) /\ Real(m, x) \in Standing(m)
      /\ \A x \in Standing(m) : Path(k, x) = Path(m, x)
  BY <1>3, RealFacts, SpacesAssumption DEF Born, Standing
<1>5. ASSUME NEW c \in SubSpaces, m.status[c] # "none"
      PROVE  /\ c # s /\ c \in Created(m) /\ k.status[c] = m.status[c]
             /\ Parent(k, c) = Parent(m, c) /\ Parent(m, c) \in Standing(m)
  <2>1. c # s /\ c \in Created(m) /\ c \in Spaces /\ k.parent[c] = m.parent[c]
    BY <1>2, <1>5, Sets DEF Created
  <2>2. c # Top
    BY <1>5, SpacesAssumption
  <2>3. m.parent[c] \in Created(m)
    BY <1>3, <2>1, <2>2 DEF Ranked
  <2> QED BY <1>2, <1>4, <2>1, <2>3 DEF Parent
<1>6. Parent(k, s) = m.space
  <2>1. Real(m, m.space) = m.space
    BY <1>3, <1>4, RealFacts DEF Standing
  <2> QED BY <1>2, <1>4, <2>1 DEF Parent
<1>7. m.count[s] = 0
  BY DEF Books, Counters
<1>8. \A t \in m.runnable : SpaceOf(k, t) = SpaceOf(m, t) /\ SpaceOf(m, t) \in Standing(m)
  <2> SUFFICES ASSUME NEW t \in m.runnable
               PROVE  SpaceOf(k, t) = SpaceOf(m, t) /\ SpaceOf(m, t) \in Standing(m)
    OBVIOUS
  <2>1. t \in Threads /\ m.at[t] # None
    BY DEF WellRun, Machine, Placed
  <2>2. m.at[t] \in Created(m)
    BY <2>1, SpaceOfStands
  <2> QED BY <1>1, <1>4, <2>2 DEF SpaceOf
<1>9. \A r : Ready(k, r) = Ready(m, r)
  BY <1>1, <1>8 DEF Ready
<1>10. Ready(m, s) = {}
  BY <1>4, <1>8 DEF Ready, Standing
<1>11. ASSUME NEW r PROVE Busy(k, r) = IF r = s THEN {} ELSE Busy(m, r)
  <2>1. CASE r = s
    <3> SUFFICES ASSUME NEW c \in SubSpaces, k.status[c] = "normal", Parent(k, c) = s PROVE FALSE
      BY <2>1 DEF Busy
    <3>1. c # s
      BY <1>4, <1>6
    <3>2. m.status[c] = "normal"
      BY <1>2, <3>1, Sets
    <3> QED BY <1>4, <1>5, <3>2 DEF Standing
  <2>2. CASE r # s
    <3>1. ASSUME NEW c \in SubSpaces
          PROVE  k.status[c] = "normal" /\ Parent(k, c) = r /\ k.count[c] > 0
                   <=> m.status[c] = "normal" /\ Parent(m, c) = r /\ m.count[c] > 0
      <4>1. CASE m.status[c] # "none"
        BY <1>1, <1>5, <4>1
      <4>2. CASE m.status[c] = "none"
        <5>1. m.count[c] = 0
          BY <4>2 DEF Books, Counters
        <5>2. ~(m.count[c] > 0)
          BY <5>1
        <5> QED BY <1>1, <5>2
      <4> QED BY <4>1, <4>2
    <3> QED BY <2>2, <3>1 DEF Busy
  <2> QED BY <2>1, <2>2
<1>12. Tallied(k, Top)
  <2> SUFFICES ASSUME NEW r \in Live(k) PROVE k.count[r] = Due(k, r) + IF r = Top THEN 1 ELSE 0
    BY DEF Tallied
  <2>1. r \in SubSpaces /\ r # Top /\ k.status[r] = "normal" /\ IsAlive(k, r)
    BY SpacesAssumption DEF Live
  <2>2. CASE r = s
    <3>1. Ready(k, r) = {} /\ Busy(k, r) = {}
      BY <1>9, <1>10, <1>11, <2>2
    <3>2. Due(k, r) = 0
      BY <3>1, FS_EmptySet DEF Due
    <3> QED BY <1>1, <1>7, <2>1, <2>2, <3>2
  <2>3. CASE r # s
    <3>1. m.status[r] = "normal"
      BY <1>2, <2>1, <2>3, Sets
    <3>2. r \in Standing(m)
      BY <1>5, <2>1, <3>1 DEF Standing
    <3>3. \A a \in Path(m, r) : m.status[a] # "failed"
      <4> SUFFICES ASSUME NEW a \in Path(m, r) PROVE m.status[a] # "failed"
        OBVIOUS
      <4>1. a \in Standing(m)
        BY <1>3, <3>2, PathFacts
      <4>2. a \in Spaces /\ a # s
        BY <1>4, <4>1 DEF Standing, Created
      <4>3. k.status[a] # "failed"
        BY <1>4, <2>1, <3>2 DEF IsAlive
      <4> QED BY <1>2, <4>2, <4>3
    <3>4. r \in Live(m)
      BY <2>1, <3>1, <3>3 DEF Live, IsAlive
    <3>5. Due(k, r) = Due(m, r)
      BY <1>9, <1>11, <2>3 DEF Due
    <3> QED BY <1>1, <2>1, <3>4, <3>5 DEF Books, Tallied
  <2> QED BY <2>2, <2>3
<1>13. Counters(k)
  <2> SUFFICES ASSUME NEW c \in SubSpaces
               PROVE  /\ k.count[c] >= 0
                      /\ k.status[c] = "none" => k.count[c] = 0
                      /\ k.status[c] = "failed" => k.count[c] > 0 \/ Parent(k, c) = Top
    BY DEF Counters
  <2>1. /\ m.count[c] >= 0
        /\ m.status[c] = "none" => m.count[c] = 0
        /\ m.status[c] = "failed" => m.count[c] > 0 \/ Parent(m, c) = Top
    BY DEF Books, Counters
  <2>2. CASE c = s
    BY <1>1, <1>2, <2>1, <2>2, Sets
  <2>3. CASE c # s
    <3>1. k.status[c] = m.status[c]
      BY <1>2, <2>3, Sets
    <3> QED BY <1>1, <1>5, <2>1, <3>1
  <2> QED BY <2>2, <2>3
<1>14. Queued(k) /\ Scheduled(k)
  BY <1>1 DEF Books, Queued, Scheduled
<1> QED BY <1>12, <1>13, <1>14 DEF Books

\* The counters are right when a space is created.
LEMMA NewSpaceSounds ==
    ASSUME NEW m, NEW tl, NEW kl, Holds(m, tl, kl), NEW s \in SubSpaces, m.status[s] = "none",
           Healthy(m), NEW x, x = Newborn(m, s), NEW k, k = Create(x, Root(s), s)
    PROVE  Sound(k, Top)
<1>1. Holds(x, tl, kl) /\ s \in Created(x) /\ Startable(x, Root(s)) /\ Born(m, x, s)
  BY BirthHolds
<1>2. WellRun(m) /\ m.space \in Standing(m) /\ Books(m, Top)
  BY Here DEF Holds, Core, Healthy
<1>3. Sound(x, Top)
  BY <1>1, <1>2, BornBooks DEF Sound
<1> QED BY <1>1, <1>3, CreateSounds

\* The counters are right when a thread is about to wait.
LEMMA WaitsSounds ==
    ASSUME NEW m, NEW tl, NEW kl, Holds(m, tl, kl), Sound(m, Top), NEW t \in Threads,
           NEW w \in Waitees \cup {None}, NEW k, k = [m EXCEPT !.waits[t] = w]
    PROVE  Sound(k, Top)
<1>1. m \in Machine
  BY DEF Holds, WellRun
<1>2. PICK f : f = [m.waits EXCEPT ![t] = w]
  OBVIOUS
<1>3. k = [m EXCEPT !.waits = f]
  BY <1>1, <1>2 DEF Machine
<1>4. Agree(m, k, Quiet)
  BY <1>1, <1>3 DEF Machine, Agree, Fields, Quiet
<1> QED BY <1>4, QuietTallies

\* The counters are right after Space.choose.
LEMMA ChooseSounds ==
    ASSUME NEW m, NEW tl, NEW kl, Holds(m, tl, kl), Sound(m, Top), NEW t \in Threads,
           NEW s \in SubSpaces, NEW k, k = WithChoice(m, t, s)
    PROVE  Sound(k, Top)
<1>1. m \in Machine
  BY DEF Holds, WellRun
<1>2. PICK d, c, f : d = [m.distributor EXCEPT ![s] = TRUE] /\ c = [m.chosen EXCEPT ![s] = FALSE]
                     /\ f = [m.waits EXCEPT ![t] = ChoiceVar(s)]
  OBVIOUS
<1>3. k = [m EXCEPT !.distributor = d, !.chosen = c, !.waits = f]
  BY <1>1, <1>2 DEF Machine, WithChoice
<1>4. Agree(m, k, Quiet)
  BY <1>1, <1>3, ZenonT(60) DEF Machine, Agree, Fields, Quiet
<1> QED BY <1>4, QuietTallies

\* The counters are right when a UnifyThread has been posted.
LEMMA CommitSounds ==
    ASSUME NEW m, NEW tl, NEW kl, Holds(m, tl, kl), Sound(m, Top), NEW s \in SubSpaces,
           m.status[s] = "normal", NEW h, h = FreeHelper(m),
           NEW k, k = Unanswered(Resume(New(m, h, "unify", s), h), s)
    PROVE  Sound(k, Top)
<1>1. WellRun(m) /\ h \in Helpers /\ h \in Threads
  BY FreeHelperIsHelper, Sets DEF Holds
<1>2. s \in Below(m) /\ s \in Created(m) /\ s # Top
  BY Sets, SpacesAssumption DEF Below, Standing, Created
<1>3. PICK m1 : m1 = New(m, h, "unify", s)
  OBVIOUS
<1>4. Murmur(m, m1) /\ m1.at[h] = s /\ h \notin m1.terminated /\ s # None
  BY <1>1, <1>2, <1>3, NewMurmurs
<1>5. PICK m2 : m2 = Resume(m1, h)
  OBVIOUS
<1>6. Murmur(m1, m2)
  BY <1>1, <1>4, <1>5, ResumeMurmurs DEF Murmur
<1>7. m2 \in Machine
  BY <1>6 DEF Murmur, WellRun
<1>8. Sound(m2, Top)
  <2>1. m2 = Resume(New(m, h, "unify", s), h)
    BY <1>3, <1>5
  <2> QED BY <1>1, <1>2, <2>1, PostTallies
<1>9. PICK d, a : d = [m2.distributor EXCEPT ![s] = FALSE] /\ a = [m2.answer EXCEPT ![s] = "unbound"]
  OBVIOUS
<1>10. k = [m2 EXCEPT !.distributor = d, !.answer = a]
  BY <1>3, <1>5, <1>7, <1>9 DEF Machine, Unanswered
<1>11. Agree(m2, k, Quiet)
  BY <1>7, <1>10, ZenonT(60) DEF Machine, Agree, Fields, Quiet
<1> QED BY <1>8, <1>11, QuietTallies

\* The counters are right when a space has been killed.
LEMMA KillSounds ==
    ASSUME NEW m, NEW tl, NEW kl, Holds(m, tl, kl), Healthy(m), NEW s \in SubSpaces,
           m.status[s] = "normal", m.space = Top, Parent(m, s) = Top,
           NEW x, x = Dec(Condemned(m, s), m.space),
           NEW y, y \in {x, WakeUpPendings(x, StatusVar(s))},
           NEW k, k = TellFailed(y, s)
    PROVE  Sound(k, Top)
<1>1. /\ m \in Machine /\ WellRun(m) /\ s \in Below(m) /\ s # Top /\ s \in Spaces
      /\ StatusVar(s) \in Waitees
  BY Sets, SpacesAssumption DEF Holds, WellRun, Below, Standing, Created
<1>2. PICK st, an : st = [m.status EXCEPT ![s] = "failed"] /\ an = [m.answer EXCEPT ![s] = "unbound"]
  OBVIOUS
<1>3. /\ st \in [Spaces -> {"none", "normal", "failed", "merged"}] /\ an \in [SubSpaces -> Answers]
  BY <1>1, <1>2 DEF Machine, Answers
<1>4. PICK m1 : m1 = [m EXCEPT !.status = st, !.answer = an]
  OBVIOUS
<1>5. m1 \in Machine /\ Agree(m, m1, {"status", "answer"}) /\ m1.status = st
  BY <1>1, <1>3, <1>4 DEF Machine, Agree, Fields
<1>6. Agree(m, m1, Silent \cup {"status"}) /\ m1.status = [m.status EXCEPT ![s] = "failed"]
  BY <1>2, <1>5 DEF Agree, Silent
<1>7. WellRun(m1) /\ Steady(m, m1)
  BY <1>1, <1>5, <1>6, CondemnSteady
<1>8. s \in Live(m)
  <2>1. PICK rank : Ranked(m, rank)
    BY <1>1 DEF WellRun, Tree
  <2>2. Path(m, Top) = {Top} /\ m.status[Top] = "normal"
    BY <1>1, <2>1, PathFacts, TopIsReal DEF Ranked
  <2>3. Path(m, s) = {s} \cup Path(m, Top)
    BY <1>1, OverParent
  <2> QED BY <2>2, <2>3 DEF Live, IsAlive
<1>9. Books(m1, Top)
  <2>1. Agree(m, m1, Quiet \cup {"status"})
    BY <1>5 DEF Agree, Quiet
  <2>2. Books(m, Top) /\ Counted(m, s)
    BY DEF Healthy, Counted
  <2>3. Steady(m, m1) /\ m1 \in Machine /\ m1.status = [m.status EXCEPT ![s] = "failed"]
    BY <1>5, <1>6, <1>7
  <2>4. Books(m1, Parent(m, s))
    BY <1>1, <1>8, <2>1, <2>2, <2>3, CondemnBooks
  <2> QED BY <2>4
<1>10. m1.space = m.space
  BY <1>5 DEF Agree, Fields
<1>11. Top \in Standing(m1)
  BY <1>7, TopIsReal
<1>12. x = Dec(m1, Top)
  BY <1>2, <1>4 DEF Condemned
<1>13. Murmur(m1, x) /\ (Top \in Live(m1) \cup {Top} /\ Sound(m1, Top) => Sound(x, Top))
  BY <1>7, <1>11, <1>12, DecMurmurs
<1>14. Sound(x, Top) /\ WellRun(x)
  BY <1>9, <1>13 DEF Sound, Murmur
<1>15. Murmur(x, y) /\ Tallies(x, y)
  BY <1>1, <1>14, MurmurSelf, TalliesSelf, WakeUpPendingsMurmurs
<1>16. y \in Machine /\ Sound(y, Top)
  BY <1>14, <1>15 DEF Tallies, Murmur, WellRun
<1>17. PICK a : a = [y.answer EXCEPT ![s] = "failed"]
  OBVIOUS
<1>18. k = [y EXCEPT !.answer = a]
  BY <1>16, <1>17 DEF Machine, TellFailed
<1>19. Agree(y, k, Quiet)
  BY <1>16, <1>18 DEF Machine, Agree, Fields, Quiet
<1> QED BY <1>16, <1>19, QuietTallies

\* The counters are right when a constraint has been told.
LEMMA TellSounds ==
    ASSUME NEW m, NEW tl, NEW kl, Holds(m, tl, kl), Healthy(m), m.running # None,
           NEW v \in Vars, NEW x \in Values,
           NEW s, s = m.space, s = Top => ~Conflicts(m, <<v, x>>),
           NEW k, k = IF Conflicts(m, <<v, x>>) THEN [Fail(m, s) EXCEPT !.running = None]
                      ELSE IF m.bound[v] = x THEN m
                      ELSE Bind(m, v, x)
    PROVE  Sound(k, Top)
<1>1. WellRun(m) /\ RunsHere(m)
  BY DEF Holds
<1>2. PICK g : g = Past(tl, kl, m)
  OBVIOUS
<1>3. g \in Histories /\ Core(m, g, None)
  BY <1>2 DEF Holds
<1>4. PICK c \in Vars \X Values : c = <<v, x>> /\ c[1] = v /\ c[2] = x
  OBVIOUS
<1>5. PICK g2 : g2 = [g EXCEPT !.told[s] = @ \cup {c}]
  OBVIOUS
<1>6. PICK C \in SUBSET (Vars \X Values) : C = {c}
  BY <1>4
<1>7. /\ g2 \in Histories /\ Core(m, g2, s)
      /\ \A r \in Spaces : g2.told[r] = IF r = s THEN g.told[s] \cup {c} ELSE g.told[r]
  <2>1. TellsMore(g, g2, s, C)
    BY <1>5, <1>6 DEF TellsMore
  <2>2. g2 \in Histories /\ Core(m, g2, s) /\ GrowsBy(g, g2, s, C)
    BY <1>1, <1>3, <2>1, ToldCore
  <2> QED BY <1>6, <2>2 DEF GrowsBy
<1>9. /\ s \in Spaces /\ s \in Current(m) /\ Installed(m, None) /\ Bindings(m, g)
      /\ Visible(m, g, None) /\ None \notin Current(m)
  <2>1. Installed(m, None) /\ Bindings(m, g) /\ Visible(m, g, None)
    BY <1>3 DEF Core
  <2> QED BY <1>1, <2>1, Here
<1>10. c \in g2.told[s] /\ g.told[s] \subseteq Vars \X Values
  BY <1>3, <1>7, <1>9 DEF Histories
<1>11. Sound(m, Top)
  BY HealthyFacts
<1>13. CASE Conflicts(m, c)
  <2>1. s # Top
    BY <1>4, <1>13
  <2>2. Contradict(g2, Current(m))
    BY <1>1, <1>7, <1>9, <1>10, <1>13, ConflictContradicts
  <2>3. PICK f : f = Fail(m, s)
    OBVIOUS
  <2>4. Fails(m, s)
    <3>1. PICK t \in m.runnable : t = m.running
      BY HealthyFacts
    <3>2. SpaceOf(m, t) = s
      BY <1>1, <3>1 DEF RunsHere
    <3>3. s \in SubSpaces
      BY <1>9, <2>1 DEF Spaces
    <3>4. s \in Live(m)
      BY <1>3, <3>3, CurrentLive
    <3>5. t \in Ready(m, s)
      BY <3>2 DEF Ready
    <3>6. s \in Path(m, s)
      BY <1>9 DEF Current
    <3>7. Called(m, s)
      BY <3>4, <3>5, <3>6 DEF Called
    <3> QED BY <3>7, HealthyFacts DEF Fails, Counted
  <2>5. Sound(f, Top) /\ Stays(m, f) /\ Steady(m, f) /\ WellRun(f)
    BY <1>1, <1>7, <2>1, <2>2, <2>3, <2>4, FailKeeps
  <2>6. k = [f EXCEPT !.running = None]
    BY <1>4, <1>13, <2>3
  <2>7. Agree(f, k, {"running"}) /\ k.running = None
    BY <2>5, <2>6 DEF WellRun, Machine, Agree, Fields
  <2>8. Agree(f, k, {"running"})
    BY <2>7
  <2>9. k.running \in f.runnable \cup {None}
    BY <2>7
  <2> QED BY <2>5, <2>8, <2>9, RunningSounds
<1>14. CASE ~Conflicts(m, c) /\ m.bound[v] = x
  <2>1. k = m
    BY <1>4, <1>14
  <2> QED BY <1>11, <2>1
<1>15. CASE ~Conflicts(m, c) /\ m.bound[v] # x
  <2>1. m.bound[v] = None
    BY <1>4, <1>15 DEF Conflicts
  <2>2. Tellable(m, g2, s, v, x)
    BY <1>4, <1>10, <2>1 DEF Tellable
  <2>3. PICK y : y = Bind(m, v, x)
    OBVIOUS
  <2>4. v \in Store
    BY Sets
  <2>5. Tallies(m, y)
    BY <1>1, <1>7, <2>2, <2>3, <2>4, BindKeeps
  <2>6. k = y
    BY <1>4, <1>15, <2>3
  <2> QED BY <1>11, <2>5, <2>6 DEF Tallies
<1> QED BY <1>13, <1>14, <1>15

\* The counters are right when a thread has been made in the current space.
LEMMA SpawnSounds ==
    ASSUME NEW m, NEW tl, NEW kl, Holds(m, tl, kl), Sound(m, Top),
           NEW e \in Extras, m.kind[<<"extra", e>>] = "none",
           NEW k, k = Create(m, <<"extra", e>>, m.space)
    PROVE  Sound(k, Top)
<1>1. m.space \in Created(m)
  BY Here DEF Holds, Core, Standing
<1>2. PICK t : t = <<"extra", e>>
  OBVIOUS
<1>3. Startable(m, t)
  BY <1>2 DEF Startable, OzThreads, Root
<1>4. k = Create(m, t, m.space)
  BY <1>2
<1> QED BY <1>1, <1>3, <1>4, CreateSounds

\* The counters are right when a thread is preempted.
LEMMA PreemptSounds ==
    ASSUME NEW m, NEW tl, NEW kl, Holds(m, tl, kl), Sound(m, Top), NEW k, k = [m EXCEPT !.running = None]
    PROVE  Sound(k, Top)
<1>1. m \in Machine
  BY DEF Holds, WellRun
<1>2. Agree(m, k, {"running"}) /\ k.running = None
  BY <1>1 DEF Machine, Agree, Fields
<1> QED BY <1>2, RunningSounds

-----------------------------------------------------------------------------
(* The theorems *)

\* At first there is the top-level space, and its thread.
LEMMA InitRuns == ASSUME Init PROVE WellRun(vm) /\ Created(vm) = {Top} /\ Current(vm) = {Top}
<1>1. vm \in Machine
  <2>1. /\ Top \in Spaces /\ None \notin Spaces /\ Root(Top) \in OzThreads /\ Root(Top) \in Threads
    BY Sets
  <2>2. << >> \in Seq(Store) /\ << >> \in Seq(Pairs)
    OBVIOUS
  <2> QED BY <2>1, <2>2 DEF Init, Machine, Answers
<1>2. /\ \A s \in Spaces : vm.status[s] = IF s = Top THEN "normal" ELSE "none"
      /\ vm.space = Top /\ Top \in Spaces
  BY Sets DEF Init
<1>3. Created(vm) = {Top}
  BY <1>2 DEF Created
<1>4. PICK rank : rank = [s \in Spaces |-> 0]
  OBVIOUS
<1>5. Ranked(vm, rank)
  <2>1. Cardinality({Top} \ {Top}) \in Nat
    <3>1. {Top} \ {Top} = {}
      OBVIOUS
    <3> QED BY <3>1, FS_EmptySet
  <2> QED BY <1>2, <1>3, <1>4, <2>1 DEF Ranked
<1>6. Placed(vm)
  <2>1. \A t \in Threads : vm.at[t] = IF t = Root(Top) THEN Top ELSE None
    BY DEF Init
  <2>2. vm.runnable = {Root(Top)} /\ \A w \in Waitees : vm.pendings[w] = {}
    BY DEF Init
  <2>3. \A t \in Helpers : t \in Threads /\ t # Root(Top)
    BY Sets
  <2>4. Root(Top) \in Threads /\ Top # None
    BY Sets
  <2> QED BY <1>3, <2>1, <2>2, <2>3, <2>4 DEF Placed
<1>7. Lively(vm)
  <2>1. \A t \in Threads : /\ vm.at[t] = IF t = Root(Top) THEN Top ELSE None
                           /\ vm.kind[t] = IF t = Root(Top) THEN "oz" ELSE "none"
    BY DEF Init
  <2>2. vm.terminated = {} /\ vm.running = None
    BY DEF Init
  <2>3. \A s \in SubSpaces : Root(s) \in Threads /\ Root(s) # Root(Top)
    BY Sets, SpacesAssumption DEF Root
  <2> QED BY <2>1, <2>2, <2>3, Sets DEF Lively
<1>8. WellRun(vm)
  BY <1>1, <1>5, <1>6, <1>7 DEF WellRun, Tree
<1>9. Top \in Standing(vm)
  BY <1>2, <1>3 DEF Standing
<1>10. Path(vm, Top) = {Top}
  BY <1>5, <1>9, PathFacts
<1> QED BY <1>2, <1>3, <1>8, <1>10 DEF Current

\* Init: nothing has been told.
LEMMA InitHolds == ASSUME "optimized" \notin Liberties, Init PROVE IInv
<1>1. WellRun(vm) /\ Created(vm) = {Top} /\ Current(vm) = {Top}
  BY InitRuns
<1>2. PICK g : g = Past(told, killed, vm)
  OBVIOUS
<1>3. /\ g.told = [s \in Spaces |-> {}] /\ g.killed = {} /\ g.ended = {}
  BY <1>2 DEF Init, Past
<1>4. g \in Histories
  BY <1>2, <1>3 DEF Past, Histories
<1>5. /\ vm.status = [s \in Spaces |-> IF s = Top THEN "normal" ELSE "none"]
      /\ vm.space = Top /\ vm.running = None
      /\ vm.trail = [s \in SubSpaces |-> << >>] /\ vm.script = [s \in SubSpaces |-> << >>]
  BY DEF Init
<1>6. /\ vm.bound = [v \in Store |-> None] /\ vm.home = [v \in Store |-> Top]
      /\ vm.optimized = [v \in Store |-> v \notin Vars \/ "optimized" \in Liberties]
  BY DEF Init
<1>7. Homes(vm)
  BY <1>6, Sets DEF Homes
<1>8. Installed(vm, None)
  BY <1>1, <1>5, Sets DEF Installed
<1>9. \A s \in SubSpaces : ToSet(vm.trail[s]) = {} /\ ToSet(vm.script[s]) = {}
  BY <1>5, ToSetFacts
<1>10. Trails(vm, g) /\ Scripts(vm, g)
  BY <1>9 DEF Trails, Scripts
<1>11. Bindings(vm, g)
  BY <1>6, Sets DEF Bindings
<1>12. Visible(vm, g, None)
  BY <1>1, <1>3, Sets DEF Visible
<1>13. Hidden(vm, g) /\ Failures(vm, g) /\ Unborn(vm, g)
  BY <1>3, <1>5, Sets, SpacesAssumption DEF Hidden, Failures, Unborn
<1>14. Core(vm, g, None)
  BY <1>7, <1>8, <1>10, <1>11, <1>12, <1>13 DEF Core
<1>15. RunsHere(vm)
  BY <1>5 DEF RunsHere
<1> QED BY <1>1, <1>2, <1>4, <1>14, <1>15 DEF IInv, Holds

\* Every action keeps the invariant.
LEMMA StepHolds == ASSUME IInv, [Next]_vars PROVE IInv'
<1>1. Holds(vm, told, killed) /\ vm \in Machine /\ RunsHere(vm) /\ WellRun(vm)
  BY DEF IInv, Holds, WellRun
<1> SUFFICES Holds(vm', told', killed')
  BY DEF IInv
<1>2. ASSUME NEW t \in OzThreads, vm.running = t
      PROVE  /\ t \in Threads /\ t # None /\ vm.at[t] # None /\ t \notin vm.terminated
             /\ SpaceOf(vm, t) = vm.space
  <2>1. t # None
    BY Sets
  <2> QED BY <1>1, <1>2, <2>1, RunningFacts DEF RunsHere
<1>3. CASE UNCHANGED vars
  BY <1>1, <1>3 DEF vars
<1>4. CASE Idle
  BY <1>1, <1>4, IdleHolds DEF Idle
<1>5. CASE Preempt
  BY <1>1, <1>5, PreemptHolds DEF Preempt
<1>6. ASSUME NEW t \in Threads, Dispatch(t) PROVE Holds(vm', told', killed')
  BY <1>1, <1>6, DispatchHolds DEF Dispatch
<1>7. ASSUME NEW t \in OzThreads, NEW v \in Vars, NEW x \in Values, Tell(t, v, x)
      PROVE  Holds(vm', told', killed')
  BY <1>1, <1>7, TellHolds DEF Tell
<1>8. ASSUME NEW t \in OzThreads, NEW w \in Waitees, Need(t, w) PROVE Holds(vm', told', killed')
  BY <1>1, <1>8, Sets, WaitsHolds DEF Need
<1>9. ASSUME NEW t \in OzThreads, Wait(t) PROVE Holds(vm', told', killed')
  <2>1. PICK w : w = vm.waits[t]
    OBVIOUS
  <2>2. /\ vm.running = t /\ w # None /\ told' = told /\ killed' = killed
        /\ \/ vm' = [vm EXCEPT !.waits[t] = None]
           \/ vm' = AddToSuspendList(Suspend(vm, t), w, t)
    BY <1>9, <2>1 DEF Wait
  <2>3. t \in Threads /\ vm.at[t] # None
    BY <1>2, <2>2
  <2>4. w \in Waitees
    BY <1>1, <2>1, <2>2, <2>3 DEF Machine
  <2>5. CASE vm' = [vm EXCEPT !.waits[t] = None]
    BY <1>1, <2>2, <2>3, <2>5, WaitsHolds
  <2>6. CASE vm' = AddToSuspendList(Suspend(vm, t), w, t)
    BY <1>1, <2>2, <2>3, <2>4, <2>6, SuspendHolds
  <2> QED BY <2>2, <2>5, <2>6
<1>10. ASSUME NEW t \in OzThreads, Exit(t) PROVE Holds(vm', told', killed')
  <2>1. vm.running = t /\ vm' = Terminate(vm, t) /\ told' = told /\ killed' = killed
    BY <1>10 DEF Exit, Executes
  <2>2. t \in Threads /\ vm.at[t] # None /\ t \notin vm.terminated /\ SpaceOf(vm, t) = vm.space
    BY <1>2, <2>1
  <2> QED BY <1>1, <2>1, <2>2, ExitHolds
<1>11. ASSUME NEW t \in OzThreads, Choose(t) PROVE Holds(vm', told', killed')
  <2>1. PICK s : s = vm.space
    OBVIOUS
  <2>2. /\ vm.running = t /\ s # Top /\ told' = told /\ killed' = killed
        /\ vm' = WithChoice(vm, t, s)
    BY <1>11, <2>1 DEF Choose, Executes, WithChoice
  <2>3. t \in Threads
    BY <1>2, <2>2
  <2>4. s \in SubSpaces
    BY <1>1, <2>1, <2>2 DEF Machine, Spaces
  <2> QED BY <1>1, <2>2, <2>3, <2>4, ChooseHolds
<1>12. ASSUME NEW t \in OzThreads, NEW e \in Extras, Spawn(t, e) PROVE Holds(vm', told', killed')
  BY <1>1, <1>12, SpawnHolds DEF Spawn
<1>13. ASSUME NEW t \in OzThreads, NEW s \in SubSpaces, NewSpace(t, s) PROVE Holds(vm', told', killed')
  <2>1. PICK x : x = Newborn(vm, s)
    OBVIOUS
  <2>2. vm.status[s] = "none" /\ vm' = Create(x, Root(s), s) /\ told' = told /\ killed' = killed
    BY <1>13, <2>1 DEF NewSpace, Newborn
  <2> QED BY <1>1, <2>1, <2>2, NewSpaceHolds
<1>14. ASSUME NEW t \in OzThreads, NEW s \in SubSpaces, Commit(t, s) PROVE Holds(vm', told', killed')
  <2>1. PICK h : h = FreeHelper(vm)
    OBVIOUS
  <2>2. /\ vm.status[s] = "normal" /\ told' = told /\ killed' = killed
        /\ vm' = Unanswered(Resume(New(vm, h, "unify", s), h), s)
    BY <1>14, <2>1 DEF Commit, Unanswered
  <2> QED BY <1>1, <2>1, <2>2, CommitHolds
<1>15. ASSUME NEW t \in OzThreads, NEW s \in SubSpaces, Kill(t, s) PROVE Holds(vm', told', killed')
  <2>1. PICK x : x = Dec(Condemned(vm, s), vm.space)
    OBVIOUS
  <2>2. PICK y : y = IF CanAnswer(vm, s) THEN WakeUpPendings(x, StatusVar(s)) ELSE x
    OBVIOUS
  <2>3. /\ vm.status[s] = "normal" /\ vm.space = Top
        /\ vm' = TellFailed(y, s)
        /\ y \in {x, WakeUpPendings(x, StatusVar(s))}
        /\ told' = told /\ killed' = killed \cup {s}
    BY <1>15, <2>1, <2>2 DEF Kill, Condemned, TellFailed
  <2> QED BY <1>1, <2>1, <2>2, <2>3, KillHolds
<1>16. ASSUME NEW t \in OzThreads, NEW s \in SubSpaces, Merge(t, s) PROVE Holds(vm', told', killed')
  <2>1. HoldsOn(vm, vm', told', killed')
    BY <1>1, <1>16, MergeHolds DEF Merge
  <2> QED BY <2>1 DEF HoldsOn
<1>17. ASSUME NEW t \in OzThreads, NEW v \in Vars, NeedVar(t, v) PROVE Holds(vm', told', killed')
  BY <1>8, <1>17, Sets DEF NeedVar
<1>18. ASSUME NEW t \in OzThreads, NEW s \in SubSpaces, Ask(t, s) PROVE Holds(vm', told', killed')
  BY <1>8, <1>18, Sets DEF Ask
<1> QED BY <1>3, <1>4, <1>5, <1>6, <1>7, <1>9, <1>10, <1>11, <1>12, <1>13, <1>14, <1>15, <1>16,
           <1>17, <1>18 DEF Next

\* What the invariant says of the machine between two actions.
LEMMA IInvSafe == ASSUME IInv PROVE Isolation /\ FailureSound
<1>1. PICK g : g = Past(told, killed, vm)
  OBVIOUS
<1>2. WellRun(vm) /\ g \in Histories /\ Core(vm, g, None) /\ g.told = told /\ g.killed = killed
  BY <1>1 DEF IInv, Holds, Past
<1>3. Installed(vm, None) /\ Visible(vm, g, None) /\ Failures(vm, g)
  BY <1>2 DEF Core
<1>4. Current(vm) \subseteq Spaces /\ None \notin Current(vm)
  BY <1>2, <1>3, Here
<1>5. Isolation
  <2>1. ASSUME NEW c \in Vars \X Values, vm.bound[c[1]] = c[2] PROVE c \in Told(Current(vm))
    <3>1. c[1] \in Vars /\ c[2] \in Values /\ c = <<c[1], c[2]>> /\ vm.bound[c[1]] # None
      BY <2>1, Reserved
    <3>2. PICK a \in Current(vm) : <<c[1], vm.bound[c[1]]>> \in told[a]
      BY <1>2, <3>1, BoundTold
    <3> QED BY <2>1, <3>1, <3>2 DEF Told
  <2>2. ASSUME NEW c \in Told(Current(vm)) PROVE c \in Vars \X Values /\ vm.bound[c[1]] = c[2]
    <3>1. PICK a \in Current(vm) : c \in told[a]
      BY DEF Told
    <3>2. told[a] \subseteq Vars \X Values
      BY <1>2, <1>4, <3>1 DEF Histories
    <3> QED BY <1>2, <1>3, <1>4, <3>1, <3>2 DEF Visible
  <2> QED BY <2>1, <2>2 DEF Isolation, Current
<1>6. FailureSound
  <2> SUFFICES ASSUME NEW s \in SubSpaces, vm.status[s] = "failed"
               PROVE  \/ Path(vm, s) \cap killed # {}
                      \/ \E c, d \in Told(Path(vm, s)) : c[1] = d[1] /\ c[2] # d[2]
    BY DEF FailureSound
  <2>1. CASE Path(vm, s) \cap killed # {}
    BY <2>1
  <2>2. CASE Contradict(g, Path(vm, s))
    <3>1. PICK a \in Path(vm, s), b \in Path(vm, s) :
             \E c \in told[a] : \E d \in told[b] : c[1] = d[1] /\ c[2] # d[2]
      BY <1>2, <2>2 DEF Contradict
    <3>2. PICK c \in told[a] : \E d \in told[b] : c[1] = d[1] /\ c[2] # d[2]
      BY <3>1
    <3>3. PICK d \in told[b] : c[1] = d[1] /\ c[2] # d[2]
      BY <3>2
    <3>4. c \in Told(Path(vm, s)) /\ d \in Told(Path(vm, s))
      BY DEF Told
    <3> QED BY <3>3, <3>4
  <2> QED BY <1>2, <1>3, <2>1, <2>2 DEF Failures
<1> QED BY <1>5, <1>6

\* What can be seen in the current space is what it and the spaces above it were
\* told, in every state of every instance whose variables are not OptVars
\* (bindSubSpace, deinstallThis, installThis, merge).
THEOREM SpacesAreIsolated == "optimized" \notin Liberties => (Spec => []Isolation)
<1> SUFFICES ASSUME "optimized" \notin Liberties PROVE Spec => []Isolation
  OBVIOUS
<1>1. Init => IInv
  BY InitHolds
<1>2. IInv /\ [Next]_vars => IInv'
  BY StepHolds
<1>3. IInv => Isolation
  BY IInvSafe
<1> QED BY <1>1, <1>2, <1>3, PTL DEF Spec

\* A space fails because it, or a space above it, was killed, or because what they were
\* told is contradictory, in every such instance (Space::fail, Space::kill).
THEOREM FailuresHaveReasons == "optimized" \notin Liberties => (Spec => []FailureSound)
<1> SUFFICES ASSUME "optimized" \notin Liberties PROVE Spec => []FailureSound
  OBVIOUS
<1>1. Init => IInv
  BY InitHolds
<1>2. IInv /\ [Next]_vars => IInv'
  BY StepHolds
<1>3. IInv => FailureSound
  BY IInvSafe
<1> QED BY <1>1, <1>2, <1>3, PTL DEF Spec

\* At first nothing is counted.
LEMMA InitSounds == ASSUME Init PROVE Sound(vm, Top)
<1>1. WellRun(vm) /\ Created(vm) = {Top}
  BY InitRuns
<1>2. /\ \A s \in Spaces : vm.status[s] = IF s = Top THEN "normal" ELSE "none"
      /\ \A s \in SubSpaces : vm.count[s] = 0
      /\ \A w \in Waitees : vm.pendings[w] = {}
      /\ \A t \in Threads : vm.kind[t] = IF t = Root(Top) THEN "oz" ELSE "none"
      /\ vm.runnable = {Root(Top)} /\ vm.running = None
  BY DEF Init
<1>3. \A s \in SubSpaces : vm.status[s] = "none"
  BY <1>2, Sets, SpacesAssumption
<1>4. Tallied(vm, Top) /\ Counters(vm)
  BY <1>2, <1>3 DEF Tallied, Live, Counters
<1>5. Queued(vm) /\ Scheduled(vm)
  BY <1>2, Sets DEF Queued, Scheduled
<1> QED BY <1>4, <1>5 DEF Sound, Books

\* Every action keeps the counters right, when there are helpers enough.
LEMMA StepSounds ==
    ASSUME IInv, Sound(vm, Top), HelpersSuffice, [Next]_vars
    PROVE  Sound(vm', Top)
<1>1. Holds(vm, told, killed) /\ vm \in Machine /\ RunsHere(vm) /\ WellRun(vm)
  BY DEF IInv, Holds, WellRun
<1>2. Healthy(vm)
  BY DEF Healthy, Sound, Spent, HelpersSuffice
<1>3. ASSUME NEW t \in OzThreads, vm.running = t
      PROVE  /\ t \in Threads /\ t # None /\ vm.at[t] # None /\ t \notin vm.terminated
             /\ SpaceOf(vm, t) = vm.space /\ t \in vm.runnable /\ t # Spare
  <2>1. t # None
    BY Sets
  <2>2. t \in vm.runnable /\ t # Spare
    BY <1>2, <1>3, <2>1, HealthyFacts
  <2> QED BY <1>1, <1>3, <2>1, <2>2, RunningFacts DEF RunsHere
<1>4. CASE UNCHANGED vars
  BY <1>4 DEF vars
<1>5. CASE Idle
  BY <1>1, <1>5, IdleSounds DEF Idle
<1>6. CASE Preempt
  BY <1>1, <1>6, PreemptSounds DEF Preempt
<1>7. ASSUME NEW t \in Threads, Dispatch(t) PROVE Sound(vm', Top)
  BY <1>1, <1>2, <1>7, DispatchSounds DEF Dispatch
<1>8. ASSUME NEW t \in OzThreads, NEW v \in Vars, NEW x \in Values, Tell(t, v, x)
      PROVE  Sound(vm', Top)
  <2>1. vm.running # None
    BY <1>3, <1>8 DEF Tell, Executes
  <2> QED BY <1>1, <1>2, <1>8, <2>1, TellSounds DEF Tell
<1>9. ASSUME NEW t \in OzThreads, NEW w \in Waitees, Need(t, w) PROVE Sound(vm', Top)
  BY <1>1, <1>9, Sets, WaitsSounds DEF Need
<1>10. ASSUME NEW t \in OzThreads, Wait(t) PROVE Sound(vm', Top)
  <2>1. PICK w : w = vm.waits[t]
    OBVIOUS
  <2>2. /\ vm.running = t /\ w # None
        /\ \/ vm' = [vm EXCEPT !.waits[t] = None]
           \/ vm' = AddToSuspendList(Suspend(vm, t), w, t)
    BY <1>10, <2>1 DEF Wait
  <2>3. t \in Threads /\ t # None
    BY <1>3, <2>2
  <2>4. w \in Waitees
    BY <1>1, <2>1, <2>2, <2>3 DEF Machine
  <2>5. CASE vm' = [vm EXCEPT !.waits[t] = None]
    BY <1>1, <2>3, <2>5, WaitsSounds
  <2>6. CASE vm' = AddToSuspendList(Suspend(vm, t), w, t)
    BY <1>1, <1>2, <2>2, <2>3, <2>4, <2>6, SuspendSounds
  <2> QED BY <2>2, <2>5, <2>6
<1>11. ASSUME NEW t \in OzThreads, Exit(t) PROVE Sound(vm', Top)
  <2>1. vm.running = t /\ vm' = Terminate(vm, t)
    BY <1>11 DEF Exit, Executes
  <2>2. /\ t \in Threads /\ vm.at[t] # None /\ t \notin vm.terminated
        /\ SpaceOf(vm, t) = vm.space /\ t \in vm.runnable /\ t # Spare
    BY <1>3, <2>1
  <2> QED BY <1>1, <2>1, <2>2, ExitSounds
<1>12. ASSUME NEW t \in OzThreads, Choose(t) PROVE Sound(vm', Top)
  <2>1. PICK s : s = vm.space
    OBVIOUS
  <2>2. vm.running = t /\ s # Top /\ vm' = WithChoice(vm, t, s)
    BY <1>12, <2>1 DEF Choose, Executes, WithChoice
  <2>3. t \in Threads
    BY <1>3, <2>2
  <2>4. s \in SubSpaces
    BY <1>1, <2>1, <2>2 DEF Machine, Spaces
  <2> QED BY <1>1, <2>2, <2>3, <2>4, ChooseSounds
<1>13. ASSUME NEW t \in OzThreads, NEW e \in Extras, Spawn(t, e) PROVE Sound(vm', Top)
  BY <1>1, <1>13, SpawnSounds DEF Spawn
<1>14. ASSUME NEW t \in OzThreads, NEW s \in SubSpaces, NewSpace(t, s) PROVE Sound(vm', Top)
  <2>1. PICK x : x = Newborn(vm, s)
    OBVIOUS
  <2>2. vm.status[s] = "none" /\ vm' = Create(x, Root(s), s)
    BY <1>14, <2>1 DEF NewSpace, Newborn
  <2> QED BY <1>1, <1>2, <2>1, <2>2, NewSpaceSounds
<1>15. ASSUME NEW t \in OzThreads, NEW s \in SubSpaces, Commit(t, s) PROVE Sound(vm', Top)
  <2>1. PICK h : h = FreeHelper(vm)
    OBVIOUS
  <2>2. vm.status[s] = "normal" /\ vm' = Unanswered(Resume(New(vm, h, "unify", s), h), s)
    BY <1>15, <2>1 DEF Commit, Unanswered
  <2> QED BY <1>1, <2>1, <2>2, CommitSounds
<1>16. ASSUME NEW t \in OzThreads, NEW s \in SubSpaces, Kill(t, s) PROVE Sound(vm', Top)
  <2>1. PICK x : x = Dec(Condemned(vm, s), vm.space)
    OBVIOUS
  <2>2. PICK y : y = IF CanAnswer(vm, s) THEN WakeUpPendings(x, StatusVar(s)) ELSE x
    OBVIOUS
  <2>3. /\ vm.status[s] = "normal" /\ vm.space = Top /\ Parent(vm, s) = Top
        /\ vm' = TellFailed(y, s)
        /\ y \in {x, WakeUpPendings(x, StatusVar(s))}
    BY <1>16, <2>1, <2>2 DEF Kill, Condemned, TellFailed
  <2> QED BY <1>1, <1>2, <2>1, <2>2, <2>3, KillSounds
<1>17. ASSUME NEW t \in OzThreads, NEW s \in SubSpaces, Merge(t, s) PROVE Sound(vm', Top)
  <2>1. HoldsOn(vm, vm', told', killed')
    BY <1>1, <1>17, MergeHolds DEF Merge
  <2> QED BY <2>1 DEF HoldsOn
<1>18. ASSUME NEW t \in OzThreads, NEW v \in Vars, NeedVar(t, v) PROVE Sound(vm', Top)
  BY <1>9, <1>18, Sets DEF NeedVar
<1>19. ASSUME NEW t \in OzThreads, NEW s \in SubSpaces, Ask(t, s) PROVE Sound(vm', Top)
  BY <1>9, <1>19, Sets DEF Ask
<1> QED BY <1>4, <1>5, <1>6, <1>7, <1>8, <1>10, <1>11, <1>12, <1>13, <1>14, <1>15, <1>16, <1>17,
           <1>18, <1>19 DEF Next

\* The inductive invariant, with the counters and the bound on choices
CInv == IInv /\ Sound(vm, Top) /\ choices \in 0..MaxChoices

\* Only Space.choose adds to the choices.
LEMMA StepChooses ==
    ASSUME choices \in 0..MaxChoices, [Next]_vars
    PROVE  choices' \in 0..MaxChoices
<1>1. ASSUME NEW t \in OzThreads, Choose(t) PROVE choices' \in 0..MaxChoices
  <2>1. choices < MaxChoices /\ choices' = choices + 1
    BY <1>1 DEF Choose
  <2> QED BY <2>1, SpacesAssumption
<1>2. (\E t \in OzThreads : Choose(t)) \/ choices' = choices
  BY DEF Next, vars, Idle, Preempt, Dispatch, Tell, NeedVar, Need, Wait, Exit, Spawn, NewSpace,
         Ask, Commit, Kill, Merge
<1> QED BY <1>1, <1>2

\* What the invariant says of the counters and the machine between two actions.
LEMMA CInvSafe == ASSUME CInv, HelpersSuffice PROVE RunnableCounts /\ TypeOK
<1>1. PICK g : g = Past(told, killed, vm)
  OBVIOUS
<1>2. /\ WellRun(vm) /\ vm \in Machine /\ RunsHere(vm) /\ Lively(vm)
      /\ Installed(vm, None) /\ Bindings(vm, g)
  BY <1>1 DEF CInv, IInv, Holds, Core, WellRun
<1>3. Tallied(vm, Top) /\ Queued(vm) /\ Scheduled(vm)
  BY DEF CInv, Sound, Spent, HelpersSuffice, Books
<1>4. RunnableCounts
  <2> SUFFICES ASSUME NEW s \in SubSpaces, vm.status[s] = "normal", IsAlive(vm, s)
               PROVE  vm.count[s] = Cardinality({t \in vm.runnable : SpaceOf(vm, t) = s})
                                    + Cardinality({c \in Children(s) : vm.count[c] > 0})
    BY DEF RunnableCounts
  <2>1. s \in Live(vm) /\ s # Top
    BY SpacesAssumption DEF Live
  <2>2. {c \in Children(s) : vm.count[c] > 0} = Busy(vm, s)
    BY DEF Children, Busy
  <2>3. vm.count[s] = Due(vm, s) + 0
    BY <1>3, <2>1 DEF Tallied
  <2>4. vm.count[s] = Due(vm, s)
    BY <1>2, <2>3, DueFinite DEF Due
  <2> QED BY <2>2, <2>4 DEF Due, Ready
<1>5. /\ vm.space \in Spaces /\ vm.status[vm.space] = "normal"
      /\ \A v \in Vars : vm.bound[v] \in Values \cup {None}
      /\ vm.running \in vm.runnable \cup {None}
      /\ vm.running # None => SpaceOf(vm, vm.running) = vm.space
      /\ vm.runnable \cap vm.terminated = {}
      /\ choices \in 0..MaxChoices
  BY <1>2, <1>3, Here DEF Installed, Bindings, Scheduled, RunsHere, Lively, CInv
<1>6. ASSUME NEW s \in SubSpaces
      PROVE  /\ vm.status[s] \in {"none", "normal", "failed", "merged"}
             /\ vm.answer[s] \in Answers
             /\ ToSet(vm.trail[s]) \subseteq Store
             /\ vm.trail[s] # << >> => s \in Path(vm, vm.space)
             /\ vm.script[s] # << >> => s \notin Path(vm, vm.space)
  <2>1. vm.status[s] \in {"none", "normal", "failed", "merged"} /\ vm.answer[s] \in Answers
    BY <1>2, Sets DEF Machine
  <2>2. vm.trail[s] \in Seq(Store)
    BY <1>2 DEF Machine
  <2>3. s # None
    BY SpacesAssumption
  <2> QED BY <1>2, <2>1, <2>2, <2>3, ToSetFacts DEF Installed, Current
<1>7. \A w \in Waitees : vm.pendings[w] \cap vm.runnable \subseteq Helpers
  BY <1>2, <1>3 DEF Queued, Machine, Threads
<1> QED BY <1>4, <1>5, <1>6, <1>7 DEF TypeOK, HelpersSuffice

\* The counters are those of the invariant documented at space-decl.hh:371-378, in
\* every state of every such instance, as long as MaxHelpers is enough.
THEOREM CountersAreExact ==
    "optimized" \notin Liberties => (Spec /\ []HelpersSuffice => []RunnableCounts)
<1> SUFFICES ASSUME "optimized" \notin Liberties PROVE Spec /\ []HelpersSuffice => []RunnableCounts
  OBVIOUS
<1>1. Init => CInv
  BY InitHolds, InitSounds, SpacesAssumption DEF CInv, Init
<1>2. CInv /\ HelpersSuffice /\ [Next]_vars => CInv'
  BY StepHolds, StepSounds, StepChooses DEF CInv
<1>3. CInv /\ HelpersSuffice => RunnableCounts
  BY CInvSafe
<1> QED BY <1>1, <1>2, <1>3, PTL DEF Spec

\* The machine is in order between two actions, in every such instance (TypeOK).
THEOREM MachineIsInOrder ==
    "optimized" \notin Liberties => (Spec /\ []HelpersSuffice => []TypeOK)
<1> SUFFICES ASSUME "optimized" \notin Liberties PROVE Spec /\ []HelpersSuffice => []TypeOK
  OBVIOUS
<1>1. Init => CInv
  BY InitHolds, InitSounds, SpacesAssumption DEF CInv, Init
<1>2. CInv /\ HelpersSuffice /\ [Next]_vars => CInv'
  BY StepHolds, StepSounds, StepChooses DEF CInv
<1>3. CInv /\ HelpersSuffice => TypeOK
  BY CInvSafe
<1> QED BY <1>1, <1>2, <1>3, PTL DEF Spec
=============================================================================
