--------------------------- MODULE DataflowProofs ---------------------------
(***************************************************************************)
(* Threads wait rightly, and Dataflow implements DataflowStore, for any    *)
(* number of threads, nodes and injected exceptions.                       *)
(*                                                                         *)
(* The first part says what the operators of Dataflow on stores do, for    *)
(* every store that is in order.  Dereferencing is treated through its     *)
(* equations: a store whose references do not run in circles has one       *)
(* solution of them (Redirect), and each operation is described by what it *)
(* does to that solution and to the suspension lists (Evolves).            *)
(*                                                                         *)
(* The second part is about any store, also one with a circle of           *)
(* references (Loop): no step takes a reference away (Stays), so a circle  *)
(* stays, and binding a variable to a read-only view of itself makes one   *)
(* (BindOwnView).  The third part shows that every other step keeps the    *)
(* inductive invariant (IInv): a program is in order for as long as        *)
(* dereferencing ends (JInv).                                              *)
(***************************************************************************)
EXTENDS Dataflow, Induction, FiniteSetTheorems

-----------------------------------------------------------------------------
(* Dereferencing *)

\* References lead from the program's nodes to nodes, and never in circles.
Linked(s) ==
    \A n \in AllNodes : s.kind[n] = "Reference" => n \in Nodes /\ s.link[n] \in AllNodes

\* Every reference leads to a node of lower rank.
Ranks(s, rank) ==
    /\ rank \in [AllNodes -> Nat]
    /\ \A n \in AllNodes : s.kind[n] = "Reference" => rank[s.link[n]] < rank[n]

\* No chain of references comes back to where it was.
Acyclic(s) == Linked(s) /\ \E rank : Ranks(s, rank)

\* The iterations of dereferenceLoop exist, in a set of nodes that they do not leave.
LEMMA ChainSteps ==
    ASSUME NEW s, NEW N, NEW n \in N, \A c \in N : Follow(s, c) \in N
    PROVE  /\ Chain(s, n) \in [0..MaxNodes -> N]
           /\ Chain(s, n)[0] = n
           /\ \A k \in 1..MaxNodes : Chain(s, n)[k] = Follow(s, Chain(s, n)[k - 1])
<1>1. PICK S : S = {k \in Nat : \E f \in [0..k -> N] :
                       f[0] = n /\ \A i \in 1..k : f[i] = Follow(s, f[i - 1])}
  OBVIOUS
<1>2. \A c \in N : Follow(s, c) \in N
  OBVIOUS
<1>3. 0 \in S
  <2>1. PICK f : f = [i \in 0..0 |-> n]
    OBVIOUS
  <2>2. f \in [0..0 -> N] /\ f[0] = n /\ \A i \in 1..0 : f[i] = Follow(s, f[i - 1])
    BY <2>1
  <2> QED BY <1>1, <2>2
<1>4. ASSUME NEW k \in Nat, k \in S PROVE k + 1 \in S
  <2>1. PICK f \in [0..k -> N] :
             f[0] = n /\ \A i \in 1..k : f[i] = Follow(s, f[i - 1])
    BY <1>1, <1>4
  <2>2. PICK g : g = [i \in 0..(k + 1) |-> IF i = k + 1 THEN Follow(s, f[k]) ELSE f[i]]
    OBVIOUS
  <2>3. g \in [0..(k + 1) -> N]
    BY <1>2, <2>2
  <2>4. g[0] = n
    BY <2>1, <2>2
  <2>5. ASSUME NEW i \in 1..(k + 1) PROVE g[i] = Follow(s, g[i - 1])
    BY <2>1, <2>2
  <2> QED BY <1>1, <2>3, <2>4, <2>5
<1>5. MaxNodes \in S
  BY <1>1, <1>3, <1>4, SetInduction, DataflowAssumption
<1>6. PICK f \in [0..MaxNodes -> N] :
             f[0] = n /\ \A i \in 1..MaxNodes : f[i] = Follow(s, f[i - 1])
  BY <1>1, <1>5
<1>7. f = [k \in 0..MaxNodes |-> IF k = 0 THEN n ELSE Follow(s, f[k - 1])]
  BY <1>6, DataflowAssumption
<1>8. Chain(s, n) = [k \in 0..MaxNodes |-> IF k = 0 THEN n ELSE Follow(s, Chain(s, n)[k - 1])]
  BY <1>7 DEF Chain
<1>9. PICK g : g = Chain(s, n)
  OBVIOUS
<1>10. g = [k \in 0..MaxNodes |-> IF k = 0 THEN n ELSE Follow(s, g[k - 1])]
  BY <1>8, <1>9
<1>11. g[0] = n /\ \A k \in 1..MaxNodes : g[k] = Follow(s, g[k - 1])
  BY <1>10, DataflowAssumption
<1>12. PICK T : T = {k \in Nat : k \in 0..MaxNodes => g[k] \in N}
  OBVIOUS
<1>13. 0 \in T /\ \A k \in Nat : k \in T => k + 1 \in T
  BY <1>2, <1>11, <1>12, DataflowAssumption
<1>14. \A k \in 0..MaxNodes : g[k] \in N
  BY <1>12, <1>13, SetInduction
<1>15. g \in [0..MaxNodes -> N]
  BY <1>10, <1>14
<1> QED BY <1>9, <1>11, <1>15

\* In particular among all nodes.
LEMMA ChainStays ==
    ASSUME NEW s, NEW n \in AllNodes, Linked(s)
    PROVE  /\ Chain(s, n) \in [0..MaxNodes -> AllNodes]
           /\ Chain(s, n)[0] = n
           /\ \A k \in 1..MaxNodes : Chain(s, n)[k] = Follow(s, Chain(s, n)[k - 1])
<1>1. \A c \in AllNodes : Follow(s, c) \in AllNodes
  BY DEF Follow, Linked
<1> QED BY <1>1, ChainSteps

\* A chain visits no node twice, so it leaves the program's nodes in time.
LEMMA ChainEnds ==
    ASSUME NEW s, NEW n \in AllNodes, Acyclic(s)
    PROVE  s.kind[Chain(s, n)[MaxNodes]] # "Reference"
<1> SUFFICES ASSUME s.kind[Chain(s, n)[MaxNodes]] = "Reference" PROVE FALSE
  OBVIOUS
<1>1. MaxNodes \in Nat
  BY DataflowAssumption
<1>2. Linked(s)
  BY DEF Acyclic
<1>3. PICK rank : Ranks(s, rank)
  BY DEF Acyclic
<1>4. PICK c : c = Chain(s, n)
  OBVIOUS
<1>5. /\ c \in [0..MaxNodes -> AllNodes]
      /\ \A k \in 1..MaxNodes : c[k] = Follow(s, c[k - 1])
      /\ s.kind[c[MaxNodes]] = "Reference"
  BY <1>2, <1>4, ChainStays
<1>6. \A k \in 0..MaxNodes : s.kind[c[k]] = "Reference"
  <2>1. PICK S : S = {j \in Nat : j <= MaxNodes => s.kind[c[MaxNodes - j]] = "Reference"}
    OBVIOUS
  <2>2. 0 \in S
    BY <1>1, <1>5, <2>1
  <2>3. ASSUME NEW j \in Nat, j \in S PROVE j + 1 \in S
    <3> SUFFICES ASSUME j + 1 <= MaxNodes
                 PROVE  s.kind[c[MaxNodes - (j + 1)]] = "Reference"
      BY <2>1
    <3>1. s.kind[c[MaxNodes - j]] = "Reference"
      BY <1>1, <2>1, <2>3
    <3>2. MaxNodes - j \in 1..MaxNodes /\ (MaxNodes - j) - 1 = MaxNodes - (j + 1)
      BY <1>1
    <3>3. c[MaxNodes - j] = Follow(s, c[MaxNodes - (j + 1)])
      BY <1>5, <3>2
    <3> QED BY <3>1, <3>3 DEF Follow
  <2>4. \A j \in Nat : j \in S
    BY <2>1, <2>2, <2>3, SetInduction
  <2>5. ASSUME NEW k \in 0..MaxNodes PROVE s.kind[c[k]] = "Reference"
    <3>1. MaxNodes - k \in Nat /\ MaxNodes - k <= MaxNodes /\ MaxNodes - (MaxNodes - k) = k
      BY <1>1
    <3> QED BY <2>1, <2>4, <3>1
  <2> QED BY <2>5
<1>7. \A k \in 1..MaxNodes : rank[c[k]] < rank[c[k - 1]]
  <2>1. ASSUME NEW k \in 1..MaxNodes PROVE rank[c[k]] < rank[c[k - 1]]
    <3>1. k - 1 \in 0..MaxNodes
      BY <1>1
    <3>2. c[k - 1] \in AllNodes /\ s.kind[c[k - 1]] = "Reference"
      BY <1>5, <1>6, <3>1
    <3>3. c[k] = s.link[c[k - 1]]
      BY <1>5, <3>2 DEF Follow
    <3> QED BY <1>3, <3>2, <3>3 DEF Ranks
  <2> QED BY <2>1
<1>8. \A k \in 0..MaxNodes : rank[c[k]] \in Nat
  BY <1>3, <1>5 DEF Ranks
<1>9. \A j \in 0..MaxNodes : \A i \in 0..(j - 1) : rank[c[j]] < rank[c[i]]
  <2>1. PICK S : S = {j \in Nat : j <= MaxNodes =>
                         \A i \in 0..(j - 1) : rank[c[j]] < rank[c[i]]}
    OBVIOUS
  <2>2. 0 \in S
    BY <2>1
  <2>3. ASSUME NEW j \in Nat, j \in S PROVE j + 1 \in S
    <3> SUFFICES ASSUME j + 1 <= MaxNodes, NEW i \in 0..j
                 PROVE  rank[c[j + 1]] < rank[c[i]]
      BY <2>1
    <3>1. rank[c[j + 1]] < rank[c[j]]
      <4>1. j + 1 \in 1..MaxNodes /\ (j + 1) - 1 = j
        BY <1>1
      <4> QED BY <1>7, <4>1
    <3>2. i # j => rank[c[j]] < rank[c[i]]
      BY <1>1, <2>1, <2>3
    <3>3. rank[c[i]] \in Nat /\ rank[c[j]] \in Nat /\ rank[c[j + 1]] \in Nat
      BY <1>1, <1>8
    <3> QED BY <3>1, <3>2, <3>3
  <2>4. \A j \in Nat : j \in S
    BY <2>1, <2>2, <2>3, SetInduction
  <2> QED BY <1>1, <2>1, <2>4
<1>10. \A i, j \in 0..MaxNodes : c[i] = c[j] => i = j
  BY <1>1, <1>8, <1>9
<1>11. \A k \in 0..MaxNodes : \E i \in 1..MaxNodes : c[k] = <<"node", i>>
  BY <1>2, <1>5, <1>6 DEF Linked, Nodes
<1>12. PICK f : f = [k \in 0..MaxNodes |-> CHOOSE i \in 1..MaxNodes : c[k] = <<"node", i>>]
  OBVIOUS
<1>13. \A k \in 0..MaxNodes : f[k] \in 1..MaxNodes /\ c[k] = <<"node", f[k]>>
  BY <1>11, <1>12
<1>14. f \in [0..MaxNodes -> 1..MaxNodes]
  BY <1>12, <1>13
<1>15. PICK A, B : A = 0..MaxNodes /\ B = 1..MaxNodes
  OBVIOUS
<1>16. IsFiniteSet(A) /\ IsFiniteSet(B) /\ Cardinality(B) < Cardinality(A)
  BY <1>1, <1>15, FS_Interval
<1>17. f \in [A -> B]
  BY <1>14, <1>15
<1>18. PICK i, j \in A : i # j /\ f[i] = f[j]
  BY <1>16, <1>17, FS_PigeonHole
<1> QED BY <1>10, <1>13, <1>15, <1>18

\* What dereferencing computes, without its iterations.
LEMMA DerefFacts ==
    ASSUME NEW s, Acyclic(s), NEW n \in AllNodes
    PROVE  /\ Deref(s, n) \in AllNodes
           /\ s.kind[Deref(s, n)] # "Reference"
           /\ s.kind[n] # "Reference" => Deref(s, n) = n
           /\ s.kind[n] = "Reference" => Deref(s, n) = Deref(s, s.link[n])
<1>1. MaxNodes \in Nat /\ Linked(s)
  BY DataflowAssumption DEF Acyclic
<1>2. CASE s.kind[n] # "Reference"
  BY <1>2 DEF Deref
<1>3. CASE s.kind[n] = "Reference"
  <2>1. PICK m \in AllNodes : m = s.link[n]
    BY <1>1, <1>3 DEF Linked
  <2>2. PICK f : f = Chain(s, n)
    OBVIOUS
  <2>3. PICK g : g = Chain(s, m)
    OBVIOUS
  <2>4. /\ f \in [0..MaxNodes -> AllNodes]
        /\ f[0] = n
        /\ \A k \in 1..MaxNodes : f[k] = Follow(s, f[k - 1])
        /\ s.kind[f[MaxNodes]] # "Reference"
    BY <1>1, <2>2, ChainStays, ChainEnds
  <2>5. /\ g \in [0..MaxNodes -> AllNodes]
        /\ g[0] = m
        /\ \A k \in 1..MaxNodes : g[k] = Follow(s, g[k - 1])
        /\ s.kind[g[MaxNodes]] # "Reference"
    BY <1>1, <2>3, ChainStays, ChainEnds
  <2>6. MaxNodes > 0
    BY <1>1, <1>3, <2>4
  <2>7. \A k \in 1..MaxNodes : g[k - 1] = f[k]
    <3>1. PICK S : S = {k \in Nat : k + 1 <= MaxNodes => g[k] = f[k + 1]}
      OBVIOUS
    <3>2. 0 \in S
      <4>1. f[1] = Follow(s, f[1 - 1]) /\ f[1 - 1] = n
        BY <1>1, <2>4, <2>6
      <4> QED BY <1>3, <2>1, <2>5, <3>1, <4>1 DEF Follow
    <3>3. ASSUME NEW k \in Nat, k \in S PROVE k + 1 \in S
      <4> SUFFICES ASSUME (k + 1) + 1 <= MaxNodes PROVE g[k + 1] = f[(k + 1) + 1]
        BY <3>1
      <4>1. g[k] = f[k + 1]
        BY <1>1, <3>1, <3>3
      <4>2. k + 1 \in 1..MaxNodes /\ (k + 1) - 1 = k
        BY <1>1
      <4>3. (k + 1) + 1 \in 1..MaxNodes /\ ((k + 1) + 1) - 1 = k + 1
        BY <1>1
      <4>4. g[k + 1] = Follow(s, g[k])
        BY <2>5, <4>2
      <4>5. f[(k + 1) + 1] = Follow(s, f[k + 1])
        BY <2>4, <4>3
      <4> QED BY <4>1, <4>4, <4>5
    <3>4. \A k \in Nat : k \in S
      BY <3>1, <3>2, <3>3, SetInduction
    <3>5. ASSUME NEW k \in 1..MaxNodes PROVE g[k - 1] = f[k]
      <4>1. k - 1 \in Nat /\ (k - 1) + 1 = k /\ (k - 1) + 1 <= MaxNodes
        BY <1>1
      <4> QED BY <3>1, <3>4, <4>1
    <3> QED BY <3>5
  <2>8. MaxNodes \in 1..MaxNodes
    BY <1>1, <2>6
  <2>9. g[MaxNodes] = Follow(s, f[MaxNodes])
    BY <2>5, <2>7, <2>8
  <2>10. g[MaxNodes] = f[MaxNodes]
    BY <2>4, <2>9 DEF Follow
  <2>11. Deref(s, n) = f[MaxNodes]
    BY <1>3, <2>2 DEF Deref, DereferenceLoop
  <2>12. CASE s.kind[m] = "Reference"
    <3>1. Deref(s, m) = g[MaxNodes]
      BY <2>3, <2>12 DEF Deref, DereferenceLoop
    <3> QED BY <1>1, <1>3, <2>1, <2>4, <2>10, <2>11, <3>1
  <2>13. CASE s.kind[m] # "Reference"
    <3>1. PICK S : S = {k \in Nat : k <= MaxNodes => g[k] = m}
      OBVIOUS
    <3>2. 0 \in S
      BY <2>5, <3>1
    <3>3. ASSUME NEW k \in Nat, k \in S PROVE k + 1 \in S
      <4> SUFFICES ASSUME k + 1 <= MaxNodes PROVE g[k + 1] = m
        BY <3>1
      <4>1. k + 1 \in 1..MaxNodes /\ (k + 1) - 1 = k
        BY <1>1
      <4>2. g[k + 1] = Follow(s, g[k])
        BY <2>5, <4>1
      <4>3. g[k] = m
        BY <1>1, <3>1, <3>3
      <4> QED BY <2>13, <4>2, <4>3 DEF Follow
    <3>4. g[MaxNodes] = m
      BY <1>1, <3>1, <3>2, <3>3, SetInduction
    <3>5. Deref(s, m) = m
      BY <2>13 DEF Deref
    <3> QED BY <1>1, <1>3, <2>1, <2>4, <2>10, <2>11, <3>4, <3>5
  <2> QED BY <2>12, <2>13
<1> QED BY <1>2, <1>3

\* The equations of dereferencing have one solution.
LEMMA DerefUnique ==
    ASSUME NEW s, Acyclic(s), NEW F,
           \A m \in AllNodes : s.kind[m] # "Reference" => F[m] = m,
           \A m \in AllNodes : s.kind[m] = "Reference" => F[m] = F[s.link[m]]
    PROVE  \A m \in AllNodes : Deref(s, m) = F[m]
<1>1. PICK rank : Ranks(s, rank)
  BY DEF Acyclic
<1>2. PICK bad : bad = {m \in AllNodes : Deref(s, m) # F[m]}
  OBVIOUS
<1> SUFFICES ASSUME bad # {} PROVE FALSE
  BY <1>2
<1>3. PICK T : T = {rank[m] : m \in bad}
  OBVIOUS
<1>4. T \in SUBSET Nat /\ T # {}
  BY <1>1, <1>2, <1>3 DEF Ranks
<1>5. PICK x \in T : \A y \in T : x <= y
  BY <1>4, LeastNatural
<1>6. PICK m \in bad : \A k \in bad : rank[m] <= rank[k]
  BY <1>3, <1>5
<1>7. m \in AllNodes /\ s.kind[m] = "Reference" /\ Deref(s, m) = Deref(s, s.link[m])
  BY <1>2, <1>6, DerefFacts
<1>8. s.link[m] \in AllNodes
  BY <1>7 DEF Acyclic, Linked
<1>9. s.link[m] \in bad
  BY <1>2, <1>6, <1>7, <1>8
<1>10. rank[s.link[m]] < rank[m] /\ rank[m] \in Nat /\ rank[s.link[m]] \in Nat
  BY <1>1, <1>7, <1>8 DEF Ranks
<1> QED BY <1>6, <1>9, <1>10

\* Nodes R, none of which is a reference, become references to nodes that do
\* not lead to R.
LEMMA Redirect ==
    ASSUME NEW s, Acyclic(s), NEW s2, NEW R \in SUBSET Nodes,
           \A m \in R : s.kind[m] # "Reference",
           \A m \in R : s2.link[m] \in AllNodes /\ Deref(s, s2.link[m]) \notin R,
           \A m \in AllNodes :
              s2.kind[m] = "Reference" <=> m \in R \/ s.kind[m] = "Reference",
           \A m \in AllNodes \ R : s.kind[m] = "Reference" => s2.link[m] = s.link[m]
    PROVE  /\ Acyclic(s2)
           /\ \A m \in AllNodes :
                Deref(s2, m) = IF Deref(s, m) \in R
                               THEN Deref(s, s2.link[Deref(s, m)]) ELSE Deref(s, m)
<1>1. PICK D : D = [m \in AllNodes |-> Deref(s, m)]
  OBVIOUS
<1>2. \A m \in AllNodes :
        /\ D[m] \in AllNodes
        /\ s.kind[m] # "Reference" => D[m] = m
        /\ s.kind[m] = "Reference" => s.link[m] \in AllNodes /\ D[m] = D[s.link[m]]
  BY <1>1, DerefFacts DEF Acyclic, Linked
<1>3. R \subseteq AllNodes
  BY DEF AllNodes, Visible
<1>4. \A m \in R : D[m] = m /\ s2.link[m] \in AllNodes /\ D[s2.link[m]] \notin R
  BY <1>1, <1>2, <1>3
<1>5. Linked(s2)
  BY <1>3 DEF Linked, Acyclic
<1>6. PICK rank : Ranks(s, rank)
  BY DEF Acyclic
<1>7. PICK high : high = [m \in AllNodes |->
                            IF D[m] \in R THEN rank[m] + rank[s2.link[D[m]]] + 1 ELSE rank[m]]
  OBVIOUS
<1>8. Ranks(s2, high)
  <2>1. rank \in [AllNodes -> Nat]
    BY <1>6 DEF Ranks
  <2>2. high \in [AllNodes -> Nat]
    BY <1>4, <1>7, <2>1
  <2>3. ASSUME NEW m \in R
        PROVE  high[s2.link[m]] < high[m]
    <3>1. high[m] = rank[m] + rank[s2.link[m]] + 1
      BY <1>3, <1>4, <1>7
    <3>2. high[s2.link[m]] = rank[s2.link[m]]
      BY <1>4, <1>7
    <3> QED BY <1>3, <1>4, <2>1, <3>1, <3>2
  <2>4. ASSUME NEW m \in AllNodes \ R, s.kind[m] = "Reference"
        PROVE  high[s2.link[m]] < high[m]
    <3>1. s2.link[m] = s.link[m] /\ s.link[m] \in AllNodes /\ D[m] = D[s.link[m]]
      BY <1>2, <2>4
    <3>2. rank[s.link[m]] < rank[m]
      BY <1>6, <2>4 DEF Ranks
    <3>3. CASE D[m] \in R
      <4>1. /\ high[m] = rank[m] + rank[s2.link[D[m]]] + 1
            /\ high[s.link[m]] = rank[s.link[m]] + rank[s2.link[D[m]]] + 1
        BY <1>7, <3>1, <3>3
      <4>2. rank[s2.link[D[m]]] \in Nat /\ rank[m] \in Nat /\ rank[s.link[m]] \in Nat
        BY <1>4, <2>1, <3>1, <3>3
      <4> QED BY <3>1, <3>2, <4>1, <4>2
    <3>4. CASE D[m] \notin R
      BY <1>7, <3>1, <3>2, <3>4
    <3> QED BY <3>3, <3>4
  <2> QED BY <2>2, <2>3, <2>4 DEF Ranks
<1>9. Acyclic(s2)
  BY <1>5, <1>8 DEF Acyclic
<1>10. PICK F : F = [m \in AllNodes |-> IF D[m] \in R THEN D[s2.link[D[m]]] ELSE D[m]]
  OBVIOUS
<1>11. \A m \in AllNodes : s2.kind[m] # "Reference" => F[m] = m
  BY <1>2, <1>10
<1>12. \A m \in AllNodes : s2.kind[m] = "Reference" => F[m] = F[s2.link[m]]
  <2>1. ASSUME NEW m \in R PROVE F[m] = F[s2.link[m]]
    BY <1>3, <1>4, <1>10
  <2>2. ASSUME NEW m \in AllNodes \ R, s.kind[m] = "Reference" PROVE F[m] = F[s2.link[m]]
    BY <1>2, <1>10, <2>2
  <2> QED BY <2>1, <2>2
<1>13. \A m \in AllNodes : Deref(s2, m) = F[m]
  BY <1>9, <1>11, <1>12, DerefUnique
<1>14. ASSUME NEW m \in AllNodes
       PROVE  Deref(s2, m) = IF Deref(s, m) \in R
                             THEN Deref(s, s2.link[Deref(s, m)]) ELSE Deref(s, m)
  <2>1. D[m] \in R => s2.link[D[m]] \in AllNodes
    BY <1>4
  <2> QED BY <1>1, <1>10, <1>13, <2>1
<1> QED BY <1>9, <1>14

\* Stores with the same references dereference alike.
LEMMA SameReferences ==
    ASSUME NEW s, Acyclic(s), NEW s2,
           \A m \in AllNodes : s2.kind[m] = "Reference" <=> s.kind[m] = "Reference",
           \A m \in AllNodes : s.kind[m] = "Reference" => s2.link[m] = s.link[m]
    PROVE  Acyclic(s2) /\ \A m \in AllNodes : Deref(s2, m) = Deref(s, m)
<1>1. PICK R : R = {}
  OBVIOUS
<1>2. /\ R \in SUBSET Nodes
      /\ \A m \in R : s.kind[m] # "Reference"
      /\ \A m \in R : s2.link[m] \in AllNodes /\ Deref(s, s2.link[m]) \notin R
      /\ \A m \in AllNodes :
           s2.kind[m] = "Reference" <=> m \in R \/ s.kind[m] = "Reference"
      /\ \A m \in AllNodes \ R : s.kind[m] = "Reference" => s2.link[m] = s.link[m]
  BY <1>1
<1>3. /\ Acyclic(s2)
      /\ \A m \in AllNodes :
           Deref(s2, m) = IF Deref(s, m) \in R
                          THEN Deref(s, s2.link[Deref(s, m)]) ELSE Deref(s, m)
  BY <1>2, Redirect
<1> QED BY <1>1, <1>3

\* A set of nodes that references do not leave is not left by dereferencing.
LEMMA DerefStays ==
    ASSUME NEW s, Acyclic(s), NEW S \in SUBSET AllNodes,
           \A m \in S : s.kind[m] = "Reference" => s.link[m] \in S
    PROVE  \A m \in S : Deref(s, m) \in S
<1>1. PICK rank : Ranks(s, rank)
  BY DEF Acyclic
<1>2. PICK bad : bad = {m \in S : Deref(s, m) \notin S}
  OBVIOUS
<1> SUFFICES ASSUME bad # {} PROVE FALSE
  BY <1>2
<1>3. PICK T : T = {rank[m] : m \in bad}
  OBVIOUS
<1>4. T \in SUBSET Nat /\ T # {}
  BY <1>1, <1>2, <1>3 DEF Ranks
<1>5. PICK x \in T : \A y \in T : x <= y
  BY <1>4, LeastNatural
<1>6. PICK m \in bad : \A k \in bad : rank[m] <= rank[k]
  BY <1>3, <1>5
<1>7. m \in S /\ s.kind[m] = "Reference" /\ Deref(s, m) = Deref(s, s.link[m])
  BY <1>2, <1>6, DerefFacts
<1>8. s.link[m] \in bad
  BY <1>2, <1>6, <1>7
<1>9. rank[s.link[m]] < rank[m] /\ rank[m] \in Nat /\ rank[s.link[m]] \in Nat
  BY <1>1, <1>2, <1>7, <1>8 DEF Ranks
<1> QED BY <1>6, <1>8, <1>9

-----------------------------------------------------------------------------
(* Stores *)

\* What a suspension list may hold: threads, control variables, read-only views.
Wakeables == Threads \cup Controls \cup Nodes

\* The shape of a store.
StoreType ==
    [kind : [AllNodes -> Kinds], link : [AllNodes -> AllNodes \cup {None}],
     needed : [AllNodes -> BOOLEAN], pendings : [AllNodes -> SUBSET Wakeables],
     woken : SUBSET Threads]

\* A control variable is free, in use or unit; only threads wait for it, and a list
\* holds only those in use.
ControlLists(s) ==
    /\ \A c \in Controls :
         s.kind[c] \in {"Free", "Variable", "Value"} /\ s.pendings[c] \subseteq Threads
    /\ \A n \in AllNodes : \A c \in s.pendings[n] \cap Controls : s.kind[c] = "Variable"

\* The threads of a list are woken.
LEMMA WakeThreadsFields ==
    ASSUME NEW s \in StoreType, NEW list, NEW s2, s2 = WakeThreads(s, list)
    PROVE  /\ s2 \in StoreType
           /\ s2.kind = s.kind /\ s2.link = s.link /\ s2.needed = s.needed
           /\ s2.pendings = s.pendings
           /\ s2.woken = s.woken \cup (list \cap Threads)
BY DEF WakeThreads, StoreType

\* The control variables of a list become unit, leave every other list, and wake
\* the threads behind them.
LEMMA WakeControlsFields ==
    ASSUME NEW s \in StoreType, ControlLists(s), NEW list, NEW s2, s2 = WakeControls(s, list)
    PROVE  /\ s2 \in StoreType
           /\ s2.link = s.link
           /\ \A n \in AllNodes :
                s2.kind[n] = IF n \in list \cap Controls THEN "Value" ELSE s.kind[n]
           /\ \A n \in AllNodes : s2.needed[n] <=> s.needed[n] /\ n \notin list \cap Controls
           /\ \A n \in AllNodes :
                s2.pendings[n] = IF n \in list \cap Controls THEN {}
                                 ELSE s.pendings[n] \ (list \cap Controls)
           /\ s2.woken = s.woken \cup UNION {s.pendings[c] : c \in list \cap Controls}
<1>1. PICK cs : cs = list \cap Controls
  OBVIOUS
<1>2. Controls \subseteq AllNodes
  BY DEF AllNodes
<1>3. PICK kind : kind = [n \in AllNodes |-> IF n \in cs THEN "Value" ELSE s.kind[n]]
  OBVIOUS
<1>4. PICK needed : needed = [n \in AllNodes |-> n \notin cs /\ s.needed[n]]
  OBVIOUS
<1>5. PICK pendings : pendings = [n \in AllNodes |-> IF n \in cs THEN {} ELSE s.pendings[n] \ cs]
  OBVIOUS
<1>6. PICK woken : woken = s.woken \cup UNION {s.pendings[c] : c \in cs}
  OBVIOUS
<1>7. s2 = [s EXCEPT !.kind = kind, !.needed = needed, !.pendings = pendings, !.woken = woken]
  BY <1>1, <1>3, <1>4, <1>5, <1>6 DEF WakeControls
<1>8. kind \in [AllNodes -> Kinds]
  BY <1>3 DEF StoreType, Kinds
<1>9. needed \in [AllNodes -> BOOLEAN]
  BY <1>4
<1>10. pendings \in [AllNodes -> SUBSET Wakeables]
  BY <1>5 DEF StoreType
<1>11. woken \in SUBSET Threads
  BY <1>1, <1>6 DEF StoreType, ControlLists
<1>12. /\ s2 \in StoreType /\ s2.kind = kind /\ s2.needed = needed /\ s2.pendings = pendings
       /\ s2.woken = woken /\ s2.link = s.link
  BY <1>7, <1>8, <1>9, <1>10, <1>11 DEF StoreType
<1>13. \A n \in AllNodes : s2.kind[n] = IF n \in list \cap Controls THEN "Value" ELSE s.kind[n]
  BY <1>1, <1>3, <1>12
<1>14. \A n \in AllNodes : s2.needed[n] <=> s.needed[n] /\ n \notin list \cap Controls
  BY <1>1, <1>4, <1>12
<1>15. \A n \in AllNodes :
         s2.pendings[n] = IF n \in list \cap Controls THEN {}
                          ELSE s.pendings[n] \ (list \cap Controls)
  BY <1>1, <1>5, <1>12
<1>16. s2.woken = s.woken \cup UNION {s.pendings[c] : c \in list \cap Controls}
  BY <1>1, <1>6, <1>12
<1> QED BY <1>12, <1>13, <1>14, <1>15, <1>16

\* The read-only views, and the variable that one of them delegates to.
Views(s) == {r \in Nodes : s.kind[r] = "ReadOnly"}
Target(s, r) == Deref(s, s.link[r])

\* The views in a list that ReadOnly::wakeUp makes references of.
Settled(s, list) == {r \in list \cap Views(s) : ~NeedsProtection(s.kind[Target(s, r)])}

\* References and views are nodes of the program and lead to nodes that are there;
\* no reference leads to a _terminationVar before it is unit.
LinksLead(s) ==
    \A n \in AllNodes : s.kind[n] \in {"Reference", "ReadOnly"} =>
        /\ n \in Nodes
        /\ s.link[n] \in Visible
        /\ s.kind[s.link[n]] # "Free"
        /\ s.kind[n] = "Reference" /\ s.link[n] \in TerminationVars
             => s.kind[s.link[n]] = "Value"

\* How the sets of nodes lie in each other.
LEMMA NodeSets ==
    /\ Nodes \subseteq Visible /\ Visible \subseteq AllNodes
    /\ Controls \subseteq AllNodes /\ TerminationVars \subseteq Visible
    /\ Nodes \cap Controls = {} /\ Nodes \cap TerminationVars = {}
    /\ Visible \cap Controls = {}
    /\ Threads \cap AllNodes = {}
BY NamesAssumption DEF Nodes, Controls, TerminationVars, TerminationVar, Visible, AllNodes

\* The views of a list become references, or suspend again on their variable.
LEMMA WakeReadOnlyFields ==
    ASSUME NEW s \in StoreType, LinksLead(s), NEW list, NEW s2, s2 = WakeReadOnly(s, list)
    PROVE  /\ s2 \in StoreType
           /\ s2.needed = s.needed
           /\ s2.woken = s.woken
           /\ \A n \in AllNodes :
                s2.kind[n] =
                  IF n \in Settled(s, list) THEN "Reference"
                  ELSE IF s.kind[n] = "OptVar" /\ \E r \in list \cap Views(s) : Target(s, r) = n
                       THEN "Variable" ELSE s.kind[n]
           /\ \A n \in AllNodes :
                s2.link[n] = IF n \in Settled(s, list) /\ s.kind[s.link[n]] = "Reference"
                             THEN s.link[s.link[n]] ELSE s.link[n]
           /\ \A n \in AllNodes :
                s2.pendings[n] = s.pendings[n] \cup
                   {r \in list \cap Views(s) : Target(s, r) = n /\ NeedsProtection(s.kind[n])}
<1>1. PICK settled : settled = Settled(s, list)
  OBVIOUS
<1>2. PICK again : again = {r \in list \cap Views(s) : NeedsProtection(s.kind[Target(s, r)])}
  OBVIOUS
<1>3. settled = (list \cap Views(s)) \ again
  BY <1>1, <1>2 DEF Settled
<1>4. PICK kind : kind = [n \in AllNodes |->
                            IF n \in settled THEN "Reference"
                            ELSE IF s.kind[n] = "OptVar" /\ {r \in again : Target(s, r) = n} # {}
                                 THEN "Variable" ELSE s.kind[n]]
  OBVIOUS
<1>5. PICK link : link = [n \in AllNodes |->
                            IF n \in settled /\ s.kind[s.link[n]] = "Reference"
                            THEN s.link[s.link[n]] ELSE s.link[n]]
  OBVIOUS
<1>6. PICK pendings : pendings = [n \in AllNodes |->
                            s.pendings[n] \cup {r \in again : Target(s, r) = n}]
  OBVIOUS
<1>7. s2 = [s EXCEPT !.kind = kind, !.link = link, !.pendings = pendings]
  <2>1. {r \in list \cap Nodes : s.kind[r] = "ReadOnly"} = list \cap Views(s)
    BY DEF Views
  <2>2. {r \in list \cap Views(s) : NeedsProtection(KindOf(s, s.link[r]))} = again
    BY <1>2 DEF KindOf, Target
  <2> QED BY <1>3, <1>4, <1>5, <1>6, <2>1, <2>2 DEF WakeReadOnly, Target
<1>8. s.kind \in [AllNodes -> Kinds] /\ s.link \in [AllNodes -> AllNodes \cup {None}]
      /\ s.pendings \in [AllNodes -> SUBSET Wakeables]
  BY DEF StoreType
<1>9. kind \in [AllNodes -> Kinds]
  BY <1>4, <1>8 DEF Kinds, Transient, Unbound
<1>10. link \in [AllNodes -> AllNodes \cup {None}]
  <2>1. \A n \in settled : n \in AllNodes /\ s.kind[n] = "ReadOnly"
    BY <1>1, NodeSets DEF Settled, Views
  <2>2. \A n \in settled : s.link[n] \in AllNodes
    BY <2>1, NodeSets DEF LinksLead
  <2>3. \A n \in settled : s.kind[s.link[n]] = "Reference" => s.link[s.link[n]] \in AllNodes
    BY <2>2, NodeSets DEF LinksLead
  <2> QED BY <1>5, <1>8, <2>3
<1>11. pendings \in [AllNodes -> SUBSET Wakeables]
  <2>1. again \subseteq Wakeables
    BY <1>2 DEF Views, Wakeables
  <2> QED BY <1>6, <1>8, <2>1
<1>12. /\ s2 \in StoreType /\ s2.kind = kind /\ s2.link = link /\ s2.pendings = pendings
       /\ s2.needed = s.needed /\ s2.woken = s.woken
  BY <1>7, <1>9, <1>10, <1>11 DEF StoreType
<1>13. ASSUME NEW n \in AllNodes
       PROVE  s2.kind[n] =
                  IF n \in settled THEN "Reference"
                  ELSE IF s.kind[n] = "OptVar" /\ \E r \in list \cap Views(s) : Target(s, r) = n
                       THEN "Variable" ELSE s.kind[n]
  <2>1. s.kind[n] = "OptVar" => {r \in again : Target(s, r) = n} = {r \in list \cap Views(s) : Target(s, r) = n}
    BY <1>2 DEF NeedsProtection
  <2>2. s2.kind[n] = IF n \in settled THEN "Reference"
                     ELSE IF s.kind[n] = "OptVar" /\ {r \in again : Target(s, r) = n} # {}
                          THEN "Variable" ELSE s.kind[n]
    BY <1>4, <1>12
  <2> QED BY <2>1, <2>2
<1>14. ASSUME NEW n \in AllNodes
       PROVE  s2.pendings[n] = s.pendings[n] \cup
                   {r \in list \cap Views(s) : Target(s, r) = n /\ NeedsProtection(s.kind[n])}
  BY <1>2, <1>6, <1>12
<1>15. \A n \in AllNodes :
         s2.link[n] = IF n \in settled /\ s.kind[s.link[n]] = "Reference"
                      THEN s.link[s.link[n]] ELSE s.link[n]
  BY <1>5, <1>12
<1> QED BY <1>1, <1>12, <1>13, <1>14, <1>15

\* A _terminationVar is a variable or unit, and nothing else.
TerminationKinds(s) == \A v \in TerminationVars : s.kind[v] \in {"OptVar", "Variable", "Value"}

\* Only variables have a list and a need.
OnlyVariables(s) ==
    \A n \in AllNodes : s.kind[n] \notin Unbound => ~s.needed[n] /\ s.pendings[n] = {}

\* What holds of a store also in the middle of a step, while a list is being woken.
Structure(s) ==
    /\ s \in StoreType
    /\ LinksLead(s) /\ Acyclic(s)
    /\ ControlLists(s) /\ TerminationKinds(s) /\ OnlyVariables(s)

\* A view is in the list of its variable.
Listed(s, r) == s.kind[Target(s, r)] \in Unbound /\ r \in s.pendings[Target(s, r)]

\* What holds of the store between two calls.
StoreInv(s) == Structure(s) /\ \A r \in Views(s) : Listed(s, r)

\* What holds while list, taken from its variable, waits to be woken: the views are
\* in it or in order, and no view that it settles leads to another.
WakeInv(s, list) ==
    /\ Structure(s)
    /\ list \subseteq Wakeables
    /\ \A r \in Views(s) : r \in list \/ Listed(s, r)
    /\ \A r \in Settled(s, list) : Target(s, r) \notin Settled(s, list)

\* What a node that a reference may lead to is.
Referable(s) == {m \in Visible : s.kind[m] # "Free" /\ (m \in TerminationVars => s.kind[m] = "Value")}

\* Dereferencing stays among the nodes that the program can see.
LEMMA DerefVisible ==
    ASSUME NEW s, LinksLead(s), Acyclic(s)
    PROVE  /\ \A m \in Visible : Deref(s, m) \in Visible
           /\ \A m \in AllNodes : s.kind[m] # "Free" => s.kind[Deref(s, m)] # "Free"
           /\ \A m \in Referable(s) : Deref(s, m) \in Referable(s)
           /\ \A m \in Visible : s.kind[m] = "Reference" => Deref(s, m) \in Referable(s)
<1>1. \A m \in Visible : Deref(s, m) \in Visible
  BY DerefStays, NodeSets DEF LinksLead
<1>2. \A m \in AllNodes : s.kind[m] # "Free" => s.kind[Deref(s, m)] # "Free"
  <2>1. PICK S : S = {m \in AllNodes : s.kind[m] # "Free"}
    OBVIOUS
  <2>2. \A m \in S : s.kind[m] = "Reference" => s.link[m] \in S
    BY <2>1, NodeSets DEF LinksLead
  <2>3. \A m \in S : Deref(s, m) \in S
    BY <2>1, <2>2, DerefStays
  <2> QED BY <2>1, <2>3
<1>3. \A m \in AllNodes : s.kind[m] = "Reference" => s.link[m] \in Referable(s)
  BY DEF LinksLead, Referable
<1>4. \A m \in Referable(s) : Deref(s, m) \in Referable(s)
  <2>1. Referable(s) \in SUBSET AllNodes
    BY NodeSets DEF Referable
  <2> QED BY <1>3, <2>1, DerefStays
<1>5. \A m \in Visible : s.kind[m] = "Reference" => Deref(s, m) \in Referable(s)
  <2> SUFFICES ASSUME NEW m \in Visible, s.kind[m] = "Reference"
               PROVE  Deref(s, m) \in Referable(s)
    OBVIOUS
  <2>1. m \in AllNodes
    BY NodeSets
  <2>2. Deref(s, m) = Deref(s, s.link[m])
    BY <2>1, DerefFacts
  <2> QED BY <1>3, <1>4, <2>1, <2>2
<1> QED BY <1>1, <1>2, <1>4, <1>5

\* What a view delegates to.
LEMMA TargetFacts ==
    ASSUME NEW s, LinksLead(s), Acyclic(s), NEW r \in Views(s)
    PROVE  /\ r \in Nodes /\ r \in AllNodes /\ s.kind[r] = "ReadOnly"
           /\ s.link[r] \in Visible /\ s.link[r] \in AllNodes
           /\ Target(s, r) \in Visible /\ Target(s, r) \in AllNodes
           /\ s.kind[Target(s, r)] \notin {"Reference", "Free"}
<1>1. r \in Nodes /\ r \in AllNodes /\ s.kind[r] = "ReadOnly"
  BY NodeSets DEF Views
<1>2. s.link[r] \in Visible /\ s.link[r] \in AllNodes /\ s.kind[s.link[r]] # "Free"
  BY <1>1, NodeSets DEF LinksLead
<1> QED BY <1>1, <1>2, DerefVisible, DerefFacts, NodeSets DEF Target

\* What delegation leads to.
LEMMA BaseFacts ==
    ASSUME NEW s, StoreInv(s), NEW n \in AllNodes
    PROVE  /\ Base(s, n) \in AllNodes
           /\ s.kind[Base(s, n)] \notin {"Reference", "ReadOnly"}
           /\ s.kind[n] \notin {"Reference", "ReadOnly"} => Base(s, n) = n
           /\ Base(s, Base(s, n)) = Base(s, n)
           /\ s.kind[n] # "Free" => s.kind[Base(s, n)] # "Free"
           /\ n \in Visible => Base(s, n) \in Visible
           /\ n \in Controls => Base(s, n) = n
           /\ Base(s, Deref(s, n)) = Base(s, n)
<1>1. LinksLead(s) /\ Acyclic(s) /\ ControlLists(s)
  BY DEF StoreInv, Structure
<1>2. PICK d : d = Deref(s, n)
  OBVIOUS
<1>3. /\ d \in AllNodes /\ s.kind[d] # "Reference"
      /\ s.kind[n] # "Reference" => d = n
      /\ s.kind[n] # "Free" => s.kind[d] # "Free"
      /\ n \in Visible => d \in Visible
      /\ Deref(s, d) = d
  BY <1>1, <1>2, DerefFacts, DerefVisible
<1>4. Base(s, n) = IF s.kind[d] = "ReadOnly" THEN Target(s, d) ELSE d
  BY <1>2 DEF Base, Target
<1>5. s.kind[d] = "ReadOnly" =>
        /\ Target(s, d) \in Visible /\ Target(s, d) \in AllNodes
        /\ s.kind[Target(s, d)] \in Unbound
  <2> SUFFICES ASSUME s.kind[d] = "ReadOnly"
               PROVE  /\ Target(s, d) \in Visible /\ Target(s, d) \in AllNodes
                      /\ s.kind[Target(s, d)] \in Unbound
    OBVIOUS
  <2>1. d \in Views(s)
    BY <1>1, <1>3 DEF LinksLead, Views
  <2> QED BY <1>1, <2>1, TargetFacts DEF StoreInv, Listed
<1>6. \A m \in AllNodes : s.kind[m] \notin {"Reference", "ReadOnly"} => Base(s, m) = m
  BY <1>1, DerefFacts DEF Base
<1>7. Base(s, n) \in AllNodes /\ s.kind[Base(s, n)] \notin {"Reference", "ReadOnly"}
  BY <1>3, <1>4, <1>5 DEF Unbound
<1>8. n \in Controls => s.kind[n] \notin {"Reference", "ReadOnly"}
  BY <1>1 DEF ControlLists
<1>9. Base(s, Deref(s, n)) = Base(s, n)
  BY <1>2, <1>3, <1>4 DEF Base, Target
<1> QED BY <1>3, <1>4, <1>5, <1>6, <1>7, <1>8, <1>9 DEF Unbound

-----------------------------------------------------------------------------
(* Waking a list *)

\* Waking a detached list: every view that was in it settles or is listed
\* again, and the store is in order.
LEMMA WakeEffect ==
    ASSUME NEW s, NEW list, WakeInv(s, list), NEW s2, s2 = Wake(s, list)
    PROVE  /\ StoreInv(s2)
           /\ \A m \in AllNodes :
                Deref(s2, m) = IF Deref(s, m) \in Settled(s, list)
                               THEN Target(s, Deref(s, m)) ELSE Deref(s, m)
           /\ \A r \in Views(s) \ Settled(s, list) : Target(s2, r) = Target(s, r)
           /\ \A n \in AllNodes :
                s2.kind[n] =
                  IF n \in Settled(s, list) THEN "Reference"
                  ELSE IF n \in list \cap Controls THEN "Value"
                  ELSE IF s.kind[n] = "OptVar" /\ \E r \in list \cap Views(s) : Target(s, r) = n
                       THEN "Variable" ELSE s.kind[n]
           /\ \A n \in AllNodes : s2.needed[n] <=> s.needed[n] /\ n \notin list \cap Controls
           /\ \A n \in AllNodes \ (list \cap Controls) :
                s.pendings[n] \ (list \cap Controls) \subseteq s2.pendings[n]
           /\ s.woken \cup (list \cap Threads) \subseteq s2.woken
           /\ \A c \in list \cap Controls : s.pendings[c] \subseteq s2.woken
           /\ \A n \in AllNodes : s2.pendings[n] \cap Controls \subseteq s.pendings[n]
<1>1. PICK sT : sT = WakeThreads(s, list)
  OBVIOUS
<1>2. PICK sC : sC = WakeControls(sT, list)
  OBVIOUS
<1>3. s2 = WakeReadOnly(sC, list)
  BY <1>1, <1>2 DEF Wake
<1>4. /\ s \in StoreType /\ LinksLead(s) /\ Acyclic(s) /\ ControlLists(s)
      /\ TerminationKinds(s) /\ OnlyVariables(s)
  BY DEF WakeInv, Structure
<1>5. /\ sT \in StoreType
      /\ sT.kind = s.kind /\ sT.link = s.link /\ sT.needed = s.needed
      /\ sT.pendings = s.pendings
      /\ sT.woken = s.woken \cup (list \cap Threads)
  BY <1>1, <1>4, WakeThreadsFields
<1>6. ControlLists(sT)
  BY <1>4, <1>5 DEF ControlLists
<1>7. PICK cs : cs = list \cap Controls
  OBVIOUS
<1>8. /\ sC \in StoreType
      /\ sC.link = s.link
      /\ \A n \in AllNodes : sC.kind[n] = IF n \in cs THEN "Value" ELSE s.kind[n]
      /\ \A n \in AllNodes : sC.needed[n] <=> s.needed[n] /\ n \notin cs
      /\ \A n \in AllNodes : sC.pendings[n] = IF n \in cs THEN {} ELSE s.pendings[n] \ cs
      /\ sC.woken = s.woken \cup (list \cap Threads) \cup UNION {s.pendings[c] : c \in cs}
  <2>1. /\ sC \in StoreType
        /\ sC.link = sT.link
        /\ \A n \in AllNodes :
             sC.kind[n] = IF n \in list \cap Controls THEN "Value" ELSE sT.kind[n]
        /\ \A n \in AllNodes : sC.needed[n] <=> sT.needed[n] /\ n \notin list \cap Controls
        /\ \A n \in AllNodes :
             sC.pendings[n] = IF n \in list \cap Controls THEN {}
                              ELSE sT.pendings[n] \ (list \cap Controls)
        /\ sC.woken = sT.woken \cup UNION {sT.pendings[c] : c \in list \cap Controls}
    BY <1>2, <1>5, <1>6, WakeControlsFields
  <2> QED BY <1>5, <1>7, <2>1
<1>9. \A n \in AllNodes :
        sC.kind[n] \in {"Reference", "ReadOnly"} \/ s.kind[n] \in {"Reference", "ReadOnly"}
          => sC.kind[n] = s.kind[n]
  BY <1>4, <1>7, <1>8 DEF ControlLists
<1>10. Acyclic(sC) /\ \A m \in AllNodes : Deref(sC, m) = Deref(s, m)
  BY <1>4, <1>8, <1>9, SameReferences
<1>11. Views(sC) = Views(s)
  BY <1>9, NodeSets DEF Views
<1>12. \A n \in Visible : sC.kind[n] = s.kind[n]
  BY <1>7, <1>8, NodeSets
<1>13. LinksLead(sC)
  <2> SUFFICES ASSUME NEW n \in AllNodes, sC.kind[n] \in {"Reference", "ReadOnly"}
               PROVE  /\ n \in Nodes
                      /\ sC.link[n] \in Visible
                      /\ sC.kind[sC.link[n]] # "Free"
                      /\ sC.kind[n] = "Reference" /\ sC.link[n] \in TerminationVars
                           => sC.kind[sC.link[n]] = "Value"
    BY DEF LinksLead
  <2>1. sC.kind[n] = s.kind[n] /\ sC.link[n] = s.link[n]
    BY <1>8, <1>9
  <2> QED BY <1>4, <1>12, <2>1 DEF LinksLead
<1>14. \A r \in Views(s) :
         /\ r \in AllNodes /\ s.link[r] \in AllNodes /\ s.link[r] \in Visible
         /\ Target(s, r) \in Visible /\ Target(s, r) \in AllNodes
         /\ s.kind[Target(s, r)] \notin {"Reference", "Free"}
  BY <1>4, TargetFacts
<1>15. \A r \in Views(s) : Target(sC, r) = Target(s, r)
  BY <1>8, <1>10, <1>14 DEF Target
<1>16. Settled(sC, list) = Settled(s, list)
  BY <1>11, <1>12, <1>14, <1>15 DEF Settled
<1>17. PICK R : R = Settled(s, list)
  OBVIOUS
<1>18. /\ s2 \in StoreType
       /\ s2.needed = sC.needed
       /\ s2.woken = sC.woken
       /\ \A n \in AllNodes :
            s2.kind[n] =
              IF n \in R THEN "Reference"
              ELSE IF sC.kind[n] = "OptVar" /\ \E r \in list \cap Views(s) : Target(sC, r) = n
                   THEN "Variable" ELSE sC.kind[n]
       /\ \A n \in AllNodes :
            s2.link[n] = IF n \in R /\ sC.kind[sC.link[n]] = "Reference"
                         THEN sC.link[sC.link[n]] ELSE sC.link[n]
       /\ \A n \in AllNodes :
            s2.pendings[n] = sC.pendings[n] \cup
               {r \in list \cap Views(s) : Target(sC, r) = n /\ NeedsProtection(sC.kind[n])}
  BY <1>3, <1>8, <1>11, <1>13, <1>16, <1>17, WakeReadOnlyFields
<1>19. R \subseteq Views(s) /\ R \subseteq Nodes /\ R \subseteq AllNodes
  BY <1>17, NodeSets DEF Settled, Views
<1>20. \A r \in R : /\ s.kind[r] = "ReadOnly" /\ sC.kind[r] = "ReadOnly"
                    /\ ~NeedsProtection(s.kind[Target(s, r)]) /\ Target(s, r) \notin R
  BY <1>9, <1>17, <1>19 DEF Settled, Views, WakeInv
<1>21. \A n \in AllNodes :
         s2.kind[n] =
           IF n \in R THEN "Reference"
           ELSE IF n \in cs THEN "Value"
           ELSE IF s.kind[n] = "OptVar" /\ \E r \in list \cap Views(s) : Target(s, r) = n
                THEN "Variable" ELSE s.kind[n]
  BY <1>8, <1>15, <1>18
<1>22. ASSUME NEW r \in R
       PROVE  /\ s2.link[r] \in Visible /\ s2.link[r] \in AllNodes
              /\ Deref(s, s2.link[r]) = Target(s, r)
              /\ s.kind[s2.link[r]] # "Free"
              /\ s2.link[r] \in TerminationVars => s.kind[s2.link[r]] = "Value"
  <2>1. s.link[r] \in Visible /\ s.link[r] \in AllNodes /\ s.kind[s.link[r]] # "Free"
    BY <1>4, <1>14, <1>19, <1>20 DEF LinksLead
  <2>2. s2.link[r] = IF s.kind[s.link[r]] = "Reference" THEN s.link[s.link[r]] ELSE s.link[r]
    BY <1>8, <1>12, <1>18, <1>19, <2>1
  <2>3. CASE s.kind[s.link[r]] = "Reference"
    <3>1. /\ s.link[s.link[r]] \in Visible /\ s.kind[s.link[s.link[r]]] # "Free"
          /\ s.link[s.link[r]] \in TerminationVars => s.kind[s.link[s.link[r]]] = "Value"
      BY <1>4, <2>1, <2>3 DEF LinksLead
    <3>2. Deref(s, s.link[r]) = Deref(s, s.link[s.link[r]])
      BY <1>4, <2>1, <2>3, DerefFacts
    <3> QED BY <2>2, <2>3, <3>1, <3>2, NodeSets DEF Target
  <2>4. CASE s.kind[s.link[r]] # "Reference"
    <3>1. Target(s, r) = s.link[r]
      BY <1>4, <2>1, <2>4, DerefFacts DEF Target
    <3>2. ~NeedsProtection(s.kind[s.link[r]])
      BY <1>20, <3>1
    <3>3. s.link[r] \in TerminationVars => s.kind[s.link[r]] = "Value"
      BY <1>4, <3>2 DEF TerminationKinds, NeedsProtection, Unbound
    <3> QED BY <2>1, <2>2, <2>4, <3>3 DEF Target
  <2> QED BY <2>3, <2>4
<1>23. /\ Acyclic(s2)
       /\ \A m \in AllNodes :
            Deref(s2, m) = IF Deref(sC, m) \in R
                           THEN Deref(sC, s2.link[Deref(sC, m)]) ELSE Deref(sC, m)
  <2>1. \A m \in R : sC.kind[m] # "Reference"
    BY <1>20
  <2>2. \A m \in R : s2.link[m] \in AllNodes /\ Deref(sC, s2.link[m]) \notin R
    BY <1>10, <1>20, <1>22
  <2>3. \A m \in AllNodes :
          s2.kind[m] = "Reference" <=> m \in R \/ sC.kind[m] = "Reference"
    BY <1>18
  <2>4. \A m \in AllNodes \ R : sC.kind[m] = "Reference" => s2.link[m] = sC.link[m]
    BY <1>18
  <2>5. R \in SUBSET Nodes /\ Acyclic(sC)
    BY <1>10, <1>19
  <2> HIDE DEF Deref, Acyclic
  <2> QED BY <2>1, <2>2, <2>3, <2>4, <2>5, Redirect
<1>24. \A m \in AllNodes :
         Deref(s2, m) = IF Deref(s, m) \in R THEN Target(s, Deref(s, m)) ELSE Deref(s, m)
  BY <1>10, <1>22, <1>23
<1>25. Views(s2) = Views(s) \ R
  BY <1>7, <1>21, NodeSets DEF Views
<1>26. \A r \in Views(s) \ R : Target(s2, r) = Target(s, r) /\ NeedsProtection(s.kind[Target(s, r)])
  <2> SUFFICES ASSUME NEW r \in Views(s) \ R
               PROVE  Target(s2, r) = Target(s, r) /\ NeedsProtection(s.kind[Target(s, r)])
    OBVIOUS
  <2>1. NeedsProtection(s.kind[Target(s, r)])
    <3>1. r \in list => NeedsProtection(s.kind[Target(s, r)])
      BY <1>17 DEF Settled
    <3>2. r \notin list => s.kind[Target(s, r)] \in Unbound
      BY DEF WakeInv, Listed
    <3> QED BY <3>1, <3>2 DEF NeedsProtection
  <2>2. Target(s, r) \notin R
    BY <1>20, <2>1 DEF NeedsProtection, Unbound
  <2>3. s2.link[r] = s.link[r]
    BY <1>8, <1>14, <1>18
  <2>4. Deref(s2, s.link[r]) = Deref(s, s.link[r])
    BY <1>14, <1>24, <2>2 DEF Target
  <2> QED BY <2>1, <2>3, <2>4 DEF Target
<1>27. LinksLead(s2)
  <2> SUFFICES ASSUME NEW n \in AllNodes, s2.kind[n] \in {"Reference", "ReadOnly"}
               PROVE  /\ n \in Nodes
                      /\ s2.link[n] \in Visible
                      /\ s2.kind[s2.link[n]] # "Free"
                      /\ s2.kind[n] = "Reference" /\ s2.link[n] \in TerminationVars
                           => s2.kind[s2.link[n]] = "Value"
    BY DEF LinksLead
  <2>1. \A m \in Visible : s.kind[m] # "Free" => s2.kind[m] # "Free"
    BY <1>21, NodeSets
  <2>2. \A m \in TerminationVars : s.kind[m] = "Value" => s2.kind[m] = "Value"
    BY <1>7, <1>19, <1>21, NodeSets
  <2>3. CASE n \in R
    BY <1>19, <1>22, <2>1, <2>2, <2>3
  <2>4. CASE n \notin R
    <3>1. s2.kind[n] = s.kind[n] /\ s2.link[n] = s.link[n]
      BY <1>8, <1>18, <1>21, <2>4
    <3> QED BY <1>4, <2>1, <2>2, <3>1 DEF LinksLead
  <2> QED BY <2>3, <2>4
<1>28. ControlLists(s2)
  <2>1. \A c \in Controls : s2.kind[c] = IF c \in cs THEN "Value" ELSE s.kind[c]
    BY <1>4, <1>19, <1>21, NodeSets DEF ControlLists
  <2>2. \A c \in Controls : s2.pendings[c] = sC.pendings[c]
    <3> SUFFICES ASSUME NEW c \in Controls PROVE s2.pendings[c] = sC.pendings[c]
      OBVIOUS
    <3>1. c \in AllNodes /\ c \notin Visible
      BY NodeSets
    <3>2. \A r \in list \cap Views(s) : Target(sC, r) # c
      BY <1>14, <1>15, <3>1
    <3>3. {r \in list \cap Views(s) : Target(sC, r) = c /\ NeedsProtection(sC.kind[c])} = {}
      BY <3>2
    <3>4. s2.pendings[c] = sC.pendings[c] \cup
            {r \in list \cap Views(s) : Target(sC, r) = c /\ NeedsProtection(sC.kind[c])}
      BY <1>18, <3>1
    <3> QED BY <3>3, <3>4
  <2>3. \A c \in Controls : s2.pendings[c] \subseteq Threads
    <3> SUFFICES ASSUME NEW c \in Controls PROVE s2.pendings[c] \subseteq Threads
      OBVIOUS
    <3>1. c \in AllNodes /\ s.pendings[c] \subseteq Threads
      BY <1>4, NodeSets DEF ControlLists
    <3> QED BY <1>8, <2>2, <3>1
  <2>4. \A n \in AllNodes : s2.pendings[n] \cap Controls \subseteq sC.pendings[n] \cap Controls
    BY <1>18, NodeSets DEF Views
  <2>5. \A n \in AllNodes : \A c \in sC.pendings[n] \cap Controls : c \notin cs /\ s.kind[c] = "Variable"
    <3> SUFFICES ASSUME NEW n \in AllNodes, NEW c \in sC.pendings[n] \cap Controls
                 PROVE  c \notin cs /\ s.kind[c] = "Variable"
      OBVIOUS
    <3>1. n \notin cs /\ c \in s.pendings[n] /\ c \notin cs
      BY <1>8
    <3> QED BY <1>4, <3>1 DEF ControlLists
  <2>6. \A n \in AllNodes : \A c \in s2.pendings[n] \cap Controls : s2.kind[c] = "Variable"
    BY <2>1, <2>4, <2>5
  <2> QED BY <1>4, <2>1, <2>3, <2>6 DEF ControlLists
<1>29. TerminationKinds(s2)
  BY <1>4, <1>7, <1>19, <1>21, NodeSets DEF TerminationKinds
<1>30. OnlyVariables(s2)
  <2> SUFFICES ASSUME NEW n \in AllNodes, s2.kind[n] \notin Unbound
               PROVE  ~s2.needed[n] /\ s2.pendings[n] = {}
    BY DEF OnlyVariables
  <2>1. s.kind[n] \notin Unbound \/ n \in cs
    BY <1>20, <1>21 DEF Unbound
  <2>2. ~sC.needed[n] /\ sC.pendings[n] = {}
    BY <1>4, <1>8, <2>1 DEF OnlyVariables
  <2>3. {r \in list \cap Views(s) : Target(sC, r) = n /\ NeedsProtection(sC.kind[n])} = {}
    <3> SUFFICES ASSUME NEW r \in list \cap Views(s), Target(sC, r) = n, NeedsProtection(sC.kind[n])
                 PROVE  FALSE
      OBVIOUS
    <3>1. sC.kind[n] \in Unbound \cup {"OptVar"}
      BY DEF NeedsProtection
    <3>2. n \notin R
      BY <1>20, <3>1 DEF Unbound
    <3> QED BY <1>18, <3>1, <3>2 DEF Unbound
  <2> QED BY <1>18, <2>2, <2>3
<1>31. ASSUME NEW r \in Views(s2) PROVE Listed(s2, r)
  <2>1. r \in Views(s) \ R /\ Target(s2, r) = Target(s, r) /\ NeedsProtection(s.kind[Target(s, r)])
    BY <1>25, <1>26
  <2>2. PICK b : b = Target(s, r)
    OBVIOUS
  <2>3. b \in AllNodes /\ b \notin cs /\ b \notin R /\ sC.kind[b] = s.kind[b]
    BY <1>7, <1>12, <1>14, <1>20, <2>1, <2>2, NodeSets DEF NeedsProtection, Unbound
  <2>4. CASE r \in list
    <3>1. r \in s2.pendings[b]
      BY <1>15, <1>18, <2>1, <2>2, <2>3, <2>4
    <3>2. s2.kind[b] \in Unbound
      BY <1>21, <2>1, <2>2, <2>3, <2>4 DEF NeedsProtection, Unbound
    <3> QED BY <2>1, <2>2, <3>1, <3>2 DEF Listed
  <2>5. CASE r \notin list
    <3>1. s.kind[b] \in Unbound /\ r \in s.pendings[b]
      BY <2>1, <2>2, <2>5 DEF WakeInv, Listed
    <3>2. r \notin cs
      BY <1>7, <2>5
    <3>3. r \in s2.pendings[b]
      BY <1>8, <1>18, <2>3, <3>1, <3>2
    <3>4. s2.kind[b] \in Unbound
      BY <1>21, <2>3, <3>1 DEF Unbound
    <3> QED BY <2>1, <2>2, <3>3, <3>4 DEF Listed
  <2> QED BY <2>4, <2>5
<1>32. StoreInv(s2)
  BY <1>18, <1>23, <1>27, <1>28, <1>29, <1>30, <1>31 DEF StoreInv, Structure
<1>33. \A n \in AllNodes : sC.pendings[n] \subseteq s2.pendings[n]
                          /\ s2.pendings[n] \subseteq sC.pendings[n] \cup Views(s)
  BY <1>18
<1>34. \A n \in AllNodes \ cs : s.pendings[n] \ cs \subseteq s2.pendings[n]
  <2> SUFFICES ASSUME NEW n \in AllNodes \ cs PROVE s.pendings[n] \ cs \subseteq s2.pendings[n]
    OBVIOUS
  <2>1. sC.pendings[n] = s.pendings[n] \ cs
    BY <1>8
  <2> QED BY <1>33, <2>1
<1>35. s2.woken = sC.woken
  BY <1>18
<1>36. /\ s.woken \cup (list \cap Threads) \subseteq s2.woken
       /\ \A c \in cs : s.pendings[c] \subseteq s2.woken
  BY <1>8, <1>35
<1>37. \A n \in AllNodes : s2.needed[n] <=> s.needed[n] /\ n \notin cs
  BY <1>8, <1>18
<1>38. \A n \in AllNodes : s2.pendings[n] \cap Controls \subseteq s.pendings[n]
  <2> SUFFICES ASSUME NEW n \in AllNodes PROVE s2.pendings[n] \cap Controls \subseteq s.pendings[n]
    OBVIOUS
  <2>1. Views(s) \cap Controls = {}
    BY NodeSets DEF Views
  <2>2. sC.pendings[n] \subseteq s.pendings[n]
    BY <1>8
  <2> QED BY <1>33, <2>1, <2>2
<1> QED BY <1>7, <1>17, <1>21, <1>24, <1>26, <1>32, <1>34, <1>36, <1>37, <1>38

-----------------------------------------------------------------------------
(* How stores evolve *)

\* Wakeable w waits in the list of the variable that n stands for.
Hangs(s, n, w) == s.kind[Base(s, n)] \in Unbound /\ w \in s.pendings[Base(s, n)]

\* How a store may change in a step: what is equal, determined or needed stays so;
\* a thread leaves a list only when it is woken, and one that waits quietly is woken
\* when its variable becomes needed; a control variable leaves a list only as unit.
Evolves(s, s2) ==
    /\ s.woken \subseteq s2.woken
    /\ \A m \in AllNodes : s.kind[m] # "Free" =>
         s2.kind[m] # "Free" /\ Base(s2, m) = Base(s2, Base(s, m))
    /\ \A m \in Visible : s.kind[Base(s, m)] \in {"Value", "FailedValue"} =>
         Base(s2, m) = Base(s, m) /\ s2.kind[Base(s, m)] = s.kind[Base(s, m)]
    /\ \A m \in AllNodes, t \in Threads : Hangs(s, m, t) =>
         \/ t \in s2.woken
         \/ Hangs(s2, m, t) /\ (s2.needed[Base(s2, m)] => s.needed[Base(s, m)])
    /\ \A m \in Visible, c \in Controls :
         Hangs(s, m, c) /\ s2.kind[c] = "Variable" => Hangs(s2, m, c)
    /\ \A m \in Visible : s.kind[m] # "Free" /\ IsNeeded(s, m) => IsNeeded(s2, m)

\* Control variables that are unit stay unit.
UnitsStay(s, s2) == \A c \in Controls : s.kind[c] = "Value" => s2.kind[c] = "Value"
Grows(s, s2) == Evolves(s, s2) /\ UnitsStay(s, s2)

\* When a node is needed.
LEMMA NeededFacts ==
    ASSUME NEW s \in StoreType, NEW n
    PROVE  IsNeeded(s, n) <=> /\ s.kind[Base(s, n)] # "OptVar"
                              /\ s.kind[Base(s, n)] \in Unbound => s.needed[Base(s, n)]
BY DEF IsNeeded, Unbound

\* What is determined stays as it is.
LEMMA DeterminedStays ==
    ASSUME NEW s, NEW s2, Evolves(s, s2), NEW n \in Visible, NEW b, b = Base(s, n),
           s.kind[b] \in {"Value", "FailedValue"}
    PROVE  Base(s2, n) = b /\ s2.kind[b] = s.kind[b]
BY DEF Evolves

\* Changes of a store that are allowed compose.
LEMMA EvolvesTransitive ==
    ASSUME NEW s1, NEW s2, NEW s3, StoreInv(s1), StoreInv(s2), StoreInv(s3),
           Evolves(s1, s2), Grows(s2, s3)
    PROVE  Evolves(s1, s3) /\ (UnitsStay(s1, s2) => UnitsStay(s1, s3))
<1>1. Evolves(s2, s3) /\ UnitsStay(s2, s3)
  BY DEF Grows
<1>2. s1.woken \subseteq s3.woken
  BY <1>1 DEF Evolves
<1>3. ASSUME NEW m \in AllNodes, s1.kind[m] # "Free"
      PROVE  s3.kind[m] # "Free" /\ Base(s3, m) = Base(s3, Base(s1, m))
  <2>1. PICK b : b = Base(s1, m)
    OBVIOUS
  <2>2. b \in AllNodes /\ s1.kind[b] # "Free"
    BY <1>3, <2>1, BaseFacts
  <2>3. s2.kind[m] # "Free" /\ Base(s2, m) = Base(s2, b) /\ s2.kind[b] # "Free"
    BY <1>3, <2>1, <2>2 DEF Evolves
  <2>4. s3.kind[m] # "Free" /\ Base(s3, m) = Base(s3, Base(s2, m))
    BY <1>1, <2>3 DEF Evolves
  <2>5. Base(s3, b) = Base(s3, Base(s2, b))
    BY <1>1, <2>2, <2>3 DEF Evolves
  <2> QED BY <2>1, <2>3, <2>4, <2>5
<1>4. ASSUME NEW m \in Visible, s1.kind[Base(s1, m)] \in {"Value", "FailedValue"}
      PROVE  Base(s3, m) = Base(s1, m) /\ s3.kind[Base(s1, m)] = s1.kind[Base(s1, m)]
  <2>1. Base(s2, m) = Base(s1, m) /\ s2.kind[Base(s1, m)] = s1.kind[Base(s1, m)]
    BY <1>4 DEF Evolves
  <2>2. Base(s3, m) = Base(s2, m) /\ s3.kind[Base(s2, m)] = s2.kind[Base(s2, m)]
    BY <1>1, <1>4, <2>1 DEF Evolves
  <2> QED BY <2>1, <2>2
<1>5. ASSUME NEW m \in AllNodes, NEW t \in Threads, Hangs(s1, m, t)
      PROVE  \/ t \in s3.woken
             \/ Hangs(s3, m, t) /\ (s3.needed[Base(s3, m)] => s1.needed[Base(s1, m)])
  <2>1. \/ t \in s2.woken
        \/ Hangs(s2, m, t) /\ (s2.needed[Base(s2, m)] => s1.needed[Base(s1, m)])
    BY <1>5 DEF Evolves
  <2>2. t \in s2.woken => t \in s3.woken
    BY <1>1 DEF Evolves
  <2>3. Hangs(s2, m, t) =>
          \/ t \in s3.woken
          \/ Hangs(s3, m, t) /\ (s3.needed[Base(s3, m)] => s2.needed[Base(s2, m)])
    BY <1>1 DEF Evolves
  <2> QED BY <2>1, <2>2, <2>3
<1>6. ASSUME NEW m \in Visible, NEW c \in Controls, Hangs(s1, m, c), s3.kind[c] = "Variable"
      PROVE  Hangs(s3, m, c)
  <2>1. s2.kind[c] = "Variable"
    <3>1. s2.kind[c] \in {"Free", "Variable", "Value"}
      BY DEF StoreInv, Structure, ControlLists
    <3>2. s2.kind[c] # "Value"
      BY <1>1, <1>6 DEF UnitsStay
    <3>3. s1.kind[c] # "Free"
      <4>1. Base(s1, m) \in AllNodes
        BY BaseFacts, NodeSets
      <4> QED BY <1>6, <4>1 DEF StoreInv, Structure, ControlLists, Hangs
    <3>4. s2.kind[c] # "Free"
      BY <3>3, NodeSets DEF Evolves
    <3> QED BY <3>1, <3>2, <3>4
  <2>2. Hangs(s2, m, c)
    BY <1>6, <2>1 DEF Evolves
  <2> QED BY <1>1, <1>6, <2>2 DEF Evolves
<1>7. ASSUME NEW m \in Visible, s1.kind[m] # "Free", IsNeeded(s1, m)
      PROVE  IsNeeded(s3, m)
  <2>1. s2.kind[m] # "Free" /\ IsNeeded(s2, m)
    BY <1>7, NodeSets DEF Evolves
  <2> QED BY <1>1, <2>1 DEF Evolves
<1>8. UnitsStay(s1, s2) => UnitsStay(s1, s3)
  BY <1>1 DEF UnitsStay
<1> QED BY <1>2, <1>3, <1>4, <1>5, <1>6, <1>7, <1>8 DEF Evolves

\* A store that stays as it is evolves.
LEMMA GrowsReflexive ==
    ASSUME NEW s, StoreInv(s)
    PROVE  Grows(s, s)
<1>1. \A m \in AllNodes : Base(s, m) = Base(s, Base(s, m))
  BY BaseFacts
<1> QED BY <1>1 DEF Grows, Evolves, UnitsStay

\* Variable b0 loses its list to Wake, and stays or becomes b1.
LEMMA WakeGrows ==
    ASSUME NEW s, StoreInv(s), NEW u, NEW list, WakeInv(u, list), NEW s2, s2 = Wake(u, list),
           NEW b0 \in AllNodes, NEW b1 \in AllNodes,
           Base(s, b0) = b0,
           \A w \in s.pendings[b0] : w \in list \/ (b0 \in list \cap Controls /\ w \in u.pendings[b0]),
           u.woken = s.woken,
           \A m \in AllNodes \ {b0} : /\ u.kind[m] = s.kind[m]
                                      /\ u.pendings[m] = s.pendings[m]
                                      /\ u.needed[m] <=> s.needed[m],
           u.kind[b0] # "Free",
           s.kind[b0] \in {"Value", "FailedValue"} => u.kind[b0] = s.kind[b0] /\ b1 = b0,
           \A m \in AllNodes : Base(s2, m) = IF Base(s, m) = b0 THEN b1 ELSE Base(s, m),
           IsNeeded(s, b0) => IsNeeded(s2, b0)
    PROVE  Grows(s, s2)
<1>1. PICK R : R = Settled(u, list)
  OBVIOUS
<1>2. PICK cs : cs = list \cap Controls
  OBVIOUS
<1>3. /\ StoreInv(s2)
      /\ \A n \in AllNodes :
           s2.kind[n] =
             IF n \in R THEN "Reference"
             ELSE IF n \in cs THEN "Value"
             ELSE IF u.kind[n] = "OptVar" /\ \E r \in list \cap Views(u) : Target(u, r) = n
                  THEN "Variable" ELSE u.kind[n]
      /\ \A n \in AllNodes : s2.needed[n] <=> u.needed[n] /\ n \notin cs
      /\ \A n \in AllNodes \ cs : u.pendings[n] \ cs \subseteq s2.pendings[n]
      /\ u.woken \cup (list \cap Threads) \subseteq s2.woken
      /\ \A c \in cs : u.pendings[c] \subseteq s2.woken
  BY <1>1, <1>2, WakeEffect
<1>4. \A r \in R : u.kind[r] = "ReadOnly" /\ r \in Nodes
  BY <1>1 DEF Settled, Views
<1>5. ASSUME NEW m \in AllNodes
      PROVE  /\ Base(s, m) \in AllNodes
             /\ s.kind[Base(s, m)] \notin {"Reference", "ReadOnly"}
             /\ Base(s, Base(s, m)) = Base(s, m)
             /\ s.kind[m] # "Free" => s.kind[Base(s, m)] # "Free"
             /\ m \in Visible => Base(s, m) \in Visible /\ Base(s, m) \notin cs
  BY <1>2, BaseFacts, NodeSets
<1>6. s \in StoreType /\ s2 \in StoreType /\ ControlLists(s)
  BY <1>3 DEF StoreInv, Structure
<1>7. s.woken \subseteq s2.woken
  BY <1>3
<1>8. ASSUME NEW m \in AllNodes, s.kind[m] # "Free"
      PROVE  s2.kind[m] # "Free" /\ Base(s2, m) = Base(s2, Base(s, m))
  <2>1. Base(s2, m) = Base(s2, Base(s, m))
    BY <1>5
  <2>2. u.kind[m] # "Free"
    BY <1>8
  <2> QED BY <1>3, <2>1, <2>2
<1>9. \A b \in AllNodes : b # b0 /\ s.kind[b] \notin {"OptVar", "ReadOnly"} /\ b \notin cs
        => s2.kind[b] = s.kind[b]
  BY <1>3, <1>4
<1>10. ASSUME NEW m \in Visible, s.kind[Base(s, m)] \in {"Value", "FailedValue"}
       PROVE  Base(s2, m) = Base(s, m) /\ s2.kind[Base(s, m)] = s.kind[Base(s, m)]
  <2>1. m \in AllNodes
    BY NodeSets
  <2>2. PICK b \in AllNodes : b = Base(s, m)
    BY <1>5, <2>1
  <2>3. b \notin cs
    BY <1>5, <2>1, <2>2
  <2>4. CASE b = b0
    <3>1. u.kind[b] = s.kind[b] /\ b1 = b0
      BY <1>10, <2>2, <2>4
    <3>2. s2.kind[b] = s.kind[b]
      BY <1>3, <1>4, <1>10, <2>2, <2>3, <3>1
    <3> QED BY <2>1, <2>2, <2>4, <3>1, <3>2
  <2>5. CASE b # b0
    BY <1>9, <1>10, <2>1, <2>2, <2>3, <2>5
  <2> QED BY <2>4, <2>5
<1>11. ASSUME NEW m \in AllNodes, NEW t \in Threads, Hangs(s, m, t)
       PROVE  \/ t \in s2.woken
              \/ Hangs(s2, m, t) /\ (s2.needed[Base(s2, m)] => s.needed[Base(s, m)])
  <2>1. PICK b \in AllNodes : b = Base(s, m)
    BY <1>5
  <2>2. s.kind[b] \in Unbound /\ t \in s.pendings[b]
    BY <1>11, <2>1 DEF Hangs
  <2>3. CASE b = b0
    BY <1>2, <1>3, <2>2, <2>3
  <2>4. CASE b # b0 /\ b \in cs
    BY <1>3, <2>2, <2>4
  <2>5. CASE b # b0 /\ b \notin cs
    <3>1. Base(s2, m) = b
      BY <2>1, <2>5
    <3>2. t \notin cs
      BY <1>2, NodeSets
    <3>3. s2.kind[b] = s.kind[b]
      BY <1>9, <2>2, <2>5 DEF Unbound
    <3>4. t \in s2.pendings[b]
      BY <1>3, <2>2, <2>5, <3>2
    <3>5. s2.needed[b] => s.needed[b]
      BY <1>3, <2>5
    <3> QED BY <2>1, <2>2, <3>1, <3>3, <3>4, <3>5 DEF Hangs
  <2> QED BY <2>3, <2>4, <2>5
<1>12. ASSUME NEW m \in Visible, NEW c \in Controls, Hangs(s, m, c), s2.kind[c] = "Variable"
       PROVE  Hangs(s2, m, c)
  <2>1. m \in AllNodes /\ c \in AllNodes
    BY NodeSets
  <2>2. PICK b \in AllNodes : b = Base(s, m)
    BY <1>5, <2>1
  <2>3. s.kind[b] \in Unbound /\ c \in s.pendings[b] /\ b \notin cs
    BY <1>5, <1>12, <2>1, <2>2 DEF Hangs
  <2>4. c \notin list
    <3>1. c \notin R
      BY <1>4, NodeSets
    <3> QED BY <1>2, <1>3, <1>12, <2>1, <3>1
  <2>5. b # b0
    BY <1>2, <2>3, <2>4
  <2>6. s2.kind[b] = s.kind[b]
    BY <1>9, <2>3, <2>5 DEF Unbound
  <2>7. c \in s2.pendings[b]
    BY <1>2, <1>3, <2>3, <2>4, <2>5
  <2>8. Base(s2, m) = b
    BY <2>1, <2>2, <2>5
  <2> QED BY <2>3, <2>6, <2>7, <2>8 DEF Hangs
<1>13. ASSUME NEW m \in Visible, s.kind[m] # "Free", IsNeeded(s, m)
       PROVE  IsNeeded(s2, m)
  <2>1. m \in AllNodes
    BY NodeSets
  <2>2. PICK b \in AllNodes : b = Base(s, m)
    BY <1>5, <2>1
  <2>3. CASE b = b0
    <3>1. IsNeeded(s, b0)
      BY <1>13, <2>2, <2>3 DEF IsNeeded
    <3>2. IsNeeded(s2, b0) /\ Base(s2, b0) = b1 /\ Base(s2, m) = b1
      BY <2>1, <2>2, <2>3, <3>1
    <3> QED BY <1>6, <3>2, NeededFacts
  <2>4. CASE b # b0
    <3>1. Base(s2, m) = b
      BY <2>1, <2>2, <2>4
    <3>2. s.kind[b] # "OptVar" /\ (s.kind[b] \in Unbound => s.needed[b])
      BY <1>6, <1>13, <2>2, NeededFacts
    <3>3. s.kind[b] # "ReadOnly" /\ b \notin cs
      BY <1>5, <2>1, <2>2
    <3>4. s2.kind[b] = s.kind[b]
      BY <1>9, <2>4, <3>2, <3>3
    <3>5. s2.needed[b] <=> s.needed[b]
      BY <1>3, <2>4, <3>3
    <3> QED BY <1>6, <3>1, <3>2, <3>4, <3>5, NeededFacts
  <2> QED BY <2>3, <2>4
<1>14. ASSUME NEW c \in Controls, s.kind[c] = "Value"
       PROVE  s2.kind[c] = "Value"
  <2>1. c \in AllNodes /\ u.kind[c] = "Value"
    BY <1>14, NodeSets
  <2>2. c \notin R
    BY <1>4, NodeSets
  <2> QED BY <1>3, <2>1, <2>2
<1> QED BY <1>7, <1>8, <1>10, <1>11, <1>12, <1>13, <1>14 DEF Grows, Evolves, UnitsStay

-----------------------------------------------------------------------------
(* addToSuspendList *)

\* Stores with the same references and views delegate alike.
LEMMA SameBases ==
    ASSUME NEW s, LinksLead(s), Acyclic(s), NEW s2,
           \A m \in AllNodes :
              s.kind[m] \in {"Reference", "ReadOnly"} \/ s2.kind[m] \in {"Reference", "ReadOnly"}
                => s2.kind[m] = s.kind[m],
           \A m \in AllNodes :
              s.kind[m] \in {"Reference", "ReadOnly"} => s2.link[m] = s.link[m]
    PROVE  /\ Acyclic(s2)
           /\ Views(s2) = Views(s)
           /\ \A m \in AllNodes : Deref(s2, m) = Deref(s, m)
           /\ \A m \in AllNodes : Base(s2, m) = Base(s, m)
           /\ \A r \in Views(s) : Target(s2, r) = Target(s, r)
<1>1. Acyclic(s2) /\ \A m \in AllNodes : Deref(s2, m) = Deref(s, m)
  <2>1. \A m \in AllNodes : s2.kind[m] = "Reference" <=> s.kind[m] = "Reference"
    OBVIOUS
  <2>2. \A m \in AllNodes : s.kind[m] = "Reference" => s2.link[m] = s.link[m]
    OBVIOUS
  <2> QED BY <2>1, <2>2, SameReferences
<1>2. Views(s2) = Views(s)
  BY NodeSets DEF Views
<1>3. \A r \in AllNodes : s.kind[r] = "ReadOnly" => s.link[r] \in AllNodes
  BY NodeSets DEF LinksLead
<1>4. \A r \in AllNodes : s.kind[r] = "ReadOnly" => Target(s2, r) = Target(s, r)
  BY <1>1, <1>3 DEF Target
<1>5. \A r \in Views(s) : Target(s2, r) = Target(s, r)
  BY <1>4, NodeSets DEF Views
<1>6. ASSUME NEW m \in AllNodes PROVE Base(s2, m) = Base(s, m)
  <2>1. PICK d : d = Deref(s, m)
    OBVIOUS
  <2>2. d \in AllNodes /\ d = Deref(s2, m)
    BY <1>1, <2>1, DerefFacts
  <2>3. s2.kind[d] = "ReadOnly" <=> s.kind[d] = "ReadOnly"
    BY <2>2
  <2>4. Base(s, m) = IF s.kind[d] = "ReadOnly" THEN Target(s, d) ELSE d
    BY <2>1 DEF Base, Target
  <2>5. Base(s2, m) = IF s2.kind[d] = "ReadOnly" THEN Target(s2, d) ELSE d
    BY <2>2 DEF Base, Target
  <2> QED BY <1>4, <2>2, <2>3, <2>4, <2>5
<1> QED BY <1>1, <1>2, <1>5, <1>6

\* Variable b gains a need it did not have as an OptVar, or entries of its list.
LEMMA LocalChange ==
    ASSUME NEW s, StoreInv(s), NEW s2 \in StoreType, NEW b \in AllNodes,
           NeedsProtection(s.kind[b]),
           s2.link = s.link, s2.woken = s.woken,
           \A m \in AllNodes \ {b} : /\ s2.kind[m] = s.kind[m]
                                     /\ s2.pendings[m] = s.pendings[m]
                                     /\ s2.needed[m] <=> s.needed[m],
           s2.kind[b] = IF s.kind[b] = "OptVar" THEN "Variable" ELSE s.kind[b],
           s.pendings[b] \subseteq s2.pendings[b],
           b \in Controls => s2.pendings[b] \subseteq Threads,
           \A c \in s2.pendings[b] \cap Controls : s.kind[c] = "Variable",
           s.needed[b] => s2.needed[b],
           s2.needed[b] => s.needed[b] \/ s.kind[b] = "OptVar"
    PROVE  /\ StoreInv(s2)
           /\ Grows(s, s2)
           /\ \A m \in AllNodes : Base(s2, m) = Base(s, m)
           /\ \A m \in AllNodes : Deref(s2, m) = Deref(s, m)
<1>1. /\ s \in StoreType /\ LinksLead(s) /\ Acyclic(s) /\ ControlLists(s)
      /\ TerminationKinds(s) /\ OnlyVariables(s)
      /\ \A r \in Views(s) : Listed(s, r)
  BY DEF StoreInv, Structure
<1>2. s.kind[b] \in Unbound \cup {"OptVar"} /\ s2.kind[b] \in Unbound
  BY DEF NeedsProtection, Unbound
<1>3. \A m \in AllNodes :
        s.kind[m] \in {"Reference", "ReadOnly"} \/ s2.kind[m] \in {"Reference", "ReadOnly"}
          => s2.kind[m] = s.kind[m]
  BY <1>2 DEF Unbound
<1>4. /\ Acyclic(s2)
      /\ Views(s2) = Views(s)
      /\ \A m \in AllNodes : Deref(s2, m) = Deref(s, m)
      /\ \A m \in AllNodes : Base(s2, m) = Base(s, m)
      /\ \A r \in Views(s) : Target(s2, r) = Target(s, r)
  BY <1>1, <1>3, SameBases
<1>5. \A m \in AllNodes : /\ s.kind[m] # "OptVar" => s2.kind[m] = s.kind[m]
                          /\ s.kind[m] # "Free" => s2.kind[m] # "Free"
                          /\ s.pendings[m] \subseteq s2.pendings[m]
                          /\ s2.needed[m] => s.needed[m] \/ s.kind[m] = "OptVar"
                          /\ s.needed[m] => s2.needed[m]
  BY <1>2 DEF Unbound
<1>6. LinksLead(s2)
  <2> SUFFICES ASSUME NEW n \in AllNodes, s2.kind[n] \in {"Reference", "ReadOnly"}
               PROVE  /\ n \in Nodes
                      /\ s2.link[n] \in Visible
                      /\ s2.kind[s2.link[n]] # "Free"
                      /\ s2.kind[n] = "Reference" /\ s2.link[n] \in TerminationVars
                           => s2.kind[s2.link[n]] = "Value"
    BY DEF LinksLead
  <2>1. s.kind[n] = s2.kind[n] /\ s2.link[n] = s.link[n]
    BY <1>3
  <2>2. /\ n \in Nodes /\ s.link[n] \in Visible /\ s.link[n] \in AllNodes
        /\ s.kind[s.link[n]] # "Free"
        /\ s.kind[n] = "Reference" /\ s.link[n] \in TerminationVars
                           => s.kind[s.link[n]] = "Value"
    BY <1>1, <2>1, NodeSets DEF LinksLead
  <2> QED BY <1>5, <2>1, <2>2
<1>7. ControlLists(s2)
  <2>1. ASSUME NEW c \in Controls
        PROVE  /\ s2.kind[c] \in {"Free", "Variable", "Value"} /\ s2.pendings[c] \subseteq Threads
               /\ s.kind[c] = "Variable" => s2.kind[c] = "Variable"
    <3>1. c \in AllNodes /\ s.kind[c] \in {"Free", "Variable", "Value"} /\ s.pendings[c] \subseteq Threads
      BY <1>1, NodeSets DEF ControlLists
    <3> QED BY <1>5, <3>1
  <2>2. \A n \in AllNodes : \A c \in s2.pendings[n] \cap Controls : s.kind[c] = "Variable"
    BY <1>1 DEF ControlLists
  <2> QED BY <2>1, <2>2 DEF ControlLists
<1>8. TerminationKinds(s2)
  <2>1. \A v \in TerminationVars : v \in AllNodes /\ s.kind[v] \in {"OptVar", "Variable", "Value"}
    BY <1>1, NodeSets DEF TerminationKinds
  <2> QED BY <1>2, <1>5, <2>1 DEF TerminationKinds
<1>9. OnlyVariables(s2)
  BY <1>1, <1>2 DEF OnlyVariables
<1>10. \A r \in Views(s2) : Listed(s2, r)
  <2> SUFFICES ASSUME NEW r \in Views(s) PROVE Listed(s2, r)
    BY <1>4
  <2>1. Target(s, r) \in AllNodes /\ Listed(s, r)
    BY <1>1, TargetFacts
  <2> QED BY <1>4, <1>5, <2>1 DEF Listed, Unbound
<1>11. StoreInv(s2)
  BY <1>4, <1>6, <1>7, <1>8, <1>9, <1>10 DEF StoreInv, Structure
<1>12. \A m \in AllNodes : Base(s, m) \in AllNodes /\ Base(s, Base(s, m)) = Base(s, m)
  BY BaseFacts
<1>13. Evolves(s, s2)
  <2>1. ASSUME NEW m \in AllNodes, s.kind[m] # "Free"
        PROVE  s2.kind[m] # "Free" /\ Base(s2, m) = Base(s2, Base(s, m))
    BY <1>4, <1>5, <1>12, <2>1
  <2>2. ASSUME NEW m \in Visible, s.kind[Base(s, m)] \in {"Value", "FailedValue"}
        PROVE  Base(s2, m) = Base(s, m) /\ s2.kind[Base(s, m)] = s.kind[Base(s, m)]
    BY <1>4, <1>5, <1>12, <2>2, NodeSets
  <2>3. ASSUME NEW m \in AllNodes, NEW w, Hangs(s, m, w)
        PROVE  Hangs(s2, m, w) /\ (s2.needed[Base(s2, m)] => s.needed[Base(s, m)])
    <3>1. PICK d \in AllNodes : d = Base(s, m) /\ d = Base(s2, m)
      BY <1>4, <1>12
    <3>2. s.kind[d] \in Unbound /\ w \in s.pendings[d] /\ s.kind[d] # "OptVar"
      BY <2>3, <3>1 DEF Hangs, Unbound
    <3>3. s2.kind[d] \in Unbound /\ w \in s2.pendings[d] /\ (s2.needed[d] => s.needed[d])
      BY <1>5, <3>2
    <3> QED BY <3>1, <3>3 DEF Hangs
  <2>4. ASSUME NEW m \in Visible, IsNeeded(s, m)
        PROVE  IsNeeded(s2, m)
    <3>1. PICK d \in AllNodes : d = Base(s, m) /\ d = Base(s2, m)
      BY <1>4, <1>12, NodeSets
    <3>2. s.kind[d] # "OptVar" /\ (s.kind[d] \in Unbound => s.needed[d])
      <4>1. IsNeeded(s, m) <=> /\ s.kind[Base(s, m)] # "OptVar"
                               /\ s.kind[Base(s, m)] \in Unbound => s.needed[Base(s, m)]
        BY <1>1, NeededFacts
      <4> QED BY <2>4, <3>1, <4>1
    <3>3. s2.kind[d] # "OptVar" /\ (s2.kind[d] \in Unbound => s2.needed[d])
      BY <1>5, <3>2
    <3> QED BY <3>1, <3>3, NeededFacts
  <2> QED BY <2>1, <2>2, <2>3, <2>4, NodeSets DEF Evolves
<1>14. UnitsStay(s, s2)
  BY <1>5, NodeSets DEF UnitsStay
<1> QED BY <1>4, <1>11, <1>13, <1>14 DEF Grows

\* addToSuspendList.
LEMMA AddToSuspendListEffect ==
    ASSUME NEW s, StoreInv(s), NEW n \in AllNodes, NEW w \in Wakeables,
           w \notin Threads => n \in Visible,
           w \in Controls => s.kind[w] = "Variable",
           NEW s2, s2 = AddToSuspendList(s, n, w)
    PROVE  /\ StoreInv(s2)
           /\ Grows(s, s2)
           /\ \A m \in AllNodes : Base(s2, m) = Base(s, m)
           /\ \A m \in AllNodes : Deref(s2, m) = Deref(s, m)
           /\ NeedsProtection(s.kind[Base(s, n)]) => Hangs(s2, n, w)
           /\ \A m \in AllNodes : s2.kind[m] = s.kind[m] \/ m = Base(s, n)
           /\ \A m \in AllNodes : IsNeeded(s2, m) <=> IsNeeded(s, m)
           /\ \A m \in AllNodes : m # Base(s, n) => s2.pendings[m] = s.pendings[m]
<1>1. PICK b \in AllNodes : b = Base(s, n)
  BY BaseFacts
<1>2. s \in StoreType
  BY DEF StoreInv, Structure
<1>3. CASE ~NeedsProtection(s.kind[b])
  <2>1. s2 = s
    BY <1>1, <1>3 DEF AddToSuspendList
  <2> QED BY <1>1, <1>3, <2>1, GrowsReflexive
<1>4. CASE NeedsProtection(s.kind[b])
  <2>1. PICK kind : kind = [s.kind EXCEPT ![b] = IF @ = "OptVar" THEN "Variable" ELSE @]
    OBVIOUS
  <2>2. PICK pendings : pendings = [s.pendings EXCEPT ![b] = @ \cup {w}]
    OBVIOUS
  <2>3. s2 = [s EXCEPT !.kind = kind, !.pendings = pendings]
    BY <1>1, <1>2, <1>4, <2>1, <2>2 DEF AddToSuspendList, StoreType
  <2>4. kind \in [AllNodes -> Kinds]
    BY <1>2, <2>1 DEF StoreType, Kinds, Transient, Unbound
  <2>5. pendings \in [AllNodes -> SUBSET Wakeables]
    BY <1>2, <2>2 DEF StoreType
  <2>6. /\ s2 \in StoreType /\ s2.kind = kind /\ s2.pendings = pendings
        /\ s2.link = s.link /\ s2.needed = s.needed /\ s2.woken = s.woken
    BY <1>2, <2>3, <2>4, <2>5 DEF StoreType
  <2>7. /\ \A m \in AllNodes : s2.pendings[m] = IF m = b THEN s.pendings[b] \cup {w} ELSE s.pendings[m]
        /\ \A m \in AllNodes : s2.kind[m] = IF m = b /\ s.kind[b] = "OptVar" THEN "Variable" ELSE s.kind[m]
    BY <1>2, <2>1, <2>2, <2>6 DEF StoreType
  <2>8. b \in Controls => s2.pendings[b] \subseteq Threads
    <3>1. n \in Visible => b \notin Controls
      BY <1>1, BaseFacts, NodeSets
    <3>2. b \in Controls => s.pendings[b] \subseteq Threads
      BY DEF StoreInv, Structure, ControlLists
    <3> QED BY <2>7, <3>1, <3>2
  <2>9. \A c \in s2.pendings[b] \cap Controls : s.kind[c] = "Variable"
    BY <2>7 DEF StoreInv, Structure, ControlLists
  <2>10. /\ StoreInv(s2) /\ Grows(s, s2)
         /\ \A m \in AllNodes : Base(s2, m) = Base(s, m)
         /\ \A m \in AllNodes : Deref(s2, m) = Deref(s, m)
    BY <1>4, <2>6, <2>7, <2>8, <2>9, LocalChange
  <2>11. Hangs(s2, n, w)
    BY <1>1, <1>4, <2>7, <2>10 DEF Hangs, NeedsProtection, Unbound
  <2>12. ASSUME NEW m \in AllNodes PROVE IsNeeded(s2, m) <=> IsNeeded(s, m)
    <3>1. PICK d \in AllNodes : d = Base(s, m) /\ d = Base(s2, m)
      BY <2>10, BaseFacts
    <3>2. s.kind[d] \notin Unbound => ~s.needed[d]
      BY DEF StoreInv, Structure, OnlyVariables
    <3>3. s2.kind[d] = IF d = b /\ s.kind[b] = "OptVar" THEN "Variable" ELSE s.kind[d]
      BY <2>7
    <3>4. s2.needed[d] <=> s.needed[d]
      BY <2>6
    <3>5. /\ IsNeeded(s, m) <=> s.kind[d] # "OptVar" /\ (s.kind[d] \in Unbound => s.needed[d])
          /\ IsNeeded(s2, m) <=> s2.kind[d] # "OptVar" /\ (s2.kind[d] \in Unbound => s2.needed[d])
      BY <1>2, <2>6, <3>1, NeededFacts
    <3> QED BY <3>2, <3>3, <3>4, <3>5 DEF Unbound
  <2> QED BY <1>1, <2>6, <2>7, <2>10, <2>11, <2>12
<1> QED BY <1>3, <1>4

-----------------------------------------------------------------------------
(* markNeeded *)

\* The store just before Wake, when variable b0 has given up its list and no
\* reference or view has changed.
LEMMA DetachedInv ==
    ASSUME NEW s, StoreInv(s), NEW u \in StoreType, NEW b0 \in AllNodes,
           s.kind[b0] \notin {"Reference", "ReadOnly", "Free"},
           u.kind[b0] \notin {"Reference", "ReadOnly", "Free"},
           b0 \in Controls => u.kind[b0] \in {"Variable", "Value"},
           b0 \in TerminationVars => u.kind[b0] \in {"Variable", "Value"},
           s.kind[b0] = "Value" => u.kind[b0] = "Value",
           u.link = s.link, u.pendings[b0] = {}, u.kind[b0] \in Unbound \/ ~u.needed[b0],
           \A m \in AllNodes \ {b0} : /\ u.kind[m] = s.kind[m]
                                      /\ u.pendings[m] = s.pendings[m]
                                      /\ u.needed[m] <=> s.needed[m],
           b0 \in Controls => u.kind[b0] = s.kind[b0]
    PROVE  /\ WakeInv(u, s.pendings[b0])
           /\ \A m \in AllNodes : Base(u, m) = Base(s, m)
           /\ \A m \in AllNodes : Deref(u, m) = Deref(s, m)
           /\ \A r \in Views(s) : Target(u, r) = Target(s, r)
           /\ Views(u) = Views(s)
<1>1. /\ s \in StoreType /\ LinksLead(s) /\ Acyclic(s) /\ ControlLists(s)
      /\ TerminationKinds(s) /\ OnlyVariables(s)
      /\ \A r \in Views(s) : Listed(s, r)
  BY DEF StoreInv, Structure
<1>2. PICK list : list = s.pendings[b0]
  OBVIOUS
<1>3. list \subseteq Wakeables
  BY <1>1, <1>2 DEF StoreType
<1>4. /\ Acyclic(u)
      /\ Views(u) = Views(s)
      /\ \A m \in AllNodes : Deref(u, m) = Deref(s, m)
      /\ \A m \in AllNodes : Base(u, m) = Base(s, m)
      /\ \A r \in Views(s) : Target(u, r) = Target(s, r)
  <2>1. \A m \in AllNodes :
          s.kind[m] \in {"Reference", "ReadOnly"} \/ u.kind[m] \in {"Reference", "ReadOnly"}
            => u.kind[m] = s.kind[m]
    OBVIOUS
  <2> QED BY <1>1, <2>1, SameBases
<1>5. LinksLead(u)
  <2> SUFFICES ASSUME NEW n \in AllNodes, u.kind[n] \in {"Reference", "ReadOnly"}
               PROVE  /\ n \in Nodes
                      /\ u.link[n] \in Visible
                      /\ u.kind[u.link[n]] # "Free"
                      /\ u.kind[n] = "Reference" /\ u.link[n] \in TerminationVars
                           => u.kind[u.link[n]] = "Value"
    BY DEF LinksLead
  <2>1. s.kind[n] = u.kind[n] /\ u.link[n] = s.link[n]
    OBVIOUS
  <2>2. /\ n \in Nodes /\ s.link[n] \in Visible /\ s.link[n] \in AllNodes
        /\ s.kind[s.link[n]] # "Free"
        /\ s.kind[n] = "Reference" /\ s.link[n] \in TerminationVars
                           => s.kind[s.link[n]] = "Value"
    BY <1>1, <2>1, NodeSets DEF LinksLead
  <2> QED BY <2>1, <2>2
<1>6. ControlLists(u)
  <2>1. ASSUME NEW c \in Controls
        PROVE  /\ u.kind[c] \in {"Free", "Variable", "Value"} /\ u.pendings[c] \subseteq Threads
               /\ u.kind[c] = s.kind[c]
    BY <1>1, NodeSets DEF ControlLists
  <2>2. \A n \in AllNodes : u.pendings[n] \subseteq s.pendings[n]
    OBVIOUS
  <2> QED BY <1>1, <2>1, <2>2 DEF ControlLists
<1>7. TerminationKinds(u)
  BY <1>1, NodeSets DEF TerminationKinds
<1>8. OnlyVariables(u)
  BY <1>1 DEF OnlyVariables
<1>9. ASSUME NEW r \in Views(u) PROVE r \in list \/ Listed(u, r)
  <2>1. r \in Views(s) /\ Listed(s, r) /\ Target(u, r) = Target(s, r) /\ Target(s, r) \in AllNodes
    BY <1>1, <1>4, TargetFacts
  <2> QED BY <1>2, <2>1 DEF Listed
<1>10. ASSUME NEW r \in Settled(u, list) PROVE Target(u, r) \notin Settled(u, list)
  <2>1. r \in Views(s) /\ Target(u, r) = Target(s, r) /\ s.kind[Target(s, r)] \in Unbound
    BY <1>1, <1>4 DEF Settled, Listed
  <2>2. Target(s, r) \notin Views(s)
    BY <2>1 DEF Views, Unbound
  <2> QED BY <1>4, <2>1, <2>2 DEF Settled
<1>11. WakeInv(u, list)
  BY <1>3, <1>4, <1>5, <1>6, <1>7, <1>8, <1>9, <1>10 DEF WakeInv, Structure
<1> QED BY <1>2, <1>4, <1>11

\* The bases after Wake, in terms of the store just before it.
LEMMA WakeBases ==
    ASSUME NEW u, NEW list, WakeInv(u, list), NEW s2, s2 = Wake(u, list), NEW m \in AllNodes, NEW d,
           d = IF Deref(u, m) \in Settled(u, list) THEN Target(u, Deref(u, m)) ELSE Deref(u, m)
    PROVE  Base(s2, m) = IF u.kind[d] = "ReadOnly" THEN Target(u, d) ELSE d
<1>1. /\ Deref(s2, m) = d
      /\ \A r \in Views(u) \ Settled(u, list) : Target(s2, r) = Target(u, r)
      /\ \A n \in AllNodes :
           s2.kind[n] =
             IF n \in Settled(u, list) THEN "Reference"
             ELSE IF n \in list \cap Controls THEN "Value"
             ELSE IF u.kind[n] = "OptVar" /\ \E r \in list \cap Views(u) : Target(u, r) = n
                  THEN "Variable" ELSE u.kind[n]
  BY WakeEffect
<1>2. LinksLead(u) /\ Acyclic(u) /\ ControlLists(u)
  BY DEF WakeInv, Structure
<1>3. d \in AllNodes /\ d \notin Settled(u, list)
  <2>1. \A r \in Settled(u, list) : r \in Views(u) /\ Target(u, r) \notin Settled(u, list)
    BY DEF WakeInv, Settled
  <2>2. \A r \in Views(u) : Target(u, r) \in AllNodes
    BY <1>2, TargetFacts
  <2> QED BY <1>2, <2>1, <2>2, DerefFacts
<1>4. s2.kind[d] = "ReadOnly" <=> u.kind[d] = "ReadOnly"
  <2>1. d \in Controls => u.kind[d] # "ReadOnly"
    BY <1>2 DEF ControlLists
  <2> QED BY <1>1, <1>3, <2>1
<1>5. u.kind[d] = "ReadOnly" => d \in Views(u)
  BY <1>2, <1>3 DEF LinksLead, Views
<1>6. Base(s2, m) = IF s2.kind[d] = "ReadOnly" THEN Target(s2, d) ELSE d
  BY <1>1 DEF Base, Target
<1> QED BY <1>1, <1>3, <1>4, <1>5, <1>6

\* When no view leads away from its variable, waking its list moves nothing.
LEMMA WakeKeepsBases ==
    ASSUME NEW s, StoreInv(s), NEW u, NEW list, WakeInv(u, list), NEW s2, s2 = Wake(u, list),
           \A m \in AllNodes : Deref(u, m) = Deref(s, m),
           \A r \in Views(s) : Target(u, r) = Target(s, r),
           Views(u) = Views(s)
    PROVE  \A m \in AllNodes : Base(s2, m) = Base(s, m)
<1> SUFFICES ASSUME NEW m \in AllNodes PROVE Base(s2, m) = Base(s, m)
  OBVIOUS
<1>1. PICK e : e = Deref(s, m)
  OBVIOUS
<1>2. PICK d : d = IF e \in Settled(u, list) THEN Target(u, e) ELSE e
  OBVIOUS
<1>3. Base(s2, m) = IF u.kind[d] = "ReadOnly" THEN Target(u, d) ELSE d
  BY <1>1, <1>2, WakeBases
<1>4. LinksLead(s) /\ Acyclic(s) /\ LinksLead(u) /\ \A r \in Views(s) : Listed(s, r)
  BY DEF StoreInv, WakeInv, Structure
<1>5. e \in AllNodes
  BY <1>1, <1>4, DerefFacts
<1>6. \A n \in AllNodes : u.kind[n] = "ReadOnly" <=> n \in Views(s)
  BY <1>4, NodeSets DEF LinksLead, Views
<1>7. \A n \in AllNodes : s.kind[n] = "ReadOnly" <=> n \in Views(s)
  BY <1>4, NodeSets DEF LinksLead, Views
<1>8. Base(s, m) = IF s.kind[e] = "ReadOnly" THEN Target(s, e) ELSE e
  BY <1>1 DEF Base, Target
<1>9. CASE e \in Settled(u, list)
  <2>1. e \in Views(s) /\ d = Target(s, e)
    BY <1>2, <1>9 DEF Settled
  <2>2. d \in AllNodes /\ d \notin Views(s)
    BY <1>4, <2>1, TargetFacts DEF Listed, Views, Unbound
  <2> QED BY <1>3, <1>5, <1>6, <1>7, <1>8, <2>1, <2>2
<1>10. CASE e \notin Settled(u, list)
  BY <1>2, <1>3, <1>5, <1>6, <1>7, <1>8, <1>10
<1> QED BY <1>9, <1>10

\* The list of an unbound variable, which may have become needed, is woken.
LEMMA ReleaseEffect ==
    ASSUME NEW s, StoreInv(s), NEW b \in AllNodes, s.kind[b] \in Unbound,
           NEW u \in StoreType, u.kind = s.kind, u.link = s.link, u.woken = s.woken,
           s.needed[b] => u.needed[b],
           \A m \in AllNodes \ {b} : u.needed[m] <=> s.needed[m],
           \A m \in AllNodes : u.pendings[m] = IF m = b THEN {} ELSE s.pendings[m],
           NEW list, list = s.pendings[b], NEW s2, s2 = Wake(u, list)
    PROVE  /\ StoreInv(s2)
           /\ Grows(s, s2)
           /\ \A m \in AllNodes : Base(s2, m) = Base(s, m)
           /\ \A m \in AllNodes : s2.kind[m] = IF m \in list \cap Controls THEN "Value" ELSE s.kind[m]
           /\ \A m \in AllNodes : s2.needed[m] <=> u.needed[m] /\ m \notin list \cap Controls
           /\ \A m \in AllNodes : s2.pendings[m] \cap Controls \subseteq s.pendings[m]
<1>1. s \in StoreType /\ ControlLists(s) /\ TerminationKinds(s)
  BY DEF StoreInv, Structure
<1>2. s.kind[b] \notin {"Reference", "ReadOnly", "Free"} /\ Base(s, b) = b
  BY BaseFacts DEF Unbound
<1>3. /\ b \in Controls => u.kind[b] \in {"Variable", "Value"}
      /\ b \in TerminationVars => u.kind[b] \in {"Variable", "Value"}
  BY <1>1 DEF ControlLists, TerminationKinds, Unbound
<1>4. /\ WakeInv(u, list)
      /\ \A m \in AllNodes : Deref(u, m) = Deref(s, m)
      /\ \A r \in Views(s) : Target(u, r) = Target(s, r)
      /\ Views(u) = Views(s)
  BY <1>2, <1>3, DetachedInv
<1>5. \A m \in AllNodes : Base(s2, m) = Base(s, m)
  BY <1>4, WakeKeepsBases
<1>6. Settled(u, list) = {}
  <2>1. \A r \in Views(s) : s.kind[Target(s, r)] \in Unbound
    BY DEF StoreInv, Listed
  <2> QED BY <1>4, <2>1 DEF Settled, NeedsProtection
<1>7. \A r \in Views(s) : s.kind[Target(s, r)] # "OptVar"
  BY DEF StoreInv, Listed, Unbound
<1>8. /\ StoreInv(s2)
      /\ \A m \in AllNodes : s2.kind[m] = IF m \in list \cap Controls THEN "Value" ELSE s.kind[m]
      /\ \A m \in AllNodes : s2.needed[m] <=> u.needed[m] /\ m \notin list \cap Controls
  <2>1. /\ StoreInv(s2)
        /\ \A m \in AllNodes :
             s2.kind[m] =
               IF m \in Settled(u, list) THEN "Reference"
               ELSE IF m \in list \cap Controls THEN "Value"
               ELSE IF u.kind[m] = "OptVar" /\ \E r \in list \cap Views(u) : Target(u, r) = m
                    THEN "Variable" ELSE u.kind[m]
        /\ \A m \in AllNodes : s2.needed[m] <=> u.needed[m] /\ m \notin list \cap Controls
    BY <1>4, WakeEffect
  <2>2. \A m \in AllNodes : ~(u.kind[m] = "OptVar" /\ \E r \in list \cap Views(u) : Target(u, r) = m)
    BY <1>4, <1>7
  <2>3. \A m \in AllNodes : s2.kind[m] = IF m \in list \cap Controls THEN "Value" ELSE s.kind[m]
    BY <1>6, <2>1, <2>2
  <2> QED BY <2>1, <2>3
<1>9. ASSUME IsNeeded(s, b) PROVE IsNeeded(s2, b)
  <2>1. s2 \in StoreType
    BY <1>8 DEF StoreInv, Structure
  <2>2. u.needed[b]
    BY <1>1, <1>2, <1>9, NeededFacts
  <2>3. s2.kind[b] # "OptVar" /\ (s2.kind[b] \in Unbound => s2.needed[b])
    BY <1>8, <2>2 DEF Unbound
  <2> QED BY <1>2, <1>5, <2>1, <2>3, NeededFacts
<1>10. Grows(s, s2)
  <2>1. \A m \in AllNodes : Base(s2, m) = IF Base(s, m) = b THEN b ELSE Base(s, m)
    BY <1>5
  <2>2. \A w \in s.pendings[b] : w \in list \/ (b \in list \cap Controls /\ w \in u.pendings[b])
    OBVIOUS
  <2>3. \A m \in AllNodes \ {b} : /\ u.kind[m] = s.kind[m]
                                  /\ u.pendings[m] = s.pendings[m]
                                  /\ u.needed[m] <=> s.needed[m]
    OBVIOUS
  <2>4. u.kind[b] # "Free" /\ u.kind[b] = s.kind[b] /\ u.woken = s.woken
    BY <1>2
  <2> QED BY <1>2, <1>4, <1>9, <2>1, <2>2, <2>3, <2>4, WakeGrows
<1>11. \A m \in AllNodes : s2.pendings[m] \cap Controls \subseteq s.pendings[m]
  <2>1. \A m \in AllNodes : s2.pendings[m] \cap Controls \subseteq u.pendings[m]
    BY <1>4, WakeEffect
  <2> QED BY <2>1
<1> QED BY <1>5, <1>8, <1>10, <1>11

\* markNeeded: the variable is needed, its list is woken, nothing else becomes needed.
LEMMA MarkNeededEffect ==
    ASSUME NEW s, StoreInv(s), NEW n \in AllNodes, s.kind[n] # "Free",
           NEW s2, s2 = MarkNeeded(s, n)
    PROVE  /\ StoreInv(s2)
           /\ Grows(s, s2)
           /\ \A m \in AllNodes : Base(s2, m) = Base(s, m)
           /\ IsNeeded(s2, n)
           /\ IsNeeded(s, n) => s2 = s
           /\ \A m \in AllNodes \ Controls :
                s2.kind[m] = IF m = Base(s, n) /\ s.kind[m] = "OptVar" THEN "Variable" ELSE s.kind[m]
           /\ \A m \in AllNodes \ Controls : m # Base(s, n) => (s2.needed[m] <=> s.needed[m])
           /\ \A c \in Controls : s.kind[c] = "Variable" /\ c \notin s.pendings[Base(s, n)]
                => s2.kind[c] = "Variable"
           /\ \A m \in AllNodes : s2.pendings[m] \cap Controls \subseteq s.pendings[m]
<1>1. PICK b \in AllNodes : b = Base(s, n)
  BY BaseFacts
<1>2. /\ s.kind[b] \notin {"Reference", "ReadOnly", "Free"} /\ Base(s, b) = b
  BY <1>1, BaseFacts
<1>3. s \in StoreType /\ ControlLists(s) /\ TerminationKinds(s)
  BY DEF StoreInv, Structure
<1>4. CASE s.kind[b] = "OptVar"
  <2>1. PICK kind : kind = [s.kind EXCEPT ![b] = "Variable"]
    OBVIOUS
  <2>2. PICK needed : needed = [s.needed EXCEPT ![b] = TRUE]
    OBVIOUS
  <2>3. s2 = [s EXCEPT !.kind = kind, !.needed = needed]
    BY <1>1, <1>3, <1>4, <2>1, <2>2 DEF MarkNeeded, StoreType
  <2>4. kind \in [AllNodes -> Kinds] /\ needed \in [AllNodes -> BOOLEAN]
    BY <1>3, <2>1, <2>2 DEF StoreType, Kinds, Transient, Unbound
  <2>5. /\ s2 \in StoreType /\ s2.kind = kind /\ s2.needed = needed
        /\ s2.link = s.link /\ s2.pendings = s.pendings /\ s2.woken = s.woken
    BY <1>3, <2>3, <2>4 DEF StoreType
  <2>6. \A m \in AllNodes : s2.kind[m] = IF m = b THEN "Variable" ELSE s.kind[m]
    BY <1>3, <2>1, <2>5 DEF StoreType
  <2>7. \A m \in AllNodes : s2.needed[m] <=> m = b \/ s.needed[m]
    BY <1>3, <2>2, <2>5 DEF StoreType
  <2>8. b \notin Controls
    BY <1>3, <1>4 DEF ControlLists
  <2>9. \A c \in s2.pendings[b] \cap Controls : s.kind[c] = "Variable"
    BY <1>3, <2>5 DEF ControlLists
  <2>10. /\ StoreInv(s2) /\ Grows(s, s2)
         /\ \A m \in AllNodes : Base(s2, m) = Base(s, m)
    BY <1>4, <2>5, <2>6, <2>7, <2>8, <2>9, LocalChange DEF NeedsProtection
  <2>11. IsNeeded(s2, n) /\ ~IsNeeded(s, n)
    BY <1>1, <1>4, <2>6, <2>7, <2>10 DEF IsNeeded, Unbound
  <2> QED BY <1>1, <1>4, <2>5, <2>6, <2>7, <2>8, <2>10, <2>11, NodeSets
<1>5. CASE s.kind[b] \in Unbound /\ ~s.needed[b]
  <2>1. PICK needed, pendings : needed = [s.needed EXCEPT ![b] = TRUE] /\ pendings = [s.pendings EXCEPT ![b] = {}]
    OBVIOUS
  <2>2. PICK u, list : u = [s EXCEPT !.needed = needed, !.pendings = pendings] /\ list = s.pendings[b]
    OBVIOUS
  <2>3. s2 = Wake(u, list)
    <3>1. PICK s0 : s0 = [s EXCEPT !.needed[b] = TRUE]
      OBVIOUS
    <3>2. s2 = WakeUpPendings(s0, b)
      BY <1>1, <1>5, <3>1 DEF MarkNeeded, Unbound
    <3>3. s0 = [s EXCEPT !.needed = needed] /\ s0.pendings = s.pendings
      BY <1>3, <2>1, <3>1 DEF StoreType
    <3>4. [s0 EXCEPT !.pendings[b] = {}] = u
      BY <1>3, <2>1, <2>2, <3>3 DEF StoreType
    <3> QED BY <2>2, <3>2, <3>3, <3>4 DEF WakeUpPendings
  <2>4. needed \in [AllNodes -> BOOLEAN] /\ pendings \in [AllNodes -> SUBSET Wakeables]
    BY <1>3, <2>1 DEF StoreType
  <2>5. /\ u \in StoreType /\ u.needed = needed /\ u.pendings = pendings
        /\ u.kind = s.kind /\ u.link = s.link /\ u.woken = s.woken
    BY <1>3, <2>2, <2>4 DEF StoreType
  <2>6. /\ \A m \in AllNodes : u.needed[m] <=> m = b \/ s.needed[m]
        /\ \A m \in AllNodes : u.pendings[m] = IF m = b THEN {} ELSE s.pendings[m]
    BY <1>3, <2>1, <2>5 DEF StoreType
  <2>7. /\ StoreInv(s2)
        /\ Grows(s, s2)
        /\ \A m \in AllNodes : Base(s2, m) = Base(s, m)
        /\ \A m \in AllNodes : s2.kind[m] = IF m \in list \cap Controls THEN "Value" ELSE s.kind[m]
        /\ \A m \in AllNodes : s2.needed[m] <=> (m = b \/ s.needed[m]) /\ m \notin list \cap Controls
        /\ \A m \in AllNodes : s2.pendings[m] \cap Controls \subseteq s.pendings[m]
    <3>1. /\ u.needed[b] /\ \A m \in AllNodes \ {b} : u.needed[m] <=> s.needed[m]
          /\ list = s.pendings[b] /\ \A m \in AllNodes : u.pendings[m] = IF m = b THEN {} ELSE s.pendings[m]
          /\ u \in StoreType /\ u.kind = s.kind /\ u.link = s.link /\ u.woken = s.woken
      BY <2>2, <2>5, <2>6
    <3>2. /\ StoreInv(s2)
          /\ Grows(s, s2)
          /\ \A m \in AllNodes : Base(s2, m) = Base(s, m)
          /\ \A m \in AllNodes : s2.kind[m] = IF m \in list \cap Controls THEN "Value" ELSE s.kind[m]
          /\ \A m \in AllNodes : s2.needed[m] <=> u.needed[m] /\ m \notin list \cap Controls
          /\ \A m \in AllNodes : s2.pendings[m] \cap Controls \subseteq s.pendings[m]
      BY <1>5, <2>3, <3>1, ReleaseEffect
    <3> QED BY <2>6, <3>2
  <2>8. IsNeeded(s2, n)
    <3>1. s2 \in StoreType
      BY <2>7 DEF StoreInv, Structure
    <3>2. s2.kind[b] # "OptVar" /\ (s2.kind[b] \in Unbound => s2.needed[b])
      BY <1>5, <2>7 DEF Unbound
    <3> QED BY <1>1, <2>7, <3>1, <3>2, NeededFacts
  <2>9. ~IsNeeded(s, n)
    BY <1>1, <1>5 DEF IsNeeded, Unbound
  <2>10. \A c \in Controls : s.kind[c] = "Variable" /\ c \notin list => s2.kind[c] = "Variable"
    BY <2>7, NodeSets
  <2> QED BY <1>1, <1>5, <2>2, <2>7, <2>8, <2>9, <2>10 DEF Unbound
<1>6. CASE ~(s.kind[b] = "OptVar") /\ ~(s.kind[b] \in Unbound /\ ~s.needed[b])
  <2>1. s2 = s
    BY <1>1, <1>6 DEF MarkNeeded
  <2>2. IsNeeded(s, n)
    BY <1>1, <1>3, <1>6, NeededFacts
  <2> QED BY <1>1, <1>6, <2>1, <2>2, GrowsReflexive
<1> QED BY <1>4, <1>5, <1>6

-----------------------------------------------------------------------------
(* bind *)

\* Node n has become src, and its list is detached.
Redirected(s, n, src) == [Become(s, n, src) EXCEPT !.pendings[n] = {}]

\* The structure of the store survives that, when src is another node.
LEMMA RedirectedStructure ==
    ASSUME NEW s, StoreInv(s), NEW n \in Nodes, NeedsProtection(s.kind[n]),
           NEW src \in Referable(s), s.kind[src] # "Reference", src # n,
           NEW u, u = Redirected(s, n, src)
    PROVE  /\ Structure(u)
           /\ \A m \in AllNodes : Deref(u, m) = IF Deref(s, m) = n THEN src ELSE Deref(s, m)
           /\ Views(u) = Views(s)
           /\ \A r \in Views(s) : Target(u, r) = IF Target(s, r) = n THEN src ELSE Target(s, r)
           /\ u.woken = s.woken /\ u.kind[n] = "Reference" /\ u.pendings[n] = {}
           /\ u.link[n] = src
           /\ \A m \in AllNodes \ {n} : /\ u.kind[m] = s.kind[m]
                                        /\ u.link[m] = s.link[m]
                                        /\ u.pendings[m] = s.pendings[m]
                                        /\ u.needed[m] <=> s.needed[m]
<1>1. /\ s \in StoreType /\ LinksLead(s) /\ Acyclic(s) /\ ControlLists(s)
      /\ TerminationKinds(s) /\ OnlyVariables(s)
      /\ \A r \in Views(s) : Listed(s, r)
  BY DEF StoreInv, Structure
<1>2. /\ n \in AllNodes /\ n \notin Controls /\ n \notin TerminationVars
      /\ src \in AllNodes /\ src \in Visible /\ s.kind[src] # "Free"
      /\ src \in TerminationVars => s.kind[src] = "Value"
      /\ s.kind[n] \notin {"Reference", "ReadOnly", "Free"}
  BY NodeSets DEF Referable, NeedsProtection, Unbound
<1>3. Deref(s, src) = src
  BY <1>1, <1>2, DerefFacts
<1>4. PICK kind : kind = [s.kind EXCEPT ![n] = "Reference"]
  OBVIOUS
<1>5. PICK link : link = [s.link EXCEPT ![n] = src]
  OBVIOUS
<1>6. PICK needed : needed = [s.needed EXCEPT ![n] = FALSE]
  OBVIOUS
<1>7. PICK pendings : pendings = [s.pendings EXCEPT ![n] = {}]
  OBVIOUS
<1>8. u = [s EXCEPT !.kind = kind, !.link = link, !.needed = needed, !.pendings = pendings]
  <2>1. Become(s, n, src) = [s EXCEPT !.kind = kind, !.link = link, !.needed = needed]
    BY <1>1, <1>4, <1>5, <1>6 DEF Become, StoreType
  <2> QED BY <1>1, <1>7, <2>1 DEF Redirected, StoreType
<1>9. /\ kind \in [AllNodes -> Kinds] /\ link \in [AllNodes -> AllNodes \cup {None}]
      /\ needed \in [AllNodes -> BOOLEAN] /\ pendings \in [AllNodes -> SUBSET Wakeables]
  BY <1>1, <1>2, <1>4, <1>5, <1>6, <1>7 DEF StoreType, Kinds
<1>10. /\ u \in StoreType /\ u.kind = kind /\ u.link = link /\ u.needed = needed
       /\ u.pendings = pendings /\ u.woken = s.woken
  BY <1>1, <1>8, <1>9 DEF StoreType
<1>11. /\ \A m \in AllNodes : u.kind[m] = IF m = n THEN "Reference" ELSE s.kind[m]
       /\ \A m \in AllNodes : u.link[m] = IF m = n THEN src ELSE s.link[m]
       /\ \A m \in AllNodes : u.needed[m] <=> s.needed[m] /\ m # n
       /\ \A m \in AllNodes : u.pendings[m] = IF m = n THEN {} ELSE s.pendings[m]
  BY <1>1, <1>4, <1>5, <1>6, <1>7, <1>10 DEF StoreType
<1>12. /\ Acyclic(u)
       /\ \A m \in AllNodes : Deref(u, m) = IF Deref(s, m) = n THEN src ELSE Deref(s, m)
  <2>1. PICK R : R = {n}
    OBVIOUS
  <2>2. /\ Acyclic(u)
        /\ \A m \in AllNodes :
             Deref(u, m) = IF Deref(s, m) \in R THEN Deref(s, u.link[Deref(s, m)]) ELSE Deref(s, m)
    <3>1. R \in SUBSET Nodes
      BY <2>1
    <3>2. \A m \in R : s.kind[m] # "Reference"
      BY <1>2, <2>1
    <3>3. \A m \in R : u.link[m] \in AllNodes /\ Deref(s, u.link[m]) \notin R
      BY <1>2, <1>3, <1>11, <2>1
    <3>4. \A m \in AllNodes : u.kind[m] = "Reference" <=> m \in R \/ s.kind[m] = "Reference"
      BY <1>11, <2>1
    <3>5. \A m \in AllNodes \ R : s.kind[m] = "Reference" => u.link[m] = s.link[m]
      BY <1>11, <2>1
    <3> QED BY <1>1, <3>1, <3>2, <3>3, <3>4, <3>5, Redirect
  <2> QED BY <1>2, <1>3, <1>11, <2>1, <2>2
<1>13. Views(u) = Views(s)
  BY <1>2, <1>11, NodeSets DEF Views
<1>14. ASSUME NEW r \in Views(s)
       PROVE  Target(u, r) = IF Target(s, r) = n THEN src ELSE Target(s, r)
  <2>1. r \in AllNodes /\ s.link[r] \in AllNodes /\ s.kind[r] = "ReadOnly"
    BY <1>1, TargetFacts
  <2>2. u.link[r] = s.link[r]
    BY <1>2, <1>11, <2>1
  <2> QED BY <1>12, <2>1, <2>2 DEF Target
<1>15. LinksLead(u)
  <2> SUFFICES ASSUME NEW m \in AllNodes, u.kind[m] \in {"Reference", "ReadOnly"}
               PROVE  /\ m \in Nodes
                      /\ u.link[m] \in Visible
                      /\ u.kind[u.link[m]] # "Free"
                      /\ u.kind[m] = "Reference" /\ u.link[m] \in TerminationVars
                           => u.kind[u.link[m]] = "Value"
    BY DEF LinksLead
  <2>1. CASE m = n
    BY <1>2, <1>11, <2>1
  <2>2. CASE m # n
    <3>1. s.kind[m] = u.kind[m] /\ u.link[m] = s.link[m]
      BY <1>11, <2>2
    <3>2. /\ m \in Nodes /\ s.link[m] \in Visible /\ s.link[m] \in AllNodes
          /\ s.kind[s.link[m]] # "Free"
          /\ s.kind[m] = "Reference" /\ s.link[m] \in TerminationVars
                             => s.kind[s.link[m]] = "Value"
      BY <1>1, <3>1, NodeSets DEF LinksLead
    <3> QED BY <1>2, <1>11, <3>1, <3>2
  <2> QED BY <2>1, <2>2
<1>16. ControlLists(u)
  <2>1. ASSUME NEW c \in Controls
        PROVE  /\ u.kind[c] \in {"Free", "Variable", "Value"} /\ u.pendings[c] \subseteq Threads
               /\ u.kind[c] = s.kind[c]
    BY <1>1, <1>2, <1>11, NodeSets DEF ControlLists
  <2>2. \A m \in AllNodes : u.pendings[m] \subseteq s.pendings[m]
    BY <1>11
  <2> QED BY <1>1, <2>1, <2>2 DEF ControlLists
<1>17. TerminationKinds(u)
  BY <1>1, <1>2, <1>11, NodeSets DEF TerminationKinds
<1>18. OnlyVariables(u)
  BY <1>1, <1>11 DEF OnlyVariables
<1>19. Structure(u)
  BY <1>10, <1>12, <1>15, <1>16, <1>17, <1>18 DEF Structure
<1> QED BY <1>2, <1>10, <1>11, <1>12, <1>13, <1>14, <1>19

\* A variable that becomes a reference gives up its list, and the views in it lead on.
LEMMA BecomeInv ==
    ASSUME NEW s, StoreInv(s), NEW n \in Nodes, NeedsProtection(s.kind[n]),
           NEW src \in Referable(s), s.kind[src] # "Reference", Base(s, src) # n,
           NEW u, u = Redirected(s, n, src)
    PROVE  /\ WakeInv(u, s.pendings[n])
           /\ \A m \in AllNodes : Deref(u, m) = IF Deref(s, m) = n THEN src ELSE Deref(s, m)
           /\ Views(u) = Views(s)
           /\ \A r \in Views(s) : Target(u, r) = IF Target(s, r) = n THEN src ELSE Target(s, r)
           /\ src \notin Settled(u, s.pendings[n])
           /\ u.woken = s.woken /\ u.kind[n] = "Reference"
           /\ \A m \in AllNodes \ {n} : /\ u.kind[m] = s.kind[m]
                                        /\ u.pendings[m] = s.pendings[m]
                                        /\ u.needed[m] <=> s.needed[m]
<1>1. /\ s \in StoreType /\ LinksLead(s) /\ Acyclic(s)
      /\ \A r \in Views(s) : Listed(s, r)
  BY DEF StoreInv, Structure
<1>2. /\ n \in AllNodes /\ src \in AllNodes
      /\ s.kind[n] \notin {"Reference", "ReadOnly", "Free"}
  BY NodeSets DEF Referable, NeedsProtection, Unbound
<1>3. Base(s, src) = IF s.kind[src] = "ReadOnly" THEN Target(s, src) ELSE src
  BY <1>1, <1>2, DerefFacts DEF Base, Target
<1>4. src # n
  BY <1>2, <1>3
<1>5. /\ Structure(u)
      /\ \A m \in AllNodes : Deref(u, m) = IF Deref(s, m) = n THEN src ELSE Deref(s, m)
      /\ Views(u) = Views(s)
      /\ \A r \in Views(s) : Target(u, r) = IF Target(s, r) = n THEN src ELSE Target(s, r)
      /\ u.woken = s.woken /\ u.kind[n] = "Reference"
      /\ \A m \in AllNodes \ {n} : /\ u.kind[m] = s.kind[m]
                                   /\ u.pendings[m] = s.pendings[m]
                                   /\ u.needed[m] <=> s.needed[m]
  BY <1>4, RedirectedStructure
<1>6. PICK list : list = s.pendings[n]
  OBVIOUS
<1>7. list \subseteq Wakeables
  BY <1>1, <1>2, <1>6 DEF StoreType
<1>8. ASSUME NEW r \in Views(u) PROVE r \in list \/ Listed(u, r)
  <2>1. r \in Views(s) /\ Listed(s, r) /\ Target(s, r) \in AllNodes
    BY <1>1, <1>5, TargetFacts
  <2>2. CASE Target(s, r) = n
    BY <1>6, <2>1, <2>2 DEF Listed
  <2>3. CASE Target(s, r) # n
    BY <1>5, <2>1, <2>3 DEF Listed
  <2> QED BY <2>2, <2>3
<1>9. \A r \in Views(s) : Target(s, r) # n => r \notin Settled(u, list)
  <2> SUFFICES ASSUME NEW r \in Views(s), Target(s, r) # n PROVE r \notin Settled(u, list)
    OBVIOUS
  <2>1. Listed(s, r) /\ Target(s, r) \in AllNodes /\ Target(u, r) = Target(s, r)
    BY <1>1, <1>5, TargetFacts
  <2>2. u.kind[Target(u, r)] \in Unbound
    BY <1>5, <2>1 DEF Listed
  <2> QED BY <2>2 DEF Settled, NeedsProtection
<1>10. src \notin Settled(u, list)
  <2>1. CASE src \in Views(s)
    <3>1. Target(s, src) # n
      BY <1>3, <2>1 DEF Views
    <3> QED BY <1>9, <2>1, <3>1
  <2>2. CASE src \notin Views(s)
    BY <1>5, <2>2 DEF Settled
  <2> QED BY <2>1, <2>2
<1>11. ASSUME NEW r \in Settled(u, list) PROVE Target(u, r) \notin Settled(u, list)
  <2>1. r \in Views(s)
    BY <1>5 DEF Settled
  <2>2. Target(u, r) = src
    BY <1>5, <1>9, <2>1
  <2> QED BY <1>10, <2>2
<1>12. WakeInv(u, list)
  BY <1>5, <1>7, <1>8, <1>11 DEF WakeInv
<1> QED BY <1>5, <1>6, <1>10, <1>12

\* A variable becomes a reference to src and its list is woken.
LEMMA BecomeEffect ==
    ASSUME NEW s, StoreInv(s), NEW n \in Nodes, NeedsProtection(s.kind[n]),
           NEW src \in Referable(s), s.kind[src] # "Reference", Base(s, src) # n,
           s.needed[n] => IsNeeded(s, src),
           NEW s2, s2 = WakeUpPendings(Become(s, n, src), n)
    PROVE  /\ StoreInv(s2)
           /\ Grows(s, s2)
           /\ \A m \in AllNodes : Base(s2, m) = IF Base(s, m) = n THEN Base(s, src) ELSE Base(s, m)
<1>1. /\ s \in StoreType /\ LinksLead(s) /\ Acyclic(s)
      /\ \A r \in Views(s) : Listed(s, r)
  BY DEF StoreInv, Structure
<1>2. PICK u : u = Redirected(s, n, src)
  OBVIOUS
<1>3. PICK list : list = s.pendings[n]
  OBVIOUS
<1>4. /\ WakeInv(u, list)
      /\ \A m \in AllNodes : Deref(u, m) = IF Deref(s, m) = n THEN src ELSE Deref(s, m)
      /\ Views(u) = Views(s)
      /\ \A r \in Views(s) : Target(u, r) = IF Target(s, r) = n THEN src ELSE Target(s, r)
      /\ src \notin Settled(u, list)
      /\ u.woken = s.woken /\ u.kind[n] = "Reference"
      /\ \A m \in AllNodes \ {n} : /\ u.kind[m] = s.kind[m]
                                   /\ u.pendings[m] = s.pendings[m]
                                   /\ u.needed[m] <=> s.needed[m]
  BY <1>2, <1>3, BecomeInv
<1>5. s2 = Wake(u, list)
  <2>1. Become(s, n, src).pendings = s.pendings
    BY <1>1 DEF Become, StoreType
  <2> QED BY <1>2, <1>3, <2>1 DEF WakeUpPendings, Redirected
<1>6. /\ n \in AllNodes /\ src \in AllNodes /\ src \in Visible
      /\ s.kind[n] \notin {"Reference", "ReadOnly", "Free"}
  BY NodeSets DEF Referable, NeedsProtection, Unbound
<1>7. Deref(s, src) = src
  BY <1>1, <1>6, DerefFacts
<1>8. Base(s, src) = IF s.kind[src] = "ReadOnly" THEN Target(s, src) ELSE src
  BY <1>7 DEF Base, Target
<1>9. src # n
  BY <1>6, <1>8
<1>10. \A m \in AllNodes : s.kind[m] = "ReadOnly" => m \in Views(s)
  BY <1>1 DEF LinksLead, Views
<1>11. ASSUME NEW m \in AllNodes
       PROVE  Base(s2, m) = IF Base(s, m) = n THEN Base(s, src) ELSE Base(s, m)
  <2>1. PICK f \in AllNodes : f = Deref(s, m)
    BY <1>1, DerefFacts
  <2>2. PICK e : e = IF f = n THEN src ELSE f
    OBVIOUS
  <2>3. e \in AllNodes /\ e # n /\ e = Deref(u, m) /\ u.kind[e] = s.kind[e]
    BY <1>4, <1>6, <1>9, <2>1, <2>2
  <2>4. PICK d : d = IF e \in Settled(u, list) THEN Target(u, e) ELSE e
    OBVIOUS
  <2>5. Base(s2, m) = IF u.kind[d] = "ReadOnly" THEN Target(u, d) ELSE d
    BY <1>4, <1>5, <2>3, <2>4, WakeBases
  <2>6. Base(s, m) = IF s.kind[f] = "ReadOnly" THEN Target(s, f) ELSE f
    BY <2>1 DEF Base, Target
  <2>7. s.kind[src] = "ReadOnly" => Target(u, src) = Target(s, src)
    BY <1>4, <1>6, <1>8, <1>10
  <2>8. CASE f = n
    <3>1. d = src /\ u.kind[src] = s.kind[src]
      BY <1>4, <1>6, <1>9, <2>2, <2>4, <2>8
    <3> QED BY <1>6, <1>8, <2>5, <2>6, <2>7, <2>8, <3>1
  <2>9. CASE f # n /\ s.kind[f] # "ReadOnly"
    <3>1. f \notin Settled(u, list)
      BY <1>4, <2>9 DEF Settled, Views
    <3> QED BY <2>2, <2>3, <2>4, <2>5, <2>6, <2>9, <3>1
  <2>10. CASE f # n /\ s.kind[f] = "ReadOnly" /\ Target(s, f) = n
    <3>1. f \in Views(s) /\ Target(u, f) = src /\ e = f
      BY <1>4, <1>10, <2>1, <2>2, <2>10
    <3>2. f \in list
      BY <1>1, <1>3, <2>10, <3>1 DEF Listed
    <3>3. CASE f \in Settled(u, list)
      <4>1. d = src /\ u.kind[src] = s.kind[src]
        BY <1>4, <1>6, <1>9, <2>4, <3>1, <3>3
      <4> QED BY <1>8, <2>5, <2>6, <2>7, <2>10, <4>1
    <3>4. CASE f \notin Settled(u, list)
      <4>1. NeedsProtection(u.kind[src])
        BY <1>4, <3>1, <3>2, <3>4 DEF Settled
      <4>2. Base(s, src) = src
        BY <1>4, <1>6, <1>8, <1>9, <4>1 DEF NeedsProtection, Unbound
      <4> QED BY <2>3, <2>4, <2>5, <2>6, <2>10, <3>1, <3>4, <4>2
    <3> QED BY <3>3, <3>4
  <2>11. CASE f # n /\ s.kind[f] = "ReadOnly" /\ Target(s, f) # n
    <3>1. f \in Views(s) /\ Target(u, f) = Target(s, f) /\ e = f
      BY <1>4, <1>10, <2>1, <2>2, <2>11
    <3>2. Target(s, f) \in AllNodes /\ u.kind[Target(u, f)] \in Unbound
      BY <1>1, <1>4, <2>11, <3>1, TargetFacts DEF Listed
    <3>3. f \notin Settled(u, list)
      BY <3>2 DEF Settled, NeedsProtection
    <3> QED BY <2>3, <2>4, <2>5, <2>6, <2>11, <3>1, <3>3
  <2> QED BY <2>8, <2>9, <2>10, <2>11
<1>12. StoreInv(s2)
  BY <1>4, <1>5, WakeEffect
<1>13. Base(s, n) = n /\ Base(s, src) \in AllNodes /\ Base(s, src) \in Visible
       /\ s.kind[Base(s, src)] \notin {"Reference", "ReadOnly"}
  BY <1>6, BaseFacts
<1>14. ASSUME IsNeeded(s, n) PROVE IsNeeded(s2, n)
  <2>1. PICK b \in AllNodes : b = Base(s, src)
    BY <1>13
  <2>2. s.kind[n] \in Unbound /\ s.needed[n]
    <3>1. IsNeeded(s, n) <=> /\ s.kind[Base(s, n)] # "OptVar"
                             /\ s.kind[Base(s, n)] \in Unbound => s.needed[Base(s, n)]
      BY <1>1, NeededFacts
    <3> QED BY <1>13, <1>14, <3>1 DEF NeedsProtection
  <2>3. s.kind[b] # "OptVar" /\ (s.kind[b] \in Unbound => s.needed[b])
    <3>1. IsNeeded(s, src) <=> /\ s.kind[Base(s, src)] # "OptVar"
                               /\ s.kind[Base(s, src)] \in Unbound => s.needed[Base(s, src)]
      BY <1>1, NeededFacts
    <3> QED BY <2>1, <2>2, <3>1
  <2>4. b \notin Controls /\ b \notin Settled(u, list) /\ b # n
    BY <1>4, <1>13, <2>1, NodeSets DEF Settled, Views
  <2>5. u.kind[b] = s.kind[b] /\ (u.needed[b] <=> s.needed[b])
    BY <1>4, <2>4
  <2>6. s2.kind[b] = s.kind[b] /\ (s2.needed[b] <=> s.needed[b])
    <3>1. /\ s2.kind[b] =
               IF b \in Settled(u, list) THEN "Reference"
               ELSE IF b \in list \cap Controls THEN "Value"
               ELSE IF u.kind[b] = "OptVar" /\ \E r \in list \cap Views(u) : Target(u, r) = b
                    THEN "Variable" ELSE u.kind[b]
          /\ s2.needed[b] <=> u.needed[b] /\ b \notin list \cap Controls
      BY <1>4, <1>5, WakeEffect
    <3> QED BY <2>3, <2>4, <2>5, <3>1
  <2>7. Base(s2, n) = b
    BY <1>6, <1>11, <1>13, <2>1
  <2>8. s2 \in StoreType
    BY <1>12 DEF StoreInv, Structure
  <2> QED BY <2>3, <2>6, <2>7, <2>8, NeededFacts
<1>15. Grows(s, s2)
  <2>1. PICK b1 \in AllNodes : b1 = Base(s, src)
    BY <1>13
  <2>2. \A m \in AllNodes : Base(s2, m) = IF Base(s, m) = n THEN b1 ELSE Base(s, m)
    BY <1>11, <2>1
  <2>3. \A w \in s.pendings[n] : w \in list \/ (n \in list \cap Controls /\ w \in u.pendings[n])
    BY <1>3
  <2>4. s.kind[n] \notin {"Value", "FailedValue"} /\ u.kind[n] # "Free"
    BY <1>4 DEF NeedsProtection, Unbound
  <2> QED BY <1>4, <1>5, <1>6, <1>13, <1>14, <2>1, <2>2, <2>3, <2>4, WakeGrows
<1> QED BY <1>11, <1>12, <1>15

\* bind: the two variables are one, and needed if either was.
LEMMA BindEffect ==
    ASSUME NEW s, StoreInv(s), NEW n \in Nodes, NeedsProtection(s.kind[n]),
           NEW src \in Referable(s), s.kind[src] # "Reference", Base(s, src) # n,
           NEW s2, s2 = Bind(s, n, src)
    PROVE  /\ StoreInv(s2)
           /\ Grows(s, s2)
           /\ \A m \in AllNodes : Base(s2, m) = IF Base(s, m) = n THEN Base(s, src) ELSE Base(s, m)
<1>1. /\ n \in AllNodes /\ src \in AllNodes /\ src \in Visible /\ s.kind[src] # "Free"
      /\ n \notin Controls /\ src \notin Controls
      /\ src \in TerminationVars => s.kind[src] = "Value"
  BY NodeSets DEF Referable
<1>2. PICK s1 : s1 = IF s.needed[n] THEN MarkNeeded(s, src) ELSE s
  OBVIOUS
<1>3. /\ StoreInv(s1) /\ Grows(s, s1)
      /\ \A m \in AllNodes : Base(s1, m) = Base(s, m)
      /\ s1.needed[n] => IsNeeded(s1, src)
      /\ s1.kind[n] = s.kind[n]
      /\ src \in Referable(s1) /\ s1.kind[src] # "Reference"
  <2>1. CASE s.needed[n]
    <3>1. s1 = MarkNeeded(s, src)
      BY <1>2, <2>1
    <3>2. /\ StoreInv(s1) /\ Grows(s, s1)
          /\ \A m \in AllNodes : Base(s1, m) = Base(s, m)
          /\ IsNeeded(s1, src)
          /\ \A m \in AllNodes \ Controls :
               s1.kind[m] = IF m = Base(s, src) /\ s.kind[m] = "OptVar" THEN "Variable" ELSE s.kind[m]
      BY <1>1, <3>1, MarkNeededEffect
    <3>3. s1.kind[n] = s.kind[n]
      <4>1. s1.kind[n] = IF n = Base(s, src) /\ s.kind[n] = "OptVar" THEN "Variable" ELSE s.kind[n]
        BY <1>1, <3>2
      <4> QED BY <4>1
    <3>4. s1.kind[src] = s.kind[src] \/ (s1.kind[src] = "Variable" /\ s.kind[src] = "OptVar")
      <4>1. s1.kind[src] = IF src = Base(s, src) /\ s.kind[src] = "OptVar" THEN "Variable" ELSE s.kind[src]
        BY <1>1, <3>2
      <4> QED BY <4>1
    <3>5. src \in Referable(s1)
      BY <1>1, <3>4 DEF Referable
    <3> QED BY <3>2, <3>3, <3>4, <3>5
  <2>2. CASE ~s.needed[n]
    <3>1. s1 = s
      BY <1>2, <2>2
    <3> QED BY <2>2, <3>1, GrowsReflexive
  <2> QED BY <2>1, <2>2
<1>4. s2 = WakeUpPendings(Become(s1, n, src), n)
  BY <1>2 DEF Bind
<1>5. /\ StoreInv(s2) /\ Grows(s1, s2)
      /\ \A m \in AllNodes : Base(s2, m) = IF Base(s1, m) = n THEN Base(s1, src) ELSE Base(s1, m)
  BY <1>1, <1>3, <1>4, BecomeEffect
<1>6. Grows(s, s2)
  BY <1>3, <1>5, EvolvesTransitive DEF Grows
<1> QED BY <1>1, <1>3, <1>5, <1>6

\* A variable that is bound to itself only wakes its list.
LEMMA BindToItself ==
    ASSUME NEW s, StoreInv(s), NEW n \in AllNodes, s.kind[n] \in Unbound,
           NEW s2, s2 = Bind(s, n, n)
    PROVE  StoreInv(s2) /\ Grows(s, s2)
<1>1. s \in StoreType /\ Base(s, n) = n
  BY BaseFacts DEF StoreInv, Structure, Unbound
<1>2. s.needed[n] => MarkNeeded(s, n) = s
  BY <1>1 DEF MarkNeeded, Unbound
<1>3. s2 = WakeUpPendings(s, n)
  BY <1>2 DEF Bind, Become
<1>4. PICK pendings : pendings = [s.pendings EXCEPT ![n] = {}]
  OBVIOUS
<1>5. PICK u, list : u = [s EXCEPT !.pendings = pendings] /\ list = s.pendings[n]
  OBVIOUS
<1>6. s2 = Wake(u, list)
  BY <1>1, <1>3, <1>4, <1>5 DEF WakeUpPendings, StoreType
<1>7. /\ u \in StoreType /\ u.pendings = pendings
      /\ u.kind = s.kind /\ u.link = s.link /\ u.woken = s.woken /\ u.needed = s.needed
  BY <1>1, <1>4, <1>5 DEF StoreType
<1>8. \A m \in AllNodes : u.pendings[m] = IF m = n THEN {} ELSE s.pendings[m]
  BY <1>1, <1>4, <1>7 DEF StoreType
<1>9. /\ list = s.pendings[n] /\ u \in StoreType
      /\ u.kind = s.kind /\ u.link = s.link /\ u.woken = s.woken
      /\ s.needed[n] => u.needed[n]
      /\ \A m \in AllNodes \ {n} : u.needed[m] <=> s.needed[m]
  BY <1>5, <1>7
<1> QED BY <1>6, <1>8, <1>9, ReleaseEffect

-----------------------------------------------------------------------------
(* What becomes unit *)

\* Thread termination: _terminationVar becomes unit and its list is woken.
LEMMA UnitEffect ==
    ASSUME NEW s, StoreInv(s), NEW v \in TerminationVars, NEW s2,
           s2 = Wake([s EXCEPT !.kind[v] = "Value", !.needed[v] = FALSE, !.pendings[v] = {}],
                     s.pendings[v])
    PROVE  StoreInv(s2) /\ Grows(s, s2)
<1>1. s \in StoreType /\ TerminationKinds(s)
  BY DEF StoreInv, Structure
<1>2. /\ v \in AllNodes /\ v \notin Controls
      /\ s.kind[v] \in {"OptVar", "Variable", "Value"}
  BY <1>1, NodeSets DEF TerminationKinds
<1>3. PICK kind : kind = [s.kind EXCEPT ![v] = "Value"]
  OBVIOUS
<1>4. PICK needed : needed = [s.needed EXCEPT ![v] = FALSE]
  OBVIOUS
<1>5. PICK pendings : pendings = [s.pendings EXCEPT ![v] = {}]
  OBVIOUS
<1>6. PICK u : u = [s EXCEPT !.kind = kind, !.needed = needed, !.pendings = pendings]
  OBVIOUS
<1>7. PICK list : list = s.pendings[v]
  OBVIOUS
<1>8. s2 = Wake(u, list)
  BY <1>1, <1>3, <1>4, <1>5, <1>6, <1>7 DEF StoreType
<1>9. /\ kind \in [AllNodes -> Kinds]
      /\ needed \in [AllNodes -> BOOLEAN] /\ pendings \in [AllNodes -> SUBSET Wakeables]
  BY <1>1, <1>3, <1>4, <1>5 DEF StoreType, Kinds
<1>10. /\ u \in StoreType /\ u.kind = kind /\ u.needed = needed /\ u.pendings = pendings
       /\ u.link = s.link /\ u.woken = s.woken
  BY <1>1, <1>6, <1>9 DEF StoreType
<1>11. /\ u.kind[v] = "Value" /\ u.pendings[v] = {} /\ ~u.needed[v]
       /\ \A m \in AllNodes \ {v} : /\ u.kind[m] = s.kind[m]
                                    /\ u.pendings[m] = s.pendings[m]
                                    /\ u.needed[m] <=> s.needed[m]
  BY <1>1, <1>2, <1>3, <1>4, <1>5, <1>10 DEF StoreType
<1>12. /\ WakeInv(u, list)
       /\ \A m \in AllNodes : Deref(u, m) = Deref(s, m)
       /\ \A r \in Views(s) : Target(u, r) = Target(s, r)
       /\ Views(u) = Views(s)
  BY <1>2, <1>7, <1>10, <1>11, DetachedInv
<1>13. \A m \in AllNodes : Base(s2, m) = Base(s, m)
  BY <1>8, <1>12, WakeKeepsBases
<1>14. Base(s, v) = v
  BY <1>2, BaseFacts
<1>15. StoreInv(s2)
  BY <1>8, <1>12, WakeEffect
<1>16. IsNeeded(s2, v)
  <2>1. s2.kind[v] = "Value"
    <3>1. s2.kind[v] = IF v \in Settled(u, list) THEN "Reference"
                       ELSE IF v \in list \cap Controls THEN "Value"
                       ELSE IF u.kind[v] = "OptVar" /\ \E r \in list \cap Views(u) : Target(u, r) = v
                            THEN "Variable" ELSE u.kind[v]
      BY <1>2, <1>8, <1>12, WakeEffect
    <3>2. v \notin Settled(u, list)
      BY NodeSets DEF Settled, Views
    <3> QED BY <1>2, <1>11, <3>1, <3>2
  <2>2. s2 \in StoreType
    BY <1>15 DEF StoreInv, Structure
  <2> QED BY <1>2, <1>13, <1>14, <2>1, <2>2, NeededFacts DEF Unbound
<1>17. Grows(s, s2)
  <2>1. \A m \in AllNodes : Base(s2, m) = IF Base(s, m) = v THEN v ELSE Base(s, m)
    BY <1>13
  <2>2. \A w \in s.pendings[v] : w \in list \/ (v \in list \cap Controls /\ w \in u.pendings[v])
    BY <1>7
  <2>3. u.kind[v] # "Free" /\ (s.kind[v] \in {"Value", "FailedValue"} => u.kind[v] = s.kind[v])
    BY <1>2, <1>11
  <2> QED BY <1>2, <1>8, <1>10, <1>11, <1>12, <1>14, <1>16, <2>1, <2>2, <2>3, WakeGrows
<1> QED BY <1>15, <1>17

\* A control variable that becomes unit where it is.
LEMMA WakeInPlace ==
    ASSUME NEW s, StoreInv(s), NEW list, WakeInv(s, list), NEW s2, s2 = Wake(s, list),
           NEW b \in list \cap Controls, s.kind[b] = "Variable",
           \A m \in AllNodes : Base(s2, m) = Base(s, m),
           IsNeeded(s2, b)
    PROVE  Grows(s, s2)
<1>1. b \in AllNodes /\ Base(s, b) = b
  BY NodeSets, BaseFacts
<1>2. PICK u : u = s
  OBVIOUS
<1>3. /\ \A w \in s.pendings[b] : w \in list \/ (b \in list \cap Controls /\ w \in u.pendings[b])
      /\ WakeInv(u, list) /\ s2 = Wake(u, list) /\ u.woken = s.woken
      /\ \A m \in AllNodes \ {b} : /\ u.kind[m] = s.kind[m]
                                   /\ u.pendings[m] = s.pendings[m]
                                   /\ u.needed[m] <=> s.needed[m]
      /\ u.kind[b] # "Free" /\ s.kind[b] \notin {"Value", "FailedValue"}
      /\ \A m \in AllNodes : Base(s2, m) = IF Base(s, m) = b THEN b ELSE Base(s, m)
  BY <1>2
<1> QED BY <1>1, <1>3, WakeGrows

\* The exception of a thread that must not block: its control variable counts as unit.
LEMMA WakeControlEffect ==
    ASSUME NEW s, StoreInv(s), NEW c \in Controls, s.kind[c] = "Variable",
           NEW list, list = {c}, NEW s2, s2 = Wake(s, list)
    PROVE  StoreInv(s2) /\ Grows(s, s2)
<1>1. /\ s \in StoreType /\ LinksLead(s) /\ Acyclic(s) /\ ControlLists(s)
      /\ TerminationKinds(s) /\ OnlyVariables(s) /\ Structure(s)
      /\ \A r \in Views(s) : Listed(s, r)
  BY DEF StoreInv, Structure
<1>2. list = {c}
  OBVIOUS
<1>3. Settled(s, list) = {}
  BY <1>1, <1>2, NodeSets DEF Settled, Listed, NeedsProtection
<1>4. WakeInv(s, list)
  BY <1>1, <1>2, <1>3 DEF WakeInv, Wakeables
<1>5. s2 = Wake(s, list)
  BY <1>2
<1>6. StoreInv(s2)
  BY <1>4, <1>5, WakeEffect
<1>7. \A m \in AllNodes : Base(s2, m) = Base(s, m)
  BY <1>4, <1>5, WakeKeepsBases
<1>8. c \in AllNodes /\ Base(s, c) = c /\ s2 \in StoreType
  BY <1>6, NodeSets, BaseFacts DEF StoreInv, Structure
<1>9. IsNeeded(s2, c)
  <2>1. s2.kind[c] = "Value"
    <3>1. s2.kind[c] = IF c \in Settled(s, list) THEN "Reference"
                       ELSE IF c \in list \cap Controls THEN "Value"
                       ELSE IF s.kind[c] = "OptVar" /\ \E r \in list \cap Views(s) : Target(s, r) = c
                            THEN "Variable" ELSE s.kind[c]
      BY <1>4, <1>5, <1>8, WakeEffect
    <3> QED BY <1>2, <1>3, <3>1
  <2> QED BY <1>7, <1>8, <2>1, NeededFacts DEF Unbound
<1>10. Grows(s, s2)
  BY <1>2, <1>4, <1>5, <1>7, <1>9, WakeInPlace
<1> QED BY <1>6, <1>10

-----------------------------------------------------------------------------
(* New nodes *)

\* The threads that a step has woken are not part of what the nodes are.
LEMMA ResetEffect ==
    ASSUME NEW s, StoreInv(s), NEW W \in SUBSET Threads, NEW s2, s2 = [s EXCEPT !.woken = W]
    PROVE  /\ StoreInv(s2)
           /\ s2.kind = s.kind /\ s2.link = s.link /\ s2.needed = s.needed
           /\ s2.pendings = s.pendings /\ s2.woken = W
           /\ \A m \in AllNodes : Base(s2, m) = Base(s, m) /\ Deref(s2, m) = Deref(s, m)
           /\ \A m \in AllNodes : IsNeeded(s2, m) <=> IsNeeded(s, m)
<1>1. /\ s \in StoreType /\ LinksLead(s) /\ Acyclic(s) /\ ControlLists(s)
      /\ TerminationKinds(s) /\ OnlyVariables(s)
      /\ \A r \in Views(s) : Listed(s, r)
  BY DEF StoreInv, Structure
<1>2. /\ s2 \in StoreType /\ s2.kind = s.kind /\ s2.link = s.link /\ s2.needed = s.needed
      /\ s2.pendings = s.pendings /\ s2.woken = W
  BY <1>1 DEF StoreType
<1>3. /\ Acyclic(s2) /\ Views(s2) = Views(s)
      /\ \A m \in AllNodes : Deref(s2, m) = Deref(s, m)
      /\ \A m \in AllNodes : Base(s2, m) = Base(s, m)
      /\ \A r \in Views(s) : Target(s2, r) = Target(s, r)
  BY <1>1, <1>2, SameBases
<1>4. LinksLead(s2)
  BY <1>1, <1>2 DEF LinksLead
<1>5. ControlLists(s2) /\ TerminationKinds(s2) /\ OnlyVariables(s2)
  BY <1>1, <1>2 DEF ControlLists, TerminationKinds, OnlyVariables
<1>6. \A r \in Views(s2) : Listed(s2, r)
  BY <1>1, <1>2, <1>3 DEF Listed
<1>7. StoreInv(s2)
  BY <1>2, <1>3, <1>4, <1>5, <1>6 DEF StoreInv, Structure
<1>8. ASSUME NEW m \in AllNodes PROVE IsNeeded(s2, m) <=> IsNeeded(s, m)
  BY <1>2, <1>3 DEF IsNeeded
<1> QED BY <1>2, <1>3, <1>7, <1>8

\* A node that nothing led to becomes a variable or a value.
LEMMA CreateEffect ==
    ASSUME NEW s, StoreInv(s), NEW n \in Nodes, s.kind[n] = "Free",
           NEW k \in {"OptVar", "Value", "ReadOnlyVariable", "FailedValue"},
           NEW s2, s2 = [s EXCEPT !.kind[n] = k]
    PROVE  StoreInv(s2) /\ Grows(s, s2)
<1>1. /\ s \in StoreType /\ LinksLead(s) /\ Acyclic(s) /\ ControlLists(s)
      /\ TerminationKinds(s) /\ OnlyVariables(s)
      /\ \A r \in Views(s) : Listed(s, r)
  BY DEF StoreInv, Structure
<1>2. n \in AllNodes /\ n \notin Controls /\ n \notin TerminationVars
  BY NodeSets
<1>3. PICK kind : kind = [s.kind EXCEPT ![n] = k]
  OBVIOUS
<1>4. s2 = [s EXCEPT !.kind = kind]
  BY <1>1, <1>3 DEF StoreType
<1>5. kind \in [AllNodes -> Kinds]
  BY <1>1, <1>3 DEF StoreType, Kinds, Transient, Unbound
<1>6. /\ s2 \in StoreType /\ s2.kind = kind /\ s2.link = s.link /\ s2.needed = s.needed
      /\ s2.pendings = s.pendings /\ s2.woken = s.woken
  BY <1>1, <1>4, <1>5 DEF StoreType
<1>7. \A m \in AllNodes : s2.kind[m] = IF m = n THEN k ELSE s.kind[m]
  BY <1>1, <1>3, <1>6 DEF StoreType
<1>8. /\ Acyclic(s2) /\ Views(s2) = Views(s)
      /\ \A m \in AllNodes : Deref(s2, m) = Deref(s, m)
      /\ \A m \in AllNodes : Base(s2, m) = Base(s, m)
      /\ \A r \in Views(s) : Target(s2, r) = Target(s, r)
  <2>1. \A m \in AllNodes :
          s.kind[m] \in {"Reference", "ReadOnly"} \/ s2.kind[m] \in {"Reference", "ReadOnly"}
            => s2.kind[m] = s.kind[m]
    BY <1>7
  <2>2. \A m \in AllNodes : s.kind[m] \in {"Reference", "ReadOnly"} => s2.link[m] = s.link[m]
    BY <1>6
  <2> QED BY <1>1, <2>1, <2>2, SameBases
<1>9. \A m \in AllNodes : s.kind[m] # "Free" => s2.kind[m] = s.kind[m]
  BY <1>7
<1>10. LinksLead(s2)
  <2> SUFFICES ASSUME NEW m \in AllNodes, s2.kind[m] \in {"Reference", "ReadOnly"}
               PROVE  /\ m \in Nodes
                      /\ s2.link[m] \in Visible
                      /\ s2.kind[s2.link[m]] # "Free"
                      /\ s2.kind[m] = "Reference" /\ s2.link[m] \in TerminationVars
                           => s2.kind[s2.link[m]] = "Value"
    BY DEF LinksLead
  <2>1. s.kind[m] = s2.kind[m] /\ s2.link[m] = s.link[m]
    BY <1>6, <1>7
  <2>2. /\ m \in Nodes /\ s.link[m] \in Visible /\ s.link[m] \in AllNodes
        /\ s.kind[s.link[m]] # "Free"
        /\ s.kind[m] = "Reference" /\ s.link[m] \in TerminationVars
                           => s.kind[s.link[m]] = "Value"
    BY <1>1, <2>1, NodeSets DEF LinksLead
  <2> QED BY <1>9, <2>1, <2>2
<1>11. ControlLists(s2)
  <2>1. \A c \in Controls : s2.kind[c] = s.kind[c]
    BY <1>2, <1>7, NodeSets
  <2> QED BY <1>1, <1>6, <2>1 DEF ControlLists
<1>12. TerminationKinds(s2)
  BY <1>1, <1>2, <1>7, NodeSets DEF TerminationKinds
<1>13. OnlyVariables(s2)
  BY <1>1, <1>6, <1>7 DEF OnlyVariables, Unbound
<1>14. \A r \in Views(s2) : Listed(s2, r)
  <2> SUFFICES ASSUME NEW r \in Views(s) PROVE Listed(s2, r)
    BY <1>8
  <2>1. Target(s, r) \in AllNodes /\ Listed(s, r)
    BY <1>1, TargetFacts
  <2> QED BY <1>6, <1>8, <1>9, <2>1 DEF Listed, Unbound
<1>15. StoreInv(s2)
  BY <1>6, <1>8, <1>10, <1>11, <1>12, <1>13, <1>14 DEF StoreInv, Structure
<1>16. \A m \in AllNodes : /\ Base(s, m) \in AllNodes /\ Base(s, Base(s, m)) = Base(s, m)
                           /\ s.kind[m] # "Free" => s.kind[Base(s, m)] # "Free"
  BY BaseFacts
<1>17. Grows(s, s2)
  <2>1. ASSUME NEW m \in AllNodes, s.kind[m] # "Free"
        PROVE  s2.kind[m] # "Free" /\ Base(s2, m) = Base(s2, Base(s, m))
    BY <1>8, <1>9, <1>16, <2>1
  <2>2. ASSUME NEW m \in Visible, s.kind[Base(s, m)] \in {"Value", "FailedValue"}
        PROVE  Base(s2, m) = Base(s, m) /\ s2.kind[Base(s, m)] = s.kind[Base(s, m)]
    BY <1>8, <1>9, <1>16, <2>2, NodeSets
  <2>3. ASSUME NEW m \in AllNodes, NEW w, Hangs(s, m, w)
        PROVE  Hangs(s2, m, w) /\ (s2.needed[Base(s2, m)] => s.needed[Base(s, m)])
    <3>1. PICK d \in AllNodes : d = Base(s, m) /\ d = Base(s2, m)
      BY <1>8, <1>16
    <3>2. s.kind[d] \in Unbound /\ w \in s.pendings[d]
      BY <2>3, <3>1 DEF Hangs
    <3>3. s2.kind[d] = s.kind[d]
      BY <1>9, <3>2 DEF Unbound
    <3> QED BY <1>6, <3>1, <3>2, <3>3 DEF Hangs
  <2>4. ASSUME NEW m \in Visible, s.kind[m] # "Free", IsNeeded(s, m)
        PROVE  IsNeeded(s2, m)
    <3>1. PICK d \in AllNodes : d = Base(s, m) /\ d = Base(s2, m)
      BY <1>8, <1>16, NodeSets
    <3>2. s2.kind[d] = s.kind[d]
      BY <1>9, <1>16, <2>4, <3>1, NodeSets
    <3> QED BY <1>6, <2>4, <3>1, <3>2 DEF IsNeeded
  <2>5. UnitsStay(s, s2)
    BY <1>9, NodeSets DEF UnitsStay
  <2> QED BY <1>6, <2>1, <2>2, <2>3, <2>4, <2>5, NodeSets DEF Grows, Evolves
<1> QED BY <1>15, <1>17

\* Control variable c is used.
NewControl(s, c) == [s EXCEPT !.kind[c] = "Variable"]

\* A control variable that is free, or unit by now, becomes a variable.
LEMMA ControlEffect ==
    ASSUME NEW s, StoreInv(s), NEW c \in Controls, s.kind[c] \in {"Free", "Value"},
           NEW s2, s2 = NewControl(s, c)
    PROVE  /\ StoreInv(s2) /\ Evolves(s, s2)
           /\ \A m \in AllNodes : Base(s2, m) = Base(s, m) /\ Deref(s2, m) = Deref(s, m)
           /\ \A m \in AllNodes : s2.kind[m] = IF m = c THEN "Variable" ELSE s.kind[m]
           /\ \A m \in AllNodes : c \notin s2.pendings[m]
           /\ ~s2.needed[c] /\ s2.pendings[c] = {}
<1>1. /\ s \in StoreType /\ LinksLead(s) /\ Acyclic(s) /\ ControlLists(s)
      /\ TerminationKinds(s) /\ OnlyVariables(s)
      /\ \A r \in Views(s) : Listed(s, r)
  BY DEF StoreInv, Structure
<1>2. c \in AllNodes /\ c \notin Visible
  BY NodeSets
<1>3. PICK kind : kind = [s.kind EXCEPT ![c] = "Variable"]
  OBVIOUS
<1>4. s2 = [s EXCEPT !.kind = kind]
  BY <1>1, <1>3 DEF StoreType, NewControl
<1>5. kind \in [AllNodes -> Kinds]
  BY <1>1, <1>3 DEF StoreType, Kinds, Transient, Unbound
<1>6. /\ s2 \in StoreType /\ s2.kind = kind /\ s2.link = s.link /\ s2.needed = s.needed
      /\ s2.pendings = s.pendings /\ s2.woken = s.woken
  BY <1>1, <1>4, <1>5 DEF StoreType
<1>7. \A m \in AllNodes : s2.kind[m] = IF m = c THEN "Variable" ELSE s.kind[m]
  BY <1>1, <1>3, <1>6 DEF StoreType
<1>8. /\ Acyclic(s2) /\ Views(s2) = Views(s)
      /\ \A m \in AllNodes : Deref(s2, m) = Deref(s, m)
      /\ \A m \in AllNodes : Base(s2, m) = Base(s, m)
      /\ \A r \in Views(s) : Target(s2, r) = Target(s, r)
  <2>1. \A m \in AllNodes :
          s.kind[m] \in {"Reference", "ReadOnly"} \/ s2.kind[m] \in {"Reference", "ReadOnly"}
            => s2.kind[m] = s.kind[m]
    BY <1>7
  <2>2. \A m \in AllNodes : s.kind[m] \in {"Reference", "ReadOnly"} => s2.link[m] = s.link[m]
    BY <1>6
  <2> QED BY <1>1, <2>1, <2>2, SameBases
<1>9. \A m \in Visible : m \in AllNodes /\ s2.kind[m] = s.kind[m]
  BY <1>2, <1>7, NodeSets
<1>10. LinksLead(s2)
  <2> SUFFICES ASSUME NEW m \in AllNodes, s2.kind[m] \in {"Reference", "ReadOnly"}
               PROVE  /\ m \in Nodes
                      /\ s2.link[m] \in Visible
                      /\ s2.kind[s2.link[m]] # "Free"
                      /\ s2.kind[m] = "Reference" /\ s2.link[m] \in TerminationVars
                           => s2.kind[s2.link[m]] = "Value"
    BY DEF LinksLead
  <2>1. s.kind[m] = s2.kind[m] /\ s2.link[m] = s.link[m]
    BY <1>6, <1>7
  <2>2. /\ m \in Nodes /\ s.link[m] \in Visible
        /\ s.kind[s.link[m]] # "Free"
        /\ s.kind[m] = "Reference" /\ s.link[m] \in TerminationVars
                           => s.kind[s.link[m]] = "Value"
    BY <1>1, <2>1 DEF LinksLead
  <2> QED BY <1>9, <2>1, <2>2
<1>11. ControlLists(s2)
  <2>1. \A m \in Controls : m \in AllNodes
    BY NodeSets
  <2>2. \A m \in Controls : s2.kind[m] \in {"Free", "Variable", "Value"} /\ s2.pendings[m] \subseteq Threads
    BY <1>1, <1>6, <1>7, <2>1 DEF ControlLists
  <2>3. \A n \in AllNodes : \A m \in s2.pendings[n] \cap Controls : s2.kind[m] = "Variable"
    BY <1>1, <1>6, <1>7, <2>1 DEF ControlLists
  <2> QED BY <2>2, <2>3 DEF ControlLists
<1>12. TerminationKinds(s2)
  BY <1>1, <1>9, NodeSets DEF TerminationKinds
<1>13. OnlyVariables(s2)
  BY <1>1, <1>6, <1>7 DEF OnlyVariables, Unbound
<1>14. \A r \in Views(s2) : Listed(s2, r)
  <2> SUFFICES ASSUME NEW r \in Views(s) PROVE Listed(s2, r)
    BY <1>8
  <2>1. Target(s, r) \in Visible /\ Listed(s, r)
    BY <1>1, TargetFacts
  <2> QED BY <1>6, <1>8, <1>9, <2>1 DEF Listed
<1>15. StoreInv(s2)
  BY <1>6, <1>8, <1>10, <1>11, <1>12, <1>13, <1>14 DEF StoreInv, Structure
<1>16. \A m \in AllNodes : /\ Base(s, m) \in AllNodes /\ Base(s, Base(s, m)) = Base(s, m)
                           /\ m \in Visible => Base(s, m) \in Visible
  BY BaseFacts
<1>17. Evolves(s, s2)
  <2>1. ASSUME NEW m \in AllNodes, s.kind[m] # "Free"
        PROVE  s2.kind[m] # "Free" /\ Base(s2, m) = Base(s2, Base(s, m))
    BY <1>7, <1>8, <1>16, <2>1
  <2>2. ASSUME NEW m \in Visible, s.kind[Base(s, m)] \in {"Value", "FailedValue"}
        PROVE  Base(s2, m) = Base(s, m) /\ s2.kind[Base(s, m)] = s.kind[Base(s, m)]
    BY <1>8, <1>9, <1>16, <2>2
  <2>3. ASSUME NEW m \in AllNodes, NEW w, Hangs(s, m, w)
        PROVE  Hangs(s2, m, w) /\ (s2.needed[Base(s2, m)] => s.needed[Base(s, m)])
    <3>1. PICK d \in AllNodes : d = Base(s, m) /\ d = Base(s2, m)
      BY <1>8, <1>16
    <3>2. s.kind[d] \in Unbound /\ w \in s.pendings[d]
      BY <2>3, <3>1 DEF Hangs
    <3>3. s2.kind[d] \in Unbound
      BY <1>7, <3>2 DEF Unbound
    <3> QED BY <1>6, <3>1, <3>2, <3>3 DEF Hangs
  <2>4. ASSUME NEW m \in Visible, s.kind[m] # "Free", IsNeeded(s, m)
        PROVE  IsNeeded(s2, m)
    <3>1. PICK d \in Visible : d = Base(s, m) /\ d = Base(s2, m)
      BY <1>8, <1>9, <1>16
    <3>2. s2.kind[d] = s.kind[d]
      BY <1>9
    <3> QED BY <1>6, <2>4, <3>1, <3>2 DEF IsNeeded
  <2> QED BY <1>6, <2>1, <2>2, <2>3, <2>4, NodeSets DEF Evolves
<1>18. \A m \in AllNodes : c \notin s2.pendings[m]
  BY <1>1, <1>6 DEF ControlLists
<1>19. ~s2.needed[c] /\ s2.pendings[c] = {}
  BY <1>1, <1>2, <1>6 DEF OnlyVariables, Unbound
<1> QED BY <1>7, <1>8, <1>15, <1>17, <1>18, <1>19

\* Free node n becomes a reference to u or a view of it.
NewLink(s, n, u, k) == [s EXCEPT !.link[n] = u, !.kind[n] = k]

\* A node that nothing led to becomes a reference to u, or a view of it that is in its list.
LEMMA LinkEffect ==
    ASSUME NEW s, StoreInv(s), NEW n \in Nodes, s.kind[n] = "Free",
           NEW k \in {"Reference", "ReadOnly"}, NEW u \in Visible,
           s.kind[u] \notin {"Free", "Reference"},
           k = "Reference" => u \in Referable(s),
           k = "ReadOnly" => s.kind[u] \in Unbound /\ n \in s.pendings[u],
           NEW s2, s2 = NewLink(s, n, u, k)
    PROVE  StoreInv(s2) /\ Grows(s, s2)
<1>1. /\ s \in StoreType /\ LinksLead(s) /\ Acyclic(s) /\ ControlLists(s)
      /\ TerminationKinds(s) /\ OnlyVariables(s)
      /\ \A r \in Views(s) : Listed(s, r)
  BY DEF StoreInv, Structure
<1>2. n \in AllNodes /\ n \notin Controls /\ n \notin TerminationVars /\ u \in AllNodes /\ u # n
  BY NodeSets
<1>3. PICK kind : kind = [s.kind EXCEPT ![n] = k]
  OBVIOUS
<1>4. PICK link : link = [s.link EXCEPT ![n] = u]
  OBVIOUS
<1>5. s2 = [s EXCEPT !.kind = kind, !.link = link]
  BY <1>1, <1>3, <1>4 DEF StoreType, NewLink
<1>6. kind \in [AllNodes -> Kinds] /\ link \in [AllNodes -> AllNodes \cup {None}]
  BY <1>1, <1>2, <1>3, <1>4 DEF StoreType, Kinds, Transient, Unbound
<1>7. /\ s2 \in StoreType /\ s2.kind = kind /\ s2.link = link /\ s2.needed = s.needed
      /\ s2.pendings = s.pendings /\ s2.woken = s.woken
  BY <1>1, <1>5, <1>6 DEF StoreType
<1>8. /\ \A m \in AllNodes : s2.kind[m] = IF m = n THEN k ELSE s.kind[m]
      /\ \A m \in AllNodes : s2.link[m] = IF m = n THEN u ELSE s.link[m]
  BY <1>1, <1>3, <1>4, <1>7 DEF StoreType
<1>9. Deref(s, u) = u /\ Deref(s, n) = n
  BY <1>1, <1>2, DerefFacts
<1>10. \A m \in AllNodes : m # n => Deref(s, m) \in AllNodes /\ Deref(s, m) # n
  <2> SUFFICES ASSUME NEW m \in AllNodes, m # n
               PROVE  Deref(s, m) \in AllNodes /\ Deref(s, m) # n
    OBVIOUS
  <2>1. Deref(s, m) \in AllNodes
    BY <1>1, DerefFacts
  <2>2. CASE s.kind[m] = "Reference"
    <3>1. s.kind[Deref(s, m)] # "Free"
      BY <1>1, <2>2, DerefVisible
    <3> QED BY <2>1, <3>1
  <2>3. CASE s.kind[m] # "Reference"
    BY <1>1, <2>3, DerefFacts
  <2> QED BY <2>2, <2>3
<1>11. /\ Acyclic(s2)
       /\ \A m \in AllNodes : m # n => Deref(s2, m) = Deref(s, m)
       /\ k = "Reference" => Deref(s2, n) = u
       /\ k = "ReadOnly" => Deref(s2, n) = n
  <2>1. CASE k = "Reference"
    <3>1. PICK R : R = {n}
      OBVIOUS
    <3>2. /\ Acyclic(s2)
          /\ \A m \in AllNodes :
               Deref(s2, m) = IF Deref(s, m) \in R THEN Deref(s, s2.link[Deref(s, m)]) ELSE Deref(s, m)
      <4>1. R \in SUBSET Nodes
        BY <3>1
      <4>2. \A m \in R : s.kind[m] # "Reference"
        BY <3>1
      <4>3. \A m \in R : s2.link[m] \in AllNodes /\ Deref(s, s2.link[m]) \notin R
        BY <1>2, <1>8, <1>9, <3>1
      <4>4. \A m \in AllNodes : s2.kind[m] = "Reference" <=> m \in R \/ s.kind[m] = "Reference"
        BY <1>8, <2>1, <3>1
      <4>5. \A m \in AllNodes \ R : s.kind[m] = "Reference" => s2.link[m] = s.link[m]
        BY <1>8, <3>1
      <4> QED BY <1>1, <4>1, <4>2, <4>3, <4>4, <4>5, Redirect
    <3>3. Deref(s2, n) = u
      BY <1>2, <1>8, <1>9, <3>1, <3>2
    <3>4. \A m \in AllNodes : m # n => Deref(s2, m) = Deref(s, m)
      BY <1>10, <3>1, <3>2
    <3> QED BY <2>1, <3>2, <3>3, <3>4
  <2>2. CASE k = "ReadOnly"
    <3>1. \A m \in AllNodes : s2.kind[m] = "Reference" <=> s.kind[m] = "Reference"
      BY <1>8, <2>2
    <3>2. \A m \in AllNodes : s.kind[m] = "Reference" => s2.link[m] = s.link[m]
      BY <1>8
    <3>3. Acyclic(s2) /\ \A m \in AllNodes : Deref(s2, m) = Deref(s, m)
      BY <1>1, <3>1, <3>2, SameReferences
    <3> QED BY <1>2, <1>9, <2>2, <3>3
  <2> QED BY <2>1, <2>2
<1>12. LinksLead(s2)
  <2> SUFFICES ASSUME NEW m \in AllNodes, s2.kind[m] \in {"Reference", "ReadOnly"}
               PROVE  /\ m \in Nodes
                      /\ s2.link[m] \in Visible
                      /\ s2.kind[s2.link[m]] # "Free"
                      /\ s2.kind[m] = "Reference" /\ s2.link[m] \in TerminationVars
                           => s2.kind[s2.link[m]] = "Value"
    BY DEF LinksLead
  <2>1. CASE m = n
    BY <1>2, <1>8, <2>1 DEF Referable
  <2>2. CASE m # n
    <3>1. s.kind[m] = s2.kind[m] /\ s2.link[m] = s.link[m]
      BY <1>8, <2>2
    <3>2. /\ m \in Nodes /\ s.link[m] \in Visible /\ s.link[m] \in AllNodes
          /\ s.kind[s.link[m]] # "Free"
          /\ s.kind[m] = "Reference" /\ s.link[m] \in TerminationVars
                             => s.kind[s.link[m]] = "Value"
      BY <1>1, <3>1, NodeSets DEF LinksLead
    <3> QED BY <1>8, <3>1, <3>2
  <2> QED BY <2>1, <2>2
<1>13. ControlLists(s2)
  <2>1. \A c \in Controls : s2.kind[c] = s.kind[c]
    BY <1>2, <1>8, NodeSets
  <2> QED BY <1>1, <1>7, <2>1 DEF ControlLists
<1>14. TerminationKinds(s2)
  BY <1>1, <1>2, <1>8, NodeSets DEF TerminationKinds
<1>15. OnlyVariables(s2)
  BY <1>1, <1>7, <1>8 DEF OnlyVariables, Unbound
<1>16. ASSUME NEW r \in Views(s) PROVE r # n /\ Target(s2, r) = Target(s, r) /\ Target(s, r) \in AllNodes /\ Target(s, r) # n
  <2>1. /\ r \in AllNodes /\ s.kind[r] = "ReadOnly" /\ s.link[r] \in AllNodes
        /\ Target(s, r) \in AllNodes /\ s.kind[Target(s, r)] # "Free"
    BY <1>1, TargetFacts
  <2>2. r # n /\ s2.link[r] = s.link[r]
    BY <1>8, <2>1
  <2>3. s.link[r] # n
    BY <1>1, <2>1 DEF LinksLead
  <2> QED BY <1>11, <2>1, <2>2, <2>3 DEF Target
<1>17. ASSUME NEW r \in Views(s2) PROVE Listed(s2, r)
  <2>1. CASE r = n
    <3>1. k = "ReadOnly" /\ Target(s2, r) = u
      <4>1. k = "ReadOnly"
        BY <1>2, <1>8, <2>1 DEF Views
      <4> QED BY <1>2, <1>8, <1>9, <1>11, <2>1, <4>1 DEF Target
    <3> QED BY <1>2, <1>7, <1>8, <2>1, <3>1 DEF Listed
  <2>2. CASE r # n
    <3>1. r \in Views(s)
      BY <1>8, <2>2, NodeSets DEF Views
    <3>2. Target(s2, r) = Target(s, r) /\ Target(s, r) \in AllNodes /\ Target(s, r) # n
      BY <1>16, <3>1
    <3> QED BY <1>1, <1>7, <1>8, <3>1, <3>2 DEF Listed
  <2> QED BY <2>1, <2>2
<1>18. StoreInv(s2)
  BY <1>7, <1>11, <1>12, <1>13, <1>14, <1>15, <1>17 DEF StoreInv, Structure
<1>19. \A m \in AllNodes : /\ Base(s, m) \in AllNodes /\ Base(s, Base(s, m)) = Base(s, m)
                           /\ s.kind[m] # "Free" => s.kind[Base(s, m)] # "Free"
                           /\ s.kind[m] = "Free" => Base(s, m) = m
  BY BaseFacts
<1>20. ASSUME NEW m \in AllNodes, m # n
       PROVE  Base(s2, m) = Base(s, m)
  <2>1. PICK d \in AllNodes : d = Deref(s, m) /\ d = Deref(s2, m) /\ d # n
    BY <1>10, <1>11, <1>20
  <2>2. s2.kind[d] = s.kind[d]
    BY <1>8, <2>1
  <2>3. Base(s, m) = IF s.kind[d] = "ReadOnly" THEN Target(s, d) ELSE d
    BY <2>1 DEF Base, Target
  <2>4. Base(s2, m) = IF s2.kind[d] = "ReadOnly" THEN Target(s2, d) ELSE d
    BY <2>1 DEF Base, Target
  <2>5. s.kind[d] = "ReadOnly" => d \in Views(s)
    BY <1>1, <2>1 DEF LinksLead, Views
  <2> QED BY <1>16, <2>2, <2>3, <2>4, <2>5
<1>21. \A m \in AllNodes : s.kind[m] # "Free" => m # n /\ s2.kind[m] = s.kind[m]
  BY <1>8
<1>22. \A m \in AllNodes : s.kind[Base(s, m)] # "Free" => m # n
  BY <1>19
<1>23. Grows(s, s2)
  <2>1. ASSUME NEW m \in AllNodes, s.kind[m] # "Free"
        PROVE  s2.kind[m] # "Free" /\ Base(s2, m) = Base(s2, Base(s, m))
    BY <1>19, <1>20, <1>21, <2>1
  <2>2. ASSUME NEW m \in Visible, s.kind[Base(s, m)] \in {"Value", "FailedValue"}
        PROVE  Base(s2, m) = Base(s, m) /\ s2.kind[Base(s, m)] = s.kind[Base(s, m)]
    BY <1>19, <1>20, <1>21, <1>22, <2>2, NodeSets
  <2>3. ASSUME NEW m \in AllNodes, NEW w, Hangs(s, m, w)
        PROVE  Hangs(s2, m, w) /\ (s2.needed[Base(s2, m)] => s.needed[Base(s, m)])
    <3>1. PICK d \in AllNodes : d = Base(s, m) /\ s.kind[d] \in Unbound /\ w \in s.pendings[d]
      BY <1>19, <2>3 DEF Hangs
    <3>2. s2.kind[d] = s.kind[d]
      BY <1>21, <3>1 DEF Unbound
    <3>3. Base(s2, m) = d
      BY <1>20, <1>22, <3>1 DEF Unbound
    <3> QED BY <1>7, <3>1, <3>2, <3>3 DEF Hangs
  <2>4. ASSUME NEW m \in Visible, s.kind[m] # "Free", IsNeeded(s, m)
        PROVE  IsNeeded(s2, m)
    <3>1. PICK d \in AllNodes : d = Base(s, m) /\ d = Base(s2, m)
      BY <1>19, <1>20, <1>21, <2>4, NodeSets
    <3>2. s2.kind[d] = s.kind[d]
      BY <1>19, <1>21, <2>4, <3>1, NodeSets
    <3> QED BY <1>7, <2>4, <3>1, <3>2 DEF IsNeeded
  <2>5. UnitsStay(s, s2)
    BY <1>21, NodeSets DEF UnitsStay
  <2> QED BY <1>7, <2>1, <2>2, <2>3, <2>4, <2>5, NodeSets DEF Grows, Evolves
<1> QED BY <1>18, <1>23

\* The operator !!.
LEMMA ReadOnlyEffect ==
    ASSUME NEW s, StoreInv(s), NEW n \in Nodes, s.kind[n] = "Free", NEW x \in Visible,
           s.kind[x] # "Free", NEW u, u = Deref(s, x),
           NEW s2,
           NeedsProtection(s.kind[u]) => s2 = AddToSuspendList(NewLink(s, n, u, "ReadOnly"), u, n),
           ~NeedsProtection(s.kind[u]) => s2 = NewLink(s, n, u, "Reference")
    PROVE  StoreInv(s2) /\ Grows(s, s2)
<1>1. s \in StoreType /\ LinksLead(s) /\ Acyclic(s) /\ TerminationKinds(s)
  BY DEF StoreInv, Structure
<1>2. /\ u \in Visible /\ u \in AllNodes /\ s.kind[u] \notin {"Free", "Reference"}
      /\ n \in AllNodes /\ u # n
  BY <1>1, DerefVisible, DerefFacts, NodeSets
<1>3. CASE ~NeedsProtection(s.kind[u])
  <2>1. u \in Referable(s)
    BY <1>1, <1>2, <1>3 DEF Referable, TerminationKinds, NeedsProtection, Unbound
  <2>2. s2 = NewLink(s, n, u, "Reference")
    BY <1>3
  <2> QED BY <1>2, <2>1, <2>2, LinkEffect
<1>4. CASE NeedsProtection(s.kind[u])
  <2>1. PICK s1 : s1 = AddToSuspendList(s, u, n)
    OBVIOUS
  <2>2. n \in Wakeables /\ n \notin Controls
    BY NodeSets DEF Wakeables
  <2>3. Base(s, u) = u
    BY <1>2, <1>4, BaseFacts DEF NeedsProtection, Unbound
  <2>4. /\ StoreInv(s1) /\ Grows(s, s1)
        /\ \A m \in AllNodes : Base(s1, m) = Base(s, m)
        /\ Hangs(s1, u, n)
        /\ \A m \in AllNodes : s1.kind[m] = s.kind[m] \/ m = Base(s, u)
    BY <1>2, <1>4, <2>1, <2>2, <2>3, AddToSuspendListEffect
  <2>5. s1.kind[u] \in Unbound /\ n \in s1.pendings[u] /\ s1.kind[n] = "Free"
    BY <1>2, <2>3, <2>4 DEF Hangs
  <2>6. s2 = NewLink(s1, n, u, "ReadOnly")
    <3>1. PICK v : v = [s EXCEPT !.link[n] = u, !.kind[n] = "ReadOnly"]
      OBVIOUS
    <3>2. /\ v = [s EXCEPT !.link = [s.link EXCEPT ![n] = u], !.kind = [s.kind EXCEPT ![n] = "ReadOnly"]]
      BY <1>1, <3>1 DEF StoreType
    <3>3. /\ v.kind = [s.kind EXCEPT ![n] = "ReadOnly"] /\ v.link = [s.link EXCEPT ![n] = u]
          /\ v.needed = s.needed /\ v.pendings = s.pendings /\ v.woken = s.woken
      BY <1>1, <3>2 DEF StoreType
    <3>4. v.kind[u] = s.kind[u] /\ v.kind[n] = "ReadOnly"
      BY <1>1, <1>2, <3>3 DEF StoreType
    <3>5. Base(v, u) = u
      BY <1>2, <1>4, <3>4 DEF Base, Deref, NeedsProtection, Unbound
    <3>6. s2 = AddToSuspendList(v, u, n)
      BY <1>4, <3>1 DEF NewLink
    <3>7. s2 = [v EXCEPT !.kind[u] = IF @ = "OptVar" THEN "Variable" ELSE @,
                         !.pendings[u] = @ \cup {n}]
      BY <1>4, <3>4, <3>5, <3>6 DEF AddToSuspendList
    <3>8. s1 = [s EXCEPT !.kind[u] = IF @ = "OptVar" THEN "Variable" ELSE @,
                         !.pendings[u] = @ \cup {n}]
      BY <1>4, <2>1, <2>3 DEF AddToSuspendList
    <3>9. PICK k : k = IF s.kind[u] = "OptVar" THEN "Variable" ELSE s.kind[u]
      OBVIOUS
    <3>10. PICK p : p = [s.pendings EXCEPT ![u] = @ \cup {n}]
      OBVIOUS
    <3>11. PICK k1 : k1 = [s.kind EXCEPT ![u] = k]
      OBVIOUS
    <3>12. PICK k2 : k2 = [[s.kind EXCEPT ![n] = "ReadOnly"] EXCEPT ![u] = k]
      OBVIOUS
    <3>13. PICK l : l = [s.link EXCEPT ![n] = u]
      OBVIOUS
    <3>14. s1 = [s EXCEPT !.kind = k1, !.pendings = p]
      BY <1>1, <3>8, <3>9, <3>10, <3>11 DEF StoreType
    <3>15. s2 = [v EXCEPT !.kind = k2, !.pendings = p]
      BY <1>1, <3>2, <3>3, <3>4, <3>7, <3>9, <3>10, <3>12 DEF StoreType
    <3>16. k2 = [k1 EXCEPT ![n] = "ReadOnly"]
      BY <1>1, <1>2, <3>11, <3>12 DEF StoreType
    <3>17. s2 = [s EXCEPT !.kind = k2, !.link = l, !.pendings = p]
      BY <1>1, <3>2, <3>13, <3>15 DEF StoreType
    <3>18. s1.kind = k1 /\ s1.link = s.link
      BY <1>1, <3>14 DEF StoreType
    <3>19. [s1 EXCEPT !.link = l, !.kind = k2] = [s EXCEPT !.kind = k2, !.link = l, !.pendings = p]
      BY <1>1, <3>14 DEF StoreType
    <3>20. [s1 EXCEPT !.link[n] = u, !.kind[n] = "ReadOnly"] = [s1 EXCEPT !.link = l, !.kind = k2]
      BY <1>1, <3>13, <3>14, <3>16, <3>18 DEF StoreType
    <3> QED BY <3>17, <3>19, <3>20 DEF NewLink
  <2>7. StoreInv(s2) /\ Grows(s1, s2)
    <3>1. s1.kind[u] \notin {"Free", "Reference"}
      BY <2>5 DEF Unbound
    <3> QED BY <1>2, <2>4, <2>5, <2>6, <3>1, LinkEffect
  <2>8. Grows(s, s2)
    BY <2>4, <2>7, EvolvesTransitive DEF Grows
  <2> QED BY <2>7, <2>8
<1> QED BY <1>3, <1>4

-----------------------------------------------------------------------------
(* References stay *)

\* A store, whatever its nodes hold, also when references run in circles.
StoresOf(K, L, N, P, W) ==
    [kind : [AllNodes -> K], link : [AllNodes -> L], needed : N, pendings : P, woken : W]
Shaped(s) == \E K, L, N, P, W : s \in StoresOf(K, L, N, P, W)

\* What is a reference stays one, to the same node.
ReferencesStay(s, s2) ==
    \A n \in Nodes : s.kind[n] = "Reference" => s2.kind[n] = "Reference" /\ s2.link[n] = s.link[n]

\* What is an unbound variable stays one.
VariablesStay(s, s2) ==
    \A n \in Nodes : NeedsProtection(s.kind[n]) => NeedsProtection(s2.kind[n])

Stays(s, s2) == Shaped(s2) /\ ReferencesStay(s, s2) /\ VariablesStay(s, s2)

\* Stores that are typed are shaped.
LEMMA TypedIsShaped ==
    ASSUME NEW s \in StoreType
    PROVE  Shaped(s)
<1>1. s \in StoresOf(Kinds, AllNodes \cup {None}, [AllNodes -> BOOLEAN],
                     [AllNodes -> SUBSET Wakeables], SUBSET Threads)
  BY DEF StoreType, StoresOf
<1> QED BY <1>1, Zenon DEF Shaped

\* Two changes, one after the other.
LEMMA StaysTransitive ==
    ASSUME NEW s1, NEW s2, NEW s3, Stays(s1, s2), Stays(s2, s3)
    PROVE  Stays(s1, s3)
<1>1. ReferencesStay(s1, s3)
  BY DEF Stays, ReferencesStay
<1>2. VariablesStay(s1, s3)
  BY DEF Stays, VariablesStay
<1> QED BY <1>1, <1>2 DEF Stays

\* A store that is shaped, with what it must keep.
LEMMA FieldsStay ==
    ASSUME NEW s, NEW K, NEW L, NEW N, NEW P, NEW W, NEW s2 \in StoresOf(K, L, N, P, W),
           \A n \in Nodes : s.kind[n] = "Reference" => s2.kind[n] = "Reference" /\ s2.link[n] = s.link[n],
           \A n \in Nodes : NeedsProtection(s.kind[n]) => NeedsProtection(s2.kind[n])
    PROVE  Stays(s, s2)
<1>1. Shaped(s2)
  BY Zenon DEF Shaped
<1> QED BY <1>1 DEF Stays, ReferencesStay, VariablesStay

\* Only lists, needs and the record of woken threads change.
LEMMA ListsStay ==
    ASSUME NEW s, Shaped(s), NEW needed, NEW pendings, NEW woken, NEW s2,
           s2 = [s EXCEPT !.needed = needed, !.pendings = pendings, !.woken = woken]
    PROVE  Stays(s, s2) /\ s2.kind = s.kind /\ s2.link = s.link
<1>1. PICK K, L, N, P, W : s \in StoresOf(K, L, N, P, W)
  BY Zenon DEF Shaped
<1>2. /\ s2 \in StoresOf(K, L, {needed}, {pendings}, {woken})
      /\ s2.kind = s.kind /\ s2.link = s.link
  BY <1>1 DEF StoresOf
<1>3. Stays(s, s2)
  BY <1>2, FieldsStay
<1> QED BY <1>2, <1>3

\* Waking a list makes references of views only.
LEMMA WakeStays ==
    ASSUME NEW s, Shaped(s), NEW list, NEW s2, s2 = Wake(s, list)
    PROVE  Stays(s, s2)
<1>1. PICK sT : sT = WakeThreads(s, list)
  OBVIOUS
<1>2. PICK sC : sC = WakeControls(sT, list)
  OBVIOUS
<1>3. s2 = WakeReadOnly(sC, list)
  BY <1>1, <1>2 DEF Wake
<1>4. Stays(s, sT)
  <2>1. PICK woken : woken = s.woken \cup (list \cap Threads)
    OBVIOUS
  <2>2. sT = [s EXCEPT !.needed = s.needed, !.pendings = s.pendings, !.woken = woken]
    BY <1>1, <2>1 DEF WakeThreads, Shaped
  <2> QED BY <2>2, ListsStay
<1>5. Stays(sT, sC)
  <2>1. PICK kind : kind = [n \in AllNodes |-> IF n \in list \cap Controls THEN "Value" ELSE sT.kind[n]]
    OBVIOUS
  <2>2. PICK needed, pendings, woken :
          sC = [sT EXCEPT !.kind = kind, !.needed = needed, !.pendings = pendings, !.woken = woken]
    BY <1>2, <2>1 DEF WakeControls
  <2>3. Shaped(sT)
    BY <1>4 DEF Stays
  <2>4. PICK K, L, N, P, W : sT \in StoresOf(K, L, N, P, W)
    BY <2>3, Zenon DEF Shaped
  <2>5. /\ sC \in StoresOf(K \cup {"Value"}, L, {needed}, {pendings}, {woken})
        /\ sC.kind = kind /\ sC.link = sT.link
    <3>1. kind \in [AllNodes -> K \cup {"Value"}]
      BY <2>1, <2>4 DEF StoresOf
    <3> QED BY <2>2, <2>4, <3>1 DEF StoresOf
  <2>6. \A n \in Nodes : sC.kind[n] = sT.kind[n] /\ sC.link[n] = sT.link[n]
    BY <2>1, <2>5, NodeSets
  <2> QED BY <2>5, <2>6, FieldsStay
<1>6. Stays(sC, s2)
  <2>1. PICK futures : futures = {r \in list \cap Nodes : sC.kind[r] = "ReadOnly"}
    OBVIOUS
  <2>2. PICK again : again = {r \in futures : NeedsProtection(KindOf(sC, sC.link[r]))}
    OBVIOUS
  <2>3. PICK kind : kind = [n \in AllNodes |->
                      IF n \in futures \ again THEN "Reference"
                      ELSE IF sC.kind[n] = "OptVar" /\ {r \in again : Deref(sC, sC.link[r]) = n} # {}
                      THEN "Variable" ELSE sC.kind[n]]
    OBVIOUS
  <2>4. PICK link : link = [n \in AllNodes |->
                      IF n \in futures \ again /\ sC.kind[sC.link[n]] = "Reference"
                      THEN sC.link[sC.link[n]] ELSE sC.link[n]]
    OBVIOUS
  <2>5. PICK pendings : s2 = [sC EXCEPT !.kind = kind, !.link = link, !.pendings = pendings]
    BY <1>3, <2>1, <2>2, <2>3, <2>4 DEF WakeReadOnly
  <2>6. Shaped(sC)
    BY <1>5 DEF Stays
  <2>7. PICK K0, L0, N, P, W : sC \in StoresOf(K0, L0, N, P, W)
    BY <2>6, Zenon DEF Shaped
  <2>8. PICK K, L : kind \in [AllNodes -> K] /\ link \in [AllNodes -> L]
    <3>1. PICK K : K = {kind[n] : n \in AllNodes}
      OBVIOUS
    <3>2. PICK L : L = {link[n] : n \in AllNodes}
      OBVIOUS
    <3>3. kind \in [AllNodes -> K]
      BY <2>3, <3>1
    <3>4. link \in [AllNodes -> L]
      BY <2>4, <3>2
    <3> QED BY <3>3, <3>4
  <2>9. \A n \in Nodes : sC.kind[n] = "Reference" => kind[n] = "Reference" /\ link[n] = sC.link[n]
    BY <2>1, <2>3, <2>4, NodeSets
  <2>10. \A n \in Nodes : NeedsProtection(sC.kind[n]) => NeedsProtection(kind[n])
    BY <2>1, <2>3, NodeSets DEF NeedsProtection, Unbound
  <2>11. s2 \in StoresOf(K, L, N, {pendings}, W) /\ s2.kind = kind /\ s2.link = link
    BY <2>5, <2>7, <2>8 DEF StoresOf
  <2> QED BY <2>9, <2>10, <2>11, FieldsStay
<1> QED BY <1>4, <1>5, <1>6, StaysTransitive

\* wakeUpPendings.
LEMMA WakeUpPendingsStays ==
    ASSUME NEW s, Shaped(s), NEW n, NEW s2, s2 = WakeUpPendings(s, n)
    PROVE  Stays(s, s2)
<1>1. PICK u : u = [s EXCEPT !.pendings[n] = {}]
  OBVIOUS
<1>2. PICK pendings : u = [s EXCEPT !.needed = s.needed, !.pendings = pendings, !.woken = s.woken]
  BY <1>1 DEF Shaped
<1>3. Stays(s, u)
  BY <1>2, ListsStay
<1>4. s2 = Wake(u, s.pendings[n])
  BY <1>1 DEF WakeUpPendings
<1> QED BY <1>3, <1>4, WakeStays, StaysTransitive DEF Stays

\* A variable that is not optimised any more, with another list and need.
LEMMA DeoptimiseStays ==
    ASSUME NEW s, Shaped(s), NEW b, s.kind[b] = "OptVar",
           NEW needed, NEW pendings, NEW s2,
           s2 = [s EXCEPT !.kind[b] = "Variable", !.needed = needed, !.pendings = pendings]
    PROVE  Stays(s, s2)
<1>1. PICK kind : kind = [s.kind EXCEPT ![b] = "Variable"]
  OBVIOUS
<1>2. PICK K, L, N, P, W : s \in StoresOf(K, L, N, P, W)
  BY Zenon DEF Shaped
<1>3. /\ kind \in [AllNodes -> K \cup {"Variable"}]
      /\ \A n \in AllNodes : kind[n] = IF n = b THEN "Variable" ELSE s.kind[n]
      /\ s2 = [s EXCEPT !.kind = kind, !.needed = needed, !.pendings = pendings]
  BY <1>1, <1>2 DEF StoresOf
<1>4. /\ s2 \in StoresOf(K \cup {"Variable"}, L, {needed}, {pendings}, W)
      /\ s2.kind = kind /\ s2.link = s.link
  BY <1>2, <1>3 DEF StoresOf
<1>5. \A n \in Nodes : s.kind[n] = "Reference" => s2.kind[n] = "Reference" /\ s2.link[n] = s.link[n]
  BY <1>3, <1>4, NodeSets
<1>6. \A n \in Nodes : NeedsProtection(s.kind[n]) => NeedsProtection(s2.kind[n])
  BY <1>3, <1>4, NodeSets DEF NeedsProtection, Unbound
<1>7. Shaped(s2)
  BY <1>4, Zenon DEF Shaped
<1> QED BY <1>5, <1>6, <1>7 DEF Stays, ReferencesStay, VariablesStay

\* addToSuspendList.
LEMMA AddToSuspendListStays ==
    ASSUME NEW s, Shaped(s), NEW n, NEW w, NEW s2, s2 = AddToSuspendList(s, n, w)
    PROVE  Stays(s, s2)
<1>1. PICK b : b = Base(s, n)
  OBVIOUS
<1>2. PICK pendings : pendings = [s.pendings EXCEPT ![b] = @ \cup {w}]
  OBVIOUS
<1>3. CASE s.kind[b] = "OptVar"
  <2>1. s2 = [s EXCEPT !.kind[b] = "Variable", !.pendings = pendings]
    BY <1>1, <1>2, <1>3 DEF AddToSuspendList, NeedsProtection
  <2>2. PICK needed : needed = s.needed
    OBVIOUS
  <2>3. PICK K, L, N, P, W : s \in StoresOf(K, L, N, P, W)
    BY Zenon DEF Shaped
  <2>4. s2 = [s EXCEPT !.kind[b] = "Variable", !.needed = needed, !.pendings = pendings]
    BY <2>1, <2>2, <2>3 DEF StoresOf
  <2> QED BY <1>3, <2>4, DeoptimiseStays
<1>4. CASE s.kind[b] # "OptVar"
  <2>1. PICK K, L, N, P, W : s \in StoresOf(K, L, N, P, W)
    BY Zenon DEF Shaped
  <2>2. \/ s2 = s
        \/ s2 = [s EXCEPT !.kind[b] = s.kind[b], !.pendings = pendings]
    BY <1>1, <1>2, <1>4 DEF AddToSuspendList
  <2>3. /\ s2 \in StoresOf(K, L, N, P \cup {pendings}, W)
        /\ s2.kind = s.kind /\ s2.link = s.link
    BY <2>1, <2>2 DEF StoresOf
  <2> QED BY <2>3, FieldsStay
<1> QED BY <1>3, <1>4

\* markNeeded.
LEMMA MarkNeededStays ==
    ASSUME NEW s, Shaped(s), NEW n, NEW s2, s2 = MarkNeeded(s, n)
    PROVE  Stays(s, s2)
<1>1. PICK b : b = Base(s, n)
  OBVIOUS
<1>2. PICK needed : needed = [s.needed EXCEPT ![b] = TRUE]
  OBVIOUS
<1>3. Stays(s, s)
  BY DEF Stays, ReferencesStay, VariablesStay
<1>4. CASE s.kind[b] = "OptVar"
  <2>1. s2 = [s EXCEPT !.kind[b] = "Variable", !.needed = needed, !.pendings = s.pendings]
    BY <1>1, <1>2, <1>4 DEF MarkNeeded, Shaped
  <2> QED BY <1>4, <2>1, DeoptimiseStays
<1>5. CASE s.kind[b] # "OptVar" /\ s.kind[b] \in Unbound /\ ~s.needed[b]
  <2>1. PICK u : u = [s EXCEPT !.needed[b] = TRUE]
    OBVIOUS
  <2>2. u = [s EXCEPT !.needed = needed, !.pendings = s.pendings, !.woken = s.woken]
    BY <1>2, <2>1 DEF Shaped
  <2>3. Stays(s, u)
    BY <2>2, ListsStay
  <2>4. s2 = WakeUpPendings(u, b)
    BY <1>1, <1>5, <2>1 DEF MarkNeeded
  <2> QED BY <2>3, <2>4, WakeUpPendingsStays, StaysTransitive DEF Stays
<1>6. CASE s.kind[b] # "OptVar" /\ ~(s.kind[b] \in Unbound /\ ~s.needed[b])
  BY <1>1, <1>3, <1>6 DEF MarkNeeded
<1> QED BY <1>4, <1>5, <1>6

\* bind: only its variable becomes a reference, to what it is bound to, whatever
\* else is woken.
LEMMA BindStays ==
    ASSUME NEW s, Shaped(s), NEW n, NEW src, NeedsProtection(s.kind[n]),
           NEW s2, s2 = Bind(s, n, src)
    PROVE  /\ Shaped(s2) /\ ReferencesStay(s, s2)
           /\ \A m \in Nodes : m # n /\ NeedsProtection(s.kind[m]) => NeedsProtection(s2.kind[m])
           /\ n = src => Stays(s, s2)
           /\ n \in Nodes /\ n # src => s2.kind[n] = "Reference" /\ s2.link[n] = src
<1>1. PICK s1 : s1 = IF s.needed[n] THEN MarkNeeded(s, src) ELSE s
  OBVIOUS
<1>2. Stays(s, s1)
  <2>1. Stays(s, s)
    BY DEF Stays, ReferencesStay, VariablesStay
  <2> QED BY <1>1, <2>1, MarkNeededStays
<1>3. PICK u : u = Become(s1, n, src)
  OBVIOUS
<1>4. s2 = WakeUpPendings(u, n)
  BY <1>1, <1>3 DEF Bind
<1>5. /\ Shaped(u) /\ ReferencesStay(s, u)
      /\ \A m \in Nodes : m # n /\ NeedsProtection(s.kind[m]) => NeedsProtection(u.kind[m])
      /\ n = src => Stays(s, u)
      /\ n \in Nodes /\ n # src => u.kind[n] = "Reference" /\ u.link[n] = src
  <2>1. CASE n = src
    BY <1>2, <1>3, <2>1 DEF Become, Stays, VariablesStay
  <2>2. CASE n # src
    <3>1. PICK K, L, N, P, W : s1 \in StoresOf(K, L, N, P, W)
      BY <1>2, Zenon DEF Stays, Shaped
    <3>2. PICK kind, link, needed : /\ kind = [s1.kind EXCEPT ![n] = "Reference"]
                                    /\ link = [s1.link EXCEPT ![n] = src]
                                    /\ needed = [s1.needed EXCEPT ![n] = FALSE]
      OBVIOUS
    <3>3. u = [s1 EXCEPT !.kind = kind, !.link = link, !.needed = needed]
      BY <1>3, <2>2, <3>1, <3>2 DEF Become, StoresOf
    <3>4. /\ kind \in [AllNodes -> K \cup {"Reference"}] /\ link \in [AllNodes -> L \cup {src}]
          /\ \A m \in AllNodes : kind[m] = IF m = n THEN "Reference" ELSE s1.kind[m]
          /\ \A m \in AllNodes : link[m] = IF m = n THEN src ELSE s1.link[m]
      BY <3>1, <3>2 DEF StoresOf
    <3>5. /\ u \in StoresOf(K \cup {"Reference"}, L \cup {src}, {needed}, P, W)
          /\ u.kind = kind /\ u.link = link
      BY <3>1, <3>3, <3>4 DEF StoresOf
    <3>6. Shaped(u)
      BY <3>5, Zenon DEF Shaped
    <3>7. \A m \in Nodes : m # n => u.kind[m] = s1.kind[m] /\ u.link[m] = s1.link[m]
      BY <3>4, <3>5, NodeSets
    <3>8. n \in Nodes => u.kind[n] = "Reference" /\ u.link[n] = src
      BY <3>4, <3>5, NodeSets
    <3>9. ReferencesStay(s, u)
      BY <1>2, <3>7 DEF Stays, ReferencesStay, NeedsProtection, Unbound
    <3>10. \A m \in Nodes : m # n /\ NeedsProtection(s.kind[m]) => NeedsProtection(u.kind[m])
      BY <1>2, <3>7 DEF Stays, VariablesStay
    <3> QED BY <2>2, <3>6, <3>8, <3>9, <3>10
  <2> QED BY <2>1, <2>2
<1>6. Stays(u, s2)
  BY <1>4, <1>5, WakeUpPendingsStays
<1>7. ReferencesStay(s, s2) /\ Shaped(s2)
  BY <1>5, <1>6 DEF Stays, ReferencesStay
<1>8. \A m \in Nodes : m # n /\ NeedsProtection(s.kind[m]) => NeedsProtection(s2.kind[m])
  BY <1>5, <1>6 DEF Stays, VariablesStay
<1>9. n = src => Stays(s, s2)
  BY <1>5, <1>6, StaysTransitive
<1>10. n \in Nodes /\ n # src => s2.kind[n] = "Reference" /\ s2.link[n] = src
  BY <1>5, <1>6 DEF Stays, ReferencesStay
<1> QED BY <1>7, <1>8, <1>9, <1>10

\* A step that leaves store s.
LEMMA UpdateStays ==
    ASSUME Shaped(store), NEW s, Stays(store, s), NEW pool, NEW active, Update(s, pool, active)
    PROVE  Stays(store, store')
<1>1. PICK s2 : s2 = [s EXCEPT !.woken = {}]
  OBVIOUS
<1>2. PICK K, L, N, P, W : s \in StoresOf(K, L, N, P, W)
  BY Zenon DEF Stays, Shaped
<1>3. /\ s2 \in StoresOf(K, L, N, P, {{}}) /\ s2.kind = s.kind /\ s2.link = s.link
  BY <1>1, <1>2 DEF StoresOf
<1>4. Stays(s, s2)
  BY <1>3, FieldsStay
<1>5. store' = s2
  BY <1>1 DEF Update
<1> QED BY <1>4, <1>5, StaysTransitive

\* A step may record other threads as woken.
LEMMA WokenStays ==
    ASSUME NEW s0, NEW s, Stays(s0, s), NEW W0
    PROVE  Stays(s0, [s EXCEPT !.woken = W0])
<1>1. PICK s2 : s2 = [s EXCEPT !.woken = W0]
  OBVIOUS
<1>2. PICK K, L, N, P, W : s \in StoresOf(K, L, N, P, W)
  BY Zenon DEF Stays, Shaped
<1>3. s2 \in StoresOf(K, L, N, P, {W0}) /\ s2.kind = s.kind /\ s2.link = s.link
  BY <1>1, <1>2 DEF StoresOf
<1>4. Stays(s, s2)
  BY <1>3, FieldsStay
<1> QED BY <1>1, <1>4, StaysTransitive

\* A thread stops for good.
LEMMA TerminateStays ==
    ASSUME Shaped(store), NEW s, Stays(store, s), NEW t \in Threads, Terminate(t, s)
    PROVE  Stays(store, store')
<1>1. PICK v : v = TerminationVar(t)
  OBVIOUS
<1>2. v \notin Nodes
  BY <1>1, NodeSets DEF TerminationVars
<1>3. PICK u : u = [s EXCEPT !.kind[v] = "Value", !.needed[v] = FALSE, !.pendings[v] = {}]
  OBVIOUS
<1>4. PICK K, L, N, P, W : s \in StoresOf(K, L, N, P, W)
  BY Zenon DEF Stays, Shaped
<1>5. PICK kind, needed, pendings : /\ kind = [s.kind EXCEPT ![v] = "Value"]
                                    /\ needed = [s.needed EXCEPT ![v] = FALSE]
                                    /\ pendings = [s.pendings EXCEPT ![v] = {}]
  OBVIOUS
<1>6. u = [s EXCEPT !.kind = kind, !.needed = needed, !.pendings = pendings]
  BY <1>3, <1>4, <1>5 DEF StoresOf
<1>7. /\ kind \in [AllNodes -> K \cup {"Value"}]
      /\ \A m \in Nodes : kind[m] = s.kind[m]
  BY <1>2, <1>4, <1>5, NodeSets DEF StoresOf
<1>8. /\ u \in StoresOf(K \cup {"Value"}, L, {needed}, {pendings}, W)
      /\ u.kind = kind /\ u.link = s.link
  BY <1>4, <1>6, <1>7 DEF StoresOf
<1>9. Stays(s, u)
  BY <1>7, <1>8, FieldsStay
<1>10. PICK s2 : s2 = Wake(u, s.pendings[v])
  OBVIOUS
<1>11. Stays(u, s2)
  BY <1>9, <1>10, WakeStays DEF Stays
<1>12. Stays(store, s2)
  BY <1>9, <1>11, StaysTransitive
<1>13. Update(s2, ready \ {t}, runnable \ {t})
  BY <1>1, <1>3, <1>10 DEF Terminate
<1> QED BY <1>12, <1>13, UpdateStays

\* A thread raises an exception.
LEMMA RaiseStays ==
    ASSUME Shaped(store), NEW s, Stays(store, s), NEW t \in Threads, Raise(t, s)
    PROVE  Stays(store, store')
BY UpdateStays, TerminateStays DEF Raise

\* A thread gets past its instruction.
LEMMA ProceedStays ==
    ASSUME Shaped(store), NEW s, Stays(store, s), NEW t \in Threads, Proceed(t, s)
    PROVE  Stays(store, store')
BY UpdateStays DEF Proceed

\* A thread suspends, or raises instead.
LEMMA WaitBeforeStays ==
    ASSUME Shaped(store), NEW s, Stays(store, s), NEW t \in Threads, NEW r, NEW w,
           NEW quiet \in BOOLEAN, WaitBefore(t, r, w, quiet, s)
    PROVE  Stays(store, store')
<1>1. ASSUME NEW s1, Stays(store, s1), Suspend(t, r, w, s1)
      PROVE  Stays(store, store')
  <2>1. PICK s2 : s2 = AddToSuspendList(s1, w, t)
    OBVIOUS
  <2>2. Stays(store, s2)
    BY <1>1, <2>1, AddToSuspendListStays, StaysTransitive DEF Stays
  <2>3. PICK s3 : s3 = [s2 EXCEPT !.woken = s2.woken \ {t}]
    OBVIOUS
  <2>4. Stays(store, s3)
    BY <2>2, <2>3, WokenStays
  <2>5. Update(s3, ready, runnable \ {t})
    BY <1>1, <2>1, <2>3 DEF Suspend
  <2> QED BY <2>4, <2>5, UpdateStays
<1>2. PICK s1 : s1 = MarkNeeded(s, w)
  OBVIOUS
<1>3. Stays(store, s1)
  BY <1>2, MarkNeededStays, StaysTransitive DEF Stays
<1>4. \/ RaiseNow(t, s) \/ Suspend(t, r, w, s) \/ Suspend(t, r, w, s1)
  BY <1>2 DEF WaitBefore
<1> QED BY <1>1, <1>3, <1>4, RaiseStays DEF RaiseNow

\* Node n is bound to another one.
Binds(n, src) ==
    /\ NeedsProtection(store.kind[n]) /\ n # src
    /\ store' = [Bind(store, n, src) EXCEPT !.woken = {}]
Bound == \E n, src : Binds(n, src)

\* A step that binds a node gets past its instruction.
LEMMA ProceedBinds ==
    ASSUME NEW t \in Threads, Shaped(store), NEW n, NEW src, NeedsProtection(store.kind[n]),
           Proceed(t, Bind(store, n, src))
    PROVE  Stays(store, store') \/ Bound
<1>1. CASE n = src
  BY <1>1, BindStays, ProceedStays
<1>2. CASE n # src
  <2>1. store' = [Bind(store, n, src) EXCEPT !.woken = {}]
    BY DEF Proceed, Update
  <2> QED BY <1>2, <2>1 DEF Bound, Binds
<1> QED BY <1>1, <1>2

\* Nothing changes.
LEMMA NothingStays ==
    ASSUME NEW s, Shaped(s)
    PROVE  Stays(s, s)
BY DEF Stays, ReferencesStay, VariablesStay

\* An equality test that suspends.
LEMMA EqualsSuspendsStays ==
    ASSUME Shaped(store), NEW t \in Threads, NEW r, EqualsSuspends(t, r)
    PROVE  Stays(store, store')
<1>1. PICK c : c = NextControl
  OBVIOUS
<1>2. c \in Controls
  BY <1>1 DEF EqualsSuspends, NextControl, FreeControls
<1>3. PICK s0 : s0 = [store EXCEPT !.kind[c] = "Variable"]
  OBVIOUS
<1>4. PICK s1 : s1 = IF IsVar(r.on) THEN Behind(s0, r.on, c) ELSE s0
  OBVIOUS
<1>5. PICK s2 : s2 = IF IsVar(r.with) THEN Behind(s1, r.with, c) ELSE s1
  OBVIOUS
<1>6. Stays(store, s0)
  <2>1. PICK K, L, N, P, W : store \in StoresOf(K, L, N, P, W)
    BY Zenon DEF Shaped
  <2>2. PICK kind : kind = [store.kind EXCEPT ![c] = "Variable"]
    OBVIOUS
  <2>3. kind \in [AllNodes -> K \cup {"Variable"}] /\ \A m \in Nodes : kind[m] = store.kind[m]
    BY <1>2, <2>1, <2>2, NodeSets DEF StoresOf
  <2>4. s0 \in StoresOf(K \cup {"Variable"}, L, N, P, W) /\ s0.kind = kind /\ s0.link = store.link
    BY <1>3, <2>1, <2>2, <2>3 DEF StoresOf
  <2> QED BY <2>3, <2>4, FieldsStay
<1>7. ASSUME NEW s, Shaped(s), NEW n PROVE Stays(s, Behind(s, n, c))
  <2>1. PICK u : u = MarkNeeded(s, n)
    OBVIOUS
  <2>2. Stays(s, u)
    BY <1>7, <2>1, MarkNeededStays
  <2>3. Stays(u, AddToSuspendList(u, n, c))
    BY <2>2, AddToSuspendListStays DEF Stays
  <2> QED BY <2>1, <2>2, <2>3, StaysTransitive DEF Behind
<1>8. Stays(store, s1)
  BY <1>4, <1>6, <1>7, StaysTransitive DEF Stays
<1>9. Stays(store, s2)
  BY <1>5, <1>7, <1>8, StaysTransitive DEF Stays
<1>10. \/ RaiseNow(t, Wake(s2, {c}))
       \/ WaitBefore(t, r, c, FALSE, s2)
  BY <1>1, <1>3, <1>4, <1>5 DEF EqualsSuspends
<1>11. Stays(store, Wake(s2, {c}))
  BY <1>9, WakeStays, StaysTransitive DEF Stays
<1> QED BY <1>9, <1>10, <1>11, RaiseStays, WaitBeforeStays DEF RaiseNow

\* An instruction that may block binds a node, or takes no reference and no variable away.
LEMMA PerformStays ==
    ASSUME Shaped(store), NEW t \in Threads, NEW r, Perform(t, r)
    PROVE  Stays(store, store') \/ Bound
<1>1. Stays(store, store)
  BY NothingStays
<1>2. CASE Wait(t, r)
  BY <1>1, <1>2, WaitBeforeStays, ProceedStays DEF Wait
<1>3. CASE WaitQuiet(t, r)
  BY <1>1, <1>3, WaitBeforeStays, ProceedStays DEF WaitQuiet
<1>4. CASE WaitNeeded(t, r)
  BY <1>1, <1>4, WaitBeforeStays, ProceedStays DEF WaitNeeded
<1>5. CASE Equals(t, r)
  BY <1>1, <1>5, EqualsSuspendsStays, RaiseStays, ProceedStays DEF Equals, RaiseNow
<1>6. CASE Unify(t, r)
  <2>1. PICK n, src : \/ Proceed(t, store)
                      \/ /\ store.kind[n] \in {"OptVar", "Variable"}
                         /\ Proceed(t, Bind(store, n, src))
                      \/ WaitBefore(t, r, Base(store, n), FALSE, store)
                      \/ RaiseNow(t, store)
    BY <1>6 DEF Unify
  <2>2. store.kind[n] \in {"OptVar", "Variable"} => NeedsProtection(store.kind[n])
    BY DEF NeedsProtection, Unbound
  <2> QED BY <1>1, <2>1, <2>2, ProceedBinds, ProceedStays, WaitBeforeStays, RaiseStays
          DEF RaiseNow
<1> QED BY <1>2, <1>3, <1>4, <1>5, <1>6 DEF Perform

\* A new node, and the control of the program over the others.
LEMMA CreateStays ==
    ASSUME Shaped(store), NEW n \in Nodes, store.kind[n] = "Free", NEW kind0, NEW link0, NEW s,
           \/ s = [store EXCEPT !.kind[n] = kind0]
           \/ s = [store EXCEPT !.kind[n] = kind0, !.link[n] = link0]
    PROVE  Stays(store, s)
<1>1. PICK K, L, N, P, W : store \in StoresOf(K, L, N, P, W)
  BY Zenon DEF Shaped
<1>2. PICK kind : kind = [store.kind EXCEPT ![n] = kind0]
  OBVIOUS
<1>3. PICK link : link \in {store.link, [store.link EXCEPT ![n] = link0]} /\ s = [store EXCEPT !.kind = kind, !.link = link]
  <2>1. CASE s = [store EXCEPT !.kind[n] = kind0]
    BY <1>1, <1>2, <2>1 DEF StoresOf
  <2>2. CASE s = [store EXCEPT !.kind[n] = kind0, !.link[n] = link0]
    BY <1>1, <1>2, <2>2 DEF StoresOf
  <2> QED BY <2>1, <2>2
<1>4. /\ kind \in [AllNodes -> K \cup {kind0}] /\ link \in [AllNodes -> L \cup {link0}]
      /\ \A m \in AllNodes \ {n} : kind[m] = store.kind[m] /\ link[m] = store.link[m]
  BY <1>1, <1>2, <1>3, NodeSets DEF StoresOf
<1>5. /\ s \in StoresOf(K \cup {kind0}, L \cup {link0}, N, P, W)
      /\ s.kind = kind /\ s.link = link
  BY <1>1, <1>3, <1>4 DEF StoresOf
<1>6. \A m \in Nodes : store.kind[m] = "Reference" => s.kind[m] = "Reference" /\ s.link[m] = store.link[m]
  BY <1>4, <1>5, NodeSets
<1>7. \A m \in Nodes : NeedsProtection(store.kind[m]) => NeedsProtection(s.kind[m])
  BY <1>4, <1>5, NodeSets DEF NeedsProtection, Unbound
<1> QED BY <1>5, <1>6, <1>7, FieldsStay

\* So does every step of the program.
LEMMA NextStays ==
    ASSUME Shaped(store), Next
    PROVE  Stays(store, store') \/ Bound
<1>1. Stays(store, store)
  BY NothingStays
<1>2. ASSUME NEW t \in Threads, NEW r \in Requests, Start(t, r) PROVE Stays(store, store') \/ Bound
  BY <1>2, PerformStays DEF Start
<1>3. ASSUME NEW t \in Threads, Retry(t) PROVE Stays(store, store') \/ Bound
  BY <1>3, PerformStays DEF Retry
<1>4. ASSUME NEW t \in Threads, NEW n \in Nodes, NEW kind \in Kinds, Create(t, n, kind)
      PROVE  Stays(store, store')
  <2>1. PICK s : s = [store EXCEPT !.kind[n] = kind]
    OBVIOUS
  <2>2. store.kind[n] = "Free" /\ Proceed(t, s)
    BY <1>4, <2>1 DEF Create, IsNext
  <2> QED BY <2>1, <2>2, CreateStays, ProceedStays
<1>5. ASSUME NEW t \in Threads, NEW n \in Nodes, NEW x \in Visible, MakeReadOnly(t, n, x)
      PROVE  Stays(store, store')
  <2>1. PICK u : u = Deref(store, x)
    OBVIOUS
  <2>2. PICK s : s = [store EXCEPT !.link[n] = u]
    OBVIOUS
  <2>3. PICK view : view = [s EXCEPT !.kind[n] = "ReadOnly"]
    OBVIOUS
  <2>4. PICK reference : reference = [s EXCEPT !.kind[n] = "Reference"]
    OBVIOUS
  <2>5. /\ view = [store EXCEPT !.kind[n] = "ReadOnly", !.link[n] = u]
        /\ reference = [store EXCEPT !.kind[n] = "Reference", !.link[n] = u]
    BY <2>2, <2>3, <2>4 DEF Shaped, StoresOf
  <2>6. store.kind[n] = "Free"
    BY <1>5 DEF MakeReadOnly, IsNext
  <2>7. Stays(store, view) /\ Stays(store, reference)
    BY <2>5, <2>6, CreateStays
  <2>8. Stays(store, AddToSuspendList(view, u, n))
    BY <2>7, AddToSuspendListStays, StaysTransitive DEF Stays
  <2>9. Proceed(t, AddToSuspendList(view, u, n)) \/ Proceed(t, reference)
    BY <1>5, <2>1, <2>2, <2>3, <2>4 DEF MakeReadOnly
  <2> QED BY <2>7, <2>8, <2>9, ProceedStays
<1>6. ASSUME NEW t \in Threads, NEW x \in Visible, MakeNeeded(t, x) PROVE Stays(store, store')
  BY <1>6, MarkNeededStays, ProceedStays DEF MakeNeeded
<1>7. ASSUME NEW t \in Threads, NEW x \in Nodes, NEW y \in Nodes, BindReadOnly(t, x, y)
      PROVE  Stays(store, store') \/ Bound
  <2>1. CASE KindOf(store, x) = "ReadOnlyVariable"
    <3>1. NeedsProtection(store.kind[Deref(store, x)])
      BY <2>1 DEF KindOf, NeedsProtection, Unbound
    <3>2. Proceed(t, Bind(store, Deref(store, x), Deref(store, y)))
      BY <1>7, <2>1 DEF BindReadOnly
    <3> QED BY <3>1, <3>2, ProceedBinds
  <2>2. CASE KindOf(store, x) # "ReadOnlyVariable"
    BY <1>1, <1>7, <2>2, RaiseStays DEF BindReadOnly, RaiseNow
  <2> QED BY <2>1, <2>2
<1>8. ASSUME NEW t \in Threads, NEW u \in Threads, InjectException(t, u) PROVE Stays(store, store')
  <2>1. PICK s : s = [store EXCEPT !.woken = {u}]
    OBVIOUS
  <2>2. Stays(store, s) /\ Update(s, ready, runnable)
    BY <1>1, <1>8, <2>1, WokenStays DEF InjectException
  <2> QED BY <2>2, UpdateStays
<1>9. ASSUME NEW t \in Threads, Exit(t) PROVE Stays(store, store')
  BY <1>1, <1>9, TerminateStays DEF Exit
<1>10. ASSUME NEW t \in Threads, Interrupt(t) PROVE Stays(store, store')
  BY <1>1, <1>10, RaiseStays DEF Interrupt
<1>11. ASSUME NEW t \in Threads, Preempt(t) \/ Dispatch(t) \/ PassOver(t) PROVE Stays(store, store')
  BY <1>1, <1>11 DEF Preempt, Dispatch, PassOver
<1> QED BY <1>2, <1>3, <1>4, <1>5, <1>6, <1>7, <1>8, <1>9, <1>10, <1>11 DEF Next

\* No step takes a reference away, and one that takes a variable away binds it.
LEMMA StepStays ==
    ASSUME Shaped(store), Next
    PROVE  /\ Shaped(store') /\ ReferencesStay(store, store')
           /\ \A x \in Nodes : NeedsProtection(store.kind[x]) /\ ~NeedsProtection(store'.kind[x])
                 => Binds(x, store'.link[x]) /\ store'.kind[x] = "Reference"
<1>1. CASE Stays(store, store')
  BY <1>1 DEF Stays, VariablesStay
<1>2. CASE Bound
  <2>1. PICK n, src : Binds(n, src)
    BY <1>2 DEF Bound
  <2>2. PICK s : s = Bind(store, n, src)
    OBVIOUS
  <2>3. /\ Shaped(s) /\ ReferencesStay(store, s)
        /\ \A m \in Nodes : m # n /\ NeedsProtection(store.kind[m]) => NeedsProtection(s.kind[m])
        /\ n \in Nodes => s.kind[n] = "Reference" /\ s.link[n] = src
    BY <2>1, <2>2, BindStays DEF Binds
  <2>4. PICK K, L, N, P, W : s \in StoresOf(K, L, N, P, W)
    BY <2>3, Zenon DEF Shaped
  <2>5. store' = [s EXCEPT !.woken = {}]
    BY <2>1, <2>2 DEF Binds
  <2>6. store' \in StoresOf(K, L, N, P, {{}}) /\ store'.kind = s.kind /\ store'.link = s.link
    BY <2>4, <2>5 DEF StoresOf
  <2>7. Shaped(store')
    BY <2>6, Zenon DEF Shaped
  <2> QED BY <2>1, <2>3, <2>6, <2>7 DEF ReferencesStay
<1> QED BY <1>1, <1>2, NextStays

-----------------------------------------------------------------------------
(* Circles *)

\* Some references lead only to each other.
Loop(s) ==
    \E C \in SUBSET Nodes : C # {} /\ \A n \in C : s.kind[n] = "Reference" /\ s.link[n] \in C

\* Dereferencing does not leave a circle.
LEMMA LoopNeverEnds ==
    ASSUME Loop(store)
    PROVE  ~DereferenceEnds
<1>1. PICK C \in SUBSET Nodes :
             C # {} /\ \A n \in C : store.kind[n] = "Reference" /\ store.link[n] \in C
  BY DEF Loop
<1>2. PICK n \in C : n \in AllNodes
  BY <1>1, NodeSets
<1>3. \A c \in C : Follow(store, c) \in C
  BY <1>1 DEF Follow
<1>4. Chain(store, n) \in [0..MaxNodes -> C]
  BY <1>3, ChainSteps
<1>5. Chain(store, n)[MaxNodes] \in C
  BY <1>4, DataflowAssumption
<1>6. store.kind[n] = "Reference" /\ Deref(store, n) \in C
  BY <1>1, <1>5 DEF Deref, DereferenceLoop
<1>7. ~Ends(store, n)
  BY <1>1, <1>6 DEF Ends
<1> QED BY <1>2, <1>6, <1>7 DEF DereferenceEnds

\* A circle stays.
LEMMA LoopStays ==
    ASSUME NEW s, Loop(s), NEW s2, ReferencesStay(s, s2)
    PROVE  Loop(s2)
<1>1. PICK C \in SUBSET Nodes :
             C # {} /\ \A n \in C : s.kind[n] = "Reference" /\ s.link[n] \in C
  BY DEF Loop
<1>2. \A n \in C : s2.kind[n] = "Reference" /\ s2.link[n] \in C
  BY <1>1 DEF ReferencesStay
<1> QED BY <1>1, <1>2 DEF Loop

\* A variable that is bound to a view of itself wakes the view, which then refers,
\* through all that refers to the variable, to itself.
LEMMA BindOwnView ==
    ASSUME NEW s, StoreInv(s), NEW n \in Nodes, NeedsProtection(s.kind[n]),
           NEW r \in Views(s), Base(s, r) = n, NEW s2, s2 = Bind(s, n, r)
    PROVE  Loop(s2)
<1>1. /\ s \in StoreType /\ LinksLead(s) /\ Acyclic(s) /\ Listed(s, r)
  BY DEF StoreInv, Structure
<1>2. r \in Nodes /\ r \in AllNodes /\ s.kind[r] = "ReadOnly" /\ n \in AllNodes
  BY <1>1, TargetFacts, NodeSets
<1>3. Deref(s, r) = r /\ Target(s, r) = n
  BY <1>1, <1>2, DerefFacts DEF Base, Target
<1>4. r # n /\ r \in Referable(s)
  BY <1>2, NodeSets DEF Referable, NeedsProtection, Unbound
<1>5. s.kind[n] \in Unbound /\ r \in s.pendings[n]
  BY <1>1, <1>3 DEF Listed
<1>6. s2 = WakeUpPendings(Become(s, n, r), n)
  <2>1. s.needed[n] => MarkNeeded(s, r) = s
    BY <1>5 DEF MarkNeeded, Unbound
  <2> QED BY <2>1 DEF Bind
<1>7. PICK u : u = Redirected(s, n, r)
  OBVIOUS
<1>8. PICK list : list = s.pendings[n]
  OBVIOUS
<1>9. s2 = Wake(u, list)
  <2>1. Become(s, n, r).pendings = s.pendings
    BY <1>1 DEF Become, StoreType
  <2> QED BY <1>6, <1>7, <1>8, <2>1 DEF WakeUpPendings, Redirected
<1>10. /\ Structure(u)
       /\ \A m \in AllNodes : Deref(u, m) = IF Deref(s, m) = n THEN r ELSE Deref(s, m)
       /\ Views(u) = Views(s) /\ Target(u, r) = r
       /\ u.kind[r] = "ReadOnly" /\ u.link[r] = s.link[r]
  BY <1>2, <1>3, <1>4, <1>7, RedirectedStructure
<1>11. /\ u \in StoreType /\ LinksLead(u) /\ Acyclic(u) /\ ControlLists(u) /\ TerminationKinds(u)
  BY <1>10 DEF Structure
<1>12. PICK uT : uT = WakeThreads(u, list)
  OBVIOUS
<1>13. /\ uT \in StoreType /\ ControlLists(uT) /\ uT.kind = u.kind /\ uT.link = u.link
  BY <1>11, <1>12, WakeThreadsFields DEF ControlLists
<1>14. PICK uC : uC = WakeControls(uT, list)
  OBVIOUS
<1>15. /\ uC \in StoreType /\ uC.link = u.link
       /\ \A m \in AllNodes : uC.kind[m] = IF m \in list \cap Controls THEN "Value" ELSE u.kind[m]
  BY <1>13, <1>14, WakeControlsFields
<1>16. s2 = WakeReadOnly(uC, list)
  BY <1>9, <1>12, <1>14 DEF Wake
<1>17. \A m \in Visible : uC.kind[m] = u.kind[m]
  BY <1>15, NodeSets
<1>18. \A m \in AllNodes : uC.kind[m] = "Reference" <=> u.kind[m] = "Reference"
  BY <1>11, <1>15 DEF ControlLists
<1>19. Deref(uC, u.link[r]) = r
  <2>1. u.link[r] \in AllNodes
    BY <1>2, <1>10, <1>11, NodeSets DEF LinksLead
  <2>2. Deref(uC, u.link[r]) = Deref(u, u.link[r])
    BY <1>11, <1>15, <1>18, <2>1, SameReferences
  <2> QED BY <1>10, <2>2 DEF Target
<1>20. LinksLead(uC)
  <2> SUFFICES ASSUME NEW m \in AllNodes, uC.kind[m] \in {"Reference", "ReadOnly"}
               PROVE  /\ m \in Nodes
                      /\ uC.link[m] \in Visible
                      /\ uC.kind[uC.link[m]] # "Free"
                      /\ uC.kind[m] = "Reference" /\ uC.link[m] \in TerminationVars
                           => uC.kind[uC.link[m]] = "Value"
    BY DEF LinksLead
  <2>1. u.kind[m] = uC.kind[m]
    BY <1>15
  <2> QED BY <1>11, <1>15, <1>17, <2>1 DEF LinksLead
<1>21. r \in Settled(uC, list)
  <2>1. uC.kind[r] = "ReadOnly"
    BY <1>2, <1>10, <1>17, NodeSets
  <2> QED BY <1>2, <1>5, <1>8, <1>15, <1>19, <2>1
          DEF Settled, Views, Target, NeedsProtection, Unbound
<1>22. /\ \A m \in AllNodes :
            s2.kind[m] =
              IF m \in Settled(uC, list) THEN "Reference"
              ELSE IF uC.kind[m] = "OptVar" /\ \E v \in list \cap Views(uC) : Target(uC, v) = m
                   THEN "Variable" ELSE uC.kind[m]
       /\ \A m \in AllNodes :
            s2.link[m] = IF m \in Settled(uC, list) /\ uC.kind[uC.link[m]] = "Reference"
                         THEN uC.link[uC.link[m]] ELSE uC.link[m]
  BY <1>15, <1>16, <1>20, WakeReadOnlyFields
<1>23. PICK C : C = {m \in Nodes : Deref(u, m) = r}
  OBVIOUS
<1>24. r \in C
  BY <1>2, <1>4, <1>3, <1>10, <1>23
<1>25. ASSUME NEW m \in Visible, Deref(u, m) = r PROVE m \in C
  <2>1. m \notin TerminationVars
    BY <1>2, <1>11, <1>25, DerefFacts, NodeSets DEF TerminationKinds
  <2> QED BY <1>23, <1>25, <2>1 DEF Visible
<1>26. ASSUME NEW m \in C, m # r
       PROVE  u.kind[m] = "Reference" /\ u.link[m] \in C
  <2>1. m \in Nodes /\ m \in AllNodes /\ Deref(u, m) = r
    BY <1>23, NodeSets
  <2>2. u.kind[m] = "Reference" /\ Deref(u, u.link[m]) = r
    BY <1>11, <1>26, <2>1, DerefFacts
  <2>3. u.link[m] \in Visible
    BY <1>11, <2>1, <2>2 DEF LinksLead
  <2> QED BY <1>25, <2>2, <2>3
<1>27. ASSUME NEW m \in C, m # r
       PROVE  s2.kind[m] = "Reference" /\ s2.link[m] \in C
  <2>1. m \in AllNodes /\ uC.kind[m] = "Reference" /\ uC.link[m] \in C
    BY <1>15, <1>18, <1>23, <1>26, <1>27, NodeSets
  <2>2. m \notin Settled(uC, list)
    BY <2>1 DEF Settled, Views
  <2> QED BY <1>22, <2>1, <2>2
<1>28. s2.kind[r] = "Reference" /\ s2.link[r] \in C
  <2>1. u.link[r] \in C
    BY <1>2, <1>10, <1>11, <1>25, NodeSets DEF LinksLead, Target
  <2>2. CASE uC.kind[uC.link[r]] = "Reference"
    <3>1. u.link[r] # r
      BY <1>2, <1>10, <1>15, <1>17, <2>2, NodeSets
    <3>2. u.link[u.link[r]] \in C
      BY <1>26, <2>1, <3>1
    <3> QED BY <1>2, <1>15, <1>21, <1>22, <2>2, <3>2
  <2>3. CASE uC.kind[uC.link[r]] # "Reference"
    BY <1>2, <1>15, <1>21, <1>22, <2>1, <2>3
  <2> QED BY <2>2, <2>3
<1>29. C \in SUBSET Nodes /\ C # {} /\ \A m \in C : s2.kind[m] = "Reference" /\ s2.link[m] \in C
  BY <1>23, <1>24, <1>27, <1>28
<1> QED BY <1>29 DEF Loop

\* So a step that binds a variable to a view of itself closes a circle.
LEMMA OwnViewCloses ==
    ASSUME StoreInv(store), Next, BindsToOwnView
    PROVE  Loop(store')
<1>1. PICK x, r \in Nodes : /\ NeedsProtection(store.kind[x])
                            /\ store.kind[r] = "ReadOnly" /\ Base(store, r) = x
                            /\ store'.kind[x] = "Reference" /\ store'.link[x] = r
  BY DEF BindsToOwnView
<1>2. Shaped(store)
  BY TypedIsShaped DEF StoreInv, Structure
<1>3. ~NeedsProtection(store'.kind[x])
  BY <1>1 DEF NeedsProtection, Unbound
<1>4. Binds(x, r)
  BY <1>1, <1>2, <1>3, StepStays
<1>5. PICK s : s = Bind(store, x, r)
  OBVIOUS
<1>6. r \in Views(store)
  BY <1>1 DEF Views
<1>7. Loop(s)
  BY <1>1, <1>5, <1>6, BindOwnView
<1>8. PICK K, L, N, P, W : s \in StoresOf(K, L, N, P, W)
  <2>1. Shaped(s)
    BY <1>1, <1>2, <1>5, BindStays
  <2> QED BY <2>1, Zenon DEF Shaped
<1>9. store' = [s EXCEPT !.woken = {}]
  BY <1>4, <1>5 DEF Binds
<1>10. store'.kind = s.kind /\ store'.link = s.link
  BY <1>8, <1>9 DEF StoresOf
<1> QED BY <1>7, <1>10 DEF Loop

-----------------------------------------------------------------------------
(* The inductive invariant *)

\* The operands of a request exist.
Operands(s, r) == s.kind[r.on] # "Free" /\ (r.with # None => s.kind[r.with] # "Free")

\* Thread t rightly waits on node w, in request r.
Waits(s, t, r, w) ==
    /\ w \in AllNodes
    /\ Hangs(s, w, t)
    /\ r.op = "waitNeeded" => Base(s, r.on) = Base(s, w) /\ ~s.needed[Base(s, w)]
    /\ r.op = "equals" =>
          /\ w \in Controls
          /\ \A n \in {r.on, r.with} : NeedsProtection(s.kind[Base(s, n)]) => Hangs(s, n, w)
          /\ \E n \in {r.on, r.with} : Hangs(s, n, w)

\* The shape of a request.
LEMMA RequestTypes ==
    ASSUME NEW r \in Requests
    PROVE  /\ r # None /\ r.op \in Blocking
           /\ r.on \in Visible /\ r.on \in AllNodes
           /\ r.op \in {"wait", "waitQuiet", "waitNeeded"} <=> r.with = None
           /\ r.op \in {"equals", "unify"} <=> r.with \in Nodes
           /\ r.op \in {"equals", "unify"} => /\ r.on \in Nodes /\ r.with # None
                                              /\ r.with \in AllNodes /\ r.with \in Visible
<1>1. None \notin Nodes /\ r # None
  BY NamesAssumption, NodeSets
<1>2. CASE r \in [op : {"wait", "waitQuiet", "waitNeeded"}, on : Visible, with : {None}]
  BY <1>1, <1>2, NodeSets DEF Blocking
<1>3. CASE r \in [op : {"equals", "unify"}, on : Nodes, with : Nodes]
  BY <1>1, <1>3, NodeSets DEF Blocking
<1> QED BY <1>2, <1>3 DEF Requests

\* A request waits on as the store evolves, unless its thread is woken.
LEMMA WaitsEvolve ==
    ASSUME NEW s, NEW s2, StoreInv(s), StoreInv(s2), Evolves(s, s2),
           NEW t \in Threads, NEW r \in Requests, NEW w, Operands(s, r), Waits(s, t, r, w)
    PROVE  t \in s2.woken \/ Waits(s2, t, r, w)
<1> SUFFICES ASSUME t \notin s2.woken PROVE Waits(s2, t, r, w)
  OBVIOUS
<1>1. w \in AllNodes /\ Hangs(s, w, t)
  BY DEF Waits
<1>2. Hangs(s2, w, t) /\ (s2.needed[Base(s2, w)] => s.needed[Base(s, w)])
  BY <1>1 DEF Evolves
<1>3. s.kind[w] # "Free"
  <2>1. s.kind[w] = "Free" => Base(s, w) = w
    BY <1>1, BaseFacts
  <2> QED BY <1>1, <2>1 DEF Hangs, Unbound
<1>4. ASSUME r.op = "waitNeeded"
      PROVE  Base(s2, r.on) = Base(s2, w) /\ ~s2.needed[Base(s2, w)]
  <2>1. Base(s, r.on) = Base(s, w) /\ ~s.needed[Base(s, w)]
    BY <1>4 DEF Waits
  <2>2. r.on \in AllNodes /\ s.kind[r.on] # "Free"
    BY RequestTypes DEF Operands
  <2>3. Base(s2, r.on) = Base(s2, Base(s, r.on)) /\ Base(s2, w) = Base(s2, Base(s, w))
    BY <1>1, <1>3, <2>2 DEF Evolves
  <2> QED BY <1>2, <2>1, <2>3
<1>5. ASSUME r.op = "equals"
      PROVE  /\ w \in Controls
             /\ \A n \in {r.on, r.with} : NeedsProtection(s2.kind[Base(s2, n)]) => Hangs(s2, n, w)
             /\ \E n \in {r.on, r.with} : Hangs(s2, n, w)
  <2>1. w \in Controls
    BY <1>5 DEF Waits
  <2>2. s2.kind[w] = "Variable"
    <3>1. Base(s2, w) = w /\ s2.kind[w] \in {"Free", "Variable", "Value"}
      BY <1>1, <2>1, BaseFacts DEF StoreInv, Structure, ControlLists
    <3> QED BY <1>2, <3>1 DEF Hangs, Unbound
  <2>3. ASSUME NEW n \in {r.on, r.with}, NeedsProtection(s2.kind[Base(s2, n)])
        PROVE  Hangs(s2, n, w)
    <3>1. n \in Visible /\ n \in AllNodes /\ s.kind[n] # "Free"
      BY <1>5, RequestTypes DEF Operands
    <3>2. PICK b \in AllNodes : b = Base(s, n)
      BY <3>1, BaseFacts
    <3>3. s.kind[b] \notin {"Reference", "ReadOnly", "Free"}
      BY <3>1, <3>2, BaseFacts
    <3>4. s.kind[b] \notin {"Value", "FailedValue"}
      <4>1. s.kind[b] \in {"Value", "FailedValue"} => Base(s2, n) = b /\ s2.kind[b] = s.kind[b]
        BY <3>1, <3>2 DEF Evolves
      <4> QED BY <2>3, <4>1 DEF NeedsProtection, Unbound
    <3>5. NeedsProtection(s.kind[b])
      <4>1. s.kind[b] \in Kinds
        BY DEF StoreInv, Structure, StoreType
      <4> QED BY <3>3, <3>4, <4>1 DEF Kinds, Transient, NeedsProtection
    <3>6. Hangs(s, n, w)
      BY <1>5, <3>2, <3>5 DEF Waits
    <3> QED BY <2>1, <2>2, <3>1, <3>6 DEF Evolves
  <2>4. \E n \in {r.on, r.with} : Hangs(s2, n, w)
    <3>1. PICK n \in {r.on, r.with} : Hangs(s, n, w)
      BY <1>5 DEF Waits
    <3>2. n \in Visible
      BY <1>5, RequestTypes
    <3> QED BY <2>1, <2>2, <3>1, <3>2 DEF Evolves
  <2> QED BY <2>1, <2>3, <2>4
<1> QED BY <1>1, <1>2, <1>4, <1>5 DEF Waits

\* A request waits on when the record of the woken threads is cleared.
LEMMA WaitsReset ==
    ASSUME NEW s, StoreInv(s), NEW W \in SUBSET Threads, NEW s2, s2 = [s EXCEPT !.woken = W],
           NEW t, NEW r \in Requests, NEW w
    PROVE  /\ Waits(s, t, r, w) => Waits(s2, t, r, w)
           /\ Operands(s, r) => Operands(s2, r)
<1>1. /\ s2.kind = s.kind /\ s2.link = s.link /\ s2.needed = s.needed
      /\ s2.pendings = s.pendings
      /\ \A m \in AllNodes : Base(s2, m) = Base(s, m)
  BY ResetEffect
<1>2. \A m \in AllNodes : \A x : Hangs(s2, m, x) <=> Hangs(s, m, x)
  BY <1>1 DEF Hangs
<1>3. Operands(s, r) => Operands(s2, r)
  BY <1>1 DEF Operands
<1>4. ASSUME Waits(s, t, r, w) PROVE Waits(s2, t, r, w)
  <2>1. w \in AllNodes /\ Hangs(s2, w, t)
    BY <1>2, <1>4 DEF Waits
  <2>2. r.op = "waitNeeded" => Base(s2, r.on) = Base(s2, w) /\ ~s2.needed[Base(s2, w)]
    BY <1>1, <1>4, <2>1, RequestTypes DEF Waits
  <2>3. ASSUME r.op = "equals"
        PROVE  /\ w \in Controls
               /\ \A n \in {r.on, r.with} : NeedsProtection(s2.kind[Base(s2, n)]) => Hangs(s2, n, w)
               /\ \E n \in {r.on, r.with} : Hangs(s2, n, w)
    <3>1. r.on \in AllNodes /\ r.with \in AllNodes
      BY <2>3, RequestTypes
    <3> QED BY <1>1, <1>2, <1>4, <2>3, <3>1 DEF Waits
  <2> QED BY <2>1, <2>2, <2>3 DEF Waits
<1> QED BY <1>3, <1>4

\* The inductive invariant: types, the operands of what a thread has suspended in,
\* and that every blocked thread rightly waits.
ThreadTypes ==
    /\ runnable \subseteq Threads /\ ready \subseteq runnable
    /\ running \in runnable \cup {None} /\ running \notin ready
    /\ terminated \subseteq Threads /\ injected \subseteq Threads
    /\ doing \in [Threads -> Requests \cup {None}]
    /\ waitee \in [Threads -> AllNodes \cup {None}]
    /\ injections \in 0..MaxInjections
KnownOperands == \A t \in Threads : doing[t] # None => Operands(store, doing[t])
WaitingRightly ==
    \A t \in Threads : Blocked(t) => doing[t] # None /\ Waits(store, t, doing[t], waitee[t])
IInv ==
    /\ StoreInv(store) /\ store.woken = {}
    /\ ThreadTypes /\ KnownOperands /\ WaitingRightly

\* What a step of thread t, that leaves store s and wakes W, does to the others.
LEMMA OthersInv ==
    ASSUME IInv, NEW s, StoreInv(s), Evolves(store, s), NEW t \in Threads,
           NEW W \in SUBSET Threads, s.woken \ {t} \subseteq W,
           store' = [s EXCEPT !.woken = {}],
           runnable \ {t} \subseteq runnable', W \subseteq runnable', terminated \subseteq terminated',
           \A u \in Threads \ {t} : doing'[u] = doing[u] /\ waitee'[u] = waitee[u]
    PROVE  /\ StoreInv(store') /\ store'.woken = {}
           /\ \A u \in Threads \ {t} : doing'[u] # None => Operands(store', doing'[u])
           /\ \A u \in Threads \ {t} : Blocked(u)' =>
                doing'[u] # None /\ Waits(store', u, doing'[u], waitee'[u])
           /\ \A r \in Requests : Operands(store, r) => Operands(store', r)
<1>1. StoreInv(store) /\ ThreadTypes /\ KnownOperands /\ WaitingRightly
  BY DEF IInv
<1>2. PICK s2 : s2 = store'
  OBVIOUS
<1>3. s2 = [s EXCEPT !.woken = {}]
  BY <1>2
<1>4. StoreInv(s2) /\ s2.woken = {}
  BY <1>3, ResetEffect
<1>5. ASSUME NEW r \in Requests, Operands(store, r) PROVE Operands(s2, r)
  <2>1. r.on \in AllNodes /\ (r.with # None => r.with \in AllNodes)
    BY RequestTypes, NodeSets DEF Blocking
  <2>2. Operands(s, r)
    BY <1>5, <2>1 DEF Operands, Evolves
  <2> QED BY <1>3, <2>2, WaitsReset
<1>6. ASSUME NEW u \in Threads \ {t}, doing'[u] # None
      PROVE  Operands(s2, doing'[u])
  <2>1. doing[u] \in Requests /\ Operands(store, doing[u]) /\ doing'[u] = doing[u]
    BY <1>1, <1>6 DEF ThreadTypes, KnownOperands
  <2> QED BY <1>5, <2>1
<1>7. ASSUME NEW u \in Threads \ {t}, Blocked(u)'
      PROVE  doing'[u] # None /\ Waits(s2, u, doing'[u], waitee'[u])
  <2>1. Blocked(u) /\ u \notin W
    BY <1>7 DEF Blocked
  <2>2. /\ doing[u] # None /\ Waits(store, u, doing[u], waitee[u])
        /\ doing[u] \in Requests /\ Operands(store, doing[u])
    BY <1>1, <2>1 DEF ThreadTypes, KnownOperands, WaitingRightly
  <2>3. u \notin s.woken
    BY <2>1
  <2>4. Waits(s, u, doing[u], waitee[u])
    BY <1>1, <2>2, <2>3, WaitsEvolve
  <2>5. Waits(s2, u, doing[u], waitee[u])
    BY <1>3, <2>2, <2>4, WaitsReset
  <2> QED BY <1>7, <2>2, <2>5
<1> QED BY <1>2, <1>4, <1>5, <1>6, <1>7

-----------------------------------------------------------------------------
(* What becomes of the running thread *)

\* The status of a node, from the kind of its base.
LEMMA StatusFacts ==
    ASSUME NEW s, StoreInv(s), NEW n \in AllNodes
    PROVE  Status(s, n) = IF s.kind[Base(s, n)] = "Value" THEN "value"
                          ELSE IF s.kind[Base(s, n)] = "FailedValue" THEN "failed"
                          ELSE "unknown"
<1>1. Base(s, n) \in AllNodes /\ s.kind[Base(s, n)] # "Reference"
  BY BaseFacts
<1>2. KindOf(s, Base(s, n)) = s.kind[Base(s, n)]
  BY <1>1 DEF KindOf, Deref
<1> QED BY <1>2 DEF Status

\* Knowledge only grows.
LEMMA StoreIsMonotonic ==
    ASSUME IInv, NEW s, StoreInv(s), Evolves(store, s), store' = [s EXCEPT !.woken = {}]
    PROVE  Promise!Monotonic
<1>1. PICK s1 : s1 = store
  OBVIOUS
<1>2. PICK s2 : s2 = store'
  OBVIOUS
<1>3. s2 = [s EXCEPT !.woken = {}]
  BY <1>2
<1>4. /\ StoreInv(s2) /\ s2.kind = s.kind
      /\ \A m \in AllNodes : Base(s2, m) = Base(s, m)
      /\ \A m \in AllNodes : IsNeeded(s2, m) <=> IsNeeded(s, m)
  BY <1>3, ResetEffect
<1>5. StoreInv(s1) /\ Evolves(s1, s)
  BY <1>1 DEF IInv
<1>6. ASSUME NEW n \in Visible
      PROVE  /\ Base(s2, n) = Base(s2, Base(s1, n)) /\ Base(s1, n) \in Visible /\ Base(s2, n) \in Visible
             /\ Status(s1, n) # "unknown" => Status(s2, n) = Status(s1, n) /\ Base(s2, n) = Base(s1, n)
             /\ s1.kind[n] # "Free" /\ IsNeeded(s1, n) => s2.kind[n] # "Free" /\ IsNeeded(s2, n)
             /\ (s2.kind[n] # "Free" /\ IsNeeded(s2, n))
                  <=> (s2.kind[Base(s2, n)] # "Free" /\ IsNeeded(s2, Base(s2, n)))
  <2>1. n \in AllNodes
    BY NodeSets
  <2>2. /\ Base(s1, n) \in AllNodes /\ Base(s2, n) \in AllNodes
        /\ Base(s1, n) \in Visible /\ Base(s2, n) \in Visible
        /\ Base(s2, Base(s2, n)) = Base(s2, n)
        /\ s1.kind[n] = "Free" => Base(s1, n) = n
        /\ s2.kind[n] = "Free" => Base(s2, n) = n
        /\ s2.kind[n] # "Free" => s2.kind[Base(s2, n)] # "Free"
    BY <1>4, <1>5, <2>1, BaseFacts
  <2>3. Base(s2, n) = Base(s2, Base(s1, n))
    <3>1. CASE s1.kind[n] = "Free"
      BY <2>2, <3>1
    <3>2. CASE s1.kind[n] # "Free"
      BY <1>4, <1>5, <2>1, <2>2, <3>2 DEF Evolves
    <3> QED BY <3>1, <3>2
  <2>4. ASSUME Status(s1, n) # "unknown"
        PROVE  Status(s2, n) = Status(s1, n) /\ Base(s2, n) = Base(s1, n)
    <3>1. s1.kind[Base(s1, n)] \in {"Value", "FailedValue"}
      BY <1>5, <2>1, <2>4, StatusFacts
    <3>2. Base(s, n) = Base(s1, n) /\ s.kind[Base(s1, n)] = s1.kind[Base(s1, n)]
      BY <1>5, <3>1 DEF Evolves
    <3> QED BY <1>4, <1>5, <2>1, <3>2, StatusFacts
  <2>5. s1.kind[n] # "Free" /\ IsNeeded(s1, n) => s2.kind[n] # "Free" /\ IsNeeded(s2, n)
    BY <1>4, <1>5, <2>1 DEF Evolves
  <2>6. IsNeeded(s2, n) <=> IsNeeded(s2, Base(s2, n))
    BY <2>2 DEF IsNeeded
  <2>7. (s2.kind[n] # "Free" /\ IsNeeded(s2, n))
          <=> (s2.kind[Base(s2, n)] # "Free" /\ IsNeeded(s2, Base(s2, n)))
    BY <2>2, <2>6
  <2> QED BY <2>2, <2>3, <2>4, <2>5, <2>7
<1>7. PICK E1, E2 : E1 = [n \in Visible |-> Base(s1, n)] /\ E2 = [n \in Visible |-> Base(s2, n)]
  OBVIOUS
<1>8. PICK S1, S2 : S1 = [n \in Visible |-> Status(s1, n)] /\ S2 = [n \in Visible |-> Status(s2, n)]
  OBVIOUS
<1>9. PICK N1, N2 : /\ N1 = [n \in Visible |-> s1.kind[n] # "Free" /\ IsNeeded(s1, n)]
                    /\ N2 = [n \in Visible |-> s2.kind[n] # "Free" /\ IsNeeded(s2, n)]
  OBVIOUS
<1>10. \A n \in Visible :
         /\ E2[n] = E2[E1[n]]
         /\ S1[n] # "unknown" => S2[n] = S1[n] /\ E2[n] = E1[n]
         /\ N1[n] => N2[n]
         /\ N2[n] = N2[E2[n]]
  <2> SUFFICES ASSUME NEW n \in Visible
               PROVE  /\ E2[n] = E2[E1[n]]
                      /\ S1[n] # "unknown" => S2[n] = S1[n] /\ E2[n] = E1[n]
                      /\ N1[n] => N2[n]
                      /\ N2[n] = N2[E2[n]]
    OBVIOUS
  <2>1. E2[n] = E2[E1[n]]
    BY <1>6, <1>7
  <2>2. S1[n] # "unknown" => S2[n] = S1[n] /\ E2[n] = E1[n]
    BY <1>6, <1>7, <1>8
  <2>3. N1[n] => N2[n]
    BY <1>6, <1>9
  <2>4. N2[n] = N2[E2[n]]
    <3>1. PICK b \in Visible : b = Base(s2, n)
      BY <1>6
    <3>2. (s2.kind[n] # "Free" /\ IsNeeded(s2, n)) <=> (s2.kind[b] # "Free" /\ IsNeeded(s2, b))
      BY <1>6, <3>1
    <3>3. E2[n] = b
      BY <1>7, <3>1
    <3>4. N2[n] \in BOOLEAN /\ N2[b] \in BOOLEAN
      BY <1>9
    <3>5. N2[n] <=> N2[b]
      BY <1>9, <3>2
    <3> QED BY <3>3, <3>4, <3>5
  <2> QED BY <2>1, <2>2, <2>3, <2>4
<1>11. /\ E1 = [n \in Visible |-> Base(store, n)]
       /\ E2 = [n \in Visible |-> Base(store, n)]'
  BY <1>1, <1>2, <1>7
<1>12. /\ S1 = [n \in Visible |-> Status(store, n)]
       /\ S2 = [n \in Visible |-> Status(store, n)]'
  BY <1>1, <1>2, <1>8
<1>13. /\ N1 = [n \in Visible |-> store.kind[n] # "Free" /\ IsNeeded(store, n)]
       /\ N2 = [n \in Visible |-> store.kind[n] # "Free" /\ IsNeeded(store, n)]'
  BY <1>1, <1>2, <1>9
<1>14. \A n \in Visible : ([x \in Visible |-> Base(store, x)]')[n] = ([x \in Visible |-> Base(store, x)]')[[x \in Visible |-> Base(store, x)][n]]
  <2> SUFFICES ASSUME NEW n \in Visible
               PROVE  ([x \in Visible |-> Base(store, x)]')[n] = ([x \in Visible |-> Base(store, x)]')[[x \in Visible |-> Base(store, x)][n]]
    OBVIOUS
  <2>1. PICK b : b = E1[n]
    OBVIOUS
  <2>2. [x \in Visible |-> Base(store, x)][n] = b
    BY <1>11, <2>1, Zenon
  <2>3. E2[n] = E2[b]
    BY <1>10, <2>1, Zenon
  <2>4. ([x \in Visible |-> Base(store, x)]')[n] = ([x \in Visible |-> Base(store, x)]')[b]
    BY <1>11, <2>3, Zenon
  <2> QED BY <2>2, <2>4, Zenon
<1>15. \A n \in Visible : [x \in Visible |-> Status(store, x)][n] # "unknown" =>
          ([x \in Visible |-> Status(store, x)]')[n] = [x \in Visible |-> Status(store, x)][n] /\ ([x \in Visible |-> Base(store, x)]')[n] = [x \in Visible |-> Base(store, x)][n]
  BY <1>10, <1>11, <1>12, Zenon
<1>16. \A n \in Visible : [x \in Visible |-> store.kind[x] # "Free" /\ IsNeeded(store, x)][n] => ([x \in Visible |-> store.kind[x] # "Free" /\ IsNeeded(store, x)]')[n]
  BY <1>10, <1>13, Zenon
<1>17. \A n \in Visible : ([x \in Visible |-> store.kind[x] # "Free" /\ IsNeeded(store, x)]')[n] = ([x \in Visible |-> store.kind[x] # "Free" /\ IsNeeded(store, x)]')[([x \in Visible |-> Base(store, x)]')[n]]
  <2> SUFFICES ASSUME NEW n \in Visible
               PROVE  ([x \in Visible |-> store.kind[x] # "Free" /\ IsNeeded(store, x)]')[n] = ([x \in Visible |-> store.kind[x] # "Free" /\ IsNeeded(store, x)]')[([x \in Visible |-> Base(store, x)]')[n]]
    OBVIOUS
  <2>1. PICK b : b = E2[n]
    OBVIOUS
  <2>2. ([x \in Visible |-> Base(store, x)]')[n] = b
    BY <1>11, <2>1, Zenon
  <2>3. N2[n] = N2[b]
    BY <1>10, <2>1, Zenon
  <2>4. ([x \in Visible |-> store.kind[x] # "Free" /\ IsNeeded(store, x)]')[n] = ([x \in Visible |-> store.kind[x] # "Free" /\ IsNeeded(store, x)]')[b]
    BY <1>13, <2>3, Zenon
  <2> QED BY <2>2, <2>4, Zenon
<1> QED BY <1>14, <1>15, <1>16, <1>17, Zenon DEF Promise!Monotonic, Promise!Determined

\* A thread gets past its instruction.
LEMMA ProceedStep ==
    ASSUME IInv, NEW t \in Threads, running = t, NEW s, StoreInv(s), Evolves(store, s), Proceed(t, s)
    PROVE  /\ IInv' /\ Promise!Monotonic /\ doing'[t] = None
           /\ \A u \in Threads \ {t} : doing'[u] = doing[u]
<1>1. ThreadTypes /\ t \in runnable /\ t \notin ready
  BY DataflowAssumption DEF IInv, ThreadTypes
<1>2. PICK W : W = s.woken
  OBVIOUS
<1>3. W \in SUBSET Threads
  BY <1>2 DEF StoreInv, Structure, StoreType
<1>4. /\ store' = [s EXCEPT !.woken = {}]
      /\ runnable' = runnable \cup W /\ ready' = ready \cup (W \ runnable)
      /\ doing' = [doing EXCEPT ![t] = None] /\ waitee' = [waitee EXCEPT ![t] = None]
      /\ running' = running /\ terminated' = terminated /\ injected' = injected
      /\ injections' = injections
  BY <1>2 DEF Proceed, Update
<1>5. /\ doing' \in [Threads -> Requests \cup {None}] /\ waitee' \in [Threads -> AllNodes \cup {None}]
      /\ doing'[t] = None
      /\ \A u \in Threads \ {t} : doing'[u] = doing[u] /\ waitee'[u] = waitee[u]
  BY <1>1, <1>4 DEF ThreadTypes
<1>6. /\ StoreInv(store') /\ store'.woken = {}
      /\ \A u \in Threads \ {t} : doing'[u] # None => Operands(store', doing'[u])
      /\ \A u \in Threads \ {t} : Blocked(u)' =>
           doing'[u] # None /\ Waits(store', u, doing'[u], waitee'[u])
  BY <1>1, <1>2, <1>3, <1>4, <1>5, OthersInv
<1>7. ThreadTypes'
  BY <1>1, <1>3, <1>4, <1>5 DEF ThreadTypes
<1>8. KnownOperands'
  BY <1>5, <1>6 DEF KnownOperands
<1>9. WaitingRightly'
  <2>1. ~Blocked(t)'
    BY <1>1, <1>4 DEF Blocked
  <2> QED BY <1>6, <2>1 DEF WaitingRightly
<1>10. Promise!Monotonic
  BY <1>4, StoreIsMonotonic
<1> QED BY <1>5, <1>6, <1>7, <1>8, <1>9, <1>10 DEF IInv

\* A thread stops for good.
LEMMA TerminateStep ==
    ASSUME IInv, NEW t \in Threads, NEW s, StoreInv(s), Evolves(store, s), Terminate(t, s),
           running' = None, injected' \subseteq Threads, injections' \in 0..MaxInjections,
           doing' \in [Threads -> Requests \cup {None}], waitee' \in [Threads -> AllNodes \cup {None}],
           doing'[t] = None,
           \A u \in Threads \ {t} : doing'[u] = doing[u] /\ waitee'[u] = waitee[u]
    PROVE  IInv' /\ Promise!Monotonic
<1>1. ThreadTypes /\ StoreInv(store)
  BY DEF IInv
<1>2. PICK v : v = TerminationVar(t)
  OBVIOUS
<1>3. v \in TerminationVars
  BY <1>2 DEF TerminationVars
<1>4. PICK s2 : s2 = Wake([s EXCEPT !.kind[v] = "Value", !.needed[v] = FALSE, !.pendings[v] = {}],
                          s.pendings[v])
  OBVIOUS
<1>5. StoreInv(s2) /\ Grows(s, s2)
  BY <1>3, <1>4, UnitEffect
<1>6. Evolves(store, s2)
  BY <1>1, <1>5, EvolvesTransitive
<1>7. PICK W : W = s2.woken
  OBVIOUS
<1>8. W \in SUBSET Threads
  BY <1>5, <1>7 DEF StoreInv, Structure, StoreType
<1>9. Update(s2, ready \ {t}, runnable \ {t}) /\ terminated' = terminated \cup {t}
  BY <1>2, <1>4 DEF Terminate
<1>10. /\ store' = [s2 EXCEPT !.woken = {}]
       /\ runnable' = (runnable \ {t}) \cup W
       /\ ready' = (ready \ {t}) \cup (W \ (runnable \ {t}))
  BY <1>7, <1>9 DEF Update
<1>11. /\ StoreInv(store') /\ store'.woken = {}
       /\ \A u \in Threads \ {t} : doing'[u] # None => Operands(store', doing'[u])
       /\ \A u \in Threads \ {t} : Blocked(u)' =>
            doing'[u] # None /\ Waits(store', u, doing'[u], waitee'[u])
  BY <1>5, <1>6, <1>7, <1>8, <1>9, <1>10, OthersInv
<1>12. ThreadTypes'
  BY <1>1, <1>8, <1>9, <1>10, DataflowAssumption DEF ThreadTypes
<1>13. KnownOperands'
  BY <1>11 DEF KnownOperands
<1>14. WaitingRightly'
  <2>1. ~Blocked(t)'
    BY <1>9 DEF Blocked
  <2> QED BY <1>11, <2>1 DEF WaitingRightly
<1>15. Promise!Monotonic
  BY <1>5, <1>6, <1>10, StoreIsMonotonic
<1> QED BY <1>11, <1>12, <1>13, <1>14, <1>15 DEF IInv

\* An exception is raised.
LEMMA RaiseStep ==
    ASSUME IInv, NEW t \in Threads, t \in runnable, NEW s, StoreInv(s), Evolves(store, s), Raise(t, s),
           injected' \subseteq Threads, injections' \in 0..MaxInjections
    PROVE  /\ IInv' /\ Promise!Monotonic /\ doing'[t] = None
           /\ \A u \in Threads \ {t} : doing'[u] = doing[u]
<1>1. ThreadTypes
  BY DEF IInv
<1>2. /\ running' = None
      /\ doing' = [doing EXCEPT ![t] = None] /\ waitee' = [waitee EXCEPT ![t] = None]
  BY DEF Raise
<1>3. /\ doing' \in [Threads -> Requests \cup {None}] /\ waitee' \in [Threads -> AllNodes \cup {None}]
      /\ doing'[t] = None
      /\ \A u \in Threads \ {t} : doing'[u] = doing[u] /\ waitee'[u] = waitee[u]
  BY <1>1, <1>2 DEF ThreadTypes
<1>4. CASE Terminate(t, s)
  BY <1>2, <1>3, <1>4, TerminateStep
<1>5. CASE Update(s, ready \cup {t}, runnable) /\ UNCHANGED terminated
  <2>1. PICK W : W = s.woken
    OBVIOUS
  <2>2. W \in SUBSET Threads
    BY <2>1 DEF StoreInv, Structure, StoreType
  <2>3. /\ store' = [s EXCEPT !.woken = {}] /\ terminated' = terminated
        /\ runnable' = runnable \cup W /\ ready' = ready \cup {t} \cup (W \ runnable)
    BY <1>5, <2>1 DEF Update
  <2>4. /\ StoreInv(store') /\ store'.woken = {}
        /\ \A u \in Threads \ {t} : doing'[u] # None => Operands(store', doing'[u])
        /\ \A u \in Threads \ {t} : Blocked(u)' =>
             doing'[u] # None /\ Waits(store', u, doing'[u], waitee'[u])
    BY <1>3, <2>1, <2>2, <2>3, OthersInv
  <2>5. ThreadTypes'
    BY <1>1, <1>2, <1>3, <2>2, <2>3, DataflowAssumption DEF ThreadTypes
  <2>6. KnownOperands'
    BY <1>3, <2>4 DEF KnownOperands
  <2>7. WaitingRightly'
    <3>1. ~Blocked(t)'
      BY <2>3 DEF Blocked
    <3> QED BY <2>4, <3>1 DEF WaitingRightly
  <2>8. Promise!Monotonic
    BY <2>3, StoreIsMonotonic
  <2> QED BY <1>3, <2>4, <2>5, <2>6, <2>7, <2>8 DEF IInv
<1> QED BY <1>4, <1>5 DEF Raise

\* A thread suspends, rightly.
LEMMA SuspendStep ==
    ASSUME IInv, NEW t \in Threads, running = t, NEW s, StoreInv(s), Evolves(store, s),
           NEW r \in Requests, Operands(store, r), NEW w \in AllNodes, Suspend(t, r, w, s),
           NEW s1, s1 = AddToSuspendList(s, w, t),
           StoreInv(s1), Evolves(store, s1), Waits(s1, t, r, w)
    PROVE  /\ IInv' /\ Promise!Monotonic /\ doing'[t] = r
           /\ \A u \in Threads \ {t} : doing'[u] = doing[u]
           /\ store'.kind = s1.kind
           /\ \A m \in AllNodes : IsNeeded(store', m) <=> IsNeeded(s1, m)
<1>1. ThreadTypes /\ t \in runnable /\ t \notin ready
  BY DataflowAssumption DEF IInv, ThreadTypes
<1>2. PICK W : W = s1.woken \ {t}
  OBVIOUS
<1>3. W \in SUBSET Threads /\ s1 \in StoreType
  BY <1>2 DEF StoreInv, Structure, StoreType
<1>4. PICK s2 : s2 = [s1 EXCEPT !.woken = W]
  OBVIOUS
<1>5. s2.woken = W /\ [s2 EXCEPT !.woken = {}] = [s1 EXCEPT !.woken = {}]
  BY <1>3, <1>4 DEF StoreType
<1>6. s2 = [s1 EXCEPT !.woken = @ \ {t}]
  BY <1>2, <1>3, <1>4 DEF StoreType
<1>7. Update(s2, ready, runnable \ {t})
  BY <1>6 DEF Suspend
<1>8. /\ store' = [s1 EXCEPT !.woken = {}]
      /\ runnable' = (runnable \ {t}) \cup W
      /\ ready' = ready \cup (W \ (runnable \ {t}))
  BY <1>5, <1>7 DEF Update
<1>9. /\ running' = None /\ doing' = [doing EXCEPT ![t] = r] /\ waitee' = [waitee EXCEPT ![t] = w]
      /\ terminated' = terminated /\ injected' = injected /\ injections' = injections
  BY DEF Suspend
<1>10. /\ doing' \in [Threads -> Requests \cup {None}] /\ waitee' \in [Threads -> AllNodes \cup {None}]
       /\ doing'[t] = r /\ waitee'[t] = w
       /\ \A u \in Threads \ {t} : doing'[u] = doing[u] /\ waitee'[u] = waitee[u]
  BY <1>1, <1>9 DEF ThreadTypes
<1>11. /\ StoreInv(store') /\ store'.woken = {}
       /\ \A u \in Threads \ {t} : doing'[u] # None => Operands(store', doing'[u])
       /\ \A u \in Threads \ {t} : Blocked(u)' =>
            doing'[u] # None /\ Waits(store', u, doing'[u], waitee'[u])
       /\ \A q \in Requests : Operands(store, q) => Operands(store', q)
  <2>1. s1.woken \ {t} \subseteq W /\ runnable \ {t} \subseteq runnable' /\ W \subseteq runnable'
        /\ terminated \subseteq terminated'
    BY <1>2, <1>8, <1>9
  <2> QED BY <1>3, <1>8, <1>10, <2>1, OthersInv
<1>12. ThreadTypes'
  BY <1>1, <1>3, <1>8, <1>9, <1>10, DataflowAssumption DEF ThreadTypes
<1>13. r # None
  BY RequestTypes
<1>14. KnownOperands'
  BY <1>10, <1>11 DEF KnownOperands
<1>15. Waits(store', t, r, w)
  <2>1. PICK s3 : s3 = store'
    OBVIOUS
  <2>2. s3 = [s1 EXCEPT !.woken = {}]
    BY <1>8, <2>1
  <2>3. Waits(s3, t, r, w)
    BY <2>2, WaitsReset
  <2> QED BY <2>1, <2>3
<1>16. WaitingRightly'
  BY <1>10, <1>11, <1>13, <1>15 DEF WaitingRightly
<1>17. Promise!Monotonic
  BY <1>8, StoreIsMonotonic
<1>18. store'.kind = s1.kind /\ \A m \in AllNodes : IsNeeded(store', m) <=> IsNeeded(s1, m)
  <2>1. PICK s3 : s3 = store'
    OBVIOUS
  <2>2. s3 = [s1 EXCEPT !.woken = {}]
    BY <1>8, <2>1
  <2>3. s3.kind = s1.kind /\ \A m \in AllNodes : IsNeeded(s3, m) <=> IsNeeded(s1, m)
    BY <2>2, ResetEffect
  <2> QED BY <2>1, <2>3
<1> QED BY <1>10, <1>11, <1>12, <1>14, <1>16, <1>17, <1>18 DEF IInv

-----------------------------------------------------------------------------
(* Instructions that may block *)

\* What the store says of a request.
Known(s, n) == s.kind[Base(s, n)] \in {"Value", "FailedValue"}
Satisfied(r) ==
    CASE r.op \in {"wait", "waitQuiet"} -> Known(store, r.on)
      [] r.op = "waitNeeded" -> IsNeeded(store, r.on)
      [] r.op = "equals" ->
            \/ Known(store, r.on) /\ Known(store, r.with)
            \/ Base(store, r.on) = Base(store, r.with)
            \/ store.kind[Base(store, r.on)] = "FailedValue"
      [] r.op = "unify" ->
            \/ Known(store, r.on) /\ Known(store, r.with)
            \/ Base(store', r.on) = Base(store', r.with)
NeedsOf(s) == {n \in Visible : s.kind[n] # "Free" /\ IsNeeded(s, n)}
Asked(r) ==
    /\ r.op \in {"wait", "equals"} => r.on \in NeedsOf(store')
    /\ r.op \in {"waitQuiet", "waitNeeded"} => NeedsOf(store') = NeedsOf(store)

\* What an instruction does: the thread suspends having asked, or goes on because
\* its request is satisfied or it must not block.
Outcome(t, r) ==
    /\ IInv' /\ Promise!Monotonic
    /\ \A u \in Threads \ {t} : doing'[u] = doing[u]
    /\ \/ doing'[t] = r /\ Asked(r)
       \/ doing'[t] = None /\ (Satisfied(r) \/ t \in RaiseOnBlock)

\* What dereferencing an operand gives.
LEMMA OperandFacts ==
    ASSUME NEW s, StoreInv(s), NEW n \in Visible, s.kind[n] # "Free", NEW d, d = Deref(s, n)
    PROVE  /\ d \in Visible /\ d \in AllNodes /\ d \notin Controls
           /\ s.kind[d] \in (Transient \cup {"Value"})
           /\ KindOf(s, n) = s.kind[d] /\ KindOf(s, d) = s.kind[d] /\ Deref(s, d) = d
           /\ Base(s, d) = Base(s, n)
           /\ s.kind[d] # "ReadOnly" => Base(s, n) = d
           /\ s.kind[d] = "ReadOnly" => s.kind[Base(s, n)] \in Unbound
           /\ n \in Nodes /\ s.kind[d] # "Value" => d \in Nodes /\ d \in Referable(s)
           /\ n \in Nodes => d \in Referable(s)
<1>1. /\ s \in StoreType /\ LinksLead(s) /\ Acyclic(s) /\ TerminationKinds(s)
      /\ \A r \in Views(s) : Listed(s, r)
  BY DEF StoreInv, Structure
<1>2. n \in AllNodes
  BY NodeSets
<1>3. /\ d \in Visible /\ d \in AllNodes /\ s.kind[d] \notin {"Free", "Reference"}
      /\ s.kind[n] # "Reference" => d = n
      /\ s.kind[n] = "Reference" => d \in Referable(s)
  BY <1>1, <1>2, DerefFacts, DerefVisible, NodeSets
<1>4. Deref(s, d) = d
  BY <1>3 DEF Deref
<1>5. s.kind[d] \in Transient \cup {"Value"}
  BY <1>1, <1>3 DEF StoreType, Kinds
<1>6. Base(s, d) = Base(s, n)
  BY <1>2, BaseFacts
<1>7. s.kind[d] # "ReadOnly" => Base(s, n) = d
  BY <1>3, <1>6, BaseFacts
<1>8. s.kind[d] = "ReadOnly" => s.kind[Base(s, n)] \in Unbound
  <2>1. s.kind[d] = "ReadOnly" => d \in Views(s)
    BY <1>1, <1>3 DEF LinksLead, Views
  <2>2. s.kind[d] = "ReadOnly" => Base(s, n) = Target(s, d)
    BY DEF Base, Target
  <2> QED BY <1>1, <2>1, <2>2 DEF Listed
<1>9. n \in Nodes => d \in Referable(s)
  BY <1>3, NodeSets DEF Referable
<1>10. n \in Nodes /\ s.kind[d] # "Value" => d \in Nodes
  BY <1>9 DEF Referable, Visible
<1> QED BY <1>3, <1>4, <1>5, <1>6, <1>7, <1>8, <1>9, <1>10, NodeSets DEF KindOf

\* A transient operand that is not failed has a variable at its base.
LEMMA ProtectedBase ==
    ASSUME NEW s, StoreInv(s), NEW n \in Visible, s.kind[n] # "Free"
    PROVE  KindOf(s, n) \in Transient \ {"FailedValue"} <=> NeedsProtection(s.kind[Base(s, n)])
<1>1. PICK d : d = Deref(s, n)
  OBVIOUS
<1>2. /\ s.kind[d] \in (Transient \cup {"Value"}) /\ KindOf(s, n) = s.kind[d]
      /\ s.kind[d] # "ReadOnly" => Base(s, n) = d
      /\ s.kind[d] = "ReadOnly" => s.kind[Base(s, n)] \in Unbound
  BY <1>1, OperandFacts
<1> QED BY <1>2 DEF Transient, NeedsProtection, Unbound

\* Suspending on a variable, after it was made needed or quietly.
LEMMA SuspendOn ==
    ASSUME IInv, NEW t \in Threads, running = t, NEW r \in Requests, Operands(store, r),
           NEW w \in Visible, store.kind[w] # "Free", NeedsProtection(store.kind[Base(store, w)]),
           r.op \notin {"equals", "waitNeeded"},
           NEW s, s = MarkNeeded(store, w) \/ s = store, Suspend(t, r, w, s)
    PROVE  /\ IInv' /\ Promise!Monotonic /\ doing'[t] = r
           /\ \A u \in Threads \ {t} : doing'[u] = doing[u]
           /\ s = store => NeedsOf(store') = NeedsOf(store)
           /\ s = MarkNeeded(store, w) =>
                \A m \in Visible : store.kind[m] # "Free" /\ Base(store, m) = Base(store, w)
                                      => m \in NeedsOf(store')
<1>1. StoreInv(store)
  BY DEF IInv
<1>2. w \in AllNodes /\ t \in Wakeables /\ t \notin Controls
  BY NodeSets DEF Wakeables
<1>3. PICK b \in AllNodes : b = Base(store, w)
  BY <1>1, <1>2, BaseFacts
<1>4. b \notin Controls
  BY <1>1, <1>2, <1>3, BaseFacts, NodeSets
<1>5. PICK s0 : s0 = store
  OBVIOUS
<1>6. /\ StoreInv(s) /\ Grows(s0, s)
      /\ \A m \in AllNodes : Base(s, m) = Base(s0, m)
      /\ NeedsProtection(s.kind[b])
      /\ s = MarkNeeded(s0, w) => IsNeeded(s, w)
  <2>1. CASE s = MarkNeeded(s0, w)
    <3>1. /\ StoreInv(s) /\ Grows(s0, s)
          /\ \A m \in AllNodes : Base(s, m) = Base(s0, m)
          /\ IsNeeded(s, w)
          /\ \A m \in AllNodes \ Controls :
               s.kind[m] = IF m = Base(s0, w) /\ s0.kind[m] = "OptVar" THEN "Variable" ELSE s0.kind[m]
      BY <1>1, <1>2, <1>5, <2>1, MarkNeededEffect
    <3>2. s.kind[b] = IF s0.kind[b] = "OptVar" THEN "Variable" ELSE s0.kind[b]
      BY <1>3, <1>4, <1>5, <3>1
    <3> QED BY <1>3, <1>5, <3>1, <3>2 DEF NeedsProtection, Unbound
  <2>2. CASE s = s0
    <3>1. s = MarkNeeded(s0, w) => IsNeeded(s, w)
      BY <1>1, <1>2, <1>5, <2>2, MarkNeededEffect
    <3> QED BY <1>1, <1>3, <1>5, <2>2, <3>1, GrowsReflexive
  <2> QED BY <1>5, <2>1, <2>2
<1>7. PICK s1 : s1 = AddToSuspendList(s, w, t)
  OBVIOUS
<1>8. /\ StoreInv(s1) /\ Grows(s, s1)
      /\ \A m \in AllNodes : Base(s1, m) = Base(s, m)
      /\ Hangs(s1, w, t)
      /\ \A m \in AllNodes : s1.kind[m] = s.kind[m] \/ m = b
      /\ \A m \in AllNodes : IsNeeded(s1, m) <=> IsNeeded(s, m)
  <2>1. Base(s, w) = b
    BY <1>2, <1>3, <1>5, <1>6
  <2> QED BY <1>2, <1>6, <1>7, <2>1, AddToSuspendListEffect
<1>9. Evolves(store, s) /\ Evolves(store, s1)
  BY <1>1, <1>5, <1>6, <1>8, EvolvesTransitive DEF Grows
<1>10. Waits(s1, t, r, w)
  BY <1>2, <1>8 DEF Waits
<1>11. /\ IInv' /\ Promise!Monotonic /\ doing'[t] = r
       /\ \A u \in Threads \ {t} : doing'[u] = doing[u]
       /\ store'.kind = s1.kind
       /\ \A m \in AllNodes : IsNeeded(store', m) <=> IsNeeded(s1, m)
  BY <1>2, <1>6, <1>7, <1>8, <1>9, <1>10, SuspendStep
<1>12. \A m \in AllNodes : store.kind[m] # "Free" => s1.kind[m] # "Free"
  BY <1>9 DEF Evolves
<1>13. ASSUME s = store PROVE NeedsOf(store') = NeedsOf(store)
  <2>1. s1.kind[b] # "Free" /\ store.kind[b] # "Free"
    BY <1>3, <1>12 DEF NeedsProtection, Unbound
  <2>2. \A m \in AllNodes : s1.kind[m] = "Free" <=> store.kind[m] = "Free"
    BY <1>8, <1>13, <2>1
  <2>3. \A m \in AllNodes : IsNeeded(store', m) <=> IsNeeded(store, m)
    BY <1>8, <1>11, <1>13
  <2> QED BY <1>11, <2>2, <2>3, NodeSets DEF NeedsOf
<1>14. ASSUME s = MarkNeeded(store, w), NEW m \in Visible, store.kind[m] # "Free",
              Base(store, m) = Base(store, w)
       PROVE  m \in NeedsOf(store')
  <2>1. IsNeeded(s, w)
    BY <1>5, <1>6, <1>14
  <2>2. m \in AllNodes /\ Base(s, m) = Base(s, w)
    BY <1>2, <1>5, <1>6, <1>14, NodeSets
  <2>3. IsNeeded(s, m)
    BY <2>1, <2>2 DEF IsNeeded
  <2>4. IsNeeded(store', m) /\ store'.kind[m] # "Free"
    BY <1>8, <1>11, <1>12, <1>14, <2>2, <2>3
  <2> QED BY <2>4 DEF NeedsOf
<1> QED BY <1>11, <1>13, <1>14

\* Going on is an outcome when the request is satisfied.
LEMMA ProceedOutcome ==
    ASSUME IInv, NEW t \in Threads, running = t, NEW r, NEW s, StoreInv(s), Evolves(store, s), Proceed(t, s),
           Satisfied(r)
    PROVE  Outcome(t, r)
BY ProceedStep DEF Outcome

\* So is an exception, and it always is for a thread that must not block.
LEMMA RaiseOutcome ==
    ASSUME IInv, NEW t \in Threads, running = t, NEW r, NEW s, StoreInv(s), Evolves(store, s), RaiseNow(t, s),
           Satisfied(r) \/ t \in RaiseOnBlock
    PROVE  Outcome(t, r)
<1>1. t \in runnable /\ injected' \subseteq Threads /\ injections' \in 0..MaxInjections /\ Raise(t, s)
  BY DataflowAssumption DEF IInv, ThreadTypes, RaiseNow
<1> QED BY <1>1, RaiseStep DEF Outcome

\* Value.wait suspends or goes on rightly.
LEMMA WaitStep ==
    ASSUME IInv, NEW t \in Threads, running = t, NEW r \in Requests, r.op = "wait",
           Operands(store, r), Wait(t, r)
    PROVE  Outcome(t, r)
<1>1. StoreInv(store) /\ Evolves(store, store)
  BY GrowsReflexive DEF IInv, Grows
<1>2. r.on \in Visible /\ store.kind[r.on] # "Free"
  BY RequestTypes DEF Operands
<1>3. PICK d : d = Deref(store, r.on)
  OBVIOUS
<1>4. /\ d \in Visible /\ d \in AllNodes
      /\ store.kind[d] \in (Transient \cup {"Value"})
      /\ KindOf(store, r.on) = store.kind[d] /\ KindOf(store, d) = store.kind[d]
      /\ Base(store, d) = Base(store, r.on)
      /\ store.kind[d] # "ReadOnly" => Base(store, r.on) = d
  BY <1>1, <1>2, <1>3, OperandFacts
<1>5. CASE store.kind[d] \notin Transient
  <2>1. Proceed(t, store) /\ store.kind[d] = "Value"
    BY <1>4, <1>5 DEF Wait
  <2>2. Satisfied(r)
    BY <1>4, <2>1 DEF Satisfied, Known
  <2> QED BY <1>1, <2>1, <2>2, ProceedOutcome
<1>6. CASE store.kind[d] \in Transient
  <2>1. WaitBefore(t, r, d, FALSE, store)
    BY <1>3, <1>4, <1>6 DEF Wait
  <2>2. CASE RaiseNow(t, store) /\ t \in RaiseOnBlock
    BY <1>1, <2>2, RaiseOutcome
  <2>3. CASE RaiseNow(t, store) /\ store.kind[d] = "FailedValue"
    <3>1. Satisfied(r)
      BY <1>4, <2>3 DEF Satisfied, Known
    <3> QED BY <1>1, <2>3, <3>1, RaiseOutcome
  <2>4. CASE store.kind[d] # "FailedValue" /\ Suspend(t, r, d, MarkNeeded(store, d))
    <3>1. NeedsProtection(store.kind[Base(store, d)])
      BY <1>1, <1>2, <1>4, <1>6, <2>4, ProtectedBase
    <3>2. store.kind[d] # "Free"
      BY <1>6 DEF Transient, Unbound
    <3>3. PICK s : s = MarkNeeded(store, d)
      OBVIOUS
    <3>4. /\ IInv' /\ Promise!Monotonic /\ doing'[t] = r
          /\ \A u \in Threads \ {t} : doing'[u] = doing[u]
          /\ \A m \in Visible : store.kind[m] # "Free" /\ Base(store, m) = Base(store, d)
                                   => m \in NeedsOf(store')
      BY <1>4, <2>4, <3>1, <3>2, <3>3, SuspendOn
    <3>5. Asked(r)
      BY <1>2, <1>4, <3>4 DEF Asked
    <3> QED BY <3>4, <3>5 DEF Outcome
  <2> QED BY <1>4, <2>1, <2>2, <2>3, <2>4 DEF WaitBefore
<1> QED BY <1>5, <1>6

\* Value.waitQuiet suspends or goes on rightly, and makes nothing needed.
LEMMA WaitQuietStep ==
    ASSUME IInv, NEW t \in Threads, running = t, NEW r \in Requests, r.op = "waitQuiet",
           Operands(store, r), WaitQuiet(t, r)
    PROVE  Outcome(t, r)
<1>1. StoreInv(store) /\ Evolves(store, store)
  BY GrowsReflexive DEF IInv, Grows
<1>2. r.on \in Visible /\ store.kind[r.on] # "Free"
  BY RequestTypes DEF Operands
<1>3. PICK d : d = Deref(store, r.on)
  OBVIOUS
<1>4. /\ d \in Visible /\ d \in AllNodes
      /\ store.kind[d] \in (Transient \cup {"Value"})
      /\ KindOf(store, r.on) = store.kind[d] /\ KindOf(store, d) = store.kind[d]
      /\ Base(store, d) = Base(store, r.on)
      /\ store.kind[d] # "ReadOnly" => Base(store, r.on) = d
  BY <1>1, <1>2, <1>3, OperandFacts
<1>5. CASE store.kind[d] \notin Transient \ {"FailedValue"}
  <2>1. Proceed(t, store) /\ store.kind[d] \in {"Value", "FailedValue"}
    BY <1>4, <1>5 DEF WaitQuiet
  <2>2. Satisfied(r)
    BY <1>4, <2>1 DEF Satisfied, Known
  <2> QED BY <1>1, <2>1, <2>2, ProceedOutcome
<1>6. CASE store.kind[d] \in Transient \ {"FailedValue"}
  <2>1. WaitBefore(t, r, d, TRUE, store)
    BY <1>3, <1>4, <1>6 DEF WaitQuiet
  <2>2. CASE RaiseNow(t, store) /\ t \in RaiseOnBlock
    BY <1>1, <2>2, RaiseOutcome
  <2>3. CASE Suspend(t, r, d, store)
    <3>1. NeedsProtection(store.kind[Base(store, d)])
      BY <1>1, <1>2, <1>4, <1>6, ProtectedBase
    <3>2. store.kind[d] # "Free"
      BY <1>6 DEF Transient, Unbound
    <3>3. PICK s : s = store
      OBVIOUS
    <3>4. /\ IInv' /\ Promise!Monotonic /\ doing'[t] = r
          /\ \A u \in Threads \ {t} : doing'[u] = doing[u]
          /\ NeedsOf(store') = NeedsOf(store)
      BY <1>4, <2>3, <3>1, <3>2, <3>3, SuspendOn
    <3>5. Asked(r)
      BY <3>4 DEF Asked
    <3> QED BY <3>4, <3>5 DEF Outcome
  <2> QED BY <2>1, <2>2, <2>3 DEF WaitBefore
<1> QED BY <1>5, <1>6

\* WaitNeeded suspends or goes on rightly.
LEMMA WaitNeededStep ==
    ASSUME IInv, NEW t \in Threads, running = t, NEW r \in Requests, r.op = "waitNeeded",
           Operands(store, r), WaitNeeded(t, r)
    PROVE  Outcome(t, r)
<1>1. StoreInv(store) /\ Evolves(store, store)
  BY GrowsReflexive DEF IInv, Grows
<1>2. r.on \in Visible /\ r.on \in AllNodes /\ store.kind[r.on] # "Free"
  BY RequestTypes DEF Operands
<1>3. PICK d : d = Deref(store, r.on)
  OBVIOUS
<1>4. d \in Visible /\ d \in AllNodes /\ Base(store, d) = Base(store, r.on)
  BY <1>1, <1>2, <1>3, OperandFacts
<1>5. CASE IsNeeded(store, r.on)
  <2>1. Proceed(t, store)
    BY <1>5 DEF WaitNeeded
  <2>2. Satisfied(r)
    BY <1>5 DEF Satisfied
  <2> QED BY <1>1, <2>1, <2>2, ProceedOutcome
<1>6. CASE ~IsNeeded(store, r.on)
  <2>1. WaitBefore(t, r, d, TRUE, store)
    BY <1>3, <1>6 DEF WaitNeeded
  <2>2. CASE RaiseNow(t, store) /\ t \in RaiseOnBlock
    BY <1>1, <2>2, RaiseOutcome
  <2>3. CASE Suspend(t, r, d, store)
    <3>1. PICK s0 : s0 = store
      OBVIOUS
    <3>2. PICK b \in AllNodes : b = Base(s0, d)
      BY <1>1, <1>4, <3>1, BaseFacts
    <3>3. PICK s1 : s1 = AddToSuspendList(s0, d, t)
      OBVIOUS
    <3>4. s0 \in StoreType
      BY <1>1, <3>1 DEF StoreInv, Structure
    <3>5. NeedsProtection(s0.kind[b])
      <4>1. IsNeeded(s0, r.on) <=> /\ s0.kind[Base(s0, r.on)] # "OptVar"
                                   /\ s0.kind[Base(s0, r.on)] \in Unbound => s0.needed[Base(s0, r.on)]
        BY <3>4, NeededFacts
      <4> QED BY <1>4, <1>6, <3>1, <3>2, <4>1 DEF NeedsProtection
    <3>6. t \in Wakeables /\ t \notin Controls
      BY NodeSets DEF Wakeables
    <3>7. /\ StoreInv(s1) /\ Grows(s0, s1)
          /\ \A m \in AllNodes : Base(s1, m) = Base(s0, m)
          /\ Hangs(s1, d, t)
          /\ \A m \in AllNodes : s1.kind[m] = s0.kind[m] \/ m = b
          /\ \A m \in AllNodes : IsNeeded(s1, m) <=> IsNeeded(s0, m)
      BY <1>1, <1>4, <3>1, <3>2, <3>3, <3>5, <3>6, AddToSuspendListEffect
    <3>8. ~s1.needed[Base(s1, d)]
      <4>1. s1 \in StoreType
        BY <3>7 DEF StoreInv, Structure
      <4>2. IsNeeded(s1, r.on) <=> /\ s1.kind[Base(s1, r.on)] # "OptVar"
                                   /\ s1.kind[Base(s1, r.on)] \in Unbound => s1.needed[Base(s1, r.on)]
        BY <4>1, NeededFacts
      <4>3. ~IsNeeded(s1, r.on)
        BY <1>2, <1>6, <3>1, <3>7
      <4>4. Base(s1, r.on) = Base(s1, d)
        BY <1>2, <1>4, <3>1, <3>7
      <4> QED BY <3>7, <4>2, <4>3, <4>4 DEF Hangs, Unbound
    <3>9. Waits(s1, t, r, d)
      BY <1>2, <1>4, <3>1, <3>7, <3>8 DEF Waits
    <3>10. /\ IInv' /\ Promise!Monotonic /\ doing'[t] = r
           /\ \A u \in Threads \ {t} : doing'[u] = doing[u]
           /\ store'.kind = s1.kind
           /\ \A m \in AllNodes : IsNeeded(store', m) <=> IsNeeded(s1, m)
      BY <1>1, <1>4, <2>3, <3>1, <3>3, <3>7, <3>9, SuspendStep DEF Grows
    <3>11. NeedsOf(store') = NeedsOf(store)
      <4>1. s0.kind[b] # "Free"
        BY <3>5 DEF NeedsProtection, Unbound
      <4>2. s1.kind[b] # "Free"
        BY <3>7, <4>1 DEF Grows, Evolves
      <4>3. \A m \in AllNodes : s1.kind[m] = "Free" <=> s0.kind[m] = "Free"
        BY <3>7, <4>1, <4>2
      <4> QED BY <3>1, <3>7, <3>10, <4>3, NodeSets DEF NeedsOf
    <3>12. Asked(r)
      BY <3>11 DEF Asked
    <3> QED BY <3>10, <3>12 DEF Outcome
  <2> QED BY <2>1, <2>2, <2>3 DEF WaitBefore
<1> QED BY <1>5, <1>6

-----------------------------------------------------------------------------
(* Equality *)

\* A control variable goes behind an operand.
LEMMA BehindEffect ==
    ASSUME NEW s, StoreInv(s), NEW n \in Visible, s.kind[n] # "Free",
           NEW c \in Controls, s.kind[c] = "Variable",
           c \notin s.pendings[Base(s, n)] \/ IsNeeded(s, n),
           NEW s2, s2 = Behind(s, n, c)
    PROVE  /\ StoreInv(s2) /\ Grows(s, s2)
           /\ \A m \in AllNodes : Base(s2, m) = Base(s, m)
           /\ s2.kind[c] = "Variable" /\ IsNeeded(s2, n)
           /\ NeedsProtection(s.kind[Base(s, n)]) => Hangs(s2, n, c)
           /\ \A m \in AllNodes : m # Base(s, n) => s2.pendings[m] \cap Controls \subseteq s.pendings[m]
<1>1. n \in AllNodes /\ c \in AllNodes /\ c \in Wakeables
  BY NodeSets DEF Wakeables
<1>2. PICK b \in AllNodes : b = Base(s, n)
  BY <1>1, BaseFacts
<1>3. b \notin Controls
  BY <1>1, <1>2, BaseFacts, NodeSets
<1>4. PICK s1 : s1 = MarkNeeded(s, n)
  OBVIOUS
<1>5. /\ StoreInv(s1) /\ Grows(s, s1)
      /\ \A m \in AllNodes : Base(s1, m) = Base(s, m)
      /\ IsNeeded(s1, n)
      /\ IsNeeded(s, n) => s1 = s
      /\ \A m \in AllNodes \ Controls :
           s1.kind[m] = IF m = b /\ s.kind[m] = "OptVar" THEN "Variable" ELSE s.kind[m]
      /\ \A d \in Controls : s.kind[d] = "Variable" /\ d \notin s.pendings[b] => s1.kind[d] = "Variable"
      /\ \A m \in AllNodes : s1.pendings[m] \cap Controls \subseteq s.pendings[m]
  BY <1>1, <1>2, <1>4, MarkNeededEffect
<1>6. s1.kind[c] = "Variable"
  BY <1>2, <1>5
<1>7. Base(s1, n) = b
  BY <1>1, <1>2, <1>5
<1>8. s2 = AddToSuspendList(s1, n, c)
  BY <1>4 DEF Behind
<1>9. /\ StoreInv(s2) /\ Grows(s1, s2)
      /\ \A m \in AllNodes : Base(s2, m) = Base(s1, m)
      /\ NeedsProtection(s1.kind[b]) => Hangs(s2, n, c)
      /\ \A m \in AllNodes : s2.kind[m] = s1.kind[m] \/ m = b
      /\ \A m \in AllNodes : IsNeeded(s2, m) <=> IsNeeded(s1, m)
      /\ \A m \in AllNodes : m # b => s2.pendings[m] = s1.pendings[m]
  BY <1>1, <1>5, <1>6, <1>7, <1>8, AddToSuspendListEffect
<1>10. NeedsProtection(s.kind[b]) => NeedsProtection(s1.kind[b])
  <2>1. s1.kind[b] = IF s.kind[b] = "OptVar" THEN "Variable" ELSE s.kind[b]
    BY <1>3, <1>5
  <2> QED BY <2>1 DEF NeedsProtection, Unbound
<1>11. Grows(s, s2)
  BY <1>5, <1>9, EvolvesTransitive DEF Grows
<1>12. s2.kind[c] = "Variable"
  BY <1>1, <1>3, <1>6, <1>9
<1>13. IsNeeded(s2, n)
  BY <1>1, <1>5, <1>9
<1> QED BY <1>2, <1>5, <1>9, <1>10, <1>11, <1>12, <1>13

\* The control variable of an equality test is in the lists of both operands.
LEMMA EqualsStores ==
    ASSUME NEW s, StoreInv(s), NEW x \in Visible, NEW y \in Visible,
           s.kind[x] # "Free", s.kind[y] # "Free",
           NEW c \in Controls, s.kind[c] \in {"Free", "Value"},
           NEW s0, s0 = NewControl(s, c),
           NEW s1, s1 = Behind(s0, x, c) \/ (~NeedsProtection(s.kind[Base(s, x)]) /\ s1 = s0),
           NEW s2, s2 = Behind(s1, y, c) \/ (~NeedsProtection(s.kind[Base(s, y)]) /\ s2 = s1)
    PROVE  /\ StoreInv(s2) /\ Evolves(s, s2)
           /\ \A m \in AllNodes : Base(s2, m) = Base(s, m)
           /\ s2.kind[c] = "Variable"
           /\ IsNeeded(s2, x)
           /\ NeedsProtection(s.kind[Base(s, x)]) => Hangs(s2, x, c)
           /\ NeedsProtection(s.kind[Base(s, y)]) => Hangs(s2, y, c)
<1>1. c \in AllNodes /\ x \in AllNodes /\ y \in AllNodes /\ c \notin Visible
  BY NodeSets
<1>2. PICK bx \in AllNodes : bx = Base(s, x) /\ bx \notin Controls
  BY <1>1, BaseFacts, NodeSets
<1>3. PICK by \in AllNodes : by = Base(s, y) /\ by \notin Controls
  BY <1>1, BaseFacts, NodeSets
<1>4. s.kind[bx] \notin {"Reference", "ReadOnly", "Free"} /\ s.kind[by] \notin {"Reference", "ReadOnly", "Free"}
  BY <1>1, <1>2, <1>3, BaseFacts
<1>5. /\ StoreInv(s0) /\ Evolves(s, s0)
      /\ \A m \in AllNodes : Base(s0, m) = Base(s, m)
      /\ \A m \in AllNodes : s0.kind[m] = IF m = c THEN "Variable" ELSE s.kind[m]
      /\ \A m \in AllNodes : c \notin s0.pendings[m]
  BY ControlEffect
<1>6. /\ s0.kind[bx] = s.kind[bx] /\ s0.kind[by] = s.kind[by] /\ s0.kind[c] = "Variable"
      /\ s0.kind[x] # "Free" /\ s0.kind[y] # "Free"
      /\ Base(s0, x) = bx /\ Base(s0, y) = by
  BY <1>1, <1>2, <1>3, <1>5
<1>7. /\ StoreInv(s1) /\ Grows(s0, s1)
      /\ \A m \in AllNodes : Base(s1, m) = Base(s, m)
      /\ s1.kind[c] = "Variable" /\ IsNeeded(s1, x)
      /\ NeedsProtection(s.kind[bx]) => Hangs(s1, x, c)
      /\ \A m \in AllNodes : m # bx => c \notin s1.pendings[m]
  <2>1. CASE s1 = Behind(s0, x, c)
    <3>1. /\ StoreInv(s1) /\ Grows(s0, s1)
          /\ \A m \in AllNodes : Base(s1, m) = Base(s0, m)
          /\ s1.kind[c] = "Variable" /\ IsNeeded(s1, x)
          /\ NeedsProtection(s0.kind[bx]) => Hangs(s1, x, c)
          /\ \A m \in AllNodes : m # bx => s1.pendings[m] \cap Controls \subseteq s0.pendings[m]
      BY <1>5, <1>6, <2>1, BehindEffect
    <3> QED BY <1>5, <1>6, <3>1
  <2>2. CASE ~NeedsProtection(s.kind[bx]) /\ s1 = s0
    <3>1. s0 \in StoreType
      BY <1>5 DEF StoreInv, Structure
    <3>2. IsNeeded(s0, x)
      BY <1>6, <2>2, <3>1, NeededFacts DEF NeedsProtection
    <3> QED BY <1>5, <1>6, <2>2, <3>2, GrowsReflexive
  <2> QED BY <1>2, <2>1, <2>2
<1>8. s1.kind[y] # "Free" /\ Base(s1, y) = by
  BY <1>1, <1>3, <1>6, <1>7 DEF Grows, Evolves
<1>9. c \notin s1.pendings[by] \/ IsNeeded(s1, y)
  <2>1. CASE bx = by
    <3>1. Base(s1, x) = Base(s1, y)
      BY <1>1, <1>2, <1>3, <1>7, <2>1
    <3> QED BY <1>7, <3>1 DEF IsNeeded
  <2>2. CASE bx # by
    BY <1>7, <2>2
  <2> QED BY <2>1, <2>2
<1>10. Evolves(s, s1)
  BY <1>5, <1>7, EvolvesTransitive
<1>11. CASE s2 = Behind(s1, y, c)
  <2>1. /\ StoreInv(s2) /\ Grows(s1, s2)
        /\ \A m \in AllNodes : Base(s2, m) = Base(s1, m)
        /\ s2.kind[c] = "Variable"
        /\ NeedsProtection(s1.kind[by]) => Hangs(s2, y, c)
    BY <1>7, <1>8, <1>9, <1>11, BehindEffect
  <2>2. NeedsProtection(s.kind[by]) => NeedsProtection(s1.kind[by])
    <3>1. CASE s1 = s0
      BY <1>6, <3>1
    <3>2. CASE s1 = Behind(s0, x, c)
      <4>1. PICK sm : sm = MarkNeeded(s0, x)
        OBVIOUS
      <4>2. /\ StoreInv(sm) /\ \A m \in AllNodes : Base(sm, m) = Base(s0, m)
            /\ sm.kind[by] = s0.kind[by] \/ (sm.kind[by] = "Variable" /\ s0.kind[by] = "OptVar")
            /\ sm.kind[c] = "Variable"
        BY <1>1, <1>3, <1>5, <1>6, <4>1, MarkNeededEffect
      <4>3. s1 = AddToSuspendList(sm, x, c)
        BY <3>2, <4>1 DEF Behind
      <4>4. PICK bm \in AllNodes : bm = Base(sm, x)
        BY <1>1, <4>2, BaseFacts
      <4>5. CASE by = bm
        <5>1. NeedsProtection(sm.kind[by]) => Hangs(s1, x, c)
          BY <1>1, <4>2, <4>3, <4>4, <4>5, AddToSuspendListEffect DEF Wakeables
        <5>2. Base(s1, x) = by
          BY <1>1, <1>2, <1>6, <1>7, <4>2, <4>4, <4>5
        <5> QED BY <1>6, <4>2, <5>1, <5>2 DEF Hangs, NeedsProtection, Unbound
      <4>6. CASE by # bm
        <5>1. s1.kind[by] = sm.kind[by]
          BY <1>1, <4>2, <4>3, <4>4, <4>6, AddToSuspendListEffect DEF Wakeables
        <5> QED BY <1>6, <4>2, <5>1 DEF NeedsProtection, Unbound
      <4> QED BY <4>5, <4>6
    <3> QED BY <3>1, <3>2
  <2>3. Evolves(s, s2)
    BY <1>7, <1>10, <2>1, EvolvesTransitive
  <2>4. NeedsProtection(s.kind[bx]) => Hangs(s2, x, c)
    BY <1>7, <2>1 DEF Grows, Evolves
  <2>5. IsNeeded(s2, x)
    <3>1. s1.kind[x] # "Free"
      BY <1>1, <1>6, <1>7 DEF Grows, Evolves
    <3> QED BY <1>7, <2>1, <3>1 DEF Grows, Evolves
  <2> QED BY <1>2, <1>3, <1>7, <2>1, <2>2, <2>3, <2>4, <2>5
<1>12. CASE ~NeedsProtection(s.kind[by]) /\ s2 = s1
  BY <1>2, <1>3, <1>7, <1>10, <1>12
<1> QED BY <1>3, <1>11, <1>12

\* An equality test that suspends does so behind both operands.
LEMMA EqualsSuspendsStep ==
    ASSUME IInv, NEW t \in Threads, running = t, NEW r \in Requests, r.op = "equals",
           Operands(store, r), KindOf(store, r.on) # "FailedValue", EqualsSuspends(t, r),
           \E n \in {r.on, r.with} : NeedsProtection(store.kind[Base(store, n)])
    PROVE  Outcome(t, r)
<1>1. StoreInv(store)
  BY DEF IInv
<1>2. /\ r.on \in Visible /\ r.with \in Visible /\ r.on \in AllNodes /\ r.with \in AllNodes
      /\ store.kind[r.on] # "Free" /\ store.kind[r.with] # "Free"
  BY RequestTypes DEF Operands
<1>3. PICK c : c = NextControl
  OBVIOUS
<1>4. c \in Controls /\ store.kind[c] \in {"Free", "Value"}
  <2>1. FreeControls # {}
    BY DEF EqualsSuspends
  <2>2. c \in FreeControls
    BY <1>3, <2>1 DEF NextControl
  <2> QED BY <2>2 DEF FreeControls
<1>5. PICK s0 : s0 = NewControl(store, c)
  OBVIOUS
<1>6. PICK s1 : s1 = IF IsVar(r.on) THEN Behind(s0, r.on, c) ELSE s0
  OBVIOUS
<1>7. PICK s2 : s2 = IF IsVar(r.with) THEN Behind(s1, r.with, c) ELSE s1
  OBVIOUS
<1>8. IF t \in RaiseOnBlock THEN RaiseNow(t, Wake(s2, {c})) ELSE WaitBefore(t, r, c, FALSE, s2)
  BY <1>3, <1>5, <1>6, <1>7 DEF EqualsSuspends, NewControl
<1>9. /\ KindOf(store, r.on) \in Transient \ {"FailedValue"} <=> NeedsProtection(store.kind[Base(store, r.on)])
      /\ KindOf(store, r.with) \in Transient \ {"FailedValue"} <=> NeedsProtection(store.kind[Base(store, r.with)])
  BY <1>1, <1>2, ProtectedBase
<1>10. /\ s1 = Behind(s0, r.on, c) \/ (~NeedsProtection(store.kind[Base(store, r.on)]) /\ s1 = s0)
       /\ s2 = Behind(s1, r.with, c) \/ (~NeedsProtection(store.kind[Base(store, r.with)]) /\ s2 = s1)
  BY <1>6, <1>7, <1>9 DEF IsVar
<1>11. /\ StoreInv(s2) /\ Evolves(store, s2)
       /\ \A m \in AllNodes : Base(s2, m) = Base(store, m)
       /\ s2.kind[c] = "Variable"
       /\ IsNeeded(s2, r.on)
       /\ NeedsProtection(store.kind[Base(store, r.on)]) => Hangs(s2, r.on, c)
       /\ NeedsProtection(store.kind[Base(store, r.with)]) => Hangs(s2, r.with, c)
  BY <1>1, <1>2, <1>4, <1>5, <1>10, EqualsStores
<1>12. CASE t \in RaiseOnBlock
  <2>1. PICK list : list = {c}
    OBVIOUS
  <2>2. PICK s3 : s3 = Wake(s2, list)
    OBVIOUS
  <2>3. StoreInv(s3) /\ Grows(s2, s3)
    BY <1>4, <1>11, <2>1, <2>2, WakeControlEffect
  <2>4. Evolves(store, s3)
    BY <1>1, <1>11, <2>3, EvolvesTransitive
  <2>5. RaiseNow(t, s3)
    BY <1>8, <1>12, <2>1, <2>2
  <2> QED BY <1>12, <2>3, <2>4, <2>5, RaiseOutcome
<1>13. CASE t \notin RaiseOnBlock
  <2>1. c \in AllNodes /\ c \notin Visible
    BY <1>4, NodeSets
  <2>2. Base(s2, c) = c /\ KindOf(s2, c) = "Variable"
    BY <1>4, <1>11, <2>1, BaseFacts DEF KindOf, Deref
  <2>3. PICK s3 : s3 = MarkNeeded(s2, c)
    OBVIOUS
  <2>4. Suspend(t, r, c, s3)
    BY <1>8, <1>13, <2>2, <2>3 DEF WaitBefore
  <2>5. c \notin s2.pendings[c]
    <3>1. s2.pendings[c] \subseteq Threads
      BY <1>4, <1>11 DEF StoreInv, Structure, ControlLists
    <3> QED BY <2>1, <3>1, NodeSets
  <2>6. /\ StoreInv(s3) /\ Grows(s2, s3)
        /\ \A m \in AllNodes : Base(s3, m) = Base(s2, m)
        /\ s3.kind[c] = "Variable"
    BY <1>4, <1>11, <2>1, <2>2, <2>3, <2>5, MarkNeededEffect
  <2>7. PICK s4 : s4 = AddToSuspendList(s3, c, t)
    OBVIOUS
  <2>8. t \in Wakeables /\ t \notin Controls
    BY NodeSets DEF Wakeables
  <2>9. Base(s3, c) = c /\ NeedsProtection(s3.kind[Base(s3, c)])
    BY <2>1, <2>2, <2>6 DEF NeedsProtection, Unbound
  <2>10. /\ StoreInv(s4) /\ Grows(s3, s4)
         /\ \A m \in AllNodes : Base(s4, m) = Base(s3, m)
         /\ Hangs(s4, c, t)
         /\ \A m \in AllNodes : IsNeeded(s4, m) <=> IsNeeded(s3, m)
    BY <2>1, <2>6, <2>7, <2>8, <2>9, AddToSuspendListEffect
  <2>11. Evolves(store, s3) /\ Evolves(store, s4)
    BY <1>1, <1>11, <2>6, <2>10, EvolvesTransitive
  <2>12. Grows(s2, s4)
    BY <1>11, <2>6, <2>10, EvolvesTransitive DEF Grows
  <2>13. s4.kind[c] = "Variable"
    <3>1. Base(s4, c) = c /\ s4.kind[c] \in {"Free", "Variable", "Value"}
      BY <1>4, <2>1, <2>9, <2>10 DEF StoreInv, Structure, ControlLists
    <3> QED BY <2>10, <3>1 DEF Hangs, Unbound
  <2>14. ASSUME NEW n \in {r.on, r.with}, NeedsProtection(s4.kind[Base(s4, n)])
         PROVE  Hangs(s4, n, c)
    <3>1. n \in Visible /\ n \in AllNodes /\ store.kind[n] # "Free"
      BY <1>2
    <3>2. PICK b \in AllNodes : b = Base(store, n) /\ b = Base(s4, n)
      BY <1>1, <1>11, <2>6, <2>10, <3>1, BaseFacts
    <3>3. store.kind[b] \notin {"Reference", "ReadOnly", "Free"}
      <4>1. store.kind[Base(store, n)] \notin {"Reference", "ReadOnly"} /\ store.kind[Base(store, n)] # "Free"
        BY <1>1, <3>1, BaseFacts
      <4> QED BY <3>2, <4>1
    <3>4. store.kind[b] \notin {"Value", "FailedValue"}
      <4>1. ASSUME store.kind[b] \in {"Value", "FailedValue"} PROVE s4.kind[b] = store.kind[b]
        <5>1. Evolves(store, s4) /\ n \in Visible /\ b = Base(store, n)
          BY <2>11, <3>1, <3>2
        <5> QED BY <4>1, <5>1, DeterminedStays
      <4> QED BY <2>14, <3>2, <4>1 DEF NeedsProtection, Unbound
    <3>5. NeedsProtection(store.kind[b])
      <4>1. store.kind[b] \in Kinds
        BY <1>1 DEF StoreInv, Structure, StoreType
      <4> QED BY <3>3, <3>4, <4>1 DEF Kinds, Transient, NeedsProtection
    <3>6. Hangs(s2, n, c)
      BY <1>11, <3>2, <3>5
    <3> QED BY <1>4, <2>12, <2>13, <3>1, <3>6 DEF Grows, Evolves
  <2>15. Waits(s4, t, r, c)
    <3>1. PICK n \in {r.on, r.with} : NeedsProtection(store.kind[Base(store, n)])
      OBVIOUS
    <3>2. n \in Visible /\ Hangs(s2, n, c)
      BY <1>2, <1>11, <3>1
    <3>3. Hangs(s4, n, c)
      BY <1>4, <2>12, <2>13, <3>2 DEF Grows, Evolves
    <3> QED BY <1>4, <2>1, <2>10, <2>14, <3>3 DEF Waits
  <2>16. /\ IInv' /\ Promise!Monotonic /\ doing'[t] = r
         /\ \A u \in Threads \ {t} : doing'[u] = doing[u]
         /\ store'.kind = s4.kind
         /\ \A m \in AllNodes : IsNeeded(store', m) <=> IsNeeded(s4, m)
    BY <2>1, <2>4, <2>6, <2>7, <2>10, <2>11, <2>15, SuspendStep
  <2>17. r.on \in NeedsOf(store')
    <3>1. s2.kind[r.on] # "Free"
      BY <1>2, <1>11 DEF Evolves
    <3>2. IsNeeded(s4, r.on) /\ s4.kind[r.on] # "Free"
      BY <1>2, <1>11, <2>12, <3>1 DEF Grows, Evolves
    <3> QED BY <1>2, <2>16, <3>2 DEF NeedsOf
  <2>18. Asked(r)
    BY <2>17 DEF Asked
  <2> QED BY <2>16, <2>18 DEF Outcome
<1> QED BY <1>12, <1>13

\* Value.'==' suspends or goes on rightly.
LEMMA EqualsStep ==
    ASSUME IInv, NEW t \in Threads, running = t, NEW r \in Requests, r.op = "equals",
           Operands(store, r), Equals(t, r)
    PROVE  Outcome(t, r)
<1>1. StoreInv(store) /\ Evolves(store, store)
  BY GrowsReflexive DEF IInv, Grows
<1>2. /\ r.on \in Visible /\ r.with \in Visible /\ r.on \in AllNodes /\ r.with \in AllNodes
      /\ store.kind[r.on] # "Free" /\ store.kind[r.with] # "Free"
  BY RequestTypes DEF Operands
<1>3. PICK d, e : d = Deref(store, r.on) /\ e = Deref(store, r.with)
  OBVIOUS
<1>4. /\ store.kind[d] \in (Transient \cup {"Value"}) /\ KindOf(store, r.on) = store.kind[d]
      /\ Base(store, d) = Base(store, r.on)
      /\ store.kind[d] # "ReadOnly" => Base(store, r.on) = d
  BY <1>1, <1>2, <1>3, OperandFacts
<1>5. /\ store.kind[e] \in (Transient \cup {"Value"}) /\ KindOf(store, r.with) = store.kind[e]
      /\ Base(store, e) = Base(store, r.with)
      /\ store.kind[e] # "ReadOnly" => Base(store, r.with) = e
  BY <1>1, <1>2, <1>3, OperandFacts
<1>6. PICK f : f = IF IsVar(r.on) THEN r.on ELSE r.with
  OBVIOUS
<1>7. CASE d = e \/ ~IsVar(f)
  <2>1. Proceed(t, store)
    BY <1>3, <1>6, <1>7 DEF Equals, IsSameNode
  <2>2. Satisfied(r)
    <3>1. CASE d = e
      <4>1. Base(store, r.on) = Base(store, r.with)
        BY <1>4, <1>5, <3>1
      <4> QED BY <4>1 DEF Satisfied
    <3>2. CASE ~IsVar(f)
      <4>1. store.kind[d] = "Value" /\ store.kind[e] = "Value"
        BY <1>4, <1>5, <1>6, <3>2 DEF IsVar
      <4>2. Known(store, r.on) /\ Known(store, r.with)
        BY <1>4, <1>5, <4>1 DEF Known
      <4> QED BY <4>2 DEF Satisfied
    <3> QED BY <1>7, <3>1, <3>2
  <2> QED BY <1>1, <2>1, <2>2, ProceedOutcome
<1>8. CASE ~(d = e) /\ IsVar(f) /\ KindOf(store, f) = "FailedValue"
  <2>1. RaiseNow(t, store)
    BY <1>3, <1>6, <1>8 DEF Equals, IsSameNode
  <2>2. Satisfied(r)
    <3>1. CASE IsVar(r.on)
      <4>1. store.kind[Base(store, r.on)] = "FailedValue"
        BY <1>4, <1>6, <1>8, <3>1
      <4> QED BY <4>1 DEF Satisfied
    <3>2. CASE ~IsVar(r.on)
      <4>1. store.kind[d] = "Value" /\ store.kind[e] = "FailedValue"
        BY <1>4, <1>5, <1>6, <1>8, <3>2 DEF IsVar
      <4>2. Known(store, r.on) /\ Known(store, r.with)
        BY <1>4, <1>5, <4>1 DEF Known
      <4> QED BY <4>2 DEF Satisfied
    <3> QED BY <3>1, <3>2
  <2> QED BY <1>1, <2>1, <2>2, RaiseOutcome
<1>9. CASE ~(d = e) /\ IsVar(f) /\ KindOf(store, f) # "FailedValue"
  <2>1. EqualsSuspends(t, r)
    BY <1>3, <1>6, <1>9 DEF Equals, IsSameNode
  <2>2. KindOf(store, r.on) # "FailedValue"
    BY <1>4, <1>6, <1>9 DEF IsVar, Transient
  <2>3. NeedsProtection(store.kind[Base(store, f)]) /\ f \in {r.on, r.with}
    <3>1. f \in Visible /\ store.kind[f] # "Free" /\ KindOf(store, f) \in Transient \ {"FailedValue"}
      BY <1>2, <1>6, <1>9 DEF IsVar
    <3> QED BY <1>1, <1>6, <3>1, ProtectedBase
  <2> QED BY <2>1, <2>2, <2>3, EqualsSuspendsStep
<1> QED BY <1>7, <1>8, <1>9

-----------------------------------------------------------------------------
(* Unification *)

\* The bases that a step leaves.
LEMMA BasesLeft ==
    ASSUME NEW s, StoreInv(s), store' = [s EXCEPT !.woken = {}]
    PROVE  \A m \in AllNodes : Base(store', m) = Base(s, m)
<1>1. PICK s2 : s2 = store'
  OBVIOUS
<1>2. s2 = [s EXCEPT !.woken = {}]
  BY <1>1
<1>3. \A m \in AllNodes : Base(s2, m) = Base(s, m)
  BY <1>2, ResetEffect
<1> QED BY <1>1, <1>3

\* A variable that gets bound, but not to a view of itself, is bound to another one.
LEMMA NoOwnView ==
    ASSUME StoreInv(store), ~BindsToOwnView, NEW t, NEW n \in Nodes, NeedsProtection(store.kind[n]),
           NEW src \in AllNodes, store.kind[src] # "Reference", src # n,
           Proceed(t, Bind(store, n, src))
    PROVE  Base(store, src) # n
<1> SUFFICES ASSUME Base(store, src) = n PROVE BindsToOwnView
  OBVIOUS
<1>1. store \in StoreType /\ LinksLead(store) /\ Acyclic(store)
  BY DEF StoreInv, Structure
<1>2. Deref(store, src) = src
  BY <1>1, DerefFacts
<1>3. store.kind[src] = "ReadOnly"
  BY <1>2 DEF Base
<1>4. src \in Nodes
  BY <1>1, <1>3 DEF LinksLead
<1>5. PICK s : s = Bind(store, n, src)
  OBVIOUS
<1>6. Shaped(s) /\ s.kind[n] = "Reference" /\ s.link[n] = src
  BY <1>1, <1>5, TypedIsShaped, BindStays
<1>7. PICK K, L, N, P, W : s \in StoresOf(K, L, N, P, W)
  BY <1>6, Zenon DEF Shaped
<1>8. store' = [s EXCEPT !.woken = {}]
  BY <1>5 DEF Proceed, Update
<1>9. store'.kind[n] = "Reference" /\ store'.link[n] = src
  BY <1>6, <1>7, <1>8 DEF StoresOf
<1> QED BY <1>3, <1>4, <1>9 DEF BindsToOwnView

\* unify suspends or goes on rightly, and then its operands are equal.
LEMMA UnifyStep ==
    ASSUME IInv, ~BindsToOwnView, NEW t \in Threads, running = t, NEW r \in Requests,
           r.op = "unify", Operands(store, r), Unify(t, r)
    PROVE  Outcome(t, r)
<1>1. StoreInv(store) /\ Evolves(store, store)
  BY GrowsReflexive DEF IInv, Grows
<1>2. /\ r.on \in Visible /\ r.with \in Visible /\ r.on \in AllNodes /\ r.with \in AllNodes
      /\ r.on \in Nodes /\ r.with \in Nodes
      /\ store.kind[r.on] # "Free" /\ store.kind[r.with] # "Free"
  BY RequestTypes DEF Operands
<1>3. PICK d, e : d = Deref(store, r.on) /\ e = Deref(store, r.with)
  OBVIOUS
<1>4. /\ store.kind[d] \in (Transient \cup {"Value"}) /\ KindOf(store, d) = store.kind[d]
      /\ d \in Visible /\ d \in AllNodes
      /\ Base(store, d) = Base(store, r.on)
      /\ store.kind[d] # "ReadOnly" => Base(store, r.on) = d
      /\ store.kind[d] = "ReadOnly" => store.kind[Base(store, r.on)] \in Unbound
      /\ store.kind[d] # "Value" => d \in Nodes
      /\ d \in Referable(store)
  BY <1>1, <1>2, <1>3, OperandFacts
<1>5. /\ store.kind[e] \in (Transient \cup {"Value"}) /\ KindOf(store, e) = store.kind[e]
      /\ e \in Visible /\ e \in AllNodes
      /\ Base(store, e) = Base(store, r.with)
      /\ store.kind[e] # "ReadOnly" => Base(store, r.with) = e
      /\ store.kind[e] = "ReadOnly" => store.kind[Base(store, r.with)] \in Unbound
      /\ store.kind[e] # "Value" => e \in Nodes
      /\ e \in Referable(store)
  BY <1>1, <1>2, <1>3, OperandFacts
<1>6. PICK n : n = IF BindsLeft(d, e) THEN d ELSE e
  OBVIOUS
<1>7. PICK src : src = IF BindsLeft(d, e) THEN e ELSE d
  OBVIOUS
<1>8. {n, src} = {d, e}
  BY <1>6, <1>7
<1>9. CASE d = e
  <2>1. Proceed(t, store)
    BY <1>3, <1>9 DEF Unify, IsSameNode
  <2>2. store' = [store EXCEPT !.woken = {}]
    BY <2>1 DEF Proceed, Update
  <2>3. Base(store', r.on) = Base(store', r.with)
    BY <1>1, <1>2, <1>4, <1>5, <1>9, <2>2, BasesLeft
  <2>4. Satisfied(r)
    BY <2>3 DEF Satisfied
  <2> QED BY <1>1, <2>1, <2>4, ProceedOutcome
<1>10. CASE d # e /\ store.kind[n] \in {"OptVar", "Variable"}
  <2>1. PICK s : s = Bind(store, n, src)
    OBVIOUS
  <2>2. Proceed(t, s)
    BY <1>3, <1>6, <1>7, <1>10, <2>1 DEF Unify, IsSameNode
  <2>3. n \in Nodes /\ NeedsProtection(store.kind[n]) /\ Base(store, n) = n
    BY <1>4, <1>5, <1>6, <1>10 DEF NeedsProtection, Unbound
  <2>4. src \in Referable(store) /\ store.kind[src] # "Reference"
    BY <1>4, <1>5, <1>7 DEF Transient, Unbound
  <2>5. Base(store, src) # n
    BY <1>1, <1>4, <1>5, <1>6, <1>7, <1>10, <2>1, <2>2, <2>3, <2>4, NoOwnView
  <2>6. /\ StoreInv(s) /\ Grows(store, s)
        /\ \A m \in AllNodes : Base(s, m) = IF Base(store, m) = n THEN Base(store, src) ELSE Base(store, m)
    BY <1>1, <2>1, <2>3, <2>4, <2>5, BindEffect
  <2>7. Base(s, r.on) = Base(s, r.with)
    <3>1. CASE n = d /\ src = e
      <4>1. Base(store, r.on) = n /\ Base(store, r.with) = Base(store, src) /\ Base(store, src) # n
        BY <1>4, <1>5, <2>3, <2>5, <3>1
      <4> QED BY <1>2, <2>6, <4>1
    <3>2. CASE n = e /\ src = d
      <4>1. Base(store, r.with) = n /\ Base(store, r.on) = Base(store, src) /\ Base(store, src) # n
        BY <1>4, <1>5, <2>3, <2>5, <3>2
      <4> QED BY <1>2, <2>6, <4>1
    <3> QED BY <1>6, <1>7, <3>1, <3>2
  <2>8. store' = [s EXCEPT !.woken = {}]
    BY <2>2 DEF Proceed, Update
  <2>9. Base(store', r.on) = Base(store', r.with)
    BY <1>2, <2>6, <2>7, <2>8, BasesLeft
  <2>10. Satisfied(r)
    BY <2>9 DEF Satisfied
  <2> QED BY <2>2, <2>6, <2>10, ProceedOutcome DEF Grows
<1>11. CASE d # e /\ store.kind[n] \in {"ReadOnlyVariable", "ReadOnly"}
  <2>1. PICK w : w = Base(store, n)
    OBVIOUS
  <2>2. WaitBefore(t, r, w, FALSE, store)
    BY <1>3, <1>6, <1>7, <1>11, <2>1 DEF Unify, IsSameNode
  <2>3. n \in Visible /\ n \in AllNodes /\ store.kind[w] \in Unbound
    BY <1>4, <1>5, <1>6, <1>11, <2>1 DEF Unbound
  <2>4. w \in Visible /\ w \in AllNodes /\ Base(store, w) = w
    BY <1>1, <2>1, <2>3, BaseFacts
  <2>5. KindOf(store, w) # "FailedValue" /\ store.kind[w] # "Free"
    BY <2>3 DEF KindOf, Deref, Unbound
  <2>6. CASE RaiseNow(t, store) /\ t \in RaiseOnBlock
    BY <1>1, <2>6, RaiseOutcome
  <2>7. CASE Suspend(t, r, w, MarkNeeded(store, w))
    <3>1. PICK s : s = MarkNeeded(store, w)
      OBVIOUS
    <3>2. NeedsProtection(store.kind[Base(store, w)])
      BY <2>3, <2>4 DEF NeedsProtection
    <3>3. /\ IInv' /\ Promise!Monotonic /\ doing'[t] = r
          /\ \A u \in Threads \ {t} : doing'[u] = doing[u]
      BY <2>4, <2>5, <2>7, <3>1, <3>2, SuspendOn
    <3>4. Asked(r)
      BY DEF Asked
    <3> QED BY <3>3, <3>4 DEF Outcome
  <2> QED BY <2>2, <2>5, <2>6, <2>7 DEF WaitBefore
<1>12. CASE d # e /\ store.kind[n] \in {"FailedValue", "Value"}
  <2>1. RaiseNow(t, store)
    BY <1>3, <1>6, <1>7, <1>12 DEF Unify, IsSameNode
  <2>2. store.kind[d] \in {"Value", "FailedValue"} /\ store.kind[e] \in {"Value", "FailedValue"}
    <3>1. IsVar(d) <=> store.kind[d] # "Value"
      BY <1>4 DEF IsVar, Transient, Unbound
    <3>2. IsVar(e) <=> store.kind[e] # "Value"
      BY <1>5 DEF IsVar, Transient, Unbound
    <3>3. CASE BindsLeft(d, e)
      <4>1. store.kind[d] = "FailedValue"
        BY <1>6, <1>12, <3>1, <3>3 DEF BindsLeft
      <4>2. ASSUME store.kind[e] # "Value" PROVE FALSE
        <5>1. BindingPriority(store.kind[d]) > BindingPriority(store.kind[e])
          BY <3>2, <3>3, <4>2 DEF BindsLeft
        <5>2. BindingPriority(store.kind[d]) = 10
          BY <4>1 DEF BindingPriority
        <5>3. BindingPriority(store.kind[e]) \in {10, 80, 90, 100}
          BY <1>5, <4>2 DEF BindingPriority, Transient, Unbound
        <5> QED BY <5>1, <5>2, <5>3
      <4> QED BY <4>1, <4>2
    <3>4. CASE ~BindsLeft(d, e)
      <4>1. store.kind[e] \in {"Value", "FailedValue"}
        BY <1>6, <1>12, <3>4
      <4>2. ASSUME store.kind[d] \notin {"Value", "FailedValue"} PROVE FALSE
        <5>1. IsVar(d)
          BY <3>1, <4>2
        <5>2. store.kind[e] = "FailedValue" /\ ~(BindingPriority(store.kind[d]) > BindingPriority(store.kind[e]))
          BY <3>2, <3>4, <4>1, <5>1 DEF BindsLeft
        <5>3. BindingPriority(store.kind[e]) = 10
          BY <5>2 DEF BindingPriority
        <5>4. BindingPriority(store.kind[d]) \in {80, 90, 100}
          BY <1>4, <4>2 DEF BindingPriority, Transient, Unbound
        <5> QED BY <5>2, <5>3, <5>4
      <4> QED BY <4>1, <4>2
    <3> QED BY <3>3, <3>4
  <2>3. Known(store, r.on) /\ Known(store, r.with)
    BY <1>4, <1>5, <2>2 DEF Known
  <2>4. Satisfied(r)
    BY <2>3 DEF Satisfied
  <2> QED BY <1>1, <2>1, <2>4, RaiseOutcome
<1>13. store.kind[n] \in Transient \cup {"Value"}
  BY <1>4, <1>5, <1>6
<1> QED BY <1>9, <1>10, <1>11, <1>12, <1>13 DEF Transient, Unbound

\* So does every instruction that may block.
LEMMA PerformStep ==
    ASSUME IInv, ~BindsToOwnView, NEW t \in Threads, running = t, NEW r \in Requests,
           HasOperands(r), Perform(t, r)
    PROVE  Outcome(t, r) /\ Operands(store, r)
<1>1. Operands(store, r)
  BY DEF HasOperands, IsOperand, Operands
<1>2. CASE r.op = "wait"
  BY <1>1, <1>2, WaitStep DEF Perform
<1>3. CASE r.op = "waitQuiet"
  BY <1>1, <1>3, WaitQuietStep DEF Perform
<1>4. CASE r.op = "waitNeeded"
  BY <1>1, <1>4, WaitNeededStep DEF Perform
<1>5. CASE r.op = "equals"
  BY <1>1, <1>5, EqualsStep DEF Perform
<1>6. CASE r.op = "unify"
  BY <1>1, <1>6, UnifyStep DEF Perform
<1>7. r.op \in Blocking
  BY RequestTypes
<1> QED BY <1>1, <1>2, <1>3, <1>4, <1>5, <1>6, <1>7 DEF Blocking

-----------------------------------------------------------------------------
(* The promise *)

\* A step that neither changes the nodes nor what threads wait for.
LEMMA QuietStep ==
    ASSUME IInv, store' = store, doing' = doing, waitee' = waitee,
           runnable \subseteq runnable', terminated \subseteq terminated', ThreadTypes'
    PROVE  IInv' /\ Promise!Monotonic
<1>1. StoreInv(store) /\ Evolves(store, store) /\ store.woken = {}
  BY GrowsReflexive DEF IInv, Grows
<1>2. store' = [store EXCEPT !.woken = {}]
  BY <1>1 DEF StoreInv, Structure, StoreType
<1>3. Promise!Monotonic
  BY <1>1, <1>2, StoreIsMonotonic
<1>4. KnownOperands'
  BY DEF IInv, KnownOperands
<1>5. WaitingRightly'
  <2> SUFFICES ASSUME NEW t \in Threads, Blocked(t)'
               PROVE  doing'[t] # None /\ Waits(store', t, doing'[t], waitee'[t])
    BY DEF WaitingRightly
  <2>1. Blocked(t)
    BY DEF Blocked
  <2> QED BY <2>1 DEF IInv, WaitingRightly
<1>6. StoreInv(store') /\ store'.woken = {}
  BY <1>1
<1> QED BY <1>3, <1>4, <1>5, <1>6 DEF IInv

\* Waiting for a value makes it needed.
LEMMA AskedAsks ==
    ASSUME NEW t \in Threads, NEW r \in Requests, doing[t] = None, doing'[t] = r, Asked(r)
    PROVE  Promise!Ask(t)
<1>1. PICK s1 : s1 = store
  OBVIOUS
<1>2. PICK s2 : s2 = store'
  OBVIOUS
<1>3. PICK N1 : N1 = [n \in Visible |-> store.kind[n] # "Free" /\ IsNeeded(store, n)]
  OBVIOUS
<1>4. PICK N2 : N2 = [n \in Visible |-> store.kind[n] # "Free" /\ IsNeeded(store, n)]'
  OBVIOUS
<1>5. N1 = [n \in Visible |-> s1.kind[n] # "Free" /\ IsNeeded(s1, n)]
  BY <1>1, <1>3
<1>6. N2 = [n \in Visible |-> s2.kind[n] # "Free" /\ IsNeeded(s2, n)]
  BY <1>2, <1>4
<1>7. /\ r.op \in {"wait", "equals"} => r.on \in NeedsOf(s2)
      /\ r.op \in {"waitQuiet", "waitNeeded"} => NeedsOf(s2) = NeedsOf(s1)
  BY <1>1, <1>2 DEF Asked
<1>8. r.op \in {"wait", "equals"} => N2[r.on]
  BY <1>6, <1>7 DEF NeedsOf
<1>9. r.op \in {"waitQuiet", "waitNeeded"} => N2 = N1
  <2> SUFFICES ASSUME r.op \in {"waitQuiet", "waitNeeded"} PROVE N2 = N1
    OBVIOUS
  <2>1. \A n \in Visible : (s2.kind[n] # "Free" /\ IsNeeded(s2, n)) <=> (s1.kind[n] # "Free" /\ IsNeeded(s1, n))
    BY <1>7 DEF NeedsOf
  <2>2. \A n \in Visible : (s2.kind[n] # "Free" /\ IsNeeded(s2, n)) = (s1.kind[n] # "Free" /\ IsNeeded(s1, n))
    BY <2>1
  <2> QED BY <1>5, <1>6, <2>2, Zenon
<1>10. doing'[t] \in Requests
  OBVIOUS
<1>11. r.op \in {"wait", "equals"} => ([n \in Visible |-> store.kind[n] # "Free" /\ IsNeeded(store, n)]')[r.on]
  BY <1>4, <1>8, Zenon
<1>12. r.op \in {"waitQuiet", "waitNeeded"} =>
          [n \in Visible |-> store.kind[n] # "Free" /\ IsNeeded(store, n)]'
            = [n \in Visible |-> store.kind[n] # "Free" /\ IsNeeded(store, n)]
  BY <1>3, <1>4, <1>9, Zenon
<1> QED BY <1>10, <1>11, <1>12, Zenon DEF Promise!Ask

\* A thread goes on only when its request is satisfied, or it is interrupted.
LEMMA SatisfiedGoesOn ==
    ASSUME IInv, NEW t \in Threads, NEW r \in Requests, Operands(store, r),
           doing[t] = r, doing'[t] = None, Satisfied(r) \/ t \in RaiseOnBlock \cup injected
    PROVE  Promise!GoOn(t)
<1>1. StoreInv(store)
  BY DEF IInv
<1>2. r # None /\ r.on \in Visible /\ r.on \in AllNodes /\ r.op \in Blocking
      /\ (r.op \in {"equals", "unify"} => r.with \in Visible /\ r.with \in AllNodes)
  BY RequestTypes
<1>3. CASE t \in RaiseOnBlock \cup injected
  BY <1>2, <1>3 DEF Promise!GoOn
<1>4. CASE Satisfied(r)
  <2>1. \A n \in Visible : [x \in Visible |-> Status(store, x)][n] = Status(store, n)
    OBVIOUS
  <2>2. \A n \in Visible : [x \in Visible |-> Base(store, x)][n] = Base(store, n)
    OBVIOUS
  <2>3. \A n \in Visible : ([x \in Visible |-> Base(store, x)]')[n] = Base(store', n)
    OBVIOUS
  <2>4. \A n \in AllNodes : Known(store, n) => Status(store, n) # "unknown"
    BY <1>1, StatusFacts DEF Known
  <2>5. \A n \in Visible : Known(store, n) => Promise!Determined(n)
    BY <2>1, <2>4, NodeSets DEF Promise!Determined
  <2>6. CASE r.op \in {"wait", "waitQuiet"}
    <3>1. Promise!Determined(r.on)
      BY <1>2, <1>4, <2>5, <2>6 DEF Satisfied
    <3>2. Promise!MustGoOn(r)
      BY <2>6, <3>1 DEF Promise!MustGoOn
    <3> QED BY <1>2, <3>2 DEF Promise!GoOn, Promise!MayGoOn
  <2>7. CASE r.op = "waitNeeded"
    <3>1. store.kind[r.on] # "Free" /\ IsNeeded(store, r.on)
      BY <1>4, <2>7 DEF Satisfied, Operands
    <3>2. [n \in Visible |-> store.kind[n] # "Free" /\ IsNeeded(store, n)][r.on]
      BY <1>2, <3>1
    <3>3. Promise!MustGoOn(r)
      BY <2>7, <3>2 DEF Promise!MustGoOn
    <3> QED BY <1>2, <3>3 DEF Promise!GoOn, Promise!MayGoOn
  <2>8. CASE r.op = "equals"
    <3>1. CASE Known(store, r.on) /\ Known(store, r.with)
      <4>1. Promise!MustGoOn(r)
        BY <1>2, <2>5, <2>8, <3>1 DEF Promise!MustGoOn, Promise!BothDetermined
      <4> QED BY <1>2, <4>1 DEF Promise!GoOn, Promise!MayGoOn
    <3>2. CASE Base(store, r.on) = Base(store, r.with)
      <4>1. Promise!MayGoOn(r)
        BY <1>2, <2>2, <2>8, <3>2 DEF Promise!MayGoOn
      <4> QED BY <1>2, <4>1 DEF Promise!GoOn
    <3>3. CASE store.kind[Base(store, r.on)] = "FailedValue"
      <4>1. Status(store, r.on) = "failed"
        BY <1>1, <1>2, <3>3, StatusFacts
      <4>2. Promise!MayGoOn(r)
        BY <1>2, <2>1, <2>8, <4>1 DEF Promise!MayGoOn
      <4> QED BY <1>2, <4>2 DEF Promise!GoOn
    <3> QED BY <1>4, <2>8, <3>1, <3>2, <3>3 DEF Satisfied
  <2>9. CASE r.op = "unify"
    <3>1. CASE Known(store, r.on) /\ Known(store, r.with)
      <4>1. Promise!MustGoOn(r)
        BY <1>2, <2>5, <2>9, <3>1 DEF Promise!MustGoOn, Promise!BothDetermined
      <4> QED BY <1>2, <4>1 DEF Promise!GoOn, Promise!MayGoOn
    <3>2. CASE Base(store', r.on) = Base(store', r.with)
      <4>1. Promise!MayGoOn(r)
        BY <1>2, <2>3, <2>9, <3>2 DEF Promise!MayGoOn
      <4> QED BY <1>2, <4>1 DEF Promise!GoOn
    <3> QED BY <1>4, <2>9, <3>1, <3>2 DEF Satisfied
  <2> QED BY <1>2, <2>6, <2>7, <2>8, <2>9 DEF Blocking
<1> QED BY <1>3, <1>4

-----------------------------------------------------------------------------
(* The steps *)

\* A step keeps the inductive invariant and is a step of the promise.
Advances == IInv' /\ Promise!Grows

\* One thread at a time asks, goes on, or does neither.
LEMMA OneThread ==
    ASSUME IInv', Promise!Monotonic, NEW t \in Threads,
           \A u \in Threads \ {t} : doing'[u] = doing[u],
           doing'[t] = doing[t] \/ Promise!Ask(t) \/ Promise!GoOn(t)
    PROVE  Advances
<1>1. \A u \in Threads : doing'[u] = doing[u] \/ Promise!Ask(u) \/ Promise!GoOn(u)
  OBVIOUS
<1> QED BY <1>1 DEF Advances, Promise!Grows

\* An instruction is started.
LEMMA StartAdvances ==
    ASSUME IInv, ~BindsToOwnView, NEW t \in Threads, NEW r \in Requests, Start(t, r)
    PROVE  Advances
<1>1. Outcome(t, r) /\ doing[t] = None
  BY PerformStep DEF Start, Executes
<1>2. CASE doing'[t] = r /\ Asked(r)
  <2>1. Promise!Ask(t)
    BY <1>1, <1>2, AskedAsks
  <2> QED BY <1>1, <2>1, OneThread DEF Outcome
<1>3. CASE doing'[t] = None
  BY <1>1, <1>3, OneThread DEF Outcome
<1> QED BY <1>1, <1>2, <1>3 DEF Outcome

\* An instruction is started again.
LEMMA RetryAdvances ==
    ASSUME IInv, ~BindsToOwnView, NEW t \in Threads, Retry(t)
    PROVE  Advances
<1>1. PICK r : r = doing[t]
  OBVIOUS
<1>2. r \in Requests
  BY <1>1 DEF Retry, IInv, ThreadTypes
<1>3. Outcome(t, r) /\ Operands(store, r)
  BY <1>1, <1>2, PerformStep DEF Retry
<1>4. CASE doing'[t] = r
  BY <1>1, <1>3, <1>4, OneThread DEF Outcome
<1>5. CASE doing'[t] = None /\ (Satisfied(r) \/ t \in RaiseOnBlock)
  <2>1. Promise!GoOn(t)
    BY <1>1, <1>2, <1>3, <1>5, SatisfiedGoesOn
  <2> QED BY <1>3, <2>1, OneThread DEF Outcome
<1> QED BY <1>3, <1>4, <1>5 DEF Outcome

\* A thread between two instructions that gets past one, with store s.
LEMMA ProceedAdvances ==
    ASSUME IInv, NEW t \in Threads, Executes(t), NEW s, StoreInv(s), Evolves(store, s), Proceed(t, s)
    PROVE  Advances
<1>1. running = t /\ doing[t] = None
  BY DEF Executes
<1>2. /\ IInv' /\ Promise!Monotonic /\ doing'[t] = None
      /\ \A u \in Threads \ {t} : doing'[u] = doing[u]
  BY <1>1, ProceedStep
<1> QED BY <1>1, <1>2, OneThread

\* A variable or value is made.
LEMMA CreateAdvances ==
    ASSUME IInv, NEW t \in Threads, NEW n \in Nodes, NEW kind \in Kinds, Create(t, n, kind)
    PROVE  Advances
<1>1. PICK s : s = [store EXCEPT !.kind[n] = kind]
  OBVIOUS
<1>2. /\ Executes(t) /\ store.kind[n] = "Free" /\ Proceed(t, s)
      /\ kind \in {"OptVar", "Value", "ReadOnlyVariable", "FailedValue"}
  BY <1>1 DEF Create, IsNext
<1>3. StoreInv(s) /\ Evolves(store, s)
  BY <1>1, <1>2, CreateEffect DEF IInv, Grows
<1> QED BY <1>2, <1>3, ProceedAdvances

\* A read-only view is made.
LEMMA MakeReadOnlyAdvances ==
    ASSUME IInv, NEW t \in Threads, NEW n \in Nodes, NEW x \in Visible, MakeReadOnly(t, n, x)
    PROVE  Advances
<1>1. PICK u : u = Deref(store, x)
  OBVIOUS
<1>2. StoreInv(store) /\ store \in StoreType /\ n \in AllNodes
  BY NodeSets DEF IInv, StoreInv, Structure
<1>3. /\ [[store EXCEPT !.link[n] = u] EXCEPT !.kind[n] = "ReadOnly"] = NewLink(store, n, u, "ReadOnly")
      /\ [[store EXCEPT !.link[n] = u] EXCEPT !.kind[n] = "Reference"] = NewLink(store, n, u, "Reference")
  BY <1>2 DEF StoreType, NewLink
<1>4. PICK s : s = IF NeedsProtection(store.kind[u])
                   THEN AddToSuspendList(NewLink(store, n, u, "ReadOnly"), u, n)
                   ELSE NewLink(store, n, u, "Reference")
  OBVIOUS
<1>5. Executes(t) /\ store.kind[n] = "Free" /\ store.kind[x] # "Free"
  BY DEF MakeReadOnly, IsNext, IsOperand
<1>6. Proceed(t, s)
  <2>1. CASE NeedsProtection(store.kind[u])
    BY <1>1, <1>3, <1>4, <2>1, Zenon DEF MakeReadOnly
  <2>2. CASE ~NeedsProtection(store.kind[u])
    BY <1>1, <1>3, <1>4, <2>2, Zenon DEF MakeReadOnly
  <2> QED BY <2>1, <2>2
<1>7. /\ NeedsProtection(store.kind[u]) => s = AddToSuspendList(NewLink(store, n, u, "ReadOnly"), u, n)
      /\ ~NeedsProtection(store.kind[u]) => s = NewLink(store, n, u, "Reference")
  BY <1>4
<1>8. StoreInv(s) /\ Grows(store, s)
  BY <1>1, <1>2, <1>5, <1>7, ReadOnlyEffect
<1>9. Evolves(store, s)
  BY <1>8 DEF Grows
<1> QED BY <1>5, <1>6, <1>8, <1>9, ProceedAdvances

\* Value.makeNeeded.
LEMMA MakeNeededAdvances ==
    ASSUME IInv, NEW t \in Threads, NEW x \in Visible, MakeNeeded(t, x)
    PROVE  Advances
<1>1. PICK s : s = MarkNeeded(store, x)
  OBVIOUS
<1>2. Executes(t) /\ store.kind[x] # "Free" /\ Proceed(t, s) /\ x \in AllNodes
  BY <1>1, NodeSets DEF MakeNeeded, IsOperand
<1>3. StoreInv(s) /\ Evolves(store, s)
  BY <1>1, <1>2, MarkNeededEffect DEF IInv, Grows
<1> QED BY <1>2, <1>3, ProceedAdvances

\* bindReadOnly binds or raises.
LEMMA BindReadOnlyAdvances ==
    ASSUME IInv, ~BindsToOwnView, NEW t \in Threads, NEW x \in Nodes, NEW y \in Nodes,
           BindReadOnly(t, x, y)
    PROVE  Advances
<1>1. PICK d, e : d = Deref(store, x) /\ e = Deref(store, y)
  OBVIOUS
<1>2. /\ Executes(t) /\ store.kind[x] # "Free" /\ store.kind[y] # "Free"
      /\ StoreInv(store) /\ x \in Visible /\ y \in Visible
  BY NodeSets DEF BindReadOnly, IsOperand, IInv
<1>3. CASE KindOf(store, x) = "ReadOnlyVariable"
  <2>1. PICK s : s = Bind(store, d, e)
    OBVIOUS
  <2>2. Proceed(t, s)
    BY <1>1, <1>3, <2>1 DEF BindReadOnly
  <2>3. store.kind[d] = "ReadOnlyVariable" /\ Base(store, x) = d /\ d \in Nodes
    BY <1>1, <1>2, <1>3, OperandFacts
  <2>4. e \in Referable(store) /\ e \in AllNodes /\ store.kind[e] \in Transient \cup {"Value"}
    BY <1>1, <1>2, OperandFacts
  <2>5. /\ store.kind[e] # "Reference" /\ d \in AllNodes
        /\ store.kind[d] \in Unbound /\ NeedsProtection(store.kind[d])
    BY <2>3, <2>4, NodeSets DEF Transient, Unbound, NeedsProtection
  <2>6. StoreInv(s) /\ Evolves(store, s)
    <3>1. CASE d = e
      BY <1>2, <2>1, <2>5, <3>1, BindToItself DEF Grows
    <3>2. CASE d # e
      <4>1. Base(store, e) # d
        BY <1>2, <2>1, <2>2, <2>3, <2>4, <2>5, <3>2, NoOwnView
      <4> QED BY <1>2, <2>1, <2>3, <2>4, <2>5, <4>1, BindEffect DEF Grows
    <3> QED BY <3>1, <3>2
  <2> QED BY <1>2, <2>2, <2>6, ProceedAdvances
<1>4. CASE KindOf(store, x) # "ReadOnlyVariable"
  <2>1. Raise(t, store) /\ injected' = injected /\ injections' = injections
    BY <1>4 DEF BindReadOnly, RaiseNow
  <2>2. t \in runnable /\ injected' \subseteq Threads /\ injections' \in 0..MaxInjections
    BY <1>2, <2>1, DataflowAssumption DEF IInv, ThreadTypes, Executes
  <2>3. Evolves(store, store)
    BY <1>2, GrowsReflexive DEF Grows
  <2>4. /\ IInv' /\ Promise!Monotonic /\ doing'[t] = None
        /\ \A u \in Threads \ {t} : doing'[u] = doing[u]
    BY <1>2, <2>1, <2>2, <2>3, RaiseStep
  <2> QED BY <1>2, <2>4, OneThread DEF Executes
<1> QED BY <1>3, <1>4

\* A step that changes neither nodes nor requests is a stutter of the promise.
LEMMA QuietAdvances ==
    ASSUME IInv, store' = store, doing' = doing, waitee' = waitee,
           runnable \subseteq runnable', terminated \subseteq terminated', ThreadTypes'
    PROVE  Advances
BY QuietStep DEF Advances, Promise!Grows

\* Thread.injectException resumes its thread.
LEMMA InjectExceptionAdvances ==
    ASSUME IInv, NEW t \in Threads, NEW u \in Threads, InjectException(t, u)
    PROVE  Advances
<1>1. ThreadTypes /\ store \in StoreType /\ store.woken = {}
  BY DEF IInv, StoreInv, Structure
<1>2. PICK s : s = [store EXCEPT !.woken = {u}]
  OBVIOUS
<1>3. s.woken = {u} /\ [s EXCEPT !.woken = {}] = store
  BY <1>1, <1>2 DEF StoreType
<1>4. store' = store /\ runnable' = runnable \cup {u} /\ ready' = ready \cup ({u} \ runnable)
  BY <1>2, <1>3 DEF InjectException, Update
<1>5. /\ running' = running /\ terminated' = terminated /\ doing' = doing /\ waitee' = waitee
      /\ injected' = injected \cup {u} /\ injections' = injections + 1
      /\ injections < MaxInjections
  BY DEF InjectException
<1>6. injections' \in 0..MaxInjections
  BY <1>1, <1>5, DataflowAssumption DEF ThreadTypes
<1>7. ThreadTypes'
  BY <1>1, <1>4, <1>5, <1>6, DataflowAssumption DEF ThreadTypes
<1> QED BY <1>4, <1>5, <1>7, QuietAdvances

\* A thread ends.
LEMMA ExitAdvances ==
    ASSUME IInv, NEW t \in Threads, Exit(t)
    PROVE  Advances
<1>1. ThreadTypes /\ StoreInv(store) /\ doing[t] = None
  BY DEF IInv, Exit, Executes
<1>2. Evolves(store, store)
  BY <1>1, GrowsReflexive DEF Grows
<1>3. /\ Terminate(t, store) /\ running' = None /\ doing' = doing /\ waitee' = waitee
      /\ injected' = injected /\ injections' = injections
  BY DEF Exit
<1>4. IInv' /\ Promise!Monotonic
  BY <1>1, <1>2, <1>3, TerminateStep DEF ThreadTypes
<1> QED BY <1>3, <1>4, OneThread

\* An injected exception gets its thread out of what it waits in.
LEMMA InterruptAdvances ==
    ASSUME IInv, NEW t \in Threads, Interrupt(t)
    PROVE  Advances
<1>1. /\ ThreadTypes /\ StoreInv(store) /\ KnownOperands /\ t \in injected /\ t \in runnable
      /\ Raise(t, store) /\ injected' \subseteq Threads /\ injections' \in 0..MaxInjections
  BY DEF IInv, ThreadTypes, Interrupt
<1>2. Evolves(store, store)
  BY <1>1, GrowsReflexive DEF Grows
<1>3. /\ IInv' /\ Promise!Monotonic /\ doing'[t] = None
      /\ \A u \in Threads \ {t} : doing'[u] = doing[u]
  BY <1>1, <1>2, RaiseStep
<1>4. CASE doing[t] = None
  BY <1>3, <1>4, OneThread
<1>5. CASE doing[t] # None
  <2>1. PICK r : r = doing[t]
    OBVIOUS
  <2>2. r \in Requests /\ Operands(store, r)
    BY <1>1, <1>5, <2>1 DEF ThreadTypes, KnownOperands
  <2>3. Promise!GoOn(t)
    BY <1>1, <1>3, <2>1, <2>2, SatisfiedGoesOn
  <2> QED BY <1>3, <2>3, OneThread
<1> QED BY <1>4, <1>5

\* The run loop alone changes no node and no request.
LEMMA RunLoopAdvances ==
    ASSUME IInv, NEW t \in Threads, Preempt(t) \/ Dispatch(t) \/ PassOver(t)
    PROVE  Advances
<1>1. ThreadTypes
  BY DEF IInv
<1>2. /\ store' = store /\ doing' = doing /\ waitee' = waitee /\ runnable' = runnable
      /\ terminated' = terminated /\ injected' = injected /\ injections' = injections
  BY DEF Preempt, Dispatch, PassOver
<1>3. ready' \subseteq runnable /\ running' \in runnable \cup {None} /\ running' \notin ready'
  <2>1. CASE Preempt(t)
    BY <1>1, <2>1, DataflowAssumption DEF Preempt, Executes, ThreadTypes
  <2>2. CASE Dispatch(t)
    BY <1>1, <2>2 DEF Dispatch, ThreadTypes
  <2>3. CASE PassOver(t)
    BY <1>1, <2>3 DEF PassOver, ThreadTypes
  <2> QED BY <2>1, <2>2, <2>3
<1>4. ThreadTypes'
  BY <1>1, <1>2, <1>3 DEF ThreadTypes
<1> QED BY <1>2, <1>4, QuietAdvances

\* Every step that does not bind a variable to a view of itself.
LEMMA NextAdvances ==
    ASSUME IInv, ~BindsToOwnView, Next
    PROVE  Advances
<1>1. ASSUME NEW t \in Threads, NEW r \in Requests, Start(t, r) PROVE Advances
  BY <1>1, StartAdvances
<1>2. ASSUME NEW t \in Threads, Retry(t) PROVE Advances
  BY <1>2, RetryAdvances
<1>3. ASSUME NEW t \in Threads, NEW n \in Nodes, NEW kind \in Kinds, Create(t, n, kind) PROVE Advances
  BY <1>3, CreateAdvances
<1>4. ASSUME NEW t \in Threads, NEW n \in Nodes, NEW x \in Visible, MakeReadOnly(t, n, x) PROVE Advances
  BY <1>4, MakeReadOnlyAdvances
<1>5. ASSUME NEW t \in Threads, NEW x \in Visible, MakeNeeded(t, x) PROVE Advances
  BY <1>5, MakeNeededAdvances
<1>6. ASSUME NEW t \in Threads, NEW x \in Nodes, NEW y \in Nodes, BindReadOnly(t, x, y) PROVE Advances
  BY <1>6, BindReadOnlyAdvances
<1>7. ASSUME NEW t \in Threads, NEW u \in Threads, InjectException(t, u) PROVE Advances
  BY <1>7, InjectExceptionAdvances
<1>8. ASSUME NEW t \in Threads, Exit(t) PROVE Advances
  BY <1>8, ExitAdvances
<1>9. ASSUME NEW t \in Threads, Preempt(t) \/ Dispatch(t) \/ PassOver(t) PROVE Advances
  BY <1>9, RunLoopAdvances
<1>10. ASSUME NEW t \in Threads, Interrupt(t) PROVE Advances
  BY <1>10, InterruptAdvances
<1> QED BY <1>1, <1>2, <1>3, <1>4, <1>5, <1>6, <1>7, <1>8, <1>9, <1>10, Zenon DEF Next

\* The store at the start.
LEMMA InitialStore ==
    ASSUME Init
    PROVE  /\ StoreInv(store) /\ store.woken = {}
           /\ \A n \in AllNodes : Base(store, n) = n
           /\ \A n \in AllNodes : store.kind[n] = IF n \in TerminationVars THEN "OptVar" ELSE "Free"
<1>1. PICK s : s = store
  OBVIOUS
<1>2. /\ s \in StoreType /\ s.woken = {}
      /\ \A n \in AllNodes : s.kind[n] = IF n \in TerminationVars THEN "OptVar" ELSE "Free"
      /\ \A n \in AllNodes : s.pendings[n] = {} /\ ~s.needed[n]
  BY <1>1 DEF Init, StoreType, Kinds, Transient
<1>3. Acyclic(s)
  <2>1. Linked(s)
    BY <1>2 DEF Linked
  <2>2. Ranks(s, [n \in AllNodes |-> 0])
    BY <1>2 DEF Ranks
  <2> QED BY <2>1, <2>2 DEF Acyclic
<1>4. LinksLead(s)
  BY <1>2 DEF LinksLead
<1>5. ControlLists(s) /\ TerminationKinds(s) /\ OnlyVariables(s)
  BY <1>2, NodeSets DEF ControlLists, TerminationKinds, OnlyVariables
<1>6. Views(s) = {}
  BY <1>2, NodeSets DEF Views
<1>7. StoreInv(s)
  BY <1>2, <1>3, <1>4, <1>5, <1>6 DEF StoreInv, Structure
<1>8. \A n \in AllNodes : Base(s, n) = n
  BY <1>2, <1>7, BaseFacts
<1> QED BY <1>1, <1>2, <1>7, <1>8

\* The initial states.
LEMMA InitIInv ==
    ASSUME Init
    PROVE  IInv
<1>1. StoreInv(store) /\ store.woken = {}
  BY InitialStore
<1>2. ThreadTypes
  BY DataflowAssumption DEF Init, ThreadTypes
<1>3. KnownOperands
  BY DEF Init, KnownOperands
<1>4. WaitingRightly
  BY DEF Init, WaitingRightly, Blocked
<1> QED BY <1>1, <1>2, <1>3, <1>4 DEF IInv

\* The inductive invariant gives the safety properties.
LEMMA IInvSuffices ==
    ASSUME IInv
    PROVE  TypeOK /\ NoLostWakeup /\ FuturesFollow /\ DereferenceEnds
<1>1. /\ StoreInv(store) /\ store.woken = {} /\ ThreadTypes /\ KnownOperands /\ WaitingRightly
      /\ store \in StoreType /\ Acyclic(store) /\ OnlyVariables(store)
      /\ \A r \in Views(store) : Listed(store, r)
  BY DEF IInv, StoreInv, Structure
<1>2. TypeOK
  BY <1>1 DEF TypeOK, StoreType, Wakeables, OnlyVariables, ThreadTypes
<1>3. \A n, w : HangsOn(n, w) <=> Hangs(store, n, w)
  BY DEF HangsOn, Hangs
<1>4. ASSUME NEW t \in Threads, Blocked(t)
      PROVE  /\ doing[t] # None
             /\ HangsOn(waitee[t], t)
             /\ doing[t].op = "waitNeeded" => ~IsNeeded(store, doing[t].on)
             /\ doing[t].op = "equals" =>
                   /\ waitee[t] \in Controls
                   /\ \A n \in {doing[t].on, doing[t].with} :
                         KindOf(store, n) \in Transient \ {"FailedValue"}
                             => HangsOn(n, waitee[t])
                   /\ \E n \in {doing[t].on, doing[t].with} : HangsOn(n, waitee[t])
  <2>1. PICK r, w : r = doing[t] /\ w = waitee[t]
    OBVIOUS
  <2>2. r # None /\ r \in Requests /\ Waits(store, t, r, w) /\ Operands(store, r)
    BY <1>1, <1>4, <2>1 DEF ThreadTypes, KnownOperands, WaitingRightly
  <2>3. HangsOn(w, t)
    BY <1>3, <2>2 DEF Waits
  <2>4. r.op = "waitNeeded" => ~IsNeeded(store, r.on)
    <3> SUFFICES ASSUME r.op = "waitNeeded" PROVE ~IsNeeded(store, r.on)
      OBVIOUS
    <3>1. /\ Base(store, r.on) = Base(store, w) /\ ~store.needed[Base(store, w)]
          /\ store.kind[Base(store, w)] \in Unbound
      BY <2>2 DEF Waits, Hangs
    <3> QED BY <1>1, <3>1, NeededFacts
  <2>5. r.op = "equals" =>
          /\ w \in Controls
          /\ \A n \in {r.on, r.with} :
                KindOf(store, n) \in Transient \ {"FailedValue"} => HangsOn(n, w)
          /\ \E n \in {r.on, r.with} : HangsOn(n, w)
    <3> SUFFICES ASSUME r.op = "equals"
                 PROVE  /\ w \in Controls
                        /\ \A n \in {r.on, r.with} :
                              KindOf(store, n) \in Transient \ {"FailedValue"} => HangsOn(n, w)
                        /\ \E n \in {r.on, r.with} : HangsOn(n, w)
      OBVIOUS
    <3>1. /\ w \in Controls
          /\ \A n \in {r.on, r.with} : NeedsProtection(store.kind[Base(store, n)]) => Hangs(store, n, w)
          /\ \E n \in {r.on, r.with} : Hangs(store, n, w)
      BY <2>2 DEF Waits
    <3>2. \A n \in {r.on, r.with} : n \in Visible /\ store.kind[n] # "Free"
      BY <2>2, RequestTypes DEF Operands
    <3>3. \A n \in {r.on, r.with} :
            KindOf(store, n) \in Transient \ {"FailedValue"} => NeedsProtection(store.kind[Base(store, n)])
      BY <1>1, <3>2, ProtectedBase
    <3> QED BY <1>3, <3>1, <3>3
  <2> QED BY <2>1, <2>2, <2>3, <2>4, <2>5
<1>5. NoLostWakeup
  BY <1>4 DEF NoLostWakeup
<1>6. FuturesFollow
  <2> SUFFICES ASSUME NEW r \in Nodes, store.kind[r] = "ReadOnly"
               PROVE  Hangs(store, r, r)
    BY <1>3 DEF FuturesFollow
  <2>1. Deref(store, r) = r
    BY DEF Deref
  <2>2. Base(store, r) = Target(store, r)
    BY <2>1 DEF Base, Target
  <2>3. Listed(store, r)
    BY <1>1 DEF Views
  <2> QED BY <2>2, <2>3 DEF Listed, Hangs
<1>7. DereferenceEnds
  BY <1>1, DerefFacts DEF DereferenceEnds, Ends
<1> QED BY <1>2, <1>5, <1>6, <1>7

LEMMA InitPromise ==
    ASSUME Init
    PROVE  Promise!Init
<1>1. \A n \in Visible : [x \in Visible |-> Base(store, x)][n] = n
  BY InitialStore, NodeSets
<1>2. \A n \in Visible : [x \in Visible |-> Status(store, x)][n] = "unknown"
  <2>1. \A n \in AllNodes : Status(store, n) = "unknown"
    BY InitialStore, StatusFacts
  <2> QED BY <2>1, NodeSets
<1>3. doing = [t \in Threads |-> None] /\ injected \cup RaiseOnBlock \subseteq Threads
  BY DataflowAssumption DEF Init
<1>4. DereferenceEnds
  BY InitIInv, IInvSuffices
<1> QED BY <1>1, <1>2, <1>3, <1>4 DEF Promise!Init

\* Stuttering.
LEMMA StutterAdvances ==
    ASSUME IInv, UNCHANGED vars
    PROVE  IInv' /\ UNCHANGED Promise!vars
<1>1. /\ store' = store /\ runnable' = runnable /\ ready' = ready /\ running' = running
      /\ terminated' = terminated /\ doing' = doing /\ waitee' = waitee
      /\ injected' = injected /\ injections' = injections
  BY DEF vars, threadVars
<1>2. ThreadTypes'
  BY <1>1 DEF IInv, ThreadTypes
<1>3. IInv'
  BY <1>1, <1>2, QuietStep
<1>4. DereferenceEnds' <=> DereferenceEnds
  BY <1>1 DEF DereferenceEnds
<1> QED BY <1>1, <1>3, <1>4 DEF Promise!vars

-----------------------------------------------------------------------------
(* With and without circles *)

\* A circle of references, once there, stays for ever; until then the inductive
\* invariant holds.
HasLoop == Loop(store)
JInv == Shaped(store) /\ (IInv \/ HasLoop)

LEMMA IInvIsShaped ==
    ASSUME IInv
    PROVE  JInv
BY TypedIsShaped DEF IInv, StoreInv, Structure, JInv

LEMMA JInvStep ==
    ASSUME JInv, [Next]_vars
    PROVE  /\ JInv'
           /\ HasLoop => HasLoop'
           /\ IInv /\ Next /\ BindsToOwnView => HasLoop'
           /\ IInv /\ Next /\ ~BindsToOwnView => IInv'
<1>1. CASE UNCHANGED vars
  <2>1. store' = store
    BY <1>1 DEF vars
  <2>2. IInv => IInv'
    BY <1>1, StutterAdvances
  <2>3. JInv'
    BY <2>1, <2>2 DEF JInv, HasLoop
  <2>4. IInv /\ Next /\ BindsToOwnView => HasLoop'
    BY OwnViewCloses DEF IInv, HasLoop
  <2> QED BY <2>1, <2>2, <2>3, <2>4 DEF HasLoop
<1>2. CASE Next
  <2>1. Shaped(store') /\ ReferencesStay(store, store')
    BY <1>2, StepStays DEF JInv
  <2>2. HasLoop => HasLoop'
    BY <2>1, LoopStays DEF HasLoop
  <2>3. IInv /\ BindsToOwnView => HasLoop'
    BY <1>2, OwnViewCloses DEF IInv, HasLoop
  <2>4. IInv /\ ~BindsToOwnView => IInv'
    BY <1>2, NextAdvances DEF Advances
  <2> QED BY <2>1, <2>2, <2>3, <2>4 DEF JInv
<1> QED BY <1>1, <1>2

LEMMA AlwaysJInv == Spec => []JInv
<1>1. Init => JInv
  BY InitIInv, IInvIsShaped
<1>2. JInv /\ [Next]_vars => JInv'
  BY JInvStep
<1> QED BY <1>1, <1>2, PTL DEF Spec

\* While dereferencing ends, all is in order.
LEMMA OrderlyWhileItEnds ==
    ASSUME JInv, DereferenceEnds
    PROVE  IInv
BY LoopNeverEnds DEF JInv, HasLoop

\* RichNode::dereferenceLoop comes to loop in a step exactly if the step binds a
\* variable to a read-only view of itself (ReadOnly::wakeUp, after X = !!X), whatever
\* was bound to what, viewed and woken before.
THEOREM CirclesComeFromOwnViews == Spec => OnlyOwnViewsClose
<1>1. HasLoop => ~DereferenceEnds
  BY LoopNeverEnds DEF HasLoop
<1>2. IInv => DereferenceEnds
  BY IInvSuffices
<1>3. JInv /\ DereferenceEnds /\ Next /\ BindsToOwnView => HasLoop'
  BY JInvStep, OrderlyWhileItEnds
<1>4. JInv /\ DereferenceEnds /\ Next /\ ~BindsToOwnView => IInv'
  BY JInvStep, OrderlyWhileItEnds
<1> QED BY <1>1, <1>2, <1>3, <1>4, AlwaysJInv, PTL DEF Spec, OnlyOwnViewsClose

\* The store, the thread flags and the pool keep their types as long as dereferencing
\* ends: variables alone have suspension lists and needs, what is in the pool is
\* runnable, and so on, for any number of threads, nodes and injected exceptions.
THEOREM DataflowTypes == Spec => [](DereferenceEnds => TypeOK)
<1>1. JInv => (DereferenceEnds => TypeOK)
  BY OrderlyWhileItEnds, IInvSuffices
<1> QED BY <1>1, AlwaysJInv, PTL

\* No wake-up is lost (variables.hh, addToSuspendList and wakeUpPendings, through
\* bindings, views and control variables): as long as dereferencing ends, a blocked
\* thread is in the list of the variable that its request waits for now.
THEOREM NoThreadIsForgotten == Spec => [](DereferenceEnds => NoLostWakeup)
<1>1. JInv => (DereferenceEnds => NoLostWakeup)
  BY OrderlyWhileItEnds, IInvSuffices
<1> QED BY <1>1, AlwaysJInv, PTL

\* As long as dereferencing ends, a read-only view that is still one is in the list of
\* the variable it views (ReadOnly::wakeUp), however that was bound in between.
THEOREM ViewsFollowTheirVariable == Spec => [](DereferenceEnds => FuturesFollow)
<1>1. JInv => (DereferenceEnds => FuturesFollow)
  BY OrderlyWhileItEnds, IInvSuffices
<1> QED BY <1>1, AlwaysJInv, PTL

\* Threads, suspension lists, references and control variables implement what
\* dataflow variables promise, its liveness apart: until a circle of references is made,
\* nothing is ever taken back, and a thread goes on only when its request is satisfied
\* or it is interrupted.
THEOREM DataflowIsAPromise == Spec => Promise!Safety
<1>1. Init => Promise!Init
  BY InitPromise
<1>2. JInv /\ [Next]_vars =>
        HasLoop' \/ (DereferenceEnds /\ Promise!Grows) \/ UNCHANGED Promise!vars
  <2> SUFFICES ASSUME JInv, [Next]_vars, ~HasLoop'
               PROVE  (DereferenceEnds /\ Promise!Grows) \/ UNCHANGED Promise!vars
    OBVIOUS
  <2>1. DereferenceEnds /\ IInv
    BY JInvStep, IInvSuffices DEF JInv
  <2>2. CASE UNCHANGED vars
    BY <2>1, <2>2, StutterAdvances
  <2>3. CASE Next
    <3>1. ~BindsToOwnView
      BY <2>1, <2>3, JInvStep
    <3> QED BY <2>1, <2>3, <3>1, NextAdvances DEF Advances
  <2> QED BY <2>2, <2>3
<1>3. HasLoop => ~DereferenceEnds
  BY LoopNeverEnds DEF HasLoop
<1> QED BY <1>1, <1>2, <1>3, AlwaysJInv, PTL DEF Spec, Promise!Safety, Promise!Next
=============================================================================
