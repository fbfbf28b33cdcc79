--------------------------- MODULE NodeListProofs ---------------------------
(***************************************************************************)
(* Theorems about NodeList, for any number of nodes. The walks over the    *)
(* list never stand on a deleted node: it is enough that no two links lead *)
(* to the same node and none to the head, so that what is unlinked at the  *)
(* head is linked from nowhere else. And the list is whole: some path      *)
(* along the links goes through every node that is kept, once, and ends;   *)
(* that Reached follows that path is an induction along it, made by way of *)
(* the smallest number of links at which the two would part. That path     *)
(* is also the stack which NodeStack makes of the list.                    *)
(***************************************************************************)
EXTENDS NodeList, FiniteSetTheorems, SequenceTheorems, WellFoundedInduction, TLAPS

\* The nodes the list should hold.
Kept == {n \in Nodes : life[n] # "free"} \ {arriving}

\* Links of these lead to these, and at most one to each, the head pointer included.
Linked ==
  /\ pNodes \in Kept \cup {NULL}
  /\ \A n \in Kept : next[n] \in Kept \cup {NULL}
  /\ \A n \in Kept : next[n] # NULL => next[n] # pNodes
  /\ \A m, n \in Kept : next[m] = next[n] /\ next[m] # NULL => m = n

\* p goes along the links from the head: through k nodes, all that are kept, each once.
IsPath(p, k) ==
  /\ p \in [1 .. k -> Nodes]
  /\ \A i, j \in 1 .. k : p[i] = p[j] => i = j
  /\ Kept = {p[i] : i \in 1 .. k}
  /\ pNodes = (IF k = 0 THEN NULL ELSE p[1])
  /\ \A i \in 1 .. k : next[p[i]] = (IF i = k THEN NULL ELSE p[i + 1])

Ordered == \E k \in Nat : \E p : IsPath(p, k)

\* OnAccept's node exists, and is in no list.
Arriving ==
  /\ pc # "add" => arriving = NULL
  /\ pc = "add" => arriving \in Nodes /\ life[arriving] # "free"

\* The walks are in the list, and the sweep knows the node before.
Walking ==
  /\ pc \in {"walk", "sweep"} => pTmp \in Kept \cup {NULL}
  /\ pc = "sweep" /\ pPrev = NULL => pTmp = pNodes
  /\ pPrev # NULL => pPrev \in Kept /\ next[pPrev] = pTmp /\ pc = "sweep"

IInv == TypeOK /\ Ordered /\ (Running => Linked /\ Arriving /\ Walking)

LEMMA InitIInv == Init => IInv
  <1> SUFFICES ASSUME Init PROVE IInv
    OBVIOUS
  <1>1. TypeOK
    <2>1. max \in 0 .. MaxPasses
      BY PassesAssumption DEF Init
    <2>2. /\ life \in [Nodes -> {"free", "open", "closed"}]
          /\ next \in [Nodes -> Pointer]
      BY DEF Init, Pointer
    <2> QED
      BY <2>1, <2>2 DEF Init, TypeOK, Pointer
  <1>2. Kept = {}
    BY DEF Init, Kept
  <1>3. Ordered
    <2>1. IsPath([i \in 1 .. 0 |-> NULL], 0)
      BY <1>2 DEF IsPath, Init
    <2> QED
      BY <2>1 DEF Ordered
  <1> QED
    BY <1>1, <1>2, <1>3 DEF Init, IInv, Linked, Arriving, Walking

-----------------------------------------------------------------------------
(* The nodes reached along the links.                                      *)

\* Every set of numbers that is not empty has a smallest element.
Below == {ss \in Nat \X Nat : ss[1] < ss[2]}

LEMMA SmallestElement ==
  ASSUME NEW T, T \subseteq Nat, T # {}
  PROVE  \E n \in T : \A m \in T : n <= m
  <1>1. IsWellFoundedOn(Below, Nat)
    BY NatLessThanWellFounded DEF OpToRel, Below
  <1>2. PICK n \in T : \A m \in T : ~ (<<m, n>> \in Below)
    BY <1>1, WFMin
  <1>3. ASSUME NEW m \in T PROVE n <= m
    <2>1. ~ (m < n)
      BY <1>2 DEF Below
    <2> QED
      BY <2>1
  <1> QED
    BY <1>3

\* No path is longer than there are nodes.
LEMMA PathBound ==
  ASSUME NEW k \in Nat, NEW p, IsPath(p, k)
  PROVE  k <= Cardinality(Nodes)
  <1>1. p \in Injection(1 .. k, Nodes)
    BY DEF IsPath, Injection, IsInjective
  <1>2. Cardinality(1 .. k) <= Cardinality(Nodes)
    BY <1>1, FS_Injection, NodesAssumption
  <1>3. Cardinality(1 .. k) = k
    BY FS_Interval
  <1> QED
    BY <1>2, <1>3

Step(f, k) ==
  IF k = 0 THEN pNodes ELSE IF f[k - 1] = NULL THEN NULL ELSE next[f[k - 1]]

Follows(f) == f = [k \in 0 .. Cardinality(Nodes) |-> Step(f, k)]

LEMMA ReachedFollows ==
  ASSUME NEW f, Follows(f)
  PROVE  Follows(Reached)
  <1>1. Reached = CHOOSE g : Follows(g)
    BY DEF Reached, Follows, Step
  <1> QED
    BY <1>1

\* Where k links from the head lead to.
LEMMA ReachedPath ==
  ASSUME NEW k \in Nat, NEW p, IsPath(p, k)
  PROVE  Reached = [i \in 0 .. Cardinality(Nodes) |-> IF i < k THEN p[i + 1] ELSE NULL]
  <1> DEFINE g == [i \in 0 .. Cardinality(Nodes) |-> IF i < k THEN p[i + 1] ELSE NULL]
  <1>0. Cardinality(Nodes) \in Nat
    BY FS_CardinalityType, NodesAssumption
  <1>1. Follows(g)
    <2>1. \A i \in 0 .. Cardinality(Nodes) : g[i] = Step(g, i)
      <3> TAKE i \in 0 .. Cardinality(Nodes)
      <3>1. CASE i = 0
        BY <3>1, <1>0 DEF Step, IsPath
      <3>2. CASE i # 0 /\ i - 1 >= k
        BY <3>2, <1>0 DEF Step
      <3>3. CASE i # 0 /\ i - 1 < k
        <4>1. g[i - 1] = p[i] /\ i \in 1 .. k /\ p[i] \in Nodes /\ p[i] # NULL
          BY <3>3, <1>0, NodesAssumption DEF IsPath
        <4>2. next[p[i]] = IF i = k THEN NULL ELSE p[i + 1]
          BY <4>1 DEF IsPath
        <4> QED
          BY <3>3, <4>1, <4>2, <1>0 DEF Step
      <3> QED
        BY <3>1, <3>2, <3>3
    <2>2. g = [i \in 0 .. Cardinality(Nodes) |-> Step(g, i)]
      <3> HIDE DEF g
      <3> SUFFICES g = [i \in 0 .. Cardinality(Nodes) |-> g[i]]
        BY <2>1, Zenon
      <3> QED
        BY DEF g
    <2> QED
      BY <2>2 DEF Follows
  <1>2. Follows(Reached)
    BY <1>1, ReachedFollows
  <1>3. \A i \in 0 .. Cardinality(Nodes) : Reached[i] = Step(Reached, i) /\ g[i] = Step(g, i)
    <2>1. ASSUME NEW f, Follows(f), NEW i \in 0 .. Cardinality(Nodes) PROVE f[i] = Step(f, i)
      BY <2>1 DEF Follows
    <2> QED
      BY <1>1, <1>2, <2>1
  <1> HIDE DEF g
  <1> DEFINE T == {i \in 0 .. Cardinality(Nodes) : Reached[i] # g[i]}
  <1>4. T = {}
    <2> SUFFICES ASSUME T # {} PROVE FALSE
      OBVIOUS
    <2>0. T \subseteq Nat
      BY <1>0
    <2>1. PICK i \in T : \A j \in T : i <= j
      <3> HIDE DEF T
      <3> QED
        BY <2>0, SmallestElement
    <2>2. CASE i = 0
      BY <1>3, <2>2 DEF Step
    <2>3. CASE i # 0
      <3>1. i - 1 \in 0 .. Cardinality(Nodes) /\ ~ (i <= i - 1)
        BY <1>0, <2>3
      <3>2. Reached[i - 1] = g[i - 1]
        BY <2>1, <3>1
      <3>3. Step(Reached, i) = Step(g, i)
        BY <3>2 DEF Step
      <3> QED
        BY <1>3, <3>3
    <2> QED
      BY <2>2, <2>3
  <1>5. Reached = g
    <2>1. \A i \in 0 .. Cardinality(Nodes) : Reached[i] = g[i]
      BY <1>4
    <2>2. Reached = [i \in 0 .. Cardinality(Nodes) |-> Reached[i]]
      BY <1>2 DEF Follows
    <2>3. g = [i \in 0 .. Cardinality(Nodes) |-> g[i]]
      BY DEF g
    <2> QED
      BY <2>1, <2>2, <2>3
  <1> QED
    BY <1>5 DEF g

\* The list is the kept nodes.
LEMMA OrderedSound == ASSUME Ordered PROVE ListSound /\ Listed = Kept
  <1>0. Cardinality(Nodes) \in Nat
    BY FS_CardinalityType, NodesAssumption
  <1>p. PICK k \in Nat : \E p : IsPath(p, k)
    BY DEF Ordered
  <1>1. PICK p : IsPath(p, k)
    BY <1>p
  <1>2. k <= Cardinality(Nodes)
    BY <1>1, PathBound
  <1>3. /\ \A i \in 0 .. Cardinality(Nodes) :
             Reached[i] = (IF i < k THEN p[i + 1] ELSE NULL)
        /\ \A i \in 1 .. k : p[i] \in Nodes /\ p[i] # NULL
    <2>1. Reached = [i \in 0 .. Cardinality(Nodes) |-> IF i < k THEN p[i + 1] ELSE NULL]
      BY <1>1, ReachedPath
    <2>2. \A i \in 1 .. k : p[i] \in Nodes
      BY <1>1 DEF IsPath
    <2> QED
      BY <2>1, <2>2, NodesAssumption
  <1>4. Reached[Cardinality(Nodes)] = NULL
    BY <1>0, <1>2, <1>3
  <1>5. \A n : n \in Listed <=> n \in {p[i] : i \in 1 .. k}
    <2> TAKE n
    <2>1. ASSUME n \in Listed PROVE n \in {p[i] : i \in 1 .. k}
      <3>1. PICK i \in 0 .. Cardinality(Nodes) : n = Reached[i] /\ n # NULL
        BY <2>1 DEF Listed
      <3>2. i < k /\ n = p[i + 1] /\ i + 1 \in 1 .. k
        BY <1>0, <1>3, <3>1
      <3> QED
        BY <3>2
    <2>2. ASSUME NEW i \in 1 .. k, n = p[i] PROVE n \in Listed
      <3>1. i - 1 \in 0 .. Cardinality(Nodes) /\ Reached[i - 1] = p[i] /\ p[i] # NULL
        BY <1>0, <1>2, <1>3
      <3> QED
        BY <2>2, <3>1 DEF Listed
    <2> QED
      BY <2>1, <2>2
  <1>6. Listed = Kept
    BY <1>1, <1>5 DEF IsPath
  <1> QED
    BY <1>4, <1>6 DEF ListSound, Kept

-----------------------------------------------------------------------------
\* As long as the objects and the links stay, so does the shape of the list.
LEMMA SameList ==
  ASSUME Linked, Kept' = Kept, UNCHANGED links
  PROVE  Linked'
  BY DEF Linked, links

LEMMA SameOrder ==
  ASSUME Ordered, Kept' = Kept, UNCHANGED links
  PROVE  Ordered'
  BY DEF Ordered, IsPath, links

\* A node that is in no list becomes its head.
LEMMA PrependLinked ==
  ASSUME TypeOK, Linked, NEW n \in Nodes, n \notin Kept, Prepend(n),
         Kept' = Kept \cup {n}
  PROVE  Linked' /\ pNodes' \in Kept' /\ (next \in [Nodes -> Pointer])'
  <1>1. /\ pNodes' = n
        /\ next' \in [Nodes -> Pointer]
        /\ next'[n] = pNodes
        /\ \A m \in Kept : next'[m] = next[m]
    BY DEF Prepend, TypeOK, Kept
  <1>2. n # NULL /\ pNodes # n
    BY NodesAssumption DEF Linked
  <1> QED
    BY <1>1, <1>2 DEF Linked

LEMMA PrependPath ==
  ASSUME TypeOK, NEW k \in Nat, NEW p, IsPath(p, k),
         NEW n \in Nodes, n \notin Kept, Prepend(n), Kept' = Kept \cup {n}
  PROVE  IsPath([i \in 1 .. k + 1 |-> IF i = 1 THEN n ELSE p[i - 1]], k + 1)'
  <1> DEFINE q == [i \in 1 .. k + 1 |-> IF i = 1 THEN n ELSE p[i - 1]]
  <1>1. IsPath(p, k)
    OBVIOUS
  <1>2. /\ q[1] = n
        /\ \A i \in 2 .. k + 1 : i - 1 \in 1 .. k /\ q[i] = p[i - 1]
        /\ \A i \in 1 .. k : i + 1 \in 2 .. k + 1 /\ q[i + 1] = p[i]
        /\ DOMAIN q = 1 .. k + 1
    OBVIOUS
  <1>3. \A i \in 1 .. k : p[i] \in Kept /\ p[i] \in Nodes /\ p[i] # n
    BY <1>1 DEF IsPath
  <1>4. q \in [1 .. k + 1 -> Nodes]
    BY <1>3
  <1> HIDE DEF q
  <1>5. \A i, j \in 1 .. k + 1 : q[i] = q[j] => i = j
    <2> SUFFICES ASSUME NEW i \in 1 .. k + 1, NEW j \in 1 .. k + 1, q[i] = q[j]
                 PROVE  i = j
      OBVIOUS
    <2>1. CASE i = 1 \/ j = 1
      BY <1>2, <1>3, <2>1
    <2>2. CASE i \in 2 .. k + 1 /\ j \in 2 .. k + 1
      BY <1>1, <1>2, <2>2 DEF IsPath
    <2> QED
      BY <2>1, <2>2
  <1>6. Kept' = {q[i] : i \in 1 .. k + 1}
    <2>1. Kept = {p[i] : i \in 1 .. k}
      BY <1>1 DEF IsPath
    <2>2. \A m : m \in Kept <=> \E i \in 2 .. k + 1 : m = q[i]
      BY <1>2, <2>1
    <2>3. \A m : m \in Kept' <=> \E i \in 1 .. k + 1 : m = q[i]
      BY <1>2, <2>2
    <2> QED
      BY <2>3
  <1>7. \A i \in 1 .. k + 1 : next'[q[i]] = (IF i = k + 1 THEN NULL ELSE q[i + 1])
    <2>1. next'[n] = pNodes /\ \A m \in Nodes \ {n} : next'[m] = next[m]
      BY DEF Prepend, TypeOK
    <2> TAKE i \in 1 .. k + 1
    <2>2. CASE i = 1
      <3>1. next'[q[1]] = (IF k = 0 THEN NULL ELSE p[1])
        BY <1>1, <1>2, <2>1 DEF IsPath
      <3>2. k # 0 => 1 \in 1 .. k /\ 1 + 1 = 2
        OBVIOUS
      <3>3. k # 0 => q[2] = p[1]
        BY <1>2, <3>2
      <3> QED
        BY <2>2, <3>1, <3>3
    <2>3. CASE i \in 2 .. k + 1
      <3>1. next'[q[i]] = next[p[i - 1]]
        BY <1>2, <1>3, <2>1, <2>3
      <3>2. next[p[i - 1]] = (IF i - 1 = k THEN NULL ELSE p[i])
        BY <1>1, <1>2, <2>3 DEF IsPath
      <3> QED
        BY <1>2, <2>3, <3>1, <3>2
    <2> QED
      BY <2>2, <2>3
  <1>8. IsPath(q, k + 1)'
    <2>1. k + 1 # 0 /\ pNodes' = q[1]
      BY <1>2 DEF Prepend
    <2> QED
      BY <2>1, <1>4, <1>5, <1>6, <1>7 DEF IsPath
  <1> QED
    BY <1>8 DEF q

LEMMA PrependOrdered ==
  ASSUME TypeOK, Ordered, NEW n \in Nodes, n \notin Kept, Prepend(n),
         Kept' = Kept \cup {n}
  PROVE  Ordered'
  <1>p. PICK k \in Nat : \E p : IsPath(p, k)
    BY DEF Ordered
  <1>1. PICK p : IsPath(p, k)
    BY <1>p
  <1>2. IsPath([i \in 1 .. k + 1 |-> IF i = 1 THEN n ELSE p[i - 1]], k + 1)'
    BY <1>1, PrependPath
  <1> QED
    BY <1>2 DEF Ordered

\* The head is unlinked and deleted: no other link leads to it.
LEMMA UnlinkHeadLinked ==
  ASSUME TypeOK, Linked, pNodes # NULL, pNodes' = next[pNodes],
         next' = [next EXCEPT ![pNodes] = NULL], Kept' = Kept \ {pNodes}
  PROVE  Linked'
  <1>1. pNodes \in Kept /\ pNodes \in Nodes
    BY DEF Linked, Kept
  <1>2. \A m \in Kept' : m \in Kept /\ m # pNodes /\ next'[m] = next[m]
    BY <1>1 DEF TypeOK, Kept
  <1>3. pNodes' \in Kept' \cup {NULL}
    BY <1>1 DEF Linked
  <1>4. \A m \in Kept' : next'[m] \in Kept' \cup {NULL}
    BY <1>2 DEF Linked
  <1>5. \A m \in Kept' : next'[m] # NULL => next'[m] # pNodes'
    BY <1>1, <1>2 DEF Linked
  <1>6. \A m, n \in Kept' : next'[m] = next'[n] /\ next'[m] # NULL => m = n
    BY <1>2 DEF Linked
  <1> QED
    BY <1>3, <1>4, <1>5, <1>6 DEF Linked

LEMMA UnlinkHeadPath ==
  ASSUME TypeOK, NEW k \in Nat, NEW p, IsPath(p, k),
         pNodes # NULL, pNodes' = next[pNodes],
         next' = [next EXCEPT ![pNodes] = NULL], Kept' = Kept \ {pNodes}
  PROVE  /\ k # 0 /\ pNodes = p[1] /\ k - 1 \in Nat
         /\ IsPath([i \in 1 .. k - 1 |-> p[i + 1]], k - 1)'
  <1> DEFINE q == [i \in 1 .. k - 1 |-> p[i + 1]]
  <1>1. IsPath(p, k)
    OBVIOUS
  <1>2. k # 0 /\ pNodes = p[1] /\ k - 1 \in Nat
    BY <1>1 DEF IsPath
  <1>3. /\ \A i \in 1 .. k - 1 : i + 1 \in 2 .. k /\ q[i] = p[i + 1]
        /\ \A i \in 2 .. k : i - 1 \in 1 .. k - 1 /\ q[i - 1] = p[i]
    BY <1>2
  <1>4. \A i \in 2 .. k : p[i] \in Nodes /\ p[i] # p[1]
    BY <1>1, <1>2 DEF IsPath
  <1>5. q \in [1 .. k - 1 -> Nodes]
    BY <1>3, <1>4
  <1> HIDE DEF q
  <1>6. \A i, j \in 1 .. k - 1 : q[i] = q[j] => i = j
    BY <1>1, <1>3 DEF IsPath
  <1>7. Kept' = {q[i] : i \in 1 .. k - 1}
    <2>1. \A m : m \in Kept <=> \E i \in 1 .. k : m = p[i]
      BY <1>1 DEF IsPath
    <2>2. \A m : m \in Kept' <=> \E i \in 2 .. k : m = p[i]
      BY <1>2, <1>4, <2>1
    <2>3. \A m : m \in Kept' <=> \E i \in 1 .. k - 1 : m = q[i]
      BY <1>3, <2>2
    <2> QED
      BY <2>3
  <1>8. pNodes' = (IF k - 1 = 0 THEN NULL ELSE q[1])
    <2>1. pNodes' = (IF k = 1 THEN NULL ELSE p[2])
      BY <1>1, <1>2 DEF IsPath
    <2>2. k # 1 => 2 \in 2 .. k /\ 2 - 1 = 1
      BY <1>2
    <2>3. k # 1 => q[1] = p[2]
      BY <1>3, <2>2
    <2> QED
      BY <1>2, <2>1, <2>3
  <1>9. \A i \in 1 .. k - 1 : next'[q[i]] = (IF i = k - 1 THEN NULL ELSE q[i + 1])
    <2> TAKE i \in 1 .. k - 1
    <2>1. next'[q[i]] = next[p[i + 1]]
      BY <1>2, <1>3, <1>4 DEF TypeOK
    <2>2. next[p[i + 1]] = (IF i + 1 = k THEN NULL ELSE p[i + 2])
      BY <1>1, <1>3 DEF IsPath
    <2>3. i # k - 1 => q[i + 1] = p[i + 2]
      BY <1>2, <1>3
    <2> QED
      BY <1>2, <2>1, <2>2, <2>3
  <1>10. IsPath(q, k - 1)'
    BY <1>5, <1>6, <1>7, <1>8, <1>9 DEF IsPath
  <1> QED
    BY <1>2, <1>10 DEF q

LEMMA UnlinkHeadOrdered ==
  ASSUME TypeOK, Ordered, pNodes # NULL, pNodes' = next[pNodes],
         next' = [next EXCEPT ![pNodes] = NULL], Kept' = Kept \ {pNodes}
  PROVE  Ordered'
  <1>p. PICK k \in Nat : \E p : IsPath(p, k)
    BY DEF Ordered
  <1>1. PICK p : IsPath(p, k)
    BY <1>p
  <1>2. k - 1 \in Nat /\ IsPath([i \in 1 .. k - 1 |-> p[i + 1]], k - 1)'
    BY <1>1, UnlinkHeadPath
  <1> QED
    BY <1>2 DEF Ordered

-----------------------------------------------------------------------------
LEMMA AcceptIInv == ASSUME IInv, NEW n \in Nodes, OnAccept(n) PROVE IInv'
  <1> USE DEF OnAccept, NewNode, Running
  <1>1. TypeOK'
    <2>1. life' \in [Nodes -> {"free", "open", "closed"}] /\ arriving' \in Pointer
      BY DEF IInv, TypeOK, Pointer
    <2> QED
      BY <2>1 DEF IInv, TypeOK, links, walk
  <1>2. n # NULL /\ arriving = NULL
    BY NodesAssumption DEF IInv, Arriving
  <1>3. Kept' = Kept
    <2>1. \A m \in Nodes : m \in Kept' <=> m \in Kept
      <3>1. life[n] = "free" /\ \A m \in Nodes \ {n} : life'[m] = life[m]
        BY DEF IInv, TypeOK
      <3>2. n \notin Kept /\ n \notin Kept'
        BY <3>1 DEF Kept
      <3>3. \A m \in Nodes \ {n} : m \in Kept' <=> m \in Kept
        BY <1>2, <3>1, NodesAssumption DEF Kept
      <3> QED
        BY <3>2, <3>3
    <2> QED
      BY <2>1 DEF Kept
  <1>4. Linked' /\ Ordered'
    BY <1>3, SameList, SameOrder DEF IInv
  <1>5. Arriving' /\ Walking'
    BY <1>3 DEF IInv, TypeOK, Arriving, Walking, walk, links
  <1> QED
    BY <1>1, <1>4, <1>5 DEF IInv

LEMMA AddIInv == ASSUME IInv, AddNode PROVE IInv'
  <1> USE DEF AddNode, Running
  <1>1. arriving \in Nodes /\ life[arriving] # "free" /\ arriving \notin Kept
    BY DEF IInv, Arriving, Kept
  <1>2. Kept' = Kept \cup {arriving}
    BY <1>1, NodesAssumption DEF Kept
  <1>3. Linked' /\ pNodes' \in Kept' /\ next' \in [Nodes -> Pointer]
    BY <1>1, <1>2, PrependLinked DEF IInv
  <1>4. TypeOK'
    BY <1>3 DEF IInv, TypeOK, Pointer, Kept, walk
  <1>5. Arriving' /\ Walking'
    BY DEF IInv, Arriving, Walking, walk
  <1>6. Ordered'
    BY <1>1, <1>2, PrependOrdered DEF IInv
  <1> QED
    BY <1>3, <1>4, <1>5, <1>6 DEF IInv

\* OnIdle, whether it adds a node or not.
LEMMA StartWalking ==
  ASSUME IInv, Running, pc = "wait", StartProcessNodes, Linked', Ordered',
         life' \in [Nodes -> {"free", "open", "closed"}], next' \in [Nodes -> Pointer],
         UNCHANGED <<arriving, debug, phase>>
  PROVE  IInv'
  <1>1. pNodes' \in Kept' \cup {NULL} /\ pNodes' \in Pointer
    BY DEF Linked, Kept, Pointer
  <1>2. max' \in 0 .. MaxPasses
    BY PassesAssumption DEF StartProcessNodes
  <1>3. TypeOK'
    BY <1>1, <1>2 DEF IInv, TypeOK, StartProcessNodes
  <1>4. Arriving' /\ Walking'
    BY <1>1 DEF IInv, Arriving, Walking, StartProcessNodes
  <1> QED
    BY <1>3, <1>4 DEF IInv

LEMMA IdleIInv == ASSUME IInv, OnIdle PROVE IInv'
  <1>1. Kept' = Kept
    BY DEF OnIdle, Kept
  <1>2. Linked' /\ Ordered'
    BY <1>1, SameList, SameOrder DEF IInv, OnIdle
  <1> QED
    BY <1>2, StartWalking DEF OnIdle, links, IInv, TypeOK

LEMMA ConnectsIInv == ASSUME IInv, NEW n \in Nodes, OnIdleConnects(n) PROVE IInv'
  <1>1. PICK state \in {"open", "closed"} : NewNode(n, state)
    BY DEF OnIdleConnects
  <1>2. life' \in [Nodes -> {"free", "open", "closed"}]
    BY <1>1 DEF NewNode, IInv, TypeOK
  <1>3. n \notin Kept /\ arriving = NULL /\ n # NULL
    BY <1>1, NodesAssumption DEF NewNode, Kept, OnIdleConnects, IInv, Arriving
  <1>4. Kept' = Kept \cup {n}
    BY <1>1, <1>3 DEF NewNode, Kept, OnIdleConnects, IInv, TypeOK
  <1>5. Linked' /\ Ordered' /\ next' \in [Nodes -> Pointer]
    BY <1>3, <1>4, PrependLinked, PrependOrdered DEF OnIdleConnects, IInv
  <1> QED
    BY <1>2, <1>5, StartWalking DEF OnIdleConnects

LEMMA VisitIInv == ASSUME IInv, VisitOpen \/ VisitClosed PROVE IInv'
  <1> USE DEF VisitOpen, VisitClosed, Running
  <1>1. Kept' = Kept /\ UNCHANGED links /\ pTmp \in Kept /\ pTmp' = next[pTmp]
    BY DEF Kept, IInv, Walking
  <1>2. pTmp' \in Kept \cup {NULL} /\ pTmp' \in Pointer
    BY <1>1 DEF IInv, Linked, Kept, Pointer
  <1>3. Linked' /\ Ordered'
    BY <1>1, SameList, SameOrder DEF IInv
  <1>4. TypeOK'
    BY <1>2 DEF IInv, TypeOK, links
  <1>5. Arriving' /\ Walking'
    BY <1>1, <1>2 DEF IInv, Arriving, Walking
  <1> QED
    BY <1>3, <1>4, <1>5 DEF IInv

LEMMA PassIInv == ASSUME IInv, NextPass \/ LastPass PROVE IInv'
  <1> USE DEF NextPass, LastPass, AtEndOfPass, Running
  <1>1. Kept' = Kept /\ UNCHANGED links
    BY DEF Kept
  <1>2. pTmp' \in {pNodes, NULL} /\ pNodes \in Kept \cup {NULL}
    BY DEF IInv, Linked
  <1>3. Linked' /\ Ordered'
    BY <1>1, SameList, SameOrder DEF IInv
  <1>4. max' \in 0 .. MaxPasses
    BY PassesAssumption DEF IInv, TypeOK, LoopEnds, PassCount
  <1>5. TypeOK'
    BY <1>2, <1>4 DEF IInv, TypeOK, Pointer, links
  <1>6. Arriving' /\ Walking'
    BY <1>1, <1>2 DEF IInv, Arriving, Walking, links
  <1> QED
    BY <1>3, <1>5, <1>6 DEF IInv

LEMMA SweepHeadIInv == ASSUME IInv, SweepHead PROVE IInv'
  <1> USE DEF SweepHead, Sweeping, Running
  <1>1. pTmp = pNodes /\ pNodes # NULL /\ pNodes \in Kept /\ arriving = NULL
    BY DEF IInv, Walking, Linked, Arriving
  <1>2. Kept' = Kept \ {pNodes}
    BY <1>1 DEF IInv, TypeOK, Kept
  <1>3. Linked' /\ Ordered'
    BY <1>1, <1>2, UnlinkHeadLinked, UnlinkHeadOrdered DEF IInv
  <1>4. pTmp' = pNodes' /\ pTmp' \in Kept' \cup {NULL} /\ pTmp' \in Pointer
    BY <1>1, <1>3 DEF AfterDelete, Linked, Kept, Pointer
  <1>5. TypeOK'
    BY <1>1, <1>4 DEF IInv, TypeOK, Pointer
  <1>6. Arriving' /\ Walking'
    BY <1>1, <1>4 DEF IInv, Arriving, Walking
  <1> QED
    BY <1>3, <1>5, <1>6 DEF IInv

LEMMA SweepIInv == ASSUME IInv, SweepOpen \/ SweepEnds PROVE IInv'
  <1> USE DEF SweepOpen, SweepEnds, Sweeping, Running
  <1>1. Kept' = Kept /\ UNCHANGED links
    BY DEF Kept
  <1>2. Linked' /\ Ordered'
    BY <1>1, SameList, SameOrder DEF IInv
  <1>3. SweepOpen => pTmp \in Kept /\ next[pTmp] \in Kept \cup {NULL}
    BY DEF IInv, Walking, Linked
  <1>4. TypeOK'
    BY <1>3 DEF IInv, TypeOK, Pointer, Kept, links
  <1>5. Arriving' /\ Walking'
    BY <1>1, <1>3, NodesAssumption DEF IInv, Arriving, Walking, links, Kept
  <1> QED
    BY <1>2, <1>4, <1>5 DEF IInv

LEMMA ClosesIInv == ASSUME IInv, NEW n \in Nodes, NodeCloses(n) PROVE IInv'
  <1> USE DEF NodeCloses, Running, links, walk
  <1>1. Kept' = Kept
    BY DEF IInv, TypeOK, Kept
  <1>2. Linked' /\ Ordered'
    BY <1>1, SameList, SameOrder DEF IInv
  <1>3. TypeOK'
    BY DEF IInv, TypeOK
  <1>4. Arriving' /\ Walking'
    BY <1>1 DEF IInv, TypeOK, Arriving, Walking
  <1> QED
    BY <1>2, <1>3, <1>4 DEF IInv

\* The process is gone, or the Network is.
LEMMA EndsIInv == ASSUME IInv, OnIdleCrashes \/ SweepAsserts \/ Shutdown PROVE IInv'
  <1>1. ~Running'
    BY DEF OnIdleCrashes, SweepAsserts, Shutdown, Running
  <1>2. /\ life' \in [Nodes -> {"free", "open", "closed"}]
        /\ next' \in [Nodes -> Pointer]
        /\ pNodes' \in Pointer
    BY DEF OnIdleCrashes, SweepAsserts, Shutdown, IInv, TypeOK, Pointer, links
  <1>3. TypeOK'
    BY <1>2 DEF OnIdleCrashes, SweepAsserts, Shutdown, IInv, TypeOK, walk
  <1>4. Ordered'
    <2>1. CASE UNCHANGED <<life, links, arriving>>
      <3>1. Kept' = Kept
        BY <2>1 DEF Kept
      <3> QED
        BY <2>1, <3>1, SameOrder DEF IInv
    <2>2. CASE Shutdown /\ ~UNCHANGED <<life, links>>
      <3>1. /\ pNodes' = NULL /\ arriving' = arriving
            /\ life' = [n \in Nodes |-> IF n \in Kept THEN "free" ELSE life[n]]
        BY <2>2, OrderedSound DEF Shutdown, IInv
      <3>2. Kept' = {}
        BY <3>1 DEF Kept
      <3>3. IsPath([i \in 1 .. 0 |-> NULL], 0)'
        BY <3>1, <3>2 DEF IsPath
      <3> QED
        BY <3>3 DEF Ordered
    <2> QED
      BY <2>1, <2>2 DEF OnIdleCrashes, SweepAsserts, Shutdown
  <1> QED
    BY <1>1, <1>3, <1>4 DEF IInv

LEMMA NextIInv == IInv /\ [Next]_vars => IInv'
  <1> SUFFICES ASSUME IInv, [Next]_vars PROVE IInv'
    OBVIOUS
  <1>1. CASE UNCHANGED vars
    <2>1. Kept' = Kept /\ (Running' <=> Running)
      BY <1>1 DEF vars, Kept, Running
    <2> QED
      BY <1>1, <2>1, SameOrder DEF vars, links, walk, IInv, TypeOK, Linked, Arriving, Walking
  <1> QED
    BY <1>1, AcceptIInv, AddIInv, IdleIInv, ConnectsIInv, VisitIInv, PassIInv,
       SweepHeadIInv, SweepIInv, ClosesIInv, EndsIInv DEF Next, NetworkThread

LEMMA Inductive == Spec => []IInv
  BY InitIInv, NextIInv, PTL DEF Spec

\* Every reachable state is well typed; ProcessNodes makes no more passes than it
\* may (network.cpp:493).
THEOREM TypeCorrect == Spec => []TypeOK
  BY Inductive, PTL DEF IInv

\* Whatever comes, closes and is deleted, and also after an abort and after ~Network,
\* the links lead through every node object that exists, but the one OnAccept has not
\* added yet, once, and end (network.cpp:512-542 and 549-570).
THEOREM ListStaysSound == Spec => []ListSound
  <1>1. IInv => ListSound
    BY OrderedSound DEF IInv
  <1> QED
    BY <1>1, Inductive, PTL

\* However many nodes come and close while a walk is on, and whatever it deletes, it
\* goes on from a node that exists (network.cpp:385-490 and 553-569).
THEOREM NoDanglingWalk == Spec => []NoUseAfterDelete
  <1>1. IInv => NoUseAfterDelete
    BY DEF IInv, NoUseAfterDelete, Walking, Kept
  <1> QED
    BY <1>1, Inductive, PTL

-----------------------------------------------------------------------------
(* The list as a stack.                                                    *)

\* What stands on any path along the links is the list, in its order.
PathListed ==
  \A k \in Nat : \A p : IsPath(p, k) => /\ Listed = Kept
                                        /\ Listing = p
                                        /\ p \in Seq(Nodes) /\ Len(p) = k

LEMMA ListingIsPath == PathListed
  <1> SUFFICES ASSUME NEW k \in Nat, NEW p, IsPath(p, k)
               PROVE  Listed = Kept /\ Listing = p /\ p \in Seq(Nodes) /\ Len(p) = k
    BY DEF PathListed
  <1>1. Listed = Kept
    BY OrderedSound DEF Ordered
  <1>2. p \in [1 .. k -> Nodes] /\ p \in Seq(Nodes) /\ Len(p) = k
    BY DEF IsPath
  <1>3. Cardinality(Kept) = k
    <2>1. p \in Bijection(1 .. k, Kept)
      <3>1. \A i \in 1 .. k : p[i] \in Kept
        BY DEF IsPath
      <3>2. p \in [1 .. k -> Kept]
        BY <1>2, <3>1
      <3>3. p \in Injection(1 .. k, Kept)
        BY <3>2 DEF IsPath, Injection, IsInjective
      <3>4. p \in Surjection(1 .. k, Kept)
        BY <3>2 DEF IsPath, Surjection
      <3> QED
        BY <3>3, <3>4 DEF Bijection
    <2>2. IsFiniteSet(1 .. k) /\ Cardinality(1 .. k) = k
      BY FS_Interval
    <2> QED
      BY <2>1, <2>2, FS_Bijection DEF ExistsBijection
  <1>4. k <= Cardinality(Nodes) /\ Cardinality(Nodes) \in Nat
    BY PathBound, FS_CardinalityType, NodesAssumption
  <1>5. \A i \in 1 .. k : Reached[i - 1] = p[i]
    <2>1. Reached = [i \in 0 .. Cardinality(Nodes) |-> IF i < k THEN p[i + 1] ELSE NULL]
      BY ReachedPath
    <2> TAKE i \in 1 .. k
    <2>2. i - 1 \in 0 .. Cardinality(Nodes) /\ i - 1 < k /\ (i - 1) + 1 = i
      BY <1>4
    <2> QED
      BY <2>1, <2>2
  <1>6. Listing = [i \in 1 .. k |-> Reached[i - 1]]
    BY <1>1, <1>3 DEF Listing
  <1>7. Listing = [i \in 1 .. k |-> p[i]]
    BY <1>5, <1>6
  <1>8. p = [i \in 1 .. k |-> p[i]]
    BY <1>2
  <1> QED
    BY <1>1, <1>2, <1>7, <1>8

LEMMA ListingIsNextPath == PathListed'
  BY ListingIsPath, PTL

\* The stack of a list in order: its nodes, and its top.
LEMMA StackFacts ==
  ASSUME Ordered
  PROVE  /\ Listed = Kept
         /\ Stack!OnStack = Kept
         /\ pNodes # NULL => Listing # <<>> /\ Head(Listing) = pNodes
  <1>p. PICK k \in Nat : \E p : IsPath(p, k)
    BY DEF Ordered
  <1>1. PICK p : IsPath(p, k)
    BY <1>p
  <1>2. Listed = Kept /\ Listing = p /\ p \in Seq(Nodes) /\ Len(p) = k
    BY <1>1, ListingIsPath DEF PathListed
  <1>3. Kept = {p[i] : i \in 1 .. k}
    BY <1>1 DEF IsPath
  <1>4. pNodes # NULL => k # 0 /\ p[1] = pNodes
    BY <1>1 DEF IsPath
  <1> QED
    BY <1>2, <1>3, <1>4 DEF Stack!OnStack

LEMMA SameStack ==
  ASSUME Ordered, Kept' = Kept, UNCHANGED links
  PROVE  Listing' = Listing /\ Listed' = Listed
  <1>p. PICK k \in Nat : \E p : IsPath(p, k)
    BY DEF Ordered
  <1>1. PICK p : IsPath(p, k)
    BY <1>p
  <1>2. IsPath(p, k)'
    BY <1>1 DEF IsPath, links
  <1> QED
    BY <1>1, <1>2, ListingIsPath, ListingIsNextPath DEF PathListed

LEMMA PushedStack ==
  ASSUME TypeOK, Ordered, NEW n \in Nodes, n \notin Kept, Prepend(n),
         Kept' = Kept \cup {n}
  PROVE  Listing' = <<n>> \o Listing /\ Listed' = Listed \cup {n}
  <1>p. PICK k \in Nat : \E p : IsPath(p, k)
    BY DEF Ordered
  <1>1. PICK p : IsPath(p, k)
    BY <1>p
  <1> DEFINE q == [i \in 1 .. k + 1 |-> IF i = 1 THEN n ELSE p[i - 1]]
  <1>2. IsPath(q, k + 1)'
    BY <1>1, PrependPath
  <1>3. Listing = p /\ Listed = Kept /\ p \in Seq(Nodes) /\ Len(p) = k
    BY <1>1, ListingIsPath DEF PathListed
  <1>4. Listing' = q /\ Listed' = Kept'
    <2> HIDE DEF q
    <2>1. k + 1 \in Nat
      OBVIOUS
    <2> QED
      BY <1>2, <2>1, ListingIsNextPath DEF PathListed
  <1>5. q = <<n>> \o p
    BY <1>3
  <1> QED
    BY <1>3, <1>4, <1>5

LEMMA PoppedStack ==
  ASSUME TypeOK, Ordered, pNodes # NULL, pNodes' = next[pNodes],
         next' = [next EXCEPT ![pNodes] = NULL], Kept' = Kept \ {pNodes}
  PROVE  Listing' = Tail(Listing) /\ Listed' = Listed \ {pNodes}
  <1>p. PICK k \in Nat : \E p : IsPath(p, k)
    BY DEF Ordered
  <1>1. PICK p : IsPath(p, k)
    BY <1>p
  <1> DEFINE q == [i \in 1 .. k - 1 |-> p[i + 1]]
  <1>2. IsPath(q, k - 1)' /\ k # 0 /\ k - 1 \in Nat
    BY <1>1, UnlinkHeadPath
  <1>3. Listing = p /\ Listed = Kept /\ p \in Seq(Nodes) /\ Len(p) = k
    BY <1>1, ListingIsPath DEF PathListed
  <1>4. Listing' = q /\ Listed' = Kept'
    <2> HIDE DEF q
    <2> QED
      BY <1>2, ListingIsNextPath DEF PathListed
  <1>5. q = Tail(p)
    <2>1. p # <<>> /\ k >= 1
      BY <1>2, <1>3
    <2>2. /\ Tail(p) \in Seq(Nodes) /\ Len(Tail(p)) = k - 1
          /\ \A i \in 1 .. k - 1 : Tail(p)[i] = p[i + 1]
      BY <1>3, <2>1, HeadTailProperties
    <2>3. q \in [1 .. k - 1 -> Nodes]
      BY <1>3, <2>1
    <2>4. q \in Seq(Nodes) /\ Len(q) = k - 1
      <3> HIDE DEF q
      <3> QED
        BY <1>2, <2>3
    <2>5. \A i \in 1 .. k - 1 : q[i] = Tail(p)[i]
      BY <2>2
    <2> HIDE DEF q
    <2> QED
      BY <2>2, <2>4, <2>5, SeqEqual
  <1> QED
    BY <1>3, <1>4, <1>5

\* What closes or comes without touching the list is a step of none of its nodes.
LEMMA Untouched ==
  ASSUME IInv, Kept' = Kept, UNCHANGED links, Running' = Running,
         \A n \in Kept : life'[n] = "closed" <=> life[n] = "closed"
  PROVE  UNCHANGED Stack!vars
  <1>1. Listing' = Listing /\ Listed' = Listed /\ Listed = Kept
    BY SameStack, StackFacts DEF IInv
  <1>2. ListedClosed' = ListedClosed
    BY <1>1 DEF ListedClosed
  <1> QED
    BY <1>1, <1>2 DEF Stack!vars

LEMMA StackPush ==
  ASSUME IInv, NEW n \in Nodes, n \notin Kept, Prepend(n), Kept' = Kept \cup {n},
         Running, Running', \A m \in Kept : life'[m] = life[m]
  PROVE  Stack!Push(n)
  <1>1. Listing' = <<n>> \o Listing /\ Listed' = Listed \cup {n}
    BY PushedStack DEF IInv
  <1>2. Listed = Kept /\ n \notin Stack!OnStack
    BY StackFacts DEF IInv
  <1>3. ListedClosed' \in {ListedClosed, ListedClosed \cup {n}}
    <2>1. CASE life'[n] = "closed"
      <3>1. ListedClosed' = ListedClosed \cup {n}
        BY <1>1, <1>2, <2>1 DEF ListedClosed
      <3> QED
        BY <3>1
    <2>2. CASE life'[n] # "closed"
      <3>1. ListedClosed' = ListedClosed
        BY <1>1, <1>2, <2>2 DEF ListedClosed
      <3> QED
        BY <3>1
    <2> QED
      BY <2>1, <2>2
  <1> QED
    BY <1>1, <1>2, <1>3 DEF Stack!Push

LEMMA StackComes ==
  ASSUME IInv, NEW n \in Nodes, AddNode \/ OnAccept(n) \/ OnIdleConnects(n)
  PROVE  [Stack!Next]_(Stack!vars)
  <1>1. CASE AddNode
    <2>1. arriving \in Nodes /\ life[arriving] # "free" /\ arriving \notin Kept
      BY <1>1 DEF AddNode, IInv, Arriving, Kept, Running
    <2>2. Kept' = Kept \cup {arriving}
      BY <1>1, <2>1, NodesAssumption DEF AddNode, Kept
    <2>3. Stack!Push(arriving)
      BY <1>1, <2>1, <2>2, StackPush DEF AddNode, Running
    <2> QED
      BY <2>1, <2>3 DEF Stack!Next
  <1>2. CASE OnAccept(n)
    <2>1. /\ n \notin Kept /\ arriving = NULL /\ n # NULL
          /\ \A m \in Nodes \ {n} : life'[m] = life[m]
      BY <1>2, NodesAssumption
      DEF OnAccept, NewNode, Kept, IInv, TypeOK, Arriving, Running
    <2>2. Kept' = Kept
      BY <1>2, <2>1, NodesAssumption DEF OnAccept, Kept
    <2>3. \A m \in Kept : life'[m] = life[m]
      BY <2>1 DEF Kept
    <2> QED
      BY <1>2, <2>2, <2>3, Untouched DEF OnAccept, Running
  <1>3. CASE OnIdleConnects(n)
    <2>1. PICK state \in {"open", "closed"} : NewNode(n, state)
      BY <1>3 DEF OnIdleConnects
    <2>2. n \notin Kept /\ arriving = NULL /\ n # NULL
      BY <1>3, <2>1, NodesAssumption DEF NewNode, Kept, OnIdleConnects, IInv, Arriving
    <2>3. Kept' = Kept \cup {n} /\ \A m \in Kept : life'[m] = life[m]
      BY <1>3, <2>1, <2>2 DEF NewNode, Kept, OnIdleConnects, IInv, TypeOK
    <2>4. Stack!Push(n)
      BY <1>3, <2>2, <2>3, StackPush DEF OnIdleConnects, Running
    <2> QED
      BY <2>4 DEF Stack!Next
  <1> QED
    BY <1>1, <1>2, <1>3

LEMMA StackLoses == ASSUME IInv, SweepHead PROVE Stack!Pop
  <1> USE DEF SweepHead, Sweeping, Running, Removable
  <1>1. pTmp = pNodes /\ pNodes # NULL /\ pNodes \in Kept /\ arriving = NULL
    BY DEF IInv, Walking, Linked, Arriving
  <1>2. /\ Kept' = Kept \ {pNodes}
        /\ \A m \in Kept' : life'[m] = life[m]
    BY <1>1 DEF IInv, TypeOK, Kept
  <1>3. Listing' = Tail(Listing) /\ Listed' = Listed \ {pNodes}
    BY <1>1, <1>2, PoppedStack DEF IInv
  <1>4. Listed = Kept /\ Listing # <<>> /\ Head(Listing) = pNodes
    BY <1>1, StackFacts DEF IInv
  <1>5. pNodes \in ListedClosed /\ ListedClosed' = ListedClosed \ {pNodes}
    BY <1>1, <1>2, <1>3, <1>4 DEF ListedClosed
  <1> QED
    BY <1>3, <1>4, <1>5 DEF Stack!Pop

LEMMA StackCloses ==
  ASSUME IInv, NEW n \in Nodes, NodeCloses(n)
  PROVE  [Stack!Next]_(Stack!vars)
  <1> USE DEF NodeCloses, Running, links
  <1>1. /\ Kept' = Kept /\ life'[n] = "closed"
        /\ \A m \in Nodes \ {n} : life'[m] = life[m]
    BY DEF IInv, TypeOK, Kept
  <1>2. /\ Listing' = Listing /\ Listed' = Listed /\ Listed = Kept
        /\ Stack!OnStack = Kept
    BY <1>1, SameStack, StackFacts DEF IInv
  <1>3. CASE n \in Kept
    <2>1. n \notin ListedClosed /\ ListedClosed' = ListedClosed \cup {n}
      BY <1>1, <1>2, <1>3 DEF ListedClosed, Kept
    <2>2. Stack!Close(n)
      BY <1>2, <1>3, <2>1 DEF Stack!Close
    <2> QED
      BY <2>2 DEF Stack!Next
  <1>4. CASE n \notin Kept
    <2>1. \A m \in Kept : life'[m] = life[m]
      BY <1>1, <1>4 DEF Kept
    <2> QED
      BY <1>1, <2>1, Untouched
  <1> QED
    BY <1>3, <1>4

LEMMA StackStops ==
  ASSUME IInv, OnIdleCrashes \/ SweepAsserts \/ Shutdown
  PROVE  Stack!Stop
  <1>1. Running /\ ~Running'
    BY DEF OnIdleCrashes, SweepAsserts, Shutdown, Running, Sweeping
  <1>2. CASE UNCHANGED <<life, links, arriving>>
    <2>1. Listing' = Listing /\ Listed' = Listed
      BY <1>2, SameStack DEF IInv, Kept
    <2>2. ListedClosed' = ListedClosed
      BY <1>2, <2>1 DEF ListedClosed
    <2> QED
      BY <1>1, <2>1, <2>2 DEF Stack!Stop
  <1>3. CASE Shutdown /\ ~UNCHANGED <<life, links>>
    <2>1. /\ pNodes' = NULL /\ arriving' = arriving
          /\ life' = [n \in Nodes |-> IF n \in Kept THEN "free" ELSE life[n]]
      BY <1>3, OrderedSound DEF Shutdown, IInv
    <2>2. Kept' = {}
      BY <2>1 DEF Kept
    <2> DEFINE q == [i \in 1 .. 0 |-> NULL]
    <2>3. IsPath(q, 0)'
      BY <2>1, <2>2 DEF IsPath
    <2>4. Listing' = q /\ Listed' = {} /\ q = <<>>
      BY <2>2, <2>3, ListingIsNextPath DEF PathListed
    <2>5. ListedClosed' = {}
      BY <2>4 DEF ListedClosed
    <2> QED
      BY <1>1, <2>4, <2>5 DEF Stack!Stop
  <1> QED
    BY <1>2, <1>3 DEF OnIdleCrashes, SweepAsserts, Shutdown

LEMMA StackInit == Init => Stack!Init
  <1> SUFFICES ASSUME Init PROVE Stack!Init
    OBVIOUS
  <1>1. Kept = {}
    BY DEF Init, Kept
  <1> DEFINE q == [i \in 1 .. 0 |-> NULL]
  <1>2. IsPath(q, 0)
    BY <1>1 DEF IsPath, Init
  <1>3. Listing = q /\ Listed = {} /\ q = <<>>
    BY <1>1, <1>2, ListingIsPath DEF PathListed
  <1>4. ListedClosed = {}
    BY <1>3 DEF ListedClosed
  <1> QED
    BY <1>3, <1>4 DEF Stack!Init, Init, Running

LEMMA StackStep == IInv /\ [Next]_vars => [Stack!Next]_(Stack!vars)
  <1> SUFFICES ASSUME IInv, [Next]_vars PROVE [Stack!Next]_(Stack!vars)
    OBVIOUS
  <1>1. CASE \/ UNCHANGED vars
             \/ OnIdle \/ VisitOpen \/ VisitClosed \/ NextPass \/ LastPass
             \/ SweepOpen \/ SweepEnds
    <2>1. UNCHANGED <<life, links, arriving, phase>>
      BY <1>1 DEF vars, links, OnIdle, VisitOpen, VisitClosed, NextPass, LastPass,
         SweepOpen, SweepEnds
    <2> QED
      BY <2>1, Untouched DEF Kept, Running
  <1>2. CASE SweepHead
    BY <1>2, StackLoses DEF Stack!Next
  <1>3. CASE OnIdleCrashes \/ SweepAsserts \/ Shutdown
    BY <1>3, StackStops DEF Stack!Next
  <1>4. CASE AddNode
    BY <1>4, StackComes DEF AddNode, IInv, Arriving, Running
  <1> QED
    BY <1>1, <1>2, <1>3, <1>4, StackComes, StackCloses DEF Next, NetworkThread

\* The links and loops of the Network make a stack of its nodes, for any number of
\* them: the order never changes, and only what is on top leaves
\* (network.cpp:507-508, 532-535, 553-569).
THEOREM ListIsStack == Spec => ImplementsStack
  BY StackInit, StackStep, Inductive, PTL DEF Spec, ImplementsStack, Stack!Spec

-----------------------------------------------------------------------------
(* How far a walk still has to go.                                         *)

\* Nodes from the one the walk stands on to the end of the list.
Left ==
  IF pTmp = NULL THEN 0
  ELSE Len(Listing) + 1 - (CHOOSE i \in DOMAIN Listing : Listing[i] = pTmp)

\* One node is passed.
Passes == pc' = pc /\ max' = max /\ Left > 0 /\ Left' = Left - 1

\* All nodes of the list have been passed.
PassOver ==
  /\ Left = 0
  /\ \/ pc = "walk" /\ pc' = "walk" /\ max' = max + 1 /\ max' <= MaxPasses
     \/ pc = "walk" /\ pc' = "sweep"
     \/ pc' = "wait"

WalkStep ==
  pc \in {"walk", "sweep"} /\ Running' =>
    IF NetworkThread THEN Passes \/ PassOver ELSE UNCHANGED <<pc, max, Left>>

\* Where the i-th node of the list is, k + 1 - i are left.
LeftOnPath ==
  \A k \in Nat : \A p : \A i \in 1 .. k :
    IsPath(p, k) /\ pTmp = p[i] => Left = k + 1 - i

LEMMA LeftIsCounted == LeftOnPath
  <1> SUFFICES ASSUME NEW k \in Nat, NEW p, NEW i \in 1 .. k, IsPath(p, k), pTmp = p[i]
               PROVE  Left = k + 1 - i
    BY DEF LeftOnPath
  <1>1. Listing = p /\ Len(p) = k /\ p \in Seq(Nodes)
    BY ListingIsPath DEF PathListed
  <1>2. DOMAIN p = 1 .. k /\ pTmp # NULL
    BY NodesAssumption DEF IsPath
  <1>3. \A j \in 1 .. k : p[j] = p[i] => j = i
    BY DEF IsPath
  <1>4. (CHOOSE j \in DOMAIN p : p[j] = pTmp) = i
    BY <1>2, <1>3
  <1> QED
    BY <1>1, <1>2, <1>4 DEF Left

LEMMA LeftIsCountedNext == LeftOnPath'
  BY LeftIsCounted, PTL

\* On to the node behind, in a list that stays.
LEMMA WalkedOn ==
  ASSUME IInv, pTmp \in Kept, pTmp' = next[pTmp], UNCHANGED links, Kept' = Kept
  PROVE  Left > 0 /\ Left' = Left - 1
  <1>p. PICK k \in Nat : \E p : IsPath(p, k)
    BY DEF IInv, Ordered
  <1>1. PICK p : IsPath(p, k)
    BY <1>p
  <1>2. IsPath(p, k)'
    BY <1>1 DEF IsPath, links
  <1>3. PICK i \in 1 .. k : pTmp = p[i]
    BY <1>1 DEF IsPath
  <1>4. Left = k + 1 - i
    BY <1>1, <1>3, LeftIsCounted DEF LeftOnPath
  <1>5. pTmp' = IF i = k THEN NULL ELSE p[i + 1]
    BY <1>1, <1>3 DEF IsPath
  <1>6. CASE i = k
    BY <1>4, <1>5, <1>6 DEF Left
  <1>7. CASE i # k
    <2>1. i + 1 \in 1 .. k /\ pTmp' = p[i + 1]
      BY <1>5, <1>7
    <2>2. Left' = k + 1 - (i + 1)
      BY <1>2, <2>1, LeftIsCountedNext DEF LeftOnPath
    <2> QED
      BY <1>4, <2>2
  <1> QED
    BY <1>6, <1>7

\* On to the new head, when the old one is unlinked.
LEMMA HeadPassed ==
  ASSUME IInv, pTmp = pNodes, pNodes # NULL, pTmp' = pNodes', pNodes' = next[pNodes],
         next' = [next EXCEPT ![pNodes] = NULL], Kept' = Kept \ {pNodes}
  PROVE  Left > 0 /\ Left' = Left - 1
  <1>p. PICK k \in Nat : \E p : IsPath(p, k)
    BY DEF IInv, Ordered
  <1>1. PICK p : IsPath(p, k)
    BY <1>p
  <1> DEFINE q == [i \in 1 .. k - 1 |-> p[i + 1]]
  <1>2. k # 0 /\ pNodes = p[1] /\ k - 1 \in Nat /\ IsPath(q, k - 1)'
    BY <1>1, UnlinkHeadPath DEF IInv
  <1> HIDE DEF q
  <1>3. Left = k
    <2>1. 1 \in 1 .. k
      BY <1>2
    <2>2. Left = k + 1 - 1
      BY <1>1, <1>2, <2>1, LeftIsCounted DEF LeftOnPath
    <2> QED
      BY <2>2
  <1>4. pTmp' = IF k - 1 = 0 THEN NULL ELSE q[1]
    BY <1>2 DEF IsPath
  <1>5. CASE k - 1 = 0
    BY <1>2, <1>3, <1>4, <1>5 DEF Left
  <1>6. CASE k - 1 # 0
    <2>1. 1 \in 1 .. k - 1 /\ pTmp' = q[1]
      BY <1>2, <1>4, <1>6
    <2>2. Left' = k - 1 + 1 - 1
      BY <1>2, <2>1, LeftIsCountedNext DEF LeftOnPath
    <2> QED
      BY <1>2, <1>3, <2>2
  <1> QED
    BY <1>5, <1>6

LEMMA WalkStepHolds == IInv /\ [Next]_vars => [WalkStep]_vars
  <1> SUFFICES ASSUME IInv, Next, pc \in {"walk", "sweep"}, Running'
               PROVE  IF NetworkThread THEN Passes \/ PassOver ELSE UNCHANGED <<pc, max, Left>>
    BY DEF WalkStep
  <1>1. CASE VisitOpen \/ VisitClosed \/ SweepOpen
    <2>1. pTmp \in Kept /\ pTmp' = next[pTmp] /\ UNCHANGED <<links, life, arriving, pc, max>>
      BY <1>1 DEF VisitOpen, VisitClosed, SweepOpen, Sweeping, Running, IInv, Walking
    <2>2. Passes
      BY <2>1, WalkedOn DEF Passes, Kept
    <2> QED
      BY <1>1, <2>2 DEF NetworkThread
  <1>2. CASE SweepHead
    <2>1. pTmp = pNodes /\ pNodes # NULL /\ pNodes \in Kept /\ arriving = NULL
      BY <1>2 DEF SweepHead, Sweeping, Running, IInv, Walking, Linked, Arriving
    <2>2. Kept' = Kept \ {pNodes}
      BY <1>2, <2>1 DEF SweepHead, IInv, TypeOK, Kept
    <2>3. Passes
      BY <1>2, <2>1, <2>2, HeadPassed DEF SweepHead, AfterDelete, Passes
    <2> QED
      BY <1>2, <2>3 DEF NetworkThread
  <1>3. CASE NextPass \/ LastPass \/ SweepEnds
    <2>1. Left = 0
      BY <1>3 DEF NextPass, LastPass, SweepEnds, AtEndOfPass, Sweeping, Left
    <2>2. PassOver
      <3>1. CASE NextPass
        BY <2>1, <3>1, PassesAssumption
        DEF NextPass, AtEndOfPass, LoopEnds, PassCount, PassOver, IInv, TypeOK
      <3>2. CASE LastPass \/ SweepEnds
        BY <2>1, <3>2 DEF LastPass, SweepEnds, AtEndOfPass, PassOver
      <3> QED
        BY <1>3, <3>1, <3>2
    <2> QED
      BY <1>3, <2>2 DEF NetworkThread
  <1>4. CASE \E n \in Nodes : NodeCloses(n)
    <2>1. UNCHANGED <<links, pc, max, pTmp, arriving>> /\ Kept' = Kept
      BY <1>4 DEF NodeCloses, walk, IInv, TypeOK, Kept
    <2>2. Listing' = Listing
      BY <2>1, SameStack DEF IInv
    <2>3. UNCHANGED <<pc, max, Left>>
      BY <2>1, <2>2 DEF Left
    <2>4. ~NetworkThread
      BY <1>4, <2>1 DEF NodeCloses, NetworkThread, AddNode, OnIdle, VisitOpen, VisitClosed,
         NextPass, LastPass, SweepHead, SweepOpen, SweepEnds, SweepAsserts, IInv, TypeOK
    <2> QED
      BY <2>3, <2>4
  <1> QED
    BY <1>1, <1>2, <1>3, <1>4
    DEF Next, NetworkThread, OnAccept, OnIdleConnects, AddNode, OnIdle, OnIdleCrashes,
        SweepAsserts, Shutdown, Running

\* The argument under NetworkReturns, for any number of nodes: while the network thread
\* walks along the list, each of its steps passes one of the nodes left in the pass,
\* so that none is skipped or met twice ("All nodes will get a chance", network.cpp:
\* 510), and one that finds none left begins one of at most MaxPasses more, the sweep, or
\* returns. No other thread's step adds to what is left (network.cpp:382-501, 553-569).
THEOREM WalksEnd == Spec => [][WalkStep]_vars
  BY WalkStepHolds, Inductive, PTL DEF Spec
=============================================================================
