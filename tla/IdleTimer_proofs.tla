--------------------------- MODULE IdleTimer_proofs ---------------------------
(***************************************************************************)
(* Proofs about IdleTimer for any number of descriptors, any idle time and *)
(* any bound on the clock.  The sift loops and the loop of tick are        *)
(* iterations of a turn, so that what they keep is proved by induction on  *)
(* the number of turns.                                                    *)
(***************************************************************************)
EXTENDS IdleTimer, FiniteSetTheorems, WellFoundedInduction, TLAPS

-----------------------------------------------------------------------------
(* Induction on the naturals, in a form without an operator parameter.      *)

\* Well-ordering of the naturals, from that of finite sets by inclusion.
LEMMA LeastNatural ==
  ASSUME NEW S \in SUBSET Nat, S # {}
  PROVE  \E m \in S : \A k \in S : m <= k
<1> DEFINE R == StrictSubsetOrdering(Nat)
           T == {0..n : n \in S}
<1>1. IsWellFoundedOn(R, FiniteSubsetsOf(Nat))
  BY FS_StrictSubsetOrderingWellFounded
<1>2. T \subseteq FiniteSubsetsOf(Nat)
  <2> SUFFICES ASSUME NEW n \in S PROVE 0..n \in FiniteSubsetsOf(Nat)
    OBVIOUS
  <2>1. IsFiniteSet(0..n)
    BY FS_Interval
  <2> QED
    BY <2>1 DEF FiniteSubsetsOf
<1>3. T # {}
  OBVIOUS
<1> HIDE DEF R, T
<1>4. PICK x \in T : \A y \in T : <<y, x>> \notin R
  BY <1>1, <1>2, <1>3, WFMin
<1> USE DEF R, T
<1>5. PICK m \in S : x = 0..m
  OBVIOUS
<1>6. ASSUME NEW k \in S, k < m PROVE FALSE
  <2>1. 0..k \in T /\ 0..k \subseteq 0..m /\ m \notin 0..k /\ m \in 0..m
    BY <1>6
  <2>2. 0..k \in SUBSET Nat /\ 0..m \in SUBSET Nat
    OBVIOUS
  <2>3. 0..k # 0..m
    BY <2>1
  <2>4. <<0..k, 0..m>> \in R
    BY <2>1, <2>2, <2>3 DEF StrictSubsetOrdering
  <2> QED
    BY <1>4, <1>5, <2>1, <2>4
<1> QED
  BY <1>6

\* A set with zero that is closed under the next number has every natural.
LEMMA NaturalSteps ==
  ASSUME NEW S, 0 \in S, \A n \in Nat : n \in S => n + 1 \in S
  PROVE  Nat \subseteq S
<1> DEFINE T == Nat \ S
<1> SUFFICES ASSUME T # {} PROVE FALSE
  OBVIOUS
<1>1. PICK m \in T : \A k \in T : m <= k
  <2> HIDE DEF T
  <2>1. T \in SUBSET Nat
    BY DEF T
  <2> QED
    BY <2>1, LeastNatural
<1>2. m # 0 /\ m - 1 \in Nat
  OBVIOUS
<1>3. m - 1 \in S
  BY <1>1, <1>2
<1>4. (m - 1) + 1 = m
  OBVIOUS
<1> QED
  BY <1>2, <1>3, <1>4

\* The values h gives the first n turns of F from c.
Turns(h, n, V, c, F) ==
  /\ h \in [0..n -> V] /\ h[0] = c
  /\ \A k \in 1..n : h[k] = F[h[k - 1]]

\* A function can be iterated any number of times.
LEMMA Iterates ==
  ASSUME NEW V, NEW c \in V, NEW F \in [V -> V]
  PROVE  \E g \in [Nat -> V] : g[0] = c /\ \A n \in Nat : g[n + 1] = F[g[n]]
<1> DEFINE S == {n \in Nat : \E h : Turns(h, n, V, c, F)}
<1>1. 0 \in S
  <2> DEFINE h == [k \in 0..0 |-> c]
  <2>1. Turns(h, 0, V, c, F)
    BY DEF Turns
  <2> QED
    BY <2>1
<1>2. ASSUME NEW n \in Nat, n \in S PROVE n + 1 \in S
  <2>1. PICK h : Turns(h, n, V, c, F)
    BY <1>2
  <2> DEFINE e == [k \in 0..(n + 1) |-> IF k = n + 1 THEN F[h[n]] ELSE h[k]]
  <2>2. h[n] \in V /\ F[h[n]] \in V
    BY <2>1 DEF Turns
  <2>3. e \in [0..(n + 1) -> V] /\ e[0] = c
    BY <2>1, <2>2 DEF Turns
  <2>4. \A k \in 1..(n + 1) : e[k] = F[e[k - 1]]
    <3> TAKE k \in 1..(n + 1)
    <3>1. CASE k = n + 1
      <4>1. k - 1 = n /\ n # n + 1 /\ n \in 0..(n + 1) /\ k \in 0..(n + 1)
        BY <3>1
      <4>2. e[k] = F[h[n]] /\ e[n] = h[n]
        BY <3>1, <4>1
      <4> QED
        BY <4>1, <4>2
    <3>2. CASE k # n + 1
      <4>1. /\ k \in 1..n /\ k - 1 # n + 1
            /\ k \in 0..(n + 1) /\ k - 1 \in 0..(n + 1)
        BY <3>2
      <4>2. e[k] = h[k] /\ e[k - 1] = h[k - 1]
        BY <3>2, <4>1
      <4> QED
        BY <2>1, <4>1, <4>2 DEF Turns
    <3> QED
      BY <3>1, <3>2
  <2>5. Turns(e, n + 1, V, c, F)
    <3> HIDE DEF e
    <3> QED
      BY <2>3, <2>4 DEF Turns
  <2> QED
    BY <2>5
<1>3. Nat \subseteq S
  <2> HIDE DEF S
  <2> QED
    BY <1>1, <1>2, NaturalSteps
<1> DEFINE H == [n \in Nat |-> CHOOSE h : Turns(h, n, V, c, F)]
<1>4. \A n \in Nat : Turns(H[n], n, V, c, F)
  BY <1>3
<1> HIDE DEF S, H
<1>5. \A n \in Nat : \A k \in 0..n : H[n][k] = H[n + 1][k]
  <2> TAKE n \in Nat
  <2> DEFINE A == {k \in Nat : k <= n => H[n][k] = H[n + 1][k]}
  <2>1. Turns(H[n], n, V, c, F) /\ Turns(H[n + 1], n + 1, V, c, F)
    BY <1>4
  <2>2. 0 \in A
    BY <2>1 DEF Turns
  <2>3. ASSUME NEW k \in Nat, k \in A PROVE k + 1 \in A
    <3> SUFFICES ASSUME k + 1 <= n PROVE H[n][k + 1] = H[n + 1][k + 1]
      OBVIOUS
    <3>1. k + 1 \in 1..n /\ k + 1 \in 1..(n + 1) /\ (k + 1) - 1 = k /\ k <= n
      OBVIOUS
    <3>2. H[n][k] = H[n + 1][k]
      BY <2>3, <3>1
    <3> QED
      BY <2>1, <3>1, <3>2 DEF Turns
  <2>4. Nat \subseteq A
    <3> HIDE DEF A
    <3> QED
      BY <2>2, <2>3, NaturalSteps
  <2> QED
    BY <2>4
<1> DEFINE g == [n \in Nat |-> H[n][n]]
<1>6. g \in [Nat -> V]
  BY <1>4 DEF Turns
<1>7. g[0] = c
  BY <1>4 DEF Turns
<1>8. \A n \in Nat : g[n + 1] = F[g[n]]
  <2> TAKE n \in Nat
  <2>1. H[n + 1][n + 1] = F[H[n + 1][n]]
    <3>1. n + 1 \in 1..(n + 1) /\ (n + 1) - 1 = n
      OBVIOUS
    <3>2. Turns(H[n + 1], n + 1, V, c, F)
      BY <1>4
    <3> QED
      BY <3>1, <3>2 DEF Turns
  <2>2. H[n + 1][n] = H[n][n]
    BY <1>5
  <2> QED
    BY <2>1, <2>2
<1> HIDE DEF g
<1> QED
  BY <1>6, <1>7, <1>8

\* A loop whose turns keep to V.
Turning(V, c, F) ==
  CHOOSE g \in [Nat -> V] : g[0] = c /\ \A n \in Nat : g[n + 1] = F[g[n]]

LEMMA Loop ==
  ASSUME NEW V, NEW c, NEW F, c \in V, F \in [V -> V]
  PROVE  /\ Turning(V, c, F) \in [Nat -> V]
         /\ Turning(V, c, F)[0] = c
         /\ \A n \in Nat : n # 0 => Turning(V, c, F)[n] = F[Turning(V, c, F)[n - 1]]
<1> DEFINE g == Turning(V, c, F)
<1>1. g \in [Nat -> V] /\ g[0] = c /\ \A n \in Nat : g[n + 1] = F[g[n]]
  <2>1. \E h \in [Nat -> V] : h[0] = c /\ \A n \in Nat : h[n + 1] = F[h[n]]
    BY Iterates
  <2> QED
    BY <2>1 DEF Turning
<1> HIDE DEF g
<1>2. \A n \in Nat : n # 0 => g[n] = F[g[n - 1]]
  <2> TAKE n \in Nat
  <2> HAVE n # 0
  <2>1. n - 1 \in Nat /\ (n - 1) + 1 = n
    OBVIOUS
  <2> QED
    BY <1>1, <2>1
<1> QED
  BY <1>1, <1>2 DEF g

-----------------------------------------------------------------------------
(* What the operations of the heap keep.                                   *)

Timers ==
  [heap : Seq(Nodes), index : UNION {[E -> 1..MaxFd] : E \in SUBSET Fds}]

\* The node at position i is indexed there.
KeptAt(t, i) == t.heap[i].fd \in DOMAIN t.index /\ t.index[t.heap[i].fd] = i
Kept(t) == \A i \in DOMAIN t.heap : KeptAt(t, i)

\* No descriptor has two nodes.
Distinct(h) == \A i, j \in DOMAIN h : h[i].fd = h[j].fd => i = j

\* The timers that differ only in the order of their nodes.
Orders(N, D, n) ==
  {t \in Timers : Kept(t) /\ Range(t.heap) = N /\ DOMAIN t.index = D /\ Len(t.heap) = n}

LEMMA TimerParts ==
  ASSUME NEW t \in Timers
  PROVE  /\ t = [heap |-> t.heap, index |-> t.index]
         /\ t.heap \in Seq(Nodes) /\ Len(t.heap) \in Nat
         /\ DOMAIN t.heap = 1..Len(t.heap)
         /\ \A i \in 1..Len(t.heap) :
              /\ t.heap[i] \in Nodes /\ t.heap[i] \in Range(t.heap)
              /\ t.heap[i].fd \in Fds /\ t.heap[i].expire \in Nat
         /\ DOMAIN t.index \subseteq Fds
         /\ t.index \in [DOMAIN t.index -> 1..MaxFd]
<1>1. /\ t = [heap |-> t.heap, index |-> t.index]
      /\ t.heap \in Seq(Nodes)
      /\ t.index \in UNION {[E -> 1..MaxFd] : E \in SUBSET Fds}
  BY DEF Timers
<1>2. Len(t.heap) \in Nat /\ DOMAIN t.heap = 1..Len(t.heap)
  BY <1>1
<1>3. \A i \in 1..Len(t.heap) : t.heap[i] \in Nodes /\ t.heap[i] \in Range(t.heap)
  BY <1>1, <1>2 DEF Range
<1>4. \A n \in Nodes : n.fd \in Fds /\ n.expire \in Nat
  BY DEF Nodes
<1>5. PICK E \in SUBSET Fds : t.index \in [E -> 1..MaxFd]
  BY <1>1
<1> QED
  BY <1>1, <1>2, <1>3, <1>4, <1>5

LEMMA TimersIntro ==
  ASSUME NEW h \in Seq(Nodes), NEW D \in SUBSET Fds, NEW x \in [D -> 1..MaxFd]
  PROVE  [heap |-> h, index |-> x] \in Timers
BY DEF Timers

LEMMA KeptIsDistinct ==
  ASSUME NEW t, Kept(t)
  PROVE  Distinct(t.heap)
BY DEF Kept, KeptAt, Distinct

\* The positions are entered for descriptors, of which there are MaxFd.
LEMMA KeptFits ==
  ASSUME NEW t \in Timers, Kept(t)
  PROVE  Len(t.heap) <= MaxFd
<1>1. CASE Len(t.heap) = 0
  BY <1>1, BoundsAssumption
<1>2. CASE Len(t.heap) # 0
  <2>1. Len(t.heap) \in 1..Len(t.heap)
    BY <1>2, TimerParts
  <2>2. t.index[t.heap[Len(t.heap)].fd] = Len(t.heap)
    BY <2>1, TimerParts DEF Kept, KeptAt
  <2> QED
    BY <2>1, <2>2, TimerParts DEF Kept, KeptAt
<1> QED
  BY <1>1, <1>2

\* swap_nodes: the nodes trade places, and both are indexed where they are.
LEMMA SwapNodesKeeps ==
  ASSUME NEW t \in Timers, Len(t.heap) <= MaxFd, Distinct(t.heap),
         NEW i \in 1..Len(t.heap), NEW j \in 1..Len(t.heap),
         \A k \in 1..Len(t.heap) : k \notin {i, j} => KeptAt(t, k)
  PROVE  LET u == SwapNodes(t, i, j)
         IN  /\ u \in Timers /\ Kept(u)
             /\ Len(u.heap) = Len(t.heap) /\ Range(u.heap) = Range(t.heap)
             /\ DOMAIN u.index = DOMAIN t.index \cup {t.heap[i].fd, t.heap[j].fd}
             /\ u.heap[i] = t.heap[j] /\ u.heap[j] = t.heap[i]
             /\ \A k \in 1..Len(t.heap) : k \notin {i, j} => u.heap[k] = t.heap[k]
<1> DEFINE g == t.heap
           n == Len(g)
           h == [g EXCEPT ![i] = g[j], ![j] = g[i]]
           x == Enter(Enter(t.index, h[i].fd, i), h[j].fd, j)
<1>1. /\ g \in Seq(Nodes) /\ n \in Nat /\ DOMAIN g = 1..n /\ n <= MaxFd
      /\ \A k \in 1..n : g[k] \in Nodes /\ g[k].fd \in Fds
      /\ DOMAIN t.index \subseteq Fds /\ t.index \in [DOMAIN t.index -> 1..MaxFd]
  BY TimerParts
<1>2. SwapNodes(t, i, j) = [heap |-> h, index |-> x]
  BY DEF SwapNodes
<1> HIDE DEF g, n, x
<1>3. /\ DOMAIN h = 1..n
      /\ h[j] = g[i] /\ h[i] = g[j]
      /\ \A k \in 1..n : k \notin {i, j} => h[k] = g[k]
  BY <1>1 DEF g, n
<1> HIDE DEF h
<1>4. h \in [1..n -> Nodes]
  <2>1. \A k \in 1..n : h[k] \in Nodes
    <3>1. i \in 1..n /\ j \in 1..n
      BY DEF n, g
    <3> QED
      BY <1>1, <1>3, <3>1
  <2>2. h = [k \in 1..n |-> h[k]]
    BY <1>1, <1>3 DEF h
  <2> QED
    BY <2>1, <2>2
<1>5. h \in Seq(Nodes) /\ Len(h) = n
  BY <1>1, <1>4
<1>6. Range(h) = Range(g)
  <2>1. i \in 1..n /\ j \in 1..n
    BY DEF n, g
  <2>2. \A k \in 1..n : h[k] \in Range(g)
    BY <1>1, <1>3, <2>1 DEF Range
  <2>3. \A k \in 1..n : g[k] \in Range(h)
    BY <1>1, <1>3, <2>1 DEF Range
  <2> QED
    BY <1>1, <1>3, <2>2, <2>3 DEF Range
<1>7. /\ DOMAIN x = DOMAIN t.index \cup {g[i].fd, g[j].fd}
      /\ x[g[i].fd] = j
      /\ g[j].fd # g[i].fd => x[g[j].fd] = i
      /\ \A f \in DOMAIN t.index : f \notin {g[i].fd, g[j].fd} => x[f] = t.index[f]
      /\ x = [f \in DOMAIN x |-> x[f]]
  BY <1>3 DEF x, Enter
<1>8. x \in [DOMAIN x -> 1..MaxFd] /\ DOMAIN x \in SUBSET Fds
  <2>1. i \in 1..n /\ j \in 1..n /\ i \in 1..MaxFd /\ j \in 1..MaxFd
    BY <1>1, BoundsAssumption DEF n, g
  <2>2. \A f \in DOMAIN x : x[f] \in 1..MaxFd
    BY <1>1, <1>7, <2>1
  <2>3. DOMAIN x \in SUBSET Fds
    BY <1>1, <1>7, <2>1
  <2> QED
    BY <1>7, <2>2, <2>3
<1>9. SwapNodes(t, i, j) \in Timers
  BY <1>2, <1>5, <1>8, TimersIntro
<1>10. \A k \in 1..n : h[k].fd \in DOMAIN x /\ x[h[k].fd] = k
  <2> TAKE k \in 1..n
  <2>1. i \in 1..n /\ j \in 1..n
    BY DEF n, g
  <2>2. CASE k = j
    BY <1>3, <1>7, <2>2
  <2>3. CASE k # j /\ k = i
    <3>1. g[j].fd # g[i].fd
      BY <1>1, <2>1, <2>3 DEF Distinct, g
    <3> QED
      BY <1>3, <1>7, <2>3, <3>1
  <2>4. CASE k \notin {i, j}
    <3>1. g[k].fd # g[i].fd /\ g[k].fd # g[j].fd
      BY <1>1, <2>1, <2>4 DEF Distinct, g
    <3>2. g[k].fd \in DOMAIN t.index /\ t.index[g[k].fd] = k
      BY <2>4 DEF KeptAt, g, n
    <3> QED
      BY <1>3, <1>7, <2>4, <3>1, <3>2
  <2> QED
    BY <2>2, <2>3, <2>4
<1>11. Kept(SwapNodes(t, i, j))
  BY <1>2, <1>3, <1>10 DEF Kept, KeptAt
<1> QED
  BY <1>2, <1>3, <1>5, <1>6, <1>7, <1>9, <1>11 DEF g, n

LEMMA SwapOrders ==
  ASSUME NEW N, NEW D, NEW n, NEW t \in Orders(N, D, n),
         NEW i \in 1..n, NEW j \in 1..n
  PROVE  SwapNodes(t, i, j) \in Orders(N, D, n)
<1>1. /\ t \in Timers /\ Kept(t) /\ Range(t.heap) = N
      /\ DOMAIN t.index = D /\ Len(t.heap) = n
  BY DEF Orders
<1>2. Len(t.heap) <= MaxFd /\ Distinct(t.heap)
  BY <1>1, KeptFits, KeptIsDistinct
<1>3. /\ i \in 1..Len(t.heap) /\ j \in 1..Len(t.heap)
      /\ \A k \in 1..Len(t.heap) : KeptAt(t, k)
  BY <1>1, TimerParts DEF Kept
<1>4. /\ SwapNodes(t, i, j) \in Timers /\ Kept(SwapNodes(t, i, j))
      /\ Len(SwapNodes(t, i, j).heap) = Len(t.heap)
      /\ Range(SwapNodes(t, i, j).heap) = Range(t.heap)
      /\ DOMAIN SwapNodes(t, i, j).index =
           DOMAIN t.index \cup {t.heap[i].fd, t.heap[j].fd}
  BY <1>1, <1>2, <1>3, SwapNodesKeeps
<1>5. DOMAIN t.index \cup {t.heap[i].fd, t.heap[j].fd} = D
  BY <1>1, <1>3 DEF KeptAt
<1> HIDE DEF SwapNodes
<1> QED
  BY <1>1, <1>4, <1>5 DEF Orders

\* The states of the two loops: an order of the nodes, and a position.
Sifts(N, D, n) == [t : Orders(N, D, n), i : 1..n]

LEMMA UpTurnSifts ==
  ASSUME NEW N, NEW D, NEW n \in Nat, NEW s \in Sifts(N, D, n)
  PROVE  UpTurn(s) \in Sifts(N, D, n)
<1>1. s.t \in Orders(N, D, n) /\ s.i \in 1..n
  BY DEF Sifts
<1>2. CASE s.i > 1 /\ Less(s.t.heap[s.i], s.t.heap[s.i \div 2])
  <2>1. s.i \div 2 \in 1..n
    BY <1>1, <1>2
  <2>2. SwapNodes(s.t, s.i, s.i \div 2) \in Orders(N, D, n)
    BY <1>1, <2>1, SwapOrders
  <2>3. UpTurn(s) = [t |-> SwapNodes(s.t, s.i, s.i \div 2), i |-> s.i \div 2]
    BY <1>2 DEF UpTurn
  <2> HIDE DEF SwapNodes
  <2> QED
    BY <2>1, <2>2, <2>3 DEF Sifts
<1>3. CASE ~(s.i > 1 /\ Less(s.t.heap[s.i], s.t.heap[s.i \div 2]))
  <2>1. UpTurn(s) = s
    BY <1>3 DEF UpTurn
  <2> QED
    BY <2>1
<1> QED
  BY <1>2, <1>3

LEMMA SmallestInHeap ==
  ASSUME NEW h, Len(h) \in Nat, NEW i \in 1..Len(h)
  PROVE  Smallest(h, i) \in 1..Len(h)
BY DEF Smallest

LEMMA DownTurnSifts ==
  ASSUME NEW N, NEW D, NEW n \in Nat, NEW s \in Sifts(N, D, n)
  PROVE  DownTurn(s) \in Sifts(N, D, n)
<1>1. s.t \in Orders(N, D, n) /\ s.i \in 1..n
  BY DEF Sifts
<1> DEFINE j == Smallest(s.t.heap, s.i)
<1>2. j \in 1..n
  <2>1. Len(s.t.heap) = n
    BY <1>1 DEF Orders
  <2> QED
    BY <1>1, <2>1, SmallestInHeap
<1>3. DownTurn(s) = IF j # s.i THEN [t |-> SwapNodes(s.t, s.i, j), i |-> j] ELSE s
  BY DEF DownTurn
<1> HIDE DEF j
<1>4. SwapNodes(s.t, s.i, j) \in Orders(N, D, n)
  BY <1>1, <1>2, SwapOrders
<1> QED
  BY <1>2, <1>3, <1>4 DEF Sifts

\* sift_up only reorders the nodes.
LEMMA SiftUpOrders ==
  ASSUME NEW N, NEW D, NEW n \in Nat, NEW t \in Orders(N, D, n), NEW i \in 1..n
  PROVE  SiftUp(t, i) \in Orders(N, D, n)
<1> DEFINE V == Sifts(N, D, n)
           c == [t |-> t, i |-> i]
           F == [s \in V |-> UpTurn(s)]
           turn[k \in Nat] == IF k = 0 THEN c ELSE UpTurn(turn[k - 1])
<1>1. c \in V
  BY DEF Sifts
<1>2. F \in [V -> V]
  BY UpTurnSifts
<1>3. SiftUp(t, i) = turn[i].t
  BY DEF SiftUp
<1>4. \A s \in V : F[s] = UpTurn(s)
  OBVIOUS
<1> HIDE DEF V, c, F
<1>5. \E g : g = [k \in Nat |-> IF k = 0 THEN c ELSE UpTurn(g[k - 1])]
  <2> HIDE DEF turn
  <2> DEFINE g == Turning(V, c, F)
  <2>1. /\ g \in [Nat -> V] /\ g[0] = c
        /\ \A k \in Nat : k # 0 => g[k] = F[g[k - 1]]
    BY <1>1, <1>2, Loop
  <2> HIDE DEF g
  <2>2. \A k \in Nat : k # 0 => k - 1 \in Nat
    OBVIOUS
  <2>3. \A k \in Nat : k # 0 => F[g[k - 1]] = UpTurn(g[k - 1])
    BY <1>4, <2>1, <2>2
  <2>4. g = [k \in Nat |-> IF k = 0 THEN c ELSE UpTurn(g[k - 1])]
    BY <2>1, <2>3
  <2> QED
    BY <2>4
<1>6. turn = [k \in Nat |-> IF k = 0 THEN c ELSE UpTurn(turn[k - 1])]
  <2> HIDE DEF turn
  <2> QED
    BY <1>5 DEF turn
<1> HIDE DEF turn
<1> DEFINE A == {k \in Nat : turn[k] \in V}
<1>7. 0 \in A
  BY <1>1, <1>6
<1>8. ASSUME NEW k \in Nat, k \in A PROVE k + 1 \in A
  <2>1. k + 1 # 0 /\ k + 1 \in Nat /\ (k + 1) - 1 = k
    OBVIOUS
  <2>2. turn[k + 1] = UpTurn(turn[k])
    BY <1>6, <2>1
  <2>3. turn[k] \in V
    BY <1>8
  <2>4. UpTurn(turn[k]) \in V
    BY <2>3, UpTurnSifts DEF V
  <2> QED
    BY <2>1, <2>2, <2>4
<1>9. Nat \subseteq A
  <2> HIDE DEF A
  <2> QED
    BY <1>7, <1>8, NaturalSteps
<1>10. turn[i] \in V
  BY <1>9
<1> QED
  BY <1>3, <1>10 DEF V, Sifts

\* sift_down only reorders the nodes.
LEMMA SiftDownOrders ==
  ASSUME NEW N, NEW D, NEW n \in Nat, NEW t \in Orders(N, D, n), NEW i \in 1..n
  PROVE  SiftDown(t, i) \in Orders(N, D, n)
<1> DEFINE V == Sifts(N, D, n)
           c == [t |-> t, i |-> i]
           F == [s \in V |-> DownTurn(s)]
           turn[k \in Nat] == IF k = 0 THEN c ELSE DownTurn(turn[k - 1])
<1>1. c \in V
  BY DEF Sifts
<1>2. F \in [V -> V]
  BY DownTurnSifts
<1>3. SiftDown(t, i) = turn[n].t
  BY DEF SiftDown, Orders
<1>4. \A s \in V : F[s] = DownTurn(s)
  OBVIOUS
<1> HIDE DEF V, c, F
<1>5. \E g : g = [k \in Nat |-> IF k = 0 THEN c ELSE DownTurn(g[k - 1])]
  <2> HIDE DEF turn
  <2> DEFINE g == Turning(V, c, F)
  <2>1. /\ g \in [Nat -> V] /\ g[0] = c
        /\ \A k \in Nat : k # 0 => g[k] = F[g[k - 1]]
    BY <1>1, <1>2, Loop
  <2> HIDE DEF g
  <2>2. \A k \in Nat : k # 0 => k - 1 \in Nat
    OBVIOUS
  <2>3. \A k \in Nat : k # 0 => F[g[k - 1]] = DownTurn(g[k - 1])
    BY <1>4, <2>1, <2>2
  <2>4. g = [k \in Nat |-> IF k = 0 THEN c ELSE DownTurn(g[k - 1])]
    BY <2>1, <2>3
  <2> QED
    BY <2>4
<1>6. turn = [k \in Nat |-> IF k = 0 THEN c ELSE DownTurn(turn[k - 1])]
  <2> HIDE DEF turn
  <2> QED
    BY <1>5 DEF turn
<1> HIDE DEF turn
<1> DEFINE A == {k \in Nat : turn[k] \in V}
<1>7. 0 \in A
  BY <1>1, <1>6
<1>8. ASSUME NEW k \in Nat, k \in A PROVE k + 1 \in A
  <2>1. k + 1 # 0 /\ k + 1 \in Nat /\ (k + 1) - 1 = k
    OBVIOUS
  <2>2. turn[k + 1] = DownTurn(turn[k])
    BY <1>6, <2>1
  <2>3. turn[k] \in V
    BY <1>8
  <2>4. DownTurn(turn[k]) \in V
    BY <2>3, DownTurnSifts DEF V
  <2> QED
    BY <2>1, <2>2, <2>4
<1>9. Nat \subseteq A
  <2> HIDE DEF A
  <2> QED
    BY <1>7, <1>8, NaturalSteps
<1>10. turn[n] \in V
  BY <1>9
<1> QED
  BY <1>3, <1>10 DEF V, Sifts

\* pop_back: the last node goes, its descriptor keeps its position.
LEMMA PopBackOrders ==
  ASSUME NEW N, NEW D, NEW n \in Nat, n # 0, NEW t \in Orders(N, D, n)
  PROVE  PopBack(t) \in Orders(N \ {t.heap[n]}, D, n - 1)
<1>1. /\ t \in Timers /\ Kept(t) /\ Range(t.heap) = N
      /\ DOMAIN t.index = D /\ Len(t.heap) = n
  BY DEF Orders
<1> DEFINE g == t.heap
           h == SubSeq(g, 1, n - 1)
<1>2. /\ t = [heap |-> g, index |-> t.index] /\ g \in Seq(Nodes)
      /\ DOMAIN g = 1..n /\ Len(g) = n
  BY <1>1, TimerParts
<1>3. PopBack(t) = [heap |-> h, index |-> t.index]
  <2>1. \A a, b : PopBack([heap |-> a, index |-> b]) = [heap |-> SubSeq(a, 1, Len(a) - 1), index |-> b]
    BY DEF PopBack
  <2> HIDE DEF g
  <2> QED
    BY <1>2, <2>1
<1>4. Distinct(g)
  BY <1>1, KeptIsDistinct
<1>5. \A k \in 1..n : KeptAt(t, k)
  BY <1>1, <1>2 DEF Kept
<1>6. D \in SUBSET Fds /\ t.index \in [D -> 1..MaxFd]
  BY <1>1, TimerParts
<1> HIDE DEF g
<1>7. /\ h \in Seq(Nodes) /\ Len(h) = n - 1 /\ DOMAIN h = 1..(n - 1)
      /\ \A k \in 1..(n - 1) : h[k] = g[k]
  BY <1>2
<1> HIDE DEF h
<1>8. Range(h) = Range(g) \ {g[n]}
  <2>1. \A k \in 1..(n - 1) : g[k] # g[n] /\ h[k] \in Range(g)
    <3> TAKE k \in 1..(n - 1)
    <3>1. k \in 1..n /\ n \in 1..n /\ k # n
      OBVIOUS
    <3> QED
      BY <1>2, <1>4, <1>7, <3>1 DEF Distinct, Range
  <2>2. \A k \in 1..n : k = n \/ k \in 1..(n - 1)
    OBVIOUS
  <2>3. Range(h) = {h[k] : k \in 1..(n - 1)} /\ Range(g) = {g[k] : k \in 1..n}
    BY <1>2, <1>7 DEF Range
  <2> QED
    BY <1>7, <2>1, <2>2, <2>3
<1>9. [heap |-> h, index |-> t.index] \in Timers
  BY <1>6, <1>7, TimersIntro
<1>10. Kept([heap |-> h, index |-> t.index])
  <2>1. \A k \in 1..(n - 1) : k \in 1..n
    OBVIOUS
  <2> QED
    BY <1>5, <1>7, <2>1 DEF Kept, KeptAt, g
<1> QED
  BY <1>1, <1>3, <1>7, <1>8, <1>9, <1>10 DEF Orders, g

\* key_to_idx.erase: of a descriptor without a node.
LEMMA EraseOrders ==
  ASSUME NEW N, NEW D, NEW n, NEW t \in Orders(N, D, n), NEW fd,
         \A m \in N : m.fd # fd
  PROVE  Erase(t, fd) \in Orders(N, D \ {fd}, n)
<1>1. /\ t \in Timers /\ Kept(t) /\ Range(t.heap) = N
      /\ DOMAIN t.index = D /\ Len(t.heap) = n
  BY DEF Orders
<1> DEFINE x == [f \in D \ {fd} |-> t.index[f]]
<1>2. /\ t = [heap |-> t.heap, index |-> t.index] /\ t.heap \in Seq(Nodes)
      /\ DOMAIN t.heap = 1..Len(t.heap)
      /\ \A k \in 1..Len(t.heap) : t.heap[k] \in Range(t.heap)
      /\ D \in SUBSET Fds /\ t.index \in [D -> 1..MaxFd]
  BY <1>1, TimerParts
<1>3. Erase(t, fd) = [heap |-> t.heap, index |-> x]
  BY <1>1, <1>2 DEF Erase
<1>4. x \in [D \ {fd} -> 1..MaxFd] /\ D \ {fd} \in SUBSET Fds
  BY <1>2
<1>5. [heap |-> t.heap, index |-> x] \in Timers
  <2> HIDE DEF x
  <2> QED
    BY <1>2, <1>4, TimersIntro
<1>6. \A k \in 1..Len(t.heap) : t.heap[k].fd \in D \ {fd} /\ x[t.heap[k].fd] = k
  BY <1>1, <1>2 DEF Kept, KeptAt
<1>7. Kept([heap |-> t.heap, index |-> x])
  BY <1>2, <1>4, <1>6 DEF Kept, KeptAt
<1> QED
  BY <1>1, <1>3, <1>4, <1>5, <1>7 DEF Orders

\* push_back, with the position of the new node.
LEMMA PushBackOrders ==
  ASSUME NEW N, NEW D, NEW n \in Nat, NEW t \in Orders(N, D, n), NEW m \in Nodes,
         \A k \in N : k.fd # m.fd, n + 1 <= MaxFd
  PROVE  [heap |-> Append(t.heap, m), index |-> Enter(t.index, m.fd, n + 1)]
           \in Orders(N \cup {m}, D \cup {m.fd}, n + 1)
<1>1. /\ t \in Timers /\ Kept(t) /\ Range(t.heap) = N
      /\ DOMAIN t.index = D /\ Len(t.heap) = n
  BY DEF Orders
<1> DEFINE g == t.heap
           h == Append(g, m)
           x == Enter(t.index, m.fd, n + 1)
<1>2. /\ g \in Seq(Nodes) /\ DOMAIN g = 1..n /\ Len(g) = n
      /\ \A k \in 1..n : g[k] \in Range(g) /\ KeptAt(t, k)
      /\ D \in SUBSET Fds /\ t.index \in [D -> 1..MaxFd]
  BY <1>1, TimerParts DEF Kept
<1> HIDE DEF g
<1>3. /\ h \in Seq(Nodes) /\ Len(h) = n + 1 /\ DOMAIN h = 1..(n + 1)
      /\ h[n + 1] = m /\ \A k \in 1..n : h[k] = g[k]
  BY <1>2
<1>4. /\ DOMAIN x = D \cup {m.fd} /\ x[m.fd] = n + 1
      /\ \A f \in D : f # m.fd => x[f] = t.index[f]
      /\ x = [f \in D \cup {m.fd} |-> x[f]]
  BY <1>1 DEF Enter
<1> HIDE DEF h, x
<1>5. x \in [D \cup {m.fd} -> 1..MaxFd] /\ D \cup {m.fd} \in SUBSET Fds
  <2>1. m.fd \in Fds
    BY DEF Nodes
  <2>2. n + 1 \in 1..MaxFd
    BY BoundsAssumption
  <2>3. \A f \in D \cup {m.fd} : x[f] \in 1..MaxFd
    BY <1>2, <1>4, <2>2
  <2> QED
    BY <1>2, <1>4, <2>1, <2>3
<1>6. \A k \in 1..(n + 1) : k = n + 1 \/ k \in 1..n
  OBVIOUS
<1>7. Range(h) = N \cup {m}
  <2>1. Range(h) = {h[k] : k \in 1..(n + 1)} /\ N = {g[k] : k \in 1..n}
    BY <1>1, <1>2, <1>3 DEF Range, g
  <2>2. \A k \in 1..n : k \in 1..(n + 1)
    OBVIOUS
  <2>3. n + 1 \in 1..(n + 1)
    OBVIOUS
  <2> QED
    BY <1>3, <1>6, <2>1, <2>2, <2>3
<1>8. [heap |-> h, index |-> x] \in Timers
  BY <1>3, <1>5, TimersIntro
<1>9. \A k \in 1..(n + 1) : h[k].fd \in DOMAIN x /\ x[h[k].fd] = k
  <2> TAKE k \in 1..(n + 1)
  <2>1. CASE k = n + 1
    BY <1>3, <1>4, <2>1
  <2>2. CASE k \in 1..n
    <3>1. g[k].fd \in D /\ t.index[g[k].fd] = k /\ g[k].fd # m.fd
      BY <1>1, <1>2, <2>2 DEF KeptAt, g
    <3> QED
      BY <1>3, <1>4, <2>2, <3>1
  <2> QED
    BY <1>6, <2>1, <2>2
<1>10. Kept([heap |-> h, index |-> x])
  BY <1>3, <1>9 DEF Kept, KeptAt
<1>11. [heap |-> h, index |-> x] \in Orders(N \cup {m}, D \cup {m.fd}, n + 1)
  BY <1>3, <1>4, <1>7, <1>8, <1>10 DEF Orders
<1> QED
  BY <1>11 DEF h, x, g

\* A new deadline for the node at position i.
LEMMA RenewOrders ==
  ASSUME NEW N, NEW D, NEW n \in Nat, NEW t \in Orders(N, D, n), NEW i \in 1..n,
         NEW e \in Nat
  PROVE  [t EXCEPT !.heap[i].expire = e]
           \in Orders((N \ {t.heap[i]}) \cup {[fd |-> t.heap[i].fd, expire |-> e]}, D, n)
<1>1. /\ t \in Timers /\ Kept(t) /\ Range(t.heap) = N
      /\ DOMAIN t.index = D /\ Len(t.heap) = n
  BY DEF Orders
<1> DEFINE g == t.heap
           x == t.index
           m == [fd |-> g[i].fd, expire |-> e]
           h == [g EXCEPT ![i] = m]
<1>2. /\ t = [heap |-> g, index |-> x]
      /\ g \in Seq(Nodes) /\ DOMAIN g = 1..n /\ Len(g) = n
      /\ \A k \in 1..n : g[k] \in Nodes /\ g[k].fd \in Fds /\ KeptAt(t, k)
      /\ D \in SUBSET Fds /\ x \in [D -> 1..MaxFd]
  BY <1>1, TimerParts DEF Kept
<1>3. Distinct(g)
  BY <1>1, KeptIsDistinct
<1>4. \A k \in 1..n : g[k].fd \in DOMAIN x /\ x[g[k].fd] = k
  BY <1>2 DEF KeptAt
<1>5. [t EXCEPT !.heap[i].expire = e] = [heap |-> h, index |-> x]
  <2>1. \A a, b : [[heap |-> a, index |-> b] EXCEPT !.heap[i].expire = e]
                    = [heap |-> [a EXCEPT ![i].expire = e], index |-> b]
    OBVIOUS
  <2>2. [g EXCEPT ![i].expire = e] = h
    <3>1. [g[i] EXCEPT !.expire = e] = m
      BY <1>2 DEF Nodes
    <3> HIDE DEF g, m
    <3> QED
      BY <3>1
  <2> HIDE DEF g, x, h
  <2> QED
    BY <1>2, <2>1, <2>2
<1>6. m \in Nodes /\ m.fd = g[i].fd
  <2>1. g[i].fd \in Fds
    BY <1>2
  <2> QED
    BY <2>1 DEF Nodes
<1> HIDE DEF g, x, m
<1>7. /\ h \in Seq(Nodes) /\ DOMAIN h = 1..n /\ Len(h) = n
      /\ h[i] = m /\ \A k \in 1..n : k # i => h[k] = g[k]
  BY <1>2, <1>6
<1> HIDE DEF h
<1>8. Range(h) = (N \ {g[i]}) \cup {m}
  <2>1. Range(h) = {h[k] : k \in 1..n} /\ N = {g[k] : k \in 1..n}
    BY <1>1, <1>2, <1>7 DEF Range, g
  <2>2. \A k \in 1..n : k # i => g[k] # g[i]
    BY <1>2, <1>3 DEF Distinct
  <2> QED
    BY <1>7, <2>1, <2>2
<1>9. [heap |-> h, index |-> x] \in Timers
  BY <1>2, <1>7, TimersIntro
<1>10. \A k \in 1..n : h[k].fd \in DOMAIN x /\ x[h[k].fd] = k
  BY <1>4, <1>6, <1>7
<1>11. Kept([heap |-> h, index |-> x])
  BY <1>7, <1>10 DEF Kept, KeptAt
<1>12. DOMAIN x = D
  BY <1>1 DEF x
<1>13. [heap |-> h, index |-> x] \in Orders((N \ {g[i]}) \cup {m}, D, n)
  BY <1>7, <1>8, <1>9, <1>11, <1>12 DEF Orders
<1> QED
  BY <1>5, <1>13 DEF g, m

-----------------------------------------------------------------------------
(* What the operations do to the variables.                                *)

LEMMA TimerAs ==
  ASSUME Timer \in Timers, Kept(Timer)
  PROVE  /\ Timer \in Orders(Range(heap), DOMAIN index, Len(heap))
         /\ heap \in Seq(Nodes) /\ Len(heap) \in Nat /\ Len(heap) <= MaxFd
         /\ DOMAIN heap = 1..Len(heap)
         /\ \A i \in 1..Len(heap) : /\ heap[i] \in Range(heap) /\ heap[i].fd \in Fds
                                    /\ heap[i].fd \in DOMAIN index /\ index[heap[i].fd] = i
         /\ DOMAIN index \subseteq Fds /\ index \in [DOMAIN index -> 1..MaxFd]
<1>1. Timer.heap = heap /\ Timer.index = index
  BY DEF Timer
<1>2. Timer \in Orders(Range(heap), DOMAIN index, Len(heap))
  BY <1>1 DEF Orders
<1>3. Len(heap) <= MaxFd
  BY <1>1, KeptFits
<1> QED
  BY <1>1, <1>2, <1>3, TimerParts DEF Kept, KeptAt

LEMMA SetTimerIs ==
  ASSUME NEW N, NEW D, NEW n, NEW t \in Orders(N, D, n), SetTimer(t)
  PROVE  /\ Timer' \in Orders(N, D, n) /\ damaged' = damaged
         /\ Range(heap') = N /\ DOMAIN index' = D /\ Len(heap') = n
         /\ Timer' \in Timers /\ Kept(Timer')
<1>1. t \in Timers
  BY DEF Orders
<1>2. Timer' = t /\ damaged' = damaged /\ heap' = t.heap /\ index' = t.index
  BY <1>1, TimerParts DEF SetTimer, Timer
<1> QED
  BY <1>2 DEF Orders

\* add: a node for a descriptor that has none.
LEMMA AddDoes ==
  ASSUME Timer \in Timers, Kept(Timer), now + Timeout \in Nat, Len(heap) + 1 <= MaxFd,
         NEW fd \in Fds, \A k \in Range(heap) : k.fd # fd,
         Add(fd)
  PROVE  /\ Timer' \in Orders(Range(heap) \cup {[fd |-> fd, expire |-> now + Timeout]},
                              DOMAIN index \cup {fd}, Len(heap) + 1)
         /\ damaged' = damaged
<1> DEFINE m == [fd |-> fd, expire |-> now + Timeout]
           N == Range(heap)
           D == DOMAIN index
           n == Len(heap)
           t == [heap |-> Append(heap, m), index |-> Enter(index, fd, n + 1)]
<1>1. m \in Nodes /\ m.fd = fd
  BY DEF Nodes
<1>2. Timer \in Orders(N, D, n) /\ n \in Nat /\ Timer.heap = heap /\ Timer.index = index
  BY TimerAs DEF Timer
<1>3. SetTimer(SiftUp(t, n + 1))
  BY DEF Add
<1> HIDE DEF m, N, D, n
<1>4. (\A k \in N : k.fd # m.fd) /\ n + 1 <= MaxFd
  BY <1>1 DEF N, n
<1>5. [heap |-> Append(Timer.heap, m), index |-> Enter(Timer.index, m.fd, n + 1)]
        \in Orders(N \cup {m}, D \cup {m.fd}, n + 1)
  BY <1>1, <1>2, <1>4, PushBackOrders
<1>6. t \in Orders(N \cup {m}, D \cup {fd}, n + 1)
  BY <1>1, <1>2, <1>5
<1> HIDE DEF t
<1>7. n + 1 \in Nat /\ n + 1 \in 1..(n + 1)
  BY <1>2
<1>8. SiftUp(t, n + 1) \in Orders(N \cup {m}, D \cup {fd}, n + 1)
  BY <1>6, <1>7, SiftUpOrders
<1>9. Timer' \in Orders(N \cup {m}, D \cup {fd}, n + 1) /\ damaged' = damaged
  BY <1>3, <1>8, SetTimerIs
<1> QED
  BY <1>9 DEF m, N, D, n

\* remove, with the position of the descriptor in the vector: the node there goes.
LEMMA RemoveDoes ==
  ASSUME Timer \in Timers, Kept(Timer), NEW fd \in DOMAIN index, InVector(fd),
         Remove(fd)
  PROVE  /\ Timer' \in Orders(Range(heap) \ {heap[index[fd]]}, DOMAIN index \ {fd}, Len(heap) - 1)
         /\ damaged' = damaged
<1> DEFINE N == Range(heap)
           D == DOMAIN index
           n == Len(heap)
           i == index[fd]
           u == SwapNodes(Timer, i, n)
           p == PopBack(u)
           t == Erase(p, fd)
<1>1. /\ Timer \in Orders(N, D, n) /\ n \in Nat /\ n <= MaxFd /\ Timer.heap = heap /\ Timer.index = index
      /\ DOMAIN heap = 1..n
  BY TimerAs DEF Timer
<1>2. i \in 1..n /\ n \in 1..n
  BY TimerAs DEF InVector
<1>3. SetTimer(IF i <= Len(t.heap) THEN SiftDown(SiftUp(t, i), i) ELSE t)
  BY DEF Remove
<1>4. /\ u \in Orders(N, D, n)
      /\ u.heap[n] = heap[i]
  <2> HIDE DEF N, D, n, i, u
  <2>1. u \in Orders(N, D, n)
    BY <1>1, <1>2, SwapOrders DEF u
  <2>2. Len(Timer.heap) = n /\ \A k \in 1..n : KeptAt(Timer, k)
    BY <1>1 DEF Kept, n
  <2>3. Distinct(Timer.heap)
    BY KeptIsDistinct
  <2>4. u.heap[n] = Timer.heap[i]
    BY <1>1, <1>2, <2>2, <2>3, SwapNodesKeeps DEF u
  <2> QED
    BY <1>1, <2>1, <2>4
<1>5. \A m \in N \ {heap[i]} : m.fd # fd
  <2> SUFFICES ASSUME NEW m \in N \ {heap[i]}, m.fd = fd PROVE FALSE
    OBVIOUS
  <2>1. PICK k \in 1..n : m = heap[k]
    BY <1>1 DEF Range
  <2>2. index[fd] = k
    BY <2>1, TimerAs
  <2> QED
    BY <2>1, <2>2
<1> HIDE DEF N, D, i, u
<1>6. n # 0
  BY <1>1, <1>2
<1>7. p \in Orders(N \ {heap[i]}, D, n - 1)
  <2> HIDE DEF n
  <2> QED
    BY <1>1, <1>4, <1>6, PopBackOrders
<1> HIDE DEF p
<1>8. t \in Orders(N \ {heap[i]}, D \ {fd}, n - 1)
  <2> HIDE DEF n
  <2> QED
    BY <1>5, <1>7, EraseOrders
<1>9. Len(t.heap) = n - 1 /\ n - 1 \in Nat
  <2> HIDE DEF n, t
  <2>1. Len(t.heap) = n - 1
    BY <1>8 DEF Orders
  <2> QED
    BY <1>1, <1>6, <2>1
<1> HIDE DEF t
<1>10. CASE i <= n - 1
  <2>1. i \in 1..(n - 1)
    BY <1>1, <1>2, <1>10
  <2> HIDE DEF n
  <2>2. SiftUp(t, i) \in Orders(N \ {heap[i]}, D \ {fd}, n - 1)
    BY <1>8, <1>9, <2>1, SiftUpOrders
  <2>3. SiftDown(SiftUp(t, i), i) \in Orders(N \ {heap[i]}, D \ {fd}, n - 1)
    BY <1>9, <2>1, <2>2, SiftDownOrders
  <2>4. SetTimer(SiftDown(SiftUp(t, i), i))
    BY <1>3, <1>9, <1>10
  <2>5. Timer' \in Orders(N \ {heap[i]}, D \ {fd}, n - 1) /\ damaged' = damaged
    BY <2>3, <2>4, SetTimerIs
  <2> QED
    BY <2>5 DEF N, D, n, i
<1>11. CASE ~(i <= n - 1)
  <2> HIDE DEF n
  <2>1. SetTimer(t)
    BY <1>3, <1>9, <1>11
  <2>2. Timer' \in Orders(N \ {heap[i]}, D \ {fd}, n - 1) /\ damaged' = damaged
    BY <1>8, <2>1, SetTimerIs
  <2> QED
    BY <2>2 DEF N, D, n, i
<1> QED
  BY <1>10, <1>11

\* refresh, likewise: the node there gets a new deadline.
LEMMA RefreshDoes ==
  ASSUME Timer \in Timers, Kept(Timer), now + Timeout \in Nat,
         NEW fd \in DOMAIN index, InVector(fd), Refresh(fd)
  PROVE  /\ Timer' \in Orders((Range(heap) \ {heap[index[fd]]})
                                \cup {[fd |-> heap[index[fd]].fd, expire |-> now + Timeout]},
                              DOMAIN index, Len(heap))
         /\ damaged' = damaged
<1> DEFINE e == now + Timeout
           i == index[fd]
           n == Len(heap)
           D == DOMAIN index
           N == (Range(heap) \ {heap[i]}) \cup {[fd |-> heap[i].fd, expire |-> e]}
           t == [Timer EXCEPT !.heap[i].expire = e]
<1>1. /\ Timer \in Orders(Range(heap), D, n) /\ n \in Nat /\ Timer.heap = heap
      /\ i \in 1..n
  BY TimerAs DEF Timer, InVector
<1>2. \/ SetTimer(SiftUp(t, i))
      \/ SetTimer(SiftDown(t, i))
  <2>1. SetTimer(IF e < heap[i].expire THEN SiftUp(t, i) ELSE SiftDown(t, i))
    BY DEF Refresh
  <2> HIDE DEF e, i, t
  <2> QED
    BY <2>1
<1>3. t \in Orders(N, D, n)
  <2> DEFINE R == Range(heap)
  <2>1. Timer \in Orders(R, D, n) /\ e \in Nat
    BY <1>1
  <2> HIDE DEF e, i, n, D, R
  <2>2. t \in Orders((R \ {Timer.heap[i]}) \cup {[fd |-> Timer.heap[i].fd, expire |-> e]}, D, n)
    BY <1>1, <2>1, RenewOrders
  <2> QED
    BY <1>1, <2>2 DEF R
<1> HIDE DEF N, D, t, n, i
<1>4. SiftUp(t, i) \in Orders(N, D, n) /\ SiftDown(t, i) \in Orders(N, D, n)
  BY <1>1, <1>3, SiftUpOrders, SiftDownOrders
<1>5. Timer' \in Orders(N, D, n) /\ damaged' = damaged
  BY <1>2, <1>4, SetTimerIs
<1> QED
  BY <1>5 DEF N, D, n, i, e

\* The states of the loop of tick: some of the nodes N are left, and each
\* descriptor taken has a node of N with a deadline that has come.
Ticks(N, D) ==
  {s \in [timer : Timers, fds : SUBSET Fds] :
     /\ Kept(s.timer) /\ Range(s.timer.heap) \subseteq N /\ DOMAIN s.timer.index = D
     /\ \A fd \in s.fds : \E m \in N : m.fd = fd /\ m.expire <= now}

\* A node is popped although its descriptor was erased: swap_nodes enters it again.
LEMMA TickTurnTicks ==
  ASSUME now \in Nat, NEW N, NEW D, NEW s \in Ticks(N, D)
  PROVE  TickTurn(s) \in Ticks(N, D)
<1>1. /\ s.timer \in Timers /\ s.fds \in SUBSET Fds
      /\ Kept(s.timer) /\ Range(s.timer.heap) \subseteq N /\ DOMAIN s.timer.index = D
      /\ \A fd \in s.fds : \E m \in N : m.fd = fd /\ m.expire <= now
  BY DEF Ticks
<1>2. CASE s.timer.heap = <<>> \/ s.timer.heap[1].expire > now
  BY <1>2 DEF TickTurn
<1>3. CASE ~(s.timer.heap = <<>> \/ s.timer.heap[1].expire > now)
  <2> DEFINE t == s.timer
             n == Len(t.heap)
             fd == t.heap[1].fd
             e == Erase(t, fd)
             u == SwapNodes(e, 1, n)
             popped == PopBack(u)
             left == IF popped.heap # <<>> THEN SiftDown(popped, 1) ELSE popped
  <2>1. TickTurn(s) = [timer |-> left, fds |-> s.fds \cup {fd}]
    BY <1>3, Zenon DEF TickTurn
  <2>2. /\ t = [heap |-> t.heap, index |-> t.index]
        /\ t.heap \in Seq(Nodes) /\ n \in Nat /\ DOMAIN t.heap = 1..n
        /\ \A k \in 1..n : /\ t.heap[k] \in Nodes /\ t.heap[k] \in Range(t.heap)
                           /\ t.heap[k].fd \in Fds /\ t.heap[k].expire \in Nat
                           /\ KeptAt(t, k)
        /\ D \in SUBSET Fds /\ t.index \in [D -> 1..MaxFd]
    BY <1>1, TimerParts DEF Kept
  <2>3. n # 0 /\ n <= MaxFd /\ Distinct(t.heap)
    BY <1>1, <1>3, <2>2, KeptFits, KeptIsDistinct
  <2>4. 1 \in 1..n /\ n \in 1..n
    BY <2>2, <2>3
  <2>5. e = [heap |-> t.heap, index |-> [f \in D \ {fd} |-> t.index[f]]]
    BY <1>1, <2>2 DEF Erase
  <2>6. e \in Timers
    <3> DEFINE x == [f \in D \ {fd} |-> t.index[f]]
    <3>1. x \in [D \ {fd} -> 1..MaxFd] /\ D \ {fd} \in SUBSET Fds
      BY <2>2
    <3> HIDE DEF x
    <3>2. [heap |-> t.heap, index |-> x] \in Timers
      BY <2>2, <3>1, TimersIntro
    <3> QED
      BY <2>5, <3>2 DEF x
  <2>7. \A k \in 1..n : k \notin {1, n} => KeptAt(e, k)
    <3> TAKE k \in 1..n
    <3> HAVE k \notin {1, n}
    <3>1. t.heap[k].fd # fd
      BY <2>2, <2>3, <2>4 DEF Distinct
    <3>2. t.heap[k].fd \in D /\ t.index[t.heap[k].fd] = k
      BY <1>1, <2>2 DEF KeptAt
    <3> QED
      BY <2>5, <3>1, <3>2 DEF KeptAt
  <2>8. e.heap = t.heap /\ DOMAIN e.index = D \ {fd}
    BY <2>5
  <2>9. /\ u \in Timers /\ Kept(u) /\ Len(u.heap) = n /\ Range(u.heap) = Range(t.heap)
        /\ DOMAIN u.index = (D \ {fd}) \cup {t.heap[1].fd, t.heap[n].fd}
    <3> DEFINE l == Len(e.heap)
    <3>1. /\ e \in Timers /\ Distinct(e.heap) /\ Len(e.heap) <= MaxFd
          /\ 1 \in 1..Len(e.heap) /\ l \in 1..Len(e.heap)
          /\ \A k \in 1..Len(e.heap) : k \notin {1, l} => KeptAt(e, k)
      BY <2>3, <2>4, <2>6, <2>7, <2>8
    <3> HIDE DEF e, l
    <3>2. LET v == SwapNodes(e, 1, l)
          IN  /\ v \in Timers /\ Kept(v)
              /\ Len(v.heap) = Len(e.heap) /\ Range(v.heap) = Range(e.heap)
              /\ DOMAIN v.index = DOMAIN e.index \cup {e.heap[1].fd, e.heap[l].fd}
      BY <3>1, SwapNodesKeeps
    <3>3. l = n
      BY <2>8 DEF l
    <3> QED
      BY <2>8, <3>2, <3>3
  <2>10. u \in Orders(Range(t.heap), D, n)
    <3>1. t.heap[1].fd \in D /\ t.heap[n].fd \in D
      BY <1>1, <2>2, <2>4 DEF KeptAt
    <3>2. DOMAIN u.index = D
      BY <2>9, <3>1
    <3> HIDE DEF u
    <3> QED
      BY <2>9, <3>2 DEF Orders
  <2> HIDE DEF u, e
  <2>11. popped \in Orders(Range(t.heap) \ {u.heap[n]}, D, n - 1)
    <3> DEFINE R == Range(t.heap)
    <3> HIDE DEF n, R
    <3>1. u \in Orders(R, D, n) /\ n \in Nat /\ n # 0
      BY <2>2, <2>3, <2>10 DEF R
    <3>2. popped \in Orders(R \ {u.heap[n]}, D, n - 1)
      BY <3>1, PopBackOrders
    <3> QED
      BY <3>2 DEF R
  <2> HIDE DEF popped
  <2>12. left \in Orders(Range(t.heap) \ {u.heap[n]}, D, n - 1)
    <3> DEFINE R == Range(t.heap) \ {u.heap[n]}
               k == n - 1
    <3>1. popped \in Orders(R, D, k) /\ k \in Nat
      BY <2>2, <2>3, <2>11
    <3>2. popped.heap # <<>> => k # 0
      <4> HIDE DEF R, k
      <4>1. Len(popped.heap) = k /\ popped.heap \in Seq(Nodes)
        BY <3>1, TimerParts DEF Orders
      <4> QED
        BY <4>1
    <3> HIDE DEF R, k
    <3>3. popped.heap # <<>> => SiftDown(popped, 1) \in Orders(R, D, k)
      <4> HAVE popped.heap # <<>>
      <4>1. 1 \in 1..k
        BY <3>1, <3>2
      <4> QED
        BY <3>1, <4>1, SiftDownOrders
    <3>4. left \in Orders(R, D, k)
      BY <3>1, <3>3
    <3> QED
      BY <3>4 DEF R, k
  <2> HIDE DEF left
  <2>13. /\ left \in Timers /\ Kept(left) /\ Range(left.heap) \subseteq N
         /\ DOMAIN left.index = D
    BY <1>1, <2>12 DEF Orders
  <2>14. fd \in Fds /\ \E m \in N : m.fd = fd /\ m.expire <= now
    <3>1. t.heap[1] \in N /\ t.heap[1].expire <= now
      BY <1>1, <1>3, <2>2, <2>4
    <3> QED
      BY <2>2, <2>4, <3>1
  <2> HIDE DEF fd
  <2>15. [timer |-> left, fds |-> s.fds \cup {fd}] \in Ticks(N, D)
    BY <1>1, <2>13, <2>14 DEF Ticks
  <2> QED
    BY <2>1, <2>15
<1> QED
  BY <1>2, <1>3

\* tick as a whole.
LEMMA ExpireTicks ==
  ASSUME now \in Nat, Timer \in Timers, Kept(Timer)
  PROVE  Expire \in Ticks(Range(heap), DOMAIN index)
<1> DEFINE N == Range(heap)
           D == DOMAIN index
           n == Len(heap)
           V == Ticks(N, D)
           c == [timer |-> Timer, fds |-> {}]
           F == [s \in V |-> TickTurn(s)]
           turn[k \in Nat] == IF k = 0 THEN c ELSE TickTurn(turn[k - 1])
<1>1. c \in V
  BY DEF Ticks, Timer
<1>2. F \in [V -> V]
  BY TickTurnTicks
<1>3. Expire = turn[n] /\ n \in Nat
  BY TimerAs DEF Expire
<1>4. \A s \in V : F[s] = TickTurn(s)
  OBVIOUS
<1> HIDE DEF V, c, F, n
<1>5. \E g : g = [k \in Nat |-> IF k = 0 THEN c ELSE TickTurn(g[k - 1])]
  <2> HIDE DEF turn
  <2> DEFINE g == Turning(V, c, F)
  <2>1. /\ g \in [Nat -> V] /\ g[0] = c
        /\ \A k \in Nat : k # 0 => g[k] = F[g[k - 1]]
    BY <1>1, <1>2, Loop
  <2> HIDE DEF g
  <2>2. \A k \in Nat : k # 0 => k - 1 \in Nat
    OBVIOUS
  <2>3. \A k \in Nat : k # 0 => F[g[k - 1]] = TickTurn(g[k - 1])
    BY <1>4, <2>1, <2>2
  <2>4. g = [k \in Nat |-> IF k = 0 THEN c ELSE TickTurn(g[k - 1])]
    BY <2>1, <2>3
  <2> QED
    BY <2>4
<1>6. turn = [k \in Nat |-> IF k = 0 THEN c ELSE TickTurn(turn[k - 1])]
  <2> HIDE DEF turn
  <2> QED
    BY <1>5 DEF turn
<1> HIDE DEF turn
<1> DEFINE A == {k \in Nat : turn[k] \in V}
<1>7. 0 \in A
  BY <1>1, <1>6
<1>8. ASSUME NEW k \in Nat, k \in A PROVE k + 1 \in A
  <2>1. k + 1 # 0 /\ k + 1 \in Nat /\ (k + 1) - 1 = k
    OBVIOUS
  <2>2. turn[k + 1] = TickTurn(turn[k])
    BY <1>6, <2>1
  <2>3. turn[k] \in V
    BY <1>8
  <2>4. TickTurn(turn[k]) \in V
    BY <2>3, TickTurnTicks DEF V
  <2> QED
    BY <2>1, <2>2, <2>4
<1>9. Nat \subseteq A
  <2> HIDE DEF A
  <2> QED
    BY <1>7, <1>8, NaturalSteps
<1>10. turn[n] \in V
  BY <1>3, <1>9
<1> QED
  BY <1>3, <1>10 DEF V

-----------------------------------------------------------------------------
(* The inductive invariant.                                                *)

\* Until the first time-out the nodes are those of the open connections.
Exact ==
  ~expired =>
    /\ ~damaged /\ DOMAIN index = open
    /\ Range(heap) = {[fd |-> fd, expire |-> due[fd]] : fd \in open}

\* No node runs out before its connection is due, whichever connection's
\* refresh last gave it its deadline.
Deadlines ==
  /\ \A fd \in Fds : due[fd] <= now + Timeout
  /\ \A k \in Range(heap) : k.fd \in open /\ due[k.fd] <= k.expire

IInv ==
  /\ now \in 0..MaxTime /\ open \in SUBSET Fds /\ marked \in SUBSET open
  /\ damaged \in BOOLEAN /\ expired \in BOOLEAN /\ due \in [Fds -> Nat]
  /\ Timer \in Timers /\ Kept(Timer)
  /\ ~damaged => DOMAIN index \subseteq open
  /\ Deadlines /\ Exact

\* The descriptors of the nodes, by position: no two are the same.
LEMMA NodeFds ==
  ASSUME IInv
  PROVE  LET f == [i \in 1..Len(heap) |-> heap[i].fd]
         IN  /\ f \in Injection(1..Len(heap), open)
             /\ {heap[i].fd : i \in DOMAIN heap} = {k.fd : k \in Range(heap)}
             /\ {heap[i].fd : i \in DOMAIN heap} = open => f \in Bijection(1..Len(heap), open)
<1> DEFINE n == Len(heap)
           f == [i \in 1..n |-> heap[i].fd]
<1>1. /\ DOMAIN heap = 1..n
      /\ \A i \in 1..n : heap[i] \in Range(heap) /\ index[heap[i].fd] = i
  BY TimerAs DEF IInv
<1>2. \A i \in 1..n : heap[i].fd \in open
  BY <1>1 DEF IInv, Deadlines
<1> HIDE DEF n
<1>3. f \in [1..n -> open]
  BY <1>2
<1>4. \A i, j \in 1..n : f[i] = f[j] => i = j
  <2> SUFFICES ASSUME NEW i \in 1..n, NEW j \in 1..n, heap[i].fd = heap[j].fd
               PROVE  i = j
    OBVIOUS
  <2>1. index[heap[i].fd] = i /\ index[heap[j].fd] = j
    BY <1>1
  <2> QED
    BY <2>1
<1>5. {heap[i].fd : i \in DOMAIN heap} = {k.fd : k \in Range(heap)}
  BY DEF Range
<1>6. f \in Injection(1..n, open)
  <2> HIDE DEF f
  <2> QED
    BY <1>3, <1>4 DEF Injection, IsInjective
<1>7. ASSUME {heap[i].fd : i \in DOMAIN heap} = open PROVE f \in Bijection(1..n, open)
  <2>1. \A g \in open : \E i \in 1..n : f[i] = g
    BY <1>1, <1>7
  <2>2. f \in Surjection(1..n, open)
    <3> HIDE DEF f
    <3> QED
      BY <1>3, <2>1 DEF Surjection
  <2> QED
    BY <1>6, <2>2 DEF Bijection
<1> QED
  BY <1>5, <1>6, <1>7 DEF n

\* accept finds a descriptor, and there is room for its node.
LEMMA FreeFd ==
  ASSUME IInv, open # Fds
  PROVE  Min(Fds \ open) \in Fds \ open /\ Len(heap) + 1 <= MaxFd
<1> DEFINE S == Fds \ open
           n == Len(heap)
<1>1. S \in SUBSET Nat /\ S # {}
  <2>1. open \in SUBSET Fds
    BY DEF IInv
  <2>2. Fds \in SUBSET Nat
    BY DEF Fds
  <2> QED
    BY <2>1, <2>2
<1>2. \E m \in S : \A k \in S : m <= k
  <2> HIDE DEF S
  <2> QED
    BY <1>1, LeastNatural
<1>3. Min(S) \in S
  <2> HIDE DEF S
  <2> QED
    BY <1>2 DEF Min
<1>4. IsFiniteSet(Fds) /\ Cardinality(Fds) = MaxFd
  <2>1. MaxFd \in Int /\ 1 \in Int /\ MaxFd >= 1
    BY BoundsAssumption
  <2>2. IsFiniteSet(1..MaxFd) /\ Cardinality(1..MaxFd) = IF 1 > MaxFd THEN 0 ELSE MaxFd - 1 + 1
    BY <2>1, FS_Interval
  <2> QED
    BY <2>1, <2>2 DEF Fds
<1>5. open \in SUBSET Fds
  BY DEF IInv
<1>6. IsFiniteSet(open) /\ Cardinality(open) <= MaxFd /\ Cardinality(open) # MaxFd
  BY <1>4, <1>5, FS_Subset
<1>7. Cardinality(open) \in Nat
  BY <1>6, FS_CardinalityType
<1>8. n \in Nat
  BY TimerAs DEF IInv
<1>9. Cardinality(1..n) <= Cardinality(open)
  BY <1>6, NodeFds, FS_Injection
<1>10. Cardinality(1..n) = n
  <2> HIDE DEF n
  <2>1. n \in Int /\ 1 \in Int
    BY <1>8
  <2>2. Cardinality(1..n) = IF 1 > n THEN 0 ELSE n - 1 + 1
    BY <2>1, FS_Interval
  <2> QED
    BY <1>8, <2>2
<1>11. n + 1 <= MaxFd
  <2> HIDE DEF n
  <2> QED
    BY <1>6, <1>7, <1>8, <1>9, <1>10, BoundsAssumption
<1> QED
  BY <1>3, <1>11

LEMMA InitInv == Init => IInv
<1> SUFFICES ASSUME Init PROVE IInv
  OBVIOUS
<1>1. /\ now = 0 /\ open = {} /\ marked = {} /\ heap = <<>> /\ index = [fd \in {} |-> 0]
      /\ damaged = FALSE /\ due = [fd \in Fds |-> 0] /\ expired = FALSE
  BY DEF Init
<1>2. /\ Range(heap) = {} /\ DOMAIN heap = {} /\ DOMAIN index = {}
      /\ heap \in Seq(Nodes) /\ {} \in SUBSET Fds /\ index \in [{} -> 1..MaxFd]
  BY <1>1 DEF Range
<1>3. Timer \in Timers
  BY <1>2, TimersIntro DEF Timer
<1>4. Kept(Timer)
  BY <1>2 DEF Kept, Timer
<1>5. now \in 0..MaxTime
  BY <1>1, BoundsAssumption
<1>6. \A fd \in Fds : due[fd] <= now + Timeout
  BY <1>1, BoundsAssumption
<1>7. Deadlines /\ Exact
  BY <1>1, <1>2, <1>6 DEF Deadlines, Exact
<1> QED
  BY <1>1, <1>2, <1>3, <1>4, <1>5, <1>7 DEF IInv

\* The nodes and positions a descriptor can have.
LEMMA OwnNode ==
  ASSUME IInv, NEW fd
  PROVE  /\ \A k \in Range(heap) : k.fd = fd =>
              fd \in DOMAIN index /\ InVector(fd) /\ k = heap[index[fd]]
         /\ ~expired /\ fd \in open =>
              /\ fd \in DOMAIN index /\ InVector(fd)
              /\ heap[index[fd]] = [fd |-> fd, expire |-> due[fd]]
<1>1. \A k \in Range(heap) : k.fd = fd =>
        fd \in DOMAIN index /\ InVector(fd) /\ k = heap[index[fd]]
  <2> SUFFICES ASSUME NEW k \in Range(heap), k.fd = fd
               PROVE  fd \in DOMAIN index /\ InVector(fd) /\ k = heap[index[fd]]
    OBVIOUS
  <2>1. Timer \in Timers /\ Kept(Timer)
    BY DEF IInv
  <2>2. PICK i \in DOMAIN heap : k = heap[i]
    BY DEF Range
  <2>3. i \in 1..Len(heap) /\ Len(heap) \in Nat
    BY <2>1, <2>2, TimerAs
  <2>4. fd \in DOMAIN index /\ index[fd] = i
    BY <2>1, <2>2, <2>3, TimerAs
  <2> QED
    BY <2>2, <2>3, <2>4 DEF InVector
<1>2. ASSUME ~expired, fd \in open
      PROVE  /\ fd \in DOMAIN index /\ InVector(fd)
             /\ heap[index[fd]] = [fd |-> fd, expire |-> due[fd]]
  <2> DEFINE k == [fd |-> fd, expire |-> due[fd]]
  <2>1. k \in Range(heap) /\ k.fd = fd
    BY <1>2 DEF IInv, Exact
  <2> HIDE DEF k
  <2> QED
    BY <1>1, <2>1 DEF k
<1> QED
  BY <1>1, <1>2

\* The parts of IInv about the timer, from what an operation did.
LEMMA Regained ==
  ASSUME NEW N, NEW D, NEW n, Timer' \in Orders(N, D, n)
  PROVE  /\ Timer' \in Timers /\ Kept(Timer')
         /\ Range(heap') = N /\ DOMAIN index' = D
BY DEF Orders, Timer

LEMMA AdvanceInv ==
  ASSUME IInv, Advance
  PROVE  IInv'
<1>1. /\ now' = now + 1 /\ now < MaxTime
      /\ UNCHANGED <<open, marked, heap, index, damaged, due, expired>>
  BY DEF Advance, timer
<1>2. now' \in 0..MaxTime /\ \A fd \in Fds : due[fd] <= now + Timeout => due[fd] <= now' + Timeout
  BY <1>1, BoundsAssumption DEF IInv
<1>3. Timer' = Timer
  BY <1>1 DEF Timer
<1>4. Deadlines' /\ Exact'
  <2>1. Deadlines /\ Exact
    BY DEF IInv
  <2> QED
    BY <1>1, <1>2, <2>1 DEF Deadlines, Exact
<1>5. Timer' \in Timers /\ Kept(Timer')
  BY <1>3 DEF IInv
<1> QED
  BY <1>1, <1>2, <1>4, <1>5 DEF IInv

LEMMA AcceptInv ==
  ASSUME IInv, Accept
  PROVE  IInv'
<1> DEFINE fd == Min(Fds \ open)
           e == now + Timeout
           k == [fd |-> fd, expire |-> e]
<1>1. /\ ~damaged /\ open # Fds
      /\ open' = open \cup {fd} /\ due' = [due EXCEPT ![fd] = e]
      /\ Add(fd) /\ UNCHANGED <<now, marked, expired>>
  BY DEF Accept
<1>2. /\ Timer \in Timers /\ Kept(Timer) /\ now \in Nat /\ e \in Nat /\ open \in SUBSET Fds
      /\ DOMAIN index \subseteq open /\ Deadlines /\ Exact /\ due \in [Fds -> Nat]
      /\ marked \in SUBSET open /\ expired \in BOOLEAN
  BY <1>1, BoundsAssumption DEF IInv
<1>3. fd \in Fds \ open /\ Len(heap) + 1 <= MaxFd
  BY <1>1, FreeFd
<1> HIDE DEF fd
<1>4. \A m \in Range(heap) : m.fd # fd
  BY <1>2, <1>3 DEF Deadlines
<1>5. /\ Timer' \in Orders(Range(heap) \cup {k}, DOMAIN index \cup {fd}, Len(heap) + 1)
      /\ damaged' = damaged
  BY <1>1, <1>2, <1>3, <1>4, AddDoes
<1>6. /\ Timer' \in Timers /\ Kept(Timer')
      /\ Range(heap') = Range(heap) \cup {k} /\ DOMAIN index' = DOMAIN index \cup {fd}
  BY <1>5, Regained
<1>7. /\ due' \in [Fds -> Nat] /\ due'[fd] = e
      /\ \A g \in Fds : g # fd => due'[g] = due[g]
  BY <1>1, <1>2, <1>3
<1>8. Deadlines'
  <2>1. \A g \in Fds : due'[g] <= now' + Timeout
    BY <1>1, <1>2, <1>7 DEF Deadlines
  <2>2. \A m \in Range(heap') : m.fd \in open' /\ due'[m.fd] <= m.expire
    <3> TAKE m \in Range(heap')
    <3>1. CASE m = k
      BY <1>1, <1>2, <1>7, <3>1
    <3>2. CASE m \in Range(heap)
      BY <1>1, <1>2, <1>4, <1>7, <3>2 DEF Deadlines
    <3> QED
      BY <1>6, <3>1, <3>2
  <2> QED
    BY <2>1, <2>2 DEF Deadlines
<1>9. Exact'
  <2> SUFFICES ASSUME ~expired
               PROVE  /\ ~damaged' /\ DOMAIN index' = open'
                      /\ Range(heap') = {[fd |-> g, expire |-> due'[g]] : g \in open'}
    BY <1>1 DEF Exact
  <2>1. /\ DOMAIN index = open
        /\ Range(heap) = {[fd |-> g, expire |-> due[g]] : g \in open}
    BY <1>2 DEF Exact
  <2>2. \A g \in open : due'[g] = due[g]
    BY <1>2, <1>3, <1>7
  <2>3. {[fd |-> g, expire |-> due'[g]] : g \in open'}
          = {[fd |-> g, expire |-> due[g]] : g \in open} \cup {k}
    BY <1>1, <1>7, <2>2
  <2> QED
    BY <1>1, <1>5, <1>6, <2>1, <2>3
<1>10. /\ open' \in SUBSET Fds /\ marked' \in SUBSET open' /\ DOMAIN index' \subseteq open'
       /\ now' \in 0..MaxTime /\ damaged' \in BOOLEAN /\ expired' \in BOOLEAN
  BY <1>1, <1>2, <1>3, <1>5, <1>6 DEF IInv
<1> QED
  BY <1>6, <1>7, <1>8, <1>9, <1>10 DEF IInv

\* close_connection, from a hang-up or from an idle mark.
LEMMA CloseInv ==
  ASSUME IInv, ~damaged, NEW fd \in open, CloseConnection(fd),
         UNCHANGED <<now, due, expired>>
  PROVE  IInv'
<1>1. /\ open' = open \ {fd} /\ marked' = marked \ {fd} /\ Remove(fd)
      /\ now' = now /\ due' = due /\ expired' = expired
  BY DEF CloseConnection
<1>2. /\ Timer \in Timers /\ Kept(Timer) /\ open \in SUBSET Fds /\ marked \in SUBSET open
      /\ DOMAIN index \subseteq open /\ Deadlines /\ Exact /\ damaged \in BOOLEAN
      /\ now \in 0..MaxTime /\ expired \in BOOLEAN /\ due \in [Fds -> Nat]
  BY DEF IInv
<1> DEFINE own == {k \in Range(heap) : k.fd = fd}
<1>3. /\ Timer' \in Timers /\ Kept(Timer') /\ damaged' \in BOOLEAN
      /\ Range(heap') \subseteq Range(heap) \ own
      /\ ~damaged' => DOMAIN index' = DOMAIN index \ {fd}
      /\ ~expired => ~damaged' /\ Range(heap') = Range(heap) \ own
  <2>1. CASE fd \notin DOMAIN index
    <3>1. UNCHANGED <<heap, index, damaged>>
      BY <1>1, <2>1 DEF Remove, timer
    <3>2. own = {}
      BY <2>1, OwnNode
    <3>3. expired
      BY <2>1, OwnNode
    <3>4. Timer' = Timer
      BY <3>1 DEF Timer
    <3>5. DOMAIN index \ {fd} = DOMAIN index
      BY <2>1
    <3> QED
      BY <1>2, <3>1, <3>2, <3>3, <3>4, <3>5
  <2>2. CASE fd \in DOMAIN index /\ ~InVector(fd)
    <3>1. damaged' = TRUE /\ UNCHANGED <<heap, index>>
      BY <1>1, <2>2 DEF Remove
    <3>2. own = {}
      BY <2>2, OwnNode
    <3>3. expired
      BY <2>2, OwnNode
    <3>4. Timer' = Timer
      BY <3>1 DEF Timer
    <3> QED
      BY <1>2, <3>1, <3>2, <3>3, <3>4
  <2>3. CASE fd \in DOMAIN index /\ InVector(fd)
    <3> DEFINE m == heap[index[fd]]
    <3>1. /\ Timer' \in Orders(Range(heap) \ {m}, DOMAIN index \ {fd}, Len(heap) - 1)
          /\ damaged' = damaged
      BY <1>1, <1>2, <2>3, RemoveDoes
    <3>2. /\ Timer' \in Timers /\ Kept(Timer')
          /\ Range(heap') = Range(heap) \ {m} /\ DOMAIN index' = DOMAIN index \ {fd}
      BY <3>1, Regained
    <3>3. own \subseteq {m}
      BY OwnNode
    <3>4. ~expired => m.fd = fd
      <4>1. ~expired => m = [fd |-> fd, expire |-> due[fd]]
        BY OwnNode
      <4> HIDE DEF m
      <4> QED
        BY <4>1
    <3>5. ~expired => Range(heap) \ {m} = Range(heap) \ own
      <4> HIDE DEF m
      <4> QED
        BY <3>3, <3>4
    <3> HIDE DEF m, own
    <3> QED
      BY <1>2, <3>1, <3>2, <3>3, <3>5
  <2> QED
    BY <2>1, <2>2, <2>3
<1>4. Deadlines'
  BY <1>1, <1>2, <1>3 DEF Deadlines
<1>5. Exact'
  <2> SUFFICES ASSUME ~expired
               PROVE  /\ ~damaged' /\ DOMAIN index' = open'
                      /\ Range(heap') = {[fd |-> g, expire |-> due[g]] : g \in open'}
    BY <1>1 DEF Exact
  <2> DEFINE N(S) == {[fd |-> g, expire |-> due[g]] : g \in S}
  <2>1. DOMAIN index = open /\ Range(heap) = N(open)
    BY <1>2 DEF Exact
  <2>2. N(open) \ own = N(open \ {fd})
    <3>1. own = {k \in N(open) : k.fd = fd}
      BY <2>1
    <3> HIDE DEF own
    <3> QED
      BY <3>1
  <2>3. Range(heap') = N(open')
    <3> HIDE DEF own, N
    <3> QED
      BY <1>1, <1>3, <2>1, <2>2
  <2> QED
    BY <1>1, <1>3, <2>1, <2>3
<1>6. /\ open' \in SUBSET Fds /\ marked' \in SUBSET open'
      /\ ~damaged' => DOMAIN index' \subseteq open'
  BY <1>1, <1>2, <1>3
<1> QED
  BY <1>1, <1>2, <1>3, <1>4, <1>5, <1>6 DEF IInv

LEMMA ReadInv ==
  ASSUME IInv, NEW fd \in Fds, Read(fd)
  PROVE  IInv'
<1> DEFINE e == now + Timeout
           own == {k \in Range(heap) : k.fd = fd}
<1>1. /\ ~damaged /\ fd \in open /\ Refresh(fd) /\ due' = [due EXCEPT ![fd] = e]
      /\ now' = now /\ open' = open /\ marked' = marked /\ expired' = expired
  BY DEF Read
<1>2. /\ Timer \in Timers /\ Kept(Timer) /\ open \in SUBSET Fds /\ marked \in SUBSET open
      /\ DOMAIN index \subseteq open /\ Deadlines /\ Exact /\ damaged \in BOOLEAN
      /\ now \in 0..MaxTime /\ expired \in BOOLEAN /\ due \in [Fds -> Nat] /\ e \in Nat
  BY <1>1, BoundsAssumption DEF IInv
<1>3. /\ due' \in [Fds -> Nat] /\ due'[fd] = e
      /\ \A g \in Fds : g # fd => due'[g] = due[g]
      /\ \A g \in Fds : due'[g] <= e
  BY <1>1, <1>2 DEF Deadlines
<1>4. /\ Timer' \in Timers /\ Kept(Timer') /\ damaged' \in BOOLEAN
      /\ DOMAIN index' = DOMAIN index
      /\ \A k \in Range(heap') \ (Range(heap) \ own) : k.expire = e /\ k.fd \in open
      /\ ~expired => /\ ~damaged'
                     /\ Range(heap') = (Range(heap) \ own) \cup {[fd |-> fd, expire |-> e]}
  <2>1. CASE fd \notin DOMAIN index
    <3>1. UNCHANGED <<heap, index, damaged>>
      BY <1>1, <2>1 DEF Refresh, timer
    <3>2. own = {}
      BY <2>1, OwnNode
    <3>3. expired
      BY <1>1, <2>1, OwnNode
    <3>4. Timer' = Timer
      BY <3>1 DEF Timer
    <3> QED
      BY <1>2, <3>1, <3>2, <3>3, <3>4
  <2>2. CASE fd \in DOMAIN index /\ ~InVector(fd)
    <3>1. damaged' = TRUE /\ UNCHANGED <<heap, index>>
      BY <1>1, <2>2 DEF Refresh
    <3>2. own = {}
      BY <2>2, OwnNode
    <3>3. expired
      BY <1>1, <2>2, OwnNode
    <3>4. Timer' = Timer
      BY <3>1 DEF Timer
    <3> QED
      BY <1>2, <3>1, <3>2, <3>3, <3>4
  <2>3. CASE fd \in DOMAIN index /\ InVector(fd)
    <3> DEFINE m == heap[index[fd]]
               r == [fd |-> m.fd, expire |-> e]
    <3>1. /\ Timer' \in Orders((Range(heap) \ {m}) \cup {r}, DOMAIN index, Len(heap))
          /\ damaged' = damaged
      BY <1>1, <1>2, <2>3, RefreshDoes
    <3>2. /\ Timer' \in Timers /\ Kept(Timer')
          /\ Range(heap') = (Range(heap) \ {m}) \cup {r} /\ DOMAIN index' = DOMAIN index
      BY <3>1, Regained
    <3>3. own \subseteq {m}
      BY OwnNode
    <3>4. ~expired => m.fd = fd
      <4>1. ~expired => m = [fd |-> fd, expire |-> due[fd]]
        BY <1>1, OwnNode
      <4> HIDE DEF m
      <4> QED
        BY <4>1
    <3>5. m \in Range(heap)
      BY <1>2, <2>3, TimerAs DEF InVector
    <3>6. m.fd \in open
      BY <1>2, <3>5 DEF Deadlines
    <3> HIDE DEF m
    <3>7. ~expired => own = {m}
      BY <3>3, <3>4, <3>5
    <3>8. r.expire = e /\ r.fd \in open /\ (~expired => r = [fd |-> fd, expire |-> e])
      BY <3>4, <3>6
    <3> HIDE DEF r, own, e
    <3>9. \A k \in Range(heap') \ (Range(heap) \ own) : k = r
      BY <3>2, <3>3
    <3> QED
      BY <1>1, <1>2, <3>1, <3>2, <3>7, <3>8, <3>9
  <2> QED
    BY <2>1, <2>2, <2>3
<1>5. Deadlines'
  <2>1. \A k \in Range(heap') : k.fd \in open' /\ due'[k.fd] <= k.expire
    <3> TAKE k \in Range(heap')
    <3>1. CASE k \in Range(heap) \ own
      BY <1>1, <1>2, <1>3, <3>1 DEF Deadlines
    <3>2. CASE k \notin Range(heap) \ own
      BY <1>1, <1>2, <1>3, <1>4, <3>2
    <3> QED
      BY <3>1, <3>2
  <2> QED
    BY <1>1, <1>3, <2>1 DEF Deadlines
<1>6. Exact'
  <2> SUFFICES ASSUME ~expired
               PROVE  /\ ~damaged' /\ DOMAIN index' = open'
                      /\ Range(heap') = {[fd |-> g, expire |-> due'[g]] : g \in open'}
    BY <1>1 DEF Exact
  <2> DEFINE N == {[fd |-> g, expire |-> due[g]] : g \in open}
             P == {[fd |-> g, expire |-> due'[g]] : g \in open}
  <2>1. DOMAIN index = open /\ Range(heap) = N
    BY <1>2 DEF Exact
  <2>2. \A g \in open : g # fd => due'[g] = due[g]
    BY <1>2, <1>3
  <2>3. own = {k \in N : k.fd = fd}
    BY <2>1
  <2>4. (N \ own) \cup {[fd |-> fd, expire |-> e]} = P
    <3> HIDE DEF own, e
    <3>1. \A k \in P : k \in (N \ own) \cup {[fd |-> fd, expire |-> e]}
      BY <1>3, <2>2, <2>3 DEF e
    <3>2. \A k \in N \ own : k \in P
      BY <2>2, <2>3
    <3>3. [fd |-> fd, expire |-> e] \in P
      BY <1>1, <1>3 DEF e
    <3> QED
      BY <3>1, <3>2, <3>3
  <2> HIDE DEF N, P, own, e
  <2>5. Range(heap') = P
    BY <1>4, <2>1, <2>4
  <2> QED
    BY <1>1, <1>4, <2>1, <2>5 DEF P
<1>7. ~damaged' => DOMAIN index' \subseteq open'
  BY <1>1, <1>2, <1>4
<1> QED
  BY <1>1, <1>2, <1>3, <1>4, <1>5, <1>6, <1>7 DEF IInv

\* tick, and what it marks.
LEMMA TickInv ==
  ASSUME IInv, Tick
  PROVE  /\ IInv'
         /\ \A fd \in marked' \ marked : due[fd] <= now
<1> DEFINE s == Expire
           N == Range(heap)
           D == DOMAIN index
<1>1. /\ ~damaged /\ SetTimer(s.timer) /\ marked' = marked \cup s.fds
      /\ expired' = TRUE /\ now' = now /\ open' = open /\ due' = due
  BY DEF Tick
<1>2. /\ Timer \in Timers /\ Kept(Timer) /\ open \in SUBSET Fds /\ marked \in SUBSET open
      /\ DOMAIN index \subseteq open /\ Deadlines /\ damaged \in BOOLEAN
      /\ now \in 0..MaxTime /\ due \in [Fds -> Nat]
  BY <1>1 DEF IInv
<1>3. s \in Ticks(N, D)
  <2>1. now \in Nat
    BY <1>2
  <2> QED
    BY <1>2, <2>1, ExpireTicks
<1> HIDE DEF s
<1>4. /\ s.timer \in Timers /\ Kept(s.timer) /\ s.fds \in SUBSET Fds
      /\ Range(s.timer.heap) \subseteq N /\ DOMAIN s.timer.index = D
      /\ \A fd \in s.fds : \E m \in N : m.fd = fd /\ m.expire <= now
  BY <1>3 DEF Ticks
<1> DEFINE R == Range(s.timer.heap)
           n == Len(s.timer.heap)
<1>5. s.timer \in Orders(R, D, n)
  BY <1>4 DEF Orders
<1>6. /\ Timer' \in Timers /\ Kept(Timer') /\ damaged' = damaged
      /\ Range(heap') = R /\ DOMAIN index' = D
  <2> HIDE DEF R, n, D
  <2> QED
    BY <1>1, <1>5, SetTimerIs
<1>7. \A fd \in s.fds : fd \in open /\ due[fd] <= now
  <2> TAKE fd \in s.fds
  <2>1. PICK m \in N : m.fd = fd /\ m.expire <= now
    BY <1>4
  <2>2. m.fd \in open /\ due[m.fd] <= m.expire
    BY <1>2 DEF Deadlines
  <2>3. m.expire \in Nat
    <3>1. heap \in Seq(Nodes) /\ DOMAIN heap = 1..Len(heap)
      BY <1>2, TimerAs
    <3>2. PICK i \in 1..Len(heap) : m = heap[i]
      BY <2>1, <3>1 DEF Range
    <3>3. m \in Nodes
      BY <3>1, <3>2
    <3> QED
      BY <3>3 DEF Nodes
  <2>4. due[fd] \in Nat /\ now \in Nat
    BY <1>2, <2>1, <2>2
  <2> QED
    BY <2>1, <2>2, <2>3, <2>4
<1>8. Deadlines'
  BY <1>1, <1>2, <1>4, <1>6 DEF Deadlines
<1>9. Exact'
  BY <1>1 DEF Exact
<1>10. /\ marked' \in SUBSET open' /\ damaged' \in BOOLEAN /\ expired' \in BOOLEAN
       /\ DOMAIN index' \subseteq open'
  BY <1>1, <1>2, <1>6, <1>7
<1>11. IInv'
  BY <1>1, <1>2, <1>6, <1>8, <1>9, <1>10 DEF IInv
<1>12. \A fd \in marked' \ marked : due[fd] <= now
  BY <1>1, <1>7
<1> QED
  BY <1>11, <1>12

\* Every step keeps the invariant, and marks only what is due.
LEMMA StepInv ==
  ASSUME IInv, [Next]_vars
  PROVE  IInv' /\ \A fd \in marked' \ marked : due[fd] <= now
<1>1. CASE Advance
  <2>1. marked' = marked
    BY <1>1 DEF Advance
  <2> QED
    BY <1>1, <2>1, AdvanceInv
<1>2. CASE Accept
  <2>1. marked' = marked
    BY <1>2 DEF Accept
  <2> QED
    BY <1>2, <2>1, AcceptInv
<1>3. CASE Tick
  BY <1>3, TickInv
<1>4. ASSUME NEW fd \in Fds, Hangup(fd) \/ ReadMarked(fd)
      PROVE  IInv' /\ marked' \subseteq marked
  <2>1. fd \in marked => fd \in open
    BY DEF IInv
  <2>2. /\ ~damaged /\ fd \in open /\ CloseConnection(fd)
        /\ UNCHANGED <<now, due, expired>>
    BY <1>4, <2>1 DEF Hangup, ReadMarked
  <2>3. marked' = marked \ {fd}
    BY <2>2 DEF CloseConnection
  <2> QED
    BY <2>2, <2>3, CloseInv
<1>5. ASSUME NEW fd \in Fds, Read(fd)
      PROVE  IInv' /\ marked' = marked
  <2>1. marked' = marked
    BY <1>5 DEF Read
  <2> QED
    BY <1>5, <2>1, ReadInv
<1>6. CASE UNCHANGED vars
  <2>1. /\ now' = now /\ open' = open /\ marked' = marked /\ heap' = heap /\ index' = index
        /\ damaged' = damaged /\ due' = due /\ expired' = expired
    BY <1>6 DEF vars, timer
  <2>2. Timer' = Timer
    BY <2>1 DEF Timer
  <2>3. Deadlines' /\ Exact'
    BY <2>1 DEF IInv, Deadlines, Exact
  <2> QED
    BY <2>1, <2>2, <2>3 DEF IInv
<1>7. Next => \/ Advance \/ Accept \/ Tick
              \/ \E fd \in Fds : Hangup(fd) \/ ReadMarked(fd)
              \/ \E fd \in Fds : Read(fd)
  BY DEF Next
<1> QED
  BY <1>1, <1>2, <1>3, <1>4, <1>5, <1>6, <1>7

LEMMA SpecInv == Spec => []IInv
<1>1. Init => IInv
  BY InitInv
<1>2. IInv /\ [Next]_vars => IInv'
  BY StepInv
<1> QED
  BY <1>1, <1>2, PTL DEF Spec

LEMMA InvType == IInv => TypeOK
<1> SUFFICES ASSUME IInv PROVE TypeOK
  OBVIOUS
<1>1. Timer \in Timers /\ Kept(Timer)
  BY DEF IInv
<1>2. /\ heap \in Seq(Nodes) /\ DOMAIN index \in SUBSET Fds
      /\ \A fd \in DOMAIN index : index[fd] \in 1..MaxFd
  BY <1>1, TimerAs
<1> QED
  BY <1>2 DEF IInv, TypeOK

LEMMA InvKept == IInv => PositionsKept
<1> SUFFICES ASSUME IInv PROVE PositionsKept
  OBVIOUS
<1>1. Timer \in Timers /\ Kept(Timer) /\ Deadlines
  BY DEF IInv
<1>2. \A i \in DOMAIN heap : heap[i].fd \in open \cap DOMAIN index /\ index[heap[i].fd] = i
  BY <1>1, TimerAs DEF Deadlines
<1>3. ~damaged => DOMAIN index \in SUBSET open
  BY DEF IInv
<1> QED
  BY <1>2, <1>3 DEF PositionsKept

LEMMA InvExact == IInv => ExactUntilTimeout
<1> SUFFICES ASSUME IInv, ~expired
             PROVE  /\ ~damaged
                    /\ {heap[i].fd : i \in DOMAIN heap} = open /\ Len(heap) = Cardinality(open)
                    /\ DOMAIN index = open
                    /\ \A fd \in open : heap[index[fd]] = [fd |-> fd, expire |-> due[fd]]
  BY DEF ExactUntilTimeout
<1> DEFINE n == Len(heap)
           f == [i \in 1..n |-> heap[i].fd]
           O == {heap[i].fd : i \in DOMAIN heap}
<1>1. /\ ~damaged /\ DOMAIN index = open
      /\ Range(heap) = {[fd |-> fd, expire |-> due[fd]] : fd \in open}
  BY DEF IInv, Exact
<1>2. O = {k.fd : k \in Range(heap)}
  BY NodeFds
<1>3. O = open
  <2> HIDE DEF O
  <2>1. \A k \in Range(heap) : k.fd \in open
    BY <1>1
  <2>2. \A fd \in open : \E k \in Range(heap) : k.fd = fd
    <3> TAKE fd \in open
    <3> DEFINE k == [fd |-> fd, expire |-> due[fd]]
    <3>1. k \in Range(heap) /\ k.fd = fd
      BY <1>1
    <3> HIDE DEF k
    <3> QED
      BY <3>1
  <2> QED
    BY <1>2, <2>1, <2>2
<1>4. f \in Bijection(1..n, open)
  BY <1>3, NodeFds
<1>5. n \in Nat
  BY TimerAs DEF IInv
<1>6. n = Cardinality(open)
  <2> HIDE DEF n, f
  <2>1. ExistsBijection(1..n, open)
    BY <1>4 DEF ExistsBijection
  <2>2. n \in Int /\ 1 \in Int
    BY <1>5
  <2>3. IsFiniteSet(1..n) /\ Cardinality(1..n) = IF 1 > n THEN 0 ELSE n - 1 + 1
    BY <2>2, FS_Interval
  <2>4. Cardinality(1..n) = n
    BY <1>5, <2>3
  <2>5. Cardinality(open) = Cardinality(1..n)
    BY <2>1, <2>3, FS_Bijection
  <2> QED
    BY <2>4, <2>5
<1>7. \A fd \in open : heap[index[fd]] = [fd |-> fd, expire |-> due[fd]]
  BY OwnNode
<1> QED
  BY <1>1, <1>3, <1>6, <1>7

-----------------------------------------------------------------------------
(* Theorems.                                                               *)

\* The variables have their types: close_connection leaves no mark behind
\* for the next connection with that descriptor, and every position ever entered
\* was one that the vector has room for.
THEOREM TypeCorrect == Spec => []TypeOK
BY SpecInv, InvType, PTL

\* What remove and refresh do at a position, whoever's it is, leaves every node
\* where its descriptor's position says.
THEOREM PositionsStay == Spec => []PositionsKept
BY SpecInv, InvKept, PTL

\* Before the first time-out the heap and the map are those of the open
\* connections, whatever add, remove, refresh and the sift loops did.
THEOREM ExactTimer == Spec => []ExactUntilTimeout
BY SpecInv, InvExact, PTL

\* tick marks no connection that was silent for less than the idle time.
THEOREM SilentOnly == Spec => NoEarlyTimeout
<1>1. IInv /\ [Next]_vars => [\A fd \in marked' \ marked : due[fd] <= now]_vars
  BY StepInv
<1> QED
  BY <1>1, SpecInv, PTL DEF Spec, NoEarlyTimeout

=============================================================================
