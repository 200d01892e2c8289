------------------------------ MODULE SkipList ------------------------------
(***************************************************************************)
(* The sorted set of the server (class SkipList, src/mini_redis/src/db.cpp *)
(* and db.h): nodes with a height, linked once per level.                  *)
(*                                                                         *)
(* Levels and positions count from 1.  A member inserted again with        *)
(* another score gets a second node.  remove looks for the member on every *)
(* level although the levels are ordered by score; the predecessors it     *)
(* finds may stand behind the node, whose links then stay while the node   *)
(* is freed.  The next walk would read freed memory: nothing more is said  *)
(* of a list with such a link (Dangling).                                  *)
(***************************************************************************)
EXTENDS Integers, Sequences, FiniteSets

CONSTANTS Members,   \* in the order of the strings
          Scores,
          MaxLevel,  \* 12 in the code
          MaxNodes   \* bound: nodes at a time

ASSUME BoundsAssumption ==
  /\ Members \subseteq Nat /\ Scores \subseteq Nat
  /\ MaxLevel \in Nat \ {0} /\ MaxNodes \in Nat

VARIABLES
  node,   \* the nodes allocated: member, score and height of each
  next,   \* forward: for the header and each node, the link on each level
  level,  \* the levels in use
  count

listVars == <<node, next, level, count>>

Header == 0
Nil == MaxNodes + 1
Ids == 1..MaxNodes
Levels == 1..MaxLevel

Live == DOMAIN node

ListInit ==
  /\ node = << >>
  /\ next = [n \in {Header} \union Ids |-> [i \in Levels |-> Nil]]
  /\ level = 1
  /\ count = 0

\* Where a walk on level i comes to a halt, going over the nodes in passed.
Walk(i, from, passed) ==
  LET halt[n \in {Header} \union Ids] ==
        IF next[n][i] \in passed THEN halt[next[n][i]] ELSE n
  IN  halt[from]

\* update: the walk goes down from level to level.
Update(passed) ==
  LET update[i \in 1..level] ==
        Walk(i, IF i = level THEN Header ELSE update[i + 1], passed)
  IN  update

Link(n, i) == next[n][i]

\* No list has a link to a node that was freed.
Dangling == \E n \in {Header} \union Live, i \in Levels : Link(n, i) \in Ids \ Live

-----------------------------------------------------------------------------
\* The node goes behind those passed, with the height random_level chose. The
\* same member and score again changes nothing.
InsertBehind(passed, m, s, height) ==
  LET update == Update(passed)
      found == Link(update[1], 1)
      new == CHOOSE n \in Ids \ Live : \A o \in Ids \ Live : n <= o
      pred == [i \in 1..height |-> IF i <= level THEN update[i] ELSE Header]
  IN  IF found \in Live /\ node[found].member = m /\ node[found].score = s
      THEN UNCHANGED listVars
      ELSE /\ node' = [n \in Live \union {new} |->
                         IF n = new THEN [member |-> m, score |-> s, height |-> height] ELSE node[n]]
           /\ next' = [n \in DOMAIN next |-> [i \in Levels |->
                         IF i > height THEN next[n][i]
                         ELSE IF n = new THEN Link(pred[i], i)
                         ELSE IF n = pred[i] THEN new ELSE next[n][i]]]
           /\ level' = IF height > level THEN height ELSE level
           /\ count' = count + 1

\* Mutant: members of one score are not ordered.
InsertTiesFirst(m, s, height) == InsertBehind({n \in Live : node[n].score < s}, m, s, height)

\* SkipList::insert
Insert(m, s, height) ==
  InsertBehind({n \in Live : \/ node[n].score < s
                             \/ node[n].score = s /\ node[n].member < m}, m, s, height)

\* The nodes in the order of the lowest level.
Chain ==
  LET from[n \in {Header} \union Ids \union {Nil}] ==
        IF n = Nil THEN <<>> ELSE <<n>> \o from[Link(n, 1)]
  IN  Tail(from[Header])

\* The first position of the member, 0 if there is none.
PositionOf(m) ==
  LET S == {k \in DOMAIN Chain : node[Chain[k]].member = m}
  IN  IF S = {} THEN 0 ELSE CHOOSE k \in S : \A l \in S : k <= l

\* The levels in use shrink to the highest that has a node.
Shrunk(links) ==
  LET S == {i \in 1..level : i = 1 \/ links[Header][i] # Nil}
  IN  CHOOSE i \in S : \A j \in S : j <= i

\* The first node of the member is unlinked up to a level, where the
\* predecessors found do precede it, and freed.
RemoveUpTo(top, m) ==
  LET update == Update({n \in Live : node[n].member # m})
      target == Chain[PositionOf(m)]
      links == [n \in DOMAIN next |-> [i \in Levels |->
                  IF i <= top /\ n = update[i] /\ next[n][i] = target
                  THEN next[target][i] ELSE next[n][i]]]
  IN  /\ PositionOf(m) # 0
      /\ node' = [n \in Live \ {target} |-> node[n]]
      /\ next' = [links EXCEPT ![target] = [i \in Levels |-> Nil]]
      /\ level' = Shrunk(links)
      /\ count' = count - 1

\* Mutant: only the lowest level is unlinked.
RemoveLowest(m) == RemoveUpTo(1, m)

\* SkipList::remove
RemoveMember(m) == RemoveUpTo(level, m)

\* SkipList::get_score; 0 for a member that is not there.
GetScore(m) == IF PositionOf(m) = 0 THEN 0 ELSE node[Chain[PositionOf(m)]].score

\* SkipList::get_rank, from 0; -1 for a member that is not there.
GetRank(m) == PositionOf(m) - 1

\* SkipList::range; positions from 0, negative ones from the end.
Slice(start, stop) ==
  LET Plain(k) == IF k < 0 THEN count + k ELSE k
      from == IF Plain(start) < 0 THEN 0 ELSE Plain(start)
      to == IF Plain(stop) >= count THEN count - 1 ELSE Plain(stop)
  IN  IF from > to THEN <<>> ELSE SubSeq(Chain, from + 1, to + 1)

ListNext ==
  /\ ~Dangling
  /\ \/ \E m \in Members, s \in Scores, h \in Levels : Live # Ids /\ Insert(m, s, h)
     \/ \E m \in Members : RemoveMember(m)

ListSpec == ListInit /\ [][ListNext]_listVars

-----------------------------------------------------------------------------
(* Properties.                                                             *)

\* The order of the nodes: by score and member.
Precedes(a, b) == \/ node[a].score < node[b].score
                  \/ node[a].score = node[b].score /\ node[a].member < node[b].member

Sorted ==
  LET n == Cardinality(Live)
  IN  CHOOSE s \in [1..n -> Live] : \A i, j \in 1..n : i < j => Precedes(s[i], s[j])

\* Whatever was inserted and removed, at whatever heights: the score and the
\* rank found are those of the member's lowest node, and a range has the nodes
\* whose position from either end lies in it.
SearchSound ==
  ~Dangling =>
    LET sorted == Sorted
        n == Len(sorted)
        Within(k, a, b) == /\ IF a < 0 THEN k - n > a ELSE k > a
                           /\ IF b < 0 THEN k - n <= b + 1 ELSE k <= b + 1
    IN  /\ \A m \in Members :
             LET own == {k \in 1..n : node[sorted[k]].member = m}
                 rank == GetRank(m)
             IN  IF own = {} THEN rank = -1
                 ELSE /\ rank + 1 \in own /\ \A k \in own : rank < k
                      /\ GetScore(m) = node[sorted[rank + 1]].score
        /\ \A a, b \in -(n + 1)..n :
             LET found == Slice(a, b)
                 chosen == {k \in 1..n : Within(k, a, b)}
             IN  /\ Len(found) = Cardinality(chosen)
                 /\ \A k \in chosen : \E i \in DOMAIN found :
                      found[i] = sorted[k] /\ i = Cardinality({l \in chosen : l <= k})

\* The predecessors found are wrong exactly when, on some level the node does
\* not reach, the next node behind it is of another member: the search then
\* runs past the node, and it is freed with a link to it left.
TallerBehind(m) ==
  LET p == PositionOf(m)
      tall(j) == {k \in DOMAIN Chain : k > p /\ node[Chain[k]].height >= j}
  IN  \E j \in Levels :
        /\ j > node[Chain[p]].height
        /\ \E k \in tall(j) : /\ \A l \in tall(j) : k <= l
                              /\ node[Chain[k]].member # m

\* A removal leaves no link to the freed node, unless a taller one stands behind.
CleanRemoval == [][\A m \in Members : RemoveMember(m) => (Dangling' <=> TallerBehind(m))]_listVars
=============================================================================
