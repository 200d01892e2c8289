------------------------------- MODULE IdleTimer ------------------------------
(***************************************************************************)
(* The idle timer of the server's connections (timer.cpp, timer.h, and its *)
(* callers in epoll.cpp and server.cpp): a heap in a vector, with a map    *)
(* from a descriptor to the position of its node.                          *)
(*                                                                         *)
(* operator< compares the deadlines the other way round, so the sift       *)
(* operations keep the latest deadline at the front.  tick erases the      *)
(* index of the node it pops and lets swap_nodes enter it again, so that a *)
(* timed-out descriptor keeps a position that is no longer its own; its    *)
(* close then removes whatever node stands there.  A position outside the  *)
(* vector is undefined behaviour: the process goes on with damaged memory  *)
(* or ends, and nothing more is said of it (damaged).                      *)
(***************************************************************************)
EXTENDS Integers, Sequences, FiniteSetsExt

CONSTANTS MaxFd,    \* bound: descriptors 1..MaxFd
          Timeout,  \* the idle time allowed, 60 in the code
          MaxTime   \* bound: the clock

ASSUME BoundsAssumption ==
  /\ MaxFd \in Nat \ {0}
  /\ Timeout \in Nat \ {0}
  /\ MaxTime \in Nat

VARIABLES
  now,       \* time(nullptr)
  open,      \* descriptors of accepted connections
  marked,    \* Epoll::timed_out_fds
  heap,      \* Timer::heap
  index,     \* Timer::key_to_idx
  damaged,   \* memory outside the vector was accessed
  due,       \* history: when each connection will have been idle too long
  expired    \* history: some connection timed out

timer == <<heap, index, damaged>>
vars == <<now, open, marked, heap, index, damaged, due, expired>>

Fds == 1..MaxFd
Nodes == [fd : Fds, expire : Nat]

Init ==
  /\ now = 0 /\ open = {} /\ marked = {}
  /\ heap = <<>> /\ index = [fd \in {} |-> 0] /\ damaged = FALSE
  /\ due = [fd \in Fds |-> 0] /\ expired = FALSE

-----------------------------------------------------------------------------
(* The heap.  t is a record of the vector and the map.                      *)

\* TimerNode::operator<
Less(a, b) == a.expire > b.expire

\* key_to_idx[fd] = i, and key_to_idx.erase(fd)
Enter(idx, fd, i) == [f \in DOMAIN idx \cup {fd} |-> IF f = fd THEN i ELSE idx[f]]
Erase(t, fd) == [t EXCEPT !.index = [f \in DOMAIN t.index \ {fd} |-> t.index[f]]]

\* Mutant: one of the two positions is not entered.
SwapNodesHalf(t, i, j) ==
  LET h == [t.heap EXCEPT ![i] = t.heap[j], ![j] = t.heap[i]]
  IN  [heap |-> h, index |-> Enter(t.index, h[i].fd, i)]

SwapNodes(t, i, j) ==
  LET h == [t.heap EXCEPT ![i] = t.heap[j], ![j] = t.heap[i]]
  IN  [heap |-> h, index |-> Enter(Enter(t.index, h[i].fd, i), h[j].fd, j)]

\* A turn of the loop of sift_up, from position i; after the last nothing changes.
UpTurn(s) ==
  LET parent == s.i \div 2
  IN  IF s.i > 1 /\ Less(s.t.heap[s.i], s.t.heap[parent])
      THEN [t |-> SwapNodes(s.t, s.i, parent), i |-> parent]
      ELSE s

\* i is halved in each turn.
SiftUp(t, i) ==
  LET turn[n \in Nat] == IF n = 0 THEN [t |-> t, i |-> i] ELSE UpTurn(turn[n - 1])
  IN  turn[i].t

\* The smallest of a node and its children.
Smallest(h, i) ==
  LET left == 2 * i
      right == 2 * i + 1
      a == IF left <= Len(h) /\ Less(h[left], h[i]) THEN left ELSE i
  IN  IF right <= Len(h) /\ Less(h[right], h[a]) THEN right ELSE a

DownTurn(s) ==
  LET smallest == Smallest(s.t.heap, s.i)
  IN  IF smallest # s.i THEN [t |-> SwapNodes(s.t, s.i, smallest), i |-> smallest] ELSE s

\* i grows in each turn.
SiftDown(t, i) ==
  LET turn[n \in Nat] == IF n = 0 THEN [t |-> t, i |-> i] ELSE DownTurn(turn[n - 1])
  IN  turn[Len(t.heap)].t

PopBack(t) == [t EXCEPT !.heap = SubSeq(@, 1, Len(@) - 1)]

Timer == [heap |-> heap, index |-> index]
SetTimer(t) == heap' = t.heap /\ index' = t.index /\ UNCHANGED damaged

InVector(fd) == index[fd] <= Len(heap)

\* Timer::add
Add(fd) ==
  LET i == Len(heap) + 1
  IN  SetTimer(SiftUp([heap |-> Append(heap, [fd |-> fd, expire |-> now + Timeout]),
                       index |-> Enter(index, fd, i)], i))

\* Mutant: the last node is moved into the gap without its index.
RemoveUnindexed(fd) ==
  IF fd \notin DOMAIN index THEN UNCHANGED timer
  ELSE IF ~InVector(fd) THEN damaged' = TRUE /\ UNCHANGED <<heap, index>>
  ELSE LET i == index[fd]
           t == Erase(PopBack([Timer EXCEPT !.heap[i] = heap[Len(heap)]]), fd)
       IN  SetTimer(IF i <= Len(t.heap) THEN SiftDown(SiftUp(t, i), i) ELSE t)

\* Timer::remove: the node at the descriptor's position goes, whoever's it is.
Remove(fd) ==
  IF fd \notin DOMAIN index THEN UNCHANGED timer
  ELSE IF ~InVector(fd) THEN damaged' = TRUE /\ UNCHANGED <<heap, index>>
  ELSE LET i == index[fd]
           t == Erase(PopBack(SwapNodes(Timer, i, Len(heap))), fd)
       IN  SetTimer(IF i <= Len(t.heap) THEN SiftDown(SiftUp(t, i), i) ELSE t)

\* Timer::refresh: so does the deadline there.
Refresh(fd) ==
  IF fd \notin DOMAIN index THEN UNCHANGED timer
  ELSE IF ~InVector(fd) THEN damaged' = TRUE /\ UNCHANGED <<heap, index>>
  ELSE LET i == index[fd]
           t == [Timer EXCEPT !.heap[i].expire = now + Timeout]
       IN  SetTimer(IF now + Timeout < heap[i].expire THEN SiftUp(t, i) ELSE SiftDown(t, i))

\* A turn of the loop of Timer::tick: what is left, and the descriptors returned.
TickTurn(s) ==
  IF s.timer.heap = <<>> \/ s.timer.heap[1].expire > now THEN s
  ELSE LET t == s.timer
           fd == t.heap[1].fd
           popped == PopBack(SwapNodes(Erase(t, fd), 1, Len(t.heap)))
       IN  [timer |-> IF popped.heap # <<>> THEN SiftDown(popped, 1) ELSE popped,
            fds |-> s.fds \cup {fd}]

\* Each turn pops a node.
Expire ==
  LET turn[n \in Nat] == IF n = 0 THEN [timer |-> Timer, fds |-> {}] ELSE TickTurn(turn[n - 1])
  IN  turn[Len(heap)]

-----------------------------------------------------------------------------
(* Its callers.                                                            *)

\* The clock; the loop of server.cpp wakes every 10 ms.
Advance ==
  /\ ~damaged /\ now < MaxTime
  /\ now' = now + 1
  /\ UNCHANGED <<open, marked, timer, due, expired>>

\* accept returns the lowest free descriptor.
Accept ==
  /\ ~damaged /\ open # Fds
  /\ LET fd == Min(Fds \ open)
     IN  /\ open' = open \cup {fd}
         /\ due' = [due EXCEPT ![fd] = now + Timeout]
         /\ Add(fd)
  /\ UNCHANGED <<now, marked, expired>>

\* Mutant: the mark stays.
CloseConnectionMarked(fd) ==
  /\ open' = open \ {fd}
  /\ UNCHANGED marked
  /\ Remove(fd)

\* Mutant: the node stays.
CloseConnectionTimed(fd) ==
  /\ open' = open \ {fd}
  /\ marked' = marked \ {fd}
  /\ UNCHANGED timer

\* close_connection
CloseConnection(fd) ==
  /\ open' = open \ {fd}
  /\ marked' = marked \ {fd}
  /\ Remove(fd)

\* The client hangs up.
Hangup(fd) ==
  /\ ~damaged /\ fd \in open
  /\ CloseConnection(fd)
  /\ UNCHANGED <<now, due, expired>>

\* The client sends something: a marked connection is closed instead.
ReadMarked(fd) ==
  /\ ~damaged /\ fd \in marked
  /\ CloseConnection(fd)
  /\ UNCHANGED <<now, due, expired>>

Read(fd) ==
  /\ ~damaged /\ fd \in open \ marked
  /\ due' = [due EXCEPT ![fd] = now + Timeout]
  /\ Refresh(fd)
  /\ UNCHANGED <<now, open, marked, expired>>

\* Timer::tick and the marks server.cpp sets for what it returns.
Tick ==
  /\ ~damaged
  /\ LET result == Expire
     IN  /\ result.fds # {}
         /\ SetTimer(result.timer)
         /\ marked' = marked \cup result.fds
  /\ expired' = TRUE
  /\ UNCHANGED <<now, open, due>>

Next ==
  \/ Advance \/ Accept \/ Tick
  \/ \E fd \in Fds : Hangup(fd) \/ ReadMarked(fd) \/ Read(fd)

Spec == Init /\ [][Next]_vars

-----------------------------------------------------------------------------
(* Properties.                                                             *)

TypeOK ==
  /\ now \in 0..MaxTime
  /\ open \in SUBSET Fds /\ marked \in SUBSET open
  /\ heap \in Seq(Nodes)
  /\ DOMAIN index \in SUBSET Fds /\ \A fd \in DOMAIN index : index[fd] \in 1..MaxFd
  /\ damaged \in BOOLEAN /\ expired \in BOOLEAN
  /\ due \in [Fds -> Nat]

\* A connection is marked as timed out only after it has been silent for the
\* whole time, whatever became of the nodes and positions of others.
NoEarlyTimeout ==
  [][\A fd \in marked' \ marked : due[fd] <= now]_vars

\* Until the first time-out the timer is exact: one node for each connection,
\* with its deadline, found at its position, and no access outside the vector.
ExactUntilTimeout ==
  ~expired =>
    /\ ~damaged
    /\ {heap[i].fd : i \in DOMAIN heap} = open /\ Len(heap) = Cardinality(open)
    /\ DOMAIN index = open
    /\ \A fd \in open : heap[index[fd]] = [fd |-> fd, expire |-> due[fd]]

\* A node is found at the position entered for its descriptor, and a descriptor
\* has one node at most, also when a stale position made remove or refresh work
\* on the node of another: what tick pops is what its descriptor's index named.
PositionsKept ==
  /\ \A i \in DOMAIN heap : heap[i].fd \in open \cap DOMAIN index /\ index[heap[i].fd] = i
  /\ ~damaged => DOMAIN index \in SUBSET open

===============================================================================
