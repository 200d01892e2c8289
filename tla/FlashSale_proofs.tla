-------------------------- MODULE FlashSale_proofs --------------------------
(***************************************************************************)
(* Proofs about FlashSale for any number of connections, orders and items: *)
(* the counter's ledger, no oversell, no refusal while an item is left,    *)
(* and the implementation of StockLedger.                                  *)
(***************************************************************************)
EXTENDS FlashSale, FiniteSetTheorems, SequenceTheorems, TLAPS

\* What a Send does to one queue, element by element.
LEMMA ConcatElements ==
  ASSUME NEW S, NEW s \in Seq(S), NEW t \in Seq(S)
  PROVE  /\ s \o t \in Seq(S)
         /\ Len(s \o t) = Len(s) + Len(t)
         /\ \A i \in 1..Len(s) : (s \o t)[i] = s[i]
         /\ \A i \in 1..Len(t) : (s \o t)[Len(s) + i] = t[i]
         /\ \A i \in 1..Len(s \o t) :
              i \in 1..Len(s) \/ \E k \in 1..Len(t) : i = Len(s) + k
<1>1. /\ s \o t \in Seq(S)
      /\ Len(s \o t) = Len(s) + Len(t)
      /\ \A i \in 1..(Len(s) + Len(t)) :
           (s \o t)[i] = IF i <= Len(s) THEN s[i] ELSE t[i - Len(s)]
  BY ConcatProperties
<1>2. Len(s) \in Nat /\ Len(t) \in Nat
  OBVIOUS
<1>3. \A i \in 1..Len(s) : (s \o t)[i] = s[i]
  BY <1>1, <1>2
<1>4. \A i \in 1..Len(t) : (s \o t)[Len(s) + i] = t[i]
  <2> TAKE i \in 1..Len(t)
  <2>1. Len(s) + i \in 1..(Len(s) + Len(t)) /\ ~(Len(s) + i <= Len(s))
        /\ (Len(s) + i) - Len(s) = i
    BY <1>2
  <2> QED
    BY <1>1, <2>1
<1>5. ASSUME NEW i \in 1..Len(s \o t), i \notin 1..Len(s)
      PROVE  \E k \in 1..Len(t) : i = Len(s) + k
  <2>1. i - Len(s) \in 1..Len(t) /\ i = Len(s) + (i - Len(s))
    BY <1>1, <1>2, <1>5
  <2> QED
    BY <2>1
<1> QED
  BY <1>1, <1>3, <1>4, <1>5

-----------------------------------------------------------------------------
\* The type invariant, the connections' flags apart from the data.
TypeOpen == open \in [Clients -> BOOLEAN]

TypeData ==
  /\ req \in [Clients -> Seq(Requests)]
  /\ rep \in [Clients -> Seq(Replies)]
  /\ stock \in Int
  /\ pending \in Seq(Orders)
  /\ daily \in Nat /\ revenue \in Nat
  /\ score \in Nat
  /\ phase \in [Orders -> Phases]
  /\ drops \in 0..MaxDrops

LEMMA TypeSplit == TypeOK <=> TypeOpen /\ TypeData
  BY Zenon DEF TypeOK, TypeOpen, TypeData

LEMMA OpenStep == TypeOpen /\ [Next]_vars => TypeOpen'
<1> SUFFICES ASSUME TypeOpen, [Next]_vars PROVE TypeOpen'
  OBVIOUS
<1>1. ASSUME NEW c \in Clients, Disconnect(c) PROVE TypeOpen'
  <2>1. open' = [open EXCEPT ![c] = FALSE]
    BY <1>1 DEF Disconnect
  <2> QED
    BY <2>1, Zenon DEF TypeOpen
<1>2. CASE open' = open
  BY <1>2, Zenon DEF TypeOpen
<1>3. open' = open \/ \E c \in Clients : Disconnect(c)
  BY Zenon DEF Next, vars, orderVars, ExecuteOrder, OnBatchStressTest, Callback, OnDecr,
     OnZscore, Serve, ServeDecr, ServeIncr, ServeLpush, ServeDailyOrders, ServeRevenue,
     ServeZscore, ServeZadd
<1> QED
  BY <1>1, <1>2, <1>3

\* The constants, in the form the steps use.
LEMMA OrderClient == \A o \in Orders : By[o] \in Clients
  BY ConstantsAssumption

LEMMA RequestType ==
  ASSUME NEW cmd \in Commands, NEW o \in Orders, NEW n \in Nat
  PROVE  /\ Request(cmd, o, n) \in Requests
         /\ Request(cmd, o, n).cmd = cmd
         /\ Request(cmd, o, n).ord = o
         /\ Request(cmd, o, n).arg = n
  BY DEF Request, Requests

\* The messages the panel sends have the type of requests.
LEMMA SendType ==
  ASSUME TypeData, NEW c \in Clients, NEW msgs \in Seq(Requests), Send(c, msgs)
  PROVE  req' \in [Clients -> Seq(Requests)]
<1>1. req[c] \o msgs \in Seq(Requests)
  BY ConcatProperties DEF TypeData
<1> QED
  BY <1>1 DEF TypeData, Send

LEMMA RecordingType == \A o \in Orders : Recording(o) \in Seq(Requests)
<1> TAKE o \in Orders
<1> DEFINE r1 == Request("LPUSH", o, 0)
           r2 == Request("INCR orders", o, 0)
           r3 == Request("INCRBY revenue", o, 1)
           r4 == Request("ZSCORE", o, 0)
<1>1. r1 \in Requests /\ r2 \in Requests /\ r3 \in Requests /\ r4 \in Requests
  BY RequestType DEF Commands
<1>2. Recording(o) = <<r1, r2, r3>> \o IF Batched(o) THEN <<>> ELSE <<r4>>
  BY DEF Recording
<1> HIDE DEF r1, r2, r3, r4
<1>3. <<r1, r2, r3>> \in Seq(Requests) /\ <<r4>> \in Seq(Requests) /\ <<>> \in Seq(Requests)
  BY <1>1
<1>4. CASE Batched(o)
  BY <1>2, <1>3, <1>4, ConcatProperties
<1>5. CASE ~Batched(o)
  BY <1>2, <1>3, <1>5, ConcatProperties
<1> QED
  BY <1>4, <1>5

LEMMA HandleType ==
  ASSUME TypeData, NEW c \in Clients, NEW cmd, Handle(c, cmd)
  PROVE  /\ Head(rep[c]) \in Replies /\ Head(rep[c]).cmd = cmd
         /\ rep' \in [Clients -> Seq(Replies)]
<1>1. rep[c] \in Seq(Replies) /\ rep[c] # <<>>
  BY DEF TypeData, Handle
<1>2. Head(rep[c]) \in Replies /\ Tail(rep[c]) \in Seq(Replies)
  BY <1>1, HeadTailProperties
<1> QED
  BY <1>2 DEF TypeData, Handle

LEMMA ExecuteType ==
  ASSUME TypeData, NEW c \in Clients, NEW cmd, Execute(c, cmd)
  PROVE  /\ Head(req[c]) \in Requests /\ Head(req[c]).cmd = cmd
         /\ req' \in [Clients -> Seq(Requests)]
<1>1. req[c] \in Seq(Requests) /\ req[c] # <<>>
  BY DEF TypeData, Execute
<1>2. Head(req[c]) \in Requests /\ Tail(req[c]) \in Seq(Requests)
  BY <1>1, HeadTailProperties
<1> QED
  BY <1>2 DEF TypeData, Execute

LEMMA AnswerType ==
  ASSUME TypeData, NEW c \in Clients, Head(req[c]) \in Requests, NEW res \in Int,
         Head(req[c]).cmd = "ZSCORE" => res \in Nat, Answer(c, res)
  PROVE  rep' \in [Clients -> Seq(Replies)]
<1> DEFINE m == Head(req[c])
           reply == [cmd |-> m.cmd, ord |-> m.ord, arg |-> m.arg, res |-> res]
<1>1. reply \in Replies
  BY DEF Requests, Replies
<1>2. rep' = rep \/ rep' = [rep EXCEPT ![c] = Append(@, reply)]
  BY Zenon DEF Answer
<1> HIDE DEF reply
<1>3. Append(rep[c], reply) \in Seq(Replies)
  BY <1>1, AppendProperties DEF TypeData
<1> QED
  BY <1>2, <1>3 DEF TypeData

LEMMA DataStep == TypeData /\ [Next]_vars => TypeData'
<1> SUFFICES ASSUME TypeData, [Next]_vars PROVE TypeData'
  OBVIOUS
<1>1. ASSUME NEW o \in Orders, ExecuteOrder(o) PROVE TypeData'
  <2> DEFINE m == Request("DECR", o, 0)
  <2>1. m \in Requests
    BY RequestType DEF Commands
  <2>2. Send(By[o], <<m>>)
    BY <1>1 DEF ExecuteOrder
  <2> HIDE DEF m
  <2>5. <<m>> \in Seq(Requests) /\ By[o] \in Clients
    BY <2>1, OrderClient
  <2>3. req' \in [Clients -> Seq(Requests)]
    BY <2>2, <2>5, SendType
  <2>4. phase' \in [Orders -> Phases]
    BY <1>1 DEF ExecuteOrder, TypeData, Phases
  <2> QED
    BY <1>1, <2>3, <2>4 DEF ExecuteOrder, TypeData
<1>2. ASSUME NEW c \in Clients, OnBatchStressTest(c) PROVE TypeData'
  <2> DEFINE msgs == [i \in DOMAIN Batch[c] |-> Request("DECR", Batch[c][i], 0)]
  <2>1. Batch[c] \in Seq(Orders)
    BY ConstantsAssumption
  <2>2. \A i \in 1..Len(Batch[c]) : Request("DECR", Batch[c][i], 0) \in Requests
    <3> TAKE i \in 1..Len(Batch[c])
    <3>1. Batch[c][i] \in Orders
      BY <2>1
    <3> QED
      BY <3>1, RequestType DEF Commands
  <2>3. msgs \in Seq(Requests)
    BY <2>1, <2>2
  <2>4. Send(c, msgs)
    BY <1>2 DEF OnBatchStressTest
  <2> HIDE DEF msgs
  <2>5. req' \in [Clients -> Seq(Requests)]
    BY <2>3, <2>4, SendType
  <2>6. phase' \in [Orders -> Phases]
    BY <1>2 DEF OnBatchStressTest, TypeData, Phases
  <2> QED
    BY <1>2, <2>5, <2>6 DEF OnBatchStressTest, TypeData
<1>3. ASSUME NEW c \in Clients, OnDecr(c) PROVE TypeData'
  <2>1. Head(rep[c]) \in Replies /\ rep' \in [Clients -> Seq(Replies)]
    BY <1>3, HandleType DEF OnDecr
  <2> DEFINE o == Head(rep[c]).ord
             m == Request("INCR", o, 0)
             msgs == IF Head(rep[c]).res >= 0 THEN Recording(o) ELSE <<m>>
  <2>2. o \in Orders
    BY <2>1 DEF Replies
  <2>3. m \in Requests
    BY <2>2, RequestType DEF Commands
  <2>4. msgs \in Seq(Requests)
    BY <2>2, <2>3, RecordingType
  <2>5. Send(c, msgs)
    BY <1>3 DEF OnDecr
  <2> HIDE DEF msgs
  <2>6. req' \in [Clients -> Seq(Requests)]
    BY <2>4, <2>5, SendType
  <2> QED
    BY <1>3, <2>1, <2>6 DEF OnDecr, orderVars, TypeData
<1>4. ASSUME NEW c \in Clients, OnZscore(c) PROVE TypeData'
  <2> DEFINE m == Request("ZADD", Head(rep[c]).ord, Head(rep[c]).res + 1)
  <2>1. Head(rep[c]) \in Replies /\ rep' \in [Clients -> Seq(Replies)]
    BY <1>4, HandleType DEF OnZscore
  <2>2. Head(rep[c]).ord \in Orders /\ Head(rep[c]).res + 1 \in Nat
    <3>1. Head(rep[c]).cmd = "ZSCORE"
      BY <1>4, HandleType DEF OnZscore
    <3> QED
      BY <2>1, <3>1 DEF Replies
  <2>5. m \in Requests
    BY <2>2, RequestType DEF Commands
  <2>3. Send(c, <<m>>)
    BY <1>4 DEF OnZscore
  <2> HIDE DEF m
  <2>6. <<m>> \in Seq(Requests)
    BY <2>5
  <2>4. req' \in [Clients -> Seq(Requests)]
    BY <2>3, <2>6, SendType
  <2> QED
    BY <1>4, <2>1, <2>4 DEF OnZscore, orderVars, TypeData
<1>5. ASSUME NEW c \in Clients, Disconnect(c) PROVE TypeData'
  <2>1. PICK n \in 0..Len(req[c]) : req' = [req EXCEPT ![c] = SubSeq(@, 1, n)]
    BY <1>5 DEF Disconnect
  <2>2. req' \in [Clients -> Seq(Requests)]
    BY <2>1 DEF TypeData
  <2>3. drops' \in 0..MaxDrops
    BY <1>5, ConstantsAssumption DEF Disconnect, TypeData
  <2> QED
    BY <1>5, <2>2, <2>3 DEF Disconnect, orderVars, TypeData
<1>6. ASSUME NEW c \in Clients, ServeDecr(c) PROVE TypeData'
  <2>1. /\ Head(req[c]) \in Requests /\ req' \in [Clients -> Seq(Requests)]
        /\ Head(req[c]).cmd = "DECR"
    BY <1>6, ExecuteType DEF ServeDecr
  <2>2. stock' \in Int
    BY <1>6 DEF ServeDecr, TypeData
  <2>3. rep' \in [Clients -> Seq(Replies)]
    BY <1>6, <2>1, <2>2, AnswerType DEF ServeDecr
  <2>4. phase' \in [Orders -> Phases]
    BY <1>6 DEF ServeDecr, TypeData, Phases
  <2> QED
    BY <1>6, <2>1, <2>2, <2>3, <2>4 DEF ServeDecr, TypeData
<1>7. ASSUME NEW c \in Clients, ServeIncr(c) PROVE TypeData'
  <2>1. req' \in [Clients -> Seq(Requests)]
    BY <1>7, ExecuteType DEF ServeIncr
  <2>2. stock' \in Int
    BY <1>7 DEF ServeIncr, TypeData
  <2>3. phase' \in [Orders -> Phases]
    BY <1>7 DEF ServeIncr, TypeData, Phases
  <2> QED
    BY <1>7, <2>1, <2>2, <2>3 DEF ServeIncr, TypeData
<1>8. ASSUME NEW c \in Clients, ServeLpush(c) PROVE TypeData'
  <2>1. Head(req[c]) \in Requests /\ req' \in [Clients -> Seq(Requests)]
    BY <1>8, ExecuteType DEF ServeLpush
  <2>2. Head(req[c]).ord \in Orders
    BY <2>1 DEF Requests
  <2>3. pending' \in Seq(Orders)
    BY <1>8, <2>2 DEF ServeLpush, TypeData
  <2> QED
    BY <1>8, <2>1, <2>3 DEF ServeLpush, TypeData
<1>9. ASSUME NEW c \in Clients, ServeDailyOrders(c) PROVE TypeData'
  <2>1. req' \in [Clients -> Seq(Requests)]
    BY <1>9, ExecuteType DEF ServeDailyOrders
  <2>2. daily' \in Nat
    <3>1. daily' = daily + 1
      BY <1>9 DEF ServeDailyOrders
    <3>2. daily \in Nat
      BY DEF TypeData
    <3> QED
      BY <3>1, <3>2
  <2> QED
    BY <1>9, <2>1, <2>2 DEF ServeDailyOrders, TypeData
<1>10. ASSUME NEW c \in Clients, ServeRevenue(c) PROVE TypeData'
  <2>1. Head(req[c]) \in Requests /\ req' \in [Clients -> Seq(Requests)]
    BY <1>10, ExecuteType DEF ServeRevenue
  <2>2. Head(req[c]).arg \in Nat
    BY <2>1 DEF Requests
  <2>3. revenue' \in Nat
    <3>1. revenue' = revenue + Head(req[c]).arg
      BY <1>10 DEF ServeRevenue
    <3>2. revenue \in Nat
      BY DEF TypeData
    <3> QED
      BY <2>2, <3>1, <3>2
  <2> QED
    BY <1>10, <2>1, <2>3 DEF ServeRevenue, TypeData
<1>11. ASSUME NEW c \in Clients, ServeZscore(c) PROVE TypeData'
  <2>1. Head(req[c]) \in Requests /\ req' \in [Clients -> Seq(Requests)]
    BY <1>11, ExecuteType DEF ServeZscore
  <2>2. rep' \in [Clients -> Seq(Replies)]
    <3>1. Answer(c, score) /\ score \in Nat /\ score \in Int
      BY <1>11 DEF ServeZscore, TypeData
    <3> QED
      BY <2>1, <3>1, AnswerType
  <2> QED
    BY <1>11, <2>1, <2>2 DEF ServeZscore, orderVars, TypeData
<1>12. ASSUME NEW c \in Clients, ServeZadd(c) PROVE TypeData'
  <2>1. Head(req[c]) \in Requests /\ req' \in [Clients -> Seq(Requests)]
    BY <1>12, ExecuteType DEF ServeZadd
  <2>2. Head(req[c]).arg \in Nat
    BY <2>1 DEF Requests
  <2> QED
    BY <1>12, <2>1, <2>2 DEF ServeZadd, TypeData
<1>13. CASE UNCHANGED vars
  BY <1>13 DEF vars, orderVars, TypeData
<1> QED
  BY <1>1, <1>2, <1>3, <1>4, <1>5, <1>6, <1>7, <1>8, <1>9, <1>10, <1>11, <1>12, <1>13
  DEF Next, Callback, Serve

LEMMA InitType == Init => TypeOK
<1> SUFFICES ASSUME Init PROVE TypeOK
  OBVIOUS
<1>1. TypeOpen
  BY Zenon DEF Init, TypeOpen
<1>2. TypeData
  BY ConstantsAssumption DEF Init, TypeData, Phases
<1> QED
  BY <1>1, <1>2, TypeSplit

LEMMA TypeStep == TypeOK /\ [Next]_vars => TypeOK'
<1>1. TypeOK' <=> TypeOpen' /\ TypeData'
  BY Zenon DEF TypeOK, TypeOpen, TypeData
<1> QED
  BY <1>1, TypeSplit, OpenStep, DataStep

\* TypeOK holds throughout, for every value of the constants.
THEOREM TypeCorrect == Spec => []TypeOK
  BY InitType, TypeStep, PTL DEF Spec

-----------------------------------------------------------------------------
(* Where an order is: at most one of its decrement, its rollback and its   *)
(* record is under way, or its reply, or its entry in the queue.           *)

Carries(m) == m.cmd \in {"DECR", "INCR", "LPUSH"}
Stage(cmd) == IF cmd = "DECR" THEN "placed" ELSE IF cmd = "INCR" THEN "refused" ELSE "granted"
Outcome(res) == IF res >= 0 THEN "granted" ELSE "refused"

Waiting(q) == {q[i].ord : i \in {j \in 1..Len(q) : Carries(q[j])}}
Answered(r) == {r[i].ord : i \in {j \in 1..Len(r) : r[j].cmd = "DECR"}}
Recorded(p) == {p[i] : i \in 1..Len(p)}

ReqGood(c, q, ph) ==
  /\ \A i \in 1..Len(q) :
       Carries(q[i]) => By[q[i].ord] = c /\ ph[q[i].ord] = Stage(q[i].cmd)
  /\ \A i, j \in 1..Len(q) :
       i # j /\ Carries(q[i]) /\ Carries(q[j]) => q[i].ord # q[j].ord

RepGood(c, r, ph) ==
  /\ \A i \in 1..Len(r) :
       r[i].cmd = "DECR" => By[r[i].ord] = c /\ ph[r[i].ord] = Outcome(r[i].res)
  /\ \A i, j \in 1..Len(r) :
       i # j /\ r[i].cmd = "DECR" /\ r[j].cmd = "DECR" => r[i].ord # r[j].ord

PendingGood(p, ph) ==
  /\ \A i \in 1..Len(p) : ph[p[i]] = "granted"
  /\ \A i, j \in 1..Len(p) : i # j => p[i] # p[j]

Flow ==
  /\ \A c \in Clients :
       /\ ReqGood(c, req[c], phase) /\ RepGood(c, rep[c], phase)
       /\ Waiting(req[c]) \intersect Answered(rep[c]) = {}
       /\ Waiting(req[c]) \intersect Recorded(pending) = {}
       /\ Answered(rep[c]) \intersect Recorded(pending) = {}
  /\ PendingGood(pending, phase)

Bounded == Cardinality(In("granted")) <= Stock0

\* The order of whatever waits belongs to the connection, in the right phase.
LEMMA WaitingFacts ==
  ASSUME NEW c \in Clients, NEW q \in Seq(Requests), NEW ph, ReqGood(c, q, ph)
  PROVE  \A o \in Waiting(q) : /\ o \in Orders /\ By[o] = c
                               /\ ph[o] \in {"placed", "refused", "granted"}
<1> TAKE o \in Waiting(q)
<1>1. PICK i \in 1..Len(q) : Carries(q[i]) /\ o = q[i].ord
  BY DEF Waiting
<1>2. q[i] \in Requests
  BY ElementOfSeq
<1>3. o \in Orders
  BY <1>1, <1>2 DEF Requests
<1>4. By[o] = c /\ ph[o] = Stage(q[i].cmd)
  BY <1>1 DEF ReqGood
<1> QED
  BY <1>3, <1>4 DEF Stage

LEMMA AnsweredFacts ==
  ASSUME NEW c \in Clients, NEW r \in Seq(Replies), NEW ph, RepGood(c, r, ph)
  PROVE  \A o \in Answered(r) : o \in Orders /\ By[o] = c /\ ph[o] \in {"granted", "refused"}
<1> TAKE o \in Answered(r)
<1>1. PICK i \in 1..Len(r) : r[i].cmd = "DECR" /\ o = r[i].ord
  BY DEF Answered
<1>2. r[i] \in Replies
  BY ElementOfSeq
<1>3. o \in Orders
  BY <1>1, <1>2 DEF Replies
<1>4. By[o] = c /\ ph[o] = Outcome(r[i].res)
  BY <1>1 DEF RepGood
<1> QED
  BY <1>3, <1>4 DEF Outcome

\* Phases may change elsewhere.
LEMMA ReqFrame ==
  ASSUME NEW c \in Clients, NEW q \in Seq(Requests), NEW ph, NEW ph2, ReqGood(c, q, ph),
         \A o \in Waiting(q) : ph2[o] = ph[o]
  PROVE  ReqGood(c, q, ph2)
<1>1. \A i \in 1..Len(q) : Carries(q[i]) => q[i].ord \in Waiting(q)
  BY DEF Waiting
<1> QED
  BY <1>1 DEF ReqGood

LEMMA RepFrame ==
  ASSUME NEW c \in Clients, NEW r \in Seq(Replies), NEW ph, NEW ph2, RepGood(c, r, ph),
         \A o \in Answered(r) : ph2[o] = ph[o]
  PROVE  RepGood(c, r, ph2)
<1>1. \A i \in 1..Len(r) : r[i].cmd = "DECR" => r[i].ord \in Answered(r)
  BY DEF Answered
<1> QED
  BY <1>1 DEF RepGood

LEMMA PendingFrame ==
  ASSUME NEW p, NEW ph, NEW ph2, PendingGood(p, ph), \A o \in Recorded(p) : ph2[o] = ph[o]
  PROVE  PendingGood(p, ph2)
<1>1. \A i \in 1..Len(p) : p[i] \in Recorded(p)
  BY DEF Recorded
<1> QED
  BY <1>1 DEF PendingGood

\* The oldest request leaves its queue.
LEMMA ReqTail ==
  ASSUME NEW c \in Clients, NEW q \in Seq(Requests), q # <<>>, NEW ph, ReqGood(c, q, ph)
  PROVE  /\ ReqGood(c, Tail(q), ph)
         /\ Waiting(Tail(q)) \subseteq Waiting(q)
         /\ Carries(Head(q)) => /\ Head(q).ord \in Waiting(q)
                                /\ Head(q).ord \notin Waiting(Tail(q))
                                /\ ph[Head(q).ord] = Stage(Head(q).cmd)
<1>1. /\ Len(q) \in Nat /\ Len(q) > 0 /\ Len(Tail(q)) = Len(q) - 1 /\ Head(q) = q[1]
      /\ \A i \in 1..Len(Tail(q)) : Tail(q)[i] = q[i + 1]
  BY HeadTailProperties, EmptySeq
<1>2. \A i \in 1..Len(Tail(q)) : i + 1 \in 1..Len(q) /\ i + 1 # 1
  BY <1>1
<1>3. 1 \in 1..Len(q)
  BY <1>1
<1>4. \A i, j \in 1..Len(Tail(q)) : i # j => i + 1 # j + 1
  BY <1>1
<1>5. ReqGood(c, Tail(q), ph)
  BY <1>1, <1>2, <1>4 DEF ReqGood
<1>6. Waiting(Tail(q)) \subseteq Waiting(q)
  <2> SUFFICES ASSUME NEW o \in Waiting(Tail(q)) PROVE o \in Waiting(q)
    OBVIOUS
  <2>1. PICK i \in 1..Len(Tail(q)) : Carries(Tail(q)[i]) /\ o = Tail(q)[i].ord
    BY DEF Waiting
  <2> QED
    BY <1>1, <1>2, <2>1 DEF Waiting
<1>7. ASSUME Carries(Head(q))
      PROVE  /\ Head(q).ord \in Waiting(q)
             /\ Head(q).ord \notin Waiting(Tail(q))
             /\ ph[Head(q).ord] = Stage(Head(q).cmd)
  <2>1. Head(q).ord \in Waiting(q) /\ ph[Head(q).ord] = Stage(Head(q).cmd)
    BY <1>1, <1>3, <1>7 DEF Waiting, ReqGood
  <2>2. ASSUME Head(q).ord \in Waiting(Tail(q)) PROVE FALSE
    <3>1. PICK i \in 1..Len(Tail(q)) : Carries(Tail(q)[i]) /\ Head(q).ord = Tail(q)[i].ord
      BY <2>2 DEF Waiting
    <3> QED
      BY <1>1, <1>2, <1>3, <1>7, <3>1 DEF ReqGood
  <2> QED
    BY <2>1, <2>2
<1> QED
  BY <1>5, <1>6, <1>7

LEMMA RepTail ==
  ASSUME NEW c \in Clients, NEW r \in Seq(Replies), r # <<>>, NEW ph, RepGood(c, r, ph)
  PROVE  /\ RepGood(c, Tail(r), ph)
         /\ Answered(Tail(r)) \subseteq Answered(r)
         /\ Head(r).cmd = "DECR" => /\ Head(r).ord \in Answered(r)
                                    /\ Head(r).ord \notin Answered(Tail(r))
                                    /\ ph[Head(r).ord] = Outcome(Head(r).res)
<1>1. /\ Len(r) \in Nat /\ Len(r) > 0 /\ Len(Tail(r)) = Len(r) - 1 /\ Head(r) = r[1]
      /\ \A i \in 1..Len(Tail(r)) : Tail(r)[i] = r[i + 1]
  BY HeadTailProperties, EmptySeq
<1>2. \A i \in 1..Len(Tail(r)) : i + 1 \in 1..Len(r) /\ i + 1 # 1
  BY <1>1
<1>3. 1 \in 1..Len(r)
  BY <1>1
<1>4. \A i, j \in 1..Len(Tail(r)) : i # j => i + 1 # j + 1
  BY <1>1
<1>5. RepGood(c, Tail(r), ph)
  BY <1>1, <1>2, <1>4 DEF RepGood
<1>6. Answered(Tail(r)) \subseteq Answered(r)
  <2> SUFFICES ASSUME NEW o \in Answered(Tail(r)) PROVE o \in Answered(r)
    OBVIOUS
  <2>1. PICK i \in 1..Len(Tail(r)) : Tail(r)[i].cmd = "DECR" /\ o = Tail(r)[i].ord
    BY DEF Answered
  <2> QED
    BY <1>1, <1>2, <2>1 DEF Answered
<1>7. ASSUME Head(r).cmd = "DECR"
      PROVE  /\ Head(r).ord \in Answered(r)
             /\ Head(r).ord \notin Answered(Tail(r))
             /\ ph[Head(r).ord] = Outcome(Head(r).res)
  <2>1. Head(r).ord \in Answered(r) /\ ph[Head(r).ord] = Outcome(Head(r).res)
    BY <1>1, <1>3, <1>7 DEF Answered, RepGood
  <2>2. ASSUME Head(r).ord \in Answered(Tail(r)) PROVE FALSE
    <3>1. PICK i \in 1..Len(Tail(r)) : Tail(r)[i].cmd = "DECR" /\ Head(r).ord = Tail(r)[i].ord
      BY <2>2 DEF Answered
    <3> QED
      BY <1>1, <1>2, <1>3, <1>7, <3>1 DEF RepGood
  <2> QED
    BY <2>1, <2>2
<1> QED
  BY <1>5, <1>6, <1>7

\* A closed connection leaves a prefix of its requests.
LEMMA ReqPrefix ==
  ASSUME NEW c \in Clients, NEW q \in Seq(Requests), NEW n \in 0..Len(q), NEW ph,
         ReqGood(c, q, ph)
  PROVE  /\ ReqGood(c, SubSeq(q, 1, n), ph)
         /\ Waiting(SubSeq(q, 1, n)) \subseteq Waiting(q)
<1>1. Len(q) \in Nat /\ n \in Nat /\ n <= Len(q)
  OBVIOUS
<1>2. /\ Len(SubSeq(q, 1, n)) = n
      /\ \A i \in 1..n : SubSeq(q, 1, n)[i] = q[i] /\ i \in 1..Len(q)
  BY <1>1
<1> DEFINE s == SubSeq(q, 1, n)
<1>3. \A i \in 1..Len(s) : s[i] = q[i] /\ i \in 1..Len(q)
  BY <1>2
<1> HIDE DEF s
<1>4. ReqGood(c, s, ph)
  BY <1>3 DEF ReqGood
<1>5. Waiting(s) \subseteq Waiting(q)
  BY <1>3 DEF Waiting
<1> QED
  BY <1>4, <1>5 DEF s

\* New requests join a queue, about other orders than those in it.
LEMMA ReqConcat ==
  ASSUME NEW c \in Clients, NEW q \in Seq(Requests), NEW t \in Seq(Requests), NEW ph,
         ReqGood(c, q, ph), ReqGood(c, t, ph), Waiting(q) \intersect Waiting(t) = {}
  PROVE  /\ ReqGood(c, q \o t, ph)
         /\ Waiting(q \o t) = Waiting(q) \union Waiting(t)
<1> DEFINE s == q \o t
           Old(i) == i \in 1..Len(q) /\ s[i] = q[i]
           New(i, k) == k \in 1..Len(t) /\ i = Len(q) + k /\ s[i] = t[k]
<1>1. /\ \A i \in 1..Len(s) : Old(i) \/ \E k \in 1..Len(t) : New(i, k)
      /\ \A i \in 1..Len(q) : i \in 1..Len(s) /\ s[i] = q[i]
      /\ \A k \in 1..Len(t) : Len(q) + k \in 1..Len(s) /\ s[Len(q) + k] = t[k]
  <2>1. /\ Len(q) \in Nat /\ Len(t) \in Nat /\ Len(s) = Len(q) + Len(t)
        /\ \A i \in 1..Len(q) : s[i] = q[i]
        /\ \A i \in 1..Len(t) : s[Len(q) + i] = t[i]
        /\ \A i \in 1..Len(s) : i \in 1..Len(q) \/ \E k \in 1..Len(t) : i = Len(q) + k
    BY ConcatElements
  <2> HIDE DEF s
  <2>2. ASSUME NEW i \in 1..Len(s) PROVE Old(i) \/ \E k \in 1..Len(t) : New(i, k)
    <3>1. CASE i \in 1..Len(q)
      BY <2>1, <3>1
    <3>2. ASSUME NEW k \in 1..Len(t), i = Len(q) + k PROVE New(i, k)
      BY <2>1, <3>2
    <3> HIDE DEF Old, New
    <3> QED
      BY <2>1, <3>1, <3>2
  <2>3. ASSUME NEW i \in 1..Len(q) PROVE i \in 1..Len(s) /\ s[i] = q[i]
    BY <2>1
  <2>4. ASSUME NEW k \in 1..Len(t)
        PROVE  Len(q) + k \in 1..Len(s) /\ s[Len(q) + k] = t[k]
    BY <2>1
  <2> HIDE DEF Old, New
  <2> QED
    BY <2>2, <2>3, <2>4
<1> HIDE DEF s
<1>2. /\ \A i \in 1..Len(q) : Carries(q[i]) => q[i].ord \in Waiting(q)
      /\ \A i \in 1..Len(t) : Carries(t[i]) => t[i].ord \in Waiting(t)
      /\ \A i \in 1..Len(s) : Carries(s[i]) => s[i].ord \in Waiting(s)
  BY DEF Waiting
<1>3. ASSUME NEW i \in 1..Len(s), Carries(s[i])
      PROVE  By[s[i].ord] = c /\ ph[s[i].ord] = Stage(s[i].cmd)
  <2>1. CASE Old(i)
    BY <1>3, <2>1 DEF ReqGood
  <2>2. ASSUME NEW k \in 1..Len(t), New(i, k)
        PROVE  By[s[i].ord] = c /\ ph[s[i].ord] = Stage(s[i].cmd)
    BY <1>3, <2>2 DEF ReqGood
  <2> QED
    BY <1>1, <2>1, <2>2
<1>4. ASSUME NEW i \in 1..Len(s), NEW j \in 1..Len(s), i # j, Carries(s[i]), Carries(s[j])
      PROVE  s[i].ord # s[j].ord
  <2>1. CASE Old(i) /\ Old(j)
    BY <1>4, <2>1 DEF ReqGood
  <2>2. ASSUME Old(i), NEW k \in 1..Len(t), New(j, k)
        PROVE  s[i].ord # s[j].ord
    <3>1. s[i].ord \in Waiting(q) /\ s[j].ord \in Waiting(t)
      BY <1>2, <1>4, <2>2
    <3> QED
      BY <3>1
  <2>3. ASSUME Old(j), NEW k \in 1..Len(t), New(i, k)
        PROVE  s[i].ord # s[j].ord
    <3>1. s[j].ord \in Waiting(q) /\ s[i].ord \in Waiting(t)
      BY <1>2, <1>4, <2>3
    <3> QED
      BY <3>1
  <2>4. ASSUME NEW k \in 1..Len(t), NEW l \in 1..Len(t), New(i, k), New(j, l)
        PROVE  s[i].ord # s[j].ord
    <3>1. k # l
      BY <1>4, <2>4
    <3> QED
      BY <1>4, <2>4, <3>1 DEF ReqGood
  <2> QED
    <3> HIDE DEF Old, New
    <3> QED
      BY <1>1, <2>1, <2>2, <2>3, <2>4
<1>5. Waiting(s) \subseteq Waiting(q) \union Waiting(t)
  <2> SUFFICES ASSUME NEW o \in Waiting(s) PROVE o \in Waiting(q) \union Waiting(t)
    OBVIOUS
  <2>1. PICK i \in 1..Len(s) : Carries(s[i]) /\ o = s[i].ord
    BY DEF Waiting
  <2>2. CASE Old(i)
    BY <1>2, <2>1, <2>2
  <2>3. ASSUME NEW k \in 1..Len(t), New(i, k) PROVE o \in Waiting(t)
    BY <1>2, <2>1, <2>3
  <2> QED
    BY <1>1, <2>2, <2>3
<1>6. Waiting(q) \subseteq Waiting(s)
  <2> SUFFICES ASSUME NEW o \in Waiting(q) PROVE o \in Waiting(s)
    OBVIOUS
  <2>1. PICK i \in 1..Len(q) : Carries(q[i]) /\ o = q[i].ord
    BY DEF Waiting
  <2> QED
    BY <1>1, <1>2, <2>1
<1>7. Waiting(t) \subseteq Waiting(s)
  <2> SUFFICES ASSUME NEW o \in Waiting(t) PROVE o \in Waiting(s)
    OBVIOUS
  <2>1. PICK i \in 1..Len(t) : Carries(t[i]) /\ o = t[i].ord
    BY DEF Waiting
  <2> QED
    BY <1>1, <1>2, <2>1
<1>8. ReqGood(c, s, ph)
  BY <1>3, <1>4 DEF ReqGood
<1> QED
  BY <1>5, <1>6, <1>7, <1>8 DEF s

\* A reply joins a queue.
LEMMA RepAppend ==
  ASSUME NEW c \in Clients, NEW r \in Seq(Replies), NEW m \in Replies, NEW ph,
         RepGood(c, r, ph),
         m.cmd = "DECR" => /\ m.ord \notin Answered(r) /\ By[m.ord] = c
                           /\ ph[m.ord] = Outcome(m.res)
  PROVE  /\ RepGood(c, Append(r, m), ph)
         /\ Answered(Append(r, m)) \subseteq
              Answered(r) \union (IF m.cmd = "DECR" THEN {m.ord} ELSE {})
<1> DEFINE s == Append(r, m)
<1>1. /\ Len(r) \in Nat /\ Len(s) = Len(r) + 1 /\ s[Len(r) + 1] = m
      /\ \A i \in 1..Len(r) : s[i] = r[i]
  BY AppendProperties
<1> HIDE DEF s
<1>2. \A i \in 1..Len(s) : i \in 1..Len(r) \/ i = Len(r) + 1
  BY <1>1
<1>3. \A i \in 1..Len(r) : r[i].cmd = "DECR" => r[i].ord \in Answered(r)
  BY DEF Answered
<1>4. \A i \in 1..Len(s) : s[i].cmd = "DECR" => By[s[i].ord] = c /\ ph[s[i].ord] = Outcome(s[i].res)
  BY <1>1, <1>2 DEF RepGood
<1>5. ASSUME NEW i \in 1..Len(s), NEW j \in 1..Len(s), i # j,
             s[i].cmd = "DECR", s[j].cmd = "DECR"
      PROVE  s[i].ord # s[j].ord
  <2>1. CASE i \in 1..Len(r) /\ j \in 1..Len(r)
    BY <1>1, <1>5, <2>1 DEF RepGood
  <2>2. CASE i = Len(r) + 1 /\ j \in 1..Len(r)
    BY <1>1, <1>3, <1>5, <2>2
  <2>3. CASE i \in 1..Len(r) /\ j = Len(r) + 1
    BY <1>1, <1>3, <1>5, <2>3
  <2> QED
    BY <1>2, <1>5, <2>1, <2>2, <2>3
<1>6. Answered(s) \subseteq Answered(r) \union (IF m.cmd = "DECR" THEN {m.ord} ELSE {})
  <2> SUFFICES ASSUME NEW i \in 1..Len(s), s[i].cmd = "DECR"
               PROVE  s[i].ord \in Answered(r) \union (IF m.cmd = "DECR" THEN {m.ord} ELSE {})
    BY DEF Answered
  <2> QED
    BY <1>1, <1>2, <1>3
<1>7. RepGood(c, s, ph)
  BY <1>4, <1>5 DEF RepGood
<1> QED
  BY <1>6, <1>7 DEF s

\* Flow at one connection, and what it says of the orders there.
FlowAt(d) ==
  /\ req[d] \in Seq(Requests) /\ rep[d] \in Seq(Replies)
  /\ ReqGood(d, req[d], phase) /\ RepGood(d, rep[d], phase)
  /\ Waiting(req[d]) \intersect Answered(rep[d]) = {}
  /\ Waiting(req[d]) \intersect Recorded(pending) = {}
  /\ Answered(rep[d]) \intersect Recorded(pending) = {}
  /\ \A o \in Waiting(req[d]) : o \in Orders /\ By[o] = d /\ phase[o] # "idle"
  /\ \A o \in Answered(rep[d]) : o \in Orders /\ By[o] = d /\ phase[o] # "idle"

LEMMA FlowFacts ==
  ASSUME TypeOK, Flow
  PROVE  /\ \A d \in Clients : FlowAt(d)
         /\ \A o \in Recorded(pending) : o \in Orders /\ phase[o] = "granted"
<1>1. ASSUME NEW d \in Clients PROVE FlowAt(d)
  <2>1. /\ req[d] \in Seq(Requests) /\ rep[d] \in Seq(Replies)
        /\ ReqGood(d, req[d], phase) /\ RepGood(d, rep[d], phase)
        /\ Waiting(req[d]) \intersect Answered(rep[d]) = {}
        /\ Waiting(req[d]) \intersect Recorded(pending) = {}
        /\ Answered(rep[d]) \intersect Recorded(pending) = {}
    BY DEF TypeOK, Flow
  <2>2. \A o \in Waiting(req[d]) : o \in Orders /\ By[o] = d /\ phase[o] # "idle"
    BY <2>1, WaitingFacts
  <2>3. \A o \in Answered(rep[d]) : o \in Orders /\ By[o] = d /\ phase[o] # "idle"
    BY <2>1, AnsweredFacts
  <2> QED
    BY <2>1, <2>2, <2>3 DEF FlowAt
<1>2. ASSUME NEW o \in Recorded(pending) PROVE o \in Orders /\ phase[o] = "granted"
  BY DEF Recorded, Flow, PendingGood, TypeOK
<1> QED
  BY <1>1, <1>2

\* Orders are about to enter one connection's queue: nothing else holds them.
LEMMA PlaceFlow ==
  ASSUME TypeOK, Flow, NEW c \in Clients, NEW msgs \in Seq(Requests), Send(c, msgs),
         ReqGood(c, msgs, phase'), \A o \in Waiting(msgs) : phase[o] = "idle",
         \A o \in Orders : phase[o] # "idle" => phase'[o] = phase[o],
         rep' = rep, pending' = pending
  PROVE  Flow'
<1>1. ASSUME NEW d \in Clients PROVE FlowAt(d)
  BY FlowFacts
<1>2. ASSUME NEW o \in Recorded(pending) PROVE o \in Orders /\ phase[o] = "granted"
  BY FlowFacts
<1>3. ASSUME NEW d \in Clients
      PROVE  /\ ReqGood(d, req[d], phase') /\ RepGood(d, rep[d], phase')
             /\ \A o \in Waiting(req[d]) : phase[o] # "idle"
             /\ \A o \in Answered(rep[d]) : phase[o] # "idle"
  <2>1. \A o \in Waiting(req[d]) : phase[o] # "idle" /\ phase'[o] = phase[o]
    BY <1>1 DEF FlowAt
  <2>2. \A o \in Answered(rep[d]) : phase[o] # "idle" /\ phase'[o] = phase[o]
    BY <1>1 DEF FlowAt
  <2>3. ReqGood(d, req[d], phase')
    <3>1. req[d] \in Seq(Requests) /\ ReqGood(d, req[d], phase)
      BY <1>1 DEF FlowAt
    <3> QED
      BY <2>1, <3>1, ReqFrame
  <2>4. RepGood(d, rep[d], phase')
    <3>1. rep[d] \in Seq(Replies) /\ RepGood(d, rep[d], phase)
      BY <1>1 DEF FlowAt
    <3> QED
      BY <2>2, <3>1, RepFrame
  <2> QED
    BY <2>1, <2>2, <2>3, <2>4
<1>4. PendingGood(pending, phase')
  <2>1. PendingGood(pending, phase)
    BY DEF Flow
  <2> QED
    BY <1>2, <2>1, PendingFrame
<1>5. ASSUME NEW d \in Clients
      PROVE  /\ ReqGood(d, req'[d], phase')
             /\ Waiting(req'[d]) \intersect Answered(rep[d]) = {}
             /\ Waiting(req'[d]) \intersect Recorded(pending) = {}
  <2>1. CASE d # c
    <3>1. req'[d] = req[d]
      BY <2>1 DEF Send, TypeOK
    <3> QED
      BY <1>1, <1>3, <3>1 DEF FlowAt
  <2>2. CASE d = c
    <3>1. req'[c] = req[c] \o msgs
      BY DEF Send, TypeOK
    <3>2. Waiting(req[c]) \intersect Waiting(msgs) = {}
      BY <1>3
    <3>3. /\ ReqGood(c, req'[c], phase')
          /\ Waiting(req'[c]) = Waiting(req[c]) \union Waiting(msgs)
      BY <1>1, <1>3, <3>1, <3>2, ReqConcat DEF FlowAt
    <3>4. \A o \in Waiting(msgs) : o \notin Answered(rep[c]) /\ o \notin Recorded(pending)
      BY <1>2, <1>3
    <3> QED
      BY <1>1, <2>2, <3>3, <3>4 DEF FlowAt
  <2> QED
    BY <2>1, <2>2
<1> QED
  BY <1>1, <1>3, <1>4, <1>5 DEF Flow, FlowAt

\* A callback consumes its reply and sends requests about its own order only.
LEMMA CallbackFlow ==
  ASSUME TypeOK, Flow, NEW c \in Clients, NEW msgs \in Seq(Requests), Send(c, msgs),
         ReqGood(c, msgs, phase), rep[c] # <<>>, rep' = [rep EXCEPT ![c] = Tail(@)],
         \A o \in Waiting(msgs) : Head(rep[c]).cmd = "DECR" /\ o = Head(rep[c]).ord,
         phase' = phase, pending' = pending
  PROVE  Flow'
<1>1. ASSUME NEW d \in Clients PROVE FlowAt(d)
  BY FlowFacts
<1>2. /\ RepGood(c, Tail(rep[c]), phase)
      /\ Answered(Tail(rep[c])) \subseteq Answered(rep[c])
      /\ \A o \in Waiting(msgs) : o \in Answered(rep[c]) /\ o \notin Answered(Tail(rep[c]))
  <2>1. rep[c] \in Seq(Replies) /\ RepGood(c, rep[c], phase)
    BY <1>1 DEF FlowAt
  <2>2. /\ RepGood(c, Tail(rep[c]), phase)
        /\ Answered(Tail(rep[c])) \subseteq Answered(rep[c])
        /\ Head(rep[c]).cmd = "DECR" =>
             /\ Head(rep[c]).ord \in Answered(rep[c])
             /\ Head(rep[c]).ord \notin Answered(Tail(rep[c]))
    BY <2>1, RepTail
  <2> QED
    BY <2>2
<1>3. /\ ReqGood(c, req[c] \o msgs, phase)
      /\ Waiting(req[c] \o msgs) = Waiting(req[c]) \union Waiting(msgs)
  <2>1. Waiting(req[c]) \intersect Waiting(msgs) = {}
    BY <1>1, <1>2 DEF FlowAt
  <2> QED
    BY <1>1, <2>1, ReqConcat DEF FlowAt
<1>4. ASSUME NEW d \in Clients
      PROVE  /\ ReqGood(d, req'[d], phase) /\ RepGood(d, rep'[d], phase)
             /\ Waiting(req'[d]) \intersect Answered(rep'[d]) = {}
             /\ Waiting(req'[d]) \intersect Recorded(pending) = {}
             /\ Answered(rep'[d]) \intersect Recorded(pending) = {}
  <2>1. CASE d # c
    <3>1. req'[d] = req[d] /\ rep'[d] = rep[d]
      BY <2>1 DEF Send, TypeOK
    <3> QED
      BY <1>1, <3>1 DEF FlowAt
  <2>2. CASE d = c
    <3>1. req'[c] = req[c] \o msgs /\ rep'[c] = Tail(rep[c])
      BY DEF Send, TypeOK
    <3>2. /\ Waiting(req[c]) \intersect Answered(rep[c]) = {}
          /\ Waiting(req[c]) \intersect Recorded(pending) = {}
          /\ Answered(rep[c]) \intersect Recorded(pending) = {}
      BY <1>1 DEF FlowAt
    <3>3. /\ ReqGood(c, req'[c], phase) /\ RepGood(c, rep'[c], phase)
          /\ Waiting(req'[c]) = Waiting(req[c]) \union Waiting(msgs)
          /\ Answered(rep'[c]) = Answered(Tail(rep[c]))
      BY <1>2, <1>3, <3>1
    <3> QED
      BY <1>2, <2>2, <3>2, <3>3
  <2> QED
    BY <2>1, <2>2
<1>5. PendingGood(pending, phase)
  BY DEF Flow
<1>6. /\ \A d \in Clients :
           /\ ReqGood(d, req'[d], phase') /\ RepGood(d, rep'[d], phase')
           /\ Waiting(req'[d]) \intersect Answered(rep'[d]) = {}
           /\ Waiting(req'[d]) \intersect Recorded(pending') = {}
           /\ Answered(rep'[d]) \intersect Recorded(pending') = {}
      /\ PendingGood(pending', phase')
  BY <1>4, <1>5
<1> QED
  BY <1>6 DEF Flow

LEMMA DisconnectFlow ==
  ASSUME TypeOK, Flow, NEW c \in Clients, Disconnect(c)
  PROVE  Flow'
<1>1. ASSUME NEW d \in Clients PROVE FlowAt(d)
  BY FlowFacts
<1>2. PICK n \in 0..Len(req[c]) : req' = [req EXCEPT ![c] = SubSeq(@, 1, n)]
  BY DEF Disconnect
<1>3. rep' = [rep EXCEPT ![c] = <<>>] /\ phase' = phase /\ pending' = pending
  BY DEF Disconnect, orderVars
<1>4. /\ ReqGood(c, SubSeq(req[c], 1, n), phase)
      /\ Waiting(SubSeq(req[c], 1, n)) \subseteq Waiting(req[c])
  BY <1>1, ReqPrefix DEF FlowAt
<1>5. RepGood(c, <<>>, phase) /\ Answered(<<>>) = {}
  BY DEF RepGood, Answered
<1>6. ASSUME NEW d \in Clients
      PROVE  /\ ReqGood(d, req'[d], phase) /\ RepGood(d, rep'[d], phase)
             /\ Waiting(req'[d]) \intersect Answered(rep'[d]) = {}
             /\ Waiting(req'[d]) \intersect Recorded(pending) = {}
             /\ Answered(rep'[d]) \intersect Recorded(pending) = {}
  <2>1. CASE d # c
    <3>1. req'[d] = req[d] /\ rep'[d] = rep[d]
      BY <1>2, <1>3, <2>1 DEF TypeOK
    <3> QED
      BY <1>1, <3>1 DEF FlowAt
  <2>2. CASE d = c
    <3>1. req'[c] = SubSeq(req[c], 1, n) /\ rep'[c] = <<>>
      BY <1>2, <1>3 DEF TypeOK
    <3> QED
      BY <1>1, <1>4, <1>5, <2>2, <3>1 DEF FlowAt
  <2> QED
    BY <2>1, <2>2
<1> QED
  BY <1>3, <1>6 DEF Flow

\* The server executes a request that records nothing: at most its order
\* changes phase and at most its reply joins the replies.
LEMMA ServeFlow ==
  ASSUME TypeOK, Flow, NEW c \in Clients, req[c] # <<>>,
         req' = [req EXCEPT ![c] = Tail(@)], pending' = pending,
         \A o \in Orders : phase'[o] # phase[o] => Carries(Head(req[c])) /\ o = Head(req[c]).ord,
         \A d \in Clients : d # c => rep'[d] = rep[d],
         \/ rep'[c] = rep[c]
         \/ \E m \in Replies :
              /\ rep'[c] = Append(rep[c], m)
              /\ m.cmd = "DECR" => /\ Head(req[c]).cmd = "DECR" /\ m.ord = Head(req[c]).ord
                                   /\ phase'[m.ord] = Outcome(m.res),
         Head(req[c]).cmd = "LPUSH" => phase' = phase
  PROVE  Flow'
<1> DEFINE h == Head(req[c])
<1>1. ASSUME NEW d \in Clients PROVE FlowAt(d)
  BY FlowFacts
<1>2. ASSUME NEW o \in Recorded(pending) PROVE o \in Orders /\ phase[o] = "granted"
  BY FlowFacts
<1>3. /\ ReqGood(c, Tail(req[c]), phase)
      /\ Waiting(Tail(req[c])) \subseteq Waiting(req[c])
      /\ Carries(h) => h.ord \in Waiting(req[c]) /\ h.ord \notin Waiting(Tail(req[c]))
  BY <1>1, ReqTail DEF FlowAt
<1>4. Tail(req[c]) \in Seq(Requests)
  BY <1>1, HeadTailProperties DEF FlowAt
<1> HIDE DEF h
<1>5. \A o \in Orders : phase'[o] # phase[o] => Carries(h) /\ o = h.ord /\ By[o] = c
  BY <1>1, <1>3 DEF h, FlowAt
<1>6. ReqGood(c, Tail(req[c]), phase')
  <2>1. \A o \in Waiting(Tail(req[c])) : phase'[o] = phase[o]
    BY <1>1, <1>3, <1>5 DEF FlowAt
  <2>2. ReqGood(c, Tail(req[c]), phase)
    BY <1>3
  <2> QED
    BY <1>4, <2>1, <2>2, ReqFrame
<1>7. RepGood(c, rep[c], phase')
  <2>1. /\ rep[c] \in Seq(Replies) /\ RepGood(c, rep[c], phase)
        /\ Waiting(req[c]) \intersect Answered(rep[c]) = {}
        /\ \A o \in Answered(rep[c]) : o \in Orders
    BY <1>1 DEF FlowAt
  <2>2. \A o \in Answered(rep[c]) : phase'[o] = phase[o]
    BY <1>3, <1>5, <2>1
  <2> QED
    BY <2>1, <2>2, RepFrame
<1>8. PendingGood(pending, phase')
  <2>1. \A o \in Recorded(pending) : phase'[o] = phase[o]
    BY <1>1, <1>2, <1>3, <1>5 DEF FlowAt
  <2>2. PendingGood(pending, phase)
    BY DEF Flow
  <2> QED
    BY <2>1, <2>2, PendingFrame
<1>9. /\ RepGood(c, rep'[c], phase')
      /\ \A o \in Answered(rep'[c]) : o \in Answered(rep[c]) \/ (Carries(h) /\ o = h.ord)
  <2>1. CASE rep'[c] = rep[c]
    BY <1>7, <2>1
  <2>2. ASSUME NEW m \in Replies, rep'[c] = Append(rep[c], m),
               m.cmd = "DECR" => /\ h.cmd = "DECR" /\ m.ord = h.ord
                                 /\ phase'[m.ord] = Outcome(m.res)
        PROVE  /\ RepGood(c, rep'[c], phase')
               /\ \A o \in Answered(rep'[c]) : o \in Answered(rep[c]) \/ (Carries(h) /\ o = h.ord)
    <3>1. m.cmd = "DECR" => /\ m.ord \notin Answered(rep[c]) /\ By[m.ord] = c
                            /\ phase'[m.ord] = Outcome(m.res) /\ Carries(h) /\ m.ord = h.ord
      BY <1>1, <1>3, <2>2 DEF FlowAt, Carries
    <3>2. /\ RepGood(c, Append(rep[c], m), phase')
          /\ Answered(Append(rep[c], m)) \subseteq
               Answered(rep[c]) \union (IF m.cmd = "DECR" THEN {m.ord} ELSE {})
      BY <1>1, <1>7, <3>1, RepAppend DEF FlowAt
    <3> QED
      BY <2>2, <3>1, <3>2
  <2> QED
    BY <2>1, <2>2 DEF h
<1>10. ASSUME NEW d \in Clients
       PROVE  /\ ReqGood(d, req'[d], phase') /\ RepGood(d, rep'[d], phase')
              /\ Waiting(req'[d]) \intersect Answered(rep'[d]) = {}
              /\ Waiting(req'[d]) \intersect Recorded(pending) = {}
              /\ Answered(rep'[d]) \intersect Recorded(pending) = {}
  <2>1. CASE d # c
    <3>1. req'[d] = req[d] /\ rep'[d] = rep[d]
      BY <2>1 DEF TypeOK
    <3>2. /\ \A o \in Waiting(req[d]) : phase'[o] = phase[o]
          /\ \A o \in Answered(rep[d]) : phase'[o] = phase[o]
      <4>1. /\ \A o \in Waiting(req[d]) : o \in Orders /\ By[o] = d
            /\ \A o \in Answered(rep[d]) : o \in Orders /\ By[o] = d
        BY <1>1 DEF FlowAt
      <4> QED
        BY <1>5, <2>1, <4>1
    <3>3. ReqGood(d, req[d], phase')
      BY <1>1, <3>2, ReqFrame DEF FlowAt
    <3>4. RepGood(d, rep[d], phase')
      BY <1>1, <3>2, RepFrame DEF FlowAt
    <3> QED
      BY <1>1, <3>1, <3>3, <3>4 DEF FlowAt
  <2>2. CASE d = c
    <3>1. req'[c] = Tail(req[c])
      BY DEF TypeOK
    <3>2. /\ Waiting(req[c]) \intersect Answered(rep[c]) = {}
          /\ Waiting(req[c]) \intersect Recorded(pending) = {}
          /\ Answered(rep[c]) \intersect Recorded(pending) = {}
      BY <1>1 DEF FlowAt
    <3>3. \A o \in Answered(rep'[c]) :
            o \in Answered(rep[c]) \/ (o \in Waiting(req[c]) /\ o \notin Waiting(Tail(req[c])))
      BY <1>3, <1>9
    <3> QED
      BY <1>3, <1>6, <1>9, <2>2, <3>1, <3>2, <3>3
  <2> QED
    BY <2>1, <2>2
<1> QED
  BY <1>8, <1>10 DEF Flow

\* The server records the order of an LPUSH: it moves from the queue to the list.
LEMMA LpushFlow ==
  ASSUME TypeOK, Flow, NEW c \in Clients, ServeLpush(c)
  PROVE  Flow'
<1> DEFINE h == Head(req[c])
           o == h.ord
<1>1. ASSUME NEW d \in Clients PROVE FlowAt(d)
  BY FlowFacts
<1>2. /\ h.cmd = "LPUSH" /\ req[c] # <<>>
      /\ req' = [req EXCEPT ![c] = Tail(@)]
      /\ pending' = <<o>> \o pending
      /\ rep' = rep /\ phase' = phase
  BY DEF ServeLpush, Execute
<1>3. req[c] \in Seq(Requests) /\ ReqGood(c, req[c], phase)
  BY <1>1 DEF FlowAt
<1>4. /\ ReqGood(c, Tail(req[c]), phase)
      /\ Waiting(Tail(req[c])) \subseteq Waiting(req[c])
      /\ Carries(h) => /\ h.ord \in Waiting(req[c]) /\ h.ord \notin Waiting(Tail(req[c]))
                       /\ phase[h.ord] = Stage(h.cmd)
  BY <1>2, <1>3, ReqTail
<1>5. /\ o \in Waiting(req[c]) /\ o \notin Waiting(Tail(req[c]))
      /\ phase[o] = "granted"
  BY <1>2, <1>4 DEF Carries, Stage
<1> HIDE DEF h, o
<1>6. o \in Orders /\ By[o] = c /\ o \notin Recorded(pending) /\ o \notin Answered(rep[c])
  BY <1>1, <1>5 DEF FlowAt
<1>7. /\ pending \in Seq(Orders) /\ Len(pending) \in Nat
      /\ Len(pending') = Len(pending) + 1 /\ pending'[1] = o
      /\ \A i \in 1..Len(pending) : pending'[i + 1] = pending[i]
  <2>1. pending \in Seq(Orders) /\ <<o>> \in Seq(Orders) /\ Len(<<o>>) = 1 /\ <<o>>[1] = o
    BY <1>6 DEF TypeOK
  <2>2. /\ Len(<<o>> \o pending) = 1 + Len(pending)
        /\ (<<o>> \o pending)[1] = o
        /\ \A i \in 1..Len(pending) : (<<o>> \o pending)[1 + i] = pending[i]
    BY <2>1, ConcatElements
  <2> QED
    BY <1>2, <2>1, <2>2
<1>8. \A i \in 1..Len(pending') : i = 1 \/ \E k \in 1..Len(pending) : i = k + 1
  <2> TAKE i \in 1..Len(pending')
  <2>1. i = 1 \/ (i - 1 \in 1..Len(pending) /\ i = (i - 1) + 1)
    BY <1>7
  <2> QED
    BY <2>1
<1>9. \A k \in 1..Len(pending) : pending[k] \in Recorded(pending) /\ phase[pending[k]] = "granted"
  BY DEF Recorded, Flow, PendingGood
<1>10. \A i \in 1..Len(pending') : phase[pending'[i]] = "granted"
  BY <1>5, <1>7, <1>8, <1>9
<1>11. ASSUME NEW i \in 1..Len(pending'), NEW j \in 1..Len(pending'), i # j
       PROVE  pending'[i] # pending'[j]
  <2>1. CASE i = 1 /\ j # 1
    BY <1>6, <1>7, <1>8, <1>9, <2>1
  <2>2. CASE i # 1 /\ j = 1
    BY <1>6, <1>7, <1>8, <1>9, <2>2
  <2>3. CASE i # 1 /\ j # 1
    <3>1. PICK k \in 1..Len(pending) : i = k + 1
      BY <1>8, <2>3
    <3>2. PICK l \in 1..Len(pending) : j = l + 1
      BY <1>8, <2>3
    <3>3. pending[k] # pending[l]
      BY <1>11, <3>1, <3>2 DEF Flow, PendingGood
    <3> QED
      BY <1>7, <3>1, <3>2, <3>3
  <2> QED
    BY <1>11, <2>1, <2>2, <2>3
<1>12. PendingGood(pending', phase)
  BY <1>10, <1>11 DEF PendingGood
<1>13. \A x \in Recorded(pending') : x = o \/ x \in Recorded(pending)
  <2> SUFFICES ASSUME NEW i \in 1..Len(pending')
               PROVE  pending'[i] = o \/ pending'[i] \in Recorded(pending)
    BY DEF Recorded
  <2> QED
    BY <1>7, <1>8, <1>9
<1>14. ASSUME NEW d \in Clients
       PROVE  /\ ReqGood(d, req'[d], phase) /\ RepGood(d, rep[d], phase)
              /\ Waiting(req'[d]) \intersect Answered(rep[d]) = {}
              /\ Waiting(req'[d]) \intersect Recorded(pending') = {}
              /\ Answered(rep[d]) \intersect Recorded(pending') = {}
  <2>1. CASE d # c
    <3>1. req'[d] = req[d]
      BY <1>2, <2>1 DEF TypeOK
    <3>2. o \notin Waiting(req[d]) /\ o \notin Answered(rep[d])
      BY <1>1, <1>6, <2>1 DEF FlowAt
    <3>3. /\ ReqGood(d, req[d], phase) /\ RepGood(d, rep[d], phase)
          /\ Waiting(req[d]) \intersect Answered(rep[d]) = {}
          /\ Waiting(req[d]) \intersect Recorded(pending) = {}
          /\ Answered(rep[d]) \intersect Recorded(pending) = {}
      BY <1>1 DEF FlowAt
    <3> QED
      BY <1>13, <3>1, <3>2, <3>3
  <2>2. CASE d = c
    <3>1. req'[c] = Tail(req[c])
      BY <1>2 DEF TypeOK
    <3>2. /\ RepGood(c, rep[c], phase)
          /\ Waiting(req[c]) \intersect Answered(rep[c]) = {}
          /\ Waiting(req[c]) \intersect Recorded(pending) = {}
          /\ Answered(rep[c]) \intersect Recorded(pending) = {}
      BY <1>1 DEF FlowAt
    <3> QED
      BY <1>4, <1>5, <1>6, <1>13, <2>2, <3>1, <3>2
  <2> QED
    BY <2>1, <2>2
<1> QED
  BY <1>2, <1>12, <1>14 DEF Flow

\* What the messages of a successful order carry: its record, and nothing else.
LEMMA RecordingGood ==
  ASSUME NEW c \in Clients, NEW o \in Orders, By[o] = c, NEW ph, ph[o] = "granted"
  PROVE  /\ ReqGood(c, Recording(o), ph)
         /\ Waiting(Recording(o)) \subseteq {o}
<1> DEFINE r1 == Request("LPUSH", o, 0)
           r2 == Request("INCR orders", o, 0)
           r3 == Request("INCRBY revenue", o, 1)
           r4 == Request("ZSCORE", o, 0)
           q == Recording(o)
<1>1. /\ r1.cmd = "LPUSH" /\ r2.cmd = "INCR orders" /\ r3.cmd = "INCRBY revenue"
      /\ r4.cmd = "ZSCORE" /\ r1.ord = o
  BY DEF Request
<1>2. q = <<r1, r2, r3>> \o IF Batched(o) THEN <<>> ELSE <<r4>>
  BY DEF Recording
<1>3. r1 \in Requests /\ r2 \in Requests /\ r3 \in Requests /\ r4 \in Requests
  BY RequestType DEF Commands
<1> HIDE DEF r1, r2, r3, r4, q
<1>4. \A i \in 1..Len(q) : Carries(q[i]) => i = 1 /\ q[i] = r1
  <2> DEFINE s == <<r1, r2, r3>>
  <2>1. PICK t \in {<<>>, <<r4>>} : q = s \o t
    BY <1>2
  <2>2. s \in Seq(Requests) /\ t \in Seq(Requests)
    <3>1. <<r1, r2, r3>> \in Seq(Requests) /\ <<r4>> \in Seq(Requests) /\ <<>> \in Seq(Requests)
      BY <1>3
    <3> QED
      BY <3>1
  <2>3. ~Carries(r2) /\ ~Carries(r3) /\ ~Carries(r4)
    BY <1>1 DEF Carries
  <2>4. Len(s) = 3 /\ s[1] = r1 /\ s[2] = r2 /\ s[3] = r3
    OBVIOUS
  <2>5. \A k \in 1..Len(t) : t[k] = r4
    OBVIOUS
  <2> HIDE DEF s
  <2>6. /\ \A i \in 1..3 : q[i] = s[i]
        /\ \A k \in 1..Len(t) : q[3 + k] = t[k]
        /\ \A i \in 1..Len(q) : i \in 1..3 \/ \E k \in 1..Len(t) : i = 3 + k
    <3>1. /\ \A i \in 1..Len(s) : (s \o t)[i] = s[i]
          /\ \A i \in 1..Len(t) : (s \o t)[Len(s) + i] = t[i]
          /\ \A i \in 1..Len(s \o t) :
               i \in 1..Len(s) \/ \E k \in 1..Len(t) : i = Len(s) + k
      BY <2>2, ConcatElements
    <3> QED
      BY <2>1, <2>4, <3>1
  <2> TAKE i \in 1..Len(q)
  <2>9. CASE i \in 1..3
    <3>1. i = 1 \/ i = 2 \/ i = 3
      BY <2>9
    <3> QED
      BY <2>3, <2>4, <2>6, <3>1
  <2>10. ASSUME NEW k \in 1..Len(t), i = 3 + k PROVE ~Carries(q[i])
    BY <2>3, <2>5, <2>6, <2>10
  <2> QED
    BY <2>6, <2>9, <2>10
<1>5. ReqGood(c, q, ph)
  <2>1. \A i \in 1..Len(q) : Carries(q[i]) => By[q[i].ord] = c /\ ph[q[i].ord] = Stage(q[i].cmd)
    BY <1>1, <1>4 DEF Stage
  <2>2. \A i, j \in 1..Len(q) : i # j /\ Carries(q[i]) /\ Carries(q[j]) => q[i].ord # q[j].ord
    BY <1>4
  <2> QED
    BY <2>1, <2>2 DEF ReqGood
<1>6. Waiting(q) \subseteq {o}
  BY <1>1, <1>4 DEF Waiting
<1> QED
  BY <1>5, <1>6 DEF q

\* One request that carries an order.
LEMMA SingleGood ==
  ASSUME NEW c \in Clients, NEW m \in Requests, NEW ph,
         Carries(m) => By[m.ord] = c /\ ph[m.ord] = Stage(m.cmd)
  PROVE  /\ <<m>> \in Seq(Requests)
         /\ ReqGood(c, <<m>>, ph)
         /\ Carries(m) => Waiting(<<m>>) \subseteq {m.ord}
         /\ ~Carries(m) => Waiting(<<m>>) = {}
<1>1. <<m>> \in Seq(Requests) /\ Len(<<m>>) = 1 /\ <<m>>[1] = m
  OBVIOUS
<1> DEFINE q == <<m>>
<1>2. Len(q) = 1 /\ q[1] = m
  BY <1>1
<1> HIDE DEF q
<1>3. \A i \in 1..Len(q) : i = 1 /\ q[i] = m
  BY <1>2
<1>4. ReqGood(c, q, ph)
  BY <1>3 DEF ReqGood
<1>5. Carries(m) => Waiting(q) \subseteq {m.ord}
  BY <1>3 DEF Waiting
<1>6. ~Carries(m) => Waiting(q) = {}
  BY <1>3 DEF Waiting
<1> QED
  BY <1>1, <1>4, <1>5, <1>6 DEF q

LEMMA ExecuteOrderFlow ==
  ASSUME TypeOK, Flow, NEW o \in Orders, ExecuteOrder(o) PROVE Flow'
<1> DEFINE m == Request("DECR", o, 0)
<1>1. m \in Requests /\ m.cmd = "DECR" /\ m.ord = o
  <2>1. "DECR" \in Commands /\ 0 \in Nat
    BY DEF Commands
  <2> QED
    BY <2>1, RequestType
<1>2. Send(By[o], <<m>>) /\ rep' = rep /\ pending' = pending
  BY DEF ExecuteOrder
<1>3. By[o] \in Clients
  BY OrderClient
<1>4. phase'[o] = "placed" /\ \A x \in Orders : phase[x] # "idle" => phase'[x] = phase[x]
  BY DEF ExecuteOrder, TypeOK
<1>5. phase[o] = "idle"
  BY DEF ExecuteOrder
<1> HIDE DEF m
<1>6. By[m.ord] = By[o] /\ phase'[m.ord] = Stage(m.cmd) /\ Carries(m)
  BY <1>1, <1>4 DEF Stage, Carries
<1>7. <<m>> \in Seq(Requests) /\ ReqGood(By[o], <<m>>, phase') /\ Waiting(<<m>>) \subseteq {o}
  BY <1>1, <1>3, <1>6, SingleGood
<1>8. \A x \in Waiting(<<m>>) : phase[x] = "idle"
  BY <1>5, <1>7
<1> QED
  BY <1>2, <1>3, <1>4, <1>7, <1>8, PlaceFlow

LEMMA BatchFlow ==
  ASSUME TypeOK, Flow, NEW c \in Clients, OnBatchStressTest(c) PROVE Flow'
<1> DEFINE n == Len(Batch[c])
           msgs == [i \in DOMAIN Batch[c] |-> Request("DECR", Batch[c][i], 0)]
<1>1. Batch[c] \in Seq(Orders) /\ n \in Nat /\ DOMAIN Batch[c] = 1..n
  BY ConstantsAssumption
<1>2. \A i \in 1..n : Batch[c][i] \in Orders /\ By[Batch[c][i]] = c
  BY <1>1, ConstantsAssumption, SMTT(30)
<1>3. \A i, j \in 1..n : i # j => Batch[c][i] # Batch[c][j]
  <2>1. \A i, j \in DOMAIN Batch[c] : i # j => Batch[c][i] # Batch[c][j]
    BY ConstantsAssumption
  <2> QED
    BY <1>1, <2>1
<1>4. \A i \in 1..n : /\ Request("DECR", Batch[c][i], 0) \in Requests
                      /\ Request("DECR", Batch[c][i], 0).cmd = "DECR"
                      /\ Request("DECR", Batch[c][i], 0).ord = Batch[c][i]
  <2>1. "DECR" \in Commands /\ 0 \in Nat
    BY DEF Commands
  <2> TAKE i \in 1..n
  <2>2. Batch[c][i] \in Orders
    BY <1>2
  <2> QED
    BY <2>1, <2>2, RequestType
<1>5. /\ msgs \in Seq(Requests) /\ Len(msgs) = n
      /\ \A i \in 1..n : msgs[i].cmd = "DECR" /\ msgs[i].ord = Batch[c][i]
  BY <1>1, <1>4
<1>6. Send(c, msgs) /\ rep' = rep /\ pending' = pending
  BY DEF OnBatchStressTest
<1>7. \A i \in 1..n : phase[Batch[c][i]] = "idle" /\ phase'[Batch[c][i]] = "placed"
  <2> TAKE i \in 1..n
  <2>1. Batch[c][i] \in Orders /\ By[Batch[c][i]] = c /\ i \in DOMAIN Batch[c]
    BY <1>1, <1>2
  <2>2. Batched(Batch[c][i])
    BY <2>1 DEF Batched
  <2> QED
    BY <2>1, <2>2 DEF OnBatchStressTest
<1>8. \A x \in Orders : phase[x] # "idle" => phase'[x] = phase[x]
  <2> SUFFICES ASSUME NEW x \in Orders, phase[x] # "idle" PROVE phase'[x] = phase[x]
    OBVIOUS
  <2>1. ~(By[x] = c /\ Batched(x))
    BY DEF Batched, OnBatchStressTest
  <2> QED
    BY <2>1 DEF OnBatchStressTest
<1> HIDE DEF msgs, n
<1>9. ReqGood(c, msgs, phase')
  BY <1>2, <1>3, <1>5, <1>7 DEF ReqGood, Stage
<1>10. \A x \in Waiting(msgs) : phase[x] = "idle"
  <2> TAKE x \in Waiting(msgs)
  <2>1. PICK i \in 1..Len(msgs) : x = msgs[i].ord
    BY DEF Waiting
  <2> QED
    BY <1>5, <1>7, <2>1
<1> QED
  BY <1>5, <1>6, <1>8, <1>9, <1>10, PlaceFlow

LEMMA OnDecrFlow ==
  ASSUME TypeOK, Flow, NEW c \in Clients, OnDecr(c) PROVE Flow'
<1> DEFINE h == Head(rep[c])
           o == h.ord
           m == Request("INCR", o, 0)
           msgs == IF h.res >= 0 THEN Recording(o) ELSE <<m>>
<1>1. /\ rep[c] # <<>> /\ h.cmd = "DECR" /\ Send(c, msgs)
      /\ rep' = [rep EXCEPT ![c] = Tail(@)] /\ phase' = phase /\ pending' = pending
  BY DEF OnDecr, Handle, orderVars
<1>2. rep[c] \in Seq(Replies) /\ RepGood(c, rep[c], phase) /\ h \in Replies
  BY <1>1, FlowFacts, HeadTailProperties DEF FlowAt
<1>3. phase[o] = Outcome(h.res) /\ o \in Answered(rep[c])
  BY <1>1, <1>2, RepTail
<1>4. o \in Orders /\ By[o] = c
  BY <1>2, <1>3, AnsweredFacts
<1>5. m \in Requests /\ m.cmd = "INCR" /\ m.ord = o
  <2>1. "INCR" \in Commands /\ 0 \in Nat
    BY DEF Commands
  <2> QED
    BY <1>4, <2>1, RequestType
<1>6. msgs \in Seq(Requests) /\ ReqGood(c, msgs, phase) /\ Waiting(msgs) \subseteq {o}
  <2>1. CASE h.res >= 0
    <3>1. phase[o] = "granted" /\ msgs = Recording(o)
      BY <1>3, <2>1 DEF Outcome
    <3> HIDE DEF h, o, m, msgs
    <3>2. Recording(o) \in Seq(Requests)
      BY <1>4, RecordingType
    <3>3. ReqGood(c, Recording(o), phase) /\ Waiting(Recording(o)) \subseteq {o}
      BY <1>4, <3>1, RecordingGood
    <3> QED
      BY <3>1, <3>2, <3>3
  <2>2. CASE ~(h.res >= 0)
    <3>1. phase[o] = "refused" /\ msgs = <<m>>
      BY <1>3, <2>2 DEF Outcome
    <3> HIDE DEF h, o, m, msgs
    <3>2. Carries(m) /\ By[m.ord] = c /\ phase[m.ord] = Stage(m.cmd)
      BY <1>4, <1>5, <3>1 DEF Carries, Stage
    <3>3. <<m>> \in Seq(Requests) /\ ReqGood(c, <<m>>, phase) /\ Waiting(<<m>>) \subseteq {o}
      BY <1>5, <3>2, SingleGood
    <3> QED
      BY <3>1, <3>3
  <2> QED
    BY <2>1, <2>2
<1> HIDE DEF msgs, m
<1>7. \A x \in Waiting(msgs) : Head(rep[c]).cmd = "DECR" /\ x = Head(rep[c]).ord
  BY <1>1, <1>6
<1> QED
  BY <1>1, <1>6, <1>7, CallbackFlow

LEMMA OnZscoreFlow ==
  ASSUME TypeOK, Flow, NEW c \in Clients, OnZscore(c) PROVE Flow'
<1> DEFINE h == Head(rep[c])
           m == Request("ZADD", h.ord, h.res + 1)
<1>1. /\ rep[c] # <<>> /\ h.cmd = "ZSCORE" /\ Send(c, <<m>>)
      /\ rep' = [rep EXCEPT ![c] = Tail(@)] /\ phase' = phase /\ pending' = pending
  BY DEF OnZscore, Handle, orderVars
<1>2. h \in Replies
  BY <1>1, FlowFacts, HeadTailProperties DEF FlowAt
<1>3. h.ord \in Orders /\ h.res + 1 \in Nat
  BY <1>1, <1>2 DEF Replies
<1>4. m \in Requests /\ ~Carries(m)
  <2>1. "ZADD" \in Commands
    BY DEF Commands
  <2>2. m \in Requests /\ m.cmd = "ZADD"
    BY <1>3, <2>1, RequestType
  <2> QED
    BY <2>2 DEF Carries
<1> HIDE DEF h, m
<1>5. <<m>> \in Seq(Requests) /\ ReqGood(c, <<m>>, phase) /\ Waiting(<<m>>) = {}
  BY <1>4, SingleGood
<1> QED
  BY <1>1, <1>5, CallbackFlow

\* What the server answers, if the connection is still there.
LEMMA AnswerReply ==
  ASSUME TypeOK, NEW c \in Clients, Head(req[c]) \in Requests, NEW res \in Int,
         Head(req[c]).cmd = "ZSCORE" => res \in Nat, Answer(c, res)
  PROVE  /\ \A d \in Clients : d # c => rep'[d] = rep[d]
         /\ \/ rep'[c] = rep[c]
            \/ \E m \in Replies : /\ rep'[c] = Append(rep[c], m)
                                  /\ m.cmd = Head(req[c]).cmd /\ m.ord = Head(req[c]).ord
                                  /\ m.res = res
<1> DEFINE h == Head(req[c])
           reply == [cmd |-> h.cmd, ord |-> h.ord, arg |-> h.arg, res |-> res]
<1>1. reply \in Replies /\ reply.cmd = h.cmd /\ reply.ord = h.ord /\ reply.res = res
  BY DEF Requests, Replies
<1>2. rep' = rep \/ rep' = [rep EXCEPT ![c] = Append(@, reply)]
  BY Zenon DEF Answer
<1> HIDE DEF reply, h
<1>3. /\ \A d \in Clients : d # c => rep'[d] = rep[d]
      /\ rep'[c] = rep[c] \/ rep'[c] = Append(rep[c], reply)
  BY <1>2 DEF TypeOK
<1> QED
  BY <1>1, <1>3 DEF h

LEMMA ServeDecrFlow ==
  ASSUME TypeOK, Flow, NEW c \in Clients, ServeDecr(c) PROVE Flow'
<1> DEFINE h == Head(req[c])
<1>1. /\ req[c] # <<>> /\ h.cmd = "DECR" /\ req' = [req EXCEPT ![c] = Tail(@)]
      /\ pending' = pending /\ Answer(c, stock') /\ stock' = stock - 1
      /\ phase' = [phase EXCEPT ![h.ord] = IF stock' >= 0 THEN "granted" ELSE "refused"]
  BY DEF ServeDecr, Execute
<1>2. h \in Requests
  BY <1>1, FlowFacts, HeadTailProperties DEF FlowAt
<1>3. h.ord \in Orders /\ stock' \in Int
  BY <1>1, <1>2 DEF Requests, TypeOK
<1>4. /\ \A o \in Orders : phase'[o] # phase[o] => Carries(h) /\ o = h.ord
      /\ phase'[h.ord] = Outcome(stock')
  BY <1>1, <1>3 DEF TypeOK, Carries, Outcome
<1>5. /\ \A d \in Clients : d # c => rep'[d] = rep[d]
      /\ \/ rep'[c] = rep[c]
         \/ \E m \in Replies : /\ rep'[c] = Append(rep[c], m)
                               /\ m.cmd = h.cmd /\ m.ord = h.ord /\ m.res = stock'
  BY <1>1, <1>2, <1>3, AnswerReply
<1> HIDE DEF h
<1>6. \/ rep'[c] = rep[c]
      \/ \E m \in Replies : /\ rep'[c] = Append(rep[c], m)
                            /\ m.cmd = "DECR" => /\ h.cmd = "DECR" /\ m.ord = h.ord
                                                 /\ phase'[m.ord] = Outcome(m.res)
  BY <1>1, <1>4, <1>5
<1>7. h.cmd = "LPUSH" => phase' = phase
  BY <1>1
<1> QED
  BY <1>1, <1>4, <1>5, <1>6, <1>7, ServeFlow DEF h

LEMMA ServeIncrFlow ==
  ASSUME TypeOK, Flow, NEW c \in Clients, ServeIncr(c) PROVE Flow'
<1> DEFINE h == Head(req[c])
<1>1. /\ req[c] # <<>> /\ h.cmd = "INCR" /\ req' = [req EXCEPT ![c] = Tail(@)]
      /\ pending' = pending /\ rep' = rep
      /\ phase' = [phase EXCEPT ![h.ord] = "restored"]
  BY DEF ServeIncr, Execute
<1>2. \A o \in Orders : phase'[o] # phase[o] => Carries(h) /\ o = h.ord
  BY <1>1 DEF TypeOK, Carries
<1> QED
  BY <1>1, <1>2, ServeFlow

\* The commands that neither carry an order nor answer a decrement.
LEMMA OtherServeFlow ==
  ASSUME TypeOK, Flow, NEW c \in Clients,
         ServeDailyOrders(c) \/ ServeRevenue(c) \/ ServeZadd(c)
  PROVE  Flow'
<1>1. /\ req[c] # <<>> /\ req' = [req EXCEPT ![c] = Tail(@)]
      /\ pending' = pending /\ rep' = rep /\ phase' = phase
  BY DEF ServeDailyOrders, ServeRevenue, ServeZadd, Execute
<1> QED
  BY <1>1, ServeFlow

LEMMA ServeZscoreFlow ==
  ASSUME TypeOK, Flow, NEW c \in Clients, ServeZscore(c) PROVE Flow'
<1> DEFINE h == Head(req[c])
<1>1. /\ req[c] # <<>> /\ h.cmd = "ZSCORE" /\ req' = [req EXCEPT ![c] = Tail(@)]
      /\ pending' = pending /\ phase' = phase /\ Answer(c, score)
  BY DEF ServeZscore, Execute, orderVars
<1>2. h \in Requests /\ score \in Int /\ score \in Nat
  BY <1>1, FlowFacts, HeadTailProperties DEF FlowAt, TypeOK
<1>3. /\ \A d \in Clients : d # c => rep'[d] = rep[d]
      /\ \/ rep'[c] = rep[c]
         \/ \E m \in Replies : /\ rep'[c] = Append(rep[c], m)
                               /\ m.cmd = h.cmd /\ m.ord = h.ord /\ m.res = score
  BY <1>1, <1>2, AnswerReply
<1> HIDE DEF h
<1>4. \/ rep'[c] = rep[c]
      \/ \E m \in Replies : /\ rep'[c] = Append(rep[c], m)
                            /\ m.cmd = "DECR" => /\ h.cmd = "DECR" /\ m.ord = h.ord
                                                 /\ phase'[m.ord] = Outcome(m.res)
  BY <1>1, <1>3
<1> QED
  BY <1>1, <1>3, <1>4, ServeFlow DEF h

LEMMA FlowStep == TypeOK /\ Flow /\ [Next]_vars => Flow'
<1> SUFFICES ASSUME TypeOK, Flow, [Next]_vars PROVE Flow'
  OBVIOUS
<1>1. CASE UNCHANGED vars
  BY <1>1 DEF vars, orderVars, Flow
<1> QED
  BY <1>1, ExecuteOrderFlow, BatchFlow, OnDecrFlow, OnZscoreFlow, DisconnectFlow,
     ServeDecrFlow, ServeIncrFlow, LpushFlow, OtherServeFlow, ServeZscoreFlow
  DEF Next, Callback, Serve

LEMMA FlowInit == Init => Flow
<1> SUFFICES ASSUME Init PROVE Flow
  OBVIOUS
<1>1. \A c \in Clients : req[c] = <<>> /\ rep[c] = <<>>
  BY DEF Init
<1>2. pending = <<>>
  BY DEF Init
<1> QED
  BY <1>1, <1>2 DEF Flow, ReqGood, RepGood, PendingGood, Waiting, Answered, Recorded

-----------------------------------------------------------------------------
(* The ledger: what a change of phase does to the numbers of orders.       *)

LEMMA InFinite ==
  ASSUME NEW p
  PROVE  In(p) \subseteq Orders /\ IsFiniteSet(In(p)) /\ Cardinality(In(p)) \in Nat
<1>1. In(p) \subseteq Orders
  BY DEF In
<1> QED
  BY <1>1, ConstantsAssumption, FS_Subset, FS_CardinalityType

LEMMA Moved ==
  ASSUME TypeOK, NEW o \in Orders, NEW p \in Phases, NEW q \in Phases, p # q, phase[o] = p,
         phase' = [phase EXCEPT ![o] = q]
  PROVE  /\ Cardinality(In(p)') = Cardinality(In(p)) - 1
         /\ Cardinality(In(q)') = Cardinality(In(q)) + 1
         /\ In(q)' = In(q) \union {o}
         /\ \A x \in Phases : x # p /\ x # q => In(x)' = In(x)
<1>1. \A y \in Orders : phase'[y] = IF y = o THEN q ELSE phase[y]
  BY DEF TypeOK
<1>2. In(p)' = In(p) \ {o} /\ o \in In(p)
  BY <1>1 DEF In
<1>3. In(q)' = In(q) \union {o} /\ o \notin In(q)
  BY <1>1 DEF In
<1>4. \A x \in Phases : x # p /\ x # q => In(x)' = In(x)
  BY <1>1 DEF In
<1>5. Cardinality(In(p) \ {o}) = Cardinality(In(p)) - 1
  BY <1>2, InFinite, FS_RemoveElement
<1>6. Cardinality(In(q) \union {o}) = Cardinality(In(q)) + 1
  BY <1>3, InFinite, FS_AddElement
<1> QED
  BY <1>2, <1>3, <1>4, <1>5, <1>6

Ledgers == CounterIsLedger /\ Bounded /\ SoldOutBeforeRefusal

\* The order of the request about to be executed.
LEMMA HeadPhase ==
  ASSUME TypeOK, Flow, NEW c \in Clients, NEW cmd \in {"DECR", "INCR"}, Execute(c, cmd)
  PROVE  Head(req[c]).ord \in Orders /\ phase[Head(req[c]).ord] = Stage(cmd)
<1>1. req[c] \in Seq(Requests) /\ ReqGood(c, req[c], phase) /\ req[c] # <<>>
  BY FlowFacts DEF FlowAt, Execute
<1>2. Head(req[c]).cmd = cmd /\ Carries(Head(req[c]))
  BY DEF Execute, Carries
<1>3. Head(req[c]) \in Requests
  BY <1>1, HeadTailProperties
<1>4. Head(req[c]).ord \in Orders
  BY <1>3 DEF Requests
<1>5. phase[Head(req[c]).ord] = Stage(Head(req[c]).cmd)
  BY <1>1, <1>2, ReqTail
<1> QED
  BY <1>2, <1>4, <1>5

\* A decrement sells an item exactly when one is left.
LEMMA DecrLedger ==
  ASSUME TypeOK, Flow, Ledgers, NEW c \in Clients, ServeDecr(c)
  PROVE  /\ Ledgers'
         /\ LET o == Head(req[c]).ord
            IN  /\ o \in Orders /\ phase[o] = "placed"
                /\ \/ /\ phase' = [phase EXCEPT ![o] = "granted"]
                      /\ Cardinality(In("granted")) < Stock0
                      /\ Cardinality(In("granted")') = Cardinality(In("granted")) + 1
                   \/ /\ phase' = [phase EXCEPT ![o] = "refused"]
                      /\ Cardinality(In("granted")) = Stock0
                      /\ In("granted")' = In("granted")
<1> DEFINE o == Head(req[c]).ord
           g == Cardinality(In("granted"))
           r == Cardinality(In("refused"))
<1>1. Execute(c, "DECR") /\ stock' = stock - 1
      /\ phase' = [phase EXCEPT ![o] = IF stock' >= 0 THEN "granted" ELSE "refused"]
  BY DEF ServeDecr
<1>2. o \in Orders /\ phase[o] = "placed"
  BY <1>1, HeadPhase DEF Stage
<1> HIDE DEF o
<1>3. /\ g \in Nat /\ r \in Nat /\ Stock0 \in Nat /\ g <= Stock0 /\ stock = Stock0 - g - r
      /\ In("refused") # {} => g = Stock0
      /\ In("restored") # {} => g = Stock0
  BY InFinite, ConstantsAssumption DEF Ledgers, CounterIsLedger, Bounded, SoldOutBeforeRefusal
<1>4. In("refused") = {} => r = 0
  BY FS_EmptySet
<1>5. CASE stock' >= 0
  <2>1. phase' = [phase EXCEPT ![o] = "granted"]
    BY <1>1, <1>5
  <2>2. /\ Cardinality(In("granted")') = g + 1
        /\ In("refused")' = In("refused") /\ In("restored")' = In("restored")
    BY <1>2, <2>1, Moved DEF Phases
  <2> HIDE DEF g, r
  <2>3. g + 1 <= Stock0 /\ In("refused") = {} /\ In("restored") = {}
    BY <1>1, <1>3, <1>5
  <2>4. stock' = Stock0 - (g + 1) - r
    BY <1>1, <1>3
  <2>5. Ledgers'
    BY <1>1, <1>3, <2>2, <2>3, <2>4 DEF Ledgers, CounterIsLedger, Bounded, SoldOutBeforeRefusal, r
  <2>6. g < Stock0
    BY <1>3, <2>3
  <2> QED
    BY <1>2, <2>1, <2>2, <2>5, <2>6 DEF g, o
<1>6. CASE ~(stock' >= 0)
  <2>1. phase' = [phase EXCEPT ![o] = "refused"]
    BY <1>1, <1>6
  <2>2. /\ Cardinality(In("refused")') = r + 1
        /\ In("granted")' = In("granted") /\ In("restored")' = In("restored")
    BY <1>2, <2>1, Moved DEF Phases
  <2> HIDE DEF g, r
  <2>3. g = Stock0
    BY <1>1, <1>3, <1>4, <1>6
  <2>4. stock' = Stock0 - g - (r + 1)
    BY <1>1, <1>3
  <2>5. Ledgers'
    BY <1>3, <2>2, <2>3, <2>4 DEF Ledgers, CounterIsLedger, Bounded, SoldOutBeforeRefusal, g
  <2> QED
    BY <1>2, <2>1, <2>2, <2>3, <2>5 DEF g, o
<1> QED
  BY <1>5, <1>6

LEMMA IncrLedger ==
  ASSUME TypeOK, Flow, Ledgers, NEW c \in Clients, ServeIncr(c)
  PROVE  /\ Ledgers'
         /\ LET o == Head(req[c]).ord
            IN  /\ o \in Orders /\ phase[o] = "refused"
                /\ phase' = [phase EXCEPT ![o] = "restored"]
                /\ In("granted")' = In("granted")
<1> DEFINE o == Head(req[c]).ord
           g == Cardinality(In("granted"))
           r == Cardinality(In("refused"))
<1>1. Execute(c, "INCR") /\ stock' = stock + 1 /\ phase' = [phase EXCEPT ![o] = "restored"]
  BY DEF ServeIncr
<1>2. o \in Orders /\ phase[o] = "refused"
  BY <1>1, HeadPhase DEF Stage
<1> HIDE DEF o
<1>3. /\ g \in Nat /\ r \in Nat /\ Stock0 \in Nat /\ g <= Stock0 /\ stock = Stock0 - g - r
      /\ In("refused") # {} => g = Stock0
  BY InFinite, ConstantsAssumption DEF Ledgers, CounterIsLedger, Bounded, SoldOutBeforeRefusal
<1>4. /\ Cardinality(In("refused")') = r - 1
      /\ In("granted")' = In("granted")
  BY <1>1, <1>2, Moved DEF Phases
<1>5. In("refused") # {}
  BY <1>2 DEF In
<1> HIDE DEF r
<1>6. stock' = Stock0 - g - (r - 1)
  BY <1>1, <1>3
<1>7. Ledgers'
  BY <1>3, <1>4, <1>5, <1>6 DEF Ledgers, CounterIsLedger, Bounded, SoldOutBeforeRefusal
<1> QED
  BY <1>1, <1>2, <1>4, <1>7 DEF o

\* Every other step leaves the counter and the settled orders alone.
LEMMA OtherLedger ==
  ASSUME TypeOK, [Next]_vars, \A c \in Clients : ~ServeDecr(c) /\ ~ServeIncr(c)
  PROVE  /\ stock' = stock
         /\ \A x \in Orders : phase'[x] = phase[x] \/ (phase[x] = "idle" /\ phase'[x] = "placed")
<1>1. ASSUME NEW o \in Orders, ExecuteOrder(o)
      PROVE  /\ stock' = stock
             /\ \A x \in Orders :
                  phase'[x] = phase[x] \/ (phase[x] = "idle" /\ phase'[x] = "placed")
  BY <1>1 DEF ExecuteOrder, TypeOK
<1>2. ASSUME NEW c \in Clients, OnBatchStressTest(c)
      PROVE  /\ stock' = stock
             /\ \A x \in Orders :
                  phase'[x] = phase[x] \/ (phase[x] = "idle" /\ phase'[x] = "placed")
  <2>1. \A x \in Orders : Batched(x) /\ By[x] = c => phase[x] = "idle"
    BY <1>2 DEF OnBatchStressTest, Batched
  <2> QED
    BY <1>2, <2>1 DEF OnBatchStressTest
<1>3. \/ \E o \in Orders : ExecuteOrder(o)
      \/ \E c \in Clients : OnBatchStressTest(c)
      \/ stock' = stock /\ phase' = phase
  BY DEF Next, Callback, Serve, vars, orderVars, OnDecr, OnZscore, Disconnect, ServeLpush,
     ServeDailyOrders, ServeRevenue, ServeZscore, ServeZadd
<1> QED
  BY <1>1, <1>2, <1>3

LEMMA LedgerStep == TypeOK /\ Flow /\ Ledgers /\ [Next]_vars => Ledgers'
<1> SUFFICES ASSUME TypeOK, Flow, Ledgers, [Next]_vars PROVE Ledgers'
  OBVIOUS
<1>1. ASSUME NEW c \in Clients, ServeDecr(c) PROVE Ledgers'
  BY <1>1, DecrLedger
<1>2. ASSUME NEW c \in Clients, ServeIncr(c) PROVE Ledgers'
  BY <1>2, IncrLedger
<1>3. CASE \A c \in Clients : ~ServeDecr(c) /\ ~ServeIncr(c)
  <2>1. /\ stock' = stock
        /\ \A x \in Orders : phase'[x] = phase[x] \/ (phase[x] = "idle" /\ phase'[x] = "placed")
    BY <1>3, OtherLedger
  <2>2. /\ In("granted")' = In("granted") /\ In("refused")' = In("refused")
        /\ In("restored")' = In("restored")
    BY <2>1 DEF In
  <2> QED
    BY <2>1, <2>2 DEF Ledgers, CounterIsLedger, Bounded, SoldOutBeforeRefusal
<1> QED
  BY <1>1, <1>2, <1>3

LEMMA LedgerInit == Init => Ledgers
<1> SUFFICES ASSUME Init PROVE Ledgers
  OBVIOUS
<1>1. In("granted") = {} /\ In("refused") = {} /\ In("restored") = {}
  BY DEF Init, In
<1>2. /\ Cardinality(In("granted")) = 0 /\ Cardinality(In("refused")) = 0
      /\ Stock0 \in Nat /\ stock = Stock0
  BY <1>1, FS_EmptySet, ConstantsAssumption DEF Init
<1> QED
  BY <1>1, <1>2
  DEF Ledgers, CounterIsLedger, Bounded, SoldOutBeforeRefusal

\* The inductive invariant: types, where each order is, and the ledger.
LEMMA Inductive == Spec => [](TypeOK /\ Flow /\ Ledgers)
<1>1. Init => TypeOK /\ Flow /\ Ledgers
  BY InitType, FlowInit, LedgerInit
<1>2. (TypeOK /\ Flow /\ Ledgers) /\ [Next]_vars => (TypeOK /\ Flow /\ Ledgers)'
  BY TypeStep, FlowStep, LedgerStep
<1> QED
  BY <1>1, <1>2, PTL DEF Spec

\* The counter is exact at every moment, whatever is in flight or lost.
THEOREM LedgerExact == Spec => []CounterIsLedger
<1>1. Ledgers => CounterIsLedger
  BY DEF Ledgers
<1> QED
  BY <1>1, Inductive, PTL

\* A rollback still to come never makes another order fail.
THEOREM NoEarlyRefusal == Spec => []SoldOutBeforeRefusal
<1>1. Ledgers => SoldOutBeforeRefusal
  BY DEF Ledgers
<1> QED
  BY <1>1, Inductive, PTL

\* Recorded orders are distinct and each holds one of at most Stock0 items.
LEMMA RecordedBound == TypeOK /\ Flow /\ Ledgers => NoOversell
<1> SUFFICES ASSUME TypeOK, Flow, Ledgers PROVE NoOversell
  OBVIOUS
<1> DEFINE n == Len(pending)
           g == Cardinality(In("granted"))
<1>1. pending \in Seq(Orders) /\ n \in Nat /\ DOMAIN pending = 1..n
  BY DEF TypeOK
<1>2. In("granted") \subseteq Orders /\ IsFiniteSet(In("granted")) /\ g \in Nat /\ g <= Stock0
  BY InFinite DEF Ledgers, Bounded
<1>3. IsFiniteSet(1..n) /\ Cardinality(1..n) = n
  <2>1. 1 \in Int /\ n \in Int
    BY <1>1
  <2> HIDE DEF n
  <2>2. IsFiniteSet(1..n) /\ Cardinality(1..n) = IF 1 > n THEN 0 ELSE n - 1 + 1
    BY <2>1, FS_Interval
  <2> QED
    BY <1>1, <2>2
<1>4. \A i \in 1..n : pending[i] \in In("granted")
  BY <1>1 DEF Flow, PendingGood, In
<1>5. pending \in [1..n -> In("granted")]
  <2>1. pending = [i \in 1..n |-> pending[i]]
    BY <1>1
  <2> QED
    BY <1>4, <2>1
<1>6. \A i, j \in 1..n : i # j => pending[i] # pending[j]
  BY DEF Flow, PendingGood
<1>7. Stock0 \in Nat
  BY ConstantsAssumption
<1> HIDE DEF n, g
<1>8. ~(n > g)
  <2> SUFFICES ASSUME n > g PROVE FALSE
    OBVIOUS
  <2>1. \E x, y \in 1..n : x # y /\ pending[x] = pending[y]
    BY <1>2, <1>3, <1>5, FS_PigeonHole DEF g
  <2> QED
    BY <1>6, <2>1
<1>9. n <= Stock0
  BY <1>1, <1>2, <1>7, <1>8
<1> QED
  BY <1>9 DEF NoOversell, n

\* The shop never records more orders than it had items.
THEOREM NeverOversold == Spec => []NoOversell
  BY Inductive, RecordedBound, PTL

-----------------------------------------------------------------------------
(* The refinement: each step of the panel and the server is a sale, a      *)
(* refusal or nothing at all to the abstract ledger.                       *)

Abstract(p) == IF p \in {"idle", "placed"} THEN "open"
               ELSE IF p = "granted" THEN "sold" ELSE "refused"

OutcomeBar == [o \in Orders |-> CASE phase[o] \in {"idle", "placed"} -> "open"
                                  [] phase[o] = "granted" -> "sold"
                                  [] OTHER -> "refused"]
RemainingBar == Stock0 - Cardinality(In("granted"))

LEMMA OutcomeAt == \A o \in Orders : OutcomeBar[o] = Abstract(phase[o])
  BY DEF OutcomeBar, Abstract

LEMMA OutcomeAtPrime == \A o \in Orders : OutcomeBar'[o] = Abstract(phase'[o])
  BY DEF OutcomeBar, Abstract

LEMMA RefineInit == Init => Ledger!Init
<1> SUFFICES ASSUME Init PROVE Ledger!Init
  OBVIOUS
<1>1. In("granted") = {}
  BY DEF Init, In
<1>2. RemainingBar = Stock0
  <2>1. Cardinality(In("granted")) = 0 /\ Stock0 \in Nat
    BY <1>1, FS_EmptySet, ConstantsAssumption
  <2> QED
    BY <2>1 DEF RemainingBar
<1>3. OutcomeBar = [o \in Orders |-> "open"]
  BY DEF Init, OutcomeBar
<1> QED
  BY <1>2, <1>3 DEF Ledger!Init, RemainingBar, OutcomeBar

LEMMA RefineStep ==
  TypeOK /\ Flow /\ Ledgers /\ [Next]_vars =>
    [Ledger!Next]_<<RemainingBar, OutcomeBar>>
<1> SUFFICES ASSUME TypeOK, Flow, Ledgers, [Next]_vars
             PROVE  [Ledger!Next]_<<RemainingBar, OutcomeBar>>
  OBVIOUS
<1>1. ASSUME NEW c \in Clients, ServeDecr(c) PROVE Ledger!Next
  <2> DEFINE g == Cardinality(In("granted"))
  <2>1. PICK o \in Orders :
          /\ phase[o] = "placed"
          /\ \/ /\ phase' = [phase EXCEPT ![o] = "granted"]
                /\ g < Stock0 /\ Cardinality(In("granted")') = g + 1
             \/ /\ phase' = [phase EXCEPT ![o] = "refused"]
                /\ g = Stock0 /\ In("granted")' = In("granted")
    BY <1>1, DecrLedger
  <2>2. OutcomeBar[o] = "open"
    BY <2>1, OutcomeAt DEF Abstract
  <2>3. g \in Nat /\ Stock0 \in Nat
    BY InFinite, ConstantsAssumption
  <2>4. CASE phase' = [phase EXCEPT ![o] = "granted"]
    <3>1. OutcomeBar' = [OutcomeBar EXCEPT ![o] = "sold"]
      <4>1. \A x \in Orders : Abstract(phase'[x]) = IF x = o THEN "sold" ELSE Abstract(phase[x])
        BY <2>1, <2>4 DEF Abstract, TypeOK
      <4> QED
        BY <4>1, OutcomeAt, OutcomeAtPrime DEF OutcomeBar
    <3>2. phase'[o] = "granted"
      BY <2>1, <2>4 DEF TypeOK
    <3>3. g < Stock0 /\ Cardinality(In("granted")') = g + 1
      BY <2>1, <2>4, <3>2 DEF TypeOK
    <3>4. RemainingBar > 0 /\ RemainingBar' = RemainingBar - 1
      BY <2>3, <3>3 DEF RemainingBar
    <3>5. Ledger!Sell(o)
      BY <2>2, <3>1, <3>4 DEF Ledger!Sell, RemainingBar, OutcomeBar
    <3> QED
      BY <3>5 DEF Ledger!Next
  <2>5. CASE phase' = [phase EXCEPT ![o] = "refused"]
    <3>1. OutcomeBar' = [OutcomeBar EXCEPT ![o] = "refused"]
      <4>1. \A x \in Orders : Abstract(phase'[x]) = IF x = o THEN "refused" ELSE Abstract(phase[x])
        BY <2>1, <2>5 DEF Abstract, TypeOK
      <4> QED
        BY <4>1, OutcomeAt, OutcomeAtPrime DEF OutcomeBar
    <3>2. phase'[o] = "refused"
      BY <2>1, <2>5 DEF TypeOK
    <3>3. g = Stock0 /\ In("granted")' = In("granted")
      BY <2>1, <2>5, <3>2 DEF TypeOK
    <3>4. RemainingBar = 0 /\ RemainingBar' = RemainingBar
      BY <2>3, <3>3 DEF RemainingBar
    <3>5. Ledger!Refuse(o)
      BY <2>2, <3>1, <3>4 DEF Ledger!Refuse, RemainingBar, OutcomeBar
    <3> QED
      BY <3>5 DEF Ledger!Next
  <2> QED
    BY <2>1, <2>4, <2>5
<1>2. ASSUME NEW c \in Clients, ServeIncr(c) PROVE UNCHANGED <<RemainingBar, OutcomeBar>>
  <2> DEFINE o == Head(req[c]).ord
  <2>1. /\ o \in Orders /\ phase[o] = "refused" /\ phase' = [phase EXCEPT ![o] = "restored"]
        /\ In("granted")' = In("granted")
    BY <1>2, IncrLedger
  <2> HIDE DEF o
  <2>2. \A x \in Orders : Abstract(phase'[x]) = Abstract(phase[x])
    BY <2>1 DEF Abstract, TypeOK
  <2>3. OutcomeBar' = OutcomeBar
    BY <2>2, OutcomeAt, OutcomeAtPrime DEF OutcomeBar
  <2> QED
    BY <2>1, <2>3 DEF RemainingBar
<1>3. CASE \A c \in Clients : ~ServeDecr(c) /\ ~ServeIncr(c)
  <2>1. \A x \in Orders : phase'[x] = phase[x] \/ (phase[x] = "idle" /\ phase'[x] = "placed")
    BY <1>3, OtherLedger
  <2>2. In("granted")' = In("granted")
    BY <2>1 DEF In
  <2>3. \A x \in Orders : Abstract(phase'[x]) = Abstract(phase[x])
    BY <2>1 DEF Abstract
  <2>4. OutcomeBar' = OutcomeBar
    BY <2>3, OutcomeAt, OutcomeAtPrime DEF OutcomeBar
  <2> QED
    BY <2>2, <2>4 DEF RemainingBar
<1> QED
  BY <1>1, <1>2, <1>3

\* The panel and the server keep the promise of a flash sale: every order gets
\* an item while one is left, and is refused only when none is.
THEOREM LedgerImplemented == Spec => ImplementsLedger
<1>1. Spec => [](TypeOK /\ Flow /\ Ledgers)
  BY Inductive
<1>2. Init => Ledger!Init
  BY RefineInit
<1>3. TypeOK /\ Flow /\ Ledgers /\ [Next]_vars =>
        [Ledger!Next]_<<RemainingBar, OutcomeBar>>
  BY RefineStep
<1> QED
  BY <1>1, <1>2, <1>3, PTL DEF Spec, ImplementsLedger, Ledger!Spec, RemainingBar, OutcomeBar

-----------------------------------------------------------------------------
(* The books: the list of orders, the number of orders and the revenue,    *)
(* which the panel writes with three commands.  The invariant names, by    *)
(* two sets that no variable holds, the orders the two figures have        *)
(* counted, and says where the orders still to be counted are.             *)

\* The orders that a queue's commands of one kind are about.
Of(q, cmd) == {q[i].ord : i \in {j \in 1..Len(q) : q[j].cmd = cmd}}

\* In a queue of connection c, the commands cmd are about distinct orders of c,
\* none of them in D (done), each of them in B (before) or behind its own pre.
Staged(c, q, pre, B, cmd, D) ==
  /\ \A i \in 1..Len(q) : q[i].cmd = cmd =>
       /\ By[q[i].ord] = c /\ q[i].ord \notin D
       /\ \/ q[i].ord \in B
          \/ \E j \in 1..Len(q) : j < i /\ q[j].cmd = pre /\ q[j].ord = q[i].ord
  /\ \A i, j \in 1..Len(q) :
       i # j /\ q[i].cmd = cmd /\ q[j].cmd = cmd => q[i].ord # q[j].ord

\* The oldest request of the queue is cmd, about order o.
Leads(q, cmd, o) == Head(q).cmd = cmd /\ Head(q).ord = o

Priced(q) == \A i \in 1..Len(q) : q[i].cmd = "INCRBY revenue" => q[i].arg = 1

\* An order of an open connection is where its phase says: what is still to be
\* done for it is in the queue, or its reply is.
Located(o, q, r, R, C, V, ph) ==
  /\ ph[o] = "placed" => o \in Of(q, "DECR")
  /\ ph[o] = "refused" => o \in Of(q, "INCR") \/ o \in Answered(r)
  /\ ph[o] = "granted" =>
       \/ o \in Answered(r)
       \/ /\ o \in Of(q, "LPUSH") \/ o \in R
          /\ o \in Of(q, "INCR orders") \/ o \in C
          /\ o \in Of(q, "INCRBY revenue") \/ o \in V

Complete(c, q, r, R, C, V, ph) ==
  \A o \in Orders : By[o] = c => Located(o, q, r, R, C, V, ph)

\* C and V: the orders counted, and those whose revenue is.
BooksAt(c, C, V, up, q, r, R, ph) ==
  /\ Staged(c, q, "LPUSH", R, "INCR orders", C)
  /\ Staged(c, q, "INCR orders", C, "INCRBY revenue", V)
  /\ Priced(q)
  /\ up => Complete(c, q, r, R, C, V, ph)

Figures(C, V, R, n, m) ==
  /\ Cardinality(C) = n /\ Cardinality(V) = m
  /\ C \subseteq R /\ V \subseteq C

Kept(C, V) ==
  /\ Figures(C, V, Recorded(pending), daily, revenue)
  /\ \A c \in Clients :
       BooksAt(c, C, V, open[c], req[c], rep[c], Recorded(pending), phase)

Books == \E C, V \in SUBSET Orders : Kept(C, V)

-----------------------------------------------------------------------------
\* What the operations on a queue do to the orders its commands are about.
LEMMA OfTail ==
  ASSUME NEW q \in Seq(Requests), q # <<>>, NEW cmd, NEW o \in Of(q, cmd)
  PROVE  o \in Of(Tail(q), cmd) \/ Leads(q, cmd, o)
<1>1. /\ Len(q) \in Nat /\ Len(q) > 0 /\ Len(Tail(q)) = Len(q) - 1 /\ Head(q) = q[1]
      /\ \A i \in 1..Len(Tail(q)) : Tail(q)[i] = q[i + 1]
  BY HeadTailProperties, EmptySeq
<1>2. PICK i \in 1..Len(q) : q[i].cmd = cmd /\ o = q[i].ord
  BY DEF Of
<1>3. CASE i = 1
  BY <1>1, <1>2, <1>3 DEF Leads
<1>4. CASE i # 1
  <2>1. i - 1 \in 1..Len(Tail(q)) /\ (i - 1) + 1 = i
    BY <1>1, <1>4
  <2>2. Tail(q)[i - 1] = q[i]
    BY <1>1, <2>1
  <2> QED
    BY <1>2, <2>1, <2>2 DEF Of
<1> QED
  BY <1>3, <1>4

LEMMA OfConcat ==
  ASSUME NEW q \in Seq(Requests), NEW t \in Seq(Requests), NEW cmd
  PROVE  Of(q, cmd) \subseteq Of(q \o t, cmd) /\ Of(t, cmd) \subseteq Of(q \o t, cmd)
<1> DEFINE s == q \o t
<1>1. /\ Len(q) \in Nat /\ Len(t) \in Nat /\ Len(s) = Len(q) + Len(t)
      /\ \A i \in 1..Len(q) : s[i] = q[i]
      /\ \A i \in 1..Len(t) : s[Len(q) + i] = t[i]
  BY ConcatElements
<1> HIDE DEF s
<1>2. ASSUME NEW o \in Of(q, cmd) PROVE o \in Of(s, cmd)
  <2>1. PICK i \in 1..Len(q) : q[i].cmd = cmd /\ o = q[i].ord
    BY DEF Of
  <2>2. i \in 1..Len(s) /\ s[i] = q[i]
    BY <1>1
  <2> QED
    BY <2>1, <2>2 DEF Of
<1>3. ASSUME NEW o \in Of(t, cmd) PROVE o \in Of(s, cmd)
  <2>1. PICK i \in 1..Len(t) : t[i].cmd = cmd /\ o = t[i].ord
    BY DEF Of
  <2>2. Len(q) + i \in 1..Len(s) /\ s[Len(q) + i] = t[i]
    BY <1>1
  <2> QED
    BY <2>1, <2>2 DEF Of
<1> QED
  BY <1>2, <1>3 DEF s

LEMMA AnsweredTail ==
  ASSUME NEW r \in Seq(Replies), r # <<>>, NEW o \in Answered(r)
  PROVE  o \in Answered(Tail(r)) \/ (Head(r).cmd = "DECR" /\ o = Head(r).ord)
<1>1. /\ Len(r) \in Nat /\ Len(r) > 0 /\ Len(Tail(r)) = Len(r) - 1 /\ Head(r) = r[1]
      /\ \A i \in 1..Len(Tail(r)) : Tail(r)[i] = r[i + 1]
  BY HeadTailProperties, EmptySeq
<1>2. PICK i \in 1..Len(r) : r[i].cmd = "DECR" /\ o = r[i].ord
  BY DEF Answered
<1>3. CASE i = 1
  BY <1>1, <1>2, <1>3
<1>4. CASE i # 1
  <2>1. i - 1 \in 1..Len(Tail(r)) /\ (i - 1) + 1 = i
    BY <1>1, <1>4
  <2>2. Tail(r)[i - 1] = r[i]
    BY <1>1, <2>1
  <2> QED
    BY <1>2, <2>1, <2>2 DEF Answered
<1> QED
  BY <1>3, <1>4

LEMMA AnsweredAppend ==
  ASSUME NEW r \in Seq(Replies), NEW m \in Replies
  PROVE  /\ Answered(r) \subseteq Answered(Append(r, m))
         /\ m.cmd = "DECR" => m.ord \in Answered(Append(r, m))
<1> DEFINE s == Append(r, m)
<1>1. /\ Len(r) \in Nat /\ Len(s) = Len(r) + 1 /\ s[Len(r) + 1] = m
      /\ \A i \in 1..Len(r) : s[i] = r[i]
  BY AppendProperties
<1> HIDE DEF s
<1>2. ASSUME NEW o \in Answered(r) PROVE o \in Answered(s)
  <2>1. PICK i \in 1..Len(r) : r[i].cmd = "DECR" /\ o = r[i].ord
    BY DEF Answered
  <2>2. i \in 1..Len(s) /\ s[i] = r[i]
    BY <1>1
  <2> QED
    BY <2>1, <2>2 DEF Answered
<1>3. m.cmd = "DECR" => m.ord \in Answered(s)
  <2>1. Len(r) + 1 \in 1..Len(s)
    BY <1>1
  <2> QED
    BY <1>1, <2>1 DEF Answered
<1> QED
  BY <1>2, <1>3 DEF s

-----------------------------------------------------------------------------
\* What they do to the stages of the bookkeeping.
LEMMA StagedFrame ==
  ASSUME NEW c, NEW q, NEW pre, NEW B, NEW cmd, NEW D, NEW B2, NEW D2,
         Staged(c, q, pre, B, cmd, D), B \subseteq B2,
         \A o \in D2 : o \in D \/ By[o] # c
  PROVE  Staged(c, q, pre, B2, cmd, D2)
  BY DEF Staged

LEMMA StagedTail ==
  ASSUME NEW c, NEW q \in Seq(Requests), q # <<>>, NEW pre, NEW B, NEW cmd, NEW D,
         NEW B2, NEW D2, Staged(c, q, pre, B, cmd, D), B \subseteq B2,
         \A o : Leads(q, pre, o) => o \in B2,
         \A o \in D2 : o \in D \/ Leads(q, cmd, o)
  PROVE  Staged(c, Tail(q), pre, B2, cmd, D2)
<1>1. /\ Len(q) \in Nat /\ Len(q) > 0 /\ Len(Tail(q)) = Len(q) - 1 /\ Head(q) = q[1]
      /\ \A i \in 1..Len(Tail(q)) : Tail(q)[i] = q[i + 1]
  BY HeadTailProperties, EmptySeq
<1>0. /\ Head(q).cmd = pre => Head(q).ord \in B2
      /\ \A o \in D2 : o \in D \/ (Head(q).cmd = cmd /\ o = Head(q).ord)
  BY DEF Leads
<1> DEFINE t == Tail(q)
<1>2. /\ 1 \in 1..Len(q)
      /\ \A i \in 1..Len(t) : i + 1 \in 1..Len(q) /\ i + 1 # 1 /\ t[i] = q[i + 1]
      /\ \A i, j \in 1..Len(t) : i # j => i + 1 # j + 1
  BY <1>1
<1>4. ASSUME NEW i \in 1..Len(t), NEW j \in 1..Len(q), j < i + 1
      PROVE  j = 1 \/ \E k \in 1..Len(t) : j = k + 1 /\ k < i /\ t[k] = q[j]
  <2>1. CASE j # 1
    <3>1. j - 1 \in 1..Len(t) /\ j = (j - 1) + 1 /\ j - 1 < i
      BY <1>1, <1>4, <2>1
    <3> QED
      BY <1>2, <3>1
  <2> QED
    BY <2>1
<1> HIDE DEF t
<1>6. ASSUME NEW i \in 1..Len(t), t[i].cmd = cmd
      PROVE  /\ By[t[i].ord] = c /\ t[i].ord \notin D2
             /\ \/ t[i].ord \in B2
                \/ \E j \in 1..Len(t) : j < i /\ t[j].cmd = pre /\ t[j].ord = t[i].ord
  <2>1. i + 1 \in 1..Len(q) /\ i + 1 # 1 /\ t[i] = q[i + 1]
    BY <1>2
  <2>2. By[t[i].ord] = c /\ t[i].ord \notin D
    BY <1>6, <2>1 DEF Staged
  <2>3. Head(q).cmd = cmd => Head(q).ord # t[i].ord
    BY <1>1, <1>2, <1>6, <2>1 DEF Staged
  <2>4. \/ t[i].ord \in B
        \/ \E j \in 1..Len(q) : j < i + 1 /\ q[j].cmd = pre /\ q[j].ord = t[i].ord
    BY <1>6, <2>1 DEF Staged
  <2>5. ASSUME NEW j \in 1..Len(q), j < i + 1, q[j].cmd = pre, q[j].ord = t[i].ord
        PROVE  \/ t[i].ord \in B2
               \/ \E k \in 1..Len(t) : k < i /\ t[k].cmd = pre /\ t[k].ord = t[i].ord
    <3>1. CASE j = 1
      BY <1>0, <1>1, <2>5, <3>1
    <3>2. ASSUME NEW k \in 1..Len(t), k < i, t[k] = q[j]
          PROVE  \E l \in 1..Len(t) : l < i /\ t[l].cmd = pre /\ t[l].ord = t[i].ord
      BY <2>5, <3>2
    <3> QED
      BY <1>4, <2>5, <3>1, <3>2
  <2> QED
    BY <1>0, <2>2, <2>3, <2>4, <2>5
<1>7. ASSUME NEW i \in 1..Len(t), NEW j \in 1..Len(t), i # j, t[i].cmd = cmd, t[j].cmd = cmd
      PROVE  t[i].ord # t[j].ord
  BY <1>2, <1>7 DEF Staged
<1>8. Staged(c, t, pre, B2, cmd, D2)
  BY <1>6, <1>7 DEF Staged
<1> QED
  BY <1>8 DEF t

LEMMA StagedPrefix ==
  ASSUME NEW c, NEW q \in Seq(Requests), NEW n \in 0..Len(q), NEW pre, NEW B, NEW cmd,
         NEW D, Staged(c, q, pre, B, cmd, D)
  PROVE  Staged(c, SubSeq(q, 1, n), pre, B, cmd, D)
<1>1. Len(q) \in Nat /\ n \in Nat /\ n <= Len(q)
  OBVIOUS
<1> DEFINE s == SubSeq(q, 1, n)
<1>2. /\ Len(s) = n
      /\ \A i \in 1..n : s[i] = q[i] /\ i \in 1..Len(q)
  BY <1>1
<1>3. \A i \in 1..n : \A j \in 1..Len(q) : j < i => j \in 1..n
  BY <1>1
<1> HIDE DEF s
<1>4. ASSUME NEW i \in 1..Len(s), s[i].cmd = cmd
      PROVE  /\ By[s[i].ord] = c /\ s[i].ord \notin D
             /\ \/ s[i].ord \in B
                \/ \E j \in 1..Len(s) : j < i /\ s[j].cmd = pre /\ s[j].ord = s[i].ord
  <2>1. i \in 1..n /\ i \in 1..Len(q) /\ s[i] = q[i]
    BY <1>2
  <2>2. /\ By[s[i].ord] = c /\ s[i].ord \notin D
        /\ \/ s[i].ord \in B
           \/ \E j \in 1..Len(q) : j < i /\ q[j].cmd = pre /\ q[j].ord = s[i].ord
    BY <1>4, <2>1 DEF Staged
  <2> QED
    BY <1>2, <1>3, <2>1, <2>2
<1>5. ASSUME NEW i \in 1..Len(s), NEW j \in 1..Len(s), i # j, s[i].cmd = cmd, s[j].cmd = cmd
      PROVE  s[i].ord # s[j].ord
  BY <1>2, <1>5 DEF Staged
<1> QED
  BY <1>4, <1>5 DEF Staged, s

LEMMA StagedConcat ==
  ASSUME NEW c, NEW q \in Seq(Requests), NEW t \in Seq(Requests), NEW pre, NEW B, NEW cmd,
         NEW D, Staged(c, q, pre, B, cmd, D), Staged(c, t, pre, B, cmd, D),
         Of(q, cmd) \intersect Of(t, cmd) = {}
  PROVE  Staged(c, q \o t, pre, B, cmd, D)
<1> DEFINE s == q \o t
           Old(i) == i \in 1..Len(q) /\ s[i] = q[i]
           New(i, k) == k \in 1..Len(t) /\ i = Len(q) + k /\ s[i] = t[k]
<1>1. /\ Len(q) \in Nat /\ Len(t) \in Nat /\ Len(s) = Len(q) + Len(t)
      /\ \A i \in 1..Len(q) : s[i] = q[i]
      /\ \A i \in 1..Len(t) : s[Len(q) + i] = t[i]
      /\ \A i \in 1..Len(s) : i \in 1..Len(q) \/ \E k \in 1..Len(t) : i = Len(q) + k
  BY ConcatElements
<1> HIDE DEF s
<1>2. \A i \in 1..Len(s) : Old(i) \/ \E k \in 1..Len(t) : New(i, k)
  BY <1>1
<1>3. /\ \A i \in 1..Len(q) : i \in 1..Len(s)
      /\ \A k \in 1..Len(t) : Len(q) + k \in 1..Len(s)
  BY <1>1
<1>4. /\ \A i \in 1..Len(q) : q[i].cmd = cmd => q[i].ord \in Of(q, cmd)
      /\ \A i \in 1..Len(t) : t[i].cmd = cmd => t[i].ord \in Of(t, cmd)
  BY DEF Of
<1> DEFINE Fine(i) ==
      /\ By[s[i].ord] = c /\ s[i].ord \notin D
      /\ \/ s[i].ord \in B
         \/ \E j \in 1..Len(s) : j < i /\ s[j].cmd = pre /\ s[j].ord = s[i].ord
<1>5. ASSUME NEW i \in 1..Len(s), s[i].cmd = cmd PROVE Fine(i)
  <2>1. CASE Old(i)
    <3>1. /\ By[s[i].ord] = c /\ s[i].ord \notin D
          /\ \/ s[i].ord \in B
             \/ \E j \in 1..Len(q) : j < i /\ q[j].cmd = pre /\ q[j].ord = s[i].ord
      BY <1>5, <2>1 DEF Staged
    <3> QED
      BY <1>1, <1>3, <3>1
  <2>2. ASSUME NEW k \in 1..Len(t), New(i, k) PROVE Fine(i)
    <3>1. /\ By[s[i].ord] = c /\ s[i].ord \notin D
          /\ \/ s[i].ord \in B
             \/ \E j \in 1..Len(t) : j < k /\ t[j].cmd = pre /\ t[j].ord = s[i].ord
      BY <1>5, <2>2 DEF Staged
    <3>2. ASSUME NEW j \in 1..Len(t), j < k, t[j].cmd = pre, t[j].ord = s[i].ord
          PROVE  \E l \in 1..Len(s) : l < i /\ s[l].cmd = pre /\ s[l].ord = s[i].ord
      <4>1. Len(q) + j \in 1..Len(s) /\ Len(q) + j < i /\ s[Len(q) + j] = t[j]
        BY <1>1, <1>3, <2>2, <3>2
      <4> QED
        BY <3>2, <4>1
    <3> QED
      BY <3>1, <3>2
  <2> HIDE DEF Old, New, Fine
  <2> QED
    BY <1>2, <2>1, <2>2
<1>6. ASSUME NEW i \in 1..Len(s), NEW j \in 1..Len(s), i # j, s[i].cmd = cmd, s[j].cmd = cmd
      PROVE  s[i].ord # s[j].ord
  <2>1. CASE Old(i) /\ Old(j)
    BY <1>6, <2>1 DEF Staged
  <2>2. ASSUME Old(i), NEW k \in 1..Len(t), New(j, k) PROVE s[i].ord # s[j].ord
    <3>1. s[i].ord \in Of(q, cmd) /\ s[j].ord \in Of(t, cmd)
      BY <1>4, <1>6, <2>2
    <3> QED
      BY <3>1
  <2>3. ASSUME Old(j), NEW k \in 1..Len(t), New(i, k) PROVE s[i].ord # s[j].ord
    <3>1. s[j].ord \in Of(q, cmd) /\ s[i].ord \in Of(t, cmd)
      BY <1>4, <1>6, <2>3
    <3> QED
      BY <3>1
  <2>4. ASSUME NEW k \in 1..Len(t), NEW l \in 1..Len(t), New(i, k), New(j, l)
        PROVE  s[i].ord # s[j].ord
    <3>1. k # l
      BY <1>6, <2>4
    <3> QED
      BY <1>6, <2>4, <3>1 DEF Staged
  <2> HIDE DEF Old, New
  <2> QED
    BY <1>2, <2>1, <2>2, <2>3, <2>4
<1>7. Staged(c, s, pre, B, cmd, D)
  BY <1>5, <1>6 DEF Staged
<1> QED
  BY <1>7 DEF s

LEMMA PricedConcat ==
  ASSUME NEW q \in Seq(Requests), NEW t \in Seq(Requests), Priced(q), Priced(t)
  PROVE  Priced(q \o t)
<1> DEFINE s == q \o t
<1>1. /\ \A i \in 1..Len(q) : s[i] = q[i]
      /\ \A i \in 1..Len(t) : s[Len(q) + i] = t[i]
      /\ \A i \in 1..Len(s) : i \in 1..Len(q) \/ \E k \in 1..Len(t) : i = Len(q) + k
  BY ConcatElements
<1> HIDE DEF s
<1>2. Priced(s)
  BY <1>1, ZenonT(40) DEF Priced
<1> QED
  BY <1>2 DEF s

LEMMA PricedTail ==
  ASSUME NEW q \in Seq(Requests), q # <<>>, Priced(q)
  PROVE  /\ Priced(Tail(q))
         /\ Head(q).cmd = "INCRBY revenue" => Head(q).arg = 1
<1>1. /\ Len(q) \in Nat /\ Len(q) > 0 /\ Len(Tail(q)) = Len(q) - 1 /\ Head(q) = q[1]
      /\ \A i \in 1..Len(Tail(q)) : Tail(q)[i] = q[i + 1]
  BY HeadTailProperties, EmptySeq
<1>2. 1 \in 1..Len(q) /\ \A i \in 1..Len(Tail(q)) : i + 1 \in 1..Len(q)
  BY <1>1
<1> QED
  BY <1>1, <1>2 DEF Priced

LEMMA PricedPrefix ==
  ASSUME NEW q \in Seq(Requests), NEW n \in 0..Len(q), Priced(q)
  PROVE  Priced(SubSeq(q, 1, n))
<1>1. Len(q) \in Nat /\ n \in Nat /\ n <= Len(q)
  OBVIOUS
<1> DEFINE s == SubSeq(q, 1, n)
<1>2. \A i \in 1..Len(s) : s[i] = q[i] /\ i \in 1..Len(q)
  BY <1>1
<1> HIDE DEF s
<1>3. Priced(s)
  BY <1>2 DEF Priced
<1> QED
  BY <1>3 DEF s

-----------------------------------------------------------------------------
\* What the panel sends: messages that count nothing, or the record of an order.
Silent(t) == \A i \in 1..Len(t) : t[i].cmd \notin {"INCR orders", "INCRBY revenue"}

LEMMA SilentStaged ==
  ASSUME NEW c, NEW t, Silent(t), NEW pre, NEW B, NEW D,
         NEW cmd \in {"INCR orders", "INCRBY revenue"}
  PROVE  Staged(c, t, pre, B, cmd, D) /\ Priced(t) /\ Of(t, cmd) = {}
<1>1. \A i \in 1..Len(t) : t[i].cmd # cmd /\ t[i].cmd # "INCRBY revenue"
  BY DEF Silent
<1> QED
  BY <1>1 DEF Staged, Priced, Of

LEMMA SingleSeq ==
  ASSUME NEW m \in Requests
  PROVE  /\ <<m>> \in Seq(Requests)
         /\ \A i \in 1..Len(<<m>>) : <<m>>[i] = m
         /\ 1 \in 1..Len(<<m>>)
  OBVIOUS

LEMMA SingleSilent ==
  ASSUME NEW m \in Requests, m.cmd \notin {"INCR orders", "INCRBY revenue"}
  PROVE  /\ <<m>> \in Seq(Requests) /\ Silent(<<m>>)
         /\ m.ord \in Of(<<m>>, m.cmd)
<1> DEFINE q == <<m>>
<1>1. q \in Seq(Requests) /\ 1 \in 1..Len(q) /\ \A i \in 1..Len(q) : q[i] = m
  BY SingleSeq
<1> HIDE DEF q
<1>2. Silent(q) /\ m.ord \in Of(q, m.cmd)
  BY <1>1 DEF Silent, Of
<1> QED
  BY <1>1, <1>2 DEF q

LEMMA RecordingShape ==
  ASSUME NEW o \in Orders
  PROVE  /\ Recording(o) \in Seq(Requests)
         /\ \A i \in 1..3 : i \in 1..Len(Recording(o)) /\ Recording(o)[i].ord = o
         /\ Recording(o)[1].cmd = "LPUSH" /\ Recording(o)[2].cmd = "INCR orders"
         /\ Recording(o)[3].cmd = "INCRBY revenue" /\ Recording(o)[3].arg = 1
         /\ \A i \in 1..Len(Recording(o)) : i \in 1..3 \/ Recording(o)[i].cmd = "ZSCORE"
<1> DEFINE r1 == Request("LPUSH", o, 0)
           r2 == Request("INCR orders", o, 0)
           r3 == Request("INCRBY revenue", o, 1)
           r4 == Request("ZSCORE", o, 0)
           q == Recording(o)
           s == <<r1, r2, r3>>
<1>1. /\ r1.cmd = "LPUSH" /\ r2.cmd = "INCR orders" /\ r3.cmd = "INCRBY revenue"
      /\ r4.cmd = "ZSCORE" /\ r1.ord = o /\ r2.ord = o /\ r3.ord = o /\ r3.arg = 1
  BY DEF Request
<1>2. q = s \o IF Batched(o) THEN <<>> ELSE <<r4>>
  BY DEF Recording
<1>3. r1 \in Requests /\ r2 \in Requests /\ r3 \in Requests /\ r4 \in Requests
  BY RequestType DEF Commands
<1> HIDE DEF r1, r2, r3, r4, q
<1>4. PICK t \in {<<>>, <<r4>>} : q = s \o t
  BY <1>2
<1>5. s \in Seq(Requests) /\ t \in Seq(Requests)
  <2>1. <<r1, r2, r3>> \in Seq(Requests) /\ <<r4>> \in Seq(Requests) /\ <<>> \in Seq(Requests)
    BY <1>3
  <2> QED
    BY <2>1
<1>6. Len(s) = 3 /\ s[1] = r1 /\ s[2] = r2 /\ s[3] = r3
  OBVIOUS
<1>7. \A k \in 1..Len(t) : t[k] = r4
  OBVIOUS
<1> HIDE DEF s
<1>8. /\ q \in Seq(Requests) /\ Len(q) = 3 + Len(t) /\ Len(t) \in Nat
      /\ \A i \in 1..3 : q[i] = s[i]
      /\ \A k \in 1..Len(t) : q[3 + k] = t[k]
      /\ \A i \in 1..Len(q) : i \in 1..3 \/ \E k \in 1..Len(t) : i = 3 + k
  <2>1. /\ s \o t \in Seq(Requests) /\ Len(s \o t) = Len(s) + Len(t)
        /\ \A i \in 1..Len(s) : (s \o t)[i] = s[i]
        /\ \A i \in 1..Len(t) : (s \o t)[Len(s) + i] = t[i]
        /\ \A i \in 1..Len(s \o t) :
             i \in 1..Len(s) \/ \E k \in 1..Len(t) : i = Len(s) + k
    BY <1>5, ConcatElements
  <2>2. Len(t) \in Nat
    BY <1>5
  <2> QED
    BY <1>4, <1>6, <2>1, <2>2
<1>9. q[1] = r1 /\ q[2] = r2 /\ q[3] = r3
  BY <1>6, <1>8
<1>10. \A i \in 1..3 : i = 1 \/ i = 2 \/ i = 3
  OBVIOUS
<1>11. \A i \in 1..3 : i \in 1..Len(q) /\ q[i].ord = o
  <2>1. Len(q) \in Nat /\ Len(q) >= 3
    BY <1>8
  <2>2. q[1].ord = o /\ q[2].ord = o /\ q[3].ord = o
    BY <1>1, <1>9
  <2>3. \A i \in 1..3 : i \in 1..Len(q)
    BY <2>1
  <2> QED
    BY <1>10, <2>2, <2>3
<1>12. \A i \in 1..Len(q) : i \in 1..3 \/ q[i].cmd = "ZSCORE"
  BY <1>1, <1>7, <1>8
<1> QED
  BY <1>1, <1>8, <1>9, <1>11, <1>12 DEF q

LEMMA RecordingStaged ==
  ASSUME NEW c, NEW o \in Orders, By[o] = c, NEW R, NEW C, NEW V, o \notin C, o \notin V
  PROVE  /\ Staged(c, Recording(o), "LPUSH", R, "INCR orders", C)
         /\ Staged(c, Recording(o), "INCR orders", C, "INCRBY revenue", V)
         /\ Priced(Recording(o))
         /\ \A cmd \in {"INCR orders", "INCRBY revenue"} : Of(Recording(o), cmd) \subseteq {o}
         /\ \A cmd \in {"LPUSH", "INCR orders", "INCRBY revenue"} : o \in Of(Recording(o), cmd)
<1> DEFINE q == Recording(o)
<1>1. /\ \A i \in 1..3 : i \in 1..Len(q) /\ q[i].ord = o
      /\ q[1].cmd = "LPUSH" /\ q[2].cmd = "INCR orders"
      /\ q[3].cmd = "INCRBY revenue" /\ q[3].arg = 1
      /\ \A i \in 1..Len(q) : i \in 1..3 \/ q[i].cmd = "ZSCORE"
  BY RecordingShape
<1> HIDE DEF q
<1>2. /\ 1 \in 1..Len(q) /\ 2 \in 1..Len(q) /\ 3 \in 1..Len(q)
      /\ q[1].ord = o /\ q[2].ord = o /\ q[3].ord = o
  <2>1. 1 \in 1..3 /\ 2 \in 1..3 /\ 3 \in 1..3 /\ 1 < 2 /\ 2 < 3
    OBVIOUS
  <2> QED
    BY <1>1, <2>1
<1>3. 1 < 2 /\ 2 < 3
  OBVIOUS
<1>4. \A i \in 1..Len(q) : i = 1 \/ i = 2 \/ i = 3 \/ q[i].cmd = "ZSCORE"
  <2>1. \A i \in 1..3 : i = 1 \/ i = 2 \/ i = 3
    OBVIOUS
  <2> QED
    BY <1>1, <2>1
<1>5. /\ \A i \in 1..Len(q) : q[i].cmd = "INCR orders" => i = 2
      /\ \A i \in 1..Len(q) : q[i].cmd = "INCRBY revenue" => i = 3
  BY <1>1, <1>4
<1>6. Staged(c, q, "LPUSH", R, "INCR orders", C)
  <2>1. ASSUME NEW i \in 1..Len(q), q[i].cmd = "INCR orders"
        PROVE  /\ By[q[i].ord] = c /\ q[i].ord \notin C
               /\ \E j \in 1..Len(q) : j < i /\ q[j].cmd = "LPUSH" /\ q[j].ord = q[i].ord
    BY <1>1, <1>2, <1>3, <1>5, <2>1
  <2> QED
    BY <1>5, <2>1 DEF Staged
<1>7. Staged(c, q, "INCR orders", C, "INCRBY revenue", V)
  <2>1. ASSUME NEW i \in 1..Len(q), q[i].cmd = "INCRBY revenue"
        PROVE  /\ By[q[i].ord] = c /\ q[i].ord \notin V
               /\ \E j \in 1..Len(q) : /\ j < i /\ q[j].cmd = "INCR orders"
                                       /\ q[j].ord = q[i].ord
    BY <1>1, <1>2, <1>3, <1>5, <2>1
  <2> QED
    BY <1>5, <2>1 DEF Staged
<1>8. Priced(q)
  BY <1>1, <1>5 DEF Priced
<1>9. \A cmd \in {"INCR orders", "INCRBY revenue"} : Of(q, cmd) \subseteq {o}
  BY <1>2, <1>5 DEF Of
<1>10. \A cmd \in {"LPUSH", "INCR orders", "INCRBY revenue"} : o \in Of(q, cmd)
  BY <1>1, <1>2, <1>3 DEF Of
<1> QED
  BY <1>6, <1>7, <1>8, <1>9, <1>10 DEF q

-----------------------------------------------------------------------------
\* The books at a connection that is lost.
LEMMA BooksCut ==
  ASSUME NEW c, NEW C, NEW V, NEW up, NEW q \in Seq(Requests), NEW r, NEW R, NEW ph,
         BooksAt(c, C, V, up, q, r, R, ph), NEW n \in 0..Len(q), NEW r2
  PROVE  BooksAt(c, C, V, FALSE, SubSeq(q, 1, n), r2, R, ph)
  BY StagedPrefix, PricedPrefix DEF BooksAt

-----------------------------------------------------------------------------
\* The steps of the panel: one connection sends.
LEMMA SendKept ==
  ASSUME TypeOK, NEW C, NEW V, Kept(C, V), NEW c \in Clients,
         NEW t \in Seq(Requests), Send(c, t),
         open' = open, pending' = pending, daily' = daily, revenue' = revenue,
         \A d \in Clients : d # c => rep'[d] = rep[d],
         \A o \in Orders : By[o] # c => phase'[o] = phase[o],
         Staged(c, t, "LPUSH", Recorded(pending), "INCR orders", C),
         Staged(c, t, "INCR orders", C, "INCRBY revenue", V), Priced(t),
         \A cmd \in {"INCR orders", "INCRBY revenue"} :
           Of(req[c], cmd) \intersect Of(t, cmd) = {},
         \A o \in Orders : By[o] = c =>
           \/ phase'[o] = phase[o] /\ (o \in Answered(rep[c]) => o \in Answered(rep'[c]))
           \/ Located(o, t, rep'[c], Recorded(pending), C, V, phase')
  PROVE  Kept(C, V)'
<1>1. Figures(C, V, Recorded(pending), daily, revenue)'
  BY DEF Kept
<1>2. ASSUME NEW d \in Clients
      PROVE  BooksAt(d, C, V, open[d], req'[d], rep'[d], Recorded(pending), phase')
  <2>1. BooksAt(d, C, V, open[d], req[d], rep[d], Recorded(pending), phase)
    BY DEF Kept
  <2>2. CASE d # c
    <3>1. req'[d] = req[d] /\ rep'[d] = rep[d]
      BY <2>2 DEF Send, TypeOK
    <3>2. \A o \in Orders : By[o] = d => phase'[o] = phase[o]
      BY <2>2
    <3> QED
      BY <2>1, <3>1, <3>2 DEF BooksAt, Complete, Located
  <2>3. CASE d = c
    <3>1. req'[c] = req[c] \o t /\ req[c] \in Seq(Requests)
      BY DEF Send, TypeOK
    <3> DEFINE q == req[c]
               R == Recorded(pending)
    <3>2. /\ Staged(c, q, "LPUSH", R, "INCR orders", C)
          /\ Staged(c, q, "INCR orders", C, "INCRBY revenue", V) /\ Priced(q)
          /\ open[c] => Complete(c, q, rep[c], R, C, V, phase)
      BY <2>1, <2>3 DEF BooksAt
    <3>3. /\ Of(q, "INCR orders") \intersect Of(t, "INCR orders") = {}
          /\ Of(q, "INCRBY revenue") \intersect Of(t, "INCRBY revenue") = {}
      OBVIOUS
    <3>4. q \in Seq(Requests)
      BY <3>1
    <3> HIDE DEF q, R
    <3>5. Staged(c, q \o t, "LPUSH", R, "INCR orders", C)
      BY <3>2, <3>3, <3>4, StagedConcat DEF R
    <3>6. Staged(c, q \o t, "INCR orders", C, "INCRBY revenue", V)
      BY <3>2, <3>3, <3>4, StagedConcat
    <3>7. Priced(q \o t)
      BY <3>2, <3>4, PricedConcat
    <3>8. \A cmd \in Commands : /\ Of(q, cmd) \subseteq Of(q \o t, cmd)
                                /\ Of(t, cmd) \subseteq Of(q \o t, cmd)
      BY <3>4, OfConcat
    <3>9. ASSUME open[c], NEW o \in Orders, By[o] = c
          PROVE  Located(o, q \o t, rep'[c], R, C, V, phase')
      <4>1. Located(o, q, rep[c], R, C, V, phase)
        BY <3>2, <3>9 DEF Complete
      <4>2. CASE phase'[o] = phase[o] /\ (o \in Answered(rep[c]) => o \in Answered(rep'[c]))
        BY <3>8, <4>1, <4>2 DEF Located, Commands
      <4>3. CASE Located(o, t, rep'[c], R, C, V, phase')
        BY <3>8, <4>3 DEF Located, Commands
      <4> QED
        BY <3>9, <4>2, <4>3 DEF R
    <3>10. BooksAt(c, C, V, open[c], q \o t, rep'[c], R, phase')
      BY <3>5, <3>6, <3>7, <3>9 DEF BooksAt, Complete
    <3> QED
      BY <2>3, <3>1, <3>10 DEF q, R
  <2> QED
    BY <2>2, <2>3
<1> QED
  BY <1>1, <1>2 DEF Kept

LEMMA ExecuteOrderKept ==
  ASSUME TypeOK, NEW C, NEW V, Kept(C, V), NEW o \in Orders, ExecuteOrder(o)
  PROVE  Kept(C, V)'
<1> DEFINE m == Request("DECR", o, 0)
           c == By[o]
<1>1. m \in Requests /\ m.cmd = "DECR" /\ m.ord = o
  <2>1. "DECR" \in Commands /\ 0 \in Nat
    BY DEF Commands
  <2> QED
    BY <2>1, RequestType
<1>2. /\ Send(c, <<m>>) /\ rep' = rep /\ pending' = pending /\ open' = open
      /\ daily' = daily /\ revenue' = revenue
  BY DEF ExecuteOrder
<1>3. c \in Clients
  BY OrderClient
<1>4. phase'[o] = "placed" /\ \A x \in Orders : x # o => phase'[x] = phase[x]
  BY DEF ExecuteOrder, TypeOK
<1> HIDE DEF m
<1>5. <<m>> \in Seq(Requests) /\ Silent(<<m>>) /\ o \in Of(<<m>>, "DECR")
  BY <1>1, SingleSilent
<1>6. \A x \in Orders : By[x] # c => phase'[x] = phase[x]
  BY <1>4
<1>7. Located(o, <<m>>, rep'[c], Recorded(pending), C, V, phase')
  BY <1>4, <1>5 DEF Located
<1> HIDE DEF c
<1>8. \A x \in Orders : By[x] = c =>
        \/ phase'[x] = phase[x] /\ (x \in Answered(rep[c]) => x \in Answered(rep'[c]))
        \/ Located(x, <<m>>, rep'[c], Recorded(pending), C, V, phase')
  BY <1>2, <1>4, <1>7
<1>9. /\ Staged(c, <<m>>, "LPUSH", Recorded(pending), "INCR orders", C)
      /\ Staged(c, <<m>>, "INCR orders", C, "INCRBY revenue", V) /\ Priced(<<m>>)
      /\ \A cmd \in {"INCR orders", "INCRBY revenue"} :
           Of(req[c], cmd) \intersect Of(<<m>>, cmd) = {}
  BY <1>5, SilentStaged
<1>10. \A d \in Clients : d # c => rep'[d] = rep[d]
  BY <1>2
<1> QED
  BY <1>2, <1>3, <1>5, <1>6, <1>8, <1>9, <1>10, SendKept

LEMMA BatchKept ==
  ASSUME TypeOK, NEW C, NEW V, Kept(C, V), NEW c \in Clients, OnBatchStressTest(c)
  PROVE  Kept(C, V)'
<1> DEFINE n == Len(Batch[c])
           msgs == [i \in DOMAIN Batch[c] |-> Request("DECR", Batch[c][i], 0)]
<1>1. Batch[c] \in Seq(Orders) /\ n \in Nat /\ DOMAIN Batch[c] = 1..n
  BY ConstantsAssumption
<1>2. \A i \in 1..n : Batch[c][i] \in Orders
  BY <1>1
<1>3. \A i \in 1..n : /\ Request("DECR", Batch[c][i], 0) \in Requests
                      /\ Request("DECR", Batch[c][i], 0).cmd = "DECR"
                      /\ Request("DECR", Batch[c][i], 0).ord = Batch[c][i]
  <2>1. "DECR" \in Commands /\ 0 \in Nat
    BY DEF Commands
  <2> TAKE i \in 1..n
  <2>2. Batch[c][i] \in Orders
    BY <1>2
  <2> QED
    BY <2>1, <2>2, RequestType
<1>4. /\ msgs \in Seq(Requests) /\ Len(msgs) = n
      /\ \A i \in 1..n : msgs[i].cmd = "DECR" /\ msgs[i].ord = Batch[c][i]
  BY <1>1, <1>3
<1>5. /\ Send(c, msgs) /\ rep' = rep /\ pending' = pending /\ open' = open
      /\ daily' = daily /\ revenue' = revenue
      /\ phase' = [o \in Orders |-> IF By[o] = c /\ Batched(o) THEN "placed" ELSE phase[o]]
  BY DEF OnBatchStressTest
<1> HIDE DEF msgs
<1>6. Silent(msgs)
  BY <1>4 DEF Silent
<1>7. \A x \in Orders : By[x] # c => phase'[x] = phase[x]
  BY <1>5
<1>8. ASSUME NEW x \in Orders, By[x] = c
      PROVE  \/ phase'[x] = phase[x] /\ (x \in Answered(rep[c]) => x \in Answered(rep'[c]))
             \/ Located(x, msgs, rep'[c], Recorded(pending), C, V, phase')
  <2>1. CASE Batched(x)
    <3>1. PICK i \in DOMAIN Batch[c] : Batch[c][i] = x
      BY <1>8, <2>1 DEF Batched
    <3>2. i \in 1..Len(msgs) /\ msgs[i].cmd = "DECR" /\ msgs[i].ord = x
      BY <1>1, <1>4, <3>1
    <3>3. x \in Of(msgs, "DECR")
      BY <3>2 DEF Of
    <3>4. phase'[x] = "placed"
      BY <1>5, <1>8, <2>1
    <3> QED
      BY <3>3, <3>4 DEF Located
  <2>2. CASE ~Batched(x)
    BY <1>5, <2>2
  <2> QED
    BY <2>1, <2>2
<1>9. /\ Staged(c, msgs, "LPUSH", Recorded(pending), "INCR orders", C)
      /\ Staged(c, msgs, "INCR orders", C, "INCRBY revenue", V) /\ Priced(msgs)
      /\ \A cmd \in {"INCR orders", "INCRBY revenue"} :
           Of(req[c], cmd) \intersect Of(msgs, cmd) = {}
  BY <1>6, SilentStaged
<1>10. \A d \in Clients : d # c => rep'[d] = rep[d]
  BY <1>5
<1> HIDE DEF n
<1> QED
  BY <1>4, <1>5, <1>7, <1>8, <1>9, <1>10, SendKept

\* An order whose reply is on its way has nothing counted and nothing to count.
LEMMA AnsweredFresh ==
  ASSUME TypeOK, Flow, NEW C, NEW V, Kept(C, V), NEW c \in Clients, NEW o \in Answered(rep[c])
  PROVE  /\ o \notin C /\ o \notin V
         /\ \A cmd \in {"INCR orders", "INCRBY revenue"} : o \notin Of(req[c], cmd)
<1>1. o \notin Waiting(req[c]) /\ o \notin Recorded(pending)
  BY FlowFacts DEF FlowAt
<1>2. o \notin C /\ o \notin V
  BY <1>1 DEF Kept, Figures
<1>3. /\ Staged(c, req[c], "LPUSH", Recorded(pending), "INCR orders", C)
      /\ Staged(c, req[c], "INCR orders", C, "INCRBY revenue", V)
  BY DEF Kept, BooksAt
<1>4. o \notin Of(req[c], "INCR orders")
  <2> SUFFICES ASSUME NEW i \in 1..Len(req[c]), req[c][i].cmd = "INCR orders",
                      req[c][i].ord = o
               PROVE  FALSE
    BY DEF Of
  <2>1. PICK j \in 1..Len(req[c]) : req[c][j].cmd = "LPUSH" /\ req[c][j].ord = o
    BY <1>1, <1>3 DEF Staged
  <2>2. o \in Waiting(req[c])
    BY <2>1 DEF Waiting, Carries
  <2> QED
    BY <1>1, <2>2
<1>5. o \notin Of(req[c], "INCRBY revenue")
  <2> SUFFICES ASSUME NEW i \in 1..Len(req[c]), req[c][i].cmd = "INCRBY revenue",
                      req[c][i].ord = o
               PROVE  FALSE
    BY DEF Of
  <2>1. PICK j \in 1..Len(req[c]) : req[c][j].cmd = "INCR orders" /\ req[c][j].ord = o
    BY <1>2, <1>3 DEF Staged
  <2> QED
    BY <1>4, <2>1 DEF Of
<1> QED
  BY <1>2, <1>4, <1>5

LEMMA OnDecrKept ==
  ASSUME TypeOK, Flow, NEW C, NEW V, Kept(C, V), NEW c \in Clients, OnDecr(c)
  PROVE  Kept(C, V)'
<1> DEFINE h == Head(rep[c])
           o == h.ord
           m == Request("INCR", o, 0)
           msgs == IF h.res >= 0 THEN Recording(o) ELSE <<m>>
<1>1. /\ rep[c] # <<>> /\ h.cmd = "DECR" /\ Send(c, msgs)
      /\ rep' = [rep EXCEPT ![c] = Tail(@)] /\ phase' = phase /\ pending' = pending
      /\ open' = open /\ daily' = daily /\ revenue' = revenue
  BY DEF OnDecr, Handle, orderVars
<1>2. rep[c] \in Seq(Replies) /\ RepGood(c, rep[c], phase) /\ h \in Replies
  BY <1>1, FlowFacts, HeadTailProperties DEF FlowAt
<1>3. phase[o] = Outcome(h.res) /\ o \in Answered(rep[c])
  BY <1>1, <1>2, RepTail
<1>4. o \in Orders /\ By[o] = c
  BY <1>2, <1>3, AnsweredFacts
<1>5. m \in Requests /\ m.cmd = "INCR" /\ m.ord = o
  <2>1. "INCR" \in Commands /\ 0 \in Nat
    BY DEF Commands
  <2> QED
    BY <1>4, <2>1, RequestType
<1>6. rep'[c] = Tail(rep[c]) /\ \A d \in Clients : d # c => rep'[d] = rep[d]
  BY <1>1 DEF TypeOK
<1>7. \A x \in Answered(rep[c]) : x \in Answered(rep'[c]) \/ x = o
  BY <1>1, <1>2, <1>6, AnsweredTail
<1>8. /\ o \notin C /\ o \notin V
      /\ \A cmd \in {"INCR orders", "INCRBY revenue"} : o \notin Of(req[c], cmd)
  BY <1>3, AnsweredFresh
<1> DEFINE Fit(t) ==
      /\ t \in Seq(Requests)
      /\ Staged(c, t, "LPUSH", Recorded(pending), "INCR orders", C)
      /\ Staged(c, t, "INCR orders", C, "INCRBY revenue", V) /\ Priced(t)
      /\ \A cmd \in {"INCR orders", "INCRBY revenue"} :
           Of(req[c], cmd) \intersect Of(t, cmd) = {}
      /\ Located(o, t, rep'[c], Recorded(pending), C, V, phase)
<1>9. Fit(msgs)
  <2>1. CASE h.res >= 0
    <3>1. phase[o] = "granted" /\ msgs = Recording(o)
      BY <1>3, <2>1 DEF Outcome
    <3> HIDE DEF h, o, m, msgs
    <3>2. /\ Staged(c, Recording(o), "LPUSH", Recorded(pending), "INCR orders", C)
          /\ Staged(c, Recording(o), "INCR orders", C, "INCRBY revenue", V)
          /\ Priced(Recording(o))
          /\ \A cmd \in {"INCR orders", "INCRBY revenue"} : Of(Recording(o), cmd) \subseteq {o}
          /\ \A cmd \in {"LPUSH", "INCR orders", "INCRBY revenue"} : o \in Of(Recording(o), cmd)
      BY <1>4, <1>8, RecordingStaged
    <3>3. Recording(o) \in Seq(Requests)
      BY <1>4, RecordingType
    <3>4. \A cmd \in {"INCR orders", "INCRBY revenue"} :
            Of(req[c], cmd) \intersect Of(Recording(o), cmd) = {}
      BY <1>8, <3>2
    <3>5. Located(o, Recording(o), rep'[c], Recorded(pending), C, V, phase)
      BY <3>1, <3>2 DEF Located
    <3> QED
      BY <3>1, <3>2, <3>3, <3>4, <3>5
  <2>2. CASE ~(h.res >= 0)
    <3>1. phase[o] = "refused" /\ msgs = <<m>>
      BY <1>3, <2>2 DEF Outcome
    <3> HIDE DEF h, o, m, msgs
    <3>2. <<m>> \in Seq(Requests) /\ Silent(<<m>>) /\ o \in Of(<<m>>, "INCR")
      BY <1>5, SingleSilent
    <3>3. /\ Staged(c, <<m>>, "LPUSH", Recorded(pending), "INCR orders", C)
          /\ Staged(c, <<m>>, "INCR orders", C, "INCRBY revenue", V) /\ Priced(<<m>>)
          /\ \A cmd \in {"INCR orders", "INCRBY revenue"} :
               Of(req[c], cmd) \intersect Of(<<m>>, cmd) = {}
      BY <3>2, SilentStaged
    <3>4. Located(o, <<m>>, rep'[c], Recorded(pending), C, V, phase)
      BY <3>1, <3>2 DEF Located
    <3> QED
      BY <3>1, <3>2, <3>3, <3>4
  <2> QED
    BY <2>1, <2>2
<1> HIDE DEF msgs, m, o, h
<1>10. \A x \in Orders : By[x] = c =>
         \/ phase'[x] = phase[x] /\ (x \in Answered(rep[c]) => x \in Answered(rep'[c]))
         \/ Located(x, msgs, rep'[c], Recorded(pending), C, V, phase')
  BY <1>1, <1>7, <1>9
<1> QED
  BY <1>1, <1>6, <1>9, <1>10, SendKept

LEMMA OnZscoreKept ==
  ASSUME TypeOK, Flow, NEW C, NEW V, Kept(C, V), NEW c \in Clients, OnZscore(c)
  PROVE  Kept(C, V)'
<1> DEFINE h == Head(rep[c])
           m == Request("ZADD", h.ord, h.res + 1)
<1>1. /\ rep[c] # <<>> /\ h.cmd = "ZSCORE" /\ Send(c, <<m>>)
      /\ rep' = [rep EXCEPT ![c] = Tail(@)] /\ phase' = phase /\ pending' = pending
      /\ open' = open /\ daily' = daily /\ revenue' = revenue
  BY DEF OnZscore, Handle, orderVars
<1>2. rep[c] \in Seq(Replies) /\ h \in Replies
  BY <1>1, FlowFacts, HeadTailProperties DEF FlowAt
<1>3. h.ord \in Orders /\ h.res + 1 \in Nat
  BY <1>1, <1>2 DEF Replies
<1>4. m \in Requests /\ m.cmd = "ZADD"
  <2>1. "ZADD" \in Commands
    BY DEF Commands
  <2> QED
    BY <1>3, <2>1, RequestType
<1>5. rep'[c] = Tail(rep[c]) /\ \A d \in Clients : d # c => rep'[d] = rep[d]
  BY <1>1 DEF TypeOK
<1>6. \A x \in Answered(rep[c]) : x \in Answered(rep'[c])
  BY <1>1, <1>2, <1>5, AnsweredTail
<1> HIDE DEF h, m
<1>7. <<m>> \in Seq(Requests) /\ Silent(<<m>>)
  BY <1>4, SingleSilent
<1>8. /\ Staged(c, <<m>>, "LPUSH", Recorded(pending), "INCR orders", C)
      /\ Staged(c, <<m>>, "INCR orders", C, "INCRBY revenue", V) /\ Priced(<<m>>)
      /\ \A cmd \in {"INCR orders", "INCRBY revenue"} :
           Of(req[c], cmd) \intersect Of(<<m>>, cmd) = {}
  BY <1>7, SilentStaged
<1>9. /\ \A x \in Orders : By[x] # c => phase'[x] = phase[x]
      /\ \A x \in Orders : By[x] = c =>
           \/ phase'[x] = phase[x] /\ (x \in Answered(rep[c]) => x \in Answered(rep'[c]))
           \/ Located(x, <<m>>, rep'[c], Recorded(pending), C, V, phase')
  BY <1>1, <1>6
<1> QED
  BY <1>1, <1>5, <1>7, <1>8, <1>9, SendKept

LEMMA DisconnectKept ==
  ASSUME TypeOK, NEW C, NEW V, Kept(C, V), NEW c \in Clients, Disconnect(c)
  PROVE  Kept(C, V)'
<1>1. PICK n \in 0..Len(req[c]) : req' = [req EXCEPT ![c] = SubSeq(@, 1, n)]
  BY DEF Disconnect
<1>2. /\ phase' = phase /\ pending' = pending /\ daily' = daily /\ revenue' = revenue
      /\ open' = [open EXCEPT ![c] = FALSE] /\ rep' = [rep EXCEPT ![c] = <<>>]
  BY DEF Disconnect, orderVars
<1>3. Figures(C, V, Recorded(pending), daily, revenue)'
  BY <1>2 DEF Kept
<1>4. ASSUME NEW d \in Clients
      PROVE  BooksAt(d, C, V, open'[d], req'[d], rep'[d], Recorded(pending), phase)
  <2>1. BooksAt(d, C, V, open[d], req[d], rep[d], Recorded(pending), phase)
    BY DEF Kept
  <2>2. CASE d # c
    <3>1. req'[d] = req[d] /\ rep'[d] = rep[d] /\ open'[d] = open[d]
      BY <1>1, <1>2, <2>2 DEF TypeOK
    <3> QED
      BY <2>1, <3>1
  <2>3. CASE d = c
    <3>1. req'[c] = SubSeq(req[c], 1, n) /\ req[c] \in Seq(Requests)
      BY <1>1 DEF TypeOK
    <3>2. open'[c] = FALSE
      BY <1>2, Zenon DEF TypeOK
    <3>3. BooksAt(c, C, V, FALSE, SubSeq(req[c], 1, n), rep'[c], Recorded(pending), phase)
      BY <2>1, <2>3, <3>1, BooksCut
    <3> QED
      BY <2>3, <3>1, <3>2, <3>3
  <2> QED
    BY <2>2, <2>3
<1> QED
  BY <1>2, <1>3, <1>4 DEF Kept

-----------------------------------------------------------------------------
\* The steps of the server: the oldest request of c is executed, and counted.
\* What a step of the server does that counts C2 and V2 after C and V.
Serves(c, C, V, C2, V2) ==
  /\ req[c] # <<>> /\ req' = [req EXCEPT ![c] = Tail(@)] /\ open' = open
  /\ C \subseteq C2 /\ \A o : Leads(req[c], "INCR orders", o) => o \in C2
  /\ \A o \in C2 : o \in C \/ Leads(req[c], "INCR orders", o)
  /\ V \subseteq V2 /\ \A o : Leads(req[c], "INCRBY revenue", o) => o \in V2
  /\ \A o \in V2 : o \in V \/ Leads(req[c], "INCRBY revenue", o)
  /\ Recorded(pending) \subseteq Recorded(pending')
  /\ \A o : Leads(req[c], "LPUSH", o) => o \in Recorded(pending')
  /\ \A d \in Clients : d # c => rep'[d] = rep[d]
  /\ open[c] => /\ Answered(rep[c]) \subseteq Answered(rep'[c])
                /\ \A o : Leads(req[c], "DECR", o) => o \in Answered(rep'[c])
  /\ \A o : Leads(req[c], "DECR", o) => phase'[o] \in {"granted", "refused"}
  /\ \A o : Leads(req[c], "INCR", o) => phase'[o] = "restored"
  /\ \A o \in Orders :
       phase'[o] # phase[o] =>
         By[o] = c /\ (Leads(req[c], "DECR", o) \/ Leads(req[c], "INCR", o))

\* The oldest request is not yet counted, and what goes before it is done.
LEMMA LeadingFacts ==
  ASSUME TypeOK, NEW C, NEW V, Kept(C, V), NEW c \in Clients, req[c] # <<>>
  PROVE  /\ \A o : Leads(req[c], "INCR orders", o) =>
              By[o] = c /\ o \in Recorded(pending) /\ o \notin C
         /\ \A o : Leads(req[c], "INCRBY revenue", o) =>
              By[o] = c /\ o \in C /\ o \notin V /\ Head(req[c]).arg = 1
<1> DEFINE q == req[c]
           R == Recorded(pending)
<1>1. /\ q \in Seq(Requests) /\ q # <<>>
      /\ Staged(c, q, "LPUSH", R, "INCR orders", C)
      /\ Staged(c, q, "INCR orders", C, "INCRBY revenue", V) /\ Priced(q)
  BY DEF Kept, BooksAt, TypeOK
<1> HIDE DEF q, R
<1>2. Len(q) \in Nat /\ Len(q) > 0 /\ Head(q) = q[1]
  <2>1. q \in Seq(Requests) /\ q # <<>>
    BY <1>1
  <2> QED
    BY <2>1, HeadTailProperties, EmptySeq
<1>3. 1 \in 1..Len(q) /\ \A j \in 1..Len(q) : ~(j < 1)
  BY <1>2
<1>4. ASSUME NEW o, Leads(q, "INCR orders", o)
      PROVE  By[o] = c /\ o \in R /\ o \notin C
  <2>1. q[1].cmd = "INCR orders" /\ q[1].ord = o
    BY <1>2, <1>4 DEF Leads
  <2> QED
    BY <1>1, <1>3, <2>1 DEF Staged
<1>5. ASSUME NEW o, Leads(q, "INCRBY revenue", o)
      PROVE  By[o] = c /\ o \in C /\ o \notin V /\ Head(q).arg = 1
  <2>1. q[1].cmd = "INCRBY revenue" /\ q[1].ord = o
    BY <1>2, <1>5 DEF Leads
  <2>2. By[o] = c /\ o \in C /\ o \notin V
    BY <1>1, <1>3, <2>1 DEF Staged
  <2> QED
    BY <1>1, <1>2, <1>3, <2>1, <2>2 DEF Priced
<1> QED
  BY <1>4, <1>5 DEF q, R

LEMMA ServeKept ==
  ASSUME TypeOK, NEW C, NEW V, Kept(C, V), NEW c \in Clients, NEW C2, NEW V2,
         Serves(c, C, V, C2, V2), Figures(C2, V2, Recorded(pending), daily, revenue)'
  PROVE  Kept(C2, V2)'
<1> DEFINE R == Recorded(pending)
           R2 == Recorded(pending')
<1>1. ASSUME NEW d \in Clients
      PROVE  /\ req[d] \in Seq(Requests)
             /\ Staged(d, req[d], "LPUSH", R, "INCR orders", C)
             /\ Staged(d, req[d], "INCR orders", C, "INCRBY revenue", V) /\ Priced(req[d])
             /\ open[d] => Complete(d, req[d], rep[d], R, C, V, phase)
  BY DEF Kept, BooksAt, TypeOK
<1>2. /\ \A o : Leads(req[c], "INCR orders", o) => By[o] = c
      /\ \A o : Leads(req[c], "INCRBY revenue", o) => By[o] = c
  <2>1. req[c] # <<>>
    BY DEF Serves
  <2> QED
    BY <2>1, LeadingFacts
<1> USE DEF Serves
<1>3. ASSUME NEW d \in Clients, d # c
      PROVE  BooksAt(d, C2, V2, open[d], req'[d], rep'[d], R2, phase')
  <2>1. req'[d] = req[d] /\ rep'[d] = rep[d]
    BY <1>3 DEF TypeOK
  <2>2. /\ \A o \in C2 : o \in C \/ By[o] # d
        /\ \A o \in V2 : o \in V \/ By[o] # d
        /\ \A o \in Orders : By[o] = d => phase'[o] = phase[o]
    BY <1>2, <1>3
  <2>3. R \subseteq R2
    OBVIOUS
  <2> HIDE DEF R, R2
  <2>4. Staged(d, req[d], "LPUSH", R2, "INCR orders", C2)
    BY <1>1, <2>2, <2>3, StagedFrame
  <2>5. Staged(d, req[d], "INCR orders", C2, "INCRBY revenue", V2)
    BY <1>1, <2>2, StagedFrame
  <2>6. ASSUME open[d], NEW o \in Orders, By[o] = d
        PROVE  Located(o, req[d], rep[d], R2, C2, V2, phase')
    <3>1. Located(o, req[d], rep[d], R, C, V, phase) /\ phase'[o] = phase[o]
      BY <1>1, <2>2, <2>6 DEF Complete
    <3> QED
      BY <2>3, <3>1 DEF Located
  <2> QED
    BY <1>1, <2>1, <2>4, <2>5, <2>6 DEF BooksAt, Complete
<1>4. BooksAt(c, C2, V2, open[c], Tail(req[c]), rep'[c], R2, phase')
  <2> DEFINE q == req[c]
  <2>1. /\ q \in Seq(Requests) /\ q # <<>>
        /\ Staged(c, q, "LPUSH", R, "INCR orders", C)
        /\ Staged(c, q, "INCR orders", C, "INCRBY revenue", V) /\ Priced(q)
        /\ open[c] => Complete(c, q, rep[c], R, C, V, phase)
    BY <1>1
  <2>2. /\ \A o : Leads(q, "INCR orders", o) => o \in C2
        /\ \A o \in C2 : o \in C \/ Leads(q, "INCR orders", o)
        /\ \A o \in V2 : o \in V \/ Leads(q, "INCRBY revenue", o)
        /\ \A o : Leads(q, "INCRBY revenue", o) => o \in V2
        /\ R \subseteq R2 /\ \A o : Leads(q, "LPUSH", o) => o \in R2
    OBVIOUS
  <2>3. /\ open[c] => /\ Answered(rep[c]) \subseteq Answered(rep'[c])
                      /\ \A o : Leads(q, "DECR", o) => o \in Answered(rep'[c])
        /\ \A o : Leads(q, "DECR", o) => phase'[o] \in {"granted", "refused"}
        /\ \A o : Leads(q, "INCR", o) => phase'[o] = "restored"
        /\ \A o \in Orders :
             phase'[o] # phase[o] => Leads(q, "DECR", o) \/ Leads(q, "INCR", o)
    OBVIOUS
  <2> HIDE DEF q, R, R2
  <2>4. Staged(c, Tail(q), "LPUSH", R2, "INCR orders", C2)
    BY <2>1, <2>2, StagedTail
  <2>5. Staged(c, Tail(q), "INCR orders", C2, "INCRBY revenue", V2)
    BY <2>1, <2>2, StagedTail
  <2>6. Priced(Tail(q))
    BY <2>1, PricedTail
  <2>7. ASSUME open[c], NEW o \in Orders, By[o] = c
        PROVE  Located(o, Tail(q), rep'[c], R2, C2, V2, phase')
    <3>1. Located(o, q, rep[c], R, C, V, phase)
      BY <2>1, <2>7 DEF Complete
    <3>2. \A cmd \in Commands :
            o \in Of(q, cmd) => o \in Of(Tail(q), cmd) \/ Leads(q, cmd, o)
      BY <2>1, OfTail
    <3>3. CASE Leads(q, "DECR", o)
      BY <2>3, <2>7, <3>3 DEF Located
    <3>4. CASE Leads(q, "INCR", o)
      BY <2>3, <3>4 DEF Located
    <3>5. CASE ~Leads(q, "DECR", o) /\ ~Leads(q, "INCR", o)
      <4>1. phase'[o] = phase[o]
        BY <2>3, <3>5
      <4>2. CASE phase[o] = "placed"
        BY <3>1, <3>2, <3>5, <4>1, <4>2 DEF Located, Commands
      <4>3. CASE phase[o] = "refused"
        BY <2>3, <2>7, <3>1, <3>2, <3>5, <4>1, <4>3 DEF Located, Commands
      <4>4. CASE phase[o] = "granted" /\ o \in Answered(rep[c])
        BY <2>3, <2>7, <4>1, <4>4 DEF Located
      <4>5. CASE phase[o] = "granted" /\ o \notin Answered(rep[c])
        <5>1. o \in Of(Tail(q), "LPUSH") \/ o \in R2
          BY <2>2, <3>1, <3>2, <4>5 DEF Located, Commands
        <5>2. o \in Of(Tail(q), "INCR orders") \/ o \in C2
          BY <2>2, <3>1, <3>2, <4>5 DEF Located, Commands
        <5>3. o \in Of(Tail(q), "INCRBY revenue") \/ o \in V2
          BY <2>2, <3>1, <3>2, <4>5 DEF Located, Commands
        <5> QED
          BY <4>1, <4>5, <5>1, <5>2, <5>3 DEF Located
      <4> QED
        BY <4>1, <4>2, <4>3, <4>4, <4>5 DEF Located
    <3> QED
      BY <3>3, <3>4, <3>5
  <2>8. BooksAt(c, C2, V2, open[c], Tail(q), rep'[c], R2, phase')
    BY <2>4, <2>5, <2>6, <2>7 DEF BooksAt, Complete
  <2> QED
    BY <2>8 DEF q
<1>5. req'[c] = Tail(req[c])
  BY DEF TypeOK
<1>6. \A d \in Clients : BooksAt(d, C2, V2, open[d], req'[d], rep'[d], R2, phase')
  BY <1>3, <1>4, <1>5
<1> QED
  BY <1>6 DEF Kept

\* A command that the books do not count.
LEMMA UncountedKept ==
  ASSUME TypeOK, NEW C, NEW V, Kept(C, V), NEW c \in Clients, NEW cmd, Execute(c, cmd),
         cmd \in {"DECR", "INCR", "ZSCORE", "ZADD"},
         open' = open, pending' = pending, daily' = daily, revenue' = revenue,
         \A d \in Clients : d # c => rep'[d] = rep[d],
         open[c] => /\ Answered(rep[c]) \subseteq Answered(rep'[c])
                    /\ cmd = "DECR" => Head(req[c]).ord \in Answered(rep'[c]),
         cmd = "DECR" => phase'[Head(req[c]).ord] \in {"granted", "refused"},
         cmd = "INCR" => phase'[Head(req[c]).ord] = "restored",
         \A o \in Orders :
           phase'[o] # phase[o] => /\ By[o] = c /\ cmd \in {"DECR", "INCR"}
                                   /\ o = Head(req[c]).ord
  PROVE  Kept(C, V)'
<1>1. req[c] # <<>> /\ Head(req[c]).cmd = cmd /\ req' = [req EXCEPT ![c] = Tail(@)]
  BY DEF Execute
<1>2. Figures(C, V, Recorded(pending), daily, revenue)'
  BY DEF Kept
<1>3. \A x, o : Leads(req[c], x, o) <=> cmd = x /\ o = Head(req[c]).ord
  BY <1>1 DEF Leads
<1>4. /\ \A o : ~Leads(req[c], "INCR orders", o) /\ ~Leads(req[c], "INCRBY revenue", o)
      /\ \A o : ~Leads(req[c], "LPUSH", o)
  BY <1>3, ZenonT(40)
<1>5. Serves(c, C, V, C, V)
  BY <1>1, <1>3, <1>4, ZenonT(40) DEF Serves
<1> QED
  BY <1>2, <1>5, ServeKept

LEMMA ServeDecrKept ==
  ASSUME TypeOK, Flow, NEW C, NEW V, Kept(C, V), NEW c \in Clients, ServeDecr(c)
  PROVE  Kept(C, V)'
<1> DEFINE h == Head(req[c])
<1>1. /\ Execute(c, "DECR") /\ req[c] # <<>> /\ h.cmd = "DECR"
      /\ pending' = pending /\ Answer(c, stock') /\ stock' = stock - 1 /\ open' = open
      /\ daily' = daily /\ revenue' = revenue
      /\ phase' = [phase EXCEPT ![h.ord] = IF stock' >= 0 THEN "granted" ELSE "refused"]
  BY DEF ServeDecr, Execute
<1>2. req[c] \in Seq(Requests) /\ ReqGood(c, req[c], phase) /\ rep[c] \in Seq(Replies)
  BY FlowFacts DEF FlowAt
<1>3. h \in Requests
  BY <1>1, <1>2, HeadTailProperties
<1>4. h.ord \in Orders /\ stock' \in Int
  BY <1>1, <1>3 DEF Requests, TypeOK
<1>5. By[h.ord] = c
  <2>1. h.ord \in Waiting(req[c])
    BY <1>1, <1>2, ReqTail DEF Carries
  <2> QED
    BY <1>2, <2>1, WaitingFacts
<1>6. /\ phase'[h.ord] \in {"granted", "refused"}
      /\ \A o \in Orders : phase'[o] # phase[o] => By[o] = c /\ o = h.ord
  BY <1>1, <1>4, <1>5 DEF TypeOK
<1> DEFINE reply == [cmd |-> h.cmd, ord |-> h.ord, arg |-> h.arg, res |-> stock']
<1>7. reply \in Replies /\ reply.cmd = "DECR" /\ reply.ord = h.ord
  BY <1>1, <1>3, <1>4 DEF Requests, Replies
<1>8. rep' = IF open[c] THEN [rep EXCEPT ![c] = Append(@, reply)] ELSE rep
  BY <1>1, Zenon DEF Answer
<1> HIDE DEF reply, h
<1>9. /\ \A d \in Clients : d # c => rep'[d] = rep[d]
      /\ open[c] => rep'[c] = Append(rep[c], reply)
  BY <1>8 DEF TypeOK
<1>10. open[c] => Answered(rep[c]) \subseteq Answered(rep'[c]) /\ h.ord \in Answered(rep'[c])
  BY <1>2, <1>7, <1>9, AnsweredAppend
<1> QED
  BY <1>1, <1>6, <1>9, <1>10, UncountedKept DEF h

LEMMA ServeIncrKept ==
  ASSUME TypeOK, Flow, NEW C, NEW V, Kept(C, V), NEW c \in Clients, ServeIncr(c)
  PROVE  Kept(C, V)'
<1> DEFINE h == Head(req[c])
<1>1. /\ Execute(c, "INCR") /\ req[c] # <<>> /\ h.cmd = "INCR"
      /\ pending' = pending /\ rep' = rep /\ open' = open
      /\ daily' = daily /\ revenue' = revenue
      /\ phase' = [phase EXCEPT ![h.ord] = "restored"]
  BY DEF ServeIncr, Execute
<1>2. req[c] \in Seq(Requests) /\ ReqGood(c, req[c], phase)
  BY FlowFacts DEF FlowAt
<1>3. h \in Requests
  BY <1>1, <1>2, HeadTailProperties
<1>4. h.ord \in Orders
  BY <1>3 DEF Requests
<1>5. By[h.ord] = c
  <2>1. h.ord \in Waiting(req[c])
    BY <1>1, <1>2, ReqTail DEF Carries
  <2> QED
    BY <1>2, <2>1, WaitingFacts
<1>6. /\ phase'[h.ord] = "restored"
      /\ \A o \in Orders : phase'[o] # phase[o] => By[o] = c /\ o = h.ord
  BY <1>1, <1>4, <1>5 DEF TypeOK
<1> HIDE DEF h
<1> QED
  BY <1>1, <1>6, UncountedKept DEF h

LEMMA ServeZaddKept ==
  ASSUME TypeOK, NEW C, NEW V, Kept(C, V), NEW c \in Clients, ServeZadd(c)
  PROVE  Kept(C, V)'
<1>1. /\ Execute(c, "ZADD") /\ pending' = pending /\ rep' = rep /\ open' = open
      /\ daily' = daily /\ revenue' = revenue /\ phase' = phase
  BY DEF ServeZadd
<1> QED
  BY <1>1, UncountedKept

LEMMA ServeZscoreKept ==
  ASSUME TypeOK, NEW C, NEW V, Kept(C, V), NEW c \in Clients, ServeZscore(c)
  PROVE  Kept(C, V)'
<1> DEFINE h == Head(req[c])
<1>1. /\ Execute(c, "ZSCORE") /\ h.cmd = "ZSCORE" /\ req[c] # <<>> /\ Answer(c, score)
      /\ pending' = pending /\ open' = open /\ daily' = daily /\ revenue' = revenue
      /\ phase' = phase
  BY DEF ServeZscore, Execute, orderVars
<1>2. req[c] \in Seq(Requests) /\ rep[c] \in Seq(Replies) /\ score \in Nat
  BY DEF TypeOK
<1>3. h \in Requests
  BY <1>1, <1>2, HeadTailProperties
<1>4. /\ \A d \in Clients : d # c => rep'[d] = rep[d]
      /\ \/ rep'[c] = rep[c]
         \/ \E m \in Replies : rep'[c] = Append(rep[c], m)
  <2>1. score \in Int
    BY <1>2
  <2> QED
    BY <1>1, <1>2, <1>3, <2>1, AnswerReply
<1>5. Answered(rep[c]) \subseteq Answered(rep'[c])
  BY <1>2, <1>4, AnsweredAppend
<1> QED
  BY <1>1, <1>4, <1>5, UncountedKept

LEMMA ServeLpushKept ==
  ASSUME TypeOK, Flow, NEW C, NEW V, Kept(C, V), NEW c \in Clients, ServeLpush(c)
  PROVE  Kept(C, V)'
<1> DEFINE h == Head(req[c])
           o == h.ord
<1>1. /\ h.cmd = "LPUSH" /\ req[c] # <<>> /\ req' = [req EXCEPT ![c] = Tail(@)]
      /\ pending' = <<o>> \o pending /\ rep' = rep /\ phase' = phase /\ open' = open
      /\ daily' = daily /\ revenue' = revenue
  BY DEF ServeLpush, Execute
<1>2. h \in Requests
  BY <1>1, FlowFacts, HeadTailProperties DEF FlowAt
<1>3. o \in Orders
  BY <1>2 DEF Requests
<1>4. /\ Leads(req[c], "LPUSH", o)
      /\ \A y : Leads(req[c], "LPUSH", y) => y = o
      /\ \A y : ~Leads(req[c], "DECR", y) /\ ~Leads(req[c], "INCR", y)
      /\ \A y : ~Leads(req[c], "INCR orders", y) /\ ~Leads(req[c], "INCRBY revenue", y)
  BY <1>1 DEF Leads
<1> HIDE DEF h, o
<1>5. <<o>> \in Seq(Orders) /\ pending \in Seq(Orders) /\ Len(<<o>>) = 1 /\ <<o>>[1] = o
  BY <1>3 DEF TypeOK
<1>6. /\ Len(pending') = 1 + Len(pending) /\ Len(pending) \in Nat
      /\ pending'[1] = o
      /\ \A i \in 1..Len(pending) : pending'[1 + i] = pending[i]
  <2>1. /\ Len(<<o>> \o pending) = 1 + Len(pending)
        /\ (<<o>> \o pending)[1] = o
        /\ \A i \in 1..Len(pending) : (<<o>> \o pending)[1 + i] = pending[i]
    BY <1>5, ConcatElements
  <2> QED
    BY <1>1, <1>5, <2>1
<1>7. 1 \in 1..Len(pending') /\ \A i \in 1..Len(pending) : 1 + i \in 1..Len(pending')
  BY <1>6
<1>8. Recorded(pending) \subseteq Recorded(pending') /\ o \in Recorded(pending')
  BY <1>6, <1>7 DEF Recorded
<1>9. Serves(c, C, V, C, V)
  BY <1>1, <1>4, <1>8 DEF Serves
<1>10. Figures(C, V, Recorded(pending), daily, revenue)'
  <2>1. Figures(C, V, Recorded(pending), daily, revenue)
    BY DEF Kept
  <2> QED
    BY <1>1, <1>8, <2>1 DEF Figures
<1> QED
  BY <1>9, <1>10, ServeKept

LEMMA ServeDailyKept ==
  ASSUME TypeOK, Flow, NEW C \in SUBSET Orders, NEW V \in SUBSET Orders, Kept(C, V),
         NEW c \in Clients, ServeDailyOrders(c)
  PROVE  \E D \in SUBSET Orders : Kept(D, V)'
<1>1. PICK o : o = Head(req[c]).ord
  OBVIOUS
<1>2. /\ Head(req[c]).cmd = "INCR orders" /\ req[c] # <<>>
      /\ req' = [req EXCEPT ![c] = Tail(@)]
      /\ pending' = pending /\ rep' = rep /\ phase' = phase /\ open' = open
      /\ daily' = daily + 1 /\ revenue' = revenue
  BY DEF ServeDailyOrders, Execute
<1>3. /\ Leads(req[c], "INCR orders", o)
      /\ \A y : Leads(req[c], "INCR orders", y) => y = o
      /\ \A y : ~Leads(req[c], "DECR", y) /\ ~Leads(req[c], "INCR", y)
      /\ \A y : ~Leads(req[c], "LPUSH", y) /\ ~Leads(req[c], "INCRBY revenue", y)
  BY <1>1, <1>2 DEF Leads
<1>4. o \in Recorded(pending) /\ o \notin C
  BY <1>2, <1>3, LeadingFacts
<1>5. o \in Orders
  BY <1>4, FlowFacts
<1> DEFINE D == C \union {o}
<1>6. Serves(c, C, V, D, V)
  BY <1>2, <1>3 DEF Serves
<1>7. Figures(D, V, Recorded(pending), daily, revenue)'
  <2>1. Figures(C, V, Recorded(pending), daily, revenue)
    BY DEF Kept
  <2>2. Cardinality(D) = Cardinality(C) + 1
    BY <1>4, ConstantsAssumption, FS_Subset, FS_AddElement
  <2> QED
    BY <1>2, <1>4, <2>1, <2>2 DEF Figures
<1> HIDE DEF D
<1>8. Kept(D, V)'
  BY <1>6, <1>7, ServeKept
<1> QED
  BY <1>5, <1>8 DEF D

LEMMA ServeRevenueKept ==
  ASSUME TypeOK, Flow, NEW C \in SUBSET Orders, NEW V \in SUBSET Orders, Kept(C, V),
         NEW c \in Clients, ServeRevenue(c)
  PROVE  \E W \in SUBSET Orders : Kept(C, W)'
<1>1. PICK o : o = Head(req[c]).ord
  OBVIOUS
<1>2. /\ Head(req[c]).cmd = "INCRBY revenue" /\ req[c] # <<>>
      /\ req' = [req EXCEPT ![c] = Tail(@)]
      /\ pending' = pending /\ rep' = rep /\ phase' = phase /\ open' = open
      /\ daily' = daily /\ revenue' = revenue + Head(req[c]).arg
  BY DEF ServeRevenue, Execute
<1>3. /\ Leads(req[c], "INCRBY revenue", o)
      /\ \A y : Leads(req[c], "INCRBY revenue", y) => y = o
      /\ \A y : ~Leads(req[c], "DECR", y) /\ ~Leads(req[c], "INCR", y)
      /\ \A y : ~Leads(req[c], "LPUSH", y) /\ ~Leads(req[c], "INCR orders", y)
  BY <1>1, <1>2 DEF Leads
<1>4. o \in C /\ o \notin V /\ Head(req[c]).arg = 1
  BY <1>2, <1>3, LeadingFacts
<1> DEFINE W == V \union {o}
<1>5. Serves(c, C, V, C, W)
  BY <1>2, <1>3 DEF Serves
<1>6. Figures(C, W, Recorded(pending), daily, revenue)'
  <2>1. Figures(C, V, Recorded(pending), daily, revenue)
    BY DEF Kept
  <2>2. Cardinality(W) = Cardinality(V) + 1
    BY <1>4, ConstantsAssumption, FS_Subset, FS_AddElement
  <2> QED
    BY <1>2, <1>4, <2>1, <2>2 DEF Figures
<1> HIDE DEF W
<1>7. Kept(C, W)'
  BY <1>5, <1>6, ServeKept
<1> QED
  BY <1>4, <1>7 DEF W

-----------------------------------------------------------------------------
LEMMA BooksInit == Init => Books
<1> SUFFICES ASSUME Init PROVE Books
  OBVIOUS
<1>1. /\ \A c \in Clients : req[c] = <<>> /\ rep[c] = <<>>
      /\ \A o \in Orders : phase[o] = "idle"
      /\ pending = <<>> /\ daily = 0 /\ revenue = 0
  BY DEF Init
<1>2. Figures({}, {}, Recorded(pending), daily, revenue)
  BY <1>1, FS_EmptySet DEF Figures
<1>3. ASSUME NEW c \in Clients
      PROVE  BooksAt(c, {}, {}, open[c], req[c], rep[c], Recorded(pending), phase)
  <2>1. /\ Staged(c, req[c], "LPUSH", Recorded(pending), "INCR orders", {})
        /\ Staged(c, req[c], "INCR orders", {}, "INCRBY revenue", {})
        /\ Priced(req[c])
    <3>1. Len(req[c]) = 0
      BY <1>1
    <3>2. \A i : i \notin 1..Len(req[c])
      BY <3>1
    <3> QED
      BY <3>2 DEF Staged, Priced
  <2>2. Complete(c, req[c], rep[c], Recorded(pending), {}, {}, phase)
    BY <1>1 DEF Complete, Located
  <2> QED
    BY <2>1, <2>2 DEF BooksAt
<1>4. Kept({}, {})
  BY <1>2, <1>3 DEF Kept
<1> QED
  BY <1>4 DEF Books

LEMMA BooksStep == TypeOK /\ Flow /\ Books /\ [Next]_vars => Books'
<1> SUFFICES ASSUME TypeOK, Flow, [Next]_vars,
                    NEW C \in SUBSET Orders, NEW V \in SUBSET Orders, Kept(C, V)
             PROVE  \E D, W \in SUBSET Orders : Kept(D, W)'
  BY DEF Books
<1>1. CASE UNCHANGED vars
  BY <1>1 DEF vars, orderVars, Kept
<1>2. ASSUME NEW o \in Orders, ExecuteOrder(o) PROVE Kept(C, V)'
  BY <1>2, ExecuteOrderKept
<1>3. ASSUME NEW c \in Clients, OnBatchStressTest(c) PROVE Kept(C, V)'
  BY <1>3, BatchKept
<1>4. ASSUME NEW c \in Clients, Callback(c) PROVE Kept(C, V)'
  BY <1>4, OnDecrKept, OnZscoreKept DEF Callback
<1>5. ASSUME NEW c \in Clients, Disconnect(c) PROVE Kept(C, V)'
  BY <1>5, DisconnectKept
<1>6. ASSUME NEW c \in Clients, Serve(c)
      PROVE  \E D, W \in SUBSET Orders : Kept(D, W)'
  <2>1. CASE ServeDecr(c)
    BY <2>1, ServeDecrKept
  <2>2. CASE ServeIncr(c)
    BY <2>2, ServeIncrKept
  <2>3. CASE ServeLpush(c)
    BY <2>3, ServeLpushKept
  <2>4. CASE ServeDailyOrders(c)
    BY <2>4, ServeDailyKept
  <2>5. CASE ServeRevenue(c)
    BY <2>5, ServeRevenueKept
  <2>6. CASE ServeZscore(c)
    BY <2>6, ServeZscoreKept
  <2>7. CASE ServeZadd(c)
    BY <2>7, ServeZaddKept
  <2> QED
    BY <1>6, <2>1, <2>2, <2>3, <2>4, <2>5, <2>6, <2>7 DEF Serve
<1> QED
  BY <1>1, <1>2, <1>3, <1>4, <1>5, <1>6 DEF Next

\* The inductive invariant of FlashSale_proofs, and the books with it.
LEMMA BooksInductive == Spec => [](TypeOK /\ Flow /\ Ledgers /\ Books)
<1>1. TypeOK /\ Flow /\ Books /\ [Next]_vars => Books'
  BY BooksStep
<1> QED
  BY <1>1, BooksInit, Inductive, PTL DEF Spec

\* The list of orders has as many entries as there are orders in it.
LEMMA RecordedCount ==
  ASSUME TypeOK, Flow
  PROVE  /\ IsFiniteSet(Recorded(pending))
         /\ Cardinality(Recorded(pending)) = Len(pending)
<1> DEFINE n == Len(pending)
           R == Recorded(pending)
<1>1. pending \in Seq(Orders) /\ n \in Nat
  BY DEF TypeOK
<1>2. IsFiniteSet(1..n) /\ Cardinality(1..n) = n
  <2>1. 1 \in Int /\ n \in Int
    BY <1>1
  <2> HIDE DEF n
  <2>2. IsFiniteSet(1..n) /\ Cardinality(1..n) = IF 1 > n THEN 0 ELSE n - 1 + 1
    BY <2>1, FS_Interval
  <2> QED
    BY <1>1, <2>2
<1>3. pending \in [1..n -> R]
  <2>1. pending = [i \in 1..n |-> pending[i]]
    BY <1>1
  <2>2. \A i \in 1..n : pending[i] \in R
    BY DEF Recorded
  <2> QED
    BY <2>1, <2>2
<1>4. \A i, j \in 1..n : pending[i] = pending[j] => i = j
  BY DEF Flow, PendingGood
<1>5. \A o \in R : \E i \in 1..n : pending[i] = o
  BY DEF Recorded
<1> HIDE DEF n, R
<1>6. DOMAIN pending = 1..n
  BY <1>3
<1>7. pending \in Injection(1..n, R) /\ pending \in Surjection(1..n, R)
  BY <1>3, <1>4, <1>5, <1>6 DEF Injection, IsInjective, Surjection
<1>8. IsFiniteSet(R) /\ Cardinality(R) = Cardinality(1..n)
  BY <1>2, <1>7, FS_Surjection
<1> QED
  BY <1>2, <1>8 DEF n, R

\* An order is recorded once and only if it got an item, and the daily figures
\* of executeOrder never run ahead of the list, whatever is lost on the way.
THEOREM FiguresTrail == Spec => []StatsTrailOrders
<1>1. TypeOK /\ Flow /\ Books => StatsTrailOrders
  <2> SUFFICES ASSUME TypeOK, Flow, NEW C, NEW V, Kept(C, V) PROVE StatsTrailOrders
    BY DEF Books
  <2>1. DOMAIN pending = 1..Len(pending)
    BY DEF TypeOK
  <2>2. PendingGood(pending, phase)
    BY DEF Flow
  <2>3. /\ Cardinality(C) = daily /\ Cardinality(V) = revenue
        /\ C \subseteq Recorded(pending) /\ V \subseteq C
    BY DEF Kept, Figures
  <2>4. IsFiniteSet(Recorded(pending)) /\ Cardinality(Recorded(pending)) = Len(pending)
    BY RecordedCount
  <2>5. IsFiniteSet(C) /\ daily <= Len(pending)
    BY <2>3, <2>4, FS_Subset
  <2>6. revenue <= daily
    BY <2>3, <2>5, FS_Subset
  <2> QED
    BY <2>1, <2>2, <2>5, <2>6 DEF StatsTrailOrders, PendingGood
<1> QED
  BY <1>1, BooksInductive, PTL

\* With every connection up and nothing in flight, each item is in the counter
\* or in a recorded order, and each recorded order is in both daily figures.
THEOREM BooksAreBalanced == Spec => []BooksBalance
<1>1. TypeOK /\ Flow /\ Ledgers /\ Books => BooksBalance
  <2> SUFFICES ASSUME TypeOK, Flow, Ledgers, NEW C, NEW V, Kept(C, V), Quiet
               PROVE  /\ stock + Len(pending) = Stock0 /\ stock >= 0
                      /\ daily = Len(pending) /\ revenue = Len(pending)
    BY DEF Books, BooksBalance
  <2> DEFINE R == Recorded(pending)
  <2>1. \A c \in Clients : open[c] /\ req[c] = <<>> /\ rep[c] = <<>>
    BY DEF Quiet
  <2>2. ASSUME NEW o \in Orders
        PROVE  /\ phase[o] # "refused"
               /\ phase[o] = "granted" => o \in R /\ o \in C /\ o \in V
    <3>1. By[o] \in Clients
      BY OrderClient
    <3>2. open[By[o]] /\ req[By[o]] = <<>> /\ rep[By[o]] = <<>>
      BY <2>1, <3>1
    <3>3. Located(o, <<>>, <<>>, R, C, V, phase)
      BY <3>1, <3>2 DEF Kept, BooksAt, Complete
    <3>4. Answered(<<>>) = {} /\ \A cmd : Of(<<>>, cmd) = {}
      BY DEF Answered, Of
    <3> QED
      BY <3>3, <3>4 DEF Located
  <2>3. /\ Cardinality(C) = daily /\ Cardinality(V) = revenue /\ C \subseteq R /\ V \subseteq C
    BY DEF Kept, Figures
  <2>4. \A o \in R : o \in Orders /\ phase[o] = "granted"
    BY FlowFacts
  <2>5. IsFiniteSet(R) /\ Cardinality(R) = Len(pending)
    BY RecordedCount
  <2> HIDE DEF R
  <2>6. C = R /\ V = R /\ In("granted") = R /\ In("refused") = {}
    BY <2>2, <2>3, <2>4 DEF In
  <2>7. /\ stock = Stock0 - Cardinality(R) - 0
        /\ Cardinality(R) <= Stock0
    BY <2>6, FS_EmptySet DEF Ledgers, CounterIsLedger, Bounded
  <2>8. Cardinality(R) \in Nat /\ Stock0 \in Nat
    BY <2>5, FS_CardinalityType, ConstantsAssumption
  <2> QED
    BY <2>3, <2>5, <2>6, <2>7, <2>8
<1> QED
  BY <1>1, BooksInductive, PTL

=============================================================================
