------------------------- MODULE FlashAdmin_proofs -------------------------
(***************************************************************************)
(* Proofs about FlashAdmin for any number of desktops and orders, any      *)
(* stocks and any size of a stress test: the ledger of the counter, that   *)
(* it is oversold by late rollbacks only, that a missing counter is        *)
(* created again, that the order queue counts the orders, and that no      *)
(* stress test is left waiting for nothing.                                *)
(***************************************************************************)
EXTENDS FlashAdmin, FiniteSetTheorems, SequenceTheorems, TLAPS

-----------------------------------------------------------------------------
(* The types of what is stored and sent.                                   *)

Fields == {"sale", "stock", "price", "cap", "counter"}
Stored == Nat \union {None}

\* Requests that no order waits for; Puts never write a negative stock or counter.
Puts == {p \in UNION {[F -> Int \union {None}] : F \in SUBSET Fields} :
           \A f \in {"stock", "counter"} \intersect DOMAIN p : p[f] \in Stored}
Reads ==
  [cmd : {"read"}, field : {"stock"}, n : Nat,
   then : {"seed", "list", "adjust", "enable", "add", "detail"}]
    \union [cmd : {"read"}, field : {"price"}, then : {"price"}, n : Nat]
    \union [cmd : {"read"}, field : {"counter"}, then : {"sync", "ensure", "stock"}, n : Nat]
    \union [cmd : {"read"}, field : {"cap"}, then : {"capacity"}, n : Int]
    \union [cmd : {"read"}, field : {"sale"}, then : {"sales", "title"}, n : Nat]
    \union [cmd : {"read"}, field : {"astray"}, then : {"stock"}, n : Nat]
Writes == [cmd : {"write"}, put : Puts, then : {"-", "adjusted"}, n : Nat]
Lpushes == [cmd : {"LPUSH"}, item : Orders \union {Mark}]
Calm == Reads \union Writes \union {Ping}
Plain == Calm \union Lpushes \union {Lpop}

Decrs == [cmd : {"DECR"}, ord : Orders, then : {"order", "test"}]
Incrs == [cmd : {"INCR"}, ord : Orders]
Requests == Plain \union Decrs \union Incrs

Answers ==
  [then : {"seed", "list", "adjust", "enable", "add", "detail"}, n : Nat, val : Stored]
    \union [then : {"price", "sync", "ensure", "stock", "adjusted", "seeded", "sales", "title"},
            n : Nat, val : Int \union {None}]
    \union [then : {"capacity"}, n : Int, val : Int \union {None}]
Outcomes == [then : {"order", "test"}, ord : Orders, val : Int]
Replies == Answers \union Outcomes

TypeStore ==
  /\ db \in [Fields -> Int \union {None}]
  /\ db.stock \in Stored
  /\ setTo \in Nat
  /\ phase \in [Orders -> Phases]

TypeQueues ==
  /\ req \in [Desktops -> Seq(Requests)]
  /\ rep \in [Desktops -> Seq(Replies)]

-----------------------------------------------------------------------------
(* Debts: a decrement, a negative reply or a rollback under way.  Every    *)
(* order has at most one, at one desktop, and its phase says which.        *)

Refusals == [then : {"order", "test"}, ord : Orders, val : {v \in Int : v < 0}]
Debts == Decrs \union Incrs \union Refusals
Expected(m) == IF m \in Decrs THEN {"placed", "astray"} ELSE {"refused", "stale", "astray"}

Waiting(q) == {q[i].ord : i \in {j \in 1..Len(q) : q[j] \in Debts}}

Good(by, d, q, ph) ==
  /\ \A i \in 1..Len(q) :
       q[i] \in Debts => by[q[i].ord] = d /\ ph[q[i].ord] \in Expected(q[i])
  /\ \A i, j \in 1..Len(q) :
       i # j /\ q[i] \in Debts /\ q[j] \in Debts => q[i].ord # q[j].ord

FlowBy(by) ==
  \A d \in Desktops :
    /\ Good(by, d, req[d], phase) /\ Good(by, d, rep[d], phase)
    /\ Waiting(req[d]) \intersect Waiting(rep[d]) = {}

\* Each order's desktop; an order not yet placed may have none.
Owners == [Orders -> Desktops \union {None}]

Flow == \E by \in Owners : FlowBy(by)

IInv == TypeStore /\ TypeQueues /\ Flow /\ CounterIsLedger /\ OversoldByLateOnly

LEMMA PlainNoDebt ==
  /\ \A m \in Plain : m \notin Debts
  /\ \A m \in Answers : m \notin Debts
  /\ \A m \in Outcomes : m.val >= 0 => m \notin Debts
<1>1. ASSUME NEW m \in Plain PROVE m \notin Debts
  <2>1. CASE m \in Reads
    BY <2>1 DEF Reads, Debts, Decrs, Incrs, Refusals
  <2>2. CASE m \in Writes
    BY <2>2 DEF Writes, Debts, Decrs, Incrs, Refusals
  <2>3. CASE m \in Lpushes
    BY <2>3 DEF Lpushes, Debts, Decrs, Incrs, Refusals
  <2>4. CASE m \in {Lpop, Ping}
    BY <2>4 DEF Lpop, Ping, Debts, Decrs, Incrs, Refusals
  <2> QED
    BY <2>1, <2>2, <2>3, <2>4 DEF Plain, Calm
<1>2. ASSUME NEW m \in Answers PROVE m \notin Debts
  BY DEF Answers, Debts, Decrs, Incrs, Refusals
<1>3. ASSUME NEW m \in Outcomes, m.val >= 0 PROVE m \notin Debts
  BY <1>3 DEF Outcomes, Debts, Decrs, Incrs, Refusals
<1> QED
  BY <1>1, <1>2, <1>3

LEMMA PutTypes ==
  /\ \A n \in Stored : [stock |-> n] \in Puts /\ [counter |-> n] \in Puts
  /\ \A n \in Int \union {None} : [cap |-> n] \in Puts
  /\ [sale |-> 1] \in Puts
  /\ \A k, n \in Int \union {None} : [price |-> k, cap |-> n] \in Puts
<1>1. ASSUME NEW n \in Stored PROVE [stock |-> n] \in Puts
  BY DEF Puts, Stored, Fields
<1>2. ASSUME NEW n \in Stored PROVE [counter |-> n] \in Puts
  BY DEF Puts, Stored, Fields
<1>3. ASSUME NEW n \in Int \union {None} PROVE [cap |-> n] \in Puts
  BY DEF Puts, Stored, Fields
<1>4. ASSUME NEW k \in Int \union {None}, NEW n \in Int \union {None}
      PROVE  [price |-> k, cap |-> n] \in Puts
  BY DEF Puts, Stored, Fields
<1>5. [sale |-> 1] \in Puts
  BY DEF Puts, Stored, Fields
<1> QED
  BY <1>1, <1>2, <1>3, <1>4, <1>5

-----------------------------------------------------------------------------
(* Queues, for requests and replies alike.                                 *)

LEMMA DebtFacts ==
  \A m \in Debts : m.ord \in Orders /\ Expected(m) \subseteq {"placed", "refused", "stale", "astray"}
  BY DEF Debts, Decrs, Incrs, Refusals, Expected

\* The order of a debt belongs to the desktop, in the phase expected.
LEMMA WaitingFacts ==
  ASSUME NEW S, NEW q \in Seq(S), NEW by, NEW d, NEW ph, Good(by, d, q, ph)
  PROVE  \A o \in Waiting(q) : /\ o \in Orders /\ by[o] = d
                               /\ ph[o] \in {"placed", "refused", "stale", "astray"}
<1> TAKE o \in Waiting(q)
<1>1. PICK i \in 1..Len(q) : q[i] \in Debts /\ o = q[i].ord
  BY DEF Waiting
<1>2. by[o] = d /\ ph[o] \in Expected(q[i])
  BY <1>1 DEF Good
<1> QED
  BY <1>1, <1>2, DebtFacts

\* Phases and owners may change elsewhere.
LEMMA GoodFrame ==
  ASSUME NEW by, NEW by2, NEW d, NEW q, NEW ph, NEW ph2, Good(by, d, q, ph),
         \A o \in Waiting(q) : by2[o] = by[o] /\ ph2[o] = ph[o]
  PROVE  Good(by2, d, q, ph2)
<1>1. \A i \in 1..Len(q) : q[i] \in Debts => q[i].ord \in Waiting(q)
  BY DEF Waiting
<1> QED
  BY <1>1 DEF Good

LEMMA GoodPhases ==
  ASSUME NEW by, NEW d, NEW q, NEW ph, NEW ph2, Good(by, d, q, ph),
         \A o \in Waiting(q) : ph2[o] = ph[o]
  PROVE  Good(by, d, q, ph2)
<1>1. \A i \in 1..Len(q) : q[i] \in Debts => q[i].ord \in Waiting(q)
  BY DEF Waiting
<1> QED
  BY <1>1 DEF Good

\* A counter written turns refused orders into stale ones.
LEMMA GoodRenewed ==
  ASSUME NEW S, NEW q \in Seq(S), NEW by, NEW d, NEW ph, NEW ph2, Good(by, d, q, ph),
         \A o \in Orders : ph2[o] = Renew(ph[o])
  PROVE  Good(by, d, q, ph2)
<1>1. ASSUME NEW i \in 1..Len(q), q[i] \in Debts
      PROVE  by[q[i].ord] = d /\ ph2[q[i].ord] \in Expected(q[i])
  <2>1. by[q[i].ord] = d /\ ph[q[i].ord] \in Expected(q[i]) /\ q[i].ord \in Orders
    BY <1>1, DebtFacts DEF Good
  <2>2. ph2[q[i].ord] = Renew(ph[q[i].ord])
    BY <2>1
  <2> QED
    BY <2>1, <2>2 DEF Expected, Renew
<1> QED
  BY <1>1 DEF Good

\* The oldest message leaves its queue.
LEMMA GoodTail ==
  ASSUME NEW S, NEW q \in Seq(S), q # <<>>, NEW by, NEW d, NEW ph, Good(by, d, q, ph)
  PROVE  /\ Good(by, d, Tail(q), ph)
         /\ Waiting(Tail(q)) \subseteq Waiting(q)
         /\ Head(q) \in Debts => /\ Head(q).ord \in Waiting(q)
                                 /\ Head(q).ord \notin Waiting(Tail(q))
                                 /\ ph[Head(q).ord] \in Expected(Head(q))
                                 /\ by[Head(q).ord] = d
<1>1. /\ Len(q) \in Nat /\ Len(q) > 0 /\ Len(Tail(q)) = Len(q) - 1 /\ Head(q) = q[1]
      /\ \A i \in 1..Len(Tail(q)) : Tail(q)[i] = q[i + 1]
  BY HeadTailProperties, EmptySeq
<1>2. \A i \in 1..Len(Tail(q)) : i + 1 \in 1..Len(q) /\ i + 1 # 1
  BY <1>1
<1>3. 1 \in 1..Len(q)
  BY <1>1
<1>4. \A i, j \in 1..Len(Tail(q)) : i # j => i + 1 # j + 1
  BY <1>1
<1>5. Good(by, d, Tail(q), ph)
  BY <1>1, <1>2, <1>4 DEF Good
<1>6. Waiting(Tail(q)) \subseteq Waiting(q)
  <2> SUFFICES ASSUME NEW o \in Waiting(Tail(q)) PROVE o \in Waiting(q)
    OBVIOUS
  <2>1. PICK i \in 1..Len(Tail(q)) : Tail(q)[i] \in Debts /\ o = Tail(q)[i].ord
    BY DEF Waiting
  <2> QED
    BY <1>1, <1>2, <2>1 DEF Waiting
<1>7. ASSUME Head(q) \in Debts
      PROVE  /\ Head(q).ord \in Waiting(q)
             /\ Head(q).ord \notin Waiting(Tail(q))
             /\ ph[Head(q).ord] \in Expected(Head(q))
             /\ by[Head(q).ord] = d
  <2>1. /\ Head(q).ord \in Waiting(q)
        /\ ph[Head(q).ord] \in Expected(Head(q)) /\ by[Head(q).ord] = d
    BY <1>1, <1>3, <1>7 DEF Waiting, Good
  <2>2. ASSUME Head(q).ord \in Waiting(Tail(q)) PROVE FALSE
    <3>1. PICK i \in 1..Len(Tail(q)) : Tail(q)[i] \in Debts /\ Head(q).ord = Tail(q)[i].ord
      BY <2>2 DEF Waiting
    <3> QED
      BY <1>1, <1>2, <1>3, <1>7, <3>1 DEF Good
  <2> QED
    BY <2>1, <2>2
<1> QED
  BY <1>5, <1>6, <1>7

\* A closed connection leaves a prefix of its requests.
LEMMA GoodPrefix ==
  ASSUME NEW S, NEW q \in Seq(S), NEW n \in 0..Len(q), NEW by, NEW d, NEW ph,
         Good(by, d, q, ph)
  PROVE  Good(by, d, SubSeq(q, 1, n), ph)
<1>1. Len(q) \in Nat /\ n \in Nat /\ n <= Len(q)
  OBVIOUS
<1> DEFINE s == SubSeq(q, 1, n)
<1>2. \A i \in 1..Len(s) : s[i] = q[i] /\ i \in 1..Len(q)
  BY <1>1
<1> HIDE DEF s
<1>3. Good(by, d, s, ph)
  BY <1>2 DEF Good
<1> QED
  BY <1>3 DEF s

\* Messages join a queue, about other orders than those in it.
LEMMA GoodConcat ==
  ASSUME NEW S, NEW q \in Seq(S), NEW t \in Seq(S), NEW by, NEW d, NEW ph,
         Good(by, d, q, ph), Good(by, d, t, ph), Waiting(q) \intersect Waiting(t) = {}
  PROVE  /\ Good(by, d, q \o t, ph)
         /\ Waiting(q \o t) \subseteq Waiting(q) \union Waiting(t)
<1> DEFINE s == q \o t
           Old(i) == i \in 1..Len(q) /\ s[i] = q[i]
           New(i, k) == k \in 1..Len(t) /\ i = Len(q) + k /\ s[i] = t[k]
<1>1. \A i \in 1..Len(s) : Old(i) \/ \E k \in 1..Len(t) : New(i, k)
  <2>1. /\ Len(q) \in Nat /\ Len(t) \in Nat /\ Len(s) = Len(q) + Len(t)
        /\ \A i \in 1..(Len(q) + Len(t)) :
             s[i] = IF i <= Len(q) THEN q[i] ELSE t[i - Len(q)]
    BY ConcatProperties
  <2> HIDE DEF s
  <2> TAKE i \in 1..Len(s)
  <2>2. CASE i <= Len(q)
    BY <2>1, <2>2
  <2>3. CASE ~(i <= Len(q))
    <3>1. i - Len(q) \in 1..Len(t) /\ i = Len(q) + (i - Len(q)) /\ s[i] = t[i - Len(q)]
      BY <2>1, <2>3
    <3> QED
      BY <3>1
  <2> QED
    BY <2>2, <2>3
<1> HIDE DEF s
<1>2. /\ \A i \in 1..Len(q) : q[i] \in Debts => q[i].ord \in Waiting(q)
      /\ \A i \in 1..Len(t) : t[i] \in Debts => t[i].ord \in Waiting(t)
  BY DEF Waiting
<1>3. ASSUME NEW i \in 1..Len(s), s[i] \in Debts
      PROVE  /\ by[s[i].ord] = d /\ ph[s[i].ord] \in Expected(s[i])
             /\ s[i].ord \in Waiting(q) \union Waiting(t)
  <2>1. CASE Old(i)
    BY <1>2, <1>3, <2>1 DEF Good
  <2>2. ASSUME NEW k \in 1..Len(t), New(i, k)
        PROVE  /\ by[s[i].ord] = d /\ ph[s[i].ord] \in Expected(s[i])
               /\ s[i].ord \in Waiting(q) \union Waiting(t)
    BY <1>2, <1>3, <2>2 DEF Good
  <2> HIDE DEF Old, New
  <2> QED
    BY <1>1, <2>1, <2>2
<1>4. ASSUME NEW i \in 1..Len(s), NEW j \in 1..Len(s), i # j, s[i] \in Debts, s[j] \in Debts
      PROVE  s[i].ord # s[j].ord
  <2>1. CASE Old(i) /\ Old(j)
    BY <1>4, <2>1 DEF Good
  <2>2. ASSUME Old(i), NEW k \in 1..Len(t), New(j, k)
        PROVE  s[i].ord # s[j].ord
    <3>1. s[i].ord \in Waiting(q) /\ s[j].ord \in Waiting(t)
      BY <1>2, <1>4, <2>2
    <3> QED
      BY <3>1
  <2>3. ASSUME Old(j), NEW k \in 1..Len(t), New(i, k)
        PROVE  s[i].ord # s[j].ord
    <3>1. s[j].ord \in Waiting(q) /\ s[i].ord \in Waiting(t)
      BY <1>2, <1>4, <2>3
    <3> QED
      BY <3>1
  <2>4. ASSUME NEW k \in 1..Len(t), NEW l \in 1..Len(t), New(i, k), New(j, l)
        PROVE  s[i].ord # s[j].ord
    <3>1. k # l
      BY <1>4, <2>4
    <3> QED
      BY <1>4, <2>4, <3>1 DEF Good
  <2> HIDE DEF Old, New
  <2> QED
    BY <1>1, <2>1, <2>2, <2>3, <2>4
<1>5. Waiting(s) \subseteq Waiting(q) \union Waiting(t)
  BY <1>3 DEF Waiting
<1>6. Good(by, d, s, ph)
  BY <1>3, <1>4 DEF Good
<1> QED
  BY <1>5, <1>6 DEF s

\* Messages without a debt, and with one.
LEMMA GoodNone ==
  ASSUME NEW S, NEW t \in Seq(S), \A m \in S : m \notin Debts, NEW by, NEW d, NEW ph
  PROVE  Good(by, d, t, ph) /\ Waiting(t) = {}
<1>1. \A i \in 1..Len(t) : t[i] \notin Debts
  <2> TAKE i \in 1..Len(t)
  <2>1. t[i] \in S
    BY ElementOfSeq
  <2> QED
    BY <2>1
<1> QED
  BY <1>1 DEF Good, Waiting

LEMMA GoodOne ==
  ASSUME NEW m, NEW by, NEW d, NEW ph,
         m \in Debts => by[m.ord] = d /\ ph[m.ord] \in Expected(m)
  PROVE  /\ Good(by, d, <<m>>, ph)
         /\ Waiting(<<m>>) = IF m \in Debts THEN {m.ord} ELSE {}
<1> DEFINE t == <<m>>
<1>1. Len(t) = 1 /\ t[1] = m
  OBVIOUS
<1> HIDE DEF t
<1>2. \A i \in 1..Len(t) : i = 1
  BY <1>1
<1>3. Good(by, d, t, ph)
  BY <1>1, <1>2 DEF Good
<1>4. Waiting(t) = IF m \in Debts THEN {m.ord} ELSE {}
  BY <1>1, <1>2 DEF Waiting
<1> QED
  BY <1>3, <1>4 DEF t
-----------------------------------------------------------------------------
(* The messages the desktop sends and the replies it gets.                 *)

Stocked == {"seed", "list", "adjust", "enable", "add", "detail"}

LEMMA ReadTypes ==
  /\ \A t \in Stocked, n \in Nat : Read("stock", t, n) \in Calm
  /\ \A n \in Nat : Read("price", "price", n) \in Calm
  /\ \A t \in {"sync", "ensure", "stock"}, n \in Nat : Read("counter", t, n) \in Calm
  /\ \A n \in Int : Read("cap", "capacity", n) \in Calm
  /\ \A t \in {"sales", "title"} : Read("sale", t, 0) \in Calm
  /\ Read("astray", "stock", 0) \in Calm
<1>1. \A t \in Stocked, n \in Nat : Read("stock", t, n) \in Reads
  BY DEF Read, Reads, Stocked
<1>2. \A n \in Nat : Read("price", "price", n) \in Reads
  BY DEF Read, Reads
<1>3. \A t \in {"sync", "ensure", "stock"}, n \in Nat : Read("counter", t, n) \in Reads
  BY DEF Read, Reads
<1>4. \A n \in Int : Read("cap", "capacity", n) \in Reads
  BY DEF Read, Reads
<1>5. /\ \A t \in {"sales", "title"} : Read("sale", t, 0) \in Reads
      /\ Read("astray", "stock", 0) \in Reads
  BY DEF Read, Reads
<1> QED
  BY <1>1, <1>2, <1>3, <1>4, <1>5, Zenon DEF Calm

LEMMA WriteTypes ==
  /\ \A p \in Puts : Write(p) \in Calm
  /\ \A p \in Puts, n \in Nat : WriteThen(p, "adjusted", n) \in Calm
  /\ \A x \in Orders \union {Mark} : Lpush(x) \in Lpushes
  /\ Ping \in Calm
<1>1. \A p \in Puts : Write(p) \in Writes
  BY DEF Write, WriteThen, Writes
<1>2. \A p \in Puts, n \in Nat : WriteThen(p, "adjusted", n) \in Writes
  BY DEF WriteThen, Writes
<1>3. \A x \in Orders \union {Mark} : Lpush(x) \in Lpushes
  BY DEF Lpush, Lpushes
<1> QED
  BY <1>1, <1>2, <1>3, Zenon DEF Calm

LEMMA LoadType == Load \in Seq(Calm) /\ \A d, sh : Update(d, sh) \in Seq(Calm)
<1>1. Load \in Seq(Calm)
  <2>1. Read("sale", "sales", 0) \in Calm
    BY ReadTypes
  <2> QED
    BY <2>1 DEF Load
<1>2. \A d, sh : Update(d, sh) \in Seq(Calm)
  <2>1. Read("counter", "stock", 0) \in Calm /\ Read("astray", "stock", 0) \in Calm
    BY ReadTypes
  <2>2. \A d : Read(Counter(d), "stock", 0) \in Calm
    BY <2>1 DEF Counter
  <2> QED
    BY <2>2 DEF Update
<1> QED
  BY <1>1, <1>2

LEMMA SeedType == Seed \in Seq(Plain)
<1>1. /\ Stock0 \in Stored /\ Flash0 \in Stored /\ Flash0 \in Int \union {None}
      /\ 1 \in Int \union {None}
  BY ConstantsAssumption DEF Stored
<1>2. /\ [stock |-> Stock0] \in Puts /\ [counter |-> Flash0] \in Puts
      /\ [price |-> 1, cap |-> Flash0] \in Puts /\ [sale |-> 1] \in Puts
  BY <1>1, PutTypes
<1>3. /\ Write([sale |-> 1]) \in Calm
      /\ Write([stock |-> Stock0]) \in Calm /\ Write([price |-> 1, cap |-> Flash0]) \in Calm
      /\ Write([counter |-> Flash0]) \in Calm /\ Lpush(Mark) \in Lpushes /\ Ping \in Calm
  BY <1>2, WriteTypes
<1>4. /\ Write([sale |-> 1]) \in Plain
      /\ Write([stock |-> Stock0]) \in Plain /\ Write([price |-> 1, cap |-> Flash0]) \in Plain
      /\ Write([counter |-> Flash0]) \in Plain /\ Lpush(Mark) \in Plain
      /\ Lpop \in Plain /\ Ping \in Plain
  BY <1>3 DEF Plain
<1> QED
  BY <1>4 DEF Seed

LEMMA ReplyFacts ==
  ASSUME NEW m \in Replies
  PROVE  /\ m.then \in {"order", "test"} => m \in Outcomes
         /\ m.then \notin {"order", "test"} => m \in Answers
         /\ m.then \in Stocked => m.val \in Stored /\ m.n \in Nat
         /\ m.then \in {"price", "sync", "ensure", "stock", "adjusted"} =>
              m.val \in Int \union {None} /\ m.n \in Nat
         /\ m.then = "capacity" => m.n \in Int
  BY DEF Replies, Answers, Outcomes, Stocked

-----------------------------------------------------------------------------
(* What a step does to the queues, by its shape.                           *)

Kept == UNCHANGED <<db, setTo, phase>>
Sent(d, msgs) == req' \in {req, [req EXCEPT ![d] = @ \o msgs]}
Taken(d) == rep[d] # <<>> /\ rep' = [rep EXCEPT ![d] = Tail(@)]

\* A step that moves no debt.
Quiet(d) ==
  \E msgs \in Seq(Plain) :
    /\ Sent(d, msgs) /\ Kept
    /\ rep' = rep \/ (Taken(d) /\ Head(rep[d]) \notin Debts)

\* It sends neither a record of an order nor the placeholder, nor takes an outcome.
Calmly(d) ==
  \E msgs \in Seq(Calm) :
    /\ Sent(d, msgs) /\ UNCHANGED store
    /\ rep' = rep \/ (Taken(d) /\ Head(rep[d]) \in Answers)

Seeds(d) == Taken(d) /\ Head(rep[d]) \in Answers /\ Sent(d, Seed) /\ UNCHANGED store

\* An order that got an item is recorded.
Records(d) ==
  \E msgs \in Seq(Calm) :
    /\ Taken(d) /\ UNCHANGED store
    /\ Head(rep[d]) \in Outcomes /\ Head(rep[d]).val >= 0
    /\ Send(d, <<Lpush(Head(rep[d]).ord)>> \o msgs)

\* A negative reply becomes a rollback.
RollsBack(d) ==
  \E msgs \in Seq(Calm) :
    /\ Taken(d) /\ UNCHANGED store
    /\ Head(rep[d]) \in Refusals
    /\ Sent(d, <<Incr(Head(rep[d]).ord)>> \o msgs)

\* Orders are placed, one decrement each.
Orderly(d) ==
  \E S \in SUBSET Orders, msgs \in Seq(Decrs) :
    /\ Place(S, d) /\ Sent(d, msgs)
    /\ \A i \in 1..Len(msgs) : msgs[i].ord \in S
    /\ \A i, j \in 1..Len(msgs) : i # j => msgs[i].ord # msgs[j].ord
    /\ UNCHANGED <<db, queue, setTo, got, gone, rep>>

LEMMA HandleFacts ==
  ASSUME TypeQueues, NEW d \in Desktops, NEW then, Handle(d, then)
  PROVE  Head(rep[d]) \in Replies /\ Head(rep[d]).then = then /\ Taken(d)
<1>1. rep[d] \in Seq(Replies) /\ rep[d] # <<>>
  BY DEF TypeQueues, Handle
<1>2. Head(rep[d]) \in Replies
  BY <1>1, HeadTailProperties
<1> QED
  BY <1>1, <1>2, Zenon DEF Handle, Taken

LEMMA SendSent == \A d, msgs : Send(d, msgs) => Sent(d, msgs)
  BY Zenon DEF Send, Sent

\* A callback that is not of an order sends no debt and takes none.
LEMMA CallbackCalm ==
  ASSUME TypeQueues, NEW d \in Desktops, NEW then, Handle(d, then),
         then \notin {"order", "test"}, NEW msgs \in Seq(Calm), Send(d, msgs),
         UNCHANGED store
  PROVE  Calmly(d)
<1>1. Head(rep[d]) \in Answers /\ Taken(d)
  BY HandleFacts, ReplyFacts
<1> QED
  BY <1>1, SendSent DEF Calmly

LEMMA SilentCalm ==
  ASSUME NEW d \in Desktops, UNCHANGED store,
         rep' = rep, NEW msgs \in Seq(Calm), Sent(d, msgs)
  PROVE  Calmly(d)
  BY DEF Calmly

LEMMA QuietShape ==
  ASSUME NEW d \in Desktops, Calmly(d) \/ Seeds(d) \/ Records(d)
  PROVE  Quiet(d)
<1>1. Seq(Calm) \subseteq Seq(Plain) /\ (UNCHANGED store => Kept)
  <2>1. Calm \subseteq Plain
    BY DEF Plain
  <2> QED
    BY <2>1, SeqMonotonic DEF store, Kept
<1>2. CASE Calmly(d)
  BY <1>1, <1>2, PlainNoDebt DEF Calmly, Quiet
<1>3. CASE Seeds(d)
  BY <1>1, <1>3, SeedType, PlainNoDebt DEF Seeds, Quiet
<1>4. CASE Records(d)
  <2>1. PICK msgs \in Seq(Calm) :
          /\ Taken(d) /\ UNCHANGED store
          /\ Head(rep[d]) \in Outcomes /\ Head(rep[d]).val >= 0
          /\ Send(d, <<Lpush(Head(rep[d]).ord)>> \o msgs)
    BY <1>4 DEF Records
  <2> DEFINE m == Lpush(Head(rep[d]).ord)
  <2>2. m \in Plain
    BY <2>1, WriteTypes DEF Outcomes, Plain
  <2> HIDE DEF m
  <2>3. <<m>> \o msgs \in Seq(Plain)
    <3>1. <<m>> \in Seq(Plain) /\ msgs \in Seq(Plain)
      BY <1>1, <2>2
    <3> QED
      BY <3>1, ConcatProperties
  <2>4. Sent(d, <<m>> \o msgs)
    BY <2>1, SendSent DEF m
  <2> QED
    BY <1>1, <2>1, <2>3, <2>4, PlainNoDebt DEF Quiet
<1> QED
  BY <1>2, <1>3, <1>4

\* A request that is neither a write nor an order's is executed.
Plainly(d) ==
  /\ req[d] # <<>> /\ Head(req[d]) \in Plain
  /\ req' = [req EXCEPT ![d] = Tail(@)]
  /\ \/ rep' = rep
     \/ \E a \in Answers : rep' = [rep EXCEPT ![d] = Append(@, a)]
  /\ Kept

-----------------------------------------------------------------------------
(* The shape of each action of the desktop.                                *)

LEMMA ConnectShape ==
  ASSUME NEW d \in Desktops, Connect(d)
  PROVE  Calmly(d)
<1> DEFINE m == Read("stock", "seed", 0)
<1>1. m \in Calm
  BY ReadTypes DEF Stocked
<1> HIDE DEF m
<1>2. <<m>> \in Seq(Calm)
  BY <1>1
<1>3. <<>> \o <<m>> = <<m>>
  BY <1>2, ConcatEmptySeq
<1>4. req[d] = <<>> /\ req' = [req EXCEPT ![d] = <<m>>] /\ UNCHANGED store /\ rep' = rep
  BY Zenon DEF Connect, m
<1>5. [req EXCEPT ![d] = <<m>>] = [req EXCEPT ![d] = @ \o <<m>>]
  BY <1>3, <1>4
<1>6. Sent(d, <<m>>)
  BY <1>4, <1>5, Zenon DEF Sent
<1> QED
  BY <1>2, <1>4, <1>6, SilentCalm

LEMMA AskShape ==
  ASSUME NEW d \in Desktops, NEW entry, NEW msgs \in Seq(Calm), Ask(d, entry, msgs)
  PROVE  Calmly(d)
<1>1. Send(d, msgs) /\ UNCHANGED store /\ rep' = rep
  BY Zenon DEF Ask
<1> QED
  BY <1>1, SendSent, SilentCalm

LEMMA MenuShape ==
  ASSUME NEW d \in Desktops,
         \/ AdjustStock(d) \/ SetFlash(d) \/ SetPlain(d) \/ DeleteProduct(d)
         \/ AddProduct(d) \/ Reload(d)
  PROVE  Calmly(d)
<1>1. None \in Stored /\ None \in Int \union {None}
  BY DEF Stored
<1>2. CASE AdjustStock(d)
  <2>1. Read("stock", "adjust", 0) \in Calm
    BY ReadTypes DEF Stocked
  <2>2. <<Read("stock", "adjust", 0)>> \in Seq(Calm)
    BY <2>1
  <2> QED
    BY <1>2, <2>2, AskShape DEF AdjustStock
<1>3. CASE SetFlash(d)
  <2>1. Read("stock", "enable", 0) \in Calm
    BY ReadTypes DEF Stocked
  <2>2. <<Read("stock", "enable", 0)>> \in Seq(Calm)
    BY <2>1
  <2> QED
    BY <1>3, <2>2, AskShape DEF SetFlash
<1>4. CASE SetPlain(d)
  <2>1. /\ Write([price |-> None, cap |-> None]) \in Calm
        /\ Write([counter |-> None]) \in Calm
    BY <1>1, PutTypes, WriteTypes
  <2>2. <<Write([price |-> None, cap |-> None]), Write([counter |-> None])>> \in Seq(Calm)
    BY <2>1
  <2> QED
    BY <1>4, <2>2, AskShape DEF SetPlain
<1>5. CASE DeleteProduct(d)
  <2>1. /\ Write([stock |-> None]) \in Calm
        /\ Write([price |-> None, cap |-> None]) \in Calm
        /\ Write([counter |-> None]) \in Calm
    BY <1>1, PutTypes, WriteTypes
  <2>2. <<Write([stock |-> None]), Write([price |-> None, cap |-> None]),
          Write([counter |-> None])>> \in Seq(Calm)
    BY <2>1
  <2>3. <<Write([stock |-> None]), Write([price |-> None, cap |-> None]),
          Write([counter |-> None])>> \o Load \in Seq(Calm)
    BY <2>2, LoadType, ConcatProperties
  <2> QED
    BY <1>5, <2>3, AskShape DEF DeleteProduct
<1>6. CASE AddProduct(d)
  <2>1. Read("stock", "add", 0) \in Calm
    BY ReadTypes DEF Stocked
  <2>2. <<Read("stock", "add", 0)>> \in Seq(Calm)
    BY <2>1
  <2> QED
    BY <1>6, <2>2, AskShape DEF AddProduct
<1>7. CASE Reload(d)
  BY <1>7, LoadType, AskShape DEF Reload
<1> QED
  BY <1>2, <1>3, <1>4, <1>5, <1>6, <1>7

LEMMA DialogShape ==
  ASSUME NEW d \in Desktops,
         \/ Cancel(d) \/ KeysChanged(d) \/ EndTest(d)
         \/ \E n \in Stocks :
              AcceptStock(d, n) \/ \E flash \in BOOLEAN : AcceptProduct(d, n, flash)
  PROVE  Calmly(d)
<1>1. CASE Cancel(d)
  <2>1. UNCHANGED store /\ rep' = rep /\ req' = req
    BY <1>1, Zenon DEF Cancel
  <2>2. <<>> \in Seq(Calm) /\ Sent(d, <<>>)
    BY <2>1 DEF Sent
  <2> QED
    BY <2>1, <2>2, SilentCalm
<1>2. CASE KeysChanged(d)
  <2>1. Send(d, Load) /\ UNCHANGED store /\ rep' = rep
    BY <1>2, Zenon DEF KeysChanged
  <2> QED
    BY <2>1, LoadType, SendSent, SilentCalm
<1>3. CASE EndTest(d)
  <2>1. Send(d, Update(d, shown[d])) /\ UNCHANGED store /\ rep' = rep
    BY <1>3, Zenon DEF EndTest
  <2> QED
    BY <2>1, LoadType, SendSent, SilentCalm
<1>4. ASSUME NEW n \in Stocks, AcceptStock(d, n)
      PROVE  Calmly(d)
  <2>1. n \in Nat /\ n \in Stored
    BY ConstantsAssumption DEF Stored
  <2>2. WriteThen([stock |-> n], "adjusted", n) \in Calm
    BY <2>1, PutTypes, WriteTypes
  <2>3. <<WriteThen([stock |-> n], "adjusted", n)>> \in Seq(Calm)
    BY <2>2
  <2>4. /\ Send(d, <<WriteThen([stock |-> n], "adjusted", n)>>)
        /\ UNCHANGED store /\ rep' = rep
    BY <1>4, Zenon DEF AcceptStock
  <2> QED
    BY <2>3, <2>4, SendSent, SilentCalm
<1>5. ASSUME NEW n \in Stocks, NEW flash \in BOOLEAN, AcceptProduct(d, n, flash)
      PROVE  Calmly(d)
  <2>1. n \in Nat /\ n \in Stored /\ n \in Int \union {None} /\ 1 \in Int \union {None}
    BY ConstantsAssumption DEF Stored
  <2>2. /\ Write([stock |-> n]) \in Calm /\ Write([price |-> 1, cap |-> n]) \in Calm
        /\ Write([counter |-> n]) \in Calm
    BY <2>1, PutTypes, WriteTypes
  <2> DEFINE msgs == <<Write([stock |-> n])>> \o
               IF flash THEN <<Write([price |-> 1, cap |-> n]), Write([counter |-> n])>> ELSE <<>>
  <2>3. /\ <<Write([stock |-> n])>> \in Seq(Calm)
        /\ <<Write([price |-> 1, cap |-> n]), Write([counter |-> n])>> \in Seq(Calm)
        /\ <<>> \in Seq(Calm)
    BY <2>2
  <2>4. msgs \in Seq(Calm)
    BY <2>3, ConcatProperties
  <2>5. Send(d, msgs) /\ UNCHANGED store /\ rep' = rep
    BY <1>5, Zenon DEF AcceptProduct
  <2> HIDE DEF msgs
  <2> QED
    BY <2>4, <2>5, SendSent, SilentCalm
<1> QED
  BY <1>1, <1>2, <1>3, <1>4, <1>5
LEMMA OrZeroFacts ==
  /\ \A v \in Stored : OrZero(v) \in Nat
  /\ \A v \in Int \union {None} : OrZero(v) \in Int
  /\ None \notin Int
  BY ConstantsAssumption DEF OrZero, Stored

LEMMA CallbackShape ==
  ASSUME TypeQueues, NEW d \in Desktops,
         \/ OnSeed(d) \/ OnSeeded(d) \/ OnAdjust(d) \/ OnAdd(d) \/ OnAdjusted(d) \/ OnSync(d)
         \/ OnEnable(d) \/ OnList(d) \/ OnDetail(d) \/ OnPrice(d) \/ OnEnsure(d) \/ OnStock(d)
         \/ OnCapacity(d) \/ OnSales(d) \/ OnTitle(d)
  PROVE  Calmly(d) \/ Seeds(d)
<1>1. <<>> \in Seq(Calm) /\ (req' = req => Sent(d, <<>>)) /\ (1 \in Int \union {None})
  BY DEF Sent
<1>2. CASE OnSeed(d)
  <2>1. Handle(d, "seed") /\ UNCHANGED store /\ Send(d, IF Value(d) # None THEN Load ELSE Seed)
    BY <1>2, Zenon DEF OnSeed
  <2>2. CASE Value(d) # None
    BY <2>1, <2>2, LoadType, CallbackCalm
  <2>3. CASE Value(d) = None
    BY <2>1, <2>3, HandleFacts, ReplyFacts, SendSent DEF Seeds
  <2> QED
    BY <2>2, <2>3
<1>3. CASE OnSeeded(d)
  <2>1. Handle(d, "seeded") /\ UNCHANGED store /\ Send(d, Load)
    BY <1>3, Zenon DEF OnSeeded
  <2> QED
    BY <2>1, LoadType, CallbackCalm
<1>4. CASE OnAdjust(d) \/ OnAdd(d)
  <2>1. /\ Handle(d, "adjust") \/ Handle(d, "add")
        /\ UNCHANGED store /\ req' = req
    BY <1>4, Zenon DEF OnAdjust, OnAdd
  <2>2. PICK then \in {"adjust", "add"} : Handle(d, then)
    BY <2>1
  <2>3. Head(rep[d]) \in Answers /\ Taken(d)
    BY <2>2, HandleFacts, ReplyFacts
  <2> QED
    BY <1>1, <2>1, <2>3 DEF Calmly
<1>5. CASE OnAdjusted(d)
  <2>1. /\ Handle(d, "adjusted") /\ UNCHANGED store
        /\ Send(d, <<Read("counter", "sync", Captured(d))>>)
    BY <1>5, Zenon DEF OnAdjusted
  <2>2. Captured(d) \in Nat
    BY <2>1, HandleFacts, ReplyFacts DEF Captured
  <2>3. Read("counter", "sync", Captured(d)) \in Calm
    BY <2>2, ReadTypes
  <2>4. <<Read("counter", "sync", Captured(d))>> \in Seq(Calm)
    BY <2>3
  <2> QED
    BY <2>1, <2>4, CallbackCalm
<1>6. CASE OnSync(d)
  <2> DEFINE msgs == IF Value(d) = None THEN <<>>
             ELSE <<Write([counter |-> Captured(d)]), Write([cap |-> Captured(d)])>>
  <2>1. Handle(d, "sync") /\ UNCHANGED store /\ Send(d, msgs)
    BY <1>6, Zenon DEF OnSync
  <2>2. Captured(d) \in Nat
    BY <2>1, HandleFacts, ReplyFacts DEF Captured
  <2>3. Captured(d) \in Stored /\ Captured(d) \in Int \union {None}
    BY <2>2 DEF Stored
  <2>4. Write([counter |-> Captured(d)]) \in Calm /\ Write([cap |-> Captured(d)]) \in Calm
    BY <2>3, PutTypes, WriteTypes
  <2>5. msgs \in Seq(Calm)
    BY <2>4
  <2> HIDE DEF msgs
  <2> QED
    BY <2>1, <2>5, CallbackCalm
<1>7. CASE OnEnable(d)
  <2> DEFINE n == OrZero(Value(d))
             msgs == <<Write([price |-> 1, cap |-> n]), Write([counter |-> n])>>
  <2>1. Handle(d, "enable") /\ UNCHANGED store /\ Send(d, msgs)
    BY <1>7, Zenon DEF OnEnable
  <2>2. Value(d) \in Stored
    BY <2>1, HandleFacts, ReplyFacts DEF Value, Stocked
  <2>3. n \in Nat
    BY <2>2, OrZeroFacts
  <2> HIDE DEF n
  <2>4. n \in Nat /\ n \in Stored /\ n \in Int \union {None}
    BY <2>3 DEF Stored
  <2>5. Write([price |-> 1, cap |-> n]) \in Calm /\ Write([counter |-> n]) \in Calm
    BY <1>1, <2>4, PutTypes, WriteTypes
  <2>6. msgs \in Seq(Calm)
    BY <2>5
  <2> HIDE DEF msgs
  <2> QED
    BY <2>1, <2>6, CallbackCalm
<1>8. CASE OnList(d)
  <2>1. Handle(d, "list") /\ UNCHANGED store
    BY <1>8, Zenon DEF OnList
  <2>2. Head(rep[d]) \in Answers /\ Taken(d)
    BY <2>1, HandleFacts, ReplyFacts
  <2>3. CASE Value(d) = None
    <3>1. req' = req
      BY <1>8, <2>3, Zenon DEF OnList
    <3> QED
      BY <1>1, <2>1, <2>2, <3>1 DEF Calmly
  <2>4. CASE Value(d) # None
    <3>1. Send(d, <<Read("stock", "detail", 0)>>)
      BY <1>8, <2>4, Zenon DEF OnList
    <3>2. Read("stock", "detail", 0) \in Calm
      BY ReadTypes DEF Stocked
    <3>3. <<Read("stock", "detail", 0)>> \in Seq(Calm)
      BY <3>2
    <3> QED
      BY <2>1, <3>1, <3>3, CallbackCalm
  <2> QED
    BY <2>3, <2>4
<1>9. CASE OnDetail(d)
  <2> DEFINE n == OrZero(Value(d))
  <2>1. /\ Handle(d, "detail") /\ UNCHANGED store
        /\ Send(d, <<Read("price", "price", n)>>)
    BY <1>9, Zenon DEF OnDetail
  <2>2. n \in Nat
    BY <2>1, HandleFacts, ReplyFacts, OrZeroFacts DEF Value, Stocked
  <2> HIDE DEF n
  <2>3. Read("price", "price", n) \in Calm
    BY <2>2, ReadTypes
  <2>4. <<Read("price", "price", n)>> \in Seq(Calm)
    BY <2>3
  <2> QED
    BY <2>1, <2>4, CallbackCalm
<1>10. CASE OnPrice(d)
  <2> DEFINE kind == IF Value(d) = None THEN "plain" ELSE "flash"
             sh == IF shown[d] = "none" THEN kind ELSE shown[d]
             first == IF kind = "flash" THEN <<Read("counter", "ensure", Captured(d))>> ELSE <<>>
  <2>1. Handle(d, "price") /\ UNCHANGED store /\ Send(d, first \o Update(d, sh))
    BY <1>10, Zenon DEF OnPrice, store
  <2>2. Captured(d) \in Nat
    BY <2>1, HandleFacts, ReplyFacts DEF Captured
  <2>3. Read("counter", "ensure", Captured(d)) \in Calm
    BY <2>2, ReadTypes
  <2>4. first \in Seq(Calm)
    BY <2>3
  <2> HIDE DEF kind, sh, first
  <2>5. first \o Update(d, sh) \in Seq(Calm)
    BY <2>4, LoadType, ConcatProperties
  <2> QED
    BY <2>1, <2>5, CallbackCalm
<1>11. CASE OnEnsure(d)
  <2> DEFINE msgs == IF Value(d) = None THEN <<Write([counter |-> Captured(d)])>> ELSE <<>>
  <2>1. Handle(d, "ensure") /\ UNCHANGED store /\ Send(d, msgs)
    BY <1>11, Zenon DEF OnEnsure
  <2>2. Captured(d) \in Nat
    BY <2>1, HandleFacts, ReplyFacts DEF Captured
  <2>3. Captured(d) \in Stored
    BY <2>2 DEF Stored
  <2>4. Write([counter |-> Captured(d)]) \in Calm
    BY <2>3, PutTypes, WriteTypes
  <2>5. msgs \in Seq(Calm)
    BY <2>4
  <2> HIDE DEF msgs
  <2> QED
    BY <2>1, <2>5, CallbackCalm
<1>12. CASE OnStock(d)
  <2> DEFINE n == OrZero(Value(d))
  <2>1. /\ Handle(d, "stock") /\ UNCHANGED store
        /\ Send(d, <<Read("cap", "capacity", n)>>)
    BY <1>12, Zenon DEF OnStock
  <2>2. n \in Int
    BY <2>1, HandleFacts, ReplyFacts, OrZeroFacts DEF Value
  <2> HIDE DEF n
  <2>3. Read("cap", "capacity", n) \in Calm
    BY <2>2, ReadTypes
  <2>4. <<Read("cap", "capacity", n)>> \in Seq(Calm)
    BY <2>3
  <2> QED
    BY <2>1, <2>4, CallbackCalm
<1>13. CASE OnCapacity(d)
  <2> DEFINE msgs == IF Captured(d) > OrZero(Value(d))
                     THEN <<Write([cap |-> Captured(d)])>> ELSE <<>>
  <2>1. Handle(d, "capacity") /\ UNCHANGED store /\ Send(d, msgs)
    BY <1>13, Zenon DEF OnCapacity, store
  <2>2. Captured(d) \in Int \union {None}
    BY <2>1, HandleFacts, ReplyFacts DEF Captured
  <2>3. Write([cap |-> Captured(d)]) \in Calm
    BY <2>2, PutTypes, WriteTypes
  <2>4. msgs \in Seq(Calm)
    BY <2>3
  <2> HIDE DEF msgs
  <2> QED
    BY <2>1, <2>4, CallbackCalm
<1>14. CASE OnSales(d)
  <2>1. Handle(d, "sales") /\ UNCHANGED store
    BY <1>14, Zenon DEF OnSales
  <2>2. Head(rep[d]) \in Answers /\ Taken(d)
    BY <2>1, HandleFacts, ReplyFacts
  <2>3. CASE Value(d) = None
    <3>1. req' = req
      BY <1>14, <2>3, Zenon DEF OnSales
    <3> QED
      BY <1>1, <2>1, <2>2, <3>1 DEF Calmly
  <2>4. CASE Value(d) # None
    <3>1. Send(d, <<Read("sale", "title", 0)>>)
      BY <1>14, <2>4, Zenon DEF OnSales
    <3>2. Read("sale", "title", 0) \in Calm
      BY ReadTypes
    <3>3. <<Read("sale", "title", 0)>> \in Seq(Calm)
      BY <3>2
    <3> QED
      BY <2>1, <3>1, <3>3, CallbackCalm
  <2> QED
    BY <2>3, <2>4
<1>15. CASE OnTitle(d)
  <2>1. Handle(d, "title") /\ UNCHANGED store /\ Send(d, <<Read("stock", "list", 0)>>)
    BY <1>15, Zenon DEF OnTitle
  <2>2. Read("stock", "list", 0) \in Calm
    BY ReadTypes DEF Stocked
  <2>3. <<Read("stock", "list", 0)>> \in Seq(Calm)
    BY <2>2
  <2> QED
    BY <2>1, <2>3, CallbackCalm
<1> QED
  BY <1>2, <1>3, <1>4, <1>5, <1>6, <1>7, <1>8, <1>9, <1>10, <1>11, <1>12, <1>13, <1>14, <1>15

\* The callback of a decrement: a record for an item, a rollback for none.
LEMMA OutcomeShape ==
  ASSUME TypeQueues, NEW d \in Desktops, OnOrder(d) \/ OnTest(d)
  PROVE  Records(d) \/ RollsBack(d)
<1> DEFINE m == Head(rep[d])
<1>1. PICK then \in {"order", "test"}, msgs \in Seq(Calm) :
        Handle(d, then) /\ UNCHANGED store /\ Send(d, Outcome(d) \o msgs)
  <2>1. CASE OnOrder(d)
    BY <2>1, LoadType DEF OnOrder
  <2>2. CASE OnTest(d)
    <3>1. Handle(d, "test") /\ UNCHANGED store /\ Send(d, Outcome(d))
      BY <2>2, Zenon DEF OnTest
    <3>2. \E x : Outcome(d) = <<x>>
      BY DEF Outcome
    <3>3. Outcome(d) \o <<>> = Outcome(d) /\ <<>> \in Seq(Calm)
      <4>1. PICK x : Outcome(d) = <<x>>
        BY <3>2
      <4>2. <<x>> \in Seq({x})
        OBVIOUS
      <4> QED
        BY <4>1, <4>2, ConcatEmptySeq
    <3> QED
      BY <3>1, <3>3
  <2> QED
    BY <2>1, <2>2
<1>2. m \in Outcomes /\ Taken(d)
  BY <1>1, HandleFacts, ReplyFacts
<1>3. CASE m.val >= 0
  <2>1. Outcome(d) = <<Lpush(m.ord)>>
    BY <1>3 DEF Outcome, Value
  <2> QED
    BY <1>1, <1>2, <1>3, <2>1 DEF Records
<1>4. CASE ~(m.val >= 0)
  <2>1. m \in Refusals
    BY <1>2, <1>4 DEF Outcomes, Refusals
  <2>2. Outcome(d) = <<Incr(m.ord)>>
    BY <1>4 DEF Outcome, Value
  <2>3. Sent(d, <<Incr(m.ord)>> \o msgs)
    BY <1>1, <2>2, SendSent
  <2> QED
    BY <1>1, <1>2, <2>1, <2>3 DEF RollsBack
<1> QED
  BY <1>3, <1>4

LEMMA NextOrderType == NextOrder \in Nat
<1>1. IsFiniteSet(Orders)
  BY ConstantsAssumption, FS_Interval DEF Orders
<1>2. IsFiniteSet(Orders \ In("idle"))
  BY <1>1, FS_Difference
<1> QED
  BY <1>2, FS_CardinalityType DEF NextOrder

LEMMA OrderShape ==
  ASSUME NEW d \in Desktops, ExecuteOrder(d) \/ OnBatchStressTest(d)
  PROVE  (Calmly(d) /\ ~open[d]) \/ Orderly(d)
<1>1. CASE ExecuteOrder(d)
  <2> DEFINE o == NextOrder
             msgs == <<Decr(o, "order")>>
  <2>1. Place({o}, d) /\ Send(d, msgs) /\ UNCHANGED <<db, queue, setTo, got, gone, rep>>
    BY <1>1, Zenon DEF ExecuteOrder
  <2>2. o \in Orders
    BY <2>1 DEF Place, In
  <2> HIDE DEF o
  <2>3. Decr(o, "order") \in Decrs /\ Decr(o, "order").ord = o
    BY <2>2 DEF Decr, Decrs
  <2>4. /\ msgs \in Seq(Decrs) /\ Len(msgs) = 1 /\ msgs[1] = Decr(o, "order")
    BY <2>3
  <2> HIDE DEF msgs
  <2>5. /\ \A i \in 1..Len(msgs) : msgs[i].ord \in {o}
        /\ \A i, j \in 1..Len(msgs) : i # j => msgs[i].ord # msgs[j].ord
    BY <2>3, <2>4
  <2>6. {o} \in SUBSET Orders /\ Sent(d, msgs)
    BY <2>1, <2>2, SendSent
  <2> QED
    BY <2>1, <2>4, <2>5, <2>6 DEF Orderly
<1>2. CASE OnBatchStressTest(d) /\ open[d]
  <2> DEFINE S == NextOrder..(NextOrder + BatchSize - 1)
             msgs == [i \in 1..BatchSize |-> Decr(NextOrder + i - 1, "test")]
  <2>1. Place(S, d) /\ Send(d, msgs) /\ UNCHANGED <<db, queue, setTo, got, gone, rep>>
    BY <1>2, Zenon DEF OnBatchStressTest
  <2>2. S \subseteq Orders
    BY <2>1 DEF Place, In
  <2>3. NextOrder \in Nat /\ BatchSize \in Nat
    BY NextOrderType, ConstantsAssumption
  <2>4. \A i \in 1..BatchSize : NextOrder + i - 1 \in S
    BY <2>3
  <2>5. \A i \in 1..BatchSize : /\ Decr(NextOrder + i - 1, "test") \in Decrs
                                /\ Decr(NextOrder + i - 1, "test").ord = NextOrder + i - 1
    BY <2>2, <2>4 DEF Decr, Decrs
  <2>6. msgs \in Seq(Decrs) /\ Len(msgs) = BatchSize
        /\ \A i \in 1..BatchSize : msgs[i] = Decr(NextOrder + i - 1, "test")
    <3>1. \A i \in 1..BatchSize : msgs[i] = Decr(NextOrder + i - 1, "test")
      OBVIOUS
    <3>2. msgs \in [1..BatchSize -> Decrs]
      BY <2>5, Zenon
    <3> HIDE DEF msgs
    <3>3. msgs \in Seq(Decrs)
      BY <2>3, <3>2, SeqDef
    <3>4. Len(msgs) = BatchSize
      BY <2>3, <3>2, <3>3, LenProperties
    <3> QED
      BY <3>1, <3>3, <3>4
  <2> HIDE DEF msgs, S
  <2>7. \A i \in 1..Len(msgs) : msgs[i].ord \in S
    BY <2>4, <2>5, <2>6
  <2>8. \A i, j \in 1..Len(msgs) : i # j => msgs[i].ord # msgs[j].ord
    BY <2>3, <2>5, <2>6
  <2>9. S \in SUBSET Orders /\ Sent(d, msgs)
    BY <2>1, <2>2, SendSent
  <2> QED
    BY <2>1, <2>6, <2>7, <2>8, <2>9 DEF Orderly
<1>3. CASE OnBatchStressTest(d) /\ ~open[d]
  <2>1. UNCHANGED store /\ rep' = rep /\ req' = req
    BY <1>3, Zenon DEF OnBatchStressTest, store
  <2>2. <<>> \in Seq(Calm) /\ Sent(d, <<>>)
    BY <2>1 DEF Sent
  <2> QED
    BY <1>3, <2>1, <2>2, SilentCalm
<1> QED
  BY <1>1, <1>2, <1>3

-----------------------------------------------------------------------------
(* The shape of each action of the server.                                 *)

LEMMA RequestFacts ==
  ASSUME NEW m \in Requests
  PROVE  /\ m.cmd = "read" => m \in Reads
         /\ m.cmd = "write" => m \in Writes
         /\ m.cmd = "LPUSH" => m \in Lpushes
         /\ m.cmd = "LPOP" => m = Lpop
         /\ m.cmd = "PING" => m = Ping
         /\ m.cmd = "DECR" => m \in Decrs
         /\ m.cmd = "INCR" => m \in Incrs
  BY DEF Requests, Plain, Calm, Reads, Writes, Lpushes, Lpop, Ping, Decrs, Incrs

LEMMA ExecuteFacts ==
  ASSUME TypeQueues, NEW d \in Desktops, NEW cmd, Execute(d, cmd)
  PROVE  /\ Request(d) \in Requests /\ Request(d).cmd = cmd
         /\ req[d] # <<>> /\ req[d] \in Seq(Requests)
         /\ req' = [req EXCEPT ![d] = Tail(@)]
<1>1. req[d] \in Seq(Requests) /\ req[d] # <<>> /\ Head(req[d]).cmd = cmd
      /\ req' = [req EXCEPT ![d] = Tail(@)]
  BY DEF TypeQueues, Execute
<1>2. Head(req[d]) \in Requests
  BY <1>1, HeadTailProperties
<1> QED
  BY <1>1, <1>2 DEF Request

LEMMA AnswerPlain ==
  ASSUME NEW d, NEW a \in Answers, Answer(d, a)
  PROVE  rep' = rep \/ \E b \in Answers : rep' = [rep EXCEPT ![d] = Append(@, b)]
  BY Zenon DEF Answer

LEMMA ServeShape ==
  ASSUME TypeStore, TypeQueues, NEW d \in Desktops,
         ServeRead(d) \/ ServeLpush(d) \/ ServeLpop(d) \/ ServePing(d)
  PROVE  Plainly(d)
<1>1. CASE ServeRead(d)
  <2> DEFINE m == Request(d)
             a == [then |-> m.then, n |-> m.n, val |-> Field(m.field)]
  <2>1. Execute(d, "read") /\ Answer(d, a) /\ UNCHANGED store
    BY <1>1, Zenon DEF ServeRead
  <2>2. m \in Reads
    BY <2>1, ExecuteFacts, RequestFacts
  <2>3. /\ db["stock"] \in Stored
        /\ \A f \in Fields : db[f] \in Int \union {None}
    BY DEF TypeStore
  <2>4. a \in Answers
    <3>1. /\ m.then \in Stocked => Field(m.field) \in Stored
          /\ Field(m.field) \in Int \union {None}
      BY <2>2, <2>3 DEF Reads, Fields, Field, Stocked
    <3> QED
      BY <2>2, <3>1 DEF Reads, Answers, Stocked
  <2>5. m \in Plain
    BY <2>2 DEF Plain, Calm
  <2> HIDE DEF a
  <2> QED
    BY <2>1, <2>4, <2>5, ExecuteFacts, AnswerPlain, Zenon DEF Plainly, Kept, store, Request
<1>2. CASE ServeLpush(d) \/ ServeLpop(d)
  <2>1. /\ Execute(d, "LPUSH") \/ Execute(d, "LPOP")
        /\ UNCHANGED <<db, phase, setTo, rep>>
    BY <1>2, Zenon DEF ServeLpush, ServeLpop
  <2>2. Request(d) \in Plain
    BY <2>1, ExecuteFacts, RequestFacts DEF Plain
  <2> QED
    BY <2>1, <2>2, ExecuteFacts, Zenon DEF Plainly, Kept, Request
<1>3. CASE ServePing(d)
  <2> DEFINE a == [then |-> Request(d).then, n |-> 0, val |-> 0]
  <2>1. Execute(d, "PING") /\ Answer(d, a) /\ UNCHANGED store
    BY <1>3, Zenon DEF ServePing
  <2>2. Request(d) = Ping
    BY <2>1, ExecuteFacts, RequestFacts
  <2>3. a \in Answers /\ Request(d) \in Plain
    BY <2>2, WriteTypes DEF Answers, Ping, Plain
  <2> HIDE DEF a
  <2> QED
    BY <2>1, <2>3, ExecuteFacts, AnswerPlain, Zenon DEF Plainly, Kept, store, Request
<1> QED
  BY <1>1, <1>2, <1>3

LEMMA StepShape ==
  ASSUME TypeStore, TypeQueues, [Next]_vars
  PROVE  \/ UNCHANGED <<db, setTo, phase, req, rep>>
         \/ \E d \in Desktops :
              \/ Quiet(d) \/ RollsBack(d) \/ Orderly(d) \/ Lose(d) \/ Plainly(d)
              \/ ServeWrite(d) \/ ServeDecr(d) \/ ServeIncr(d) \/ ServeAstray(d)
<1>1. CASE UNCHANGED vars
  BY <1>1 DEF vars, store
<1>2. ASSUME NEW d \in Desktops,
             Connect(d) \/ Lose(d) \/ User(d) \/ EventLoop(d) \/ Serve(d)
      PROVE  \/ Quiet(d) \/ RollsBack(d) \/ Orderly(d) \/ Lose(d) \/ Plainly(d)
             \/ ServeWrite(d) \/ ServeDecr(d) \/ ServeIncr(d) \/ ServeAstray(d)
  <2>1. CASE Connect(d)
    BY <2>1, ConnectShape, QuietShape
  <2>2. CASE User(d)
    BY <2>2, MenuShape, DialogShape, OrderShape, QuietShape, Zenon DEF User
  <2>3. CASE EventLoop(d)
    BY <2>3, CallbackShape, OutcomeShape, DialogShape, QuietShape, Zenon DEF EventLoop, Callback
  <2>4. CASE Serve(d)
    BY <2>4, ServeShape, Zenon DEF Serve
  <2> QED
    BY <1>2, <2>1, <2>2, <2>3, <2>4
<1> QED
  BY <1>1, <1>2, Zenon DEF Next
-----------------------------------------------------------------------------
(* Types are kept.                                                         *)

LEMMA MessageSeqs ==
  /\ Seq(Plain) \subseteq Seq(Requests) /\ Seq(Decrs) \subseteq Seq(Requests)
  /\ Seq(Calm) \subseteq Seq(Requests) /\ Calm \subseteq Plain
  /\ Answers \subseteq Replies /\ Outcomes \subseteq Replies
<1>1. Plain \subseteq Requests /\ Decrs \subseteq Requests /\ Calm \subseteq Requests
  BY DEF Requests, Plain
<1>2. Answers \subseteq Replies /\ Outcomes \subseteq Replies
  BY DEF Replies
<1>3. Calm \subseteq Plain
  BY DEF Plain
<1> QED
  BY <1>1, <1>2, <1>3, SeqMonotonic

LEMMA SentType ==
  ASSUME TypeQueues, NEW d \in Desktops, NEW msgs \in Seq(Requests), Sent(d, msgs)
  PROVE  req' \in [Desktops -> Seq(Requests)]
<1>1. req \in [Desktops -> Seq(Requests)]
  BY DEF TypeQueues
<1>2. req[d] \o msgs \in Seq(Requests)
  BY <1>1, ConcatProperties
<1> QED
  BY <1>1, <1>2 DEF Sent

LEMMA TakenType ==
  ASSUME TypeQueues, NEW d \in Desktops, Taken(d)
  PROVE  /\ rep' \in [Desktops -> Seq(Replies)]
         /\ Head(rep[d]) \in Replies
<1>1. rep \in [Desktops -> Seq(Replies)] /\ rep[d] # <<>>
  BY DEF TypeQueues, Taken
<1>2. Head(rep[d]) \in Replies /\ Tail(rep[d]) \in Seq(Replies)
  BY <1>1, HeadTailProperties
<1> QED
  BY <1>1, <1>2 DEF Taken

LEMMA ServedType ==
  ASSUME TypeQueues, NEW d \in Desktops, req[d] # <<>>,
         req' = [req EXCEPT ![d] = Tail(@)]
  PROVE  req' \in [Desktops -> Seq(Requests)]
<1>1. req \in [Desktops -> Seq(Requests)]
  BY DEF TypeQueues
<1>2. Tail(req[d]) \in Seq(Requests)
  BY <1>1, HeadTailProperties
<1> QED
  BY <1>1, <1>2

LEMMA RepliedType ==
  ASSUME TypeQueues, NEW d \in Desktops, NEW a \in Replies,
         rep' = rep \/ rep' = [rep EXCEPT ![d] = Append(@, a)]
  PROVE  rep' \in [Desktops -> Seq(Replies)]
<1>1. rep \in [Desktops -> Seq(Replies)]
  BY DEF TypeQueues
<1>2. Append(rep[d], a) \in Seq(Replies)
  BY <1>1
<1> QED
  BY <1>1, <1>2

\* What a write does; a counter written ends the count of the orders.
LEMMA WriteFacts ==
  ASSUME TypeStore, TypeQueues, NEW d \in Desktops, ServeWrite(d)
  PROVE  /\ Execute(d, "write") /\ Request(d) \in Plain
         /\ rep' = rep \/ \E a \in Answers : rep' = [rep EXCEPT ![d] = Append(@, a)]
         /\ db' \in [Fields -> Int \union {None}] /\ db'.stock \in Stored
         /\ \/ UNCHANGED <<setTo, phase>> /\ db'.counter = db.counter
            \/ /\ \A o \in Orders : phase'[o] = Renew(phase[o])
               /\ phase' \in [Orders -> Phases]
               /\ db'.counter \in Stored /\ setTo' = OrZero(db'.counter)
<1> DEFINE put == Request(d).put
           a == [then |-> Request(d).then, n |-> Request(d).n, val |-> 0]
<1>1. /\ Execute(d, "write")
      /\ db' = [f \in DOMAIN db |-> IF f \in DOMAIN put THEN put[f] ELSE db[f]]
      /\ IF "counter" \in DOMAIN put
         THEN /\ setTo' = OrZero(put["counter"])
              /\ phase' = [o \in Orders |-> Renew(phase[o])]
         ELSE UNCHANGED <<setTo, phase>>
      /\ IF Request(d).then = "-" THEN rep' = rep ELSE Answer(d, a)
  BY DEF ServeWrite
<1>2. Request(d) \in Writes
  BY <1>1, ExecuteFacts, RequestFacts
<1>3. /\ Request(d) \in Plain /\ put \in Puts
      /\ Request(d).then \in {"-", "adjusted"} /\ Request(d).n \in Nat
  BY <1>2 DEF Writes, Plain, Calm
<1>4. rep' = rep \/ \E b \in Answers : rep' = [rep EXCEPT ![d] = Append(@, b)]
  <2>1. CASE Request(d).then = "-"
    BY <1>1, <2>1
  <2>2. CASE Request(d).then # "-"
    <3>1. a \in Answers
      BY <1>3, <2>2 DEF Answers
    <3>2. Answer(d, a)
      BY <1>1, <2>2
    <3> HIDE DEF a
    <3> QED
      BY <3>1, <3>2, AnswerPlain
  <2> QED
    BY <2>1, <2>2
<1> HIDE DEF put
<1>5. /\ put \in UNION {[F -> Int \union {None}] : F \in SUBSET Fields}
      /\ \A f \in {"stock", "counter"} \intersect DOMAIN put : put[f] \in Stored
  BY <1>3 DEF Puts
<1>6. PICK F \in SUBSET Fields : put \in [F -> Int \union {None}]
  BY <1>5
<1>7. DOMAIN put = F /\ \A f \in F : put[f] \in Int \union {None}
  BY <1>6
<1>8. db \in [Fields -> Int \union {None}] /\ db["stock"] \in Stored /\ DOMAIN db = Fields
  BY DEF TypeStore
<1>9. /\ db' \in [Fields -> Int \union {None}]
      /\ \A f \in Fields : db'[f] = IF f \in F THEN put[f] ELSE db[f]
  BY <1>1, <1>7, <1>8
<1>10. "stock" \in Fields /\ "counter" \in Fields
  BY DEF Fields
<1>11. db'["stock"] \in Stored
  BY <1>5, <1>7, <1>8, <1>9, <1>10
<1>12. CASE "counter" \notin F
  BY <1>1, <1>3, <1>4, <1>7, <1>9, <1>10, <1>11, <1>12
<1>13. CASE "counter" \in F
  <2>1. db'["counter"] = put["counter"] /\ put["counter"] \in Stored
    BY <1>5, <1>7, <1>9, <1>10, <1>13
  <2>2. setTo' = OrZero(db'["counter"]) /\ phase' = [o \in Orders |-> Renew(phase[o])]
    BY <1>1, <1>7, <1>13, <2>1
  <2>3. \A o \in Orders : phase[o] \in Phases
    BY DEF TypeStore
  <2>4. \A p \in Phases : Renew(p) \in Phases
    BY DEF Renew, Phases
  <2>5. phase' \in [Orders -> Phases]
    BY <2>2, <2>3, <2>4
  <2> QED
    BY <1>1, <1>3, <1>4, <1>9, <1>11, <2>1, <2>2, <2>5
<1> QED
  BY <1>12, <1>13

\* What a decrement does.
LEMMA DecrFacts ==
  ASSUME TypeStore, TypeQueues, NEW d \in Desktops, ServeDecr(d),
         NEW o, o = Request(d).ord, NEW n, n = OrZero(db.counter) - 1
  PROVE  /\ Execute(d, "DECR") /\ Request(d) \in Decrs /\ o \in Orders /\ n \in Int
         /\ db' \in [Fields -> Int \union {None}]
         /\ db'.stock = db.stock /\ db'.counter = n
         /\ setTo' = setTo /\ phase[o] # "astray"
         /\ phase' = [phase EXCEPT ![o] = IF n >= 0 THEN "granted" ELSE "refused"]
         /\ \E a \in Outcomes :
              /\ a.ord = o /\ a.val = n
              /\ rep' = rep \/ rep' = [rep EXCEPT ![d] = Append(@, a)]
<1> DEFINE a == [then |-> Request(d).then, ord |-> o, val |-> n]
<1>1. /\ Execute(d, "DECR") /\ db' = [db EXCEPT !.counter = n] /\ setTo' = setTo
      /\ phase' = [phase EXCEPT ![o] = IF n >= 0 THEN "granted" ELSE "refused"]
      /\ Answer(d, a) /\ phase[o] # "astray"
  BY Zenon DEF ServeDecr
<1>2. Request(d) \in Decrs
  BY <1>1, ExecuteFacts, RequestFacts
<1>3. o \in Orders /\ Request(d).then \in {"order", "test"}
  BY <1>2 DEF Decrs
<1>4. db \in [Fields -> Int \union {None}] /\ "counter" \in Fields /\ "stock" \in Fields
  BY DEF TypeStore, Fields
<1>5. n \in Int
  <2>1. db["counter"] \in Int \union {None}
    BY <1>4
  <2>2. OrZero(db["counter"]) \in Int
    BY <2>1, OrZeroFacts
  <2> QED
    BY <2>2
<1>6. /\ db' \in [Fields -> Int \union {None}]
      /\ db'["stock"] = db["stock"] /\ db'["counter"] = n
  BY <1>1, <1>4, <1>5
<1>7. a \in Outcomes /\ a.ord = o /\ a.val = n
  BY <1>3, <1>5 DEF Outcomes
<1>8. rep' = rep \/ rep' = [rep EXCEPT ![d] = Append(@, a)]
  BY <1>1, Zenon DEF Answer
<1> HIDE DEF a
<1> QED
  BY <1>1, <1>2, <1>3, <1>5, <1>6, <1>7, <1>8

\* What a rollback does.
LEMMA IncrFacts ==
  ASSUME TypeStore, TypeQueues, NEW d \in Desktops, ServeIncr(d),
         NEW o, o = Request(d).ord
  PROVE  /\ Execute(d, "INCR") /\ Request(d) \in Incrs /\ o \in Orders
         /\ db' \in [Fields -> Int \union {None}]
         /\ db'.stock = db.stock /\ db'.counter = OrZero(db.counter) + 1
         /\ db'.counter \in Int
         /\ setTo' = setTo /\ rep' = rep /\ phase[o] # "astray"
         /\ phase' = [phase EXCEPT ![o] = IF @ = "stale" THEN "late" ELSE "restored"]
<1>1. /\ Execute(d, "INCR") /\ db' = [db EXCEPT !.counter = OrZero(@) + 1]
      /\ setTo' = setTo /\ rep' = rep /\ phase[o] # "astray"
      /\ phase' = [phase EXCEPT ![o] = IF @ = "stale" THEN "late" ELSE "restored"]
  BY Zenon DEF ServeIncr
<1>2. Request(d) \in Incrs
  BY <1>1, ExecuteFacts, RequestFacts
<1>3. o \in Orders
  BY <1>2 DEF Incrs
<1>4. db \in [Fields -> Int \union {None}] /\ "counter" \in Fields /\ "stock" \in Fields
  BY DEF TypeStore, Fields
<1>5. OrZero(db["counter"]) + 1 \in Int
  <2>1. db["counter"] \in Int \union {None}
    BY <1>4
  <2>2. OrZero(db["counter"]) \in Int
    BY <2>1, OrZeroFacts
  <2> QED
    BY <2>2
<1>6. /\ db' \in [Fields -> Int \union {None}]
      /\ db'["stock"] = db["stock"] /\ db'["counter"] = OrZero(db["counter"]) + 1
  BY <1>1, <1>4, <1>5
<1> QED
  BY <1>1, <1>2, <1>3, <1>5, <1>6

\* A decrement at the counter of no sale is answered with a refusal.
RefusedAstray(d, o) ==
  \E a \in Refusals : /\ Request(d) \in Decrs /\ a.ord = o /\ a.then = Request(d).then
                      /\ rep' = [rep EXCEPT ![d] = Append(@, a)]

\* What a decrement or a rollback does at the counter of no sale.
LEMMA AstrayFacts ==
  ASSUME TypeQueues, NEW d \in Desktops, ServeAstray(d), NEW o, o = Request(d).ord
  PROVE  /\ \/ Execute(d, "DECR") /\ Request(d) \in Decrs
            \/ Execute(d, "INCR") /\ Request(d) \in Incrs
         /\ req[d] # <<>> /\ req' = [req EXCEPT ![d] = Tail(@)]
         /\ o \in Orders /\ phase[o] = "astray" /\ UNCHANGED store
         /\ rep' = rep \/ RefusedAstray(d, o)
         /\ Request(d) \in Decrs =>
              Answer(d, [then |-> Request(d).then, ord |-> o, val |-> -1])
<1> DEFINE a == [then |-> Request(d).then, ord |-> o, val |-> -1]
<1>1. /\ Execute(d, "DECR") \/ Execute(d, "INCR")
      /\ phase[o] = "astray" /\ UNCHANGED store
      /\ IF Request(d).cmd = "INCR" THEN rep' = rep ELSE Answer(d, a)
  BY Zenon DEF ServeAstray
<1>2. CASE Execute(d, "DECR")
  <2>1. Request(d) \in Decrs /\ Request(d).cmd = "DECR"
    BY <1>2, ExecuteFacts, RequestFacts
  <2>2. o \in Orders /\ a \in Refusals /\ a.ord = o /\ a.then = Request(d).then
    BY <2>1 DEF Decrs, Refusals
  <2>3. Answer(d, a)
    BY <1>1, <2>1
  <2> HIDE DEF a
  <2>4. rep' = rep \/ rep' = [rep EXCEPT ![d] = Append(@, a)]
    BY <2>3, Zenon DEF Answer
  <2>5. req[d] # <<>> /\ req' = [req EXCEPT ![d] = Tail(@)]
    BY <1>2, ExecuteFacts
  <2>6. rep' = rep \/ RefusedAstray(d, o)
    BY <2>1, <2>2, <2>4, Zenon DEF RefusedAstray
  <2>7. Answer(d, [then |-> Request(d).then, ord |-> o, val |-> -1])
    BY <2>3 DEF a
  <2> QED
    BY <1>1, <1>2, <2>1, <2>2, <2>5, <2>6, <2>7, Zenon
<1>3. CASE Execute(d, "INCR")
  <2>1. Request(d) \in Incrs /\ Request(d).cmd = "INCR"
    BY <1>3, ExecuteFacts, RequestFacts
  <2>2. o \in Orders /\ Request(d) \notin Decrs
    BY <2>1 DEF Decrs, Incrs
  <2>3. req[d] # <<>> /\ req' = [req EXCEPT ![d] = Tail(@)]
    BY <1>3, ExecuteFacts
  <2> QED
    BY <1>1, <1>3, <2>1, <2>2, <2>3
<1> QED
  BY <1>1, <1>2, <1>3

LEMMA LoseFacts ==
  ASSUME NEW d \in Desktops, Lose(d)
  PROVE  /\ Kept /\ rep' = [rep EXCEPT ![d] = <<>>]
         /\ \E n \in 0..Len(req[d]) : req' = [req EXCEPT ![d] = SubSeq(@, 1, n)]
  BY Zenon DEF Lose, Kept, store

LEMMA TypesKept ==
  ASSUME TypeStore, TypeQueues, [Next]_vars
  PROVE  TypeStore' /\ TypeQueues'
<1>1. Kept => TypeStore'
  BY DEF Kept, TypeStore
<1>2. CASE UNCHANGED <<db, setTo, phase, req, rep>>
  BY <1>2 DEF TypeStore, TypeQueues
<1>3. ASSUME NEW d \in Desktops, Quiet(d)
      PROVE  TypeStore' /\ TypeQueues'
  <2>1. PICK msgs \in Seq(Plain) :
          Sent(d, msgs) /\ Kept /\ (rep' = rep \/ Taken(d))
    BY <1>3 DEF Quiet
  <2>2. req' \in [Desktops -> Seq(Requests)]
    BY <2>1, MessageSeqs, SentType
  <2>3. rep' \in [Desktops -> Seq(Replies)]
    BY <2>1, TakenType DEF TypeQueues
  <2> QED
    BY <1>1, <2>1, <2>2, <2>3 DEF TypeQueues
<1>4. ASSUME NEW d \in Desktops, RollsBack(d)
      PROVE  TypeStore' /\ TypeQueues'
  <2> DEFINE o == Head(rep[d]).ord
  <2>1. PICK msgs \in Seq(Calm) :
          Taken(d) /\ Kept /\ Head(rep[d]) \in Refusals /\ Sent(d, <<Incr(o)>> \o msgs)
    BY <1>4 DEF RollsBack, store, Kept
  <2>2. Incr(o) \in Requests
    BY <2>1 DEF Refusals, Incr, Incrs, Requests
  <2>3. <<Incr(o)>> \in Seq(Requests)
    BY <2>2
  <2>4. <<Incr(o)>> \o msgs \in Seq(Requests)
    BY <2>3, MessageSeqs, ConcatProperties
  <2>5. req' \in [Desktops -> Seq(Requests)]
    BY <2>1, <2>4, SentType
  <2> QED
    BY <1>1, <2>1, <2>5, TakenType DEF TypeQueues
<1>5. ASSUME NEW d \in Desktops, Orderly(d)
      PROVE  TypeStore' /\ TypeQueues'
  <2>1. PICK S \in SUBSET Orders, msgs \in Seq(Decrs) :
          Place(S, d) /\ Sent(d, msgs) /\ UNCHANGED <<db, setTo, rep>>
    BY <1>5 DEF Orderly
  <2>2. req' \in [Desktops -> Seq(Requests)]
    BY <2>1, MessageSeqs, SentType
  <2>3. phase' \in [Orders -> Phases]
    BY <2>1 DEF Place, TypeStore, Phases
  <2> QED
    BY <2>1, <2>2, <2>3 DEF TypeQueues, TypeStore
<1>6. ASSUME NEW d \in Desktops, Lose(d)
      PROVE  TypeStore' /\ TypeQueues'
  <2>1. PICK n \in 0..Len(req[d]) : req' = [req EXCEPT ![d] = SubSeq(@, 1, n)]
    BY <1>6, LoseFacts
  <2>2. req \in [Desktops -> Seq(Requests)] /\ rep \in [Desktops -> Seq(Replies)]
    BY DEF TypeQueues
  <2>3. SubSeq(req[d], 1, n) \in Seq(Requests)
    <3>1. Len(req[d]) \in Nat
      BY <2>2
    <3>2. \A i \in 1..n : req[d][i] \in Requests
      BY <2>2, <3>1, ElementOfSeq
    <3> QED
      BY <2>2, <3>1, <3>2, SubSeqProperties
  <2>4. Kept /\ rep' = [rep EXCEPT ![d] = <<>>]
    BY <1>6, LoseFacts
  <2>5. rep' \in [Desktops -> Seq(Replies)]
    BY <2>2, <2>4
  <2>6. req' \in [Desktops -> Seq(Requests)]
    BY <2>1, <2>2, <2>3
  <2> QED
    BY <1>1, <2>4, <2>5, <2>6 DEF TypeQueues
<1>7. ASSUME NEW d \in Desktops, Plainly(d)
      PROVE  TypeStore' /\ TypeQueues'
  <2>1. req[d] # <<>> /\ req' = [req EXCEPT ![d] = Tail(@)] /\ Kept
    BY <1>7, Zenon DEF Plainly
  <2>2. rep' \in [Desktops -> Seq(Replies)]
    BY <1>7, MessageSeqs, RepliedType DEF Plainly, TypeQueues
  <2> QED
    BY <1>1, <2>1, <2>2, ServedType DEF TypeQueues
<1>8. ASSUME NEW d \in Desktops, ServeWrite(d)
      PROVE  TypeStore' /\ TypeQueues'
  <2>1. Execute(d, "write")
    BY <1>8, WriteFacts
  <2>2. req' \in [Desktops -> Seq(Requests)]
    BY <2>1, ExecuteFacts, ServedType
  <2>3. rep' \in [Desktops -> Seq(Replies)]
    BY <1>8, WriteFacts, MessageSeqs, RepliedType DEF TypeQueues
  <2>4. setTo' \in Nat /\ phase' \in [Orders -> Phases]
    BY <1>8, WriteFacts, OrZeroFacts DEF TypeStore
  <2>5. db' \in [Fields -> Int \union {None}] /\ db'.stock \in Stored
    BY <1>8, WriteFacts
  <2> QED
    BY <2>2, <2>3, <2>4, <2>5 DEF TypeStore, TypeQueues
<1>9. ASSUME NEW d \in Desktops, ServeDecr(d)
      PROVE  TypeStore' /\ TypeQueues'
  <2> DEFINE o == Request(d).ord
             n == OrZero(db.counter) - 1
  <2>1. /\ Execute(d, "DECR") /\ o \in Orders
        /\ db' \in [Fields -> Int \union {None}] /\ db'.stock = db.stock
        /\ setTo' = setTo
        /\ phase' = [phase EXCEPT ![o] = IF n >= 0 THEN "granted" ELSE "refused"]
    BY <1>9, DecrFacts
  <2>2. rep' \in [Desktops -> Seq(Replies)]
    <3>1. PICK a \in Outcomes : rep' = rep \/ rep' = [rep EXCEPT ![d] = Append(@, a)]
      BY <1>9, DecrFacts
    <3> QED
      BY <3>1, MessageSeqs, RepliedType
  <2>3. req' \in [Desktops -> Seq(Requests)]
    BY <2>1, ExecuteFacts, ServedType
  <2>4. phase' \in [Orders -> Phases]
    BY <2>1 DEF TypeStore, Phases
  <2> QED
    BY <2>1, <2>2, <2>3, <2>4 DEF TypeStore, TypeQueues
<1>10. ASSUME NEW d \in Desktops, ServeIncr(d)
      PROVE  TypeStore' /\ TypeQueues'
  <2> DEFINE o == Request(d).ord
  <2>1. /\ Execute(d, "INCR") /\ o \in Orders
        /\ db' \in [Fields -> Int \union {None}] /\ db'.stock = db.stock
        /\ setTo' = setTo /\ rep' = rep
        /\ phase' = [phase EXCEPT ![o] = IF @ = "stale" THEN "late" ELSE "restored"]
    BY <1>10, IncrFacts
  <2>2. req' \in [Desktops -> Seq(Requests)]
    BY <2>1, ExecuteFacts, ServedType
  <2>3. phase' \in [Orders -> Phases]
    BY <2>1 DEF TypeStore, Phases
  <2> QED
    BY <2>1, <2>2, <2>3 DEF TypeStore, TypeQueues
<1>11. ASSUME NEW d \in Desktops, ServeAstray(d)
      PROVE  TypeStore' /\ TypeQueues'
  <2>1. /\ req[d] # <<>> /\ req' = [req EXCEPT ![d] = Tail(@)] /\ Kept
        /\ rep' = rep \/ \E a \in Refusals : rep' = [rep EXCEPT ![d] = Append(@, a)]
    BY <1>11, AstrayFacts, Zenon DEF store, Kept, RefusedAstray
  <2>2. rep' \in [Desktops -> Seq(Replies)]
    <3>1. Refusals \subseteq Replies
      BY DEF Refusals, Outcomes, Replies
    <3> QED
      BY <2>1, <3>1, RepliedType DEF TypeQueues
  <2> QED
    BY <1>1, <2>1, <2>2, ServedType DEF TypeQueues
<1> QED
  BY <1>2, <1>3, <1>4, <1>5, <1>6, <1>7, <1>8, <1>9, <1>10, <1>11, StepShape
-----------------------------------------------------------------------------
(* Debts are kept apart.                                                   *)

LEMMA SentFlow ==
  ASSUME TypeQueues, NEW d \in Desktops, NEW t \in Seq(Requests), Sent(d, t),
         NEW by, NEW ph, Good(by, d, req[d], ph), Good(by, d, t, ph),
         Waiting(req[d]) \intersect Waiting(t) = {}
  PROVE  /\ Good(by, d, req'[d], ph)
         /\ Waiting(req'[d]) \subseteq Waiting(req[d]) \union Waiting(t)
         /\ \A e \in Desktops \ {d} : req'[e] = req[e]
<1>1. req \in [Desktops -> Seq(Requests)]
  BY DEF TypeQueues
<1>2. CASE req' = req
  BY <1>2
<1>3. CASE req' = [req EXCEPT ![d] = @ \o t]
  <2>1. req'[d] = req[d] \o t /\ \A e \in Desktops \ {d} : req'[e] = req[e]
    BY <1>1, <1>3
  <2> QED
    BY <1>1, <2>1, GoodConcat
<1> QED
  BY <1>2, <1>3 DEF Sent

LEMMA AppendFlow ==
  ASSUME NEW q \in Seq(Replies), NEW m \in Replies, NEW by, NEW d, NEW ph,
         Good(by, d, q, ph),
         m \in Debts => /\ by[m.ord] = d /\ ph[m.ord] \in Expected(m)
                        /\ m.ord \notin Waiting(q)
  PROVE  /\ Good(by, d, Append(q, m), ph)
         /\ Waiting(Append(q, m)) \subseteq
              Waiting(q) \union (IF m \in Debts THEN {m.ord} ELSE {})
<1>1. <<m>> \in Seq(Replies) /\ Append(q, m) = q \o <<m>>
  OBVIOUS
<1>2. Good(by, d, <<m>>, ph) /\ Waiting(<<m>>) = IF m \in Debts THEN {m.ord} ELSE {}
  BY GoodOne
<1>3. Waiting(q) \intersect Waiting(<<m>>) = {}
  BY <1>2
<1> DEFINE t == <<m>>
<1> HIDE DEF t
<1>4. /\ t \in Seq(Replies) /\ Append(q, m) = q \o t /\ Good(by, d, t, ph)
      /\ Waiting(q) \intersect Waiting(t) = {}
      /\ Waiting(t) = IF m \in Debts THEN {m.ord} ELSE {}
  BY <1>1, <1>2, <1>3 DEF t
<1>5. Good(by, d, q \o t, ph) /\ Waiting(q \o t) \subseteq Waiting(q) \union Waiting(t)
  BY <1>4, GoodConcat
<1> QED
  BY <1>4, <1>5

LEMMA TakenFlow ==
  ASSUME TypeQueues, NEW d \in Desktops, Taken(d), NEW by, NEW ph, Good(by, d, rep[d], ph)
  PROVE  /\ Good(by, d, rep'[d], ph)
         /\ Waiting(rep'[d]) \subseteq Waiting(rep[d])
         /\ \A e \in Desktops \ {d} : rep'[e] = rep[e]
         /\ Head(rep[d]) \in Debts => /\ Head(rep[d]).ord \in Waiting(rep[d])
                                      /\ Head(rep[d]).ord \notin Waiting(rep'[d])
                                      /\ ph[Head(rep[d]).ord] \in Expected(Head(rep[d]))
                                      /\ by[Head(rep[d]).ord] = d
<1>1. rep \in [Desktops -> Seq(Replies)] /\ rep[d] # <<>>
  BY DEF TypeQueues, Taken
<1>2. rep'[d] = Tail(rep[d]) /\ \A e \in Desktops \ {d} : rep'[e] = rep[e]
  BY <1>1 DEF Taken
<1> QED
  BY <1>1, <1>2, GoodTail

LEMMA ServedFlow ==
  ASSUME TypeQueues, NEW d \in Desktops, req[d] # <<>>,
         req' = [req EXCEPT ![d] = Tail(@)], NEW by, NEW ph, Good(by, d, req[d], ph)
  PROVE  /\ Good(by, d, req'[d], ph)
         /\ Waiting(req'[d]) \subseteq Waiting(req[d])
         /\ \A e \in Desktops \ {d} : req'[e] = req[e]
         /\ Head(req[d]) \in Debts => /\ Head(req[d]).ord \in Waiting(req[d])
                                      /\ Head(req[d]).ord \notin Waiting(req'[d])
                                      /\ ph[Head(req[d]).ord] \in Expected(Head(req[d]))
                                      /\ by[Head(req[d]).ord] = d
<1>1. req \in [Desktops -> Seq(Requests)]
  BY DEF TypeQueues
<1>2. req'[d] = Tail(req[d]) /\ \A e \in Desktops \ {d} : req'[e] = req[e]
  BY <1>1
<1> QED
  BY <1>1, <1>2, GoodTail

LEMMA AnsweredFlow ==
  ASSUME TypeQueues, NEW d \in Desktops, NEW by, NEW ph, Good(by, d, rep[d], ph),
         rep' = rep \/ \E a \in Answers : rep' = [rep EXCEPT ![d] = Append(@, a)]
  PROVE  /\ Good(by, d, rep'[d], ph)
         /\ Waiting(rep'[d]) \subseteq Waiting(rep[d])
         /\ \A e \in Desktops \ {d} : rep'[e] = rep[e]
<1>1. rep \in [Desktops -> Seq(Replies)]
  BY DEF TypeQueues
<1>2. CASE rep' = rep
  BY <1>2
<1>3. ASSUME NEW a \in Answers, rep' = [rep EXCEPT ![d] = Append(@, a)]
      PROVE  /\ Good(by, d, rep'[d], ph)
             /\ Waiting(rep'[d]) \subseteq Waiting(rep[d])
             /\ \A e \in Desktops \ {d} : rep'[e] = rep[e]
  <2>1. rep'[d] = Append(rep[d], a) /\ \A e \in Desktops \ {d} : rep'[e] = rep[e]
    BY <1>1, <1>3
  <2>2. a \in Replies /\ a \notin Debts
    BY MessageSeqs, PlainNoDebt
  <2> QED
    BY <1>1, <2>1, <2>2, AppendFlow
<1> QED
  BY <1>2, <1>3

LEMMA FlowIntro ==
  ASSUME NEW by \in Owners,
         \A d \in Desktops :
           /\ Good(by, d, req'[d], phase') /\ Good(by, d, rep'[d], phase')
           /\ Waiting(req'[d]) \intersect Waiting(rep'[d]) = {}
  PROVE  Flow'
<1>1. FlowBy(by)'
  BY DEF FlowBy
<1> QED
  BY <1>1 DEF Flow

LEMMA FlowQuiet ==
  ASSUME TypeQueues, Flow, NEW d \in Desktops, Quiet(d)
  PROVE  Flow'
<1>1. PICK by \in Owners : FlowBy(by)
  BY DEF Flow
<1>2. \A e \in Desktops : /\ Good(by, e, req[e], phase) /\ Good(by, e, rep[e], phase)
                          /\ Waiting(req[e]) \intersect Waiting(rep[e]) = {}
  BY <1>1 DEF FlowBy
<1>3. PICK msgs \in Seq(Plain) : Sent(d, msgs) /\ Kept /\ (rep' = rep \/ Taken(d))
  BY DEF Quiet
<1>4. Good(by, d, msgs, phase) /\ Waiting(msgs) = {} /\ msgs \in Seq(Requests)
  BY PlainNoDebt, GoodNone, MessageSeqs
<1>5. /\ Good(by, d, req'[d], phase) /\ Waiting(req'[d]) \subseteq Waiting(req[d])
      /\ \A e \in Desktops \ {d} : req'[e] = req[e]
  BY <1>2, <1>3, <1>4, SentFlow
<1>6. /\ Good(by, d, rep'[d], phase) /\ Waiting(rep'[d]) \subseteq Waiting(rep[d])
      /\ \A e \in Desktops \ {d} : rep'[e] = rep[e]
  BY <1>2, <1>3, TakenFlow
<1>7. phase' = phase
  BY <1>3 DEF Kept
<1>8. \A e \in Desktops : /\ Good(by, e, req'[e], phase') /\ Good(by, e, rep'[e], phase')
                          /\ Waiting(req'[e]) \intersect Waiting(rep'[e]) = {}
  <2> TAKE e \in Desktops
  <2>1. CASE e = d
    BY <1>2, <1>5, <1>6, <1>7, <2>1
  <2>2. CASE e # d
    BY <1>2, <1>5, <1>6, <1>7, <2>2
  <2> QED
    BY <2>1, <2>2
<1> QED
  BY <1>8, FlowIntro

LEMMA FlowRollsBack ==
  ASSUME TypeQueues, Flow, NEW d \in Desktops, RollsBack(d)
  PROVE  Flow'
<1>1. PICK by \in Owners : FlowBy(by)
  BY DEF Flow
<1>2. \A e \in Desktops : /\ Good(by, e, req[e], phase) /\ Good(by, e, rep[e], phase)
                          /\ Waiting(req[e]) \intersect Waiting(rep[e]) = {}
  BY <1>1 DEF FlowBy
<1> DEFINE o == Head(rep[d]).ord
<1>3. PICK msgs \in Seq(Calm) :
        Taken(d) /\ Kept /\ Head(rep[d]) \in Refusals /\ Sent(d, <<Incr(o)>> \o msgs)
  BY DEF RollsBack, store, Kept
<1>4. /\ Good(by, d, rep'[d], phase) /\ Waiting(rep'[d]) \subseteq Waiting(rep[d])
      /\ \A e \in Desktops \ {d} : rep'[e] = rep[e]
      /\ o \in Waiting(rep[d]) /\ o \notin Waiting(rep'[d])
      /\ phase[o] \in Expected(Head(rep[d])) /\ by[o] = d
  BY <1>2, <1>3, TakenFlow DEF Debts
<1>5. Incr(o) \in Incrs /\ Incr(o).ord = o /\ Expected(Head(rep[d])) = Expected(Incr(o))
  BY <1>3 DEF Refusals, Incr, Incrs, Decrs, Expected
<1> HIDE DEF o
<1>6. Good(by, d, <<Incr(o)>>, phase) /\ Waiting(<<Incr(o)>>) = {o}
  BY <1>4, <1>5, GoodOne DEF Debts
<1>7. Good(by, d, msgs, phase) /\ Waiting(msgs) = {} /\ msgs \in Seq(Requests)
  <2>1. \A m \in Calm : m \notin Debts
    BY PlainNoDebt, MessageSeqs
  <2> QED
    BY <2>1, GoodNone, MessageSeqs
<1> DEFINE t == <<Incr(o)>> \o msgs
<1>8. Good(by, d, t, phase) /\ Waiting(t) \subseteq {o} /\ t \in Seq(Requests)
  <2>1. Incr(o) \in Requests
    BY <1>5 DEF Requests
  <2> DEFINE u == <<Incr(o)>>
  <2>2. u \in Seq(Requests)
    BY <2>1
  <2> HIDE DEF u
  <2>3. Good(by, d, u, phase) /\ Waiting(u) = {o}
    BY <1>6 DEF u
  <2>4. /\ Good(by, d, u \o msgs, phase)
        /\ Waiting(u \o msgs) \subseteq Waiting(u) \union Waiting(msgs)
    BY <1>7, <2>2, <2>3, GoodConcat
  <2>5. u \o msgs \in Seq(Requests)
    BY <1>7, <2>2, ConcatProperties
  <2> QED
    BY <1>7, <2>3, <2>4, <2>5 DEF u
<1> HIDE DEF t
<1>9. /\ Good(by, d, req'[d], phase) /\ Waiting(req'[d]) \subseteq Waiting(req[d]) \union {o}
      /\ \A e \in Desktops \ {d} : req'[e] = req[e]
  <2>1. Waiting(req[d]) \intersect Waiting(t) = {}
    BY <1>2, <1>4, <1>8
  <2>2. Sent(d, t)
    BY <1>3 DEF t, o
  <2> QED
    BY <1>2, <1>8, <2>1, <2>2, SentFlow
<1>10. phase' = phase
  BY <1>3 DEF Kept
<1>11. \A e \in Desktops : /\ Good(by, e, req'[e], phase') /\ Good(by, e, rep'[e], phase')
                           /\ Waiting(req'[e]) \intersect Waiting(rep'[e]) = {}
  <2> TAKE e \in Desktops
  <2>1. CASE e = d
    <3>1. Waiting(req'[d]) \intersect Waiting(rep'[d]) = {}
      BY <1>2, <1>4, <1>9, SMTT(30)
    <3>2. Good(by, d, req'[d], phase') /\ Good(by, d, rep'[d], phase')
      BY <1>4, <1>9, <1>10
    <3> QED
      BY <2>1, <3>1, <3>2
  <2>2. CASE e # d
    BY <1>2, <1>4, <1>9, <1>10, <2>2
  <2> QED
    BY <2>1, <2>2
<1> QED
  BY <1>11, FlowIntro
\* An order not yet placed is in no queue: its owner is chosen now.
LEMMA FlowOrderly ==
  ASSUME TypeQueues, Flow, NEW d \in Desktops, Orderly(d)
  PROVE  Flow'
<1>1. PICK by \in Owners : FlowBy(by)
  BY DEF Flow
<1>2. \A e \in Desktops : /\ Good(by, e, req[e], phase) /\ Good(by, e, rep[e], phase)
                          /\ Waiting(req[e]) \intersect Waiting(rep[e]) = {}
  BY <1>1 DEF FlowBy
<1>3. PICK S \in SUBSET Orders, msgs \in Seq(Decrs) :
        /\ Place(S, d) /\ Sent(d, msgs)
        /\ \A i \in 1..Len(msgs) : msgs[i].ord \in S
        /\ \A i, j \in 1..Len(msgs) : i # j => msgs[i].ord # msgs[j].ord
        /\ UNCHANGED <<db, setTo, rep>>
  BY DEF Orderly
<1> DEFINE by2 == [o \in Orders |-> IF o \in S THEN d ELSE by[o]]
<1>4. /\ by2 \in Owners
      /\ \A o \in S : by2[o] = d /\ phase'[o] \in {"placed", "astray"} /\ phase[o] = "idle"
      /\ \A o \in Orders \ S : by2[o] = by[o] /\ phase'[o] = phase[o]
  BY <1>3 DEF Place, In, Owners
<1> HIDE DEF by2
<1>5. ASSUME NEW e \in Desktops
      PROVE  /\ Good(by2, e, req[e], phase') /\ Good(by2, e, rep[e], phase')
             /\ Waiting(req[e]) \intersect S = {} /\ Waiting(rep[e]) \intersect S = {}
  <2>1. req[e] \in Seq(Requests) /\ rep[e] \in Seq(Replies)
    BY DEF TypeQueues
  <2>2. \A o \in Waiting(req[e]) : o \in Orders /\ phase[o] # "idle"
    BY <1>2, <2>1, WaitingFacts
  <2>3. \A o \in Waiting(rep[e]) : o \in Orders /\ phase[o] # "idle"
    BY <1>2, <2>1, WaitingFacts
  <2>4. Waiting(req[e]) \intersect S = {} /\ Waiting(rep[e]) \intersect S = {}
    BY <1>4, <2>2, <2>3
  <2>5. \A o \in Waiting(req[e]) \union Waiting(rep[e]) : by2[o] = by[o] /\ phase'[o] = phase[o]
    BY <1>4, <2>2, <2>3, <2>4
  <2>6. Good(by2, e, req[e], phase') /\ Good(by2, e, rep[e], phase')
    BY <1>2, <2>5, GoodFrame
  <2> QED
    BY <2>4, <2>6
<1>6. /\ Good(by2, d, msgs, phase') /\ Waiting(msgs) \subseteq S /\ msgs \in Seq(Requests)
  <2>1. \A i \in 1..Len(msgs) : msgs[i] \in Decrs
    BY ElementOfSeq
  <2>2. Good(by2, d, msgs, phase')
    BY <1>3, <1>4, <2>1 DEF Good, Expected
  <2>3. Waiting(msgs) \subseteq S
    BY <1>3 DEF Waiting
  <2> QED
    BY <2>2, <2>3, MessageSeqs
<1>7. /\ Good(by2, d, req'[d], phase') /\ Waiting(req'[d]) \subseteq Waiting(req[d]) \union S
      /\ \A e \in Desktops \ {d} : req'[e] = req[e]
  <2>1. Waiting(req[d]) \intersect Waiting(msgs) = {}
    BY <1>5, <1>6
  <2>2. /\ Good(by2, d, req'[d], phase')
        /\ Waiting(req'[d]) \subseteq Waiting(req[d]) \union Waiting(msgs)
        /\ \A e \in Desktops \ {d} : req'[e] = req[e]
    BY <1>3, <1>5, <1>6, <2>1, SentFlow
  <2> QED
    BY <1>6, <2>2
<1>8. rep' = rep
  BY <1>3
<1>9. \A e \in Desktops : /\ Good(by2, e, req'[e], phase') /\ Good(by2, e, rep'[e], phase')
                          /\ Waiting(req'[e]) \intersect Waiting(rep'[e]) = {}
  <2> TAKE e \in Desktops
  <2>1. CASE e = d
    BY <1>2, <1>5, <1>7, <1>8, <2>1
  <2>2. CASE e # d
    BY <1>2, <1>5, <1>7, <1>8, <2>2
  <2> QED
    BY <2>1, <2>2
<1> QED
  BY <1>4, <1>9, FlowIntro

LEMMA FlowLose ==
  ASSUME TypeQueues, Flow, NEW d \in Desktops, Lose(d)
  PROVE  Flow'
<1>1. PICK by \in Owners : FlowBy(by)
  BY DEF Flow
<1>2. \A e \in Desktops : /\ Good(by, e, req[e], phase) /\ Good(by, e, rep[e], phase)
                          /\ Waiting(req[e]) \intersect Waiting(rep[e]) = {}
  BY <1>1 DEF FlowBy
<1>3. PICK n \in 0..Len(req[d]) : req' = [req EXCEPT ![d] = SubSeq(@, 1, n)]
  BY LoseFacts
<1>4. Kept /\ rep' = [rep EXCEPT ![d] = <<>>]
  BY LoseFacts
<1>5. req \in [Desktops -> Seq(Requests)] /\ rep \in [Desktops -> Seq(Replies)]
  BY DEF TypeQueues
<1>6. /\ req'[d] = SubSeq(req[d], 1, n) /\ rep'[d] = <<>>
      /\ \A e \in Desktops \ {d} : req'[e] = req[e] /\ rep'[e] = rep[e]
  BY <1>3, <1>4, <1>5
<1>7. Good(by, d, req'[d], phase)
  BY <1>2, <1>5, <1>6, GoodPrefix
<1>8. Good(by, d, rep'[d], phase) /\ Waiting(rep'[d]) = {}
  <2>1. rep'[d] \in Seq(Answers)
    BY <1>6
  <2>2. \A m \in Answers : m \notin Debts
    BY PlainNoDebt
  <2> QED
    BY <2>1, <2>2, GoodNone, Zenon
<1>9. phase' = phase
  BY <1>4 DEF Kept
<1>10. \A e \in Desktops : /\ Good(by, e, req'[e], phase') /\ Good(by, e, rep'[e], phase')
                           /\ Waiting(req'[e]) \intersect Waiting(rep'[e]) = {}
  <2> TAKE e \in Desktops
  <2>1. CASE e = d
    BY <1>7, <1>8, <1>9, <2>1
  <2>2. CASE e # d
    BY <1>2, <1>6, <1>9, <2>2
  <2> QED
    BY <2>1, <2>2
<1> QED
  BY <1>10, FlowIntro

\* A plain request is executed, and perhaps the counter written.
LEMMA FlowServed ==
  ASSUME TypeQueues, Flow, NEW d \in Desktops,
         req[d] # <<>>, Head(req[d]) \in Plain, req' = [req EXCEPT ![d] = Tail(@)],
         rep' = rep \/ \E a \in Answers : rep' = [rep EXCEPT ![d] = Append(@, a)],
         phase' = phase \/ \A o \in Orders : phase'[o] = Renew(phase[o])
  PROVE  Flow'
<1>1. PICK by \in Owners : FlowBy(by)
  BY DEF Flow
<1>2. \A e \in Desktops : /\ Good(by, e, req[e], phase) /\ Good(by, e, rep[e], phase)
                          /\ Waiting(req[e]) \intersect Waiting(rep[e]) = {}
  BY <1>1 DEF FlowBy
<1>3. ASSUME NEW e \in Desktops
      PROVE  Good(by, e, req[e], phase') /\ Good(by, e, rep[e], phase')
  <2>1. req[e] \in Seq(Requests) /\ rep[e] \in Seq(Replies)
    BY DEF TypeQueues
  <2>2. CASE phase' = phase
    BY <1>2, <2>2
  <2>3. CASE \A o \in Orders : phase'[o] = Renew(phase[o])
    BY <1>2, <2>1, <2>3, GoodRenewed
  <2> QED
    BY <2>2, <2>3
<1>4. /\ Good(by, d, req'[d], phase') /\ Waiting(req'[d]) \subseteq Waiting(req[d])
      /\ \A e \in Desktops \ {d} : req'[e] = req[e]
  BY <1>3, ServedFlow
<1>5. /\ Good(by, d, rep'[d], phase') /\ Waiting(rep'[d]) \subseteq Waiting(rep[d])
      /\ \A e \in Desktops \ {d} : rep'[e] = rep[e]
  BY <1>3, AnsweredFlow
<1>6. \A e \in Desktops : /\ Good(by, e, req'[e], phase') /\ Good(by, e, rep'[e], phase')
                          /\ Waiting(req'[e]) \intersect Waiting(rep'[e]) = {}
  <2> TAKE e \in Desktops
  <2>1. CASE e = d
    BY <1>2, <1>4, <1>5, <2>1
  <2>2. CASE e # d
    BY <1>2, <1>3, <1>4, <1>5, <2>2
  <2> QED
    BY <2>1, <2>2
<1> QED
  BY <1>6, FlowIntro

\* A decrement or a rollback is executed: only its own order's phase changes,
\* and no other queue holds a debt of that order.
LEMMA FlowCounted ==
  ASSUME TypeStore, TypeQueues, NEW d \in Desktops, req[d] # <<>>,
         Head(req[d]) \in Decrs \union Incrs, req' = [req EXCEPT ![d] = Tail(@)],
         NEW o, o = Head(req[d]).ord, NEW p, phase' = [phase EXCEPT ![o] = p],
         NEW by \in Owners, FlowBy(by)
  PROVE  /\ phase[o] \in Expected(Head(req[d])) /\ by[o] = d /\ o \in Orders
         /\ o \notin Waiting(req'[d]) /\ o \notin Waiting(rep[d])
         /\ phase'[o] = p
         /\ \A e \in Desktops : /\ Good(by, e, req'[e], phase') /\ Good(by, e, rep[e], phase')
                                /\ Waiting(req'[e]) \intersect Waiting(rep[e]) = {}
<1>1. \A e \in Desktops : /\ Good(by, e, req[e], phase) /\ Good(by, e, rep[e], phase)
                          /\ Waiting(req[e]) \intersect Waiting(rep[e]) = {}
  BY DEF FlowBy
<1>2. /\ Good(by, d, req'[d], phase) /\ Waiting(req'[d]) \subseteq Waiting(req[d])
      /\ \A e \in Desktops \ {d} : req'[e] = req[e]
      /\ o \in Waiting(req[d]) /\ o \notin Waiting(req'[d])
      /\ phase[o] \in Expected(Head(req[d])) /\ by[o] = d
  BY <1>1, ServedFlow DEF Debts
<1>3. o \notin Waiting(rep[d])
  BY <1>1, <1>2
<1>4. o \in Orders /\ phase'[o] = p /\ \A x \in Orders \ {o} : phase'[x] = phase[x]
  BY DebtFacts DEF Debts, TypeStore
<1>5. ASSUME NEW e \in Desktops
      PROVE  /\ o \notin Waiting(req'[e]) /\ o \notin Waiting(rep[e])
             /\ Good(by, e, req'[e], phase) /\ Waiting(req'[e]) \subseteq Waiting(req[e])
             /\ \A x \in Waiting(req'[e]) \union Waiting(rep[e]) : x \in Orders
  <2>1. req[e] \in Seq(Requests) /\ rep[e] \in Seq(Replies)
    BY DEF TypeQueues
  <2>2. \A x \in Waiting(req[e]) : x \in Orders /\ by[x] = e
    BY <1>1, <2>1, WaitingFacts
  <2>3. \A x \in Waiting(rep[e]) : x \in Orders /\ by[x] = e
    BY <1>1, <2>1, WaitingFacts
  <2>4. CASE e = d
    BY <1>2, <1>3, <2>2, <2>3, <2>4
  <2>5. CASE e # d
    <3>1. req'[e] = req[e]
      BY <1>2, <2>5
    <3> QED
      BY <1>1, <1>2, <2>2, <2>3, <2>5, <3>1
  <2> QED
    BY <2>4, <2>5
<1>6. ASSUME NEW e \in Desktops
      PROVE  /\ Good(by, e, req'[e], phase') /\ Good(by, e, rep[e], phase')
             /\ Waiting(req'[e]) \intersect Waiting(rep[e]) = {}
  <2>1. /\ \A x \in Waiting(req'[e]) : phase'[x] = phase[x]
        /\ \A x \in Waiting(rep[e]) : phase'[x] = phase[x]
    BY <1>4, <1>5
  <2>2. Good(by, e, req'[e], phase')
    <3> DEFINE q == req'[e]
               ph == phase'
    <3>1. Good(by, e, q, phase) /\ \A x \in Waiting(q) : ph[x] = phase[x]
      BY <1>5, <2>1
    <3> HIDE DEF q, ph
    <3>2. Good(by, e, q, ph)
      BY <3>1, GoodPhases
    <3> QED
      BY <3>2 DEF q, ph
  <2>3. Good(by, e, rep[e], phase')
    BY <1>1, <2>1, GoodPhases
  <2> QED
    BY <1>1, <1>5, <2>2, <2>3
<1> QED
  BY <1>2, <1>3, <1>4, <1>6

\* The negative reply takes the place of the decrement.
LEMMA FlowDecr ==
  ASSUME TypeStore, TypeQueues, Flow, NEW d \in Desktops, ServeDecr(d),
         NEW o, o = Request(d).ord
  PROVE  Flow' /\ o \in Orders /\ phase[o] = "placed"
<1>1. PICK by \in Owners : FlowBy(by)
  BY DEF Flow
<1> DEFINE n == OrZero(db.counter) - 1
           p == IF n >= 0 THEN "granted" ELSE "refused"
<1>2. /\ Execute(d, "DECR") /\ Request(d) \in Decrs /\ n \in Int
      /\ phase' = [phase EXCEPT ![o] = p] /\ phase[o] # "astray"
  BY DecrFacts
<1>3. PICK a \in Outcomes : a.ord = o /\ a.val = n
                            /\ (rep' = rep \/ rep' = [rep EXCEPT ![d] = Append(@, a)])
  BY DecrFacts
<1>4. p = IF n >= 0 THEN "granted" ELSE "refused"
  OBVIOUS
<1> HIDE DEF n, p
<1>5. /\ req[d] # <<>> /\ Head(req[d]) \in Decrs /\ req' = [req EXCEPT ![d] = Tail(@)]
      /\ o = Head(req[d]).ord
  BY <1>2, ExecuteFacts DEF Request
<1>6. /\ phase[o] \in Expected(Head(req[d])) /\ by[o] = d /\ o \in Orders
      /\ o \notin Waiting(req'[d]) /\ o \notin Waiting(rep[d])
      /\ phase'[o] = p
      /\ \A e \in Desktops : /\ Good(by, e, req'[e], phase') /\ Good(by, e, rep[e], phase')
                             /\ Waiting(req'[e]) \intersect Waiting(rep[e]) = {}
  BY <1>1, <1>2, <1>5, FlowCounted
<1>7. phase[o] = "placed"
  BY <1>2, <1>5, <1>6 DEF Expected
<1>8. rep \in [Desktops -> Seq(Replies)] /\ a \in Replies
  BY MessageSeqs DEF TypeQueues
<1>9. /\ Good(by, d, rep'[d], phase')
      /\ Waiting(rep'[d]) \subseteq Waiting(rep[d]) \union {o}
      /\ \A e \in Desktops \ {d} : rep'[e] = rep[e]
  <2>1. CASE rep' = rep
    BY <1>6, <2>1
  <2>2. CASE rep' = [rep EXCEPT ![d] = Append(@, a)]
    <3>1. rep'[d] = Append(rep[d], a) /\ \A e \in Desktops \ {d} : rep'[e] = rep[e]
      BY <1>8, <2>2
    <3>2. ASSUME a \in Debts
          PROVE  phase'[o] \in Expected(a)
      <4>1. ~(n >= 0)
        BY <1>3, <3>2, PlainNoDebt
      <4>2. a \notin Decrs
        BY DEF Outcomes, Decrs
      <4> QED
        BY <1>4, <1>6, <4>1, <4>2 DEF Expected
    <3>3. /\ Good(by, d, Append(rep[d], a), phase')
          /\ Waiting(Append(rep[d], a)) \subseteq
               Waiting(rep[d]) \union (IF a \in Debts THEN {a.ord} ELSE {})
      BY <1>3, <1>6, <1>8, <3>2, AppendFlow
    <3> QED
      BY <1>3, <3>1, <3>3
  <2> QED
    BY <1>3, <2>1, <2>2
<1>10. \A e \in Desktops : /\ Good(by, e, req'[e], phase') /\ Good(by, e, rep'[e], phase')
                           /\ Waiting(req'[e]) \intersect Waiting(rep'[e]) = {}
  <2> TAKE e \in Desktops
  <2>1. CASE e = d
    BY <1>6, <1>9, <2>1
  <2>2. CASE e # d
    BY <1>6, <1>9, <2>2
  <2> QED
    BY <2>1, <2>2
<1> QED
  BY <1>6, <1>7, <1>10, FlowIntro

LEMMA FlowIncr ==
  ASSUME TypeStore, TypeQueues, Flow, NEW d \in Desktops, ServeIncr(d),
         NEW o, o = Request(d).ord
  PROVE  Flow' /\ o \in Orders /\ phase[o] \in {"refused", "stale"}
<1>1. PICK by \in Owners : FlowBy(by)
  BY DEF Flow
<1> DEFINE p == IF phase[o] = "stale" THEN "late" ELSE "restored"
<1>2. /\ Execute(d, "INCR") /\ Request(d) \in Incrs /\ rep' = rep
      /\ phase' = [phase EXCEPT ![o] = p] /\ phase[o] # "astray"
  BY IncrFacts
<1> HIDE DEF p
<1>3. /\ req[d] # <<>> /\ Head(req[d]) \in Incrs /\ req' = [req EXCEPT ![d] = Tail(@)]
      /\ o = Head(req[d]).ord
  BY <1>2, ExecuteFacts DEF Request
<1>4. /\ phase[o] \in Expected(Head(req[d])) /\ o \in Orders
      /\ \A e \in Desktops : /\ Good(by, e, req'[e], phase') /\ Good(by, e, rep[e], phase')
                             /\ Waiting(req'[e]) \intersect Waiting(rep[e]) = {}
  BY <1>1, <1>2, <1>3, FlowCounted
<1>5. phase[o] \in {"refused", "stale"}
  BY <1>2, <1>3, <1>4 DEF Expected, Incrs, Decrs
<1> QED
  BY <1>2, <1>4, <1>5, FlowIntro

\* At the counter of no sale a debt moves on and no phase changes.
LEMMA FlowAstray ==
  ASSUME TypeStore, TypeQueues, Flow, NEW d \in Desktops, ServeAstray(d),
         NEW o, o = Request(d).ord
  PROVE  Flow'
<1>1. PICK by \in Owners : FlowBy(by)
  BY DEF Flow
<1>2. /\ Request(d) \in Decrs \union Incrs /\ o \in Orders /\ phase[o] = "astray"
      /\ req[d] # <<>> /\ req' = [req EXCEPT ![d] = Tail(@)] /\ phase' = phase
      /\ \/ rep' = rep
         \/ \E a \in Refusals : a.ord = o /\ rep' = [rep EXCEPT ![d] = Append(@, a)]
  <2>1. UNCHANGED store /\ (Request(d) \in Decrs \/ Request(d) \in Incrs)
    BY AstrayFacts, Zenon
  <2>2. phase' = phase
    BY <2>1 DEF store
  <2>3. \/ rep' = rep
        \/ \E a \in Refusals : a.ord = o /\ rep' = [rep EXCEPT ![d] = Append(@, a)]
    <3>1. rep' = rep \/ RefusedAstray(d, o)
      BY AstrayFacts, Zenon
    <3> QED
      BY <3>1, Zenon DEF RefusedAstray
  <2>4. /\ o \in Orders /\ phase[o] = "astray"
        /\ req[d] # <<>> /\ req' = [req EXCEPT ![d] = Tail(@)]
    BY AstrayFacts, Zenon
  <2> QED
    BY <2>1, <2>2, <2>3, <2>4
<1>3. o = Head(req[d]).ord /\ Head(req[d]) \in Decrs \union Incrs
  BY <1>2 DEF Request
<1>4. PICK p : p = "astray" /\ phase' = [phase EXCEPT ![o] = p]
  BY <1>2 DEF TypeStore
<1>5. /\ by[o] = d /\ o \notin Waiting(req'[d]) /\ o \notin Waiting(rep[d])
      /\ phase'[o] = "astray"
      /\ \A e \in Desktops : /\ Good(by, e, req'[e], phase') /\ Good(by, e, rep[e], phase')
                             /\ Waiting(req'[e]) \intersect Waiting(rep[e]) = {}
  <2>1. /\ phase[o] \in Expected(Head(req[d])) /\ by[o] = d /\ o \in Orders
        /\ o \notin Waiting(req'[d]) /\ o \notin Waiting(rep[d])
        /\ phase'[o] = p
        /\ \A e \in Desktops : /\ Good(by, e, req'[e], phase') /\ Good(by, e, rep[e], phase')
                               /\ Waiting(req'[e]) \intersect Waiting(rep[e]) = {}
    <3>1. /\ req[d] # <<>> /\ req' = [req EXCEPT ![d] = Tail(@)]
          /\ Head(req[d]) \in Decrs \union Incrs /\ o = Head(req[d]).ord
      BY <1>2, <1>3
    <3>2. phase' = [phase EXCEPT ![o] = p]
      BY <1>4
    <3> QED
      BY <1>1, <3>1, <3>2, FlowCounted
  <2> QED
    BY <1>4, <2>1
<1>6. rep \in [Desktops -> Seq(Replies)]
  BY DEF TypeQueues
<1>7. /\ Good(by, d, rep'[d], phase')
      /\ Waiting(rep'[d]) \subseteq Waiting(rep[d]) \union {o}
      /\ \A e \in Desktops \ {d} : rep'[e] = rep[e]
  <2>1. CASE rep' = rep
    BY <1>5, <2>1
  <2>2. ASSUME NEW a \in Refusals, a.ord = o, rep' = [rep EXCEPT ![d] = Append(@, a)]
        PROVE  /\ Good(by, d, rep'[d], phase')
               /\ Waiting(rep'[d]) \subseteq Waiting(rep[d]) \union {o}
               /\ \A e \in Desktops \ {d} : rep'[e] = rep[e]
    <3>1. rep'[d] = Append(rep[d], a) /\ \A e \in Desktops \ {d} : rep'[e] = rep[e]
      BY <1>6, <2>2
    <3>2. a \in Replies /\ "astray" \in Expected(a)
      BY DEF Refusals, Outcomes, Replies, Expected
    <3>3. /\ Good(by, d, Append(rep[d], a), phase')
          /\ Waiting(Append(rep[d], a)) \subseteq
               Waiting(rep[d]) \union (IF a \in Debts THEN {a.ord} ELSE {})
      BY <1>5, <1>6, <2>2, <3>2, AppendFlow
    <3> QED
      BY <2>2, <3>1, <3>3
  <2> QED
    BY <1>2, <2>1, <2>2
<1>8. \A e \in Desktops : /\ Good(by, e, req'[e], phase') /\ Good(by, e, rep'[e], phase')
                          /\ Waiting(req'[e]) \intersect Waiting(rep'[e]) = {}
  <2> TAKE e \in Desktops
  <2>1. CASE e = d
    BY <1>5, <1>7, <2>1
  <2>2. CASE e # d
    BY <1>5, <1>7, <2>2
  <2> QED
    BY <2>1, <2>2
<1> QED
  BY <1>8, FlowIntro
-----------------------------------------------------------------------------
(* The ledger.                                                             *)

LEMMA InFinite == \A p : IsFiniteSet(In(p)) /\ Cardinality(In(p)) \in Nat
<1>1. IsFiniteSet(Orders)
  BY ConstantsAssumption, FS_Interval DEF Orders
<1> TAKE p
<1>2. In(p) \subseteq Orders
  BY DEF In
<1> QED
  BY <1>1, <1>2, FS_Subset, FS_CardinalityType

LEMMA CounterType == TypeStore => OrZero(db.counter) \in Int /\ setTo \in Int
<1> SUFFICES ASSUME TypeStore PROVE OrZero(db["counter"]) \in Int /\ setTo \in Int
  OBVIOUS
<1>1. db["counter"] \in Int \union {None}
  BY DEF TypeStore, Fields
<1>2. OrZero(db["counter"]) \in Int
  BY <1>1, OrZeroFacts
<1> QED
  BY <1>2 DEF TypeStore

\* An order's phase moves from p to q.
LEMMA Moved ==
  ASSUME TypeStore, NEW o \in Orders, NEW p \in Phases, NEW q \in Phases, q # p, phase[o] = p,
         phase' = [phase EXCEPT ![o] = q]
  PROVE  /\ Cardinality(In(q)') = Cardinality(In(q)) + 1
         /\ Cardinality(In(p)') = Cardinality(In(p)) - 1
         /\ \A r \in Phases : r # p /\ r # q => In(r)' = In(r)
<1>1. /\ In(q)' = In(q) \union {o} /\ o \notin In(q)
      /\ In(p)' = In(p) \ {o} /\ o \in In(p)
      /\ \A r \in Phases : r # p /\ r # q => In(r)' = In(r)
  BY DEF In, TypeStore
<1>2. Cardinality(In(q) \union {o}) = Cardinality(In(q)) + 1
  BY <1>1, InFinite, FS_AddElement
<1>3. Cardinality(In(p) \ {o}) = Cardinality(In(p)) - 1
  BY <1>1, InFinite, FS_RemoveElement
<1> QED
  BY <1>1, <1>2, <1>3

LEMMA LedgerKept ==
  ASSUME IInv, [Next]_vars
  PROVE  CounterIsLedger' /\ OversoldByLateOnly' /\ Flow'
<1> DEFINE G == Cardinality(In("granted"))
           R == Cardinality(In("refused"))
           L == Cardinality(In("late"))
           C == OrZero(db.counter)
<1>1. G \in Nat /\ R \in Nat /\ L \in Nat /\ C \in Int /\ setTo \in Nat
  BY InFinite, CounterType DEF IInv, TypeStore
<1>2. C = setTo - G - R + L /\ G <= setTo + L
  BY DEF IInv, CounterIsLedger, OversoldByLateOnly
<1> DEFINE Ledger == /\ C' = setTo' - G' - R' + L'
                     /\ G' <= setTo' + L'
<1>3. Ledger => CounterIsLedger' /\ OversoldByLateOnly'
  BY DEF CounterIsLedger, OversoldByLateOnly
<1>4. UNCHANGED <<db, setTo, phase>> => Ledger
  <2> SUFFICES ASSUME UNCHANGED <<db, setTo, phase>> PROVE Ledger
    OBVIOUS
  <2>1. G' = G /\ R' = R /\ L' = L /\ C' = C /\ setTo' = setTo
    BY DEF In
  <2> HIDE DEF G, R, L, C
  <2> QED
    BY <1>2, <2>1
<1>5. CASE UNCHANGED <<db, setTo, phase, req, rep>>
  <2>1. Flow'
    BY <1>5 DEF IInv, Flow, FlowBy
  <2> QED
    BY <1>3, <1>4, <1>5, <2>1
<1>6. ASSUME NEW d \in Desktops,
             Quiet(d) \/ RollsBack(d) \/ Lose(d) \/ Plainly(d) \/ ServeAstray(d)
      PROVE  CounterIsLedger' /\ OversoldByLateOnly' /\ Flow'
  <2>1. Kept
    BY <1>6, LoseFacts, AstrayFacts DEF Quiet, RollsBack, Plainly, store, Kept, IInv
  <2>2. CASE Plainly(d)
    <3>1. Flow'
      BY <2>2, FlowServed DEF Plainly, IInv, Kept
    <3> QED
      BY <1>3, <1>4, <2>1, <3>1 DEF Kept
  <2>3. CASE Quiet(d) \/ RollsBack(d) \/ Lose(d) \/ ServeAstray(d)
    <3>1. Flow'
      BY <2>3, FlowQuiet, FlowRollsBack, FlowLose, FlowAstray DEF IInv
    <3> QED
      BY <1>3, <1>4, <2>1, <3>1 DEF Kept
  <2> QED
    BY <1>6, <2>2, <2>3
<1>7. ASSUME NEW d \in Desktops, Orderly(d)
      PROVE  CounterIsLedger' /\ OversoldByLateOnly' /\ Flow'
  <2>1. PICK S \in SUBSET Orders : Place(S, d) /\ UNCHANGED <<db, setTo>>
    BY <1>7 DEF Orderly
  <2>2. \A p \in {"granted", "refused", "late"} : In(p)' = In(p)
    BY <2>1 DEF Place, In
  <2>3. G' = G /\ R' = R /\ L' = L /\ C' = C /\ setTo' = setTo
    BY <2>1, <2>2
  <2>4. Flow'
    BY <1>7, FlowOrderly DEF IInv
  <2> HIDE DEF G, R, L, C
  <2> QED
    BY <1>2, <1>3, <2>3, <2>4
<1>8. ASSUME NEW d \in Desktops, ServeWrite(d)
      PROVE  CounterIsLedger' /\ OversoldByLateOnly' /\ Flow'
  <2>1. /\ Execute(d, "write") /\ Request(d) \in Plain
        /\ rep' = rep \/ \E a \in Answers : rep' = [rep EXCEPT ![d] = Append(@, a)]
    BY <1>8, WriteFacts DEF IInv
  <2>2. \/ UNCHANGED <<setTo, phase>> /\ db'.counter = db.counter
        \/ /\ \A o \in Orders : phase'[o] = Renew(phase[o])
           /\ db'.counter \in Stored /\ setTo' = OrZero(db'.counter)
    BY <1>8, WriteFacts DEF IInv
  <2>3. Flow'
    <3>1. req[d] # <<>> /\ Head(req[d]) \in Plain /\ req' = [req EXCEPT ![d] = Tail(@)]
      BY <2>1, ExecuteFacts DEF IInv, Request
    <3> QED
      BY <2>1, <2>2, <3>1, FlowServed DEF IInv
  <2>4. CASE UNCHANGED <<setTo, phase>> /\ db'.counter = db.counter
    <3>1. G' = G /\ R' = R /\ L' = L /\ C' = C /\ setTo' = setTo
      BY <2>4 DEF In
    <3> HIDE DEF G, R, L, C
    <3> QED
      BY <1>2, <1>3, <2>3, <3>1
  <2>5. CASE /\ \A o \in Orders : phase'[o] = Renew(phase[o])
             /\ db'.counter \in Stored /\ setTo' = OrZero(db'.counter)
    <3>1. \A p : Renew(p) \notin {"granted", "refused", "late"}
      BY DEF Renew
    <3>2. \A p \in {"granted", "refused", "late"} : In(p)' = {}
      BY <2>5, <3>1 DEF In
    <3>3. Cardinality({}) = 0
      BY FS_EmptySet
    <3> DEFINE k == setTo'
    <3>4. G' = 0 /\ R' = 0 /\ L' = 0 /\ C' = k /\ k \in Nat
      BY <2>5, <3>2, <3>3, OrZeroFacts
    <3> HIDE DEF G, R, L, C, k
    <3>5. C' = k - G' - R' + L' /\ G' <= k + L'
      BY <3>4
    <3>6. Ledger
      BY <3>5 DEF k
    <3> QED
      BY <1>3, <2>3, <3>6
  <2> QED
    BY <2>2, <2>4, <2>5
<1>9. ASSUME NEW d \in Desktops, ServeDecr(d)
      PROVE  CounterIsLedger' /\ OversoldByLateOnly' /\ Flow'
  <2> DEFINE o == Request(d).ord
             n == C - 1
             p == IF n >= 0 THEN "granted" ELSE "refused"
  <2>1. Flow' /\ o \in Orders /\ phase[o] = "placed"
    BY <1>9, FlowDecr DEF IInv
  <2>2. /\ db'.counter = n /\ setTo' = setTo /\ n \in Int
        /\ phase' = [phase EXCEPT ![o] = p]
    BY <1>9, DecrFacts DEF IInv
  <2>3. C' = n
    BY <2>2, OrZeroFacts DEF OrZero
  <2>4. n = C - 1
    OBVIOUS
  <2>5. p = IF n >= 0 THEN "granted" ELSE "refused"
    OBVIOUS
  <2> HIDE DEF o, n, p
  <2>6. CASE n >= 0
    <3>1. p = "granted"
      BY <2>5, <2>6
    <3>2. phase' = [phase EXCEPT ![o] = "granted"] /\ phase[o] = "placed"
      BY <2>1, <2>2, <3>1
    <3>3. /\ Cardinality(In("granted")') = Cardinality(In("granted")) + 1
          /\ In("refused")' = In("refused") /\ In("late")' = In("late")
      BY <2>1, <3>2, Moved DEF IInv, Phases
    <3>4. G' = G + 1 /\ R' = R /\ L' = L
      BY <3>3
    <3> HIDE DEF G, R, L, C
    <3>5. Ledger
      BY <1>1, <1>2, <2>2, <2>3, <2>4, <2>6, <3>4
    <3> QED
      BY <1>3, <2>1, <3>5
  <2>7. CASE ~(n >= 0)
    <3>1. p = "refused"
      BY <2>5, <2>7
    <3>2. phase' = [phase EXCEPT ![o] = "refused"] /\ phase[o] = "placed"
      BY <2>1, <2>2, <3>1
    <3>3. /\ Cardinality(In("refused")') = Cardinality(In("refused")) + 1
          /\ In("granted")' = In("granted") /\ In("late")' = In("late")
      BY <2>1, <3>2, Moved DEF IInv, Phases
    <3>4. G' = G /\ R' = R + 1 /\ L' = L
      BY <3>3
    <3> HIDE DEF G, R, L, C
    <3>5. Ledger
      BY <1>1, <1>2, <2>2, <2>3, <2>4, <3>4
    <3> QED
      BY <1>3, <2>1, <3>5
  <2> QED
    BY <2>6, <2>7
<1>10. ASSUME NEW d \in Desktops, ServeIncr(d)
       PROVE  CounterIsLedger' /\ OversoldByLateOnly' /\ Flow'
  <2> DEFINE o == Request(d).ord
             p == IF phase[o] = "stale" THEN "late" ELSE "restored"
             n == C + 1
  <2>1. Flow' /\ o \in Orders /\ phase[o] \in {"refused", "stale"}
    BY <1>10, FlowIncr DEF IInv
  <2>2. /\ db'.counter = n /\ n \in Int /\ setTo' = setTo
        /\ phase' = [phase EXCEPT ![o] = p]
    BY <1>10, IncrFacts DEF IInv
  <2>3. C' = n
    BY <2>2, OrZeroFacts DEF OrZero
  <2>4. n = C + 1
    OBVIOUS
  <2>5. p = IF phase[o] = "stale" THEN "late" ELSE "restored"
    OBVIOUS
  <2> HIDE DEF o, n, p
  <2>6. CASE phase[o] = "refused"
    <3>1. p = "restored"
      BY <2>5, <2>6
    <3>2. phase' = [phase EXCEPT ![o] = "restored"] /\ phase[o] = "refused"
      BY <2>1, <2>2, <2>6, <3>1
    <3>3. /\ Cardinality(In("refused")') = Cardinality(In("refused")) - 1
          /\ In("granted")' = In("granted") /\ In("late")' = In("late")
      BY <2>1, <3>2, Moved DEF IInv, Phases
    <3>4. G' = G /\ R' = R - 1 /\ L' = L
      BY <3>3
    <3> HIDE DEF G, R, L, C
    <3>5. Ledger
      BY <1>1, <1>2, <2>2, <2>3, <2>4, <3>4
    <3> QED
      BY <1>3, <2>1, <3>5
  <2>7. CASE phase[o] = "stale"
    <3>1. p = "late"
      BY <2>5, <2>7
    <3>2. phase' = [phase EXCEPT ![o] = "late"] /\ phase[o] = "stale"
      BY <2>1, <2>2, <2>7, <3>1
    <3>3. /\ Cardinality(In("late")') = Cardinality(In("late")) + 1
          /\ In("granted")' = In("granted") /\ In("refused")' = In("refused")
      BY <2>1, <3>2, Moved DEF IInv, Phases
    <3>4. G' = G /\ R' = R /\ L' = L + 1
      BY <3>3
    <3> HIDE DEF G, R, L, C
    <3>5. Ledger
      BY <1>1, <1>2, <2>2, <2>3, <2>4, <3>4
    <3> QED
      BY <1>3, <2>1, <3>5
  <2> QED
    BY <2>1, <2>6, <2>7
<1>11. TypeStore /\ TypeQueues
  BY DEF IInv
<1> HIDE DEF Ledger, G, R, L, C
<1> QED
  BY <1>5, <1>6, <1>7, <1>8, <1>9, <1>10, <1>11, StepShape, Zenon
LEMMA Initially == Init => IInv
<1> SUFFICES ASSUME Init PROVE IInv
  OBVIOUS
<1>1. PICK start \in {"empty", "running", "cut"} :
        /\ db = [sale |-> IF start = "running" THEN 1 ELSE None,
                 stock |-> IF start = "empty" THEN None ELSE Stock0,
                 price |-> IF start = "running" THEN 1 ELSE None,
                 cap |-> IF start = "running" THEN Flash0 ELSE None,
                 counter |-> IF start = "running" THEN Flash0 ELSE None]
        /\ setTo = IF start = "running" THEN Flash0 ELSE 0
        /\ req = [d \in Desktops |-> <<>>] /\ rep = [d \in Desktops |-> <<>>]
        /\ phase = [o \in Orders |-> "idle"]
  BY Zenon DEF Init
<1>2. Stock0 \in Nat /\ Flash0 \in Nat /\ None \notin Int
  BY ConstantsAssumption
<1>3. /\ db \in [Fields -> Int \union {None}] /\ db["stock"] \in Stored
      /\ setTo \in Nat /\ OrZero(db["counter"]) = setTo
  <2>1. /\ db["stock"] = IF start = "empty" THEN None ELSE Stock0
        /\ db["counter"] = IF start = "running" THEN Flash0 ELSE None
    BY <1>1
  <2>2. db["stock"] \in Stored /\ setTo \in Nat /\ OrZero(db["counter"]) = setTo
    BY <1>1, <1>2, <2>1 DEF Stored, OrZero
  <2>3. db \in [Fields -> Int \union {None}]
    BY <1>1, <1>2 DEF Fields
  <2> QED
    BY <2>2, <2>3
<1>4. TypeStore
  BY <1>1, <1>3 DEF TypeStore, Phases
<1>5. TypeQueues
  BY <1>1 DEF TypeQueues
<1>6. Flow
  <2> DEFINE by == [o \in Orders |-> None]
  <2>1. by \in Owners
    BY DEF Owners
  <2> HIDE DEF by
  <2>2. ASSUME NEW d \in Desktops
        PROVE  /\ Good(by, d, req[d], phase) /\ Good(by, d, rep[d], phase)
               /\ Waiting(req[d]) = {}
    <3>1. req[d] \in Seq({}) /\ rep[d] \in Seq({})
      BY <1>1
    <3> QED
      BY <3>1, GoodNone
  <2>3. FlowBy(by)
    BY <2>2 DEF FlowBy
  <2> QED
    BY <2>1, <2>3 DEF Flow
<1>7. \A p \in {"granted", "refused", "late"} : In(p) = {}
  BY <1>1 DEF In
<1>8. Cardinality({}) = 0
  BY FS_EmptySet
<1>9. /\ Cardinality(In("granted")) = 0 /\ Cardinality(In("refused")) = 0
       /\ Cardinality(In("late")) = 0
  BY <1>7, <1>8
<1>10. CounterIsLedger
  BY <1>3, <1>9 DEF CounterIsLedger
<1>11. OversoldByLateOnly
  BY <1>3, <1>9 DEF OversoldByLateOnly
<1> QED
  BY <1>4, <1>5, <1>6, <1>10, <1>11 DEF IInv

LEMMA InductiveStep == IInv /\ [Next]_vars => IInv'
<1> SUFFICES ASSUME IInv, [Next]_vars PROVE IInv'
  OBVIOUS
<1>1. TypeStore' /\ TypeQueues'
  BY TypesKept DEF IInv
<1>2. CounterIsLedger' /\ OversoldByLateOnly' /\ Flow'
  BY LedgerKept
<1> QED
  BY <1>1, <1>2 DEF IInv

LEMMA Inductive == Spec => []IInv
  BY InductiveStep, Initially, PTL DEF Spec

-----------------------------------------------------------------------------
(* Messages in queues, whatever their place.                               *)

LEMMA RangeOfTail ==
  ASSUME NEW S, NEW q \in Seq(S), q # <<>>
  PROVE  Range(q) = {Head(q)} \union Range(Tail(q)) /\ Head(q) \in S /\ Tail(q) \in Seq(S)
<1>1. /\ Tail(q) \in Seq(S) /\ Len(q) \in Nat \ {0} /\ Len(Tail(q)) = Len(q) - 1
      /\ \A i \in 1..Len(Tail(q)) : Tail(q)[i] = q[i + 1]
      /\ Head(q) = q[1] /\ Head(q) \in S
  BY HeadTailProperties, EmptySeq
<1>2. DOMAIN q = 1..Len(q) /\ DOMAIN Tail(q) = 1..Len(Tail(q))
  BY <1>1, LenProperties
<1>3. \A i \in 2..Len(q) : i - 1 \in 1..Len(Tail(q)) /\ q[i] = Tail(q)[i - 1]
  BY <1>1
<1>4. ASSUME NEW i \in DOMAIN q PROVE q[i] \in {Head(q)} \union Range(Tail(q))
  <2>1. CASE i = 1
    BY <1>1, <2>1
  <2>2. CASE i # 1
    <3>1. i \in 2..Len(q)
      BY <1>1, <1>2, <2>2
    <3>2. i - 1 \in DOMAIN Tail(q) /\ q[i] = Tail(q)[i - 1]
      BY <1>2, <1>3, <3>1
    <3> QED
      BY <3>2 DEF Range
  <2> QED
    BY <2>1, <2>2
<1>5. ASSUME NEW i \in DOMAIN Tail(q) PROVE Tail(q)[i] \in Range(q)
  <2>1. i + 1 \in DOMAIN q /\ Tail(q)[i] = q[i + 1]
    BY <1>1, <1>2
  <2> QED
    BY <2>1 DEF Range
<1>6. 1 \in DOMAIN q
  BY <1>1, <1>2
<1>7. Range(q) \subseteq {Head(q)} \union Range(Tail(q))
  BY <1>4 DEF Range
<1>8. Range(Tail(q)) \subseteq Range(q) /\ Head(q) \in Range(q)
  BY <1>1, <1>5, <1>6 DEF Range
<1> QED
  BY <1>1, <1>7, <1>8

LEMMA RangeOfConcat ==
  ASSUME NEW S, NEW a \in Seq(S), NEW b \in Seq(S)
  PROVE  Range(a \o b) = Range(a) \union Range(b)
<1>1. /\ Len(a) \in Nat /\ Len(b) \in Nat /\ Len(a \o b) = Len(a) + Len(b) /\ a \o b \in Seq(S)
      /\ \A i \in 1..Len(a) : (a \o b)[i] = a[i]
      /\ \A i \in 1..Len(a \o b) : i > Len(a) => (a \o b)[i] = b[i - Len(a)]
  BY ConcatProperties, LenProperties
<1>2. DOMAIN a = 1..Len(a) /\ DOMAIN b = 1..Len(b) /\ DOMAIN (a \o b) = 1..Len(a \o b)
  BY <1>1, LenProperties
<1> DEFINE ab == a \o b
<1> HIDE DEF ab
<1>3. ASSUME NEW i \in DOMAIN ab PROVE ab[i] \in Range(a) \union Range(b)
  <2>1. CASE i \in DOMAIN a
    BY <1>1, <1>2, <2>1 DEF ab, Range
  <2>2. CASE i \notin DOMAIN a
    <3>1. i - Len(a) \in 1..Len(b) /\ ab[i] = b[i - Len(a)]
      BY <1>1, <1>2, <2>2 DEF ab
    <3>2. i - Len(a) \in DOMAIN b
      BY <1>2, <3>1
    <3> QED
      BY <3>1, <3>2 DEF Range
  <2> QED
    BY <2>1, <2>2
<1>4. ASSUME NEW i \in DOMAIN a PROVE a[i] \in Range(ab)
  <2>1. i \in DOMAIN ab /\ ab[i] = a[i]
    BY <1>1, <1>2 DEF ab
  <2> QED
    BY <2>1 DEF Range
<1>5. ASSUME NEW i \in DOMAIN b PROVE b[i] \in Range(ab)
  <2>1. i + Len(a) \in 1..Len(ab) /\ i + Len(a) > Len(a) /\ (i + Len(a)) - Len(a) = i
    BY <1>1, <1>2 DEF ab
  <2>2. i + Len(a) \in DOMAIN ab /\ ab[i + Len(a)] = b[i]
    BY <1>1, <1>2, <2>1 DEF ab
  <2> QED
    BY <2>2 DEF Range
<1>6. Range(ab) \subseteq Range(a) \union Range(b)
  BY <1>3 DEF Range
<1>7. Range(a) \subseteq Range(ab) /\ Range(b) \subseteq Range(ab)
  BY <1>4, <1>5 DEF Range
<1> QED
  BY <1>6, <1>7 DEF ab

LEMMA RangeOfOne == \A m : Range(<<m>>) = {m} /\ <<m>> \in Seq({m})
<1> TAKE m
<1>1. <<m>> \in Seq({m}) /\ Len(<<m>>) = 1 /\ <<m>>[1] = m
  OBVIOUS
<1>2. DOMAIN <<m>> = 1..1
  BY <1>1, LenProperties
<1> QED
  BY <1>1, <1>2 DEF Range

LEMMA RangeOfNone == Range(<<>>) = {}
  BY DEF Range

LEMMA RangeOfAppend ==
  ASSUME NEW S, NEW q \in Seq(S), NEW m \in S
  PROVE  Range(Append(q, m)) = Range(q) \union {m}
<1> DEFINE b == <<m>>
<1>1. b \in Seq(S) /\ Range(b) = {m}
  BY RangeOfOne
<1>2. Append(q, m) = q \o b
  BY AppendIsConcat
<1> HIDE DEF b
<1> QED
  BY <1>1, <1>2, RangeOfConcat

\* What a step leaves in the queues of its desktop, and of the others.
LEMMA SentKeeps ==
  ASSUME TypeQueues, NEW d \in Desktops, NEW msgs \in Seq(Requests), Sent(d, msgs)
  PROVE  /\ Range(req[d]) \subseteq Range(req'[d])
         /\ \A e \in Desktops \ {d} : req'[e] = req[e]
<1>1. req \in [Desktops -> Seq(Requests)]
  BY DEF TypeQueues
<1>2. Range(req[d] \o msgs) = Range(req[d]) \union Range(msgs)
  BY <1>1, RangeOfConcat
<1> QED
  BY <1>1, <1>2 DEF Sent

LEMMA TakenKeeps ==
  ASSUME TypeQueues, NEW d \in Desktops, Taken(d)
  PROVE  /\ Range(rep[d]) = {Head(rep[d])} \union Range(rep'[d])
         /\ \A e \in Desktops \ {d} : rep'[e] = rep[e]
<1>1. rep \in [Desktops -> Seq(Replies)] /\ rep[d] # <<>> /\ rep' = [rep EXCEPT ![d] = Tail(@)]
  BY DEF TypeQueues, Taken
<1>2. Range(rep[d]) = {Head(rep[d])} \union Range(Tail(rep[d]))
  BY <1>1, RangeOfTail
<1> QED
  BY <1>1, <1>2

\* A step of the desktop, by whichever shape.
LEMMA SomethingSent ==
  ASSUME NEW d \in Desktops,
         Calmly(d) \/ Seeds(d) \/ Records(d) \/ RollsBack(d) \/ Orderly(d)
  PROVE  \E msgs \in Seq(Requests) : Sent(d, msgs)
<1>1. CASE Calmly(d) \/ Seeds(d) \/ Records(d)
  <2>1. Quiet(d)
    BY <1>1, QuietShape
  <2> QED
    BY <2>1, MessageSeqs DEF Quiet
<1>2. CASE RollsBack(d)
  <2>1. PICK msgs \in Seq(Calm) :
          Head(rep[d]) \in Refusals /\ Sent(d, <<Incr(Head(rep[d]).ord)>> \o msgs)
    BY <1>2 DEF RollsBack
  <2> DEFINE m == Incr(Head(rep[d]).ord)
  <2>2. m \in Requests
    BY <2>1 DEF Refusals, Incr, Incrs, Requests
  <2>3. Sent(d, <<m>> \o msgs)
    BY <2>1
  <2> HIDE DEF m
  <2>4. <<m>> \in Seq(Requests) /\ msgs \in Seq(Requests)
    BY <2>2, MessageSeqs
  <2> QED
    BY <2>3, <2>4, ConcatProperties
<1>3. CASE Orderly(d)
  BY <1>3, MessageSeqs DEF Orderly
<1> QED
  BY <1>1, <1>2, <1>3

-----------------------------------------------------------------------------
(* Stress tests.  On a connection never lost each order a test waits for   *)
(* is still to be counted: its decrement or its reply is under way.        *)

PanelType ==
  /\ open \in [Desktops -> BOOLEAN] /\ enabled \in [Desktops -> BOOLEAN]
  /\ spin \in [Desktops -> BOOLEAN]
  /\ tests \in [Desktops -> SUBSET SUBSET Orders] /\ posted \in [Desktops -> Nat]
  /\ timer \in [Desktops -> Nat]

Awaited(d, o) ==
  \/ Decr(o, "test") \in Range(req[d])
  \/ \E m \in Range(rep[d]) : m.then = "test" /\ m.ord = o

Watched(d) ==
  /\ ~open[d] => rep[d] = <<>>
  /\ d \notin lost =>
       /\ ~open[d] => ~enabled[d] /\ tests[d] = {} /\ req[d] = <<>>
       /\ \A S \in tests[d] : S # {} /\ \A o \in S : Awaited(d, o)
       /\ spin[d] \/ tests[d] # {} \/ posted[d] > 0

Watch == PanelType /\ \A d \in Desktops : Watched(d)

\* What most steps of a desktop do to its panel, and to its replies.
PanelUsual(d) ==
  /\ UNCHANGED <<open, spin, tests, posted, lost>>
  /\ timer' \in [Desktops -> Nat]
  /\ enabled' \in [Desktops -> BOOLEAN]
  /\ \A e \in Desktops : e # d => enabled'[e] = enabled[e]
  /\ enabled'[d] => enabled[d] \/ rep[d] # <<>>
  /\ ~open[d] => req' = req
  /\ rep' = rep \/ (Taken(d) /\ Head(rep[d]).then # "test")

LEMMA UsualUser ==
  ASSUME PanelType, NEW d \in Desktops,
         \/ AdjustStock(d) \/ SetFlash(d) \/ SetPlain(d) \/ DeleteProduct(d)
         \/ AddProduct(d) \/ Reload(d) \/ Cancel(d) \/ ExecuteOrder(d) \/ KeysChanged(d)
         \/ \E n \in Stocks :
              AcceptStock(d, n) \/ \E flash \in BOOLEAN : AcceptProduct(d, n, flash)
  PROVE  PanelUsual(d)
<1>1. ASSUME UNCHANGED <<panel, open, lost, rep>>, timer' \in [Desktops -> Nat], ~open[d] => req' = req
      PROVE  PanelUsual(d)
  BY <1>1 DEF PanelUsual, panel, PanelType
<1>2. ASSUME NEW entry, NEW msgs, Ask(d, entry, msgs)
      PROVE  UNCHANGED <<panel, open, lost, rep>> /\ open[d]
  BY <1>2 DEF Ask
<1>3. CASE \/ AdjustStock(d) \/ SetFlash(d) \/ DeleteProduct(d) \/ AddProduct(d) \/ Reload(d)
  <2>1. UNCHANGED browser /\ \E entry, msgs : Ask(d, entry, msgs)
    BY <1>3, Zenon DEF AdjustStock, SetFlash, DeleteProduct, AddProduct, Reload
  <2>2. timer' \in [Desktops -> Nat]
    BY <2>1 DEF browser, PanelType
  <2> QED
    BY <1>1, <1>2, <2>1, <2>2
<1>4. CASE SetPlain(d)
  <2>1. timer' = [timer EXCEPT ![d] = @ + 1] /\ \E entry, msgs : Ask(d, entry, msgs)
    BY <1>4, Zenon DEF SetPlain
  <2>2. timer' \in [Desktops -> Nat]
    BY <2>1 DEF PanelType
  <2> QED
    BY <1>1, <1>2, <2>1, <2>2
<1>5. CASE Cancel(d)
  BY <1>1, <1>5 DEF Cancel, PanelType
<1>6. CASE ExecuteOrder(d)
  <2>1. UNCHANGED <<panel, open, lost, rep, browser>> /\ open[d]
    BY <1>6, Zenon DEF ExecuteOrder
  <2>2. timer' \in [Desktops -> Nat]
    BY <2>1 DEF browser, PanelType
  <2> QED
    BY <1>1, <2>1, <2>2
<1>7. CASE KeysChanged(d)
  <2>1. UNCHANGED <<panel, open, lost, rep>> /\ timer' = [timer EXCEPT ![d] = @ - 1] /\ timer[d] > 0
        /\ (~open[d] => req' = req)
    BY <1>7 DEF KeysChanged, Send
  <2>2. timer' \in [Desktops -> Nat]
    BY <2>1 DEF PanelType
  <2> QED
    BY <1>1, <2>1, <2>2
<1>8. ASSUME NEW n \in Stocks, AcceptStock(d, n) PROVE PanelUsual(d)
  <2>1. UNCHANGED <<panel, open, lost, rep, timer>> /\ (~open[d] => req' = req)
    BY <1>8 DEF AcceptStock, Send
  <2> QED
    BY <1>1, <2>1 DEF PanelType
<1>9. ASSUME NEW n \in Stocks, NEW flash \in BOOLEAN, AcceptProduct(d, n, flash)
      PROVE  PanelUsual(d)
  <2>1. UNCHANGED <<panel, open, lost, rep>> /\ timer' = [timer EXCEPT ![d] = @ + 1]
        /\ (~open[d] => req' = req)
    BY <1>9, Zenon DEF AcceptProduct, Send
  <2>2. timer' \in [Desktops -> Nat]
    BY <2>1 DEF PanelType
  <2> QED
    BY <1>1, <2>1, <2>2
<1> QED
  BY <1>3, <1>4, <1>5, <1>6, <1>7, <1>8, <1>9

LEMMA UsualCallback ==
  ASSUME PanelType, NEW d \in Desktops,
         \/ OnSeed(d) \/ OnSeeded(d) \/ OnAdjust(d) \/ OnAdd(d) \/ OnAdjusted(d) \/ OnSync(d)
         \/ OnEnable(d) \/ OnSales(d) \/ OnTitle(d) \/ OnList(d) \/ OnDetail(d) \/ OnPrice(d)
         \/ OnEnsure(d) \/ OnStock(d) \/ OnCapacity(d) \/ OnOrder(d)
  PROVE  PanelUsual(d)
<1>1. ASSUME NEW then, Handle(d, then), then # "test", UNCHANGED <<open, spin, tests, posted, lost>>,
             timer' \in [Desktops -> Nat], enabled' \in [Desktops -> BOOLEAN],
             \A e \in Desktops : e # d => enabled'[e] = enabled[e], ~open[d] => req' = req
      PROVE  PanelUsual(d)
  <2>1. Taken(d) /\ Head(rep[d]).then # "test" /\ rep[d] # <<>>
    BY <1>1 DEF Handle, Taken
  <2> QED
    BY <1>1, <2>1 DEF PanelUsual
<1>2. \A msgs : Send(d, msgs) => (~open[d] => req' = req)
  BY DEF Send
<1>3. ASSUME NEW then, Handle(d, then), then # "test", UNCHANGED <<panel, open, lost>>,
             timer' \in [Desktops -> Nat], ~open[d] => req' = req
      PROVE  PanelUsual(d)
  BY <1>1, <1>3 DEF panel, PanelType
<1>4. CASE \/ OnSeed(d) \/ OnSeeded(d) \/ OnAdjusted(d) \/ OnSync(d) \/ OnDetail(d) \/ OnEnsure(d)
           \/ OnStock(d)
  <2>1. /\ \E then \in {"seed", "seeded", "adjusted", "sync", "detail", "ensure", "stock"} : Handle(d, then)
        /\ UNCHANGED <<panel, open, lost, browser>> /\ \E msgs : Send(d, msgs)
    BY <1>4, Zenon DEF OnSeed, OnSeeded, OnAdjusted, OnSync, OnDetail, OnEnsure, OnStock
  <2>2. timer' \in [Desktops -> Nat]
    BY <2>1 DEF browser, PanelType
  <2>3. PICK then \in {"seed", "seeded", "adjusted", "sync", "detail", "ensure", "stock"} : Handle(d, then)
    BY <2>1
  <2> QED
    BY <1>2, <1>3, <2>1, <2>2, <2>3
<1>5. CASE OnAdjust(d) \/ OnAdd(d)
  <2>1. /\ Handle(d, "adjust") \/ Handle(d, "add")
        /\ UNCHANGED <<panel, open, lost, timer, req>>
    BY <1>5, Zenon DEF OnAdjust, OnAdd
  <2> QED
    BY <1>3, <2>1 DEF PanelType
<1>6. CASE OnEnable(d)
  <2>1. /\ Handle(d, "enable") /\ UNCHANGED <<panel, open, lost>> /\ \E msgs : Send(d, msgs)
        /\ timer' = [timer EXCEPT ![d] = @ + 1]
    BY <1>6, Zenon DEF OnEnable
  <2>2. timer' \in [Desktops -> Nat]
    BY <2>1 DEF PanelType
  <2> QED
    BY <1>2, <1>3, <2>1, <2>2
<1>7. CASE OnSales(d) \/ OnTitle(d) \/ OnList(d)
  <2>1. /\ Handle(d, "sales") \/ Handle(d, "title") \/ Handle(d, "list")
        /\ UNCHANGED <<enabled, spin, tests, posted, open, lost, browser>>
        /\ (~open[d] => req' = req)
    BY <1>7 DEF OnSales, OnTitle, OnList, Send
  <2> QED
    BY <1>1, <2>1 DEF browser, PanelType
<1>8. CASE OnPrice(d)
  <2>1. PICK b \in BOOLEAN :
        /\ Handle(d, "price") /\ UNCHANGED <<spin, tests, posted, open, lost, browser>>
        /\ enabled' = [enabled EXCEPT ![d] = @ /\ b] /\ \E msgs : Send(d, msgs)
    <3> DEFINE kind == IF Value(d) = None THEN "plain" ELSE "flash"
               sh == IF shown[d] = "none" THEN kind ELSE shown[d]
    <3>1. (sh = "flash") \in BOOLEAN
      OBVIOUS
    <3>2. /\ Handle(d, "price") /\ UNCHANGED <<spin, tests, posted, open, lost, browser>>
          /\ enabled' = [enabled EXCEPT ![d] = @ /\ sh = "flash"] /\ \E msgs : Send(d, msgs)
      BY <1>8, Zenon DEF OnPrice
    <3> HIDE DEF sh
    <3> QED
      BY <3>1, <3>2, Zenon
  <2>2. enabled' \in [Desktops -> BOOLEAN] /\ \A e \in Desktops : e # d => enabled'[e] = enabled[e]
    BY <2>1 DEF PanelType
  <2> QED
    BY <1>1, <1>2, <2>1, <2>2 DEF browser, PanelType
<1>9. CASE OnCapacity(d)
  <2>1. PICK b \in BOOLEAN :
        /\ Handle(d, "capacity") /\ UNCHANGED <<spin, tests, posted, open, lost, browser>>
        /\ enabled' = [enabled EXCEPT ![d] = b] /\ \E msgs : Send(d, msgs)
    <3>1. (Captured(d) > 0) \in BOOLEAN
      OBVIOUS
    <3> QED
      BY <1>9, <3>1, Zenon DEF OnCapacity
  <2>2. enabled' \in [Desktops -> BOOLEAN] /\ \A e \in Desktops : e # d => enabled'[e] = enabled[e]
    BY <2>1 DEF PanelType
  <2> QED
    BY <1>1, <1>2, <2>1, <2>2 DEF browser, PanelType
<1>10. CASE OnOrder(d)
  <2>1. PICK b \in BOOLEAN :
        /\ Handle(d, "order") /\ UNCHANGED <<spin, tests, posted, open, lost, browser>>
        /\ enabled' = [enabled EXCEPT ![d] = @ /\ b] /\ \E msgs : Send(d, msgs)
    <3>1. (shown[d] = "flash") \in BOOLEAN
      OBVIOUS
    <3> QED
      BY <1>10, <3>1, Zenon DEF OnOrder
  <2>2. enabled' \in [Desktops -> BOOLEAN] /\ \A e \in Desktops : e # d => enabled'[e] = enabled[e]
    BY <2>1 DEF PanelType
  <2> QED
    BY <1>1, <1>2, <2>1, <2>2 DEF browser, PanelType
<1> QED
  BY <1>4, <1>5, <1>6, <1>7, <1>8, <1>9, <1>10

\* A desktop the step leaves alone.
LEMMA WatchIntro ==
  ASSUME Watch, NEW d \in Desktops, PanelType', Watched(d)', lost \subseteq lost',
         \A e \in Desktops \ {d} :
           /\ open'[e] = open[e] /\ enabled'[e] = enabled[e] /\ spin'[e] = spin[e]
           /\ tests'[e] = tests[e] /\ posted'[e] = posted[e]
           /\ req'[e] = req[e] /\ rep'[e] = rep[e]
  PROVE  Watch'
<1>1. ASSUME NEW e \in Desktops, e # d PROVE Watched(e)'
  <2>1. Watched(e)
    BY DEF Watch
  <2>2. \A o : Awaited(e, o) => Awaited(e, o)'
    BY <1>1 DEF Awaited
  <2> QED
    BY <1>1, <2>1, <2>2 DEF Watched
<1> QED
  BY <1>1 DEF Watch

LEMMA AwaitedKept ==
  ASSUME NEW d \in Desktops, NEW o, Awaited(d, o), Range(req[d]) \subseteq Range(req'[d]),
         \A m \in Range(rep[d]) : m.then = "test" => m \in Range(rep'[d])
  PROVE  Awaited(d, o)'
  BY DEF Awaited

LEMMA WatchUsual ==
  ASSUME TypeQueues, Watch, NEW d \in Desktops, PanelUsual(d),
         NEW msgs \in Seq(Requests), Sent(d, msgs)
  PROVE  Watch'
<1>1. /\ Range(req[d]) \subseteq Range(req'[d])
      /\ \A e \in Desktops \ {d} : req'[e] = req[e]
  BY SentKeeps
<1>2. /\ \A m \in Range(rep[d]) : m.then = "test" => m \in Range(rep'[d])
      /\ \A e \in Desktops \ {d} : rep'[e] = rep[e]
  <2>1. CASE rep' = rep
    BY <2>1
  <2>2. CASE Taken(d) /\ Head(rep[d]).then # "test"
    BY <2>2, TakenKeeps
  <2> QED
    BY <2>1, <2>2 DEF PanelUsual
<1>3. PanelType' /\ lost' = lost
  BY DEF PanelUsual, Watch, PanelType
<1>4. Watched(d)'
  <2>1. Watched(d) /\ UNCHANGED <<open, spin, tests, posted, lost>>
    BY DEF Watch, PanelUsual
  <2>2. ~open[d] => rep'[d] = <<>> /\ req' = req /\ (enabled'[d] => enabled[d])
    <3>1. ~open[d] => rep[d] = <<>>
      BY <2>1 DEF Watched
    <3> QED
      BY <3>1 DEF PanelUsual, Taken
  <2>3. \A o : Awaited(d, o) => Awaited(d, o)'
    BY <1>1, <1>2, AwaitedKept
  <2> QED
    BY <2>1, <2>2, <2>3 DEF Watched
<1> QED
  BY <1>1, <1>2, <1>3, <1>4, WatchIntro DEF PanelUsual

LEMMA WatchConnect ==
  ASSUME TypeQueues, Watch, NEW d \in Desktops, Connect(d)
  PROVE  Watch'
<1>1. /\ ~open[d] /\ open' = [open EXCEPT ![d] = TRUE]
      /\ \E m : req' = [req EXCEPT ![d] = <<m>>]
      /\ UNCHANGED <<enabled, spin, tests, posted, timer, rep, lost>>
  BY Zenon DEF Connect, panel, browser
<1>2. PanelType'
  BY <1>1 DEF Watch, PanelType
<1>3. open'[d] /\ \A e \in Desktops \ {d} : open'[e] = open[e] /\ req'[e] = req[e]
  BY <1>1 DEF Watch, PanelType, TypeQueues
<1>4. Watched(d)'
  <2>1. d \notin lost => tests[d] = {}
    BY <1>1 DEF Watch, Watched
  <2> QED
    BY <1>1, <1>3, <2>1 DEF Watch, Watched
<1> QED
  BY <1>1, <1>2, <1>3, <1>4, WatchIntro

LEMMA WatchLose ==
  ASSUME TypeQueues, Watch, NEW d \in Desktops, Lose(d)
  PROVE  Watch'
<1>1. /\ lost' = lost \union {d} /\ open' = [open EXCEPT ![d] = FALSE]
      /\ rep' = [rep EXCEPT ![d] = <<>>] /\ tests' = [tests EXCEPT ![d] = {}]
      /\ \E q : req' = [req EXCEPT ![d] = q]
      /\ UNCHANGED <<enabled, spin, posted, timer>>
  BY Zenon DEF Lose, browser
<1>2. PanelType'
  BY <1>1 DEF Watch, PanelType
<1>3. rep'[d] = <<>> /\ d \in lost'
  BY <1>1 DEF TypeQueues
<1>4. \A e \in Desktops \ {d} :
        open'[e] = open[e] /\ tests'[e] = tests[e] /\ req'[e] = req[e] /\ rep'[e] = rep[e]
  BY <1>1 DEF Watch, PanelType, TypeQueues
<1>5. Watched(d)'
  BY <1>3 DEF Watched
<1> QED
  BY <1>1, <1>2, <1>4, <1>5, WatchIntro

LEMMA WatchEnd ==
  ASSUME TypeQueues, Watch, NEW d \in Desktops, EndTest(d)
  PROVE  Watch'
<1>1. PICK b \in BOOLEAN :
        /\ posted[d] > 0 /\ posted' = [posted EXCEPT ![d] = @ - 1]
        /\ spin' = [spin EXCEPT ![d] = TRUE]
        /\ enabled' = [enabled EXCEPT ![d] = open[d] /\ b]
        /\ Send(d, Update(d, shown[d])) /\ UNCHANGED <<tests, timer, rep, open, lost>>
  <2>1. (shown[d] = "flash") \in BOOLEAN
    OBVIOUS
  <2> QED
    BY <2>1, Zenon DEF EndTest, browser
<1>2. PanelType'
  BY <1>1 DEF Watch, PanelType
<1>3. /\ Range(req[d]) \subseteq Range(req'[d])
      /\ \A e \in Desktops \ {d} : req'[e] = req[e]
  BY <1>1, SendSent, SentKeeps, LoadType, MessageSeqs
<1>4. /\ spin'[d] /\ (enabled'[d] => open[d])
      /\ \A e \in Desktops \ {d} :
           posted'[e] = posted[e] /\ spin'[e] = spin[e] /\ enabled'[e] = enabled[e]
  BY <1>1 DEF Watch, PanelType
<1>5. ~open[d] => req' = req
  BY <1>1 DEF Send
<1>6. \A o : Awaited(d, o) => Awaited(d, o)'
  BY <1>1, <1>3, AwaitedKept
<1>7. Watched(d)'
  BY <1>1, <1>4, <1>5, <1>6 DEF Watch, Watched
<1> QED
  BY <1>1, <1>2, <1>3, <1>4, <1>7, WatchIntro

LEMMA WatchBatch ==
  ASSUME TypeQueues, Watch, NEW d \in Desktops, OnBatchStressTest(d)
  PROVE  Watch'
<1> DEFINE S == NextOrder..(NextOrder + BatchSize - 1)
           msgs == [i \in 1..BatchSize |-> Decr(NextOrder + i - 1, "test")]
<1>1. /\ enabled[d] /\ enabled' = [enabled EXCEPT ![d] = FALSE]
      /\ spin' = [spin EXCEPT ![d] = FALSE]
      /\ UNCHANGED <<posted, timer, rep, open, lost>>
      /\ open[d] => Place(S, d) /\ Send(d, msgs) /\ tests' = [tests EXCEPT ![d] = @ \union {S}]
      /\ ~open[d] => UNCHANGED <<req, tests>>
  BY Zenon DEF OnBatchStressTest, browser
<1>2. CASE ~open[d]
  <2>1. d \in lost
    BY <1>1, <1>2 DEF Watch, Watched
  <2>2. PanelType' /\ \A e \in Desktops \ {d} : enabled'[e] = enabled[e] /\ spin'[e] = spin[e]
    BY <1>1, <1>2 DEF Watch, PanelType
  <2>3. Watched(d)'
    BY <1>1, <2>1 DEF Watch, Watched
  <2> QED
    BY <1>1, <1>2, <2>2, <2>3, WatchIntro
<1>3. CASE open[d]
  <2>1. S \subseteq Orders /\ NextOrder \in Nat /\ BatchSize \in Nat \ {0}
    BY <1>1, <1>3, NextOrderType, ConstantsAssumption DEF Place, In
  <2>2. \A o \in S : o - NextOrder + 1 \in 1..BatchSize /\ NextOrder + (o - NextOrder + 1) - 1 = o
    BY <2>1
  <2>3. S # {}
    BY <2>1
  <2>4. /\ msgs \in [1..BatchSize -> Requests] /\ DOMAIN msgs = 1..BatchSize
        /\ \A o \in S : Decr(o, "test") \in Range(msgs)
    <3>1. \A i \in 1..BatchSize : msgs[i] = Decr(NextOrder + i - 1, "test") /\ NextOrder + i - 1 \in S
      BY <2>1
    <3>2. \A o \in Orders : Decr(o, "test") \in Requests
      BY DEF Decr, Decrs, Requests
    <3>3. DOMAIN msgs = 1..BatchSize
      OBVIOUS
    <3>4. msgs = [i \in DOMAIN msgs |-> msgs[i]]
      OBVIOUS
    <3> HIDE DEF msgs, S
    <3>5. \A i \in 1..BatchSize : msgs[i] \in Requests
      BY <2>1, <3>1, <3>2
    <3>6. msgs \in [1..BatchSize -> Requests]
      BY <3>3, <3>4, <3>5
    <3>7. ASSUME NEW o \in S PROVE Decr(o, "test") \in Range(msgs)
      <4>1. o - NextOrder + 1 \in DOMAIN msgs /\ msgs[o - NextOrder + 1] = Decr(o, "test")
        BY <2>2, <3>1, <3>3
      <4> QED
        BY <4>1 DEF Range
    <3> QED
      BY <3>3, <3>6, <3>7
  <2> HIDE DEF msgs
  <2>5. msgs \in Seq(Requests)
    BY <2>1, <2>4, SeqDef
  <2> HIDE DEF S
  <2>6. Send(d, msgs) /\ tests' = [tests EXCEPT ![d] = @ \union {S}]
    BY <1>1, <1>3
  <2>7. /\ Range(req[d]) \subseteq Range(req'[d])
        /\ \A e \in Desktops \ {d} : req'[e] = req[e]
    BY <2>5, <2>6, SendSent, SentKeeps
  <2>8. \A o \in S : Decr(o, "test") \in Range(req'[d])
    <3>1. req'[d] = req[d] \o msgs /\ req[d] \in Seq(Requests)
      BY <1>3, <2>6 DEF Send, TypeQueues
    <3>2. Range(req'[d]) = Range(req[d]) \union Range(msgs)
      BY <2>5, <3>1, RangeOfConcat
    <3> QED
      BY <2>4, <3>2
  <2>9. PanelType' /\ tests'[d] = tests[d] \union {S}
        /\ \A e \in Desktops \ {d} :
             enabled'[e] = enabled[e] /\ spin'[e] = spin[e] /\ tests'[e] = tests[e]
    BY <1>1, <2>1, <2>6 DEF Watch, PanelType
  <2>10. \A o : Awaited(d, o) => Awaited(d, o)'
    BY <1>1, <2>7, AwaitedKept
  <2>11. \A o \in S : Awaited(d, o)'
    BY <2>8 DEF Awaited
  <2>12. Watched(d)'
    BY <1>1, <1>3, <2>3, <2>9, <2>10, <2>11 DEF Watch, Watched
  <2> QED
    BY <1>1, <2>7, <2>9, <2>12, WatchIntro
<1> QED
  BY <1>2, <1>3

\* The server's step: a reply to a connection that is up, for a decrement always.
LEMMA ServedReply ==
  ASSUME NEW d \in Desktops, Serve(d)
  PROVE  /\ req[d] # <<>> /\ req' = [req EXCEPT ![d] = Tail(@)]
         /\ UNCHANGED <<panel, browser, open, lost>>
         /\ rep' = rep \/ (open[d] /\ \E a : rep' = [rep EXCEPT ![d] = Append(@, a)])
         /\ open[d] /\ Head(req[d]).cmd = "DECR" =>
              \E a : /\ a.then = Head(req[d]).then /\ a.ord = Head(req[d]).ord
                     /\ rep' = [rep EXCEPT ![d] = Append(@, a)]
<1>1. \A a : Answer(d, a) =>
         /\ rep' = rep \/ (open[d] /\ rep' = [rep EXCEPT ![d] = Append(@, a)])
         /\ open[d] => rep' = [rep EXCEPT ![d] = Append(@, a)]
  BY Zenon DEF Answer
<1>2. \A cmd : Execute(d, cmd) =>
         /\ req[d] # <<>> /\ req' = [req EXCEPT ![d] = Tail(@)] /\ Head(req[d]).cmd = cmd
         /\ UNCHANGED <<panel, browser, open, lost>>
  BY Zenon DEF Execute
<1>3. CASE ServeDecr(d)
  <2> DEFINE a == [then |-> Request(d).then, ord |-> Request(d).ord, val |-> OrZero(db.counter) - 1]
  <2>1. Execute(d, "DECR") /\ Answer(d, a)
    BY <1>3, Zenon DEF ServeDecr
  <2>2. a.then = Head(req[d]).then /\ a.ord = Head(req[d]).ord
    BY DEF Request
  <2> HIDE DEF a
  <2> QED
    BY <1>1, <1>2, <2>1, <2>2
<1>4. CASE ServeAstray(d)
  <2> DEFINE a == [then |-> Request(d).then, ord |-> Request(d).ord, val |-> -1]
  <2>1. /\ Execute(d, "DECR") \/ Execute(d, "INCR")
        /\ IF Request(d).cmd = "INCR" THEN rep' = rep ELSE Answer(d, a)
    BY <1>4, Zenon DEF ServeAstray
  <2>2. /\ a.then = Head(req[d]).then /\ a.ord = Head(req[d]).ord
        /\ Request(d).cmd = Head(req[d]).cmd
    BY DEF Request
  <2> HIDE DEF a
  <2>3. CASE Request(d).cmd = "INCR"
    BY <1>2, <2>1, <2>2, <2>3
  <2>4. CASE Request(d).cmd # "INCR"
    BY <1>1, <1>2, <2>1, <2>2, <2>4
  <2> QED
    BY <2>3, <2>4
<1>5. CASE ServeRead(d) \/ ServeWrite(d) \/ ServeIncr(d) \/ ServeLpush(d) \/ ServeLpop(d) \/ ServePing(d)
  <2>1. /\ \E cmd \in {"read", "write", "INCR", "LPUSH", "LPOP", "PING"} : Execute(d, cmd)
        /\ rep' = rep \/ \E a : Answer(d, a)
    <3>1. CASE ServeRead(d)
      BY <3>1, Zenon DEF ServeRead
    <3>2. CASE ServeWrite(d)
      BY <3>2, Zenon DEF ServeWrite
    <3>3. CASE ServeIncr(d) \/ ServeLpush(d) \/ ServeLpop(d)
      BY <3>3, Zenon DEF ServeIncr, ServeLpush, ServeLpop
    <3>4. CASE ServePing(d)
      BY <3>4, Zenon DEF ServePing
    <3> QED
      BY <1>5, <3>1, <3>2, <3>3, <3>4
  <2>2. Head(req[d]).cmd # "DECR"
    BY <1>2, <2>1
  <2> QED
    BY <1>1, <1>2, <2>1, <2>2
<1> QED
  BY <1>3, <1>4, <1>5 DEF Serve

LEMMA WatchServe ==
  ASSUME TypeQueues, Watch, NEW d \in Desktops, Serve(d)
  PROVE  Watch'
<1>1. /\ req[d] # <<>> /\ req' = [req EXCEPT ![d] = Tail(@)]
      /\ UNCHANGED <<panel, browser, open, lost>>
      /\ rep' = rep \/ (open[d] /\ \E a : rep' = [rep EXCEPT ![d] = Append(@, a)])
  BY ServedReply
<1>2. req \in [Desktops -> Seq(Requests)] /\ rep \in [Desktops -> Seq(Replies)]
  BY DEF TypeQueues
<1>3. /\ Range(req[d]) = {Head(req[d])} \union Range(req'[d])
      /\ \A e \in Desktops \ {d} : req'[e] = req[e]
  <2>1. Range(req[d]) = {Head(req[d])} \union Range(Tail(req[d]))
    BY <1>1, <1>2, RangeOfTail
  <2> QED
    BY <1>1, <1>2, <2>1
<1>4. \A a : rep' = [rep EXCEPT ![d] = Append(@, a)] =>
               /\ Range(rep'[d]) = Range(rep[d]) \union {a}
               /\ \A e \in Desktops \ {d} : rep'[e] = rep[e]
  <2> SUFFICES ASSUME NEW a, rep' = [rep EXCEPT ![d] = Append(@, a)]
               PROVE  /\ Range(rep'[d]) = Range(rep[d]) \union {a}
                      /\ \A e \in Desktops \ {d} : rep'[e] = rep[e]
    OBVIOUS
  <2> DEFINE R == Replies \union {a}
  <2>1. rep[d] \in Seq(R) /\ a \in R
    BY <1>2, SeqMonotonic
  <2> HIDE DEF R
  <2>2. Range(Append(rep[d], a)) = Range(rep[d]) \union {a}
    BY <2>1, RangeOfAppend
  <2> QED
    BY <1>2, <2>2
<1>5. /\ Range(rep[d]) \subseteq Range(rep'[d])
      /\ \A e \in Desktops \ {d} : rep'[e] = rep[e]
  BY <1>1, <1>4
<1>6. PanelType' /\ \A e \in Desktops : /\ open'[e] = open[e] /\ enabled'[e] = enabled[e]
                                        /\ spin'[e] = spin[e] /\ tests'[e] = tests[e]
                                        /\ posted'[e] = posted[e]
  BY <1>1 DEF panel, browser, Watch, PanelType
<1>7. ASSUME NEW o, Awaited(d, o), open[d] PROVE Awaited(d, o)'
  <2>1. CASE Decr(o, "test") = Head(req[d])
    <3>1. Head(req[d]).cmd = "DECR" /\ Head(req[d]).then = "test" /\ Head(req[d]).ord = o
      BY <2>1 DEF Decr
    <3>2. PICK a : a.then = "test" /\ a.ord = o /\ rep' = [rep EXCEPT ![d] = Append(@, a)]
      BY <1>7, <3>1, ServedReply
    <3> QED
      BY <1>4, <3>2 DEF Awaited
  <2>2. CASE Decr(o, "test") # Head(req[d])
    BY <1>3, <1>5, <1>7, <2>2 DEF Awaited
  <2> QED
    BY <2>1, <2>2
<1>8. Watched(d)'
  <2>1. Watched(d) /\ lost' = lost
    BY <1>1 DEF Watch
  <2>2. ~open[d] => rep'[d] = <<>>
    BY <1>1, <2>1 DEF Watched
  <2>3. d \notin lost /\ tests[d] # {} => open[d]
    BY <2>1 DEF Watched
  <2>4. d \notin lost => open[d]
    BY <1>1, <2>1 DEF Watched
  <2> QED
    BY <1>6, <1>7, <2>1, <2>2, <2>3, <2>4 DEF Watched
<1> QED
  BY <1>1, <1>3, <1>5, <1>6, <1>8, WatchIntro

LEMMA WatchTest ==
  ASSUME TypeQueues, Watch, NEW d \in Desktops, OnTest(d)
  PROVE  Watch'
<1> DEFINE o == Head(rep[d]).ord
           left == {S \ {o} : S \in tests[d]}
<1>1. /\ Handle(d, "test") /\ Send(d, Outcome(d))
      /\ tests' = [tests EXCEPT ![d] = left \ {{}}]
      /\ posted' = [posted EXCEPT ![d] = IF {} \in left THEN @ + 1 ELSE @]
      /\ UNCHANGED <<enabled, spin, timer, open, lost>>
  BY Zenon DEF OnTest, browser
<1>2. PICK msgs \in Seq(Requests) : Sent(d, msgs)
  BY OutcomeShape, SomethingSent
<1>3. /\ Range(req[d]) \subseteq Range(req'[d])
      /\ \A e \in Desktops \ {d} : req'[e] = req[e]
  BY <1>2, SentKeeps
<1>4. /\ Range(rep[d]) = {Head(rep[d])} \union Range(rep'[d])
      /\ \A e \in Desktops \ {d} : rep'[e] = rep[e]
  BY <1>1, HandleFacts, TakenKeeps
<1>5. left \subseteq SUBSET Orders
  BY DEF Watch, PanelType
<1>6. \A S \in left : \E T \in tests[d] : S = T \ {o}
  OBVIOUS
<1>7. tests[d] # {} => left # {}
  OBVIOUS
<1> HIDE DEF left
<1>8. PanelType'
  <2>1. tests' \in [Desktops -> SUBSET SUBSET Orders]
    BY <1>1, <1>5 DEF Watch, PanelType
  <2>2. posted' \in [Desktops -> Nat]
    BY <1>1 DEF Watch, PanelType
  <2> QED
    BY <1>1, <2>1, <2>2 DEF Watch, PanelType
<1>9. /\ tests'[d] = left \ {{}}
      /\ {} \in left => posted'[d] > 0
      /\ posted[d] > 0 => posted'[d] > 0
      /\ \A e \in Desktops \ {d} : tests'[e] = tests[e] /\ posted'[e] = posted[e]
  BY <1>1 DEF Watch, PanelType
<1>10. ASSUME NEW p, Awaited(d, p), p # o PROVE Awaited(d, p)'
  BY <1>3, <1>4, <1>10 DEF Awaited
<1>11. open[d]
  BY <1>1 DEF Watch, Watched, Handle
<1>12. Watched(d)'
  <2>1. Watched(d) /\ lost' = lost /\ open'[d] /\ spin' = spin
    BY <1>1, <1>11 DEF Watch
  <2> SUFFICES ASSUME d \notin lost
               PROVE  /\ \A S \in tests'[d] : S # {} /\ \A p \in S : Awaited(d, p)'
                      /\ spin'[d] \/ tests'[d] # {} \/ posted'[d] > 0
    BY <2>1, Zenon DEF Watched
  <2>2. \A S \in tests'[d] : S # {} /\ \A p \in S : Awaited(d, p)'
    <3> SUFFICES ASSUME NEW S \in tests'[d] PROVE S # {} /\ \A p \in S : Awaited(d, p)'
      OBVIOUS
    <3>1. PICK T \in tests[d] : S = T \ {o}
      BY <1>6, <1>9
    <3>2. \A p \in T : Awaited(d, p)
      BY <2>1 DEF Watched
    <3> QED
      BY <1>9, <1>10, <3>1, <3>2
  <2>3. spin'[d] \/ tests'[d] # {} \/ posted'[d] > 0
    <3>1. tests[d] # {} => tests'[d] # {} \/ posted'[d] > 0
      BY <1>7, <1>9
    <3> QED
      BY <1>9, <2>1, <3>1 DEF Watched
  <2> QED
    BY <2>2, <2>3
<1> QED
  BY <1>1, <1>3, <1>4, <1>8, <1>9, <1>12, WatchIntro

LEMMA WatchInit == Init => Watch
<1> SUFFICES ASSUME Init PROVE Watch
  OBVIOUS
<1>1. PICK start \in {"empty", "running", "cut"} :
        /\ open = [d \in Desktops |-> start # "empty"]
        /\ enabled = [d \in Desktops |-> start = "running" /\ Flash0 > 0]
        /\ req = [d \in Desktops |-> <<>>] /\ rep = [d \in Desktops |-> <<>>]
        /\ timer = [d \in Desktops |-> 0] /\ spin = [d \in Desktops |-> TRUE]
        /\ tests = [d \in Desktops |-> {}] /\ posted = [d \in Desktops |-> 0]
  BY Zenon DEF Init
<1>2. PanelType
  BY <1>1 DEF PanelType
<1>3. \A d \in Desktops : Watched(d)
  BY <1>1 DEF Watched
<1> QED
  BY <1>2, <1>3 DEF Watch

LEMMA WatchStep == TypeStore /\ TypeQueues /\ Watch /\ [Next]_vars => Watch'
<1> SUFFICES ASSUME TypeStore, TypeQueues, Watch, [Next]_vars PROVE Watch'
  OBVIOUS
<1>1. CASE UNCHANGED vars
  BY <1>1 DEF vars, panel, browser, Watch, PanelType, Watched, Awaited
<1>2. ASSUME NEW d \in Desktops,
             Connect(d) \/ Lose(d) \/ User(d) \/ EventLoop(d) \/ Serve(d)
      PROVE  Watch'
  <2> DEFINE Shaped == Calmly(d) \/ Seeds(d) \/ Records(d) \/ RollsBack(d) \/ Orderly(d)
  <2>1. PanelUsual(d) /\ Shaped => Watch'
    BY WatchUsual, SomethingSent
  <2>2. PanelType
    BY DEF Watch
  <2>3. CASE User(d)
    <3>1. Shaped
      BY <2>3, MenuShape, DialogShape, OrderShape, Zenon DEF User
    <3>2. PanelUsual(d) \/ OnBatchStressTest(d)
      BY <2>2, <2>3, UsualUser, Zenon DEF User
    <3> QED
      BY <2>1, <3>1, <3>2, WatchBatch
  <2>4. CASE EventLoop(d)
    <3>1. CASE EndTest(d)
      BY <3>1, WatchEnd
    <3>2. CASE OnTest(d)
      BY <3>2, WatchTest
    <3>3. CASE ~EndTest(d) /\ ~OnTest(d)
      <4>1. PanelUsual(d)
        BY <2>2, <2>4, <3>3, UsualUser, UsualCallback, Zenon DEF EventLoop, Callback
      <4>2. Shaped
        BY <2>4, CallbackShape, OutcomeShape, DialogShape, Zenon DEF EventLoop, Callback
      <4> QED
        BY <2>1, <4>1, <4>2
    <3> QED
      BY <3>1, <3>2, <3>3
  <2> QED
    BY <1>2, <2>3, <2>4, WatchConnect, WatchLose, WatchServe
<1> QED
  BY <1>1, <1>2, Zenon DEF Next

LEMMA Watching == Spec => []Watch
<1>1. IInv => TypeStore /\ TypeQueues
  BY DEF IInv
<1> QED
  BY <1>1, Inductive, WatchInit, WatchStep, PTL DEF Spec

-----------------------------------------------------------------------------
(* The records of orders.  An order that got an item is credited once: by  *)
(* the reply to its decrement, then by the record sent, at one desktop.    *)

Holds(q, C) == Range(q) \intersect C # {}
Once(q, C) == \A i, j \in 1..Len(q) : q[i] \in C /\ q[j] \in C => i = j

Record(o) == {Lpush(o)}
Won(o) == [then : {"order", "test"}, ord : {o}, val : Nat]
Has(d, o) == Holds(req[d], Record(o)) \/ Holds(rep[d], Won(o))

LoneAt(d, o) ==
  /\ Once(req[d], Record(o)) /\ Once(rep[d], Won(o))
  /\ ~(Holds(req[d], Record(o)) /\ Holds(rep[d], Won(o)))
Lone(o) ==
  \A d \in Desktops : LoneAt(d, o) /\ \A e \in Desktops : Has(d, o) /\ Has(e, o) => d = e

\* The orders credited and not yet recorded.
Owing == {o \in Orders : \E d \in Desktops : Has(d, o)}

\* The placeholder is taken out by the request that follows it.
Paired(q) ==
  \A i \in 1..Len(q) :
    /\ q[i] = Lpush(Mark) => i < Len(q) /\ q[i + 1] = Lpop
    /\ q[i] = Lpop /\ i > 1 => q[i - 1] = Lpush(Mark)

\* The desktops whose placeholder is in the queue.
Marked == {d \in Desktops : req[d] # <<>> /\ req[d][1] = Lpop}

Booked ==
  /\ \A d \in Desktops : Paired(req[d])
  /\ \A o \in Orders : Lone(o)
  /\ Owing \subseteq got
  /\ IsFiniteSet(Marked)
  /\ Len(queue) + Cardinality(Owing) = Cardinality(got) + Cardinality(Marked)

Books ==
  /\ queue \in Seq(Orders \union {Mark}) /\ got \subseteq Orders
  /\ \A o \in got : phase[o] \notin {"idle", "placed"}
  /\ lost = {} => Booked

LEMMA HoldsTail ==
  ASSUME NEW S, NEW q \in Seq(S), q # <<>>, NEW C
  PROVE  Holds(q, C) <=> Head(q) \in C \/ Holds(Tail(q), C)
  BY RangeOfTail DEF Holds

LEMMA HoldsConcat ==
  ASSUME NEW S, NEW a \in Seq(S), NEW b \in Seq(S), NEW C
  PROVE  Holds(a \o b, C) <=> Holds(a, C) \/ Holds(b, C)
<1>1. Range(a \o b) = Range(a) \union Range(b)
  BY RangeOfConcat
<1> QED
  BY <1>1 DEF Holds

LEMMA OnceTail ==
  ASSUME NEW S, NEW q \in Seq(S), q # <<>>, NEW C, Once(q, C)
  PROVE  Once(Tail(q), C) /\ (Head(q) \in C => ~Holds(Tail(q), C))
<1> DEFINE t == Tail(q)
<1>1. /\ t \in Seq(S) /\ Len(q) \in Nat \ {0} /\ Len(t) = Len(q) - 1
      /\ \A i \in 1..Len(t) : t[i] = q[i + 1]
      /\ Head(q) = q[1]
  BY HeadTailProperties, EmptySeq
<1>2. DOMAIN t = 1..Len(t)
  BY <1>1, LenProperties
<1> HIDE DEF t
<1>3. \A i \in 1..Len(t) : i + 1 \in 1..Len(q) /\ i + 1 # 1
  BY <1>1
<1>4. Once(t, C)
  <2> SUFFICES ASSUME NEW i \in 1..Len(t), NEW j \in 1..Len(t), t[i] \in C, t[j] \in C
               PROVE  i = j
    BY DEF Once
  <2>1. i + 1 = j + 1
    BY <1>1, <1>3 DEF Once
  <2> QED
    BY <2>1
<1>5. ASSUME Head(q) \in C, Holds(t, C) PROVE FALSE
  <2>1. PICK i \in 1..Len(t) : t[i] \in C
    BY <1>2, <1>5 DEF Holds, Range
  <2>2. q[i + 1] \in C /\ q[1] \in C /\ 1 \in 1..Len(q)
    BY <1>1, <1>5, <2>1
  <2> QED
    BY <1>3, <2>2 DEF Once
<1> QED
  BY <1>4, <1>5 DEF t

LEMMA OnceConcat ==
  ASSUME NEW S, NEW a \in Seq(S), NEW b \in Seq(S), NEW C, Once(a, C), Once(b, C),
         ~(Holds(a, C) /\ Holds(b, C))
  PROVE  Once(a \o b, C)
<1> DEFINE ab == a \o b
<1>1. /\ Len(a) \in Nat /\ Len(b) \in Nat /\ Len(ab) = Len(a) + Len(b)
      /\ \A i \in 1..Len(a) : ab[i] = a[i]
      /\ \A i \in 1..Len(ab) : i > Len(a) => ab[i] = b[i - Len(a)]
      /\ DOMAIN a = 1..Len(a) /\ DOMAIN b = 1..Len(b)
  BY ConcatProperties, LenProperties
<1> HIDE DEF ab
<1>2. \A i \in 1..Len(ab) : i \notin 1..Len(a) => i > Len(a) /\ i - Len(a) \in 1..Len(b)
  BY <1>1
<1> SUFFICES ASSUME NEW i \in 1..Len(ab), NEW j \in 1..Len(ab), ab[i] \in C, ab[j] \in C
             PROVE  i = j
  BY DEF Once, ab
<1>3. ASSUME NEW k \in 1..Len(ab), ab[k] \in C
      PROVE  (k \in 1..Len(a) => Holds(a, C)) /\ (k \notin 1..Len(a) => Holds(b, C))
  <2>1. CASE k \in 1..Len(a)
    BY <1>1, <1>3, <2>1 DEF Holds, Range
  <2>2. CASE k \notin 1..Len(a)
    <3>1. k - Len(a) \in DOMAIN b /\ b[k - Len(a)] \in C
      BY <1>1, <1>2, <1>3, <2>2
    <3> QED
      BY <2>2, <3>1 DEF Holds, Range
  <2> QED
    BY <2>1, <2>2
<1>4. CASE i \in 1..Len(a) /\ j \in 1..Len(a)
  BY <1>1, <1>4 DEF Once
<1>5. CASE i \notin 1..Len(a) /\ j \notin 1..Len(a)
  <2>1. i - Len(a) = j - Len(a)
    BY <1>1, <1>2, <1>5 DEF Once
  <2> QED
    BY <1>1, <2>1
<1>6. ~(i \in 1..Len(a) /\ j \notin 1..Len(a)) /\ ~(i \notin 1..Len(a) /\ j \in 1..Len(a))
  BY <1>3
<1> QED
  BY <1>4, <1>5, <1>6

LEMMA OnceNone ==
  ASSUME NEW S, NEW q \in Seq(S), NEW C, ~Holds(q, C)
  PROVE  Once(q, C)
<1>1. DOMAIN q = 1..Len(q)
  BY LenProperties
<1> QED
  BY <1>1 DEF Once, Holds, Range

LEMMA PairedTail ==
  ASSUME NEW S, NEW q \in Seq(S), q # <<>>, Paired(q)
  PROVE  /\ Paired(Tail(q))
         /\ Tail(q) # <<>> /\ Tail(q)[1] = Lpop <=> q[1] = Lpush(Mark)
<1> DEFINE t == Tail(q)
<1>1. /\ t \in Seq(S) /\ Len(q) \in Nat \ {0} /\ Len(t) = Len(q) - 1
      /\ \A i \in 1..Len(t) : t[i] = q[i + 1]
      /\ t # <<>> <=> Len(t) # 0
  BY HeadTailProperties, EmptySeq
<1> HIDE DEF t
<1>2. \A i \in 1..Len(t) : i + 1 \in 1..Len(q) /\ i + 1 > 1
  BY <1>1
<1>3. Paired(t)
  <2> SUFFICES ASSUME NEW i \in 1..Len(t)
               PROVE  /\ t[i] = Lpush(Mark) => i < Len(t) /\ t[i + 1] = Lpop
                      /\ t[i] = Lpop /\ i > 1 => t[i - 1] = Lpush(Mark)
    BY DEF Paired
  <2>1. ASSUME t[i] = Lpush(Mark) PROVE i < Len(t) /\ t[i + 1] = Lpop
    <3>1. i + 1 < Len(q) /\ q[(i + 1) + 1] = Lpop
      BY <1>1, <1>2, <2>1 DEF Paired
    <3>2. i < Len(t) /\ i + 1 \in 1..Len(t)
      BY <1>1, <3>1
    <3> QED
      BY <1>1, <3>1, <3>2
  <2>2. ASSUME t[i] = Lpop, i > 1 PROVE t[i - 1] = Lpush(Mark)
    <3>1. q[(i + 1) - 1] = Lpush(Mark)
      BY <1>1, <1>2, <2>2 DEF Paired
    <3>2. i - 1 \in 1..Len(t) /\ (i - 1) + 1 = (i + 1) - 1
      BY <1>1, <2>2
    <3> QED
      BY <1>1, <3>1, <3>2
  <2> QED
    BY <2>1, <2>2
<1>4. ASSUME t # <<>>, t[1] = Lpop PROVE q[1] = Lpush(Mark)
  <2>1. 1 \in 1..Len(t) /\ t[1] = q[2] /\ 2 \in 1..Len(q)
    BY <1>1, <1>4
  <2> QED
    BY <1>4, <2>1 DEF Paired
<1>5. ASSUME q[1] = Lpush(Mark) PROVE t # <<>> /\ t[1] = Lpop
  <2>1. 1 < Len(q) /\ q[2] = Lpop
    BY <1>1, <1>5 DEF Paired
  <2>2. 1 \in 1..Len(t) /\ t # <<>>
    BY <1>1, <2>1
  <2> QED
    BY <1>1, <2>1, <2>2
<1> QED
  BY <1>3, <1>4, <1>5 DEF t

LEMMA PairedConcat ==
  ASSUME NEW S, NEW a \in Seq(S), NEW b \in Seq(S), Paired(a), Paired(b),
         b # <<>> => b[1] # Lpop
  PROVE  /\ Paired(a \o b)
         /\ a \o b # <<>> /\ (a \o b)[1] = Lpop <=> a # <<>> /\ a[1] = Lpop
<1> DEFINE ab == a \o b
<1>1. /\ ab \in Seq(S) /\ Len(a) \in Nat /\ Len(b) \in Nat /\ Len(ab) = Len(a) + Len(b)
      /\ \A i \in 1..Len(a) : ab[i] = a[i]
      /\ \A i \in 1..Len(ab) : i > Len(a) => ab[i] = b[i - Len(a)]
      /\ (a # <<>> <=> Len(a) # 0) /\ (b # <<>> <=> Len(b) # 0) /\ (ab # <<>> <=> Len(ab) # 0)
  BY ConcatProperties, LenProperties, EmptySeq
<1> HIDE DEF ab
<1>2. \A i \in 1..Len(b) : i + Len(a) \in 1..Len(ab) /\ ab[i + Len(a)] = b[i]
  <2> TAKE i \in 1..Len(b)
  <2>1. i + Len(a) \in 1..Len(ab) /\ i + Len(a) > Len(a) /\ (i + Len(a)) - Len(a) = i
    BY <1>1
  <2> QED
    BY <1>1, <2>1
<1>3. ASSUME NEW i \in 1..Len(ab), i > Len(a) PROVE i - Len(a) \in 1..Len(b)
  BY <1>1, <1>3
<1>4. Paired(ab)
  <2> SUFFICES ASSUME NEW i \in 1..Len(ab)
               PROVE  /\ ab[i] = Lpush(Mark) => i < Len(ab) /\ ab[i + 1] = Lpop
                      /\ ab[i] = Lpop /\ i > 1 => ab[i - 1] = Lpush(Mark)
    BY DEF Paired
  <2>1. CASE i \in 1..Len(a)
    <3>1. ASSUME ab[i] = Lpush(Mark) PROVE i < Len(ab) /\ ab[i + 1] = Lpop
      <4>1. i < Len(a) /\ a[i + 1] = Lpop
        BY <1>1, <2>1, <3>1 DEF Paired
      <4>2. i < Len(ab) /\ i + 1 \in 1..Len(a)
        BY <1>1, <2>1, <4>1
      <4> QED
        BY <1>1, <4>1, <4>2
    <3>2. ASSUME ab[i] = Lpop, i > 1 PROVE ab[i - 1] = Lpush(Mark)
      <4>1. a[i - 1] = Lpush(Mark)
        BY <1>1, <2>1, <3>2 DEF Paired
      <4>2. i - 1 \in 1..Len(a)
        BY <1>1, <2>1, <3>2
      <4> QED
        BY <1>1, <4>1, <4>2
    <3> QED
      BY <3>1, <3>2
  <2>2. CASE i \notin 1..Len(a)
    <3> DEFINE k == i - Len(a)
    <3>1. k \in 1..Len(b) /\ ab[i] = b[k] /\ i = k + Len(a)
      <4>1. i > Len(a)
        BY <1>1, <2>2
      <4> QED
        BY <1>1, <1>3, <4>1
    <3> HIDE DEF k
    <3>2. ASSUME ab[i] = Lpush(Mark) PROVE i < Len(ab) /\ ab[i + 1] = Lpop
      <4>1. k < Len(b) /\ b[k + 1] = Lpop
        BY <3>1, <3>2 DEF Paired
      <4>2. i < Len(ab) /\ k + 1 \in 1..Len(b) /\ (k + 1) + Len(a) = i + 1
        BY <1>1, <3>1, <4>1
      <4> QED
        BY <1>2, <4>1, <4>2
    <3>3. ASSUME ab[i] = Lpop, i > 1 PROVE ab[i - 1] = Lpush(Mark)
      <4>1. k # 1
        <5>1. Len(b) # 0
          BY <1>1, <3>1
        <5> QED
          BY <1>1, <3>1, <3>3, <5>1
      <4>2. b[k - 1] = Lpush(Mark)
        BY <1>1, <3>1, <3>3, <4>1 DEF Paired
      <4>3. k - 1 \in 1..Len(b) /\ (k - 1) + Len(a) = i - 1
        BY <1>1, <3>1, <4>1
      <4> QED
        BY <1>2, <4>2, <4>3
    <3> QED
      BY <3>2, <3>3
  <2> QED
    BY <2>1, <2>2
<1>5. CASE Len(a) # 0
  <2>1. 1 \in 1..Len(a) /\ Len(ab) # 0
    BY <1>1, <1>5
  <2>2. ab[1] = a[1] /\ ab # <<>> /\ a # <<>>
    BY <1>1, <2>1
  <2> QED
    BY <1>4, <2>2 DEF ab
<1>6. CASE Len(a) = 0
  <2>1. a = <<>>
    BY <1>1, <1>6
  <2>2. ab # <<>> => ab[1] # Lpop
    <3> SUFFICES ASSUME ab # <<>> PROVE ab[1] # Lpop
      OBVIOUS
    <3>1. 1 \in 1..Len(b) /\ 1 + Len(a) = 1
      BY <1>1, <1>6
    <3>2. ab[1] = b[1] /\ b # <<>>
      BY <1>1, <1>2, <3>1
    <3> QED
      BY <3>2
  <2> QED
    BY <1>4, <2>1, <2>2 DEF ab
<1> QED
  BY <1>1, <1>5, <1>6

\* Messages that are no record, nor make or take the placeholder.
Bland == Calm \union Decrs \union Incrs

LEMMA BlandFacts ==
  ASSUME NEW m \in Bland
  PROVE  m # Lpop /\ \A x : m # Lpush(x)
<1>1. m.cmd \in {"read", "write", "PING", "DECR", "INCR"}
  BY DEF Bland, Calm, Reads, Writes, Ping, Decrs, Incrs
<1>2. Lpop.cmd = "LPOP" /\ \A x : Lpush(x).cmd = "LPUSH"
  BY DEF Lpop, Lpush
<1> QED
  BY <1>1, <1>2

LEMMA PushFacts ==
  /\ \A x : Lpush(x) # Lpop
  /\ \A x, y : Lpush(x) = Lpush(y) => x = y
  /\ \A o \in Orders : o # Mark
<1>1. \A x : Lpush(x).cmd = "LPUSH" /\ Lpush(x).item = x
  BY DEF Lpush
<1>2. Lpop.cmd = "LPOP"
  BY DEF Lpop
<1>3. \A o \in Orders : o # Mark
  BY ConstantsAssumption DEF Orders
<1> QED
  BY <1>1, <1>2, <1>3

LEMMA BlandSeq ==
  ASSUME NEW q \in Seq(Bland)
  PROVE  /\ Paired(q) /\ (q # <<>> => q[1] # Lpop)
         /\ \A o : ~Holds(q, Record(o))
<1>1. Len(q) \in Nat /\ DOMAIN q = 1..Len(q) /\ \A i \in 1..Len(q) : q[i] \in Bland
  BY LenProperties, ElementOfSeq
<1>2. \A i \in 1..Len(q) : q[i] # Lpop /\ \A x : q[i] # Lpush(x)
  BY <1>1, BlandFacts
<1>3. q # <<>> => 1 \in 1..Len(q)
  BY <1>1, EmptySeq
<1> QED
  BY <1>1, <1>2, <1>3 DEF Paired, Holds, Range, Record

LEMMA BlandSeqs ==
  /\ Seq(Calm) \subseteq Seq(Bland) /\ Seq(Decrs) \subseteq Seq(Bland)
  /\ Seq(Bland) \subseteq Seq(Requests)
<1>1. Calm \subseteq Bland /\ Decrs \subseteq Bland /\ Bland \subseteq Requests
  BY DEF Bland, Requests, Plain
<1> QED
  BY <1>1, SeqMonotonic

LEMMA SeedPaired == Paired(Seed) /\ Seed[1] # Lpop /\ \A o \in Orders : ~Holds(Seed, Record(o))
<1> DEFINE w0 == Write([stock |-> Stock0])
           w1 == Write([sale |-> 1])
           w2 == Write([price |-> 1, cap |-> Flash0])
           w3 == Write([counter |-> Flash0])
           p == Lpush(Mark)
<1>1. \A x : Write(x).cmd = "write"
  BY DEF Write, WriteThen
<1>2. Ping.cmd = "PING" /\ Lpop.cmd = "LPOP" /\ \A x : Lpush(x).cmd = "LPUSH"
  BY DEF Ping, Lpop, Lpush
<1>3. \A w \in {w0, w1, w2, w3, Ping} : w # Lpop /\ \A x : w # Lpush(x)
  BY <1>1, <1>2
<1>4. Seed = <<w0, w1, w2, w3, p, Lpop, Ping>>
  BY DEF Seed
<1> HIDE DEF w0, w1, w2, w3, p
<1>5. /\ Len(Seed) = 7 /\ Seed[1] = w0 /\ Seed[2] = w1 /\ Seed[3] = w2 /\ Seed[4] = w3
      /\ Seed[5] = p /\ Seed[6] = Lpop /\ Seed[7] = Ping
  BY <1>4
<1>6. Seed \in Seq(Plain) /\ DOMAIN Seed = 1..7
  BY <1>5, SeedType, LenProperties
<1>7. p # Lpop /\ \A o \in Orders : p # Lpush(o)
  BY PushFacts DEF p
<1>8. ASSUME NEW i \in 1..7
      PROVE  /\ Seed[i] = Lpush(Mark) => i = 5
             /\ Seed[i] = Lpop => i = 6
             /\ \A o \in Orders : Seed[i] # Lpush(o)
  <2>1. i = 1 \/ i = 2 \/ i = 3 \/ i = 4 \/ i = 5 \/ i = 6 \/ i = 7
    OBVIOUS
  <2> QED
    BY <1>3, <1>5, <1>7, <2>1, PushFacts
<1>9. Paired(Seed)
  BY <1>5, <1>8 DEF Paired, p
<1>10. Seed[1] # Lpop
  BY <1>8
<1>11. \A o \in Orders : ~Holds(Seed, Record(o))
  BY <1>6, <1>8 DEF Holds, Range, Record
<1> QED
  BY <1>9, <1>10, <1>11

\* A reply is a credit only if it is an outcome with an item.
LEMMA WonFacts ==
  /\ \A m \in Answers : \A o : m \notin Won(o)
  /\ \A m \in Refusals : \A o : m \notin Won(o)
  /\ \A m \in Outcomes : m.val >= 0 => m \in Won(m.ord)
  /\ \A m \in Outcomes : m.val < 0 => \A o : m \notin Won(o)
  /\ \A m \in Outcomes : \A o : m \in Won(o) => o = m.ord
<1>1. \A m \in Answers : \A o : m \notin Won(o)
  <2>1. \A m \in Answers : m.then \notin {"order", "test"}
    BY DEF Answers
  <2>2. \A o : \A m \in Won(o) : m.then \in {"order", "test"}
    BY DEF Won
  <2> QED
    BY <2>1, <2>2
<1>2. \A o : \A m \in Won(o) : m.val >= 0 /\ m.val \in Nat
  BY DEF Won
<1>3. \A m \in Refusals : \A o : m \notin Won(o)
  <2>1. \A m \in Refusals : m.val \in Int /\ m.val < 0
    BY DEF Refusals
  <2> QED
    BY <1>2, <2>1
<1>4. \A m \in Outcomes : m.val >= 0 => m \in Won(m.ord)
  BY DEF Outcomes, Won
<1>5. \A m \in Outcomes : m.val < 0 => \A o : m \notin Won(o)
  <2>1. \A m \in Outcomes : m.val \in Int
    BY DEF Outcomes
  <2> QED
    BY <1>2, <2>1
<1>6. \A o : \A m \in Won(o) : m.ord = o
  BY DEF Won
<1> QED
  BY <1>1, <1>3, <1>4, <1>5, <1>6, Zenon

\* What sending, taking and serving do to the credits of a desktop.
LEMMA CreditsSent ==
  ASSUME TypeQueues, NEW d \in Desktops, NEW msgs \in Seq(Requests), Sent(d, msgs), NEW C,
         ~Holds(msgs, C)
  PROVE  /\ Holds(req'[d], C) <=> Holds(req[d], C)
         /\ Once(req[d], C) => Once(req'[d], C)
<1>1. req \in [Desktops -> Seq(Requests)]
  BY DEF TypeQueues
<1>2. Holds(req[d] \o msgs, C) <=> Holds(req[d], C)
  BY <1>1, HoldsConcat
<1>3. Once(req[d], C) => Once(req[d] \o msgs, C)
  BY <1>1, OnceNone, OnceConcat
<1>4. req'[d] = req[d] \/ req'[d] = req[d] \o msgs
  BY <1>1 DEF Sent
<1> QED
  BY <1>2, <1>3, <1>4

LEMMA PairsSent ==
  ASSUME TypeQueues, NEW d \in Desktops, NEW msgs \in Seq(Requests), Sent(d, msgs),
         Paired(req[d]), Paired(msgs), msgs # <<>> => msgs[1] # Lpop
  PROVE  Paired(req'[d]) /\ (d \in Marked' <=> d \in Marked)
<1>1. req \in [Desktops -> Seq(Requests)]
  BY DEF TypeQueues
<1>2. /\ Paired(req[d] \o msgs)
      /\ req[d] \o msgs # <<>> /\ (req[d] \o msgs)[1] = Lpop <=> req[d] # <<>> /\ req[d][1] = Lpop
  BY <1>1, PairedConcat
<1>3. req'[d] = req[d] \/ req'[d] = req[d] \o msgs
  BY <1>1 DEF Sent
<1> QED
  BY <1>2, <1>3 DEF Marked

LEMMA CreditsTaken ==
  ASSUME TypeQueues, NEW d \in Desktops, Taken(d), NEW C
  PROVE  /\ Holds(rep[d], C) <=> Head(rep[d]) \in C \/ Holds(rep'[d], C)
         /\ Once(rep[d], C) => Once(rep'[d], C) /\ (Head(rep[d]) \in C => ~Holds(rep'[d], C))
<1>1. rep \in [Desktops -> Seq(Replies)] /\ rep[d] # <<>> /\ rep'[d] = Tail(rep[d])
  BY DEF TypeQueues, Taken
<1>2. Holds(rep[d], C) <=> Head(rep[d]) \in C \/ Holds(Tail(rep[d]), C)
  BY <1>1, HoldsTail
<1>3. Once(rep[d], C) => Once(Tail(rep[d]), C) /\ (Head(rep[d]) \in C => ~Holds(Tail(rep[d]), C))
  BY <1>1, OnceTail
<1> QED
  BY <1>1, <1>2, <1>3

\* A step at desktop d alone.
OnlyAt(d) == \A e \in Desktops \ {d} : req'[e] = req[e] /\ rep'[e] = rep[e]

LEMMA LoneKept ==
  ASSUME NEW d \in Desktops, OnlyAt(d), NEW o, Lone(o), LoneAt(d, o)',
         Has(d, o)' => Has(d, o) \/ ~\E e \in Desktops : Has(e, o)
  PROVE  Lone(o)'
<1>1. \A e \in Desktops \ {d} : (Has(e, o)' <=> Has(e, o)) /\ (LoneAt(e, o) => LoneAt(e, o)')
  BY DEF OnlyAt, Has, LoneAt
<1> QED
  BY <1>1 DEF Lone

\* The books move by what changes at d.
LEMMA BooksKept ==
  ASSUME Booked, NEW d \in Desktops, OnlyAt(d), Paired(req[d])', d \in Marked' <=> d \in Marked,
         \A o \in Orders : LoneAt(d, o)' /\ (Has(d, o)' <=> Has(d, o)),
         UNCHANGED <<queue, got>>
  PROVE  Booked'
<1>1. \A e \in Desktops \ {d} : Paired(req[e])' /\ (e \in Marked' <=> e \in Marked)
  BY DEF OnlyAt, Booked, Marked
<1>2. Marked' = Marked
  BY <1>1 DEF Marked
<1>3. \A o \in Orders : Lone(o)'
  BY LoneKept DEF Booked
<1>4. \A e \in Desktops, o \in Orders : Has(e, o)' <=> Has(e, o)
  BY DEF OnlyAt, Has
<1>5. Owing' = Owing
  BY <1>4 DEF Owing
<1> QED
  BY <1>1, <1>2, <1>3, <1>5 DEF Booked

LEMMA BooksMute ==
  ASSUME TypeQueues, Booked, NEW d \in Desktops, NEW msgs \in Seq(Requests), Sent(d, msgs),
         Paired(msgs), msgs # <<>> => msgs[1] # Lpop, \A o \in Orders : ~Holds(msgs, Record(o)),
         rep' = rep \/ (Taken(d) /\ \A o \in Orders : Head(rep[d]) \notin Won(o)),
         UNCHANGED <<queue, got>>
  PROVE  Booked'
<1>1. OnlyAt(d)
  <2>1. \A e \in Desktops \ {d} : rep'[e] = rep[e]
    BY TakenKeeps
  <2> QED
    BY <2>1, SentKeeps DEF OnlyAt
<1>2. Paired(req[d])' /\ (d \in Marked' <=> d \in Marked)
  BY PairsSent DEF Booked
<1>3. ASSUME NEW o \in Orders
      PROVE  LoneAt(d, o)' /\ (Has(d, o)' <=> Has(d, o))
  <2>1. /\ Holds(req'[d], Record(o)) <=> Holds(req[d], Record(o))
        /\ Once(req[d], Record(o)) => Once(req'[d], Record(o))
    BY CreditsSent
  <2>2. /\ Holds(rep'[d], Won(o)) <=> Holds(rep[d], Won(o))
        /\ Once(rep[d], Won(o)) => Once(rep'[d], Won(o))
    <3>1. CASE rep' = rep
      BY <3>1
    <3>2. CASE Taken(d) /\ Head(rep[d]) \notin Won(o)
      BY <3>2, CreditsTaken
    <3> QED
      BY <3>1, <3>2
  <2>3. LoneAt(d, o)
    BY DEF Booked, Lone
  <2> QED
    BY <2>1, <2>2, <2>3 DEF LoneAt, Has
<1> QED
  BY <1>1, <1>2, <1>3, BooksKept

\* The reply with an item becomes the record.
LEMMA BooksRecorded ==
  ASSUME TypeQueues, Booked, NEW d \in Desktops, open[d], Records(d)
  PROVE  Booked'
<1> DEFINE m == Head(rep[d])
           p == m.ord
           r == Lpush(p)
<1>1. PICK more \in Seq(Calm) :
        Taken(d) /\ UNCHANGED store /\ m \in Outcomes /\ m.val >= 0 /\ Send(d, <<r>> \o more)
  BY DEF Records
<1>2. p \in Orders /\ \A o \in Orders : m \in Won(o) <=> o = p
  BY <1>1, WonFacts DEF Outcomes
<1> DEFINE one == <<r>>
           msgs == one \o more
<1>3. /\ r \in Requests /\ r # Lpop /\ r # Lpush(Mark)
      /\ \A o \in Orders : r \in Record(o) <=> o = p
  <2>1. r \in Requests
    BY <1>2, WriteTypes DEF Requests, Plain
  <2> QED
    BY <1>2, <2>1, PushFacts DEF Record
<1> HIDE DEF p, r
<1>4. /\ one \in Seq(Requests) /\ Len(one) = 1 /\ one[1] = r /\ Range(one) = {r} /\ one # <<>>
  BY <1>3, RangeOfOne
<1>5. Paired(one) /\ one[1] # Lpop /\ \A o \in Orders : Holds(one, Record(o)) <=> o = p
  <2>1. Paired(one)
    BY <1>3, <1>4 DEF Paired
  <2> QED
    BY <1>3, <1>4, <2>1 DEF Holds
<1>6. /\ more \in Seq(Requests) /\ Paired(more) /\ (more # <<>> => more[1] # Lpop)
      /\ \A o : ~Holds(more, Record(o))
  BY <1>1, BlandSeqs, BlandSeq
<1>7. \A o : Once(one, Record(o))
  BY <1>4 DEF Once
<1> HIDE DEF one
<1>8. /\ msgs \in Seq(Requests) /\ Paired(msgs) /\ (msgs # <<>> => msgs[1] # Lpop)
      /\ \A o \in Orders : (Holds(msgs, Record(o)) <=> o = p) /\ Once(msgs, Record(o))
  <2>1. msgs \in Seq(Requests)
    BY <1>4, <1>6, ConcatProperties
  <2>2. Paired(msgs) /\ (msgs # <<>> => msgs[1] # Lpop)
    BY <1>4, <1>5, <1>6, PairedConcat
  <2>3. \A o \in Orders : Holds(msgs, Record(o)) <=> o = p
    BY <1>4, <1>5, <1>6, HoldsConcat
  <2>4. ASSUME NEW o \in Orders PROVE Once(msgs, Record(o))
    <3>1. Once(more, Record(o))
      BY <1>6, OnceNone
    <3> QED
      BY <1>4, <1>6, <1>7, <3>1, OnceConcat
  <2> QED
    BY <2>1, <2>2, <2>3, <2>4
<1>9. Send(d, msgs)
  BY <1>1 DEF one
<1> HIDE DEF msgs, m
<1>10. /\ req \in [Desktops -> Seq(Requests)] /\ req'[d] = req[d] \o msgs /\ Sent(d, msgs)
       /\ Taken(d) /\ UNCHANGED <<queue, got>>
  BY <1>1, <1>9, SendSent DEF Send, TypeQueues, store
<1>11. OnlyAt(d)
  BY <1>8, <1>10, TakenKeeps, SentKeeps DEF OnlyAt
<1>12. Paired(req[d])' /\ (d \in Marked' <=> d \in Marked)
  BY <1>8, <1>10, PairsSent DEF Booked
<1>13. ASSUME NEW o \in Orders
       PROVE  LoneAt(d, o)' /\ (Has(d, o)' <=> Has(d, o))
  <2>1. LoneAt(d, o)
    BY DEF Booked, Lone
  <2>2. /\ Holds(rep[d], Won(o)) <=> o = p \/ Holds(rep'[d], Won(o))
        /\ Once(rep'[d], Won(o)) /\ (o = p => ~Holds(rep'[d], Won(o)))
    BY <1>2, <1>10, <2>1, CreditsTaken DEF LoneAt, m
  <2>3. Holds(req'[d], Record(o)) <=> Holds(req[d], Record(o)) \/ o = p
    BY <1>8, <1>10, HoldsConcat
  <2>4. Once(req'[d], Record(o))
    <3>1. ~(Holds(req[d], Record(o)) /\ Holds(msgs, Record(o)))
      BY <1>8, <2>1, <2>2 DEF LoneAt
    <3> QED
      BY <1>8, <1>10, <2>1, <3>1, OnceConcat DEF LoneAt
  <2> QED
    BY <2>1, <2>2, <2>3, <2>4 DEF LoneAt, Has
<1> QED
  BY <1>10, <1>11, <1>12, <1>13, BooksKept

LEMMA BooksDesktop ==
  ASSUME TypeQueues, Booked, NEW d \in Desktops, ~open[d] => rep[d] = <<>>,
         Calmly(d) \/ Seeds(d) \/ Records(d) \/ RollsBack(d) \/ Orderly(d)
  PROVE  Booked'
<1>1. ASSUME NEW msgs \in Seq(Bland), Sent(d, msgs), UNCHANGED <<queue, got>>,
             rep' = rep \/ (Taken(d) /\ \A o \in Orders : Head(rep[d]) \notin Won(o))
      PROVE  Booked'
  <2>1. /\ msgs \in Seq(Requests) /\ Paired(msgs) /\ (msgs # <<>> => msgs[1] # Lpop)
        /\ \A o \in Orders : ~Holds(msgs, Record(o))
    BY BlandSeq, BlandSeqs
  <2> QED
    BY <1>1, <2>1, BooksMute
<1>2. CASE Calmly(d)
  <2>1. PICK msgs \in Seq(Calm) :
          Sent(d, msgs) /\ UNCHANGED store /\ (rep' = rep \/ (Taken(d) /\ Head(rep[d]) \in Answers))
    BY <1>2 DEF Calmly
  <2>2. UNCHANGED <<queue, got>>
    BY <2>1 DEF store
  <2>3. rep' = rep \/ (Taken(d) /\ \A o \in Orders : Head(rep[d]) \notin Won(o))
    BY <2>1, WonFacts
  <2> QED
    BY <1>1, <2>1, <2>2, <2>3, BlandSeqs
<1>3. CASE Seeds(d)
  <2>1. Taken(d) /\ Sent(d, Seed) /\ UNCHANGED <<queue, got>> /\ \A o \in Orders : Head(rep[d]) \notin Won(o)
    BY <1>3, WonFacts DEF Seeds, store
  <2>2. Seed \in Seq(Requests)
    BY SeedType, MessageSeqs
  <2> QED
    BY <2>1, <2>2, SeedPaired, BooksMute
<1>4. CASE Records(d)
  <2>1. open[d]
    BY <1>4 DEF Records, Taken
  <2> QED
    BY <1>4, <2>1, BooksRecorded
<1>5. CASE RollsBack(d)
  <2> DEFINE m == Incr(Head(rep[d]).ord)
  <2>1. PICK more \in Seq(Calm) :
          Taken(d) /\ UNCHANGED store /\ Head(rep[d]) \in Refusals /\ Sent(d, <<m>> \o more)
    BY <1>5 DEF RollsBack
  <2>2. m \in Bland
    BY <2>1 DEF Refusals, Incr, Incrs, Bland
  <2>3. UNCHANGED <<queue, got>> /\ \A o \in Orders : Head(rep[d]) \notin Won(o)
    BY <2>1, WonFacts DEF store
  <2> HIDE DEF m
  <2>4. <<m>> \o more \in Seq(Bland)
    <3>1. <<m>> \in Seq(Bland) /\ more \in Seq(Bland)
      BY <2>2, BlandSeqs
    <3> QED
      BY <3>1, ConcatProperties
  <2> QED
    BY <1>1, <2>1, <2>3, <2>4
<1>6. CASE Orderly(d)
  BY <1>1, <1>6, BlandSeqs DEF Orderly
<1> QED
  BY <1>2, <1>3, <1>4, <1>5, <1>6

\* The request executed leaves the queue of its desktop.
LEMMA ServedMoves ==
  ASSUME TypeQueues, Booked, NEW d \in Desktops, req[d] # <<>>,
         req' = [req EXCEPT ![d] = Tail(@)]
  PROVE  /\ \A e \in Desktops : Paired(req'[e])
         /\ d \in Marked' <=> Head(req[d]) = Lpush(Mark)
         /\ d \in Marked <=> Head(req[d]) = Lpop
         /\ \A e \in Desktops \ {d} : req'[e] = req[e] /\ (e \in Marked' <=> e \in Marked)
         /\ \A o \in Orders :
              /\ Holds(req[d], Record(o)) <=> Head(req[d]) \in Record(o) \/ Holds(req'[d], Record(o))
              /\ Once(req'[d], Record(o))
              /\ Head(req[d]) \in Record(o) => ~Holds(req'[d], Record(o))
<1>1. req \in [Desktops -> Seq(Requests)] /\ req'[d] = Tail(req[d])
      /\ \A e \in Desktops \ {d} : req'[e] = req[e]
  BY DEF TypeQueues
<1>2. Head(req[d]) = req[d][1]
  BY <1>1, HeadTailProperties
<1>3. /\ Paired(req'[d])
      /\ req'[d] # <<>> /\ req'[d][1] = Lpop <=> req[d][1] = Lpush(Mark)
  BY <1>1, PairedTail DEF Booked
<1>4. ASSUME NEW o \in Orders
      PROVE  /\ Holds(req[d], Record(o)) <=> Head(req[d]) \in Record(o) \/ Holds(req'[d], Record(o))
             /\ Once(req'[d], Record(o))
             /\ Head(req[d]) \in Record(o) => ~Holds(req'[d], Record(o))
  <2>1. Once(req[d], Record(o))
    BY DEF Booked, Lone, LoneAt
  <2>2. Holds(req[d], Record(o)) <=> Head(req[d]) \in Record(o) \/ Holds(Tail(req[d]), Record(o))
    BY <1>1, HoldsTail
  <2>3. /\ Once(Tail(req[d]), Record(o))
        /\ Head(req[d]) \in Record(o) => ~Holds(Tail(req[d]), Record(o))
    BY <1>1, <2>1, OnceTail
  <2> QED
    BY <1>1, <2>2, <2>3
<1>5. \A e \in Desktops : Paired(req'[e])
  BY <1>1, <1>3 DEF Booked
<1>6. \A e \in Desktops \ {d} : e \in Marked' <=> e \in Marked
  BY <1>1 DEF Marked
<1> QED
  BY <1>1, <1>2, <1>3, <1>4, <1>5, <1>6 DEF Marked

LEMMA CreditsAppended ==
  ASSUME TypeQueues, NEW d \in Desktops, NEW a, rep' = [rep EXCEPT ![d] = Append(@, a)], NEW C
  PROVE  /\ Holds(rep'[d], C) <=> Holds(rep[d], C) \/ a \in C
         /\ Once(rep[d], C) /\ ~(Holds(rep[d], C) /\ a \in C) => Once(rep'[d], C)
         /\ \A e \in Desktops \ {d} : rep'[e] = rep[e]
<1> DEFINE R == Replies \union {a}
           b == <<a>>
<1>1. rep \in [Desktops -> Seq(Replies)] /\ rep'[d] = Append(rep[d], a)
      /\ \A e \in Desktops \ {d} : rep'[e] = rep[e]
  BY DEF TypeQueues
<1>2. rep[d] \in Seq(R) /\ a \in R
  BY <1>1, SeqMonotonic
<1> HIDE DEF R
<1>3. b \in Seq(R) /\ Len(b) = 1 /\ Range(b) = {a} /\ Append(rep[d], a) = rep[d] \o b
  BY <1>2, RangeOfOne, AppendIsConcat
<1>4. Once(b, C) /\ (Holds(b, C) <=> a \in C)
  BY <1>3 DEF Once, Holds
<1> HIDE DEF b
<1>5. Holds(rep[d] \o b, C) <=> Holds(rep[d], C) \/ Holds(b, C)
  BY <1>2, <1>3, HoldsConcat
<1>6. Once(rep[d], C) /\ ~(Holds(rep[d], C) /\ Holds(b, C)) => Once(rep[d] \o b, C)
  BY <1>2, <1>3, <1>4, OnceConcat
<1> QED
  BY <1>1, <1>3, <1>4, <1>5, <1>6

LEMMA BooksServed ==
  ASSUME TypeQueues, Booked, NEW d \in Desktops, req[d] # <<>>, Head(req[d]) \in Bland,
         req' = [req EXCEPT ![d] = Tail(@)], UNCHANGED <<queue, got>>,
         \/ rep' = rep
         \/ \E a : /\ \A o \in Orders : a \notin Won(o)
                   /\ rep' = [rep EXCEPT ![d] = Append(@, a)]
  PROVE  Booked'
<1>1. /\ \A e \in Desktops : Paired(req'[e])
      /\ d \in Marked' <=> Head(req[d]) = Lpush(Mark)
      /\ d \in Marked <=> Head(req[d]) = Lpop
      /\ \A e \in Desktops \ {d} : req'[e] = req[e]
      /\ \A o \in Orders :
           /\ Holds(req[d], Record(o)) <=> Head(req[d]) \in Record(o) \/ Holds(req'[d], Record(o))
           /\ Once(req'[d], Record(o))
  BY ServedMoves
<1>2. Head(req[d]) # Lpop /\ Head(req[d]) # Lpush(Mark) /\ \A o : Head(req[d]) \notin Record(o)
  BY BlandFacts DEF Record
<1>3. /\ \A e \in Desktops \ {d} : rep'[e] = rep[e]
      /\ \A o \in Orders : /\ Holds(rep'[d], Won(o)) <=> Holds(rep[d], Won(o))
                           /\ Once(rep[d], Won(o)) => Once(rep'[d], Won(o))
  <2>1. CASE rep' = rep
    BY <2>1
  <2>2. ASSUME NEW a, \A o \in Orders : a \notin Won(o), rep' = [rep EXCEPT ![d] = Append(@, a)]
        PROVE  /\ \A e \in Desktops \ {d} : rep'[e] = rep[e]
               /\ \A o \in Orders : /\ Holds(rep'[d], Won(o)) <=> Holds(rep[d], Won(o))
                                    /\ Once(rep[d], Won(o)) => Once(rep'[d], Won(o))
    BY <2>2, CreditsAppended
  <2> QED
    BY <2>1, <2>2
<1>4. OnlyAt(d)
  BY <1>1, <1>3 DEF OnlyAt
<1>5. ASSUME NEW o \in Orders PROVE LoneAt(d, o)' /\ (Has(d, o)' <=> Has(d, o))
  <2>1. LoneAt(d, o)
    BY DEF Booked, Lone
  <2> QED
    BY <1>1, <1>2, <1>3, <2>1 DEF LoneAt, Has
<1> QED
  BY <1>1, <1>2, <1>4, <1>5, BooksKept

LEMMA BooksFinite ==
  ASSUME got \subseteq Orders, Booked
  PROVE  /\ IsFiniteSet(got) /\ IsFiniteSet(Owing) /\ IsFiniteSet(Marked)
         /\ Cardinality(got) \in Nat /\ Cardinality(Owing) \in Nat /\ Cardinality(Marked) \in Nat
         /\ Cardinality(Owing) <= Cardinality(got)
<1>1. IsFiniteSet(Orders)
  BY ConstantsAssumption, FS_Interval DEF Orders
<1>2. IsFiniteSet(got)
  BY <1>1, FS_Subset
<1>3. IsFiniteSet(Owing) /\ Cardinality(Owing) <= Cardinality(got)
  BY <1>2, FS_Subset DEF Booked
<1> QED
  BY <1>2, <1>3, FS_CardinalityType DEF Booked

LEMMA Balance ==
  ASSUME NEW n \in Nat, NEW w \in Nat, NEW g \in Nat, NEW k \in Nat, n + w = g + k
  PROVE  /\ n + (w + 1) = (g + 1) + k /\ (n + 1) + (w - 1) = g + k
         /\ (n + 1) + w = g + (k + 1) /\ (n - 1) + w = g + (k - 1)
  OBVIOUS

\* An order that gets an item is credited from then on.
LEMMA BooksGranted ==
  ASSUME TypeQueues, Booked, got \subseteq Orders, queue \in Seq(Orders \union {Mark}),
         NEW d \in Desktops, req[d] # <<>>, Head(req[d]) \in Bland, req' = [req EXCEPT ![d] = Tail(@)],
         NEW o \in Orders, o \notin got, got' = got \union {o}, queue' = queue,
         NEW a, rep' = [rep EXCEPT ![d] = Append(@, a)], \A p \in Orders : a \in Won(p) <=> p = o
  PROVE  Booked'
<1>1. /\ \A e \in Desktops : Paired(req'[e])
      /\ d \in Marked' <=> Head(req[d]) = Lpush(Mark)
      /\ d \in Marked <=> Head(req[d]) = Lpop
      /\ \A e \in Desktops \ {d} : req'[e] = req[e] /\ (e \in Marked' <=> e \in Marked)
      /\ \A p \in Orders :
           /\ Holds(req[d], Record(p)) <=> Head(req[d]) \in Record(p) \/ Holds(req'[d], Record(p))
           /\ Once(req'[d], Record(p))
  BY ServedMoves
<1>2. Head(req[d]) # Lpop /\ Head(req[d]) # Lpush(Mark) /\ \A p : Head(req[d]) \notin Record(p)
  BY BlandFacts DEF Record
<1>3. Marked' = Marked
  BY <1>1, <1>2 DEF Marked
<1>4. ~\E e \in Desktops : Has(e, o)
  BY DEF Booked, Owing
<1>5. /\ \A e \in Desktops \ {d} : rep'[e] = rep[e]
      /\ \A p \in Orders :
           /\ Holds(rep'[d], Won(p)) <=> Holds(rep[d], Won(p)) \/ p = o
           /\ Once(rep[d], Won(p)) /\ ~(Holds(rep[d], Won(p)) /\ p = o) => Once(rep'[d], Won(p))
  BY CreditsAppended
<1>6. OnlyAt(d)
  BY <1>1, <1>5 DEF OnlyAt
<1>7. ASSUME NEW p \in Orders
      PROVE  LoneAt(d, p)' /\ (Has(d, p)' <=> Has(d, p) \/ p = o)
  <2>1. LoneAt(d, p)
    BY DEF Booked, Lone
  <2>2. p = o => ~Has(d, p)
    BY <1>4
  <2> QED
    BY <1>1, <1>2, <1>5, <2>1, <2>2 DEF LoneAt, Has
<1>8. \A p \in Orders : Lone(p)'
  <2> SUFFICES ASSUME NEW p \in Orders PROVE Lone(p)'
    OBVIOUS
  <2>1. Lone(p)
    BY DEF Booked
  <2>2. Has(d, p)' => Has(d, p) \/ ~\E e \in Desktops : Has(e, p)
    BY <1>4, <1>7
  <2> QED
    BY <1>6, <1>7, <2>1, <2>2, LoneKept
<1>9. Owing' = Owing \union {o}
  <2>1. \A e \in Desktops \ {d}, p \in Orders : Has(e, p)' <=> Has(e, p)
    BY <1>6 DEF OnlyAt, Has
  <2>2. \A p \in Orders : (\E e \in Desktops : Has(e, p)') <=> (\E e \in Desktops : Has(e, p)) \/ p = o
    BY <1>7, <2>1
  <2> QED
    BY <2>2 DEF Owing
<1>10. o \notin Owing
  BY DEF Booked
<1>11. /\ Cardinality(Owing \union {o}) = Cardinality(Owing) + 1
       /\ Cardinality(got \union {o}) = Cardinality(got) + 1
  BY <1>10, BooksFinite, FS_AddElement
<1>12. Len(queue)' + Cardinality(Owing)' = Cardinality(got)' + Cardinality(Marked)'
  <2>1. Len(queue) + Cardinality(Owing) = Cardinality(got) + Cardinality(Marked)
    BY DEF Booked
  <2>2. Len(queue) \in Nat
    BY LenProperties
  <2>3. Len(queue) + (Cardinality(Owing) + 1) = (Cardinality(got) + 1) + Cardinality(Marked)
    BY <2>1, <2>2, BooksFinite, Balance, SMTT(30)
  <2> QED
    BY <1>3, <1>9, <1>11, <2>3
<1> QED
  BY <1>1, <1>3, <1>8, <1>9, <1>12 DEF Booked

\* The record of an order, the placeholder, and what takes it out.
LEMMA BooksPushed ==
  ASSUME TypeQueues, Booked, got \subseteq Orders, queue \in Seq(Orders \union {Mark}),
         NEW d \in Desktops, req[d] # <<>>, NEW x \in Orders \union {Mark},
         Head(req[d]) = Lpush(x), req' = [req EXCEPT ![d] = Tail(@)],
         queue' = <<x>> \o queue, UNCHANGED <<rep, got>>
  PROVE  Booked' /\ queue' \in Seq(Orders \union {Mark})
<1>1. /\ \A e \in Desktops : Paired(req'[e])
      /\ d \in Marked' <=> Head(req[d]) = Lpush(Mark)
      /\ d \in Marked <=> Head(req[d]) = Lpop
      /\ \A e \in Desktops \ {d} : req'[e] = req[e] /\ (e \in Marked' <=> e \in Marked)
      /\ \A o \in Orders :
           /\ Holds(req[d], Record(o)) <=> Head(req[d]) \in Record(o) \/ Holds(req'[d], Record(o))
           /\ Once(req'[d], Record(o))
           /\ Head(req[d]) \in Record(o) => ~Holds(req'[d], Record(o))
  BY ServedMoves
<1>2. /\ d \notin Marked /\ (d \in Marked' <=> x = Mark)
      /\ \A o \in Orders : Head(req[d]) \in Record(o) <=> x = o
  BY <1>1, PushFacts DEF Record
<1>3. OnlyAt(d)
  BY <1>1 DEF OnlyAt
<1>4. ASSUME NEW o \in Orders
      PROVE  /\ LoneAt(d, o) /\ LoneAt(d, o)' /\ (Has(d, o)' <=> Has(d, o) /\ x # o)
             /\ x = o => Has(d, o)
  <2>1. LoneAt(d, o)
    BY DEF Booked, Lone
  <2> QED
    BY <1>1, <1>2, <2>1 DEF LoneAt, Has
<1>5. \A o \in Orders : Lone(o)'
  BY <1>3, <1>4, LoneKept DEF Booked
<1>6. Owing' = Owing \ {x} /\ (x \in Orders => x \in Owing)
  <2>1. \A e \in Desktops \ {d}, o \in Orders : Has(e, o)' <=> Has(e, o)
    BY <1>3 DEF OnlyAt, Has
  <2>2. ASSUME NEW o \in Orders
        PROVE  (\E e \in Desktops : Has(e, o)') <=> (\E e \in Desktops : Has(e, o)) /\ x # o
    <3>1. CASE x = o
      <4>1. \A e \in Desktops : Has(e, o) => e = d
        BY <1>4, <3>1 DEF Booked, Lone
      <4> QED
        BY <1>4, <2>1, <3>1, <4>1
    <3>2. CASE x # o
      BY <1>4, <2>1, <3>2
    <3> QED
      BY <3>1, <3>2
  <2> QED
    BY <1>4, <2>2 DEF Owing
<1>7. /\ Len(queue) \in Nat /\ Len(queue') = Len(queue) + 1
      /\ queue' \in Seq(Orders \union {Mark})
  <2> DEFINE b == <<x>>
  <2>1. b \in Seq(Orders \union {Mark}) /\ Len(b) = 1 /\ queue' = b \o queue
    OBVIOUS
  <2> HIDE DEF b
  <2>2. b \o queue \in Seq(Orders \union {Mark}) /\ Len(b \o queue) = Len(b) + Len(queue)
    BY <2>1, ConcatProperties
  <2>3. Len(queue) \in Nat
    BY LenProperties
  <2> QED
    BY <2>1, <2>2, <2>3
<1>8. IsFiniteSet(Marked)' /\ Len(queue') + Cardinality(Owing') = Cardinality(got) + Cardinality(Marked')
  <2>1. Len(queue) \in Nat /\ Cardinality(Owing) \in Nat /\ Cardinality(got) \in Nat /\ Cardinality(Marked) \in Nat
    BY <1>7, BooksFinite
  <2>2. Len(queue) + Cardinality(Owing) = Cardinality(got) + Cardinality(Marked)
    BY DEF Booked
  <2>3. (Len(queue) + 1) + Cardinality(Owing) = Cardinality(got) + (Cardinality(Marked) + 1)
    <3> DEFINE n == Len(queue)
               w == Cardinality(Owing)
               g == Cardinality(got)
               k == Cardinality(Marked)
    <3>1. n \in Nat /\ w \in Nat /\ g \in Nat /\ k \in Nat /\ n + w = g + k
      BY <2>1, <2>2
    <3> HIDE DEF n, w, g, k
    <3>2. (n + 1) + w = g + (k + 1)
      BY <3>1
    <3> QED
      BY <3>2 DEF n, w, g, k
  <2>4. CASE x = Mark
    <3>1. Owing' = Owing /\ Marked' = Marked \union {d}
      <4>1. Mark \notin Owing
        BY PushFacts DEF Owing
      <4>2. Marked' = Marked \union {d}
        BY <1>1, <1>2, <2>4 DEF Marked
      <4> QED
        BY <1>6, <2>4, <4>1, <4>2
    <3>2. /\ IsFiniteSet(Marked \union {d})
          /\ Cardinality(Marked \union {d}) = Cardinality(Marked) + 1
      BY <1>2, BooksFinite, FS_AddElement
    <3> QED
      BY <1>7, <2>3, <3>1, <3>2
  <2>5. CASE x # Mark
    <3>1. x \in Owing /\ Owing' = Owing \ {x} /\ Marked' = Marked
      <4>1. Marked' = Marked
        BY <1>1, <1>2, <2>5 DEF Marked
      <4> QED
        BY <1>6, <2>5, <4>1
    <3>2. Cardinality(Owing \ {x}) = Cardinality(Owing) - 1
      BY <3>1, BooksFinite, FS_RemoveElement
    <3>3. (Len(queue) + 1) + (Cardinality(Owing) - 1) = Cardinality(got) + Cardinality(Marked)
      BY <2>1, <2>2, Balance
    <3> QED
      BY <1>7, <3>1, <3>2, <3>3, BooksFinite
  <2> QED
    BY <2>4, <2>5
<1>9. Owing' \subseteq got'
  BY <1>6 DEF Booked
<1> QED
  BY <1>1, <1>5, <1>7, <1>8, <1>9 DEF Booked

LEMMA BooksPopped ==
  ASSUME TypeQueues, Booked, got \subseteq Orders, queue \in Seq(Orders \union {Mark}),
         NEW d \in Desktops, req[d] # <<>>,
         Head(req[d]) = Lpop, req' = [req EXCEPT ![d] = Tail(@)],
         queue' = IF queue = <<>> THEN queue ELSE Tail(queue), UNCHANGED <<rep, got>>
  PROVE  Booked' /\ queue' \in Seq(Orders \union {Mark})
<1>1. /\ \A e \in Desktops : Paired(req'[e])
      /\ d \in Marked' <=> Head(req[d]) = Lpush(Mark)
      /\ d \in Marked <=> Head(req[d]) = Lpop
      /\ \A e \in Desktops \ {d} : req'[e] = req[e] /\ (e \in Marked' <=> e \in Marked)
      /\ \A o \in Orders :
           /\ Holds(req[d], Record(o)) <=> Head(req[d]) \in Record(o) \/ Holds(req'[d], Record(o))
           /\ Once(req'[d], Record(o))
  BY ServedMoves
<1>2. /\ d \in Marked /\ d \notin Marked'
      /\ \A o \in Orders : Head(req[d]) \notin Record(o)
  BY <1>1, PushFacts DEF Record
<1>3. OnlyAt(d)
  BY <1>1 DEF OnlyAt
<1>4. ASSUME NEW o \in Orders PROVE LoneAt(d, o)' /\ (Has(d, o)' <=> Has(d, o))
  <2>1. LoneAt(d, o)
    BY DEF Booked, Lone
  <2> QED
    BY <1>1, <1>2, <2>1 DEF LoneAt, Has
<1>5. \A o \in Orders : Lone(o)'
  BY <1>3, <1>4, LoneKept DEF Booked
<1>6. Owing' = Owing
  <2>1. \A e \in Desktops, o \in Orders : Has(e, o)' <=> Has(e, o)
    BY <1>3, <1>4 DEF OnlyAt, Has
  <2> QED
    BY <2>1 DEF Owing
<1>7. Marked' = Marked \ {d}
  BY <1>1, <1>2 DEF Marked
<1>8. IsFiniteSet(Marked \ {d}) /\ Cardinality(Marked \ {d}) = Cardinality(Marked) - 1
  BY <1>2, BooksFinite, FS_RemoveElement
<1>9. Cardinality(Marked) # 0
  BY <1>2, BooksFinite, FS_EmptySet
<1>10. Len(queue) + Cardinality(Owing) = Cardinality(got) + Cardinality(Marked)
  BY DEF Booked
<1>11. Len(queue) \in Nat /\ Len(queue) # 0
  <2>1. Len(queue) \in Nat
    BY LenProperties
  <2> QED
    BY <1>9, <1>10, <2>1, BooksFinite
<1>12. queue # <<>> /\ queue' = Tail(queue)
  BY <1>11
<1>13. queue' \in Seq(Orders \union {Mark}) /\ Len(queue') = Len(queue) - 1
  BY <1>12, HeadTailProperties
<1>14. Len(queue') + Cardinality(Owing') = Cardinality(got') + Cardinality(Marked')
  <2>1. Len(queue) \in Nat /\ Cardinality(Owing) \in Nat /\ Cardinality(got) \in Nat /\ Cardinality(Marked) \in Nat
    BY <1>11, BooksFinite
  <2>2. (Len(queue) - 1) + Cardinality(Owing) = Cardinality(got) + (Cardinality(Marked) - 1)
    BY <1>10, <2>1, Balance
  <2> QED
    BY <1>6, <1>7, <1>8, <1>13, <2>2
<1> QED
  BY <1>1, <1>5, <1>6, <1>7, <1>8, <1>13, <1>14 DEF Booked

\* Orders that got an item were placed, and are never idle or placed again.
LEMMA GotServed ==
  ASSUME TypeStore, TypeQueues, Flow, Books, NEW d \in Desktops, Serve(d)
  PROVE  got' \subseteq Orders /\ \A o \in got' : phase'[o] \notin {"idle", "placed"}
<1>1. CASE ServeRead(d) \/ ServePing(d) \/ ServeLpush(d) \/ ServeLpop(d) \/ ServeAstray(d)
  <2>1. UNCHANGED <<phase, got>>
    BY <1>1, Zenon DEF ServeRead, ServePing, ServeLpush, ServeLpop, ServeAstray, store
  <2> QED
    BY <2>1 DEF Books
<1>2. CASE ServeWrite(d)
  <2>1. got' = got
    BY <1>2, Zenon DEF ServeWrite
  <2>2. \A p \in Phases : Renew(p) \in {"idle", "placed"} => p \in {"idle", "placed"}
    BY DEF Renew, Phases
  <2>3. \A o \in Orders : phase[o] \in Phases
    BY DEF TypeStore
  <2>4. phase' = phase \/ \A o \in Orders : phase'[o] = Renew(phase[o])
    BY <1>2, WriteFacts
  <2> QED
    BY <2>1, <2>2, <2>3, <2>4 DEF Books
<1>3. CASE ServeIncr(d)
  <2> DEFINE o == Request(d).ord
  <2>1. got' = got
    BY <1>3, Zenon DEF ServeIncr
  <2>2. phase' = [phase EXCEPT ![o] = IF @ = "stale" THEN "late" ELSE "restored"]
    BY <1>3, IncrFacts
  <2> HIDE DEF o
  <2>3. \A p \in Orders : phase'[p] = phase[p] \/ phase'[p] \in {"late", "restored"}
    BY <2>2 DEF TypeStore
  <2> QED
    BY <2>1, <2>3 DEF Books
<1>4. CASE ServeDecr(d)
  <2> DEFINE o == Request(d).ord
             n == OrZero(db.counter) - 1
  <2>1. got' = IF n >= 0 THEN got \union {o} ELSE got
    BY <1>4, Zenon DEF ServeDecr
  <2>2. /\ o \in Orders /\ phase[o] = "placed"
        /\ phase' = [phase EXCEPT ![o] = IF n >= 0 THEN "granted" ELSE "refused"]
    BY <1>4, DecrFacts, FlowDecr
  <2> HIDE DEF o, n
  <2>3. \A p \in Orders : phase'[p] = phase[p] \/ phase'[p] \in {"granted", "refused"}
    BY <2>2 DEF TypeStore
  <2>4. phase'[o] \in {"granted", "refused"}
    BY <2>2 DEF TypeStore
  <2> QED
    BY <2>1, <2>2, <2>3, <2>4 DEF Books
<1> QED
  BY <1>1, <1>2, <1>3, <1>4 DEF Serve

LEMMA BooksServe ==
  ASSUME TypeStore, TypeQueues, Flow, Books, Booked, NEW d \in Desktops, Serve(d), open[d]
  PROVE  Booked'
<1>1. got \subseteq Orders /\ queue \in Seq(Orders \union {Mark})
  BY DEF Books
<1>2. CASE ServeRead(d) \/ ServePing(d)
  <2>1. /\ Execute(d, "read") \/ Execute(d, "PING")
        /\ UNCHANGED <<queue, got>>
    BY <1>2, Zenon DEF ServeRead, ServePing, store
  <2>2. Request(d) \in Bland /\ Request(d) = Head(req[d])
    BY <2>1, ExecuteFacts, RequestFacts, WriteTypes DEF Bland, Calm, Request
  <2>3. rep' = rep \/ \E a \in Answers : rep' = [rep EXCEPT ![d] = Append(@, a)]
    BY <1>2, ServeShape DEF Plainly
  <2>4. req[d] # <<>> /\ req' = [req EXCEPT ![d] = Tail(@)]
    BY <2>1, ExecuteFacts
  <2> QED
    BY <1>1, <2>1, <2>2, <2>3, <2>4, WonFacts, BooksServed
<1>3. CASE ServeWrite(d)
  <2>1. Execute(d, "write") /\ UNCHANGED <<queue, got>>
    BY <1>3, Zenon DEF ServeWrite
  <2>2. Request(d) \in Bland /\ Request(d) = Head(req[d])
    BY <2>1, ExecuteFacts, RequestFacts DEF Bland, Calm, Request
  <2>3. rep' = rep \/ \E a \in Answers : rep' = [rep EXCEPT ![d] = Append(@, a)]
    BY <1>3, WriteFacts
  <2>4. req[d] # <<>> /\ req' = [req EXCEPT ![d] = Tail(@)]
    BY <2>1, ExecuteFacts
  <2> QED
    BY <1>1, <2>1, <2>2, <2>3, <2>4, WonFacts, BooksServed
<1>4. CASE ServeIncr(d)
  <2>1. Execute(d, "INCR") /\ UNCHANGED <<queue, got, rep>>
    BY <1>4, Zenon DEF ServeIncr
  <2>2. Request(d) \in Bland /\ Request(d) = Head(req[d])
    BY <2>1, ExecuteFacts, RequestFacts DEF Bland, Request
  <2>3. req[d] # <<>> /\ req' = [req EXCEPT ![d] = Tail(@)]
    BY <2>1, ExecuteFacts
  <2> QED
    BY <1>1, <2>1, <2>2, <2>3, BooksServed
<1>5. CASE ServeDecr(d)
  <2> DEFINE o == Request(d).ord
             n == OrZero(db.counter) - 1
             a == [then |-> Request(d).then, ord |-> o, val |-> n]
  <2>1. /\ Execute(d, "DECR") /\ queue' = queue /\ Answer(d, a)
        /\ got' = IF n >= 0 THEN got \union {o} ELSE got
    BY <1>5, Zenon DEF ServeDecr
  <2>2. o \in Orders /\ n \in Int /\ Request(d) \in Decrs /\ phase[o] = "placed"
    BY <1>5, DecrFacts, FlowDecr
  <2>3. a \in Outcomes /\ a.ord = o /\ a.val = n
    BY <2>2 DEF Outcomes, Decrs
  <2>4. req[d] # <<>> /\ req' = [req EXCEPT ![d] = Tail(@)] /\ Head(req[d]) \in Bland
    BY <2>1, <2>2, ExecuteFacts DEF Bland, Request
  <2> HIDE DEF o, n, a
  <2>5. rep' = [rep EXCEPT ![d] = Append(@, a)]
    BY <2>1, Zenon DEF Answer
  <2>6. CASE n >= 0
    <3>1. \A p \in Orders : a \in Won(p) <=> p = o
      BY <2>3, <2>6, WonFacts
    <3>2. o \notin got
      BY <2>2 DEF Books
    <3>3. got' = got \union {o}
      BY <2>1, <2>6
    <3> QED
      BY <1>1, <2>1, <2>2, <2>4, <2>5, <3>1, <3>2, <3>3, BooksGranted
  <2>7. CASE ~(n >= 0)
    <3>1. \A p \in Orders : a \notin Won(p)
      <4>1. a.val < 0
        BY <2>2, <2>3, <2>7
      <4> QED
        BY <2>3, <4>1, WonFacts
    <3>2. UNCHANGED <<queue, got>>
      BY <2>1, <2>7
    <3> QED
      BY <1>1, <2>4, <2>5, <3>1, <3>2, BooksServed
  <2> QED
    BY <2>6, <2>7
<1>6. CASE ServeLpush(d)
  <2>1. Execute(d, "LPUSH") /\ queue' = <<Request(d).item>> \o queue /\ UNCHANGED <<rep, got>>
    BY <1>6, Zenon DEF ServeLpush
  <2>2. Request(d) \in Lpushes /\ req[d] # <<>> /\ req' = [req EXCEPT ![d] = Tail(@)]
    BY <2>1, ExecuteFacts, RequestFacts
  <2>3. /\ Request(d).item \in Orders \union {Mark}
        /\ Head(req[d]) = Lpush(Request(d).item)
    BY <2>2 DEF Lpushes, Lpush, Request
  <2> QED
    BY <1>1, <2>1, <2>2, <2>3, BooksPushed
<1>7. CASE ServeLpop(d)
  <2>1. /\ Execute(d, "LPOP") /\ UNCHANGED <<rep, got>>
        /\ queue' = IF queue = <<>> THEN queue ELSE Tail(queue)
    BY <1>7, Zenon DEF ServeLpop
  <2>2. Head(req[d]) = Lpop /\ req[d] # <<>> /\ req' = [req EXCEPT ![d] = Tail(@)]
    BY <2>1, ExecuteFacts, RequestFacts DEF Request
  <2> QED
    BY <1>1, <2>1, <2>2, BooksPopped
<1>8. CASE ServeAstray(d)
  <2> DEFINE o == Request(d).ord
  <2>1. o = Request(d).ord
    OBVIOUS
  <2> HIDE DEF o
  <2>2. /\ Request(d) \in Decrs \/ Request(d) \in Incrs
        /\ req[d] # <<>> /\ req' = [req EXCEPT ![d] = Tail(@)] /\ UNCHANGED store
    BY <1>8, <2>1, AstrayFacts, Zenon
  <2>3. rep' = rep \/ RefusedAstray(d, o)
    BY <1>8, <2>1, AstrayFacts, Zenon
  <2>4. rep' = rep \/ \E a \in Refusals : rep' = [rep EXCEPT ![d] = Append(@, a)]
    BY <2>3, Zenon DEF RefusedAstray
  <2>5. Head(req[d]) \in Bland /\ UNCHANGED <<queue, got>>
    BY <2>2 DEF Bland, Request, store
  <2> QED
    BY <1>1, <2>2, <2>4, <2>5, WonFacts, BooksServed
<1> QED
  BY <1>2, <1>3, <1>4, <1>5, <1>6, <1>7, <1>8 DEF Serve

LEMMA QueueServed ==
  ASSUME TypeQueues, Books, NEW d \in Desktops, Serve(d)
  PROVE  queue' \in Seq(Orders \union {Mark})
<1>1. queue \in Seq(Orders \union {Mark})
  BY DEF Books
<1>2. CASE ServeLpush(d)
  <2>1. Execute(d, "LPUSH") /\ queue' = <<Request(d).item>> \o queue
    BY <1>2, Zenon DEF ServeLpush
  <2>2. Request(d).item \in Orders \union {Mark}
    BY <2>1, ExecuteFacts, RequestFacts DEF Lpushes
  <2> DEFINE b == <<Request(d).item>>
  <2>3. b \in Seq(Orders \union {Mark})
    BY <2>2
  <2> HIDE DEF b
  <2>4. b \o queue \in Seq(Orders \union {Mark})
    BY <1>1, <2>3, ConcatProperties
  <2> QED
    BY <2>1, <2>4 DEF b
<1>3. CASE ServeLpop(d)
  <2>1. queue' = IF queue = <<>> THEN queue ELSE Tail(queue)
    BY <1>3, Zenon DEF ServeLpop
  <2> QED
    BY <1>1, <2>1, HeadTailProperties
<1>4. CASE \/ ServeRead(d) \/ ServeWrite(d) \/ ServeDecr(d) \/ ServeIncr(d)
           \/ ServeAstray(d) \/ ServePing(d)
  <2>1. queue' = queue
    BY <1>4, Zenon DEF ServeRead, ServeWrite, ServeDecr, ServeIncr, ServeAstray, ServePing, store
  <2> QED
    BY <1>1, <2>1
<1> QED
  BY <1>2, <1>3, <1>4 DEF Serve

LEMMA LostGrows ==
  ASSUME PanelType, NEW d \in Desktops,
         Connect(d) \/ Lose(d) \/ User(d) \/ EventLoop(d) \/ Serve(d)
  PROVE  lost \subseteq lost'
<1>1. CASE Connect(d) \/ Lose(d)
  BY <1>1, Zenon DEF Connect, Lose
<1>2. CASE User(d)
  <2>1. PanelUsual(d) \/ OnBatchStressTest(d)
    BY <1>2, UsualUser, Zenon DEF User
  <2>2. OnBatchStressTest(d) => lost' = lost
    BY Zenon DEF OnBatchStressTest
  <2> QED
    BY <2>1, <2>2 DEF PanelUsual
<1>3. CASE EventLoop(d)
  <2>1. PanelUsual(d) \/ OnTest(d) \/ EndTest(d)
    BY <1>3, UsualUser, UsualCallback, Zenon DEF EventLoop, Callback
  <2>2. OnTest(d) \/ EndTest(d) => lost' = lost
    BY Zenon DEF OnTest, EndTest
  <2> QED
    BY <2>1, <2>2 DEF PanelUsual
<1>4. CASE Serve(d)
  BY <1>4, ServedReply
<1> QED
  BY <1>1, <1>2, <1>3, <1>4

LEMMA BooksInit == Init => Books
<1> SUFFICES ASSUME Init PROVE Books
  OBVIOUS
<1>1. /\ queue = <<>> /\ got = {} /\ req = [d \in Desktops |-> <<>>]
      /\ rep = [d \in Desktops |-> <<>>]
  BY Zenon DEF Init
<1>2. \A d \in Desktops : req[d] = <<>> /\ rep[d] = <<>>
  BY <1>1
<1>3. \A C : Once(<<>>, C) /\ ~Holds(<<>>, C)
  BY RangeOfNone DEF Once, Holds
<1>4. \A d \in Desktops, o \in Orders : LoneAt(d, o) /\ ~Has(d, o)
  BY <1>2, <1>3 DEF LoneAt, Has
<1>5. Owing = {} /\ \A o \in Orders : Lone(o)
  BY <1>4 DEF Owing, Lone
<1>6. Marked = {}
  BY <1>2 DEF Marked
<1>7. \A d \in Desktops : Paired(req[d])
  BY <1>2 DEF Paired
<1>8. IsFiniteSet({}) /\ Cardinality({}) = 0
  BY FS_EmptySet
<1>9. Len(queue) = 0 /\ queue \in Seq(Orders \union {Mark})
  BY <1>1
<1>10. Booked
  BY <1>1, <1>5, <1>6, <1>7, <1>8, <1>9 DEF Booked
<1> QED
  BY <1>1, <1>9, <1>10 DEF Books

LEMMA BooksStep == IInv /\ Watch /\ Books /\ [Next]_vars => Books'
<1> SUFFICES ASSUME IInv, Watch, Books, [Next]_vars PROVE Books'
  OBVIOUS
<1>1. TypeStore /\ TypeQueues /\ Flow /\ PanelType
  BY DEF IInv, Watch
<1>2. CASE UNCHANGED vars
  <2>1. UNCHANGED <<queue, got, phase, lost, req, rep>>
    BY <1>2 DEF vars, store
  <2>2. Booked => Booked'
    BY <2>1 DEF Booked, Lone, LoneAt, Has, Owing, Marked
  <2> QED
    BY <2>1, <2>2 DEF Books
<1>3. ASSUME NEW d \in Desktops,
             Connect(d) \/ Lose(d) \/ User(d) \/ EventLoop(d) \/ Serve(d)
      PROVE  Books'
  <2> DEFINE Shaped == Calmly(d) \/ Seeds(d) \/ Records(d) \/ RollsBack(d) \/ Orderly(d)
  <2>1. lost \subseteq lost'
    BY <1>1, <1>3, LostGrows
  <2>2. Watched(d)
    BY DEF Watch
  <2>3. ASSUME Shaped PROVE Books'
    <3>1. UNCHANGED <<queue, got>> /\ \A o \in got : phase'[o] \notin {"idle", "placed"}
      <4>1. CASE Orderly(d)
        <5>1. PICK S \in SUBSET Orders : Place(S, d) /\ UNCHANGED <<queue, got>>
          BY <4>1 DEF Orderly
        <5>2. \A o \in got : o \in Orders /\ o \notin S
          BY <5>1 DEF Place, In, Books
        <5> QED
          BY <5>1, <5>2 DEF Place, Books
      <4>2. CASE Calmly(d) \/ Seeds(d) \/ Records(d) \/ RollsBack(d)
        <5>1. UNCHANGED store
          BY <4>2 DEF Calmly, Seeds, Records, RollsBack
        <5> QED
          BY <5>1 DEF store, Books
      <4> QED
        BY <2>3, <4>1, <4>2
    <3>2. lost' = {} => Booked'
      <4>1. ~open[d] => rep[d] = <<>>
        BY <2>2 DEF Watched
      <4>2. Booked => Booked'
        BY <1>1, <2>3, <4>1, BooksDesktop
      <4> QED
        BY <2>1, <4>2 DEF Books
    <3> QED
      BY <3>1, <3>2 DEF Books
  <2>4. CASE Lose(d)
    <3>1. UNCHANGED <<queue, got, phase>> /\ lost' # {}
      BY <2>4 DEF Lose, store
    <3> QED
      BY <3>1 DEF Books
  <2>5. CASE Serve(d)
    <3>1. /\ queue' \in Seq(Orders \union {Mark}) /\ got' \subseteq Orders
          /\ \A o \in got' : phase'[o] \notin {"idle", "placed"}
      BY <1>1, <2>5, QueueServed, GotServed
    <3>2. lost' = {} => Booked'
      <4> SUFFICES ASSUME lost' = {} PROVE Booked'
        OBVIOUS
      <4>1. lost = {} /\ Booked
        BY <2>1 DEF Books
      <4>2. open[d]
        <5>1. req[d] # <<>>
          BY <2>5, ServedReply
        <5> QED
          BY <2>2, <4>1, <5>1 DEF Watched
      <4> QED
        BY <1>1, <2>5, <4>1, <4>2, BooksServe
    <3> QED
      BY <3>1, <3>2 DEF Books
  <2>6. CASE Connect(d)
    BY <1>1, <2>3, <2>6, ConnectShape
  <2>7. CASE User(d)
    <3>1. Shaped
      BY <1>1, <2>7, MenuShape, DialogShape, OrderShape, Zenon DEF User
    <3> QED
      BY <2>3, <3>1
  <2>8. CASE EventLoop(d)
    <3>1. Shaped
      BY <1>1, <2>8, CallbackShape, OutcomeShape, DialogShape, Zenon DEF EventLoop, Callback
    <3> QED
      BY <2>3, <3>1
  <2> QED
    BY <1>3, <2>4, <2>5, <2>6, <2>7, <2>8
<1> QED
  BY <1>2, <1>3, Zenon DEF Next

LEMMA Booking == Spec => []Books
  BY Inductive, Watching, BooksInit, BooksStep, PTL DEF Spec

-----------------------------------------------------------------------------
(* The counter of a flash product.  Whenever it is missing, some desktop   *)
(* is on its way to create it: by a load, or by a write already sent.      *)

Follows(q, A, B) ==
  \A i \in 1..Len(q) : q[i] \in A => \E j \in 1..Len(q) : j > i /\ q[j] \in B
Precedes(q, A, B) == \E i, j \in 1..Len(q) : i < j /\ q[i] \in A /\ q[j] \in B

Fills(f) == {m \in Writes : f \in DOMAIN m.put /\ m.put[f] # None}
Exposes == Fills("sale") \union Fills("price")
Clears == {m \in Writes : "counter" \in DOMAIN m.put /\ m.put["counter"] = None}
Asks(thens) == {m \in Reads : m.then \in thens}

\* The links of the chain that ends by creating a missing counter: requests, and replies.
Probes == Asks({"seed", "sales", "title", "list", "detail", "price", "ensure"}) \union Fills("counter")
Hints == {a \in Answers : \/ a.then \in {"seed", "title", "detail"}
                          \/ a.then \in {"sales", "list", "price"} /\ a.val # None
                          \/ a.then = "ensure" /\ a.val = None}
Unseeded == {a \in Answers : a.then = "seed" /\ a.val = None}

Cover(d) ==
  ~open[d] \/ timer[d] > 0 \/ Holds(req[d], Probes) \/ Holds(rep[d], Hints)

\* While nothing was seeded every desktop that is connected is about to.
Seeding(d) ==
  \/ Holds(req[d], Asks({"seed"})) \/ Holds(rep[d], Unseeded)
  \/ Precedes(req[d], Fills("stock"), Fills("counter"))

\* What puts the product on sale sets its counter later; what drops the counter
\* is followed by a load.
Armed(d) ==
  /\ Follows(req[d], Exposes, Fills("counter"))
  /\ timer[d] > 0 \/ Follows(req[d], Clears, Asks({"sales"}))
  /\ db.stock = None /\ ~gone => Seeding(d)

Missing ==
  ~gone /\ db.sale # None /\ db.stock # None /\ db.price # None /\ db.counter = None

Repairs ==
  /\ Missing => \E d \in Desktops : Cover(d)
  /\ \A d \in Desktops : open[d] => Armed(d)

LEMMA FollowsTail ==
  ASSUME NEW S, NEW q \in Seq(S), q # <<>>, NEW A, NEW B, Follows(q, A, B)
  PROVE  Follows(Tail(q), A, B) /\ (Head(q) \in A => Holds(Tail(q), B))
<1> DEFINE t == Tail(q)
<1>1. /\ t \in Seq(S) /\ Len(q) \in Nat \ {0} /\ Len(t) = Len(q) - 1
      /\ \A i \in 1..Len(t) : t[i] = q[i + 1]
      /\ Head(q) = q[1] /\ DOMAIN t = 1..Len(t)
  BY HeadTailProperties, EmptySeq, LenProperties
<1> HIDE DEF t
<1>2. \A j \in 1..Len(q) : j > 1 => j - 1 \in 1..Len(t) /\ t[j - 1] = q[j]
  BY <1>1
<1>3. ASSUME NEW i \in 1..Len(t), t[i] \in A
      PROVE  \E j \in 1..Len(t) : j > i /\ t[j] \in B
  <2>1. i + 1 \in 1..Len(q) /\ q[i + 1] \in A
    BY <1>1, <1>3
  <2>2. PICK j \in 1..Len(q) : j > i + 1 /\ q[j] \in B
    BY <2>1 DEF Follows
  <2>3. j - 1 \in 1..Len(t) /\ j - 1 > i /\ t[j - 1] \in B
    BY <1>1, <1>2, <2>2
  <2> QED
    BY <2>3
<1>4. ASSUME Head(q) \in A PROVE Holds(t, B)
  <2>1. 1 \in 1..Len(q) /\ q[1] \in A
    BY <1>1, <1>4
  <2>2. PICK j \in 1..Len(q) : j > 1 /\ q[j] \in B
    BY <2>1 DEF Follows
  <2>3. j - 1 \in DOMAIN t /\ t[j - 1] \in B
    BY <1>1, <1>2, <2>2
  <2> QED
    BY <2>3 DEF Holds, Range
<1>5. Follows(t, A, B)
  BY <1>3 DEF Follows
<1> QED
  BY <1>4, <1>5 DEF t

LEMMA ConcatPlaces ==
  ASSUME NEW S, NEW a \in Seq(S), NEW b \in Seq(S), NEW ab, ab = a \o b
  PROVE  /\ Len(a) \in Nat /\ Len(b) \in Nat /\ Len(ab) = Len(a) + Len(b)
         /\ DOMAIN a = 1..Len(a) /\ DOMAIN b = 1..Len(b)
         /\ \A i \in 1..Len(a) : i \in 1..Len(ab) /\ ab[i] = a[i]
         /\ \A i \in 1..Len(b) : /\ i + Len(a) \in 1..Len(ab) /\ ab[i + Len(a)] = b[i]
                                 /\ \A k \in 1..Len(a) : i + Len(a) > k
         /\ \A i \in 1..Len(ab) : i \notin 1..Len(a) =>
              i - Len(a) \in 1..Len(b) /\ ab[i] = b[i - Len(a)]
<1>1. /\ Len(a) \in Nat /\ Len(b) \in Nat /\ Len(ab) = Len(a) + Len(b)
      /\ DOMAIN a = 1..Len(a) /\ DOMAIN b = 1..Len(b)
      /\ \A i \in 1..Len(a) : ab[i] = a[i]
      /\ \A i \in 1..Len(ab) : i > Len(a) => ab[i] = b[i - Len(a)]
  BY ConcatProperties, LenProperties
<1>2. ASSUME NEW i \in 1..Len(b)
      PROVE  /\ i + Len(a) \in 1..Len(ab) /\ ab[i + Len(a)] = b[i]
             /\ \A k \in 1..Len(a) : i + Len(a) > k
  <2>1. i + Len(a) \in 1..Len(ab) /\ i + Len(a) > Len(a) /\ (i + Len(a)) - Len(a) = i
    BY <1>1
  <2>2. \A k \in 1..Len(a) : i + Len(a) > k
    BY <1>1
  <2> QED
    BY <1>1, <2>1, <2>2
<1>3. \A i \in 1..Len(a) : i \in 1..Len(ab)
  BY <1>1
<1>4. ASSUME NEW i \in 1..Len(ab), i \notin 1..Len(a)
      PROVE  i - Len(a) \in 1..Len(b) /\ ab[i] = b[i - Len(a)]
  <2>1. i > Len(a) /\ i - Len(a) \in 1..Len(b)
    BY <1>1, <1>4
  <2> QED
    BY <1>1, <2>1
<1> QED
  BY <1>1, <1>2, <1>3, <1>4

LEMMA FollowsConcat ==
  ASSUME NEW S, NEW a \in Seq(S), NEW b \in Seq(S), NEW A, NEW B,
         Follows(b, A, B), Follows(a, A, B) \/ Holds(b, B)
  PROVE  Follows(a \o b, A, B)
<1> DEFINE ab == a \o b
<1>1. /\ Len(a) \in Nat /\ Len(b) \in Nat /\ DOMAIN b = 1..Len(b)
      /\ \A i \in 1..Len(a) : i \in 1..Len(ab) /\ ab[i] = a[i]
      /\ \A i \in 1..Len(b) : /\ i + Len(a) \in 1..Len(ab) /\ ab[i + Len(a)] = b[i]
                              /\ \A k \in 1..Len(a) : i + Len(a) > k
      /\ \A i \in 1..Len(ab) : i \notin 1..Len(a) =>
           i - Len(a) \in 1..Len(b) /\ ab[i] = b[i - Len(a)]
  BY ConcatPlaces
<1> HIDE DEF ab
<1> SUFFICES ASSUME NEW i \in 1..Len(ab), ab[i] \in A
             PROVE  \E j \in 1..Len(ab) : j > i /\ ab[j] \in B
  BY DEF Follows, ab
<1>2. CASE i \notin 1..Len(a)
  <2>1. i - Len(a) \in 1..Len(b) /\ b[i - Len(a)] \in A
    BY <1>1, <1>2
  <2>2. PICK j \in 1..Len(b) : j > i - Len(a) /\ b[j] \in B
    BY <2>1 DEF Follows
  <2>3. j + Len(a) \in 1..Len(ab) /\ ab[j + Len(a)] \in B
    BY <1>1, <2>2
  <2>4. j + Len(a) > i
    BY <1>1, <2>1, <2>2
  <2> QED
    BY <2>3, <2>4
<1>3. CASE i \in 1..Len(a) /\ Follows(a, A, B)
  <2>1. PICK j \in 1..Len(a) : j > i /\ a[j] \in B
    BY <1>1, <1>3 DEF Follows
  <2> QED
    BY <1>1, <2>1
<1>4. CASE i \in 1..Len(a) /\ Holds(b, B)
  <2>1. PICK j \in 1..Len(b) : b[j] \in B
    BY <1>1, <1>4 DEF Holds, Range
  <2> QED
    BY <1>1, <1>4, <2>1
<1> QED
  BY <1>2, <1>3, <1>4

LEMMA FollowsNone ==
  ASSUME NEW S, NEW q \in Seq(S), NEW A, NEW B, ~Holds(q, A)
  PROVE  Follows(q, A, B)
<1>1. DOMAIN q = 1..Len(q)
  BY LenProperties
<1> QED
  BY <1>1 DEF Follows, Holds, Range

LEMMA PrecedesTail ==
  ASSUME NEW S, NEW q \in Seq(S), q # <<>>, NEW A, NEW B, Precedes(q, A, B)
  PROVE  Holds(Tail(q), B) /\ (Head(q) \notin A => Precedes(Tail(q), A, B))
<1> DEFINE t == Tail(q)
<1>1. /\ t \in Seq(S) /\ Len(q) \in Nat \ {0} /\ Len(t) = Len(q) - 1
      /\ \A i \in 1..Len(t) : t[i] = q[i + 1]
      /\ Head(q) = q[1] /\ DOMAIN t = 1..Len(t)
  BY HeadTailProperties, EmptySeq, LenProperties
<1> HIDE DEF t
<1>2. \A j \in 1..Len(q) : j > 1 => j - 1 \in 1..Len(t) /\ t[j - 1] = q[j]
  BY <1>1
<1>3. PICK i \in 1..Len(q), j \in 1..Len(q) : i < j /\ q[i] \in A /\ q[j] \in B
  BY DEF Precedes
<1>4. j - 1 \in 1..Len(t) /\ t[j - 1] \in B
  BY <1>1, <1>2, <1>3
<1>5. ASSUME Head(q) \notin A PROVE Precedes(t, A, B)
  <2>1. i # 1
    BY <1>1, <1>3, <1>5
  <2>2. i - 1 \in 1..Len(t) /\ t[i - 1] \in A /\ i - 1 < j - 1
    BY <1>1, <1>2, <1>3, <2>1
  <2> QED
    BY <1>4, <2>2 DEF Precedes
<1>6. Holds(t, B)
  BY <1>1, <1>4 DEF Holds, Range
<1> QED
  BY <1>5, <1>6 DEF t

LEMMA PrecedesConcat ==
  ASSUME NEW S, NEW a \in Seq(S), NEW b \in Seq(S), NEW A, NEW B,
         Precedes(a, A, B) \/ Precedes(b, A, B)
  PROVE  Precedes(a \o b, A, B)
<1> DEFINE ab == a \o b
<1>1. /\ Len(a) \in Nat
      /\ \A i \in 1..Len(a) : i \in 1..Len(ab) /\ ab[i] = a[i]
      /\ \A i \in 1..Len(b) : i + Len(a) \in 1..Len(ab) /\ ab[i + Len(a)] = b[i]
  BY ConcatPlaces
<1> HIDE DEF ab
<1>2. CASE Precedes(a, A, B)
  BY <1>1, <1>2 DEF Precedes, ab
<1>3. CASE Precedes(b, A, B)
  <2>1. PICK i \in 1..Len(b), j \in 1..Len(b) : i < j /\ b[i] \in A /\ b[j] \in B
    BY <1>3 DEF Precedes
  <2>2. /\ i + Len(a) \in 1..Len(ab) /\ j + Len(a) \in 1..Len(ab)
        /\ ab[i + Len(a)] \in A /\ ab[j + Len(a)] \in B
    BY <1>1, <2>1
  <2>3. i + Len(a) < j + Len(a)
    BY <1>1, <2>1
  <2> QED
    BY <2>2, <2>3 DEF Precedes, ab
<1> QED
  BY <1>2, <1>3

\* The writes, by what they put.
LEMMA WritePuts ==
  \A f : \A p \in Puts, t \in {"-", "adjusted"}, n \in Nat :
    /\ WriteThen(p, t, n) \in Writes
    /\ WriteThen(p, t, n) \in Fills(f) <=> f \in DOMAIN p /\ p[f] # None
    /\ WriteThen(p, t, n) \in Clears <=> "counter" \in DOMAIN p /\ p["counter"] = None
<1> TAKE f
<1> TAKE p \in Puts, t \in {"-", "adjusted"}, n \in Nat
<1> DEFINE m == WriteThen(p, t, n)
<1>1. m \in Writes /\ m.put = p
  BY DEF WriteThen, Writes
<1> HIDE DEF m
<1>2. /\ m \in Fills(f) <=> f \in DOMAIN p /\ p[f] # None
      /\ m \in Clears <=> "counter" \in DOMAIN p /\ p["counter"] = None
  BY <1>1 DEF Fills, Clears
<1> QED
  BY <1>1, <1>2 DEF m

LEMMA NatIsSome == None \notin Nat /\ Nat \subseteq Stored /\ Stored \subseteq Int \union {None}
  BY ConstantsAssumption DEF Stored

\* Requests that neither put the product on sale nor drop the counter.
Tame == {m \in Requests : m \notin Exposes /\ m \notin Clears}

LEMMA ReadsTame ==
  \A m \in Requests : m.cmd # "write" => m \in Tame /\ \A f : m \notin Fills(f)
<1>1. \A m \in Writes : m.cmd = "write"
  BY DEF Writes
<1> QED
  BY <1>1 DEF Tame, Exposes, Fills, Clears

LEMMA WritesTame ==
  /\ \A n \in Nat : Write([stock |-> n]) \in Tame /\ Write([stock |-> n]) \in Fills("stock")
  /\ \A n, k \in Nat : WriteThen([stock |-> n], "adjusted", k) \in Tame
  /\ \A n \in Nat : Write([counter |-> n]) \in Tame /\ Write([counter |-> n]) \in Fills("counter")
  /\ \A n \in Int : Write([cap |-> n]) \in Tame
  /\ Write([stock |-> None]) \in Tame /\ Write([price |-> None, cap |-> None]) \in Tame
  /\ Write([sale |-> 1]) \in Requests \ Clears
  /\ \A n \in Nat : Write([price |-> 1, cap |-> n]) \in Requests \ Clears
  /\ Write([counter |-> None]) \in Requests \ Exposes
<1>1. \A p \in Puts, t \in {"-", "adjusted"}, n \in Nat : WriteThen(p, t, n) \in Requests
  BY WritePuts DEF Requests, Plain, Calm
<1>2. /\ \A n \in Nat : [stock |-> n] \in Puts /\ [counter |-> n] \in Puts /\ [cap |-> n] \in Puts
      /\ \A n \in Int : [cap |-> n] \in Puts
      /\ \A n \in Nat : [price |-> 1, cap |-> n] \in Puts
      /\ [stock |-> None] \in Puts /\ [counter |-> None] \in Puts /\ [sale |-> 1] \in Puts
      /\ [price |-> None, cap |-> None] \in Puts
  BY PutTypes, NatIsSome DEF Stored
<1>3. \A p \in Puts : Write(p) = WriteThen(p, "-", 0)
  BY DEF Write
<1>4. ASSUME NEW n \in Nat, NEW k \in Nat
      PROVE  /\ Write([stock |-> n]) \in Tame /\ Write([stock |-> n]) \in Fills("stock")
             /\ WriteThen([stock |-> n], "adjusted", k) \in Tame
  <2> DEFINE p == [stock |-> n]
  <2>1. DOMAIN p = {"stock"} /\ p["stock"] # None /\ p \in Puts
    BY <1>2, NatIsSome
  <2> HIDE DEF p
  <2>2. WriteThen(p, "-", 0) \in Tame /\ WriteThen(p, "-", 0) \in Fills("stock")
        /\ WriteThen(p, "adjusted", k) \in Tame
    <3>1. WriteThen(p, "-", 0) \in Fills("stock")
      BY <2>1, WritePuts
    <3>2. \A t \in {"-", "adjusted"}, x \in Nat : WriteThen(p, t, x) \in Tame
      <4>1. \A t \in {"-", "adjusted"}, x \in Nat :
              /\ WriteThen(p, t, x) \in Requests /\ WriteThen(p, t, x) \notin Clears
              /\ \A f \in {"sale", "price"} : WriteThen(p, t, x) \notin Fills(f)
        BY <1>1, <2>1, WritePuts
      <4> QED
        BY <4>1 DEF Tame, Exposes
    <3> QED
      BY <3>1, <3>2
  <2> QED
    BY <1>3, <2>1, <2>2 DEF p
<1>5. ASSUME NEW n \in Nat
      PROVE  Write([counter |-> n]) \in Tame /\ Write([counter |-> n]) \in Fills("counter")
  <2> DEFINE p == [counter |-> n]
  <2>1. DOMAIN p = {"counter"} /\ p["counter"] # None /\ p \in Puts
    BY <1>2, NatIsSome
  <2> HIDE DEF p
  <2>2. WriteThen(p, "-", 0) \in Tame /\ WriteThen(p, "-", 0) \in Fills("counter")
    BY <1>1, <2>1, WritePuts DEF Tame, Exposes
  <2> QED
    BY <1>3, <2>1, <2>2 DEF p
<1>6. ASSUME NEW p \in {[cap |-> n] : n \in Int} \union {[stock |-> None], [price |-> None, cap |-> None]}
      PROVE  Write(p) \in Tame
  <2>1. /\ p \in Puts /\ "counter" \notin DOMAIN p /\ "sale" \notin DOMAIN p
        /\ "price" \in DOMAIN p => p["price"] = None
    BY <1>2
  <2> HIDE DEF Puts
  <2>2. WriteThen(p, "-", 0) \in Tame
    BY <1>1, <2>1, WritePuts DEF Tame, Exposes
  <2> QED
    BY <1>3, <2>1, <2>2
<1>7. ASSUME NEW n \in Nat PROVE Write([price |-> 1, cap |-> n]) \in Requests \ Clears
  <2> DEFINE p == [price |-> 1, cap |-> n]
  <2>1. DOMAIN p = {"price", "cap"} /\ p \in Puts
    BY <1>2
  <2> HIDE DEF p
  <2> QED
    BY <1>1, <1>3, <2>1, WritePuts DEF p
<1>8. Write([counter |-> None]) \in Requests \ Exposes
  <2> DEFINE p == [counter |-> None]
  <2>1. DOMAIN p = {"counter"} /\ p \in Puts
    BY <1>2
  <2> HIDE DEF p
  <2> QED
    BY <1>1, <1>3, <2>1, WritePuts DEF p, Exposes
<1>9. Write([sale |-> 1]) \in Requests \ Clears
  <2> DEFINE p == [sale |-> 1]
  <2>1. DOMAIN p = {"sale"} /\ p \in Puts
    BY <1>2
  <2> HIDE DEF p
  <2> QED
    BY <1>1, <1>3, <2>1, WritePuts DEF p
<1>10. \A n \in Int : Write([cap |-> n]) \in Tame
  BY <1>6
<1>11. Write([stock |-> None]) \in Tame /\ Write([price |-> None, cap |-> None]) \in Tame
  BY <1>6
<1> QED
  BY <1>4, <1>5, <1>7, <1>8, <1>10, <1>11, <1>9

LEMMA AskTypes ==
  /\ \A t \in Stocked, n \in Nat : Read("stock", t, n) \in Tame /\ Read("stock", t, n) \in Asks({t})
  /\ \A n \in Nat : Read("price", "price", n) \in Tame /\ Read("price", "price", n) \in Asks({"price"})
  /\ \A t \in {"sync", "ensure", "stock"}, n \in Nat :
       Read("counter", t, n) \in Tame /\ Read("counter", t, n) \in Asks({t})
  /\ \A n \in Int : Read("cap", "capacity", n) \in Tame
  /\ \A t \in {"sales", "title"} : Read("sale", t, 0) \in Tame /\ Read("sale", t, 0) \in Asks({t})
  /\ Read("astray", "stock", 0) \in Tame
<1>1. \A m \in Calm : m.cmd = "read" => m \in Reads /\ m \in Tame
  <2>1. \A m \in Calm : m \in Requests
    BY DEF Requests, Plain
  <2> QED
    BY <2>1, ReadsTame, RequestFacts
<1>2. \A f, t, n : Read(f, t, n).cmd = "read" /\ Read(f, t, n).then = t
  BY DEF Read
<1> QED
  BY <1>1, <1>2, ReadTypes DEF Asks

LEMMA FollowsPair ==
  ASSUME NEW A, NEW B, NEW x, NEW y, y \in B, y \notin A
  PROVE  Follows(<<x, y>>, A, B)
<1> DEFINE q == <<x, y>>
<1>1. Len(q) = 2 /\ q[1] = x /\ q[2] = y
  OBVIOUS
<1> HIDE DEF q
<1>2. \A i \in 1..2 : i = 1 \/ i = 2
  OBVIOUS
<1> QED
  BY <1>1, <1>2 DEF Follows, q

LEMMA TameSeq ==
  ASSUME NEW msgs \in Seq(Tame)
  PROVE  /\ msgs \in Seq(Requests)
         /\ ~Holds(msgs, Exposes) /\ ~Holds(msgs, Clears)
         /\ \A B : Follows(msgs, Exposes, B) /\ Follows(msgs, Clears, B)
<1>1. Tame \subseteq Requests
  BY DEF Tame
<1>2. msgs \in Seq(Requests)
  BY <1>1, SeqMonotonic
<1>3. DOMAIN msgs = 1..Len(msgs) /\ \A i \in 1..Len(msgs) : msgs[i] \in Tame
  BY LenProperties, ElementOfSeq
<1>4. ~Holds(msgs, Exposes) /\ ~Holds(msgs, Clears)
  BY <1>3 DEF Holds, Range, Tame
<1> QED
  BY <1>2, <1>4, FollowsNone

-----------------------------------------------------------------------------
(* What a step of the desktop does to the chains.                          *)

Tends(d) ==
  \E msgs \in Seq(Requests) :
    /\ Send(d, msgs)
    /\ Follows(msgs, Exposes, Fills("counter"))
    /\ \/ timer'[d] > 0
       \/ timer'[d] = timer[d] /\ Follows(msgs, Clears, Asks({"sales"}))
       \/ Holds(msgs, Asks({"sales"})) /\ ~Holds(msgs, Clears)
    /\ \A e \in Desktops \ {d} : timer'[e] = timer[e]
    /\ \/ rep' = rep
       \/ /\ Taken(d)
          /\ Head(rep[d]) \in Hints => Holds(msgs, Probes)
          /\ Head(rep[d]) \in Unseeded => Precedes(msgs, Fills("stock"), Fills("counter"))
    /\ UNCHANGED <<db, gone, open>>

LEMMA TendsTaken ==
  ASSUME TypeQueues, NEW d \in Desktops, NEW then, Handle(d, then), then # "seed",
         NEW msgs \in Seq(Tame), Send(d, msgs), UNCHANGED <<db, gone, open, timer>>,
         Head(rep[d]) \in Hints => Holds(msgs, Probes)
  PROVE  Tends(d)
<1>1. Taken(d) /\ Head(rep[d]) \notin Unseeded
  BY HandleFacts DEF Unseeded
<1>2. /\ msgs \in Seq(Requests)
      /\ \A B : Follows(msgs, Exposes, B) /\ Follows(msgs, Clears, B)
  BY TameSeq
<1> QED
  BY <1>1, <1>2 DEF Tends

LEMMA SendNothing ==
  ASSUME TypeQueues, NEW d \in Desktops, req' = req
  PROVE  Send(d, <<>>) /\ <<>> \in Seq(Tame)
<1>1. req \in [Desktops -> Seq(Requests)]
  BY DEF TypeQueues
<1>2. req[d] \o <<>> = req[d]
  BY <1>1, ConcatEmptySeq
<1>3. [req EXCEPT ![d] = @ \o <<>>] = req
  BY <1>1, <1>2
<1> QED
  BY <1>3 DEF Send

LEMMA TendsSilent ==
  ASSUME TypeQueues, NEW d \in Desktops, NEW msgs \in Seq(Tame), Sent(d, msgs),
         ~open[d] => req' = req, UNCHANGED <<db, gone, open, timer, rep>>
  PROVE  Tends(d)
<1>1. \A q \in Seq(Tame) :
        /\ q \in Seq(Requests)
        /\ \A B : Follows(q, Exposes, B) /\ Follows(q, Clears, B)
  BY TameSeq
<1>2. CASE req' = req
  <2>1. Send(d, <<>>) /\ <<>> \in Seq(Tame)
    BY <1>2, SendNothing
  <2> QED
    BY <1>1, <2>1 DEF Tends
<1>3. CASE req' # req
  <2>1. Send(d, msgs)
    BY <1>3 DEF Sent, Send
  <2> QED
    BY <1>1, <2>1 DEF Tends
<1> QED
  BY <1>2, <1>3

LEMMA HoldsShort ==
  ASSUME NEW C
  PROVE  /\ ~Holds(<<>>, C)
         /\ \A x : Holds(<<x>>, C) <=> x \in C
         /\ \A x, y : Holds(<<x, y>>, C) <=> x \in C \/ y \in C
         /\ \A x, y, z : Holds(<<x, y, z>>, C) <=> x \in C \/ y \in C \/ z \in C
<1>1. ~Holds(<<>>, C)
  BY RangeOfNone DEF Holds
<1>2. \A x : Holds(<<x>>, C) <=> x \in C
  BY RangeOfOne DEF Holds
<1>3. ASSUME NEW x, NEW y, NEW z
      PROVE  /\ Holds(<<x, y>>, C) <=> x \in C \/ y \in C
             /\ Holds(<<x, y, z>>, C) <=> x \in C \/ y \in C \/ z \in C
  <2> DEFINE p == <<x, y>>
             q == <<x, y, z>>
  <2>1. /\ p \in Seq({x, y}) /\ Len(p) = 2 /\ p[1] = x /\ p[2] = y
        /\ q \in Seq({x, y, z}) /\ Len(q) = 3 /\ q[1] = x /\ q[2] = y /\ q[3] = z
    OBVIOUS
  <2>2. DOMAIN p = 1..2 /\ DOMAIN q = 1..3
    BY <2>1, LenProperties
  <2>3. 1..2 = {1, 2} /\ 1..3 = {1, 2, 3}
    OBVIOUS
  <2> HIDE DEF p, q
  <2>4. Range(p) = {x, y} /\ Range(q) = {x, y, z}
    BY <2>1, <2>2, <2>3 DEF Range
  <2> QED
    BY <2>4 DEF Holds, p, q
<1> QED
  BY <1>1, <1>2, <1>3

LEMMA LoadTends ==
  /\ Load \in Seq(Tame) /\ Holds(Load, Asks({"sales"})) /\ Holds(Load, Probes)
  /\ \A d, sh : Update(d, sh) \in Seq(Tame)
<1>1. Read("sale", "sales", 0) \in Tame /\ Read("sale", "sales", 0) \in Asks({"sales"})
  BY AskTypes
<1>2. Load \in Seq(Tame) /\ Holds(Load, Asks({"sales"}))
  BY <1>1, HoldsShort DEF Load
<1>3. Asks({"sales"}) \subseteq Probes
  BY DEF Asks, Probes
<1>4. \A d : Read(Counter(d), "stock", 0) \in Tame
  <2>1. Read("counter", "stock", 0) \in Tame /\ Read("astray", "stock", 0) \in Tame
    BY AskTypes
  <2> QED
    BY <2>1 DEF Counter
<1>5. \A d, sh : Update(d, sh) \in Seq(Tame)
  BY <1>4 DEF Update
<1>6. Holds(Load, Probes)
  BY <1>2, <1>3 DEF Holds
<1> QED
  BY <1>2, <1>5, <1>6

LEMMA TendsUser ==
  ASSUME TypeQueues, PanelType, NEW d \in Desktops, User(d) \/ KeysChanged(d) \/ EndTest(d)
  PROVE  Tends(d)
<1>1. ASSUME NEW msgs \in Seq(Tame), Send(d, msgs), UNCHANGED <<db, gone, open, timer, rep>>
      PROVE  Tends(d)
  <2>1. Sent(d, msgs) /\ (~open[d] => req' = req)
    BY <1>1, SendSent DEF Send
  <2> QED
    BY <1>1, <2>1, TendsSilent
<1>2. CASE AdjustStock(d) \/ SetFlash(d) \/ AddProduct(d) \/ Reload(d)
  <2>1. PICK msgs \in {<<Read("stock", "adjust", 0)>>, <<Read("stock", "enable", 0)>>,
                       <<Read("stock", "add", 0)>>, Load} :
          Send(d, msgs) /\ UNCHANGED <<db, gone, open, timer, rep>>
    BY <1>2, Zenon DEF AdjustStock, SetFlash, AddProduct, Reload, Ask, store, browser
  <2>2. \A t \in {"adjust", "enable", "add"} : Read("stock", t, 0) \in Tame
    BY AskTypes DEF Stocked
  <2>3. Load \in Seq(Tame)
    BY LoadTends
  <2>4. \A x \in Tame : <<x>> \in Seq(Tame)
    OBVIOUS
  <2>5. msgs \in Seq(Tame)
    BY <2>1, <2>2, <2>3, <2>4
  <2> QED
    BY <1>1, <2>1, <2>5
<1>3. CASE SetPlain(d)
  <2> DEFINE w1 == Write([price |-> None, cap |-> None])
             w2 == Write([counter |-> None])
             msgs == <<w1, w2>>
  <2>1. Send(d, msgs) /\ UNCHANGED <<db, gone, open, rep>> /\ timer' = [timer EXCEPT ![d] = @ + 1]
    BY <1>3, Zenon DEF SetPlain, Ask, store
  <2>2. /\ w1 \in Requests /\ w2 \in Requests
        /\ w1 \notin Exposes /\ w2 \notin Exposes
    BY WritesTame DEF Tame
  <2> HIDE DEF w1, w2
  <2>3. msgs \in Seq(Requests) /\ ~Holds(msgs, Exposes)
    <3>1. ~Holds(msgs, Exposes)
      BY <2>2, HoldsShort
    <3>2. msgs \in Seq(Requests)
      BY <2>2
    <3> QED
      BY <3>1, <3>2
  <2> HIDE DEF msgs
  <2>4. Follows(msgs, Exposes, Fills("counter"))
    BY <2>3, FollowsNone
  <2>5. timer'[d] > 0 /\ \A e \in Desktops \ {d} : timer'[e] = timer[e]
    BY <2>1 DEF PanelType
  <2> QED
    BY <2>1, <2>3, <2>4, <2>5 DEF Tends
<1>4. CASE DeleteProduct(d)
  <2> DEFINE w1 == Write([stock |-> None])
             w2 == Write([price |-> None, cap |-> None])
             w3 == Write([counter |-> None])
             first == <<w1, w2, w3>>
             msgs == first \o Load
  <2>1. Send(d, msgs) /\ UNCHANGED <<db, gone, open, rep, timer>>
    BY <1>4, Zenon DEF DeleteProduct, Ask, store, browser
  <2>2. /\ w1 \in Requests /\ w2 \in Requests /\ w3 \in Requests
        /\ w1 \notin Exposes /\ w2 \notin Exposes /\ w3 \notin Exposes
    BY WritesTame DEF Tame
  <2> HIDE DEF w1, w2, w3
  <2>3. first \in Seq(Requests) /\ ~Holds(first, Exposes)
    <3>1. ~Holds(first, Exposes)
      BY <2>2, HoldsShort
    <3>2. first \in Seq(Requests)
      BY <2>2
    <3> QED
      BY <3>1, <3>2
  <2> HIDE DEF first
  <2>4. /\ Load \in Seq(Requests) /\ Holds(Load, Asks({"sales"}))
        /\ \A B : Follows(Load, Exposes, B) /\ Follows(Load, Clears, B)
    BY LoadTends, TameSeq
  <2>5. Follows(first, Exposes, Fills("counter"))
    BY <2>3, FollowsNone
  <2>6. Follows(msgs, Exposes, Fills("counter"))
    BY <2>3, <2>4, <2>5, FollowsConcat
  <2>7. Follows(msgs, Clears, Asks({"sales"}))
    BY <2>3, <2>4, FollowsConcat
  <2>8. msgs \in Seq(Requests)
    BY <2>3, <2>4, ConcatProperties
  <2> HIDE DEF msgs
  <2> QED
    BY <2>1, <2>6, <2>7, <2>8 DEF Tends
<1>5. CASE Cancel(d)
  <2>1. UNCHANGED <<db, gone, open, timer, rep, req>>
    BY <1>5, Zenon DEF Cancel, store
  <2> QED
    BY <1>1, <2>1, SendNothing
<1>6. CASE ExecuteOrder(d) \/ OnBatchStressTest(d)
  <2>1. UNCHANGED <<db, gone, open, timer, rep>> /\ (~open[d] => req' = req)
    BY <1>6, Zenon DEF ExecuteOrder, OnBatchStressTest, browser
  <2>2. PICK msgs \in Seq(Tame) : Sent(d, msgs)
    <3>1. CASE Orderly(d)
      <4>1. PICK msgs \in Seq(Decrs) : Sent(d, msgs)
        BY <3>1 DEF Orderly
      <4>2. Decrs \subseteq Tame
        <5>1. \A m \in Decrs : m.cmd # "write" /\ m \in Requests
          BY DEF Decrs, Requests
        <5> QED
          BY <5>1, ReadsTame
      <4> QED
        BY <4>1, <4>2, SeqMonotonic
    <3>2. CASE ~Orderly(d)
      <4>1. ~open[d]
        BY <1>6, <3>2, OrderShape
      <4> QED
        BY <2>1, <4>1, SendNothing, SendSent
    <3> QED
      BY <3>1, <3>2
  <2> QED
    BY <2>1, <2>2, TendsSilent
<1>7. ASSUME NEW n \in Stocks, AcceptStock(d, n) PROVE Tends(d)
  <2> DEFINE m == WriteThen([stock |-> n], "adjusted", n)
  <2>1. Send(d, <<m>>) /\ UNCHANGED <<db, gone, open, timer, rep>>
    BY <1>7, Zenon DEF AcceptStock, store
  <2>2. m \in Tame
    BY WritesTame, ConstantsAssumption
  <2> HIDE DEF m
  <2>3. <<m>> \in Seq(Tame)
    BY <2>2
  <2> QED
    BY <1>1, <2>1, <2>3
<1>8. ASSUME NEW n \in Stocks, NEW flash \in BOOLEAN, AcceptProduct(d, n, flash) PROVE Tends(d)
  <2> DEFINE w1 == Write([stock |-> n])
             w2 == Write([price |-> 1, cap |-> n])
             w3 == Write([counter |-> n])
             one == <<w1>>
             more == IF flash THEN <<w2, w3>> ELSE <<>>
             msgs == one \o more
  <2>1. Send(d, msgs) /\ UNCHANGED <<db, gone, open, rep>> /\ timer' = [timer EXCEPT ![d] = @ + 1]
    BY <1>8, Zenon DEF AcceptProduct, store
  <2>2. /\ w1 \in Tame /\ w2 \in Requests /\ w3 \in Requests
        /\ w3 \in Fills("counter") /\ w3 \notin Exposes
    BY WritesTame, ConstantsAssumption DEF Tame
  <2> HIDE DEF w1, w2, w3
  <2>3. one \in Seq(Tame)
    BY <2>2
  <2>4. one \in Seq(Requests) /\ Follows(one, Exposes, Fills("counter"))
    BY <2>3, TameSeq
  <2>5. more \in Seq(Requests) /\ Follows(more, Exposes, Fills("counter"))
    <3>1. CASE flash
      BY <2>2, <3>1, FollowsPair
    <3>2. CASE ~flash
      BY <3>2 DEF Follows
    <3> QED
      BY <3>1, <3>2
  <2> HIDE DEF one, more
  <2>6. msgs \in Seq(Requests) /\ Follows(msgs, Exposes, Fills("counter"))
    BY <2>4, <2>5, ConcatProperties, FollowsConcat
  <2>7. timer'[d] > 0 /\ \A e \in Desktops \ {d} : timer'[e] = timer[e]
    BY <2>1 DEF PanelType
  <2> HIDE DEF msgs
  <2> QED
    BY <2>1, <2>6, <2>7 DEF Tends
<1>9. CASE KeysChanged(d)
  <2>1. Send(d, Load) /\ UNCHANGED <<db, gone, open, rep>> /\ timer' = [timer EXCEPT ![d] = @ - 1]
    BY <1>9, Zenon DEF KeysChanged, store
  <2>2. /\ Load \in Seq(Requests) /\ Holds(Load, Asks({"sales"})) /\ ~Holds(Load, Clears)
        /\ Follows(Load, Exposes, Fills("counter"))
    BY LoadTends, TameSeq
  <2>3. \A e \in Desktops \ {d} : timer'[e] = timer[e]
    BY <2>1 DEF PanelType
  <2> QED
    BY <2>1, <2>2, <2>3 DEF Tends
<1>10. CASE EndTest(d)
  <2>1. Send(d, Update(d, shown[d])) /\ UNCHANGED <<db, gone, open, timer, rep>>
    BY <1>10, Zenon DEF EndTest, store, browser
  <2> QED
    BY <1>1, <2>1, LoadTends
<1> QED
  BY <1>2, <1>3, <1>4, <1>5, <1>6, <1>7, <1>8, <1>9, <1>10, Zenon DEF User

LEMMA HintFacts ==
  ASSUME NEW m \in Hints
  PROVE  /\ m.then \in {"seed", "sales", "title", "list", "detail", "price", "ensure"}
         /\ m.then \in {"sales", "list", "price"} => m.val # None
         /\ m.then = "ensure" => m.val = None
  BY DEF Hints

LEMMA SeedTends ==
  /\ Seed \in Seq(Requests)
  /\ Follows(Seed, Exposes, Fills("counter")) /\ ~Holds(Seed, Clears)
  /\ Holds(Seed, Fills("counter")) /\ Precedes(Seed, Fills("stock"), Fills("counter"))
<1> DEFINE w1 == Write([stock |-> Stock0])
           w0 == Write([sale |-> 1])
           w2 == Write([price |-> 1, cap |-> Flash0])
           w3 == Write([counter |-> Flash0])
           p == Lpush(Mark)
<1>1. /\ w1 \in Tame /\ w1 \in Fills("stock") /\ w2 \in Requests \ Clears
      /\ w0 \in Requests \ Clears /\ w3 \in Tame /\ w3 \in Fills("counter")
  BY WritesTame, ConstantsAssumption
<1>2. p \in Tame /\ Lpop \in Tame /\ Ping \in Tame
  <2>1. p \in Requests /\ Lpop \in Requests /\ Ping \in Requests
    BY WriteTypes DEF Requests, Plain
  <2>2. p.cmd = "LPUSH" /\ Lpop.cmd = "LPOP" /\ Ping.cmd = "PING"
    BY DEF Lpush, Lpop, Ping
  <2> HIDE DEF p
  <2> QED
    BY <2>1, <2>2, ReadsTame
<1>3. Seed = <<w1, w0, w2, w3, p, Lpop, Ping>>
  BY DEF Seed
<1> HIDE DEF w1, w0, w2, w3, p
<1>4. /\ Len(Seed) = 7 /\ Seed[1] = w1 /\ Seed[2] = w0 /\ Seed[3] = w2 /\ Seed[4] = w3
      /\ Seed[5] = p /\ Seed[6] = Lpop /\ Seed[7] = Ping
  BY <1>3
<1>5. Seed \in Seq(Requests) /\ DOMAIN Seed = 1..7
  BY <1>4, SeedType, MessageSeqs, LenProperties
<1>6. \A i \in 1..7 : i = 1 \/ i = 2 \/ i = 3 \/ i = 4 \/ i = 5 \/ i = 6 \/ i = 7
  OBVIOUS
<1>7. \A i \in 1..7 : /\ Seed[i] \notin Clears
                      /\ Seed[i] \in Exposes => i = 2 \/ i = 3
  <2> TAKE i \in 1..7
  <2>1. i # 2 /\ i # 3 => Seed[i] \in Tame
    BY <1>1, <1>2, <1>4, <1>6
  <2>2. Seed[2] \notin Clears /\ Seed[3] \notin Clears
    BY <1>1, <1>4
  <2> QED
    BY <2>1, <2>2 DEF Tame
<1>8. Seed[4] \in Fills("counter") /\ Seed[1] \in Fills("stock")
  BY <1>1, <1>4
<1>9. Follows(Seed, Exposes, Fills("counter"))
  BY <1>4, <1>7, <1>8 DEF Follows
<1>10. ~Holds(Seed, Clears) /\ Holds(Seed, Fills("counter"))
  BY <1>5, <1>7, <1>8 DEF Holds, Range
<1>11. Precedes(Seed, Fills("stock"), Fills("counter"))
  BY <1>4, <1>8 DEF Precedes
<1> QED
  BY <1>5, <1>9, <1>10, <1>11

LEMMA TendsCallback ==
  ASSUME TypeQueues, PanelType, NEW d \in Desktops, Callback(d)
  PROVE  Tends(d)
<1> DEFINE m == Head(rep[d])
<1>1. ASSUME NEW then, Handle(d, then)
      PROVE  /\ m.then = then /\ Taken(d) /\ Value(d) = m.val /\ Captured(d) = m.n
             /\ then \in Stocked => m.val \in Stored /\ m.n \in Nat
             /\ then \in {"price", "sync", "ensure", "stock", "adjusted"} =>
                  m.val \in Int \union {None} /\ m.n \in Nat
             /\ then = "capacity" => m.n \in Int
  BY <1>1, HandleFacts, ReplyFacts DEF Value, Captured
<1>2. \A n \in Stored : OrZero(n) \in Nat
  BY OrZeroFacts DEF OrZero, Stored
<1>3. \A q : q \in Seq(Tame) /\ Holds(q, Asks({"sales"})) => Holds(q, Probes)
  <2>1. Asks({"sales"}) \subseteq Probes
    BY DEF Asks, Probes
  <2> QED
    BY <2>1 DEF Holds
<1>4. \A t \in {"title", "list", "detail", "price", "ensure"} : Asks({t}) \subseteq Probes
  BY DEF Asks, Probes
<1>5. Fills("counter") \subseteq Probes
  BY DEF Probes
<1> HIDE DEF m
<1>6. CASE OnSeed(d)
  <2>1. /\ Handle(d, "seed") /\ UNCHANGED <<db, gone, open, timer>>
        /\ Send(d, IF Value(d) # None THEN Load ELSE Seed)
    BY <1>6, Zenon DEF OnSeed, store, browser
  <2>2. Taken(d) /\ Value(d) = m.val
    BY <1>1, <2>1
  <2>3. CASE m.val # None
    <3>1. m \notin Unseeded
      BY <2>3 DEF Unseeded
    <3>2. Send(d, Load)
      BY <2>1, <2>2, <2>3
    <3>3. /\ Load \in Seq(Requests) /\ Holds(Load, Probes)
          /\ \A B : Follows(Load, Exposes, B) /\ Follows(Load, Clears, B)
      BY LoadTends, TameSeq
    <3> QED
      BY <2>1, <2>2, <3>1, <3>2, <3>3 DEF Tends, m
  <2>4. CASE m.val = None
    <3>1. Send(d, Seed)
      BY <2>1, <2>2, <2>4
    <3>2. Holds(Seed, Probes)
      BY <1>5, SeedTends DEF Holds
    <3>3. Follows(Seed, Clears, Asks({"sales"}))
      BY SeedTends, FollowsNone
    <3> QED
      BY <2>1, <2>2, <3>1, <3>2, <3>3, SeedTends DEF Tends
  <2> QED
    BY <2>3, <2>4
<1>7. CASE OnSeeded(d)
  <2>1. Handle(d, "seeded") /\ UNCHANGED <<db, gone, open, timer>> /\ Send(d, Load)
    BY <1>7, Zenon DEF OnSeeded, store, browser
  <2> QED
    BY <2>1, LoadTends, TendsTaken
<1>8. CASE OnAdjust(d) \/ OnAdd(d)
  <2>1. /\ \E then \in {"adjust", "add"} : Handle(d, then)
        /\ UNCHANGED <<db, gone, open, timer, req>>
    BY <1>8, Zenon DEF OnAdjust, OnAdd, store
  <2>2. PICK then \in {"adjust", "add"} : Handle(d, then)
    BY <2>1
  <2>3. m \notin Hints
    BY <1>1, <2>2, HintFacts
  <2> QED
    BY <2>1, <2>2, <2>3, SendNothing, TendsTaken DEF m
<1>9. CASE OnAdjusted(d)
  <2> DEFINE r == Read("counter", "sync", Captured(d))
  <2>1. Handle(d, "adjusted") /\ UNCHANGED <<db, gone, open, timer>> /\ Send(d, <<r>>)
    BY <1>9, Zenon DEF OnAdjusted, store, browser
  <2>2. r \in Tame /\ m \notin Hints
    BY <1>1, <2>1, AskTypes, HintFacts
  <2> HIDE DEF r
  <2>3. <<r>> \in Seq(Tame)
    BY <2>2
  <2> QED
    BY <2>1, <2>2, <2>3, TendsTaken DEF m
<1>10. CASE OnSync(d)
  <2> DEFINE w1 == Write([counter |-> Captured(d)])
             w2 == Write([cap |-> Captured(d)])
             msgs == IF Value(d) = None THEN <<>> ELSE <<w1, w2>>
  <2>1. Handle(d, "sync") /\ UNCHANGED <<db, gone, open, timer>> /\ Send(d, msgs)
    BY <1>10, Zenon DEF OnSync, store, browser
  <2>2. Captured(d) \in Nat /\ Captured(d) \in Int /\ m \notin Hints
    BY <1>1, <2>1, HintFacts
  <2>3. w1 \in Tame /\ w2 \in Tame
    BY <2>2, WritesTame
  <2> HIDE DEF w1, w2
  <2>4. msgs \in Seq(Tame)
    BY <2>3
  <2> HIDE DEF msgs
  <2> QED
    BY <2>1, <2>2, <2>4, TendsTaken DEF m
<1>11. CASE OnEnable(d)
  <2> DEFINE n == OrZero(Value(d))
             w1 == Write([price |-> 1, cap |-> n])
             w2 == Write([counter |-> n])
             msgs == <<w1, w2>>
  <2>1. /\ Handle(d, "enable") /\ UNCHANGED <<db, gone, open>> /\ Send(d, msgs)
        /\ timer' = [timer EXCEPT ![d] = @ + 1]
    BY <1>11, Zenon DEF OnEnable, store
  <2>2. Taken(d) /\ m \notin Hints /\ m \notin Unseeded /\ n \in Nat
    <3>1. Taken(d) /\ m.then = "enable" /\ m.val \in Stored /\ Value(d) = m.val
      BY <1>1, <2>1 DEF Stocked
    <3>2. m \notin Hints /\ m \notin Unseeded
      BY <3>1, HintFacts DEF Unseeded
    <3> QED
      BY <1>2, <3>1, <3>2
  <2> HIDE DEF n
  <2>3. /\ w1 \in Requests /\ w2 \in Requests
        /\ w2 \in Fills("counter") /\ w2 \notin Exposes
    BY <2>2, WritesTame DEF Tame
  <2> HIDE DEF w1, w2
  <2>4. msgs \in Seq(Requests)
    BY <2>3
  <2>5. Follows(msgs, Exposes, Fills("counter"))
    BY <2>3, FollowsPair
  <2>6. timer'[d] > 0 /\ \A e \in Desktops \ {d} : timer'[e] = timer[e]
    BY <2>1 DEF PanelType
  <2> HIDE DEF msgs
  <2> QED
    BY <2>1, <2>2, <2>4, <2>5, <2>6 DEF Tends, m
<1>12. CASE OnList(d)
  <2> DEFINE r == Read("stock", "detail", 0)
  <2>1. /\ Handle(d, "list") /\ UNCHANGED <<db, gone, open, timer>>
        /\ IF Value(d) = None THEN req' = req ELSE Send(d, <<r>>)
    BY <1>12, Zenon DEF OnList, store, browser
  <2>2. r \in Tame /\ r \in Probes
    BY <1>4, AskTypes DEF Stocked
  <2> HIDE DEF r
  <2>3. CASE Value(d) = None
    <3>1. m \notin Hints
      BY <1>1, <2>1, <2>3, HintFacts
    <3> QED
      BY <2>1, <2>3, <3>1, SendNothing, TendsTaken DEF m
  <2>4. CASE Value(d) # None
    <3>1. <<r>> \in Seq(Tame) /\ Holds(<<r>>, Probes)
      <4>1. Holds(<<r>>, Probes)
        BY <2>2, HoldsShort
      <4> QED
        BY <2>2, <4>1
    <3>2. Send(d, <<r>>)
      BY <2>1, <2>4
    <3> QED
      BY <2>1, <3>1, <3>2, TendsTaken
  <2> QED
    BY <2>3, <2>4
<1>13. CASE OnDetail(d)
  <2> DEFINE r == Read("price", "price", OrZero(Value(d)))
  <2>1. Handle(d, "detail") /\ UNCHANGED <<db, gone, open, timer>> /\ Send(d, <<r>>)
    BY <1>13, Zenon DEF OnDetail, store, browser
  <2>2. OrZero(Value(d)) \in Nat
    BY <1>1, <1>2, <2>1 DEF Stocked
  <2>3. r \in Tame /\ r \in Probes
    BY <1>4, <2>2, AskTypes
  <2> HIDE DEF r
  <2>4. Holds(<<r>>, Probes)
    BY <2>3, HoldsShort
  <2>5. <<r>> \in Seq(Tame)
    BY <2>3
  <2> QED
    BY <2>1, <2>4, <2>5, TendsTaken
<1>14. CASE OnPrice(d)
  <2> DEFINE kind == IF Value(d) = None THEN "plain" ELSE "flash"
             sh == IF shown[d] = "none" THEN kind ELSE shown[d]
             r == Read("counter", "ensure", Captured(d))
             first == IF kind = "flash" THEN <<r>> ELSE <<>>
             msgs == first \o Update(d, sh)
  <2>1. Handle(d, "price") /\ UNCHANGED <<db, gone, open, timer>> /\ Send(d, msgs)
    BY <1>14, Zenon DEF OnPrice, store, browser
  <2>2. Captured(d) \in Nat /\ Value(d) = m.val /\ m.then = "price"
    BY <1>1, <2>1
  <2>3. r \in Tame /\ r \in Probes
    BY <1>4, <2>2, AskTypes
  <2> HIDE DEF r
  <2>4. first \in Seq(Tame) /\ (m.val # None => Holds(first, Probes))
    <3>1. Holds(<<r>>, Probes) /\ <<r>> \in Seq(Tame)
      <4>1. Holds(<<r>>, Probes)
        BY <2>3, HoldsShort
      <4> QED
        BY <2>3, <4>1
    <3> QED
      BY <2>2, <3>1
  <2>5. Update(d, sh) \in Seq(Tame)
    BY LoadTends
  <2> HIDE DEF first, sh
  <2>6. msgs \in Seq(Tame) /\ (Holds(first, Probes) => Holds(msgs, Probes))
    BY <2>4, <2>5, ConcatProperties, HoldsConcat
  <2>7. m \in Hints => Holds(msgs, Probes)
    BY <2>2, <2>4, <2>6, HintFacts
  <2> HIDE DEF msgs
  <2> QED
    BY <2>1, <2>6, <2>7, TendsTaken DEF m
<1>15. CASE OnEnsure(d)
  <2> DEFINE w == Write([counter |-> Captured(d)])
             msgs == IF Value(d) = None THEN <<w>> ELSE <<>>
  <2>1. Handle(d, "ensure") /\ UNCHANGED <<db, gone, open, timer>> /\ Send(d, msgs)
    BY <1>15, Zenon DEF OnEnsure, store, browser
  <2>2. Captured(d) \in Nat /\ Value(d) = m.val /\ m.then = "ensure"
    BY <1>1, <2>1
  <2>3. w \in Tame /\ w \in Probes
    BY <1>5, <2>2, WritesTame
  <2> HIDE DEF w
  <2>4. m.val = None => Holds(msgs, Probes)
    BY <2>2, <2>3, HoldsShort
  <2>5. msgs \in Seq(Tame)
    BY <2>3
  <2>6. m \in Hints => Holds(msgs, Probes)
    BY <2>2, <2>4, HintFacts
  <2> HIDE DEF msgs
  <2> QED
    BY <2>1, <2>5, <2>6, TendsTaken DEF m
<1>16. CASE OnStock(d)
  <2> DEFINE r == Read("cap", "capacity", OrZero(Value(d)))
  <2>1. Handle(d, "stock") /\ UNCHANGED <<db, gone, open, timer>> /\ Send(d, <<r>>)
    BY <1>16, Zenon DEF OnStock, store, browser
  <2>2. OrZero(Value(d)) \in Int /\ m \notin Hints
    <3>1. m.val \in Int \union {None} /\ Value(d) = m.val /\ m.then = "stock"
      BY <1>1, <2>1
    <3>2. OrZero(m.val) \in Int
      BY <3>1 DEF OrZero
    <3>3. m \notin Hints
      BY <3>1, HintFacts
    <3> QED
      BY <3>1, <3>2, <3>3
  <2>3. r \in Tame
    BY <2>2, AskTypes
  <2> HIDE DEF r
  <2>4. <<r>> \in Seq(Tame)
    BY <2>3
  <2> QED
    BY <2>1, <2>2, <2>4, TendsTaken DEF m
<1>17. CASE OnCapacity(d)
  <2> DEFINE w == Write([cap |-> Captured(d)])
             msgs == IF Captured(d) > OrZero(Value(d)) THEN <<w>> ELSE <<>>
  <2>1. Handle(d, "capacity") /\ UNCHANGED <<db, gone, open, timer>> /\ Send(d, msgs)
    BY <1>17, Zenon DEF OnCapacity, store, browser
  <2>2. Captured(d) \in Int /\ m \notin Hints
    BY <1>1, <2>1, HintFacts
  <2>3. w \in Tame
    BY <2>2, WritesTame
  <2> HIDE DEF w
  <2>4. msgs \in Seq(Tame)
    BY <2>3
  <2> HIDE DEF msgs
  <2> QED
    BY <2>1, <2>2, <2>4, TendsTaken DEF m
<1>18. CASE OnOrder(d) \/ OnTest(d)
  <2>1. PICK then \in {"order", "test"}, more \in Seq(Tame) :
          /\ Handle(d, then) /\ UNCHANGED <<db, gone, open, timer>>
          /\ Send(d, Outcome(d) \o more)
    <3>1. CASE OnOrder(d)
      <4>1. Handle(d, "order") /\ UNCHANGED <<db, gone, open, timer>> /\ Send(d, Outcome(d) \o Update(d, shown[d]))
        BY <3>1, Zenon DEF OnOrder, store, browser
      <4> QED
        BY <4>1, LoadTends
    <3>2. CASE OnTest(d)
      <4>1. Handle(d, "test") /\ UNCHANGED <<db, gone, open, timer>> /\ Send(d, Outcome(d))
        BY <3>2, Zenon DEF OnTest, store, browser
      <4>2. Outcome(d) \o <<>> = Outcome(d) /\ <<>> \in Seq(Tame)
        <5>1. PICK x : Outcome(d) = <<x>>
          BY DEF Outcome
        <5>2. <<x>> \in Seq({x})
          OBVIOUS
        <5> QED
          BY <5>1, <5>2, ConcatEmptySeq
      <4> QED
        BY <4>1, <4>2
    <3> QED
      BY <1>18, <3>1, <3>2
  <2>2. m \in Outcomes /\ m \notin Hints
    <3>1. m \in Replies /\ m.then = then
      BY <2>1, HandleFacts DEF m
    <3> QED
      BY <3>1, ReplyFacts, HintFacts
  <2>3. Outcome(d) \in Seq(Tame)
    <3>1. PICK x \in {Lpush(m.ord), Incr(m.ord)} : Outcome(d) = <<x>>
      BY DEF Outcome, m
    <3>2. Lpush(m.ord) \in Requests /\ Incr(m.ord) \in Requests
      BY <2>2, WriteTypes DEF Outcomes, Incr, Incrs, Requests, Plain
    <3>3. Lpush(m.ord).cmd # "write" /\ Incr(m.ord).cmd # "write"
      BY DEF Lpush, Incr
    <3>4. x \in Tame
      BY <3>1, <3>2, <3>3, ReadsTame
    <3>5. <<x>> \in Seq(Tame)
      BY <3>4
    <3> QED
      BY <3>1, <3>5
  <2>4. Outcome(d) \o more \in Seq(Tame)
    BY <2>3, ConcatProperties
  <2> QED
    BY <2>1, <2>2, <2>4, TendsTaken DEF m
<1>19. CASE OnSales(d)
  <2> DEFINE r == Read("sale", "title", 0)
  <2>1. /\ Handle(d, "sales") /\ UNCHANGED <<db, gone, open, timer>>
        /\ IF Value(d) = None THEN req' = req ELSE Send(d, <<r>>)
    BY <1>19, Zenon DEF OnSales, store, browser
  <2>2. r \in Tame /\ r \in Probes
    BY <1>4, AskTypes
  <2> HIDE DEF r
  <2>3. CASE Value(d) = None
    <3>1. m \notin Hints
      BY <1>1, <2>1, <2>3, HintFacts
    <3> QED
      BY <2>1, <2>3, <3>1, SendNothing, TendsTaken DEF m
  <2>4. CASE Value(d) # None
    <3>1. <<r>> \in Seq(Tame) /\ Holds(<<r>>, Probes)
      <4>1. Holds(<<r>>, Probes)
        BY <2>2, HoldsShort
      <4> QED
        BY <2>2, <4>1
    <3>2. Send(d, <<r>>)
      BY <2>1, <2>4
    <3> QED
      BY <2>1, <3>1, <3>2, TendsTaken
  <2> QED
    BY <2>3, <2>4
<1>20. CASE OnTitle(d)
  <2> DEFINE r == Read("stock", "list", 0)
  <2>1. Handle(d, "title") /\ UNCHANGED <<db, gone, open, timer>> /\ Send(d, <<r>>)
    BY <1>20, Zenon DEF OnTitle, store, browser
  <2>2. r \in Tame /\ r \in Probes
    BY <1>4, AskTypes DEF Stocked
  <2> HIDE DEF r
  <2>3. Holds(<<r>>, Probes)
    BY <2>2, HoldsShort
  <2>4. <<r>> \in Seq(Tame)
    BY <2>2
  <2> QED
    BY <2>1, <2>3, <2>4, TendsTaken
<1> QED
  BY <1>6, <1>7, <1>8, <1>9, <1>10, <1>11, <1>12, <1>13, <1>14, <1>15, <1>16, <1>17, <1>18, <1>19, <1>20, Zenon
     DEF Callback

\* A step at one desktop: the others cover and are armed as before.
LEMMA RepairsIntro ==
  ASSUME Repairs, NEW d \in Desktops,
         \A e \in Desktops \ {d} :
           req'[e] = req[e] /\ rep'[e] = rep[e] /\ timer'[e] = timer[e] /\ open'[e] = open[e],
         Missing' => \/ Missing /\ (Cover(d) => Cover(d)')
                     \/ \E e \in Desktops : Cover(e)',
         db'.stock = None /\ ~gone' => db.stock = None /\ ~gone,
         open'[d] => Armed(d)'
  PROVE  Repairs'
<1>1. \A e \in Desktops \ {d} : Cover(e)' <=> Cover(e)
  BY DEF Cover
<1>2. Missing' => \E e \in Desktops : Cover(e)'
  BY <1>1 DEF Repairs
<1>3. ASSUME NEW e \in Desktops \ {d}, open'[e] PROVE Armed(e)'
  <2>1. Armed(e) /\ req'[e] = req[e] /\ rep'[e] = rep[e] /\ timer'[e] = timer[e]
    BY <1>3 DEF Repairs
  <2> QED
    BY <2>1 DEF Armed, Seeding
<1>4. \A e \in Desktops : open'[e] => Armed(e)'
  BY <1>3
<1> QED
  BY <1>2, <1>4 DEF Repairs

LEMMA RepairsTended ==
  ASSUME TypeQueues, PanelType, Repairs, NEW d \in Desktops, Tends(d)
  PROVE  Repairs'
<1>1. PICK msgs \in Seq(Requests) :
        /\ Send(d, msgs)
        /\ Follows(msgs, Exposes, Fills("counter"))
        /\ \/ timer'[d] > 0
           \/ timer'[d] = timer[d] /\ Follows(msgs, Clears, Asks({"sales"}))
           \/ Holds(msgs, Asks({"sales"})) /\ ~Holds(msgs, Clears)
        /\ \A e \in Desktops \ {d} : timer'[e] = timer[e]
        /\ \/ rep' = rep
           \/ /\ Taken(d)
              /\ Head(rep[d]) \in Hints => Holds(msgs, Probes)
              /\ Head(rep[d]) \in Unseeded => Precedes(msgs, Fills("stock"), Fills("counter"))
        /\ UNCHANGED <<db, gone, open>>
  BY Zenon DEF Tends
<1>2. /\ \A e \in Desktops \ {d} : req'[e] = req[e] /\ rep'[e] = rep[e]
      /\ open[d] => req'[d] = req[d] \o msgs
      /\ req[d] \in Seq(Requests) /\ rep[d] \in Seq(Replies)
  <2>1. Sent(d, msgs)
    BY <1>1, SendSent
  <2>2. \A e \in Desktops \ {d} : req'[e] = req[e] /\ rep'[e] = rep[e]
    BY <1>1, <2>1, SentKeeps, TakenKeeps
  <2>3. req \in [Desktops -> Seq(Requests)] /\ rep \in [Desktops -> Seq(Replies)]
    BY DEF TypeQueues
  <2>4. open[d] => req' = [req EXCEPT ![d] = @ \o msgs]
    BY <1>1 DEF Send
  <2>5. open[d] => req'[d] = req[d] \o msgs
    BY <2>3, <2>4
  <2> QED
    BY <2>2, <2>3, <2>5
<1>3. ASSUME NEW C, open[d] PROVE Holds(req'[d], C) <=> Holds(req[d], C) \/ Holds(msgs, C)
  <2>1. Holds(req[d] \o msgs, C) <=> Holds(req[d], C) \/ Holds(msgs, C)
    BY <1>2, HoldsConcat
  <2> QED
    BY <1>2, <1>3, <2>1
<1>4. ASSUME NEW C PROVE Holds(rep[d], C) => Holds(rep'[d], C) \/ (Taken(d) /\ Head(rep[d]) \in C)
  BY <1>1, CreditsTaken
<1>5. Asks({"sales"}) \subseteq Probes /\ (Holds(msgs, Asks({"sales"})) => Holds(msgs, Probes))
  BY DEF Asks, Probes, Holds
<1>6. ASSUME open[d], Cover(d) PROVE Cover(d)'
  <2>1. CASE timer[d] > 0
    BY <1>1, <1>3, <1>5, <1>6, <2>1 DEF Cover
  <2>2. CASE Holds(req[d], Probes)
    BY <1>3, <1>6, <2>2 DEF Cover
  <2>3. CASE Holds(rep[d], Hints)
    <3>1. Holds(rep'[d], Hints) \/ Holds(msgs, Probes) \/ rep' = rep
      BY <1>1, <1>4, <2>3
    <3> QED
      BY <1>3, <1>6, <2>3, <3>1 DEF Cover
  <2> QED
    BY <1>6, <2>1, <2>2, <2>3 DEF Cover
<1>7. ASSUME open[d] PROVE Armed(d)'
  <2>1. Armed(d) /\ req'[d] = req[d] \o msgs
    BY <1>2, <1>7 DEF Repairs
  <2>2. Follows(req'[d], Exposes, Fills("counter"))
    <3>1. Follows(req[d], Exposes, Fills("counter"))
      BY <2>1 DEF Armed
    <3> QED
      BY <1>1, <1>2, <2>1, <3>1, FollowsConcat
  <2>3. timer'[d] > 0 \/ Follows(req'[d], Clears, Asks({"sales"}))
    <3>1. timer[d] > 0 \/ Follows(req[d], Clears, Asks({"sales"}))
      BY <2>1 DEF Armed
    <3>2. CASE timer'[d] = timer[d] /\ Follows(msgs, Clears, Asks({"sales"}))
      <4>1. Follows(req[d], Clears, Asks({"sales"})) => Follows(req'[d], Clears, Asks({"sales"}))
        BY <1>1, <1>2, <2>1, <3>2, FollowsConcat
      <4> QED
        BY <3>1, <3>2, <4>1
    <3>3. CASE Holds(msgs, Asks({"sales"})) /\ ~Holds(msgs, Clears)
      <4>1. Follows(msgs, Clears, Asks({"sales"}))
        BY <1>1, <3>3, FollowsNone
      <4> QED
        BY <1>1, <1>2, <2>1, <3>3, <4>1, FollowsConcat
    <3> QED
      BY <1>1, <3>2, <3>3
  <2>4. Seeding(d) => Seeding(d)'
    <3>1. CASE Holds(req[d], Asks({"seed"}))
      BY <1>3, <1>7, <3>1 DEF Seeding
    <3>2. CASE Holds(rep[d], Unseeded)
      <4>1. Holds(rep'[d], Unseeded) \/ Precedes(msgs, Fills("stock"), Fills("counter"))
        BY <1>1, <1>4, <3>2
      <4>2. Precedes(msgs, Fills("stock"), Fills("counter")) =>
              Precedes(req'[d], Fills("stock"), Fills("counter"))
        BY <1>1, <1>2, <2>1, PrecedesConcat
      <4> QED
        BY <4>1, <4>2 DEF Seeding
    <3>3. CASE Precedes(req[d], Fills("stock"), Fills("counter"))
      <4>1. Precedes(req'[d], Fills("stock"), Fills("counter"))
        BY <1>1, <1>2, <2>1, <3>3, PrecedesConcat
      <4> QED
        BY <4>1 DEF Seeding
    <3> QED
      BY <3>1, <3>2, <3>3 DEF Seeding
  <2> QED
    BY <1>1, <2>1, <2>2, <2>3, <2>4 DEF Armed
<1>8. Cover(d) => Cover(d)'
  BY <1>1, <1>6 DEF Cover
<1>9. (Missing' => Missing) /\ (db'.stock = None /\ ~gone' => db.stock = None /\ ~gone)
  BY <1>1 DEF Missing
<1>10. open'[d] => Armed(d)'
  BY <1>1, <1>7
<1> QED
  BY <1>1, <1>2, <1>8, <1>9, <1>10, RepairsIntro

LEMMA RepairsConnect ==
  ASSUME TypeQueues, PanelType, Repairs, NEW d \in Desktops, Connect(d)
  PROVE  Repairs'
<1> DEFINE r == Read("stock", "seed", 0)
           q == <<r>>
<1>1. /\ open' = [open EXCEPT ![d] = TRUE] /\ req' = [req EXCEPT ![d] = q]
      /\ UNCHANGED <<db, gone, timer, rep>>
  BY Zenon DEF Connect, store, browser
<1>2. r \in Tame /\ r \in Asks({"seed"}) /\ r \in Probes
  <2>1. r \in Tame /\ r \in Asks({"seed"})
    BY AskTypes DEF Stocked
  <2> QED
    BY <2>1 DEF Asks, Probes
<1> HIDE DEF r
<1>3. q \in Seq(Tame) /\ Holds(q, Asks({"seed"})) /\ Holds(q, Probes)
  <2>1. Holds(q, Asks({"seed"})) /\ Holds(q, Probes)
    BY <1>2, HoldsShort
  <2> QED
    BY <1>2, <2>1
<1> HIDE DEF q
<1>4. /\ req'[d] = q /\ rep'[d] = rep[d]
      /\ \A e \in Desktops \ {d} :
           req'[e] = req[e] /\ rep'[e] = rep[e] /\ timer'[e] = timer[e] /\ open'[e] = open[e]
  BY <1>1 DEF TypeQueues, PanelType
<1>5. \A B : Follows(q, Exposes, B) /\ Follows(q, Clears, B)
  BY <1>3, TameSeq
<1>6. Armed(d)' /\ Cover(d)'
  BY <1>3, <1>4, <1>5 DEF Armed, Seeding, Cover
<1>7. db'.stock = None /\ ~gone' => db.stock = None /\ ~gone
  BY <1>1
<1> QED
  BY <1>4, <1>6, <1>7, RepairsIntro

LEMMA RepairsLose ==
  ASSUME TypeQueues, PanelType, Repairs, NEW d \in Desktops, Lose(d)
  PROVE  Repairs'
<1>1. /\ open' = [open EXCEPT ![d] = FALSE] /\ rep' = [rep EXCEPT ![d] = <<>>]
      /\ \E q : req' = [req EXCEPT ![d] = q]
      /\ UNCHANGED <<db, gone, timer>>
  BY Zenon DEF Lose, store, browser
<1>2. /\ ~open'[d]
      /\ \A e \in Desktops \ {d} :
           req'[e] = req[e] /\ rep'[e] = rep[e] /\ timer'[e] = timer[e] /\ open'[e] = open[e]
  BY <1>1 DEF TypeQueues, PanelType
<1>3. Cover(d)' /\ (db'.stock = None /\ ~gone' => db.stock = None /\ ~gone)
  BY <1>1, <1>2 DEF Cover
<1> QED
  BY <1>2, <1>3, RepairsIntro

\* A request executed: what it was, or what follows it, keeps the desktop covering.
LEMMA ServedCover ==
  ASSUME TypeQueues, NEW d \in Desktops, req[d] # <<>>, req' = [req EXCEPT ![d] = Tail(@)],
         UNCHANGED <<timer, open>>,
         \A C : Holds(rep[d], C) => Holds(rep'[d], C),
         open[d] /\ Head(req[d]) \in Probes => Holds(rep'[d], Hints),
         Cover(d)
  PROVE  Cover(d)'
<1>1. req[d] \in Seq(Requests) /\ req'[d] = Tail(req[d])
  BY DEF TypeQueues
<1>2. Holds(req[d], Probes) => Head(req[d]) \in Probes \/ Holds(req'[d], Probes)
  BY <1>1, HoldsTail
<1> QED
  BY <1>2 DEF Cover

LEMMA ServedArmed ==
  ASSUME TypeQueues, NEW d \in Desktops, req[d] # <<>>, req' = [req EXCEPT ![d] = Tail(@)],
         timer' = timer,
         \A C : Holds(rep[d], C) => Holds(rep'[d], C),
         Armed(d),
         db'.stock = None /\ ~gone' =>
           /\ db.stock = None /\ ~gone
           /\ Head(req[d]) \notin Fills("stock")
           /\ Head(req[d]) \in Asks({"seed"}) => Holds(rep'[d], Unseeded)
  PROVE  Armed(d)'
<1>1. req[d] \in Seq(Requests) /\ req'[d] = Tail(req[d])
  BY DEF TypeQueues
<1>2. \A A, B : Follows(req[d], A, B) => Follows(req'[d], A, B)
  BY <1>1, FollowsTail
<1>3. ASSUME db'.stock = None, ~gone' PROVE Seeding(d)'
  <2>1. Seeding(d) /\ Head(req[d]) \notin Fills("stock")
    BY <1>3 DEF Armed
  <2>2. CASE Holds(req[d], Asks({"seed"}))
    <3>1. Head(req[d]) \in Asks({"seed"}) \/ Holds(req'[d], Asks({"seed"}))
      BY <1>1, <2>2, HoldsTail
    <3> QED
      BY <1>3, <3>1 DEF Seeding
  <2>3. CASE Holds(rep[d], Unseeded)
    BY <2>3 DEF Seeding
  <2>4. CASE Precedes(req[d], Fills("stock"), Fills("counter"))
    <3>1. Precedes(req'[d], Fills("stock"), Fills("counter"))
      BY <1>1, <2>1, <2>4, PrecedesTail
    <3> QED
      BY <3>1 DEF Seeding
  <2> QED
    BY <2>1, <2>2, <2>3, <2>4 DEF Seeding
<1> QED
  BY <1>2, <1>3 DEF Armed

\* Replies are only added.
LEMMA RepliesKept ==
  ASSUME TypeQueues, NEW d \in Desktops, Serve(d)
  PROVE  /\ req[d] # <<>> /\ req' = [req EXCEPT ![d] = Tail(@)]
         /\ UNCHANGED <<timer, open>>
         /\ \A C : Holds(rep[d], C) => Holds(rep'[d], C)
         /\ \A e \in Desktops \ {d} :
              req'[e] = req[e] /\ rep'[e] = rep[e] /\ timer'[e] = timer[e] /\ open'[e] = open[e]
<1>1. /\ req[d] # <<>> /\ req' = [req EXCEPT ![d] = Tail(@)]
      /\ UNCHANGED <<timer, open>>
      /\ rep' = rep \/ \E a : rep' = [rep EXCEPT ![d] = Append(@, a)]
  BY ServedReply, Zenon DEF panel, browser
<1>2. \A e \in Desktops \ {d} : req'[e] = req[e]
  BY <1>1 DEF TypeQueues
<1>3. /\ \A C : Holds(rep[d], C) => Holds(rep'[d], C)
      /\ \A e \in Desktops \ {d} : rep'[e] = rep[e]
  BY <1>1, CreditsAppended
<1> QED
  BY <1>1, <1>2, <1>3

LEMMA RepairsRead ==
  ASSUME TypeStore, TypeQueues, Repairs, NEW d \in Desktops, ServeRead(d)
  PROVE  Repairs'
<1> DEFINE m == Head(req[d])
           a == [then |-> m.then, n |-> m.n, val |-> Field(m.field)]
<1>1. Execute(d, "read") /\ Answer(d, a) /\ UNCHANGED <<db, gone>> /\ Serve(d)
  BY Zenon DEF ServeRead, Serve, store, Request
<1>2. m \in Reads
  BY <1>1, ExecuteFacts, RequestFacts DEF Request
<1>3. /\ db["stock"] \in Stored
      /\ \A f \in Fields : db[f] \in Int \union {None}
  BY DEF TypeStore
<1>4. a \in Answers /\ a.then = m.then
  <2>1. /\ m.then \in Stocked => Field(m.field) \in Stored
        /\ Field(m.field) \in Int \union {None}
    BY <1>2, <1>3 DEF Reads, Fields, Field, Stocked
  <2> QED
    BY <1>2, <2>1 DEF Reads, Answers, Stocked
<1>5. /\ m.then = "sales" => a.val = db.sale
      /\ m.then = "list" => a.val = db.stock
  BY <1>2 DEF Reads, Field
<1>6. m.then = "price" => a.val = db.price
  BY <1>2 DEF Reads, Field
<1>7. m.then = "ensure" => a.val = db.counter
  BY <1>2 DEF Reads, Field
<1>8. m.then = "seed" => a.val = db.stock
  BY <1>2 DEF Reads, Field
<1>9. m.cmd = "read"
  BY <1>2 DEF Reads
<1> HIDE DEF a
<1>10. open[d] => rep' = [rep EXCEPT ![d] = Append(@, a)]
  BY <1>1, Zenon DEF Answer
<1>11. ASSUME NEW C, open[d], a \in C PROVE Holds(rep'[d], C)
  BY <1>10, <1>11, CreditsAppended
<1> HIDE DEF m
<1>12. m \notin Fills("counter") /\ m \notin Fills("stock")
  BY <1>9 DEF Fills, Writes
<1>13. Missing /\ m \in Probes => a \in Hints
  BY <1>4, <1>5, <1>6, <1>7, <1>12 DEF Probes, Asks, Hints, Missing
<1>14. Missing /\ Cover(d) => Cover(d)'
  <2> SUFFICES ASSUME Missing, Cover(d) PROVE Cover(d)'
    OBVIOUS
  <2>1. open[d] /\ m \in Probes => Holds(rep'[d], Hints)
    BY <1>11, <1>13
  <2> QED
    BY <1>1, <2>1, RepliesKept, ServedCover DEF m
<1>15. ASSUME open[d] PROVE Armed(d)'
  <2>1. Armed(d)
    BY <1>15 DEF Repairs
  <2>2. db.stock = None /\ m \in Asks({"seed"}) => a \in Unseeded
    BY <1>4, <1>8 DEF Asks, Unseeded
  <2>3. db'.stock = None /\ ~gone' =>
          /\ db.stock = None /\ ~gone /\ m \notin Fills("stock")
          /\ m \in Asks({"seed"}) => Holds(rep'[d], Unseeded)
    BY <1>1, <1>11, <1>12, <1>15, <2>2
  <2> QED
    BY <1>1, <2>1, <2>3, RepliesKept, ServedArmed DEF m
<1>16. (Missing' => Missing) /\ (db'.stock = None /\ ~gone' => db.stock = None /\ ~gone)
  BY <1>1 DEF Missing
<1>17. open'[d] => Armed(d)'
  BY <1>1, <1>15, RepliesKept
<1> QED
  BY <1>1, <1>14, <1>16, <1>17, RepliesKept, RepairsIntro

\* Commands that no chain waits for.
LEMMA RepairsOther ==
  ASSUME TypeStore, TypeQueues, Repairs, NEW d \in Desktops,
         \/ ServeDecr(d) \/ ServeIncr(d) \/ ServeAstray(d)
         \/ ServeLpush(d) \/ ServeLpop(d) \/ ServePing(d)
  PROVE  Repairs'
<1> DEFINE m == Head(req[d])
<1>1. /\ \E cmd \in {"DECR", "INCR", "LPUSH", "LPOP", "PING"} : Execute(d, cmd)
      /\ gone' = gone /\ Serve(d)
  <2>1. CASE ServeDecr(d)
    BY <2>1, Zenon DEF ServeDecr, Serve
  <2>2. CASE ServeIncr(d)
    BY <2>2, Zenon DEF ServeIncr, Serve
  <2>3. CASE ServeLpush(d)
    BY <2>3, Zenon DEF ServeLpush, Serve
  <2>4. CASE ServeLpop(d)
    BY <2>4, Zenon DEF ServeLpop, Serve
  <2>5. CASE ServePing(d)
    BY <2>5, Zenon DEF ServePing, Serve, store
  <2>6. CASE ServeAstray(d)
    BY <2>6, Zenon DEF ServeAstray, Serve, store
  <2> QED
    BY <2>1, <2>2, <2>3, <2>4, <2>5, <2>6
<1>2. db' = db \/ (db'.stock = db.stock /\ db'.counter \in Int)
  <2>1. CASE ServeDecr(d)
    BY <2>1, DecrFacts
  <2>2. CASE ServeIncr(d)
    BY <2>2, IncrFacts
  <2>3. CASE ServeAstray(d) \/ ServeLpush(d) \/ ServeLpop(d) \/ ServePing(d)
    BY <2>3, Zenon DEF ServeAstray, ServeLpush, ServeLpop, ServePing, store
  <2> QED
    BY <2>1, <2>2, <2>3
<1>3. m.cmd \in {"DECR", "INCR", "LPUSH", "LPOP", "PING"}
  BY <1>1 DEF Execute
<1> HIDE DEF m
<1>4. m \notin Probes /\ m \notin Asks({"seed"}) /\ m \notin Fills("stock")
  <2>1. m \notin Reads /\ m \notin Writes
    BY <1>3 DEF Reads, Writes
  <2> QED
    BY <2>1 DEF Probes, Asks, Fills
<1>5. Cover(d) => Cover(d)'
  BY <1>1, <1>4, RepliesKept, ServedCover DEF m
<1>6. None \notin Int
  BY ConstantsAssumption
<1>7. (Missing' => Missing) /\ (db'.stock = None /\ ~gone' => db.stock = None /\ ~gone)
  BY <1>1, <1>2, <1>6 DEF Missing
<1>8. ASSUME open'[d] PROVE Armed(d)'
  <2>1. Armed(d)
    BY <1>1, <1>8, RepliesKept DEF Repairs
  <2>2. db'.stock = None /\ ~gone' =>
          /\ db.stock = None /\ ~gone /\ m \notin Fills("stock")
          /\ m \in Asks({"seed"}) => Holds(rep'[d], Unseeded)
    BY <1>4, <1>7
  <2> QED
    BY <1>1, <2>1, <2>2, RepliesKept, ServedArmed DEF m
<1> QED
  BY <1>1, <1>5, <1>7, <1>8, RepliesKept, RepairsIntro

\* A write: what it puts on sale, or drops, is made up for by what follows it.
LEMMA RepairsWrite ==
  ASSUME TypeStore, TypeQueues, Repairs, NEW d \in Desktops, ServeWrite(d)
  PROVE  Repairs'
<1> DEFINE m == Head(req[d])
           Put(f) == f \in DOMAIN m.put
<1>1. /\ Execute(d, "write") /\ Serve(d)
      /\ db' = [f \in DOMAIN db |-> IF f \in DOMAIN m.put THEN m.put[f] ELSE db[f]]
      /\ gone' = (gone \/ ("stock" \in DOMAIN m.put /\ m.put["stock"] = None))
  BY Zenon DEF ServeWrite, Serve, Request
<1>2. m \in Writes
  BY <1>1, ExecuteFacts, RequestFacts DEF Request
<1>3. /\ req[d] \in Seq(Requests) /\ req[d] # <<>> /\ req'[d] = Tail(req[d])
      /\ UNCHANGED <<timer, open>> /\ \A C : Holds(rep[d], C) => Holds(rep'[d], C)
  BY <1>1, RepliesKept DEF TypeQueues
<1>4. \A f \in Fields : db'[f] = IF Put(f) THEN m.put[f] ELSE db[f]
  BY <1>1 DEF TypeStore
<1>5. "sale" \in Fields /\ "stock" \in Fields /\ "price" \in Fields /\ "counter" \in Fields
  BY DEF Fields
<1>6. /\ \A f : m \in Fills(f) <=> Put(f) /\ m.put[f] # None
      /\ m \in Clears <=> Put("counter") /\ m.put["counter"] = None
  BY <1>2 DEF Fills, Clears
<1>7. m \notin Reads
  BY <1>2 DEF Reads, Writes
<1> HIDE DEF m
<1>8. \A t : m \notin Asks(t)
  BY <1>7 DEF Asks
<1>9. db'.stock = None /\ ~gone' => db.stock = None /\ ~gone /\ m \notin Fills("stock")
  BY <1>1, <1>4, <1>5, <1>6
<1>10. ASSUME open'[d] PROVE Armed(d)'
  <2>1. Armed(d)
    BY <1>3, <1>10 DEF Repairs
  <2>2. db'.stock = None /\ ~gone' =>
          /\ db.stock = None /\ ~gone /\ m \notin Fills("stock")
          /\ m \in Asks({"seed"}) => Holds(rep'[d], Unseeded)
    BY <1>8, <1>9
  <2> QED
    BY <1>1, <1>3, <2>1, <2>2, RepliesKept, ServedArmed DEF m
<1>11. ASSUME Missing' PROVE (Missing /\ (Cover(d) => Cover(d)')) \/ Cover(d)'
  <2>1. ~gone /\ ~gone' /\ db'.sale # None /\ db'.stock # None /\ db'.price # None /\ db'.counter = None
    BY <1>1, <1>11 DEF Missing
  <2>2. m \notin Fills("counter")
    BY <1>4, <1>5, <1>6, <2>1
  <2>3. CASE ~open[d]
    BY <1>3, <2>3 DEF Cover
  <2>4. CASE open[d] /\ m \in Clears
    <3>1. timer[d] > 0 \/ Follows(req[d], Clears, Asks({"sales"}))
      BY <2>4 DEF Repairs, Armed
    <3>2. Follows(req[d], Clears, Asks({"sales"})) => Holds(req'[d], Asks({"sales"}))
      BY <1>3, <2>4, FollowsTail DEF m
    <3>3. Asks({"sales"}) \subseteq Probes
      BY DEF Asks, Probes
    <3> QED
      BY <1>3, <3>1, <3>2, <3>3 DEF Cover, Holds
  <2>5. CASE open[d] /\ m \in Exposes
    <3>1. Follows(req[d], Exposes, Fills("counter"))
      BY <2>5 DEF Repairs, Armed
    <3>2. Holds(req'[d], Fills("counter"))
      BY <1>3, <2>5, <3>1, FollowsTail DEF m
    <3> QED
      BY <3>2 DEF Cover, Holds, Probes
  <2>6. CASE open[d] /\ db.stock = None
    <3>1. Seeding(d)
      BY <2>1, <2>6 DEF Repairs, Armed
    <3>2. CASE Holds(req[d], Asks({"seed"}))
      <4>1. Holds(req'[d], Asks({"seed"}))
        BY <1>3, <1>8, <3>2, HoldsTail DEF m
      <4>2. Asks({"seed"}) \subseteq Probes
        BY DEF Asks, Probes
      <4> QED
        BY <4>1, <4>2 DEF Cover, Holds
    <3>3. CASE Holds(rep[d], Unseeded)
      <4>1. Holds(rep'[d], Unseeded) /\ Unseeded \subseteq Hints
        BY <1>3, <3>3 DEF Unseeded, Hints
      <4> QED
        BY <4>1 DEF Cover, Holds
    <3>4. CASE Precedes(req[d], Fills("stock"), Fills("counter"))
      <4>1. Holds(req'[d], Fills("counter"))
        BY <1>3, <3>4, PrecedesTail
      <4> QED
        BY <4>1 DEF Cover, Holds, Probes
    <3> QED
      BY <3>1, <3>2, <3>3, <3>4 DEF Seeding
  <2>7. CASE open[d] /\ m \notin Clears /\ m \notin Exposes /\ db.stock # None
    <3>1. ~Put("counter") /\ db.counter = None /\ db.sale # None /\ db.price # None
      BY <1>4, <1>5, <1>6, <2>1, <2>2, <2>7 DEF Exposes
    <3>2. Missing
      BY <2>1, <2>7, <3>1 DEF Missing
    <3>3. m \notin Probes
      BY <1>8, <2>2 DEF Probes
    <3>4. Cover(d) => Cover(d)'
      BY <1>1, <1>3, <3>3, RepliesKept, ServedCover DEF m
    <3> QED
      BY <3>2, <3>4
  <2> QED
    BY <2>3, <2>4, <2>5, <2>6, <2>7
<1>12. Missing' => \/ Missing /\ (Cover(d) => Cover(d)')
                   \/ \E e \in Desktops : Cover(e)'
  BY <1>11
<1> QED
  BY <1>1, <1>9, <1>10, <1>12, RepliesKept, RepairsIntro

LEMMA RepairsInit == Init => Repairs
<1> SUFFICES ASSUME Init PROVE Repairs
  OBVIOUS
<1>1. PICK start \in {"empty", "running", "cut"} :
        /\ db = LET Seeded(v) == IF start = "running" THEN v ELSE None
                IN  [sale |-> Seeded(1), stock |-> IF start = "empty" THEN None ELSE Stock0,
                     price |-> Seeded(1), cap |-> Seeded(Flash0), counter |-> Seeded(Flash0)]
        /\ open = [d \in Desktops |-> start # "empty"]
        /\ req = [d \in Desktops |-> <<>>] /\ rep = [d \in Desktops |-> <<>>]
        /\ timer = [d \in Desktops |-> 0]
  BY Zenon DEF Init
<1>2. Stock0 # None /\ Flash0 # None
  BY ConstantsAssumption, NatIsSome
<1>3. ~Missing /\ (start # "empty" => db.stock # None)
  BY <1>1, <1>2 DEF Missing
<1>4. \A d \in Desktops : req[d] = <<>> /\ (open[d] => start # "empty")
  BY <1>1
<1>5. \A A, B : Follows(<<>>, A, B)
  BY DEF Follows
<1>6. ASSUME NEW d \in Desktops, open[d] PROVE Armed(d)
  BY <1>3, <1>4, <1>5, <1>6 DEF Armed
<1> QED
  BY <1>3, <1>6 DEF Repairs

LEMMA RepairsStep ==
  TypeStore /\ TypeQueues /\ PanelType /\ Repairs /\ [Next]_vars => Repairs'
<1> SUFFICES ASSUME TypeStore, TypeQueues, PanelType, Repairs, [Next]_vars PROVE Repairs'
  OBVIOUS
<1>1. CASE UNCHANGED vars
  <2>1. UNCHANGED <<db, gone, req, rep, open, timer>>
    BY <1>1 DEF vars, store, browser
  <2> QED
    BY <2>1 DEF Repairs, Missing, Cover, Armed, Seeding
<1>2. ASSUME NEW d \in Desktops,
             Connect(d) \/ Lose(d) \/ User(d) \/ EventLoop(d) \/ Serve(d)
      PROVE  Repairs'
  <2>1. CASE User(d) \/ EventLoop(d)
    <3>1. Tends(d)
      BY <2>1, TendsUser, TendsCallback, Zenon DEF EventLoop
    <3> QED
      BY <3>1, RepairsTended
  <2>2. CASE Serve(d)
    BY <2>2, RepairsRead, RepairsWrite, RepairsOther, Zenon DEF Serve
  <2> QED
    BY <1>2, <2>1, <2>2, RepairsConnect, RepairsLose
<1> QED
  BY <1>1, <1>2, Zenon DEF Next

LEMMA Repairing == Spec => []Repairs
<1>1. IInv /\ Watch /\ Repairs /\ [Next]_vars => Repairs'
  BY RepairsStep DEF IInv, Watch
<1> QED
  BY <1>1, Inductive, Watching, RepairsInit, PTL DEF Spec

-----------------------------------------------------------------------------
(* Theorems.                                                               *)

\* Whatever dialogs, toggles, loads and deletions write to the counter, and
\* whenever they do, it is what was last written less the orders counted since
\* (business_panel.cpp, executeOrder and onBatchStressTest; key_browser.cpp).
THEOREM CounterExact == Spec => []CounterIsLedger
<1>1. IInv => CounterIsLedger
  BY DEF IInv
<1> QED
  BY <1>1, Inductive, PTL

\* The orders that get an item never exceed what was last put on sale by more
\* than the rollbacks of earlier orders that came after it (the INCR of
\* business_panel.cpp, executeOrder, against the SETs of key_browser.cpp).
THEOREM OversoldByLate == Spec => []OversoldByLateOnly
<1>1. IInv => OversoldByLateOnly
  BY DEF IInv
<1> QED
  BY <1>1, Inductive, PTL

\* Once a desktop that never lost its connection is quiet, no stress test is
\* left on it that waits for an order of which nothing is under way, nor is the
\* field for the number of orders disabled (business_panel.cpp,
\* onBatchStressTest: the reply that counts the last order posts the end).
THEOREM StressTestsSettled == Spec => []StressTestSettles
<1>1. Watch => StressTestSettles
  <2> SUFFICES ASSUME Watch, NEW d \in Desktops, Settled(d), d \notin lost
               PROVE  spin[d] /\ tests[d] = {}
    BY DEF StressTestSettles
  <2>1. Range(req[d]) = {} /\ Range(rep[d]) = {} /\ posted[d] = 0
    BY RangeOfNone DEF Settled
  <2>2. tests[d] = {}
    BY <2>1 DEF Watch, Watched, Awaited
  <2>3. spin[d]
    BY <2>1, <2>2 DEF Watch, Watched
  <2> QED
    BY <2>2, <2>3
<1> QED
  BY <1>1, Watching, PTL

\* As long as no connection is lost, once nothing is under way the order queue
\* has as many entries as orders got an item: no record is dropped or sent
\* twice, and the placeholder that a seeding pushes is made up for by the pop
\* that follows it, even when that pop meets another entry, pushed in between
\* (business_panel.cpp, executeOrder; business_data.cpp, LPUSH and LPOP of
\* orders:pending).
THEOREM QueueCounted == Spec => []QueueCountsOrders
<1>1. Books => QueueCountsOrders
  <2> SUFFICES ASSUME Books, AtRest, lost = {} PROVE Len(queue) = Cardinality(got)
    BY DEF QueueCountsOrders
  <2>1. \A d \in Desktops : req[d] = <<>> /\ rep[d] = <<>>
    BY DEF AtRest, Settled
  <2>2. \A C : ~Holds(<<>>, C)
    BY RangeOfNone DEF Holds
  <2>3. Owing = {} /\ Marked = {}
    BY <2>1, <2>2 DEF Owing, Has, Marked
  <2>4. Cardinality({}) = 0 /\ Booked /\ got \subseteq Orders /\ Len(queue) \in Nat
    BY FS_EmptySet, LenProperties DEF Books
  <2>5. Cardinality(got) \in Nat
    BY <2>4, BooksFinite
  <2> QED
    BY <2>3, <2>4, <2>5 DEF Booked
<1> QED
  BY <1>1, Booking, PTL

\* Once nothing is under way, unless the product was ever deleted and unless a
\* seeding cut short left no sale, a flash product has its counter: while it is missing some desktop is on its way to
\* create it, by a load or by a write it has sent, and what another desktop
\* writes meanwhile is followed by a load or a write of its own
\* (business_panel.cpp, loadFlashSales and loadProductsForSale; key_browser.cpp, onContextMenu and
\* showAddProductDialog; business_data.cpp, initIfEmpty).
THEOREM CounterRestored == Spec => []FlashHasCounter
<1>1. Repairs => FlashHasCounter
  <2> SUFFICES ASSUME Repairs, AtRest, ~gone, db.sale # None, db.stock # None, db.price # None
               PROVE  db.counter # None
    BY DEF FlashHasCounter
  <2>1. \A d \in Desktops : ~Cover(d)
    <3> SUFFICES ASSUME NEW d \in Desktops PROVE ~Cover(d)
      OBVIOUS
    <3>1. open[d] /\ req[d] = <<>> /\ rep[d] = <<>> /\ timer[d] = 0
      BY DEF AtRest, Settled
    <3> QED
      BY <3>1, HoldsShort DEF Cover
  <2> QED
    BY <2>1 DEF Repairs, Missing
<1> QED
  BY <1>1, Repairing, PTL
=============================================================================
