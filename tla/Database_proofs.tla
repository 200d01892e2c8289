-------------------------- MODULE Database_proofs --------------------------
(***************************************************************************)
(* Proofs about the two modules of the server's database (db.cpp).         *)
(*                                                                         *)
(* Keyspace, for any set of keys and any bounds: no deadline outlives its  *)
(* key, the queries agree on which keys are visible, and neither they nor  *)
(* the expiry cycle change what is.                                        *)
(*                                                                         *)
(* SkipList, for any members, scores, levels and number of nodes: what the *)
(* searches find, and when a removal leaves a link to the freed node.  A   *)
(* walk and the list of the nodes are recursive functions over the links;  *)
(* that they exist is shown by giving their values, and that they have no  *)
(* others by the last node where they would differ.                        *)
(***************************************************************************)
EXTENDS Keyspace, SkipList, FiniteSetTheorems, WellFoundedInduction, TLAPS

Values == Objects \union {Absent}
Lefts == (-1..MaxTTL) \union {Never}

\* The type invariant in parts: what is stored, the flags, the replies.
TypeData == store \in [Keys -> Values] /\ left \in [Keys -> Lefts]
TypeFlags == due \in BOOLEAN /\ up \in BOOLEAN
TypeReplies ==
  /\ told \in [Keys -> {"unknown", "present", "absent"}]
  /\ before \in SUBSET Keys

LEMMA TypeSplit == TypeOK <=> TypeData /\ TypeFlags /\ TypeReplies
  BY Zenon DEF TypeOK, TypeData, TypeFlags, TypeReplies, Values, Lefts

LEMMA TypeSplitPrime == TypeOK' <=> TypeData' /\ TypeFlags' /\ TypeReplies'
  BY Zenon DEF TypeOK, TypeData, TypeFlags, TypeReplies, Values, Lefts

\* Absent is no object and Never no number of seconds.
LEMMA Sentinels ==
  /\ \A o \in Objects : o # Absent
  /\ \A l \in -1..MaxTTL : l # Never
  /\ MaxTTL \in Nat /\ MaxSize \in Nat
  BY ConstantsAssumption

LEMMA StringObject == \A n \in 0..1 : Object("string", n) \in Objects
  BY DEF Objects

LEMMA CollectionObject ==
  ASSUME NEW t \in Collections, NEW n \in 0..MaxSize
  PROVE  Object(t, n) \in Objects
  BY DEF Objects

LEMMA ObjectSize ==
  ASSUME NEW o \in Objects, o.type \in Collections
  PROVE  o.data \in 0..MaxSize
<1>1. CASE o \in {Object("string", n) : n \in 0..1}
  BY <1>1 DEF Object, Collections
<1>2. CASE o \in {Object(t, n) : t \in Collections, n \in 0..MaxSize}
  BY <1>2 DEF Object
<1> QED
  BY <1>1, <1>2 DEF Objects

-----------------------------------------------------------------------------
(* What the steps do to the data.                                          *)

\* A command that first expires its key finds a consistent pair.
LEMMA FoundFacts ==
  ASSUME TypeData, DeadlineHasKey, NEW k \in Keys
  PROVE  /\ Found(k) \in Values /\ FoundLeft(k) \in Lefts
         /\ FoundLeft(k) # Never => Found(k) # Absent
         /\ FoundLeft(k) # -1
         /\ Found(k) # Absent <=> Visible(k)
         /\ Visible(k) => Found(k) = store[k] /\ FoundLeft(k) = left[k]
<1>1. store[k] \in Values /\ left[k] \in Lefts /\ Absent \in Values /\ Never \in Lefts
  BY DEF TypeData, Values, Lefts
<1>2. Never # -1
  BY ConstantsAssumption
<1>3. left[k] # Never => store[k] # Absent
  BY DEF DeadlineHasKey
<1> QED
  BY <1>1, <1>2, <1>3 DEF Found, FoundLeft, Visible, Expired

LEMMA PutStep ==
  ASSUME TypeData, DeadlineHasKey, NEW k \in Keys, NEW o \in Values, NEW l \in Lefts,
         l # Never => o # Absent, Put(k, o, l)
  PROVE  TypeData' /\ DeadlineHasKey'
<1>1. TypeData'
  BY DEF Put, TypeData
<1>2. DeadlineHasKey'
  BY DEF Put, TypeData, DeadlineHasKey
<1> QED
  BY <1>1, <1>2

LEMMA SettleStep ==
  ASSUME TypeData, DeadlineHasKey, NEW k \in Keys, Settle(k)
  PROVE  /\ TypeData' /\ DeadlineHasKey'
         /\ store'[k] = Found(k) /\ left'[k] = FoundLeft(k)
         /\ \A j \in Keys : j # k => store'[j] = store[j] /\ left'[j] = left[j]
<1>1. Put(k, Found(k), FoundLeft(k))
  BY DEF Settle
<1>2. TypeData' /\ DeadlineHasKey'
  BY <1>1, FoundFacts, PutStep
<1> QED
  BY <1>1, <1>2 DEF Put, TypeData

LEMMA EraseStep ==
  ASSUME TypeData, DeadlineHasKey, NEW K, Erase(K)
  PROVE  TypeData' /\ DeadlineHasKey'
<1>1. TypeData'
  BY DEF Erase, TypeData, Values, Lefts
<1>2. DeadlineHasKey'
  BY DEF Erase, TypeData, DeadlineHasKey
<1> QED
  BY <1>1, <1>2

LEMMA ClearStep ==
  ASSUME store' = [k \in Keys |-> Absent], left' = [k \in Keys |-> Never]
  PROVE  TypeData' /\ DeadlineHasKey'
  BY DEF TypeData, DeadlineHasKey, Values, Lefts

LEMMA SameStep ==
  ASSUME TypeData, DeadlineHasKey, UNCHANGED data
  PROVE  TypeData' /\ DeadlineHasKey'
  BY DEF TypeData, DeadlineHasKey, data

LEMMA AddStep ==
  ASSUME TypeData, DeadlineHasKey, NEW k \in Keys, NEW t \in Collections, NEW n \in 0..1,
         Add(k, t, n)
  PROVE  TypeData' /\ DeadlineHasKey'
<1>1. CASE Usable(k, t)
  <2>1. Size(k) + n \in 1..MaxSize /\ Put(k, Object(t, Size(k) + n), left[k])
    BY <1>1 DEF Add
  <2>2. Object(t, Size(k) + n) \in Objects
    BY <2>1, Sentinels, CollectionObject
  <2>3. left[k] \in Lefts
    BY DEF TypeData
  <2>4. Object(t, Size(k) + n) \in Values /\ Object(t, Size(k) + n) # Absent
    BY <2>2, Sentinels DEF Values
  <2> QED
    BY <2>1, <2>3, <2>4, PutStep
<1>2. CASE ~Usable(k, t)
  BY <1>2, SameStep DEF Add
<1> QED
  BY <1>1, <1>2

LEMMA RemoveStep ==
  ASSUME TypeData, DeadlineHasKey, NEW k \in Keys, NEW t \in Collections, NEW n \in 0..1,
         Remove(k, t, n)
  PROVE  TypeData' /\ DeadlineHasKey'
<1>1. CASE Found(k) # Absent /\ Found(k).type = t
  <2>1. n <= Found(k).data /\ Put(k, Object(t, Found(k).data - n), FoundLeft(k))
    BY <1>1 DEF Remove
  <2>2. Found(k) \in Objects
    BY <1>1, FoundFacts DEF Values
  <2>3. Found(k).data \in 0..MaxSize
    BY <1>1, <2>2, ObjectSize
  <2>4. Found(k).data - n \in 0..MaxSize
    BY <2>1, <2>3, Sentinels
  <2>5. Object(t, Found(k).data - n) \in Objects
    BY <2>4, CollectionObject
  <2>6. Object(t, Found(k).data - n) \in Values /\ Object(t, Found(k).data - n) # Absent
    BY <2>5, Sentinels DEF Values
  <2>7. FoundLeft(k) \in Lefts
    BY FoundFacts
  <2> QED
    BY <2>1, <2>6, <2>7, PutStep
<1>2. CASE ~(Found(k) # Absent /\ Found(k).type = t)
  <2>1. Settle(k)
    BY <1>2 DEF Remove
  <2> QED
    BY <2>1, SettleStep
<1> QED
  BY <1>1, <1>2

LEMMA WriteStep ==
  ASSUME TypeData, DeadlineHasKey, NEW k \in Keys, Write(k)
  PROVE  TypeData' /\ DeadlineHasKey'
<1>1. ASSUME NEW n \in 0..1, Set(k, n) PROVE TypeData' /\ DeadlineHasKey'
  <2>1. Put(k, Object("string", n), left[k])
    BY <1>1 DEF Set
  <2>2. Object("string", n) \in Values /\ Object("string", n) # Absent
    BY StringObject, Sentinels DEF Values
  <2>3. left[k] \in Lefts
    BY DEF TypeData
  <2> QED
    BY <2>1, <2>2, <2>3, PutStep
<1>2. ASSUME Incrby(k) PROVE TypeData' /\ DeadlineHasKey'
  <2>1. CASE Found(k) \in {Absent, Object("string", 1)}
    <3>1. Put(k, Object("string", 1), FoundLeft(k))
      BY <1>2, <2>1 DEF Incrby
    <3>2. Object("string", 1) \in Values /\ Object("string", 1) # Absent
      BY StringObject, Sentinels DEF Values
    <3> QED
      BY <3>1, <3>2, FoundFacts, PutStep
  <2>2. CASE Found(k) \notin {Absent, Object("string", 1)}
    <3>1. Settle(k)
      BY <1>2, <2>2 DEF Incrby
    <3> QED
      BY <3>1, SettleStep
  <2> QED
    BY <2>1, <2>2
<1>3. ASSUME Push(k) \/ Hset(k) \/ Sadd(k) \/ Zadd(k) PROVE TypeData' /\ DeadlineHasKey'
  <2>1. \E t \in Collections, n \in 0..1 : Add(k, t, n)
    BY <1>3 DEF Push, Hset, Sadd, Zadd, Collections
  <2> QED
    BY <2>1, AddStep
<1>4. ASSUME Pop(k) \/ Hdel(k) \/ Srem(k) \/ Zrem(k) PROVE TypeData' /\ DeadlineHasKey'
  <2>1. \E t \in Collections, n \in 0..1 : Remove(k, t, n)
    BY <1>4 DEF Pop, Hdel, Srem, Zrem, Collections
  <2> QED
    BY <2>1, RemoveStep
<1>5. ASSUME NEW s \in -1..MaxTTL, Expire(k, s) PROVE TypeData' /\ DeadlineHasKey'
  <2>1. s \in Lefts
    BY DEF Lefts
  <2> QED
    BY <1>5, <2>1 DEF Expire, TypeData, DeadlineHasKey
<1> QED
  BY <1>1, <1>2, <1>3, <1>4, <1>5 DEF Write

LEMMA QueryStep ==
  ASSUME TypeData, DeadlineHasKey, NEW k \in Keys, Query(k)
  PROVE  TypeData' /\ DeadlineHasKey'
<1>1. Settle(k) \/ UNCHANGED data
  BY DEF Query, Get, Exists, Ttl, Read
<1> QED
  BY <1>1, SettleStep, SameStep

LEMMA RenameStep ==
  ASSUME TypeData, DeadlineHasKey, NEW k \in Keys, NEW l \in Keys, Rename(k, l)
  PROVE  TypeData' /\ DeadlineHasKey'
<1>1. CASE store[k] = Absent
  BY <1>1, SameStep DEF Rename
<1>2. CASE store[k] # Absent
  <2>1. /\ store' = [store EXCEPT ![l] = store[k], ![k] = Absent]
        /\ left' = [left EXCEPT ![l] = left[k], ![k] = Never]
        /\ k # l
    BY <1>2 DEF Rename
  <2>2. TypeData'
    BY <2>1 DEF TypeData, Values, Lefts
  <2>3. DeadlineHasKey'
    BY <1>2, <2>1 DEF TypeData, DeadlineHasKey
  <2> QED
    BY <2>2, <2>3
<1> QED
  BY <1>1, <1>2

LEMMA TickStep ==
  ASSUME TypeData, DeadlineHasKey, Tick
  PROVE  TypeData' /\ DeadlineHasKey'
<1>1. \A k \in Keys : left[k] \notin {Never, -1} => left[k] - 1 \in -1..MaxTTL
  BY Sentinels DEF TypeData, Lefts
<1>2. /\ left' = [k \in Keys |-> IF left[k] \in {Never, -1} THEN left[k] ELSE left[k] - 1]
      /\ store' = store
  BY DEF Tick
<1>3. TypeData'
  BY <1>1, <1>2 DEF TypeData, Lefts
<1>4. DeadlineHasKey'
  BY <1>2 DEF TypeData, DeadlineHasKey
<1> QED
  BY <1>3, <1>4

LEMMA DataStep ==
  TypeData /\ DeadlineHasKey /\ [Next]_vars => TypeData' /\ DeadlineHasKey'
<1> SUFFICES ASSUME TypeData, DeadlineHasKey, [Next]_vars
             PROVE  TypeData' /\ DeadlineHasKey'
  OBVIOUS
<1>1. ASSUME NEW k \in Keys, RenameSelf(k) PROVE TypeData' /\ DeadlineHasKey'
  BY <1>1, EraseStep, ClearStep DEF RenameSelf, Stop
<1>2. ASSUME NEW K \in SUBSET Keys, Del(K) PROVE TypeData' /\ DeadlineHasKey'
  BY <1>2, EraseStep DEF Del
<1>3. ASSUME ActiveExpire PROVE TypeData' /\ DeadlineHasKey'
  <2>1. PICK S : Erase({k \in S : Expired(k)})
    BY <1>3 DEF ActiveExpire
  <2> QED
    BY <2>1, EraseStep
<1>4. ASSUME Flushdb \/ Stop PROVE TypeData' /\ DeadlineHasKey'
  BY <1>4, ClearStep DEF Flushdb, Stop
<1>5. ASSUME ListKeys \/ Start \/ UNCHANGED vars PROVE TypeData' /\ DeadlineHasKey'
  BY <1>5, SameStep DEF ListKeys, Start, vars, data
<1> QED
  BY <1>1, <1>2, <1>3, <1>4, <1>5, WriteStep, QueryStep, RenameStep, TickStep DEF Next

-----------------------------------------------------------------------------
(* The flags and the replies.                                              *)

LEMMA FlagsStep == TypeFlags /\ [Next]_vars => TypeFlags'
<1> SUFFICES ASSUME TypeFlags, [Next]_vars PROVE TypeFlags'
  OBVIOUS
<1>1. due' \in {due, TRUE, FALSE} /\ up' \in {up, TRUE, FALSE}
  BY Zenon DEF Next, vars, data, process, Serving, Write, Query, RenameSelf, Rename, Del,
     ListKeys, Flushdb, Tick, ActiveExpire, Stop, Start, Set, Incrby, Push, Hset, Sadd,
     Zadd, Pop, Hdel, Srem, Zrem, Expire, Add, Remove, Get, Exists, Ttl, Read
<1> QED
  BY <1>1, Zenon DEF TypeFlags

Answers == {"unknown", "present", "absent"}
Silent == told' = [j \in Keys |-> "unknown"]

\* Every step but a query says nothing, or leaves reply and data as they are.
LEMMA ReplyShape ==
  [Next]_vars => \/ Silent
                 \/ UNCHANGED <<data, told>>
                 \/ ListKeys
                 \/ \E k \in Keys : Query(k)
<1> SUFFICES ASSUME [Next]_vars
             PROVE  \/ Silent \/ UNCHANGED <<data, told>> \/ ListKeys
                    \/ \E k \in Keys : Query(k)
  OBVIOUS
<1>1. TellsNothing => Silent
  BY DEF TellsNothing, Tells, Silent
<1>2. ASSUME NEW k \in Keys, Write(k) PROVE Silent
  <2>1. TellsNothing
    BY <1>2, Zenon DEF Write, Set, Incrby, Push, Hset, Sadd, Zadd, Pop, Hdel, Srem, Zrem, Expire,
       Add, Remove
  <2> QED
    BY <1>1, <2>1
<1>3. ASSUME NEW k \in Keys, NEW l \in Keys, Rename(k, l) PROVE Silent
  <2>1. TellsNothing
    BY <1>3, Zenon DEF Rename
  <2> QED
    BY <1>1, <2>1
<1>4. ASSUME NEW k \in Keys, RenameSelf(k) PROVE Silent
  BY <1>1, <1>4, Zenon DEF RenameSelf, Stop
<1>5. ASSUME \/ \E K \in SUBSET Keys : Del(K)
             \/ Flushdb \/ Tick \/ ActiveExpire \/ Stop
      PROVE  Silent
  BY <1>1, <1>5, Zenon DEF Del, Flushdb, Tick, ActiveExpire, Stop
<1>6. ASSUME Start \/ UNCHANGED vars PROVE UNCHANGED <<data, told>>
  BY <1>6 DEF Start, vars, data
<1> QED
  BY <1>2, <1>3, <1>4, <1>5, <1>6, Zenon DEF Next

LEMMA QueryType ==
  ASSUME NEW k \in Keys, Query(k)
  PROVE  /\ told' \in [Keys -> Answers]
         /\ \A j \in Keys : j # k => told'[j] = "unknown"
<1>1. ASSUME NEW a \in Answers, TellsOf(k, a)
      PROVE  /\ told' \in [Keys -> Answers]
             /\ \A j \in Keys : j # k => told'[j] = "unknown"
  BY <1>1 DEF TellsOf, Tells, Answers
<1>2. \E a \in Answers : TellsOf(k, a)
  BY DEF Query, Get, Exists, Ttl, Read, Answers
<1> QED
  BY <1>1, <1>2

LEMMA BeforeStep == before \in SUBSET Keys /\ [Next]_vars => before' \in SUBSET Keys
<1> SUFFICES ASSUME before \in SUBSET Keys, [Next]_vars PROVE before' \in SUBSET Keys
  OBVIOUS
<1>1. before' \in {before, {}, {k \in Keys : Visible(k)}}
  BY Zenon DEF Next, vars, data, process, Serving, Write, Query, RenameSelf, Rename, Del,
     ListKeys, Flushdb, Tick, ActiveExpire, Stop, Start, Set, Incrby, Push, Hset, Sadd,
     Zadd, Pop, Hdel, Srem, Zrem, Expire, Add, Remove, Get, Exists, Ttl, Read
<1> QED
  BY <1>1

LEMMA RepliesStep == TypeReplies /\ [Next]_vars => TypeReplies'
<1> SUFFICES ASSUME TypeReplies, [Next]_vars PROVE TypeReplies'
  OBVIOUS
<1>1. before' \in SUBSET Keys
  BY BeforeStep DEF TypeReplies
<1>2. told' \in [Keys -> Answers]
  <2>1. CASE Silent
    BY <2>1 DEF Silent, Answers
  <2>2. CASE UNCHANGED <<data, told>>
    BY <2>2 DEF TypeReplies, Answers
  <2>3. CASE ListKeys
    BY <2>3 DEF ListKeys, Tells, Answers
  <2>4. ASSUME NEW k \in Keys, Query(k)
        PROVE  told' \in [Keys -> Answers]
    BY <2>4, QueryType
  <2> QED
    BY <2>1, <2>2, <2>3, <2>4, ReplyShape
<1> QED
  BY <1>1, <1>2 DEF TypeReplies, Answers

LEMMA TypeInit == Init => TypeOK /\ DeadlineHasKey
<1> SUFFICES ASSUME Init PROVE TypeOK /\ DeadlineHasKey
  OBVIOUS
<1>1. TypeData /\ DeadlineHasKey
  BY DEF Init, TypeData, DeadlineHasKey, Values, Lefts
<1>2. TypeFlags
  BY Zenon DEF Init, TypeFlags
<1>3. TypeReplies
  BY DEF Init, TypeReplies
<1> QED
  BY <1>1, <1>2, <1>3, TypeSplit

LEMMA TypeStep == TypeOK /\ DeadlineHasKey /\ [Next]_vars => TypeOK' /\ DeadlineHasKey'
  BY TypeSplit, TypeSplitPrime, DataStep, FlagsStep, RepliesStep

\* TypeOK holds throughout, for every value of the constants.
THEOREM TypeCorrect == Spec => []TypeOK
  BY TypeInit, TypeStep, PTL DEF Spec

\* No deadline outlives its key, whatever mix of commands, expiry and
\* restarts: the erase-then-recreate that every counter of a flash sale goes
\* through starts without a deadline.
THEOREM DeadlinesHaveKeys == Spec => []DeadlineHasKey
  BY TypeInit, TypeStep, PTL DEF Spec

-----------------------------------------------------------------------------
(* Queries.                                                                *)

\* A query leaves what is visible as it was, key by key.
LEMMA SettleUnseen ==
  ASSUME TypeData, DeadlineHasKey, NEW k \in Keys, Settle(k), NEW j \in Keys
  PROVE  /\ Visible(j)' <=> Visible(j)
         /\ Visible(j) => store'[j] = store[j] /\ left'[j] = left[j]
<1>1. CASE j = k
  <2>1. store'[k] = Found(k) /\ left'[k] = FoundLeft(k)
    BY SettleStep
  <2>2. /\ Found(k) # Absent <=> Visible(k)
        /\ FoundLeft(k) # -1
        /\ Visible(k) => Found(k) = store[k] /\ FoundLeft(k) = left[k]
    BY FoundFacts
  <2>3. Visible(k)' <=> store'[k] # Absent /\ left'[k] # -1
    BY DEF Visible, Expired
  <2> QED
    BY <1>1, <2>1, <2>2, <2>3
<1>2. CASE j # k
  <2>1. store'[j] = store[j] /\ left'[j] = left[j]
    BY <1>2, SettleStep
  <2> QED
    BY <2>1 DEF Visible, Expired
<1> QED
  BY <1>1, <1>2

LEMMA SameUnseen ==
  ASSUME UNCHANGED data, NEW j \in Keys
  PROVE  /\ Visible(j)' <=> Visible(j)
         /\ store'[j] = store[j] /\ left'[j] = left[j]
  BY DEF data, Visible, Expired

\* The answer of a query is what is visible before it, and so after it.
LEMMA QueryAnswer ==
  ASSUME TypeData, DeadlineHasKey, NEW k \in Keys, Query(k)
  PROVE  /\ told'[k] = "present" => Visible(k)
         /\ told'[k] = "absent" => ~Visible(k)
<1>1. Found(k) # Absent <=> Visible(k)
  BY FoundFacts
<1>2. \A a : TellsOf(k, a) => told'[k] = a
  BY DEF TellsOf, Tells
<1>3. CASE Get(k)
  BY <1>1, <1>2, <1>3 DEF Get
<1>4. CASE Exists(k)
  BY <1>1, <1>2, <1>4 DEF Exists
<1>5. CASE Ttl(k)
  BY <1>2, <1>5 DEF Ttl, Visible, Expired
<1>6. CASE \E t \in Collections : Read(k, t)
  BY <1>1, <1>2, <1>6 DEF Read
<1> QED
  BY <1>3, <1>4, <1>5, <1>6 DEF Query

LEMMA QueryUnseen ==
  ASSUME TypeData, DeadlineHasKey, NEW k \in Keys, Query(k), NEW j \in Keys
  PROVE  /\ Visible(j)' <=> Visible(j)
         /\ Visible(j) => store'[j] = store[j] /\ left'[j] = left[j]
<1>1. Settle(k) \/ UNCHANGED data
  BY DEF Query, Get, Exists, Ttl, Read
<1> QED
  BY <1>1, SettleUnseen, SameUnseen

LEMMA AgreeStep ==
  TypeOK /\ DeadlineHasKey /\ QueriesAgree /\ [Next]_vars => QueriesAgree'
<1> SUFFICES ASSUME TypeOK, DeadlineHasKey, QueriesAgree, [Next]_vars, NEW j \in Keys
             PROVE  /\ told'[j] = "present" => Visible(j)'
                    /\ told'[j] = "absent" => ~Visible(j)'
  BY DEF QueriesAgree
<1>1. TypeData
  BY TypeSplit
<1>2. CASE Silent
  BY <1>2 DEF Silent
<1>3. CASE UNCHANGED <<data, told>>
  <2>1. Visible(j)' <=> Visible(j)
    BY <1>3, SameUnseen
  <2>2. told'[j] = told[j]
    BY <1>3
  <2> QED
    BY <2>1, <2>2 DEF QueriesAgree
<1>4. CASE ListKeys
  <2>1. Visible(j)' <=> Visible(j)
    BY <1>4, SameUnseen DEF ListKeys
  <2>2. told'[j] = IF Visible(j) THEN "present" ELSE "absent"
    BY <1>4 DEF ListKeys, Tells
  <2> QED
    BY <2>1, <2>2
<1>5. ASSUME NEW k \in Keys, Query(k)
      PROVE  /\ told'[j] = "present" => Visible(j)'
             /\ told'[j] = "absent" => ~Visible(j)'
  <2>1. Visible(j)' <=> Visible(j)
    BY <1>1, <1>5, QueryUnseen
  <2>2. CASE j = k
    BY <1>1, <1>5, <2>1, <2>2, QueryAnswer
  <2>3. CASE j # k
    <3>1. told'[j] = "unknown"
      BY <1>5, <2>3, QueryType
    <3> QED
      BY <3>1
  <2> QED
    BY <2>2, <2>3
<1> QED
  BY <1>2, <1>3, <1>4, <1>5, ReplyShape

\* GET, EXISTS, KEYS, TTL and the collection reads never contradict each other
\* about a key, whichever of them removes it on the way.
THEOREM QueriesConsistent == Spec => []QueriesAgree
<1>1. Init => QueriesAgree
  BY DEF Init, QueriesAgree
<1>2. (TypeOK /\ DeadlineHasKey /\ QueriesAgree) /\ [Next]_vars
        => (TypeOK /\ DeadlineHasKey /\ QueriesAgree)'
  BY TypeStep, AgreeStep
<1> QED
  BY <1>1, <1>2, TypeInit, PTL DEF Spec

-----------------------------------------------------------------------------
(* The removal of expired keys.                                            *)

Unseen == \A k \in Keys : /\ Visible(k)' <=> Visible(k)
                          /\ Visible(k) => store'[k] = store[k] /\ left'[k] = left[k]

LEMMA CycleUnseen == TypeOK /\ ActiveExpire => Unseen
<1> SUFFICES ASSUME TypeOK, ActiveExpire, NEW k \in Keys
             PROVE  /\ Visible(k)' <=> Visible(k)
                    /\ Visible(k) => store'[k] = store[k] /\ left'[k] = left[k]
  BY DEF Unseen
<1>1. PICK S : Erase({i \in S : Expired(i)})
  BY DEF ActiveExpire
<1>2. CASE k \in S /\ Expired(k)
  <2>1. store'[k] = Absent
    BY <1>1, <1>2 DEF Erase
  <2> QED
    BY <1>2, <2>1 DEF Visible
<1>3. CASE ~(k \in S /\ Expired(k))
  <2>1. store'[k] = store[k] /\ left'[k] = left[k]
    BY <1>1, <1>3 DEF Erase
  <2> QED
    BY <2>1 DEF Visible, Expired
<1> QED
  BY <1>2, <1>3

\* Lazy and periodic expiry are invisible: they remove what no query shows and
\* touch nothing else.
THEOREM ExpiryInvisible == Spec => CollectionUnseen
<1>1. ASSUME TypeOK, DeadlineHasKey, ActiveExpire \/ ListKeys \/ \E k \in Keys : Query(k)
      PROVE  Unseen
  <2>1. TypeData
    BY <1>1, TypeSplit
  <2>2. CASE ActiveExpire
    BY <1>1, <2>2, CycleUnseen
  <2>3. CASE ListKeys
    <3>1. \A j \in Keys : /\ Visible(j)' <=> Visible(j)
                          /\ store'[j] = store[j] /\ left'[j] = left[j]
      BY <2>3, SameUnseen DEF ListKeys
    <3> QED
      BY <3>1 DEF Unseen
  <2>4. ASSUME NEW k \in Keys, Query(k) PROVE Unseen
    <3>1. \A j \in Keys : /\ Visible(j)' <=> Visible(j)
                          /\ Visible(j) => store'[j] = store[j] /\ left'[j] = left[j]
      BY <1>1, <2>1, <2>4, QueryUnseen
    <3> QED
      BY <3>1 DEF Unseen
  <2> QED
    BY <1>1, <2>2, <2>3, <2>4
<1>2. TypeOK /\ DeadlineHasKey =>
        [(ActiveExpire \/ ListKeys \/ \E k \in Keys : Query(k)) => Unseen]_vars
  BY <1>1
<1>3. Spec => [](TypeOK /\ DeadlineHasKey)
  BY TypeInit, TypeStep, PTL DEF Spec
<1> QED
  BY <1>2, <1>3, PTL DEF CollectionUnseen, Unseen
-----------------------------------------------------------------------------
(* What comes back, and as what.                                           *)

\* A command on one key leaves every other as it is.
LEMMA ElsewhereSame ==
  ASSUME TypeData, NEW j \in Keys, Write(j) \/ Query(j), NEW k \in Keys, k # j
  PROVE  store'[k] = store[k] /\ left'[k] = left[k]
<1>1. ASSUME NEW o, NEW l, Put(j, o, l) PROVE store'[k] = store[k] /\ left'[k] = left[k]
  BY <1>1 DEF Put, TypeData
<1>2. ASSUME NEW s, Expire(j, s) PROVE store'[k] = store[k] /\ left'[k] = left[k]
  BY <1>2 DEF Expire, TypeData
<1>3. \/ \E o, l : Put(j, o, l)
      \/ \E s \in -1..MaxTTL : Expire(j, s)
      \/ UNCHANGED data
  <2>1. CASE Query(j)
    BY <2>1 DEF Query, Get, Exists, Ttl, Read, Settle
  <2>2. CASE Write(j)
    BY <2>2, Zenon DEF Write, Set, Incrby, Push, Hset, Sadd, Zadd, Pop, Hdel, Srem, Zrem, Add,
       Remove, Settle
  <2> QED
    BY <2>1, <2>2
<1> QED
  BY <1>1, <1>2, <1>3 DEF data

\* The deletions: what is not gone is as it was.
LEMMA GoneOrSame ==
  ASSUME TypeData, NEW k \in Keys,
         \/ \E K : Erase(K)
         \/ store' = [j \in Keys |-> Absent]
         \/ UNCHANGED data
  PROVE  store'[k] = Absent \/ (store'[k] = store[k] /\ left'[k] = left[k])
<1>1. ASSUME NEW K, Erase(K)
      PROVE  store'[k] = Absent \/ (store'[k] = store[k] /\ left'[k] = left[k])
  BY <1>1 DEF Erase
<1> QED
  BY <1>1 DEF data

LEMMA Deletions ==
  ASSUME \/ \E K \in SUBSET Keys : Del(K)
         \/ \E k \in Keys : RenameSelf(k)
         \/ ListKeys \/ Flushdb \/ ActiveExpire \/ Stop \/ Start \/ UNCHANGED vars
  PROVE  \/ \E K : Erase(K)
         \/ store' = [j \in Keys |-> Absent]
         \/ UNCHANGED data
  BY Zenon DEF Del, RenameSelf, ListKeys, Flushdb, ActiveExpire, Stop, Start, vars

Revives(k) ==
  \/ \E s \in 0..MaxTTL : Expire(k, s)
  \/ Incrby(k) /\ store'[k] = Object("string", 1)
  \/ \E l \in Keys : Rename(l, k) /\ store'[k] = store[l]

Replaces(k) ==
  \/ store'[k].type = store[k].type
  \/ \E n \in 0..1 : Set(k, n)
  \/ \E l \in Keys : Rename(l, k)

\* What a command finds of an expired key is nothing.
LEMMA ExpiredWrite ==
  ASSUME TypeData, NEW k \in Keys, Write(k) \/ Query(k), Expired(k), Visible(k)'
  PROVE  Revives(k)
<1>1. Found(k) = Absent /\ left[k] = -1
  BY DEF Found, Expired
<1>2. store'[k] # Absent /\ left'[k] # -1
  BY DEF Visible, Expired
<1>3. ~Settle(k)
  BY <1>1, <1>2 DEF Settle, Put, TypeData
<1>4. left' # left
  BY <1>1, <1>2
<1>5. \A o : ~Put(k, o, left[k])
  BY <1>1, <1>2 DEF Put, TypeData
<1>6. CASE Query(k)
  BY <1>3, <1>4, <1>6 DEF Query, Get, Exists, Ttl, Read, data
<1>7. ASSUME NEW n \in 0..1, Set(k, n) PROVE Revives(k)
  BY <1>5, <1>7 DEF Set
<1>8. CASE Incrby(k)
  <2>1. Put(k, Object("string", 1), FoundLeft(k))
    BY <1>1, <1>8 DEF Incrby
  <2>2. store'[k] = Object("string", 1)
    BY <2>1 DEF Put, TypeData
  <2> QED
    BY <1>8, <2>2 DEF Revives
<1>9. CASE Push(k) \/ Hset(k) \/ Sadd(k) \/ Zadd(k)
  <2>1. PICK t, n : Add(k, t, n)
    BY <1>9 DEF Push, Hset, Sadd, Zadd
  <2> QED
    BY <1>4, <1>5, <2>1 DEF Add, data
<1>10. CASE Pop(k) \/ Hdel(k) \/ Srem(k) \/ Zrem(k)
  <2>1. PICK t, n : Remove(k, t, n)
    BY <1>10 DEF Pop, Hdel, Srem, Zrem
  <2> QED
    BY <1>1, <1>3, <2>1 DEF Remove
<1>11. ASSUME NEW s \in -1..MaxTTL, Expire(k, s) PROVE Revives(k)
  <2>1. s # -1
    BY <1>2, <1>11 DEF Expire, TypeData
  <2>2. s \in 0..MaxTTL
    BY <2>1
  <2> QED
    BY <1>11, <2>2 DEF Revives
<1> QED
  BY <1>6, <1>7, <1>8, <1>9, <1>10, <1>11 DEF Write

\* A command finds a visible key as it is, and changes it only within its type.
LEMMA VisibleWrite ==
  ASSUME TypeData, NEW k \in Keys, Write(k) \/ Query(k), Visible(k),
         store'[k] # Absent, store'[k] # store[k]
  PROVE  Replaces(k)
<1>1. Found(k) = store[k] /\ store[k] # Absent
  BY DEF Found, Visible
<1>2. ~Settle(k)
  BY <1>1 DEF Settle, Put, TypeData
<1>3. store' # store
  OBVIOUS
<1>4. \A o, l : Put(k, o, l) => store'[k] = o
  BY DEF Put, TypeData
<1>5. \A t, n : Object(t, n).type = t
  BY DEF Object
<1>6. CASE Query(k)
  BY <1>2, <1>3, <1>6 DEF Query, Get, Exists, Ttl, Read, data
<1>7. ASSUME NEW n \in 0..1, Set(k, n) PROVE Replaces(k)
  BY <1>7 DEF Replaces
<1>8. CASE Incrby(k)
  <2>1. Put(k, Object("string", 1), FoundLeft(k)) /\ Found(k) = Object("string", 1)
    BY <1>1, <1>2, <1>8 DEF Incrby
  <2> QED
    BY <1>1, <1>4, <2>1
<1>9. CASE Push(k) \/ Hset(k) \/ Sadd(k) \/ Zadd(k)
  <2>1. PICK t, n : Add(k, t, n)
    BY <1>9 DEF Push, Hset, Sadd, Zadd
  <2>2. Usable(k, t) /\ Put(k, Object(t, Size(k) + n), left[k])
    BY <1>3, <2>1 DEF Add, data
  <2> QED
    BY <1>1, <1>4, <1>5, <2>2 DEF Usable, Replaces
<1>10. CASE Pop(k) \/ Hdel(k) \/ Srem(k) \/ Zrem(k)
  <2>1. PICK t, n : Remove(k, t, n)
    BY <1>10 DEF Pop, Hdel, Srem, Zrem
  <2>2. Found(k).type = t /\ Put(k, Object(t, Found(k).data - n), FoundLeft(k))
    BY <1>2, <2>1 DEF Remove
  <2> QED
    BY <1>1, <1>4, <1>5, <2>2 DEF Replaces
<1>11. ASSUME NEW s \in -1..MaxTTL, Expire(k, s) PROVE Replaces(k)
  BY <1>3, <1>11 DEF Expire
<1> QED
  BY <1>6, <1>7, <1>8, <1>9, <1>10, <1>11 DEF Write

LEMMA RenameOver ==
  ASSUME TypeData, NEW j \in Keys, NEW l \in Keys, Rename(j, l), NEW k \in Keys
  PROVE  \/ k = l /\ store'[k] = store[j]
         \/ store'[k] = Absent
         \/ store'[k] = store[k] /\ left'[k] = left[k]
  BY DEF Rename, TypeData, data

LEMMA RevivalStep ==
  ASSUME TypeData, [Next]_vars, NEW k \in Keys, Expired(k), Visible(k)'
  PROVE  Revives(k)
<1>1. left[k] = -1 /\ store'[k] # Absent /\ left'[k] # -1
  BY DEF Visible, Expired
<1>2. ASSUME NEW j \in Keys, Write(j) \/ Query(j) PROVE Revives(k)
  BY <1>1, <1>2, ElsewhereSame, ExpiredWrite
<1>3. ASSUME NEW j \in Keys, NEW l \in Keys, Rename(j, l) PROVE Revives(k)
  BY <1>1, <1>3, RenameOver DEF Revives
<1>4. CASE Tick
  BY <1>1, <1>4 DEF Tick
<1>5. CASE \/ \E K \in SUBSET Keys : Del(K)
           \/ \E j \in Keys : RenameSelf(j)
           \/ ListKeys \/ Flushdb \/ ActiveExpire \/ Stop \/ Start \/ UNCHANGED vars
  BY <1>1, <1>5, Deletions, GoneOrSame
<1> QED
  BY <1>2, <1>3, <1>4, <1>5, Zenon DEF Next

LEMMA TypeChangeStep ==
  ASSUME TypeData, [Next]_vars, NEW k \in Keys, Visible(k), store'[k] # Absent,
         store'[k] # store[k]
  PROVE  Replaces(k)
<1>1. ASSUME NEW j \in Keys, Write(j) \/ Query(j) PROVE Replaces(k)
  BY <1>1, ElsewhereSame, VisibleWrite
<1>2. ASSUME NEW j \in Keys, NEW l \in Keys, Rename(j, l) PROVE Replaces(k)
  BY <1>2, RenameOver DEF Replaces
<1>3. CASE Tick
  BY <1>3 DEF Tick
<1>4. CASE \/ \E K \in SUBSET Keys : Del(K)
           \/ \E j \in Keys : RenameSelf(j)
           \/ ListKeys \/ Flushdb \/ ActiveExpire \/ Stop \/ Start \/ UNCHANGED vars
  BY <1>4, Deletions, GoneOrSame
<1> QED
  BY <1>1, <1>2, <1>3, <1>4, Zenon DEF Next

\* An expired object stays invisible: only EXPIRE gives it a new deadline, and
\* INCRBY and RENAME put another in its place (db.cpp, the commands that
\* look for a key with its deadline and those that do not).
THEOREM NothingRevived == Spec => NoResurrection
<1>1. TypeOK /\ [Next]_vars =>
        [\A k \in Keys : Expired(k) /\ Visible(k)' => Revives(k)]_vars
  <2> SUFFICES ASSUME TypeOK, [Next]_vars, NEW k \in Keys, Expired(k), Visible(k)'
               PROVE  Revives(k)
    OBVIOUS
  <2> QED
    BY TypeSplit, RevivalStep
<1> QED
  BY <1>1, TypeCorrect, PTL DEF Spec, NoResurrection, Revives

\* No command turns a visible value into one of another type: the wrong-type
\* commands of a key browser or a counter leave it alone (db.cpp,
\* get_or_create and the type tests of the reads).
THEOREM TypesStay == Spec => TypeKept
<1>1. TypeOK /\ [Next]_vars =>
        [\A k \in Keys :
           Visible(k) /\ store'[k] # Absent /\ store'[k] # store[k] => Replaces(k)]_vars
  <2> SUFFICES ASSUME TypeOK, [Next]_vars, NEW k \in Keys, Visible(k),
                      store'[k] # Absent, store'[k] # store[k]
               PROVE  Replaces(k)
    OBVIOUS
  <2> QED
    BY TypeSplit, TypeChangeStep
<1> QED
  BY <1>1, TypeCorrect, PTL DEF Spec, TypeKept, Replaces

-----------------------------------------------------------------------------
(* The sorted sets.                                                        *)

\* Node n has a link on level i.
Tall(i) == {n \in Live : node[n].height >= i}
On(n, i) == n = Header \/ n \in Tall(i)

\* Node o stands behind n.
Behind(n, o) == n = Header \/ Precedes(n, o)

\* The link of n on level i leads to the next node that has one.
Linked(n, i) ==
  \/ next[n][i] = Nil /\ \A o \in Tall(i) : ~Behind(n, o)
  \/ /\ next[n][i] \in Tall(i) /\ Behind(n, next[n][i])
     /\ \A o \in Tall(i) : Behind(n, o) => o = next[n][i] \/ Precedes(next[n][i], o)

Nodes == [member : Members, score : Scores, height : Levels]

\* What holds as long as no link leads to a freed node.
Struct ==
  /\ Live \subseteq Ids /\ node \in [Live -> Nodes]
  /\ next \in [{Header} \cup Ids -> [Levels -> Ids \cup {Nil}]]
  /\ \A a, b \in Live :
       node[a].member = node[b].member /\ node[a].score = node[b].score => a = b
  /\ \A n \in Ids, i \in Levels : n \notin Tall(i) => next[n][i] = Nil
  /\ \A n \in {Header} \cup Live, i \in Levels : On(n, i) => Linked(n, i)
  /\ level \in Levels /\ \A n \in Live : node[n].height <= level
  /\ count = Cardinality(Live)

-----------------------------------------------------------------------------
(* The order.                                                              *)

LEMMA LeastNatural ==
  ASSUME NEW S \in SUBSET Nat, S # {}
  PROVE  \E m \in S : \A k \in S : m <= k
<1> DEFINE R == StrictSubsetOrdering(Nat)
           T == {0..n : n \in S}
<1>1. IsWellFoundedOn(R, FiniteSubsetsOf(Nat))
  BY FS_StrictSubsetOrderingWellFounded
<1>2. T \subseteq FiniteSubsetsOf(Nat)
  <2> SUFFICES ASSUME NEW n \in S PROVE 0..n \in FiniteSubsetsOf(Nat)
    OBVIOUS
  <2>1. IsFiniteSet(0..n)
    BY FS_Interval
  <2> QED
    BY <2>1 DEF FiniteSubsetsOf
<1>3. T # {}
  OBVIOUS
<1> HIDE DEF R, T
<1>4. PICK x \in T : \A y \in T : <<y, x>> \notin R
  BY <1>1, <1>2, <1>3, WFMin
<1> USE DEF R, T
<1>5. PICK m \in S : x = 0..m
  OBVIOUS
<1>6. ASSUME NEW k \in S, k < m PROVE FALSE
  <2>1. 0..k \in T /\ 0..k \subseteq 0..m /\ m \notin 0..k /\ m \in 0..m
    BY <1>6
  <2>2. 0..k \in SUBSET Nat /\ 0..m \in SUBSET Nat
    OBVIOUS
  <2>3. 0..k # 0..m
    BY <2>1
  <2>4. <<0..k, 0..m>> \in R
    BY <2>1, <2>2, <2>3 DEF StrictSubsetOrdering
  <2> QED
    BY <1>4, <1>5, <2>1, <2>4
<1> QED
  BY <1>6

LEMMA GreatestNatural ==
  ASSUME NEW n \in Nat, NEW S \in SUBSET (0..n), S # {}
  PROVE  \E m \in S : \A k \in S : k <= m
<1> DEFINE T == {n - k : k \in S}
<1>1. T \in SUBSET Nat /\ T # {}
  <2>1. \A k \in S : n - k \in Nat
    OBVIOUS
  <2>2. PICK k \in S : TRUE
    OBVIOUS
  <2>3. n - k \in T
    BY <2>2
  <2> QED
    BY <2>1, <2>3
<1>2. PICK x \in T : \A y \in T : x <= y
  <2> HIDE DEF T
  <2> QED
    BY <1>1, LeastNatural
<1>3. PICK m \in S : x = n - m
  OBVIOUS
<1>4. \A k \in S : n - m <= n - k /\ k \in Nat /\ m \in Nat
  BY <1>2, <1>3
<1> QED
  BY <1>4

LEMMA StructParts ==
  ASSUME Struct
  PROVE  /\ Live \subseteq Ids /\ IsFiniteSet(Live) /\ Cardinality(Live) \in Nat
         /\ Header \notin Ids /\ Nil \notin Ids /\ Nil # Header
         /\ \A a \in Live : /\ node[a] \in Nodes
                            /\ node[a].member \in Members /\ node[a].member \in Nat
                            /\ node[a].score \in Scores /\ node[a].score \in Nat
                            /\ node[a].height \in Levels /\ node[a].height \in Nat
         /\ \A n \in {Header} \cup Ids, i \in Levels : next[n][i] \in Ids \cup {Nil}
<1>1. Live \subseteq Ids /\ node \in [Live -> Nodes]
  BY DEF Struct
<1>2. IsFiniteSet(Ids)
  BY FS_Interval, BoundsAssumption DEF Ids
<1>3. IsFiniteSet(Live) /\ Cardinality(Live) \in Nat
  BY <1>1, <1>2, FS_Subset, FS_CardinalityType
<1>4. Header \notin Ids /\ Nil \notin Ids /\ Nil # Header
  BY BoundsAssumption DEF Header, Ids, Nil
<1>5. Levels \subseteq Nat
  BY BoundsAssumption DEF Levels
<1>6. \A x \in Nodes : /\ x.member \in Members /\ x.score \in Scores /\ x.height \in Levels
  BY DEF Nodes
<1>7. Members \subseteq Nat /\ Scores \subseteq Nat
  BY BoundsAssumption
<1>8. \A n \in {Header} \cup Ids, i \in Levels : next[n][i] \in Ids \cup {Nil}
  BY DEF Struct
<1>9. \A a \in Live : node[a] \in Nodes
  BY <1>1
<1> QED
  BY <1>1, <1>3, <1>4, <1>5, <1>6, <1>7, <1>8, <1>9

LEMMA Order ==
  ASSUME Struct
  PROVE  /\ \A a \in Live : ~Precedes(a, a)
         /\ \A a, b \in Live : Precedes(a, b) => ~Precedes(b, a)
         /\ \A a, b, c \in Live : Precedes(a, b) /\ Precedes(b, c) => Precedes(a, c)
         /\ \A a, b \in Live : a = b \/ Precedes(a, b) \/ Precedes(b, a)
<1>1. \A a \in Live : node[a].member \in Nat /\ node[a].score \in Nat
  BY StructParts
<1>2. \A a, b \in Live :
        node[a].member = node[b].member /\ node[a].score = node[b].score => a = b
  BY DEF Struct
<1> QED
  BY <1>1, <1>2 DEF Precedes

\* The first node of a set.
LEMMA FirstNode ==
  ASSUME Struct, NEW S \in SUBSET Live, S # {}
  PROVE  \E a \in S : \A b \in S : a = b \/ Precedes(a, b)
<1> DEFINE R == StrictSubsetOrdering(Live)
           U(a) == {b \in Live : Precedes(b, a)}
           T == {U(a) : a \in S}
<1>1. IsWellFoundedOn(R, FiniteSubsetsOf(Live))
  BY FS_StrictSubsetOrderingWellFounded
<1>2. T \subseteq FiniteSubsetsOf(Live)
  <2> SUFFICES ASSUME NEW a \in S PROVE U(a) \in FiniteSubsetsOf(Live)
    OBVIOUS
  <2>1. U(a) \in SUBSET Live /\ IsFiniteSet(Live)
    BY StructParts
  <2>2. IsFiniteSet(U(a))
    <3> HIDE DEF U
    <3> QED
      BY <2>1, FS_Subset
  <2> QED
    BY <2>1, <2>2 DEF FiniteSubsetsOf
<1>3. T # {}
  OBVIOUS
<1> HIDE DEF R, T
<1>4. PICK x \in T : \A y \in T : <<y, x>> \notin R
  BY <1>1, <1>2, <1>3, WFMin
<1>5. PICK a \in S : x = U(a)
  BY DEF T
<1>6. ASSUME NEW b \in S, Precedes(b, a) PROVE FALSE
  <2>1. U(b) \subseteq U(a) /\ b \in U(a) /\ b \notin U(b)
    BY <1>6, Order
  <2>2. U(b) \in SUBSET Live /\ U(a) \in SUBSET Live /\ U(b) # U(a)
    BY <2>1
  <2>3. <<U(b), U(a)>> \in R
    <3> HIDE DEF U
    <3> QED
      BY <2>1, <2>2 DEF R, StrictSubsetOrdering
  <2>4. U(b) \in T
    BY DEF T
  <2> QED
    BY <1>4, <1>5, <2>3, <2>4
<1> QED
  BY <1>6, Order

\* The last node of a set.
LEMMA LastNode ==
  ASSUME Struct, NEW S \in SUBSET Live, S # {}
  PROVE  \E a \in S : \A b \in S : a = b \/ Precedes(b, a)
<1> DEFINE R == StrictSubsetOrdering(Live)
           U(a) == {b \in Live : Precedes(a, b)}
           T == {U(a) : a \in S}
<1>1. IsWellFoundedOn(R, FiniteSubsetsOf(Live))
  BY FS_StrictSubsetOrderingWellFounded
<1>2. T \subseteq FiniteSubsetsOf(Live)
  <2> SUFFICES ASSUME NEW a \in S PROVE U(a) \in FiniteSubsetsOf(Live)
    OBVIOUS
  <2>1. U(a) \in SUBSET Live /\ IsFiniteSet(Live)
    BY StructParts
  <2>2. IsFiniteSet(U(a))
    <3> HIDE DEF U
    <3> QED
      BY <2>1, FS_Subset
  <2> QED
    BY <2>1, <2>2 DEF FiniteSubsetsOf
<1>3. T # {}
  OBVIOUS
<1> HIDE DEF R, T
<1>4. PICK x \in T : \A y \in T : <<y, x>> \notin R
  BY <1>1, <1>2, <1>3, WFMin
<1>5. PICK a \in S : x = U(a)
  BY DEF T
<1>6. ASSUME NEW b \in S, Precedes(a, b) PROVE FALSE
  <2>1. U(b) \subseteq U(a) /\ b \in U(a) /\ b \notin U(b)
    BY <1>6, Order
  <2>2. U(b) \in SUBSET Live /\ U(a) \in SUBSET Live /\ U(b) # U(a)
    BY <2>1
  <2>3. <<U(b), U(a)>> \in R
    <3> HIDE DEF U
    <3> QED
      BY <2>1, <2>2 DEF R, StrictSubsetOrdering
  <2>4. U(b) \in T
    BY DEF T
  <2> QED
    BY <1>4, <1>5, <2>3, <2>4
<1> QED
  BY <1>6, Order

-----------------------------------------------------------------------------
(* The walks.                                                              *)

\* w is where a walk on level i halts that starts at n and goes over passed.
Halts(n, w, i, passed) ==
  /\ On(w, i) /\ next[w][i] \notin passed
  /\ w = n \/ (w \in passed /\ Behind(n, w))
  /\ \A o \in Tall(i) : Behind(n, o) => o \in passed \/ (w # o /\ Behind(w, o))

LEMMA BehindFacts ==
  ASSUME Struct
  PROVE  /\ \A o \in Live : Behind(Header, o)
         /\ \A n, o \in Live : Behind(n, o) <=> Precedes(n, o)
         /\ \A n \in {Header} \cup Live : \A o, p \in Live :
              Behind(n, o) /\ Precedes(o, p) => Behind(n, p)
         /\ \A n \in {Header} \cup Live : \A o \in Live :
              n = o \/ Behind(n, o) \/ Precedes(o, n)
         /\ Header \notin Live
<1>1. Header \notin Live
  BY StructParts
<1> QED
  BY <1>1, Order DEF Behind

\* A step of a walk leads to a node of the level, the next one.
LEMMA StepFacts ==
  ASSUME Struct, NEW i \in Levels, NEW n \in {Header} \cup Ids, next[n][i] \in Live
  PROVE  /\ On(n, i) /\ next[n][i] \in Tall(i) /\ On(next[n][i], i)
         /\ n \in {Header} \cup Live /\ Behind(n, next[n][i])
         /\ \A o \in Tall(i) : Behind(n, o) => o = next[n][i] \/ Precedes(next[n][i], o)
<1>1. next[n][i] # Nil
  BY StructParts
<1>2. On(n, i)
  BY <1>1 DEF Struct, On
<1>3. n \in {Header} \cup Live
  BY <1>2 DEF On, Tall
<1>4. Linked(n, i)
  BY <1>2, <1>3 DEF Struct
<1> QED
  BY <1>1, <1>2, <1>3, <1>4 DEF Linked, On

\* The walk as a function: it is defined, for it sends each node to the first
\* from there on whose link it does not take.
LEMMA WalkExists ==
  ASSUME Struct, NEW i \in Levels, NEW passed \in SUBSET Live
  PROVE  \E h : h = [n \in {Header} \cup Ids |->
                       IF next[n][i] \in passed THEN h[next[n][i]] ELSE n]
<1> DEFINE C(n) == {o \in Tall(i) : Behind(n, o) /\ next[o][i] \notin passed}
           first(S) == CHOOSE a \in S : \A b \in S : a = b \/ Precedes(a, b)
           h == [n \in {Header} \cup Ids |->
                   IF next[n][i] \in passed THEN first(C(n)) ELSE n]
<1>1. ASSUME NEW n \in {Header} \cup Ids, next[n][i] \in passed
      PROVE  h[n] = h[next[n][i]]
  <2> DEFINE p == next[n][i]
  <2>1. /\ On(n, i) /\ p \in Tall(i) /\ p \in Live /\ p \in Ids
        /\ n \in {Header} \cup Live /\ Behind(n, p)
        /\ \A o \in Tall(i) : Behind(n, o) => o = p \/ Precedes(p, o)
    <3>1. p \in Live /\ p \in Ids
      BY <1>1, StructParts
    <3> QED
      BY <3>1, StepFacts
  <2> HIDE DEF p
  <2>2. h[n] = first(C(n))
    BY <1>1
  <2>3. C(n) \in SUBSET Live /\ Tall(i) \subseteq Live
    BY DEF Tall
  <2>4. CASE next[p][i] \in passed
    <3>1. h[p] = first(C(p))
      BY <2>1, <2>4
    <3>2. C(n) = C(p)
      <4>1. \A o \in Tall(i) : Behind(p, o) => Behind(n, o)
        BY <2>1, <2>3, BehindFacts
      <4>2. \A o \in C(n) : Behind(p, o)
        BY <2>1, <2>3, <2>4, BehindFacts
      <4> QED
        BY <4>1, <4>2
    <3> HIDE DEF C, first, h
    <3> QED
      BY <2>2, <3>1, <3>2 DEF p
  <2>5. CASE next[p][i] \notin passed
    <3>1. h[p] = p
      BY <2>1, <2>5
    <3>2. p \in C(n)
      BY <2>1, <2>5
    <3>3. \A b \in C(n) : p = b \/ Precedes(p, b)
      BY <2>1
    <3>4. \A a \in C(n) : (\A b \in C(n) : a = b \/ Precedes(a, b)) => a = p
      BY <2>1, <2>3, <3>2, <3>3, Order
    <3>5. first(C(n)) = p
      <4> HIDE DEF C
      <4> QED
        BY <3>2, <3>3, <3>4
    <3> HIDE DEF C, first, h
    <3> QED
      BY <2>2, <3>1, <3>5 DEF p
  <2> QED
    BY <2>4, <2>5
<1>2. \A n \in {Header} \cup Ids : next[n][i] \notin passed => h[n] = n
  OBVIOUS
<1>3. h = [n \in {Header} \cup Ids |-> IF next[n][i] \in passed THEN h[next[n][i]] ELSE n]
  <2>1. \A n \in {Header} \cup Ids : h[n] = IF next[n][i] \in passed THEN h[next[n][i]] ELSE n
    <3> HIDE DEF h
    <3> QED
      BY <1>1, <1>2
  <2>2. h = [n \in {Header} \cup Ids |-> h[n]]
    OBVIOUS
  <2> HIDE DEF h
  <2> QED
    BY <2>1, <2>2
<1> QED
  BY <1>3

\* Where a walk halts.
LEMMA WalkHalts ==
  ASSUME Struct, NEW i \in Levels, NEW passed \in SUBSET Live, NEW n, On(n, i)
  PROVE  Halts(n, Walk(i, n, passed), i, passed)
<1> DEFINE halt[k \in {Header} \cup Ids] ==
             IF next[k][i] \in passed THEN halt[next[k][i]] ELSE k
<1>1. halt = [k \in {Header} \cup Ids |->
                IF next[k][i] \in passed THEN halt[next[k][i]] ELSE k]
  <2>1. \E h : h = [k \in {Header} \cup Ids |->
                      IF next[k][i] \in passed THEN h[next[k][i]] ELSE k]
    <3> HIDE DEF halt
    <3> QED
      BY WalkExists
  <2> HIDE DEF halt
  <2> QED
    BY <2>1 DEF halt
<1>2. Walk(i, n, passed) = halt[n]
  BY DEF Walk
<1> HIDE DEF halt
<1>3. /\ Live \subseteq Ids /\ Tall(i) \subseteq Live
      /\ \A k : On(k, i) => k \in {Header} \cup Live
  BY StructParts DEF Tall, On
<1>4. \A k : On(k, i) /\ next[k][i] \notin passed => Halts(k, halt[k], i, passed)
  <2> SUFFICES ASSUME NEW k, On(k, i), next[k][i] \notin passed
               PROVE  Halts(k, k, i, passed)
    BY <1>1, <1>3
  <2>1. \A o \in Tall(i) : Behind(k, o) => k # o
    BY <1>3, Order, BehindFacts DEF Behind
  <2> QED
    BY <2>1 DEF Halts
<1>5. \A k : /\ On(k, i) /\ next[k][i] \in passed
             /\ Halts(next[k][i], halt[next[k][i]], i, passed)
             => Halts(k, halt[k], i, passed)
  <2> TAKE k
  <2> DEFINE p == next[k][i]
             w == halt[p]
  <2> HAVE On(k, i) /\ p \in passed /\ Halts(p, w, i, passed)
  <2>1. k \in {Header} \cup Live /\ k \in {Header} \cup Ids /\ p \in Live
    BY <1>3
  <2>2. halt[k] = w
    BY <1>1, <2>1
  <2>3. /\ Behind(k, p) /\ p \in Tall(i)
        /\ \A o \in Tall(i) : Behind(k, o) => o = p \/ Precedes(p, o)
    BY <2>1, StepFacts
  <2> HIDE DEF p, w
  <2>4. /\ On(w, i) /\ next[w][i] \notin passed
        /\ w = p \/ (w \in passed /\ Behind(p, w))
        /\ \A o \in Tall(i) : Behind(p, o) => o \in passed \/ (w # o /\ Behind(w, o))
    BY DEF Halts
  <2>5. w \in passed /\ Behind(k, w)
    BY <1>3, <2>1, <2>3, <2>4, BehindFacts
  <2>6. \A o \in Tall(i) : Behind(k, o) => o \in passed \/ (w # o /\ Behind(w, o))
    BY <1>3, <2>1, <2>3, <2>4, BehindFacts
  <2>7. Halts(k, w, i, passed)
    BY <2>4, <2>5, <2>6 DEF Halts
  <2> QED
    BY <2>2, <2>7
<1>6. \A k \in Tall(i) : Halts(k, halt[k], i, passed)
  <2> DEFINE S == {k \in Tall(i) : ~Halts(k, halt[k], i, passed)}
  <2> SUFFICES ASSUME S # {} PROVE FALSE
    OBVIOUS
  <2>1. S \in SUBSET Live
    BY <1>3
  <2>2. PICK k \in S : \A l \in S : k = l \/ Precedes(l, k)
    <3> HIDE DEF S
    <3> QED
      BY <2>1, LastNode
  <2>3. On(k, i) /\ k \in Live /\ k \in {Header} \cup Ids
    BY <1>3, <2>2 DEF On
  <2>4. next[k][i] \in passed
    BY <1>4, <2>2, <2>3
  <2>5. next[k][i] \in Tall(i) /\ Precedes(k, next[k][i]) /\ next[k][i] \in Live
    BY <2>3, <2>4, StepFacts, BehindFacts
  <2>6. next[k][i] \notin S
    BY <2>2, <2>3, <2>5, Order
  <2> QED
    BY <1>5, <2>2, <2>3, <2>4, <2>5, <2>6
<1>7. CASE next[n][i] \in passed
  <2>1. n \in {Header} \cup Ids /\ next[n][i] \in Live
    BY <1>3, <1>7
  <2>2. next[n][i] \in Tall(i)
    BY <2>1, StepFacts
  <2> QED
    BY <1>2, <1>5, <1>6, <1>7, <2>2
<1> QED
  BY <1>2, <1>4, <1>7

\* The walks of an update exist, from the highest level down.
LEMMA UpdateWalks ==
  ASSUME Struct, NEW passed
  PROVE  \A i \in 1..level : Update(passed)[i] =
           Walk(i, IF i = level THEN Header ELSE Update(passed)[i + 1], passed)
<1> DEFINE F(u, i) == u = [j \in i..level |->
                            Walk(j, IF j = level THEN Header ELSE u[j + 1], passed)]
           S == {i \in 1..level : \E u : F(u, i)}
<1>1. level \in Nat /\ level >= 1
  BY BoundsAssumption DEF Struct, Levels
<1>2. level \in S
  <2> DEFINE u == [j \in level..level |-> Walk(j, Header, passed)]
  <2>1. \A j \in level..level : j = level
    BY <1>1
  <2>2. F(u, level)
    BY <2>1
  <2>3. \E w : F(w, level)
    <3> HIDE DEF u, F
    <3> QED
      BY <2>2
  <2> HIDE DEF F
  <2> QED
    BY <1>1, <2>3
<1>3. PICK i \in S : \A k \in S : i <= k
  <2> HIDE DEF S
  <2>1. S \in SUBSET Nat
    BY <1>1 DEF S
  <2> QED
    BY <1>2, <2>1, LeastNatural
<1>4. i = 1
  <2> SUFFICES ASSUME i # 1 PROVE FALSE
    OBVIOUS
  <2>1. i \in 1..level /\ i - 1 \in 1..level /\ i - 1 # level
    BY <1>1, <1>3
  <2>2. PICK u : F(u, i)
    BY <1>3
  <2> DEFINE v == [j \in (i - 1)..level |->
                     IF j = i - 1 THEN Walk(j, u[i], passed) ELSE u[j]]
  <2>3. ASSUME NEW j \in (i - 1)..level
        PROVE  v[j] = Walk(j, IF j = level THEN Header ELSE v[j + 1], passed)
    <3>1. CASE j = i - 1
      <4>1. i \in (i - 1)..level /\ i # i - 1
        BY <1>1, <2>1
      <4>2. v[i] = u[i] /\ v[j] = Walk(j, u[i], passed) /\ j + 1 = i /\ j # level
        BY <2>1, <3>1, <4>1
      <4> HIDE DEF v
      <4> QED
        BY <4>2
    <3>2. CASE j # i - 1
      <4>1. j \in i..level
        BY <2>1, <3>2
      <4>2. v[j] = u[j] /\ u[j] = Walk(j, IF j = level THEN Header ELSE u[j + 1], passed)
        BY <2>2, <3>2, <4>1
      <4>3. j # level => j + 1 \in (i - 1)..level /\ j + 1 # i - 1
        BY <1>1, <2>1, <4>1
      <4>4. j # level => v[j + 1] = u[j + 1]
        BY <4>3
      <4> HIDE DEF v
      <4> QED
        BY <4>2, <4>4
    <3> QED
      BY <3>1, <3>2
  <2>4. v = [j \in (i - 1)..level |-> v[j]]
    OBVIOUS
  <2>5. F(v, i - 1)
    <3> HIDE DEF v
    <3> QED
      BY <2>3, <2>4
  <2>6. i - 1 \in S
    BY <2>1, <2>5
  <2> HIDE DEF S
  <2> QED
    BY <1>3, <2>1, <2>6
<1>5. \E u : F(u, 1)
  BY <1>3, <1>4
<1> DEFINE update[j \in 1..level] ==
             Walk(j, IF j = level THEN Header ELSE update[j + 1], passed)
<1>6. F(update, 1)
  <2> HIDE DEF update
  <2> QED
    BY <1>5 DEF update
<1>7. Update(passed) = update
  BY DEF Update
<1> QED
  <2> HIDE DEF update
  <2> QED
    BY <1>6, <1>7

\* Where the walk of a level starts.
Entry(passed, i) == IF i = level THEN Header ELSE Update(passed)[i + 1]

\* Each level is entered at a node that is on it, and left at another.
LEMMA UpdateHalts ==
  ASSUME Struct, NEW passed \in SUBSET Live, NEW i \in 1..level
  PROVE  On(Entry(passed, i), i) /\ Halts(Entry(passed, i), Update(passed)[i], i, passed)
<1>1. level \in Nat /\ level >= 1 /\ 1..level \subseteq Levels /\ level \in Levels
  BY BoundsAssumption DEF Struct, Levels
<1>2. \A j \in 1..level : On(Entry(passed, j), j) =>
        Halts(Entry(passed, j), Update(passed)[j], j, passed)
  BY <1>1, UpdateWalks, WalkHalts DEF Entry
<1> DEFINE S == {j \in 0..level : j # 0 /\ ~On(Entry(passed, j), j)}
<1>3. S = {}
  <2> SUFFICES ASSUME S # {} PROVE FALSE
    OBVIOUS
  <2>1. PICK j \in S : \A k \in S : k <= j
    <3>1. S \in SUBSET (0..level)
      OBVIOUS
    <3> HIDE DEF S
    <3> QED
      BY <1>1, <3>1, GreatestNatural
  <2>2. j # level
    BY DEF Entry, On
  <2>3. j + 1 \in 1..level /\ j \in 1..level /\ j + 1 \notin S
    BY <1>1, <2>1, <2>2
  <2>4. On(Entry(passed, j + 1), j + 1)
    BY <1>1, <2>3
  <2>5. On(Update(passed)[j + 1], j + 1)
    BY <1>2, <2>3, <2>4 DEF Halts
  <2>6. Tall(j + 1) \subseteq Tall(j)
    <3>1. \A n \in Live : node[n].height \in Nat
      BY StructParts
    <3> QED
      BY <1>1, <2>3, <3>1 DEF Tall
  <2>7. On(Entry(passed, j), j)
    BY <2>2, <2>5, <2>6 DEF Entry, On
  <2> QED
    BY <2>7
<1> QED
  BY <1>1, <1>2, <1>3

-----------------------------------------------------------------------------
(* Insertion.                                                              *)

\* Where the nodes passed are the first ones, the update of a level is the
\* last of them that is on it.
LEMMA Predecessors ==
  ASSUME Struct, NEW passed \in SUBSET Live,
         \A a \in Live, b \in passed : Precedes(a, b) => a \in passed,
         NEW i \in 1..level
  PROVE  /\ On(Update(passed)[i], i)
         /\ Update(passed)[i] = Header \/ Update(passed)[i] \in passed
         /\ \A o \in Tall(i) : o \in passed <=> ~Behind(Update(passed)[i], o)
<1> DEFINE u(j) == Update(passed)[j]
<1>1. level \in Nat /\ level >= 1 /\ 1..level \subseteq Levels
  BY BoundsAssumption DEF Struct, Levels
<1>2. \A j \in 1..level : On(Entry(passed, j), j) /\ Halts(Entry(passed, j), u(j), j, passed)
  BY UpdateHalts
<1> DEFINE S == {j \in 0..level : j # 0 /\ ~(u(j) = Header \/ u(j) \in passed)}
<1>3. S = {}
  <2> SUFFICES ASSUME S # {} PROVE FALSE
    OBVIOUS
  <2>1. PICK j \in S : \A k \in S : k <= j
    <3>1. S \in SUBSET (0..level)
      OBVIOUS
    <3> HIDE DEF S
    <3> QED
      BY <1>1, <3>1, GreatestNatural
  <2>2. j \in 1..level
    BY <1>1
  <2>3. Entry(passed, j) = Header \/ Entry(passed, j) \in passed
    <3>1. CASE j = level
      BY <3>1 DEF Entry
    <3>2. CASE j # level
      <4>1. j + 1 \in 1..level /\ j + 1 \notin S
        BY <1>1, <2>1, <2>2, <3>2
      <4>2. u(j + 1) = Header \/ u(j + 1) \in passed
        <5> HIDE DEF u
        <5> QED
          BY <1>1, <4>1
      <4> QED
        BY <3>2, <4>2 DEF Entry
    <3> QED
      BY <3>1, <3>2
  <2>4. u(j) = Entry(passed, j) \/ u(j) \in passed
    BY <1>2, <2>2 DEF Halts
  <2> QED
    BY <2>3, <2>4
<1>4. u(i) = Header \/ u(i) \in passed
  <2> HIDE DEF u
  <2> QED
    BY <1>1, <1>3
<1>5. Entry(passed, i) = Header \/ Entry(passed, i) \in passed
  <2>1. CASE i = level
    BY <2>1 DEF Entry
  <2>2. CASE i # level
    <3>1. i + 1 \in 1..level /\ i + 1 \notin S
      BY <1>1, <1>3, <2>2
    <3>2. u(i + 1) = Header \/ u(i + 1) \in passed
      <4> HIDE DEF u
      <4> QED
        BY <1>1, <3>1
    <3> QED
      BY <2>2, <3>2 DEF Entry
  <2> QED
    BY <2>1, <2>2
<1> DEFINE w == u(i)
<1> HIDE DEF u, S
<1>6. Halts(Entry(passed, i), w, i, passed) /\ On(w, i) /\ w \in {Header} \cup Live
  <2>1. Halts(Entry(passed, i), w, i, passed)
    BY <1>2
  <2> QED
    BY <1>4, <2>1 DEF Halts
<1> HIDE DEF w
<1>7. Tall(i) \subseteq Live
  BY DEF Tall
<1>8. ASSUME NEW o \in Tall(i), o \notin passed PROVE Behind(w, o)
  <2>1. Behind(Entry(passed, i), o)
    BY <1>5, <1>7, <1>8, BehindFacts
  <2> QED
    BY <1>6, <1>8, <2>1 DEF Halts
<1>9. ASSUME NEW o \in Tall(i), o \in passed, Behind(w, o) PROVE FALSE
  <2>1. Linked(w, i)
    BY <1>1, <1>6 DEF Struct
  <2>2. next[w][i] \in Tall(i) /\ (o = next[w][i] \/ Precedes(next[w][i], o))
    BY <1>9, <2>1 DEF Linked
  <2>3. next[w][i] \in passed
    BY <1>7, <1>9, <2>2
  <2> QED
    BY <1>6, <2>3 DEF Halts
<1> QED
  <2>1. On(w, i) /\ (w = Header \/ w \in passed)
    BY <1>4, <1>6 DEF w
  <2>2. \A o \in Tall(i) : o \in passed <=> ~Behind(w, o)
    BY <1>8, <1>9
  <2> QED
    BY <2>1, <2>2 DEF w, u

LEMMA SameStruct ==
  ASSUME Struct, UNCHANGED listVars
  PROVE  Struct'
<1> USE DEF listVars
<1>1. Live' = Live /\ \A i : Tall(i)' = Tall(i)
  BY DEF Live, Tall
<1>2. \A a, b : Precedes(a, b)' <=> Precedes(a, b)
  BY DEF Precedes
<1>3. \A n, i : On(n, i)' <=> On(n, i)
  BY <1>1 DEF On
<1>4. \A n, i : Linked(n, i)' <=> Linked(n, i)
  BY <1>1, <1>2 DEF Linked, Behind
<1> QED
  BY <1>1, <1>3, <1>4 DEF Struct

LEMMA InsertKeeps ==
  ASSUME Struct, NEW m \in Members, NEW s \in Scores, NEW h \in Levels,
         Live # Ids, Insert(m, s, h)
  PROVE  Struct'
<1> DEFINE P == {n \in Live : \/ node[n].score < s
                              \/ node[n].score = s /\ node[n].member < m}
           u == Update(P)
           found == next[u[1]][1]
           new == CHOOSE n \in Ids \ Live : \A o \in Ids \ Live : n <= o
           pred == [i \in 1..h |-> IF i <= level THEN u[i] ELSE Header]
           same == found \in Live /\ node[found].member = m /\ node[found].score = s
           fresh == [member |-> m, score |-> s, height |-> h]
<1>1. /\ level \in Nat /\ level >= 1 /\ level \in Levels /\ 1..level \subseteq Levels
      /\ 1 \in Levels /\ 1 \in 1..level /\ h \in Nat /\ h >= 1
      /\ m \in Nat /\ s \in Nat
  BY BoundsAssumption DEF Struct, Levels
<1>2. P \in SUBSET Live /\ \A a \in Live, b \in P : Precedes(a, b) => a \in P
  <2>1. \A a \in Live : node[a].member \in Nat /\ node[a].score \in Nat
    BY StructParts
  <2> QED
    BY <1>1, <2>1 DEF Precedes
<1>3. \A i \in 1..level :
         /\ On(u[i], i) /\ (u[i] = Header \/ u[i] \in P)
         /\ \A o \in Tall(i) : o \in P <=> ~Behind(u[i], o)
  <2> HIDE DEF P
  <2> QED
    BY <1>2, Predecessors
<1>4. \/ same /\ UNCHANGED listVars
      \/ /\ ~same
         /\ node' = [n \in Live \cup {new} |-> IF n = new THEN fresh ELSE node[n]]
         /\ next' = [n \in DOMAIN next |-> [i \in Levels |->
                       IF i > h THEN next[n][i]
                       ELSE IF n = new THEN next[pred[i]][i]
                       ELSE IF n = pred[i] THEN new ELSE next[n][i]]]
         /\ level' = (IF h > level THEN h ELSE level)
         /\ count' = count + 1
  <2>1. InsertBehind(P, m, s, h)
    BY DEF Insert
  <2> HIDE DEF P
  <2> QED
    BY <2>1 DEF InsertBehind, Link
<1>5. CASE same /\ UNCHANGED listVars
  BY <1>5, SameStruct
<1> HIDE DEF P, u, fresh
<1>6. ASSUME ~same,
             node' = [n \in Live \cup {new} |-> IF n = new THEN fresh ELSE node[n]],
             next' = [n \in DOMAIN next |-> [i \in Levels |->
                       IF i > h THEN next[n][i]
                       ELSE IF n = new THEN next[pred[i]][i]
                       ELSE IF n = pred[i] THEN new ELSE next[n][i]]],
             level' = (IF h > level THEN h ELSE level),
             count' = count + 1
      PROVE  Struct'
  <2> DEFINE F == Ids \ Live
  <2>a. F \in SUBSET Nat /\ F # {}
    <3>1. Live \subseteq Ids /\ \E n \in Ids : n \notin Live
      BY StructParts
    <3> QED
      BY <3>1 DEF Ids
  <2>b. \E n \in F : \A o \in F : n <= o
    <3> HIDE DEF F
    <3> QED
      BY <2>a, LeastNatural
  <2>c. new \in Ids /\ new \notin Live
    BY <2>b
  <2> HIDE DEF new
  <2>d. PICK k : k = new
    OBVIOUS
  <2>1. k \in Ids /\ k \notin Live
    BY <2>c, <2>d
  <2>2. \A i \in 1..h : /\ On(pred[i], i) /\ (pred[i] = Header \/ pred[i] \in P)
                        /\ \A o \in Tall(i) : o \in P <=> ~Behind(pred[i], o)
    <3> TAKE i \in 1..h
    <3>1. CASE i <= level
      BY <1>1, <1>3, <3>1
    <3>2. CASE i > level
      <4>1. pred[i] = Header
        BY <1>1, <3>2
      <4>2. Tall(i) = {}
        <5>1. \A n \in Live : node[n].height <= level /\ node[n].height \in Nat
          BY StructParts DEF Struct
        <5> QED
          BY <1>1, <3>2, <5>1 DEF Tall
      <4> QED
        BY <4>1, <4>2 DEF On
    <3> QED
      BY <1>1, <3>1, <3>2
  <2> HIDE DEF pred
  <2>3. \A a \in Live : ~(node[a].member = m /\ node[a].score = s)
    <3> SUFFICES ASSUME NEW a \in Live, node[a].member = m, node[a].score = s PROVE FALSE
      OBVIOUS
    <3>1. a \notin P /\ a \in Tall(1)
      BY <1>1, StructParts DEF P, Tall, Levels
    <3>2. Behind(u[1], a) /\ On(u[1], 1) /\ u[1] \in {Header} \cup Live
      BY <1>1, <1>2, <1>3, <3>1
    <3>3. Linked(u[1], 1)
      BY <1>1, <3>2 DEF Struct
    <3>4. found \in Tall(1) /\ Behind(u[1], found) /\ (a = found \/ Precedes(found, a))
      BY <3>1, <3>2, <3>3 DEF Linked
    <3>5. found \notin P /\ found \in Live
      BY <1>1, <1>3, <3>4 DEF Tall
    <3>6. ~Precedes(found, a)
      BY <3>5 DEF Precedes, P
    <3> QED
      BY <1>6, <3>4, <3>5, <3>6
  <2>4. /\ Live' = Live \cup {k} /\ node'[k] = fresh
        /\ \A a \in Live : node'[a] = node[a]
    BY <1>6, <2>1, <2>d DEF Live
  <2>5. /\ fresh \in Nodes /\ fresh.member = m /\ fresh.score = s /\ fresh.height = h
    BY DEF fresh, Nodes
  <2>6. /\ \A a, b \in Live : Precedes(a, b)' <=> Precedes(a, b)
        /\ \A a \in Live : Precedes(a, k)' <=> a \in P
        /\ \A a \in Live : Precedes(k, a)' <=> a \notin P
        /\ ~Precedes(k, k)'
    <3>1. \A a, b \in Live : Precedes(a, b)' <=> Precedes(a, b)
      BY <2>4 DEF Precedes
    <3>2. \A a \in Live : Precedes(a, k)' <=> a \in P
      BY <2>4, <2>5 DEF Precedes, P
    <3>3. \A a \in Live : node[a].member \in Nat /\ node[a].score \in Nat
      BY StructParts
    <3>4. \A a \in Live : Precedes(k, a)' <=> a \notin P
      BY <1>1, <2>3, <2>4, <2>5, <3>3 DEF Precedes, P
    <3>5. ~Precedes(k, k)'
      BY <1>1, <2>4, <2>5 DEF Precedes
    <3> QED
      BY <3>1, <3>2, <3>4, <3>5
  <2>7. /\ \A i \in Levels : i <= h => Tall(i)' = Tall(i) \cup {k}
        /\ \A i \in Levels : i > h => Tall(i)' = Tall(i)
        /\ \A i \in Levels : Tall(i) \subseteq Live
    <3>1. \A i \in Levels : i \in Nat
      BY BoundsAssumption DEF Levels
    <3> QED
      BY <1>1, <2>1, <2>4, <2>5, <3>1 DEF Tall
  <2>8. /\ next \in [{Header} \cup Ids -> [Levels -> Ids \cup {Nil}]]
        /\ DOMAIN next = {Header} \cup Ids
        /\ Live \subseteq Ids /\ Header \notin Ids /\ Nil \notin Ids /\ Header # k
    BY <2>1, StructParts DEF Struct
  <2>9. \A n \in {Header} \cup Ids, i \in Levels : next'[n][i] =
          (IF i > h THEN next[n][i]
           ELSE IF n = k THEN next[pred[i]][i]
           ELSE IF n = pred[i] THEN k ELSE next[n][i])
    BY <1>6, <2>d, <2>8
  <2>10. \A i \in 1..h : i \in Levels /\ i <= h /\ ~(i > h) /\ pred[i] \in {Header} \cup Live
    BY <1>1, <1>2, <2>2, BoundsAssumption DEF Levels
  <2>11. next' \in [{Header} \cup Ids -> [Levels -> Ids \cup {Nil}]]
    <3>1. \A n \in {Header} \cup Ids, i \in Levels : next'[n][i] \in Ids \cup {Nil}
      <4> TAKE n \in {Header} \cup Ids, i \in Levels
      <4>1. next[n][i] \in Ids \cup {Nil}
        BY <2>8
      <4>2. CASE i > h
        BY <2>9, <4>1, <4>2
      <4>3. CASE ~(i > h)
        <5>1. i \in 1..h
          BY <1>1, <4>3 DEF Levels
        <5>2. next[pred[i]][i] \in Ids \cup {Nil}
          BY <2>8, <2>10, <5>1
        <5> QED
          BY <2>1, <2>9, <4>1, <4>3, <5>2
      <4> QED
        BY <4>2, <4>3
    <3>2. next' = [n \in {Header} \cup Ids |-> [i \in Levels |-> next'[n][i]]]
      BY <1>6, <2>8
    <3> QED
      BY <3>1, <3>2
  <2>12. \A a, b \in Live' :
           node'[a].member = node'[b].member /\ node'[a].score = node'[b].score => a = b
    <3>1. \A a, b \in Live :
            node[a].member = node[b].member /\ node[a].score = node[b].score => a = b
      BY DEF Struct
    <3> QED
      BY <2>3, <2>4, <2>5, <3>1
  <2>13. \A n \in Ids, i \in Levels : n \notin Tall(i)' => next'[n][i] = Nil
    <3> SUFFICES ASSUME NEW n \in Ids, NEW i \in Levels, n \notin Tall(i)'
                 PROVE  next'[n][i] = Nil
      OBVIOUS
    <3>1. n \notin Tall(i)
      BY <1>1, <2>7 DEF Levels
    <3>2. next[n][i] = Nil
      BY <3>1 DEF Struct
    <3>3. CASE i > h
      BY <2>9, <3>2, <3>3
    <3>4. CASE ~(i > h)
      <4>1. i \in 1..h /\ i <= h
        BY <1>1, <3>4 DEF Levels
      <4>2. n # k
        BY <2>7, <4>1
      <4>3. n # pred[i]
        BY <2>2, <2>8, <3>1, <4>1 DEF On
      <4> QED
        BY <2>9, <3>2, <3>4, <4>2, <4>3
    <3> QED
      BY <3>3, <3>4
  <2>14. ASSUME NEW n \in {Header} \cup Live', NEW i \in Levels, On(n, i)'
         PROVE  Linked(n, i)'
    <3>1. n = Header \/ n \in Tall(i)'
      BY <2>14 DEF On
    <3>2. CASE i > h
      <4>1. Tall(i)' = Tall(i) /\ Tall(i) \subseteq Live
        BY <2>7, <3>2
      <4>2. n \in {Header} \cup Live /\ On(n, i)
        BY <3>1, <4>1 DEF On
      <4>3. next'[n][i] = next[n][i]
        BY <2>8, <2>9, <3>2, <4>2
      <4>4. Linked(n, i)
        BY <4>2 DEF Struct
      <4>5. \A o \in Tall(i) : Behind(n, o)' <=> Behind(n, o)
        BY <2>6, <4>1, <4>2 DEF Behind
      <4> QED
        BY <2>6, <4>1, <4>3, <4>4, <4>5 DEF Linked
    <3>3. CASE ~(i > h)
      <4> DEFINE p == pred[i]
      <4>1. i \in 1..h /\ i <= h
        BY <1>1, <3>3 DEF Levels
      <4>2. Tall(i)' = Tall(i) \cup {k} /\ Tall(i) \subseteq Live
        BY <2>7, <4>1
      <4>3. /\ On(p, i) /\ (p = Header \/ p \in P) /\ p \in {Header} \cup Live
            /\ \A o \in Tall(i) : o \in P <=> ~Behind(p, o)
        BY <2>2, <2>10, <4>1
      <4>4. Linked(p, i)
        BY <4>3 DEF Struct
      <4>5. /\ next'[k][i] = next[p][i]
            /\ next'[p][i] = k
            /\ n # k /\ n # p => next'[n][i] = next[n][i]
        BY <2>1, <2>4, <2>8, <2>9, <3>3, <4>3
      <4> HIDE DEF p
      <4>y. PICK y : y = next[p][i]
        OBVIOUS
      <4>x. PICK x : x = next[n][i]
        OBVIOUS
      <4>6. CASE n = p
        <5>1. Behind(n, k)'
          BY <2>6, <1>2, <4>3, <4>6 DEF Behind
        <5>2. \A o \in Tall(i) : Behind(n, o)' <=> Behind(n, o)
          BY <2>6, <4>2, <4>3, <4>6 DEF Behind
        <5>3. \A o \in Tall(i)' : Behind(n, o)' => o = k \/ Precedes(k, o)'
          BY <2>6, <4>2, <4>3, <4>6, <5>2
        <5> QED
          BY <4>2, <4>5, <4>6, <5>1, <5>3 DEF Linked
      <4>7. CASE n = k
        <5>1. \A o \in Tall(i) : Behind(n, o)' <=> Behind(p, o)
          BY <2>6, <2>8, <4>2, <4>3, <4>7 DEF Behind
        <5>2. ~Behind(n, k)'
          BY <2>6, <2>8, <4>7 DEF Behind
        <5>3. y \in Live => y # Nil
          BY <2>8, <4>y
        <5>4. CASE y = Nil /\ \A o \in Tall(i) : ~Behind(p, o)
          BY <4>2, <4>5, <4>7, <4>y, <5>1, <5>2, <5>4 DEF Linked
        <5>5. CASE /\ y \in Tall(i) /\ Behind(p, y)
                   /\ \A o \in Tall(i) : Behind(p, o) =>
                        o = y \/ Precedes(y, o)
          BY <2>6, <4>2, <4>5, <4>7, <4>y, <5>1, <5>2, <5>5 DEF Linked
        <5> QED
          BY <4>4, <4>y, <5>4, <5>5 DEF Linked
      <4>8. CASE n # k /\ n # p
        <5>1. n \in {Header} \cup Live /\ On(n, i)
          BY <3>1, <4>2, <4>8 DEF On
        <5>2. Linked(n, i)
          BY <5>1 DEF Struct
        <5>3. \A o \in Tall(i) : Behind(n, o)' <=> Behind(n, o)
          BY <2>6, <4>2, <5>1 DEF Behind
        <5>4. Behind(n, k)' => p \in Tall(i) /\ Behind(n, p) /\ p \in P
          <6>1. CASE n = Header
            BY <4>3, <4>8, <6>1 DEF On, Behind
          <6>2. CASE n \in Tall(i) /\ n # Header
            <7> SUFFICES ASSUME Behind(n, k)' PROVE p \in Tall(i) /\ Behind(n, p) /\ p \in P
              OBVIOUS
            <7>1. n \in P /\ n \in Live
              BY <2>6, <4>2, <6>2 DEF Behind
            <7>2. ~Behind(p, n)
              BY <4>3, <6>2, <7>1
            <7>3. p # Header /\ p \in Live /\ Precedes(n, p)
              BY <4>3, <4>8, <7>1, <7>2, BehindFacts DEF Behind
            <7> QED
              BY <4>3, <7>3 DEF On, Behind
          <6> QED
            BY <5>1, <6>1, <6>2 DEF On
        <5>5. CASE x = Nil /\ \A o \in Tall(i) : ~Behind(n, o)
          BY <4>2, <4>5, <4>8, <4>x, <5>3, <5>4, <5>5 DEF Linked
        <5>6. CASE /\ x \in Tall(i) /\ Behind(n, x)
                   /\ \A o \in Tall(i) : Behind(n, o) =>
                        o = x \/ Precedes(x, o)
          <6>1. Behind(n, k)' => x \in P
            BY <1>2, <4>2, <5>4, <5>6
          <6>2. Behind(n, k)' => Precedes(x, k)'
            BY <2>6, <4>2, <5>6, <6>1
          <6>3. \A o \in Tall(i) : Behind(n, o)' =>
                  o = x \/ Precedes(x, o)'
            BY <2>6, <4>2, <5>3, <5>6
          <6>4. Behind(n, x)'
            BY <5>3, <5>6
          <6> QED
            BY <4>2, <4>5, <4>8, <4>x, <5>6, <6>2, <6>3, <6>4 DEF Linked
        <5> QED
          BY <4>x, <5>2, <5>5, <5>6 DEF Linked
      <4> QED
        BY <4>6, <4>7, <4>8
    <3> QED
      BY <3>2, <3>3
  <2>15. level' \in Levels /\ \A n \in Live' : node'[n].height <= level'
    <3>1. \A n \in Live : node[n].height <= level /\ node[n].height \in Nat
      BY StructParts DEF Struct
    <3> QED
      BY <1>1, <1>6, <2>4, <2>5, <3>1
  <2>16. count' = Cardinality(Live')
    <3>1. count = Cardinality(Live) /\ IsFiniteSet(Live)
      BY StructParts DEF Struct
    <3>2. Cardinality(Live \cup {k}) = Cardinality(Live) + 1
      BY <2>1, <3>1, FS_AddElement
    <3> QED
      BY <1>6, <2>4, <3>1, <3>2
  <2>17. Live' \subseteq Ids /\ node' \in [Live' -> Nodes]
    <3>1. \A n \in Live' : node'[n] \in Nodes
      BY <2>4, <2>5, StructParts
    <3>2. node' = [n \in Live' |-> node'[n]]
      BY <1>6, <2>d, <2>4
    <3> QED
      BY <2>1, <2>4, <2>8, <3>1, <3>2
  <2> QED
    BY <2>11, <2>12, <2>13, <2>14, <2>15, <2>16, <2>17 DEF Struct
<1> QED
  BY <1>4, <1>5, <1>6

-----------------------------------------------------------------------------
(* The nodes by position.                                                  *)

\* The number of nodes that do not stand behind n.
Pos(n) == Cardinality({o \in Live : ~Behind(n, o)})

\* Each position has one node, and the lowest links count them.
LEMMA Positions ==
  ASSUME Struct
  PROVE  /\ count \in Nat /\ Pos(Header) = 0
         /\ \A n \in Live : Pos(n) \in 1..count
         /\ \A a, b \in Live : Precedes(a, b) <=> Pos(a) < Pos(b)
         /\ \A n \in {Header} \cup Live :
              \/ next[n][1] = Nil /\ Pos(n) = count
              \/ next[n][1] \in Live /\ Pos(next[n][1]) = Pos(n) + 1
         /\ \A k \in 1..count : \E n \in Live : Pos(n) = k
<1> DEFINE B(n) == {o \in Live : ~Behind(n, o)}
<1>1. /\ IsFiniteSet(Live) /\ Header \notin Live /\ Nil \notin Live /\ 1 \in Levels
      /\ count \in Nat /\ count = Cardinality(Live) /\ Live \subseteq Ids
  BY StructParts, BoundsAssumption DEF Struct, Levels
<1>2. \A n : IsFiniteSet(B(n)) /\ Pos(n) \in Nat /\ Pos(n) <= count
  <2> TAKE n
  <2>1. B(n) \in SUBSET Live
    OBVIOUS
  <2>2. IsFiniteSet(B(n)) /\ Cardinality(B(n)) <= count
    <3> HIDE DEF B
    <3> QED
      BY <1>1, <2>1, FS_Subset
  <2>3. Cardinality(B(n)) \in Nat
    <3> HIDE DEF B
    <3> QED
      BY <2>2, FS_CardinalityType
  <2> QED
    BY <2>2, <2>3 DEF Pos
<1>3. Pos(Header) = 0
  <2>1. B(Header) = {}
    BY DEF Behind
  <2> QED
    BY <2>1, FS_EmptySet DEF Pos
<1>4. \A n \in Live : \A o \in Live : o \in B(n) <=> o = n \/ Precedes(o, n)
  BY <1>1, Order DEF Behind
<1>5. \A n \in Live : Pos(n) \in 1..count
  <2> TAKE n \in Live
  <2>1. n \in B(n)
    BY <1>4
  <2>2. Cardinality(B(n)) # 0
    <3> HIDE DEF B
    <3> QED
      BY <1>2, <2>1, FS_EmptySet
  <2> QED
    BY <1>1, <1>2, <2>2 DEF Pos
<1>6. \A a, b \in Live : Precedes(a, b) => Pos(a) < Pos(b)
  <2> SUFFICES ASSUME NEW a \in Live, NEW b \in Live, Precedes(a, b) PROVE Pos(a) < Pos(b)
    OBVIOUS
  <2>1. B(a) \in SUBSET B(b) /\ b \in B(b) /\ b \notin B(a)
    BY <1>4, Order
  <2>2. Cardinality(B(a)) <= Cardinality(B(b)) /\ Cardinality(B(a)) # Cardinality(B(b))
    <3> HIDE DEF B
    <3> QED
      BY <1>2, <2>1, FS_Subset
  <2> QED
    BY <1>2, <2>2 DEF Pos
<1>7. \A a, b \in Live : Precedes(a, b) <=> Pos(a) < Pos(b)
  <2>1. \A a, b \in Live : a = b \/ Precedes(a, b) \/ Precedes(b, a)
    BY Order
  <2>2. \A a \in Live : Pos(a) \in Nat
    BY <1>2
  <2> QED
    BY <1>6, <2>1, <2>2
<1>8. \A n \in {Header} \cup Live :
        \/ next[n][1] = Nil /\ Pos(n) = count
        \/ next[n][1] \in Live /\ Pos(next[n][1]) = Pos(n) + 1
  <2> TAKE n \in {Header} \cup Live
  <2>1. Tall(1) = Live
    <3>1. \A a \in Live : node[a].height >= 1
      BY StructParts, BoundsAssumption DEF Levels
    <3> QED
      BY <3>1 DEF Tall
  <2>2. On(n, 1) /\ Linked(n, 1)
    BY <1>1, <2>1 DEF On, Struct
  <2>3. CASE next[n][1] = Nil /\ \A o \in Live : ~Behind(n, o)
    <3>1. B(n) = Live
      BY <2>3
    <3> QED
      BY <1>1, <2>3, <3>1 DEF Pos
  <2>4. CASE /\ next[n][1] \in Live /\ Behind(n, next[n][1])
             /\ \A o \in Live : Behind(n, o) => o = next[n][1] \/ Precedes(next[n][1], o)
    <3> DEFINE x == next[n][1]
    <3>1. x \notin B(n)
      BY <2>4
    <3>2. B(x) = B(n) \cup {x}
      <4>1. \A o \in Live : o \in B(x) => o = x \/ o \in B(n)
        BY <1>4, <2>4, Order
      <4>2. \A o \in Live : o \in B(n) => o \in B(x)
        BY <1>1, <1>4, <2>4, BehindFacts
      <4>3. x \in B(x)
        BY <1>4, <2>4
      <4> HIDE DEF x
      <4> QED
        BY <4>1, <4>2, <4>3, <2>4 DEF x
    <3>3. Cardinality(B(n) \cup {x}) = Cardinality(B(n)) + 1
      <4> HIDE DEF B, x
      <4> QED
        BY <1>2, <3>1, FS_AddElement
    <3> QED
      BY <2>4, <3>2, <3>3 DEF Pos
  <2> QED
    BY <2>1, <2>2, <2>3, <2>4 DEF Linked
<1>9. \A k \in 1..count : \E n \in Live : Pos(n) = k
  <2> DEFINE S == {k \in 1..count : ~\E n \in Live : Pos(n) = k}
  <2> SUFFICES ASSUME S # {} PROVE FALSE
    OBVIOUS
  <2>1. PICK k \in S : \A l \in S : k <= l
    <3>1. S \in SUBSET Nat
      BY <1>1
    <3> HIDE DEF S
    <3> QED
      BY <3>1, LeastNatural
  <2>2. k \in 1..count /\ \A n \in Live : Pos(n) # k
    OBVIOUS
  <2>3. \E n \in {Header} \cup Live : Pos(n) = k - 1
    <3>1. CASE k = 1
      BY <1>3, <3>1
    <3>2. CASE k # 1
      <4>1. k - 1 \in 1..count /\ k - 1 \notin S
        BY <1>1, <2>1, <2>2, <3>2
      <4> QED
        BY <4>1
    <3> QED
      BY <3>1, <3>2
  <2>4. PICK n \in {Header} \cup Live : Pos(n) = k - 1
    BY <2>3
  <2>5. Pos(n) # count
    BY <1>1, <2>2, <2>4
  <2>6. next[n][1] \in Live /\ Pos(next[n][1]) = k
    BY <1>8, <1>1, <2>2, <2>4, <2>5
  <2> QED
    BY <2>2, <2>6
<1> QED
  BY <1>1, <1>3, <1>5, <1>7, <1>8, <1>9

\* The nodes in their order.
Row == [k \in 1..count |-> CHOOSE n \in Live : Pos(n) = k]

LEMMA RowFacts ==
  ASSUME Struct
  PROVE  /\ count \in Nat /\ Row \in [1..count -> Live]
         /\ \A k \in 1..count : Row[k] \in Live /\ Pos(Row[k]) = k
         /\ \A n \in Live : Pos(n) \in 1..count /\ Row[Pos(n)] = n
         /\ \A i, j \in 1..count : Precedes(Row[i], Row[j]) <=> i < j
<1>1. count \in Nat /\ \A k \in 1..count : \E n \in Live : Pos(n) = k
  BY Positions
<1>2. \A k \in 1..count : Row[k] \in Live /\ Pos(Row[k]) = k
  BY <1>1 DEF Row
<1>3. Row \in [1..count -> Live]
  BY <1>2 DEF Row
<1>4. \A a, b \in Live : Precedes(a, b) <=> Pos(a) < Pos(b)
  BY Positions
<1>5. \A n \in Live : Pos(n) \in 1..count /\ Row[Pos(n)] = n
  <2> TAKE n \in Live
  <2>1. Pos(n) \in 1..count
    BY Positions
  <2>2. Row[Pos(n)] \in Live /\ Pos(Row[Pos(n)]) = Pos(n)
    BY <1>2, <2>1
  <2>3. ~Precedes(n, Row[Pos(n)]) /\ ~Precedes(Row[Pos(n)], n)
    BY <1>4, <2>1, <2>2
  <2> QED
    BY <2>1, <2>2, <2>3, Order
<1> QED
  BY <1>1, <1>2, <1>3, <1>4, <1>5

\* There is one order.
LEMMA SortedIsRow ==
  ASSUME Struct
  PROVE  Sorted = Row
<1> DEFINE Up(s) == \A i, j \in 1..count : i < j => Precedes(s[i], s[j])
<1>1. count \in Nat /\ Cardinality(Live) = count
  BY Positions DEF Struct
<1>2. Sorted = CHOOSE s \in [1..count -> Live] : Up(s)
  BY <1>1 DEF Sorted
<1>3. Row \in [1..count -> Live] /\ Up(Row)
  BY RowFacts
<1>4. ASSUME NEW s \in [1..count -> Live], Up(s) PROVE s = Row
  <2>1. \A k \in 1..count : s[k] \in Live /\ Pos(s[k]) \in 1..count
    BY Positions
  <2>2. \A i, j \in 1..count : i < j => Pos(s[i]) < Pos(s[j])
    BY <1>4, <2>1, Positions
  <2>a. \A k \in 1..count : Pos(s[k]) \in Nat /\ k \in Nat
    BY <1>1, <2>1
  <2>3. \A k \in 1..count : Pos(s[k]) >= k
    <3> DEFINE S == {k \in 1..count : Pos(s[k]) < k}
    <3>1. S = {}
      <4> SUFFICES ASSUME S # {} PROVE FALSE
        OBVIOUS
      <4>1. PICK k \in S : \A l \in S : k <= l
        <5>1. S \in SUBSET Nat
          BY <1>1
        <5> HIDE DEF S
        <5> QED
          BY <5>1, LeastNatural
      <4>2. k - 1 \in 1..count /\ k - 1 \notin S
        BY <1>1, <2>1, <4>1
      <4> QED
        BY <1>1, <2>1, <2>2, <4>1, <4>2
    <3> SUFFICES ASSUME NEW k \in 1..count PROVE Pos(s[k]) >= k
      OBVIOUS
    <3>2. ~(Pos(s[k]) < k)
      BY <3>1
    <3> HIDE DEF S
    <3> QED
      BY <2>a, <3>2
  <2>4. \A k \in 1..count : Pos(s[k]) <= k
    <3> DEFINE S == {k \in 0..count : k # 0 /\ Pos(s[k]) > k}
    <3>1. S = {}
      <4> SUFFICES ASSUME S # {} PROVE FALSE
        OBVIOUS
      <4>1. PICK k \in S : \A l \in S : l <= k
        <5>1. S \in SUBSET (0..count)
          OBVIOUS
        <5> HIDE DEF S
        <5> QED
          BY <1>1, <5>1, GreatestNatural
      <4>2. k \in 1..count /\ k + 1 \in 1..count /\ k + 1 \notin S
        BY <1>1, <2>1, <4>1
      <4>3. Pos(s[k]) > k /\ Pos(s[k + 1]) <= k + 1
        BY <1>1, <2>1, <4>2
      <4>4. Pos(s[k]) < Pos(s[k + 1])
        <5>1. k < k + 1
          BY <4>2
        <5> HIDE DEF S
        <5> QED
          BY <2>2, <4>2, <5>1
      <4>5. Pos(s[k]) \in Nat /\ Pos(s[k + 1]) \in Nat /\ k \in Nat
        BY <2>a, <4>2
      <4> HIDE DEF S
      <4> QED
        BY <4>3, <4>4, <4>5
    <3> SUFFICES ASSUME NEW k \in 1..count PROVE Pos(s[k]) <= k
      OBVIOUS
    <3>2. k \in 0..count /\ k # 0
      BY <1>1
    <3>3. ~(Pos(s[k]) > k)
      BY <3>1, <3>2
    <3> HIDE DEF S
    <3> QED
      BY <2>a, <3>3
  <2>5. \A k \in 1..count : s[k] = Row[k]
    <3> TAKE k \in 1..count
    <3>1. Pos(s[k]) = k
      BY <1>1, <2>1, <2>3, <2>4
    <3> QED
      BY <2>1, <3>1, RowFacts
  <2>6. s = [k \in 1..count |-> s[k]] /\ Row = [k \in 1..count |-> Row[k]]
    BY <1>3
  <2> QED
    BY <2>5, <2>6
<1> HIDE DEF Up
<1> QED
  BY <1>2, <1>3, <1>4

\* The nodes from a position on.
RowFrom(p) == [k \in 1..(count - p) |-> Row[k + p]]

LEMMA RowFromFacts ==
  ASSUME Struct
  PROVE  /\ RowFrom(count) = <<>> /\ RowFrom(0) = Row
         /\ \A p \in 0..count : RowFrom(p) \in Seq(Live)
         /\ \A p \in 0..count : p # count => <<Row[p + 1]>> \o RowFrom(p + 1) = RowFrom(p)
<1>1. count \in Nat /\ Row \in [1..count -> Live]
  BY RowFacts
<1>2. \A p \in 0..count : RowFrom(p) \in [1..(count - p) -> Live]
  BY <1>1 DEF RowFrom
<1>3. \A p \in 0..count : count - p \in Nat
  BY <1>1
<1>4. \A p \in 0..count : RowFrom(p) \in Seq(Live) /\ Len(RowFrom(p)) = count - p
  <2> TAKE p \in 0..count
  <2>1. DOMAIN RowFrom(p) = 1..(count - p)
    BY <1>2
  <2> QED
    BY <1>2, <1>3, <2>1
<1>5. RowFrom(0) = Row
  BY <1>1 DEF RowFrom
<1>6. RowFrom(count) = <<>>
  BY <1>1, <1>4
<1>7. ASSUME NEW p \in 0..count, p # count
      PROVE  <<Row[p + 1]>> \o RowFrom(p + 1) = RowFrom(p)
  <2> DEFINE r == <<Row[p + 1]>> \o RowFrom(p + 1)
  <2>1. p + 1 \in 0..count /\ p + 1 \in 1..count
    BY <1>1, <1>7
  <2>2. RowFrom(p + 1) \in Seq(Live) /\ Len(RowFrom(p + 1)) = count - (p + 1)
    BY <1>4, <2>1
  <2>3. <<Row[p + 1]>> \in Seq(Live)
    BY <1>1, <2>1
  <2>4. r \in Seq(Live) /\ Len(r) = count - p
    BY <1>1, <2>1, <2>2, <2>3
  <2>5. \A k \in 1..(count - p) : r[k] = RowFrom(p)[k]
    <3> TAKE k \in 1..(count - p)
    <3>1. RowFrom(p)[k] = Row[k + p]
      BY DEF RowFrom
    <3>2. CASE k = 1
      <4>1. r[1] = Row[p + 1]
        BY <2>2, <2>3
      <4> QED
        BY <3>1, <3>2, <4>1, <1>1, <2>1
    <3>3. CASE k # 1
      <4>1. k - 1 \in 1..(count - (p + 1))
        BY <1>1, <2>1, <3>3
      <4>2. r[k] = RowFrom(p + 1)[k - 1]
        BY <1>1, <2>1, <2>2, <2>3, <4>1
      <4>3. RowFrom(p + 1)[k - 1] = Row[(k - 1) + (p + 1)]
        BY <4>1 DEF RowFrom
      <4>4. (k - 1) + (p + 1) = k + p
        BY <1>1, <2>1
      <4> QED
        BY <3>1, <4>2, <4>3, <4>4
    <3> QED
      BY <3>2, <3>3
  <2> HIDE DEF r
  <2> QED
    BY <1>4, <2>4, <2>5 DEF r
<1> QED
  BY <1>4, <1>5, <1>6, <1>7

\* The list is the row of the nodes.
LEMMA ChainIsRow ==
  ASSUME Struct
  PROVE  Chain = Row
<1> DEFINE D == {Header} \cup Ids \cup {Nil}
           Eq(g) == g = [n \in D |-> IF n = Nil THEN <<>> ELSE <<n>> \o g[next[n][1]]]
           value(n) == <<n>> \o RowFrom(Pos(n))
           f == [n \in D |-> IF n = Nil THEN <<>>
                             ELSE IF n \in Ids \ Live THEN <<n>> ELSE value(n)]
           from[n \in D] == IF n = Nil THEN <<>> ELSE <<n>> \o from[next[n][1]]
<1>1. /\ count \in Nat /\ Live \subseteq Ids /\ Header \notin Ids /\ Nil \notin Ids
      /\ Header # Nil /\ Header \notin Live /\ 1 \in Levels
  BY StructParts, BoundsAssumption DEF Struct, Levels
<1>2. \A n \in Ids \ Live : next[n][1] = Nil
  BY <1>1 DEF Struct, Tall
<1>3. \A n \in {Header} \cup Live : Pos(n) \in 0..count
  BY <1>1, Positions
<1>4. ASSUME NEW n \in {Header} \cup Live, next[n][1] # Nil
      PROVE  next[n][1] \in Live /\ value(next[n][1]) = RowFrom(Pos(n))
  <2> DEFINE x == next[n][1]
  <2>1. x \in Live /\ Pos(x) = Pos(n) + 1
    BY <1>4, Positions
  <2>2. Pos(x) \in 1..count /\ Row[Pos(x)] = x
    BY <2>1, RowFacts
  <2>3. Pos(n) \in 0..count /\ Pos(n) # count
    BY <1>1, <1>3, <2>1, <2>2
  <2>4. <<Row[Pos(n) + 1]>> \o RowFrom(Pos(n) + 1) = RowFrom(Pos(n))
    BY <2>3, RowFromFacts
  <2> QED
    BY <2>1, <2>2, <2>4
<1>5. \A n \in {Header} \cup Live : next[n][1] = Nil => RowFrom(Pos(n)) = <<>>
  <2> TAKE n \in {Header} \cup Live
  <2> HAVE next[n][1] = Nil
  <2>1. Pos(n) = count
    BY <1>1, Positions, StructParts
  <2> QED
    BY <2>1, RowFromFacts
<1> HIDE DEF value
<1>6. Eq(f)
  <2>1. ASSUME NEW n \in D, n # Nil
        PROVE  f[n] = <<n>> \o f[next[n][1]]
    <3>1. f[Nil] = <<>>
      OBVIOUS
    <3>2. CASE n \in Ids \ Live
      <4>1. f[n] = <<n>>
        BY <2>1, <3>2
      <4>2. <<n>> \o <<>> = <<n>>
        <5>1. <<n>> \in Seq({n})
          OBVIOUS
        <5> QED
          BY <5>1
      <4> HIDE DEF f
      <4> QED
        BY <1>2, <3>1, <3>2, <4>1, <4>2
    <3>3. CASE n \in {Header} \cup Live
      <4>1. f[n] = <<n>> \o RowFrom(Pos(n))
        BY <1>1, <2>1, <3>3 DEF value
      <4>2. CASE next[n][1] = Nil
        <5> HIDE DEF f
        <5> QED
          BY <1>5, <3>1, <3>3, <4>1, <4>2
      <4>3. CASE next[n][1] # Nil
        <5>1. next[n][1] \in Live /\ value(next[n][1]) = RowFrom(Pos(n))
          BY <1>4, <3>3, <4>3
        <5>2. f[next[n][1]] = value(next[n][1])
          BY <1>1, <5>1
        <5> HIDE DEF f
        <5> QED
          BY <4>1, <5>1, <5>2
      <4> QED
        BY <4>2, <4>3
    <3> QED
      BY <2>1, <3>2, <3>3
  <2>2. f = [n \in D |-> f[n]] /\ f[Nil] = <<>>
    OBVIOUS
  <2> HIDE DEF f
  <2> QED
    BY <2>1, <2>2
<1>7. Eq(from)
  <2> HIDE DEF from, f
  <2>1. \E g : Eq(g)
    BY <1>6
  <2> QED
    BY <2>1 DEF from
<1> HIDE DEF from, f
<1>8. \A n \in D : n # Nil => from[n] = <<n>> \o from[next[n][1]]
  BY <1>7
<1>9. from[Nil] = <<>>
  BY <1>7
<1>10. ASSUME NEW n \in {Header} \cup Live,
              next[n][1] # Nil => from[next[n][1]] = value(next[n][1])
       PROVE  from[n] = value(n)
  <2>1. n \in D /\ n # Nil
    BY <1>1
  <2>2. from[next[n][1]] = RowFrom(Pos(n))
    BY <1>4, <1>5, <1>9, <1>10
  <2> QED
    BY <1>8, <2>1, <2>2 DEF value
<1>11. \A n \in Live : from[n] = value(n)
  <2> DEFINE S == {n \in Live : from[n] # value(n)}
  <2> SUFFICES ASSUME S # {} PROVE FALSE
    OBVIOUS
  <2>1. PICK n \in S : \A o \in S : n = o \/ Precedes(o, n)
    <3>1. S \in SUBSET Live
      OBVIOUS
    <3> HIDE DEF S
    <3> QED
      BY <3>1, LastNode
  <2>2. n \in Live
    OBVIOUS
  <2>3. ASSUME next[n][1] # Nil PROVE from[next[n][1]] = value(next[n][1])
    <3>1. next[n][1] \in Live /\ Precedes(n, next[n][1])
      BY <1>1, <1>4, <2>2, <2>3, StepFacts, BehindFacts
    <3> QED
      BY <2>1, <2>2, <3>1, Order
  <2> QED
    BY <1>10, <2>1, <2>2, <2>3
<1>12. from[Header] = <<Header>> \o Row
  <2>1. from[Header] = value(Header)
    BY <1>4, <1>10, <1>11
  <2> QED
    BY <2>1, Positions, RowFromFacts DEF value
<1>13. Tail(<<Header>> \o Row) = Row
  <2>1. Row \in Seq(Live \cup {Header}) /\ <<Header>> \in Seq(Live \cup {Header}) /\ Len(Row) = count
    BY <1>1, RowFacts
  <2> DEFINE r == <<Header>> \o Row
  <2>2. r \in Seq(Live \cup {Header}) /\ Len(r) = count + 1
    BY <1>1, <2>1
  <2>3. \A k \in 1..count : r[k + 1] = Row[k]
    BY <1>1, <2>1
  <2> HIDE DEF r
  <2>4. Tail(r) \in Seq(Live \cup {Header}) /\ Len(Tail(r)) = count /\ r # <<>>
    BY <1>1, <2>2
  <2>5. \A k \in 1..count : Tail(r)[k] = r[k + 1]
    BY <1>1, <2>2, <2>4
  <2> QED
    BY <1>1, <2>1, <2>3, <2>4, <2>5 DEF r
<1>14. Chain = Tail(from[Header])
  BY DEF Chain, Link, from
<1> QED
  BY <1>12, <1>13, <1>14

-----------------------------------------------------------------------------
(* What the searches find.                                                 *)

LEMMA PositionFacts ==
  ASSUME Struct, NEW m
  PROVE  \/ /\ PositionOf(m) = 0
            /\ \A n \in Live : node[n].member # m
         \/ /\ PositionOf(m) \in 1..count
            /\ node[Row[PositionOf(m)]].member = m
            /\ \A k \in 1..count : node[Row[k]].member = m => PositionOf(m) <= k
<1> DEFINE S == {k \in 1..count : node[Row[k]].member = m}
<1>1. count \in Nat /\ Row \in [1..count -> Live] /\ Chain = Row
  BY RowFacts, ChainIsRow
<1>2. PositionOf(m) = IF S = {} THEN 0 ELSE CHOOSE k \in S : \A l \in S : k <= l
  BY <1>1 DEF PositionOf
<1>3. CASE S = {}
  <2>1. \A n \in Live : node[n].member # m
    <3> TAKE n \in Live
    <3>1. Pos(n) \in 1..count /\ Row[Pos(n)] = n
      BY RowFacts
    <3> QED
      BY <1>3, <3>1
  <2> QED
    BY <1>2, <1>3, <2>1
<1>4. CASE S # {}
  <2>1. S \in SUBSET Nat
    BY <1>1
  <2>2. \E k \in S : \A l \in S : k <= l
    <3> HIDE DEF S
    <3> QED
      BY <1>4, <2>1, LeastNatural
  <2>3. PositionOf(m) \in S /\ \A l \in S : PositionOf(m) <= l
    <3> HIDE DEF S
    <3> QED
      BY <1>2, <1>4, <2>2
  <2> QED
    BY <2>3
<1> QED
  BY <1>3, <1>4

\* A range of positions from either end.
LEMMA SliceFacts ==
  ASSUME Struct, NEW a \in Int, NEW b \in Int
  PROVE  LET Within(k) == /\ IF a < 0 THEN k - count > a ELSE k > a
                          /\ IF b < 0 THEN k - count <= b + 1 ELSE k <= b + 1
             found == Slice(a, b)
             chosen == {k \in 1..count : Within(k)}
         IN  /\ Len(found) = Cardinality(chosen)
             /\ \A k \in chosen : \E i \in DOMAIN found :
                  found[i] = Row[k] /\ i = Cardinality({l \in chosen : l <= k})
<1> DEFINE Within(k) == /\ IF a < 0 THEN k - count > a ELSE k > a
                        /\ IF b < 0 THEN k - count <= b + 1 ELSE k <= b + 1
           chosen == {k \in 1..count : Within(k)}
           Plain(k) == IF k < 0 THEN count + k ELSE k
           from == IF Plain(a) < 0 THEN 0 ELSE Plain(a)
           to == IF Plain(b) >= count THEN count - 1 ELSE Plain(b)
<1>1. count \in Nat /\ Row \in [1..count -> Live] /\ Chain = Row
  BY RowFacts, ChainIsRow
<1>2. from \in Nat /\ to \in Int /\ to < count
  BY <1>1
<1>3. chosen = (from + 1)..(to + 1)
  BY <1>1
<1>4. Slice(a, b) = IF from > to THEN <<>> ELSE SubSeq(Row, from + 1, to + 1)
  BY <1>1 DEF Slice
<1> DEFINE found == Slice(a, b)
<1>5. CASE from > to
  <2>1. chosen = {}
    <3> HIDE DEF from, to, chosen
    <3> QED
      BY <1>2, <1>3, <1>5
  <2>2. Cardinality(chosen) = 0 /\ found = <<>> /\ Len(<<>>) = 0
    <3> HIDE DEF chosen, from, to
    <3> QED
      BY <1>4, <1>5, <2>1, FS_EmptySet
  <2>3. Len(found) = Cardinality(chosen)
    <3> HIDE DEF chosen, found
    <3> QED
      BY <2>2
  <2> HIDE DEF chosen, found
  <2> QED
    BY <2>1, <2>3 DEF chosen, found
<1>6. CASE ~(from > to)
  <2> HIDE DEF from, to, chosen
  <2>1. /\ Row \in Seq(Live) /\ Len(Row) = count
        /\ from + 1 \in 1..count /\ to + 1 \in 1..count /\ from + 1 \in Int /\ to + 1 \in Int
    BY <1>1, <1>2, <1>6
  <2>2. found = SubSeq(Row, from + 1, to + 1)
    BY <1>4, <1>6
  <2>3. /\ Len(found) = to + 1 - from /\ DOMAIN found = 1..(to + 1 - from)
        /\ \A i \in 1..(to + 1 - from) : found[i] = Row[i + from]
    <3> HIDE DEF found
    <3> QED
      BY <1>2, <1>6, <2>1, <2>2
  <2>4. Cardinality(chosen) = to + 1 - from
    BY <1>2, <1>3, <1>6, <2>1, FS_Interval
  <2>5. ASSUME NEW k \in chosen
        PROVE  \E i \in DOMAIN found :
                 found[i] = Row[k] /\ i = Cardinality({l \in chosen : l <= k})
    <3>1. k \in Int /\ from + 1 <= k /\ k <= to + 1
      BY <1>2, <1>3
    <3>2. {l \in chosen : l <= k} = (from + 1)..k
      BY <1>2, <1>3, <3>1
    <3>3. Cardinality((from + 1)..k) = k - from
      BY <1>2, <2>1, <3>1, FS_Interval
    <3>4. k - from \in 1..(to + 1 - from) /\ (k - from) + from = k
      BY <1>2, <3>1
    <3>5. found[k - from] = Row[k]
      <4> HIDE DEF found
      <4> QED
        BY <2>3, <3>4
    <3>6. k - from \in DOMAIN found
      <4> HIDE DEF found
      <4> QED
        BY <2>3, <3>4
    <3> HIDE DEF found
    <3> QED
      BY <3>2, <3>3, <3>5, <3>6
  <2> HIDE DEF found
  <2> QED
    BY <2>3, <2>4, <2>5 DEF chosen, found
<1> QED
  BY <1>5, <1>6

LEMMA StructSearches ==
  ASSUME Struct
  PROVE  SearchSound
<1> DEFINE Within(k, a, b) == /\ IF a < 0 THEN k - count > a ELSE k > a
                              /\ IF b < 0 THEN k - count <= b + 1 ELSE k <= b + 1
           own(m) == {k \in 1..count : node[Row[k]].member = m}
           chosen(a, b) == {k \in 1..count : Within(k, a, b)}
<1>1. count \in Nat /\ Row \in [1..count -> Live] /\ Chain = Row /\ Sorted = Row
  BY RowFacts, ChainIsRow, SortedIsRow
<1>2. Len(Row) = count
  BY <1>1
<1>3. ASSUME NEW m \in Members
      PROVE  IF own(m) = {} THEN GetRank(m) = -1
             ELSE /\ GetRank(m) + 1 \in own(m) /\ \A k \in own(m) : GetRank(m) < k
                  /\ GetScore(m) = node[Row[GetRank(m) + 1]].score
  <2>1. \A k \in 1..count : Row[k] \in Live
    BY <1>1
  <2>2. CASE PositionOf(m) = 0 /\ \A n \in Live : node[n].member # m
    <3>1. own(m) = {}
      BY <2>1, <2>2
    <3>2. GetRank(m) = -1
      BY <2>2 DEF GetRank
    <3> QED
      BY <3>1, <3>2
  <2>3. CASE /\ PositionOf(m) \in 1..count /\ node[Row[PositionOf(m)]].member = m
             /\ \A k \in 1..count : node[Row[k]].member = m => PositionOf(m) <= k
    <3>1. PositionOf(m) \in own(m) /\ \A k \in own(m) : PositionOf(m) <= k
      BY <2>3
    <3>2. GetRank(m) = PositionOf(m) - 1 /\ PositionOf(m) \in Nat /\ PositionOf(m) # 0
      BY <1>1, <2>3 DEF GetRank
    <3>3. GetRank(m) + 1 = PositionOf(m) /\ \A k \in own(m) : GetRank(m) < k
      BY <1>1, <3>1, <3>2
    <3>4. GetScore(m) = node[Row[PositionOf(m)]].score
      BY <1>1, <3>2 DEF GetScore
    <3> QED
      BY <3>1, <3>3, <3>4
  <2> QED
    BY <2>2, <2>3, PositionFacts
<1>4. ASSUME NEW a \in -(count + 1)..count, NEW b \in -(count + 1)..count
      PROVE  /\ Len(Slice(a, b)) = Cardinality(chosen(a, b))
             /\ \A k \in chosen(a, b) : \E i \in DOMAIN Slice(a, b) :
                  /\ Slice(a, b)[i] = Row[k]
                  /\ i = Cardinality({l \in chosen(a, b) : l <= k})
  <2>1. a \in Int /\ b \in Int
    BY <1>1
  <2> QED
    BY <2>1, SliceFacts
<1> DEFINE Sound(row, n) ==
             /\ \A m \in Members :
                  LET own_m == {k \in 1..n : node[row[k]].member = m}
                      rank == GetRank(m)
                  IN  IF own_m = {} THEN rank = -1
                      ELSE /\ rank + 1 \in own_m /\ \A k \in own_m : rank < k
                           /\ GetScore(m) = node[row[rank + 1]].score
             /\ \A a, b \in -(n + 1)..n :
                  LET found == Slice(a, b)
                      chosen_ab == {k \in 1..n :
                                      /\ IF a < 0 THEN k - n > a ELSE k > a
                                      /\ IF b < 0 THEN k - n <= b + 1 ELSE k <= b + 1}
                  IN  /\ Len(found) = Cardinality(chosen_ab)
                      /\ \A k \in chosen_ab : \E i \in DOMAIN found :
                           found[i] = row[k] /\ i = Cardinality({l \in chosen_ab : l <= k})
<1>5. SearchSound <=> (~Dangling => Sound(Sorted, Len(Sorted)))
  BY DEF SearchSound
<1>6. Sound(Row, count)
  BY <1>3, <1>4
<1> HIDE DEF Sound
<1> QED
  BY <1>1, <1>2, <1>5, <1>6

-----------------------------------------------------------------------------
(* Removal.                                                                *)

\* The nodes a removal walks over.
Other(m) == {n \in Live : node[n].member # m}

\* The node removed is the first of the member.
LEMMA TargetFacts ==
  ASSUME Struct, NEW m, PositionOf(m) # 0
  PROVE  /\ Chain[PositionOf(m)] \in Live /\ Chain[PositionOf(m)] \in Ids
         /\ Chain[PositionOf(m)] # Header
         /\ node[Chain[PositionOf(m)]].member = m
         /\ \A n \in Live : node[n].member = m =>
              n = Chain[PositionOf(m)] \/ Precedes(Chain[PositionOf(m)], n)
<1>1. /\ PositionOf(m) \in 1..count /\ node[Row[PositionOf(m)]].member = m
      /\ \A k \in 1..count : node[Row[k]].member = m => PositionOf(m) <= k
  BY PositionFacts
<1>2. count \in Nat /\ Chain = Row /\ Row[PositionOf(m)] \in Live
  BY <1>1, RowFacts, ChainIsRow
<1>3. \A n \in Live : node[n].member = m =>
        n = Row[PositionOf(m)] \/ Precedes(Row[PositionOf(m)], n)
  <2> TAKE n \in Live
  <2> HAVE node[n].member = m
  <2>1. Pos(n) \in 1..count /\ Row[Pos(n)] = n
    BY RowFacts
  <2>2. PositionOf(m) <= Pos(n)
    BY <1>1, <2>1
  <2>3. PositionOf(m) = Pos(n) \/ PositionOf(m) < Pos(n)
    BY <1>1, <1>2, <2>1, <2>2
  <2> QED
    BY <1>1, <2>1, <2>3, RowFacts
<1> QED
  BY <1>1, <1>2, <1>3, StructParts

LEMMA LinkFacts ==
  ASSUME Struct
  PROVE  /\ \A n \in {Header} \cup Ids, i \in Levels :
              /\ next[n][i] \in Live \cup {Nil}
              /\ next[n][i] # Nil => On(n, i) /\ n \in {Header} \cup Live
                                     /\ next[n][i] \in Tall(i) /\ Behind(n, next[n][i])
         /\ \A n \in Live, i \in Levels : next[n][i] # n
         /\ \A i \in Levels : \A n \in Tall(i) : i <= level
<1>1. /\ Live \subseteq Ids /\ Nil \notin Ids /\ \A i \in Levels : i \in Nat /\ Tall(i) \subseteq Live
      /\ \A n \in Live : node[n].height \in Nat /\ node[n].height <= level
      /\ level \in Nat
  BY StructParts, BoundsAssumption DEF Struct, Tall, Levels
<1>2. \A n \in {Header} \cup Ids, i \in Levels :
        next[n][i] # Nil => On(n, i) /\ n \in {Header} \cup Live
  BY <1>1 DEF Struct, On, Tall
<1>3. \A n \in {Header} \cup Ids, i \in Levels :
        next[n][i] # Nil => next[n][i] \in Tall(i) /\ Behind(n, next[n][i])
  <2> TAKE n \in {Header} \cup Ids, i \in Levels
  <2> HAVE next[n][i] # Nil
  <2>1. Linked(n, i)
    BY <1>2 DEF Struct
  <2> QED
    BY <2>1 DEF Linked
<1>4. \A n \in Live, i \in Levels : next[n][i] # n
  <2> TAKE n \in Live, i \in Levels
  <2>1. n \in Ids /\ n # Nil
    BY <1>1
  <2> QED
    BY <1>3, <2>1, Order, BehindFacts
<1>5. \A i \in Levels : \A n \in Tall(i) : i <= level
  BY <1>1 DEF Tall
<1> QED
  BY <1>1, <1>2, <1>3, <1>4, <1>5

\* What the removal of node t of a member changes.
Removed(m, t) ==
  /\ PositionOf(m) # 0
  /\ node' = [n \in Live \ {t} |-> node[n]] /\ Live' = Live \ {t}
  /\ next' \in [{Header} \cup Ids -> [Levels -> Ids \cup {Nil}]]
  /\ \A n \in {Header} \cup Ids, i \in Levels : next'[n][i] =
       IF n = t THEN Nil
       ELSE IF i <= level /\ n = Update(Other(m))[i] /\ next[n][i] = t
       THEN next[t][i] ELSE next[n][i]
  /\ level' \in 1..level
  /\ \A j \in 1..level : next'[Header][j] # Nil => j <= level'
  /\ count' = count - 1

LEMMA RemoveChanges ==
  ASSUME Struct, NEW m, RemoveMember(m), NEW t, t = Chain[PositionOf(m)]
  PROVE  Removed(m, t)
<1> DEFINE u == Update(Other(m))
           links == [n \in DOMAIN next |-> [i \in Levels |->
                      IF i <= level /\ n = u[i] /\ next[n][i] = t
                      THEN next[t][i] ELSE next[n][i]]]
<1>1. /\ PositionOf(m) # 0
      /\ node' = [n \in Live \ {t} |-> node[n]]
      /\ next' = [links EXCEPT ![t] = [i \in Levels |-> Nil]]
      /\ level' = Shrunk(links)
      /\ count' = count - 1
  BY DEF RemoveMember, RemoveUpTo, Other
<1> HIDE DEF u
<1>2. /\ next \in [{Header} \cup Ids -> [Levels -> Ids \cup {Nil}]]
      /\ DOMAIN next = {Header} \cup Ids
      /\ t \in Live /\ t \in Ids /\ t # Header
      /\ level \in Nat /\ level >= 1 /\ 1..level \subseteq Levels
  BY <1>1, TargetFacts, BoundsAssumption DEF Struct, Levels
<1>3. Live' = Live \ {t}
  BY <1>1 DEF Live
<1>4. \A n \in {Header} \cup Ids, i \in Levels : next'[n][i] =
        IF n = t THEN Nil
        ELSE IF i <= level /\ n = u[i] /\ next[n][i] = t
        THEN next[t][i] ELSE next[n][i]
  BY <1>1, <1>2
<1>5. next' \in [{Header} \cup Ids -> [Levels -> Ids \cup {Nil}]]
  <2>1. links \in [{Header} \cup Ids -> [Levels -> Ids \cup {Nil}]]
    BY <1>2
  <2> HIDE DEF links
  <2> QED
    BY <1>1, <2>1
<1>6. \A j \in 1..level : links[Header][j] = next'[Header][j]
  BY <1>1, <1>2
<1>7. level' \in 1..level /\ \A j \in 1..level : next'[Header][j] # Nil => j <= level'
  <2> DEFINE S == {i \in 1..level : i = 1 \/ links[Header][i] # Nil}
  <2> HIDE DEF links
  <2>1. S \in SUBSET (0..level) /\ 1 \in S
    BY <1>2
  <2>2. \E i \in S : \A j \in S : j <= i
    <3> HIDE DEF S
    <3> QED
      BY <1>2, <2>1, GreatestNatural
  <2>3. level' \in S /\ \A j \in S : j <= level'
    <3>1. level' = CHOOSE i \in S : \A j \in S : j <= i
      BY <1>1 DEF Shrunk
    <3> HIDE DEF S
    <3> QED
      BY <2>2, <3>1
  <2> QED
    BY <1>6, <2>3
<1> QED
  BY <1>1, <1>3, <1>4, <1>5, <1>7 DEF u, Removed

\* A link is left to the freed node when the update of a level is not the node
\* before it.
LEMMA DanglesWhen ==
  ASSUME Struct, NEW m, RemoveMember(m), NEW t, t = Chain[PositionOf(m)]
  PROVE  Dangling' <=> \E n \in {Header} \cup Live, i \in Levels :
                         n # t /\ next[n][i] = t /\ n # Update(Other(m))[i]
<1> DEFINE u == Update(Other(m))
<1>a. Removed(m, t)
  BY RemoveChanges
<1>1. /\ PositionOf(m) # 0 /\ Live' = Live \ {t}
      /\ \A n \in {Header} \cup Ids, i \in Levels : next'[n][i] =
              IF n = t THEN Nil
              ELSE IF i <= level /\ n = u[i] /\ next[n][i] = t
              THEN next[t][i] ELSE next[n][i]
  BY <1>a DEF Removed
<1> HIDE DEF u
<1>2. t \in Live /\ Live \subseteq Ids /\ t # Header /\ Header \notin Live /\ Nil \notin Ids
  BY <1>1, TargetFacts, StructParts
<1>3. Dangling' <=> \E n \in {Header} \cup Live', i \in Levels : next'[n][i] \in Ids \ Live'
  BY DEF Dangling, Link, Ids, Header, Levels
<1>4. \A n \in {Header} \cup Live', i \in Levels :
        next'[n][i] \in Ids \ Live' <=> next[n][i] = t /\ n # u[i]
  <2> TAKE n \in {Header} \cup Live', i \in Levels
  <2>1. n \in {Header} \cup Ids /\ n # t /\ n \in {Header} \cup Live
    BY <1>1, <1>2
  <2>2. next[n][i] \in Live \cup {Nil} /\ next[t][i] \in Live \cup {Nil} /\ next[t][i] # t
    BY <1>2, <2>1, LinkFacts
  <2>3. next[n][i] = t => i <= level
    BY <1>2, <2>1, LinkFacts
  <2> QED
    BY <1>1, <1>2, <2>1, <2>2, <2>3
<1> QED
  BY <1>1, <1>2, <1>3, <1>4 DEF u

LEMMA RemoveKeeps ==
  ASSUME Struct, NEW m, RemoveMember(m), ~Dangling'
  PROVE  Struct'
<1>1. PICK t : t = Chain[PositionOf(m)]
  OBVIOUS
<1>a. Removed(m, t)
  BY <1>1, RemoveChanges
<1>2. /\ PositionOf(m) # 0
      /\ node' = [n \in Live \ {t} |-> node[n]] /\ Live' = Live \ {t}
      /\ next' \in [{Header} \cup Ids -> [Levels -> Ids \cup {Nil}]]
      /\ \A n \in {Header} \cup Ids, i \in Levels : next'[n][i] =
           IF n = t THEN Nil
           ELSE IF i <= level /\ n = Update(Other(m))[i] /\ next[n][i] = t
           THEN next[t][i] ELSE next[n][i]
      /\ level' \in 1..level
      /\ \A j \in 1..level : next'[Header][j] # Nil => j <= level'
      /\ count' = count - 1
  BY <1>a DEF Removed
<1>3. /\ t \in Live /\ t \in Ids /\ t # Header /\ Live \subseteq Ids
      /\ Header \notin Live /\ Nil \notin Ids
      /\ level \in Nat /\ level \in Levels /\ 1..level \subseteq Levels
      /\ \A i \in Levels : Tall(i) \subseteq Live
  BY <1>1, <1>2, TargetFacts, StructParts, BoundsAssumption DEF Struct, Levels, Tall
<1>4. \A n \in {Header} \cup Live, i \in Levels : n # t =>
        next'[n][i] = IF next[n][i] = t THEN next[t][i] ELSE next[n][i]
  <2> TAKE n \in {Header} \cup Live, i \in Levels
  <2> HAVE n # t
  <2>1. next[n][i] = t => n = Update(Other(m))[i]
    BY <1>1, DanglesWhen
  <2>2. next[n][i] = t => i <= level
    BY <1>3, LinkFacts
  <2> QED
    BY <1>2, <1>3, <2>1, <2>2
<1>5. \A a \in Live' : a \in Live /\ a # t /\ node'[a] = node[a]
  BY <1>2
<1>6. \A a, b \in Live' : Precedes(a, b)' <=> Precedes(a, b)
  BY <1>5 DEF Precedes
<1>7. \A i \in Levels : Tall(i)' = Tall(i) \ {t}
  BY <1>2, <1>5 DEF Tall
<1>8. \A n \in Ids, i \in Levels : n \notin Tall(i)' => next'[n][i] = Nil
  <2> SUFFICES ASSUME NEW n \in Ids, NEW i \in Levels, n \notin Tall(i)'
               PROVE  next'[n][i] = Nil
    OBVIOUS
  <2>1. CASE n = t
    BY <1>2, <2>1
  <2>2. CASE n # t
    <3>1. n \notin Tall(i)
      BY <1>7, <2>2
    <3>2. next[n][i] = Nil /\ t # Nil
      BY <1>3, <3>1 DEF Struct
    <3> QED
      BY <1>2, <2>2, <3>2
  <2> QED
    BY <2>1, <2>2
<1>9. ASSUME NEW n \in {Header} \cup Live', NEW i \in Levels, On(n, i)'
      PROVE  Linked(n, i)'
  <2>1. n \in {Header} \cup Live /\ n # t /\ On(n, i)
    <3>1. n = Header \/ n \in Tall(i)'
      BY <1>9 DEF On
    <3>2. n = Header \/ (n \in Tall(i) /\ n # t)
      BY <1>7, <3>1
    <3>3. n = Header \/ n \in Live
      BY <1>3, <3>2
    <3> QED
      BY <1>3, <3>2, <3>3 DEF On
  <2>2. Linked(n, i)
    BY <2>1 DEF Struct
  <2>3. PICK x : x = next'[n][i]
    OBVIOUS
  <2>4. Tall(i)' = Tall(i) \ {t} /\ Tall(i)' \subseteq Live'
    BY <1>2, <1>3, <1>7
  <2>5. \A o \in Tall(i)' : Behind(n, o)' <=> Behind(n, o)
    BY <1>3, <1>6, <2>4, <2>1 DEF Behind
  <2>6. CASE next[n][i] = t
    <3>1. x = next[t][i] /\ t \in Tall(i) /\ Behind(n, t)
      BY <1>3, <1>4, <2>1, <2>3, <2>6, LinkFacts
    <3>2. Linked(t, i)
      BY <1>3, <3>1 DEF Struct, On
    <3>3. \A o \in Tall(i)' : Behind(n, o) => Precedes(t, o)
      BY <1>3, <2>2, <2>4, <2>6 DEF Linked
    <3>4. \A o \in Tall(i) : Behind(t, o) <=> Precedes(t, o)
      BY <1>3, BehindFacts
    <3>5. CASE x = Nil /\ \A o \in Tall(i) : ~Behind(t, o)
      <4>1. \A o \in Tall(i)' : ~Behind(n, o)'
        BY <2>4, <2>5, <3>3, <3>4, <3>5
      <4> QED
        BY <2>3, <3>5, <4>1 DEF Linked
    <3>6. CASE /\ x \in Tall(i) /\ Behind(t, x)
               /\ \A o \in Tall(i) : Behind(t, o) => o = x \/ Precedes(x, o)
      <4>1. x \in Tall(i)' /\ x # t /\ x \in Live
        BY <1>3, <2>4, <3>4, <3>6, Order
      <4>2. Behind(n, x)
        BY <1>3, <2>1, <3>1, <3>4, <3>6, <4>1, BehindFacts
      <4>3. \A o \in Tall(i)' : Behind(n, o)' => o = x \/ Precedes(x, o)'
        BY <1>6, <2>4, <2>5, <3>3, <3>4, <3>6, <4>1
      <4> QED
        BY <2>3, <2>5, <4>1, <4>2, <4>3 DEF Linked
    <3> QED
      BY <3>1, <3>2, <3>5, <3>6 DEF Linked
  <2>7. CASE next[n][i] # t
    <3>1. x = next[n][i]
      BY <1>4, <2>1, <2>3, <2>7
    <3>2. CASE x = Nil /\ \A o \in Tall(i) : ~Behind(n, o)
      BY <2>3, <2>4, <2>5, <3>2 DEF Linked
    <3>3. CASE /\ x \in Tall(i) /\ Behind(n, x)
               /\ \A o \in Tall(i) : Behind(n, o) => o = x \/ Precedes(x, o)
      <4>1. x \in Tall(i)'
        BY <2>4, <2>7, <3>1, <3>3
      <4>2. \A o \in Tall(i)' : Behind(n, o)' => o = x \/ Precedes(x, o)'
        BY <1>6, <2>4, <2>5, <3>3, <4>1
      <4> QED
        BY <2>3, <2>5, <3>3, <4>1, <4>2 DEF Linked
    <3> QED
      BY <2>2, <3>1, <3>2, <3>3 DEF Linked
  <2> QED
    BY <2>6, <2>7
<1>10. level' \in Levels /\ \A n \in Live' : node'[n].height <= level'
  <2>1. \A n \in Live' : node'[n].height <= level'
    <3> TAKE n \in Live'
    <3>1. PICK k : k = node[n].height
      OBVIOUS
    <3>2. k \in Levels /\ k \in 1..level /\ node'[n] = node[n] /\ k \in Nat
      BY <1>3, <1>5, <3>1, StructParts DEF Struct, Levels
    <3>3. n \in Tall(k)'
      BY <1>5, <1>7, <3>1, <3>2 DEF Tall
    <3>4. Linked(Header, k)'
      <4>1. On(Header, k)'
        BY DEF On
      <4> QED
        BY <1>9, <3>2, <4>1
    <3>5. n \in Tall(k)' /\ Behind(Header, n)' /\ Tall(k)' \subseteq Ids
      BY <1>3, <1>7, <3>2, <3>3 DEF Behind
    <3>6. next'[Header][k] # Nil
      BY <1>3, <3>4, <3>5 DEF Linked
    <3> QED
      BY <1>2, <3>1, <3>2, <3>6
  <2> QED
    BY <1>2, <1>3, <2>1
<1>11. count' = Cardinality(Live')
  <2>1. count = Cardinality(Live) /\ IsFiniteSet(Live)
    BY StructParts DEF Struct
  <2> QED
    BY <1>2, <1>3, <2>1, FS_RemoveElement
<1>12. Live' \subseteq Ids /\ node' \in [Live' -> Nodes]
  BY <1>2, <1>3 DEF Struct
<1>13. \A a, b \in Live' :
         node'[a].member = node'[b].member /\ node'[a].score = node'[b].score => a = b
  BY <1>5 DEF Struct
<1> QED
  BY <1>2, <1>8, <1>9, <1>10, <1>11, <1>12, <1>13 DEF Struct

\* On a level that t does not reach, the next node behind it is of another
\* member.
Overtaken(m, t) ==
  \E j \in Levels : /\ j > node[t].height
                    /\ \E x \in Tall(j) : /\ Precedes(t, x) /\ node[x].member # m
                                          /\ \A o \in Tall(j) : Precedes(t, o) =>
                                               x = o \/ Precedes(x, o)

LEMMA TallerIsOvertaken ==
  ASSUME Struct, NEW m, PositionOf(m) # 0, NEW t, t = Chain[PositionOf(m)]
  PROVE  TallerBehind(m) <=> Overtaken(m, t)
<1> DEFINE p == PositionOf(m)
           tall(j) == {k \in 1..count : k > p /\ node[Row[k]].height >= j}
           node_tall(j) == {x \in Tall(j) : Precedes(t, x)}
<1>1. /\ count \in Nat /\ Chain = Row /\ Row \in [1..count -> Live] /\ p \in 1..count
      /\ t = Row[p] /\ t \in Live
  BY RowFacts, ChainIsRow, PositionFacts
<1> HIDE DEF p
<1>2. /\ \A k \in 1..count : Row[k] \in Live /\ Pos(Row[k]) = k
      /\ \A n \in Live : Pos(n) \in 1..count /\ Row[Pos(n)] = n
      /\ \A i, j \in 1..count : Precedes(Row[i], Row[j]) <=> i < j
  BY RowFacts
<1>3. TallerBehind(m) <=>
        \E j \in Levels : /\ j > node[t].height
                          /\ \E k \in tall(j) : /\ \A l \in tall(j) : k <= l
                                                /\ node[Row[k]].member # m
  BY <1>1 DEF TallerBehind, p
<1>4. Overtaken(m, t) <=>
        \E j \in Levels : /\ j > node[t].height
                          /\ \E x \in node_tall(j) :
                               /\ \A o \in node_tall(j) : x = o \/ Precedes(x, o)
                               /\ node[x].member # m
  BY DEF Overtaken
<1>5. ASSUME NEW j \in Levels
      PROVE  /\ \A k \in tall(j) : Row[k] \in node_tall(j) /\ k \in 1..count
             /\ \A x \in node_tall(j) : Pos(x) \in tall(j) /\ x \in Live
  <2>1. \A k \in tall(j) : Row[k] \in node_tall(j) /\ k \in 1..count
    BY <1>1, <1>2 DEF Tall
  <2>2. \A x \in node_tall(j) : Pos(x) \in tall(j) /\ x \in Live
    <3> TAKE x \in node_tall(j)
    <3>1. x \in Live /\ node[x].height >= j /\ Precedes(t, x)
      BY DEF Tall
    <3>2. Pos(x) \in 1..count /\ Row[Pos(x)] = x
      BY <1>2, <3>1
    <3>3. p < Pos(x)
      BY <1>1, <1>2, <3>1, <3>2
    <3> QED
      BY <1>1, <3>1, <3>2, <3>3
  <2> QED
    BY <2>1, <2>2
<1> HIDE DEF tall, node_tall
<1>6. ASSUME NEW j \in Levels
      PROVE  (\E k \in tall(j) : /\ \A l \in tall(j) : k <= l
                                 /\ node[Row[k]].member # m)
             <=> (\E x \in node_tall(j) : /\ \A o \in node_tall(j) : x = o \/ Precedes(x, o)
                                          /\ node[x].member # m)
  <2>1. ASSUME NEW k \in tall(j), \A l \in tall(j) : k <= l, node[Row[k]].member # m
        PROVE  \E x \in node_tall(j) : /\ \A o \in node_tall(j) : x = o \/ Precedes(x, o)
                                       /\ node[x].member # m
    <3>1. Row[k] \in node_tall(j) /\ k \in 1..count
      BY <1>5
    <3>2. ASSUME NEW o \in node_tall(j) PROVE Row[k] = o \/ Precedes(Row[k], o)
      <4>1. Pos(o) \in tall(j) /\ Pos(o) \in 1..count /\ Row[Pos(o)] = o
        BY <1>2, <1>5
      <4>2. k = Pos(o) \/ k < Pos(o)
        BY <1>1, <2>1, <3>1, <4>1
      <4> QED
        BY <1>2, <3>1, <4>1, <4>2
    <3> QED
      BY <2>1, <3>1, <3>2
  <2>2. ASSUME NEW x \in node_tall(j), \A o \in node_tall(j) : x = o \/ Precedes(x, o),
               node[x].member # m
        PROVE  \E k \in tall(j) : /\ \A l \in tall(j) : k <= l
                                  /\ node[Row[k]].member # m
    <3>1. Pos(x) \in tall(j) /\ Pos(x) \in 1..count /\ Row[Pos(x)] = x
      BY <1>2, <1>5
    <3>2. ASSUME NEW l \in tall(j) PROVE Pos(x) <= l
      <4>1. Row[l] \in node_tall(j) /\ l \in 1..count
        BY <1>5
      <4>2. x = Row[l] \/ Precedes(x, Row[l])
        BY <2>2, <4>1
      <4>3. Pos(x) = l \/ Pos(x) < l
        BY <1>2, <3>1, <4>1, <4>2
      <4> QED
        BY <1>1, <3>1, <4>1, <4>3
    <3> QED
      BY <2>2, <3>1, <3>2
  <2> QED
    BY <2>1, <2>2
<1> QED
  BY <1>3, <1>4, <1>6

\* An update before t is the node that has the link to it.
LEMMA UpdateBefore ==
  ASSUME Struct, NEW m, PositionOf(m) # 0, NEW t, t = Chain[PositionOf(m)],
         NEW i \in 1..level, t \in Tall(i),
         Update(Other(m))[i] = Header \/ Precedes(Update(Other(m))[i], t)
  PROVE  \A n \in {Header} \cup Live : next[n][i] = t => n = Update(Other(m))[i]
<1> DEFINE w == Update(Other(m))[i]
<1>1. i \in Levels /\ t \in Live /\ Tall(i) \subseteq Live
  BY TargetFacts, BoundsAssumption DEF Struct, Levels, Tall
<1>2. Other(m) \in SUBSET Live
  BY DEF Other
<1>3. On(w, i) /\ next[w][i] \notin Other(m)
  BY <1>2, UpdateHalts DEF Halts
<1> HIDE DEF w
<1>4. w = Header \/ Precedes(w, t)
  BY DEF w
<1>5. w \in {Header} \cup Live /\ Linked(w, i) /\ Behind(w, t)
  BY <1>1, <1>3, <1>4 DEF On, Struct, Behind
<1>6. next[w][i] = t
  <2>1. next[w][i] \in Tall(i) /\ (t = next[w][i] \/ Precedes(next[w][i], t))
    BY <1>5 DEF Linked
  <2>2. node[next[w][i]].member = m
    BY <1>1, <1>3, <2>1 DEF Other
  <2>3. next[w][i] = t \/ Precedes(t, next[w][i])
    BY <1>1, <2>1, <2>2, TargetFacts
  <2> QED
    BY <1>1, <2>1, <2>3, Order
<1>7. ASSUME NEW n \in {Header} \cup Live, next[n][i] = t, n # w PROVE FALSE
  <2>1. n \in {Header} \cup Ids /\ t # Nil
    BY <1>1, StructParts
  <2>2. On(n, i) /\ Linked(n, i) /\ Behind(n, t)
    BY <1>1, <1>7, <2>1, LinkFacts DEF Struct
  <2>3. CASE w \in Tall(i) /\ Behind(n, w)
    <3>1. t = w \/ Precedes(t, w)
      BY <1>7, <2>1, <2>2, <2>3 DEF Linked
    <3> QED
      BY <1>1, <1>4, <2>3, <3>1, Order, BehindFacts
  <2>4. CASE n \in Tall(i) /\ Behind(w, n)
    <3>1. t = n \/ Precedes(t, n)
      BY <1>5, <1>6, <2>1, <2>4 DEF Linked
    <3>2. Precedes(n, t)
      BY <1>1, <2>2, <2>4, BehindFacts
    <3> QED
      BY <1>1, <2>4, <3>1, <3>2, Order
  <2> QED
    BY <1>1, <1>3, <1>7, <2>2, <2>3, <2>4, Order DEF On, Behind
<1> QED
  BY <1>7 DEF w

\* A node before t is one the search for the member goes over.
LEMMA OthersBefore ==
  ASSUME Struct, NEW m, PositionOf(m) # 0, NEW t, t = Chain[PositionOf(m)],
         NEW o \in Live, Precedes(o, t)
  PROVE  o \in Other(m)
<1>1. t \in Live /\ (node[o].member = m => o = t \/ Precedes(t, o))
  BY TargetFacts
<1> QED
  BY <1>1, Order DEF Other

\* Where t is overtaken, the search stands behind it from that level down.
LEMMA OvertakenPasses ==
  ASSUME Struct, NEW m, PositionOf(m) # 0, NEW t, t = Chain[PositionOf(m)],
         Overtaken(m, t)
  PROVE  Update(Other(m))[1] \in Live /\ Precedes(t, Update(Other(m))[1])
<1> DEFINE P == Other(m)
           u(i) == Update(P)[i]
           Past(n) == n \in Live /\ Precedes(t, n)
<1>1. /\ level \in Nat /\ level >= 1 /\ 1..level \subseteq Levels
      /\ t \in Live /\ node[t].member = m /\ P \in SUBSET Live
      /\ \A i \in Levels : Tall(i) \subseteq Live
  BY TargetFacts, BoundsAssumption DEF Struct, Levels, Other, Tall
<1>2. PICK j \in Levels, x \in Live :
        /\ j > node[t].height /\ x \in Tall(j)
        /\ Precedes(t, x) /\ node[x].member # m
        /\ \A o \in Tall(j) : Precedes(t, o) => x = o \/ Precedes(x, o)
  BY <1>1 DEF Overtaken
<1>3. j \in 1..level
  BY <1>1, <1>2, LinkFacts DEF Levels
<1>4. \A i \in 1..level : Halts(Entry(P, i), u(i), i, P)
  BY <1>1, UpdateHalts
<1> HIDE DEF P
<1>5. \A i \in 1..level : u(i) \in {Header} \cup Live
  BY <1>1, <1>4 DEF Halts, On
<1>6. Past(u(j))
  <2> DEFINE w == u(j)
             y == next[w][j]
  <2>1. Halts(Entry(P, j), w, j, P)
    BY <1>3, <1>4
  <2>2. On(w, j) /\ y \notin P
    BY <2>1 DEF Halts
  <2>3. w \in {Header} \cup Live /\ Linked(w, j)
    <3>1. w \in {Header} \cup Live
      BY <1>3, <1>5
    <3> QED
      BY <2>2, <3>1 DEF Struct
  <2> HIDE DEF w
  <2>4. t \notin Tall(j)
    <3>1. node[t].height \in Nat /\ j \in Nat
      BY <1>1, <1>3, StructParts
    <3> QED
      BY <1>2, <3>1 DEF Tall
  <2>5. w # t
    BY <1>1, <2>2, <2>4, StructParts DEF On
  <2>6. ASSUME w = Header \/ Precedes(w, t) PROVE FALSE
    <3>1. Behind(w, x)
      BY <1>1, <1>2, <2>3, <2>6, Order DEF Behind
    <3>2. y \in Tall(j) /\ y \in Live /\ (x = y \/ Precedes(y, x))
      BY <1>1, <1>2, <2>3, <3>1 DEF Linked
    <3>3. ~Precedes(y, t)
      BY <2>2, <3>2, OthersBefore DEF P
    <3>4. Precedes(t, y)
      BY <1>1, <2>4, <3>2, <3>3, Order
    <3>5. x = y
      BY <1>2, <3>2, <3>4, Order
    <3> QED
      BY <1>2, <2>2, <3>5 DEF P, Other
  <2> QED
    BY <1>1, <2>3, <2>5, <2>6, Order DEF w
<1> HIDE DEF u
<1> DEFINE S == {i \in 0..j : i # 0 /\ ~Past(u(i))}
<1>7. S = {}
  <2> SUFFICES ASSUME S # {} PROVE FALSE
    OBVIOUS
  <2>1. PICK i \in S : \A k \in S : k <= i
    <3>1. S \in SUBSET (0..j) /\ j \in Nat
      BY <1>1, <1>3
    <3> HIDE DEF S
    <3> QED
      BY <3>1, GreatestNatural
  <2>2. i \in 1..level /\ i # j /\ i # level /\ i + 1 \in 0..j /\ i + 1 # 0 /\ i + 1 \notin S
    BY <1>1, <1>3, <1>6, <2>1
  <2>3. Past(u(i + 1)) /\ Entry(P, i) = u(i + 1)
    BY <2>2 DEF Entry, u
  <2>4. u(i) = u(i + 1) \/ (u(i) \in P /\ Behind(u(i + 1), u(i)))
    BY <1>4, <2>2, <2>3 DEF Halts
  <2>5. Past(u(i))
    BY <1>1, <2>3, <2>4, Order, BehindFacts
  <2> QED
    BY <2>1, <2>5
<1>8. 1 \in 0..j /\ 1 \notin S
  BY <1>3, <1>7
<1>9. Past(u(1))
  BY <1>8
<1> QED
  BY <1>9 DEF u, P

\* Otherwise it stands before it on every level.
LEMMA NotOvertaken ==
  ASSUME Struct, NEW m, PositionOf(m) # 0, NEW t, t = Chain[PositionOf(m)],
         ~Overtaken(m, t), NEW i \in 1..level
  PROVE  Update(Other(m))[i] = Header \/ Precedes(Update(Other(m))[i], t)
<1> DEFINE P == Other(m)
           u(j) == Update(P)[j]
           Before(n) == n = Header \/ (n \in Live /\ Precedes(n, t))
           S == {j \in 0..level : j # 0 /\ ~Before(u(j))}
<1>1. /\ level \in Nat /\ level >= 1 /\ 1..level \subseteq Levels
      /\ t \in Live /\ t # Header /\ node[t].member = m /\ P \in SUBSET Live
      /\ \A j \in Levels : Tall(j) \subseteq Live /\ j \in Nat
      /\ \A n \in Live : node[n].member = m => n = t \/ Precedes(t, n)
  BY TargetFacts, BoundsAssumption DEF Struct, Levels, Other, Tall
<1>2. \A j \in 1..level : On(Entry(P, j), j) /\ Halts(Entry(P, j), u(j), j, P)
  BY <1>1, UpdateHalts
<1> HIDE DEF P, u
<1>3. S = {}
  <2> SUFFICES ASSUME S # {} PROVE FALSE
    OBVIOUS
  <2>1. PICK j \in S : \A k \in S : k <= j
    <3>1. S \in SUBSET (0..level)
      OBVIOUS
    <3> HIDE DEF S
    <3> QED
      BY <1>1, <3>1, GreatestNatural
  <2>2. j \in 1..level /\ j \in Levels /\ ~Before(u(j))
    BY <1>1
  <2> DEFINE s == Entry(P, j)
             w == u(j)
  <2>3. Before(s)
    <3>1. CASE j = level
      BY <3>1 DEF Entry
    <3>2. CASE j # level
      <4>1. j + 1 \in 0..level /\ j + 1 # 0 /\ j + 1 \notin S
        BY <1>1, <2>1, <2>2, <3>2
      <4>2. Before(u(j + 1))
        BY <4>1
      <4> QED
        BY <3>2, <4>2 DEF Entry, u
    <3> QED
      BY <3>1, <3>2
  <2>4. Halts(s, w, j, P)
    BY <1>2, <2>2
  <2> HIDE DEF s, w
  <2>5. /\ On(w, j) /\ (w = s \/ w \in P)
        /\ \A o \in Tall(j) : Behind(s, o) => o \in P \/ (w # o /\ Behind(w, o))
    BY <2>4 DEF Halts
  <2>6. ~Before(w)
    BY <2>2 DEF w
  <2>7. w \in P /\ w \in Live /\ w \in Tall(j)
    BY <1>1, <2>3, <2>5, <2>6 DEF On
  <2>8. w # t /\ Precedes(t, w)
    BY <1>1, <2>6, <2>7, Order DEF P, Other
  <2>9. \A o \in Live : (o = t \/ Precedes(t, o)) => Behind(s, o)
    BY <1>1, <2>3, Order, BehindFacts DEF Behind
  <2>10. CASE j <= node[t].height
    <3>1. t \in Tall(j) /\ Behind(s, t) /\ t \notin P
      BY <1>1, <2>9, <2>10 DEF Tall, P, Other
    <3>2. Behind(w, t)
      BY <2>5, <3>1
    <3> QED
      BY <1>1, <2>7, <2>8, <3>2, Order, BehindFacts
  <2>11. CASE j > node[t].height
    <3> DEFINE T == {o \in Tall(j) : Precedes(t, o)}
    <3>1. T \in SUBSET Live /\ w \in T
      BY <1>1, <2>2, <2>7, <2>8
    <3>2. PICK y \in T : \A o \in T : y = o \/ Precedes(y, o)
      <4> HIDE DEF T
      <4> QED
        BY <3>1, FirstNode
    <3>3. node[y].member = m
      BY <2>2, <2>11, <3>2 DEF Overtaken
    <3>4. y \in Tall(j) /\ y \in Live /\ Behind(s, y) /\ y \notin P
      BY <2>9, <3>1, <3>2, <3>3 DEF P, Other
    <3>5. w # y /\ Behind(w, y)
      BY <2>5, <3>4
    <3>6. y = w \/ Precedes(y, w)
      BY <3>1, <3>2
    <3> QED
      BY <2>7, <3>4, <3>5, <3>6, Order, BehindFacts
  <2>12. node[t].height \in Nat /\ j \in Nat
    BY <1>1, <2>2, StructParts
  <2> QED
    BY <2>10, <2>11, <2>12
<1>4. i \in 0..level /\ i # 0 /\ i \notin S
  BY <1>1, <1>3
<1>5. Before(u(i))
  BY <1>4
<1> QED
  BY <1>5 DEF u, P

LEMMA RemovalDangles ==
  ASSUME Struct, NEW m, RemoveMember(m)
  PROVE  Dangling' <=> TallerBehind(m)
<1>1. PICK t : t = Chain[PositionOf(m)]
  OBVIOUS
<1>2. Removed(m, t)
  BY <1>1, RemoveChanges
<1>3. PositionOf(m) # 0
  BY <1>2 DEF Removed
<1>4. /\ t \in Live /\ t # Header /\ 1 \in Levels /\ Header \notin Live
      /\ level \in Nat /\ level >= 1
  BY <1>1, <1>3, TargetFacts, StructParts, BoundsAssumption DEF Struct, Levels
<1>5. Dangling' <=> \E n \in {Header} \cup Live, i \in Levels :
                      n # t /\ next[n][i] = t /\ n # Update(Other(m))[i]
  BY <1>1, DanglesWhen
<1>6. TallerBehind(m) <=> Overtaken(m, t)
  BY <1>1, <1>3, TallerIsOvertaken
<1>7. ASSUME Overtaken(m, t) PROVE Dangling'
  <2>1. Update(Other(m))[1] \in Live /\ Precedes(t, Update(Other(m))[1])
    BY <1>1, <1>3, <1>7, OvertakenPasses
  <2>2. Pos(t) \in 1..count /\ count \in Nat /\ Pos(Header) = 0
    BY <1>4, Positions
  <2>3. PICK n \in {Header} \cup Live : Pos(n) = Pos(t) - 1
    <3>1. CASE Pos(t) = 1
      BY <2>2, <3>1
    <3>2. CASE Pos(t) # 1
      <4>1. Pos(t) - 1 \in 1..count
        BY <2>2, <3>2
      <4> QED
        BY <4>1, Positions
    <3> QED
      BY <3>1, <3>2
  <2>4. next[n][1] \in Live /\ Pos(next[n][1]) = Pos(t)
    <3>1. Pos(n) # count /\ (Pos(t) - 1) + 1 = Pos(t)
      BY <2>2, <2>3
    <3> QED
      BY <2>3, <3>1, Positions
  <2>5. next[n][1] = t
    BY <1>4, <2>4, RowFacts
  <2>6. n # t
    BY <2>2, <2>3
  <2>7. n # Update(Other(m))[1]
    <3>1. Pos(t) < Pos(Update(Other(m))[1])
      BY <1>4, <2>1, Positions
    <3> QED
      BY <2>2, <2>3, <3>1
  <2> QED
    BY <1>4, <1>5, <2>3, <2>5, <2>6, <2>7
<1>8. ASSUME ~Overtaken(m, t) PROVE ~Dangling'
  <2> SUFFICES ASSUME NEW n \in {Header} \cup Live, NEW i \in Levels, next[n][i] = t
               PROVE  n = Update(Other(m))[i]
    BY <1>5
  <2>1. t \in Tall(i)
    BY <1>4, StructParts, LinkFacts
  <2>2. i \in 1..level
    BY <1>4, <2>1, LinkFacts DEF Levels
  <2>3. Update(Other(m))[i] = Header \/ Precedes(Update(Other(m))[i], t)
    BY <1>1, <1>3, <1>8, <2>2, NotOvertaken
  <2> QED
    BY <1>1, <1>3, <2>1, <2>2, <2>3, UpdateBefore
<1> QED
  BY <1>6, <1>7, <1>8

-----------------------------------------------------------------------------
(* The theorems about the sorted sets.                                     *)

\* The list is well made until a link to a freed node is left.
Built == ~Dangling => Struct

LEMMA InitBuilt ==
  ASSUME ListInit
  PROVE  Struct
<1>1. Live = {} /\ node = <<>> /\ count = 0 /\ level = 1
  BY DEF ListInit, Live
<1>2. /\ next \in [{Header} \cup Ids -> [Levels -> Ids \cup {Nil}]]
      /\ \A n \in {Header} \cup Ids, i \in Levels : next[n][i] = Nil
  BY DEF ListInit
<1>3. \A i : Tall(i) = {}
  BY <1>1 DEF Tall
<1>4. \A n \in {Header} \cup Live, i \in Levels : On(n, i) => Linked(n, i)
  BY <1>1, <1>2, <1>3 DEF Linked
<1>5. level \in Levels
  BY <1>1, BoundsAssumption DEF Levels
<1>6. count = Cardinality(Live)
  BY <1>1, FS_EmptySet
<1>7. node \in [Live -> Nodes]
  BY <1>1
<1> QED
  BY <1>1, <1>2, <1>3, <1>4, <1>5, <1>6, <1>7 DEF Struct

LEMMA BuiltStep ==
  ASSUME Built, [ListNext]_listVars
  PROVE  Built'
<1>1. CASE UNCHANGED listVars
  <2>1. Dangling' <=> Dangling
    BY <1>1 DEF listVars, Dangling, Live, Link, Header, Ids, Levels
  <2> QED
    BY <1>1, <2>1, SameStruct DEF Built
<1>2. CASE ListNext
  <2>1. Struct
    BY <1>2 DEF ListNext, Built
  <2>2. ASSUME NEW m \in Members, NEW s \in Scores, NEW h \in Levels,
               Live # Ids, Insert(m, s, h)
        PROVE  Struct'
    BY <2>1, <2>2, InsertKeeps
  <2>3. ASSUME NEW m \in Members, RemoveMember(m)
        PROVE  Built'
    BY <2>1, <2>3, RemoveKeeps DEF Built
  <2> QED
    BY <1>2, <2>2, <2>3 DEF ListNext, Built
<1> QED
  BY <1>1, <1>2

THEOREM Build == ListSpec => []Built
<1>1. ListInit => Built
  BY InitBuilt DEF Built
<1>2. Built /\ [ListNext]_listVars => Built'
  BY BuiltStep
<1> QED
  BY <1>1, <1>2, PTL DEF ListSpec

\* For any sets and any number of levels and nodes: the ranks, the scores and
\* the ranges found are those of the nodes in order (SkipList::get_rank,
\* get_score and range of db.cpp).
THEOREM SearchesFind == ListSpec => []SearchSound
<1>1. Built => SearchSound
  BY StructSearches DEF Built, SearchSound
<1> QED
  BY <1>1, Build, PTL

\* For the same: a removal leaves a link to the freed node exactly when a
\* taller node of another member comes next (SkipList::remove of db.cpp).
THEOREM RemovalsDangle == ListSpec => CleanRemoval
<1>1. Built /\ [ListNext]_listVars
        => [\A m \in Members : RemoveMember(m) => (Dangling' <=> TallerBehind(m))]_listVars
  <2> SUFFICES ASSUME Built, [ListNext]_listVars, ~UNCHANGED listVars, NEW m \in Members, RemoveMember(m)
               PROVE  Dangling' <=> TallerBehind(m)
    OBVIOUS
  <2>1. Struct
    BY DEF ListNext, Built
  <2> QED
    BY <2>1, RemovalDangles
<1> QED
  BY <1>1, Build, PTL DEF ListSpec, CleanRemoval
=============================================================================
