------------------------------ MODULE Keyspace ------------------------------
(***************************************************************************)
(* The server's keys and their deadlines: class Database                   *)
(* (src/mini_redis/src/db.cpp) as the single-threaded loop of server.cpp   *)
(* drives it, one command or one expiry cycle at a time.                   *)
(*                                                                         *)
(* A key past its deadline is removed when a command that looks for it     *)
(* comes by, or by the expiry cycle that runs at most once a second.       *)
(* Until then the object is still stored, and the commands do not agree    *)
(* on whether it is there.                                                 *)
(*                                                                         *)
(* Time is kept per key, as the seconds left to its deadline, so that it   *)
(* needs no bound.  A string is 1 if it reads as an integer and 0 if not;  *)
(* any other value is the number of its elements.                          *)
(***************************************************************************)
EXTENDS Integers, FiniteSets

CONSTANTS Keys,
          Absent,      \* no object under the key
          Never,       \* no deadline
          MaxTTL,      \* bound: the longest deadline given
          MaxSize,     \* bound: elements of a list, hash, set or sorted set
          MaxSamples   \* deadlines looked at by one expiry cycle

Collections == {"list", "hash", "set", "zset"}
Object(t, n) == [type |-> t, data |-> n]
Objects == {Object("string", n) : n \in 0..1} \union
           {Object(t, n) : t \in Collections, n \in 0..MaxSize}

ASSUME ConstantsAssumption ==
  /\ IsFiniteSet(Keys)
  /\ Absent \notin Objects /\ Never \notin Int
  /\ MaxTTL \in Nat /\ MaxSize \in Nat /\ MaxSamples \in Nat

VARIABLES
  store,   \* the object under each key
  left,    \* seconds to each key's deadline, -1 once past
  due,     \* a second has gone by since the last expiry cycle
  told,    \* what the last reply said of each key
  up,      \* the process runs
  before   \* history: what was visible when it stopped

data == <<store, left>>
process == <<up, before>>
vars == <<data, due, told, process>>

Expired(k) == left[k] = -1
Visible(k) == store[k] # Absent /\ ~Expired(k)

Init ==
  /\ store = [k \in Keys |-> Absent]
  /\ left = [k \in Keys |-> Never]
  /\ due = FALSE
  /\ told = [k \in Keys |-> "unknown"]
  /\ up = TRUE /\ before = {}

-----------------------------------------------------------------------------
(* Replies.                                                                *)

Tells(answer) == told' = answer
TellsOf(k, answer) == Tells([j \in Keys |-> IF j = k THEN answer ELSE "unknown"])
TellsNothing == Tells([j \in Keys |-> "unknown"])

-----------------------------------------------------------------------------
(* The private helpers of Database.                                        *)

Put(k, obj, l) ==
  /\ store' = [store EXCEPT ![k] = obj]
  /\ left' = [left EXCEPT ![k] = l]

\* Mutant: the deadline stays behind.
EraseKeepsDeadline(K) ==
  /\ store' = [k \in Keys |-> IF k \in K THEN Absent ELSE store[k]]
  /\ UNCHANGED left

\* Mutant: only the deadline goes.
EraseKeepsObject(K) ==
  /\ left' = [k \in Keys |-> IF k \in K /\ store[k] # Absent THEN Never ELSE left[k]]
  /\ UNCHANGED store

\* _del_nolock: the deadline goes with the object.
Erase(K) ==
  /\ store' = [k \in Keys |-> IF k \in K THEN Absent ELSE store[k]]
  /\ left' = [k \in Keys |-> IF k \in K /\ store[k] # Absent THEN Never ELSE left[k]]

\* What a command finds that first expires its key (_expire_key_if_needed_nolock).
Found(k) == IF Expired(k) THEN Absent ELSE store[k]
FoundLeft(k) == IF Expired(k) /\ store[k] # Absent THEN Never ELSE left[k]
Settle(k) == Put(k, Found(k), FoundLeft(k))

\* Mutant: no look at the type.
UsableWhatever(k, t) == TRUE

\* get_or_create: looks for the key as it is stored, its deadline unseen.
Usable(k, t) == store[k] = Absent \/ store[k].type = t
Size(k) == IF store[k] = Absent THEN 0 ELSE store[k].data

\* A command is being executed; only the data and the reply change.
Serving == up /\ UNCHANGED <<due, process>>

-----------------------------------------------------------------------------
(* The commands.                                                           *)

\* set: a new object under the old deadline.
Set(k, n) ==
  /\ Put(k, Object("string", n), left[k])
  /\ TellsNothing /\ Serving

Get(k) ==
  /\ Settle(k)
  /\ TellsOf(k, IF Found(k) = Absent THEN "absent"
                ELSE IF Found(k).type = "string" THEN "present" ELSE "unknown")
  /\ Serving

\* INCR, DECR, INCRBY and DECRBY; any other value is an error reply.
Incrby(k) ==
  /\ IF Found(k) \in {Absent, Object("string", 1)}
     THEN Put(k, Object("string", 1), FoundLeft(k))
     ELSE Settle(k)
  /\ TellsNothing /\ Serving

Del(K) == Erase(K) /\ TellsNothing /\ Serving

\* rename does not look at the source's deadline, only moves it.
Rename(k, l) ==
  /\ k # l
  /\ IF store[k] = Absent
     THEN UNCHANGED data
     ELSE /\ store' = [store EXCEPT ![l] = store[k], ![k] = Absent]
          /\ left' = [left EXCEPT ![l] = left[k], ![k] = Never]
  /\ TellsNothing /\ Serving

Exists(k) ==
  /\ Settle(k)
  /\ TellsOf(k, IF Found(k) = Absent THEN "absent" ELSE "present")
  /\ Serving

\* KEYS *: leaves the expired keys out but in place.
ListKeys ==
  /\ Tells([k \in Keys |-> IF Visible(k) THEN "present" ELSE "absent"])
  /\ UNCHANGED data /\ Serving

\* Mutant: nothing left already counts as expired.
TtlRoundsDown(k) ==
  /\ TellsOf(k, IF store[k] = Absent \/ left[k] \in {-1, 0} THEN "absent" ELSE "present")
  /\ UNCHANGED data /\ Serving

Ttl(k) ==
  /\ TellsOf(k, IF store[k] = Absent \/ left[k] = -1 THEN "absent" ELSE "present")
  /\ UNCHANGED data /\ Serving

\* Adds n new elements; the handler of a wrong type replies -1.
Add(k, t, n) ==
  /\ IF Usable(k, t)
     THEN /\ Size(k) + n \in 1..MaxSize
          /\ Put(k, Object(t, Size(k) + n), left[k])
     ELSE UNCHANGED data
  /\ TellsNothing /\ Serving

Push(k) == Add(k, "list", 1)
Hset(k) == \E n \in 0..1 : Add(k, "hash", n)
Sadd(k) == \E n \in 0..1 : Add(k, "set", n)
Zadd(k) == \E n \in 0..1 : Add(k, "zset", n)

\* Takes n elements out, of a value of type t.
Remove(k, t, n) ==
  /\ IF Found(k) # Absent /\ Found(k).type = t
     THEN /\ n <= Found(k).data
          /\ Put(k, Object(t, Found(k).data - n), FoundLeft(k))
     ELSE Settle(k)
  /\ TellsNothing /\ Serving

\* A pop of an emptied list takes nothing: the key stays.
Pop(k) == Remove(k, "list", IF Found(k) # Absent /\ Found(k).data > 0 THEN 1 ELSE 0)
Hdel(k) == \E n \in 0..1 : Remove(k, "hash", n)
Srem(k) == \E n \in 0..1 : Remove(k, "set", n)
Zrem(k) == \E n \in 0..1 : Remove(k, "zset", n)

\* LRANGE, LLEN, HGET, HGETALL, SMEMBERS, ZRANGE and their like: nothing is
\* what a missing key, a wrong type and an empty value all look like.
Read(k, t) ==
  /\ Settle(k)
  /\ TellsOf(k, IF Found(k) # Absent /\ Found(k).type = t /\ Found(k).data > 0
                THEN "present" ELSE "unknown")
  /\ Serving

\* expire: the deadline of whatever is stored, past its own or not.
Expire(k, s) ==
  /\ left' = [left EXCEPT ![k] = IF store[k] = Absent THEN @ ELSE s]
  /\ TellsNothing /\ UNCHANGED store /\ Serving

Flushdb ==
  /\ store' = [k \in Keys |-> Absent]
  /\ left' = [k \in Keys |-> Never]
  /\ TellsNothing /\ Serving

-----------------------------------------------------------------------------
(* The clock, the expiry cycle and the process.                            *)

Tick ==
  /\ left' = [k \in Keys |-> IF left[k] \in {Never, -1} THEN left[k] ELSE left[k] - 1]
  /\ due' = TRUE
  /\ TellsNothing /\ up /\ UNCHANGED <<store, process>>

\* Mutant: a deadline counts as past in its last second.
ActiveExpireEarly ==
  /\ up /\ due
  /\ Erase({k \in Keys : left[k] \in {-1, 0}})
  /\ due' = FALSE /\ TellsNothing /\ UNCHANGED process

\* Mutant: the cycle stops one deadline short.
ActiveExpireOneShort ==
  /\ up /\ due
  /\ \E S \in SUBSET {k \in Keys : left[k] # Never} :
       /\ \/ S = {k \in Keys : left[k] # Never} /\ Cardinality(S) < MaxSamples
          \/ Cardinality(S) = MaxSamples - 1
       /\ Erase({k \in S : Expired(k)})
  /\ due' = FALSE /\ TellsNothing /\ UNCHANGED process

\* active_expire_cycle: the expired ones of the first deadlines it meets, in
\* the order of a hash table.
ActiveExpire ==
  /\ up /\ due
  /\ \E S \in SUBSET {k \in Keys : left[k] # Never} :
       /\ \/ S = {k \in Keys : left[k] # Never} /\ Cardinality(S) <= MaxSamples
          \/ Cardinality(S) = MaxSamples
       /\ Erase({k \in S : Expired(k)})
  /\ due' = FALSE /\ TellsNothing /\ UNCHANGED process

\* The process ends, and all that it kept is gone.
Stop ==
  /\ up
  /\ store' = [k \in Keys |-> Absent]
  /\ left' = [k \in Keys |-> Never]
  /\ due' = FALSE /\ TellsNothing
  /\ up' = FALSE /\ before' = {k \in Keys : Visible(k)}

\* load_aof counts the lines of the log and replays none.
Start ==
  /\ ~up
  /\ up' = TRUE /\ before' = {}
  /\ UNCHANGED <<data, due, told>>

\* RENAME of a key to itself erases its object and then goes on with the
\* dangling iterator: the key is lost or the process is.
RenameSelf(k) ==
  /\ store[k] # Absent
  /\ \/ Erase({k}) /\ TellsNothing /\ Serving
     \/ Stop

-----------------------------------------------------------------------------
Write(k) ==
  \/ \E n \in 0..1 : Set(k, n)
  \/ Incrby(k) \/ Push(k) \/ Hset(k) \/ Sadd(k) \/ Zadd(k)
  \/ Pop(k) \/ Hdel(k) \/ Srem(k) \/ Zrem(k)
  \/ \E s \in -1..MaxTTL : Expire(k, s)

Query(k) == Get(k) \/ Exists(k) \/ Ttl(k) \/ \E t \in Collections : Read(k, t)

Next ==
  \/ \E k \in Keys : Write(k) \/ Query(k) \/ RenameSelf(k)
  \/ \E k, l \in Keys : Rename(k, l)
  \/ \E K \in SUBSET Keys \ {{}} : Del(K)
  \/ ListKeys \/ Flushdb
  \/ Tick \/ ActiveExpire \/ Stop \/ Start

Spec == Init /\ [][Next]_vars

\* Time passes and the server's loop comes round to its expiry cycle.
FairSpec == Spec /\ WF_vars(Tick) /\ WF_vars(ActiveExpire)

-----------------------------------------------------------------------------
(* Properties.                                                             *)

\* Every variable stays in its domain.
TypeOK ==
  /\ store \in [Keys -> Objects \union {Absent}]
  /\ left \in [Keys -> (-1..MaxTTL) \union {Never}]
  /\ due \in BOOLEAN
  /\ told \in [Keys -> {"unknown", "present", "absent"}]
  /\ up \in BOOLEAN /\ before \in SUBSET Keys

\* No deadline outlives its key: an object created later never starts with
\* the deadline of one that is gone.
DeadlineHasKey == \A k \in Keys : left[k] # Never => store[k] # Absent

\* The commands that look at deadlines agree on them: GET, EXISTS, KEYS, TTL
\* and the reads of collections report a key exactly while it is visible.
QueriesAgree ==
  \A k \in Keys : /\ told[k] = "present" => Visible(k)
                  /\ told[k] = "absent" => ~Visible(k)

\* Removing expired keys, by a query or by the cycle, is never seen: every
\* other key and every deadline not yet past stay as they are.
CollectionUnseen ==
  [][(ActiveExpire \/ ListKeys \/ \E k \in Keys : Query(k)) =>
       \A k \in Keys : /\ Visible(k)' <=> Visible(k)
                       /\ Visible(k) => store'[k] = store[k] /\ left'[k] = left[k]]_vars

\* An expired object comes back only where EXPIRE gives it a new deadline;
\* otherwise a key is visible again only through a write that found it gone,
\* or by being renamed over.
NoResurrection ==
  [][\A k \in Keys : Expired(k) /\ Visible(k)' =>
       \/ \E s \in 0..MaxTTL : Expire(k, s)
       \/ Incrby(k) /\ store'[k] = Object("string", 1)
       \/ \E l \in Keys : Rename(l, k) /\ store'[k] = store[l]]_vars

\* A value never turns into one of another type under a client that uses it:
\* only SET, RENAME and removal replace it, whatever a wrong command does.
TypeKept ==
  [][\A k \in Keys : Visible(k) /\ store'[k] # Absent /\ store'[k] # store[k] =>
       \/ store'[k].type = store[k].type
       \/ \E n \in 0..1 : Set(k, n)
       \/ \E l \in Keys : Rename(l, k)]_vars

\* An expired object does not stay in memory, once every deadline fits one
\* cycle's samples.
ExpiredCollected == \A k \in Keys : Expired(k) ~> ~Expired(k)

\* As README.md:125 has it, the log is replayed at a restart: it finds every
\* key that was visible.
RestartRecovers == [][~up /\ up' => \A k \in before : Visible(k)']_vars
=============================================================================
